----------------------------- MODULE MC_Content -----------------------------
(***************************************************************************)
(* The content components, each on its own instance: a run takes one topic *)
(* and leaves the variables of the others as they started.                 *)
(***************************************************************************)
EXTENDS LodMesh, Tags, ModuleLoader, WorldGen, Inventory, Settings

VARIABLES topic

meshVars == <<scene, mesh>>
vars == <<topic, meshVars, tagVars, moduleVars, schematicVars, genVars, inventoryVars, settingVars>>

----------------------------------------------------------------------------
(* Meshes: every pattern of two blocks in the three planes *)

\* A pattern of three by two blocks, lying in each of the three planes.
Patterns == [(0..2) \X (0..1) -> {Air, "stone", "glass"}]
Placed(pattern, axis) ==
    [l \in Cells |-> LET u == IF axis = 1 THEN l[2] ELSE l[1]
                         v == IF axis = 3 THEN l[2] ELSE l[3]
                     IN  IF l[axis] = 1 /\ <<u - 1, v - 1>> \in DOMAIN pattern THEN pattern[<<u - 1, v - 1>>] ELSE Air]

Origin == <<0, 0, 0>>
Lamps == [p \in {<<1, 2, 1>>, <<2, 2, 2>>, <<0, 1, 1>>, <<2, 0, 1>>, <<3, 1, 3>>, <<1, 1, 0>>} |-> <<(p[1] + p[3]) % 3, p[1] % 4>>]
NoLamps == [p \in {Origin} |-> Dark]
Plant == <<[face |-> 6, vertices |-> <<<<0, 0, 0>>, <<1, 0, 1>>, <<1, 1, 1>>>>],
           [face |-> 2, vertices |-> <<<<0, 0, 0>>, <<1, 0, 0>>, <<0, 0, 1>>>>],
           [face |-> 1, vertices |-> <<<<0, 0, 0>>, <<1, 0, 0>>>>]>>

Full(shown, chunk, transparent, custom, light, flags) ==
    LET solid == {ToWorld(chunk, l) : l \in {l \in Cells : shown[l] # Air /\ shown[l] \notin transparent}}
    IN  [lod |-> NoLod, mode |-> FullHeight, blocks |-> shown, chunk |-> chunk, opaque |-> solid,
         occludes |-> solid \X {0, 2, 3}, transparent |-> transparent, custom |-> custom, light |-> light,
         lit |-> light # NoLamps, greedyMeshing |-> "greedy" \in flags, calculateAO |-> "ao" \in flags,
         smooth |-> "smooth" \in flags, flat |-> "flat" \in flags, directional |-> "directional" \in flags,
         disableFaceCulling |-> "all" \in flags]

FullScenes ==
    {Full(Placed(p, axis), Origin, {"glass"}, <<>>, NoLamps, {"greedy"}) : p \in Patterns, axis \in 1..3}
    \cup {Full(Placed(p, axis), Origin, {}, <<>>, Lamps, flags) : p \in {p \in Patterns : p[<<2, 1>>] = Air /\ p[<<2, 0>>] = "stone"},
           axis \in 1..3, flags \in {{"greedy", "ao", "smooth"}, {"ao", "smooth"}, {"greedy", "flat"}}}
    \cup {Full(Placed(p, 2), <<0, -1, 0>>, {}, ("glass" :> Plant), Lamps, {"greedy", "directional", "flat"} \cup more) :
           p \in {p \in Patterns : p[<<2, 1>>] = Air}, more \in {{}, {"all"}, {"ao"}}}

Infos == {[type |-> Air, height |-> 0], [type |-> "stone", height |-> 1], [type |-> "stone", height |-> 2], [type |-> "glass", height |-> 2]}
LodScenes ==
    {LET d == NewLod(1)
         c == <<<<0, 0, 0>>, <<1, 0, 0>>, <<0, 1, 0>>, <<0, 0, 1>>>>
     IN  [lod |-> FoldLeft(LAMBDA acc, i : LodSetBlockInfo(acc, c[i], infos[i]), d, <<1, 2, 3, 4>>), mode |-> mode,
          chunk |-> Origin, opaque |-> outside, light |-> Lamps, lit |-> TRUE, smooth |-> outside = {}, flat |-> FALSE,
          greedyMeshing |-> TRUE, disableFaceCulling |-> FALSE] :
       infos \in [1..4 -> Infos], mode \in {FullHeight, HeightLimited}, outside \in {{}, {<<-2, 0, 0>>, <<0, 0, 4>>}}}

TheScenes == FullScenes \cup LodScenes

----------------------------------------------------------------------------
(* Tags: files with includes, overlapping groups and missing brackets *)

TheItems == {"iron", "a:iron", "b:iron", Line}
TheFiles == {
  <<[op |-> "tag", name |-> "c:ingots/iron"], [op |-> "member", item |-> "iron"], [op |-> "member", item |-> "a:iron"], [op |-> "end"],
    [op |-> "tag", name |-> "c:ingots"], [op |-> "include", name |-> "c:ingots/iron"], [op |-> "end"]>>,
  <<[op |-> "unify"], [op |-> "members", items |-> <<"a:iron", "b:iron">>], [op |-> "end"],
    [op |-> "tag", name |-> "metal"], [op |-> "include", name |-> "c:ingots"], [op |-> "member", item |-> "a:iron"], [op |-> "end"]>>,
  <<[op |-> "separate", items |-> {"b:iron"}], [op |-> "tag", name |-> "metal"], [op |-> "member", item |-> "b:iron"], [op |-> "end"]>>,
  <<[op |-> "tag", name |-> "metal"], [op |-> "member", item |-> "iron"], [op |-> "tag", name |-> "c:ingots"],
    [op |-> "member", item |-> "b:iron"], [op |-> "end"]>>,
  <<[op |-> "unify"], [op |-> "canonical", item |-> "iron"], [op |-> "members", items |-> <<"a:iron">>],
    [op |-> "auto_convert", value |-> FALSE], [op |-> "end"], [op |-> "end"]>>,
  <<[op |-> "tag", name |-> "c:ingots"], [op |-> "include", name |-> "metal"]>> }
TheFamilies == [t \in {"c:ingots", "c:ingots/iron"} |-> "c:ingots"]
TheNamespaces == "iron" :> "" @@ "a:iron" :> "a" @@ "b:iron" :> "b" @@ Line :> ""
TheBases == [i \in TheItems |-> IF i = Line THEN Line ELSE "iron"]
TheIds == "iron" :> 3 @@ "a:iron" :> 1 @@ "b:iron" :> 2 @@ Line :> 4

TheDependencies == {{}, {"a"}, {"a", "b"}}

----------------------------------------------------------------------------
(* Schematics: turned blocks, offsets and data; more types than a byte has *)

Chest == ("a" :> Integer(1)) @@ ("b" :> String(<<7>>))
Snap(type, r, d, data) == [type |-> type, rotation |-> AllRotations[r], displacement |-> d, data |-> data]
TheDesigns == {
  Filled(<<3, 2, 2>>, {<<<<0, 0, 1>>, Snap("stone", 1, NoOffset, <<>>)>>, <<<<1, 0, 1>>, Snap("stairs", 5, NoOffset, <<>>)>>,
                       <<<<1, 1, 1>>, Snap("chest", 3, <<1, 0, 2>>, <<Chest>>)>>, <<<<2, 1, 0>>, Snap("lamp", 1, <<0, -1, 0>>, <<>>)>>}),
  Filled(<<1, 3, 2>>, {<<<<0, 0, 0>>, Snap("stone", 9, NoOffset, <<>>)>>, <<<<0, 2, 0>>, Snap("chest", 1, NoOffset, <<Chest>>)>>,
                       <<<<0, 2, 1>>, Snap("stone", 1, <<0, 0, 1>>, <<>>)>>})}
TheSwaps == {("stone" :> "glass"), ("stone" :> "chest") @@ ("chest" :> "stone"), ("chest" :> "air")}

----------------------------------------------------------------------------
(* World generation: trees, ores and huts over the border of two columns *)

TheBiomes == ("meadow" :> [surface |-> "grass", filler |-> "dirt", stone |-> "stone", fillerDepth |-> 2, oreDensity |-> 100])
             @@ ("desert" :> [surface |-> "sand", filler |-> "sand", stone |-> "limestone", fillerDepth |-> 1, oreDensity |-> 250])
TheFeatures == ("oak" :> [kind |-> "tree", trunk |-> "log", leaves |-> "leaf", minTrunk |-> 2, maxTrunk |-> 3, leafRadius |-> 2, requiresSoil |-> TRUE])
               @@ ("iron" :> [kind |-> "ore", block |-> "iron", replace |-> "stone", minHeight |-> 0, maxHeight |-> 3, veinSize |-> 4])
               @@ ("hut" :> [kind |-> "schematic", schematic |-> Filled(<<2, 2, 1>>, {<<<<0, 0, 0>>, [Nothing EXCEPT !.type = "plank"]>>, <<<<1, 1, 0>>, [Nothing EXCEPT !.type = "plank"]>>})])
Oaks(density) == [feature |-> "oak", density |-> density, minHeight |-> 0, maxHeight |-> 256, biomes |-> {}, requiresSurface |-> TRUE]
Iron == [feature |-> "iron", density |-> 2, minHeight |-> 0, maxHeight |-> 4, biomes |-> {}, requiresSurface |-> FALSE]
Huts == [feature |-> "hut", density |-> 2, minHeight |-> 2, maxHeight |-> 5, biomes |-> {"meadow"}, requiresSurface |-> TRUE]
Unknown == [Iron EXCEPT !.feature = "gold"]
Land == (0..7) \X (0..3)
Walks == <<<<1, 1, 3, 1>>, <<5, 0, 0, 2>>, <<0, 0, 3, 4>>, <<4, 1, 1, 1>>, <<1, 3, 1, 1>>>>
ASetup(surface, biome, open, roll, placements) ==
  [columns |-> {<<0, 0>>, <<1, 0>>}, surface |-> surface, biome |-> biome, biomes |-> TheBiomes, open |-> open, roll |-> roll,
   trunk |-> [f \in Land |-> f[1] + f[2]], corners |-> {f \in (-4..12) \X (-4..8) : (f[1] + 2 * f[2]) % 3 = 0},
   veins |-> [x \in {<<0, 0>>, <<1, 0>>} \X (1..Len(placements)) \X (1..5) |->
                 [at |-> <<(3 * x[1][1] + x[3] + 2) % 4, x[2] + x[3], (x[3] + 1) % 4>>, walk |-> Walks[x[3]]]],
   placements |-> placements, features |-> TheFeatures,
   custom |-> {[name |-> n, priority |-> 3500] : n \in {"surface", "structures"}}]
Hills == [f \in Land |-> IF f[1] <= 3 THEN 2 + (f[2] % 2) ELSE IF f[1] <= 5 THEN 9 ELSE -3]
Plain == [f \in Land |-> 3 + ((f[1] + f[2]) % 3)]
TheSetups == {
  ASetup(Hills, [f \in Land |-> IF f[1] <= 4 THEN "meadow" ELSE "desert"], {At(f, y) : f \in {<<4, 0>>, <<4, 1>>, <<4, 2>>, <<5, 2>>, <<1, 1>>}, y \in 0..9},
         [f \in Land |-> IF f[1] >= 6 THEN 9 ELSE (3 * f[1] + 5 * f[2]) % 7], <<Iron, Oaks(3)>>),
  ASetup(Plain, [f \in Land |-> IF f[2] = 3 THEN "swamp" ELSE "meadow"], {At(f, y) : f \in {<<3, 0>>, <<4, 1>>, <<6, 2>>}, y \in 1..8},
         [f \in Land |-> IF f \in {<<3, 1>>, <<4, 1>>, <<5, 3>>, <<1, 2>>} THEN f[1] % 4 ELSE 9], <<Unknown, Oaks(4), Iron, Huts>>)}

TheWords == ("12" :> Whole(12)) @@ ("yes" :> Truth(TRUE))
TheColons == ("top:12" :> [before |-> "top", after |-> "12"])
Line2(kind, value) == SettingLine(kind, Key(""), value)
HandMade ==
  <<Comment, Entry(Key("io.thread_count"), Whole(4)), Line2("blank", NoValue), Entry(Key("shader"), Word("12")),
    Line2("data", Whole(1)), Line2("data", Whole(2)), Comment, Entry(Key("io.thread_count"), Whole(8)),
    Entry(Compression.key, Word("maybe")), Entry(Placement.key, Word("push")), Entry(Key("io.max_open_regions"), NoValue)>>
ConfFile(lines) == EngineFile :> lines
SavedWorld ==
  <<Comment, Entry(WorldName.key, Word("yes")), Entry(Key("rain"), Tenths(5)), Entry(Key("rain"), Tenths(20)), Entry(Compression.key, Truth(FALSE)),
    Entry(Seed.key, Whole(7)), Line2("data", Whole(3))>>
Shapes ==
  <<Entry(Key("face"), Word("top:12")), Line2("data", Whole(1)), Line2("blank", NoValue), Line2("data", Whole(2)), Comment, Line2("data", Whole(3)),
    SettingLine("include", <<"parts", "">>, NoValue), SettingLine("include", <<"nowhere", "">>, NoValue), SettingLine("bare", Key("solid"), NoValue),
    Entry(Key("face"), Word("plain")), Line2("data", Whole(4)), Entry(<<"face", "top">>, NoValue), Line2("data", Whole(5))>>
Parts == <<Line2("data", Whole(9)), Entry(<<"face", "side">>, Word("yes")), Line2("data", Whole(6)), Entry(Key("face"), Tenths(5))>>
TheFileSets == {<<>>, ConfFile(HandMade) @@ (WorldFile :> SavedWorld) @@ ("shapes" :> Shapes) @@ ("parts" :> Parts)}
TheWorldValues == {<<WorldName.key, Word("home")>>, <<Compression.key, Truth(TRUE)>>, <<Key("rain"), Tenths(25)>>, <<Key("rain"), Word("never")>>}

TheStackSizes == ("coal" :> 3) @@ ("pick" :> 1)

----------------------------------------------------------------------------

Init == /\ topic \in {"mesh", "tags", "modules", "schematic", "worldgen", "inventory", "settings"}
        /\ IF topic = "mesh" THEN MeshInit ELSE scene = "none" /\ mesh = NotBuilt
        /\ IF topic = "schematic" THEN SchematicInit ELSE SchematicIdle
        /\ IF topic = "worldgen" THEN GenInit ELSE GenIdle
        /\ IF topic = "settings" THEN SettingsInit ELSE SettingsIdle
        /\ TagsInit /\ ModuleInit /\ InventoryInit

Next == /\ UNCHANGED topic
        /\ \/ topic = "mesh" /\ MeshNext /\ UNCHANGED <<tagVars, moduleVars, schematicVars, genVars, inventoryVars, settingVars>>
           \/ topic = "tags" /\ TagsNext /\ UNCHANGED <<meshVars, moduleVars, schematicVars, genVars, inventoryVars, settingVars>>
           \/ topic = "modules" /\ ModuleNext /\ UNCHANGED <<meshVars, tagVars, schematicVars, genVars, inventoryVars, settingVars>>
           \/ topic = "schematic" /\ SchematicNext /\ UNCHANGED <<meshVars, tagVars, moduleVars, genVars, inventoryVars, settingVars>>
           \/ topic = "worldgen" /\ GenNext /\ UNCHANGED <<meshVars, tagVars, moduleVars, schematicVars, inventoryVars, settingVars>>
           \/ topic = "inventory" /\ InventoryNext /\ UNCHANGED <<meshVars, tagVars, moduleVars, schematicVars, genVars, settingVars>>
           \/ topic = "settings" /\ SettingsNext /\ UNCHANGED <<meshVars, tagVars, moduleVars, schematicVars, genVars, inventoryVars>>

Spec == Init /\ [][Next]_vars
=============================================================================
