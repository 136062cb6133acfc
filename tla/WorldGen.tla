------------------------------ MODULE WorldGen ------------------------------
(***************************************************************************)
(* Generating columns (worldgen/): the pipeline of passes, the features    *)
(* the passes place, and the world they write to.  Noise and hashes are    *)
(* functions of the seed and the place, so a setup says what they answer:  *)
(* raw surface and biome of each floor <<x, z>>, the open caves, the roll, *)
(* trunk and corner of each floor, the origin and walk of each vein.       *)
(* Densities and rolls are in 1/256, ore densities in hundredths.          *)
(***************************************************************************)
EXTENDS Schematic

CONSTANTS Setups, MaxSurface  \* the highest surface (255)

VARIABLES setup, passes,
          blocks,    \* the world's blocks that are not air, by position
          created,   \* columns the world has
          done,      \* columns generated, with the heightmap of their run
          trees      \* ghost: <<origin, height>> of the trees placed

genVars == <<setup, passes, blocks, created, done, trees>>

GroundBlock == "stone"
NoBiome == "no biome"
GenAir == "air"

PassPriority == [terrain |-> 1000, surface |-> 2000, caves |-> 3000, ores |-> 4000, structures |-> 5000, decoration |-> 6000]
Pass(name) == [name |-> name, priority |-> PassPriority[name]]

\* sortPasses: stable.
SortPasses(ps) == SortSeq([i \in DOMAIN ps |-> <<i, ps[i]>>],
                          LAMBDA a, b : a[2].priority < b[2].priority \/ (a[2].priority = b[2].priority /\ a[1] < b[1]))
Sorted(ps) == LET s == SortPasses(ps) IN [i \in DOMAIN s |-> s[i][2]]

----------------------------------------------------------------------------
(* One column: ctx is the generation context and the world it writes to *)

FloorsOf(col) == (col[1] * Size .. col[1] * Size + Size - 1) \X (col[2] * Size .. col[2] * Size + Size - 1)
\* The order of the loops over lx and lz.
FloorsInOrder(col) == [i \in 1..Size * Size |-> <<col[1] * Size + ((i - 1) \div Size), col[2] * Size + ((i - 1) % Size)>>]
At(f, y) == <<f[1], y, f[2]>>

BlockIn(bs, p) == IF p \in DOMAIN bs THEN bs[p] ELSE GenAir
Put(bs, ps, type) == IF type = GenAir THEN Restrict(bs, DOMAIN bs \ ps) ELSE [p \in ps |-> type] @@ bs

\* World::setBlock: a column that is not there is made, without a generator.
WorldPut(ctx, p, type) == [ctx EXCEPT !.blocks = Put(@, {p}, type), !.created = @ \cup {ColumnOf(p)}]

\* TerrainPass::generate.
Terrain(s, ctx) ==
    LET height == [f \in FloorsOf(ctx.col) |-> Min({MaxSurface, Max({1, s.surface[f]})})]
    IN  [ctx EXCEPT !.height = height, !.biome = [f \in FloorsOf(ctx.col) |-> s.biome[f]],
                    !.blocks = Put(@, UNION {{At(f, y) : y \in 0..height[f]} : f \in FloorsOf(ctx.col)}, GroundBlock)]

\* SurfacePass::generate: a floor of an unknown biome is left alone.
SurfaceFloor(s, ctx, f) ==
    LET b == s.biomes[ctx.biome[f]]
        h == ctx.height[f]
        filled == Put(Put(ctx.blocks, {At(f, h)}, b.surface),
                      {At(f, h - d) : d \in {d \in 1..b.fillerDepth : h - d >= 0}}, b.filler)
    IN  [ctx EXCEPT !.blocks = IF b.stone = GroundBlock THEN filled
                               ELSE Put(filled, {At(f, y) : y \in 0..h - b.fillerDepth - 1}, b.stone)]
Surface(s, ctx) ==
    FoldLeft(LAMBDA acc, f : IF acc.biome[f] \in DOMAIN s.biomes THEN SurfaceFloor(s, acc, f) ELSE acc, ctx, FloorsInOrder(ctx.col))

MaxCarve(h) == h - 2

\* CavePass::generate: the two kinds of caves are one set.
CaveFloor(s, ctx, f) ==
    LET h == ctx.height[f]
        carved == Put(ctx.blocks, s.open \cap {At(f, y) : y \in 1..MaxCarve(h) - 1}, GenAir)
        left == {y \in 1..h : BlockIn(carved, At(f, y)) # GenAir}
    IN  IF MaxCarve(h) < 1 THEN ctx
        ELSE [ctx EXCEPT !.blocks = carved, !.height[f] = Max(left \cup {0})]
Caves(s, ctx) == FoldLeft(LAMBDA acc, f : CaveFloor(s, acc, f), ctx, FloorsInOrder(ctx.col))

----------------------------------------------------------------------------
(* Features *)

OreTakes(current, ore) == current = ore.replace

\* OreFeature::place: a random walk of veinSize steps.
PlaceOre(ctx, ore, origin, walk) ==
    LET step(acc, i) == [ctx |-> IF OreTakes(BlockIn(acc.ctx.blocks, acc.p), ore) THEN WorldPut(acc.ctx, acc.p, ore.block) ELSE acc.ctx,
                         p |-> Neighbor(acc.p, walk[i])]
    IN  IF origin[2] < ore.minHeight \/ origin[2] > ore.maxHeight THEN ctx
        ELSE FoldLeft(step, [ctx |-> ctx, p |-> origin], [i \in 1..ore.veinSize |-> i]).ctx

Magnitude(n) == IF n < 0 THEN -n ELSE n

\* The canopy: narrower at its ends, without some corners and the trunk.
Canopy(s, tree, origin, height) ==
    LET base == Max({1, height - tree.leafRadius - 1})
        radius(dy) == IF dy \in {base, height + 1} THEN Max({1, tree.leafRadius - 1}) ELSE tree.leafRadius
        cells == {d \in (-tree.leafRadius - 1..tree.leafRadius + 1) \X (base..height + 1) \X (-tree.leafRadius - 1..tree.leafRadius + 1) :
                    /\ {Magnitude(d[1]), Magnitude(d[3])} \subseteq 0..radius(d[2])
                    /\ ~(d[1] = 0 /\ d[3] = 0 /\ d[2] < height)
                    /\ Magnitude(d[1]) = radius(d[2]) /\ Magnitude(d[3]) = radius(d[2])
                       => <<origin[1] + d[1], origin[3] + d[3]>> \in s.corners}
    IN  {Sum3(origin, d) : d \in cells}

\* Mutant: leaves grow anywhere.
LeafGrows_Anywhere(bs, p) == TRUE
LeafGrows(bs, p) == BlockIn(bs, p) = GenAir

\* checkSoil, checkClearance.
CheckSoil(bs, origin) == BlockIn(bs, [origin EXCEPT ![2] = @ - 1]) # GenAir
CheckClearance(bs, origin, height) == \A y \in 0..height - 1 : BlockIn(bs, [origin EXCEPT ![2] = @ + y]) = GenAir

TrunkHeight(s, tree, f) == IF tree.maxTrunk <= tree.minTrunk THEN tree.minTrunk
                           ELSE tree.minTrunk + (s.trunk[f] % (tree.maxTrunk - tree.minTrunk + 1))

\* TreeFeature::place.
PlaceTree(s, ctx, tree, origin) ==
    LET height == TrunkHeight(s, tree, <<origin[1], origin[3]>>)
        trunk == {[origin EXCEPT ![2] = @ + y] : y \in 0..height - 1}
        standing == Put(ctx.blocks, trunk, tree.trunk)
        leaves == {p \in Canopy(s, tree, origin, height) : LeafGrows(standing, p)}
    IN  IF (tree.requiresSoil /\ ~CheckSoil(ctx.blocks, origin)) \/ ~CheckClearance(ctx.blocks, origin, height) THEN ctx
        ELSE [ctx EXCEPT !.blocks = Put(standing, leaves, tree.leaves),
                         !.created = @ \cup {ColumnOf(p) : p \in trunk \cup leaves},
                         !.trees = @ \cup {[origin |-> origin, height |-> height, trunk |-> tree.trunk]}]

\* SchematicFeature::place: types only, whatever was there.
PlaceSchematic(ctx, schematic, origin) ==
    [ctx EXCEPT !.blocks = [p \in {Sum3(origin, q) : q \in Solids(schematic)} |-> schematic.at[Less3(p, origin)].type] @@ @,
                !.created = @ \cup {ColumnOf(Sum3(origin, q)) : q \in Solids(schematic)}]

InBiome(placement, biome) == placement.biomes = {} \/ biome \in placement.biomes

\* OrePass::generate: by the biome at the middle, one vein at least.
Ores(s, ctx) ==
    LET center == ctx.biome[<<ctx.col[1] * Size + (Size \div 2), ctx.col[2] * Size + (Size \div 2)>>]
        mul == IF center \in DOMAIN s.biomes THEN s.biomes[center].oreDensity ELSE 100
        count(placement) == Max({1, (placement.density * mul) \div 100})
        vein(k, v) == s.veins[<<ctx.col, k, v>>]
        place(acc, k) ==
            LET placement == s.placements[k]
            IN  IF placement.feature \notin DOMAIN s.features \/ s.features[placement.feature].kind # "ore"
                   \/ ~InBiome(placement, center)
                THEN acc
                ELSE FoldLeft(LAMBDA a, v : PlaceOre(a, s.features[placement.feature],
                                                     <<ctx.col[1] * Size + vein(k, v).at[1],
                                                       placement.minHeight + (vein(k, v).at[2] % (placement.maxHeight - placement.minHeight + 1)),
                                                       ctx.col[2] * Size + vein(k, v).at[3]>>, vein(k, v).walk),
                              acc, [v \in 1..count(placement) |-> v])
    IN  FoldLeft(place, ctx, [k \in DOMAIN s.placements |-> k])

\* StructurePass::generate: every other feature, on top of the heightmap.
Structures(s, ctx) ==
    LET wanted(placement, f) == /\ s.roll[f] < placement.density
                                /\ InBiome(placement, ctx.biome[f])
                                /\ ctx.height[f] \in placement.minHeight..placement.maxHeight
        origin(f) == At(f, ctx.height[f] + 1)
        at(feature, acc, f) == IF feature.kind = "tree" THEN PlaceTree(s, acc, feature, origin(f))
                               ELSE PlaceSchematic(acc, feature.schematic, origin(f))
        place(acc, placement) ==
            IF placement.feature \notin DOMAIN s.features \/ s.features[placement.feature].kind = "ore" \/ ~placement.requiresSurface
            THEN acc
            ELSE FoldLeft(LAMBDA a, f : IF wanted(placement, f) THEN at(s.features[placement.feature], a, f) ELSE a,
                          acc, FloorsInOrder(ctx.col))
    IN  FoldLeft(place, ctx, s.placements)

RunPass(s, ctx, name) ==
    CASE name = "terrain" -> Terrain(s, ctx)
      [] name = "surface" -> Surface(s, ctx)
      [] name = "caves" -> Caves(s, ctx)
      [] name = "ores" -> Ores(s, ctx)
      [] name = "structures" -> Structures(s, ctx)
      [] name = "decoration" -> ctx  \* DecorationPass does nothing yet

\* GenerationPipeline::generateColumn.
GenerateColumn(s, ps, bs, made, ts, col) ==
    FoldLeft(LAMBDA ctx, pass : RunPass(s, ctx, pass.name),
             [col |-> col, blocks |-> bs, created |-> made \cup {col}, trees |-> ts,
              height |-> [f \in FloorsOf(col) |-> 0], biome |-> [f \in FloorsOf(col) |-> NoBiome]], ps)

----------------------------------------------------------------------------
(* The pipeline and the world *)

GenInit == setup \in Setups /\ passes = <<>> /\ blocks = <<>> /\ created = {} /\ done = <<>> /\ trees = {}
GenIdle == setup = "none" /\ passes = <<>> /\ blocks = <<>> /\ created = {} /\ done = <<>> /\ trees = {}

Named(name) == {i \in DOMAIN passes : passes[i].name = name}

\* addPass, removePass and replacePass, before the first column.
AddPass(pass) == done = <<>> /\ Named(pass.name) = {} /\ passes' = Sorted(Append(passes, pass))
RemovePass(name) == done = <<>> /\ Named(name) # {} /\ passes' = RemoveAt(passes, Min(Named(name)))
ReplacePass(pass) == done = <<>> /\ Named(pass.name) # {} /\ passes' = Sorted([passes EXCEPT ![Min(Named(pass.name))] = pass])

ChangePipeline == /\ \/ \E name \in DOMAIN PassPriority : AddPass(Pass(name))
                     \/ \E name \in DOMAIN PassPriority : RemovePass(name)
                     \/ \E pass \in setup.custom : ReplacePass(pass)
                  /\ UNCHANGED <<setup, blocks, created, done, trees>>

\* getOrCreateColumn and generateColumn, as the demo calls them.
Generate(col) ==
    /\ col \notin DOMAIN done
    /\ LET ctx == GenerateColumn(setup, passes, blocks, created, trees, col)
       IN  /\ blocks' = ctx.blocks
           /\ created' = ctx.created
           /\ trees' = ctx.trees
           /\ done' = (col :> ctx.height) @@ done
    /\ UNCHANGED <<setup, passes>>

GenNext == ChangePipeline \/ \E col \in setup.columns : Generate(col)

----------------------------------------------------------------------------
(* Properties *)

OfSchematics(s) == UNION {{s.features[n].schematic.at[p].type : p \in Solids(s.features[n].schematic)} :
                          n \in {n \in DOMAIN s.features : s.features[n].kind = "schematic"}}

Leaves(s) == {s.features[n].leaves : n \in {n \in DOMAIN s.features : s.features[n].kind = "tree"}}

\* A tree keeps its whole trunk and the ground it stands on, whatever is
\* generated next to it later; only a schematic may stand in its place.
TreesStand ==
    \A t \in trees :
        /\ \A y \in 0..t.height - 1 : BlockIn(blocks, [t.origin EXCEPT ![2] = @ + y]) \in {t.trunk} \cup OfSchematics(setup)
        /\ CheckSoil(blocks, t.origin)

\* The ground of a column is what its seed says, in whichever order columns
\* are generated: up to its surface a neighbour only turns what an ore
\* replaces into that ore, lets leaves into a cave, or builds a schematic.
GroundIsItsOwn ==
    \A col \in DOMAIN done :
        LET alone == GenerateColumn(setup, passes, <<>>, {}, {}, col).blocks
            kinds == {setup.features[n] : n \in {n \in DOMAIN setup.features : setup.features[n].kind = "ore"}}
            Rock(type) == IF \E o \in kinds : o.block = type THEN (CHOOSE o \in kinds : o.block = type).replace ELSE type
        IN  \A f \in FloorsOf(col) : \A y \in 0..done[col][f] :
                \/ Rock(BlockIn(blocks, At(f, y))) = Rock(BlockIn(alone, At(f, y)))
                \/ BlockIn(alone, At(f, y)) = GenAir /\ BlockIn(blocks, At(f, y)) \in Leaves(setup)
                \/ BlockIn(blocks, At(f, y)) \in OfSchematics(setup)

\* Caves stay inside: the heightmap handed to the structures is the top of
\* the ground, three blocks of it are closed, and so is the bottom.
CavesStayInside ==
    Contains(passes, Pass("terrain")) =>
        \A col \in DOMAIN done : \A f \in FloorsOf(col) :
            LET h == done[col][f]
            IN  h = Min({MaxSurface, Max({1, setup.surface[f]})}) /\
                \A y \in {0} \cup (Max({0, h - 2})..h) : BlockIn(blocks, At(f, y)) # GenAir

\* docs/27-world-generation.md: "Column order doesn't matter".
OrderDoesNotMatter ==
    Cardinality(DOMAIN done) = 2 =>
        \A a, b \in DOMAIN done : a # b =>
            LET first == GenerateColumn(setup, passes, <<>>, {}, {}, a)
                second == GenerateColumn(setup, passes, first.blocks, first.created, first.trees, b)
            IN  blocks = second.blocks

\* The land is sound whichever column comes first: trees stand, the ground is
\* its column's own, and no cave breaks through.
LandIsSound ==
    /\ TreesStand
    /\ GroundIsItsOwn
    /\ CavesStayInside
=============================================================================
