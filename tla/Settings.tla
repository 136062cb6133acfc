------------------------------ MODULE Settings ------------------------------
(***************************************************************************)
(* Settings: text files that keep their comments and their order           *)
(* (config_file.cpp), the tables of the engine and of a world in front of  *)
(* them (config.cpp), the key bindings (key_bindings.cpp), and documents   *)
(* with suffixes, data lines and includes (config_parser.cpp).             *)
(* Not modelled: how numbers and words are spelled, beyond what makes them *)
(* come back as something else; two threads in one manager (one lock).     *)
(***************************************************************************)
EXTENDS Integers, Sequences, FiniteSets, SequencesExt, FiniteSetsExt, Functions, TLC

CONSTANTS
    LooksLike,        \* words that read as a number or a truth value, with it
    Colons,           \* words with a colon: [before, after]
    FileSets,         \* files to start with: a set of path -> lines
    SettingValues,    \* values for the engine's numbers
    WorldValues,      \* values for a world's own settings
    MaxTime, MaxSettingCalls

VARIABLES
    files,      \* path -> lines, as on disk
    manager,    \* the ConfigManager
    world,      \* a WorldConfig, or NoWorld
    now,        \* the clock that stamps worlds
    spoiled,    \* ghost: files the last save failed on
    byHand,     \* ghost: path -> the lines it had when a program last began it
    settingCalls

settingVars == <<files, manager, world, now, spoiled, byHand, settingCalls>>

EngineFile == "config.conf"
WorldFile == "world.conf"

----------------------------------------------------------------------------
(* Values and lines *)

NoValue == [kind |-> "none"]
Whole(n) == [kind |-> "int", n |-> n]
Tenths(n) == [kind |-> "double", n |-> n]
Word(w) == [kind |-> "text", w |-> w]
Truth(b) == Whole(IF b THEN 1 ELSE 0)

\* What parseLines makes of a value's text: a double without a fraction, and a
\* word that looks like a number, come back as an integer.
ReadBack(v) ==
    CASE v.kind = "double" /\ v.n % 10 = 0 -> Whole(v.n \div 10)
      [] v.kind = "text" /\ v.w \in DOMAIN LooksLike -> LooksLike[v.w]
      [] OTHER -> v

\* A key is its name and its suffix ("face:top:").
Key(name) == <<name, "">>
SettingLine(kind, key, value) == [kind |-> kind, key |-> key, value |-> value]
Comment == SettingLine("comment", Key(""), NoValue)
Entry(key, value) == SettingLine("entry", key, value)

\* A line as it is read: a colon in the value of a plain key makes a suffix.
ReadLine(l) ==
    IF l.kind # "entry" THEN l
    ELSE IF l.key[2] = "" /\ l.value.kind = "text" /\ l.value.w \in DOMAIN Colons
    THEN Entry(<<l.key[1], Colons[l.value.w].before>>, ReadBack(Word(Colons[l.value.w].after)))
    ELSE Entry(l.key, ReadBack(l.value))

----------------------------------------------------------------------------
(* ConfigFile: [lines, at, data], at[k] the line a set of k rewrites *)

EmptyFile == [lines |-> <<>>, at |-> <<>>, data |-> <<>>]
NoWorld == [open |-> FALSE, file |-> EmptyFile, data |-> <<>>, dirty |-> FALSE]

\* keyToLine_ (later lines override earlier for the same key).
LineOf(ls, k) == Max({i \in DOMAIN ls : ls[i].kind = "entry" /\ ls[i].key = k})

\* load, parseLines: a key without a value leaves the value of an earlier line.
LoadedFile(lines) ==
    LET ls == [i \in DOMAIN lines |-> ReadLine(lines[i])]
        keys == {ls[i].key : i \in {i \in DOMAIN ls : ls[i].kind = "entry"}}
        Valued(k) == {i \in DOMAIN ls : ls[i].kind = "entry" /\ ls[i].key = k /\ ls[i].value # NoValue}
    IN  [lines |-> ls, at |-> [k \in keys |-> LineOf(ls, k)],
         data |-> [k \in {k \in keys : Valued(k) # {}} |-> ls[Max(Valued(k))].value]]

\* Mutant: the index of an added line is that of the line before it.
SetIn_OneEarly(f, k, v) ==
    IF k \in DOMAIN f.at THEN [f EXCEPT !.lines[f.at[k]].value = v, !.data = k :> v @@ @]
    ELSE [lines |-> Append(f.lines, Entry(k, v)), at |-> k :> Len(f.lines) @@ f.at, data |-> k :> v @@ f.data]

\* set, setImpl: only the value of the key's line changes, or a line is added.
SetIn(f, k, v) ==
    IF k \in DOMAIN f.at THEN [f EXCEPT !.lines[f.at[k]].value = v, !.data = k :> v @@ @]
    ELSE [lines |-> Append(f.lines, Entry(k, v)), at |-> k :> (Len(f.lines) + 1) @@ f.at, data |-> k :> v @@ f.data]

\* remove: the line becomes a comment.
RemovedFrom(f, k) ==
    IF k \notin DOMAIN f.at THEN f
    ELSE [lines |-> [f.lines EXCEPT ![f.at[k]] = Comment],
          at |-> Restrict(f.at, DOMAIN f.at \ {k}), data |-> Restrict(f.data, DOMAIN f.data \ {k})]

\* saveAs: the file is truncated before it is written; ok says whether all was.
SaveAs(f, path, ok) ==
    IF ok THEN files' = (path :> f.lines @@ files) /\ spoiled' = spoiled \ {path} /\ UNCHANGED byHand
    ELSE \E n \in 0..Len(f.lines) :
            /\ files' = (path :> SubSeq(f.lines, 1, n) @@ files)
            /\ spoiled' = spoiled \cup {path}
            /\ byHand' = (path :> SubSeq(f.lines, 1, n) @@ byHand)

\* DataContainer::get<T>: a value of another kind counts as none.
As(kind, data, k, default) ==
    IF k \notin DOMAIN data THEN default
    ELSE IF kind = "bool" THEN IF data[k].kind = "int" THEN Truth(data[k].n # 0) ELSE default
    ELSE IF data[k].kind = kind THEN data[k] ELSE default

----------------------------------------------------------------------------
(* The engine's settings: ConfigManager *)

Setting(name, kind, default) == [key |-> Key(name), kind |-> kind, default |-> default]
Compression == Setting("compression.enabled", "bool", Truth(TRUE))
Placement == Setting("physics.block_placement_mode", "text", Word("block"))
Known == <<Compression, Setting("debug.logging", "bool", Truth(FALSE)), Setting("io.thread_count", "int", Whole(2)),
           Setting("io.max_open_regions", "int", Whole(16)), Setting("cache.column_size", "int", Whole(64)), Placement>>

NewManager == [initialized |-> FALSE, dirty |-> FALSE, interned |-> FALSE, file |-> EmptyFile, data |-> <<>>]

\* Before the first init all typed settings have DataKey 0 and share one value.
DataKeyOf(m, s) == IF m.interned THEN s.key ELSE Key("")
Reading(m, s) == As(s.kind, m.data, DataKeyOf(m, s), s.default)
Written(m, k, v) == [m EXCEPT !.data = k :> v @@ @, !.dirty = TRUE]

DefaultsOf(settings) == [k \in {settings[i].key : i \in DOMAIN settings} |-> settings[SelectInSeq(settings, LAMBDA s : s.key = k)].default]

\* syncFromFile, syncToFile: the known settings, and no others.
FromFile(settings, data, f) ==
    FoldLeft(LAMBDA d, s : IF s.key \in DOMAIN f.at THEN s.key :> As(s.kind, f.data, s.key, s.default) @@ d ELSE d, data, settings)
ToFile(m) == FoldLeft(LAMBDA f, s : SetIn(f, s.key, As(s.kind, m.data, s.key, s.default)), m.file, Known)

\* load of a path: an empty file if there is none.
FileAt(path) == IF path \in DOMAIN files THEN LoadedFile(files[path]) ELSE EmptyFile

Initialized(m) ==
    [m EXCEPT !.initialized = TRUE, !.interned = TRUE, !.file = FileAt(EngineFile),
              !.data = FromFile(Known, DefaultsOf(Known), FileAt(EngineFile))]

Saved(m, ok) ==
    IF ~m.initialized THEN manager' = m /\ UNCHANGED <<files, byHand, spoiled>>
    ELSE /\ manager' = [m EXCEPT !.file = ToFile(m), !.dirty = @ /\ ~ok]
         /\ SaveAs(ToFile(m), EngineFile, ok)

InitConfig == manager' = Initialized(manager) /\ UNCHANGED <<files, byHand, spoiled, world, now>>

SaveConfig == (\E ok \in BOOLEAN : Saved(manager, ok)) /\ UNCHANGED <<world, now>>

\* reload: back to the file; without one to the defaults, whatever dirty says.
ReloadConfig ==
    /\ manager.initialized
    /\ manager' = [Initialized(manager) EXCEPT !.dirty = @ /\ EngineFile \notin DOMAIN files]
    /\ UNCHANGED <<files, byHand, spoiled, world, now>>

SetNumber ==
    /\ \E i \in 3..5, v \in SettingValues : manager' = Written(manager, DataKeyOf(manager, Known[i]), Whole(v))
    /\ UNCHANGED <<files, byHand, spoiled, world, now>>

SetSwitch ==
    /\ \E i \in 1..2, b \in BOOLEAN : manager' = Written(manager, DataKeyOf(manager, Known[i]), Truth(b))
    /\ UNCHANGED <<files, byHand, spoiled, world, now>>

\* setBlockPlacementMode: any other mode is ignored.
SetPlacement ==
    /\ \E mode \in {"block", "push", "ask"} :
         manager' = IF mode \in {"block", "push"} THEN Written(manager, DataKeyOf(manager, Placement), Word(mode)) ELSE manager
    /\ UNCHANGED <<files, byHand, spoiled, world, now>>

RemoveSetting ==
    /\ \E i \in {3, 6} : manager' = [manager EXCEPT !.data = Restrict(@, DOMAIN @ \ {Known[i].key}), !.dirty = TRUE]
    /\ UNCHANGED <<files, byHand, spoiled, world, now>>

\* saveKeyBindings: settings of the manager's table; nothing is written.
BindKey == Key("input.bind.jump")
MouseKey == Key("input.bind.jump.mouse")
SaveKeyBindings ==
    /\ \E code \in SettingValues, mouse \in BOOLEAN :
         manager' = Written(Written(manager, BindKey, Whole(code)), MouseKey, Truth(mouse))
    /\ UNCHANGED <<files, byHand, spoiled, world, now>>

\* The program ends: ~ConfigManager saves what is dirty; a crash does not.
EndProgram ==
    /\ world' = NoWorld
    /\ now' = now
    /\ \/ manager.dirty /\ \E ok \in BOOLEAN :
            /\ manager' = NewManager
            /\ IF manager.initialized THEN SaveAs(ToFile(manager), EngineFile, ok) ELSE UNCHANGED <<files, byHand, spoiled>>
       \/ manager' = NewManager /\ UNCHANGED <<files, byHand, spoiled>>

----------------------------------------------------------------------------
(* A world's settings: WorldConfig *)

WorldName == Setting("name", "text", Word("New World"))
Seed == Setting("seed", "int", Whole(0))
Created == Setting("created", "int", Whole(0))
LastPlayed == Setting("last_played", "int", Whole(0))
WorldKnown == <<WorldName, Seed, Created, LastPlayed, Compression>>

WorldDefaults == WorldName.key :> WorldName.default @@ Seed.key :> Seed.default
                 @@ Created.key :> Whole(now) @@ LastPlayed.key :> Whole(now)

\* WorldConfig(worldDir), reload: known settings by their kind, others as they are.
OpenedWorld ==
    LET f == FileAt(WorldFile)
        own == Restrict(f.data, DOMAIN f.data \ {WorldKnown[i].key : i \in DOMAIN WorldKnown})
    IN  [open |-> TRUE, file |-> f, data |-> own @@ FromFile(WorldKnown, WorldDefaults, f), dirty |-> FALSE]

\* syncToFile: every entry of the table; what was removed from it stays in the file.
WorldToFile(w) == FoldLeft(LAMBDA f, k : SetIn(f, k, w.data[k]), w.file, SetToSeq(DOMAIN w.data))

\* WorldConfig::compressionEnabled: the world's, or else the engine's.
CompressionEnabled(w) ==
    IF Compression.key \in DOMAIN w.data THEN As("bool", w.data, Compression.key, Truth(TRUE)) ELSE Reading(manager, Compression)

OpenWorld == ~world.open /\ world' = OpenedWorld /\ UNCHANGED <<files, byHand, spoiled, manager, now>>
CloseWorld == world.open /\ world' = NoWorld /\ UNCHANGED <<files, byHand, spoiled, manager, now>>

ReloadWorld ==
    /\ world.open
    /\ world' = [OpenedWorld EXCEPT !.dirty = world.dirty /\ WorldFile \notin DOMAIN files]
    /\ UNCHANGED <<files, byHand, spoiled, manager, now>>

SaveWorld ==
    /\ world.open
    /\ \E ok \in BOOLEAN : /\ world' = [world EXCEPT !.file = WorldToFile(world), !.dirty = @ /\ ~ok]
                           /\ SaveAs(WorldToFile(world), WorldFile, ok)
    /\ UNCHANGED <<manager, now>>

\* setWorldName, setSeed, updateLastPlayed, setCompressionEnabled and set.
SetInWorld ==
    /\ world.open
    /\ \E kv \in WorldValues \cup {<<LastPlayed.key, Whole(now)>>} : world' = Written(world, kv[1], kv[2])
    /\ UNCHANGED <<files, byHand, spoiled, manager, now>>

\* clearCompressionOverride and remove.
RemoveInWorld ==
    /\ world.open
    /\ \E kv \in WorldValues : world' = [world EXCEPT !.data = Restrict(@, DOMAIN @ \ {kv[1]}), !.dirty = TRUE]
    /\ UNCHANGED <<files, byHand, spoiled, manager, now>>

\* A tool takes a key out of the world's file (ConfigFile load, remove, save).
RemoveFromFile ==
    /\ ~world.open /\ WorldFile \in DOMAIN files
    /\ \E kv \in WorldValues : LET f == RemovedFrom(LoadedFile(files[WorldFile]), kv[1])
                              IN  files' = (WorldFile :> f.lines @@ files) /\ byHand' = (WorldFile :> f.lines @@ byHand)
    /\ UNCHANGED <<manager, spoiled, world, now>>

Wait == now < MaxTime /\ now' = now + 1 /\ UNCHANGED <<files, byHand, spoiled, manager, world>>

----------------------------------------------------------------------------
(* ConfigParser: documents *)

NoEntry == [key |-> Key(""), value |-> NoValue, data |-> <<>>]
Flushed(st) == [doc |-> IF st.current.key = Key("") THEN st.doc ELSE Append(st.doc, st.current), current |-> NoEntry]

RECURSIVE Document(_)

\* parseLine: a comment ends an entry's data, an empty line does not; the
\* entries of an included file come where it is included, if it can be read.
ParseLine(st, l) ==
    CASE l.kind = "blank" -> st
      [] l.kind = "data" -> [st EXCEPT !.current.data = Append(@, l.value)]
      [] l.kind = "comment" -> Flushed(st)
      [] l.kind = "include" -> [Flushed(st) EXCEPT !.doc = @ \o (IF l.key[1] \in DOMAIN files THEN Document(l.key[1]) ELSE <<>>)]
      [] l.kind \in {"entry", "bare"} -> [Flushed(st) EXCEPT !.current = [NoEntry EXCEPT !.key = ReadLine(l).key, !.value = ReadLine(l).value]]

\* parseFile, parseString. Files that include each other would not end.
Document(path) == Flushed(FoldLeft(ParseLine, [doc |-> <<>>, current |-> NoEntry], files[path])).doc

\* ConfigDocument::get with a suffix and without: the last entry counts.
DocGet(doc, k) == LET i == SelectLastInSeq(doc, LAMBDA e : e.key = k) IN IF i = 0 THEN NoEntry ELSE doc[i]
DocGetAny(doc, name) == LET i == SelectLastInSeq(doc, LAMBDA e : e.key[1] = name) IN IF i = 0 THEN NoEntry ELSE doc[i]

----------------------------------------------------------------------------

SettingsInit ==
    /\ files \in FileSets /\ byHand = files /\ spoiled = {}
    /\ manager = NewManager /\ world = NoWorld
    /\ now = 1 /\ settingCalls = 0

SettingsIdle ==
    /\ files = <<>> /\ byHand = <<>> /\ spoiled = {}
    /\ manager = NewManager /\ world = NoWorld
    /\ now = 1 /\ settingCalls = 0

SettingsNext ==
    /\ settingCalls < MaxSettingCalls /\ settingCalls' = settingCalls + 1
    /\ \/ InitConfig \/ SaveConfig \/ ReloadConfig \/ SetNumber \/ SetSwitch \/ SetPlacement
       \/ RemoveSetting \/ SaveKeyBindings \/ EndProgram
       \/ OpenWorld \/ CloseWorld \/ ReloadWorld \/ SaveWorld \/ SetInWorld \/ RemoveInWorld
       \/ RemoveFromFile \/ Wait

----------------------------------------------------------------------------

\* What the manager shows and has saved is what the next program will show,
\* from whatever file it began with: typed settings, by their kind.
SettingsOutlive ==
    manager.initialized /\ ~manager.dirty /\ EngineFile \notin spoiled =>
        \A i \in DOMAIN Known : Reading(Initialized(NewManager), Known[i]) = Reading(manager, Known[i])

\* The same of a world: what was saved, or read, is there when it is opened
\* again; only a date that no file has yet depends on the clock.  Nothing is said
\* once a save failed half way (spoiled), and the keys and values of the model
\* have no colon, are no words that read as numbers and no whole doubles.
WorldsOutlive ==
    world.open /\ ~world.dirty /\ WorldFile \notin spoiled =>
        \A k \in DOMAIN world.data :
            \/ k \in {Created.key, LastPlayed.key} /\ k \notin DOMAIN world.file.at
            \/ /\ k \in DOMAIN OpenedWorld.data /\ OpenedWorld.data[k] = world.data[k]
               /\ k = Compression.key => CompressionEnabled(OpenedWorld) = CompressionEnabled(world)

\* Saving rewrites values and appends: comments, data lines, unknown keys and
\* the order of a file made by hand are kept.
FilesKeepLines ==
    \A path \in DOMAIN byHand : \A i \in DOMAIN byHand[path] :
        LET old == ReadLine(byHand[path][i])
            new == ReadLine(files[path][i])
        IN  new = old \/ (new.kind = "entry" /\ old.kind = "entry" /\ new.key = old.key)

\* The two readers of one format agree: the document's last entry of a key has
\* the value the file gives, and its data are the lines right below it.
ReadersAgree ==
    \A path \in DOMAIN files :
        LET f == LoadedFile(files[path])
            doc == Document(path)
            Below(i) == {j \in i + 1..Len(f.lines) : \A n \in i + 1..j : f.lines[n].kind \in {"data", "blank"}}
            included == {i \in DOMAIN f.lines : f.lines[i].kind = "include"}
            last == [k \in DOMAIN f.at |-> Max({f.at[other] : other \in {other \in DOMAIN f.at : other[1] = k[1]}})]
        IN  \A k \in DOMAIN f.at : (\A i \in included : i < f.at[k]) =>
               /\ DocGet(doc, k).value = f.lines[f.at[k]].value
               /\ Len(DocGet(doc, k).data) = Cardinality({j \in Below(f.at[k]) : f.lines[j].kind = "data"})
               /\ DocGetAny(doc, k[1]).value = f.lines[last[k]].value

\* Settings survive: the engine's, a world's, and the text around them, over
\* failing saves, crashes, restarts and files edited by hand.
SettingsAreKept ==
    /\ SettingsOutlive
    /\ WorldsOutlive
    /\ FilesKeepLines
    /\ ReadersAgree
=============================================================================
