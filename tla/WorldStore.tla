----------------------------- MODULE WorldStore -----------------------------
(***************************************************************************)
(* The blocks of the world as its threads use them: World (world.cpp) over *)
(* ChunkColumn and SubChunk, batches of edits (batch_builder.cpp), force   *)
(* loaders, levels of detail taken from a subchunk (mesh_worker_pool.cpp), *)
(* and columns stored and read back.  One action per call; each call of    *)
(* World is atomic under its mutex, a batch is committed call by call.     *)
(* When columns are saved, evicted and loaded is in ColumnManager.         *)
(***************************************************************************)
EXTENDS ChunkColumn, Lod

CONSTANTS Setups

VARIABLES setup,     \* the scenario, fixed at the start: inputs and bounds
          columns,   \* World::columns_
          loaders,   \* World::forceLoaders_
          batch,     \* BatchBuilder::changes_
          commit,    \* the thread in commitBatchWithHistory
          lod,       \* the last level of detail built, with its source
          calls,     \* calls made, up to setup.maxCalls
          written,   \* ghost: the block every position was last given
          told       \* ghost: columns whose heightmap was told of every change

vars == <<setup, columns, loaders, batch, commit, lod, calls, written, told>>

Idle == [at |-> "idle", left |-> <<>>, old |-> <<>>, changes |-> <<>>, before |-> <<>>, alone |-> TRUE]
NoLod == [built |-> NewLod(1), source |-> NewSubChunk, mode |-> FullHeight]

\* World::getBlock: no column, no block.
WorldBlock(cols, p) == IF ColumnOf(p) \in DOMAIN cols THEN ColumnBlock(cols[ColumnOf(p)], p) ELSE Air

HasSub(c) == ColumnOfChunk(c) \in DOMAIN columns /\ c[2] \in DOMAIN columns[ColumnOfChunk(c)].subs
Sub(c) == columns[ColumnOfChunk(c)].subs[c[2]]
Chunks == {ChunkOf(p) : p \in setup.places}

\* The column generator of the setup: it sets blocks of the new column.
Generated(col) ==
    FoldSet(LAMBDA p, acc : ColumnSetBlock(acc, p, setup.ground), NewColumn,
            {p \in setup.generated : ColumnOf(p) = col})

\* World::getOrCreateColumn.
WithColumn(cols, col) == IF col \in DOMAIN cols THEN cols ELSE cols @@ (col :> Generated(col))

\* World::setBlock.
WorldSetBlock(cols, p, type) ==
    [WithColumn(cols, ColumnOf(p)) EXCEPT ![ColumnOf(p)] = ColumnSetBlock(@, p, type)]

Init ==
    /\ setup \in Setups
    /\ columns = <<>>
    /\ loaders = <<>>
    /\ batch = <<>>
    /\ commit = Idle
    /\ lod = NoLod
    /\ calls = 0
    /\ written = [p \in setup.places |-> Air]
    /\ told = {}

Call(name) == name \in setup.calls /\ calls < setup.maxCalls /\ calls' = calls + 1

----------------------------------------------------------------------------
(* Blocks *)

\* What the positions show once a column has come into being.
Shown(cols, col) == [p \in setup.places |-> IF ColumnOf(p) = col /\ col \notin DOMAIN columns
                                            THEN WorldBlock(cols, p) ELSE written[p]]

GetOrCreateColumn(col) ==
    /\ Call("create")
    /\ columns' = WithColumn(columns, col)
    /\ written' = Shown(columns', col)
    /\ commit' = [commit EXCEPT !.alone = FALSE]
    /\ UNCHANGED <<setup, loaders, batch, lod, told>>

SetBlockAt(p, type) ==
    /\ columns' = WorldSetBlock(columns, p, type)
    /\ written' = [Shown(columns', ColumnOf(p)) EXCEPT ![p] = type]

\* World::setBlock by a caller that leaves the heightmap alone.
SetBlockOnly(p, type) ==
    /\ Call("set")
    /\ SetBlockAt(p, type)
    /\ told' = told \ {ColumnOf(p)}
    /\ commit' = [commit EXCEPT !.alone = FALSE]
    /\ UNCHANGED <<setup, loaders, batch, lod>>

\* A caller that tells the column's heightmap, as updateHeight() asks.
SetBlockAndHeight(p, type) ==
    LET col == ColumnOf(p)
        cols == WorldSetBlock(columns, p, type)
        l == LocalOf(p)
    IN  /\ Call("set_told")
        /\ columns' = [cols EXCEPT ![col] = UpdateHeight(@, <<l[1], l[3]>>, p[2], type # Air)]
        /\ written' = [Shown(cols, col) EXCEPT ![p] = type]
        /\ UNCHANGED <<setup, loaders, batch, commit, lod, told>>

Recalculate(col) ==
    /\ Call("recalculate")
    /\ col \in DOMAIN columns
    /\ columns' = [columns EXCEPT ![col] = RecalculateHeightmap(@)]
    /\ told' = told \cup {col}
    /\ UNCHANGED <<setup, loaders, batch, commit, lod, written>>

\* A call on one subchunk that is there; its blocks become what it shows.
OnSub(c, new) ==
    /\ columns' = [columns EXCEPT ![ColumnOfChunk(c)].subs[c[2]] = new]
    /\ written' = [p \in setup.places |-> IF ChunkOf(p) = c THEN GetBlock(new, LocalOf(p)) ELSE written[p]]
    /\ UNCHANGED <<setup, loaders, batch, commit, lod>>

FillChunk(c, type) ==
    /\ Call("fill")
    /\ HasSub(c)
    /\ OnSub(c, Fill(Sub(c), type))
    /\ told' = told \ {ColumnOfChunk(c)}

Rotate(c, l, r) == Call("rotate") /\ HasSub(c) /\ OnSub(c, SetRotationIndex(Sub(c), l, r)) /\ UNCHANGED told
Unrotate(c) == Call("rotate") /\ HasSub(c) /\ OnSub(c, ClearRotations(Sub(c))) /\ UNCHANGED told

Relight(c, l) ==
    /\ Call("light")
    /\ HasSub(c)
    /\ \E level \in 0..MaxLight + 1 :
          \E new \in {SetSkyLight(Sub(c), l, level), SetBlockLight(Sub(c), l, level),
                      FillSkyLight(Sub(c), level), FillBlockLight(Sub(c), level), ClearLight(Sub(c))} :
             OnSub(c, new)
    /\ UNCHANGED told

Annotate(c, l, container) ==
    /\ Call("data")
    /\ HasSub(c)
    /\ \E new \in {SetBlockData(Sub(c), l, container), RemoveBlockData(Sub(c), l),
                   [Sub(c) EXCEPT !.data = container]} : OnSub(c, new)
    /\ UNCHANGED told

AnnotateColumn(col, container) ==
    /\ Call("data")
    /\ col \in DOMAIN columns
    /\ columns' = [columns EXCEPT ![col].data = container]
    /\ UNCHANGED <<setup, loaders, batch, commit, lod, written, told>>

\* compactAll, pruneEmptySubChunks, rebuildGameTickRegistries.
Tidy(col) ==
    /\ Call("tidy")
    /\ col \in DOMAIN columns
    /\ \E new \in {CompactAll(columns[col]), PruneEmptySubChunks(columns[col]),
                   RebuildGameTickRegistries(columns[col], {setup.ground})} :
          columns' = [columns EXCEPT ![col] = new]
    /\ UNCHANGED <<setup, loaders, batch, commit, lod, written, told>>

\* A column is stored and read back: ColumnSerializer::toCBOR, fromCBOR.
Reload(col) ==
    /\ Call("reload")
    /\ col \in DOMAIN columns
    /\ columns' = [columns EXCEPT ![col] = DeserializeColumn(SerializeColumn(@))]
    /\ told' = told \ {col}
    /\ UNCHANGED <<setup, loaders, batch, commit, lod, written>>

----------------------------------------------------------------------------
(* Batches *)

\* BatchBuilder::setBlock: by packed position, the last change counts.
Enter(b, p, type) == (Pack(p) :> type) @@ b

\* BatchBuilder::merge.
Merge(b, other) == other @@ b

Batched(p, type) ==
    /\ Call("batch")
    /\ commit.at = "idle"
    /\ \E b \in {Enter(batch, p, type), Restrict(batch, DOMAIN batch \ {Pack(p)}),
                 Merge(batch, Enter(<<>>, p, type))} : batch' = b
    /\ UNCHANGED <<setup, columns, loaders, commit, lod, written, told>>

\* getBounds.
Bounds(b) == IF b = <<>> THEN <<>>
             ELSE [min |-> [i \in 1..3 |-> Min({p[i] : p \in DOMAIN b})],
                   max |-> [i \in 1..3 |-> Max({p[i] : p \in DOMAIN b})]]

AffectedColumns(b) == {ColumnOf(p) : p \in DOMAIN b}

\* commitBatchWithHistory: the changes in the hash map's order, here any.
CommitStart ==
    /\ Call("commit")
    /\ commit.at = "idle"
    /\ \E order \in SetToAllKPermutations(DOMAIN batch) :
          /\ Len(order) = Cardinality(DOMAIN batch)
          /\ commit' = [at |-> "read", left |-> order, old |-> <<>>, changes |-> <<>>,
                        before |-> written, alone |-> TRUE]
    /\ UNCHANGED <<setup, columns, loaders, batch, lod, written, told>>

\* world.getBlock(pos); nothing is done when it is the new type.
CommitRead ==
    /\ commit.at = "read"
    /\ commit.left # <<>>
    /\ LET p == Head(commit.left)
           old == WorldBlock(columns, p)
       IN  commit' = IF old = batch[p] THEN [commit EXCEPT !.left = Tail(@)]
                     ELSE [commit EXCEPT !.at = "write", !.old = old]
    /\ UNCHANGED <<setup, columns, loaders, batch, lod, calls, written, told>>

\* world.setBlock(pos, newType), and the change is recorded.
CommitWrite ==
    /\ commit.at = "write"
    /\ LET p == Head(commit.left)
       IN  /\ SetBlockAt(p, batch[p])
           /\ told' = told \ {ColumnOf(p)}
           /\ commit' = [commit EXCEPT !.at = "read", !.left = Tail(@), !.old = <<>>,
                                       !.changes = Append(@, [pos |-> p, old |-> commit.old, new |-> batch[p]])]
    /\ UNCHANGED <<setup, loaders, batch, lod, calls>>

CommitEnd ==
    /\ commit.at = "read"
    /\ commit.left = <<>>
    /\ commit' = Idle
    /\ batch' = <<>>
    /\ UNCHANGED <<setup, columns, loaders, lod, calls, written, told>>

----------------------------------------------------------------------------
(* Force loaders, neighbours, levels of detail *)

Distance(a, b, axes) == Max({IF a[i] < b[i] THEN b[i] - a[i] ELSE a[i] - b[i] : i \in axes})

ForceLoad(p, radius) ==
    /\ Call("force")
    /\ \E new \in {(p :> radius) @@ loaders, Restrict(loaders, DOMAIN loaders \ {p})} : loaders' = new
    /\ UNCHANGED <<setup, columns, batch, commit, lod, written, told>>

\* canUnloadChunk, canUnloadColumn.
CanUnloadChunk(c) == \A p \in DOMAIN loaders : Distance(c, ChunkOf(p), 1..3) > loaders[p]
CanUnloadColumn(col) ==
    \A p \in DOMAIN loaders : Distance(<<col[1], 0, col[2]>>, ChunkOf(p), {1, 3}) > loaders[p]

\* getAffectedSubChunks.
AffectedSubChunks(p) ==
    LET side(i) == IF LocalOf(p)[i] = 0 THEN -1 ELSE IF LocalOf(p)[i] = Size - 1 THEN 1 ELSE 0
    IN  {ChunkOf(p)} \cup
        {[ChunkOf(p) EXCEPT ![i] = @ + side(i)] : i \in {i \in 1..3 : side(i) # 0}}

\* LODSubChunk::downsampleFrom, into the object that was built last.
BuildLod(c, mode) ==
    /\ Call("lod")
    /\ HasSub(c)
    /\ \E built \in Downsampled(lod.built, Sub(c), mode) :
          lod' = [built |-> built, source |-> Sub(c), mode |-> mode]
    /\ UNCHANGED <<setup, columns, loaders, batch, commit, written, told>>

Next ==
    \/ \E col \in {ColumnOf(p) : p \in setup.places} :
          \/ GetOrCreateColumn(col) \/ Recalculate(col) \/ Tidy(col) \/ Reload(col)
          \/ \E container \in setup.containers : AnnotateColumn(col, container)
    \/ \E p \in setup.places, type \in setup.types :
          SetBlockOnly(p, type) \/ SetBlockAndHeight(p, type) \/ Batched(p, type)
    \/ \E c \in Chunks :
          \/ \E type \in setup.types : FillChunk(c, type)
          \/ Unrotate(c)
          \/ \E mode \in {FullHeight, HeightLimited} : BuildLod(c, mode)
          \/ \E p \in {p \in setup.places : ChunkOf(p) = c} :
                \/ \E r \in 0..Rotations : Rotate(c, LocalOf(p), r)
                \/ Relight(c, LocalOf(p))
                \/ \E container \in setup.containers : Annotate(c, LocalOf(p), container)
    \/ CommitStart \/ CommitRead \/ CommitWrite \/ CommitEnd
    \/ \E p \in setup.places, radius \in 0..1 : ForceLoad(p, radius)

Spec == Init /\ [][Next]_vars

----------------------------------------------------------------------------
(* Properties *)

\* After any calls, in any order, a subchunk's palette, free slots and counts
\* are those of its cells: no slot is handed out twice or lost (palette.cpp).
PaletteIsExact ==
    \A col \in DOMAIN columns : \A y \in DOMAIN columns[col].subs : PaletteMatchesCells(columns[col].subs[y])

\* Every position shows what it was last given, by whatever path: columns and
\* subchunks that come and go, fills, batches, compaction, storing and loading.
WorldShowsWrites == \A p \in setup.places : WorldBlock(columns, p) = written[p]

\* A heightmap that was recalculated and told of every edit since is the
\* height of the highest block, also when subchunks in between are missing.
HeightmapIsTop ==
    \A col \in told : columns[col].height = [f \in Floor |-> Top(Solid(columns[col], f))]

\* A level of detail is solid where its source is and no higher, although it
\* is built into the object an earlier source left (lod.cpp).
LodFollowsSource == LodShowsSource(lod.built, lod.source, lod.mode) \/ lod = NoLod

\* A batch nobody interfered with writes its last change for every position,
\* and the history it returns undoes it (batch_builder.cpp).
BatchIsOneEdit ==
    commit.at = "read" /\ commit.left = <<>> /\ commit.alone =>
        /\ \A p \in DOMAIN batch : written[p] = batch[p]
        /\ \A i \in DOMAIN commit.changes :
              LET change == commit.changes[i]
              IN  change.old # change.new /\ written[change.pos] = change.new
        /\ \A p \in setup.places : written[p] # commit.before[p] =>
              ColumnOf(p) \in AffectedColumns(batch)
        /\ batch # <<>> => \A p \in DOMAIN batch, i \in 1..3 :
              Bounds(batch).min[i] <= p[i] /\ p[i] <= Bounds(batch).max[i]

\* A column may be unloaded exactly when all its subchunks may, whatever their
\* height; and the chunks an edit affects are those of the block and of the six
\* blocks around it, also below zero (world.cpp); a neighbour is looked up in
\* the same subchunk exactly when it is in it.
ChunkRulesAgree ==
    /\ \A c \in Chunks : CanUnloadColumn(ColumnOfChunk(c)) =
          \A y \in {ChunkOf(p)[2] : p \in DOMAIN loaders} \cup {c[2]} : CanUnloadChunk([c EXCEPT ![2] = y])
    /\ \A p \in setup.places : AffectedSubChunks(p) = {ChunkOf(p)} \cup {ChunkOf(Neighbor(p, f)) : f \in Face}
    /\ \A p \in setup.places, f \in Face : HasLocalNeighbor(LocalOf(p), f) <=> ChunkOf(Neighbor(p, f)) = ChunkOf(p)

\* What a column tells of itself without being searched is so: how many blocks
\* it has, and between which subchunks (chunk_column.cpp).
ColumnsKnowTheirBlocks ==
    \A col \in DOMAIN columns :
        LET c == columns[col]
            blocks == {b \in (DOMAIN c.subs) \X Cells : GetBlock(c.subs[b[1]], b[2]) # Air}
            ys == {b[1] : b \in blocks}
        IN  /\ ColumnNonAir(c) = Cardinality(blocks)
            /\ YBounds(c) = IF ys = {} THEN <<>> ELSE <<Min(ys), Max(ys)>>

\* What a stored column is expected to keep: the subchunks with a block.
Keepsake(col) ==
    [y \in {y \in DOMAIN col.subs : ~IsEmpty(col.subs[y])} |->
        LET s == col.subs[y]
        IN  [blocks |-> [c \in Cells |-> GetBlock(s, c)], rotation |-> s.rotation, light |-> s.light,
             blockData |-> {<<c, s.blockData[c]>> : c \in {c \in DOMAIN s.blockData : s.blockData[c] # <<>>}},
             data |-> s.data]]

\* A column that is stored and loaded again has its blocks, rotations, light
\* and data back, although palette and subchunks are built anew (serialization.cpp).
ReloadKeeps ==
    [][\A col \in DOMAIN columns : Reload(col) =>
          Keepsake(columns'[col]) = Keepsake(columns[col]) /\ columns'[col].data = columns[col].data]_vars

\* A change of a subchunk's blocks or rotations, or of its light, comes with a
\* higher version: what a mesh is compared with (subchunk.cpp).
ChangesAreVersioned ==
    [][\A col \in DOMAIN columns \cap DOMAIN columns' : ~Reload(col) =>
         \A y \in DOMAIN columns[col].subs \cap DOMAIN columns'[col].subs :
            LET old == columns[col].subs[y]
                new == columns'[col].subs[y]
            IN  /\ (\E c \in Cells : GetBlock(old, c) # GetBlock(new, c) \/ old.rotation[c] # new.rotation[c])
                     => new.blockVersion > old.blockVersion
                /\ old.light # new.light => new.lightVersion > old.lightVersion]_vars

\* What is written is what is there: in the palettes, in the cells, and for a
\* batch that nobody interfered with in the history that undoes it.
WritesAreKept ==
    /\ PaletteIsExact
    /\ WorldShowsWrites
    /\ BatchIsOneEdit

\* What is derived from blocks and force loaders agrees with its definition:
\* heightmaps, levels of detail, and the chunks an edit or a loader concerns.
DerivedFactsAgree ==
    /\ HeightmapIsTop
    /\ LodFollowsSource
    /\ ColumnsKnowTheirBlocks
    /\ ChunkRulesAgree
=============================================================================
