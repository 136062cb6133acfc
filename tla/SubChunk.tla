------------------------------ MODULE SubChunk ------------------------------
(***************************************************************************)
(* The blocks of one subchunk (subchunk.cpp, palette.cpp) as operators on  *)
(* records.  A cell holds an index into the palette; the palette maps      *)
(* indices to block types and back, and keeps the slots of types no cell   *)
(* uses any more for reuse.  Index 0 of the code, which is air, is 1 here. *)
(* Light is a pair <<sky, block>>.                                         *)
(***************************************************************************)
EXTENDS Position, Sequences, FiniteSets, FiniteSetsExt, SequencesExt, Functions

CONSTANTS Types,      \* block types other than air
          MaxLight,   \* 15: light is kept in 4 bits
          Rotations   \* Rotation::count(), 24: rotations are 0..Rotations - 1

Air == "air"
AirIndex == 1
Invalid == 0          \* INVALID_LOCAL_INDEX
Volume == Size * Size * Size
Dark == <<0, 0>>

\* A table with x mapped to v.
Mapped(table, x, v) == [k \in DOMAIN table \cup {x} |-> IF k = x THEN v ELSE table[k]]

----------------------------------------------------------------------------
(* SubChunkPalette *)

NewPalette == [entries |-> <<Air>>, index |-> [t \in {Air} |-> AirIndex], free |-> <<>>, max |-> AirIndex]

\* Mutant: a freed slot is used again and stays on the free list.
AddType_KeepsFree(p, t) ==
    IF t \in DOMAIN p.index THEN p
    ELSE LET i == IF p.free # <<>> THEN Last(p.free) ELSE Len(p.entries) + 1
         IN  [entries |-> IF i <= Len(p.entries) THEN [p.entries EXCEPT ![i] = t] ELSE Append(p.entries, t),
              index |-> Mapped(p.index, t, i), free |-> p.free, max |-> Max({p.max, i})]

\* addType: an existing index, the last freed slot, or a new one.
AddType(p, t) ==
    IF t \in DOMAIN p.index THEN p
    ELSE LET reuse == p.free # <<>>
             i == IF reuse THEN Last(p.free) ELSE Len(p.entries) + 1
         IN  [entries |-> IF reuse THEN [p.entries EXCEPT ![i] = t] ELSE Append(p.entries, t),
              index |-> Mapped(p.index, t, i),
              free |-> IF reuse THEN Front(p.free) ELSE p.free,
              max |-> Max({p.max, i})]

\* removeType: the slot is marked with air and freed; the highest index stays.
RemoveType(p, t) ==
    IF t = Air \/ t \notin DOMAIN p.index THEN p
    ELSE [p EXCEPT !.entries[p.index[t]] = Air,
                   !.index = Restrict(p.index, DOMAIN p.index \ {t}),
                   !.free = Append(@, p.index[t])]

GlobalId(p, i) == IF i \in DOMAIN p.entries THEN p.entries[i] ELSE Air

NeedsCompaction(p) == p.free # <<>>

\* bitsForSerialization: ceilLog2 of the number of indices up to the highest.
BitsForSerialization(p) == CHOOSE b \in 0..16 : 2^b >= p.max /\ (b = 0 \/ 2^(b - 1) < p.max)

\* compact: air and the entries in use, contiguously; old index to new index.
InUse(p, usage, i) == i = AirIndex \/ (p.entries[i] # Air /\ i <= Len(usage) /\ usage[i] > 0)
KeptIndices(p, usage) ==
    LET kept[n \in 0..Len(p.entries)] ==
            IF n = 0 THEN <<>> ELSE IF InUse(p, usage, n) THEN Append(kept[n - 1], n) ELSE kept[n - 1]
    IN  kept[Len(p.entries)]
PlaceIn(list, x) == CHOOSE n \in DOMAIN list : list[n] = x
CompactMapping(p, usage) ==
    [i \in DOMAIN p.entries |->
        IF i \in Range(KeptIndices(p, usage)) THEN PlaceIn(KeptIndices(p, usage), i) ELSE Invalid]
Compacted(p, usage) ==
    LET kept == KeptIndices(p, usage)
        entries == [n \in DOMAIN kept |-> p.entries[kept[n]]]
    IN  [entries |-> entries,
         index |-> [t \in Range(entries) |-> PlaceIn(entries, t)],
         free |-> <<>>, max |-> Len(entries)]

----------------------------------------------------------------------------
(* SubChunk: the blocks *)

NewSubChunk ==
    [palette |-> NewPalette, cells |-> [c \in Cells |-> AirIndex], usage |-> <<Volume>>, nonAir |-> 0,
     rotation |-> [c \in Cells |-> 0], light |-> [c \in Cells |-> Dark],
     blockData |-> <<>>, data |-> <<>>, ticking |-> {}, blockVersion |-> 1, lightVersion |-> 1]

GetBlock(s, c) == GlobalId(s.palette, s.cells[c])
IsEmpty(s) == s.nonAir = 0
Grown(usage, n) == usage \o [i \in 1..Max({0, n - Len(usage)}) |-> 0]

\* decrementUsage: the type of an unused index leaves the palette.
DecrementUsage(s, i) ==
    IF i > Len(s.usage) \/ s.usage[i] = 0 THEN s
    ELSE [s EXCEPT !.usage[i] = @ - 1,
                   !.palette = IF s.usage[i] = 1 /\ i # AirIndex /\ GlobalId(@, i) # Air
                               THEN RemoveType(@, GlobalId(@, i)) ELSE @]

IncrementUsage(s, i) ==
    LET grown == Grown(s.usage, i) IN [s EXCEPT !.usage = [grown EXCEPT ![i] = @ + 1]]

\* setBlockInternal.
SetBlockInternal(s, c, type, old) ==
    LET palette == AddType(s.palette, type)
        i == palette.index[type]
        grown == [s EXCEPT !.palette = palette, !.usage = Grown(@, i)]
    IN  [IncrementUsage(DecrementUsage(grown, s.cells[c]), i) EXCEPT
            !.cells[c] = i,
            !.nonAir = @ + (IF type # Air THEN 1 ELSE 0) - (IF old # Air THEN 1 ELSE 0)]

\* setBlock: nothing, not even a version, changes when the type does not.
\* The rotation and the extra data of the cell are left as they are.
SetBlock(s, c, type) ==
    IF GetBlock(s, c) = type THEN s
    ELSE [SetBlockInternal(s, c, type, GetBlock(s, c)) EXCEPT !.blockVersion = @ + 1]

HasRotations(s) == \E c \in Cells : s.rotation[c] # 0

\* Mutant: only a rotation counts as a change.
Clear_RotationsOnly(s) ==
    [s EXCEPT !.cells = [c \in Cells |-> AirIndex], !.palette = NewPalette,
              !.usage = <<Volume>>, !.nonAir = 0, !.rotation = [c \in Cells |-> 0],
              !.blockVersion = IF HasRotations(s) THEN @ + 1 ELSE @]

\* clear: counted as a change when there was a block or a rotation.
Clear(s) ==
    [s EXCEPT !.cells = [c \in Cells |-> AirIndex], !.palette = NewPalette,
              !.usage = <<Volume>>, !.nonAir = 0, !.rotation = [c \in Cells |-> 0],
              !.blockVersion = IF ~IsEmpty(s) \/ HasRotations(s) THEN @ + 1 ELSE @]

\* fill.
Fill(s, type) ==
    IF type = Air THEN Clear(s)
    ELSE [s EXCEPT !.cells = [c \in Cells |-> 2], !.palette = AddType(NewPalette, type),
                   !.usage = <<0, Volume>>, !.nonAir = Volume,
                   !.rotation = [c \in Cells |-> 0], !.blockVersion = @ + 1]

\* compactPalette: the counts are taken again from the remapped cells.
CompactPalette(s) ==
    LET to == CompactMapping(s.palette, s.usage)
        cells == [c \in Cells |-> IF to[s.cells[c]] # Invalid THEN to[s.cells[c]] ELSE AirIndex]
        palette == Compacted(s.palette, s.usage)
    IN  [s EXCEPT !.cells = cells, !.palette = palette,
                  !.usage = [i \in DOMAIN palette.entries |-> Cardinality({c \in Cells : cells[c] = i})]]

----------------------------------------------------------------------------
(* SubChunk: rotation, light, extra data, game ticks *)

\* setRotation, setRotationIndex: an index that is no rotation is the identity.
SetRotationIndex(s, c, r) ==
    LET new == IF r >= Rotations THEN 0 ELSE r
    IN  IF c \notin Cells \/ s.rotation[c] = new THEN s
        ELSE [s EXCEPT !.rotation[c] = new, !.blockVersion = @ + 1]

ClearRotations(s) ==
    IF HasRotations(s) THEN [s EXCEPT !.rotation = [c \in Cells |-> 0], !.blockVersion = @ + 1] ELSE s

SetRotationData(s, rotation) == [s EXCEPT !.rotation = rotation, !.blockVersion = @ + 1]

\* The setters of light store 4 bits and count only what changes.
Level(l) == l % (MaxLight + 1)
RelitAs(s, light) ==
    IF s.light = light THEN s ELSE [s EXCEPT !.light = light, !.lightVersion = @ + 1]
SetLight(s, c, sky, block) ==
    IF c \in Cells THEN RelitAs(s, [s.light EXCEPT ![c] = <<Level(sky), Level(block)>>]) ELSE s
SetSkyLight(s, c, l) == IF c \in Cells THEN SetLight(s, c, l, s.light[c][2]) ELSE s
SetBlockLight(s, c, l) == IF c \in Cells THEN SetLight(s, c, s.light[c][1], l) ELSE s
ClearLight(s) == RelitAs(s, [c \in Cells |-> Dark])
FillSkyLight(s, l) == RelitAs(s, [c \in Cells |-> <<Level(l), s.light[c][2]>>])
FillBlockLight(s, l) == RelitAs(s, [c \in Cells |-> <<s.light[c][1], Level(l)>>])
IsLightDark(s) == \A c \in Cells : s.light[c] = Dark

\* setLightData: counted as a change whatever it holds.
SetLightData(s, light) == [s EXCEPT !.light = light, !.lightVersion = @ + 1]

\* getOrCreateBlockData(c).set(...), removeBlockData, getOrCreateData().set(...), removeData.
SetBlockData(s, c, container) == [s EXCEPT !.blockData = Mapped(@, c, container)]
RemoveBlockData(s, c) == [s EXCEPT !.blockData = Restrict(@, DOMAIN @ \ {c})]

RebuildGameTickRegistry(s, wantsTicks) ==
    [s EXCEPT !.ticking = {c \in Cells : GetBlock(s, c) \in wantsTicks \ {Air}}]

----------------------------------------------------------------------------
(* What must hold of a subchunk *)

\* Counts, both directions of the palette and its free list agree with the cells.
PaletteAgrees(s) ==
    LET p == s.palette
        used == Range(p.index)
    IN  /\ \A t \in DOMAIN p.index : p.entries[p.index[t]] = t
        /\ \A i, j \in DOMAIN p.free : p.free[i] = p.free[j] => i = j
        /\ Range(p.free) = DOMAIN p.entries \ used
        /\ \A i \in Range(p.free) : p.entries[i] = Air
        /\ Range(s.cells) \subseteq used
        /\ \A i \in DOMAIN p.entries :
              (IF i \in DOMAIN s.usage THEN s.usage[i] ELSE 0) = Cardinality({c \in Cells : s.cells[c] = i})
        /\ \A t \in DOMAIN p.index \ {Air} : \E c \in Cells : GetBlock(s, c) = t
        /\ s.nonAir = Cardinality({c \in Cells : GetBlock(s, c) # Air})
        /\ \A c \in Cells : s.cells[c] <= p.max

\* And the bits a cell is stored in are enough for its index.
PaletteMatchesCells(s) == PaletteAgrees(s) /\ s.palette.max <= 2^BitsForSerialization(s.palette)
=============================================================================
