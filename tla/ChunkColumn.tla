---------------------------- MODULE ChunkColumn ----------------------------
(***************************************************************************)
(* A column of subchunks (chunk_column.cpp) and its stored form            *)
(* (serialization.cpp), as operators on records.  subs maps chunk heights  *)
(* to subchunks, height is the heightmap, data the column's own container. *)
(* A stored column keeps what the CBOR map of the code keeps; containers   *)
(* are bytes, palette names are block types.                               *)
(***************************************************************************)
EXTENDS SubChunk, Cbor

CONSTANT SmallPalette      \* 256: a longer palette needs two bytes per cell

NoHeight == -(2 * RangeY)  \* INT32_MIN

Floor == (0..Size - 1) \X (0..Size - 1)

NewColumn == [subs |-> <<>>, height |-> [f \in Floor |-> NoHeight], dirty |-> TRUE, lit |-> FALSE, data |-> <<>>]

\* worldYToChunkY and worldYToLocalY, applied to a world position.
ChunkY(p) == ChunkOf(p)[2]

ColumnBlock(col, p) ==
    IF ChunkY(p) \in DOMAIN col.subs THEN GetBlock(col.subs[ChunkY(p)], LocalOf(p)) ELSE Air

\* getOrCreateSubChunk.
WithSubChunk(col, y) == IF y \in DOMAIN col.subs THEN col ELSE [col EXCEPT !.subs = @ @@ (y :> NewSubChunk)]

WithoutSubChunks(col, ys) == [col EXCEPT !.subs = Restrict(@, DOMAIN @ \ ys)]

\* setBlock: with its last block a subchunk goes, light, rotations and data included.
ColumnSetBlock(col, p, type) ==
    IF type = Air /\ ChunkY(p) \notin DOMAIN col.subs THEN col
    ELSE LET c == WithSubChunk(col, ChunkY(p))
             s == SetBlock(c.subs[ChunkY(p)], LocalOf(p), type)
         IN  IF type = Air /\ IsEmpty(s) THEN WithoutSubChunks(col, {ChunkY(p)})
             ELSE [c EXCEPT !.subs[ChunkY(p)] = s]

PruneEmptySubChunks(col) == WithoutSubChunks(col, {y \in DOMAIN col.subs : IsEmpty(col.subs[y])})
ColumnNonAir(col) == MapThenSumSet(LAMBDA y : col.subs[y].nonAir, DOMAIN col.subs)

\* getYBounds: of the subchunks that are not empty.
YBounds(col) == LET ys == {y \in DOMAIN col.subs : ~IsEmpty(col.subs[y])}
                IN  IF ys = {} THEN <<>> ELSE <<Min(ys), Max(ys)>>

\* compactAll.
CompactAll(col) ==
    [col EXCEPT !.subs = [y \in DOMAIN @ |->
        IF NeedsCompaction(@[y].palette) THEN CompactPalette(@[y]) ELSE @[y]]]

RebuildGameTickRegistries(col, wantsTicks) ==
    [col EXCEPT !.subs = [y \in DOMAIN @ |-> RebuildGameTickRegistry(@[y], wantsTicks)]]

----------------------------------------------------------------------------
(* The heightmap *)

\* The world heights at <<x, z>> that hold a block.
Heights(col) == UNION {y * Size .. y * Size + Size - 1 : y \in DOMAIN col.subs}
Solid(col, f) == {h \in Heights(col) : ColumnBlock(col, <<f[1], h, f[2]>>) # Air}
Top(ys) == IF ys = {} THEN NoHeight ELSE Max(ys) + 1

\* Mutant: the scan begins with the block that was just removed.
UpdateHeight_NoScan(col, f, y, blocksSkyLight) ==
    IF blocksSkyLight THEN [col EXCEPT !.height[f] = Max({@, y + 1})]
    ELSE [col EXCEPT !.height[f] = IF @ = y + 1 THEN NoHeight ELSE @]

\* updateHeight: a block that blocks light can only raise the height; one that
\* does not, at the top, has the column scanned below it, down to -RangeY, for
\* a block of any kind.
UpdateHeight(col, f, y, blocksSkyLight) ==
    IF blocksSkyLight THEN [col EXCEPT !.height[f] = Max({@, y + 1})]
    ELSE IF col.height[f] # y + 1 THEN col
    ELSE [col EXCEPT !.height[f] = Top({h \in Solid(col, f) : h < y /\ h >= -RangeY})]

\* recalculateHeightmap: any block counts.
RecalculateHeightmap(col) == [col EXCEPT !.height = [f \in Floor |-> Top(Solid(col, f))], !.dirty = FALSE]

----------------------------------------------------------------------------
(* Storage: SubChunkSerializer, ColumnSerializer *)

\* Mutant: one byte per cell for a palette of one entry too many.
Wide_TooLate(palette) == Len(palette) > SmallPalette + 1

\* use16Bit.
Wide(palette) == Len(palette) > SmallPalette

\* serialize and toCBOR: freed slots are written as air; rotations, light and
\* containers only when there is something in them.
SerializeSubChunk(s, y) ==
    [y |-> y, palette |-> s.palette.entries, wide |-> Wide(s.palette.entries),
     cells |-> IF Wide(s.palette.entries) THEN s.cells
               ELSE [c \in Cells |-> ((s.cells[c] - 1) % SmallPalette) + 1],
     rotation |-> IF HasRotations(s) THEN <<s.rotation>> ELSE <<>>,
     light |-> IF IsLightDark(s) THEN <<>> ELSE <<s.light>>,
     blockData |-> LET full == {c \in DOMAIN s.blockData : s.blockData[c] # <<>>}
                   IN  [c \in full |-> EncodeContainer(s.blockData[c])],
     data |-> IF s.data = <<>> THEN <<>> ELSE EncodeContainer(s.data)]

\* toCBOR of a column: empty subchunks are left out, and so is the heightmap.
SerializeColumn(col) ==
    LET ys == {y \in DOMAIN col.subs : ~IsEmpty(col.subs[y])}
    IN  [subs |-> [i \in 1..Cardinality(ys) |->
                      SerializeSubChunk(col.subs[SetToSeq(ys)[i]], SetToSeq(ys)[i])],
         data |-> IF col.data = <<>> THEN <<>> ELSE EncodeContainer(col.data)]

Containers(blockData) ==
    LET full == {c \in DOMAIN blockData : ReadContainer(blockData[c]) # <<>>}
    IN  [c \in full |-> ReadContainer(blockData[c])]

\* deserialize: the stored palette is entered first, then cell after cell is set.
DeserializeSubChunk(f) ==
    LET start == [NewSubChunk EXCEPT !.palette =
                    FoldLeft(LAMBDA p, t : IF t = Air THEN p ELSE AddType(p, t), @, f.palette)]
        blocks == FoldLeftDomain(LAMBDA s, i :
                      LET c == FromLocalIndex(i - 1)
                      IN  IF f.cells[c] \in DOMAIN f.palette THEN SetBlock(s, c, f.palette[f.cells[c]]) ELSE s,
                    start, [i \in 1..Volume |-> i])
        rotated == IF f.rotation = <<>> THEN blocks ELSE SetRotationData(blocks, f.rotation[1])
        lit == IF f.light = <<>> THEN rotated ELSE SetLightData(rotated, f.light[1])
    IN  [lit EXCEPT !.blockData = Containers(f.blockData),
                    !.data = IF f.data = <<>> THEN <<>> ELSE ReadContainer(f.data)]

\* fromCBOR copies the blocks into subchunks of the column, and the rest only
\* where there is something and a subchunk to hold it.
CopyInto(col, s, y) ==
    LET blocks == FoldSet(LAMBDA c, acc : ColumnSetBlock(acc, ToWorld(<<0, y, 0>>, c), GetBlock(s, c)),
                          col, {c \in Cells : GetBlock(s, c) # Air})
        Rotated(t) == IF HasRotations(s) THEN SetRotationData(t, s.rotation) ELSE t
        Lit(t) == IF IsLightDark(s) THEN t ELSE SetLightData(t, s.light)
    IN  IF y \notin DOMAIN blocks.subs THEN blocks
        ELSE [blocks EXCEPT !.subs[y] = [Lit(Rotated(@)) EXCEPT !.blockData = s.blockData, !.data = s.data]]

DeserializeColumn(f) ==
    LET filled == FoldLeft(LAMBDA col, sub : CopyInto(col, DeserializeSubChunk(sub), sub.y), NewColumn, f.subs)
    IN  [filled EXCEPT !.data = IF f.data = <<>> THEN <<>> ELSE ReadContainer(f.data)]
=============================================================================
