------------------------------ MODULE Position ------------------------------
(***************************************************************************)
(* Coordinates (position.hpp, position.cpp).  Blocks have world positions  *)
(* <<x, y, z>>, subchunks are cubes of Size blocks (16 in the code) named  *)
(* by their chunk position, columns are stacks of subchunks named <<x, z>>.*)
(* Packing a position into 64 bits keeps 26 bits of x and z and 12 of y.   *)
(***************************************************************************)
EXTENDS Integers

CONSTANTS Size,       \* edge of a subchunk
          RangeXZ,    \* XZ_OFFSET: half the range of a packed x or z
          RangeY      \* Y_OFFSET: half the range of a packed y

ASSUME PositionAssumption == {Size, RangeXZ, RangeY} \subseteq Nat \ {0}

\* A vector by its components.
Each(F(_)) == <<F(1), F(2), F(3)>>

Face == 0..5

\* oppositeFace: faces are numbered in pairs, the lowest bit tells them apart.
OppositeFace(f) == IF f % 2 = 0 THEN f + 1 ELSE f - 1

\* faceNormal: -x, +x, -y, +y, -z, +z.
FaceNormal(f) ==
    LET d == IF f % 2 = 0 THEN -1 ELSE 1
    IN  Each(LAMBDA i : IF i = (f \div 2) + 1 THEN d ELSE 0)

Cells == (0..Size - 1) \X (0..Size - 1) \X (0..Size - 1)

\* ChunkPos::fromBlock, ColumnPos::fromBlock: shifts round towards minus infinity.
ChunkOf(p) == <<p[1] \div Size, p[2] \div Size, p[3] \div Size>>
ColumnOf(p) == <<p[1] \div Size, p[3] \div Size>>
ColumnOfChunk(c) == <<c[1], c[3]>>

\* BlockPos::local: the low bits, also of negative coordinates.
LocalOf(p) == <<p[1] % Size, p[2] % Size, p[3] % Size>>

\* ChunkPos::toWorld.
ToWorld(c, l) == <<c[1] * Size + l[1], c[2] * Size + l[2], c[3] * Size + l[3]>>

\* BlockPos::neighbor, ChunkPos::neighbor.
Neighbor(p, f) == <<p[1] + FaceNormal(f)[1], p[2] + FaceNormal(f)[2], p[3] + FaceNormal(f)[3]>>

\* LocalBlockPos::hasNeighbor: inside the same subchunk.
HasLocalNeighbor(l, f) == Neighbor(l, f) \in Cells

\* LocalBlockPos::toIndex, y-major, and fromIndex.
LocalIndex(l) == (l[2] * Size + l[3]) * Size + l[1]
FromLocalIndex(i) == <<i % Size, i \div (Size * Size), (i \div Size) % Size>>

\* BlockPos::pack then unpack: each coordinate is masked to its bits.
Wrapped(v, half) == ((v + half) % (2 * half)) - half
Pack(p) == <<Wrapped(p[1], RangeXZ), Wrapped(p[2], RangeY), Wrapped(p[3], RangeXZ)>>
=============================================================================
