-------------------------------- MODULE Lod --------------------------------
(***************************************************************************)
(* Levels of detail (lod.hpp, lod.cpp): a subchunk at level l has groups   *)
(* of 2^l by 2^l by 2^l blocks as cells, each with one block type and a    *)
(* height.  Which level is asked for is in MeshPipeline.                   *)
(***************************************************************************)
EXTENDS SubChunk

Grouping(level) == 2^level
Resolution(level) == Size \div 2^level
LodCells(level) == LET r == 0..Resolution(level) - 1 IN r \X r \X r
FullHeight == "full_height"
HeightLimited == "height_limited"

\* LODSubChunk(level): level 0 has no such object, it becomes level 1.
NewLod(level) ==
    LET l == Max({level, 1})
    IN  [level |-> l, blocks |-> [c \in LodCells(l) |-> Air], heights |-> [c \in LodCells(l) |-> 0],
         nonAir |-> 0, version |-> 1]

\* setBlock, setBlockInfo: the count and the version follow the type, the height always changes.
LodSetBlock(d, c, type) ==
    IF c \notin LodCells(d.level) \/ d.blocks[c] = type THEN d
    ELSE [d EXCEPT !.blocks[c] = type, !.version = @ + 1,
                   !.nonAir = @ + (IF d.blocks[c] = Air THEN 1 ELSE 0) - (IF type = Air THEN 1 ELSE 0)]
LodSetBlockInfo(d, c, info) ==
    IF c \notin LodCells(d.level) THEN d ELSE [LodSetBlock(d, c, info.type) EXCEPT !.heights[c] = info.height]

\* clear.
LodClear(d) == [NewLod(d.level) EXCEPT !.version = d.version + 1]

\* The cells of the subchunk in the group of the LOD cell c.
Group(c, level) ==
    {p \in Cells : \A i \in 1..3 : p[i] \div Grouping(level) = c[i]}

\* selectRepresentativeBlock: nothing but air; the first block of the highest
\* layer that has one, when that is in the upper half; else a most common type,
\* whichever of them the hash map holds first.
Representatives(s, c, level) ==
    LET solid == {p \in Group(c, level) : GetBlock(s, p) # Air}
        top == Max({p[2] % Grouping(level) : p \in solid})
        first == CHOOSE p \in solid : /\ p[2] % Grouping(level) = top
                                      /\ \A q \in solid : q[2] = p[2] => LocalIndex(p) <= LocalIndex(q)
        Count(t) == Cardinality({p \in solid : GetBlock(s, p) = t})
    IN  IF solid = {} THEN {[type |-> Air, height |-> 0]}
        ELSE IF top >= Grouping(level) \div 2 THEN {[type |-> GetBlock(s, first), height |-> top + 1]}
        ELSE {[type |-> t, height |-> top + 1] : t \in {t \in Types : Count(t) > 0 /\ \A u \in Types : Count(t) >= Count(u)}}

\* downsampleFrom: the results it may have.
Downsampled(d, s, mode) ==
    LET choices == {f \in [LodCells(d.level) -> UNION {Representatives(s, c, d.level) : c \in LodCells(d.level)}] :
                        \A c \in LodCells(d.level) : f[c] \in Representatives(s, c, d.level)}
        Info(i) == IF mode = FullHeight THEN [i EXCEPT !.height = Grouping(d.level)] ELSE i
    IN  {FoldSet(LAMBDA c, acc : IF choice[c].type = Air THEN acc ELSE LodSetBlockInfo(acc, c, Info(choice[c])),
                 LodClear(d), LodCells(d.level)) : choice \in choices}

\* A LOD cell is solid exactly where its group is, shows a type of the group's
\* and, where heights are limited, is as high as the group's highest block.
LodShowsSource(d, s, mode) ==
    /\ d.nonAir = Cardinality({c \in LodCells(d.level) : d.blocks[c] # Air})
    /\ \A c \in LodCells(d.level) :
          LET tops == {(p[2] % Grouping(d.level)) + 1 : p \in {p \in Group(c, d.level) : GetBlock(s, p) # Air}}
          IN  /\ d.blocks[c] \in {GetBlock(s, p) : p \in Group(c, d.level)} \/ tops = {}
              /\ (d.blocks[c] = Air) = (tops = {})
              /\ d.heights[c] = IF tops = {} THEN 0
                                ELSE IF mode = FullHeight THEN Grouping(d.level) ELSE Max(tops)
=============================================================================
