----------------------------- MODULE MeshBuilder -----------------------------
(***************************************************************************)
(* The mesh of one subchunk (mesh.cpp): which faces of blocks are quads,   *)
(* how the greedy builder merges them, and the meshes of levels of detail. *)
(* A scene is what the builder is given: blocks by cell, the chunk, and    *)
(* what its providers answer, as sets: opaque (world positions), occludes  *)
(* (<<position, face>>), transparent (types), custom (faces of types with  *)
(* a geometry), light (by position, dark elsewhere); and the switches.     *)
(* A mesh is a set of quads; ao is in quarters, light in sixtieths.        *)
(***************************************************************************)
EXTENDS Lod

\* FACE_DATA: the corners of the faces of the block at the origin.
FaceData == <<
    <<<<0, 0, 1>>, <<0, 0, 0>>, <<0, 1, 0>>, <<0, 1, 1>>>>,
    <<<<1, 0, 0>>, <<1, 0, 1>>, <<1, 1, 1>>, <<1, 1, 0>>>>,
    <<<<0, 0, 1>>, <<1, 0, 1>>, <<1, 0, 0>>, <<0, 0, 0>>>>,
    <<<<0, 1, 0>>, <<1, 1, 0>>, <<1, 1, 1>>, <<0, 1, 1>>>>,
    <<<<0, 0, 0>>, <<1, 0, 0>>, <<1, 1, 0>>, <<0, 1, 0>>>>,
    <<<<1, 0, 1>>, <<0, 0, 1>>, <<0, 1, 1>>, <<1, 1, 1>>>> >>
Corners(face) == FaceData[face + 1]
NegX == 0
NegY == 2
PosY == 3
PosZ == 5

Plus(p, q) == Each(LAMBDA i : p[i] + q[i])
All4(x) == <<x, x, x, x>>

----------------------------------------------------------------------------
(* Shading *)

\* The sampling directions of getFaceAO and getFaceSkyBlockLight, the first
\* one turned round for three of the faces.
MirroredU(face) == face \in {0, 3, 4}
Tangent1(face) ==
    LET axis == IF face \in {0, 1} THEN 3 ELSE 1
        sign == IF MirroredU(face) THEN -1 ELSE 1
    IN  Each(LAMBDA i : IF i = axis THEN sign ELSE 0)
Tangent2(face) == IF face \in {2, 3} THEN <<0, 0, 1>> ELSE <<0, 1, 0>>
Sample(p, face, dx, dy) ==
    LET n == Neighbor(p, face)
    IN  Each(LAMBDA i : n[i] + Tangent1(face)[i] * dx + Tangent2(face)[i] * dy)

\* The corner of the sampling grid each vertex takes.
GridCorners(face) == IF MirroredU(face) THEN <<<<1, -1>>, <<-1, -1>>, <<-1, 1>>, <<1, 1>>>>
                     ELSE <<<<-1, -1>>, <<1, -1>>, <<1, 1>>, <<-1, 1>>>>

\* calculateCornerAO.
CornerAO(side1, side2, corner) == 4 - Cardinality({i \in 1..3 : <<side1, side2, corner>>[i]})

FaceAO(s, p, face) ==
    LET Opaque(dx, dy) == Sample(p, face, dx, dy) \in s.opaque
        At(g) == CornerAO(Opaque(g[1], 0), Opaque(0, g[2]), Opaque(g[1], g[2]))
    IN  LET c == GridCorners(face) IN <<At(c[1]), At(c[2]), At(c[3]), At(c[4])>>

LightAt(s, p) == IF p \in DOMAIN s.light THEN s.light[p] ELSE Dark

\* getFaceSkyBlockLight, one channel: four samples around each corner.
FaceLight(s, p, face, channel) ==
    LET L(dx, dy) == LightAt(s, Sample(p, face, dx, dy))[channel]
        At(g) == L(0, 0) + L(g[1], 0) + L(0, g[2]) + L(g[1], g[2])
    IN  LET c == GridCorners(face) IN <<At(c[1]), At(c[2]), At(c[3]), At(c[4])>>

Bright == <<4 * MaxLight, 0>>

\* The AO and the light of a standard face.
FaceShade(s, p, face) ==
    LET Channel(c) == IF s.smooth /\ s.lit THEN FaceLight(s, p, face, c)
                      ELSE IF s.flat /\ s.lit THEN All4(4 * LightAt(s, Neighbor(p, face))[c])
                      ELSE All4(Bright[c])
    IN  [ao |-> IF s.calculateAO THEN FaceAO(s, p, face) ELSE All4(4), sky |-> Channel(1), block |-> Channel(2)]

\* A face of a custom geometry has one shade: a standard face is lit from its
\* neighbour whenever there is a light provider.
CustomShade(s, p, face) ==
    LET Channel(c) == IF face \in Face /\ s.lit THEN 4 * LightAt(s, Neighbor(p, face))[c]
                      ELSE IF (s.smooth \/ s.flat) /\ s.lit THEN 4 * LightAt(s, p)[c]
                      ELSE Bright[c]
    IN  [ao |-> All4(4), sky |-> All4(Channel(1)), block |-> All4(Channel(2))]

----------------------------------------------------------------------------
(* Faces of blocks *)

World(s, l) == ToWorld(s.chunk, l)

\* Whether the neighbour hides a face.
Hidden(s, l, face) ==
    LET n == Neighbor(World(s, l), face)
    IN  ~s.disableFaceCulling /\ IF s.directional THEN <<n, OppositeFace(face)>> \in s.occludes ELSE n \in s.opaque

\* The cells of a pass: "all", "opaque" or "transparent".
InPass(s, l, pass) ==
    /\ s.blocks[l] # Air
    /\ pass # "all" => (s.blocks[l] \in s.transparent) = (pass = "transparent")
HasGeometry(s, l) == s.blocks[l] \in DOMAIN s.custom /\ s.custom[s.blocks[l]] # <<>>

Quad(face, type, corners, tiles, shade) ==
    [face |-> face, type |-> type, corners |-> corners, tiles |-> tiles, shade |-> shade]

\* addFace and addCustomFace (whose texture is the model's).
FaceQuad(s, l, face) ==
    LET c == Corners(face)
    IN  Quad(face, s.blocks[l], <<Plus(l, c[1]), Plus(l, c[2]), Plus(l, c[3]), Plus(l, c[4])>>, <<1, 1>>,
             FaceShade(s, World(s, l), face))
CustomQuads(s, l) ==
    {Quad(g.face, s.blocks[l], [i \in DOMAIN g.vertices |-> Plus(l, g.vertices[i])], <<>>, CustomShade(s, World(s, l), g.face)) :
        g \in {g \in Range(s.custom[s.blocks[l]]) :
                 /\ Len(g.vertices) >= 3
                 /\ g.face \in Face => ~Hidden(s, l, g.face)}}

\* buildSimpleMesh.
SimpleMesh(s, pass) ==
    UNION {IF HasGeometry(s, l) THEN CustomQuads(s, l)
           ELSE {FaceQuad(s, l, face) : face \in {f \in Face : ~Hidden(s, l, f)}} :
              l \in {l \in Cells : InPass(s, l, pass)}}

----------------------------------------------------------------------------
(* Greedy merging *)

NormalAxis(face) == (face \div 2) + 1
UAxis(face) == IF NormalAxis(face) = 1 THEN 3 ELSE 1
VAxis(face) == IF NormalAxis(face) = 2 THEN 3 ELSE 2
OnAxes(face, n, u, v) == Each(LAMBDA i : IF i = NormalAxis(face) THEN n ELSE IF i = UAxis(face) THEN u ELSE v)

\* Mutant: a rectangle grows downwards as long as its first column does.
Rectangle_FirstColumn(free, u, v) ==
    LET width == CHOOSE w \in 1..Size : (\A k \in 0..w - 1 : <<u + k, v>> \in free) /\ <<u + w, v>> \notin free
        height == CHOOSE h \in 1..Size : (\A k \in 0..h - 1 : <<u, v + k>> \in free) /\ <<u, v + h>> \notin free
    IN  [u |-> u, v |-> v, width |-> width, height |-> height]

\* The rectangle grown from a cell: first along u, then by whole rows along v.
Rectangle(free, u, v) ==
    LET width == CHOOSE w \in 1..Size : (\A k \in 0..w - 1 : <<u + k, v>> \in free) /\ <<u + w, v>> \notin free
        Row(k) == \A j \in 0..width - 1 : <<u + j, v + k>> \in free
        height == CHOOSE h \in 1..Size : (\A k \in 0..h - 1 : Row(k)) /\ ~Row(h)
    IN  [u |-> u, v |-> v, width |-> width, height |-> height]
Covered(r) == (r.u..r.u + r.width - 1) \X (r.v..r.v + r.height - 1)

\* The merge of a mask, row by row; cells with different entries never
\* meet, so it is told for the cells of one entry.
Rectangles(cells) ==
    FoldLeft(LAMBDA acc, i : LET u == i % Size
                                 v == i \div Size
                             IN  IF <<u, v>> \notin acc.free THEN acc
                                 ELSE LET r == Rectangle(acc.free, u, v)
                                      IN  [free |-> acc.free \ Covered(r), done |-> acc.done \cup {r}],
             [free |-> cells, done |-> {}], [i \in 1..Size * Size |-> i - 1]).done

\* A mask is a set of [u, v, entry]: the rectangles of each entry.
Merged(mask) ==
    UNION {{[rectangle |-> r, entry |-> e] : r \in Rectangles({<<m.u, m.v>> : m \in {m \in mask : m.entry = e}})} :
              e \in {m.entry : m \in mask}}

\* The order of the corners in addGreedyQuad and addGreedyLODQuad.
CornerU(face) == IF face \in {NegX, PosZ} THEN <<1, 0, 0, 1>> ELSE <<0, 1, 1, 0>>
CornerV(face) == IF face = NegY THEN <<1, 1, 0, 0>> ELSE <<0, 0, 1, 1>>

Spanned(face, n, u, v, width, height) ==
    LET At(i) == OnAxes(face, n, u + CornerU(face)[i] * width, v + CornerV(face)[i] * height)
    IN  <<At(1), At(2), At(3), At(4)>>

GreedyQuad(face, slice, r, e) ==
    Quad(face, e.type, Spanned(face, slice + (face % 2), r.u, r.v, r.width, r.height), <<r.width, r.height>>, e.shade)

\* greedyMeshFace.
GreedyFace(s, face, pass) ==
    LET Visible(slice) ==
            {l \in Cells : l[NormalAxis(face)] = slice /\ InPass(s, l, pass) /\ ~HasGeometry(s, l) /\ ~Hidden(s, l, face)}
        Mask(slice) == {[u |-> l[UAxis(face)], v |-> l[VAxis(face)],
                         entry |-> [type |-> s.blocks[l], shade |-> FaceShade(s, World(s, l), face)]] : l \in Visible(slice)}
    IN  UNION {{GreedyQuad(face, slice, q.rectangle, q.entry) : q \in Merged(Mask(slice))} : slice \in 0..Size - 1}

\* buildGreedyMesh: custom geometries are not merged.
GreedyMesh(s, pass) ==
    UNION {GreedyFace(s, face, pass) : face \in Face}
    \cup UNION {CustomQuads(s, l) : l \in {l \in Cells : InPass(s, l, pass) /\ HasGeometry(s, l)}}

\* buildSubChunkMesh: one pass for all blocks.
SubChunkMesh(s) == IF s.greedyMeshing THEN GreedyMesh(s, "all") ELSE SimpleMesh(s, "all")

\* buildSubChunkMeshSplit: transparent faces are never merged, they are sorted.
SubChunkMeshSplit(s) ==
    [opaque |-> IF s.greedyMeshing THEN GreedyMesh(s, "opaque") ELSE SimpleMesh(s, "opaque"),
     transparent |-> SimpleMesh(s, "transparent")]
=============================================================================
