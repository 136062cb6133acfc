------------------------------- MODULE LodMesh -------------------------------
(***************************************************************************)
(* Meshes of levels of detail (mesh.cpp, buildLODMesh).  A scene has the   *)
(* downsampled subchunk (lod), its chunk, the merge mode, the opaque world *)
(* positions outside (opaque), light, and the builder's switches.          *)
(***************************************************************************)
EXTENDS MeshBuilder

CONSTANTS Scenes  \* the scenes a builder may be given; lod is NoLod in those of full detail

VARIABLES scene,  \* what the builder is given
          mesh    \* what it returned, or NotBuilt

NoLod == [level |-> 0]
NotBuilt == [built |-> FALSE]

Side(face) == NormalAxis(face) # 2
Scale(s) == Grouping(s.lod.level)

\* A cell that has no height is a full one.
LodHeight(s, c) == IF s.lod.heights[c] > 0 THEN s.lod.heights[c] ELSE Scale(s)
Limited(s, height) == s.mode = HeightLimited /\ height < Scale(s)

\* The world position of a cell's lowest corner.
LodOrigin(s, c) == ToWorld(s.chunk, Each(LAMBDA i : c[i] * Scale(s)))

\* With limited heights tops are always built, and sides unless the neighbour is as high.
LodHidden(s, c, face) ==
    LET n == Neighbor(c, face)
    IN  /\ ~s.disableFaceCulling /\ ~(s.mode = HeightLimited /\ face = PosY)
        /\ IF n \in LodCells(s.lod.level)
           THEN /\ s.lod.blocks[n] # Air
                /\ s.mode = HeightLimited /\ Side(face) => s.lod.heights[n] >= LodHeight(s, c)
           ELSE Each(LAMBDA i : LodOrigin(s, c)[i] + FaceNormal(face)[i] * Scale(s)) \in s.opaque

\* The brightest of the four corners just outside the face.
LodLight(s, c, face, channel) ==
    LET out == IF face % 2 = 1 THEN Scale(s) ELSE -1
        At(off1, off2) == LightAt(s, Plus(LodOrigin(s, c),
            CASE NormalAxis(face) = 1 -> <<out, off1, off2>> [] NormalAxis(face) = 2 -> <<off1, out, off2>>
              [] OTHER -> <<off1, off2, out>>))[channel]
    IN  Max({At(o[1], o[2]) : o \in {0, Scale(s) - 1} \X {0, Scale(s) - 1}})
LodShade(s, c, face) ==
    LET Channel(k) == IF (s.smooth \/ s.flat) /\ s.lit THEN 4 * LodLight(s, c, face, k) ELSE Bright[k]
    IN  [ao |-> All4(4), sky |-> All4(Channel(1)), block |-> All4(Channel(2))]

\* addScaledFace and addHeightLimitedFace.
ScaledFace(s, c, face) ==
    LET h == LodHeight(s, c)
        high == IF Limited(s, h) THEN h ELSE Scale(s)
        At(i) == LET p == Corners(face)[i]
                 IN  <<(c[1] + p[1]) * Scale(s), (c[2] * Scale(s)) + (p[2] * high), (c[3] + p[3]) * Scale(s)>>
    IN  Quad(face, s.lod.blocks[c], <<At(1), At(2), At(3), At(4)>>,
             <<Scale(s), IF Side(face) THEN high ELSE Scale(s)>>, LodShade(s, c, face))

LodFaces(s) ==
    {cf \in LodCells(s.lod.level) \X Face : s.lod.blocks[cf[1]] # Air /\ ~LodHidden(s, cf[1], cf[2])}

\* buildLODMesh without greedy meshing.
SimpleLodMesh(s) == {ScaledFace(s, cf[1], cf[2]) : cf \in LodFaces(s)}

\* addGreedyLODQuad.
GreedyLodQuad(s, face, slice, r, e) ==
    LET limited == e.height < Scale(s)
        n == IF limited /\ face = PosY THEN (slice * Scale(s)) + e.height ELSE (slice + (face % 2)) * Scale(s)
        high == r.height * (IF limited /\ Side(face) THEN e.height ELSE Scale(s))
    IN  Quad(face, e.type, Spanned(face, n, r.u * Scale(s), r.v * Scale(s), r.width * Scale(s), high),
             <<r.width * Scale(s), high>>, e.shade)

LodEntry(s, c, face) ==
    [type |-> s.lod.blocks[c], height |-> IF s.mode = HeightLimited THEN LodHeight(s, c) ELSE Scale(s),
     shade |-> LodShade(s, c, face)]

\* greedyMeshLODFace, buildGreedyLODMesh.
GreedyLodMesh(s) ==
    LET faces == LodFaces(s)
        Mask(face, slice) ==
            {[u |-> cf[1][UAxis(face)], v |-> cf[1][VAxis(face)], entry |-> LodEntry(s, cf[1], face)] :
                cf \in {cf \in faces : cf[2] = face /\ cf[1][NormalAxis(face)] = slice}}
    IN  UNION {{GreedyLodQuad(s, fs[1], fs[2], q.rectangle, q.entry) : q \in Merged(Mask(fs[1], fs[2]))} :
                  fs \in Face \X (0..Resolution(s.lod.level) - 1)}

\* buildLODMesh: nothing at all of an empty one.
LodMeshOf(s) == IF s.lod.nonAir = 0 THEN {} ELSE IF s.greedyMeshing THEN GreedyLodMesh(s) ELSE SimpleLodMesh(s)

----------------------------------------------------------------------------
(* Calls *)

MeshInit == scene \in Scenes /\ mesh = NotBuilt

BuildSubChunkMesh ==
    /\ mesh = NotBuilt /\ scene.lod = NoLod
    /\ mesh' = [opaque |-> SubChunkMesh(scene), transparent |-> {}, split |-> FALSE]
    /\ UNCHANGED scene

BuildSubChunkMeshSplit ==
    /\ mesh = NotBuilt /\ scene.lod = NoLod
    /\ mesh' = SubChunkMeshSplit(scene) @@ [split |-> TRUE]
    /\ UNCHANGED scene

BuildLODMesh ==
    /\ mesh = NotBuilt /\ scene.lod # NoLod
    /\ mesh' = [opaque |-> LodMeshOf(scene), transparent |-> {}, split |-> FALSE]
    /\ UNCHANGED scene

MeshNext == BuildSubChunkMesh \/ BuildSubChunkMeshSplit \/ BuildLODMesh

----------------------------------------------------------------------------
(* Properties *)

Lowest(q) == Each(LAMBDA i : Min({q.corners[k][i] : k \in 1..4}))
Highest(q) == Each(LAMBDA i : Max({q.corners[k][i] : k \in 1..4}))
Standard(quads) == {q \in quads : q.tiles # <<>>}

\* The unit squares of a quad, with what is drawn on them.
Squares(q) ==
    LET lo == Lowest(q)
        hi == Highest(q)
        n == NormalAxis(q.face)
        On(i) == IF i = n THEN {lo[i]} ELSE lo[i]..hi[i] - 1
    IN  {[face |-> q.face, at |-> p, type |-> q.type, shade |-> q.shade] : p \in On(1) \X On(2) \X On(3)}

\* The same squares, none of them drawn twice.
SameSurface(quads, reference) ==
    LET squares == UNION {Squares(q) : q \in Standard(quads)}
    IN  /\ squares = UNION {Squares(q) : q \in Standard(reference)}
        /\ MapThenSumSet(LAMBDA q : Cardinality(Squares(q)), Standard(quads)) = Cardinality(squares)
        /\ quads \ Standard(quads) = reference \ Standard(reference)

\* With limited heights, a limited cell under another one: there the greedy
\* builder puts the two sides on top of each other, below the gap between them.
Overhang(s) ==
    /\ s.mode = HeightLimited
    /\ \E c \in LodCells(s.lod.level) : /\ s.lod.blocks[c] # Air /\ Limited(s, LodHeight(s, c))
                                        /\ Neighbor(c, PosY) \in LodCells(s.lod.level)
                                        /\ s.lod.blocks[Neighbor(c, PosY)] # Air

\* Merging faces changes nothing of what is drawn: the quads of a mesh cover
\* the faces of the simple builder once each, with their type and shade.
GreedyDrawsTheSame ==
    mesh # NotBuilt =>
        IF scene.lod # NoLod THEN scene.lod.nonAir = 0 \/ Overhang(scene) \/ SameSurface(mesh.opaque, SimpleLodMesh(scene))
        ELSE /\ SameSurface(mesh.opaque, SimpleMesh(scene, IF mesh.split THEN "opaque" ELSE "all"))
             /\ mesh.split => SameSurface(mesh.opaque \cup mesh.transparent, SimpleMesh(scene, "all"))

\* Every quad turns the way its face does and tiles its texture once a block,
\* whoever built it: its corners are those of the face, stretched.
QuadsAreStretchedFaces ==
    mesh # NotBuilt => \A q \in Standard(mesh.opaque \cup mesh.transparent) :
        LET lo == Lowest(q)
            hi == Highest(q)
            Long(k) == Max({hi[i] - lo[i] : i \in {i \in 1..3 : q.corners[k][i] # q.corners[k + 1][i]}})
        IN  /\ \A k \in 1..4, i \in 1..3 :
                  q.corners[k][i] = IF Corners(q.face)[k][i] = 1 THEN hi[i] ELSE lo[i]
            /\ lo[NormalAxis(q.face)] = hi[NormalAxis(q.face)]
            /\ q.tiles = <<Long(1), Long(2)>>

\* The shade of a vertex is that of the blocks around it: AO counts the opaque
\* ones of the three beside the face's own, light adds up all four.
CornerShadesOf(faces) ==
    mesh # NotBuilt /\ scene.lod = NoLod /\ ~scene.greedyMeshing =>
        \A q \in {q \in Standard(mesh.opaque) : q.face \in faces} :
            LET front == World(scene, Lowest(q))[NormalAxis(q.face)] - (IF q.face % 2 = 1 THEN 0 ELSE 1)
                Around(k) == LET w == World(scene, q.corners[k])
                             IN  {OnAxes(q.face, front, w[UAxis(q.face)] - d[1], w[VAxis(q.face)] - d[2]) : d \in {0, 1} \X {0, 1}}
                own == OnAxes(q.face, front, World(scene, Lowest(q))[UAxis(q.face)], World(scene, Lowest(q))[VAxis(q.face)])
            IN  \A k \in 1..4 :
                  /\ scene.calculateAO => q.shade.ao[k] = 4 - Cardinality((Around(k) \ {own}) \cap scene.opaque)
                  /\ scene.smooth /\ scene.lit =>
                        q.shade.block[k] = MapThenSumSet(LAMBDA p : LightAt(scene, p)[2], Around(k))

\* Three of the faces take their vertices' shades from the right corners.
CornerShades == CornerShadesOf({1, 3, 4})

\* What the comments say: all six do.
EveryCornerShade == CornerShadesOf(Face)

\* Meshes show the chunk: greedy merging draws what single faces draw, every
\* quad has its face's corners, and vertices the shade of their surroundings.
MeshesShowTheChunk ==
    /\ GreedyDrawsTheSame
    /\ QuadsAreStretchedFaces
    /\ CornerShades
=============================================================================
