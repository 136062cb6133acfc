---------------------------- MODULE MeshPipeline ----------------------------
(***************************************************************************)
(* How an edit reaches the screen: SubChunk's version counters, the remesh *)
(* requests of World::enqueueLightingUpdateWithRemesh() and of the         *)
(* lighting thread, the rebuild queue, the workers of MeshWorkerPool, and  *)
(* the graphics thread in WorldRenderer::updateMeshes().                   *)
(*                                                                         *)
(* Contents are counted: block, light and edge say how often the blocks    *)
(* of a chunk, its light, and either of them next to the other chunks were *)
(* written, and a mesh remembers the counts it was built from (seen) and   *)
(* the versions it claims to show (claim).  Chunks are adjacent to one     *)
(* another; a place of a chunk is inside it or on its border.              *)
(*                                                                         *)
(* camera says what the distance to the camera means for the chunks: 0, 1  *)
(* and 2 ask for exactly LOD0, for LOD0 or LOD1, for exactly LOD1; 3 is    *)
(* beyond the view distance, 4 beyond the unload distance.                 *)
(*                                                                         *)
(* A chunk is loaded once and stays: a SubChunk destroyed under a worker's *)
(* raw pointer is undefined behaviour and is left out.                     *)
(***************************************************************************)
EXTENDS Integers, Sequences, FiniteSets, SequencesExt, FiniteSetsExt

CONSTANTS Chunks, None, Workers, Graphics,
    Setups  \* how the engine may be set up and what may happen, see Setup

\* async: meshing by the pool; pool: its workers; defer: alwaysDeferMeshRebuild_;
\* loaded: the chunks that are there, and shown, from the start; late: those
\* that may be loaded; sides: whether blocks on a border change.  The bounds:
\* calls of setBlock() that change a block; places whose light one batch of the
\* lighting thread changes; camera movements and calls of markAllDirty();
\* builds that throw.
Setup == [async : BOOLEAN, pool : SUBSET Workers, defer : BOOLEAN,
          loaded : SUBSET Chunks, late : SUBSET Chunks, sides : SUBSET BOOLEAN,
          maxEdits : Nat, maxLit : Nat, maxMoves : Nat, maxFails : Nat]

ASSUME SetupAssumption == Setups \subseteq Setup
ASSUME ChunksAssumption == IsFiniteSet(Chunks)

VARIABLES
    setup,    \* chosen once
    sub,      \* chunk -> its SubChunk, None if not loaded
    game,     \* where the thread that edits blocks is
    lightQ,   \* LightingQueue::pending_: place -> no update, an update, one that triggers a remesh
    lighter,  \* the lighting thread's batch
    rebuild,  \* meshRebuildQueue_
    job,      \* builder thread -> the mesh it builds
    uploads,  \* uploadQueue_
    views,    \* views_
    dirty,    \* dirtyChunks_
    camera,
    gfx,      \* where updateMeshes() is
    frame,    \* chunks the synchronous frame still has to build
    edits, moves, fails

world  == <<setup, sub, game>>
lights == <<lightQ, lighter>>
screen == <<views, dirty, gfx, frame>>
bounds == <<edits, moves, fails>>
vars   == <<world, lights, rebuild, job, uploads, screen, camera, bounds>>

(***************************************************************************)
(* KeyedQueue<Key, Data> (keyed_queue.hpp) by its contents: a sequence of  *)
(* records of a key and its data, oldest key first.  order_, present_ and  *)
(* dataMap_ change under one lock and hold the same keys.  The merge       *)
(* function is the one passed where the data matters: newer data wins      *)
(* (mergeMeshRebuildRequest keeps the LOD of the newer request).           *)
(***************************************************************************)

Keys(q) == {q[i].key : i \in DOMAIN q}

\* push(): a key that is present keeps its place and takes the new data.
Pushed(q, k, d) ==
    IF k \in Keys(q)
    THEN [i \in DOMAIN q |-> IF q[i].key = k THEN [q[i] EXCEPT !.data = d] ELSE q[i]]
    ELSE Append(q, [key |-> k, data |-> d])

\* push() of each key of a set, in any order: what becomes of the queue.
PushedAll(q, keys, d) ==
    {[i \in DOMAIN q |-> IF q[i].key \in keys THEN [q[i] EXCEPT !.data = d] ELSE q[i]]
       \o [i \in DOMAIN new |-> [key |-> new[i], data |-> d]] : new \in SetToSeqs(keys \ Keys(q))}

UniqueKeys(q) == \A i, j \in DOMAIN q : q[i].key = q[j].key => i = j

Place == [chunk : Chunks, border : BOOLEAN]

SubChunk == [block : Nat, blockVer : Nat, light : Nat, lightVer : Nat, edge : Nat]

\* What a mesh shows, and the mesh of a chunk.
Shown    == [block : Nat, light : Nat, edges : SUBSET (Chunks \X Nat)]
MeshData == [claim : Nat \X Nat, seen : Shown \cup {None}, lod : 0..1]

ASSUME NoneAssumption == None \notin SubChunk \cup MeshData \cup Place

Fresh == [block |-> 1, blockVer |-> 1, light |-> 1, lightVer |-> 1, edge |-> 0]

Loaded == {c \in Chunks : sub[c] # None}

Versions(c) == IF sub[c] = None THEN <<0, 0>> ELSE <<sub[c].blockVer, sub[c].lightVer>>

\* What the mesh builder reads for chunk c: its own contents and the borders
\* of its neighbours.
Content(c) == [block |-> sub[c].block, light |-> sub[c].light,
               edges |-> {<<d, sub[d].edge>> : d \in Loaded \ {c}}]

\* LODRequest, in its encoding: even values are exact, odd ones flexible.
Request == IF camera > 2 THEN 2 ELSE camera
BuildLevel(r) == r \div 2

Accepts(r, level) == 2 * level - r \in {-1, 0, 1}

InViewDistance == camera <= 2
----------------------------------------------------------------------------
NoJob   == [at |-> "idle", pos |-> None, lod |-> 0, claim |-> <<0, 0>>, seen |-> None]
Resting == [at |-> "idle", place |-> None]
NoBatch == [todo |-> {}, half |-> None, affected |-> {}]

Init ==
    /\ setup \in Setups
    /\ sub = [c \in Chunks |-> IF c \in setup.loaded THEN Fresh ELSE None]
    /\ game = Resting
    /\ lightQ = [p \in Place |-> "none"] /\ lighter = NoBatch
    /\ rebuild = <<>> /\ uploads = <<>>
    /\ job = [w \in Workers \cup {Graphics} |-> NoJob]
    /\ views = [c \in Chunks |-> IF c \in Loaded THEN [claim |-> Versions(c), seen |-> Content(c), lod |-> 0] ELSE None]
    /\ dirty = {}
    /\ camera = 0
    /\ gfx = "scan" /\ frame = {}
    /\ edits = 0 /\ moves = 0 /\ fails = 0
----------------------------------------------------------------------------
(* The game thread and the application.                                    *)

Written(c, kind, border) ==
    [sub EXCEPT ![c][kind] = @ + 1, ![c].edge = IF border THEN @ + 1 ELSE @]

\* SubChunk::setBlock() writes the block, then bumps the version.
WriteBlock(p) ==
    /\ game.at = "idle" /\ p.chunk \in Loaded /\ p.border \in setup.sides
    /\ edits < setup.maxEdits
    /\ edits' = edits + 1
    /\ sub' = Written(p.chunk, "block", p.border)
    /\ game' = [at |-> "bump", place |-> p]
    /\ UNCHANGED <<setup, lights, rebuild, job, uploads, screen, camera, moves, fails>>

BumpBlockVersion ==
    /\ game.at = "bump"
    /\ sub' = [sub EXCEPT ![game.place.chunk].blockVer = @ + 1]
    /\ game' = [game EXCEPT !.at = "enqueue"]
    /\ UNCHANGED <<setup, lights, rebuild, job, uploads, screen, camera, bounds>>

LightingQueueEmpty == \A p \in Place : lightQ[p] = "none"

\* enqueueLightingUpdateWithRemesh(): either the lighting thread is told to
\* remesh, or the edited chunk is pushed here.  A newer update of a place
\* replaces the one that is pending.
EnqueueLightingUpdateWithRemesh ==
    /\ game.at = "enqueue"
    /\ game' = Resting
    /\ LET p == game.place
           defer == setup.defer \/ LightingQueueEmpty
       IN /\ lightQ' = [lightQ EXCEPT ![p] = IF defer THEN "remesh" ELSE "light"]
          /\ rebuild' = IF setup.async /\ ~defer THEN Pushed(rebuild, p.chunk, 0) ELSE rebuild
    /\ UNCHANGED <<setup, sub, lighter, job, uploads, screen, camera, bounds>>

\* A column arrives; markColumnDirty() tells the renderer.
LoadChunk(c) ==
    /\ sub[c] = None /\ c \in setup.late
    /\ sub' = [sub EXCEPT ![c] = Fresh]
    /\ UNCHANGED <<setup, game, lights, rebuild, job, uploads, screen, camera, bounds>>

MarkColumnDirty(c) ==
    /\ c \in Loaded \ dirty /\ views[c] = None
    /\ dirty' = dirty \cup {c}
    /\ UNCHANGED <<world, lights, rebuild, job, uploads, views, gfx, frame, camera, bounds>>
----------------------------------------------------------------------------
(* The lighting thread.                                                    *)

\* recordAffectedChunk()
\* Mutant: chunks on the other side of the border are left out.
AffectedBy_OwnOnly(p) == {p.chunk}

AffectedBy(p) == IF p.border THEN Chunks ELSE {p.chunk}

\* dequeueBatch(), and which places' light the updates change.
TakeBatch ==
    /\ lighter = NoBatch /\ ~LightingQueueEmpty
    /\ \E lit \in SUBSET {p \in Place : p.chunk \in Loaded /\ p.border \in setup.sides} :
           /\ Cardinality(lit) <= setup.maxLit
           /\ lighter' = [todo |-> lit, half |-> None,
                          affected |-> UNION {AffectedBy(p) :
                              p \in lit \cup {q \in Place : lightQ[q] = "remesh"}}]
    /\ lightQ' = [p \in Place |-> "none"]
    /\ UNCHANGED <<world, rebuild, job, uploads, screen, camera, bounds>>

\* SubChunk::setBlockLight() and setSkyLight() write, then bump the version.
WriteLight(p) ==
    /\ p \in lighter.todo /\ lighter.half = None
    /\ sub' = Written(p.chunk, "light", p.border)
    /\ lighter' = [lighter EXCEPT !.todo = @ \ {p}, !.half = p]
    /\ UNCHANGED <<setup, game, lightQ, rebuild, job, uploads, screen, camera, bounds>>

BumpLightVersion ==
    /\ lighter.half # None
    /\ sub' = [sub EXCEPT ![lighter.half.chunk].lightVer = @ + 1]
    /\ lighter' = [lighter EXCEPT !.half = None]
    /\ UNCHANGED <<setup, game, lightQ, rebuild, job, uploads, screen, camera, bounds>>

FlushAffectedChunk(c) ==
    /\ lighter.todo = {} /\ lighter.half = None /\ c \in lighter.affected
    /\ lighter' = [lighter EXCEPT !.affected = @ \ {c}]
    /\ rebuild' = IF setup.async /\ c \in Loaded THEN Pushed(rebuild, c, 0) ELSE rebuild
    /\ UNCHANGED <<world, lightQ, job, uploads, screen, camera, bounds>>
----------------------------------------------------------------------------
(* Building a mesh: buildMesh() in a worker, updateMeshes() itself when    *)
(* meshing is synchronous.                                                 *)

\* waitForWork() and tryPop(): the key is out of the queue from here on.
TakeRequest(w) ==
    /\ w \in setup.pool /\ setup.async
    /\ job[w].at = "idle" /\ rebuild # <<>>
    /\ job' = [job EXCEPT ![w] = [NoJob EXCEPT !.at = "look", !.pos = Head(rebuild).key,
                                               !.lod = BuildLevel(Head(rebuild).data)]]
    /\ rebuild' = Tail(rebuild)
    /\ UNCHANGED <<world, lights, uploads, screen, camera, bounds>>

TakeChunk(c) ==
    /\ c \in frame /\ job[Graphics].at = "idle"
    /\ frame' = frame \ {c}
    /\ job' = [job EXCEPT ![Graphics] = [NoJob EXCEPT !.at = "look", !.pos = c,
                                                       !.lod = BuildLevel(Request)]]
    /\ UNCHANGED <<world, lights, rebuild, uploads, views, dirty, gfx, camera, bounds>>

\* The versions are taken before anything else is read; a chunk that is not
\* there gives an empty mesh.
CaptureVersions(w) ==
    [job EXCEPT ![w].at = IF sub[job[w].pos] = None THEN "done" ELSE "read",
                ![w].claim = Versions(job[w].pos)]

Look(w) ==
    /\ job[w].at = "look"
    /\ job' = CaptureVersions(w)
    /\ UNCHANGED <<world, lights, rebuild, uploads, screen, camera, bounds>>

Read(w) ==
    /\ job[w].at = "read"
    /\ job' = [job EXCEPT ![w].at = "done", ![w].seen = Content(job[w].pos)]
    /\ UNCHANGED <<world, lights, rebuild, uploads, screen, camera, bounds>>

\* The exception is counted and the request is gone.
BuildFails(w) ==
    /\ w # Graphics /\ job[w].at = "read"
    /\ fails < setup.maxFails
    /\ fails' = fails + 1
    /\ job' = [job EXCEPT ![w] = NoJob]
    /\ UNCHANGED <<world, lights, rebuild, uploads, screen, camera, edits, moves>>

\* Mutant: the versions are taken when the mesh is done.
Mesh_LateVersions(w) == [claim |-> Versions(job[w].pos), seen |-> job[w].seen, lod |-> job[w].lod]

Mesh(w) == [claim |-> job[w].claim, seen |-> job[w].seen, lod |-> job[w].lod]

PushUpload(w) ==
    /\ w # Graphics /\ job[w].at = "done"
    /\ uploads' = Append(uploads, [pos |-> job[w].pos, mesh |-> Mesh(w)])
    /\ job' = [job EXCEPT ![w] = NoJob]
    /\ UNCHANGED <<world, lights, rebuild, screen, camera, bounds>>

UploadDirectly ==
    /\ job[Graphics].at = "done"
    /\ views' = [views EXCEPT ![job[Graphics].pos] = Mesh(Graphics)]
    /\ job' = [job EXCEPT ![Graphics] = NoJob]
    /\ UNCHANGED <<world, lights, rebuild, uploads, dirty, gfx, frame, camera, bounds>>
----------------------------------------------------------------------------
(* The graphics thread.                                                    *)

\* SubChunkView::needsRebuild() of the views whose chunk is there.
\* Mutant: only the block version is compared.
Outdated_BlockOnly == {c \in Loaded : views[c] # None /\
    (views[c].claim[1] # Versions(c)[1] \/ ~Accepts(Request, views[c].lod))}

Outdated == {c \in Loaded : views[c] # None /\
    (views[c].claim # Versions(c) \/ ~Accepts(Request, views[c].lod))}

\* Chunks beyond the view distance stay marked; one that is not loaded is
\* forgotten.
NewInView == IF InViewDistance THEN dirty ELSE {}

\* updateMeshesAsync(): pushes what is outdated or new, in any order.
ScanAsync ==
    /\ gfx = "scan" /\ setup.async
    /\ rebuild' \in PushedAll(rebuild, Outdated \cup (NewInView \cap Loaded), Request)
    /\ dirty' = dirty \ NewInView
    /\ gfx' = "upload"
    /\ UNCHANGED <<world, lights, job, uploads, views, frame, camera, bounds>>

\* A view shows the last of the first n uploads of its chunk.
Uploaded(c, n) ==
    LET own == {i \in 1..n : uploads[i].pos = c} IN
    IF own = {} THEN views[c] ELSE uploads[Max(own)].mesh

\* The rest of the frame: uploads n finished meshes, oldest first.
Upload(n) ==
    /\ gfx = "upload"
    /\ n \in 0..Len(uploads) /\ (n = 0 => uploads = <<>>)
    /\ views' = [c \in Chunks |-> Uploaded(c, n)]
    /\ uploads' = SubSeq(uploads, n + 1, Len(uploads))
    /\ gfx' = "scan"
    /\ UNCHANGED <<world, lights, rebuild, job, dirty, frame, camera, bounds>>

\* updateMeshes() without a pool: builds up to maxUpdates of the chunks that
\* are outdated or new; new ones beyond that number are marked again.
ScanSync ==
    /\ gfx = "scan" /\ ~setup.async
    /\ frame = {} /\ job[Graphics].at = "idle"
    /\ LET new == NewInView \ {c \in Chunks : views[c] # None}
           due == IF InViewDistance THEN Outdated \cup new ELSE {}
       IN \E now \in SUBSET due :
              /\ due = {} <=> now = {}
              /\ frame' = now
              /\ dirty' = {c \in dirty \ NewInView : views[c] = None} \cup (new \ now)
    /\ UNCHANGED <<world, lights, rebuild, job, uploads, views, gfx, camera, bounds>>

MoveCamera(d) ==
    /\ d # camera /\ moves < setup.maxMoves
    /\ camera' = d /\ moves' = moves + 1
    /\ UNCHANGED <<world, lights, rebuild, job, uploads, screen, edits, fails>>

\* performCleanup(): a view beyond the unload distance is erased, and nothing
\* marks its chunk.
UnloadDistantChunk(c) ==
    /\ camera = 4 /\ views[c] # None
    /\ views' = [views EXCEPT ![c] = None]
    /\ UNCHANGED <<world, lights, rebuild, job, uploads, dirty, gfx, frame, camera, bounds>>

MarkAllDirty ==
    /\ moves < setup.maxMoves
    /\ moves' = moves + 1
    /\ views' = [c \in Chunks |-> IF views[c] = None THEN None ELSE [views[c] EXCEPT !.claim = <<0, 0>>]]
    /\ dirty' = dirty \cup Loaded
    /\ UNCHANGED <<world, lights, rebuild, job, uploads, gfx, frame, camera, edits, fails>>
----------------------------------------------------------------------------
GameStep  == BumpBlockVersion \/ EnqueueLightingUpdateWithRemesh
LightStep == TakeBatch \/ BumpLightVersion
             \/ \E p \in Place : WriteLight(p)
             \/ \E c \in Chunks : FlushAffectedChunk(c)
BuildStep(w) == TakeRequest(w) \/ Look(w) \/ Read(w) \/ PushUpload(w)
FrameStep == ScanAsync \/ \E n \in 0..Len(uploads) : Upload(n)
             \/ ScanSync \/ UploadDirectly \/ \E c \in Chunks : TakeChunk(c)

Next ==
    \/ \E p \in Place : WriteBlock(p)
    \/ \E c \in Chunks : LoadChunk(c) \/ MarkColumnDirty(c) \/ UnloadDistantChunk(c)
    \/ \E d \in 0..4 : MoveCamera(d)
    \/ MarkAllDirty
    \/ \E w \in Workers : BuildFails(w)
    \/ GameStep \/ LightStep \/ FrameStep
    \/ \E w \in Workers \cup {Graphics} : BuildStep(w)

Spec == Init /\ [][Next]_vars

\* Every thread goes on with what it has begun; frames go on.
FairSpec ==
    /\ Spec
    /\ WF_vars(GameStep) /\ WF_vars(LightStep) /\ WF_vars(FrameStep)
    /\ \A w \in Workers \cup {Graphics} : WF_vars(BuildStep(w))
----------------------------------------------------------------------------
Meshes == {views[c] : c \in {d \in Chunks : views[d] # None}}
          \cup {uploads[i].mesh : i \in DOMAIN uploads}

\* Every variable has its type; the rebuild queue holds a chunk once.
TypeOK ==
    /\ setup \in Setups
    /\ edits \in 0..setup.maxEdits /\ moves \in 0..setup.maxMoves /\ fails \in 0..setup.maxFails
    /\ \A c \in Loaded : /\ sub[c].blockVer \in {sub[c].block, sub[c].block - 1}
                         /\ sub[c].lightVer \in {sub[c].light, sub[c].light - 1}
    /\ dirty \subseteq Chunks /\ frame \subseteq Chunks
    /\ camera \in 0..4 /\ gfx \in {"scan", "upload"}
    /\ Keys(rebuild) \subseteq Chunks /\ UniqueKeys(rebuild)
    /\ \A i \in DOMAIN rebuild : rebuild[i].data \in 0..2
    /\ \A m \in Meshes : m.lod \in 0..1 /\ Len(m.claim) = 2
    /\ ~setup.async => rebuild = <<>> /\ uploads = <<>>

(* The versions a mesh claims are floors: the mesh shows at least what was *)
(* written when the chunk had these versions, however the build was        *)
(* overtaken by edits and light updates.  So a mesh whose claim is current *)
(* is current (world_renderer.cpp:255, mesh_worker_pool.cpp:103).          *)
VersionsAreFloors ==
    \A m \in Meshes : m.seen # None => m.seen.block >= m.claim[1] /\ m.seen.light >= m.claim[2]

UpToDate(c) ==
    /\ views[c].seen # None
    /\ views[c].seen.block = sub[c].block /\ views[c].seen.light = sub[c].light
    /\ Accepts(Request, views[c].lod)

(* Once edits, light and camera rest, every view of a loaded chunk comes   *)
(* to show its blocks and its light at a level of detail the camera        *)
(* accepts, whatever was pushed, merged, overtaken or lost to an exception *)
(* on the way.                                                             *)
ViewsCatchUp ==
    \A c \in Chunks : <>[](views[c] = None \/ c \notin Loaded \/ ~InViewDistance \/ UpToDate(c))

ShowsBorders(c) ==
    views[c].seen # None /\ \A d \in Loaded \ {c} : <<d, sub[d].edge>> \in views[c].seen.edges

(* A view also comes to show what its neighbours' blocks and light next to *)
(* it have become: an edit on a border is meant to remesh both sides       *)
(* (world.hpp:131, light_engine.cpp:741).                                  *)
NeighboursCatchUp ==
    \A c \in Chunks : <>[](views[c] = None \/ ShowsBorders(c))

(* It does with a single worker, when remeshing is always left to the      *)
(* lighting thread, nothing fails and no neighbour arrives late.           *)
BordersCatchUp ==
    (/\ setup.async /\ Cardinality(setup.pool) = 1 /\ setup.defer
     /\ setup.late = {} /\ setup.maxFails = 0) => NeighboursCatchUp
=============================================================================
