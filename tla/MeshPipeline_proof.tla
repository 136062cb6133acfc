------------------------- MODULE MeshPipeline_proof -------------------------
(***************************************************************************)
(* Proofs about MeshPipeline, for any chunks, workers and setups: however  *)
(* edits, light, workers and frames overtake one another, a version counts *)
(* the writes that are whole, and no mesh claims a version it does not     *)
(* show.                                                                   *)
(***************************************************************************)
EXTENDS MeshPipeline, SequenceTheorems, FiniteSetTheorems, WellFoundedInduction, TLAPS

Threads == Workers \cup {Graphics}

\* Where the threads that write are: what they write is there.
WritersOK ==
    /\ sub \in [Chunks -> SubChunk \cup {None}]
    /\ game \in [at : {"idle", "bump", "enqueue"}, place : Place \cup {None}]
    /\ game.at # "idle" => game.place \in Place /\ sub[game.place.chunk] # None
    /\ lightQ \in [Place -> {"none", "light", "remesh"}]
    /\ lighter \in [todo : SUBSET Place, half : Place \cup {None}, affected : SUBSET Chunks]
    /\ \A p \in lighter.todo : sub[p.chunk] # None
    /\ lighter.half # None => sub[lighter.half.chunk] # None

Requests == [key : Chunks, data : 0..2]
Uploads  == [pos : Chunks, mesh : MeshData]
JobData  == [at : {"idle", "look", "read", "done"}, pos : Chunks \cup {None},
             lod : 0..1, claim : Nat \X Nat, seen : Shown \cup {None}]

\* The requests, the meshes and the bounds.
MeshesOK ==
    /\ setup \in Setups
    /\ rebuild \in Seq(Requests)
    /\ uploads \in Seq(Uploads)
    /\ views \in [Chunks -> MeshData \cup {None}]
    /\ job \in [Threads -> JobData]
    /\ dirty \in SUBSET Chunks /\ frame \in SUBSET Chunks
    /\ camera \in 0..4 /\ gfx \in {"scan", "upload"}
    /\ edits \in 0..setup.maxEdits /\ moves \in 0..setup.maxMoves /\ fails \in 0..setup.maxFails

\* A version lags by the write that is half done, and by no other.
Half(b) == IF b THEN 1 ELSE 0

VersionsCountWrites ==
    \A c \in Chunks : sub[c] # None =>
        /\ sub[c].block = sub[c].blockVer + Half(game.at = "bump" /\ game.place.chunk = c)
        /\ sub[c].light = sub[c].lightVer + Half(lighter.half # None /\ lighter.half.chunk = c)

\* A mesh shows what it claims.
IsFloor(m) == m.seen # None => m.seen.block >= m.claim[1] /\ m.seen.light >= m.claim[2]

\* Job j holds a chunk; what it claims was in s before it reads, and it claims
\* nothing that it does not show once it has read.
IsJob(j, s) ==
    /\ j.at # "idle" => j.pos \in Chunks
    /\ j.at = "read" =>
          /\ s[j.pos] # None
          /\ j.claim[1] <= s[j.pos].block /\ j.claim[2] <= s[j.pos].light
    /\ j.at = "done" => IsFloor(j)
    /\ j.at # "done" => j.seen = None

JobsAreFloors == \A w \in Threads : IsJob(job[w], sub)

MeshesAreFloors ==
    /\ \A i \in 1..Len(uploads) : IsFloor(uploads[i].mesh)
    /\ \A c \in Chunks : views[c] # None => IsFloor(views[c])

\* Without a pool nothing is pushed.
SyncIsDirect ==
    ~setup.async => /\ rebuild = <<>> /\ uploads = <<>>
                    /\ \A w \in Threads : w # Graphics => job[w].at = "idle"

Writers == WritersOK /\ VersionsCountWrites

\* The inductive invariant.
IInv ==
    /\ Writers
    /\ MeshesOK /\ UniqueKeys(rebuild)
    /\ JobsAreFloors /\ MeshesAreFloors
    /\ SyncIsDirect
-----------------------------------------------------------------------------
(* The threads that write.                                                 *)

\* The contents of s are those of r or newer, one write of s under way.
Newer(r, s) == s \in SubChunk /\ s.block >= r.block /\ s.light >= r.light

\* A write counts; no version does.
LEMMA WrittenIs ==
    ASSUME NEW c \in Chunks, sub \in [Chunks -> SubChunk \cup {None}], sub[c] # None,
           NEW kind \in {"block", "light"}, NEW b \in BOOLEAN,
           NEW f, f = Written(c, kind, b)
    PROVE  /\ f \in [Chunks -> SubChunk \cup {None}] /\ f[c] \in SubChunk
           /\ f[c].blockVer = sub[c].blockVer /\ f[c].lightVer = sub[c].lightVer
           /\ kind = "block" => f[c].block = sub[c].block + 1 /\ f[c].light = sub[c].light
           /\ kind = "light" => f[c].light = sub[c].light + 1 /\ f[c].block = sub[c].block
           /\ \A d \in Chunks : d # c => f[d] = sub[d]
<1>1. PICK r \in SubChunk : r = sub[c]
  OBVIOUS
<1>2. r = [block |-> r.block, blockVer |-> r.blockVer, light |-> r.light, lightVer |-> r.lightVer, edge |-> r.edge]
      /\ r.block \in Nat /\ r.blockVer \in Nat /\ r.light \in Nat /\ r.lightVer \in Nat /\ r.edge \in Nat
  BY DEF SubChunk
<1>3. PICK e : e = IF b THEN r.edge + 1 ELSE r.edge
  OBVIOUS
<1>4. e \in Nat
  BY <1>2, <1>3
<1>5. PICK s : s = [[r EXCEPT ![kind] = @ + 1] EXCEPT !.edge = e]
  OBVIOUS
<1>6. f = [sub EXCEPT ![c] = s]
  <2>1. [r EXCEPT ![kind] = @ + 1].edge = r.edge
    <3>1. CASE kind = "block"
      BY <1>2, <3>1
    <3>2. CASE kind = "light"
      BY <1>2, <3>2
    <3> QED BY <3>1, <3>2
  <2> QED BY <1>1, <1>3, <1>5, <2>1 DEF Written
<1>7. CASE kind = "block"
  <2>1. s = [block |-> r.block + 1, blockVer |-> r.blockVer, light |-> r.light, lightVer |-> r.lightVer, edge |-> e]
    BY <1>2, <1>5, <1>7
  <2>2. s \in SubChunk
    BY <1>2, <1>4, <2>1 DEF SubChunk
  <2> QED BY <1>1, <1>6, <1>7, <2>1, <2>2
<1>8. CASE kind = "light"
  <2>1. s = [block |-> r.block, blockVer |-> r.blockVer, light |-> r.light + 1, lightVer |-> r.lightVer, edge |-> e]
    BY <1>2, <1>5, <1>8
  <2>2. s \in SubChunk
    BY <1>2, <1>4, <2>1 DEF SubChunk
  <2> QED BY <1>1, <1>6, <1>8, <2>1, <2>2
<1> QED BY <1>7, <1>8

\* t holds the chunks of s, with what was written before or more.
Grows(s, t) ==
    \A c \in Chunks : s[c] # None =>
        /\ t[c] # None
        /\ t[c].block \in Nat /\ t[c].light \in Nat
        /\ t[c].block >= s[c].block /\ t[c].light >= s[c].light

\* A loaded chunk has its numbers.
LEMMA SubIs ==
    ASSUME WritersOK
    PROVE  \A c \in Chunks : sub[c] # None =>
              /\ sub[c] \in SubChunk
              /\ sub[c].block \in Nat /\ sub[c].blockVer \in Nat
              /\ sub[c].light \in Nat /\ sub[c].lightVer \in Nat /\ sub[c].edge \in Nat
<1>1. \A c \in Chunks : sub[c] # None => sub[c] \in SubChunk
  BY DEF WritersOK
<1>2. \A r \in SubChunk : r.block \in Nat /\ r.blockVer \in Nat /\ r.light \in Nat /\ r.lightVer \in Nat /\ r.edge \in Nat
  BY DEF SubChunk
<1> QED BY <1>1, <1>2

\* setBlock() writes: the version lags by one.
LEMMA WriteBlockWrites ==
    ASSUME Writers, NEW p \in Place, WriteBlock(p)
    PROVE  Writers' /\ Grows(sub, sub')
<1>1. PICK c \in Chunks : c = p.chunk
  BY DEF Place
<1>2. /\ game.at = "idle" /\ sub[c] # None /\ p.border \in BOOLEAN
      /\ sub' = Written(c, "block", p.border)
      /\ game' = [at |-> "bump", place |-> p]
      /\ UNCHANGED <<lightQ, lighter>>
  BY <1>1 DEF WriteBlock, Place, Loaded, lights
<1>3. WritersOK /\ VersionsCountWrites
  BY DEF Writers
<1>4. PICK f : f = sub'
  OBVIOUS
<1>5. sub \in [Chunks -> SubChunk \cup {None}]
  BY <1>3 DEF WritersOK
<1>6. /\ f \in [Chunks -> SubChunk \cup {None}] /\ f[c] \in SubChunk
      /\ f[c].blockVer = sub[c].blockVer /\ f[c].lightVer = sub[c].lightVer
      /\ f[c].block = sub[c].block + 1 /\ f[c].light = sub[c].light
      /\ \A d \in Chunks : d # c => f[d] = sub[d]
  BY <1>2, <1>4, <1>5, WrittenIs
<1>7. f[c] # None
  BY <1>6, NoneAssumption
<1>8. \A d \in Chunks : sub[d] # None => f[d] # None
  BY <1>6, <1>7
<1>9. WritersOK'
  <2>1. game' \in [at : {"idle", "bump", "enqueue"}, place : Place \cup {None}]
    BY <1>2
  <2>2. game'.place = p /\ f[game'.place.chunk] # None
    BY <1>1, <1>2, <1>7
  <2>3. \A q \in Place : q.chunk \in Chunks
    BY DEF Place
  <2>4. /\ lighter \in [todo : SUBSET Place, half : Place \cup {None}, affected : SUBSET Chunks]
        /\ \A q \in lighter.todo : sub[q.chunk] # None
        /\ lighter.half # None => sub[lighter.half.chunk] # None
        /\ lightQ \in [Place -> {"none", "light", "remesh"}]
    BY <1>3 DEF WritersOK
  <2>5. lighter.todo \in SUBSET Place /\ lighter.half \in Place \cup {None}
    BY <2>4
  <2>6. /\ \A q \in lighter.todo : f[q.chunk] # None
        /\ lighter.half # None => f[lighter.half.chunk] # None
    BY <1>8, <2>3, <2>4, <2>5
  <2> QED BY <1>2, <1>4, <1>6, <2>1, <2>2, <2>4, <2>6 DEF WritersOK
<1>10. Grows(sub, sub')
  <2>1. ASSUME NEW d \in Chunks, sub[d] # None
        PROVE  f[d] # None /\ f[d].block \in Nat /\ f[d].light \in Nat
               /\ f[d].block >= sub[d].block /\ f[d].light >= sub[d].light
    <3>1. CASE d = c
      BY <1>2, <1>3, <1>6, <1>7, <3>1, SubIs
    <3>2. CASE d # c
      BY <1>3, <1>6, <2>1, <3>2, SubIs
    <3> QED BY <3>1, <3>2
  <2>2. Grows(sub, f)
    BY <2>1 DEF Grows
  <2> QED BY <1>4, <2>2
<1>11. VersionsCountWrites'
  <2>1. ASSUME NEW d \in Chunks, f[d] # None
        PROVE  /\ f[d].block = f[d].blockVer + Half(game'.at = "bump" /\ game'.place.chunk = d)
               /\ f[d].light = f[d].lightVer + Half(lighter.half # None /\ lighter.half.chunk = d)
    <3>1. sub[d] # None
      BY <1>2, <1>6, <2>1
    <3>2. /\ sub[d].block = sub[d].blockVer + Half(game.at = "bump" /\ game.place.chunk = d)
          /\ sub[d].light = sub[d].lightVer + Half(lighter.half # None /\ lighter.half.chunk = d)
      BY <1>3, <3>1 DEF VersionsCountWrites
    <3>3. Half(game.at = "bump" /\ game.place.chunk = d) = 0
      BY <1>2 DEF Half
    <3>4. Half(game'.at = "bump" /\ game'.place.chunk = d) = IF d = c THEN 1 ELSE 0
      BY <1>1, <1>2 DEF Half
    <3>5. sub[d].blockVer \in Nat
      BY <1>3, <3>1, SubIs
    <3>6. CASE d = c
      BY <1>6, <3>2, <3>3, <3>4, <3>5, <3>6
    <3>7. CASE d # c
      BY <1>6, <3>2, <3>3, <3>4, <3>7
    <3> QED BY <3>6, <3>7
  <2> QED BY <1>2, <1>4, <2>1 DEF VersionsCountWrites
<1> QED BY <1>9, <1>10, <1>11 DEF Writers

\* Nothing is unloaded under the threads that write.
LEMMA LoadedStays ==
    ASSUME WritersOK, NEW f, \A d \in Chunks : sub[d] # None => f[d] # None
    PROVE  /\ \A q \in lighter.todo : f[q.chunk] # None
           /\ lighter.half # None => f[lighter.half.chunk] # None
           /\ game.at # "idle" => f[game.place.chunk] # None
<1>1. \A q \in Place : q.chunk \in Chunks
  BY DEF Place
<1>2. lighter.todo \in SUBSET Place /\ lighter.half \in Place \cup {None}
  BY DEF WritersOK
<1> QED BY <1>1, <1>2 DEF WritersOK

\* The version follows the write.
LEMMA BumpBlockWrites ==
    ASSUME Writers, BumpBlockVersion
    PROVE  Writers' /\ Grows(sub, sub')
<1>1. WritersOK /\ VersionsCountWrites
  BY DEF Writers
<1>2. PICK c : c = game.place.chunk
  OBVIOUS
<1>3. /\ game.at = "bump" /\ game.place \in Place /\ sub[c] # None /\ c \in Chunks
      /\ sub' = [sub EXCEPT ![c].blockVer = @ + 1]
      /\ game' = [game EXCEPT !.at = "enqueue"]
      /\ UNCHANGED <<lightQ, lighter>>
  BY <1>1, <1>2 DEF BumpBlockVersion, lights, WritersOK, Place
<1>4. PICK r \in SubChunk : r = sub[c]
  BY <1>1, <1>3, SubIs
<1>5. r = [block |-> r.block, blockVer |-> r.blockVer, light |-> r.light, lightVer |-> r.lightVer, edge |-> r.edge]
      /\ r.block \in Nat /\ r.blockVer \in Nat /\ r.light \in Nat /\ r.lightVer \in Nat /\ r.edge \in Nat
  BY DEF SubChunk
<1>6. PICK s : s = [block |-> r.block, blockVer |-> r.blockVer + 1, light |-> r.light, lightVer |-> r.lightVer, edge |-> r.edge]
  OBVIOUS
<1>7. s \in SubChunk /\ s # None
  <2>1. s \in SubChunk
    BY <1>5, <1>6 DEF SubChunk
  <2> QED BY <2>1, NoneAssumption
<1>8. PICK f : f = sub'
  OBVIOUS
<1>9. f = [sub EXCEPT ![c] = s]
  <2>1. s = [r EXCEPT !.blockVer = @ + 1]
    BY <1>5, <1>6
  <2> QED BY <1>3, <1>4, <1>8, <2>1
<1>10. sub \in [Chunks -> SubChunk \cup {None}]
  BY <1>1 DEF WritersOK
<1>11. f \in [Chunks -> SubChunk \cup {None}] /\ f[c] = s /\ \A d \in Chunks : d # c => f[d] = sub[d]
  BY <1>3, <1>7, <1>9, <1>10
<1>12. \A d \in Chunks : sub[d] # None => f[d] # None
  BY <1>7, <1>11
<1>13. WritersOK'
  <2>1. /\ \A q \in lighter.todo : f[q.chunk] # None
        /\ lighter.half # None => f[lighter.half.chunk] # None
        /\ game.at # "idle" => f[game.place.chunk] # None
    BY <1>1, <1>12, LoadedStays
  <2>2. /\ game' \in [at : {"idle", "bump", "enqueue"}, place : Place \cup {None}]
        /\ game'.place = game.place
    BY <1>1, <1>3 DEF WritersOK
  <2>3. game'.place \in Place /\ f[game'.place.chunk] # None
    BY <1>3, <2>1, <2>2
  <2> QED BY <1>1, <1>3, <1>8, <1>11, <2>1, <2>2, <2>3 DEF WritersOK
<1>14. Grows(sub, sub')
  <2>1. ASSUME NEW d \in Chunks, sub[d] # None
        PROVE  f[d] # None /\ f[d].block \in Nat /\ f[d].light \in Nat
               /\ f[d].block >= sub[d].block /\ f[d].light >= sub[d].light
    <3>1. CASE d = c
      BY <1>4, <1>5, <1>6, <1>7, <1>11, <3>1
    <3>2. CASE d # c
      BY <1>1, <1>11, <2>1, <3>2, SubIs
    <3> QED BY <3>1, <3>2
  <2>2. Grows(sub, f)
    BY <2>1 DEF Grows
  <2> QED BY <1>8, <2>2
<1>15. VersionsCountWrites'
  <2>1. ASSUME NEW d \in Chunks, f[d] # None
        PROVE  /\ f[d].block = f[d].blockVer + Half(game'.at = "bump" /\ game'.place.chunk = d)
               /\ f[d].light = f[d].lightVer + Half(lighter.half # None /\ lighter.half.chunk = d)
    <3>1. sub[d] # None
      BY <1>3, <1>11, <2>1
    <3>2. /\ sub[d].block = sub[d].blockVer + Half(game.at = "bump" /\ game.place.chunk = d)
          /\ sub[d].light = sub[d].lightVer + Half(lighter.half # None /\ lighter.half.chunk = d)
      BY <1>1, <3>1 DEF VersionsCountWrites
    <3>3. Half(game'.at = "bump" /\ game'.place.chunk = d) = 0
      <4>1. game'.at = "enqueue"
        BY <1>1, <1>3 DEF WritersOK
      <4> QED BY <4>1 DEF Half
    <3>4. Half(game.at = "bump" /\ game.place.chunk = d) = IF d = c THEN 1 ELSE 0
      BY <1>2, <1>3 DEF Half
    <3>6. CASE d = c
      BY <1>4, <1>5, <1>6, <1>11, <3>2, <3>3, <3>4, <3>6
    <3>7. CASE d # c
      BY <1>11, <3>2, <3>3, <3>4, <3>7
    <3> QED BY <3>6, <3>7
  <2> QED BY <1>3, <1>8, <2>1 DEF VersionsCountWrites
<1> QED BY <1>13, <1>14, <1>15 DEF Writers

\* The lighting thread's write: the version lags by one.
LEMMA WriteLightWrites ==
    ASSUME Writers, NEW p \in Place, WriteLight(p)
    PROVE  Writers' /\ Grows(sub, sub')
<1>1. PICK c \in Chunks : c = p.chunk
  BY DEF Place
<1>2. WritersOK /\ VersionsCountWrites
  BY DEF Writers
<1>3. /\ p \in lighter.todo /\ lighter.half = None /\ sub[c] # None /\ p.border \in BOOLEAN
      /\ sub' = Written(c, "light", p.border)
      /\ lighter' = [lighter EXCEPT !.todo = @ \ {p}, !.half = p]
      /\ UNCHANGED <<game, lightQ>>
  BY <1>1, <1>2 DEF WriteLight, Place, WritersOK
<1>4. PICK f : f = sub'
  OBVIOUS
<1>5. sub \in [Chunks -> SubChunk \cup {None}]
  BY <1>2 DEF WritersOK
<1>6. /\ f \in [Chunks -> SubChunk \cup {None}] /\ f[c] \in SubChunk
      /\ f[c].blockVer = sub[c].blockVer /\ f[c].lightVer = sub[c].lightVer
      /\ f[c].light = sub[c].light + 1 /\ f[c].block = sub[c].block
      /\ \A d \in Chunks : d # c => f[d] = sub[d]
  BY <1>3, <1>4, <1>5, WrittenIs
<1>7. f[c] # None
  BY <1>6, NoneAssumption
<1>8. \A d \in Chunks : sub[d] # None => f[d] # None
  BY <1>6, <1>7
<1>9. /\ lighter' \in [todo : SUBSET Place, half : Place \cup {None}, affected : SUBSET Chunks]
      /\ lighter'.half = p /\ lighter'.todo \subseteq lighter.todo
  BY <1>2, <1>3 DEF WritersOK
<1>10. p # None
  BY NoneAssumption
<1>11. WritersOK'
  <2>1. /\ \A q \in lighter.todo : f[q.chunk] # None
        /\ game.at # "idle" => f[game.place.chunk] # None
    BY <1>2, <1>8, LoadedStays
  <2>2. \A q \in lighter'.todo : f[q.chunk] # None
    BY <1>9, <2>1
  <2>3. f[lighter'.half.chunk] # None
    BY <1>1, <1>7, <1>9
  <2> QED BY <1>2, <1>3, <1>4, <1>6, <1>9, <2>1, <2>2, <2>3 DEF WritersOK
<1>12. Grows(sub, sub')
  <2>1. ASSUME NEW d \in Chunks, sub[d] # None
        PROVE  f[d] # None /\ f[d].block \in Nat /\ f[d].light \in Nat
               /\ f[d].block >= sub[d].block /\ f[d].light >= sub[d].light
    <3>1. CASE d = c
      BY <1>2, <1>3, <1>6, <1>7, <3>1, SubIs
    <3>2. CASE d # c
      BY <1>2, <1>6, <2>1, <3>2, SubIs
    <3> QED BY <3>1, <3>2
  <2>2. Grows(sub, f)
    BY <2>1 DEF Grows
  <2> QED BY <1>4, <2>2
<1>13. VersionsCountWrites'
  <2>1. ASSUME NEW d \in Chunks, f[d] # None
        PROVE  /\ f[d].block = f[d].blockVer + Half(game.at = "bump" /\ game.place.chunk = d)
               /\ f[d].light = f[d].lightVer + Half(lighter'.half # None /\ lighter'.half.chunk = d)
    <3>1. sub[d] # None
      BY <1>3, <1>6, <2>1
    <3>2. /\ sub[d].block = sub[d].blockVer + Half(game.at = "bump" /\ game.place.chunk = d)
          /\ sub[d].light = sub[d].lightVer + Half(lighter.half # None /\ lighter.half.chunk = d)
      BY <1>2, <3>1 DEF VersionsCountWrites
    <3>3. Half(lighter.half # None /\ lighter.half.chunk = d) = 0
      BY <1>3 DEF Half
    <3>4. Half(lighter'.half # None /\ lighter'.half.chunk = d) = IF d = c THEN 1 ELSE 0
      BY <1>1, <1>9, <1>10 DEF Half
    <3>5. sub[d].lightVer \in Nat
      BY <1>2, <3>1, SubIs
    <3>6. CASE d = c
      BY <1>6, <3>2, <3>3, <3>4, <3>5, <3>6
    <3>7. CASE d # c
      BY <1>6, <3>2, <3>3, <3>4, <3>7
    <3> QED BY <3>6, <3>7
  <2> QED BY <1>3, <1>4, <2>1 DEF VersionsCountWrites
<1> QED BY <1>11, <1>12, <1>13 DEF Writers

\* Its version follows.
LEMMA BumpLightWrites ==
    ASSUME Writers, BumpLightVersion
    PROVE  Writers' /\ Grows(sub, sub')
<1>1. WritersOK /\ VersionsCountWrites
  BY DEF Writers
<1>2. PICK c : c = lighter.half.chunk
  OBVIOUS
<1>3. /\ lighter.half # None /\ lighter.half \in Place /\ sub[c] # None /\ c \in Chunks
      /\ sub' = [sub EXCEPT ![c].lightVer = @ + 1]
      /\ lighter' = [lighter EXCEPT !.half = None]
      /\ UNCHANGED <<game, lightQ>>
  BY <1>1, <1>2 DEF BumpLightVersion, WritersOK, Place
<1>4. PICK r \in SubChunk : r = sub[c]
  BY <1>1, <1>3, SubIs
<1>5. r = [block |-> r.block, blockVer |-> r.blockVer, light |-> r.light, lightVer |-> r.lightVer, edge |-> r.edge]
      /\ r.block \in Nat /\ r.blockVer \in Nat /\ r.light \in Nat /\ r.lightVer \in Nat /\ r.edge \in Nat
  BY DEF SubChunk
<1>6. PICK s : s = [block |-> r.block, blockVer |-> r.blockVer, light |-> r.light, lightVer |-> r.lightVer + 1, edge |-> r.edge]
  OBVIOUS
<1>7. s \in SubChunk /\ s # None
  <2>1. s \in SubChunk
    BY <1>5, <1>6 DEF SubChunk
  <2> QED BY <2>1, NoneAssumption
<1>8. PICK f : f = sub'
  OBVIOUS
<1>9. f = [sub EXCEPT ![c] = s]
  <2>1. s = [r EXCEPT !.lightVer = @ + 1]
    BY <1>5, <1>6
  <2> QED BY <1>3, <1>4, <1>8, <2>1
<1>10. sub \in [Chunks -> SubChunk \cup {None}]
  BY <1>1 DEF WritersOK
<1>11. f \in [Chunks -> SubChunk \cup {None}] /\ f[c] = s /\ \A d \in Chunks : d # c => f[d] = sub[d]
  BY <1>3, <1>7, <1>9, <1>10
<1>12. \A d \in Chunks : sub[d] # None => f[d] # None
  BY <1>7, <1>11
<1>13. /\ lighter' \in [todo : SUBSET Place, half : Place \cup {None}, affected : SUBSET Chunks]
       /\ lighter'.half = None /\ lighter'.todo = lighter.todo
  BY <1>1, <1>3 DEF WritersOK
<1>14. WritersOK'
  <2>1. /\ \A q \in lighter.todo : f[q.chunk] # None
        /\ game.at # "idle" => f[game.place.chunk] # None
    BY <1>1, <1>12, LoadedStays
  <2> QED BY <1>1, <1>3, <1>8, <1>11, <1>13, <2>1 DEF WritersOK
<1>15. Grows(sub, sub')
  <2>1. ASSUME NEW d \in Chunks, sub[d] # None
        PROVE  f[d] # None /\ f[d].block \in Nat /\ f[d].light \in Nat
               /\ f[d].block >= sub[d].block /\ f[d].light >= sub[d].light
    <3>1. CASE d = c
      BY <1>4, <1>5, <1>6, <1>7, <1>11, <3>1
    <3>2. CASE d # c
      BY <1>1, <1>11, <2>1, <3>2, SubIs
    <3> QED BY <3>1, <3>2
  <2>2. Grows(sub, f)
    BY <2>1 DEF Grows
  <2> QED BY <1>8, <2>2
<1>16. VersionsCountWrites'
  <2>1. ASSUME NEW d \in Chunks, f[d] # None
        PROVE  /\ f[d].block = f[d].blockVer + Half(game.at = "bump" /\ game.place.chunk = d)
               /\ f[d].light = f[d].lightVer + Half(lighter'.half # None /\ lighter'.half.chunk = d)
    <3>1. sub[d] # None
      BY <1>3, <1>11, <2>1
    <3>2. /\ sub[d].block = sub[d].blockVer + Half(game.at = "bump" /\ game.place.chunk = d)
          /\ sub[d].light = sub[d].lightVer + Half(lighter.half # None /\ lighter.half.chunk = d)
      BY <1>1, <3>1 DEF VersionsCountWrites
    <3>3. Half(lighter'.half # None /\ lighter'.half.chunk = d) = 0
      BY <1>13 DEF Half
    <3>4. Half(lighter.half # None /\ lighter.half.chunk = d) = IF d = c THEN 1 ELSE 0
      BY <1>2, <1>3 DEF Half
    <3>6. CASE d = c
      BY <1>4, <1>5, <1>6, <1>11, <3>2, <3>3, <3>4, <3>6
    <3>7. CASE d # c
      BY <1>11, <3>2, <3>3, <3>4, <3>7
    <3> QED BY <3>6, <3>7
  <2> QED BY <1>3, <1>8, <2>1 DEF VersionsCountWrites
<1> QED BY <1>14, <1>15, <1>16 DEF Writers

\* A chunk that arrives has whole writes only.
LEMMA LoadWrites ==
    ASSUME Writers, NEW c \in Chunks, LoadChunk(c)
    PROVE  Writers' /\ Grows(sub, sub')
<1>1. WritersOK /\ VersionsCountWrites
  BY DEF Writers
<1>2. sub[c] = None /\ sub' = [sub EXCEPT ![c] = Fresh] /\ UNCHANGED <<game, lightQ, lighter>>
  BY DEF LoadChunk, lights
<1>3. PICK f : f = sub'
  OBVIOUS
<1>4. PICK r : r = Fresh
  OBVIOUS
<1>5. r \in SubChunk /\ r.block = 1 /\ r.blockVer = 1 /\ r.light = 1 /\ r.lightVer = 1
  BY <1>4 DEF Fresh, SubChunk
<1>6. f \in [Chunks -> SubChunk \cup {None}] /\ f[c] = r /\ \A d \in Chunks : d # c => f[d] = sub[d]
  BY <1>1, <1>2, <1>3, <1>4, <1>5 DEF WritersOK
<1>7. \A d \in Chunks : sub[d] # None => d # c /\ f[d] = sub[d]
  BY <1>2, <1>6
<1>8. /\ \A q \in lighter.todo : f[q.chunk] # None
      /\ lighter.half # None => f[lighter.half.chunk] # None
      /\ game.at # "idle" => f[game.place.chunk] # None
  BY <1>1, <1>7, LoadedStays
<1>9. WritersOK'
  BY <1>1, <1>2, <1>3, <1>6, <1>8 DEF WritersOK
<1>10. Grows(sub, sub')
  <2>1. Grows(sub, f)
    <3> SUFFICES ASSUME NEW d \in Chunks, sub[d] # None
                 PROVE  f[d] # None /\ f[d].block \in Nat /\ f[d].light \in Nat
                        /\ f[d].block >= sub[d].block /\ f[d].light >= sub[d].light
      BY DEF Grows
    <3> QED BY <1>1, <1>7, SubIs
  <2> QED BY <1>3, <2>1
<1>11. game.at = "bump" => game.place.chunk # c
  BY <1>1, <1>2 DEF WritersOK
<1>12. lighter.half # None => lighter.half.chunk # c
  BY <1>1, <1>2 DEF WritersOK
<1>13. VersionsCountWrites'
  <2>1. ASSUME NEW d \in Chunks, f[d] # None
        PROVE  /\ f[d].block = f[d].blockVer + Half(game.at = "bump" /\ game.place.chunk = d)
               /\ f[d].light = f[d].lightVer + Half(lighter.half # None /\ lighter.half.chunk = d)
    <3>1. CASE d = c
      <4>1. Half(game.at = "bump" /\ game.place.chunk = d) = 0
        BY <1>11, <3>1 DEF Half
      <4>2. Half(lighter.half # None /\ lighter.half.chunk = d) = 0
        BY <1>12, <3>1 DEF Half
      <4> QED BY <1>5, <1>6, <3>1, <4>1, <4>2
    <3>2. CASE d # c
      BY <1>1, <1>6, <2>1, <3>2 DEF VersionsCountWrites
    <3> QED BY <3>1, <3>2
  <2> QED BY <1>2, <1>3, <2>1 DEF VersionsCountWrites
<1> QED BY <1>9, <1>10, <1>13 DEF Writers

\* A chunk grows when nothing happens to it.
LEMMA GrowsFrame == WritersOK /\ sub' = sub => Grows(sub, sub')
<1> SUFFICES ASSUME WritersOK PROVE Grows(sub, sub)
  BY DEF Grows
<1>1. ASSUME NEW c \in Chunks, sub[c] # None
      PROVE  sub[c].block \in Nat /\ sub[c].light \in Nat
             /\ sub[c].block >= sub[c].block /\ sub[c].light >= sub[c].light
  <2>1. sub[c].block \in Nat /\ sub[c].light \in Nat
    BY <1>1, SubIs
  <2> QED BY <2>1
<1> QED BY <1>1 DEF Grows

\* The other steps of the two threads write nothing.
LEMMA OthersWrite ==
    ASSUME Writers,
           \/ EnqueueLightingUpdateWithRemesh \/ TakeBatch
           \/ (\E c \in Chunks : FlushAffectedChunk(c))
           \/ UNCHANGED <<sub, game, lightQ, lighter>>
    PROVE  Writers' /\ Grows(sub, sub')
<1>1. WritersOK /\ VersionsCountWrites
  BY DEF Writers
<1>2. CASE EnqueueLightingUpdateWithRemesh
  <2>1. game.at = "enqueue" /\ game' = Resting /\ UNCHANGED <<sub, lighter>>
    BY <1>2 DEF EnqueueLightingUpdateWithRemesh
  <2>2. lightQ' \in [Place -> {"none", "light", "remesh"}]
    <3>1. game.place \in Place /\ lightQ \in [Place -> {"none", "light", "remesh"}]
      BY <1>1, <2>1 DEF WritersOK
    <3>2. PICK v \in {"remesh", "light"} : lightQ' = [lightQ EXCEPT ![game.place] = v]
      BY <1>2 DEF EnqueueLightingUpdateWithRemesh
    <3> QED BY <3>1, <3>2
  <2>3. game'.at = "idle" /\ game' \in [at : {"idle", "bump", "enqueue"}, place : Place \cup {None}]
    BY <2>1 DEF Resting
  <2>4. WritersOK'
    BY <1>1, <2>1, <2>2, <2>3 DEF WritersOK
  <2>5. VersionsCountWrites'
    BY <1>1, <2>1, <2>3 DEF VersionsCountWrites
  <2> QED BY <1>1, <2>1, <2>4, <2>5, GrowsFrame DEF Writers
<1>3. CASE TakeBatch
  <2>1. lighter = NoBatch /\ UNCHANGED <<sub, game>> /\ lightQ' = [p \in Place |-> "none"]
    BY <1>3 DEF TakeBatch, world
  <2>2. PICK lit \in SUBSET {p \in Place : p.chunk \in Loaded /\ p.border \in setup.sides} :
           lighter' = [todo |-> lit, half |-> None,
                       affected |-> UNION {AffectedBy(p) : p \in lit \cup {q \in Place : lightQ[q] = "remesh"}}]
    BY <1>3 DEF TakeBatch
  <2>3. \A p \in Place : AffectedBy(p) \subseteq Chunks
    BY DEF AffectedBy, Place
  <2>4. UNION {AffectedBy(p) : p \in lit \cup {q \in Place : lightQ[q] = "remesh"}} \in SUBSET Chunks
    BY <2>3
  <2>5. /\ lighter' \in [todo : SUBSET Place, half : Place \cup {None}, affected : SUBSET Chunks]
        /\ lighter'.half = None /\ lighter'.todo = lit
    BY <2>2, <2>4
  <2>6. \A p \in lit : sub[p.chunk] # None
    BY DEF Loaded
  <2>7. lightQ' \in [Place -> {"none", "light", "remesh"}]
    BY <2>1
  <2>8. WritersOK'
    BY <1>1, <2>1, <2>5, <2>6, <2>7 DEF WritersOK
  <2>9. lighter.half = None
    BY <2>1 DEF NoBatch
  <2>10. VersionsCountWrites'
    BY <1>1, <2>1, <2>5, <2>9 DEF VersionsCountWrites
  <2> QED BY <1>1, <2>1, <2>8, <2>10, GrowsFrame DEF Writers
<1>4. CASE \E c \in Chunks : FlushAffectedChunk(c)
  <2>1. UNCHANGED <<sub, game, lightQ>> /\ \E c : lighter' = [lighter EXCEPT !.affected = @ \ {c}]
    BY <1>4 DEF FlushAffectedChunk, world
  <2>2. /\ lighter' \in [todo : SUBSET Place, half : Place \cup {None}, affected : SUBSET Chunks]
        /\ lighter'.half = lighter.half /\ lighter'.todo = lighter.todo
    BY <1>1, <2>1 DEF WritersOK
  <2>3. WritersOK'
    BY <1>1, <2>1, <2>2 DEF WritersOK
  <2>4. VersionsCountWrites'
    BY <1>1, <2>1, <2>2 DEF VersionsCountWrites
  <2> QED BY <1>1, <2>1, <2>3, <2>4, GrowsFrame DEF Writers
<1>5. CASE UNCHANGED <<sub, game, lightQ, lighter>>
  <2>1. WritersOK'
    BY <1>1, <1>5 DEF WritersOK
  <2>2. VersionsCountWrites'
    BY <1>1, <1>5 DEF VersionsCountWrites
  <2> QED BY <1>1, <1>5, <2>1, <2>2, GrowsFrame DEF Writers
<1> QED BY <1>2, <1>3, <1>4, <1>5

\* The steps that change neither chunks nor what the two threads are at.
Bystanding ==
    \/ \E c \in Chunks : MarkColumnDirty(c) \/ UnloadDistantChunk(c)
    \/ \E d \in 0..4 : MoveCamera(d)
    \/ MarkAllDirty
    \/ \E w \in Workers : BuildFails(w)
    \/ FrameStep
    \/ \E w \in Threads : BuildStep(w)

\* Requests, builders and frames leave the contents and their writers alone.
LEMMA BystandersWriteNothing == Bystanding => UNCHANGED <<sub, game, lightQ, lighter>>
<1>1. ASSUME NEW c \in Chunks, MarkColumnDirty(c) \/ UnloadDistantChunk(c)
      PROVE  UNCHANGED <<sub, game, lightQ, lighter>>
  BY <1>1 DEF MarkColumnDirty, UnloadDistantChunk, world, lights
<1>2. ASSUME NEW d \in 0..4, MoveCamera(d) PROVE UNCHANGED <<sub, game, lightQ, lighter>>
  BY <1>2 DEF MoveCamera, world, lights
<1>3. ASSUME MarkAllDirty PROVE UNCHANGED <<sub, game, lightQ, lighter>>
  BY <1>3 DEF MarkAllDirty, world, lights
<1>4. ASSUME NEW w \in Workers, BuildFails(w) PROVE UNCHANGED <<sub, game, lightQ, lighter>>
  BY <1>4 DEF BuildFails, world, lights
<1>5. ASSUME FrameStep PROVE UNCHANGED <<sub, game, lightQ, lighter>>
  BY <1>5 DEF FrameStep, ScanAsync, Upload, ScanSync, UploadDirectly, TakeChunk, world, lights
<1>6. ASSUME NEW w \in Threads, BuildStep(w) PROVE UNCHANGED <<sub, game, lightQ, lighter>>
  BY <1>6 DEF BuildStep, TakeRequest, Look, Read, PushUpload, world, lights
<1> QED BY <1>1, <1>2, <1>3, <1>4, <1>5, <1>6 DEF Bystanding

\* Every step keeps the counts.
LEMMA WritersKeep == Writers /\ [Next]_vars => Writers' /\ Grows(sub, sub')
<1> SUFFICES ASSUME Writers, [Next]_vars PROVE Writers' /\ Grows(sub, sub')
  OBVIOUS
<1>1. CASE UNCHANGED vars
  BY <1>1, OthersWrite DEF vars, world, lights
<1>2. CASE Next
  <2>1. \/ \E p \in Place : WriteBlock(p) \/ WriteLight(p)
        \/ \E c \in Chunks : LoadChunk(c) \/ FlushAffectedChunk(c)
        \/ BumpBlockVersion \/ EnqueueLightingUpdateWithRemesh \/ TakeBatch \/ BumpLightVersion
        \/ Bystanding
    BY <1>2 DEF Next, GameStep, LightStep, Bystanding, Threads
  <2> QED BY <2>1, WriteBlockWrites, WriteLightWrites, LoadWrites, BumpBlockWrites, BumpLightWrites,
             OthersWrite, BystandersWriteNothing
<1> QED BY <1>1, <1>2
-----------------------------------------------------------------------------
(* Requests and meshes.                                                    *)

\* push() merges, so that a chunk is queued once.
LEMMA PushedOnce ==
    ASSUME NEW q \in Seq(Requests), UniqueKeys(q), NEW k \in Chunks, NEW d \in 0..2
    PROVE  Pushed(q, k, d) \in Seq(Requests) /\ UniqueKeys(Pushed(q, k, d))
<1>1. DOMAIN q = 1..Len(q) /\ Len(q) \in Nat /\ \A i \in 1..Len(q) : q[i] \in Requests
  BY LenProperties, ElementOfSeq
<1>2. PICK p : p = Pushed(q, k, d)
  OBVIOUS
<1>3. CASE k \in Keys(q)
  <2>1. p = [i \in 1..Len(q) |-> IF q[i].key = k THEN [q[i] EXCEPT !.data = d] ELSE q[i]]
    BY <1>1, <1>2, <1>3 DEF Pushed
  <2>2. ASSUME NEW i \in 1..Len(q) PROVE p[i] \in Requests /\ p[i].key = q[i].key
    <3>1. q[i] \in Requests /\ p[i] = IF q[i].key = k THEN [q[i] EXCEPT !.data = d] ELSE q[i]
      BY <1>1, <2>1
    <3> QED BY <3>1 DEF Requests
  <2>3. p \in Seq(Requests)
    BY <1>1, <2>1, <2>2
  <2>4. DOMAIN p = 1..Len(q)
    BY <2>1
  <2>5. UniqueKeys(p)
    BY <1>1, <2>2, <2>4 DEF UniqueKeys
  <2> QED BY <1>2, <2>3, <2>5
<1>4. CASE k \notin Keys(q)
  <2>1. PICK r : r = [key |-> k, data |-> d]
    OBVIOUS
  <2>2. r \in Requests /\ r.key = k
    BY <2>1 DEF Requests
  <2>3. p = Append(q, r)
    BY <1>2, <1>4, <2>1 DEF Pushed
  <2>4. /\ p \in Seq(Requests) /\ DOMAIN p = 1..(Len(q) + 1) /\ p[Len(q) + 1] = r
        /\ \A i \in 1..Len(q) : p[i] = q[i]
    BY <2>2, <2>3, AppendProperties, LenProperties
  <2>5. \A i \in 1..Len(q) : q[i].key # k
    BY <1>1, <1>4 DEF Keys
  <2>6. UniqueKeys(p)
    <3> SUFFICES ASSUME NEW i \in DOMAIN p, NEW j \in DOMAIN p, p[i].key = p[j].key PROVE i = j
      BY DEF UniqueKeys
    <3>1. CASE i = Len(q) + 1 \/ j = Len(q) + 1
      BY <1>1, <2>2, <2>4, <2>5, <3>1
    <3>2. CASE i # Len(q) + 1 /\ j # Len(q) + 1
      <4>1. i \in 1..Len(q) /\ j \in 1..Len(q)
        BY <1>1, <2>4, <3>2
      <4> QED BY <1>1, <2>4, <4>1 DEF UniqueKeys
    <3> QED BY <3>1, <3>2
  <2> QED BY <1>2, <2>4, <2>6
<1> QED BY <1>3, <1>4

\* So do the pushes of a frame.
LEMMA PushedAllOnce ==
    ASSUME NEW q \in Seq(Requests), UniqueKeys(q), NEW keys, keys \subseteq Chunks, NEW d \in 0..2,
           NEW p \in PushedAll(q, keys, d)
    PROVE  p \in Seq(Requests) /\ UniqueKeys(p)
<1>1. DOMAIN q = 1..Len(q) /\ Len(q) \in Nat /\ \A i \in 1..Len(q) : q[i] \in Requests
  BY LenProperties, ElementOfSeq
<1>2. PICK new \in SetToSeqs(keys \ Keys(q)) :
         p = [i \in DOMAIN q |-> IF q[i].key \in keys THEN [q[i] EXCEPT !.data = d] ELSE q[i]]
             \o [i \in DOMAIN new |-> [key |-> new[i], data |-> d]]
  BY DEF PushedAll
<1>3. PICK n \in Nat : n = Cardinality(keys \ Keys(q))
  <2>1. IsFiniteSet(keys \ Keys(q))
    BY ChunksAssumption, FS_Subset
  <2> QED BY <2>1, FS_CardinalityType
<1>4. /\ new \in [1..n -> keys \ Keys(q)]
      /\ \A i, j \in 1..n : i # j => new[i] # new[j]
  BY <1>3 DEF SetToSeqs
<1>5. PICK a : a = [i \in 1..Len(q) |-> IF q[i].key \in keys THEN [q[i] EXCEPT !.data = d] ELSE q[i]]
  OBVIOUS
<1>6. PICK b : b = [i \in 1..n |-> [key |-> new[i], data |-> d]]
  OBVIOUS
<1>7. p = a \o b
  BY <1>1, <1>2, <1>4, <1>5, <1>6
<1>8. ASSUME NEW i \in 1..Len(q) PROVE a[i] \in Requests /\ a[i].key = q[i].key /\ a[i].key \in Keys(q)
  <2>1. q[i] \in Requests /\ a[i] = IF q[i].key \in keys THEN [q[i] EXCEPT !.data = d] ELSE q[i]
    BY <1>1, <1>5
  <2>2. q[i].key \in Keys(q)
    BY <1>1 DEF Keys
  <2> QED BY <2>1, <2>2 DEF Requests
<1>9. ASSUME NEW i \in 1..n PROVE b[i] \in Requests /\ b[i].key = new[i] /\ b[i].key \notin Keys(q)
  <2>1. new[i] \in Chunks /\ new[i] \notin Keys(q) /\ b[i] = [key |-> new[i], data |-> d]
    BY <1>4, <1>6
  <2> QED BY <2>1 DEF Requests
<1>10. a \in Seq(Requests) /\ Len(a) = Len(q)
  BY <1>1, <1>5, <1>8
<1>11. b \in Seq(Requests) /\ Len(b) = n
  BY <1>6, <1>9
<1>12. /\ p \in Seq(Requests) /\ Len(p) = Len(q) + n
       /\ \A i \in 1..Len(p) : p[i] = IF i <= Len(q) THEN a[i] ELSE b[i - Len(q)]
  <2>1. a \o b \in Seq(Requests) /\ Len(a \o b) = Len(a) + Len(b)
    BY <1>10, <1>11, ConcatProperties
  <2>2. \A i \in 1..(Len(a) + Len(b)) : (a \o b)[i] = IF i <= Len(a) THEN a[i] ELSE b[i - Len(a)]
    BY <1>10, <1>11, ConcatProperties
  <2> QED BY <1>7, <1>10, <1>11, <2>1, <2>2
<1>13. DOMAIN p = 1..(Len(q) + n)
  BY <1>12, LenProperties
<1>14. UniqueKeys(p)
  <2> SUFFICES ASSUME NEW i \in 1..(Len(q) + n), NEW j \in 1..(Len(q) + n), p[i].key = p[j].key PROVE i = j
    BY <1>13 DEF UniqueKeys
  <2>1. ASSUME NEW m \in 1..(Len(q) + n), m <= Len(q)
        PROVE  m \in 1..Len(q) /\ p[m].key = q[m].key /\ p[m].key \in Keys(q)
    BY <1>1, <1>8, <1>12, <2>1
  <2>2. ASSUME NEW m \in 1..(Len(q) + n), ~(m <= Len(q))
        PROVE  m - Len(q) \in 1..n /\ p[m].key = new[m - Len(q)] /\ p[m].key \notin Keys(q)
    <3>1. m - Len(q) \in 1..n
      BY <1>1, <1>3, <2>2
    <3> QED BY <1>9, <1>12, <2>2, <3>1
  <2>3. CASE i <= Len(q) /\ j <= Len(q)
    BY <1>1, <2>1, <2>3 DEF UniqueKeys
  <2>4. CASE ~(i <= Len(q)) /\ ~(j <= Len(q))
    <3>1. i - Len(q) = j - Len(q)
      BY <1>4, <2>2, <2>4
    <3> QED BY <1>1, <3>1
  <2> QED BY <2>1, <2>2, <2>3, <2>4
<1> QED BY <1>12, <1>14

\* Taking the first request leaves the others.
LEMMA TailOnce ==
    ASSUME NEW q \in Seq(Requests), UniqueKeys(q), q # <<>>
    PROVE  Tail(q) \in Seq(Requests) /\ UniqueKeys(Tail(q)) /\ Head(q) \in Requests
<1>1. /\ Tail(q) \in Seq(Requests) /\ Head(q) \in Requests /\ Len(q) \in Nat
      /\ DOMAIN q = 1..Len(q) /\ DOMAIN Tail(q) = 1..(Len(q) - 1)
      /\ \A i \in 1..(Len(q) - 1) : Tail(q)[i] = q[i + 1]
  BY HeadTailProperties, LenProperties
<1>2. UniqueKeys(Tail(q))
  <2> SUFFICES ASSUME NEW i \in 1..(Len(q) - 1), NEW j \in 1..(Len(q) - 1), q[i + 1].key = q[j + 1].key
               PROVE  i = j
    BY <1>1 DEF UniqueKeys
  <2>1. i + 1 \in 1..Len(q) /\ j + 1 \in 1..Len(q)
    BY <1>1
  <2>2. i + 1 = j + 1
    BY <1>1, <2>1 DEF UniqueKeys
  <2> QED BY <2>2
<1> QED BY <1>1, <1>2

\* A request is for one of the two levels of detail.
LEMMA RequestIs == camera \in 0..4 => Request \in 0..2 /\ \A r \in 0..2 : BuildLevel(r) \in 0..1
BY DEF Request, BuildLevel

\* What a builder reads first is older than what it reads then.
LEMMA VersionsIs ==
    ASSUME Writers, NEW c \in Chunks
    PROVE  /\ Versions(c) \in Nat \X Nat
           /\ sub[c] # None => Versions(c)[1] <= sub[c].block /\ Versions(c)[2] <= sub[c].light
<1>1. WritersOK /\ VersionsCountWrites
  BY DEF Writers
<1>2. CASE sub[c] = None
  BY <1>2 DEF Versions
<1>3. CASE sub[c] # None
  <2>1. Versions(c) = <<sub[c].blockVer, sub[c].lightVer>>
    BY <1>3 DEF Versions
  <2>2. sub[c].blockVer \in Nat /\ sub[c].lightVer \in Nat
    BY <1>1, <1>3, SubIs
  <2>3. \E h \in {0, 1} : sub[c].block = sub[c].blockVer + h
    BY <1>1, <1>3 DEF VersionsCountWrites, Half
  <2>4. \E h \in {0, 1} : sub[c].light = sub[c].lightVer + h
    BY <1>1, <1>3 DEF VersionsCountWrites, Half
  <2> QED BY <2>1, <2>2, <2>3, <2>4
<1> QED BY <1>2, <1>3

\* A mesh built now shows the contents as they are.
LEMMA ContentIs ==
    ASSUME WritersOK, NEW c \in Chunks, sub[c] # None
    PROVE  Content(c) \in Shown /\ Content(c).block = sub[c].block /\ Content(c).light = sub[c].light
<1>1. \A d \in Loaded : d \in Chunks /\ sub[d].edge \in Nat
  BY SubIs DEF Loaded
<1>2. {<<d, sub[d].edge>> : d \in Loaded \ {c}} \in SUBSET (Chunks \X Nat)
  BY <1>1
<1>3. sub[c].block \in Nat /\ sub[c].light \in Nat
  BY SubIs
<1> QED BY <1>2, <1>3 DEF Content, Shown

\* A mesh that is made of a job.
LEMMA MeshIs ==
    ASSUME NEW w \in Threads, job[w] \in JobData, IsJob(job[w], sub), job[w].at = "done"
    PROVE  Mesh(w) \in MeshData /\ IsFloor(Mesh(w)) /\ job[w].pos \in Chunks
<1>1. job[w].claim \in Nat \X Nat /\ job[w].seen \in Shown \cup {None} /\ job[w].lod \in 0..1
  BY DEF JobData
<1>2. Mesh(w) \in MeshData
  BY <1>1 DEF Mesh, MeshData
<1> QED BY <1>2 DEF IsJob, IsFloor, Mesh

\* A job keeps its claim while the chunks grow.
LEMMA JobGrows ==
    ASSUME NEW j \in JobData, NEW s, NEW t, IsJob(j, s), Grows(s, t),
           \A c \in Chunks : s[c] # None => s[c].block \in Nat /\ s[c].light \in Nat
    PROVE  IsJob(j, t)
<1>1. j.claim \in Nat \X Nat
  BY DEF JobData
<1>2. PICK x \in Nat, y \in Nat : j.claim = <<x, y>>
  BY <1>1
<1>3. ASSUME j.at = "read"
      PROVE  t[j.pos] # None /\ x <= t[j.pos].block /\ y <= t[j.pos].light
  <2>1. j.pos \in Chunks /\ s[j.pos] # None /\ x <= s[j.pos].block /\ y <= s[j.pos].light
    BY <1>2, <1>3 DEF IsJob
  <2>2. s[j.pos].block \in Nat /\ s[j.pos].light \in Nat
    BY <2>1
  <2>3. /\ t[j.pos] # None
        /\ t[j.pos].block \in Nat /\ t[j.pos].light \in Nat
        /\ t[j.pos].block >= s[j.pos].block /\ t[j.pos].light >= s[j.pos].light
    BY <2>1 DEF Grows
  <2> QED BY <2>1, <2>2, <2>3
<1> QED BY <1>2, <1>3 DEF IsJob
-----------------------------------------------------------------------------
(* What a step may do to each of them.                                     *)

Writing ==
    \/ \E p \in Place : WriteBlock(p) \/ WriteLight(p)
    \/ \E c \in Chunks : LoadChunk(c)
    \/ BumpBlockVersion \/ BumpLightVersion \/ TakeBatch

Marking ==
    \/ \E c \in Chunks : MarkColumnDirty(c) \/ UnloadDistantChunk(c)
    \/ \E d \in 0..4 : MoveCamera(d)
    \/ MarkAllDirty

Requesting == EnqueueLightingUpdateWithRemesh \/ \E c \in Chunks : FlushAffectedChunk(c)

Building ==
    \/ \E w \in Threads : TakeRequest(w) \/ Look(w) \/ Read(w) \/ PushUpload(w)
    \/ \E w \in Workers : BuildFails(w)
    \/ \E c \in Chunks : TakeChunk(c)
    \/ UploadDirectly

Framing == ScanAsync \/ ScanSync \/ \E n \in 0..Len(uploads) : Upload(n)

\* Every step is one of these.
LEMMA NextIs == [Next]_vars => Writing \/ Marking \/ Requesting \/ Building \/ Framing \/ UNCHANGED vars
BY DEF Next, GameStep, LightStep, FrameStep, BuildStep, Threads, Writing, Marking, Requesting, Building, Framing

\* A step that changes nothing changes no variable.
LEMMA VarsFrame ==
    UNCHANGED vars => UNCHANGED <<setup, sub, game, lightQ, lighter, rebuild, job, uploads, views, dirty, gfx,
                                  frame, camera, edits, moves, fails>>
BY DEF vars, world, lights, screen, bounds

\* Only requests, frames and the workers that take them change the queue.
LEMMA RebuildSteps ==
    ASSUME Writers, [Next]_vars
    PROVE  \/ rebuild' = rebuild
           \/ setup.async /\ \E c \in Chunks : rebuild' = Pushed(rebuild, c, 0)
           \/ setup.async /\ rebuild' \in PushedAll(rebuild, Outdated \cup (NewInView \cap Loaded), Request)
           \/ setup.async /\ rebuild # <<>> /\ rebuild' = Tail(rebuild)
<1>1. CASE Writing
  BY <1>1 DEF Writing, WriteBlock, WriteLight, LoadChunk, BumpBlockVersion, BumpLightVersion, TakeBatch
<1>2. CASE Marking
  BY <1>2 DEF Marking, MarkColumnDirty, UnloadDistantChunk, MoveCamera, MarkAllDirty
<1>3. CASE EnqueueLightingUpdateWithRemesh
  <2>1. game.place.chunk \in Chunks
    BY <1>3 DEF Writers, WritersOK, EnqueueLightingUpdateWithRemesh, Place
  <2> QED BY <1>3, <2>1 DEF EnqueueLightingUpdateWithRemesh
<1>4. ASSUME NEW c \in Chunks, FlushAffectedChunk(c)
      PROVE  rebuild' = rebuild \/ (setup.async /\ rebuild' = Pushed(rebuild, c, 0))
  BY <1>4 DEF FlushAffectedChunk
<1>5. CASE Building
  BY <1>5 DEF Building, TakeRequest, Look, Read, PushUpload, BuildFails, TakeChunk, UploadDirectly
<1>6. CASE Framing
  BY <1>6 DEF Framing, ScanAsync, ScanSync, Upload
<1>7. CASE UNCHANGED vars
  BY <1>7, VarsFrame
<1> QED BY <1>1, <1>2, <1>3, <1>4, <1>5, <1>6, <1>7, NextIs DEF Requesting

\* Only building changes the jobs, and uploading the uploads.
LEMMA JobSteps == [Next]_vars => job' = job \/ Building
<1> SUFFICES ASSUME [Next]_vars, ~Building PROVE job' = job
  OBVIOUS
<1>1. CASE Writing
  BY <1>1 DEF Writing, WriteBlock, WriteLight, LoadChunk, BumpBlockVersion, BumpLightVersion, TakeBatch
<1>2. CASE Marking
  BY <1>2 DEF Marking, MarkColumnDirty, UnloadDistantChunk, MoveCamera, MarkAllDirty
<1>3. CASE Requesting
  BY <1>3 DEF Requesting, EnqueueLightingUpdateWithRemesh, FlushAffectedChunk
<1>4. CASE Framing
  BY <1>4 DEF Framing, ScanAsync, ScanSync, Upload
<1>5. CASE UNCHANGED vars
  BY <1>5, VarsFrame
<1> QED BY <1>1, <1>2, <1>3, <1>4, <1>5, NextIs

\* Only workers and frames change the uploads.
LEMMA UploadSteps ==
    [Next]_vars => \/ uploads' = uploads
                   \/ \E w \in Threads : PushUpload(w)
                   \/ \E n \in 0..Len(uploads) : Upload(n)
<1> SUFFICES ASSUME [Next]_vars, ~(\E w \in Threads : PushUpload(w)), ~(\E n \in 0..Len(uploads) : Upload(n))
             PROVE  uploads' = uploads
  OBVIOUS
<1>1. CASE Writing
  BY <1>1 DEF Writing, WriteBlock, WriteLight, LoadChunk, BumpBlockVersion, BumpLightVersion, TakeBatch
<1>2. CASE Marking
  BY <1>2 DEF Marking, MarkColumnDirty, UnloadDistantChunk, MoveCamera, MarkAllDirty
<1>3. CASE Requesting
  BY <1>3 DEF Requesting, EnqueueLightingUpdateWithRemesh, FlushAffectedChunk
<1>4. CASE Framing
  BY <1>4 DEF Framing, ScanAsync, ScanSync
<1>5. CASE Building
  BY <1>5 DEF Building, TakeRequest, Look, Read, BuildFails, TakeChunk, UploadDirectly
<1>6. CASE UNCHANGED vars
  BY <1>6, VarsFrame
<1> QED BY <1>1, <1>2, <1>3, <1>4, <1>5, <1>6, NextIs

\* Only the graphics thread changes what is shown.
LEMMA ViewSteps ==
    [Next]_vars => \/ views' = views
                   \/ \E c \in Chunks : UnloadDistantChunk(c)
                   \/ MarkAllDirty
                   \/ UploadDirectly
                   \/ \E n \in 0..Len(uploads) : Upload(n)
<1> SUFFICES ASSUME [Next]_vars, ~(\E c \in Chunks : UnloadDistantChunk(c)), ~MarkAllDirty, ~UploadDirectly,
                    ~(\E n \in 0..Len(uploads) : Upload(n))
             PROVE  views' = views
  OBVIOUS
<1>1. CASE Writing
  BY <1>1 DEF Writing, WriteBlock, WriteLight, LoadChunk, BumpBlockVersion, BumpLightVersion, TakeBatch, screen
<1>2. CASE Marking
  BY <1>2 DEF Marking, MarkColumnDirty, MoveCamera, screen
<1>3. CASE Requesting
  BY <1>3 DEF Requesting, EnqueueLightingUpdateWithRemesh, FlushAffectedChunk, screen
<1>4. CASE Framing
  BY <1>4 DEF Framing, ScanAsync, ScanSync
<1>5. CASE Building
  BY <1>5 DEF Building, TakeRequest, Look, Read, PushUpload, BuildFails, TakeChunk, screen
<1>6. CASE UNCHANGED vars
  BY <1>6, VarsFrame
<1> QED BY <1>1, <1>2, <1>3, <1>4, <1>5, <1>6, NextIs

\* The rest stays within its bounds.
LEMMA RestKeeps ==
    ASSUME MeshesOK, [Next]_vars
    PROVE  /\ setup' = setup
           /\ dirty' \in SUBSET Chunks /\ frame' \in SUBSET Chunks
           /\ camera' \in 0..4 /\ gfx' \in {"scan", "upload"}
           /\ edits' \in 0..setup.maxEdits /\ moves' \in 0..setup.maxMoves /\ fails' \in 0..setup.maxFails
<1>1. /\ dirty \in SUBSET Chunks /\ frame \in SUBSET Chunks
      /\ camera \in 0..4 /\ gfx \in {"scan", "upload"}
      /\ edits \in 0..setup.maxEdits /\ moves \in 0..setup.maxMoves /\ fails \in 0..setup.maxFails
  BY DEF MeshesOK
<1>2. setup.maxEdits \in Nat /\ setup.maxMoves \in Nat /\ setup.maxFails \in Nat
  BY SetupAssumption DEF MeshesOK, Setup
<1>3. Loaded \subseteq Chunks /\ Outdated \subseteq Chunks
  BY DEF Loaded, Outdated
<1>4. CASE Writing
  <2>1. setup' = setup /\ UNCHANGED <<dirty, frame, camera, gfx, moves, fails>>
    BY <1>4 DEF Writing, WriteBlock, WriteLight, LoadChunk, BumpBlockVersion, BumpLightVersion, TakeBatch,
                world, screen, bounds
  <2>2. edits' = edits \/ (edits < setup.maxEdits /\ edits' = edits + 1)
    BY <1>4 DEF Writing, WriteBlock, WriteLight, LoadChunk, BumpBlockVersion, BumpLightVersion, TakeBatch, bounds
  <2>3. edits' \in 0..setup.maxEdits
    BY <1>1, <1>2, <2>2
  <2> QED BY <1>1, <2>1, <2>3
<1>5. CASE Marking
  <2>1. setup' = setup /\ UNCHANGED <<frame, gfx, edits, fails>>
    BY <1>5 DEF Marking, MarkColumnDirty, UnloadDistantChunk, MoveCamera, MarkAllDirty, world, screen, bounds
  <2>2. moves' = moves \/ (moves < setup.maxMoves /\ moves' = moves + 1)
    BY <1>5 DEF Marking, MarkColumnDirty, UnloadDistantChunk, MoveCamera, MarkAllDirty, bounds
  <2>3. moves' \in 0..setup.maxMoves
    BY <1>1, <1>2, <2>2
  <2>4. camera' \in 0..4
    BY <1>1, <1>5 DEF Marking, MarkColumnDirty, UnloadDistantChunk, MoveCamera, MarkAllDirty
  <2>5. dirty' \in SUBSET Chunks
    BY <1>1, <1>3, <1>5 DEF Marking, MarkColumnDirty, UnloadDistantChunk, MoveCamera, MarkAllDirty, screen
  <2> QED BY <1>1, <2>1, <2>3, <2>4, <2>5
<1>6. CASE Requesting
  BY <1>1, <1>6 DEF Requesting, EnqueueLightingUpdateWithRemesh, FlushAffectedChunk, world, screen, bounds
<1>7. CASE Building
  <2>1. setup' = setup /\ UNCHANGED <<dirty, camera, gfx, edits, moves>>
    BY <1>7 DEF Building, TakeRequest, Look, Read, PushUpload, BuildFails, TakeChunk, UploadDirectly,
                world, screen, bounds
  <2>2. fails' = fails \/ (fails < setup.maxFails /\ fails' = fails + 1)
    BY <1>7 DEF Building, TakeRequest, Look, Read, PushUpload, BuildFails, TakeChunk, UploadDirectly, bounds
  <2>3. fails' \in 0..setup.maxFails
    BY <1>1, <1>2, <2>2
  <2>4. frame' \in SUBSET Chunks
    BY <1>1, <1>7 DEF Building, TakeRequest, Look, Read, PushUpload, BuildFails, TakeChunk, UploadDirectly, screen
  <2> QED BY <1>1, <2>1, <2>3, <2>4
<1>8. CASE Framing
  <2>1. NewInView \subseteq Chunks
    BY <1>1 DEF NewInView
  <2>2. UNCHANGED <<setup, camera, edits, moves, fails>>
    BY <1>8 DEF Framing, ScanAsync, ScanSync, Upload, world, bounds
  <2>3. gfx' \in {"scan", "upload"}
    BY <1>1, <1>8 DEF Framing, ScanAsync, ScanSync, Upload
  <2>4. frame' \in SUBSET Chunks
    BY <1>1, <1>3, <1>8, <2>1 DEF Framing, ScanAsync, ScanSync, Upload
  <2>5. dirty' \in SUBSET Chunks
    BY <1>1, <1>8, <2>1 DEF Framing, ScanAsync, ScanSync, Upload
  <2> QED BY <1>1, <2>2, <2>3, <2>4, <2>5
<1>9. CASE UNCHANGED vars
  BY <1>1, <1>9, VarsFrame
<1> QED BY <1>4, <1>5, <1>6, <1>7, <1>8, <1>9, NextIs
-----------------------------------------------------------------------------
(* What each step keeps.                                                   *)

\* The queue holds each chunk once.
LEMMA RebuildKeeps ==
    ASSUME IInv, [Next]_vars
    PROVE  /\ rebuild' \in Seq(Requests) /\ UniqueKeys(rebuild')
           /\ ~setup.async => rebuild' = rebuild
<1>1. Writers /\ rebuild \in Seq(Requests) /\ UniqueKeys(rebuild) /\ camera \in 0..4
  BY DEF IInv, MeshesOK
<1>2. PICK q : q = rebuild'
  OBVIOUS
<1>3. CASE q = rebuild
  BY <1>1, <1>2, <1>3
<1>4. CASE setup.async /\ \E c \in Chunks : q = Pushed(rebuild, c, 0)
  <2>1. PICK c \in Chunks : q = Pushed(rebuild, c, 0)
    BY <1>4
  <2>2. 0 \in 0..2
    OBVIOUS
  <2> QED BY <1>1, <1>2, <1>4, <2>1, <2>2, PushedOnce
<1>5. CASE setup.async /\ q \in PushedAll(rebuild, Outdated \cup (NewInView \cap Loaded), Request)
  <2>1. PICK keys : keys = Outdated \cup (NewInView \cap Loaded)
    OBVIOUS
  <2>2. keys \subseteq Chunks
    BY <2>1 DEF Outdated, Loaded
  <2>3. PICK d \in 0..2 : d = Request
    BY <1>1, RequestIs
  <2>4. q \in PushedAll(rebuild, keys, d)
    BY <1>5, <2>1, <2>3
  <2> QED BY <1>1, <1>2, <1>5, <2>2, <2>4, PushedAllOnce
<1>6. CASE setup.async /\ rebuild # <<>> /\ q = Tail(rebuild)
  BY <1>1, <1>2, <1>6, TailOnce
<1> QED BY <1>1, <1>2, <1>3, <1>4, <1>5, <1>6, RebuildSteps

\* One job changes.
LEMMA JobSet ==
    ASSUME IInv, Grows(sub, sub'), NEW w \in Threads, NEW x \in JobData,
           NEW t, t = sub', IsJob(x, t), job' = [job EXCEPT ![w] = x]
    PROVE  job' \in [Threads -> JobData] /\ JobsAreFloors'
<1>1. job \in [Threads -> JobData] /\ JobsAreFloors /\ WritersOK
  BY DEF IInv, MeshesOK, Writers
<1>2. job' \in [Threads -> JobData]
  BY <1>1
<1>3. \A c \in Chunks : sub[c] # None => sub[c].block \in Nat /\ sub[c].light \in Nat
  BY <1>1, SubIs
<1>4. ASSUME NEW v \in Threads PROVE IsJob(job'[v], t)
  <2>1. CASE v = w
    BY <1>1, <2>1
  <2>2. CASE v # w
    <3>1. PICK j \in JobData : j = job[v]
      BY <1>1
    <3>2. IsJob(j, sub)
      BY <1>1, <3>1 DEF JobsAreFloors
    <3>3. Grows(sub, t)
      OBVIOUS
    <3>4. IsJob(j, t)
      BY <1>3, <3>2, <3>3, JobGrows
    <3>5. job'[v] = j
      BY <1>1, <2>2, <3>1
    <3> QED BY <3>4, <3>5
  <2> QED BY <2>1, <2>2
<1>5. PICK g : g = job'
  OBVIOUS
<1>6. \A v \in Threads : IsJob(g[v], t)
  BY <1>4, <1>5
<1> QED BY <1>2, <1>5, <1>6 DEF JobsAreFloors

\* No job changes.
LEMMA JobFrame ==
    ASSUME IInv, Grows(sub, sub'), job' = job
    PROVE  job' \in [Threads -> JobData] /\ JobsAreFloors'
<1>1. job \in [Threads -> JobData] /\ JobsAreFloors /\ WritersOK
  BY DEF IInv, MeshesOK, Writers
<1>2. PICK t : t = sub'
  OBVIOUS
<1>3. \A c \in Chunks : sub[c] # None => sub[c].block \in Nat /\ sub[c].light \in Nat
  BY <1>1, SubIs
<1>4. ASSUME NEW v \in Threads PROVE IsJob(job[v], t)
  <2>1. PICK j \in JobData : j = job[v]
    BY <1>1
  <2>2. IsJob(j, sub)
    BY <1>1, <2>1 DEF JobsAreFloors
  <2>3. Grows(sub, t)
    BY <1>2
  <2> QED BY <1>3, <2>1, <2>2, <2>3, JobGrows
<1> QED BY <1>1, <1>2, <1>4 DEF JobsAreFloors

\* A builder takes the versions before the contents, so that it claims what it
\* shows.
LEMMA JobsKeep ==
    ASSUME IInv, [Next]_vars, Grows(sub, sub')
    PROVE  job' \in [Threads -> JobData] /\ JobsAreFloors'
<1>1. /\ job \in [Threads -> JobData] /\ JobsAreFloors /\ WritersOK /\ Writers
      /\ rebuild \in Seq(Requests) /\ UniqueKeys(rebuild) /\ camera \in 0..4
  BY DEF IInv, MeshesOK, Writers
<1>2. PICK t : t = sub'
  OBVIOUS
<1>3. NoJob \in JobData /\ IsJob(NoJob, t)
  <2>1. NoJob \in JobData
    BY DEF NoJob, JobData
  <2> QED BY <2>1 DEF NoJob, IsJob
<1>4. ASSUME NEW c \in Chunks, NEW l \in 0..1,
             NEW x, x = [NoJob EXCEPT !.at = "look", !.pos = c, !.lod = l]
      PROVE  x \in JobData /\ IsJob(x, t)
  <2>1. x = [at |-> "look", pos |-> c, lod |-> l, claim |-> <<0, 0>>, seen |-> None]
    BY <1>4 DEF NoJob
  <2>2. x \in JobData
    BY <2>1 DEF JobData
  <2> QED BY <2>1, <2>2 DEF IsJob
<1>5. ASSUME NEW w \in Threads, TakeRequest(w) PROVE job' \in [Threads -> JobData] /\ JobsAreFloors'
  <2>1. rebuild # <<>> /\ Head(rebuild) \in Requests
    BY <1>1, <1>5, TailOnce DEF TakeRequest
  <2>2. PICK c \in Chunks : c = Head(rebuild).key
    BY <2>1 DEF Requests
  <2>3. PICK l \in 0..1 : l = BuildLevel(Head(rebuild).data)
    BY <1>1, <2>1, RequestIs DEF Requests
  <2>4. PICK x : x = [NoJob EXCEPT !.at = "look", !.pos = c, !.lod = l]
    OBVIOUS
  <2>5. job' = [job EXCEPT ![w] = x]
    BY <1>5, <2>2, <2>3, <2>4 DEF TakeRequest
  <2>6. x \in JobData /\ IsJob(x, t)
    BY <1>4, <2>4
  <2> QED BY <1>2, <2>5, <2>6, JobSet
<1>6. ASSUME NEW c \in Chunks, TakeChunk(c) PROVE job' \in [Threads -> JobData] /\ JobsAreFloors'
  <2>1. PICK l \in 0..1 : l = BuildLevel(Request)
    BY <1>1, RequestIs
  <2>2. PICK x : x = [NoJob EXCEPT !.at = "look", !.pos = c, !.lod = l]
    OBVIOUS
  <2>3. job' = [job EXCEPT ![Graphics] = x]
    BY <1>6, <2>1, <2>2 DEF TakeChunk
  <2>4. x \in JobData /\ IsJob(x, t)
    BY <1>4, <2>2
  <2>5. Graphics \in Threads
    BY DEF Threads
  <2> QED BY <1>2, <2>3, <2>4, <2>5, JobSet
<1>7. ASSUME NEW w \in Threads, Look(w) PROVE job' \in [Threads -> JobData] /\ JobsAreFloors'
  <2>1. PICK j \in JobData : j = job[w]
    BY <1>1
  <2>2. j.at = "look" /\ j.pos \in Chunks /\ j.seen = None /\ sub' = sub
    BY <1>1, <1>7, <2>1 DEF Look, JobsAreFloors, IsJob, world
  <2>3. PICK v \in Nat \X Nat : v = Versions(j.pos)
    BY <1>1, <2>2, VersionsIs
  <2>4. PICK a \in {"done", "read"} : a = IF sub[j.pos] = None THEN "done" ELSE "read"
    OBVIOUS
  <2>5. PICK x : x = [at |-> a, pos |-> j.pos, lod |-> j.lod, claim |-> v, seen |-> None]
    OBVIOUS
  <2>6. x \in JobData
    <3>1. j.lod \in 0..1
      BY DEF JobData
    <3> QED BY <2>2, <2>5, <3>1 DEF JobData
  <2>7. job' = [job EXCEPT ![w] = x]
    <3>1. j = [at |-> j.at, pos |-> j.pos, lod |-> j.lod, claim |-> j.claim, seen |-> j.seen]
      BY DEF JobData
    <3>2. PICK y : y = [at |-> a, pos |-> j.pos, lod |-> j.lod, claim |-> j.claim, seen |-> None]
      OBVIOUS
    <3>3. y = [j EXCEPT !.at = a]
      BY ONLY <2>2, <3>1, <3>2
    <3>4. x = [y EXCEPT !.claim = v]
      BY ONLY <2>5, <3>2
    <3>5. job' = [[job EXCEPT ![w].at = a] EXCEPT ![w].claim = v]
      BY <1>7, <2>1, <2>3, <2>4 DEF Look, CaptureVersions
    <3> QED BY <1>1, <2>1, <3>3, <3>4, <3>5
  <2>8. IsJob(x, t)
    <3>1. x.at = "read" => sub[j.pos] # None /\ v[1] <= sub[j.pos].block /\ v[2] <= sub[j.pos].light
      BY <1>1, <2>2, <2>3, <2>4, <2>5, VersionsIs
    <3> QED BY <1>2, <2>2, <2>5, <3>1 DEF IsJob, IsFloor
  <2> QED BY <1>2, <2>6, <2>7, <2>8, JobSet
<1>8. ASSUME NEW w \in Threads, Read(w) PROVE job' \in [Threads -> JobData] /\ JobsAreFloors'
  <2>1. PICK j \in JobData : j = job[w]
    BY <1>1
  <2>2. /\ j.at = "read" /\ j.pos \in Chunks /\ sub[j.pos] # None
        /\ j.claim[1] <= sub[j.pos].block /\ j.claim[2] <= sub[j.pos].light
    BY <1>1, <1>8, <2>1 DEF Read, JobsAreFloors, IsJob
  <2>3. PICK m \in Shown : m = Content(j.pos) /\ m.block = sub[j.pos].block /\ m.light = sub[j.pos].light
    BY <1>1, <2>2, ContentIs
  <2>4. PICK x : x = [at |-> "done", pos |-> j.pos, lod |-> j.lod, claim |-> j.claim, seen |-> m]
    OBVIOUS
  <2>5. x \in JobData
    <3>1. j.lod \in 0..1 /\ j.claim \in Nat \X Nat
      BY DEF JobData
    <3> QED BY <2>2, <2>4, <3>1 DEF JobData
  <2>6. job' = [job EXCEPT ![w] = x]
    <3>1. j = [at |-> j.at, pos |-> j.pos, lod |-> j.lod, claim |-> j.claim, seen |-> j.seen]
      BY DEF JobData
    <3>2. PICK y : y = [at |-> "done", pos |-> j.pos, lod |-> j.lod, claim |-> j.claim, seen |-> j.seen]
      OBVIOUS
    <3>3. y = [j EXCEPT !.at = "done"]
      BY ONLY <3>1, <3>2
    <3>4. x = [y EXCEPT !.seen = m]
      BY ONLY <2>4, <3>2
    <3>5. job' = [[job EXCEPT ![w].at = "done"] EXCEPT ![w].seen = m]
      BY <1>8, <2>1, <2>3 DEF Read
    <3> QED BY <1>1, <2>1, <3>3, <3>4, <3>5
  <2>7. IsJob(x, t)
    <3>1. m.block >= j.claim[1] /\ m.light >= j.claim[2]
      <4>1. PICK y \in Nat, z \in Nat : j.claim = <<y, z>>
        BY DEF JobData
      <4>2. m.block \in Nat /\ m.light \in Nat
        BY DEF Shown
      <4> QED BY <2>2, <2>3, <4>1, <4>2
    <3> QED BY <2>2, <2>4, <3>1 DEF IsJob, IsFloor
  <2> QED BY <1>2, <2>5, <2>6, <2>7, JobSet
<1>9. ASSUME NEW w \in Threads, job' = [job EXCEPT ![w] = NoJob]
      PROVE  job' \in [Threads -> JobData] /\ JobsAreFloors'
  <2>1. PICK x \in JobData : x = NoJob
    BY <1>3
  <2> QED BY <1>2, <1>3, <1>9, <2>1, JobSet
<1>10. ASSUME Building
       PROVE  \/ \E w \in Threads : TakeRequest(w) \/ Look(w) \/ Read(w)
              \/ \E c \in Chunks : TakeChunk(c)
              \/ \E w \in Threads : job' = [job EXCEPT ![w] = NoJob]
  BY <1>10 DEF Building, BuildFails, PushUpload, UploadDirectly, Threads
<1>11. CASE job' = job
  BY <1>11, JobFrame
<1> QED BY <1>5, <1>6, <1>7, <1>8, <1>9, <1>10, <1>11, JobSteps
-----------------------------------------------------------------------------
(* The uploads and the views.                                              *)

AllFloors(u) == \A i \in 1..Len(u) : IsFloor(u[i].mesh)

\* A worker pushes the mesh it built; a frame takes the oldest ones.
LEMMA UploadsKeep ==
    ASSUME IInv, [Next]_vars
    PROVE  uploads' \in Seq(Uploads) /\ AllFloors(uploads')
<1>1. /\ uploads \in Seq(Uploads) /\ AllFloors(uploads)
      /\ \A w \in Threads : job[w] \in JobData /\ IsJob(job[w], sub)
  BY DEF IInv, MeshesOK, MeshesAreFloors, JobsAreFloors, AllFloors
<1>2. Len(uploads) \in Nat /\ \A i \in 1..Len(uploads) : uploads[i] \in Uploads
  BY <1>1, LenProperties, ElementOfSeq
<1>3. PICK u : u = uploads'
  OBVIOUS
<1>4. ASSUME NEW w \in Threads, PushUpload(w) PROVE u \in Seq(Uploads) /\ AllFloors(u)
  <2>1. job[w].at = "done" /\ u = Append(uploads, [pos |-> job[w].pos, mesh |-> Mesh(w)])
    BY <1>3, <1>4 DEF PushUpload
  <2>2. Mesh(w) \in MeshData /\ IsFloor(Mesh(w)) /\ job[w].pos \in Chunks
    BY <1>1, <2>1, MeshIs
  <2>3. PICK e : e = [pos |-> job[w].pos, mesh |-> Mesh(w)]
    OBVIOUS
  <2>4. e \in Uploads /\ IsFloor(e.mesh)
    BY <2>2, <2>3 DEF Uploads
  <2>5. u = Append(uploads, e)
    BY <2>1, <2>3
  <2>6. /\ u \in Seq(Uploads) /\ Len(u) = Len(uploads) + 1 /\ u[Len(uploads) + 1] = e
        /\ \A i \in 1..Len(uploads) : u[i] = uploads[i]
    BY <1>1, <2>4, <2>5, AppendProperties
  <2>7. ASSUME NEW i \in 1..Len(u) PROVE IsFloor(u[i].mesh)
    <3>1. CASE i = Len(uploads) + 1
      BY <2>4, <2>6, <3>1
    <3>2. CASE i # Len(uploads) + 1
      <4>1. i \in 1..Len(uploads)
        BY <1>2, <2>6, <3>2
      <4> QED BY <1>1, <2>6, <4>1 DEF AllFloors
    <3> QED BY <3>1, <3>2
  <2> QED BY <2>6, <2>7 DEF AllFloors
<1>5. ASSUME NEW n \in 0..Len(uploads), Upload(n) PROVE u \in Seq(Uploads) /\ AllFloors(u)
  <2>1. u = SubSeq(uploads, n + 1, Len(uploads))
    BY <1>3, <1>5 DEF Upload
  <2>2. n + 1 \in Int /\ Len(uploads) \in Int /\ \A i \in (n + 1)..Len(uploads) : i \in 1..Len(uploads)
    BY <1>2
  <2>3. \A i \in (n + 1)..Len(uploads) : uploads[i] \in Uploads
    BY <1>2, <2>2
  <2>4. /\ u \in Seq(Uploads)
        /\ Len(u) = IF n + 1 <= Len(uploads) THEN Len(uploads) - (n + 1) + 1 ELSE 0
        /\ \A i \in 1..(Len(uploads) - (n + 1) + 1) : u[i] = uploads[(n + 1) + i - 1]
    BY <2>1, <2>2, <2>3, SubSeqProperties
  <2>5. ASSUME NEW i \in 1..Len(u) PROVE IsFloor(u[i].mesh)
    <3>1. i \in 1..(Len(uploads) - (n + 1) + 1) /\ (n + 1) + i - 1 \in 1..Len(uploads)
      BY <1>2, <2>4
    <3> QED BY <1>1, <2>4, <3>1 DEF AllFloors
  <2> QED BY <2>4, <2>5 DEF AllFloors
<1>6. u \in Seq(Uploads) /\ AllFloors(u)
  BY <1>1, <1>3, <1>4, <1>5, UploadSteps
<1> QED BY <1>3, <1>6 DEF AllFloors

\* A set of natural numbers has a least one.
LEMMA LeastNatural ==
    ASSUME NEW S, S \subseteq Nat, S # {}
    PROVE  \E m \in S : \A x \in S : m <= x
<1> DEFINE R == {p \in Nat \X Nat : p[1] < p[2]}
<1>1. IsWellFoundedOn(R, Nat)
  BY NatLessThanWellFounded DEF OpToRel
<1> HIDE DEF R
<1>2. PICK m \in S : \A x \in S : ~(<<x, m>> \in R)
  BY <1>1, WFMin
<1>3. \A x \in S : ~(x < m)
  BY <1>2 DEF R
<1> QED BY <1>3

\* The last of some places of the queue is one of them.
LEMMA LastPlace ==
    ASSUME NEW b \in Nat, NEW S, S \subseteq 1..b, S # {}
    PROVE  Max(S) \in S
<1> DEFINE D == {b - x : x \in S}
<1>1. D \subseteq Nat /\ D # {}
  <2>1. \A x \in S : b - x \in Nat
    OBVIOUS
  <2> QED BY <2>1
<1> HIDE DEF D
<1>2. PICK d \in D : \A y \in D : d <= y
  BY <1>1, LeastNatural
<1>3. PICK m \in S : d = b - m
  BY DEF D
<1>4. \A x \in S : b - x \in D
  BY DEF D
<1>5. \A x \in S : m >= x
  BY <1>2, <1>3, <1>4
<1> QED BY <1>5 DEF Max

\* v shows only meshes that show what they claim.
Shows(v) == v \in [Chunks -> MeshData \cup {None}] /\ \A c \in Chunks : v[c] # None => IsFloor(v[c])

\* A view changes to a mesh that was built, to none, or claims nothing more.
LEMMA ViewsKeep ==
    ASSUME IInv, [Next]_vars
    PROVE  Shows(views')
<1>1. /\ Shows(views) /\ uploads \in Seq(Uploads) /\ AllFloors(uploads)
      /\ \A w \in Threads : job[w] \in JobData /\ IsJob(job[w], sub)
  BY DEF IInv, MeshesOK, MeshesAreFloors, JobsAreFloors, AllFloors, Shows
<1>2. PICK v : v = views'
  OBVIOUS
<1>3. ASSUME NEW x \in MeshData \cup {None}, NEW c \in Chunks, x # None => IsFloor(x), v = [views EXCEPT ![c] = x]
      PROVE  Shows(v)
  BY <1>1, <1>3 DEF Shows
<1>4. ASSUME NEW c \in Chunks, UnloadDistantChunk(c) PROVE Shows(v)
  BY <1>2, <1>3, <1>4 DEF UnloadDistantChunk
<1>5. ASSUME UploadDirectly PROVE Shows(v)
  <2>1. Graphics \in Threads
    BY DEF Threads
  <2>2. job[Graphics].at = "done" /\ v = [views EXCEPT ![job[Graphics].pos] = Mesh(Graphics)]
    BY <1>2, <1>5 DEF UploadDirectly
  <2>3. Mesh(Graphics) \in MeshData /\ IsFloor(Mesh(Graphics)) /\ job[Graphics].pos \in Chunks
    BY <1>1, <2>1, <2>2, MeshIs
  <2> QED BY <1>3, <2>2, <2>3
<1>6. ASSUME MarkAllDirty PROVE Shows(v)
  <2>1. v = [c \in Chunks |-> IF views[c] = None THEN None ELSE [views[c] EXCEPT !.claim = <<0, 0>>]]
    BY <1>2, <1>6 DEF MarkAllDirty
  <2>2. ASSUME NEW c \in Chunks, views[c] # None
        PROVE  v[c] \in MeshData /\ IsFloor(v[c])
    <3>1. PICK m \in MeshData : m = views[c]
      BY <1>1, <2>2 DEF Shows
    <3>2. /\ m = [claim |-> m.claim, seen |-> m.seen, lod |-> m.lod]
          /\ m.seen \in Shown \cup {None} /\ m.lod \in 0..1
      BY DEF MeshData
    <3>3. PICK x : x = [claim |-> <<0, 0>>, seen |-> m.seen, lod |-> m.lod]
      OBVIOUS
    <3>4. x = [m EXCEPT !.claim = <<0, 0>>]
      BY ONLY <3>2, <3>3
    <3>5. v[c] = x
      BY <2>1, <2>2, <3>1, <3>4
    <3>6. x \in MeshData
      BY <3>2, <3>3 DEF MeshData
    <3>7. m.seen # None => m.seen.block \in Nat /\ m.seen.light \in Nat
      BY <3>2 DEF Shown
    <3> QED BY <3>3, <3>5, <3>6, <3>7 DEF IsFloor
  <2>3. \A c \in Chunks : views[c] = None => v[c] = None
    BY <2>1
  <2>4. v \in [Chunks -> MeshData \cup {None}]
    BY <2>1, <2>2, <2>3
  <2> QED BY <2>2, <2>3, <2>4 DEF Shows
<1>7. ASSUME NEW n \in 0..Len(uploads), Upload(n) PROVE Shows(v)
  <2>1. v = [c \in Chunks |-> Uploaded(c, n)]
    BY <1>2, <1>7 DEF Upload
  <2>2. Len(uploads) \in Nat /\ \A i \in 1..Len(uploads) : uploads[i] \in Uploads /\ IsFloor(uploads[i].mesh)
    BY <1>1, LenProperties, ElementOfSeq DEF AllFloors
  <2>3. ASSUME NEW c \in Chunks
        PROVE  Uploaded(c, n) \in MeshData \cup {None} /\ (Uploaded(c, n) # None => IsFloor(Uploaded(c, n)))
    <3>1. PICK own : own = {i \in 1..n : uploads[i].pos = c}
      OBVIOUS
    <3>2. Uploaded(c, n) = IF own = {} THEN views[c] ELSE uploads[Max(own)].mesh
      BY <3>1 DEF Uploaded
    <3>3. CASE own = {}
      BY <1>1, <3>2, <3>3 DEF Shows
    <3>4. CASE own # {}
      <4>1. n \in Nat /\ own \subseteq 1..n
        BY <2>2, <3>1
      <4>2. Max(own) \in 1..n
        BY <3>4, <4>1, LastPlace
      <4>3. Max(own) \in 1..Len(uploads)
        BY <2>2, <4>2
      <4>4. PICK i \in 1..Len(uploads) : i = Max(own)
        BY <4>3
      <4>5. uploads[i].mesh \in MeshData /\ IsFloor(uploads[i].mesh)
        BY <2>2 DEF Uploads
      <4> QED BY <3>2, <3>4, <4>4, <4>5
    <3> QED BY <3>3, <3>4
  <2>4. v \in [Chunks -> MeshData \cup {None}]
    BY <2>1, <2>3
  <2> QED BY <2>1, <2>3, <2>4 DEF Shows
<1>8. Shows(v)
  BY <1>1, <1>2, <1>4, <1>5, <1>6, <1>7, ViewSteps
<1> QED BY <1>2, <1>8 DEF Shows

\* Without a pool there are no requests, no workers and no uploads.
LEMMA SyncKeeps ==
    ASSUME IInv, [Next]_vars
    PROVE  SyncIsDirect'
<1>1. MeshesOK /\ SyncIsDirect /\ Len(uploads) \in Nat
  BY LenProperties DEF IInv, MeshesOK
<1>2. setup' = setup /\ (~setup.async => rebuild' = rebuild)
  BY <1>1, RestKeeps, RebuildKeeps
<1>3. CASE setup.async
  BY <1>2, <1>3 DEF SyncIsDirect
<1>4. CASE ~setup.async
  <2>1. rebuild = <<>> /\ uploads = <<>> /\ \A w \in Threads : w # Graphics => job[w].at = "idle"
    BY <1>1, <1>4 DEF SyncIsDirect
  <2>2. ASSUME NEW w \in Threads PROVE ~PushUpload(w)
    BY <2>1 DEF PushUpload
  <2>3. ASSUME NEW n \in 0..Len(uploads), Upload(n) PROVE uploads' = <<>>
    <3>1. uploads' = SubSeq(uploads, n + 1, Len(uploads)) /\ n \in Nat
      BY <1>1, <2>3 DEF Upload
    <3>2. Len(uploads) = 0
      BY <2>1
    <3>3. n + 1 \in Int /\ Len(uploads) \in Int /\ Len(uploads) < n + 1
      BY <3>1, <3>2
    <3> QED BY <3>1, <3>3, SubSeqEmpty
  <2>4. uploads' = <<>>
    BY <2>1, <2>2, <2>3, UploadSteps
  <2>5. ASSUME NEW w \in Threads, w # Graphics PROVE job'[w].at = "idle"
    <3>1. job[w].at = "idle" /\ job \in [Threads -> JobData]
      BY <1>1, <2>1, <2>5 DEF MeshesOK
    <3>2. CASE job' = job
      BY <3>1, <3>2
    <3>3. ASSUME NEW x, job' = [job EXCEPT ![Graphics] = x] PROVE job'[w].at = "idle"
      BY <2>5, <3>1, <3>3
    <3>4. ASSUME NEW y \in Threads, Look(y) \/ Read(y) PROVE job'[w].at = "idle"
      <4>1. y = Graphics
        BY <2>1, <3>4 DEF Look, Read
      <4>2. job'[w] = job[w]
        BY <2>5, <3>1, <3>4, <4>1 DEF Look, Read, CaptureVersions
      <4> QED BY <3>1, <4>2
    <3>5. ASSUME NEW y \in Workers, BuildFails(y) PROVE FALSE
      BY <2>1, <3>5 DEF BuildFails, Threads
    <3>6. ASSUME Building
          PROVE  \/ \E y \in Threads : Look(y) \/ Read(y)
                 \/ \E y \in Workers : BuildFails(y)
                 \/ \E x : job' = [job EXCEPT ![Graphics] = x]
      BY <1>4, <2>2, <3>6 DEF Building, TakeRequest, TakeChunk, UploadDirectly
    <3> QED BY <3>2, <3>3, <3>4, <3>5, <3>6, JobSteps
  <2> QED BY <1>2, <2>1, <2>4, <2>5 DEF SyncIsDirect
<1> QED BY <1>3, <1>4
-----------------------------------------------------------------------------
(* The invariant.                                                          *)

\* At first what is loaded is shown as it is.
LEMMA MeshInit == Init => IInv
<1> SUFFICES ASSUME Init PROVE IInv
  OBVIOUS
<1>1. setup \in Setup /\ setup \in Setups
  BY SetupAssumption DEF Init
<1>2. Fresh \in SubChunk /\ Fresh # None
  <2>1. Fresh \in SubChunk
    BY DEF Fresh, SubChunk
  <2> QED BY <2>1, NoneAssumption
<1>3. \A c \in Chunks : sub[c] # None => sub[c] = Fresh
  BY DEF Init
<1>4. WritersOK
  <2>1. sub \in [Chunks -> SubChunk \cup {None}]
    BY <1>2 DEF Init
  <2>2. game = [at |-> "idle", place |-> None] /\ lighter = [todo |-> {}, half |-> None, affected |-> {}]
    BY DEF Init, Resting, NoBatch
  <2>3. lightQ \in [Place -> {"none", "light", "remesh"}]
    BY DEF Init
  <2> QED BY <2>1, <2>2, <2>3 DEF WritersOK
<1>5. VersionsCountWrites
  <2>1. game.at = "idle" /\ lighter.half = None
    BY DEF Init, Resting, NoBatch
  <2>2. \A c \in Chunks : Half(game.at = "bump" /\ game.place.chunk = c) = 0
                          /\ Half(lighter.half # None /\ lighter.half.chunk = c) = 0
    BY <2>1 DEF Half
  <2>3. Fresh.block = 1 /\ Fresh.blockVer = 1 /\ Fresh.light = 1 /\ Fresh.lightVer = 1
    BY DEF Fresh
  <2>4. ASSUME NEW c \in Chunks, sub[c] # None
        PROVE  /\ sub[c].block = sub[c].blockVer + Half(game.at = "bump" /\ game.place.chunk = c)
               /\ sub[c].light = sub[c].lightVer + Half(lighter.half # None /\ lighter.half.chunk = c)
    <3>1. sub[c].block = 1 /\ sub[c].blockVer = 1 /\ sub[c].light = 1 /\ sub[c].lightVer = 1
      BY <1>3, <2>3, <2>4
    <3> QED BY <2>2, <3>1
  <2> QED BY <2>4 DEF VersionsCountWrites
<1>6. Shows(views)
  <2>1. ASSUME NEW c \in Chunks, c \in Loaded
        PROVE  views[c] \in MeshData /\ IsFloor(views[c])
    <3>1. sub[c] # None /\ sub[c] = Fresh /\ sub[c].block = 1 /\ sub[c].light = 1
      BY <1>3, <2>1 DEF Loaded, Fresh
    <3>2. Versions(c) = <<1, 1>>
      BY <3>1 DEF Versions, Fresh
    <3>3. Content(c) \in Shown /\ Content(c).block = 1 /\ Content(c).light = 1
      BY <1>4, <3>1, ContentIs
    <3>4. PICK m : m = [claim |-> <<1, 1>>, seen |-> Content(c), lod |-> 0]
      OBVIOUS
    <3>5. views[c] = m
      BY <2>1, <3>2, <3>4 DEF Init
    <3>6. m \in MeshData
      BY <3>3, <3>4 DEF MeshData
    <3> QED BY <3>3, <3>4, <3>5, <3>6 DEF IsFloor
  <2>2. \A c \in Chunks : c \notin Loaded => views[c] = None
    BY DEF Init
  <2>3. views \in [Chunks -> MeshData \cup {None}]
    <3>1. DOMAIN views = Chunks /\ views = [c \in Chunks |-> views[c]]
      BY DEF Init
    <3> QED BY <2>1, <2>2, <3>1
  <2> QED BY <2>1, <2>2, <2>3 DEF Shows
<1>7. rebuild = <<>> /\ uploads = <<>> /\ rebuild \in Seq(Requests) /\ uploads \in Seq(Uploads)
  BY EmptySeq DEF Init
<1>8. \A w \in Threads : job[w] = NoJob
  BY DEF Init, Threads
<1>9. NoJob \in JobData /\ IsJob(NoJob, sub)
  <2>1. NoJob \in JobData
    BY DEF NoJob, JobData
  <2> QED BY <2>1 DEF NoJob, IsJob
<1>10. MeshesOK
  <2>1. job \in [Threads -> JobData]
    BY <1>9 DEF Init, Threads
  <2>2. setup.maxEdits \in Nat /\ setup.maxMoves \in Nat /\ setup.maxFails \in Nat
    BY <1>1 DEF Setup
  <2>3. edits = 0 /\ moves = 0 /\ fails = 0 /\ camera = 0 /\ gfx = "scan" /\ dirty = {} /\ frame = {}
    BY DEF Init
  <2>4. edits \in 0..setup.maxEdits /\ moves \in 0..setup.maxMoves /\ fails \in 0..setup.maxFails /\ camera \in 0..4
    BY <2>2, <2>3
  <2> QED BY <1>1, <1>6, <1>7, <2>1, <2>3, <2>4 DEF MeshesOK, Shows
<1>11. UniqueKeys(rebuild)
  BY <1>7 DEF UniqueKeys
<1>12. JobsAreFloors
  BY <1>8, <1>9 DEF JobsAreFloors
<1>13. MeshesAreFloors
  <2>1. Len(uploads) = 0
    BY <1>7
  <2> QED BY <1>6, <2>1 DEF MeshesAreFloors, Shows
<1>14. SyncIsDirect
  BY <1>7, <1>8 DEF SyncIsDirect, NoJob
<1> QED BY <1>4, <1>5, <1>10, <1>11, <1>12, <1>13, <1>14 DEF IInv, Writers

\* Every step of every thread keeps the invariant.
THEOREM MeshNext == IInv /\ [Next]_vars => IInv'
<1> SUFFICES ASSUME IInv, [Next]_vars PROVE IInv'
  OBVIOUS
<1>1. Writers' /\ Grows(sub, sub')
  BY WritersKeep DEF IInv
<1>2. job' \in [Threads -> JobData] /\ JobsAreFloors'
  BY <1>1, JobsKeep
<1>3. rebuild' \in Seq(Requests) /\ UniqueKeys(rebuild')
  BY RebuildKeeps
<1>4. uploads' \in Seq(Uploads) /\ AllFloors(uploads')
  BY UploadsKeep
<1>5. Shows(views')
  BY ViewsKeep
<1>6. SyncIsDirect'
  BY SyncKeeps
<1>7. /\ setup' = setup /\ setup \in Setups
      /\ dirty' \in SUBSET Chunks /\ frame' \in SUBSET Chunks
      /\ camera' \in 0..4 /\ gfx' \in {"scan", "upload"}
      /\ edits' \in 0..setup.maxEdits /\ moves' \in 0..setup.maxMoves /\ fails' \in 0..setup.maxFails
  BY RestKeeps DEF IInv, MeshesOK
<1>8. MeshesOK'
  BY <1>2, <1>3, <1>4, <1>5, <1>7 DEF MeshesOK, Shows
<1>9. MeshesAreFloors'
  BY <1>4, <1>5 DEF MeshesAreFloors, AllFloors, Shows
<1>10. UniqueKeys(rebuild)'
  BY <1>3 DEF UniqueKeys
<1> QED BY <1>1, <1>2, <1>6, <1>8, <1>9, <1>10 DEF IInv

\* The invariant holds in every reachable state.
LEMMA MeshInv == Spec => []IInv
BY MeshInit, MeshNext, PTL DEF Spec

\* However edits, light updates and builders overtake one another, no mesh
\* claims a version of its chunk that it does not show: a view that is not
\* rebuilt is not stale (mesh_worker_pool.cpp:103, world_renderer.cpp:255).
THEOREM MeshesShowWhatTheyClaim == Spec => []VersionsAreFloors
<1>1. IInv => VersionsAreFloors
  <2> SUFFICES ASSUME IInv, NEW m \in Meshes PROVE IsFloor(m)
    BY DEF VersionsAreFloors, IsFloor
  <2>1. uploads \in Seq(Uploads) /\ MeshesAreFloors
    BY DEF IInv, MeshesOK
  <2>2. DOMAIN uploads = 1..Len(uploads)
    BY <2>1, LenProperties
  <2> QED BY <2>1, <2>2 DEF Meshes, MeshesAreFloors
<1> QED BY <1>1, MeshInv, PTL

\* The versions lag by one write at most, and the queue of requests holds each
\* chunk once, for any chunks, workers and bounds.
THEOREM MeshTypes == Spec => []TypeOK
<1>1. IInv => TypeOK
  <2> SUFFICES ASSUME IInv PROVE TypeOK
    OBVIOUS
  <2>1. Writers /\ WritersOK /\ VersionsCountWrites /\ MeshesOK /\ UniqueKeys(rebuild) /\ SyncIsDirect
    BY DEF IInv, Writers
  <2>2. \A c \in Loaded : /\ sub[c].blockVer \in {sub[c].block, sub[c].block - 1}
                          /\ sub[c].lightVer \in {sub[c].light, sub[c].light - 1}
    <3> SUFFICES ASSUME NEW c \in Chunks, sub[c] # None
                 PROVE  /\ sub[c].blockVer \in {sub[c].block, sub[c].block - 1}
                        /\ sub[c].lightVer \in {sub[c].light, sub[c].light - 1}
      BY DEF Loaded
    <3>1. sub[c].blockVer \in Nat /\ sub[c].lightVer \in Nat
      BY <2>1, SubIs
    <3>2. \E h \in {0, 1} : sub[c].block = sub[c].blockVer + h
      BY <2>1 DEF VersionsCountWrites, Half
    <3>3. \E h \in {0, 1} : sub[c].light = sub[c].lightVer + h
      BY <2>1 DEF VersionsCountWrites, Half
    <3> QED BY <3>1, <3>2, <3>3
  <2>3. DOMAIN rebuild = 1..Len(rebuild) /\ \A i \in 1..Len(rebuild) : rebuild[i].key \in Chunks /\ rebuild[i].data \in 0..2
    <3>1. DOMAIN rebuild = 1..Len(rebuild) /\ \A i \in 1..Len(rebuild) : rebuild[i] \in Requests
      BY <2>1, LenProperties, ElementOfSeq DEF MeshesOK
    <3> QED BY <3>1 DEF Requests
  <2>4. Keys(rebuild) \subseteq Chunks
    BY <2>3 DEF Keys
  <2>5. \A m \in Meshes : m.lod \in 0..1 /\ Len(m.claim) = 2
    <3>1. \A m \in MeshData : m.lod \in 0..1 /\ m.claim \in Nat \X Nat
      BY DEF MeshData
    <3>2. \A x \in Nat \X Nat : Len(x) = 2
      OBVIOUS
    <3>3. DOMAIN uploads = 1..Len(uploads) /\ \A i \in 1..Len(uploads) : uploads[i] \in Uploads
      BY <2>1, LenProperties, ElementOfSeq DEF MeshesOK
    <3>4. Meshes \subseteq MeshData
      BY <2>1, <3>3 DEF Meshes, MeshesOK, Uploads
    <3> QED BY <3>1, <3>2, <3>4
  <2> QED BY <2>1, <2>2, <2>3, <2>4, <2>5 DEF TypeOK, MeshesOK, SyncIsDirect
<1> QED BY <1>1, MeshInv, PTL
=============================================================================
