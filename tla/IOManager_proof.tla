-------------------------- MODULE IOManager_proof --------------------------
(***************************************************************************)
(* Proofs about IOManager, for any number of regions, columns and limits:  *)
(* what was reported as stored stays stored, as long as no two calls into  *)
(* a region file race, and the two threads with their queues are ColumnIO. *)
(***************************************************************************)
EXTENDS IOManager, SequenceTheorems, FiniteSetTheorems, TLAPS

Busy == {"open", "use", "inside", "callback"}

\* A thread holds a request exactly while it carries one out, and nobody
\* starts the threads before both are gone.
ThreadsAgree ==
    /\ \A t \in Thread : IF pc[t] \in Busy THEN req[t] \in Request ELSE req[t] = None
    /\ caller # "idle" => ~running
    /\ caller = "idle" /\ ~running => \A t \in Thread : pc[t] = "gone"

\* The inductive invariant of the threads and the open files.
IInv == TypeOK /\ IsFiniteSet(open) /\ ThreadsAgree

\* The saves q of a column stand in the queue in the order of their versions,
\* each newer than what is stored in d, none newer than what was asked for in l.
Ascends(q, d, l) ==
    /\ \A p \in Pos : d[p] <= l[p]
    /\ \A i \in 1..Len(q) : d[q[i].pos] < q[i].ver /\ q[i].ver <= l[q[i].pos]
    /\ \A i, j \in 1..Len(q) : i < j /\ q[i].pos = q[j].pos => q[i].ver < q[j].ver

\* A save r that is next belongs before all of q.
Precedes(r, q, d, l) ==
    /\ d[r.pos] < r.ver /\ r.ver <= l[r.pos]
    /\ \A i \in 1..Len(q) : q[i].pos = r.pos => r.ver < q[i].ver

\* The save under way precedes those in the queue until it is stored.
SavesAscend ==
    /\ Ascends(queue["save"], disk, latest)
    /\ pc["save"] \in {"open", "use", "inside"} => Precedes(req["save"], queue["save"], disk, latest)
    /\ pc["save"] = "callback" /\ req["save"].ok => req["save"].ver <= disk[req["save"].pos]

VersionsAreBounded == \A p \in Pos : latest[p] <= MaxVersion

\* The inductive invariant of the saves, for as long as no calls race.
SInv == IInv /\ SavesAscend /\ AcknowledgedIsStored /\ VersionsAreBounded
-----------------------------------------------------------------------------
\* Evicting leaves at most as many files open as asked for.
LEMMA EvictedFit ==
    ASSUME IsFiniteSet(open), NEW n \in Nat, NEW e \in ToEvict(n)
    PROVE  /\ IsFiniteSet(open \ e)
           /\ Cardinality(open \ e) <= n
           /\ e \subseteq open
<1> DEFINE c == Cardinality(open)
<1>1. e \in SUBSET open /\ Cardinality(e) = Max({0, c - n})
  BY DEF ToEvict
<1>2. c \in Nat /\ Cardinality(e) \in Nat /\ IsFiniteSet(e)
  BY <1>1, FS_CardinalityType, FS_Subset
<1>3. IsFiniteSet(open \ e) /\ Cardinality(open \ e) = c - Cardinality(open \cap e)
  BY FS_Difference
<1>4. open \cap e = e
  BY <1>1
<1> HIDE DEF c
<1>5. \E x \in {0, c - n} : \A y \in {0, c - n} : x >= y
  BY <1>2
<1>6. Max({0, c - n}) >= c - n /\ Max({0, c - n}) \in {0, c - n}
  BY <1>5 DEF Max
<1> QED BY <1>1, <1>2, <1>3, <1>4, <1>6

\* Waking a thread moves it from its condition variable to its queue.
LEMMA NotifiedMoves ==
    ASSUME TypeOK, NEW t \in Thread
    PROVE  /\ Notified(t) \in [Thread -> {"gone", "top", "check", "wait", "open", "use", "inside", "callback"}]
           /\ \A s \in Thread :
                 /\ Notified(t)[s] \in Busy <=> pc[s] \in Busy
                 /\ Notified(t)[s] = "gone" <=> pc[s] = "gone"
                 /\ Notified(t)[s] \in Busy => Notified(t)[s] = pc[s]
BY DEF Notified, TypeOK, Busy

\* At first both threads are gone, with empty queues.
LEMMA IOInit == Init => IInv
<1> SUFFICES ASSUME Init PROVE IInv
  OBVIOUS
<1>1. \A t \in Thread : queue[t] = <<>> /\ pc[t] = "gone" /\ req[t] = None
  BY DEF Init
<1>2. <<>> \in Seq(Request)
  OBVIOUS
<1>3. queue \in [Thread -> Seq(Request)]
  BY <1>2 DEF Init
<1>4. IsFiniteSet(open) /\ Cardinality(open) = 0
  BY FS_EmptySet DEF Init
<1>5. maxOpen \in OpenLimits /\ maxOpen \in Nat
  BY OpenLimitsAssumption DEF Init
<1> DEFINE Fits == Cardinality(open) <= maxOpen
<1>8. Fits /\ 0 \in Nat
  BY <1>4, <1>5
<1> HIDE DEF Fits
<1>9. disk \in [Pos -> Nat] /\ asked \in Nat /\ stops \in Nat
  BY <1>8 DEF Init
<1>10. pc \in [Thread -> {"gone", "top", "check", "wait", "open", "use", "inside", "callback"}]
  BY DEF Init
<1>11. req \in [Thread -> Request \union {None}]
  BY DEF Init
<1>6. TypeOK
  BY <1>3, <1>8, <1>9, <1>10, <1>11 DEF Init, TypeOK, Fits
<1>7. ThreadsAgree
  BY DEF Init, ThreadsAgree, Busy
<1> QED BY <1>4, <1>6, <1>7 DEF IInv

\* Steps that start nothing, stop nothing and take no request.
LEMMA CallsKeep ==
    ASSUME IInv, Start \/ Stop \/ WakeThread \/ Join \/ Flush \/ FlushReturns
    PROVE  IInv'
<1> USE DEF IInv
<1>1. UNCHANGED <<queue, req, open, maxOpen, raced, disk, acked, latest, asked>>
  BY DEF Start, Stop, WakeThread, Join, Flush, FlushReturns, control, threads, files, clients
<1>2. CASE Start
  <2>1. TypeOK'
    BY <1>1, <1>2 DEF TypeOK, Start, clients
  <2>2. ThreadsAgree'
    BY <1>1, <1>2 DEF ThreadsAgree, Start, Busy
  <2> QED BY <1>1, <2>1, <2>2
<1>3. CASE Stop
  <2>1. stops' \in Nat /\ running' \in BOOLEAN
    <3>1. stops' = stops + 1 /\ running' = FALSE
      BY <1>3 DEF Stop
    <3>2. stops \in Nat
      BY DEF TypeOK
    <3>3. stops + 1 \in Nat
      BY <3>2
    <3> QED BY <3>1, <3>3, Zenon
  <2>2. caller' = "wake_load" /\ UNCHANGED <<pc, flusher>>
    BY <1>3 DEF Stop, threads, clients
  <2>3. TypeOK'
    BY <1>1, <2>1, <2>2 DEF TypeOK
  <2>4. ThreadsAgree'
    BY <1>1, <1>3, <2>2 DEF ThreadsAgree, Stop
  <2> QED BY <1>1, <2>3, <2>4
<1>4. CASE WakeThread
  <2>1. PICK t \in Thread : pc' = Notified(t)
    BY <1>4 DEF WakeThread, Thread
  <2>2. caller \in {"wake_load", "wake_save"} /\ caller' \in {"wake_save", "join"}
        /\ UNCHANGED <<running, stops, flusher>>
    BY <1>4 DEF WakeThread, clients
  <2>3. TypeOK'
    BY <1>1, <2>1, <2>2, NotifiedMoves DEF TypeOK
  <2>4. ThreadsAgree'
    <3>1. caller # "idle" /\ caller' # "idle" /\ ~running'
      BY <2>2 DEF ThreadsAgree
    <3>2. ASSUME NEW s \in Thread PROVE pc'[s] \in Busy <=> pc[s] \in Busy
      BY <2>1, NotifiedMoves
    <3> QED BY <1>1, <3>1, <3>2 DEF ThreadsAgree
  <2> QED BY <1>1, <2>3, <2>4
<1>5. CASE Join
  <2>1. caller' = "idle" /\ UNCHANGED <<running, stops, pc, flusher>> /\ \A t \in Thread : pc[t] = "gone"
    BY <1>5 DEF Join, threads, clients
  <2>2. TypeOK'
    BY <1>1, <2>1 DEF TypeOK
  <2>3. ThreadsAgree'
    BY <1>1, <2>1 DEF ThreadsAgree
  <2> QED BY <1>1, <2>2, <2>3
<1>6. CASE Flush \/ FlushReturns
  <2>1. flusher' \in BOOLEAN /\ UNCHANGED <<control, pc>>
    BY <1>6 DEF Flush, FlushReturns, threads
  <2>2. TypeOK'
    BY <1>1, <2>1 DEF TypeOK, control
  <2>3. ThreadsAgree'
    BY <1>1, <2>1 DEF ThreadsAgree, control
  <2> QED BY <1>1, <2>2, <2>3
<1> QED BY <1>2, <1>3, <1>4, <1>5, <1>6

\* A request is put at the end of its thread's queue.
LEMMA RequestsKeep ==
    ASSUME IInv, NEW p \in Pos, RequestLoad(p) \/ QueueSave(p)
    PROVE  IInv'
<1> USE DEF IInv
<1>1. PICK t \in Thread, r \in Request : queue' = Enqueued(t, r) /\ pc' = Notified(t)
  <2>1. CASE RequestLoad(p)
    <3>1. [pos |-> p, ver |-> 0, ok |-> FALSE] \in Request
      BY DEF Request
    <3> QED BY <2>1, <3>1 DEF RequestLoad, Thread
  <2>2. CASE QueueSave(p)
    <3>1. [pos |-> p, ver |-> latest[p] + 1, ok |-> FALSE] \in Request
      <4>1. latest[p] \in Nat
        BY DEF TypeOK
      <4> QED BY <4>1 DEF Request
    <3> QED BY <2>2, <3>1 DEF QueueSave, Thread
  <2> QED BY <2>1, <2>2
<1>2. queue' \in [Thread -> Seq(Request)]
  BY <1>1, AppendProperties DEF Enqueued, TypeOK
<1>3. UNCHANGED <<control, req, raced, files, disk, acked, flusher>>
  BY DEF RequestLoad, QueueSave
<1>4. latest' \in [Pos -> Nat] /\ asked' \in Nat
  BY DEF RequestLoad, QueueSave, TypeOK
<1>5. TypeOK'
  BY <1>1, <1>2, <1>3, <1>4, NotifiedMoves DEF TypeOK, control, files
<1>6. ThreadsAgree'
  <2>1. ASSUME NEW s \in Thread PROVE (pc'[s] \in Busy <=> pc[s] \in Busy) /\ (pc'[s] = "gone" <=> pc[s] = "gone")
    BY <1>1, NotifiedMoves
  <2> QED BY <1>3, <2>1 DEF ThreadsAgree, control
<1> QED BY <1>3, <1>5, <1>6 DEF files

\* Evicting and opening keep the table within its limit.
LEMMA FilesKeep ==
    ASSUME IInv, NEW n \in OpenLimits, SetMaxOpenRegions(n)
    PROVE  IInv'
<1> USE DEF IInv
<1>1. PICK e \in ToEvict(n) : open' = open \ e /\ Evict(e)
  BY DEF SetMaxOpenRegions
<1>2. n \in Nat
  BY OpenLimitsAssumption
<1> DEFINE Fits == Cardinality(open) <= maxOpen
<1>3. Fits' /\ IsFiniteSet(open')
  BY <1>1, <1>2, EvictedFit DEF SetMaxOpenRegions
<1>4. raced' \subseteq Thread
  BY <1>1 DEF Evict, TypeOK
<1>5. maxOpen' = n /\ UNCHANGED <<control, queue, pc, req, disk, acked, clients>>
  BY DEF SetMaxOpenRegions
<1>6. open' \subseteq Regions
  BY <1>1 DEF TypeOK
<1> HIDE DEF Fits
<1>7. TypeOK'
  BY <1>3, <1>4, <1>5, <1>6 DEF TypeOK, Fits, control, clients
<1>8. ThreadsAgree'
  BY <1>5 DEF ThreadsAgree, control
<1> QED BY <1>3, <1>7, <1>8

\* A thread takes a request, opens a file, perhaps in the place of another,
\* calls into it, and answers.
LEMMA LoopKeeps ==
    ASSUME IInv, NEW t \in Thread, Loop(t)
    PROVE  IInv'
<1> USE DEF IInv
<1>1. UNCHANGED <<control, maxOpen, clients>>
  BY DEF Loop, Top, Check, GetOrOpenRegion, Enter, Finish, Callback, files
<1>2. pc[t] # "gone"
  BY DEF Loop, Top, Check, GetOrOpenRegion, Enter, Finish, Callback
<1>3. ASSUME NEW s \in Thread, s # t PROVE pc'[s] = pc[s] /\ req'[s] = req[s]
  BY <1>3 DEF Loop, Top, Check, GetOrOpenRegion, Enter, Finish, Callback, TypeOK, Taken,
              Outcome, AnyOutcome, Reported
<1> DEFINE Fits == Cardinality(open) <= maxOpen
           Threaded == IF pc[t] \in Busy THEN req[t] \in Request ELSE req[t] = None
<1>4. Threaded
  BY DEF ThreadsAgree
<1>5. ASSUME /\ pc' \in [Thread -> {"gone", "top", "check", "wait", "open", "use", "inside", "callback"}]
             /\ req' \in [Thread -> Request \union {None}]
             /\ Threaded'
             /\ queue' \in [Thread -> Seq(Request)]
             /\ disk' \in [Pos -> Nat] /\ acked' \in [Pos -> Nat]
             /\ raced' \subseteq Thread
             /\ open' \subseteq Regions /\ Fits' /\ IsFiniteSet(open')
      PROVE  IInv'
  <2>1. TypeOK'
    BY <1>1, <1>5 DEF TypeOK, control, clients
  <2>2. caller = "idle" => running
    BY <1>2 DEF ThreadsAgree, TypeOK
  <2>3. ThreadsAgree'
    BY <1>1, <1>3, <1>5, <2>2 DEF ThreadsAgree, control
  <2> QED BY <1>5, <2>1, <2>3
<1>6. Fits /\ IsFiniteSet(open)
  BY DEF TypeOK
<1>7. CASE Top(t)
  <2>1. UNCHANGED <<queue, req, raced, open, maxOpen, disk, acked>>
    BY <1>7 DEF Top, files
  <2>2. Fits' /\ pc[t] \notin Busy /\ pc'[t] \notin Busy
    BY <1>6, <1>7, <2>1 DEF Top, TypeOK, Busy
  <2>3. pc' \in [Thread -> {"gone", "top", "check", "wait", "open", "use", "inside", "callback"}]
    BY <1>7 DEF Top, TypeOK
  <2> HIDE DEF Fits
  <2> QED BY <1>4, <1>5, <1>6, <2>1, <2>2, <2>3 DEF TypeOK
<1>8. CASE Check(t)
  <2>1. UNCHANGED <<raced, open, maxOpen, disk, acked>> /\ pc[t] = "check"
    BY <1>8 DEF Check, files
  <2>2. Fits' /\ pc[t] \notin Busy
    BY <1>6, <2>1 DEF Busy
  <2>3. queue[t] \in Seq(Request)
    BY DEF TypeOK
  <2>4. CASE queue[t] # <<>>
    <3>1. Head(queue[t]) \in Request /\ Tail(queue[t]) \in Seq(Request)
      BY <2>3, <2>4, HeadTailProperties
    <3>2. pc' = [pc EXCEPT ![t] = "open"] /\ req' = [req EXCEPT ![t] = Head(queue[t])]
          /\ queue' = [queue EXCEPT ![t] = Tail(@)]
      BY <1>8, <2>4 DEF Check, Taken
    <3>3. Threaded' /\ req' \in [Thread -> Request \union {None}]
          /\ pc' \in [Thread -> {"gone", "top", "check", "wait", "open", "use", "inside", "callback"}]
      BY <3>1, <3>2 DEF Busy, TypeOK
    <3>4. queue' \in [Thread -> Seq(Request)]
      BY <3>1, <3>2 DEF TypeOK
    <3> HIDE DEF Fits, Threaded
    <3> QED BY <1>5, <1>6, <2>1, <2>2, <3>3, <3>4 DEF TypeOK
  <2>5. CASE queue[t] = <<>>
    <3>1. UNCHANGED <<req, queue>> /\ pc' = [pc EXCEPT ![t] = IF running THEN "wait" ELSE "gone"]
      BY <1>8, <2>5 DEF Check
    <3>2. pc'[t] \notin Busy
          /\ pc' \in [Thread -> {"gone", "top", "check", "wait", "open", "use", "inside", "callback"}]
      BY <3>1 DEF Busy, TypeOK
    <3>3. Threaded'
      BY <1>4, <2>2, <3>1, <3>2
    <3> HIDE DEF Fits, Threaded
    <3> QED BY <1>5, <1>6, <2>1, <2>2, <3>1, <3>2, <3>3 DEF TypeOK
  <2> QED BY <2>4, <2>5
<1>9. CASE GetOrOpenRegion(t)
  <2>1. UNCHANGED <<queue, req, disk, acked>> /\ pc[t] = "open" /\ pc' = [pc EXCEPT ![t] = "use"]
    BY <1>9 DEF GetOrOpenRegion
  <2>2. pc' \in [Thread -> {"gone", "top", "check", "wait", "open", "use", "inside", "callback"}]
        /\ Threaded'
    BY <1>4, <2>1 DEF TypeOK, Busy
  <2>3. Fits' /\ IsFiniteSet(open') /\ open' \subseteq Regions /\ raced' \subseteq Thread
    <3>1. CASE req[t].pos.region \in open
      BY <1>6, <1>9, <3>1, <1>1 DEF GetOrOpenRegion, TypeOK
    <3>2. CASE req[t].pos.region \notin open
      <4>1. req[t] \in Request
        BY <2>1, <1>4 DEF Busy
      <4>2. req[t].pos.region \in Regions
        BY <4>1 DEF Request, Pos
      <4>3. PICK e \in ToEvict(maxOpen - 1) :
               open' = (open \ e) \union {req[t].pos.region} /\ Evict(e)
        BY <1>9, <3>2 DEF GetOrOpenRegion
      <4>4. maxOpen - 1 \in Nat
        BY OpenLimitsAssumption DEF TypeOK
      <4>5. IsFiniteSet(open \ e) /\ Cardinality(open \ e) <= maxOpen - 1
        BY <1>6, <4>4, EvictedFit
      <4>6. IsFiniteSet(open') /\ Cardinality(open') <= Cardinality(open \ e) + 1
            /\ Cardinality(open') \in Nat /\ Cardinality(open \ e) \in Nat
        <5> DEFINE kept == open \ e
        <5>1. open' = kept \union {req[t].pos.region}
          BY <4>3
        <5> HIDE DEF kept
        <5>2. IsFiniteSet(kept) /\ Cardinality(kept) \in Nat
          BY <4>5, FS_CardinalityType DEF kept
        <5>3. IsFiniteSet(open') /\ Cardinality(open') <= Cardinality(kept) + 1
              /\ Cardinality(open') \in Nat
          <6> DEFINE r == req[t].pos.region
          <6>1. open' = kept \union {r}
            BY <5>1
          <6> HIDE DEF r
          <6>2. IsFiniteSet(kept \union {r})
                /\ Cardinality(kept \union {r}) = IF r \in kept THEN Cardinality(kept) ELSE Cardinality(kept) + 1
            BY ONLY <5>2, FS_AddElement, Zenon
          <6> QED BY ONLY <5>2, <6>1, <6>2
        <5> QED BY <5>2, <5>3 DEF kept
      <4>7. maxOpen' = maxOpen
        BY <1>1
      <4>8. Fits'
        <5>1. maxOpen \in Nat
          BY OpenLimitsAssumption DEF TypeOK
        <5> QED BY <4>5, <4>6, <4>7, <5>1
      <4>9. open' \subseteq Regions /\ raced' \subseteq Thread
        BY <4>2, <4>3 DEF TypeOK, Evict
      <4> QED BY <4>6, <4>8, <4>9
    <3> QED BY <3>1, <3>2
  <2> HIDE DEF Fits, Threaded
  <2> QED BY <1>5, <2>1, <2>2, <2>3 DEF TypeOK
<1>10. CASE Enter(t)
  <2>1. UNCHANGED <<queue, req, open, maxOpen, disk, acked>> /\ pc[t] = "use" /\ pc' = [pc EXCEPT ![t] = "inside"]
    BY <1>10 DEF Enter, files
  <2>2. pc' \in [Thread -> {"gone", "top", "check", "wait", "open", "use", "inside", "callback"}]
        /\ Threaded' /\ Fits'
    BY <1>4, <1>6, <2>1 DEF TypeOK, Busy
  <2>3. raced' \subseteq Thread
    BY <1>10 DEF Enter, TypeOK
  <2> HIDE DEF Fits, Threaded
  <2> QED BY <1>5, <1>6, <2>1, <2>2, <2>3 DEF TypeOK
<1>11. CASE Finish(t)
  <2>1. UNCHANGED <<queue, open, maxOpen, acked>> /\ pc[t] = "inside" /\ pc' = [pc EXCEPT ![t] = "callback"]
        /\ raced' = raced \ {t}
    BY <1>11 DEF Finish, files
  <2>2. req[t] \in Request
    BY <1>4, <2>1 DEF Busy
  <2>3. PICK ok \in BOOLEAN : IF t \in raced THEN AnyOutcome(t, req[t].pos, ok) ELSE Outcome(t, req[t].pos, ok)
    BY <1>11 DEF Finish
  <2>4. disk' \in [Pos -> Nat] /\ \E v \in Nat : req' = Reported(t, v, ok)
    <3>1. req[t].pos \in Pos /\ req[t].ver \in Nat
      BY <2>2 DEF Request
    <3>2. CASE t \in raced
      <4>1. AnyOutcome(t, req[t].pos, ok)
        BY <2>3, <3>2
      <4>2. PICK junk \in [{q \in Pos : q.region = req[t].pos.region} -> 0..MaxVersion] :
               disk' = [q \in Pos |-> IF q.region = req[t].pos.region THEN junk[q] ELSE disk[q]]
        BY <4>1 DEF AnyOutcome
      <4>3. disk' \in [Pos -> Nat]
        BY <4>2, IOBounds DEF TypeOK
      <4>4. \E v \in 0..MaxVersion : req' = Reported(t, v, ok)
        BY <4>1 DEF AnyOutcome
      <4> QED BY <4>3, <4>4, IOBounds
    <3>3. CASE t \notin raced
      <4>1. Outcome(t, req[t].pos, ok)
        BY <2>3, <3>3
      <4>2. disk[req[t].pos] \in Nat /\ 0 \in Nat
        BY <3>1 DEF TypeOK
      <4> QED BY <3>1, <4>1, <4>2 DEF Outcome, TypeOK
    <3> QED BY <3>2, <3>3
  <2>5. PICK v \in Nat : req' = [req EXCEPT ![t] = [@ EXCEPT !.ver = v, !.ok = ok]]
    BY <2>4 DEF Reported
  <2>6. [req[t] EXCEPT !.ver = v, !.ok = ok] \in Request
    BY <2>2 DEF Request
  <2>7. req'[t] \in Request /\ req' \in [Thread -> Request \union {None}]
    BY <2>5, <2>6 DEF TypeOK
  <2>8. pc' \in [Thread -> {"gone", "top", "check", "wait", "open", "use", "inside", "callback"}]
        /\ Threaded' /\ Fits'
    BY <1>6, <2>1, <2>7 DEF TypeOK, Busy
  <2> HIDE DEF Fits, Threaded
  <2> QED BY <1>5, <1>6, <2>1, <2>4, <2>7, <2>8 DEF TypeOK
<1>12. CASE Callback(t)
  <2>1. UNCHANGED <<queue, raced, open, maxOpen, disk>> /\ pc[t] = "callback"
        /\ pc' = [pc EXCEPT ![t] = "top"] /\ req' = [req EXCEPT ![t] = None]
    BY <1>12 DEF Callback, files
  <2>2. req[t] \in Request
    BY <1>4, <2>1 DEF Busy
  <2>3. req[t].pos \in Pos /\ req[t].ver \in Nat
    BY <2>2 DEF Request
  <2>4. acked' \in [Pos -> Nat]
    BY <1>12, <2>3 DEF Callback, TypeOK
  <2>5. pc' \in [Thread -> {"gone", "top", "check", "wait", "open", "use", "inside", "callback"}]
        /\ req' \in [Thread -> Request \union {None}] /\ Threaded' /\ Fits'
    BY <1>6, <2>1 DEF TypeOK, Busy
  <2> HIDE DEF Fits, Threaded
  <2> QED BY <1>5, <1>6, <2>1, <2>4, <2>5 DEF TypeOK
<1> QED BY <1>7, <1>8, <1>9, <1>10, <1>11, <1>12 DEF Loop

\* Every step keeps the types, the table of open files within its limit, and
\* each thread's request its own.
THEOREM IONext == IInv /\ [Next]_vars => IInv'
<1> SUFFICES ASSUME IInv, [Next]_vars PROVE IInv'
  OBVIOUS
<1>1. CASE UNCHANGED vars
  BY <1>1 DEF vars, control, threads, files, clients, IInv, TypeOK, ThreadsAgree
<1>2. CASE Start \/ Stop \/ WakeThread \/ Join \/ Flush \/ FlushReturns
  BY <1>2, CallsKeep
<1>3. CASE \E p \in Pos : RequestLoad(p) \/ QueueSave(p)
  BY <1>3, RequestsKeep
<1>4. CASE \E n \in OpenLimits : SetMaxOpenRegions(n)
  BY <1>4, FilesKeep
<1>5. CASE \E t \in Thread : Loop(t)
  BY <1>5, LoopKeeps
<1> QED BY <1>1, <1>2, <1>3, <1>4, <1>5 DEF Next

\* At all times the table of open files is within its limit, however the two
\* threads and setMaxOpenRegions() open and evict, and whatever races.
THEOREM IOTypes == Spec => [](TypeOK /\ ThreadsAgree)
<1>1. IInv => TypeOK /\ ThreadsAgree
  BY DEF IInv
<1> QED BY <1>1, IOInit, IONext, PTL DEF Spec
-----------------------------------------------------------------------------
\* What a queue holds are requests.
LEMMA QueueHolds ==
    ASSUME NEW q \in Seq(Request), NEW i \in 1..Len(q)
    PROVE  q[i] \in Request /\ q[i].pos \in Pos /\ q[i].ver \in Nat
<1>1. q[i] \in Request
  BY ElementOfSeq
<1> QED BY <1>1 DEF Request

\* queueSave() puts the newest version behind all others.
LEMMA AppendAscends ==
    ASSUME NEW q \in Seq(Request), NEW d \in [Pos -> Nat], NEW l \in [Pos -> Nat],
           NEW p \in Pos, Ascends(q, d, l),
           NEW e \in Request, e.pos = p, e.ver = l[p] + 1,
           NEW m, m = [l EXCEPT ![p] = @ + 1]
    PROVE  /\ Ascends(Append(q, e), d, m)
           /\ \A r \in Request : Precedes(r, q, d, l) => Precedes(r, Append(q, e), d, m)
<1> DEFINE a == Append(q, e)
           n == Len(q)
<1>1. n \in Nat /\ Len(a) = n + 1 /\ a[n + 1] = e /\ \A i \in 1..n : a[i] = q[i]
  BY AppendProperties, LenProperties
<1>2. \A i \in 1..n : q[i] \in Request /\ q[i].pos \in Pos /\ q[i].ver \in Nat
  BY QueueHolds
<1>3. m \in [Pos -> Nat] /\ m[p] = l[p] + 1 /\ \A x \in Pos : l[x] <= m[x]
  OBVIOUS
<1>4. /\ \A x \in Pos : d[x] <= l[x]
      /\ \A i \in 1..n : d[q[i].pos] < q[i].ver /\ q[i].ver <= l[q[i].pos]
      /\ \A i, j \in 1..n : i < j /\ q[i].pos = q[j].pos => q[i].ver < q[j].ver
  BY DEF Ascends
<1> HIDE DEF a, n
<1>5. \A x \in Pos : d[x] <= m[x]
  BY <1>3, <1>4
<1>6. ASSUME NEW i \in 1..Len(a) PROVE d[a[i].pos] < a[i].ver /\ a[i].ver <= m[a[i].pos]
  <2>1. CASE i \in 1..n
    BY <1>1, <1>2, <1>3, <1>4, <2>1
  <2>2. CASE i = n + 1
    BY <1>1, <1>3, <1>4, <2>2
  <2> QED BY <1>1, <2>1, <2>2
<1>7. ASSUME NEW i \in 1..Len(a), NEW j \in 1..Len(a), i < j, a[i].pos = a[j].pos
      PROVE  a[i].ver < a[j].ver
  <2>1. i \in 1..n /\ (j \in 1..n \/ j = n + 1)
    BY <1>1, <1>7
  <2>2. CASE j \in 1..n
    BY <1>1, <1>4, <1>7, <2>1, <2>2
  <2>3. CASE j = n + 1
    <3>1. q[i].pos = p /\ q[i].ver <= l[q[i].pos] /\ a[j].ver = l[p] + 1 /\ a[i].ver = q[i].ver
      BY <1>1, <1>4, <1>7, <2>1, <2>3
    <3> QED BY <1>2, <2>1, <3>1
  <2> QED BY <2>1, <2>2, <2>3
<1>8. ASSUME NEW r \in Request, Precedes(r, q, d, l) PROVE Precedes(r, a, d, m)
  <2>1. r.pos \in Pos /\ r.ver \in Nat
    BY DEF Request
  <2>2. /\ d[r.pos] < r.ver /\ r.ver <= l[r.pos]
        /\ \A i \in 1..n : q[i].pos = r.pos => r.ver < q[i].ver
    BY <1>8 DEF Precedes, n
  <2>3. r.ver <= m[r.pos]
    BY <1>3, <2>1, <2>2
  <2>4. ASSUME NEW i \in 1..Len(a), a[i].pos = r.pos PROVE r.ver < a[i].ver
    <3>1. CASE i \in 1..n
      BY <1>1, <2>2, <2>4, <3>1
    <3>2. CASE i = n + 1
      <4>1. r.pos = p /\ a[i].ver = l[p] + 1
        BY <1>1, <2>4, <3>2
      <4> QED BY <2>1, <2>2, <4>1
    <3> QED BY <1>1, <3>1, <3>2
  <2> QED BY <2>2, <2>3, <2>4 DEF Precedes
<1>9. Ascends(a, d, m)
  BY <1>5, <1>6, <1>7 DEF Ascends
<1> QED BY <1>8, <1>9 DEF a

\* The first save precedes the others.
LEMMA HeadPrecedes ==
    ASSUME NEW q \in Seq(Request), NEW d \in [Pos -> Nat], NEW l \in [Pos -> Nat],
           Ascends(q, d, l), q # <<>>
    PROVE  Ascends(Tail(q), d, l) /\ Precedes(Head(q), Tail(q), d, l)
<1> DEFINE a == Tail(q)
           h == Head(q)
           n == Len(q)
<1>1. n \in Nat /\ n > 0 /\ Len(a) = n - 1 /\ h = q[1] /\ \A i \in 1..(n - 1) : a[i] = q[i + 1]
  BY HeadTailProperties, LenProperties, EmptySeq
<1>2. /\ \A x \in Pos : d[x] <= l[x]
      /\ \A i \in 1..n : d[q[i].pos] < q[i].ver /\ q[i].ver <= l[q[i].pos]
      /\ \A i, j \in 1..n : i < j /\ q[i].pos = q[j].pos => q[i].ver < q[j].ver
  BY DEF Ascends
<1> HIDE DEF a, h, n
<1>3. \A i \in 1..Len(a) : a[i] = q[i + 1] /\ i + 1 \in 1..n
  BY <1>1
<1>4. Ascends(a, d, l)
  <2>1. \A i \in 1..Len(a) : d[a[i].pos] < a[i].ver /\ a[i].ver <= l[a[i].pos]
    BY <1>2, <1>3
  <2>2. ASSUME NEW i \in 1..Len(a), NEW j \in 1..Len(a), i < j, a[i].pos = a[j].pos
        PROVE  a[i].ver < a[j].ver
    <3>1. i + 1 < j + 1 /\ i + 1 \in 1..n /\ j + 1 \in 1..n /\ a[i] = q[i + 1] /\ a[j] = q[j + 1]
      BY <1>1, <1>3, <2>2
    <3> QED BY <1>2, <2>2, <3>1
  <2> QED BY <1>2, <2>1, <2>2 DEF Ascends
<1>5. Precedes(h, a, d, l)
  <2>1. 1 \in 1..n
    BY <1>1
  <2>2. ASSUME NEW i \in 1..Len(a), a[i].pos = h.pos PROVE h.ver < a[i].ver
    <3>1. 1 < i + 1 /\ i + 1 \in 1..n /\ a[i] = q[i + 1]
      BY <1>1, <1>3
    <3> QED BY <1>1, <1>2, <2>1, <2>2, <3>1
  <2> QED BY <1>1, <1>2, <2>1, <2>2 DEF Precedes
<1> QED BY <1>4, <1>5 DEF a, h

\* What is stored after save r.
Stored(d, f, r) == \A p \in Pos : f[p] = IF p = r.pos THEN r.ver ELSE d[p]

\* Storing the next save keeps the order, and replaces nothing by something older.
LEMMA StoreAscends ==
    ASSUME NEW q \in Seq(Request), NEW d \in [Pos -> Nat], NEW l \in [Pos -> Nat],
           NEW r \in Request, Ascends(q, d, l), Precedes(r, q, d, l),
           NEW f, Stored(d, f, r)
    PROVE  /\ Ascends(q, f, l)
           /\ f[r.pos] = r.ver
           /\ \A p \in Pos : d[p] <= f[p]
<1> DEFINE n == Len(q)
<1>1. r.pos \in Pos /\ r.ver \in Nat
  BY DEF Request
<1>2. \A i \in 1..n : q[i] \in Request /\ q[i].pos \in Pos /\ q[i].ver \in Nat
  BY QueueHolds
<1>3. /\ \A x \in Pos : d[x] <= l[x]
      /\ \A i \in 1..n : d[q[i].pos] < q[i].ver /\ q[i].ver <= l[q[i].pos]
      /\ \A i, j \in 1..n : i < j /\ q[i].pos = q[j].pos => q[i].ver < q[j].ver
  BY DEF Ascends
<1>4. /\ d[r.pos] < r.ver /\ r.ver <= l[r.pos]
      /\ \A i \in 1..n : q[i].pos = r.pos => r.ver < q[i].ver
  BY DEF Precedes
<1> HIDE DEF n
<1>5. \A p \in Pos : f[p] = IF p = r.pos THEN r.ver ELSE d[p]
  BY DEF Stored
<1>6. \A x \in Pos : f[x] <= l[x] /\ d[x] <= f[x]
  BY <1>1, <1>3, <1>4, <1>5
<1>7. ASSUME NEW i \in 1..n PROVE f[q[i].pos] < q[i].ver
  <2>1. CASE q[i].pos = r.pos
    BY <1>1, <1>2, <1>4, <1>5, <2>1
  <2>2. CASE q[i].pos # r.pos
    BY <1>2, <1>3, <1>5, <2>2
  <2> QED BY <2>1, <2>2
<1>8. Ascends(q, f, l)
  BY <1>3, <1>6, <1>7 DEF Ascends, n
<1> QED BY <1>1, <1>5, <1>6, <1>8

\* At first nothing is stored or acknowledged.
LEMMA SavesInit == Init => SInv
<1> SUFFICES ASSUME Init PROVE SInv
  OBVIOUS
<1>1. IInv
  BY IOInit
<1>2. queue["save"] = <<>> /\ pc["save"] = "gone"
  BY DEF Init, Thread
<1>3. \A p \in Pos : disk[p] = 0 /\ latest[p] = 0 /\ acked[p] = 0
  BY DEF Init
<1>4. Ascends(<<>>, disk, latest)
  BY <1>3 DEF Ascends
<1>5. SavesAscend
  BY <1>2, <1>4 DEF SavesAscend
<1>6. AcknowledgedIsStored /\ VersionsAreBounded
  BY <1>3, IOBounds DEF AcknowledgedIsStored, VersionsAreBounded
<1> QED BY <1>1, <1>5, <1>6 DEF SInv

\* Steps that leave the saves and what is stored alone.
LEMMA SavesFrame ==
    ASSUME SInv, UNCHANGED <<queue["save"], disk, acked, latest>>,
           pc'["save"] \in {"open", "use", "inside"} =>
              pc["save"] \in {"open", "use", "inside"} /\ req'["save"] = req["save"],
           pc'["save"] = "callback" => pc["save"] = "callback" /\ req'["save"] = req["save"]
    PROVE  SavesAscend' /\ AcknowledgedIsStored' /\ VersionsAreBounded'
BY DEF SInv, SavesAscend, AcknowledgedIsStored, VersionsAreBounded, Ascends, Precedes

\* A new save is newer than all before it.
LEMMA QueueSaveKeeps ==
    ASSUME SInv, NEW p \in Pos, QueueSave(p)
    PROVE  SavesAscend' /\ AcknowledgedIsStored' /\ VersionsAreBounded'
<1> DEFINE e == [pos |-> p, ver |-> latest[p] + 1, ok |-> FALSE]
<1>1. TypeOK
  BY DEF SInv, IInv
<1>2. /\ queue["save"] \in Seq(Request) /\ disk \in [Pos -> Nat] /\ latest \in [Pos -> Nat]
      /\ acked \in [Pos -> Nat] /\ MaxVersion \in Nat
  BY <1>1, IOBounds DEF TypeOK, Thread
<1>3. latest[p] < MaxVersion
  BY DEF QueueSave
<1>4. /\ latest' = [latest EXCEPT ![p] = @ + 1]
      /\ queue'["save"] = Append(queue["save"], e)
      /\ UNCHANGED <<req, disk, acked>>
  BY <1>1 DEF QueueSave, Enqueued, TypeOK, Thread
<1>5. e \in Request /\ e.pos = p /\ e.ver = latest[p] + 1
  BY <1>2 DEF Request
<1>6. Ascends(queue["save"], disk, latest)
  BY DEF SInv, SavesAscend
<1> HIDE DEF e
<1>7. /\ Ascends(queue'["save"], disk, latest')
      /\ \A r \in Request : Precedes(r, queue["save"], disk, latest) =>
                             Precedes(r, queue'["save"], disk, latest')
  <2>1. PICK m : m = latest'
    OBVIOUS
  <2>2. m = [latest EXCEPT ![p] = @ + 1]
    BY <1>4, <2>1
  <2>3. /\ Ascends(Append(queue["save"], e), disk, m)
        /\ \A r \in Request : Precedes(r, queue["save"], disk, latest) =>
                               Precedes(r, Append(queue["save"], e), disk, m)
    BY ONLY <1>2, <1>5, <1>6, <2>2, AppendAscends
  <2> QED BY <1>4, <2>1, <2>3
<1>8. pc'["save"] \in Busy => pc'["save"] = pc["save"]
  BY <1>1, NotifiedMoves DEF QueueSave, Thread
<1>9. pc'["save"] \in {"open", "use", "inside"} => Precedes(req'["save"], queue'["save"], disk', latest')
  <2> SUFFICES ASSUME pc'["save"] \in {"open", "use", "inside"}
               PROVE  Precedes(req'["save"], queue'["save"], disk', latest')
    OBVIOUS
  <2>1. pc["save"] \in {"open", "use", "inside"} /\ pc["save"] \in Busy
    BY <1>8 DEF Busy
  <2>2. req["save"] \in Request
    BY <2>1 DEF SInv, IInv, ThreadsAgree, Thread
  <2>3. Precedes(req["save"], queue["save"], disk, latest)
    BY <2>1 DEF SInv, SavesAscend
  <2>4. Precedes(req["save"], queue'["save"], disk, latest')
    BY <1>7, <2>2, <2>3
  <2> QED BY <1>4, <2>4
<1>10. pc'["save"] = "callback" /\ req'["save"].ok => req'["save"].ver <= disk'[req'["save"].pos]
  BY <1>4, <1>8 DEF SInv, SavesAscend, Busy
<1>11. SavesAscend'
  BY <1>4, <1>7, <1>9, <1>10 DEF SavesAscend
<1>12. \A x \in Pos : latest'[x] <= MaxVersion
  BY <1>2, <1>3, <1>4 DEF SInv, VersionsAreBounded
<1> QED BY <1>4, <1>11, <1>12 DEF SInv, AcknowledgedIsStored, VersionsAreBounded

\* The oldest save goes from the queue into the hands of the thread.
LEMMA SaveTaken ==
    ASSUME SInv, Check("save")
    PROVE  SavesAscend' /\ AcknowledgedIsStored' /\ VersionsAreBounded'
<1>1. TypeOK
  BY DEF SInv, IInv
<1>2. /\ queue["save"] \in Seq(Request) /\ disk \in [Pos -> Nat] /\ latest \in [Pos -> Nat]
  BY <1>1 DEF TypeOK, Thread
<1>3. UNCHANGED <<disk, acked, latest>>
  BY DEF Check, clients
<1>4. CASE queue["save"] = <<>>
  <2>1. UNCHANGED <<req, queue>> /\ pc'["save"] \notin {"open", "use", "inside", "callback"}
    BY <1>1, <1>4 DEF Check, TypeOK, Thread
  <2> QED BY <1>3, <2>1, SavesFrame
<1>5. CASE queue["save"] # <<>>
  <2>1. /\ pc'["save"] = "open" /\ req'["save"] = Head(queue["save"])
        /\ queue'["save"] = Tail(queue["save"])
    BY <1>1, <1>5 DEF Check, Taken, TypeOK, Thread
  <2>2. Ascends(Tail(queue["save"]), disk, latest)
        /\ Precedes(Head(queue["save"]), Tail(queue["save"]), disk, latest)
    BY <1>2, <1>5, HeadPrecedes DEF SInv, SavesAscend
  <2>3. SavesAscend'
    BY <1>3, <2>1, <2>2 DEF SavesAscend
  <2> QED BY <1>3, <2>3 DEF SInv, AcknowledgedIsStored, VersionsAreBounded
<1> QED BY <1>4, <1>5

\* A save that works stores a version no older than what is stored.
LEMMA SaveFinishes ==
    ASSUME SInv, raced = {}, Finish("save")
    PROVE  SavesAscend' /\ AcknowledgedIsStored' /\ VersionsAreBounded'
<1> DEFINE q == queue["save"]
           r == req["save"]
<1>1. TypeOK
  BY DEF SInv, IInv
<1>2. /\ q \in Seq(Request) /\ disk \in [Pos -> Nat] /\ latest \in [Pos -> Nat] /\ acked \in [Pos -> Nat]
      /\ pc["save"] = "inside" /\ pc'["save"] = "callback" /\ UNCHANGED <<queue, acked, latest>>
  BY <1>1 DEF TypeOK, Thread, Finish, clients
<1>3. r \in Request
  BY <1>2 DEF SInv, IInv, ThreadsAgree, Thread, Busy
<1>4. Ascends(q, disk, latest) /\ Precedes(r, q, disk, latest)
  BY <1>2 DEF SInv, SavesAscend
<1>5. PICK ok \in BOOLEAN : Outcome("save", r.pos, ok)
  BY DEF Finish
<1>6. /\ disk' = IF ok THEN [disk EXCEPT ![r.pos] = r.ver] ELSE disk
      /\ req' = [req EXCEPT !["save"] = [@ EXCEPT !.ver = r.ver, !.ok = ok]]
  BY <1>5 DEF Outcome, Reported
<1>7. req'["save"] = [r EXCEPT !.ver = r.ver, !.ok = ok]
  BY <1>1, <1>6 DEF TypeOK, Thread
<1> HIDE DEF q, r
<1>8. req'["save"].pos = r.pos /\ req'["save"].ver = r.ver /\ req'["save"].ok = ok
  BY <1>3, <1>7 DEF Request
<1>9. CASE ok
  <2>1. /\ Ascends(q, disk', latest) /\ disk'[r.pos] = r.ver
        /\ \A p \in Pos : disk[p] <= disk'[p]
    <3>1. PICK f : f = disk'
      OBVIOUS
    <3>2. Stored(disk, f, r)
      BY <1>2, <1>6, <1>9, <3>1 DEF Stored
    <3>3. q \in Seq(Request) /\ disk \in [Pos -> Nat] /\ latest \in [Pos -> Nat]
      BY <1>2
    <3>4. Ascends(q, f, latest) /\ f[r.pos] = r.ver /\ \A p \in Pos : disk[p] <= f[p]
      BY ONLY <1>3, <1>4, <3>2, <3>3, StoreAscends
    <3> QED BY <3>1, <3>4
  <2>2. r.ver <= disk'[r.pos]
    BY <1>3, <2>1 DEF Request
  <2>3. SavesAscend'
    BY <1>2, <1>8, <2>1, <2>2 DEF SavesAscend, q
  <2>4. disk' \in [Pos -> Nat]
    BY <1>2, <1>3, <1>6, <1>9 DEF Request
  <2>5. \A p \in Pos : disk[p] >= acked[p]
    BY DEF SInv, AcknowledgedIsStored
  <2>6. \A p \in Pos : disk'[p] >= acked'[p]
    BY <1>2, <2>1, <2>4, <2>5
  <2> QED BY <1>2, <2>3, <2>6 DEF SInv, AcknowledgedIsStored, VersionsAreBounded
<1>10. CASE ~ok
  <2>1. disk' = disk
    BY <1>6, <1>10
  <2>2. SavesAscend'
    BY <1>2, <1>4, <1>8, <1>10, <2>1 DEF SavesAscend, q
  <2> QED BY <1>2, <2>1, <2>2 DEF SInv, AcknowledgedIsStored, VersionsAreBounded
<1> QED BY <1>9, <1>10

\* What is acknowledged has just been stored.
LEMMA SaveAnswered ==
    ASSUME SInv, Callback("save")
    PROVE  SavesAscend' /\ AcknowledgedIsStored' /\ VersionsAreBounded'
<1> DEFINE r == req["save"]
<1>1. TypeOK
  BY DEF SInv, IInv
<1>2. pc["save"] = "callback" /\ pc'["save"] = "top" /\ UNCHANGED <<queue, disk, latest>>
  BY <1>1 DEF TypeOK, Thread, Callback, clients
<1>3. acked' = IF r.ok THEN [acked EXCEPT ![r.pos] = r.ver] ELSE acked
  BY DEF Callback
<1>4. r \in Request
  BY <1>2 DEF SInv, IInv, ThreadsAgree, Thread, Busy
<1>5. r.ok => r.ver <= disk[r.pos]
  BY <1>2 DEF SInv, SavesAscend
<1>6. SavesAscend'
  BY <1>2 DEF SInv, SavesAscend
<1>7. acked \in [Pos -> Nat] /\ disk \in [Pos -> Nat]
  BY <1>1 DEF TypeOK
<1> HIDE DEF r
<1>8. r.pos \in Pos /\ r.ver \in Nat
  BY <1>4 DEF Request
<1>9. \A p \in Pos : disk[p] >= acked[p]
  BY DEF SInv, AcknowledgedIsStored
<1>10. \A p \in Pos : disk'[p] >= acked'[p]
  BY <1>2, <1>3, <1>5, <1>7, <1>8, <1>9
<1> QED BY <1>2, <1>6, <1>10 DEF SInv, AcknowledgedIsStored, VersionsAreBounded

\* Every step keeps the order of the saves unless a call that raced ends.
THEOREM SavesNext == SInv /\ raced = {} /\ [Next]_vars => SInv'
<1> SUFFICES ASSUME SInv, raced = {}, [Next]_vars PROVE SInv'
  OBVIOUS
<1>1. IInv'
  BY IONext DEF SInv
<1>2. SUFFICES SavesAscend' /\ AcknowledgedIsStored' /\ VersionsAreBounded'
  BY <1>1 DEF SInv
<1>3. TypeOK /\ ThreadsAgree
  BY DEF SInv, IInv
<1>4. CASE UNCHANGED vars
  <2>1. UNCHANGED <<queue, disk, acked, latest, pc, req>>
    BY <1>4 DEF vars, threads, clients
  <2> QED BY <2>1, SavesFrame
<1>5. CASE Start
  <2>1. UNCHANGED <<queue, disk, acked, latest>> /\ pc'["save"] = "top"
    BY <1>5 DEF Start, clients, Thread
  <2> QED BY <2>1, SavesFrame
<1>6. CASE Stop \/ Join \/ Flush \/ FlushReturns \/ \E n \in OpenLimits : SetMaxOpenRegions(n)
  <2>1. UNCHANGED <<queue, disk, acked, latest, pc, req>>
    BY <1>6 DEF Stop, Join, Flush, FlushReturns, SetMaxOpenRegions, threads, clients
  <2> QED BY <2>1, SavesFrame
<1>7. CASE WakeThread
  <2>1. UNCHANGED <<queue, disk, acked, latest, req>>
    BY <1>7 DEF WakeThread, clients
  <2>2. PICK t \in Thread : pc' = Notified(t)
    BY <1>7 DEF WakeThread, Thread
  <2>3. pc'["save"] \in Busy => pc'["save"] = pc["save"]
    BY <1>3, <2>2, NotifiedMoves DEF Thread
  <2> QED BY <2>1, <2>3, SavesFrame DEF Busy
<1>8. CASE \E p \in Pos : RequestLoad(p)
  <2>1. UNCHANGED <<queue["save"], disk, acked, latest, req>> /\ pc' = Notified("load")
    BY <1>3, <1>8 DEF RequestLoad, Enqueued, TypeOK, Thread
  <2>2. pc'["save"] \in Busy => pc'["save"] = pc["save"]
    BY <1>3, <2>1, NotifiedMoves DEF Thread
  <2> QED BY <2>1, <2>2, SavesFrame DEF Busy
<1>9. CASE \E p \in Pos : QueueSave(p)
  BY <1>9, QueueSaveKeeps
<1>10. CASE Loop("load")
  <2>1. pc'["save"] = pc["save"] /\ req'["save"] = req["save"] /\ UNCHANGED latest
    BY <1>3, <1>10 DEF Loop, Top, Check, GetOrOpenRegion, Enter, Finish, Callback, TypeOK, Thread,
                       Taken, Outcome, AnyOutcome, Reported, clients
  <2>2. UNCHANGED <<queue["save"], acked>>
    BY <1>3, <1>10 DEF Loop, Top, Check, GetOrOpenRegion, Enter, Finish, Callback, TypeOK, Thread
  <2>3. UNCHANGED disk
    BY <1>10 DEF Loop, Top, Check, GetOrOpenRegion, Enter, Finish, Callback, Outcome
  <2> QED BY <2>1, <2>2, <2>3, SavesFrame
<1>11. CASE Loop("save")
  <2>1. CASE Top("save")
    <3>1. UNCHANGED <<queue, req, disk, acked, latest>> /\ pc'["save"] \in {"check", "gone"}
      BY <1>3, <2>1 DEF Top, TypeOK, Thread, clients
    <3> QED BY <3>1, SavesFrame
  <2>2. CASE Check("save")
    BY <2>2, SaveTaken
  <2>3. CASE GetOrOpenRegion("save") \/ Enter("save")
    <3>1. UNCHANGED <<queue, req, disk, acked, latest>> /\ pc["save"] \in {"open", "use"}
          /\ pc'["save"] \in {"use", "inside"}
      BY <1>3, <2>3 DEF GetOrOpenRegion, Enter, TypeOK, Thread, clients
    <3> QED BY <3>1, SavesFrame
  <2>4. CASE Finish("save")
    BY <2>4, SaveFinishes
  <2>5. CASE Callback("save")
    BY <2>5, SaveAnswered
  <2> QED BY <1>11, <2>1, <2>2, <2>3, <2>4, <2>5 DEF Loop
<1> QED BY <1>4, <1>5, <1>6, <1>7, <1>8, <1>9, <1>10, <1>11 DEF Next, Thread

\* A column whose save was reported as done is stored at least as new as that,
\* for any number of columns, saves, restarts and open files, and whatever was queued, stopped, restarted and evicted since, in every run in
\* which no thread calls into a region file that the other one is using or has
\* evicted.
THEOREM AcknowledgedUnlessRaced == Spec /\ [](raced = {}) => []AcknowledgedIsStored
<1>1. SInv => AcknowledgedIsStored
  BY DEF SInv
<1> QED BY <1>1, SavesInit, SavesNext, PTL DEF Spec
-----------------------------------------------------------------------------
(* The refinement of ColumnIO.                                             *)

Saves(q) == [i \in DOMAIN q |-> [pos |-> q[i].pos, ver |-> q[i].ver]]

Loads(q) == [i \in DOMAIN q |-> q[i].pos]

SaveOf(r) == [pos |-> r.pos, ver |-> r.ver]

\* A request queued is a save or load queued.
LEMMA AppendMaps ==
    ASSUME NEW q \in Seq(Request), NEW r \in Request
    PROVE  /\ Saves(Append(q, r)) = Append(Saves(q), SaveOf(r))
           /\ Loads(Append(q, r)) = Append(Loads(q), r.pos)
<1> DEFINE a == Append(q, r)
           n == Len(q)
<1>1. /\ n \in Nat /\ DOMAIN q = 1..n /\ DOMAIN a = 1..(n + 1)
      /\ \A i \in 1..n : a[i] = q[i]
      /\ a[n + 1] = r
  BY AppendProperties, LenProperties
<1> HIDE DEF a, n
<1>2. Saves(a) = Append(Saves(q), SaveOf(r))
  <2>1. Len(Saves(q)) = n /\ Saves(q) = [i \in 1..n |-> SaveOf(q[i])]
    BY <1>1 DEF Saves, SaveOf
  <2>2. Saves(a) = [i \in 1..(n + 1) |-> SaveOf(a[i])]
    BY <1>1 DEF Saves, SaveOf
  <2>3. Append(Saves(q), SaveOf(r)) = [i \in 1..(n + 1) |-> IF i = n + 1 THEN SaveOf(r) ELSE SaveOf(q[i])]
    BY <1>1, <2>1
  <2> QED BY <1>1, <2>2, <2>3
<1>3. Loads(a) = Append(Loads(q), r.pos)
  <2>1. Len(Loads(q)) = n /\ Loads(q) = [i \in 1..n |-> q[i].pos]
    BY <1>1 DEF Loads
  <2>2. Loads(a) = [i \in 1..(n + 1) |-> a[i].pos]
    BY <1>1 DEF Loads
  <2>3. Append(Loads(q), r.pos) = [i \in 1..(n + 1) |-> IF i = n + 1 THEN r.pos ELSE q[i].pos]
    BY <1>1, <2>1
  <2> QED BY <1>1, <2>2, <2>3
<1> QED BY <1>2, <1>3 DEF a

\* The first request is the first save or load.
LEMMA TailMaps ==
    ASSUME NEW q \in Seq(Request), q # <<>>
    PROVE  /\ Saves(q) # <<>> /\ Head(Saves(q)) = SaveOf(Head(q)) /\ Tail(Saves(q)) = Saves(Tail(q))
           /\ Loads(q) # <<>> /\ Head(Loads(q)) = Head(q).pos /\ Tail(Loads(q)) = Loads(Tail(q))
<1> DEFINE a == Tail(q)
           n == Len(q)
<1>1. /\ n \in Nat /\ n > 0 /\ DOMAIN q = 1..n /\ DOMAIN a = 1..(n - 1) /\ Head(q) = q[1]
      /\ \A i \in 1..(n - 1) : a[i] = q[i + 1]
  BY HeadTailProperties, LenProperties, EmptySeq
<1> HIDE DEF a, n
<1>2. Saves(q) # <<>> /\ Head(Saves(q)) = SaveOf(Head(q)) /\ Tail(Saves(q)) = Saves(a)
  <2>1. Len(Saves(q)) = n /\ Saves(q) = [i \in 1..n |-> SaveOf(q[i])]
    BY <1>1 DEF Saves, SaveOf
  <2>2. Saves(a) = [i \in 1..(n - 1) |-> SaveOf(a[i])]
    BY <1>1 DEF Saves, SaveOf
  <2>3. Tail(Saves(q)) = [i \in 1..(n - 1) |-> SaveOf(q[i + 1])]
    BY <1>1, <2>1
  <2>4. Tail(Saves(q)) = Saves(a)
    BY <1>1, <2>2, <2>3
  <2>5. Saves(q)[1] = SaveOf(q[1])
    BY <1>1, <2>1
  <2>6. Len(Saves(q)) # 0
    BY <1>1, <2>1
  <2>7. Head(Saves(q)) = Saves(q)[1]
    OBVIOUS
  <2>8. Saves(q) # <<>>
    BY <2>6
  <2> QED BY <1>1, <2>4, <2>5, <2>7, <2>8 DEF SaveOf
<1>3. Loads(q) # <<>> /\ Head(Loads(q)) = Head(q).pos /\ Tail(Loads(q)) = Loads(a)
  <2>1. Len(Loads(q)) = n /\ Loads(q) = [i \in 1..n |-> q[i].pos]
    BY <1>1 DEF Loads
  <2>2. Loads(a) = [i \in 1..(n - 1) |-> a[i].pos]
    BY <1>1 DEF Loads
  <2>3. Tail(Loads(q)) = [i \in 1..(n - 1) |-> q[i + 1].pos]
    BY <1>1, <2>1
  <2>4. Tail(Loads(q)) = Loads(a)
    BY <1>1, <2>2, <2>3
  <2>5. Loads(q)[1] = q[1].pos
    BY <1>1, <2>1
  <2>6. Len(Loads(q)) # 0
    BY <1>1, <2>1
  <2>7. Head(Loads(q)) = Loads(q)[1]
    OBVIOUS
  <2>8. Loads(q) # <<>>
    BY <2>6
  <2> QED BY <1>1, <2>4, <2>5, <2>7, <2>8 DEF SaveOf
<1> QED BY <1>2, <1>3 DEF a

\* A request in a thread's hands stands before its queue.
LEMMA HeldIsFirst ==
    ASSUME NEW q \in Seq(Request), NEW r \in Request
    PROVE  /\ <<r>> \o q \in Seq(Request) /\ <<r>> \o q # <<>>
           /\ Head(<<r>> \o q) = r /\ Tail(<<r>> \o q) = q
           /\ \A e \in Request : <<r>> \o Append(q, e) = Append(<<r>> \o q, e)
OBVIOUS

\* A queue is its first request and the rest.
LEMMA HeadGoesFirst ==
    ASSUME NEW q \in Seq(Request), q # <<>>
    PROVE  <<Head(q)>> \o Tail(q) = q
<1> DEFINE a == Tail(q)
           n == Len(q)
           h == Head(q)
<1>1. /\ n \in Nat /\ n > 0 /\ q \in Seq(Request) /\ a \in Seq(Request) /\ Len(a) = n - 1
      /\ h = q[1] /\ h \in Request
      /\ \A i \in 1..(n - 1) : a[i] = q[i + 1]
  BY HeadTailProperties, LenProperties, EmptySeq
<1>2. Len(q) = n
  OBVIOUS
<1> HIDE DEF a, n, h
<1>3. <<h>> \o a \in Seq(Request) /\ Len(<<h>> \o a) = n
  BY <1>1
<1>4. ASSUME NEW i \in 1..n PROVE (<<h>> \o a)[i] = q[i]
  <2>1. CASE i = 1
    BY <1>1, <2>1
  <2>2. CASE i # 1
    BY <1>1, <2>2
  <2> QED BY <2>1, <2>2
<1>5. <<h>> \o a = q
  BY <1>1, <1>2, <1>3, <1>4, SeqEqual
<1> QED BY <1>5 DEF a, h

Held == {"open", "use", "inside"}

\* What a thread has to do is the request in its hands and its queue.
LEMMA ToDoType ==
    ASSUME IInv, NEW t \in Thread
    PROVE  /\ ToDo(t) \in Seq(Request)
           /\ pc[t] \in Held => ToDo(t) # <<>> /\ Head(ToDo(t)) = req[t] /\ Tail(ToDo(t)) = queue[t]
           /\ pc[t] \notin Held => ToDo(t) = queue[t]
<1>1. queue[t] \in Seq(Request)
  BY DEF IInv, TypeOK
<1>2. CASE pc[t] \in Held
  <2>1. req[t] \in Request
    BY <1>2 DEF IInv, ThreadsAgree, Held, Busy
  <2>2. ToDo(t) = <<req[t]>> \o queue[t]
    BY <1>2 DEF ToDo, Held
  <2> QED BY <1>1, <1>2, <2>1, <2>2, HeldIsFirst
<1>3. CASE pc[t] \notin Held
  <2>1. ToDo(t) = <<>> \o queue[t]
    BY <1>3 DEF ToDo, Held
  <2>2. ToDo(t) = queue[t]
    BY <1>1, <2>1, ConcatEmptySeq
  <2> QED BY <1>1, <1>3, <2>2
<1> QED BY <1>2, <1>3

\* A thread with nothing in its hands has its queue to do.
LEMMA ToDoIdle ==
    ASSUME IInv', NEW t \in Thread, pc'[t] \notin Held
    PROVE  ToDo(t)' = queue'[t]
<1>1. ToDo(t)' = <<>> \o queue'[t]
  BY DEF ToDo, Held
<1>2. queue'[t] \in Seq(Request)
  BY DEF IInv, TypeOK
<1> QED BY <1>1, <1>2, ConcatEmptySeq

\* What both threads have to do and have done, as ColumnIO sees it.
IOView(t) == <<ToDo(t), Done(t), IF Done(t) THEN req[t] ELSE None>>

\* Steps that neither add a request, nor carry one out, nor answer one.
LEMMA ViewFrame ==
    ASSUME IInv, IInv', NEW t \in Thread, queue'[t] = queue[t],
           pc'[t] \in Held <=> pc[t] \in Held,
           pc'[t] = "callback" <=> pc[t] = "callback",
           pc'[t] \in Busy => req'[t] = req[t]
    PROVE  IOView(t)' = IOView(t)
<1>1. Done(t)' = Done(t)
  BY DEF Done
<1>2. (IF Done(t) THEN req[t] ELSE None)' = (IF Done(t) THEN req[t] ELSE None)
  BY <1>1 DEF Done, Busy
<1>3. ToDo(t)' = ToDo(t)
  BY DEF ToDo, Held, Busy
<1> QED BY <1>1, <1>2, <1>3 DEF IOView

\* The steps of the threads and their callers, as ColumnIO sees them.
LEMMA ViewSteps ==
    ASSUME IInv, IInv', raced = {}, [Next]_vars
    PROVE  \/ UNCHANGED <<IOView("load"), IOView("save"), disk>>
           \/ \E p \in Pos :
                 /\ latest[p] < MaxVersion
                 /\ ToDo("save")' = Append(ToDo("save"), [pos |-> p, ver |-> latest[p] + 1, ok |-> FALSE])
                 /\ Done("save")' = Done("save") /\ req' = req
                 /\ UNCHANGED <<IOView("load"), disk>>
           \/ \E p \in Pos :
                 /\ ToDo("load")' = Append(ToDo("load"), [pos |-> p, ver |-> 0, ok |-> FALSE])
                 /\ Done("load")' = Done("load") /\ req' = req
                 /\ UNCHANGED <<IOView("save"), disk>>
           \/ \E t \in Thread, ok \in BOOLEAN :
                 /\ ToDo(t) # <<>> /\ ToDo(t)' = Tail(ToDo(t))
                 /\ ~Done(t) /\ Done(t)'
                 /\ Head(ToDo(t)) = req[t] /\ req[t] \in Request /\ Outcome(t, req[t].pos, ok)
                 /\ UNCHANGED IOView(Other(t))
           \/ \E t \in Thread :
                 /\ Done(t) /\ ~Done(t)' /\ ToDo(t)' = ToDo(t)
                 /\ UNCHANGED <<IOView(Other(t)), disk>>
<1>1. TypeOK /\ ThreadsAgree
  BY DEF IInv
<1>2. ASSUME UNCHANGED <<queue, disk, req>>,
             ASSUME NEW t \in Thread
             PROVE  /\ pc'[t] \in Held <=> pc[t] \in Held
                    /\ pc'[t] = "callback" <=> pc[t] = "callback"
      PROVE  UNCHANGED <<IOView("load"), IOView("save"), disk>>
  BY <1>2, ViewFrame DEF Thread
<1>3. CASE UNCHANGED vars
  BY <1>2, <1>3 DEF vars, threads
<1>4. CASE Start
  <2>1. \A t \in Thread : pc[t] = "gone" /\ pc'[t] = "top"
    BY <1>1, <1>4 DEF Start, ThreadsAgree
  <2> QED BY <1>2, <1>4, <2>1 DEF Start, Held
<1>5. CASE Stop \/ Join \/ Flush \/ FlushReturns \/ \E n \in OpenLimits : SetMaxOpenRegions(n)
  BY <1>2, <1>5 DEF Stop, Join, Flush, FlushReturns, SetMaxOpenRegions, threads
<1>6. CASE WakeThread
  <2>1. PICK t \in Thread : pc' = Notified(t)
    BY <1>6 DEF WakeThread, Thread
  <2>2. \A s \in Thread : (pc'[s] \in Busy <=> pc[s] \in Busy) /\ (pc'[s] \in Busy => pc'[s] = pc[s])
    BY <1>1, <2>1, NotifiedMoves
  <2> QED BY <1>2, <1>6, <2>2 DEF WakeThread, Held, Busy
<1>7. ASSUME NEW t \in Thread, NEW r \in Request, queue' = Enqueued(t, r), pc' = Notified(t), req' = req
      PROVE  /\ ToDo(t)' = Append(ToDo(t), r) /\ Done(t)' = Done(t)
             /\ UNCHANGED IOView(Other(t))
  <2>1. \A s \in Thread : (pc'[s] \in Busy <=> pc[s] \in Busy) /\ (pc'[s] \in Busy => pc'[s] = pc[s])
    BY <1>1, <1>7, NotifiedMoves
  <2>2. queue[t] \in Seq(Request) /\ queue'[t] = Append(queue[t], r)
        /\ \A s \in Thread : s # t => queue'[s] = queue[s]
    BY <1>1, <1>7 DEF Enqueued, TypeOK
  <2>3. Done(t)' = Done(t)
    BY <2>1 DEF Done, Busy
  <2>4. ToDo(t)' = Append(ToDo(t), r)
    <3>1. CASE pc[t] \in Held
      <4>1. req[t] \in Request
        BY <1>1, <3>1 DEF ThreadsAgree, Held, Busy
      <4>2. ToDo(t)' = <<req[t]>> \o Append(queue[t], r)
        BY <1>7, <2>1, <2>2, <3>1 DEF ToDo, Held, Busy
      <4>3. ToDo(t) = <<req[t]>> \o queue[t]
        BY <3>1 DEF ToDo, Held
      <4> QED BY <2>2, <4>1, <4>2, <4>3, HeldIsFirst
    <3>2. CASE pc[t] \notin Held
      <4>1. pc'[t] \notin Held
        BY <2>1, <3>2 DEF Held, Busy
      <4>2. ToDo(t)' = queue'[t]
        BY <4>1, ToDoIdle
      <4>3. ToDo(t) = queue[t]
        BY <3>2, ToDoType
      <4> QED BY <2>2, <4>2, <4>3
    <3> QED BY <3>1, <3>2
  <2>5. Other(t) \in Thread /\ Other(t) # t
    BY DEF Other, Thread
  <2>6. UNCHANGED IOView(Other(t))
    BY <1>7, <2>1, <2>2, <2>5, ViewFrame DEF Held, Busy
  <2> QED BY <2>3, <2>4, <2>6
<1>8. CASE \E p \in Pos : RequestLoad(p)
  <2>1. PICK p \in Pos : RequestLoad(p)
    BY <1>8
  <2>2. [pos |-> p, ver |-> 0, ok |-> FALSE] \in Request
    BY DEF Request
  <2> QED BY <1>7, <2>1, <2>2 DEF RequestLoad, Thread, Other
<1>9. CASE \E p \in Pos : QueueSave(p)
  <2>1. PICK p \in Pos : QueueSave(p)
    BY <1>9
  <2>2. latest[p] \in Nat /\ latest[p] < MaxVersion
    BY <1>1, <2>1 DEF QueueSave, TypeOK
  <2>3. [pos |-> p, ver |-> latest[p] + 1, ok |-> FALSE] \in Request
    BY <2>2 DEF Request
  <2> QED BY <1>7, <2>1, <2>2, <2>3 DEF QueueSave, Thread, Other
<1>10. ASSUME NEW t \in Thread, Loop(t)
       PROVE  /\ Other(t) \in Thread /\ pc'[Other(t)] = pc[Other(t)]
              /\ req'[Other(t)] = req[Other(t)] /\ queue'[Other(t)] = queue[Other(t)]
              /\ UNCHANGED IOView(Other(t))
  <2>1. Other(t) \in Thread /\ Other(t) # t
    BY DEF Other, Thread
  <2>2. /\ pc'[Other(t)] = pc[Other(t)] /\ req'[Other(t)] = req[Other(t)]
        /\ queue'[Other(t)] = queue[Other(t)]
    BY <1>1, <1>10, <2>1 DEF Loop, Top, Check, GetOrOpenRegion, Enter, Finish, Callback, TypeOK, Taken,
                             Outcome, AnyOutcome, Reported
  <2> QED BY <2>1, <2>2, ViewFrame
<1>11. ASSUME NEW t \in Thread, UNCHANGED <<IOView(t), disk>>, UNCHANGED IOView(Other(t))
       PROVE  UNCHANGED <<IOView("load"), IOView("save"), disk>>
  BY <1>11 DEF Thread, Other
<1>12. ASSUME NEW t \in Thread, Top(t) \/ GetOrOpenRegion(t) \/ Enter(t)
       PROVE  UNCHANGED <<IOView("load"), IOView("save"), disk>>
  <2>1. /\ pc'[t] \in Held <=> pc[t] \in Held
        /\ pc'[t] # "callback" /\ pc[t] # "callback"
    BY <1>1, <1>12 DEF Top, GetOrOpenRegion, Enter, TypeOK, Held
  <2>2. UNCHANGED <<queue, req, disk>>
    BY <1>12 DEF Top, GetOrOpenRegion, Enter
  <2>3. UNCHANGED IOView(t)
    BY <2>1, <2>2, ViewFrame
  <2>4. Loop(t)
    BY <1>12 DEF Loop
  <2> QED BY <1>10, <1>11, <2>2, <2>3, <2>4
<1>13. ASSUME NEW t \in Thread, Check(t)
       PROVE  UNCHANGED <<IOView("load"), IOView("save"), disk>>
  <2>1. queue[t] \in Seq(Request) /\ pc[t] = "check" /\ UNCHANGED disk
    BY <1>1, <1>13 DEF TypeOK, Check
  <2>2. ToDo(t) = queue[t] /\ ~Done(t)
    BY <2>1, ToDoType DEF Held, Done
  <2>3. ToDo(t)' = queue[t] /\ ~Done(t)'
    <3>1. CASE queue[t] = <<>>
      <4>1. pc'[t] \notin Held /\ pc'[t] # "callback" /\ queue'[t] = queue[t]
        BY <1>1, <1>13, <3>1 DEF Check, TypeOK, Held
      <4>2. ToDo(t)' = queue'[t]
        BY <4>1, ToDoIdle
      <4> QED BY <4>1, <4>2 DEF Done
    <3>2. CASE queue[t] # <<>>
      <4>1. pc'[t] = "open" /\ req'[t] = Head(queue[t]) /\ queue'[t] = Tail(queue[t])
        BY <1>1, <1>13, <3>2 DEF Check, Taken, TypeOK
      <4>2. ToDo(t)' = <<Head(queue[t])>> \o Tail(queue[t])
        BY <4>1 DEF ToDo
      <4>3. ToDo(t)' = queue[t]
        BY <2>1, <3>2, <4>2, HeadGoesFirst
      <4> QED BY <4>1, <4>3 DEF Done
    <3> QED BY <3>1, <3>2
  <2>4. UNCHANGED IOView(t)
    BY <2>2, <2>3 DEF IOView, Done
  <2>5. Loop(t)
    BY <1>13 DEF Loop
  <2> QED BY <1>10, <1>11, <2>1, <2>4, <2>5
<1>14. ASSUME NEW t \in Thread, Finish(t)
       PROVE  \E ok \in BOOLEAN :
                 /\ ToDo(t) # <<>> /\ ToDo(t)' = Tail(ToDo(t))
                 /\ ~Done(t) /\ Done(t)'
                 /\ Head(ToDo(t)) = req[t] /\ req[t] \in Request /\ Outcome(t, req[t].pos, ok)
                 /\ UNCHANGED IOView(Other(t))
  <2>1. pc[t] = "inside" /\ pc'[t] = "callback" /\ queue' = queue
    BY <1>1, <1>14 DEF Finish, TypeOK
  <2>2. PICK ok \in BOOLEAN : Outcome(t, req[t].pos, ok)
    BY <1>14 DEF Finish
  <2>3. ToDo(t) # <<>> /\ Head(ToDo(t)) = req[t] /\ Tail(ToDo(t)) = queue[t]
    BY <2>1, ToDoType DEF Held
  <2>4. pc'[t] \notin Held
    BY <2>1 DEF Held
  <2>5. ToDo(t)' = queue'[t]
    BY <2>4, ToDoIdle
  <2>6. req[t] \in Request
    BY <1>1, <2>1 DEF ThreadsAgree, Busy
  <2>7. UNCHANGED IOView(Other(t))
    BY <1>10, <1>14 DEF Loop
  <2> QED BY <2>1, <2>2, <2>3, <2>5, <2>6, <2>7 DEF Done
<1>15. ASSUME NEW t \in Thread, Callback(t)
       PROVE  /\ Done(t) /\ ~Done(t)' /\ ToDo(t)' = ToDo(t)
              /\ UNCHANGED <<IOView(Other(t)), disk>>
  <2>1. pc[t] = "callback" /\ pc'[t] = "top" /\ UNCHANGED <<queue, disk>>
    BY <1>1, <1>15 DEF Callback, TypeOK
  <2>2. pc[t] \notin Held /\ pc'[t] \notin Held
    BY <2>1 DEF Held
  <2>3. ToDo(t) = queue[t]
    BY <2>2, ToDoType
  <2>4. ToDo(t)' = queue'[t]
    BY <2>2, ToDoIdle
  <2>5. UNCHANGED IOView(Other(t))
    BY <1>10, <1>15 DEF Loop
  <2> QED BY <2>1, <2>3, <2>4, <2>5 DEF Done
<1> QED BY <1>3, <1>4, <1>5, <1>6, <1>8, <1>9, <1>12, <1>13, <1>14, <1>15 DEF Next, Loop

\* What ColumnIO calls the answer of a save and of a load.
SaveAnswer(done, r) == IF done THEN [pos |-> r.pos, ok |-> r.ok] ELSE None

LoadAnswer(done, r) == IF done THEN [pos |-> r.pos, ver |-> r.ver] ELSE None

\* Every step is one of ColumnIO's or changes nothing it can see.
LEMMA IOSteps ==
    ASSUME SInv, SInv', raced = {}, [Next]_vars
    PROVE  [IO!Next]_(IO!vars)
<1> DEFINE S == Saves(ToDo("save"))
           D == SaveAnswer(Done("save"), req["save"])
           L == Loads(ToDo("load"))
           E == LoadAnswer(Done("load"), req["load"])
<1>1. IInv /\ IInv' /\ TypeOK
  BY DEF SInv, IInv
<1>2. "save" \in Thread /\ "load" \in Thread
  BY DEF Thread
<1>3. UNCHANGED IOView("save") => S' = S /\ D' = D
  BY DEF IOView, SaveAnswer, Done
<1>4. UNCHANGED IOView("load") => L' = L /\ E' = E
  BY DEF IOView, LoadAnswer, Done
<1>5. CASE UNCHANGED <<IOView("load"), IOView("save"), disk>>
  <2>1. S' = S /\ D' = D /\ L' = L /\ E' = E /\ disk' = disk
    BY <1>3, <1>4, <1>5
  <2> QED BY <2>1 DEF IO!vars, Saves, Loads, SaveAnswer, LoadAnswer
<1>6. ASSUME NEW p \in Pos, latest[p] < MaxVersion,
             ToDo("save")' = Append(ToDo("save"), [pos |-> p, ver |-> latest[p] + 1, ok |-> FALSE]),
             Done("save")' = Done("save"), req' = req,
             UNCHANGED <<IOView("load"), disk>>
      PROVE  IO!QueueSave
  <2>1. latest[p] \in Nat /\ MaxVersion \in Nat
    BY <1>1, IOBounds DEF TypeOK
  <2>2. latest[p] + 1 \in 0..MaxVersion
    BY <1>6, <2>1
  <2>3. PICK v \in 0..MaxVersion : v = latest[p] + 1
    BY <2>2
  <2>4. PICK r : r = [pos |-> p, ver |-> v, ok |-> FALSE]
    OBVIOUS
  <2>5. r \in Request /\ SaveOf(r) = [pos |-> p, ver |-> v]
    BY <2>1, <2>3, <2>4 DEF Request, SaveOf
  <2>6. PICK q \in Seq(Request) : q = ToDo("save")
    BY <1>1, <1>2, ToDoType
  <2>7. S' = Append(S, [pos |-> p, ver |-> v])
    BY <1>6, <2>3, <2>4, <2>5, <2>6, AppendMaps
  <2>8. D' = D /\ L' = L /\ E' = E /\ disk' = disk
    BY <1>4, <1>6
  <2> QED BY <2>7, <2>8 DEF IO!QueueSave, Saves, Loads, SaveAnswer, LoadAnswer
<1>7. ASSUME NEW p \in Pos,
             ToDo("load")' = Append(ToDo("load"), [pos |-> p, ver |-> 0, ok |-> FALSE]),
             Done("load")' = Done("load"), req' = req,
             UNCHANGED <<IOView("save"), disk>>
      PROVE  IO!QueueLoad
  <2>1. PICK r : r = [pos |-> p, ver |-> 0, ok |-> FALSE]
    OBVIOUS
  <2>2. r \in Request /\ r.pos = p
    BY <2>1 DEF Request
  <2>3. PICK q \in Seq(Request) : q = ToDo("load")
    BY <1>1, <1>2, ToDoType
  <2>4. L' = Append(L, p)
    BY <1>7, <2>1, <2>2, <2>3, AppendMaps
  <2>5. S' = S /\ D' = D /\ E' = E /\ disk' = disk
    BY <1>3, <1>7
  <2> QED BY <2>4, <2>5 DEF IO!QueueLoad, Saves, Loads, SaveAnswer, LoadAnswer
<1>8. ASSUME NEW t \in Thread, NEW ok \in BOOLEAN,
             ToDo(t) # <<>>, ToDo(t)' = Tail(ToDo(t)), ~Done(t), Done(t)',
             Head(ToDo(t)) = req[t], req[t] \in Request, Outcome(t, req[t].pos, ok),
             UNCHANGED IOView(Other(t))
      PROVE  IO!Fetch \/ \E b \in BOOLEAN : IO!Store(b)
  <2>1. PICK r \in Request : r = req[t]
    BY <1>8
  <2>2. PICK q \in Seq(Request) : q = ToDo(t)
    BY <1>1, ToDoType
  <2>3. q # <<>> /\ Head(q) = r
    BY <1>8, <2>1, <2>2
  <2>4. r.pos \in Pos /\ r.ver \in Nat
    BY DEF Request
  <2>5. CASE t = "save"
    <3>1. disk' = (IF ok THEN [disk EXCEPT ![r.pos] = r.ver] ELSE disk)
          /\ req' = [req EXCEPT !["save"] = [@ EXCEPT !.ver = r.ver, !.ok = ok]]
      BY <1>8, <2>1, <2>5 DEF Outcome, Reported
    <3>2. req'["save"] = [r EXCEPT !.ver = r.ver, !.ok = ok]
      BY <1>1, <1>2, <2>1, <2>5, <3>1 DEF TypeOK
    <3>3. req'["save"].pos = r.pos /\ req'["save"].ok = ok
      BY <3>2 DEF Request
    <3>4. S # <<>> /\ Head(S) = SaveOf(r) /\ S' = Tail(S)
      BY <1>8, <2>2, <2>3, <2>5, TailMaps
    <3>5. D = None /\ D' = [pos |-> r.pos, ok |-> ok]
      BY <1>8, <2>5, <3>3 DEF SaveAnswer
    <3>6. Head(S).pos = r.pos /\ Head(S).ver = r.ver
      BY <3>4 DEF SaveOf
    <3>7. L' = L /\ E' = E
      BY <1>4, <1>8, <2>5 DEF Other
    <3>8. IO!Store(ok)
      <4> HIDE DEF S, D, L, E
      <4>1. /\ S # <<>> /\ D = None
            /\ S' = Tail(S)
            /\ D' = [pos |-> Head(S).pos, ok |-> ok]
            /\ disk' = IF ok THEN [disk EXCEPT ![Head(S).pos] = Head(S).ver] ELSE disk
            /\ L' = L /\ E' = E
        BY <3>1, <3>4, <3>5, <3>6, <3>7
      <4> QED BY <4>1 DEF IO!Store, S, D, L, E, Saves, Loads, SaveAnswer, LoadAnswer
    <3> QED BY <3>8
  <2>6. CASE t = "load"
    <3>1. PICK v \in {0, disk[r.pos]} : req' = [req EXCEPT !["load"] = [@ EXCEPT !.ver = v, !.ok = ok]]
      BY <1>8, <2>1, <2>6 DEF Outcome, Reported
    <3>2. disk' = disk
      BY <1>8, <2>6 DEF Outcome
    <3>3. req'["load"] = [r EXCEPT !.ver = v, !.ok = ok]
      BY <1>1, <1>2, <2>1, <2>6, <3>1 DEF TypeOK
    <3>4. req'["load"].pos = r.pos /\ req'["load"].ver = v
      BY <3>3 DEF Request
    <3>5. L # <<>> /\ Head(L) = r.pos /\ L' = Tail(L)
      BY <1>8, <2>2, <2>3, <2>6, TailMaps
    <3>6. E = None /\ E' = [pos |-> r.pos, ver |-> v]
      BY <1>8, <2>6, <3>4 DEF LoadAnswer
    <3>7. S' = S /\ D' = D
      BY <1>3, <1>8, <2>6 DEF Other
    <3>8. IO!Fetch
      <4> HIDE DEF S, D, L, E
      <4>1. /\ L # <<>> /\ E = None
            /\ L' = Tail(L)
            /\ \E w \in {0, disk[Head(L)]} : E' = [pos |-> Head(L), ver |-> w]
            /\ S' = S /\ D' = D /\ disk' = disk
        BY <3>2, <3>5, <3>6, <3>7
      <4> QED BY <4>1 DEF IO!Fetch, S, D, L, E, Saves, Loads, SaveAnswer, LoadAnswer
    <3> QED BY <3>8
  <2> QED BY <2>5, <2>6 DEF Thread
<1>9. ASSUME NEW t \in Thread, Done(t), ~Done(t)', ToDo(t)' = ToDo(t),
             UNCHANGED <<IOView(Other(t)), disk>>
      PROVE  IO!AnswerSave \/ IO!AnswerLoad
  <2>1. req[t] \in Request
    BY <1>1, <1>9 DEF Done, IInv, ThreadsAgree, Busy
  <2>2. CASE t = "save"
    <3>1. [pos |-> req["save"].pos, ok |-> req["save"].ok] \in [pos : Pos, ok : BOOLEAN]
      BY <2>1, <2>2 DEF Request
    <3>2. D # None /\ D' = None
      <4>1. D = [pos |-> req["save"].pos, ok |-> req["save"].ok] /\ D' = None
        BY <1>9, <2>2 DEF SaveAnswer
      <4> QED BY ONLY <3>1, <4>1, NoneAssumption
    <3>3. S' = S /\ L' = L /\ E' = E /\ disk' = disk
      BY <1>4, <1>9, <2>2 DEF Other
    <3> QED BY <3>2, <3>3 DEF IO!AnswerSave, Saves, Loads, SaveAnswer, LoadAnswer
  <2>3. CASE t = "load"
    <3>1. [pos |-> req["load"].pos, ver |-> req["load"].ver] \in [pos : Pos, ver : Nat]
      BY <2>1, <2>3 DEF Request
    <3>2. E # None /\ E' = None
      <4>1. E = [pos |-> req["load"].pos, ver |-> req["load"].ver] /\ E' = None
        BY <1>9, <2>3 DEF LoadAnswer
      <4> QED BY ONLY <3>1, <4>1, NoneAssumption
    <3>3. L' = L /\ S' = S /\ D' = D /\ disk' = disk
      BY <1>3, <1>9, <2>3 DEF Other
    <3> QED BY <3>2, <3>3 DEF IO!AnswerLoad, Saves, Loads, SaveAnswer, LoadAnswer
  <2> QED BY <2>2, <2>3 DEF Thread
<1> HIDE DEF S, D, L, E
<1> QED BY <1>1, <1>5, <1>6, <1>7, <1>8, <1>9, ViewSteps DEF IO!Next

\* Order, at most once and no loss: as long as no calls race, the two threads,
\* with their queues, wake-ups, stops, restarts and open files, are the two
\* queues of ColumnIO, of any length and over any columns.
THEOREM ImplementsUnlessRaced == Spec /\ [](raced = {}) => ImplementsIO
<1>1. Init => IO!Init
  <2> SUFFICES ASSUME Init PROVE IO!Init
    OBVIOUS
  <2>1. IInv
    BY IOInit
  <2>2. \A t \in Thread : queue[t] = <<>> /\ pc[t] = "gone"
    BY DEF Init
  <2>3. \A t \in Thread : ToDo(t) = <<>> /\ ~Done(t)
    BY <2>1, <2>2, ToDoType DEF Held, Done
  <2>4. Saves(<<>>) = <<>> /\ Loads(<<>>) = <<>>
    BY DEF Saves, Loads
  <2>5. Saves(ToDo("save")) = <<>> /\ Loads(ToDo("load")) = <<>> /\ ~Done("save") /\ ~Done("load")
    BY <2>3, <2>4 DEF Thread
  <2>6. disk = [p \in Pos |-> 0]
    BY DEF Init
  <2> QED BY <2>5, <2>6 DEF IO!Init, Saves, Loads
<1>2. SInv /\ SInv' /\ raced = {} /\ [Next]_vars => [IO!Next]_(IO!vars)
  BY IOSteps
<1> QED BY <1>1, <1>2, SavesInit, SavesNext, PTL DEF Spec, ImplementsIO, IO!Spec
=============================================================================
