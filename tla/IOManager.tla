------------------------------ MODULE IOManager ------------------------------
(***************************************************************************)
(* The two threads of IOManager (io_manager.cpp), their queues, start(),   *)
(* stop(), flush() and the table of open region files.                     *)
(*                                                                         *)
(* The load thread and the save thread run the same loop on queues of      *)
(* their own, so every step is written once for a thread t.  pc[t] is      *)
(*   "gone"      not started, or returned                                  *)
(*   "top"       at while (running_)                                       *)
(*   "check"     holds the queue's mutex, about to test the predicate      *)
(*   "wait"      in the condition variable                                 *)
(*   "open"      has taken a request, about to call getOrOpenRegion()      *)
(*   "use"       has a pointer to a region file, about to call it          *)
(*   "inside"    in loadColumn() or saveColumnRaw()                        *)
(*   "callback"  about to run the request's callback                       *)
(* A column is a record of its region and its slot there; contents are     *)
(* versions, 0 if never stored, and every save makes the next one.         *)
(*                                                                         *)
(* Nothing keeps the two threads from using one region file at a time, nor *)
(* a thread from evicting the file the other one uses.  Hazards says which *)
(* of these the schedule lets happen ("overlap", "evict_in_use"); then the *)
(* region's columns may end up and read as anything.                       *)
(***************************************************************************)
EXTENDS Integers, Sequences, FiniteSets, FiniteSetsExt, SequencesExt

CONSTANTS Regions, Slots, None, OpenLimits, Hazards, MaxVersion, MaxLoads, MaxStops

\* setMaxOpenRegions(0) would make the next getOrOpenRegion() loop for ever.
ASSUME OpenLimitsAssumption == OpenLimits \subseteq Nat \ {0}
ASSUME IOBounds == MaxVersion \in Nat /\ MaxLoads \in Nat /\ MaxStops \in Nat

Thread == {"load", "save"}

Pos == [region : Regions, slot : Slots]

VARIABLES
    running,  \* running_
    caller,   \* where the thread that calls start() and stop() is
    flusher,  \* whether a thread is in flush()
    queue,    \* loadQueue_ and saveQueue_
    pc, req,  \* where each thread is, and the request it works on
    open,     \* the keys of regionFiles_
    maxOpen,  \* maxOpenRegions_
    raced,    \* threads whose call into a region file can do anything
    disk,     \* column -> version stored
    latest,   \* column -> newest version handed to queueSave()
    acked,    \* column -> newest version whose callback reported success
    asked, stops  \* how many loads were asked for and how often stop() was called

control == <<running, caller, stops>>
threads == <<pc, req, raced>>
files   == <<open, maxOpen>>
clients == <<latest, asked, flusher>>
vars    == <<control, queue, threads, files, disk, acked, clients>>

Request == [pos : Pos, ver : Nat, ok : BOOLEAN]

ASSUME NoneAssumption ==
    None \notin Request \union [pos : Pos, ok : BOOLEAN] \union [pos : Pos, ver : Nat]

Other(t) == IF t = "load" THEN "save" ELSE "load"

RegionInUse(t) == IF pc[t] \in {"use", "inside"} THEN req[t].pos.region ELSE None

Init ==
    /\ running = FALSE /\ caller = "idle" /\ flusher = FALSE /\ stops = 0
    /\ queue = [t \in Thread |-> <<>>]
    /\ pc = [t \in Thread |-> "gone"]
    /\ req = [t \in Thread |-> None]
    /\ open = {} /\ maxOpen \in OpenLimits
    /\ raced = {}
    /\ disk = [p \in Pos |-> 0]
    /\ latest = disk /\ acked = disk
    /\ asked = 0
----------------------------------------------------------------------------
(* Calls.                                                                  *)

Start ==
    /\ caller = "idle" /\ ~running
    /\ running' = TRUE
    /\ pc' = [t \in Thread |-> "top"]
    /\ UNCHANGED <<caller, stops, queue, req, raced, files, disk, acked, clients>>

\* stop(): clears the flag, then wakes each thread under its queue's mutex,
\* then joins both.
Stop ==
    /\ caller = "idle" /\ running
    /\ stops < MaxStops
    /\ stops' = stops + 1
    /\ running' = FALSE
    /\ caller' = "wake_load"
    /\ UNCHANGED <<queue, threads, files, disk, acked, clients>>

\* Mutant: the condition variable is not notified.
Notified_Not(t) == pc

\* notify_one() and notify_all(): one thread waits on each condition variable.
Notified(t) == IF pc[t] = "wait" THEN [pc EXCEPT ![t] = "check"] ELSE pc

WakeThread ==
    /\ \/ caller = "wake_load" /\ pc' = Notified("load") /\ caller' = "wake_save"
       \/ caller = "wake_save" /\ pc' = Notified("save") /\ caller' = "join"
    /\ UNCHANGED <<running, stops, queue, req, raced, files, disk, acked, clients>>

Join ==
    /\ caller = "join"
    /\ \A t \in Thread : pc[t] = "gone"
    /\ caller' = "idle"
    /\ UNCHANGED <<running, stops, queue, threads, files, disk, acked, clients>>

Enqueued(t, r) == [queue EXCEPT ![t] = Append(@, r)]

RequestLoad(p) ==
    /\ asked < MaxLoads
    /\ asked' = asked + 1
    /\ queue' = Enqueued("load", [pos |-> p, ver |-> 0, ok |-> FALSE])
    /\ pc' = Notified("load")
    /\ UNCHANGED <<control, req, raced, files, disk, acked, latest, flusher>>

QueueSave(p) ==
    /\ \A q \in Pos : latest[q] < MaxVersion
    /\ latest' = [latest EXCEPT ![p] = @ + 1]
    /\ queue' = Enqueued("save", [pos |-> p, ver |-> latest[p] + 1, ok |-> FALSE])
    /\ pc' = Notified("save")
    /\ UNCHANGED <<control, req, raced, files, disk, acked, asked, flusher>>

\* flush() polls the save queue until it is empty or the threads are stopped.
Flush ==
    /\ ~flusher /\ flusher' = TRUE
    /\ UNCHANGED <<control, queue, threads, files, disk, acked, latest, asked>>

FlushReturns ==
    /\ flusher
    /\ queue["save"] = <<>> \/ ~running
    /\ flusher' = FALSE
    /\ UNCHANGED <<control, queue, threads, files, disk, acked, latest, asked>>

\* The regions of evicted are closed; a thread that has a pointer to one of
\* them keeps it.
Evict(evicted) ==
    LET victims == {t \in Thread : RegionInUse(t) \in evicted} IN
    /\ victims # {} => "evict_in_use" \in Hazards
    /\ raced' = raced \union victims

\* evictOldestRegion() drops the first of an unordered map: any of them.
ToEvict(limit) ==
    {e \in SUBSET open : Cardinality(e) = Max({0, Cardinality(open) - limit})}

SetMaxOpenRegions(n) ==
    /\ n # maxOpen
    /\ maxOpen' = n
    /\ \E evicted \in ToEvict(n) : open' = open \ evicted /\ Evict(evicted)
    /\ UNCHANGED <<control, queue, pc, req, disk, acked, clients>>
----------------------------------------------------------------------------
(* The loop of a thread.                                                   *)

Top(t) ==
    /\ pc[t] = "top"
    /\ pc' = [pc EXCEPT ![t] = IF running THEN "check" ELSE "gone"]
    /\ UNCHANGED <<control, queue, req, raced, files, disk, acked, clients>>

\* Mutant: a request taken while stopping is dropped.
Taken_UnlessStopping(t) == IF running THEN "open" ELSE "gone"

\* Where a thread goes with a request it has taken.
Taken(t) == "open"

\* A queue that is not empty is served even when stop() has been called.
Check(t) ==
    /\ pc[t] = "check"
    /\ IF queue[t] # <<>>
       THEN /\ req' = [req EXCEPT ![t] = Head(queue[t])]
            /\ queue' = [queue EXCEPT ![t] = Tail(@)]
            /\ pc' = [pc EXCEPT ![t] = Taken(t)]
       ELSE /\ pc' = [pc EXCEPT ![t] = IF running THEN "wait" ELSE "gone"]
            /\ UNCHANGED <<req, queue>>
    /\ UNCHANGED <<control, raced, files, disk, acked, clients>>

GetOrOpenRegion(t) ==
    LET r == req[t].pos.region IN
    /\ pc[t] = "open"
    /\ IF r \in open THEN UNCHANGED <<open, raced>>
       ELSE \E evicted \in ToEvict(maxOpen - 1) :
               open' = (open \ evicted) \union {r} /\ Evict(evicted)
    /\ pc' = [pc EXCEPT ![t] = "use"]
    /\ UNCHANGED <<control, queue, req, maxOpen, disk, acked, clients>>

\* The call into the region file begins.
Enter(t) ==
    LET overlaps == pc[Other(t)] = "inside" /\ RegionInUse(Other(t)) = RegionInUse(t) IN
    /\ pc[t] = "use"
    /\ overlaps => "overlap" \in Hazards
    /\ raced' = IF overlaps THEN Thread ELSE raced
    /\ pc' = [pc EXCEPT ![t] = "inside"]
    /\ UNCHANGED <<control, queue, req, files, disk, acked, clients>>

\* Mutant: a failed save is reported as done.
Reported_Success(t, v, ok) == [req EXCEPT ![t] = [@ EXCEPT !.ver = v, !.ok = TRUE]]

\* What the callback will be told.
Reported(t, v, ok) == [req EXCEPT ![t] = [@ EXCEPT !.ver = v, !.ok = ok]]

\* saveColumnRaw() stores the version or fails; loadColumn() returns what is
\* stored, or nothing, also when reading failed.
Outcome(t, p, ok) ==
    IF t = "save"
    THEN /\ disk' = IF ok THEN [disk EXCEPT ![p] = req[t].ver] ELSE disk
         /\ req' = Reported(t, req[t].ver, ok)
    ELSE /\ disk' = disk
         /\ req' = Reported(t, IF ok THEN disk[p] ELSE 0, ok)

\* What a call that raced may leave behind and return.
AnyOutcome(t, p, ok) ==
    /\ \E junk \in [{q \in Pos : q.region = p.region} -> 0..MaxVersion] :
          disk' = [q \in Pos |-> IF q.region = p.region THEN junk[q] ELSE disk[q]]
    /\ \E v \in 0..MaxVersion : req' = Reported(t, v, ok)

Finish(t) ==
    /\ pc[t] = "inside"
    /\ \E ok \in BOOLEAN :
          IF t \in raced THEN AnyOutcome(t, req[t].pos, ok) ELSE Outcome(t, req[t].pos, ok)
    /\ raced' = raced \ {t}
    /\ pc' = [pc EXCEPT ![t] = "callback"]
    /\ UNCHANGED <<control, queue, files, acked, clients>>

Callback(t) ==
    /\ pc[t] = "callback"
    /\ acked' = IF t = "save" /\ req[t].ok THEN [acked EXCEPT ![req[t].pos] = req[t].ver] ELSE acked
    /\ req' = [req EXCEPT ![t] = None]
    /\ pc' = [pc EXCEPT ![t] = "top"]
    /\ UNCHANGED <<control, queue, raced, files, disk, clients>>

Loop(t) ==
    Top(t) \/ Check(t) \/ GetOrOpenRegion(t) \/ Enter(t) \/ Finish(t) \/ Callback(t)

Next ==
    \/ Start \/ Stop \/ WakeThread \/ Join
    \/ Flush \/ FlushReturns
    \/ \E p \in Pos : RequestLoad(p) \/ QueueSave(p)
    \/ \E n \in OpenLimits : SetMaxOpenRegions(n)
    \/ \E t \in Thread : Loop(t)

Spec == Init /\ [][Next]_vars

\* stop() runs to its end once called, and a thread that is not waiting runs.
\* Nobody has to call start() or stop().
Fairness ==
    /\ WF_vars(WakeThread) /\ WF_vars(Join) /\ WF_vars(FlushReturns)
    /\ \A t \in Thread : WF_vars(Loop(t))

FairSpec == Spec /\ Fairness
----------------------------------------------------------------------------
\* Every variable has its type, and no more files are open than allowed.
TypeOK ==
    /\ running \in BOOLEAN /\ flusher \in BOOLEAN
    /\ caller \in {"idle", "wake_load", "wake_save", "join"}
    /\ queue \in [Thread -> Seq(Request)]
    /\ pc \in [Thread -> {"gone", "top", "check", "wait", "open", "use", "inside", "callback"}]
    /\ req \in [Thread -> Request \union {None}]
    /\ open \subseteq Regions /\ maxOpen \in OpenLimits /\ Cardinality(open) <= maxOpen
    /\ raced \subseteq Thread
    /\ disk \in [Pos -> Nat] /\ latest \in [Pos -> Nat] /\ acked \in [Pos -> Nat]
    /\ asked \in Nat /\ stops \in Nat

\* A column whose save was reported as done is stored at least as new as that,
\* whatever was queued, stopped, restarted and evicted since.
AcknowledgedIsStored == \A p \in Pos : disk[p] >= acked[p]

\* The requests a thread has still to carry out, the one in its hands first.
ToDo(t) ==
    (IF pc[t] \in {"open", "use", "inside"} THEN <<req[t]>> ELSE <<>>) \o queue[t]

Done(t) == pc[t] = "callback"

\* Order, at-most-once and no loss: seen from outside, the two loops with their
\* stops, restarts and open files are the two queues of ColumnIO.
IO == INSTANCE ColumnIO WITH
    Ver    <- 0..MaxVersion,
    saves  <- [i \in DOMAIN ToDo("save") |-> [pos |-> ToDo("save")[i].pos, ver |-> ToDo("save")[i].ver]],
    saved  <- IF Done("save") THEN [pos |-> req["save"].pos, ok |-> req["save"].ok] ELSE None,
    loads  <- [i \in DOMAIN ToDo("load") |-> ToDo("load")[i].pos],
    loaded <- IF Done("load") THEN [pos |-> req["load"].pos, ver |-> req["load"].ver] ELSE None,
    stored <- disk

ImplementsIO == IO!Spec

\* No wake-up is lost: while the threads run, every request is carried out and
\* its callback runs.
RequestsAreAnswered == \A t \in Thread : ToDo(t) # <<>> ~> ToDo(t) = <<>> \/ ~running

\* stop() always returns, whatever the threads are doing or waiting for.
StopReturns == caller # "idle" ~> caller = "idle"
=============================================================================
