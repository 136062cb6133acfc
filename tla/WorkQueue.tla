------------------------------ MODULE WorkQueue ------------------------------
(***************************************************************************)
(* The queues between threads and the signal a thread waits on for several *)
(* of them (queue.hpp, keyed_queue.hpp, wake_signal.hpp).  A queue calls   *)
(* back nobody: a caller changes it under its lock, and notifies its       *)
(* sleepers and the attached signal after it has let go of the lock.  One  *)
(* thread serves one queue and waits on it (worker), another one serves    *)
(* all of them and waits on the signal (poller).  The merge of a keyed     *)
(* queue is a parameter of it: here it keeps everything it was given.      *)
(***************************************************************************)
EXTENDS Integers, Sequences, FiniteSets, SequencesExt, FiniteSetsExt

CONSTANTS Queues,       \* names of queues
          KeyedQueues,  \* those that are KeyedQueues, the others are Queues
          WorkerQueue,  \* the queue the worker serves
          ItemKeys,     \* keys of items
          MaxCalls,     \* bound: items accepted and calls other than pushes
          MaxTime       \* bound: the clock

ASSUME WorkQueueAssumption == /\ KeyedQueues \subseteq Queues /\ WorkerQueue \in Queues
                              /\ MaxCalls \in Nat /\ MaxTime \in Nat

VARIABLES queues,     \* by name: items (of a key and the numbers of what was pushed), shutdown, alarm, time, attached
          signal,     \* the WakeSignal: signaled, shutdown, hasDeadline, deadline
          calls,      \* calls that have let go of the lock and have not notified everybody yet
          worker,     \* the thread that waits on a queue: at, notified, until, deadline (of a timed wait)
          poller,     \* the thread that waits on the signal: at, notified, kind, until, empty (queues it found empty)
          now,
          accepted,   \* how many items were accepted
          delivered,  \* by queue, what was taken out of it
          discarded,  \* the items that clear() removed
          controls

vars == <<queues, signal, calls, worker, poller, now, accepted, delivered, discarded, controls>>

Never == -1
NewQueue == [items |-> <<>>, shutdown |-> FALSE, alarm |-> FALSE, time |-> 0, attached |-> FALSE]
NewSignal == [signaled |-> FALSE, shutdown |-> FALSE, hasDeadline |-> FALSE, deadline |-> 0]
Worker(at, until, deadline) == [at |-> at, notified |-> FALSE, until |-> until, deadline |-> deadline]
Poller(at, kind, until) == [at |-> at, notified |-> FALSE, kind |-> kind, until |-> until, empty |-> {}]

Init ==
    /\ queues = [q \in Queues |-> NewQueue] /\ signal = NewSignal /\ calls = {}
    /\ worker = Worker("free", Never, Never) /\ poller = Poller("free", "plain", Never)
    /\ now = 0 /\ accepted = 0 /\ delivered = [q \in Queues |-> <<>>] /\ discarded = {} /\ controls = 0

----------------------------------------------------------------------------
(* Contents *)

\* Mutant: an item whose key is present takes the place of the old one.
Pushed_Replaced(q, items, key, id) ==
    IF q \in KeyedQueues /\ \E i \in DOMAIN items : items[i].key = key
    THEN [i \in DOMAIN items |-> IF items[i].key = key THEN [items[i] EXCEPT !.ids = {id}] ELSE items[i]]
    ELSE Append(items, [key |-> key, ids |-> {id}])

\* push: in a keyed queue an item whose key is present is merged into it.
Pushed(q, items, key, id) ==
    IF q \in KeyedQueues /\ \E i \in DOMAIN items : items[i].key = key
    THEN [i \in DOMAIN items |-> IF items[i].key = key THEN [items[i] EXCEPT !.ids = @ \cup {id}] ELSE items[i]]
    ELSE Append(items, [key |-> key, ids |-> {id}])

\* The callers of a queue that notify its sleepers, then signal if it was attached.
NotifyCall(q, attached) == [queue |-> q, next |-> "notify", attached |-> attached, number |-> accepted + controls]

KeysOf(q) == IF q \in KeyedQueues THEN ItemKeys ELSE {"item"}

\* push and pushBatch: dropped after shutdown.
Push ==
    \E q \in Queues, n \in 1..2 : \E keys \in [1..n -> KeysOf(q)] :
        LET first == Pushed(q, queues[q].items, keys[1], accepted + 1)
        IN  /\ accepted + controls + n <= MaxCalls /\ ~queues[q].shutdown
            /\ queues' = [queues EXCEPT ![q].items = IF n = 1 THEN first ELSE Pushed(q, first, keys[2], accepted + 2)]
            /\ accepted' = accepted + n
            /\ calls' = calls \cup {NotifyCall(q, queues[q].attached)}
            /\ UNCHANGED <<signal, worker, poller, now, delivered, discarded, controls>>

\* condition_.notify_all().
NotifyWorker(q) == worker' = [worker EXCEPT !.notified = @ \/ (q = WorkerQueue /\ worker.at = "asleep")]
NotifyPoller == poller' = [poller EXCEPT !.notified = @ \/ poller.at = "asleep"]

\* The rest of a call: the sleepers, then signal(): whoever looks between its
\* flag and its notification sees the flag, so the two are one step.
Notify(c) ==
    /\ c.next = "notify" /\ NotifyWorker(c.queue)
    /\ calls' = (calls \ {c}) \cup IF c.attached THEN {[c EXCEPT !.next = "signal"]} ELSE {}
    /\ UNCHANGED <<queues, signal, poller, now, accepted, delivered, discarded, controls>>
Signal(c) ==
    /\ c.next = "signal" /\ signal' = [signal EXCEPT !.signaled = TRUE] /\ NotifyPoller
    /\ calls' = calls \ {c}
    /\ UNCHANGED <<queues, worker, now, accepted, delivered, discarded, controls>>
FinishCall == \E c \in calls : Notify(c) \/ Signal(c)

\* tryPop, drainUpTo and drainAll take the first items.
Taken(items, n) == SubSeq(items, 1, n)
Take(q, n) ==
    /\ n \in 1..Len(queues[q].items)
    /\ delivered' = [delivered EXCEPT ![q] = @ \o Taken(queues[q].items, n)]
    /\ queues' = [queues EXCEPT ![q].items = SubSeq(@, n + 1, Len(@))]

----------------------------------------------------------------------------
(* Waiting on a queue *)

WorkerTakes ==
    /\ worker.at = "free" /\ \E n \in {1, Len(queues[WorkerQueue].items)} : Take(WorkerQueue, n)
    /\ UNCHANGED <<signal, calls, worker, poller, now, accepted, discarded, controls>>

\* One turn of the loop of waitForWork: sleep until the alarm, if there is one,
\* and no longer than the deadline of a timed wait.
Slept(q, deadline) ==
    LET alarm == queues[q].alarm /\ (deadline # Never => queues[q].time < deadline)
    IN  IF queues[q].shutdown THEN Worker("stopped", Never, Never)
        ELSE IF queues[q].items # <<>> THEN Worker("free", Never, Never)
        ELSE Worker("asleep", IF alarm THEN queues[q].time ELSE deadline, deadline)

WaitForWork ==
    /\ worker.at = "free"
    /\ \E deadline \in {Never, Min({now + 1, MaxTime})} : worker' = Slept(WorkerQueue, deadline)
    /\ UNCHANGED <<queues, signal, calls, poller, now, accepted, delivered, discarded, controls>>

Due(t) == t # Never /\ now >= t

\* Mutant: a wait that is over takes the alarm with it.
Expired_AtOnce(q) == TRUE

\* wait_until compares the clock with alarmTime_ itself once more, which may
\* have been moved while it slept.
Expired(q) == now >= queues[q].time

\* The sleeper has the lock again: it was notified, its time has come, or
\* nothing of it (a spurious wakeup).
Resume ==
    LET q == WorkerQueue
        timed == worker.deadline # Never
        timeout == worker.until # Never /\ IF timed THEN Due(worker.until) ELSE Expired(q)
    IN  /\ worker.at = "asleep"
        /\ worker' = IF ~timeout THEN Slept(q, worker.deadline)
                     ELSE Worker(IF timed /\ queues[q].shutdown THEN "stopped" ELSE "free", Never, Never)
        /\ queues' = IF timeout /\ (timed => Expired(q)) THEN [queues EXCEPT ![q].alarm = FALSE] ELSE queues
        /\ UNCHANGED <<signal, calls, poller, now, accepted, delivered, discarded, controls>>
ResumeInTime == (worker.notified \/ Due(worker.until)) /\ Resume

----------------------------------------------------------------------------
(* Waiting on the signal *)

\* The thread polls every queue until it has seen it empty.
PollerTakes ==
    /\ poller.at = "free" /\ \E q \in Queues \ poller.empty : Take(q, 1)
    /\ UNCHANGED <<signal, calls, worker, poller, now, accepted, discarded, controls>>
PollerSeesEmpty ==
    /\ poller.at = "free"
    /\ \E q \in Queues \ poller.empty : queues[q].items = <<>> /\ poller' = [poller EXCEPT !.empty = @ \cup {q}]
    /\ UNCHANGED <<queues, signal, calls, worker, now, accepted, delivered, discarded, controls>>

\* The predicate of wait() and of waitFor().
Called(kind) ==
    \/ signal.shutdown \/ signal.signaled
    \/ kind # "for" /\ signal.hasDeadline /\ now >= signal.deadline
Returned == Poller(IF signal.shutdown THEN "stopped" ELSE "free", "plain", Never)

\* wait and waitFor return and take the signal, or sleep: wait() with the
\* deadline it has when it is called, or without one.
Wait(kind, until) ==
    IF Called(kind) THEN poller' = Returned /\ signal' = [signal EXCEPT !.signaled = FALSE]
    ELSE poller' = Poller("asleep", kind, until) /\ UNCHANGED signal

WaitForSignal ==
    /\ poller.at = "free" /\ poller.empty = Queues
    /\ \/ Wait("for", Min({now + 1, MaxTime}))
       \/ Wait(IF signal.hasDeadline THEN "deadline" ELSE "plain", IF signal.hasDeadline THEN signal.deadline ELSE Never)
    /\ UNCHANGED <<queues, calls, worker, now, accepted, delivered, discarded, controls>>

\* Awake again; a wait that has timed out returns whatever the predicate says.
PollerResumes ==
    LET timeout == CASE poller.kind = "for" -> Due(poller.until)
                     [] poller.kind = "deadline" -> now >= signal.deadline
                     [] OTHER -> FALSE
    IN  /\ poller.at = "asleep"
        /\ IF timeout THEN poller' = Returned /\ signal' = [signal EXCEPT !.signaled = FALSE]
           ELSE Wait(poller.kind, IF poller.kind = "deadline" THEN signal.deadline ELSE poller.until)
        /\ UNCHANGED <<queues, calls, worker, now, accepted, delivered, discarded, controls>>
PollerResumesInTime == (poller.notified \/ Due(poller.until)) /\ PollerResumes

----------------------------------------------------------------------------
(* Other calls *)

Control == accepted + controls < MaxCalls /\ controls' = controls + 1

\* setAlarm notifies the sleepers, so that they sleep until the alarm; that of
\* a queue nobody waits on does nothing.
AlarmSet(q) == NotifyWorker(q)
SetAlarm ==
    \E q \in {WorkerQueue}, t \in 0..MaxTime :
        /\ Control /\ AlarmSet(q)
        /\ queues' = IF ~queues[q].alarm \/ t > queues[q].time THEN [queues EXCEPT ![q].alarm = TRUE, ![q].time = t] ELSE queues
        /\ UNCHANGED <<signal, calls, poller, now, accepted, delivered, discarded>>
ClearAlarm ==
    \E q \in {WorkerQueue} :
        /\ Control /\ queues' = [queues EXCEPT ![q].alarm = FALSE]
        /\ UNCHANGED <<signal, calls, worker, poller, now, accepted, delivered, discarded>>
Clear ==
    \E q \in Queues :
        /\ Control /\ queues' = [queues EXCEPT ![q].items = <<>>, ![q].alarm = FALSE]
        /\ discarded' = discarded \cup UNION {queues[q].items[i].ids : i \in DOMAIN queues[q].items}
        /\ UNCHANGED <<signal, calls, worker, poller, now, accepted, delivered>>

\* Shutdown notifies as a push does.
Shutdown ==
    \E q \in Queues :
        /\ Control /\ queues' = [queues EXCEPT ![q].shutdown = TRUE]
        /\ calls' = calls \cup {NotifyCall(q, queues[q].attached)}
        /\ UNCHANGED <<signal, worker, poller, now, accepted, delivered, discarded>>
ResetShutdown ==
    \E q \in Queues :
        /\ Control /\ queues' = [queues EXCEPT ![q].shutdown = FALSE]
        /\ UNCHANGED <<signal, calls, worker, poller, now, accepted, delivered, discarded>>

\* Mutant: what is in the queue already is not signalled.
Attached_Silent(q) == UNCHANGED <<signal, poller>>

\* attach: a queue that has items signals at once, under its lock.
Attached(q) ==
    IF queues[q].items # <<>> THEN signal' = [signal EXCEPT !.signaled = TRUE] /\ NotifyPoller
    ELSE UNCHANGED <<signal, poller>>
Attach ==
    \E q \in Queues :
        /\ Control /\ ~queues[q].attached /\ Attached(q) /\ queues' = [queues EXCEPT ![q].attached = TRUE]
        /\ UNCHANGED <<calls, worker, now, accepted, delivered, discarded>>
Detach ==
    \E q \in Queues :
        /\ Control /\ queues[q].attached /\ queues' = [queues EXCEPT ![q].attached = FALSE]
        /\ UNCHANGED <<signal, calls, worker, poller, now, accepted, delivered, discarded>>

\* setDeadline notifies, but a thread that sleeps without a deadline sleeps on.
SetDeadline ==
    \E t \in 0..MaxTime :
        /\ Control /\ signal' = [signal EXCEPT !.hasDeadline = TRUE, !.deadline = t] /\ NotifyPoller
        /\ UNCHANGED <<queues, calls, worker, now, accepted, delivered, discarded>>
ClearDeadline ==
    /\ Control /\ signal' = [signal EXCEPT !.hasDeadline = FALSE]
    /\ UNCHANGED <<queues, calls, worker, poller, now, accepted, delivered, discarded>>
RequestShutdown ==
    /\ Control /\ signal' = [signal EXCEPT !.shutdown = TRUE] /\ NotifyPoller
    /\ UNCHANGED <<queues, calls, worker, now, accepted, delivered, discarded>>

\* resetShutdown, and reset, which takes back what was signalled: it is for a
\* signal that no thread serves any more.
ResetSignal ==
    /\ Control
    /\ \/ signal' = [signal EXCEPT !.shutdown = FALSE]
       \/ poller.at = "stopped" /\ signal' = [NewSignal EXCEPT !.deadline = signal.deadline]
    /\ UNCHANGED <<queues, calls, worker, poller, now, accepted, delivered, discarded>>

Tick ==
    /\ now < MaxTime /\ now' = now + 1
    /\ UNCHANGED <<queues, signal, calls, worker, poller, accepted, delivered, discarded, controls>>

Next ==
    \/ Push \/ FinishCall \/ WorkerTakes \/ WaitForWork \/ Resume
    \/ PollerTakes \/ PollerSeesEmpty \/ WaitForSignal \/ PollerResumes
    \/ SetAlarm \/ ClearAlarm \/ Clear \/ Shutdown \/ ResetShutdown \/ Attach \/ Detach
    \/ SetDeadline \/ ClearDeadline \/ RequestShutdown \/ ResetSignal \/ Tick

\* Every thread goes on: a call that has begun ends, a thread that may run
\* serves its queues, and the clock moves.  Nobody has to push or to control.
Fairness ==
    /\ WF_vars(FinishCall) /\ WF_vars(WorkerTakes) /\ WF_vars(ResumeInTime)
    /\ WF_vars(PollerTakes) /\ WF_vars(PollerSeesEmpty) /\ WF_vars(WaitForSignal) /\ WF_vars(PollerResumesInTime)
    /\ WF_vars(Tick)

Spec == Init /\ [][Next]_vars /\ Fairness

----------------------------------------------------------------------------
(* Properties *)

\* Whatever threads push, take, drain and clear at once, every item accepted is
\* in its queue, was taken out once, alone or merged, or was cleared; and a
\* queue gives out first what came first (keys first, in a keyed one).
ItemsAreDeliveredOnceInOrder ==
    LET Flow(q) == delivered[q] \o queues[q].items
        Ids(q) == UNION {Flow(q)[i].ids : i \in DOMAIN Flow(q)}
    IN  /\ (UNION {Ids(q) : q \in Queues}) \cup discarded = 1..accepted
        /\ \A q \in Queues : Ids(q) \cap discarded = {}
        /\ \A p, q \in Queues : \A i \in DOMAIN Flow(p), j \in DOMAIN Flow(q) :
              <<p, i>> # <<q, j>> => Flow(p)[i].ids \cap Flow(q)[j].ids = {}
        /\ \A q \in Queues : \A i, j \in DOMAIN Flow(q) : i < j => Min(Flow(q)[i].ids) < Min(Flow(q)[j].ids)

\* An alarm is given up only when its time has come, also when a thread sleeps
\* on an older time of it, unless somebody clears it.
AlarmsAreKept ==
    [][\A q \in Queues : queues[q].alarm /\ ~queues'[q].alarm /\ controls' = controls => now >= queues[q].time]_vars

\* No wakeup is lost: items in a queue are taken in the end, by the worker or,
\* if the queue is attached, by the poller, unless it was told to stop.
ItemsAreTaken ==
    /\ queues[WorkerQueue].items # <<>> ~> queues[WorkerQueue].items = <<>> \/ worker.at = "stopped"
    /\ \A q \in Queues : queues[q].items # <<>> ~> queues[q].items = <<>> \/ ~queues[q].attached \/ poller.at = "stopped"

\* A sleeper wakes for an alarm, also one that is set while it sleeps, and for
\* a deadline it went to sleep with.
SleepersWake ==
    /\ worker.at = "asleep" /\ queues[WorkerQueue].alarm ~> worker.at # "asleep" \/ ~queues[WorkerQueue].alarm
    /\ poller.at = "asleep" /\ poller.kind = "deadline" ~> poller.at # "asleep"

\* No wakeup is lost, of those the queue and the signal promise: for items,
\* for alarms and for the deadline a thread went to sleep with.
NoWakeupIsLost ==
    /\ ItemsAreTaken
    /\ SleepersWake

\* What setDeadline() says (wake_signal.hpp): it also wakes a thread that went
\* to sleep without a deadline. It does not.
DeadlinesWake == poller.at = "asleep" /\ signal.hasDeadline ~> poller.at # "asleep" \/ ~signal.hasDeadline
=============================================================================
