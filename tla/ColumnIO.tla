------------------------------ MODULE ColumnIO ------------------------------
(***************************************************************************)
(* What IOManager promises to whoever saves and loads columns through it:  *)
(* saves are carried out one at a time in the order they were queued, each *)
(* stores its version or fails, and then answers; a load reads the version *)
(* stored when its turn comes, or finds nothing because reading failed,    *)
(* and then answers.                                                       *)
(***************************************************************************)
EXTENDS Naturals, Sequences

CONSTANTS Pos, Ver, None

VARIABLES
    saves,   \* the saves not carried out yet
    saved,   \* the save carried out that has not answered yet
    loads,   \* the loads not carried out yet
    loaded,  \* the load carried out that has not answered yet
    stored   \* position -> version stored, 0 if none

vars == <<saves, saved, loads, loaded, stored>>

Init ==
    /\ saves = <<>> /\ saved = None
    /\ loads = <<>> /\ loaded = None
    /\ stored = [p \in Pos |-> 0]

QueueSave ==
    /\ \E p \in Pos, v \in Ver : saves' = Append(saves, [pos |-> p, ver |-> v])
    /\ UNCHANGED <<saved, loads, loaded, stored>>

QueueLoad ==
    /\ \E p \in Pos : loads' = Append(loads, p)
    /\ UNCHANGED <<saves, saved, loaded, stored>>

Store(ok) ==
    /\ saves # <<>> /\ saved = None
    /\ saves' = Tail(saves)
    /\ saved' = [pos |-> Head(saves).pos, ok |-> ok]
    /\ stored' = IF ok THEN [stored EXCEPT ![Head(saves).pos] = Head(saves).ver] ELSE stored
    /\ UNCHANGED <<loads, loaded>>

AnswerSave ==
    /\ saved # None /\ saved' = None
    /\ UNCHANGED <<saves, loads, loaded, stored>>

Fetch ==
    /\ loads # <<>> /\ loaded = None
    /\ loads' = Tail(loads)
    /\ \E v \in {0, stored[Head(loads)]} : loaded' = [pos |-> Head(loads), ver |-> v]
    /\ UNCHANGED <<saves, saved, stored>>

AnswerLoad ==
    /\ loaded # None /\ loaded' = None
    /\ UNCHANGED <<saves, saved, loads, stored>>

Next ==
    \/ QueueSave \/ QueueLoad
    \/ \E ok \in BOOLEAN : Store(ok)
    \/ AnswerSave \/ Fetch \/ AnswerLoad

Spec == Init /\ [][Next]_vars
=============================================================================
