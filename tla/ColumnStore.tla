---------------------------- MODULE ColumnStore ----------------------------
(***************************************************************************)
(* What ColumnManager and IOManager together promise to the world: each    *)
(* column position holds the version written last, and a durable version   *)
(* that follows it.  Saving, caching, evicting and loading are invisible.  *)
(***************************************************************************)
EXTENDS Naturals

CONSTANT Pos

VARIABLES contents, durable

Init ==
    /\ contents = [p \in Pos |-> 0]
    /\ durable = [p \in Pos |-> 0]

\* The next version of p is made.
Write(p) ==
    /\ contents' = [contents EXCEPT ![p] = @ + 1]
    /\ UNCHANGED durable

\* A newer version of p than the durable one becomes durable.
Persist(p) ==
    /\ \E v \in (durable[p] + 1)..contents[p] : durable' = [durable EXCEPT ![p] = v]
    /\ UNCHANGED contents

Next == \E p \in Pos : Write(p) \/ Persist(p)

Spec == Init /\ [][Next]_<<contents, durable>>
=============================================================================
