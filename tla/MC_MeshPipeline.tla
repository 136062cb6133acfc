-------------------------- MODULE MC_MeshPipeline --------------------------
EXTENDS MeshPipeline, TLC

\* The workers w1 and w2 are interchangeable only when both are in the pool,
\* so no symmetry is used for runs with liveness.
CONSTANTS w1, w2

Bounds(e, l, m, f) == [maxEdits |-> e, maxLit |-> l, maxMoves |-> m, maxFails |-> f]
Map(loaded, late, sides) == [loaded |-> loaded, late |-> late, sides |-> sides]
Async(pool, defer) == [async |-> TRUE, pool |-> pool, defer |-> defer]
Sync == [async |-> FALSE, pool |-> {}, defer |-> FALSE]

CONSTANTS c1, c2
Here == Map({c1}, {}, {FALSE})
Late == Map({}, {c1}, {FALSE})
Both == Map({c1, c2}, {}, {TRUE})

\* One thing at a time: two workers, light, camera and failures, a late chunk,
\* the synchronous frame, and two adjacent chunks with edits on their border.
AnySetup ==
    {Async({w1, w2}, FALSE) @@ Here @@ Bounds(1, 0, 0, 0),
     Async({w1}, FALSE) @@ Here @@ Bounds(1, 1, 0, 0),
     Async({w1}, FALSE) @@ Here @@ Bounds(1, 0, 1, 1),
     Async({w1}, FALSE) @@ Late @@ Bounds(0, 0, 2, 1),
     Async({w1}, TRUE) @@ Both @@ Bounds(1, 1, 0, 0)}
    \cup {Sync @@ m @@ b : m \in {Here, Late}, b \in {Bounds(1, 1, 0, 0), Bounds(1, 0, 1, 0)}}
NotDeferred == {Async({w1}, FALSE) @@ Both @@ Bounds(2, 0, 0, 0)}
============================================================================
