--------------------------- MODULE MC_GameSession ---------------------------
(* Model-checking instances of GameSession: anchored, a position in a      *)
(* subchunk with other blocks, and lone, the only block of its subchunk.   *)
EXTENDS GameSession, TLC

World(habits, blocks, random) == [habits |-> habits, blocks |-> blocks, randomTicks |-> random]
Bounds(ti, ef, ap, co, ou, st) ==
    [maxTick |-> ti, maxEffects |-> ef, maxAppear |-> ap,
     maxCommands |-> co, maxOutside |-> ou, maxStops |-> st]

\* Blocks and their ticks; merging; loading and deferral; stopping; bad habits.
AnySetups ==
    {World({}, {"lamp"}, TRUE) @@ Bounds(2, 1, 0, 2, 0, 0),
     World({}, {"lamp"}, FALSE) @@ Bounds(1, 2, 0, 2, 0, 0),
     World({}, {"air", "stone"}, FALSE) @@ Bounds(1, 0, 1, 2, 1, 0),
     World({}, {"lamp"}, FALSE) @@ Bounds(1, 0, 0, 2, 0, 1),
     World(Habits, {"air", "lamp"}, FALSE) @@ Bounds(1, 1, 1, 2, 0, 0)}
=============================================================================
