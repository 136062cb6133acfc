----------------------------- MODULE LightEngine -----------------------------
(***************************************************************************)
(* LightEngine (light_engine.cpp): block light and sky light spread by     *)
(* breadth-first search, the queue of lighting updates that consolidates   *)
(* by position, and the thread that works it off while blocks go on        *)
(* changing.                                                               *)
(*                                                                         *)
(* The world is a small vertical section, cells [x, y]; whatever is beyond *)
(* it takes no light.  Light levels go to MaxLight instead of 15.  There   *)
(* are six kinds of block: "air", "stone" and "glow" (a light in an        *)
(* opaque block), which stop light, "glass" and "torch", which do not, and *)
(* "water", which takes two levels.                                        *)
(*                                                                         *)
(* An update is worked off in two steps, Take and Process: the search may  *)
(* see every block as it was at either of them.                            *)
(***************************************************************************)
EXTENDS Integers, Sequences, FiniteSets, FiniteSetsExt, SequencesExt, Functions

CONSTANTS None, MaxLight,
    Setups,  \* the cells and what may happen, see Setup
    Cells    \* all cells of all setups

\* maxNodes: maxPropagationDistance_, which bounds the nodes of one search;
\* hazards: "overwrite", a block changes again while its update is pending or
\* being worked off; "direct", an opaque block is replaced by a torch in one
\* step; "stop_in_test", stop() comes between the test of the predicate and
\* the wait in dequeueBatch(); "dig", an opaque block is removed; "dim", water is
\* placed or removed, beside the water that is there from the beginning.
Setup == [cells : SUBSET Cells, kinds : SUBSET {"air", "stone", "glass", "torch", "glow", "water"},
          water : SUBSET Cells, hazards : SUBSET {"overwrite", "direct", "stop_in_test", "dig", "dim"},
          maxNodes : Nat, maxEdits : Nat, maxStops : Nat]

ASSUME LightAssumption == MaxLight \in Nat \ {0} /\ Setups \subseteq Setup

VARIABLES
    setup,     \* chosen once
    block,     \* cell -> the block in the world
    light,     \* the block and the sky light of every cell
    pending,   \* LightingQueue::pending_: cell -> update or None
    batch,     \* updates taken and not yet worked off
    current,   \* the update the thread works on and the blocks it began with
    thread,    \* where the lighting thread is
    edited,    \* the block change whose update is not yet enqueued
    running,   \* running_, stopped_ is its negation
    stopping,  \* whether a thread is in stop()
    edits, stops

vars == <<setup, block, light, pending, batch, current, thread, edited, running, stopping, edits, stops>>

Attenuation(k) == IF k \in {"stone", "glow"} THEN MaxLight ELSE IF k = "water" THEN 2 ELSE 1

Emission(k)    == IF k \in {"torch", "glow"} THEN MaxLight ELSE 0
Opaque(k)      == Attenuation(k) >= MaxLight
BlocksSky(k)   == k \in {"stone", "glow"}
----------------------------------------------------------------------------
(* The searches.  l is one kind of light, b the blocks seen.               *)

\* In the order of offsets in the code.
Around(c) == SelectSeq(<<[c EXCEPT !.x = @ + 1], [c EXCEPT !.x = @ - 1],
                         [c EXCEPT !.y = @ + 1], [c EXCEPT !.y = @ - 1]>>,
                       LAMBDA d : d \in setup.cells)

\* Sky light going straight down through air is not attenuated.
Cost(b, sky, from, to) ==
    IF sky /\ to.y < from.y /\ b[to] = "air" THEN 0 ELSE Attenuation(b[to])

\* One node of propagateLightBFS(): the brightest in the queue.
SpreadNode(s, b, sky) ==
    LET node == CHOOSE n \in s.queue : \A m \in s.queue : n.level >= m.level
        here == s.light[node.pos]
        brighter == {d \in ToSet(Around(node.pos)) : here - Cost(b, sky, node.pos, d) > s.light[d]}
    IN IF here < node.level THEN [s EXCEPT !.queue = @ \ {node}]
       ELSE [light |-> [d \in brighter |-> here - Cost(b, sky, node.pos, d)] @@ s.light,
             queue |-> (s.queue \ {node}) \cup
                       {[pos |-> d, level |-> here - Cost(b, sky, node.pos, d)] : d \in brighter}]

\* propagateLightBFS()
Spread(l, b, sky, pos, level) ==
    LET after[n \in 0..setup.maxNodes] ==
            IF n = 0 THEN [light |-> l, queue |-> {[pos |-> pos, level |-> level]}]
            ELSE LET s == after[n - 1] IN IF s.queue = {} THEN s ELSE SpreadNode(s, b, sky)
    IN after[setup.maxNodes].light

\* propagateBlockLight() and propagateSkyLight()
Propagate(l, b, sky, pos, level) ==
    IF level = 0 \/ l[pos] >= level THEN l ELSE Spread([l EXCEPT ![pos] = level], b, sky, pos, level)

\* One node of the first phase of removeLightBFS(): neighbours that are darker
\* got their light from here, the others are to be spread again.
DarkenNode(s) ==
    LET node  == Head(s.queue)
        next  == SelectSeq(Around(node.pos), LAMBDA d : s.light[d] \in 1..(node.level - 1))
        other == SelectSeq(Around(node.pos), LAMBDA d : s.light[d] >= node.level)
        Nodes(cs) == [i \in DOMAIN cs |-> [pos |-> cs[i], level |-> s.light[cs[i]]]]
    IN [light |-> [d \in ToSet(next) |-> 0] @@ s.light,
        queue |-> Tail(s.queue) \o Nodes(next),
        again |-> s.again \o Nodes(other)]


SpreadAgain(l, b, sky, nodes) ==
    FoldLeft(LAMBDA m, node : Spread(m, b, sky, node.pos, node.level), l, nodes)

\* removeLightBFS(): the start is cleared between the phases.
RemoveLight(l, b, sky, start) ==
    LET cells == Cardinality(setup.cells)
        after[n \in 0..(cells + 1)] ==
            IF n = 0 THEN [light |-> l, queue |-> <<[pos |-> start, level |-> l[start]]>>, again |-> <<>>]
            ELSE LET s == after[n - 1] IN IF s.queue = <<>> THEN s ELSE DarkenNode(s)
        dark == after[cells + 1]
    IN IF l[start] = 0 THEN l
       ELSE SpreadAgain([dark.light EXCEPT ![start] = 0], b, sky, dark.again)

\* The cells under pos that get dark with it, at most 16 of them.
Shadow(l, b, pos) ==
    {c \in setup.cells : c.x = pos.x /\ c.y < pos.y /\ c.y >= pos.y - 16 /\
        \A d \in setup.cells : d.x = pos.x /\ d.y \in c.y..(pos.y - 1) => l[d] > 0 /\ ~BlocksSky(b[d])}

OnBlockPlaced(l, b, pos, old, new) ==
    LET freed == IF Emission(old) > 0 THEN RemoveLight(l.block, b, FALSE, pos) ELSE l.block
        lit   == Propagate(freed, b, FALSE, pos, Emission(new))
        shut  == IF Opaque(new) /\ Emission(new) = 0 THEN RemoveLight(lit, b, FALSE, pos) ELSE lit
        dark  == IF BlocksSky(new) /\ ~BlocksSky(old) /\ l.sky[pos] > 0
                 THEN {pos} \cup Shadow(l.sky, b, pos) ELSE {}
    IN [block |-> shut, sky |-> [c \in dark |-> 0] @@ l.sky]

Above(pos) == [pos EXCEPT !.y = @ + 1]

OnBlockRemoved(l, b, pos, old) ==
    LET gone   == OnBlockPlaced(l, b, pos, old, "air")
        enters == Max({gone.block[d] - 1 : d \in ToSet(Around(pos))} \cup {0})
        falls  == IF Above(pos) \in setup.cells THEN Max({gone.sky[Above(pos)] - 1, 0}) ELSE 0
    IN [block |-> IF Opaque(old) THEN Propagate(gone.block, b, FALSE, pos, enters) ELSE gone.block,
        sky   |-> IF BlocksSky(old) THEN Propagate(gone.sky, b, TRUE, pos, falls) ELSE gone.sky]

\* processLightingUpdate()
Processed(l, b, u) ==
    IF Opaque(u.old) /\ Opaque(u.new) /\ Emission(u.old) = 0 /\ Emission(u.new) = 0 THEN l
    ELSE IF Opaque(u.old) /\ ~Opaque(u.new) THEN OnBlockRemoved(l, b, u.pos, u.old)
    ELSE OnBlockPlaced(l, b, u.pos, u.old, u.new)
----------------------------------------------------------------------------
Init ==
    /\ setup \in Setups
    /\ block = [c \in setup.cells |-> IF c \in setup.water THEN "water" ELSE "air"]
    /\ light = [block |-> [c \in setup.cells |-> 0], sky |-> [c \in setup.cells |-> MaxLight]]
    /\ pending = [c \in setup.cells |-> None]
    /\ batch = {} /\ current = None
    /\ thread = "top" /\ running = TRUE /\ stopping = FALSE
    /\ edited = None
    /\ edits = 0 /\ stops = 0
----------------------------------------------------------------------------
(* The threads that change blocks and that start and stop the engine.      *)

Busy(c) == \/ pending[c] # None
           \/ \E u \in batch : u.pos = c
           \/ current # None /\ current.update.pos = c

\* setBlock(); the topmost cells stay air.
ChangeBlock(c, k) ==
    /\ edited = None /\ edits < setup.maxEdits
    /\ k \in setup.kinds \ {block[c]} /\ Above(c) \in setup.cells
    /\ Busy(c) => "overwrite" \in setup.hazards
    /\ Opaque(block[c]) => k = "air" \/ "direct" \in setup.hazards
    /\ Opaque(block[c]) => "dig" \in setup.hazards
    /\ "water" \in {k, block[c]} => "dim" \in setup.hazards
    /\ edits' = edits + 1
    /\ edited' = [pos |-> c, old |-> block[c], new |-> k]
    /\ block' = [block EXCEPT ![c] = k]
    /\ UNCHANGED <<setup, light, pending, batch, current, thread, running, stopping, stops>>

\* Wakes the thread if it waits.
Notified == IF thread = "wait" THEN "test" ELSE thread

\* enqueue(): replaces what is pending for the position, with its old type.
Enqueue ==
    /\ edited # None
    /\ pending' = [pending EXCEPT ![edited.pos] = edited]
    /\ edited' = None
    /\ thread' = Notified
    /\ UNCHANGED <<setup, block, light, batch, current, running, stopping, edits, stops>>

\* Mutant: stop() does not wake the thread.
StopNotified_Not == thread

\* LightingQueue::stop() notifies; it does not hold the mutex.
StopNotified == Notified

Stop ==
    /\ running /\ ~stopping /\ stops < setup.maxStops
    /\ thread = "sleep" => "stop_in_test" \in setup.hazards
    /\ stops' = stops + 1
    /\ running' = FALSE /\ stopping' = TRUE
    /\ thread' = StopNotified
    /\ UNCHANGED <<setup, block, light, pending, batch, current, edited, edits>>

Join ==
    /\ stopping /\ thread = "gone"
    /\ stopping' = FALSE
    /\ UNCHANGED <<setup, block, light, pending, batch, current, thread, edited, running, edits, stops>>

Start ==
    /\ ~running /\ ~stopping
    /\ running' = TRUE /\ thread' = "top"
    /\ UNCHANGED <<setup, block, light, pending, batch, current, edited, stopping, edits, stops>>
----------------------------------------------------------------------------
(* The lighting thread: "top" at while (running_), "test" about to test    *)
(* the predicate of dequeueBatch(), "sleep" about to wait, "wait", "work"  *)
(* with a batch, "gone" when it has returned.                              *)

Top ==
    /\ thread = "top"
    /\ thread' = IF running THEN "test" ELSE "gone"
    /\ UNCHANGED <<setup, block, light, pending, batch, current, edited, running, stopping, edits, stops>>

Updates == {pending[c] : c \in setup.cells} \ {None}

\* dequeueBatch(): all of the queue, for it is smaller than batchSize_.
DequeueBatch ==
    /\ thread = "test"
    /\ batch' = Updates
    /\ pending' = [c \in setup.cells |-> None]
    /\ thread' = IF Updates # {} THEN "work" ELSE IF running THEN "sleep" ELSE "gone"
    /\ UNCHANGED <<setup, block, light, current, edited, running, stopping, edits, stops>>

Sleep ==
    /\ thread = "sleep"
    /\ thread' = "wait"
    /\ UNCHANGED <<setup, block, light, pending, batch, current, edited, running, stopping, edits, stops>>

\* The order within a batch is that of an unordered_map.
Take(u) ==
    /\ thread = "work" /\ current = None /\ u \in batch
    /\ batch' = batch \ {u}
    /\ current' = [update |-> u, blocks |-> block]
    /\ UNCHANGED <<setup, block, light, pending, thread, edited, running, stopping, edits, stops>>

Process ==
    /\ current # None
    /\ \E late \in SUBSET {c \in setup.cells : current.blocks[c] # block[c]} :
           LET seen == [c \in setup.cells |-> IF c \in late THEN block[c] ELSE current.blocks[c]]
           IN light' = Processed(light, seen, current.update)
    /\ current' = None
    /\ UNCHANGED <<setup, block, pending, batch, thread, edited, running, stopping, edits, stops>>

BatchDone ==
    /\ thread = "work" /\ batch = {} /\ current = None
    /\ thread' = "top"
    /\ UNCHANGED <<setup, block, light, pending, batch, current, edited, running, stopping, edits, stops>>

Move == Top \/ DequeueBatch \/ Sleep \/ (\E u \in batch : Take(u)) \/ BatchDone

Next ==
    \/ \E c \in setup.cells, k \in setup.kinds : ChangeBlock(c, k)
    \/ Enqueue \/ Stop \/ Join \/ Start \/ Move \/ Process

Spec == Init /\ [][Next]_vars

\* Process is the only step that ends an update, and it is enabled when there
\* is one: fairness of Process, without the search in its enabling condition.
EndsUpdate == current # None /\ current' = None

\* The lighting thread runs, and the game thread goes on with an edit.
FairSpec == Spec /\ WF_vars(Move) /\ WF_current(EndsUpdate) /\ WF_vars(Enqueue) /\ WF_vars(Join)
----------------------------------------------------------------------------
\* Every variable has its type; light stays within its levels.
TypeOK ==
    /\ setup \in Setups
    /\ block \in [setup.cells -> setup.kinds]
    /\ light \in [block : [setup.cells -> 0..MaxLight], sky : [setup.cells -> 0..MaxLight]]
    /\ \A c \in setup.cells : pending[c] # None => pending[c].pos = c
    /\ thread \in {"top", "test", "sleep", "wait", "work", "gone"}
    /\ batch # {} \/ current # None => thread = "work"
    /\ {running, stopping} \subseteq BOOLEAN
    /\ edits \in 0..setup.maxEdits /\ stops \in 0..setup.maxStops

\* Nothing is left to do.
AtRest == Updates = {} /\ batch = {} /\ current = None /\ edited = None

\* What block light is: every cell has the light of its own block, or the
\* brightest of its neighbours less its attenuation.
LightOf(b) ==
    LET lit[n \in 0..MaxLight] ==
            IF n = 0 THEN [c \in setup.cells |-> Emission(b[c])]
            ELSE LET l == lit[n - 1]
                 IN [c \in setup.cells |->
                        Max({l[c]} \cup {l[d] - Attenuation(b[c]) : d \in ToSet(Around(c))})]
    IN lit[MaxLight]

(* Whatever was placed and removed, in whatever order the updates were     *)
(* worked off and whatever blocks the searches saw, once no update is left *)
(* the block light is that of the blocks in the world: no light without a  *)
(* source and no lit place left dark.                                      *)
BlockLightIsExact == AtRest => light.block = LightOf(block)

OpenToSky(c) == \A d \in setup.cells : d.x = c.x /\ d.y >= c.y => ~BlocksSky(block[d])

(* Once no update is left, what is open to the sky has sky light and what  *)
(* is below a block is dark, in a single column of cells.                  *)
SkyLightFollowsBlocks ==
    AtRest /\ (\A c, d \in setup.cells : c.x = d.x) => \A c \in setup.cells : light.sky[c] > 0 <=> OpenToSky(c)


(* stop() returns, whether the thread waits, works or just tests.          *)
StopReturns == stopping ~> ~stopping
=============================================================================
