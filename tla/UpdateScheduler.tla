--------------------------- MODULE UpdateScheduler ---------------------------
(***************************************************************************)
(* UpdateScheduler (event_queue.cpp): events from outside, the inbox that  *)
(* is worked off from its end, the outbox that merges events by position   *)
(* and type, deferred block updates, and scheduled ticks; the events of    *)
(* World::placeBlock() and breakBlock().                                   *)
(*                                                                         *)
(* Three types of block: "air", "stone", and "lamp", which wants game      *)
(* ticks and has a handler.  Every position is in a subchunk of its own;   *)
(* ChunkColumn::setBlock() creates one with its first block and destroys   *)
(* it with its last, unless it is Anchored by other blocks.                *)
(*                                                                         *)
(* Handlers are game content: an invocation has any of the effects the     *)
(* interface offers, at most one of a kind: a tick asked for, an event     *)
(* sent, a block set past the queues.  age counts the blocks a position    *)
(* has seen, and a tick remembers for which of them it was asked for       *)
(* (from).                                                                 *)
(***************************************************************************)
EXTENDS Integers, Sequences, FiniteSets, SequencesExt, Functions

CONSTANTS Positions, Anchored, Faces, None,
    Setups  \* what callers and handlers may do and how often, see Setup

\* habits: "replace", blocks are placed over blocks; "place_air", air is placed;
\* "races", a position is the subject of several changes at a time;
\* "tick_in_break", onBreak() schedules a tick; "set_block", handlers set blocks,
\* where without it onPlace() alone does, its own and asking for no tick.
\* blocks: what is there at first; randomTicks: randomTicksEnabled.  The bounds:
\* ticks; effects of handlers; subchunks that come into being; commands; events
\* from elsewhere; stops of the game thread.
Habits == {"replace", "place_air", "races", "tick_in_break", "set_block"}

Setup == [habits : SUBSET Habits, blocks : SUBSET {"air", "stone", "lamp"},
          randomTicks : BOOLEAN, maxTick : Nat, maxEffects : Nat, maxAppear : Nat,
          maxCommands : Nat, maxOutside : Nat, maxStops : Nat]

ASSUME SchedulerAssumption ==
    IsFiniteSet(Positions) /\ Anchored \subseteq Positions /\ Setups \subseteq Setup

VARIABLES
    setup,      \* chosen once
    block, age,
    subchunks,  \* the positions whose subchunk there is
    registered, \* gameTickBlocks_ of all subchunks
    scheduled,  \* scheduledTicks_
    now,        \* currentTick_
    external,   \* externalInput_
    inbox, outbox, deferred,
    heard,      \* what the lighting queue was last told of a position
    update,     \* the last lighting update and what was heard of it before
    delivered,  \* the last tick a handler got
    owed,       \* position -> faces of events for it that no handler has seen
    effects, appeared

world  == <<block, age, subchunks, registered>>
queues == <<external, inbox, outbox, deferred>>
ghosts == <<heard, update, delivered, owed>>
schedVars == <<setup, world, scheduled, now, queues, ghosts, effects, appeared>>

Types == {"air", "stone", "lamp"}
HasHandler(t) == t = "lamp"
WantsGameTicks(t) == t = "lamp"

\* getSubChunk() finds one.
Exists(p) == p \in subchunks

Event(type, p) == [type |-> type, pos |-> p, blk |-> "air", prev |-> "air", faces |-> {}, from |-> {}]
BlockPlaced(p, new, old) == [Event("BlockPlaced", p) EXCEPT !.blk = new, !.prev = old]
BlockBroken(p, old)      == [Event("BlockBroken", p) EXCEPT !.prev = old]
NeighborChanged(p, faces) == [Event("NeighborChanged", p) EXCEPT !.faces = faces]
Tick(type, p, from)      == [Event(type, p) EXCEPT !.from = from]

Key(e) == <<e.type, e.pos>>

\* neighborChanged() leaves the mask of faces empty; addNeighborFace() fills it.
Masks == {{}} \cup {{f} : f \in Faces}

\* Mutant: the newer event replaces the older one.
MergeEvents_Newest(existing, incoming) == [incoming EXCEPT !.from = @ \cup existing.from]

MergeEvents(existing, incoming) ==
    [incoming EXCEPT !.faces = IF incoming.type = "NeighborChanged" THEN @ \cup existing.faces ELSE @,
                     !.from  = @ \cup existing.from]

\* EventOutbox::push(): at most one event for a position and type.
OutboxPush(box, e) ==
    LET same == {x \in box : Key(x) = Key(e)} IN
    IF same = {} THEN box \cup {e} ELSE (box \ same) \cup {MergeEvents(x, e) : x \in same}

\* The same for ticks, which have nothing to merge but who asked for them.
OutboxPushTicks(box, ticks) ==
    LET Same(e) == {x \in box \cup ticks : Key(x) = Key(e)} IN
    {[e EXCEPT !.from = UNION {x.from : x \in Same(e)}] : e \in box \cup ticks}

\* scheduleTick(): at least one tick in the future.
TargetTick(delay) == now + (IF delay <= 0 THEN 1 ELSE delay)
----------------------------------------------------------------------------
Init ==
    /\ setup \in Setups
    /\ block \in [Positions -> setup.blocks] /\ age = [p \in Positions |-> 0]
    /\ subchunks = Anchored \cup {p \in Positions : block[p] # "air"}
    /\ registered = {} /\ scheduled = {} /\ now = 0
    /\ external = <<>> /\ inbox = <<>> /\ outbox = {} /\ deferred = <<>>
    /\ heard = block /\ update = None /\ delivered = None
    /\ owed = [p \in Positions |-> {}]
    /\ effects = 0 /\ appeared = 0

\* A change of p is on its way.
Pending(p) ==
    \E e \in ToSet(external) \cup ToSet(inbox) : e.pos = p /\ e.type \in {"BlockPlaced", "BlockBroken"}

\* World::placeBlock() and breakBlock(): the type replaced is read now.
Placed(p, t) == BlockPlaced(p, t, block[p])
Broken(p)    == BlockBroken(p, block[p])

\* pushExternalEvent(), from any thread.
PushExternalEvent(e) ==
    /\ external' = Append(external, e)
    /\ UNCHANGED <<setup, world, scheduled, now, inbox, outbox, deferred, ghosts, effects, appeared>>

\* World::setBlock() of generation: a subchunk comes into being.
Appear(p, t) ==
    /\ ~Exists(p) /\ t # "air" /\ appeared < setup.maxAppear
    /\ "races" \in setup.habits \/ ~Pending(p)
    /\ appeared' = appeared + 1
    /\ block' = [block EXCEPT ![p] = t]
    /\ age' = [age EXCEPT ![p] = @ + 1]
    /\ subchunks' = subchunks \cup {p}
    /\ heard' = [heard EXCEPT ![p] = t]
    /\ UNCHANGED <<setup, registered, scheduled, now, queues, update, delivered, owed, effects>>
----------------------------------------------------------------------------
(* A handler is called: what it may do through its BlockContext and the    *)
(* scheduler of the world.                                                 *)

\* The blocks as subChunk_.setBlock() may leave them: that of the handler called
\* or, through notifyNeighbors(), that of another is set, to air as well; those
\* of free need no habit.
AfterHandler(before, free) ==
    LET Sets(q) == HasHandler(before[q]) /\ ("set_block" \in setup.habits \/ q \in free) IN
    {before} \cup {[before EXCEPT ![q] = t] : q \in {x \in Positions : Sets(x)}, t \in Types}

\* A block that is set to another type is another block.
Aged(ages, before, after) == [q \in Positions |-> IF after[q] = before[q] THEN ages[q] ELSE ages[q] + 1]

\* scheduleTick() and setRepeatTickInterval(), for a block of one of these ages.
AskedFor(p, ages) ==
    {[pos |-> p, due |-> TargetTick(d), type |-> type, from |-> n] :
        d \in {0, 2}, type \in {"TickScheduled", "TickRepeat"}, n \in ages}

\* What a handler may push for another position.
Sendable(p) == {NeighborChanged(q, m) : q \in Positions \ {p}, m \in Masks}
                    \cup {Event("BlockUpdate", q) : q \in Positions \ {p}}

\* No handler is called.
NotInvoked(before, after, ages, ticks, owing) ==
    after = before /\ age' = ages /\ scheduled' = ticks /\ owed' = owing /\ UNCHANGED <<outbox, effects>>

\* The handler at p is called, with the blocks, ages, ticks and faces owed there
\* were before; it leaves the blocks after.
Invoked(p, before, after, ages, ticks, owing) ==
    /\ age' = Aged(ages, before, after)
    /\ \E asked \in {None} \cup AskedFor(p, {ages[p], age'[p]}), note \in {None} \cup Sendable(p) :
          /\ effects' = effects + Cardinality({asked, note} \ {None}) + (IF after = before THEN 0 ELSE 1)
          /\ effects' <= setup.maxEffects \/ effects' = effects
          /\ asked # None /\ after # before => "set_block" \in setup.habits
          /\ scheduled' = ticks \cup ({asked} \ {None})
          /\ IF note = None THEN owed' = owing /\ outbox' = outbox
             ELSE owed' = [owing EXCEPT ![note.pos] = @ \cup note.faces] /\ outbox' = OutboxPush(outbox, note)

\* enqueueLightingUpdateWithRemesh()
EnqueueLighting(p, old, new) ==
    /\ update' = [pos |-> p, old |-> old, heard |-> heard[p]]
    /\ heard' = [heard EXCEPT ![p] = new]

\* Mutant: the ticks of a broken block stay.
CancelScheduledTicks_Not(p) == scheduled

CancelScheduledTicks(p) == {t \in scheduled : t.pos # p}

ProcessBroken(e) ==
    LET p == e.pos IN
    /\ \E after \in AfterHandler(block, {}) :
          /\ IF HasHandler(block[p])
             THEN /\ Invoked(p, block, after, age, CancelScheduledTicks(p), owed)
                  /\ "tick_in_break" \notin setup.habits => scheduled' = CancelScheduledTicks(p)
             ELSE NotInvoked(block, after, age, CancelScheduledTicks(p), owed)
          /\ block' = [after EXCEPT ![p] = "air"]
    /\ subchunks' = subchunks \ ({p} \ Anchored)
    /\ registered' = registered \ {p}
    /\ EnqueueLighting(p, block[p], "air")
    /\ UNCHANGED <<deferred, delivered>>

\* Mutant: the light hears of the block that was to be placed.
FinalType_Requested(e, current) == e.blk

\* The type is read again: onPlace() may set the block it was called for.
FinalType(e, current) == current

\* Air takes the subchunk of a last block along, and what is read of it then is
\* anything.
ProcessPlaced(e) ==
    LET p == e.pos
        placed == [block EXCEPT ![p] = e.blk]
        ages == [age EXCEPT ![p] = @ + 1] IN
    /\ \E after \in AfterHandler(placed, {p}) :
          /\ IF HasHandler(e.blk) THEN Invoked(p, placed, after, ages, scheduled, owed)
             ELSE NotInvoked(placed, after, ages, scheduled, owed)
          /\ block' = after
    /\ subchunks' = IF e.blk = "air" THEN subchunks \ ({p} \ Anchored) ELSE subchunks
    /\ registered' = (registered \ ({p} \ subchunks')) \cup {q \in {p} : WantsGameTicks(block'[q])}
    /\ \E current \in IF p \in subchunks' THEN {block'[p]} ELSE Types :
          EnqueueLighting(p, e.prev, FinalType(e, current))
    /\ UNCHANGED <<deferred, delivered>>

\* The faces an event brings are no longer owed.
Seen(e) == [owed EXCEPT ![e.pos] = @ \ e.faces]

\* A neighbour's change is delivered face by face, one without a face to nobody.
Delivered(e) == HasHandler(block[e.pos]) /\ (e.type = "NeighborChanged" => e.faces # {})

\* Any other event: the handler of the block, if there is one.
ProcessOther(e) ==
    LET p == e.pos IN
    /\ \E after \in AfterHandler(block, {}) :
          /\ IF Delivered(e) THEN Invoked(p, block, after, age, scheduled, Seen(e))
             ELSE NotInvoked(block, after, age, scheduled, Seen(e))
          /\ block' = after
    /\ delivered' = IF Delivered(e) /\ e.from # {} THEN [pos |-> p, from |-> e.from, age |-> age[p]] ELSE delivered
    /\ UNCHANGED <<subchunks, registered, deferred, heard, update>>

\* No subchunk: a block update waits for one, any other event is dropped.
ProcessUnloaded(e) ==
    /\ deferred' = IF e.type = "BlockUpdate" THEN Append(deferred, e) ELSE deferred
    /\ owed' = Seen(e)
    /\ UNCHANGED <<world, scheduled, outbox, heard, update, delivered, effects>>

\* processEvent() of the last event of the inbox.
ProcessEvent ==
    /\ inbox # <<>>
    /\ inbox' = Front(inbox)
    /\ LET e == Last(inbox) IN
       IF ~Exists(e.pos) THEN ProcessUnloaded(e)
       ELSE IF e.type = "BlockBroken" THEN ProcessBroken(e)
       ELSE IF e.type = "BlockPlaced" THEN ProcessPlaced(e)
       ELSE ProcessOther(e)
    /\ UNCHANGED <<setup, now, external, appeared>>

\* drainExternalInput(), the first step of processEvents().
DrainExternalInput ==
    /\ inbox' = inbox \o external
    /\ external' = <<>>
    /\ UNCHANGED <<setup, world, scheduled, now, outbox, deferred, ghosts, effects, appeared>>

\* swapTo(): in the order of an unordered_map.
SwapOutbox ==
    /\ inbox = <<>> /\ outbox # {}
    /\ inbox' \in SetToSeqs(outbox)
    /\ outbox' = {}
    /\ UNCHANGED <<setup, world, scheduled, now, external, deferred, ghosts, effects, appeared>>

\* processEvents() returns.
Stable == inbox = <<>> /\ outbox = {}
----------------------------------------------------------------------------

Due(t) == t.due <= now'

\* The events of deferred at these places, in their order.
Deferred(places) ==
    {[j \in DOMAIN s |-> deferred[s[j]]] :
        s \in {x \in SetToSeqs(places) : \A i, j \in DOMAIN x : i < j => x[i] < x[j]}}

\* processDeferredEvents()
ProcessDeferred ==
    LET loaded == {i \in DOMAIN deferred : Exists(deferred[i].pos)} IN
    /\ \E es \in Deferred(loaded) : inbox' = inbox \o es
    /\ deferred' \in Deferred(DOMAIN deferred \ loaded)

\* generateGameTickEvents()
GameTicks == {Tick("TickScheduled", p, {age[p]}) : p \in {q \in registered : Exists(q)}}

\* advanceGameTick()
AdvanceGameTick ==
    /\ now' = now + 1
    /\ ProcessDeferred
    /\ \E lucky \in SUBSET {p \in Positions : setup.randomTicks /\ block[p] # "air"} :
          outbox' = OutboxPushTicks(outbox, GameTicks
                        \cup {Tick("TickRandom", p, {age[p]}) : p \in lucky}
                        \cup {Tick(t.type, t.pos, {t.from}) : t \in {x \in scheduled : Due(x)}})
    /\ scheduled' = {t \in scheduled : ~Due(t)}
    /\ UNCHANGED <<setup, world, external, ghosts, effects, appeared>>
============================================================================
