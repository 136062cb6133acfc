---------------------------- MODULE GameSession ----------------------------
(***************************************************************************)
(* GameSession (game_session.cpp): the thread of the graphics issues       *)
(* commands through LocalGameActions; the game thread waits on the command *)
(* queue, executes what it finds, processes the events that come of it and *)
(* runs the ticks that are due.                                            *)
(*                                                                         *)
(* Queue::waitForWork() holds the queue's mutex from its tests to the      *)
(* wait, and every change of what it tests notifies.  The alarm is always  *)
(* set to the next tick.  Time goes by in tick intervals.                  *)
(***************************************************************************)
EXTENDS UpdateScheduler

CONSTANTS MaxCatchup, MaxLate

ASSUME SessionAssumption == {MaxCatchup, MaxLate} \subseteq Nat \ {0}

VARIABLES
    commands, \* commandQueue
    thread,   \* where the game thread is, see TypeOK
    batch,    \* commands drained and not yet executed
    elapsed,  \* tick intervals gone by and not worked off
    behind,   \* those of them the loop saw when it read the clock
    catchup,
    shutdown, \* the command queue's flag
    sent, outside, stops

sessionVars == <<commands, thread, batch, elapsed, behind, catchup, shutdown, sent, outside, stops>>
vars == <<schedVars, sessionVars>>

SessionInit ==
    /\ Init
    /\ commands = <<>> /\ batch = <<>> /\ thread = "test"
    /\ elapsed = 0 /\ behind = 0 /\ catchup = 0 /\ shutdown = FALSE
    /\ sent = 0 /\ outside = 0 /\ stops = 0
----------------------------------------------------------------------------
(* The other threads.                                                      *)

\* Mutant: pushing does not notify.
Woken_Not == thread

\* push() and shutdown() notify who waits.
Woken == IF thread = "asleep" THEN "test" ELSE thread

Commanded(p) ==
    Pending(p) \/ \E c \in ToSet(commands) \cup ToSet(batch) : c.pos = p /\ c.type # "PlayerUse"

\* What LocalGameActions makes of a call, given the block it sees.
Command == [type : {"BlockPlaced", "BlockBroken", "PlayerUse"}, pos : Positions, blk : Types]

Accepted(c) ==
    /\ c.type = "BlockPlaced" /\ c.blk = "air" => "place_air" \in setup.habits
    /\ c.type # "BlockPlaced" => c.blk = "air" /\ block[c.pos] # "air"
    /\ c.type = "BlockPlaced" /\ block[c.pos] # "air" => "replace" \in setup.habits
    /\ c.type = "PlayerUse" \/ "races" \in setup.habits \/ ~Commanded(c.pos)

\* A queue that is shut down drops what is pushed.
Push(c) ==
    /\ sent < setup.maxCommands
    /\ Accepted(c)
    /\ sent' = sent + 1
    /\ IF shutdown THEN UNCHANGED <<commands, thread>>
       ELSE commands' = Append(commands, c) /\ thread' = Woken
    /\ UNCHANGED <<schedVars, batch, elapsed, behind, catchup, shutdown, outside, stops>>

\* Another thread hands the scheduler an event itself.
PushFromOutside(e) ==
    /\ outside < setup.maxOutside
    /\ outside' = outside + 1
    /\ PushExternalEvent(e)
    /\ UNCHANGED <<commands, thread, batch, elapsed, behind, catchup, shutdown, sent, stops>>

Generate(p, t) ==
    /\ "races" \in setup.habits \/ ~Commanded(p)
    /\ Appear(p, t)
    /\ UNCHANGED sessionVars

TimePasses ==
    /\ elapsed < MaxLate /\ now + elapsed < setup.maxTick
    /\ elapsed' = elapsed + 1
    /\ UNCHANGED <<schedVars, commands, thread, batch, behind, catchup, shutdown, sent, outside, stops>>

\* stopGameThread() up to the join, and startGameThread() after it.
StopGameThread ==
    /\ ~shutdown /\ stops < setup.maxStops
    /\ stops' = stops + 1
    /\ shutdown' = TRUE /\ thread' = Woken
    /\ UNCHANGED <<schedVars, commands, batch, elapsed, behind, catchup, sent, outside>>

StartGameThread ==
    /\ shutdown /\ thread = "ended"
    /\ shutdown' = FALSE /\ thread' = "test"
    /\ elapsed' = 0
    /\ UNCHANGED <<schedVars, commands, batch, behind, catchup, sent, outside, stops>>
----------------------------------------------------------------------------
(* The game thread.                                                        *)

\* waitForWork(), but for the alarm.
WaitForWork ==
    /\ thread = "test"
    /\ thread' = IF shutdown THEN "ended" ELSE IF commands # <<>> THEN "drain" ELSE "asleep"
    /\ UNCHANGED <<schedVars, commands, batch, elapsed, behind, catchup, shutdown, sent, outside, stops>>

\* The time of the alarm has come.
AlarmFires ==
    /\ thread = "asleep" /\ elapsed > 0
    /\ thread' = "drain"
    /\ UNCHANGED <<schedVars, commands, batch, elapsed, behind, catchup, shutdown, sent, outside, stops>>

\* drainAll(); without a command the scheduler is not asked.
DrainCommands ==
    /\ thread = "drain"
    /\ batch' = commands /\ commands' = <<>>
    /\ thread' = IF commands = <<>> THEN "clock" ELSE "execute"
    /\ UNCHANGED <<schedVars, elapsed, behind, catchup, shutdown, sent, outside, stops>>

\* executeCommand()
EventOf(c) ==
    CASE c.type = "BlockPlaced" -> Placed(c.pos, c.blk)
      [] c.type = "BlockBroken" -> Broken(c.pos)
      [] c.type = "PlayerUse"   -> Event("PlayerUse", c.pos)

ExecuteCommand ==
    /\ thread = "execute" /\ batch # <<>>
    /\ PushExternalEvent(EventOf(Head(batch)))
    /\ batch' = Tail(batch)
    /\ UNCHANGED <<commands, thread, elapsed, behind, catchup, shutdown, sent, outside, stops>>

\* processEvents() begins, after the commands or in a tick.
BeginEvents ==
    /\ (thread = "execute" /\ batch = <<>>) \/ thread = "tick"
    /\ DrainExternalInput
    /\ thread' = IF thread = "tick" THEN "tick events" ELSE "events"
    /\ UNCHANGED <<commands, batch, elapsed, behind, catchup, shutdown, sent, outside, stops>>

RunEvents ==
    /\ thread \in {"events", "tick events"}
    /\ ProcessEvent \/ SwapOutbox
    /\ UNCHANGED sessionVars

\* It returns; in a tick nextTickTime moves on.
EndEvents ==
    /\ thread \in {"events", "tick events"} /\ Stable
    /\ IF thread = "events" THEN thread' = "clock" /\ UNCHANGED <<elapsed, behind, catchup>>
       ELSE thread' = "ticks" /\ elapsed' = elapsed - 1 /\ behind' = behind - 1 /\ catchup' = catchup + 1
    /\ UNCHANGED <<schedVars, commands, batch, shutdown, sent, outside, stops>>

ReadClock ==
    /\ thread = "clock"
    /\ behind' = elapsed /\ catchup' = 0
    /\ thread' = "ticks"
    /\ UNCHANGED <<schedVars, commands, batch, elapsed, shutdown, sent, outside, stops>>

RunTick ==
    /\ thread = "ticks" /\ behind > 0 /\ catchup < MaxCatchup
    /\ AdvanceGameTick
    /\ thread' = "tick"
    /\ UNCHANGED <<commands, batch, elapsed, behind, catchup, shutdown, sent, outside, stops>>

\* Whoever has caught up so much and is still late skips the rest.
EndTicks ==
    /\ thread = "ticks" /\ ~(behind > 0 /\ catchup < MaxCatchup)
    /\ elapsed' = IF catchup >= MaxCatchup THEN 0 ELSE elapsed
    /\ thread' = "test"
    /\ UNCHANGED <<schedVars, commands, batch, behind, catchup, shutdown, sent, outside, stops>>

GameThread ==
    \/ WaitForWork \/ AlarmFires \/ DrainCommands \/ ExecuteCommand
    \/ BeginEvents \/ RunEvents \/ EndEvents
    \/ ReadClock \/ RunTick \/ EndTicks

Next ==
    \/ \E c \in Command : Push(c)
    \/ \E p \in Positions : PushFromOutside(Event("BlockUpdate", p))
    \/ \E p \in Positions, t \in Types : Generate(p, t)
    \/ TimePasses \/ StopGameThread \/ StartGameThread
    \/ GameThread

Spec == SessionInit /\ [][Next]_vars

FairSpec == Spec /\ WF_vars(GameThread)
----------------------------------------------------------------------------
\* Every variable has its type; events are merged, and no tick is overdue
\* once its game tick has run.
TypeOK ==
    /\ setup \in Setups
    /\ block \in [Positions -> Types] /\ heard \in [Positions -> Types]
    /\ registered \subseteq Positions /\ subchunks \subseteq Positions
    /\ \A t \in scheduled : t.pos \in Positions /\ t.due > now
    /\ \A e, x \in outbox : Key(e) = Key(x) => e = x
    /\ owed \in [Positions -> SUBSET Faces]
    /\ thread \in {"test", "asleep", "drain", "execute", "events", "clock", "ticks", "tick", "tick events", "ended"}
    /\ batch # <<>> => thread = "execute"
    /\ elapsed \in Nat /\ behind \in Nat /\ catchup \in 0..MaxCatchup
    /\ thread \in {"ticks", "tick", "tick events"} => behind <= elapsed

(* As long as no two changes of one position are under way and handlers    *)
(* set no block but the one being placed, the light engine is told of what *)
(* is there, and the updates of a position make up its history: each       *)
(* replaces the block that the one before brought.  (onBlockPlaced() takes *)
(* away the light of the block it is told of.)                             *)
LightUpdatesChain ==
    setup.habits \cap {"races", "set_block", "place_air"} = {} =>
        /\ heard = block
        /\ update # None => update.old = update.heard

(* Without the habits, a tick reaches the block that asked for it and no   *)
(* later one, however the breaking of the block, the tick, a new block and *)
(* an undone placement meet.                                               *)
NoOrphanTicks ==
    setup.habits = {} /\ delivered # None => delivered.age \in delivered.from

(* Once the scheduler is stable no face of a mask is owed to a handler,    *)
(* whatever was merged and however the events of a position met.  (An      *)
(* event whose pusher adds no face to it reaches nobody.)                  *)
FacesAreNotForgotten == Stable /\ external = <<>> => \A p \in Positions : owed[p] = {}

(* A command that is queued is taken up and all its events are processed,  *)
(* unless the thread is stopped.                                           *)
CommandsAreServed == commands # <<>> ~> (commands = <<>> /\ batch = <<>> /\ Stable) \/ shutdown
============================================================================
