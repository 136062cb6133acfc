--------------------------- MODULE EntityManager ---------------------------
(***************************************************************************)
(* Entities of the game thread (entity_manager.cpp) with the player on the *)
(* main thread (player_controller.cpp, the loop of render_demo.cpp): the   *)
(* main thread moves its own body, sends its state and its clicks as       *)
(* commands, and takes the graphics events; the game thread executes the   *)
(* commands and ticks.  view is what a consumer of the graphics events     *)
(* makes of them (the demo throws them away).  A block that is placed      *)
(* appears when its command is executed; what follows from it is in        *)
(* GameSession.                                                            *)
(***************************************************************************)
EXTENDS PlayerController, SequencesExt

CONSTANTS Setups,
          ItemMaxAge,     \* ItemDropEntity::maxAge_, in ticks
          Threshold       \* correctionThreshold_

\* Callers choose ids that the manager's counter does not reach.
ASSUME EntityAssumption ==
    \A s \in Setups : s.maxCalls \in Nat /\ s.ids \subseteq Nat /\ \A id \in s.ids : id > s.maxCalls + 1

VARIABLES setup,              \* the scenario, fixed at the start
          blocks,             \* collision shapes of the world's blocks
          body, ctl, camera,  \* the player's body, controller and camera, main thread
          playerId,           \* the id the main thread got for its player
          commands,           \* the command queue
          entities, nextEntityId, localPlayerId, playerAuthorities, currentTick,
          graphicsQueue,
          view,               \* what the graphics events have told so far
          calls               \* calls made, up to setup.maxCalls

gameVars == <<entities, nextEntityId, localPlayerId, playerAuthorities, currentTick, graphicsQueue>>
vars == <<setup, blocks, body, ctl, camera, playerId, commands, gameVars, view, calls>>

Call(name) == name \in setup.calls /\ calls < setup.maxCalls /\ calls' = calls + 1

PlayerSize == <<3 * (Unit \div 10), 9 * (Unit \div 10), 3 * (Unit \div 10)>>
MaxStep == 5 * (Unit \div 8)

NewBody(pos, half, step) == [pos |-> pos, vel |-> <<0, 0, 0>>, ground |-> FALSE, half |-> half, step |-> step, gravity |-> TRUE]

EntityWith(type, b) ==
    [pos |-> b.pos, vel |-> b.vel, ground |-> b.ground, half |-> b.half, step |-> b.step, gravity |-> b.gravity,
     type |-> type, chunk |-> ChunkOf(BlockAt(b.pos)), removed |-> FALSE, age |-> 0]

\* createEntity: size, step height and gravity by type.
CreateEntity(type, pos) ==
    LET cube(n) == <<n, n, n>>
    IN  EntityWith(type,
            CASE type = "player"   -> NewBody(pos, PlayerSize, MaxStep)
              [] type = "pig"      -> NewBody(pos, cube(9 * (Unit \div 20)), MaxStep)
              [] type = "item"     -> NewBody(pos, cube(Unit \div 8), 0)
              [] type = "fireball" -> [NewBody(pos, cube(Unit \div 8), MaxStep) EXCEPT !.gravity = FALSE])

IsAlive(e) == ~e.removed

SpawnEvent(id, e) == [type |-> "spawn", id |-> id, pos |-> e.pos, tick |-> 0]
DespawnEvent(id) == [type |-> "despawn", id |-> id]
SnapshotEvent(id, e, tick) == [type |-> "snapshot", id |-> id, pos |-> e.pos, tick |-> tick]
CorrectionEvent(id, e) == [type |-> "correction", id |-> id, pos |-> e.pos]

\* The table with one more entry, or with another value for it.
Entered(table, id, value) == [i \in DOMAIN table \cup {id} |-> IF i = id THEN value ELSE table[i]]

\* A consumer of the events; one that does not fit what it knows is a fault.
Applied(v, e) ==
    CASE e.type = "spawn"      -> [shown |-> Entered(v.shown, e.id, e.pos), wrong |-> v.wrong \/ e.id \in DOMAIN v.shown]
      [] e.type = "despawn"    -> [shown |-> Restrict(v.shown, DOMAIN v.shown \ {e.id}),
                                   wrong |-> v.wrong \/ e.id \notin DOMAIN v.shown]
      [] e.type = "snapshot"   -> [shown |-> Entered(v.shown, e.id, e.pos), wrong |-> v.wrong \/ e.id \notin DOMAIN v.shown]
      [] e.type = "correction" -> [v EXCEPT !.wrong = @ \/ e.id \notin DOMAIN v.shown]

\* What it makes of a queue of them.
Viewed(v, events) ==
    LET told[n \in 0..Len(events)] == IF n = 0 THEN v ELSE Applied(told[n - 1], events[n])
    IN  told[Len(events)]

Init ==
    /\ setup \in Setups
    /\ blocks = setup.blocks
    /\ body = NewBody(setup.start, PlayerSize, MaxStep)
    /\ ctl = [NewController EXCEPT !.fly = setup.fly, !.flyPos = Eye(setup.start)]
    /\ camera = Eye(setup.start)
    /\ playerId = 0
    /\ commands = <<>>
    /\ entities = <<>>
    /\ nextEntityId = 1
    /\ localPlayerId = 0
    /\ playerAuthorities = <<>>
    /\ currentTick = 0
    /\ graphicsQueue = <<>>
    /\ view = [shown |-> <<>>, wrong |-> FALSE]
    /\ calls = 0

----------------------------------------------------------------------------
(* Game thread *)

\* spawnEntity: the event is pushed before the entity is entered.
SpawnEntity(id, type, pos) ==
    /\ graphicsQueue' = Append(graphicsQueue, SpawnEvent(id, CreateEntity(type, pos)))
    /\ entities' = Entered(entities, id, CreateEntity(type, pos))

\* spawnEntity(type, position).
Spawn(type, pos) ==
    /\ Call("spawn")
    /\ SpawnEntity(nextEntityId, type, pos)
    /\ nextEntityId' = nextEntityId + 1
    /\ UNCHANGED <<setup, blocks, body, ctl, camera, playerId, commands, localPlayerId, playerAuthorities, currentTick, view>>

\* spawnEntity(unique_ptr): the id is the caller's, here one nobody has used.
SpawnBuilt(id, type, pos) ==
    /\ Call("spawn")
    /\ id \notin DOMAIN entities
    /\ SpawnEntity(id, type, pos)
    /\ UNCHANGED <<setup, blocks, body, ctl, camera, playerId, commands, nextEntityId, localPlayerId, playerAuthorities, currentTick, view>>

Authority(pos, seq) == [pos |-> pos, seq |-> seq]

\* spawnPlayer and setLocalPlayerId, as the demo starts.
SpawnPlayer ==
    /\ Call("player")
    /\ playerId = 0
    /\ SpawnEntity(nextEntityId, "player", body.pos)
    /\ playerAuthorities' = Entered(playerAuthorities, nextEntityId, Authority(body.pos, 0))
    /\ playerId' = nextEntityId
    /\ localPlayerId' = nextEntityId
    /\ nextEntityId' = nextEntityId + 1
    /\ UNCHANGED <<setup, blocks, body, ctl, camera, commands, currentTick, view>>

\* Mutant: the authority of a player outlives it.
Despawned_KeepsAuthority(g, ids) ==
    LET gone == ids \cap DOMAIN g.entities
    IN  [entities |-> Restrict(g.entities, DOMAIN g.entities \ gone),
         auth |-> g.auth,
         local |-> IF g.local \in gone THEN 0 ELSE g.local,
         events |-> g.events \o SetToSeq({DespawnEvent(id) : id \in gone})]

\* despawnEntity of some ids, one after the other, on the manager's tables;
\* one it does not have is ignored.
Despawned(g, ids) ==
    LET gone == ids \cap DOMAIN g.entities
    IN  [entities |-> Restrict(g.entities, DOMAIN g.entities \ gone),
         auth |-> Restrict(g.auth, DOMAIN g.auth \ gone),
         local |-> IF g.local \in gone THEN 0 ELSE g.local,
         events |-> g.events \o SetToSeq({DespawnEvent(id) : id \in gone})]

Tables(ents, events) == [entities |-> ents, auth |-> playerAuthorities, local |-> localPlayerId, events |-> events]
SetTables(g) ==
    /\ entities' = g.entities
    /\ playerAuthorities' = g.auth
    /\ localPlayerId' = g.local
    /\ graphicsQueue' = graphicsQueue \o g.events

Despawn(id) ==
    /\ Call("despawn")
    /\ SetTables(Despawned(Tables(entities, <<>>), {id}))
    /\ UNCHANGED <<setup, blocks, body, ctl, camera, playerId, commands, nextEntityId, currentTick, view>>

\* markForRemoval, by whoever holds the entity.
MarkForRemoval(id) ==
    /\ Call("despawn")
    /\ entities' = [entities EXCEPT ![id].removed = TRUE]
    /\ UNCHANGED <<setup, blocks, body, ctl, camera, playerId, commands, nextEntityId, localPlayerId, playerAuthorities,
                   currentTick, graphicsQueue, view>>

\* Entity::tick: an item grows old.
Ticked(e) == IF ~IsAlive(e) \/ e.type # "item" THEN e
             ELSE [e EXCEPT !.age = @ + 1, !.removed = e.age + 1 >= ItemMaxAge]

Times(v, n) == Each(LAMBDA i : v[i] * n)

\* physicsPass of one entity, over setup.tick frames; nothing that stops it
\* takes its velocity.
Moved(e) ==
    IF ~IsAlive(e) THEN e
    ELSE LET falling == ApplyGravity(e, setup.gravity * setup.tick)
             moved == MoveBody(blocks, falling, Times(falling.vel, setup.tick))
         IN  [moved EXCEPT !.ground = CheckOnGround(blocks, moved)]

\* processEntityTransfers.
Transferred(e) == [e EXCEPT !.chunk = ChunkOf(BlockAt(e.pos))]

Far(a, b) == (a[1] - b[1]) * (a[1] - b[1]) + (a[2] - b[2]) * (a[2] - b[2]) + (a[3] - b[3]) * (a[3] - b[3])
                > Threshold * Threshold

\* publishSnapshots: of the living, as they are after this tick.
Published(ents, tick) == SetToSeq({SnapshotEvent(id, ents[id], tick) : id \in {id \in DOMAIN ents : IsAlive(ents[id])}})

\* validatePlayerPredictions.
Corrections(ents) ==
    SetToSeq({CorrectionEvent(id, ents[id]) :
              id \in {id \in DOMAIN playerAuthorities \cap DOMAIN ents : Far(ents[id].pos, playerAuthorities[id].pos)}})

\* tick: entities, physics, transfers, corrections, snapshots, removals.
Tick ==
    /\ Call("tick")
    /\ currentTick' = currentTick + 1
    /\ LET after == [id \in DOMAIN entities |-> Transferred(Moved(Ticked(entities[id])))]
           marked == {id \in DOMAIN after : after[id].removed}
           events == (IF setup.validation THEN Corrections(after) ELSE <<>>) \o Published(after, currentTick')
       IN  SetTables(Despawned(Tables(after, events), marked))
    /\ UNCHANGED <<setup, blocks, body, ctl, camera, playerId, commands, nextEntityId, view>>

\* handlePlayerPosition: the game thread takes what the player reports.
HandlePlayerPosition(cmd) ==
    /\ IF cmd.id \in DOMAIN entities
       THEN /\ playerAuthorities' = Entered(playerAuthorities, cmd.id, Authority(cmd.pos, cmd.seq))
            /\ entities' = [entities EXCEPT ![cmd.id] = [@ EXCEPT !.pos = cmd.pos, !.vel = cmd.vel, !.ground = cmd.ground]]
       ELSE UNCHANGED <<playerAuthorities, entities>>
    /\ UNCHANGED blocks

\* executeCommand, the oldest of the queue.
Execute ==
    /\ commands # <<>>
    /\ LET cmd == Head(commands)
       IN  CASE cmd.type = "state" -> HandlePlayerPosition(cmd)
             [] cmd.type = "place" -> blocks' = Entered(blocks, cmd.pos, FullBlock) /\ UNCHANGED <<playerAuthorities, entities>>
             [] cmd.type = "break" -> blocks' = Restrict(blocks, DOMAIN blocks \ {cmd.pos}) /\ UNCHANGED <<playerAuthorities, entities>>
    /\ commands' = Tail(commands)
    /\ UNCHANGED <<setup, body, ctl, camera, playerId, nextEntityId, localPlayerId, currentTick, graphicsQueue, view, calls>>

----------------------------------------------------------------------------
(* Main thread *)

\* What one frame sends; the demo leaves the input sequence at zero.
StateCommand(b) == [type |-> "state", id |-> playerId, pos |-> b.pos, vel |-> b.vel, ground |-> b.ground, seq |-> 0]

\* Above the middle of the body, kept out of walls.
CameraOf(b) == AdjustCamera(blocks, Plus(b.pos, <<0, b.half[2], 0>>), <<0, 1, 0>>, EyeHeight - b.half[2])

\* A frame: input flags, update, the camera, sendPlayerState, drainAll of the
\* events.  A flying camera moves as far as the controller's position does.
Frame(keys) ==
    /\ Call("frame")
    /\ \E new \in {UpdateController([ctl EXCEPT !.keys = keys], body, blocks, setup.gravity)} :
          /\ ctl' = new.ctl
          /\ body' = new.body
          /\ camera' = IF new.ctl.fly THEN Plus(camera, Plus(new.ctl.flyPos, Negated(ctl.flyPos))) ELSE CameraOf(new.body)
          /\ commands' = IF playerId = 0 THEN commands ELSE Append(commands, StateCommand(new.body))
    /\ view' = Viewed(view, graphicsQueue)
    /\ graphicsQueue' = <<>>
    /\ UNCHANGED <<setup, blocks, playerId, entities, nextEntityId, localPlayerId, playerAuthorities, currentTick>>

Input(new) ==
    /\ ctl' = new.ctl
    /\ body' = new.body
    /\ UNCHANGED <<setup, blocks, playerId, commands, gameVars, view>>

Jump == Call("jump") /\ ~ctl.fly /\ Input([ctl |-> RequestJump(ctl), body |-> body]) /\ UNCHANGED camera
LookAround(yaw, pitch) == Call("look") /\ Input([ctl |-> Look(ctl, yaw, pitch), body |-> body]) /\ UNCHANGED camera

\* F5: from flying, the camera goes to the eye; to flying, it stays.
ToggleFly ==
    /\ Call("fly")
    /\ Input(SetFlyMode(ctl, body, ~ctl.fly))
    /\ camera' = IF ctl.fly THEN EyePosition(ctl', body') ELSE camera

\* setInputContext, to a menu and back.
SwitchContext == Call("context") /\ Input([ctl |-> ClearInput(ctl), body |-> body]) /\ UNCHANGED camera

\* F2, F3: camera and body are moved, the body is at rest.
Teleport(pos) ==
    /\ Call("teleport")
    /\ Input([ctl  |-> [ctl EXCEPT !.flyPos = Eye(pos)],
              body |-> [body EXCEPT !.pos = pos, !.vel = <<0, 0, 0>>]])
    /\ camera' = Eye(pos)

\* A click: what the ray of ten blocks finds, as the world is now.
Click(aim, button) ==
    /\ Call("click")
    /\ \E found \in Raycast(blocks, camera, aim, 2 * 10 * Unit) :
          /\ found.hit
          /\ LET place == Neighbor(found.block, found.face)
             IN  commands' = CASE button = "left" -> Append(commands, [type |-> "break", pos |-> found.block])
                               [] WouldIntersect(place, BodyBox(body)) /\ setup.placement = "block" -> commands
                               [] OTHER -> Append(commands, [type |-> "place", pos |-> place])
    /\ UNCHANGED <<setup, blocks, body, ctl, camera, playerId, gameVars, view>>

Next ==
    \/ \E type \in setup.types, pos \in setup.spots : Spawn(type, pos) \/ \E id \in setup.ids : SpawnBuilt(id, type, pos)
    \/ SpawnPlayer
    \/ \E id \in DOMAIN entities : Despawn(id) \/ MarkForRemoval(id)
    \/ Tick \/ Execute
    \/ \E keys \in setup.keys : Frame(keys)
    \/ Jump \/ ToggleFly \/ SwitchContext
    \/ \E yaw \in 0..1, pitch \in -1..1 : LookAround(yaw, pitch)
    \/ \E pos \in setup.spots : Teleport(pos)
    \/ \E aim \in setup.aims, button \in {"left", "right"} : Click(aim, button)

Spec == Init /\ [][Next]_vars
----------------------------------------------------------------------------
(* Properties *)

\* A consumer that applies the graphics events in order knows every entity
\* exactly while it exists, each where it is (players move between ticks too).
ViewFollowsEntities ==
    LET v == Viewed(view, graphicsQueue)
    IN  /\ ~v.wrong
        /\ DOMAIN v.shown = DOMAIN entities
        /\ \A id \in DOMAIN entities : entities[id].type # "player" => v.shown[id] = entities[id].pos

\* No authority and no local player without an entity, however late a player's
\* commands arrive (handlePlayerPosition, despawnEntity).
AuthoritiesAreLive == DOMAIN playerAuthorities \cup {localPlayerId} \subseteq DOMAIN entities \cup {0}

\* A body has a gap to every block.
Apart(b) == \A p \in DOMAIN blocks : \A c \in AtPosition(blocks[p], p) :
               \E i \in Axes : BodyBox(b).max[i] < c.min[i] \/ c.max[i] < BodyBox(b).min[i]

\* The player walks: its body is moved by frames only.
Walking == ~ctl.fly /\ setup.calls \cap {"fly", "teleport"} = {}

\* What touches no block never gets into one, whatever it runs into, climbs or
\* falls on, in how many directions at once; and the camera is in no block.
BodiesStayClear ==
    [][blocks' = blocks =>
         /\ Walking /\ Apart(body) => ClearOf(blocks, BodyBox(body')) /\ ClearOf(blocks, Box(camera', camera'))
         /\ currentTick' # currentTick =>
               \A id \in DOMAIN entities \cap DOMAIN entities' :
                  Apart(entities[id]) => ClearOf(blocks, BodyBox(entities'[id]))]_vars

\* A walking body rises by its step height from the ground, or by the speed it
\* jumped off the ground with: it never climbs or jumps in the air, however
\* long ago the jump was asked for (player_controller.cpp, physics.cpp).
RisesFromGround ==
    [][Walking =>
         /\ body'.vel[2] > MaxOf(body.vel[2], 0) => body.ground
         /\ body'.pos[2] > body.pos[2] + MaxOf(body.vel[2], 0) => body.ground
         /\ body'.pos[2] <= body.pos[2] + MaxOf(MaxOf(body.vel[2], JumpVelocity), body.step)]_vars

\* Switching between body and free camera leaves the eye where it is.
ModeKeepsEye ==
    [][ctl'.fly # ctl.fly => EyePosition(ctl', body') = EyePosition(ctl, body)]_vars

\* Blocks turn as one: a shape's bounds turn with it, a turned full block is
\* full, turning back restores it. The two horizontal turns (rotation.hpp) agree
\* but for their sense: faces go round the other way than coordinates.
ShapesTurn ==
    /\ \A s \in {FullBlock, HalfSlabBottom, FencePost, ThinFloor, HalfSlabTop \cup FencePost}, r \in Range(AllRotations) :
          /\ Transformed({BoundsOf(s)}, r) = {BoundsOf(Transformed(s, r))}
          /\ Transformed(Transformed(s, r), InverseOf(r)) = s
          /\ \A f \in Face : ApplyToFace(InverseOf(r), ApplyToFace(r, f)) = f
    /\ \A turns \in -4..4, f \in Face :
          LET t == QuarterTurns(turns)
              n == FaceNormal(f)
              m == FaceNormal(ApplyHorizontalFace(t, f))
          IN  /\ <<m[1], m[3]>> = ApplyHorizontal(InvertTurns(t), n[1], n[3])
              /\ ApplyHorizontalFace(InvertTurns(t), ApplyHorizontalFace(t, f)) = f

\* A ray finds the first block on its way, with the face it enters, also through
\* edges and corners and from a face, an edge or a corner; only what it enters
\* exactly where it starts, in another cell, is passed over (raycastBlocks asks
\* for tMin > 0).  A swept box meets another exactly when it first touches it.
RaysFindFirst ==
    /\ ShapesTurn
    /\ \A ray \in setup.rays : \A found \in Raycast(blocks, ray.from, ray.to, ray.limit) :
          FirstHit(blocks, ray.from, ray.to, ray.limit, found)
    /\ \A ray \in setup.rays : \A p \in DOMAIN blocks : \A b \in AtPosition(blocks[p], p) :
          LET box == Box(ray.from, Plus(ray.from, <<Unit, Unit, Unit>>))
              at(t) == Translated(box, Each(LAMBDA i : (ray.to[i] * t) \div 2))
              t == Sweep(box, b, ray.to, ray.limit)
          IN  IF t = Infinite THEN \A k \in 0..(ray.limit \div 500) : ~Intersects(at(500 * k), b)
              ELSE Intersects(at(t), b) /\ (t > 1 => ~Intersects(at(t - 2), b))

\* The documentation's claim for placement mode "block": a block that would be
\* in the player's body is not placed (physics.hpp, BlockIfIntersects).
PlacedOutsideBody ==
    [][setup.placement = "block" =>
         \A p \in DOMAIN blocks' \ DOMAIN blocks : ~WouldIntersect(p, BodyBox(body))]_vars

\* The game's view of its entities is consistent: what the graphics thread is
\* sent, and what the manager keeps beside the entities.
EntitiesAreConsistent ==
    /\ ViewFollowsEntities
    /\ AuthoritiesAreLive

\* Bodies move by the rules, whatever is pressed and whatever is in the way:
\* never into a block, up only from the ground, and no jump of the camera.
BodiesMoveByTheRules ==
    /\ BodiesStayClear
    /\ RisesFromGround
    /\ ModeKeepsEye
=============================================================================
