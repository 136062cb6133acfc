-------------------------- MODULE PlayerController --------------------------
(***************************************************************************)
(* The player's movement (player_controller.cpp) on a physics body or as a *)
(* free camera.  Yaw is in quarter turns, pitch in steps within            *)
(* -MaxPitch..MaxPitch; speeds are lengths per frame.                      *)
(***************************************************************************)
EXTENDS Physics

CONSTANTS MoveSpeed, JumpVelocity, EyeHeight, MaxPitch

Keys == {"forward", "back", "left", "right", "up", "down"}

NewController == [fly |-> TRUE, flyPos |-> <<0, 0, 0>>, keys |-> {}, jump |-> FALSE, yaw |-> 0, pitch |-> 0]

RequestJump(c) == [c EXCEPT !.jump = TRUE]
ClearInput(c) == [c EXCEPT !.keys = {}, !.jump = FALSE]

\* look: the pitch is clamped, the yaw is not.
Look(c, dyaw, dpitch) == [c EXCEPT !.yaw = (@ + dyaw) % 4, !.pitch = MaxOf(-MaxPitch, MinOf(MaxPitch, @ + dpitch))]

HorizontalForward(c) == CASE c.yaw = 0 -> <<0, 0, 1>> [] c.yaw = 1 -> <<1, 0, 0>>
                          [] c.yaw = 2 -> <<0, 0, -1>> [] OTHER -> <<-1, 0, 0>>
\* The cross product of forward and up.
RightOf(c) == LET f == HorizontalForward(c) IN <<-f[3], 0, f[1]>>

Pushed(c, key, v) == IF key \in c.keys THEN v ELSE <<0, 0, 0>>
Negated(v) == Each(LAMBDA i : -v[i])
Wish(c) == Plus(Plus(Pushed(c, "forward", HorizontalForward(c)), Pushed(c, "back", Negated(HorizontalForward(c)))),
                Plus(Pushed(c, "right", RightOf(c)), Pushed(c, "left", Negated(RightOf(c)))))

\* A wish of components -1, 0 and 1, normalised, times the speed.
AtSpeed(v) ==
    LET share == CASE AbsOf(v[1]) + AbsOf(v[2]) + AbsOf(v[3]) = 1 -> 1000
                   [] AbsOf(v[1]) + AbsOf(v[2]) + AbsOf(v[3]) = 2 -> 707
                   [] OTHER -> 577
    IN  Each(LAMBDA i : v[i] * ((MoveSpeed * share) \div 1000))

Eye(pos) == Plus(pos, <<0, EyeHeight, 0>>)

\* eyePosition.
EyePosition(c, body) == IF c.fly THEN c.flyPos ELSE Eye(body.pos)

\* setFlyMode, with a body: whoever takes over starts where the other was, but
\* for the rounding of the camera's doubles to the body's floats.
SetFlyMode(c, body, fly) ==
    IF fly = c.fly THEN [ctl |-> c, body |-> body]
    ELSE IF fly THEN [ctl |-> [c EXCEPT !.fly = TRUE, !.flyPos = Eye(body.pos)], body |-> body]
    ELSE [ctl  |-> [c EXCEPT !.fly = FALSE],
          body |-> [body EXCEPT !.pos = Plus(c.flyPos, <<0, -EyeHeight, 0>>), !.vel = <<0, 0, 0>>]]

\* Friction: four fifths, and a stop below a hundredth of the speed.
Slowed(v) == LET kept == IF v >= 0 THEN (4 * v) \div 5 ELSE -((4 * (-v)) \div 5)
             IN  IF 100 * AbsOf(kept) < MoveSpeed THEN 0 ELSE kept

\* updatePhysicsMovement: a jump waits until the body is on the ground.
PhysicsMove(c, body, blocks, g) ==
    LET v == AtSpeed(Wish(c))
        steered == IF Wish(c) # <<0, 0, 0>> THEN <<v[1], body.vel[2], v[3]>>
                   ELSE <<Slowed(body.vel[1]), body.vel[2], Slowed(body.vel[3])>>
        jumps == c.jump /\ body.ground
    IN  [ctl  |-> [c EXCEPT !.jump = @ /\ ~jumps],
         body |-> UpdateBody(blocks, [body EXCEPT !.vel = [steered EXCEPT ![2] = IF jumps THEN JumpVelocity ELSE @]], g)]

\* updateFlyMovement.
FlyMove(c) ==
    LET wish == Plus(Wish(c), Plus(Pushed(c, "up", <<0, 1, 0>>), Pushed(c, "down", <<0, -1, 0>>)))
    IN  [c EXCEPT !.flyPos = Plus(@, AtSpeed(wish))]

\* update.
UpdateController(c, body, blocks, g) ==
    IF c.fly THEN [ctl |-> FlyMove(c), body |-> body] ELSE PhysicsMove(c, body, blocks, g)
=============================================================================
