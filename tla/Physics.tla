------------------------------ MODULE Physics ------------------------------
(***************************************************************************)
(* Boxes, collision shapes, ray casting and the movement of bodies         *)
(* (physics.cpp, physics.hpp).  Lengths are integers, Unit to the block;   *)
(* velocities are lengths per frame.  A ray's direction is not normalised: *)
(* times along it are half steps of the direction, whose components are    *)
(* -2 to 2, so that every comparison is exact.  blocks is a function from  *)
(* positions to the collision shapes of the blocks there.                  *)
(***************************************************************************)
EXTENDS Rotation, FiniteSets, FiniteSetsExt, TLC

CONSTANTS Unit,     \* lengths per block
          Margin    \* COLLISION_MARGIN

ASSUME PhysicsAssumption == Unit \in Nat /\ Margin \in Nat /\ 16 * Margin < Unit /\ Unit % 16 = 0

Infinite == 2^29
Axes == 1..3
AbsOf(n) == IF n < 0 THEN -n ELSE n
Plus(a, b) == Each(LAMBDA i : a[i] + b[i])
Box(min, max) == [min |-> min, max |-> max]

Translated(box, v) == Box(Plus(box.min, v), Plus(box.max, v))
Expanded(box, v) == Box(Each(LAMBDA i : box.min[i] - v[i]), Plus(box.max, v))

\* intersects: touching counts.
Intersects(a, b) == \A i \in Axes : a.min[i] <= b.max[i] /\ a.max[i] >= b.min[i]

\* toBlockPos.
BlockAt(v) == Each(LAMBDA i : v[i] \div Unit)

----------------------------------------------------------------------------
(* Shapes: sets of boxes inside the unit block *)

NoShape == {}
FullBlock == {Box(<<0, 0, 0>>, <<Unit, Unit, Unit>>)}
HalfSlabBottom == {Box(<<0, 0, 0>>, <<Unit, Unit \div 2, Unit>>)}
HalfSlabTop == {Box(<<0, Unit \div 2, 0>>, <<Unit, Unit, Unit>>)}
FencePost == {Box(<<3 * (Unit \div 8), 0, 3 * (Unit \div 8)>>, <<5 * (Unit \div 8), Unit, 5 * (Unit \div 8)>>)}
ThinFloor == {Box(<<0, 0, 0>>, <<Unit, Unit \div 16, Unit>>)}

\* bounds.
BoundsOf(shape) == IF shape = {} THEN Box(<<0, 0, 0>>, <<0, 0, 0>>)
                   ELSE Box(Each(LAMBDA i : Min({b.min[i] : b \in shape})), Each(LAMBDA i : Max({b.max[i] : b \in shape})))

AtPosition(shape, p) == {Translated(b, Each(LAMBDA i : p[i] * Unit)) : b \in shape}

\* transformed: the corners of each box turned about the centre of the block.
Transformed(shape, r) ==
    LET half == <<Unit \div 2, Unit \div 2, Unit \div 2>>
        turned(b) == {Plus(Apply(r, Each(LAMBDA i : (IF up[i] THEN b.max[i] ELSE b.min[i]) - half[i])), half) :
                      up \in [Axes -> BOOLEAN]}
        hull(points) == Box(Each(LAMBDA i : Min({p[i] : p \in points})), Each(LAMBDA i : Max({p[i] : p \in points})))
    IN  {hull(turned(b)) : b \in shape}

\* The shape a position has for collisions: none where there is no block.
ShapeAt(blocks, p) == IF p \in DOMAIN blocks THEN blocks[p] ELSE NoShape

----------------------------------------------------------------------------
(* Ray casting *)

Time(b, o, d) == IF d > 0 THEN (2 * (b - o)) \div d ELSE -((2 * (b - o)) \div (-d))
MinOf(a, b) == IF a < b THEN a ELSE b
MaxOf(a, b) == IF a < b THEN b ELSE a

\* rayIntersect: entry and exit by slabs; inside the box the face is the default.
RayIntersect(box, o, d) ==
    LET moving == {i \in Axes : d[i] # 0}
        near(i) == MinOf(Time(box.min[i], o[i], d[i]), Time(box.max[i], o[i], d[i]))
        far(i)  == MaxOf(Time(box.min[i], o[i], d[i]), Time(box.max[i], o[i], d[i]))
        t1   == Max({near(i) : i \in moving})
        t2   == Min({far(i) : i \in moving})
        axis == Min({i \in moving : near(i) = t1})
    IN  [hit  |-> /\ \A i \in Axes \ moving : box.min[i] <= o[i] /\ o[i] <= box.max[i]
                  /\ t1 <= t2
                  /\ t2 >= 0,
         min  |-> t1, max |-> t2,
         face |-> IF t1 < 0 THEN 3 ELSE IF d[axis] > 0 THEN 2 * axis - 2 ELSE 2 * axis - 1]

Miss == [hit |-> FALSE]
HitAt(p, face, t) == [hit |-> TRUE, block |-> p, face |-> face, t |-> t]

\* The block the ray starts in: the box it is in, or one it enters; the first
\* of the shape's list, whose order is left open.
StartHit(blocks, o, d, limit) ==
    LET p == BlockAt(o)
        struck == {h \in {RayIntersect(b, o, d) : b \in AtPosition(ShapeAt(blocks, p), p)} : h.hit}
        inside == {h \in struck : h.min <= 0}
        ahead  == {h \in struck : h.min > 0 /\ h.min <= limit}
        any == {HitAt(p, h.face, 0) : h \in inside} \cup {HitAt(p, h.face, h.min) : h \in ahead}
    IN  IF any = {} THEN {Miss} ELSE any

\* A later block on the way: the nearest of its boxes.
BlockHit(blocks, p, o, d, limit) ==
    LET struck == {h \in {RayIntersect(b, o, d) : b \in AtPosition(ShapeAt(blocks, p), p)} :
                   h.hit /\ h.min > 0 /\ h.min <= limit}
    IN  IF struck = {} THEN Miss
        ELSE LET h == CHOOSE h \in struck : \A other \in struck : h.min <= other.min
             IN  HitAt(p, h.face, h.min)

\* Mutant: x is taken when it comes before y, whatever z is.
StepAxis_NoZ(tMax) == IF tMax[1] < tMax[2] THEN 1 ELSE IF tMax[2] < tMax[3] THEN 2 ELSE 3

\* The axis of the next block boundary; a tie goes to the later axis.
StepAxis(tMax) == IF tMax[1] < tMax[2] THEN (IF tMax[1] < tMax[3] THEN 1 ELSE 3)
                  ELSE IF tMax[2] < tMax[3] THEN 2 ELSE 3

\* raycastBlocks: from block to block up to the limit.
Raycast(blocks, o, d, limit) ==
    LET boundary(p, i) == IF d[i] = 0 THEN Infinite
                          ELSE Time((IF d[i] > 0 THEN p[i] + 1 ELSE p[i]) * Unit, o[i], d[i])
        delta(i) == (2 * Unit) \div AbsOf(d[i])
        walk[n \in 0..(3 * (limit \div Unit) + 6)] ==
            IF n = 0 THEN [p |-> BlockAt(o), t |-> 0, tMax |-> Each(LAMBDA i : boundary(BlockAt(o), i)), found |-> Miss]
            ELSE LET w == walk[n - 1]
                     i == StepAxis(w.tMax)
                     p == [w.p EXCEPT ![i] = @ + (IF d[i] >= 0 THEN 1 ELSE -1)]
                 IN  IF w.found.hit \/ w.t > limit THEN w
                     ELSE [p |-> p, t |-> w.tMax[i],
                           tMax |-> [w.tMax EXCEPT ![i] = IF d[i] = 0 THEN Infinite ELSE @ + delta(i)],
                           found |-> IF w.tMax[i] > limit THEN Miss ELSE BlockHit(blocks, p, o, d, limit)]
        last == walk[3 * (limit \div Unit) + 6]
    IN  {IF first.hit THEN first ELSE last.found : first \in StartHit(blocks, o, d, limit)}

----------------------------------------------------------------------------
(* Movement *)

\* boundingBox: the position is the middle of the bottom.
BodyBox(body) ==
    Box(<<body.pos[1] - body.half[1], body.pos[2], body.pos[3] - body.half[3]>>,
        <<body.pos[1] + body.half[1], body.pos[2] + 2 * body.half[2], body.pos[3] + body.half[3]>>)

\* collectColliders: the boxes of the blocks in reach that touch the region.
Colliders(blocks, region) ==
    LET reach == {p \in DOMAIN blocks : \A i \in Axes : /\ region.min[i] \div Unit <= p[i]
                                                        /\ p[i] <= region.max[i] \div Unit}
    IN  {b \in UNION {AtPosition(blocks[p], p) : p \in reach} : Intersects(b, region)}

\* Mutant: a collider that the body has all but touched is not looked at.
Resolve_SkipsNear(box, colliders, axis, movement) ==
    LET beside == {c \in colliders : \A i \in Axes \ {axis} : box.max[i] > c.min[i] /\ box.min[i] < c.max[i]}
        allowed(c) == IF movement > 0 THEN c.min[axis] - box.max[axis] - Margin ELSE box.min[axis] - c.max[axis] - Margin
        ways == {AbsOf(movement)} \cup {allowed(c) : c \in {c \in beside : allowed(c) > 0}}
    IN  IF movement > 0 THEN Min(ways) ELSE -Min(ways)

\* resolveAxisCollision: as far as the nearest collider allows, with the margin.
\* A collider nearer than the margin stops the movement, one that touches or
\* overlaps the body is passed over.
Resolve(box, colliders, axis, movement) ==
    LET beside == {c \in colliders : \A i \in Axes \ {axis} : box.max[i] > c.min[i] /\ box.min[i] < c.max[i]}
        allowed(c) == IF movement > 0 THEN c.min[axis] - box.max[axis] - Margin ELSE box.min[axis] - c.max[axis] - Margin
        ways == {AbsOf(movement)} \cup {MaxOf(0, allowed(c)) : c \in {c \in beside : allowed(c) > -Margin}}
    IN  IF movement > 0 THEN Min(ways) ELSE -Min(ways)

Along(axis, n) == Each(LAMBDA i : IF i = axis THEN n ELSE 0)
Horizontal(move) == move[1] * move[1] + move[3] * move[3]
Farther(a, b) == Horizontal(a) > Horizontal(b) + (Unit \div 1000) * Unit

\* What is left of a movement that is resolved axis by axis, after a first step.
Resolved(box, colliders, move, axes, first) ==
    FoldLeft(LAMBDA made, i : [made EXCEPT ![i] = @ + Resolve(Translated(box, made), colliders, i, move[i])], first, axes)

\* Standard resolution: y, then x, then z.
StandardMove(box, colliders, move) == Resolved(box, colliders, move, <<2, 1, 3>>, <<0, 0, 0>>)

\* tryStepClimbing: every sixteenth of a block up to the body's step height; up,
\* then x, then z, and down again.
StepMove(box, colliders, move, maxStep) ==
    LET tried(h) == Resolved(box, colliders, [move EXCEPT ![2] = @ - h], <<1, 3, 2>>, <<0, h, 0>>)
        heights == [n \in 1..(maxStep \div (Unit \div 16)) + 1 |-> (n - 1) * (Unit \div 16)]
        free(h) == Resolve(box, colliders, 2, h) >= h - Margin
        better(best, new) == IF Farther(new, best) THEN new ELSE best
    IN  FoldLeft(LAMBDA best, h : better(best, tried(h)), <<0, 0, 0>>, SelectSeq(heights, free))

\* The movement a body makes; a body on the ground may climb.
Movement(blocks, body, move) ==
    LET box == BodyBox(body)
        colliders == Colliders(blocks, Expanded(box, Each(LAMBDA i : AbsOf(move[i]) + Unit)))
        standard == StandardMove(box, colliders, move)
        step == StepMove(box, colliders, move, body.step)
    IN  IF body.ground /\ (move[1] # 0 \/ move[3] # 0) /\ Farther(step, standard) THEN step ELSE standard

\* moveBody.
MoveBody(blocks, body, move) ==
    LET made == Movement(blocks, body, move)
    IN  [body EXCEPT !.pos = Plus(@, made), !.ground = move[2] < -Margin /\ made[2] > move[2] + Margin]

\* applyGravity.
ApplyGravity(body, g) == IF body.gravity THEN [body EXCEPT !.vel[2] = @ - g] ELSE body

\* update: what stops the body vertically takes its vertical velocity.
UpdateBody(blocks, body, g) ==
    LET falling == ApplyGravity(body, g)
        moved == MoveBody(blocks, falling, falling.vel)
    IN  IF AbsOf((moved.pos[2] - body.pos[2]) - falling.vel[2]) > Margin THEN [moved EXCEPT !.vel[2] = 0] ELSE moved

\* checkOnGround: something ends within two margins below the body.
CheckOnGround(blocks, body) ==
    LET box == BodyBox(body)
        low == Translated(box, Along(2, -2 * Margin))
        region == [low EXCEPT !.max[2] = box.min[2] + Margin]
    IN  \E c \in Colliders(blocks, region) :
           /\ box.min[2] - 2 * Margin <= c.max[2] /\ c.max[2] <= box.min[2] + Margin
           /\ \A i \in {1, 3} : box.max[i] > c.min[i] /\ box.min[i] < c.max[i]

\* wouldBlockIntersectEntity: the block, less the margin on every side.
WouldIntersect(p, box) ==
    Intersects(Box(Each(LAMBDA i : p[i] * Unit + Margin), Each(LAMBDA i : (p[i] + 1) * Unit - Margin)), box)

----------------------------------------------------------------------------
(* Sweeping a box, and the camera behind the body *)

\* sweepCollision of a box that moves by steps / 2 times the direction d: when
\* it first touches the other one, Infinite if it does not get there.
Sweep(box, other, d, steps) ==
    LET wide == Box(Each(LAMBDA i : other.min[i] - (box.max[i] - box.min[i])), other.max)
        hit == RayIntersect(wide, box.min, d)
    IN  IF Intersects(box, other) THEN 0
        ELSE IF d = <<0, 0, 0>> THEN Infinite
        ELSE IF ~hit.hit \/ hit.min > steps THEN Infinite ELSE MaxOf(0, hit.min)

CameraRadius == 2 * (Unit \div 5)
AtRadius(d) == CASE Horizontal(d) + d[2] * d[2] = 1 -> 2 * CameraRadius
                 [] Horizontal(d) + d[2] * d[2] = 2 -> (2 * CameraRadius * 707) \div 1000
                 [] OTHER -> (2 * CameraRadius * 577) \div 1000
Probes == [Axes -> {-1, 0, 1}] \ {<<0, 0, 0>>}

\* Away from every wall nearer than the radius: the rays all start at the place.
PushedOut(blocks, place) ==
    LET found(q) == CHOOSE h \in Raycast(blocks, place, q, AtRadius(q)) : TRUE
        away(at, q, h) == IF h.hit THEN Each(LAMBDA i : at[i] - q[i] * ((AtRadius(q) - h.t) \div 2)) ELSE at
    IN  FoldSet(LAMBDA q, at : away(at, q, found(q)), place, Probes)

\* adjustCameraForWallCollision, from the safe origin n along an axis d: a wall
\* within three blocks pulls the camera in, then walls around push it away.
\* toCamera.length() is the number of components, 3, whatever the distance is.
AdjustCamera(blocks, origin, d, n) ==
    LET wall == CHOOSE h \in Raycast(blocks, origin, d, 2 * 3 * Unit) : TRUE
        kept(h) == IF h.hit THEN (n * MaxOf(0, (h.t \div 2) - CameraRadius)) \div (3 * Unit) ELSE n
        free(at) == IF \E i \in Axes : d[i] * (at[i] - origin[i]) < 0 THEN origin ELSE at
        along(k) == Plus(origin, Each(LAMBDA i : d[i] * k))
    IN  free(PushedOut(blocks, along(kept(wall))))

----------------------------------------------------------------------------
(* Reference definitions *)

\* The body and the blocks have no volume in common.
ClearOf(blocks, box) ==
    \A p \in DOMAIN blocks : \A b \in AtPosition(blocks[p], p) :
       \E i \in Axes : box.max[i] <= b.min[i] \/ b.max[i] <= box.min[i]

\* The ray runs through the inside of the box, from time t1 to time t2.
Pierces(b, o, d) ==
    LET h == RayIntersect(b, o, d)
    IN  h.hit /\ h.min < h.max /\ \A i \in Axes : d[i] = 0 => b.min[i] < o[i] /\ o[i] < b.max[i]

\* The boxes a ray has to find when it runs through them.  Where it starts on a
\* face of another cell's box and leads into that, it passes through: the walk
\* asks for tMin > 0.
MustFind(blocks, p, o, d) ==
    {h \in {RayIntersect(b, o, d) : b \in {b \in AtPosition(blocks[p], p) : Pierces(b, o, d)}} :
        h.max > 0 /\ (h.min > 0 \/ p = BlockAt(o))}

\* What is found is on the ray, be it at an edge only, and nothing is run through
\* before; nothing is found when nothing is run through within the limit.
FirstHit(blocks, o, d, limit, found) ==
    LET pierced == {h \in UNION {MustFind(blocks, p, o, d) : p \in DOMAIN blocks} : h.min <= limit}
    IN  IF found.hit
        THEN /\ \A h \in pierced : found.t <= MaxOf(h.min, 0)
             /\ \E b \in AtPosition(blocks[found.block], found.block) :
                   LET h == RayIntersect(b, o, d) IN h.hit /\ MaxOf(h.min, 0) = found.t /\ h.face = found.face
        ELSE pierced = {}
=============================================================================
