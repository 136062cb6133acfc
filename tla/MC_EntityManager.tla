-------------------------- MODULE MC_EntityManager --------------------------
(* Model-checking instances of EntityManager: one scenario per question. *)
EXTENDS EntityManager

At(x, y, z) == <<x * Unit, y * Unit, z * Unit>>
Floor(xs, zs) == [p \in {<<x, 0, z>> : x \in xs, z \in zs} |-> FullBlock]

Setup(allowed, max, ground) ==
    [calls |-> allowed, maxCalls |-> max, blocks |-> ground, start |-> <<Unit \div 2 + 7, Unit + 10, Unit \div 2 + 3>>,
     fly |-> FALSE, gravity |-> 100, tick |-> 1, validation |-> TRUE, placement |-> "block",
     spots |-> {}, types |-> {}, ids |-> {}, keys |-> {{}}, aims |-> {}, rays |-> {}]

\* A floor with a slab, a wall, a post, and a low ceiling over part of it.
Course == (<<0, 1, 1>> :> HalfSlabBottom) @@ (<<1, 1, 1>> :> FullBlock) @@ (<<-1, 1, 0>> :> FencePost)
          @@ (<<0, 3, -1>> :> HalfSlabTop) @@ (<<0, 1, 2>> :> ThinFloor) @@ Floor(-2..2, -2..2)

\* From inside a cell; from its middle, where rays reach edges and corners, two or
\* three axes at once; from a face, an edge and the corner all eight cells share,
\* along faces, out of blocks and into them.
From(o, ds) == {[from |-> o, to |-> d, limit |-> 3 * Unit] : d \in ds}
Mid == Unit \div 2
Rays == From(<<310, 890, 730>>, {<<1, 1, 2>>, <<2, 0, 1>>, <<0, -1, 0>>, <<1, -1, 1>>, <<0, 1, 2>>, <<-2, 2, 2>>, <<-1, 0, 0>>})
        \cup From(<<Mid, Mid, Mid>>, {<<1, 1, 1>>, <<1, 1, 0>>, <<0, 1, 1>>, <<1, 0, 1>>, <<2, 1, 2>>, <<1, 2, 2>>})
        \cup From(<<310, 890, Unit>>, {<<0, 0, 1>>, <<0, 0, -1>>, <<0, 1, 0>>, <<1, 1, -1>>, <<2, 0, 1>>})
        \cup From(<<Mid, Unit, Unit>>, {<<0, -1, 0>>, <<0, -1, 1>>, <<1, 0, 0>>, <<1, 1, -1>>})
        \cup From(<<Unit, Unit, Unit>>, {<<1, 1, 1>>, <<-1, 1, 1>>, <<1, -1, 0>>, <<-1, -1, 2>>, <<0, -1, 0>>})
Cube == (0..1) \X (0..1) \X (0..1)
\* The blocks around a corner, each of several shapes; the first cell is free.
Corners == {bs \in UNION {[ps -> {FullBlock, HalfSlabTop, FencePost}] : ps \in SUBSET (Cube \ {<<0, 0, 0>>})} :
            Cardinality(DOMAIN bs) <= 2}

AnySetups ==
    {[Setup({"frame", "jump"}, 6, Course) EXCEPT !.keys = {{}, {"forward"}, {"forward", "left"}, {"back", "right"}}],
     \* short frames: less than the margin is fallen in one
     [Setup({"frame", "jump"}, 6, Course) EXCEPT !.gravity = 1, !.keys = {{"forward"}, {"left"}}],
     \* entities come, fall, grow old and go; the player reports late
     [Setup({"spawn", "despawn", "tick", "player", "frame"}, 5, Floor(-1..1, -1..1))
        EXCEPT !.types = {"item"}, !.spots = {<<Unit \div 2, Unit + 300, Unit \div 2>>}, !.ids = {100}, !.gravity = 10, !.tick = 3],
     [Setup({"spawn", "tick"}, 6, Course)
        EXCEPT !.types = {"pig", "fireball"}, !.gravity = 30, !.tick = 3, !.spots = {<<Unit \div 2, 2 * Unit, Unit + 700>>}],
     \* flying, walking, teleported, in menus
     [Setup({"frame", "fly", "teleport", "context", "look", "jump"}, 4, Course)
        EXCEPT !.fly = TRUE, !.keys = {{"forward", "up"}, {"left", "down"}}, !.spots = {At(0, 4, 0)}],
     \* clicks at the world as the game thread changes it
     [Setup({"click", "frame", "player"}, 5, Floor(-1..1, 0..3))
        EXCEPT !.aims = {<<0, -1, 0>>, <<0, -1, 1>>}, !.keys = {{"forward"}}]}
    \cup {[Setup({}, 0, bs) EXCEPT !.rays = Rays] : bs \in Corners}

\* A click and steps before the game thread gets to it.
PlaceSetups ==
    {[Setup({"click", "frame"}, 6, Floor(-1..1, 0..3)) EXCEPT !.aims = {<<0, -1, 1>>}, !.keys = {{}, {"forward"}}]}
=============================================================================
