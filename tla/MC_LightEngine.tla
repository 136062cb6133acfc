--------------------------- MODULE MC_LightEngine ---------------------------
EXTENDS LightEngine, TLC

Grid(w, h) == [x : 1..w, y : 1..h]
AllCells == Grid(2, 4)

World(cells, kinds) == [cells |-> cells, kinds |-> kinds, water |-> {}]
Lake(cells, kinds, water) == [cells |-> cells, kinds |-> kinds, water |-> water]
Bounds(e, s) == [maxNodes |-> 12, maxEdits |-> e, maxStops |-> s]

LightSetups ==
    {World(Grid(2, 3), {"air", "torch", "stone"}) @@ [hazards |-> {"dig"}] @@ Bounds(4, 0),
     World(Grid(2, 2), {"air", "glow", "glass"}) @@ [hazards |-> {"dig"}] @@ Bounds(3, 0),
     Lake(Grid(2, 3), {"air", "torch", "stone", "water"}, {[x |-> 1, y |-> 2]}) @@ [hazards |-> {"dig"}] @@ Bounds(3, 0),
     World(Grid(1, 4), {"air", "stone"}) @@ [hazards |-> {"dig"}] @@ Bounds(3, 0),
     World(Grid(1, 2), {"air", "torch"}) @@ [hazards |-> {}] @@ Bounds(2, 1)}
============================================================================
