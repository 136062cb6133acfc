---------------------------- MODULE MC_WorldStore ----------------------------
(* Model-checking instances of WorldStore: one scenario per group of calls. *)
EXTENDS WorldStore

Setup(allowed, max, places, types) ==
    [calls |-> allowed, maxCalls |-> max, places |-> places, types |-> types, containers |-> {<<>>},
     generated |-> {}, ground |-> "stone"]

K == 107
HalfTwo == <<63, 224, 0, 0, 0, 0, 0, 0>>
TwentySeven == <<63, 224, 0, 0, 0, 0, 0, 27>>
PlainValues ==
    {Null, Integer(-30), Integer(300), Double(HalfTwo), String(<<K, K>>), Blob(<<1>>),
     List(<<Integer(1), Integer(200)>>), List(<<String(<<K>>)>>), List(<<Double(HalfTwo)>>),
     Container((K :> Integer(5)))}

AnySetups ==
    {\* palette slots freed, used again, compacted, stored with wide cells
     Setup({"set", "fill", "tidy", "reload"}, 5, {<<0, 0, 0>>, <<1, 0, 1>>, <<1, 1, 1>>},
           {Air, "stone", "glass", "dirt"}),
     \* a tall column with gaps, its heightmap told of each edit
     Setup({"set_told", "recalculate", "tidy"}, 5, {<<0, y, 1>> : y \in -3..3}, {Air, "stone"}),
     \* two columns that the generator fills, batches against another writer
     [Setup({"create", "set", "batch", "commit"}, 5, {<<-1, 0, 0>>, <<0, 0, 0>>}, {Air, "stone", "dirt"})
        EXCEPT !.generated = {<<0, 0, 0>>}],
     \* rotation, light and data, kept over edits and storage
     [Setup({"set", "rotate", "light", "data", "reload"}, 4, {<<0, 0, 0>>}, {Air, "stone"})
        EXCEPT !.containers = {K :> Integer(7)}],
     [Setup({"set", "data", "reload"}, 3, {<<0, -1, 0>>}, {"stone"})
        EXCEPT !.containers = {K :> v : v \in PlainValues}],
     \* force loaders and borders below and above zero
     Setup({"force"}, 3, {<<-1, 0, 2>>, <<0, -4, -3>>, <<2, 3, 1>>}, {"stone"}),
     \* levels of detail built again and again into one object
     Setup({"set", "fill", "lod"}, 6, {<<0, 0, 0>>, <<1, 0, 0>>, <<0, 1, 1>>}, {Air, "stone", "dirt"})}

\* Values that skipValue() measures wrongly: a text with a tag, and a double
\* whose last byte looks like the head of one more byte.
DataSetups ==
    {[Setup({"set", "data", "reload"}, 3, {<<0, 0, 0>>}, {"stone"})
        EXCEPT !.containers = {K :> v : v \in PlainValues \cup {Interned(<<K>>), Double(TwentySeven)}}]}
=============================================================================
