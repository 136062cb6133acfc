---------------------------- MODULE ModuleLoader ----------------------------
(***************************************************************************)
(* Game modules (module.cpp): registered or opened from a file, started    *)
(* in an order in which every module comes after those it depends on, and  *)
(* unloaded the other way round.  The lifecycle calls of a module may      *)
(* throw.  lifecycle is the history of the calls that returned.            *)
(***************************************************************************)
EXTENDS Integers, Sequences, FiniteSets, SequencesExt, FiniteSetsExt, Functions

CONSTANTS ModuleNames,     \* names of modules
          DependencySets,  \* what a module may say it depends on
          MaxModuleCalls   \* bound: calls

ASSUME ModuleAssumption == MaxModuleCalls \in Nat

VARIABLES modules,      \* modules_: [dependencies, initialized, handle] by name
          initOrder,    \* initOrder_
          lifecycle,    \* <<call, module>>: "register", "unload" and "failed" (an onUnload that threw)
          moduleCalls

moduleVars == <<modules, initOrder, lifecycle, moduleCalls>>

ModuleInit == modules = <<>> /\ initOrder = <<>> /\ lifecycle = <<>> /\ moduleCalls = 0
ModuleCall == moduleCalls < MaxModuleCalls /\ moduleCalls' = moduleCalls + 1

\* The table with a module that does nothing yet, unless the name is taken.
WithModule(name, deps, handle) ==
    [m \in DOMAIN modules \cup {name} |->
        IF m \in DOMAIN modules THEN modules[m] ELSE [dependencies |-> deps, initialized |-> FALSE, handle |-> handle]]

\* registerBuiltin: a second module of a name is refused.
RegisterBuiltin ==
    \E name \in ModuleNames, deps \in DependencySets :
        /\ ModuleCall
        /\ modules' = WithModule(name, deps, FALSE)
        /\ UNCHANGED <<initOrder, lifecycle>>

\* load: nothing changes if the file cannot be opened, has no entry point, makes no
\* module or one whose name is taken.
Load ==
    \E name \in ModuleNames, deps \in DependencySets, made \in BOOLEAN :
        /\ ModuleCall
        /\ modules' = IF made THEN WithModule(name, deps, TRUE) ELSE modules
        /\ UNCHANGED <<initOrder, lifecycle>>

----------------------------------------------------------------------------

Dependencies(name) == modules[name].dependencies
Missing == \E name \in DOMAIN modules : ~Dependencies(name) \subseteq DOMAIN modules

\* Mutant: a module is ready as soon as one of its dependencies is.
Ready_AnyDependency(done) ==
    {m \in DOMAIN modules \ done : Dependencies(m) = {} \/ Dependencies(m) \cap done # {}}

\* The modules whose degree is zero.
Ready(done) == {m \in DOMAIN modules \ done : Dependencies(m) \subseteq done}

\* resolveDependencies, Kahn's algorithm: a queue of ready modules; those that
\* become ready together, and those ready at first, come in any order.
Ordered(order, queue) == [order |-> order, queue |-> queue]
FirstReady == {Ordered(<<>>, q) : q \in SetToSeqs(Ready({}))}
NextReady(o) ==
    LET done == Range(o.order) \cup {Head(o.queue)}
    IN  {Ordered(Append(o.order, Head(o.queue)), Tail(o.queue) \o q) : q \in SetToSeqs(Ready(done) \ Range(o.queue))}
Onward(before) == UNION {IF o.queue = <<>> THEN {o} ELSE NextReady(o) : o \in before}
AllOrdered ==
    LET steps[n \in 0..Cardinality(DOMAIN modules)] == IF n = 0 THEN FirstReady ELSE Onward(steps[n - 1])
    IN  steps[Cardinality(DOMAIN modules)]

\* No order when a dependency is missing or in a circle.
Resolutions ==
    IF Missing THEN {<<>>}
    ELSE {IF Len(o.order) = Cardinality(DOMAIN modules) THEN o.order ELSE <<>> : o \in AllOrdered}

StartedModules == {m \in DOMAIN modules : modules[m].initialized}

\* The names of a list that are in a set.
Selected(list, set) ==
    LET kept[n \in 0..Len(list)] ==
            IF n = 0 THEN <<>> ELSE IF list[n] \in set THEN Append(kept[n - 1], list[n]) ELSE kept[n - 1]
    IN  kept[Len(list)]

Starting(name) == <<"register", name>>

\* initializeAll: in that order, up to the first module that throws; the order
\* is replaced even when there is none.
InitializeAll ==
    \E order \in Resolutions :
        LET waiting == Selected(order, DOMAIN modules \ StartedModules)
        IN  \E n \in 0..Len(waiting) :
              LET started == SubSeq(waiting, 1, n)
              IN  /\ ModuleCall
                  /\ initOrder' = order
                  /\ modules' = [m \in DOMAIN modules |-> [modules[m] EXCEPT !.initialized = @ \/ m \in Range(started)]]
                  /\ lifecycle' = lifecycle \o [i \in DOMAIN started |-> Starting(started[i])]

Unloading(order) == Reverse(order)

\* shutdownAll: backwards; a module whose onUnload throws stays initialized.
ShutdownAll ==
    \E failing \in SUBSET ModuleNames :
        LET stopping == Selected(Unloading(initOrder), StartedModules)
        IN  /\ ModuleCall
            /\ modules' = [m \in DOMAIN modules |->
                              [modules[m] EXCEPT !.initialized = @ /\ (m \notin Range(stopping) \/ m \in failing)]]
            /\ initOrder' = <<>>
            /\ lifecycle' = lifecycle \o [i \in DOMAIN stopping |->
                                     <<IF stopping[i] \in failing THEN "failed" ELSE "unload", stopping[i]>>]

ModuleNext == RegisterBuiltin \/ Load \/ InitializeAll \/ ShutdownAll

ModuleSpec == ModuleInit /\ [][ModuleNext]_moduleVars

----------------------------------------------------------------------------
(* Properties *)

\* The modules running after the first n of the calls; a failed unload is the
\* end of it for the others, although the module counts as initialized.
Running(calls, n) ==
    {m \in ModuleNames : \E i \in 1..n : calls[i] = Starting(m) /\ \A j \in (i + 1)..n : calls[j][2] # m}
FailedBy(calls, n) == {m \in ModuleNames : \E i \in 1..n : calls[i] = <<"failed", m>>}

\* A module starts with everything it depends on running, and is unloaded with
\* nothing running that depends on it, however often modules are added,
\* initialization fails half way and is repeated, or unloading throws.
DependenciesOutlive ==
    \A n \in DOMAIN lifecycle :
       IF lifecycle[n][1] = "register"
       THEN Dependencies(lifecycle[n][2]) \subseteq Running(lifecycle, n - 1) \cup FailedBy(lifecycle, n - 1)
       ELSE \A m \in Running(lifecycle, n) : lifecycle[n][2] \notin Dependencies(m)
=============================================================================
