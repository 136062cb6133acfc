--------------------------- MODULE FrameLoop_proof ---------------------------
(***************************************************************************)
(* Proofs about FrameLoop, for every set of workers and every set of       *)
(* setups: no frame overtakes its fence, and no wake-up is lost.           *)
(***************************************************************************)
EXTENDS FrameLoop, TLAPS

Places == {"top", "test", "wait", "update", "drain", "detach", "events", "join workers", "begin",
           "attach", "stop", "unwind", "join session", "join waiter", "wait idle", "destroy", "last join",
           "end session", "ended"}

WakeSignal == [signaled : BOOLEAN, past : BOOLEAN, alive : BOOLEAN]
Pool == [on : BOOLEAN, attached : BOOLEAN, shutdown : BOOLEAN, requests : Nat, uploads : Nat]
FenceWaiterType == [at : {"none", "idle", "fence", "done", "signal", "gone"}, running : BOOLEAN,
                    attached : BOOLEAN, pending : BOOLEAN, ready : BOOLEAN]
Gfx == [at : Places, fence : BOOLEAN, phase : 1..2, closed : BOOLEAN]

\* TypeOK without the bounds.
Shape ==
    /\ setup \in Setup
    /\ wake \in WakeSignal
    /\ pool \in Pool
    /\ worker \in [Workers -> {"none", "wait", "pop", "build", "signal"}]
    /\ waiter \in FenceWaiterType
    /\ gpu \in {"busy", "free", "idle"}
    /\ gfx \in Gfx
    /\ bounds \in [toggles : Nat, requests : Nat]

Inner == {"test", "wait", "update"}

\* Once ready_ is set for this frame's kick, and in every later part of a
\* frame that relies on it, the fence is free.
FenceInv ==
    /\ gfx.at \in Inner /\ gfx.phase = 1 /\ waiter.ready => gpu # "busy"
    /\ gfx.at \in {"drain", "detach"} => gpu # "busy"
    /\ gfx.fence /\ (gfx.at \in {"events", "join workers", "begin"} \/ (gfx.at \in Inner /\ gfx.phase = 2))
        => gpu # "busy"

\* The pool is attached while it is on, but for the time it is being stopped;
\* the inner loops run only with a pool.
AttachedInv ==
    /\ gfx.at \in Inner \cup {"drain"} => pool.on
    /\ pool.on /\ gfx.at \notin {"join workers", "last join", "end session", "ended"} => pool.attached

\* Between the return of a wait and the next wait all meshes are taken, so
\* that outside of that time a mesh that is there has somebody's signal.
Taking == {"update", "stop", "unwind", "join session", "join waiter", "wait idle", "destroy", "last join",
           "end session", "ended"}
Unseen ==
    gfx.at \notin Taking /\ pool.attached /\ pool.uploads > 0 /\ ~wake.signaled =>
        \E w \in Workers : worker[w] = "signal"

ReadyUnseen ==
    gfx.at = "wait" /\ ~wake.signaled /\ gfx.phase = 1 /\ waiter.ready /\ waiter.attached =>
        waiter.at \in {"done", "signal"}

WakeInv == Unseen /\ ReadyUnseen

LoopInv == Shape /\ FenceInv /\ AttachedInv /\ WakeInv

\* The invariant holds when the program starts.
LEMMA InitLoopInv == ASSUME Init PROVE LoopInv
<1>1. setup \in Setup /\ setup.async \in BOOLEAN BY SetupAssumption DEF Init, Setup
<1>2. pool \in {NoPool, NewPool} BY <1>1 DEF Init
<1>3. /\ pool \in Pool
      /\ pool.uploads = 0 /\ pool.on = pool.attached
  <2>1. CASE pool = NoPool BY <2>1 DEF NoPool, Pool
  <2>2. CASE pool = NewPool BY <2>2 DEF NoPool, NewPool, Pool
  <2> QED BY <1>2, <2>1, <2>2
<1>4. Shape BY <1>1, <1>3 DEF Init, Shape, WakeSignal, FenceWaiterType, Gfx, Places
<1> QED BY <1>3, <1>4 DEF Init, LoopInv, FenceInv, AttachedInv, WakeInv, Unseen, ReadyUnseen, Inner

\* Going to a place changes the place and keeps the type.
LEMMA GoTo ==
    ASSUME gfx \in Gfx, NEW a \in Places, Go(a)
    PROVE  gfx' \in Gfx /\ gfx'.at = a /\ gfx'.fence = gfx.fence /\ gfx'.phase = gfx.phase /\ gfx'.closed = gfx.closed
BY DEF Go, Gfx

\* Entering a phase keeps the type.
LEMMA EnterPhase ==
    ASSUME gfx \in Gfx, NEW a \in Places, NEW p \in 1..2, NEW f \in BOOLEAN
    PROVE  [gfx EXCEPT !.fence = f, !.phase = p, !.at = a] \in Gfx /\ [gfx EXCEPT !.at = a, !.phase = p] \in Gfx
BY DEF Gfx

\* So does counting.
LEMMA Counted ==
    ASSUME NEW b \in [toggles : Nat, requests : Nat]
    PROVE  /\ [b EXCEPT !.toggles = @ + 1] \in [toggles : Nat, requests : Nat]
           /\ [b EXCEPT !.requests = @ + 1] \in [toggles : Nat, requests : Nat]
OBVIOUS

\* Every step of the main loop preserves the types.
LEMMA MainLoopShape == ASSUME Shape, MainLoop PROVE Shape'
<1> USE DEF Shape
<1>0. {"test", "events", "stop", "drain", "wait", "begin", "update", "detach", "join workers",
       "ended", "attach", "top", "unwind", "join session", "join waiter", "wait idle", "destroy", "last join",
       "end session"} \subseteq Places
  BY DEF Places
<1>1. CASE BeginLoop
  <2>1. gfx' \in Gfx
    <3>1. CASE gfx.closed BY <1>0, <1>1, <3>1, GoTo DEF BeginLoop
    <3>2. CASE ~gfx.closed
      <4> DEFINE a == IF pool.on THEN "test" ELSE "events"
      <4>1. a \in Places BY <1>0
      <4>2. gfx' = [gfx EXCEPT !.fence = pool.on, !.phase = 1, !.at = a] BY <1>1, <3>2 DEF BeginLoop
      <4>3. pool.on \in BOOLEAN BY DEF Pool
      <4> HIDE DEF a
      <4>4. 1 \in 1..2 OBVIOUS
      <4> QED BY <4>1, <4>2, <4>3, <4>4, EnterPhase
    <3> QED BY <3>1, <3>2
  <2>2. waiter' \in FenceWaiterType BY <1>1 DEF BeginLoop, FenceWaiterType
  <2> QED BY <1>1, <2>1, <2>2 DEF BeginLoop
<1>2. CASE TestPhase
  <2>1. gfx' \in Gfx BY <1>0, <1>2, GoTo DEF TestPhase
  <2>2. wake' \in WakeSignal BY <1>2 DEF TestPhase, WakeSignal
  <2> QED BY <1>2, <2>1, <2>2 DEF TestPhase
<1>3. CASE Wake
  <2>1. gfx' \in Gfx BY <1>0, <1>3, GoTo DEF Wake
  <2>2. wake' \in WakeSignal BY <1>3 DEF Wake, WakeSignal
  <2> QED BY <1>3, <2>1, <2>2 DEF Wake
<1>4. CASE UpdateMeshes
  <2>1. gfx' \in Gfx BY <1>0, <1>4, GoTo DEF UpdateMeshes
  <2>2. pool' \in Pool BY <1>4 DEF UpdateMeshes, Pool
  <2> QED BY <1>4, <2>1, <2>2 DEF UpdateMeshes
<1>5. CASE UpdateThrows
  <2>1. gfx' \in Gfx BY <1>0, <1>5, GoTo DEF UpdateThrows
  <2> QED BY <1>5, <2>1 DEF UpdateThrows
<1>6. CASE DetachFenceWaiter
  <2>1. gfx' \in Gfx BY <1>0, <1>6, GoTo DEF DetachFenceWaiter
  <2>2. waiter' \in FenceWaiterType BY <1>6 DEF DetachFenceWaiter, FenceWaiterType
  <2> QED BY <1>6, <2>1, <2>2 DEF DetachFenceWaiter
<1>7. CASE CloseWindow
  <2>1. gfx' \in Gfx BY <1>0, <1>7, GoTo DEF CloseWindow, Gfx
  <2> QED BY <1>7, <2>1 DEF CloseWindow
<1>8. CASE EnableAsyncMeshing
  <2>1. pool' \in Pool BY <1>8 DEF EnableAsyncMeshing, Pool, NewPool, NoPool
  <2> QED BY <1>8, <2>1 DEF EnableAsyncMeshing
<1>9. CASE DisableAsyncMeshing
  <2>1. gfx' \in Gfx BY <1>0, <1>9, GoTo DEF DisableAsyncMeshing
  <2>2. pool' \in Pool BY <1>9 DEF DisableAsyncMeshing, Pool
  <2>3. bounds' \in [toggles : Nat, requests : Nat] BY <1>9, Counted DEF DisableAsyncMeshing
  <2> QED BY <1>9, <2>1, <2>2, <2>3 DEF DisableAsyncMeshing
<1>10. CASE JoinWorkers
  <2>1. gfx' \in Gfx BY <1>0, <1>10, GoTo DEF JoinWorkers
  <2>2. pool' \in Pool BY <1>10 DEF JoinWorkers, Pool, NewPool, NoPool
  <2> QED BY <1>10, <2>1, <2>2 DEF JoinWorkers
<1>11. CASE StartDeadline
  <2>1. gfx' \in Gfx
    <3>1. CASE pool.on
      <4>1. gfx' = [gfx EXCEPT !.at = "test", !.phase = 2] BY <1>11, <3>1 DEF StartDeadline
      <4>2. 2 \in 1..2 OBVIOUS
      <4>3. "test" \in Places BY <1>0
      <4> QED BY <4>1, <4>2, <4>3, EnterPhase
    <3>2. CASE ~pool.on BY <1>0, <1>11, <3>2, GoTo DEF StartDeadline
    <3> QED BY <3>1, <3>2
  <2>2. wake' \in WakeSignal BY <1>11 DEF StartDeadline, WakeSignal
  <2> QED BY <1>11, <2>1, <2>2 DEF StartDeadline
<1>12. CASE DrawFrame
  <2>1. gfx' \in Gfx BY <1>0, <1>12, GoTo DEF DrawFrame
  <2> QED BY <1>12, <2>1 DEF DrawFrame
<1>13. CASE AttachFenceWaiter
  <2>1. gfx' \in Gfx BY <1>0, <1>13, GoTo DEF AttachFenceWaiter
  <2>2. waiter' \in FenceWaiterType BY <1>13 DEF AttachFenceWaiter, FenceWaiterType
  <2> QED BY <1>13, <2>1, <2>2 DEF AttachFenceWaiter
<1>14. CASE RequestStop
  <2>1. gfx' \in Gfx BY <1>0, <1>14, GoTo DEF RequestStop
  <2>2. waiter' \in FenceWaiterType BY <1>14 DEF RequestStop, FenceWaiterType
  <2> QED BY <1>14, <2>1, <2>2 DEF RequestStop
<1>15. CASE JoinFenceWaiter
  <2>1. gfx' \in Gfx BY <1>0, <1>15, GoTo DEF JoinFenceWaiter
  <2> QED BY <1>15, <2>1 DEF JoinFenceWaiter
<1>16. CASE DestroyRenderer
  <2>1. gfx' \in Gfx BY <1>0, <1>16, GoTo DEF DestroyRenderer
  <2>2. wake' \in WakeSignal BY <1>16 DEF DestroyRenderer, WakeSignal
  <2>3. pool' \in Pool BY <1>16 DEF DestroyRenderer, Pool
  <2> QED BY <1>16, <2>1, <2>2, <2>3 DEF DestroyRenderer
<1>17. CASE JoinSession
  <2>1. gfx' \in Gfx BY <1>0, <1>17, GoTo DEF JoinSession
  <2> QED BY <1>17, <2>1 DEF JoinSession
<1>18. CASE WaitIdle
  <2>1. gfx' \in Gfx BY <1>0, <1>18, GoTo DEF WaitIdle
  <2> QED BY <1>18, <2>1 DEF WaitIdle
<1> QED BY <1>1, <1>2, <1>3, <1>4, <1>5, <1>6, <1>7, <1>8, <1>9, <1>10, <1>11, <1>12, <1>13, <1>14,
   <1>15, <1>16, <1>17, <1>18 DEF MainLoop

\* The other threads preserve the types.
LEMMA ThreadShape ==
    ASSUME Shape, FenceWaiter \/ GpuFinishes \/ TimePasses \/ RequestMesh \/ \E w \in Workers : Worker(w)
    PROVE  Shape'
<1> USE DEF Shape, Move, Signal
<1>1. CASE TakeKick BY <1>1 DEF TakeKick, FenceWaiterType
<1>2. CASE FenceTimesOut BY <1>2 DEF FenceTimesOut, FenceWaiterType
<1>3. CASE FenceReady BY <1>3 DEF FenceReady, FenceWaiterType
<1>4. CASE ReadSignal BY <1>4 DEF ReadSignal, FenceWaiterType
<1>5. CASE SignalFence BY <1>5 DEF SignalFence, FenceWaiterType, WakeSignal
<1>6. CASE GpuFinishes BY <1>6 DEF GpuFinishes
<1>7. CASE TimePasses BY <1>7 DEF TimePasses, WakeSignal
<1>8. CASE RequestMesh
  <2>1. pool' \in Pool BY <1>8 DEF RequestMesh, Pool
  <2>2. bounds' \in [toggles : Nat, requests : Nat] BY <1>8, Counted DEF RequestMesh
  <2> QED BY <1>8, <2>1, <2>2 DEF RequestMesh
<1>9. ASSUME NEW w \in Workers, Worker(w) PROVE Shape'
  <2>1. CASE WaitForWork(w) BY <2>1 DEF WaitForWork
  <2>2. CASE TryPop(w) BY <2>2 DEF TryPop, Pool
  <2>3. CASE PushUpload(w) BY <2>3 DEF PushUpload, Pool
  <2>4. CASE BuildFails(w) BY <2>4 DEF BuildFails
  <2>5. CASE SignalUpload(w) BY <2>5 DEF SignalUpload, WakeSignal
  <2> QED BY <1>9, <2>1, <2>2, <2>3, <2>4, <2>5 DEF Worker
<1> QED BY <1>1, <1>2, <1>3, <1>4, <1>5, <1>6, <1>7, <1>8, <1>9 DEF FenceWaiter

\* The two phases differ, and nothing is less than nothing.
LEMMA Phases == 1 # 2 /\ ~(0 > 0)
OBVIOUS

\* The fence stays free from the kick's answer to the drawing of the frame.
LEMMA FenceStep == ASSUME LoopInv, Shape', [Next]_vars PROVE FenceInv'
<1> USE DEF LoopInv, Shape, FenceInv, Inner, Go, At, Move, Signal, WakeSignal, Pool, FenceWaiterType, Gfx
<1>1. CASE BeginLoop
  <2>1. CASE gfx.closed BY <1>1, <2>1 DEF BeginLoop
  <2>2. CASE ~gfx.closed /\ pool.on
    <3>1. gfx'.at = "test" /\ gfx'.phase = 1 BY <1>1, <2>2 DEF BeginLoop
    <3>2. waiter'.ready = FALSE BY <1>1, <2>2 DEF BeginLoop
    <3>3. gfx'.at \notin {"drain", "detach", "events", "join workers", "begin"} BY <3>1
    <3>4. gfx'.phase # 2
      <4> QED BY ONLY <3>1, Phases
    <3> QED BY ONLY <3>2, <3>3, <3>4 DEF FenceInv, Inner
  <2>3. CASE ~gfx.closed /\ ~pool.on
    <3>1. gfx'.at = "events" /\ ~gfx'.fence BY <1>1, <2>3 DEF BeginLoop
    <3> QED BY <3>1
  <2> QED BY <2>1, <2>2, <2>3
<1>2. CASE TestPhase
  <2>1. CASE gfx.phase = 1 BY <1>2, <2>1 DEF TestPhase
  <2>2. CASE gfx.phase # 1
    <3>1. gfx.phase = 2 /\ gfx'.phase = 2 /\ gfx'.fence = gfx.fence /\ gpu' = gpu BY <1>2, <2>2 DEF TestPhase
    <3>2. gfx'.at \in {"begin", "wait"} BY <1>2, <2>2 DEF TestPhase
    <3>3. gfx.fence => gpu # "busy" BY <1>2, <3>1 DEF TestPhase
    <3>5. gfx'.phase # 1 BY ONLY <3>1, Phases
    <3>6. gfx'.at \notin {"drain", "detach"} BY <3>2
    <3> QED BY ONLY <3>1, <3>3, <3>5, <3>6 DEF FenceInv
  <2> QED BY <2>1, <2>2
<1>3. CASE Wake BY <1>3 DEF Wake
<1>4. CASE UpdateMeshes BY <1>4 DEF UpdateMeshes
<1>5. CASE UpdateThrows BY <1>5 DEF UpdateThrows
<1>6. CASE DetachFenceWaiter BY <1>6 DEF DetachFenceWaiter
<1>7. CASE CloseWindow BY <1>7 DEF CloseWindow
<1>8. CASE EnableAsyncMeshing BY <1>8 DEF EnableAsyncMeshing, NewPool, NoPool
<1>9. CASE DisableAsyncMeshing BY <1>9 DEF DisableAsyncMeshing
<1>10. CASE JoinWorkers BY <1>10 DEF JoinWorkers, NewPool, NoPool
<1>11. CASE StartDeadline
  <2>1. gpu' = gpu /\ gfx'.fence = gfx.fence /\ gfx.at = "events" BY <1>11 DEF StartDeadline
  <2>2. CASE pool.on
    <3>1. gfx'.at = "test" /\ gfx'.phase = 2 BY <1>11, <2>2 DEF StartDeadline
    <3> QED BY <2>1, <3>1
  <2>3. CASE ~pool.on
    <3>1. gfx'.at = "begin" BY <1>11, <2>3 DEF StartDeadline
    <3> QED BY <2>1, <3>1
  <2> QED BY <2>2, <2>3
<1>12. CASE DrawFrame BY <1>12 DEF DrawFrame
<1>13. CASE AttachFenceWaiter BY <1>13 DEF AttachFenceWaiter
<1>14. CASE RequestStop BY <1>14 DEF RequestStop
<1>15. CASE JoinFenceWaiter BY <1>15 DEF JoinFenceWaiter
<1>16. CASE DestroyRenderer BY <1>16 DEF DestroyRenderer
<1>17. CASE TakeKick BY <1>17 DEF TakeKick
<1>18. CASE FenceTimesOut BY <1>18 DEF FenceTimesOut
<1>19. CASE FenceReady BY <1>19 DEF FenceReady
<1>20. CASE ReadSignal BY <1>20 DEF ReadSignal
<1>21. CASE SignalFence BY <1>21 DEF SignalFence
<1>22. CASE GpuFinishes BY <1>22 DEF GpuFinishes
<1>23. CASE TimePasses BY <1>23 DEF TimePasses
<1>24. CASE RequestMesh BY <1>24 DEF RequestMesh
<1>25. ASSUME NEW w \in Workers, Worker(w) PROVE FenceInv'
  <2>1. CASE WaitForWork(w) BY <2>1 DEF WaitForWork
  <2>2. CASE TryPop(w) BY <2>2 DEF TryPop
  <2>3. CASE PushUpload(w) BY <2>3 DEF PushUpload
  <2>4. CASE BuildFails(w) BY <2>4 DEF BuildFails
  <2>5. CASE SignalUpload(w) BY <2>5 DEF SignalUpload
  <2> QED BY <1>25, <2>1, <2>2, <2>3, <2>4, <2>5 DEF Worker
<1>26. CASE UNCHANGED vars BY <1>26 DEF vars, state
<1>27. CASE JoinSession BY <1>27 DEF JoinSession
<1>28. CASE WaitIdle BY <1>28 DEF WaitIdle
<1> QED BY <1>1, <1>2, <1>3, <1>4, <1>5, <1>6, <1>7, <1>8, <1>9, <1>10, <1>11, <1>12, <1>13, <1>14,
   <1>15, <1>16, <1>17, <1>18, <1>19, <1>20, <1>21, <1>22, <1>23, <1>24, <1>25, <1>26, <1>27, <1>28 DEF Next, MainLoop,
   FenceWaiter

\* The pool is attached wherever the loop relies on it.
LEMMA AttachedStep == ASSUME LoopInv, Shape', [Next]_vars PROVE AttachedInv'
<1> USE DEF LoopInv, Shape, AttachedInv, Inner, Go, At, Move, Signal, WakeSignal, Pool, FenceWaiterType, Gfx
<1>1. CASE BeginLoop BY <1>1 DEF BeginLoop
<1>2. CASE TestPhase BY <1>2 DEF TestPhase
<1>3. CASE Wake BY <1>3 DEF Wake
<1>4. CASE UpdateMeshes BY <1>4 DEF UpdateMeshes
<1>5. CASE UpdateThrows BY <1>5 DEF UpdateThrows
<1>6. CASE DetachFenceWaiter BY <1>6 DEF DetachFenceWaiter
<1>7. CASE CloseWindow BY <1>7 DEF CloseWindow
<1>8. CASE EnableAsyncMeshing BY <1>8 DEF EnableAsyncMeshing, NewPool, NoPool
<1>9. CASE DisableAsyncMeshing BY <1>9 DEF DisableAsyncMeshing
<1>10. CASE JoinWorkers BY <1>10 DEF JoinWorkers, NewPool, NoPool
<1>11. CASE StartDeadline BY <1>11 DEF StartDeadline
<1>12. CASE DrawFrame BY <1>12 DEF DrawFrame
<1>13. CASE AttachFenceWaiter BY <1>13 DEF AttachFenceWaiter
<1>14. CASE RequestStop BY <1>14 DEF RequestStop
<1>15. CASE JoinFenceWaiter BY <1>15 DEF JoinFenceWaiter
<1>16. CASE DestroyRenderer BY <1>16 DEF DestroyRenderer
<1>17. CASE TakeKick BY <1>17 DEF TakeKick
<1>18. CASE FenceTimesOut BY <1>18 DEF FenceTimesOut
<1>19. CASE FenceReady BY <1>19 DEF FenceReady
<1>20. CASE ReadSignal BY <1>20 DEF ReadSignal
<1>21. CASE SignalFence BY <1>21 DEF SignalFence
<1>22. CASE GpuFinishes BY <1>22 DEF GpuFinishes
<1>23. CASE TimePasses BY <1>23 DEF TimePasses
<1>24. CASE RequestMesh BY <1>24 DEF RequestMesh
<1>25. ASSUME NEW w \in Workers, Worker(w) PROVE AttachedInv'
  <2>1. CASE WaitForWork(w) BY <2>1 DEF WaitForWork
  <2>2. CASE TryPop(w) BY <2>2 DEF TryPop
  <2>3. CASE PushUpload(w) BY <2>3 DEF PushUpload
  <2>4. CASE BuildFails(w) BY <2>4 DEF BuildFails
  <2>5. CASE SignalUpload(w) BY <2>5 DEF SignalUpload
  <2> QED BY <1>25, <2>1, <2>2, <2>3, <2>4, <2>5 DEF Worker
<1>26. CASE UNCHANGED vars BY <1>26 DEF vars, state
<1>27. CASE JoinSession BY <1>27 DEF JoinSession
<1>28. CASE WaitIdle BY <1>28 DEF WaitIdle
<1> QED BY <1>1, <1>2, <1>3, <1>4, <1>5, <1>6, <1>7, <1>8, <1>9, <1>10, <1>11, <1>12, <1>13, <1>14,
   <1>15, <1>16, <1>17, <1>18, <1>19, <1>20, <1>21, <1>22, <1>23, <1>24, <1>25, <1>26, <1>27, <1>28 DEF Next, MainLoop,
   FenceWaiter

\* A worker that is not at its signal leaves the signals of the others alone.
LEMMA OtherSignals ==
    ASSUME worker \in [Workers -> {"none", "wait", "pop", "build", "signal"}],
           NEW w \in Workers, NEW at, Move(w, at), worker[w] # "signal",
           \E v \in Workers : worker[v] = "signal"
    PROVE  \E v \in Workers : worker'[v] = "signal"
<1>1. PICK v \in Workers : worker[v] = "signal" OBVIOUS
<1>2. v # w BY <1>1
<1>3. worker'[v] = "signal" BY <1>1, <1>2 DEF Move
<1> QED BY <1>3

\* What is uploaded while the loop is not taking meshes is signalled.
LEMMA UnseenStep == ASSUME LoopInv, Shape', [Next]_vars PROVE Unseen'
<1>0. Unseen BY DEF LoopInv, WakeInv
<1> USE DEF LoopInv, Shape, Unseen, Taking, Go, At, Signal, WakeSignal, Pool, FenceWaiterType, Gfx
<1>1. CASE BeginLoop BY <1>0, <1>1 DEF BeginLoop
<1>2. CASE TestPhase BY <1>0, <1>2 DEF TestPhase
<1>3. CASE Wake BY <1>0, <1>3 DEF Wake
<1>4. CASE UpdateMeshes
  <2>1. pool'.uploads = 0 BY <1>4 DEF UpdateMeshes
  <2>2. ~(pool'.uploads > 0) BY ONLY <2>1, Phases
  <2> QED BY ONLY <2>2 DEF Unseen
<1>5. CASE UpdateThrows BY <1>0, <1>5 DEF UpdateThrows
<1>6. CASE DetachFenceWaiter BY <1>0, <1>6 DEF DetachFenceWaiter
<1>7. CASE CloseWindow BY <1>0, <1>7 DEF CloseWindow
<1>8. CASE EnableAsyncMeshing
  <2>1. pool'.uploads = 0 BY <1>8 DEF EnableAsyncMeshing, NewPool, NoPool
  <2>2. ~(pool'.uploads > 0) BY ONLY <2>1, Phases
  <2> QED BY ONLY <2>2 DEF Unseen
<1>9. CASE DisableAsyncMeshing
  <2>1. ~pool'.attached BY <1>9 DEF DisableAsyncMeshing
  <2> QED BY ONLY <2>1 DEF Unseen
<1>10. CASE JoinWorkers
  <2>1. ~pool'.attached BY <1>10 DEF JoinWorkers, NoPool
  <2> QED BY ONLY <2>1 DEF Unseen
<1>11. CASE StartDeadline BY <1>0, <1>11 DEF StartDeadline
<1>12. CASE DrawFrame BY <1>0, <1>12 DEF DrawFrame
<1>13. CASE AttachFenceWaiter BY <1>0, <1>13 DEF AttachFenceWaiter
<1>14. CASE RequestStop BY <1>0, <1>14 DEF RequestStop
<1>15. CASE JoinFenceWaiter BY <1>0, <1>15 DEF JoinFenceWaiter
<1>16. CASE DestroyRenderer BY <1>0, <1>16 DEF DestroyRenderer
<1>17. CASE TakeKick BY <1>0, <1>17 DEF TakeKick
<1>18. CASE FenceTimesOut BY <1>0, <1>18 DEF FenceTimesOut
<1>19. CASE FenceReady BY <1>0, <1>19 DEF FenceReady
<1>20. CASE ReadSignal BY <1>0, <1>20 DEF ReadSignal
<1>21. CASE SignalFence BY <1>0, <1>21 DEF SignalFence
<1>22. CASE GpuFinishes BY <1>0, <1>22 DEF GpuFinishes
<1>23. CASE TimePasses BY <1>0, <1>23 DEF TimePasses
<1>24. CASE RequestMesh
  <2>1. pool'.uploads = pool.uploads /\ pool'.attached = pool.attached BY <1>24 DEF RequestMesh
  <2> QED BY <1>0, <1>24, <2>1 DEF RequestMesh
<1>25. ASSUME NEW w \in Workers, Worker(w) PROVE Unseen'
  <2>1. CASE WaitForWork(w)
    <3>1. worker[w] # "signal" BY <2>1 DEF WaitForWork
    <3> QED BY <1>0, <2>1, <3>1, OtherSignals DEF WaitForWork
  <2>2. CASE TryPop(w)
    <3>1. worker[w] # "signal" BY <2>2 DEF TryPop
    <3>2. pool'.uploads = pool.uploads /\ pool'.attached = pool.attached BY <2>2 DEF TryPop
    <3> QED BY <1>0, <2>2, <3>1, <3>2, OtherSignals DEF TryPop
  <2>3. CASE PushUpload(w)
    <3>1. pool'.attached = pool.attached BY <2>3 DEF PushUpload
    <3>2. pool.attached => worker'[w] = "signal" BY <2>3 DEF PushUpload, Move
    <3> QED BY ONLY <3>1, <3>2 DEF Unseen
  <2>4. CASE BuildFails(w)
    <3>1. worker[w] # "signal" BY <2>4 DEF BuildFails
    <3> QED BY <1>0, <2>4, <3>1, OtherSignals DEF BuildFails
  <2>5. CASE SignalUpload(w)
    <3>1. wake'.signaled BY <2>5 DEF SignalUpload
    <3> QED BY ONLY <3>1 DEF Unseen
  <2> QED BY <1>25, <2>1, <2>2, <2>3, <2>4, <2>5 DEF Worker
<1>26. CASE UNCHANGED vars BY <1>0, <1>26 DEF vars, state
<1>27. CASE JoinSession BY <1>0, <1>27 DEF JoinSession
<1>28. CASE WaitIdle BY <1>0, <1>28 DEF WaitIdle
<1> QED BY <1>1, <1>2, <1>3, <1>4, <1>5, <1>6, <1>7, <1>8, <1>9, <1>10, <1>11, <1>12, <1>13, <1>14,
   <1>15, <1>16, <1>17, <1>18, <1>19, <1>20, <1>21, <1>22, <1>23, <1>24, <1>25, <1>26, <1>27, <1>28 DEF Next, MainLoop,
   FenceWaiter

\* So is the fence's becoming ready.
LEMMA ReadyUnseenStep == ASSUME LoopInv, Shape', [Next]_vars PROVE ReadyUnseen'
<1>0. ReadyUnseen BY DEF LoopInv, WakeInv
<1> USE DEF LoopInv, Shape, ReadyUnseen, Go, At, Signal, WakeSignal, Pool, FenceWaiterType, Gfx
<1>1. CASE BeginLoop BY <1>0, <1>1 DEF BeginLoop
<1>2. CASE TestPhase BY <1>0, <1>2 DEF TestPhase
<1>3. CASE Wake BY <1>0, <1>3 DEF Wake
<1>4. CASE UpdateMeshes BY <1>0, <1>4 DEF UpdateMeshes
<1>5. CASE UpdateThrows BY <1>0, <1>5 DEF UpdateThrows
<1>6. CASE DetachFenceWaiter BY <1>0, <1>6 DEF DetachFenceWaiter
<1>7. CASE CloseWindow BY <1>0, <1>7 DEF CloseWindow
<1>8. CASE EnableAsyncMeshing BY <1>0, <1>8 DEF EnableAsyncMeshing
<1>9. CASE DisableAsyncMeshing BY <1>0, <1>9 DEF DisableAsyncMeshing
<1>10. CASE JoinWorkers BY <1>0, <1>10 DEF JoinWorkers
<1>11. CASE StartDeadline BY <1>0, <1>11 DEF StartDeadline
<1>12. CASE DrawFrame BY <1>0, <1>12 DEF DrawFrame
<1>13. CASE AttachFenceWaiter BY <1>0, <1>13 DEF AttachFenceWaiter
<1>14. CASE RequestStop BY <1>0, <1>14 DEF RequestStop
<1>15. CASE JoinFenceWaiter BY <1>0, <1>15 DEF JoinFenceWaiter
<1>16. CASE DestroyRenderer BY <1>0, <1>16 DEF DestroyRenderer
<1>17. CASE TakeKick BY <1>0, <1>17 DEF TakeKick
<1>18. CASE FenceTimesOut BY <1>0, <1>18 DEF FenceTimesOut
<1>19. CASE FenceReady BY <1>0, <1>19 DEF FenceReady
<1>20. CASE ReadSignal BY <1>0, <1>20 DEF ReadSignal
<1>21. CASE SignalFence BY <1>0, <1>21 DEF SignalFence
<1>22. CASE GpuFinishes BY <1>0, <1>22 DEF GpuFinishes
<1>23. CASE TimePasses BY <1>0, <1>23 DEF TimePasses
<1>24. CASE RequestMesh BY <1>0, <1>24 DEF RequestMesh
<1>25. ASSUME NEW w \in Workers, Worker(w) PROVE ReadyUnseen'
  <2> QED BY <1>0, <1>25 DEF Worker, WaitForWork, TryPop, PushUpload, BuildFails, SignalUpload
<1>26. CASE UNCHANGED vars BY <1>0, <1>26 DEF vars, state
<1>27. CASE JoinSession BY <1>0, <1>27 DEF JoinSession
<1>28. CASE WaitIdle BY <1>0, <1>28 DEF WaitIdle
<1> QED BY <1>1, <1>2, <1>3, <1>4, <1>5, <1>6, <1>7, <1>8, <1>9, <1>10, <1>11, <1>12, <1>13, <1>14,
   <1>15, <1>16, <1>17, <1>18, <1>19, <1>20, <1>21, <1>22, <1>23, <1>24, <1>25, <1>26, <1>27, <1>28 DEF Next, MainLoop,
   FenceWaiter

\* The loop's invariant holds in every state.
THEOREM LoopInvHolds == Spec => []LoopInv
<1>1. Init => LoopInv BY InitLoopInv
<1>2. LoopInv /\ [Next]_vars => LoopInv'
  <2> SUFFICES ASSUME LoopInv, [Next]_vars PROVE LoopInv' OBVIOUS
  <2>1. Shape'
    <3>1. CASE UNCHANGED vars BY <3>1 DEF LoopInv, Shape, vars, state
    <3>2. CASE Next BY <3>2, MainLoopShape, ThreadShape DEF LoopInv, Next
    <3> QED BY <3>1, <3>2
  <2>2. FenceInv' /\ AttachedInv' BY <2>1, FenceStep, AttachedStep
  <2>3. WakeInv' BY <2>1, UnseenStep, ReadyUnseenStep DEF WakeInv
  <2> QED BY <2>1, <2>2, <2>3 DEF LoopInv
<1> QED BY <1>1, <1>2, PTL DEF Spec

(* The graphics thread never sleeps on a mesh or a fence that nobody will  *)
(* wake it for, however pushes, kicks and F6 meet.                         *)
THEOREM WakeUpsArrive == Spec => []NoMissedWake
<1>1. LoopInv => NoMissedWake
  <2> SUFFICES ASSUME LoopInv, At("wait"), ~wake.signaled
      PROVE /\ pool.uploads > 0 => \E w \in Workers : worker[w] = "signal"
            /\ gfx.phase = 1 /\ waiter.ready /\ waiter.attached => waiter.at \in {"done", "signal"}
    BY DEF NoMissedWake
  <2>1. gfx.at = "wait" BY DEF At
  <2>2. pool.attached BY <2>1 DEF LoopInv, AttachedInv, Inner
  <2> QED BY <2>1, <2>2 DEF LoopInv, WakeInv, Unseen, ReadyUnseen, Taking
<1> QED BY <1>1, LoopInvHolds, PTL

(* No frame begins before its fence is free, whether the loop or the fence *)
(* waiter waited for it.                                                   *)
THEOREM FramesFollowFences == Spec => FenceBeforeFrame
<1>1. LoopInv /\ [Next]_vars => [At("begin") /\ ~At("begin")' => gpu # "busy"]_vars
  <2> SUFFICES ASSUME LoopInv, Next, gfx.at = "begin", gfx'.at # "begin" PROVE gpu # "busy"
    BY DEF At
  <2>1. CASE DrawFrame
    <3>1. gfx.fence => gpu # "busy" BY DEF LoopInv, FenceInv
    <3> QED BY <2>1, <3>1 DEF DrawFrame
  <2>2. CASE MainLoop /\ ~DrawFrame
    BY <2>2 DEF MainLoop, At, BeginLoop, TestPhase, Wake, UpdateMeshes, UpdateThrows, DetachFenceWaiter,
       CloseWindow, EnableAsyncMeshing, DisableAsyncMeshing, JoinWorkers, StartDeadline, AttachFenceWaiter,
       RequestStop, JoinSession, JoinFenceWaiter, WaitIdle, DestroyRenderer
  <2>3. CASE gfx' = gfx BY <2>3
  <2>4. FenceWaiter \/ GpuFinishes \/ TimePasses \/ RequestMesh \/ (\E w \in Workers : Worker(w)) => gfx' = gfx
    BY DEF FenceWaiter, TakeKick, FenceTimesOut, FenceReady, ReadSignal, SignalFence, GpuFinishes, TimePasses,
       RequestMesh, Worker, WaitForWork, TryPop, PushUpload, BuildFails, SignalUpload
  <2> QED BY <2>1, <2>2, <2>3, <2>4 DEF Next
<1> QED BY <1>1, LoopInvHolds, PTL DEF Spec, FenceBeforeFrame
==============================================================================
