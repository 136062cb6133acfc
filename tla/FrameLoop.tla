------------------------------ MODULE FrameLoop ------------------------------
(***************************************************************************)
(* The frames of the graphics thread: the main loop of render_demo.cpp     *)
(* with WorldRenderer's asynchronous meshing, its WakeSignal, the threads  *)
(* of MeshWorkerPool and the thread of FrameFenceWaiter.                   *)
(*                                                                         *)
(* In every frame the graphics thread kicks the fence waiter, uploads the  *)
(* meshes that arrive until the fence is ready, polls the user's events,   *)
(* uploads meshes up to a deadline, and draws.  It sleeps on one WakeSignal *)
(* that the fence waiter and the upload queue are attached to.  A mesh is  *)
(* only counted here: MeshPipeline says what is in it.                     *)
(*                                                                         *)
(* The condition variables notify whenever what they wait for may have     *)
(* become true, so that a waiting thread is one whose step is guarded by   *)
(* its predicate.  Nothing calls WakeSignal::requestShutdown().            *)
(***************************************************************************)
EXTENDS Naturals, FiniteSets

CONSTANTS Workers,
    Setups  \* how the demo is started and what may happen, see Setup

\* async: started without --sync, which alone starts the fence waiter; hangs:
\* the GPU may stop finishing frames; deaf: a thread of the session does not hear
\* its stop (the light engine's may not, see there); throws: uploading a mesh may
\* throw.  The bounds: presses of F6, and requests for meshes.
Setup == [async : BOOLEAN, hangs : BOOLEAN, deaf : BOOLEAN, throws : BOOLEAN, maxToggles : Nat, maxRequests : Nat]

ASSUME SetupAssumption == Setups \subseteq Setup

VARIABLES
    setup,   \* chosen once
    wake,    \* WakeSignal: signaled_, whether its deadline has passed, whether it exists
    pool,    \* MeshWorkerPool with its input queue and its upload queue's signal_
    worker,  \* thread of the pool -> where it is
    waiter,  \* FrameFenceWaiter and where its thread is
    gpu,     \* "busy" with the current frame's fence, "free" of it, or "idle"
    gfx,     \* the main loop: where it is, useFenceThread, its phase, window closed
    bounds   \* F6 pressed, meshes requested

state == <<wake, pool, worker, waiter, gpu, gfx, bounds>>
vars  == <<setup, state>>

NoPool == [on |-> FALSE, attached |-> FALSE, shutdown |-> FALSE, requests |-> 0, uploads |-> 0]
NewPool == [NoPool EXCEPT !.on = TRUE, !.attached = TRUE]

Init ==
    /\ setup \in Setups
    /\ wake = [signaled |-> FALSE, past |-> TRUE, alive |-> TRUE]
    /\ pool = IF setup.async THEN NewPool ELSE NoPool
    /\ worker = [w \in Workers |-> IF setup.async THEN "wait" ELSE "none"]
    /\ waiter = [at |-> IF setup.async THEN "idle" ELSE "none", running |-> setup.async,
                 attached |-> setup.async, pending |-> FALSE, ready |-> TRUE]
    /\ gpu = "idle"
    /\ gfx = [at |-> "top", fence |-> FALSE, phase |-> 1, closed |-> FALSE]
    /\ bounds = [toggles |-> 0, requests |-> 0]

Go(at) == gfx' = [gfx EXCEPT !.at = at]

Signal == wake' = [wake EXCEPT !.signaled = TRUE]
----------------------------------------------------------------------------
(* The threads of the pool.                                                *)

Move(w, at) == worker' = [worker EXCEPT ![w] = at]

\* Someone pushes to the rebuild queue.  Nobody tells the world and the light
\* engine of a new queue: after the first F6 only the graphics thread pushes.
RequestMesh ==
    /\ pool.on /\ bounds.requests < setup.maxRequests
    /\ bounds.toggles = 0 \/ gfx.at \in {"update", "drain"}
    /\ bounds' = [bounds EXCEPT !.requests = @ + 1]
    /\ pool' = IF pool.shutdown THEN pool ELSE [pool EXCEPT !.requests = @ + 1]
    /\ UNCHANGED <<setup, wake, worker, waiter, gpu, gfx>>

\* waitForWork(): a queue that is shut down sends the worker home.
WaitForWork(w) ==
    /\ worker[w] = "wait"
    /\ pool.shutdown \/ pool.requests > 0
    /\ Move(w, IF pool.shutdown THEN "none" ELSE "pop")
    /\ UNCHANGED <<setup, wake, pool, waiter, gpu, gfx, bounds>>

\* Another worker may have been faster.
TryPop(w) ==
    /\ worker[w] = "pop"
    /\ Move(w, IF pool.requests > 0 THEN "build" ELSE "wait")
    /\ pool' = [pool EXCEPT !.requests = IF @ > 0 THEN @ - 1 ELSE 0]
    /\ UNCHANGED <<setup, wake, waiter, gpu, gfx, bounds>>

\* push() reads signal_ under the lock and signals after it.
PushUpload(w) ==
    /\ worker[w] = "build"
    /\ Move(w, IF pool.attached THEN "signal" ELSE "wait")
    /\ pool' = [pool EXCEPT !.uploads = @ + 1]
    /\ UNCHANGED <<setup, wake, waiter, gpu, gfx, bounds>>

BuildFails(w) ==
    /\ worker[w] = "build"
    /\ Move(w, "wait")
    /\ UNCHANGED <<setup, wake, pool, waiter, gpu, gfx, bounds>>

SignalUpload(w) ==
    /\ worker[w] = "signal"
    /\ Move(w, "wait")
    /\ Signal
    /\ UNCHANGED <<setup, pool, waiter, gpu, gfx, bounds>>

Worker(w) == WaitForWork(w) \/ TryPop(w) \/ PushUpload(w) \/ BuildFails(w) \/ SignalUpload(w)
----------------------------------------------------------------------------
(* The thread of FrameFenceWaiter, and the GPU it waits for.               *)

\* A stop comes before a wait that is pending.
TakeKick ==
    /\ waiter.at = "idle" /\ (waiter.pending \/ ~waiter.running)
    /\ waiter' = IF ~waiter.running THEN [waiter EXCEPT !.at = "gone"]
                                    ELSE [waiter EXCEPT !.at = "fence", !.pending = FALSE]
    /\ UNCHANGED <<setup, wake, pool, worker, gpu, gfx, bounds>>

\* Mutant: the wait has no timeout.
FenceTimesOut_Not ==
    /\ waiter.at = "fence" /\ gpu = "busy" /\ ~waiter.running
    /\ UNCHANGED vars

\* The wait gives up at times to look for a stop.
FenceTimesOut ==
    /\ waiter.at = "fence" /\ gpu = "busy" /\ ~waiter.running
    /\ waiter' = [waiter EXCEPT !.at = "gone"]
    /\ UNCHANGED <<setup, wake, pool, worker, gpu, gfx, bounds>>

FenceReady ==
    /\ waiter.at = "fence" /\ gpu # "busy"
    /\ waiter' = [waiter EXCEPT !.at = "done", !.ready = TRUE]
    /\ UNCHANGED <<setup, wake, pool, worker, gpu, gfx, bounds>>

\* Mutant: the kick is cleared when its wait is over, not when it is taken.
ReadSignal_ClearsKick ==
    /\ waiter.at = "done"
    /\ waiter' = [waiter EXCEPT !.at = IF waiter.attached THEN "signal" ELSE "idle", !.pending = FALSE]
    /\ UNCHANGED <<setup, wake, pool, worker, gpu, gfx, bounds>>

ReadSignal ==
    /\ waiter.at = "done"
    /\ waiter' = [waiter EXCEPT !.at = IF waiter.attached THEN "signal" ELSE "idle"]
    /\ UNCHANGED <<setup, wake, pool, worker, gpu, gfx, bounds>>

SignalFence ==
    /\ waiter.at = "signal"
    /\ waiter' = [waiter EXCEPT !.at = "idle"]
    /\ Signal
    /\ UNCHANGED <<setup, pool, worker, gpu, gfx, bounds>>

FenceWaiter == TakeKick \/ FenceTimesOut \/ FenceReady \/ ReadSignal \/ SignalFence

GpuFinishes ==
    /\ gpu # "idle" /\ gpu' \in {"free", "idle"} \ {gpu}
    /\ UNCHANGED <<setup, wake, pool, worker, waiter, gfx, bounds>>

TimePasses ==
    /\ ~wake.past
    /\ wake' = [wake EXCEPT !.past = TRUE]
    /\ UNCHANGED <<setup, pool, worker, waiter, gpu, gfx, bounds>>
----------------------------------------------------------------------------
(* The main loop.                                                          *)

At(at) == gfx.at = at

\* Mutant: kickWait() leaves ready_ to the thread.
BeginLoop_StaysReady ==
    /\ At("top")
    /\ IF gfx.closed
       THEN Go("stop") /\ UNCHANGED waiter
       ELSE /\ gfx' = [gfx EXCEPT !.fence = pool.on, !.phase = 1, !.at = IF pool.on THEN "test" ELSE "events"]
            /\ waiter' = IF pool.on THEN [waiter EXCEPT !.pending = TRUE] ELSE waiter
    /\ UNCHANGED <<setup, wake, pool, worker, gpu, bounds>>

\* useFenceThread is decided here for the whole frame.
BeginLoop ==
    /\ At("top")
    /\ IF gfx.closed
       THEN Go("stop") /\ UNCHANGED waiter
       ELSE /\ gfx' = [gfx EXCEPT !.fence = pool.on, !.phase = 1, !.at = IF pool.on THEN "test" ELSE "events"]
            /\ waiter' = IF pool.on THEN [waiter EXCEPT !.pending = TRUE, !.ready = FALSE] ELSE waiter
    /\ UNCHANGED <<setup, wake, pool, worker, gpu, bounds>>

\* Mutant: wait() forgets a signal when it begins.
TestPhase_ForgetsSignal ==
    /\ At("test")
    /\ IF gfx.phase = 1
       THEN IF waiter.ready THEN Go("drain") /\ UNCHANGED wake
                            ELSE Go("wait") /\ wake' = [wake EXCEPT !.past = FALSE, !.signaled = FALSE]
       ELSE Go(IF wake.past THEN "begin" ELSE "wait") /\ UNCHANGED wake
    /\ UNCHANGED <<setup, pool, worker, waiter, gpu, bounds>>

\* The first phase ends with the fence, the second with the deadline that
\* StartDeadline sets once and waitForMeshUploads() sets again and again.
TestPhase ==
    /\ At("test")
    /\ IF gfx.phase = 1
       THEN IF waiter.ready THEN Go("drain") /\ UNCHANGED wake
                            ELSE Go("wait") /\ wake' = [wake EXCEPT !.past = FALSE]
       ELSE Go(IF wake.past THEN "begin" ELSE "wait") /\ UNCHANGED wake
    /\ UNCHANGED <<setup, pool, worker, waiter, gpu, bounds>>

\* WakeSignal::wait() takes the signal back when it returns.
Wake ==
    /\ At("wait") /\ (wake.signaled \/ wake.past)
    /\ wake' = [wake EXCEPT !.signaled = FALSE]
    /\ Go("update")
    /\ UNCHANGED <<setup, pool, worker, waiter, gpu, bounds>>

\* updateMeshes(0) takes whatever has been uploaded.
UpdateMeshes ==
    /\ At("update") \/ At("drain")
    /\ pool' = [pool EXCEPT !.uploads = 0]
    /\ Go(IF At("drain") THEN "detach" ELSE "test")
    /\ UNCHANGED <<setup, wake, worker, waiter, gpu, bounds>>

\* An exception leaves the loop for good; the destructors run, of the fence
\* waiter, of the renderer, and of the session.
UpdateThrows ==
    /\ setup.throws /\ (At("update") \/ At("drain"))
    /\ Go("unwind")
    /\ UNCHANGED <<setup, wake, pool, worker, waiter, gpu, bounds>>

DetachFenceWaiter ==
    /\ At("detach")
    /\ waiter' = [waiter EXCEPT !.attached = FALSE]
    /\ Go("events")
    /\ UNCHANGED <<setup, wake, pool, worker, gpu, bounds>>

CloseWindow ==
    /\ At("events") /\ ~gfx.closed
    /\ gfx' = [gfx EXCEPT !.closed = TRUE]
    /\ UNCHANGED <<setup, wake, pool, worker, waiter, gpu, bounds>>

\* F6: enableAsyncMeshing().
EnableAsyncMeshing ==
    /\ At("events") /\ ~pool.on /\ bounds.toggles < setup.maxToggles
    /\ bounds' = [bounds EXCEPT !.toggles = @ + 1]
    /\ pool' = NewPool
    /\ worker' = [w \in Workers |-> "wait"]
    /\ UNCHANGED <<setup, wake, waiter, gpu, gfx>>

\* F6: disableAsyncMeshing() detaches the upload queue and stops the pool ...
DisableAsyncMeshing ==
    /\ At("events") /\ pool.on /\ bounds.toggles < setup.maxToggles
    /\ bounds' = [bounds EXCEPT !.toggles = @ + 1]
    /\ pool' = [pool EXCEPT !.attached = FALSE, !.shutdown = TRUE]
    /\ Go("join workers")
    /\ UNCHANGED <<setup, wake, worker, waiter, gpu>>

\* ... whose threads finish the meshes they are building; then it is destroyed.
JoinWorkers ==
    /\ At("join workers") \/ At("last join")
    /\ \A w \in Workers : worker[w] = "none"
    /\ pool' = NoPool
    /\ Go(IF At("last join") THEN "end session" ELSE "events")
    /\ UNCHANGED <<setup, wake, worker, waiter, gpu, bounds>>

StartDeadline ==
    /\ At("events")
    /\ IF pool.on THEN gfx' = [gfx EXCEPT !.at = "test", !.phase = 2] /\ wake' = [wake EXCEPT !.past = FALSE]
                  ELSE Go("begin") /\ UNCHANGED wake
    /\ UNCHANGED <<setup, pool, worker, waiter, gpu, bounds>>

\* beginFrame() waits for the fence itself unless told that it is ready.
\* Drawing makes the next frame's fence the current one; no frame is drawn
\* while, for example, the window is resized.
DrawFrame ==
    /\ At("begin") /\ (gfx.fence \/ gpu # "busy")
    /\ \/ \E g \in {"busy", "free"} : gpu' = g /\ Go("attach")
       \/ UNCHANGED gpu /\ Go("top")
    /\ UNCHANGED <<setup, wake, pool, worker, waiter, bounds>>

\* wakeSignal() is null without asynchronous meshing.
AttachFenceWaiter ==
    /\ At("attach")
    /\ waiter' = IF gfx.fence /\ pool.on THEN [waiter EXCEPT !.attached = TRUE] ELSE waiter
    /\ Go("top")
    /\ UNCHANGED <<setup, wake, pool, worker, gpu, bounds>>

\* The end of main(), or the first destructor on the way out of it.
RequestStop ==
    /\ At("stop") \/ At("unwind")
    /\ waiter' = [waiter EXCEPT !.running = FALSE]
    /\ Go(IF At("stop") THEN "join session" ELSE "join waiter")
    /\ UNCHANGED <<setup, wake, pool, worker, gpu, bounds>>

\* stopGameThread() and lightEngine.stop(), and ~GameSession() in the end, which
\* finds the threads still running after an exception.
JoinSession ==
    /\ (At("join session") \/ At("end session")) /\ ~setup.deaf
    /\ Go(IF At("join session") THEN "join waiter" ELSE "ended")
    /\ UNCHANGED <<setup, wake, pool, worker, waiter, gpu, bounds>>

JoinFenceWaiter ==
    /\ At("join waiter") /\ waiter.at \in {"gone", "none"}
    /\ Go("wait idle")
    /\ UNCHANGED <<setup, wake, pool, worker, waiter, gpu, bounds>>

\* renderer->waitIdle() and that of ~WorldRenderer() have no timeout.
WaitIdle ==
    /\ At("wait idle") /\ gpu = "idle"
    /\ Go("destroy")
    /\ UNCHANGED <<setup, wake, pool, worker, waiter, gpu, bounds>>

\* WorldRenderer's members are destroyed from the last to the first: the
\* WakeSignal goes before the pool, whose destructor stops it.
DestroyRenderer ==
    /\ At("destroy")
    /\ wake' = [wake EXCEPT !.alive = FALSE]
    /\ pool' = [pool EXCEPT !.shutdown = TRUE]
    /\ Go("last join")
    /\ UNCHANGED <<setup, worker, waiter, gpu, bounds>>

MainLoop ==
    \/ BeginLoop \/ TestPhase \/ Wake \/ UpdateMeshes \/ UpdateThrows \/ DetachFenceWaiter
    \/ CloseWindow \/ EnableAsyncMeshing \/ DisableAsyncMeshing \/ JoinWorkers
    \/ StartDeadline \/ DrawFrame \/ AttachFenceWaiter
    \/ RequestStop \/ JoinSession \/ JoinFenceWaiter \/ WaitIdle \/ DestroyRenderer

Next ==
    \/ MainLoop \/ FenceWaiter \/ GpuFinishes \/ TimePasses \/ RequestMesh
    \/ \E w \in Workers : Worker(w)

\* All threads run and time passes; a GPU that hangs does so for good.
Spec ==
    /\ Init /\ [][Next]_vars
    /\ WF_state(MainLoop) /\ WF_state(FenceWaiter) /\ WF_state(TimePasses)
    /\ \A w \in Workers : WF_state(Worker(w))
    /\ WF_state(GpuFinishes /\ ~setup.hangs)
----------------------------------------------------------------------------
\* Every variable has its type; a pool that is off has no threads.
TypeOK ==
    /\ setup \in Setups
    /\ wake \in [signaled : BOOLEAN, past : BOOLEAN, alive : BOOLEAN]
    /\ pool \in [on : BOOLEAN, attached : BOOLEAN, shutdown : BOOLEAN,
                 requests : 0..setup.maxRequests, uploads : 0..setup.maxRequests]
    /\ worker \in [Workers -> {"none", "wait", "pop", "build", "signal"}]
    /\ waiter \in [at : {"none", "idle", "fence", "done", "signal", "gone"}, running : BOOLEAN,
                   attached : BOOLEAN, pending : BOOLEAN, ready : BOOLEAN]
    /\ gpu \in {"busy", "free", "idle"}
    /\ gfx \in [at : {"top", "test", "wait", "update", "drain", "detach", "events", "join workers", "begin",
                      "attach", "stop", "unwind", "join session", "join waiter", "wait idle", "destroy", "last join",
                      "end session", "ended"},
                fence : BOOLEAN, phase : 1..2, closed : BOOLEAN]
    /\ ~pool.on => \A w \in Workers : worker[w] = "none"

(* A frame begins only when its fence is free: if it does not wait for it, *)
(* the fence waiter has, however kicks, signals left over from the frame   *)
(* before, F6 and failing frames meet.                                     *)
FenceBeforeFrame == [][At("begin") /\ ~At("begin")' => gpu # "busy"]_vars

(* The graphics thread sleeps only while there is nothing for it: a mesh   *)
(* that is uploaded, or the fence of the frame, has woken it or is about   *)
(* to.  (The deadline would hide a lost signal behind a late frame.)       *)
NoMissedWake ==
    At("wait") /\ ~wake.signaled =>
        /\ pool.uploads > 0 => \E w \in Workers : worker[w] = "signal"
        /\ gfx.phase = 1 /\ waiter.ready /\ waiter.attached => waiter.at \in {"done", "signal"}

(* Frame follows frame until the program ends, as long as the GPU works    *)
(* and the session's threads end when told to.  Started with --sync there  *)
(* is no fence waiter: the first frame after F6 waits for it for ever.     *)
FramesGoOn == (setup.async /\ ~setup.hangs /\ ~setup.deaf) => []<>(At("top") \/ At("ended"))

(* Closing the window, or an exception, ends the fence waiter's thread,    *)
(* whatever the GPU and the other threads do; and it ends the program,     *)
(* however the waits for workers, session, fence and GPU follow each       *)
(* other, if the GPU works and the session's threads end when told to.     *)
StopReturns ==
    /\ (At("stop") \/ At("unwind")) ~> waiter.at \in {"none", "gone"}
    /\ ~setup.hangs /\ ~setup.deaf => ((At("stop") \/ At("unwind")) ~> At("ended"))

(* No thread signals a WakeSignal that is gone: "must outlive queue or be  *)
(* detached" (queue.hpp).                                                  *)
SignalOutlivesQueue == \A w \in Workers : worker[w] = "signal" => wake.alive
==============================================================================
