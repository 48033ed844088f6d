------------------------------ MODULE HungCall -------------------------------
(***************************************************************************)
(* PredictionService when a library call may never return.  There is no    *)
(* timeout, and Python cannot kill a thread (DESIGN.md:82): the thread is  *)
(* lost, with the segment it runs.                                         *)
(***************************************************************************)
EXTENDS PredictionService

VARIABLE hung             \* the threads whose library call never returns

hungVars == <<vars, hung>>

HungInit == Init /\ hung = {}

Hang(w) ==
    /\ wpc[w] = "calling"
    /\ hung' = hung \cup {w}
    /\ UNCHANGED vars

LiveWorker(w) == w \notin hung /\ WorkerNext(w) /\ UNCHANGED hung

HandlerGoesOn == HandlerStep /\ UNCHANGED hung
StopGoesOn == ContinueShutdown /\ UNCHANGED hung

HungNext ==
    \/ \E r \in Request : Receive(r) /\ UNCHANGED hung
    \/ HandlerGoesOn
    \/ \E w \in Worker : LiveWorker(w) \/ Hang(w)
    \/ BeginShutdown /\ UNCHANGED hung
    \/ StopGoesOn

(* As Fairness of PredictionService, but for the threads that hang.        *)
HungSpec ==
    /\ HungInit /\ [][HungNext]_hungVars
    /\ WF_hungVars(HandlerGoesOn)
    /\ \A w \in Worker : WF_hungVars(LiveWorker(w))
    /\ WF_hungVars(StopGoesOn)

-----------------------------------------------------------------------------
HangsIn(j) == \E w \in hung : JobOf(w) = j

(* A call that hangs costs its own job and one thread, no more: every other*)
(* job finishes as long as a thread is left and the pool runs.  So none    *)
(* stays pending or running because a transition, a wake-up or a result was*)
(* lost.                                                                   *)
OtherJobsFinish ==
    \A j \in JobId :
       j \in DOMAIN jobs ~>
          Finished(j) \/ executor # "running" \/ hung = Worker \/ HangsIn(j)

(* A job named by a 503 becomes terminal although the pool is going down,  *)
(* and frees its key: no identical request joins it for ever.              *)
RejectedJobsClose ==
    \A j \in JobId :
       (response = "rejected" /\ hjob = j) ~>
          \/ Finished(j) /\ \A k \in DOMAIN active : active[k] # j
          \/ HangsIn(j)

(* A stop completes whatever the threads and the handler are doing, unless *)
(* it waits for a call that hangs: nobody waits for a thread that waits for*)
(* him.                                                                    *)
ShutdownCompletes ==
    executor = "draining" ~> executor = "none" \/ hung # {}

(* Every request is answered, even when all threads hang and the pool is   *)
(* being stopped: no lock is held over a library call, and the stop waits  *)
(* for the threads only after it has released the executor's lock          *)
(* (pool.py:53), so nothing the event loop needs is ever behind a thread.  *)
RequestsAreAnswered == hpc # "idle" ~> hpc = "idle"
=============================================================================
