-------------------------- MODULE ThreadStartFault --------------------------
(***************************************************************************)
(* PredictionService when the system refuses a thread.  submit() puts the  *)
(* work item on the queue first and starts a thread second, if none is idle*)
(* and fewer than max_workers exist; starting it raises RuntimeError when  *)
(* the system is out of threads.  The except clause of submit_job_segments *)
(* takes that for a pool that went down (pipeline.py:151), although the    *)
(* item stays on the queue of a pool that keeps running.                   *)
(***************************************************************************)
EXTENDS PredictionService

VARIABLES
    alive         \* the threads that have been started

faultVars == <<vars, alive>>

FaultInit == Init /\ alive = {}

NoneIdle == \A w \in alive : wpc[w] # "idle"

(* submit() finds an idle thread, or starts one, or has all it may have.   *)
SubmitAndStart ==
    /\ ScheduleNext
    /\ \/ alive' = alive /\ (~ NoneIdle \/ alive = Worker)
       \/ NoneIdle /\ \E w \in Worker \ alive : alive' = alive \cup {w}

(* The thread does not start: the segment is queued and submit() raises.   *)
ThreadDoesNotStart ==
    /\ hpc = "scheduling"
    /\ hpos <= Len(Keys)
    /\ NoneIdle /\ alive # Worker
    /\ SubmitTask(TaskAt(hpos))
    /\ SubmitFails
    /\ UNCHANGED <<storeVars, hreq, hjob, response, workerVars, finishedLog, alive>>

FaultNext ==
    \/ SubmitAndStart
    \/ ThreadDoesNotStart
    \/ /\ \/ \E r \in Request : Receive(r)
          \/ \E j \in JobId : Create(j) \/ Join(j)
          \/ Accept \/ ScheduleRaises \/ CancelNext \/ CancelDone
          \/ FailNext \/ HandlerLogs \/ Reject
          \/ \E w \in alive : WorkerNext(w)
          \/ BeginShutdown \/ ContinueShutdown
       /\ UNCHANGED alive

FaultSpec == FaultInit /\ [][FaultNext]_faultVars
=============================================================================
