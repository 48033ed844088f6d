---------------------------- MODULE SegmentPool -----------------------------
(***************************************************************************)
(* worker/pool.py and the ThreadPoolExecutor it owns.  The executor is a   *)
(* library: it is modelled from what the service calls (submit, cancel,    *)
(* shutdown(wait, cancel_futures)) and from what Python promises of each.  *)
(*                                                                         *)
(* executor is both SegmentPool._executor and the state of the executor    *)
(* behind it:                                                              *)
(*   "running"   accepts work                                              *)
(*   "draining"  shutdown() has set the flag and is emptying the queue; it *)
(*               holds the lock that submit() needs                        *)
(*   "shutdown"  submit() raises; shutdown() is joining the threads        *)
(*   "none"      the join is over and SegmentPool has dropped the executor *)
(***************************************************************************)
EXTENDS Integers, Sequences, FiniteSets

CONSTANTS
    Task,         \* the calls that can be submitted
    Worker,       \* the threads of the executor: max_workers of them
    NoTask        \* what an idle thread holds

ASSUME PoolAssumption ==
    /\ NoTask \notin Task
    /\ Worker # {}
    /\ IsFiniteSet(Worker)

VARIABLES
    executor,     \* see above
    queue,        \* the executor's work queue
    future,       \* the state of the Future of each task
    hand          \* the task each thread has taken from the queue

poolVars == <<executor, queue, future, hand>>

ExecutorState == {"running", "draining", "shutdown", "none"}

(* "none": never submitted.  "pending": submitted, not yet claimed by      *)
(* set_running_or_notify_cancel, so that cancel() still succeeds.          *)
FutureState == {"none", "pending", "running", "cancelled", "finished"}

PoolInit ==
    /\ executor = "running"      \* lifespan calls start() before it serves
    /\ queue = << >>
    /\ future = [t \in Task |-> "none"]
    /\ hand = [w \in Worker |-> NoTask]

-----------------------------------------------------------------------------
(* executor.submit(), when it does not raise.  It takes a call it has been *)
(* given before like any other; the model has one future for each task and *)
(* keeps the latest.                                                       *)
SubmitTask(t) ==
    /\ executor = "running"
    /\ queue' = Append(queue, t)
    /\ future' = [future EXCEPT ![t] = "pending"]
    /\ UNCHANGED <<executor, hand>>

(* executor.submit() raises RuntimeError.                                  *)
SubmitRaises == executor \in {"shutdown", "none"}

(* Future.cancel(): what it returns, and what it does.  It also returns    *)
(* True when the future is cancelled already.                              *)
CancelSucceeds(t) == future[t] \in {"pending", "cancelled"}

CancelTask(t) ==
    /\ future' = IF CancelSucceeds(t) THEN [future EXCEPT ![t] = "cancelled"]
                                      ELSE future
    /\ UNCHANGED <<executor, queue, hand>>

-----------------------------------------------------------------------------
(* A thread takes the next work item; set_running_or_notify_cancel comes   *)
(* later, so a cancel() may still win in between.                          *)
Claim(w) ==
    /\ hand[w] = NoTask
    /\ queue # << >>
    /\ hand' = [hand EXCEPT ![w] = Head(queue)]
    /\ queue' = Tail(queue)
    /\ UNCHANGED <<executor, future>>

StartRun(w) ==
    /\ hand[w] # NoTask
    /\ future[hand[w]] = "pending"
    /\ future' = [future EXCEPT ![hand[w]] = "running"]
    /\ UNCHANGED <<executor, queue, hand>>

DropCancelled(w) ==
    /\ hand[w] # NoTask
    /\ future[hand[w]] = "cancelled"
    /\ hand' = [hand EXCEPT ![w] = NoTask]
    /\ UNCHANGED <<executor, queue, future>>

(* The call returns: process_segment never raises.                         *)
FinishRun(w) ==
    /\ hand[w] # NoTask
    /\ future[hand[w]] = "running"
    /\ future' = [future EXCEPT ![hand[w]] = "finished"]
    /\ hand' = [hand EXCEPT ![w] = NoTask]
    /\ UNCHANGED <<executor, queue>>

-----------------------------------------------------------------------------
(* SegmentPool.shutdown(wait=True, cancel_futures=True): the flag is set,  *)
(* the queue is emptied item by item, each future cancelled, while threads *)
(* may go on taking items; then the threads are joined, and only then is   *)
(* the executor forgotten.                                                 *)
ShutdownExecutor ==
    /\ executor = "running"
    /\ executor' = "draining"
    /\ UNCHANGED <<queue, future, hand>>

(* Mutant of DrainOne: drops the item and leaves its future as it is.      *)
DrainOneForgets ==
    /\ executor = "draining"
    /\ queue # << >>
    /\ queue' = Tail(queue)
    /\ UNCHANGED <<executor, future, hand>>

DrainOne ==
    /\ executor = "draining"
    /\ queue # << >>
    /\ queue' = Tail(queue)
    /\ future' = [future EXCEPT ![Head(queue)] = "cancelled"]
    /\ UNCHANGED <<executor, hand>>

(* Mutant of DrainDone: the threads are joined before the lock is released.*)
DrainDoneAfterJoin ==
    /\ executor = "draining"
    /\ queue = << >>
    /\ \A w \in Worker : hand[w] = NoTask
    /\ executor' = "shutdown"
    /\ UNCHANGED <<queue, future, hand>>

DrainDone ==
    /\ executor = "draining"
    /\ queue = << >>
    /\ executor' = "shutdown"
    /\ UNCHANGED <<queue, future, hand>>

(* Mutants of DropExecutor: wait=False; and a wait for results that a      *)
(* cancelled future will never have.                                       *)
DropExecutorNoWait ==
    /\ executor = "shutdown"
    /\ executor' = "none"
    /\ UNCHANGED <<queue, future, hand>>

DropExecutorAllResults ==
    /\ executor = "shutdown"
    /\ \A t \in Task : future[t] \in {"none", "finished"}
    /\ executor' = "none"
    /\ UNCHANGED <<queue, future, hand>>

DropExecutor ==
    /\ executor = "shutdown"
    /\ \A w \in Worker : hand[w] = NoTask
    /\ executor' = "none"
    /\ UNCHANGED <<queue, future, hand>>

-----------------------------------------------------------------------------
Stopping == ShutdownExecutor \/ DrainOne \/ DrainDone \/ DropExecutor
WorkerStep(w) == Claim(w) \/ StartRun(w) \/ DropCancelled(w) \/ FinishRun(w)

(* What the pool relies on from its callers: they submit no task twice.    *)
(* PredictionService and OptimizedScript are shown to be such callers.     *)
SubmitOnce(t) == future[t] = "none" /\ SubmitTask(t)

PoolNext ==
    \/ \E t \in Task : SubmitOnce(t) \/ CancelTask(t)
    \/ \E w \in Worker : WorkerStep(w)
    \/ Stopping

(* Threads keep running, and a shutdown that has begun runs to its end; no *)
(* one has to begin it.                                                    *)
PoolSpec ==
    /\ PoolInit /\ [][PoolNext]_poolVars
    /\ \A w \in Worker : WF_poolVars(WorkerStep(w))
    /\ WF_poolVars(DrainOne \/ DrainDone \/ DropExecutor)

-----------------------------------------------------------------------------
PoolTypeOK ==
    /\ executor \in ExecutorState
    /\ queue \in Seq(Task)
    /\ future \in [Task -> FutureState]
    /\ hand \in [Worker -> Task \cup {NoTask}]

Queued == {queue[i] : i \in DOMAIN queue}
Held == {hand[w] : w \in Worker} \ {NoTask}

(* Every task is in at most one place, and the state of its future says    *)
(* which: a pending task is queued or in one thread's hand, a running task *)
(* is in one thread's hand, and nothing else is.  Two threads never run one*)
(* segment, and no submitted segment is lost.                              *)
OneThreadPerTask ==
    /\ \A i, k \in DOMAIN queue : queue[i] = queue[k] => i = k
    /\ \A v, w \in Worker : hand[v] = hand[w] /\ hand[v] # NoTask => v = w
    /\ Queued \cap Held = {}
    /\ \A t \in Task :
          /\ future[t] = "pending" => t \in Queued \cup Held
          /\ future[t] = "running" => t \in Held
          /\ future[t] \in {"none", "finished"} => t \notin Queued \cup Held

(* A pool that has been shut down has nothing left to run: once submit()   *)
(* raises the queue is empty, and once SegmentPool has dropped the executor*)
(* every future is final, which is what lets lifespan return (main.py:51). *)
StoppedPoolIsQuiet ==
    /\ executor \in {"shutdown", "none"} => queue = << >>
    /\ executor = "none" =>
          \A t \in Task : future[t] \in {"none", "cancelled", "finished"}
=============================================================================
