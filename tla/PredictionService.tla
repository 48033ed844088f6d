------------------------- MODULE PredictionService --------------------------
(***************************************************************************)
(* The running service: the POST handler of api/routes/predictions.py and  *)
(* submit_job_segments, the pool threads that execute process_segment of   *)
(* worker/pipeline.py, and lifespan's shutdown (api/main.py), around the   *)
(* store of JobStore and the pool of SegmentPool.                          *)
(*                                                                         *)
(* Handlers are coroutines without an await, so the event loop runs one to *)
(* its end before the next: one handler is enough.  It interleaves with    *)
(* the pool's threads at every call that takes a lock: each such call is   *)
(* one action.                                                             *)
(***************************************************************************)
EXTENDS JobStore, SegmentPool

CONSTANT
    NoJob         \* hjob of a handler that has no job yet

ASSUME ServiceAssumption ==
    /\ Task = JobId \X Segment
    /\ NoJob \notin JobId

VARIABLES
    hpc,          \* where the handler is
    hreq,         \* its request body
    hjob,         \* the job it created or joined; kept after the answer
    hpos,         \* its position in the segment keys of hreq
    stranded,     \* positions of the segments it has to mark failed
    response,     \* its last answer
    wpc,          \* where each thread is inside process_segment
    wstage,       \* the stage whose library call a thread is in; in the
                  \* except clause, the failed_stage it read
    finishedLog   \* the statuses of the job_finished lines of each job

handlerVars == <<hpc, hreq, hjob, hpos, stranded, response>>
workerVars == <<wpc, wstage>>
vars == <<storeVars, poolVars, handlerVars, workerVars, finishedLog>>

Keys == SegmentsOf[hreq]
TaskAt(i) == <<hjob, Keys[i]>>

HandlerPc == {"idle", "creating", "scheduling", "cancelling",
              "failing", "closing"}
Response == {"none", "accepted", "joined", "rejected", "unavailable"}
WorkerPc == {"idle", "claimed", "started", "calling", "raised",
             "closing", "done"}

Init ==
    /\ StoreInit
    /\ PoolInit
    /\ hpc = "idle"
    /\ hreq \in Request
    /\ hjob = NoJob
    /\ hpos = 1
    /\ stranded = {}
    /\ response = "none"
    /\ wpc = [w \in Worker |-> "idle"]
    /\ wstage = [w \in Worker |-> NoStage]
    /\ finishedLog = [j \in JobId |-> << >>]

(* The second half of _record: the write has closed job j, so the job is   *)
(* read again and its outcome is logged.                                   *)
LogFinished(j) ==
    finishedLog' = [finishedLog EXCEPT ![j] = Append(@, Status(jobs[j]))]

-----------------------------------------------------------------------------
(* The handler.  Between two requests its variables keep the last request, *)
(* its job and its answer.                                                 *)
IdsLeft == DOMAIN jobs # JobId          \* the bound on the number of jobs

ReadExecutor(r) ==
    /\ hpc = "idle"
    /\ IdsLeft
    /\ executor # "none"
    /\ hpc' = "creating"
    /\ hreq' = r
    /\ hjob' = NoJob
    /\ response' = "none"
    /\ UNCHANGED <<storeVars, poolVars, hpos, stranded, workerVars, finishedLog>>

(* SegmentPool.executor raises: 503, and no job is registered.             *)
RefuseEarly(r) ==
    /\ hpc = "idle"
    /\ executor = "none"
    /\ hreq' = r
    /\ hjob' = NoJob
    /\ response' = "unavailable"
    /\ UNCHANGED <<storeVars, poolVars, hpc, hpos, stranded, workerVars, finishedLog>>

Receive(r) == ReadExecutor(r) \/ RefuseEarly(r)

Create(j) ==
    /\ hpc = "creating"
    /\ CreateJob(hreq, j)
    /\ hpc' = "scheduling"
    /\ hjob' = j
    /\ UNCHANGED <<poolVars, hreq, hpos, stranded, response, workerVars, finishedLog>>

(* Mutant of Join: "if created" is missing, so the segments of a joined job*)
(* are scheduled again.                                                    *)
JoinSchedules(j) ==
    /\ hpc = "creating"
    /\ JoinJob(hreq, j)
    /\ hpc' = "scheduling"
    /\ hjob' = j
    /\ UNCHANGED <<poolVars, hreq, hpos, stranded, response, workerVars, finishedLog>>

Join(j) ==
    /\ hpc = "creating"
    /\ JoinJob(hreq, j)
    /\ hpc' = "idle"
    /\ hjob' = j
    /\ response' = "joined"
    /\ UNCHANGED <<poolVars, hreq, hpos, stranded, workerVars, finishedLog>>

ScheduleNext ==
    /\ hpc = "scheduling"
    /\ hpos <= Len(Keys)
    /\ SubmitTask(TaskAt(hpos))
    /\ hpos' = hpos + 1
    /\ UNCHANGED <<storeVars, hpc, hreq, hjob, stranded, response, workerVars, finishedLog>>

(* Mutant of Accept: the loop ends one segment early.                      *)
AcceptTooEarly ==
    /\ hpc = "scheduling"
    /\ hpos >= Len(Keys)
    /\ hpc' = "idle"
    /\ hpos' = 1
    /\ response' = "accepted"
    /\ UNCHANGED <<storeVars, poolVars, hreq, hjob, stranded, workerVars, finishedLog>>

Accept ==
    /\ hpc = "scheduling"
    /\ hpos > Len(Keys)
    /\ hpc' = "idle"
    /\ hpos' = 1
    /\ response' = "accepted"
    /\ UNCHANGED <<storeVars, poolVars, hreq, hjob, stranded, workerVars, finishedLog>>

(* Mutants of SubmitFails: segment_keys[index + 1:], and one past the end. *)
SubmitFailsAfterThis ==
    /\ hpc' = "cancelling"
    /\ stranded' = (hpos + 1) .. Len(Keys)
    /\ hpos' = 1

SubmitFailsPastTheEnd ==
    /\ hpc' = "cancelling"
    /\ stranded' = hpos .. Len(Keys) + 1
    /\ hpos' = 1

(* except RuntimeError: segment_keys[index:] is stranded, and the loop over*)
(* the futures scheduled before it begins.                                 *)
SubmitFails ==
    /\ hpc' = "cancelling"
    /\ stranded' = hpos .. Len(Keys)
    /\ hpos' = 1

ScheduleRaises ==
    /\ hpc = "scheduling"
    /\ hpos <= Len(Keys)
    /\ SubmitRaises
    /\ SubmitFails
    /\ UNCHANGED <<storeVars, poolVars, hreq, hjob, response, workerVars, finishedLog>>

(* Mutants of CancelNext: a cancelled segment is not added to the stranded *)
(* ones; every scheduled segment is, whatever cancel() answered.           *)
CancelNextForgets ==
    /\ hpc = "cancelling"
    /\ hpos \notin stranded
    /\ CancelTask(TaskAt(hpos))
    /\ hpos' = hpos + 1
    /\ UNCHANGED <<storeVars, hpc, hreq, hjob, stranded, response, workerVars, finishedLog>>

CancelNextIgnoresAnswer ==
    /\ hpc = "cancelling"
    /\ hpos \notin stranded
    /\ CancelTask(TaskAt(hpos))
    /\ stranded' = stranded \cup {hpos}
    /\ hpos' = hpos + 1
    /\ UNCHANGED <<storeVars, hpc, hreq, hjob, response, workerVars, finishedLog>>

CancelNext ==
    /\ hpc = "cancelling"
    /\ hpos \notin stranded
    /\ CancelTask(TaskAt(hpos))
    /\ stranded' = IF CancelSucceeds(TaskAt(hpos)) THEN stranded \cup {hpos}
                                                   ELSE stranded
    /\ hpos' = hpos + 1
    /\ UNCHANGED <<storeVars, hpc, hreq, hjob, response, workerVars, finishedLog>>

(* hpos has reached the position whose submit raised, the first one that   *)
(* was stranded from the start: cancelling ends.  (Positions below hpos may*)
(* have joined stranded since; hpos itself has not.)                       *)
CancelDone ==
    /\ hpc = "cancelling"
    /\ hpos \in stranded
    /\ hpc' = "failing"
    /\ hpos' = 1
    /\ UNCHANGED <<storeVars, poolVars, hreq, hjob, stranded, response, workerVars, finishedLog>>

(* _fail_stranded: one _record per stranded segment, in the request's order*)
(* (cancelled ones come first in both).                                    *)
FailNext ==
    /\ hpc = "failing"
    /\ \E i \in stranded :
          /\ \A k \in stranded : i <= k
          /\ UpdateSegment(hjob, Keys[i], NotScheduled)
          /\ stranded' = stranded \ {i}
          /\ hpc' = IF Closes(hjob, Keys[i], NotScheduled) THEN "closing"
                                                           ELSE "failing"
    /\ UNCHANGED <<poolVars, hreq, hjob, hpos, response, workerVars, finishedLog>>

HandlerLogs ==
    /\ hpc = "closing"
    /\ LogFinished(hjob)
    /\ hpc' = "failing"
    /\ UNCHANGED <<storeVars, poolVars, hreq, hjob, hpos, stranded, response, workerVars>>

(* submit_job_segments re-raises, and the handler answers 503 with the id. *)
Reject ==
    /\ hpc = "failing"
    /\ stranded = {}
    /\ hpc' = "idle"
    /\ response' = "rejected"
    /\ UNCHANGED <<storeVars, poolVars, hreq, hjob, hpos, stranded, workerVars, finishedLog>>

HandlerStep ==
    \/ \E j \in JobId : Create(j) \/ Join(j)
    \/ ScheduleNext \/ Accept \/ ScheduleRaises
    \/ CancelNext \/ CancelDone \/ FailNext \/ HandlerLogs \/ Reject

-----------------------------------------------------------------------------
(* The threads.  The task a thread holds is a segment of a job.            *)
JobOf(w) == hand[w][1]
SegmentOf(w) == hand[w][2]

Goto(w, pc) == wpc' = [wpc EXCEPT ![w] = pc]

WorkerClaims(w) ==
    /\ wpc[w] = "idle"
    /\ Claim(w)
    /\ Goto(w, "claimed")
    /\ UNCHANGED <<storeVars, handlerVars, wstage, finishedLog>>

(* Mutant of WorkerDrops: a thread does not let go of a cancelled task.    *)
WorkerKeepsCancelled(w) == FALSE

WorkerDrops(w) ==
    /\ wpc[w] = "claimed"
    /\ DropCancelled(w)
    /\ Goto(w, "idle")
    /\ UNCHANGED <<storeVars, handlerVars, wstage, finishedLog>>

WorkerStarts(w) ==
    /\ wpc[w] = "claimed"
    /\ StartRun(w)
    /\ Goto(w, "started")
    /\ UNCHANGED <<storeVars, handlerVars, wstage, finishedLog>>

(* Mutant of SetStage: only the first stage is written to the store.       *)
SetFirstStageOnly(w, st) ==
    /\ IF st = FirstStage
          THEN UpdateSegment(JobOf(w), SegmentOf(w), RunningAt(st))
          ELSE UNCHANGED storeVars
    /\ Goto(w, "calling")
    /\ wstage' = [wstage EXCEPT ![w] = st]
    /\ UNCHANGED <<poolVars, handlerVars, finishedLog>>

(* set_stage(st), and the library call of that stage begins.               *)
SetStage(w, st) ==
    /\ UpdateSegment(JobOf(w), SegmentOf(w), RunningAt(st))
    /\ Goto(w, "calling")
    /\ wstage' = [wstage EXCEPT ![w] = st]
    /\ UNCHANGED <<poolVars, handlerVars, finishedLog>>

EnterPipeline(w) ==
    /\ wpc[w] = "started"
    /\ SetStage(w, FirstStage)

EnterNextStage(w) ==
    /\ wpc[w] = "calling"
    /\ wstage[w] < LastStage
    /\ SetStage(w, wstage[w] + 1)

(* _record with a final result: the thread still has to log if this write  *)
(* closed the job.                                                         *)
Record(w, result) ==
    /\ UpdateSegment(JobOf(w), SegmentOf(w), result)
    /\ Goto(w, IF Closes(JobOf(w), SegmentOf(w), result) THEN "closing" ELSE "done")
    /\ wstage' = [wstage EXCEPT ![w] = NoStage]
    /\ UNCHANGED <<poolVars, handlerVars, finishedLog>>

Succeed(w) ==
    /\ wpc[w] = "calling"
    /\ wstage[w] = LastStage
    /\ Record(w, Succeeded)

(* Mutant of Raise: the stage is lost.                                     *)
RaiseForgetsStage(w) ==
    /\ wpc[w] = "calling"
    /\ Goto(w, "raised")
    /\ wstage' = [wstage EXCEPT ![w] = NoStage]
    /\ UNCHANGED <<storeVars, poolVars, handlerVars, finishedLog>>

(* The library call of the stage raises, and the except clause asks the    *)
(* store how far the segment was.                                          *)
Raise(w) ==
    /\ wpc[w] = "calling"
    /\ Goto(w, "raised")
    /\ wstage' = [wstage EXCEPT
          ![w] = jobs[JobOf(w)].segments[SegmentOf(w)].current_stage]
    /\ UNCHANGED <<storeVars, poolVars, handlerVars, finishedLog>>

RecordFailure(w) ==
    /\ wpc[w] = "raised"
    /\ Record(w, FailedAt(wstage[w]))

WorkerLogs(w) ==
    /\ wpc[w] = "closing"
    /\ LogFinished(JobOf(w))
    /\ Goto(w, "done")
    /\ UNCHANGED <<storeVars, poolVars, handlerVars, wstage>>

(* Mutant of WorkerReturns: the thread dies without resolving the future.  *)
WorkerVanishes(w) ==
    /\ wpc[w] = "done"
    /\ Goto(w, "idle")
    /\ UNCHANGED <<storeVars, poolVars, handlerVars, wstage, finishedLog>>

WorkerReturns(w) ==
    /\ wpc[w] = "done"
    /\ FinishRun(w)
    /\ Goto(w, "idle")
    /\ UNCHANGED <<storeVars, handlerVars, wstage, finishedLog>>

WorkerNext(w) ==
    \/ WorkerClaims(w) \/ WorkerDrops(w) \/ WorkerStarts(w)
    \/ EnterPipeline(w) \/ EnterNextStage(w) \/ Succeed(w)
    \/ Raise(w) \/ RecordFailure(w) \/ WorkerLogs(w) \/ WorkerReturns(w)

-----------------------------------------------------------------------------
(* The pool is stopped, at any time: submit_job_segments is prepared for a *)
(* stop in the middle of it (pipeline.py:151).  When lifespan stops it,    *)
(* and when nobody does, is the subject of ProcessLifecycle.               *)
BeginShutdown ==
    /\ ShutdownExecutor
    /\ UNCHANGED <<storeVars, handlerVars, workerVars, finishedLog>>

ContinueShutdown ==
    /\ DrainOne \/ DrainDone \/ DropExecutor
    /\ UNCHANGED <<storeVars, handlerVars, workerVars, finishedLog>>

Next ==
    \/ \E r \in Request : Receive(r)
    \/ HandlerStep
    \/ \E w \in Worker : WorkerNext(w)
    \/ BeginShutdown
    \/ ContinueShutdown

(* The event loop goes on with a request it has begun, the threads are     *)
(* scheduled and the library calls return or raise (they have no timeout), *)
(* and a shutdown that has begun goes on.  Nobody has to send a request or *)
(* to stop the service.                                                    *)
Fairness ==
    /\ WF_vars(HandlerStep)
    /\ \A w \in Worker : WF_vars(WorkerNext(w))
    /\ WF_vars(ContinueShutdown)

Spec == Init /\ [][Next]_vars /\ Fairness

-----------------------------------------------------------------------------
(* Types of the variables this module adds.                                *)
TypeOK ==
    /\ StoreTypeOK
    /\ PoolTypeOK
    /\ hpc \in HandlerPc
    /\ hreq \in Request
    /\ hjob \in JobId \cup {NoJob}
    /\ hpos \in 1 .. Len(Keys) + 1
    /\ stranded \subseteq 1 .. Len(Keys)
    /\ response \in Response
    /\ wpc \in [Worker -> WorkerPc]
    /\ wstage \in [Worker -> Stage \cup {NoStage}]
    /\ finishedLog \in [JobId -> Seq(JobStatus)]

SegmentState(t) == jobs[t[1]].segments[t[2]]

(* What the store says of a segment is where its thread is: a segment that *)
(* shows a stage is in that stage's library call in exactly one thread, and*)
(* the failed_stage a thread is about to record is the stage whose call    *)
(* raised.  So failed_stage, read back from the store (pipeline.py:113),   *)
(* is right although the store is shared by every thread.                  *)
StoreShowsTheThreads ==
    /\ \A w \in Worker :
          /\ wpc[w] = "started" => SegmentState(hand[w]) = Pending
          /\ wpc[w] \in {"calling", "raised"} =>
                SegmentState(hand[w]) = RunningAt(wstage[w])
    /\ \A j \in DOMAIN jobs : \A s \in DOMAIN jobs[j].segments :
          jobs[j].segments[s].status = "running" =>
             \E w \in Worker : hand[w] = <<j, s>> /\ wpc[w] \in {"calling", "raised"}

(* Every segment of an open job still has somebody who will finish it: the *)
(* handler that has not scheduled it yet or has to fail it, the queue of   *)
(* the executor, or a thread.  The one exception is a segment whose future *)
(* was cancelled by the stop of the pool.                                  *)
HandlerOwns(j, s) ==
    /\ hjob = j
    /\ \/ hpc = "scheduling" /\ \E i \in hpos .. Len(Keys) : Keys[i] = s
       \/ hpc = "cancelling" /\ \E i \in stranded \cup (hpos .. Len(Keys)) : Keys[i] = s
       \/ hpc \in {"failing", "closing"} /\ \E i \in stranded : Keys[i] = s

ThreadOwns(j, s) ==
    \E w \in Worker : hand[w] = <<j, s>> /\ wpc[w] # "idle"

OpenSegmentsAreOwned ==
    \A j \in OpenJobs : \A s \in DOMAIN jobs[j].segments :
       jobs[j].segments[s].status \in OpenStatus =>
          \/ HandlerOwns(j, s)
          \/ <<j, s>> \in Queued
          \/ ThreadOwns(j, s)
          \/ executor # "running" /\ future[<<j, s>>] = "cancelled"

(* A 503 that names a job leaves nothing of it behind: each segment is     *)
(* final, or in the hands of a thread that will finish it, even though the *)
(* pool is going down (pipeline.py:152-162).                               *)
RejectedJobIsSettled ==
    response = "rejected" =>
       \A s \in DOMAIN jobs[hjob].segments :
          jobs[hjob].segments[s].status \in OpenStatus => ThreadOwns(hjob, s)

(* job_finished is logged at most once for a job, with the status the job  *)
(* has for good, and never before the job is terminal.                     *)
FinishedIsLoggedOnce ==
    \A j \in JobId :
       /\ Len(finishedLog[j]) <= 1
       /\ finishedLog[j] # << >> =>
             /\ j \in DOMAIN jobs
             /\ IsTerminal(jobs[j])
             /\ finishedLog[j] = <<Status(jobs[j])>>

(* A caller that joined a job gets the segments it asked for, whatever the *)
(* order it named them in.                                                 *)
AnswerCoversTheRequest ==
    response \in {"accepted", "joined", "rejected"} =>
       DOMAIN jobs[hjob].segments = Elements(Keys)

-----------------------------------------------------------------------------
(* A statement of the repository that the code does not keep.              *)

(* "submit_job_segments already marked the rest FAILED, so the job is      *)
(* terminal" (predictions.py:60): the job a 503 names is terminal when the *)
(* answer leaves.  Its segments that were running keep running.            *)
RejectedJobIsTerminal == response = "rejected" => IsTerminal(jobs[hjob])

-----------------------------------------------------------------------------
Finished(j) == j \in DOMAIN jobs /\ IsTerminal(jobs[j])

(* Every job that finishes has its outcome logged.                         *)
FinishedIsLogged ==
    \A j \in JobId : Finished(j) ~> finishedLog[j] # << >>
=============================================================================
