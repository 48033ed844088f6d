------------------------ MODULE ServiceOutcomeProofs -------------------------
(***************************************************************************)
(* How requests and jobs end, for any number of jobs, segments, stages and *)
(* threads: what an answer names covers the request, no open segment is    *)
(* forgotten, a 503 leaves nothing behind that no thread will finish, and  *)
(* job_finished is logged once, with the status the job keeps.  And how the*)
(* process ends: no request meets the stop, and no thread is cut off.  And *)
(* that the service keeps the contract of its store with its clients.      *)
(***************************************************************************)
EXTENDS PredictionServiceProofs, ProcessLifecycle, StoreContract, HungCall,
        ThreadStartFault

-----------------------------------------------------------------------------
(* What any step leaves of the futures.                                    *)
LEMMA FutureFrame ==
    ASSUME PoolInv, [PoolNext]_poolVars
    PROVE  /\ \A t \in Task :
                 /\ future'[t] = "none" => future[t] = "none"
                 /\ future[t] \in {"running", "finished"} =>
                       future'[t] \in {"running", "finished"}
                 /\ future'[t] = "finished" => future[t] \in {"running", "finished"}
           /\ executor # "running" => executor' # "running"
           /\ executor \in {"shutdown", "none"} => executor' \in {"shutdown", "none"}
<1> USE DEF PoolInv, PoolTypeOK
<1>1. ASSUME NEW t \in Task, SubmitOnce(t) \/ CancelTask(t)
      PROVE  /\ executor' = executor
             /\ \A u \in Task : u # t => future'[u] = future[u]
             /\ future[t] # future'[t] =>
                   future[t] \in {"none", "pending"} /\ future'[t] \in {"pending", "cancelled"}
  BY <1>1 DEF SubmitOnce, SubmitTask, CancelTask, CancelSucceeds
<1>2. ASSUME NEW w \in Worker, StartRun(w) \/ FinishRun(w)
      PROVE  /\ executor' = executor /\ hand[w] \in Task
             /\ \A u \in Task : u # hand[w] => future'[u] = future[u]
             /\ \/ future[hand[w]] = "pending" /\ future'[hand[w]] = "running"
                \/ future[hand[w]] = "running" /\ future'[hand[w]] = "finished"
  BY <1>2 DEF StartRun, FinishRun
<1>3. ASSUME NEW w \in Worker, Claim(w) \/ DropCancelled(w)
      PROVE  UNCHANGED <<executor, future>>
  BY <1>3 DEF Claim, DropCancelled
<1>4. ASSUME DrainOne
      PROVE  /\ executor' = executor /\ Head(queue) \in Task
             /\ \A u \in Task : u # Head(queue) => future'[u] = future[u]
             /\ future[Head(queue)] \in {"pending", "cancelled"}
             /\ future'[Head(queue)] = "cancelled"
  <2>1. /\ executor' = executor /\ queue # << >>
        /\ future' = [future EXCEPT ![Head(queue)] = "cancelled"]
    BY <1>4 DEF DrainOne
  <2>2. Head(queue) \in Task /\ Head(queue) \in Items(queue)
    BY <2>1, QueueTail
  <2>3. \A w \in Worker : hand[w] # Head(queue)
    BY <2>2, AsSets, PoolAssumption DEF HeldOrQueuedOnce
  <2>4. future[Head(queue)] \in FutureState
        /\ future[Head(queue)] \notin {"none", "running", "finished"}
    BY <2>2, <2>3, AsSets DEF HeldOrQueuedOnce
  <2> QED
    BY <2>1, <2>2, <2>4 DEF FutureState
<1>5. ASSUME ShutdownExecutor \/ DrainDone \/ DropExecutor
      PROVE  /\ future' = future
             /\ executor' \in {"draining", "shutdown", "none"}
             /\ executor \in {"shutdown", "none"} => executor' \in {"shutdown", "none"}
  BY <1>5 DEF ShutdownExecutor, DrainDone, DropExecutor
<1>6. ASSUME UNCHANGED poolVars PROVE UNCHANGED <<executor, future>>
  BY <1>6 DEF poolVars
<1> QED
  BY <1>1, <1>2, <1>3, <1>4, <1>5, <1>6 DEF PoolNext, WorkerStep, Stopping

-----------------------------------------------------------------------------
(* What an answer names.  While a request is being worked on there is no   *)
(* answer yet.                                                             *)
Answered == {"accepted", "joined", "rejected"}

AnswersAgree ==
    /\ hpc # "idle" => response = "none"
    /\ response \in Answered => hjob \in DOMAIN jobs
    /\ AnswerCoversTheRequest
    /\ KeyedSegments

LEMMA AnswersInit == Init => AnswersAgree
  BY KeyedSegmentsInit DEF Init, AnswersAgree, Answered, AnswerCoversTheRequest

LEMMA AnswersStep == IInv /\ AnswersAgree /\ [Next]_vars => AnswersAgree'
<1> SUFFICES ASSUME IInv, AnswersAgree, [Next]_vars PROVE AnswersAgree'
  OBVIOUS
<1> DEFINE Handlers ==
       /\ (hpc # "idle" => response = "none")'
       /\ (response \in Answered => hjob \in DOMAIN jobs)'
       /\ AnswerCoversTheRequest'
<1>0. StoreInv /\ [StoreNext]_storeVars
  BY StoreSteps DEF IInv
<1>1. KeyedSegments'
  BY <1>0, KeyedSegmentsStep DEF AnswersAgree
<1>2. \A j \in DOMAIN jobs :
         j \in DOMAIN jobs' /\ DOMAIN jobs'[j].segments = DOMAIN jobs[j].segments
  BY <1>0, StoreFrame
<1>3. ASSUME response' = "none" \/ response' = "unavailable",
             hpc' # "idle" => response' = "none"
      PROVE  Handlers
  BY <1>3 DEF Answered, AnswerCoversTheRequest
<1>4. ASSUME UNCHANGED <<hpc, hreq, hjob, response>> PROVE Handlers
  BY <1>2, <1>4 DEF AnswersAgree, AnswerCoversTheRequest, Keys, Answered
<1>5. ASSUME NEW j \in JobId, Join(j) PROVE Handlers
  <2>1. /\ KeyOf[hreq] \in DOMAIN active /\ j = active[KeyOf[hreq]]
        /\ hpc' = "idle" /\ hreq' = hreq /\ hjob' = j /\ jobs' = jobs
    BY <1>5 DEF Join, JoinJob, storeVars
  <2>2. j \in DOMAIN jobs /\ jobs[j].key = KeyOf[hreq]
    BY <2>1 DEF IInv, StoreInv, IndexIsTheOpenJobs, OpenJobs
  <2>3. DOMAIN jobs[j].segments = Elements(Keys)
    BY <2>2 DEF AnswersAgree, KeyedSegments, IInv, ServiceTypes, Keys
  <2> QED
    BY <2>1, <2>2, <2>3 DEF AnswerCoversTheRequest, Keys
<1>6. ASSUME Accept \/ Reject PROVE Handlers
  <2>1. hpc \in InSubmit /\ hpc' = "idle"
        /\ UNCHANGED <<jobs, hreq, hjob>>
    BY <1>6 DEF Accept, Reject, InSubmit, storeVars
  <2> QED
    BY <2>1 DEF IInv, Bridge, HandlerAgrees, AnswerCoversTheRequest, Keys
<1>7. ASSUME NEW r \in Request, Receive(r) PROVE Handlers
  BY <1>3, <1>7 DEF Receive, ReadExecutor, RefuseEarly, AnswersAgree
<1>8. ASSUME \/ \E j \in JobId : Create(j)
             \/ ScheduleNext \/ ScheduleRaises \/ CancelNext \/ CancelDone
             \/ FailNext \/ HandlerLogs
      PROVE  Handlers
  <2>1. response' = response /\ hpc # "idle" /\ response = "none"
    BY <1>8 DEF Create, ScheduleNext, ScheduleRaises, CancelNext, CancelDone,
                FailNext, HandlerLogs, AnswersAgree
  <2> QED
    BY <1>3, <2>1
<1>9. ASSUME NEW w \in Worker, WorkerNext(w) PROVE Handlers
  BY <1>4, <1>9 DEF WorkerNext, WorkerClaims, WorkerDrops, WorkerStarts, EnterPipeline,
     EnterNextStage, SetStage, Succeed, Record, Raise, RecordFailure, WorkerLogs,
     WorkerReturns, handlerVars
<1>10. ASSUME BeginShutdown \/ ContinueShutdown \/ UNCHANGED vars PROVE Handlers
  BY <1>4, <1>10 DEF BeginShutdown, ContinueShutdown, vars, handlerVars
<1> QED
  BY <1>1, <1>5, <1>6, <1>7, <1>8, <1>9, <1>10 DEF Next, HandlerStep, AnswersAgree
-----------------------------------------------------------------------------
(* Who logs.  A write that closes a job finds no other closer of that job  *)
(* and no line, because the job was open; from then on the job is frozen.  *)
NoLineYet(j) == j \in DOMAIN jobs /\ IsTerminal(jobs[j]) /\ finishedLog[j] = << >>

LinesAgree ==
    \A j \in JobId : finishedLog[j] # << >> =>
       /\ j \in DOMAIN jobs
       /\ IsTerminal(jobs[j])
       /\ finishedLog[j] = <<Status(jobs[j])>>

ClosersAgree ==
    /\ \A w \in Worker : wpc[w] = "closing" => NoLineYet(JobOf(w))
    /\ \A v, w \in Worker :
          wpc[v] = "closing" /\ wpc[w] = "closing" /\ JobOf(v) = JobOf(w) => v = w
    /\ hpc = "closing" => /\ NoLineYet(hjob)
                          /\ \A w \in Worker : wpc[w] = "closing" => JobOf(w) # hjob

LogAgrees == LinesAgree /\ ClosersAgree

LEMMA LogInit == Init => LogAgrees
  BY DEF Init, LogAgrees, LinesAgree, ClosersAgree

LEMMA LogKept ==
    ASSUME IInv, LogAgrees, [Next]_vars, UNCHANGED finishedLog,
           hpc' = "closing" => hpc = "closing" /\ hjob' = hjob,
           \A w \in Worker : wpc'[w] = "closing" =>
              wpc[w] = "closing" /\ hand'[w] = hand[w]
    PROVE  LogAgrees'
<1>1. \A j \in DOMAIN jobs : j \in DOMAIN jobs' /\ (IsTerminal(jobs[j]) => jobs'[j] = jobs[j])
  BY StoreSteps, StoreFrame DEF IInv
<1>2. LinesAgree'
  BY <1>1 DEF LogAgrees, LinesAgree
<1>3. \A j : NoLineYet(j) => NoLineYet(j)'
  BY <1>1 DEF NoLineYet
<1>4. \A w \in Worker : wpc'[w] = "closing" => JobOf(w)' = JobOf(w)
  BY DEF JobOf
<1>5. ASSUME NEW w \in Worker, wpc'[w] = "closing" PROVE NoLineYet(JobOf(w))'
  <2>1. NoLineYet(JobOf(w))
    BY <1>5 DEF LogAgrees, ClosersAgree
  <2>2. JobOf(w)' = JobOf(w)
    BY <1>4, <1>5
  <2> QED
    BY <1>1, <2>1, <2>2 DEF NoLineYet
<1>6. hpc' = "closing" => NoLineYet(hjob)'
  BY <1>1 DEF LogAgrees, ClosersAgree, NoLineYet
<1> QED
  BY <1>2, <1>4, <1>5, <1>6 DEF LogAgrees, ClosersAgree

(* A write that may close the job: either it does not, or it makes its     *)
(* writer the only closer of the job.                                      *)
LEMMA ClosedByThisWrite ==
    ASSUME IInv, LogAgrees, NEW j \in DOMAIN jobs, NEW s \in DOMAIN jobs[j].segments,
           NEW result \in SegmentResult, UpdateSegment(j, s, result),
           Closes(j, s, result), UNCHANGED finishedLog
    PROVE  /\ NoLineYet(j)'
           /\ \A w \in Worker : wpc[w] = "closing" => JobOf(w) # j
           /\ hpc = "closing" => hjob # j
<1>1. jobs[j] \in Job /\ j \in JobId
  BY DEF IInv, StoreInv, StoreTypeOK
<1>2. ~ IsTerminal(jobs[j]) /\ IsTerminal(Updated(jobs[j], s, result))
  BY DEF Closes
<1>3. j \in DOMAIN jobs' /\ jobs'[j] = Updated(jobs[j], s, result)
  BY DEF UpdateSegment, IInv, StoreInv, StoreTypeOK
<1>4. finishedLog[j] = << >>
  BY <1>1, <1>2 DEF LogAgrees, LinesAgree
<1> QED
  BY <1>2, <1>3, <1>4 DEF NoLineYet, LogAgrees, ClosersAgree

LEMMA RecordLog ==
    ASSUME IInv, LogAgrees, [Next]_vars, NEW w \in Worker, wpc[w] # "idle",
           NEW result \in SegmentResult, Record(w, result)
    PROVE  LogAgrees'
<1>1. /\ UpdateSegment(JobOf(w), SegmentOf(w), result)
      /\ wpc' = [wpc EXCEPT ![w] =
            IF Closes(JobOf(w), SegmentOf(w), result) THEN "closing" ELSE "done"]
      /\ UNCHANGED <<hand, hpc, hjob, finishedLog>>
  BY DEF Record, Goto, poolVars, handlerVars
<1>2. /\ wpc'[w] = IF Closes(JobOf(w), SegmentOf(w), result) THEN "closing" ELSE "done"
      /\ \A v \in Worker : v # w => wpc'[v] = wpc[v]
  BY <1>1 DEF IInv, ServiceTypes
<1>3. PICK j \in DOMAIN jobs : j = JobOf(w) /\ SegmentOf(w) \in DOMAIN jobs[j].segments
  BY ThreadsTask
<1>4. CASE ~ Closes(JobOf(w), SegmentOf(w), result)
  <2>1. \A v \in Worker : wpc'[v] = "closing" => v # w
    BY <1>2, <1>4
  <2> QED
    BY <1>1, <1>2, <2>1, LogKept
<1>5. CASE Closes(JobOf(w), SegmentOf(w), result)
  <2>1. /\ NoLineYet(j)'
        /\ \A v \in Worker : wpc[v] = "closing" => JobOf(v) # j
        /\ hpc = "closing" => hjob # j
    BY <1>1, <1>3, <1>5, ClosedByThisWrite
  <2>2. \A k \in DOMAIN jobs :
           k \in DOMAIN jobs' /\ (IsTerminal(jobs[k]) => jobs'[k] = jobs[k])
    BY StoreSteps, StoreFrame DEF IInv
  <2>3. LinesAgree'
    BY <1>1, <2>2 DEF LogAgrees, LinesAgree
  <2>4. \A v : JobOf(v)' = JobOf(v)
    BY <1>1 DEF JobOf
  <2>5. ASSUME NEW v \in Worker, v # w, wpc'[v] = "closing"
        PROVE  wpc[v] = "closing" /\ NoLineYet(JobOf(v))'
    BY <1>1, <1>2, <2>2, <2>4, <2>5 DEF LogAgrees, ClosersAgree, NoLineYet
  <2>6. hpc' = "closing" => NoLineYet(hjob)'
    BY <1>1, <2>2 DEF LogAgrees, ClosersAgree, NoLineYet
  <2>7. \A v \in Worker : wpc'[v] = "closing" => NoLineYet(JobOf(v))'
    BY <1>3, <2>1, <2>4, <2>5 DEF NoLineYet
  <2>8. \A u, v \in Worker : wpc'[u] = "closing" /\ wpc'[v] = "closing"
           /\ JobOf(u)' = JobOf(v)' => u = v
    BY <1>3, <2>1, <2>4, <2>5 DEF LogAgrees, ClosersAgree
  <2>9. hpc' = "closing" => \A v \in Worker : wpc'[v] = "closing" => JobOf(v)' # hjob'
    BY <1>1, <1>3, <2>1, <2>4, <2>5 DEF LogAgrees, ClosersAgree
  <2> QED
    BY <2>3, <2>6, <2>7, <2>8, <2>9 DEF LogAgrees, ClosersAgree
<1> QED
  BY <1>4, <1>5

(* The line itself: its writer was the job's only closer, and is none now. *)
LEMMA LineLog ==
    ASSUME IInv, LogAgrees, NEW j \in DOMAIN jobs, NoLineYet(j), LogFinished(j),
           UNCHANGED <<storeVars, hand, hjob>>,
           hpc' = "closing" => hpc = "closing" /\ hjob # j,
           \A w \in Worker : wpc'[w] = "closing" =>
              wpc[w] = "closing" /\ JobOf(w) # j
    PROVE  LogAgrees'
<1>1. j \in JobId /\ jobs' = jobs
  BY DEF IInv, StoreInv, StoreTypeOK, storeVars
<1>2. /\ finishedLog'[j] = <<Status(jobs[j])>>
      /\ \A k \in JobId : k # j => finishedLog'[k] = finishedLog[k]
  BY <1>1 DEF LogFinished, NoLineYet, IInv, ServiceTypes
<1>3. LinesAgree'
  <2> SUFFICES ASSUME NEW k \in JobId, finishedLog'[k] # << >>
               PROVE  /\ k \in DOMAIN jobs /\ IsTerminal(jobs[k])
                      /\ finishedLog'[k] = <<Status(jobs[k])>>
    BY <1>1 DEF LinesAgree
  <2>1. CASE k = j
    BY <1>2, <2>1 DEF NoLineYet
  <2>2. CASE k # j
    BY <1>2, <2>2 DEF LogAgrees, LinesAgree
  <2> QED
    BY <2>1, <2>2
<1>4. \A w : JobOf(w)' = JobOf(w)
  BY DEF JobOf
<1>5. \A k \in JobId : k # j /\ NoLineYet(k) => NoLineYet(k)'
  BY <1>1, <1>2 DEF NoLineYet
<1>6. ASSUME NEW k, NoLineYet(k) PROVE k \in JobId
  BY <1>6 DEF NoLineYet, IInv, StoreInv, StoreTypeOK
<1>7. ASSUME NEW w \in Worker, wpc'[w] = "closing"
      PROVE  NoLineYet(JobOf(w))'
  <2>1. NoLineYet(JobOf(w)) /\ JobOf(w) # j
    BY <1>7 DEF LogAgrees, ClosersAgree
  <2> QED
    BY <1>1, <1>2, <1>4, <1>6, <2>1 DEF NoLineYet
<1>8. hpc' = "closing" => NoLineYet(hjob)'
  BY <1>1, <1>2, <1>6 DEF LogAgrees, ClosersAgree, NoLineYet
<1> QED
  BY <1>3, <1>4, <1>7, <1>8 DEF LogAgrees, ClosersAgree

LEMMA LogStep == IInv /\ LogAgrees /\ [Next]_vars => LogAgrees'
<1> SUFFICES ASSUME IInv, LogAgrees, [Next]_vars PROVE LogAgrees'
  OBVIOUS
<1> USE DEF IInv
<1>1. ASSUME NEW r \in Request, Receive(r) PROVE LogAgrees'
  BY <1>1, LogKept DEF Receive, ReadExecutor, RefuseEarly, workerVars, poolVars
<1>2. ASSUME \/ \E j \in JobId : Create(j) \/ Join(j)
             \/ ScheduleNext \/ Accept \/ ScheduleRaises \/ CancelNext
             \/ CancelDone \/ Reject
      PROVE  LogAgrees'
  <2>1. hpc' # "closing" /\ UNCHANGED <<wpc, hand, finishedLog>>
    BY <1>2 DEF Create, Join, ScheduleNext, Accept, ScheduleRaises, SubmitFails,
       CancelNext, CancelDone, Reject, SubmitTask, CancelTask, workerVars, poolVars
  <2> QED
    BY <2>1, LogKept
<1>3. ASSUME NEW w \in Worker,
             \/ WorkerClaims(w) \/ WorkerDrops(w) \/ WorkerStarts(w)
             \/ EnterPipeline(w) \/ EnterNextStage(w) \/ Raise(w) \/ WorkerReturns(w)
      PROVE  LogAgrees'
  <2>1. /\ UNCHANGED <<hpc, hjob, finishedLog>>
        /\ \E pc \in WorkerPc \ {"closing"} : wpc' = [wpc EXCEPT ![w] = pc]
        /\ hand' = hand \/ \E t : hand' = [hand EXCEPT ![w] = t]
    BY <1>3 DEF WorkerClaims, Claim, WorkerDrops, DropCancelled, WorkerStarts, StartRun,
       EnterPipeline, EnterNextStage, SetStage, Raise, WorkerReturns, FinishRun,
       Goto, WorkerPc, handlerVars, poolVars
  <2>2. /\ wpc'[w] # "closing"
        /\ \A v \in Worker : v # w => wpc'[v] = wpc[v] /\ hand'[v] = hand[v]
    BY <2>1 DEF ServiceTypes, PoolInv, PoolTypeOK
  <2> QED
    BY <2>1, <2>2, LogKept
<1>4. ASSUME NEW w \in Worker, Succeed(w) \/ RecordFailure(w) PROVE LogAgrees'
  <2>1. wpc[w] \in InCall /\ wpc[w] # "idle"
    BY <1>4 DEF Succeed, RecordFailure, InCall
  <2>2. wpc[w] = "raised" => wstage[w] \in Stage
    BY DEF Bridge, ThreadsAgree, InCall
  <2> QED
    BY <1>4, <2>1, <2>2, RecordLog, ResultTypes DEF Succeed, RecordFailure
<1>5. ASSUME FailNext PROVE LogAgrees'
  <2>1. PICK i \in stranded :
           /\ UpdateSegment(hjob, Keys[i], NotScheduled)
           /\ hpc = "failing"
           /\ hpc' = IF Closes(hjob, Keys[i], NotScheduled) THEN "closing" ELSE "failing"
           /\ UNCHANGED <<hjob, hand, wpc, finishedLog>>
    BY <1>5 DEF FailNext, poolVars, workerVars
  <2>2. hjob \in DOMAIN jobs /\ Keys[i] \in DOMAIN jobs[hjob].segments
    BY <2>1, HandlersJob DEF ServiceTypes, InSubmit
  <2>3. CASE ~ Closes(hjob, Keys[i], NotScheduled)
    BY <2>1, <2>3, LogKept
  <2>4. CASE Closes(hjob, Keys[i], NotScheduled)
    <3>1. PICK j \in DOMAIN jobs : j = hjob
      BY <2>2
    <3>2. NoLineYet(j)' /\ \A w \in Worker : wpc[w] = "closing" => JobOf(w) # j
      BY <2>1, <2>2, <2>4, <3>1, ClosedByThisWrite, ResultTypes
    <3>3. \A k \in DOMAIN jobs :
             k \in DOMAIN jobs' /\ (IsTerminal(jobs[k]) => jobs'[k] = jobs[k])
      BY StoreSteps, StoreFrame
    <3>4. LinesAgree'
      BY <2>1, <3>3 DEF LogAgrees, LinesAgree
    <3>5. \A w : JobOf(w)' = JobOf(w)
      BY <2>1 DEF JobOf
    <3>6. \A w \in Worker : wpc[w] = "closing" => NoLineYet(JobOf(w))'
      BY <2>1, <3>3, <3>5 DEF LogAgrees, ClosersAgree, NoLineYet
    <3>7. NoLineYet(hjob)'
      BY <2>1, <3>1, <3>2 DEF NoLineYet
    <3>8. ClosersAgree'
      BY <2>1, <3>1, <3>2, <3>5, <3>6, <3>7 DEF LogAgrees, ClosersAgree
    <3> QED
      BY <3>4, <3>8 DEF LogAgrees
  <2> QED
    BY <2>3, <2>4
<1>6. ASSUME HandlerLogs PROVE LogAgrees'
  <2>1. /\ NoLineYet(hjob) /\ hpc' = "failing" /\ LogFinished(hjob)
        /\ UNCHANGED <<storeVars, hand, hjob, wpc>>
        /\ \A w \in Worker : wpc[w] = "closing" => JobOf(w) # hjob
    BY <1>6 DEF HandlerLogs, LogAgrees, ClosersAgree, poolVars, workerVars
  <2>2. PICK j \in DOMAIN jobs : j = hjob
    BY <2>1 DEF NoLineYet
  <2> QED
    BY <2>1, <2>2, LineLog
<1>7. ASSUME NEW w \in Worker, WorkerLogs(w) PROVE LogAgrees'
  <2>1. /\ wpc[w] = "closing" /\ wpc' = [wpc EXCEPT ![w] = "done"]
        /\ LogFinished(JobOf(w)) /\ NoLineYet(JobOf(w))
        /\ UNCHANGED <<storeVars, hand, hjob, hpc>>
    BY <1>7 DEF WorkerLogs, Goto, LogAgrees, ClosersAgree, poolVars, handlerVars
  <2>2. wpc'[w] = "done" /\ \A v \in Worker : v # w => wpc'[v] = wpc[v]
    BY <2>1 DEF ServiceTypes
  <2>3. PICK j \in DOMAIN jobs : j = JobOf(w)
    BY <2>1 DEF NoLineYet
  <2>4. \A v \in Worker : wpc'[v] = "closing" => wpc[v] = "closing" /\ JobOf(v) # j
    BY <2>1, <2>2, <2>3 DEF LogAgrees, ClosersAgree
  <2>5. hpc' = "closing" => hpc = "closing" /\ hjob # j
    BY <2>1, <2>3 DEF LogAgrees, ClosersAgree
  <2> QED
    BY <2>1, <2>3, <2>4, <2>5, LineLog
<1>8. ASSUME BeginShutdown \/ ContinueShutdown \/ UNCHANGED vars PROVE LogAgrees'
  <2>1. UNCHANGED <<hpc, hjob, wpc, hand, finishedLog>>
    BY <1>8 DEF BeginShutdown, ContinueShutdown, ShutdownExecutor, DrainOne, DrainDone,
       DropExecutor, vars, poolVars, handlerVars, workerVars
  <2> QED
    BY <2>1, LogKept
<1> QED
  BY <1>1, <1>2, <1>3, <1>4, <1>5, <1>6, <1>7, <1>8 DEF Next, HandlerStep, WorkerNext

-----------------------------------------------------------------------------
(* Who will finish a segment.  A future is finished only when its segment  *)
(* is final, cancelled only by a stop; the handler meets RuntimeError only *)
(* when the executor accepts nothing any more.                             *)
FuturesAreFinal ==
    /\ \A t \in Task : future[t] = "finished" => Final(SegmentState(t))
    /\ \A w \in Worker : wpc[w] \in {"closing", "done"} => Final(SegmentState(hand[w]))

CancelledByAStop ==
    /\ \A t \in Task : future[t] = "cancelled" => executor # "running"
    /\ hpc \in {"cancelling", "failing", "closing"} => executor \in {"shutdown", "none"}

(* What the handler does not count as stranded is final or was started: a  *)
(* cancel() that fails has met a running or finished call.                 *)
Settled(t) == future[t] \in {"running", "finished"} \/ Final(SegmentState(t))

HandlerLeaves ==
    /\ hpc = "scheduling" =>
          \A i \in 1 .. Len(Keys) : i < hpos => future[TaskAt(i)] # "none"
    /\ hpc = "cancelling" =>
          /\ \A i \in 1 .. Len(Keys) : i \notin stranded =>
                future[TaskAt(i)] # "none" /\ (i < hpos => Settled(TaskAt(i)))
          /\ \A i, k \in 1 .. Len(Keys) :
                i \in stranded /\ hpos <= i /\ i <= k => k \in stranded
    /\ hpc \in {"failing", "closing"} \/ response = "rejected" =>
          \A i \in 1 .. Len(Keys) : i \notin stranded => Settled(TaskAt(i))

(* A segment that was never submitted is still the handler's.              *)
NobodyForgets ==
    \A j \in DOMAIN jobs : \A s \in DOMAIN jobs[j].segments :
       future[<<j, s>>] = "none" /\ ~ Final(jobs[j].segments[s]) => HandlerOwns(j, s)

OwnersAgree ==
    FuturesAreFinal /\ CancelledByAStop /\ HandlerLeaves /\ NobodyForgets

LEMMA OwnersInit == Init => OwnersAgree
<1> SUFFICES ASSUME Init PROVE OwnersAgree
  OBVIOUS
<1>1. DOMAIN jobs = {} /\ \A t \in Task : future[t] = "none"
  BY DEF Init, StoreInit, EmptyDict, PoolInit
<1>2. hpc = "idle" /\ response = "none" /\ \A w \in Worker : wpc[w] = "idle"
  BY DEF Init
<1> QED
  BY <1>1, <1>2 DEF OwnersAgree, FuturesAreFinal, CancelledByAStop, HandlerLeaves,
                    NobodyForgets

(* A final segment stays as it is, and what is settled stays settled.      *)
LEMMA SettledStays ==
    ASSUME IInv, [Next]_vars, NEW t \in Task, Exists(t)
    PROVE  /\ Exists(t)'
           /\ Final(SegmentState(t)) => Final(SegmentState(t)')
           /\ Settled(t) => Settled(t)'
<1>1. StoreInv /\ [StoreNext]_storeVars /\ PoolInv /\ [PoolNext]_poolVars
  BY StoreSteps, PoolSteps DEF IInv
<1>2. /\ t[1] \in DOMAIN jobs' /\ t[2] \in DOMAIN jobs'[t[1]].segments
      /\ Final(jobs[t[1]].segments[t[2]]) =>
            jobs'[t[1]].segments[t[2]] = jobs[t[1]].segments[t[2]]
  BY <1>1, StoreFrame DEF Exists
<1>3. future[t] \in {"running", "finished"} => future'[t] \in {"running", "finished"}
  BY <1>1, FutureFrame
<1> QED
  BY <1>2, <1>3 DEF Exists, SegmentState, Settled

(* Only a thread that returns finishes a future, and only when its segment *)
(* is final.                                                               *)
LEMMA FuturesFinalStep ==
    ASSUME IInv, FuturesAreFinal, [Next]_vars PROVE FuturesAreFinal'
<1> USE DEF IInv
<1>1. \A t \in Task : Exists(t) /\ Final(SegmentState(t)) => Final(SegmentState(t)')
  BY SettledStays
<1>2. \A t \in Task : future[t] # "none" => Exists(t)
  BY DEF Bridge, FuturesHaveSegments, Exists
<1>3. ASSUME \A t \in Task : future'[t] = "finished" => future[t] = "finished"
      PROVE  \A t \in Task : future'[t] = "finished" => Final(SegmentState(t)')
  BY <1>1, <1>2, <1>3 DEF FuturesAreFinal
<1>4. ASSUME \A w \in Worker : wpc'[w] \in {"closing", "done"} =>
                wpc[w] \in {"closing", "done"} /\ hand'[w] = hand[w]
      PROVE  \A w \in Worker : wpc'[w] \in {"closing", "done"} =>
                Final(SegmentState(hand[w])')
  <2> SUFFICES ASSUME NEW w \in Worker, wpc'[w] \in {"closing", "done"}
               PROVE  Final(SegmentState(hand[w])')
    OBVIOUS
  <2>1. PICK t \in Task : t = hand[w] /\ Exists(t)
    BY <1>4, ThreadsTask
  <2>2. Final(SegmentState(t)')
    BY <1>1, <1>4, <2>1 DEF FuturesAreFinal
  <2>3. hand'[w] = t
    BY <1>4, <2>1
  <2> QED
    BY <2>2, <2>3 DEF SegmentState
<1>5. ASSUME NEW w \in Worker, WorkerReturns(w) PROVE FuturesAreFinal'
  <2>1. PICK t \in Task : t = hand[w] /\ Exists(t) /\ wpc[w] = "done"
    BY <1>5, ThreadsTask DEF WorkerReturns
  <2>2. /\ future' = [future EXCEPT ![t] = "finished"]
        /\ hand' = [hand EXCEPT ![w] = NoTask] /\ wpc' = [wpc EXCEPT ![w] = "idle"]
        /\ jobs' = jobs
    BY <1>5, <2>1 DEF WorkerReturns, FinishRun, Goto, storeVars
  <2>3. Final(SegmentState(t)')
    BY <1>1, <2>1 DEF FuturesAreFinal
  <2>4. \A u \in Task : u # t => future'[u] = future[u]
    BY <2>2 DEF PoolInv, PoolTypeOK
  <2>5. \A u \in Task : future'[u] = "finished" => Final(SegmentState(u)')
    BY <1>1, <1>2, <2>3, <2>4 DEF FuturesAreFinal
  <2>6. \A v \in Worker : wpc'[v] \in {"closing", "done"} =>
           wpc[v] \in {"closing", "done"} /\ hand'[v] = hand[v]
    BY <2>2 DEF ServiceTypes, PoolInv, PoolTypeOK
  <2> QED
    BY <1>4, <2>5, <2>6 DEF FuturesAreFinal
<1>6. ASSUME NEW w \in Worker, NEW result \in SegmentResult, wpc[w] # "idle",
             Final(result), Record(w, result)
      PROVE  FuturesAreFinal'
  <2>1. PICK t \in Task : t = hand[w] /\ Exists(t)
           /\ t[1] = JobOf(w) /\ t[2] = SegmentOf(w)
    BY <1>6, ThreadsTask
  <2>2. /\ UpdateSegment(t[1], t[2], result)
        /\ \E pc : wpc' = [wpc EXCEPT ![w] = pc]
        /\ UNCHANGED <<future, hand>>
    BY <1>6, <2>1 DEF Record, Goto, poolVars
  <2>3. SegmentState(t)' = result
    BY <2>1, <2>2, UpdateFrame DEF SegmentState, Exists
  <2>4. \A u \in Task : future'[u] = "finished" => Final(SegmentState(u)')
    BY <1>3, <2>2
  <2>5. \A v \in Worker : v # w => wpc'[v] = wpc[v]
    BY <2>2 DEF ServiceTypes
  <2>6. ASSUME NEW v \in Worker, wpc'[v] \in {"closing", "done"}
        PROVE  Final(SegmentState(hand[v])')
    <3>1. CASE v = w
      <4>1. hand'[v] = t
        BY <2>1, <2>2, <3>1
      <4> QED
        BY <1>6, <2>3, <4>1 DEF SegmentState
    <3>2. CASE v # w
      <4>1. PICK u \in Task : u = hand[v] /\ Exists(u) /\ Final(SegmentState(u))
        BY <2>5, <2>6, <3>2, ThreadsTask DEF FuturesAreFinal
      <4>2. hand'[v] = u /\ Final(SegmentState(u)')
        BY <1>1, <2>2, <4>1
      <4> QED
        BY <4>2 DEF SegmentState
    <3> QED
      BY <3>1, <3>2
  <2> QED
    BY <2>4, <2>6 DEF FuturesAreFinal
<1>7. ASSUME NEW w \in Worker, Succeed(w) \/ RecordFailure(w) PROVE FuturesAreFinal'
  <2>1. wpc[w] = "raised" => wstage[w] \in Stage
    BY DEF Bridge, ThreadsAgree, InCall
  <2>2. Final(Succeeded) /\ \A st \in Stage : Final(FailedAt(st))
    BY DEF Final, Succeeded, FailedAt, Result, OpenStatus
  <2> QED
    BY <1>6, <1>7, <2>1, <2>2, ResultTypes DEF Succeed, RecordFailure
<1>8. ASSUME \A t \in Task : future'[t] = "finished" => future[t] = "finished",
             \A w \in Worker : wpc'[w] \in {"closing", "done"} =>
                wpc[w] \in {"closing", "done"} /\ hand'[w] = hand[w]
      PROVE  FuturesAreFinal'
  BY <1>3, <1>4, <1>8 DEF FuturesAreFinal
<1>9. ASSUME NEW w \in Worker,
             \/ WorkerClaims(w) \/ WorkerDrops(w) \/ WorkerStarts(w)
             \/ EnterPipeline(w) \/ EnterNextStage(w) \/ Raise(w) \/ WorkerLogs(w)
      PROVE  FuturesAreFinal'
  <2>1. /\ future' = future \/ future' = [future EXCEPT ![hand[w]] = "running"]
        /\ \/ UNCHANGED hand /\ wpc[w] = "closing" /\ wpc' = [wpc EXCEPT ![w] = "done"]
           \/ /\ \E pc \in WorkerPc \ {"closing", "done"} : wpc' = [wpc EXCEPT ![w] = pc]
              /\ hand' = hand \/ \E t : hand' = [hand EXCEPT ![w] = t]
    BY <1>9 DEF WorkerClaims, Claim, WorkerDrops, DropCancelled, WorkerStarts, StartRun,
       EnterPipeline, EnterNextStage, SetStage, Raise, WorkerLogs, Goto, WorkerPc, poolVars
  <2>2. \A t \in Task : future'[t] = "finished" => future[t] = "finished"
    BY <2>1 DEF PoolInv, PoolTypeOK
  <2>3. \A v \in Worker : wpc'[v] \in {"closing", "done"} =>
           wpc[v] \in {"closing", "done"} /\ hand'[v] = hand[v]
    BY <2>1 DEF ServiceTypes, PoolInv, PoolTypeOK
  <2> QED
    BY <1>8, <2>2, <2>3
<1>10. ASSUME \/ \E r \in Request : Receive(r)
              \/ HandlerStep \/ BeginShutdown \/ ContinueShutdown \/ UNCHANGED vars
       PROVE  FuturesAreFinal'
  <2>1. UNCHANGED <<wpc, hand>>
    BY <1>10 DEF Receive, ReadExecutor, RefuseEarly, HandlerStep, Create, Join,
       ScheduleNext, Accept, ScheduleRaises, CancelNext, CancelDone, FailNext,
       HandlerLogs, Reject, SubmitTask, CancelTask, BeginShutdown, ContinueShutdown,
       ShutdownExecutor, DrainOne, DrainDone, DropExecutor, workerVars, poolVars, vars
  <2>2. \/ future' = future
        \/ \E t, f : f # "finished" /\ future' = [future EXCEPT ![t] = f]
    BY <1>10 DEF Receive, ReadExecutor, RefuseEarly, HandlerStep, Create, Join,
       ScheduleNext, Accept, ScheduleRaises, CancelNext, CancelDone, FailNext,
       HandlerLogs, Reject, SubmitTask, CancelTask, BeginShutdown, ContinueShutdown,
       ShutdownExecutor, DrainOne, DrainDone, DropExecutor, poolVars, vars
  <2>3. \A t \in Task : future'[t] = "finished" => future[t] = "finished"
    BY <2>2 DEF PoolInv, PoolTypeOK
  <2> QED
    BY <1>8, <2>1, <2>3
<1> QED
  BY <1>5, <1>7, <1>9, <1>10 DEF Next, WorkerNext

LEMMA CancelledStep ==
    ASSUME IInv, CancelledByAStop, [Next]_vars PROVE CancelledByAStop'
<1> USE DEF IInv
<1>0. /\ executor # "running" => executor' # "running"
      /\ executor \in {"shutdown", "none"} => executor' \in {"shutdown", "none"}
  BY PoolSteps, FutureFrame
<1>1. ASSUME \A t \in Task : future'[t] = "cancelled" =>
                future[t] = "cancelled" \/ executor # "running",
             hpc' \in {"cancelling", "failing", "closing"} =>
                executor \in {"shutdown", "none"}
      PROVE  CancelledByAStop'
  BY <1>0, <1>1 DEF CancelledByAStop
<1>2. ASSUME NEW r \in Request, Receive(r) PROVE CancelledByAStop'
  BY <1>1, <1>2 DEF Receive, ReadExecutor, RefuseEarly, poolVars, CancelledByAStop
<1>3. ASSUME HandlerStep PROVE CancelledByAStop'
  <2>1. hpc' \in {"cancelling", "failing", "closing"} =>
           executor \in {"shutdown", "none"}
    BY <1>3 DEF HandlerStep, Create, Join, ScheduleNext, Accept, ScheduleRaises,
       SubmitFails, SubmitRaises, CancelNext, CancelDone, FailNext, HandlerLogs,
       Reject, CancelledByAStop
  <2>2. CASE CancelNext
    BY <1>1, <2>1, <2>2 DEF CancelNext, CancelledByAStop
  <2>3. CASE ~ CancelNext
    <3>1. future' = future \/ \E t : future' = [future EXCEPT ![t] = "pending"]
      BY <1>3, <2>3 DEF HandlerStep, Create, Join, ScheduleNext, Accept, ScheduleRaises,
         CancelDone, FailNext, HandlerLogs, Reject, SubmitTask, poolVars
    <3>2. \A t \in Task : future'[t] = "cancelled" => future[t] = "cancelled"
      BY <3>1 DEF PoolInv, PoolTypeOK
    <3> QED
      BY <1>1, <2>1, <3>2
  <2> QED
    BY <2>2, <2>3
<1>4. ASSUME NEW w \in Worker, WorkerNext(w) PROVE CancelledByAStop'
  <2>1. /\ hpc' = hpc
        /\ \/ future' = future
           \/ \E t, f : f # "cancelled" /\ future' = [future EXCEPT ![t] = f]
    BY <1>4 DEF WorkerNext, WorkerClaims, Claim, WorkerDrops, DropCancelled,
       WorkerStarts, StartRun, EnterPipeline, EnterNextStage, SetStage, Succeed,
       Record, Raise, RecordFailure, WorkerLogs, WorkerReturns, FinishRun,
       handlerVars, poolVars
  <2>2. \A t \in Task : future'[t] = "cancelled" => future[t] = "cancelled"
    BY <2>1 DEF PoolInv, PoolTypeOK
  <2> QED
    BY <1>1, <2>1, <2>2 DEF CancelledByAStop
<1>5. ASSUME BeginShutdown \/ ContinueShutdown \/ UNCHANGED vars PROVE CancelledByAStop'
  <2>1. hpc' = hpc /\ (future' = future \/ executor = "draining")
    BY <1>5 DEF BeginShutdown, ContinueShutdown, ShutdownExecutor, DrainOne, DrainDone,
       DropExecutor, vars, handlerVars, poolVars
  <2> QED
    BY <1>1, <2>1 DEF CancelledByAStop
<1> QED
  BY <1>2, <1>3, <1>4, <1>5 DEF Next

(* Steps that leave the handler where it is.                               *)
LEMMA LeavesKept ==
    ASSUME IInv, HandlerLeaves, [Next]_vars, UNCHANGED handlerVars,
           response = "rejected" => hjob \in DOMAIN jobs /\ DOMAIN jobs[hjob].segments = Elements(Keys)
    PROVE  HandlerLeaves'
<1>1. /\ UNCHANGED <<hpc, hpos, stranded, response>> /\ Keys' = Keys
      /\ \A i : TaskAt(i)' = TaskAt(i)
  BY DEF handlerVars, Keys, TaskAt
<1>2. ASSUME hpc \in InSubmit \/ response = "rejected", NEW i \in 1 .. Len(Keys)
      PROVE  TaskAt(i) \in Task /\ Exists(TaskAt(i))
  <2>1. hjob \in DOMAIN jobs /\ hjob \in JobId /\ DOMAIN jobs[hjob].segments = Elements(Keys)
    BY <1>2 DEF IInv, Bridge, HandlerAgrees, StoreInv, StoreTypeOK
  <2> QED
    BY <2>1, TaskAtFacts, KeysFacts DEF IInv, Exists
<1>3. \A t \in Task : Exists(t) => (Settled(t) => Settled(t)')
                                /\ (future[t] # "none" => future'[t] # "none")
  BY SettledStays, PoolSteps, FutureFrame DEF IInv
<1>4. ASSUME hpc \in InSubmit \/ response = "rejected", NEW i \in 1 .. Len(Keys)
      PROVE  /\ Settled(TaskAt(i)) => Settled(TaskAt(i))'
             /\ future[TaskAt(i)] # "none" => future'[TaskAt(i)'] # "none"
  <2>1. PICK t \in Task : t = TaskAt(i) /\ t = TaskAt(i)' /\ Exists(t)
    BY <1>1, <1>2, <1>4
  <2> QED
    BY <1>3, <2>1 DEF Settled, SegmentState
<1> QED
  BY <1>1, <1>4 DEF HandlerLeaves, InSubmit

(* The same of the steps of submit_job_segments, which keep its task and   *)
(* what is settled or submitted.                                           *)
LEMMA HandlerKeepsSettled ==
    ASSUME IInv, [Next]_vars, hpc \in InSubmit, UNCHANGED <<hreq, hjob>>,
           NEW i \in 1 .. Len(Keys)
    PROVE  /\ Keys' = Keys /\ TaskAt(i)' = TaskAt(i)
           /\ Settled(TaskAt(i)) => Settled(TaskAt(i))'
           /\ future[TaskAt(i)] # "none" => future'[TaskAt(i)'] # "none"
<1>1. Keys' = Keys /\ TaskAt(i)' = TaskAt(i)
  BY DEF Keys, TaskAt
<1>2. PICK t \in Task : t = TaskAt(i) /\ Exists(t)
  BY HandlersJob DEF Exists
<1>3. /\ Settled(t) => Settled(t)'
      /\ future[t] # "none" => future'[t] # "none"
  BY <1>2, SettledStays, PoolSteps, FutureFrame DEF IInv
<1> QED
  BY <1>1, <1>2, <1>3 DEF Settled, SegmentState

LEMMA CancelLeaves ==
    ASSUME IInv, AnswersAgree, HandlerLeaves, [Next]_vars, CancelNext
    PROVE  HandlerLeaves'
<1> USE DEF IInv
<1>1. /\ hpc = "cancelling" /\ hpc' = "cancelling" /\ hpos' = hpos + 1
      /\ hpos \in 1 .. Len(Keys) /\ hpos \notin stranded
      /\ stranded' = IF CancelSucceeds(TaskAt(hpos)) THEN stranded \cup {hpos}
                                                     ELSE stranded
      /\ CancelTask(TaskAt(hpos)) /\ response' = response /\ response = "none"
      /\ UNCHANGED <<storeVars, hreq, hjob>>
  BY DEF CancelNext, ServiceTypes, Bridge, HandlerAgrees, AnswersAgree
<1>2. \A i \in 1 .. Len(Keys) :
         /\ Keys' = Keys /\ TaskAt(i)' = TaskAt(i)
         /\ Settled(TaskAt(i)) => Settled(TaskAt(i))'
         /\ future[TaskAt(i)] # "none" => future'[TaskAt(i)'] # "none"
  BY <1>1, HandlerKeepsSettled DEF InSubmit
<1>3. hpos \notin stranded' => Settled(TaskAt(hpos))
  <2>1. TaskAt(hpos) \in Task /\ future[TaskAt(hpos)] # "none"
    BY <1>1, HandlersJob DEF HandlerLeaves, InSubmit
  <2>2. future[TaskAt(hpos)] \in FutureState
    BY <2>1 DEF PoolInv, PoolTypeOK
  <2> QED
    BY <1>1, <2>1, <2>2 DEF CancelSucceeds, FutureState, Settled
<1>4. ASSUME NEW i \in 1 .. Len(Keys), i \notin stranded'
      PROVE  /\ future'[TaskAt(i)'] # "none"
             /\ i < hpos' => Settled(TaskAt(i))'
  <2>1. i \notin stranded /\ (i < hpos' => i < hpos \/ i = hpos)
    BY <1>1, <1>4, KeysFacts
  <2> QED
    BY <1>1, <1>2, <1>3, <1>4, <2>1 DEF HandlerLeaves
<1>5. ASSUME NEW i \in 1 .. Len(Keys), NEW k \in 1 .. Len(Keys),
             i \in stranded', hpos' <= i, i <= k
      PROVE  k \in stranded'
  <2>1. i \in stranded /\ hpos <= i
    BY <1>1, <1>5, KeysFacts
  <2> QED
    BY <1>1, <1>5, <2>1 DEF HandlerLeaves
<1>6. Keys' = Keys
  BY <1>1 DEF Keys
<1> QED
  BY <1>1, <1>4, <1>5, <1>6 DEF HandlerLeaves

LEMMA FailLeaves ==
    ASSUME IInv, AnswersAgree, HandlerLeaves, [Next]_vars, FailNext
    PROVE  HandlerLeaves'
<1> USE DEF IInv
<1>1. PICK k \in stranded :
         /\ UpdateSegment(hjob, Keys[k], NotScheduled)
         /\ stranded' = stranded \ {k}
         /\ hpc = "failing" /\ hpc' \in {"failing", "closing"}
         /\ UNCHANGED <<hreq, hjob, response, future>>
  BY DEF FailNext, poolVars
<1>2. /\ hjob \in DOMAIN jobs /\ k \in 1 .. Len(Keys)
      /\ Keys[k] \in DOMAIN jobs[hjob].segments
  BY <1>1, HandlersJob DEF ServiceTypes, InSubmit
<1>3. jobs'[hjob].segments[Keys[k]] = NotScheduled
  BY <1>1, <1>2, UpdateFrame, ResultTypes
<1>4. \A i \in 1 .. Len(Keys) :
         /\ Keys' = Keys /\ TaskAt(i)' = TaskAt(i)
         /\ Settled(TaskAt(i)) => Settled(TaskAt(i))'
  BY <1>1, HandlerKeepsSettled DEF InSubmit
<1>5. Settled(TaskAt(k))'
  <2>1. SegmentState(TaskAt(k))' = NotScheduled
    BY <1>1, <1>2, <1>3, <1>4 DEF SegmentState, TaskAt, Keys
  <2> QED
    BY <2>1 DEF Settled, Final, NotScheduled, Result, OpenStatus
<1>6. \A i \in 1 .. Len(Keys) : i \notin stranded' => Settled(TaskAt(i))'
  BY <1>1, <1>4, <1>5 DEF HandlerLeaves
<1>7. Keys' = Keys
  BY <1>1 DEF Keys
<1> QED
  BY <1>1, <1>6, <1>7 DEF HandlerLeaves

LEMMA LeavesStep ==
    ASSUME IInv, AnswersAgree, HandlerLeaves, [Next]_vars PROVE HandlerLeaves'
<1> USE DEF IInv
<1>0. ASSUME hpc \in InSubmit, UNCHANGED <<hreq, hjob>>, NEW i \in 1 .. Len(Keys)
      PROVE  /\ Keys' = Keys /\ TaskAt(i)' = TaskAt(i)
             /\ Settled(TaskAt(i)) => Settled(TaskAt(i))'
             /\ future[TaskAt(i)] # "none" => future'[TaskAt(i)'] # "none"
  BY <1>0, HandlerKeepsSettled
<1>1. ASSUME hpc' \in {"idle", "creating"}, response' # "rejected"
      PROVE  HandlerLeaves'
  BY <1>1 DEF HandlerLeaves
<1>2. ASSUME NEW r \in Request, Receive(r) PROVE HandlerLeaves'
  BY <1>1, <1>2 DEF Receive, ReadExecutor, RefuseEarly
<1>3. ASSUME NEW j \in JobId, Create(j) PROVE HandlerLeaves'
  <2>1. hpc' = "scheduling" /\ hpos' = 1 /\ response' = "none"
    BY <1>3 DEF Create, Bridge, HandlerAgrees, AnswersAgree
  <2> QED
    BY <2>1 DEF HandlerLeaves
<1>4. ASSUME \/ \E j \in JobId : Join(j)
             \/ Accept
      PROVE  HandlerLeaves'
  BY <1>1, <1>4 DEF Join, Accept
<1>5. CASE ScheduleNext
  <2>1. /\ hpc = "scheduling" /\ hpc' = "scheduling" /\ hpos' = hpos + 1
        /\ hpos \in 1 .. Len(Keys) /\ response' = "none"
        /\ future' = [future EXCEPT ![TaskAt(hpos)] = "pending"]
        /\ UNCHANGED <<hreq, hjob>> /\ Keys' = Keys
    BY <1>5 DEF ScheduleNext, SubmitTask, ServiceTypes, AnswersAgree, Keys
  <2>2. TaskAt(hpos) \in Task /\ TaskAt(hpos)' = TaskAt(hpos)' /\ future'[TaskAt(hpos)] = "pending"
    BY <2>1, HandlersJob DEF InSubmit, PoolInv, PoolTypeOK
  <2>3. ASSUME NEW i \in 1 .. Len(Keys), i < hpos' PROVE future'[TaskAt(i)'] # "none"
    <3>1. i < hpos \/ i = hpos
      BY <2>1, <2>3, KeysFacts
    <3>2. TaskAt(i)' = TaskAt(i)
      BY <2>1 DEF TaskAt
    <3> QED
      BY <1>0, <2>1, <2>2, <3>1, <3>2 DEF HandlerLeaves, InSubmit
  <2> QED
    BY <2>1, <2>3 DEF HandlerLeaves
<1>6. CASE ScheduleRaises
  <2>1. /\ hpc = "scheduling" /\ hpc' = "cancelling" /\ hpos' = 1
        /\ hpos \in 1 .. Len(Keys) /\ response' = "none"
        /\ stranded' = hpos .. Len(Keys)
        /\ UNCHANGED <<hreq, hjob>> /\ Keys' = Keys
    BY <1>6 DEF ScheduleRaises, SubmitFails, ServiceTypes, AnswersAgree, Keys
  <2>2. \A i \in 1 .. Len(Keys) : i \notin stranded' => i < hpos
    BY <2>1, KeysFacts
  <2>3. \A i \in 1 .. Len(Keys) : i \notin stranded' => future'[TaskAt(i)'] # "none"
    BY <1>0, <2>1, <2>2 DEF HandlerLeaves, InSubmit
  <2>4. \A i, k \in 1 .. Len(Keys) : i \in stranded' /\ i <= k => k \in stranded'
    BY <2>1, KeysFacts
  <2> QED
    BY <2>1, <2>3, <2>4 DEF HandlerLeaves
<1>7. CASE CancelNext
  BY <1>7, CancelLeaves
<1>8. CASE CancelDone
  <2>1. /\ hpc = "cancelling" /\ hpc' = "failing" /\ hpos \in stranded
        /\ hpos \in 1 .. Len(Keys) + 1 /\ stranded \subseteq 1 .. Len(Keys)
        /\ UNCHANGED <<stranded, hreq, hjob>> /\ Keys' = Keys
    BY <1>8 DEF CancelDone, ServiceTypes, Keys
  <2>2. \A i \in 1 .. Len(Keys) : i \notin stranded => i < hpos
    BY <2>1, KeysFacts DEF HandlerLeaves
  <2>3. \A i \in 1 .. Len(Keys) : i \notin stranded' => Settled(TaskAt(i))'
    BY <1>0, <2>1, <2>2 DEF HandlerLeaves, InSubmit
  <2> QED
    BY <2>1, <2>3 DEF HandlerLeaves
<1>9. CASE FailNext
  BY <1>9, FailLeaves
<1>10. CASE HandlerLogs \/ Reject
  <2>1. /\ hpc \in {"failing", "closing"} /\ hpc' \in {"failing", "idle"}
        /\ UNCHANGED <<stranded, hreq, hjob>> /\ Keys' = Keys
    BY <1>10 DEF HandlerLogs, Reject, Keys
  <2>2. \A i \in 1 .. Len(Keys) : i \notin stranded' => Settled(TaskAt(i))'
    BY <1>0, <2>1 DEF HandlerLeaves, InSubmit
  <2> QED
    BY <2>1, <2>2 DEF HandlerLeaves
<1>11. ASSUME UNCHANGED handlerVars PROVE HandlerLeaves'
  BY <1>11, LeavesKept DEF AnswersAgree, Answered, AnswerCoversTheRequest
<1>12. ASSUME NEW w \in Worker, WorkerNext(w) PROVE HandlerLeaves'
  BY <1>11, <1>12 DEF WorkerNext, WorkerClaims, WorkerDrops, WorkerStarts, EnterPipeline,
     EnterNextStage, SetStage, Succeed, Record, Raise, RecordFailure, WorkerLogs,
     WorkerReturns
<1>13. ASSUME BeginShutdown \/ ContinueShutdown \/ UNCHANGED vars PROVE HandlerLeaves'
  BY <1>11, <1>13 DEF BeginShutdown, ContinueShutdown, vars
<1> QED
  BY <1>2, <1>3, <1>4, <1>5, <1>6, <1>7, <1>8, <1>9, <1>10, <1>12, <1>13
     DEF Next, HandlerStep

(* A segment of an old job that is forgotten after a step was the handler's*)
(* before it.                                                              *)
LEMMA OnceForgotten ==
    ASSUME IInv, NobodyForgets, [Next]_vars,
           NEW j \in DOMAIN jobs, NEW s \in DOMAIN jobs'[j].segments,
           future'[<<j, s>>] = "none", ~ Final(jobs'[j].segments[s])
    PROVE  HandlerOwns(j, s) /\ future[<<j, s>>] = "none"
<1>1. /\ s \in DOMAIN jobs[j].segments
      /\ Final(jobs[j].segments[s]) => jobs'[j].segments[s] = jobs[j].segments[s]
  BY StoreSteps, StoreFrame DEF IInv
<1>2. <<j, s>> \in Task
  <2>1. jobs[j] \in Job /\ j \in JobId
    BY DEF IInv, StoreInv, StoreTypeOK
  <2>2. s \in Segment
    BY <1>1, <2>1 DEF Job
  <2> QED
    BY <2>1, <2>2, ServiceAssumption
<1>3. future[<<j, s>>] = "none"
  BY <1>2, PoolSteps, FutureFrame DEF IInv
<1> QED
  BY <1>1, <1>3 DEF NobodyForgets

LEMMA ForgetsStep ==
    ASSUME IInv, AnswersAgree, HandlerLeaves, NobodyForgets, [Next]_vars
    PROVE  NobodyForgets'
<1> USE DEF IInv
<1> DEFINE Forgotten(j, s) == future'[<<j, s>>] = "none" /\ ~ Final(jobs'[j].segments[s])
<1>1. ASSUME DOMAIN jobs' = DOMAIN jobs,
             \A j \in DOMAIN jobs : \A s \in DOMAIN jobs'[j].segments :
                HandlerOwns(j, s) /\ Forgotten(j, s) => HandlerOwns(j, s)'
      PROVE  NobodyForgets'
  BY <1>1, OnceForgotten DEF NobodyForgets
<1>2. ASSUME NEW j \in JobId, Create(j) PROVE NobodyForgets'
  <2>1. /\ hpc = "creating" /\ hpc' = "scheduling" /\ hjob' = j /\ hpos' = 1
        /\ Keys' = Keys /\ CreateJob(hreq, j)
    BY <1>2 DEF Create, Keys, Bridge, HandlerAgrees
  <2>2. /\ DOMAIN jobs' = DOMAIN jobs \cup {j}
        /\ DOMAIN jobs'[j].segments = Elements(Keys)
    BY <2>1 DEF CreateJob, Put, NewJob, Keys
  <2>3. \A s \in Elements(Keys) : HandlerOwns(j, s)'
    BY <2>1, KeysFacts DEF HandlerOwns
  <2>4. ASSUME NEW i \in DOMAIN jobs, NEW s \in DOMAIN jobs'[i].segments,
               Forgotten(i, s)
        PROVE  HandlerOwns(i, s)'
    <3>1. HandlerOwns(i, s)
      BY <2>4, OnceForgotten
    <3> QED
      BY <2>1, <3>1 DEF HandlerOwns
  <2> QED
    BY <2>2, <2>3, <2>4 DEF NobodyForgets
<1>3. ASSUME \/ \E r \in Request : Receive(r)
             \/ \E j \in JobId : Join(j)
             \/ Accept \/ Reject
      PROVE  NobodyForgets'
  <2>1. jobs' = jobs
    BY <1>3 DEF Receive, ReadExecutor, RefuseEarly, Join, JoinJob, Accept, Reject,
                storeVars
  <2>2. \A j, s : ~ HandlerOwns(j, s)
    BY <1>3, KeysFacts DEF Receive, ReadExecutor, RefuseEarly, Join, Accept, Reject,
       HandlerOwns, ServiceTypes
  <2> QED
    BY <1>1, <2>1, <2>2
<1>4. CASE ScheduleNext
  <2>1. /\ hpc = "scheduling" /\ hpc' = "scheduling" /\ hpos' = hpos + 1
        /\ hpos \in 1 .. Len(Keys) /\ jobs' = jobs /\ hjob' = hjob /\ Keys' = Keys
        /\ future' = [future EXCEPT ![TaskAt(hpos)] = "pending"]
    BY <1>4 DEF ScheduleNext, SubmitTask, ServiceTypes, Keys, storeVars
  <2>2. TaskAt(hpos) \in Task /\ TaskAt(hpos) = <<hjob, Keys[hpos]>>
        /\ future'[TaskAt(hpos)] = "pending"
    BY <2>1, HandlersJob DEF InSubmit, PoolInv, PoolTypeOK
  <2>3. ASSUME NEW j \in DOMAIN jobs, NEW s \in DOMAIN jobs'[j].segments,
               HandlerOwns(j, s), Forgotten(j, s)
        PROVE  HandlerOwns(j, s)'
    <3>1. PICK i \in hpos .. Len(Keys) : hjob = j /\ Keys[i] = s
      BY <2>1, <2>3 DEF HandlerOwns
    <3>2. i # hpos
      BY <2>2, <2>3, <3>1
    <3>3. i \in hpos' .. Len(Keys)
      BY <2>1, <3>2, KeysFacts
    <3> QED
      BY <2>1, <3>1, <3>3 DEF HandlerOwns
  <2> QED
    BY <1>1, <2>1, <2>3
<1>5. CASE ScheduleRaises
  <2>1. /\ hpc = "scheduling" /\ hpc' = "cancelling" /\ stranded' = hpos .. Len(Keys)
        /\ jobs' = jobs /\ hjob' = hjob /\ Keys' = Keys
    BY <1>5 DEF ScheduleRaises, SubmitFails, Keys, storeVars
  <2>2. \A j, s : HandlerOwns(j, s) => HandlerOwns(j, s)'
    BY <2>1 DEF HandlerOwns
  <2> QED
    BY <1>1, <2>1, <2>2
<1>6. CASE CancelNext
  <2>1. /\ hpc = "cancelling" /\ hpc' = "cancelling" /\ hpos' = hpos + 1
        /\ hpos \in 1 .. Len(Keys) /\ hpos \notin stranded
        /\ stranded \subseteq stranded'
        /\ jobs' = jobs /\ hjob' = hjob /\ Keys' = Keys
    BY <1>6 DEF CancelNext, Keys, storeVars, ServiceTypes, Bridge, HandlerAgrees
  <2>2. TaskAt(hpos) = <<hjob, Keys[hpos]>> /\ future[TaskAt(hpos)] # "none"
    BY <2>1, HandlersJob DEF InSubmit, HandlerLeaves
  <2>3. ASSUME NEW j \in DOMAIN jobs, NEW s \in DOMAIN jobs'[j].segments,
               HandlerOwns(j, s), Forgotten(j, s)
        PROVE  HandlerOwns(j, s)'
    <3>1. PICK i \in stranded \cup (hpos .. Len(Keys)) : hjob = j /\ Keys[i] = s
      BY <2>1, <2>3 DEF HandlerOwns
    <3>2. future[<<j, s>>] = "none"
      BY <2>3, OnceForgotten
    <3>3. i # hpos
      BY <2>2, <3>1, <3>2
    <3>4. i \in stranded' \cup (hpos' .. Len(Keys))
      BY <2>1, <3>3, KeysFacts
    <3> QED
      BY <2>1, <3>1, <3>4 DEF HandlerOwns
  <2> QED
    BY <1>1, <2>1, <2>3
<1>7. CASE CancelDone
  <2>1. /\ hpc = "cancelling" /\ hpc' = "failing" /\ stranded' = stranded
        /\ hpos \in stranded /\ hpos \in 1 .. Len(Keys)
        /\ jobs' = jobs /\ hjob' = hjob /\ Keys' = Keys
    BY <1>7 DEF CancelDone, Keys, storeVars, ServiceTypes
  <2>2. \A i \in hpos .. Len(Keys) : i \in stranded
    <3>1. \A i \in hpos .. Len(Keys) : i \in 1 .. Len(Keys) /\ hpos <= i
      BY <2>1, KeysFacts
    <3>2. hpos <= hpos
      BY <2>1, KeysFacts
    <3> QED
      BY <2>1, <3>1, <3>2 DEF HandlerLeaves
  <2>3. \A j, s : HandlerOwns(j, s) => HandlerOwns(j, s)'
    BY <2>1, <2>2 DEF HandlerOwns
  <2> QED
    BY <1>1, <2>1, <2>3
<1>8. CASE FailNext
  <2>1. PICK k \in stranded :
           /\ UpdateSegment(hjob, Keys[k], NotScheduled)
           /\ stranded' = stranded \ {k}
           /\ hpc = "failing" /\ hpc' \in {"failing", "closing"}
           /\ hjob' = hjob /\ Keys' = Keys
    BY <1>8 DEF FailNext, Keys
  <2>2. /\ hjob \in DOMAIN jobs /\ Keys[k] \in DOMAIN jobs[hjob].segments
    BY <2>1, HandlersJob DEF ServiceTypes, InSubmit
  <2>3. DOMAIN jobs' = DOMAIN jobs /\ jobs'[hjob].segments[Keys[k]] = NotScheduled
    BY <2>1, <2>2, UpdateFrame, ResultTypes
  <2>4. Final(NotScheduled)
    BY DEF Final, NotScheduled, Result, OpenStatus
  <2>5. ASSUME NEW j \in DOMAIN jobs, NEW s \in DOMAIN jobs'[j].segments,
               HandlerOwns(j, s), Forgotten(j, s)
        PROVE  HandlerOwns(j, s)'
    <3>1. PICK i \in stranded : hjob = j /\ Keys[i] = s
      BY <2>1, <2>5 DEF HandlerOwns
    <3>2. i # k
      BY <2>3, <2>4, <2>5, <3>1
    <3> QED
      BY <2>1, <3>1, <3>2 DEF HandlerOwns
  <2> QED
    BY <1>1, <2>3, <2>5
<1>9. CASE HandlerLogs
  <2>1. /\ hpc = "closing" /\ hpc' = "failing" /\ stranded' = stranded
        /\ jobs' = jobs /\ hjob' = hjob /\ Keys' = Keys
    BY <1>9 DEF HandlerLogs, Keys, storeVars
  <2> QED
    BY <1>1, <2>1 DEF HandlerOwns
<1>10. ASSUME DOMAIN jobs' = DOMAIN jobs, UNCHANGED handlerVars PROVE NobodyForgets'
  BY <1>1, <1>10 DEF handlerVars, HandlerOwns, Keys
<1>11. ASSUME NEW w \in Worker, WorkerNext(w) PROVE NobodyForgets'
  <2>1. DOMAIN jobs' = DOMAIN jobs /\ UNCHANGED handlerVars
    BY <1>11 DEF WorkerNext, WorkerClaims, WorkerDrops, WorkerStarts, EnterPipeline,
       EnterNextStage, SetStage, Succeed, Record, Raise, RecordFailure, WorkerLogs,
       WorkerReturns, UpdateSegment, StoreInv, StoreTypeOK, storeVars
  <2> QED
    BY <1>10, <2>1
<1>12. ASSUME BeginShutdown \/ ContinueShutdown \/ UNCHANGED vars PROVE NobodyForgets'
  BY <1>10, <1>12 DEF BeginShutdown, ContinueShutdown, vars, storeVars
<1> QED
  BY <1>2, <1>3, <1>4, <1>5, <1>6, <1>7, <1>8, <1>9, <1>11, <1>12
     DEF Next, HandlerStep

-----------------------------------------------------------------------------
OutcomeInv == IInv /\ AnswersAgree /\ LogAgrees /\ OwnersAgree

LEMMA OutcomeInit == Init => OutcomeInv
  BY InitInv, AnswersInit, LogInit, OwnersInit DEF OutcomeInv

LEMMA OutcomeStep == OutcomeInv /\ [Next]_vars => OutcomeInv'
  BY StepInv, AnswersStep, LogStep, FuturesFinalStep, CancelledStep, LeavesStep,
     ForgetsStep DEF OutcomeInv, OwnersAgree

(* The answers, the log and the owners agree with the store and the pool   *)
(* in every reachable state: the invariant the theorems below follow from. *)
THEOREM OutcomeInductive == Spec => []OutcomeInv
  BY OutcomeInit, OutcomeStep, PTL DEF Spec

(* A task somebody runs is in the hand of a thread that is not idle.       *)
LEMMA RunningIsOwned ==
    ASSUME IInv, NEW j, NEW s, <<j, s>> \in Task, future[<<j, s>>] = "running"
    PROVE  ThreadOwns(j, s)
<1>1. PICK w \in Worker : hand[w] = <<j, s>>
  BY AsSets DEF IInv, PoolInv, HeldOrQueuedOnce
<1> QED
  BY <1>1, PoolAssumption DEF IInv, Bridge, ThreadsAgree, ThreadOwns

LEMMA OutcomeOwned == OutcomeInv => OpenSegmentsAreOwned
<1> SUFFICES ASSUME OutcomeInv,
                    NEW j \in OpenJobs, NEW s \in DOMAIN jobs[j].segments,
                    jobs[j].segments[s].status \in OpenStatus
             PROVE  \/ HandlerOwns(j, s)
                    \/ <<j, s>> \in Queued
                    \/ ThreadOwns(j, s)
                    \/ executor # "running" /\ future[<<j, s>>] = "cancelled"
  BY DEF OpenSegmentsAreOwned
<1> USE DEF OutcomeInv, IInv
<1>1. j \in DOMAIN jobs /\ <<j, s>> \in Task
  <2>1. j \in DOMAIN jobs /\ j \in JobId /\ jobs[j] \in Job
    BY DEF OpenJobs, StoreInv, StoreTypeOK
  <2>2. s \in Segment
    BY <2>1 DEF Job
  <2> QED
    BY <2>1, <2>2, ServiceAssumption
<1>2. ~ Final(jobs[j].segments[s]) /\ SegmentState(<<j, s>>) = jobs[j].segments[s]
  BY DEF Final, SegmentState
<1>3. CASE future[<<j, s>>] = "none"
  BY <1>1, <1>2, <1>3 DEF OwnersAgree, NobodyForgets
<1>4. CASE future[<<j, s>>] = "pending"
  <2>1. CASE <<j, s>> \in Queued
    BY <2>1
  <2>2. CASE <<j, s>> \notin Queued
    <3>1. <<j, s>> \in Held
      BY <1>1, <1>4, <2>2 DEF PoolInv, OneThreadPerTask
    <3>2. PICK w \in Worker : hand[w] = <<j, s>> /\ hand[w] # NoTask
      BY <3>1 DEF Held
    <3> QED
      BY <3>2 DEF Bridge, ThreadsAgree, ThreadOwns
  <2> QED
    BY <2>1, <2>2
<1>5. CASE future[<<j, s>>] = "running"
  BY <1>1, <1>5, RunningIsOwned
<1>6. CASE future[<<j, s>>] = "cancelled"
  BY <1>1, <1>6 DEF OwnersAgree, CancelledByAStop
<1>7. future[<<j, s>>] # "finished"
  BY <1>1, <1>2 DEF OwnersAgree, FuturesAreFinal
<1> QED
  BY <1>1, <1>3, <1>4, <1>5, <1>6, <1>7 DEF PoolInv, PoolTypeOK, FutureState

LEMMA OutcomeSettled == OutcomeInv => RejectedJobIsSettled
<1> SUFFICES ASSUME OutcomeInv, response = "rejected",
                    NEW s \in DOMAIN jobs[hjob].segments,
                    jobs[hjob].segments[s].status \in OpenStatus
             PROVE  ThreadOwns(hjob, s)
  BY DEF RejectedJobIsSettled
<1> USE DEF OutcomeInv, IInv
<1>1. /\ hpc = "idle" /\ stranded = {}
      /\ hjob \in DOMAIN jobs /\ DOMAIN jobs[hjob].segments = Elements(Keys)
  BY DEF AnswersAgree, Answered, AnswerCoversTheRequest, Bridge, HandlerAgrees
<1>2. PICK i \in 1 .. Len(Keys) : Keys[i] = s
  BY <1>1, KeysFacts
<1>3. TaskAt(i) = <<hjob, s>> /\ TaskAt(i) \in Task /\ Settled(TaskAt(i))
  BY <1>1, <1>2, TaskAtFacts DEF OwnersAgree, HandlerLeaves, TaskAt, StoreInv,
                                 StoreTypeOK
<1>4. ~ Final(SegmentState(<<hjob, s>>))
  BY DEF Final, SegmentState
<1>5. future[<<hjob, s>>] # "finished"
  BY <1>3, <1>4 DEF OwnersAgree, FuturesAreFinal
<1> QED
  BY <1>3, <1>4, <1>5, RunningIsOwned DEF Settled

(* Every segment of an open job still has somebody who will finish it, for *)
(* any number of threads, jobs and segments, until the pool is stopped.    *)
THEOREM ServiceOwned == Spec => []OpenSegmentsAreOwned
  BY OutcomeInductive, OutcomeOwned, PTL

(* A 503 that names a job leaves of it only what a thread will finish.     *)
THEOREM ServiceSettled == Spec => []RejectedJobIsSettled
  BY OutcomeInductive, OutcomeSettled, PTL

(* An answer names a job with the segments the caller asked for.           *)
THEOREM ServiceAnswers == Spec => []AnswerCoversTheRequest
<1>1. OutcomeInv => AnswerCoversTheRequest
  BY DEF OutcomeInv, AnswersAgree
<1> QED
  BY <1>1, OutcomeInductive, PTL

(* Of the writers that race to finish a job, one logs job_finished, once,  *)
(* with the status the job keeps.                                          *)
THEOREM ServiceLogsOnce == Spec => []FinishedIsLoggedOnce
<1>1. OutcomeInv => FinishedIsLoggedOnce
  <2> SUFFICES ASSUME OutcomeInv, NEW j \in JobId
               PROVE  /\ Len(finishedLog[j]) <= 1
                      /\ finishedLog[j] # << >> =>
                            /\ j \in DOMAIN jobs
                            /\ IsTerminal(jobs[j])
                            /\ finishedLog[j] = <<Status(jobs[j])>>
    BY DEF FinishedIsLoggedOnce
  <2>1. finishedLog[j] # << >> =>
           /\ j \in DOMAIN jobs
           /\ IsTerminal(jobs[j])
           /\ finishedLog[j] = <<Status(jobs[j])>>
    BY DEF OutcomeInv, LogAgrees, LinesAgree
  <2>2. finishedLog[j] = << >> \/ finishedLog[j] = <<Status(jobs[j])>>
    BY <2>1
  <2>3. Len(finishedLog[j]) <= 1
    <3>1. CASE finishedLog[j] = << >>
      BY <3>1
    <3>2. CASE finishedLog[j] = <<Status(jobs[j])>>
      BY <3>2
    <3> QED
      BY <2>2, <3>1, <3>2
  <2> QED
    BY <2>1, <2>3
<1> QED
  BY <1>1, OutcomeInductive, PTL

(* Once lifespan has stopped the pool, the service has nothing left to run *)
(* and every future is final.                                              *)
THEOREM ServiceStops == Spec => []StoppedPoolIsQuiet
<1>1. OutcomeInv => StoppedPoolIsQuiet
  BY DEF OutcomeInv, IInv, PoolInv
<1> QED
  BY <1>1, OutcomeInductive, PTL

-----------------------------------------------------------------------------
(* The process.  Every step of it is one of the service, or leaves the     *)
(* service alone.                                                          *)
LEMMA ProcessIsService == [ProcessNext]_processVars => [Next]_vars
  BY DEF ProcessNext, processVars, Interrupt, InterruptAgain, Probe, Serve, Handle,
         Stop, Leave, EnterStop, Stopped, SkipStop, Exit, Work, Next

(* As long as the loop looks at requests the pool runs; the stop begins    *)
(* after the last answer; and whoever ends the process has waited for the  *)
(* threads.                                                                *)
Serving == phase \in {"serving", "closing"}

ProcessInv ==
    /\ phase \in {"serving", "closing", "stopping", "exiting", "gone"}
    /\ Serving => executor = "running"
    /\ ~ Serving => hpc = "idle"
    /\ phase = "exiting" => executor = "running" /\ forced
    /\ phase = "stopping" => ~ forced
    /\ phase = "gone" =>
          /\ queue = << >> /\ \A w \in Worker : hand[w] = NoTask
          /\ executor = (IF forced THEN "running" ELSE "none")
    /\ executor = "none" => \A w \in Worker : hand[w] = NoTask
    /\ hpc \in {"idle", "creating", "scheduling"}
    /\ response \notin {"rejected", "unavailable"}
    /\ health # 503

LEMMA ProcessInitInv == ProcessInit => ProcessInv
  BY DEF ProcessInit, Init, PoolInit, ProcessInv, Serving

LEMMA ProcessStepInv ==
    ASSUME OutcomeInv, ProcessInv, [ProcessNext]_processVars PROVE ProcessInv'
<1> USE DEF ProcessInv, Serving
<1>0. executor \in {"shutdown", "none"} => queue = << >>
  BY DEF OutcomeInv, IInv, PoolInv, StoppedPoolIsQuiet
<1>1. CASE Interrupt \/ InterruptAgain
  BY <1>1 DEF Interrupt, InterruptAgain, vars, poolVars, handlerVars
<1>2. CASE Probe
  BY <1>2 DEF Probe, LoopIsFree, vars, poolVars, handlerVars
<1>3. ASSUME NEW r \in Request, LoopIsFree, Receive(r), UNCHANGED <<phase, forced, health>>
      PROVE  ProcessInv'
  BY <1>3 DEF LoopIsFree, Receive, ReadExecutor, RefuseEarly, poolVars
<1>4. CASE Handle
  <2>1. hpc # "idle" /\ Serving /\ executor = "running"
    BY <1>4 DEF Handle, HandlerStep, Create, Join, ScheduleNext, Accept, ScheduleRaises,
       CancelNext, CancelDone, FailNext, HandlerLogs, Reject
  <2>2. ASSUME NEW j \in JobId, Create(j) \/ Join(j) PROVE ProcessInv'
    BY <1>4, <2>1, <2>2 DEF Handle, Create, Join, poolVars
  <2>3. CASE ScheduleNext
    BY <1>4, <2>1, <2>3 DEF Handle, ScheduleNext, SubmitTask
  <2>4. CASE Accept
    BY <1>4, <2>1, <2>4 DEF Handle, Accept, poolVars
  <2>5. ~ ScheduleRaises
    BY <2>1 DEF ScheduleRaises, SubmitRaises
  <2>6. ~ (CancelNext \/ CancelDone \/ FailNext \/ HandlerLogs \/ Reject)
    BY DEF CancelNext, CancelDone, FailNext, HandlerLogs, Reject
  <2> QED
    BY <1>4, <2>2, <2>3, <2>4, <2>5, <2>6 DEF Handle, HandlerStep
<1>5. ASSUME NEW w \in Worker, Work(w) PROVE ProcessInv'
  <2>1. UNCHANGED <<phase, forced, health, executor, hpc, response>>
    BY <1>5 DEF Work, WorkerNext, WorkerClaims, Claim, WorkerDrops, DropCancelled,
       WorkerStarts, StartRun, EnterPipeline, EnterNextStage, SetStage, Succeed, Record,
       Raise, RecordFailure, WorkerLogs, WorkerReturns, FinishRun, handlerVars, poolVars
  <2>2. ASSUME queue = << >>, \A v \in Worker : hand[v] = NoTask
        PROVE  queue' = << >> /\ \A v \in Worker : hand'[v] = NoTask
    BY <1>5, <2>2 DEF Work, WorkerNext, WorkerClaims, Claim, WorkerDrops, DropCancelled,
       WorkerStarts, StartRun, EnterPipeline, EnterNextStage, SetStage, Succeed, Record,
       Raise, RecordFailure, WorkerLogs, WorkerReturns, FinishRun, poolVars
  <2> QED
    BY <1>0, <2>1, <2>2
<1>6. CASE Stop
  <2>1. UNCHANGED <<phase, forced, health, hpc, response, hand>>
    BY <1>6 DEF Stop, ContinueShutdown, DrainOne, DrainDone, DropExecutor, handlerVars
  <2>2. executor \in {"draining", "shutdown"}
    BY <1>6 DEF Stop, ContinueShutdown, DrainOne, DrainDone, DropExecutor
  <2>3. phase = "stopping"
    BY <2>2
  <2>4. executor' = "none" => \A w \in Worker : hand[w] = NoTask
    BY <1>6, <2>2 DEF Stop, ContinueShutdown, DrainOne, DrainDone, DropExecutor
  <2> QED
    BY <2>1, <2>3, <2>4
<1>7. CASE EnterStop
  BY <1>7 DEF EnterStop, BeginShutdown, ShutdownExecutor, handlerVars
<1>8. CASE Stopped
  BY <1>0, <1>8 DEF Stopped, vars, poolVars, handlerVars
<1>9. CASE SkipStop \/ Exit
  BY <1>9 DEF SkipStop, Exit, vars, poolVars, handlerVars
<1>10. CASE UNCHANGED processVars
  BY <1>10 DEF processVars, vars, poolVars, handlerVars
<1> QED
  BY <1>1, <1>2, <1>3, <1>4, <1>5, <1>6, <1>7, <1>8, <1>9, <1>10
     DEF ProcessNext, Serve, Leave

LEMMA ProcessInductive == ProcessSpec => [](OutcomeInv /\ ProcessInv)
<1>1. ProcessInit => OutcomeInv /\ ProcessInv
  BY ProcessInitInv, OutcomeInit DEF ProcessInit
<1>2. OutcomeInv /\ ProcessInv /\ [ProcessNext]_processVars => OutcomeInv' /\ ProcessInv'
  BY ProcessStepInv, ProcessIsService, OutcomeStep
<1> QED
  BY <1>1, <1>2, PTL DEF ProcessSpec

(* Nothing submits while the stop runs (main.py:48): no request of a       *)
(* process that only lifespan stops is answered 503, and no probe is.      *)
THEOREM ProcessServes == ProcessSpec => []NothingMeetsTheStop
<1>1. ProcessInv => NothingMeetsTheStop
  BY DEF ProcessInv, Serving, NothingMeetsTheStop, LoopIsFree
<1> QED
  BY <1>1, ProcessInductive, PTL

(* When the process is gone no thread was in a library call, a segment     *)
(* without a result was cancelled before it began, and if the stop was     *)
(* skipped, every accepted job is finished (main.py:43).                   *)
THEOREM ProcessWaits == ProcessSpec => []NobodyIsCutOff
<1>1. OutcomeInv /\ ProcessInv => NobodyIsCutOff
  <2> SUFFICES ASSUME OutcomeInv, ProcessInv, phase = "gone"
               PROVE  /\ \A w \in Worker : wpc[w] = "idle"
                      /\ \A j \in OpenJobs : \A s \in DOMAIN jobs[j].segments :
                            jobs[j].segments[s].status \in OpenStatus =>
                               /\ jobs[j].segments[s] = Pending
                               /\ future[<<j, s>>] = "cancelled"
                      /\ forced => OpenJobs = {}
    BY DEF NobodyIsCutOff
  <2>1. /\ queue = << >> /\ hpc = "idle" /\ \A w \in Worker : hand[w] = NoTask
        /\ forced => executor = "running"
    BY DEF ProcessInv, Serving
  <2>2. \A w \in Worker : wpc[w] = "idle"
    BY <2>1, PoolAssumption DEF OutcomeInv, IInv, Bridge, ThreadsAgree
  <2>3. ASSUME NEW j \in OpenJobs, NEW s \in DOMAIN jobs[j].segments,
               jobs[j].segments[s].status \in OpenStatus
        PROVE  executor # "running" /\ future[<<j, s>>] = "cancelled"
    <3>1. \/ HandlerOwns(j, s) \/ <<j, s>> \in Queued \/ ThreadOwns(j, s)
          \/ executor # "running" /\ future[<<j, s>>] = "cancelled"
      BY <2>3, OutcomeOwned DEF OpenSegmentsAreOwned
    <3> QED
      BY <2>1, <2>2, <3>1 DEF HandlerOwns, Queued, ThreadOwns
  <2>4. ASSUME NEW j \in OpenJobs, NEW s \in DOMAIN jobs[j].segments,
               jobs[j].segments[s].status \in OpenStatus
        PROVE  jobs[j].segments[s] = Pending
    <3>1. <<j, s>> \in Task /\ SegmentState(<<j, s>>) = jobs[j].segments[s]
      <4>1. j \in JobId /\ jobs[j] \in Job
        BY DEF OpenJobs, OutcomeInv, IInv, StoreInv, StoreTypeOK
      <4> QED
        BY <4>1, ServiceAssumption DEF Job, SegmentState
    <3>2. jobs[j].segments[s] \in {Pending, NotScheduled}
      BY <2>3, <2>4, <3>1 DEF OutcomeInv, IInv, Bridge, WaitingIsPending
    <3> QED
      BY <2>4, <3>2 DEF NotScheduled, Result, OpenStatus
  <2>5. ASSUME forced, NEW j \in OpenJobs PROVE FALSE
    <3>1. j \in DOMAIN jobs /\ jobs[j] \in Job /\ ~ IsTerminal(jobs[j])
      BY <2>5 DEF OpenJobs, OutcomeInv, IInv, StoreInv, StoreTypeOK
    <3>2. PICK s \in DOMAIN jobs[j].segments : jobs[j].segments[s].status \in OpenStatus
      BY <3>1, JobTerminal
    <3> QED
      BY <2>1, <2>3, <2>5, <3>2
  <2> QED
    BY <2>2, <2>3, <2>4, <2>5
<1> QED
  BY <1>1, ProcessInductive, PTL

-----------------------------------------------------------------------------
(* The pool inside the service.                                            *)

(* The handler, process_segment and the stop of a service that may be      *)
(* stopped at any moment use the pool as PoolSpec says (its safety part).  *)
THEOREM ServiceRunsThePool == Spec => PoolInit /\ [][PoolNext]_poolVars
<1>1. Init => PoolInit
  BY DEF Init
<1>2. OutcomeInv /\ [Next]_vars => [PoolNext]_poolVars
  BY PoolSteps DEF OutcomeInv
<1> QED
  BY <1>1, <1>2, OutcomeInductive, PTL DEF Spec

(* So does a process from its start to its end (main.py:30-52).            *)
THEOREM ProcessRunsThePool == ProcessSpec => PoolInit /\ [][PoolNext]_poolVars
<1>1. ProcessInit => PoolInit
  BY DEF ProcessInit, Init
<1>2. OutcomeInv /\ [ProcessNext]_processVars => [PoolNext]_poolVars
  BY PoolSteps, ProcessIsService DEF OutcomeInv
<1> QED
  BY <1>1, <1>2, ProcessInductive, PTL DEF ProcessSpec

-----------------------------------------------------------------------------
(* Calls that never return, and threads that do not start.                 *)
LEMMA HungIsService == [HungNext]_hungVars => [Next]_vars
  BY DEF HungNext, hungVars, HandlerGoesOn, LiveWorker, Hang, StopGoesOn, Next

LEMMA HungInductive == HungSpec => []OutcomeInv
<1>1. HungInit => OutcomeInv
  BY OutcomeInit DEF HungInit
<1>2. OutcomeInv /\ [HungNext]_hungVars => OutcomeInv'
  BY HungIsService, OutcomeStep
<1> QED
  BY <1>1, <1>2, PTL DEF HungSpec

(* However many library calls hang for good (DESIGN.md:82), every open     *)
(* segment still has an owner: one that waits for ever waits for a thread  *)
(* in a call, or for one to be free.                                       *)
THEOREM HungSegmentsAreOwned == HungSpec => []OpenSegmentsAreOwned
  BY HungInductive, OutcomeOwned, PTL

(* And a 503 leaves nothing behind but what a thread holds.                *)
THEOREM HungRejectionsAreSettled == HungSpec => []RejectedJobIsSettled
  BY HungInductive, OutcomeSettled, PTL

(* Of a service in which submit() may queue a segment and raise all the    *)
(* same, only this is needed: what keeps the handler inside its list of    *)
(* keys, the threads among those the executor may have, and that a segment *)
(* that is still to be scheduled, or of a job that is not there yet, has   *)
(* never been submitted.                                                   *)
FaultTypes ==
    /\ alive \subseteq Worker
    /\ hreq \in Request
    /\ hpos \in Nat \ {0}
    /\ hpc \in {"scheduling", "cancelling"} => hjob \in JobId
    /\ hpc = "cancelling" => hpos <= Len(Keys) /\ Len(Keys) \in stranded
    /\ \A t \in Task : t[1] \notin DOMAIN jobs => future[t] = "none"
    /\ hpc = "scheduling" =>
          /\ hjob \in DOMAIN jobs
          /\ \A i \in hpos .. Len(Keys) : future[TaskAt(i)] = "none"

LEMMA InRangeTask ==
    ASSUME FaultTypes, hpc \in {"scheduling", "cancelling"}, hpos <= Len(Keys)
    PROVE  TaskAt(hpos) \in Task
<1>1. Keys \in Seq(Segment)
  BY RequestAssumption DEF FaultTypes, Keys
<1>2. Keys[hpos] \in Segment
  BY <1>1 DEF FaultTypes
<1> QED
  BY <1>2, ServiceAssumption DEF FaultTypes, TaskAt

LEMMA FaultKeys ==
    ASSUME FaultTypes
    PROVE  /\ Len(Keys) \in Nat
           /\ \A i, k \in 1 .. Len(Keys) : Keys[i] = Keys[k] => i = k
<1>1. Keys \in Seq(Segment)
  BY RequestAssumption DEF FaultTypes, Keys
<1>2. DOMAIN Keys = 1 .. Len(Keys) /\ Len(Keys) \in Nat
  BY <1>1
<1>3. \A i, k \in DOMAIN Keys : Keys[i] = Keys[k] => i = k
  BY RequestAssumption DEF FaultTypes, Keys
<1> QED
  BY <1>2, <1>3

(* Only submit() ends the time before a task's submission.                 *)
LEMMA NeverSubmitted ==
    ASSUME PoolInv,
           \/ \E t \in Task : CancelTask(t)
           \/ \E w \in Worker : WorkerStep(w)
           \/ Stopping
           \/ UNCHANGED poolVars
    PROVE  \A t \in Task : future[t] = "none" => future'[t] = "none"
<1> USE DEF PoolInv, PoolTypeOK
<1>1. ASSUME NEW t \in Task, CancelTask(t)
      PROVE  \A u \in Task : future[u] = "none" => future'[u] = "none"
  BY <1>1 DEF CancelTask, CancelSucceeds
<1>2. ASSUME NEW w \in Worker, WorkerStep(w)
      PROVE  \A u \in Task : future[u] = "none" => future'[u] = "none"
  BY <1>2 DEF WorkerStep, Claim, StartRun, DropCancelled, FinishRun
<1>3. CASE DrainOne
  <2>1. /\ queue # << >> /\ future' = [future EXCEPT ![Head(queue)] = "cancelled"]
    BY <1>3 DEF DrainOne
  <2>2. Head(queue) \in Task /\ Head(queue) \in Items(queue)
    BY <2>1, QueueTail
  <2>3. future[Head(queue)] # "none"
    BY <2>2, AsSets DEF HeldOrQueuedOnce
  <2> QED
    BY <2>1, <2>2, <2>3
<1>4. ASSUME ShutdownExecutor \/ DrainDone \/ DropExecutor \/ UNCHANGED poolVars
      PROVE  future' = future
  BY <1>4 DEF ShutdownExecutor, DrainDone, DropExecutor, poolVars
<1> QED
  BY <1>1, <1>2, <1>3, <1>4 DEF Stopping

(* What a step that submits nothing, creates nothing and does not move the *)
(* handler within its loop leaves of the last two conditions.              *)
LEMMA NotSubmittedYet ==
    ASSUME FaultTypes, DOMAIN jobs \subseteq DOMAIN jobs',
           \A t \in Task : future[t] = "none" => future'[t] = "none",
           hpc' = "scheduling" => hpc = "scheduling" /\ UNCHANGED <<hreq, hjob, hpos>>
    PROVE  /\ \A t \in Task : t[1] \notin DOMAIN jobs' => future'[t] = "none"
           /\ hpc' = "scheduling" =>
                 /\ hjob' \in DOMAIN jobs'
                 /\ \A i \in hpos' .. Len(Keys') : future'[TaskAt(i)'] = "none"
<1>1. ASSUME hpc' = "scheduling", NEW i \in hpos' .. Len(Keys')
      PROVE  future'[TaskAt(i)'] = "none"
  <2>1. /\ hpc = "scheduling" /\ Keys' = Keys /\ TaskAt(i)' = TaskAt(i)
        /\ i \in hpos .. Len(Keys)
    BY <1>1 DEF Keys, TaskAt
  <2>2. TaskAt(i) \in Task
    <3>1. Keys \in Seq(Segment)
      BY RequestAssumption DEF FaultTypes, Keys
    <3>2. Keys[i] \in Segment
      BY <2>1, <3>1 DEF FaultTypes
    <3> QED
      BY <2>1, <3>2, ServiceAssumption DEF FaultTypes, TaskAt
  <2> QED
    BY <2>1, <2>2 DEF FaultTypes
<1> QED
  BY <1>1 DEF FaultTypes

(* One more segment is submitted, by a call that returns or one that does  *)
(* not.                                                                    *)
LEMMA SubmittedNow ==
    ASSUME FaultTypes, PoolInv, hpc = "scheduling", hpos <= Len(Keys),
           SubmitTask(TaskAt(hpos)), UNCHANGED <<storeVars, hreq, hjob>>
    PROVE  /\ PoolNext
           /\ \A t \in Task : t[1] \notin DOMAIN jobs' => future'[t] = "none"
           /\ hjob' \in DOMAIN jobs'
           /\ \A i \in hpos + 1 .. Len(Keys') : future'[TaskAt(i)'] = "none"
<1>1. /\ TaskAt(hpos) \in Task /\ hpos \in 1 .. Len(Keys) /\ hpos \in hpos .. Len(Keys)
      /\ hjob \in DOMAIN jobs /\ TaskAt(hpos)[1] = hjob
      /\ Keys' = Keys /\ jobs' = jobs
  BY InRangeTask, FaultKeys DEF FaultTypes, TaskAt, Keys, storeVars
<1>2. future[TaskAt(hpos)] = "none" /\ future' = [future EXCEPT ![TaskAt(hpos)] = "pending"]
  BY <1>1 DEF FaultTypes, SubmitTask
<1>3. ASSUME NEW t \in Task, t[1] \notin DOMAIN jobs PROVE future'[t] = "none"
  BY <1>1, <1>2, <1>3 DEF FaultTypes, PoolInv, PoolTypeOK
<1>4. ASSUME NEW i \in hpos + 1 .. Len(Keys) PROVE future'[TaskAt(i)'] = "none"
  <2>1. i \in hpos .. Len(Keys) /\ i \in 1 .. Len(Keys) /\ i # hpos
    BY <1>1, FaultKeys
  <2>2. TaskAt(i)' = TaskAt(i) /\ TaskAt(i) # TaskAt(hpos)
    BY <1>1, <2>1, FaultKeys DEF TaskAt
  <2>3. future[TaskAt(i)] = "none"
    BY <2>1 DEF FaultTypes
  <2> QED
    BY <1>2, <2>2, <2>3
<1> QED
  BY <1>1, <1>2, <1>3, <1>4 DEF PoolNext, SubmitOnce

LEMMA InRangeStep ==
    ASSUME FaultTypes, PoolInv, [FaultNext]_faultVars
    PROVE  FaultTypes' /\ [PoolNext]_poolVars
<1>1. Len(Keys) \in Nat
  BY FaultKeys
<1>2. CASE SubmitAndStart
  <2>1. /\ hpc = "scheduling" /\ hpos <= Len(Keys) /\ SubmitTask(TaskAt(hpos))
        /\ hpos' = hpos + 1 /\ UNCHANGED <<storeVars, hreq, hjob, hpc>>
        /\ alive' \subseteq Worker
    BY <1>2 DEF SubmitAndStart, ScheduleNext, FaultTypes
  <2> QED
    BY <1>1, <2>1, SubmittedNow DEF FaultTypes, Keys
<1>3. CASE ThreadDoesNotStart
  <2>1. /\ hreq' = hreq /\ hjob' = hjob /\ hpos' = 1 /\ hpos \in 1 .. Len(Keys)
        /\ stranded' = hpos .. Len(Keys) /\ hpc = "scheduling" /\ hpc' = "cancelling"
        /\ SubmitTask(TaskAt(hpos)) /\ UNCHANGED alive /\ UNCHANGED storeVars
    BY <1>1, <1>3 DEF ThreadDoesNotStart, SubmitFails, FaultTypes
  <2>2. PoolNext /\ \A t \in Task : t[1] \notin DOMAIN jobs' => future'[t] = "none"
    BY <2>1, SubmittedNow
  <2> QED
    BY <1>1, <2>1, <2>2 DEF FaultTypes, Keys
<1>4. ASSUME ScheduleRaises, UNCHANGED alive PROVE FaultTypes' /\ [PoolNext]_poolVars
  <2>1. /\ hreq' = hreq /\ hjob' = hjob /\ hpos' = 1 /\ hpos \in 1 .. Len(Keys)
        /\ stranded' = hpos .. Len(Keys) /\ hpc = "scheduling" /\ hpc' = "cancelling"
        /\ UNCHANGED <<poolVars, storeVars, alive>>
    BY <1>1, <1>4 DEF ScheduleRaises, SubmitFails, FaultTypes
  <2> QED
    BY <1>1, <2>1 DEF FaultTypes, Keys, storeVars, poolVars
<1>5. ASSUME CancelNext, UNCHANGED alive PROVE FaultTypes' /\ [PoolNext]_poolVars
  <2>1. /\ hreq' = hreq /\ hjob' = hjob /\ hpos' = hpos + 1 /\ hpc = "cancelling"
        /\ UNCHANGED alive /\ hpc' = hpc /\ stranded \subseteq stranded' /\ hpos \notin stranded
        /\ CancelTask(TaskAt(hpos)) /\ jobs' = jobs
    BY <1>5 DEF CancelNext, storeVars
  <2>2. hpos < Len(Keys)
    BY <1>1, <2>1 DEF FaultTypes
  <2>3. TaskAt(hpos) \in Task
    BY <1>1, <2>1, <2>2, InRangeTask DEF FaultTypes
  <2>4. \A t \in Task : t[1] \notin DOMAIN jobs' => future'[t] = "none"
    BY <2>1, <2>3, NeverSubmitted, NotSubmittedYet
  <2> QED
    BY <1>1, <2>1, <2>2, <2>3, <2>4 DEF FaultTypes, Keys, PoolNext
<1>6. ASSUME NEW r \in Request, Receive(r), UNCHANGED alive
      PROVE  FaultTypes' /\ [PoolNext]_poolVars
  BY <1>6 DEF Receive, ReadExecutor, RefuseEarly, FaultTypes, storeVars, poolVars
<1>7. ASSUME NEW j \in JobId, Create(j), UNCHANGED alive
      PROVE  FaultTypes' /\ [PoolNext]_poolVars
  <2>1. /\ j \notin DOMAIN jobs /\ DOMAIN jobs' = DOMAIN jobs \cup {j} /\ hjob' = j
        /\ hreq' = hreq /\ hpos' = hpos /\ hpc' = "scheduling" /\ UNCHANGED poolVars
    BY <1>7 DEF Create, CreateJob, Put
  <2>2. ASSUME NEW i \in hpos' .. Len(Keys') PROVE future'[TaskAt(i)'] = "none"
    <3>1. Keys' = Keys /\ Keys \in Seq(Segment) /\ i \in 1 .. Len(Keys)
      BY <1>1, <2>1, RequestAssumption DEF FaultTypes, Keys
    <3>2. TaskAt(i)' = <<j, Keys[i]>> /\ <<j, Keys[i]>> \in Task
      BY <2>1, <3>1, ServiceAssumption DEF TaskAt
    <3> QED
      BY <2>1, <3>2 DEF FaultTypes, poolVars
  <2> QED
    BY <1>7, <2>1, <2>2 DEF FaultTypes, poolVars
<1>8. ASSUME NEW j \in JobId, Join(j), UNCHANGED alive
      PROVE  FaultTypes' /\ [PoolNext]_poolVars
  BY <1>8 DEF Join, JoinJob, FaultTypes, storeVars, poolVars
<1>9. ASSUME Accept \/ CancelDone \/ FailNext \/ HandlerLogs \/ Reject, UNCHANGED alive
      PROVE  FaultTypes' /\ [PoolNext]_poolVars
  <2>1. DOMAIN jobs' = DOMAIN jobs /\ UNCHANGED poolVars
    BY <1>9 DEF Accept, CancelDone, FailNext, HandlerLogs, Reject, UpdateSegment, storeVars
  <2> QED
    BY <1>9, <2>1 DEF Accept, CancelDone, FailNext, HandlerLogs, Reject, FaultTypes, poolVars
<1>10. ASSUME NEW w \in Worker, UNCHANGED alive,
              WorkerNext(w) \/ BeginShutdown \/ ContinueShutdown
       PROVE  FaultTypes' /\ [PoolNext]_poolVars
  <2>1. UNCHANGED handlerVars /\ (WorkerStep(w) \/ Stopping \/ UNCHANGED poolVars)
    BY <1>10 DEF WorkerNext, WorkerStep, WorkerClaims, WorkerDrops,
       WorkerStarts, EnterPipeline, EnterNextStage, SetStage, Succeed, Record,
       Raise, RecordFailure, WorkerLogs, WorkerReturns, BeginShutdown,
       ContinueShutdown, Stopping
  <2>2. DOMAIN jobs' = DOMAIN jobs
    BY <1>10 DEF WorkerNext, WorkerClaims, WorkerDrops, WorkerStarts, EnterPipeline,
       EnterNextStage, SetStage, Succeed, Record, Raise, RecordFailure, WorkerLogs,
       WorkerReturns, BeginShutdown, ContinueShutdown, UpdateSegment, storeVars
  <2>3. /\ \A t \in Task : t[1] \notin DOMAIN jobs' => future'[t] = "none"
        /\ hpc' = "scheduling" =>
              /\ hjob' \in DOMAIN jobs'
              /\ \A i \in hpos' .. Len(Keys') : future'[TaskAt(i)'] = "none"
    <3>1. \A t \in Task : future[t] = "none" => future'[t] = "none"
      BY <2>1, NeverSubmitted
    <3> QED
      BY <2>1, <2>2, <3>1, NotSubmittedYet DEF handlerVars
  <2> QED
    BY <1>10, <2>1, <2>3 DEF handlerVars, FaultTypes, Keys, PoolNext
<1>11. CASE UNCHANGED faultVars
  BY <1>11 DEF faultVars, vars, handlerVars, storeVars, poolVars, FaultTypes, Keys, TaskAt
<1>12. \A w \in alive : w \in Worker
  BY DEF FaultTypes
<1> QED
  BY <1>2, <1>3, <1>4, <1>5, <1>6, <1>7, <1>8, <1>9, <1>10, <1>11, <1>12, PoolAssumption
     DEF FaultNext

LEMMA FaultInductive == FaultSpec => [](FaultTypes /\ PoolInv)
<1>1. FaultInit => FaultTypes /\ PoolInv
  BY PoolInitInv DEF FaultInit, Init, PoolInit, FaultTypes
<1>2. FaultTypes /\ PoolInv /\ [FaultNext]_faultVars => FaultTypes' /\ PoolInv'
  BY InRangeStep, PoolStepInv
<1> QED
  BY <1>1, <1>2, PTL DEF FaultSpec

(* A submit() that queues a segment and raises makes the handler mark it   *)
(* failed while it waits to be run (pipeline.py:151); but even then no     *)
(* segment is run twice at a time, and none is lost.                       *)
THEOREM FaultRunsOnce == FaultSpec => []OneThreadPerTask
  BY FaultInductive, PTL DEF PoolInv

(* And a stop of such a service still leaves nothing in the pool.          *)
THEOREM FaultStops == FaultSpec => []StoppedPoolIsQuiet
  BY FaultInductive, PTL DEF PoolInv

-----------------------------------------------------------------------------
(* The contract: what has to be shown is that counting finished segments   *)
(* and looking at the set of their statuses, as derive_job_status does,    *)
(* come to the same.                                                       *)

(* A job as the counts see it: it has finitely many segments, as many as   *)
(* the work it stands for.                                                 *)
Counted(job) ==
    /\ job \in Job
    /\ IsFiniteSet(DOMAIN job.segments)
    /\ SizeOfWork[job.key] = Cardinality(DOMAIN job.segments)

LEMMA JobsAreCounted ==
    ASSUME StoreInv, KeyedSegments, NEW j \in DOMAIN jobs PROVE Counted(jobs[j])
<1>1. jobs[j] \in Job /\ jobs[j].key \in DedupKey
  BY DEF StoreInv, StoreTypeOK, Job
<1> DEFINE r == CHOOSE q \in Request : KeyOf[q] = jobs[j].key
<1>2. r \in Request /\ KeyOf[r] = jobs[j].key
  BY <1>1 DEF DedupKey
<1>3. DOMAIN jobs[j].segments = Elements(SegmentsOf[r])
  BY <1>2 DEF KeyedSegments
<1>4. SizeOfWork[jobs[j].key] = Cardinality(Elements(SegmentsOf[r]))
  BY <1>1 DEF SizeOfWork
<1> QED
  BY <1>1, <1>2, <1>3, <1>4, SegmentsFinite DEF Counted

(* Two disjoint parts of a finite set make it up if their sizes do.        *)
LEMMA TwoParts ==
    ASSUME NEW S, IsFiniteSet(S), NEW G \in SUBSET S, NEW B \in SUBSET S, G \cap B = {}
    PROVE  /\ Cardinality(G) \in Nat /\ Cardinality(B) \in Nat
           /\ Cardinality(G) + Cardinality(B) < Cardinality(S) <=> S # G \cup B
<1>1. IsFiniteSet(G) /\ IsFiniteSet(B)
  BY FS_Subset
<1>2. Cardinality(G) \in Nat /\ Cardinality(B) \in Nat /\ Cardinality(S) \in Nat
  BY <1>1, FS_CardinalityType
<1>3. Cardinality(G \cap B) = 0
  BY FS_EmptySet
<1>4. Cardinality(G \cup B) = Cardinality(G) + Cardinality(B) - Cardinality(G \cap B)
  BY <1>1, FS_Union
<1>5. Cardinality(G \cup B) = Cardinality(G) + Cardinality(B)
  BY <1>2, <1>3, <1>4
<1>6. G \cup B \in SUBSET S
  OBVIOUS
<1>7. /\ Cardinality(G \cup B) <= Cardinality(S)
      /\ Cardinality(S) = Cardinality(G \cup B) => S = G \cup B
  BY <1>6, FS_Subset
<1>8. CASE S = G \cup B
  BY <1>2, <1>5, <1>8
<1>9. CASE S # G \cup B
  BY <1>2, <1>5, <1>7, <1>9
<1> QED
  BY <1>2, <1>8, <1>9

With(job, statuses) == {s \in DOMAIN job.segments : job.segments[s].status \in statuses}

(* The two counts, and when they add up to the size of the job.            *)
LEMMA Counts ==
    ASSUME NEW job, Counted(job)
    PROVE  /\ OfferOf(job).work = job.key /\ OfferOf(job).begun \in BOOLEAN
           /\ OfferOf(job).good \in Nat /\ OfferOf(job).bad \in Nat
           /\ OfferOf(job).good = 0 <=> With(job, {"success"}) = {}
           /\ OfferOf(job).bad = 0 <=> With(job, {"failed"}) = {}
           /\ Contract!Open(OfferOf(job)) <=> ~ IsTerminal(job)
<1> DEFINE D == DOMAIN job.segments
           G == With(job, {"success"})
           B == With(job, {"failed"})
<1>1. G \subseteq D /\ B \subseteq D /\ G \cap B = {}
  BY DEF With
<1>2. IsFiniteSet(D) /\ IsFiniteSet(G) /\ IsFiniteSet(B)
      /\ Cardinality(G) \in Nat /\ Cardinality(B) \in Nat
  BY <1>1, FS_Subset, FS_CardinalityType DEF Counted
<1>3. /\ OfferOf(job).work = job.key
      /\ OfferOf(job).good = Cardinality(G) /\ OfferOf(job).bad = Cardinality(B)
      /\ OfferOf(job).begun \in BOOLEAN
  BY DEF OfferOf, NumberWith, With
<1>4. (Cardinality(G) = 0 <=> G = {}) /\ (Cardinality(B) = 0 <=> B = {})
  BY <1>2, FS_EmptySet
<1>8. D = G \cup B <=> IsTerminal(job)
  <2>1. \A s \in D : job.segments[s].status \in SegmentStatus
    BY DEF Counted, Job, SegmentResult
  <2>2. \A s \in D : s \in G \cup B <=> job.segments[s].status \notin OpenStatus
    BY <2>1 DEF With, SegmentStatus, OpenStatus
  <2>3. D = G \cup B <=> \A s \in D : s \in G \cup B
    BY <1>1
  <2> QED
    BY <2>2, <2>3, JobTerminal DEF Counted
<1>9. Contract!Open(OfferOf(job)) <=> Cardinality(G) + Cardinality(B) < Cardinality(D)
  BY <1>3 DEF Contract!Open, Counted
<1>10. Cardinality(G) + Cardinality(B) < Cardinality(D) <=> D # G \cup B
  BY <1>1, <1>2, TwoParts
<1> HIDE DEF D, G, B
<1> QED
  BY <1>2, <1>3, <1>4, <1>8, <1>9, <1>10 DEF G, B

LEMMA StatusCounted ==
    ASSUME NEW job, Counted(job)
    PROVE  Status(job) = Contract!StatusOf(OfferOf(job))
<1> DEFINE offer == OfferOf(job)
           G == With(job, {"success"})
           B == With(job, {"failed"})
<1>1. /\ offer.good \in Nat /\ offer.bad \in Nat /\ offer.begun \in BOOLEAN
      /\ offer.good = 0 <=> G = {}
      /\ offer.bad = 0 <=> B = {}
      /\ Contract!Open(offer) <=> ~ IsTerminal(job)
  BY Counts
<1>2. job \in Job
  BY DEF Counted
<1>3. offer.begun <=> Status(job) # "pending"
  BY <1>2, JobPending DEF OfferOf
<1>4. CASE ~ IsTerminal(job)
  <2>1. Status(job) \in {"pending", "running"}
    BY <1>2, <1>4, JobTerminal DEF IsTerminal, JobStatus, TerminalStatus
  <2>2. Contract!Open(offer)
    BY <1>1, <1>4
  <2>3. Contract!StatusOf(offer) = IF offer.begun THEN "running" ELSE "pending"
    BY <1>1, <2>2 DEF Contract!StatusOf
  <2> QED
    BY <1>3, <2>1, <2>3
<1>5. CASE IsTerminal(job)
  <2>1. PICK D \in (SUBSET Segment) \ {{}} : job.segments \in [D -> SegmentResult]
    BY <1>2 DEF Job
  <2>2. DOMAIN job.segments = D /\ D # {}
    BY <2>1
  <2>3. \A s \in D : job.segments[s].status \in {"success", "failed"}
    <3>1. \A s \in D : job.segments[s].status \in SegmentStatus
      BY <2>1 DEF SegmentResult
    <3>2. \A s \in D : job.segments[s].status \notin OpenStatus
      BY <1>2, <1>5, <2>2, JobTerminal
    <3> QED
      BY <3>1, <3>2 DEF SegmentStatus, OpenStatus
  <2>4. G = {} <=> "success" \notin Statuses(job)
    BY DEF With, Statuses
  <2>5. B = {} <=> "failed" \notin Statuses(job)
    BY DEF With, Statuses
  <2>6. Statuses(job) \subseteq {"success", "failed"} /\ Statuses(job) # {}
    BY <2>2, <2>3 DEF Statuses
  <2>7. ~ Contract!Open(offer)
    BY <1>1, <1>5
  <2>8. CASE Statuses(job) = {"success"}
    <3>1. offer.bad = 0 /\ offer.good # 0
      BY <1>1, <2>4, <2>5, <2>8
    <3>2. Status(job) = "success"
      BY <2>8 DEF Status, DeriveJobStatus, OpenStatus
    <3> QED
      BY <1>1, <2>7, <3>1, <3>2 DEF Contract!StatusOf
  <2>9. CASE Statuses(job) = {"failed"}
    <3>1. offer.good = 0 /\ offer.bad # 0
      BY <1>1, <2>4, <2>5, <2>9
    <3>2. Status(job) = "failed"
      BY <2>9 DEF Status, DeriveJobStatus, OpenStatus
    <3> QED
      BY <1>1, <2>7, <3>1, <3>2 DEF Contract!StatusOf
  <2>10. CASE Statuses(job) = {"success", "failed"}
    <3>1. offer.good > 0 /\ offer.bad > 0
      BY <1>1, <2>4, <2>5, <2>10
    <3>2. /\ Statuses(job) # {"success"} /\ Statuses(job) # {"failed"}
          /\ Statuses(job) # {"pending"} /\ Statuses(job) \cap OpenStatus = {}
      BY <2>10 DEF OpenStatus
    <3>3. Status(job) = "partial_success"
      BY <2>10, <3>2 DEF Status, DeriveJobStatus
    <3> QED
      BY <1>1, <2>7, <3>1, <3>3 DEF Contract!StatusOf
  <2>11. \/ Statuses(job) = {"success"} \/ Statuses(job) = {"failed"}
         \/ Statuses(job) = {"success", "failed"}
    BY <2>6
  <2> QED
    BY <2>8, <2>9, <2>10, <2>11
<1> QED
  BY <1>4, <1>5

-----------------------------------------------------------------------------
(* Each step of the store is a step of the contract, or one a client cannot*)
(* see.                                                                    *)
LEMMA CreateIsTake ==
    ASSUME StoreInv, KeyedSegments,
           NEW r \in Request, NEW j \in JobId, CreateJob(r, j)
    PROVE  Contract!Take(j, KeyOf[r])
<1>1. /\ KeyOf[r] \notin DOMAIN active /\ j \notin DOMAIN jobs
      /\ jobs' = [k \in DOMAIN jobs \cup {j} |-> IF k = j THEN NewJob(r) ELSE jobs[k]]
  BY DEF CreateJob, Put
<1>2. \A k \in DOMAIN jobs : jobs[k].key = KeyOf[r] => ~ Contract!Open(OfferOf(jobs[k]))
  <2> SUFFICES ASSUME NEW k \in DOMAIN jobs, jobs[k].key = KeyOf[r]
               PROVE  ~ Contract!Open(OfferOf(jobs[k]))
    OBVIOUS
  <2>1. k \notin OpenJobs
    BY <1>1 DEF StoreInv, IndexIsTheOpenJobs
  <2>2. IsTerminal(jobs[k])
    BY <2>1 DEF OpenJobs
  <2> QED
    BY <2>2, JobsAreCounted, Counts
<1>3. OfferOf(NewJob(r)) = [work |-> KeyOf[r], begun |-> FALSE, good |-> 0, bad |-> 0]
  <2>1. /\ NewJob(r).key = KeyOf[r]
        /\ \A s \in DOMAIN NewJob(r).segments :
              NewJob(r).segments[s].status = "pending"
    BY DEF NewJob, Pending, Result
  <2>2. /\ {s \in DOMAIN NewJob(r).segments :
               NewJob(r).segments[s].status \in {"success"}} = {}
        /\ {s \in DOMAIN NewJob(r).segments :
               NewJob(r).segments[s].status \in {"failed"}} = {}
    BY <2>1
  <2>3. NumberWith(NewJob(r), {"success"}) = 0 /\ NumberWith(NewJob(r), {"failed"}) = 0
    BY <2>2, FS_EmptySet DEF NumberWith
  <2>4. (\E s \in DOMAIN NewJob(r).segments :
            NewJob(r).segments[s].status # "pending") = FALSE
    BY <2>1
  <2> QED
    BY <2>1, <2>3, <2>4 DEF OfferOf
<1>4. \A k \in DOMAIN jobs : OfferOf(jobs[k]).work = jobs[k].key
  BY DEF OfferOf
<1> QED
  BY <1>1, <1>2, <1>3, <1>4 DEF Contract!Take, OffersNow

(* A write to an open segment adds it to the count of its new status.      *)
LEMMA CountAfterWrite ==
    ASSUME NEW job, Counted(job), NEW s \in DOMAIN job.segments,
           job.segments[s].status \in OpenStatus, NEW result \in SegmentResult,
           NEW st \in {"success", "failed"}
    PROVE  NumberWith(Updated(job, s, result), {st}) =
              IF result.status = st THEN NumberWith(job, {st}) + 1
                                    ELSE NumberWith(job, {st})
<1> DEFINE Old == {u \in DOMAIN job.segments : job.segments[u].status \in {st}}
           New == {u \in DOMAIN Updated(job, s, result).segments :
                      Updated(job, s, result).segments[u].status \in {st}}
<1>1. /\ DOMAIN Updated(job, s, result).segments = DOMAIN job.segments
      /\ Updated(job, s, result).segments[s] = result
      /\ \A u \in DOMAIN job.segments :
            u # s => Updated(job, s, result).segments[u] = job.segments[u]
  BY UpdatedType DEF Counted
<1>2. s \notin Old
  BY DEF OpenStatus
<1>3. New = IF result.status = st THEN Old \cup {s} ELSE Old
  BY <1>1, <1>2
<1>4. Old \in SUBSET (DOMAIN job.segments) /\ IsFiniteSet(DOMAIN job.segments)
  BY DEF Counted
<1>5. IsFiniteSet(Old)
  BY <1>4, FS_Subset
<1>6. Cardinality(Old \cup {s}) = Cardinality(Old) + 1
  BY <1>2, <1>5, FS_AddElement
<1>7. NumberWith(Updated(job, s, result), {st}) = Cardinality(New)
      /\ NumberWith(job, {st}) = Cardinality(Old)
  BY DEF NumberWith
<1> HIDE DEF Old, New
<1> QED
  BY <1>3, <1>6, <1>7

LEMMA WriteIsSeen ==
    ASSUME StoreInv, KeyedSegments,
           NEW j \in DOMAIN jobs, NEW s \in DOMAIN jobs[j].segments,
           NEW result \in SegmentResult, StepSegment(j, s, result)
    PROVE  [Contract!ContractNext]_OffersNow
<1> DEFINE old == OfferOf(jobs[j])
           new == OfferOf(Updated(jobs[j], s, result))
           seen == OffersNow
<1>1. Counted(jobs[j]) /\ jobs[j] \in Job /\ jobs[j].segments[s] \in SegmentResult
  BY JobsAreCounted DEF Counted, StoreInv, StoreTypeOK, Job
<1>2. jobs[j].segments[s].status \in OpenStatus /\ result.status # "pending"
  BY <1>1, FollowsAdvances DEF StepSegment
<1>3. jobs' = [jobs EXCEPT ![j] = Updated(jobs[j], s, result)]
  BY DEF StepSegment, UpdateSegment
<1>4. seen' = [seen EXCEPT ![j] = new]
  BY <1>3 DEF StoreInv, StoreTypeOK, OffersNow
<1>5. /\ Updated(jobs[j], s, result).key = jobs[j].key
      /\ Updated(jobs[j], s, result).segments[s] = result
      /\ s \in DOMAIN Updated(jobs[j], s, result).segments
  BY <1>1, UpdatedType
<1>6. old.good \in Nat /\ old.bad \in Nat /\ old.begun \in BOOLEAN
      /\ Contract!Open(old)
  BY <1>1, <1>2, Counts, JobTerminal
<1>7. /\ new.work = old.work /\ new.begun = TRUE
      /\ new.good = IF result.status = "success" THEN old.good + 1 ELSE old.good
      /\ new.bad = IF result.status = "failed" THEN old.bad + 1 ELSE old.bad
  BY <1>1, <1>2, <1>5, CountAfterWrite DEF OfferOf
<1>8. /\ old = [work |-> old.work, begun |-> old.begun, good |-> old.good, bad |-> old.bad]
      /\ new = [work |-> new.work, begun |-> new.begun, good |-> new.good, bad |-> new.bad]
  BY DEF OfferOf
<1>9. seen[j] = old /\ DOMAIN seen = DOMAIN jobs
  BY DEF OffersNow
<1>10. CASE result.status = "running" /\ old.begun
  <2>1. new = old
    BY <1>6, <1>7, <1>8, <1>10
  <2>2. seen' = seen
    BY <1>4, <1>9, <2>1 DEF OffersNow
  <2> QED
    BY <2>2
<1>11. CASE result.status = "running" /\ ~ old.begun
  <2>1. new = [old EXCEPT !.begun = TRUE]
    BY <1>7, <1>8, <1>11
  <2>2. Contract!Begin(j)
    BY <1>4, <1>9, <1>11, <2>1 DEF Contract!Begin
  <2> QED
    BY <1>9, <2>2 DEF Contract!ContractNext
<1>12. CASE result.status = "success"
  <2>1. jobs[j].segments[s].status = "running"
    <3>1. result # RunningAt(FirstStage) /\ result # NotScheduled
      BY <1>12 DEF RunningAt, NotScheduled, Result
    <3>2. PICK st \in Stage : jobs[j].segments[s] = RunningAt(st)
      BY <3>1 DEF StepSegment, Follows
    <3> QED
      BY <3>2 DEF RunningAt, Result
  <2>2. old.begun
    BY <2>1 DEF OfferOf
  <2>3. new = [old EXCEPT !.begun = TRUE, !.good = @ + 1, !.bad = @]
    BY <1>7, <1>8, <1>12
  <2>4. Contract!EndOne(j, TRUE)
    BY <1>4, <1>6, <1>9, <2>2, <2>3 DEF Contract!EndOne
  <2> QED
    BY <1>9, <2>4 DEF Contract!ContractNext
<1>13. CASE result.status = "failed"
  <2>1. new = [old EXCEPT !.begun = TRUE, !.good = @, !.bad = @ + 1]
    BY <1>7, <1>8, <1>13
  <2>2. Contract!EndOne(j, FALSE)
    BY <1>4, <1>6, <1>9, <2>1 DEF Contract!EndOne
  <2> QED
    BY <1>9, <2>2 DEF Contract!ContractNext
<1>14. result.status \in {"running", "success", "failed"}
  BY <1>2 DEF SegmentResult, SegmentStatus
<1> QED
  BY <1>10, <1>11, <1>12, <1>13, <1>14

LEMMA StepIsSeen ==
    ASSUME StoreInv, KeyedSegments, [StoreNext]_storeVars
    PROVE  [Contract!ContractNext]_OffersNow
<1>1. ASSUME NEW r \in Request, NEW j \in JobId, CreateJob(r, j)
      PROVE  Contract!ContractNext
  BY <1>1, CreateIsTake DEF Contract!ContractNext, DedupKey
<1>2. ASSUME UNCHANGED storeVars
      PROVE  UNCHANGED OffersNow
  BY <1>2 DEF storeVars, OffersNow
<1> QED
  BY <1>1, <1>2, WriteIsSeen DEF StoreNext, JoinJob

(* The store implements the contract with its clients.                     *)
THEOREM StoreKeepsContract == StoreSpec => ImplementsContract
<1>1. StoreInit => Contract!ContractInit
  BY DEF StoreInit, EmptyDict, Contract!ContractInit, OffersNow
<1>2. StoreInit => StoreInv /\ KeyedSegments
  BY StoreInitInv, KeyedSegmentsInit
<1>3. StoreInv /\ KeyedSegments /\ [StoreNext]_storeVars => (StoreInv /\ KeyedSegments)'
  BY StoreStepInv, KeyedSegmentsStep
<1>4. StoreInv /\ KeyedSegments /\ [StoreNext]_storeVars =>
         [Contract!ContractNext]_OffersNow
  BY StepIsSeen
<1> QED
  BY <1>1, <1>2, <1>3, <1>4, PTL DEF StoreSpec, ImplementsContract, Contract!ContractSpec

(* And so does the service, its handler, threads and stops included.       *)
THEOREM ServiceKeepsContract == Spec => ImplementsContract
  BY ServiceRefinesStore, StoreKeepsContract, PTL

(* The status of a response is what its own counts say.                    *)
THEOREM ServiceStatusIsTheCount == Spec => []StatusIsTheCount
<1>1. OutcomeInv => StatusIsTheCount
  BY JobsAreCounted, StatusCounted
     DEF OutcomeInv, IInv, AnswersAgree, StatusIsTheCount
<1> QED
  BY <1>1, OutcomeInductive, PTL

(* No job the service has told of falls back to an earlier status.         *)
THEOREM ServiceStatus == Spec => JobStatusNeverFallsBack
  BY ServiceRefinesStore, StoreStatus, PTL
=============================================================================
