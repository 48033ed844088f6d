----------------------- MODULE PredictionServiceProofs ----------------------
(***************************************************************************)
(* The service keeps the promise its store relies on, for any number of    *)
(* jobs, segments, threads and stages, whether or not the pool is stopped  *)
(* under a request: it writes the life cycle of each segment, step by step.*)
(***************************************************************************)
EXTENDS PredictionService, JobStoreProofs, SegmentPoolProofs

(* A future exists only for a segment of a job.                            *)
FuturesHaveSegments ==
    \A t \in Task : future[t] # "none" =>
       t[1] \in DOMAIN jobs /\ t[2] \in DOMAIN jobs[t[1]].segments

(* Where a thread is agrees with its hand, with the future of its task and *)
(* with what the store says of the segment.                                *)
InCall == {"calling", "raised"}

ThreadsAgree ==
    \A w \in Worker :
       /\ wpc[w] = "idle" <=> hand[w] = NoTask
       /\ wpc[w] = "claimed" => future[hand[w]] \in {"pending", "cancelled"}
       /\ wpc[w] \notin {"idle", "claimed"} => future[hand[w]] = "running"
       /\ wpc[w] = "started" => SegmentState(hand[w]) = Pending
       /\ wpc[w] \in InCall => /\ wstage[w] \in Stage
                               /\ SegmentState(hand[w]) = RunningAt(wstage[w])

(* A segment nobody has started is pending; one whose future was cancelled *)
(* stays so until the handler marks it.                                    *)
WaitingIsPending ==
    \A t \in Task :
       /\ future[t] = "pending" => SegmentState(t) = Pending
       /\ future[t] = "cancelled" => SegmentState(t) \in {Pending, NotScheduled}

(* A segment that shows a stage is in that stage in some thread.           *)
RunningHasAThread ==
    \A j \in DOMAIN jobs : \A s \in DOMAIN jobs[j].segments :
       jobs[j].segments[s].status = "running" =>
          \E w \in Worker : hand[w] = <<j, s>> /\ wpc[w] \in InCall

(* What the handler still has to do in each phase of submit_job_segments.  *)
InSubmit == {"scheduling", "cancelling", "failing", "closing"}

Untouched(i) ==
    /\ future[TaskAt(i)] \in {"none", "cancelled"}
    /\ SegmentState(TaskAt(i)) = Pending

HandlerAgrees ==
    /\ hpc \in InSubmit =>
          /\ hjob \in DOMAIN jobs
          /\ DOMAIN jobs[hjob].segments = Elements(Keys)
    /\ hpc = "scheduling" =>
          \A i \in hpos .. Len(Keys) : future[TaskAt(i)] = "none" /\ Untouched(i)
    /\ hpc = "cancelling" => Len(Keys) \in stranded /\ hpos <= Len(Keys)
    /\ hpc \in {"scheduling", "cancelling"} =>
          \A t \in Task :
             t[1] = hjob /\ future[t] = "cancelled" => SegmentState(t) = Pending
    /\ \A i \in stranded : Untouched(i)
    /\ hpc \in {"idle", "creating", "scheduling"} => stranded = {}
    /\ hpc \in {"idle", "creating", "failing", "closing"} => hpos = 1

Bridge ==
    /\ FuturesHaveSegments
    /\ ThreadsAgree
    /\ WaitingIsPending
    /\ RunningHasAThread
    /\ HandlerAgrees

(* TypeOK without the types of the store and of the pool.                  *)
ServiceTypes ==
    /\ hpc \in HandlerPc
    /\ hreq \in Request
    /\ hjob \in JobId \cup {NoJob}
    /\ hpos \in 1 .. Len(Keys) + 1
    /\ stranded \subseteq 1 .. Len(Keys)
    /\ response \in Response
    /\ wpc \in [Worker -> WorkerPc]
    /\ wstage \in [Worker -> Stage \cup {NoStage}]
    /\ finishedLog \in [JobId -> Seq(JobStatus)]

IInv == StoreInv /\ PoolInv /\ ServiceTypes /\ Bridge

-----------------------------------------------------------------------------
(* Facts about tasks and keys that the steps below need.                   *)
LEMMA TaskParts ==
    ASSUME NEW t \in Task
    PROVE  t[1] \in JobId /\ t[2] \in Segment /\ t = <<t[1], t[2]>>
  BY ServiceAssumption

LEMMA KeysFacts ==
    ASSUME ServiceTypes
    PROVE  /\ Len(Keys) \in Nat \ {0}
           /\ \A i \in 1 .. Len(Keys) : Keys[i] \in Segment /\ Keys[i] \in Elements(Keys)
           /\ \A s \in Elements(Keys) : \E i \in 1 .. Len(Keys) : Keys[i] = s
           /\ \A i, k \in 1 .. Len(Keys) : Keys[i] = Keys[k] => i = k
<1>1. Keys \in Seq(Segment) /\ Keys # << >>
  BY RequestAssumption DEF ServiceTypes, Keys
<1>2. DOMAIN Keys = 1 .. Len(Keys) /\ Len(Keys) \in Nat \ {0}
  BY <1>1
<1>3. \A i, k \in DOMAIN Keys : Keys[i] = Keys[k] => i = k
  BY RequestAssumption DEF ServiceTypes, Keys
<1> QED
  BY <1>1, <1>2, <1>3 DEF Elements

LEMMA TaskAtFacts ==
    ASSUME ServiceTypes, hjob \in JobId, NEW i \in 1 .. Len(Keys)
    PROVE  /\ TaskAt(i) \in Task
           /\ TaskAt(i)[1] = hjob /\ TaskAt(i)[2] = Keys[i]
  BY KeysFacts, ServiceAssumption DEF TaskAt

(* The store after one write: only the written segment differs.            *)
Exists(t) == t[1] \in DOMAIN jobs /\ t[2] \in DOMAIN jobs[t[1]].segments

LEMMA UpdateFrame ==
    ASSUME StoreInv, NEW j \in DOMAIN jobs, NEW s \in DOMAIN jobs[j].segments,
           NEW result \in SegmentResult, UpdateSegment(j, s, result)
    PROVE  /\ DOMAIN jobs' = DOMAIN jobs
           /\ \A k \in DOMAIN jobs :
                 DOMAIN jobs'[k].segments = DOMAIN jobs[k].segments
           /\ jobs'[j].segments[s] = result
           /\ \A k \in DOMAIN jobs : \A u \in DOMAIN jobs[k].segments :
                 k # j \/ u # s => jobs'[k].segments[u] = jobs[k].segments[u]
<1>1. jobs' = [jobs EXCEPT ![j] = Updated(jobs[j], s, result)]
  BY DEF UpdateSegment
<1>2. jobs[j] \in Job /\ DOMAIN jobs' = DOMAIN jobs
      /\ jobs'[j] = Updated(jobs[j], s, result)
      /\ \A k \in DOMAIN jobs : k # j => jobs'[k] = jobs[k]
  BY <1>1 DEF StoreInv, StoreTypeOK
<1> QED
  BY <1>2, UpdatedType

-----------------------------------------------------------------------------
LEMMA InitInv == Init => IInv
<1> SUFFICES ASSUME Init PROVE IInv
  OBVIOUS
<1>1. StoreInv /\ PoolInv
  BY StoreInitInv, PoolInitInv DEF Init
<1>2. ServiceTypes
  <2>1. Keys \in Seq(Segment) /\ Len(Keys) \in Nat
    BY RequestAssumption DEF Init, Keys
  <2> QED
    BY <2>1 DEF Init, ServiceTypes, HandlerPc, Response, WorkerPc
<1>3. Bridge
  <2>1. jobs = EmptyDict /\ DOMAIN jobs = {}
    BY DEF Init, StoreInit, EmptyDict
  <2>2. /\ \A t \in Task : future[t] = "none"
        /\ \A w \in Worker : hand[w] = NoTask /\ wpc[w] = "idle"
    BY DEF Init, PoolInit
  <2> QED
    BY <2>1, <2>2 DEF Init, Bridge, FuturesHaveSegments, ThreadsAgree,
       WaitingIsPending, RunningHasAThread, HandlerAgrees, InCall, InSubmit
<1> QED
  BY <1>1, <1>2, <1>3 DEF IInv

-----------------------------------------------------------------------------
(* Actions that only move the handler: the parts of Bridge about threads   *)
(* and segments do not see it.                                             *)
LEMMA ThreadsKept ==
    ASSUME FuturesHaveSegments, ThreadsAgree, WaitingIsPending, RunningHasAThread,
           UNCHANGED <<storeVars, poolVars, workerVars>>
    PROVE  /\ FuturesHaveSegments' /\ ThreadsAgree'
           /\ WaitingIsPending' /\ RunningHasAThread'
  BY DEF storeVars, poolVars, workerVars, FuturesHaveSegments, ThreadsAgree,
         WaitingIsPending, RunningHasAThread, SegmentState

LEMMA ReadExecutorInv ==
    ASSUME IInv, NEW r \in Request, ReadExecutor(r) PROVE ServiceTypes' /\ Bridge'
<1> USE DEF IInv, Bridge
<1>1. /\ hpc = "idle" /\ hpc' = "creating" /\ hreq' = r /\ hjob' = NoJob
      /\ hpos' = 1 /\ stranded' = {} /\ response' = "none"
      /\ UNCHANGED <<storeVars, poolVars, workerVars, finishedLog>>
  BY DEF ReadExecutor, HandlerAgrees
<1>2. Keys' \in Seq(Segment) /\ Len(Keys') \in Nat
  BY <1>1, RequestAssumption DEF Keys
<1>3. ServiceTypes'
  BY <1>1, <1>2 DEF ServiceTypes, HandlerPc, Response, workerVars
<1>4. HandlerAgrees'
  BY <1>1 DEF HandlerAgrees, InSubmit
<1> QED
  BY <1>1, <1>3, <1>4, ThreadsKept

LEMMA RefuseEarlyInv ==
    ASSUME IInv, NEW r \in Request, RefuseEarly(r) PROVE ServiceTypes' /\ Bridge'
<1> USE DEF IInv, Bridge
<1>1. /\ hpc = "idle" /\ hpc' = "idle" /\ hreq' = r /\ hjob' = NoJob
      /\ hpos' = 1 /\ stranded' = {} /\ response' = "unavailable"
      /\ UNCHANGED <<storeVars, poolVars, workerVars, finishedLog>>
  BY DEF RefuseEarly, HandlerAgrees
<1>2. Keys' \in Seq(Segment) /\ Len(Keys') \in Nat
  BY <1>1, RequestAssumption DEF Keys
<1>3. ServiceTypes'
  BY <1>1, <1>2 DEF ServiceTypes, HandlerPc, Response, workerVars
<1>4. HandlerAgrees'
  BY <1>1 DEF HandlerAgrees, InSubmit
<1> QED
  BY <1>1, <1>3, <1>4, ThreadsKept

LEMMA JoinInv ==
    ASSUME IInv, NEW j \in JobId, Join(j) PROVE ServiceTypes' /\ Bridge'
<1> USE DEF IInv, Bridge
<1>1. /\ hpc = "creating" /\ hpc' = "idle" /\ hreq' = hreq /\ hjob' = j
      /\ hpos' = 1 /\ hpos' = hpos /\ stranded' = {} /\ response' = "joined"
      /\ UNCHANGED <<storeVars, poolVars, workerVars, finishedLog>>
  BY DEF Join, JoinJob, HandlerAgrees
<1>2. ServiceTypes'
  BY <1>1 DEF ServiceTypes, HandlerPc, Response, workerVars, Keys
<1>3. HandlerAgrees'
  BY <1>1 DEF HandlerAgrees, InSubmit
<1> QED
  BY <1>1, <1>2, <1>3, ThreadsKept

LEMMA AcceptInv == ASSUME IInv, Accept PROVE ServiceTypes' /\ Bridge'
<1> USE DEF IInv, Bridge
<1>1. /\ hpc = "scheduling" /\ hpc' = "idle" /\ hreq' = hreq /\ hjob' = hjob
      /\ hpos' = 1 /\ stranded' = {} /\ response' = "accepted"
      /\ UNCHANGED <<storeVars, poolVars, workerVars, finishedLog>>
  BY DEF Accept, HandlerAgrees
<1>2. ServiceTypes'
  BY <1>1, KeysFacts DEF ServiceTypes, HandlerPc, Response, workerVars, Keys
<1>3. HandlerAgrees'
  BY <1>1 DEF HandlerAgrees, InSubmit
<1> QED
  BY <1>1, <1>2, <1>3, ThreadsKept

(* The positions left when submit() raises have not been submitted.        *)
LEMMA ScheduleRaisesInv ==
    ASSUME IInv, ScheduleRaises PROVE ServiceTypes' /\ Bridge'
<1> USE DEF IInv, Bridge
<1>1. /\ hpc = "scheduling" /\ hpc' = "cancelling" /\ hreq' = hreq /\ hjob' = hjob
      /\ hpos' = 1 /\ stranded' = hpos .. Len(Keys) /\ response' = response
      /\ hpos <= Len(Keys) /\ Keys' = Keys
      /\ UNCHANGED <<storeVars, poolVars, workerVars, finishedLog>>
  BY DEF ScheduleRaises, SubmitFails, Keys
<1>2. ServiceTypes'
  BY <1>1, KeysFacts DEF ServiceTypes, HandlerPc, workerVars
<1>3. HandlerAgrees'
  <2>1. Len(Keys) \in stranded' /\ hpos' <= Len(Keys)
    BY <1>1, KeysFacts DEF ServiceTypes
  <2>2. \A i \in stranded' : Untouched(i)'
    BY <1>1 DEF HandlerAgrees, Untouched, TaskAt, SegmentState, storeVars, poolVars
  <2>3. \A t \in Task :
           t[1] = hjob' /\ future'[t] = "cancelled" => SegmentState(t)' = Pending
    BY <1>1 DEF HandlerAgrees, SegmentState, storeVars, poolVars
  <2> QED
    BY <1>1, <2>1, <2>2, <2>3 DEF HandlerAgrees, InSubmit, storeVars
<1> QED
  BY <1>1, <1>2, <1>3, ThreadsKept

LEMMA CancelDoneInv == ASSUME IInv, CancelDone PROVE ServiceTypes' /\ Bridge'
<1> USE DEF IInv, Bridge
<1>1. /\ hpc = "cancelling" /\ hpc' = "failing" /\ hreq' = hreq /\ hjob' = hjob
      /\ hpos' = 1 /\ stranded' = stranded /\ response' = response /\ Keys' = Keys
      /\ UNCHANGED <<storeVars, poolVars, workerVars, finishedLog>>
  BY DEF CancelDone, Keys
<1>2. ServiceTypes'
  BY <1>1, KeysFacts DEF ServiceTypes, HandlerPc, workerVars
<1>3. HandlerAgrees'
  BY <1>1 DEF HandlerAgrees, InSubmit, Untouched, TaskAt, SegmentState,
              storeVars, poolVars
<1> QED
  BY <1>1, <1>2, <1>3, ThreadsKept

(* A status read from the store can be logged.                             *)
LEMMA LogTypes ==
    ASSUME StoreInv, ServiceTypes, NEW j \in DOMAIN jobs, LogFinished(j)
    PROVE  finishedLog' \in [JobId -> Seq(JobStatus)]
<1>1. jobs[j] \in Job /\ j \in JobId
  BY DEF StoreInv, StoreTypeOK
<1>2. Status(jobs[j]) \in JobStatus
  BY <1>1, JobTerminal
<1> QED
  BY <1>1, <1>2 DEF LogFinished, ServiceTypes

LEMMA HandlerLogsInv == ASSUME IInv, HandlerLogs PROVE ServiceTypes' /\ Bridge'
<1> USE DEF IInv, Bridge
<1>1. /\ hpc = "closing" /\ hpc' = "failing" /\ hreq' = hreq /\ hjob' = hjob
      /\ hpos' = hpos /\ stranded' = stranded /\ response' = response /\ Keys' = Keys
      /\ UNCHANGED <<storeVars, poolVars, workerVars>>
      /\ LogFinished(hjob)
  BY DEF HandlerLogs, Keys
<1>2. hjob \in DOMAIN jobs
  BY <1>1 DEF HandlerAgrees, InSubmit
<1>3. ServiceTypes'
  BY <1>1, <1>2, LogTypes DEF ServiceTypes, HandlerPc, workerVars
<1>4. HandlerAgrees'
  BY <1>1 DEF HandlerAgrees, InSubmit, Untouched, TaskAt, SegmentState,
              storeVars, poolVars
<1> QED
  BY <1>1, <1>3, <1>4, ThreadsKept

LEMMA RejectInv == ASSUME IInv, Reject PROVE ServiceTypes' /\ Bridge'
<1> USE DEF IInv, Bridge
<1>1. /\ hpc = "failing" /\ hpc' = "idle" /\ hreq' = hreq /\ hjob' = hjob
      /\ hpos' = 1 /\ hpos' = hpos /\ stranded' = {} /\ response' = "rejected"
      /\ UNCHANGED <<storeVars, poolVars, workerVars, finishedLog>>
  BY DEF Reject, HandlerAgrees
<1>2. ServiceTypes'
  BY <1>1 DEF ServiceTypes, HandlerPc, Response, workerVars, Keys
<1>3. HandlerAgrees'
  BY <1>1 DEF HandlerAgrees, InSubmit
<1> QED
  BY <1>1, <1>2, <1>3, ThreadsKept

-----------------------------------------------------------------------------
(* Actions of the handler that change the store or a future.               *)
LEMMA HandlersJob ==
    ASSUME IInv, hpc \in InSubmit, NEW i \in 1 .. Len(Keys)
    PROVE  /\ hjob \in DOMAIN jobs /\ hjob \in JobId
           /\ Keys[i] \in DOMAIN jobs[hjob].segments
           /\ TaskAt(i) \in Task /\ TaskAt(i) = <<hjob, Keys[i]>>
           /\ TaskAt(i)[1] = hjob /\ TaskAt(i)[2] = Keys[i]
           /\ \A k \in 1 .. Len(Keys) : TaskAt(k) = TaskAt(i) => k = i
<1>1. hjob \in DOMAIN jobs /\ hjob \in JobId
      /\ DOMAIN jobs[hjob].segments = Elements(Keys)
  BY DEF IInv, Bridge, HandlerAgrees, StoreInv, StoreTypeOK
<1> QED
  BY <1>1, KeysFacts, TaskAtFacts DEF IInv, TaskAt

LEMMA CreateInv ==
    ASSUME IInv, NEW j \in JobId, Create(j) PROVE ServiceTypes' /\ Bridge'
<1> USE DEF IInv, Bridge
<1>1. /\ hpc = "creating" /\ hpc' = "scheduling" /\ hreq' = hreq /\ hjob' = j
      /\ hpos = 1 /\ hpos' = 1 /\ stranded = {} /\ stranded' = {} /\ Keys' = Keys
      /\ UNCHANGED <<poolVars, workerVars, finishedLog, response>>
      /\ CreateJob(hreq, j)
  BY DEF Create, HandlerAgrees, Keys
<1>2. ServiceTypes'
  BY <1>1 DEF ServiceTypes, HandlerPc, workerVars
<1>3. /\ j \notin DOMAIN jobs
      /\ DOMAIN jobs' = DOMAIN jobs \cup {j}
      /\ \A k \in DOMAIN jobs : jobs'[k] = jobs[k]
      /\ DOMAIN jobs'[j].segments = Elements(Keys)
      /\ \A s \in Elements(Keys) : jobs'[j].segments[s] = Pending
  BY <1>1 DEF CreateJob, Put, NewJob, Keys
<1>4. \A t \in Task : future[t] # "none" =>
         /\ t[1] \in DOMAIN jobs /\ jobs'[t[1]] = jobs[t[1]]
         /\ SegmentState(t)' = SegmentState(t)
  BY <1>3 DEF FuturesHaveSegments, SegmentState
<1>5. \A w \in Worker : wpc[w] # "idle" =>
         hand[w] \in Task /\ future[hand[w]] # "none"
  BY DEF ThreadsAgree, PoolInv, PoolTypeOK, ServiceTypes
<1>6. FuturesHaveSegments'
  BY <1>1, <1>3, <1>4 DEF FuturesHaveSegments, poolVars
<1>7. ThreadsAgree'
  <2>1. future' = future /\ hand' = hand /\ wpc' = wpc /\ wstage' = wstage
    BY <1>1 DEF poolVars, workerVars
  <2> QED
    BY <2>1, <1>4, <1>5 DEF ThreadsAgree, InCall
<1>8. WaitingIsPending'
  BY <1>1, <1>4 DEF WaitingIsPending, poolVars
<1>9. RunningHasAThread'
  <2> SUFFICES ASSUME NEW k \in DOMAIN jobs', NEW s \in DOMAIN jobs'[k].segments,
                      jobs'[k].segments[s].status = "running"
               PROVE  \E w \in Worker : hand'[w] = <<k, s>> /\ wpc'[w] \in InCall
    BY DEF RunningHasAThread
  <2>1. Pending.status # "running"
    BY DEF Pending, Result
  <2>2. k # j
    BY <1>3, <2>1
  <2>3. k \in DOMAIN jobs /\ jobs'[k] = jobs[k]
    BY <1>3, <2>2
  <2>4. PICK w \in Worker : hand[w] = <<k, s>> /\ wpc[w] \in InCall
    BY <2>3 DEF RunningHasAThread
  <2>5. hand' = hand /\ wpc' = wpc
    BY <1>1 DEF poolVars, workerVars
  <2> QED
    BY <2>4, <2>5
<1>10. HandlerAgrees'
  <2>1. \A t \in Task : t[1] = j => future'[t] = "none"
    BY <1>1, <1>3 DEF FuturesHaveSegments, poolVars
  <2>2. \A i \in 1 .. Len(Keys) : future'[TaskAt(i)'] = "none" /\ Untouched(i)'
    <3> SUFFICES ASSUME NEW i \in 1 .. Len(Keys)
                 PROVE  future'[TaskAt(i)'] = "none" /\ Untouched(i)'
      OBVIOUS
    <3>1. TaskAt(i)' = <<j, Keys[i]>> /\ <<j, Keys[i]>> \in Task
      BY <1>1, KeysFacts, ServiceAssumption DEF TaskAt
    <3>2. SegmentState(TaskAt(i))' = Pending
      BY <1>3, <3>1, KeysFacts DEF SegmentState
    <3> QED
      BY <2>1, <3>1, <3>2 DEF Untouched
  <2> QED
    BY <1>1, <1>3, <2>1, <2>2 DEF HandlerAgrees, InSubmit
<1> QED
  BY <1>2, <1>6, <1>7, <1>8, <1>9, <1>10

LEMMA ScheduleNextInv == ASSUME IInv, ScheduleNext PROVE ServiceTypes' /\ Bridge'
<1> DEFINE t == TaskAt(hpos)
<1> USE DEF IInv, Bridge
<1>1. /\ hpc = "scheduling" /\ hpos \in 1 .. Len(Keys) /\ Keys' = Keys
      /\ hpos' = hpos + 1 /\ SubmitTask(t)
      /\ UNCHANGED <<storeVars, workerVars, hpc, hreq, hjob, stranded, response, finishedLog>>
  BY DEF ScheduleNext, Keys, ServiceTypes
<1>2. /\ hjob \in DOMAIN jobs /\ Keys[hpos] \in DOMAIN jobs[hjob].segments
      /\ t \in Task /\ t[1] = hjob /\ t[2] = Keys[hpos]
      /\ \A k \in 1 .. Len(Keys) : TaskAt(k) = t => k = hpos
  BY <1>1, HandlersJob DEF InSubmit
<1>3. /\ future[t] = "none" /\ SegmentState(t) = Pending
      /\ future' = [future EXCEPT ![t] = "pending"]
      /\ UNCHANGED <<executor, hand>>
  BY <1>1, KeysFacts DEF HandlerAgrees, Untouched, SubmitTask
<1> HIDE DEF t
<1>4. /\ future'[t] = "pending"
      /\ \A u \in Task : u # t => future'[u] = future[u]
  BY <1>2, <1>3 DEF PoolInv, PoolTypeOK
<1>5. UNCHANGED <<jobs, wpc, wstage, hand>> /\ \A u : SegmentState(u)' = SegmentState(u)
  BY <1>1, <1>3 DEF storeVars, workerVars, SegmentState
<1>6. ServiceTypes'
  BY <1>1, KeysFacts DEF ServiceTypes, workerVars
<1>7. FuturesHaveSegments'
  BY <1>2, <1>4, <1>5 DEF FuturesHaveSegments
<1>8. ThreadsAgree'
  <2>1. \A w \in Worker : wpc[w] # "idle" => hand[w] \in Task /\ hand[w] # t
    BY <1>3 DEF ThreadsAgree, PoolInv, PoolTypeOK, ServiceTypes
  <2> QED
    BY <1>4, <1>5, <2>1 DEF ThreadsAgree, InCall
<1>9. WaitingIsPending'
  BY <1>3, <1>4, <1>5 DEF WaitingIsPending
<1>10. RunningHasAThread'
  BY <1>5 DEF RunningHasAThread
<1>11. HandlerAgrees'
  <2>1. \A i \in 1 .. Len(Keys) : TaskAt(i)' = TaskAt(i) /\ TaskAt(i) \in Task
    BY <1>1, <1>2, HandlersJob DEF TaskAt, InSubmit
  <2>2. \A i \in hpos + 1 .. Len(Keys) : i \in hpos .. Len(Keys) /\ TaskAt(i) # t
    BY <1>1, <1>2, KeysFacts
  <2>3. \A i \in hpos' .. Len(Keys) : future'[TaskAt(i)'] = "none" /\ Untouched(i)'
    BY <1>1, <1>4, <1>5, <2>1, <2>2 DEF HandlerAgrees, Untouched
  <2>4. stranded = {}
    BY <1>1 DEF HandlerAgrees
  <2> QED
    BY <1>1, <1>4, <1>5, <2>3, <2>4 DEF HandlerAgrees, InSubmit
<1> QED
  BY <1>6, <1>7, <1>8, <1>9, <1>10, <1>11

(* cancel() succeeds only for a segment nobody has started.                *)
LEMMA CancelNextInv == ASSUME IInv, CancelNext PROVE ServiceTypes' /\ Bridge'
<1> DEFINE t == TaskAt(hpos)
<1> USE DEF IInv, Bridge
<1>1. /\ hpc = "cancelling" /\ Keys' = Keys /\ hpos' = hpos + 1
      /\ hpos \notin stranded /\ CancelTask(t)
      /\ stranded' = IF CancelSucceeds(t) THEN stranded \cup {hpos} ELSE stranded
      /\ UNCHANGED <<storeVars, workerVars, hpc, hreq, hjob, response, finishedLog>>
  BY DEF CancelNext, Keys
<1>2. hpos \in 1 .. Len(Keys) /\ hpos # Len(Keys) /\ Len(Keys) \in stranded
  BY <1>1 DEF HandlerAgrees, ServiceTypes
<1>3. /\ hjob \in DOMAIN jobs /\ Keys[hpos] \in DOMAIN jobs[hjob].segments
      /\ t \in Task /\ t[1] = hjob /\ t[2] = Keys[hpos]
      /\ \A k \in 1 .. Len(Keys) : TaskAt(k) = t => k = hpos
  BY <1>1, <1>2, HandlersJob DEF InSubmit
<1>4. CancelSucceeds(t) => SegmentState(t) = Pending
  BY <1>1, <1>3 DEF CancelSucceeds, WaitingIsPending, HandlerAgrees
<1> HIDE DEF t
<1>5. /\ \A u \in Task : u # t => future'[u] = future[u]
      /\ CancelSucceeds(t) => future[t] \in {"pending", "cancelled"}
      /\ CancelSucceeds(t) => future'[t] = "cancelled"
      /\ ~ CancelSucceeds(t) => future' = future
  BY <1>1, <1>3 DEF CancelTask, CancelSucceeds, PoolInv, PoolTypeOK
<1>6. /\ UNCHANGED <<jobs, wpc, wstage, hand>>
      /\ \A u : SegmentState(u)' = SegmentState(u)
  BY <1>1 DEF CancelTask, storeVars, workerVars, SegmentState
<1>7. ServiceTypes'
  BY <1>1, <1>2, KeysFacts DEF ServiceTypes, workerVars
<1>8. FuturesHaveSegments'
  BY <1>3, <1>5, <1>6 DEF FuturesHaveSegments
<1>9. ThreadsAgree'
  <2>1. \A w \in Worker : wpc[w] # "idle" => hand[w] \in Task
    BY DEF ThreadsAgree, PoolInv, PoolTypeOK
  <2> QED
    BY <1>5, <1>6, <2>1 DEF ThreadsAgree, InCall
<1>10. WaitingIsPending'
  BY <1>4, <1>5, <1>6 DEF WaitingIsPending
<1>11. RunningHasAThread'
  BY <1>6 DEF RunningHasAThread
<1>12. HandlerAgrees'
  <2>1. \A i \in 1 .. Len(Keys) : TaskAt(i)' = TaskAt(i) /\ TaskAt(i) \in Task
    BY <1>1, HandlersJob DEF TaskAt, InSubmit
  <2>2. \A i \in stranded' : Untouched(i)'
    <3> SUFFICES ASSUME NEW i \in stranded' PROVE Untouched(i)'
      OBVIOUS
    <3>1. i \in 1 .. Len(Keys)
      BY <1>1, <1>2 DEF ServiceTypes
    <3>2. CASE i = hpos
      BY <1>1, <1>4, <1>5, <1>6, <2>1, <3>1, <3>2 DEF Untouched, t
    <3>3. CASE i # hpos
      <4>1. i \in stranded /\ TaskAt(i) # t
        BY <1>1, <1>3, <3>1, <3>3
      <4> QED
        BY <1>5, <1>6, <2>1, <3>1, <4>1 DEF HandlerAgrees, Untouched
    <3> QED
      BY <3>2, <3>3
  <2>3. \A u \in Task :
           u[1] = hjob' /\ future'[u] = "cancelled" => SegmentState(u)' = Pending
    BY <1>1, <1>4, <1>5, <1>6 DEF HandlerAgrees
  <2>4. Len(Keys) \in stranded' /\ hpos' <= Len(Keys)
    BY <1>1, <1>2, KeysFacts
  <2> QED
    BY <1>1, <1>6, <2>2, <2>3, <2>4 DEF HandlerAgrees, InSubmit
<1> QED
  BY <1>7, <1>8, <1>9, <1>10, <1>11, <1>12

(* The segment _fail_stranded marks belongs to nobody.                     *)
LEMMA FailNextInv == ASSUME IInv, FailNext PROVE ServiceTypes' /\ Bridge'
<1> USE DEF IInv, Bridge
<1>1. PICK i \in stranded :
         /\ UpdateSegment(hjob, Keys[i], NotScheduled)
         /\ stranded' = stranded \ {i}
         /\ hpc = "failing" /\ hpc' \in {"failing", "closing"}
         /\ UNCHANGED <<poolVars, workerVars, hreq, hjob, hpos, response, finishedLog>>
  BY DEF FailNext
<1>2. i \in 1 .. Len(Keys) /\ Keys' = Keys /\ hpos = 1
  BY <1>1 DEF ServiceTypes, HandlerAgrees, Keys
<1>3. PICK t \in Task :
         /\ hjob \in DOMAIN jobs /\ Keys[i] \in DOMAIN jobs[hjob].segments
         /\ t = TaskAt(i) /\ t[1] = hjob /\ t[2] = Keys[i]
         /\ \A k \in 1 .. Len(Keys) : TaskAt(k) = t => k = i
  BY <1>1, <1>2, HandlersJob DEF InSubmit
<1>4. future[t] \in {"none", "cancelled"} /\ SegmentState(t) = Pending
  BY <1>1, <1>3 DEF HandlerAgrees, Untouched
<1>5. /\ DOMAIN jobs' = DOMAIN jobs
      /\ \A k \in DOMAIN jobs : DOMAIN jobs'[k].segments = DOMAIN jobs[k].segments
      /\ jobs'[hjob].segments[Keys[i]] = NotScheduled
      /\ \A k \in DOMAIN jobs : \A u \in DOMAIN jobs[k].segments :
            k # hjob \/ u # Keys[i] => jobs'[k].segments[u] = jobs[k].segments[u]
  BY <1>1, <1>3, UpdateFrame, ResultTypes
<1>6. UNCHANGED <<future, hand, wpc, wstage>>
  BY <1>1 DEF poolVars, workerVars
<1>7. \A u \in Task : Exists(u) /\ u # t => SegmentState(u)' = SegmentState(u)
  BY <1>3, <1>5, TaskParts DEF Exists, SegmentState
<1>8. ServiceTypes'
  BY <1>1, <1>2 DEF ServiceTypes, HandlerPc, workerVars
<1>9. FuturesHaveSegments'
  BY <1>5, <1>6 DEF FuturesHaveSegments
<1>10. ThreadsAgree'
  <2>1. \A w \in Worker : wpc[w] \notin {"idle", "claimed"} =>
           hand[w] \in Task /\ hand[w] # t /\ Exists(hand[w])
    BY <1>4 DEF ThreadsAgree, FuturesHaveSegments, Exists, PoolInv, PoolTypeOK
  <2> QED
    BY <1>6, <1>7, <2>1 DEF ThreadsAgree, InCall
<1>11. WaitingIsPending'
  <2>1. SegmentState(t)' = NotScheduled
    BY <1>3, <1>5 DEF SegmentState
  <2>2. \A u \in Task : future[u] # "none" => Exists(u)
    BY DEF FuturesHaveSegments, Exists
  <2> QED
    BY <1>4, <1>6, <1>7, <2>1, <2>2 DEF WaitingIsPending
<1>12. RunningHasAThread'
  <2>1. NotScheduled.status # "running"
    BY DEF NotScheduled, Result
  <2> SUFFICES ASSUME NEW k \in DOMAIN jobs', NEW u \in DOMAIN jobs'[k].segments,
                      jobs'[k].segments[u].status = "running"
               PROVE  \E w \in Worker : hand'[w] = <<k, u>> /\ wpc'[w] \in InCall
    BY DEF RunningHasAThread
  <2>2. k \in DOMAIN jobs /\ u \in DOMAIN jobs[k].segments
    BY <1>5
  <2>3. k # hjob \/ u # Keys[i]
    BY <1>5, <2>1
  <2>4. jobs'[k].segments[u] = jobs[k].segments[u]
    BY <1>5, <2>2, <2>3
  <2>5. PICK w \in Worker : hand[w] = <<k, u>> /\ wpc[w] \in InCall
    BY <2>2, <2>4 DEF RunningHasAThread
  <2> QED
    BY <1>6, <2>5
<1>13. HandlerAgrees'
  <2>1. \A k \in 1 .. Len(Keys) : TaskAt(k)' = TaskAt(k)
    BY <1>1, <1>2 DEF TaskAt
  <2>2. ASSUME NEW k \in stranded' PROVE Untouched(k)'
    <3>1. k \in stranded /\ k \in 1 .. Len(Keys) /\ k # i
      BY <1>1 DEF ServiceTypes
    <3>2. TaskAt(k) \in Task /\ TaskAt(k) # t /\ Exists(TaskAt(k))
      BY <1>1, <1>3, <3>1, HandlersJob DEF InSubmit, Exists
    <3> QED
      BY <1>6, <1>7, <2>1, <3>1, <3>2 DEF HandlerAgrees, Untouched
  <2> QED
    BY <1>1, <1>2, <1>3, <1>5, <2>2 DEF HandlerAgrees, InSubmit
<1> QED
  BY <1>8, <1>9, <1>10, <1>11, <1>12, <1>13

-----------------------------------------------------------------------------
(* Actions of a thread.  The handler's part of Bridge survives whatever    *)
(* leaves alone the segments that are unscheduled or cancelled.            *)
LEMMA HandlerKept ==
    ASSUME IInv, UNCHANGED handlerVars,
           DOMAIN jobs' = DOMAIN jobs,
           \A k \in DOMAIN jobs : DOMAIN jobs'[k].segments = DOMAIN jobs[k].segments,
           \A t \in Task : Exists(t) /\ future[t] \in {"none", "cancelled"} =>
              future'[t] = future[t] /\ SegmentState(t)' = SegmentState(t),
           \A t \in Task : future'[t] = "cancelled" => future[t] = "cancelled"
    PROVE  HandlerAgrees'
<1> USE DEF IInv, Bridge
<1>1. /\ UNCHANGED <<hpc, hreq, hjob, hpos, stranded>> /\ Keys' = Keys
      /\ \A i : TaskAt(i)' = TaskAt(i)
  BY DEF handlerVars, Keys, TaskAt
<1>2. ASSUME hpc \in InSubmit, NEW i \in 1 .. Len(Keys), Untouched(i)
      PROVE  Untouched(i)' /\ future'[TaskAt(i)] = future[TaskAt(i)]
  <2>1. TaskAt(i) \in Task /\ Exists(TaskAt(i))
    BY <1>2, HandlersJob DEF Exists
  <2> QED
    BY <1>1, <1>2, <2>1 DEF Untouched
<1>3. ASSUME hpc = "scheduling", NEW i \in hpos .. Len(Keys)
      PROVE  future'[TaskAt(i)] = "none" /\ Untouched(i)'
  <2>1. i \in 1 .. Len(Keys)
    BY <1>3, KeysFacts DEF ServiceTypes
  <2> QED
    BY <1>2, <1>3, <2>1 DEF HandlerAgrees, InSubmit
<1>4. ASSUME NEW i \in stranded PROVE Untouched(i)'
  <2>1. hpc \in InSubmit /\ i \in 1 .. Len(Keys)
    BY <1>4 DEF HandlerAgrees, ServiceTypes, HandlerPc, InSubmit
  <2> QED
    BY <1>2, <2>1 DEF HandlerAgrees
<1>5. ASSUME hpc \in {"scheduling", "cancelling"}, NEW t \in Task,
             t[1] = hjob, future'[t] = "cancelled"
      PROVE  SegmentState(t)' = Pending
  <2>1. future[t] = "cancelled" /\ Exists(t)
    BY <1>5 DEF FuturesHaveSegments, Exists
  <2> QED
    BY <1>5, <2>1 DEF HandlerAgrees
<1> QED
  BY <1>1, <1>3, <1>4, <1>5 DEF HandlerAgrees, InSubmit

(* The segment a thread holds, when it is not idle.                        *)
LEMMA ThreadsTask ==
    ASSUME IInv, NEW w \in Worker, wpc[w] # "idle"
    PROVE  /\ hand[w] \in Task /\ Exists(hand[w])
           /\ JobOf(w) = hand[w][1] /\ SegmentOf(w) = hand[w][2]
           /\ JobOf(w) \in DOMAIN jobs
           /\ SegmentOf(w) \in DOMAIN jobs[JobOf(w)].segments
           /\ hand[w] = <<JobOf(w), SegmentOf(w)>>
           /\ \A v \in Worker : hand[v] = hand[w] => v = w
<1>1. hand[w] \in Task
  BY DEF IInv, Bridge, ThreadsAgree, PoolInv, PoolTypeOK
<1>2. future[hand[w]] # "none"
  BY DEF IInv, Bridge, ThreadsAgree, ServiceTypes
<1>3. \A v \in Worker : hand[v] = hand[w] => v = w
  BY <1>1, PoolAssumption DEF IInv, PoolInv, OneThreadPerTask
<1> QED
  BY <1>1, <1>2, <1>3, TaskParts
     DEF IInv, Bridge, FuturesHaveSegments, Exists, JobOf, SegmentOf

LEMMA RunningKept ==
    ASSUME RunningHasAThread, UNCHANGED jobs,
           \A v \in Worker : wpc[v] \in InCall =>
              hand'[v] = hand[v] /\ wpc'[v] \in InCall
    PROVE  RunningHasAThread'
  BY DEF RunningHasAThread

LEMMA ClaimsInv ==
    ASSUME IInv, NEW w \in Worker, WorkerClaims(w) PROVE ServiceTypes' /\ Bridge'
<1> USE DEF IInv, Bridge
<1>1. /\ hand[w] = NoTask /\ queue # << >> /\ wpc[w] = "idle"
      /\ hand' = [hand EXCEPT ![w] = Head(queue)] /\ wpc' = [wpc EXCEPT ![w] = "claimed"]
      /\ UNCHANGED <<jobs, active, future, wstage, finishedLog, handlerVars>>
  BY DEF WorkerClaims, Claim, Goto, storeVars
<1>2. Head(queue) \in Task /\ future[Head(queue)] \in {"pending", "cancelled"}
  <2>1. Head(queue) \in Task /\ Head(queue) \in Items(queue)
    BY <1>1, QueueTail DEF PoolInv, PoolTypeOK
  <2>2. future[Head(queue)] \notin {"none", "finished", "running"}
    BY <2>1, AsSets, PoolAssumption DEF HeldOrQueuedOnce, PoolInv
  <2>3. future[Head(queue)] \in FutureState
    BY <2>1 DEF PoolInv, PoolTypeOK
  <2> QED
    BY <2>1, <2>2, <2>3 DEF FutureState
<1>3. /\ hand'[w] = Head(queue) /\ hand'[w] # NoTask /\ wpc'[w] = "claimed"
      /\ \A v \in Worker : v # w => hand'[v] = hand[v] /\ wpc'[v] = wpc[v]
  BY <1>1, <1>2, PoolAssumption DEF PoolInv, PoolTypeOK, ServiceTypes
<1>4. \A t : SegmentState(t)' = SegmentState(t)
  BY <1>1 DEF SegmentState
<1>5. ServiceTypes'
  BY <1>1 DEF ServiceTypes, WorkerPc, handlerVars, Keys
<1>6. FuturesHaveSegments' /\ WaitingIsPending'
  BY <1>1, <1>4 DEF FuturesHaveSegments, WaitingIsPending
<1>7. ThreadsAgree'
  BY <1>1, <1>2, <1>3, <1>4 DEF ThreadsAgree, InCall
<1>8. RunningHasAThread'
  <2>1. \A v \in Worker : wpc[v] \in InCall => v # w
    BY <1>1 DEF InCall
  <2> QED
    BY <1>1, <1>3, <2>1, RunningKept
<1>9. HandlerAgrees'
  BY <1>1, <1>4, HandlerKept
<1> QED
  BY <1>5, <1>6, <1>7, <1>8, <1>9

LEMMA DropsInv ==
    ASSUME IInv, NEW w \in Worker, WorkerDrops(w) PROVE ServiceTypes' /\ Bridge'
<1> USE DEF IInv, Bridge
<1>1. /\ wpc[w] = "claimed"
      /\ hand' = [hand EXCEPT ![w] = NoTask] /\ wpc' = [wpc EXCEPT ![w] = "idle"]
      /\ UNCHANGED <<jobs, active, future, wstage, finishedLog, handlerVars>>
  BY DEF WorkerDrops, DropCancelled, Goto, storeVars
<1>2. /\ hand'[w] = NoTask /\ wpc'[w] = "idle"
      /\ \A v \in Worker : v # w => hand'[v] = hand[v] /\ wpc'[v] = wpc[v]
  BY <1>1 DEF PoolInv, PoolTypeOK, ServiceTypes
<1>3. \A t : SegmentState(t)' = SegmentState(t)
  BY <1>1 DEF SegmentState
<1>4. ServiceTypes'
  BY <1>1 DEF ServiceTypes, WorkerPc, handlerVars, Keys
<1>5. FuturesHaveSegments' /\ WaitingIsPending'
  BY <1>1, <1>3 DEF FuturesHaveSegments, WaitingIsPending
<1>6. ThreadsAgree'
  BY <1>1, <1>2, <1>3 DEF ThreadsAgree, InCall
<1>7. RunningHasAThread'
  <2>1. \A v \in Worker : wpc[v] \in InCall => v # w
    BY <1>1 DEF InCall
  <2> QED
    BY <1>1, <1>2, <2>1, RunningKept
<1>8. HandlerAgrees'
  BY <1>1, <1>3, HandlerKept
<1> QED
  BY <1>4, <1>5, <1>6, <1>7, <1>8

LEMMA StartsInv ==
    ASSUME IInv, NEW w \in Worker, WorkerStarts(w) PROVE ServiceTypes' /\ Bridge'
<1> USE DEF IInv, Bridge
<1>0. wpc[w] = "claimed"
  BY DEF WorkerStarts
<1>1. PICK t \in Task :
         /\ hand[w] = t /\ Exists(t) /\ \A v \in Worker : hand[v] = t => v = w
         /\ future[t] = "pending" /\ future' = [future EXCEPT ![t] = "running"]
         /\ wpc' = [wpc EXCEPT ![w] = "started"]
         /\ UNCHANGED <<jobs, active, hand, wstage, finishedLog, handlerVars>>
  BY <1>0, ThreadsTask DEF WorkerStarts, StartRun, Goto, storeVars
<1>2. /\ future'[t] = "running"
      /\ \A u \in Task : u # t => future'[u] = future[u]
  BY <1>1 DEF PoolInv, PoolTypeOK
<1>3. wpc'[w] = "started" /\ \A v \in Worker : v # w => wpc'[v] = wpc[v]
  BY <1>1 DEF ServiceTypes
<1>4. \A u : SegmentState(u)' = SegmentState(u)
  BY <1>1 DEF SegmentState
<1>5. SegmentState(t) = Pending
  BY <1>1 DEF WaitingIsPending
<1>6. ServiceTypes'
  BY <1>1 DEF ServiceTypes, WorkerPc, handlerVars, Keys
<1>7. FuturesHaveSegments'
  BY <1>1, <1>2 DEF FuturesHaveSegments, Exists
<1>8. WaitingIsPending'
  BY <1>2, <1>4 DEF WaitingIsPending
<1>9. ThreadsAgree'
  <2>1. \A v \in Worker : v # w /\ wpc[v] # "idle" => hand[v] \in Task /\ hand[v] # t
    BY <1>1, ThreadsTask
  <2> QED
    BY <1>0, <1>1, <1>2, <1>3, <1>4, <1>5, <2>1 DEF ThreadsAgree, InCall
<1>10. RunningHasAThread'
  <2>1. \A v \in Worker : wpc[v] \in InCall => v # w
    BY <1>0 DEF InCall
  <2> QED
    BY <1>1, <1>3, <2>1, RunningKept
<1>11. HandlerAgrees'
  BY <1>1, <1>2, <1>4, HandlerKept
<1> QED
  BY <1>6, <1>7, <1>8, <1>9, <1>10, <1>11

(* A thread writes a result for its segment: no other thread, no waiting   *)
(* task and not the handler knows that segment.                            *)
LEMMA ThreadWrites ==
    ASSUME IInv, NEW w \in Worker, wpc[w] \notin {"idle", "claimed"},
           NEW result \in SegmentResult,
           UpdateSegment(JobOf(w), SegmentOf(w), result),
           NEW pc \in {"calling", "closing", "done"}, Goto(w, pc),
           NEW st \in Stage \cup {NoStage}, wstage' = [wstage EXCEPT ![w] = st],
           pc = "calling" => st \in Stage /\ result = RunningAt(st),
           pc # "calling" => result.status # "running",
           UNCHANGED <<poolVars, handlerVars, finishedLog>>
    PROVE  ServiceTypes' /\ Bridge'
<1> USE DEF IInv, Bridge
<1>1. PICK t \in Task :
         /\ hand[w] = t /\ Exists(t) /\ future[t] = "running"
         /\ t[1] \in DOMAIN jobs /\ t[2] \in DOMAIN jobs[t[1]].segments
         /\ t = <<t[1], t[2]>>
         /\ UpdateSegment(t[1], t[2], result)
         /\ \A v \in Worker : hand[v] = t => v = w
  BY ThreadsTask DEF ThreadsAgree
<1>2. /\ DOMAIN jobs' = DOMAIN jobs
      /\ \A k \in DOMAIN jobs : DOMAIN jobs'[k].segments = DOMAIN jobs[k].segments
      /\ jobs'[t[1]].segments[t[2]] = result
      /\ \A k \in DOMAIN jobs : \A u \in DOMAIN jobs[k].segments :
            k # t[1] \/ u # t[2] => jobs'[k].segments[u] = jobs[k].segments[u]
  BY <1>1, UpdateFrame
<1>3. /\ SegmentState(t)' = result
      /\ \A u \in Task : Exists(u) /\ u # t => SegmentState(u)' = SegmentState(u)
  BY <1>1, <1>2, TaskParts DEF SegmentState, Exists
<1>4. UNCHANGED <<executor, queue, future, hand>>
  BY DEF poolVars
<1>5. /\ wpc'[w] = pc /\ wstage'[w] = st
      /\ \A v \in Worker : v # w => wpc'[v] = wpc[v] /\ wstage'[v] = wstage[v]
  BY DEF Goto, ServiceTypes
<1>6. ServiceTypes'
  BY DEF ServiceTypes, Goto, WorkerPc, handlerVars, Keys
<1>7. FuturesHaveSegments'
  BY <1>2, <1>4 DEF FuturesHaveSegments
<1>8. WaitingIsPending'
  <2>1. \A u \in Task : future[u] \in {"pending", "cancelled"} => Exists(u) /\ u # t
    BY <1>1 DEF FuturesHaveSegments, Exists
  <2> QED
    BY <1>3, <1>4, <2>1 DEF WaitingIsPending
<1>9. ThreadsAgree'
  <2> SUFFICES ASSUME NEW v \in Worker PROVE
         /\ wpc'[v] = "idle" <=> hand'[v] = NoTask
         /\ wpc'[v] = "claimed" => future'[hand'[v]] \in {"pending", "cancelled"}
         /\ wpc'[v] \notin {"idle", "claimed"} => future'[hand'[v]] = "running"
         /\ wpc'[v] = "started" => SegmentState(hand[v])' = Pending
         /\ wpc'[v] \in InCall => /\ wstage'[v] \in Stage
                                  /\ SegmentState(hand[v])' = RunningAt(wstage'[v])
    BY DEF ThreadsAgree
  <2>1. CASE v = w
    <3>1. SegmentState(hand[v])' = result
      BY <1>1, <1>3, <1>4, <2>1 DEF SegmentState
    <3>2. hand'[v] = t /\ t # NoTask
      BY <1>1, <1>4, <2>1, PoolAssumption
    <3>3. wpc'[v] = pc /\ wstage'[v] = st
      BY <1>5, <2>1
    <3> QED
      BY <1>1, <1>4, <3>1, <3>2, <3>3 DEF InCall
  <2>2. CASE v # w
    <3>1. wpc'[v] = wpc[v] /\ wstage'[v] = wstage[v] /\ hand'[v] = hand[v]
      BY <1>4, <1>5, <2>2
    <3>2. wpc[v] # "idle" => SegmentState(hand[v])' = SegmentState(hand[v])
      <4>1. wpc[v] # "idle" => hand[v] \in Task /\ Exists(hand[v]) /\ hand[v] # t
        BY <1>1, <2>2, ThreadsTask
      <4>2. SegmentState(hand[v])' = jobs'[hand[v][1]].segments[hand[v][2]]
        BY <3>1 DEF SegmentState
      <4> QED
        BY <1>2, <1>1, <4>1, <4>2, TaskParts DEF SegmentState, Exists
    <3> QED
      BY <1>4, <3>1, <3>2 DEF ThreadsAgree, InCall
  <2> QED
    BY <2>1, <2>2
<1>10. RunningHasAThread'
  <2> SUFFICES ASSUME NEW j \in DOMAIN jobs', NEW s \in DOMAIN jobs'[j].segments,
                      jobs'[j].segments[s].status = "running"
               PROVE  \E v \in Worker : hand'[v] = <<j, s>> /\ wpc'[v] \in InCall
    BY DEF RunningHasAThread
  <2>1. CASE j = t[1] /\ s = t[2]
    BY <1>1, <1>2, <1>4, <1>5, <2>1 DEF InCall
  <2>2. CASE ~ (j = t[1] /\ s = t[2])
    <3>0. j \in DOMAIN jobs /\ s \in DOMAIN jobs[j].segments
          /\ jobs[j].segments[s].status = "running"
      BY <1>2, <2>2
    <3>1. PICK v \in Worker : hand[v] = <<j, s>> /\ wpc[v] \in InCall
      BY <3>0 DEF RunningHasAThread
    <3>2. v # w
      BY <1>1, <2>2, <3>1
    <3> QED
      BY <1>4, <1>5, <3>1, <3>2
  <2> QED
    BY <2>1, <2>2
<1>11. HandlerAgrees'
  <2>1. \A u \in Task : Exists(u) /\ future[u] \in {"none", "cancelled"} =>
           future'[u] = future[u] /\ SegmentState(u)' = SegmentState(u)
    BY <1>1, <1>3, <1>4
  <2> QED
    BY <1>2, <1>4, <2>1, HandlerKept
<1> QED
  BY <1>6, <1>7, <1>8, <1>9, <1>10, <1>11

(* The results the threads write, and that each follows from the last one. *)
LEMMA EnterPipelineWrites ==
    ASSUME IInv, NEW w \in Worker, EnterPipeline(w)
    PROVE  /\ ServiceTypes' /\ Bridge'
           /\ RunningAt(FirstStage) \in SegmentResult
           /\ StepSegment(JobOf(w), SegmentOf(w), RunningAt(FirstStage))
<1>1. FirstStage \in Stage
  BY StageAssumption DEF FirstStage, Stage
<1>2. wpc[w] = "started" /\ jobs[JobOf(w)].segments[SegmentOf(w)] = Pending
  BY DEF EnterPipeline, IInv, Bridge, ThreadsAgree, SegmentState, JobOf, SegmentOf
<1>3. ServiceTypes' /\ Bridge'
  BY <1>1, <1>2, ThreadWrites, ResultTypes DEF EnterPipeline, SetStage
<1> QED
  BY <1>1, <1>2, <1>3, ResultTypes DEF StepSegment, Follows, EnterPipeline, SetStage

LEMMA EnterNextStageWrites ==
    ASSUME IInv, NEW w \in Worker, EnterNextStage(w)
    PROVE  /\ ServiceTypes' /\ Bridge'
           /\ RunningAt(wstage[w] + 1) \in SegmentResult
           /\ StepSegment(JobOf(w), SegmentOf(w), RunningAt(wstage[w] + 1))
<1>1. /\ wpc[w] = "calling" /\ wstage[w] \in Stage /\ wstage[w] < LastStage
      /\ jobs[JobOf(w)].segments[SegmentOf(w)] = RunningAt(wstage[w])
  BY DEF EnterNextStage, IInv, Bridge, ThreadsAgree, InCall, SegmentState,
         JobOf, SegmentOf
<1>2. wstage[w] + 1 \in Stage
  BY <1>1, StageAssumption DEF FirstStage, Stage
<1>3. ServiceTypes' /\ Bridge'
  BY <1>1, <1>2, ThreadWrites, ResultTypes DEF EnterNextStage, SetStage
<1> QED
  BY <1>1, <1>2, <1>3, ResultTypes DEF StepSegment, Follows, EnterNextStage, SetStage

LEMMA SucceedWrites ==
    ASSUME IInv, NEW w \in Worker, Succeed(w)
    PROVE  /\ ServiceTypes' /\ Bridge'
           /\ Succeeded \in SegmentResult
           /\ StepSegment(JobOf(w), SegmentOf(w), Succeeded)
<1>1. /\ wpc[w] = "calling" /\ wstage[w] \in Stage /\ wstage[w] = LastStage
      /\ jobs[JobOf(w)].segments[SegmentOf(w)] = RunningAt(wstage[w])
  BY DEF Succeed, IInv, Bridge, ThreadsAgree, InCall, SegmentState, JobOf, SegmentOf
<1>2. Succeeded.status # "running"
  BY DEF Succeeded, Result
<1>3. ServiceTypes' /\ Bridge'
  <2>1. CASE Closes(JobOf(w), SegmentOf(w), Succeeded)
    BY <1>1, <1>2, <2>1, ThreadWrites, ResultTypes DEF Succeed, Record
  <2>2. CASE ~ Closes(JobOf(w), SegmentOf(w), Succeeded)
    BY <1>1, <1>2, <2>2, ThreadWrites, ResultTypes DEF Succeed, Record
  <2> QED
    BY <2>1, <2>2
<1> QED
  BY <1>1, <1>3, ResultTypes DEF StepSegment, Follows, Succeed, Record

LEMMA RecordFailureWrites ==
    ASSUME IInv, NEW w \in Worker, RecordFailure(w)
    PROVE  /\ ServiceTypes' /\ Bridge'
           /\ FailedAt(wstage[w]) \in SegmentResult
           /\ StepSegment(JobOf(w), SegmentOf(w), FailedAt(wstage[w]))
<1>1. /\ wpc[w] = "raised" /\ wstage[w] \in Stage
      /\ jobs[JobOf(w)].segments[SegmentOf(w)] = RunningAt(wstage[w])
  BY DEF RecordFailure, IInv, Bridge, ThreadsAgree, InCall, SegmentState,
         JobOf, SegmentOf
<1>2. FailedAt(wstage[w]).status # "running" /\ FailedAt(wstage[w]) \in SegmentResult
  BY <1>1, ResultTypes DEF FailedAt, Result
<1>3. ServiceTypes' /\ Bridge'
  <2>1. CASE Closes(JobOf(w), SegmentOf(w), FailedAt(wstage[w]))
    BY <1>1, <1>2, <2>1, ThreadWrites DEF RecordFailure, Record
  <2>2. CASE ~ Closes(JobOf(w), SegmentOf(w), FailedAt(wstage[w]))
    BY <1>1, <1>2, <2>2, ThreadWrites DEF RecordFailure, Record
  <2> QED
    BY <2>1, <2>2
<1> QED
  BY <1>1, <1>2, <1>3 DEF StepSegment, Follows, RecordFailure, Record

LEMMA RaiseInv ==
    ASSUME IInv, NEW w \in Worker, Raise(w) PROVE ServiceTypes' /\ Bridge'
<1> USE DEF IInv, Bridge
<1>1. /\ wpc[w] = "calling" /\ wstage[w] \in Stage
      /\ jobs[JobOf(w)].segments[SegmentOf(w)] = RunningAt(wstage[w])
  BY DEF Raise, ThreadsAgree, InCall, SegmentState, JobOf, SegmentOf
<1>2. RunningAt(wstage[w]).current_stage = wstage[w]
  BY DEF RunningAt, Result
<1>3. /\ wpc' = [wpc EXCEPT ![w] = "raised"] /\ wstage' = wstage
      /\ UNCHANGED <<storeVars, poolVars, handlerVars, finishedLog>>
  BY <1>1, <1>2 DEF Raise, Goto, ServiceTypes
<1>4. wpc'[w] = "raised" /\ \A v \in Worker : v # w => wpc'[v] = wpc[v]
  BY <1>3 DEF ServiceTypes
<1>5. UNCHANGED <<jobs, future, hand>> /\ \A t : SegmentState(t)' = SegmentState(t)
  BY <1>3 DEF storeVars, poolVars, SegmentState
<1>6. ServiceTypes'
  BY <1>3 DEF ServiceTypes, WorkerPc, handlerVars, Keys
<1>7. FuturesHaveSegments' /\ WaitingIsPending'
  BY <1>5 DEF FuturesHaveSegments, WaitingIsPending
<1>8. ThreadsAgree'
  BY <1>1, <1>3, <1>4, <1>5 DEF ThreadsAgree, InCall
<1>9. RunningHasAThread'
  BY <1>4, <1>5, RunningKept DEF InCall
<1>10. HandlerAgrees'
  BY <1>3, <1>5, HandlerKept
<1> QED
  BY <1>6, <1>7, <1>8, <1>9, <1>10

LEMMA WorkerLogsInv ==
    ASSUME IInv, NEW w \in Worker, WorkerLogs(w) PROVE ServiceTypes' /\ Bridge'
<1> USE DEF IInv, Bridge
<1>1. /\ wpc[w] = "closing" /\ wpc' = [wpc EXCEPT ![w] = "done"]
      /\ LogFinished(JobOf(w))
      /\ UNCHANGED <<storeVars, poolVars, handlerVars, wstage>>
  BY DEF WorkerLogs, Goto
<1>2. wpc'[w] = "done" /\ \A v \in Worker : v # w => wpc'[v] = wpc[v]
  BY <1>1 DEF ServiceTypes
<1>3. UNCHANGED <<jobs, future, hand>> /\ \A t : SegmentState(t)' = SegmentState(t)
  BY <1>1 DEF storeVars, poolVars, SegmentState
<1>4. finishedLog' \in [JobId -> Seq(JobStatus)]
  BY <1>1, ThreadsTask, LogTypes
<1>5. ServiceTypes'
  BY <1>1, <1>4 DEF ServiceTypes, WorkerPc, handlerVars, Keys
<1>6. FuturesHaveSegments' /\ WaitingIsPending'
  BY <1>3 DEF FuturesHaveSegments, WaitingIsPending
<1>7. ThreadsAgree'
  BY <1>1, <1>2, <1>3 DEF ThreadsAgree, InCall
<1>8. RunningHasAThread'
  BY <1>1, <1>2, <1>3, RunningKept DEF InCall
<1>9. HandlerAgrees'
  BY <1>1, <1>3, HandlerKept
<1> QED
  BY <1>5, <1>6, <1>7, <1>8, <1>9

LEMMA ReturnsInv ==
    ASSUME IInv, NEW w \in Worker, WorkerReturns(w) PROVE ServiceTypes' /\ Bridge'
<1> USE DEF IInv, Bridge
<1>1. wpc[w] = "done"
  BY DEF WorkerReturns
<1>2. PICK t \in Task :
         /\ hand[w] = t /\ Exists(t) /\ \A v \in Worker : hand[v] = t => v = w
         /\ future[t] = "running" /\ future' = [future EXCEPT ![t] = "finished"]
         /\ hand' = [hand EXCEPT ![w] = NoTask] /\ wpc' = [wpc EXCEPT ![w] = "idle"]
         /\ UNCHANGED <<jobs, active, wstage, finishedLog, handlerVars>>
  BY <1>1, ThreadsTask DEF WorkerReturns, FinishRun, Goto, storeVars
<1>3. /\ future'[t] = "finished"
      /\ \A u \in Task : u # t => future'[u] = future[u]
  BY <1>2 DEF PoolInv, PoolTypeOK
<1>4. /\ wpc'[w] = "idle" /\ hand'[w] = NoTask
      /\ \A v \in Worker : v # w => wpc'[v] = wpc[v] /\ hand'[v] = hand[v]
  BY <1>2 DEF ServiceTypes, PoolInv, PoolTypeOK
<1>5. \A u : SegmentState(u)' = SegmentState(u)
  BY <1>2 DEF SegmentState
<1>6. ServiceTypes'
  BY <1>2 DEF ServiceTypes, WorkerPc, handlerVars, Keys
<1>7. FuturesHaveSegments'
  BY <1>2, <1>3 DEF FuturesHaveSegments, Exists
<1>8. WaitingIsPending'
  BY <1>3, <1>5 DEF WaitingIsPending
<1>9. ThreadsAgree'
  <2>1. \A v \in Worker : v # w /\ wpc[v] # "idle" => hand[v] \in Task /\ hand[v] # t
    BY <1>2, ThreadsTask
  <2> QED
    BY <1>2, <1>3, <1>4, <1>5, <2>1 DEF ThreadsAgree, InCall
<1>10. RunningHasAThread'
  <2>1. \A v \in Worker : wpc[v] \in InCall => v # w
    BY <1>1 DEF InCall
  <2> QED
    BY <1>2, <1>4, <2>1, RunningKept
<1>11. HandlerAgrees'
  BY <1>2, <1>3, <1>5, HandlerKept
<1> QED
  BY <1>6, <1>7, <1>8, <1>9, <1>10, <1>11

-----------------------------------------------------------------------------
(* The stop of the pool touches the service only through the futures it    *)
(* cancels: those of queued tasks, whose segments are pending.             *)
LEMMA StopsInv ==
    ASSUME IInv, BeginShutdown \/ ContinueShutdown PROVE ServiceTypes' /\ Bridge'
<1> USE DEF IInv, Bridge
<1>1. UNCHANGED <<jobs, hand, wpc, wstage, finishedLog, handlerVars>>
  BY DEF BeginShutdown, ContinueShutdown, ShutdownExecutor, DrainOne, DrainDone,
         DropExecutor, storeVars, workerVars
<1>2. \A u : SegmentState(u)' = SegmentState(u)
  BY <1>1 DEF SegmentState
<1>3. ServiceTypes'
  BY <1>1 DEF ServiceTypes, handlerVars, Keys
<1>4. RunningHasAThread'
  BY <1>1, RunningKept
<1>5. CASE DrainOne
  <2>1. PICK t \in Task : t \in Items(queue) /\ future' = [future EXCEPT ![t] = "cancelled"]
    BY <1>5, QueueTail DEF DrainOne, PoolInv, PoolTypeOK
  <2>2. /\ \A w \in Worker : hand[w] # t
        /\ future[t] \in {"pending", "cancelled"}
    <3>1. \A w \in Worker : hand[w] # t
      BY <2>1, AsSets, PoolAssumption DEF HeldOrQueuedOnce, PoolInv
    <3>2. future[t] \in FutureState /\ future[t] \notin {"none", "finished", "running"}
      BY <2>1, <3>1, AsSets DEF HeldOrQueuedOnce, PoolInv, PoolTypeOK
    <3> QED
      BY <3>1, <3>2 DEF FutureState
  <2>3. /\ future'[t] = "cancelled"
        /\ \A u \in Task : u # t => future'[u] = future[u]
    BY <2>1 DEF PoolInv, PoolTypeOK
  <2>4. FuturesHaveSegments'
    BY <1>1, <2>2, <2>3 DEF FuturesHaveSegments
  <2>5. WaitingIsPending'
    BY <1>2, <2>2, <2>3 DEF WaitingIsPending
  <2>6. ThreadsAgree'
    <3>1. \A w \in Worker : wpc[w] # "idle" => hand[w] \in Task /\ hand[w] # t
      BY <2>2, ThreadsTask
    <3> QED
      BY <1>1, <1>2, <2>3, <3>1 DEF ThreadsAgree, InCall
  <2>7. HandlerAgrees'
    <3>1. /\ UNCHANGED <<hpc, hreq, hjob, hpos, stranded, jobs>> /\ Keys' = Keys
          /\ \A i : TaskAt(i)' = TaskAt(i)
      BY <1>1 DEF handlerVars, Keys, TaskAt
    <3>2. \A u \in Task : future[u] \in {"none", "cancelled"} => future'[u] = future[u]
      BY <2>2, <2>3
    <3>3. \A u \in Task : future'[u] = "cancelled" =>
             future[u] = "cancelled" \/ SegmentState(u) = Pending
      BY <2>2, <2>3 DEF WaitingIsPending
    <3>4. hpc \in InSubmit => \A i \in 1 .. Len(Keys) : TaskAt(i) \in Task
      BY HandlersJob
    <3>5. \A i \in stranded : Untouched(i)'
      BY <1>2, <3>1, <3>2, <3>4
         DEF HandlerAgrees, Untouched, ServiceTypes, HandlerPc, InSubmit
    <3>6. hpc = "scheduling" =>
             \A i \in hpos .. Len(Keys) : future'[TaskAt(i)] = "none" /\ Untouched(i)'
      <4>1. \A i \in hpos .. Len(Keys) : i \in 1 .. Len(Keys)
        BY KeysFacts DEF ServiceTypes
      <4> QED
        BY <1>2, <3>1, <3>2, <3>4, <4>1 DEF HandlerAgrees, Untouched, InSubmit
    <3> QED
      BY <1>2, <3>1, <3>3, <3>5, <3>6 DEF HandlerAgrees, InSubmit
  <2> QED
    BY <1>3, <1>4, <2>4, <2>5, <2>6, <2>7
<1>6. CASE UNCHANGED future
  <2>1. FuturesHaveSegments' /\ WaitingIsPending' /\ ThreadsAgree'
    BY <1>1, <1>2, <1>6 DEF FuturesHaveSegments, WaitingIsPending, ThreadsAgree
  <2>2. HandlerAgrees'
    BY <1>1, <1>2, <1>6, HandlerKept
  <2> QED
    BY <1>3, <1>4, <2>1, <2>2
<1> QED
  BY <1>5, <1>6 DEF BeginShutdown, ContinueShutdown, ShutdownExecutor, DrainDone,
                    DropExecutor

-----------------------------------------------------------------------------
(* Every step of the service is a step of the store's callers, and of the  *)
(* pool, or leaves them alone.                                             *)
LEMMA StoreSteps == IInv /\ [Next]_vars => [StoreNext]_storeVars
<1> SUFFICES ASSUME IInv, [Next]_vars PROVE [StoreNext]_storeVars
  OBVIOUS
<1>1. ASSUME NEW j \in JobId, Create(j) \/ Join(j) PROVE StoreNext
  BY <1>1 DEF Create, Join, StoreNext, IInv, ServiceTypes
<1>2. ASSUME FailNext PROVE StoreNext
  <2>1. PICK i \in stranded : UpdateSegment(hjob, Keys[i], NotScheduled)
    BY <1>2 DEF FailNext
  <2>2. i \in 1 .. Len(Keys) /\ hpc \in InSubmit
    BY <1>2 DEF FailNext, IInv, ServiceTypes, InSubmit
  <2>3. /\ hjob \in DOMAIN jobs /\ Keys[i] \in DOMAIN jobs[hjob].segments
        /\ jobs[hjob].segments[Keys[i]] = Pending
    BY <2>2, HandlersJob
       DEF IInv, Bridge, HandlerAgrees, Untouched, SegmentState
  <2>4. StepSegment(hjob, Keys[i], NotScheduled)
    BY <2>1, <2>3 DEF StepSegment, Follows
  <2> QED
    BY <2>3, <2>4, ResultTypes DEF StoreNext
<1>3. ASSUME NEW w \in Worker, WorkerNext(w) PROVE [StoreNext]_storeVars
  <2>1. ASSUME NEW result \in SegmentResult, wpc[w] # "idle",
               StepSegment(JobOf(w), SegmentOf(w), result)
        PROVE  StoreNext
    BY <2>1, ThreadsTask DEF StoreNext
  <2>2. CASE EnterPipeline(w)
    BY <2>1, <2>2, EnterPipelineWrites DEF EnterPipeline
  <2>3. CASE EnterNextStage(w)
    BY <2>1, <2>3, EnterNextStageWrites DEF EnterNextStage
  <2>4. CASE Succeed(w)
    BY <2>1, <2>4, SucceedWrites DEF Succeed
  <2>5. CASE RecordFailure(w)
    BY <2>1, <2>5, RecordFailureWrites DEF RecordFailure
  <2>6. CASE \/ WorkerClaims(w) \/ WorkerDrops(w) \/ WorkerStarts(w)
             \/ Raise(w) \/ WorkerLogs(w) \/ WorkerReturns(w)
    BY <2>6 DEF WorkerClaims, WorkerDrops, WorkerStarts, Raise, WorkerLogs,
                WorkerReturns
  <2> QED
    BY <1>3, <2>2, <2>3, <2>4, <2>5, <2>6 DEF WorkerNext
<1>4. ASSUME \/ \E r \in Request : Receive(r)
             \/ ScheduleNext \/ Accept \/ ScheduleRaises \/ CancelNext
             \/ CancelDone \/ HandlerLogs \/ Reject
             \/ BeginShutdown \/ ContinueShutdown \/ UNCHANGED vars
      PROVE  UNCHANGED storeVars
  BY <1>4 DEF Receive, ReadExecutor, RefuseEarly, ScheduleNext, Accept, ScheduleRaises,
              CancelNext, CancelDone, HandlerLogs, Reject, BeginShutdown,
              ContinueShutdown, vars
<1> QED
  BY <1>1, <1>2, <1>3, <1>4 DEF Next, HandlerStep

LEMMA PoolSteps == IInv /\ [Next]_vars => [PoolNext]_poolVars
<1> SUFFICES ASSUME IInv, [Next]_vars PROVE [PoolNext]_poolVars
  OBVIOUS
<1>1. CASE ScheduleNext
  <2>1. TaskAt(hpos) \in Task
    BY <1>1, HandlersJob DEF ScheduleNext, InSubmit, IInv, ServiceTypes
  <2>2. future[TaskAt(hpos)] = "none"
    <3>1. ServiceTypes /\ hpc = "scheduling" /\ hpos <= Len(Keys)
      BY <1>1 DEF IInv, ScheduleNext
    <3>2. hpos \in hpos .. Len(Keys)
      BY <3>1, KeysFacts DEF ServiceTypes
    <3> QED
      BY <3>1, <3>2 DEF IInv, Bridge, HandlerAgrees
  <2> QED
    BY <1>1, <2>1, <2>2 DEF ScheduleNext, SubmitOnce, PoolNext
<1>2. CASE CancelNext
  <2>1. hpos \in 1 .. Len(Keys) /\ hpc \in InSubmit
    BY <1>2 DEF CancelNext, IInv, ServiceTypes, Bridge, HandlerAgrees, InSubmit
  <2> QED
    BY <1>2, <2>1, HandlersJob DEF CancelNext, PoolNext
<1>3. ASSUME NEW w \in Worker, WorkerNext(w) PROVE [PoolNext]_poolVars
  BY <1>3 DEF WorkerNext, PoolNext, WorkerStep, WorkerClaims, WorkerDrops,
     WorkerStarts, EnterPipeline, EnterNextStage, SetStage, Succeed, Record,
     Raise, RecordFailure, WorkerLogs, WorkerReturns
<1>4. CASE BeginShutdown \/ ContinueShutdown
  BY <1>4 DEF BeginShutdown, ContinueShutdown, PoolNext, Stopping
<1>5. ASSUME \/ \E r \in Request : Receive(r)
             \/ \E j \in JobId : Create(j) \/ Join(j)
             \/ Accept \/ ScheduleRaises \/ CancelDone \/ FailNext
             \/ HandlerLogs \/ Reject \/ UNCHANGED vars
      PROVE  UNCHANGED poolVars
  BY <1>5 DEF Receive, ReadExecutor, RefuseEarly, Create, Join, Accept, ScheduleRaises,
              CancelDone, FailNext, HandlerLogs, Reject, vars
<1> QED
  BY <1>1, <1>2, <1>3, <1>4, <1>5 DEF Next, HandlerStep

LEMMA StepInv == IInv /\ [Next]_vars => IInv'
<1> SUFFICES ASSUME IInv, [Next]_vars PROVE IInv'
  OBVIOUS
<1>1. StoreInv'
  BY StoreSteps, StoreStepInv DEF IInv
<1>2. PoolInv'
  BY PoolSteps, PoolStepInv DEF IInv
<1>3. ServiceTypes' /\ Bridge'
  <2>1. ASSUME NEW r \in Request, Receive(r)
        PROVE  ServiceTypes' /\ Bridge'
    BY <2>1, ReadExecutorInv, RefuseEarlyInv DEF Receive
  <2>2. CASE HandlerStep
    BY <2>2, CreateInv, JoinInv, ScheduleNextInv, AcceptInv, ScheduleRaisesInv,
       CancelNextInv, CancelDoneInv, FailNextInv, HandlerLogsInv, RejectInv
       DEF HandlerStep
  <2>3. ASSUME NEW w \in Worker, WorkerNext(w) PROVE ServiceTypes' /\ Bridge'
    BY <2>3, ClaimsInv, DropsInv, StartsInv, EnterPipelineWrites,
       EnterNextStageWrites, SucceedWrites, RaiseInv, RecordFailureWrites,
       WorkerLogsInv, ReturnsInv DEF WorkerNext
  <2>4. CASE BeginShutdown \/ ContinueShutdown
    BY <2>4, StopsInv
  <2>5. CASE UNCHANGED vars
    <3>1. UNCHANGED <<storeVars, poolVars, workerVars, handlerVars, finishedLog>>
      BY <2>5 DEF vars
    <3>2. ServiceTypes'
      BY <3>1 DEF IInv, ServiceTypes, workerVars, handlerVars, Keys
    <3>3. /\ UNCHANGED <<jobs, future>>
          /\ \A t : SegmentState(t)' = SegmentState(t)
      BY <3>1 DEF storeVars, poolVars, SegmentState
    <3>4. HandlerAgrees'
      BY <3>1, <3>3, HandlerKept
    <3> QED
      BY <3>1, <3>2, <3>4, ThreadsKept DEF IInv, Bridge
  <2> QED
    BY <2>1, <2>2, <2>3, <2>4, <2>5 DEF Next
<1> QED
  BY <1>1, <1>2, <1>3 DEF IInv

(* The store, the pool, the handler and the threads always agree about     *)
(* every segment.                                                          *)
THEOREM Inductive == Spec => []IInv
  BY InitInv, StepInv, PTL DEF Spec

-----------------------------------------------------------------------------
(* The variables of the whole service have their types.                    *)
THEOREM ServiceTypeOK == Spec => []TypeOK
<1>1. IInv => TypeOK
  BY DEF IInv, StoreInv, PoolInv, ServiceTypes, TypeOK
<1> QED
  BY <1>1, Inductive, PTL

(* The service writes segments only as the store's callers may.            *)
THEOREM ServiceRefinesStore == Spec => StoreSpec
  BY Inductive, StoreSteps, PTL DEF Spec, StoreSpec, Init

(* So the dedup index holds exactly the open jobs, under every             *)
(* interleaving of the handler, the threads and a stop of the pool.        *)
THEOREM ServiceIndex == Spec => []IndexIsTheOpenJobs
  BY ServiceRefinesStore, StoreIndex, PTL

(* A finished job never changes again.                                     *)
THEOREM ServiceFrozen == Spec => FinishedJobsAreFrozen
  BY ServiceRefinesStore, StoreFrozen, PTL

(* Segments only advance, and none is forgotten.                           *)
THEOREM ServiceAdvances == Spec => SegmentsOnlyAdvance
  BY ServiceRefinesStore, StoreAdvances, PTL

(* No segment is ever run by two threads.                                  *)
THEOREM ServiceRunsOnce == Spec => []OneThreadPerTask
  BY Inductive, PTL DEF IInv, PoolInv

(* The stage the store shows is the stage the thread is in, so failed_stage*)
(* is the stage whose call raised.                                         *)
THEOREM ServiceStages == Spec => []StoreShowsTheThreads
<1>1. IInv => StoreShowsTheThreads
  BY DEF IInv, Bridge, ThreadsAgree, RunningHasAThread, InCall, StoreShowsTheThreads
<1> QED
  BY <1>1, Inductive, PTL
=============================================================================
