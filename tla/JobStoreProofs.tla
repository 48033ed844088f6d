--------------------------- MODULE JobStoreProofs ---------------------------
(***************************************************************************)
(* What holds of the job store for any number of jobs, segments, requests  *)
(* and stages, if its callers write the life cycle of a segment            *)
(* (StoreSpec).                                                            *)
(***************************************************************************)
EXTENDS JobStore, FiniteSetTheorems, TLAPS

(* derive_job_status reports a terminal status exactly when no segment is  *)
(* pending or running (state.py:19).                                       *)
LEMMA TerminalStatuses ==
    ASSUME NEW S \in SUBSET SegmentStatus, S # {}
    PROVE  /\ DeriveJobStatus(S) \in JobStatus
           /\ DeriveJobStatus(S) \in TerminalStatus <=> S \cap OpenStatus = {}
<1>1. CASE S = {"pending"}
  BY <1>1 DEF DeriveJobStatus, JobStatus, TerminalStatus, OpenStatus
<1>2. CASE S # {"pending"} /\ S \cap OpenStatus # {}
  <2>1. S # {"success"} /\ S # {"failed"} /\ S # {"success", "failed"}
    BY <1>2 DEF OpenStatus
  <2>2. DeriveJobStatus(S) = "running"
    BY <1>2, <2>1 DEF DeriveJobStatus
  <2> QED
    BY <1>2, <2>2 DEF JobStatus, TerminalStatus
<1>3. CASE S \cap OpenStatus = {}
  <2>1. S \subseteq {"success", "failed"}
    BY <1>3 DEF SegmentStatus, OpenStatus
  <2>2. S = {"success"} \/ S = {"failed"} \/ S = {"success", "failed"}
    BY <2>1
  <2>3. S # {"pending"}
    BY <2>1
  <2>4. {"success"} # {"failed"} /\ {"success"} # {"success", "failed"}
        /\ {"failed"} # {"success", "failed"}
    OBVIOUS
  <2> QED
    BY <1>3, <2>2, <2>3, <2>4 DEF DeriveJobStatus, JobStatus, TerminalStatus
<1> QED
  BY <1>1, <1>2, <1>3

LEMMA JobTerminal ==
    ASSUME NEW job \in Job
    PROVE  /\ Status(job) \in JobStatus
           /\ IsTerminal(job) <=>
                \A s \in DOMAIN job.segments : job.segments[s].status \notin OpenStatus
<1>1. PICK D \in (SUBSET Segment) \ {{}} : job.segments \in [D -> SegmentResult]
  BY DEF Job
<1>2. DOMAIN job.segments = D /\ D # {}
  BY <1>1
<1>3. \A s \in D : job.segments[s].status \in SegmentStatus
  BY <1>1 DEF SegmentResult
<1>4. Statuses(job) \in SUBSET SegmentStatus
  BY <1>2, <1>3 DEF Statuses
<1>5. Statuses(job) # {}
  BY <1>2 DEF Statuses
<1>6. Statuses(job) \cap OpenStatus = {} <=>
         \A s \in DOMAIN job.segments : job.segments[s].status \notin OpenStatus
  BY DEF Statuses
<1> QED
  BY <1>4, <1>5, <1>6, TerminalStatuses DEF IsTerminal, Status

LEMMA ResultTypes ==
    /\ Pending \in SegmentResult
    /\ NotScheduled \in SegmentResult
    /\ Succeeded \in SegmentResult
    /\ \A st \in Stage : RunningAt(st) \in SegmentResult /\ FailedAt(st) \in SegmentResult
  BY DEF Pending, NotScheduled, Succeeded, RunningAt, FailedAt, Result,
         SegmentResult, SegmentStatus, Error

(* A candidate job is well-typed and open.                                 *)
LEMMA NewJobType ==
    ASSUME NEW r \in Request
    PROVE  NewJob(r) \in Job /\ ~ IsTerminal(NewJob(r))
<1>0. SegmentsOf[r] \in Seq(Segment) /\ SegmentsOf[r] # << >>
  BY RequestAssumption
<1>1. Elements(SegmentsOf[r]) \in (SUBSET Segment) \ {{}}
  <2>1. DOMAIN SegmentsOf[r] = 1 .. Len(SegmentsOf[r]) /\ 1 \in DOMAIN SegmentsOf[r]
    BY <1>0
  <2>2. \A i \in DOMAIN SegmentsOf[r] : SegmentsOf[r][i] \in Segment
    BY <1>0, <2>1
  <2>3. SegmentsOf[r][1] \in Elements(SegmentsOf[r])
    BY <2>1 DEF Elements
  <2> QED
    BY <2>2, <2>3 DEF Elements
<1>2. NewJob(r).segments \in [Elements(SegmentsOf[r]) -> SegmentResult]
  BY ResultTypes DEF NewJob
<1>3. NewJob(r) \in Job
  BY <1>1, <1>2 DEF NewJob, Job, DedupKey
<1>4. PICK s \in Elements(SegmentsOf[r]) : TRUE
  BY <1>1
<1>5. NewJob(r).segments[s].status \in OpenStatus /\ s \in DOMAIN NewJob(r).segments
  BY <1>4 DEF NewJob, Pending, Result, OpenStatus
<1> QED
  BY <1>3, <1>5, JobTerminal

LEMMA UpdatedType ==
    ASSUME NEW job \in Job, NEW s \in DOMAIN job.segments,
           NEW result \in SegmentResult
    PROVE  /\ Updated(job, s, result) \in Job
           /\ Updated(job, s, result).key = job.key
           /\ DOMAIN Updated(job, s, result).segments = DOMAIN job.segments
           /\ Updated(job, s, result).segments[s] = result
           /\ \A u \in DOMAIN job.segments :
                 u # s => Updated(job, s, result).segments[u] = job.segments[u]
  BY DEF Updated, Job

(* The life cycle only leaves open results, and only goes forward.         *)
LEMMA FollowsAdvances ==
    ASSUME NEW old \in SegmentResult, NEW new \in SegmentResult, Follows(old, new)
    PROVE  /\ old.status \in OpenStatus
           /\ new.status # "pending"
           /\ Progress(new) > Progress(old)
           /\ Progress(new) \in Nat /\ Progress(old) \in Nat
<1> USE StageAssumption DEF Stage, FirstStage
<1>1. CASE old = Pending /\ new \in {RunningAt(FirstStage), NotScheduled}
  BY <1>1 DEF Pending, RunningAt, NotScheduled, Result, OpenStatus, Progress
<1>2. ASSUME NEW st \in Stage, old = RunningAt(st),
             \/ st < LastStage /\ new = RunningAt(st + 1)
             \/ st = LastStage /\ new = Succeeded
             \/ new = FailedAt(st)
      PROVE  /\ old.status \in OpenStatus
             /\ new.status # "pending"
             /\ Progress(new) > Progress(old)
             /\ Progress(new) \in Nat /\ Progress(old) \in Nat
  BY <1>2 DEF RunningAt, Succeeded, FailedAt, Result, OpenStatus, Progress
<1> QED
  BY <1>1, <1>2 DEF Follows
-----------------------------------------------------------------------------
StoreInv == StoreTypeOK /\ IndexIsTheOpenJobs

LEMMA StoreInitInv == StoreInit => StoreInv
<1> SUFFICES ASSUME StoreInit PROVE StoreInv
  OBVIOUS
<1>1. jobs = EmptyDict /\ active = EmptyDict /\ DOMAIN jobs = {} /\ DOMAIN active = {}
  BY DEF StoreInit, EmptyDict
<1>2. StoreTypeOK
  BY <1>1 DEF StoreTypeOK
<1>3. OpenJobs = {}
  BY <1>1 DEF OpenJobs
<1>4. DOMAIN active = {jobs[j].key : j \in OpenJobs}
  BY <1>1, <1>3
<1> QED
  BY <1>2, <1>3, <1>4 DEF StoreInv, IndexIsTheOpenJobs

(* Creating a job: its key was free, so the entry it adds is the only one  *)
(* under that key.                                                         *)
LEMMA CreateJobInv ==
    ASSUME StoreInv, NEW r \in Request, NEW j \in JobId, CreateJob(r, j)
    PROVE  StoreInv'
<1> USE DEF StoreInv
<1>1. /\ jobs' = [k \in DOMAIN jobs \cup {j} |-> IF k = j THEN NewJob(r) ELSE jobs[k]]
      /\ active' = [k \in DOMAIN active \cup {KeyOf[r]} |->
                       IF k = KeyOf[r] THEN j ELSE active[k]]
      /\ j \notin DOMAIN jobs /\ KeyOf[r] \notin DOMAIN active
  BY DEF CreateJob, Put
<1>2. NewJob(r) \in Job /\ ~ IsTerminal(NewJob(r)) /\ NewJob(r).key = KeyOf[r]
  BY NewJobType DEF NewJob
<1>3. KeyOf[r] \in DedupKey
  BY DEF DedupKey
<1>4. StoreTypeOK'
  BY <1>1, <1>2, <1>3 DEF StoreTypeOK
<1>5. OpenJobs' = OpenJobs \cup {j}
  <2>1. \A k \in DOMAIN jobs : jobs'[k] = jobs[k]
    BY <1>1
  <2> QED
    BY <1>1, <1>2, <2>1 DEF OpenJobs
<1>6. \A k \in OpenJobs : jobs'[k] = jobs[k] /\ k # j
  BY <1>1 DEF OpenJobs
<1>7. DOMAIN active' = {jobs'[k].key : k \in OpenJobs'}
  <2>1. DOMAIN active' = {jobs[k].key : k \in OpenJobs} \cup {KeyOf[r]}
    BY <1>1 DEF IndexIsTheOpenJobs
  <2>2. jobs'[j].key = KeyOf[r]
    BY <1>1, <1>2
  <2>3. {jobs'[k].key : k \in OpenJobs'} = {jobs'[k].key : k \in OpenJobs} \cup {KeyOf[r]}
    BY <1>5, <2>2
  <2>4. {jobs'[k].key : k \in OpenJobs} = {jobs[k].key : k \in OpenJobs}
    BY <1>6
  <2> QED
    BY <2>1, <2>3, <2>4
<1>8. \A k \in OpenJobs' : active'[jobs'[k].key] = k
  <2>1. active'[jobs'[j].key] = j
    BY <1>1, <1>2
  <2>2. ASSUME NEW k \in OpenJobs PROVE active'[jobs'[k].key] = k
    <3>1. jobs[k].key \in DOMAIN active /\ active[jobs[k].key] = k
      BY DEF IndexIsTheOpenJobs
    <3> QED
      BY <1>1, <1>6, <3>1
  <2> QED
    BY <1>5, <2>1, <2>2
<1> QED
  BY <1>4, <1>7, <1>8 DEF IndexIsTheOpenJobs

(* Writing one step of a life cycle: the segment was open, so its job was, *)
(* so the entry under the job's key is this job's: removing it is right.   *)
LEMMA StepSegmentInv ==
    ASSUME StoreInv, NEW j \in DOMAIN jobs, NEW s \in DOMAIN jobs[j].segments,
           NEW result \in SegmentResult, StepSegment(j, s, result)
    PROVE  StoreInv'
<1> DEFINE job == Updated(jobs[j], s, result)
<1> USE DEF StoreInv
<1>1. /\ jobs[j] \in Job
      /\ jobs[j].segments[s] \in SegmentResult
      /\ jobs[j].key \in DedupKey
  BY DEF StoreTypeOK, Job
<1>2. job \in Job /\ job.key = jobs[j].key
  BY <1>1, UpdatedType
<1>3. Follows(jobs[j].segments[s], result)
  BY DEF StepSegment
<1>4. jobs[j].segments[s].status \in OpenStatus
  BY <1>1, <1>3, FollowsAdvances
<1>5. j \in OpenJobs
  BY <1>1, <1>4, JobTerminal DEF OpenJobs
<1>6. /\ jobs' = [jobs EXCEPT ![j] = job]
      /\ active' = IF IsTerminal(job) THEN Pop(active, job.key) ELSE active
  BY DEF StepSegment, UpdateSegment
<1>7. /\ DOMAIN jobs' = DOMAIN jobs /\ jobs'[j] = job
      /\ \A k \in DOMAIN jobs : k # j => jobs'[k] = jobs[k]
  BY <1>6 DEF StoreTypeOK
<1>8. /\ jobs[j].key \in DOMAIN active
      /\ active[jobs[j].key] = j
      /\ \A k \in OpenJobs : k # j => jobs[k].key # jobs[j].key
  BY <1>5 DEF IndexIsTheOpenJobs
<1> HIDE DEF job
<1>9. CASE IsTerminal(job)
  <2>1. active' = [k \in DOMAIN active \ {jobs[j].key} |-> active[k]]
    BY <1>2, <1>6, <1>9 DEF Pop
  <2>2. StoreTypeOK'
    BY <1>2, <1>7, <1>6, <2>1 DEF StoreTypeOK
  <2>3. OpenJobs' = OpenJobs \ {j}
    BY <1>7, <1>9 DEF OpenJobs
  <2>4. \A k \in OpenJobs' : k # j /\ k \in OpenJobs /\ jobs'[k] = jobs[k]
    BY <1>7, <2>3 DEF OpenJobs
  <2>5. DOMAIN active' = {jobs'[k].key : k \in OpenJobs'}
    BY <1>5, <1>8, <2>1, <2>3, <2>4 DEF IndexIsTheOpenJobs
  <2>6. \A k \in OpenJobs' : active'[jobs'[k].key] = k
    BY <1>8, <2>1, <2>4 DEF IndexIsTheOpenJobs
  <2> QED
    BY <2>2, <2>5, <2>6 DEF IndexIsTheOpenJobs
<1>10. CASE ~ IsTerminal(job)
  <2>1. active' = active
    BY <1>6, <1>10
  <2>2. StoreTypeOK'
    BY <1>2, <1>7, <1>6, <2>1 DEF StoreTypeOK
  <2>3. OpenJobs' = OpenJobs
    BY <1>5, <1>7, <1>10 DEF OpenJobs
  <2>4. \A k \in OpenJobs : jobs'[k].key = jobs[k].key
    BY <1>2, <1>7 DEF OpenJobs
  <2> QED
    BY <2>1, <2>2, <2>3, <2>4 DEF IndexIsTheOpenJobs
<1> QED
  BY <1>9, <1>10

LEMMA StoreStepInv == StoreInv /\ [StoreNext]_storeVars => StoreInv'
<1> SUFFICES ASSUME StoreInv, [StoreNext]_storeVars PROVE StoreInv'
  OBVIOUS
<1>1. ASSUME NEW r \in Request, NEW j \in JobId, CreateJob(r, j) PROVE StoreInv'
  BY <1>1, CreateJobInv
<1>2. ASSUME UNCHANGED storeVars PROVE StoreInv'
  BY <1>2 DEF storeVars, StoreInv, StoreTypeOK, IndexIsTheOpenJobs, OpenJobs
<1>3. ASSUME NEW r \in Request, NEW j \in JobId, JoinJob(r, j) PROVE StoreInv'
  BY <1>2, <1>3 DEF JoinJob
<1>4. ASSUME NEW j \in DOMAIN jobs, NEW s \in DOMAIN jobs[j].segments,
             NEW result \in SegmentResult, StepSegment(j, s, result)
      PROVE StoreInv'
  BY <1>4, StepSegmentInv
<1> QED
  BY <1>1, <1>2, <1>3, <1>4 DEF StoreNext

(* What any step leaves of a job: its key, its segments and what is final. *)
Final(result) == result.status \notin OpenStatus

LEMMA StoreFrame ==
    ASSUME StoreInv, [StoreNext]_storeVars, NEW j \in DOMAIN jobs
    PROVE  /\ j \in DOMAIN jobs' /\ jobs'[j].key = jobs[j].key
           /\ DOMAIN jobs'[j].segments = DOMAIN jobs[j].segments
           /\ \A s \in DOMAIN jobs[j].segments : Final(jobs[j].segments[s]) =>
                 jobs'[j].segments[s] = jobs[j].segments[s]
           /\ IsTerminal(jobs[j]) => jobs'[j] = jobs[j]
<1>1. ASSUME NEW r \in Request, NEW i \in JobId, CreateJob(r, i)
      PROVE  j \in DOMAIN jobs' /\ jobs'[j] = jobs[j]
  BY <1>1 DEF CreateJob, Put
<1>2. ASSUME UNCHANGED storeVars
      PROVE  j \in DOMAIN jobs' /\ jobs'[j] = jobs[j]
  BY <1>2 DEF storeVars
<1>3. ASSUME NEW i \in DOMAIN jobs, NEW s \in DOMAIN jobs[i].segments,
             NEW result \in SegmentResult, StepSegment(i, s, result)
      PROVE  /\ j \in DOMAIN jobs' /\ jobs'[j].key = jobs[j].key
             /\ DOMAIN jobs'[j].segments = DOMAIN jobs[j].segments
             /\ \A u \in DOMAIN jobs[j].segments : Final(jobs[j].segments[u]) =>
                   jobs'[j].segments[u] = jobs[j].segments[u]
             /\ IsTerminal(jobs[j]) => jobs'[j] = jobs[j]
  <2>1. jobs[i] \in Job /\ jobs[i].segments[s] \in SegmentResult
    BY DEF StoreInv, StoreTypeOK, Job
  <2>2. ~ Final(jobs[i].segments[s])
    BY <1>3, <2>1, FollowsAdvances DEF StepSegment, Final
  <2>3. /\ DOMAIN jobs' = DOMAIN jobs
        /\ jobs'[i] = Updated(jobs[i], s, result)
        /\ \A k \in DOMAIN jobs : k # i => jobs'[k] = jobs[k]
    BY <1>3 DEF StepSegment, UpdateSegment, StoreInv, StoreTypeOK
  <2>4. ~ IsTerminal(jobs[i])
    BY <2>1, <2>2, JobTerminal DEF Final
  <2> QED
    BY <2>1, <2>2, <2>3, <2>4, UpdatedType
<1> QED
  BY <1>1, <1>2, <1>3 DEF StoreNext, JoinJob

(* Jobs under one key have the segments of every request with that key.    *)
KeyedSegments ==
    \A j \in DOMAIN jobs : \A r \in Request : jobs[j].key = KeyOf[r] =>
       DOMAIN jobs[j].segments = Elements(SegmentsOf[r])

LEMMA KeyedSegmentsInit == StoreInit => KeyedSegments
  BY DEF StoreInit, EmptyDict, KeyedSegments

(* The jobs keep their keys and segments; a new one has those of its       *)
(* request.                                                                *)
LEMMA KeyedSegmentsStep ==
    ASSUME StoreInv, KeyedSegments, [StoreNext]_storeVars PROVE KeyedSegments'
<1>1. ASSUME NEW q \in Request, NEW i \in JobId, CreateJob(q, i)
      PROVE  KeyedSegments'
  <2>1. /\ DOMAIN jobs' = DOMAIN jobs \cup {i} /\ jobs'[i] = NewJob(q)
        /\ \A j \in DOMAIN jobs : jobs'[j] = jobs[j]
    BY <1>1 DEF CreateJob, Put
  <2>2. NewJob(q).key = KeyOf[q] /\ DOMAIN NewJob(q).segments = Elements(SegmentsOf[q])
    BY DEF NewJob
  <2> QED
    BY <2>1, <2>2, RequestAssumption DEF KeyedSegments
<1>2. ASSUME DOMAIN jobs' = DOMAIN jobs
      PROVE  KeyedSegments'
  BY <1>2, StoreFrame DEF KeyedSegments
<1>3. ASSUME NEW j \in DOMAIN jobs, NEW s \in DOMAIN jobs[j].segments,
             NEW result \in SegmentResult, StepSegment(j, s, result)
      PROVE  DOMAIN jobs' = DOMAIN jobs
  BY <1>3 DEF StepSegment, UpdateSegment, StoreInv, StoreTypeOK
<1> QED
  BY <1>1, <1>2, <1>3 DEF StoreNext, JoinJob, storeVars

(* A request has finitely many segments: a sequence names them.            *)
LEMMA SegmentsFinite ==
    ASSUME NEW r \in Request PROVE IsFiniteSet(Elements(SegmentsOf[r]))
<1>1. SegmentsOf[r] \in Seq(Segment) /\ DOMAIN SegmentsOf[r] = 1 .. Len(SegmentsOf[r])
      /\ Len(SegmentsOf[r]) \in Int
  BY RequestAssumption
<1>2. IsFiniteSet(1 .. Len(SegmentsOf[r]))
  BY <1>1, FS_Interval
<1>3. SegmentsOf[r] = [i \in 1 .. Len(SegmentsOf[r]) |-> SegmentsOf[r][i]]
  BY <1>1
<1>4. SegmentsOf[r] \in Surjection(1 .. Len(SegmentsOf[r]), Elements(SegmentsOf[r]))
  BY <1>1, <1>3 DEF Surjection, Elements
<1> QED
  BY <1>2, <1>4, FS_Surjection

LEMMA JobsFinite ==
    ASSUME StoreInv, KeyedSegments, NEW j \in DOMAIN jobs
    PROVE  IsFiniteSet(DOMAIN jobs[j].segments)
<1>1. jobs[j].key \in DedupKey
  BY DEF StoreInv, StoreTypeOK, Job
<1>2. PICK r \in Request : KeyOf[r] = jobs[j].key
  BY <1>1 DEF DedupKey
<1> QED
  BY <1>2, SegmentsFinite DEF KeyedSegments

THEOREM StoreTypes == StoreSpec => []StoreTypeOK
<1>1. StoreSpec => []StoreInv
  BY StoreInitInv, StoreStepInv, PTL DEF StoreSpec
<1> QED
  BY <1>1, PTL DEF StoreInv

(* The dedup index holds exactly the open jobs, whatever the number of     *)
(* jobs, keys and segments.                                                *)
THEOREM StoreIndex == StoreSpec => []IndexIsTheOpenJobs
<1>1. StoreSpec => []StoreInv
  BY StoreInitInv, StoreStepInv, PTL DEF StoreSpec
<1> QED
  BY <1>1, PTL DEF StoreInv

-----------------------------------------------------------------------------
(* A terminal job has no step left: every segment of it is final.          *)
THEOREM StoreFrozen == StoreSpec => FinishedJobsAreFrozen
<1>1. ASSUME StoreTypeOK, [StoreNext]_storeVars, NEW j \in DOMAIN jobs,
             IsTerminal(jobs[j])
      PROVE  jobs'[j] = jobs[j]
  <2>1. ASSUME NEW r \in Request, NEW i \in JobId, CreateJob(r, i)
        PROVE  jobs'[j] = jobs[j]
    BY <2>1 DEF CreateJob, Put
  <2>2. ASSUME NEW r \in Request, NEW i \in JobId, JoinJob(r, i)
        PROVE  jobs'[j] = jobs[j]
    BY <2>2 DEF JoinJob, storeVars
  <2>3. ASSUME NEW i \in DOMAIN jobs, NEW s \in DOMAIN jobs[i].segments,
               NEW result \in SegmentResult, StepSegment(i, s, result)
        PROVE  jobs'[j] = jobs[j]
    <3>1. jobs[i] \in Job /\ jobs[i].segments[s] \in SegmentResult
      BY <1>1 DEF StoreTypeOK, Job
    <3>2. jobs[i].segments[s].status \in OpenStatus
      BY <2>3, <3>1, FollowsAdvances DEF StepSegment
    <3>3. i # j
      BY <1>1, <3>1, <3>2, JobTerminal
    <3> QED
      BY <1>1, <2>3, <3>3 DEF StepSegment, UpdateSegment, StoreTypeOK
  <2> QED
    BY <1>1, <2>1, <2>2, <2>3 DEF StoreNext, storeVars
<1>2. StoreTypeOK /\ [StoreNext]_storeVars
        => [\A j \in DOMAIN jobs : IsTerminal(jobs[j]) => jobs'[j] = jobs[j]]_storeVars
  BY <1>1
<1> QED
  BY <1>2, StoreTypes, PTL DEF StoreSpec, FinishedJobsAreFrozen

(* Segments only go forward, and none is ever forgotten.                   *)
THEOREM StoreAdvances == StoreSpec => SegmentsOnlyAdvance
<1> DEFINE Advances(old, new) ==
             /\ DOMAIN new.segments = DOMAIN old.segments
             /\ \A s \in DOMAIN old.segments :
                   \/ new.segments[s] = old.segments[s]
                   \/ Progress(new.segments[s]) > Progress(old.segments[s])
<1>1. ASSUME StoreTypeOK, [StoreNext]_storeVars, NEW j \in DOMAIN jobs
      PROVE  j \in DOMAIN jobs' /\ Advances(jobs[j], jobs'[j])
  <2>0. ASSUME jobs'[j] = jobs[j] PROVE Advances(jobs[j], jobs'[j])
    BY <2>0
  <2>1. ASSUME NEW r \in Request, NEW i \in JobId, CreateJob(r, i)
        PROVE  j \in DOMAIN jobs' /\ jobs'[j] = jobs[j]
    BY <2>1 DEF CreateJob, Put
  <2>2. ASSUME UNCHANGED storeVars
        PROVE  j \in DOMAIN jobs' /\ jobs'[j] = jobs[j]
    BY <2>2 DEF storeVars
  <2>3. ASSUME NEW i \in DOMAIN jobs, NEW s \in DOMAIN jobs[i].segments,
               NEW result \in SegmentResult, StepSegment(i, s, result)
        PROVE  j \in DOMAIN jobs' /\ Advances(jobs[j], jobs'[j])
    <3>1. jobs[i] \in Job /\ jobs[i].segments[s] \in SegmentResult
      BY <1>1 DEF StoreTypeOK, Job
    <3>2. Progress(result) > Progress(jobs[i].segments[s])
      BY <2>3, <3>1, FollowsAdvances DEF StepSegment
    <3>3. jobs' = [jobs EXCEPT ![i] = Updated(jobs[i], s, result)]
      BY <2>3 DEF StepSegment, UpdateSegment
    <3>4. DOMAIN jobs' = DOMAIN jobs
      BY <1>1, <3>3 DEF StoreTypeOK
    <3>5. CASE i # j
      BY <1>1, <2>0, <3>3, <3>4, <3>5 DEF StoreTypeOK
    <3>6. CASE i = j
      <4>1. jobs'[j] = Updated(jobs[j], s, result)
        BY <1>1, <3>3, <3>6 DEF StoreTypeOK
      <4> QED
        BY <3>1, <3>2, <3>4, <3>6, <4>1, UpdatedType
    <3> QED
      BY <3>5, <3>6
  <2> QED
    BY <1>1, <2>0, <2>1, <2>2, <2>3 DEF StoreNext, JoinJob
<1>2. StoreTypeOK /\ [StoreNext]_storeVars
        => [\A j \in DOMAIN jobs :
               /\ j \in DOMAIN jobs'
               /\ DOMAIN jobs'[j].segments = DOMAIN jobs[j].segments
               /\ \A s \in DOMAIN jobs[j].segments :
                     \/ jobs'[j].segments[s] = jobs[j].segments[s]
                     \/ Progress(jobs'[j].segments[s])
                           > Progress(jobs[j].segments[s])]_storeVars
  BY <1>1
<1> QED
  BY <1>2, StoreTypes, PTL DEF StoreSpec, SegmentsOnlyAdvance

(* A job is pending exactly while all its segments are.                    *)
LEMMA JobPending ==
    ASSUME NEW job \in Job
    PROVE  Status(job) = "pending" <=>
              \A s \in DOMAIN job.segments : job.segments[s].status = "pending"
<1>1. PICK D \in (SUBSET Segment) \ {{}} : job.segments \in [D -> SegmentResult]
  BY DEF Job
<1>2. DOMAIN job.segments = D /\ D # {}
  BY <1>1
<1>3. \A s \in D : job.segments[s].status \in SegmentStatus
  BY <1>1 DEF SegmentResult
<1>4. Statuses(job) \in SUBSET SegmentStatus /\ Statuses(job) # {}
  BY <1>2, <1>3 DEF Statuses
<1>5. Statuses(job) = {"pending"} <=>
         \A s \in DOMAIN job.segments : job.segments[s].status = "pending"
  <2>1. PICK u \in DOMAIN job.segments : TRUE
    BY <1>2
  <2> QED
    BY <2>1 DEF Statuses
<1>6. Statuses(job) # {"pending"} => Status(job) # "pending"
  <2> SUFFICES ASSUME Statuses(job) # {"pending"} PROVE Status(job) # "pending"
    OBVIOUS
  <2>1. CASE Statuses(job) \cap OpenStatus # {}
    <3>1. /\ Statuses(job) # {"success"} /\ Statuses(job) # {"failed"}
          /\ Statuses(job) # {"success", "failed"}
      BY <2>1 DEF OpenStatus
    <3> QED
      BY <2>1, <3>1 DEF Status, DeriveJobStatus
  <2>2. CASE Statuses(job) \cap OpenStatus = {}
    <3>1. DeriveJobStatus(Statuses(job)) \in TerminalStatus
      BY <1>4, <2>2, TerminalStatuses
    <3> QED
      BY <3>1 DEF Status, TerminalStatus
  <2> QED
    BY <2>1, <2>2
<1>7. Statuses(job) = {"pending"} => Status(job) = "pending"
  BY DEF Status, DeriveJobStatus
<1> QED
  BY <1>5, <1>6, <1>7

(* No step takes a segment back to pending.                                *)
LEMMA NoneBackToPending ==
    ASSUME StoreInv, [StoreNext]_storeVars,
           NEW j \in DOMAIN jobs, NEW s \in DOMAIN jobs[j].segments,
           jobs[j].segments[s].status # "pending"
    PROVE  jobs'[j].segments[s].status # "pending"
<1>1. ASSUME NEW r \in Request, NEW i \in JobId, CreateJob(r, i)
      PROVE  jobs'[j] = jobs[j]
  BY <1>1 DEF CreateJob, Put
<1>2. ASSUME UNCHANGED storeVars PROVE jobs'[j] = jobs[j]
  BY <1>2 DEF storeVars
<1>3. ASSUME NEW i \in DOMAIN jobs, NEW u \in DOMAIN jobs[i].segments,
             NEW result \in SegmentResult, StepSegment(i, u, result)
      PROVE  jobs'[j].segments[s].status # "pending"
  <2>1. jobs[i] \in Job /\ jobs[i].segments[u] \in SegmentResult
    BY DEF StoreInv, StoreTypeOK, Job
  <2>2. result.status # "pending"
    BY <1>3, <2>1, FollowsAdvances DEF StepSegment
  <2>3. /\ jobs'[i] = Updated(jobs[i], u, result)
        /\ \A k \in DOMAIN jobs : k # i => jobs'[k] = jobs[k]
    BY <1>3 DEF StepSegment, UpdateSegment, StoreInv, StoreTypeOK
  <2>4. CASE i = j
    BY <2>1, <2>2, <2>3, <2>4, UpdatedType
  <2>5. CASE i # j
    BY <2>3, <2>5
  <2> QED
    BY <2>4, <2>5
<1> QED
  BY <1>1, <1>2, <1>3 DEF StoreNext, JoinJob

(* The status derived for a job never falls back, from any number of       *)
(* segments that each only go forward.                                     *)
THEOREM StoreStatus == StoreSpec => JobStatusNeverFallsBack
<1>1. ASSUME StoreInv, [StoreNext]_storeVars, NEW j \in DOMAIN jobs
      PROVE  JobRank(jobs'[j]) >= JobRank(jobs[j])
  <2>0. StoreInv'
    BY <1>1, StoreStepInv
  <2>1. j \in DOMAIN jobs' /\ jobs[j] \in Job /\ jobs'[j] \in Job
    BY <1>1, <2>0, StoreFrame DEF StoreInv, StoreTypeOK
  <2>2. JobRank(jobs[j]) \in {0, 1, 2} /\ JobRank(jobs'[j]) \in {0, 1, 2}
    BY DEF JobRank
  <2>3. CASE IsTerminal(jobs[j])
    BY <1>1, <2>2, <2>3, StoreFrame
  <2>4. CASE Status(jobs[j]) = "pending"
    BY <2>2, <2>4 DEF JobRank
  <2>5. CASE Status(jobs[j]) # "pending" /\ ~ IsTerminal(jobs[j])
    <3>1. JobRank(jobs[j]) = 1
      BY <2>1, <2>5, JobTerminal DEF JobRank, IsTerminal, TerminalStatus, JobStatus
    <3>2. PICK s \in DOMAIN jobs[j].segments : jobs[j].segments[s].status # "pending"
      BY <2>1, <2>5, JobPending
    <3>3. jobs'[j].segments[s].status # "pending" /\ s \in DOMAIN jobs'[j].segments
      BY <1>1, <3>2, NoneBackToPending, StoreFrame
    <3>4. Status(jobs'[j]) # "pending"
      BY <2>1, <3>3, JobPending
    <3> QED
      BY <2>2, <3>1, <3>4 DEF JobRank
  <2> QED
    BY <2>3, <2>4, <2>5
<1>2. StoreInv /\ [StoreNext]_storeVars =>
         [\A j \in DOMAIN jobs : JobRank(jobs'[j]) >= JobRank(jobs[j])]_storeVars
  BY <1>1
<1>3. StoreSpec => []StoreInv
  BY StoreInitInv, StoreStepInv, PTL DEF StoreSpec
<1> QED
  BY <1>2, <1>3, PTL DEF StoreSpec, JobStatusNeverFallsBack
=============================================================================
