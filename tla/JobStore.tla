------------------------------ MODULE JobStore ------------------------------
(***************************************************************************)
(* jobs/store.py: the jobs and the index of the jobs that are not terminal *)
(* yet, keyed by the deduplication key of their request.  Every method     *)
(* takes the store's lock around all it reads and writes, so a method is   *)
(* one action.                                                             *)
(*                                                                         *)
(* The store itself accepts any result for any segment.  StoreSpec adds    *)
(* what it relies on from its callers: that they write the life cycle of a *)
(* segment, one step at a time (Follows).  PredictionService is shown to   *)
(* be such a caller.                                                       *)
(***************************************************************************)
EXTENDS JobState, Sequences, FiniteSets

CONSTANTS
    JobId,        \* the ids uuid4() returns, in a finite number
    Segment,      \* the (game, region, platform) triples
    Request,      \* the validated request bodies
    KeyOf,        \* KeyOf[r]: compute_dedup_key(r)
    SegmentsOf    \* SegmentsOf[r]: r.segment_keys(), in the order of the code

Elements(seq) == {seq[i] : i \in DOMAIN seq}

(* What PredictionRequest's validators guarantee of every request: it has  *)
(* a segment, names none twice, and two requests with one key have the     *)
(* same segments, perhaps in another order.                                *)
ASSUME RequestAssumption ==
    /\ KeyOf = [r \in Request |-> KeyOf[r]]
    /\ SegmentsOf \in [Request -> Seq(Segment)]
    /\ \A r \in Request :
          /\ SegmentsOf[r] # << >>
          /\ \A i, k \in DOMAIN SegmentsOf[r] :
                SegmentsOf[r][i] = SegmentsOf[r][k] => i = k
    /\ \A q, r \in Request :
          KeyOf[q] = KeyOf[r] => Elements(SegmentsOf[q]) = Elements(SegmentsOf[r])

DedupKey == {KeyOf[r] : r \in Request}

VARIABLES
    jobs,         \* _jobs: job id -> job
    active        \* _active_by_dedup_key: key -> id of the job with that key

storeVars == <<jobs, active>>

-----------------------------------------------------------------------------
(* Python dictionaries are functions on the keys they hold.                *)
EmptyDict == [k \in {} |-> k]
Put(dict, key, value) ==
    [k \in DOMAIN dict \cup {key} |-> IF k = key THEN value ELSE dict[k]]
Pop(dict, key) == [k \in DOMAIN dict \ {key} |-> dict[k]]

Job == [key      : DedupKey,
        segments : UNION {[D -> SegmentResult] : D \in (SUBSET Segment) \ {{}}}]

NewJob(r) ==
    [key |-> KeyOf[r], segments |-> [s \in Elements(SegmentsOf[r]) |-> Pending]]

Statuses(job) == {job.segments[s].status : s \in DOMAIN job.segments}
Status(job) == DeriveJobStatus(Statuses(job))
IsTerminal(job) == Status(job) \in TerminalStatus

Updated(job, s, result) == [job EXCEPT !.segments[s] = result]

(* Mutants of Closes: every final result of a segment is taken for the one *)
(* that closes the job; the job is looked at before the write only.        *)
ClosesWithAnySegment(j, s, result) == result.status \notin OpenStatus
ClosesBeforeTheWrite(j, s, result) == IsTerminal(jobs[j])

(* What update_segment returns: this write is the one that made the job    *)
(* terminal.                                                               *)
Closes(j, s, result) ==
    /\ ~ IsTerminal(jobs[j])
    /\ IsTerminal(Updated(jobs[j], s, result))

-----------------------------------------------------------------------------
StoreInit ==
    /\ jobs = EmptyDict
    /\ active = EmptyDict

(* Mutant of CreateJob: inserts without looking the key up.                *)
CreateJobUnchecked(r, j) ==
    /\ j \notin DOMAIN jobs
    /\ jobs' = Put(jobs, j, NewJob(r))
    /\ active' = Put(active, KeyOf[r], j)

(* get_or_create_job when the key is not in the index: the candidate, built*)
(* with a fresh id before the lock was taken, is inserted.                 *)
CreateJob(r, j) ==
    /\ KeyOf[r] \notin DOMAIN active
    /\ j \notin DOMAIN jobs
    /\ jobs' = Put(jobs, j, NewJob(r))
    /\ active' = Put(active, KeyOf[r], j)

(* Mutant of JoinJob: joins whatever job is open.                          *)
JoinAnyJob(r, j) ==
    /\ j \in {active[k] : k \in DOMAIN active}
    /\ UNCHANGED storeVars

(* get_or_create_job when it is: the caller gets the job of that key, and  *)
(* nothing changes.                                                        *)
JoinJob(r, j) ==
    /\ KeyOf[r] \in DOMAIN active
    /\ j = active[KeyOf[r]]
    /\ UNCHANGED storeVars

(* Mutant of UpdateSegment: a finished job keeps its key.                  *)
UpdateSegmentKeepsKey(j, s, result) ==
    /\ jobs' = [jobs EXCEPT ![j] = Updated(jobs[j], s, result)]
    /\ UNCHANGED active

(* update_segment.  The early return for an unknown job is not modelled:   *)
(* no method removes a job.  The index loses the entry of the job's key    *)
(* whenever the write leaves the job terminal, whoever that entry names.   *)
UpdateSegment(j, s, result) ==
    LET job == Updated(jobs[j], s, result) IN
    /\ jobs' = [jobs EXCEPT ![j] = job]
    /\ active' = IF IsTerminal(job) THEN Pop(active, job.key) ELSE active

-----------------------------------------------------------------------------
(* The life cycle of a segment, as process_segment and _fail_stranded      *)
(* write it.                                                               *)
Follows(old, new) ==
    \/ old = Pending /\ new \in {RunningAt(FirstStage), NotScheduled}
    \/ \E st \in Stage : /\ old = RunningAt(st)
                         /\ \/ st < LastStage /\ new = RunningAt(st + 1)
                            \/ st = LastStage /\ new = Succeeded
                            \/ new = FailedAt(st)

StepSegment(j, s, result) ==
    /\ Follows(jobs[j].segments[s], result)
    /\ UpdateSegment(j, s, result)

StoreNext ==
    \/ \E r \in Request, j \in JobId : CreateJob(r, j) \/ JoinJob(r, j)
    \/ \E j \in DOMAIN jobs : \E s \in DOMAIN jobs[j].segments :
          \E result \in SegmentResult : StepSegment(j, s, result)

StoreSpec == StoreInit /\ [][StoreNext]_storeVars

-----------------------------------------------------------------------------
(* The jobs and the index are dictionaries of the right types.             *)
StoreTypeOK ==
    /\ DOMAIN jobs \subseteq JobId
    /\ jobs \in [DOMAIN jobs -> Job]
    /\ DOMAIN active \subseteq DedupKey
    /\ active \in [DOMAIN active -> JobId]

OpenJobs == {j \in DOMAIN jobs : ~ IsTerminal(jobs[j])}

(* The dedup index holds exactly the jobs that are not terminal, each under*)
(* its own key (store.py:65).  So at most one open job has a given key, a  *)
(* duplicate never joins a finished job, and a finished job never keeps its*)
(* key occupied.  update_segment alone does not give this: it needs its    *)
(* callers never to write to a segment of a finished job, and never to take*)
(* a finished segment back to running.                                     *)
IndexIsTheOpenJobs ==
    /\ DOMAIN active = {jobs[j].key : j \in OpenJobs}
    /\ \A j \in OpenJobs : active[jobs[j].key] = j

(* No step takes a segment back along its life cycle, moves a finished     *)
(* segment, or forgets a job or one of its segments (e2e.py:53, "A job may *)
(* climb this scale, never fall back down it").                            *)
SegmentsOnlyAdvance ==
    [][\A j \in DOMAIN jobs :
          /\ j \in DOMAIN jobs'
          /\ DOMAIN jobs'[j].segments = DOMAIN jobs[j].segments
          /\ \A s \in DOMAIN jobs[j].segments :
                \/ jobs'[j].segments[s] = jobs[j].segments[s]
                \/ Progress(jobs'[j].segments[s]) > Progress(jobs[j].segments[s])
      ]_storeVars

(* A job that has become terminal keeps its status and every result: what a*)
(* poll has reported as final stays what every later poll reports          *)
(* (state.py:19).                                                          *)
FinishedJobsAreFrozen ==
    [][\A j \in DOMAIN jobs : IsTerminal(jobs[j]) => jobs'[j] = jobs[j]]_storeVars

(* The rank e2e.py gives a job status: pending, running, then terminal.    *)
JobRank(job) ==
    CASE Status(job) = "pending" -> 0
      [] Status(job) = "running" -> 1
      [] OTHER                   -> 2

(* A job's derived status never falls back (e2e.py:53): deriving it from   *)
(* segments that only advance is monotone although "pending" needs all of  *)
(* them pending.                                                           *)
JobStatusNeverFallsBack ==
    [][\A j \in DOMAIN jobs : JobRank(jobs'[j]) >= JobRank(jobs[j])]_storeVars
=============================================================================
