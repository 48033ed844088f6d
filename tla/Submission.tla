----------------------------- MODULE Submission -----------------------------
(***************************************************************************)
(* POST /predictions from the raw body to the store, one request after     *)
(* another: validation, the dedup key, and get_or_create_job.  The pool is *)
(* reduced to callers of update_segment that follow the life cycle of a    *)
(* segment.  The key and the segments that JobStore takes as constants are *)
(* here those PredictionRequest computes.                                  *)
(***************************************************************************)
EXTENDS PredictionRequest, FiniteSets

CONSTANTS
    LastStage, JobId,
    Name,         \* the names that are sent; Blank may be one
    Raw,          \* the bodies that are sent
    NoJob         \* the answer to a body that is not valid

(* A body has the three fields, and FastAPI has read each as a list of     *)
(* strings.                                                                *)
ASSUME SubmissionAssumption ==
    /\ LastStage \in Nat \ {0}
    /\ Raw \subseteq [Field -> Seq([name : Name, pad : Nat])]

VARIABLES
    jobs, active, \* the store
    raw,          \* the last body that reached the handler
    answer        \* the job the last request was answered with

submissionVars == <<jobs, active, raw, answer>>

Accepted == {r \in Raw : Valid(r)}
Refused == Raw \ Accepted
BodyOf == [r \in Accepted |-> Body(r)]
Request == {BodyOf[r] : r \in Accepted}
KeyOf == [body \in Request |-> ComputeDedupKey(body)]
SegmentsOf == [body \in Request |-> SegmentKeys(body)]

Store == INSTANCE JobStore WITH Segment <- Name \X Name \X Name

SubmissionInit ==
    /\ Store!StoreInit
    /\ raw \in Accepted
    /\ answer = NoJob

(* 422: the handler is not called.                                         *)
Refuse(r) ==
    /\ r \in Refused
    /\ answer' = NoJob
    /\ UNCHANGED <<jobs, active, raw>>

Submit(r, j) ==
    /\ r \in Accepted
    /\ Store!CreateJob(BodyOf[r], j) \/ Store!JoinJob(BodyOf[r], j)
    /\ raw' = r
    /\ answer' = j

(* How a segment can go on, when the pipeline has one stage.               *)
Outcome == {Store!RunningAt(1), Store!Succeeded, Store!FailedAt(1), Store!NotScheduled}

WriteSegment ==
    /\ \E j \in DOMAIN jobs : \E s \in DOMAIN jobs[j].segments :
          \E result \in Outcome : Store!StepSegment(j, s, result)
    /\ UNCHANGED <<raw, answer>>

SubmissionNext ==
    \/ \E r \in Raw : Refuse(r) \/ \E j \in JobId : Submit(r, j)
    \/ WriteSegment

SubmissionSpec == SubmissionInit /\ [][SubmissionNext]_submissionVars

-----------------------------------------------------------------------------
Triples(body) ==
    ToSet(body.games) \X ToSet(body.regions) \X ToSet(body.platforms)

(* The caller is answered with a job that has one segment for each triple  *)
(* it named and no other, however it ordered, padded or repeated the names,*)
(* and whether the job was created for it or joined (models.py:120).       *)
AnswerIsTheWorkAskedFor ==
    answer # NoJob => DOMAIN jobs[answer].segments = Triples(BodyOf[raw])

(* No two open jobs do the same work: comparing keys is comparing sets of  *)
(* segments (dedup.py:17).                                                 *)
OneOpenJobPerWork ==
    \A i, j \in Store!OpenJobs :
       DOMAIN jobs[i].segments = DOMAIN jobs[j].segments => i = j

(* No job has more segments than the cap, however its request was written  *)
(* (models.py:69), and exactly as many are scheduled as the job has: the   *)
(* list of keys names none of them twice, so no two threads ever write to  *)
(* one segment.                                                            *)
FanOutIsBounded ==
    answer # NoJob =>
       LET segments == DOMAIN jobs[answer].segments IN
       /\ Cardinality(segments) <= MaxSegmentsPerRequest
       /\ Len(SegmentsOf[BodyOf[raw]]) = Cardinality(segments)
=============================================================================
