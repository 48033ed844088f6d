------------------------------ MODULE JobState ------------------------------
(***************************************************************************)
(* The values a segment and a job can have, and the rule that rolls the    *)
(* segments of a job up into its status: domain/models.py and              *)
(* jobs/state.py of pythia_service.                                        *)
(*                                                                         *)
(* A pipeline stage is its position in PipelineStage: 1 is                 *)
(* fetching_players, ..., 7 is predicting.  The number of stages is a      *)
(* parameter, so that runs about the concurrency can use a short pipeline; *)
(* the code's is 7.                                                        *)
(***************************************************************************)
EXTENDS Integers

CONSTANT LastStage       \* the number of stages of the pipeline

ASSUME StageAssumption == LastStage \in Nat \ {0}

FirstStage == 1
Stage == FirstStage .. LastStage
NoStage == 0

SegmentStatus == {"pending", "running", "success", "failed"}
JobStatus == {"pending", "running", "success", "failed", "partial_success"}

(* Why a segment has no result: an exception of the pipeline, or a service *)
(* that was going down before the segment was scheduled.                   *)
Error == {"raised", "not_scheduled"}
NoError == "no_error"

(* The fields of SegmentResult that decide anything; the identity of the   *)
(* segment is its key in the job, its payload and its clock readings are   *)
(* left out.                                                               *)
SegmentResult ==
    [status        : SegmentStatus,
     current_stage : Stage \cup {NoStage},
     failed_stage  : Stage \cup {NoStage},
     error         : Error \cup {NoError}]

Result(status, current, failed, error) ==
    [status |-> status, current_stage |-> current,
     failed_stage |-> failed, error |-> error]

Pending      == Result("pending", NoStage, NoStage, NoError)
RunningAt(s) == Result("running", s, NoStage, NoError)
Succeeded    == Result("success", NoStage, NoStage, NoError)
FailedAt(s)  == Result("failed", NoStage, s, "raised")
NotScheduled == Result("failed", NoStage, NoStage, "not_scheduled")

OpenStatus == {"pending", "running"}     \* of a segment that may still change
TerminalStatus == {"success", "failed", "partial_success"}

-----------------------------------------------------------------------------
(* Mutants of DeriveJobStatus: only a running segment keeps a started job  *)
(* open; a job fails with its first segment.                               *)
DeriveJobStatusIgnoresPending(statuses) ==
    CASE statuses = {"pending"}                 -> "pending"
      [] "running" \in statuses                 -> "running"
      [] statuses \ {"pending"} = {"success"}   -> "success"
      [] statuses \ {"pending"} = {"failed"}    -> "failed"
      [] {"success", "failed"} \subseteq statuses /\ "running" \notin statuses
                                                -> "partial_success"

DeriveJobStatusFailFast(statuses) ==
    CASE "failed" \in statuses             -> "failed"
      [] statuses = {"pending"}           -> "pending"
      [] statuses = {"success"}           -> "success"
      [] OTHER                            -> "running"

(* derive_job_status: only which statuses occur among the segments matters *)
(* to it, never how often nor where.  The code raises on an empty list.    *)
DeriveJobStatus(statuses) ==
    CASE statuses = {"pending"}           -> "pending"
      [] statuses # {"pending"} /\ statuses \cap OpenStatus # {}
                                          -> "running"
      [] statuses = {"success"}           -> "success"
      [] statuses = {"failed"}            -> "failed"
      [] statuses = {"success", "failed"} -> "partial_success"

(* How far a segment has come, for the properties: pending, then stage by  *)
(* stage, then finished.                                                   *)
Progress(result) ==
    CASE result.status = "pending" -> 0
      [] result.status = "running" -> result.current_stage
      [] OTHER                     -> LastStage + 1
=============================================================================
