------------------------------ MODULE JobTimes -------------------------------
(***************************************************************************)
(* The times a response shows for one job: created_at and updated_at of    *)
(* jobs/store.py, started_at and finished_at of worker/pipeline.py.  Each  *)
(* is read from the wall clock by the handler or by the thread of a        *)
(* segment, and stored by a later step: other threads write in between.    *)
(* The clock does not step back here (JobPolling has one that does).       *)
(***************************************************************************)
EXTENDS Integers, FiniteSets

CONSTANTS
    Segment,      \* the segments of the job
    LastReading   \* the bound on the clock

ASSUME TimesAssumption == LastReading \in Nat

NoTime == -1      \* None

VARIABLES
    clock,
    hpc,          \* the handler: "building" the candidate, "inserting" it,
                  \* "scheduling", "stranding", then "done"
    hnow,         \* the reading it holds
    created_at, updated_at,     \* of the job
    started_at, finished_at,    \* of each segment, as the store has them
    pc,           \* where each segment is
    started, now, \* the readings its thread holds
    stranded      \* the segments the handler has to mark failed

timesVars == <<clock, hpc, hnow, created_at, updated_at, started_at,
               finished_at, pc, started, now, stranded>>

TimesInit ==
    /\ clock = 0
    /\ hpc = "building" /\ hnow = NoTime
    /\ created_at = NoTime /\ updated_at = NoTime
    /\ started_at = [s \in Segment |-> NoTime]
    /\ finished_at = [s \in Segment |-> NoTime]
    /\ pc = [s \in Segment |-> "queued"]
    /\ started = [s \in Segment |-> NoTime]
    /\ now = [s \in Segment |-> NoTime]
    /\ stranded = {}

Tick ==
    /\ clock < LastReading
    /\ clock' = clock + 1
    /\ UNCHANGED <<hpc, hnow, created_at, updated_at, started_at, finished_at,
                   pc, started, now, stranded>>

-----------------------------------------------------------------------------
(* _new_job reads the clock once, before the lock is taken.                *)
BuildCandidate ==
    /\ hpc = "building"
    /\ hnow' = clock
    /\ hpc' = "inserting"
    /\ UNCHANGED <<clock, created_at, updated_at, started_at, finished_at,
                   pc, started, now, stranded>>

Insert ==
    /\ hpc = "inserting"
    /\ created_at' = hnow /\ updated_at' = hnow
    /\ hpc' = "scheduling"
    /\ UNCHANGED <<clock, hnow, started_at, finished_at, pc, started, now, stranded>>

(* The handler submits the segments, all of them, or it strands those that *)
(* are left and those it could cancel; _fail_stranded reads the clock once.*)
Scheduled ==
    /\ hpc = "scheduling"
    /\ hpc' = "done"
    /\ UNCHANGED <<clock, hnow, created_at, updated_at, started_at, finished_at,
                   pc, started, now, stranded>>

Strand ==
    /\ hpc = "scheduling"
    /\ hnow' = clock
    /\ \E some \in (SUBSET {s \in Segment : pc[s] = "queued"}) \ {{}} :
          /\ stranded' = some
          /\ pc' = [s \in Segment |-> IF s \in some THEN "stranded" ELSE pc[s]]
    /\ hpc' = "stranding"
    /\ UNCHANGED <<clock, created_at, updated_at, started_at, finished_at,
                   started, now>>

(* Mutant of Update: the job takes the time of the result.                 *)
UpdateWithTheResult(s, start, finish) ==
    /\ started_at' = [started_at EXCEPT ![s] = start]
    /\ finished_at' = [finished_at EXCEPT ![s] = finish]
    /\ updated_at' = IF finish = NoTime THEN start ELSE finish

(* update_segment reads the clock with the lock held.                      *)
Update(s, start, finish) ==
    /\ started_at' = [started_at EXCEPT ![s] = start]
    /\ finished_at' = [finished_at EXCEPT ![s] = finish]
    /\ updated_at' = clock

FailOne(s) ==
    /\ hpc = "stranding"
    /\ s \in stranded
    /\ Update(s, NoTime, hnow)
    /\ pc' = [pc EXCEPT ![s] = "done"]
    /\ stranded' = stranded \ {s}
    /\ hpc' = IF stranded = {s} THEN "done" ELSE hpc
    /\ UNCHANGED <<clock, hnow, created_at, started, now>>

-----------------------------------------------------------------------------
(* process_segment: the first line of it that matters here.                *)
Start(s) ==
    /\ hpc \in {"scheduling", "stranding", "done"}
    /\ pc[s] = "queued"
    /\ started' = [started EXCEPT ![s] = clock]
    /\ pc' = [pc EXCEPT ![s] = "running"]
    /\ UNCHANGED <<clock, hpc, hnow, created_at, updated_at, started_at,
                   finished_at, now, stranded>>

(* set_stage, seven times.                                                 *)
SetStage(s) ==
    /\ pc[s] = "running"
    /\ Update(s, started[s], NoTime)
    /\ UNCHANGED <<clock, hpc, hnow, created_at, pc, started, now, stranded>>

(* The result is built, with finished_at, before _record writes it.        *)
BuildResult(s) ==
    /\ pc[s] = "running"
    /\ started_at[s] # NoTime
    /\ now' = [now EXCEPT ![s] = clock]
    /\ pc' = [pc EXCEPT ![s] = "recording"]
    /\ UNCHANGED <<clock, hpc, hnow, created_at, updated_at, started_at,
                   finished_at, started, stranded>>

RecordResult(s) ==
    /\ pc[s] = "recording"
    /\ Update(s, started[s], now[s])
    /\ pc' = [pc EXCEPT ![s] = "done"]
    /\ UNCHANGED <<clock, hpc, hnow, created_at, started, now, stranded>>

TimesNext ==
    \/ Tick
    \/ BuildCandidate \/ Insert \/ Scheduled \/ Strand
    \/ \E s \in Segment :
          FailOne(s) \/ Start(s) \/ SetStage(s) \/ BuildResult(s) \/ RecordResult(s)

TimesSpec == TimesInit /\ [][TimesNext]_timesVars

-----------------------------------------------------------------------------
(* What a poll shows is in order at every moment: no segment started before*)
(* its job was created or finished before it started, and the job has been *)
(* updated since.  So duration_s of job_finished (pipeline.py:204), which  *)
(* is updated_at - created_at, covers every segment of the job.            *)
TimesAreInOrder ==
    /\ created_at <= updated_at
    /\ \A s \in Segment :
          /\ started_at[s] # NoTime =>
                created_at <= started_at[s] /\ started_at[s] <= updated_at
          /\ finished_at[s] # NoTime =>
                /\ created_at <= finished_at[s] /\ finished_at[s] <= updated_at
                /\ started_at[s] # NoTime => started_at[s] <= finished_at[s]

(* From one poll to the next no time goes back or is taken away, whichever *)
(* threads wrote in between and in whatever order they read the clock.     *)
TimesNeverGoBack ==
    [][/\ updated_at <= updated_at'
       /\ \A s \in Segment :
             /\ started_at[s] # NoTime => started_at'[s] = started_at[s]
             /\ finished_at[s] # NoTime => finished_at'[s] = finished_at[s]
      ]_timesVars
=============================================================================
