-------------------------- MODULE PredictionScripts --------------------------
(***************************************************************************)
(* The programs of scripts/ on one command line: the sequential program of *)
(* v1 and v2, and the optimized one of v2.  Whichever is started, the file *)
(* must be the same, but for the rows of a segment that is given twice.    *)
(***************************************************************************)
EXTENDS OptimizedScript

VARIABLES
    program,                        \* the one that was started
    phase, pos, fetched, data,      \* of SequentialScript
    arrays                          \* its models

Sequential == INSTANCE SequentialScript WITH models <- arrays

sequentialOnly == <<phase, pos, fetched, data, arrays>>
optimizedOnly == <<poolVars, mpc, mpos, raised, threadVars>>
runVars == <<scriptVars, program, sequentialOnly>>

RunInit ==
    /\ program \in {"sequential", "optimized"}
    /\ ScriptInit
    /\ Sequential!SequentialInit

SequentialRuns ==
    /\ program = "sequential"
    /\ Sequential!SequentialNext
    /\ UNCHANGED <<program, optimizedOnly>>

OptimizedRuns == program = "optimized" /\ UNCHANGED <<program, sequentialOnly>>
MainRuns == OptimizedRuns /\ MainStep
SegmentRuns(w) == OptimizedRuns /\ SegmentStep(w)
QueryRuns(t, k) == OptimizedRuns /\ QueryEnds(t, k)

RunNext ==
    \/ SequentialRuns
    \/ MainRuns
    \/ \E w \in Worker : SegmentRuns(w)
    \/ \E t \in Task, k \in Step : QueryRuns(t, k)

(* Each program goes on, with its threads and its queries; that library    *)
(* calls return is an assumption.                                          *)
RunSpec ==
    /\ RunInit /\ [][RunNext]_runVars
    /\ WF_runVars(SequentialRuns)
    /\ WF_runVars(MainRuns)
    /\ \A w \in Worker : WF_runVars(SegmentRuns(w))
    /\ \A t \in Task, k \in Step : WF_runVars(QueryRuns(t, k))

-----------------------------------------------------------------------------
End == IF program = "sequential" THEN phase ELSE mpc
File == IF End \in {"saved", "aborted"} THEN End ELSE "none"

(* How often the arguments name a segment, and what the calls of the       *)
(* pipeline make of its tables when they hold each row that often.         *)
Times(segment) == Cardinality({i \in DOMAIN Segments : Segments[i] = segment})

PredictionFrom(segment, copies) ==
    LET modeled_players == FitPlayerData(Column("players", segment, copies))
        modeled_revenues ==
            FitEconomyData(Column("revenues", segment, copies), modeled_players)
        modeled_gamerounds ==
            FitGameroundData(Column("gamerounds", segment, copies), modeled_revenues)
    IN  Predict(modeled_players, modeled_revenues, modeled_gamerounds)

(* The rows of a run.  The sequential program puts the tables of all       *)
(* segments into one and selects by name, so a segment that is given twice *)
(* is modelled from both copies, in each of its rows.                      *)
PromisedTo(name) ==
    IF name = "optimized"
    THEN PromisedRows(Segments)
    ELSE [i \in DOMAIN Segments |->
             Row(Segments[i], PredictionFrom(Segments[i], Times(Segments[i])))]

Batch == INSTANCE BatchRun WITH promised <- PromisedTo(program), file <- File

(* Both programs give their rows in the order of the segments (script:143),*)
(* all of them or no file.  The optimized one gives for each segment what  *)
(* the service gives for it, the sequential one does for each that is given*)
(* once (e2e.py:43 compares them with one file).  Both end, the optimized  *)
(* one because queries do not wait for the threads that wait for them      *)
(* (script:55).                                                            *)
ImplementsBatchRun == Batch!BatchSpec
=============================================================================
