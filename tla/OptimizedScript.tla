--------------------------- MODULE OptimizedScript ---------------------------
(***************************************************************************)
(* scripts/pythia-prediction-v2-optimized.py: main submits every segment to*)
(* an executor, collects the results in the order of submission, and       *)
(* leaves the "with" block, which waits for the threads.  A segment starts *)
(* each query on a thread of its own and waits for it.                     *)
(*                                                                         *)
(* The executor is SegmentPool's; only its shutdown differs: __exit__ calls*)
(* shutdown(wait=True), which cancels nothing.                             *)
(***************************************************************************)
EXTENDS SegmentPool, Prediction

CONSTANT Segments              \* games x regions x platforms, in this order

NumSegments == Len(Segments)

ASSUME ScriptAssumption ==
    /\ NumSegments \in Nat \ {0}
    /\ DOMAIN Segments = 1 .. NumSegments
    /\ Task = 1 .. NumSegments

VARIABLES
    mpc,          \* where main is
    mpos,         \* the segment it submits or waits for
    rows,         \* results
    raised,       \* an exception is leaving the "with" block
    wpc,          \* where each thread is inside _process_segment
    wkpi,         \* the KPI it is at
    models,       \* the arrays it has so far
    query,        \* the future behind each QueryHandle
    outcome,      \* what the future of each segment holds: "none" before it
                  \* ends, then "result" or "exception"
    prediction    \* << >>, or the result

mainVars == <<mpc, mpos, rows, raised>>
threadVars == <<wpc, wkpi, models, query, outcome, prediction>>
scriptVars == <<poolVars, mainVars, threadVars>>

QueryOrder == <<"players", "revenues", "gamerounds">>
Step == DOMAIN QueryOrder

ScriptInit ==
    /\ PoolInit
    /\ mpc = "submitting"
    /\ mpos = 1
    /\ rows = << >>
    /\ raised = FALSE
    /\ wpc = [w \in Worker |-> "idle"]
    /\ wkpi = [w \in Worker |-> 1]
    /\ models = [w \in Worker |-> << >>]
    /\ query = [t \in Task |-> [k \in Step |-> "none"]]
    /\ outcome = [t \in Task |-> "none"]
    /\ prediction = [t \in Task |-> << >>]

-----------------------------------------------------------------------------
SubmitNext ==
    /\ mpc = "submitting"
    /\ mpos <= NumSegments
    /\ SubmitTask(mpos)
    /\ mpos' = mpos + 1
    /\ UNCHANGED <<mpc, rows, raised, threadVars>>

SubmitDone ==
    /\ mpc = "submitting"
    /\ mpos > NumSegments
    /\ mpc' = "collecting"
    /\ mpos' = 1
    /\ UNCHANGED <<poolVars, rows, raised, threadVars>>

(* future.result() returns.                                                *)
Collect ==
    /\ mpc = "collecting"
    /\ mpos <= NumSegments
    /\ outcome[mpos] = "result"
    /\ rows' = Append(rows, Row(Segments[mpos], prediction[mpos][1]))
    /\ mpos' = mpos + 1
    /\ UNCHANGED <<poolVars, mpc, raised, threadVars>>

(* future.result() raises: the loop is left, and so is the "with" block.   *)
CollectRaises ==
    /\ mpc = "collecting"
    /\ mpos <= NumSegments
    /\ outcome[mpos] = "exception"
    /\ mpc' = "leaving"
    /\ raised' = TRUE
    /\ UNCHANGED <<poolVars, mpos, rows, threadVars>>

CollectDone ==
    /\ mpc = "collecting"
    /\ mpos > NumSegments
    /\ mpc' = "leaving"
    /\ UNCHANGED <<poolVars, mpos, rows, raised, threadVars>>

(* __exit__: shutdown(wait=True) sets the flag, then joins the threads,    *)
(* which end when the queue is empty.                                      *)
LeaveBlock ==
    /\ mpc = "leaving"
    /\ executor = "running"
    /\ executor' = "shutdown"
    /\ UNCHANGED <<queue, future, hand, mainVars, threadVars>>

(* Mutant of Finish: shutdown(wait=False).                                 *)
FinishNoWait ==
    /\ mpc = "leaving"
    /\ executor = "shutdown"
    /\ executor' = "none"
    /\ mpc' = IF raised THEN "aborted" ELSE "saved"
    /\ UNCHANGED <<queue, future, hand, mpos, rows, raised, threadVars>>

(* The threads have ended: the exception goes on to the interpreter, or    *)
(* to_csv writes the file.                                                 *)
Finish ==
    /\ mpc = "leaving"
    /\ queue = << >>
    /\ DropExecutor
    /\ mpc' = IF raised THEN "aborted" ELSE "saved"
    /\ UNCHANGED <<mpos, rows, raised, threadVars>>

MainStep ==
    \/ SubmitNext \/ SubmitDone
    \/ Collect \/ CollectRaises \/ CollectDone
    \/ LeaveBlock \/ Finish

-----------------------------------------------------------------------------
At(w, pc, kpi) ==
    /\ wpc' = [wpc EXCEPT ![w] = pc]
    /\ wkpi' = [wkpi EXCEPT ![w] = kpi]

QueryOf(w) == query[hand[w]][wkpi[w]]

SegmentClaims(w) ==
    /\ Claim(w)
    /\ UNCHANGED <<mainVars, threadVars>>

SegmentStarts(w) ==
    /\ StartRun(w)
    /\ At(w, "asking", 1)
    /\ UNCHANGED <<mainVars, models, query, outcome, prediction>>

(* query_data_async: the query flies on a thread of its own.               *)
Ask(w) ==
    /\ wpc[w] = "asking"
    /\ query' = [query EXCEPT ![hand[w]][wkpi[w]] = "flying"]
    /\ At(w, "waiting", wkpi[w])
    /\ UNCHANGED <<poolVars, mainVars, models, outcome, prediction>>

(* Mutant of Fit: the handle keeps the exception of its query to itself.   *)
FitDespiteError(w) ==
    /\ wpc[w] = "waiting"
    /\ QueryOf(w) # "flying"
    /\ At(w, "fitting", wkpi[w])
    /\ UNCHANGED <<poolVars, mainVars, models, query, outcome, prediction>>

(* handle["column"] returns the data, and the fit that needs it begins.    *)
Fit(w) ==
    /\ wpc[w] = "waiting"
    /\ QueryOf(w) = "answered"
    /\ At(w, "fitting", wkpi[w])
    /\ UNCHANGED <<poolVars, mainVars, models, query, outcome, prediction>>

DataOf(w) == QueryData(QueryOrder[wkpi[w]], Segments[hand[w]])

Fitted(w) ==
    CASE wkpi[w] = 1 -> FitPlayerData(DataOf(w))
      [] wkpi[w] = 2 -> FitEconomyData(DataOf(w), models[w][1])
      [] wkpi[w] = 3 -> FitGameroundData(DataOf(w), models[w][2])

FitReturns(w) ==
    /\ wpc[w] = "fitting"
    /\ models' = [models EXCEPT ![w] = Append(@, Fitted(w))]
    /\ IF wkpi[w] < 3 THEN At(w, "asking", wkpi[w] + 1)
                      ELSE At(w, "predicting", wkpi[w])
    /\ UNCHANGED <<poolVars, mainVars, query, outcome, prediction>>

(* _summarize_segment returns or raises, into the segment's future.        *)
Resolve(w, result) ==
    /\ FinishRun(w)
    /\ outcome' = [outcome EXCEPT ![hand[w]] = result]
    /\ At(w, "idle", 1)
    /\ models' = [models EXCEPT ![w] = << >>]
    /\ UNCHANGED <<mainVars, query>>

Predicted(w) ==
    /\ wpc[w] = "predicting"
    /\ prediction' = [prediction EXCEPT ![hand[w]] =
                         <<Predict(models[w][1], models[w][2], models[w][3])>>]
    /\ Resolve(w, "result")

SegmentRaises(w) ==
    /\ \/ wpc[w] = "waiting" /\ QueryOf(w) = "raised"
       \/ wpc[w] \in {"fitting", "predicting"}
    /\ Resolve(w, "exception")
    /\ UNCHANGED prediction

SegmentStep(w) ==
    \/ SegmentClaims(w) \/ SegmentStarts(w)
    \/ Ask(w) \/ Fit(w) \/ FitReturns(w)
    \/ Predicted(w) \/ SegmentRaises(w)

(* Mutant of QueryEnds: queries wait for a thread of the executor that the *)
(* segments run on.                                                        *)
QueryEndsInThePool(t, k) ==
    /\ query[t][k] = "flying"
    /\ \E w \in Worker : hand[w] = NoTask
    /\ \E end \in {"answered", "raised"} : query' = [query EXCEPT ![t][k] = end]
    /\ UNCHANGED <<poolVars, mainVars, wpc, wkpi, models, outcome, prediction>>

(* The thread of a query ends with set_result or set_exception.            *)
QueryEnds(t, k) ==
    /\ query[t][k] = "flying"
    /\ \E end \in {"answered", "raised"} : query' = [query EXCEPT ![t][k] = end]
    /\ UNCHANGED <<poolVars, mainVars, wpc, wkpi, models, outcome, prediction>>

ScriptNext ==
    \/ MainStep
    \/ \E w \in Worker : SegmentStep(w)
    \/ \E t \in Task, k \in Step : QueryEnds(t, k)

(* main, the threads and the queries go on; a library call that never      *)
(* returns is not modelled.                                                *)
ScriptSpec ==
    /\ ScriptInit /\ [][ScriptNext]_scriptVars
    /\ WF_scriptVars(MainStep)
    /\ \A w \in Worker : WF_scriptVars(SegmentStep(w))
    /\ \A t \in Task, k \in Step : WF_scriptVars(QueryEnds(t, k))

-----------------------------------------------------------------------------
Flying == {q \in Task \X Step : query[q[1]][q[2]] = "flying"}

(* An exception of a query "surfaces [...] in the caller, instead of dying *)
(* quietly in a background thread" (script:40), although the thread is a   *)
(* daemon that nobody joins: no query is still in the air when its segment *)
(* has ended; one that raised fails its segment; a segment has a result,   *)
(* and the run a file, only with the data of every query.                  *)
NoQueryDiesQuietly ==
    /\ \A t \in Task, k \in Step :
          /\ query[t][k] = "flying" => future[t] = "running"
          /\ query[t][k] = "raised" => future[t] = "running" \/ outcome[t] = "exception"
          /\ outcome[t] = "result" => query[t][k] = "answered"
    /\ mpc = "saved" => \A t \in Task, k \in Step : query[t][k] = "answered"

(* "Each query starts immediately before the preceding CPU step so that    *)
(* I/O and modelling overlap within the segment" (script:88): while a fit  *)
(* runs, the query of the next one is on its way.                          *)
FetchesOverlapFits ==
    \A w \in Worker : wpc[w] = "fitting" /\ wkpi[w] < 3 =>
       query[hand[w]][wkpi[w] + 1] # "none"

(* When the script ends, nothing of it is left behind: each segment has    *)
(* been tried to its end, and the first failure in the order of submission *)
(* is the one that ended the run.                                          *)
EveryoneIsHomeAtTheEnd ==
    mpc \in {"saved", "aborted"} =>
       /\ \A t \in Task : outcome[t] # "none"
       /\ Flying = {}
       /\ mpc = "saved" <=> \A t \in Task : outcome[t] = "result"
       /\ mpc = "aborted" =>
             /\ outcome[mpos] = "exception"
             /\ rows = SubSeq(PromisedRows(Segments), 1, mpos - 1)

(* "A failing segment aborts the run here, also like v1" (script:143): once*)
(* the exception is on its way, no thread takes another segment.  Leaving  *)
(* the "with" block runs every segment that is still queued.               *)
AbortStartsNothing == [][raised => Held' \subseteq Held]_scriptVars
=============================================================================
