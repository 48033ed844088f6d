----------------------------- MODULE Calibration -----------------------------
(***************************************************************************)
(* _cpu_intensive of pythia_library_v1/modeling.py and of v2, which is the *)
(* same file: every fit starts by looking whether the speed of the machine *)
(* has been measured, and measures it if not; then it has a number of      *)
(* processes do as much work as fits into its time at that speed.  Threads *)
(* call it with no lock between them.                                      *)
(***************************************************************************)
EXTENDS Integers, FiniteSets

CONSTANTS
    Thread,
    MaxCount,     \* what a thread may count in its second, at most; nothing
                  \* if the machine is too busy to run it
    MaxSeconds    \* what the fits ask for, at most

VARIABLES
    itersPerSecond,  \* _ITERS_PER_SECOND; 0 is None
    pc,              \* where each thread is in its fit
    target,          \* target_iters of the fit each thread is in
    measurers        \* the threads that have measured the speed

calibrationVars == <<itersPerSecond, pc, target, measurers>>

None == 0

CalibrationInit ==
    /\ itersPerSecond = None
    /\ pc = [t \in Thread |-> "fit"]
    /\ target = [t \in Thread |-> 0]
    /\ measurers = {}

AtLeastOne(n) == IF n > 1 THEN n ELSE 1

(* "if _ITERS_PER_SECOND is None": the answer is acted on later.           *)
LookUp(t) ==
    /\ pc[t] = "fit"
    /\ pc' = [pc EXCEPT ![t] = IF itersPerSecond = None THEN "measure" ELSE "plan"]
    /\ UNCHANGED <<itersPerSecond, target, measurers>>

(* _calibrate: a second of work, then the assignment, whatever another     *)
(* thread has assigned in the meantime.                                    *)
Calibrate(t) ==
    /\ pc[t] = "measure"
    /\ \E count \in 0 .. MaxCount : itersPerSecond' = AtLeastOne(count)
    /\ measurers' = measurers \cup {t}
    /\ pc' = [pc EXCEPT ![t] = "plan"]
    /\ UNCHANGED target

(* target_iters: the variable is read again.                               *)
Plan(t) ==
    /\ pc[t] = "plan"
    /\ \E seconds \in 1 .. MaxSeconds :
          target' = [target EXCEPT ![t] = AtLeastOne(itersPerSecond * seconds)]
    /\ pc' = [pc EXCEPT ![t] = "work"]
    /\ UNCHANGED <<itersPerSecond, measurers>>

(* The rest of the call; the thread may come back with another fit.        *)
Work(t) ==
    /\ pc[t] = "work"
    /\ pc' = [pc EXCEPT ![t] = "fit"]
    /\ target' = [target EXCEPT ![t] = 0]
    /\ UNCHANGED <<itersPerSecond, measurers>>

ThreadStep(t) == LookUp(t) \/ Calibrate(t) \/ Plan(t) \/ Work(t)

CalibrationNext == \E t \in Thread : ThreadStep(t)

CalibrationSpec == CalibrationInit /\ [][CalibrationNext]_calibrationVars

-----------------------------------------------------------------------------
Measuring == {t \in Thread : pc[t] = "measure"}

TypeInv ==
    /\ itersPerSecond \in Nat
    /\ pc \in [Thread -> {"fit", "measure", "plan", "work"}]
    /\ target \in [Thread -> Nat]
    /\ measurers \subseteq Thread

(* No fit computes with a speed that is not there: between the look at the *)
(* variable and its use other threads assign it, but none takes it back    *)
(* (modeling.py:52).                                                       *)
NoFitWithoutASpeed ==
    \A t \in Thread :
       /\ pc[t] \in {"plan", "work"} => itersPerSecond # None
       /\ pc[t] = "work" => target[t] >= 1

(* The price of the missing lock: each thread measures at most once, and   *)
(* none after the threads that looked before the first assignment          *)
(* (modeling.py:52-53).                                                    *)
EachThreadMeasuresOnce ==
    /\ Measuring \cap measurers = {}
    /\ Measuring = {} /\ measurers # {} => itersPerSecond # None

(* "Measure work units per second (single thread).  Runs once per session" *)
(* (modeling.py:32).  Segments started together reach their first fit      *)
(* together, and each of them measures, on a machine the others load.      *)
RunsOncePerSession == Cardinality(measurers) <= 1
=============================================================================
