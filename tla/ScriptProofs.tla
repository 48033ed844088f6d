---------------------------- MODULE ScriptProofs -----------------------------
(***************************************************************************)
(* The programs of scripts/, for any number of segments and threads: what  *)
(* they leave behind, and that both give the promised rows in their order. *)
(* And the speed of the machine, which the fits of their threads share.    *)
(***************************************************************************)
EXTENDS PredictionScripts, Calibration, FiniteSetTheorems, SequenceTheorems, TLAPS

(* The pool of the script, as the proofs about SegmentPool know it.  The   *)
(* script leaves the "with" block in its own way; the lemmas needed here   *)
(* are about the queue, the futures and the threads, so this pool is taken *)
(* as one that is never shut down.                                         *)
Threads == INSTANCE SegmentPoolProofs WITH executor <- "running"

-----------------------------------------------------------------------------
(* The invariant.  First, what the arrays of a segment are after n fits of *)
(* tables that hold each of its rows c times.                              *)
Players(s, c) == FitPlayerData(Column("players", s, c))
Economy(s, c) == FitEconomyData(Column("revenues", s, c), Players(s, c))
Gamerounds(s, c) == FitGameroundData(Column("gamerounds", s, c), Economy(s, c))

Arrays(s, c, n) ==
    CASE n = 0 -> << >>
      [] n = 1 -> <<Players(s, c)>>
      [] n = 2 -> <<Players(s, c), Economy(s, c)>>
      [] n = 3 -> <<Players(s, c), Economy(s, c), Gamerounds(s, c)>>

(* The first n rows that a run of a program promises.                      *)
FirstRows(name, n) == [i \in 1 .. n |-> PromisedTo(name)[i]]

ScriptTypeOK ==
    /\ queue \in Seq(Task)
    /\ future \in [Task -> FutureState]
    /\ hand \in [Worker -> Task \cup {NoTask}]
    /\ mpc \in {"submitting", "collecting", "leaving", "saved", "aborted"}
    /\ mpos \in 1 .. NumSegments + 1
    /\ raised \in BOOLEAN
    /\ wpc \in [Worker -> {"idle", "asking", "waiting", "fitting", "predicting"}]
    /\ wkpi \in [Worker -> Step]
    /\ DOMAIN models = Worker
    /\ query \in [Task -> [Step -> {"none", "flying", "answered", "raised"}]]
    /\ outcome \in [Task -> {"none", "result", "exception"}]
    /\ DOMAIN prediction = Task

Fits(w) ==
    CASE wpc[w] = "idle" -> 0
      [] wpc[w] = "predicting" -> 3
      [] OTHER -> wkpi[w] - 1

(* A thread inside _process_segment runs the call it has claimed; its      *)
(* queries before the one it is at are answered, those after it have not   *)
(* begun, and its arrays are what the service would have by now.           *)
ThreadAgrees(w) ==
    /\ wpc[w] = "idle" => hand[w] = NoTask \/ future[hand[w]] = "pending"
    /\ wpc[w] # "idle" => hand[w] \in Task /\ future[hand[w]] = "running"
    /\ wpc[w] = "predicting" => wkpi[w] = 3
    /\ models[w] = Arrays(Segments[hand[w]], 1, Fits(w))
    /\ wpc[w] # "idle" => \A k \in Step :
          /\ k < wkpi[w] => query[hand[w]][k] = "answered"
          /\ k > wkpi[w] => query[hand[w]][k] = "none"
          /\ k = wkpi[w] /\ wpc[w] = "asking" => query[hand[w]][k] = "none"
          /\ k = wkpi[w] /\ wpc[w] \in {"fitting", "predicting"} =>
                query[hand[w]][k] = "answered"

(* A call that has not begun has asked for nothing; one that has ended has *)
(* an outcome and no query in the air; a result is the service's, and every*)
(* query behind it was answered.                                           *)
TaskAgrees(t) ==
    /\ future[t] # "cancelled"
    /\ future[t] \in {"none", "pending"} => \A k \in Step : query[t][k] = "none"
    /\ future[t] = "finished" => \A k \in Step : query[t][k] # "flying"
    /\ future[t] = "finished" <=> outcome[t] # "none"
    /\ outcome[t] = "result" =>
          /\ prediction[t] = <<SegmentPrediction(Segments[t])>>
          /\ \A k \in Step : query[t][k] = "answered"

Ended == mpc \in {"saved", "aborted"}

(* Where main is says what has been submitted and collected, and why it    *)
(* leaves.                                                                 *)
MainAgrees ==
    /\ mpc = "submitting" =>
          \A t \in Task : future[t] = "none" <=> t >= mpos
    /\ mpc # "submitting" =>
          /\ \A t \in Task : future[t] # "none"
          /\ \A t \in 1 .. mpos - 1 : outcome[t] = "result"
    /\ raised =>
          /\ mpc \in {"leaving", "aborted"}
          /\ mpos <= NumSegments
          /\ outcome[mpos] = "exception"
    /\ (mpc = "leaving" \/ Ended) /\ ~ raised => mpos = NumSegments + 1
    /\ mpc = "saved" => ~ raised
    /\ mpc = "aborted" => raised
    /\ Ended => queue = << >> /\ \A w \in Worker : hand[w] = NoTask

ScriptInv ==
    /\ ScriptTypeOK
    /\ OneThreadPerTask
    /\ \A w \in Worker : ThreadAgrees(w)
    /\ \A t \in Task : TaskAgrees(t)
    /\ MainAgrees

(* The rows main has collected; the sequential program shares the variable.*)
RowsAgree == rows = FirstRows("optimized", IF mpc = "submitting" THEN 0 ELSE mpos - 1)

-----------------------------------------------------------------------------
(* What a step of the pool leaves behind, whatever the executor is.        *)
PoolOK ==
    /\ queue \in Seq(Task)
    /\ future \in [Task -> FutureState]
    /\ hand \in [Worker -> Task \cup {NoTask}]
    /\ OneThreadPerTask

LEMMA PoolIsThreads ==
    /\ Threads!PoolAssumption
    /\ PoolOK <=> Threads!PoolInv
    /\ PoolOK' <=> Threads!PoolInv'
<1>1. Threads!PoolAssumption
  BY PoolAssumption
     DEF PoolAssumption, Threads!PoolAssumption, IsFiniteSet, Threads!IsFiniteSet
<1>2. PoolOK <=> Threads!PoolInv
  BY DEF PoolOK, Threads!PoolInv, Threads!PoolTypeOK, Threads!OneThreadPerTask,
         Threads!StoppedPoolIsQuiet, Threads!ExecutorState, Threads!FutureState,
         OneThreadPerTask, FutureState, Queued, Held, Threads!Queued, Threads!Held
<1>3. PoolOK' <=> Threads!PoolInv'
  BY DEF PoolOK, Threads!PoolInv, Threads!PoolTypeOK, Threads!OneThreadPerTask,
         Threads!StoppedPoolIsQuiet, Threads!ExecutorState, Threads!FutureState,
         OneThreadPerTask, FutureState, Queued, Held, Threads!Queued, Threads!Held
<1> QED
  BY <1>1, <1>2, <1>3

LEMMA PoolKept ==
    ASSUME PoolOK,
           \/ \E t \in Task : SubmitOnce(t)
           \/ \E w \in Worker : Claim(w) \/ StartRun(w) \/ FinishRun(w)
    PROVE  PoolOK'
<1> USE PoolIsThreads
<1>1. ASSUME NEW t \in Task, SubmitOnce(t) PROVE PoolOK'
  <2>1. Threads!SubmitOnce(t)
    BY <1>1 DEF SubmitOnce, SubmitTask, Threads!SubmitOnce, Threads!SubmitTask
  <2> QED
    BY <2>1, Threads!SubmitInv
<1>2. ASSUME NEW w \in Worker, Claim(w) \/ StartRun(w) \/ FinishRun(w) PROVE PoolOK'
  <2>1. Threads!WorkerStep(w)
    BY <1>2 DEF Claim, StartRun, FinishRun, Threads!WorkerStep, Threads!Claim,
                Threads!StartRun, Threads!FinishRun
  <2> QED
    BY <2>1, Threads!WorkerStepInv
<1> QED
  BY <1>1, <1>2

-----------------------------------------------------------------------------
(* What an action leaves alone stays as the invariant has it.              *)
LEMMA StepIs == Step = 1 .. 3 /\ NumSegments \in Nat \ {0} /\ Task = 1 .. NumSegments
  BY ScriptAssumption DEF Step, QueryOrder

LEMMA ThreadFrame ==
    ASSUME NEW w \in Worker, ThreadAgrees(w), hand[w] \in Task \cup {NoTask},
           hand'[w] = hand[w], wpc'[w] = wpc[w], wkpi'[w] = wkpi[w],
           models'[w] = models[w],
           hand[w] \in Task => /\ future'[hand[w]] = future[hand[w]]
                               /\ query'[hand[w]] = query[hand[w]]
    PROVE  ThreadAgrees(w)'
<1>1. Fits(w)' = Fits(w)
  BY DEF Fits
<1>2. models'[w] = Arrays(Segments[hand'[w]], 1, Fits(w)')
  BY <1>1 DEF ThreadAgrees
<1>3. CASE hand[w] \in Task
  BY <1>2, <1>3 DEF ThreadAgrees
<1>4. CASE hand[w] = NoTask
  <2>1. wpc[w] = "idle" \/ hand[w] \in Task
    BY DEF ThreadAgrees
  <2> QED
    BY <1>2, <1>3, <1>4, <2>1 DEF ThreadAgrees
<1> QED
  BY <1>3, <1>4

LEMMA TaskFrame ==
    ASSUME NEW t \in Task, TaskAgrees(t),
           future'[t] = future[t], query'[t] = query[t],
           outcome'[t] = outcome[t], prediction'[t] = prediction[t]
    PROVE  TaskAgrees(t)'
  BY DEF TaskAgrees

(* A thread that goes on, or a query, does not disturb main; it does not   *)
(* go on after the end.                                                    *)
LEMMA MainFrame ==
    ASSUME ScriptTypeOK, MainAgrees, UNCHANGED <<mpc, mpos, raised>>,
           \A t \in Task : future'[t] = "none" <=> future[t] = "none",
           \A t \in Task : outcome[t] # "none" => outcome'[t] = outcome[t],
           Ended => UNCHANGED <<queue, hand>>
    PROVE  MainAgrees'
<1>1. /\ mpos \in 1 .. NumSegments + 1 /\ mpos' = mpos /\ mpc' = mpc
      /\ raised' = raised /\ (Ended' <=> Ended)
  BY DEF ScriptTypeOK, Ended
<1>2. ASSUME NEW t \in 1 .. mpos - 1 PROVE t \in Task
  BY <1>1, <1>2, StepIs
<1>3. mpos <= NumSegments => mpos \in Task
  BY <1>1, StepIs
<1>4. mpc # "submitting" =>
        /\ \A t \in Task : future'[t] # "none"
        /\ \A t \in 1 .. mpos - 1 : outcome'[t] = "result"
  BY <1>2 DEF MainAgrees
<1>5. raised =>
        /\ mpc \in {"leaving", "aborted"}
        /\ mpos <= NumSegments
        /\ outcome'[mpos] = "exception"
  BY <1>3 DEF MainAgrees
<1>6. Ended => queue' = << >> /\ \A w \in Worker : hand'[w] = NoTask
  BY DEF MainAgrees
<1> QED
  BY <1>1, <1>4, <1>5, <1>6 DEF MainAgrees

(* A thread that holds a task: the task is in no queue and in no other     *)
(* hand, and main has not ended.                                           *)
LEMMA HeldOnce ==
    ASSUME ScriptInv, NEW w \in Worker, hand[w] # NoTask
    PROVE  /\ hand[w] \in Task /\ ~ Ended
           /\ \A v \in Worker : v # w => hand[v] # hand[w]
<1>1. hand[w] \in Task
  BY DEF ScriptInv, ScriptTypeOK
<1>2. ~ Ended
  BY DEF ScriptInv, MainAgrees
<1>3. \A v \in Worker : v # w => hand[v] # hand[w]
  BY DEF ScriptInv, OneThreadPerTask
<1> QED
  BY <1>1, <1>2, <1>3

LEMMA ScriptPool == ScriptInv => PoolOK /\ NoTask \notin Task
  BY PoolAssumption DEF ScriptInv, ScriptTypeOK, PoolOK

-----------------------------------------------------------------------------
LEMMA ScriptInitInv == ScriptInit => ScriptInv /\ RowsAgree
<1> SUFFICES ASSUME ScriptInit PROVE ScriptInv /\ RowsAgree
  OBVIOUS
<1> USE StepIs DEF ScriptInit, PoolInit
<1>1. ScriptTypeOK
  <2>1. query \in [Task -> [Step -> {"none", "flying", "answered", "raised"}]]
    OBVIOUS
  <2>2. mpos \in 1 .. NumSegments + 1 /\ wkpi \in [Worker -> Step]
    OBVIOUS
  <2>3. /\ queue \in Seq(Task)
        /\ future \in [Task -> FutureState]
        /\ hand \in [Worker -> Task \cup {NoTask}]
    BY DEF FutureState
  <2> QED
    BY <2>1, <2>2, <2>3 DEF ScriptTypeOK
<1>2. OneThreadPerTask
  BY PoolAssumption DEF OneThreadPerTask, Queued, Held
<1>3. ASSUME NEW w \in Worker PROVE ThreadAgrees(w)
  BY DEF ThreadAgrees, Fits, Arrays
<1>4. ASSUME NEW t \in Task PROVE TaskAgrees(t)
  BY DEF TaskAgrees
<1>5. MainAgrees
  BY DEF MainAgrees, Ended
<1>6. RowsAgree
  <2>1. FirstRows("optimized", 0) = << >>
    BY DEF FirstRows
  <2> QED
    BY <2>1 DEF RowsAgree
<1> QED
  BY <1>1, <1>2, <1>3, <1>4, <1>5, <1>6 DEF ScriptInv

-----------------------------------------------------------------------------
(* main.                                                                   *)
LEMMA SubmitNextInv == ASSUME ScriptInv, SubmitNext PROVE ScriptInv'
<1> USE StepIs
<1>1. /\ mpc = "submitting" /\ mpos \in Task /\ future[mpos] = "none"
      /\ mpos' = mpos + 1 /\ future' = [future EXCEPT ![mpos] = "pending"]
      /\ SubmitOnce(mpos)
      /\ UNCHANGED <<hand, mpc, raised, wpc, wkpi, models, query, outcome, prediction>>
  BY DEF SubmitNext, SubmitOnce, SubmitTask, threadVars, ScriptInv, ScriptTypeOK, MainAgrees
<1>2. PoolOK'
  BY <1>1, ScriptPool, PoolKept
<1>3. /\ future'[mpos] = "pending"
      /\ \A t \in Task : t # mpos => future'[t] = future[t]
  BY <1>1 DEF ScriptInv, ScriptTypeOK
<1>4. ScriptTypeOK'
  BY <1>1, <1>2 DEF PoolOK, ScriptInv, ScriptTypeOK
<1>5. ASSUME NEW w \in Worker PROVE ThreadAgrees(w)'
  <2>1. hand[w] # mpos
    BY <1>1, PoolAssumption DEF ScriptInv, OneThreadPerTask, Held
  <2> QED
    BY <1>1, <1>3, <2>1, ThreadFrame DEF ScriptInv, ScriptTypeOK
<1>6. ASSUME NEW t \in Task PROVE TaskAgrees(t)'
  <2>1. CASE t = mpos
    BY <1>1, <1>3, <2>1 DEF ScriptInv, TaskAgrees
  <2>2. CASE t # mpos
    BY <1>1, <1>3, <2>2, TaskFrame DEF ScriptInv
  <2> QED
    BY <2>1, <2>2
<1>7. MainAgrees'
  <2>1. \A t \in Task : future'[t] = "none" <=> t >= mpos + 1
    BY <1>1, <1>3 DEF ScriptInv, MainAgrees
  <2>2. ~ raised /\ ~ Ended
    BY <1>1 DEF ScriptInv, MainAgrees, Ended
  <2> QED
    BY <1>1, <2>1, <2>2 DEF MainAgrees, Ended
<1> QED
  BY <1>2, <1>4, <1>5, <1>6, <1>7 DEF ScriptInv, PoolOK

(* The steps of main that leave the pool's work and the threads alone.     *)
LEMMA MainAloneInv ==
    ASSUME ScriptInv, MainAgrees', UNCHANGED <<queue, future, hand, threadVars>>,
           mpc' \in {"submitting", "collecting", "leaving", "saved", "aborted"},
           mpos' \in 1 .. NumSegments + 1, raised' \in BOOLEAN
    PROVE  ScriptInv'
<1>1. UNCHANGED <<wpc, wkpi, models, query, outcome, prediction>>
  BY DEF threadVars
<1>2. ScriptTypeOK'
  BY <1>1 DEF ScriptInv, ScriptTypeOK
<1>3. OneThreadPerTask'
  BY DEF ScriptInv, OneThreadPerTask, Queued, Held
<1>4. ASSUME NEW w \in Worker PROVE ThreadAgrees(w)'
  BY <1>1, ThreadFrame DEF ScriptInv, ScriptTypeOK
<1>5. ASSUME NEW t \in Task PROVE TaskAgrees(t)'
  BY <1>1, TaskFrame DEF ScriptInv
<1> QED
  BY <1>2, <1>3, <1>4, <1>5 DEF ScriptInv

LEMMA CollectInv ==
    ASSUME ScriptInv,
           SubmitDone \/ Collect \/ CollectRaises \/ CollectDone \/ LeaveBlock
    PROVE  ScriptInv'
<1> USE StepIs
<1>1. mpos \in 1 .. NumSegments + 1 /\ raised \in BOOLEAN
  BY DEF ScriptInv, ScriptTypeOK
<1>2. CASE SubmitDone
  <2>1. /\ mpc' = "collecting" /\ mpos' = 1 /\ mpc = "submitting"
        /\ \A t \in Task : future[t] # "none"
        /\ raised' = raised /\ ~ raised
        /\ UNCHANGED <<queue, future, hand, threadVars>>
    BY <1>1, <1>2 DEF SubmitDone, poolVars, ScriptInv, MainAgrees
  <2>2. MainAgrees'
    BY <2>1 DEF MainAgrees, Ended
  <2> QED
    BY <1>1, <2>1, <2>2, MainAloneInv
<1>3. CASE Collect
  <2>1. /\ mpc' = mpc /\ mpc = "collecting" /\ mpos \in Task /\ mpos' = mpos + 1
        /\ outcome[mpos] = "result" /\ raised' = raised /\ ~ raised
        /\ UNCHANGED <<queue, future, hand, threadVars>> /\ outcome' = outcome
    BY <1>1, <1>3 DEF Collect, poolVars, threadVars, ScriptInv, MainAgrees
  <2>2. \A t \in 1 .. mpos' - 1 : outcome'[t] = "result"
    BY <1>1, <2>1 DEF ScriptInv, MainAgrees
  <2>3. MainAgrees'
    BY <2>1, <2>2 DEF ScriptInv, MainAgrees, Ended
  <2> QED
    BY <1>1, <2>1, <2>3, MainAloneInv
<1>4. CASE CollectRaises
  <2>1. /\ mpc' = "leaving" /\ mpc = "collecting" /\ mpos \in Task /\ mpos' = mpos
        /\ outcome[mpos] = "exception" /\ raised' = TRUE
        /\ UNCHANGED <<queue, future, hand, threadVars>> /\ outcome' = outcome
    BY <1>1, <1>4 DEF CollectRaises, poolVars, threadVars
  <2>2. MainAgrees'
    BY <1>1, <2>1 DEF ScriptInv, MainAgrees, Ended
  <2> QED
    BY <1>1, <2>1, <2>2, MainAloneInv
<1>5. CASE CollectDone
  <2>1. /\ mpc' = "leaving" /\ mpc = "collecting" /\ mpos = NumSegments + 1
        /\ mpos' = mpos /\ raised' = raised /\ ~ raised
        /\ UNCHANGED <<queue, future, hand, threadVars>> /\ outcome' = outcome
    BY <1>1, <1>5 DEF CollectDone, poolVars, threadVars, ScriptInv, MainAgrees
  <2>2. MainAgrees'
    BY <1>1, <2>1 DEF ScriptInv, MainAgrees, Ended
  <2> QED
    BY <1>1, <2>1, <2>2, MainAloneInv
<1>6. CASE LeaveBlock
  <2>1. /\ mpc' = mpc /\ mpos' = mpos /\ raised' = raised
        /\ UNCHANGED <<queue, future, hand, threadVars>> /\ outcome' = outcome
    BY <1>6 DEF LeaveBlock, mainVars, threadVars
  <2>2. MainAgrees'
    BY <2>1, MainFrame DEF ScriptInv
  <2> QED
    BY <1>1, <2>1, <2>2, MainAloneInv DEF ScriptInv, ScriptTypeOK
<1> QED
  BY <1>2, <1>3, <1>4, <1>5, <1>6

LEMMA FinishInv == ASSUME ScriptInv, Finish PROVE ScriptInv'
<1> USE StepIs
<1>1. /\ mpos' = mpos /\ raised' = raised /\ raised \in BOOLEAN
      /\ mpos \in 1 .. NumSegments + 1 /\ mpc = "leaving"
      /\ mpc' = IF raised THEN "aborted" ELSE "saved"
      /\ queue = << >> /\ \A w \in Worker : hand[w] = NoTask
      /\ UNCHANGED <<queue, future, hand, threadVars>> /\ outcome' = outcome
  BY DEF Finish, DropExecutor, threadVars, ScriptInv, ScriptTypeOK
<1>2. MainAgrees'
  BY <1>1 DEF ScriptInv, MainAgrees, Ended
<1> QED
  BY <1>1, <1>2, MainAloneInv

LEMMA HeldFrame ==
    ASSUME OneThreadPerTask, UNCHANGED <<queue, future, hand>> PROVE OneThreadPerTask'
  BY DEF OneThreadPerTask, Queued, Held

-----------------------------------------------------------------------------
(* The threads.  The call a thread is in moves on: nothing else does.      *)
LEMMA CallGoesOn ==
    ASSUME ScriptInv, NEW w \in Worker, wpc[w] # "idle",
           UNCHANGED <<poolVars, mainVars, outcome, prediction>>,
           NEW p \in {"asking", "waiting", "fitting", "predicting"}, NEW k \in Step,
           At(w, p, k),
           query' \in [Task -> [Step -> {"none", "flying", "answered", "raised"}]],
           \A t \in Task : t # hand[w] => query'[t] = query[t],
           DOMAIN models' = Worker,
           \A v \in Worker : v # w => models'[v] = models[v],
           ThreadAgrees(w)'
    PROVE  ScriptInv'
<1>1. /\ UNCHANGED <<queue, future, hand, mpc, mpos, raised, outcome, prediction>>
      /\ wpc' = [wpc EXCEPT ![w] = p] /\ wkpi' = [wkpi EXCEPT ![w] = k]
  BY DEF poolVars, mainVars, At
<1>2. hand[w] \in Task /\ future[hand[w]] = "running"
  BY DEF ScriptInv, ThreadAgrees
<1>3. ScriptTypeOK'
  <2>0. ScriptTypeOK
    BY DEF ScriptInv
  <2>1. /\ wpc' \in [Worker -> {"idle", "asking", "waiting", "fitting", "predicting"}]
        /\ wkpi' \in [Worker -> Step]
    BY <1>1, <2>0 DEF ScriptTypeOK
  <2> QED
    BY <1>1, <2>0, <2>1 DEF ScriptTypeOK
<1>4. OneThreadPerTask'
  <2>1. OneThreadPerTask
    BY DEF ScriptInv
  <2> QED
    BY <1>1, <2>1, HeldFrame
<1>5. ASSUME NEW v \in Worker, v # w PROVE ThreadAgrees(v)'
  <2>1. hand[v] # hand[w]
    BY <1>2, <1>5, HeldOnce, ScriptPool
  <2>2. wpc'[v] = wpc[v] /\ wkpi'[v] = wkpi[v]
    BY <1>1, <1>5 DEF ScriptInv, ScriptTypeOK
  <2> QED
    BY <1>1, <1>5, <2>1, <2>2, ThreadFrame DEF ScriptInv, ScriptTypeOK
<1>6. ASSUME NEW t \in Task PROVE TaskAgrees(t)'
  <2>1. CASE t = hand[w]
    BY <1>1, <1>2, <2>1 DEF ScriptInv, TaskAgrees
  <2>2. CASE t # hand[w]
    BY <1>1, <2>2, TaskFrame DEF ScriptInv
  <2> QED
    BY <2>1, <2>2
<1>7. MainAgrees'
  BY <1>1, MainFrame DEF ScriptInv
<1> QED
  BY <1>3, <1>4, <1>5, <1>6, <1>7 DEF ScriptInv

LEMMA CallFacts ==
    ASSUME ScriptInv, NEW w \in Worker, wpc[w] # "idle"
    PROVE  /\ hand[w] \in Task /\ future[hand[w]] = "running"
           /\ wkpi[w] \in 1 .. 3 /\ wpc \in [Worker -> {"idle", "asking", "waiting", "fitting", "predicting"}]
           /\ query[hand[w]] \in [Step -> {"none", "flying", "answered", "raised"}]
           /\ \A v \in Worker : v # w => hand[v] # hand[w]
           /\ ~ Ended
<1>1. hand[w] \in Task /\ future[hand[w]] = "running"
  BY DEF ScriptInv, ThreadAgrees
<1> QED
  BY <1>1, HeldOnce, ScriptPool, StepIs DEF ScriptInv, ScriptTypeOK

LEMMA AskInv == ASSUME ScriptInv, NEW w \in Worker, Ask(w) PROVE ScriptInv'
<1> USE StepIs
<1>1. /\ wpc[w] = "asking" /\ At(w, "waiting", wkpi[w])
      /\ query' = [query EXCEPT ![hand[w]][wkpi[w]] = "flying"]
      /\ UNCHANGED <<poolVars, mainVars, models, outcome, prediction>>
  BY DEF Ask
<1>2. hand[w] \in Task /\ wkpi[w] \in Step
  BY <1>1, CallFacts
<1>3. /\ query' \in [Task -> [Step -> {"none", "flying", "answered", "raised"}]]
      /\ \A t \in Task : t # hand[w] => query'[t] = query[t]
      /\ \A k \in Step : k # wkpi[w] => query'[hand[w]][k] = query[hand[w]][k]
  BY <1>1, <1>2 DEF ScriptInv, ScriptTypeOK
<1>4. /\ wpc'[w] = "waiting" /\ wkpi'[w] = wkpi[w] /\ hand' = hand
      /\ future' = future /\ models' = models /\ DOMAIN models = Worker
  BY <1>1 DEF At, poolVars, ScriptInv, ScriptTypeOK
<1>5. ThreadAgrees(w)'
  <2>1. Fits(w)' = Fits(w)
    BY <1>1, <1>4 DEF Fits
  <2> QED
    BY <1>1, <1>2, <1>3, <1>4, <2>1 DEF ScriptInv, ThreadAgrees
<1> QED
  BY <1>1, <1>2, <1>3, <1>4, <1>5, CallGoesOn

LEMMA FitInv == ASSUME ScriptInv, NEW w \in Worker, Fit(w) PROVE ScriptInv'
<1> USE StepIs
<1>1. /\ wpc[w] = "waiting" /\ query[hand[w]][wkpi[w]] = "answered"
      /\ At(w, "fitting", wkpi[w]) /\ query' = query
      /\ UNCHANGED <<poolVars, mainVars, models, outcome, prediction>>
  BY DEF Fit, QueryOf
<1>2. hand[w] \in Task /\ wkpi[w] \in Step
  BY <1>1, CallFacts
<1>3. /\ wpc'[w] = "fitting" /\ wkpi'[w] = wkpi[w] /\ hand' = hand
      /\ future' = future /\ models' = models /\ DOMAIN models = Worker
      /\ query \in [Task -> [Step -> {"none", "flying", "answered", "raised"}]]
  BY <1>1 DEF At, poolVars, ScriptInv, ScriptTypeOK
<1>4. ThreadAgrees(w)'
  <2>1. Fits(w)' = Fits(w)
    BY <1>1, <1>3 DEF Fits
  <2> QED
    BY <1>1, <1>2, <1>3, <2>1 DEF ScriptInv, ThreadAgrees
<1> QED
  BY <1>1, <1>2, <1>3, <1>4, CallGoesOn

(* A sequence is another one with an element appended if it agrees with it *)
(* in all places but the last.                                             *)
LEMMA AppendIs ==
    ASSUME NEW S, NEW q \in Seq(S), NEW e \in S, NEW p \in Seq(S),
           Len(p) = Len(q) + 1, p[Len(q) + 1] = e,
           \A i \in 1 .. Len(q) : p[i] = q[i]
    PROVE  Append(q, e) = p
<1> DEFINE longer == Append(q, e)
<1>1. /\ longer \in Seq(S) /\ Len(longer) = Len(q) + 1 /\ Len(q) \in Nat
      /\ longer[Len(q) + 1] = e /\ \A i \in 1 .. Len(q) : longer[i] = q[i]
  BY AppendProperties
<1> HIDE DEF longer
<1>2. ASSUME NEW i \in 1 .. Len(longer) PROVE longer[i] = p[i]
  <2>1. CASE i = Len(q) + 1
    BY <1>1, <2>1
  <2>2. CASE i \in 1 .. Len(q)
    BY <1>1, <2>2
  <2> QED
    BY <1>1, <2>1, <2>2
<1>3. longer = p
  BY <1>1, <1>2, SeqEqual
<1> QED
  BY <1>3 DEF longer

LEMMA AppendToOneOrTwo ==
    ASSUME NEW x, NEW y, NEW z
    PROVE  Append(<<x>>, y) = <<x, y>> /\ Append(<<x, y>>, z) = <<x, y, z>>
<1> DEFINE S == {x, y, z}
           one == <<x>>
           two == <<x, y>>
           three == <<x, y, z>>
<1>1. /\ one \in Seq(S) /\ two \in Seq(S) /\ three \in Seq(S)
      /\ Len(one) = 1 /\ Len(two) = 2 /\ Len(three) = 3
      /\ one[1] = x /\ two[1] = x /\ two[2] = y
      /\ three[1] = x /\ three[2] = y /\ three[3] = z
      /\ x \in S /\ y \in S /\ z \in S
  OBVIOUS
<1> HIDE DEF S, one, two, three
<1>2. Append(one, y) = two
  <2>1. /\ Len(two) = Len(one) + 1 /\ two[Len(one) + 1] = y
        /\ \A i \in 1 .. Len(one) : two[i] = one[i]
    BY <1>1
  <2> QED
    BY <1>1, <2>1, AppendIs
<1>3. Append(two, z) = three
  <2>1. /\ Len(three) = Len(two) + 1 /\ three[Len(two) + 1] = z
        /\ \A i \in 1 .. Len(two) : three[i] = two[i]
    BY <1>1
  <2> QED
    BY <1>1, <2>1, AppendIs
<1> QED
  BY <1>2, <1>3 DEF one, two, three

(* What the service reports is what comes of tables with each row once.    *)
LEMMA ServicePredicts == ASSUME NEW s PROVE SegmentPrediction(s) = PredictionFrom(s, 1)
  BY DEF SegmentPrediction, PredictionFrom, RunPrediction, FitPlayers, FitEconomy,
         FitGamerounds, FetchPlayers, FetchRevenues, FetchGamerounds, QueryData

(* A fit makes the array that process_segment would have made.             *)
LEMMA NextArray ==
    ASSUME ScriptInv, NEW w \in Worker, wpc[w] = "fitting"
    PROVE  Append(models[w], Fitted(w)) = Arrays(Segments[hand[w]], 1, wkpi[w])
<1> DEFINE s == Segments[hand[w]]
<1>1. models[w] = Arrays(s, 1, wkpi[w] - 1) /\ wkpi[w] \in 1 .. 3
  BY CallFacts DEF ScriptInv, ThreadAgrees, Fits
<1> HIDE DEF s
<1>2. CASE wkpi[w] = 1
  <2>1. models[w] = << >> /\ Fitted(w) = Players(s, 1)
    BY <1>1, <1>2 DEF Arrays, Fitted, DataOf, QueryOrder, QueryData, Players, s
  <2> QED
    BY <1>2, <2>1 DEF Arrays, s
<1>3. CASE wkpi[w] = 2
  <2>1. models[w] = <<Players(s, 1)>> /\ Fitted(w) = Economy(s, 1)
    BY <1>1, <1>3 DEF Arrays, Fitted, DataOf, QueryOrder, QueryData, Economy, s
  <2>2. Append(<<Players(s, 1)>>, Economy(s, 1)) = <<Players(s, 1), Economy(s, 1)>>
    BY AppendToOneOrTwo
  <2> QED
    BY <1>3, <2>1, <2>2 DEF Arrays, s
<1>4. CASE wkpi[w] = 3
  <2>1. models[w] = <<Players(s, 1), Economy(s, 1)>> /\ Fitted(w) = Gamerounds(s, 1)
    BY <1>1, <1>4 DEF Arrays, Fitted, DataOf, QueryOrder, QueryData, Gamerounds,
                      s
  <2>2. Append(<<Players(s, 1), Economy(s, 1)>>, Gamerounds(s, 1)) =
           <<Players(s, 1), Economy(s, 1), Gamerounds(s, 1)>>
    BY AppendToOneOrTwo
  <2> QED
    BY <1>4, <2>1, <2>2 DEF Arrays, s
<1> QED
  BY <1>1, <1>2, <1>3, <1>4

LEMMA FitReturnsInv ==
    ASSUME ScriptInv, NEW w \in Worker, FitReturns(w) PROVE ScriptInv'
<1> USE StepIs
<1> DEFINE p == IF wkpi[w] < 3 THEN "asking" ELSE "predicting"
           k == IF wkpi[w] < 3 THEN wkpi[w] + 1 ELSE wkpi[w]
<1>1. /\ wpc[w] = "fitting" /\ At(w, p, k) /\ query' = query
      /\ models' = [models EXCEPT ![w] = Append(models[w], Fitted(w))]
      /\ UNCHANGED <<poolVars, mainVars, outcome, prediction>>
  BY DEF FitReturns
<1>2. hand[w] \in Task /\ wkpi[w] \in 1 .. 3 /\ k \in Step
  BY <1>1, CallFacts
<1>3. /\ wpc'[w] = p /\ wkpi'[w] = k /\ hand' = hand /\ future' = future
      /\ DOMAIN models' = Worker /\ \A v \in Worker : v # w => models'[v] = models[v]
      /\ models'[w] = Append(models[w], Fitted(w))
      /\ query \in [Task -> [Step -> {"none", "flying", "answered", "raised"}]]
  BY <1>1 DEF At, poolVars, ScriptInv, ScriptTypeOK
<1>4. ThreadAgrees(w)'
  <2>1. Fits(w)' = wkpi[w]
    BY <1>2, <1>3 DEF Fits
  <2>2. models'[w] = Arrays(Segments[hand'[w]], 1, Fits(w)')
    BY <1>1, <1>3, <2>1, NextArray
  <2> QED
    BY <1>1, <1>2, <1>3, <2>2 DEF ScriptInv, ThreadAgrees
<1> QED
  BY <1>1, <1>2, <1>3, <1>4, CallGoesOn

LEMMA NoArrays == ASSUME NEW s, NEW c PROVE Arrays(s, c, 0) = << >>
  BY DEF Arrays

LEMMA IdleHasNothing ==
    ASSUME ScriptInv, NEW w \in Worker, wpc[w] = "idle" PROVE models[w] = << >>
<1>1. Fits(w) = 0
  BY DEF Fits
<1> QED
  BY <1>1, NoArrays DEF ScriptInv, ThreadAgrees

LEMMA ClaimsInv ==
    ASSUME ScriptInv, NEW w \in Worker, SegmentClaims(w) PROVE ScriptInv'
<1>1. /\ hand[w] = NoTask /\ queue # << >> /\ Claim(w)
      /\ hand' = [hand EXCEPT ![w] = Head(queue)]
      /\ UNCHANGED <<future, mpc, mpos, raised, wpc, wkpi, models, query, outcome, prediction>>
  BY DEF SegmentClaims, Claim, mainVars, threadVars
<1>2. PoolOK'
  BY <1>1, ScriptPool, PoolKept
<1>3. Head(queue) \in Queued /\ Head(queue) \in Task
  <2>1. queue \in Seq(Task)
    BY DEF ScriptInv, ScriptTypeOK
  <2>2. Head(queue) = queue[1] /\ 1 \in DOMAIN queue /\ Head(queue) \in Task
    BY <1>1, <2>1
  <2> QED
    BY <2>2 DEF Queued
<1>4. future[Head(queue)] = "pending"
  BY <1>3 DEF ScriptInv, ScriptTypeOK, OneThreadPerTask, TaskAgrees, FutureState
<1>5. /\ hand'[w] = Head(queue)
      /\ \A v \in Worker : v # w => hand'[v] = hand[v]
  BY <1>1 DEF ScriptInv, ScriptTypeOK
<1>6. ScriptTypeOK'
  BY <1>1, <1>2 DEF PoolOK, ScriptInv, ScriptTypeOK
<1>7. ASSUME NEW v \in Worker PROVE ThreadAgrees(v)'
  <2>1. CASE v = w
    <3>1. wpc[w] = "idle" /\ models[w] = << >>
      BY <1>1, ScriptPool, IdleHasNothing DEF ScriptInv, ThreadAgrees
    <3>2. Arrays(Segments[hand'[w]], 1, Fits(w)') = << >>
      BY <1>1, <3>1 DEF Fits, Arrays
    <3> QED
      BY <1>1, <1>4, <1>5, <2>1, <3>1, <3>2 DEF ThreadAgrees
  <2>2. CASE v # w
    BY <1>1, <1>5, <2>2, ThreadFrame DEF ScriptInv, ScriptTypeOK
  <2> QED
    BY <2>1, <2>2
<1>8. ASSUME NEW t \in Task PROVE TaskAgrees(t)'
  BY <1>1, TaskFrame DEF ScriptInv
<1>9. MainAgrees'
  <2>1. ~ Ended
    BY <1>1 DEF ScriptInv, MainAgrees
  <2> QED
    BY <1>1, <2>1, MainFrame DEF ScriptInv
<1> QED
  BY <1>2, <1>6, <1>7, <1>8, <1>9 DEF ScriptInv, PoolOK

LEMMA StartsInv ==
    ASSUME ScriptInv, NEW w \in Worker, SegmentStarts(w) PROVE ScriptInv'
<1> USE StepIs
<1>1. /\ hand[w] # NoTask /\ future[hand[w]] = "pending" /\ StartRun(w)
      /\ future' = [future EXCEPT ![hand[w]] = "running"]
      /\ wpc' = [wpc EXCEPT ![w] = "asking"] /\ wkpi' = [wkpi EXCEPT ![w] = 1]
      /\ UNCHANGED <<queue, hand, mpc, mpos, raised, models, query, outcome, prediction>>
  BY DEF SegmentStarts, StartRun, At, mainVars
<1>2. PoolOK'
  BY <1>1, ScriptPool, PoolKept
<1>3. /\ hand[w] \in Task /\ ~ Ended
      /\ \A v \in Worker : v # w => hand[v] # hand[w]
  BY <1>1, HeldOnce
<1>4. /\ future'[hand[w]] = "running"
      /\ \A t \in Task : t # hand[w] => future'[t] = future[t]
      /\ wpc'[w] = "asking" /\ wkpi'[w] = 1
      /\ \A v \in Worker : v # w => wpc'[v] = wpc[v] /\ wkpi'[v] = wkpi[v]
  BY <1>1, <1>3 DEF ScriptInv, ScriptTypeOK
<1>5. ScriptTypeOK'
  <2>1. 1 \in Step
    OBVIOUS
  <2> QED
    BY <1>1, <1>2, <2>1 DEF PoolOK, ScriptInv, ScriptTypeOK
<1>6. ASSUME NEW v \in Worker PROVE ThreadAgrees(v)'
  <2>1. CASE v = w
    <3>1. models[w] = << >>
      <4>1. wpc[w] = "idle"
        BY <1>1 DEF ScriptInv, ThreadAgrees
      <4> QED
        BY <4>1, IdleHasNothing
    <3>2. Arrays(Segments[hand'[w]], 1, Fits(w)') = << >>
      BY <1>1, <1>4 DEF Fits, Arrays
    <3>3. \A k \in Step : query[hand[w]][k] = "none"
      BY <1>1, <1>3 DEF ScriptInv, TaskAgrees
    <3> QED
      BY <1>1, <1>3, <1>4, <2>1, <3>1, <3>2, <3>3 DEF ThreadAgrees
  <2>2. CASE v # w
    BY <1>1, <1>3, <1>4, <2>2, ThreadFrame DEF ScriptInv, ScriptTypeOK
  <2> QED
    BY <2>1, <2>2
<1>7. ASSUME NEW t \in Task PROVE TaskAgrees(t)'
  <2>1. CASE t = hand[w]
    BY <1>1, <1>3, <1>4, <2>1 DEF ScriptInv, TaskAgrees
  <2>2. CASE t # hand[w]
    BY <1>1, <1>4, <2>2, TaskFrame DEF ScriptInv
  <2> QED
    BY <2>1, <2>2
<1>8. MainAgrees'
  BY <1>1, <1>3, <1>4, MainFrame DEF ScriptInv
<1> QED
  BY <1>2, <1>5, <1>6, <1>7, <1>8 DEF ScriptInv, PoolOK

(* _process_segment ends: no query of it is in the air, and if it ends with*)
(* a result, the result is the service's.                                  *)
LEMMA ResolveInv ==
    ASSUME ScriptInv, NEW w \in Worker, NEW result \in {"result", "exception"},
           wpc[w] # "idle", Resolve(w, result), DOMAIN prediction' = Task,
           \A t \in Task : t # hand[w] => prediction'[t] = prediction[t],
           \A k \in Step : query[hand[w]][k] # "flying",
           result = "result" =>
              /\ prediction'[hand[w]] = <<SegmentPrediction(Segments[hand[w]])>>
              /\ \A k \in Step : query[hand[w]][k] = "answered"
    PROVE  ScriptInv'
<1> USE StepIs
<1>1. /\ FinishRun(w) /\ hand' = [hand EXCEPT ![w] = NoTask]
      /\ future' = [future EXCEPT ![hand[w]] = "finished"]
      /\ wpc' = [wpc EXCEPT ![w] = "idle"] /\ wkpi' = [wkpi EXCEPT ![w] = 1]
      /\ outcome' = [outcome EXCEPT ![hand[w]] = result]
      /\ models' = [models EXCEPT ![w] = << >>]
      /\ UNCHANGED <<queue, mpc, mpos, raised, query>>
  BY DEF Resolve, FinishRun, At, mainVars
<1>2. PoolOK'
  BY <1>1, ScriptPool, PoolKept
<1>3. /\ hand[w] \in Task /\ ~ Ended /\ future[hand[w]] = "running"
      /\ \A v \in Worker : v # w => hand[v] # hand[w]
  BY CallFacts
<1>4. /\ future'[hand[w]] = "finished" /\ outcome'[hand[w]] = result
      /\ \A t \in Task : t # hand[w] => future'[t] = future[t] /\ outcome'[t] = outcome[t]
      /\ wpc'[w] = "idle" /\ wkpi'[w] = 1 /\ hand'[w] = NoTask /\ models'[w] = << >>
      /\ \A v \in Worker : v # w =>
            /\ wpc'[v] = wpc[v] /\ wkpi'[v] = wkpi[v]
            /\ hand'[v] = hand[v] /\ models'[v] = models[v]
  BY <1>1, <1>3 DEF ScriptInv, ScriptTypeOK
<1>5. ScriptTypeOK'
  <2>1. 1 \in Step
    OBVIOUS
  <2> QED
    BY <1>1, <1>2, <2>1 DEF PoolOK, ScriptInv, ScriptTypeOK
<1>6. ASSUME NEW v \in Worker PROVE ThreadAgrees(v)'
  <2>1. CASE v = w
    <3>1. Arrays(Segments[hand'[w]], 1, Fits(w)') = << >>
      BY <1>4 DEF Fits, Arrays
    <3> QED
      BY <1>4, <2>1, <3>1 DEF ThreadAgrees
  <2>2. CASE v # w
    BY <1>1, <1>3, <1>4, <2>2, ThreadFrame DEF ScriptInv, ScriptTypeOK
  <2> QED
    BY <2>1, <2>2
<1>7. ASSUME NEW t \in Task PROVE TaskAgrees(t)'
  <2>1. CASE t = hand[w]
    BY <1>1, <1>4, <2>1 DEF TaskAgrees
  <2>2. CASE t # hand[w]
    BY <1>1, <1>4, <2>2, TaskFrame DEF ScriptInv
  <2> QED
    BY <2>1, <2>2
<1>8. MainAgrees'
  <2>1. outcome[hand[w]] = "none"
    BY <1>3 DEF ScriptInv, TaskAgrees
  <2> QED
    BY <1>1, <1>3, <1>4, <2>1, MainFrame DEF ScriptInv
<1> QED
  BY <1>2, <1>5, <1>6, <1>7, <1>8 DEF ScriptInv, PoolOK

LEMMA PredictedInv ==
    ASSUME ScriptInv, NEW w \in Worker, Predicted(w) PROVE ScriptInv'
<1> USE StepIs
<1> DEFINE s == Segments[hand[w]]
<1>1. /\ wpc[w] = "predicting" /\ Resolve(w, "result")
      /\ prediction' = [prediction EXCEPT ![hand[w]] =
                           <<Predict(models[w][1], models[w][2], models[w][3])>>]
  BY DEF Predicted
<1>2. hand[w] \in Task /\ wkpi[w] = 3 /\ DOMAIN prediction = Task
  BY <1>1, CallFacts DEF ScriptInv, ScriptTypeOK, ThreadAgrees
<1>3. models[w] = <<Players(s, 1), Economy(s, 1), Gamerounds(s, 1)>>
  <2>1. Fits(w) = 3 /\ models[w] = Arrays(s, 1, Fits(w))
    BY <1>1 DEF Fits, ScriptInv, ThreadAgrees
  <2> QED
    BY <2>1 DEF Arrays
<1>4. SegmentPrediction(s) = Predict(Players(s, 1), Economy(s, 1), Gamerounds(s, 1))
  BY ServicePredicts DEF PredictionFrom, Players, Economy, Gamerounds
<1>5. prediction'[hand[w]] = <<SegmentPrediction(s)>>
  BY <1>1, <1>2, <1>3, <1>4
<1>6. \A k \in Step : query[hand[w]][k] = "answered"
  BY <1>1, <1>2 DEF ScriptInv, ThreadAgrees
<1>7. DOMAIN prediction' = Task /\ \A t \in Task : t # hand[w] => prediction'[t] = prediction[t]
  BY <1>1, <1>2
<1> QED
  BY <1>1, <1>5, <1>6, <1>7, ResolveInv

LEMMA RaisesInv ==
    ASSUME ScriptInv, NEW w \in Worker, SegmentRaises(w) PROVE ScriptInv'
<1> USE StepIs
<1>1. /\ Resolve(w, "exception") /\ prediction' = prediction
      /\ \/ wpc[w] = "waiting" /\ query[hand[w]][wkpi[w]] = "raised"
         \/ wpc[w] \in {"fitting", "predicting"}
      /\ DOMAIN prediction = Task
  BY DEF SegmentRaises, QueryOf, ScriptInv, ScriptTypeOK
<1>2. wkpi[w] \in Step /\ wpc[w] # "idle"
  BY <1>1, CallFacts
<1>3. \A k \in Step : query[hand[w]][k] # "flying"
  BY <1>1, <1>2 DEF ScriptInv, ThreadAgrees
<1> QED
  BY <1>1, <1>2, <1>3, ResolveInv

LEMMA QueryEndsInv ==
    ASSUME ScriptInv, NEW t \in Task, NEW k \in Step, QueryEnds(t, k)
    PROVE  ScriptInv'
<1> USE StepIs
<1>1. PICK end \in {"answered", "raised"} : query' = [query EXCEPT ![t][k] = end]
  BY DEF QueryEnds
<1>2. /\ query[t][k] = "flying"
      /\ UNCHANGED <<queue, future, hand, mpc, mpos, raised, wpc, wkpi, models,
                     outcome, prediction>>
  BY DEF QueryEnds, poolVars, mainVars
<1>3. query \in [Task -> [Step -> {"none", "flying", "answered", "raised"}]]
  BY DEF ScriptInv, ScriptTypeOK
<1>4. /\ query' \in [Task -> [Step -> {"none", "flying", "answered", "raised"}]]
      /\ \A u \in Task : u # t => query'[u] = query[u]
      /\ \A i \in Step : i # k => query'[t][i] = query[t][i]
      /\ query'[t][k] = end
  BY <1>1, <1>3
<1>5. ScriptTypeOK'
  BY <1>2, <1>4 DEF ScriptInv, ScriptTypeOK
<1>6. OneThreadPerTask'
  BY <1>2 DEF ScriptInv, OneThreadPerTask, Queued, Held
<1>7. ASSUME NEW w \in Worker PROVE ThreadAgrees(w)'
  <2>1. CASE hand[w] = t /\ wpc[w] # "idle"
    <3>1. wpc[w] = "waiting" /\ k = wkpi[w] /\ wkpi[w] \in Step
      BY <1>2, <2>1, CallFacts DEF ScriptInv, ThreadAgrees
    <3>2. Fits(w)' = Fits(w)
      BY <1>2 DEF Fits
    <3> QED
      BY <1>2, <1>4, <2>1, <3>1, <3>2 DEF ScriptInv, ThreadAgrees
  <2>2. CASE hand[w] = t /\ wpc[w] = "idle"
    <3>1. Fits(w)' = Fits(w)
      BY <1>2 DEF Fits
    <3> QED
      BY <1>2, <2>2, <3>1 DEF ScriptInv, ThreadAgrees
  <2>3. CASE hand[w] # t
    BY <1>2, <1>4, <2>3, ThreadFrame DEF ScriptInv, ScriptTypeOK
  <2> QED
    BY <2>1, <2>2, <2>3
<1>8. ASSUME NEW u \in Task PROVE TaskAgrees(u)'
  <2>1. CASE u = t
    BY <1>2, <1>4, <2>1 DEF ScriptInv, TaskAgrees
  <2>2. CASE u # t
    BY <1>2, <1>4, <2>2, TaskFrame DEF ScriptInv
  <2> QED
    BY <2>1, <2>2
<1>9. MainAgrees'
  BY <1>2, MainFrame DEF ScriptInv
<1> QED
  BY <1>5, <1>6, <1>7, <1>8, <1>9 DEF ScriptInv

LEMMA SegmentStepInv ==
    ASSUME ScriptInv, NEW w \in Worker, SegmentStep(w) PROVE ScriptInv'
  BY ClaimsInv, StartsInv, AskInv, FitInv, FitReturnsInv, PredictedInv, RaisesInv
     DEF SegmentStep

LEMMA MainStepInv == ASSUME ScriptInv, MainStep PROVE ScriptInv'
  BY SubmitNextInv, CollectInv, FinishInv DEF MainStep

LEMMA ScriptStutterInv ==
    ASSUME ScriptInv, UNCHANGED <<poolVars, mpc, mpos, raised, threadVars>>
    PROVE  ScriptInv'
<1>1. UNCHANGED <<queue, future, hand, threadVars, mpc, mpos, raised, outcome>>
  BY DEF poolVars, threadVars
<1>2. MainAgrees'
  BY <1>1, MainFrame DEF ScriptInv
<1> QED
  BY <1>1, <1>2, MainAloneInv DEF ScriptInv, ScriptTypeOK

-----------------------------------------------------------------------------
(* What the invariant says of the queries, and of the end.                 *)
LEMMA InvSurfaces == ScriptInv => NoQueryDiesQuietly
<1> USE StepIs
<1> SUFFICES ASSUME ScriptInv PROVE NoQueryDiesQuietly
  OBVIOUS
<1>1. ASSUME NEW t \in Task, NEW k \in Step
      PROVE  /\ query[t][k] = "flying" => future[t] = "running"
             /\ query[t][k] = "raised" => future[t] = "running" \/ outcome[t] = "exception"
             /\ outcome[t] = "result" => query[t][k] = "answered"
  <2>1. /\ TaskAgrees(t) /\ future[t] \in FutureState
        /\ outcome[t] \in {"none", "result", "exception"}
    BY DEF ScriptInv, ScriptTypeOK
  <2> QED
    BY <2>1 DEF TaskAgrees, FutureState
<1>2. mpc = "saved" => \A t \in Task : outcome[t] = "result"
  BY DEF ScriptInv, ScriptTypeOK, MainAgrees, Ended
<1> QED
  BY <1>1, <1>2 DEF NoQueryDiesQuietly

LEMMA InvEveryone == ScriptInv /\ RowsAgree => EveryoneIsHomeAtTheEnd
<1> USE StepIs
<1> SUFFICES ASSUME ScriptInv, RowsAgree, Ended PROVE
               /\ \A t \in Task : outcome[t] # "none"
               /\ Flying = {}
               /\ mpc = "saved" <=> \A t \in Task : outcome[t] = "result"
               /\ mpc = "aborted" =>
                     /\ outcome[mpos] = "exception"
                     /\ rows = SubSeq(PromisedRows(Segments), 1, mpos - 1)
  BY DEF EveryoneIsHomeAtTheEnd, Ended
<1>1. mpos \in 1 .. NumSegments + 1
  BY DEF ScriptInv, ScriptTypeOK
<1>2. ASSUME NEW t \in Task PROVE future[t] = "finished"
  <2>1. future[t] # "none" /\ queue = << >> /\ \A w \in Worker : hand[w] = NoTask
    BY DEF ScriptInv, MainAgrees, Ended
  <2>2. t \notin Queued /\ t \notin Held
    BY <2>1, ScriptPool DEF Queued, Held
  <2> QED
    BY <2>1, <2>2 DEF ScriptInv, OneThreadPerTask, TaskAgrees, ScriptTypeOK, FutureState
<1>3. \A t \in Task : outcome[t] # "none"
  BY <1>2 DEF ScriptInv, TaskAgrees
<1>4. Flying = {}
  BY <1>2 DEF Flying, ScriptInv, TaskAgrees
<1>5. mpc = "saved" => \A t \in Task : outcome[t] = "result"
  BY <1>1 DEF ScriptInv, MainAgrees
<1>6. mpc = "aborted" => mpos \in Task /\ outcome[mpos] = "exception"
  BY <1>1 DEF ScriptInv, MainAgrees
<1>7. mpc = "aborted" => rows = SubSeq(PromisedRows(Segments), 1, mpos - 1)
  <2>1. mpc = "aborted" => rows = FirstRows("optimized", mpos - 1)
    BY DEF RowsAgree
  <2>2. FirstRows("optimized", mpos - 1) = SubSeq(PromisedRows(Segments), 1, mpos - 1)
    BY <1>1 DEF FirstRows, PromisedTo
  <2> QED
    BY <2>1, <2>2
<1> QED
  BY <1>3, <1>4, <1>5, <1>6, <1>7 DEF Ended

-----------------------------------------------------------------------------
(* The rows, and the promise of a run.                                     *)
LEMMA PromisedIs ==
    ASSUME NEW name
    PROVE  /\ PromisedTo(name) = [i \in 1 .. NumSegments |-> PromisedTo(name)[i]]
           /\ FirstRows(name, NumSegments) = PromisedTo(name)
           /\ FirstRows(name, 0) = << >>
<1>1. DOMAIN Segments = 1 .. NumSegments
  BY ScriptAssumption
<1>2. PromisedTo(name) = [i \in 1 .. NumSegments |-> PromisedTo(name)[i]]
  BY <1>1 DEF PromisedTo, PromisedRows
<1> QED
  BY <1>2 DEF FirstRows

LEMMA PromisedRow ==
    ASSUME NEW i \in 1 .. NumSegments
    PROVE  /\ PromisedTo("optimized")[i] = Row(Segments[i], PredictionFrom(Segments[i], 1))
           /\ PromisedTo("sequential")[i] =
                 Row(Segments[i], PredictionFrom(Segments[i], Times(Segments[i])))
<1>1. DOMAIN Segments = 1 .. NumSegments
  BY ScriptAssumption
<1>2. PromisedTo("optimized")[i] = Row(Segments[i], SegmentPrediction(Segments[i]))
  BY <1>1 DEF PromisedTo, PromisedRows
<1>3. PromisedTo("sequential")[i] =
         Row(Segments[i], PredictionFrom(Segments[i], Times(Segments[i])))
  BY <1>1 DEF PromisedTo
<1> QED
  BY <1>2, <1>3, ServicePredicts

LEMMA FirstRowsGrow ==
    ASSUME NEW name, NEW n \in 0 .. NumSegments
    PROVE  /\ Len(FirstRows(name, n)) = n
           /\ n < NumSegments =>
                 Append(FirstRows(name, n), PromisedTo(name)[n + 1]) = FirstRows(name, n + 1)
<1> USE StepIs
<1> DEFINE S == {PromisedTo(name)[i] : i \in 1 .. NumSegments}
<1>1. ASSUME NEW m \in 0 .. NumSegments
      PROVE  /\ FirstRows(name, m) \in Seq(S) /\ Len(FirstRows(name, m)) = m
             /\ \A i \in 1 .. m : FirstRows(name, m)[i] = PromisedTo(name)[i]
  <2>1. FirstRows(name, m) \in [1 .. m -> S]
    BY DEF FirstRows
  <2>2. FirstRows(name, m) \in Seq(S)
    BY <2>1
  <2>3. DOMAIN FirstRows(name, m) = 1 .. m /\ \A i \in 1 .. m : FirstRows(name, m)[i] = PromisedTo(name)[i]
    BY DEF FirstRows
  <2>4. /\ Len(FirstRows(name, m)) \in Nat
        /\ DOMAIN FirstRows(name, m) = 1 .. Len(FirstRows(name, m))
    BY <2>2, LenProperties
  <2>5. Len(FirstRows(name, m)) = m
    BY <2>3, <2>4
  <2> QED
    BY <2>2, <2>3, <2>5
<1>2. ASSUME n < NumSegments
      PROVE  Append(FirstRows(name, n), PromisedTo(name)[n + 1]) = FirstRows(name, n + 1)
  <2>1. n + 1 \in 0 .. NumSegments /\ PromisedTo(name)[n + 1] \in S
    BY <1>2
  <2> HIDE DEF S
  <2>2. /\ FirstRows(name, n) \in Seq(S) /\ Len(FirstRows(name, n)) = n
        /\ \A i \in 1 .. n : FirstRows(name, n)[i] = PromisedTo(name)[i]
    BY <1>1
  <2>3. /\ FirstRows(name, n + 1) \in Seq(S) /\ Len(FirstRows(name, n + 1)) = n + 1
        /\ \A i \in 1 .. n + 1 : FirstRows(name, n + 1)[i] = PromisedTo(name)[i]
    BY <1>1, <2>1
  <2>4. /\ FirstRows(name, n + 1)[n + 1] = PromisedTo(name)[n + 1]
        /\ \A i \in 1 .. n : FirstRows(name, n + 1)[i] = FirstRows(name, n)[i]
    BY <2>2, <2>3
  <2> QED
    BY <2>1, <2>2, <2>3, <2>4, AppendIs
<1> QED
  BY <1>1, <1>2

LEMMA PromisedLength == ASSUME NEW name PROVE Len(PromisedTo(name)) = NumSegments
<1>1. Len(FirstRows(name, NumSegments)) = NumSegments
  BY FirstRowsGrow, StepIs
<1> QED
  BY <1>1, PromisedIs

(* A run as BatchRun sees it: it has the first n promised rows.            *)
LEMMA NextRowIs ==
    ASSUME program' = program, NEW n \in 0 .. NumSegments - 1, rows = FirstRows(program, n),
           rows' = Append(rows, PromisedTo(program)[n + 1]), File = "none", File' = "none"
    PROVE  rows' = FirstRows(program, n + 1) /\ Batch!NextRow
<1> USE StepIs
<1>1. /\ Len(rows) = n /\ Len(PromisedTo(program)) = NumSegments
      /\ Append(rows, PromisedTo(program)[n + 1]) = FirstRows(program, n + 1)
  BY FirstRowsGrow, PromisedLength
<1> QED
  BY <1>1 DEF Batch!NextRow

LEMMA SaveFileIs ==
    ASSUME program' = program, rows = PromisedTo(program), UNCHANGED rows, File = "none", File' = "saved"
    PROVE  Batch!SaveFile
  BY DEF Batch!SaveFile

LEMMA AbortIs ==
    ASSUME program' = program, NEW n \in 0 .. NumSegments - 1, rows = FirstRows(program, n),
           UNCHANGED rows, File = "none", File' = "aborted"
    PROVE  Batch!Abort
<1>1. Len(rows) = n /\ Len(PromisedTo(program)) = NumSegments
  BY FirstRowsGrow, PromisedLength, StepIs
<1> QED
  BY <1>1, StepIs DEF Batch!Abort

-----------------------------------------------------------------------------
(* main of the optimized program collects the promised rows.               *)
LEMMA MainKeepsPromise ==
    ASSUME ScriptInv, RowsAgree, MainStep, program = "optimized", program' = program
    PROVE  RowsAgree' /\ (Batch!BatchNext \/ UNCHANGED Batch!batchVars)
<1> USE StepIs
<1>1. mpos \in 1 .. NumSegments + 1
  BY DEF ScriptInv, ScriptTypeOK
<1>2. CASE SubmitNext \/ SubmitDone \/ CollectRaises \/ CollectDone \/ LeaveBlock
  <2>1. UNCHANGED rows /\ ~ Ended /\ ~ Ended'
    BY <1>2 DEF SubmitNext, SubmitDone, CollectRaises, CollectDone, LeaveBlock,
                mainVars, Ended
  <2>2. RowsAgree'
    BY <1>1, <1>2, <2>1
       DEF RowsAgree, SubmitNext, SubmitDone, CollectRaises, CollectDone, LeaveBlock,
           mainVars
  <2>3. UNCHANGED Batch!batchVars
    BY <2>1 DEF Batch!batchVars, File, End, Ended
  <2> QED
    BY <2>2, <2>3
<1>3. CASE Collect
  <2>1. /\ mpc = "collecting" /\ mpc' = mpc /\ mpos \in Task /\ mpos' = mpos + 1
        /\ prediction[mpos] = <<SegmentPrediction(Segments[mpos])>>
        /\ rows' = Append(rows, Row(Segments[mpos], prediction[mpos][1]))
    BY <1>1, <1>3 DEF Collect, ScriptInv, TaskAgrees
  <2>2. PromisedTo("optimized")[mpos] = Row(Segments[mpos], prediction[mpos][1])
    BY <2>1, PromisedRow, ServicePredicts
  <2>3. mpos - 1 \in 0 .. NumSegments - 1 /\ rows = FirstRows("optimized", mpos - 1)
    BY <1>1, <2>1 DEF RowsAgree
  <2>4. rows' = Append(rows, PromisedTo("optimized")[mpos - 1 + 1])
    BY <1>1, <2>1, <2>2
  <2>5. File = "none" /\ File' = "none"
    BY <2>1 DEF File, End
  <2>6. rows' = FirstRows("optimized", mpos - 1 + 1) /\ Batch!NextRow
    BY <2>3, <2>4, <2>5, NextRowIs
  <2>7. RowsAgree'
    BY <1>1, <2>1, <2>6 DEF RowsAgree
  <2> QED
    BY <2>6, <2>7 DEF Batch!BatchNext
<1>4. CASE Finish
  <2>1. /\ mpc = "leaving" /\ mpc' = IF raised THEN "aborted" ELSE "saved"
        /\ mpos' = mpos /\ UNCHANGED rows /\ raised \in BOOLEAN
    BY <1>4 DEF Finish, ScriptInv, ScriptTypeOK
  <2>2. rows = FirstRows("optimized", mpos - 1)
    BY <2>1 DEF RowsAgree
  <2>3. RowsAgree'
    BY <2>1, <2>2 DEF RowsAgree
  <2>4. File = "none" /\ File' = mpc'
    BY <2>1 DEF File, End
  <2>5. CASE raised
    <3>1. mpos - 1 \in 0 .. NumSegments - 1
      BY <1>1, <2>5 DEF ScriptInv, MainAgrees
    <3> QED
      BY <2>1, <2>2, <2>3, <2>4, <2>5, <3>1, AbortIs DEF Batch!BatchNext
  <2>6. CASE ~ raised
    <3>1. mpos = NumSegments + 1
      BY <2>1, <2>6 DEF ScriptInv, MainAgrees
    <3>2. rows = PromisedTo("optimized")
      BY <1>1, <2>2, <3>1, PromisedIs
    <3> QED
      BY <2>1, <2>3, <2>4, <2>6, <3>2, SaveFileIs DEF Batch!BatchNext
  <2> QED
    BY <2>5, <2>6
<1> QED
  BY <1>2, <1>3, <1>4 DEF MainStep

(* The threads do not touch the rows.                                      *)
LEMMA ThreadsKeepPromise ==
    ASSUME RowsAgree, UNCHANGED mainVars, program = "optimized", program' = program
    PROVE  RowsAgree' /\ UNCHANGED Batch!batchVars
  BY DEF mainVars, RowsAgree, Batch!batchVars, File, End

-----------------------------------------------------------------------------
(* The sequential program: what it has fetched, which arrays it has for the*)
(* segment it is at, and which rows.                                       *)
SequentialInv ==
    /\ phase \in {"fetching", "modeling", "saved", "aborted"}
    /\ pos \in 1 .. NumSegments + 1
    /\ fetched \in Seq(Kpi)
    /\ phase = "fetching" =>
          /\ fetched # << >> => pos <= NumSegments
          /\ data = [i \in 1 .. pos - 1 |-> Segments[i]]
          /\ arrays = << >>
          /\ rows = << >>
    /\ phase = "modeling" =>
          /\ data = [i \in 1 .. NumSegments |-> Segments[i]]
          /\ \E n \in 0 .. 3 :
                /\ arrays = Arrays(Segments[pos], Times(Segments[pos]), n)
                /\ n # 0 => pos <= NumSegments
          /\ rows = FirstRows("sequential", pos - 1)
    /\ phase = "saved" => rows = PromisedTo("sequential")
    /\ phase = "aborted" => \E n \in 0 .. NumSegments - 1 : rows = FirstRows("sequential", n)

LEMMA SequentialInitInv == Sequential!SequentialInit => SequentialInv
<1> SUFFICES ASSUME Sequential!SequentialInit PROVE SequentialInv
  OBVIOUS
<1>1. /\ phase = "fetching" /\ pos = 1 /\ fetched = << >> /\ data = << >>
      /\ arrays = << >> /\ rows = << >>
  BY DEF Sequential!SequentialInit
<1>2. data = [i \in 1 .. pos - 1 |-> Segments[i]]
  BY <1>1
<1> QED
  BY <1>1, <1>2, StepIs DEF SequentialInv

(* The filter finds the rows of a segment as often as it was given.        *)
LEMMA FilterFindsTimes ==
    ASSUME NEW segment, data = [k \in 1 .. NumSegments |-> Segments[k]]
    PROVE  Sequential!Copies(segment) = Times(segment)
<1>1. {k \in DOMAIN data : data[k] = segment} = {k \in DOMAIN Segments : Segments[k] = segment}
  BY ScriptAssumption
<1> QED
  BY <1>1 DEF Sequential!Copies, Times, Cardinality, Sequential!Cardinality

LEMMA FetchInv ==
    ASSUME SequentialInv,
           Sequential!Query \/ Sequential!Merge \/ Sequential!Concat
    PROVE  SequentialInv' /\ UNCHANGED rows /\ phase' \in {"fetching", "modeling"}
           /\ phase \in {"fetching", "modeling"}
<1> USE StepIs
<1>1. /\ pos \in 1 .. NumSegments + 1 /\ fetched \in Seq(Kpi) /\ NumSegments = Len(Segments)
  BY DEF SequentialInv, NumSegments
<1>2. CASE Sequential!Query
  <2>1. /\ phase = "fetching" /\ phase' = phase /\ pos <= NumSegments
        /\ fetched' = Append(fetched, Sequential!QueryOrder[Len(fetched) + 1])
        /\ Len(fetched) + 1 \in 1 .. 3
        /\ UNCHANGED <<pos, data, arrays, rows>>
    BY <1>1, <1>2 DEF Sequential!Query
  <2>2. Sequential!QueryOrder[Len(fetched) + 1] \in Kpi
    BY <2>1 DEF Sequential!QueryOrder, Kpi
  <2>3. fetched' \in Seq(Kpi)
    BY <1>1, <2>1, <2>2
  <2> QED
    BY <1>1, <2>1, <2>3 DEF SequentialInv
<1>3. CASE Sequential!Merge
  <2>1. /\ phase = "fetching" /\ phase' = phase /\ fetched # << >> /\ fetched' = << >>
        /\ data' = Append(data, Segments[pos]) /\ pos' = pos + 1
        /\ UNCHANGED <<arrays, rows>>
    BY <1>1, <1>3 DEF Sequential!Merge
  <2>2. pos \in 1 .. NumSegments /\ data = [i \in 1 .. pos - 1 |-> Segments[i]]
    BY <1>1, <2>1 DEF SequentialInv
  <2>3. data' = [i \in 1 .. pos |-> Segments[i]]
    <3> DEFINE S == {Segments[i] : i \in 1 .. NumSegments}
               p == [i \in 1 .. pos |-> Segments[i]]
               q == [i \in 1 .. pos - 1 |-> Segments[i]]
    <3>1. q \in [1 .. pos - 1 -> S] /\ p \in [1 .. pos -> S] /\ Segments[pos] \in S
      BY <1>1, <2>2
    <3>2. pos - 1 \in Nat /\ pos \in Nat
      BY <2>2
    <3> HIDE DEF S
    <3>3. q \in Seq(S) /\ p \in Seq(S)
      BY <3>1, <3>2
    <3>4. DOMAIN q = 1 .. pos - 1 /\ DOMAIN p = 1 .. pos
      OBVIOUS
    <3>5. /\ Len(q) \in Nat /\ DOMAIN q = 1 .. Len(q)
          /\ Len(p) \in Nat /\ DOMAIN p = 1 .. Len(p)
      BY <3>3, LenProperties
    <3>6. Len(q) = pos - 1 /\ Len(p) = pos
      BY <1>1, <3>4, <3>5
    <3>7. p[pos] = Segments[pos] /\ \A i \in 1 .. pos - 1 : p[i] = q[i]
      BY <1>1
    <3> HIDE DEF p, q
    <3>8. Append(q, Segments[pos]) = p
      BY <3>1, <3>2, <3>3, <3>6, <3>7, AppendIs
    <3> QED
      BY <2>1, <2>2, <3>8 DEF p, q
  <2>4. pos' - 1 = pos /\ pos' \in 1 .. NumSegments + 1
    BY <1>1, <2>1, <2>2
  <2>5. arrays' = << >> /\ rows' = << >>
    BY <2>1 DEF SequentialInv
  <2> QED
    BY <2>1, <2>3, <2>4, <2>5 DEF SequentialInv
<1>4. CASE Sequential!Concat
  <2>1. /\ phase = "fetching" /\ phase' = "modeling" /\ pos > NumSegments /\ pos' = 1
        /\ UNCHANGED <<fetched, data, arrays, rows>>
    BY <1>1, <1>4 DEF Sequential!Concat
  <2>2. pos = NumSegments + 1
    BY <1>1, <2>1
  <2>3. data = [i \in 1 .. NumSegments |-> Segments[i]] /\ arrays = << >> /\ rows = << >>
    BY <2>1, <2>2 DEF SequentialInv
  <2>4. arrays' = Arrays(Segments[pos'], Times(Segments[pos']), 0) /\ rows' = FirstRows("sequential", pos' - 1)
    BY <2>1, <2>3, NoArrays, PromisedIs
  <2> QED
    BY <1>1, <2>1, <2>3, <2>4 DEF SequentialInv
<1> QED
  BY <1>2, <1>3, <1>4 DEF Sequential!Query, Sequential!Merge, Sequential!Concat

(* Each fit of the sequential program makes the array that process_segment *)
(* would have made.                                                        *)
LEMMA SequentialFitInv ==
    ASSUME SequentialInv, Sequential!Fit
    PROVE  SequentialInv' /\ UNCHANGED <<rows, phase>> /\ phase = "modeling"
<1> USE StepIs
<1> DEFINE s == Segments[pos]
           c == Times(s)
<1>1. /\ phase = "modeling" /\ phase' = phase /\ pos \in 1 .. NumSegments
      /\ fetched \in Seq(Kpi) /\ data = [i \in 1 .. NumSegments |-> Segments[i]]
      /\ rows = FirstRows("sequential", pos - 1) /\ UNCHANGED <<pos, fetched, data, rows>>
  BY DEF Sequential!Fit, SequentialInv, NumSegments
<1>2. PICK n \in 0 .. 3 : arrays = Arrays(s, c, n)
  BY <1>1 DEF SequentialInv
<1>3. Sequential!Copies(s) = c
  BY <1>1, FilterFindsTimes
<1>4. \A kpi : Sequential!SegmentColumn(kpi) = Column(kpi, s, c)
  BY <1>3 DEF Sequential!SegmentColumn, Sequential!Column, Column
<1> HIDE DEF s, c
<1>5. /\ Len(Arrays(s, c, 0)) = 0 /\ Len(Arrays(s, c, 1)) = 1
      /\ Len(Arrays(s, c, 2)) = 2 /\ Len(Arrays(s, c, 3)) = 3
      /\ Arrays(s, c, 1)[1] = Players(s, c) /\ Arrays(s, c, 2)[2] = Economy(s, c)
  BY DEF Arrays
<1>6. \E m \in 0 .. 3 : arrays' = Arrays(s, c, m)
  <2>1. CASE Len(arrays) = 0
    <3>1. arrays' = <<Sequential!FitPlayerData(Sequential!SegmentColumn("players"))>>
      BY <2>1 DEF Sequential!Fit
    <3>2. arrays' = Arrays(s, c, 1)
      BY <1>4, <3>1 DEF Arrays, Players, Sequential!FitPlayerData, FitPlayerData,
                        Sequential!CpuIntensive, CpuIntensive
    <3> QED
      BY <3>2
  <2>2. CASE Len(arrays) = 1
    <3>1. arrays' = Append(arrays, Sequential!FitEconomyData(
                              Sequential!SegmentColumn("revenues"), arrays[1]))
      BY <2>2 DEF Sequential!Fit
    <3>2. arrays = <<Players(s, c)>>
      BY <1>2, <1>5, <2>2 DEF Arrays
    <3>3. Sequential!FitEconomyData(Sequential!SegmentColumn("revenues"), arrays[1])
             = Economy(s, c)
      BY <1>4, <3>2 DEF Economy, Sequential!FitEconomyData,
                        FitEconomyData, Sequential!CpuIntensive, CpuIntensive
    <3>4. arrays' = <<Players(s, c), Economy(s, c)>>
      BY <3>1, <3>2, <3>3, AppendToOneOrTwo
    <3> QED
      BY <3>4 DEF Arrays
  <2>3. CASE Len(arrays) = 2
    <3>1. arrays' = Append(arrays, Sequential!FitGameroundData(
                              Sequential!SegmentColumn("gamerounds"), arrays[2]))
      BY <2>3 DEF Sequential!Fit
    <3>2. arrays = <<Players(s, c), Economy(s, c)>>
      BY <1>2, <1>5, <2>3 DEF Arrays
    <3>3. Sequential!FitGameroundData(Sequential!SegmentColumn("gamerounds"), arrays[2])
             = Gamerounds(s, c)
      BY <1>4, <3>2 DEF Gamerounds, Sequential!FitGameroundData, FitGameroundData,
                        Sequential!CpuIntensive, CpuIntensive
    <3>4. arrays' = <<Players(s, c), Economy(s, c), Gamerounds(s, c)>>
      BY <3>1, <3>2, <3>3, AppendToOneOrTwo
    <3> QED
      BY <3>4 DEF Arrays
  <2> QED
    BY <2>1, <2>2, <2>3 DEF Sequential!Fit
<1> QED
  BY <1>1, <1>6 DEF SequentialInv, s, c

LEMMA ArraysLength == ASSUME NEW s, NEW c, NEW n \in 0 .. 3 PROVE Len(Arrays(s, c, n)) = n
<1>1. /\ Len(Arrays(s, c, 0)) = 0 /\ Len(Arrays(s, c, 1)) = 1 /\ Len(Arrays(s, c, 2)) = 2
      /\ Len(Arrays(s, c, 3)) = 3
  BY DEF Arrays
<1>2. n = 0 \/ n = 1 \/ n = 2 \/ n = 3
  OBVIOUS
<1> QED
  BY <1>1, <1>2

LEMMA PredictRowInv ==
    ASSUME SequentialInv, Sequential!PredictRow, program = "sequential",
           program' = program
    PROVE  SequentialInv' /\ Batch!NextRow
<1> USE StepIs
<1> DEFINE s == Segments[pos]
           c == Times(s)
<1>1. /\ phase = "modeling" /\ phase' = phase /\ Len(arrays) = 3
      /\ fetched \in Seq(Kpi) /\ data = [i \in 1 .. NumSegments |-> Segments[i]]
      /\ rows' = Append(rows, Sequential!Row(s,
                            Sequential!Predict(arrays[1], arrays[2], arrays[3])))
      /\ rows = FirstRows("sequential", pos - 1) /\ pos' = pos + 1 /\ arrays' = << >>
      /\ UNCHANGED <<fetched, data>> /\ pos \in 1 .. NumSegments + 1
  BY DEF Sequential!PredictRow, SequentialInv
<1>2. PICK n \in 0 .. 3 : arrays = Arrays(s, c, n) /\ (n # 0 => pos <= NumSegments)
  BY <1>1 DEF SequentialInv
<1> HIDE DEF s, c
<1>3. arrays = <<Players(s, c), Economy(s, c), Gamerounds(s, c)>> /\ pos \in 1 .. NumSegments
  <2>1. Arrays(s, c, 3) = <<Players(s, c), Economy(s, c), Gamerounds(s, c)>>
    BY DEF Arrays
  <2>2. Len(Arrays(s, c, n)) = n
    BY ArraysLength
  <2>3. n = 3
    BY <1>1, <1>2, <2>2
  <2>4. pos <= NumSegments
    BY <1>2, <2>3
  <2> QED
    BY <1>1, <1>2, <2>1, <2>3, <2>4
<1>4. Sequential!Predict(arrays[1], arrays[2], arrays[3]) = PredictionFrom(s, c)
  BY <1>3 DEF PredictionFrom, Players, Economy, Gamerounds,
              Sequential!Predict, Predict, Sequential!CpuIntensive, CpuIntensive
<1>5. rows' = Append(rows, PromisedTo("sequential")[pos - 1 + 1])
  <2>1. pos - 1 + 1 = pos
    BY <1>3
  <2>2. PromisedTo("sequential")[pos] = Row(s, PredictionFrom(s, c))
    BY <1>3, PromisedRow DEF s, c
  <2> QED
    BY <1>1, <1>4, <2>1, <2>2 DEF Sequential!Row, Row
<1>6. pos - 1 \in 0 .. NumSegments - 1 /\ File = "none" /\ File' = "none"
  BY <1>1, <1>3 DEF File, End
<1>7. rows' = FirstRows("sequential", pos - 1 + 1) /\ Batch!NextRow
  BY <1>1, <1>5, <1>6, NextRowIs
<1>8. /\ rows' = FirstRows("sequential", pos' - 1) /\ pos' \in 1 .. NumSegments + 1
      /\ arrays' = Arrays(Segments[pos'], Times(Segments[pos']), 0)
  BY <1>1, <1>3, <1>7, NoArrays
<1> QED
  BY <1>1, <1>7, <1>8 DEF SequentialInv

LEMMA SequentialEnds ==
    ASSUME SequentialInv, Sequential!Save \/ Sequential!Raise,
           program = "sequential", program' = program
    PROVE  SequentialInv' /\ (Batch!SaveFile \/ Batch!Abort)
<1> USE StepIs
<1>1. /\ pos \in 1 .. NumSegments + 1 /\ fetched \in Seq(Kpi)
      /\ NumSegments = Len(Segments) /\ UNCHANGED <<pos, fetched, data, arrays, rows>>
  BY DEF SequentialInv, NumSegments, Sequential!Save, Sequential!Raise
<1>2. CASE Sequential!Save
  <2>1. phase = "modeling" /\ phase' = "saved" /\ pos > NumSegments
    BY <1>1, <1>2 DEF Sequential!Save
  <2>2. pos = NumSegments + 1
    BY <1>1, <2>1
  <2>3. rows = PromisedTo("sequential")
    BY <2>1, <2>2, PromisedIs DEF SequentialInv
  <2>4. File = "none" /\ File' = "saved"
    BY <2>1 DEF File, End
  <2> QED
    BY <1>1, <2>1, <2>3, <2>4, SaveFileIs DEF SequentialInv
<1>3. CASE Sequential!Raise
  <2>1. phase \in {"fetching", "modeling"} /\ phase' = "aborted" /\ pos <= NumSegments
    BY <1>1, <1>3 DEF Sequential!Raise
  <2>2. PICK n \in 0 .. NumSegments - 1 : rows = FirstRows("sequential", n)
    <3>1. CASE phase = "fetching"
      <4>1. rows = FirstRows("sequential", 0)
        BY <3>1, PromisedIs DEF SequentialInv
      <4> QED
        BY <4>1
    <3>2. CASE phase = "modeling"
      <4>1. rows = FirstRows("sequential", pos - 1)
        BY <3>2 DEF SequentialInv
      <4> QED
        BY <1>1, <2>1, <4>1
    <3> QED
      BY <2>1, <3>1, <3>2
  <2>3. File = "none" /\ File' = "aborted"
    BY <2>1 DEF File, End
  <2>4. Batch!Abort
    BY <1>1, <2>2, <2>3, AbortIs
  <2> QED
    BY <1>1, <2>1, <2>2, <2>4 DEF SequentialInv
<1> QED
  BY <1>2, <1>3

LEMMA SequentialKeepsPromise ==
    ASSUME SequentialInv, Sequential!SequentialNext, program = "sequential",
           program' = program
    PROVE  SequentialInv' /\ (Batch!BatchNext \/ UNCHANGED Batch!batchVars)
<1>1. CASE Sequential!Query \/ Sequential!Merge \/ Sequential!Concat
  BY <1>1, FetchInv DEF Batch!batchVars, File, End
<1>2. CASE Sequential!Fit
  BY <1>2, SequentialFitInv DEF Batch!batchVars, File, End
<1>3. CASE Sequential!PredictRow
  BY <1>3, PredictRowInv DEF Batch!BatchNext
<1>4. CASE Sequential!Save \/ Sequential!Raise
  BY <1>4, SequentialEnds DEF Batch!BatchNext
<1> QED
  BY <1>1, <1>2, <1>3, <1>4 DEF Sequential!SequentialNext

-----------------------------------------------------------------------------
(* Whichever program was started, the other's state stays as it was.       *)
RunInv ==
    /\ program \in {"sequential", "optimized"}
    /\ ScriptInv
    /\ program = "optimized" => RowsAgree
    /\ program = "sequential" => SequentialInv /\ mpc = "submitting"

LEMMA RunInitInv == RunInit => RunInv /\ Batch!BatchInit
<1> SUFFICES ASSUME RunInit PROVE RunInv /\ Batch!BatchInit
  OBVIOUS
<1>1. /\ rows = << >> /\ mpc = "submitting" /\ phase = "fetching"
  BY DEF RunInit, ScriptInit, Sequential!SequentialInit
<1>2. Batch!BatchInit
  BY <1>1 DEF Batch!BatchInit, File, End
<1> QED
  BY <1>1, <1>2, ScriptInitInv, SequentialInitInv DEF RunInit, RunInv

LEMMA RunStepInv ==
    ASSUME RunInv, [RunNext]_runVars
    PROVE  RunInv' /\ [Batch!BatchNext]_(Batch!batchVars)
<1>1. CASE SequentialRuns
  <2>1. /\ program = "sequential" /\ program' = program
        /\ UNCHANGED <<poolVars, mpc, mpos, raised, threadVars>>
    BY <1>1 DEF SequentialRuns, optimizedOnly
  <2>2. ScriptInv'
    BY <2>1, ScriptStutterInv DEF RunInv
  <2> QED
    BY <1>1, <2>1, <2>2, SequentialKeepsPromise DEF RunInv, SequentialRuns
<1>2. CASE MainRuns
  <2>1. program = "optimized" /\ program' = program /\ MainStep
    BY <1>2 DEF MainRuns, OptimizedRuns
  <2> QED
    BY <2>1, MainStepInv, MainKeepsPromise DEF RunInv
<1>3. ASSUME NEW w \in Worker, SegmentRuns(w)
      PROVE  RunInv' /\ [Batch!BatchNext]_(Batch!batchVars)
  <2>1. program = "optimized" /\ program' = program /\ SegmentStep(w)
    BY <1>3 DEF SegmentRuns, OptimizedRuns
  <2>2. UNCHANGED mainVars
    BY <2>1 DEF SegmentStep, SegmentClaims, SegmentStarts, Ask, Fit, FitReturns,
                Predicted, SegmentRaises, Resolve
  <2> QED
    BY <2>1, <2>2, SegmentStepInv, ThreadsKeepPromise DEF RunInv
<1>4. ASSUME NEW t \in Task, NEW k \in Step, QueryRuns(t, k)
      PROVE  RunInv' /\ [Batch!BatchNext]_(Batch!batchVars)
  <2>1. program = "optimized" /\ program' = program /\ QueryEnds(t, k)
    BY <1>4 DEF QueryRuns, OptimizedRuns
  <2>2. UNCHANGED mainVars
    BY <2>1 DEF QueryEnds
  <2> QED
    BY <2>1, <2>2, QueryEndsInv, ThreadsKeepPromise DEF RunInv
<1>5. CASE UNCHANGED runVars
  <2>1. /\ program' = program /\ UNCHANGED <<rows, phase, mpc, mpos>>
        /\ UNCHANGED <<poolVars, mpc, mpos, raised, threadVars>>
        /\ UNCHANGED <<pos, fetched, data, arrays>>
    BY <1>5 DEF runVars, scriptVars, mainVars, sequentialOnly
  <2>2. ScriptInv'
    BY <2>1, ScriptStutterInv DEF RunInv
  <2>3. SequentialInv => SequentialInv'
    BY <2>1 DEF SequentialInv
  <2>4. RowsAgree => RowsAgree'
    BY <2>1 DEF RowsAgree
  <2>5. UNCHANGED Batch!batchVars
    BY <2>1 DEF Batch!batchVars, File, End
  <2> QED
    BY <2>1, <2>2, <2>3, <2>4, <2>5 DEF RunInv
<1> QED
  BY <1>1, <1>2, <1>3, <1>4, <1>5 DEF RunNext

LEMMA RunInductive == RunSpec => []RunInv
  BY RunInitInv, RunStepInv, PTL DEF RunSpec

(* An exception on the daemon thread of a query, which nobody joins, always*)
(* ends in the future of its segment, no query outlives its segment, and no*)
(* result or file is made without the data of every query (script:40).     *)
THEOREM RunSurfacesErrors == RunSpec => []NoQueryDiesQuietly
<1>1. RunInv => NoQueryDiesQuietly
  BY InvSurfaces DEF RunInv
<1> QED
  BY <1>1, RunInductive, PTL

(* A script that has ended has tried every segment and left no thread and  *)
(* no query behind, and the first failure in the order of submission is    *)
(* the one that ended it.                                                  *)
THEOREM RunLeavesNobody == RunSpec => []EveryoneIsHomeAtTheEnd
<1>1. RunInv => EveryoneIsHomeAtTheEnd
  <2>1. RunInv /\ program = "sequential" => EveryoneIsHomeAtTheEnd
    BY DEF RunInv, EveryoneIsHomeAtTheEnd
  <2>2. RunInv /\ program = "optimized" => EveryoneIsHomeAtTheEnd
    BY InvEveryone DEF RunInv
  <2> QED
    BY <2>1, <2>2 DEF RunInv
<1> QED
  BY <1>1, RunInductive, PTL

(* Each program writes the rows it promises, in the order of its arguments,*)
(* all of them or no file, whatever segments are given and however often:  *)
(* the safety part of ImplementsBatchRun.                                  *)
THEOREM RunsKeepTheBatchPromise ==
    RunSpec => Batch!BatchInit /\ [][Batch!BatchNext]_(Batch!batchVars)
  BY RunInitInv, RunStepInv, RunInductive, PTL DEF RunSpec

LEMMA CopiesShow ==
    ASSUME NEW segment, NEW m, NEW n, PredictionFrom(segment, m) = PredictionFrom(segment, n)
    PROVE  m = n
<1> DEFINE made(c) == PredictionFrom(segment, c)
<1>1. \A c : made(c).arrays[1].data[1].copies = c
  BY DEF PredictionFrom, Predict, FitPlayerData, CpuIntensive, Column
<1> HIDE DEF made
<1>2. made(m) = made(n)
  BY DEF made
<1> QED
  BY <1>1, <1>2

(* What is promised differs in one thing: the sequential program selects a *)
(* segment by name from one table (v1:86), so its row for a segment is the *)
(* one of the optimized program, which is the service's, exactly if the    *)
(* arguments name that segment once.                                       *)
THEOREM ProgramsAgreeOnSegmentsGivenOnce ==
    ASSUME NEW i \in 1 .. NumSegments
    PROVE  PromisedTo("sequential")[i] = PromisedTo("optimized")[i]
              <=> Times(Segments[i]) = 1
<1> DEFINE s == Segments[i]
           ours == PredictionFrom(s, Times(s))
           theirs == PredictionFrom(s, 1)
<1>1. /\ PromisedTo("sequential")[i] = Row(s, ours)
      /\ PromisedTo("optimized")[i] = Row(s, theirs)
  BY PromisedRow
<1>2. ours = theirs => Times(s) = 1
  BY CopiesShow
<1>3. Row(s, ours).prediction = ours /\ Row(s, theirs).prediction = theirs
  BY DEF Row
<1>4. Times(s) = 1 => ours = theirs
  OBVIOUS
<1> HIDE DEF ours, theirs
<1> QED
  BY <1>1, <1>2, <1>3, <1>4

-----------------------------------------------------------------------------
(* What the missing lock of _cpu_intensive costs and what it does not, for *)
(* any number of threads: a thread may measure in vain, but none measures  *)
(* twice, and none computes with a speed that is not there.                *)

(* A thread that has looked in vain has not measured before; once somebody *)
(* has measured, or is past the look, the speed is there.                  *)
CalibrationInv ==
    /\ TypeInv
    /\ NoFitWithoutASpeed
    /\ Measuring \cap measurers = {}
    /\ measurers # {} => itersPerSecond # None

LEMMA AtLeastOneIsPositive ==
    ASSUME NEW n \in Int PROVE AtLeastOne(n) \in Nat /\ AtLeastOne(n) >= 1
  BY DEF AtLeastOne

LEMMA CalibrationInitInv == CalibrationInit => CalibrationInv
  BY DEF CalibrationInit, CalibrationInv, TypeInv, NoFitWithoutASpeed, Measuring, None

LEMMA LookUpInv ==
    ASSUME CalibrationInv, NEW t \in Thread, LookUp(t) PROVE CalibrationInv'
  BY DEF LookUp, CalibrationInv, TypeInv, NoFitWithoutASpeed, Measuring, None

LEMMA CalibrateInv ==
    ASSUME CalibrationInv, NEW t \in Thread, Calibrate(t) PROVE CalibrationInv'
<1>1. itersPerSecond' \in Nat /\ itersPerSecond' >= 1
  BY AtLeastOneIsPositive DEF Calibrate
<1> QED
  BY <1>1 DEF Calibrate, CalibrationInv, TypeInv, NoFitWithoutASpeed, Measuring, None

LEMMA PlanInv ==
    ASSUME CalibrationInv, NEW t \in Thread, Plan(t) PROVE CalibrationInv'
<1>1. PICK seconds \in 1 .. MaxSeconds :
         target' = [target EXCEPT ![t] = AtLeastOne(itersPerSecond * seconds)]
  BY DEF Plan
<1>2. itersPerSecond * seconds \in Int
  BY DEF CalibrationInv, TypeInv
<1>3. AtLeastOne(itersPerSecond * seconds) \in Nat
      /\ AtLeastOne(itersPerSecond * seconds) >= 1
  BY <1>2, AtLeastOneIsPositive
<1> QED
  BY <1>1, <1>3 DEF Plan, CalibrationInv, TypeInv, NoFitWithoutASpeed, Measuring, None

LEMMA WorkInv ==
    ASSUME CalibrationInv, NEW t \in Thread, Work(t) PROVE CalibrationInv'
  BY DEF Work, CalibrationInv, TypeInv, NoFitWithoutASpeed, Measuring, None

LEMMA CalibrationInductive == CalibrationSpec => []CalibrationInv
<1>1. CalibrationInv /\ [CalibrationNext]_calibrationVars => CalibrationInv'
  <2> SUFFICES ASSUME CalibrationInv, [CalibrationNext]_calibrationVars
               PROVE  CalibrationInv'
    OBVIOUS
  <2>1. CASE CalibrationNext
    BY <2>1, LookUpInv, CalibrateInv, PlanInv, WorkInv DEF CalibrationNext, ThreadStep
  <2>2. CASE UNCHANGED calibrationVars
    BY <2>2 DEF calibrationVars, CalibrationInv, TypeInv, NoFitWithoutASpeed, Measuring
  <2> QED
    BY <2>1, <2>2
<1> QED
  BY <1>1, CalibrationInitInv, PTL DEF CalibrationSpec

(* The check "is None" and the use of the speed are apart, and other       *)
(* threads assign it in between; still every fit has a speed, and work to  *)
(* do (modeling.py:52-54).                                                 *)
THEOREM FitsHaveASpeed == CalibrationSpec => []NoFitWithoutASpeed
  BY CalibrationInductive, PTL DEF CalibrationInv

(* However many threads look before the first assignment, each of them     *)
(* measures once and never again (modeling.py:52).                         *)
THEOREM OneMeasurementEach == CalibrationSpec => []EachThreadMeasuresOnce
<1>1. CalibrationInv => EachThreadMeasuresOnce
  BY DEF CalibrationInv, EachThreadMeasuresOnce
<1> QED
  BY <1>1, CalibrationInductive, PTL
=============================================================================
