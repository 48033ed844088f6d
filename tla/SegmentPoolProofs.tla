------------------------- MODULE SegmentPoolProofs --------------------------
(***************************************************************************)
(* What holds of the pool for any number of threads and tasks.             *)
(***************************************************************************)
EXTENDS SegmentPool, TLAPS

Items(q) == {q[i] : i \in DOMAIN q}
Distinct(q) == \A i, k \in DOMAIN q : q[i] = q[k] => i = k

LEMMA QueueAppend ==
    ASSUME NEW q \in Seq(Task), NEW t \in Task
    PROVE  /\ Append(q, t) \in Seq(Task)
           /\ Items(Append(q, t)) = Items(q) \cup {t}
           /\ Distinct(q) /\ t \notin Items(q) => Distinct(Append(q, t))
<1> DEFINE p == Append(q, t)
<1>1. /\ p \in Seq(Task)
      /\ DOMAIN q = 1 .. Len(q) /\ Len(q) \in Nat
      /\ DOMAIN p = 1 .. Len(q) + 1
      /\ \A i \in 1 .. Len(q) : p[i] = q[i]
      /\ p[Len(q) + 1] = t
  OBVIOUS
<1> HIDE DEF p
<1>2. DOMAIN p = DOMAIN q \cup {Len(q) + 1}
  BY <1>1
<1>3. Items(p) = Items(q) \cup {t}
  BY <1>1, <1>2 DEF Items
<1>4. ASSUME Distinct(q), t \notin Items(q) PROVE Distinct(p)
  <2> SUFFICES ASSUME NEW i \in DOMAIN p, NEW k \in DOMAIN p, p[i] = p[k]
               PROVE  i = k
    BY DEF Distinct
  <2>1. \A n \in DOMAIN q : p[n] = q[n] /\ q[n] # t
    BY <1>1, <1>4 DEF Items
  <2> QED
    BY <1>1, <1>2, <1>4, <2>1 DEF Distinct
<1> QED
  BY <1>1, <1>3, <1>4 DEF p

LEMMA QueueTail ==
    ASSUME NEW q \in Seq(Task), q # << >>
    PROVE  /\ Head(q) \in Task /\ Head(q) \in Items(q)
           /\ Tail(q) \in Seq(Task)
           /\ Items(q) = Items(Tail(q)) \cup {Head(q)}
           /\ Distinct(q) => Distinct(Tail(q)) /\ Head(q) \notin Items(Tail(q))
<1> DEFINE p == Tail(q)
<1>1. /\ p \in Seq(Task)
      /\ Len(q) \in Nat \ {0} /\ DOMAIN q = 1 .. Len(q)
      /\ DOMAIN p = 1 .. Len(q) - 1
      /\ \A i \in 1 .. Len(q) - 1 : p[i] = q[i + 1]
      /\ Head(q) = q[1] /\ Head(q) \in Task
  OBVIOUS
<1> HIDE DEF p
<1>2. Items(q) = Items(p) \cup {Head(q)}
  <2>1. ASSUME NEW i \in DOMAIN q PROVE q[i] \in Items(p) \cup {Head(q)}
    <3>1. CASE i = 1
      BY <1>1, <3>1
    <3>2. CASE i # 1
      <4>1. i - 1 \in DOMAIN p /\ p[i - 1] = q[i]
        BY <1>1, <3>2
      <4> QED
        BY <4>1 DEF Items
    <3> QED
      BY <3>1, <3>2
  <2>2. ASSUME NEW i \in DOMAIN p PROVE p[i] \in Items(q)
    <3>1. i + 1 \in DOMAIN q /\ p[i] = q[i + 1]
      BY <1>1
    <3> QED
      BY <3>1 DEF Items
  <2>3. Head(q) \in Items(q)
    BY <1>1 DEF Items
  <2> QED
    BY <2>1, <2>2, <2>3 DEF Items
<1>3. ASSUME Distinct(q) PROVE Distinct(p) /\ Head(q) \notin Items(p)
  <2>1. \A i \in DOMAIN p : i + 1 \in DOMAIN q /\ p[i] = q[i + 1] /\ i \in Nat /\ i # 0
    BY <1>1
  <2>2. Distinct(p)
    BY <1>1, <1>3, <2>1 DEF Distinct
  <2>3. \A i \in DOMAIN p : p[i] # q[1]
    BY <1>1, <1>3, <2>1 DEF Distinct
  <2> QED
    BY <1>1, <2>2, <2>3 DEF Items
<1> QED
  BY <1>1, <1>2, <1>3 DEF p

-----------------------------------------------------------------------------
(* OneThreadPerTask without a look into the sequence, in this state and in *)
(* the next one.                                                           *)
HeldOrQueuedOnce ==
    /\ Distinct(queue)
    /\ \A v, w \in Worker : hand[v] = hand[w] /\ hand[v] # NoTask => v = w
    /\ \A w \in Worker : hand[w] # NoTask => hand[w] \notin Items(queue)
    /\ \A t \in Task :
          /\ future[t] = "pending" =>
                t \in Items(queue) \/ \E w \in Worker : hand[w] = t
          /\ future[t] = "running" => \E w \in Worker : hand[w] = t
          /\ future[t] \in {"none", "finished"} =>
                t \notin Items(queue) /\ \A w \in Worker : hand[w] # t

LEMMA AsSets == OneThreadPerTask <=> HeldOrQueuedOnce
  BY PoolAssumption DEF OneThreadPerTask, HeldOrQueuedOnce, Distinct, Items, Queued, Held

LEMMA AsSetsNext == OneThreadPerTask' <=> HeldOrQueuedOnce'
  BY PoolAssumption DEF OneThreadPerTask, HeldOrQueuedOnce, Distinct, Items, Queued, Held

PoolInv == PoolTypeOK /\ OneThreadPerTask /\ StoppedPoolIsQuiet

LEMMA PoolInitInv == PoolInit => PoolInv
<1> SUFFICES ASSUME PoolInit PROVE PoolInv
  OBVIOUS
<1>1. PoolTypeOK
  BY PoolAssumption DEF PoolInit, PoolTypeOK, ExecutorState, FutureState
<1>2. Items(queue) = {} /\ Distinct(queue)
  BY DEF PoolInit, Items, Distinct
<1>3. OneThreadPerTask
  BY <1>2, PoolAssumption, AsSets DEF HeldOrQueuedOnce, PoolInit
<1> QED
  BY <1>1, <1>3 DEF PoolInit, PoolInv, StoppedPoolIsQuiet

LEMMA SubmitInv == ASSUME PoolInv, NEW t \in Task, SubmitOnce(t) PROVE PoolInv'
<1> USE DEF PoolInv
<1>1. /\ queue' = Append(queue, t) /\ hand' = hand /\ executor' = executor
      /\ future' = [future EXCEPT ![t] = "pending"] /\ future[t] = "none"
      /\ executor = "running"
  BY DEF SubmitOnce, SubmitTask
<1>2. PoolTypeOK'
  BY <1>1, QueueAppend DEF PoolTypeOK, FutureState
<1>3. Items(queue') = Items(queue) \cup {t} /\ Distinct(queue')
  BY <1>1, QueueAppend, AsSets DEF HeldOrQueuedOnce, PoolTypeOK
<1>4. OneThreadPerTask'
  BY <1>1, <1>3, AsSets, AsSetsNext DEF HeldOrQueuedOnce, PoolTypeOK
<1> QED
  BY <1>1, <1>2, <1>4 DEF StoppedPoolIsQuiet

LEMMA CancelInv == ASSUME PoolInv, NEW t \in Task, CancelTask(t) PROVE PoolInv'
<1> USE DEF PoolInv
<1>1. /\ queue' = queue /\ hand' = hand /\ executor' = executor
      /\ \A u \in Task :
            \/ future'[u] = future[u]
            \/ future[u] = "pending" /\ future'[u] = "cancelled"
      /\ future' \in [Task -> FutureState]
  BY DEF CancelTask, CancelSucceeds, PoolTypeOK, FutureState
<1>2. PoolTypeOK'
  BY <1>1 DEF PoolTypeOK
<1>3. OneThreadPerTask'
  BY <1>1, AsSets, AsSetsNext DEF HeldOrQueuedOnce
<1> QED
  BY <1>1, <1>2, <1>3 DEF StoppedPoolIsQuiet

LEMMA ClaimInv == ASSUME PoolInv, NEW w \in Worker, Claim(w) PROVE PoolInv'
<1> USE DEF PoolInv
<1>1. /\ queue' = Tail(queue) /\ queue # << >>
      /\ hand' = [hand EXCEPT ![w] = Head(queue)] /\ hand[w] = NoTask
      /\ future' = future /\ executor' = executor
  BY DEF Claim
<1>2. /\ Head(queue) \in Task /\ queue' \in Seq(Task)
      /\ Items(queue) = Items(queue') \cup {Head(queue)}
      /\ Distinct(queue') /\ Head(queue) \notin Items(queue')
  BY <1>1, QueueTail, AsSets DEF HeldOrQueuedOnce, PoolTypeOK
<1>3. PoolTypeOK'
  BY <1>1, <1>2 DEF PoolTypeOK
<1>4. /\ hand'[w] = Head(queue) /\ hand'[w] # NoTask
      /\ \A v \in Worker : v # w => hand'[v] = hand[v] /\ hand[v] # Head(queue)
  BY <1>1, <1>2, AsSets, PoolAssumption DEF HeldOrQueuedOnce, PoolTypeOK
<1>5. \A v \in Worker : hand'[v] # NoTask => hand'[v] \notin Items(queue')
  BY <1>2, <1>4, AsSets DEF HeldOrQueuedOnce
<1>6. \A t \in Task :
         /\ (t \in Items(queue) \/ \E v \in Worker : hand[v] = t) <=>
               (t \in Items(queue') \/ \E v \in Worker : hand'[v] = t)
         /\ (\E v \in Worker : hand[v] = t) => (\E v \in Worker : hand'[v] = t)
  BY <1>1, <1>2, <1>4, PoolAssumption
<1>7. OneThreadPerTask'
  BY <1>1, <1>2, <1>4, <1>5, <1>6, AsSets, AsSetsNext DEF HeldOrQueuedOnce
<1> QED
  BY <1>1, <1>3, <1>7 DEF StoppedPoolIsQuiet, PoolTypeOK

LEMMA StartInv == ASSUME PoolInv, NEW w \in Worker, StartRun(w) PROVE PoolInv'
<1> USE DEF PoolInv
<1>1. /\ queue' = queue /\ hand' = hand /\ executor' = executor
      /\ hand[w] \in Task /\ future[hand[w]] = "pending"
      /\ future' = [future EXCEPT ![hand[w]] = "running"]
  BY DEF StartRun, PoolTypeOK
<1>2. PoolTypeOK'
  BY <1>1 DEF PoolTypeOK, FutureState
<1>3. OneThreadPerTask'
  BY <1>1, AsSets, AsSetsNext DEF HeldOrQueuedOnce, PoolTypeOK
<1>4. executor # "none"
  BY <1>1 DEF StoppedPoolIsQuiet
<1> QED
  BY <1>1, <1>2, <1>3, <1>4 DEF StoppedPoolIsQuiet

(* A thread lets go of a task whose future is final.                       *)
LEMMA LetGoInv ==
    ASSUME PoolInv, NEW w \in Worker, hand[w] \in Task,
           future[hand[w]] \in {"running", "cancelled"},
           hand' = [hand EXCEPT ![w] = NoTask],
           NEW f \in {"cancelled", "finished"},
           future' = [future EXCEPT ![hand[w]] = f],
           UNCHANGED <<executor, queue>>
    PROVE  PoolInv'
<1> USE DEF PoolInv
<1>1. PoolTypeOK'
  BY DEF PoolTypeOK, FutureState
<1>2. /\ hand'[w] = NoTask
      /\ \A v \in Worker : v # w => hand'[v] = hand[v] /\ hand[v] # hand[w]
      /\ hand[w] \notin Items(queue)
  BY PoolAssumption, AsSets DEF HeldOrQueuedOnce, PoolTypeOK
<1>3. /\ future'[hand[w]] = f
      /\ \A t \in Task : t # hand[w] => future'[t] = future[t]
  BY DEF PoolTypeOK
<1>4. OneThreadPerTask'
  BY <1>2, <1>3, PoolAssumption, AsSets, AsSetsNext DEF HeldOrQueuedOnce
<1>5. StoppedPoolIsQuiet'
  BY <1>3 DEF StoppedPoolIsQuiet
<1> QED
  BY <1>1, <1>4, <1>5

LEMMA DrainInv == ASSUME PoolInv, DrainOne PROVE PoolInv'
<1> USE DEF PoolInv
<1>1. /\ queue' = Tail(queue) /\ queue # << >>
      /\ future' = [future EXCEPT ![Head(queue)] = "cancelled"]
      /\ hand' = hand /\ executor' = executor /\ executor = "draining"
  BY DEF DrainOne
<1>2. /\ Head(queue) \in Task /\ Head(queue) \in Items(queue)
      /\ queue' \in Seq(Task)
      /\ Items(queue) = Items(queue') \cup {Head(queue)}
      /\ Distinct(queue')
  BY <1>1, QueueTail, AsSets DEF HeldOrQueuedOnce, PoolTypeOK
<1>3. PoolTypeOK'
  BY <1>1, <1>2 DEF PoolTypeOK, FutureState
<1>4. /\ future'[Head(queue)] = "cancelled"
      /\ \A t \in Task : t # Head(queue) => future'[t] = future[t]
  BY <1>1, <1>2 DEF PoolTypeOK
<1>5. OneThreadPerTask'
  BY <1>1, <1>2, <1>4, AsSets, AsSetsNext DEF HeldOrQueuedOnce
<1> QED
  BY <1>1, <1>3, <1>5 DEF StoppedPoolIsQuiet

LEMMA StopInv ==
    ASSUME PoolInv, ShutdownExecutor \/ DrainDone \/ DropExecutor
    PROVE  PoolInv'
<1> USE DEF PoolInv
<1>1. /\ queue' = queue /\ hand' = hand /\ future' = future
      /\ executor' \in ExecutorState
  BY DEF ShutdownExecutor, DrainDone, DropExecutor, ExecutorState
<1>2. PoolTypeOK'
  BY <1>1 DEF PoolTypeOK
<1>3. OneThreadPerTask'
  BY <1>1 DEF OneThreadPerTask, Queued, Held
<1>4. CASE ShutdownExecutor \/ DrainDone
  <2>1. /\ executor' # "none"
        /\ executor' = "shutdown" => queue = << >>
    BY <1>4 DEF ShutdownExecutor, DrainDone
  <2> QED
    BY <1>1, <1>2, <1>3, <2>1 DEF StoppedPoolIsQuiet
<1>5. CASE DropExecutor
  <2>1. queue = << >> /\ \A w \in Worker : hand[w] = NoTask
    BY <1>5 DEF DropExecutor, StoppedPoolIsQuiet
  <2>2. Items(queue) = {}
    BY <2>1 DEF Items
  <2>3. \A t \in Task : future[t] \in FutureState \ {"pending", "running"}
    BY <2>1, <2>2, AsSets, PoolAssumption DEF HeldOrQueuedOnce, PoolTypeOK
  <2> QED
    BY <1>1, <1>2, <1>3, <2>1, <2>3 DEF StoppedPoolIsQuiet, FutureState
<1> QED
  BY <1>4, <1>5

LEMMA WorkerStepInv ==
    ASSUME PoolInv, NEW w \in Worker, WorkerStep(w) PROVE PoolInv'
<1>1. CASE Claim(w)
  BY <1>1, ClaimInv
<1>2. CASE StartRun(w)
  BY <1>2, StartInv
<1>3. CASE DropCancelled(w)
  <2>1. hand[w] \in Task /\ future[hand[w]] = "cancelled"
        /\ future' = [future EXCEPT ![hand[w]] = "cancelled"]
    BY <1>3 DEF DropCancelled, PoolInv, PoolTypeOK
  <2> QED
    BY <1>3, <2>1, LetGoInv DEF DropCancelled
<1>4. CASE FinishRun(w)
  <2>1. hand[w] \in Task
    BY <1>4 DEF FinishRun, PoolInv, PoolTypeOK
  <2> QED
    BY <1>4, <2>1, LetGoInv DEF FinishRun
<1> QED
  BY <1>1, <1>2, <1>3, <1>4 DEF WorkerStep

LEMMA PoolStepInv == PoolInv /\ [PoolNext]_poolVars => PoolInv'
<1> SUFFICES ASSUME PoolInv, [PoolNext]_poolVars PROVE PoolInv'
  OBVIOUS
<1>1. ASSUME UNCHANGED poolVars PROVE PoolInv'
  BY <1>1 DEF poolVars, PoolInv, PoolTypeOK, OneThreadPerTask,
              StoppedPoolIsQuiet, Queued, Held
<1> QED
  BY <1>1, SubmitInv, CancelInv, WorkerStepInv, DrainInv, StopInv
     DEF PoolNext, Stopping

(* No two threads ever run one task, and no task is lost between submit()  *)
(* and the thread that runs it.                                            *)
THEOREM PoolRunsOnce == PoolSpec => []OneThreadPerTask
<1>1. PoolSpec => []PoolInv
  BY PoolInitInv, PoolStepInv, PTL DEF PoolSpec
<1> QED
  BY <1>1, PTL DEF PoolInv

(* Once the pool is gone no future is left open.                           *)
THEOREM PoolStops == PoolSpec => []StoppedPoolIsQuiet
<1>1. PoolSpec => []PoolInv
  BY PoolInitInv, PoolStepInv, PTL DEF PoolSpec
<1> QED
  BY <1>1, PTL DEF PoolInv
=============================================================================
