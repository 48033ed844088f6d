--------------------------- MODULE JobTimesProofs ----------------------------
(***************************************************************************)
(* The times a poll shows are in order, and no later poll takes them back, *)
(* for any number of segments, and however long the readings of the clock  *)
(* lie behind the writes that store them.                                  *)
(***************************************************************************)
EXTENDS JobTimes, TLAPS

Time == Nat \cup {NoTime}

TimesType ==
    /\ clock \in Nat
    /\ hpc \in {"building", "inserting", "scheduling", "stranding", "done"}
    /\ hnow \in Time /\ created_at \in Time /\ updated_at \in Time
    /\ started_at \in [Segment -> Time] /\ finished_at \in [Segment -> Time]
    /\ pc \in [Segment -> {"queued", "stranded", "running", "recording", "done"}]
    /\ started \in [Segment -> Time] /\ now \in [Segment -> Time]
    /\ stranded \subseteq Segment

(* A reading that somebody still holds lies between the creation of the    *)
(* job and the clock.                                                      *)
HandlersReadings ==
    /\ hpc \in {"building", "inserting"} =>
          /\ created_at = NoTime /\ updated_at = NoTime
          /\ \A s \in Segment : pc[s] = "queued"
    /\ hpc = "inserting" => hnow \in 0 .. clock
    /\ hpc \notin {"building", "inserting"} =>
          created_at \in Nat /\ created_at <= updated_at /\ updated_at <= clock
    /\ hpc = "stranding" => hnow \in created_at .. clock
    /\ hpc # "stranding" => stranded = {}

SegmentsReadings ==
    \A s \in Segment :
       /\ s \in stranded => pc[s] = "stranded"
       /\ pc[s] \in {"queued", "stranded"} =>
             started_at[s] = NoTime /\ finished_at[s] = NoTime
       /\ pc[s] \in {"running", "recording"} =>
             /\ started[s] \in created_at .. clock
             /\ started_at[s] \in {NoTime, started[s]}
             /\ finished_at[s] = NoTime
       /\ pc[s] = "recording" =>
             started_at[s] = started[s] /\ now[s] \in started[s] .. clock

TimesInv ==
    TimesType /\ HandlersReadings /\ SegmentsReadings /\ TimesAreInOrder

-----------------------------------------------------------------------------
LEMMA TimesInitInv == TimesInit => TimesInv
  BY TimesAssumption
     DEF TimesInit, TimesInv, TimesType, Time, NoTime, HandlersReadings,
         SegmentsReadings, TimesAreInOrder

(* The steps that read the clock or do not write a segment.                *)
LEMMA ReadingStepInv ==
    ASSUME TimesInv,
           \/ Tick \/ BuildCandidate \/ Insert \/ Scheduled \/ Strand
           \/ \E s \in Segment : Start(s) \/ BuildResult(s)
    PROVE  TimesInv'
<1> USE DEF TimesInv, TimesType, Time, NoTime, HandlersReadings,
            SegmentsReadings, TimesAreInOrder
<1>1. CASE Tick
  BY <1>1 DEF Tick
<1>2. CASE BuildCandidate
  BY <1>2 DEF BuildCandidate
<1>3. CASE Insert
  BY <1>3 DEF Insert
<1>4. CASE Scheduled
  BY <1>4 DEF Scheduled
<1>5. CASE Strand
  BY <1>5 DEF Strand
<1>6. ASSUME NEW s \in Segment, Start(s) PROVE TimesInv'
  BY <1>6 DEF Start
<1>7. ASSUME NEW s \in Segment, BuildResult(s) PROVE TimesInv'
  BY <1>7 DEF BuildResult
<1> QED
  BY <1>1, <1>2, <1>3, <1>4, <1>5, <1>6, <1>7

(* The steps that write a segment, with readings their callers hold.       *)
LEMMA WritingStepInv ==
    ASSUME TimesInv, NEW s \in Segment,
           FailOne(s) \/ SetStage(s) \/ RecordResult(s)
    PROVE  TimesInv'
<1> USE DEF TimesInv, TimesType, Time, NoTime, HandlersReadings,
            SegmentsReadings, TimesAreInOrder, Update
<1>1. CASE FailOne(s)
  BY <1>1 DEF FailOne
<1>2. CASE SetStage(s)
  BY <1>2 DEF SetStage
<1>3. CASE RecordResult(s)
  BY <1>3 DEF RecordResult
<1> QED
  BY <1>1, <1>2, <1>3

LEMMA TimesStepInv == TimesInv /\ [TimesNext]_timesVars => TimesInv'
<1> SUFFICES ASSUME TimesInv, [TimesNext]_timesVars PROVE TimesInv'
  OBVIOUS
<1>1. CASE TimesNext
  BY <1>1, ReadingStepInv, WritingStepInv DEF TimesNext
<1>2. CASE UNCHANGED timesVars
  BY <1>2 DEF timesVars, TimesInv, TimesType, HandlersReadings,
              SegmentsReadings, TimesAreInOrder
<1> QED
  BY <1>1, <1>2

LEMMA TimesInductive == TimesSpec => []TimesInv
  BY TimesInitInv, TimesStepInv, PTL DEF TimesSpec

-----------------------------------------------------------------------------
(* At every moment a poll finds created, started, finished and updated in  *)
(* this order (store.py:166, pipeline.py:50 and 108).                      *)
THEOREM TimesOrdered == TimesSpec => []TimesAreInOrder
  BY TimesInductive, PTL DEF TimesInv

(* No write takes back a time an earlier poll has shown: the last reading  *)
(* is the one update_segment makes with the lock held (store.py:166).      *)
THEOREM TimesAdvance == TimesSpec => TimesNeverGoBack
<1> DEFINE Kept ==
      /\ updated_at <= updated_at'
      /\ \A s \in Segment :
            /\ started_at[s] # NoTime => started_at'[s] = started_at[s]
            /\ finished_at[s] # NoTime => finished_at'[s] = finished_at[s]
<1>1. TimesInv /\ [TimesNext]_timesVars => [Kept]_timesVars
  <2> SUFFICES ASSUME TimesInv, TimesNext PROVE Kept
    OBVIOUS
  <2> USE DEF TimesInv, TimesType, Time, NoTime, HandlersReadings, SegmentsReadings
  <2>1. ASSUME \/ Tick \/ BuildCandidate \/ Insert \/ Scheduled \/ Strand
               \/ \E s \in Segment : Start(s) \/ BuildResult(s)
        PROVE  Kept
    BY <2>1 DEF Tick, BuildCandidate, Insert, Scheduled, Strand, Start, BuildResult
  <2>2. ASSUME NEW s \in Segment, FailOne(s) PROVE Kept
    BY <2>2 DEF FailOne, Update
  <2>3. ASSUME NEW s \in Segment, SetStage(s) PROVE Kept
    BY <2>3 DEF SetStage, Update
  <2>4. ASSUME NEW s \in Segment, RecordResult(s) PROVE Kept
    BY <2>4 DEF RecordResult, Update
  <2> QED
    BY <2>1, <2>2, <2>3, <2>4 DEF TimesNext
<1> QED
  BY <1>1, TimesInductive, PTL DEF TimesSpec, TimesNeverGoBack
=============================================================================
