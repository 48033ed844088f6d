------------------------ MODULE MCPredictionService -------------------------
(***************************************************************************)
(* Small instances of PredictionService: three request bodies, two of them *)
(* naming the same two segments in a different order (one dedup key), the  *)
(* third naming one of those segments alone.                               *)
(***************************************************************************)
EXTENDS PredictionServiceProofs, StoreContract, TLC

CONSTANTS s1, s2, both, htob, one

MCTask == JobId \X Segment
MCSegmentsOf ==
    [r \in Request |-> CASE r = both -> <<s1, s2>>
                         [] r = htob -> <<s2, s1>>
                         [] r = one  -> <<s1>>]
MCKeyOf == [r \in Request |-> IF r = one THEN one ELSE both]

(* Threads do not differ, and neither do the ids of jobs not created yet.  *)
ThreadsAndIds == Permutations(Worker) \cup Permutations(JobId)
=============================================================================
