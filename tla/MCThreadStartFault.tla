------------------------- MODULE MCThreadStartFault -------------------------
(***************************************************************************)
(* The instance of MCPredictionService, for ThreadStartFault.              *)
(***************************************************************************)
EXTENDS ThreadStartFault

CONSTANTS s1, s2, both, htob, one

MCTask == JobId \X Segment
MCSegmentsOf ==
    [r \in Request |-> CASE r = both -> <<s1, s2>>
                         [] r = htob -> <<s2, s1>>
                         [] r = one  -> <<s1>>]
MCKeyOf == [r \in Request |-> IF r = one THEN one ELSE both]
=============================================================================
