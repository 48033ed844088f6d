----------------------------- MODULE MCHungCall ------------------------------
(***************************************************************************)
(* A small instance of HungCall, with the requests of MCPredictionService. *)
(***************************************************************************)
EXTENDS HungCall

CONSTANTS s1, s2, both, one

MCTask == JobId \X Segment
MCSegmentsOf == [r \in Request |-> IF r = one THEN <<s1>> ELSE <<s1, s2>>]
MCKeyOf == [r \in Request |-> r]
=============================================================================
