------------------------- MODULE MCProcessLifecycle --------------------------
(***************************************************************************)
(* A small instance of ProcessLifecycle.                                   *)
(***************************************************************************)
EXTENDS ProcessLifecycle

CONSTANTS s1, s2, both, one

MCTask == JobId \X Segment
MCSegmentsOf == [r \in Request |-> IF r = one THEN <<s1>> ELSE <<s1, s2>>]
MCKeyOf == [r \in Request |-> r]
=============================================================================
