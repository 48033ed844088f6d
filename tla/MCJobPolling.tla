---------------------------- MODULE MCJobPolling -----------------------------
(***************************************************************************)
(* A small instance of JobPolling: a job of two segments and one of one.   *)
(***************************************************************************)
EXTENDS JobPolling, TLC

CONSTANTS s1, s2, both, one

MCSegmentsOf == [r \in Request |-> IF r = one THEN <<s1>> ELSE <<s1, s2>>]
MCKeyOf == [r \in Request |-> r]

Ids == Permutations(JobId)
=============================================================================
