-------------------------- MODULE MCOptimizedScript --------------------------
(***************************************************************************)
(* An instance of OptimizedScript with more segments than threads, one of  *)
(* them named twice.                                                       *)
(***************************************************************************)
EXTENDS OptimizedScript

CONSTANTS a, b

MCSegments == <<a, b, a>>
MCTask == DOMAIN MCSegments
=============================================================================
