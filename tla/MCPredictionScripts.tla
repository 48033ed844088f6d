------------------------ MODULE MCPredictionScripts -------------------------
(***************************************************************************)
(* An instance of PredictionScripts with more segments than threads, one of*)
(* them given twice.                                                       *)
(***************************************************************************)
EXTENDS PredictionScripts

CONSTANTS a, b

MCSegments == <<a, b, a>>
MCTask == DOMAIN MCSegments
=============================================================================
