------------------------------ MODULE BatchRun ------------------------------
(***************************************************************************)
(* What a run of one of the prediction scripts promises, whatever it does  *)
(* in parallel: the promised rows come in their order, the file is written *)
(* once all of them are there, and one segment that fails leaves no file.  *)
(***************************************************************************)
EXTENDS Integers, Sequences

VARIABLES
    promised,     \* the rows of this run, given with its arguments
    rows,         \* the rows it has so far
    file          \* "none" while the run lasts, then "saved" or "aborted"

batchVars == <<promised, rows, file>>

BatchInit == rows = << >> /\ file = "none"

NextRow ==
    /\ file = "none"
    /\ Len(rows) < Len(promised)
    /\ rows' = Append(rows, promised[Len(rows) + 1])
    /\ UNCHANGED <<promised, file>>

SaveFile ==
    /\ file = "none"
    /\ rows = promised
    /\ file' = "saved"
    /\ UNCHANGED <<promised, rows>>

Abort ==
    /\ file = "none"
    /\ Len(rows) < Len(promised)
    /\ file' = "aborted"
    /\ UNCHANGED <<promised, rows>>

BatchNext == NextRow \/ SaveFile \/ Abort

(* A run ends.                                                             *)
BatchSpec == BatchInit /\ [][BatchNext]_batchVars /\ WF_batchVars(BatchNext)
=============================================================================
