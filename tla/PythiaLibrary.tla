--------------------------- MODULE PythiaLibrary ----------------------------
(***************************************************************************)
(* The functions of pythia_library_v1 and _v2 (the two differ in latencies *)
(* only), as far as their results go: what an array was computed from.     *)
(*                                                                         *)
(* A fit returns an array seeded with the sums of its inputs, and nothing  *)
(* else decides what is in it; the sums are taken to tell inputs apart.  So*)
(* an array is the record of the call that returned it, and two programs   *)
(* report the same numbers when these records are equal.  In particular the*)
(* result does not depend on the speed that Calibration measures.          *)
(***************************************************************************)
EXTENDS Integers, Sequences

Kpi == {"players", "revenues", "gamerounds"}

(* One column of a table: the segments whose rows it has, and how often it *)
(* has them.  query_data returns the rows of one segment once.             *)
Column(kpi, segment, copies) ==
    [kpi |-> kpi, segment |-> segment, copies |-> copies]

QueryData(kpi, segment) == Column(kpi, segment, 1)

(* _cpu_intensive(seed = the sums of data and of the arrays).              *)
CpuIntensive(model, data, arrays) ==
    [model |-> model, data |-> data, arrays |-> arrays]

FitPlayerData(data) == CpuIntensive("players", <<data>>, << >>)

FitEconomyData(data, modeled_players) ==
    CpuIntensive("economy", <<data>>, <<modeled_players>>)

FitGameroundData(data, modeled_revenues) ==
    CpuIntensive("gamerounds", <<data>>, <<modeled_revenues>>)

Predict(modeled_players, modeled_revenues, modeled_gamerounds) ==
    CpuIntensive("prediction", << >>,
                 <<modeled_players, modeled_revenues, modeled_gamerounds>>)
=============================================================================
