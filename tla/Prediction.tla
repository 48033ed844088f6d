----------------------------- MODULE Prediction -----------------------------
(***************************************************************************)
(* What the service reports for a segment: worker/pythia_adapter.py, and   *)
(* the seven calls of process_segment in worker/pipeline.py with what each *)
(* hands on to the next.                                                   *)
(***************************************************************************)
EXTENDS PythiaLibrary

FetchPlayers(segment) == QueryData("players", segment)
FetchRevenues(segment) == QueryData("revenues", segment)
FetchGamerounds(segment) == QueryData("gamerounds", segment)

FitPlayers(players_data) == FitPlayerData(players_data)
FitEconomy(revenues_data, modeled_players) ==
    FitEconomyData(revenues_data, modeled_players)

(* Mutant of FitGamerounds: the parameter the library calls                *)
(* modeled_revenues is given the raw revenues.                             *)
FitGameroundsOnData(gamerounds_data, modeled_economy) ==
    FitGameroundData(gamerounds_data, modeled_economy.data[1])

FitGamerounds(gamerounds_data, modeled_economy) ==
    FitGameroundData(gamerounds_data, modeled_economy)
RunPrediction(modeled_players, modeled_economy, modeled_gamerounds) ==
    Predict(modeled_players, modeled_economy, modeled_gamerounds)

(* The try block of process_segment.                                       *)
SegmentPrediction(segment) ==
    LET modeled_players == FitPlayers(FetchPlayers(segment))
        modeled_economy == FitEconomy(FetchRevenues(segment), modeled_players)
        modeled_gamerounds ==
            FitGamerounds(FetchGamerounds(segment), modeled_economy)
    IN  RunPrediction(modeled_players, modeled_economy, modeled_gamerounds)

(* A row of the file a script writes; and one row for each segment it is   *)
(* asked for, in that order, with the prediction the service gives for it. *)
Row(segment, prediction) == [segment |-> segment, prediction |-> prediction]

PromisedRows(segments) ==
    [i \in DOMAIN segments |-> Row(segments[i], SegmentPrediction(segments[i]))]
=============================================================================
