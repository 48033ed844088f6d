-------------------------- MODULE SequentialScript --------------------------
(***************************************************************************)
(* scripts/pythia-prediction-v1.py, and -v2.py, which is the same program  *)
(* on the other library: _get_data fetches and merges the tables of every  *)
(* segment into one, then main selects the rows of one segment after the   *)
(* other and models them.  An exception of the library ends the program.   *)
(***************************************************************************)
EXTENDS Prediction, FiniteSets

CONSTANT Segments              \* games x regions x platforms, in the loops' order

VARIABLES
    phase,        \* "fetching", "modeling", "saved" or "aborted"
    pos,          \* the segment the loop is at
    fetched,      \* the KPIs of that segment _get_data has
    data,         \* the segments whose merged tables have been appended
    models,       \* the arrays pythia_oracle has for that segment
    rows          \* results

sequentialVars == <<phase, pos, fetched, data, models, rows>>

SequentialInit ==
    /\ phase = "fetching"
    /\ pos = 1
    /\ fetched = << >>
    /\ data = << >>
    /\ models = << >>
    /\ rows = << >>

-----------------------------------------------------------------------------
(* _get_data.                                                              *)
QueryOrder == <<"players", "revenues", "gamerounds">>

Query ==
    /\ phase = "fetching"
    /\ pos <= Len(Segments)
    /\ Len(fetched) < 3
    /\ fetched' = Append(fetched, QueryOrder[Len(fetched) + 1])
    /\ UNCHANGED <<phase, pos, data, models, rows>>

Merge ==
    /\ phase = "fetching"
    /\ Len(fetched) = 3
    /\ data' = Append(data, Segments[pos])
    /\ pos' = pos + 1
    /\ fetched' = << >>
    /\ UNCHANGED <<phase, models, rows>>

Concat ==
    /\ phase = "fetching"
    /\ pos > Len(Segments)
    /\ phase' = "modeling"
    /\ pos' = 1
    /\ UNCHANGED <<fetched, data, models, rows>>

-----------------------------------------------------------------------------
(* Mutant of Copies: the filter forgets one of its conditions.             *)
CopiesOfAnything(segment) == Cardinality(DOMAIN data)

(* segment_data: the rows of data with this game, region and platform; they*)
(* come once for each time the segment was fetched.                        *)
Copies(segment) == Cardinality({i \in DOMAIN data : data[i] = segment})

SegmentColumn(kpi) == Column(kpi, Segments[pos], Copies(Segments[pos]))

(* pythia_oracle, one fit after the other.                                 *)
Fit ==
    /\ phase = "modeling"
    /\ pos <= Len(Segments)
    /\ \/ /\ Len(models) = 0
          /\ models' = <<FitPlayerData(SegmentColumn("players"))>>
       \/ /\ Len(models) = 1
          /\ models' = Append(models, FitEconomyData(SegmentColumn("revenues"), models[1]))
       \/ /\ Len(models) = 2
          /\ models' = Append(models, FitGameroundData(SegmentColumn("gamerounds"), models[2]))
    /\ UNCHANGED <<phase, pos, fetched, data, rows>>

PredictRow ==
    /\ phase = "modeling"
    /\ Len(models) = 3
    /\ rows' = Append(rows, Row(Segments[pos], Predict(models[1], models[2], models[3])))
    /\ pos' = pos + 1
    /\ models' = << >>
    /\ UNCHANGED <<phase, fetched, data>>

Save ==
    /\ phase = "modeling"
    /\ pos > Len(Segments)
    /\ phase' = "saved"
    /\ UNCHANGED <<pos, fetched, data, models, rows>>

(* A query, a fit or predict raises.                                       *)
Raise ==
    /\ phase \in {"fetching", "modeling"}
    /\ pos <= Len(Segments)
    /\ phase' = "aborted"
    /\ UNCHANGED <<pos, fetched, data, models, rows>>

SequentialNext == Query \/ Merge \/ Concat \/ Fit \/ PredictRow \/ Save \/ Raise
=============================================================================
