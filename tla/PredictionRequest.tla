-------------------------- MODULE PredictionRequest --------------------------
(***************************************************************************)
(* The validators and methods of PredictionRequest (domain/models.py) and  *)
(* compute_dedup_key (domain/dedup.py), as operators.                      *)
(*                                                                         *)
(* A name is what is left of a string once strip() has taken its blanks    *)
(* off, and how many it had around; Blank is what is left of a string of   *)
(* blanks.  SHA-256 is taken to be injective, so a dedup key is the value  *)
(* that is hashed; two sorted lists without duplicates are equal when they *)
(* have the same elements, so a sorted list is the set of them.            *)
(***************************************************************************)
EXTENDS Integers, Sequences, SequencesExt

CONSTANTS
    Blank,                     \* the empty string
    MaxSegmentsPerRequest      \* MAX_SEGMENTS_PER_REQUEST

ASSUME RequestBound == MaxSegmentsPerRequest \in Nat

Field == {"games", "regions", "platforms"}

(* A raw body gives each field a list of padded names, [name, pad].        *)
Strip(padded) == padded.name

-----------------------------------------------------------------------------
(* list(dict.fromkeys(names)): the first of each, in the order they came.  *)
DropDuplicates(names) ==
    FoldLeft(LAMBDA seen, name : IF Contains(seen, name) THEN seen
                                                         ELSE Append(seen, name),
             << >>, names)

(* Mutant of Cleaned: drops the duplicates first and strips second.        *)
CleanedTooLate(list) ==
    LET kept == DropDuplicates(list) IN
    [i \in DOMAIN kept |-> Strip(kept[i])]

(* _no_blank_or_dupe, for one field.                                       *)
Cleaned(list) == DropDuplicates([i \in DOMAIN list |-> Strip(list[i])])

HasBlank(list) == \E i \in DOMAIN list : Strip(list[i]) = Blank

Body(raw) == [f \in Field |-> Cleaned(raw[f])]

(* _bounded_fan_out.                                                       *)
FanOut(body) == Len(body.games) * Len(body.regions) * Len(body.platforms)

(* What FastAPI lets through to the handler; anything else is a 422.       *)
Valid(raw) ==
    /\ \A f \in Field : raw[f] # << >> /\ ~ HasBlank(raw[f])
    /\ FanOut(Body(raw)) <= MaxSegmentsPerRequest

(* segment_keys: itertools.product, the last factor turning fastest.       *)
SegmentKeys(body) ==
    LET R == Len(body.regions)
        P == Len(body.platforms)
    IN  [i \in 1 .. FanOut(body) |->
            <<body.games[((i - 1) \div (R * P)) + 1],
              body.regions[(((i - 1) \div P) % R) + 1],
              body.platforms[((i - 1) % P) + 1]>>]

(* Mutants of ComputeDedupKey: the lists are hashed as they came; one of   *)
(* them is forgotten.                                                      *)
DedupKeyUnsorted(body) == body
DedupKeyWithoutPlatforms(body) ==
    [f \in Field \ {"platforms"} |-> ToSet(body[f])]

(* compute_dedup_key.                                                      *)
ComputeDedupKey(body) == [f \in Field |-> ToSet(body[f])]
=============================================================================
