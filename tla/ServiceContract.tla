--------------------------- MODULE ServiceContract ----------------------------
(***************************************************************************)
(* What a client of the service is promised, without segments, stages,     *)
(* threads, queue or dedup index: an id stands for one piece of work, two  *)
(* unfinished ids never stand for the same, the work on an id climbs from  *)
(* pending through running to an end, and its end is the count of what     *)
(* went well and what did not.  This is what "the caller can follow the    *)
(* progress of a submitted request" (README.md:94) comes to.               *)
(***************************************************************************)
EXTENDS Integers

CONSTANTS
    JobId,
    Work,         \* what can be asked for
    SizeOf        \* SizeOf[work]: the number of its segments

VARIABLE offers   \* job id -> what the client may know of it

Offer == [work : Work, begun : BOOLEAN, good : Nat, bad : Nat]

Open(offer) == offer.good + offer.bad < SizeOf[offer.work]

(* The status, from the counts.                                            *)
StatusOf(offer) ==
    CASE Open(offer) /\ ~ offer.begun -> "pending"
      [] Open(offer) /\ offer.begun   -> "running"
      [] ~ Open(offer) /\ offer.bad = 0  -> "success"
      [] ~ Open(offer) /\ offer.good = 0 -> "failed"
      [] ~ Open(offer) /\ offer.good > 0 /\ offer.bad > 0 -> "partial_success"

ContractInit == offers = [j \in {} |-> j]

(* A request is answered with a new id only if no unfinished id stands for *)
(* that work; otherwise it is answered with that id, which changes nothing.*)
Take(j, work) ==
    /\ j \notin DOMAIN offers
    /\ \A k \in DOMAIN offers : offers[k].work = work => ~ Open(offers[k])
    /\ offers' = [k \in DOMAIN offers \cup {j} |->
                    IF k = j THEN [work |-> work, begun |-> FALSE, good |-> 0, bad |-> 0]
                             ELSE offers[k]]

Begin(j) ==
    /\ ~ offers[j].begun
    /\ offers' = [offers EXCEPT ![j].begun = TRUE]

EndOne(j, good) ==
    /\ Open(offers[j])
    /\ good => offers[j].begun
    /\ offers' = [offers EXCEPT ![j].begun = TRUE,
                                ![j].good = IF good THEN @ + 1 ELSE @,
                                ![j].bad = IF good THEN @ ELSE @ + 1]

ContractNext ==
    \/ \E j \in JobId, work \in Work : Take(j, work)
    \/ \E j \in DOMAIN offers : Begin(j) \/ EndOne(j, TRUE) \/ EndOne(j, FALSE)

ContractSpec == ContractInit /\ [][ContractNext]_offers
=============================================================================
