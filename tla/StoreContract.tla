---------------------------- MODULE StoreContract -----------------------------
(***************************************************************************)
(* The store implements the contract.  The work a request asks for is its  *)
(* dedup key; what the client knows of a job is counted from its segments. *)
(***************************************************************************)
EXTENDS JobStore

NumberWith(job, statuses) ==
    Cardinality({s \in DOMAIN job.segments : job.segments[s].status \in statuses})

OfferOf(job) ==
    [work  |-> job.key,
     begun |-> \E s \in DOMAIN job.segments : job.segments[s].status # "pending",
     good  |-> NumberWith(job, {"success"}),
     bad   |-> NumberWith(job, {"failed"})]

(* Requests with one key have the same segments (RequestAssumption).       *)
SizeOfWork ==
    [key \in DedupKey |->
        Cardinality(Elements(SegmentsOf[CHOOSE r \in Request : KeyOf[r] = key]))]

OffersNow == [j \in DOMAIN jobs |-> OfferOf(jobs[j])]

Contract == INSTANCE ServiceContract WITH
    Work <- DedupKey,
    SizeOf <- SizeOfWork,
    offers <- OffersNow

(* Every step of the store under its callers is one the contract allows, or*)
(* one a client cannot see: joining an open job, moving from stage to stage*)
(* and closing a job never give a client two unfinished ids for one work,  *)
(* take an id or a count back, or end a job twice.                         *)
ImplementsContract == Contract!ContractSpec

(* derive_job_status (state.py:16), which looks at the set of the statuses *)
(* that occur, says what the counts of the same response say: a terminal   *)
(* status exactly when the counts add up to the number of segments, and    *)
(* "pending" exactly while nothing has begun.                              *)
StatusIsTheCount ==
    \A j \in DOMAIN jobs : Status(jobs[j]) = Contract!StatusOf(OfferOf(jobs[j]))
=============================================================================
