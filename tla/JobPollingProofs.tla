-------------------------- MODULE JobPollingProofs ---------------------------
(***************************************************************************)
(* What the reading endpoints may rely on for any number of jobs, segments,*)
(* stages, page sizes and clock readings: every entry of a response is the *)
(* job as it was at one moment, and the moments of successive responses do *)
(* not go back.                                                            *)
(***************************************************************************)
EXTENDS JobPolling, JobStoreProofs

(* A job can become the other one: no segment of it is lost or goes back.  *)
Reaches(old, new) ==
    /\ DOMAIN new.segments = DOMAIN old.segments
    /\ \A s \in DOMAIN old.segments :
          /\ Final(old.segments[s]) => new.segments[s] = old.segments[s]
          /\ old.segments[s].status # "pending" => new.segments[s].status # "pending"

LEMMA ReachesItself == \A job : Reaches(job, job)
  BY DEF Reaches

LEMMA ReachesOn ==
    ASSUME NEW a, NEW b, NEW c, Reaches(a, b), Reaches(b, c) PROVE Reaches(a, c)
  BY DEF Reaches

LEMMA JobReaches ==
    ASSUME StoreInv, [StoreNext]_storeVars, NEW j \in DOMAIN jobs
    PROVE  j \in DOMAIN jobs' /\ Reaches(jobs[j], jobs'[j])
  BY StoreFrame, NoneBackToPending DEF Reaches

-----------------------------------------------------------------------------
(* What is told of a job at one moment and at a later one.                 *)
CountOf(job, st) == Cardinality({s \in DOMAIN job.segments : job.segments[s].status = st})

LEMMA StatusReaches ==
    ASSUME NEW old \in Job, NEW new \in Job, Reaches(old, new)
    PROVE  /\ Rank(Status(old)) <= Rank(Status(new))
           /\ Status(old) \in TerminalStatus => Status(new) = Status(old)
<1>1. Rank(Status(old)) \in {0, 1, 2} /\ Rank(Status(new)) \in {0, 1, 2}
  BY DEF Rank
<1>2. CASE Status(old) \in TerminalStatus
  <2>1. \A s \in DOMAIN old.segments : Final(old.segments[s])
    BY <1>2, JobTerminal DEF IsTerminal, Final
  <2>2. Statuses(new) = Statuses(old)
    BY <2>1 DEF Reaches, Statuses
  <2>3. Status(new) = Status(old)
    BY <2>2 DEF Status
  <2> QED
    BY <1>1, <2>3
<1>3. CASE Status(old) = "pending"
  BY <1>1, <1>3 DEF Rank, TerminalStatus
<1>4. CASE Status(old) = "running"
  <2>1. PICK s \in DOMAIN old.segments : old.segments[s].status # "pending"
    BY <1>4, JobPending
  <2>2. s \in DOMAIN new.segments /\ new.segments[s].status # "pending"
    BY <2>1 DEF Reaches
  <2>3. Status(new) # "pending"
    BY <2>2, JobPending
  <2> QED
    BY <1>1, <1>4, <2>3 DEF Rank, TerminalStatus
<1>5. Status(old) \in JobStatus
  BY JobTerminal
<1> QED
  BY <1>2, <1>3, <1>4, <1>5 DEF JobStatus, TerminalStatus

LEMMA CountReaches ==
    ASSUME NEW old \in Job, NEW new \in Job, Reaches(old, new),
           IsFiniteSet(DOMAIN new.segments), NEW st \in {"success", "failed"}
    PROVE  CountOf(old, st) <= CountOf(new, st)
<1> DEFINE Old == {s \in DOMAIN old.segments : old.segments[s].status = st}
           New == {s \in DOMAIN new.segments : new.segments[s].status = st}
<1>1. Old \in SUBSET New
  BY DEF Reaches, Final, OpenStatus
<1>2. New \in SUBSET (DOMAIN new.segments)
  OBVIOUS
<1>3. IsFiniteSet(New)
  BY <1>2, FS_Subset
<1>4. Cardinality(Old) <= Cardinality(New)
  BY <1>1, <1>3, FS_Subset
<1> QED
  BY <1>4 DEF CountOf

(* An entry of a response is of a moment of its job that reaches job.      *)
EntryIsOf(e, job) ==
    \E old \in Job, listed \in BOOLEAN :
       e = Entry(e.job, Status(old), old.segments, listed) /\ Reaches(old, job)

LEMMA EntryBefore ==
    ASSUME NEW a, NEW new \in Job, EntryIsOf(a, new), IsFiniteSet(DOMAIN new.segments),
           NEW listed \in BOOLEAN, NEW b, b = Entry(a.job, Status(new), new.segments, listed)
    PROVE  /\ Rank(a.status) <= Rank(b.status)
           /\ a.status \in TerminalStatus => b.status = a.status
           /\ a.succeeded <= b.succeeded /\ a.failed <= b.failed
<1>1. PICK old \in Job, l \in BOOLEAN :
         a = Entry(a.job, Status(old), old.segments, l) /\ Reaches(old, new)
  BY DEF EntryIsOf
<1>2. /\ a.status = Status(old)
      /\ a.succeeded = CountOf(old, "success") /\ a.failed = CountOf(old, "failed")
  BY <1>1 DEF Entry, CountOf
<1>3. /\ b.status = Status(new)
      /\ b.succeeded = CountOf(new, "success") /\ b.failed = CountOf(new, "failed")
  BY DEF Entry, CountOf
<1> QED
  BY <1>1, <1>2, <1>3, StatusReaches, CountReaches

LEMMA EntryItself ==
    ASSUME NEW a, NEW job, EntryIsOf(a, job), IsFiniteSet(DOMAIN job.segments)
    PROVE  /\ Rank(a.status) <= Rank(a.status)
           /\ a.succeeded <= a.succeeded /\ a.failed <= a.failed
<1>1. PICK old \in Job, l \in BOOLEAN :
         a = Entry(a.job, Status(old), old.segments, l) /\ Reaches(old, job)
  BY DEF EntryIsOf
<1>2. /\ a.status = Status(old)
      /\ a.succeeded = CountOf(old, "success") /\ a.failed = CountOf(old, "failed")
  BY <1>1 DEF Entry, CountOf
<1>3. IsFiniteSet(DOMAIN old.segments)
  BY <1>1 DEF Reaches
<1> QED
  BY <1>2, <1>3, StatusReaches, CountReaches, ReachesItself

-----------------------------------------------------------------------------
(* The invariant.  While a GET is being answered its snapshot is the latest*)
(* that is known of its job; the last answer is never ahead of it.         *)
Latest(j) == IF asked = <<j>> THEN Shown ELSE jobs[j]

Asking ==
    /\ asked = << >> => told = << >>
    /\ asked # << >> =>
          \E j \in DOMAIN jobs, job \in Job :
             /\ asked = <<j>> /\ snapshot = <<job>> /\ Reaches(job, jobs[j])
             /\ told = << >> \/ told = <<job.segments>>

Replied ==
    /\ \A e \in Elements(reply.entries) : e.job \in DOMAIN jobs /\ EntryIsOf(e, Latest(e.job))
    /\ \A a, b \in Elements(reply.entries) : a.job = b.job => a = b
    /\ reply.kind = "unknown" => reply.entries = << >>

(* created names each job once.                                            *)
Dictionary ==
    /\ created \in Seq(JobId)
    /\ Elements(created) = DOMAIN jobs
    /\ \A i, k \in DOMAIN created : created[i] = created[k] => i = k
    /\ createdAt \in [DOMAIN jobs -> Reading]

PollInv == StoreInv /\ KeyedSegments /\ Asking /\ Replied /\ Dictionary

LEMMA PollInitInv == PollInit => PollInv
<1> SUFFICES ASSUME PollInit PROVE PollInv
  OBVIOUS
<1>1. StoreInv /\ KeyedSegments
  BY StoreInitInv, KeyedSegmentsInit DEF PollInit
<1>2. Elements(<< >>) = {}
  BY DEF Elements
<1>3. DOMAIN jobs = {} /\ createdAt = [k \in {} |-> k]
  BY DEF PollInit, StoreInit, EmptyDict
<1>4. Replied
  BY <1>2 DEF PollInit, Replied, Reply
<1>5. Dictionary
  BY <1>2, <1>3 DEF PollInit, Dictionary
<1> QED
  BY <1>1, <1>4, <1>5 DEF PollInit, PollInv, Asking

(* Each step is a step of the store, or leaves it alone.                   *)
LEMMA PollStoreStep == [PollNext]_pollVars => [StoreNext]_storeVars
<1>1. Written \subseteq SegmentResult
  BY ResultTypes DEF Written
<1> QED
  BY <1>1 DEF PollNext, StoreNext, AddJob, WriteSegment, Lookup, NotFound,
     TellSegments, TellStatus, ListJobs, ReadStats, pollVars, storeVars

(* What is known of a job stays behind what the store says of it.          *)
LEMMA LatestJob ==
    ASSUME PollInv, NEW j \in DOMAIN jobs
    PROVE  /\ Latest(j) \in Job /\ Reaches(Latest(j), jobs[j])
           /\ IsFiniteSet(DOMAIN Latest(j).segments)
<1>1. jobs[j] \in Job /\ IsFiniteSet(DOMAIN jobs[j].segments)
  BY JobsFinite DEF PollInv, StoreInv, StoreTypeOK
<1>2. CASE asked = <<j>>
  <2>1. PICK i \in DOMAIN jobs, job \in Job :
           asked = <<i>> /\ snapshot = <<job>> /\ Reaches(job, jobs[i])
    BY <1>2 DEF PollInv, Asking
  <2>2. i = j /\ Shown = job
    BY <1>2, <2>1 DEF Shown
  <2> QED
    BY <1>1, <1>2, <2>1, <2>2 DEF Latest, Reaches
<1>3. CASE asked # <<j>>
  BY <1>1, <1>3, ReachesItself DEF Latest
<1> QED
  BY <1>2, <1>3

-----------------------------------------------------------------------------
(* Sorting.  The order of the listing is total, so the number of places    *)
(* ahead of a place numbers them all, and the page shows each once.        *)
LEMMA ListedOrder ==
    ASSUME Dictionary, NEW i \in DOMAIN created, NEW k \in DOMAIN created
    PROVE  /\ ~ ListedBefore(i, i)
           /\ i # k => ListedBefore(i, k) \/ ListedBefore(k, i)
           /\ \A m \in DOMAIN created :
                 ListedBefore(m, i) /\ ListedBefore(i, k) => ListedBefore(m, k)
<1>1. ASSUME NEW m \in DOMAIN created PROVE m \in Int /\ createdAt[created[m]] \in Int
  <2>1. m \in Int
    BY DEF Dictionary
  <2>2. created[m] \in DOMAIN jobs
    BY DEF Dictionary, Elements
  <2>3. createdAt[created[m]] \in Reading
    BY <2>2 DEF Dictionary
  <2>4. \A at \in Reading : at \in Int
    BY PollingAssumption
  <2> QED
    BY <2>1, <2>3, <2>4
<1> QED
  BY <1>1 DEF ListedBefore

LEMMA PlacesFinite ==
    ASSUME Dictionary, NEW places \in SUBSET (DOMAIN created)
    PROVE  /\ IsFiniteSet(places) /\ Cardinality(places) \in Nat
           /\ IsFiniteSet(DOMAIN jobs)
<1>1. DOMAIN created = 1 .. Len(created) /\ Len(created) \in Int
  BY DEF Dictionary
<1>2. IsFiniteSet(DOMAIN created)
  BY <1>1, FS_Interval
<1>3. created \in Surjection(DOMAIN created, DOMAIN jobs)
  BY DEF Dictionary, Elements, Surjection
<1> QED
  BY <1>2, <1>3, FS_Subset, FS_Surjection, FS_CardinalityType

LEMMA AheadOfNone ==
    ASSUME Dictionary, NEW places \in SUBSET (DOMAIN created), NEW i \in places
    PROVE  /\ Cardinality(Ahead(i, places)) \in 0 .. Cardinality(places) - 1
           /\ \A k \in places :
                 ListedBefore(i, k) =>
                    Cardinality(Ahead(i, places)) < Cardinality(Ahead(k, places))
<1>1. IsFiniteSet(places) /\ Cardinality(places) \in Nat
  BY PlacesFinite
<1>2. \A k \in places : /\ Ahead(k, places) \in SUBSET places
                        /\ IsFiniteSet(Ahead(k, places))
                        /\ Cardinality(Ahead(k, places)) \in Nat
  BY <1>1, FS_Subset, FS_CardinalityType DEF Ahead
<1>3. i \notin Ahead(i, places)
  BY ListedOrder DEF Ahead
<1>4. /\ Cardinality(Ahead(i, places) \cup {i}) = Cardinality(Ahead(i, places)) + 1
      /\ IsFiniteSet(Ahead(i, places) \cup {i})
  BY <1>2, <1>3, FS_AddElement
<1>5. Cardinality(Ahead(i, places)) \in 0 .. Cardinality(places) - 1
  <2>1. Ahead(i, places) \cup {i} \in SUBSET places
    BY <1>2
  <2>2. Cardinality(Ahead(i, places) \cup {i}) <= Cardinality(places)
    BY <1>1, <2>1, FS_Subset
  <2> QED
    BY <1>1, <1>2, <1>4, <2>2
<1>6. ASSUME NEW k \in places, ListedBefore(i, k)
      PROVE  Cardinality(Ahead(i, places)) < Cardinality(Ahead(k, places))
  <2>1. Ahead(i, places) \cup {i} \in SUBSET Ahead(k, places)
    BY <1>6, ListedOrder DEF Ahead
  <2>2. Cardinality(Ahead(i, places) \cup {i}) <= Cardinality(Ahead(k, places))
    BY <1>2, <2>1, FS_Subset
  <2> QED
    BY <1>2, <1>4, <2>2
<1> QED
  BY <1>5, <1>6

LEMMA Numbered ==
    ASSUME Dictionary, NEW places \in SUBSET (DOMAIN created)
    PROVE  /\ \A i, k \in places :
                 Cardinality(Ahead(i, places)) = Cardinality(Ahead(k, places)) => i = k
           /\ \A n \in 1 .. Cardinality(places) :
                 \E i \in places : Cardinality(Ahead(i, places)) = n - 1
<1> DEFINE N == Cardinality(places)
           f == [i \in places |-> Cardinality(Ahead(i, places))]
<1>1. IsFiniteSet(places) /\ N \in Nat
  BY PlacesFinite
<1>2. \A i \in places : Cardinality(Ahead(i, places)) \in 0 .. N - 1
  BY AheadOfNone
<1>3. ASSUME NEW i \in places, NEW k \in places, i # k
      PROVE  Cardinality(Ahead(i, places)) # Cardinality(Ahead(k, places))
  <2>1. ListedBefore(i, k) \/ ListedBefore(k, i)
    BY <1>3, ListedOrder
  <2>2. \/ Cardinality(Ahead(i, places)) < Cardinality(Ahead(k, places))
        \/ Cardinality(Ahead(k, places)) < Cardinality(Ahead(i, places))
    BY <2>1, AheadOfNone
  <2> QED
    BY <1>1, <1>2, <2>2
<1>4. f \in Injection(places, 0 .. N - 1)
  BY <1>2, <1>3 DEF Injection, IsInjective
<1>5. IsFiniteSet(0 .. N - 1) /\ Cardinality(0 .. N - 1) = N
  <2>1. /\ IsFiniteSet(0 .. N - 1)
        /\ Cardinality(0 .. N - 1) = IF 0 > N - 1 THEN 0 ELSE (N - 1) - 0 + 1
    BY <1>1, FS_Interval, SMTT(30)
  <2> QED
    BY <1>1, <2>1
<1>6. f \in Surjection(places, 0 .. N - 1)
  BY <1>4, <1>5, FS_Injection
<1>7. ASSUME NEW n \in 1 .. N
      PROVE  \E i \in places : Cardinality(Ahead(i, places)) = n - 1
  <2>1. n - 1 \in 0 .. N - 1
    BY <1>1
  <2>2. PICK i \in places : f[i] = n - 1
    BY <1>6, <2>1 DEF Surjection
  <2> QED
    BY <2>2
<1> QED
  BY <1>3, <1>7

-----------------------------------------------------------------------------
(* A page lists the jobs of the places it was cut from, none twice.        *)
LEMMA PagePlaces ==
    ASSUME Dictionary, NEW places \in SUBSET (DOMAIN created), NEW limit \in Limit
    PROVE  LET page == FirstOf(limit, places)
               N == IF limit < Cardinality(places) THEN limit ELSE Cardinality(places)
           IN  /\ page \in Seq(DOMAIN jobs) /\ Len(page) = N
               /\ \E place \in [1 .. N -> places] :
                     \A n \in 1 .. N :
                        /\ Cardinality(Ahead(place[n], places)) = n - 1
                        /\ page[n] = created[place[n]]
<1> DEFINE page == FirstOf(limit, places)
           N == IF limit < Cardinality(places) THEN limit ELSE Cardinality(places)
           At(n) == CHOOSE i \in places : Cardinality(Ahead(i, places)) = n - 1
           place == [n \in 1 .. N |-> At(n)]
<1>1. Cardinality(places) \in Nat /\ limit \in Nat \ {0}
  BY PlacesFinite, PollingAssumption
<1>2. N \in Nat /\ N <= Cardinality(places)
  BY <1>1
<1>3. ASSUME NEW n \in 1 .. N
      PROVE  At(n) \in places /\ Cardinality(Ahead(At(n), places)) = n - 1
  <2>1. n \in 1 .. Cardinality(places)
    BY <1>1, <1>2
  <2>2. \E i \in places : Cardinality(Ahead(i, places)) = n - 1
    BY <2>1, Numbered
  <2> QED
    BY <2>2
<1>4. page = [n \in 1 .. N |-> created[At(n)]]
  BY DEF FirstOf
<1>5. \A n \in 1 .. N : created[At(n)] \in DOMAIN jobs
  BY <1>3 DEF Dictionary, Elements
<1>6. page \in [1 .. N -> DOMAIN jobs]
  BY <1>4, <1>5
<1>7. page \in Seq(DOMAIN jobs) /\ Len(page) = N
  BY <1>2, <1>6
<1>8. place \in [1 .. N -> places]
  BY <1>3
<1>9. \A n \in 1 .. N : /\ Cardinality(Ahead(place[n], places)) = n - 1
                        /\ page[n] = created[place[n]]
  BY <1>3, <1>4
<1> HIDE DEF place
<1> QED
  BY <1>7, <1>8, <1>9

Answering == \/ TellStatus
             \/ \E limit \in Limit, filter \in Filter : ListJobs(limit, filter)
             \/ ReadStats
             \/ \E i \in JobId : NotFound(i)

(* Every entry of a new response is what is known of its job just then.    *)
LEMMA Answer ==
    ASSUME PollInv, Answering
    PROVE  /\ UNCHANGED jobs /\ asked' = << >>
           /\ \E listed \in BOOLEAN : \A b \in Elements(reply'.entries) :
                 /\ b.job \in DOMAIN jobs
                 /\ b = Entry(b.job, Status(Latest(b.job)), Latest(b.job).segments, listed)
           /\ reply'.kind = "unknown" =>
                 /\ reply'.entries = << >>
                 /\ reply'.info[1] \notin DOMAIN jobs
<1>1. CASE TellStatus
  <2>1. asked # << >> /\ told # << >>
    BY <1>1 DEF TellStatus, PollInv, Asking
  <2>2. PICK j \in DOMAIN jobs, job \in Job :
           /\ asked = <<j>> /\ snapshot = <<job>>
           /\ told = << >> \/ told = <<job.segments>>
    BY <2>1 DEF PollInv, Asking
  <2>3. Latest(j) = job /\ Shown = job /\ told[1] = job.segments /\ asked[1] = j
    BY <2>1, <2>2 DEF Latest, Shown
  <2>4. Elements(reply'.entries) = {Entry(j, Status(job), job.segments, TRUE)}
    <3> DEFINE e == Entry(j, Status(job), job.segments, TRUE)
    <3> HIDE DEF e
    <3>1. reply' = Reply("job", <<e>>, << >>)
      BY <1>1, <2>3 DEF TellStatus, e
    <3>2. reply'.entries = <<e>>
      BY <3>1 DEF Reply
    <3>3. Elements(<<e>>) = {e}
      BY DEF Elements
    <3> QED
      BY <3>2, <3>3 DEF e
  <2>5. Entry(j, Status(job), job.segments, TRUE).job = j
    BY DEF Entry
  <2>6. \A b \in Elements(reply'.entries) :
           /\ b.job \in DOMAIN jobs
           /\ b = Entry(b.job, Status(Latest(b.job)), Latest(b.job).segments, TRUE)
    BY <2>2, <2>3, <2>4, <2>5
  <2>7. UNCHANGED jobs /\ asked' = << >> /\ reply'.kind # "unknown"
    BY <1>1 DEF TellStatus, storeVars, Reply
  <2> QED
    BY <2>6, <2>7
<1>2. ASSUME NEW limit \in Limit, NEW filter \in Filter, ListJobs(limit, filter)
      PROVE  /\ UNCHANGED jobs /\ asked' = << >> /\ reply'.kind # "unknown"
             /\ \A b \in Elements(reply'.entries) :
                   /\ b.job \in DOMAIN jobs
                   /\ b = Entry(b.job, Status(Latest(b.job)), Latest(b.job).segments, FALSE)
  <2> DEFINE page == PageOf(limit, filter)
             E(j) == Entry(j, Status(jobs[j]), jobs[j].segments, FALSE)
  <2>1. asked = << >> /\ UNCHANGED jobs /\ asked' = << >> /\ reply'.kind # "unknown"
    BY <1>2 DEF ListJobs, storeVars, getVars, Reply
  <2>2. \A j : Latest(j) = jobs[j]
    BY <2>1 DEF Latest
  <2>3. page \in Seq(DOMAIN jobs)
    BY PagePlaces DEF PageOf, Matching, PollInv
  <2>4. reply'.entries = [i \in DOMAIN page |-> E(page[i])]
    BY <1>2 DEF ListJobs, Reply
  <2>5. \A j : E(j).job = j
    BY DEF Entry
  <2> HIDE DEF page, E
  <2>6. ASSUME NEW b \in Elements(reply'.entries)
        PROVE  b.job \in DOMAIN jobs /\ b = E(b.job)
    <3>1. PICK i \in DOMAIN page : b = E(page[i])
      BY <2>4 DEF Elements
    <3> QED
      BY <2>3, <2>5, <3>1
  <2> QED
    BY <2>1, <2>2, <2>6 DEF E
<1>3. CASE ReadStats
  <2>1. Elements(reply'.entries) = {}
    BY <1>3 DEF ReadStats, Reply, Elements
  <2>2. UNCHANGED jobs /\ asked' = << >> /\ reply'.kind # "unknown"
    BY <1>3 DEF ReadStats, storeVars, getVars, Reply
  <2> QED
    BY <2>1, <2>2
<1>4. CASE \E limit \in Limit, filter \in Filter : ListJobs(limit, filter)
  BY <1>2, <1>4
<1>5. ASSUME NEW i \in JobId, NotFound(i)
      PROVE  /\ UNCHANGED jobs /\ asked' = << >>
             /\ reply'.entries = << >> /\ reply'.info[1] \notin DOMAIN jobs
             /\ Elements(reply'.entries) = {}
  BY <1>5 DEF NotFound, storeVars, getVars, Reply, Elements
<1>6. CASE \E i \in JobId : NotFound(i)
  BY <1>5, <1>6
<1> QED
  BY <1>1, <1>3, <1>4, <1>6 DEF Answering

-----------------------------------------------------------------------------
(* What is known of a job only gets later.                                 *)
LEMMA LatestReaches ==
    ASSUME PollInv, [PollNext]_pollVars, NEW j \in DOMAIN jobs
    PROVE  j \in DOMAIN jobs' /\ Reaches(Latest(j), Latest(j)')
<1>0. j \in DOMAIN jobs' /\ Reaches(jobs[j], jobs'[j])
  BY PollStoreStep, JobReaches DEF PollInv
<1>1. Reaches(Latest(j), jobs'[j])
  BY <1>0, LatestJob, ReachesOn
<1>2. CASE asked' # <<j>>
  BY <1>0, <1>1, <1>2 DEF Latest
<1>3. CASE asked' = <<j>> /\ asked = asked' /\ snapshot = snapshot'
  <2>1. Latest(j)' = Latest(j)
    BY <1>3 DEF Latest, Shown
  <2> QED
    BY <1>0, <2>1, ReachesItself
<1>4. CASE asked' = <<j>> /\ asked = << >> /\ snapshot' = <<jobs[j]>>
  <2>1. Latest(j)' = jobs[j] /\ Latest(j) = jobs[j]
    BY <1>4 DEF Latest, Shown
  <2> QED
    BY <1>0, <2>1, ReachesItself
<1>5. ASSUME NEW i \in JobId, Lookup(i), asked' = <<j>>
      PROVE  asked = << >> /\ snapshot' = <<jobs[j]>>
  BY <1>5 DEF Lookup
<1>6. CASE Answering
  <2>1. asked' = << >>
    BY <1>6, Answer
  <2> QED
    BY <1>2, <2>1
<1>7. CASE asked = asked' /\ snapshot = snapshot'
  BY <1>2, <1>3, <1>7
<1>8. \/ Answering \/ \E i \in JobId : Lookup(i)
      \/ asked = asked' /\ snapshot = snapshot'
  BY DEF PollNext, pollVars, getVars, AddJob, WriteSegment, TellSegments, Answering
<1> QED
  BY <1>2, <1>4, <1>5, <1>6, <1>7, <1>8

LEMMA PollStepInv == PollInv /\ [PollNext]_pollVars => PollInv'
<1> SUFFICES ASSUME PollInv, [PollNext]_pollVars PROVE PollInv'
  OBVIOUS
<1>0. StoreInv /\ KeyedSegments /\ [StoreNext]_storeVars
  BY PollStoreStep DEF PollInv
<1>1. StoreInv' /\ KeyedSegments'
  BY <1>0, StoreStepInv, KeyedSegmentsStep
<1>2. Asking'
  <2>1. CASE asked' = << >> /\ told' = << >>
    BY <2>1 DEF Asking
  <2>2. ASSUME asked # << >>, asked' = asked, snapshot' = snapshot,
               told' = told \/ told' = <<Shown.segments>>
        PROVE  Asking'
    <3>1. PICK j \in DOMAIN jobs, job \in Job :
             /\ asked = <<j>> /\ snapshot = <<job>> /\ Reaches(job, jobs[j])
             /\ told = << >> \/ told = <<job.segments>>
      BY <2>2 DEF PollInv, Asking
    <3>2. j \in DOMAIN jobs' /\ Reaches(job, jobs'[j])
      BY <1>0, <3>1, JobReaches, ReachesOn
    <3>3. Shown = job
      BY <3>1 DEF Shown
    <3> QED
      BY <2>2, <3>1, <3>2, <3>3 DEF Asking
  <2>3. ASSUME NEW j \in JobId, Lookup(j) PROVE Asking'
    <3>1. /\ j \in DOMAIN jobs /\ asked' = <<j>> /\ snapshot' = <<jobs[j]>>
          /\ jobs' = jobs /\ told' = << >>
      BY <2>3 DEF Lookup, PollInv, Asking, storeVars
    <3>2. jobs[j] \in Job /\ Reaches(jobs[j], jobs[j])
      BY <1>0, <3>1, ReachesItself DEF StoreInv, StoreTypeOK
    <3> QED
      BY <3>1, <3>2 DEF Asking
  <2>4. CASE Answering
    BY <2>1, <2>4 DEF Answering, TellStatus, ListJobs, ReadStats, NotFound, getVars,
       PollInv, Asking
  <2>5. CASE asked' = asked /\ snapshot' = snapshot /\ told' = told
    BY <2>1, <2>2, <2>5 DEF PollInv, Asking
  <2>6. CASE TellSegments
    BY <2>2, <2>6 DEF TellSegments
  <2>7. \/ Answering \/ TellSegments \/ \E i \in JobId : Lookup(i)
        \/ asked = asked' /\ snapshot = snapshot' /\ told' = told
    BY DEF PollNext, pollVars, getVars, AddJob, WriteSegment, Answering
  <2> QED
    BY <2>3, <2>4, <2>5, <2>6, <2>7
<1>3. Replied'
  <2>1. CASE reply' = reply
    <3>1. ASSUME NEW e \in Elements(reply.entries)
          PROVE  e.job \in DOMAIN jobs' /\ EntryIsOf(e, Latest(e.job)')
      <4>1. e.job \in DOMAIN jobs /\ EntryIsOf(e, Latest(e.job))
        BY DEF PollInv, Replied
      <4>2. e.job \in DOMAIN jobs' /\ Reaches(Latest(e.job), Latest(e.job)')
        BY <4>1, LatestReaches
      <4>3. PICK old \in Job, listed \in BOOLEAN :
               /\ e = Entry(e.job, Status(old), old.segments, listed)
               /\ Reaches(old, Latest(e.job))
        BY <4>1 DEF EntryIsOf
      <4>4. Reaches(old, Latest(e.job)')
        BY <4>2, <4>3, ReachesOn
      <4> QED
        BY <4>2, <4>3, <4>4 DEF EntryIsOf
    <3>2. /\ \A a, b \in Elements(reply.entries) : a.job = b.job => a = b
          /\ reply.kind = "unknown" => reply.entries = << >>
      BY DEF PollInv, Replied
    <3> QED
      BY <2>1, <3>1, <3>2 DEF Replied, Elements
  <2>2. CASE Answering
    <3>1. PICK listed \in BOOLEAN : \A b \in Elements(reply'.entries) :
             /\ b.job \in DOMAIN jobs
             /\ b = Entry(b.job, Status(Latest(b.job)), Latest(b.job).segments, listed)
      BY <2>2, Answer
    <3>2. ASSUME NEW b \in Elements(reply'.entries)
          PROVE  b.job \in DOMAIN jobs' /\ EntryIsOf(b, Latest(b.job)')
      <4>1. b.job \in DOMAIN jobs' /\ Reaches(Latest(b.job), Latest(b.job)')
        BY <3>1, LatestReaches
      <4>2. Latest(b.job) \in Job
        BY <3>1, LatestJob
      <4> QED
        BY <3>1, <4>1, <4>2 DEF EntryIsOf
    <3>3. /\ \A a, b \in Elements(reply'.entries) : a.job = b.job => a = b
          /\ reply'.kind = "unknown" => reply'.entries = << >>
      BY <2>2, <3>1, Answer
    <3> QED
      BY <3>2, <3>3 DEF Replied, Elements
  <2>3. Answering \/ reply' = reply
    BY DEF PollNext, pollVars, AddJob, WriteSegment, Lookup, TellSegments, Answering
  <2> QED
    BY <2>1, <2>2, <2>3
<1>4. Dictionary'
  <2>1. CASE UNCHANGED clockVars /\ DOMAIN jobs' = DOMAIN jobs
    BY <2>1 DEF clockVars, PollInv, Dictionary, Elements
  <2>2. ASSUME NEW r \in Request, NEW j \in JobId, AddJob(r, j) PROVE Dictionary'
    <3>1. PICK now \in Reading : createdAt' = Put(createdAt, j, now)
      BY <2>2 DEF AddJob
    <3>2. /\ j \notin DOMAIN jobs /\ DOMAIN jobs' = DOMAIN jobs \cup {j}
          /\ created' = Append(created, j)
      BY <2>2 DEF AddJob, CreateJob, Put
    <3>3. createdAt' \in [DOMAIN jobs' -> Reading]
      BY <3>1, <3>2 DEF Put, PollInv, Dictionary
    <3>4. created \in Seq(JobId) /\ created' \in Seq(JobId)
      BY <3>2 DEF PollInv, Dictionary
    <3>5. /\ Len(created) \in Nat /\ DOMAIN created = 1 .. Len(created)
          /\ DOMAIN created' = 1 .. Len(created) + 1
          /\ created'[Len(created) + 1] = j
          /\ \A i \in 1 .. Len(created) : created'[i] = created[i]
      BY <3>2, <3>4
    <3>6. Elements(created') = DOMAIN jobs'
      BY <3>2, <3>5 DEF PollInv, Dictionary, Elements
    <3>7. \A i \in DOMAIN created : created[i] # j
      BY <3>2 DEF PollInv, Dictionary, Elements
    <3>8. \A i, k \in DOMAIN created' : created'[i] = created'[k] => i = k
      BY <3>5, <3>7 DEF PollInv, Dictionary
    <3> QED
      BY <3>3, <3>4, <3>6, <3>8 DEF Dictionary, Elements
  <2>3. CASE WriteSegment
    BY <2>1, <2>3 DEF WriteSegment, StepSegment, UpdateSegment
  <2> QED
    BY <2>1, <2>2, <2>3 DEF PollNext, pollVars, storeVars, Lookup, NotFound,
       TellSegments, TellStatus, ListJobs, ReadStats
<1> QED
  BY <1>1, <1>2, <1>3, <1>4 DEF PollInv

LEMMA PollInductive == PollSpec => []PollInv
  BY PollInitInv, PollStepInv, PTL DEF PollSpec

(* A GET answers with one moment of its job, however many segments it has  *)
(* and whatever is written while the response is put together: the status  *)
(* is the one its own list of segments derives to (predictions.py:115).    *)
THEOREM PollMoment == PollSpec => []ReplyIsOneMoment
<1>1. PollInit => ReplyIsOneMoment
  BY DEF PollInit, Reply, ReplyIsOneMoment
<1>2. PollInv /\ ReplyIsOneMoment /\ [PollNext]_pollVars => ReplyIsOneMoment'
  <2> SUFFICES ASSUME PollInv, ReplyIsOneMoment, [PollNext]_pollVars
               PROVE  ReplyIsOneMoment'
    OBVIOUS
  <2>1. CASE TellStatus
    <3>1. PICK j \in DOMAIN jobs, job \in Job :
             asked = <<j>> /\ snapshot = <<job>> /\ told = <<job.segments>>
      BY <2>1 DEF TellStatus, PollInv, Asking
    <3> DEFINE e == Entry(j, Status(job), job.segments, TRUE)
    <3>2. e.status = DeriveJobStatus({e.segments[s] : s \in DOMAIN e.segments})
      <4>1. e.segments = [s \in DOMAIN job.segments |-> job.segments[s].status]
        BY DEF Entry
      <4>2. e.status = Status(job)
        BY DEF Entry
      <4> HIDE DEF e
      <4>3. {e.segments[s] : s \in DOMAIN e.segments} = Statuses(job)
        BY <4>1 DEF Statuses
      <4> QED
        BY <4>2, <4>3 DEF Status
    <3> HIDE DEF e
    <3>3. reply' = Reply("job", <<e>>, << >>)
      BY <2>1, <3>1 DEF TellStatus, Shown, e
    <3>4. Elements(reply'.entries) = {e}
      <4>1. reply'.entries = <<e>>
        BY <3>3 DEF Reply
      <4>2. Elements(<<e>>) = {e}
        BY DEF Elements
      <4> QED
        BY <4>1, <4>2
    <3> QED
      BY <3>2, <3>4 DEF ReplyIsOneMoment, Elements
  <2>2. CASE reply'.kind # "job"
    BY <2>2 DEF ReplyIsOneMoment
  <2>3. CASE reply' = reply
    BY <2>3 DEF ReplyIsOneMoment, Elements
  <2>4. ASSUME NEW limit \in Limit, NEW filter \in Filter, ListJobs(limit, filter)
        PROVE  reply'.kind # "job"
    BY <2>4 DEF ListJobs, Reply
  <2>5. ASSUME ReadStats \/ \E i \in JobId : NotFound(i) PROVE reply'.kind # "job"
    BY <2>5 DEF ReadStats, NotFound, Reply
  <2> QED
    BY <2>1, <2>2, <2>3, <2>4, <2>5 DEF PollNext, pollVars, AddJob, WriteSegment,
       Lookup, TellSegments
<1> QED
  BY <1>1, <1>2, PollInductive, PTL DEF PollSpec

(* What one answer has said of a job the next one does not take back, from *)
(* whichever endpoint, however often jobs are polled and listed            *)
(* (e2e.py:53), nor is the job unknown to it (predictions.py:87).          *)
THEOREM PollMonotone == PollSpec => AnswersNeverGoBack
<1>1. ASSUME PollInv, [PollNext]_pollVars,
             NEW a \in Elements(reply.entries), NEW b \in Elements(reply'.entries),
             a.job = b.job
      PROVE  /\ Rank(a.status) <= Rank(b.status)
             /\ a.status \in TerminalStatus => b.status = a.status
             /\ a.succeeded <= b.succeeded /\ a.failed <= b.failed
  <2>1. a.job \in DOMAIN jobs /\ EntryIsOf(a, Latest(a.job))
    BY <1>1 DEF PollInv, Replied
  <2>2. Latest(a.job) \in Job /\ IsFiniteSet(DOMAIN Latest(a.job).segments)
    BY <1>1, <2>1, LatestJob
  <2>3. CASE reply' = reply
    <3>1. a = b
      BY <1>1, <2>3 DEF PollInv, Replied
    <3> QED
      BY <2>1, <2>2, <3>1, EntryItself
  <2>4. CASE Answering
    <3>1. PICK listed \in BOOLEAN :
             b = Entry(b.job, Status(Latest(b.job)), Latest(b.job).segments, listed)
      BY <1>1, <2>4, Answer
    <3> QED
      BY <1>1, <2>1, <2>2, <3>1, EntryBefore
  <2> QED
    BY <1>1, <2>3, <2>4 DEF PollNext, pollVars, AddJob, WriteSegment, Lookup,
       TellSegments, Answering
<1>2. ASSUME PollInv, [PollNext]_pollVars, NEW a \in Elements(reply.entries),
             reply'.kind = "unknown"
      PROVE  a.job # reply'.info[1]
  <2>1. a.job \in DOMAIN jobs /\ reply.kind # "unknown"
    BY <1>2 DEF PollInv, Replied, Elements
  <2>2. CASE Answering
    BY <1>2, <2>1, <2>2, Answer
  <2>3. CASE reply' = reply
    BY <1>2, <2>1, <2>3
  <2> QED
    BY <1>2, <2>2, <2>3 DEF PollNext, pollVars, AddJob, WriteSegment, Lookup,
       TellSegments, Answering
<1>3. PollInv /\ [PollNext]_pollVars =>
         [\A a \in Elements(reply.entries) :
             /\ \A b \in Elements(reply'.entries) : a.job = b.job =>
                   /\ Rank(a.status) <= Rank(b.status)
                   /\ a.status \in TerminalStatus => b.status = a.status
                   /\ a.succeeded <= b.succeeded /\ a.failed <= b.failed
             /\ reply'.kind = "unknown" => a.job # reply'.info[1]]_pollVars
  BY <1>1, <1>2
<1> QED
  BY <1>3, PollInductive, PTL DEF PollSpec, AnswersNeverGoBack

-----------------------------------------------------------------------------
(* The listing.  limit, filter and the page they give.                     *)
LEMMA PageOrder ==
    ASSUME Dictionary, NEW limit \in Limit, NEW filter \in Filter
    PROVE  LET page == PageOf(limit, filter)
               left == {j \in DOMAIN jobs : Matches(j, filter)} \ Elements(page)
           IN  /\ Len(page) <= limit /\ (left # {} => Len(page) = limit)
               /\ \A i \in DOMAIN page : Matches(page[i], filter)
               /\ \A i, k \in DOMAIN page : i < k =>
                     page[i] # page[k] /\ createdAt[page[i]] >= createdAt[page[k]]
               /\ \A j \in left, i \in DOMAIN page : createdAt[j] <= createdAt[page[i]]
<1> DEFINE places == Matching(filter)
           page == PageOf(limit, filter)
           left == {j \in DOMAIN jobs : Matches(j, filter)} \ Elements(page)
           N == IF limit < Cardinality(places) THEN limit ELSE Cardinality(places)
<1>1. places \in SUBSET (DOMAIN created)
  BY DEF Matching
<1>2. Cardinality(places) \in Nat /\ limit \in Nat
  BY <1>1, PlacesFinite, PollingAssumption
<1>3. PICK place \in [1 .. N -> places] :
         \A n \in 1 .. N : /\ Cardinality(Ahead(place[n], places)) = n - 1
                           /\ page[n] = created[place[n]]
  BY <1>1, PagePlaces DEF PageOf
<1>4. page \in Seq(DOMAIN jobs) /\ Len(page) = N
  BY <1>1, PagePlaces DEF PageOf
<1>5. N \in Nat /\ N <= limit /\ N <= Cardinality(places) /\ DOMAIN page = 1 .. N
  BY <1>2, <1>4
<1>6. \A i \in places : Matches(created[i], filter)
  BY DEF Matching
<1>7. \A i \in places : createdAt[created[i]] \in Int
  <2>1. \A at \in Reading : at \in Int
    BY PollingAssumption
  <2>2. \A i \in places : created[i] \in DOMAIN jobs
    BY <1>1 DEF Dictionary, Elements
  <2> QED
    BY <2>1, <2>2 DEF Dictionary
<1> HIDE DEF places, page, N
<1>8. ASSUME NEW i \in places, NEW n \in 1 .. N, Cardinality(Ahead(i, places)) = n - 1
      PROVE  created[i] \in Elements(page)
  <2>1. place[n] = i
    BY <1>1, <1>3, <1>8, Numbered
  <2> QED
    BY <1>3, <1>5, <2>1 DEF Elements
<1>9. ASSUME NEW j \in left
      PROVE  \E m \in places : /\ j = created[m]
                               /\ ~ \E n \in 1 .. N : Cardinality(Ahead(m, places)) = n - 1
  <2>1. PICK m \in DOMAIN created : j = created[m]
    BY DEF Dictionary, Elements
  <2>2. m \in places
    BY <2>1 DEF places, Matching
  <2> QED
    BY <1>8, <2>1, <2>2
<1>10. ASSUME left # {} PROVE N = limit
  <2>1. PICK m \in places : ~ \E n \in 1 .. N : Cardinality(Ahead(m, places)) = n - 1
    BY <1>9, <1>10
  <2>2. Cardinality(Ahead(m, places)) \in 0 .. Cardinality(places) - 1
    BY <1>1, AheadOfNone
  <2>3. CASE N = Cardinality(places)
    <3>1. Cardinality(Ahead(m, places)) + 1 \in 1 .. N
      BY <1>2, <2>2, <2>3
    <3> QED
      BY <2>1, <2>2, <3>1
  <2> QED
    BY <2>3 DEF N
<1>11. ASSUME NEW i \in DOMAIN page, NEW k \in DOMAIN page, i < k
       PROVE  page[i] # page[k] /\ createdAt[page[i]] >= createdAt[page[k]]
  <2>1. /\ place[i] \in places /\ place[k] \in places
        /\ Cardinality(Ahead(place[i], places)) = i - 1
        /\ Cardinality(Ahead(place[k], places)) = k - 1
        /\ page[i] = created[place[i]] /\ page[k] = created[place[k]]
    BY <1>3, <1>5
  <2>2. i \in Int /\ k \in Int
    BY <1>5
  <2>3. place[i] # place[k]
    BY <1>11, <2>1, <2>2
  <2>4. page[i] # page[k]
    BY <1>1, <2>1, <2>3 DEF Dictionary
  <2>5. ~ ListedBefore(place[k], place[i])
    <3> SUFFICES ASSUME ListedBefore(place[k], place[i]) PROVE FALSE
      OBVIOUS
    <3>1. Cardinality(Ahead(place[k], places)) < Cardinality(Ahead(place[i], places))
      BY <1>1, <2>1, AheadOfNone
    <3>2. k - 1 < i - 1
      BY <2>1, <3>1
    <3> QED
      BY <1>11, <2>2, <3>2
  <2>6. ~ (createdAt[page[k]] > createdAt[page[i]])
    BY <2>1, <2>5 DEF ListedBefore
  <2> QED
    BY <1>7, <2>1, <2>4, <2>6
<1>12. ASSUME NEW j \in left, NEW i \in DOMAIN page
       PROVE  createdAt[j] <= createdAt[page[i]]
  <2>1. PICK m \in places :
           j = created[m] /\ ~ \E n \in 1 .. N : Cardinality(Ahead(m, places)) = n - 1
    BY <1>9
  <2>2. /\ place[i] \in places /\ page[i] = created[place[i]]
        /\ Cardinality(Ahead(place[i], places)) = i - 1
    BY <1>3, <1>5
  <2>3. Cardinality(Ahead(m, places)) \in 0 .. Cardinality(places) - 1
    BY <1>1, AheadOfNone
  <2>4. CASE ListedBefore(m, place[i])
    <3>1. Cardinality(Ahead(m, places)) < i - 1
      BY <1>1, <2>2, <2>4, AheadOfNone
    <3>2. Cardinality(Ahead(m, places)) + 1 \in 1 .. N
      BY <1>2, <1>5, <2>3, <3>1
    <3> QED
      BY <2>1, <2>3, <3>2
  <2>5. CASE ~ (createdAt[created[m]] > createdAt[created[place[i]]])
    BY <1>7, <2>1, <2>2, <2>5
  <2> QED
    BY <2>4, <2>5 DEF ListedBefore
<1>13. \A i \in DOMAIN page : Matches(page[i], filter)
  BY <1>3, <1>5, <1>6
<1> QED
  BY <1>4, <1>5, <1>10, <1>11, <1>12, <1>13 DEF page

(* The action ListJobs answers with the jobs of that page.                 *)
LEMMA ShownPage ==
    ASSUME Dictionary, NEW limit \in Limit, NEW filter \in Filter, ListJobs(limit, filter)
    PROVE  ShownIn(reply') = PageOf(limit, filter)
<1> DEFINE page == PageOf(limit, filter)
           E(j) == Entry(j, Status(jobs[j]), jobs[j].segments, FALSE)
<1>1. page \in Seq(DOMAIN jobs)
  BY PagePlaces DEF PageOf, Matching
<1>2. reply'.entries = [i \in DOMAIN page |-> E(page[i])]
  BY DEF ListJobs, Reply
<1>3. \A j : E(j).job = j
  BY DEF Entry
<1> HIDE DEF page, E
<1>4. ShownIn(reply') = [i \in DOMAIN page |-> page[i]]
  BY <1>2, <1>3 DEF ShownIn
<1> QED
  BY <1>1, <1>4 DEF page

(* A page is full or complete, newest first, and leaves out nothing newer  *)
(* than what it shows, for every page size, filter and history of the clock*)
(* (store.py:137).                                                         *)
THEOREM PollPages == PollSpec => PageIsTheNewestMatching
<1> DEFINE Good(page, limit, filter) ==
             LET left == {j \in DOMAIN jobs : Matches(j, filter)} \ Elements(page)
             IN  /\ Len(page) <= limit /\ (left # {} => Len(page) = limit)
                 /\ \A i \in DOMAIN page : Matches(page[i], filter)
                 /\ \A i, k \in DOMAIN page : i < k =>
                       page[i] # page[k] /\ createdAt[page[i]] >= createdAt[page[k]]
                 /\ \A j \in left, i \in DOMAIN page : createdAt[j] <= createdAt[page[i]]
<1>1. ASSUME PollInv, NEW limit \in Limit, NEW filter \in Filter, ListJobs(limit, filter)
      PROVE  Good(ShownIn(reply'), limit, filter)
  <2>1. ShownIn(reply') = PageOf(limit, filter)
    BY <1>1, ShownPage DEF PollInv
  <2>2. Good(PageOf(limit, filter), limit, filter)
    BY <1>1, PageOrder DEF PollInv
  <2> HIDE DEF Good
  <2> QED
    BY <2>1, <2>2
<1>2. PollInv /\ [PollNext]_pollVars =>
         [reply'.kind = "page" /\ UNCHANGED <<storeVars, asked>> =>
             \A limit \in Limit, filter \in Filter : ListJobs(limit, filter) =>
                Good(ShownIn(reply'), limit, filter)]_pollVars
  BY <1>1
<1> QED
  BY <1>2, PollInductive, PTL DEF PollSpec, PageIsTheNewestMatching

-----------------------------------------------------------------------------
(* The counters.  An open segment makes its job open, an open job has one. *)
Open == SegmentsWith("pending") \cup SegmentsWith("running")

LEMMA OpenFinite ==
    ASSUME PollInv
    PROVE  IsFiniteSet(DOMAIN jobs) /\ IsFiniteSet(Open)
<1> DEFINE D == [j \in DOMAIN jobs |-> DOMAIN jobs[j].segments]
           All == {D[j] : j \in DOMAIN jobs}
<1>1. IsFiniteSet(DOMAIN jobs)
  <2>1. {} \in SUBSET (DOMAIN created)
    OBVIOUS
  <2> QED
    BY <2>1, PlacesFinite DEF PollInv
<1>2. \A j \in DOMAIN jobs : IsFiniteSet(D[j])
  BY JobsFinite DEF PollInv
<1>3. IsFiniteSet(All)
  <2>1. D \in Surjection(DOMAIN jobs, All)
    BY DEF Surjection
  <2> QED
    BY <1>1, <2>1, FS_Surjection
<1>4. IsFiniteSet(UNION All)
  BY <1>2, <1>3, FS_UNION
<1>5. IsFiniteSet((DOMAIN jobs) \X (UNION All))
  BY <1>1, <1>4, FS_Product
<1>6. Open \in SUBSET ((DOMAIN jobs) \X (UNION All))
  <2>1. ASSUME NEW t \in Open PROVE t \in (DOMAIN jobs) \X (UNION All)
    <3>1. /\ t \in (DOMAIN jobs) \X Segment /\ t[2] \in DOMAIN jobs[t[1]].segments
          /\ t[1] \in DOMAIN jobs
      BY DEF Open, SegmentsWith
    <3>2. t[2] \in D[t[1]] /\ D[t[1]] \in All
      BY <3>1
    <3> QED
      BY <3>1, <3>2
  <2> QED
    BY <2>1
<1> QED
  BY <1>1, <1>5, <1>6, FS_Subset

LEMMA OpenTask ==
    ASSUME PollInv
    PROVE  /\ \A j \in OpenJobs : \E s \in Segment : <<j, s>> \in Open
           /\ \A t \in Open : t[1] \in OpenJobs
<1>1. \A j \in DOMAIN jobs :
         /\ jobs[j] \in Job /\ DOMAIN jobs[j].segments \subseteq Segment
         /\ \A s \in DOMAIN jobs[j].segments : jobs[j].segments[s] \in SegmentResult
  <2>1. \A j \in DOMAIN jobs : jobs[j] \in Job
    BY DEF PollInv, StoreInv, StoreTypeOK
  <2>2. ASSUME NEW job \in Job
        PROVE  /\ DOMAIN job.segments \subseteq Segment
               /\ \A s \in DOMAIN job.segments : job.segments[s] \in SegmentResult
    BY DEF Job
  <2> QED
    BY <2>1, <2>2
<1>2. ASSUME NEW j \in OpenJobs PROVE \E s \in Segment : <<j, s>> \in Open
  <2>1. j \in DOMAIN jobs /\ ~ IsTerminal(jobs[j])
    BY DEF OpenJobs
  <2>2. PICK s \in DOMAIN jobs[j].segments : jobs[j].segments[s].status \in OpenStatus
    BY <1>1, <2>1, JobTerminal
  <2>3. s \in Segment
    BY <1>1, <2>1, <2>2
  <2> QED
    BY <2>1, <2>2, <2>3 DEF Open, SegmentsWith, OpenStatus
<1>3. ASSUME NEW t \in Open PROVE t[1] \in OpenJobs
  <2>1. /\ t[1] \in DOMAIN jobs /\ t[2] \in DOMAIN jobs[t[1]].segments
        /\ jobs[t[1]].segments[t[2]].status \in OpenStatus
    BY DEF Open, SegmentsWith, OpenStatus
  <2>2. ~ IsTerminal(jobs[t[1]])
    BY <1>1, <2>1, JobTerminal
  <2> QED
    BY <2>1, <2>2 DEF OpenJobs
<1> QED
  BY <1>2, <1>3

LEMMA OpenJobsSeen ==
    ASSUME PollInv
    PROVE  /\ {j \in DOMAIN jobs : HasOpenSegment(j)} = OpenJobs
           /\ {created[i] : i \in Matching("pending") \cup Matching("running")} = OpenJobs
           /\ Matching("pending") \cap Matching("running") = {}
<1>1. \A j \in DOMAIN jobs : jobs[j] \in Job
  BY DEF PollInv, StoreInv, StoreTypeOK
<1>2. ASSUME NEW j \in DOMAIN jobs PROVE HasOpenSegment(j) <=> j \in OpenJobs
  BY <1>1, JobTerminal DEF HasOpenSegment, OpenJobs
<1>3. ASSUME NEW j \in DOMAIN jobs
      PROVE  j \in OpenJobs <=> Matches(j, "pending") \/ Matches(j, "running")
  <2>1. Status(jobs[j]) \in JobStatus
    BY <1>1, JobTerminal
  <2> QED
    BY <2>1 DEF JobStatus, TerminalStatus, IsTerminal, Matches, OpenJobs
<1>4. Elements(created) = DOMAIN jobs /\ OpenJobs \subseteq DOMAIN jobs
  BY DEF PollInv, Dictionary, OpenJobs
<1>5. {created[i] : i \in Matching("pending") \cup Matching("running")} = OpenJobs
  BY <1>3, <1>4 DEF Matching, Elements
<1>6. Matching("pending") \cap Matching("running") = {}
  BY DEF Matching, Matches
<1> QED
  BY <1>2, <1>4, <1>5, <1>6

LEMMA StatsNow ==
    ASSUME PollInv
    PROVE  LET total == Cardinality(DOMAIN jobs) active_ == Cardinality(DOMAIN active)
               open == Cardinality(SegmentsWith("pending")) + Cardinality(SegmentsWith("running"))
           IN  /\ active_ = Cardinality({j \in DOMAIN jobs : HasOpenSegment(j)})
               /\ active_ = Cardinality(Matching("pending")) + Cardinality(Matching("running"))
               /\ active_ <= total /\ active_ <= open /\ (open > 0 => active_ > 0)
<1> DEFINE P == SegmentsWith("pending")
           R == SegmentsWith("running")
           open == Cardinality(P) + Cardinality(R)
<1>1. IsFiniteSet(DOMAIN jobs) /\ IsFiniteSet(Open) /\ IsFiniteSet(P) /\ IsFiniteSet(R)
  BY OpenFinite, FS_Subset DEF Open
<1>2. DOMAIN active = {jobs[j].key : j \in OpenJobs}
      /\ \A j \in OpenJobs : active[jobs[j].key] = j
  BY DEF PollInv, StoreInv, IndexIsTheOpenJobs
<1>3. \A k \in DOMAIN active : active[k] \in OpenJobs /\ jobs[active[k]].key = k
  BY <1>2
<1>4. active \in [DOMAIN active -> DOMAIN jobs]
  BY <1>3 DEF PollInv, StoreInv, StoreTypeOK, OpenJobs
<1>5. active \in Injection(DOMAIN active, DOMAIN jobs)
  BY <1>3, <1>4 DEF Injection, IsInjective
<1>6. IsFiniteSet(DOMAIN active) /\ Cardinality(DOMAIN active) <= Cardinality(DOMAIN jobs)
  BY <1>1, <1>5, FS_Injection
<1>7. /\ Cardinality(DOMAIN active) \in Nat /\ Cardinality(Open) \in Nat
      /\ Cardinality(P) \in Nat /\ Cardinality(R) \in Nat
  BY <1>1, <1>6, FS_CardinalityType
<1>8. Cardinality(DOMAIN active) <= Cardinality(Open)
  <2> DEFINE f == [k \in DOMAIN active |->
                     CHOOSE t \in Open : t[1] = active[k]]
  <2>1. ASSUME NEW k \in DOMAIN active PROVE f[k] \in Open /\ f[k][1] = active[k]
    <3>1. PICK s \in Segment : <<active[k], s>> \in Open
      BY <1>3, OpenTask
    <3>2. <<active[k], s>>[1] = active[k]
      OBVIOUS
    <3>3. \E t \in Open : t[1] = active[k]
      BY <3>1, <3>2
    <3> QED
      BY <3>3
  <2>2. f \in [DOMAIN active -> Open]
    BY <2>1
  <2> HIDE DEF f
  <2>3. f \in Injection(DOMAIN active, Open)
    BY <1>3, <2>1, <2>2 DEF Injection, IsInjective
  <2> QED
    BY <1>1, <2>3, FS_Injection
<1>9. Cardinality(Open) <= open
  <2>1. Cardinality(Open) = Cardinality(P) + Cardinality(R) - Cardinality(P \cap R)
    BY <1>1, FS_Union DEF Open
  <2>2. Cardinality(P \cap R) \in Nat
    BY <1>1, FS_Intersection, FS_CardinalityType
  <2> QED
    BY <1>7, <2>1, <2>2
<1>10. ASSUME open > 0 PROVE Cardinality(DOMAIN active) > 0
  <2>1. P # {} \/ R # {}
    <3> HIDE DEF P, R
    <3>1. P = {} => Cardinality(P) = 0
      BY FS_EmptySet
    <3>2. R = {} => Cardinality(R) = 0
      BY FS_EmptySet
    <3> QED
      BY <1>7, <1>10, <3>1, <3>2
  <2>2. PICK t \in Open : TRUE
    BY <2>1 DEF Open
  <2>3. DOMAIN active # {}
    BY <1>2, <2>2, OpenTask
  <2> QED
    BY <1>6, <1>7, <2>3, FS_EmptySet
<1>11. Cardinality(DOMAIN active) = Cardinality(OpenJobs)
  <2>1. active \in Bijection(DOMAIN active, OpenJobs)
    BY <1>2, <1>3, <1>4, <1>5 DEF Bijection, Injection, Surjection, IsInjective
  <2> QED
    BY <1>6, <2>1, FS_Bijection DEF ExistsBijection
<1>12. Cardinality(Matching("pending")) + Cardinality(Matching("running"))
         = Cardinality(OpenJobs)
  <2> DEFINE p == Matching("pending")
             r == Matching("running")
             f == [i \in p \cup r |-> created[i]]
  <2>1. /\ p \in SUBSET (DOMAIN created) /\ r \in SUBSET (DOMAIN created)
        /\ p \cup r \in SUBSET (DOMAIN created)
    BY DEF Matching
  <2>2. IsFiniteSet(p) /\ IsFiniteSet(r) /\ IsFiniteSet(p \cup r)
        /\ Cardinality(p) \in Nat /\ Cardinality(r) \in Nat
    BY <2>1, PlacesFinite DEF PollInv
  <2>3. Cardinality(p \cup r) = Cardinality(p) + Cardinality(r)
    <3>1. Cardinality(p \cup r) = Cardinality(p) + Cardinality(r) - Cardinality(p \cap r)
      BY <2>2, FS_Union
    <3>2. Cardinality(p \cap r) = 0
      BY OpenJobsSeen, FS_EmptySet
    <3> QED
      BY <2>2, <3>1, <3>2
  <2>4. {created[i] : i \in p \cup r} = OpenJobs
    BY OpenJobsSeen
  <2>5. \A i, k \in p \cup r : created[i] = created[k] => i = k
    BY <2>1 DEF PollInv, Dictionary
  <2> HIDE DEF p, r
  <2>6. f \in Bijection(p \cup r, OpenJobs)
    BY <2>4, <2>5 DEF Bijection, Injection, Surjection, IsInjective
  <2>7. Cardinality(p \cup r) = Cardinality(OpenJobs)
    BY <2>2, <2>6, FS_Bijection DEF ExistsBijection
  <2> QED
    BY <2>3, <2>7 DEF p, r
<1> QED
  BY <1>6, <1>7, <1>8, <1>9, <1>10, <1>11, <1>12, OpenJobsSeen

(* GET /stats counts the jobs that have an open segment, which are those   *)
(* GET /predictions lists as pending or running, although it reads them off*)
(* the dedup index: for any number of jobs and segments (store.py:148).    *)
THEOREM PollStats == PollSpec => StatsAgree
<1> DEFINE Told(info) ==
             LET total == info[1] active_ == info[2]
                 open  == info[3] + info[4]
             IN  /\ active_ = Cardinality({j \in DOMAIN jobs : HasOpenSegment(j)})
                 /\ active_ = Cardinality(Matching("pending")) + Cardinality(Matching("running"))
                 /\ active_ <= total /\ active_ <= open /\ (open > 0 => active_ > 0)
<1>1. ASSUME PollInv, ReadStats PROVE Told(reply'.info)
  <2>1. reply'.info = <<Cardinality(DOMAIN jobs), Cardinality(DOMAIN active),
                        Cardinality(SegmentsWith("pending")),
                        Cardinality(SegmentsWith("running"))>>
    BY <1>1 DEF ReadStats, Reply
  <2> QED
    BY <1>1, <2>1, StatsNow
<1>2. PollInv /\ [PollNext]_pollVars => [ReadStats => Told(reply'.info)]_pollVars
  BY <1>1
<1> QED
  BY <1>2, PollInductive, PTL DEF PollSpec, StatsAgree
=============================================================================
