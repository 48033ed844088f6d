----------------------------- MODULE JobPolling ------------------------------
(***************************************************************************)
(* The reading endpoints, GET /predictions/{job_id}, GET /predictions and  *)
(* GET /stats, against a store that threads keep writing to.  Each takes   *)
(* the store's lock once; the response is put together after the lock is   *)
(* released, from what was copied under it.  Handlers do not interleave    *)
(* with each other, only with the threads.                                 *)
(*                                                                         *)
(* created_at is a reading of the wall clock, which may repeat itself and  *)
(* may have been set back since the last one.                              *)
(***************************************************************************)
EXTENDS JobStore

CONSTANTS
    Limit,        \* the page sizes that are asked for
    Reading       \* what the wall clock can show

ASSUME PollingAssumption == Limit \subseteq Nat \ {0} /\ Reading \subseteq Nat

VARIABLES
    created,      \* the ids of the jobs in the order of creation, which is
                  \* the order of the dictionary _jobs
    createdAt,    \* created_at of each of them
    asked,        \* the job of the GET that is being answered: << >> or <<id>>
    snapshot,     \* << >>, or the copy of that job
    told,         \* << >>, or the segments already listed for its response
    reply         \* the last response body

getVars == <<asked, snapshot, told>>
clockVars == <<created, createdAt>>
pollVars == <<storeVars, clockVars, getVars, reply>>

(* One job in a response: JobStatusResponse, or JobSummary, which has no   *)
(* segments.  Of each segment only the status is kept.                     *)
Entry(id, status, segments, listed) ==
    [job       |-> id,
     status    |-> status,
     succeeded |-> Cardinality({s \in DOMAIN segments : segments[s].status = "success"}),
     failed    |-> Cardinality({s \in DOMAIN segments : segments[s].status = "failed"}),
     segments  |-> IF listed THEN [s \in DOMAIN segments |-> segments[s].status]
                             ELSE EmptyDict]

(* info is the counters of stats, or the id that a 404 names.              *)
Reply(kind, entries, info) == [kind |-> kind, entries |-> entries, info |-> info]

PollInit ==
    /\ StoreInit
    /\ created = << >>
    /\ createdAt = EmptyDict
    /\ asked = << >> /\ snapshot = << >> /\ told = << >>
    /\ reply = Reply("none", << >>, << >>)

-----------------------------------------------------------------------------
(* The writers: POST, and the threads.                                     *)
AddJob(r, j) ==
    /\ asked = << >>
    /\ CreateJob(r, j)
    /\ created' = Append(created, j)
    /\ \E now \in Reading : createdAt' = Put(createdAt, j, now)
    /\ UNCHANGED <<getVars, reply>>

(* The results process_segment and _fail_stranded write.                   *)
Written == {Succeeded, NotScheduled} \cup {RunningAt(st) : st \in Stage}
                                     \cup {FailedAt(st) : st \in Stage}

WriteSegment ==
    /\ \E j \in DOMAIN jobs : \E s \in DOMAIN jobs[j].segments :
          \E result \in Written : StepSegment(j, s, result)
    /\ UNCHANGED <<clockVars, getVars, reply>>

-----------------------------------------------------------------------------
(* get_prediction: get_job takes its snapshot under the lock, or there is  *)
(* no job of that id and the answer is 404.                                *)
Lookup(j) ==
    /\ asked = << >>
    /\ j \in DOMAIN jobs
    /\ asked' = <<j>>
    /\ snapshot' = <<jobs[j]>>
    /\ UNCHANGED <<storeVars, clockVars, told, reply>>

NotFound(j) ==
    /\ asked = << >>
    /\ j \notin DOMAIN jobs
    /\ reply' = Reply("unknown", << >>, <<j>>)
    /\ UNCHANGED <<storeVars, clockVars, getVars>>

(* Mutant of Shown: get_job hands out the live job.                        *)
LiveJob == jobs[asked[1]]

Shown == snapshot[1]

(* _to_status_response: the segments are listed first; the status is       *)
(* derived and the list counted after it; threads may write in between.    *)
TellSegments ==
    /\ asked # << >>
    /\ told = << >>
    /\ told' = <<Shown.segments>>
    /\ UNCHANGED <<storeVars, clockVars, asked, snapshot, reply>>

TellStatus ==
    /\ told # << >>
    /\ reply' = Reply("job", <<Entry(asked[1], Status(Shown), told[1], TRUE)>>, << >>)
    /\ asked' = << >> /\ snapshot' = << >> /\ told' = << >>
    /\ UNCHANGED <<storeVars, clockVars>>

-----------------------------------------------------------------------------
Matches(j, filter) == filter = "any" \/ Status(jobs[j]) = filter

(* sorted(key=created_at, reverse=True): position i of created is listed   *)
(* before position k if its job is the newer one or, the sort being stable,*)
(* came first and shows the same reading.                                  *)
ListedBefore(i, k) ==
    \/ createdAt[created[i]] > createdAt[created[k]]
    \/ createdAt[created[i]] = createdAt[created[k]] /\ i < k

Ahead(i, places) == {k \in places : ListedBefore(k, i)}

(* [:limit].                                                               *)
FirstOf(limit, places) ==
    [n \in 1 .. (IF limit < Cardinality(places) THEN limit ELSE Cardinality(places)) |->
        created[CHOOSE i \in places : Cardinality(Ahead(i, places)) = n - 1]]

Matching(filter) == {i \in DOMAIN created : Matches(created[i], filter)}

(* Mutant of PageOf: the limit first, the filter second.                   *)
PageLimitedFirst(limit, filter) ==
    FirstOf(limit, {i \in Matching(filter) :
                      Cardinality(Ahead(i, DOMAIN created)) < limit})

(* list_jobs: filtered, sorted and cut under the lock.                     *)
PageOf(limit, filter) == FirstOf(limit, Matching(filter))

ListJobs(limit, filter) ==
    LET page == PageOf(limit, filter) IN
    /\ asked = << >>
    /\ reply' = Reply("page",
                      [i \in DOMAIN page |->
                          Entry(page[i], Status(jobs[page[i]]), jobs[page[i]].segments, FALSE)],
                      << >>)
    /\ UNCHANGED <<storeVars, clockVars, getVars>>

(* stats: jobs_active is the size of the dedup index.                      *)
SegmentsWith(status) ==
    {t \in (DOMAIN jobs) \X Segment :
        t[2] \in DOMAIN jobs[t[1]].segments /\ jobs[t[1]].segments[t[2]].status = status}

ReadStats ==
    /\ asked = << >>
    /\ reply' = Reply("stats", << >>,
                      <<Cardinality(DOMAIN jobs), Cardinality(DOMAIN active),
                        Cardinality(SegmentsWith("pending")),
                        Cardinality(SegmentsWith("running"))>>)
    /\ UNCHANGED <<storeVars, clockVars, getVars>>

Filter == JobStatus \cup {"any"}

PollNext ==
    \/ \E r \in Request, j \in JobId : AddJob(r, j)
    \/ WriteSegment
    \/ \E j \in JobId : Lookup(j) \/ NotFound(j)
    \/ TellSegments \/ TellStatus
    \/ \E limit \in Limit, filter \in Filter : ListJobs(limit, filter)
    \/ ReadStats

PollSpec == PollInit /\ [][PollNext]_pollVars

-----------------------------------------------------------------------------
(* A GET answers with one moment of its job: the status is the one its own *)
(* list of segments derives to, although threads write while the response  *)
(* is put together (predictions.py:115, store.py:72).                      *)
ReplyIsOneMoment ==
    reply.kind = "job" =>
       \A e \in Elements(reply.entries) :
          e.status = DeriveJobStatus({e.segments[s] : s \in DOMAIN e.segments})

Rank(status) == CASE status = "pending" -> 0 [] status = "running" -> 1 [] OTHER -> 2

(* What one answer has said of a job, the next answer does not take back,  *)
(* from whichever endpoint: the status does not fall, a terminal one does  *)
(* not change, neither count goes down (e2e.py:53), and the job is not     *)
(* unknown to it ("the store never forgets a job", predictions.py:87).     *)
AnswersNeverGoBack ==
    [][\A a \in Elements(reply.entries) :
          /\ \A b \in Elements(reply'.entries) : a.job = b.job =>
                /\ Rank(a.status) <= Rank(b.status)
                /\ a.status \in TerminalStatus => b.status = a.status
                /\ a.succeeded <= b.succeeded /\ a.failed <= b.failed
          /\ reply'.kind = "unknown" => a.job # reply'.info[1]
      ]_pollVars

ShownIn(r) == [i \in DOMAIN r.entries |-> r.entries[i].job]

(* A page is full, or holds every job of the status that was asked for; it *)
(* goes from the latest created_at to the earliest, and no job that it     *)
(* leaves out has a later one than any it shows.                           *)
PageIsTheNewestMatching ==
    [][reply'.kind = "page" /\ UNCHANGED <<storeVars, asked>> =>
       \A limit \in Limit, filter \in Filter : ListJobs(limit, filter) =>
          LET page == ShownIn(reply')
              left == {j \in DOMAIN jobs : Matches(j, filter)} \ Elements(page)
          IN  /\ Len(page) <= limit /\ (left # {} => Len(page) = limit)
              /\ \A i \in DOMAIN page : Matches(page[i], filter)
              /\ \A i, k \in DOMAIN page : i < k =>
                    page[i] # page[k] /\ createdAt[page[i]] >= createdAt[page[k]]
              /\ \A j \in left, i \in DOMAIN page : createdAt[j] <= createdAt[page[i]]
      ]_pollVars

HasOpenSegment(j) ==
    \E seg \in DOMAIN jobs[j].segments : jobs[j].segments[seg].status \in OpenStatus

(* jobs_active is read off the dedup index, and yet it is the number of    *)
(* the jobs that have a pending or running segment at that moment, and the *)
(* number GET /predictions would list as pending and as running; it is     *)
(* never above jobs_total nor above the open segments counted with it, and *)
(* not 0 while there are any (store.py:148).                               *)
StatsAgree ==
    [][ReadStats =>
          LET total == reply'.info[1] active_ == reply'.info[2]
              open  == reply'.info[3] + reply'.info[4]
          IN  /\ active_ = Cardinality({j \in DOMAIN jobs : HasOpenSegment(j)})
              /\ active_ = Cardinality(Matching("pending")) + Cardinality(Matching("running"))
              /\ active_ <= total /\ active_ <= open /\ (open > 0 => active_ > 0)
      ]_pollVars
=============================================================================
