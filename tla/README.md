# Pythia prediction service — TLA+ models and proofs

`pythia_service` accepts requests for predictions over HTTP, splits each into
segments (game × region × platform), runs the segments on a thread pool, and
answers polls from a store in memory. This directory holds models of it, from
the validators to the end of its process, of the three batch scripts, and of
what the library computes and shares; the TLC runs that check them; and
machine-checked proofs of the properties that matter most. Paths are relative to
the repository; `PROJECT.json` maps every definition to its lines.

    tlc -config MCService_safety.cfg MCPredictionService
    tlapm ServiceOutcomeProofs.tla

## 1. The system

| Component | State | Operations | Who calls it |
|---|---|---|---|
| `domain/models.py`, `jobs/state.py` | — | validators, `segment_keys`, `derive_job_status` | handler, store |
| `domain/dedup.py` | — | `compute_dedup_key` | handler |
| `jobs/store.py` `JobStore` | `_jobs`, `_active_by_dedup_key`, one lock | `get_or_create_job`, `update_segment`, `get_job`, `list_jobs`, `stats` | handlers (event loop) and pool threads |
| `worker/pool.py` `SegmentPool` | `_executor` and the executor's queue, futures, threads | `start`, `shutdown`, `executor`, `is_running` | `lifespan`, POST handler, health |
| `worker/pipeline.py` | locals of each call | `process_segment` (a pool thread), `submit_job_segments` (the handler), `_fail_stranded`, `_record` | |
| `worker/pythia_adapter.py` | — | one function per stage, each a call of the library | `process_segment` |
| `api/routes/predictions.py` | locals of the handler | POST, GET one, GET list | clients |
| `api/routes/{stats,health}.py` | — | reads | clients |
| `api/main.py` `lifespan` | — | builds store and pool, stops the pool | uvicorn |
| `scripts/…-v2-optimized.py` | executor, query threads, `results` | `main`, `_process_segment`, `query_data_async` | command line |
| `scripts/…-v1.py`, `…-v2.py` | merged table, `results` | one sequential program on two libraries | command line |
| `pythia_library_v{1,2}` | `_ITERS_PER_SECOND` | queries and fits; block, return or raise | adapter, scripts |
| `logging_setup.py`, `api/dependencies.py` | — | configuration, look-ups in `app.state` | everyone |

How they interact. The POST handler validates, reads `pool.executor`, calls
`get_or_create_job`, and, if it created the job, submits one `process_segment`
per segment. Each runs on a pool thread and writes the store before every stage
and at the end. GET handlers copy from the store. The stop of the pool cancels
what is queued and joins the threads; uvicorn gets there when no request is
being answered.

What is hard: threads write while handlers read; the pool can go down between
two submits of one job while its first segments already run; `cancel()` races
the thread that has taken the item; whoever writes the last segment must free
the dedup key and log the outcome, exactly once; nobody reads the futures, so a
lost segment stays open for ever and keeps its key; a library call may never
return; clocks are read outside the lock and stored inside it. There is no
persistence, no timeout and no retry. `PROJECT.json` lists 30 hazards at their
lines.

What makes each component correct:

* store: the dedup index is exactly the open jobs; segments only advance; a
  finished job never changes; the status derived from the set of statuses says
  what the counts say; times are in order;
* pool: a task is queued, in one thread's hand, or done; a stopped pool has
  nothing left; a stop ends;
* service: whatever the races, each open segment has somebody who will finish
  it; jobs finish while the pool runs, except those in a call that hangs; a job
  named by a 503 closes; `job_finished` is logged once, with the final status; a
  request is always answered;
* reading endpoints: a reply is one moment of its job, successive replies never
  go back, a page is the newest matching jobs, the counters agree;
* process: requests never meet the stop; no thread is cut off; it ends;
* validation: the answer is the work asked for; equal work has equal keys;
* scripts: the rows of the service's own pipeline for each segment given once, in
  order, all or no file; no exception of a query is lost; every script ends.

## 2. Modules

| Module | Models |
|---|---|
| `JobState` | statuses, `SegmentResult`, `derive_job_status`; a stage is a number `1 .. LastStage` (7 in the code) |
| `JobStore` | the store's writers, and `StoreSpec`: the store together with what it relies on from its callers, the life cycle `Follows` |
| `ServiceContract`, `StoreContract` | abstract: what a client is promised of an id, in counts; the refinement mapping from the store |
| `SegmentPool` | `SegmentPool` and the `ThreadPoolExecutor` behind it |
| `PredictionService` | the composition: handler, `process_segment` on every thread, stop of the pool |
| `HungCall` | `PredictionService` when any library call may never return; the liveness properties |
| `ThreadStartFault` | `PredictionService` when a thread of the executor cannot be started |
| `ProcessLifecycle` | `PredictionService` inside uvicorn: SIGINT once or twice, drain, `lifespan`'s stop, exit; the health probe |
| `PredictionRequest` | validators, `segment_keys`, dedup key, as operators |
| `Submission` | raw bodies through `PredictionRequest` into the store |
| `JobPolling` | GET one, GET list, GET stats, against writing threads and a wall clock that may be set back |
| `JobTimes` | `created_at`, `updated_at`, `started_at`, `finished_at` of one job, each read apart from the write that stores it |
| `PythiaLibrary`, `Prediction` | what each library call and adapter function computes its result from, and the seven calls of `process_segment` |
| `BatchRun` | abstract: what a run of a script promises |
| `SequentialScript`, `OptimizedScript`, `PredictionScripts` | the sequential program of v1 and v2, the optimized one, and the two on one command line, shown to implement `BatchRun` |
| `Calibration` | the unlocked check-then-set of `_ITERS_PER_SECOND` and its use |
| `*Proofs` | theorems and proofs (section 4) |
| `MC*` | instances for TLC |

An operator named by a comment "Mutant" is not part of the model: it is a wrong
variant of the definition that follows it, kept to show that the properties
notice (`PROJECT.json`, `mutants`).

### Atomicity

Handlers are coroutines without an `await`, so the event loop runs one from
start to end before the next: one handler at a time is exact. It does interleave
with the threads, and so do the threads with each other, at every call that
takes a lock. Hence an action is: one method of the store (the lock is held
throughout), one `submit`, one `cancel`, one item taken by a thread, one
`set_running_or_notify_cancel`, one item drained by the stop. Between them any
other actor may step. In particular

* taking an item (`Claim`) and marking it running (`StartRun`) are two steps, so
  `cancel()` can win in between;
* `shutdown(cancel_futures=True)` holds the lock `submit()` needs while it
  empties the queue item by item (`executor = "draining"`: submit neither works
  nor raises), while threads go on taking items;
* `update_segment` and the `job_finished` line that follows are two steps.

### State and actions of `PredictionService`

`hpc` is the handler's place in `submit_prediction` / `submit_job_segments`:
`ReadExecutor`, `RefuseEarly` (503 before anything exists), `Create` or `Join`
(`get_or_create_job`), `ScheduleNext` … `Accept`, and on a `RuntimeError`
`ScheduleRaises`, `CancelNext` … `CancelDone`, `FailNext` / `HandlerLogs` …
`Reject`. `stranded` holds positions in the segment list, as the list of that
name in the code. `wpc[w]` is a thread's place in `process_segment`:
`WorkerClaims`, `WorkerDrops`, `WorkerStarts`, `EnterPipeline`,
`EnterNextStage` …, then `Succeed` or `Raise` / `RecordFailure`, `WorkerLogs`,
`WorkerReturns`. `wstage[w]` is the stage whose library call the thread is in;
after `Raise` it is the stage read back from the store.

`BeginShutdown` may happen at any moment, also in the middle of a request. The
code handles that (`pipeline.py:151`) although `main.py:48` says uvicorn never
lets it happen. So `PredictionService` has more behaviours than the process, and
what holds for it holds there. Whether uvicorn does keep the two apart is the
question `ProcessLifecycle` asks; there it follows from the one event loop, not
from a guard.

A library call is a step that returns or raises, in `HungCall` also one that
does neither. Payloads, error texts and all log lines but `job_finished` are
left out; the times are in `JobTimes`, the numbers in `Prediction`.

### The others

`ServiceContract` knows neither segments nor the index: an id has counts of what
went well and badly, two unfinished ids never stand for the same work, and the
status is a function of the counts. `StatusIsTheCount` says that
`derive_job_status`, which looks at the set of statuses that occur, agrees.

`Submission` gives `JobStore` the keys and segments that `PredictionRequest`
computes, instead of constants; a name is its stripped text and its padding, a
dedup key is the value that is hashed (SHA-256 is taken to be injective).

In `JobPolling` the reply to a GET is put together in two steps after the
snapshot (`TellSegments`, then `TellStatus`), with writers in between; a GET for an
id the store does not have is a 404 (`NotFound`). `created_at` is any reading of
the clock. A page is cut from the places of the dictionary that
match; `ListedBefore` is the order of the stable, reversed sort.

`JobTimes` splits every write with a time in it into the reading and the store:
`BuildCandidate`/`Insert`, `BuildResult`/`RecordResult`, `Strand`/`FailOne`. Its
clock does not step back: with one that does, the order of two times says
nothing, and nothing is claimed.

In `PythiaLibrary` an array is the record of the call that returned it: which
model, from which columns, from which arrays. A fit seeds its result with the
sums of its inputs and nothing else decides it, so programs with equal records
report equal numbers. `PromisedRows` are those of the service's pipeline. `PromisedTo` says what
each program promises for a segment given any number of times.

`submit()` never refuses a task, so `SubmitTask` has no guard against a second
call for one. That there is none is what the pool relies on from its callers
(`SubmitOnce` in `PoolNext`), and a property of the service: a handler that also
schedules when it joins a job (the mutant `JoinSchedules`) puts two threads on one
segment.

`OptimizedScript` reuses the executor of `SegmentPool`; leaving the `with` block
is `shutdown(wait=True)`, which cancels nothing. Every query flies on a thread of
its own.

`ProcessLifecycle` takes from Python that the exit of the interpreter joins the
threads of an executor and lets them run its whole queue, and from uvicorn that
a second Ctrl+C skips the end of `lifespan`. Both are marked external.

## 3. Runs

| Run | Instance | What it shows |
|---|---|---|
| `service_safety` | 2 jobs, requests `both`, `htob` (same key, other order), `one`; 2 threads; 2 stages; stop at any moment | the safety properties of the service; that it implements `StoreSpec` and `ServiceContract`; the inductive invariant `IInv` of the proofs |
| `service_liveness` | the same with 1 stage, requests `both`, `one`, any call may hang | `OtherJobsFinish`, `RejectedJobsClose`, `FinishedIsLogged`, `ShutdownCompletes`, `RequestsAreAnswered` |
| `process_lifecycle` | the same without hanging calls, inside the process | `NothingMeetsTheStop`, `NobodyIsCutOff`, `ProcessEnds`; that threads and stop implement `PoolSpec` with its fairness |
| `submission` | 10 raw bodies, 2 jobs, a cap of 2 | `AnswerIsTheWorkAskedFor`, `OneOpenJobPerWork`, `FanOutIsBounded` |
| `polling` | 2 jobs, pages of 1 and 2, every filter, readings 1 and 2 in any order | `ReplyIsOneMoment`, `StatsAgree`, `AnswersNeverGoBack`, `PageIsTheNewestMatching` |
| `job_times` | 2 segments, a clock from 0 to 4 | `TimesAreInOrder`, `TimesNeverGoBack` |
| `batch_scripts` | both programs, segments `a`, `b`, `a`, 2 threads | `NoQueryDiesQuietly`, `EveryoneIsHomeAtTheEnd`, `ImplementsBatchRun` |

Why the bounds are enough. Two threads and two segments per job give every
pairwise race (two last writers of one job, a writer and the handler, a taken
item and a cancel). Two jobs are the fewest for a new job of a key to meet its
finished predecessor and for two keys to be open at once. Two stages have a
first that is not the last; the code's seven add no new kind of transition, and
the theorems cover any number. Three segments on two threads are the fewest with
one waiting, and to have one given twice beside one given once. Two readings of the
clock give repeated and backward times; in `job_times` five readings let the
creation, two writes of each segment and a late reading fall apart in every
order. The number of jobs is bounded by `JobId` (`IdsLeft`: no new request is
read when the ids are used up). Symmetry over threads and job ids is used in the
runs without liveness properties only.

Deadlock is checked in `service_safety`, `submission` and `polling`. The others
really stop: all threads hung and the ids used up, a process that is gone, a
clock at its bound with every segment done, a script that has ended.

### Fairness

`PredictionService`: weak fairness of the handler (the event loop goes on with a
request it has begun), of each thread (it is scheduled; the library call it is
in returns or raises), and of a stop that has begun. No request has to come and
nobody has to stop the service. `HungCall` drops the assumption that calls
return (`DESIGN.md:82`: no timeout, and Python cannot kill the thread): a thread
that hangs is not fair any more, and the properties say what that costs — its own
job and one thread, and a stop that waits for it, but never an answer.
`ProcessLifecycle` adds weak fairness of uvicorn's way out (`Leave`); nobody has
to send SIGINT. `PredictionScripts`: weak fairness of the sequential program, of
main, each thread and each query.

### Disagreements between the code and what is written about it

Each is a run that TLC must find violated.

| Run | What is said | What the code does |
|---|---|---|
| `thread_start_fault` | `e2e.py:53`: a job never falls back down the scale; `pipeline.py:152`: the pool went down | `submit()` queues the item before it starts a thread; if the thread cannot be started it raises `RuntimeError` and the item stays queued. The segment is marked failed, then runs |
| `rejected_terminal` | `predictions.py:61`: the job is terminal when the 503 leaves | segments already running keep running; the job closes later (`RejectedJobsClose`) |
| `fetch_overlap` | optimized script, 4 and 88 (also `README.md:168`, `pipeline.py:5`): each query starts before the preceding CPU step, so I/O and modelling overlap within the segment | each handle is read on the line after it is created: no query of a segment is on its way while a fit of it runs. The comment at 73 says so; the docstrings were not changed |
| `script_abort` | optimized script, 143: a failing segment aborts the run, like v1 | leaving the `with` block first runs every queued segment |
| `calibration_race` | `modeling.py:32`: runs once per session | threads that reach their first fit together all calibrate |

In the first one, `alive` holds the threads that exist, so that the trace uses
only threads the executor would really have.

Smaller things met while modelling, which contradict nothing that is written:

* jobs with the same `created_at` are listed oldest first (a reversed stable sort
  keeps their order), and a clock that is set back puts later jobs behind
  earlier ones;
* an argument given twice makes the sequential program fetch the segment twice
  and model each of its rows from both copies, the optimized one from one. So
  `ImplementsBatchRun` holds each program to its own rows (`PromisedTo`), and
  `ProgramsAgreeOnSegmentsGivenOnce` says exactly where they differ;
* a normal stop leaves the jobs of queued segments pending in a store that goes
  with the process, as `main.py:43` says. `NobodyIsCutOff` says that what is left
  had never begun and was cancelled by the stop;
* `kv` quotes spaces, quotes and `=`, not newlines: such a name splits its log
  line.

## 4. Proofs

For every value of the constants (any requests meeting `RequestAssumption`, any
raw bodies, any number of jobs, segments, stages and threads). The modules of the
runs are proved about as they are; the `.tla` files named `*Proofs` add nothing
to them:

| Module | Theorems |
|---|---|
| `JobStoreProofs` | under `StoreSpec`: `StoreTypeOK`, `IndexIsTheOpenJobs`, `FinishedJobsAreFrozen`, `SegmentsOnlyAdvance`, `JobStatusNeverFallsBack` |
| `SegmentPoolProofs` | under `PoolSpec`: `OneThreadPerTask`, `StoppedPoolIsQuiet` |
| `PredictionServiceProofs` | under `Spec`: `IInv`, `TypeOK`, `StoreShowsTheThreads`, `OneThreadPerTask`; `Spec => StoreSpec`, and through it the properties of the store for the real callers |
| `ServiceOutcomeProofs` | under `Spec`: `OpenSegmentsAreOwned`, `RejectedJobIsSettled`, `AnswerCoversTheRequest`, `FinishedIsLoggedOnce`, `StoppedPoolIsQuiet`, `StatusIsTheCount`, `JobStatusNeverFallsBack`; `StoreSpec => ImplementsContract`, `Spec => ImplementsContract`; under `ProcessSpec`: `NothingMeetsTheStop`, `NobodyIsCutOff`; `Spec` and `ProcessSpec` implement the safety part of `PoolSpec`; under `HungSpec`: `OpenSegmentsAreOwned`, `RejectedJobIsSettled`; under `FaultSpec`: `OneThreadPerTask`, `StoppedPoolIsQuiet` |
| `SubmissionProofs` | what `DropDuplicates` and `SegmentKeys` return, for lists of any length; the validators meet `RequestAssumption`; under `SubmissionSpec`: `AnswerIsTheWorkAskedFor`, `OneOpenJobPerWork`, `FanOutIsBounded` |
| `JobPollingProofs` | under `PollSpec`: `ReplyIsOneMoment`, `AnswersNeverGoBack`, `PageIsTheNewestMatching`, `StatsAgree` |
| `JobTimesProofs` | under `TimesSpec`: `TimesAreInOrder`, `TimesNeverGoBack` |
| `ScriptProofs` | under `RunSpec`: `NoQueryDiesQuietly`, `EveryoneIsHomeAtTheEnd`, the safety part of `ImplementsBatchRun`; where the two programs agree; under `CalibrationSpec`: no fit without a measured speed, at most one measurement per thread |

Assumptions, all evaluated by TLC on the runs that extend the modules:
`StageAssumption` (there is a stage), `RequestAssumption` (a request has a
segment, names none twice, and equal keys mean equal sets of segments: what
`ValidatorsKeepTheAssumption` proves of the validators), `PoolAssumption` (a finite,
non-empty set of threads), `ServiceAssumption` (a task is a job and a segment),
`PollingAssumption` (page sizes are positive, readings are numbers),
`TimesAssumption`, `SubmissionAssumption` (a raw body has a list of names in each
field) and `ScriptAssumption` (a command line has a segment; a task is its
position).

The store. `IndexIsTheOpenJobs` is inductive once types are known, but only
because of `Follows`: `update_segment` pops the key of the job it writes,
whoever the index names. The lemma that matters is that a segment that may still
move belongs to an open job, so a write never pops another job's entry.

The service. That every write of the service follows the life cycle is not
inductive by itself. The invariant is

    IInv == StoreInv /\ PoolInv /\ ServiceTypes /\ Bridge

`Bridge` says how the store, the pool, the handler and the threads know of each
other: a submitted task is a segment of an existing job; a task that has not
been submitted, or is still queued or claimed, is a `Pending` segment; a thread
in stage `st` holds a segment the store shows as `RunningAt(st)`; a stranded
segment is `Pending` and no thread will ever run it, because its future is
cancelled or it was never submitted. With it each action of the handler and the
threads is a `StoreNext` step or leaves the store alone, and a step of the pool
or leaves the pool alone. The proof has one step per action, and lemmas for the
recurring ones (`UpdateFrame`, `RunningKept`, `HandlerKept`, `ThreadWrites`).

How requests and jobs end. `OutcomeInv` adds three parts to `IInv`:

* `AnswersAgree`: while a request is worked on there is no answer; an answer
  names a job of the request's key;
* `LogAgrees`: a thread or handler about to log a job (`"closing"`) is the only
  one, its job is terminal and has no line yet. A second closer is impossible
  because a write closes a job only if the job was open before it, and a closed
  job is frozen (`StoreFrame`);
* `OwnersAgree`: a finished future means a final segment, a cancelled one a stop
  of the pool; the handler meets `RuntimeError` only when the pool accepts
  nothing any more; what it does not count as stranded was started or is final;
  a segment that was never submitted is still the handler's. The last two,
  together with "a pool that is down has an empty queue", give
  `RejectedJobIsSettled`.

The process. Every step of `ProcessLifecycle` is a step of the service or leaves
it alone, so `OutcomeInv` holds of a process too. `ProcessInv` adds that the pool
runs as long as the loop looks at requests, that the stop begins after the last
answer, and that whoever ends the process has waited for the threads. When the
stop was skipped, a job still open would need an owner (`OpenSegmentsAreOwned`'s
argument), and there is none left.

The pool inside them. Each step of the handler, of a thread and of the stop is a
step of the pool or leaves it alone (`PoolSteps`), under `OutcomeInv` because
only then is what the handler submits and cancels a task. Only the fairness of
`PoolSpec` is left to the run.

Calls that hang, threads that do not start. A step of `HungCall` is a step of the
service or leaves it alone, so `OutcomeInv` is inductive there as it stands. Not
so in `ThreadStartFault`, where the bridge between the store and the threads
breaks: that is the finding. What is left is the pool's own invariant and that
the handler stays inside its list of keys (`FaultTypes`); it gives that even
then no segment runs twice at once and a stopped pool is quiet.

Requests. `DropDuplicates` is a fold. The library defines a fold by a recursive
function on sets of positions, which exists because there is no least length at
which it does not (`DefinedExists`, `LeastNumber`); the same argument by the
least counterexample gives, for each prefix, that the names are those of the
list, each once, in order. `SegmentKeys` numbers the combinations in mixed radix:
every triple of positions has one number and every number one triple
(`DigitsOfNumber`, `NumberOfDigits`), so the list names each triple once. Two
bodies whose sorted-set keys are equal name the same triples and conversely
(`KeysTellTriples`); neither set of names can be empty, or the product would
forget the other two. With `ValidatorsKeepTheAssumption` the theorems on the
store hold of the store behind the validators (`SubmissionIsStore`), and
`SubmissionInv` adds only that the job of the last answer has the key of its body.

The contract. Counting and looking at the set of statuses come to the same
because successes and failures are disjoint parts of a finite set: the counts
add up to its size exactly when the two parts are all of it (`TwoParts`). Each
write then moves the counts by one or not at all, and `IndexIsTheOpenJobs` keeps
a second unfinished id for the same work from being given.

The answers. `PollInv` says that every entry of the last reply is some earlier
moment of its job (`Reaches`: no segment lost or taken back), and that the moment
of a GET being put together lies between the last reply and the store. Deriving
a status and counting are monotone along `Reaches`. For the pages, `ListedBefore`
is a strict total order on places, so the number of places ahead numbers them
`0 .. n - 1` (an injection between finite sets of one size is onto), which makes
the sort well defined without recursion. `StatsAgree` counts four ways: the jobs
with an open segment, those listed as pending or running, and the entries of the
index are one number because the index maps its keys one to one onto the open
jobs (`IndexIsTheOpenJobs`), and it is at most the number of open segments because
each of these jobs has one of its own.

The times. Whoever holds a reading holds one between `created_at` and the clock,
and a thread holds the `started_at` it will store each time (`SegmentsReadings`).

The scripts. `RunInv` is `ScriptInv`, `RowsAgree` and `SequentialInv`. The executor
of the optimized program is `SegmentPool`'s, so its lemmas are taken from
`SegmentPoolProofs` (`Threads`). `ThreadAgrees` says of a thread that the queries
before the one it is at are answered, those after it have not begun, and its
arrays are those the service would have by now (`Arrays`); `TaskAgrees` says of a
call that has ended that no query of it is in the air and its result, if it has
one, is the service's; `MainAgrees` ties the place of `main` to what has been
submitted and collected, and `raised` to the first failure. Collecting in the
order of submission then appends the next promised row. `SequentialInv` says the
same of the merged table: selecting by name finds as many copies as the arguments
name the segment (`FilterFindsTimes`). The record of a prediction shows the number
of copies it was made from (`CopiesShow`), so the two programs' rows agree exactly
where a segment is given once.

The speed. A thread that has found no speed has not measured before, and once a
thread has measured, or is past the look, the speed is there
(`CalibrationInv`).

Only model-checked: the liveness properties, and the fairness that the
refinements of `PoolSpec` and `BatchRun` state, since TLAPS proves neither
ENABLED nor fairness.

## 5. Not modelled

* `logging_setup.py`: formatting and configuration. `kv` is a pure function on
  characters; the one log event the state machine depends on is modelled.
* `api/dependencies.py`: look-ups of the one store and the one pool.
* The numbers the library computes, the `multiprocessing.Pool` inside a fit, and
  `benchmark()`, which nothing calls. What each call depends on is modelled.
* A crash of the process: nothing survives it, so there is nothing to recover.
* Total load: unbounded by design (`DESIGN.md:80`); there is no limit to check.
* The front end of uvicorn and FastAPI beyond what section 2 says of them.

## 6. Plan

Done, in this order: store, pool, service and their proofs; findings; validation,
polling, optimized script, calibration; client contract; hanging calls; process
lifecycle; sequential scripts and what is computed; times; proofs of how jobs
end, of the contract, of the process, of the answers and of the times; proofs of
the validators and of requests, of the pool inside the service, of hanging calls
and failing threads, of the scripts. Every safety property of a passing run is
now a theorem.

Left, in order of worth: the answers of `JobPolling` for a store behind the
service (`PollSpec` has the life cycle of `StoreSpec` as its writers, which
`Spec => StoreSpec` justifies but no theorem composes); that `JobTimes` read
without its clock is `StoreSpec` of one job.
