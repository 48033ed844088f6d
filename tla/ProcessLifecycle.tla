-------------------------- MODULE ProcessLifecycle ---------------------------
(***************************************************************************)
(* PredictionService inside its process: uvicorn, which serves requests    *)
(* until SIGINT and then runs the end of lifespan (api/main.py), the health*)
(* endpoint (api/routes/health.py), and the exit of the interpreter.       *)
(* uvicorn and the interpreter are external: they are modelled from what   *)
(* main.py says of them and from what Python does when it exits, which is  *)
(* to let the threads of an executor run its whole queue.                  *)
(*                                                                         *)
(* There is one event loop.  While it is in a handler, in the end of       *)
(* lifespan, or gone, no request is looked at.  It is this, and not a guard*)
(* of PredictionService, that keeps requests and the stop apart.           *)
(***************************************************************************)
EXTENDS PredictionService

VARIABLES
    phase,        \* "serving"; "closing": the listener is closed, requests
                  \* that have arrived are still answered; "stopping": the
                  \* end of lifespan; "exiting": it was skipped; "gone"
    forced,       \* a second SIGINT has come before the end of lifespan
    health        \* the last answer of GET /health: 0, 200 or 503

processVars == <<vars, phase, forced, health>>

ProcessInit == Init /\ phase = "serving" /\ forced = FALSE /\ health = 0

LoopIsFree == phase \in {"serving", "closing"} /\ hpc = "idle"

-----------------------------------------------------------------------------
Interrupt ==
    /\ phase = "serving"
    /\ phase' = "closing"
    /\ UNCHANGED <<vars, forced, health>>

InterruptAgain ==
    /\ phase = "closing"
    /\ forced' = TRUE
    /\ UNCHANGED <<vars, phase, health>>

(* is_running.                                                             *)
Probe ==
    /\ LoopIsFree
    /\ health' = IF executor # "none" THEN 200 ELSE 503
    /\ UNCHANGED <<vars, phase, forced>>

Serve ==
    /\ LoopIsFree
    /\ \E r \in Request : Receive(r)
    /\ UNCHANGED <<phase, forced, health>>

Handle == HandlerStep /\ UNCHANGED <<phase, forced, health>>
Work(w) == WorkerNext(w) /\ UNCHANGED <<phase, forced, health>>

(* Mutant of EnterStop: the end of lifespan begins before the requests that*)
(* have arrived are answered.                                              *)
EnterStopUndrained ==
    /\ phase = "closing"
    /\ ~ forced
    /\ BeginShutdown
    /\ UNCHANGED <<phase, forced, health>>

(* The requests are drained, and the finally block of lifespan is entered. *)
EnterStop ==
    /\ phase = "closing"
    /\ hpc = "idle"
    /\ ~ forced
    /\ BeginShutdown
    /\ phase' = "stopping"
    /\ UNCHANGED <<forced, health>>

Stop == ContinueShutdown /\ UNCHANGED <<phase, forced, health>>

Stopped ==
    /\ phase = "stopping"
    /\ executor = "none"
    /\ phase' = "gone"
    /\ UNCHANGED <<vars, forced, health>>

(* uvicorn returns without running the end of lifespan.                    *)
SkipStop ==
    /\ phase = "closing"
    /\ hpc = "idle"
    /\ forced
    /\ phase' = "exiting"
    /\ UNCHANGED <<vars, forced, health>>

(* Mutant of Exit: the threads are told to end after the item they are at. *)
ExitDropsQueue ==
    /\ phase = "exiting"
    /\ \A w \in Worker : hand[w] = NoTask
    /\ phase' = "gone"
    /\ UNCHANGED <<vars, forced, health>>

(* The interpreter joins the threads, which end when the queue is empty.   *)
Exit ==
    /\ phase = "exiting"
    /\ queue = << >>
    /\ \A w \in Worker : hand[w] = NoTask
    /\ phase' = "gone"
    /\ UNCHANGED <<vars, forced, health>>

Leave == EnterStop \/ Stopped \/ SkipStop \/ Exit

ProcessNext ==
    \/ Interrupt \/ InterruptAgain \/ Probe \/ Serve
    \/ Handle \/ Stop \/ Leave
    \/ \E w \in Worker : Work(w)

(* uvicorn reaches the end of lifespan once nothing holds it up.  Requests *)
(* stop arriving on their own in "closing" (IdsLeft).                      *)
ProcessSpec ==
    /\ ProcessInit /\ [][ProcessNext]_processVars
    /\ WF_processVars(Handle)
    /\ WF_processVars(Stop)
    /\ WF_processVars(Leave)
    /\ \A w \in Worker : WF_processVars(Work(w))

-----------------------------------------------------------------------------
(* "nothing can submit while it runs" (main.py:48): in a process that is   *)
(* only ever stopped by lifespan no request is answered 503, the readiness *)
(* probe (health.py:2) never says 200 of a pool that does not take work,   *)
(* and never gets to say 503.                                              *)
NothingMeetsTheStop ==
    /\ response \notin {"rejected", "unavailable"}
    /\ health # 503
    /\ LoopIsFree \/ hpc # "idle" => executor = "running"

(* "Queued segments are dropped [...].  Running ones are waited out,       *)
(* otherwise the library's child processes get torn down mid-fit"          *)
(* (main.py:43): when the process is gone, no thread was in a library call,*)
(* and a segment that did not get its result was not begun: it shows as    *)
(* pending, and it was the stop that cancelled it.  A second Ctrl+C costs  *)
(* what the first one saves: it drops nothing, so every job that was       *)
(* accepted is finished.                                                   *)
NobodyIsCutOff ==
    phase = "gone" =>
       /\ \A w \in Worker : wpc[w] = "idle"
       /\ \A j \in OpenJobs : \A s \in DOMAIN jobs[j].segments :
             jobs[j].segments[s].status \in OpenStatus =>
                jobs[j].segments[s] = Pending /\ future[<<j, s>>] = "cancelled"
       /\ forced => OpenJobs = {}

(* An interrupted process ends, whatever its threads and its queue hold.   *)
ProcessEnds == phase = "closing" ~> phase = "gone"
=============================================================================
