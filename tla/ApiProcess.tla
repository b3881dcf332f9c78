------------------------------ MODULE ApiProcess ------------------------------
(***************************************************************************)
(* The life of the apps/api process: `main', the state it builds, its      *)
(* readiness, its background job and its shutdown (main.rs, state.rs,      *)
(* jobs.rs, health.rs, observability.rs, rv2-shared config.rs,             *)
(* rv2-analytics).                                                         *)
(*                                                                         *)
(* A setting is "set", "absent" (a blank one is) or, where some reader of  *)
(* it minds, "bad", "odd" or "taken".  The analytics SDK, the exporter of  *)
(* traces, Core and the projection worker are external.  What a killed     *)
(* process leaves is whatever it had.                                      *)
(***************************************************************************)
EXTENDS Integers, Sequences, FiniteSets

CONSTANTS Environments, \* the settings a process may be started with
          QueueLimit,   \* events the analytics queue holds
          MaxCreates,   \* bound: publishes handled
          MaxProbes,    \* bound: readiness probes
          MaxTurns      \* bound: outages and recoveries of Core

VARIABLES at,           \* the step of main
          settings,
          worker,       \* the posts projection: "none", "replaying" or "caught_up"
          job,          \* dependency_health: "off", "waiting" or "running"
          core,         \* whether Core can be reached
          probe,        \* a GET /ready, or the answer to the last one
          inflight,     \* publishes being handled
          queue,        \* events in the analytics queue
          ledger,       \* what became of each tracked event
          spans,        \* spans not exported yet
          used          \* the bounded counters

processVars == <<at, settings, worker, job, core, probe, inflight, queue, ledger, spans, used>>

-----------------------------------------------------------------------------

\* ServerConfig::from_env, in the order it reads.  A bad oauth is a half configured one.
Reads == <<"core_url", "query_url", "port", "cors", "hops", "oauth", "api_key", "jwt", "auth_url">>
Required == {"core_url", "query_url", "api_key", "jwt"}
Checked == {"core_url", "query_url", "port", "cors", "hops", "oauth", "auth_url"}

\* What can be taken is a port to listen on.
ASSUME TakenAssumption ==
    \A e \in Environments : \A name \in Checked \cup {"jwt"} : e[name] = "taken" => name = "port"

\* A defect: a variable exported as "" counts as set.
BlankAccepted(name) == name \in Checked /\ settings[name] = "bad"

Refused(name) ==
    \/ name \in Required /\ settings[name] = "absent"
    \/ name \in Checked /\ settings[name] = "bad"

\* The steps of main up to the listener and what each of them cannot do with.
BootSteps == <<"metrics", "config", "clients", "auth", "worker", "jobs", "bind">>

Stops(step) ==
    CASE step = "metrics" -> settings.metrics \in {"bad", "taken"}
      [] step = "config" -> \E i \in DOMAIN Reads : Refused(Reads[i])
      [] step = "clients" -> "odd" \in {settings.core_url, settings.query_url}
      [] step = "auth" -> settings.jwt = "bad"
      [] step = "bind" -> settings.port = "taken"
      [] OTHER -> FALSE

\* Analytics::configure and build_tracer_provider: off without a usable setting.
AnalyticsOn == settings.analytics = "set"
TracesOn == settings.traces = "set"

Serving == {"serving", "draining"}
ShuttingDown == {"jobs_stop", "flush", "traces"}
Gone == {"failed", "exited", "killed"}

-----------------------------------------------------------------------------

NoProbe == [stage |-> "none"]

ProcessInit ==
    /\ at = "metrics"
    /\ settings \in Environments
    /\ worker = "none" /\ job = "off" /\ core = TRUE /\ probe = NoProbe
    /\ inflight = 0 /\ queue = 0 /\ spans = FALSE
    /\ ledger = [tracked |-> 0, sent |-> 0, dropped |-> 0, reported |-> 0, logged |-> 0]
    /\ used = [creates |-> 0, probes |-> 0, turns |-> 0]

\* One step; an error leaves main at once, and nothing of the shutdown below is run.
BootStep ==
    /\ \E i \in DOMAIN BootSteps :
          /\ at = BootSteps[i]
          /\ at' = IF Stops(at) THEN "failed"
                   ELSE IF i = Len(BootSteps) THEN "serving" ELSE BootSteps[i + 1]
    /\ worker' \in IF at = "worker" THEN {"none", "replaying"} ELSE {worker}
    /\ job' = IF at = "jobs" THEN "waiting" ELSE job
    /\ UNCHANGED <<settings, core, probe, inflight, queue, ledger, spans, used>>

CatchesUp ==
    /\ worker = "replaying" /\ at \notin Gone
    /\ worker' = "caught_up"
    /\ UNCHANGED <<at, settings, job, core, probe, inflight, queue, ledger, spans, used>>

CoreTurns ==
    /\ used.turns < MaxTurns
    /\ core' = ~core
    /\ used' = [used EXCEPT !.turns = @ + 1]
    /\ probe' = IF probe.stage = "asked" THEN [probe EXCEPT !.seen = @ \cup {core'}] ELSE probe
    /\ UNCHANGED <<at, settings, worker, job, inflight, queue, ledger, spans>>

\* GET /ready: Core is asked first; the answer is made when it has answered.  `seen' is
\* a ghost, the states Core was in since the request.
AskReady ==
    /\ at = "serving" /\ probe.stage # "asked" /\ used.probes < MaxProbes
    /\ probe' = [stage |-> "asked", heard |-> {}, seen |-> {core}]
    /\ used' = [used EXCEPT !.probes = @ + 1]
    /\ UNCHANGED <<at, settings, worker, job, core, inflight, queue, ledger, spans>>

CoreAnswers ==
    /\ at \in Serving /\ probe.stage = "asked" /\ probe.heard = {}
    /\ probe' = [probe EXCEPT !.heard = {core}]
    /\ UNCHANGED <<at, settings, worker, job, core, inflight, queue, ledger, spans, used>>

\* A worker that is not there does not count against the instance.
Ready == TRUE \in probe.heard /\ worker # "replaying"

Answer ==
    /\ at \in Serving /\ probe.stage = "asked" /\ probe.heard # {}
    /\ probe' = [stage |-> "answered", ready |-> Ready, seen |-> probe.seen, worker |-> worker]
    /\ spans' = (spans \/ TracesOn)
    /\ UNCHANGED <<at, settings, worker, job, core, inflight, queue, ledger, used>>

\* POST /posts: accepted; then it tracks its event, or fails before it does.
Create ==
    /\ at = "serving" /\ used.creates < MaxCreates
    /\ inflight' = inflight + 1
    /\ used' = [used EXCEPT !.creates = @ + 1]
    /\ UNCHANGED <<at, settings, worker, job, core, probe, queue, ledger, spans>>

\* track: logged without a client; the bounded queue drops with a warning.
Track ==
    /\ at \in Serving /\ inflight > 0
    /\ inflight' = inflight - 1
    /\ LET kind == IF ~AnalyticsOn THEN "logged" ELSE IF queue = QueueLimit THEN "dropped" ELSE "queued"
           counted == [ledger EXCEPT !.tracked = @ + 1]
       IN  /\ queue' = IF kind = "queued" THEN queue + 1 ELSE queue
           /\ ledger' = IF kind = "queued" THEN counted ELSE [counted EXCEPT ![kind] = @ + 1]
    /\ spans' = (spans \/ TracesOn)
    /\ UNCHANGED <<at, settings, worker, job, core, probe, used>>

CreateFails ==
    /\ at \in Serving /\ inflight > 0
    /\ inflight' = inflight - 1
    /\ spans' = (spans \/ TracesOn)
    /\ UNCHANGED <<at, settings, worker, job, core, probe, queue, ledger, used>>

\* The SDK's worker sends a batch; a failed one comes to the hook of `configure'.
Sends(n) ==
    /\ \/ ledger' = [ledger EXCEPT !.sent = @ + n]
       \/ ledger' = [ledger EXCEPT !.reported = @ + n]
    /\ queue' = queue - n

Deliver ==
    /\ at \in Serving \cup ShuttingDown
    /\ \E n \in 1..queue : Sends(n)
    /\ UNCHANGED <<at, settings, worker, job, core, probe, inflight, spans, used>>

Export ==
    /\ spans /\ at \notin Gone
    /\ spans' = FALSE
    /\ UNCHANGED <<at, settings, worker, job, core, probe, inflight, queue, ledger, used>>

Tick ==
    /\ job = "waiting" /\ at \in {"bind"} \cup Serving
    /\ job' = "running"
    /\ UNCHANGED <<at, settings, worker, core, probe, inflight, queue, ledger, spans, used>>

RunEnds ==
    /\ job = "running" /\ at \notin Gone
    /\ job' = "waiting"
    /\ UNCHANGED <<at, settings, worker, core, probe, inflight, queue, ledger, spans, used>>

\* Ctrl-C or SIGTERM, for which a handler is installed once main serves.
Signal ==
    /\ at = "serving"
    /\ at' = "draining"
    /\ UNCHANGED <<settings, worker, job, core, probe, inflight, queue, ledger, spans, used>>

\* axum::serve returns when the requests it had accepted are answered.
Drained ==
    /\ at = "draining" /\ inflight = 0 /\ probe.stage # "asked"
    /\ at' = "jobs_stop"
    /\ UNCHANGED <<settings, worker, job, core, probe, inflight, queue, ledger, spans, used>>

\* Scheduler::shutdown: a run under way is waited for.
StopJobs ==
    /\ at = "jobs_stop" /\ job = "waiting"
    /\ job' = "off" /\ at' = "flush" /\ spans' = (spans \/ TracesOn)
    /\ UNCHANGED <<settings, worker, core, probe, inflight, queue, ledger, used>>

\* Analytics::shutdown: what is queued is sent, or comes to the hook.
Flush ==
    /\ at = "flush" /\ at' = "traces"
    /\ Sends(queue)
    /\ spans' = (spans \/ TracesOn)
    /\ UNCHANGED <<settings, worker, job, core, probe, inflight, used>>

\* Observability::shutdown; a collector that fails here is only warned about.
ShutdownTraces ==
    /\ at = "traces" /\ at' = "exited"
    /\ spans' = FALSE
    /\ UNCHANGED <<settings, worker, job, core, probe, inflight, queue, ledger, used>>

\* SIGKILL, or a signal before its handler is installed.
Kill ==
    /\ at \notin Gone
    /\ at' = "killed"
    /\ UNCHANGED <<settings, worker, job, core, probe, inflight, queue, ledger, spans, used>>

ProcessNext ==
    \/ BootStep \/ CatchesUp \/ CoreTurns \/ AskReady \/ CoreAnswers \/ Answer
    \/ Create \/ Track \/ CreateFails \/ Deliver \/ Export \/ Tick \/ RunEnds
    \/ Signal \/ Drained \/ StopJobs \/ Flush \/ ShutdownTraces \/ Kill

ProcessSpec == ProcessInit /\ [][ProcessNext]_processVars

-----------------------------------------------------------------------------

\* The settings without which, or with which, nobody should be served.
Sound ==
    /\ \A name \in Required : settings[name] # "absent"
    /\ \A name \in Checked \cup {"metrics", "jwt"} : settings[name] \notin {"bad", "taken"}
    /\ "odd" \notin {settings.core_url, settings.query_url}

\* Whoever is served is served by a process with sound settings, and only an unsound one
\* keeps it from serving: analytics, traces and the worker never do.  A probe is told to
\* send traffic if Core answered while it was asked and the worker, when there is one,
\* has caught up, and is told not to for one of the two reasons only.  Every event that
\* was tracked is still queued or accounted for, and a shutdown, unlike a kill, leaves no
\* event queued, no span behind, no request unanswered and no run of the job cut off.
ProcessIsAccountable ==
    /\ at \in Serving \cup ShuttingDown \cup {"exited"} => Sound
    /\ at = "failed" => ~Sound /\ ledger.tracked = 0 /\ used.probes = 0
    /\ probe.stage = "answered" =>
          IF probe.ready THEN TRUE \in probe.seen /\ probe.worker # "replaying"
          ELSE FALSE \in probe.seen \/ probe.worker = "replaying"
    /\ ledger.tracked = ledger.sent + ledger.dropped + ledger.reported + ledger.logged + queue
    /\ at = "exited" =>
          queue = 0 /\ inflight = 0 /\ job = "off" /\ ~spans /\ probe.stage # "asked"
=============================================================================
