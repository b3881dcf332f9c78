---------------------------- MODULE JobScheduler ----------------------------
(***************************************************************************)
(* rv2_jobs::Scheduler: one task per job looping over a biased select of   *)
(* "stop" and "tick", each run on a task of its own, and the shutdown the  *)
(* API binary's main calls once its listener has drained.                  *)
(*                                                                         *)
(* A job is the index of its registration, the order shutdown awaits the   *)
(* handles in.  A poll of the select is two steps, because main sends the  *)
(* stop from another thread: the stop channel first, the ticker second.    *)
(* Time is discrete and relative, due[j] being the time left to the        *)
(* ticker's deadline, so that the model has no clock to bound; how late a  *)
(* tick may be taken is bounded by MaxLate.                                *)
(***************************************************************************)
EXTENDS Integers

CONSTANTS NumJobs,    \* jobs registered at boot
          Period,     \* job -> its period
          Hash,       \* job -> the FNV-1a hash of its name
          MaxLate     \* bound: how late a tick may be

Jobs == 1..NumJobs

ASSUME JobsAssumption == NumJobs \in Nat /\ MaxLate \in Nat
ASSUME PeriodAssumption == Period \in [Jobs -> Nat] /\ \A j \in Jobs : Period[j] > 0
ASSUME HashAssumption == Hash \in [Jobs -> Nat]

VARIABLES
    task,      \* job -> where its loop is
    due,       \* job -> time to the ticker's deadline, negative when missed
    last,      \* job -> outcome of the last run, the metric's label
    stop,      \* the watch channel's value
    main,      \* where the binary's main is
    awaited,   \* handles shutdown has joined
    left,      \* history: job -> time to the end of the current period
    starts,    \* history: job -> runs started in the current period
    late       \* history: job -> runs started after the stop was sent

loop == <<task, due, last>>
history == <<left, starts, late>>
vars == <<task, due, last, stop, main, awaited, left, starts, late>>

Outcomes == {"ok", "error", "panic"}

Live(j) == task[j] \in {"select", "armed", "running"}
Ended(j) == ~Live(j)

UnboundedOffset(j) == Hash[j]    \* a defect: the hash itself

StartOffset(j) == Hash[j] % Period[j]

Init ==
    /\ task = [j \in Jobs |-> "select"]
    /\ due = [j \in Jobs |-> StartOffset(j)]
    /\ last = [j \in Jobs |-> "none"]
    /\ stop = FALSE /\ main = "serving" /\ awaited = 0
    /\ left = [j \in Jobs |-> IF StartOffset(j) = 0 THEN Period[j] ELSE StartOffset(j)]
    /\ starts = [j \in Jobs |-> 0]
    /\ late = [j \in Jobs |-> 0]

-----------------------------------------------------------------------------
(* Defects a change to the code could introduce, for the runs' mutants.    *)

BurstTick(d, period) == d + period    \* missed ticks are queued

(* A select that is not biased may take the tick with a stop pending.      *)
UnbiasedPollStop(j) ==
    /\ task[j] = "select"
    /\ \/ stop /\ task' = [task EXCEPT ![j] = "stopped"]
       \/ task' = [task EXCEPT ![j] = "armed"]
    /\ UNCHANGED <<due, last, stop, main, awaited, history>>

(* The work inline in the loop: a panic takes the schedule with it.        *)
InlineRunEnds(j, outcome) ==
    /\ task[j] = "running"
    /\ task' = [task EXCEPT ![j] = IF outcome = "panic" THEN "dead" ELSE "select"]
    /\ last' = [last EXCEPT ![j] = outcome]
    /\ UNCHANGED <<due, stop, main, awaited, history>>

(* The handles are dropped, not awaited.                                   *)
AwaitNone ==
    /\ main = "awaiting" /\ awaited < NumJobs
    /\ awaited' = awaited + 1
    /\ UNCHANGED <<loop, stop, main, history>>

(* shutdown awaits the tasks without telling them.                         *)
SendNoStop ==
    /\ main = "draining" /\ NumJobs > 0
    /\ main' = "awaiting"
    /\ UNCHANGED <<loop, stop, awaited, history>>

-----------------------------------------------------------------------------
(* One job's loop.                                                         *)

(* MissedTickBehavior::Skip: the next deadline is the first of the         *)
(* original schedule that is still ahead.                                  *)
SkipTick(d, period) ==
    CHOOSE next \in 1..period : \E k \in 0..(period - d) : next = d + k * period

PollStop(j) ==
    /\ task[j] = "select"
    /\ task' = [task EXCEPT ![j] = IF stop THEN "stopped" ELSE "armed"]
    /\ UNCHANGED <<due, last, stop, main, awaited, history>>

PollTickPending(j) ==
    /\ task[j] = "armed" /\ due[j] > 0
    /\ task' = [task EXCEPT ![j] = "select"]
    /\ UNCHANGED <<due, last, stop, main, awaited, history>>

(* run_once: the closure is called on the loop's own task, the future it   *)
(* returns is spawned.                                                     *)
PollTickReady(j) ==
    /\ task[j] = "armed" /\ due[j] <= 0
    /\ due' = [due EXCEPT ![j] = SkipTick(due[j], Period[j])]
    /\ \/ task' = [task EXCEPT ![j] = "running"]
       \/ task' = [task EXCEPT ![j] = "dead"]      \* job() itself panicked
    /\ starts' = [starts EXCEPT ![j] = @ + 1]
    /\ late' = [late EXCEPT ![j] = IF stop THEN @ + 1 ELSE @]
    /\ UNCHANGED <<last, stop, main, awaited, left>>

(* The join: a future that panicked is one more outcome.                   *)
RunEnds(j, outcome) ==
    /\ task[j] = "running"
    /\ task' = [task EXCEPT ![j] = "select"]
    /\ last' = [last EXCEPT ![j] = outcome]
    /\ UNCHANGED <<due, stop, main, awaited, history>>

-----------------------------------------------------------------------------
(* Time, for the tickers that still exist and for the history's periods.   *)

OnTime == \A j \in Jobs : Live(j) => due[j] > -MaxLate

Tick ==
    /\ \E j \in Jobs : Live(j)
    /\ OnTime
    /\ due' = [j \in Jobs |-> IF Live(j) THEN due[j] - 1 ELSE due[j]]
    /\ left' = [j \in Jobs |-> IF ~Live(j) THEN left[j]
                              ELSE IF left[j] = 1 THEN Period[j] ELSE left[j] - 1]
    /\ starts' = [j \in Jobs |-> IF Live(j) /\ left[j] = 1 THEN 0 ELSE starts[j]]
    /\ UNCHANGED <<task, last, stop, main, awaited, late>>

-----------------------------------------------------------------------------
(* main: the signal, the listener's drain, then Scheduler::shutdown.       *)

Signal ==
    /\ main = "serving"
    /\ main' = "draining"
    /\ UNCHANGED <<loop, stop, awaited, history>>

(* bind or serve failed: main returns its error and the runtime drops      *)
(* every task where it stands.                                             *)
ServeFails ==
    /\ main \in {"serving", "draining"}
    /\ main' = "exited"
    /\ task' = [j \in Jobs |-> IF Live(j) THEN "dropped" ELSE task[j]]
    /\ UNCHANGED <<due, last, stop, awaited, history>>

SendStop ==
    /\ main = "draining" /\ NumJobs > 0
    /\ stop' = TRUE
    /\ main' = "awaiting"
    /\ UNCHANGED <<loop, awaited, history>>

(* A task that panicked is joined like one that stopped, with a warning.   *)
AwaitNext ==
    /\ main = "awaiting" /\ awaited < NumJobs
    /\ Ended(awaited + 1)
    /\ awaited' = awaited + 1
    /\ UNCHANGED <<loop, stop, main, history>>

ShutdownReturns ==
    /\ \/ main = "awaiting" /\ awaited = NumJobs
       \/ main = "draining" /\ NumJobs = 0
    /\ main' = "stopped"
    /\ UNCHANGED <<loop, stop, awaited, history>>

(* Analytics and telemetry are flushed; the process is gone.               *)
Exit ==
    /\ main = "stopped"
    /\ main' = "exited"
    /\ task' = [j \in Jobs |-> IF Live(j) THEN "dropped" ELSE task[j]]
    /\ UNCHANGED <<due, last, stop, awaited, history>>

JobStep(j) == PollStop(j) \/ PollTickPending(j) \/ PollTickReady(j)
Shutdown == SendStop \/ AwaitNext \/ ShutdownReturns

Next ==
    \/ \E j \in Jobs : PollStop(j) \/ PollTickPending(j) \/ PollTickReady(j)
    \/ \E j \in Jobs, outcome \in Outcomes : RunEnds(j, outcome)
    \/ Tick
    \/ Signal \/ ServeFails \/ SendStop \/ AwaitNext \/ ShutdownReturns \/ Exit

Spec == Init /\ [][Next]_vars

(* The runtime polls every woken task and the clock runs; nobody has to    *)
(* send a signal, and a run need not end.                                  *)
FairSpec ==
    /\ Spec
    /\ WF_vars(Tick) /\ WF_vars(Shutdown)
    /\ \A j \in Jobs : WF_vars(JobStep(j))

(* What the module asks of its users: a run that ends.                     *)
FiniteRuns ==
    \A j \in Jobs : WF_vars(\E outcome \in Outcomes : RunEnds(j, outcome))

FairRuns == FairSpec /\ FiniteRuns

-----------------------------------------------------------------------------
(* Properties.                                                             *)

(* Every variable ranges over its type.                                    *)
TypeOK ==
    /\ task \in [Jobs -> {"select", "armed", "running", "stopped", "dead", "dropped"}]
    /\ due \in [Jobs -> Int] /\ \A j \in Jobs : due[j] \in -MaxLate..Period[j]
    /\ last \in [Jobs -> Outcomes \cup {"none"}]
    /\ stop \in BOOLEAN
    /\ main \in {"serving", "draining", "awaiting", "stopped", "exited"}
    /\ awaited \in 0..NumJobs
    /\ left \in [Jobs -> Nat] /\ \A j \in Jobs : left[j] \in 1..Period[j]
    /\ starts \in [Jobs -> Nat] /\ late \in [Jobs -> Nat]

(* "Nothing may run after shutdown returns.  That is the whole contract of *)
(* awaiting the handles": no loop is left to start a run, no run in flight *)
(* is cut off by the exit that follows.                                    *)
NothingRunsAfterShutdown ==
    main = "stopped" => \A j \in Jobs : task[j] \in {"stopped", "dead"}

(* A slow run does not pile up: whatever was missed, a job starts at most  *)
(* once in each period of its schedule.                                    *)
AtMostOneStartPerPeriod == \A j \in Jobs : starts[j] <= 1

(* A stop sent between the two polls of a select loses to the tick, once:  *)
(* the loop never starts a second run in a draining process.               *)
AtMostOneStartAfterStop == \A j \in Jobs : late[j] <= 1

(* However a run ends, the loop goes back to its schedule, and runs again  *)
(* unless it is stopped or the closure panics before it returns a future.  *)
EveryRunIsFollowed ==
    \A j \in Jobs :
        /\ task[j] = "running" ~> task[j] \in {"select", "dropped"}
        /\ task[j] = "select" ~> task[j] = "running" \/ Ended(j)

(* Shutdown returns once the runs in flight have, whatever state it found  *)
(* each job in.  Nothing bounds a run: without FiniteRuns this is false.   *)
ShutdownTerminates == main = "awaiting" ~> main = "stopped"

(* lib.rs:92-95, of every: "Never.  A panic inside `job` is caught at the  *)
(* task boundary, counted as a failed run, and the schedule continues."    *)
PanicsNeverEndASchedule == \A j \in Jobs : task[j] # "dead"

-----------------------------------------------------------------------------
(* The inductive invariant behind the theorems.                            *)

(* The handles already joined belong to loops that are over.               *)
JoinedLoopsAreOver ==
    /\ main \in {"serving", "draining"} => awaited = 0
    /\ main # "exited" => /\ \A j \in 1..awaited : task[j] \in {"stopped", "dead"}
                          /\ \A j \in Jobs : task[j] # "dropped"
    /\ main = "stopped" => awaited = NumJobs

(* The ticker keeps to the schedule the periods are counted on, and once   *)
(* the job started in a period the deadline is the period's end.           *)
TickerOnSchedule ==
    \A j \in Jobs : Live(j) =>
        /\ \E k \in Nat : due[j] = left[j] - k * Period[j]
        /\ starts[j] > 0 => due[j] = left[j]

(* A loop that has seen the stop never arms again.                         *)
OneRunInTheWindow ==
    \A j \in Jobs :
        /\ ~stop => late[j] = 0
        /\ task[j] = "armed" => late[j] = 0

IInv ==
    /\ TypeOK /\ JoinedLoopsAreOver /\ TickerOnSchedule /\ OneRunInTheWindow
    /\ NothingRunsAfterShutdown /\ AtMostOneStartPerPeriod /\ AtMostOneStartAfterStop

=============================================================================
