------------------------ MODULE JobScheduler_proofs ------------------------
(***************************************************************************)
(* Theorems about the scheduler, for any number of jobs, any periods, any  *)
(* names and any lateness.                                                 *)
(***************************************************************************)
EXTENDS JobScheduler, TLAPS

USE JobsAssumption, PeriodAssumption, HashAssumption

-----------------------------------------------------------------------------
(* A multiple of a period strictly between minus one and one period is 0:  *)
(* the arithmetic behind a ticker that keeps to its schedule.              *)
LEMMA NoMultipleBetween ==
    ASSUME NEW P \in Nat, P > 0, NEW m \in Int, m * P < P, -P < m * P
    PROVE  m = 0
<1>1. CASE m >= 1
  <2>1. (m - 1) * P >= 0   BY <1>1
  <2>2. m * P = (m - 1) * P + P   OBVIOUS
  <2> QED BY <2>1, <2>2
<1>2. CASE m <= -1
  <2>1. (-1 - m) * P >= 0   BY <1>2
  <2>2. m * P = -((-1 - m) * P) - P   OBVIOUS
  <2> QED BY <2>1, <2>2
<1> QED BY <1>1, <1>2

(* Skipping missed ticks lands on the end of the current period, however   *)
(* many were missed (MissedTickBehavior::Skip in every).                   *)
LEMMA SkipLandsOnThePeriod ==
    ASSUME NEW P \in Nat, P > 0, NEW d \in Int, NEW l \in 1..P, NEW k \in Nat,
           d = l - k * P
    PROVE  SkipTick(d, P) = l
<1>1. k * P \in Nat /\ k <= k * P
  <2>1. k * (P - 1) >= 0 /\ k * P = k * (P - 1) + k   OBVIOUS
  <2> QED BY <2>1
<1>2. k \in 0..(P - d) /\ l = d + k * P   BY <1>1
<1>3. ASSUME NEW n \in 1..P, NEW q \in 0..(P - d), n = d + q * P
      PROVE  n = l
  <2>1. q \in Int /\ q * P = n - d   BY <1>3
  <2>2. (q - k) * P = q * P - k * P   BY <2>1
  <2>3. (q - k) * P = n - l   BY <2>1, <2>2, <1>1
  <2>4. q - k = 0   BY <2>1, <2>3, NoMultipleBetween
  <2> QED BY <2>3, <2>4, <2>1
<1>4. \E next \in 1..P : \E q \in 0..(P - d) : next = d + q * P   BY <1>2
<1>5. SkipTick(d, P) \in 1..P /\ \E q \in 0..(P - d) : SkipTick(d, P) = d + q * P
  BY <1>4, Zenon DEF SkipTick
<1> QED BY <1>3, <1>5, Zenon

-----------------------------------------------------------------------------
(* The schedule starts in order: the first deadline is inside the period.  *)
LEMMA InitIInv == Init => IInv
<1> SUFFICES ASSUME Init PROVE IInv   OBVIOUS
<1>1. \A j \in Jobs : StartOffset(j) \in 0..(Period[j] - 1)
  BY SMTT(30) DEF StartOffset
<1>2. TypeOK
  <2>1. \A j \in Jobs : due[j] \in -MaxLate..Period[j] /\ left[j] \in 1..Period[j]
    BY <1>1 DEF Init
  <2>2. due \in [Jobs -> Int] /\ left \in [Jobs -> Nat]   BY <1>1 DEF Init
  <2>3. task \in [Jobs -> {"select"}] /\ last \in [Jobs -> {"none"}]   BY DEF Init
  <2>4. starts \in [Jobs -> Nat] /\ late \in [Jobs -> Nat]   BY DEF Init
  <2>5. task \in [Jobs -> {"select", "armed", "running", "stopped", "dead", "dropped"}]
    BY <2>3
  <2>6. last \in [Jobs -> Outcomes \cup {"none"}]   BY <2>3
  <2>7. main = "serving" /\ awaited \in 0..NumJobs   BY DEF Init
  <2>8. stop \in BOOLEAN   BY Zenon DEF Init
  <2> QED BY <2>1, <2>2, <2>4, <2>5, <2>6, <2>7, <2>8 DEF TypeOK
<1>3. TickerOnSchedule
  <2> SUFFICES ASSUME NEW j \in Jobs
               PROVE /\ \E k \in Nat : due[j] = left[j] - k * Period[j]
                     /\ starts[j] = 0
    BY DEF TickerOnSchedule
  <2>1. CASE StartOffset(j) = 0
    <3>1. due[j] = left[j] - 1 * Period[j]   BY <2>1 DEF Init
    <3> QED BY <3>1 DEF Init
  <2>2. CASE StartOffset(j) # 0
    <3>1. due[j] = left[j] - 0 * Period[j]   BY <2>2, <1>1 DEF Init
    <3> QED BY <3>1 DEF Init
  <2> QED BY <2>1, <2>2
<1>4. JoinedLoopsAreOver /\ OneRunInTheWindow   BY DEF Init, JoinedLoopsAreOver, OneRunInTheWindow
<1>5. NothingRunsAfterShutdown /\ AtMostOneStartPerPeriod /\ AtMostOneStartAfterStop
  BY DEF Init, NothingRunsAfterShutdown, AtMostOneStartPerPeriod, AtMostOneStartAfterStop
<1> QED BY <1>2, <1>3, <1>4, <1>5 DEF IInv

(* One poll of the select, and the end of a run, leave the schedule alone. *)
LEMMA PollKeeps ==
    ASSUME IInv, NEW j \in Jobs,
           \/ PollStop(j) \/ PollTickPending(j)
           \/ \E outcome \in Outcomes : RunEnds(j, outcome)
    PROVE  IInv'
<1> USE DEF IInv
<1>1. /\ UNCHANGED <<due, stop, main, awaited, history>>
      /\ \E t \in {"select", "armed", "stopped"} : task' = [task EXCEPT ![j] = t]
      /\ \/ last' = last \/ \E outcome \in Outcomes : last' = [last EXCEPT ![j] = outcome]
      /\ Live(j)
  BY DEF PollStop, PollTickPending, RunEnds, Live
<1>2. TypeOK'   BY <1>1 DEF TypeOK, history
<1>3. JoinedLoopsAreOver'
  <2>1. \A i \in 1..awaited : i \in Jobs   BY DEF TypeOK, Jobs
  <2>2. \A i \in Jobs : i # j => task'[i] = task[i]   BY <1>1 DEF TypeOK
  <2>3. task[j] \notin {"stopped", "dead"}   BY <1>1 DEF Live
  <2> QED BY <1>1, <2>1, <2>2, <2>3 DEF JoinedLoopsAreOver
<1>4. TickerOnSchedule'
  BY <1>1 DEF TickerOnSchedule, TypeOK, Live, history
<1>5. OneRunInTheWindow'
  BY <1>1 DEF OneRunInTheWindow, TypeOK, history, PollStop, PollTickPending, RunEnds
<1>6. (NothingRunsAfterShutdown /\ AtMostOneStartPerPeriod /\ AtMostOneStartAfterStop)'
  BY <1>1 DEF NothingRunsAfterShutdown, AtMostOneStartPerPeriod, AtMostOneStartAfterStop,
              TypeOK, Live, history
<1> QED BY <1>2, <1>3, <1>4, <1>5, <1>6

(* A start takes a deadline of the schedule, and moves it to the end of    *)
(* the period: the job cannot start again before.                          *)
LEMMA StartKeeps ==
    ASSUME IInv, NEW j \in Jobs, PollTickReady(j)
    PROVE  IInv'
<1> USE DEF IInv
<1>1. /\ task[j] = "armed" /\ due[j] <= 0 /\ Live(j)
      /\ due' = [due EXCEPT ![j] = SkipTick(due[j], Period[j])]
      /\ \E t \in {"running", "dead"} : task' = [task EXCEPT ![j] = t]
      /\ starts' = [starts EXCEPT ![j] = @ + 1]
      /\ late' = [late EXCEPT ![j] = IF stop THEN @ + 1 ELSE @]
      /\ UNCHANGED <<last, stop, main, awaited, left>>
  BY DEF PollTickReady, Live
<1>2. PICK k \in Nat : due[j] = left[j] - k * Period[j]
  BY <1>1 DEF TickerOnSchedule
<1>3. SkipTick(due[j], Period[j]) = left[j]
  <2>1. /\ due[j] \in Int /\ left[j] \in 1..Period[j]
        /\ Period[j] \in Nat /\ Period[j] > 0   BY DEF TypeOK
  <2> QED BY ONLY <2>1, <1>2, SkipLandsOnThePeriod
<1>4. starts[j] = 0
  BY <1>1 DEF TickerOnSchedule, TypeOK
<1>5. late[j] = 0   BY <1>1 DEF OneRunInTheWindow
<1>6. TypeOK'   BY <1>1, <1>3 DEF TypeOK
<1>7. JoinedLoopsAreOver'   BY <1>1 DEF JoinedLoopsAreOver, TypeOK
<1>8. TickerOnSchedule'
  <2> SUFFICES ASSUME NEW i \in Jobs, Live(i)'
               PROVE /\ \E n \in Nat : due'[i] = left'[i] - n * Period[i]
                     /\ starts'[i] > 0 => due'[i] = left'[i]
    BY DEF TickerOnSchedule
  <2>1. CASE i = j
    <3>1. due'[i] = left'[i]   BY <1>1, <1>3, <2>1 DEF TypeOK
    <3>2. left'[i] - 0 * Period[i] = left'[i]   BY <1>1 DEF TypeOK
    <3> QED BY <3>1, <3>2
  <2>2. CASE i # j
    <3>1. Live(i) /\ due'[i] = due[i] /\ left'[i] = left[i] /\ starts'[i] = starts[i]
      BY <1>1, <2>2 DEF TypeOK, Live
    <3> QED BY <3>1 DEF TickerOnSchedule
  <2> QED BY <2>1, <2>2
<1>9. OneRunInTheWindow'   BY <1>1, <1>5 DEF OneRunInTheWindow, TypeOK
<1>10. NothingRunsAfterShutdown'   BY <1>1 DEF NothingRunsAfterShutdown, TypeOK
<1>11. AtMostOneStartPerPeriod'   BY <1>1, <1>4 DEF AtMostOneStartPerPeriod, TypeOK
<1>12. AtMostOneStartAfterStop'   BY <1>1, <1>5 DEF AtMostOneStartAfterStop, TypeOK
<1> QED BY <1>6, <1>7, <1>8, <1>9, <1>10, <1>11, <1>12

(* The clock moves every live ticker and every period by the same step.    *)
LEMMA TickKeeps ==
    ASSUME IInv, Tick
    PROVE  IInv'
<1> USE DEF IInv
<1>1. \A j \in Jobs : Live(j)' = Live(j)   BY DEF Tick, Live
<1>2. TypeOK'
  <2>1. \A j \in Jobs : due'[j] \in -MaxLate..Period[j] /\ left'[j] \in 1..Period[j]
    BY DEF Tick, OnTime, TypeOK
  <2>2. due' \in [Jobs -> Int] /\ left' \in [Jobs -> Nat] /\ starts' \in [Jobs -> Nat]
    BY DEF Tick, TypeOK
  <2> QED BY <2>1, <2>2 DEF Tick, TypeOK
<1>3. JoinedLoopsAreOver'   BY DEF Tick, JoinedLoopsAreOver
<1>4. TickerOnSchedule'
  <2> SUFFICES ASSUME NEW j \in Jobs, Live(j)
               PROVE /\ \E n \in Nat : due'[j] = left'[j] - n * Period[j]
                     /\ starts'[j] > 0 => due'[j] = left'[j]
    BY <1>1 DEF TickerOnSchedule
  <2>1. due'[j] = due[j] - 1   BY DEF Tick
  <2>2. PICK k \in Nat : due[j] = left[j] - k * Period[j]   BY DEF TickerOnSchedule
  <2>3. CASE left[j] = 1
    <3>1. left'[j] = Period[j] /\ starts'[j] = 0   BY <2>3 DEF Tick
    <3>2. (k + 1) * Period[j] = k * Period[j] + Period[j]   OBVIOUS
    <3>3. k * Period[j] \in Int   OBVIOUS
    <3>4. due'[j] = left'[j] - (k + 1) * Period[j]
      BY <2>1, <2>2, <2>3, <3>1, <3>2, <3>3
    <3> QED BY <3>1, <3>4
  <2>4. CASE left[j] # 1
    <3>1. left'[j] = left[j] - 1 /\ starts'[j] = starts[j]   BY <2>4 DEF Tick, TypeOK
    <3>2. k * Period[j] \in Int /\ left[j] \in Int   BY DEF TypeOK
    <3>3. due'[j] = left'[j] - k * Period[j]   BY <2>1, <2>2, <3>1, <3>2
    <3>4. starts[j] > 0 => due[j] = left[j]   BY DEF TickerOnSchedule
    <3> QED BY <2>1, <3>1, <3>3, <3>4
  <2> QED BY <2>3, <2>4
<1>5. OneRunInTheWindow'   BY DEF Tick, OneRunInTheWindow
<1>6. NothingRunsAfterShutdown' /\ AtMostOneStartAfterStop'
  BY DEF Tick, NothingRunsAfterShutdown, AtMostOneStartAfterStop
<1>7. AtMostOneStartPerPeriod'   BY DEF Tick, AtMostOneStartPerPeriod, TypeOK
<1> QED BY <1>2, <1>3, <1>4, <1>5, <1>6, <1>7

(* main joins a handle only once its loop is over, and returns from        *)
(* shutdown only once it has joined them all.                              *)
LEMMA MainKeeps ==
    ASSUME IInv, Signal \/ ServeFails \/ SendStop \/ AwaitNext \/ ShutdownReturns \/ Exit
    PROVE  IInv'
<1> USE DEF IInv
<1>1. UNCHANGED <<due, last, history>>
  BY DEF Signal, ServeFails, SendStop, AwaitNext, ShutdownReturns, Exit, loop
<1>2. \/ task' = task
      \/ /\ main' = "exited" /\ stop' = stop
         /\ task' = [j \in Jobs |-> IF Live(j) THEN "dropped" ELSE task[j]]
  BY DEF Signal, ServeFails, SendStop, AwaitNext, ShutdownReturns, Exit, loop
<1>3. stop => stop'
  BY DEF Signal, ServeFails, SendStop, AwaitNext, ShutdownReturns, Exit, TypeOK
<1>4. TypeOK'
  <2>1. awaited' \in 0..NumJobs
    BY DEF Signal, ServeFails, SendStop, AwaitNext, ShutdownReturns, Exit, TypeOK
  <2>3. stop' \in BOOLEAN
    BY DEF Signal, ServeFails, SendStop, AwaitNext, ShutdownReturns, Exit, TypeOK
  <2>4. main' \in {"serving", "draining", "awaiting", "stopped", "exited"}
    BY DEF Signal, ServeFails, SendStop, AwaitNext, ShutdownReturns, Exit, TypeOK
  <2>2. task' \in [Jobs -> {"select", "armed", "running", "stopped", "dead", "dropped"}]
    BY <1>2 DEF TypeOK
  <2> QED BY <1>1, <2>1, <2>2, <2>3, <2>4 DEF TypeOK, history
<1>5. JoinedLoopsAreOver'
  <2>1. CASE Signal   BY <2>1 DEF Signal, loop, JoinedLoopsAreOver
  <2>2. CASE ServeFails \/ Exit   BY <2>2 DEF ServeFails, Exit, JoinedLoopsAreOver
  <2>3. CASE SendStop   BY <2>3 DEF SendStop, loop, JoinedLoopsAreOver
  <2>4. CASE AwaitNext
    <3>1. awaited \in Nat /\ awaited + 1 \in Jobs   BY <2>4 DEF AwaitNext, TypeOK, Jobs
    <3>2. task[awaited + 1] \in {"stopped", "dead"}
      BY <2>4, <3>1 DEF AwaitNext, Ended, Live, TypeOK, JoinedLoopsAreOver
    <3>3. \A j \in 1..(awaited + 1) : j \in 1..awaited \/ j = awaited + 1   BY <3>1
    <3> QED BY <2>4, <3>1, <3>2, <3>3 DEF AwaitNext, loop, JoinedLoopsAreOver
  <2>5. CASE ShutdownReturns
    BY <2>5 DEF ShutdownReturns, loop, JoinedLoopsAreOver, TypeOK
  <2> QED BY <2>1, <2>2, <2>3, <2>4, <2>5
<1>6. \A j \in Jobs : Live(j)' => Live(j)   BY <1>2 DEF Live, TypeOK
<1>7. TickerOnSchedule'   BY <1>1, <1>6 DEF TickerOnSchedule, history
<1>8. OneRunInTheWindow'   BY <1>1, <1>2, <1>3 DEF OneRunInTheWindow, history, TypeOK, Live
<1>9. NothingRunsAfterShutdown'
  BY <1>5, <1>2 DEF NothingRunsAfterShutdown, JoinedLoopsAreOver, Jobs,
     Signal, ServeFails, SendStop, AwaitNext, ShutdownReturns, Exit, loop
<1>10. AtMostOneStartPerPeriod' /\ AtMostOneStartAfterStop'
  BY <1>1 DEF AtMostOneStartPerPeriod, AtMostOneStartAfterStop, history
<1> QED BY <1>4, <1>5, <1>7, <1>8, <1>9, <1>10

(* The invariant is inductive.                                             *)
THEOREM Inductive == Spec => []IInv
<1>1. IInv /\ [Next]_vars => IInv'
  <2> SUFFICES ASSUME IInv, [Next]_vars PROVE IInv'   OBVIOUS
  <2>1. CASE Tick   BY <2>1, TickKeeps
  <2>2. CASE \E j \in Jobs : PollTickReady(j)   BY <2>2, StartKeeps
  <2>3. CASE \E j \in Jobs : \/ PollStop(j) \/ PollTickPending(j)
                            \/ \E outcome \in Outcomes : RunEnds(j, outcome)
    BY <2>3, PollKeeps
  <2>4. CASE Signal \/ ServeFails \/ SendStop \/ AwaitNext \/ ShutdownReturns \/ Exit
    BY <2>4, MainKeeps
  <2>5. CASE UNCHANGED vars
    BY <2>5 DEF vars, IInv, TypeOK, JoinedLoopsAreOver, TickerOnSchedule, Live,
                OneRunInTheWindow, NothingRunsAfterShutdown, AtMostOneStartPerPeriod,
                AtMostOneStartAfterStop
  <2> QED BY <2>1, <2>2, <2>3, <2>4, <2>5 DEF Next
<1> QED BY InitIInv, <1>1, PTL DEF Spec

(* Type correctness.                                                       *)
THEOREM TypeCorrect == Spec => []TypeOK
<1>1. IInv => TypeOK   BY DEF IInv
<1> QED BY Inductive, <1>1, PTL

(* Nothing runs after shutdown returned, in any interleaving of the stop   *)
(* with the polls, the runs and their panics.                              *)
THEOREM ShutdownSafe == Spec => []NothingRunsAfterShutdown
<1>1. IInv => NothingRunsAfterShutdown   BY DEF IInv
<1> QED BY Inductive, <1>1, PTL

(* Missed ticks never pile up, whatever the period, the offset and the     *)
(* time a run takes.                                                       *)
THEOREM NoPileUp == Spec => []AtMostOneStartPerPeriod
<1>1. IInv => AtMostOneStartPerPeriod   BY DEF IInv
<1> QED BY Inductive, <1>1, PTL

(* A draining process starts at most one more run of each job.             *)
THEOREM StopIsSeen == Spec => []AtMostOneStartAfterStop
<1>1. IInv => AtMostOneStartAfterStop   BY DEF IInv
<1> QED BY Inductive, <1>1, PTL

=============================================================================
