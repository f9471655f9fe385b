------------------------------ MODULE WorkPool ------------------------------
(***************************************************************************)
(* The adaptive two-priority work pool (src/work_pool/pool.rs) and its     *)
(* scaling monitor (src/work_pool/monitor.rs).                             *)
(*                                                                         *)
(* MaxThreads worker threads take tasks from an unbounded HIGH and an      *)
(* unbounded LOW channel.  A worker whose park flag is set blocks at the   *)
(* top of its loop.  Submitters wake the first parked worker they find;    *)
(* the monitor parks and unparks workers as the HillClimber advises; the   *)
(* shutdown thread raises the flag, wakes every worker and joins them.     *)
(* The park flags and active_count are separate atomics: every load, store *)
(* and fetch_add of one of them is a step of its own here.                 *)
(***************************************************************************)
EXTENDS HillClimber, Sequences, FiniteSets

CONSTANTS
  Submitters,      \* threads that call submit
  Tasks,           \* the tasks submitted over a behaviour (bounds submit)
  NoTask,          \* an idle worker's hands
  InitialActive,   \* configured initial_active, clamped by new
  HasMonitor       \* general_pool: TRUE; cron_pool: FALSE

ASSUME PoolConstants ==
  /\ InitialActive \in Nat
  /\ HasMonitor \in BOOLEAN
  /\ IsFiniteSet(Submitters)
  /\ NoTask \notin Tasks

Worker == 1..MaxThreads

VARIABLES
  high, low,         \* the two channels
  parked,            \* WorkerPark.parked of each worker
  active_count,
  shutdown,          \* the shared terminating flag
  wpc, wtask,        \* workers: program counter, task in hand
  spc, scur,         \* submitters: program counter, cursor over worker_parks
  submitted, runs,   \* history: tasks sent; how often each one was executed
  mpc, mcur, mcount, mn, climber,   \* monitor thread
  dpc, dcur          \* thread running shutdown_and_join

channels   == <<high, low, submitted>>
workers    == <<wpc, wtask, runs>>
submitters == <<spc, scur>>
monitor    == <<mpc, mcur, mcount, mn, climber>>
downer     == <<dpc, dcur>>
vars == <<high, low, submitted, parked, active_count, shutdown, wpc, wtask,
          runs, spc, scur, mpc, mcur, mcount, mn, climber, dpc, dcur>>

WorkerPc == {"park", "check", "high", "low", "idle", "recv", "run", "exited"}
SubmitPc == {"ready", "scan", "unpark", "add"}
MonPc    == {"loop", "tick", "up", "up_do", "up_add",
             "down", "down_check", "down_do", "down_sub", "done"}
DownPc   == {"ready", "wake", "join", "done"}

TypeOK ==
  /\ high \in Seq(Tasks) /\ low \in Seq(Tasks)
  /\ submitted \in SUBSET Tasks
  /\ parked \in [Worker -> BOOLEAN]
  /\ active_count \in Nat
  /\ shutdown \in BOOLEAN
  /\ wpc \in [Worker -> WorkerPc]
  /\ wtask \in [Worker -> Tasks \cup {NoTask}]
  /\ \A w \in Worker : wpc[w] = "run" <=> wtask[w] \in Tasks
  /\ runs \in [Tasks -> Nat]
  /\ spc \in [Submitters -> SubmitPc]
  /\ scur \in [Submitters -> 1..(MaxThreads + 1)]
  /\ \A s \in Submitters : spc[s] \in {"unpark", "add"} => scur[s] \in Worker
  /\ mpc \in MonPc
  /\ mcur \in 0..(MaxThreads + 1)
  /\ mpc \in {"up_do", "down_check", "down_do", "down_sub"} => mcur \in Worker
  /\ mpc \in {"up"} => mcur >= 1
  /\ mpc \in {"down"} => mcur <= MaxThreads
  /\ mcount \in Nat /\ mn \in Nat
  /\ climber \in Climber
  /\ dpc \in DownPc
  /\ dcur \in 1..(MaxThreads + 1)

-----------------------------------------------------------------------------
\* new: worker i starts parked iff its index is not below the clamped count.
Init ==
  /\ high = << >> /\ low = << >> /\ submitted = {}
  /\ parked = [w \in Worker |-> w > Clamp(InitialActive)]
  /\ active_count = Clamp(InitialActive)
  /\ shutdown = FALSE
  /\ wpc = [w \in Worker |-> "park"]
  /\ wtask = [w \in Worker |-> NoTask]
  /\ runs = [t \in Tasks |-> 0]
  /\ spc = [s \in Submitters |-> "ready"]
  /\ scur = [s \in Submitters |-> 1]
  /\ mpc = IF HasMonitor THEN "loop" ELSE "done"
  /\ mcur = 0 /\ mcount = 0 /\ mn = 0
  /\ climber = NewClimber(Clamp(InitialActive))
  /\ dpc = "ready" /\ dcur = 1

-----------------------------------------------------------------------------
(* worker_loop *)

WGoto(w, from, to) == wpc[w] = from /\ wpc' = [wpc EXCEPT ![w] = to]

Take(w, t) == wtask' = [wtask EXCEPT ![w] = t]

\* wait_if_parked blocks while the flag is set.  The flag is re-read under
\* its mutex after every wake-up, so the wait is a guard.
WaitIfParkedSkipped(w) ==
  /\ WGoto(w, "park", "check")
  /\ UNCHANGED <<wtask, runs, channels, parked, active_count, shutdown,
                 submitters, monitor, downer>>

WaitIfParked(w) ==
  /\ ~parked[w]
  /\ WGoto(w, "park", "check")
  /\ UNCHANGED <<wtask, runs, channels, parked, active_count, shutdown,
                 submitters, monitor, downer>>

CheckShutdown(w) ==
  /\ WGoto(w, "check", IF shutdown THEN "exited" ELSE "high")
  /\ UNCHANGED <<wtask, runs, channels, parked, active_count, shutdown,
                 submitters, monitor, downer>>

TryRecvHigh(w) ==
  /\ IF high = << >>
     THEN WGoto(w, "high", "low") /\ UNCHANGED <<wtask, high>>
     ELSE WGoto(w, "high", "run") /\ Take(w, Head(high)) /\ high' = Tail(high)
  /\ UNCHANGED <<runs, low, submitted, parked, active_count, shutdown,
                 submitters, monitor, downer>>

TryRecvLowLosesTask(w) ==
  /\ IF low = << >>
     THEN WGoto(w, "low", "idle") /\ UNCHANGED <<wtask, low>>
     ELSE WGoto(w, "low", "idle") /\ low' = Tail(low) /\ UNCHANGED wtask
  /\ UNCHANGED <<runs, high, submitted, parked, active_count, shutdown,
                 submitters, monitor, downer>>

TryRecvLow(w) ==
  /\ IF low = << >>
     THEN WGoto(w, "low", "idle") /\ UNCHANGED <<wtask, low>>
     ELSE WGoto(w, "low", "run") /\ Take(w, Head(low)) /\ low' = Tail(low)
  /\ UNCHANGED <<runs, high, submitted, parked, active_count, shutdown,
                 submitters, monitor, downer>>

CheckShutdownIdle(w) ==
  /\ WGoto(w, "idle", IF shutdown THEN "exited" ELSE "recv")
  /\ UNCHANGED <<wtask, runs, channels, parked, active_count, shutdown,
                 submitters, monitor, downer>>

\* recv_timeout on HIGH only: a message, or the 100 ms elapse.
RecvHigh(w) ==
  /\ high # << >>
  /\ WGoto(w, "recv", "run") /\ Take(w, Head(high)) /\ high' = Tail(high)
  /\ UNCHANGED <<runs, low, submitted, parked, active_count, shutdown,
                 submitters, monitor, downer>>

RecvBlocks(w) ==
  /\ high # << >>
  /\ WGoto(w, "recv", "park")
  /\ UNCHANGED <<wtask, runs, channels, parked, active_count, shutdown,
                 submitters, monitor, downer>>

RecvTimeout(w) ==
  /\ WGoto(w, "recv", "park")
  /\ UNCHANGED <<wtask, runs, channels, parked, active_count, shutdown,
                 submitters, monitor, downer>>

\* The task returns or panics; catch_unwind makes the two alike.
RunTask(w) ==
  /\ WGoto(w, "run", "park")
  /\ Take(w, NoTask)
  /\ runs' = [runs EXCEPT ![wtask[w]] = @ + 1]
  /\ UNCHANGED <<channels, parked, active_count, shutdown,
                 submitters, monitor, downer>>

WorkerStep(w) ==
  \/ WaitIfParked(w) \/ CheckShutdown(w) \/ TryRecvHigh(w) \/ TryRecvLow(w)
  \/ CheckShutdownIdle(w) \/ RecvHigh(w) \/ RecvTimeout(w) \/ RunTask(w)

-----------------------------------------------------------------------------
(* submit, and the unpark_one it ends with *)

SGoto(s, from, to) == spc[s] = from /\ spc' = [spc EXCEPT ![s] = to]

Submit(s, t, priority) ==
  /\ t \notin submitted
  /\ SGoto(s, "ready", "scan")
  /\ scur' = [scur EXCEPT ![s] = 1]
  /\ submitted' = submitted \cup {t}
  /\ IF priority = "High" THEN high' = Append(high, t) /\ UNCHANGED low
                          ELSE low' = Append(low, t) /\ UNCHANGED high
  /\ UNCHANGED <<workers, parked, active_count, shutdown, monitor, downer>>

UnparkOneIsParked(s) ==
  /\ \/ /\ scur[s] > MaxThreads
        /\ SGoto(s, "scan", "ready") /\ UNCHANGED scur
     \/ /\ scur[s] <= MaxThreads /\ parked[scur[s]]
        /\ SGoto(s, "scan", "unpark") /\ UNCHANGED scur
     \/ /\ scur[s] <= MaxThreads /\ ~parked[scur[s]]
        /\ SGoto(s, "scan", "scan")
        /\ scur' = [scur EXCEPT ![s] = @ + 1]
  /\ UNCHANGED <<channels, workers, parked, active_count, shutdown, monitor, downer>>

UnparkOneUnpark(s) ==
  /\ SGoto(s, "unpark", "add")
  /\ parked' = [parked EXCEPT ![scur[s]] = FALSE]
  /\ UNCHANGED <<scur, channels, workers, active_count, shutdown, monitor, downer>>

UnparkOneForgetsCount(s) ==
  /\ SGoto(s, "add", "ready")
  /\ UNCHANGED <<scur, channels, workers, parked, active_count, shutdown,
                 monitor, downer>>

UnparkOneAdd(s) ==
  /\ SGoto(s, "add", "ready")
  /\ active_count' = active_count + 1
  /\ UNCHANGED <<scur, channels, workers, parked, shutdown, monitor, downer>>

SubmitterStep(s) ==
  UnparkOneIsParked(s) \/ UnparkOneUnpark(s) \/ UnparkOneAdd(s)

-----------------------------------------------------------------------------
(* run_scaling_monitor, with the pool's unpark_n and park_n *)

MonLoop ==
  /\ mpc = "loop"
  /\ mpc' = IF shutdown THEN "done" ELSE "tick"
  /\ UNCHANGED <<mcur, mcount, mn, climber, channels, workers, parked,
                 active_count, shutdown, submitters, downer>>

\* After the sleep: re-check the flag, sample, step the climber and dispatch.
MonTick(trend) ==
  LET d == Step(climber, trend) IN
  /\ mpc = "tick"
  /\ \/ /\ shutdown
        /\ mpc' = "done" /\ UNCHANGED <<mcur, mcount, mn, climber>>
     \/ /\ ~shutdown /\ d.action = "Hold"
        /\ climber' = d.climber
        /\ mpc' = "loop" /\ UNCHANGED <<mcur, mcount, mn>>
     \/ /\ ~shutdown /\ d.action = "Unpark"
        /\ climber' = d.climber
        /\ mpc' = "up" /\ mcur' = 1 /\ mcount' = 0 /\ mn' = d.count
     \/ /\ ~shutdown /\ d.action = "Park"
        /\ climber' = d.climber
        /\ mpc' = "down" /\ mcur' = MaxThreads /\ mcount' = 0 /\ mn' = d.count
  /\ UNCHANGED <<channels, workers, parked, active_count, shutdown,
                 submitters, downer>>

\* unpark_n that stops one worker short of the end.
UnparkNSkipsLast ==
  /\ mpc = "up"
  /\ \/ /\ mcount >= mn \/ mcur >= MaxThreads
        /\ mpc' = "up_add" /\ UNCHANGED mcur
     \/ /\ mcount < mn /\ mcur < MaxThreads /\ parked[mcur]
        /\ mpc' = "up_do" /\ UNCHANGED mcur
     \/ /\ mcount < mn /\ mcur < MaxThreads /\ ~parked[mcur]
        /\ mcur' = mcur + 1 /\ UNCHANGED mpc
  /\ UNCHANGED <<mcount, mn, climber, channels, workers, parked,
                 active_count, shutdown, submitters, downer>>

UnparkNIsParked ==
  /\ mpc = "up"
  /\ \/ /\ mcount >= mn \/ mcur > MaxThreads
        /\ mpc' = "up_add" /\ UNCHANGED mcur
     \/ /\ mcount < mn /\ mcur <= MaxThreads /\ parked[mcur]
        /\ mpc' = "up_do" /\ UNCHANGED mcur
     \/ /\ mcount < mn /\ mcur <= MaxThreads /\ ~parked[mcur]
        /\ mcur' = mcur + 1 /\ UNCHANGED mpc
  /\ UNCHANGED <<mcount, mn, climber, channels, workers, parked,
                 active_count, shutdown, submitters, downer>>

UnparkNUnpark ==
  /\ mpc = "up_do"
  /\ parked' = [parked EXCEPT ![mcur] = FALSE]
  /\ mcount' = mcount + 1 /\ mcur' = mcur + 1
  /\ mpc' = "up"
  /\ UNCHANGED <<mn, climber, channels, workers, active_count, shutdown,
                 submitters, downer>>

UnparkNAdd ==
  /\ mpc = "up_add"
  /\ active_count' = active_count + mcount
  /\ mpc' = "loop" /\ mcur' = 0 /\ mcount' = 0 /\ mn' = 0
  /\ UNCHANGED <<climber, channels, workers, parked, shutdown,
                 submitters, downer>>

ParkNNoFloor ==
  /\ mpc = "down"
  /\ \/ /\ mcur = 0 \/ mcount >= mn
        /\ mpc' = "loop" /\ mcur' = 0 /\ mcount' = 0 /\ mn' = 0
     \/ /\ mcur > 0 /\ mcount < mn
        /\ mpc' = "down_check" /\ UNCHANGED <<mcur, mcount, mn>>
  /\ UNCHANGED <<climber, channels, workers, parked, active_count, shutdown,
                 submitters, downer>>

ParkNHead ==
  /\ mpc = "down"
  /\ \/ /\ mcur = 0 \/ mcount >= mn \/ active_count <= MinThreads
        /\ mpc' = "loop" /\ mcur' = 0 /\ mcount' = 0 /\ mn' = 0
     \/ /\ mcur > 0 /\ mcount < mn /\ active_count > MinThreads
        /\ mpc' = "down_check" /\ UNCHANGED <<mcur, mcount, mn>>
  /\ UNCHANGED <<climber, channels, workers, parked, active_count, shutdown,
                 submitters, downer>>

ParkNIsParked ==
  /\ mpc = "down_check"
  /\ IF parked[mcur] THEN mpc' = "down" /\ mcur' = mcur - 1
                     ELSE mpc' = "down_do" /\ UNCHANGED mcur
  /\ UNCHANGED <<mcount, mn, climber, channels, workers, parked,
                 active_count, shutdown, submitters, downer>>

ParkNPark ==
  /\ mpc = "down_do"
  /\ parked' = [parked EXCEPT ![mcur] = TRUE]
  /\ mpc' = "down_sub"
  /\ UNCHANGED <<mcur, mcount, mn, climber, channels, workers,
                 active_count, shutdown, submitters, downer>>

ParkNSub ==
  /\ mpc = "down_sub"
  /\ active_count' = active_count - 1
  /\ mcount' = mcount + 1 /\ mcur' = mcur - 1
  /\ mpc' = "down"
  /\ UNCHANGED <<mn, climber, channels, workers, parked, shutdown,
                 submitters, downer>>

MonStep ==
  \/ MonLoop \/ (\E trend \in Trend : MonTick(trend))
  \/ UnparkNIsParked \/ UnparkNUnpark \/ UnparkNAdd
  \/ ParkNHead \/ ParkNIsParked \/ ParkNPark \/ ParkNSub

-----------------------------------------------------------------------------
(* Shutdown *)

\* The signal handler raises the flag all pools share before anybody calls
\* the pool's own shutdown().
SignalShutdown ==
  /\ ~shutdown
  /\ shutdown' = TRUE
  /\ UNCHANGED <<channels, workers, parked, active_count, submitters, monitor, downer>>

Shutdown ==
  /\ dpc = "ready"
  /\ shutdown' = TRUE
  /\ dpc' = "wake"
  /\ UNCHANGED <<dcur, channels, workers, parked, active_count, submitters, monitor>>

\* shutdown() that leaves the parked workers asleep.
ShutdownWakeNone ==
  /\ dpc = "wake"
  /\ dpc' = "join"
  /\ UNCHANGED <<dcur, channels, workers, parked, active_count, shutdown,
                 submitters, monitor>>

ShutdownWake ==
  /\ dpc = "wake"
  /\ \/ /\ dcur <= MaxThreads
        /\ parked' = [parked EXCEPT ![dcur] = FALSE]
        /\ dcur' = dcur + 1 /\ UNCHANGED dpc
     \/ /\ dcur > MaxThreads
        /\ dpc' = "join" /\ UNCHANGED <<parked, dcur>>
  /\ UNCHANGED <<channels, workers, active_count, shutdown, submitters, monitor>>

AllExited == \A w \in Worker : wpc[w] = "exited"

Join ==
  /\ dpc = "join" /\ AllExited
  /\ dpc' = "done"
  /\ UNCHANGED <<dcur, channels, workers, parked, active_count, shutdown,
                 submitters, monitor>>

DownStep == Shutdown \/ ShutdownWake \/ Join

\* The process is over; nothing runs any more.
Terminated == dpc = "done" /\ UNCHANGED vars

Next ==
  \/ \E w \in Worker : WorkerStep(w)
  \/ \E s \in Submitters : SubmitterStep(s)
  \/ \E s \in Submitters, t \in Tasks, p \in {"High", "Low"} : Submit(s, t, p)
  \/ MonStep
  \/ SignalShutdown \/ DownStep
  \/ Terminated

\* Every thread the scheduler runs keeps taking steps.  Nobody has to submit,
\* to send a signal or to begin a shutdown.
Fairness ==
  /\ \A w \in Worker : WF_vars(WorkerStep(w))
  /\ \A s \in Submitters : WF_vars(SubmitterStep(s))
  /\ WF_vars(MonStep)
  /\ WF_vars(ShutdownWake) /\ WF_vars(Join)

Spec == Init /\ [][Next]_vars /\ Fairness

-----------------------------------------------------------------------------
(* Properties *)

Unparked == {w \in Worker : ~parked[w]}

Occurrences(q, t) == Cardinality({i \in DOMAIN q : q[i] = t})

\* submit / worker_loop: a submitted task is at any moment in exactly one
\* place (a channel, one worker's hands, or done), so no interleaving of
\* submitters and workers loses a task or runs it twice.
TaskConservation ==
  \A t \in Tasks :
    Occurrences(high, t) + Occurrences(low, t)
      + Cardinality({w \in Worker : wtask[w] = t}) + runs[t]
    = IF t \in submitted THEN 1 ELSE 0

\* park_n: the counter test before each park keeps active_count at or above
\* min_threads, although the test and the fetch_sub are apart; in
\* particular the unsigned counter never wraps below zero.
CounterFloor == active_count >= MinThreads

\* Its inductive form: nothing lowers the counter between park_n's test and
\* the fetch_sub the test licenses, because the monitor is the only parker.
FloorInv ==
  /\ CounterFloor
  /\ mpc \in {"down_check", "down_do", "down_sub"} => active_count > MinThreads

\* Updates of active_count that threads still owe: submitters between unpark
\* and fetch_add, unpark_n before its fetch_add, park_n before its fetch_sub.
Adding == {s \in Submitters : spc[s] = "add"}
OwedByUnparkN == IF mpc \in {"up", "up_do", "up_add"} THEN mcount ELSE 0
OwedByParkN   == IF mpc = "down_sub" THEN 1 ELSE 0

\* unpark_one, unpark_n, park_n: until shutdown() starts to wake everybody,
\* active_count corrected for the updates that threads still owe it is at
\* least the number of workers that are not parked.  The racy is_parked /
\* unpark / fetch_add sequences drift in one direction only, so a pool whose
\* counter is down at min_threads really has at most that many running.
CounterCoversUnparked ==
  dpc = "ready" =>
    active_count + Cardinality(Adding) + OwedByUnparkN - OwedByParkN
      >= Cardinality(Unparked)

\* "Park up to n workers (respecting min_threads)": however the counter that
\* park_n tests has drifted, at least min_threads workers are unparked.
ParkRespectsMinThreads == Cardinality(Unparked) >= MinThreads

\* Why it holds: the workers the climber believes active are unparked, where
\* unpark_n under way still owes mn - mcount of them and park_n under way may
\* still take mn - mcount away.  A worker unpark_n is about to wake may be
\* woken by a submitter first, hence the case of its own.
UnparkedCoverClimber ==
  /\ mpc \in {"loop", "tick", "up_add", "done"} =>
       Cardinality(Unparked) >= climber.current_active
  /\ mpc \in {"up", "up_do"} =>
       /\ mcount <= mn /\ climber.current_active - mn >= MinThreads
       /\ \A w \in 1..(mcur - 1) : ~parked[w]
       /\ Cardinality(Unparked) >= climber.current_active - mn + mcount
  /\ mpc = "up_do" => mcount < mn
  /\ mpc = "up_do" =>
       Cardinality(Unparked \ {mcur}) >= climber.current_active - mn + mcount
  /\ mpc \in {"down", "down_check", "down_do"} =>
       /\ mcount <= mn
       /\ Cardinality(Unparked) >= climber.current_active + mn - mcount
  /\ mpc \in {"down_check", "down_do", "down_sub"} => mcount < mn
  /\ mpc = "down_sub" =>
       Cardinality(Unparked) >= climber.current_active + mn - mcount - 1

\* worker_loop: every submitted task is executed, whichever priority it has
\* and however many workers are parked, unless the pool is told to stop.
SubmittedTasksRun ==
  \A t \in Tasks : (t \in submitted) ~> (runs[t] = 1 \/ shutdown)

\* shutdown: "Wake all parked workers so they can exit": once shutdown()
\* has been called every worker thread exits, so the join returns.
ShutdownReleasesWorkers == (dpc = "wake") ~> AllExited
=============================================================================
