------------------------------- MODULE Cron -------------------------------
(***************************************************************************)
(* The cron scheduler of src/cron/scheduler.rs: the scheduler thread       *)
(* (CronStateMachine) with its queue and channel, the heavy jobs it hands  *)
(* to the cron pool behind try_heavy_gate, their one-shot retries, and the *)
(* operator's trigger_cron call.  A heavy job is registered with the lock  *)
(* its bodies take: heavy_cron_lock, which trigger_cron takes too, for     *)
(* most, a lock of their own for quality-history, topics-size-history and  *)
(* tool-policy-refresh.  There is one heavy_cron_running gauge.            *)
(*                                                                         *)
(* Time is counted in units of MEM_PRESSURE_RETRY_MS.  The scheduler polls *)
(* hundreds of times in a unit and its closures only submit work, so it    *)
(* has served every due task before the clock moves on; a heavy body, and  *)
(* a task waiting for a worker, may take any number of units.              *)
(***************************************************************************)
EXTENDS Integers, Sequences, FiniteSets, FiniteSetsExt, Functions, Bags

CONSTANTS Heavy, Light,      \* recurring jobs: run in the pool, run in place
          Workers, Callers,  \* cron-pool workers, trigger_cron calls
          Manual,            \* VALID_JOBS: heavy jobs that trigger_cron can run
          Locks, Shared,     \* the locks of heavy bodies, heavy_cron_lock
          LockOf,            \* [Heavy -> lock the job is registered with]
          Registered,        \* the jobs in the order the daemon registers them
          Interval,          \* [Heavy \cup Light -> units between two ticks]
          Stagger,           \* [Heavy \cup Light -> staggered initial delay]
          Cooldown,          \* [Heavy -> units to settle after Ready]
          Slack,             \* COOLDOWN_SLACK_MS
          RetryDelay,        \* MEM_PRESSURE_RETRY_MS
          MaxRetries,        \* MEM_PRESSURE_MAX_RETRIES
          Start, MaxTime,    \* first and last value of the clock
          MaxFaults,         \* bound on health changes, panics and disables
          NoTask             \* no task executing

Jobs == Heavy \cup Light
Runners == Workers \cup Callers
Faults == {"DbDown", "DiskPressure", "MemoryPressure"}

ASSUME JobsApart == Heavy \cap Light = {} /\ Workers \cap Callers = {}
ASSUME RegisteredOnce == IsInjective(Registered) /\ Range(Registered) = Jobs
ASSUME LocksAssumption == Manual \subseteq Heavy /\ Shared \in Locks /\ LockOf \in [Heavy -> Locks]
ASSUME TimesAssumption ==
    /\ Interval \in [Jobs -> Nat \ {0}]
    /\ Stagger \in [Jobs -> Nat]
    /\ Cooldown \in [Heavy -> Nat]
    /\ {Slack, RetryDelay, MaxRetries, Start, MaxTime, MaxFaults} \subseteq Nat

VARIABLES
    now, phase, readyAt, terminating, faults, changes,   \* the daemon
    sched, queue, chan, step, task, requeue, silent,     \* the scheduler
    gone,                \* jobs whose recurrence was dropped (history)
    disabled,            \* StatsTracker.disabled_cron_jobs
    pool, pc, job,       \* the cron pool's queue, the threads that run bodies
    lock, running        \* the locks that are taken, the gauge

daemon == <<now, phase, readyAt, terminating, faults, changes>>
thread == <<sched, queue, chan, step, task, requeue, silent, gone>>
bodies == <<pool, pc, job, lock, running>>
vars == <<daemon, thread, disabled, bodies>>

-----------------------------------------------------------------------------
(* Scheduled tasks *)

Tick(j, at) == [job |-> j, once |-> FALSE, at |-> at, left |-> 0]
Retry(j, at, left) == [job |-> j, once |-> TRUE, at |-> at, left |-> left]

\* The next due time counts from the last recorded success, and never comes
\* earlier than the stagger.
restart_initial_delay_ms(j, last, t) ==
    IF last > t \/ last + Interval[j] <= t THEN Stagger[j]
    ELSE Max({last + Interval[j] - t, Stagger[j]})

\* What schedule_maintenance_jobs sends on a start that finds `last`, the time
\* of each job's last recorded success (0: none, or long overdue).
Registrations(last) ==
    [i \in DOMAIN Registered |->
        LET j == Registered[i]
        IN  Tick(j, Start + restart_initial_delay_ms(j, last[j], Start))]

Due == {t \in BagToSet(queue) : t.at <= now}
Earliest == {t \in Due : \A u \in Due : t.at <= u.at}

\* Mutant: the interval is forgotten.
RequeueAtOnce(q, t) == q (+) SetToBag({[t EXCEPT !.at = now]})

Requeue(q, t) == q (+) SetToBag({[t EXCEPT !.at = now + Interval[t.job]]})

Init ==
    /\ now = Start /\ phase = "starting" /\ readyAt = Start
    /\ terminating = FALSE /\ faults = {} /\ changes = 0
    /\ sched = "CheckEvents" /\ queue = EmptyBag /\ step = "poll"
    /\ \E last \in [Jobs -> 0..Start + 1] : chan = Registrations(last)
    /\ task = NoTask /\ requeue = FALSE /\ silent = TRUE /\ gone = {}
    /\ disabled = {}
    /\ pool = <<>> /\ pc = [r \in Runners |-> "idle"]
    /\ job = [r \in Runners |-> CHOOSE j \in Heavy : TRUE]
    /\ lock = {} /\ running = FALSE

-----------------------------------------------------------------------------
(* The scheduler thread: poll_event and transition *)

polling == step = "poll" /\ sched # "Terminated"

\* record_cron_outcome stamps what it writes with a fresh generation, and
\* execute_inline compares stamps: `silent` says that no outcome of the
\* executing task's job was recorded since the snapshot.
record_cron_outcome(j) == silent' = (silent /\ (step = "poll" \/ j # task.job))

\* Mutant: a disabled job is taken off the queue for good.
ExecuteDisabledDropped ==
    /\ polling
    /\ \E t \in Earliest :
           /\ queue' = queue (-) SetToBag({t})
           /\ IF t.job \in disabled
              THEN sched' = "CheckEvents" /\ UNCHANGED <<step, task, silent>>
              ELSE task' = t /\ step' = "closure" /\ silent' = TRUE /\ UNCHANGED sched
    /\ UNCHANGED <<daemon, chan, requeue, gone, disabled, bodies>>

\* A due task comes before everything else, the termination flag included.
\* A disabled job keeps its recurrence but does not run.
ExecuteOneTask ==
    /\ polling
    /\ \E t \in Earliest :
           IF t.job \in disabled
           THEN /\ queue' = IF t.once THEN queue (-) SetToBag({t})
                                      ELSE Requeue(queue (-) SetToBag({t}), t)
                /\ sched' = "CheckEvents"
                /\ UNCHANGED <<step, task, silent>>
           ELSE /\ queue' = queue (-) SetToBag({t})
                /\ task' = t /\ step' = "closure" /\ silent' = TRUE
                /\ UNCHANGED sched
    /\ UNCHANGED <<daemon, chan, requeue, gone, disabled, bodies>>

Terminate ==
    /\ polling /\ Due = {} /\ terminating
    /\ sched' = "Terminated"
    /\ UNCHANGED <<daemon, queue, chan, step, task, requeue, silent, gone, disabled, bodies>>

ReceiveTask ==
    /\ polling /\ Due = {} /\ ~terminating
    /\ sched # "Sleeping" /\ chan # <<>>
    /\ queue' = queue (+) SetToBag({Head(chan)}) /\ chan' = Tail(chan)
    /\ sched' = "DrainChannel"
    /\ UNCHANGED <<daemon, step, task, requeue, silent, gone, disabled, bodies>>

\* Nothing to do: sleep; or the sleep of at most poll_interval_ms is over.
Sleep ==
    /\ polling /\ Due = {} /\ ~terminating
    /\ sched = "Sleeping" \/ chan = <<>>
    /\ sched' = IF sched = "Sleeping" THEN "CheckEvents" ELSE "Sleeping"
    /\ UNCHANGED <<daemon, queue, chan, step, task, requeue, silent, gone, disabled, bodies>>

-----------------------------------------------------------------------------
(* The closures the scheduler calls *)

stopping == phase = "stopping"

\* None is "Submit"; a deferral names its reason and its delay.
heavy_submit_decision(j) ==
    LET settled == now - readyAt
    IN  CASE phase # "ready" -> [reason |-> "Submit", delay |-> 0]
          [] phase = "ready" /\ settled < Cooldown[j] ->
                 [reason |-> "Cooldown", delay |-> Cooldown[j] - settled + Slack]
          [] phase = "ready" /\ settled >= Cooldown[j] /\ "MemoryPressure" \in faults ->
                 [reason |-> "MemoryPressure", delay |-> RetryDelay]
          [] OTHER -> [reason |-> "Submit", delay |-> 0]

RunOnce(j) == pool' = Append(pool, j)
Arm(j, delay, left) == chan' = Append(chan, Retry(j, now + delay, left))

Returns(again) == step' = "settle" /\ requeue' = again

HeavyCronTick ==
    /\ step = "closure" /\ task.job \in Heavy /\ ~task.once
    /\ LET j == task.job
           d == heavy_submit_decision(j)
       IN  \/ /\ stopping
              /\ Returns(FALSE)
              /\ UNCHANGED <<chan, silent, pool>>
           \/ /\ ~stopping /\ d.reason = "Submit"
              /\ RunOnce(j) /\ Returns(TRUE)
              /\ UNCHANGED <<chan, silent>>
           \/ /\ ~stopping /\ d.reason # "Submit"
              /\ record_cron_outcome(j)
              /\ Arm(j, d.delay, MaxRetries) /\ Returns(TRUE)
              /\ UNCHANGED pool
    /\ UNCHANGED <<daemon, sched, queue, task, gone, disabled, pc, job, lock, running>>

\* Mutants: the budget is not tested; the budget is not spent.
HeavyRetryUntested ==
    /\ step = "closure" /\ task.once
    /\ LET d == heavy_submit_decision(task.job)
       IN  \/ d.reason = "Submit" /\ RunOnce(task.job) /\ UNCHANGED chan
           \/ /\ d.reason # "Submit"
              /\ Arm(task.job, d.delay, task.left - 1) /\ UNCHANGED pool
    /\ Returns(FALSE)
    /\ UNCHANGED <<daemon, sched, queue, task, silent, gone, disabled, pc, job, lock, running>>

HeavyRetryForEver ==
    /\ step = "closure" /\ task.once
    /\ LET d == heavy_submit_decision(task.job)
       IN  \/ d.reason = "Submit" /\ RunOnce(task.job) /\ UNCHANGED chan
           \/ /\ d.reason # "Submit"
              /\ Arm(task.job, d.delay, task.left) /\ UNCHANGED pool
    /\ Returns(FALSE)
    /\ UNCHANGED <<daemon, sched, queue, task, silent, gone, disabled, pc, job, lock, running>>

HeavyRetry ==
    /\ step = "closure" /\ task.once
    /\ LET j == task.job
           d == heavy_submit_decision(j)
       IN  \/ d.reason = "Submit" /\ RunOnce(j) /\ UNCHANGED chan
           \/ /\ d.reason = "MemoryPressure" /\ task.left > 0
              /\ Arm(j, d.delay, task.left - 1) /\ UNCHANGED pool
           \/ d.reason = "MemoryPressure" /\ task.left = 0 /\ UNCHANGED <<chan, pool>>
           \/ d.reason = "Cooldown" /\ Arm(j, d.delay, task.left) /\ UNCHANGED pool
    /\ Returns(FALSE)
    /\ UNCHANGED <<daemon, sched, queue, task, silent, gone, disabled, pc, job, lock, running>>

\* A light job spawns its body on the runtime, or skips it while the database
\* is down; its closure may panic, which costs the job its recurrence.
LightTick ==
    /\ step = "closure" /\ task.job \in Light
    /\ \/ /\ stopping
          /\ Returns(FALSE) /\ UNCHANGED <<silent, changes>>
       \/ /\ ~stopping /\ "DbDown" \in faults
          /\ record_cron_outcome(task.job) /\ Returns(TRUE) /\ UNCHANGED changes
       \/ /\ ~stopping /\ "DbDown" \notin faults
          /\ Returns(TRUE) /\ UNCHANGED <<silent, changes>>
       \/ /\ ~stopping /\ changes < MaxFaults /\ changes' = changes + 1
          /\ step' = "panicked" /\ UNCHANGED <<requeue, silent>>
    /\ UNCHANGED <<now, phase, readyAt, terminating, faults, sched, queue, chan, task,
                   gone, disabled, bodies>>

-----------------------------------------------------------------------------
(* After the closure: execute_inline *)

Finish(again) ==
    /\ queue' = IF again /\ ~task.once THEN Requeue(queue, task) ELSE queue
    /\ gone' = IF again \/ task.once THEN gone ELSE gone \cup {task.job}
    /\ step' = "poll" /\ sched' = "CheckEvents"
    /\ task' = NoTask /\ requeue' = FALSE /\ silent' = TRUE

\* The comparison of the stamps, and the write of the default Ok it allows,
\* are two accesses of the shared map.
Compare ==
    /\ step = "settle"
    /\ IF silent
       THEN step' = "default" /\ UNCHANGED <<queue, gone, sched, task, requeue, silent>>
       ELSE Finish(requeue)
    /\ UNCHANGED <<daemon, chan, disabled, bodies>>

DefaultOk ==
    /\ step = "default"
    /\ Finish(requeue)
    /\ UNCHANGED <<daemon, chan, disabled, bodies>>

Panicked ==
    /\ step = "panicked"
    /\ Finish(FALSE)
    /\ UNCHANGED <<daemon, chan, disabled, bodies>>

-----------------------------------------------------------------------------
(* Heavy bodies: a pool worker behind the gate, or a trigger_cron call *)

\* The lock r takes for its body.
LockFor(r) == IF r \in Callers THEN Shared ELSE LockOf[job[r]]

Dequeue(w) ==
    /\ pc[w] = "idle" /\ pool # <<>>
    /\ job' = [job EXCEPT ![w] = Head(pool)] /\ pool' = Tail(pool)
    /\ pc' = [pc EXCEPT ![w] = "gate"]
    /\ UNCHANGED <<daemon, thread, disabled, lock, running>>

\* Any other phase, an unhealthy host or a busy lock turns the run away, and
\* the reason is recorded.
try_heavy_gate(w) ==
    /\ pc[w] = "gate"
    /\ LET passes == phase = "ready" /\ faults = {} /\ LockFor(w) \notin lock
       IN  \/ /\ passes
              /\ lock' = lock \cup {LockFor(w)} /\ pc' = [pc EXCEPT ![w] = "locked"]
              /\ UNCHANGED silent
           \/ /\ ~passes
              /\ record_cron_outcome(job[w])
              /\ pc' = [pc EXCEPT ![w] = "idle"] /\ UNCHANGED lock
    /\ UNCHANGED <<daemon, sched, queue, chan, step, task, requeue, gone, disabled,
                   pool, job, running>>

\* Mutant: a call that does not ask for the lock.
TriggerUnlocked(c) ==
    /\ pc[c] = "idle"
    /\ lock' = lock \cup {Shared} /\ pc' = [pc EXCEPT ![c] = "locked"]
    /\ \E j \in Manual : job' = [job EXCEPT ![c] = j]
    /\ UNCHANGED <<daemon, thread, disabled, pool, running>>

\* trigger_cron asks for the shared lock only, whatever lock the job has when
\* it is scheduled; a busy lock is an answer, not a wait.
tool_trigger_cron(c) ==
    /\ pc[c] = "idle" /\ Shared \notin lock
    /\ lock' = lock \cup {Shared} /\ pc' = [pc EXCEPT ![c] = "locked"]
    /\ \E j \in Manual : job' = [job EXCEPT ![c] = j]
    /\ UNCHANGED <<daemon, thread, disabled, pool, running>>

HeavyCronFlag(r) ==
    /\ pc[r] = "locked"
    /\ running' = TRUE /\ pc' = [pc EXCEPT ![r] = "body"]
    /\ UNCHANGED <<daemon, thread, disabled, pool, job, lock>>

\* The body returns or unwinds; it may find a permanent fault.
EndBody(r) ==
    /\ pc[r] = "body"
    /\ pc' = [pc EXCEPT ![r] = "ended"]
    /\ \/ UNCHANGED <<disabled, changes>>
       \/ /\ changes < MaxFaults /\ changes' = changes + 1
          /\ disabled' = disabled \cup {job[r]}
    /\ UNCHANGED <<now, phase, readyAt, terminating, faults, thread,
                   pool, job, lock, running>>

\* Locals are dropped in reverse order: the flag, then the lock.
DropFlag(r) ==
    /\ pc[r] = "ended"
    /\ running' = FALSE /\ pc' = [pc EXCEPT ![r] = "unflagged"]
    /\ UNCHANGED <<daemon, thread, disabled, pool, job, lock>>

DropLock(r) ==
    /\ pc[r] = "unflagged"
    /\ lock' = lock \ {LockFor(r)} /\ pc' = [pc EXCEPT ![r] = "idle"]
    /\ UNCHANGED <<daemon, thread, disabled, pool, job, running>>

-----------------------------------------------------------------------------
(* The daemon around them *)

BecomeReady ==
    /\ phase = "starting"
    /\ phase' = "ready" /\ readyAt' = now
    /\ UNCHANGED <<now, terminating, faults, changes, thread, disabled, bodies>>

\* The signal handler raises the flag, the orderly shutdown the phase: in
\* either order.
SignalShutdown ==
    /\ ~terminating /\ terminating' = TRUE
    /\ UNCHANGED <<now, phase, readyAt, faults, changes, thread, disabled, bodies>>

BeginShutdown ==
    /\ phase # "stopping" /\ phase' = "stopping"
    /\ UNCHANGED <<now, readyAt, terminating, faults, changes, thread, disabled, bodies>>

HealthChanges ==
    /\ changes < MaxFaults /\ changes' = changes + 1
    /\ \E f \in Faults : faults' = (faults \ {f}) \cup ({f} \ faults)
    /\ UNCHANGED <<now, phase, readyAt, terminating, thread, disabled, bodies>>

Advance ==
    /\ sched = "Terminated" \/ (step = "poll" /\ Due = {} /\ chan = <<>>)
    /\ now < MaxTime /\ now' = now + 1
    /\ UNCHANGED <<phase, readyAt, terminating, faults, changes, thread, disabled, bodies>>

Scheduler ==
    \/ ExecuteOneTask \/ Terminate \/ ReceiveTask \/ Sleep
    \/ HeavyCronTick \/ HeavyRetry \/ LightTick
    \/ Compare \/ DefaultOk \/ Panicked

Worker(w) == Dequeue(w) \/ try_heavy_gate(w)
Body(r) == HeavyCronFlag(r) \/ EndBody(r) \/ DropFlag(r) \/ DropLock(r)

Next ==
    \/ Scheduler
    \/ \E w \in Workers : Worker(w)
    \/ \E c \in Callers : tool_trigger_cron(c)
    \/ \E r \in Runners : Body(r)
    \/ BecomeReady \/ SignalShutdown \/ BeginShutdown \/ HealthChanges \/ Advance

\* The scheduler thread runs; nothing is assumed of the pool's workers, of the
\* operator, of the health of the host, or of how long a body takes.
Fairness == WF_vars(Scheduler)

Spec == Init /\ [][Next]_vars /\ Fairness
-----------------------------------------------------------------------------
(* Properties *)

Times == 0..(MaxTime + RetryDelay + Slack + Max(Range(Interval) \cup Range(Stagger)
                                              \cup Range(Cooldown) \cup {0}))
Tasks == [job : Jobs, once : BOOLEAN, at : Times, left : 0..MaxRetries]

\* Every variable keeps its type (cron/scheduler.rs).
TypeOK ==
    /\ now \in Start..MaxTime /\ readyAt \in Start..now
    /\ phase \in {"starting", "ready", "stopping"}
    /\ terminating \in BOOLEAN /\ faults \subseteq Faults /\ changes \in 0..MaxFaults
    /\ sched \in {"CheckEvents", "DrainChannel", "Sleeping", "Terminated"}
    /\ BagToSet(queue) \subseteq Tasks /\ Range(chan) \subseteq Tasks /\ task \in Tasks \cup {NoTask}
    /\ step \in {"poll", "closure", "settle", "default", "panicked"}
    /\ requeue \in BOOLEAN /\ silent \in BOOLEAN /\ gone \subseteq Jobs
    /\ disabled \subseteq Heavy
    /\ Range(pool) \subseteq Heavy /\ job \in [Runners -> Heavy]
    /\ pc \in [Runners -> {"idle", "gate", "locked", "body", "ended", "unflagged"}]
    /\ lock \subseteq Locks /\ running \in BOOLEAN

\* How many tasks of job j, recurring or one-shot, wait for the scheduler.
Waiting(j, once) ==
    LET mine(t) == t.job = j /\ t.once = once
    IN  MapThenSumSet(LAMBDA t : queue[t], {t \in BagToSet(queue) : mine(t)})
        + Len(SelectSeq(chan, mine))

Executing(j) == step # "poll" /\ task.job = j /\ ~task.once

\* A recurring job is scheduled exactly once, wherever its task is, until its
\* closure asks to be dropped or panics: never lost, never doubled, however
\* its ticks are skipped, deferred or disabled (execute_inline,
\* heavy_cron_tick).
TickScheduledOnce ==
    \A j \in Jobs :
        Waiting(j, FALSE) = IF j \in gone \/ Executing(j) THEN 0 ELSE 1

\* Deferred runs do not pile up timers (schedule_heavy_retry).  A tick starts
\* at most one chain of retries, and ticks are a unit apart.  A chain begun
\* under memory pressure waits for MaxRetries + 1 delays at most; the chains
\* that the settle window collects, at most one per unit of it, all begin at
\* its end, and the last of them is over MaxRetries delays later.
RetriesBounded ==
    \A j \in Heavy :
        Waiting(j, TRUE) <= MaxRetries * RetryDelay + 1 + Max({RetryDelay, Cooldown[j] + Slack})

Inside(r) == pc[r] \in {"body", "ended"}

\* Heavy bodies that take the same lock, scheduled or triggered by hand, do
\* not overlap, and the heavy_cron_running gauge is never left up when no body
\* runs, whichever of them raised and dropped it last (try_heavy_gate,
\* HeavyCronFlag, tool_trigger_cron).
HeavyBodiesApart ==
    /\ \A r, s \in Runners : Inside(r) /\ Inside(s) /\ LockFor(r) = LockFor(s) => r = s
    /\ running => \E r \in Runners : Inside(r)

\* pgmcp_heavy_cron_running is "1 if a heavy cron body is currently executing"
\* (stats/metrics.rs).  Not so: a body that ends drops the gauge also for a
\* body that runs under another lock.
GaugeShowsBodies == (\E r \in Runners : Inside(r)) => running

\* The gate of a heavy job "runs in a pool task that records AFTER this
\* returns" (execute_inline): when the scheduler writes its default Ok, no
\* outcome of the tick has been recorded.  Not so: the pool task may record
\* its skip between the comparison of the stamps and the write.
DefaultSparesSkips == step = "default" => silent

\* Once shutdown is signalled the scheduler thread terminates, although it
\* serves due tasks first (poll_event).
SchedulerStops == terminating ~> sched = "Terminated"
=============================================================================
