---------------------------- MODULE CronProofs ----------------------------
(***************************************************************************)
(* For any number of jobs, locks, workers and trigger_cron calls: heavy    *)
(* bodies under one lock exclude each other, the heavy_cron_running gauge  *)
(* is never left up, and while no body runs under a lock of its own it is  *)
(* never down early.                                                       *)
(***************************************************************************)
EXTENDS Cron, TLAPS

\* Who has passed try_lock and not yet dropped the guard.
Holds(r) == pc[r] \in {"locked", "body", "ended", "unflagged"}

RunnerPc == {"idle", "gate", "locked", "body", "ended", "unflagged"}

\* A mutex does not say who holds it: that it is taken for as long as somebody
\* does, and by one runner, is what has to be shown.
LockInv ==
  /\ pc \in [Runners -> RunnerPc]
  /\ job = [r \in Runners |-> job[r]]
  /\ \A r \in Runners : Holds(r) => LockFor(r) \in lock
  /\ \A r, s \in Runners : Holds(r) /\ Holds(s) /\ LockFor(r) = LockFor(s) => r = s

\* The daemon starts with every lock free.
LEMMA LockInit == Init => LockInv
BY DEF Init, LockInv, RunnerPc, Holds

\* A step of one runner that takes a free lock, keeps its own or hands it back
\* keeps the invariant (try_lock, the guard, its drop).
LEMMA RunnerStep ==
  ASSUME LockInv, NEW r \in Runners, NEW to \in RunnerPc,
         pc' = [pc EXCEPT ![r] = to],
         job' = [s \in Runners |-> job'[s]],
         \A s \in Runners : s # r => LockFor(s)' = LockFor(s),
         \/ ~Holds(r) /\ to \in {"idle", "gate"} /\ lock' = lock
         \/ ~Holds(r) /\ LockFor(r)' \notin lock /\ lock' = lock \cup {LockFor(r)'}
         \/ Holds(r) /\ LockFor(r)' = LockFor(r) /\ lock' = lock
         \/ Holds(r) /\ to = "idle" /\ lock' = lock \ {LockFor(r)}
  PROVE  LockInv'
<1>1. /\ pc'[r] = to
      /\ \A s \in Runners : s # r => pc'[s] = pc[s]
      /\ pc' \in [Runners -> RunnerPc]
  BY DEF LockInv
<1>2. \A s \in Runners : s # r => (Holds(s)' <=> Holds(s))
  BY <1>1 DEF Holds
<1>3. /\ \A s \in Runners : Holds(s)' => LockFor(s)' \in lock'
      /\ \A s, t \in Runners : Holds(s)' /\ Holds(t)' /\ LockFor(s)' = LockFor(t)' => s = t
  <2>1. CASE ~Holds(r) /\ to \in {"idle", "gate"} /\ lock' = lock
    BY <1>1, <1>2, <2>1 DEF LockInv, Holds
  <2>2. CASE ~Holds(r) /\ LockFor(r)' \notin lock /\ lock' = lock \cup {LockFor(r)'}
    BY <1>1, <1>2, <2>2 DEF LockInv
  <2>3. CASE Holds(r) /\ LockFor(r)' = LockFor(r) /\ lock' = lock
    BY <1>1, <1>2, <2>3 DEF LockInv
  <2>4. CASE Holds(r) /\ to = "idle" /\ lock' = lock \ {LockFor(r)}
    <3>1. ~Holds(r)'
      BY <1>1, <2>4 DEF Holds
    <3> QED BY <1>2, <2>4, <3>1 DEF LockInv
  <2> QED BY <2>1, <2>2, <2>3, <2>4
<1> QED BY <1>1, <1>3 DEF LockInv

\* Every step of the daemon keeps the invariant.
LEMMA LockNext == LockInv /\ [Next]_vars => LockInv'
<1> SUFFICES ASSUME LockInv, [Next]_vars PROVE LockInv'
  OBVIOUS
<1> DEFINE still == pc' = pc /\ job' = job /\ lock' = lock
<1>1. ASSUME still PROVE LockInv'
  BY <1>1 DEF LockInv, Holds, LockFor
<1>2. CASE Scheduler
  <2>1. still
    BY Zenon, <1>2 DEF Scheduler, ExecuteOneTask, Terminate, ReceiveTask, Sleep,
         HeavyCronTick, HeavyRetry, LightTick, Compare, DefaultOk, Panicked, bodies
  <2> QED BY <1>1, <2>1
<1>3. ASSUME NEW w \in Workers, Worker(w) PROVE LockInv'
  <2>1. w \in Runners
    BY DEF Runners
  <2>2. CASE Dequeue(w)
    <3>1. /\ pc' = [pc EXCEPT ![w] = "gate"] /\ ~Holds(w)
          /\ lock' = lock /\ job' = [job EXCEPT ![w] = Head(pool)]
      BY <2>2 DEF Dequeue, Holds
    <3>2. /\ job' = [s \in Runners |-> job'[s]]
          /\ \A s \in Runners : s # w => job'[s] = job[s]
      BY <3>1 DEF LockInv
    <3> QED BY Zenon, <2>1, <3>1, <3>2, RunnerStep DEF LockFor, RunnerPc
  <2>3. CASE try_heavy_gate(w)
    <3>1. ~Holds(w) /\ job' = job
      BY <2>3 DEF try_heavy_gate, Holds
    <3>2. job' = [s \in Runners |-> job'[s]] /\ \A s \in Runners : LockFor(s)' = LockFor(s)
      BY <3>1 DEF LockInv, LockFor
    <3>3. CASE /\ LockFor(w) \notin lock /\ lock' = lock \cup {LockFor(w)}
               /\ pc' = [pc EXCEPT ![w] = "locked"]
      BY Zenon, <2>1, <3>1, <3>2, <3>3, RunnerStep DEF RunnerPc
    <3>4. CASE lock' = lock /\ pc' = [pc EXCEPT ![w] = "idle"]
      BY Zenon, <2>1, <3>1, <3>2, <3>4, RunnerStep DEF RunnerPc
    <3> QED BY <2>3, <3>3, <3>4 DEF try_heavy_gate
  <2> QED BY <1>3, <2>2, <2>3 DEF Worker
<1>4. ASSUME NEW c \in Callers, tool_trigger_cron(c) PROVE LockInv'
  <2>1. PICK j \in Manual : job' = [job EXCEPT ![c] = j]
    BY Zenon, <1>4 DEF tool_trigger_cron
  <2>2. /\ c \in Runners /\ LockFor(c)' = Shared /\ Shared \notin lock
        /\ lock' = lock \cup {Shared} /\ pc' = [pc EXCEPT ![c] = "locked"] /\ ~Holds(c)
    BY <1>4 DEF Runners, LockFor, Holds, tool_trigger_cron
  <2>3. /\ job' = [s \in Runners |-> job'[s]]
        /\ \A s \in Runners : s # c => LockFor(s)' = LockFor(s)
    BY <2>1 DEF LockInv, LockFor
  <2> QED BY Zenon, <2>2, <2>3, RunnerStep DEF RunnerPc
<1>5. ASSUME NEW r \in Runners, Body(r) PROVE LockInv'
  <2>1. job' = job
    BY <1>5 DEF Body, HeavyCronFlag, EndBody, DropFlag, DropLock
  <2>2. job' = [s \in Runners |-> job'[s]] /\ \A s \in Runners : LockFor(s)' = LockFor(s)
    BY <2>1 DEF LockInv, LockFor
  <2>3. CASE HeavyCronFlag(r)
    BY Zenon, <2>2, <2>3, RunnerStep DEF HeavyCronFlag, RunnerPc, Holds
  <2>4. CASE EndBody(r)
    BY Zenon, <2>2, <2>4, RunnerStep DEF EndBody, RunnerPc, Holds
  <2>5. CASE DropFlag(r)
    BY Zenon, <2>2, <2>5, RunnerStep DEF DropFlag, RunnerPc, Holds
  <2>6. CASE DropLock(r)
    BY Zenon, <2>2, <2>6, RunnerStep DEF DropLock, RunnerPc, Holds
  <2> QED BY <1>5, <2>3, <2>4, <2>5, <2>6 DEF Body
<1>6. CASE BecomeReady \/ SignalShutdown \/ BeginShutdown \/ HealthChanges \/ Advance
           \/ UNCHANGED vars
  <2>1. still
    BY <1>6 DEF BecomeReady, SignalShutdown, BeginShutdown, HealthChanges, Advance,
         vars, bodies
  <2> QED BY <1>1, <2>1
<1> QED BY <1>2, <1>3, <1>4, <1>5, <1>6 DEF Next

\* Every reachable state of the daemon satisfies the invariant.
LEMMA LockAlways == Spec => []LockInv
BY LockInit, LockNext, PTL DEF Spec

-----------------------------------------------------------------------------
(* The gauge *)

\* Only HeavyCronFlag and its drop move the gauge, and only they begin and end
\* the stay in a body.
LEMMA GaugeMoves ==
  ASSUME LockInv, [Next]_vars
  PROVE  \/ \E r \in Runners : HeavyCronFlag(r) \/ DropFlag(r)
         \/ running' = running /\ \A r \in Runners : Inside(r)' <=> Inside(r)
<1> DEFINE still == running' = running /\ \A r \in Runners : Inside(r)' <=> Inside(r)
<1>1. ASSUME running' = running, pc' = pc PROVE still
  BY <1>1 DEF Inside
<1>2. ASSUME NEW r \in Runners, NEW to \in RunnerPc, pc' = [pc EXCEPT ![r] = to],
             to \in {"body", "ended"} <=> Inside(r), running' = running
      PROVE  still
  <2>1. pc'[r] = to /\ \A s \in Runners : s # r => pc'[s] = pc[s]
    BY <1>2 DEF LockInv
  <2>2. \A s \in Runners : Inside(s)' <=> Inside(s)
    BY <1>2, <2>1 DEF Inside
  <2> QED BY <1>2, <2>2
<1>3. ASSUME Scheduler PROVE still
  <2>1. running' = running /\ pc' = pc
    BY Zenon, <1>3 DEF Scheduler, ExecuteOneTask, Terminate, ReceiveTask, Sleep,
         HeavyCronTick, HeavyRetry, LightTick, Compare, DefaultOk, Panicked, bodies
  <2> QED BY <1>1, <2>1
<1>4. ASSUME NEW w \in Workers, Worker(w) PROVE still
  <2>1. w \in Runners /\ running' = running /\ ~Inside(w)
    BY <1>4 DEF Runners, Worker, Dequeue, try_heavy_gate, Inside
  <2>2. \E to \in {"idle", "gate", "locked"} : pc' = [pc EXCEPT ![w] = to]
    BY <1>4 DEF Worker, Dequeue, try_heavy_gate
  <2> QED BY Zenon, <1>2, <2>1, <2>2 DEF RunnerPc
<1>5. ASSUME NEW c \in Callers, tool_trigger_cron(c) PROVE still
  <2>1. /\ c \in Runners /\ running' = running /\ ~Inside(c)
        /\ pc' = [pc EXCEPT ![c] = "locked"]
    BY <1>5 DEF Runners, tool_trigger_cron, Inside
  <2> QED BY Zenon, <1>2, <2>1 DEF RunnerPc
<1>6. ASSUME NEW r \in Runners, EndBody(r) PROVE still
  <2>1. pc' = [pc EXCEPT ![r] = "ended"] /\ Inside(r) /\ running' = running
    BY <1>6 DEF EndBody, Inside
  <2> QED BY Zenon, <1>2, <2>1 DEF RunnerPc
<1>7. ASSUME NEW r \in Runners, DropLock(r) PROVE still
  <2>1. pc' = [pc EXCEPT ![r] = "idle"] /\ ~Inside(r) /\ running' = running
    BY <1>7 DEF DropLock, Inside
  <2> QED BY Zenon, <1>2, <2>1 DEF RunnerPc
<1>8. ASSUME BecomeReady \/ SignalShutdown \/ BeginShutdown \/ HealthChanges \/ Advance
             \/ UNCHANGED vars
      PROVE  still
  <2>1. running' = running /\ pc' = pc
    BY <1>8 DEF BecomeReady, SignalShutdown, BeginShutdown, HealthChanges, Advance,
         vars, bodies
  <2> QED BY <1>1, <2>1
<1> HIDE DEF still
<1>9. still \/ \E r \in Runners : HeavyCronFlag(r) \/ DropFlag(r)
  BY Zenon, <1>3, <1>4, <1>5, <1>6, <1>7, <1>8 DEF Next, Body
<1> QED BY <1>9 DEF still

\* The gauge is up only while a body runs.
GaugeUpInside == running => \E r \in Runners : Inside(r)

\* For every set of jobs, workers and callers and every assignment of locks,
\* heavy bodies under the same lock exclude each other, and heavy_cron_running
\* is never left up (try_heavy_gate, HeavyCronFlag, tool_trigger_cron).
THEOREM HeavyBodiesExclude == Spec => []HeavyBodiesApart
<1>1. Init => GaugeUpInside
  BY DEF Init, GaugeUpInside
<1>2. LockInv /\ GaugeUpInside /\ [Next]_vars => GaugeUpInside'
  <2> SUFFICES ASSUME LockInv, GaugeUpInside, [Next]_vars PROVE GaugeUpInside'
    OBVIOUS
  <2>1. ASSUME NEW r \in Runners, HeavyCronFlag(r) PROVE GaugeUpInside'
    <3>1. Inside(r)'
      BY <2>1 DEF HeavyCronFlag, Inside, LockInv
    <3> QED BY <3>1 DEF GaugeUpInside
  <2>2. ASSUME NEW r \in Runners, DropFlag(r) PROVE GaugeUpInside'
    BY <2>2 DEF DropFlag, GaugeUpInside
  <2>3. ASSUME running' = running, \A r \in Runners : Inside(r)' <=> Inside(r)
        PROVE  GaugeUpInside'
    BY <2>3 DEF GaugeUpInside
  <2> QED BY <2>1, <2>2, <2>3, GaugeMoves
<1>3. LockInv /\ GaugeUpInside => HeavyBodiesApart
  BY DEF LockInv, GaugeUpInside, HeavyBodiesApart, Holds, Inside
<1> QED BY <1>1, <1>2, <1>3, LockAlways, PTL DEF Spec

\* Every body that runs, runs under heavy_cron_lock.
OnlySharedBodies == \A r \in Runners : Inside(r) => LockFor(r) = Shared

\* As long as no job with a lock of its own runs its body,
\* pgmcp_heavy_cron_running is "1 if a heavy cron body is currently executing":
\* the separate locks are the only cause of the gauge's error.
THEOREM GaugeTrueUnderOneLock == Spec /\ []OnlySharedBodies => []GaugeShowsBodies
<1>1. Init => GaugeShowsBodies
  BY DEF Init, GaugeShowsBodies, Inside
<1>2. LockInv /\ OnlySharedBodies /\ GaugeShowsBodies /\ [Next]_vars => GaugeShowsBodies'
  <2> SUFFICES ASSUME LockInv, OnlySharedBodies, GaugeShowsBodies, [Next]_vars
               PROVE  GaugeShowsBodies'
    OBVIOUS
  <2>1. ASSUME NEW r \in Runners, HeavyCronFlag(r) PROVE GaugeShowsBodies'
    BY <2>1 DEF HeavyCronFlag, GaugeShowsBodies
  <2>2. ASSUME NEW r \in Runners, DropFlag(r) PROVE GaugeShowsBodies'
    <3>1. \A s \in Runners : Inside(s) => s = r
      BY <2>2 DEF DropFlag, OnlySharedBodies, LockInv, Holds, Inside
    <3>2. pc'[r] = "unflagged" /\ \A s \in Runners : s # r => pc'[s] = pc[s]
      BY <2>2 DEF DropFlag, LockInv
    <3> QED BY <3>1, <3>2 DEF GaugeShowsBodies, Inside
  <2>3. ASSUME running' = running, \A r \in Runners : Inside(r)' <=> Inside(r)
        PROVE  GaugeShowsBodies'
    BY <2>3 DEF GaugeShowsBodies
  <2> QED BY <2>1, <2>2, <2>3, GaugeMoves
<1> QED BY <1>1, <1>2, LockAlways, PTL DEF Spec
=============================================================================
