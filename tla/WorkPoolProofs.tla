--------------------------- MODULE WorkPoolProofs ---------------------------
(***************************************************************************)
(* Proofs about the work pool, for every pool size, every number of        *)
(* submitters and every set of tasks.                                      *)
(***************************************************************************)
EXTENDS WorkPool, FiniteSetTheorems, TLAPS

USE DEF channels, workers, submitters, monitor, downer

-----------------------------------------------------------------------------
(* The hill climber *)

\* The initial worker count the pool is built with lies between its bounds.
LEMMA ClampInRange ==
  ASSUME NEW n \in Nat
  PROVE  Clamp(n) \in MinThreads..MaxThreads
BY ThreadBounds DEF Clamp, AtMost, AtLeast

\* A climber as constructed for a pool is well formed.
LEMMA NewClimberType ==
  ASSUME NEW n \in MinThreads..MaxThreads
  PROVE  NewClimber(n) \in Climber
BY ThreadBounds DEF NewClimber, Climber, StepCap, AtLeast

\* HillClimber::apply_direction moves the estimate by exactly the count it
\* asks the pool to wake or park, and never out of bounds.
LEMMA ApplyDirectionMoves ==
  ASSUME NEW c \in Climber
  PROVE  LET d == ApplyDirection(c) IN
         /\ d.climber \in Climber
         /\ d.action \in {"Hold", "Unpark", "Park"}
         /\ d.count \in Nat
         /\ d.action = "Hold" =>
              d.climber.current_active = c.current_active
         /\ d.action = "Unpark" =>
              d.climber.current_active = c.current_active + d.count
         /\ d.action = "Park" =>
              d.climber.current_active = c.current_active - d.count
<1> DEFINE up   == AtMost(c.current_active + c.step_size, MaxThreads)
           down == AtLeast(c.current_active - c.step_size, MinThreads)
<1>1. /\ c.current_active \in MinThreads..MaxThreads
      /\ c.step_size \in Nat \ {0}
      /\ c.direction \in {1, -1}
  BY ThreadBounds DEF Climber, StepCap, AtLeast
<1>2. /\ up \in MinThreads..MaxThreads /\ up >= c.current_active
      /\ down \in MinThreads..MaxThreads /\ down <= c.current_active
  BY <1>1, ThreadBounds DEF AtMost, AtLeast
<1> HIDE DEF up, down
<1>3. ASSUME NEW new \in MinThreads..MaxThreads, NEW a, NEW k
      PROVE  LET d == Rescale(c, new, a, k)
             IN  /\ d.climber \in Climber
                 /\ d.climber.current_active = new
                 /\ d.action = a
                 /\ d.count = k
  <2>1. CooldownPeriod \in 0..CooldownPeriod
    BY ThreadBounds
  <2>2. [c EXCEPT !.current_active = new] \in Climber
    BY Zenon DEF Climber
  <2> QED BY Zenon, <2>1, <2>2 DEF Climber, Rescale
<1>4. CASE c.direction > 0 /\ up # c.current_active
  <2>1. ApplyDirection(c) = Rescale(c, up, "Unpark", up - c.current_active)
    BY Zenon, <1>4 DEF ApplyDirection, up
  <2>2. up - c.current_active \in Nat
    BY <1>1, <1>2, ThreadBounds
  <2> QED BY <2>1, <2>2, <1>1, <1>2, <1>3, ThreadBounds
<1>5. CASE ~(c.direction > 0) /\ down # c.current_active
  <2>1. ApplyDirection(c) = Rescale(c, down, "Park", c.current_active - down)
    BY Zenon, <1>5 DEF ApplyDirection, down
  <2>2. c.current_active - down \in Nat
    BY <1>1, <1>2, ThreadBounds
  <2> QED BY <2>1, <2>2, <1>1, <1>2, <1>3, ThreadBounds
<1>6. CASE \/ c.direction > 0 /\ up = c.current_active
           \/ ~(c.direction > 0) /\ down = c.current_active
  <2>1. ApplyDirection(c) = Hold(c)
    BY Zenon, <1>6 DEF ApplyDirection, up, down
  <2> QED BY <2>1 DEF Hold
<1> QED BY Zenon, <1>4, <1>5, <1>6

\* The same for a whole HillClimber::step, whatever the observation.
LEMMA StepMoves ==
  ASSUME NEW c \in Climber, NEW trend \in Trend
  PROVE  LET d == Step(c, trend) IN
         /\ d.climber \in Climber
         /\ d.action \in {"Hold", "Unpark", "Park"}
         /\ d.count \in Nat
         /\ d.action = "Hold" =>
              d.climber.current_active = c.current_active
         /\ d.action = "Unpark" =>
              d.climber.current_active = c.current_active + d.count
         /\ d.action = "Park" =>
              d.climber.current_active = c.current_active - d.count
<1> DEFINE faster == [c EXCEPT !.step_size = AtMost(2 * @, StepCap)]
           turned == [c EXCEPT !.direction = -@, !.step_size = 1]
<1>1. /\ [c EXCEPT !.initialized = TRUE] \in Climber
      /\ [c EXCEPT !.initialized = TRUE].current_active = c.current_active
  BY Zenon DEF Climber
<1>2. c.cooldown_remaining > 0 =>
        /\ [c EXCEPT !.cooldown_remaining = @ - 1] \in Climber
        /\ [c EXCEPT !.cooldown_remaining = @ - 1].current_active
             = c.current_active
  BY ThreadBounds DEF Climber
<1>3. faster \in Climber /\ faster.current_active = c.current_active
  BY ThreadBounds DEF Climber, AtMost, AtLeast, StepCap
<1>4. turned \in Climber /\ turned.current_active = c.current_active
  <2>1. 1 \in 1..StepCap /\ -c.direction \in {1, -1}
    BY ThreadBounds DEF Climber, AtLeast, StepCap
  <2>2. [c EXCEPT !.direction = -@] \in Climber
    BY Zenon, <2>1 DEF Climber
  <2> QED BY Zenon, <2>1, <2>2 DEF Climber
<1>5. CASE ~c.initialized
  BY Zenon, <1>1, <1>5 DEF Step, Hold
<1>6. CASE c.initialized /\ c.cooldown_remaining > 0
  BY Zenon, <1>2, <1>6 DEF Step, Hold
<1>7. CASE c.initialized /\ ~(c.cooldown_remaining > 0) /\ trend = "better"
  <2>1. Step(c, trend) = ApplyDirection(faster)
    BY Zenon, <1>7 DEF Step
  <2> QED BY Zenon, <2>1, <1>3, ApplyDirectionMoves
<1>8. CASE c.initialized /\ ~(c.cooldown_remaining > 0) /\ trend = "worse"
  <2>1. Step(c, trend) = ApplyDirection(turned)
    BY Zenon, <1>8 DEF Step
  <2> QED BY Zenon, <2>1, <1>4, ApplyDirectionMoves
<1>9. CASE c.initialized /\ ~(c.cooldown_remaining > 0) /\ trend = "flat"
  BY Zenon, <1>9 DEF Step, Hold
<1> QED BY Zenon, <1>5, <1>6, <1>7, <1>8, <1>9 DEF Trend, Climber

-----------------------------------------------------------------------------
(* Type correctness *)

\* TypeOK and FloorInv together are inductive: the counter stays a natural
\* number because park_n's test keeps it above min_threads >= 1.
LEMMA TypeAndFloorInductive == Spec => [](TypeOK /\ FloorInv)
<1>1. Init => TypeOK /\ FloorInv
  <2> SUFFICES ASSUME Init PROVE TypeOK /\ FloorInv
    BY Zenon
  <2>1. Clamp(InitialActive) \in MinThreads..MaxThreads
    BY Zenon, ClampInRange, PoolConstants
  <2>2. climber \in Climber
    BY Zenon, <2>1, NewClimberType DEF Init
  <2>3. wpc \in [Worker -> WorkerPc] /\ mpc \in MonPc
    BY Zenon DEF Init, WorkerPc, MonPc
  <2>4. /\ spc \in [Submitters -> SubmitPc]
        /\ scur \in [Submitters -> 1..(MaxThreads + 1)]
        /\ dcur \in 1..(MaxThreads + 1) /\ mcur \in 0..(MaxThreads + 1)
        /\ active_count \in Nat
    BY <2>1, ThreadBounds DEF Init, SubmitPc
  <2>5. /\ wtask \in [Worker -> Tasks \cup {NoTask}]
        /\ \A w \in Worker : wpc[w] = "run" <=> wtask[w] \in Tasks
        /\ parked \in [Worker -> BOOLEAN]
    BY <2>1, PoolConstants, ThreadBounds DEF Init, Worker
  <2>6. /\ high \in Seq(Tasks) /\ low \in Seq(Tasks)
        /\ runs \in [Tasks -> Nat]
    BY DEF Init
  <2>7. FloorInv
    BY <2>1, ThreadBounds DEF Init, FloorInv, CounterFloor
  <2> QED
    BY Zenon, <2>1, <2>2, <2>3, <2>4, <2>5, <2>6, <2>7
    DEF Init, TypeOK, DownPc
<1>2. TypeOK /\ FloorInv /\ [Next]_vars => TypeOK' /\ FloorInv'
  <2> SUFFICES ASSUME TypeOK, FloorInv, [Next]_vars PROVE TypeOK' /\ FloorInv'
    BY Zenon
  <2> USE ThreadBounds, PoolConstants
  <2>1. ASSUME NEW w \in Worker, WaitIfParked(w) PROVE TypeOK' /\ FloorInv'
    BY Zenon, <2>1
    DEF WaitIfParked, WGoto, TypeOK, WorkerPc, FloorInv, CounterFloor
  <2>2. ASSUME NEW w \in Worker, CheckShutdown(w) PROVE TypeOK' /\ FloorInv'
    BY Zenon, <2>2
    DEF CheckShutdown, WGoto, TypeOK, WorkerPc, FloorInv, CounterFloor
  <2>3. ASSUME NEW w \in Worker, TryRecvHigh(w) PROVE TypeOK' /\ FloorInv'
    <3> USE <2>3
    <3>1. CASE high = << >>
      BY Zenon, <3>1 DEF TryRecvHigh, WGoto, TypeOK, WorkerPc, FloorInv, CounterFloor
    <3>2. CASE high # << >>
      <4>1. Head(high) \in Tasks /\ Tail(high) \in Seq(Tasks)
        BY <3>2 DEF TypeOK
      <4>2. /\ high' = Tail(high)
            /\ wpc' = [wpc EXCEPT ![w] = "run"] /\ wtask' = [wtask EXCEPT ![w] = Head(high)]
        BY Zenon, <3>2 DEF TryRecvHigh, WGoto, Take
      <4>3. /\ wpc' \in [Worker -> WorkerPc] /\ wtask' \in [Worker -> Tasks \cup {NoTask}]
            /\ \A v \in Worker : wpc'[v] = "run" <=> wtask'[v] \in Tasks
        BY Zenon, <4>1, <4>2 DEF TypeOK, WorkerPc
      <4> QED
        BY Zenon, <3>2, <4>1, <4>2, <4>3 DEF TryRecvHigh, TypeOK, FloorInv, CounterFloor
    <3> QED BY Zenon, <3>1, <3>2
  <2>4. ASSUME NEW w \in Worker, TryRecvLow(w) PROVE TypeOK' /\ FloorInv'
    <3> USE <2>4
    <3>1. CASE low = << >>
      BY Zenon, <3>1 DEF TryRecvLow, WGoto, TypeOK, WorkerPc, FloorInv, CounterFloor
    <3>2. CASE low # << >>
      <4>1. Head(low) \in Tasks /\ Tail(low) \in Seq(Tasks)
        BY <3>2 DEF TypeOK
      <4>2. /\ low' = Tail(low)
            /\ wpc' = [wpc EXCEPT ![w] = "run"] /\ wtask' = [wtask EXCEPT ![w] = Head(low)]
        BY Zenon, <3>2 DEF TryRecvLow, WGoto, Take
      <4>3. /\ wpc' \in [Worker -> WorkerPc] /\ wtask' \in [Worker -> Tasks \cup {NoTask}]
            /\ \A v \in Worker : wpc'[v] = "run" <=> wtask'[v] \in Tasks
        BY Zenon, <4>1, <4>2 DEF TypeOK, WorkerPc
      <4> QED
        BY Zenon, <3>2, <4>1, <4>2, <4>3 DEF TryRecvLow, TypeOK, FloorInv, CounterFloor
    <3> QED BY Zenon, <3>1, <3>2
  <2>5. ASSUME NEW w \in Worker, CheckShutdownIdle(w) PROVE TypeOK' /\ FloorInv'
    BY Zenon, <2>5
    DEF CheckShutdownIdle, WGoto, TypeOK, WorkerPc, FloorInv, CounterFloor
  <2>6. ASSUME NEW w \in Worker, RecvHigh(w) PROVE TypeOK' /\ FloorInv'
    BY <2>6
    DEF RecvHigh, WGoto, Take, TypeOK, WorkerPc, FloorInv, CounterFloor
  <2>7. ASSUME NEW w \in Worker, RecvTimeout(w) PROVE TypeOK' /\ FloorInv'
    BY Zenon, <2>7
    DEF RecvTimeout, WGoto, TypeOK, WorkerPc, FloorInv, CounterFloor
  <2>8. ASSUME NEW w \in Worker, RunTask(w) PROVE TypeOK' /\ FloorInv'
    BY <2>8
    DEF RunTask, WGoto, Take, TypeOK, WorkerPc, FloorInv, CounterFloor
  <2>9. ASSUME NEW s \in Submitters, UnparkOneIsParked(s) PROVE TypeOK' /\ FloorInv'
    <3> USE <2>9
    <3>1. scur[s] \in 1..(MaxThreads + 1) /\ spc[s] = "scan"
      BY Zenon DEF UnparkOneIsParked, SGoto, TypeOK
    <3>2. spc' \in [Submitters -> SubmitPc]
      BY Zenon DEF UnparkOneIsParked, SGoto, TypeOK, SubmitPc
    <3>4. scur' \in [Submitters -> 1..(MaxThreads + 1)]
      <4>1. CASE scur' = scur
        BY Zenon, <4>1 DEF TypeOK
      <4>2. CASE /\ scur[s] <= MaxThreads
                 /\ scur' = [scur EXCEPT ![s] = @ + 1]
        <5>1. scur[s] + 1 \in 1..(MaxThreads + 1)
          BY <3>1, <4>2
        <5> QED BY Zenon, <4>2, <5>1 DEF TypeOK
      <4> QED BY Zenon, <4>1, <4>2 DEF UnparkOneIsParked
    <3>3. \A r \in Submitters : spc'[r] \in {"unpark", "add"} => scur'[r] \in Worker
      BY <3>1 DEF UnparkOneIsParked, SGoto, TypeOK, Worker
    <3> QED
      BY Zenon, <3>2, <3>3, <3>4 DEF UnparkOneIsParked, TypeOK, FloorInv, CounterFloor
  <2>10. ASSUME NEW s \in Submitters, UnparkOneUnpark(s) PROVE TypeOK' /\ FloorInv'
    BY Zenon, <2>10
    DEF UnparkOneUnpark, SGoto, TypeOK, SubmitPc, Worker, FloorInv, CounterFloor
  <2>11. ASSUME NEW s \in Submitters, UnparkOneAdd(s) PROVE TypeOK' /\ FloorInv'
    BY SMTT(40), <2>11
    DEF UnparkOneAdd, SGoto, TypeOK, SubmitPc, Worker, FloorInv, CounterFloor
  <2>12. ASSUME NEW s \in Submitters, NEW t \in Tasks, NEW p \in {"High", "Low"},
             Submit(s, t, p)
      PROVE TypeOK' /\ FloorInv'
    <3> USE <2>12
    <3>1. Append(high, t) \in Seq(Tasks) /\ Append(low, t) \in Seq(Tasks)
      BY DEF TypeOK
    <3>2. /\ high' \in Seq(Tasks) /\ low' \in Seq(Tasks)
          /\ submitted' \in SUBSET Tasks
      BY Zenon, <3>1 DEF Submit, TypeOK
    <3> QED
      BY SMTT(40), <3>2 DEF Submit, SGoto, TypeOK, SubmitPc, FloorInv, CounterFloor
  <2>13. CASE MonLoop
    BY Zenon, <2>13
    DEF MonLoop, TypeOK, MonPc, Worker, FloorInv, CounterFloor
  <2>14. ASSUME NEW trend \in Trend, MonTick(trend) PROVE TypeOK' /\ FloorInv'
    <3> USE <2>14
    <3>1. climber' \in Climber
      BY Zenon, StepMoves DEF MonTick, TypeOK
    <3>2. mn' \in Nat
      BY Zenon, StepMoves DEF MonTick, TypeOK
    <3>3. /\ mpc' \in {"done", "loop", "up", "down"} /\ mcount' \in Nat
          /\ mcur' \in 0..(MaxThreads + 1)
          /\ mpc' = "up" => mcur' = 1
          /\ mpc' = "down" => mcur' = MaxThreads
      BY DEF MonTick, TypeOK
    <3> QED
      BY <3>1, <3>2, <3>3 DEF MonTick, TypeOK, MonPc, FloorInv, CounterFloor
  <2>15. CASE UnparkNIsParked
    BY <2>15
    DEF UnparkNIsParked, TypeOK, MonPc, Worker, FloorInv, CounterFloor
  <2>16. CASE UnparkNUnpark
    BY <2>16
    DEF UnparkNUnpark, TypeOK, MonPc, Worker, FloorInv, CounterFloor
  <2>17. CASE UnparkNAdd
    BY <2>17
    DEF UnparkNAdd, TypeOK, MonPc, Worker, FloorInv, CounterFloor
  <2>18. CASE ParkNHead
    BY SMTT(40), <2>18
    DEF ParkNHead, TypeOK, MonPc, Worker, FloorInv, CounterFloor
  <2>19. CASE ParkNIsParked
    BY SMTT(40), <2>19
    DEF ParkNIsParked, TypeOK, MonPc, Worker, FloorInv, CounterFloor
  <2>20. CASE ParkNPark
    BY Zenon, <2>20
    DEF ParkNPark, TypeOK, MonPc, Worker, FloorInv, CounterFloor
  <2>21. CASE ParkNSub
    BY <2>21
    DEF ParkNSub, TypeOK, MonPc, Worker, FloorInv, CounterFloor
  <2>22. CASE SignalShutdown
    BY Zenon, <2>22
    DEF SignalShutdown, TypeOK, DownPc, Worker, FloorInv, CounterFloor
  <2>23. CASE Shutdown
    BY Zenon, <2>23
    DEF Shutdown, TypeOK, DownPc, Worker, FloorInv, CounterFloor
  <2>24. CASE ShutdownWake
    <3>1. parked' \in [Worker -> BOOLEAN]
      BY Zenon, <2>24 DEF ShutdownWake, TypeOK
    <3>2. dcur' \in 1..(MaxThreads + 1) /\ dpc' \in DownPc
      BY <2>24 DEF ShutdownWake, TypeOK, DownPc
    <3> QED
      BY Zenon, <2>24, <3>1, <3>2 DEF ShutdownWake, TypeOK, FloorInv, CounterFloor
  <2>25. CASE Join
    BY Zenon, <2>25
    DEF Join, TypeOK, DownPc, Worker, FloorInv, CounterFloor
  <2>26. CASE UNCHANGED vars
    BY Zenon, <2>26
    DEF vars, TypeOK, FloorInv, CounterFloor
  <2> QED
    BY ZenonT(40), <2>1, <2>2, <2>3, <2>4, <2>5, <2>6, <2>7, <2>8, <2>9, <2>10, <2>11, <2>12, <2>13, <2>14, <2>15, <2>16, <2>17, <2>18, <2>19, <2>20, <2>21, <2>22, <2>23, <2>24, <2>25, <2>26
    DEF Next, WorkerStep, SubmitterStep, MonStep, DownStep, Terminated
<1> QED BY <1>1, <1>2, PTL DEF Spec

\* The program counters, cursors, channels and counters keep their types;
\* in particular every index into worker_parks is in range.
THEOREM TypeCorrect == Spec => []TypeOK
BY TypeAndFloorInductive, PTL

\* park_n never takes active_count below min_threads, whatever submitters,
\* monitor and shutdown do in between its test and its fetch_sub.
THEOREM CounterNeverBelowMin == Spec => []CounterFloor
<1>1. FloorInv => CounterFloor
  BY Zenon DEF FloorInv
<1> QED BY <1>1, TypeAndFloorInductive, PTL

-----------------------------------------------------------------------------
(* How park and unpark change the number of unparked workers *)

\* There are max_threads workers, hence finitely many unparked ones.
LEMMA WorkersFinite ==
  /\ IsFiniteSet(Worker) /\ Cardinality(Worker) = MaxThreads
  /\ IsFiniteSet(Unparked) /\ Cardinality(Unparked) \in Nat
  /\ Unparked \subseteq Worker
<1>1. IsFiniteSet(Worker) /\ Cardinality(Worker) = MaxThreads
  BY FS_Interval, ThreadBounds DEF Worker
<1>2. Unparked \subseteq Worker
  BY Zenon DEF Unparked
<1>3. IsFiniteSet(Unparked)
  BY Zenon, <1>1, <1>2, FS_Subset
<1> QED BY Zenon, <1>1, <1>2, <1>3, FS_CardinalityType

\* WorkPool::new starts exactly the clamped number of workers unparked.
LEMMA InitiallyUnparked == Init => Cardinality(Unparked) = Clamp(InitialActive)
<1> SUFFICES ASSUME Init PROVE Cardinality(Unparked) = Clamp(InitialActive)
  BY Zenon
<1> DEFINE k == Clamp(InitialActive)
<1>1. parked = [w \in Worker |-> w > k]
  BY Zenon DEF Init
<1>2. k \in Nat /\ k <= MaxThreads
  BY ClampInRange, PoolConstants, ThreadBounds
<1> HIDE DEF k
<1>3. \A w \in Worker : parked[w] <=> w > k
  BY <1>1, Zenon
<1>4. Unparked = 1..k
  BY <1>2, <1>3, ThreadBounds DEF Unparked, Worker
<1>5. Cardinality(Unparked) = k
  BY <1>2, <1>4, FS_Interval
<1> QED BY Zenon, <1>5 DEF k

\* WorkerPark::unpark adds its worker to the unparked ones, so their number,
\* with or without any given worker, does not fall.
LEMMA UnparkGrows ==
  ASSUME TypeOK, NEW w \in Worker, parked' = [parked EXCEPT ![w] = FALSE]
  PROVE  /\ Unparked' = Unparked \cup {w}
         /\ IsFiniteSet(Unparked') /\ Cardinality(Unparked') \in Nat
         /\ Cardinality(Unparked') >= Cardinality(Unparked)
         /\ Cardinality(Unparked') <= Cardinality(Unparked) + 1
         /\ \A x : /\ Cardinality(Unparked \ {x}) \in Nat
                  /\ Cardinality(Unparked' \ {x}) \in Nat
                  /\ Cardinality(Unparked' \ {x}) >= Cardinality(Unparked \ {x})
         /\ Cardinality(Unparked') = Cardinality(Unparked \ {w}) + 1
<1>1. Unparked' = Unparked \cup {w}
  BY Zenon DEF Unparked, TypeOK
<1>2. IsFiniteSet(Unparked) /\ IsFiniteSet(Unparked')
  BY Zenon, <1>1, WorkersFinite, FS_AddElement
<1>3. \A x : IsFiniteSet(Unparked \ {x}) /\ IsFiniteSet(Unparked' \ {x})
  BY Zenon, <1>2, FS_RemoveElement
<1>4. \A x : Cardinality(Unparked' \ {x}) >= Cardinality(Unparked \ {x})
  <2> TAKE x
  <2>1. Unparked \ {x} \subseteq Unparked' \ {x}
    BY Zenon, <1>1
  <2> QED BY Zenon, <2>1, <1>3, FS_Subset, FS_CardinalityType
<1>5. Cardinality(Unparked') >= Cardinality(Unparked)
  BY Zenon, <1>1, <1>2, FS_Subset, FS_CardinalityType
<1>6. Cardinality(Unparked') <= Cardinality(Unparked) + 1
  BY <1>1, <1>2, FS_AddElement, FS_CardinalityType
<1>7. Cardinality(Unparked') = Cardinality(Unparked \ {w}) + 1
  <2>1. Unparked' = (Unparked \ {w}) \cup {w} /\ w \notin Unparked \ {w}
    BY Zenon, <1>1
  <2> QED BY Zenon, <2>1, <1>3, FS_AddElement
<1> QED BY Zenon, <1>1, <1>2, <1>3, <1>4, <1>5, <1>6, <1>7, FS_CardinalityType

\* WorkerPark::park of a worker that was not parked removes exactly it.
LEMMA ParkShrinks ==
  ASSUME TypeOK, NEW w \in Worker, parked' = [parked EXCEPT ![w] = TRUE]
  PROVE  /\ Unparked' = Unparked \ {w}
         /\ Cardinality(Unparked') \in Nat
         /\ Cardinality(Unparked') >= Cardinality(Unparked) - 1
         /\ ~parked[w] => Cardinality(Unparked') = Cardinality(Unparked) - 1
<1>1. Unparked' = Unparked \ {w}
  BY Zenon DEF Unparked, TypeOK
<1>2. w \in Unparked <=> ~parked[w]
  BY Zenon DEF Unparked
<1>3. IsFiniteSet(Unparked') /\ Cardinality(Unparked') \in Nat
  BY Zenon, <1>1, WorkersFinite, FS_RemoveElement, FS_CardinalityType
<1>4. CASE w \in Unparked
  <2>1. Cardinality(Unparked \ {w}) = Cardinality(Unparked) - 1
    BY Zenon, <1>4, WorkersFinite, FS_RemoveElement
  <2> QED BY <1>1, <1>3, <2>1, WorkersFinite
<1>5. CASE w \notin Unparked
  <2>1. Unparked' = Unparked
    BY Zenon, <1>1, <1>5
  <2> QED BY <1>1, <1>2, <1>3, <1>5, <2>1, WorkersFinite
<1> QED BY Zenon, <1>4, <1>5

-----------------------------------------------------------------------------
(* At least min_threads workers stay unparked *)

\* UnparkedCoverClimber is inductive: submitters and shutdown only unpark,
\* and the monitor's own scans keep the books with mn and mcount.
LEMMA CoverInductive == Spec => []UnparkedCoverClimber
<1> USE ThreadBounds, PoolConstants
<1>1. Init => UnparkedCoverClimber
  <2> SUFFICES ASSUME Init PROVE UnparkedCoverClimber
    BY Zenon
  <2>1. Clamp(InitialActive) \in MinThreads..MaxThreads
    BY Zenon, ClampInRange
  <2>2. Cardinality(Unparked) = Clamp(InitialActive)
    BY Zenon, InitiallyUnparked
  <2> QED BY <2>1, <2>2 DEF Init, UnparkedCoverClimber, NewClimber
<1>2. TypeOK /\ UnparkedCoverClimber /\ [Next]_vars => UnparkedCoverClimber'
  <2> SUFFICES ASSUME TypeOK, UnparkedCoverClimber, [Next]_vars
               PROVE  UnparkedCoverClimber'
    BY Zenon
  <2>1. CASE UNCHANGED <<parked, monitor>>
    BY Zenon, <2>1 DEF UnparkedCoverClimber, Unparked
  <2>2. ASSUME NEW w \in Worker, parked' = [parked EXCEPT ![w] = FALSE],
               UNCHANGED monitor
        PROVE  UnparkedCoverClimber'
    <3>1. \A v \in Worker : ~parked[v] => ~parked'[v]
      BY Zenon, <2>2 DEF TypeOK
    <3>2. \A v \in 1..(mcur - 1) : mpc \in {"up", "up_do"} => ~parked'[v]
      BY <2>2, <3>1 DEF TypeOK, UnparkedCoverClimber, Worker
    <3>3. /\ Cardinality(Unparked) \in Nat /\ Cardinality(Unparked') \in Nat
          /\ Cardinality(Unparked') >= Cardinality(Unparked)
          /\ Cardinality(Unparked \ {mcur}) \in Nat
          /\ Cardinality(Unparked' \ {mcur}) \in Nat
          /\ Cardinality(Unparked' \ {mcur}) >= Cardinality(Unparked \ {mcur})
      BY Zenon, <2>2, UnparkGrows, WorkersFinite
    <3>4. climber.current_active \in Nat /\ mn \in Nat /\ mcount \in Nat
      BY DEF TypeOK, Climber
    <3> QED BY <2>2, <3>2, <3>3, <3>4 DEF UnparkedCoverClimber
  <2>3. CASE MonLoop
    BY Zenon, <2>3 DEF MonLoop, UnparkedCoverClimber, Unparked
  <2>4. ASSUME NEW trend \in Trend, MonTick(trend) PROVE UnparkedCoverClimber'
    <3> DEFINE d == Step(climber, trend)
    <3>1. /\ d.climber \in Climber /\ d.count \in Nat
          /\ d.action = "Hold" =>
               d.climber.current_active = climber.current_active
          /\ d.action = "Unpark" =>
               d.climber.current_active = climber.current_active + d.count
          /\ d.action = "Park" =>
               d.climber.current_active = climber.current_active - d.count
      BY Zenon, StepMoves DEF TypeOK
    <3>2. /\ climber.current_active \in Nat
          /\ climber.current_active >= MinThreads
          /\ d.climber.current_active \in Nat
      BY SMTT(40), <3>1 DEF TypeOK, Climber
    <3>3. /\ Unparked' = Unparked /\ Cardinality(Unparked) \in Nat
          /\ Cardinality(Unparked) >= climber.current_active
      BY Zenon, <2>4, WorkersFinite DEF MonTick, Unparked, UnparkedCoverClimber
    <3> HIDE DEF d
    <3>4. CASE shutdown
      BY Zenon, <2>4, <3>3, <3>4 DEF MonTick, UnparkedCoverClimber
    <3>5. CASE ~shutdown /\ d.action = "Hold"
      BY Zenon, <2>4, <3>1, <3>3, <3>5 DEF MonTick, UnparkedCoverClimber, d
    <3>6. CASE ~shutdown /\ d.action = "Unpark"
      BY SMTT(40), <2>4, <3>1, <3>2, <3>3, <3>6 DEF MonTick, UnparkedCoverClimber, d
    <3>7. CASE ~shutdown /\ d.action = "Park"
      BY <2>4, <3>1, <3>2, <3>3, <3>7 DEF MonTick, UnparkedCoverClimber, d
    <3> QED BY Zenon, <2>4, <3>4, <3>5, <3>6, <3>7 DEF MonTick, d
  <2>5. CASE UnparkNIsParked
    <3>1. /\ Unparked' = Unparked /\ Cardinality(Unparked) \in Nat
          /\ climber' = climber /\ climber.current_active \in Nat
          /\ climber.current_active <= MaxThreads
      BY SMTT(40), <2>5, WorkersFinite DEF UnparkNIsParked, Unparked, TypeOK, Climber
    <3>2. CASE mcount >= mn
      BY SMTT(40), <2>5, <3>1, <3>2 DEF UnparkNIsParked, UnparkedCoverClimber, TypeOK
    <3>3. CASE mcount < mn /\ mcur > MaxThreads
      <4>1. Unparked = Worker
        BY <2>5, <3>3
        DEF UnparkNIsParked, UnparkedCoverClimber, TypeOK, Unparked, Worker
      <4> QED
        BY SMTT(40), <2>5, <3>1, <3>3, <4>1, WorkersFinite
        DEF UnparkNIsParked, UnparkedCoverClimber, TypeOK
    <3>4. CASE mcount < mn /\ mcur <= MaxThreads /\ parked[mcur]
      <4>1. Unparked \ {mcur} = Unparked
        BY Zenon, <3>4 DEF Unparked
      <4>2. /\ mpc' = "up_do" /\ parked' = parked /\ mpc = "up"
            /\ UNCHANGED <<mcur, mcount, mn>>
        BY <2>5, <3>4 DEF UnparkNIsParked, TypeOK
      <4> QED BY Zenon, <3>1, <3>4, <4>1, <4>2 DEF UnparkedCoverClimber
    <3>5. CASE mcount < mn /\ mcur <= MaxThreads /\ ~parked[mcur]
      <4>1. /\ mpc = "up" /\ parked' = parked /\ mcur' = mcur + 1
            /\ UNCHANGED <<mpc, mcount, mn>> /\ mcur \in Nat
        BY <2>5, <3>5 DEF UnparkNIsParked, TypeOK
      <4>2. \A w \in 1..(mcur' - 1) : ~parked'[w]
        BY <3>5, <4>1 DEF UnparkedCoverClimber
      <4> QED BY Zenon, <3>1, <4>1, <4>2 DEF UnparkedCoverClimber
    <3> QED BY <2>5, <3>2, <3>3, <3>4, <3>5 DEF UnparkNIsParked, TypeOK
  <2>6. CASE UnparkNUnpark
    <3>1. mcur \in Worker /\ parked' = [parked EXCEPT ![mcur] = FALSE]
      BY Zenon, <2>6 DEF UnparkNUnpark, TypeOK
    <3>2. /\ Cardinality(Unparked') = Cardinality(Unparked \ {mcur}) + 1
          /\ Cardinality(Unparked \ {mcur}) \in Nat
      BY Zenon, <3>1, UnparkGrows
    <3>3. \A w \in 1..mcur : ~parked'[w]
      BY <2>6, <3>1 DEF UnparkNUnpark, UnparkedCoverClimber, TypeOK, Worker
    <3>4. climber.current_active \in Nat
      BY DEF TypeOK, Climber
    <3> QED
      BY SMTT(40), <2>6, <3>2, <3>3, <3>4 DEF UnparkNUnpark, UnparkedCoverClimber, TypeOK
  <2>7. CASE UnparkNAdd
    BY Zenon, <2>7 DEF UnparkNAdd, UnparkedCoverClimber, Unparked
  <2>8. CASE ParkNHead
    <3>1. /\ Unparked' = Unparked /\ Cardinality(Unparked) \in Nat
          /\ climber' = climber /\ climber.current_active \in Nat
      BY SMTT(40), <2>8, WorkersFinite DEF ParkNHead, Unparked, TypeOK, Climber
    <3> QED BY <2>8, <3>1 DEF ParkNHead, UnparkedCoverClimber, TypeOK
  <2>9. CASE ParkNIsParked
    BY Zenon, <2>9 DEF ParkNIsParked, UnparkedCoverClimber, Unparked
  <2>10. CASE ParkNPark
    <3>1. mcur \in Worker /\ parked' = [parked EXCEPT ![mcur] = TRUE]
      BY Zenon, <2>10 DEF ParkNPark, TypeOK
    <3>2. /\ Cardinality(Unparked') >= Cardinality(Unparked) - 1
          /\ Cardinality(Unparked') \in Nat /\ Cardinality(Unparked) \in Nat
      BY Zenon, <3>1, ParkShrinks, WorkersFinite
    <3>3. climber.current_active \in Nat
      BY DEF TypeOK, Climber
    <3> QED BY <2>10, <3>2, <3>3 DEF ParkNPark, UnparkedCoverClimber, TypeOK
  <2>11. CASE ParkNSub
    <3>1. /\ Unparked' = Unparked /\ Cardinality(Unparked) \in Nat
          /\ climber' = climber /\ climber.current_active \in Nat
      BY <2>11, WorkersFinite DEF ParkNSub, Unparked, TypeOK, Climber
    <3> QED BY <2>11, <3>1 DEF ParkNSub, UnparkedCoverClimber, TypeOK
  <2>12. ASSUME NEW w \in Worker, WorkerStep(w) PROVE UnparkedCoverClimber'
    BY Zenon, <2>1, <2>12
    DEF WorkerStep, WaitIfParked, CheckShutdown, TryRecvHigh, TryRecvLow,
        CheckShutdownIdle, RecvHigh, RecvTimeout, RunTask
  <2>13. ASSUME NEW s \in Submitters, SubmitterStep(s) PROVE UnparkedCoverClimber'
    <3>1. CASE UnparkOneUnpark(s)
      BY Zenon, <2>2, <3>1 DEF UnparkOneUnpark, SGoto, TypeOK
    <3> QED
      BY Zenon, <2>1, <2>13, <3>1 DEF SubmitterStep, UnparkOneIsParked, UnparkOneAdd
  <2>14. ASSUME NEW s \in Submitters, NEW t \in Tasks, NEW p \in {"High", "Low"},
                Submit(s, t, p)
         PROVE  UnparkedCoverClimber'
    BY Zenon, <2>1, <2>14 DEF Submit
  <2>15. CASE ShutdownWake
    <3>1. CASE dcur <= MaxThreads /\ parked' = [parked EXCEPT ![dcur] = FALSE]
      <4>1. dcur \in Worker
        BY <3>1 DEF TypeOK, Worker
      <4> QED BY Zenon, <2>2, <2>15, <3>1, <4>1 DEF ShutdownWake
    <3> QED BY Zenon, <2>1, <2>15, <3>1 DEF ShutdownWake
  <2>16. CASE SignalShutdown \/ Shutdown \/ Join \/ UNCHANGED vars
    BY Zenon, <2>1, <2>16 DEF SignalShutdown, Shutdown, Join, vars
  <2> QED
    BY Zenon, <2>3, <2>4, <2>5, <2>6, <2>7, <2>8, <2>9, <2>10, <2>11, <2>12, <2>13,
       <2>14, <2>15, <2>16
    DEF Next, MonStep, DownStep, Terminated
<1> QED BY <1>1, <1>2, TypeCorrect, PTL DEF Spec

\* park_n's promise: at every moment at least min_threads workers are
\* unparked.  The counter park_n tests does not ensure this, for it drifts
\* upwards; the climber's own lower bound does.
THEOREM MinThreadsStayUnparked == Spec => []ParkRespectsMinThreads
<1>1. TypeOK /\ UnparkedCoverClimber => ParkRespectsMinThreads
  <2> SUFFICES ASSUME TypeOK, UnparkedCoverClimber PROVE ParkRespectsMinThreads
    BY Zenon
  <2>1. climber.current_active >= MinThreads /\ climber.current_active \in Nat
    BY ThreadBounds DEF TypeOK, Climber
  <2>2. Cardinality(Unparked) \in Nat
    BY Zenon, WorkersFinite
  <2>3. CASE mpc \in {"up", "up_do"}
    BY SMTT(40), <2>1, <2>2, <2>3, ThreadBounds
    DEF UnparkedCoverClimber, TypeOK, ParkRespectsMinThreads
  <2>4. CASE mpc \in {"down", "down_check", "down_do", "down_sub"}
    BY <2>1, <2>2, <2>4, ThreadBounds
    DEF UnparkedCoverClimber, TypeOK, ParkRespectsMinThreads
  <2>5. CASE mpc \in {"loop", "tick", "up_add", "done"}
    BY <2>1, <2>2, <2>5, ThreadBounds
    DEF UnparkedCoverClimber, ParkRespectsMinThreads
  <2> QED BY Zenon, <2>3, <2>4, <2>5 DEF TypeOK, MonPc
<1> QED BY <1>1, TypeCorrect, CoverInductive, PTL

-----------------------------------------------------------------------------
(* active_count drifts in one direction only *)

\* park_n parks a worker it has seen unparked, and nobody else parks, so its
\* fetch_sub always pays for a worker that really went to sleep.
ParkedByMonitorOnly == mpc = "down_do" => ~parked[mcur]

\* A submitter entering or leaving the point where it owes the fetch_add
\* changes the number of such submitters by one.
LEMMA AddingChanges ==
  ASSUME TypeOK, NEW s \in Submitters
  PROVE  /\ IsFiniteSet(Adding) /\ Cardinality(Adding) \in Nat
         /\ SGoto(s, "unpark", "add") =>
              Cardinality(Adding') = Cardinality(Adding) + 1
         /\ SGoto(s, "add", "ready") =>
              Cardinality(Adding') = Cardinality(Adding) - 1
<1>1. IsFiniteSet(Adding) /\ Cardinality(Adding) \in Nat
  BY Zenon, PoolConstants, FS_Subset, FS_CardinalityType DEF Adding
<1>2. SGoto(s, "unpark", "add") => Adding' = Adding \cup {s} /\ s \notin Adding
  BY Zenon DEF SGoto, Adding, TypeOK
<1>3. SGoto(s, "add", "ready") => Adding' = Adding \ {s} /\ s \in Adding
  BY Zenon DEF SGoto, Adding, TypeOK
<1> QED BY SMTT(40), <1>1, <1>2, <1>3, FS_AddElement, FS_RemoveElement

\* unpark_one, unpark_n and park_n never leave the counter below the number
\* of unparked workers, once the updates still owed are added in: lost
\* races over-count, they never under-count.
THEOREM CounterNeverUnderReports == Spec => []CounterCoversUnparked
<1> USE ThreadBounds, PoolConstants
<1> DEFINE Inv == CounterCoversUnparked /\ ParkedByMonitorOnly
<1>1. Init => Inv
  <2> SUFFICES ASSUME Init PROVE Inv
    BY Zenon
  <2>1. Clamp(InitialActive) \in MinThreads..MaxThreads
    BY Zenon, ClampInRange
  <2>2. Cardinality(Unparked) = Clamp(InitialActive)
    BY Zenon, InitiallyUnparked
  <2>3. Adding = {} /\ Cardinality(Adding) = 0
    BY Zenon, FS_EmptySet DEF Init, Adding
  <2> QED
    BY <2>1, <2>2, <2>3
    DEF Init, CounterCoversUnparked, ParkedByMonitorOnly, OwedByUnparkN, OwedByParkN
<1>2. TypeOK /\ Inv /\ [Next]_vars => Inv'
  <2> SUFFICES ASSUME TypeOK, CounterCoversUnparked, ParkedByMonitorOnly,
                      [Next]_vars
               PROVE  Inv'
    BY Zenon
  <2>0. /\ IsFiniteSet(Adding) /\ Cardinality(Adding) \in Nat
        /\ Cardinality(Unparked) \in Nat /\ active_count \in Nat
        /\ OwedByUnparkN \in Nat /\ OwedByParkN \in Nat
    BY Zenon, FS_Subset, FS_CardinalityType, WorkersFinite
    DEF Adding, TypeOK, OwedByUnparkN, OwedByParkN
  <2>1. CASE UNCHANGED <<parked, active_count, monitor, downer, Adding>>
    BY Zenon, <2>1
    DEF CounterCoversUnparked, ParkedByMonitorOnly, Unparked, OwedByUnparkN, OwedByParkN
  <2>2. ASSUME NEW w \in Worker, WorkerStep(w) PROVE Inv'
    BY Zenon, <2>1, <2>2
    DEF WorkerStep, WaitIfParked, CheckShutdown, TryRecvHigh, TryRecvLow,
        CheckShutdownIdle, RecvHigh, RecvTimeout, RunTask, Adding
  <2>3. ASSUME NEW s \in Submitters, UnparkOneIsParked(s) PROVE Inv'
    <3>1. Adding' = Adding
      BY Zenon, <2>3 DEF UnparkOneIsParked, SGoto, Adding, TypeOK
    <3> QED BY Zenon, <2>1, <2>3, <3>1 DEF UnparkOneIsParked
  <2>4. ASSUME NEW s \in Submitters, UnparkOneUnpark(s) PROVE Inv'
    <3>1. Cardinality(Adding') = Cardinality(Adding) + 1
      BY Zenon, <2>4, AddingChanges DEF UnparkOneUnpark
    <3>2. scur[s] \in Worker
      BY Zenon, <2>4 DEF UnparkOneUnpark, SGoto, TypeOK
    <3>3. /\ Cardinality(Unparked') \in Nat
          /\ Cardinality(Unparked') <= Cardinality(Unparked) + 1
      BY Zenon, <2>4, <3>2, UnparkGrows DEF UnparkOneUnpark
    <3>4. ParkedByMonitorOnly'
      BY Zenon, <2>4, <3>2 DEF UnparkOneUnpark, ParkedByMonitorOnly, TypeOK
    <3> QED
      BY <2>0, <2>4, <3>1, <3>3, <3>4
      DEF UnparkOneUnpark, CounterCoversUnparked, OwedByUnparkN, OwedByParkN
  <2>5. ASSUME NEW s \in Submitters, UnparkOneAdd(s) PROVE Inv'
    <3>1. Cardinality(Adding') = Cardinality(Adding) - 1
      BY Zenon, <2>5, AddingChanges DEF UnparkOneAdd
    <3> QED
      BY <2>0, <2>5, <3>1
      DEF UnparkOneAdd, CounterCoversUnparked, ParkedByMonitorOnly, Unparked,
          OwedByUnparkN, OwedByParkN
  <2>6. ASSUME NEW s \in Submitters, NEW t \in Tasks, NEW p \in {"High", "Low"},
               Submit(s, t, p)
        PROVE  Inv'
    <3>1. Adding' = Adding
      BY Zenon, <2>6 DEF Submit, SGoto, Adding, TypeOK
    <3> QED BY Zenon, <2>1, <2>6, <3>1 DEF Submit
  <2>7. CASE MonStep
    <3>1. Adding' = Adding /\ dpc' = dpc
      BY Zenon, <2>7
      DEF MonStep, MonLoop, MonTick, UnparkNIsParked, UnparkNUnpark, UnparkNAdd,
          ParkNHead, ParkNIsParked, ParkNPark, ParkNSub, Adding
    <3>2. CASE MonLoop
      BY Zenon, <2>0, <3>1, <3>2
      DEF MonLoop, CounterCoversUnparked, ParkedByMonitorOnly, Unparked,
          OwedByUnparkN, OwedByParkN
    <3>3. ASSUME NEW trend \in Trend, MonTick(trend) PROVE Inv'
      BY Zenon, <2>0, <3>1, <3>3
      DEF MonTick, CounterCoversUnparked, ParkedByMonitorOnly, Unparked,
          OwedByUnparkN, OwedByParkN
    <3>4. CASE UnparkNIsParked
      BY Zenon, <2>0, <3>1, <3>4
      DEF UnparkNIsParked, CounterCoversUnparked, ParkedByMonitorOnly, Unparked,
          OwedByUnparkN, OwedByParkN
    <3>5. CASE UnparkNUnpark
      <4>1. mcur \in Worker
        BY Zenon, <3>5 DEF UnparkNUnpark, TypeOK
      <4>2. /\ Cardinality(Unparked') \in Nat
            /\ Cardinality(Unparked') <= Cardinality(Unparked) + 1
        BY Zenon, ZenonT(40), <3>5, <4>1, UnparkGrows DEF UnparkNUnpark
      <4> QED
        BY <2>0, <3>1, <3>5, <4>2
        DEF UnparkNUnpark, CounterCoversUnparked, ParkedByMonitorOnly,
            OwedByUnparkN, OwedByParkN
    <3>6. CASE UnparkNAdd
      BY <2>0, <3>1, <3>6
      DEF UnparkNAdd, CounterCoversUnparked, ParkedByMonitorOnly, Unparked,
          OwedByUnparkN, OwedByParkN
    <3>7. CASE ParkNHead
      BY Zenon, <2>0, <3>1, <3>7
      DEF ParkNHead, CounterCoversUnparked, ParkedByMonitorOnly, Unparked,
          OwedByUnparkN, OwedByParkN
    <3>8. CASE ParkNIsParked
      BY Zenon, <2>0, <3>1, <3>8
      DEF ParkNIsParked, CounterCoversUnparked, ParkedByMonitorOnly, Unparked,
          OwedByUnparkN, OwedByParkN
    <3>9. CASE ParkNPark
      <4>1. mcur \in Worker /\ ~parked[mcur]
        BY Zenon, <3>9 DEF ParkNPark, TypeOK, ParkedByMonitorOnly
      <4>2. Cardinality(Unparked') = Cardinality(Unparked) - 1
        BY Zenon, <3>9, <4>1, ParkShrinks DEF ParkNPark
      <4> QED
        BY SMTT(40), <2>0, <3>1, <3>9, <4>2
        DEF ParkNPark, CounterCoversUnparked, ParkedByMonitorOnly,
            OwedByUnparkN, OwedByParkN
    <3>10. CASE ParkNSub
      BY <2>0, <3>1, <3>10
      DEF ParkNSub, CounterCoversUnparked, ParkedByMonitorOnly, Unparked,
          OwedByUnparkN, OwedByParkN
    <3> QED
      BY Zenon, <2>7, <3>2, <3>3, <3>4, <3>5, <3>6, <3>7, <3>8, <3>9, <3>10 DEF MonStep
  <2>8. CASE ShutdownWake
    <3>1. dpc' # "ready"
      BY Zenon, <2>8 DEF ShutdownWake
    <3>2. ParkedByMonitorOnly'
      BY Zenon, <2>8 DEF ShutdownWake, ParkedByMonitorOnly, TypeOK
    <3> QED BY Zenon, <3>1, <3>2 DEF CounterCoversUnparked
  <2>9. CASE SignalShutdown \/ Join \/ UNCHANGED vars
    BY Zenon, <2>1, <2>9
    DEF SignalShutdown, Join, vars, Adding, CounterCoversUnparked,
        ParkedByMonitorOnly, Unparked, OwedByUnparkN, OwedByParkN
  <2>10. CASE Shutdown
    BY Zenon, <2>10 DEF Shutdown, CounterCoversUnparked, ParkedByMonitorOnly
  <2> QED
    BY Zenon, <2>2, <2>3, <2>4, <2>5, <2>6, <2>7, <2>8, <2>9, <2>10
    DEF Next, SubmitterStep, DownStep, Terminated
<1> QED BY <1>1, <1>2, TypeCorrect, PTL DEF Spec

-----------------------------------------------------------------------------
(* Tasks are conserved *)

\* What one element is worth in a count of the occurrences of t.
One(u, t) == IF u = t THEN 1 ELSE 0

\* The places of a queue that hold a given task are finitely many.
LEMMA OccurrencesType ==
  ASSUME NEW q \in Seq(Tasks), NEW t
  PROVE  /\ IsFiniteSet({i \in DOMAIN q : q[i] = t})
         /\ Occurrences(q, t) \in Nat
<1>1. IsFiniteSet(1..Len(q))
  BY FS_Interval
<1>2. {i \in DOMAIN q : q[i] = t} \in SUBSET (1..Len(q))
  OBVIOUS
<1>3. IsFiniteSet({i \in DOMAIN q : q[i] = t})
  BY Zenon, <1>1, <1>2, FS_Subset
<1> QED BY Zenon, <1>3, FS_CardinalityType DEF Occurrences

\* Sending a task adds one occurrence of it to the channel.
LEMMA OccurrencesAppend ==
  ASSUME NEW q \in Seq(Tasks), NEW u \in Tasks, NEW t
  PROVE  Occurrences(Append(q, u), t) = Occurrences(q, t) + One(u, t)
<1> DEFINE S == {i \in DOMAIN q : q[i] = t}
           T == {i \in DOMAIN Append(q, u) : Append(q, u)[i] = t}
           n == Len(q) + 1
<1>1. IsFiniteSet(S) /\ Cardinality(S) \in Nat
  BY Zenon, OccurrencesType DEF Occurrences
<1>2. n \notin S
  OBVIOUS
<1>3. u = t => T = S \cup {n}
  OBVIOUS
<1>4. u # t => T = S
  OBVIOUS
<1> HIDE DEF S, T, n
<1>5. Cardinality(S \cup {n}) = Cardinality(S) + 1
  BY Zenon, <1>1, <1>2, FS_AddElement
<1>6. Cardinality(T) = Cardinality(S) + One(u, t)
  <2>1. CASE u = t
    <3>1. Cardinality(T) = Cardinality(S) + 1
      BY <1>3, <1>5, <2>1, Zenon
    <3> QED BY Zenon, <2>1, <3>1 DEF One
  <2>2. CASE u # t
    <3>1. Cardinality(T) = Cardinality(S)
      BY <1>4, <2>2, Zenon
    <3> QED BY <1>1, <2>2, <3>1 DEF One
  <2> QED BY Zenon, <2>1, <2>2
<1> QED BY Zenon, <1>6 DEF S, T, Occurrences

\* Receiving removes one occurrence of the task received.
LEMMA OccurrencesTail ==
  ASSUME NEW q \in Seq(Tasks), q # << >>, NEW t
  PROVE  Occurrences(q, t) = Occurrences(Tail(q), t) + One(Head(q), t)
<1> DEFINE S == {i \in DOMAIN q : q[i] = t}
           T == {i \in DOMAIN Tail(q) : Tail(q)[i] = t}
           f == [i \in T |-> i + 1]
<1>1. IsFiniteSet(S) /\ Cardinality(S) \in Nat
  BY Zenon, OccurrencesType DEF Occurrences
<1>2. Tail(q) \in Seq(Tasks) /\ Len(q) \in Nat \ {0} /\ Len(Tail(q)) = Len(q) - 1
  OBVIOUS
<1>3. IsFiniteSet(T) /\ Cardinality(T) \in Nat
  BY Zenon, <1>2, OccurrencesType DEF Occurrences
<1>4. T = {i \in 1..(Len(q) - 1) : q[i + 1] = t}
  BY <1>2
<1>5. f \in Bijection(T, S \ {1})
  <2>1. S \ {1} = {i \in 2..Len(q) : q[i] = t}
    BY <1>2
  <2>2. f \in [T -> S \ {1}]
    BY <1>2, <1>4, <2>1
  <2>3. \A i, j \in T : f[i] = f[j] => i = j
    BY <1>4
  <2>4. \A k \in S \ {1} : \E i \in T : f[i] = k
    <3> SUFFICES ASSUME NEW k \in S \ {1} PROVE k - 1 \in T /\ f[k - 1] = k
      BY Zenon
    <3> QED BY <1>2, <1>4, <2>1
  <2> HIDE DEF S, T, f
  <2> QED BY Zenon, <2>2, <2>3, <2>4 DEF Bijection, Injection, Surjection, IsInjective
<1> HIDE DEF f
<1>6. Cardinality(S \ {1}) = Cardinality(T)
  <2>1. ExistsBijection(T, S \ {1})
    BY Zenon, <1>5 DEF ExistsBijection
  <2> QED BY Zenon, <1>3, <2>1, FS_Bijection
<1>7. Cardinality(S \ {1}) = IF 1 \in S THEN Cardinality(S) - 1 ELSE Cardinality(S)
  BY Zenon, <1>1, FS_RemoveElement
<1>8. 1 \in S <=> Head(q) = t
  BY <1>2
<1> HIDE DEF S, T
<1>9. Cardinality(S) = Cardinality(T) + One(Head(q), t)
  BY <1>1, <1>3, <1>6, <1>7, <1>8 DEF One
<1> QED BY Zenon, <1>9 DEF S, T, Occurrences

\* The workers that hold a task.
Hands(t) == {w \in Worker : wtask[w] = t}

\* A worker with empty hands that takes u adds one holder of u, and a worker
\* that is done with the task it holds takes one away.
LEMMA HandsChange ==
  ASSUME TypeOK, NEW w \in Worker, NEW u \in Tasks \cup {NoTask}, Take(w, u),
         NEW t \in Tasks
  PROVE  /\ Cardinality(Hands(t)) \in Nat /\ Cardinality(Hands(t)') \in Nat
         /\ wtask[w] = NoTask =>
              Cardinality(Hands(t)') = Cardinality(Hands(t)) + One(u, t)
         /\ u = NoTask =>
              Cardinality(Hands(t)) = Cardinality(Hands(t)') + One(wtask[w], t)
<1>1. NoTask \notin Tasks /\ t # NoTask
  BY Zenon, PoolConstants
<1>2. wtask \in [Worker -> Tasks \cup {NoTask}]
  BY Zenon DEF TypeOK
<1>3. wtask' = [wtask EXCEPT ![w] = u]
  BY Zenon DEF Take
<1>4. IsFiniteSet(Hands(t)) /\ IsFiniteSet(Hands(t)')
  <2>1. Hands(t) \in SUBSET Worker /\ Hands(t)' \in SUBSET Worker
    BY Zenon DEF Hands
  <2> QED BY Zenon, <2>1, WorkersFinite, FS_Subset
<1>5. Cardinality(Hands(t)) \in Nat /\ Cardinality(Hands(t)') \in Nat
  BY Zenon, <1>4, FS_CardinalityType
<1>6. ASSUME wtask[w] = NoTask
      PROVE  Cardinality(Hands(t)') = Cardinality(Hands(t)) + One(u, t)
  <2>1. w \notin Hands(t)
    BY Zenon, <1>1, <1>6 DEF Hands
  <2>2. /\ u = t => Hands(t)' = Hands(t) \cup {w}
        /\ u # t => Hands(t)' = Hands(t)
    BY Zenon, <1>1, <1>2, <1>3, <1>6 DEF Hands
  <2>3. Cardinality(Hands(t) \cup {w}) = Cardinality(Hands(t)) + 1
    BY Zenon, <1>4, <2>1, FS_AddElement
  <2> QED BY <1>5, <2>2, <2>3 DEF One
<1>7. ASSUME u = NoTask
      PROVE  Cardinality(Hands(t)) = Cardinality(Hands(t)') + One(wtask[w], t)
  <2>1. w \in Hands(t) <=> wtask[w] = t
    BY Zenon DEF Hands
  <2>2. Hands(t)' = Hands(t) \ {w}
    BY Zenon, <1>1, <1>2, <1>3, <1>7 DEF Hands
  <2>3. Cardinality(Hands(t) \ {w})
          = IF w \in Hands(t) THEN Cardinality(Hands(t)) - 1
                              ELSE Cardinality(Hands(t))
    BY Zenon, <1>4, FS_RemoveElement
  <2> QED BY <1>5, <2>1, <2>2, <2>3 DEF One
<1> QED BY Zenon, <1>5, <1>6, <1>7

\* submit, try_recv, recv_timeout and the task's execution, for any number of
\* submitters and workers: a submitted task is in exactly one place, so it is
\* neither lost nor run twice.
THEOREM TasksConserved == Spec => []TaskConservation
<1> DEFINE Places(t) == Occurrences(high, t) + Occurrences(low, t)
                          + Cardinality(Hands(t)) + runs[t]
           Due(t) == IF t \in submitted THEN 1 ELSE 0
<1>0. /\ TaskConservation <=> \A t \in Tasks : Places(t) = Due(t)
      /\ TaskConservation' <=> \A t \in Tasks : (Places(t) = Due(t))'
  BY Zenon DEF TaskConservation, Hands
<1>1. Init => TaskConservation
  <2> SUFFICES ASSUME Init, NEW t \in Tasks PROVE Places(t) = Due(t)
    BY Zenon, <1>0
  <2>1. Occurrences(<< >>, t) = 0
    <3>1. {i \in DOMAIN << >> : << >>[i] = t} = {}
      OBVIOUS
    <3> QED BY Zenon, <3>1, FS_EmptySet DEF Occurrences
  <2>2. Hands(t) = {}
    BY Zenon, PoolConstants DEF Init, Hands
  <2>3. Cardinality(Hands(t)) = 0
    BY Zenon, <2>2, FS_EmptySet
  <2> QED BY <2>1, <2>3 DEF Init
<1>2. TypeOK /\ TaskConservation /\ [Next]_vars => TaskConservation'
  <2> SUFFICES ASSUME TypeOK, TaskConservation, [Next]_vars, NEW t \in Tasks
               PROVE  (Places(t) = Due(t))'
    BY Zenon, <1>0
  <2>1. Places(t) = Due(t)
    BY Zenon, <1>0
  <2>2. /\ high \in Seq(Tasks) /\ low \in Seq(Tasks)
        /\ Occurrences(high, t) \in Nat /\ Occurrences(low, t) \in Nat
    BY Zenon, OccurrencesType DEF TypeOK
  <2>3. runs \in [Tasks -> Nat] /\ runs[t] \in Nat
    BY Zenon DEF TypeOK
  <2>4. ASSUME UNCHANGED <<high, low, submitted, wtask, runs>>
        PROVE  (Places(t) = Due(t))'
    <3>1. Hands(t)' = Hands(t)
      BY Zenon, <2>4 DEF Hands
    <3> QED BY Zenon, <2>1, <2>4, <3>1
  <2>5. ASSUME NEW w \in Worker, wpc[w] # "run"
        PROVE  wtask[w] = NoTask
    BY Zenon, <2>5 DEF TypeOK
  <2>6. ASSUME NEW w \in Worker, WorkerStep(w)
        PROVE  (Places(t) = Due(t))'
    <3>1. CASE WaitIfParked(w) \/ CheckShutdown(w) \/ CheckShutdownIdle(w)
               \/ RecvTimeout(w)
      BY Zenon, <2>4, <3>1 DEF WaitIfParked, CheckShutdown, CheckShutdownIdle, RecvTimeout
    <3>2. CASE TryRecvHigh(w) \/ RecvHigh(w)
      <4>1. CASE high = << >>
        BY Zenon, <2>4, <3>2, <4>1 DEF TryRecvHigh, RecvHigh
      <4>2. CASE high # << >>
        <5>1. /\ Take(w, Head(high)) /\ high' = Tail(high) /\ wpc[w] # "run"
              /\ UNCHANGED <<low, submitted, runs>>
          BY Zenon, <3>2, <4>2 DEF TryRecvHigh, RecvHigh, WGoto
        <5>2. Head(high) \in Tasks
          BY SMTT(40), <2>2, <4>2
        <5>3. /\ Cardinality(Hands(t)) \in Nat
              /\ Cardinality(Hands(t)') = Cardinality(Hands(t)) + One(Head(high), t)
          BY Zenon, ZenonT(40), <2>5, <5>1, <5>2, HandsChange
        <5>4. Occurrences(high, t) = Occurrences(high', t) + One(Head(high), t)
          BY Zenon, <2>2, <4>2, <5>1, OccurrencesTail
        <5>5. Occurrences(high', t) \in Nat
          <6>1. Tail(high) \in Seq(Tasks)
            BY <2>2, <4>2
          <6> QED BY Zenon, <5>1, <6>1, OccurrencesType
        <5> QED BY SMTT(40), <2>1, <2>2, <2>3, <5>1, <5>3, <5>4, <5>5 DEF One
      <4> QED BY Zenon, <4>1, <4>2
    <3>3. CASE TryRecvLow(w)
      <4>1. CASE low = << >>
        BY Zenon, <2>4, <3>3, <4>1 DEF TryRecvLow
      <4>2. CASE low # << >>
        <5>1. /\ Take(w, Head(low)) /\ low' = Tail(low) /\ wpc[w] # "run"
              /\ UNCHANGED <<high, submitted, runs>>
          BY Zenon, <3>3, <4>2 DEF TryRecvLow, WGoto
        <5>2. Head(low) \in Tasks
          BY SMTT(40), <2>2, <4>2
        <5>3. /\ Cardinality(Hands(t)) \in Nat
              /\ Cardinality(Hands(t)') = Cardinality(Hands(t)) + One(Head(low), t)
          BY Zenon, <2>5, <5>1, <5>2, HandsChange
        <5>4. Occurrences(low, t) = Occurrences(low', t) + One(Head(low), t)
          BY Zenon, <2>2, <4>2, <5>1, OccurrencesTail
        <5>5. Occurrences(low', t) \in Nat
          <6>1. Tail(low) \in Seq(Tasks)
            BY <2>2, <4>2
          <6> QED BY Zenon, <5>1, <6>1, OccurrencesType
        <5> QED BY <2>1, <2>2, <2>3, <5>1, <5>3, <5>4, <5>5 DEF One
      <4> QED BY Zenon, <4>1, <4>2
    <3>4. CASE RunTask(w)
      <4>1. /\ wtask[w] \in Tasks /\ Take(w, NoTask)
            /\ runs' = [runs EXCEPT ![wtask[w]] = @ + 1]
            /\ UNCHANGED <<high, low, submitted>>
        BY Zenon, <3>4 DEF RunTask, WGoto, TypeOK
      <4>2. /\ Cardinality(Hands(t)) \in Nat /\ Cardinality(Hands(t)') \in Nat
            /\ Cardinality(Hands(t)) = Cardinality(Hands(t)') + One(wtask[w], t)
        BY Zenon, <4>1, HandsChange
      <4>3. runs'[t] = runs[t] + One(wtask[w], t)
        BY <2>3, <4>1 DEF One
      <4> QED BY SMTT(40), <2>1, <2>2, <2>3, <4>1, <4>2, <4>3 DEF One
    <3> QED BY Zenon, <2>6, <3>1, <3>2, <3>3, <3>4 DEF WorkerStep
  <2>7. ASSUME NEW s \in Submitters, NEW u \in Tasks, NEW p \in {"High", "Low"},
               Submit(s, u, p)
        PROVE  (Places(t) = Due(t))'
    <3>1. /\ u \notin submitted /\ submitted' = submitted \cup {u}
          /\ UNCHANGED <<wtask, runs>>
      BY Zenon, <2>7 DEF Submit
    <3>2. Hands(t)' = Hands(t) /\ Cardinality(Hands(t)) \in Nat
      <4>1. IsFiniteSet(Hands(t))
        <5>1. Hands(t) \in SUBSET Worker
          BY Zenon DEF Hands
        <5> QED BY Zenon, <5>1, WorkersFinite, FS_Subset
      <4> QED BY Zenon, <3>1, <4>1, FS_CardinalityType DEF Hands
    <3>3. Occurrences(high', t) + Occurrences(low', t)
            = Occurrences(high, t) + Occurrences(low, t) + One(u, t)
      <4>1. /\ Occurrences(Append(high, u), t) = Occurrences(high, t) + One(u, t)
            /\ Occurrences(Append(low, u), t) = Occurrences(low, t) + One(u, t)
        BY Zenon, <2>2, OccurrencesAppend
      <4>2. \/ high' = Append(high, u) /\ low' = low
            \/ low' = Append(low, u) /\ high' = high
        BY Zenon, <2>7 DEF Submit
      <4>3. One(u, t) \in Nat
        BY Zenon DEF One
      <4>4. CASE high' = Append(high, u) /\ low' = low
        BY <2>2, <4>1, <4>3, <4>4
      <4>5. CASE low' = Append(low, u) /\ high' = high
        BY <2>2, <4>1, <4>3, <4>5
      <4> QED BY Zenon, <4>2, <4>4, <4>5
    <3>4. Due(t)' = Due(t) + One(u, t)
      BY SMTT(40), <3>1 DEF One
    <3> QED BY <2>1, <2>2, <2>3, <3>1, <3>2, <3>3, <3>4 DEF One
  <2>8. ASSUME NEW s \in Submitters, SubmitterStep(s)
        PROVE  (Places(t) = Due(t))'
    BY Zenon, <2>4, <2>8
    DEF SubmitterStep, UnparkOneIsParked, UnparkOneUnpark, UnparkOneAdd
  <2>9. CASE MonStep
    BY Zenon, ZenonT(40), <2>4, <2>9
    DEF MonStep, MonLoop, MonTick, UnparkNIsParked, UnparkNUnpark, UnparkNAdd,
        ParkNHead, ParkNIsParked, ParkNPark, ParkNSub
  <2>10. CASE SignalShutdown \/ DownStep \/ UNCHANGED vars
    BY Zenon, <2>4, <2>10 DEF SignalShutdown, DownStep, Shutdown, ShutdownWake, Join, vars
  <2> QED BY Zenon, <2>6, <2>7, <2>8, <2>9, <2>10 DEF Next, Terminated
<1> QED BY <1>1, <1>2, TypeCorrect, PTL DEF Spec
=============================================================================
