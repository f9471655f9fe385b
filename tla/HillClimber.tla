---------------------------- MODULE HillClimber ----------------------------
(***************************************************************************)
(* The thread-count optimiser of the adaptive work pool                    *)
(* (src/work_pool/adaptive.rs, HillClimber).  The optimiser is a record;   *)
(* each operation is an operator on it.  The objective is a float of which *)
(* only the comparison with the previous one matters, so an observation is *)
(* one of Trend: the objective fell by at least the improvement threshold  *)
(* ("better"), rose by at least it ("worse"), or stayed between ("flat").  *)
(***************************************************************************)
EXTENDS Integers

CONSTANTS
  MinThreads,      \* lower bound on active workers
  MaxThreads,      \* upper bound; also the number of worker threads
  CooldownPeriod   \* ticks held after a scaling action

\* The configuration the daemon builds a pool from: 1 <= min <= max.
ASSUME ThreadBounds ==
  /\ MinThreads \in Nat \ {0}
  /\ MaxThreads \in Nat
  /\ MinThreads <= MaxThreads
  /\ CooldownPeriod \in Nat

Trend == {"better", "worse", "flat"}

AtMost(a, b)  == IF a <= b THEN a ELSE b
AtLeast(a, b) == IF a >= b THEN a ELSE b

Clamp(n) == AtMost(AtLeast(n, MinThreads), MaxThreads)

StepCap == AtLeast(MaxThreads \div 4, 1)

Climber ==
  [direction : {1, -1}, cooldown_remaining : 0..CooldownPeriod,
   current_active : MinThreads..MaxThreads, initialized : BOOLEAN,
   step_size : 1..StepCap]

NewClimber(initial_active) ==
  [direction |-> 1, cooldown_remaining |-> 0,
   current_active |-> initial_active, initialized |-> FALSE, step_size |-> 1]

Hold(c) == [climber |-> c, action |-> "Hold", count |-> 0]

Rescale(c, new, action, count) ==
  [climber |-> [c EXCEPT !.current_active = new,
                         !.cooldown_remaining = CooldownPeriod],
   action |-> action, count |-> count]

\* Scaling down that stops at zero instead of min_threads.
ApplyDirectionNoFloor(c) ==
  LET up   == AtMost(c.current_active + c.step_size, MaxThreads)
      down == AtLeast(c.current_active - c.step_size, 0)
  IN  IF c.direction > 0
      THEN IF up = c.current_active
           THEN Hold(c)
           ELSE Rescale(c, up, "Unpark", up - c.current_active)
      ELSE IF down = c.current_active
           THEN Hold(c)
           ELSE Rescale(c, down, "Park", c.current_active - down)

ApplyDirection(c) ==
  LET up   == AtMost(c.current_active + c.step_size, MaxThreads)
      down == AtLeast(c.current_active - c.step_size, MinThreads)
  IN  IF c.direction > 0
      THEN IF up = c.current_active
           THEN Hold(c)
           ELSE Rescale(c, up, "Unpark", up - c.current_active)
      ELSE IF down = c.current_active
           THEN Hold(c)
           ELSE Rescale(c, down, "Park", c.current_active - down)

\* Doubling without the cap.
StepUncapped(c, trend) ==
  IF ~c.initialized THEN Hold([c EXCEPT !.initialized = TRUE])
  ELSE IF c.cooldown_remaining > 0
  THEN Hold([c EXCEPT !.cooldown_remaining = @ - 1])
  ELSE CASE trend = "better" -> ApplyDirection([c EXCEPT !.step_size = 2 * @])
         [] trend = "worse"  ->
              ApplyDirection([c EXCEPT !.direction = -@, !.step_size = 1])
         [] OTHER            -> Hold(c)

Step(c, trend) ==
  IF ~c.initialized THEN Hold([c EXCEPT !.initialized = TRUE])
  ELSE IF c.cooldown_remaining > 0
  THEN Hold([c EXCEPT !.cooldown_remaining = @ - 1])
  ELSE CASE trend = "better" ->
              ApplyDirection([c EXCEPT !.step_size = AtMost(2 * @, StepCap)])
         [] trend = "worse"  ->
              ApplyDirection([c EXCEPT !.direction = -@, !.step_size = 1])
         [] OTHER            -> Hold(c)
=============================================================================
