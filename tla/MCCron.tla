------------------------------ MODULE MCCron ------------------------------
(***************************************************************************)
(* Instances of Cron for TLC.  Scheduling takes time and health changes;   *)
(* the races between bodies take many runners, and are over before the     *)
(* clock moves.  MCSpec explores Spec along these two cuts.                *)
(***************************************************************************)
EXTENDS Cron

CONSTANTS h, o, l, w1, w2, c, shared, own

VARIABLE cut    \* the cut explored, the same throughout a behaviour

\* o is registered with a lock of its own.
LocksOf == [j \in Heavy |-> IF j = o THEN own ELSE shared]
Intervals == [j \in Jobs |-> CASE j = h -> 1 [] j = l -> 2 [] j = o -> MaxTime]
Staggers == [j \in Jobs |-> IF j = l THEN 1 ELSE 0]
Cooldowns == [j \in Heavy |-> 1]
InOrder == <<h, o, l>>

\* "long": o is not due before the end; one worker and no manual call.
\* "crowded": everybody, until the clock moves or a fault occurs.
MCInit ==
    /\ Init
    /\ cut \in {"long", "crowded"}
    /\ cut = "long" => chan[2].at = Start + Interval[o]

MCNext ==
    /\ Next
    /\ UNCHANGED cut
    /\ cut = "long" => pc'[w2] = "idle" /\ pc'[c] = "idle"
    /\ cut = "crowded" => now' = now /\ changes' = changes

MCSpec == MCInit /\ [][MCNext]_<<vars, cut>> /\ Fairness
=============================================================================
