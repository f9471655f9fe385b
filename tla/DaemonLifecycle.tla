-------------------------- MODULE DaemonLifecycle --------------------------
(***************************************************************************)
(* The daemon's phase register and its event channel                       *)
(* (src/daemon_state.rs over src/reactive/subject.rs).                     *)
(*                                                                         *)
(* transition is four steps: fetch_max on the phase, a reading of the      *)
(* clock, the store of that reading, a blocking send on one bounded        *)
(* channel.  subscribe hands every caller a clone of the SAME receiver, so *)
(* a message goes to one of the waiters.                                   *)
(***************************************************************************)
EXTENDS Integers, Sequences, FiniteSets

CONSTANTS
  Threads,     \* threads that call transition
  Requests,    \* the phases they ask for
  Waiters,     \* threads that call wait_for
  Targets,     \* the phases waited for
  Capacity,    \* of the Subject's channel
  MaxTime      \* bound on the clock

Initializing == 0
Scanning     == 1
Ready        == 2
Terminating  == 3
Defunct      == 4
Phase == Initializing..Defunct

ASSUME LifecycleConstants ==
  /\ Requests \subseteq Phase /\ Targets \subseteq Phase
  /\ IsFiniteSet(Threads)
  /\ Capacity \in Nat /\ Capacity >= Defunct
  /\ MaxTime \in Nat

VARIABLES
  phase, started,     \* the two atomics
  chan,               \* the Subject's channel
  tpc, req, reading,  \* transitioning threads: program counter, phase asked,
                      \* value of the clock not yet stored
  vpc, target, found, \* waiters: program counter, argument, result
  now,                \* the clock
  raisedAt,           \* history: when the phase last rose,
  overtaken           \* and whose stores were then still to come

lifecycle == <<phase, started, chan>>
callers   == <<tpc, req, reading>>
waiting   == <<vpc, target, found>>
history   == <<raisedAt, overtaken>>
vars == <<lifecycle, callers, waiting, now, history>>

TypeOK ==
  /\ phase \in Phase /\ started \in 0..MaxTime /\ now \in 0..MaxTime
  /\ chan \in Seq(Phase)
  /\ tpc \in [Threads -> {"ready", "clock", "store", "send"}]
  /\ req \in [Threads -> Phase] /\ reading \in [Threads -> 0..MaxTime]
  /\ vpc \in [Waiters -> {"ready", "recv", "returned"}]
  /\ target \in [Waiters -> Phase]
  /\ found \in [Waiters -> BOOLEAN]
  /\ raisedAt \in 0..MaxTime /\ overtaken \subseteq Threads

Init ==
  /\ phase = Initializing /\ started = 0 /\ chan = << >> /\ now = 0
  /\ tpc = [t \in Threads |-> "ready"] /\ req = [t \in Threads |-> Initializing]
  /\ reading = [t \in Threads |-> 0]
  /\ vpc = [v \in Waiters |-> "ready"]
  /\ target = [v \in Waiters |-> Initializing]
  /\ found = [v \in Waiters |-> FALSE]
  /\ raisedAt = 0 /\ overtaken = {}

-----------------------------------------------------------------------------
(* transition *)

\* Threads that have raised the phase and not stored its start yet.
Stamping == {t \in Threads : tpc[t] \in {"clock", "store"}}

\* The phase is to, and t goes on to stamp and announce it.
Enter(t, to) ==
  /\ phase' = to
  /\ tpc' = [tpc EXCEPT ![t] = "clock"]
  /\ req' = [req EXCEPT ![t] = to]
  /\ raisedAt' = now /\ overtaken' = Stamping

\* A plain store in place of fetch_max.
RaiseByStore(t, to) ==
  /\ tpc[t] = "ready"
  /\ IF phase # to THEN Enter(t, to) ELSE UNCHANGED <<phase, tpc, req, history>>
  /\ UNCHANGED <<started, chan, reading, waiting, now>>

\* fetch_max; only a call that really raised the phase goes on.
Raise(t, to) ==
  /\ tpc[t] = "ready"
  /\ IF phase < to THEN Enter(t, to) ELSE UNCHANGED <<phase, tpc, req, history>>
  /\ UNCHANGED <<started, chan, reading, waiting, now>>

\* Rounds the time up.
ReadClockNextTick(t) ==
  /\ tpc[t] = "clock"
  /\ reading' = [reading EXCEPT ![t] = now + 1]
  /\ tpc' = [tpc EXCEPT ![t] = "store"]
  /\ UNCHANGED <<lifecycle, req, waiting, now, history>>

\* now_unix_ms() is evaluated before the store of its value.
ReadClock(t) ==
  /\ tpc[t] = "clock"
  /\ reading' = [reading EXCEPT ![t] = now]
  /\ tpc' = [tpc EXCEPT ![t] = "store"]
  /\ UNCHANGED <<lifecycle, req, waiting, now, history>>

\* The start time is left as it was.
StampNothing(t) ==
  /\ tpc[t] = "store"
  /\ tpc' = [tpc EXCEPT ![t] = "send"]
  /\ UNCHANGED <<lifecycle, req, reading, waiting, now, history>>

Stamp(t) ==
  /\ tpc[t] = "store"
  /\ started' = reading[t]
  /\ tpc' = [tpc EXCEPT ![t] = "send"]
  /\ UNCHANGED <<phase, chan, req, reading, waiting, now, history>>

\* The announcement is dropped.
SendNothing(t) ==
  /\ tpc[t] = "send"
  /\ tpc' = [tpc EXCEPT ![t] = "ready"]
  /\ UNCHANGED <<lifecycle, req, reading, waiting, now, history>>

\* The announcement is sent again after it has been sent.
SendTwice(t) ==
  /\ tpc[t] = "send"
  /\ Len(chan) < Capacity
  /\ chan' = Append(chan, req[t])
  /\ tpc' \in {tpc, [tpc EXCEPT ![t] = "ready"]}
  /\ UNCHANGED <<phase, started, req, reading, waiting, now, history>>

\* Subject::next blocks while the channel is full.
Send(t) ==
  /\ tpc[t] = "send"
  /\ Len(chan) < Capacity
  /\ chan' = Append(chan, req[t])
  /\ tpc' = [tpc EXCEPT ![t] = "ready"]
  /\ UNCHANGED <<phase, started, req, reading, waiting, now, history>>

-----------------------------------------------------------------------------
(* wait_for *)

Return(v, result) ==
  /\ vpc' = [vpc EXCEPT ![v] = "returned"]
  /\ found' = [found EXCEPT ![v] = result]

\* The first look at the register decides, or the caller subscribes.
WaitFor(v, goal) ==
  /\ vpc[v] = "ready"
  /\ target' = [target EXCEPT ![v] = goal]
  /\ IF phase >= goal
     THEN Return(v, phase = goal \/ goal >= Terminating \/ phase < Terminating)
     ELSE vpc' = [vpc EXCEPT ![v] = "recv"] /\ UNCHANGED found
  /\ UNCHANGED <<lifecycle, callers, now, history>>

\* Any message ends the wait with success.
ReceiveAnything(v) ==
  /\ vpc[v] = "recv" /\ chan # << >>
  /\ chan' = Tail(chan)
  /\ Return(v, Head(chan) < Terminating \/ target[v] >= Terminating)
  /\ UNCHANGED <<phase, started, target, callers, now, history>>

Receive(v) ==
  LET p == Head(chan) IN
  /\ vpc[v] = "recv" /\ chan # << >>
  /\ chan' = Tail(chan)
  /\ CASE p = target[v] -> Return(v, TRUE)
       [] p > target[v] /\ p < Terminating -> Return(v, TRUE)
       [] p >= Terminating /\ target[v] < Terminating -> Return(v, FALSE)
       [] OTHER -> UNCHANGED <<vpc, found>>
  /\ UNCHANGED <<phase, started, target, callers, now, history>>

Tick ==
  /\ now < MaxTime
  /\ now' = now + 1
  /\ UNCHANGED <<lifecycle, callers, waiting, history>>

-----------------------------------------------------------------------------
Next ==
  \/ \E t \in Threads : 
       (\E to \in Requests : Raise(t, to)) \/ ReadClock(t) \/ Stamp(t) \/ Send(t)
  \/ \E v \in Waiters : (\E goal \in Targets : WaitFor(v, goal)) \/ Receive(v)
  \/ Tick

\* A thread inside transition finishes it; a waiter with a message takes it.
Fairness ==
  /\ \A t \in Threads : WF_vars(ReadClock(t) \/ Stamp(t) \/ Send(t))
  /\ \A v \in Waiters : WF_vars(Receive(v))

Spec == Init /\ [][Next]_vars /\ Fairness

-----------------------------------------------------------------------------
(* Properties *)

\* Threads that have raised the phase and not announced it yet.
Announcing == {t \in Threads : tpc[t] # "ready"}

\* transition / Subject::next: every message, sent or still to be sent, is
\* paid for by one step up of the phase, so even if nobody ever subscribes
\* the channel holds at most four of them and the send never blocks the
\* thread that moves the daemon on.
AnnouncementsBounded == Len(chan) + Cardinality(Announcing) <= phase

\* Each phase is announced at most once, whichever threads race to enter it.
NoPhaseAnnouncedTwice ==
  /\ \A i, j \in 1..Len(chan) : i # j => chan[i] # chan[j]
  /\ \A t \in Announcing : \A i \in 1..Len(chan) : chan[i] # req[t]
  /\ \A t, u \in Announcing : t # u => req[t] # req[u]

\* wait_for: "Returns true if the target phase was reached. Returns false if
\* the daemon became defunct" or is terminating: a result is never given
\* before the register has got there, although it comes from old messages.
WaitForSound ==
  \A v \in Waiters : vpc[v] = "returned" =>
    /\ found[v] => phase >= target[v]
    /\ ~found[v] => phase >= Terminating /\ target[v] < Terminating

\* wait_for: "Block until the daemon reaches at least the given phase": once
\* it has, the caller returns.
WaitForReturns ==
  \A v \in Waiters :
    (vpc[v] = "recv" /\ phase >= target[v]) ~> (vpc[v] = "returned")

\* ms_in_current_phase: the time spent in the phase is not overstated once the
\* thread that entered it has stored its start, provided that every earlier
\* transition had stored its own when it entered.  (A store that comes later,
\* of a clock read earlier, would set the start back.)
ElapsedNeverOverstated == Stamping = {} /\ overtaken = {} => started >= raisedAt
=============================================================================
