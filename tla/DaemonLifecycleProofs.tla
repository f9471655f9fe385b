----------------------- MODULE DaemonLifecycleProofs -----------------------
(***************************************************************************)
(* Proofs about the phase register and its channel, for any number of      *)
(* transitioning threads and waiters.                                      *)
(***************************************************************************)
EXTENDS DaemonLifecycle, FiniteSetTheorems, TLAPS

USE LifecycleConstants
USE DEF lifecycle, callers, waiting, history,
        Phase, Initializing, Scanning, Ready, Terminating, Defunct

\* The lifecycle's state keeps its types.
THEOREM TypeCorrect == Spec => []TypeOK
<1>1. Init => TypeOK
  BY DEF Init, TypeOK
<1>2. TypeOK /\ [Next]_vars => TypeOK'
  <2> SUFFICES ASSUME TypeOK, [Next]_vars PROVE TypeOK'
    OBVIOUS
  <2>1. ASSUME NEW t \in Threads, NEW to \in Requests, Raise(t, to) PROVE TypeOK'
    <3>1. to \in Phase
      OBVIOUS
    <3>2. CASE phase < to
      <4>1. overtaken' \subseteq Threads
        BY <2>1, <3>2 DEF Raise, Enter, Stamping
      <4> QED BY <2>1, <3>1, <3>2, <4>1 DEF Raise, Enter, TypeOK
    <3>3. CASE ~(phase < to)
      BY <2>1, <3>3 DEF Raise, TypeOK
    <3> QED BY <3>2, <3>3
  <2>2. ASSUME NEW t \in Threads, ReadClock(t) PROVE TypeOK'
    BY <2>2 DEF ReadClock, TypeOK
  <2>6. ASSUME NEW t \in Threads, Stamp(t) PROVE TypeOK'
    BY <2>6 DEF Stamp, TypeOK
  <2>3. ASSUME NEW t \in Threads, Send(t) PROVE TypeOK'
    BY <2>3 DEF Send, TypeOK
  <2>4. ASSUME NEW v \in Waiters, NEW goal \in Targets, WaitFor(v, goal)
        PROVE  TypeOK'
    <3>1. goal \in Phase
      OBVIOUS
    <3>2. CASE phase >= goal
      <4> DEFINE r == phase = goal \/ goal >= Terminating \/ phase < Terminating
      <4>1. r \in BOOLEAN /\ found' = [found EXCEPT ![v] = r]
        BY <2>4, <3>2 DEF WaitFor, Return
      <4> HIDE DEF r
      <4>2. found' \in [Waiters -> BOOLEAN]
        BY <4>1 DEF TypeOK
      <4>3. /\ vpc' = [vpc EXCEPT ![v] = "returned"]
            /\ target' = [target EXCEPT ![v] = goal]
            /\ UNCHANGED <<lifecycle, callers, now, history>>
        BY <2>4, <3>2 DEF WaitFor, Return
      <4> QED BY <3>1, <4>2, <4>3 DEF TypeOK
    <3>3. CASE ~(phase >= goal)
      BY <2>4, <3>1, <3>3 DEF WaitFor, TypeOK
    <3> QED BY <3>2, <3>3
  <2>5. ASSUME NEW v \in Waiters, Receive(v) PROVE TypeOK'
    <3>1. /\ chan' \in Seq(Phase)
          /\ UNCHANGED <<phase, started, target, callers, now, history>>
      BY <2>5 DEF Receive, TypeOK
    <3>2. /\ vpc' \in [Waiters -> {"ready", "recv", "returned"}]
          /\ found' \in [Waiters -> BOOLEAN]
      BY <2>5 DEF Receive, Return, TypeOK
    <3> QED BY <3>1, <3>2 DEF TypeOK
  <2>7. CASE Tick
    BY <2>7 DEF Tick, TypeOK
  <2>8. CASE UNCHANGED vars
    BY <2>8 DEF vars, TypeOK
  <2> QED
    BY <2>1, <2>2, <2>3, <2>4, <2>5, <2>6, <2>7, <2>8 DEF Next
<1> QED BY <1>1, <1>2, PTL DEF Spec

-----------------------------------------------------------------------------
(* The channel never fills *)

\* A thread leaving the ready state joins the announcing ones, a thread that
\* has sent leaves them.
LEMMA AnnouncingChanges ==
  ASSUME TypeOK, NEW t \in Threads
  PROVE  /\ Cardinality(Announcing) \in Nat
         /\ tpc[t] = "ready" /\ tpc' = [tpc EXCEPT ![t] = "clock"] =>
              Cardinality(Announcing') = Cardinality(Announcing) + 1
         /\ tpc[t] = "send" /\ tpc' = [tpc EXCEPT ![t] = "ready"] =>
              Cardinality(Announcing') = Cardinality(Announcing) - 1
         /\ tpc[t] = "clock" /\ tpc' = [tpc EXCEPT ![t] = "store"] =>
              Announcing' = Announcing
         /\ tpc[t] = "store" /\ tpc' = [tpc EXCEPT ![t] = "send"] =>
              Announcing' = Announcing
<1>1. IsFiniteSet(Announcing) /\ Cardinality(Announcing) \in Nat
  BY FS_Subset, FS_CardinalityType DEF Announcing
<1>2. tpc[t] = "ready" /\ tpc' = [tpc EXCEPT ![t] = "clock"] =>
        Announcing' = Announcing \cup {t} /\ t \notin Announcing
  BY DEF Announcing, TypeOK
<1>3. tpc[t] = "send" /\ tpc' = [tpc EXCEPT ![t] = "ready"] =>
        Announcing' = Announcing \ {t} /\ t \in Announcing
  BY DEF Announcing, TypeOK
<1>4. \/ tpc[t] = "clock" /\ tpc' = [tpc EXCEPT ![t] = "store"]
      \/ tpc[t] = "store" /\ tpc' = [tpc EXCEPT ![t] = "send"]
      => Announcing' = Announcing
  BY DEF Announcing, TypeOK
<1> QED BY <1>1, <1>2, <1>3, <1>4, FS_AddElement, FS_RemoveElement

\* Messages in the channel plus messages still to be sent never outnumber
\* the steps the phase has taken, for any number of racing threads.
THEOREM AnnouncementsPaidFor == Spec => []AnnouncementsBounded
<1>1. Init => AnnouncementsBounded
  <2> SUFFICES ASSUME Init PROVE AnnouncementsBounded
    OBVIOUS
  <2>1. Announcing = {} /\ Cardinality(Announcing) = 0
    BY FS_EmptySet DEF Init, Announcing
  <2> QED BY <2>1 DEF Init, AnnouncementsBounded
<1>2. TypeOK /\ AnnouncementsBounded /\ [Next]_vars => AnnouncementsBounded'
  <2> SUFFICES ASSUME TypeOK, AnnouncementsBounded, [Next]_vars
               PROVE  AnnouncementsBounded'
    OBVIOUS
  <2>0. /\ Cardinality(Announcing) \in Nat /\ Len(chan) \in Nat
        /\ phase \in Nat
    BY FS_Subset, FS_CardinalityType DEF Announcing, TypeOK
  <2>1. ASSUME NEW t \in Threads, NEW to \in Requests, Raise(t, to)
        PROVE  AnnouncementsBounded'
    <3>1. CASE phase < to
      <4>1. Cardinality(Announcing') = Cardinality(Announcing) + 1
        BY <2>1, <3>1, AnnouncingChanges DEF Raise, Enter
      <4>2. phase' >= phase + 1 /\ phase' \in Nat /\ chan' = chan
        BY <2>1, <3>1 DEF Raise, Enter, TypeOK
      <4> QED BY <2>0, <4>1, <4>2 DEF AnnouncementsBounded
    <3>2. CASE ~(phase < to)
      BY <2>1, <3>2 DEF Raise, AnnouncementsBounded, Announcing
    <3> QED BY <3>1, <3>2
  <2>2. ASSUME NEW t \in Threads, ReadClock(t) \/ Stamp(t) PROVE AnnouncementsBounded'
    BY <2>2, AnnouncingChanges DEF ReadClock, Stamp, AnnouncementsBounded
  <2>3. ASSUME NEW t \in Threads, Send(t) PROVE AnnouncementsBounded'
    <3>1. Cardinality(Announcing') = Cardinality(Announcing) - 1
      BY <2>3, AnnouncingChanges DEF Send
    <3>2. Len(chan') = Len(chan) + 1 /\ phase' = phase
      BY <2>3 DEF Send, TypeOK
    <3> QED BY <2>0, <3>1, <3>2 DEF AnnouncementsBounded
  <2>4. ASSUME NEW v \in Waiters, Receive(v) PROVE AnnouncementsBounded'
    <3>1. Len(chan') = Len(chan) - 1 /\ phase' = phase /\ Announcing' = Announcing
      BY <2>4 DEF Receive, TypeOK, Announcing
    <3> QED BY <2>0, <3>1 DEF AnnouncementsBounded
  <2>5. CASE UNCHANGED <<phase, chan, tpc>>
    BY <2>5 DEF AnnouncementsBounded, Announcing
  <2> QED
    BY <2>1, <2>2, <2>3, <2>4, <2>5
    DEF Next, WaitFor, Tick, vars
<1> QED BY <1>1, <1>2, TypeCorrect, PTL DEF Spec

\* Subject::next as transition uses it always finds room in the channel, so
\* the thread that moves the daemon to its next phase is never held up by
\* subscribers that do not read.
THEOREM TransitionNeverBlocks ==
  Spec => [](\A t \in Threads : tpc[t] = "send" => Len(chan) < Capacity)
<1>1. TypeOK /\ AnnouncementsBounded =>
        \A t \in Threads : tpc[t] = "send" => Len(chan) < Capacity
  <2> SUFFICES ASSUME TypeOK, AnnouncementsBounded,
                      NEW t \in Threads, tpc[t] = "send"
               PROVE  Len(chan) < Capacity
    OBVIOUS
  <2>1. IsFiniteSet(Announcing) /\ t \in Announcing
    BY FS_Subset DEF Announcing
  <2>2. Cardinality(Announcing) \in Nat /\ Cardinality(Announcing) # 0
    BY <2>1, FS_EmptySet, FS_CardinalityType
  <2> QED BY <2>2 DEF AnnouncementsBounded, TypeOK
<1> QED BY <1>1, TypeCorrect, AnnouncementsPaidFor, PTL

-----------------------------------------------------------------------------
(* wait_for tells the truth *)

\* No message, sent or about to be, is ahead of the register.
MessagesBehindPhase ==
  /\ \A i \in 1..Len(chan) : chan[i] <= phase
  /\ \A t \in Announcing : req[t] <= phase

\* Answers of wait_for are true, and stay so because messages only lag.
LEMMA MessagesSound == Spec => [](WaitForSound /\ MessagesBehindPhase)
<1> DEFINE Inv == WaitForSound /\ MessagesBehindPhase
<1>1. Init => Inv
  BY DEF Init, WaitForSound, MessagesBehindPhase, Announcing
<1>2. TypeOK /\ Inv /\ [Next]_vars => Inv'
  <2> SUFFICES ASSUME TypeOK, WaitForSound, MessagesBehindPhase, [Next]_vars
               PROVE  WaitForSound' /\ MessagesBehindPhase'
    OBVIOUS
  <2>1. ASSUME NEW t \in Threads, NEW to \in Requests, Raise(t, to)
        PROVE  WaitForSound' /\ MessagesBehindPhase'
    <3>1. CASE phase < to
      <4>1. /\ phase' = to /\ to \in Phase /\ chan' = chan
            /\ req' = [req EXCEPT ![t] = to]
            /\ tpc' = [tpc EXCEPT ![t] = "clock"] /\ UNCHANGED waiting
        BY <2>1, <3>1 DEF Raise, Enter
      <4>2. /\ \A i \in 1..Len(chan) : chan[i] \in Phase
            /\ \A u \in Threads : req[u] \in Phase
            /\ \A v \in Waiters : target[v] \in Phase
            /\ phase \in Phase
        BY DEF TypeOK
      <4>3. \A i \in 1..Len(chan') : chan'[i] <= phase'
        BY <3>1, <4>1, <4>2 DEF MessagesBehindPhase
      <4>4. \A u \in Announcing' : req'[u] <= phase'
        <5> TAKE u \in Announcing'
        <5>1. CASE u = t
          BY <4>1, <5>1 DEF TypeOK
        <5>2. CASE u # t
          <6>1. u \in Announcing /\ req'[u] = req[u]
            BY <4>1, <5>2 DEF Announcing, TypeOK
          <6> QED BY <3>1, <4>1, <4>2, <6>1 DEF MessagesBehindPhase, Announcing
        <5> QED BY <5>1, <5>2
      <4>5. WaitForSound'
        BY <3>1, <4>1, <4>2 DEF WaitForSound
      <4> QED BY <4>3, <4>4, <4>5 DEF MessagesBehindPhase
    <3>2. CASE ~(phase < to)
      BY <2>1, <3>2 DEF Raise, WaitForSound, MessagesBehindPhase, Announcing
    <3> QED BY <3>1, <3>2
  <2>2. ASSUME NEW t \in Threads, ReadClock(t) \/ Stamp(t)
        PROVE  WaitForSound' /\ MessagesBehindPhase'
    BY <2>2, AnnouncingChanges
    DEF ReadClock, Stamp, WaitForSound, MessagesBehindPhase
  <2>3. ASSUME NEW t \in Threads, Send(t)
        PROVE  WaitForSound' /\ MessagesBehindPhase'
    <3>1. WaitForSound'
      BY <2>3 DEF Send, WaitForSound
    <3>2. \A i \in 1..Len(chan') : chan'[i] <= phase'
      <4>1. req[t] <= phase
        BY <2>3 DEF Send, MessagesBehindPhase, Announcing
      <4> QED BY <2>3, <4>1 DEF Send, MessagesBehindPhase, TypeOK
    <3>3. \A u \in Announcing' : req'[u] <= phase'
      BY <2>3 DEF Send, MessagesBehindPhase, Announcing, TypeOK
    <3> QED BY <3>1, <3>2, <3>3 DEF MessagesBehindPhase
  <2>4. ASSUME NEW v \in Waiters, NEW goal \in Targets, WaitFor(v, goal)
        PROVE  WaitForSound' /\ MessagesBehindPhase'
    <3>1. MessagesBehindPhase'
      BY <2>4 DEF WaitFor, MessagesBehindPhase, Announcing
    <3>2. CASE phase >= goal
      <4> DEFINE r == phase = goal \/ goal >= Terminating \/ phase < Terminating
      <4>1. /\ vpc' = [vpc EXCEPT ![v] = "returned"]
            /\ target' = [target EXCEPT ![v] = goal]
            /\ found' = [found EXCEPT ![v] = r]
            /\ phase' = phase
        BY <2>4, <3>2 DEF WaitFor, Return
      <4>2. ~r => phase >= Terminating /\ goal < Terminating
        BY DEF TypeOK
      <4> HIDE DEF r
      <4> QED BY <3>1, <3>2, <4>1, <4>2 DEF WaitForSound, TypeOK
    <3>3. CASE ~(phase >= goal)
      BY <2>4, <3>1, <3>3 DEF WaitFor, WaitForSound, TypeOK
    <3> QED BY <3>2, <3>3
  <2>5. ASSUME NEW v \in Waiters, Receive(v)
        PROVE  WaitForSound' /\ MessagesBehindPhase'
    <3>1. /\ Head(chan) = chan[1] /\ chan[1] <= phase /\ chan[1] \in Phase
          /\ chan' = Tail(chan)
          /\ UNCHANGED <<phase, target, callers>>
      <4>1. chan # << >> /\ chan \in Seq(Phase)
        BY <2>5 DEF Receive, TypeOK
      <4>2. Head(chan) = chan[1] /\ 1 \in 1..Len(chan) /\ chan[1] \in Phase
        BY <4>1
      <4> QED BY <2>5, <4>2 DEF Receive, MessagesBehindPhase
    <3>2. MessagesBehindPhase'
      <4>1. \A i \in 1..Len(chan') : chan'[i] = chan[i + 1] /\ i + 1 \in 1..Len(chan)
        BY <2>5, <3>1 DEF Receive, TypeOK
      <4> QED BY <3>1, <4>1 DEF MessagesBehindPhase, Announcing
    <3>3. WaitForSound'
      <4>1. target[v] \in Phase /\ phase \in Phase
        BY DEF TypeOK
      <4>2. CASE Return(v, TRUE) /\ chan[1] >= target[v]
        BY <3>1, <4>1, <4>2 DEF Return, WaitForSound, TypeOK
      <4>3. CASE Return(v, FALSE) /\ chan[1] >= Terminating /\ target[v] < Terminating
        BY <3>1, <4>1, <4>3 DEF Return, WaitForSound, TypeOK
      <4>4. CASE UNCHANGED <<vpc, found>>
        BY <3>1, <4>4 DEF WaitForSound
      <4>5. \/ Return(v, TRUE) /\ chan[1] >= target[v]
            \/ Return(v, FALSE) /\ chan[1] >= Terminating /\ target[v] < Terminating
            \/ UNCHANGED <<vpc, found>>
        BY <2>5, <3>1, <4>1 DEF Receive, Return
      <4> QED BY <4>2, <4>3, <4>4, <4>5
    <3> QED BY <3>2, <3>3
  <2>6. CASE UNCHANGED <<phase, chan, callers, waiting>>
    BY <2>6 DEF WaitForSound, MessagesBehindPhase, Announcing
  <2> QED
    BY <2>1, <2>2, <2>3, <2>4, <2>5, <2>6
    DEF Next, Tick, vars
<1> QED BY <1>1, <1>2, TypeCorrect, PTL DEF Spec

\* A caller of wait_for that got true finds the register at its target or
\* beyond, and one that got false finds the daemon stopping, although both
\* answers may come from messages sent long before.
THEOREM WaitForTellsTheTruth == Spec => []WaitForSound
<1>1. WaitForSound /\ MessagesBehindPhase => WaitForSound
  OBVIOUS
<1> QED BY <1>1, MessagesSound, PTL

\* transition: whichever threads race to enter a phase, its announcement is in
\* the channel, or on its way there, once: fetch_max lets one of them go on,
\* and a phase is entered only from below every message before it.
THEOREM AnnouncedOnce == Spec => []NoPhaseAnnouncedTwice
<1>1. Init => NoPhaseAnnouncedTwice
  BY DEF Init, NoPhaseAnnouncedTwice, Announcing
<1>2. TypeOK /\ MessagesBehindPhase /\ NoPhaseAnnouncedTwice /\ [Next]_vars => NoPhaseAnnouncedTwice'
  <2> SUFFICES ASSUME TypeOK, MessagesBehindPhase, NoPhaseAnnouncedTwice, [Next]_vars
               PROVE  NoPhaseAnnouncedTwice'
    BY Zenon
  <2>1. ASSUME NEW t \in Threads, NEW to \in Requests, Raise(t, to)
        PROVE  NoPhaseAnnouncedTwice'
    <3>1. CASE phase < to
      <4>1. /\ chan' = chan /\ to \in Phase
            /\ Announcing' = Announcing \cup {t} /\ t \notin Announcing
            /\ req'[t] = to /\ \A u \in Announcing : req'[u] = req[u]
        BY <2>1, <3>1 DEF Raise, Enter, Announcing, TypeOK
      <4>2. \A i \in 1..Len(chan) : chan[i] # to
        BY <3>1, <4>1 DEF MessagesBehindPhase, TypeOK
      <4>3. \A u \in Announcing : req[u] # to
        BY <3>1, <4>1 DEF MessagesBehindPhase, Announcing, TypeOK
      <4> QED BY SMTT(40), <4>1, <4>2, <4>3 DEF NoPhaseAnnouncedTwice
    <3>2. CASE ~(phase < to)
      BY Zenon, <2>1, <3>2 DEF Raise, NoPhaseAnnouncedTwice, Announcing
    <3> QED BY Zenon, <3>1, <3>2
  <2>2. ASSUME NEW t \in Threads, ReadClock(t) \/ Stamp(t) PROVE NoPhaseAnnouncedTwice'
    <3>1. Announcing' = Announcing /\ req' = req /\ chan' = chan
      BY <2>2, AnnouncingChanges DEF ReadClock, Stamp
    <3> QED BY ZenonT(40), <3>1 DEF NoPhaseAnnouncedTwice
  <2>3. ASSUME NEW t \in Threads, Send(t) PROVE NoPhaseAnnouncedTwice'
    <3>1. /\ Announcing' = Announcing \ {t} /\ t \in Announcing /\ req' = req
          /\ Len(chan) \in Nat /\ Len(chan') = Len(chan) + 1
          /\ chan'[Len(chan) + 1] = req[t] /\ \A i \in 1..Len(chan) : chan'[i] = chan[i]
      BY <2>3 DEF Send, Announcing, TypeOK
    <3>2. \A i \in 1..Len(chan') : i \in 1..Len(chan) \/ i = Len(chan) + 1
      BY <3>1
    <3> QED BY SMTT(40), <3>1, <3>2 DEF NoPhaseAnnouncedTwice
  <2>4. ASSUME NEW v \in Waiters, Receive(v) PROVE NoPhaseAnnouncedTwice'
    <3>1. /\ Announcing' = Announcing /\ req' = req
          /\ \A i \in 1..Len(chan') : chan'[i] = chan[i + 1] /\ i + 1 \in 1..Len(chan)
      BY <2>4 DEF Receive, Announcing, TypeOK
    <3> QED BY <3>1 DEF NoPhaseAnnouncedTwice
  <2>5. CASE UNCHANGED <<chan, callers>>
    BY Zenon, <2>5 DEF NoPhaseAnnouncedTwice, Announcing
  <2> QED
    BY Zenon, <2>1, <2>2, <2>3, <2>4, <2>5 DEF Next, WaitFor, Tick, vars
<1> QED BY <1>1, <1>2, TypeCorrect, MessagesSound, PTL DEF Spec

-----------------------------------------------------------------------------
(* The time in the phase *)

\* Unless the phase was entered past a store still to come, the only thread
\* yet to store is the one that entered it, with a clock read since.
StampInv ==
  /\ raisedAt <= now
  /\ \A t \in Threads : overtaken = {} /\ tpc[t] = "store" => reading[t] >= raisedAt
  /\ \A t, u \in Stamping : overtaken = {} => t = u
  /\ ElapsedNeverOverstated

\* ms_in_current_phase does not overstate the time in a phase entered when no
\* other transition had a start time still to store: transition reads its
\* clock after its fetch_max.
THEOREM ElapsedNeverTooLong == Spec => []ElapsedNeverOverstated
<1>1. Init => StampInv
  BY DEF Init, StampInv, Stamping, ElapsedNeverOverstated
<1>2. TypeOK /\ StampInv /\ [Next]_vars => StampInv'
  <2> SUFFICES ASSUME TypeOK, StampInv, [Next]_vars PROVE StampInv'
    OBVIOUS
  <2>1. ASSUME NEW t \in Threads, NEW to \in Requests, Raise(t, to) PROVE StampInv'
    <3>1. CASE phase < to
      <4>1. /\ raisedAt' = now /\ now' = now /\ reading' = reading
            /\ tpc' = [tpc EXCEPT ![t] = "clock"]
            /\ Stamping' = Stamping \cup {t}
            /\ overtaken' = {} => Stamping = {}
        BY <2>1, <3>1 DEF Raise, Enter, Stamping, TypeOK
      <4>2. \A u \in Threads : overtaken' = {} /\ tpc'[u] = "store" => FALSE
        BY <4>1 DEF Stamping, TypeOK
      <4> QED BY <4>1, <4>2 DEF StampInv, ElapsedNeverOverstated, TypeOK
    <3>2. CASE ~(phase < to)
      BY <2>1, <3>2 DEF Raise, StampInv, Stamping, ElapsedNeverOverstated
    <3> QED BY <3>1, <3>2
  <2>2. ASSUME NEW t \in Threads, ReadClock(t) PROVE StampInv'
    <3>1. /\ Stamping' = Stamping /\ t \in Stamping
          /\ UNCHANGED <<started, now, raisedAt, overtaken>>
          /\ reading' = [reading EXCEPT ![t] = now]
          /\ tpc' = [tpc EXCEPT ![t] = "store"]
      BY <2>2 DEF ReadClock, Stamping, TypeOK
    <3>2. \A u \in Threads : overtaken' = {} /\ tpc'[u] = "store" => reading'[u] >= raisedAt'
      BY <3>1 DEF StampInv, TypeOK
    <3> QED BY <3>1, <3>2 DEF StampInv, ElapsedNeverOverstated
  <2>3. ASSUME NEW t \in Threads, Stamp(t) PROVE StampInv'
    <3>1. /\ Stamping' = Stamping \ {t} /\ t \in Stamping
          /\ started' = reading[t] /\ reading' = reading
          /\ UNCHANGED <<now, raisedAt, overtaken>>
          /\ \A u \in Threads : tpc'[u] = "store" => tpc[u] = "store"
          /\ tpc[t] = "store"
      BY <2>3 DEF Stamp, Stamping, TypeOK
    <3>2. overtaken = {} => started' >= raisedAt
      BY <3>1 DEF StampInv
    <3> QED BY <3>1, <3>2 DEF StampInv, ElapsedNeverOverstated
  <2>4. ASSUME NEW t \in Threads, Send(t) PROVE StampInv'
    <3>1. /\ Stamping' = Stamping
          /\ \A u \in Threads : tpc'[u] = "store" => tpc[u] = "store"
          /\ UNCHANGED <<started, reading, now, raisedAt, overtaken>>
      BY <2>4 DEF Send, Stamping, TypeOK
    <3> QED BY <3>1 DEF StampInv, ElapsedNeverOverstated
  <2>5. CASE Tick
    BY <2>5 DEF Tick, StampInv, Stamping, ElapsedNeverOverstated, TypeOK
  <2>6. CASE UNCHANGED <<started, callers, now, history>>
    BY <2>6 DEF StampInv, Stamping, ElapsedNeverOverstated
  <2> QED
    BY <2>1, <2>2, <2>3, <2>4, <2>5, <2>6 DEF Next, WaitFor, Receive, vars
<1>3. StampInv => ElapsedNeverOverstated
  BY DEF StampInv
<1> QED BY <1>1, <1>2, <1>3, TypeCorrect, PTL DEF Spec
=============================================================================
