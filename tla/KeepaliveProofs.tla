-------------------------- MODULE KeepaliveProofs --------------------------
(***************************************************************************)
(* The keepalive clock for every heartbeat, round trip and lateness: no    *)
(* false alarm while the round trip is below the timeout, and detection in *)
(* bounded time provided the timeout is no longer than the heartbeat.      *)
(***************************************************************************)
EXTENDS Keepalive, TLAPS

T == keepalive_timeout_ms

\* The timeout is a natural number.
LEMMA TimeoutNat == T \in Nat /\ T # 0
  BY KeepaliveAssumption DEF T, keepalive_timeout_ms

\* A session that has just been set up has well-typed timer state.
LEMMA InitTypeOK == Init => TypeOK
  <1> SUFFICES ASSUME Init PROVE TypeOK
    OBVIOUS
  <1>1. /\ started \in BOOLEAN /\ outstanding \in BOOLEAN /\ dead \in BOOLEAN
        /\ up \in BOOLEAN
    BY Zenon DEF Init
  <1>2. age \in Nat /\ due \in Int /\ call \in Int /\ silence \in Nat
    BY DEF Init
  <1>3. flight \subseteq 0 .. MaxRtt
    BY Zenon DEF Init
  <1> QED
    BY <1>1, <1>2, <1>3, Zenon DEF TypeOK

\* Every step of the clock, the timer and the peer keeps the types.
LEMMA NextTypeOK == TypeOK /\ [Next]_vars => TypeOK'
  <1> SUFFICES ASSUME TypeOK, [Next]_vars PROVE TypeOK'
    OBVIOUS
  <1> USE KeepaliveAssumption
  <1>1. CASE TimerStarts
    BY <1>1 DEF TypeOK, TimerStarts
  <1>2. CASE TimerExpires
    BY <1>2 DEF TypeOK, TimerExpires
  <1>3. CASE TimerPings
    BY <1>3, TimeoutNat DEF TypeOK, TimerPings, Least, T
  <1>4. CASE TimerIdle
    BY <1>4, TimeoutNat DEF TypeOK, TimerIdle, Least, T
  <1>5. CASE Echo
    BY <1>5 DEF TypeOK, Echo
  <1>6. CASE PeerDies
    BY <1>6 DEF TypeOK, PeerDies
  <1>7. CASE Tick
    BY <1>7 DEF TypeOK, Tick
  <1>8. CASE UNCHANGED vars
    BY <1>8 DEF TypeOK, vars
  <1> QED
    BY <1>1, <1>2, <1>3, <1>4, <1>5, <1>6, <1>7, <1>8 DEF Next, mux_on_timer

\* The clock stays well formed.
THEOREM KeepaliveTyped == Spec => []TypeOK
  BY InitTypeOK, NextTypeOK, PTL DEF Spec
-----------------------------------------------------------------------------
(***************************************************************************)
(* No false alarm: the echo of the PING being timed is always on its way.  *)
(***************************************************************************)
EchoOnItsWay == up /\ outstanding => age \in flight

\* mux_on_timer does not give up a live peer that answers within the timeout.
THEOREM KeepaliveNoFalseAlarm ==
  ASSUME MaxRtt < T
  PROVE  Spec => []NoFalseAlarm
  <1> DEFINE I == EchoOnItsWay /\ NoFalseAlarm
  <1>1. Init => I
    BY DEF Init, EchoOnItsWay, NoFalseAlarm
  <1>2. TypeOK /\ I /\ [Next]_vars => I'
    <2> SUFFICES ASSUME TypeOK, EchoOnItsWay, NoFalseAlarm, [Next]_vars PROVE I'
      OBVIOUS
    <2> USE DEF EchoOnItsWay, NoFalseAlarm
    <2>1. CASE TimerStarts
      BY <2>1 DEF TimerStarts
    <2>2. CASE TimerExpires
      <3>1. age >= T /\ outstanding
        BY <2>2 DEF TimerExpires, Expired, T
      <3>2. age \notin flight
        BY <3>1, TimeoutNat, KeepaliveAssumption DEF TypeOK
      <3> QED
        BY <2>2, <3>1, <3>2 DEF TimerExpires
    <2>3. CASE TimerPings
      BY <2>3 DEF TimerPings
    <2>4. CASE TimerIdle
      BY <2>4 DEF TimerIdle
    <2>5. CASE Echo
      BY <2>5 DEF Echo
    <2>6. CASE PeerDies
      BY <2>6 DEF PeerDies
    <2>7. CASE Tick
      BY <2>7 DEF Tick
    <2>8. CASE UNCHANGED vars
      BY <2>8 DEF vars
    <2> QED
      BY <2>1, <2>2, <2>3, <2>4, <2>5, <2>6, <2>7, <2>8 DEF Next, mux_on_timer
  <1>3. I => NoFalseAlarm
    OBVIOUS
  <1> QED
    BY <1>1, <1>2, <1>3, KeepaliveTyped, PTL DEF Spec
-----------------------------------------------------------------------------
(***************************************************************************)
(* Detection.  Spent bounds the time since the peer went away by what the  *)
(* clock shows: while its echoes may still arrive, while the next PING is  *)
(* awaited, and while that PING is timed.                                  *)
(***************************************************************************)
Armed ==
  /\ call >= -MaxLate
  /\ ~started => ~outstanding /\ flight = {} /\ silence <= -call
  /\ started => call <= due /\ due <= Heartbeat
  /\ outstanding => started /\ age + call <= T /\ age + due = Heartbeat

Spent ==
  /\ up => silence = 0
  /\ \A a \in flight : silence <= a
  /\ started /\ ~outstanding /\ flight = {}
       => silence + due <= MaxRtt + MaxLate + Heartbeat
  /\ outstanding => silence <= MaxRtt + 2 * MaxLate + Heartbeat + age

\* While the session lives, Spent and Armed bound the silence.
LEMMA SpentBounds ==
  ASSUME TypeOK, Armed, Spent
  PROVE  silence <= DetectionBound
  <1> USE TimeoutNat, KeepaliveAssumption
  <1>1. CASE outstanding
    BY <1>1 DEF TypeOK, Armed, Spent, DetectionBound, T
  <1>2. CASE ~outstanding /\ ~started
    BY <1>2 DEF TypeOK, Armed, DetectionBound, T
  <1>3. CASE ~outstanding /\ started /\ flight = {}
    BY <1>3 DEF TypeOK, Armed, Spent, DetectionBound, T
  <1>4. CASE flight # {}
    <2>1. PICK a \in flight : silence <= a
      BY <1>4 DEF Spent
    <2>2. a \in 0 .. MaxRtt
      BY DEF TypeOK
    <2> QED
      BY <2>1, <2>2 DEF TypeOK, DetectionBound, T
  <1> QED
    BY <1>1, <1>2, <1>3, <1>4

\* A new session has no PING out and its peer has not been silent.
LEMMA InitArmed == Init => Armed /\ Spent
  <1> SUFFICES ASSUME Init PROVE Armed /\ Spent
    OBVIOUS
  <1>1. ~started /\ ~outstanding /\ flight = {} /\ up
    BY Zenon DEF Init
  <1>2. call = 0 /\ silence = 0
    BY DEF Init
  <1> QED
    BY <1>1, <1>2, KeepaliveAssumption DEF Armed, Spent

\* Every step keeps the bounds on how long a silent peer can go unnoticed.
LEMMA NextArmed ==
  ASSUME T <= Heartbeat, TypeOK, dead \/ (Armed /\ Spent), [Next]_vars
  PROVE  dead' \/ (Armed' /\ Spent')
  <1> USE TimeoutNat, KeepaliveAssumption
  <1>0. CASE dead
    BY <1>0 DEF Next, mux_on_timer, TimerStarts, TimerExpires, TimerPings, TimerIdle,
                Echo, PeerDies, Tick, vars
  <1> SUFFICES ASSUME ~dead, Armed, Spent PROVE dead' \/ (Armed' /\ Spent')
    BY <1>0
  <1>1. CASE TimerStarts
    BY <1>1 DEF TypeOK, Armed, Spent, TimerStarts
  <1>2. CASE TimerExpires
    BY <1>2 DEF TimerExpires
  <1>3. CASE TimerPings
    <2>1. ~outstanding
      BY <1>3 DEF TypeOK, Armed, TimerPings, Expired, T
    <2>2. Armed'
      BY <1>3 DEF TypeOK, Armed, TimerPings, Least, T
    <2>3. silence <= MaxRtt + 2 * MaxLate + Heartbeat
      <3>1. CASE flight = {}
        BY <1>3, <2>1, <3>1 DEF TypeOK, Armed, Spent, TimerPings
      <3>2. CASE flight # {}
        <4>1. PICK a \in flight : silence <= a
          BY <3>2 DEF Spent
        <4>2. a \in 0 .. MaxRtt
          BY DEF TypeOK
        <4> QED
          BY <4>1, <4>2 DEF TypeOK
      <3> QED
        BY <3>1, <3>2
    <2>4. Spent'
      BY <1>3, <2>3 DEF TypeOK, Spent, TimerPings
    <2> QED
      BY <2>2, <2>4
  <1>4. CASE TimerIdle
    <2>1. Armed'
      BY <1>4 DEF TypeOK, Armed, TimerIdle, Expired, Least, T
    <2>2. Spent'
      BY <1>4 DEF Spent, TimerIdle
    <2> QED
      BY <2>1, <2>2
  <1>5. CASE Echo
    <2>1. Armed'
      BY <1>5 DEF TypeOK, Armed, Echo
    <2>2. PICK a \in flight : silence <= a
      BY <1>5 DEF Echo, Spent
    <2>3. a \in 0 .. MaxRtt
      BY DEF TypeOK
    <2>4. started
      BY <2>2 DEF Armed
    <2>5. silence + due <= MaxRtt + MaxLate + Heartbeat
      BY <2>2, <2>3, <2>4 DEF TypeOK, Armed
    <2>6. Spent'
      BY <1>5, <2>5 DEF Echo, Spent
    <2> QED
      BY <2>1, <2>6
  <1>6. CASE PeerDies
    <2>1. Armed'
      BY <1>6 DEF Armed, PeerDies
    <2>2. Spent'
      BY <1>6 DEF TypeOK, Armed, Spent, PeerDies
    <2> QED
      BY <2>1, <2>2
  <1>7. CASE Tick
    <2>0. /\ age' = age + 1 /\ due' = due - 1 /\ call' = call - 1
          /\ flight' = {a + 1 : a \in flight}
          /\ silence' \in Nat /\ silence' <= silence + 1 /\ (up => silence' = 0)
      BY <1>7 DEF TypeOK, Tick
    <2>1. Armed'
      BY <1>7, <2>0 DEF TypeOK, Armed, Tick
    <2>2. \A a \in flight' : silence' <= a
      BY <2>0 DEF TypeOK, Spent
    <2>3. flight' = {} <=> flight = {}
      BY <2>0
    <2>4. Spent'
      BY <1>7, <2>0, <2>2, <2>3 DEF TypeOK, Spent, Tick
    <2> QED
      BY <2>1, <2>4
  <1>8. CASE UNCHANGED vars
    BY <1>8 DEF Armed, Spent, vars
  <1> QED
    BY <1>1, <1>2, <1>3, <1>4, <1>5, <1>6, <1>7, <1>8 DEF Next, mux_on_timer

\* With a timeout no longer than the heartbeat, mux_on_timer gives up a silent
\* peer within DetectionBound.
THEOREM KeepaliveDetects ==
  ASSUME T <= Heartbeat
  PROVE  Spec => []DetectedInTime
  <1> DEFINE I == dead \/ (Armed /\ Spent)
  <1>1. Init => I
    BY InitArmed
  <1>2. TypeOK /\ I /\ [Next]_vars => I'
    BY NextArmed
  <1>3. TypeOK /\ I => DetectedInTime
    BY SpentBounds DEF DetectedInTime
  <1> HIDE DEF I
  <1> QED
    BY <1>1, <1>2, <1>3, KeepaliveTyped, PTL DEF Spec
=============================================================================
