----------------------------- MODULE Keepalive -----------------------------
(***************************************************************************)
(* The keepalive clock of a session: mux_on_timer, the host loop that      *)
(* calls it, and a peer that echoes PINGs until it goes away.              *)
(*                                                                         *)
(* Times are kept relative to the clock: age is now_ms - ping_sent_ms, due *)
(* is ping_due_ms - now_ms, and call is the deadline mux_on_timer returned *)
(* minus now_ms.  A full output buffer, the other way to die here, belongs *)
(* to module Session.                                                      *)
(***************************************************************************)
EXTENDS Integers

CONSTANTS
  Heartbeat,        \* heartbeat_ms (0 disables the timer and is not modelled)
  ConfigTimeout,    \* keepalive_timeout_ms of the configuration
  MaxRtt,           \* an echo takes at most this long
  MaxLate           \* the host calls at most this long after the deadline

ASSUME KeepaliveAssumption ==
  /\ Heartbeat \in Nat \ {0}
  /\ ConfigTimeout \in Nat
  /\ MaxRtt \in Nat
  /\ MaxLate \in Nat

VARIABLES
  started,          \* timer_started
  outstanding,      \* ping_outstanding
  age, due,         \* ping_sent_ms and ping_due_ms
  dead,             \* the session has raised FATAL
  call,             \* when the host is to call mux_on_timer again
  up,               \* the peer is alive
  flight,           \* ages of the PINGs whose echo is still to arrive
  silence           \* time since the peer went away, capped

vars == <<started, outstanding, age, due, dead, call, up, flight, silence>>

keepalive_timeout_ms ==
  IF ConfigTimeout # 0 THEN ConfigTimeout ELSE Heartbeat * 3

\* The longest a peer that has gone away may stay undetected: its last echo, the
\* wait for the next PING, the timeout of that PING, and three late calls.
DetectionBound == MaxRtt + Heartbeat + keepalive_timeout_ms + 3 * MaxLate

Least(a, b) == IF a < b THEN a ELSE b

Init ==
  /\ started = FALSE /\ outstanding = FALSE /\ dead = FALSE
  /\ age = 0 /\ due = 0 /\ call = 0
  /\ up = TRUE /\ flight = {} /\ silence = 0
-----------------------------------------------------------------------------
(***************************************************************************)
(* mux_on_timer, by the way it returns.                                    *)
(***************************************************************************)
TimerStarts ==
  /\ ~dead /\ ~started
  /\ started' = TRUE
  /\ due' = Heartbeat /\ call' = Heartbeat
  /\ UNCHANGED <<outstanding, age, dead, up, flight, silence>>

Expired == outstanding /\ age >= keepalive_timeout_ms

TimerExpires ==
  /\ ~dead /\ started /\ Expired
  /\ dead' = TRUE
  /\ UNCHANGED <<started, outstanding, age, due, call, up, flight, silence>>

\* Fault: the next PING is sent before the last one is examined.
TimerPings_first ==
  /\ ~dead /\ started
  /\ due <= 0
  /\ outstanding' = TRUE /\ age' = 0 /\ due' = Heartbeat
  /\ call' = Least(Heartbeat, keepalive_timeout_ms)
  /\ flight' = IF up THEN flight \cup {0} ELSE flight
  /\ UNCHANGED <<started, dead, up, silence>>

TimerPings ==
  /\ ~dead /\ started /\ ~Expired
  /\ due <= 0
  /\ outstanding' = TRUE /\ age' = 0 /\ due' = Heartbeat
  /\ call' = Least(Heartbeat, keepalive_timeout_ms)
  /\ flight' = IF up THEN flight \cup {0} ELSE flight
  /\ UNCHANGED <<started, dead, up, silence>>

TimerIdle ==
  /\ ~dead /\ started /\ ~Expired
  /\ due > 0
  /\ call' = IF outstanding THEN Least(due, keepalive_timeout_ms - age) ELSE due
  /\ UNCHANGED <<started, outstanding, age, due, dead, up, flight, silence>>

mux_on_timer == TimerStarts \/ TimerExpires \/ TimerPings \/ TimerIdle

\* Fault: the echo does not clear the flag.
Echo_ignored ==
  /\ ~dead
  /\ \E a \in flight : (\A b \in flight : b <= a) /\ flight' = flight \ {a}
  /\ UNCHANGED <<started, outstanding, age, due, dead, call, up, silence>>

\* on_ping with ACK: any echo, oldest first, clears the flag; nonces are not
\* compared.
Echo ==
  /\ ~dead
  /\ \E a \in flight :
       /\ \A b \in flight : b <= a
       /\ flight' = flight \ {a}
  /\ outstanding' = FALSE
  /\ UNCHANGED <<started, age, due, dead, call, up, silence>>

\* The peer goes away; the echoes of the PINGs sent at least k ago are already
\* on their way back.
PeerDies ==
  /\ up /\ ~dead
  /\ up' = FALSE
  /\ \E k \in 0 .. MaxRtt + 1 : flight' = {a \in flight : a >= k}
  /\ UNCHANGED <<started, outstanding, age, due, dead, call, silence>>

\* One unit of time; neither the host's call nor an echo may be overdue.
Tick ==
  /\ ~dead
  /\ call > -MaxLate
  /\ \A a \in flight : a < MaxRtt
  /\ age' = age + 1 /\ due' = due - 1 /\ call' = call - 1
  /\ flight' = {a + 1 : a \in flight}
  /\ silence' = IF up THEN 0
                ELSE IF silence <= DetectionBound THEN silence + 1 ELSE silence
  /\ UNCHANGED <<started, outstanding, dead, up>>

Next == mux_on_timer \/ Echo \/ PeerDies \/ Tick

Spec == Init /\ [][Next]_vars

\* Time passes, echoes on the wire arrive and every host loop calls the timer.
FairSpec == Spec /\ WF_vars(Tick) /\ WF_vars(Echo) /\ WF_vars(mux_on_timer)
-----------------------------------------------------------------------------
\* The clock's state is well formed.
TypeOK ==
  /\ started \in BOOLEAN /\ outstanding \in BOOLEAN /\ dead \in BOOLEAN
  /\ up \in BOOLEAN
  /\ age \in Nat /\ due \in Int /\ call \in Int
  /\ flight \subseteq 0 .. MaxRtt
  /\ silence \in Nat

\* mux_on_timer's expiry test never fires on a live peer whose echoes arrive
\* within the timeout.
NoFalseAlarm == dead => ~up

\* A peer that went away is given up within one round trip, one heartbeat and one
\* timeout, whatever late echoes and late calls there were.
DetectedInTime == dead \/ silence <= DetectionBound

\* mux.h on mux_on_timer: `Sends keepalive PINGs and detects a dead peer'; and
\* on keepalive_timeout_ms: `dead if no echo within (0 => 3x hb)'.
DeadPeerDetected == ~up ~> dead
=============================================================================
