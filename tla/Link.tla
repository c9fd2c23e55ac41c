-------------------------------- MODULE Link --------------------------------
(***************************************************************************)
(* Two libmux sessions at the ends of one ordered, reliable transport, and *)
(* the hosts that drive them.  A frame stays in its sender's out until the *)
(* peer's mux_recv takes it: output buffer and transport are one queue.    *)
(* A host calls the API in any order the contract of mux.h allows: it      *)
(* consumes only bytes it was handed and writes only to streams it knows.  *)
(***************************************************************************)
EXTENDS Session

CONSTANTS
  Openers,          \* roles whose host opens streams
  Writers,          \* roles whose host writes stream data
  Closers,          \* roles whose host half-closes its streams
  Resetters,        \* roles whose host resets streams
  Controllers,      \* roles that send PING, CAPACITY and GOAWAY frames
  MaxWrite,         \* bound: bytes offered to one mux_write
  MaxControl        \* bound: control frames of one side not yet received

ASSUME LinkAssumption ==
  /\ Openers \subseteq Role /\ Writers \subseteq Role /\ Closers \subseteq Role
  /\ Resetters \subseteq Role /\ Controllers \subseteq Role
  /\ MaxWrite \in Nat /\ MaxControl \in Nat

VARIABLE ep         \* the session at each end

Alive(x) == ep[x].dead = MUX_CODE_NO_ERROR
Control == {"PING", "CAPACITY", "GOAWAY"}
ControlRoom(x) ==
  /\ x \in Controllers
  /\ Cardinality({i \in DOMAIN ep[x].out : ep[x].out[i].type \in Control})
       < MaxControl

Init == ep = [x \in Role |-> mux_session_new(x)]

Step(x, s) == ep' = [ep EXCEPT ![x] = s]

Open(x) ==
  /\ x \in Openers
  /\ ep[x].next_local_sid <= MaxSid
  /\ mux_open_ok(ep[x], 0)
  /\ Step(x, mux_open(ep[x], 0))

Write(x, sid, n) ==
  /\ x \in Writers
  /\ mux_write_ok(ep[x], sid)
  /\ Step(x, mux_write(ep[x], sid, n))

Close(x, sid) ==
  /\ x \in Closers
  /\ mux_close_ok(ep[x], sid)
  /\ Step(x, mux_close(ep[x], sid))

Reset(x, sid) ==
  /\ x \in Resetters
  /\ mux_reset_ok(ep[x], sid)
  /\ Step(x, mux_reset(ep[x], sid, MUX_CODE_NO_ERROR))

Consume(x, sid, n) ==
  /\ Alive(x)
  /\ n <= ep[x].unread[sid]
  /\ Step(x, mux_consume(ep[x], sid, n))

Capacity(x) ==
  /\ Alive(x)
  /\ ControlRoom(x)
  /\ Step(x, mux_send_capacity(ep[x]))

Goaway(x) ==
  /\ Alive(x)
  /\ ControlRoom(x)
  /\ Step(x, mux_goaway(ep[x]))

\* mux_on_timer, the heartbeat being due.
Heartbeat(x) ==
  /\ Alive(x)
  /\ ControlRoom(x)
  /\ Step(x, send_ping(ep[x]))

\* mux_on_timer, the outstanding PING being older than the timeout.
KeepaliveExpires(x) ==
  /\ Alive(x) /\ x \in Controllers
  /\ ep[x].ping_outstanding
  /\ Step(x, raise_fatal(ep[x], MUX_CODE_INTERNAL))

\* mux_recv, one frame.
Recv(x) ==
  LET y == Peer(x) IN
  /\ Alive(x)
  /\ ep[y].out # <<>>
  /\ ep' = [ep EXCEPT ![x] = process_frame(@, Head(ep[y].out)),
                      ![y].out = Tail(@)]

Next ==
  \E x \in Role :
    \/ Open(x)
    \/ \E sid \in Sids, n \in 1 .. MaxWrite : Write(x, sid, n)
    \/ \E sid \in Sids : Close(x, sid)
    \/ \E sid \in Sids : Reset(x, sid)
    \/ \E sid \in Sids : \E n \in 1 .. ep[x].unread[sid] : Consume(x, sid, n)
    \/ Capacity(x)
    \/ Goaway(x)
    \/ Heartbeat(x)
    \/ KeepaliveExpires(x)
    \/ Recv(x)

Spec == Init /\ [][Next]_ep

(***************************************************************************)
(* Every host loop feeds received bytes to mux_recv, and an application    *)
(* that is still reading consumes what it was handed, which only the peer  *)
(* of a writer ever is.  Nothing obliges a host to open, write, close or   *)
(* reset.                                                                  *)
(***************************************************************************)
Fairness ==
  /\ \A x \in Role : WF_ep(Recv(x))
  /\ \A x \in {Peer(y) : y \in Writers} : \A sid \in Sids :
       WF_ep(\E n \in 1 .. ep[x].unread[sid] : Consume(x, sid, n))

FairSpec == Spec /\ Fairness
-----------------------------------------------------------------------------
(***************************************************************************)
(* Properties that need no count of the bytes on the wire.                 *)
(***************************************************************************)

\* Both ends hold well-formed sessions, each in its own role.
TypeOK == ep \in [Role -> SessionState] /\ \A x \in Role : ep[x].role = x

\* No lost wake-up: a live session flags a stream send_blocked only while one of
\* its two windows is exhausted, so the WINDOW_UPDATE that reopens the window is
\* still to come and on_window_update will wake the stream.
BlockedMeansNoRoom ==
  \A x \in Role : \A sid \in ep[x].send_blocked :
    Alive(x) => ep[x].tab[sid].send_win <= 0 \/ ep[x].sess_send_win <= 0

\* blocked_count is exactly the number of streams flagged send_blocked: the
\* connection-window sweep of on_window_update is skipped when it is zero, so a
\* count that is too low would strand every blocked stream.
BlockedCountExact ==
  \A x \in Role : ep[x].blocked_count = Cardinality(ep[x].send_blocked)

\* A host whose last mux_write came up short, and which therefore waits for
\* MUX_EV_WRITABLE, is remembered by the session as send_blocked.
WaitingIsBlocked ==
  \A x \in Role : Alive(x) => ep[x].waiting = ep[x].send_blocked

\* Until a side has seen its peer's greeting, the greeting is the next frame that
\* reaches it: process_frame fails the session on anything else.
GreetingComesFirst ==
  \A x \in Role :
    ~ep[Peer(x)].peer_hello_seen /\ ep[x].out # <<>>
      => Head(ep[x].out).type \in {"HELLO", "HELLO_ACK"}
=============================================================================
