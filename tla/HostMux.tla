------------------------------ MODULE HostMux ------------------------------
(***************************************************************************)
(* A libmux session as the program that owns it sees it, whatever the peer *)
(* and the wire do: the abstraction of module Session that Relay, Router   *)
(* and LibPeer are built on.  The host calls the mux_* operators; a recv_* *)
(* operator is one frame that mux_recv takes in, with the event it queues. *)
(*                                                                         *)
(* Send windows are not kept: mux_write may take any part of what it is    *)
(* offered, and after a short write nothing until the WRITABLE event.      *)
(* Session shows that a stream is then flagged send_blocked and has no     *)
(* room.  Receive windows are kept as the bytes the host holds.            *)
(***************************************************************************)
EXTENDS Integers, Sequences

CONSTANTS
  MaxSid,           \* bound: streams of one session
  Win,              \* init_window: bytes of a stream the host may hold
  ConnWin           \* session_window: bytes of a session the host may hold

ASSUME HostMuxAssumption ==
  MaxSid \in Nat \ {0} /\ Win \in Nat \ {0} /\ ConnWin \in Nat \ {0}

Sids == 1 .. MaxSid

Life == {"NONE", "OPEN", "HCL_LOCAL", "HCL_REMOTE"}
Stream == [life : Life, send_blocked : BOOLEAN, held : 0 .. Win]
NoStream == [life |-> "NONE", send_blocked |-> FALSE, held |-> 0]

EventType == {"PEER_HELLO", "CAPACITY", "STREAM_OPENED", "STREAM_DATA",
              "STREAM_CLOSED", "STREAM_RESET", "WRITABLE", "FATAL"}
Event == [type : EventType, sid : 0 .. MaxSid, n : Nat]
Ev(type, sid, n) == [type |-> type, sid |-> sid, n |-> n]

\* next_sid is the next id on this tunnel, whichever side opens the stream;
\* unconsumed counts the bytes handed to the host and not returned by mux_consume.
Mux == [tab : [Sids -> Stream], next_sid : 1 .. MaxSid + 1, evq : Seq(Event),
        unconsumed : 0 .. ConnWin, greeted : BOOLEAN, dead : BOOLEAN]

mux_session_new ==
  [tab |-> [sid \in Sids |-> NoStream], next_sid |-> 1, evq |-> <<>>,
   unconsumed |-> 0, greeted |-> FALSE, dead |-> FALSE]

Live(m) == {sid \in Sids : m.tab[sid].life # "NONE"}
-----------------------------------------------------------------------------
(***************************************************************************)
(* Calls of the host.                                                      *)
(***************************************************************************)
CanSend(m, sid) == ~m.dead /\ m.tab[sid].life \in {"OPEN", "HCL_REMOTE"}

\* What mux_write may return for n bytes, errors counting as 0.
Takes(m, sid, n) ==
  IF CanSend(m, sid) /\ ~m.tab[sid].send_blocked THEN 0 .. n ELSE {0}

\* mux_write took k of n bytes.
mux_write(m, sid, n, k) ==
  IF CanSend(m, sid) /\ k < n THEN [m EXCEPT !.tab[sid].send_blocked = TRUE] ELSE m

CanOpen(m) == ~m.dead /\ m.greeted /\ m.next_sid <= MaxSid

mux_open(m) ==
  [m EXCEPT !.tab[m.next_sid].life = "OPEN", !.next_sid = @ + 1]

mux_close(m, sid) ==
  IF ~CanSend(m, sid) THEN m
  ELSE IF m.tab[sid].life = "OPEN" THEN [m EXCEPT !.tab[sid].life = "HCL_LOCAL"]
  ELSE [m EXCEPT !.tab[sid] = NoStream]

mux_reset(m, sid) == IF m.dead THEN m ELSE [m EXCEPT !.tab[sid] = NoStream]

mux_consume(m, sid, n) ==
  IF m.dead THEN m
  ELSE [m EXCEPT !.unconsumed = @ - n,
                 !.tab[sid].held = IF sid \in Live(m) THEN @ - n ELSE @]

mux_next_event(m) == [m EXCEPT !.evq = Tail(@)]
-----------------------------------------------------------------------------
(***************************************************************************)
(* Frames of the peer: for each, the set of sessions it can lead to, empty *)
(* where the peer would not send it.                                       *)
(***************************************************************************)
When(cond, m) == IF cond THEN {m} ELSE {}
Queue(m, type, sid, n) == [m EXCEPT !.evq = Append(@, Ev(type, sid, n))]

CanHear(m) == ~m.dead /\ m.greeted
PeerSends(m, sid) == CanHear(m) /\ m.tab[sid].life \in {"OPEN", "HCL_LOCAL"}

recv_hello(m, weight) ==
  When(~m.dead /\ ~m.greeted,
       [Queue(m, "PEER_HELLO", 0, weight) EXCEPT !.greeted = TRUE])

recv_capacity(m, weight) == When(CanHear(m), Queue(m, "CAPACITY", 0, weight))

recv_syn(m) ==
  When(CanHear(m) /\ m.next_sid <= MaxSid,
       Queue(mux_open(m), "STREAM_OPENED", m.next_sid, 0))

recv_data(m, sid, n) ==
  When(PeerSends(m, sid) /\ m.tab[sid].held + n <= Win /\ m.unconsumed + n <= ConnWin,
       [Queue(m, "STREAM_DATA", sid, n) EXCEPT !.tab[sid].held = @ + n,
                                               !.unconsumed = @ + n])

recv_fin(m, sid) ==
  When(PeerSends(m, sid),
       [Queue(m, "STREAM_CLOSED", sid, 0) EXCEPT
          !.tab[sid] = IF @.life = "OPEN" THEN [@ EXCEPT !.life = "HCL_REMOTE"]
                       ELSE NoStream])

recv_rst(m, sid) ==
  When(CanHear(m) /\ sid \in Live(m),
       [Queue(m, "STREAM_RESET", sid, 0) EXCEPT !.tab[sid] = NoStream])

recv_credit(m, sid) ==
  When(CanHear(m) /\ m.tab[sid].send_blocked,
       [Queue(m, "WRITABLE", sid, 0) EXCEPT !.tab[sid].send_blocked = FALSE])

\* Any frame of an existing stream.
StreamFrames(m) ==
  UNION {(UNION {recv_data(m, sid, n) : n \in 1 .. Win}) \cup recv_fin(m, sid)
           \cup recv_rst(m, sid) \cup recv_credit(m, sid) : sid \in Sids}

\* raise_fatal: the keepalive timeout, a full output buffer or a bad frame.
raise_fatal(m) == [Queue(m, "FATAL", 0, 0) EXCEPT !.dead = TRUE]
=============================================================================
