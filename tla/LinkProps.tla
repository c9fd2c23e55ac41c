----------------------------- MODULE LinkProps -----------------------------
(***************************************************************************)
(* Properties of a pair of sessions that relate the two ends through the   *)
(* bytes and credits on the wire, and the refinement of module Window by   *)
(* the connection window.                                                  *)
(***************************************************************************)
EXTENDS Link, Functions

Total(x, Sel(_)) ==
  LET q == ep[x].out
  IN  SumFunction([i \in DOMAIN q |-> IF Sel(q[i]) THEN q[i].val ELSE 0])

IsBytes(f) == f.type = "DATA" /\ f.flags \cap {"SYN", "RST"} = {}
DataOf(x) == Total(x, IsBytes)
DataOn(x, sid) == Total(x, LAMBDA f : IsBytes(f) /\ f.sid = sid)
CreditOn(x, sid) == Total(x, LAMBDA f : f.type = "WINDOW_UPDATE" /\ f.sid = sid)
FlagsOn(x, sid) ==
  UNION {f.flags : f \in {g \in Range(ep[x].out) : g.type = "DATA" /\ g.sid = sid}}

(***************************************************************************)
(* The connection window from the dialer to the acceptor, as an abstract   *)
(* Window; the code of the other direction is the same.  Until the peer's  *)
(* HELLO has arrived x has a default window and sends nothing.             *)
(***************************************************************************)
SendWin(x) == IF ep[x].peer_hello_seen THEN ep[x].sess_send_win
                                       ELSE SessionWindow[Peer(x)]

DialerSends == INSTANCE Window WITH
  W <- SessionWindow["ACCEPTOR"],
  send_win <- SendWin("DIALER"),
  data     <- DataOf("DIALER"),
  recv_win <- ep["ACCEPTOR"].sess_recv_win,
  unread   <- SumFunction(ep["ACCEPTOR"].unread),
  pending  <- ep["ACCEPTOR"].sess_recv_pending,
  credit   <- CreditOn("ACCEPTOR", MUX_SID_CONTROL),
  lost     <- ep["ACCEPTOR"].dropped,
  failed   <- ~Alive("ACCEPTOR")

\* The connection window behaves like module Window: bytes, credits and discarded
\* bytes always add up to the window that was advertised (mux_write, on_data,
\* mux_consume and on_window_update of the two ends together).
DialerWindow == DialerSends!Spec

\* Two sessions never accuse each other, whatever closes, resets, refusals,
\* credits and drains cross on the wire: no FATAL and no RST with PROTOCOL or
\* FLOW_CONTROL, but for one case.  mux_on_timer, mux_goaway and
\* mux_send_capacity do not wait for the handshake, so a PING, GOAWAY or CAPACITY
\* of an acceptor that has not yet heard the dialer's HELLO overtakes its own
\* HELLO_ACK, and the dialer, still without a greeting, fails with PROTOCOL.
NoPeerFault ==
  LET Blame == {MUX_CODE_PROTOCOL, MUX_CODE_FLOW_CONTROL} IN
  \A x \in Role :
    /\ ep[x].dead \in Blame
         => /\ x = "DIALER" /\ ~ep[x].peer_hello_seen
            /\ ep[x].dead = MUX_CODE_PROTOCOL
    /\ \A f \in Range(ep[x].out) : "RST" \in f.flags => f.val \notin Blame

\* While both ends hold a stream and no RST for it is on its way, its send window
\* at one end, the bytes and the credits in flight make up its receive window at
\* the other end.
StreamConservation ==
  \A x \in Role : \A sid \in Live(ep[x]) \cap Live(ep[Peer(x)]) :
    LET y == Peer(x) IN
    "RST" \notin FlagsOn(x, sid) \cup FlagsOn(y, sid) /\ Alive(y) /\ Alive(x)
      => ep[x].tab[sid].send_win + DataOn(x, sid) + CreditOn(y, sid)
           = ep[y].tab[sid].recv_win

\* When nothing is on the wire the two stream tables mirror each other: the same
\* streams, with local and remote half-closes swapped.  No race of FIN, RST,
\* refusal and open leaves a stream at one end only.
Mirror(life) ==
  CASE life = "HCL_LOCAL" -> "HCL_REMOTE"
    [] life = "HCL_REMOTE" -> "HCL_LOCAL"
    [] OTHER -> life

QuiescentTablesAgree ==
  (\A x \in Role : Alive(x) /\ ep[x].out = <<>>)
    => \A sid \in Sids :
         ep["DIALER"].tab[sid].life = Mirror(ep["ACCEPTOR"].tab[sid].life)

\* If only one side opens streams and nobody drains, an open that passed
\* mux_open's check against peer_max_streams is never refused: the acceptor of
\* the stream has always heard of a stream's end before the SYN that reuses its
\* place in the count.
SingleOpenerNeverRefused ==
  Cardinality(Openers) <= 1 /\ (\A x \in Role : ~ep[x].local_goaway)
    => \A x \in Role : \A f \in Range(ep[x].out) :
         "RST" \in f.flags => f.val # MUX_CODE_REFUSED

\* The ids mux_open hands out grow, or the allocator has reached the value 0 on
\* which mux_open reports exhaustion.  It does not hold when a dialer uses up the
\* id space (MaxSid = 3, SidSpace = 4): odd ids wrap to 1.
IdsNeverReused ==
  [][\A x \in Role :
       ep'[x].next_local_sid # ep[x].next_local_sid
         => \/ ep'[x].next_local_sid = MUX_SID_CONTROL
            \/ ep'[x].next_local_sid > ep[x].next_local_sid]_ep

\* Once a session has said GOAWAY it accepts no further stream, so the last_sid
\* it reported bounds the peer's streams it will ever serve.
NoAcceptAfterGoaway ==
  [][\A x \in Role :
       ep[x].local_goaway => Live(ep'[x]) \subseteq Live(ep[x])]_ep

\* A host that waits for MUX_EV_WRITABLE on a stream gets it, or learns that the
\* stream or the session is gone, unless connection window has been lost: DATA
\* that arrives for a stream its receiver has reset is dropped without credit
\* (on_data), and the streams that remain may then wait for ever.
WaitingEnds ==
  \A x \in Writers : \A sid \in Sids :
    (Alive(x) /\ sid \in ep[x].waiting)
      ~> (~Alive(x) \/ sid \notin ep[x].waiting \/ ep[Peer(x)].dropped > 0)
=============================================================================
