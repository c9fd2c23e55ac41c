------------------------------ MODULE Session ------------------------------
(***************************************************************************)
(* One libmux session (struct mux_session, src/libmux/src/session.c): its  *)
(* state is a record, and every frame handler and API call of the C code   *)
(* is an operator from a session to the session it leaves behind.  Module  *)
(* Link puts two of them at the ends of a transport.                       *)
(*                                                                         *)
(* Payload bytes are counted, not kept.  The stream table is a function on *)
(* the stream ids (its open addressing is not visible here), the output    *)
(* buffer is the sequence of frames not yet received by the peer, and the  *)
(* event queue is reduced to what its events tell the host: how many bytes *)
(* it was handed (unread) and which of its short writes have not been      *)
(* followed by a WRITABLE event (waiting).                                 *)
(***************************************************************************)
EXTENDS Integers, Sequences, FiniteSets

CONSTANTS
  MaxSid,           \* bound: stream ids are 1 .. MaxSid
  SidSpace,         \* 2^32: next_local_sid is a uint32_t
  InitWindow,       \* init_window of each role's configuration
  SessionWindow,    \* session_window of each role's configuration
  MaxStreams,       \* max_streams of each role's configuration
  MaxDataFrame,     \* MUX_MAX_DATA_FRAME
  MaxCredit,        \* the largest credit one WINDOW_UPDATE carries (2^32 - 1)
  WindowCeiling,    \* the largest legal send window (2^48)
  OutCap            \* max_out_buffer, in frames

Role == {"DIALER", "ACCEPTOR"}
Sids == 1 .. MaxSid

ASSUME SessionAssumption ==
  /\ MaxSid \in Nat
  /\ SidSpace \in Nat \ {0}
  /\ InitWindow \in [Role -> Nat \ {0}]
  /\ SessionWindow \in [Role -> Nat \ {0}]
  /\ MaxStreams \in [Role -> Nat \ {0}]
  /\ MaxDataFrame \in Nat \ {0}
  /\ MaxCredit \in Nat \ {0}
  /\ WindowCeiling \in Nat
  /\ OutCap \in Nat

MUX_SID_CONTROL == 0
MUX_CODE_NO_ERROR == 0
MUX_CODE_PROTOCOL == 1
MUX_CODE_FLOW_CONTROL == 2
MUX_CODE_INTERNAL == 4
MUX_CODE_REFUSED == 5
MUX_DEFAULT_INIT_WINDOW == 256 * 1024
MUX_DEFAULT_SESSION_WINDOW == 16 * 1024 * 1024
MUX_DEFAULT_MAX_STREAMS == 65536
MUX_MAX_META == 8192

Code == 0 .. 5
Peer(x) == IF x = "DIALER" THEN "ACCEPTOR" ELSE "DIALER"

(***************************************************************************)
(* Frames.  val is the payload as a number: the byte count of DATA, the    *)
(* credit of WINDOW_UPDATE, the code of an RST, the last_sid of GOAWAY, the*)
(* length of a SYN's metadata.  Fixed payload lengths are as mux_craft made*)
(* them.  The TLVs of a HELLO are the sender's configuration, a constant.  *)
(***************************************************************************)
FrameType == {"DATA", "WINDOW_UPDATE", "PING", "GOAWAY", "HELLO", "HELLO_ACK",
              "CAPACITY"}
Frame == [type : FrameType, flags : SUBSET {"SYN", "ACK", "FIN", "RST"},
          sid : {MUX_SID_CONTROL} \cup Sids, val : Nat]

MkFrame(type, flags, sid, val) ==
  [type |-> type, flags |-> flags, sid |-> sid, val |-> val]

(***************************************************************************)
(* A stream record (mux_stream).  life = NONE stands for an empty slot.    *)
(* The flag send_blocked of the records is kept as the set of the streams  *)
(* that have it.                                                           *)
(***************************************************************************)
Life == {"NONE", "OPEN", "HCL_LOCAL", "HCL_REMOTE"}
Stream == [life : Life, send_win : Int, recv_win : Int, recv_pending : Int]
NoStream == [life |-> "NONE", send_win |-> 0, recv_win |-> 0, recv_pending |-> 0]

SessionState ==
  [role : Role,
   dead : Code,                     \* code of the FATAL event; 0 while alive
   peer_init_window : Nat, peer_max_streams : Nat,
   sess_send_win : Int, sess_recv_win : Int, sess_recv_pending : Int,
   blocked_count : Int,
   peer_hello_seen : BOOLEAN, hello_sent : BOOLEAN, local_goaway : BOOLEAN,
   next_local_sid : Nat, max_remote_sid : Nat,
   tab : [Sids -> Stream], send_blocked : SUBSET Sids,
   ping_outstanding : BOOLEAN,
   out : Seq(Frame),
   unread : [Sids -> Nat],          \* host: bytes of STREAM_DATA not consumed
   waiting : SUBSET Sids,           \* host: short writes not yet WRITABLE
   dropped : Nat]                   \* DATA bytes discarded on arrival

Live(s) == {sid \in Sids : s.tab[sid].life # "NONE"}
tab_count(s) == Cardinality(Live(s))
-----------------------------------------------------------------------------
(***************************************************************************)
(* Output buffer, fatal errors, stream table.                              *)
(***************************************************************************)
raise_fatal(s, code) ==
  IF s.dead # MUX_CODE_NO_ERROR THEN s ELSE [s EXCEPT !.dead = code]

EmitFits(s) == Len(s.out) < OutCap

emit(s, f) ==
  IF EmitFits(s) THEN [s EXCEPT !.out = Append(@, f)]
                 ELSE raise_fatal(s, MUX_CODE_INTERNAL)

\* How much of `total' the output buffer takes in frames of at most `max'.
Fit(s, total, max) ==
  LET room == (OutCap - Len(s.out)) * max
  IN  IF total <= room THEN total ELSE room

Chunks(type, sid, amount, max) ==
  LET k == (amount + max - 1) \div max
  IN  [i \in 1 .. k |->
         MkFrame(type, {}, sid, IF i < k THEN max ELSE amount - (k - 1) * max)]

\* The loop `emit one chunk, stop at the first failure' of mux_write and
\* credit_emit; Fit(s, total, max) is what it managed to place.
emit_chunks(s, type, sid, total, max) ==
  LET placed == [s EXCEPT !.out = @ \o Chunks(type, sid, Fit(s, total, max), max)]
  IN  IF Fit(s, total, max) < total
        THEN raise_fatal(placed, MUX_CODE_INTERNAL) ELSE placed

set_blocked(s, sid, blocked) ==
  IF blocked /\ sid \notin s.send_blocked
    THEN [s EXCEPT !.send_blocked = @ \cup {sid}, !.blocked_count = @ + 1]
  ELSE IF ~blocked /\ sid \in s.send_blocked
    THEN [s EXCEPT !.send_blocked = @ \ {sid}, !.blocked_count = @ - 1]
  ELSE s

\* st_insert and the three assignments both of its callers make.
st_insert(s, sid) ==
  [s EXCEPT !.tab[sid] =
     [life |-> "OPEN", send_win |-> s.peer_init_window,
      recv_win |-> InitWindow[s.role], recv_pending |-> 0]]

\* The host learns of the removal (RESET or CLOSED event, or its own call).
st_remove(s, sid) ==
  [set_blocked(s, sid, FALSE) EXCEPT !.tab[sid] = NoStream,
                                     !.waiting = @ \ {sid}]

\* MUX_EV_WRITABLE for each stream of `woken'.
wake(s, woken) ==
  [s EXCEPT !.send_blocked = @ \ woken,
            !.blocked_count = @ - Cardinality(woken),
            !.waiting = @ \ woken]

\* The emit of RST that refuses or aborts stream sid with `code'.
emit_rst(s, sid, code) == emit(s, MkFrame("DATA", {"RST"}, sid, code))
-----------------------------------------------------------------------------
(***************************************************************************)
(* Construction and handshake.                                             *)
(***************************************************************************)
send_hello(s, ack) ==
  LET f == MkFrame(IF ack THEN "HELLO_ACK" ELSE "HELLO", {}, MUX_SID_CONTROL, 0)
  IN  IF EmitFits(s) THEN [emit(s, f) EXCEPT !.hello_sent = TRUE] ELSE emit(s, f)

mux_session_new(role) ==
  LET s == [role |-> role, dead |-> MUX_CODE_NO_ERROR,
            peer_init_window |-> MUX_DEFAULT_INIT_WINDOW,
            peer_max_streams |-> MUX_DEFAULT_MAX_STREAMS,
            sess_send_win |-> MUX_DEFAULT_SESSION_WINDOW,
            sess_recv_win |-> SessionWindow[role],
            sess_recv_pending |-> 0, blocked_count |-> 0,
            peer_hello_seen |-> FALSE, hello_sent |-> FALSE,
            local_goaway |-> FALSE,
            next_local_sid |-> IF role = "DIALER" THEN 1 ELSE 2,
            max_remote_sid |-> 0,
            tab |-> [sid \in Sids |-> NoStream], send_blocked |-> {},
            ping_outstanding |-> FALSE, out |-> <<>>,
            unread |-> [sid \in Sids |-> 0], waiting |-> {}, dropped |-> 0]
  IN  IF role = "DIALER" THEN send_hello(s, FALSE) ELSE s

on_hello(s, f, ack) ==
  LET y == Peer(s.role)
      greeted == [s EXCEPT !.peer_max_streams = MaxStreams[y],
                           !.peer_init_window = InitWindow[y],
                           !.sess_send_win = SessionWindow[y],
                           !.peer_hello_seen = TRUE]
  IN  IF f.sid # MUX_SID_CONTROL \/ s.peer_hello_seen
        THEN raise_fatal(s, MUX_CODE_PROTOCOL)
      ELSE IF ~ack /\ s.role = "ACCEPTOR" /\ ~s.hello_sent
        THEN send_hello(greeted, TRUE) ELSE greeted
-----------------------------------------------------------------------------
\* Fault: credit is sent but not added to the window it reopens.
credit_stream_unopened(s, sid) ==
  LET p == s.tab[sid].recv_pending
  IN  IF p <= 0 \/ p * 2 < InitWindow[s.role] THEN s
      ELSE [emit_chunks(s, "WINDOW_UPDATE", sid, p, MaxCredit)
              EXCEPT !.tab[sid].recv_pending = 0]

(***************************************************************************)
(* Crediting: consumed bytes go back to the peer at the half-window mark.  *)
(***************************************************************************)
credit_stream(s, sid) ==
  LET p == s.tab[sid].recv_pending
      n == Fit(s, p, MaxCredit)
  IN  IF p <= 0 \/ p * 2 < InitWindow[s.role] THEN s
      ELSE [emit_chunks(s, "WINDOW_UPDATE", sid, p, MaxCredit)
              EXCEPT !.tab[sid].recv_win = @ + n, !.tab[sid].recv_pending = p - n]

credit_session(s) ==
  LET p == s.sess_recv_pending
      n == Fit(s, p, MaxCredit)
  IN  IF p <= 0 \/ p * 2 < SessionWindow[s.role] THEN s
      ELSE [emit_chunks(s, "WINDOW_UPDATE", MUX_SID_CONTROL, p, MaxCredit)
              EXCEPT !.sess_recv_win = @ + n, !.sess_recv_pending = p - n]
-----------------------------------------------------------------------------
(***************************************************************************)
(* Frame handlers.                                                         *)
(***************************************************************************)
PeerParity(s) == IF s.role = "DIALER" THEN 0 ELSE 1

\* DATA|SYN: a new inbound stream, refused at the concurrency cap or when
\* draining.
on_syn(s, f) ==
  IF \/ ~s.peer_hello_seen
     \/ f.sid % 2 # PeerParity(s)
     \/ f.sid = MUX_SID_CONTROL
     \/ f.sid \in Live(s)
     \/ f.sid <= s.max_remote_sid
     \/ f.val > MUX_MAX_META
    THEN raise_fatal(s, MUX_CODE_PROTOCOL)
  ELSE IF tab_count(s) >= MaxStreams[s.role] \/ s.local_goaway
    THEN [emit_rst(s, f.sid, MUX_CODE_REFUSED) EXCEPT !.max_remote_sid = f.sid]
  ELSE LET new == [st_insert(s, f.sid) EXCEPT !.max_remote_sid = f.sid]
       IN  IF "RST" \in f.flags THEN st_remove(new, f.sid)
           ELSE IF "FIN" \in f.flags
             THEN [new EXCEPT !.tab[f.sid].life = "HCL_REMOTE"]
           ELSE new

\* A stream-level violation: answer with an RST and forget the stream.
abort_stream(s, f, code) ==
  [st_remove(emit_rst(s, f.sid, code), f.sid) EXCEPT !.dropped = @ + f.val]

on_fin(s, sid) ==
  IF s.tab[sid].life = "HCL_LOCAL" THEN st_remove(s, sid)
  ELSE [s EXCEPT !.tab[sid].life = "HCL_REMOTE"]

accept_data(s, f) ==
  [s EXCEPT !.tab[f.sid].recv_win = @ - f.val,
            !.sess_recv_win = @ - f.val,
            !.unread[f.sid] = @ + f.val]

on_data(s, f) ==
  IF "SYN" \in f.flags THEN on_syn(s, f)
  ELSE IF f.sid = MUX_SID_CONTROL THEN raise_fatal(s, MUX_CODE_PROTOCOL)
  ELSE IF f.sid \notin Live(s)
    THEN IF "RST" \in f.flags THEN s ELSE [s EXCEPT !.dropped = @ + f.val]
  ELSE IF "RST" \in f.flags THEN st_remove(s, f.sid)
  ELSE IF f.val > 0 /\ s.tab[f.sid].life = "HCL_REMOTE"
    THEN abort_stream(s, f, MUX_CODE_PROTOCOL)
  ELSE IF f.val > 0 /\ f.val > s.sess_recv_win
    THEN raise_fatal(s, MUX_CODE_FLOW_CONTROL)
  ELSE IF f.val > 0 /\ f.val > s.tab[f.sid].recv_win
    THEN abort_stream(s, f, MUX_CODE_FLOW_CONTROL)
  ELSE IF "FIN" \in f.flags THEN on_fin(accept_data(s, f), f.sid)
  ELSE accept_data(s, f)

\* Fault: no sweep over the blocked streams.
on_session_credit_no_sweep(s, credit) == [s EXCEPT !.sess_send_win = @ + credit]

\* WINDOW_UPDATE on stream id 0: when the connection window reopens, every
\* blocked stream with room of its own is woken.
on_session_credit(s, credit) ==
  LET t == [s EXCEPT !.sess_send_win = @ + credit]
      woken == {sid \in s.send_blocked : s.tab[sid].send_win > 0}
  IN  IF t.sess_send_win > WindowCeiling
        THEN raise_fatal(t, MUX_CODE_FLOW_CONTROL)
      ELSE IF s.sess_send_win <= 0 /\ t.sess_send_win > 0 /\ s.blocked_count > 0
        THEN wake(t, woken)
      ELSE t

\* Fault: credit arrives but nobody is told.
on_stream_credit_no_wake(s, sid, credit) ==
  [s EXCEPT !.tab[sid].send_win = @ + credit]

on_stream_credit(s, sid, credit) ==
  LET t == [s EXCEPT !.tab[sid].send_win = @ + credit]
  IN  IF t.tab[sid].send_win > WindowCeiling
        THEN raise_fatal(t, MUX_CODE_FLOW_CONTROL)
      ELSE IF /\ sid \in t.send_blocked
              /\ t.tab[sid].send_win > 0
              /\ t.sess_send_win > 0
        THEN wake(t, {sid})
      ELSE t

on_window_update(s, f) ==
  IF f.sid = MUX_SID_CONTROL THEN on_session_credit(s, f.val)
  ELSE IF f.sid \in Live(s) THEN on_stream_credit(s, f.sid, f.val)
  ELSE s

on_ping(s, f) ==
  IF f.sid # MUX_SID_CONTROL THEN raise_fatal(s, MUX_CODE_PROTOCOL)
  ELSE IF "ACK" \in f.flags THEN [s EXCEPT !.ping_outstanding = FALSE]
  ELSE emit(s, MkFrame("PING", {"ACK"}, MUX_SID_CONTROL, f.val))

\* GOAWAY and CAPACITY only queue an event for the host.
on_goaway(s, f) ==
  IF f.sid # MUX_SID_CONTROL THEN raise_fatal(s, MUX_CODE_PROTOCOL) ELSE s

on_capacity(s, f) ==
  IF f.sid # MUX_SID_CONTROL THEN raise_fatal(s, MUX_CODE_PROTOCOL) ELSE s

process_frame(s, f) ==
  IF ~s.peer_hello_seen /\ f.type \notin {"HELLO", "HELLO_ACK"}
    THEN raise_fatal(s, MUX_CODE_PROTOCOL)
  ELSE CASE f.type = "DATA"          -> on_data(s, f)
         [] f.type = "WINDOW_UPDATE" -> on_window_update(s, f)
         [] f.type = "PING"          -> on_ping(s, f)
         [] f.type = "GOAWAY"        -> on_goaway(s, f)
         [] f.type = "HELLO"         -> on_hello(s, f, FALSE)
         [] f.type = "HELLO_ACK"     -> on_hello(s, f, TRUE)
         [] f.type = "CAPACITY"      -> on_capacity(s, f)
-----------------------------------------------------------------------------
\* Fault: the cap admits one stream too many.
mux_open_ok_over_cap(s, meta_len) ==
  /\ s.dead = MUX_CODE_NO_ERROR /\ s.peer_hello_seen /\ ~s.local_goaway
  /\ tab_count(s) <= s.peer_max_streams

(***************************************************************************)
(* Public API.  The operator X_ok is the condition under which call X gets *)
(* past its early returns; on a dead session every call is an early return *)
(***************************************************************************)
mux_open_ok(s, meta_len) ==
  /\ s.dead = MUX_CODE_NO_ERROR
  /\ s.peer_hello_seen
  /\ ~s.local_goaway
  /\ meta_len <= MUX_MAX_META
  /\ tab_count(s) < s.peer_max_streams
  /\ s.next_local_sid # MUX_SID_CONTROL

mux_open(s, meta_len) ==
  LET sid == s.next_local_sid
      t == emit(st_insert([s EXCEPT !.next_local_sid = (@ + 2) % SidSpace], sid),
                MkFrame("DATA", {"SYN"}, sid, meta_len))
  IN  IF EmitFits(s) THEN t ELSE st_remove(t, sid)

mux_write_ok(s, sid) ==
  /\ s.dead = MUX_CODE_NO_ERROR
  /\ sid \in Live(s)
  /\ s.tab[sid].life # "HCL_LOCAL"

\* The host offered n bytes: if they were not all taken it waits for WRITABLE.
short_write(s, sid) == [s EXCEPT !.waiting = @ \cup {sid}]

\* Fault: a partial write does not flag the stream.
mux_write_unflagged(s, sid, n) ==
  LET st == s.tab[sid]
      room == IF s.sess_send_win < st.send_win THEN s.sess_send_win ELSE st.send_win
      sent == Fit(s, IF n > room THEN room ELSE n, MaxDataFrame)
      t == [emit_chunks(s, "DATA", sid, sent, MaxDataFrame)
              EXCEPT !.tab[sid].send_win = @ - sent, !.sess_send_win = @ - sent]
  IN  IF room <= 0 THEN short_write(set_blocked(s, sid, TRUE), sid)
      ELSE IF sent = n THEN [t EXCEPT !.waiting = @ \ {sid}]
      ELSE short_write(t, sid)

\* Fault: only the stream's window is debited and consulted.
mux_write_stream_only(s, sid, n) ==
  LET sent == IF n > s.tab[sid].send_win THEN s.tab[sid].send_win ELSE n
  IN  [emit_chunks(s, "DATA", sid, sent, MaxDataFrame)
         EXCEPT !.tab[sid].send_win = @ - sent]

mux_write(s, sid, n) ==
  LET st == s.tab[sid]
      room == IF s.sess_send_win < st.send_win THEN s.sess_send_win ELSE st.send_win
      want == IF n > room THEN room ELSE n
      sent == Fit(s, want, MaxDataFrame)
      t == [emit_chunks(s, "DATA", sid, want, MaxDataFrame)
              EXCEPT !.tab[sid].send_win = @ - sent, !.sess_send_win = @ - sent]
  IN  IF room <= 0 THEN short_write(set_blocked(s, sid, TRUE), sid)
      ELSE IF sent = n THEN [t EXCEPT !.waiting = @ \ {sid}]
      ELSE IF t.tab[sid].send_win <= 0 \/ t.sess_send_win <= 0
        THEN short_write(set_blocked(t, sid, TRUE), sid)
      ELSE short_write(t, sid)

mux_close_ok(s, sid) ==
  /\ s.dead = MUX_CODE_NO_ERROR
  /\ sid \in Live(s)
  /\ s.tab[sid].life # "HCL_LOCAL"

\* Fault: our half stays open after the FIN.
mux_close_stays_open(s, sid) ==
  LET t == emit(s, MkFrame("DATA", {"FIN"}, sid, 0))
  IN  IF s.tab[sid].life = "HCL_REMOTE" THEN st_remove(t, sid) ELSE t

mux_close(s, sid) ==
  LET t == emit(s, MkFrame("DATA", {"FIN"}, sid, 0))
  IN  IF ~EmitFits(s) THEN t
      ELSE IF s.tab[sid].life = "HCL_REMOTE" THEN st_remove(t, sid)
      ELSE [t EXCEPT !.tab[sid].life = "HCL_LOCAL"]

mux_reset_ok(s, sid) == s.dead = MUX_CODE_NO_ERROR /\ sid \in Live(s)

\* Fault: the peer is not told.
mux_reset_silent(s, sid, code) == st_remove(s, sid)

mux_reset(s, sid, code) == st_remove(emit_rst(s, sid, code), sid)

\* Credits the connection first and then, if it still exists, the stream.  A
\* stream that is gone still gives its bytes back to the connection window.
mux_consume(s, sid, n) ==
  LET t == credit_session([s EXCEPT !.sess_recv_pending = @ + n,
                                    !.unread[sid] = @ - n])
  IN  IF sid \in Live(s)
        THEN credit_stream([t EXCEPT !.tab[sid].recv_pending = @ + n], sid)
        ELSE t

mux_send_capacity(s) == emit(s, MkFrame("CAPACITY", {}, MUX_SID_CONTROL, 0))

mux_goaway(s) ==
  emit([s EXCEPT !.local_goaway = TRUE],
       MkFrame("GOAWAY", {}, MUX_SID_CONTROL, s.max_remote_sid))

\* mux_on_timer with the heartbeat due; the clock itself is in Keepalive.
send_ping(s) ==
  LET t == emit(s, MkFrame("PING", {}, MUX_SID_CONTROL, 0))
  IN  IF EmitFits(s) THEN [t EXCEPT !.ping_outstanding = TRUE] ELSE t
=============================================================================
