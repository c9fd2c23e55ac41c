----------------------------- MODULE LinkProofs -----------------------------
(***************************************************************************)
(* The facts on blocked streams of module Link hold of two sessions of any *)
(* size, on any schedule.  The calls of the API are treated here, the      *)
(* frame handlers in SessionProofs; the session invariant SInv of that     *)
(* module, at both ends, is the inductive invariant.                       *)
(***************************************************************************)
EXTENDS Link, SessionProofs

\* Fewer streams are opened than the id space holds: what happens when a dialer
\* uses it up is the subject of IdsNeverReused in LinkProps.
NoWrap == MaxSid + 2 < SidSpace

\* mux_session_new satisfies the session invariant.
LEMMA NewSession ==
  ASSUME NEW role \in Role
  PROVE  SInv(mux_session_new(role)) /\ mux_session_new(role).role = role
  <1> DEFINE s == [role |-> role, dead |-> MUX_CODE_NO_ERROR,
            peer_init_window |-> MUX_DEFAULT_INIT_WINDOW,
            peer_max_streams |-> MUX_DEFAULT_MAX_STREAMS,
            sess_send_win |-> MUX_DEFAULT_SESSION_WINDOW,
            sess_recv_win |-> SessionWindow[role],
            sess_recv_pending |-> 0, blocked_count |-> 0,
            peer_hello_seen |-> FALSE, hello_sent |-> FALSE,
            local_goaway |-> FALSE,
            next_local_sid |-> IF role = "DIALER" THEN 1 ELSE 2,
            max_remote_sid |-> 0,
            tab |-> [sid \in Sids |-> NoStream], send_blocked |-> {},
            ping_outstanding |-> FALSE, out |-> <<>>,
            unread |-> [sid \in Sids |-> 0], waiting |-> {}, dropped |-> 0]
  <1>1. mux_session_new(role) = IF role = "DIALER" THEN send_hello(s, FALSE) ELSE s
    BY Zenon DEF mux_session_new
  <1>2. /\ MUX_CODE_NO_ERROR \in Code
        /\ MUX_DEFAULT_INIT_WINDOW \in Nat /\ MUX_DEFAULT_MAX_STREAMS \in Nat
        /\ MUX_DEFAULT_SESSION_WINDOW \in Int /\ SessionWindow[role] \in Int
        /\ 0 \in Int /\ 0 \in Nat /\ (IF role = "DIALER" THEN 1 ELSE 2) \in Nat
    BY SessionAssumption
       DEF Code, MUX_CODE_NO_ERROR, MUX_DEFAULT_INIT_WINDOW,
           MUX_DEFAULT_MAX_STREAMS, MUX_DEFAULT_SESSION_WINDOW
  <1>3. NoStream \in Stream /\ <<>> \in Seq(Frame) /\ NoStream.life = "NONE"
    BY DEF NoStream, Stream, Life
  <1>4. [sid \in Sids |-> NoStream] \in [Sids -> Stream]
    BY <1>3
  <1>5. [sid \in Sids |-> 0] \in [Sids -> Nat] /\ {} \in SUBSET Sids
    OBVIOUS
  <1>6. s \in SessionState
    BY <1>2, <1>3, <1>4, <1>5, Zenon DEF SessionState
  <1>7. /\ s.role = role /\ s.out = <<>> /\ s.blocked_count = 0
        /\ s.send_blocked = {} /\ s.waiting = {}
        /\ s.tab = [sid \in Sids |-> NoStream]
        /\ s.next_local_sid = IF role = "DIALER" THEN 1 ELSE 2
    BY Zenon
  <1> HIDE DEF s
  <1>8. \A sid \in Sids : s.tab[sid].life = "NONE"
    BY <1>3, <1>7
  <1>9. Typed(s) /\ Counted(s)
    BY <1>6, <1>7, SessionAssumption, FS_EmptySet DEF Typed, Counted
  <1>10. Blocked(s) /\ BlockedAreLive(s) /\ NoneBeforeHello(s)
    BY <1>7, <1>8 DEF Blocked, BlockedAreLive, NoneBeforeHello
  <1>11. NextIsFresh(s)
    BY <1>7, <1>8 DEF NextIsFresh, OwnParity, Role
  <1>12. SInv(s)
    BY <1>9, <1>10, <1>11 DEF SInv
  <1> QED
    BY <1>1, <1>7, <1>12, SendHello DEF Keeps

\* mux_open takes an id that is not in use.
LEMMA OpenKeeps ==
  ASSUME NoWrap, NEW s, SInv(s), mux_open_ok(s, 0), s.next_local_sid <= MaxSid
  PROVE  Keeps(s, mux_open(s, 0))
  <1> DEFINE sid == s.next_local_sid
             n == (sid + 2) % SidSpace
             a == [s EXCEPT !.next_local_sid = n]
             i == st_insert(a, sid)
             f == MkFrame("DATA", {"SYN"}, sid, 0)
             e == emit(i, f)
  <1>1. /\ s \in SessionState /\ sid \in Nat /\ s.peer_hello_seen = TRUE
        /\ s.tab \in [Sids -> Stream]
    BY Zenon DEF SInv, Typed, SessionState, mux_open_ok
  <1>2. sid \in Sids
    BY <1>1, SessionAssumption DEF mux_open_ok, Sids, MUX_SID_CONTROL
  <1>3. n = sid + 2 /\ n \in Nat
    BY <1>1, SessionAssumption DEF NoWrap
  <1>4. mux_open(s, 0) = IF EmitFits(s) THEN e ELSE st_remove(e, sid)
    BY Zenon DEF mux_open
  <1>5. f \in Frame
    BY <1>2 DEF MkFrame, Frame, FrameType
  <1> HIDE DEF n, f
  <1>6. /\ a \in SessionState /\ a.role = s.role /\ a.next_local_sid = n
        /\ a.peer_hello_seen = TRUE /\ a.tab = s.tab /\ a.dead = s.dead
        /\ a.out = s.out /\ SameBlocked(s, a)
    BY <1>1, <1>3, Zenon DEF SessionState, SameBlocked
  <1> HIDE DEF a
  <1>7. OwnParity(a) = OwnParity(s)
    BY <1>6, Zenon DEF OwnParity
  <1>8. NextIsFresh(a)
    <2>1. /\ sid % 2 = OwnParity(s)
          /\ \A j \in Sids : s.tab[j].life # "NONE" /\ j % 2 = OwnParity(s) => j < sid
      BY DEF SInv, NextIsFresh
    <2>2. n % 2 = sid % 2
      BY <1>1, <1>3
    <2>3. \A j \in Sids : j < sid => j < n
      BY <1>1, <1>3, SessionAssumption DEF Sids
    <2> QED
      BY <1>6, <1>7, <2>1, <2>2, <2>3 DEF NextIsFresh
  <1>9. Typed(a) /\ Counted(a) /\ Blocked(a)
    BY <1>6 DEF SInv, Typed, Counted, Blocked, NoRoom, SameBlocked
  <1>10. BlockedAreLive(a) /\ NoneBeforeHello(a)
    BY <1>6 DEF SInv, BlockedAreLive, NoneBeforeHello, SameBlocked
  <1>11. SInv(a)
    BY <1>8, <1>9, <1>10 DEF SInv
  <1>12. a.tab[sid].life = "NONE" /\ sid < a.next_local_sid
    BY <1>1, <1>2, <1>3, <1>6 DEF SInv, NextIsFresh
  <1>13. Keeps(s, i)
    BY <1>2, <1>6, <1>11, <1>12, StInsert DEF Keeps, SameIds
  <1> HIDE DEF i
  <1>14. Keeps(s, e)
    BY <1>5, <1>13, EmitKeeps DEF Keeps
  <1> HIDE DEF e
  <1>15. Keeps(s, st_remove(e, sid))
    BY <1>2, <1>14, StRemove DEF Keeps, SameIds
  <1> QED
    BY <1>4, <1>14, <1>15, Zenon

\* Once a session is dead, what its host waits for does not matter.
LEMMA SetWaiting ==
  ASSUME NEW s, SInv(s), NEW W \in SUBSET Sids,
         s.dead = MUX_CODE_NO_ERROR => W = s.waiting
  PROVE  Keeps(s, [s EXCEPT !.waiting = W])
  <1> DEFINE t == [s EXCEPT !.waiting = W]
  <1>1. /\ t \in SessionState /\ t.out = s.out /\ SameIds(s, t)
        /\ t.dead = s.dead /\ t.tab = s.tab /\ t.waiting = W
        /\ t.sess_send_win = s.sess_send_win
        /\ t.send_blocked = s.send_blocked /\ t.blocked_count = s.blocked_count
    BY Zenon DEF SInv, Typed, SessionState, SameIds
  <1> HIDE DEF t
  <1>2. Typed(t) /\ Counted(t) /\ Blocked(t) /\ BlockedAreLive(t)
    BY <1>1 DEF SInv, Typed, Counted, Blocked, NoRoom, BlockedAreLive
  <1>3. NoneBeforeHello(t) /\ NextIsFresh(t)
    BY <1>1, LiveShrinks
  <1> QED
    BY <1>1, <1>2, <1>3 DEF Keeps, SInv, SameIds, t

\* A write that came up short flags a stream that has no room.
LEMMA ShortWrite ==
  ASSUME NEW s, SInv(s), NEW sid \in Sids, s.tab[sid].life # "NONE",
         s.dead = MUX_CODE_NO_ERROR => NoRoom(s, sid)
  PROVE  Keeps(s, short_write(set_blocked(s, sid, TRUE), sid))
  <1> DEFINE b == set_blocked(s, sid, TRUE)
             W == b.waiting \cup {sid}
             t == [b EXCEPT !.waiting = W]
  <1>1. /\ Typed(b) /\ Counted(b) /\ SameIds(s, b)
        /\ b.dead = s.dead /\ b.tab = s.tab /\ b.waiting = s.waiting
        /\ b.sess_send_win = s.sess_send_win
        /\ b.send_blocked = s.send_blocked \cup {sid}
    <2>1. TRUE \in BOOLEAN
      OBVIOUS
    <2> QED
      BY <2>1, SetBlocked DEF SInv
  <1>2. short_write(b, sid) = t
    BY Zenon DEF short_write
  <1> HIDE DEF b
  <1>3. b.waiting \in SUBSET Sids
    BY <1>1, Zenon DEF Typed, SessionState
  <1>4. W \in SUBSET Sids
    BY <1>3
  <1> HIDE DEF W
  <1>5. /\ t \in SessionState /\ t.out = b.out /\ SameIds(b, t)
        /\ t.dead = b.dead /\ t.tab = b.tab /\ t.waiting = W
        /\ t.sess_send_win = b.sess_send_win
        /\ t.send_blocked = b.send_blocked /\ t.blocked_count = b.blocked_count
    BY <1>1, <1>4, Zenon DEF Typed, SessionState, SameIds
  <1> HIDE DEF t
  <1>6. Typed(t) /\ Counted(t) /\ SameIds(s, t) /\ t.role = s.role
    BY <1>1, <1>5 DEF Typed, Counted, SameIds
  <1>7. Blocked(t) /\ BlockedAreLive(t)
    BY <1>1, <1>5 DEF SInv, Blocked, NoRoom, BlockedAreLive, W
  <1>8. NoneBeforeHello(t) /\ NextIsFresh(t)
    BY <1>1, <1>5, <1>6, LiveShrinks
  <1> QED
    BY <1>2, <1>6, <1>7, <1>8 DEF Keeps, SInv, b

\* What mux_write puts in the buffer shrinks both windows; if it is less than
\* asked for and both windows are still open, the session has just died.
LEMMA WriteKeeps ==
  ASSUME NEW s, SInv(s), NEW sid \in Sids, NEW n \in Nat, mux_write_ok(s, sid)
  PROVE  Keeps(s, mux_write(s, sid, n))
  <1> DEFINE sw == s.tab[sid].send_win
             room == IF s.sess_send_win < sw THEN s.sess_send_win ELSE sw
             want == IF n > room THEN room ELSE n
             sent == Fit(s, want, MaxDataFrame)
             c == emit_chunks(s, "DATA", sid, want, MaxDataFrame)
             v == [s.tab EXCEPT ![sid].send_win = @ - sent]
             w == s.sess_send_win - sent
             t == [c EXCEPT !.tab = v, !.sess_send_win = w]
  <1>1. /\ s \in SessionState /\ s.sess_send_win \in Int /\ s.tab \in [Sids -> Stream]
        /\ s.send_blocked \in SUBSET Sids
    BY Zenon DEF SInv, Typed, SessionState
  <1>2. sw \in Int /\ room \in Int /\ s.tab[sid].life # "NONE"
    BY <1>1 DEF Stream, mux_write_ok, Live
  <1>3. CASE room <= 0
    <2>1. mux_write(s, sid, n) = short_write(set_blocked(s, sid, TRUE), sid)
      BY <1>3, Zenon DEF mux_write
    <2>2. NoRoom(s, sid)
      BY <1>1, <1>2, <1>3 DEF NoRoom
    <2> QED
      BY <1>2, <2>1, <2>2, ShortWrite
  <1>4. CASE room > 0
    <2>1. want \in Nat /\ want <= room
      BY <1>2, <1>4
    <2>2. /\ Typed(c) /\ SameSend(s, c) /\ c.tab = s.tab
          /\ sent \in 0 .. want
          /\ sent # want => c.dead # MUX_CODE_NO_ERROR
      <3>1. /\ "DATA" \in FrameType /\ MaxDataFrame \in Nat \ {0}
            /\ sid \in {MUX_SID_CONTROL} \cup Sids
        BY SessionAssumption DEF FrameType
      <3> HIDE DEF want
      <3> QED
        BY <2>1, <3>1, EmitChunks DEF SInv
    <2>3. c.sess_send_win = s.sess_send_win
      BY <2>2 DEF SameSend, SameBlocked
    <2>4. [c EXCEPT !.tab[sid].send_win = @ - sent, !.sess_send_win = @ - sent] = t
      BY <2>2, <2>3, Zenon DEF Typed, SessionState
    <2>5. \/ /\ sent = n
             /\ mux_write(s, sid, n) = [t EXCEPT !.waiting = t.waiting \ {sid}]
          \/ /\ t.tab[sid].send_win <= 0 \/ t.sess_send_win <= 0
             /\ mux_write(s, sid, n) = short_write(set_blocked(t, sid, TRUE), sid)
          \/ /\ sent # n
             /\ ~(t.tab[sid].send_win <= 0 \/ t.sess_send_win <= 0)
             /\ mux_write(s, sid, n) = short_write(t, sid)
      <3>1. ~(room <= 0)
        BY <1>2, <1>4
      <3>2. LET u == [c EXCEPT !.tab[sid].send_win = @ - sent,
                               !.sess_send_win = @ - sent]
            IN  mux_write(s, sid, n) =
                  IF room <= 0 THEN short_write(set_blocked(s, sid, TRUE), sid)
                  ELSE IF sent = n THEN [u EXCEPT !.waiting = u.waiting \ {sid}]
                  ELSE IF u.tab[sid].send_win <= 0 \/ u.sess_send_win <= 0
                    THEN short_write(set_blocked(u, sid, TRUE), sid)
                  ELSE short_write(u, sid)
        BY Zenon DEF mux_write
      <3> HIDE DEF room, sent, c, t
      <3> QED
        BY <2>4, <3>1, <3>2, Zenon
    <2> HIDE DEF want, sent, c
    <2>6. /\ v \in [Sids -> Stream] /\ w \in Int
          /\ \A i \in Sids : v[i].life = s.tab[i].life
          /\ \A i \in Sids : i # sid => v[i].send_win = s.tab[i].send_win
          /\ v[sid].send_win = sw - sent /\ w = s.sess_send_win - sent
          /\ sent \in Nat
      BY <1>1, <2>1, <2>2 DEF Stream
    <2> HIDE DEF v, w
    <2>7. /\ t \in SessionState /\ t.out = c.out /\ SameIds(c, t)
          /\ t.dead = c.dead /\ t.tab = v /\ t.waiting = c.waiting
          /\ t.sess_send_win = w
          /\ t.send_blocked = c.send_blocked /\ t.blocked_count = c.blocked_count
      BY <2>2, <2>6, Zenon DEF Typed, SessionState, SameIds
    <2> HIDE DEF t
    <2>8. /\ Typed(t) /\ SameIds(s, t) /\ t.blocked_count = s.blocked_count
          /\ t.send_blocked = s.send_blocked /\ t.waiting = s.waiting
          /\ t.dead = MUX_CODE_NO_ERROR => s.dead = MUX_CODE_NO_ERROR
      BY <2>2, <2>7 DEF Typed, SameSend, SameIds, SameBlocked
    <2>9. Counted(t) /\ BlockedAreLive(t) /\ NoneBeforeHello(t) /\ NextIsFresh(t)
      BY <2>6, <2>7, <2>8, WindowsMoved
    <2>10. s.dead = MUX_CODE_NO_ERROR => sid \notin s.send_blocked
      BY <1>1, <1>2, <1>4 DEF SInv, Blocked, NoRoom
    <2>11. Blocked(t)
      <3>1. ASSUME NEW i \in s.send_blocked, NoRoom(s, i) PROVE NoRoom(t, i)
        BY <1>1, <1>2, <2>6, <2>7, <3>1 DEF NoRoom, Stream
      <3> QED
        BY <2>8, <3>1 DEF SInv, Blocked
    <2>12. Keeps(s, t)
      BY <2>8, <2>9, <2>11 DEF Keeps, SInv, SameIds
    <2>13. Keeps(s, [t EXCEPT !.waiting = t.waiting \ {sid}])
      <3>1. t.waiting \in SUBSET Sids
        BY <2>8, Zenon DEF Typed, SessionState
      <3>2. t.waiting \ {sid} \in SUBSET Sids
        BY <3>1
      <3>3. t.dead = MUX_CODE_NO_ERROR => t.waiting \ {sid} = t.waiting
        BY <2>8, <2>10 DEF SInv, Blocked
      <3> QED
        BY <2>12, <3>2, <3>3, SetWaiting DEF Keeps
    <2>14. t.tab[sid].life # "NONE"
      BY <1>2, <2>6, <2>7
    <2>15. ASSUME t.tab[sid].send_win <= 0 \/ t.sess_send_win <= 0
           PROVE  Keeps(s, short_write(set_blocked(t, sid, TRUE), sid))
      BY <2>12, <2>14, <2>15, ShortWrite DEF Keeps, NoRoom
    <2>16. ASSUME sent # n, ~(t.tab[sid].send_win <= 0 \/ t.sess_send_win <= 0)
           PROVE  Keeps(s, short_write(t, sid))
      <3>1. sent # want
        BY <1>1, <1>2, <1>4, <2>6, <2>7, <2>16 DEF want
      <3>2. t.dead # MUX_CODE_NO_ERROR
        BY <2>2, <2>7, <3>1
      <3>3. t.waiting \in SUBSET Sids
        BY <2>8, Zenon DEF Typed, SessionState
      <3>4. t.waiting \cup {sid} \in SUBSET Sids
        BY <3>3
      <3>5. short_write(t, sid) = [t EXCEPT !.waiting = t.waiting \cup {sid}]
        BY Zenon DEF short_write
      <3> QED
        BY <2>12, <3>2, <3>4, <3>5, SetWaiting DEF Keeps
    <2> QED
      BY <2>5, <2>13, <2>15, <2>16
  <1> QED
    BY <1>2, <1>3, <1>4

\* mux_close keeps the session invariant.
LEMMA CloseKeeps ==
  ASSUME NEW s, SInv(s), NEW sid \in Sids, mux_close_ok(s, sid)
  PROVE  Keeps(s, mux_close(s, sid))
  <1> DEFINE f == MkFrame("DATA", {"FIN"}, sid, 0)
             e == emit(s, f)
  <1>1. f \in Frame
    BY DEF MkFrame, Frame, FrameType
  <1>2. s.tab[sid].life # "NONE"
    BY DEF mux_close_ok, Live
  <1>3. \/ mux_close(s, sid) = e
        \/ mux_close(s, sid) = st_remove(e, sid)
        \/ mux_close(s, sid) = [e EXCEPT !.tab[sid].life = "HCL_LOCAL"]
    BY Zenon DEF mux_close
  <1> HIDE DEF f
  <1>4. Keeps(s, e) /\ e.tab[sid].life # "NONE"
    BY <1>1, <1>2, EmitKeeps DEF SameSend
  <1> HIDE DEF e
  <1>5. Keeps(s, st_remove(e, sid))
    BY <1>4, StRemove DEF Keeps, SameIds
  <1>6. "HCL_LOCAL" \in Life \ {"NONE"}
    BY DEF Life
  <1>7. Keeps(s, [e EXCEPT !.tab[sid].life = "HCL_LOCAL"])
    BY <1>4, <1>6, SetLife DEF Keeps
  <1> QED
    BY <1>3, <1>4, <1>5, <1>7

\* mux_reset keeps the session invariant.
LEMMA ResetKeeps ==
  ASSUME NEW s, SInv(s), NEW sid \in Sids
  PROVE  Keeps(s, mux_reset(s, sid, MUX_CODE_NO_ERROR))
  <1> DEFINE e == emit_rst(s, sid, MUX_CODE_NO_ERROR)
  <1>1. SInv(e) /\ e.role = s.role
    BY EmitRst DEF MUX_CODE_NO_ERROR, SameSend, SameIds
  <1>2. mux_reset(s, sid, MUX_CODE_NO_ERROR) = st_remove(e, sid)
    BY Zenon DEF mux_reset
  <1> HIDE DEF e
  <1> QED
    BY <1>1, <1>2, StRemove DEF Keeps, SameIds

\* mux_consume keeps the session invariant.
LEMMA ConsumeKeeps ==
  ASSUME NEW s, SInv(s), NEW sid \in Sids, NEW n \in Nat, n <= s.unread[sid]
  PROVE  Keeps(s, mux_consume(s, sid, n))
  <1> DEFINE p == s.sess_recv_pending + n
             u == [s.unread EXCEPT ![sid] = @ - n]
             a == [s EXCEPT !.sess_recv_pending = p, !.unread = u]
             c == credit_session(a)
             v == [c.tab EXCEPT ![sid].recv_pending = @ + n]
             t == [c EXCEPT !.tab = v]
  <1>1. /\ s \in SessionState /\ s.sess_recv_pending \in Int
        /\ s.unread \in [Sids -> Nat]
    BY Zenon DEF SInv, Typed, SessionState
  <1>2. p \in Int /\ u \in [Sids -> Nat]
    BY <1>1
  <1>3. a = [s EXCEPT !.sess_recv_pending = @ + n, !.unread[sid] = @ - n]
    BY <1>1, Zenon DEF SessionState
  <1> HIDE DEF p, u
  <1>4. /\ a \in SessionState /\ a.dead = s.dead /\ a.tab = s.tab /\ a.out = s.out
        /\ SameIds(s, a) /\ SameBlocked(s, a)
    BY <1>1, <1>2, Zenon DEF SessionState, SameIds, SameBlocked
  <1> HIDE DEF a
  <1>5. Typed(a) /\ SameSend(s, a)
    BY <1>4 DEF SInv, Typed, SameSend
  <1>6. Typed(c) /\ SameSend(s, c)
    BY <1>5, CreditSession, SameSendTransitive
  <1> HIDE DEF c
  <1>7. c \in SessionState /\ c.tab \in [Sids -> Stream]
    BY <1>6, Zenon DEF Typed, SessionState
  <1>8. /\ v \in [Sids -> Stream]
        /\ \A i \in Sids : /\ v[i].send_win = c.tab[i].send_win
                           /\ v[i].life = c.tab[i].life
    BY <1>7 DEF Stream
  <1>9. [c EXCEPT !.tab[sid].recv_pending = @ + n] = t
    BY <1>7, Zenon DEF SessionState
  <1>10. mux_consume(s, sid, n) = c \/ mux_consume(s, sid, n) = credit_stream(t, sid)
    BY <1>3, <1>9, Zenon DEF mux_consume, c
  <1> HIDE DEF v
  <1>11. /\ t \in SessionState /\ t.dead = c.dead /\ t.tab = v /\ t.out = c.out
         /\ SameIds(c, t) /\ SameBlocked(c, t)
    BY <1>7, <1>8, Zenon DEF SessionState, SameIds, SameBlocked
  <1> HIDE DEF t
  <1>12. Typed(t) /\ SameSend(c, t)
    BY <1>6, <1>8, <1>11 DEF Typed, SameSend
  <1>13. Typed(credit_stream(t, sid)) /\ SameSend(t, credit_stream(t, sid))
    BY <1>12, CreditStream
  <1>14. SameSend(s, credit_stream(t, sid))
    BY <1>6, <1>12, <1>13, SameSendTransitive
  <1> QED
    BY <1>6, <1>10, <1>13, <1>14, SameSendKeeps

\* mux_send_capacity, mux_goaway and the heartbeat's PING keep it.
LEMMA ControlKeeps ==
  ASSUME NEW s, SInv(s)
  PROVE  /\ Keeps(s, mux_send_capacity(s))
         /\ Keeps(s, mux_goaway(s))
         /\ Keeps(s, send_ping(s))
  <1> DEFINE fc == MkFrame("CAPACITY", {}, MUX_SID_CONTROL, 0)
             fg == MkFrame("GOAWAY", {}, MUX_SID_CONTROL, s.max_remote_sid)
             fp == MkFrame("PING", {}, MUX_SID_CONTROL, 0)
             g == [s EXCEPT !.local_goaway = TRUE]
             e == emit(s, fp)
  <1>1. s.max_remote_sid \in Nat
    BY Zenon DEF SInv, Typed, SessionState
  <1>2. fc \in Frame /\ fg \in Frame /\ fp \in Frame
    BY <1>1 DEF MkFrame, Frame, FrameType
  <1>3. /\ mux_send_capacity(s) = emit(s, fc)
        /\ mux_goaway(s) = emit(g, fg)
        /\ send_ping(s) = IF EmitFits(s) THEN [e EXCEPT !.ping_outstanding = TRUE]
                                         ELSE e
    BY Zenon DEF mux_send_capacity, mux_goaway, send_ping
  <1> HIDE DEF fc, fg, fp
  <1>4. Keeps(s, g)
    BY SetGoaway DEF Keeps, SameIds
  <1> HIDE DEF g
  <1>5. Keeps(s, emit(s, fc)) /\ Keeps(s, emit(g, fg)) /\ Keeps(s, e)
    BY <1>2, <1>4, EmitKeeps DEF Keeps
  <1> HIDE DEF e
  <1>6. Keeps(s, [e EXCEPT !.ping_outstanding = TRUE])
    BY <1>5, SetPing DEF Keeps, SameIds
  <1> QED
    BY <1>3, <1>5, <1>6, Zenon
-----------------------------------------------------------------------------
(***************************************************************************)
(* Both ends.                                                              *)
(***************************************************************************)
LInv ==
  /\ DOMAIN ep = Role /\ ep = [x \in Role |-> ep[x]]
  /\ \A x \in Role : SInv(ep[x]) /\ ep[x].role = x

\* A step of one end that keeps its session invariant keeps that of the pair.
LEMMA StepLInv ==
  ASSUME LInv, NEW x \in Role, NEW s, Keeps(ep[x], s), Step(x, s)
  PROVE  LInv'
  BY DEF LInv, Step, Keeps

\* Both ends start with a new session.
LEMMA InitLInv == Init => LInv
  BY NewSession DEF Init, LInv

\* A frame delivered to either end keeps the invariant of the pair.
LEMMA RecvLInv ==
  ASSUME LInv, NEW x \in Role, Recv(x)
  PROVE  LInv'
  <1> DEFINE y == Peer(x)
             f == Head(ep[y].out)
             p == process_frame(ep[x], f)
             o == Tail(ep[y].out)
             q == [ep[y] EXCEPT !.out = o]
  <1>1. y \in Role /\ y # x
    BY DEF Peer, Role
  <1>2. SInv(ep[x]) /\ SInv(ep[y]) /\ ep[x].role = x /\ ep[y].role = y
    BY <1>1 DEF LInv
  <1>3. ep[y].out \in Seq(Frame) /\ ep[y].out # <<>> /\ Len(ep[y].out) <= OutCap
    <2>1. ep[y].out \in Seq(Frame)
      BY <1>2, Zenon DEF SInv, Typed, SessionState
    <2> QED
      BY <1>2, <2>1 DEF Recv, SInv, Typed
  <1>4. f \in Frame /\ o \in Seq(Frame) /\ Len(o) <= OutCap
    BY <1>3, SessionAssumption
  <1>5. ep' = [ep EXCEPT ![x] = p, ![y].out = o]
    BY Zenon DEF Recv
  <1> HIDE DEF y, f, o
  <1>6. Keeps(ep[x], p)
    BY <1>2, <1>4, ProcessFrame
  <1> HIDE DEF p
  <1>7. Keeps(ep[y], q)
    <2>1. /\ q \in SessionState /\ q.dead = ep[y].dead /\ q.tab = ep[y].tab
          /\ q.out = o /\ SameIds(ep[y], q) /\ SameBlocked(ep[y], q)
      BY <1>2, <1>4, Zenon DEF SInv, Typed, SessionState, SameIds, SameBlocked
    <2> HIDE DEF q
    <2>2. Typed(q) /\ SameSend(ep[y], q)
      BY <1>4, <2>1 DEF Typed, SameSend
    <2> QED
      BY <1>2, <2>2, SameSendKeeps
  <1>8. ep' = [ep EXCEPT ![x] = p, ![y] = q]
    BY <1>1, <1>5, Zenon DEF LInv
  <1> HIDE DEF q
  <1> QED
    BY <1>1, <1>2, <1>6, <1>7, <1>8 DEF LInv, Keeps

\* Every step of the pair keeps it.
LEMMA NextLInv ==
  ASSUME NoWrap, LInv, [Next]_ep
  PROVE  LInv'
  <1>1. CASE UNCHANGED ep
    BY <1>1 DEF LInv
  <1>2. ASSUME NEW x \in Role, Open(x) PROVE LInv'
    <2>1. SInv(ep[x])
      BY DEF LInv
    <2> QED
      BY <1>2, <2>1, OpenKeeps, StepLInv DEF Open
  <1>3. ASSUME NEW x \in Role, NEW sid \in Sids, NEW n \in 1 .. MaxWrite,
               Write(x, sid, n)
        PROVE  LInv'
    <2>1. SInv(ep[x]) /\ n \in Nat
      BY LinkAssumption DEF LInv
    <2> QED
      BY <1>3, <2>1, WriteKeeps, StepLInv DEF Write
  <1>4. ASSUME NEW x \in Role, NEW sid \in Sids, Close(x, sid) PROVE LInv'
    <2>1. SInv(ep[x])
      BY DEF LInv
    <2> QED
      BY <1>4, <2>1, CloseKeeps, StepLInv DEF Close
  <1>5. ASSUME NEW x \in Role, NEW sid \in Sids, Reset(x, sid) PROVE LInv'
    <2>1. SInv(ep[x])
      BY DEF LInv
    <2> QED
      BY <1>5, <2>1, ResetKeeps, StepLInv DEF Reset
  <1>6. ASSUME NEW x \in Role, NEW sid \in Sids, NEW n \in 1 .. ep[x].unread[sid],
               Consume(x, sid, n)
        PROVE  LInv'
    <2>1. SInv(ep[x])
      BY DEF LInv
    <2>2. ep[x].unread \in [Sids -> Nat]
      BY <2>1, Zenon DEF SInv, Typed, SessionState
    <2>3. n \in Nat /\ n <= ep[x].unread[sid]
      BY <2>2
    <2> QED
      BY <1>6, <2>1, <2>3, ConsumeKeeps, StepLInv DEF Consume
  <1>7. ASSUME NEW x \in Role, Capacity(x) \/ Goaway(x) \/ Heartbeat(x)
        PROVE  LInv'
    <2>1. SInv(ep[x])
      BY DEF LInv
    <2> QED
      BY <1>7, <2>1, ControlKeeps, StepLInv DEF Capacity, Goaway, Heartbeat
  <1>8. ASSUME NEW x \in Role, KeepaliveExpires(x) PROVE LInv'
    <2>1. SInv(ep[x])
      BY DEF LInv
    <2> QED
      BY <1>8, <2>1, FatalKeeps, ErrorCodes, StepLInv DEF KeepaliveExpires
  <1> QED
    BY <1>1, <1>2, <1>3, <1>4, <1>5, <1>6, <1>7, <1>8, RecvLInv DEF Next

\* The invariant of both ends holds in every reachable state.
THEOREM LinkInvariant ==
  ASSUME NoWrap
  PROVE  Spec => []LInv
  <1>1. Init => LInv
    BY InitLInv
  <1>2. LInv /\ [Next]_ep => LInv'
    BY NextLInv
  <1> QED
    BY <1>1, <1>2, PTL DEF Spec

\* Both sessions stay well formed through every frame handler and API call.
THEOREM LinkTyped ==
  ASSUME NoWrap
  PROVE  Spec => []TypeOK
  <1>1. LInv => TypeOK
    BY Zenon DEF LInv, SInv, Typed, TypeOK
  <1> QED
    BY <1>1, LinkInvariant, PTL

\* No lost wake-up: set_blocked, on_window_update and mux_write together keep a
\* stream flagged send_blocked only while one of its windows is exhausted.
THEOREM LinkNoLostWakeup ==
  ASSUME NoWrap
  PROVE  Spec => []BlockedMeansNoRoom
  <1>1. LInv => BlockedMeansNoRoom
    BY DEF LInv, SInv, Blocked, NoRoom, BlockedMeansNoRoom, Alive
  <1> QED
    BY <1>1, LinkInvariant, PTL

\* blocked_count is exact, so skipping the sweep when it is zero loses nobody.
THEOREM LinkBlockedCount ==
  ASSUME NoWrap
  PROVE  Spec => []BlockedCountExact
  <1>1. LInv => BlockedCountExact
    BY DEF LInv, SInv, Counted, BlockedCountExact
  <1> QED
    BY <1>1, LinkInvariant, PTL

\* Every host that was given a short write is flagged by the session.
THEOREM LinkWaitingIsBlocked ==
  ASSUME NoWrap
  PROVE  Spec => []WaitingIsBlocked
  <1>1. LInv => WaitingIsBlocked
    BY DEF LInv, SInv, Blocked, WaitingIsBlocked, Alive
  <1> QED
    BY <1>1, LinkInvariant, PTL
=============================================================================
