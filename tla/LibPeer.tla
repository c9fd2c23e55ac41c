------------------------------ MODULE LibPeer ------------------------------
(***************************************************************************)
(* libpeer (src/libpeer/src/libpeer.c): one I/O thread owns a session and  *)
(* application threads call the lp_* functions; they meet in the stream    *)
(* objects, under one mutex.                                               *)
(*                                                                         *)
(* At pc "work", "recv", "events" and "drain" the I/O thread keeps the     *)
(* mutex from one step to the next; at "down", "poll", "draining" and      *)
(* "stopped" it is in a system call, or gone, with the mutex released and  *)
(* application calls run.  A call is one step, split where it waits on a   *)
(* condition variable.  The pending list is the set of streams with        *)
(* in_pending; bytes are counted.  The configuration has no token.         *)
(***************************************************************************)
EXTENDS HostMux, FiniteSetsExt, SequencesExt

CONSTANTS
  LP_WBUF_HIGH,     \* send backlog above which writers wait
  MaxWrite,         \* bound: bytes of one lp_write
  MaxHandles,       \* bound: stream objects; calloc fails beyond
  MaxBatch,         \* bound: frames that one tunnel_read takes in
  MaxSessions,      \* bound: sessions that come up
  Uses              \* how the application may use the library

ASSUME LibPeerAssumption ==
  /\ {LP_WBUF_HIGH, MaxWrite, MaxHandles, MaxBatch, MaxSessions} \subseteq Nat \ {0}
  /\ Uses \subseteq {"calls", "reconnects", "polls"}

VARIABLES
  c,                \* struct lp_client with its streams
  pc,               \* where the I/O thread is
  sessions          \* sessions brought up so far

vars == <<c, pc, sessions>>

\* The application uses lp_poll and the non-blocking calls, or blocking calls.
Polls == c.use = "polls"

\* Bound: all streams are of one session, or there is one in each of several.
OneSession == c.use = "calls"

Handles == 1 .. MaxHandles
CV == {"idle", "waiting", "woken"}      \* the one caller of a condition variable
Bits == {"READABLE", "WRITABLE", "CLOSED"}

\* struct lp_stream; held is true from lp_accept to lp_close.
LpStream ==
  [sid : Sids, in_reg : BOOLEAN, rbuf : 0 .. Win,
   wbuf : 0 .. LP_WBUF_HIGH + MaxWrite, consume_pending : 0 .. Win,
   eof : BOOLEAN, reset : BOOLEAN, app_closed : BOOLEAN, fin_sent : BOOLEAN,
   proto_done : BOOLEAN, in_pending : BOOLEAN, want_writable : BOOLEAN,
   rcv : CV, snd : CV, held : BOOLEAN, ev_pending : SUBSET Bits]
Free == [free |-> TRUE]

NewStream(sid) ==
  [sid |-> sid, in_reg |-> TRUE, rbuf |-> 0, wbuf |-> 0, consume_pending |-> 0,
   eof |-> FALSE, reset |-> FALSE, app_closed |-> FALSE, fin_sent |-> FALSE,
   proto_done |-> FALSE, in_pending |-> FALSE, want_writable |-> FALSE,
   rcv |-> "idle", snd |-> "idle", held |-> FALSE, ev_pending |-> {}]

Allocated(x) == {h \in Handles : x.st[h] # Free}
Pending(x) == {h \in Allocated(x) : x.st[h].in_pending}
Unlocked == pc \in {"down", "poll", "draining", "stopped"}
-----------------------------------------------------------------------------
pthread_cond_signal(cv) == IF cv = "waiting" THEN "woken" ELSE cv

pending_push(x, h) == [x EXCEPT !.st[h].in_pending = TRUE]

\* The readiness pipe holds a byte exactly while notified is set.
notify_raise(x) == [x EXCEPT !.notified = @ \/ x.poll_mode]

ready_mark(x, h, bits) ==
  IF ~x.poll_mode THEN x
  ELSE notify_raise([x EXCEPT !.st[h].ev_pending = @ \cup bits,
                              !.ready = IF Contains(@, h) THEN @ ELSE <<h>> \o @])

Freeable(s) == s.proto_done /\ s.app_closed /\ ~s.in_pending

\* Fault: a stream is freed while lp_poll's list still leads to it.
stream_try_free_ready(x, h) ==
  IF ~Freeable(x.st[h]) THEN x
  ELSE [x EXCEPT !.st[h] = Free,
                 !.reg[x.st[h].sid] = IF x.st[h].in_reg THEN 0 ELSE @]

stream_try_free(x, h) ==
  IF ~Freeable(x.st[h]) \/ Contains(x.ready, h) THEN x
  ELSE [x EXCEPT !.st[h] = Free,
                 !.reg[x.st[h].sid] = IF x.st[h].in_reg THEN 0 ELSE @]

try_free_all(x, hs) == FoldSet(LAMBDA h, y : stream_try_free(y, h), x, hs)
-----------------------------------------------------------------------------
(***************************************************************************)
(* The I/O thread: queued requests of the application.                     *)
(***************************************************************************)
consumed(x, h) ==
  [x EXCEPT !.mux = mux_consume(@, x.st[h].sid, x.st[h].consume_pending),
            !.st[h].consume_pending = 0]

\* mux_write takes k bytes in all.
flush_wbuf(x, h, k) ==
  LET s == x.st[h]
      y == [x EXCEPT !.mux = mux_write(@, s.sid, s.wbuf, k), !.st[h].wbuf = @ - k]
  IN IF s.wbuf = 0 \/ s.wbuf - k > LP_WBUF_HIGH \div 2 THEN y
     ELSE LET z == [y EXCEPT !.st[h].snd = pthread_cond_signal(@),
                             !.st[h].want_writable = FALSE]
          IN IF s.want_writable THEN ready_mark(z, h, {"WRITABLE"}) ELSE z

\* Fault: the FIN does not wait for the send backlog.
send_fin_early(x, h) ==
  LET s == x.st[h] IN
  IF s.app_closed /\ ~s.fin_sent
    THEN [x EXCEPT !.mux = mux_close(@, s.sid), !.st[h].fin_sent = TRUE,
                   !.st[h].proto_done = @ \/ s.eof]
    ELSE x

send_fin(x, h) ==
  LET s == x.st[h] IN
  IF s.app_closed /\ ~s.fin_sent /\ s.wbuf = 0
    THEN [x EXCEPT !.mux = mux_close(@, s.sid), !.st[h].fin_sent = TRUE,
                   !.st[h].proto_done = @ \/ s.eof]
    ELSE x

\* The next stream of the pending list.
process_pending(h) ==
  /\ pc \in {"work", "drain"} /\ h \in Pending(c)
  /\ LET x == consumed([c EXCEPT !.st[h].in_pending = FALSE], h) IN
     \E k \in Takes(x.mux, c.st[h].sid, c.st[h].wbuf) :
       c' = stream_try_free(send_fin(flush_wbuf(x, h, k), h), h)
  /\ UNCHANGED <<pc, sessions>>
-----------------------------------------------------------------------------
(***************************************************************************)
(* The I/O thread: handle_events, one event per step.                      *)
(***************************************************************************)
Ev0 == Head(c.mux.evq)
Next0 == [c EXCEPT !.mux = mux_next_event(@)]
reg_get == IF Ev0.sid = 0 THEN 0 ELSE c.reg[Ev0.sid]
Loop == IF c.stopping THEN "drain" ELSE "work"      \* the head of io_main's loop

Handling(types) ==
  /\ pc \in {"recv", "events"} /\ c.mux.evq # <<>> /\ Ev0.type \in types
  /\ pc' = IF Len(c.mux.evq) = 1 THEN Loop ELSE "events"
  /\ UNCHANGED sessions

\* stream_new, or the reset where it fails.
OnOpened ==
  LET free == Handles \ Allocated(c)
      h == Min(free)
  IN /\ Handling({"STREAM_OPENED"})
     /\ c' = IF free = {} THEN [Next0 EXCEPT !.mux = mux_reset(@, Ev0.sid)]
             ELSE notify_raise([Next0 EXCEPT
                    !.st[h] = NewStream(Ev0.sid), !.reg[Ev0.sid] = h,
                    !.acceptq = Append(@, h),
                    !.accept_cv = pthread_cond_signal(@)])

\* Fault: the reader is not woken.
OnData_asleep ==
  /\ Handling({"STREAM_DATA"}) /\ reg_get # 0
  /\ c' = ready_mark([Next0 EXCEPT !.st[reg_get].rbuf = @ + Ev0.n],
                     reg_get, {"READABLE"})

OnData ==
  /\ Handling({"STREAM_DATA"}) /\ reg_get # 0
  /\ c' = ready_mark([Next0 EXCEPT !.st[reg_get].rbuf = @ + Ev0.n,
                                   !.st[reg_get].rcv = pthread_cond_signal(@)],
                     reg_get, {"READABLE"})

OnClosed ==
  /\ Handling({"STREAM_CLOSED"}) /\ reg_get # 0
  /\ c' = stream_try_free(
            ready_mark([Next0 EXCEPT !.st[reg_get].eof = TRUE,
                                     !.st[reg_get].proto_done = @ \/ c.st[reg_get].fin_sent,
                                     !.st[reg_get].rcv = pthread_cond_signal(@)],
                       reg_get, {"READABLE", "CLOSED"}), reg_get)

\* STREAM_RESET, and session_down for a stream that is not done yet.
aborted(s) ==
  [s EXCEPT !.reset = TRUE, !.eof = TRUE, !.proto_done = TRUE,
            !.rcv = pthread_cond_signal(@), !.snd = pthread_cond_signal(@)]

OnReset ==
  /\ Handling({"STREAM_RESET"}) /\ reg_get # 0
  /\ c' = stream_try_free(
            ready_mark([Next0 EXCEPT !.st[reg_get] = aborted(@)],
                       reg_get, {"READABLE", "CLOSED"}), reg_get)

\* Fault: the backlog is not queued for another flush.
OnWritable_ignored ==
  Handling({"WRITABLE"}) /\ reg_get # 0 /\ c' = Next0

OnWritable ==
  /\ Handling({"WRITABLE"}) /\ reg_get # 0
  /\ c' = IF c.st[reg_get].wbuf > 0 THEN pending_push(Next0, reg_get) ELSE Next0

\* PEER_HELLO sets authed, which nothing reads; FATAL is left to the main loop.
OnIgnored ==
  /\ \/ Handling({"PEER_HELLO", "FATAL"})
     \/ /\ Handling({"STREAM_DATA", "STREAM_CLOSED", "STREAM_RESET", "WRITABLE"})
        /\ reg_get = 0
  /\ c' = Next0
-----------------------------------------------------------------------------
(***************************************************************************)
(* The I/O thread: io_main around the session.                             *)
(***************************************************************************)
Client(use) ==
  [use |-> use, st |-> [h \in Handles |-> Free], reg |-> [sid \in Sids |-> 0],
   mux |-> mux_session_new, acceptq |-> <<>>, accept_cv |-> "idle",
   ready |-> <<>>, poll_mode |-> FALSE, notified |-> FALSE, stopping |-> FALSE]

Init == (\E use \in Uses : c = Client(use)) /\ pc = "down" /\ sessions = 0

session_up ==
  /\ pc = "down" /\ sessions < IF OneSession THEN 1 ELSE MaxSessions
  /\ c' = [c EXCEPT !.mux = mux_session_new]
  /\ pc' = "work" /\ sessions' = sessions + 1

stream_down(s) ==
  [(IF s.proto_done
      THEN [s EXCEPT !.rcv = pthread_cond_signal(@), !.snd = pthread_cond_signal(@)]
      ELSE aborted(s)) EXCEPT !.in_pending = FALSE, !.in_reg = FALSE]

forget_session(x) ==
  [x EXCEPT !.st = [h \in Handles |-> IF @[h] = Free THEN Free ELSE stream_down(@[h])],
            !.reg = [sid \in Sids |-> 0], !.mux = mux_session_new]

mark_all(x) ==
  FoldSet(LAMBDA h, y : ready_mark(y, h, {"READABLE", "CLOSED"}), x, Allocated(x))

session_down(x) == try_free_all(mark_all(forget_session(x)), Allocated(x))

\* The end of io_main: pthread_cond_broadcast wakes the acceptor.
Stopped(x) == [session_down(x) EXCEPT !.accept_cv = pthread_cond_signal(@)]

WorkDone ==
  /\ Pending(c) = {}
  /\ \/ pc = "work" /\ pc' = "poll"
     \/ pc = "drain" /\ pc' = "draining"
  /\ UNCHANGED <<c, sessions>>

\* The tunnel ends: tunnel_flush, poll or tunnel_read fails.
TunnelLost ==
  /\ pc = "poll" \/ (pc = "work" /\ Pending(c) = {})
  /\ IF c.stopping THEN c' = Stopped(c) /\ pc' = "stopped"
                   ELSE c' = session_down(c) /\ pc' = "down"
  /\ UNCHANGED sessions

\* Fault: the loop that waits for a connection does not look at stopping.
Stop_unless_down ==
  /\ c.stopping /\ pc = "draining"
  /\ c' = Stopped(c) /\ pc' = "stopped" /\ UNCHANGED sessions

Stop ==
  /\ c.stopping /\ pc \in {"down", "draining"}
  /\ c' = Stopped(c) /\ pc' = "stopped" /\ UNCHANGED sessions

\* mux_recv takes in one more frame before any event is handled.
Receive ==
  /\ pc \in {"poll", "recv"} /\ Len(c.mux.evq) < MaxBatch
  /\ \E m \in recv_hello(c.mux, 0) \cup StreamFrames(c.mux)
             \cup (IF OneSession \/ c.mux.next_sid = 1 THEN recv_syn(c.mux) ELSE {}) :
       c' = [c EXCEPT !.mux = m]
  /\ pc' = "recv" /\ UNCHANGED sessions

\* The session fails in mux_recv, in mux_on_timer or in a write.
Fail ==
  /\ pc \in {"poll", "work", "recv"} /\ ~c.mux.dead
  /\ c' = [c EXCEPT !.mux = raise_fatal(@)]
  /\ UNCHANGED <<pc, sessions>>

\* poll returns: the self-pipe, the socket or its timeout.
Wake ==
  /\ pc = "poll" /\ pc' = IF c.mux.evq # <<>> THEN "events" ELSE Loop
  /\ UNCHANGED <<c, sessions>>

IoNext ==
  \/ session_up \/ WorkDone \/ TunnelLost \/ Stop \/ Receive \/ Fail \/ Wake
  \/ \E h \in Handles : process_pending(h)
  \/ OnOpened \/ OnData \/ OnClosed \/ OnReset \/ OnWritable \/ OnIgnored
-----------------------------------------------------------------------------
(***************************************************************************)
(* The application, whose calls start before the client is stopped.  A     *)
(* call that was woken goes on from its loop.                              *)
(***************************************************************************)
Enters(cv) == Unlocked /\ (cv = "woken" \/ (cv = "idle" /\ pc # "stopped"))
Owned(h) == h \in Allocated(c) /\ c.st[h].held
Step(x) == c' = x /\ UNCHANGED <<pc, sessions>>

lp_accept ==
  /\ ~Polls /\ Enters(c.accept_cv)
  /\ IF c.acceptq # <<>>
       THEN Step([c EXCEPT !.accept_cv = "idle", !.acceptq = Tail(@),
                           !.st[Head(c.acceptq)].held = TRUE])
       ELSE Step([c EXCEPT !.accept_cv = IF c.stopping THEN "idle" ELSE "waiting"])

Taken(h, n) ==
  pending_push([c EXCEPT !.st[h].rbuf = @ - n, !.st[h].consume_pending = @ + n,
                         !.st[h].rcv = "idle"], h)

lp_read(h) ==
  /\ ~Polls /\ Owned(h) /\ Enters(c.st[h].rcv)
  /\ LET s == c.st[h] IN
     \/ /\ s.reset \/ (s.rbuf = 0 /\ (s.eof \/ c.stopping))
        /\ Step([c EXCEPT !.st[h].rcv = "idle"])
     \/ /\ ~(s.reset \/ s.eof \/ c.stopping) /\ s.rbuf = 0
        /\ Step([c EXCEPT !.st[h].rcv = "waiting"])
     \/ ~s.reset /\ \E n \in 1 .. s.rbuf : Step(Taken(h, n))

Refused(s) == s.reset \/ s.fin_sent \/ c.stopping

lp_write(h) ==
  /\ ~Polls /\ Owned(h) /\ Enters(c.st[h].snd)
  /\ LET s == c.st[h] IN
     \/ Refused(s) /\ Step([c EXCEPT !.st[h].snd = "idle"])
     \/ ~Refused(s) /\ s.wbuf >= LP_WBUF_HIGH /\ Step([c EXCEPT !.st[h].snd = "waiting"])
     \/ /\ ~Refused(s) /\ s.wbuf < LP_WBUF_HIGH
        /\ \E n \in 1 .. MaxWrite :
             Step(pending_push([c EXCEPT !.st[h].wbuf = @ + n, !.st[h].snd = "idle"], h))

lp_close(h) ==
  /\ Owned(h) /\ Enters("idle") /\ c.st[h].rcv = "idle" /\ c.st[h].snd = "idle"
  /\ Step(pending_push([c EXCEPT !.st[h].app_closed = TRUE, !.st[h].held = FALSE], h))

lp_fileno == Polls /\ Enters("idle") /\ Step([c EXCEPT !.poll_mode = TRUE])

\* lp_poll returns new streams, then streams of the ready list; those that the
\* application has closed are reaped on the way and not returned.
Fresh == {i \in DOMAIN c.ready : ~c.st[c.ready[i]].app_closed}
Accepts(max) == SubSeq(c.acceptq, 1, Min({max, Len(c.acceptq)}))
Popped(max) ==
  LET room == max - Len(Accepts(max))
      full == {i \in Fresh : Cardinality({j \in Fresh : j <= i}) = room}
  IN IF room = 0 THEN 0 ELSE IF full = {} THEN Len(c.ready) ELSE Min(full)
Returned(max) == SelectSeq(SubSeq(c.ready, 1, Popped(max)),
                           LAMBDA h : ~c.st[h].app_closed)

\* Fault: what did not fit is left without a byte in the pipe.
rearm_never(x) == [x EXCEPT !.notified = FALSE]

rearm(x) ==
  [x EXCEPT !.notified = x.poll_mode /\ (x.acceptq # <<>> \/ x.ready # <<>>)]

polled(max) ==
  LET popped == {c.ready[i] : i \in 1 .. Popped(max)}
      taken == Range(Accepts(max))
  IN rearm(try_free_all(
       [c EXCEPT !.acceptq = SubSeq(@, Len(Accepts(max)) + 1, Len(@)),
                 !.ready = SubSeq(@, Popped(max) + 1, Len(@)),
                 !.st = [h \in Handles |->
                           IF h \notin popped \cup taken THEN @[h]
                           ELSE [@[h] EXCEPT !.held = @ \/ h \in taken,
                                             !.ev_pending = IF h \in popped THEN {} ELSE @]]],
       {h \in popped : c.st[h].app_closed}))

lp_poll == Polls /\ Enters("idle") /\ Step(polled(1))

lp_read_nb(h) ==
  /\ Polls /\ Owned(h) /\ Enters("idle") /\ ~c.st[h].reset
  /\ \E n \in 1 .. c.st[h].rbuf : Step(Taken(h, n))

lp_write_nb(h) ==
  /\ Polls /\ Owned(h) /\ Enters("idle") /\ ~Refused(c.st[h])
  /\ IF c.st[h].wbuf >= LP_WBUF_HIGH
       THEN Step([c EXCEPT !.st[h].want_writable = TRUE])
       ELSE \E n \in 1 .. MaxWrite :
              Step(pending_push([c EXCEPT !.st[h].wbuf = @ + n], h))

\* lp_disconnect, up to and after its pthread_join.
Disconnect == Unlocked /\ ~c.stopping /\ Step([c EXCEPT !.stopping = TRUE])
Release == pc = "stopped" /\ pc' = "freed" /\ UNCHANGED <<c, sessions>>

AppNext ==
  \/ lp_accept \/ lp_fileno \/ lp_poll \/ Disconnect \/ Release
  \/ \E h \in Handles : \/ lp_read(h) \/ lp_write(h) \/ lp_close(h)
                        \/ lp_read_nb(h) \/ lp_write_nb(h)

Next == IoNext \/ AppNext

\* The I/O thread is scheduled; no assumption is made on the application.
Spec == Init /\ [][Next]_vars /\ WF_vars(IoNext)
-----------------------------------------------------------------------------
TypeOK ==
  /\ sessions <= 1 => /\ \A h \in Allocated(c) : c.st[h] \in LpStream
                      /\ c.mux \in Mux
  /\ c.reg \in [Sids -> Handles \cup {0}]
  /\ c.acceptq \in Seq(Handles) /\ c.ready \in Seq(Handles) /\ c.accept_cv \in CV
  /\ {c.poll_mode, c.notified, c.stopping} \subseteq BOOLEAN
  /\ pc \in {"down", "work", "poll", "recv", "events", "drain", "draining", "stopped", "freed"}

(***************************************************************************)
(* The lists and the heap agree: no list leads to a freed stream, registry *)
(* and streams agree on who owns an id, and a stream that the protocol and *)
(* the application have both finished with is still on a list whose        *)
(* processing frees it (stream_try_free, libpeer.c:215; reg_clear).        *)
(***************************************************************************)
ListsExact ==
  /\ Range(c.acceptq) \cup Range(c.ready) \subseteq Allocated(c)
  /\ \A sid \in Sids : c.reg[sid] # 0 =>
       c.reg[sid] \in Allocated(c) /\ c.st[c.reg[sid]].sid = sid /\ c.st[c.reg[sid]].in_reg
  /\ \A h \in Allocated(c) : c.st[h].in_reg => c.reg[c.st[h].sid] = h
  /\ Unlocked => \A h \in Allocated(c) :
       c.st[h].proto_done /\ c.st[h].app_closed => c.st[h].in_pending \/ Contains(c.ready, h)

(***************************************************************************)
(* A call sleeps only while its reason to sleep lasts: no order of frames, *)
(* flushes and lost tunnels leaves a reader asleep over data, an end or a  *)
(* reset, a writer over a drained backlog or an acceptor over a stream,    *)
(* and no one sleeps once the I/O thread has ended.                        *)
(***************************************************************************)
SleepersHaveReason ==
  Unlocked =>
    /\ \A h \in Allocated(c) :
         /\ c.st[h].rcv = "waiting" =>
              c.st[h].rbuf = 0 /\ ~c.st[h].eof /\ ~c.st[h].reset /\ pc # "stopped"
         /\ c.st[h].snd = "waiting" =>
              c.st[h].wbuf > LP_WBUF_HIGH \div 2 /\ ~c.st[h].reset /\ pc # "stopped"
    /\ c.accept_cv = "waiting" => c.acceptq = <<>> /\ pc # "stopped"

(***************************************************************************)
(* What the application asked for is on its way: a send backlog is on the  *)
(* pending list or blocked in the session, where WRITABLE puts it back on  *)
(* the list, and read bytes wait on the pending list for mux_consume.  As  *)
(* for SessionMatches, on the first session only.                          *)
(***************************************************************************)
RequestsMove ==
  (pc = "poll" /\ ~c.mux.dead /\ sessions = 1) => \A h \in Allocated(c) :
    LET s == c.st[h] IN s.in_reg /\ ~s.in_pending =>
      /\ s.consume_pending = 0
      /\ s.wbuf > 0 /\ ~s.proto_done => c.mux.tab[s.sid].send_blocked
      /\ s.want_writable => s.wbuf > LP_WBUF_HIGH \div 2 \/ s.proto_done

(***************************************************************************)
(* The session knows of each stream what the stream object says: FIN sent  *)
(* and seen, done, and the bytes that are not yet consumed.                *)
(***************************************************************************)
Matches ==
  (pc = "poll" /\ ~c.mux.dead) => \A h \in Allocated(c) :
    LET s == c.st[h]
        m == c.mux.tab[s.sid]
    IN s.in_reg =>
         /\ m.life = IF s.proto_done THEN "NONE" ELSE IF s.fin_sent THEN "HCL_LOCAL"
                     ELSE IF s.eof THEN "HCL_REMOTE" ELSE "OPEN"
         /\ m.life # "NONE" => m.held = s.rbuf + s.consume_pending
         /\ s.fin_sent /\ ~s.reset => s.wbuf = 0

(***************************************************************************)
(* On the first session of a client, the session and the stream objects    *)
(* agree.  Matches fails once a tunnel was lost, since session_down leaves *)
(* fin_sent, wbuf and consume_pending of the old streams and               *)
(* process_pending then acts with their old ids on the new session.        *)
(***************************************************************************)
SessionMatches == sessions = 1 => Matches

(***************************************************************************)
(* In readiness mode the descriptor is readable while the ready list has   *)
(* streams: notified is never left clear by a partial lp_poll.             *)
(***************************************************************************)
ReadyArmed == Unlocked /\ c.poll_mode /\ c.ready # <<>> => c.notified

(***************************************************************************)
(* The same for new streams: the descriptor "signals (level-triggered)     *)
(* when lp_poll has events to return" (libpeer.h:103).  It does not hold:  *)
(* lp_fileno does not look at streams that came before it.                 *)
(***************************************************************************)
AcceptArmed == Unlocked /\ c.poll_mode /\ c.acceptq # <<>> => c.notified

(***************************************************************************)
(* lp_disconnect lets "outstanding blocking calls return promptly"         *)
(* (libpeer.h:57): none is inside when the client is freed.  It does not   *)
(* hold: they are woken, but pthread_join does not wait for them to leave. *)
(***************************************************************************)
CallersLeaveFirst ==
  pc = "freed" =>
    /\ c.accept_cv = "idle"
    /\ \A h \in Allocated(c) : c.st[h].rcv = "idle" /\ c.st[h].snd = "idle"

(***************************************************************************)
(* A failed session is given up: "the main loop notices" (libpeer.c:298).  *)
(* It does not hold: the loop looks at fd and mux only, which FATAL leaves *)
(* in place.                                                               *)
(***************************************************************************)
FatalNoticed == c.mux.dead ~> ~c.mux.dead

(***************************************************************************)
(* Streams that are gone do not hold the connection window (MUX.md:150).   *)
(* It does not hold: a stream closed with unread bytes is freed without    *)
(* mux_consume.                                                            *)
(***************************************************************************)
GoneStreamsHoldNothing ==
  pc = "poll" /\ ~c.mux.dead /\ (\A sid \in Sids : c.mux.tab[sid].held = 0)
    => c.mux.unconsumed < ConnWin
=============================================================================
