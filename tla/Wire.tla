-------------------------------- MODULE Wire --------------------------------
(***************************************************************************)
(* One direction of a tunnel, byte by byte: the output buffer of the       *)
(* sending session, the partial writes of its host, the socket, the        *)
(* receive buffer of the other host, mux_recv, and the event queue whose   *)
(* views point into that receive buffer.                                   *)
(*                                                                         *)
(* The hosts are those of common/relay.c; edge-peer/router.c and libpeer   *)
(* have the same loops.  A step is one call of write, of read, one frame   *)
(* of mux_recv or one mux_next_event.  What process_frame does to streams  *)
(* is module Session; here a frame has its events: those of a payload and  *)
(* a FIN, and the WRITABLE of every stream that a credit wakes.            *)
(***************************************************************************)
EXTENDS Frame, FiniteSetsExt

CONSTANTS
  OutCap,            \* 4096 in ob_reserve
  max_out_buffer,
  EvqCap,            \* 64 in evq_push
  SoftCaps,          \* values of MUX_EVENT_QUEUE_SOFT_CAP
  max_streams,       \* streams of the receiver that can wait for window
  RecvCap,           \* sizeof recv_buf
  Pipe,              \* bytes the two socket buffers hold
  MaxFrames          \* bound: frames sent

MUX_T_DATA == 0
MUX_T_WINDOW_UPDATE == 1
FIN == 1
Data(fl, bytes) ==
  [type |-> MUX_T_DATA, flags |-> fl, sid |-> Base + 2, payload |-> bytes]
Credit == [type |-> MUX_T_WINDOW_UPDATE, flags |-> 0, sid |-> 0,
           payload |-> be_put(1, Width32)]
Frames == {Data(0, <<2>>), Data(FIN, <<>>), Credit}

ASSUME WireAssumption ==
  /\ \E k \in 0 .. max_out_buffer : max_out_buffer = OutCap * 2 ^ k
  /\ EvqCap \in Nat \ {0} /\ Pipe \in Nat \ {0} /\ SoftCaps \subseteq Nat \ {0}
  /\ max_streams \in Nat
  /\ Base + 2 < Base ^ Width32
  /\ \A f \in Frames : RecvCap >= Len(mux_craft(f))

VARIABLES
  out,               \* outbuf of the sender: buf holds len bytes
  snd,               \* the sending host: runs, is in tunnel_flush, or closed
  pipe,              \* the bytes in the socket buffers
  rcv,               \* the receiving host and its mux_recv
  q,                 \* evq of the receiver, a ring
  sent, got          \* history: frames emitted, events handed to the host

vars == <<out, snd, pipe, rcv, q, sent, got>>
-----------------------------------------------------------------------------
(***************************************************************************)
(* The output buffer.                                                      *)
(***************************************************************************)
Pending == Len(out.buf) - out.spos           \* mux_out_pending

doubled(cap, need) == cap * 2 ^ Min({k \in 0 .. need : cap * 2 ^ k >= need})

compacted(o) == [o EXCEPT !.buf = SubSeq(@, o.spos + 1, Len(@)), !.spos = 0]

\* Fault: the ceiling is held against the bytes that were there before.
ob_reserve_late(need) ==
  IF Len(out.buf) + need <= out.cap THEN out
  ELSE LET o == compacted(out)
           total == Len(o.buf) + need
       IN IF total <= o.cap THEN o
          ELSE IF Len(o.buf) > max_out_buffer THEN [o EXCEPT !.cap = 0]
          ELSE [o EXCEPT !.cap = doubled(IF o.cap = 0 THEN OutCap ELSE o.cap, total)]

\* The buffer with room for need bytes, or with cap 0: MUX_ERR_NOSPACE.
ob_reserve(need) ==
  IF Len(out.buf) + need <= out.cap THEN out
  ELSE LET o == compacted(out)
           total == Len(o.buf) + need
       IN IF total <= o.cap THEN o
          ELSE IF total > max_out_buffer THEN [o EXCEPT !.cap = 0]
          ELSE [o EXCEPT !.cap = doubled(IF o.cap = 0 THEN OutCap ELSE o.cap, total)]

emit(f) ==
  LET o == ob_reserve(Len(mux_craft(f))) IN
  /\ snd = "run" /\ Len(sent) < MaxFrames
  /\ IF o.cap = 0
       THEN snd' = "dead" /\ out' = [o EXCEPT !.cap = out.cap] /\ UNCHANGED sent
       ELSE /\ out' = [o EXCEPT !.buf = @ \o mux_craft(f)]
            /\ sent' = Append(sent, f) /\ UNCHANGED snd
  /\ UNCHANGED <<pipe, rcv, q, got>>

mux_send_advance(n) ==
  IF out.spos + n = Len(out.buf) THEN [out EXCEPT !.buf = <<>>, !.spos = 0]
  ELSE [out EXCEPT !.spos = @ + n]

\* tunnel_flush: one write takes any number of bytes that fits, until there is
\* nothing left or the socket is full.
tunnel_flush ==
  /\ UNCHANGED <<rcv, q, sent, got>>
  /\ \/ snd = "run" /\ Pending > 0 /\ snd' = "flush" /\ UNCHANGED <<out, pipe>>
     \/ /\ snd = "flush"
        /\ \E n \in 1 .. Min({Pending, Pipe - Len(pipe)}) :
             /\ pipe' = pipe \o SubSeq(out.buf, out.spos + 1, out.spos + n)
             /\ out' = mux_send_advance(n)
        /\ UNCHANGED snd
     \/ /\ snd = "flush" /\ (Pending = 0 \/ Len(pipe) = Pipe)
        /\ snd' = "run" /\ UNCHANGED <<out, pipe>>

\* The sending host ends or its tunnel fails, with any part of a frame written.
Close ==
  /\ snd \in {"run", "flush", "dead"} /\ snd' = "closed"
  /\ UNCHANGED <<out, pipe, rcv, q, sent, got>>
-----------------------------------------------------------------------------
(***************************************************************************)
(* The event queue: a ring that doubles when it is full.                   *)
(***************************************************************************)
NoEvent == [none |-> TRUE]

evq_grown(x) ==
  LET ncap == IF x.cap = 0 THEN EvqCap ELSE x.cap * 2 IN
  [x EXCEPT !.cap = ncap, !.head = 0,
            !.ev = [i \in 0 .. ncap - 1 |->
                      IF i < x.count THEN x.ev[(x.head + i) % x.cap] ELSE NoEvent]]

evq_push(x, e) ==
  LET y == IF x.count = x.cap THEN evq_grown(x) ELSE x
  IN [y EXCEPT !.ev[(y.head + y.count) % y.cap] = e, !.count = @ + 1]

evq_popped == [q EXCEPT !.ev[q.head] = NoEvent,
                        !.head = (@ + 1) % q.cap, !.count = @ - 1]
-----------------------------------------------------------------------------
(***************************************************************************)
(* The receiving host: tunnel_read, pump_recv and mux_recv.                *)
(***************************************************************************)
\* The loop of tunnel_read ends unless a read filled the buffer.  Its branch for
\* a buffer without room is not taken: a full buffer begins with a whole frame.
Space == RecvCap - Len(rcv.buf)

tunnel_read ==
  /\ UNCHANGED <<out, snd, q, sent, got>>
  /\ \/ /\ rcv.pc \in {"idle", "reading"} /\ Space > 0
        /\ \E n \in 1 .. Min({Space, Len(pipe)}) :
             /\ rcv' = [rcv EXCEPT !.buf = @ \o SubSeq(pipe, 1, n), !.pc = "recv",
                                   !.again = n = Space]
             /\ pipe' = SubSeq(pipe, n + 1, Len(pipe))
     \/ /\ rcv.pc = "reading" /\ Space > 0 /\ pipe = <<>> /\ snd # "closed"
        /\ rcv' = [rcv EXCEPT !.pc = "idle"] /\ UNCHANGED pipe
     \/ /\ rcv.pc \in {"idle", "reading"} /\ Space > 0 /\ pipe = <<>> /\ snd = "closed"
        /\ rcv' = [rcv EXCEPT !.pc = "stopped"] /\ UNCHANGED pipe

\* The events of a frame, with views into recv_buf.
View1(p) == [ev |-> "STREAM_DATA", sid |-> p.sid, off |-> p.off, len |-> p.len]
View0(p) == [ev |-> "STREAM_CLOSED", sid |-> p.sid, off |-> 0, len |-> 0]
on_data(p) ==
  LET x == IF p.len > 0 THEN evq_push(q, View1(p)) ELSE q
  IN IF p.flags = FIN THEN evq_push(x, View0(p)) ELSE x

\* on_window_update for the connection wakes every stream that is blocked and has
\* room of its own.  Between two calls of mux_recv the host may have left any
\* stream blocked, but not one whose WRITABLE it has yet to take.
WRITABLE == [ev |-> "WRITABLE"]
Woken == {i \in DOMAIN q.ev : q.ev[i] = WRITABLE}
on_window_update(n) ==
  FoldLeft(LAMBDA x, i : evq_push(x, WRITABLE), q, [i \in 1 .. n |-> i])

process_frame(p) ==
  IF p.type = MUX_T_DATA THEN q' = on_data(p)
  ELSE \E n \in 0 .. max_streams - Cardinality(Woken) : q' = on_window_update(n)

FATAL == [ev |-> "FATAL"]

\* One frame of mux_recv, or its return.
\* Fault: it returns after each frame.
mux_recv_one ==
  LET p == mux_parse(rcv.buf, rcv.cursor) IN
  /\ rcv.pc = "recv" /\ UNCHANGED <<out, snd, pipe, sent, got>>
  /\ \/ /\ p.r = "OK" /\ process_frame(p)
        /\ rcv' = [rcv EXCEPT !.cursor = p.off + p.len, !.pc = "drain"]
     \/ /\ p.r = "SHORT"
        /\ rcv' = [rcv EXCEPT !.pc = "drain"] /\ UNCHANGED q

mux_recv ==
  LET p == mux_parse(rcv.buf, rcv.cursor)
      capped == q.count >= rcv.softcap
  IN /\ rcv.pc = "recv" /\ UNCHANGED <<out, snd, pipe, sent, got>>
     /\ \/ /\ ~capped /\ p.r = "OK"
           /\ process_frame(p)
           /\ rcv' = [rcv EXCEPT !.cursor = p.off + p.len]
        \/ /\ capped \/ p.r = "SHORT"
           /\ rcv' = [rcv EXCEPT !.pc = "drain"] /\ UNCHANGED q
        \* a violation of the protocol, or process_frame fails the session
        \/ /\ ~capped /\ p.r # "SHORT"
           /\ rcv' = [rcv EXCEPT !.pc = "drain", !.dead = TRUE]
           /\ q' = evq_push(q, FATAL)

\* mux_next_event and the host's use of the view, if the event has one.
Event(e) == [ev |-> e.ev, sid |-> e.sid, bytes |-> View(rcv.buf, e.off, e.len)]
handle_events ==
  /\ rcv.pc = "drain" /\ q.count > 0
  /\ LET e == q.ev[q.head] IN
     got' = IF e \in {WRITABLE, FATAL} THEN got ELSE Append(got, Event(e))
  /\ q' = evq_popped
  /\ UNCHANGED <<out, snd, pipe, rcv, sent>>

\* The end of pump_recv: the tail moves to the front of recv_buf.
\* Fault: the length is adjusted and the tail stays where it is.
pumped_unmoved ==
  /\ rcv.pc = "drain" /\ q.count = 0
  /\ rcv' = [rcv EXCEPT
       !.buf = SubSeq(@, 1, Len(@) - rcv.cursor), !.cursor = 0,
       !.pc = IF rcv.dead THEN "stopped"
              ELSE IF rcv.again THEN "reading" ELSE "idle"]
  /\ UNCHANGED <<out, snd, pipe, q, sent, got>>

pumped ==
  /\ rcv.pc = "drain" /\ q.count = 0
  /\ rcv' = [rcv EXCEPT
       !.buf = SubSeq(@, rcv.cursor + 1, Len(@)), !.cursor = 0,
       !.pc = IF rcv.dead THEN "stopped"
              ELSE IF rcv.again THEN "reading" ELSE "idle"]
  /\ UNCHANGED <<out, snd, pipe, q, sent, got>>
-----------------------------------------------------------------------------
Init ==
  /\ out = [buf |-> <<>>, spos |-> 0, cap |-> 0]
  /\ snd = "run" /\ pipe = <<>>
  /\ \E k \in SoftCaps : rcv = [buf |-> <<>>, pc |-> "idle", cursor |-> 0, again |-> FALSE,
                                dead |-> FALSE, softcap |-> k]
  /\ q = [ev |-> <<>>, head |-> 0, count |-> 0, cap |-> 0]
  /\ sent = <<>> /\ got = <<>>

Next ==
  \/ \E f \in Frames : emit(f)
  \/ tunnel_flush \/ Close \/ tunnel_read \/ mux_recv \/ handle_events \/ pumped

\* Both hosts are scheduled and never block; the sender need not emit or close.
Spec == /\ Init /\ [][Next]_vars
        /\ WF_vars(tunnel_flush)
        /\ WF_vars(tunnel_read \/ mux_recv \/ handle_events \/ pumped)
-----------------------------------------------------------------------------
(***************************************************************************)
(* Framing, buffering and partial writes are invisible to the sessions:    *)
(* the host is handed the events of the frames in order, each once, and    *)
(* each view shows the bytes of its own frame when the host reads it       *)
(* ("valid only until the next mux_recv", mux.h:167).                      *)
(***************************************************************************)
Events(f) ==
  (IF f = Credit \/ f.payload = <<>> THEN <<>>
   ELSE <<[ev |-> "STREAM_DATA", sid |-> f.sid, bytes |-> f.payload]>>)
    \o (IF f.flags = FIN THEN <<[ev |-> "STREAM_CLOSED", sid |-> f.sid, bytes |-> <<>>]>>
        ELSE <<>>)

Tunnel == INSTANCE Channel
IsChannel == Tunnel!Spec

(***************************************************************************)
(* The two buffers that grow stay within their bounds: the output buffer   *)
(* below its ceiling (mux.h:182), through compaction and doubling, and the *)
(* event queue within one frame's events of its soft cap (mux.h:188).  One *)
(* frame has two events, or as many as there are streams to wake: the cap  *)
(* is looked at between frames only, so it is max_streams, not the cap,    *)
(* that bounds the queue when a credit finds every stream blocked.         *)
(***************************************************************************)
BuffersBounded ==
  /\ out.cap <= max_out_buffer /\ Pending <= max_out_buffer
  /\ q.count <= rcv.softcap - 1 + Max({2, max_streams})

(***************************************************************************)
(* Nothing is left behind: when both hosts are at rest and neither ended,  *)
(* every event was handed out, however the bytes were cut into writes and  *)
(* reads, as long as the events that fit in recv_buf are below the cap.    *)
(***************************************************************************)
AtRest == snd = "run" /\ Pending = 0 /\ pipe = <<>> /\ rcv.pc = "idle"
NothingLeftBehind == AtRest /\ rcv.softcap > RecvCap + max_streams => got = Tunnel!Due

(***************************************************************************)
(* The same for every soft cap: a tail left by it is fed to mux_recv again *)
(* (mux.h:262).  It does not hold: the hosts call mux_recv only after a    *)
(* read, and whole frames wait in recv_buf until more bytes arrive.        *)
(***************************************************************************)
TailIsFed == AtRest => got = Tunnel!Due
=============================================================================
