------------------------------- MODULE Relay -------------------------------
(***************************************************************************)
(* The relay (src/common/relay.c): an event loop that ties the sockets of  *)
(* public clients (on the edge) or of a backend to the streams of one      *)
(* tunnel.                                                                 *)
(*                                                                         *)
(* The loop waits for a batch of ready descriptors and dispatches them in  *)
(* any order; an event names the connection's index, which may have been   *)
(* released and taken again since.  The tunnel is a HostMux session, a     *)
(* socket is known by the state the kernel has it in, bytes are counted.   *)
(* The configuration has no token.                                         *)
(***************************************************************************)
EXTENDS HostMux, FiniteSets

CONSTANTS
  Roles,            \* what the relay may be set up as
  MaxStreams,       \* opt.max_streams, the cap on public connections
  MaxConns,         \* bound: connection slots; conn_alloc fails beyond
  MaxRead,          \* bound: bytes of a read that the session did not take
  MaxBatch,         \* bound: frames that one pump_recv takes in
  MaxReady          \* bound: descriptors that one evloop_wait reports

ASSUME RelayAssumption ==
  /\ {MaxStreams, MaxConns, MaxRead, MaxBatch, MaxReady} \subseteq Nat \ {0}
  /\ Roles \subseteq {"edge", "backend"}

VARIABLES
  r,                \* struct relay
  batch,            \* udata of evloop_wait still to be dispatched: [rd, wr : SUBSET Udata]
  pc                \* "wait", "dispatch", "recv", "events" or "stopped"

vars == <<r, batch, pc>>

Idx == 1 .. MaxConns

\* opt: the edge has a public listener and opens streams; with backend_host the
\* peer opens them and the relay dials.
Backend(x) == x.role = "backend"

\* struct conn; sock is the kernel's view of the socket, where "broken" is a
\* connection that the other end has reset.
Conn ==
  [sid : Sids, sock : {"connecting", "failed", "up", "broken"},
   connecting : BOOLEAN, sock_eof : BOOLEAN, stream_fin : BOOLEAN,
   send_blocked : BOOLEAN, cur_r : BOOLEAN, cur_w : BOOLEAN, in_dirty : BOOLEAN,
   s2m : 0 .. MaxRead, m2s : 0 .. Win]
Unused == [used |-> FALSE]
Used(x) == {i \in Idx : x.conns[i] # Unused}

sidmap_get(x, sid) ==
  IF \E i \in Used(x) : x.conns[i].sid = sid
    THEN CHOOSE i \in Used(x) : x.conns[i].sid = sid ELSE 0
-----------------------------------------------------------------------------
conn_desired(k) ==
  IF k.connecting THEN [rd |-> FALSE, wr |-> TRUE]
  ELSE [rd |-> ~k.sock_eof /\ k.s2m = 0 /\ ~k.send_blocked, wr |-> k.m2s > 0]

conn_apply_interest(k) ==
  [k EXCEPT !.cur_r = conn_desired(k).rd, !.cur_w = conn_desired(k).wr]

\* Fault: a connection whose buffers are both empty is taken to need no update.
mark_dirty_busy(x, i) ==
  [x EXCEPT !.conns[i].in_dirty = @ \/ x.conns[i].s2m + x.conns[i].m2s > 0]

mark_dirty(x, i) == [x EXCEPT !.conns[i].in_dirty = TRUE]

flush_dirty(x) ==
  [x EXCEPT !.conns = [i \in Idx |->
     IF i \in Used(x) /\ x.conns[i].in_dirty
       THEN [conn_apply_interest(@[i]) EXCEPT !.in_dirty = FALSE] ELSE @[i]]]

\* The slot goes on top of the free list, its buffers and its sidmap entry go.
conn_release(x, i) ==
  [x EXCEPT !.conns[i] = Unused, !.freelist = <<i>> \o @]

\* Fault: a listener that was paused stays so.
conn_destroy_paused(x, i) ==
  LET y == conn_release(x, i) IN
  IF Backend(x) THEN y ELSE [y EXCEPT !.nactive = IF @ > 0 THEN @ - 1 ELSE @]

conn_destroy(x, i) ==
  LET y == conn_release(x, i) IN
  IF Backend(x) THEN y
  ELSE [y EXCEPT !.nactive = IF @ > 0 THEN @ - 1 ELSE @,
                 !.listen_paused = @ /\ x.nactive - 1 >= MaxStreams]

conn_maybe_finish(x, i) ==
  LET k == x.conns[i] IN
  IF k.sock_eof /\ k.stream_fin /\ k.m2s = 0 /\ k.s2m = 0
    THEN conn_destroy(x, i) ELSE x

\* A connection for stream sid in the slot on top of the free list; it is
\* registered with the loop at once.
conn_alloc(x, sid, sock) ==
  [x EXCEPT !.freelist = Tail(@),
            !.conns[Head(x.freelist)] = conn_apply_interest(
     [sid |-> sid, sock |-> sock, connecting |-> sock = "connecting", sock_eof |-> FALSE,
      stream_fin |-> FALSE, send_blocked |-> FALSE, cur_r |-> FALSE, cur_w |-> FALSE,
      in_dirty |-> FALSE, s2m |-> 0, m2s |-> 0])]

\* flush_to_socket writes some of m2s, or fails with nothing marked dirty.
Writes(k) ==
  CASE k.sock = "up" -> 0 .. k.m2s
    [] k.sock = "connecting" -> {0}
    [] OTHER -> IF k.m2s = 0 THEN {0} ELSE {-1}

\* Fault: written bytes are not credited to the peer.
flush_to_socket_uncredited(x, i, w) ==
  IF w < 0 THEN x ELSE mark_dirty([x EXCEPT !.conns[i].m2s = @ - w], i)

flush_to_socket(x, i, w) ==
  IF w < 0 THEN x
  ELSE mark_dirty([x EXCEPT !.mux = mux_consume(@, x.conns[i].sid, w),
                            !.conns[i].m2s = @ - w], i)

\* Fault: a backlog that is gone leaves the connection flagged.
flush_to_mux_flagged(x, i, w) ==
  LET k == x.conns[i]
      y == [x EXCEPT !.mux = mux_write(@, k.sid, k.s2m, w), !.conns[i].s2m = @ - w]
  IN mark_dirty(
       IF w < k.s2m THEN [y EXCEPT !.conns[i].send_blocked = TRUE]
       ELSE [y EXCEPT !.mux = IF k.sock_eof THEN mux_close(@, k.sid) ELSE @], i)

\* flush_to_mux, where mux_write takes w bytes in all.
flush_to_mux(x, i, w) ==
  LET k == x.conns[i]
      y == [x EXCEPT !.mux = mux_write(@, k.sid, k.s2m, w), !.conns[i].s2m = @ - w]
  IN mark_dirty(
       IF w < k.s2m THEN [y EXCEPT !.conns[i].send_blocked = TRUE]
       ELSE [y EXCEPT !.conns[i].send_blocked = FALSE,
                      !.mux = IF k.sock_eof THEN mux_close(@, k.sid) ELSE @], i)
-----------------------------------------------------------------------------
(***************************************************************************)
(* handle_events, one event per step.                                      *)
(***************************************************************************)
Ev0 == Head(r.mux.evq)
Next0 == [r EXCEPT !.mux = mux_next_event(@)]
Slot == IF Ev0.sid = 0 THEN 0 ELSE sidmap_get(r, Ev0.sid)

Handling(types) ==
  /\ pc \in {"recv", "events"} /\ r.mux.evq # <<>> /\ Ev0.type \in types
  /\ pc' = IF Len(r.mux.evq) = 1 THEN "dispatch" ELSE "events"
  /\ UNCHANGED batch

\* open_backend_conn: dial and take a slot, or reset the stream; the edge
\* refuses streams of its peer.
OnOpened ==
  /\ Handling({"STREAM_OPENED"})
  /\ \/ Backend(r) /\ r.freelist # <<>> /\ r' = conn_alloc(Next0, Ev0.sid, "connecting")
     \/ r' = [Next0 EXCEPT !.mux = mux_reset(@, Ev0.sid)]

OnData ==
  /\ Handling({"STREAM_DATA"}) /\ Slot # 0
  /\ LET x == [Next0 EXCEPT !.conns[Slot].m2s = @ + Ev0.n] IN
     \/ x.conns[Slot].connecting /\ r' = mark_dirty(x, Slot)
     \/ /\ ~x.conns[Slot].connecting
        /\ \E w \in Writes(x.conns[Slot]) : r' = flush_to_socket(x, Slot, w)

OnClosed ==
  /\ Handling({"STREAM_CLOSED"}) /\ Slot # 0
  /\ LET x == [Next0 EXCEPT !.conns[Slot].stream_fin = TRUE] IN
     \/ x.conns[Slot].connecting /\ r' = conn_maybe_finish(x, Slot)
     \/ /\ ~x.conns[Slot].connecting
        /\ \E w \in Writes(x.conns[Slot]) :
             r' = conn_maybe_finish(flush_to_socket(x, Slot, w), Slot)

OnReset ==
  Handling({"STREAM_RESET"}) /\ Slot # 0 /\ r' = conn_destroy(Next0, Slot)

OnWritable ==
  /\ Handling({"WRITABLE"}) /\ Slot # 0
  /\ \E w \in Takes(r.mux, Ev0.sid, r.conns[Slot].s2m) : r' = flush_to_mux(Next0, Slot, w)

\* The greeting is logged, and so are CAPACITY and GOAWAY (left out).
OnIgnored ==
  /\ \/ Handling({"PEER_HELLO"})
     \/ /\ Handling({"STREAM_DATA", "STREAM_CLOSED", "STREAM_RESET", "WRITABLE"})
        /\ Slot = 0
  /\ r' = Next0
-----------------------------------------------------------------------------
(***************************************************************************)
(* Sockets.  Each operator gives the set of relays a call can lead to.     *)
(***************************************************************************)
at_eof(x, i) ==
  conn_maybe_finish(
    mark_dirty([x EXCEPT !.conns[i].sock_eof = TRUE,
                         !.mux = mux_close(@, x.conns[i].sid)], i), i)

\* The session takes all of a read but the last n bytes.
short_write(x, i, n) ==
  mark_dirty([x EXCEPT !.mux = mux_write(@, x.conns[i].sid, n, 0),
                       !.conns[i].s2m = n, !.conns[i].send_blocked = TRUE], i)

\* Reads that the session takes whole leave no trace; the loop ends with
\* EAGAIN, a short write, the end of the input or an error.
on_sock_readable(x, i) ==
  LET k == x.conns[i] IN
  IF k.s2m > 0 THEN {x}
  ELSE CASE k.sock = "connecting" -> {x}
         [] k.sock = "up" /\ CanSend(x.mux, k.sid) ->
              {x, at_eof(x, i)} \cup {short_write(x, i, n) : n \in 1 .. MaxRead}
         [] k.sock = "up" /\ ~CanSend(x.mux, k.sid) ->
              {x, at_eof(x, i), conn_destroy(x, i)}
         [] OTHER -> {at_eof(x, i), conn_destroy(x, i)}

reset_conn(x, i) ==
  conn_destroy([x EXCEPT !.mux = mux_reset(@, x.conns[i].sid)], i)

\* Fault: a connection that has sent its last byte is not looked at again.
on_sock_writable_unfinished(x, i) ==
  LET y == IF x.conns[i].connecting
             THEN mark_dirty([x EXCEPT !.conns[i].connecting = FALSE], i) ELSE x
  IN IF x.conns[i].connecting /\ x.conns[i].sock \in {"failed", "broken"}
       THEN {reset_conn(x, i)}
       ELSE {IF w < 0 THEN reset_conn(y, i) ELSE flush_to_socket(y, i, w) :
               w \in Writes(y.conns[i])}

on_sock_writable(x, i) ==
  LET y == IF x.conns[i].connecting
             THEN mark_dirty([x EXCEPT !.conns[i].connecting = FALSE], i) ELSE x
  IN IF x.conns[i].connecting /\ x.conns[i].sock \in {"failed", "broken"}
       THEN {reset_conn(x, i)}
       ELSE {IF w < 0 THEN reset_conn(y, i)
             ELSE conn_maybe_finish(flush_to_socket(y, i, w), i) :
               w \in Writes(y.conns[i])}
-----------------------------------------------------------------------------
(***************************************************************************)
(* The loop.                                                               *)
(***************************************************************************)
OWN_TUNNEL == 0
OWN_LISTEN == -1
Udata == {OWN_TUNNEL, OWN_LISTEN} \cup Idx

Init ==
  /\ \E role \in Roles :
       r = [role |-> role, conns |-> [i \in Idx |-> Unused], freelist |-> [i \in Idx |-> i],
            mux |-> mux_session_new, nactive |-> 0, listen_paused |-> FALSE]
  /\ batch = [rd |-> {}, wr |-> {}]
  /\ pc = "wait"

Faulty(k) == k.sock \in {"failed", "broken"}

\* What the kernel may report: errors and hang-ups always, as readable.
Readable(x) ==
  {OWN_TUNNEL} \cup {u \in {OWN_LISTEN} : ~Backend(x) /\ ~x.listen_paused}
    \cup {i \in Used(x) : Faulty(x.conns[i]) \/ (x.conns[i].cur_r /\ x.conns[i].sock = "up")}
Writable(x) ==
  {i \in Used(x) : x.conns[i].cur_w /\ x.conns[i].sock # "connecting"}

evloop_wait ==
  /\ pc = "wait" /\ ~r.mux.dead
  /\ \E rd \in SUBSET Readable(r), wr \in SUBSET Writable(r) :
       /\ Cardinality(rd \cup wr) \in 1 .. MaxReady
       /\ \A i \in (rd \cup wr) \cap Used(r) :
            Faulty(r.conns[i]) => i \in rd /\ (i \in wr <=> r.conns[i].cur_w)
       /\ batch' = [rd |-> rd, wr |-> wr]
  /\ pc' = "dispatch" /\ UNCHANGED r

Dispatch(u) ==
  /\ pc = "dispatch" /\ u \in batch.rd \cup batch.wr
  /\ batch' = [rd |-> batch.rd \ {u}, wr |-> batch.wr \ {u}]

\* tunnel_read has bytes for pump_recv, or finds the tunnel closed or dead.
TunnelReadable ==
  Dispatch(OWN_TUNNEL) /\ ~r.mux.dead /\ pc' = "recv" /\ UNCHANGED r

\* relay_run returns and relay_free closes every connection.
relay_free == pc' = "stopped" /\ r' = [r EXCEPT !.conns = [i \in Idx |-> Unused]]

TunnelClosed == Dispatch(OWN_TUNNEL) /\ relay_free

Recv ==
  /\ pc = "recv" /\ Len(r.mux.evq) < MaxBatch
  /\ \E m \in recv_hello(r.mux, 1) \cup StreamFrames(r.mux)
              \cup (IF Backend(r) THEN recv_syn(r.mux) ELSE {}) :
       r' = [r EXCEPT !.mux = m]
  /\ UNCHANGED <<batch, pc>>

RecvNothing ==
  pc = "recv" /\ r.mux.evq = <<>> /\ pc' = "dispatch" /\ UNCHANGED <<r, batch>>

\* accept_public: one client per step, the event stays until the queue is
\* empty or the cap is reached.
AcceptClient ==
  /\ pc = "dispatch" /\ OWN_LISTEN \in batch.rd
  /\ r.nactive < MaxStreams /\ CanOpen(r.mux)
  /\ LET x == [r EXCEPT !.mux = mux_open(@)] IN
     \/ /\ r.freelist # <<>>
        /\ r' = [conn_alloc(x, r.mux.next_sid, "up") EXCEPT !.nactive = @ + 1]
     \/ r' = [x EXCEPT !.mux = mux_reset(@, r.mux.next_sid)]
  /\ UNCHANGED <<batch, pc>>

AcceptDone ==
  /\ Dispatch(OWN_LISTEN)
  /\ r' = [r EXCEPT !.listen_paused = @ \/ r.nactive >= MaxStreams]
  /\ UNCHANGED pc

\* The index is looked up again, so it may be another connection by now.
SocketReady(i) ==
  /\ Dispatch(i)
  /\ \/ i \notin Used(r) /\ UNCHANGED r
     \/ /\ i \in Used(r)
        /\ \E x \in (IF i \in batch.wr THEN on_sock_writable(r, i) ELSE {r}) :
             r' \in (IF i \in Used(x) /\ i \in batch.rd THEN on_sock_readable(x, i) ELSE {x})
  /\ UNCHANGED pc

EndOfBatch ==
  /\ pc = "dispatch" /\ batch.rd \cup batch.wr = {}
  /\ r' = flush_dirty(r) /\ pc' = "wait" /\ UNCHANGED batch

\* The session fails: mux_on_timer, or a call that finds no room for output.
Fail ==
  /\ pc \in {"wait", "dispatch"} /\ ~r.mux.dead
  /\ r' = [r EXCEPT !.mux = raise_fatal(@)] /\ UNCHANGED <<batch, pc>>

\* handle_events at the head of the loop meets FATAL.
Stop == pc = "wait" /\ r.mux.dead /\ relay_free /\ UNCHANGED batch

\* The kernel completes or refuses a connection; the other end resets one.
KernelStep(i) ==
  /\ pc \in {"wait", "dispatch"} /\ i \in Used(r)
  /\ \E s \in CASE r.conns[i].sock = "connecting" -> {"up", "failed"}
                [] r.conns[i].sock = "up" -> {"broken"}
                [] OTHER -> {} :
       r' = [r EXCEPT !.conns[i].sock = s]
  /\ UNCHANGED <<batch, pc>>

Next ==
  \/ evloop_wait \/ TunnelReadable \/ TunnelClosed \/ Recv \/ RecvNothing
  \/ OnOpened \/ OnData \/ OnClosed \/ OnReset \/ OnWritable \/ OnIgnored
  \/ AcceptClient \/ AcceptDone
  \/ \E i \in Idx : SocketReady(i) \/ KernelStep(i)
  \/ EndOfBatch \/ Fail \/ Stop

Spec == Init /\ [][Next]_vars
-----------------------------------------------------------------------------
(***************************************************************************)
(* Properties.                                                             *)
(***************************************************************************)
TypeOK ==
  /\ r \in [role : Roles, conns : [Idx -> Conn \cup {Unused}], freelist : Seq(Idx), mux : Mux,
            nactive : 0 .. MaxConns, listen_paused : BOOLEAN]
  /\ batch \in [rd : SUBSET Udata, wr : SUBSET Idx]
  /\ pc \in {"wait", "dispatch", "recv", "events", "stopped"}

\* No event of the session is waiting to be handled.
Settled == pc \in {"wait", "dispatch"} /\ ~r.mux.dead

(***************************************************************************)
(* A connection and its stream agree on which directions have ended, and   *)
(* the bytes that the peer has not been credited for are the ones in m2s   *)
(* (on_sock_readable, handle_events and flush_to_socket together).         *)
(***************************************************************************)
MirrorsStream ==
  Settled => \A i \in Used(r) :
    LET k == r.conns[i] IN
    /\ r.mux.tab[k.sid].life =
         CASE k.sock_eof /\ k.stream_fin -> "NONE"
           [] k.sock_eof /\ ~k.stream_fin -> "HCL_LOCAL"
           [] ~k.sock_eof /\ k.stream_fin -> "HCL_REMOTE"
           [] OTHER -> "OPEN"
    /\ k.sid \in Live(r.mux) => r.mux.tab[k.sid].held = k.m2s
    /\ \A j \in Used(r) : r.conns[j].sid = k.sid => j = i

(***************************************************************************)
(* A socket that is not read because bytes of it wait in s2m has a stream  *)
(* flagged send_blocked, so a WRITABLE event will come and flush_to_mux    *)
(* runs again; no other connection stays marked send_blocked.              *)
(***************************************************************************)
BlockedHasWakeup ==
  Settled => \A i \in Used(r) :
    LET k == r.conns[i] IN
    /\ k.send_blocked <=> k.s2m > 0
    /\ k.send_blocked => r.mux.tab[k.sid].send_blocked

(***************************************************************************)
(* When the loop goes to sleep, the interest registered for every socket   *)
(* that works is the one its buffers call for: "Each socket's interest is  *)
(* updated only when it actually changes, via a small dirty list".         *)
(***************************************************************************)
InterestCurrent ==
  pc = "wait" => \A i \in Used(r) :
    LET k == r.conns[i] IN
    ~Faulty(k) => k.cur_r = conn_desired(k).rd /\ k.cur_w = conn_desired(k).wr

(***************************************************************************)
(* A connection that is done in both directions is released by the call    *)
(* that finished it, conn_maybe_finish: no event of the stream or of the   *)
(* socket would lead to it again.                                          *)
(***************************************************************************)
FinishedReleased ==
  pc = "wait" => \A i \in Used(r) :
    LET k == r.conns[i] IN ~(k.sock_eof /\ k.stream_fin /\ k.m2s = 0 /\ k.s2m = 0)

(***************************************************************************)
(* nactive counts the public connections, and the listener is paused only  *)
(* while they are at the cap: "Pending clients wait in the kernel accept   *)
(* queue; conn_destroy resumes us" (relay.c:373).                          *)
(***************************************************************************)
ListenerResumes ==
  pc # "stopped" /\ ~Backend(r) =>
    /\ r.nactive = Cardinality(Used(r)) /\ r.nactive <= MaxStreams
    /\ r.listen_paused => r.nactive = MaxStreams

(***************************************************************************)
(* A stream ends with its socket: "RST mapping: stream RST -> close public *)
(* conn (and vice versa)" (MUX.md:264).  Violated: when a read fails,      *)
(* on_sock_readable destroys the connection and leaves the stream open.    *)
(***************************************************************************)
NoOrphanStream ==
  Settled => \A sid \in Live(r.mux) : sidmap_get(r, sid) # 0

(***************************************************************************)
(* A connection leaves the state connecting only when the kernel has ended *)
(* the attempt, which the index in the event is meant to ensure: "the conn *)
(* slab reallocs, so pointers are unstable; indices are not" (relay.c:6).  *)
(* Violated: an index may be released and taken again within one batch,    *)
(* and the event of the old socket is then applied to the new one.         *)
(***************************************************************************)
ConnectedIsConnected ==
  \A i \in Used(r) : r.conns[i].sock = "connecting" => r.conns[i].connecting
=============================================================================
