-------------------------------- MODULE Aio --------------------------------
(***************************************************************************)
(* A Python worker on one asyncio event loop: muxpeer_aio.py over the      *)
(* extension module python/muxpeermodule.c over libpeer (module LibPeer),  *)
(* whose I/O thread runs beside the loop.                                  *)
(*                                                                         *)
(* The loop thread is in on_ready while batch is not empty, inside         *)
(* peer.close() while state is "closing", and otherwise runs tasks; each   *)
(* task step lasts until the next await.  A step that takes libpeer's      *)
(* mutex waits for the I/O thread to release it.  A handler has at most    *)
(* one read() and one write() in progress, and closes as its last act.     *)
(***************************************************************************)
EXTENDS LibPeer

CONSTANT max_events         \* of serve(); Peer_poll's cap of 4096 is above it

ASSUME AioAssumption == max_events \in Nat \ {0}

VARIABLES
  py,               \* the loop thread, see PyType
  ms                \* the MuxStream of each lp_stream, or None

aio_vars == <<c, pc, sessions, py, ms>>

\* reader and writer are the coroutines of the handler; a writer has "failed"
\* when write() raised ConnectionResetError.  waiting: its future is in
\* _rwaiters or _wwaiters; woken: the future is done.  Bound: rbuf counts up to
\* Win + 1, which stands for any larger number.
None == [none |-> TRUE]
MuxStream == [rbuf : 0 .. Win + 1, eof : BOOLEAN,
              reader : CV, writer : CV \cup {"failed"}]
NewMuxStream == [rbuf |-> 0, eof |-> FALSE, reader |-> "idle", writer |-> "idle"]

\* map is Peer.streams, by the C pointer; the dictionary of serve() is the set
\* of streams with a MuxStream.  early are the streams older than fileno().
PyType == [state : {"starting", "serving", "closing", "closed"},
           map : SUBSET Handles, batch : Seq(Handles \X SUBSET (Bits \cup {"ACCEPT"})),
           early : SUBSET Handles]

Served == {h \in Handles : ms[h] # None}
wake(w) == IF w = "waiting" THEN "woken" ELSE w     \* _wake_all
-----------------------------------------------------------------------------
AioInit ==
  /\ Init
  /\ py = [state |-> "starting", map |-> {}, batch |-> <<>>, early |-> {}]
  /\ ms = [h \in Handles |-> None]

\* serve() up to its await: Peer_fileno and add_reader.
serve ==
  /\ py.state = "starting" /\ Unlocked
  /\ c' = [c EXCEPT !.poll_mode = TRUE]
  /\ py' = [py EXCEPT !.state = "serving", !.early = Allocated(c)]
  /\ UNCHANGED <<pc, sessions, ms>>

(***************************************************************************)
(* Peer_poll: new streams are wrapped and enter the map, events of others  *)
(* are kept if the map has them, and CLOSED removes a stream from the map. *)
(***************************************************************************)
Event1(h) == <<h, {"ACCEPT"}>>
Event2(h) == <<h, c.st[h].ev_pending>>
Wrapped == py.map \cup Range(Accepts(max_events))

Reported ==
  SelectSeq([i \in 1 .. Len(Returned(max_events)) |-> Event2(Returned(max_events)[i])],
            LAMBDA ev : ev[1] \in Wrapped)

Remembered ==
  Wrapped \ {Reported[i][1] : i \in {j \in DOMAIN Reported : "CLOSED" \in Reported[j][2]}}

\* The loop finds the descriptor readable and on_ready calls peer.poll().
Peer_poll ==
  /\ py.state = "serving" /\ py.batch = <<>> /\ c.notified /\ Unlocked
  /\ c' = polled(max_events)
  /\ py' = [py EXCEPT
       !.map = Remembered,
       !.batch = [i \in 1 .. Len(Accepts(max_events)) |-> Event1(Accepts(max_events)[i])]
                   \o Reported]
  /\ UNCHANGED <<pc, sessions, ms>>
-----------------------------------------------------------------------------
(***************************************************************************)
(* on_ready goes on with the next event of the batch.                      *)
(***************************************************************************)
Ev1 == Head(py.batch)
NextEvent == py' = [py EXCEPT !.batch = Tail(@)] /\ UNCHANGED <<pc, sessions>>

on_accept ==
  /\ py.batch # <<>> /\ Ev1[2] = {"ACCEPT"}
  /\ ms' = [ms EXCEPT ![Ev1[1]] = NewMuxStream]
  /\ NextEvent /\ UNCHANGED c

\* The stream ends for its readers, or has nothing left; CLOSED and WRITABLE
\* are then looked at without another call.
\* Fault: the end of a stream does not release a writer that waits for room.
fed_reader_only(m, ended, bits) ==
  [m EXCEPT !.eof = @ \/ ended, !.reader = wake(@),
            !.writer = IF "WRITABLE" \in bits THEN wake(@) ELSE @]

fed(m, ended, bits) ==
  [m EXCEPT !.eof = @ \/ ended, !.reader = wake(@),
            !.writer = IF ended \/ m.eof \/ "WRITABLE" \in bits THEN wake(@) ELSE @]

\* One recv_nb of _feed_readable: it takes all there is and is called again,
\* until there is nothing, or the end or the reset is seen.
_feed_readable(h, bits) ==
  LET s == c.st[h] IN
  IF ~s.reset /\ s.rbuf > 0
    THEN /\ Step(Taken(h, s.rbuf))
         /\ ms' = [ms EXCEPT ![h].rbuf = Min({@ + s.rbuf, Win + 1})]
         /\ UNCHANGED py
    ELSE /\ ms' = [ms EXCEPT ![h] = fed(@, s.reset \/ s.eof \/ "CLOSED" \in bits, bits)]
         /\ NextEvent /\ UNCHANGED c

on_event ==
  /\ py.batch # <<>> /\ Ev1[2] # {"ACCEPT"}
  /\ LET h == Ev1[1]
         bits == Ev1[2]
     IN \/ /\ bits # {"WRITABLE"} /\ Unlocked
           /\ _feed_readable(h, bits)
        \/ /\ bits = {"WRITABLE"}
           /\ ms' = [ms EXCEPT ![h].writer = wake(@)] /\ NextEvent /\ UNCHANGED c
-----------------------------------------------------------------------------
(***************************************************************************)
(* Handlers: each step is one task up to its next await.                   *)
(***************************************************************************)
Runs(h, w) ==
  /\ py.state = "serving" /\ py.batch = <<>> /\ h \in Served /\ w \in {"idle", "woken"}
  /\ UNCHANGED py

read(h) ==
  /\ Runs(h, ms[h].reader) /\ UNCHANGED <<c, pc, sessions>>
  /\ \/ \E n \in 1 .. ms[h].rbuf :
          ms' = [ms EXCEPT ![h].rbuf = @ - n, ![h].reader = "idle"]
     \/ /\ ms[h].rbuf = 0
        /\ ms' = [ms EXCEPT ![h].reader = IF ms[h].eof THEN "idle" ELSE "waiting"]

\* One send_nb of write(): the stream is dead, or full, or takes it all.
write(h) ==
  /\ Runs(h, ms[h].writer) /\ Unlocked
  /\ LET s == c.st[h] IN
     \/ /\ Refused(s)
        /\ ms' = [ms EXCEPT ![h].writer = "idle"] /\ UNCHANGED <<c, pc, sessions>>
     \/ /\ ~Refused(s) /\ s.wbuf >= LP_WBUF_HIGH
        /\ Step([c EXCEPT !.st[h].want_writable = TRUE])
        /\ ms' = [ms EXCEPT ![h].writer = IF ms[h].eof THEN "failed" ELSE "waiting"]
     \/ /\ ~Refused(s) /\ s.wbuf < LP_WBUF_HIGH
        /\ \E n \in 1 .. MaxWrite : Step(pending_push([c EXCEPT !.st[h].wbuf = @ + n], h))
        /\ ms' = [ms EXCEPT ![h].writer = "idle"]

\* run() after the handler: Stream_close, which leaves the map before lp_close.
\* Fault: the entry of the map stays.
finish_mapped(h) ==
  /\ py.state = "serving" /\ py.batch = <<>> /\ Unlocked /\ h \in Served
  /\ ms[h].reader = "idle" /\ ms[h].writer \in {"idle", "failed"}
  /\ Step(pending_push([c EXCEPT !.st[h].app_closed = TRUE, !.st[h].held = FALSE], h))
  /\ ms' = [ms EXCEPT ![h] = None] /\ UNCHANGED py

finish(h) ==
  /\ py.state = "serving" /\ py.batch = <<>> /\ Unlocked /\ h \in Served
  /\ ms[h].reader = "idle" /\ ms[h].writer \in {"idle", "failed"}
  /\ Step(pending_push([c EXCEPT !.st[h].app_closed = TRUE, !.st[h].held = FALSE], h))
  /\ py' = [py EXCEPT !.map = @ \ {h}]
  /\ ms' = [ms EXCEPT ![h] = None]

\* serve() is cancelled: remove_reader, and Peer_close up to and after its
\* pthread_join, during which the loop does not run.
cancel ==
  /\ py.state = "serving" /\ py.batch = <<>> /\ Unlocked
  /\ Step([c EXCEPT !.stopping = TRUE])
  /\ py' = [py EXCEPT !.state = "closing"] /\ UNCHANGED ms

Peer_close ==
  /\ py.state = "closing" /\ Release
  /\ py' = [py EXCEPT !.state = "closed"] /\ UNCHANGED ms

LoopNext ==
  \/ Peer_poll \/ on_accept \/ on_event \/ Peer_close
  \/ \E h \in Handles : h \in Served /\ ((ms[h].reader = "woken" /\ read(h))
                                         \/ (ms[h].writer = "woken" /\ write(h)))

AioNext ==
  \/ IoNext /\ UNCHANGED <<py, ms>>
  \/ serve \/ Peer_poll \/ on_accept \/ on_event \/ cancel \/ Peer_close
  \/ \E h \in Handles : read(h) \/ write(h) \/ finish(h)

\* Both threads are scheduled, and the mutex is not always lost to the other
\* thread, which blocks in poll() without it in every round.  Handlers need
\* neither start a call nor end.
AioSpec == /\ AioInit /\ [][AioNext]_aio_vars
           /\ WF_aio_vars(IoNext /\ UNCHANGED <<py, ms>>) /\ SF_aio_vars(LoopNext)
-----------------------------------------------------------------------------
AioTypeOK == py \in PyType /\ \A h \in Served : ms[h] \in MuxStream

Due(h) == {i \in DOMAIN py.batch : py.batch[i][1] = h}
EventDue(h, bits) ==
  \/ h \in py.map /\ Contains(c.ready, h) /\ c.st[h].ev_pending \cap bits # {}
  \/ \E i \in DOMAIN py.batch : py.batch[i][1] = h /\ py.batch[i][2] \cap bits # {}

(***************************************************************************)
(* A coroutine waits only while it has to, or while the event that will    *)
(* wake it is on its way: no order of frames, polls and calls leaves a     *)
(* reader asleep over data or an end, or a writer over a drained backlog   *)
(* or an end ("a backpressured writer never strands", muxpeer_aio.py:30).  *)
(* Streams older than fileno() are left out: their READABLE is lost.       *)
(***************************************************************************)
WaitersHaveReason ==
  py.state = "serving" /\ Unlocked => \A h \in Served \ py.early :
    /\ ms[h].reader = "waiting" /\ (ms[h].rbuf > 0 \/ ms[h].eof \/ c.st[h].rbuf > 0 \/ c.st[h].eof)
         => EventDue(h, {"READABLE", "CLOSED"})
    /\ ms[h].writer = "waiting" =>
         \/ EventDue(h, {"WRITABLE", "READABLE", "CLOSED"})
         \/ ~ms[h].eof /\ ~c.st[h].eof /\ c.st[h].want_writable

(***************************************************************************)
(* The map of the extension module and the handlers agree: every entry is  *)
(* a stream that the application holds and that has a handler or is about  *)
(* to get one, and an open stream keeps its entry until its end was        *)
(* reported, so that the map "can't grow without bound or alias a reused   *)
(* pointer" (muxpeermodule.c:255).                                         *)
(***************************************************************************)
MapMirrors ==
  py.state \in {"starting", "serving"} =>
    /\ \A h \in Served : h \in Allocated(c) /\ c.st[h].held /\ (~ms[h].eof => h \in py.map \/ Due(h) # {})
    /\ \A h \in py.map \ Served : Due(h) # {}
    /\ \A i \in DOMAIN py.batch :
         py.batch[i][1] \in Served \/ \E j \in 1 .. i : py.batch[j] = <<py.batch[i][1], {"ACCEPT"}>>

(***************************************************************************)
(* serve() returns after it was cancelled, whatever the I/O thread is      *)
(* doing: pthread_join in lp_disconnect ends.                              *)
(***************************************************************************)
ServeReturns == py.state = "closing" ~> py.state = "closed"

(***************************************************************************)
(* No coroutine strands on a stream that has ended: a reader or a writer   *)
(* that waits when the peer's FIN, a reset or the loss of the tunnel is    *)
(* applied to its stream does not wait for ever (muxpeer_aio.py:29).       *)
(***************************************************************************)
Waits(h) == h \in Served \ py.early /\ "waiting" \in {ms[h].reader, ms[h].writer}
NobodyStrands ==
  \A h \in Handles :
    (Waits(h) /\ c.st[h].eof) ~> (~Waits(h) \/ py.state # "serving")

(***************************************************************************)
(* A reader does not stay asleep while its stream has data.  It does not   *)
(* hold: _feed_readable goes on for as long as new data arrives.           *)
(***************************************************************************)
ReaderServed ==
  \A h \in Handles :
    (Waits(h) /\ ms[h].reader = "waiting" /\ c.st[h].rbuf > 0)
      ~> (~Waits(h) \/ ms[h].reader # "waiting" \/ py.state # "serving")

(***************************************************************************)
(* A half-close of the peer does not end our direction: "Half-close MUST   *)
(* be honored per-direction" (MUX.md:144).  It does not hold: CLOSED also  *)
(* reports a FIN, and write() then raises as soon as the backlog is full.  *)
(***************************************************************************)
HalfCloseHonoured ==
  \A h \in Served : ms[h].writer = "failed" => c.st[h].reset

(***************************************************************************)
(* Bytes are credited "as the application consumes them" (MUX.md:148), so  *)
(* that a handler that does not read holds at most a window.  It does not  *)
(* hold: _feed_readable moves them into _rbuf, which has no bound.         *)
(***************************************************************************)
BufferedWithinWindow == \A h \in Served : ms[h].rbuf <= Win

(***************************************************************************)
(* No handler is left when the client is freed: its close() would call     *)
(* lp_close for a stream that lp_disconnect has freed.  It does not hold:  *)
(* serve() neither cancels nor awaits the handlers.                        *)
(***************************************************************************)
HandlersEndFirst == pc = "freed" => Served = {}
=============================================================================
