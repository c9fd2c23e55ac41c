---------------------------- MODULE RelayConns -----------------------------
(***************************************************************************)
(* What each call of the relay loop keeps true of its connections, for     *)
(* every number of slots and streams, every window and batch.  Between two *)
(* calls a connection may lag behind its stream by exactly the events      *)
(* still queued for it: Tracks says that handling them, in order, brings   *)
(* the connection to where the stream already is.  A queued OPENED event   *)
(* stands for a connection that has yet to be made, and is tracked alike.  *)
(* The bytes due are related by a path through the queue, Adds, and not by *)
(* a sum, so no induction over the queue is needed.                        *)
(***************************************************************************)
EXTENDS Relay, TLAPS

\* The types the proof needs: counts are not bounded by the windows here.
ConnT ==
  [sid : Sids, sock : {"connecting", "failed", "up", "broken"},
   connecting : BOOLEAN, sock_eof : BOOLEAN, stream_fin : BOOLEAN,
   send_blocked : BOOLEAN, cur_r : BOOLEAN, cur_w : BOOLEAN, in_dirty : BOOLEAN,
   s2m : Nat, m2s : Nat]
StreamT == [life : Life, send_blocked : BOOLEAN, held : Int]
MuxT == [tab : [Sids -> StreamT], next_sid : Nat \ {0}, evq : Seq(Event),
         unconsumed : Int, greeted : BOOLEAN, dead : BOOLEAN]
RelayT ==
  [role : {"edge", "backend"}, conns : [Idx -> ConnT \cup {Unused}],
   freelist : Seq(Idx), mux : MuxT, nactive : Int, listen_paused : BOOLEAN]

\* An event of this type for stream sid is queued.
Coming(q, type, sid) == \E j \in 1 .. Len(q) : q[j].type = type /\ q[j].sid = sid
\* The bytes that an event brings for stream sid.
BytesOf(ev, sid) == IF ev.type = "STREAM_DATA" /\ ev.sid = sid THEN ev.n ELSE 0
\* The queue takes a count of bytes of stream sid from one value to another.
Adds(q, sid, from, to) ==
  \E f \in [0 .. Len(q) -> Int] :
    /\ f[0] = from /\ f[Len(q)] = to
    /\ \A j \in 1 .. Len(q) : f[j] = f[j - 1] + BytesOf(q[j], sid)
\* The state of a stream whose input and output have ended or not.
LifeOf(eof, fin, rst) ==
  IF rst \/ (eof /\ fin) THEN "NONE"
  ELSE IF eof THEN "HCL_LOCAL" ELSE IF fin THEN "HCL_REMOTE" ELSE "OPEN"
\* Nothing is delivered after CLOSED, queued or handled.
FinIsLast(k, q) ==
  \A j \in 1 .. Len(q) : q[j].sid = k.sid =>
    /\ q[j].type \in {"STREAM_DATA", "STREAM_CLOSED"} => ~k.stream_fin
    /\ q[j].type = "STREAM_CLOSED" =>
         \A l \in j + 1 .. Len(q) :
           ~(q[l].sid = k.sid /\ q[l].type \in {"STREAM_DATA", "STREAM_CLOSED"})
\* The entry t of a stream is what connection k will show once the events in
\* q are handled: the directions that have ended and the bytes held.
Follows(k, t, q) ==
  /\ t.life = LifeOf(k.sock_eof, k.stream_fin \/ Coming(q, "STREAM_CLOSED", k.sid),
                     Coming(q, "STREAM_RESET", k.sid))
  /\ t.life # "NONE" => Adds(q, k.sid, k.m2s, t.held)
  /\ FinIsLast(k, q)
\* ... and a connection that waits for room will be told.
Tracks(k, t, q) ==
  /\ Follows(k, t, q)
  /\ k.send_blocked => \/ t.send_blocked \/ Coming(q, "WRITABLE", k.sid)
                       \/ Coming(q, "STREAM_RESET", k.sid)
-----------------------------------------------------------------------------
\* A record of a connection is never the mark of a free slot.
LEMMA ConnIsUsed == \A k \in ConnT : k # Unused
  BY DEF ConnT, Unused

\* What is coming before and after the head of the queue is taken.
LEMMA ComingTail ==
  ASSUME NEW q \in Seq(Event), q # <<>>, NEW type, NEW sid
  PROVE  Coming(q, type, sid) <=> (q[1].type = type /\ q[1].sid = sid) \/ Coming(Tail(q), type, sid)
  BY DEF Coming

\* What is coming once one more event is queued.
LEMMA ComingAppend ==
  ASSUME NEW q \in Seq(Event), NEW ev \in Event, NEW type, NEW sid
  PROVE  Coming(Append(q, ev), type, sid) <=> (ev.type = type /\ ev.sid = sid) \/ Coming(q, type, sid)
  BY DEF Coming

\* Taking the head of the queue adds its bytes to where the sum starts.
LEMMA AddsTail ==
  ASSUME NEW q \in Seq(Event), q # <<>>, NEW sid, NEW a, NEW b, Adds(q, sid, a, b)
  PROVE  Adds(Tail(q), sid, a + BytesOf(q[1], sid), b)
  <1>1. PICK f \in [0 .. Len(q) -> Int] :
          /\ f[0] = a /\ f[Len(q)] = b
          /\ \A j \in 1 .. Len(q) : f[j] = f[j - 1] + BytesOf(q[j], sid)
    BY DEF Adds
  <1> DEFINE g == [j \in 0 .. Len(Tail(q)) |-> f[j + 1]]
  <1>2. Len(Tail(q)) = Len(q) - 1 /\ Len(q) \in Nat \ {0}
    OBVIOUS
  <1>3. g \in [0 .. Len(Tail(q)) -> Int]
    BY <1>2
  <1>4. g[0] = a + BytesOf(q[1], sid)
    BY <1>1, <1>2
  <1>5. g[Len(Tail(q))] = b
    BY <1>1, <1>2
  <1>6. ASSUME NEW j \in 1 .. Len(Tail(q))
        PROVE  g[j] = g[j - 1] + BytesOf(Tail(q)[j], sid)
    <2>1. Tail(q)[j] = q[j + 1] /\ j + 1 \in 1 .. Len(q) /\ j - 1 \in 0 .. Len(Tail(q))
      BY <1>2
    <2> QED
      BY <1>1, <1>2, <2>1
  <1> HIDE DEF g
  <1> QED
    BY <1>3, <1>4, <1>5, <1>6 DEF Adds

\* Queueing an event adds its bytes to where the sum ends.
LEMMA AddsAppend ==
  ASSUME NEW q \in Seq(Event), NEW ev \in Event, NEW sid, NEW a, NEW b, Adds(q, sid, a, b)
  PROVE  Adds(Append(q, ev), sid, a, b + BytesOf(ev, sid))
  <1>1. PICK f \in [0 .. Len(q) -> Int] :
          /\ f[0] = a /\ f[Len(q)] = b
          /\ \A j \in 1 .. Len(q) : f[j] = f[j - 1] + BytesOf(q[j], sid)
    BY DEF Adds
  <1> DEFINE p == Append(q, ev)
             g == [j \in 0 .. Len(p) |-> IF j <= Len(q) THEN f[j] ELSE b + BytesOf(ev, sid)]
  <1>2. Len(p) = Len(q) + 1 /\ Len(q) \in Nat
    OBVIOUS
  <1>3. BytesOf(ev, sid) \in Int /\ b \in Int
    BY <1>1, <1>2 DEF BytesOf, Event
  <1>4. g \in [0 .. Len(p) -> Int]
    BY <1>2, <1>3
  <1>5. g[0] = a /\ g[Len(p)] = b + BytesOf(ev, sid)
    BY <1>1, <1>2
  <1>6. ASSUME NEW j \in 1 .. Len(p)
        PROVE  g[j] = g[j - 1] + BytesOf(p[j], sid)
    <2>1. CASE j <= Len(q)
      BY <1>1, <1>2, <2>1
    <2>2. CASE j = Len(q) + 1
      BY <1>1, <1>2, <2>2
    <2> QED
      BY <1>2, <2>1, <2>2
  <1> HIDE DEF g
  <1> QED
    BY <1>4, <1>5, <1>6 DEF Adds

\* Both ends of the sum may be moved by the same amount.
LEMMA AddsShift ==
  ASSUME NEW q \in Seq(Event), NEW sid, NEW a \in Int, NEW b \in Int, NEW w \in Int,
         Adds(q, sid, a, b)
  PROVE  Adds(q, sid, a - w, b - w)
  <1>1. PICK f \in [0 .. Len(q) -> Int] :
          /\ f[0] = a /\ f[Len(q)] = b
          /\ \A j \in 1 .. Len(q) : f[j] = f[j - 1] + BytesOf(q[j], sid)
    BY DEF Adds
  <1> DEFINE g == [j \in 0 .. Len(q) |-> f[j] - w]
  <1>2. Len(q) \in Nat
    OBVIOUS
  <1>3. g \in [0 .. Len(q) -> Int] /\ g[0] = a - w /\ g[Len(q)] = b - w
    BY <1>1, <1>2
  <1>4. ASSUME NEW j \in 1 .. Len(q)
        PROVE  g[j] = g[j - 1] + BytesOf(q[j], sid)
    <2>1. q[j] \in Event
      OBVIOUS
    <2>2. BytesOf(q[j], sid) \in Int
      BY <2>1 DEF BytesOf, Event
    <2>3. j \in 0 .. Len(q) /\ j - 1 \in 0 .. Len(q)
      BY <1>2
    <2>4. f[j] = f[j - 1] + BytesOf(q[j], sid) /\ f[j] \in Int /\ f[j - 1] \in Int
      BY <1>1, <2>3
    <2> QED
      BY <2>2, <2>3, <2>4
  <1> HIDE DEF g
  <1> QED
    BY <1>3, <1>4 DEF Adds

\* An empty queue adds nothing.
LEMMA AddsEmpty ==
  ASSUME NEW sid, NEW a \in Int, NEW b \in Int
  PROVE  Adds(<<>>, sid, a, b) <=> a = b
  <1>1. ASSUME a = b PROVE Adds(<<>>, sid, a, b)
    <2> DEFINE f == [j \in 0 .. 0 |-> a]
    <2>1. f \in [0 .. Len(<<>>) -> Int] /\ f[0] = a /\ f[Len(<<>>)] = b
      BY <1>1
    <2>2. \A j \in 1 .. Len(<<>>) : f[j] = f[j - 1] + BytesOf(<<>>[j], sid)
      OBVIOUS
    <2> HIDE DEF f
    <2> QED
      BY <2>1, <2>2 DEF Adds
  <1> QED
    BY <1>1 DEF Adds

\* What tracking depends on.
LEMMA TracksSame ==
  ASSUME NEW k, NEW k2, NEW t, NEW q, Tracks(k, t, q), k2.sid = k.sid,
         k2.sock_eof = k.sock_eof, k2.stream_fin = k.stream_fin,
         k2.send_blocked = k.send_blocked, k2.m2s = k.m2s
  PROVE  Tracks(k2, t, q)
  BY Zenon DEF Tracks, Follows, LifeOf, FinIsLast

\* A queue says the same of a stream once an event of another one is gone.
LEMMA TracksTail ==
  ASSUME NEW q \in Seq(Event), q # <<>>, NEW k, NEW t, k.m2s \in Int,
         q[1].sid # k.sid, Tracks(k, t, q)
  PROVE  Tracks(k, t, Tail(q))
  <1>1. \A type : Coming(Tail(q), type, k.sid) <=> Coming(q, type, k.sid)
    BY ComingTail
  <1>2. Adds(q, k.sid, k.m2s, t.held) => Adds(Tail(q), k.sid, k.m2s, t.held)
    <2>1. BytesOf(q[1], k.sid) = 0 /\ k.m2s + 0 = k.m2s
      BY DEF BytesOf
    <2> QED
      BY <2>1, AddsTail
  <1>3. FinIsLast(k, Tail(q))
    <2>1. FinIsLast(k, q)
      BY DEF Tracks, Follows
    <2> QED
      BY <2>1 DEF FinIsLast
  <1> QED
    BY <1>1, <1>2, <1>3 DEF Tracks, Follows, LifeOf

\* Nor does an event of another stream that is queued last.
LEMMA TracksAppend ==
  ASSUME NEW q \in Seq(Event), NEW ev \in Event, NEW k, NEW t, t.held \in Int,
         ev.sid # k.sid, Tracks(k, t, q)
  PROVE  Tracks(k, t, Append(q, ev))
  <1>1. \A type : Coming(Append(q, ev), type, k.sid) <=> Coming(q, type, k.sid)
    BY ComingAppend
  <1>2. Adds(q, k.sid, k.m2s, t.held) => Adds(Append(q, ev), k.sid, k.m2s, t.held)
    <2>1. BytesOf(ev, k.sid) = 0 /\ t.held + 0 = t.held
      BY DEF BytesOf
    <2> QED
      BY <2>1, AddsAppend
  <1>3. FinIsLast(k, Append(q, ev))
    <2>1. FinIsLast(k, q)
      BY DEF Tracks, Follows
    <2> QED
      BY <2>1 DEF FinIsLast
  <1> QED
    BY <1>1, <1>2, <1>3 DEF Tracks, Follows, LifeOf
-----------------------------------------------------------------------------
\* m2 differs from m in nothing but stream sid and the count of unconsumed bytes.
SameBut(m, m2, sid) ==
  /\ m2.evq = m.evq /\ m2.next_sid = m.next_sid
  /\ m2.greeted = m.greeted /\ m2.dead = m.dead
  /\ \A s \in Sids \ {sid} : m2.tab[s] = m.tab[s]

\* The entry of an unused stream id is typed.
LEMMA NoStreamTyped == NoStream \in StreamT /\ NoStream.life = "NONE"
  BY DEF NoStream, StreamT, Life

\* mux_consume changes only the bytes held for one stream.
LEMMA MuxConsume ==
  ASSUME NEW m \in MuxT, NEW sid \in Sids, NEW n \in Nat
  PROVE  /\ mux_consume(m, sid, n) \in MuxT
         /\ SameBut(m, mux_consume(m, sid, n), sid)
         /\ mux_consume(m, sid, n).tab[sid].life = m.tab[sid].life
         /\ mux_consume(m, sid, n).tab[sid].send_blocked = m.tab[sid].send_blocked
         /\ ~m.dead /\ m.tab[sid].life # "NONE" =>
              mux_consume(m, sid, n).tab[sid].held = m.tab[sid].held - n
  <1> DEFINE t == m.tab[sid]
             h == IF sid \in Live(m) THEN t.held - n ELSE t.held
             m2 == [m EXCEPT !.unconsumed = @ - n, !.tab[sid].held = h]
  <1>1. t \in StreamT /\ h \in Int /\ m.unconsumed \in Int
    BY DEF MuxT, StreamT
  <1>2. mux_consume(m, sid, n) = IF m.dead THEN m ELSE m2
    BY DEF mux_consume
  <1>3. t.life # "NONE" => h = t.held - n
    BY DEF Live
  <1> HIDE DEF h
  <1>4. m.unconsumed - n \in Int
    BY <1>1
  <1>5. /\ m2 \in MuxT /\ SameBut(m, m2, sid)
        /\ m2.tab[sid].life = t.life /\ m2.tab[sid].send_blocked = t.send_blocked
        /\ m2.tab[sid].held = h
    BY Zenon, <1>1, <1>4 DEF MuxT, StreamT, SameBut
  <1>6. SameBut(m, m, sid)
    BY DEF SameBut
  <1> HIDE DEF m2
  <1> QED
    BY <1>2, <1>3, <1>5, <1>6

\* mux_write changes only the send_blocked flag of one stream.
LEMMA MuxWrite ==
  ASSUME NEW m \in MuxT, NEW sid \in Sids, NEW n \in Nat, NEW k \in Nat
  PROVE  /\ mux_write(m, sid, n, k) \in MuxT
         /\ SameBut(m, mux_write(m, sid, n, k), sid)
         /\ mux_write(m, sid, n, k).tab[sid].life = m.tab[sid].life
         /\ mux_write(m, sid, n, k).tab[sid].held = m.tab[sid].held
         /\ mux_write(m, sid, n, k).tab[sid].send_blocked
              = (m.tab[sid].send_blocked \/ (CanSend(m, sid) /\ k < n))
  <1> DEFINE t == m.tab[sid]
             m2 == [m EXCEPT !.tab[sid].send_blocked = TRUE]
  <1>1. t \in StreamT
    BY DEF MuxT
  <1>2. /\ m2 \in MuxT /\ SameBut(m, m2, sid)
        /\ m2.tab[sid].life = t.life /\ m2.tab[sid].held = t.held
        /\ m2.tab[sid].send_blocked = TRUE
    BY Zenon, <1>1 DEF MuxT, StreamT, SameBut
  <1>3. SameBut(m, m, sid)
    BY DEF SameBut
  <1>4. t.send_blocked \in BOOLEAN
    BY <1>1 DEF StreamT
  <1>5. mux_write(m, sid, n, k) = IF CanSend(m, sid) /\ k < n THEN m2 ELSE m
    BY DEF mux_write
  <1> HIDE DEF m2
  <1> QED
    BY Zenon, <1>2, <1>3, <1>4, <1>5

\* mux_reset empties the entry of one stream.
LEMMA MuxReset ==
  ASSUME NEW m \in MuxT, NEW sid \in Sids
  PROVE  /\ mux_reset(m, sid) \in MuxT
         /\ SameBut(m, mux_reset(m, sid), sid)
  <1> DEFINE m2 == [m EXCEPT !.tab[sid] = NoStream]
  <1>1. m2 \in MuxT /\ SameBut(m, m2, sid) /\ SameBut(m, m, sid)
    BY NoStreamTyped DEF MuxT, SameBut
  <1>2. mux_reset(m, sid) = IF m.dead THEN m ELSE m2
    BY DEF mux_reset
  <1> QED
    BY <1>1, <1>2

\* mux_close half-closes a stream, or ends one that the peer has closed.
LEMMA MuxClose ==
  ASSUME NEW m \in MuxT, NEW sid \in Sids
  PROVE  /\ mux_close(m, sid) \in MuxT
         /\ SameBut(m, mux_close(m, sid), sid)
         /\ ~m.dead => mux_close(m, sid).tab[sid].life =
              CASE m.tab[sid].life = "OPEN" -> "HCL_LOCAL"
                [] m.tab[sid].life = "HCL_REMOTE" -> "NONE"
                [] OTHER -> m.tab[sid].life
         /\ mux_close(m, sid).tab[sid].life # "NONE" =>
              /\ mux_close(m, sid).tab[sid].held = m.tab[sid].held
              /\ mux_close(m, sid).tab[sid].send_blocked = m.tab[sid].send_blocked
  <1> DEFINE t == m.tab[sid]
             m1 == [m EXCEPT !.tab[sid].life = "HCL_LOCAL"]
             m2 == [m EXCEPT !.tab[sid] = NoStream]
  <1>1. t \in StreamT
    BY DEF MuxT
  <1>2. m2 \in MuxT /\ SameBut(m, m2, sid) /\ SameBut(m, m, sid) /\ m2.tab[sid].life = "NONE"
    BY NoStreamTyped DEF MuxT, SameBut
  <1>3. /\ m1 \in MuxT /\ SameBut(m, m1, sid)
        /\ m1.tab[sid].life = "HCL_LOCAL" /\ m1.tab[sid].held = t.held
        /\ m1.tab[sid].send_blocked = t.send_blocked
    BY Zenon, <1>1 DEF MuxT, StreamT, Life, SameBut
  <1>4. mux_close(m, sid) = IF m.dead \/ t.life \notin {"OPEN", "HCL_REMOTE"} THEN m
                            ELSE IF t.life = "OPEN" THEN m1 ELSE m2
    BY DEF mux_close, CanSend
  <1> HIDE DEF m1, m2
  <1> QED
    BY <1>2, <1>3, <1>4

\* mux_next_event takes the head of the queue and changes nothing else.
LEMMA MuxNextEvent ==
  ASSUME NEW m \in MuxT, m.evq # <<>>
  PROVE  /\ mux_next_event(m) \in MuxT
         /\ mux_next_event(m) = [m EXCEPT !.evq = Tail(m.evq)]
         /\ mux_next_event(m).evq = Tail(m.evq)
         /\ mux_next_event(m).tab = m.tab /\ mux_next_event(m).next_sid = m.next_sid
         /\ mux_next_event(m).dead = m.dead /\ mux_next_event(m).greeted = m.greeted
  <1>1. Tail(m.evq) \in Seq(Event)
    BY DEF MuxT
  <1> QED
    BY <1>1 DEF MuxT, mux_next_event
-----------------------------------------------------------------------------
\* The connection that open_backend_conn will make of an OPENED event.
Fresh(sid) ==
  [sid |-> sid, sock_eof |-> FALSE, stream_fin |-> FALSE, send_blocked |-> FALSE, m2s |-> 0]

\* Every connection follows its stream, but for one stream.
ConnsTrack(x, but) ==
  \A i \in Used(x) :
    /\ x.conns[i].sid < x.mux.next_sid
    /\ x.conns[i].sid # but => Tracks(x.conns[i], x.mux.tab[x.conns[i].sid], x.mux.evq)

\* A stream has one connection at most.
OnePerStream(x) == \A i, j \in Used(x) : x.conns[i].sid = x.conns[j].sid => i = j

\* A stream that is still to be announced has no connection, its OPENED event
\* is the first of its events, and the connection to be made follows it.
OpenedTrack(x) ==
  \A j \in 1 .. Len(x.mux.evq) :
    LET sid == x.mux.evq[j].sid IN
    x.mux.evq[j].type = "STREAM_OPENED" =>
      /\ sid \in Sids
      /\ \A i \in Used(x) : x.conns[i].sid # sid
      /\ \A l \in 1 .. j - 1 : x.mux.evq[l].sid # sid
      /\ Tracks(Fresh(sid), x.mux.tab[sid], x.mux.evq)

\* No id from next_sid on has been used.
NextUnused(m) ==
  /\ \A j \in 1 .. Len(m.evq) : m.evq[j].sid < m.next_sid
  /\ \A sid \in Sids : sid >= m.next_sid => m.tab[sid] = NoStream

\* All that relates connections, streams and queued events.
Streams(x, but) ==
  ConnsTrack(x, but) /\ OnePerStream(x) /\ OpenedTrack(x) /\ NextUnused(x.mux)

\* The free list holds free slots, each once.
Slots(x) ==
  /\ \A a \in 1 .. Len(x.freelist) : x.conns[x.freelist[a]] = Unused
  /\ \A a, b \in 1 .. Len(x.freelist) : x.freelist[a] = x.freelist[b] => a = b

\* The n elements of S can be numbered: what Cardinality stands for, in a form
\* that needs no induction to add or remove one.
Sized(S, n) ==
  /\ n \in Nat
  /\ \E f \in [1 .. n -> S] : /\ \A e \in S : \E j \in 1 .. n : f[j] = e
                              /\ \A j, l \in 1 .. n : f[j] = f[l] => j = l

\* The edge counts its connections and pauses at the cap only.
Count(x) ==
  ~Backend(x) => /\ Sized(Used(x), x.nactive) /\ x.nactive <= MaxStreams
                 /\ x.listen_paused => x.nactive = MaxStreams

\* The interest that is registered is the one called for.
Current(k) == k.cur_r = conn_desired(k).rd /\ k.cur_w = conn_desired(k).wr
\* ... unless the socket is in error or on the dirty list.
Registered(k) == Faulty(k) \/ k.in_dirty \/ Current(k)
\* send_blocked is the mark of a nonempty s2m, which an ended input leaves empty.
Flagged(k) == (k.send_blocked <=> k.s2m > 0) /\ (k.sock_eof => k.s2m = 0)
\* What conn_maybe_finish releases.
Done(k) == k.sock_eof /\ k.stream_fin /\ k.m2s = 0 /\ k.s2m = 0
\* What holds of a connection between two calls.
Kept(k) == Registered(k) /\ Flagged(k) /\ ~Done(k)

\* What holds of the relay between two calls.
Good(x) ==
  /\ x \in RelayT /\ Slots(x) /\ Count(x)
  /\ \A i \in Used(x) : Kept(x.conns[i])
  /\ ~x.mux.dead => Streams(x, 0)

\* As Good, but for connection i, which a call is working on.
Loose(x, i) ==
  /\ x \in RelayT /\ Slots(x) /\ Count(x) /\ i \in Used(x)
  /\ \A j \in Used(x) \ {i} : Kept(x.conns[j])
  /\ ~x.mux.dead => Streams(x, x.conns[i].sid)

\* The connection being worked on follows its stream again.
Tracked(x, i) ==
  ~x.mux.dead => Tracks(x.conns[i], x.mux.tab[x.conns[i].sid], x.mux.evq)

\* y is x with connection i replaced by k and the session by m.
Puts(x, y, i, k, m) ==
  /\ y.role = x.role /\ y.freelist = x.freelist /\ y.nactive = x.nactive
  /\ y.listen_paused = x.listen_paused
  /\ y.mux = m /\ y.conns = [x.conns EXCEPT ![i] = k]
  /\ y \in RelayT

\* A good relay is good but for any connection, and that one is tracked.
LEMMA GoodIsLoose ==
  ASSUME NEW x, Good(x), NEW i \in Used(x)
  PROVE  Loose(x, i) /\ Tracked(x, i) /\ Kept(x.conns[i])
  <1>1. x.conns[i] \in ConnT
    BY DEF Good, RelayT, Used
  <1>2. x.conns[i].sid # 0
    BY <1>1 DEF ConnT, Sids
  <1>3. Tracked(x, i)
    BY <1>2 DEF Good, Tracked, Streams, ConnsTrack
  <1>4. ~x.mux.dead => Streams(x, x.conns[i].sid)
    <2>1. ASSUME ~x.mux.dead, NEW j \in Used(x)
          PROVE  x.conns[j].sid < x.mux.next_sid /\ x.conns[j].sid # 0
                 /\ Tracks(x.conns[j], x.mux.tab[x.conns[j].sid], x.mux.evq)
      <3>1. x.conns[j] \in ConnT
        BY DEF Good, RelayT, Used
      <3> QED
        BY <2>1, <3>1 DEF Good, Streams, ConnsTrack, ConnT, Sids
    <2> QED
      BY <2>1 DEF Good, Streams, ConnsTrack
  <1> QED
    BY <1>3, <1>4 DEF Good, Loose

\* A relay is good once the connection being worked on is tracked and kept.
LEMMA LooseIsGood ==
  ASSUME NEW x, NEW i, Loose(x, i), Tracked(x, i), Kept(x.conns[i])
  PROVE  Good(x)
  <1>1. ~x.mux.dead => ConnsTrack(x, 0)
    BY DEF Loose, Tracked, Streams, ConnsTrack, OnePerStream
  <1> QED
    BY <1>1 DEF Loose, Good, Streams

\* Replacing a connection and its stream disturbs no other connection.
LEMMA LoosePut ==
  ASSUME NEW x, NEW y, NEW i, Loose(x, i), NEW k \in ConnT, NEW m \in MuxT,
         k.sid = x.conns[i].sid, SameBut(x.mux, m, k.sid), Puts(x, y, i, k, m)
  PROVE  Loose(y, i) /\ y.conns[i] = k /\ y.mux = m
  <1>1. /\ x \in RelayT /\ i \in Idx /\ x.conns[i] # Unused /\ k # Unused
        /\ x.conns \in [Idx -> ConnT \cup {Unused}]
    BY ConnIsUsed DEF Loose, RelayT, Used
  <1>2. /\ y.conns[i] = k /\ \A j \in Idx \ {i} : y.conns[j] = x.conns[j]
        /\ Used(y) = Used(x)
    BY <1>1 DEF Puts, Used
  <1>3. Slots(y)
    <2>1. \A a \in 1 .. Len(x.freelist) : x.freelist[a] \in Idx
      BY <1>1 DEF RelayT
    <2> QED
      BY <1>1, <1>2, <2>1 DEF Loose, Slots, Puts
  <1>4. Count(y)
    BY <1>2 DEF Loose, Count, Backend, Puts
  <1>5. \A j \in Used(y) \ {i} : Kept(y.conns[j])
    BY <1>2 DEF Loose, Used
  <1>6. ASSUME ~y.mux.dead PROVE Streams(y, k.sid)
    <2>1. Streams(x, k.sid)
      BY <1>6 DEF Loose, Puts, SameBut
    <2>2. \A j \in Used(y) : y.conns[j].sid = x.conns[j].sid
      BY <1>2 DEF Used
    <2>3. \A j \in Used(y) : y.conns[j].sid \in Sids
      BY <1>1, <1>2 DEF Used, ConnT
    <2>4. ConnsTrack(y, k.sid)
      BY <1>2, <2>1, <2>2, <2>3 DEF Streams, ConnsTrack, Puts, SameBut
    <2>5. OnePerStream(y)
      BY <1>2, <2>1, <2>2 DEF Streams, OnePerStream
    <2>6. OpenedTrack(y)
      BY <1>2, <2>1, <2>2 DEF Streams, OpenedTrack, Puts, SameBut, Loose
    <2>7. NextUnused(y.mux)
      <3>1. k.sid < x.mux.next_sid
        BY <2>1 DEF Loose, Streams, ConnsTrack
      <3>2. k.sid \in Nat /\ x.mux.next_sid \in Nat
        BY <1>1 DEF RelayT, MuxT, ConnT, Sids
      <3> QED
        BY <2>1, <3>1, <3>2 DEF Streams, NextUnused, Puts, SameBut, Sids
    <2> QED
      BY <2>4, <2>5, <2>6, <2>7 DEF Streams
  <1> QED
    BY <1>1, <1>2, <1>3, <1>4, <1>5, <1>6 DEF Loose, Puts

\* Nothing has size 0.
LEMMA SizedEmpty == Sized({}, 0)
  <1> DEFINE f == [j \in 1 .. 0 |-> 0]
  <1>1. f \in [1 .. 0 -> {}]
    OBVIOUS
  <1> QED
    BY Zenon, <1>1 DEF Sized

\* One more element.
LEMMA SizedAdd ==
  ASSUME NEW S, NEW n, Sized(S, n), NEW e, e \notin S
  PROVE  Sized(S \cup {e}, n + 1)
  <1>1. n \in Nat /\ n + 1 \in Nat
    BY DEF Sized
  <1>2. PICK f \in [1 .. n -> S] : /\ \A d \in S : \E j \in 1 .. n : f[j] = d
                                  /\ \A j, l \in 1 .. n : f[j] = f[l] => j = l
    BY DEF Sized
  <1> DEFINE g == [j \in 1 .. n + 1 |-> IF j = n + 1 THEN e ELSE f[j]]
  <1>3. /\ g \in [1 .. n + 1 -> S \cup {e}] /\ g[n + 1] = e
        /\ \A j \in 1 .. n : g[j] = f[j] /\ g[j] \in S /\ j \in 1 .. n + 1
        /\ n + 1 \in 1 .. n + 1 /\ \A j \in 1 .. n + 1 : j = n + 1 \/ j \in 1 .. n
    BY <1>1, <1>2
  <1> HIDE DEF g
  <1>4. \A d \in S \cup {e} : \E j \in 1 .. n + 1 : g[j] = d
    BY <1>2, <1>3
  <1>5. \A j, l \in 1 .. n + 1 : g[j] = g[l] => j = l
    BY <1>2, <1>3
  <1> QED
    BY <1>1, <1>3, <1>4, <1>5 DEF Sized

\* One element less: the last number goes to the one that keeps its place.
LEMMA SizedRemove ==
  ASSUME NEW S, NEW n, Sized(S, n), NEW e \in S
  PROVE  n > 0 /\ Sized(S \ {e}, n - 1)
  <1>1. PICK f \in [1 .. n -> S] : /\ \A d \in S : \E j \in 1 .. n : f[j] = d
                                  /\ \A j, l \in 1 .. n : f[j] = f[l] => j = l
    BY DEF Sized
  <1>2. PICK k \in 1 .. n : f[k] = e
    BY <1>1
  <1>3. n \in Nat /\ n > 0 /\ n - 1 \in Nat
    BY <1>2 DEF Sized
  <1> DEFINE m == n - 1
             g == [j \in 1 .. m |-> IF j = k THEN f[n] ELSE f[j]]
  <1>4. \A j \in 1 .. m : j \in 1 .. n /\ j # n /\ n \in 1 .. n
    BY <1>3
  <1>5. \A j \in 1 .. n : j = n \/ j \in 1 .. m
    BY <1>3
  <1>6. \A j \in 1 .. m : g[j] = IF j = k THEN f[n] ELSE f[j]
    OBVIOUS
  <1>7. g \in [1 .. m -> S \ {e}]
    BY <1>1, <1>2, <1>4
  <1> HIDE DEF g, m
  <1>8. ASSUME NEW d \in S \ {e} PROVE \E j \in 1 .. m : g[j] = d
    <2>1. PICK j \in 1 .. n : f[j] = d /\ j # k
      BY <1>1, <1>2
    <2>2. CASE j = n
      BY <1>2, <1>5, <1>6, <2>1, <2>2
    <2>3. CASE j # n
      BY <1>5, <1>6, <2>1, <2>3
    <2> QED
      BY <2>2, <2>3
  <1>9. \A j, l \in 1 .. m : g[j] = g[l] => j = l
    BY <1>1, <1>4, <1>6
  <1>10. Sized(S \ {e}, m)
    BY Zenon, <1>3, <1>7, <1>8, <1>9 DEF Sized, m
  <1> QED
    BY <1>3, <1>10 DEF m

\* conn_destroy of the connection being worked on leaves a good relay: the
\* slot returns to the free list, nactive goes down and the listener resumes.
LEMMA LooseDestroy ==
  ASSUME NEW x, NEW i, Loose(x, i)
  PROVE  Good(conn_destroy(x, i)) /\ conn_destroy(x, i).mux = x.mux
  <1> DEFINE y == conn_destroy(x, i)
             n == IF x.nactive > 0 THEN x.nactive - 1 ELSE x.nactive
  <1>1. /\ x \in RelayT /\ i \in Idx /\ i \in Used(x) /\ x.conns[i] # Unused
        /\ x.conns \in [Idx -> ConnT \cup {Unused}] /\ x.freelist \in Seq(Idx)
        /\ x.nactive \in Int /\ x.listen_paused \in BOOLEAN
    BY DEF Loose, RelayT, Used
  <1>2. <<i>> \o x.freelist \in Seq(Idx)
    BY <1>1
  <1>3. /\ y \in RelayT /\ y.mux = x.mux /\ y.role = x.role
        /\ y.conns = [x.conns EXCEPT ![i] = Unused]
        /\ y.freelist = <<i>> \o x.freelist
        /\ ~Backend(x) => /\ y.nactive = n
                          /\ y.listen_paused = (x.listen_paused /\ x.nactive - 1 >= MaxStreams)
    <2> DEFINE z == [x EXCEPT !.conns[i] = Unused, !.freelist = <<i>> \o @]
    <2>1. /\ z \in RelayT /\ z.mux = x.mux /\ z.role = x.role /\ z.nactive = x.nactive
          /\ z.conns = [x.conns EXCEPT ![i] = Unused]
          /\ z.freelist = <<i>> \o x.freelist /\ z.listen_paused = x.listen_paused
      BY Zenon, <1>1, <1>2 DEF RelayT
    <2>2. y = IF Backend(x) THEN z
              ELSE [z EXCEPT !.nactive = IF @ > 0 THEN @ - 1 ELSE @,
                             !.listen_paused = @ /\ x.nactive - 1 >= MaxStreams]
      BY DEF conn_destroy, conn_release
    <2> HIDE DEF z, y
    <2>3. CASE Backend(x)
      BY <2>1, <2>2, <2>3
    <2>4. CASE ~Backend(x)
      <3>1. y = [z EXCEPT !.nactive = n,
                          !.listen_paused = x.listen_paused /\ x.nactive - 1 >= MaxStreams]
        BY <2>1, <2>2, <2>4 DEF RelayT
      <3>2. n \in Int /\ (x.listen_paused /\ x.nactive - 1 >= MaxStreams) \in BOOLEAN
        BY <1>1
      <3> HIDE DEF n
      <3> QED
        BY Zenon, <2>1, <3>1, <3>2 DEF RelayT
    <2> QED
      BY <2>3, <2>4
  <1> HIDE DEF y
  <1>4. /\ \A j \in Idx \ {i} : y.conns[j] = x.conns[j]
        /\ y.conns[i] = Unused /\ Used(y) = Used(x) \ {i}
    BY <1>1, <1>3 DEF Used
  <1>5. Slots(y)
    <2>1. /\ \A a \in 1 .. Len(x.freelist) : x.freelist[a] \in Idx /\ x.freelist[a] # i
          /\ \A a, b \in 1 .. Len(x.freelist) : x.freelist[a] = x.freelist[b] => a = b
      BY <1>1 DEF Loose, Slots
    <2>2. /\ Len(y.freelist) = Len(x.freelist) + 1 /\ y.freelist[1] = i
          /\ \A a \in 2 .. Len(y.freelist) : y.freelist[a] = x.freelist[a - 1]
      BY <1>1, <1>3
    <2>3. Len(x.freelist) \in Nat
      BY <1>1
    <2>4. \A a \in 1 .. Len(y.freelist) :
            a = 1 \/ (/\ a - 1 \in 1 .. Len(x.freelist)
                     /\ y.freelist[a] = x.freelist[a - 1] /\ y.freelist[a] # i)
      BY <2>1, <2>2, <2>3
    <2>5. \A a \in 1 .. Len(y.freelist) : y.conns[y.freelist[a]] = Unused
      <3>1. \A a \in 1 .. Len(x.freelist) : y.conns[x.freelist[a]] = Unused
        BY <1>4, <2>1 DEF Loose, Slots
      <3> QED
        BY <1>4, <2>2, <2>4, <3>1
    <2>6. ASSUME NEW a \in 1 .. Len(y.freelist), NEW b \in 1 .. Len(y.freelist),
                 y.freelist[a] = y.freelist[b]
          PROVE  a = b
      <3>1. a \in Int /\ b \in Int
        OBVIOUS
      <3>2. CASE a # 1 /\ b # 1
        <4>1. a - 1 = b - 1
          BY <2>1, <2>4, <2>6, <3>2
        <4> QED
          BY <3>1, <4>1
      <3> QED
        BY <2>2, <2>4, <2>6, <3>2
    <2> QED
      BY <2>5, <2>6 DEF Slots
  <1>6. Count(y)
    <2>1. MaxStreams \in Nat
      BY RelayAssumption
    <2>4. CASE ~Backend(y)
      <3>1. /\ Sized(Used(x), x.nactive) /\ x.nactive <= MaxStreams /\ y.nactive = n
            /\ y.listen_paused => x.nactive - 1 >= MaxStreams
        BY Zenon, <1>3, <2>4 DEF Loose, Count, Backend
      <3>2. x.nactive > 0 /\ Sized(Used(y), x.nactive - 1)
        BY <1>1, <1>4, <3>1, SizedRemove
      <3>3. y.nactive = x.nactive - 1 /\ ~(x.nactive - 1 >= MaxStreams)
        BY <1>1, <2>1, <3>1, <3>2
      <3> QED
        BY <1>1, <2>1, <3>1, <3>2, <3>3 DEF Count
    <2> QED
      BY <2>4 DEF Count
  <1>7. \A j \in Used(y) : Kept(y.conns[j])
    BY <1>4 DEF Loose, Used
  <1>8. ASSUME ~y.mux.dead PROVE Streams(y, 0)
    <2>1. Streams(x, x.conns[i].sid)
      BY <1>3, <1>8 DEF Loose
    <2>2. \A j \in Used(y) : y.conns[j] = x.conns[j] /\ j \in Used(x) /\ x.conns[j].sid # x.conns[i].sid
      BY <1>1, <1>4, <2>1 DEF Used, Streams, OnePerStream
    <2>3. ConnsTrack(y, 0)
      BY <1>3, <2>1, <2>2 DEF Streams, ConnsTrack
    <2>4. OnePerStream(y)
      BY <2>1, <2>2 DEF Streams, OnePerStream
    <2>5. OpenedTrack(y)
      BY <1>3, <2>1, <2>2 DEF Streams, OpenedTrack
    <2> QED
      BY <1>3, <2>1, <2>3, <2>4, <2>5 DEF Streams
  <1> QED
    BY <1>3, <1>5, <1>6, <1>7, <1>8 DEF Good, y

\* conn_maybe_finish releases a connection that is done and keeps another.
LEMMA MaybeFinish ==
  ASSUME NEW x, NEW i, Loose(x, i), Tracked(x, i),
         Registered(x.conns[i]), Flagged(x.conns[i])
  PROVE  Good(conn_maybe_finish(x, i)) /\ conn_maybe_finish(x, i).mux = x.mux
  <1>1. CASE Done(x.conns[i])
    BY <1>1, LooseDestroy DEF conn_maybe_finish, Done
  <1>2. CASE ~Done(x.conns[i])
    <2>1. Good(x)
      BY <1>2, LooseIsGood DEF Kept
    <2> QED
      BY <1>2, <2>1 DEF conn_maybe_finish, Done
  <1> QED
    BY <1>1, <1>2

\* x with connection i replaced by k and the session by m.
Put(x, i, k, m) == [x EXCEPT !.mux = m, !.conns[i] = k]

\* Put replaces one connection and the session, and nothing else.
LEMMA PutConn ==
  ASSUME NEW x, NEW i, Loose(x, i), NEW k \in ConnT, NEW m \in MuxT
  PROVE  Puts(x, Put(x, i, k, m), i, k, m)
  <1>1. x \in RelayT /\ i \in Idx
    BY DEF Loose, Used
  <1> QED
    BY Zenon, <1>1 DEF Puts, RelayT, Put

\* mark_dirty of a replaced connection is again a replaced connection, on the
\* dirty list unless it already was.
LEMMA PutDirty ==
  ASSUME NEW x, NEW y, NEW i, Loose(x, i), NEW k \in ConnT, NEW m \in MuxT,
         Puts(x, y, i, k, m)
  PROVE  /\ [k EXCEPT !.in_dirty = TRUE] \in ConnT
         /\ Puts(x, mark_dirty(y, i), i, [k EXCEPT !.in_dirty = TRUE], m)
  <1> DEFINE k2 == [k EXCEPT !.in_dirty = TRUE]
  <1>1. k2 \in ConnT
    BY Zenon DEF ConnT
  <1>2. /\ x \in RelayT /\ i \in Idx /\ x.conns \in [Idx -> ConnT \cup {Unused}]
        /\ y \in RelayT /\ y.conns[i] = k
    BY DEF Loose, Used, RelayT, Puts
  <1>3. mark_dirty(y, i) = [y EXCEPT !.conns[i] = k2]
    BY <1>2 DEF mark_dirty
  <1> HIDE DEF k2
  <1>4. [y EXCEPT !.conns[i] = k2] \in RelayT
    BY Zenon, <1>1, <1>2 DEF RelayT
  <1>5. Puts(x, mark_dirty(y, i), i, k2, m)
    BY <1>1, <1>2, <1>3, <1>4 DEF Puts, RelayT
  <1> QED
    BY <1>1, <1>5 DEF k2

\* A replaced connection that is tracked and flagged, put on the dirty list,
\* leaves a good relay after conn_maybe_finish or when it is not done.
LEMMA PutStep ==
  ASSUME NEW x, NEW i, Loose(x, i), NEW k \in ConnT, NEW m \in MuxT,
         k.sid = x.conns[i].sid, SameBut(x.mux, m, k.sid), Flagged(k),
         ~m.dead => Tracks(k, m.tab[k.sid], m.evq),
         NEW y, y = mark_dirty(Put(x, i, k, m), i)
  PROVE  /\ Loose(y, i) /\ Tracked(y, i) /\ Registered(y.conns[i]) /\ Flagged(y.conns[i])
         /\ y.conns[i].in_dirty /\ y.conns[i].stream_fin = k.stream_fin /\ y.mux = m
         /\ ~Done(k) => Good(y)
  <1> DEFINE k2 == [k EXCEPT !.in_dirty = TRUE]
             z == Put(x, i, k, m)
  <1>1. /\ k2.sid = k.sid /\ k2.in_dirty /\ k2.m2s = k.m2s
        /\ k2.sock_eof = k.sock_eof /\ k2.stream_fin = k.stream_fin
        /\ k2.send_blocked = k.send_blocked /\ k2.s2m = k.s2m
    BY DEF ConnT
  <1>2. Puts(x, z, i, k, m)
    BY PutConn
  <1> HIDE DEF z
  <1>3. k2 \in ConnT /\ Puts(x, mark_dirty(z, i), i, k2, m)
    BY Zenon, <1>2, PutDirty
  <1>4. y = mark_dirty(z, i)
    BY DEF z
  <1> HIDE DEF k2
  <1>5. Loose(y, i) /\ y.conns[i] = k2 /\ y.mux = m
    BY <1>1, <1>3, <1>4, LoosePut
  <1>6. ~m.dead => Tracks(k2, m.tab[k2.sid], m.evq)
    BY <1>1 DEF Tracks, Follows, LifeOf, FinIsLast
  <1>7. Tracked(y, i) /\ Registered(y.conns[i]) /\ Flagged(y.conns[i])
    BY <1>1, <1>5, <1>6 DEF Tracked, Registered, Flagged
  <1>8. ASSUME ~Done(k) PROVE Good(y)
    <2>1. Kept(y.conns[i])
      BY <1>1, <1>5, <1>7, <1>8 DEF Kept, Done
    <2> QED
      BY <1>5, <1>7, <2>1, LooseIsGood
  <1> QED
    BY <1>1, <1>5, <1>7, <1>8

\* flush_to_socket gives back exactly the bytes that it wrote.
LEMMA FlushToSocket ==
  ASSUME NEW x, NEW i, Loose(x, i), Tracked(x, i), Flagged(x.conns[i]),
         NEW w \in Writes(x.conns[i]), NEW y, y = flush_to_socket(x, i, w)
  PROVE  /\ Loose(y, i) /\ Tracked(y, i) /\ Registered(y.conns[i]) /\ Flagged(y.conns[i])
         /\ y.mux.evq = x.mux.evq /\ y.mux.dead = x.mux.dead
         /\ y.conns[i].stream_fin = x.conns[i].stream_fin
  <1> DEFINE k == x.conns[i]
             k1 == [k EXCEPT !.m2s = @ - w]
             m2 == mux_consume(x.mux, k.sid, w)
  <1>1. /\ x \in RelayT /\ i \in Idx /\ k \in ConnT /\ x.mux \in MuxT /\ k.sid \in Sids
    BY DEF Loose, RelayT, Used, ConnT
  <1>2. w \in Int /\ w <= k.m2s /\ k.m2s \in Nat /\ (w < 0 => Faulty(k))
    BY <1>1 DEF Writes, ConnT, Faulty
  <1>3. CASE w < 0
    <2>1. y = x
      BY <1>3 DEF flush_to_socket
    <2> QED
      BY <1>1, <1>2, <1>3, <2>1 DEF Registered
  <1>4. CASE ~(w < 0)
    <2>1. y = mark_dirty(Put(x, i, k1, m2), i)
      <3>1. [x EXCEPT !.mux = mux_consume(@, x.conns[i].sid, w), !.conns[i].m2s = @ - w]
              = Put(x, i, k1, m2)
        BY <1>1 DEF RelayT, Put
      <3> QED
        BY <1>4, <3>1 DEF flush_to_socket
    <2>2. w \in Nat
      BY <1>2, <1>4
    <2>3. /\ k1 \in ConnT /\ k1.sid = k.sid /\ k1.m2s = k.m2s - w
          /\ k1.sock_eof = k.sock_eof /\ k1.stream_fin = k.stream_fin
          /\ k1.send_blocked = k.send_blocked /\ k1.s2m = k.s2m
      BY <1>1, <1>2, <2>2 DEF ConnT
    <2>4. /\ m2 \in MuxT /\ SameBut(x.mux, m2, k.sid)
          /\ m2.tab[k.sid].life = x.mux.tab[k.sid].life
          /\ m2.tab[k.sid].send_blocked = x.mux.tab[k.sid].send_blocked
          /\ ~x.mux.dead /\ x.mux.tab[k.sid].life # "NONE" =>
                m2.tab[k.sid].held = x.mux.tab[k.sid].held - w
      <3> HIDE DEF k
      <3> QED
        BY <1>1, <2>2, MuxConsume
    <2> HIDE DEF k1, m2
    <2>5. ASSUME ~m2.dead PROVE Tracks(k1, m2.tab[k.sid], m2.evq)
      <3>1. ~x.mux.dead /\ m2.evq = x.mux.evq
        BY <2>4, <2>5 DEF SameBut
      <3>2. Tracks(k, x.mux.tab[k.sid], x.mux.evq)
        BY <3>1 DEF Tracked
      <3>3. ASSUME x.mux.tab[k.sid].life # "NONE"
            PROVE  Adds(x.mux.evq, k.sid, k.m2s - w, x.mux.tab[k.sid].held - w)
        <4>1. x.mux.tab[k.sid] \in StreamT /\ x.mux.evq \in Seq(Event)
          BY <1>1 DEF MuxT
        <4>2. x.mux.tab[k.sid].held \in Int
          BY <4>1 DEF StreamT
        <4>3. Adds(x.mux.evq, k.sid, k.m2s, x.mux.tab[k.sid].held)
          BY Zenon, <3>2, <3>3 DEF Tracks, Follows
        <4> QED
          BY <1>2, <4>1, <4>2, <4>3, AddsShift
      <3> QED
        BY ZenonT(30), <2>3, <2>4, <3>1, <3>2, <3>3 DEF Tracks, Follows, LifeOf, FinIsLast
    <2>6. Flagged(k1)
      BY <2>3 DEF Flagged
    <2>7. /\ Loose(y, i) /\ Tracked(y, i) /\ Registered(y.conns[i]) /\ Flagged(y.conns[i])
          /\ y.conns[i].stream_fin = k1.stream_fin /\ y.mux = m2
      <3>1. /\ k1 \in ConnT /\ m2 \in MuxT /\ k1.sid = x.conns[i].sid
            /\ SameBut(x.mux, m2, k1.sid)
        BY <2>3, <2>4
      <3>2. ~m2.dead => Tracks(k1, m2.tab[k1.sid], m2.evq)
        BY <2>3, <2>5
      <3> QED
        BY <1>1, <2>1, <2>6, <3>1, <3>2, PutStep
    <2> QED
      BY <2>3, <2>4, <2>7 DEF SameBut, ConnT
  <1> QED
    BY <1>3, <1>4

\* flush_to_mux hands s2m to the session, or what it takes of it.
LEMMA FlushToMux ==
  ASSUME NEW x, NEW i, Loose(x, i), Flagged(x.conns[i]), ~Done(x.conns[i]),
         Follows(x.conns[i], x.mux.tab[x.conns[i].sid], x.mux.evq), ~x.mux.dead,
         NEW w \in Nat, w <= x.conns[i].s2m,
         NEW y, y = flush_to_mux(x, i, w)
  PROVE  Good(y) /\ y.mux.evq = x.mux.evq /\ y.mux.dead = x.mux.dead
  <1> DEFINE k == x.conns[i]
             t == x.mux.tab[k.sid]
             m1 == mux_write(x.mux, k.sid, k.s2m, w)
             z == [x EXCEPT !.mux = mux_write(@, k.sid, k.s2m, w), !.conns[i].s2m = @ - w]
  <1>1. /\ x \in RelayT /\ i \in Idx /\ k \in ConnT /\ x.mux \in MuxT /\ k.sid \in Sids
        /\ k.s2m \in Nat /\ t \in StreamT
    BY DEF Loose, RelayT, Used, ConnT, MuxT
  <1>4. t.life = LifeOf(k.sock_eof, k.stream_fin \/ Coming(x.mux.evq, "STREAM_CLOSED", k.sid),
                        Coming(x.mux.evq, "STREAM_RESET", k.sid))
    BY DEF Follows
  <1>5. /\ m1 \in MuxT /\ SameBut(x.mux, m1, k.sid)
        /\ m1.tab[k.sid].life = t.life /\ m1.tab[k.sid].held = t.held
        /\ m1.tab[k.sid].send_blocked = (t.send_blocked \/ (CanSend(x.mux, k.sid) /\ w < k.s2m))
    <2> HIDE DEF k
    <2> QED
      BY ZenonT(30), <1>1, MuxWrite
  <1>6. CASE w < k.s2m
    <2> DEFINE k2 == [k EXCEPT !.s2m = @ - w, !.send_blocked = TRUE]
    <2>1. y = mark_dirty(Put(x, i, k2, m1), i)
      <3>1. [z EXCEPT !.conns[i].send_blocked = TRUE] = Put(x, i, k2, m1)
        BY Zenon, <1>1 DEF RelayT, Put
      <3> QED
        BY <1>6, <3>1 DEF flush_to_mux
    <2>2. /\ k2 \in ConnT /\ k2.sid = k.sid /\ k2.m2s = k.m2s
          /\ k2.sock_eof = k.sock_eof /\ k2.stream_fin = k.stream_fin
          /\ k2.send_blocked /\ k2.s2m = k.s2m - w
      <3> DEFINE v == k.s2m - w
      <3>1. v \in Nat
        BY <1>1, <1>6
      <3>2. k2 = [k EXCEPT !.s2m = v, !.send_blocked = TRUE]
        OBVIOUS
      <3> HIDE DEF k, k2, v
      <3>3. /\ k2 \in ConnT /\ k2.sid = k.sid /\ k2.m2s = k.m2s
            /\ k2.sock_eof = k.sock_eof /\ k2.stream_fin = k.stream_fin
            /\ k2.send_blocked = TRUE /\ k2.s2m = v
        BY ZenonT(30), <1>1, <3>1, <3>2 DEF ConnT
      <3> QED
        BY <3>3 DEF v
    <2>3. ~k.sock_eof
      BY <1>1, <1>6 DEF Flagged
    <2>4. m1.tab[k.sid].send_blocked \/ Coming(x.mux.evq, "STREAM_RESET", k.sid)
      BY Zenon, <1>4, <1>5, <1>6, <2>3 DEF LifeOf, CanSend
    <2> HIDE DEF k2, m1
    <2>5. Tracks(k2, m1.tab[k2.sid], m1.evq)
      BY Zenon, <1>5, <2>2, <2>4 DEF Tracks, Follows, LifeOf, FinIsLast, SameBut
    <2>6. Flagged(k2) /\ ~Done(k2)
      BY <1>1, <1>6, <2>2, <2>3 DEF Flagged, Done
    <2>7. m1 \in MuxT /\ SameBut(x.mux, m1, k2.sid) /\ k2.sid = x.conns[i].sid
      BY <1>5, <2>2
    <2>8. Good(y) /\ y.mux = m1
      BY <2>1, <2>2, <2>5, <2>6, <2>7, PutStep
    <2> QED
      BY <1>5, <2>8 DEF SameBut
  <1>7. CASE ~(w < k.s2m)
    <2> DEFINE k2 == [k EXCEPT !.s2m = @ - w, !.send_blocked = FALSE]
    <2>1. m1 = x.mux /\ (k.sock_eof => mux_close(m1, k.sid) = x.mux)
      <3>1. m1 = x.mux
        BY <1>7 DEF mux_write
      <3>2. k.sock_eof => ~CanSend(x.mux, k.sid)
        BY <1>4 DEF LifeOf, CanSend
      <3> QED
        BY <3>1, <3>2 DEF mux_close
    <2>2. y = mark_dirty(Put(x, i, k2, x.mux), i)
      <3>1. z.mux = m1
        BY <1>1 DEF RelayT
      <3>2. [z EXCEPT !.conns[i].send_blocked = FALSE,
                      !.mux = IF k.sock_eof THEN mux_close(@, k.sid) ELSE @]
              = Put(x, i, k2, x.mux)
        <4>1. (IF k.sock_eof THEN mux_close(z.mux, k.sid) ELSE z.mux) = x.mux
          BY <2>1, <3>1
        <4>2. [z EXCEPT !.conns[i].send_blocked = FALSE, !.mux = x.mux] = Put(x, i, k2, x.mux)
          BY Zenon, <1>1 DEF RelayT, Put
        <4> QED
          BY Zenon, <4>1, <4>2
      <3> QED
        BY <1>7, <3>2 DEF flush_to_mux
    <2>3. /\ k2 \in ConnT /\ k2.sid = k.sid /\ k2.m2s = k.m2s
          /\ k2.sock_eof = k.sock_eof /\ k2.stream_fin = k.stream_fin
          /\ ~k2.send_blocked /\ k2.s2m = k.s2m - w
      <3> DEFINE v == k.s2m - w
      <3>1. v \in Nat
        BY <1>1, <1>7
      <3>2. k2 = [k EXCEPT !.s2m = v, !.send_blocked = FALSE]
        OBVIOUS
      <3> HIDE DEF k, k2, v
      <3>3. /\ k2 \in ConnT /\ k2.sid = k.sid /\ k2.m2s = k.m2s
            /\ k2.sock_eof = k.sock_eof /\ k2.stream_fin = k.stream_fin
            /\ k2.send_blocked = FALSE /\ k2.s2m = v
        BY Zenon, <1>1, <3>1, <3>2 DEF ConnT
      <3> QED
        BY <3>3 DEF v
    <2> HIDE DEF k2, m1
    <2>4. Tracks(k2, t, x.mux.evq)
      BY Zenon, <2>3 DEF Tracks, Follows, LifeOf, FinIsLast
    <2>5. Flagged(k2) /\ ~Done(k2) /\ SameBut(x.mux, x.mux, k.sid)
      BY <1>1, <1>7, <2>3 DEF Flagged, Done, SameBut
    <2>6. Good(y) /\ y.mux = x.mux
      BY <1>1, <2>2, <2>3, <2>4, <2>5, PutStep
    <2> QED
      BY <2>6
  <1> QED
    BY <1>6, <1>7

\* on_sock_readable at the end of the input.
LEMMA AtEof ==
  ASSUME NEW x, NEW i, Loose(x, i), Tracked(x, i), Flagged(x.conns[i]),
         x.conns[i].s2m = 0, NEW y, y = at_eof(x, i)
  PROVE  Good(y) /\ y.mux.evq = x.mux.evq /\ y.mux.dead = x.mux.dead
  <1> DEFINE k == x.conns[i]
             t == x.mux.tab[k.sid]
             k2 == [k EXCEPT !.sock_eof = TRUE]
             m2 == mux_close(x.mux, k.sid)
             z == mark_dirty(Put(x, i, k2, m2), i)
  <1>1. /\ x \in RelayT /\ i \in Idx /\ k \in ConnT /\ x.mux \in MuxT /\ k.sid \in Sids
        /\ t \in StreamT
    BY DEF Loose, RelayT, Used, ConnT, MuxT
  <1>2. y = conn_maybe_finish(z, i)
    <2>1. [x EXCEPT !.conns[i].sock_eof = TRUE, !.mux = mux_close(@, x.conns[i].sid)]
            = Put(x, i, k2, m2)
      BY Zenon, <1>1 DEF RelayT, Put
    <2> QED
      BY <2>1 DEF at_eof
  <1>3. /\ k2 \in ConnT /\ k2.sid = k.sid /\ k2.m2s = k.m2s /\ k2.s2m = k.s2m
        /\ k2.sock_eof = TRUE /\ k2.stream_fin = k.stream_fin
        /\ k2.send_blocked = k.send_blocked
    BY Zenon, <1>1 DEF ConnT
  <1>4. /\ m2 \in MuxT /\ SameBut(x.mux, m2, k.sid)
        /\ ~x.mux.dead => m2.tab[k.sid].life =
              CASE t.life = "OPEN" -> "HCL_LOCAL"
                [] t.life = "HCL_REMOTE" -> "NONE"
                [] OTHER -> t.life
        /\ m2.tab[k.sid].life # "NONE" => m2.tab[k.sid].held = t.held
    <2> HIDE DEF k
    <2> QED
      BY <1>1, MuxClose
  <1> HIDE DEF k2, m2
  <1>5. ~k.send_blocked
    BY <1>1 DEF Flagged
  <1>6. ASSUME ~m2.dead PROVE Tracks(k2, m2.tab[k2.sid], m2.evq)
    <2>1. ~x.mux.dead /\ m2.evq = x.mux.evq
      BY <1>4, <1>6 DEF SameBut
    <2>2. Tracks(k, t, x.mux.evq)
      BY <2>1 DEF Tracked
    <2> DEFINE fin == k.stream_fin \/ Coming(x.mux.evq, "STREAM_CLOSED", k.sid)
               rst == Coming(x.mux.evq, "STREAM_RESET", k.sid)
    <2>3. t.life = LifeOf(k.sock_eof, fin, rst)
      BY <2>2 DEF Tracks, Follows
    <2>4. m2.tab[k.sid].life = LifeOf(TRUE, fin, rst) /\ (t.life = "NONE" => m2.tab[k.sid].life = "NONE")
      <3> HIDE DEF fin, rst
      <3> QED
        BY <1>1, <1>4, <2>1, <2>3 DEF LifeOf, StreamT, Life
    <2>5. m2.tab[k.sid].life # "NONE" => t.life # "NONE" /\ m2.tab[k.sid].held = t.held
      BY Zenon, <1>4, <2>4
    <2> QED
      BY ZenonT(30), <1>3, <1>5, <2>1, <2>2, <2>4, <2>5 DEF Tracks, Follows, FinIsLast, LifeOf
  <1>7. Flagged(k2) /\ SameBut(x.mux, m2, k2.sid) /\ k2.sid = x.conns[i].sid
    BY <1>1, <1>3, <1>4 DEF Flagged
  <1>8. m2 \in MuxT
    BY <1>4
  <1>9. Loose(z, i) /\ Tracked(z, i) /\ Registered(z.conns[i]) /\ Flagged(z.conns[i]) /\ z.mux = m2
    BY <1>3, <1>6, <1>7, <1>8, PutStep
  <1> HIDE DEF z
  <1>10. Good(y) /\ y.mux = m2
    BY <1>2, <1>9, MaybeFinish
  <1> QED
    BY <1>4, <1>10 DEF SameBut

\* on_sock_readable when the session takes a part of what was read.
LEMMA ShortWrite ==
  ASSUME NEW x, NEW i, Loose(x, i), Tracked(x, i), CanSend(x.mux, x.conns[i].sid),
         NEW n \in Nat \ {0}, NEW y, y = short_write(x, i, n)
  PROVE  Good(y) /\ y.mux.evq = x.mux.evq /\ y.mux.dead = x.mux.dead
  <1> DEFINE k == x.conns[i]
             t == x.mux.tab[k.sid]
             k2 == [k EXCEPT !.s2m = n, !.send_blocked = TRUE]
             m2 == mux_write(x.mux, k.sid, n, 0)
  <1>1. /\ x \in RelayT /\ i \in Idx /\ k \in ConnT /\ x.mux \in MuxT /\ k.sid \in Sids
        /\ t \in StreamT /\ n \in Nat /\ n > 0
    BY DEF Loose, RelayT, Used, ConnT, MuxT
  <1>2. y = mark_dirty(Put(x, i, k2, m2), i)
    <2>1. [x EXCEPT !.mux = mux_write(@, x.conns[i].sid, n, 0),
                    !.conns[i].s2m = n, !.conns[i].send_blocked = TRUE] = Put(x, i, k2, m2)
      BY Zenon, <1>1 DEF RelayT, Put
    <2> QED
      BY <2>1 DEF short_write
  <1>3. /\ k2 \in ConnT /\ k2.sid = k.sid /\ k2.m2s = k.m2s /\ k2.s2m = n
        /\ k2.sock_eof = k.sock_eof /\ k2.stream_fin = k.stream_fin /\ k2.send_blocked
    BY Zenon, <1>1 DEF ConnT
  <1>4. /\ m2 \in MuxT /\ SameBut(x.mux, m2, k.sid)
        /\ m2.tab[k.sid].life = t.life /\ m2.tab[k.sid].held = t.held
        /\ m2.tab[k.sid].send_blocked = (t.send_blocked \/ (CanSend(x.mux, k.sid) /\ 0 < n))
    <2> HIDE DEF k
    <2> QED
      BY <1>1, MuxWrite
  <1>5. m2.tab[k.sid].send_blocked
    BY Zenon, <1>1, <1>4
  <1> HIDE DEF k2, m2
  <1>6. ~x.mux.dead /\ Tracks(k, t, x.mux.evq)
    BY DEF Tracked, CanSend
  <1>7. ~k.sock_eof
    BY <1>6 DEF CanSend, Tracks, Follows, LifeOf
  <1>8. Tracks(k2, m2.tab[k2.sid], m2.evq)
    BY ZenonT(30), <1>3, <1>4, <1>5, <1>6 DEF Tracks, Follows, LifeOf, FinIsLast, SameBut
  <1>9. Flagged(k2) /\ ~Done(k2) /\ SameBut(x.mux, m2, k2.sid) /\ m2 \in MuxT
    BY <1>1, <1>3, <1>4, <1>7 DEF Flagged, Done
  <1>10. Good(y) /\ y.mux = m2
    BY <1>2, <1>3, <1>8, <1>9, PutStep
  <1> QED
    BY <1>9, <1>10 DEF SameBut

\* reset_conn: the stream is reset and the connection destroyed.
LEMMA ResetConn ==
  ASSUME NEW x, NEW i, Loose(x, i), NEW y, y = reset_conn(x, i)
  PROVE  Good(y) /\ y.mux.evq = x.mux.evq /\ y.mux.dead = x.mux.dead
  <1> DEFINE k == x.conns[i]
             m2 == mux_reset(x.mux, k.sid)
             z == [x EXCEPT !.mux = m2]
  <1>1. /\ x \in RelayT /\ i \in Idx /\ k \in ConnT /\ x.mux \in MuxT /\ k.sid \in Sids
    BY DEF Loose, RelayT, Used, ConnT
  <1>2. y = conn_destroy(z, i)
    BY DEF reset_conn
  <1>3. m2 \in MuxT /\ SameBut(x.mux, m2, k.sid)
    <2> HIDE DEF k
    <2> QED
      BY <1>1, MuxReset
  <1> HIDE DEF m2
  <1>4. Puts(x, z, i, k, m2)
    BY <1>1, <1>3 DEF Puts, RelayT
  <1> HIDE DEF z
  <1>5. Loose(z, i) /\ z.mux = m2
    BY <1>1, <1>3, <1>4, LoosePut
  <1>6. Good(y) /\ y.mux = m2
    BY <1>2, <1>5, LooseDestroy
  <1> QED
    BY <1>3, <1>6 DEF SameBut

\* Whatever on_sock_readable meets, it leads from a good relay to one and
\* leaves the session's queue alone.
LEMMA OnSockReadable ==
  ASSUME NEW x, Good(x), NEW i \in Used(x), NEW y \in on_sock_readable(x, i)
  PROVE  Good(y) /\ y.mux.evq = x.mux.evq /\ y.mux.dead = x.mux.dead
  <1> DEFINE k == x.conns[i]
  <1>1. Loose(x, i) /\ Tracked(x, i) /\ Flagged(k)
    BY GoodIsLoose DEF Kept
  <1>2. k \in ConnT /\ k.s2m \in Nat
    BY <1>1 DEF Loose, RelayT, Used, ConnT
  <1>3. \/ y = x
        \/ k.s2m = 0 /\ y = at_eof(x, i)
        \/ y = conn_destroy(x, i)
        \/ CanSend(x.mux, k.sid) /\ \E n \in 1 .. MaxRead : y = short_write(x, i, n)
    <2> DEFINE R == {at_eof(x, i), conn_destroy(x, i)}
               W == {short_write(x, i, n) : n \in 1 .. MaxRead}
    <2>1. CASE k.s2m > 0
      BY <2>1 DEF on_sock_readable
    <2>2. CASE ~(k.s2m > 0) /\ k.sock = "connecting"
      BY <2>2 DEF on_sock_readable
    <2>3. CASE ~(k.s2m > 0) /\ k.sock = "up" /\ CanSend(x.mux, k.sid)
      <3>1. y \in {x, at_eof(x, i)} \cup W
        BY <2>3 DEF on_sock_readable
      <3> QED
        BY <1>2, <2>3, <3>1
    <2>4. CASE ~(k.s2m > 0) /\ k.sock = "up" /\ ~CanSend(x.mux, k.sid)
      <3>1. y \in {x, at_eof(x, i), conn_destroy(x, i)}
        BY <2>4 DEF on_sock_readable
      <3> QED
        BY <1>2, <2>4, <3>1
    <2>5. CASE ~(k.s2m > 0) /\ k.sock # "up" /\ k.sock # "connecting"
      <3>1. y \in R
        BY <2>5 DEF on_sock_readable
      <3> QED
        BY <1>2, <2>5, <3>1
    <2> QED
      BY <2>1, <2>2, <2>3, <2>4, <2>5
  <1>4. CASE k.s2m = 0 /\ y = at_eof(x, i)
    BY <1>1, <1>4, AtEof
  <1>5. CASE y = conn_destroy(x, i)
    BY <1>1, <1>5, LooseDestroy
  <1>6. ASSUME CanSend(x.mux, k.sid), NEW n \in 1 .. MaxRead, y = short_write(x, i, n)
        PROVE  Good(y) /\ y.mux.evq = x.mux.evq /\ y.mux.dead = x.mux.dead
    <2>1. n \in Nat \ {0}
      OBVIOUS
    <2> QED
      BY <1>1, <1>6, <2>1, ShortWrite
  <1> QED
    BY <1>3, <1>4, <1>5, <1>6

\* The same of on_sock_writable, after a connect and after a write.
LEMMA OnSockWritable ==
  ASSUME NEW x, Good(x), NEW i \in Used(x), NEW y \in on_sock_writable(x, i)
  PROVE  Good(y) /\ y.mux.evq = x.mux.evq /\ y.mux.dead = x.mux.dead
  <1> DEFINE k == x.conns[i]
             k1 == [k EXCEPT !.connecting = FALSE]
             z == IF k.connecting THEN mark_dirty([x EXCEPT !.conns[i].connecting = FALSE], i)
                  ELSE x
  <1>1. Loose(x, i) /\ Tracked(x, i) /\ Flagged(k) /\ Registered(k)
    BY GoodIsLoose DEF Kept
  <1>2. /\ x \in RelayT /\ i \in Idx /\ k \in ConnT /\ x.mux \in MuxT
    BY <1>1 DEF Loose, RelayT, Used
  <1>3. /\ Loose(z, i) /\ Tracked(z, i) /\ Flagged(z.conns[i]) /\ Registered(z.conns[i])
        /\ z.mux = x.mux
    <2>1. CASE ~k.connecting
      BY <1>1, <2>1
    <2>2. CASE k.connecting
      <3>1. [x EXCEPT !.conns[i].connecting = FALSE] = Put(x, i, k1, x.mux)
        BY Zenon, <1>2 DEF RelayT, Put
      <3>2. z = mark_dirty(Put(x, i, k1, x.mux), i)
        BY <2>2, <3>1
      <3>3. /\ k1 \in ConnT /\ k1.sid = k.sid /\ k1.m2s = k.m2s /\ k1.s2m = k.s2m
            /\ k1.sock_eof = k.sock_eof /\ k1.stream_fin = k.stream_fin
            /\ k1.send_blocked = k.send_blocked
        BY Zenon, <1>2 DEF ConnT
      <3> HIDE DEF k1, z
      <3>4. ~x.mux.dead => Tracks(k1, x.mux.tab[k1.sid], x.mux.evq)
        BY Zenon, <1>1, <3>3 DEF Tracked, Tracks, Follows, LifeOf, FinIsLast
      <3>5. Flagged(k1) /\ SameBut(x.mux, x.mux, k1.sid) /\ k1.sid = x.conns[i].sid
        BY <1>1, <3>3 DEF Flagged, SameBut
      <3> QED
        BY <1>1, <1>2, <3>2, <3>3, <3>4, <3>5, PutStep
    <2> QED
      BY <2>1, <2>2
  <1>4. \/ y = reset_conn(x, i) \/ y = reset_conn(z, i)
        \/ \E w \in Writes(z.conns[i]) : y = conn_maybe_finish(flush_to_socket(z, i, w), i)
    BY Zenon DEF on_sock_writable
  <1> HIDE DEF z
  <1>5. CASE y = reset_conn(x, i) \/ y = reset_conn(z, i)
    BY <1>1, <1>3, <1>5, ResetConn
  <1>6. ASSUME NEW w \in Writes(z.conns[i]), y = conn_maybe_finish(flush_to_socket(z, i, w), i)
        PROVE  Good(y) /\ y.mux.evq = x.mux.evq /\ y.mux.dead = x.mux.dead
    <2> DEFINE u == flush_to_socket(z, i, w)
    <2>1. /\ Loose(u, i) /\ Tracked(u, i) /\ Registered(u.conns[i]) /\ Flagged(u.conns[i])
          /\ u.mux.evq = z.mux.evq /\ u.mux.dead = z.mux.dead
      BY <1>3, FlushToSocket
    <2> HIDE DEF u
    <2>2. Good(conn_maybe_finish(u, i)) /\ conn_maybe_finish(u, i).mux = u.mux
      BY <2>1, MaybeFinish
    <2> QED
      BY <1>3, <1>6, <2>1, <2>2 DEF u
  <1> QED
    BY <1>4, <1>5, <1>6

-----------------------------------------------------------------------------
\* A queue that holds nothing of a stream adds no bytes to it.
LEMMA AddsNone ==
  ASSUME NEW q \in Seq(Event), NEW sid, \A j \in 1 .. Len(q) : q[j].sid # sid
  PROVE  Adds(q, sid, 0, 0)
  <1> DEFINE f == [j \in 0 .. Len(q) |-> 0]
  <1>1. Len(q) \in Nat
    OBVIOUS
  <1>2. f \in [0 .. Len(q) -> Int] /\ f[0] = 0 /\ f[Len(q)] = 0
    BY <1>1
  <1>3. ASSUME NEW j \in 1 .. Len(q) PROVE f[j] = f[j - 1] + BytesOf(q[j], sid)
    <2>1. BytesOf(q[j], sid) = 0
      BY DEF BytesOf
    <2>2. j \in 0 .. Len(q) /\ j - 1 \in 0 .. Len(q)
      BY <1>1
    <2> QED
      BY <2>1, <2>2
  <1> HIDE DEF f
  <1> QED
    BY <1>2, <1>3 DEF Adds

\* What a frame of stream sid does to whoever tracks the stream.
Carries(t, q, t2, q2, sid) ==
  \A k : k.sid = sid /\ (k.sock_eof => ~k.send_blocked) /\ Tracks(k, t, q) => Tracks(k, t2, q2)

\* A DATA frame adds to held what it adds to the queue.
LEMMA DataCarries ==
  ASSUME NEW q \in Seq(Event), NEW sid \in Sids, NEW n \in Nat, NEW t \in StreamT,
         t.life \in {"OPEN", "HCL_LOCAL"}, NEW t2, t2.life = t.life, t2.held = t.held + n,
         t2.send_blocked = t.send_blocked
  PROVE  Carries(t, q, t2, Append(q, Ev("STREAM_DATA", sid, n)), sid)
  <1> DEFINE ev == Ev("STREAM_DATA", sid, n)
             p == Append(q, ev)
  <1>1. ev \in Event /\ ev.type = "STREAM_DATA" /\ ev.sid = sid /\ ev.n = n
    BY DEF Ev, Event, EventType, Sids
  <1> HIDE DEF ev
  <1>2. SUFFICES ASSUME NEW k, k.sid = sid, Tracks(k, t, q) PROVE Tracks(k, t2, p)
    BY DEF Carries, ev
  <1>3. \A type \in {"STREAM_CLOSED", "STREAM_RESET", "WRITABLE"} :
          Coming(p, type, sid) <=> Coming(q, type, sid)
    BY <1>1, ComingAppend
  <1>4. ~k.stream_fin /\ ~Coming(q, "STREAM_CLOSED", sid)
    BY <1>2 DEF Tracks, Follows, LifeOf
  <1>5. Adds(p, sid, k.m2s, t2.held)
    <2>1. Adds(q, sid, k.m2s, t.held)
      BY <1>2 DEF Tracks, Follows
    <2>2. BytesOf(ev, sid) = n
      BY <1>1 DEF BytesOf
    <2> QED
      BY <1>1, <2>1, <2>2, AddsAppend
  <1>6. FinIsLast(k, p)
    <2>1. \A j \in 1 .. Len(q) : ~(q[j].type = "STREAM_CLOSED" /\ q[j].sid = sid)
      BY <1>4 DEF Coming
    <2>2. Len(p) = Len(q) + 1 /\ p[Len(p)] = ev /\ \A j \in 1 .. Len(q) : p[j] = q[j]
      BY <1>1
    <2>3. \A j \in 1 .. Len(p) : j \in 1 .. Len(q) \/ j = Len(p)
      BY <2>2
    <2> QED
      BY <1>1, <1>2, <1>4, <2>1, <2>2, <2>3 DEF FinIsLast
  <1> HIDE DEF p
  <1> QED
    BY <1>2, <1>3, <1>5, <1>6 DEF Tracks, Follows, LifeOf

\* A FIN moves the stream as the CLOSED event will move the connection.
LEMMA FinCarries ==
  ASSUME NEW q \in Seq(Event), NEW sid \in Sids, NEW t \in StreamT,
         t.life \in {"OPEN", "HCL_LOCAL"}, NEW t2,
         t.life = "OPEN" => /\ t2.life = "HCL_REMOTE" /\ t2.held = t.held
                            /\ t2.send_blocked = t.send_blocked,
         t.life = "HCL_LOCAL" => t2.life = "NONE"
  PROVE  Carries(t, q, t2, Append(q, Ev("STREAM_CLOSED", sid, 0)), sid)
  <1> DEFINE ev == Ev("STREAM_CLOSED", sid, 0)
             p == Append(q, ev)
  <1>1. ev \in Event /\ ev.type = "STREAM_CLOSED" /\ ev.sid = sid
    BY DEF Ev, Event, EventType, Sids
  <1> HIDE DEF ev
  <1>2. SUFFICES ASSUME NEW k, k.sid = sid, k.sock_eof => ~k.send_blocked, Tracks(k, t, q)
                 PROVE  Tracks(k, t2, p)
    BY DEF Carries, ev
  <1>3. /\ \A type \in {"STREAM_RESET", "WRITABLE"} : Coming(p, type, sid) <=> Coming(q, type, sid)
        /\ Coming(p, "STREAM_CLOSED", sid)
    BY <1>1, ComingAppend
  <1>4. /\ ~k.stream_fin /\ ~Coming(q, "STREAM_CLOSED", sid) /\ ~Coming(q, "STREAM_RESET", sid)
        /\ k.sock_eof <=> t.life = "HCL_LOCAL"
    BY <1>2 DEF Tracks, Follows, LifeOf
  <1>5. t.life = "OPEN" => Adds(p, sid, k.m2s, t2.held)
    <2>1. Adds(q, sid, k.m2s, t.held)
      BY <1>2 DEF Tracks, Follows
    <2>2. BytesOf(ev, sid) = 0 /\ t.held + 0 = t.held
      BY <1>1 DEF BytesOf, StreamT
    <2> QED
      BY <1>1, <2>1, <2>2, AddsAppend
  <1>6. FinIsLast(k, p)
    <2>1. \A j \in 1 .. Len(q) : ~(q[j].type = "STREAM_CLOSED" /\ q[j].sid = sid)
      BY <1>4 DEF Coming
    <2>2. Len(p) = Len(q) + 1 /\ p[Len(p)] = ev /\ \A j \in 1 .. Len(q) : p[j] = q[j]
      BY <1>1
    <2>3. \A j \in 1 .. Len(p) : j \in 1 .. Len(q) \/ j = Len(p)
      BY <2>2
    <2>4. \A j \in Len(p) + 1 .. Len(p) : FALSE
      BY <2>2
    <2> QED
      BY <1>1, <1>2, <1>4, <2>1, <2>2, <2>3, <2>4 DEF FinIsLast
  <1> HIDE DEF p
  <1> QED
    BY <1>2, <1>3, <1>4, <1>5, <1>6 DEF Tracks, Follows, LifeOf

\* An event that is neither DATA nor CLOSED does not come after the last.
LEMMA OtherFinIsLast ==
  ASSUME NEW q \in Seq(Event), NEW ev \in Event, NEW k, FinIsLast(k, q),
         ev.type \notin {"STREAM_DATA", "STREAM_CLOSED"}
  PROVE  FinIsLast(k, Append(q, ev))
  <1> DEFINE p == Append(q, ev)
  <1>1. Len(p) = Len(q) + 1 /\ p[Len(p)] = ev /\ \A j \in 1 .. Len(q) : p[j] = q[j]
    OBVIOUS
  <1>2. \A j \in 1 .. Len(p) : j \in 1 .. Len(q) \/ j = Len(p)
    BY <1>1
  <1> HIDE DEF p
  <1>3. FinIsLast(k, p)
    BY <1>1, <1>2 DEF FinIsLast
  <1> QED
    BY <1>3 DEF p

\* A RST ends the stream as the RESET event will end the connection.
LEMMA RstCarries ==
  ASSUME NEW q \in Seq(Event), NEW sid \in Sids, NEW t, NEW t2, t2.life = "NONE"
  PROVE  Carries(t, q, t2, Append(q, Ev("STREAM_RESET", sid, 0)), sid)
  <1> DEFINE ev == Ev("STREAM_RESET", sid, 0)
             p == Append(q, ev)
  <1>1. ev \in Event /\ ev.type = "STREAM_RESET" /\ ev.sid = sid
    BY DEF Ev, Event, EventType, Sids
  <1> HIDE DEF ev
  <1>2. SUFFICES ASSUME NEW k, k.sid = sid, Tracks(k, t, q) PROVE Tracks(k, t2, p)
    BY DEF Carries, ev
  <1>3. Coming(p, "STREAM_RESET", sid)
    BY <1>1, ComingAppend
  <1>4. FinIsLast(k, p)
    BY <1>1, <1>2, OtherFinIsLast DEF Tracks, Follows
  <1> HIDE DEF p
  <1> QED
    BY <1>2, <1>3, <1>4 DEF Tracks, Follows, LifeOf

\* Credit clears send_blocked and announces it with WRITABLE.
LEMMA CreditCarries ==
  ASSUME NEW q \in Seq(Event), NEW sid \in Sids, NEW t \in StreamT, NEW t2,
         t2.life = t.life, t2.held = t.held
  PROVE  Carries(t, q, t2, Append(q, Ev("WRITABLE", sid, 0)), sid)
  <1> DEFINE ev == Ev("WRITABLE", sid, 0)
             p == Append(q, ev)
  <1>1. ev \in Event /\ ev.type = "WRITABLE" /\ ev.sid = sid
    BY DEF Ev, Event, EventType, Sids
  <1> HIDE DEF ev
  <1>2. SUFFICES ASSUME NEW k, k.sid = sid, Tracks(k, t, q) PROVE Tracks(k, t2, p)
    BY DEF Carries, ev
  <1>3. /\ \A type \in {"STREAM_RESET", "STREAM_CLOSED"} : Coming(p, type, sid) <=> Coming(q, type, sid)
        /\ Coming(p, "WRITABLE", sid)
    BY <1>1, ComingAppend
  <1>4. FinIsLast(k, p)
    BY <1>1, <1>2, OtherFinIsLast DEF Tracks, Follows
  <1>5. t.life # "NONE" => Adds(p, sid, k.m2s, t.held)
    <2>1. BytesOf(ev, sid) = 0 /\ t.held + 0 = t.held
      BY <1>1 DEF BytesOf, StreamT
    <2> QED
      BY <1>1, <1>2, <2>1, AddsAppend DEF Tracks, Follows
  <1> HIDE DEF p
  <1> QED
    BY <1>2, <1>3, <1>4, <1>5 DEF Tracks, Follows, LifeOf

\* The relay with another session.
WithMux(x, m) == [x EXCEPT !.mux = m]

\* Replacing the session leaves connections, slots and counts alone.
LEMMA SetMux ==
  ASSUME NEW x \in RelayT, NEW m \in MuxT, NEW y, y = WithMux(x, m)
  PROVE  /\ y \in RelayT /\ y.mux = m /\ y.conns = x.conns /\ Used(y) = Used(x)
         /\ y.freelist = x.freelist /\ y.role = x.role /\ y.nactive = x.nactive
         /\ y.listen_paused = x.listen_paused
         /\ Slots(x) => Slots(y)
         /\ Count(x) => Count(y)
  <1>1. /\ y \in RelayT /\ y.mux = m /\ y.conns = x.conns
        /\ y.freelist = x.freelist /\ y.role = x.role /\ y.nactive = x.nactive
        /\ y.listen_paused = x.listen_paused
    BY DEF RelayT, WithMux
  <1> QED
    BY <1>1 DEF Used, Slots, Count, Backend

\* Queueing an event keeps the session typed.
LEMMA QueueTyped ==
  ASSUME NEW m \in MuxT, NEW type \in EventType, NEW sid \in 0 .. MaxSid, NEW n \in Nat
  PROVE  /\ Ev(type, sid, n) \in Event /\ Ev(type, sid, n).type = type /\ Ev(type, sid, n).sid = sid
         /\ Queue(m, type, sid, n) \in MuxT
         /\ Queue(m, type, sid, n).evq = Append(m.evq, Ev(type, sid, n))
         /\ Queue(m, type, sid, n).tab = m.tab /\ Queue(m, type, sid, n).next_sid = m.next_sid
         /\ Queue(m, type, sid, n).dead = m.dead
         /\ Queue(m, type, sid, n).unconsumed = m.unconsumed
  <1> DEFINE ev == Ev(type, sid, n)
  <1>1. ev \in Event /\ ev.type = type /\ ev.sid = sid
    BY DEF Ev, Event
  <1> HIDE DEF ev
  <1>2. Append(m.evq, ev) \in Seq(Event)
    BY <1>1 DEF MuxT
  <1>3. Queue(m, type, sid, n) = [m EXCEPT !.evq = Append(m.evq, ev)]
    BY DEF Queue, ev
  <1>4. /\ Queue(m, type, sid, n) \in MuxT
        /\ Queue(m, type, sid, n).evq = Append(m.evq, ev)
        /\ Queue(m, type, sid, n).tab = m.tab /\ Queue(m, type, sid, n).next_sid = m.next_sid
        /\ Queue(m, type, sid, n).dead = m.dead
        /\ Queue(m, type, sid, n).unconsumed = m.unconsumed
    BY Zenon, <1>2, <1>3 DEF MuxT
  <1> QED
    BY <1>1, <1>4 DEF ev

\* A frame of stream sid: its event is queued and the entry of the stream becomes t.
Heard(m, type, sid, n, t, u) ==
  [Queue(m, type, sid, n) EXCEPT !.tab[sid] = t, !.unconsumed = u]

\* m2 is m after a frame: ev is queued and the entry of its stream is t.
Hears(m, m2, ev, t) ==
  /\ m2 \in MuxT /\ ev \in Event /\ m2.evq = Append(m.evq, ev)
  /\ m2.next_sid = m.next_sid /\ m2.dead = m.dead
  /\ \A s \in Sids \ {ev.sid} : m2.tab[s] = m.tab[s]
  /\ ev.sid \in Sids => m2.tab[ev.sid] = t

\* The fields of an event.
LEMMA EvTyped ==
  ASSUME NEW type \in EventType, NEW sid \in 0 .. MaxSid, NEW n \in Nat
  PROVE  Ev(type, sid, n) \in Event /\ Ev(type, sid, n).type = type /\ Ev(type, sid, n).sid = sid
  BY DEF Ev, Event

\* Heard does what Hears says.
LEMMA QueueSet ==
  ASSUME NEW m \in MuxT, NEW type \in EventType, NEW sid \in Sids, NEW n \in Nat,
         NEW t \in StreamT, NEW u \in Int
  PROVE  Hears(m, Heard(m, type, sid, n, t, u), Ev(type, sid, n), t)
  <1> DEFINE p == Queue(m, type, sid, n)
             ev == Ev(type, sid, n)
             m2 == Heard(m, type, sid, n, t, u)
  <1>1. sid \in 0 .. MaxSid
    BY DEF Sids
  <1>2. /\ ev \in Event /\ ev.sid = sid /\ p \in MuxT /\ p.evq = Append(m.evq, ev)
        /\ p.tab = m.tab /\ p.next_sid = m.next_sid /\ p.dead = m.dead
    BY <1>1, QueueTyped
  <1>3. m2 = [p EXCEPT !.tab[sid] = t, !.unconsumed = u] /\ p \in MuxT
    BY <1>2 DEF Heard
  <1> HIDE DEF p, ev, m2
  <1>4. /\ m2 \in MuxT /\ m2.evq = p.evq /\ m2.tab = [p.tab EXCEPT ![sid] = t]
        /\ m2.next_sid = p.next_sid /\ m2.dead = p.dead
    BY Zenon, <1>3 DEF MuxT
  <1>5. m.tab \in [Sids -> StreamT]
    BY DEF MuxT
  <1>6. Hears(m, m2, ev, t)
    BY <1>2, <1>4, <1>5 DEF Hears
  <1> QED
    BY <1>6 DEF ev, m2

\* A frame that carries tracking over for its own stream leaves every
\* connection and every stream that is still to be announced tracked.
LEMMA Received ==
  ASSUME NEW x, Good(x), ~x.mux.dead, NEW m, NEW ev, NEW t, Hears(x.mux, m, ev, t),
         ev.type # "STREAM_OPENED", ev.sid < x.mux.next_sid,
         ev.sid \in Sids => Carries(x.mux.tab[ev.sid], x.mux.evq, t, m.evq, ev.sid)
  PROVE  Good(WithMux(x, m)) /\ ~m.dead
  <1> DEFINE y == WithMux(x, m)
             q == x.mux.evq
  <1>0. /\ m \in MuxT /\ ev \in Event /\ m.evq = Append(x.mux.evq, ev) /\ ~m.dead
        /\ m.next_sid = x.mux.next_sid /\ \A s \in Sids \ {ev.sid} : m.tab[s] = x.mux.tab[s]
        /\ ev.sid \in Sids => m.tab[ev.sid] = t
    BY DEF Hears
  <1>1. /\ x \in RelayT /\ x.mux \in MuxT /\ q \in Seq(Event) /\ Streams(x, 0)
        /\ \A s \in Sids : x.mux.tab[s] \in StreamT /\ x.mux.tab[s].held \in Int
        /\ x.mux.next_sid \in Nat
    BY DEF Good, RelayT, MuxT, StreamT
  <1>2. /\ y \in RelayT /\ y.mux = m /\ y.conns = x.conns /\ Used(y) = Used(x)
        /\ Slots(y) /\ Count(y)
    BY <1>0, <1>1, SetMux DEF Good
  <1> HIDE DEF y
  <1>3. ASSUME NEW k, k.sid \in Sids, k.sock_eof => ~k.send_blocked,
               Tracks(k, x.mux.tab[k.sid], q)
        PROVE  Tracks(k, m.tab[k.sid], m.evq)
    <2>1. CASE k.sid = ev.sid
      BY <1>0, <1>3, <2>1 DEF Carries
    <2>2. CASE k.sid # ev.sid
      <3>1. m.tab[k.sid] = x.mux.tab[k.sid] /\ x.mux.tab[k.sid].held \in Int
        BY <1>0, <1>1, <1>3, <2>2
      <3> QED
        BY <1>0, <1>1, <1>3, <2>2, <3>1, TracksAppend
    <2> QED
      BY <2>1, <2>2
  <1>4. ConnsTrack(y, 0)
    <2>1. ASSUME NEW i \in Used(x)
          PROVE  /\ x.conns[i].sid < m.next_sid
                 /\ Tracks(x.conns[i], m.tab[x.conns[i].sid], m.evq)
      <3>1. x.conns[i] \in ConnT /\ x.conns[i].sid \in Sids /\ x.conns[i].sid # 0
        BY <1>1 DEF RelayT, Used, ConnT, Sids
      <3>2. x.conns[i].sock_eof => ~x.conns[i].send_blocked
        BY <3>1 DEF Good, Kept, Flagged, ConnT
      <3>3. Tracks(x.conns[i], x.mux.tab[x.conns[i].sid], q) /\ x.conns[i].sid < m.next_sid
        BY <1>0, <1>1, <3>1 DEF Streams, ConnsTrack
      <3> QED
        BY <1>3, <3>1, <3>2, <3>3
    <2> QED
      BY <1>2, <2>1 DEF ConnsTrack
  <1>5. OnePerStream(y)
    BY <1>1, <1>2 DEF Streams, OnePerStream
  <1>6. Len(m.evq) = Len(q) + 1 /\ m.evq[Len(q) + 1] = ev /\ \A j \in 1 .. Len(q) : m.evq[j] = q[j]
    BY <1>0, <1>1
  <1>7. OpenedTrack(y)
    <2>1. SUFFICES ASSUME NEW j \in 1 .. Len(m.evq), NEW sid, sid = m.evq[j].sid,
                          m.evq[j].type = "STREAM_OPENED"
                   PROVE  /\ sid \in Sids
                          /\ \A i \in Used(x) : x.conns[i].sid # sid
                          /\ \A l \in 1 .. j - 1 : m.evq[l].sid # sid
                          /\ Tracks(Fresh(sid), m.tab[sid], m.evq)
      BY <1>2 DEF OpenedTrack
    <2>2. j \in 1 .. Len(q) /\ m.evq[j] = q[j] /\ \A l \in 1 .. j - 1 : m.evq[l] = q[l]
      BY <1>0, <1>1, <1>6, <2>1
    <2>3. /\ sid \in Sids
          /\ \A i \in Used(x) : x.conns[i].sid # sid
          /\ \A l \in 1 .. j - 1 : q[l].sid # sid
          /\ Tracks(Fresh(sid), x.mux.tab[sid], q)
      BY <1>1, <2>1, <2>2 DEF Streams, OpenedTrack
    <2>4. Fresh(sid).sid = sid /\ ~Fresh(sid).send_blocked
      BY DEF Fresh
    <2>5. Tracks(Fresh(sid), m.tab[sid], m.evq)
      BY <1>3, <2>3, <2>4
    <2> QED
      BY <2>2, <2>3, <2>5
  <1>8. NextUnused(m)
    <2>1. NextUnused(x.mux)
      BY <1>1 DEF Streams
    <2>2. ev.sid \in Nat
      BY <1>0 DEF Event
    <2> QED
      BY <1>0, <1>1, <1>6, <2>1, <2>2 DEF NextUnused, Sids
  <1>9. \A i \in Used(y) : Kept(y.conns[i])
    BY <1>2 DEF Good
  <1> QED
    BY <1>0, <1>2, <1>4, <1>5, <1>7, <1>8, <1>9 DEF Good, Streams, y

\* A stream in use has an id below the next one.
LEMMA LiveIsUsed ==
  ASSUME NEW x, Good(x), ~x.mux.dead, NEW sid \in Sids,
         x.mux.tab[sid].life # "NONE" \/ x.mux.tab[sid].send_blocked
  PROVE  sid < x.mux.next_sid
  <1>1. NextUnused(x.mux) /\ x.mux.next_sid \in Nat /\ sid \in Nat
    BY DEF Good, Streams, RelayT, MuxT, Sids
  <1> QED
    BY <1>1 DEF NextUnused, NoStream

\* A relay stays good when its session hears such a frame.
LEMMA HeardIsGood ==
  ASSUME NEW x, Good(x), ~x.mux.dead, NEW sid \in Sids, NEW type \in EventType,
         type # "STREAM_OPENED", NEW n \in Nat, NEW t \in StreamT, NEW u \in Int,
         x.mux.tab[sid].life # "NONE" \/ x.mux.tab[sid].send_blocked,
         Carries(x.mux.tab[sid], x.mux.evq, t, Append(x.mux.evq, Ev(type, sid, n)), sid),
         NEW m, m = Heard(x.mux, type, sid, n, t, u)
  PROVE  Good(WithMux(x, m)) /\ ~m.dead
  <1>1. x.mux \in MuxT /\ sid \in 0 .. MaxSid
    BY DEF Good, RelayT, Sids
  <1>2. Hears(x.mux, m, Ev(type, sid, n), t)
    BY <1>1, QueueSet
  <1>3. m.evq = Append(x.mux.evq, Ev(type, sid, n))
    BY <1>2 DEF Hears
  <1>4. Ev(type, sid, n).type = type /\ Ev(type, sid, n).sid = sid
    BY <1>1, EvTyped
  <1>5. sid < x.mux.next_sid
    BY LiveIsUsed
  <1> QED
    BY Zenon, <1>2, <1>3, <1>4, <1>5, Received

\* The session of a good relay is typed.
LEMMA MuxOf ==
  ASSUME NEW x, Good(x), NEW sid \in Sids
  PROVE  /\ x.mux \in MuxT /\ x.mux.tab[sid] \in StreamT /\ x.mux.unconsumed \in Int
         /\ x.mux.evq \in Seq(Event) /\ sid \in 0 .. MaxSid
  <1>1. x.mux \in MuxT
    BY DEF Good, RelayT
  <1>2. sid \in 0 .. MaxSid
    BY DEF Sids
  <1> QED
    BY <1>1, <1>2 DEF MuxT

\* The entry of a stream is replaced after its event was queued.
LEMMA QueueThen ==
  ASSUME NEW m \in MuxT, NEW type \in EventType, NEW sid \in Sids, NEW n \in Nat, NEW t
  PROVE  [Queue(m, type, sid, n) EXCEPT !.tab[sid] = t]
           = Heard(m, type, sid, n, t, m.unconsumed)
  <1> DEFINE p == Queue(m, type, sid, n)
  <1>1. sid \in 0 .. MaxSid
    BY DEF Sids
  <1>2. p \in MuxT /\ p.unconsumed = m.unconsumed
    BY <1>1, QueueTyped
  <1> HIDE DEF p
  <1>3. [p EXCEPT !.tab[sid] = t] = [p EXCEPT !.tab[sid] = t, !.unconsumed = m.unconsumed]
    BY Zenon, <1>2 DEF MuxT
  <1> QED
    BY <1>3 DEF p, Heard

\* mux_recv of a DATA frame.
LEMMA RecvData ==
  ASSUME NEW x, Good(x), NEW sid \in Sids, NEW n \in Nat, NEW m \in recv_data(x.mux, sid, n)
  PROVE  Good(WithMux(x, m)) /\ ~m.dead
  <1> DEFINE t == x.mux.tab[sid]
             t2 == [t EXCEPT !.held = @ + n]
             u == x.mux.unconsumed + n
             p == Queue(x.mux, "STREAM_DATA", sid, n)
  <1>1. /\ ~x.mux.dead /\ t.life \in {"OPEN", "HCL_LOCAL"}
        /\ m = [p EXCEPT !.tab[sid].held = @ + n, !.unconsumed = @ + n]
    BY DEF recv_data, When, PeerSends, CanHear
  <1>2. /\ x.mux \in MuxT /\ t \in StreamT /\ x.mux.unconsumed \in Int
        /\ x.mux.evq \in Seq(Event) /\ sid \in 0 .. MaxSid /\ "STREAM_DATA" \in EventType
    BY MuxOf DEF EventType
  <1>3. /\ t2 \in StreamT /\ u \in Int
        /\ t2.life = t.life /\ t2.held = t.held + n /\ t2.send_blocked = t.send_blocked
    BY <1>2 DEF StreamT
  <1>4. p.tab = x.mux.tab /\ p.unconsumed = x.mux.unconsumed /\ p \in MuxT
    BY <1>2, QueueTyped
  <1> HIDE DEF p
  <1>5. m = [p EXCEPT !.tab[sid] = t2, !.unconsumed = u]
    BY <1>1, <1>4 DEF MuxT
  <1> HIDE DEF t2, u
  <1>6. m = Heard(x.mux, "STREAM_DATA", sid, n, t2, u)
    BY <1>5 DEF p, Heard
  <1>7. Carries(t, x.mux.evq, t2, Append(x.mux.evq, Ev("STREAM_DATA", sid, n)), sid)
    BY <1>1, <1>2, <1>3, DataCarries
  <1>8. ~x.mux.dead /\ (t.life # "NONE" \/ t.send_blocked)
    BY <1>1
  <1> QED
    BY <1>2, <1>3, <1>6, <1>7, <1>8, HeardIsGood

\* mux_recv of a FIN.
LEMMA RecvFin ==
  ASSUME NEW x, Good(x), NEW sid \in Sids, NEW m \in recv_fin(x.mux, sid)
  PROVE  Good(WithMux(x, m)) /\ ~m.dead
  <1> DEFINE t == x.mux.tab[sid]
             t2 == IF t.life = "OPEN" THEN [t EXCEPT !.life = "HCL_REMOTE"] ELSE NoStream
             p == Queue(x.mux, "STREAM_CLOSED", sid, 0)
  <1>1. /\ ~x.mux.dead /\ t.life \in {"OPEN", "HCL_LOCAL"}
        /\ m = [p EXCEPT !.tab[sid] = IF @.life = "OPEN" THEN [@ EXCEPT !.life = "HCL_REMOTE"]
                                      ELSE NoStream]
    BY DEF recv_fin, When, PeerSends, CanHear
  <1>2. /\ x.mux \in MuxT /\ t \in StreamT /\ x.mux.unconsumed \in Int
        /\ x.mux.evq \in Seq(Event) /\ sid \in 0 .. MaxSid /\ "STREAM_CLOSED" \in EventType
    BY MuxOf DEF EventType
  <1>3. /\ t2 \in StreamT
        /\ t.life = "OPEN" => /\ t2.life = "HCL_REMOTE" /\ t2.held = t.held
                              /\ t2.send_blocked = t.send_blocked
        /\ t.life = "HCL_LOCAL" => t2.life = "NONE"
    BY <1>2, NoStreamTyped DEF StreamT, Life
  <1>4. p.tab = x.mux.tab
    BY <1>2, QueueTyped
  <1>5. m = [p EXCEPT !.tab[sid] = t2]
    BY <1>1, <1>4
  <1> HIDE DEF t2
  <1>6. m = Heard(x.mux, "STREAM_CLOSED", sid, 0, t2, x.mux.unconsumed)
    BY Zenon, <1>2, <1>5, QueueThen
  <1>7. Carries(t, x.mux.evq, t2, Append(x.mux.evq, Ev("STREAM_CLOSED", sid, 0)), sid)
    BY <1>1, <1>2, <1>3, FinCarries
  <1>8. ~x.mux.dead /\ (t.life # "NONE" \/ t.send_blocked)
    BY <1>1
  <1> QED
    BY <1>2, <1>3, <1>6, <1>7, <1>8, HeardIsGood

\* mux_recv of a RST.
LEMMA RecvRst ==
  ASSUME NEW x, Good(x), NEW sid \in Sids, NEW m \in recv_rst(x.mux, sid)
  PROVE  Good(WithMux(x, m)) /\ ~m.dead
  <1>1. /\ ~x.mux.dead /\ x.mux.tab[sid].life # "NONE"
        /\ m = [Queue(x.mux, "STREAM_RESET", sid, 0) EXCEPT !.tab[sid] = NoStream]
    BY DEF recv_rst, When, CanHear, Live
  <1>2. /\ x.mux \in MuxT /\ x.mux.unconsumed \in Int
        /\ x.mux.evq \in Seq(Event) /\ "STREAM_RESET" \in EventType
    BY MuxOf DEF EventType
  <1>3. m = Heard(x.mux, "STREAM_RESET", sid, 0, NoStream, x.mux.unconsumed)
    BY Zenon, <1>1, <1>2, QueueThen
  <1>4. Carries(x.mux.tab[sid], x.mux.evq, NoStream,
                Append(x.mux.evq, Ev("STREAM_RESET", sid, 0)), sid)
    BY <1>2, NoStreamTyped, RstCarries
  <1>5. ~x.mux.dead /\ x.mux.tab[sid].life # "NONE" /\ NoStream \in StreamT
    BY <1>1, NoStreamTyped
  <1> QED
    BY <1>2, <1>3, <1>4, <1>5, HeardIsGood

\* mux_recv of a WINDOW_UPDATE that a blocked stream waited for.
LEMMA RecvCredit ==
  ASSUME NEW x, Good(x), NEW sid \in Sids, NEW m \in recv_credit(x.mux, sid)
  PROVE  Good(WithMux(x, m)) /\ ~m.dead
  <1> DEFINE t == x.mux.tab[sid]
             t2 == [t EXCEPT !.send_blocked = FALSE]
             p == Queue(x.mux, "WRITABLE", sid, 0)
  <1>1. /\ ~x.mux.dead /\ t.send_blocked
        /\ m = [p EXCEPT !.tab[sid].send_blocked = FALSE]
    BY DEF recv_credit, When, CanHear
  <1>2. /\ x.mux \in MuxT /\ t \in StreamT /\ x.mux.unconsumed \in Int
        /\ x.mux.evq \in Seq(Event) /\ sid \in 0 .. MaxSid /\ "WRITABLE" \in EventType
    BY MuxOf DEF EventType
  <1>3. t2 \in StreamT /\ t2.life = t.life /\ t2.held = t.held
    BY Zenon, <1>2 DEF StreamT
  <1>4. p.tab = x.mux.tab
    BY <1>2, QueueTyped
  <1>5. m = [p EXCEPT !.tab[sid] = t2]
    BY Zenon, <1>1, <1>4
  <1> HIDE DEF t2
  <1>6. m = Heard(x.mux, "WRITABLE", sid, 0, t2, x.mux.unconsumed)
    BY Zenon, <1>2, <1>5, QueueThen
  <1>7. Carries(t, x.mux.evq, t2, Append(x.mux.evq, Ev("WRITABLE", sid, 0)), sid)
    BY <1>2, <1>3, CreditCarries
  <1>8. ~x.mux.dead /\ (t.life # "NONE" \/ t.send_blocked)
    BY <1>1
  <1> QED
    BY <1>2, <1>3, <1>6, <1>7, <1>8, HeardIsGood

\* mux_recv of the greeting.
LEMMA RecvHello ==
  ASSUME NEW x, Good(x), NEW n \in Nat, NEW m \in recv_hello(x.mux, n)
  PROVE  Good(WithMux(x, m)) /\ ~m.dead
  <1> DEFINE p == Queue(x.mux, "PEER_HELLO", 0, n)
             ev == Ev("PEER_HELLO", 0, n)
  <1>1. ~x.mux.dead /\ m = [p EXCEPT !.greeted = TRUE]
    BY DEF recv_hello, When
  <1>2. x.mux \in MuxT /\ "PEER_HELLO" \in EventType /\ 0 \in 0 .. MaxSid /\ 0 \notin Sids
    BY HostMuxAssumption DEF Good, RelayT, EventType, Sids
  <1>3. /\ ev \in Event /\ ev.type = "PEER_HELLO" /\ ev.sid = 0
        /\ p \in MuxT /\ p.evq = Append(x.mux.evq, ev)
        /\ p.tab = x.mux.tab /\ p.next_sid = x.mux.next_sid /\ p.dead = x.mux.dead
    BY <1>2, QueueTyped
  <1> HIDE DEF p, ev
  <1>4. /\ m \in MuxT /\ m.evq = p.evq /\ m.tab = p.tab /\ m.next_sid = p.next_sid
        /\ m.dead = p.dead
    BY Zenon, <1>1, <1>3 DEF MuxT
  <1>5. Hears(x.mux, m, ev, NoStream)
    BY <1>2, <1>3, <1>4 DEF Hears
  <1>6. x.mux.next_sid \in Nat \ {0}
    BY <1>2 DEF MuxT
  <1>7. ev.sid < x.mux.next_sid /\ ev.sid \notin Sids /\ ev.type # "STREAM_OPENED"
    BY <1>2, <1>3, <1>6
  <1>8. ~x.mux.dead
    BY <1>1
  <1> QED
    BY <1>5, <1>7, <1>8, Received

\* mux_open on a session whose next stream id is free.
LEMMA MuxOpen ==
  ASSUME NEW m \in MuxT, m.next_sid <= MaxSid, m.tab[m.next_sid] = NoStream
  PROVE  /\ mux_open(m) \in MuxT /\ m.next_sid \in Sids
         /\ mux_open(m).next_sid = m.next_sid + 1 /\ mux_open(m).evq = m.evq
         /\ mux_open(m).dead = m.dead
         /\ mux_open(m).tab[m.next_sid].life = "OPEN" /\ mux_open(m).tab[m.next_sid].held = 0
         /\ \A s \in Sids \ {m.next_sid} : mux_open(m).tab[s] = m.tab[s]
  <1> DEFINE t2 == [NoStream EXCEPT !.life = "OPEN"]
  <1>1. m.next_sid \in Nat \ {0} /\ m.next_sid \in Sids
    BY HostMuxAssumption DEF MuxT, Sids
  <1>2. t2 \in StreamT /\ t2.life = "OPEN" /\ t2.held = 0
    <2>1. NoStream \in StreamT /\ NoStream.held = 0
      BY NoStreamTyped DEF NoStream
    <2> QED
      BY <2>1 DEF StreamT, Life
  <1>3. mux_open(m) = [m EXCEPT !.tab[m.next_sid] = t2, !.next_sid = m.next_sid + 1]
    BY DEF mux_open
  <1> HIDE DEF t2
  <1> DEFINE s == m.next_sid
             n1 == m.next_sid + 1
             tab2 == [m.tab EXCEPT ![s] = t2]
  <1>4. n1 \in Nat \ {0}
    BY <1>1
  <1>5. m.tab \in [Sids -> StreamT]
    BY DEF MuxT
  <1>6. /\ tab2 \in [Sids -> StreamT] /\ tab2[s] = t2
        /\ \A a \in Sids \ {s} : tab2[a] = m.tab[a]
    BY <1>1, <1>2, <1>5
  <1>7. mux_open(m) = [m EXCEPT !.tab = tab2, !.next_sid = n1]
    BY <1>3
  <1> HIDE DEF n1, tab2
  <1>8. /\ mux_open(m) \in MuxT /\ mux_open(m).next_sid = n1 /\ mux_open(m).evq = m.evq
        /\ mux_open(m).dead = m.dead /\ mux_open(m).tab = tab2
    BY ZenonT(30), <1>4, <1>6, <1>7 DEF MuxT
  <1> QED
    BY <1>1, <1>2, <1>6, <1>8 DEF n1

\* mux_recv of a SYN: the new stream is tracked by its OPENED event alone.
LEMMA RecvSyn ==
  ASSUME NEW x, Good(x), NEW m \in recv_syn(x.mux)
  PROVE  Good(WithMux(x, m)) /\ ~m.dead
  <1> DEFINE y == WithMux(x, m)
             q == x.mux.evq
             n == x.mux.next_sid
             p == mux_open(x.mux)
             ev == Ev("STREAM_OPENED", n, 0)
  <1>1. ~x.mux.dead /\ n <= MaxSid /\ m = Queue(p, "STREAM_OPENED", n, 0)
    BY DEF recv_syn, When, CanHear
  <1>2. /\ x \in RelayT /\ x.mux \in MuxT /\ q \in Seq(Event) /\ Streams(x, 0)
        /\ \A s \in Sids : x.mux.tab[s] \in StreamT /\ x.mux.tab[s].held \in Int
        /\ n \in Nat \ {0}
    BY Zenon, <1>1 DEF Good, RelayT, MuxT, StreamT
  <1>3. NextUnused(x.mux) /\ n \in Sids /\ x.mux.tab[n] = NoStream /\ n \in 0 .. MaxSid
    BY <1>1, <1>2, HostMuxAssumption DEF Streams, NextUnused, Sids
  <1>4. /\ p \in MuxT /\ p.next_sid = n + 1 /\ p.evq = q /\ p.dead = x.mux.dead
        /\ p.tab[n].life = "OPEN" /\ p.tab[n].held = 0
        /\ \A s \in Sids \ {n} : p.tab[s] = x.mux.tab[s]
    BY <1>1, <1>2, <1>3, MuxOpen
  <1> HIDE DEF p
  <1>5. /\ ev \in Event /\ ev.type = "STREAM_OPENED" /\ ev.sid = n
        /\ m \in MuxT /\ m.evq = Append(q, ev) /\ m.tab = p.tab /\ m.next_sid = n + 1 /\ ~m.dead
    <2>1. "STREAM_OPENED" \in EventType
      BY DEF EventType
    <2> HIDE DEF n
    <2>2. /\ ev \in Event /\ ev.type = "STREAM_OPENED" /\ ev.sid = n
          /\ m \in MuxT /\ m.evq = Append(p.evq, ev) /\ m.tab = p.tab
          /\ m.next_sid = p.next_sid /\ m.dead = p.dead
      <3>1. m = Queue(p, "STREAM_OPENED", n, 0) /\ p \in MuxT /\ n \in 0 .. MaxSid
        BY <1>1, <1>3, <1>4
      <3> QED
        BY <2>1, <3>1, QueueTyped
    <2> QED
      BY <1>1, <1>4, <2>2
  <1> HIDE DEF ev
  <1>6. /\ y \in RelayT /\ y.mux = m /\ y.conns = x.conns /\ Used(y) = Used(x)
        /\ Slots(y) /\ Count(y)
    BY <1>2, <1>5, SetMux DEF Good
  <1> HIDE DEF y
  <1>7. \A i \in Used(x) : /\ x.conns[i] \in ConnT /\ x.conns[i].sid \in Sids /\ x.conns[i].sid # 0
                           /\ x.conns[i].sid < n
                           /\ Tracks(x.conns[i], x.mux.tab[x.conns[i].sid], q)
    <2>1. \A i \in Used(x) : x.conns[i] \in ConnT /\ x.conns[i].sid \in Sids /\ x.conns[i].sid # 0
      BY <1>2 DEF RelayT, Used, ConnT, Sids
    <2> QED
      BY <1>2, <2>1 DEF Streams, ConnsTrack
  <1>8. ASSUME NEW k, k.sid \in Sids, k.sid # n, Tracks(k, x.mux.tab[k.sid], q)
        PROVE  Tracks(k, m.tab[k.sid], m.evq)
    <2>1. m.tab[k.sid] = x.mux.tab[k.sid] /\ x.mux.tab[k.sid].held \in Int
      BY <1>2, <1>4, <1>5, <1>8
    <2> QED
      BY <1>2, <1>5, <1>8, <2>1, TracksAppend
  <1>9. ConnsTrack(y, 0)
    <2>1. ASSUME NEW i \in Used(x)
          PROVE  /\ x.conns[i].sid < m.next_sid
                 /\ Tracks(x.conns[i], m.tab[x.conns[i].sid], m.evq)
      <3>1. x.conns[i].sid # n /\ x.conns[i].sid < n + 1
        BY <1>2, <1>7 DEF Sids
      <3> QED
        BY <1>5, <1>7, <1>8, <3>1
    <2> QED
      BY <1>6, <2>1 DEF ConnsTrack
  <1>10. OnePerStream(y)
    BY <1>2, <1>6 DEF Streams, OnePerStream
  <1>11. Len(m.evq) = Len(q) + 1 /\ m.evq[Len(q) + 1] = ev /\ \A j \in 1 .. Len(q) : m.evq[j] = q[j]
    BY <1>2, <1>5
  <1>12. \A j \in 1 .. Len(q) : q[j].sid \in Nat /\ q[j].sid < n /\ q[j].sid # n
    <2>1. \A j \in 1 .. Len(q) : q[j] \in Event
      BY <1>2
    <2>2. \A j \in 1 .. Len(q) : q[j].sid \in Nat
      BY <2>1 DEF Event
    <2> QED
      BY <1>2, <1>3, <2>2 DEF NextUnused
  <1>13. Tracks(Fresh(n), m.tab[n], m.evq)
    <2>1. /\ Fresh(n).sid = n /\ ~Fresh(n).sock_eof /\ ~Fresh(n).stream_fin
          /\ ~Fresh(n).send_blocked /\ Fresh(n).m2s = 0
      BY DEF Fresh
    <2>2. \A type \in {"STREAM_CLOSED", "STREAM_RESET"} : ~Coming(m.evq, type, n)
      <3>1. \A type : ~Coming(q, type, n)
        BY <1>12 DEF Coming
      <3> QED
        BY <1>2, <1>5, <3>1, ComingAppend
    <2>3. Adds(m.evq, n, 0, 0)
      <3>1. Adds(q, n, 0, 0)
        BY <1>2, <1>12, AddsNone
      <3>2. BytesOf(ev, n) = 0
        BY <1>5 DEF BytesOf
      <3>3. Adds(Append(q, ev), n, 0, 0 + 0)
        BY <1>2, <1>5, <3>1, <3>2, AddsAppend
      <3> QED
        BY <1>5, <3>3
    <2>4. FinIsLast(Fresh(n), m.evq)
      <3>1. FinIsLast(Fresh(n), q)
        BY <1>12, <2>1 DEF FinIsLast
      <3> QED
        BY <1>2, <1>5, <3>1, OtherFinIsLast
    <2> QED
      BY Zenon, <1>4, <1>5, <2>1, <2>2, <2>3, <2>4 DEF Tracks, Follows, LifeOf
  <1>14. OpenedTrack(y)
    <2>1. SUFFICES ASSUME NEW j \in 1 .. Len(m.evq), NEW sid, sid = m.evq[j].sid,
                          m.evq[j].type = "STREAM_OPENED"
                   PROVE  /\ sid \in Sids
                          /\ \A i \in Used(x) : x.conns[i].sid # sid
                          /\ \A l \in 1 .. j - 1 : m.evq[l].sid # sid
                          /\ Tracks(Fresh(sid), m.tab[sid], m.evq)
      BY <1>6 DEF OpenedTrack
    <2>2. CASE j = Len(q) + 1
      <3>1. sid = n /\ \A l \in 1 .. j - 1 : l \in 1 .. Len(q)
        BY <1>2, <1>5, <1>11, <2>1, <2>2
      <3> QED
        BY <1>2, <1>3, <1>7, <1>11, <1>12, <1>13, <3>1
    <2>3. CASE j \in 1 .. Len(q)
      <3>1. m.evq[j] = q[j] /\ \A l \in 1 .. j - 1 : m.evq[l] = q[l]
        BY <1>2, <1>11, <2>3
      <3>2. /\ sid \in Sids /\ sid # n
            /\ \A i \in Used(x) : x.conns[i].sid # sid
            /\ \A l \in 1 .. j - 1 : q[l].sid # sid
            /\ Tracks(Fresh(sid), x.mux.tab[sid], q)
        BY Zenon, <1>2, <1>12, <2>1, <2>3, <3>1 DEF Streams, OpenedTrack
      <3>3. Fresh(sid).sid = sid
        BY DEF Fresh
      <3>4. Tracks(Fresh(sid), m.tab[sid], m.evq)
        BY <1>8, <3>2, <3>3
      <3> QED
        BY <3>1, <3>2, <3>4
    <2> QED
      BY <1>2, <1>11, <2>2, <2>3
  <1>15. NextUnused(m)
    <2>1. \A j \in 1 .. Len(m.evq) : m.evq[j].sid < n + 1
      <3>1. \A j \in 1 .. Len(q) : q[j].sid < n + 1
        BY <1>2, <1>12
      <3> QED
        BY <1>2, <1>5, <1>11, <3>1
    <2>2. \A sid \in Sids : sid >= n + 1 => sid # n /\ sid >= n
      BY <1>2 DEF Sids
    <2> QED
      BY <1>3, <1>4, <1>5, <2>1, <2>2 DEF NextUnused
  <1>16. \A i \in Used(y) : Kept(y.conns[i])
    BY <1>6 DEF Good
  <1> QED
    BY <1>5, <1>6, <1>9, <1>10, <1>14, <1>15, <1>16 DEF Good, Streams, y
=============================================================================
