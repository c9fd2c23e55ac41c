---------------------------- MODULE RelayProofs ----------------------------
(***************************************************************************)
(* The inductive invariant of the relay loop, RelayInv, one lemma for each *)
(* action that it is kept, and the theorems that follow: the safety        *)
(* invariants of Relay hold for every value of the constants.              *)
(***************************************************************************)
EXTENDS RelayConns, FiniteSetTheorems

\* The relay once the event at the head of the queue has been taken.
Popped(x) == WithMux(x, mux_next_event(x.mux))

\* Taking the head of the queue keeps every other stream tracked.
LEMMA Pop ==
  ASSUME NEW x, Good(x), ~x.mux.dead, x.mux.evq # <<>>, NEW y, y = Popped(x),
         NEW q, q = x.mux.evq
  PROVE  /\ q \in Seq(Event) /\ q[1] \in Event /\ y \in RelayT /\ Slots(y) /\ Count(y)
         /\ y.conns = x.conns /\ Used(y) = Used(x) /\ y.freelist = x.freelist /\ y.role = x.role
         /\ y.nactive = x.nactive /\ y.listen_paused = x.listen_paused
         /\ y.mux.evq = Tail(q) /\ y.mux.tab = x.mux.tab /\ y.mux.next_sid = x.mux.next_sid
         /\ ~y.mux.dead
         /\ Streams(y, q[1].sid)
  <1> DEFINE m == mux_next_event(x.mux)
  <1>1. x \in RelayT /\ x.mux \in MuxT /\ q \in Seq(Event) /\ Streams(x, 0)
    BY DEF Good, RelayT, MuxT
  <1>2. /\ m \in MuxT /\ m.evq = Tail(q) /\ m.tab = x.mux.tab /\ m.next_sid = x.mux.next_sid
        /\ m.dead = x.mux.dead
    BY <1>1, MuxNextEvent
  <1> HIDE DEF m
  <1>3. /\ y \in RelayT /\ y.mux = m /\ y.conns = x.conns /\ Used(y) = Used(x)
        /\ y.freelist = x.freelist /\ y.role = x.role /\ y.nactive = x.nactive
        /\ y.listen_paused = x.listen_paused /\ Slots(y) /\ Count(y)
    BY <1>1, <1>2, SetMux DEF Good, Popped, m
  <1>4. /\ Len(q) \in Nat \ {0} /\ Len(Tail(q)) = Len(q) - 1
        /\ \A j \in 1 .. Len(Tail(q)) : Tail(q)[j] = q[j + 1] /\ j + 1 \in 1 .. Len(q)
        /\ q[1] \in Event
    BY <1>1
  <1>5. ConnsTrack(y, q[1].sid)
    <2>1. ASSUME NEW i \in Used(x), x.conns[i].sid # q[1].sid
          PROVE  Tracks(x.conns[i], x.mux.tab[x.conns[i].sid], Tail(q))
      <3>1. x.conns[i] \in ConnT /\ x.conns[i].sid # 0 /\ x.conns[i].m2s \in Int
        BY <1>1 DEF RelayT, Used, ConnT, Sids
      <3>2. Tracks(x.conns[i], x.mux.tab[x.conns[i].sid], q)
        BY <1>1, <3>1 DEF Streams, ConnsTrack
      <3> QED
        BY <1>1, <2>1, <3>1, <3>2, TracksTail
    <2>2. \A i \in Used(x) : x.conns[i].sid < x.mux.next_sid
      BY <1>1 DEF Streams, ConnsTrack
    <2> QED
      BY <1>2, <1>3, <2>1, <2>2 DEF ConnsTrack
  <1>6. OnePerStream(y)
    BY <1>1, <1>3 DEF Streams, OnePerStream
  <1>7. OpenedTrack(y)
    <2> DEFINE p == Tail(q)
    <2>0. y.mux.evq = p /\ y.mux.tab = x.mux.tab /\ y.conns = x.conns /\ Used(y) = Used(x)
      BY <1>2, <1>3
    <2> HIDE DEF p
    <2>1. SUFFICES ASSUME NEW j \in 1 .. Len(p), NEW sid, sid = p[j].sid,
                          p[j].type = "STREAM_OPENED"
                   PROVE  /\ sid \in Sids
                          /\ \A i \in Used(x) : x.conns[i].sid # sid
                          /\ \A l \in 1 .. j - 1 : p[l].sid # sid
                          /\ Tracks(Fresh(sid), x.mux.tab[sid], p)
      BY <2>0 DEF OpenedTrack
    <2> USE DEF p
    <2>2. j + 1 \in 1 .. Len(q) /\ Tail(q)[j] = q[j + 1] /\ 1 \in 1 .. (j + 1) - 1
      BY <1>4
    <2>3. /\ sid \in Sids
          /\ \A i \in Used(x) : x.conns[i].sid # sid
          /\ \A l \in 1 .. (j + 1) - 1 : q[l].sid # sid
          /\ Tracks(Fresh(sid), x.mux.tab[sid], q)
      BY <1>1, <2>1, <2>2 DEF Streams, OpenedTrack
    <2>4. Fresh(sid).sid = sid /\ Fresh(sid).m2s \in Int
      BY DEF Fresh
    <2>5. Tracks(Fresh(sid), x.mux.tab[sid], Tail(q))
      BY <1>1, <2>2, <2>3, <2>4, TracksTail
    <2>6. \A l \in 1 .. j - 1 : /\ l \in 1 .. Len(Tail(q)) /\ l + 1 \in 1 .. (j + 1) - 1
      BY <1>4
    <2> QED
      BY <1>4, <2>3, <2>5, <2>6
  <1>8. NextUnused(m)
    BY <1>1, <1>2, <1>4 DEF Streams, NextUnused
  <1> QED
    BY <1>1, <1>2, <1>3, <1>4, <1>5, <1>6, <1>7, <1>8 DEF Streams

\* An event of a stream without a connection can be dropped.
LEMMA PopUnknown ==
  ASSUME NEW x, Good(x), ~x.mux.dead, x.mux.evq # <<>>, NEW y, y = Popped(x),
         \A i \in Used(x) : x.conns[i].sid # x.mux.evq[1].sid
  PROVE  Good(y) /\ Streams(y, 0)
  <1> DEFINE sid == x.mux.evq[1].sid
  <1>1. /\ y \in RelayT /\ Slots(y) /\ Count(y) /\ y.conns = x.conns /\ Used(y) = Used(x)
        /\ Streams(y, sid)
    BY Pop
  <1>2. Streams(y, 0)
    BY <1>1 DEF Streams, ConnsTrack
  <1> QED
    BY <1>1, <1>2 DEF Good

\* An event of a connection leaves only that connection to be brought up
\* to date.
LEMMA PopKnown ==
  ASSUME NEW x, Good(x), ~x.mux.dead, x.mux.evq # <<>>, NEW y, y = Popped(x),
         NEW i \in Used(x), x.conns[i].sid = x.mux.evq[1].sid
  PROVE  /\ Loose(y, i) /\ y.conns[i] = x.conns[i] /\ ~y.mux.dead
         /\ y.conns[i] \in ConnT /\ y.mux \in MuxT /\ y.conns[i].sid \in Sids
         /\ Registered(y.conns[i]) /\ Flagged(y.conns[i]) /\ ~Done(y.conns[i])
         /\ Tracks(y.conns[i], y.mux.tab[y.conns[i].sid], x.mux.evq)
         /\ y.mux.evq = Tail(x.mux.evq) /\ y.mux.tab = x.mux.tab
  <1>1. /\ y \in RelayT /\ Slots(y) /\ Count(y) /\ y.conns = x.conns /\ Used(y) = Used(x)
        /\ Streams(y, x.mux.evq[1].sid) /\ ~y.mux.dead
        /\ y.mux.evq = Tail(x.mux.evq) /\ y.mux.tab = x.mux.tab
    BY ZenonT(30), Pop
  <1>2. Tracked(x, i) /\ Kept(x.conns[i])
    BY GoodIsLoose
  <1>3. Loose(y, i)
    BY <1>1 DEF Loose, Good
  <1>4. y.conns[i] \in ConnT /\ y.mux \in MuxT /\ y.conns[i].sid \in Sids
    BY <1>1 DEF RelayT, Used, ConnT
  <1> QED
    BY <1>1, <1>2, <1>3, <1>4 DEF Tracked, Kept

\* Taking the head keeps CLOSED the last of its stream.
LEMMA FinIsLastTail ==
  ASSUME NEW q \in Seq(Event), q # <<>>, NEW k, FinIsLast(k, q)
  PROVE  FinIsLast(k, Tail(q))
  <1> DEFINE p == Tail(q)
  <1>1. /\ Len(p) = Len(q) - 1 /\ Len(q) \in Nat
        /\ \A j \in 1 .. Len(p) : p[j] = q[j + 1] /\ j + 1 \in 1 .. Len(q)
    OBVIOUS
  <1> HIDE DEF p
  <1>2. SUFFICES ASSUME NEW j \in 1 .. Len(p), p[j].sid = k.sid
                 PROVE  /\ p[j].type \in {"STREAM_DATA", "STREAM_CLOSED"} => ~k.stream_fin
                        /\ p[j].type = "STREAM_CLOSED" =>
                             \A l \in j + 1 .. Len(p) :
                               ~(p[l].sid = k.sid /\ p[l].type \in {"STREAM_DATA", "STREAM_CLOSED"})
    BY DEF FinIsLast, p
  <1>3. \A l \in j + 1 .. Len(p) : l \in 1 .. Len(p) /\ l + 1 \in (j + 1) + 1 .. Len(q)
    BY <1>1
  <1> QED
    BY <1>1, <1>2, <1>3 DEF FinIsLast

\* The bytes of a DATA event, once in m2s, are no longer due.
LEMMA DataTracks ==
  ASSUME NEW q \in Seq(Event), q # <<>>, q[1].type = "STREAM_DATA", NEW k, NEW t,
         q[1].sid = k.sid, Tracks(k, t, q),
         NEW k2, k2.sid = k.sid, k2.m2s = k.m2s + q[1].n, k2.sock_eof = k.sock_eof,
         k2.stream_fin = k.stream_fin, k2.send_blocked = k.send_blocked
  PROVE  Tracks(k2, t, Tail(q)) /\ ~k.stream_fin
  <1>1. \A type \in {"STREAM_CLOSED", "STREAM_RESET", "WRITABLE"} :
          Coming(Tail(q), type, k.sid) <=> Coming(q, type, k.sid)
    BY ComingTail
  <1>2. t.life # "NONE" => Adds(Tail(q), k.sid, k2.m2s, t.held)
    <2>1. BytesOf(q[1], k.sid) = q[1].n
      BY DEF BytesOf
    <2> QED
      BY <2>1, AddsTail DEF Tracks, Follows
  <1>3. FinIsLast(k, q) /\ Len(q) \in Nat \ {0}
    BY DEF Tracks, Follows
  <1>4. FinIsLast(k, Tail(q)) /\ ~k.stream_fin
    BY <1>3, FinIsLastTail DEF FinIsLast
  <1>5. FinIsLast(k2, Tail(q))
    BY <1>4 DEF FinIsLast
  <1> QED
    BY <1>1, <1>2, <1>4, <1>5 DEF Tracks, Follows, LifeOf

\* The end of input of a CLOSED event, once in stream_fin, is no longer due.
LEMMA ClosedTracks ==
  ASSUME NEW q \in Seq(Event), q # <<>>, q[1].type = "STREAM_CLOSED", NEW k, NEW t,
         k.m2s \in Int, q[1].sid = k.sid, Tracks(k, t, q),
         NEW k2, k2.sid = k.sid, k2.m2s = k.m2s, k2.sock_eof = k.sock_eof,
         k2.stream_fin, k2.send_blocked = k.send_blocked
  PROVE  Tracks(k2, t, Tail(q))
  <1>1. /\ \A type \in {"STREAM_RESET", "WRITABLE"} :
             Coming(Tail(q), type, k.sid) <=> Coming(q, type, k.sid)
        /\ Coming(q, "STREAM_CLOSED", k.sid)
    BY ComingTail
  <1>2. t.life # "NONE" => Adds(Tail(q), k.sid, k.m2s, t.held)
    <2>1. BytesOf(q[1], k.sid) = 0 /\ k.m2s + 0 = k.m2s
      BY DEF BytesOf
    <2> QED
      BY <2>1, AddsTail DEF Tracks, Follows
  <1>3. FinIsLast(k, q) /\ Len(q) \in Nat \ {0}
    BY DEF Tracks, Follows
  <1>4. FinIsLast(k2, Tail(q))
    <2> DEFINE p == Tail(q)
    <2>1. \A j \in 1 .. Len(p) : p[j] = q[j + 1] /\ j + 1 \in 1 + 1 .. Len(q)
      BY <1>3
    <2>2. \A l \in 1 + 1 .. Len(q) :
            ~(q[l].sid = k.sid /\ q[l].type \in {"STREAM_DATA", "STREAM_CLOSED"})
      BY <1>3 DEF FinIsLast
    <2> HIDE DEF p
    <2>3. FinIsLast(k2, p)
      BY <2>1, <2>2 DEF FinIsLast
    <2> QED
      BY <2>3 DEF p
  <1> QED
    BY <1>1, <1>2, <1>4 DEF Tracks, Follows, LifeOf

\* WRITABLE and OPENED carry neither bytes nor an end.
LEMMA WritableFollows ==
  ASSUME NEW q \in Seq(Event), q # <<>>, NEW k, NEW t,
         q[1].type \in {"WRITABLE", "STREAM_OPENED"},
         k.m2s \in Int, q[1].sid = k.sid, Tracks(k, t, q)
  PROVE  Follows(k, t, Tail(q))
  <1>1. \A type \in {"STREAM_CLOSED", "STREAM_RESET"} :
          Coming(Tail(q), type, k.sid) <=> Coming(q, type, k.sid)
    BY ComingTail
  <1>2. t.life # "NONE" => Adds(Tail(q), k.sid, k.m2s, t.held)
    <2>1. BytesOf(q[1], k.sid) = 0 /\ k.m2s + 0 = k.m2s
      BY DEF BytesOf
    <2> QED
      BY <2>1, AddsTail DEF Tracks, Follows
  <1>3. FinIsLast(k, Tail(q))
    BY FinIsLastTail DEF Tracks, Follows
  <1> QED
    BY <1>1, <1>2, <1>3 DEF Tracks, Follows, LifeOf

\* Connection i becomes k; the session stays as it is.
PutOnly(x, i, k) == [x EXCEPT !.conns[i] = k]

\* Replacing a connection alone disturbs no other one.
LEMMA LoosePutOnly ==
  ASSUME NEW x, NEW i, Loose(x, i), NEW k \in ConnT, k.sid = x.conns[i].sid,
         NEW y, y = PutOnly(x, i, k)
  PROVE  Loose(y, i) /\ y.conns[i] = k /\ y.mux = x.mux /\ y = Put(x, i, k, x.mux)
  <1>1. x \in RelayT /\ x.mux \in MuxT
    BY DEF Loose, RelayT
  <1>2. y = Put(x, i, k, x.mux)
    BY ZenonT(30), <1>1 DEF PutOnly, Put, RelayT
  <1>3. Puts(x, y, i, k, x.mux)
    BY <1>1, <1>2, PutConn
  <1>4. SameBut(x.mux, x.mux, k.sid)
    BY DEF SameBut
  <1>5. Loose(y, i) /\ y.conns[i] = k /\ y.mux = x.mux
    BY <1>1, <1>3, <1>4, LoosePut
  <1> QED
    BY <1>2, <1>5

\* What handle_events does to the connection of a DATA and of a CLOSED event first.
TakeBytes(x, i, n) == [x EXCEPT !.conns[i].m2s = @ + n]
TakeFin(x, i) == [x EXCEPT !.conns[i].stream_fin = TRUE]

\* handle_events, MUX_EV_STREAM_DATA.
LEMMA HandleData ==
  ASSUME NEW x, Good(x), ~x.mux.dead, x.mux.evq # <<>>, x.mux.evq[1].type = "STREAM_DATA",
         NEW i \in Used(x), x.conns[i].sid = x.mux.evq[1].sid,
         NEW z, z = TakeBytes(Popped(x), i, x.mux.evq[1].n),
         NEW y, \/ y = mark_dirty(z, i)
                \/ \E w \in Writes(z.conns[i]) : y = flush_to_socket(z, i, w)
  PROVE  Good(y) /\ y.mux.evq = Tail(x.mux.evq) /\ ~y.mux.dead
  <1> DEFINE x1 == Popped(x)
             k == x1.conns[i]
             q == x.mux.evq
             n == q[1].n
             k2 == [k EXCEPT !.m2s = @ + n]
  <1>1. /\ Loose(x1, i) /\ ~x1.mux.dead /\ k \in ConnT /\ x1.mux \in MuxT /\ k.sid \in Sids
        /\ k.sid = q[1].sid
        /\ Flagged(k) /\ Tracks(k, x1.mux.tab[k.sid], q) /\ x1.mux.evq = Tail(q)
    BY PopKnown
  <1>2. q \in Seq(Event) /\ n \in Nat
    <2>1. q \in Seq(Event) /\ q[1] \in Event
      BY Pop
    <2> QED
      BY <2>1 DEF Event
  <1>3. z = PutOnly(x1, i, k2)
    BY DEF PutOnly, TakeBytes
  <1> HIDE DEF x1
  <1>4. /\ k2 \in ConnT /\ k2.sid = k.sid /\ k2.m2s = k.m2s + n /\ k2.s2m = k.s2m
        /\ k2.sock_eof = k.sock_eof /\ k2.stream_fin = k.stream_fin
        /\ k2.send_blocked = k.send_blocked
    <2> DEFINE v == k.m2s + n
    <2> HIDE DEF n, k
    <2>1. k \in ConnT /\ v \in Nat
      <3>1. k \in ConnT /\ n \in Nat
        BY <1>1, <1>2
      <3> QED
        BY <3>1 DEF ConnT
    <2>2. k2 = [k EXCEPT !.m2s = v]
      OBVIOUS
    <2> HIDE DEF v, k2
    <2>3. /\ k2 \in ConnT /\ k2.sid = k.sid /\ k2.m2s = v /\ k2.s2m = k.s2m
          /\ k2.sock_eof = k.sock_eof /\ k2.stream_fin = k.stream_fin
          /\ k2.send_blocked = k.send_blocked
      BY <2>1, <2>2 DEF ConnT
    <2> QED
      BY <2>3 DEF v
  <1>5. Tracks(k2, x1.mux.tab[k2.sid], x1.mux.evq) /\ ~k2.stream_fin
    <2> HIDE DEF k2
    <2>1. Tracks(k2, x1.mux.tab[k.sid], Tail(q)) /\ ~k.stream_fin
      BY ZenonT(30), <1>1, <1>2, <1>4, DataTracks
    <2> QED
      BY ZenonT(30), <1>1, <1>4, <2>1
  <1>6. Flagged(k2) /\ ~Done(k2) /\ SameBut(x1.mux, x1.mux, k2.sid)
    BY Zenon, <1>1, <1>4, <1>5 DEF Flagged, Done, SameBut
  <1>7. k2.sid = x1.conns[i].sid
    BY <1>4
  <1> HIDE DEF k2
  <1>8. Loose(z, i) /\ z.conns[i] = k2 /\ z.mux = x1.mux /\ z = Put(x1, i, k2, x1.mux)
    BY <1>1, <1>3, <1>4, <1>7, LoosePutOnly
  <1>9. CASE y = mark_dirty(z, i)
    <2>1. y = mark_dirty(Put(x1, i, k2, x1.mux), i)
      BY <1>8, <1>9
    <2>2. x1.mux \in MuxT /\ k2 \in ConnT /\ Loose(x1, i)
      BY <1>1, <1>4
    <2>3. Good(y) /\ y.mux = x1.mux
      BY <1>5, <1>6, <1>7, <2>1, <2>2, PutStep
    <2> QED
      BY <1>1, <2>3
  <1>10. ASSUME NEW w \in Writes(z.conns[i]), y = flush_to_socket(z, i, w)
         PROVE  Good(y) /\ y.mux.evq = Tail(x.mux.evq) /\ ~y.mux.dead
    <2>1. Tracked(z, i) /\ Flagged(z.conns[i])
      BY <1>5, <1>6, <1>8 DEF Tracked
    <2>2. /\ Loose(y, i) /\ Tracked(y, i) /\ Registered(y.conns[i]) /\ Flagged(y.conns[i])
          /\ y.mux.evq = z.mux.evq /\ y.mux.dead = z.mux.dead
          /\ y.conns[i].stream_fin = z.conns[i].stream_fin
      BY <1>8, <1>10, <2>1, FlushToSocket
    <2>3. Kept(y.conns[i])
      BY <1>5, <1>8, <2>2 DEF Kept, Done
    <2>4. Good(y)
      BY <2>2, <2>3, LooseIsGood
    <2> QED
      BY <1>1, <1>8, <2>2, <2>4
  <1> QED
    BY <1>9, <1>10

\* handle_events, MUX_EV_STREAM_CLOSED.
LEMMA HandleClosed ==
  ASSUME NEW x, Good(x), ~x.mux.dead, x.mux.evq # <<>>, x.mux.evq[1].type = "STREAM_CLOSED",
         NEW i \in Used(x), x.conns[i].sid = x.mux.evq[1].sid,
         NEW z, z = TakeFin(Popped(x), i),
         NEW y, \/ y = conn_maybe_finish(z, i)
                \/ \E w \in Writes(z.conns[i]) :
                     y = conn_maybe_finish(flush_to_socket(z, i, w), i)
  PROVE  Good(y) /\ y.mux.evq = Tail(x.mux.evq) /\ ~y.mux.dead
  <1> DEFINE x1 == Popped(x)
             k == x1.conns[i]
             q == x.mux.evq
             k2 == [k EXCEPT !.stream_fin = TRUE]
  <1>1. /\ Loose(x1, i) /\ ~x1.mux.dead /\ k \in ConnT /\ x1.mux \in MuxT /\ k.sid \in Sids
        /\ k.sid = q[1].sid /\ Registered(k)
        /\ Flagged(k) /\ Tracks(k, x1.mux.tab[k.sid], q) /\ x1.mux.evq = Tail(q)
    BY PopKnown
  <1>2. q \in Seq(Event) /\ k.m2s \in Int
    <2>1. q \in Seq(Event) /\ q[1] \in Event
      BY Pop
    <2> QED
      BY <1>1, <2>1 DEF ConnT
  <1>3. z = PutOnly(x1, i, k2)
    BY DEF PutOnly, TakeFin
  <1> HIDE DEF x1
  <1>4. /\ k2 \in ConnT /\ k2.sid = k.sid /\ k2.m2s = k.m2s /\ k2.s2m = k.s2m
        /\ k2.sock_eof = k.sock_eof /\ k2.stream_fin /\ k2.connecting = k.connecting
        /\ k2.send_blocked = k.send_blocked /\ k2.in_dirty = k.in_dirty /\ k2.sock = k.sock
        /\ k2.cur_r = k.cur_r /\ k2.cur_w = k.cur_w
    <2> HIDE DEF k
    <2> QED
      BY ZenonT(30), <1>1, <1>2 DEF ConnT
  <1> HIDE DEF k2
  <1>5. Tracks(k2, x1.mux.tab[k2.sid], x1.mux.evq)
    <2>1. Tracks(k2, x1.mux.tab[k.sid], Tail(q))
      BY <1>1, <1>2, <1>4, ClosedTracks
    <2> QED
      BY Zenon, <1>1, <1>4, <2>1
  <1>6. Flagged(k2) /\ Registered(k2)
    BY Zenon, <1>1, <1>4 DEF Flagged, Registered, Current, Faulty, conn_desired
  <1>7. k2.sid = x1.conns[i].sid
    BY <1>4
  <1>8. Loose(z, i) /\ z.conns[i] = k2 /\ z.mux = x1.mux
    BY <1>1, <1>3, <1>4, <1>7, LoosePutOnly
  <1>9. Tracked(z, i) /\ Flagged(z.conns[i]) /\ Registered(z.conns[i])
    BY <1>5, <1>6, <1>8 DEF Tracked
  <1>10. CASE y = conn_maybe_finish(z, i)
    BY <1>1, <1>8, <1>9, <1>10, MaybeFinish
  <1>11. ASSUME NEW w \in Writes(z.conns[i]), y = conn_maybe_finish(flush_to_socket(z, i, w), i)
         PROVE  Good(y) /\ y.mux.evq = Tail(x.mux.evq) /\ ~y.mux.dead
    <2> DEFINE u == flush_to_socket(z, i, w)
    <2>1. /\ Loose(u, i) /\ Tracked(u, i) /\ Registered(u.conns[i]) /\ Flagged(u.conns[i])
          /\ u.mux.evq = z.mux.evq /\ u.mux.dead = z.mux.dead
      BY <1>8, <1>9, FlushToSocket
    <2> HIDE DEF u
    <2>2. Good(conn_maybe_finish(u, i)) /\ conn_maybe_finish(u, i).mux = u.mux
      BY <2>1, MaybeFinish
    <2> QED
      BY <1>1, <1>8, <1>11, <2>1, <2>2 DEF u
  <1> QED
    BY <1>10, <1>11

\* handle_events, MUX_EV_WRITABLE.
LEMMA HandleWritable ==
  ASSUME NEW x, Good(x), ~x.mux.dead, x.mux.evq # <<>>, x.mux.evq[1].type = "WRITABLE",
         NEW i \in Used(x), x.conns[i].sid = x.mux.evq[1].sid,
         NEW w \in Takes(x.mux, x.mux.evq[1].sid, x.conns[i].s2m),
         NEW y, y = flush_to_mux(Popped(x), i, w)
  PROVE  Good(y) /\ y.mux.evq = Tail(x.mux.evq) /\ ~y.mux.dead
  <1> DEFINE x1 == Popped(x)
             k == x1.conns[i]
             q == x.mux.evq
  <1>1. /\ Loose(x1, i) /\ ~x1.mux.dead /\ k \in ConnT /\ k = x.conns[i]
        /\ k.sid = q[1].sid /\ Flagged(k) /\ ~Done(k)
        /\ Tracks(k, x1.mux.tab[k.sid], q) /\ x1.mux.evq = Tail(q)
    BY PopKnown
  <1>2. q \in Seq(Event) /\ k.m2s \in Int /\ k.s2m \in Nat
    <2>1. q \in Seq(Event)
      BY Pop
    <2> QED
      BY <1>1, <2>1 DEF ConnT
  <1>3. w \in Nat /\ w <= k.s2m
    BY <1>1, <1>2 DEF Takes
  <1> HIDE DEF x1
  <1>4. Follows(k, x1.mux.tab[k.sid], x1.mux.evq)
    BY <1>1, <1>2, WritableFollows
  <1>5. Good(y) /\ y.mux.evq = x1.mux.evq /\ y.mux.dead = x1.mux.dead
    <2>1. y = flush_to_mux(x1, i, w)
      BY DEF x1
    <2> QED
      BY <1>1, <1>3, <1>4, <2>1, FlushToMux
  <1> QED
    BY <1>1, <1>5

\* conn_desired gives two Booleans.
LEMMA DesiredTyped ==
  ASSUME NEW k \in ConnT
  PROVE  conn_desired(k).rd \in BOOLEAN /\ conn_desired(k).wr \in BOOLEAN
  <1>1. CASE k.connecting
    BY <1>1 DEF conn_desired
  <1>2. CASE ~k.connecting
    BY <1>2 DEF conn_desired
  <1> QED
    BY <1>1, <1>2

\* conn_alloc of a stream that nobody else knows leaves a good relay.
LEMMA Alloc ==
  ASSUME NEW x \in RelayT, Slots(x), x.freelist # <<>>, ~x.mux.dead, Streams(x, 0),
         \A i \in Used(x) : Kept(x.conns[i]),
         NEW sid \in Sids, sid < x.mux.next_sid, \A i \in Used(x) : x.conns[i].sid # sid,
         \A j \in 1 .. Len(x.mux.evq) : x.mux.evq[j].type = "STREAM_OPENED" => x.mux.evq[j].sid # sid,
         Tracks(Fresh(sid), x.mux.tab[sid], x.mux.evq),
         NEW sock \in {"connecting", "up"}, NEW z, z = conn_alloc(x, sid, sock)
  PROVE  /\ z \in RelayT /\ Slots(z) /\ Streams(z, 0) /\ \A i \in Used(z) : Kept(z.conns[i])
         /\ z.mux = x.mux /\ z.role = x.role /\ z.nactive = x.nactive
         /\ z.listen_paused = x.listen_paused
         /\ \E h : Used(z) = Used(x) \cup {h} /\ h \notin Used(x)
  <1>0. PICK h : h = Head(x.freelist)
    OBVIOUS
  <1> DEFINE k0 == [sid |-> sid, sock |-> sock, connecting |-> sock = "connecting",
                    sock_eof |-> FALSE, stream_fin |-> FALSE, send_blocked |-> FALSE,
                    cur_r |-> FALSE, cur_w |-> FALSE, in_dirty |-> FALSE, s2m |-> 0, m2s |-> 0]
             k == conn_apply_interest(k0)
  <1>1. /\ x.freelist \in Seq(Idx) /\ x.mux \in MuxT /\ h \in Idx /\ x.conns[h] = Unused
        /\ x.conns \in [Idx -> ConnT \cup {Unused}] /\ h = x.freelist[1]
        /\ Tail(x.freelist) \in Seq(Idx)
    <2>1. x.freelist \in Seq(Idx) /\ x.mux \in MuxT /\ x.conns \in [Idx -> ConnT \cup {Unused}]
      BY DEF RelayT
    <2>2. h \in Idx /\ h = x.freelist[1] /\ 1 \in 1 .. Len(x.freelist) /\ Tail(x.freelist) \in Seq(Idx)
      BY <1>0, <2>1
    <2> QED
      BY <2>1, <2>2 DEF Slots
  <1>2. /\ k0.connecting = (sock = "connecting") /\ k0.s2m = 0 /\ k0.m2s = 0
        /\ k0 \in ConnT /\ ~k0.sock_eof /\ ~k0.stream_fin /\ ~k0.send_blocked /\ k0.sid = sid
    BY DEF ConnT
  <1>3. /\ conn_desired(k0).rd \in BOOLEAN /\ conn_desired(k0).wr \in BOOLEAN
    BY <1>2, DesiredTyped
  <1> HIDE DEF k0
  <1> DEFINE a == conn_desired(k0).rd
             b == conn_desired(k0).wr
  <1>4. /\ k \in ConnT /\ k.sid = sid /\ ~k.sock_eof /\ ~k.stream_fin /\ ~k.send_blocked
        /\ k.s2m = 0 /\ k.m2s = 0 /\ k.cur_r = a /\ k.cur_w = b /\ k.connecting = k0.connecting
        /\ k.sock_eof = k0.sock_eof /\ k.send_blocked = k0.send_blocked
    <2> HIDE DEF a, b
    <2>1. k = [k0 EXCEPT !.cur_r = a, !.cur_w = b]
      BY DEF conn_apply_interest, a, b
    <2>2. a \in BOOLEAN /\ b \in BOOLEAN
      BY <1>3 DEF a, b
    <2> QED
      BY ZenonT(30), <1>2, <2>1, <2>2 DEF ConnT
  <1>5. z = [x EXCEPT !.freelist = Tail(x.freelist), !.conns[h] = k]
    BY <1>0 DEF conn_alloc, k0
  <1>6. Kept(k)
    <2>1. conn_desired(k) = conn_desired(k0)
      BY <1>2, <1>4 DEF conn_desired
    <2>2. Current(k)
      BY <1>4, <2>1 DEF Current
    <2> QED
      BY <1>4, <2>2 DEF Kept, Registered, Flagged, Done
  <1> HIDE DEF k, a, b
  <1>7. /\ z \in RelayT /\ z.mux = x.mux /\ z.role = x.role /\ z.nactive = x.nactive
        /\ z.listen_paused = x.listen_paused /\ z.freelist = Tail(x.freelist)
        /\ z.conns = [x.conns EXCEPT ![h] = k]
    <2> DEFINE f == Tail(x.freelist)
               c == [x.conns EXCEPT ![h] = k]
    <2>1. f \in Seq(Idx) /\ c \in [Idx -> ConnT \cup {Unused}]
      BY <1>1, <1>4
    <2>2. z = [x EXCEPT !.freelist = f, !.conns = c]
      BY <1>5
    <2> HIDE DEF f, c
    <2>3. /\ z \in RelayT /\ z.mux = x.mux /\ z.role = x.role /\ z.nactive = x.nactive
          /\ z.listen_paused = x.listen_paused /\ z.freelist = f /\ z.conns = c
      BY Zenon, <2>1, <2>2 DEF RelayT
    <2> QED
      BY <2>3 DEF f, c
  <1>8. /\ Used(z) = Used(x) \cup {h} /\ h \notin Used(x) /\ z.conns[h] = k
        /\ \A i \in Idx \ {h} : z.conns[i] = x.conns[i]
    BY <1>1, <1>4, <1>7, ConnIsUsed DEF Used
  <1>9. Slots(z)
    <2>1. /\ \A c \in 1 .. Len(z.freelist) : /\ z.freelist[c] = x.freelist[c + 1] /\ c \in Int
                                            /\ c + 1 \in 1 .. Len(x.freelist) /\ c + 1 # 1
          /\ 1 \in 1 .. Len(x.freelist)
          /\ \A c \in 1 .. Len(x.freelist) : x.freelist[c] \in Idx
      BY <1>1, <1>7
    <2>2. \A c \in 1 .. Len(z.freelist) : z.freelist[c] # h /\ z.freelist[c] \in Idx
      BY <1>1, <2>1 DEF Slots
    <2>3. \A c \in 1 .. Len(z.freelist) : z.conns[z.freelist[c]] = Unused
      BY <1>8, <2>1, <2>2 DEF Slots
    <2>4. \A c, d \in 1 .. Len(z.freelist) : z.freelist[c] = z.freelist[d] => c = d
      <3>1. SUFFICES ASSUME NEW c \in 1 .. Len(z.freelist), NEW d \in 1 .. Len(z.freelist),
                            z.freelist[c] = z.freelist[d]
                     PROVE  c = d
        OBVIOUS
      <3>2. c + 1 = d + 1 /\ c \in Int /\ d \in Int
        BY <2>1, <3>1 DEF Slots
      <3> QED
        BY <3>2
    <2> QED
      BY <2>3, <2>4 DEF Slots
  <1>10. \A i \in Used(z) : Kept(z.conns[i])
    BY <1>6, <1>8 DEF Used
  <1>11. Tracks(k, x.mux.tab[sid], x.mux.evq)
    <2>1. /\ Fresh(sid).sid = sid /\ Fresh(sid).m2s = 0 /\ ~Fresh(sid).sock_eof
          /\ ~Fresh(sid).stream_fin /\ ~Fresh(sid).send_blocked
      BY DEF Fresh
    <2> QED
      BY <1>4, <2>1 DEF Tracks, Follows, LifeOf, FinIsLast
  <1>12. ConnsTrack(z, 0)
    BY <1>4, <1>7, <1>8, <1>11 DEF Streams, ConnsTrack, Used
  <1>13. OnePerStream(z)
    BY <1>4, <1>8 DEF Streams, OnePerStream, Used
  <1>14. OpenedTrack(z)
    BY <1>4, <1>7, <1>8 DEF Streams, OpenedTrack, Used
  <1>15. Streams(z, 0)
    BY <1>7, <1>12, <1>13, <1>14 DEF Streams
  <1> QED
    BY <1>7, <1>8, <1>9, <1>10, <1>15

\* mux_reset of a stream that no connection and no OPENED event belongs to.
LEMMA ResetUnknown ==
  ASSUME NEW x, Good(x), ~x.mux.dead, NEW sid \in Sids,
         \A i \in Used(x) : x.conns[i].sid # sid,
         \A j \in 1 .. Len(x.mux.evq) : x.mux.evq[j].type = "STREAM_OPENED" => x.mux.evq[j].sid # sid,
         NEW y, y = WithMux(x, mux_reset(x.mux, sid))
  PROVE  Good(y) /\ y.mux.evq = x.mux.evq /\ ~y.mux.dead
  <1> DEFINE m == mux_reset(x.mux, sid)
  <1>1. x \in RelayT /\ x.mux \in MuxT /\ Streams(x, 0)
    BY DEF Good, RelayT
  <1>2. m \in MuxT /\ SameBut(x.mux, m, sid) /\ m.tab[sid] = NoStream
    BY <1>1, MuxReset DEF mux_reset, MuxT
  <1> HIDE DEF m
  <1>3. /\ y \in RelayT /\ y.mux = m /\ y.conns = x.conns /\ Used(y) = Used(x)
        /\ Slots(y) /\ Count(y)
    BY <1>1, <1>2, SetMux DEF Good, m
  <1>4. \A i \in Used(x) : x.conns[i].sid \in Sids
    BY <1>1 DEF RelayT, Used, ConnT
  <1>5. ConnsTrack(y, 0)
    BY <1>1, <1>2, <1>3, <1>4 DEF Streams, ConnsTrack, SameBut
  <1>6. OnePerStream(y)
    BY <1>1, <1>3 DEF Streams, OnePerStream
  <1>7. OpenedTrack(y)
    BY <1>1, <1>2, <1>3 DEF Streams, OpenedTrack, SameBut
  <1>8. NextUnused(m)
    BY <1>1, <1>2 DEF Streams, NextUnused, SameBut
  <1> QED
    BY <1>2, <1>3, <1>5, <1>6, <1>7, <1>8 DEF Good, Streams, SameBut

\* An OPENED event has been taken, and nobody else knows the stream.
JustOpened(x, sid) ==
  /\ Good(x) /\ ~x.mux.dead /\ sid \in Sids /\ sid < x.mux.next_sid
  /\ \A i \in Used(x) : x.conns[i].sid # sid
  /\ \A j \in 1 .. Len(x.mux.evq) :
       x.mux.evq[j].type = "STREAM_OPENED" => x.mux.evq[j].sid # sid
  /\ Tracks(Fresh(sid), x.mux.tab[sid], x.mux.evq)

\* After an OPENED event is taken nobody else knows its stream.
LEMMA PopOpened ==
  ASSUME NEW x, Good(x), ~x.mux.dead, x.mux.evq # <<>>, x.mux.evq[1].type = "STREAM_OPENED"
  PROVE  /\ JustOpened(Popped(x), x.mux.evq[1].sid) /\ Popped(x).mux.evq = Tail(x.mux.evq)
         /\ Popped(x).role = x.role /\ Popped(x).freelist = x.freelist
  <1> DEFINE q == x.mux.evq
             x1 == Popped(x)
             sid == q[1].sid
  <1>1. /\ q \in Seq(Event) /\ q[1] \in Event /\ x1 \in RelayT /\ Slots(x1) /\ Count(x1)
        /\ x1.conns = x.conns /\ Used(x1) = Used(x) /\ x1.freelist = x.freelist
        /\ x1.role = x.role /\ x1.mux.evq = Tail(q) /\ x1.mux.tab = x.mux.tab
        /\ x1.mux.next_sid = x.mux.next_sid /\ ~x1.mux.dead
    BY ZenonT(30), Pop
  <1>2. /\ Len(q) \in Nat \ {0} /\ Len(Tail(q)) = Len(q) - 1
        /\ \A j \in 1 .. Len(Tail(q)) : /\ Tail(q)[j] = q[j + 1] /\ j + 1 \in 1 .. Len(q)
                                        /\ 1 \in 1 .. (j + 1) - 1
        /\ 1 \in 1 .. Len(q)
    BY <1>1
  <1>3. Streams(x, 0)
    BY DEF Good
  <1>4. /\ sid \in Sids /\ \A i \in Used(x) : x.conns[i].sid # sid
        /\ Tracks(Fresh(sid), x.mux.tab[sid], q) /\ sid < x.mux.next_sid
    BY <1>2, <1>3 DEF Streams, OpenedTrack, NextUnused
  <1>5. \A j \in 1 .. Len(Tail(q)) : Tail(q)[j].type = "STREAM_OPENED" => Tail(q)[j].sid # sid
    BY <1>2, <1>3 DEF Streams, OpenedTrack
  <1>6. Good(x1)
    BY <1>4, PopUnknown
  <1> HIDE DEF x1
  <1>7. Tracks(Fresh(sid), x1.mux.tab[sid], x1.mux.evq)
    <2>1. Fresh(sid).sid = sid /\ Fresh(sid).m2s \in Int /\ ~Fresh(sid).send_blocked
      BY DEF Fresh
    <2>2. Follows(Fresh(sid), x.mux.tab[sid], Tail(q))
      BY <1>1, <1>4, <2>1, WritableFollows
    <2> QED
      BY <1>1, <2>1, <2>2 DEF Tracks
  <1>8. JustOpened(x1, sid)
    BY ZenonT(30), <1>1, <1>4, <1>5, <1>6, <1>7 DEF JustOpened
  <1> QED
    BY <1>1, <1>8 DEF x1

\* open_backend_conn takes a slot for it.
LEMMA OpenedAlloc ==
  ASSUME NEW x, NEW sid, JustOpened(x, sid), Backend(x), x.freelist # <<>>,
         NEW y, y = conn_alloc(x, sid, "connecting")
  PROVE  Good(y) /\ y.mux = x.mux
  <1>1. /\ y \in RelayT /\ Slots(y) /\ Streams(y, 0) /\ \A i \in Used(y) : Kept(y.conns[i])
        /\ y.mux = x.mux /\ y.role = x.role
    BY Alloc DEF JustOpened, Good
  <1>2. Count(y)
    BY <1>1 DEF Count, Backend
  <1> QED
    BY <1>1, <1>2 DEF Good

\* handle_events, MUX_EV_STREAM_OPENED, taken or refused.
LEMMA HandleOpened ==
  ASSUME NEW x, Good(x), ~x.mux.dead, x.mux.evq # <<>>, x.mux.evq[1].type = "STREAM_OPENED",
         NEW sid, sid = x.mux.evq[1].sid, NEW x1, x1 = Popped(x),
         NEW y, \/ Backend(x) /\ x.freelist # <<>> /\ y = conn_alloc(x1, sid, "connecting")
                \/ y = WithMux(x1, mux_reset(x1.mux, sid))
  PROVE  Good(y) /\ y.mux.evq = Tail(x.mux.evq) /\ ~y.mux.dead
  <1>1. /\ JustOpened(x1, sid) /\ x1.mux.evq = Tail(x.mux.evq)
        /\ x1.role = x.role /\ x1.freelist = x.freelist
    BY PopOpened
  <1>2. CASE y = WithMux(x1, mux_reset(x1.mux, sid))
    <2>1. Good(y) /\ y.mux.evq = x1.mux.evq /\ ~y.mux.dead
      BY ZenonT(30), <1>1, <1>2, ResetUnknown DEF JustOpened
    <2> QED
      BY <1>1, <2>1
  <1>3. CASE Backend(x) /\ x.freelist # <<>> /\ y = conn_alloc(x1, sid, "connecting")
    <2>1. Good(y) /\ y.mux = x1.mux
      BY <1>1, <1>3, OpenedAlloc DEF Backend
    <2> QED
      BY <1>1, <2>1 DEF JustOpened
  <1> QED
    BY <1>2, <1>3

\* accept_public for one client: opened and taken, or opened and reset.
LEMMA Accept ==
  ASSUME NEW x, Good(x), x.mux.evq = <<>>, x.nactive < MaxStreams, CanOpen(x.mux),
         NEW n, n = x.mux.next_sid, NEW x1, x1 = WithMux(x, mux_open(x.mux)),
         NEW y, \/ /\ x.freelist # <<>>
                   /\ y = [conn_alloc(x1, n, "up") EXCEPT !.nactive = @ + 1]
                \/ y = WithMux(x1, mux_reset(x1.mux, n))
  PROVE  Good(y) /\ y.mux.evq = <<>> /\ ~y.mux.dead
  <1> DEFINE m == mux_open(x.mux)
  <1>1. /\ x \in RelayT /\ x.mux \in MuxT /\ ~x.mux.dead /\ Streams(x, 0) /\ n <= MaxSid
        /\ n \in Nat \ {0}
    BY DEF Good, RelayT, MuxT, CanOpen
  <1>2. NextUnused(x.mux) /\ n \in Sids /\ x.mux.tab[n] = NoStream
    BY <1>1, HostMuxAssumption DEF Streams, NextUnused, Sids
  <1>3. /\ m \in MuxT /\ m.next_sid = n + 1 /\ m.evq = <<>> /\ ~m.dead
        /\ m.tab[n].life = "OPEN" /\ m.tab[n].held = 0
        /\ \A s \in Sids \ {n} : m.tab[s] = x.mux.tab[s]
    BY <1>1, <1>2, MuxOpen
  <1> HIDE DEF m
  <1>4. /\ x1 \in RelayT /\ x1.mux = m /\ x1.conns = x.conns /\ Used(x1) = Used(x)
        /\ x1.freelist = x.freelist /\ x1.role = x.role /\ x1.nactive = x.nactive
        /\ x1.listen_paused = x.listen_paused /\ Slots(x1) /\ Count(x1)
    BY <1>1, <1>3, SetMux DEF Good, m
  <1>5. \A i \in Used(x) : /\ x.conns[i].sid \in Sids /\ x.conns[i].sid # n
                           /\ x.conns[i].sid < n + 1 /\ x.conns[i].sid # 0
    <2>1. \A i \in Used(x) : x.conns[i].sid \in Sids /\ x.conns[i].sid < n
      BY <1>1 DEF RelayT, Used, ConnT, Streams, ConnsTrack
    <2> QED
      BY <1>1, <2>1 DEF Sids
  <1>6. Streams(x1, 0)
    <2>1. ConnsTrack(x1, 0)
      BY <1>1, <1>3, <1>4, <1>5 DEF Streams, ConnsTrack
    <2>2. OnePerStream(x1) /\ OpenedTrack(x1)
      BY <1>1, <1>3, <1>4 DEF Streams, OnePerStream, OpenedTrack
    <2>3. \A sid \in Sids : sid >= n + 1 => sid # n /\ sid >= n
      BY <1>1 DEF Sids
    <2>4. NextUnused(m)
      BY <1>2, <1>3, <2>3 DEF NextUnused
    <2> QED
      BY <1>4, <2>1, <2>2, <2>4 DEF Streams
  <1>7. Good(x1)
    BY <1>4, <1>6 DEF Good
  <1>8. CASE y = WithMux(x1, mux_reset(x1.mux, n))
    <2>1. /\ \A i \in Used(x1) : x1.conns[i].sid # n
          /\ \A j \in 1 .. Len(x1.mux.evq) :
               x1.mux.evq[j].type = "STREAM_OPENED" => x1.mux.evq[j].sid # n
      BY <1>3, <1>4, <1>5
    <2> QED
      BY <1>2, <1>3, <1>4, <1>7, <1>8, <2>1, ResetUnknown
  <1>9. CASE /\ x.freelist # <<>>
             /\ y = [conn_alloc(x1, n, "up") EXCEPT !.nactive = @ + 1]
    <2> DEFINE z == conn_alloc(x1, n, "up")
    <2>1. Tracks(Fresh(n), x1.mux.tab[n], x1.mux.evq)
      <3>1. /\ Fresh(n).sid = n /\ Fresh(n).m2s = 0 /\ ~Fresh(n).sock_eof
            /\ ~Fresh(n).stream_fin /\ ~Fresh(n).send_blocked
        BY DEF Fresh
      <3>2. Adds(<<>>, n, 0, 0)
        BY AddsEmpty
      <3>3. \A type : ~Coming(<<>>, type, n)
        BY DEF Coming
      <3>4. FinIsLast(Fresh(n), <<>>)
        BY DEF FinIsLast
      <3> QED
        BY <1>3, <1>4, <3>1, <3>2, <3>3, <3>4 DEF Tracks, Follows, LifeOf
    <2>2. /\ \A i \in Used(x1) : x1.conns[i].sid # n /\ Kept(x1.conns[i])
          /\ \A j \in 1 .. Len(x1.mux.evq) :
               x1.mux.evq[j].type = "STREAM_OPENED" => x1.mux.evq[j].sid # n
          /\ x1.freelist # <<>> /\ n < x1.mux.next_sid /\ ~x1.mux.dead
      BY <1>1, <1>3, <1>4, <1>5, <1>7, <1>9 DEF Good
    <2>3. /\ z \in RelayT /\ Slots(z) /\ Streams(z, 0) /\ \A i \in Used(z) : Kept(z.conns[i])
          /\ z.mux = x1.mux /\ z.role = x1.role /\ z.nactive = x1.nactive
          /\ z.listen_paused = x1.listen_paused
          /\ \E h : Used(z) = Used(x1) \cup {h} /\ h \notin Used(x1)
      BY <1>2, <1>4, <1>6, <2>1, <2>2, Alloc
    <2> HIDE DEF z
    <2>4. y = [z EXCEPT !.nactive = @ + 1]
      BY <1>9 DEF z
    <2>5. /\ y \in RelayT /\ y.conns = z.conns /\ y.freelist = z.freelist /\ y.mux = z.mux
          /\ y.role = z.role /\ y.nactive = z.nactive + 1 /\ y.listen_paused = z.listen_paused
          /\ z.nactive \in Int
      BY <2>3, <2>4 DEF RelayT
    <2>6. Used(y) = Used(z)
      BY <2>5 DEF Used
    <2>7. Slots(y) /\ Streams(y, 0) /\ \A i \in Used(y) : Kept(y.conns[i])
      <3>1. Slots(y) /\ \A i \in Used(y) : Kept(y.conns[i])
        BY <2>3, <2>5, <2>6 DEF Slots
      <3>2. ConnsTrack(y, 0) /\ OnePerStream(y)
        BY <2>3, <2>5, <2>6 DEF Streams, ConnsTrack, OnePerStream
      <3>3. OpenedTrack(y)
        BY <2>3, <2>5, <2>6 DEF Streams, OpenedTrack
      <3> QED
        BY <2>3, <2>5, <3>1, <3>2, <3>3 DEF Streams
    <2>8. Count(y)
      <3>2. MaxStreams \in Nat
        BY RelayAssumption
      <3>3. CASE ~Backend(y)
        <4>1. /\ Sized(Used(x), x.nactive) /\ (x.listen_paused => x.nactive = MaxStreams)
              /\ y.nactive = x.nactive + 1 /\ y.listen_paused = x.listen_paused
              /\ x.nactive \in Int
          BY <1>1, <1>4, <2>3, <2>5, <3>3 DEF Good, Count, Backend
        <4>2. Sized(Used(y), x.nactive + 1)
          BY <1>4, <2>3, <2>6, <4>1, SizedAdd
        <4> QED
          BY <3>2, <4>1, <4>2 DEF Count
      <3> QED
        BY <3>3 DEF Count
    <2> QED
      BY <1>3, <1>4, <2>3, <2>5, <2>7, <2>8 DEF Good
  <1> QED
    BY <1>8, <1>9

\* flush_dirty registers what each connection on the list calls for.
LEMMA EndBatch ==
  ASSUME NEW x, Good(x), NEW y, y = flush_dirty(x)
  PROVE  /\ Good(y) /\ y.mux = x.mux /\ \A i \in Used(y) : ~y.conns[i].in_dirty
  <1> DEFINE c == [i \in Idx |-> IF i \in Used(x) /\ x.conns[i].in_dirty
                                   THEN [conn_apply_interest(x.conns[i]) EXCEPT !.in_dirty = FALSE]
                                   ELSE x.conns[i]]
  <1>1. x \in RelayT /\ x.conns \in [Idx -> ConnT \cup {Unused}]
    BY DEF Good, RelayT
  <1>2. ASSUME NEW k \in ConnT, NEW k2, k2 = [conn_apply_interest(k) EXCEPT !.in_dirty = FALSE]
        PROVE  /\ k2 \in ConnT /\ ~k2.in_dirty /\ Current(k2) /\ k2.sid = k.sid
               /\ k2.sock_eof = k.sock_eof /\ k2.stream_fin = k.stream_fin
               /\ k2.send_blocked = k.send_blocked /\ k2.s2m = k.s2m /\ k2.m2s = k.m2s
    <2> DEFINE a == conn_desired(k).rd
               b == conn_desired(k).wr
    <2>1. a \in BOOLEAN /\ b \in BOOLEAN
      BY DesiredTyped
    <2>2. k2 = [k EXCEPT !.cur_r = a, !.cur_w = b, !.in_dirty = FALSE]
      BY <1>2 DEF conn_apply_interest, ConnT
    <2> HIDE DEF a, b
    <2>3. /\ k2 \in ConnT /\ ~k2.in_dirty /\ k2.cur_r = a /\ k2.cur_w = b /\ k2.sid = k.sid
          /\ k2.sock_eof = k.sock_eof /\ k2.stream_fin = k.stream_fin
          /\ k2.send_blocked = k.send_blocked /\ k2.s2m = k.s2m /\ k2.m2s = k.m2s
          /\ k2.connecting = k.connecting
      BY Zenon, <2>1, <2>2 DEF ConnT
    <2>4. conn_desired(k2) = conn_desired(k)
      BY <2>3 DEF conn_desired
    <2> QED
      BY <2>3, <2>4 DEF Current, a, b
  <1>3. y = [x EXCEPT !.conns = c]
    BY DEF flush_dirty
  <1>4. ASSUME NEW i \in Used(x)
        PROVE  /\ c[i] \in ConnT /\ ~c[i].in_dirty /\ (Faulty(c[i]) \/ Current(c[i]))
               /\ c[i].sid = x.conns[i].sid
               /\ c[i].sock_eof = x.conns[i].sock_eof /\ c[i].stream_fin = x.conns[i].stream_fin
               /\ c[i].send_blocked = x.conns[i].send_blocked
               /\ c[i].s2m = x.conns[i].s2m /\ c[i].m2s = x.conns[i].m2s
    <2>1. i \in Idx /\ x.conns[i] \in ConnT
      BY <1>1 DEF Used
    <2>2. CASE x.conns[i].in_dirty
      <3>1. c[i] = [conn_apply_interest(x.conns[i]) EXCEPT !.in_dirty = FALSE]
        BY <2>1, <2>2
      <3> HIDE DEF c
      <3> QED
        BY Zenon, <1>2, <2>1, <3>1
    <2>3. CASE ~x.conns[i].in_dirty
      <3>1. c[i] = x.conns[i]
        BY <2>1, <2>3
      <3>2. Registered(x.conns[i])
        BY DEF Good, Kept
      <3> HIDE DEF c
      <3> QED
        BY <2>1, <2>3, <3>1, <3>2 DEF Registered
    <2> QED
      BY <2>2, <2>3
  <1>5. \A i \in Idx \ Used(x) : c[i] = Unused
    BY DEF Used
  <1>6. c \in [Idx -> ConnT \cup {Unused}]
    <2>1. \A i \in Idx : c[i] \in ConnT \cup {Unused}
      BY Zenon, <1>4, <1>5
    <2>2. c = [i \in Idx |-> c[i]]
      OBVIOUS
    <2> HIDE DEF c
    <2> QED
      BY <2>1, <2>2
  <1> HIDE DEF c
  <1>7. /\ y \in RelayT /\ y.conns = c /\ y.mux = x.mux /\ y.role = x.role
        /\ y.freelist = x.freelist /\ y.nactive = x.nactive /\ y.listen_paused = x.listen_paused
    BY <1>1, <1>3, <1>6 DEF RelayT
  <1>8. Used(y) = Used(x)
    BY <1>4, <1>5, <1>7, ConnIsUsed DEF Used
  <1>9. Slots(y) /\ Count(y)
    <2>1. \A a \in 1 .. Len(x.freelist) : x.freelist[a] \in Idx
      BY <1>1 DEF RelayT
    <2>2. Slots(y)
      BY <1>5, <1>7, <2>1 DEF Good, Slots, Used
    <2> QED
      BY <1>7, <1>8, <2>2 DEF Good, Count, Backend
  <1>10. \A i \in Used(y) : Kept(y.conns[i]) /\ ~y.conns[i].in_dirty
    BY <1>4, <1>7, <1>8 DEF Good, Kept, Registered, Flagged, Done
  <1>11. ASSUME ~y.mux.dead PROVE Streams(y, 0)
    <2>1. Streams(x, 0)
      BY <1>7, <1>11 DEF Good
    <2>2. ASSUME NEW i \in Used(x), x.conns[i].sid # 0
          PROVE  Tracks(c[i], x.mux.tab[c[i].sid], x.mux.evq)
      <3>1. Tracks(x.conns[i], x.mux.tab[x.conns[i].sid], x.mux.evq)
        BY <2>1, <2>2 DEF Streams, ConnsTrack
      <3> QED
        BY ZenonT(30), <1>4, <3>1 DEF Tracks, Follows, LifeOf, FinIsLast
    <2>3. ConnsTrack(y, 0)
      BY <1>4, <1>7, <1>8, <2>1, <2>2 DEF Streams, ConnsTrack
    <2>4. OnePerStream(y)
      BY <1>4, <1>7, <1>8, <2>1 DEF Streams, OnePerStream
    <2>5. OpenedTrack(y)
      BY <1>4, <1>7, <1>8, <2>1 DEF Streams, OpenedTrack
    <2> QED
      BY <1>7, <2>1, <2>3, <2>4, <2>5 DEF Streams
  <1> QED
    BY <1>7, <1>9, <1>10, <1>11 DEF Good

\* The kernel moves the socket of connection i to state s.
SetSock(x, i, s) == [x EXCEPT !.conns[i].sock = s]

\* A change of a socket in the kernel: a socket in error is exempt from the
\* interest, and one that connects has it unchanged.
LEMMA SockChanges ==
  ASSUME NEW x, Good(x), NEW i \in Used(x), NEW s \in {"up", "failed", "broken"},
         x.conns[i].sock = "connecting" \/ (x.conns[i].sock = "up" /\ s = "broken"),
         NEW y, y = SetSock(x, i, s)
  PROVE  Good(y) /\ y.mux = x.mux /\ Used(y) = Used(x)
         /\ \A j \in Used(y) : y.conns[j].in_dirty = x.conns[j].in_dirty
  <1> DEFINE k == x.conns[i]
             k2 == [k EXCEPT !.sock = s]
  <1>1. Loose(x, i) /\ Tracked(x, i) /\ Kept(k) /\ k \in ConnT
    BY GoodIsLoose DEF Good, RelayT, Used
  <1>2. /\ k2 \in ConnT /\ k2.sid = k.sid /\ k2.m2s = k.m2s /\ k2.s2m = k.s2m
        /\ k2.sock_eof = k.sock_eof /\ k2.stream_fin = k.stream_fin /\ k2.connecting = k.connecting
        /\ k2.send_blocked = k.send_blocked /\ k2.in_dirty = k.in_dirty /\ k2.sock = s
        /\ k2.cur_r = k.cur_r /\ k2.cur_w = k.cur_w
    BY <1>1 DEF ConnT
  <1>3. y = PutOnly(x, i, k2)
    BY DEF PutOnly, SetSock
  <1> HIDE DEF k2
  <1>4. Loose(y, i) /\ y.conns[i] = k2 /\ y.mux = x.mux /\ y = Put(x, i, k2, x.mux)
    BY <1>1, <1>2, <1>3, LoosePutOnly
  <1>5. Tracked(y, i)
    <2>1. y.conns[i] = k2 /\ y.mux = x.mux
      BY <1>4
    <2> QED
      BY <1>1, <1>2, <2>1, TracksSame DEF Tracked
  <1>6. Kept(k2)
    BY Zenon, <1>1, <1>2 DEF Kept, Registered, Current, Faulty, Flagged, Done, conn_desired
  <1>7. Good(y)
    BY <1>4, <1>5, <1>6, LooseIsGood
  <1>8. y.conns = [x.conns EXCEPT ![i] = k2] /\ x.conns \in [Idx -> ConnT \cup {Unused}]
    BY <1>4, <1>1 DEF Put, Loose, RelayT
  <1>9. Used(y) = Used(x) /\ \A j \in Used(x) : y.conns[j].in_dirty = x.conns[j].in_dirty
    BY <1>2, <1>8, ConnIsUsed DEF Used
  <1> QED
    BY <1>4, <1>7, <1>9

-----------------------------------------------------------------------------
(***************************************************************************)
(* The inductive invariant.  Nothing is queued while the loop waits or     *)
(* dispatches, the session is alive while events are handled, and the      *)
(* dirty list is empty when the loop goes to sleep.                        *)
(***************************************************************************)
RelayInv ==
  /\ pc \in {"wait", "dispatch", "recv", "events", "stopped"}
  /\ pc # "stopped" =>
       /\ Good(r)
       /\ pc \in {"recv", "events"} => ~r.mux.dead
       /\ pc \in {"wait", "dispatch"} /\ ~r.mux.dead => r.mux.evq = <<>>
       /\ pc = "wait" => \A i \in Used(r) : ~r.conns[i].in_dirty

\* relay_init.
LEMMA InitInv == Init => RelayInv
  <1> SUFFICES ASSUME Init PROVE RelayInv
    OBVIOUS
  <1>1. PICK role \in Roles :
          r = [role |-> role, conns |-> [i \in Idx |-> Unused], freelist |-> [i \in Idx |-> i],
               mux |-> mux_session_new, nactive |-> 0, listen_paused |-> FALSE]
    BY Zenon DEF Init
  <1>2. /\ r.role = role /\ r.conns = [i \in Idx |-> Unused] /\ r.freelist = [i \in Idx |-> i]
        /\ r.mux = mux_session_new /\ r.nactive = 0 /\ ~r.listen_paused
    BY <1>1
  <1>3. role \in {"edge", "backend"} /\ MaxConns \in Nat /\ MaxStreams \in Nat
    BY RelayAssumption
  <1>4. /\ mux_session_new \in MuxT /\ mux_session_new.evq = <<>> /\ mux_session_new.next_sid = 1
        /\ ~mux_session_new.dead /\ \A sid \in Sids : mux_session_new.tab[sid] = NoStream
    <2> DEFINE t == [sid \in Sids |-> NoStream]
    <2>1. t \in [Sids -> StreamT] /\ \A sid \in Sids : t[sid] = NoStream
      BY NoStreamTyped
    <2>2. mux_session_new = [tab |-> t, next_sid |-> 1, evq |-> <<>>, unconsumed |-> 0,
                             greeted |-> FALSE, dead |-> FALSE]
      BY DEF mux_session_new
    <2> HIDE DEF t
    <2>3. <<>> \in Seq(Event) /\ 1 \in Nat \ {0} /\ 0 \in Int
      OBVIOUS
    <2> QED
      BY <2>1, <2>2, <2>3 DEF MuxT
  <1>5. Used(r) = {} /\ \A i \in Idx : r.conns[i] = Unused
    BY <1>2 DEF Used
  <1>6. r.freelist \in Seq(Idx) /\ Slots(r)
    <2>1. r.freelist = [i \in 1 .. MaxConns |-> i]
      BY <1>2 DEF Idx
    <2>2. r.freelist \in Seq(Idx) /\ Len(r.freelist) = MaxConns
      BY <1>3, <2>1 DEF Idx
    <2> QED
      BY Zenon, <1>5, <2>1, <2>2 DEF Slots, Idx
  <1>7. r \in RelayT
    <2> DEFINE c == [i \in Idx |-> Unused]
               f == [i \in Idx |-> i]
    <2>1. c \in [Idx -> ConnT \cup {Unused}] /\ f \in Seq(Idx)
      BY <1>2, <1>6
    <2> HIDE DEF c, f
    <2>2. r = [role |-> role, conns |-> c, freelist |-> f,
               mux |-> mux_session_new, nactive |-> 0, listen_paused |-> FALSE]
      BY <1>1 DEF c, f
    <2> QED
      BY <1>3, <1>4, <2>1, <2>2 DEF RelayT
  <1>8. Count(r)
    BY <1>2, <1>3, <1>5, SizedEmpty DEF Count
  <1>9. Streams(r, 0)
    BY <1>2, <1>4, <1>5 DEF Streams, ConnsTrack, OnePerStream, OpenedTrack, NextUnused
  <1>10. Good(r)
    BY <1>5, <1>6, <1>7, <1>8, <1>9 DEF Good
  <1> QED
    BY <1>2, <1>4, <1>5, <1>10 DEF Init, RelayInv

\* sidmap_get finds a connection of the stream if there is one.
LEMMA SidMap ==
  ASSUME NEW x, Good(x), NEW sid
  PROVE  /\ sidmap_get(x, sid) # 0 => /\ sidmap_get(x, sid) \in Used(x)
                                      /\ x.conns[sidmap_get(x, sid)].sid = sid
         /\ sidmap_get(x, sid) = 0 => \A i \in Used(x) : x.conns[i].sid # sid
  <1>1. \A i \in Used(x) : i # 0
    BY DEF Used, Idx
  <1> QED
    BY <1>1 DEF sidmap_get

\* A queue of no events is the empty one.
LEMMA EmptyQueue ==
  ASSUME NEW S, NEW q \in Seq(S), Len(q) = 0
  PROVE  q = <<>>
  OBVIOUS

\* Nothing is left of a queue of one event.
LEMMA SingletonTail ==
  ASSUME NEW S, NEW q \in Seq(S), Len(q) = 1
  PROVE  Tail(q) = <<>>
  <1>1. Tail(q) \in Seq(S) /\ Len(Tail(q)) = 0
    OBVIOUS
  <1> QED
    BY Zenon, <1>1, EmptyQueue

\* handle_events leads from a Good relay to one, whatever the event.
LEMMA HandleEvent ==
  ASSUME RelayInv, NEW types, Handling(types),
         Good(r') /\ r'.mux.evq = Tail(r.mux.evq) /\ ~r'.mux.dead
  PROVE  RelayInv'
  <1>1. pc \in {"recv", "events"} /\ Good(r)
    BY DEF Handling, RelayInv
  <1>2. r.mux.evq \in Seq(Event) /\ r.mux.evq # <<>>
    BY <1>1 DEF Handling, Good, RelayT, MuxT
  <1>3. CASE Len(r.mux.evq) = 1
    <2>1. pc' = "dispatch"
      BY <1>3 DEF Handling
    <2>2. Tail(r.mux.evq) = <<>>
      BY <1>2, <1>3, SingletonTail
    <2> QED
      BY <2>1, <2>2 DEF RelayInv
  <1>4. CASE Len(r.mux.evq) # 1
    <2>1. pc' = "events"
      BY <1>4 DEF Handling
    <2> QED
      BY <2>1 DEF RelayInv
  <1> QED
    BY <1>3, <1>4

\* What holds whenever handle_events has an event in hand.
LEMMA Handled ==
  ASSUME RelayInv, NEW types, Handling(types)
  PROVE  /\ Good(r) /\ ~r.mux.dead /\ r.mux.evq # <<>> /\ Ev0 = r.mux.evq[1]
         /\ Ev0.type \in types /\ Next0 = Popped(r)
         /\ Slot # 0 => Slot \in Used(r) /\ r.conns[Slot].sid = r.mux.evq[1].sid
         /\ Slot = 0 => \A i \in Used(r) : r.conns[i].sid # r.mux.evq[1].sid
  <1>1. Good(r) /\ ~r.mux.dead /\ r.mux.evq # <<>> /\ Ev0.type \in types
    BY DEF Handling, RelayInv
  <1>2. r.mux.evq \in Seq(Event) /\ r \in RelayT
    BY <1>1 DEF Good, RelayT, MuxT
  <1>3. Ev0 = r.mux.evq[1]
    BY <1>1, <1>2 DEF Ev0
  <1>4. Next0 = Popped(r)
    BY DEF Next0, Popped, WithMux
  <1>5. \A i \in Used(r) : r.conns[i].sid # 0
    BY <1>2 DEF RelayT, Used, ConnT, Sids
  <1> QED
    BY <1>1, <1>3, <1>4, <1>5, SidMap DEF Slot

\* A greeting says nothing of any stream.
LEMMA HelloTracks ==
  ASSUME NEW q \in Seq(Event), q # <<>>, NEW k, NEW t, q[1].type = "PEER_HELLO",
         k.m2s \in Int, Tracks(k, t, q)
  PROVE  Tracks(k, t, Tail(q))
  <1>1. \A type \in {"STREAM_CLOSED", "STREAM_RESET", "WRITABLE"} :
          Coming(Tail(q), type, k.sid) <=> Coming(q, type, k.sid)
    BY ComingTail
  <1>2. t.life # "NONE" => Adds(Tail(q), k.sid, k.m2s, t.held)
    <2>1. BytesOf(q[1], k.sid) = 0 /\ k.m2s + 0 = k.m2s
      BY DEF BytesOf
    <2> QED
      BY <2>1, AddsTail DEF Tracks, Follows
  <1>3. FinIsLast(k, Tail(q))
    <2>1. FinIsLast(k, q)
      BY DEF Tracks, Follows
    <2> QED
      BY <2>1, FinIsLastTail
  <1> QED
    BY <1>1, <1>2, <1>3 DEF Tracks, Follows, LifeOf

\* handle_events, MUX_EV_PEER_HELLO, whatever id it carries.
LEMMA HandleHello ==
  ASSUME NEW x, Good(x), ~x.mux.dead, x.mux.evq # <<>>, x.mux.evq[1].type = "PEER_HELLO",
         NEW i \in Used(x), x.conns[i].sid = x.mux.evq[1].sid
  PROVE  Good(Popped(x))
  <1> DEFINE y == Popped(x)
             k == y.conns[i]
             q == x.mux.evq
  <1>1. /\ Loose(y, i) /\ k \in ConnT /\ Registered(k) /\ Flagged(k) /\ ~Done(k)
        /\ Tracks(k, y.mux.tab[k.sid], q) /\ y.mux.evq = Tail(q)
    BY PopKnown
  <1>2. q \in Seq(Event) /\ k.m2s \in Int
    BY <1>1 DEF Good, RelayT, MuxT, ConnT
  <1>3. Tracks(k, y.mux.tab[k.sid], Tail(q))
    BY <1>1, <1>2, HelloTracks
  <1>4. Tracked(y, i) /\ Kept(k)
    BY <1>1, <1>3 DEF Tracked, Kept
  <1> QED
    BY <1>1, <1>4, LooseIsGood

\* OnOpened preserves the invariant.
LEMMA StepOpened == RelayInv /\ OnOpened => RelayInv'
  <1> SUFFICES ASSUME RelayInv, OnOpened PROVE RelayInv'
    OBVIOUS
  <1>1. Handling({"STREAM_OPENED"})
    BY DEF OnOpened
  <1>2. /\ Good(r) /\ ~r.mux.dead /\ r.mux.evq # <<>> /\ Ev0 = r.mux.evq[1]
        /\ Ev0.type = "STREAM_OPENED" /\ Next0 = Popped(r)
    BY <1>1, Handled
  <1>3. \/ Backend(r) /\ r.freelist # <<>> /\ r' = conn_alloc(Popped(r), Ev0.sid, "connecting")
        \/ r' = WithMux(Popped(r), mux_reset(Popped(r).mux, Ev0.sid))
    BY <1>2 DEF OnOpened, WithMux
  <1>4. Good(r') /\ r'.mux.evq = Tail(r.mux.evq) /\ ~r'.mux.dead
    BY <1>2, <1>3, HandleOpened
  <1> QED
    BY <1>1, <1>4, HandleEvent

\* OnData preserves it.
LEMMA StepData == RelayInv /\ OnData => RelayInv'
  <1> SUFFICES ASSUME RelayInv, OnData PROVE RelayInv'
    OBVIOUS
  <1> DEFINE z == TakeBytes(Popped(r), Slot, r.mux.evq[1].n)
  <1>1. Handling({"STREAM_DATA"}) /\ Slot # 0
    BY DEF OnData
  <1>2. /\ Good(r) /\ ~r.mux.dead /\ r.mux.evq # <<>> /\ Ev0 = r.mux.evq[1]
        /\ Ev0.type = "STREAM_DATA" /\ Next0 = Popped(r)
        /\ Slot \in Used(r) /\ r.conns[Slot].sid = r.mux.evq[1].sid
    BY <1>1, Handled
  <1>3. \/ r' = mark_dirty(z, Slot)
        \/ \E w \in Writes(z.conns[Slot]) : r' = flush_to_socket(z, Slot, w)
    BY <1>2 DEF OnData, TakeBytes
  <1> HIDE DEF z
  <1>4. Good(r') /\ r'.mux.evq = Tail(r.mux.evq) /\ ~r'.mux.dead
    BY Zenon, <1>2, <1>3, HandleData DEF z
  <1> QED
    BY <1>1, <1>4, HandleEvent

\* OnClosed preserves it.
LEMMA StepClosed == RelayInv /\ OnClosed => RelayInv'
  <1> SUFFICES ASSUME RelayInv, OnClosed PROVE RelayInv'
    OBVIOUS
  <1> DEFINE z == TakeFin(Popped(r), Slot)
  <1>1. Handling({"STREAM_CLOSED"}) /\ Slot # 0
    BY DEF OnClosed
  <1>2. /\ Good(r) /\ ~r.mux.dead /\ r.mux.evq # <<>> /\ Ev0 = r.mux.evq[1]
        /\ Ev0.type = "STREAM_CLOSED" /\ Next0 = Popped(r)
        /\ Slot \in Used(r) /\ r.conns[Slot].sid = r.mux.evq[1].sid
    BY <1>1, Handled
  <1>3. \/ r' = conn_maybe_finish(z, Slot)
        \/ \E w \in Writes(z.conns[Slot]) :
             r' = conn_maybe_finish(flush_to_socket(z, Slot, w), Slot)
    BY Zenon, <1>2 DEF OnClosed, TakeFin
  <1> HIDE DEF z
  <1>4. Good(r') /\ r'.mux.evq = Tail(r.mux.evq) /\ ~r'.mux.dead
    BY <1>2, <1>3, HandleClosed DEF z
  <1> QED
    BY <1>1, <1>4, HandleEvent

\* OnReset preserves it.
LEMMA StepReset == RelayInv /\ OnReset => RelayInv'
  <1> SUFFICES ASSUME RelayInv, OnReset PROVE RelayInv'
    OBVIOUS
  <1>1. Handling({"STREAM_RESET"}) /\ Slot # 0
    BY DEF OnReset
  <1>2. /\ Good(r) /\ ~r.mux.dead /\ r.mux.evq # <<>> /\ Next0 = Popped(r)
        /\ Slot \in Used(r) /\ r.conns[Slot].sid = r.mux.evq[1].sid
    BY <1>1, Handled
  <1>3. /\ Loose(Popped(r), Slot) /\ ~Popped(r).mux.dead
        /\ Popped(r).mux.evq = Tail(r.mux.evq)
    BY <1>2, PopKnown
  <1>4. r' = conn_destroy(Popped(r), Slot)
    BY <1>2 DEF OnReset
  <1>5. Good(r') /\ r'.mux.evq = Tail(r.mux.evq) /\ ~r'.mux.dead
    BY <1>3, <1>4, LooseDestroy
  <1> QED
    BY <1>1, <1>5, HandleEvent

\* OnWritable preserves it.
LEMMA StepWritable == RelayInv /\ OnWritable => RelayInv'
  <1> SUFFICES ASSUME RelayInv, OnWritable PROVE RelayInv'
    OBVIOUS
  <1>1. Handling({"WRITABLE"}) /\ Slot # 0
    BY DEF OnWritable
  <1>2. /\ Good(r) /\ ~r.mux.dead /\ r.mux.evq # <<>> /\ Ev0 = r.mux.evq[1]
        /\ Ev0.type = "WRITABLE" /\ Next0 = Popped(r)
        /\ Slot \in Used(r) /\ r.conns[Slot].sid = r.mux.evq[1].sid
    BY <1>1, Handled
  <1>3. PICK w \in Takes(r.mux, r.mux.evq[1].sid, r.conns[Slot].s2m) :
          r' = flush_to_mux(Popped(r), Slot, w)
    BY <1>2 DEF OnWritable
  <1>4. Good(r') /\ r'.mux.evq = Tail(r.mux.evq) /\ ~r'.mux.dead
    BY <1>2, <1>3, HandleWritable
  <1> QED
    BY <1>1, <1>4, HandleEvent

\* OnIgnored preserves it.
LEMMA StepIgnored == RelayInv /\ OnIgnored => RelayInv'
  <1> SUFFICES ASSUME RelayInv, OnIgnored PROVE RelayInv'
    OBVIOUS
  <1> DEFINE others == {"STREAM_DATA", "STREAM_CLOSED", "STREAM_RESET", "WRITABLE"}
  <1>1. PICK types \in {{"PEER_HELLO"}, others} :
          Handling(types) /\ (types = {"PEER_HELLO"} \/ Slot = 0)
    BY DEF OnIgnored
  <1>2. /\ Good(r) /\ ~r.mux.dead /\ r.mux.evq # <<>> /\ Ev0 = r.mux.evq[1]
        /\ Ev0.type \in types /\ Next0 = Popped(r)
        /\ Slot # 0 => Slot \in Used(r) /\ r.conns[Slot].sid = r.mux.evq[1].sid
        /\ Slot = 0 => \A i \in Used(r) : r.conns[i].sid # r.mux.evq[1].sid
    BY <1>1, Handled
  <1>3. r' = Popped(r)
    BY <1>2 DEF OnIgnored
  <1>4. Popped(r).mux.evq = Tail(r.mux.evq) /\ ~Popped(r).mux.dead
    BY ZenonT(30), <1>2, Pop
  <1>5. Good(Popped(r))
    <2>1. CASE Slot = 0
      BY <1>2, <2>1, PopUnknown
    <2>2. CASE Slot # 0
      BY <1>1, <1>2, <2>2, HandleHello
    <2> QED
      BY <2>1, <2>2
  <1>6. Good(r') /\ r'.mux.evq = Tail(r.mux.evq) /\ ~r'.mux.dead
    BY <1>3, <1>4, <1>5
  <1> QED
    BY <1>1, <1>6, HandleEvent

\* The frames that StreamFrames gathers.
LEMMA StreamFrame ==
  ASSUME NEW m, NEW f \in StreamFrames(m)
  PROVE  \E sid \in Sids :
           \/ \E n \in 1 .. Win : f \in recv_data(m, sid, n)
           \/ f \in recv_fin(m, sid)
           \/ f \in recv_rst(m, sid)
           \/ f \in recv_credit(m, sid)
  <1>1. PICK sid \in Sids : f \in (UNION {recv_data(m, sid, n) : n \in 1 .. Win})
                                  \cup recv_fin(m, sid) \cup recv_rst(m, sid)
                                  \cup recv_credit(m, sid)
    BY DEF StreamFrames
  <1> DEFINE D == UNION {recv_data(m, sid, n) : n \in 1 .. Win}
  <1>2. f \in D => \E n \in 1 .. Win : f \in recv_data(m, sid, n)
    OBVIOUS
  <1>3. f \in D \cup recv_fin(m, sid) \cup recv_rst(m, sid) \cup recv_credit(m, sid)
    BY <1>1
  <1> HIDE DEF D
  <1>4. \/ f \in D \/ f \in recv_fin(m, sid) \/ f \in recv_rst(m, sid)
        \/ f \in recv_credit(m, sid)
    BY <1>3
  <1> QED
    BY <1>2, <1>4

\* Recv preserves it, whichever frame comes.
LEMMA StepRecv == RelayInv /\ Recv => RelayInv'
  <1> SUFFICES ASSUME RelayInv, Recv PROVE RelayInv'
    OBVIOUS
  <1>1. pc = "recv" /\ pc' = pc /\ Good(r)
    BY DEF Recv, RelayInv
  <1>2. PICK m \in recv_hello(r.mux, 1) \cup StreamFrames(r.mux) \cup recv_syn(r.mux) :
          r' = WithMux(r, m)
    BY DEF Recv, WithMux
  <1>3. Good(WithMux(r, m)) /\ ~m.dead
    <2>1. CASE m \in recv_hello(r.mux, 1)
      BY <1>1, <2>1, RecvHello
    <2>2. CASE m \in recv_syn(r.mux)
      BY <1>1, <2>2, RecvSyn
    <2>3. CASE m \in StreamFrames(r.mux)
      <3>1. PICK sid \in Sids :
              \/ \E n \in 1 .. Win : m \in recv_data(r.mux, sid, n)
              \/ m \in recv_fin(r.mux, sid)
              \/ m \in recv_rst(r.mux, sid)
              \/ m \in recv_credit(r.mux, sid)
        BY <2>3, StreamFrame
      <3>2. CASE \E n \in 1 .. Win : m \in recv_data(r.mux, sid, n)
        <4>1. PICK n \in 1 .. Win : m \in recv_data(r.mux, sid, n)
          BY <3>2
        <4>2. n \in Nat
          BY HostMuxAssumption
        <4> QED
          BY <1>1, <4>1, <4>2, RecvData
      <3>3. CASE m \in recv_fin(r.mux, sid)
        BY <1>1, <3>3, RecvFin
      <3>4. CASE m \in recv_rst(r.mux, sid)
        BY <1>1, <3>4, RecvRst
      <3>5. CASE m \in recv_credit(r.mux, sid)
        BY <1>1, <3>5, RecvCredit
      <3> QED
        BY <3>1, <3>2, <3>3, <3>4, <3>5
    <2> QED
      BY <1>2, <2>1, <2>2, <2>3
  <1>4. WithMux(r, m).mux = m
    BY <1>1 DEF Good, RelayT, WithMux
  <1> QED
    BY <1>1, <1>2, <1>3, <1>4 DEF RelayInv

\* AcceptClient preserves it.
LEMMA StepAccept == RelayInv /\ AcceptClient => RelayInv'
  <1> SUFFICES ASSUME RelayInv, AcceptClient PROVE RelayInv'
    OBVIOUS
  <1> DEFINE x1 == WithMux(r, mux_open(r.mux))
             n == r.mux.next_sid
  <1>1. /\ pc = "dispatch" /\ pc' = pc /\ Good(r) /\ CanOpen(r.mux) /\ r.nactive < MaxStreams
        /\ r.mux.evq = <<>>
    BY DEF AcceptClient, RelayInv, CanOpen
  <1>2. \/ r.freelist # <<>> /\ r' = [conn_alloc(x1, n, "up") EXCEPT !.nactive = @ + 1]
        \/ r' = WithMux(x1, mux_reset(x1.mux, n))
    BY DEF AcceptClient, WithMux
  <1>3. Good(r') /\ r'.mux.evq = <<>> /\ ~r'.mux.dead
    BY <1>1, <1>2, Accept
  <1> QED
    BY <1>1, <1>3 DEF RelayInv

\* The relay with listen_paused set to b.
Paused(x, b) == [x EXCEPT !.listen_paused = b]

\* The listener may be paused when the cap is reached.
LEMMA PauseIsGood ==
  ASSUME NEW x, Good(x), NEW b \in BOOLEAN, b => x.listen_paused \/ x.nactive >= MaxStreams
  PROVE  Good(Paused(x, b)) /\ Paused(x, b).mux = x.mux
  <1> DEFINE y == Paused(x, b)
  <1>1. x \in RelayT /\ x.nactive \in Int /\ MaxStreams \in Nat
    BY RelayAssumption DEF Good, RelayT
  <1>2. /\ y \in RelayT /\ y.conns = x.conns /\ y.mux = x.mux /\ y.freelist = x.freelist
        /\ y.role = x.role /\ y.nactive = x.nactive /\ y.listen_paused = b
    BY <1>1 DEF RelayT, Paused
  <1>3. Used(y) = Used(x)
    BY <1>2 DEF Used
  <1>4. Slots(y)
    BY <1>2 DEF Good, Slots
  <1>5. Count(y)
    BY <1>1, <1>2, <1>3 DEF Good, Count, Backend
  <1>6. ~y.mux.dead => Streams(y, 0)
    BY Zenon, <1>2, <1>3 DEF Good, Streams, ConnsTrack, OnePerStream, OpenedTrack
  <1> HIDE DEF y
  <1>7. Good(y)
    BY <1>2, <1>3, <1>4, <1>5, <1>6 DEF Good
  <1> QED
    BY <1>2, <1>7 DEF y

\* AcceptDone preserves it.
LEMMA StepAcceptDone == RelayInv /\ AcceptDone => RelayInv'
  <1> SUFFICES ASSUME RelayInv, AcceptDone PROVE RelayInv'
    OBVIOUS
  <1> DEFINE b == r.listen_paused \/ r.nactive >= MaxStreams
  <1>1. pc = "dispatch" /\ pc' = pc /\ Good(r)
    BY DEF AcceptDone, Dispatch, RelayInv
  <1>2. r' = Paused(r, b)
    BY DEF AcceptDone, Paused
  <1>3. b \in BOOLEAN
    OBVIOUS
  <1>4. Good(r') /\ r'.mux = r.mux
    BY Zenon, <1>1, <1>2, <1>3, PauseIsGood
  <1> QED
    BY <1>1, <1>4 DEF RelayInv

\* SocketReady preserves it, also when the slot has changed hands since.
LEMMA StepSocket ==
  ASSUME NEW i \in Idx, RelayInv, SocketReady(i)
  PROVE  RelayInv'
  <1>1. pc = "dispatch" /\ pc' = pc /\ Good(r)
    BY DEF SocketReady, Dispatch, RelayInv
  <1>2. CASE r' = r
    BY <1>1, <1>2 DEF RelayInv
  <1>3. CASE i \in Used(r) /\ r' # r
    <2>1. PICK x \in (IF i \in batch.wr THEN on_sock_writable(r, i) ELSE {r}) :
            r' \in (IF i \in Used(x) /\ i \in batch.rd THEN on_sock_readable(x, i) ELSE {x})
      BY <1>3 DEF SocketReady
    <2>2. Good(x) /\ x.mux.evq = r.mux.evq /\ x.mux.dead = r.mux.dead
      <3>1. x \in on_sock_writable(r, i) \/ x = r
        BY <2>1
      <3> QED
        BY <1>1, <1>3, <3>1, OnSockWritable
    <2>3. Good(r') /\ r'.mux.evq = r.mux.evq /\ r'.mux.dead = r.mux.dead
      <3>1. (i \in Used(x) /\ r' \in on_sock_readable(x, i)) \/ r' = x
        BY <2>1
      <3>2. CASE r' = x
        BY <2>2, <3>2
      <3>3. CASE i \in Used(x) /\ r' \in on_sock_readable(x, i)
        <4>1. Good(r') /\ r'.mux.evq = x.mux.evq /\ r'.mux.dead = x.mux.dead
          BY <2>2, <3>3, OnSockReadable
        <4> QED
          BY <2>2, <4>1
      <3> QED
        BY <3>1, <3>2, <3>3
    <2> QED
      BY <1>1, <2>3 DEF RelayInv
  <1> QED
    BY <1>2, <1>3 DEF SocketReady

\* EndOfBatch preserves it and empties the dirty list.
LEMMA StepEndOfBatch == RelayInv /\ EndOfBatch => RelayInv'
  <1> SUFFICES ASSUME RelayInv, EndOfBatch PROVE RelayInv'
    OBVIOUS
  <1>1. pc = "dispatch" /\ pc' = "wait" /\ Good(r) /\ r' = flush_dirty(r)
    BY DEF EndOfBatch, RelayInv
  <1>2. Good(r') /\ r'.mux = r.mux /\ \A i \in Used(r') : ~r'.conns[i].in_dirty
    BY <1>1, EndBatch
  <1> QED
    BY <1>1, <1>2 DEF RelayInv, Used

\* Nothing is asked of the streams of a dead session.
LEMMA DeadIsGood ==
  ASSUME NEW x, Good(x), NEW m \in MuxT, m.dead
  PROVE  Good(WithMux(x, m))
  <1> DEFINE y == WithMux(x, m)
  <1>1. /\ y \in RelayT /\ y.mux = m /\ y.conns = x.conns /\ Used(y) = Used(x)
        /\ Slots(y) /\ Count(y)
    BY SetMux DEF Good
  <1> HIDE DEF y
  <1>2. Good(y)
    BY <1>1 DEF Good
  <1> QED
    BY <1>2 DEF y

\* Fail preserves it.
LEMMA StepFail == RelayInv /\ Fail => RelayInv'
  <1> SUFFICES ASSUME RelayInv, Fail PROVE RelayInv'
    OBVIOUS
  <1> DEFINE m == raise_fatal(r.mux)
             p == Queue(r.mux, "FATAL", 0, 0)
  <1>1. pc \in {"wait", "dispatch"} /\ pc' = pc /\ Good(r) /\ r' = WithMux(r, m)
    BY DEF Fail, RelayInv, WithMux
  <1>2. r \in RelayT /\ r.mux \in MuxT /\ "FATAL" \in EventType /\ 0 \in 0 .. MaxSid
    BY <1>1, HostMuxAssumption DEF Good, RelayT, EventType
  <1>3. m \in MuxT /\ m.dead
    <2>1. p \in MuxT /\ m = [p EXCEPT !.dead = TRUE]
      BY <1>2, QueueTyped DEF raise_fatal
    <2> HIDE DEF p, m
    <2> QED
      BY Zenon, <2>1 DEF MuxT
  <1> HIDE DEF m
  <1>4. Good(r')
    BY <1>1, <1>3, DeadIsGood
  <1>5. r'.mux = m /\ r'.conns = r.conns /\ Used(r') = Used(r)
    BY <1>1, <1>2, <1>3, SetMux
  <1>6. pc = "wait" => \A i \in Used(r') : ~r'.conns[i].in_dirty
    BY <1>1, <1>5 DEF RelayInv
  <1> QED
    BY <1>1, <1>3, <1>4, <1>5, <1>6 DEF RelayInv, Used

\* KernelStep preserves it.
LEMMA StepKernel ==
  ASSUME NEW i \in Idx, RelayInv, KernelStep(i)
  PROVE  RelayInv'
  <1>1. pc \in {"wait", "dispatch"} /\ pc' = pc /\ Good(r) /\ i \in Used(r)
    BY DEF KernelStep, RelayInv
  <1>2. PICK s \in {"up", "failed", "broken"} :
          /\ r.conns[i].sock = "connecting" \/ (r.conns[i].sock = "up" /\ s = "broken")
          /\ r' = SetSock(r, i, s)
    <2>1. PICK s \in CASE r.conns[i].sock = "connecting" -> {"up", "failed"}
                       [] r.conns[i].sock = "up" -> {"broken"}
                       [] OTHER -> {} :
            r' = SetSock(r, i, s)
      BY DEF KernelStep, SetSock
    <2> QED
      BY <2>1
  <1>3. /\ Good(r') /\ r'.mux = r.mux /\ Used(r') = Used(r)
        /\ \A j \in Used(r') : r'.conns[j].in_dirty = r.conns[j].in_dirty
    BY <1>1, <1>2, SockChanges
  <1>4. pc = "wait" => \A j \in Used(r') : ~r'.conns[j].in_dirty
    BY <1>1, <1>3 DEF RelayInv
  <1> QED
    BY <1>1, <1>3, <1>4 DEF RelayInv, Used

\* Every step of the relay preserves the invariant.
LEMMA StepInv == RelayInv /\ [Next]_vars => RelayInv'
  <1> SUFFICES ASSUME RelayInv, [Next]_vars PROVE RelayInv'
    OBVIOUS
  <1>1. CASE evloop_wait \/ TunnelReadable
    BY <1>1 DEF evloop_wait, TunnelReadable, Dispatch, RelayInv, Used
  <1>2. CASE TunnelClosed \/ Stop
    BY <1>2 DEF TunnelClosed, Stop, relay_free, RelayInv
  <1>3. CASE RecvNothing
    BY <1>3 DEF RecvNothing, RelayInv
  <1>4. CASE UNCHANGED vars
    BY <1>4 DEF vars, RelayInv, Used
  <1> QED
    BY <1>1, <1>2, <1>3, <1>4, StepRecv, StepOpened, StepData, StepClosed, StepReset,
       StepWritable, StepIgnored, StepAccept, StepAcceptDone, StepSocket, StepKernel,
       StepEndOfBatch, StepFail DEF Next

\* With nothing queued, to be tracked is to be mirrored.
LEMMA InvMirrors == RelayInv => MirrorsStream
  <1> SUFFICES ASSUME RelayInv, Settled, NEW i \in Used(r)
               PROVE  /\ r.mux.tab[r.conns[i].sid].life =
                           CASE r.conns[i].sock_eof /\ r.conns[i].stream_fin -> "NONE"
                             [] r.conns[i].sock_eof /\ ~r.conns[i].stream_fin -> "HCL_LOCAL"
                             [] ~r.conns[i].sock_eof /\ r.conns[i].stream_fin -> "HCL_REMOTE"
                             [] OTHER -> "OPEN"
                      /\ r.conns[i].sid \in Live(r.mux) =>
                           r.mux.tab[r.conns[i].sid].held = r.conns[i].m2s
                      /\ \A j \in Used(r) : r.conns[j].sid = r.conns[i].sid => j = i
    BY DEF MirrorsStream
  <1> DEFINE k == r.conns[i]
             t == r.mux.tab[k.sid]
  <1>1. Good(r) /\ ~r.mux.dead /\ r.mux.evq = <<>>
    BY DEF RelayInv, Settled
  <1>2. /\ k \in ConnT /\ t \in StreamT /\ k.m2s \in Int /\ t.held \in Int
        /\ k.sock_eof \in BOOLEAN /\ k.stream_fin \in BOOLEAN /\ k.sid \in Sids
    BY <1>1 DEF Good, RelayT, MuxT, ConnT, StreamT, Used
  <1>3. Streams(r, 0) /\ k.sid # 0
    BY <1>1, <1>2 DEF Good, Sids
  <1>4. Follows(k, t, <<>>) /\ \A j \in Used(r) : r.conns[j].sid = k.sid => j = i
    BY <1>1, <1>3 DEF Streams, ConnsTrack, OnePerStream, Tracks
  <1> HIDE DEF k, t
  <1>5. \A type, sid : ~Coming(<<>>, type, sid)
    BY DEF Coming
  <1>6. t.life = LifeOf(k.sock_eof, k.stream_fin, FALSE)
    BY <1>2, <1>4, <1>5 DEF Follows, LifeOf
  <1>7. t.life # "NONE" => t.held = k.m2s
    BY <1>2, <1>4, AddsEmpty DEF Follows
  <1>8. t.life = CASE k.sock_eof /\ k.stream_fin -> "NONE"
                   [] k.sock_eof /\ ~k.stream_fin -> "HCL_LOCAL"
                   [] ~k.sock_eof /\ k.stream_fin -> "HCL_REMOTE"
                   [] OTHER -> "OPEN"
    BY <1>2, <1>6 DEF LifeOf
  <1> QED
    BY <1>4, <1>7, <1>8 DEF k, t, Live

\* With nothing queued, the wake-up of a blocked connection is still to come.
LEMMA InvBlocked == RelayInv => BlockedHasWakeup
  <1> SUFFICES ASSUME RelayInv, Settled, NEW i \in Used(r)
               PROVE  /\ r.conns[i].send_blocked <=> r.conns[i].s2m > 0
                      /\ r.conns[i].send_blocked => r.mux.tab[r.conns[i].sid].send_blocked
    BY DEF BlockedHasWakeup
  <1> DEFINE k == r.conns[i]
  <1>1. Good(r) /\ ~r.mux.dead /\ r.mux.evq = <<>>
    BY DEF RelayInv, Settled
  <1>2. k.sid # 0 /\ Kept(k) /\ Streams(r, 0)
    BY <1>1 DEF Good, RelayT, ConnT, Used, Sids
  <1>3. Tracks(k, r.mux.tab[k.sid], <<>>)
    BY <1>1, <1>2 DEF Streams, ConnsTrack
  <1> QED
    BY <1>2, <1>3 DEF Kept, Flagged, Tracks, Coming

\* Sized and Cardinality agree.
LEMMA SizedIsCardinality ==
  ASSUME NEW S, NEW n, Sized(S, n)
  PROVE  n = Cardinality(S)
  <1>1. n \in Nat
    BY DEF Sized
  <1>2. PICK f \in [1 .. n -> S] : /\ \A d \in S : \E j \in 1 .. n : f[j] = d
                                  /\ \A j, l \in 1 .. n : f[j] = f[l] => j = l
    BY DEF Sized
  <1>3. f \in Bijection(1 .. n, S)
    BY <1>2 DEF Bijection, Injection, Surjection, IsInjective
  <1>4. ExistsBijection(1 .. n, S)
    BY <1>3 DEF ExistsBijection
  <1> QED
    BY <1>1, <1>4, FS_CountingElements

\* The loop's own promises are conjuncts of the invariant.
LEMMA InvLoop == RelayInv => InterestCurrent /\ FinishedReleased /\ ListenerResumes
  <1> SUFFICES ASSUME RelayInv PROVE InterestCurrent /\ FinishedReleased /\ ListenerResumes
    OBVIOUS
  <1>1. InterestCurrent
    BY DEF RelayInv, Good, Kept, Registered, Current, InterestCurrent
  <1>2. FinishedReleased
    BY DEF RelayInv, Good, Kept, Done, FinishedReleased
  <1>3. ListenerResumes
    BY SizedIsCardinality DEF RelayInv, Good, Count, ListenerResumes
  <1> QED
    BY <1>1, <1>2, <1>3

(***************************************************************************)
(* Every call of the loop, in every order, keeps connections, streams and  *)
(* queued events in step (handle_events, accept_public, on_sock_readable,  *)
(* on_sock_writable, flush_dirty, conn_alloc, conn_destroy).               *)
(***************************************************************************)
THEOREM RelayIsInductive == Spec => []RelayInv
  <1> QED
    BY InitInv, StepInv, PTL DEF Spec

(***************************************************************************)
(* With its events handled, a connection and its stream agree on the       *)
(* directions that have ended and on the bytes held, and a stream has one  *)
(* connection: no byte is credited twice or never.                         *)
(***************************************************************************)
THEOREM RelayMirrorsStream == Spec => []MirrorsStream
  <1> QED
    BY RelayIsInductive, InvMirrors, PTL

(***************************************************************************)
(* A socket that is not read for want of window has a stream that will     *)
(* report WRITABLE (short write in on_sock_readable, flush_to_mux).        *)
(***************************************************************************)
THEOREM RelayBlockedHasWakeup == Spec => []BlockedHasWakeup
  <1> QED
    BY RelayIsInductive, InvBlocked, PTL

(***************************************************************************)
(* The interest registered with the kernel when the loop sleeps is the one *)
(* that conn_desired gives, although mark_dirty is called in some places   *)
(* only and flush_dirty looks at the list only.                            *)
(***************************************************************************)
THEOREM RelayInterestCurrent == Spec => []InterestCurrent
  <1> QED
    BY RelayIsInductive, InvLoop, PTL

(***************************************************************************)
(* No connection that is done in both directions outlives the call that    *)
(* finished it (conn_maybe_finish).                                        *)
(***************************************************************************)
THEOREM RelayFinishedReleased == Spec => []FinishedReleased
  <1> QED
    BY RelayIsInductive, InvLoop, PTL

(***************************************************************************)
(* The listener is paused only while the cap is reached, and nactive is    *)
(* the number of public connections (accept_public, conn_destroy).         *)
(***************************************************************************)
THEOREM RelayListenerResumes == Spec => []ListenerResumes
  <1> QED
    BY RelayIsInductive, InvLoop, PTL
=============================================================================
