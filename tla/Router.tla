------------------------------- MODULE Router -------------------------------
(***************************************************************************)
(* The edge-peer (src/edge-peer/router.c): a single-threaded poll loop over*)
(* tunnels to edges, which open streams, and to workers, towards which it  *)
(* opens one stream per inbound stream and splices the two.                *)
(*                                                                         *)
(* Tunnels are HostMux sessions.  Bytes are counted, not kept.  check_auth *)
(* is taken in the configuration without a token, where it always accepts. *)
(* g_stop only ends the loop and is left out.                              *)
(***************************************************************************)
EXTENDS HostMux, Swrr, FiniteSetsExt

CONSTANTS
  NEdges,           \* nedges
  MaxWeight,        \* bound: weights that workers advertise
  MaxBatch          \* bound: frames that one conn_read takes in

ASSUME RouterAssumption ==
  NEdges \in Nat \ {0} /\ MaxWeight \in Nat \ {0} /\ MaxBatch \in Nat \ {0}

VARIABLES
  e,                \* struct ep_state: the tunnels and the routes
  cur,              \* the tunnel whose events are handled, or Poll
  reading           \* cur is still taking in frames

vars == <<e, cur, reading>>

Poll == <<"poll", 0>>
Edges == {"edge"} \X (1 .. NEdges)
Wk(i) == <<"worker", i>>
Tunnels == Edges \cup {Wk(i) : i \in Workers}
Weights == 0 .. MaxWeight

Sides == {"up", "down"}
Opp(side) == IF side = "up" THEN "down" ELSE "up"
SideOf(t) == IF t \in Edges THEN "up" ELSE "down"

\* pend[side] are the bytes read from that side and not yet taken by the
\* other (u2w for "up", w2u for "down"); fin[side] is up_fin or down_fin.
Ids == 1 .. NEdges * MaxSid
Route == [conn : [Sides -> Tunnels], sid : [Sides -> Sids],
          pend : [Sides -> 0 .. Win], fin : [Sides -> BOOLEAN]]
Free == [free |-> TRUE]
Allocated(x) == {id \in Ids : x.heap[id] # Free}

Conn == [fd : {"down", "connecting", "up"}, mux : Mux, ready : BOOLEAN,
         weight : Weights, swrr_cw : Int, inflight : Nat,
         routes : [Sids -> Ids \cup {0}]]
Down ==
  [fd |-> "down", mux |-> mux_session_new, ready |-> FALSE, weight |-> 0,
   swrr_cw |-> 0, inflight |-> 0, routes |-> [sid \in Sids |-> 0]]

Up(x, t) == x.conn[t].fd = "up"
-----------------------------------------------------------------------------
route_new(x, edge, up_sid, wk, down_sid) ==
  LET id == Min(Ids \ Allocated(x)) IN
  [x EXCEPT
    !.heap[id] = [conn |-> [side \in Sides |-> IF side = "up" THEN edge ELSE wk],
                  sid |-> [side \in Sides |-> IF side = "up" THEN up_sid ELSE down_sid],
                  pend |-> [side \in Sides |-> 0],
                  fin |-> [side \in Sides |-> FALSE]],
    !.conn[edge].routes[up_sid] = id,
    !.conn[wk].routes[down_sid] = id,
    !.conn[wk].inflight = @ + 1]

\* Fault: the worker keeps its entry of the freed route.
route_free_one_map(x, id) ==
  LET r == x.heap[id] IN
  [x EXCEPT !.conn[r.conn["up"]].routes[r.sid["up"]] = 0, !.heap[id] = Free]

route_free(x, id) ==
  LET r == x.heap[id] IN
  [x EXCEPT
    !.conn[r.conn["up"]].routes[r.sid["up"]] = 0,
    !.conn[r.conn["down"]].routes[r.sid["down"]] = 0,
    !.conn[r.conn["down"]].inflight = IF @ > 0 THEN @ - 1 ELSE @,
    !.heap[id] = Free]

\* mux_reset of the route's stream on one side.
reset_side(x, id, side) ==
  LET r == x.heap[id] IN
  [x EXCEPT !.conn[r.conn[side]].mux = mux_reset(@, r.sid[side])]

\* Fault: the other side never hears of it.
route_kill_silent(x, id, side) == route_free(x, id)

route_kill(x, id, side) == route_free(reset_side(x, id, side), id)

\* What the other side may take of n bytes offered.
TakenFrom(x, id, side, n) ==
  LET r == x.heap[id] IN Takes(x.conn[r.conn[Opp(side)]].mux, r.sid[Opp(side)], n)

\* Fault: the bytes are credited when they arrive, accepted or not.
pass_on_eager(x, id, side, n, k) ==
  LET r == x.heap[id] IN
  [x EXCEPT
    !.conn[r.conn[Opp(side)]].mux = mux_write(@, r.sid[Opp(side)], n, k),
    !.conn[r.conn[side]].mux = mux_consume(@, r.sid[side], n),
    !.heap[id].pend[side] = n - k]

\* The other side takes k of n bytes, which are credited to this one; the
\* rest is left pending.
pass_on(x, id, side, n, k) ==
  LET r == x.heap[id] IN
  [x EXCEPT
    !.conn[r.conn[Opp(side)]].mux = mux_write(@, r.sid[Opp(side)], n, k),
    !.conn[r.conn[side]].mux = mux_consume(@, r.sid[side], k),
    !.heap[id].pend[side] = n - k]
-----------------------------------------------------------------------------
(***************************************************************************)
(* on_up_events and on_worker_events, one event per step.  Ev0(t) is the   *)
(* event that mux_next_event takes from tunnel t, Next0(t) the state after.*)
(***************************************************************************)
Ev0(t) == Head(e.conn[t].mux.evq)
Next0(t) == [e EXCEPT !.conn[t].mux = mux_next_event(@)]
RouteOf(t) == IF Ev0(t).sid = 0 THEN 0 ELSE e.conn[t].routes[Ev0(t).sid]

Handling(t, types) ==
  /\ cur = t /\ e.conn[t].mux.evq # <<>> /\ Ev0(t).type \in types
  /\ reading' = FALSE
  /\ cur' = IF Len(e.conn[t].mux.evq) = 1 THEN Poll ELSE cur

OnHello(t) ==
  /\ Handling(t, {"PEER_HELLO"})
  /\ e' = IF t \in Edges THEN [Next0(t) EXCEPT !.conn[t].ready = TRUE]
          ELSE [Next0(t) EXCEPT !.conn[t].ready = TRUE, !.conn[t].swrr_cw = 0,
                  !.conn[t].weight = IF Ev0(t).n # 0 THEN Ev0(t).n ELSE 1]

OnCapacity(t) ==
  /\ Handling(t, {"CAPACITY"})
  /\ e' = [Next0(t) EXCEPT !.conn[t].weight = Ev0(t).n]

\* pick_worker; 0 stands for -1.
Weight(x) == [i \in Workers |-> x.conn[Wk(i)].weight]
Pool(x) == Eligible({i \in Workers : x.conn[Wk(i)].ready}, Weight(x))
Credit(x) ==
  Raised(Pool(x), Weight(x), [i \in Workers |-> x.conn[Wk(i)].swrr_cw])
pick_worker(x) == IF Pool(x) = {} THEN 0 ELSE Best(Pool(x), Credit(x))
AfterPick(x) ==
  LET cw == Paid(Pool(x), Weight(x), Credit(x)) IN
  IF Pool(x) = {} THEN x
  ELSE [x EXCEPT !.conn = [t \in Tunnels |->
          IF t \in Edges THEN @[t] ELSE [@[t] EXCEPT !.swrr_cw = cw[t[2]]]]]

Bound(x, t, sid, wk) ==
  route_new([x EXCEPT !.conn[wk].mux = mux_open(@)],
            t, sid, wk, x.conn[wk].mux.next_sid)

OnOpened(t) ==
  LET wk == Wk(pick_worker(e))
      x == AfterPick(Next0(t))
  IN /\ Handling(t, {"STREAM_OPENED"})
     /\ t \in Edges
     /\ e' = IF pick_worker(e) # 0 /\ CanOpen(e.conn[wk].mux)
               THEN Bound(x, t, Ev0(t).sid, wk)
               ELSE [x EXCEPT !.conn[t].mux = mux_reset(@, Ev0(t).sid)]

\* A worker that opens a stream towards the edge-peer is refused.
OnRefused(t) ==
  /\ Handling(t, {"STREAM_OPENED"}) /\ t \notin Edges
  /\ e' = [Next0(t) EXCEPT !.conn[t].mux = mux_reset(@, Ev0(t).sid)]

\* fwd: behind bytes that already wait, or straight to the other side.
OnData(t) ==
  LET id == RouteOf(t)
      waiting == e.heap[id].pend[SideOf(t)]
  IN /\ Handling(t, {"STREAM_DATA"}) /\ id # 0
     /\ \/ /\ waiting > 0
           /\ e' = [Next0(t) EXCEPT !.heap[id].pend[SideOf(t)] = @ + Ev0(t).n]
        \/ /\ waiting = 0
           /\ \E k \in TakenFrom(e, id, SideOf(t), Ev0(t).n) :
                e' = pass_on(Next0(t), id, SideOf(t), Ev0(t).n, k)

\* Fault: bytes that wait for this tunnel are not flushed.
OnWritable_ignored(t) ==
  Handling(t, {"WRITABLE"}) /\ RouteOf(t) # 0 /\ e' = Next0(t)

\* flush_pend of the bytes of the other side that wait for this tunnel.
OnWritable(t) ==
  LET id == RouteOf(t)
      from == Opp(SideOf(t))
  IN /\ Handling(t, {"WRITABLE"}) /\ id # 0
     /\ \E k \in TakenFrom(e, id, from, e.heap[id].pend[from]) :
          e' = pass_on(Next0(t), id, from, e.heap[id].pend[from], k)

\* flush_pend, then the FIN goes on; the second FIN ends the route.
OnClosed(t) ==
  LET id == RouteOf(t)
      side == SideOf(t)
      r == e.heap[id]
      finish(x) ==
        [x EXCEPT !.heap[id].fin[side] = TRUE,
                  !.conn[r.conn[Opp(side)]].mux = mux_close(@, r.sid[Opp(side)])]
  IN /\ Handling(t, {"STREAM_CLOSED"}) /\ id # 0
     /\ \E k \in TakenFrom(e, id, side, r.pend[side]) :
          LET x == finish(pass_on(Next0(t), id, side, r.pend[side], k)) IN
          e' = IF r.fin[Opp(side)] THEN route_free(x, id) ELSE x

OnReset(t) ==
  /\ Handling(t, {"STREAM_RESET"}) /\ RouteOf(t) # 0
  /\ e' = route_kill(Next0(t), RouteOf(t), Opp(SideOf(t)))

\* FATAL is ignored, and so is any event of a stream without a route.
OnIgnored(t) ==
  /\ \/ Handling(t, {"FATAL"})
     \/ /\ Handling(t, {"STREAM_DATA", "WRITABLE", "STREAM_CLOSED", "STREAM_RESET"})
        /\ RouteOf(t) = 0
  /\ e' = Next0(t)
-----------------------------------------------------------------------------
(***************************************************************************)
(* ep_run: connect, timers, reads.                                         *)
(***************************************************************************)
Init ==
  /\ e = [conn |-> [t \in Tunnels |-> Down], heap |-> [id \in Ids |-> Free]]
  /\ cur = Poll /\ reading = FALSE

\* A dial that fails at once changes nothing.
conn_tick_connect(t) ==
  /\ cur = Poll /\ e.conn[t].fd = "down"
  /\ e' = [e EXCEPT !.conn[t].fd = "connecting"]
  /\ UNCHANGED <<cur, reading>>

conn_finish_connect(t) ==
  /\ cur = Poll /\ e.conn[t].fd = "connecting"
  /\ \/ e' = [e EXCEPT !.conn[t].fd = "down"]
     \/ e' = [e EXCEPT !.conn[t].fd = "up", !.conn[t].mux = mux_session_new]
  /\ UNCHANGED <<cur, reading>>

Frames(t, m) ==
  StreamFrames(m) \cup recv_syn(m)
    \cup (IF t \in Edges THEN recv_hello(m, 0)
          ELSE UNION {recv_hello(m, w) \cup recv_capacity(m, w) : w \in Weights})

\* conn_read: mux_recv takes in one more frame before any event is handled.
Receive(t) ==
  /\ Up(e, t) /\ (cur = Poll \/ (cur = t /\ reading))
  /\ Len(e.conn[t].mux.evq) < MaxBatch
  /\ \E m \in Frames(t, e.conn[t].mux) : e' = [e EXCEPT !.conn[t].mux = m]
  /\ cur' = t /\ reading' = TRUE

\* A session fails in mux_recv, in mux_on_timer or while a handler writes.
Fail(t) ==
  /\ Up(e, t) /\ ~e.conn[t].mux.dead
  /\ e' = [e EXCEPT !.conn[t].mux = raise_fatal(@)]
  /\ UNCHANGED <<cur, reading>>

\* The events of a session that failed meanwhile are drained in the next round.
Timer(t) ==
  /\ cur = Poll /\ Up(e, t) /\ e.conn[t].mux.evq # <<>>
  /\ cur' = t /\ UNCHANGED <<e, reading>>

\* drop_worker_routes, drop_edge_routes
drop_routes(x, t) ==
  FoldSet(LAMBDA id, y : route_free(reset_side(y, id, Opp(SideOf(t))), id), x,
          {x.conn[t].routes[sid] : sid \in Sids} \ {0})

\* The connection ends, or mux_recv rejects bytes for a session that failed.
conn_teardown(t) ==
  /\ cur = Poll /\ Up(e, t)
  /\ LET x == drop_routes(e, t) IN
     e' = [x EXCEPT !.conn[t].fd = "down", !.conn[t].mux = mux_session_new,
                    !.conn[t].ready = FALSE, !.conn[t].inflight = 0]
  /\ UNCHANGED <<cur, reading>>

Next ==
  \E t \in Tunnels :
    \/ conn_tick_connect(t) \/ conn_finish_connect(t) \/ conn_teardown(t)
    \/ Receive(t) \/ Fail(t) \/ Timer(t)
    \/ OnHello(t) \/ OnCapacity(t) \/ OnOpened(t) \/ OnRefused(t) \/ OnData(t)
    \/ OnWritable(t) \/ OnClosed(t) \/ OnReset(t) \/ OnIgnored(t)

Spec == Init /\ [][Next]_vars
-----------------------------------------------------------------------------
TypeOK ==
  /\ e.conn \in [Tunnels -> Conn]
  /\ \A id \in Ids : e.heap[id] = Free \/ e.heap[id] \in Route
  /\ cur \in Tunnels \cup {Poll} /\ reading \in BOOLEAN

RoutesOf(t) == {sid \in Sids : e.conn[t].routes[sid] # 0}

\* A session that is up and alive and whose events have all been handled.
Settled(t) ==
  cur = Poll /\ Up(e, t) /\ ~e.conn[t].mux.dead /\ e.conn[t].mux.evq = <<>>

(***************************************************************************)
(* A route is in the map of its edge and in the map of its worker, under   *)
(* its two ids, both tunnels have a session, no map leads to a route that  *)
(* was freed or belongs to another stream, and inflight counts the routes: *)
(* route_new, route_free and the drops of conn_teardown keep both sides    *)
(* together, so no handler follows a pointer to a freed route.             *)
(***************************************************************************)
MapsMirror ==
  /\ \A id \in Allocated(e), side \in Sides :
       LET t == e.heap[id].conn[side] IN
       Up(e, t) /\ e.conn[t].routes[e.heap[id].sid[side]] = id
  /\ \A t \in Tunnels : \A sid \in RoutesOf(t) :
       LET id == e.conn[t].routes[sid] IN
       /\ id \in Allocated(e)
       /\ e.heap[id].conn[SideOf(t)] = t /\ e.heap[id].sid[SideOf(t)] = sid
  /\ \A i \in Workers : e.conn[Wk(i)].inflight = Cardinality(RoutesOf(Wk(i)))

(***************************************************************************)
(* Between rounds the live streams of a session are exactly those with a   *)
(* route: a stream is refused, spliced, or ended together with its other   *)
(* half, whatever resets, failures and reconnects cross ("Worker death     *)
(* RSTs its routes, which propagates upstream", router.c:8).               *)
(***************************************************************************)
StreamsRouted ==
  \A t \in Tunnels : Settled(t) => Live(e.conn[t].mux) = RoutesOf(t)

(***************************************************************************)
(* Flow control is coupled (router.c:6): what a session still waits to be  *)
(* credited for a stream is exactly what its route holds back, so a slow   *)
(* destination stops its source and nothing else does.                     *)
(***************************************************************************)
Coupled ==
  \A id \in Allocated(e), side \in Sides :
    LET r == e.heap[id] IN
    Settled(r.conn[side]) =>
      e.conn[r.conn[side]].mux.tab[r.sid[side]].held = r.pend[side]

(***************************************************************************)
(* Bytes held back are woken: while a destination can still be written,    *)
(* it is flagged send_blocked, so WRITABLE comes and flush_pend runs.      *)
(***************************************************************************)
PendWakes ==
  \A id \in Allocated(e), side \in Sides :
    LET r == e.heap[id]
        dst == r.conn[Opp(side)]
    IN (/\ r.pend[side] > 0 /\ Settled(dst)
        /\ CanSend(e.conn[dst].mux, r.sid[Opp(side)]))
       => e.conn[dst].mux.tab[r.sid[Opp(side)]].send_blocked

(***************************************************************************)
(* A stream's FIN goes on only after its bytes: fwd promises to "buffer    *)
(* the rest for a later flush on the dst's WRITABLE" (router.c:147).       *)
(* on_up_events and on_worker_events close the destination at once.        *)
(***************************************************************************)
FinAfterData ==
  \A id \in Allocated(e), side \in Sides :
    LET r == e.heap[id] IN
    r.fin[side] /\ ~e.conn[r.conn[Opp(side)]].mux.dead => r.pend[side] = 0

(***************************************************************************)
(* A worker whose session is dead is not offered new streams: "Worker      *)
(* death (session dead / PING timeout): remove from pool" (MUX.md:293).    *)
(* It does not hold: the handlers ignore FATAL and pick_worker looks at    *)
(* ready only.                                                             *)
(***************************************************************************)
DeadLeavesPool ==
  \A i \in Workers :
    LET c == e.conn[Wk(i)] IN
    cur = Poll /\ c.mux.dead /\ c.mux.evq = <<>> => ~c.ready

(***************************************************************************)
(* Streams that are gone do not hold the connection window: a session none *)
(* of whose streams holds bytes can receive.  "Sender blocks a stream at   *)
(* window 0 without blocking other streams." (MUX.md:150)  It does not     *)
(* hold: route_free discards pending bytes without mux_consume.            *)
(***************************************************************************)
GoneStreamsHoldNothing ==
  \A t \in Tunnels :
    Settled(t) /\ (\A sid \in Sids : e.conn[t].mux.tab[sid].held = 0)
      => e.conn[t].mux.unconsumed < ConnWin
=============================================================================
