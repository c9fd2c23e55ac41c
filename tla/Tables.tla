------------------------------- MODULE Tables -------------------------------
(***************************************************************************)
(* The hash tables from stream ids to streams: the stream table of a       *)
(* session, with tombstones (libmux/src/session.c), the maps of the        *)
(* edge-peer and of libpeer, which close the gap after a removal           *)
(* (edge-peer/router.c, libpeer/src/libpeer.c), and the map of the relay,  *)
(* which grows by the index of its connection slab (common/relay.c).       *)
(*                                                                         *)
(* All probe linearly.  The hash of an id is any function: Init chooses    *)
(* one of the three tables and the hash values of the ids.                 *)
(***************************************************************************)
EXTENDS Integers, FiniteSetsExt, SequencesExt

CONSTANTS
  Ids,               \* stream ids, positive
  HashValues,        \* values of mix_sid, umix, reg_mix and sid_mix
  Cap0               \* 64, the capacity of a table when it is first filled

ASSUME TablesAssumption ==
  /\ Ids \subseteq Nat \ {0} /\ HashValues \subseteq Nat
  /\ \E k \in 1 .. Cap0 : Cap0 = 2 ^ k

VARIABLES
  tab,               \* the table, see TableInit
  live               \* the ids that were inserted and not removed

EMPTY == 0
TOMB == -1
Used(t, i) == t.slot[i] \notin {EMPTY, TOMB}

\* The d-th slot that is probed for id k, and the first that holds one of ends.
ProbeAt(t, k, d) == (t.mix[k] + d) % t.cap
Probe(t, k, ends) ==
  LET ds == {d \in 0 .. t.cap - 1 : t.slot[ProbeAt(t, k, d)] \in ends}
  IN IF ds = {} THEN -1 ELSE ProbeAt(t, k, Min(ds))

\* st_find, umap_get, reg_get, sidmap_get: the slot of id k, or -1.
Find(t, k) ==
  LET i == Probe(t, k, {EMPTY, k})
  IN IF i = -1 THEN -1 ELSE IF t.slot[i] = k THEN i ELSE -1

Placed(t, k) == [t EXCEPT !.slot[Probe(t, k, {EMPTY})] = k]

\* st_grow, umap_grow, reg_grow and the growth in sidmap_set.
Rehashed(t, ncap) ==
  LET old == SelectSeq([i \in 1 .. t.cap |-> t.slot[i - 1]], LAMBDA v : v > 0)
      new == [t EXCEPT !.cap = ncap, !.tombs = 0, !.slot = [i \in 0 .. ncap - 1 |-> EMPTY]]
  IN FoldLeft(Placed, new, old)

Doubled(cap, want) ==
  Min({c \in {(IF cap = 0 THEN Cap0 ELSE cap) * 2 ^ j : j \in 0 .. want} : c >= want})
-----------------------------------------------------------------------------
(***************************************************************************)
(* The stream table of a session.                                          *)
(***************************************************************************)
\* Fault: the load does not count the tombstones.
st_crowded_tombs(t) == (t.count + 1) * 4 >= t.cap * 3

st_crowded(t) == (t.count + t.tombs + 1) * 4 >= t.cap * 3

st_insert(t, k) ==
  LET u == IF st_crowded(t) THEN Rehashed(t, Doubled(t.cap, Max({(t.count + 1) * 2, Cap0})))
           ELSE t
      end == Probe(u, k, {EMPTY})
      first == Probe(u, k, {EMPTY, TOMB})
  IN IF end = -1 THEN u
     ELSE [u EXCEPT !.slot[first] = k, !.count = @ + 1,
                    !.tombs = IF u.slot[first] = TOMB THEN @ - 1 ELSE @]

st_remove(t, k) ==
  [t EXCEPT !.slot[Find(t, k)] = TOMB, !.count = @ - 1, !.tombs = @ + 1]
-----------------------------------------------------------------------------
(***************************************************************************)
(* umap and the registry of libpeer.  A removal puts every entry of the    *)
(* cluster behind the gap in its place again.                              *)
(***************************************************************************)
umap_put(t, k) ==
  LET u == IF (t.count + 1) * 4 >= t.cap * 3 THEN Rehashed(t, Doubled(t.cap, (t.count + 1) * 2))
           ELSE t
  IN [Placed(u, k) EXCEPT !.count = @ + 1]

\* The slots behind slot i up to the first that is not used.
Cluster(t, i) ==
  LET gap == Min({d \in 1 .. t.cap : ~Used(t, (i + d) % t.cap) \/ d = t.cap})
  IN [d \in 1 .. gap - 1 |-> (i + d) % t.cap]

\* Fault: only the next entry is looked at.
umap_del_short(t, k) ==
  LET i == Find(t, k)
      hole == [t EXCEPT !.slot[i] = EMPTY, !.count = @ - 1]
      again(u, j) == umap_put([u EXCEPT !.slot[j] = EMPTY, !.count = @ - 1], u.slot[j])
  IN FoldLeft(again, hole, SelectSeq(Cluster(hole, i), LAMBDA j : j = (i + 1) % t.cap))

umap_del(t, k) ==
  LET i == Find(t, k)
      hole == [t EXCEPT !.slot[i] = EMPTY, !.count = @ - 1]
      again(u, j) == umap_put([u EXCEPT !.slot[j] = EMPTY, !.count = @ - 1], u.slot[j])
  IN FoldLeft(again, hole, Cluster(hole, i))
-----------------------------------------------------------------------------
(***************************************************************************)
(* The map of the relay.  A connection takes an index of the slab when it  *)
(* is made, the one that was freed last if there is one; the map holds the *)
(* index, whose connection knows the id.                                   *)
(***************************************************************************)
conn_alloc(t) ==
  LET nc == IF t.conns = 0 THEN Cap0 ELSE t.conns * 2 IN
  IF t.free # <<>> THEN t
  ELSE [t EXCEPT !.conns = nc, !.free = [i \in 1 .. nc - t.conns |-> nc - i]]

sidmap_crowded(t, idx) == t.cap = 0 \/ (idx + 1) * 4 >= t.cap * 3

sidmap_set(t, k) ==
  LET a == conn_alloc(t)
      idx == Last(a.free)
      u == IF sidmap_crowded(a, idx) THEN Rehashed(a, IF a.cap = 0 THEN Cap0 ELSE a.cap * 2)
           ELSE a
  IN [Placed(u, k) EXCEPT !.free = Front(@), !.idx[k] = idx, !.count = @ + 1]

\* sidmap_del and conn_release.
sidmap_del(t, k) ==
  LET i == Find(t, k)
      hole == [t EXCEPT !.slot[i] = EMPTY, !.count = @ - 1]
      again(u, j) == Placed([u EXCEPT !.slot[j] = EMPTY], u.slot[j])
  IN [FoldLeft(again, hole, Cluster(hole, i)) EXCEPT !.free = Append(@, t.idx[k])]
-----------------------------------------------------------------------------
TableInit ==
  /\ \E kind \in {"stream table", "umap", "sidmap"}, mix \in [Ids -> HashValues] :
       tab = [kind |-> kind, mix |-> mix, cap |-> 0, slot |-> <<>>, count |-> 0, tombs |-> 0,
              conns |-> 0, free |-> <<>>, idx |-> [k \in Ids |-> 0]]
  /\ live = {}

Added(k) ==
  /\ k \notin live /\ live' = live \cup {k}
  /\ \/ tab.kind = "stream table" /\ tab' = st_insert(tab, k)
     \/ tab.kind = "umap" /\ tab' = umap_put(tab, k)
     \/ tab.kind = "sidmap" /\ tab' = sidmap_set(tab, k)

Deleted(k) ==
  /\ k \in live /\ live' = live \ {k}
  /\ \/ tab.kind = "stream table" /\ tab' = st_remove(tab, k)
     \/ tab.kind = "umap" /\ tab' = umap_del(tab, k)
     \/ tab.kind = "sidmap" /\ tab' = sidmap_del(tab, k)

TableNext == \E k \in Ids : Added(k) \/ Deleted(k)
-----------------------------------------------------------------------------
(***************************************************************************)
(* A table is the map it stands for: whatever was inserted and removed     *)
(* before, however ids collide, and across rehashes, a lookup finds        *)
(* exactly the live ids, each in one slot.                                 *)
(***************************************************************************)
LookupExact ==
  /\ \A k \in Ids : (Find(tab, k) # -1) = (k \in live)
  /\ Cardinality({i \in DOMAIN tab.slot : Used(tab, i)}) = Cardinality(live)

(***************************************************************************)
(* Every probe ends: a filled table keeps an empty slot, so that the loops *)
(* without a bound (umap_put, sidmap_set, the cluster walks) end and       *)
(* st_insert never reports a full table ("shouldn't happen",               *)
(* session.c:285); and the counters that decide on growth are exact.       *)
(***************************************************************************)
ProbesEnd ==
  tab.cap > 0 =>
    /\ \E i \in DOMAIN tab.slot : tab.slot[i] = EMPTY
    /\ tab.count = Cardinality(live)
    /\ tab.tombs = Cardinality({i \in DOMAIN tab.slot : tab.slot[i] = TOMB})
=============================================================================
