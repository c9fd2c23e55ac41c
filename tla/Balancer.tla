------------------------------ MODULE Balancer ------------------------------
(***************************************************************************)
(* The balancer of the edge-peer over time: between picks workers greet,   *)
(* change their weight, drain, disappear and come back (on_worker_events   *)
(* and conn_teardown, src/edge-peer/router.c).                             *)
(***************************************************************************)
EXTENDS Swrr

CONSTANT MaxWeight  \* bound: weights that workers advertise

ASSUME BalancerAssumption == MaxWeight \in Nat \ {0}

VARIABLES
  ready,            \* workers whose tunnel is up and greeted
  weight, swrr_cw,  \* per worker, as in conn_t
  fresh,            \* every swrr_cw of the pool was 0 when the pool last changed
  served,           \* picks of each worker in the current round of total weight
  skipped           \* picks since an eligible worker was last picked

vars == <<ready, weight, swrr_cw, fresh, served, skipped>>

NoPicks == [w \in Workers |-> 0]

Init ==
  /\ ready = {}
  /\ weight = NoPicks /\ swrr_cw = NoPicks
  /\ fresh = TRUE /\ served = NoPicks /\ skipped = NoPicks

\* A new round begins whenever the pool or a weight changes.
PoolChanged(w) ==
  /\ fresh' = \A v \in Eligible(ready', weight') : swrr_cw'[v] = 0
  /\ served' = NoPicks
  /\ skipped' = [skipped EXCEPT ![w] = 0]

\* MUX_EV_PEER_HELLO of a worker; a weight of 0 counts as 1.
Hello(w, a) ==
  /\ w \notin ready
  /\ ready' = ready \cup {w}
  /\ weight' = [weight EXCEPT ![w] = IF a # 0 THEN a ELSE 1]
  /\ swrr_cw' = [swrr_cw EXCEPT ![w] = 0]
  /\ PoolChanged(w)

\* MUX_EV_CAPACITY: a new weight, 0 for draining.
Capacity(w, a) ==
  /\ w \in ready
  /\ weight' = [weight EXCEPT ![w] = a]
  /\ UNCHANGED <<ready, swrr_cw>>
  /\ PoolChanged(w)

\* conn_teardown: ready is cleared, weight and swrr_cw stay.
Down(w) ==
  /\ w \in ready
  /\ ready' = ready \ {w}
  /\ UNCHANGED <<weight, swrr_cw>>
  /\ PoolChanged(w)

Pick ==
  LET pool == Eligible(ready, weight)
      up == Raised(pool, weight, swrr_cw)
      best == Best(pool, up)
  IN  /\ pool # {}
      /\ swrr_cw' = Paid(pool, weight, up)
      /\ served' = IF SumFunction(served) + 1 = SumFunctionOnSet(weight, pool)
                     THEN NoPicks ELSE [served EXCEPT ![best] = @ + 1]
      /\ skipped' = [w \in Workers |->
                       IF w \in pool \ {best} THEN skipped[w] + 1 ELSE 0]
      /\ UNCHANGED <<ready, weight, fresh>>

Next ==
  \/ \E w \in Workers, a \in 0 .. MaxWeight : Hello(w, a) \/ Capacity(w, a)
  \/ \E w \in Workers : Down(w)
  \/ Pick

Spec == Init /\ [][Next]_vars
-----------------------------------------------------------------------------
\* With all swrr_cw at 0 when the pool settled, a round of total-weight picks gives
\* every worker its weight, and ends where it began.
ExactShare ==
  fresh => LET pool == Eligible(ready, weight) IN
           /\ \A w \in pool : served[w] <= weight[w]
           /\ served = NoPicks => \A w \in pool : swrr_cw[w] = 0

\* An eligible worker is picked again within 3 * MaxWeight * (NWorkers - 1) picks,
\* however the others greet, drain, change weight or disappear in between: swrr_cw
\* values left over in conn_t from an earlier pool never starve anyone for long.
NeverStarved == \A w \in Workers : skipped[w] < 3 * MaxWeight * (NWorkers - 1)
=============================================================================
