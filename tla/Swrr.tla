-------------------------------- MODULE Swrr --------------------------------
(***************************************************************************)
(* The smooth weighted round-robin of the edge-peer (pick_worker,          *)
(* src/edge-peer/router.c) as operators on the pool.                       *)
(***************************************************************************)
EXTENDS Integers, Functions

CONSTANT NWorkers   \* nwk

ASSUME SwrrAssumption == NWorkers \in Nat

Workers == 1 .. NWorkers

(***************************************************************************)
(* pick_worker, in two parts: every eligible worker is raised by its       *)
(* weight; the first of those with the largest swrr_cw is picked and pays  *)
(* the total.  The loop starts with best = -1, so ties go to the lower     *)
(* index.                                                                  *)
(***************************************************************************)
Eligible(up, wt) == {w \in up : wt[w] # 0}

Raised(pool, wt, cw) ==
  [w \in Workers |-> IF w \in pool THEN cw[w] + wt[w] ELSE cw[w]]

\* Fault: the first eligible worker, whatever its credit.
Best_first(pool, cw) == CHOOSE w \in pool : \A v \in pool : w <= v

Best(pool, cw) ==
  CHOOSE w \in pool :
    \A v \in pool : cw[v] < cw[w] \/ (cw[v] = cw[w] /\ w <= v)

\* Fault: the winner pays its own weight only.
Paid_own(pool, wt, cw) ==
  [cw EXCEPT ![Best(pool, cw)] = @ - wt[Best(pool, cw)]]

Paid(pool, wt, cw) ==
  [cw EXCEPT ![Best(pool, cw)] = @ - SumFunctionOnSet(wt, pool)]
=============================================================================
