----------------------------- MODULE Structures -----------------------------
(***************************************************************************)
(* The sequential data structures, one at a time: the pool of workers of   *)
(* the edge-peer (Balancer) and the tables of stream ids (Tables).         *)
(***************************************************************************)
EXTENDS Balancer, Tables

VARIABLE part       \* the structure that is used

StructuresInit ==
  /\ Init /\ TableInit /\ part \in {"pool", "table"}
  /\ part = "pool" => tab.kind = "umap" /\ \A k \in Ids : tab.mix[k] = Min(HashValues)

StructuresNext ==
  /\ UNCHANGED part
  /\ \/ part = "pool" /\ Next /\ UNCHANGED <<tab, live>>
     \/ part = "table" /\ TableNext /\ UNCHANGED vars

StructuresSpec == StructuresInit /\ [][StructuresNext]_<<vars, tab, live, part>>
=============================================================================
