------------------------------- MODULE MCLink -------------------------------
(***************************************************************************)
(* Instances of Link for TLC.                                              *)
(***************************************************************************)
EXTENDS LinkProps

Both(n) == [x \in Role |-> n]
One == Both(1)
Two == Both(2)
=============================================================================
