------------------------------ MODULE Channel ------------------------------
(***************************************************************************)
(* What one direction of a tunnel promises the two sessions: the events of *)
(* the frames that were sent are handed out one by one, in order, each     *)
(* once and with the bytes that were sent.                                 *)
(***************************************************************************)
EXTENDS Naturals, SequencesExt

CONSTANTS Frames,    \* the frames a session may emit
          Events(_)  \* the events of a frame at its receiver
VARIABLES sent, got

Due == FlattenSeq([i \in DOMAIN sent |-> Events(sent[i])])

Init == sent = <<>> /\ got = <<>>
Send == (\E f \in Frames : sent' = Append(sent, f)) /\ UNCHANGED got
Deliver ==
  /\ Len(got) < Len(Due)
  /\ got' = Append(got, Due[Len(got) + 1]) /\ UNCHANGED sent

Spec == Init /\ [][Send \/ Deliver]_<<sent, got>>
=============================================================================
