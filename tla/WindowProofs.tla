---------------------------- MODULE WindowProofs ----------------------------
(***************************************************************************)
(* The properties of module Window hold for every positive window (nz: a   *)
(* configured zero takes the default).  The inductive invariant is the     *)
(* pair of balances, Conservation and Accounted, plus the fact that        *)
(* batched credit stays below half a window while the receiver is alive.   *)
(***************************************************************************)
EXTENDS Window, TLAPS

Counts ==
  /\ send_win \in Nat /\ recv_win \in Nat /\ data \in Nat /\ unread \in Nat
  /\ pending \in Nat /\ credit \in Nat /\ lost \in Nat
  /\ failed \in BOOLEAN

Batched == failed \/ 2 * pending < W

WInv == Counts /\ Conservation /\ Accounted /\ Batched

\* mux_session_new and the HELLO exchange establish both balances.
LEMMA InitWInv ==
  ASSUME W \in Nat \ {0}
  PROVE  Init => WInv
<1> SUFFICES ASSUME Init PROVE WInv
  OBVIOUS
<1>1. failed \in BOOLEAN
  BY DEF Init
<1>2. 2 * pending < W
  BY DEF Init
<1>3. Conservation /\ Accounted
  BY DEF Init, Conservation, Accounted
<1>4. Counts
  BY <1>1 DEF Init, Counts
<1> QED
  BY <1>2, <1>3, <1>4 DEF WInv, Batched

\* Every write, arrival, discard, consume and credit preserves both balances.
LEMMA NextWInv ==
  ASSUME W \in Nat \ {0}
  PROVE  WInv /\ [Next]_vars => WInv'
<1> SUFFICES ASSUME WInv, [Next]_vars PROVE WInv'
  OBVIOUS
<1> USE DEF WInv, Counts, Conservation, Accounted, Batched
<1>1. ASSUME NEW n \in 0 .. W, Send(n) PROVE WInv'
  BY <1>1 DEF Send
<1>2. ASSUME NEW n \in 0 .. W, Receive(n) PROVE WInv'
  BY <1>2 DEF Receive
<1>3. ASSUME NEW n \in 0 .. W, Discard(n) PROVE WInv'
  BY <1>3 DEF Discard
<1>4. ASSUME NEW n \in 0 .. W, Consume(n) PROVE WInv'
  <2>1. CASE 2 * (pending + n) < W
    BY <1>4, <2>1 DEF Consume
  <2>2. CASE ~(2 * (pending + n) < W)
    BY <1>4, <2>2 DEF Consume
  <2> QED BY <2>1, <2>2
<1>5. ASSUME NEW n \in 0 .. W, NEW c \in 0 .. W, ConsumeFails(n, c) PROVE WInv'
  BY <1>5 DEF ConsumeFails
<1>6. ASSUME NEW n \in 0 .. W, Grant(n) PROVE WInv'
  BY <1>6 DEF Grant
<1>7. CASE Fail
  BY <1>7 DEF Fail
<1>8. CASE UNCHANGED vars
  BY <1>8 DEF vars
<1> QED
  BY <1>1, <1>2, <1>3, <1>4, <1>5, <1>6, <1>7, <1>8 DEF Next

\* The invariant gives every property the runs check.
LEMMA WInvSuffices ==
  ASSUME W \in Nat \ {0}
  PROVE  WInv => TypeOK /\ NoOverrun /\ BoundedBuffer /\ QuiescentHasRoom
  BY DEF WInv, Counts, Conservation, Accounted, Batched, TypeOK,
       NoOverrun, BoundedBuffer, QuiescentHasRoom

\* The inductive invariant holds in every reachable state of a window.
LEMMA WindowInvariant ==
  ASSUME W \in Nat \ {0}
  PROVE  Spec => []WInv
  BY InitWInv, NextWInv, PTL DEF Spec

\* All counters of session.c stay within the advertised window.
THEOREM WindowTyped ==
  ASSUME W \in Nat \ {0}
  PROVE  Spec => []TypeOK
  BY WindowInvariant, WInvSuffices, PTL

\* The two ends' windows never drift: send_win, the wire and the discarded bytes
\* always make up recv_win.
THEOREM WindowConserved ==
  ASSUME W \in Nat \ {0}
  PROVE  Spec => [](Conservation /\ Accounted)
<1>1. WInv => Conservation /\ Accounted
  BY DEF WInv
<1> QED
  BY WindowInvariant, <1>1, PTL

\* on_data never sees more bytes than recv_win from a sender that respects
\* send_win, whatever the window size.
THEOREM WindowNeverOverrun ==
  ASSUME W \in Nat \ {0}
  PROVE  Spec => []NoOverrun
  BY WindowInvariant, WInvSuffices, PTL

\* The receiver's host never holds more than the advertised window.
THEOREM WindowBoundsBuffer ==
  ASSUME W \in Nat \ {0}
  PROVE  Spec => []BoundedBuffer
  BY WindowInvariant, WInvSuffices, PTL

\* As long as nothing was discarded, batching at the half-window watermark never
\* leaves the sender without room once the receiver has consumed everything.
THEOREM WindowNeverStarves ==
  ASSUME W \in Nat \ {0}
  PROVE  Spec => []QuiescentHasRoom
  BY WindowInvariant, WInvSuffices, PTL
=============================================================================
