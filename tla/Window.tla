------------------------------- MODULE Window -------------------------------
(***************************************************************************)
(* What libmux promises about one flow-control window: the credit scheme   *)
(* of src/libmux/src/session.c for ONE direction of ONE window, with the   *)
(* frames on the wire reduced to byte counts.  The connection window (the  *)
(* window of stream id 0) lives as long as the session; LinkProps states   *)
(* that a pair of sessions implements this specification.                  *)
(***************************************************************************)
EXTENDS Integers

CONSTANT W              \* the window the receiver advertised in its HELLO, never 0

VARIABLES
  send_win,             \* sender: bytes it may still send
  data,                 \* DATA bytes emitted and not yet received
  recv_win,             \* receiver: bytes the sender may still send to it
  unread,               \* bytes delivered to the receiver's host, unconsumed
  pending,              \* bytes consumed and not yet credited (batched)
  credit,               \* credit emitted in WINDOW_UPDATEs, not yet received
  lost,                 \* DATA bytes the receiver discarded on arrival
  failed                \* the receiver's session died while crediting

vars == <<send_win, data, recv_win, unread, pending, credit, lost, failed>>

Init ==
  /\ send_win = W
  /\ recv_win = W
  /\ data = 0 /\ unread = 0 /\ pending = 0 /\ credit = 0 /\ lost = 0
  /\ failed = FALSE

(***************************************************************************)
(* mux_write: at most send_win bytes become DATA frames.                   *)
(***************************************************************************)
Send(n) ==
  /\ n <= send_win
  /\ send_win' = send_win - n
  /\ data' = data + n
  /\ UNCHANGED <<recv_win, unread, pending, credit, lost, failed>>

(***************************************************************************)
(* on_data: a frame is debited from the window and handed to the host.     *)
(***************************************************************************)
Receive(n) ==
  /\ ~failed
  /\ n <= data
  /\ data' = data - n
  /\ recv_win' = recv_win - n
  /\ unread' = unread + n
  /\ UNCHANGED <<send_win, pending, credit, lost, failed>>

(***************************************************************************)
(* on_data for a stream that no longer exists: the frame is dropped before *)
(* any window is debited.                                                  *)
(***************************************************************************)
Discard(n) ==
  /\ ~failed
  /\ n <= data
  /\ data' = data - n
  /\ lost' = lost + n
  /\ UNCHANGED <<send_win, recv_win, unread, pending, credit, failed>>

(***************************************************************************)
(* mux_consume: the bytes become pending credit, and pending credit is put *)
(* on the wire once it reaches half the window.                            *)
(***************************************************************************)
Consume(n) ==
  LET p == pending + n
      c == IF 2 * p < W THEN 0 ELSE p
  IN  /\ ~failed
      /\ n <= unread
      /\ unread' = unread - n
      /\ pending' = p - c
      /\ credit' = credit + c
      /\ recv_win' = recv_win + c
      /\ UNCHANGED <<send_win, data, lost, failed>>

(***************************************************************************)
(* mux_consume when the output buffer is full: only part of the credit is  *)
(* emitted and the session has failed.                                     *)
(***************************************************************************)
ConsumeFails(n, c) ==
  /\ ~failed
  /\ n <= unread
  /\ c <= pending + n
  /\ unread' = unread - n
  /\ pending' = pending + n - c
  /\ credit' = credit + c
  /\ recv_win' = recv_win + c
  /\ failed' = TRUE
  /\ UNCHANGED <<send_win, data, lost>>

(***************************************************************************)
(* on_window_update: credit reaches the sender.                            *)
(***************************************************************************)
Grant(n) ==
  /\ n <= credit
  /\ credit' = credit - n
  /\ send_win' = send_win + n
  /\ UNCHANGED <<data, recv_win, unread, pending, lost, failed>>

(***************************************************************************)
(* The receiver's session dies of something else: it stops taking part.    *)
(***************************************************************************)
Fail ==
  /\ ~failed
  /\ failed' = TRUE
  /\ UNCHANGED <<send_win, data, recv_win, unread, pending, credit, lost>>

Next ==
  \/ \E n \in 0 .. W : Send(n)
  \/ \E n \in 0 .. W : Receive(n)
  \/ \E n \in 0 .. W : Discard(n)
  \/ \E n \in 0 .. W : Consume(n)
  \/ \E n, c \in 0 .. W : ConsumeFails(n, c)
  \/ \E n \in 0 .. W : Grant(n)
  \/ Fail

Spec == Init /\ [][Next]_vars
-----------------------------------------------------------------------------
(***************************************************************************)
(* Properties.                                                             *)
(***************************************************************************)

\* The windows, the wire and the host's buffer hold byte counts.
TypeOK ==
  /\ send_win \in 0 .. W /\ recv_win \in 0 .. W
  /\ data \in 0 .. W /\ unread \in 0 .. W /\ pending \in 0 .. W
  /\ credit \in 0 .. W /\ lost \in 0 .. W
  /\ failed \in BOOLEAN

\* Every byte of the receiver's window is either still open to the sender, on
\* the wire in one of the two directions, or was discarded: the two ends'
\* send_win and recv_win of session.c never drift apart by anything else.
Conservation == send_win + data + credit + lost = recv_win

\* Every byte of the advertised window is open, held by the host or waiting to
\* be credited: mux_consume gives back exactly what on_data took.
Accounted == recv_win + unread + pending = W

\* What is on the wire always fits in the receiver's window, so on_data never
\* raises FLOW_CONTROL against a sender that respects send_win.
NoOverrun == data <= recv_win

\* The host of the receiver never holds more than the window: the bound that
\* makes the connection cap a memory cap (session.c, "so N streams can never
\* collectively buffer more than the connection cap").
BoundedBuffer == unread <= W

\* When nothing is on the wire, the host has consumed everything and nothing was
\* ever discarded, the sender has room: batching the credit at the half-window
\* watermark cannot by itself leave a sender at window 0 forever.
QuiescentHasRoom ==
  (~failed /\ data = 0 /\ credit = 0 /\ unread = 0 /\ lost = 0) => send_win > 0
=============================================================================
