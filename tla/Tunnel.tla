------------------------------- MODULE Tunnel -------------------------------
(***************************************************************************)
(* Two hosts with traffic in both directions over one tunnel, and the      *)
(* backpressure that each applies for itself: a host reads the tunnel only *)
(* while its own output buffer is short (update_tunnel_interest of         *)
(* common/relay.c, the poll sets of edge-peer/router.c and libpeer.c).     *)
(* It goes on writing while the connection window of the peer lasts,       *)
(* however long that buffer is: conn_desired does not look at it.          *)
(*                                                                         *)
(* Frames have sizes in bytes, headers included, and keep their order.     *)
(* The window counts the payload of DATA; control frames take none of it.  *)
(***************************************************************************)
EXTENDS Integers, SequencesExt

CONSTANTS
  SessionWindow,     \* session_window of both sides, in bytes of payload
  High,              \* mux_out_pending at which a host stops reading
  Pipe,              \* bytes that the socket buffers of a direction hold
  Header,            \* MUX_HEADER_SIZE
  Chunk,             \* payload of one DATA frame
  Short,             \* payload of a control frame
  MaxControl         \* bound: other control frames in an output buffer

Hosts == {1, 2}
Peer(i) == 3 - i

VARIABLES
  win,               \* sess_send_win: payload host i may still send
  out,               \* the frames in the output buffer of host i
  pipe,              \* the frames in the socket buffers, from host i
  held,              \* payload delivered to the application of host i
  owed,              \* sess_recv_pending: consumed there and not yet credited
  reading            \* host i is inside tunnel_read

vars == <<win, out, pipe, held, owed, reading>>

\* n is the credit that a WINDOW_UPDATE for the connection carries.
DATA == [type |-> "DATA", n |-> 0]
CREDIT(n) == [type |-> "WINDOW_UPDATE", n |-> n]
CONTROL == [type |-> "CONTROL", n |-> 0]

Size(f) == Header + (IF f = DATA THEN Chunk ELSE Short)
Bytes(fs) == FoldLeft(LAMBDA sum, f : sum + Size(f), 0, fs)
mux_out_pending(i) == Bytes(out[i])
-----------------------------------------------------------------------------
Init ==
  /\ win = [i \in Hosts |-> SessionWindow]
  /\ out = [i \in Hosts |-> <<>>] /\ pipe = [i \in Hosts |-> <<>>]
  /\ held = [i \in Hosts |-> 0] /\ owed = [i \in Hosts |-> 0]
  /\ reading = [i \in Hosts |-> FALSE]

Emit(i, f) == out' = [out EXCEPT ![i] = Append(@, f)]

\* A readable connection or a WRITABLE event: mux_write within the window.
mux_write(i) ==
  /\ win[i] >= Chunk /\ win' = [win EXCEPT ![i] = @ - Chunk]
  /\ Emit(i, DATA)
  /\ UNCHANGED <<pipe, held, owed, reading>>

\* mux_consume, with the credit at half a window.
mux_consume(i) ==
  LET due == owed[i] + Chunk IN
  /\ held[i] > 0 /\ held' = [held EXCEPT ![i] = @ - Chunk]
  /\ IF due * 2 < SessionWindow
       THEN owed' = [owed EXCEPT ![i] = due] /\ UNCHANGED out
       ELSE Emit(i, CREDIT(due)) /\ owed' = [owed EXCEPT ![i] = 0]
  /\ UNCHANGED <<win, pipe, reading>>

\* A SYN, FIN, RST or PING, or the credit of a stream.
emit_control(i) ==
  /\ Len(SelectSeq(out[i], LAMBDA f : f = CONTROL)) < MaxControl
  /\ Emit(i, CONTROL)
  /\ UNCHANGED <<win, pipe, held, owed, reading>>

\* tunnel_flush, one frame of it: a full socket takes no more.
tunnel_flush(i) ==
  /\ out[i] # <<>> /\ Bytes(pipe[i]) + Size(Head(out[i])) <= Pipe
  /\ pipe' = [pipe EXCEPT ![i] = Append(@, Head(out[i]))]
  /\ out' = [out EXCEPT ![i] = Tail(@)]
  /\ UNCHANGED <<win, held, owed, reading>>

\* update_tunnel_interest: the tunnel is read while the backlog is short.
Interested(i) == mux_out_pending(i) < High

\* tunnel_read, one frame of it: it goes on until the tunnel is empty, or ends
\* after a short read, and looks at the backlog only before it begins.
tunnel_read(i) ==
  LET f == Head(pipe[Peer(i)]) IN
  /\ reading[i] \/ Interested(i)
  /\ pipe[Peer(i)] # <<>> /\ pipe' = [pipe EXCEPT ![Peer(i)] = Tail(@)]
  /\ held' = IF f = DATA THEN [held EXCEPT ![i] = @ + Chunk] ELSE held
  /\ win' = [win EXCEPT ![i] = @ + f.n]
  /\ \E more \in BOOLEAN : reading' = [reading EXCEPT ![i] = more]
  /\ UNCHANGED <<out, owed>>

\* The tunnel is empty: read fails with EAGAIN.
Drained(i) ==
  /\ reading[i] /\ pipe[Peer(i)] = <<>>
  /\ reading' = [reading EXCEPT ![i] = FALSE]
  /\ UNCHANGED <<win, out, pipe, held, owed>>

Next ==
  \E i \in Hosts :
    \/ mux_write(i) \/ mux_consume(i) \/ emit_control(i)
    \/ tunnel_flush(i) \/ tunnel_read(i) \/ Drained(i)

\* The loops of both hosts run: a tunnel that can be written is written, one that
\* is of interest and has data is read, and the applications take what arrives.
\* Nobody has to produce.
Spec == /\ Init /\ [][Next]_vars
        /\ \A i \in Hosts : /\ WF_vars(tunnel_flush(i)) /\ WF_vars(mux_consume(i))
                            /\ WF_vars(tunnel_read(i) \/ Drained(i))
-----------------------------------------------------------------------------
TypeOK ==
  LET Frame == [type : {"DATA", "WINDOW_UPDATE", "CONTROL"}, n : 0 .. SessionWindow] IN
  /\ out \in [Hosts -> Seq(Frame)] /\ pipe \in [Hosts -> Seq(Frame)]
  /\ \A i \in Hosts : {win[i], held[i], owed[i]} \subseteq 0 .. SessionWindow
  /\ reading \in [Hosts -> BOOLEAN]

(***************************************************************************)
(* A host that has stopped reading the tunnel reads it again               *)
(* ("Pause/resume at high/low watermarks", MUX.md:153; "stop reading the   *)
(* tunnel while this stays high", mux.h:310).  It does not hold with a     *)
(* window above the mark, and the defaults are 16 MiB and 4 MiB: the       *)
(* backlog of a host shrinks only while the other one reads, both may be   *)
(* above the mark with both directions of the tunnel full, and neither     *)
(* reads again.                                                            *)
(***************************************************************************)
PauseEnds == \A i \in Hosts : ~Interested(i) ~> Interested(i)
=============================================================================
