------------------------------ MODULE Programs ------------------------------
(***************************************************************************)
(* The programs around the relays: edge, a master that forks workers which *)
(* each serve one uplink at a time (edge/main.c), and edge-peer in backend *)
(* mode, which dials the first of them again and again with backoff        *)
(* (edge-peer/main.c), over the TCP connections between the two.           *)
(*                                                                         *)
(* A relay is here what its host sees of it: relay_run returns after a     *)
(* stop, at the end of the tunnel, or for a reason of its own.  Faults are *)
(* counted: a failed fork, listen or relay, the crash of a worker or of    *)
(* edge-peer.  signal() is that of a GNU C library (CMakeLists.txt sets    *)
(* CMAKE_C_EXTENSIONS), which restarts waitpid after the handler has run.  *)
(***************************************************************************)
EXTENDS Integers, FiniteSets, FiniteSetsExt

CONSTANTS
  MaxProcs,          \* --procs is at most this
  Backlog,           \* of the uplink listener
  BackoffMin, BackoffMax,   \* of run_backend_mode, in milliseconds
  Slots,             \* bound: TCP connections at a time
  MaxFaults          \* bound: faults in a behaviour

VARIABLES
  procs,             \* --procs
  m,                 \* run_supervisor: next child, g_stop and where it is
  w,                 \* run_edge_proc of each worker
  d,                 \* run_backend_mode
  conns,             \* the TCP connections: what each end has done with it
  asked,             \* whom the operator of edge has sent SIGTERM
  faults

vars == <<procs, m, w, d, conns, asked, faults>>

Workers == 1..procs
First == 1                             \* its port is the one edge-peer dials
Closed == [edge |-> "closed", peer |-> "closed"]
NewWorker(stop) == [pc |-> "listen", stop |-> stop, conn |-> 0]
NewDialer == [pc |-> "dial", stop |-> FALSE, backoff |-> BackoffMin, conn |-> 0]
NoWorkers == [k \in 1..MaxProcs |-> [NewWorker(FALSE) EXCEPT !.pc = "none"]]

\* edge main: a single process serves by itself, without a master.
Started(n) ==
  /\ m = [pc |-> IF n = 1 THEN "exit" ELSE "fork", i |-> 1, stop |-> FALSE]
  /\ w = IF n = 1 THEN [NoWorkers EXCEPT ![1] = NewWorker(FALSE)] ELSE NoWorkers

Init ==
  /\ procs \in 1..MaxProcs /\ Started(procs)
  /\ d = NewDialer
  /\ conns = [c \in Slots |-> Closed]
  /\ asked = "nobody" /\ faults = 0

Fault == faults < MaxFaults /\ faults' = faults + 1
Sound == faults' = faults
-----------------------------------------------------------------------------
\* TCP.
Running(k) == w[k].pc \in {"listen", "accept", "relay"}
Listening == w[First].pc \in {"accept", "relay"}
Queued(cs) == {c \in Slots : cs[c].edge = "backlog"}
FreeSlot == Min({c \in Slots : conns[c].edge = "closed" /\ conns[c].peer # "held"})
Room == Listening /\ Cardinality(Queued(conns)) < Backlog

\* A process that ends closes what it has: the edge end of the uplink and of the
\* connections that nobody has accepted.
EdgeGone(k) == IF k = First THEN [c \in Slots |-> [conns[c] EXCEPT !.edge = "closed"]] ELSE conns
PeerGone(how) ==
  [c \in Slots |-> IF conns[c].peer \in {"held", "leaked"}
                    THEN [conns[c] EXCEPT !.peer = how] ELSE conns[c]]
-----------------------------------------------------------------------------
\* run_supervisor: one turn of the fork loop.
Fork ==
  /\ m.pc = "fork"
  /\ \/ /\ w' = [w EXCEPT ![m.i] = NewWorker(m.stop)]
        /\ m' = [m EXCEPT !.i = @ + 1, !.pc = IF m.i = procs THEN "loop" ELSE "fork"]
        /\ Sound
     \/ m' = [m EXCEPT !.pc = "loop"] /\ w' = w /\ Fault
  /\ UNCHANGED <<procs, d, conns, asked>>

\* The head of the loop, which is the one place that looks at g_stop.
Loop ==
  /\ m.pc = "loop"
  /\ m' = [m EXCEPT !.i = 1, !.pc = IF m.stop THEN "kill" ELSE "waitpid"]
  /\ UNCHANGED <<procs, w, d, conns, asked, faults>>

\* waitpid(-1): a child has exited, or there is none.
Waited ==
  /\ m.pc = "waitpid"
  /\ \/ \E k \in Workers : w[k].pc = "exited" /\ w' = [w EXCEPT ![k].pc = "reaped"]
     \/ (\A k \in Workers : w[k].pc \in {"none", "reaped"}) /\ w' = w
  /\ m' = [m EXCEPT !.pc = "kill"]
  /\ UNCHANGED <<procs, d, conns, asked, faults>>

\* The two loops over kids at the end: m.i is the next of them.
NextKid(after) ==
  m' = IF m.i < procs THEN [m EXCEPT !.i = @ + 1] ELSE [m EXCEPT !.i = 1, !.pc = after]

\* One kill: a child that was not forked or does not run any more takes no notice.
\* Fault: the loop passes over the first child.
KillKid_later ==
  /\ m.pc = "kill"
  /\ w' = IF Running(m.i) /\ m.i > 1 THEN [w EXCEPT ![m.i].stop = TRUE] ELSE w
  /\ NextKid("reap")
  /\ UNCHANGED <<procs, d, conns, asked, faults>>

KillKid ==
  /\ m.pc = "kill"
  /\ w' = IF Running(m.i) THEN [w EXCEPT ![m.i].stop = TRUE] ELSE w
  /\ NextKid("reap")
  /\ UNCHANGED <<procs, d, conns, asked, faults>>

\* One waitpid, which blocks while the child runs; the master ends after the last.
ReapKid ==
  /\ m.pc = "reap" /\ ~Running(m.i)
  /\ w' = IF w[m.i].pc = "exited" THEN [w EXCEPT ![m.i].pc = "reaped"] ELSE w
  /\ NextKid("exit")
  /\ UNCHANGED <<procs, d, conns, asked, faults>>

Master == Fork \/ Loop \/ Waited \/ KillKid \/ ReapKid
-----------------------------------------------------------------------------
Exits(k) ==
  /\ w' = [w EXCEPT ![k].pc = "exited", ![k].conn = 0]
  /\ conns' = EdgeGone(k)

\* run_edge_proc up to its loop.
Listen(k) ==
  /\ w[k].pc = "listen"
  /\ \/ w' = [w EXCEPT ![k].pc = "accept"] /\ conns' = conns /\ Sound
     \/ Exits(k) /\ Fault
  /\ UNCHANGED <<procs, m, d, asked>>

\* accept_uplink: the poll times out every 500 ms and g_stop is looked at again.
accept_uplink(k) ==
  /\ w[k].pc = "accept"
  /\ \/ w[k].stop /\ Exits(k) /\ Sound
     \/ /\ ~w[k].stop /\ k = First
        /\ \E c \in Queued(conns) :
             \/ /\ w' = [w EXCEPT ![k].pc = "relay", ![k].conn = c]
                /\ conns' = [conns EXCEPT ![c].edge = "held"] /\ Sound
             \/ w' = w /\ conns' = [conns EXCEPT ![c].edge = "closed"] /\ Fault   \* relay_new
  /\ UNCHANGED <<procs, m, d, asked>>

\* Fault: no keepalive on the uplink, and a peer that vanished is never noticed.
TunnelEnded_fin(c) == conns[c].peer = "closed"

\* The tunnel ends with a FIN, or after the probes of net_set_keepalive.
TunnelEnded(c) == conns[c].peer \in {"closed", "vanished"}

\* relay_run returns, then relay_free and close(uplink).
relay_run(k) ==
  /\ w[k].pc = "relay"
  /\ \/ (w[k].stop \/ TunnelEnded(w[k].conn)) /\ Sound
     \/ Fault
  /\ w' = [w EXCEPT ![k].pc = "accept", ![k].conn = 0]
  /\ conns' = [conns EXCEPT ![w[k].conn].edge = "closed"]
  /\ UNCHANGED <<procs, m, d, asked>>

Crash(k) ==
  /\ Running(k) /\ Exits(k) /\ Fault
  /\ UNCHANGED <<procs, m, d, asked>>

Worker(k) == Listen(k) \/ accept_uplink(k) \/ relay_run(k)
-----------------------------------------------------------------------------
\* SIGTERM or SIGINT for the process group of edge, or for its first process only;
\* the handler sets g_stop.
Signal ==
  /\ asked = "nobody"
  /\ \/ /\ asked' = "all"
        /\ w' = [k \in 1..MaxProcs |-> IF Running(k) THEN [w[k] EXCEPT !.stop = TRUE] ELSE w[k]]
     \/ asked' = "master" /\ procs > 1 /\ w' = w
  /\ m' = [m EXCEPT !.stop = TRUE]
  /\ UNCHANGED <<procs, d, conns, faults>>

EdgeDown == m.pc = "exit" /\ \A k \in Workers : ~Running(k)

\* External: the orchestrator starts edge again (deploy/RUN.md).
Restart ==
  /\ EdgeDown /\ asked = "nobody"
  /\ m' = [pc |-> IF procs = 1 THEN "exit" ELSE "fork", i |-> 1, stop |-> FALSE]
  /\ w' = IF procs = 1 THEN [NoWorkers EXCEPT ![1] = NewWorker(FALSE)] ELSE NoWorkers
  /\ UNCHANGED <<procs, d, conns, asked, faults>>
-----------------------------------------------------------------------------
\* The kernel completes a connection: it waits in the backlog, whether or not a
\* worker will take it.
Established ==
  /\ conns' = [conns EXCEPT ![FreeSlot] = [edge |-> "backlog", peer |-> "held"]]
  /\ d' = [d EXCEPT !.pc = "poll", !.conn = FreeSlot]

\* net_dial, of an edge that listens and has room, or not.
net_dial ==
  /\ d.pc = "dial" /\ ~d.stop
  /\ IF Room THEN Established
     ELSE d' = [d EXCEPT !.pc = "poll", !.conn = 0] /\ conns' = conns
  /\ UNCHANGED <<procs, m, w, asked, faults>>

\* A SYN that had found no room is sent again.
Retransmitted ==
  /\ d.pc = "poll" /\ d.conn = 0 /\ Room /\ Established
  /\ UNCHANGED <<procs, m, w, asked, faults>>

Drop(c) == IF c = 0 THEN conns ELSE [conns EXCEPT ![c].peer = "closed"]

Doubled(b) == IF b < BackoffMax THEN b * 2 ELSE BackoffMax

\* The poll of a connection in progress: connected, or refused, reset or stopped,
\* which closes it and sleeps.
Polled ==
  /\ d.pc = "poll"
  /\ \/ /\ ~d.stop /\ d.conn # 0
        /\ d' = [d EXCEPT !.pc = "relay", !.backoff = BackoffMin] /\ conns' = conns
     \/ /\ d.conn # 0 => d.stop \/ conns[d.conn].edge = "closed"
        /\ d' = [d EXCEPT !.pc = "sleep", !.conn = 0] /\ conns' = Drop(d.conn)
  /\ UNCHANGED <<procs, m, w, asked, faults>>

\* Connected, but relay_new fails.
NoRelay ==
  /\ d.pc = "poll" /\ ~d.stop /\ d.conn # 0 /\ Fault
  /\ d' = NewDialer /\ conns' = Drop(d.conn)
  /\ UNCHANGED <<procs, m, w, asked>>

Slept ==
  /\ d.pc = "sleep"
  /\ d' = [d EXCEPT !.pc = "dial", !.backoff = Doubled(@)]
  /\ UNCHANGED <<procs, m, w, conns, asked, faults>>

\* relay_run and relay_free; the descriptor stays open.
Relayed ==
  /\ d.pc = "relay"
  /\ \/ (d.stop \/ conns[d.conn].edge = "closed") /\ Sound
     \/ Fault
  /\ d' = [d EXCEPT !.pc = "dial", !.conn = 0]
  /\ conns' = [conns EXCEPT ![d.conn].peer = "leaked"]
  /\ UNCHANGED <<procs, m, w, asked>>

Returned ==
  /\ d.pc = "dial" /\ d.stop
  /\ d' = [d EXCEPT !.pc = "exit"] /\ conns' = PeerGone("closed")
  /\ UNCHANGED <<procs, m, w, asked, faults>>

DialerAsked ==
  /\ ~d.stop /\ d' = [d EXCEPT !.stop = TRUE]
  /\ UNCHANGED <<procs, m, w, conns, asked, faults>>

\* edge-peer, or its host, goes away without a word and is started again.
DialerCrash ==
  /\ d.pc # "exit" /\ ~d.stop /\ Fault
  /\ \E how \in {"closed", "vanished"} : conns' = PeerGone(how)
  /\ d' = NewDialer
  /\ UNCHANGED <<procs, m, w, asked>>

Dialer == net_dial \/ Polled \/ NoRelay \/ Slept \/ Relayed \/ Returned
-----------------------------------------------------------------------------
Next ==
  \/ Master \/ \E k \in Workers : Worker(k) \/ Crash(k)
  \/ Dialer \/ Retransmitted \/ DialerAsked \/ DialerCrash
  \/ Signal \/ Restart

\* Every process that can run does run, and what is down is started again.
Spec ==
  /\ Init /\ [][Next]_vars
  /\ WF_vars(Master) /\ WF_vars(Dialer) /\ WF_vars(Restart)
  /\ \A k \in 1..MaxProcs : WF_vars(k \in Workers /\ Worker(k))
-----------------------------------------------------------------------------
TypeOK ==
  /\ m \in [pc : {"fork", "loop", "waitpid", "kill", "reap", "exit"}, i : 1..(MaxProcs + 1),
            stop : BOOLEAN]
  /\ \A k \in 1..MaxProcs : w[k].conn \in Slots \cup {0} /\ (w[k].pc = "relay") = (w[k].conn # 0)
  /\ d.conn \in Slots \cup {0}

(***************************************************************************)
(* One worker down brings edge down, and so does a signal for all of it    *)
(* (edge/main.c:122, 136), whatever each process is doing: forking,        *)
(* listening, waiting for an uplink or relaying.                           *)
(***************************************************************************)
EdgeComesDown ==
  (asked = "all" \/ \E k \in Workers : w[k].pc = "exited") ~> EdgeDown

(***************************************************************************)
(* After the last fault the tunnel comes up and stays up: a worker serves  *)
(* the connection that edge-peer relays on ("reconnect with backoff",      *)
(* MUX.md:265), past connections that died in the backlog.  The exception  *)
(* is an uplink that edge-peer has given up and not closed.                *)
(***************************************************************************)
Carried == d.pc = "relay" /\ w[First].pc = "relay" /\ w[First].conn = d.conn
GivenUp == \E c \in Slots : conns[c] = [edge |-> "held", peer |-> "leaked"]
TunnelComesUp == <>[](d.stop \/ asked # "nobody" \/ GivenUp \/ Carried)

(***************************************************************************)
(* What is said and does not hold.  A signal for the master alone brings   *)
(* nobody down ("Wait for a worker to exit (or a signal)",                 *)
(* edge/main.c:136): waitpid is restarted.  And edge keeps the uplink that *)
(* edge-peer has given up, because its descriptor is still open            *)
(* (edge-peer/main.c:64); the next one waits in the backlog.               *)
(***************************************************************************)
SignalEndsWait == asked = "master" ~> EdgeDown
NotGivenUp == <>[](d.stop \/ asked # "nobody" \/ Carried)
=============================================================================
