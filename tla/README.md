# Verification of the mux protocol

TLA+ models of the stream multiplexer in this repository, checked with TLC on
small instances and, where it matters most, proved with TLAPS for every value of
the constants.  Source paths are relative to `src/`.

## The system

| part | code | state | what it does |
|---|---|---|---|
| session | `libmux/src/session.c` | stream table, windows, output buffer, event queue, ids, drain flags | a sans-io protocol engine: calls of the host and frames of the peer in, frames and events out |
| codec | `libmux/src/frame.c` | none | header, TLV and frame layout |
| keepalive | `mux_on_timer` in `session.c` | deadline and age of the PING | heartbeats, gives up on a silent peer |
| relay | `common/relay.c`, `common/evloop.c` | connections, interest, dirty list | event loop: sockets to streams of one tunnel (edge and backend) |
| router | `edge-peer/router.c` | tunnels, routes, two maps, balancer | splices streams of edges to streams of workers |
| libpeer | `libpeer/src/libpeer.c` | client, streams, pending/ready/accept lists | an I/O thread and a blocking or readiness API for applications |
| programs | `edge/main.c`, `edge-peer/main.c` | processes | options, uplinks one after another, a supervisor of workers |
| bindings | `python/muxpeermodule.c`, `muxpeer_aio.py` | object map, readers | Python over libpeer |
| support | `common/net.c`, `common/auth.c` | none | system call wrappers, authentication proof |

Everything but libpeer is single-threaded, and edge is a family of processes.  What is hard is order: frames of two
ends cross on the wire, a stream can end at one end while the other still uses
it, two levels of flow control share one wake-up, event batches go stale while
they are dispatched, and objects of the host outlive the session they came from.

## Modules

| module | models | built on |
|---|---|---|
| `Window` | abstract specification of one flow-control window | |
| `Session` | `session.c`: one operator per function, session to session | |
| `Link` | two sessions, an ordered transport, and hosts that call the API | `Session` |
| `LinkProps`, `MCLink` | the properties of `Link`; constants for TLC | `Link`, `Window` |
| `Keepalive` | `mux_on_timer` and its clock | |
| `HostMux` | a session as its host sees it, whatever the peer does | |
| `Frame` | the codec of `frame.c`, bytes | |
| `Channel` | abstract specification of one direction of a tunnel | |
| `Wire` | one direction of a tunnel: output buffer, partial writes, receive buffer, `mux_recv`, event ring | `Frame`, `Channel` |
| `Tunnel` | two hosts that stop reading each other at a high-water mark | |
| `Tables` | the hash tables from ids to streams | |
| `Swrr`, `Balancer` | `pick_worker`; the pool it runs over | |
| `Structures` | `Balancer` and `Tables`, one at a time, for TLC | both |
| `Router` | `router.c` | `HostMux`, `Swrr` |
| `Relay` | `relay.c`, `evloop_wait` | `HostMux` |
| `LibPeer` | `libpeer.c` | `HostMux` |
| `Aio` | `muxpeer_aio.py` and the polling part of `muxpeermodule.c` | `LibPeer` |
| `Programs` | `edge/main.c`, `run_backend_mode` of `edge-peer/main.c`, TCP between them | |
| `WindowProofs`, `SessionProofs`, `LinkProofs`, `KeepaliveProofs`, `RelayConns`, `RelayProofs` | lemmas and theorems | |

**Session and Link.**  A session is one record with the fields of
`struct mux_session`.  Each C function is an operator with the same name; early
returns are the guards of its `IF`s, `emit` appends to `out` or raises INTERNAL
when the buffer is at `OutCap`.  `Link` keeps a session per role.  A frame stays
in its sender's `out` until the peer's `mux_recv` takes it, so output buffer and
transport are one queue.  Bytes are counted, not kept.  Two fields belong to the
host: `unread` (bytes handed over and not consumed) and `waiting` (short writes
not yet followed by WRITABLE).

**Window.**  Bytes of window are at the sender, on the wire as data, at the
receiver, pending, on the wire as credit, or lost.  `LinkProps` maps the
connection window from dialer to acceptor onto it; the code of the other
direction is the same.  It has no run of its own: `link_flow` shows that the code
implements it and `WindowProofs` what follows from it.

**Keepalive.**  Time is discrete; `call` is the deadline the host was given, and
it may call up to `MaxLate` late; an echo takes up to `MaxRtt`.

**HostMux.**  The operators that hosts call, and the set of sessions each frame
of the peer can lead to.  Send windows are forgotten: `mux_write` takes any part
of what it is offered and then nothing until WRITABLE.  That this is what a
session does (a short write always flags the stream, a flagged stream has no
room) is checked and proved in `Link`.

**Router, Relay, LibPeer.**  The state is one record, a handler is an operator
or an action, and each event that `mux_next_event` returns is one step.  In
`Relay` a batch of ready descriptors is fixed at `evloop_wait` and carries
indices, as the code does; the kernel's view of a socket is the field `sock`.  In
`LibPeer` the I/O thread and the callers interleave at every point where the
code releases the mutex.  All three are taken in the configuration without an
authentication token.

**Frame, Channel, Wire.**  `Frame` crafts and parses sequences of bytes; a byte is
a digit below `Base` and field widths are constants, so a small instance still
has fields of one and of several bytes.  `Wire` runs the frames through
`ob_reserve`, writes of any size, reads of any size and `mux_recv`.  An event
holds an offset into the receive buffer, as in the code, and its bytes are
looked up when the host handles it.  A credit for the connection wakes any number
of streams: which of them are blocked is the business of `Session`.  `Channel` is what this amounts to: the
events of the frames, in order, once.

**Tunnel.**  Frames have sizes in bytes, headers included, and keep their order;
the window counts the payload of DATA only.  A host writes within the connection
window whatever its backlog, sends control frames at any time, flushes into a
socket of `Pipe` bytes, and begins to read only while its own backlog is below
`High`; a read once begun goes on.

**Tables.**  `tab.slot` is the array; the hash of an id is any function of
`Init`'s choice, so every pattern of collisions is tried.

**Aio.**  `LibPeer` with the event loop in place of its callers.  One task step
is the code between two awaits; `on_ready` handles its batch without a task in
between, while the I/O thread goes on.

**Programs.**  The master, its workers and the dialler are programs over TCP
connections with an end at each side; a connection in the backlog is established
for the dialler whether or not anybody accepts it.  A relay is reduced to the
reasons for which `relay_run` returns.  The loops of the master that signal and
wait for the workers take one step for each of them.

## What the runs check

Passing runs.

| run | question | bounds |
|---|---|---|
| `link_streams` | opens, writes, half-closes, resets, drains and heartbeats cross: no end accuses the other, but for a control frame before the acceptor's greeting (`NoPeerFault`), no stream survives at one end only (`QuiescentTablesAgree`), no stream window drifts (`StreamConservation`) | 2 ids, both roles open, cap 1, 3 frames of output |
| `link_flow` | two streams share a connection window and either end resets them: the flags lose no wake-up, the connection window implements `Window`, an open within the cap is not refused, and a short write is followed by WRITABLE | 3 streams, cap 2, stream windows 1, connection window 2 |
| `keepalive_short` | timeout at most the heartbeat: no false alarm, detection in bounded time | heartbeat 4, echo 3, lateness 2 |
| `structures` | tables: a lookup finds exactly what was inserted and not removed, and an empty slot remains (`LookupExact`, `ProbesEnd`); balancer: exact shares in a stable pool, no starvation in a changing one | 4 ids, 3 hash values, capacity 4 and up; 3 workers, weights up to 2 |
| `router_splice` | the maps mirror each other, no half of a route survives alone, the windows are coupled, held bytes keep their wake-up, streams that a worker opens are refused | 1 edge, 1 worker, 2 streams, windows 2 |
| `relay` | connection and stream agree, blocked sockets have a wake-up, the loop sleeps with the right interest, finished connections are released, the listener is paused only at the cap | edge or backend, 2 slots, 2 streams, batches of 2 |
| `libpeer` | no call sleeps without a reason, requests keep moving, session and objects agree, the lists and the heap agree, the descriptor stays readable while streams are ready | 2 streams; blocking threads, streams kept over a reconnect, or an event loop |
| `aio` | no coroutine waits without a reason, map and handlers agree, `serve()` ends when cancelled, nobody strands on an ended stream | 1 stream object, 2 sessions, so that a pointer and an id are used again |
| `wire` | `Wire` implements `Channel`; output buffer and event ring within bounds; nothing left behind at rest | 3 frames of 7 to 9 bytes, output buffer of 8 to 16 bytes, receive buffer of 15, ring of 2 and up, 3 streams to wake |
| `programs` | one lost worker, or a signal for all, brings edge down; after the last fault the tunnel comes up for good | 1 or 2 workers, backlog 2, 2 faults |

Two runs show the code at odds with its documentation.

* `keepalive_default`.  With the default timeout of three heartbeats each PING
  restarts the age of the outstanding one, and a vanished peer is never detected.
* `tunnel`.  A host stops reading the tunnel at an output backlog of 4 MiB
  (`relay.c:208`, `router.c:409`, `libpeer.c:477`) but keeps writing within a
  connection window of 16 MiB.  Two hosts with traffic both ways can both be above
  the mark with the sockets full in both directions; each waits for the other to
  read, for ever (`PauseEnds`, against `MUX.md:153`).  The instance keeps the
  proportion of window and mark.

Other properties that the documentation leads one to expect are stated in the
modules and do not hold.  They have no run of their own; TLC shows each when it is
added to the configuration named.

| property | why it fails | where to see it |
|---|---|---|
| `WaitingEnds` without the disjunct on `dropped` | DATA of a reset stream takes connection window with it for good (`session.c:531`) | `link_flow` |
| `GreetingComesFirst` | an acceptor's heartbeat, GOAWAY or CAPACITY may precede its greeting (`session.c:873`) | `link_streams` |
| `IdsNeverReused` | a dialer's odd ids wrap to 1, never to the 0 tested for (`session.c:746`) | `link_streams` with `MaxSid = 3`, `SidSpace = 4`, cap 2 |
| `TailIsFed` | hosts call `mux_recv` only after a read; frames that the soft cap left behind wait for more bytes (`relay.c:431`, against `mux.h:262`) | `wire` |
| `q.count <= rcv.softcap` | the cap is tested between frames, and a credit for the connection queues a WRITABLE for every blocked stream, up to `max_streams` (`session.c:595`, against `mux.h:187`); `BuffersBounded` has the bound that holds | `wire` |
| `Router!FinAfterData` | a half-close is passed on ahead of bytes that wait for window, which can then never be written (`router.c:214`) | `router_splice` |
| `Router!DeadLeavesPool` | FATAL is ignored, a failed worker stays in the pool (`router.c:274`) | `router_splice` |
| `Router!GoneStreamsHoldNothing` | bytes of a killed route are never credited (`router.c:143`) | `router_splice` |
| `NoOrphanStream` | a read error destroys the connection and leaves its stream open (`relay.c:415`) | `relay` |
| `ConnectedIsConnected` | an event of a closed socket is applied to the connection that took its index in the same batch (`relay.c:493`) | `relay` |
| `Matches` for every session | closing a stream of a lost session acts on the new stream with its id (`libpeer.c:325`) | `libpeer` |
| `AcceptArmed` | streams queued before `lp_fileno` are not signalled (`libpeer.c:648`) | `libpeer` |
| `CallersLeaveFirst` | `lp_disconnect` frees the client under a call that is leaving (`libpeer.c:563`) | `libpeer` |
| `FatalNoticed` | the I/O thread keeps a failed session (`libpeer.c:298`) | `libpeer` |
| `LibPeer!GoneStreamsHoldNothing` | unread bytes of ended streams use up the connection window (`libpeer.c:233`) | `libpeer` |
| `HalfCloseHonoured` | CLOSED also reports a FIN, and `write()` then raises when the backlog is full (`muxpeer_aio.py:94`, against `MUX.md:144`) | `aio` |
| `BufferedWithinWindow` | `_feed_readable` credits bytes that no handler has read (`muxpeer_aio.py:64`, against `MUX.md:148`) | `aio` |
| `ReaderServed` | `_feed_readable` goes on for as long as data arrives | `aio` |
| `HandlersEndFirst` | `serve()` frees the client under its handlers (`muxpeer_aio.py:150`) | `aio` |
| `SignalEndsWait` | `signal()` restarts `waitpid`, so a signal for the master alone brings nobody down (`edge/main.c:136`) | `programs` |
| `NotGivenUp` | edge-peer does not close the connection it gives up, and edge goes on serving it (`edge-peer/main.c:64`) | `programs` |

`NoAcceptAfterGoaway`, `BlockedCountExact` and the `TypeOK` of each module hold in the
configurations of their modules; the runs leave them to the proofs or to the
reader.

**Why the bounds are enough.**  Streams interact only through the shared
connection window, the concurrency cap, the tables and the batch; two streams
are enough for one to starve, displace or outlive the other, and a third id for
reuse after an end.  A window of 2 has a state between empty and full, and half of
it is a different batch threshold from all of it; `ConnWin` below the sum of
stream windows makes the two levels block separately, as do the bytes of ended
streams in `link_flow`.  One reconnect is enough
for ids to mean something else.  The bounds on batches (`MaxBatch`, `MaxReady`)
are 2 where an event must overtake another.  `router_splice` has one worker;
the choice among several is the subject of
`structures`.  In `structures` the hash values collide in both capacities and the
last slot is one of them, so that clusters wrap.  In `wire` the ring grows while it
is wrapped, the output buffer compacts, doubles and refuses, a frame is cut at
every byte, the soft cap is either 1 or never reached, and a credit wakes more
streams than any other frame has events.  `aio` has one stream object, because
handlers share nothing but the loop, and a second session, so that its pointer is
reused.  In `programs` two workers are enough for one to fail beside another, and two
faults for one during the recovery from the other.  Where the argument is about
arithmetic rather than order, the theorems remove the bound.

**Fairness.**  `Link`: weak fairness of delivery and of consumption, an ordered
transport that is not cut and hosts that read, without which nothing can be
promised to a writer.  `Keepalive`: of the clock, of the echo of a live peer and
of the host's call at its deadline.  `LibPeer`: of the I/O thread only; callers
may stop calling.
`Aio`: of the I/O thread, and strong fairness of the loop, which needs a mutex that
the I/O thread releases in every round while it polls; handlers need neither call
nor end.  `Wire` and `Tunnel`: of the two hosts' loops and, in `Tunnel`, of
the applications that consume; nobody has to send.  `Programs`: of every process and of the
orchestrator; faults and signals need not happen.  Router and Relay are checked for safety only; instead of
"eventually" they state that whatever waits has its wake-up armed.

**Deadlock** is not checked where hosts may stop calling and peers may stop
sending; progress is stated by the properties above.

## What is proved

TLAPS checks the following for every value of the constants.

* `WindowProofs`: types, `Conservation`, `NoOverrun`, `BoundedBuffer` and
  `QuiescentHasRoom` for every window size.  The inductive invariant is the two
  balances (send side: what the ends differ by is in flight or lost; receive
  side: what is missing from the receive window is unread, pending or lost) with
  "less than half a window is pending", which makes starvation impossible.
* `SessionProofs`, `LinkProofs`: types, `BlockedMeansNoRoom`,
  `BlockedCountExact` and `WaitingIsBlocked` for any number of streams, any
  windows and any schedule.  None of the three is inductive alone.  `SInv` adds
  that a flagged stream is live (so that removing it keeps the count), that
  nothing is open before the greeting (so that the windows HELLO installs are
  those of all streams), and that the next id is fresh (so that opening a stream
  does not overwrite one).  `SessionProofs` shows that every frame handler keeps
  `SInv`, `LinkProofs` that every call does and that the pair does.  The theorems
  assume `NoWrap`, fewer ids than the id space; `IdsNeverReused` is why.
* `KeepaliveProofs`: types; `NoFalseAlarm` when every echo takes less than the
  timeout; `DetectedInTime` when the timeout is at most the heartbeat.  The
  invariant bounds the silence of the peer in each of three situations: an echo
  may still arrive, the next PING is awaited, that PING is being timed.
* `RelayConns`, `RelayProofs`: `MirrorsStream`, `BlockedHasWakeup`,
  `InterestCurrent`, `FinishedReleased` and `ListenerResumes` for every number of
  slots and streams, every window, cap and batch, in both roles.  None is
  inductive: events wait in the session's queue while the connection is still as
  it was.  `RelayInv` says that handling the queued events of a stream, in order,
  takes its connection exactly to where the stream already is (`Tracks`), that
  slots, free list, sid map and dirty list fit together, and that a socket whose
  interest is out of date is on the dirty list.  `RelayConns` has one lemma for
  each call of the loop, `RelayProofs` one for each action.

The assumptions on constants are the named `ASSUME`s of the modules (bounds and
windows are naturals, positive where the code replaces a zero by a default; sets
of roles are sets of roles) and, in `WindowProofs`, the hypothesis that the window
is positive.

**Only model-checked.**  All liveness (`WaitingEnds`, `DeadPeerDetected`,
`ServeReturns`, `NobodyStrands`, `EdgeComesDown`, `TunnelComesUp`),
which is out of the prover's reach; that the connection window implements `Window`
and that `Wire` implements `Channel`; and everything about Balancer, Tables,
Router, LibPeer, Aio and Programs.

## What is not modelled

* The TLV list of HELLO (`frame.c:130`): its fields are a record in `Session`.
* Authentication: a stateless computation; every model has no token.
* The kqueue and poll builds of evloop; the epoll build is in `Relay`.
* Address parsing and socket options of `net.c`; the outcomes of dialling,
  listening, accepting and keepalive probes are in `Programs`, `Relay` and `Router`.
* Option parsing of the programs and the expansion of port ranges.
* The blocking calls of the Python extension, which only wrap those of `LibPeer`,
  and its failed allocations.
* Failed allocations in general, except where the code closes or fails something
  because of them in `Programs`.
* The length of delays: backoff is a value, not a time.  (libpeer doubles 200 ms
  past its limit of 8000 ms to 12800 ms, `libpeer.c:461`.)
* Several threads on the same stream of libpeer: `LibPeer` has one per stream.  The code wakes one sleeper per event
  (`pthread_cond_signal`), so a second one may sleep on.
* A write or a credit that is cut into several chunks while the output buffer fills
  up (`session.c:763`): `link_streams` has a full buffer but one chunk per call.
* Examples, benchmarks and tests, which were read as statements of intent.

That `Link` implements `HostMux` is an argument and not a refinement: `HostMux`
forgets send windows, and a mapping would have to choose in advance what a
later write takes.
