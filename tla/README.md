# gritty in TLA+

gritty keeps a remote shell alive across network failures.  A daemon owns one
Unix socket; each session is a task with a PTY; clients attach through the
socket (over an ssh tunnel when the daemon is remote), render the PTY output and
reconnect by themselves when a link dies.  This directory models the parts of
that program whose correctness depends on interleavings and failures, checks
them with TLC on small instances and proves the central facts with TLAPS for all
instances.

Paths below are relative to the repository; modules are in this directory.

## Inventory

| Component | State | Operations | Talks to |
|---|---|---|---|
| Session task (`src/server.rs`, `run`) | `History` ring (`total_out`, base, chunks), alt-screen and mode trackers, scrollback, the `Framed` it serves, `SessionMetadata` | relay PTY output, drain while detached, replay to a returning client, takeover, idle eviction, exit, shutdown | daemon (`client_rx`, metadata), client (frames), PTY |
| Client (`src/client.rs`, `run`, `relay`) | `rendered_offset`, `last_activity`, reconnect backoff and gates, forwarded channels | render frames, send input, heartbeat, detect a dead link, reconnect with `Attach`, exit | daemon (handshake, `Attach`), session task |
| Daemon: Attach and ownership (`src/daemon.rs`, `dispatch_control`) | `owner_device_id`, `attached` in the shared metadata | grant or refuse `Attach`, hand the connection to the task | client, session task |
| Daemon: session registry (`src/daemon.rs`) | `sessions` map, `next_id`, `last_attached`, linger | `NewSession` (with rollback), `Rename`, `Kill`, `SetLinger`, `List`, reapers | session tasks, one-shot commands |
| Daemon: control socket (`src/daemon.rs`, `src/security.rs`) | `ctl.sock`, `.bindlock`, `daemon.pid`, `socket_identity` | bind under flock, register, self-check, re-bind, give up, shut down | other daemons, external cleanup, `procscan` |
| Tunnel supervisor (`src/connect.rs`) | per-destination lock, pid and kick files, ssh child, backoff | acquire, spawn, monitor, respawn, disconnect, clean up | ssh, client, `net_watch` |
| File transfer (`src/server.rs`, `src/commands/transfer.rs`) | one rendezvous slot per session, manifests, streams | send, receive, pair, cancel | session task, service socket |
| Forwarding (`src/server.rs`, `src/client.rs`) | channels for ports, ssh agent, OAuth callback | open, data, close, teardown at detach | client, session task |
| Tail (`src/server.rs`) | broadcast receivers | follow output, lag, exit | session task |
| Orphan scan (`src/procscan.rs`, `src/commands/refresh.rs`) | process table against registrations | scan, confirm, reap | daemons |
| Trackers and parsers (`alt_screen`, `term_modes`, `line_shadow`, `query_filter`, `scrollback`, escape processor, frame codec) | incremental parser state | feed bytes | session task, client |
| Command line, config, names, logging, reports | none that outlives a request | — | — |

What is hard, and where (the full list, with lines, is `hazards` in
`PROJECT.json`):

* **Resuming by offset.**  Client and server keep one number in step across
  lost frames, replays that are not counted, a ring that evicts, and links that
  die in the middle of a replay.
* **Two writers of one flag.**  The daemon sets `attached` at hand-over, the
  task clears it when a client leaves; the queue between them decouples both.
* **Both ends give up a link independently.**  Idle eviction, heartbeat
  timeouts, stalled sends and takeovers cross each other on the wire.
* **Files as shared memory.**  Daemons, supervisors and cleanup jobs meet only
  in a directory; a path can name another inode after every system call.
* **External cleanup** deletes sockets and pid files under a running daemon.

## Modules

| Module | Models |
|---|---|
| `OutputLog` | abstract: an append-only log and readers that only move forward |
| `SessionStream` | one session, its clients and the links between them |
| `ControlSocket` | several daemons contending for `ctl.sock`, `.bindlock` and `daemon.pid` |
| `Registry` | the daemon's session map, its requests and reapers, and the tasks and clients they race with |
| `Orphans` | `gritty refresh`: scan, confirm, reap, beside daemons that heal themselves |
| `Tunnel` | the lock, pid and socket files of one tunnel, its supervisors, cleanup and destroy |
| `TunnelMonitor` | the select loop of one supervisor over ssh, probes, kicks and backoff |
| `ClientReconnect` | the reconnect loops of `connect` and `tail` |
| `Heartbeat` | pings, staleness, suspend, eviction, and the clamping of the configured times |
| `Transfer` | send, receive, the rendezvous slots, the relay and the partial file |
| `Forwarding` | the channels of port forwards, agent and OAuth tunnel over several relays |
| `Services` | open, copy and paste requests of programs in the session |
| `Keyboard` | escape processor, `pending_input`, partial writes to the PTY |
| `TerminalSync` | private modes, alternate screen and scrollback over replays and exits |
| `LineShadow` | cursor column and attributes read back from the retained output |
| `QueryFilter` | removal of terminal queries from a replay in chunks |
| `FrameCodec` | encoding and decoding of frames over a byte stream |
| `MCOutput`, `MCDaemon`, `MCParts`, `MCAround`, `MCSessionStream`, `MCControlSocket`, `MCRegistry` | instances for TLC |
| `XInv`, `XProofs`, where X is `SessionStream`, `ControlSocket`, `Registry`, `Tunnel`, `Heartbeat`, `Forwarding`, `TerminalSync`, `Keyboard` | the inductive invariant of X with what it assumes of the constants, and the theorems about X |
| `OrphansInv`, `TransferInv`, `TunnelMonitorInv`, `ClientReconnectInv`, `ServicesInv`, `QueryFilterInv`, and the last part of `LineShadow` | the same for these seven; their theorems are at the end of `ControlSocketProofs`, `RegistryProofs`, `TunnelProofs`, `HeartbeatProofs`, `ForwardingProofs`, `KeyboardProofs` and `TerminalSyncProofs`, about instances `O`, `T`, `M`, `R`, `V`, `F` and `LS` with variables of their own |

`MCOutput`, `MCDaemon`, `MCParts` and `MCAround` put several components into one run: the
variable `part` says whose behaviour it is, that component takes its steps and
all others stay as they were.  They share nothing, so each is checked as it would
be alone.  A component meets its neighbours through what it models of them: `Tunnel`
has a reduced monitor and `TunnelMonitor` a lock that may be lost;
`ClientReconnect` has the tunnel's lock and socket; `Orphans` has the daemon's
self-check in one step, which `ControlSocket` has in parts; `SessionStream`
has the wire that `TerminalSync` and `Keyboard` take for granted.

### SessionStream

The task of `server::run` is in one of five phases: `birth` (waiting for the
creator's connection), `attached` (the relay loop), `replay`
(`send_reconnect_replay`, one send per step), `detached` (the drain loop) and
`ended`.  `client_rx` is the channel from the daemon, `attached` and `owner` the
shared metadata.  `History` is `total`, `base` and `starts`, the offsets where
retained chunks begin: bytes are their positions, so nothing about their values
is kept.  `Push` evicts whole chunks as the code does.

A client is `new` (has not connected), `live`, `down` (in the reconnect loop) or
`gone`.  An explicit connect is an `Attach` with token 0 and is a fresh viewer;
a reconnect claims ownership, forces, and carries `rendered`.

A connection is a queue of frames and a link state.  `Cut` loses what is in
flight; dropping a `Framed` closes the socket but delivers what was flushed; a
client that leaves discards what it did not read; a send to a dead link succeeds
into some buffer, or fails, whichever comes first.  A frame carries the
positions of its bytes (`lo`, `hi`) so that the model can tell which bytes were
shown; the client uses only the length of a `Data` and the offset of a `Resume`,
as the code does.

The history variables `cursor`, `lost`, `interrupted` and `holder` record what
happened and are read by no action.

Abstracted: bytes are positions; winsize, `line_dirty`, cursor repair, mode sync
and the scrollback context of a fresh viewer are presentation; timeouts are
nondeterministic (bounded by `MaxFaults` where they need a stall); one session.
`no_replay` probes and a metadata slot that never gets published change no state
of this model.

### ControlSocket

Each daemon is a process with a program counter through `bind_unix_listener`,
`run_with_options`, `check_socket` and `shutdown`; every system call that
touches a shared file is a step.  A path holds the number of the inode it names.
`bound` and `listening` are the sockets of a process, `lockFd`/`locked` its
descriptor and flock of the bindlock.  A starting daemon and one that re-binds
run the same steps; `recovering` tells them apart.  `SocketCheck::Lost` and a
failed start are `GiveUp`: the process exits and touches no file.

External cleanup (`Wipe`) deletes any file in `Wipeable`.  `WipeInBind` says
whether it may hit in the few system calls between the flock and the `stat` that
records the identity.

Abstracted: `secure_create_dir_all` and failing writes of `daemon.pid`; the
`.info` sidecar is written and removed together with `daemon.pid`; the draining
of sessions; inode numbers are not reused.

### Registry

`sessions` is the daemon's map from ids to `SessionState`; a record holds the
name, the shared `SessionMetadata` and where the session task is (`task`), with
the channel of clients handed over (`queue`) and the one served.  An entry and
its task leave together: `abort_session` drops the task, and nothing looks at a
task whose entry was swept.  `loop` is the accept loop: `top`, `scan`
(`reap_lingering`), `select`, and the two handlers that wait, `new` and
`attach`; while they wait, or the reaper is between two loads, tasks and clients
go on.  `reap_lingering` loads `attached` and `last_heartbeat` in two steps and
`mark_detached` stores them in two (`LoseClient`, `ClearAttached`), because the
runtime is multi-threaded.

Time is a count of second boundaries, as `epoch_now` sees it; a record keeps the
age of `max(last_heartbeat, created_at)`, and that age at the reaper's clock.
The history fields `idle` and `given` are read by no action.

Abstracted: all clients have one device id (ownership is in `SessionStream`);
the output stream; `List`, `Tail`, `SendFile` and `no_replay` probes, which at
most reap (`OtherEvent`); the wall clock does not step backwards.  A string is a
name, `-` or a number, and only numbers of existing ids are tried.  `MaxQueue`
bounds the unbounded `client_tx`.

### Tunnel and TunnelMonitor

In `Tunnel`, supervisors and tools are processes whose program counters go
through `run`, `ConnectGuard::drop`, `cleanup_if_unheld` and `disconnect`, one
system call a step.  `path` is the inode at the lock file's path, `flock` who has
locked an inode, `fd` what a process has open; inode numbers are reused once
nobody has the file open.  `yanked` is a history variable.  A hang stands for
whatever keeps a supervisor from looking at its signals.

`TunnelMonitor` is `tunnel_monitor` with `respawn_tunnel`: the arms of the
`select!` are actions of `LoopStep`, the respawn loop is `respawn` (its top),
`wait`, `ready`, `ensured`.  Times are what the code tells apart (grace, young,
healthy; a recent health check or not); backoffs are in seconds.

### ClientReconnect and Heartbeat

`ClientReconnect` is in the relay (`attached`), in the wait at the top of the
loop, or in an attempt.  `Look` is the whole way from a wake to the attempt: the
schedule, the offline gate, the supervisor, the socket gate.  The two gates are
ages of streaks.  `tail` has no keys and a fixed wait.  Time passes in waits and
in attempts against a server that does not answer.

`Heartbeat` has the client's timers on its own clock, which stops while the
laptop sleeps, and the two ages that `link_is_stale` and the idle eviction
compare.  The configured times run over all values from 0 to 9 with an eviction
time of 9.

### Transfer, Forwarding and Services

`Transfer` has streams between peers and sessions, each of whose ends may close;
`slot` is `TransferState`, `events` and `notify` are the unbounded channels of the
session, `relay` the copy task, `partial` and `target` the receiver's files.  The
chunks of a file are the name of their sender.

`Forwarding` has one of the four forwards per behaviour.  `cid` is the channel
number of a connection, `chan` the table of an end, `ev` the queue of reader
events, `wire` the frames.  Frames and events also carry the number of the
connection, which no guard reads.

`Services` has one request per program, the session's two queues,
`pending_paste`, and the frames to and from one client.

### Keyboard, TerminalSync, LineShadow, QueryFilter, FrameCodec

The byte-level components are state machines over small alphabets: a mode, a
final byte or a key of each kind that the code tells apart.  Each is compared
with something that is not the code: `Keyboard` with `Meant`, which says of a
position in the whole of the input whether the shell should get it;
`TerminalSync` and `LineShadow` with a terminal that executes the same output;
`QueryFilter` with `QueriesRemoved`, defined on the whole of the input at once;
`FrameCodec` has two tables, what `encode` writes and what `decode` expects, each
taken from its own function.  In `Keyboard` a byte is its place in `typed`, so that
a lost, repeated or exchanged byte shows.

### Orphans

`Orphans` steps through `refresh.rs` and `confirm_and_reap` (`refresh`), with
daemons of two builds: those of the current one repair their files at the next
self-check, at most `Lateness` late.

## Runs

| Run | Components and bounds | Result |
|---|---|---|
| `output_safety` | `SessionStream`: 2 clients on 2 machines, ring 2, reads of 1 or 2 bytes, 3 bytes, 3 connections, 2 faults. `TerminalSync`: 3 writes of 6, 2 attaches; 1.3 M states | all hold |
| `daemon` | `ControlSocket`: 3 daemons, 2 wipes of socket or pid file, 2 crashes; again with 1 stop, 1 crash and no wipe. `Registry`: 1 client, 2 sessions, a restart. `Orphans`: 2 daemons, 2 wipes, 1 refresh. `Forwarding`: 1 connection, 2 relays, 1 fault, all four services. `SessionStream`: ring 1, 2 bytes, 4 connections, 1 fault; 0.5 M states | all hold, liveness under fairness |
| `parts_safety` | `Forwarding` (local port forward, 2 connections, 2 relays), `FrameCodec` (2 frames, base 4), `QueryFilter` (4 pieces of 19), `LineShadow` (5 operations, 3 columns), `Keyboard` (4 keys, 1 drop), `Heartbeat` (all pairs of times), `TunnelMonitor` (2 faults), `Transfer` (2 senders, 2 receivers, file of 2), `ClientReconnect` (2 faults); 2.0 M states | all hold |
| `parts_liveness` | `Registry`: 2 clients, a session, a restart, linger 0 or 2. `Tunnel` (2 supervisors, 1 tool, 1 command, 1 fault), `TunnelMonitor` (1 fault), `Transfer` (file of 1), `ClientReconnect` (2 faults), `Services` (2 programs, 2 clients); 0.2 M states | all hold, liveness under fairness |
| `stream_no_silent_loss` | one client | **violated** |
| `stream_stale_claim` | two clients of one machine | **violated** |
| `socket_bind_serialized` | 3 daemons, 1 stop | **violated** |
| `socket_stop_unlinks` | 2 daemons, 1 wipe, 1 stop | **violated** |
| `registry_handoff` | 2 clients, 1 session | **violated** |
| `tunnel_cleanup_yanks` | 2 supervisors, 1 tool, no fault | **violated** |
| `client_parks` | 3 faults | **violated** |
| `forward_crosstalk` | 2 connections, 2 relays | **violated** |

Deadlock is not checked where a behaviour may end: sessions end, clients exit,
daemons stop, transfers complete, and the bounds on what is written run out.
Only `registry_handoff` checks it.

Why these bounds.  `MaxTotal` exceeds `Cap`, so that the ring evicts and the
`Truncated` plan is taken, and with chunks of different sizes `base` and a
client's offset fall apart; an alternate screen may come and go with every read.
Two faults are what the worst case found needs (a link that dies, and a replay
that is cut short on the way back); two more connections than that let a client
retry.  `MaxConns` is 4 where liveness is checked so that a retry always finds a
connection.  Three daemons are the fewest for which the bindlock can fail: one
unlinks it, one holds the deleted inode, one creates a new file.  In the
registry, a linger of 2 tells an age that is one second short from one that is
due; a restart needs a second client to create the session that could be
mistaken for the first one's, and a name can capture an id only with two
sessions.  A supervisor, its successor and one tool are what the lock file needs
to change hands while somebody else has it open.  Two relays let a channel
number come back, two senders let an offer be replaced, and a file of two chunks
lets it be mixed.  `parts_safety` has one of the four forwards, the one whose
ids outlive the clients; `daemon` has all four, with one connection.  A query needs four pieces to be cut, refused and taken up
again; a screen line of three columns has a first, a middle and a last one, where
wraps happen.  Backoffs and graces are small multiples of a second in the order
the code has them, so that a wait can fall short of a grace, meet it and pass it.

### What the passing runs show

The session's stream:

* `CountIsPosition`: `rendered_offset` is always the true position of the next
  `Data` byte.  `ImplementsOutputLog`: no byte is shown twice or out of order, and
  nobody is ahead of the stream.  `LossOnlyFromCutReplay`: bytes are missed without
  a marker only if a replay was cut short.  `ShortOutageResumes`: an outage that
  fits in the ring (less what one evicted chunk takes with it) resumes without a
  loss marker.
* `ServedIsAttached`: the flag that the linger reaper and plain `connect` go by
  is set while a client is served.  `StaleClaimRejected`: with one client per
  machine, a client that was taken over never takes the session back.
* `Converges`: after the last fault every client that still runs is connected
  and at the end of the stream.

The daemon:

* `BindSerialized`, `BindKeepsLiveSocket`, `OneDaemonStays`: as long as the
  bindlock file stays, contending daemons end up with at most one, which is
  reachable and registered; nobody's live socket is removed and nobody gives up
  without a competitor.  `StopSparesOthers`: without external cleanup, a stopping
  daemon removes only its own socket.
* `NoGhostSession`: a creator that vanishes leaves no session behind.
  `ReconnectsHome`: a reconnect by id reaches the client's own session or none,
  across renames, kills and restarts.  `LingerKept`: the reaper never condemns
  a session somebody was handed to, or used, within its linger.
  `IdleReaped` (`Registry!EventuallyReaped`): a session with a linger that nobody is connected to, or
  asks for, does not stay.
* `SparesHealing`: `refresh` reaps a current daemon that serves only if that one
  healed itself since the first scan and lost its files once more, never because
  it had not come to its self-check yet.

The tunnel and the client's loops:

* `DropKeepsOwner`: a supervisor that ends looks at the lock file, then unlinks
  it two steps later, and still never unlinks that of another one, unless a
  cleanup has unlinked a file other than the one it locked.  `Heals`: whatever
  came before, supervisors that lost the path leave and the one that has it is
  reachable.  `DestroyStops`: `tunnel-destroy` ends the supervisor it read the pid
  of, hung or not.
* `BackoffClimbs`: nothing but health or a change of the network restarts the
  climb, and a kick from before the outage is not seen.  `GhostSpawnsOnce`: a
  supervisor without its lock spawns ssh at most once.  `Reconnects`: it gets its
  tunnel back, again and again.
* `GraceKept`: a single outage shorter than the grace ends no client, and the
  verdict on a longer one is not put off by the backoff.  What counts is what the
  loop takes for an outage: an attempt goes by the supervisor it saw when it began,
  so a refusal may be held against a supervisor that has come back meanwhile, and
  the streak this starts is ended only by the next attempt (with four faults a
  client can exit although the server and its supervisor were never down together
  for the grace).  `Settles`: a
  disconnected client attaches or ends, whatever keys are pressed.
* `HealthyStays`, `DeadNoticed`: no configuration makes the session evict a
  healthy client, nor the client give up a healthy link if its timeout has room
  for two intervals and a round trip; a dead link is noticed within one heartbeat
  interval and a blocked send, also after a suspend.
* `TypesOK` of a run checks the inductive invariants of the components that have
  theorems, beside the types of the others; `TerminalAgrees` that of
  `TerminalSync`.

What passes through:

* `TargetIsWhole`, `PairedCompletes`: a received file is whole or was not
  touched; a pair that found each other completes, whatever other offers and late
  notifications do.
* `OwnBytes`, `ChannelsFinish`: channels of one client do not mix; what was read
  arrives, and a channel closed at one end leaves both tables.
* `AnsweredTruly`: every request is answered, and a program that was told that
  nothing happened is told the truth.  Its safety part is `ToldTruly`.
* `InputIntact`: the shell reads what was typed for it, in order, once and whole,
  but for what a dead link or the full queue drops.
* `TerminalAgrees`, `HandedBack`: the terminal of an attached client has the
  program's modes and screen; a client that exits hands it back with the
  defaults.  `CursorRestored`: the restored column and attributes are the
  terminal's.  `InputMinusQueries`: a replay loses the queries of the history and
  nothing else, wherever it is cut.  `FramesIntact`: frames arrive as they were
  encoded, from older peers too.

### What the violations show

* `NoSilentLoss`.  The replay sends `Resume { total }` before the bytes it
  stands for.  If the link dies in between, the client counts bytes it never
  got, the next resume starts behind them and no marker is printed.
  `ARCHITECTURE.md:32` promises exactly the missed bytes.
* `StaleClaimRejected` with two terminals of one machine.  The token of an
  `Attach` is the device id, so a terminal that was displaced while disconnected
  silently takes the session back; `ARCHITECTURE.md:75` says it is rejected.
* `BindSerialized`.  `remove_bind_lock_if_unheld` unlinks the lock file while a
  starting daemon has it open but not yet locked; the doc comment of
  `bind_unix_listener` says the sequence is serialized.
* `StopKeepsOthersSocket` under cleanup.  `shutdown` removes the path without
  comparing it with `socket_identity`; the comment of `drain_sessions` says the
  new owner's files must not be unlinked.
* `HandOffObserved`.  The task of a session whose client has just gone clears
  `attached` after the daemon has set it for the next client and queued it; until
  the task takes that client, a non-forced `Attach` is granted and takes the
  session from it.  The comment at `src/daemon.rs:1125` says such an `Attach` is
  guaranteed to observe the mark.

* `CleanupSparesLive`.  A cleanup opens the lock file, is overtaken by another
  one that unlinks it and by a supervisor that creates it anew, locks the deleted
  inode and unlinks the new file.  `docs/tunnel-state-machine.md:199` says such a
  supervisor is unaffected.  `Heals` shows that it recovers: it notices and leaves.
* `ParksOffline`.  A gate that was streaking when the network went is overdue
  while the client is parked; `cap_backoff` is then zero and the loop spins until
  the network is back, where the comment says it parks.
* `NoCrossTalk`.  Teardown clears the channel tables but aborts no reader, and a
  new client numbers its channels from the start: the bytes a reader of the
  previous client still delivers reach the new channel of that number.  The
  comment at `src/server.rs:1564` says the look at the table prevents this.

Further observations made while modelling, without runs of their own:

* With `WipeInBind` a daemon can record the identity of another daemon's socket,
  and `NoOrphans` fails; if a bindlock is unlinked by a stopping daemon, the other
  socket properties fail too.
* Taking a query out of a sequence that was never finished can join its halves
  into another one.
* A sequence that is cut at a client's offset is cancelled by the mode sync, so
  that a terminal can stay in the alternate screen (`aligned`, `whole`).  A fresh
  viewer's scrollback is replayed after the sync, and can hold older mode changes
  (comment of `send_resume`).  `AltScreenTracker` ignores a full reset.
  The `Truncated` arm sends `?1049l` unconditionally; the client's comment says
  this is not a no-op on the main screen.
* The line shadow anchors at a carriage return only, where the comment of
  `cursor_restore` has a newline as well; a backspace with a wrap pending is off
  by one, and a restored cursor has no wrap pending.
* A `~.` that follows data whose send failed is not obeyed (`undone`).
* Requests to open or copy are answered as delivered although the send may fail
  and the client limits their rate.
* With a timeout below two intervals, one-way traffic makes the client give up a
  healthy link (`HealthyStays` has the bound).
* A lost `.info` file alone is not repaired, so `refresh` restarts a current
  daemon; and a client that attaches between its count of sessions and its
  `KillServer` is cut off.

### Fairness

`SessionStream!FairSpec`: weak fairness of the task's own steps and of each
client's.  The task is a tokio task whose `select!` is polled for ever; a client
keeps its heartbeat timer and its reconnect loop running until it exits.  PTY
output, faults, the user and the daemon's wish to end a session are not fair.
A link that the server holds open without serving it is noticed by the client's
heartbeat timeout (`link_is_stale`), which needs no message.
`ControlSocket!FairSpec`: weak fairness of each daemon's steps: the event loop
turns and `socket_check` ticks with a fixed interval.  Wipes, crashes, starts and
stops are not fair.
`Registry!FairSpec`: weak fairness of the clock, of the accept loop's own steps
(its `socket_check` ticks, sends and waits have deadlines) and of each session
task, which notices a lost client by a failed read or send or by the idle
eviction.  Requests, the user, shells that exit and restarts are not fair.

The other components' `Fairness` follows the same rule: loops, timers and tasks
of the program run, the user and the world are free.

* `Tunnel`: each process takes its steps, ssh binds or ends; strong fairness for
  looking at a signal and for a deadline, which other arms may win again and again
  but not for ever.
* `TunnelMonitor`: the loop and the probe interval; ssh binds and a broken network
  recovers (`SshBinds`, `Recover`), without which nothing could be promised.
* `ClientReconnect`: both loops; strong fairness for the arms of its `select!`
  and for time, which pass whatever keys are pressed; what heals by itself heals.
* `Transfer`, `Forwarding`, `Services`: peers, sessions, relays and event loops
  take their steps; the user stops peers, clients and forwards at will.  A
  forwarded socket need not have data, or ever close.

In a run of several components a promise has the form
`part = "x" => (XFair => X!Promise)`: the specification of the run is without
fairness and each component assumes only its own.  `XFair` is `X!Fairness` with
`part = "x"` conjoined to each of its actions, which is the same in a behaviour of
that part and asks nothing in those of another one.

## Proofs

Each theorem is about all values of the constants that its assumption admits; the
assumptions are named, and TLC evaluates them for the instances of the runs.  The
inductive invariants are in the `Inv` modules and were checked by TLC before
they were proved; the runs still check them (`TypesOK`).

| Module | Theorems | For |
|---|---|---|
| `SessionStreamProofs` | `CountCorrect` (`CountIsPosition`), `ServedMarked` (`ServedIsAttached`), `NothingElseLost` (`LossOnlyFromCutReplay`), `OutagesResume` (`ShortOutageResumes`), `Refinement` (`ImplementsOutputLog`), `OffsetsAreSane`, `Invariance`, `TypeCorrect` | any clients and devices, ring, reads and bounds |
| | `StaleClaims` (`StaleClaimRejected`) | clients with a device each |
| `ControlSocketProofs` | `Serialized` (`BindSerialized`), `LiveSocketKept` (`BindKeepsLiveSocket`), `TypeCorrect` | any daemons, wipes and crashes; the first two if nothing removes the bindlock (`LockStays`: cleanup spares it and no daemon is stopped) |
| | `OwnIdentity`, `GivesUpRightly` (`GivesUpToAnother`) | the same, if cleanup also spares the window between the flock and the stat |
| | `FirstStopSpares` (`StopKeepsOthersSocket`) | any daemons and crashes, no cleanup, one stop |
| | `HealingSpared` (`SparesHealing`), `OrphansTyped`, of `Orphans` | any daemons and self-check interval; a self-check at most one second late (`LatenessAssumption`) |
| `RegistryProofs` | `NoneUnattended` (`NoGhostSession`), `Homecoming` (`ReconnectsHome`), `NoEarlyVerdict` (`LingerKept`), `TypeCorrect` | any clients, sessions, restarts, queues and lingers; names are no numbers (`RegistryAssumption`) |
| | `WholeTarget` (`TargetIsWhole`), `OneSender`, `TransferTyped`, of `Transfer` | any senders, receivers, sessions and file size; peers and sessions are told apart from what is sent (`PeersAssumption`) |
| `TunnelProofs` | `OwnerKept` (`DropKeepsOwner`), `TypeCorrect` | any finite sets of supervisors and tools, any commands and faults (`ProcessAssumption`) |
| | `ClimbKept` (`BackoffClimbs`), `OneGhost` (`GhostSpawnsOnce`), `MonitorTypes`, of `TunnelMonitor` | any limit of the backoff, strikes and faults (`BackoffAssumption`) |
| `HeartbeatProofs` | `HealthyLinkStays` (`HealthyStays`), `DeadLinkNoticed` (`DeadNoticed`), `TypeCorrect` | any configured times, an eviction time with room for an interval, a delay within the margin (`TimesAssumption`) |
| | `OutageSurvived` and `VerdictInTime` (together `GraceKept`), `ReconnectTypes`, of `ClientReconnect` | any schedule, attempt timeout and faults, and graces of which the daemon's is not the shorter (`GraceAssumption`) |
| `ForwardingProofs` | `BytesStayApart` (`OwnBytes`), `TypeCorrect` | all four services, any connections, relays and faults (`BoundsAssumption`) |
| | `ServicesToldTruly` (`ToldTruly`, the safety part of `AnsweredTruly`), `ServicesAnswerOnce`, `ServicesAccounted`, of `Services` | any programs, clients and kinds of request, any window of the rate limit (`ServicesAssumption`) |
| `TerminalSyncProofs` | `TerminalSynced` (`TerminalAgrees`), `TerminalHandedBack` (`HandedBack`), `LastWriterWins` | any writes of any bytes, any ring and scrollback; a mode sequence may have two modes, and a number may be 47 at least (`TerminalSyncAssumption`) |
| | `CursorComesBack` (`CursorRestored`), `LineShadowTyped`, of `LineShadow` | any known width, any number of attributes kept, any operations of `Operations`, and room for the longest parameters, 9 bytes (`LineShadowAssumption`) |
| `KeyboardProofs` | `InputKept` (`InputIntact`), `KeyboardTyped` | any keys, any cap of the queue, any room of the PTY, any number of drops (`KeyboardAssumption`: they are natural numbers) |
| | `QueriesTakenOut` (`InputMinusQueries`), `QueryFilterTyped`, of `QueryFilter` | any chunks of any bytes, any number of chunks, limits of at least 2 bytes (`QueryFilterAssumption`) |

The arguments, each of which is the invariant's reason to be stronger than the
property:

* **The stream.**  That a client's count is right for the frame it reads now
  follows from every frame already on the wire continuing where the one before it
  ends (after `Resume` re-bases the count), from the replay not having promised
  more than it goes on to send, from each connection being served, queued or read
  by at most one party, and from `rendered` never exceeding what the server has
  produced: `IInv` states these chains over `wire`, `replay`, `client_rx` and
  `connOf`.  That nothing else is lost needs that an uninterrupted client's stream
  has no gap (`Gapless`) and covers all up to what the task sends next
  (`Covers`); that a short outage resumes, that the ring keeps whole reads
  (`ReadsKept`).
* **The control socket.**  With the lock file in place every open descriptor of it
  is the inode at the path, so the flock excludes (`LockInv`); inside the section
  the socket at the path changes only through its owner, hence what the probe found
  dead is what is removed (`BindInv`), and the socket that is stat'ed is the one
  that was bound (`OwnInv`).  A daemon that contends has compared the path with the
  only socket it has, and inodes are not reused: what it finds is not its own
  (`PathInv`), so whoever is alive there is another daemon.  Without cleanup the
  socket of a daemon that serves stays at the path (`ServeInv`), until a shutdown
  takes a file away (`Calm`).
* **The registry.**  A session serves only while it is marked, and what the
  reaper is about to judge has, if it is served by now, a time stamp that says so
  (`PresenceInv`, `ScanInv`); a handler that waits holds a session that is still
  in the map and the client that asked (`AskingInv`), so a creator that vanishes
  is noticed by the handler that would leave its session behind.
* **Refresh.**  At the scan every daemon that heals itself has its self-check
  ahead, at most the interval away, and the wait is two seconds longer; a second
  takes from both, and a daemon that comes to its self-check is registered or
  ends (`GraceInv`).
* **The tunnel.**  Whoever has the flock of an inode has that inode open
  (`FlockInv`), and an inode number is reused only if nobody has it open; so
  between the look of the guards and their unlink the lock file stays the one they
  looked at (`GuardInv`), unless a cleanup took it away, which `yanked` records.
  That a free number exists is the pigeonhole principle over the processes.
* **The supervisor's loop.**  What the next attempt doubles is `sleep`, which is
  not always the backoff: it is 0 after a kill of our own and 1 after health, but
  then the count of failures starts again (`ClimbInv`).  That a climb doubles with
  each failure needs 2 ^ (n + 1) = 2 * 2 ^ n, an induction for the prover; it
  follows from the number of subsets of a set (`FS_SUBSET` of the library, whose
  own proof takes that equation as known), since a set with one more element has
  twice as many.  After a spawn without the lock the loop is where both ways back
  look at the lock (`GhostInv`).
* **The reconnect loop.**  A gate's streak begins in what the loop takes for a
  death and both age with the same seconds, so that it is no older than the only
  death there was; if that one is over the streak goes on until somebody looks, and
  a new death is a second one (`OutageInv`).  A wait that was not parked is
  cut to what is left of the grace, and an attempt ends the socket's streak
  (`WaitInv`).
* **The heartbeat.**  The client sends at every second tick at least
  (`HeardInv`), and a Ping or what answers it is on its way before the timeout
  (`AskedInv`); the age of a stale link is taken from the time to the next tick
  or from the patience of a send (`StaleInv`).
* **Transfers.**  A peer has one place: out, in the queue, in the slot, in one
  relay, or sent off (`PlaceInv`); a receiver has one sender, and has read a
  prefix of what that one's relay writes (`StreamInv`).
* **Forwards.**  Ids are given out in order, and two connections share one only
  across relays (`NextInv`, `IdsInv`); tables, events and frames go by the ids
  given out (`ChanInv`, `EventInv`, `FrameInv`).
* **Services.**  A request that is not answered is in one of the two queues or is
  the pending paste, by its kind and once (`InOnePlace`), and a program waits
  exactly while its request does (`WaitInv`); a paste waits for an attached client
  only, under its deadline (`PasteInv`).  Whatever is on its way to a client, or
  was obeyed by one, has been answered with "yes" (`ObeyInv`), so that a "no" is
  the truth.
* **The terminal.**  `Scan` is a fold; it is shown to be a step function applied
  byte by byte, and what follows is by induction over the bytes.  Two terminals whose
  scanners stand at the same place of a sequence end in the same place, and in
  the same modes if they began in them (`ScanTogether`).  The session has scanned
  the whole stream (`SessionHasAll`), a client's tracker stands where its terminal
  does (`ClientHasAll`, `TrackerIsRight`), and the sync puts the terminal into the
  modes of the end of the stream; the replay after it, which is only an end of
  the stream, leaves them as they are (`LastWriterWins`: a mode that it touches
  is last set as the stream last set it).  This needs the replay to end where
  the stream is in a sequence, which is what `aligned` records (`ModesAgree`).
  What a client sends when it exits is scanned from any state at all.
* **The line shadow.**  Between two operations the shadow is inside no sequence, and
  once its place is known its column is the terminal's, or the one after the last
  column exactly while the terminal has a wrap pending (`SameColumn`); this holds
  of the saved position as well (`SavedHere`), or a restore would lose it.  The
  segments it keeps are as many as the terminal has painted with since the last
  reset, and paint the same, unless they were more than the limit (`SamePaint`).
  What it makes of the bytes of each operation is computed from the definition of
  the scan, byte by byte (`CsiEffects`, `GroundEffects`, `EscEffects`).  The last two
  bytes of an operation, which is as much as the model lets the history keep of one,
  have no ESC and no lead byte, so a reading that begins with them stays outside of
  sequences and has taken in nothing but a column (`RestRead`).
* **The keyboard.**  `process` is shown to be its step for one byte, repeated until
  a command stops it.  After each byte, what has been sent or is held back is, in
  order, what is meant of the bytes given so far, less what is lost (`Good`):
  what one more byte adds to `MeantOf` is told by whether the line is at its
  start or just after a tilde there, and the state of the processor says
  which, as long as every `~.` was obeyed (`EscapeInv`).  Bytes are read in the
  order they were typed (`InOrder`) and what is unread is not lost yet
  (`UnreadKept`).  All other steps move bytes along the way, or take a part out of its
  middle and count it as lost, which leaves the rest in order (`SameWay`,
  `LessWay`); a drain that stops in the middle of a frame takes a first part of
  the bytes (`DrainCuts`).
* **The query filter.**  What is held back is the end of the input, no query
  reaches into it, and of what begins before it nothing longer will be a query
  (`Hopeless`, `Stands`): without that last part a query could end in a later
  chunk that began in what has been let through.  What is held back begins with an
  ESC and has no other but that of its terminator, so that a query which ends now
  either is all of it or began before it, which is hopeless.  Each byte keeps this
  (`StepKeeps`), and `scrub` is a fold of such steps over the chunk
  (`ScrubKeeps`), so where a chunk ends does not matter.

The library's induction theorems have an operator as a parameter, which the
provers cannot instantiate.  Induction over data is done in the form of a set
instead: the numbers for which a statement holds, containing 0 and closed under
successor, are all of them (`NatSetInduction`), because `<` is well founded on
`Nat`.  What a fold of the community modules computes follows from the existence of
its recursive function on the subsets of an interval (`FoldExists`), built step by
step; a flattened sequence the same way (`BytesSteps`).  `TerminalSyncProofs` and
`KeyboardProofs` each begin with these lemmas: neither can extend the other, as
their variables differ, and a module between the two would be about neither.

Only model-checked, and why:

* All liveness (`Converges`, `OneDaemonStays` but for `GivesUpToAnother`, `Heals`,
  `DestroyStops`, `Reconnects`, `Settles`, `IdleReaped`, `PairedCompletes`,
  `ChannelsFinish`, `AnsweredTruly` but for `ToldTruly`): out of the prover's reach.
* `FramesIntact`: it compares two tables of layouts.  Nothing but the size of that
  case analysis is in the way of the induction above.

## Plan

Every component with state of its own is modelled, and every safety property and
action property is proved but for `FramesIntact`.  What is left is depth:

1. `FramesIntact`: that decoding takes from any stream of bytes just what one
   `encode` put there, from which the rest follows frame by frame.
2. `PairedCompletes` has a safety part (a pair has one relay) that could be stated
   apart.

## Not modelled

* Command line, reports, completion, tables: they parse arguments, send one
  request and print the answer.
* Configuration other than `clamp_heartbeat`: merging of a file, no state
  after start.
* Session names: a hash of a directory and a check of characters.
* Logging and `.info` sidecars: output only (`Orphans` has the one reading of an
  `.info` that decides something).
* The broadcast channel of `tail`: a slow observer lags and is told so; nothing
  counts its position.
* The rate limiter of open and copy requests beyond its count in `Services`.
* The payloads of most frame types: `FrameCodec` has one of each shape.
* Bootstrapping a remote host over ssh (`ensure_remote_ready` is one step of
  `TunnelMonitor` that succeeds or fails).
