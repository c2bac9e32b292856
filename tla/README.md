# A TLA+ model of LocalBolt native and its signaling server

LocalBolt sends files between devices. This repository holds two programs' worth
of control logic: the **bolt-rendezvous signaling server** (`signal/`), through
which devices find each other, and the **native clients** (`native/`), a Rust
bridge with macOS, GTK and command-line shells around it. This directory models
that logic in TLA+, checks it with TLC on small instances, and proves every safety
property that the runs check with TLAPS for every instance.

Paths below are relative to the repository's root.

## The system

### Inventory

| Component | State | Operations | Interacts with |
|---|---|---|---|
| Connection slots (`signal/src/lib.rs`) | `active_connections` atomic | `try_acquire_slot` (load, compare_exchange, retry), `ConnectionGuard::drop` | accept loop and every handler task share the counter |
| Connection handler (`signal/src/server.rs`) | one task per WebSocket: effective IP, peer code, session id, write task and channel | handshake, registration loop, message loop (`signal`, `manual_signal`, `ping`), teardown | calls `RoomManager`; writes into other handlers' channels |
| Rate limiter (`signal/src/server.rs`) | `remaining`, `window_start`, `consecutive_violations` | `check` | one per handler, in both loops |
| `RoomManager` (`signal/src/room.rs`) | `DashMap` from room key to entries; `NEXT_SESSION_ID` | `add_peer`, `remove_peer`, `find_peer`, `find_peer_manual` | called concurrently by all handlers |
| Protocol (`signal/protocol/src/lib.rs`) | none | message types | server and clients |
| Signaling client (`native/shared/src/signaling.rs`) | peer list, event and signal queues, `connected` | the event callback, drain, send, stop | two servers (local and cloud plane) feed one list; the shell polls it |
| Daemon handle (`native/shared/src/daemon.rs`) | child process, stderr buffer, mailbox files | start, stop, commands written as files | the bolt daemon (external) |
| IPC bridge (`native/shared/src/ipc.rs`) | bounded event queue, running flag | start, drain, send decision, stop | daemon socket thread and polling shell |
| Session control (`BoltBridge.swift`, `LocalBoltApp.swift`) | session and transfer phase, generation, pairing prompt, pins | connect, accept, decline, cancel, poll of IPC events and signals | signaling client, IPC bridge, daemon |
| Session contract (`native/shared/src/contract_parity.rs`) | none | table of legal transitions | what every shell's session control must obey |
| Linux shells (`native/linux/cli`, `native/linux/gtk`) | polling loops over the same bridge | start, status, send, stop; dialogs | bridge, daemon |

### What is hard

- Handlers run on several threads. `add_peer` and `remove_peer` take the map's
  locks more than once, and channels are written inside and after the locks.
- Clients vanish, reconnect under the same code before the server noticed the
  old connection (the repository calls this race DP-5), stall, or send nothing.
- Limits (slots, peers of a room, rooms, messages per second) are tested in one
  step and used in another.
- On the client, two servers and a daemon deliver events asynchronously to a
  shell that polls, and that starts, cancels and replaces sessions meanwhile.

`PROJECT.json` lists each such place with its line under `hazards`, with the
properties that would catch it going wrong.

### What correctness means

- Slots: the counter is exact, the limit holds, a client is turned away only
  when all slots are taken, and every path out of a handler frees its slot.
- Rooms: a code is listed once; an entry belongs to a live connection of that
  room; a teardown removes its own entry and no other; the room limit holds;
  empty rooms go away; members of a room learn of each other.
- Relay: a signal goes to the code it names, within the room unless it is a
  manual one; no handler waits for another's client.
- Limiter: what passes in any second is bounded; a client within the limit is
  never refused; a close needs a streak within one window.
- Signaling client: the shared list is wrong only in the ways its merge rule
  admits, no signal is lost or repeated on its way to the shell, and the screen
  catches up with the list.
- Daemon control: no command that runs to its end leaves a daemon behind unless it
  said so, every command ends, a pairing request is answered at most once.
- Bridge: what its bounded buffers drop, and that they never invent, repeat or
  reorder; a request that was reported as written stays in its file until it is
  taken; a dead daemon is noticed.
- Session: only the contract's transitions; an approval holds for one code; a
  device name keeps its key.

## Modules

| Module | Models | |
|---|---|---|
| `SlotPool` | what the connection limit promises | abstract specification |
| `ConnectionSlots` | the lock-free counter of `lib.rs`, each atomic access a step | implements `SlotPool` |
| `RateLimit` | `RateLimit` and the close decision of both loops | |
| `Rendezvous` | handlers, rooms, slots, channels and the peer lists clients build | implements `SlotPool` |
| `SignalingClient` | the two-plane client of the bridge and the macOS poll loop that reads it | |
| `DaemonControl` | `start`, `start --watch` and `stop` of the command line, and the daemons | |
| `DaemonBridge` | the daemon handle, its stderr, the IPC queue, the request files, `send` | |
| `SessionContract` | the session phases every shell must keep to | abstract specification |
| `Session` | the macOS app's session control: clicks, signals, daemon events | implements `SessionContract` |
| `ConnectionSlotsProofs`, `RateLimitProofs`, `RendezvousProofs`, `SignalingClientProofs`, `DaemonControlProofs`, `DaemonBridgeProofs`, `SessionProofs` | the theorems about each module | |
| `NatLemmas` | least numbers, induction and loops, for the proofs about lists | lemmas |
| `MC...` (one per checked module) | instances for TLC | |

### ConnectionSlots

The accept loop is one task, so at most one connection is between `Accept` and
its decision; `Load` and `CompareExchange` are its two atomic accesses and
`DropGuard` the access of any handler that ends, possibly in between.

### RateLimit

Time is a counter of ticks, `Window` of them to the second. `Check` is the whole
of `check()` followed by what both loops of `handle_connection` do with its
result. `log` and `starts` are history variables the properties speak about.
The comment on the type says "sliding-window"; the code counts in fixed windows,
and `BurstBound` states what that guarantees: at most twice the limit in any
second.

### Rendezvous

`pc[c]` says where the handler of connection `c` is; the comment above `Phases`
lists the positions in the order of `handle_connection`. A step is what a task
does atomically: one atomic counter access, everything under one `DashMap` entry
lock, or one channel send.

| Code | Actions |
|---|---|
| `run`, `try_acquire_slot` | `Accept` (one step here; `ConnectionSlots` refines it) |
| peek, upgrade, client IP | `Handshake`, `HandshakeFails`, with `ForwardedFor` and `ClientIp` |
| registration loop | `Register`, `RegisterInvalidCode`, `RejectInput`, `AbandonRegistration` |
| `add_peer` | `AddPeerProbe` (session id, `contains_key`), `AddPeerCount` (`len`), `AddPeer` (under the entry lock) |
| `peers` message | `SendPeers`, after the lock |
| `signal` | `Signal` (`find_peer`), then `Relay` |
| `manual_signal` | `ManualSignal`, `ScanRoom` per room, `ScanDone`, then `Relay` |
| leaving the loop | `Leave` (idle timeout, close, error, rate-limit close) |
| `remove_peer` | `RemovePeer` (under the entry lock), `RemoveRoom` (`rooms.remove`, after it) |
| abort of the write task, return | `Finish` |
| write task and client | `Deliver`, `WriteTaskFails`; `Merged` is the client's callback |

An entry of a room is the connection whose handler made it, since its code,
sender and session id are that connection's. Message contents other than codes,
device names and WebTransport addresses are left out; all inputs answered by an
error alone are the one action `RejectInput`; `ping` changes nothing.
`write_task.abort()` drops the receiver at once in the model. In tokio it takes
effect when the task next yields, so a send may for a moment succeed into a
channel nobody reads, which no property tells apart from a queue dropped unread.

### SignalingClient

The client library calls one closure from its own threads, which takes each lock
for its whole body: one action per `DiscoveryEvent`. The shell's `poll()` runs on
the main thread and calls one C function after the other, each with a lock of its
own: one action per call, so that callbacks fall between any two of them.

| Code | Actions |
|---|---|
| the closure of `bolt_signaling_start` | `OnConnected`, `OnPeerList`, `OnPeerJoined`, `OnPeerLeft`, `OnDisconnected`, `OnSignal` |
| `SignalingManager.poll()` | `PollStart`, `DrainEvents`, `DrainSignals`, `HandleLine`, `ReadCount`, `GetPeer`, `Publish` |
| `bolt_signaling_start`, `bolt_signaling_stop` | `Start`, `Stop` |

A plane is external: it may announce, take back and signal what it likes as soon as
it is connected, before its list too. This repository's server does that: a
registration is visible to the other handlers before its `peers` message is queued
(`signal/src/server.rs:450-454`), so joins and leaves can come first, and the list,
an older snapshot, can name a peer that has left (finding 2). `gone` holds the codes a
plane took back before its list. `received`, `retractedBy`, `lost` (announced by a
plane that dropped) and `late` (named by a list after they were taken back) are history
variables. A peer is its code; names and WebTransport data kept with it are left out. The two loops over the
list, the merge of a `peers` list and `retain`, are the recursive functions `Merged`
and `Without`, one call a round of the loop.

### DaemonControl

Several `start` commands and one `stop`, each a process of its own, on one socket
path. `start[s]` is where a command is; `proc[d]` is the daemon spawned by the
command of the same name. Daemons are external: they may come up late or never,
take over the path, hang (deaf to SIGTERM), or die.

| Code | Actions |
|---|---|
| `cmd_start` | `StartProbes`, `StartFails`, `StartSpawns`, `InstallHandler`, and the readiness loop `StartGivesUp`, `StartReady` |
| `event_loop`, `handle_event` | `WatchConnects`, `HandleEvent`, `LineTorn`, `Answer`, `WatchEnds`, `WatchFails` |
| Ctrl+C | `CtrlC` with the handler installed, `Interrupted` before |
| panics | `Panics` (a `println!` without a terminal, a slice inside a character) |
| `terminate_child` | `ChildExited`, `ForceKill` |
| `cmd_stop` | `StopProbes`, `StopTerminates`, `StopSeesSocketGone`, `StopKills` |

The length of the time-outs is left out: a loop with a deadline may give up at any
round. The spawn and `ctrlc::set_handler` are two steps, and a SIGINT between them
ends the command where it is: position `aborted`, like a panic, with the child left
running. `probe_readiness` between readiness and the watch, which only prints, is left
out and taken to return; `set_handler`, whose result the code drops, is taken to
succeed. Which binary `resolve_daemon_path` settles on is abstracted to whether it can
be spawned.

### DaemonBridge

Three channels between the shell and its daemon, each with its own way to lose
things: stderr in a buffer trimmed at the front, IPC events in a queue that
refuses the newest, and requests as files that the next one overwrites.

| Code | Actions |
|---|---|
| `bolt_daemon_start`, `bolt_daemon_stop` | `DaemonStart`; `DaemonStopKills`, `DaemonStopWaits` |
| stderr reader thread | `DaemonLogs` with `Trimmed` |
| `DaemonManager.poll()` | `PollRunning` (`try_wait`), `PollStderr` (the tail, the flag by `LatestLifecycle`, the clean-up) |
| `bolt_ipc_start`, its callback, drain, stop | `IpcStart`, `IpcEvent`, `IpcDrain`, `IpcStop` |
| request functions of `daemon.rs` | `BridgeWrites` (one kind each), `BridgeReturns` |
| `cmd_send` | `SendProbes`, `SendOverIpc`, `SendIpcFails`, `SendOpensFile`, `SendWritesFile` |

Requests and events are numbered, which is all the properties need to tell them
apart. A line of stderr is what the shell looks for in it.

The seven request functions differ in the name of their file and the check of their
arguments only; both versions of `connect_remote` use one file. `std::fs::write`
truncates (`Truncate`) and then writes (`Fill`, `FillFails`), and between the two the
other writer or a daemon may be at the same file: two writers may leave a mixture,
and a file removed in between takes the bytes with it. `mail` is the request that is
whole in a file; `newest`, `fate` and `raced` are history: the newest request of a
kind, what its caller was told, and whether its write overlapped another write or a
removal. The daemons are external and the model assumes next to nothing of them
(`DaemonRemoves`): one of them removes a file at some moment. Whether a daemon reads
a file before it removes it, or two daemons read the same one, is not in this
repository, so nothing is claimed about how often a request is acted on.

### Session and SessionContract

`SessionContract` is the table of nine legal transitions that `contract_parity.rs`
counts and checks; the table itself belongs to bolt-core-sdk, and its pairs are taken
from the transitions the methods of `IpcManager` state.
`Session` is the session control of the macOS app. All of it runs on the main
thread, so a step is one click, one signal, one daemon event or one change of the
WebTransport state; what the model leaves open is their order, and that late and
stale ones come at all.

| Code | Actions |
|---|---|
| buttons and sheets | `Request`, `Cancel`, `AcceptIncoming`, `DeclineIncoming`, `DecidePairing`, `Approve`, `Disconnect`, `Dismiss` |
| `wireSignalingHandler` | `OnConnectionRequest`, `OnConnectionAccepted`, `OnConnectionDeclined` with `DeclinedObserved` |
| `IpcManager.start`, `poll` | `StartIpc`, `OnPairingRequest`, `OnSessionConnected`, `OnSessionSas`, `OnSessionSasUnseen`, `OnSessionEnded`, `OnStatusNoPeers`, `OnBridgeDisconnected` |
| observers of `wtSessionActive`, `wtSessionSAS` | `OnWtActive`, `OnWtCode`, `OnWtInactive` |
| quit and start | `Restart` |

`session-connected` passes through `connecting` inside one event; the contract
therefore allows a step to be two legal transitions. Events may lack the peer's key, as
in the code: a session may then be connected with nobody on screen, and a code is shown
without a mismatch test or a pin. `latest`, `run` and `pinned` are history variables:
the last code given for the session on screen, the number of restarts, and every pin
ever made with the run it was made in.

## Runs

| Run | Instance | Shows |
|---|---|---|
| `slots` | 5 connections, 2 slots | `CounterExact`, `ImplementsSlotPool` (which has the limit in it), and `AcceptDecides` under fairness |
| `rate_limit` | limit 2, threshold 3, window 3, 12 ticks | `BurstBound`, `StreakWithinWindow`, `NeverRefusedBelowLimit` |
| `rendezvous_rooms` | 3 connections, 3 codes, a private and a public address, 1 room allowed, 2 peers a room | `SlotsExact`, `UniqueCodes`, `ListedAreLive`, `RoomLimit`, `EmptyRoomsReclaimed`, `RoomsWithinSlots`, `PeersLearnOfEachOther`, `TeardownSparesOthers` |
| `rendezvous_relay` | 2 connections, 2 codes, 2 rooms, clients may send | `SignalRouting`, and under fairness `TeardownCompletes`, `RegistrationDecided`, `RelayEnds` |
| `signaling` | 2 planes, this device and 2 others, 5 discovery callbacks, 2 signals | `MissingOnlyIfLeftElsewhere`, `StaleOnlyByOutageOrLateList`, `SignalsOnceInOrder`, and under fairness `ShownCatchesUp` |
| `daemon_control` | 2 `start`, one with `--watch`, 1 `stop`, 2 daemon messages | `NoOrphans`, `AnsweredOnceInOrder`, and under fairness `CommandsEnd` |
| `daemon_bridge` | buffer of 3 lines trimmed by 2, tail of 2, queue of 2, 2 request files, 4 inputs | `WtFlagExact`, `QueueKeepsOldest`, `NewestRequestKept`, and under fairness `DeathNoticed` |
| `session` | 2 names, 2 keys, 2 codes, 6 inputs | `VerifiedMeansLatestCode`, `SecondKeyNeedsRestart`, `ImplementsSessionContract` |
| `rendezvous_lost` | 2 connections | finding: `RegisteredIsListed` fails |
| `rendezvous_ghost` | 2 connections | finding: `NoGhostPeers` fails |
| `rendezvous_stale` | 2 connections, one code | finding: `StaleConnectionEnds` fails |
| `session_restart` | as `session`, 5 inputs | finding: `KeyContinuity` fails |

**Bounds.** Two connections suffice for each race of two handlers; three let a
third observe it, be in the way of it, or fill the room. Three codes let all
three be distinct; two addresses give two rooms. `MaxRooms = 1` with two
addresses makes the `MAX_ROOMS` refusal happen. `MaxQueue` is the one artificial
bound: clients send only while every queue is shorter than it (0 switches client
messages off where only joins and leaves matter); what handlers send each other
is never restricted. No instance of the server has more connections than slots (a
fourth connection beside three slots exceeds what TLC can enumerate): turning a
client away is checked in `slots`, where the accept loop is modelled access by access,
and proved for the server in `ServerImplementsPool`. The limiter's run covers four windows, twice what a
violation of `BurstBound` needs. `MaxCallbacks = 5` lets one plane connect, list and
retract a peer around what the other does with it, and take a peer back before listing
it. Two request files are one that both writers use and one of the app alone. The
buffers of the bridge are
scaled down from 1000, 500, 30 and 1000 with their order kept, so that four inputs
exceed each of them. `MaxInputs = 6` in `session` covers two whole sessions with a
code each; clicks are not counted. Deadlock is not checked because every model may
end: all connections closed, the clock stopped, every command and handle done, or
the inputs used up.

**Symmetry.** `rendezvous_rooms` permutes connections and codes, which
the specification treats alike; the runs with liveness properties
use no symmetry.

**Fairness.** `FairSpec` gives weak fairness to each handler's own steps: sends
are unbounded and locks are held for a few instructions, so a scheduled task is
never blocked by another. Clients and sockets (`Client`, `Deliver`) are owed
nothing: they may stall for ever. In `ConnectionSlots` only the accept loop's two
accesses are fair. `IdleFairSpec` adds that a connection continuously idle in the
message loop leaves it (`IDLE_TIMEOUT`); a client that keeps sending does not.

In `SignalingClient` and `DaemonBridge` the poll is fair: it is a repeating timer of
the main thread and has no wait in it. In `DaemonBridge` so is the return of a write
to the data directory, during which the main thread cannot poll. In `DaemonControl` every command's
own steps are, since its loops all have a deadline or a read time-out, and so is
the death of a process that was sent SIGKILL; a daemon need not serve or react to
SIGTERM, and the user may leave a prompt open. `Session` claims no liveness.

**Mutants.** Each property is paired in `PROJECT.json` with a mutation of the code
that violates it: a dropped session-id test, a swapped limit, a bounded channel,
an early return past the cleanup, and so on. They stand beside the definitions
they change, marked as mutants.

## Findings

1. *A registration is lost with its room* (`rendezvous_lost`). `remove_peer`
   finds the room empty under the lock and removes the key after releasing it. A
   peer that registers in between is dropped from the map: its handler runs, but
   nobody sees it or can signal it until it reconnects. `remove_if` with the test
   inside would close the gap.
2. *A peer that left stays listed* (`rendezvous_ghost`). The `peers` message is
   sent after the lock; if a peer of the snapshot leaves in between, its
   `peer_left` is queued first and the client re-adds the peer for good.
3. *A replaced connection is not closed* (`rendezvous_stale`). Its handler holds
   a sender of its own, so dropping the entry's sender closes nothing.
4. *Pinned keys do not survive a restart* (`session_restart`). `PinStore.save` writes
   dates in ISO 8601 (`BoltBridge.swift:566`), `load` decodes them with the default
   strategy (line 558), fails and starts empty, while the type's comment (line 500)
   says it "Persists peer identity keys to disk (JSON) for TOFU key-continuity". A name
   pinned with one key, a restart, and the name is pinned with another key: no
   mismatch is shown. Within one run of the app `SecondKeyNeedsRestart` shows, and the
   theorem proves, that this cannot happen.

### Observations

Behaviour of the code that the models reproduce, that no sentence of the
repository forbids clearly enough for a finding or that no run is about:

- `connected` of the signaling client is set by the first plane and never cleared
  (`native/shared/src/signaling.rs:160`), while the getter's comment promises
  "connected to at least one plane".
- A peer that leaves one plane is removed from the shared list although the other
  plane still has it, until that plane announces it again
  (`MissingOnlyIfLeftElsewhere` says this is the only way).
- A key stays pinned under the first name it came with, or under none if `session-sas`
  came with no session on screen (`BoltBridge.swift:532`). A device whose key is pinned
  so is not pinned under its own name, and a second key of it is then not a mismatch.
- `DaemonManager.stop()` does not reset `wtSessionActive` (`BoltBridge.swift:113-132`);
  it is called from `deinit` only. `WtFlagExact` speaks of what polls find.
- A request written while `send` writes the same file, or while a daemon removes it,
  can be lost although both callers are told it was written
  (`native/shared/src/daemon.rs:348`); `NewestRequestKept` says that this, and a newer
  request, are the only ways.
- A SIGINT between the spawn and `ctrlc::set_handler` (`native/linux/cli/src/main.rs:198`,
  `217`), and a panic later on, leave the child running without anybody to wait for it;
  `NoOrphans` excepts both.
- Until `session-sas` arrives, a session has `.legacy` trust, which lets transfers
  through; a WebTransport code that arrives after a mismatch replaces it.
- `connection_accepted` in `incomingRequest` leads to `connecting` with no peer to
  show and no button to leave by.
- The command line: a read that times out inside a line loses the line, and a
  request with it; the label of an "allow always" decision reads "denied"
  (`native/linux/cli/src/main.rs:536`); Ctrl+C in the last readiness round is
  ignored without `--watch`; `stop --socket-path` still reads the default pid file.
- The GTK shell ignores `session-ended` (`native/linux/gtk/src/main.rs:157`).

The `MAX_ROOMS` test can be passed by several registrations at once and the limit
exceeded; `RoomsWithinSlots` shows that the rooms stay bounded by the running
handlers. `signal/src/lib.rs:37` says refused connections receive HTTP 503; the
code drops the stream.

## Proofs

Every invariant, action property and refinement that a passing run checks is also a
theorem. The instances and bounds of the runs play no part in them: they hold for

- any finite set of connections, any codes and addresses, and all limits with at
  least one peer a room (`ConnectionSlots`, `Rendezvous`);
- any positive limit, threshold and window (`RateLimit`);
- any planes, any finite set of codes with this device's own among them
  (`SignalingClient`);
- any set of `start` commands, any of them with `--watch` (`DaemonControl`);
- any positive sizes of buffer, trim, tail and queue with
  `TailLines <= BufferCap + 1 - Trim`, so that a trim leaves what the shell reads
  (500 and 1000 lines against 30 in the code), and any set of request
  files (`DaemonBridge`);
- any names, keys and codes (`Session`);

and for every value of `MaxQueue`, `MaxTime`, `MaxCallbacks`, `MaxSignals`,
`MaxMessages` and `MaxInputs`. The "none" values are assumed distinct from the others.

- `ConnectionSlotsProofs`. `IInv` adds to exactness and the limit that a
  connection about to swap has loaded a value below the limit
  (`SwapBelowLimit`): without it a successful compare_exchange could exceed the
  limit. Cardinalities follow from `FS_AddElement` and `FS_RemoveElement`.
  `SlotsImplementPool` maps each step to a step of `SlotPool` or a stutter.
- `RateLimitProofs`. The invariant ties the history to the counters: how many of
  the latest messages belong to the current window, that windows started at least
  a second apart, and that a refusal streak needs an exhausted budget.
- `RendezvousProofs`. The inductive invariant is
  `TypeOK /\ SlotsExact /\ Known /\ RoomInv /\ Routing /\ Sessions`.
  `Known`: a handler has a room key after the handshake and a code once
  registering, without which the types of messages are not preserved. `RoomInv`:
  unique codes, listed entries live, the room limit, absent keys empty, empty
  keys about to be removed; these depend on each other (a refused registration
  evicts nobody *because* the limit held before). `Routing`: a held sender's
  connection has registered and never changes code or room again. `Sessions`:
  session ids are unique, which makes `remove_peer` remove its own entry only.
  `Frame` says once what the actions that do not write the map leave alone; only
  `AddPeer`, `RemovePeer` and `RemoveRoom` are then treated one by one.
  From it follow the safety theorems and the refinement of `SlotPool`.
  `RoomsAreWithinSlots` gives each room key a running handler of that room
  (`RoomHasHandler`), an injection, and counts the handlers by `SlotsExact`.
  `PeersLearn` is proved relative to `IInv`. `Learns(list, msgs, k)` says that a
  client with this list and these messages still to come will know `k`: some message,
  or the list itself, names `k` and no later message takes it back. It survives what
  is appended to the queue (`LearnsAppend`) and the delivery of its head
  (`LearnsDeliver`). Only a teardown sends a `peer_left`, and by `UniqueCodes` its code
  is that of nobody else in the room, so it takes back nobody who stays.
- `SignalingClientProofs`. The list: `AddedPeer`, `MergedLists` and `WithoutCode` say
  what the loops do to a list for every length. From them each callback keeps the two
  properties of the list, which need no strengthening beyond the types (`ListInv`). The
  signals: `BatchWorkedOff` (a batch is handled before the next is drained) makes
  `SignalsOnceInOrder` inductive, as an equation between the received signals and the
  concatenation of handled, batch and queue.
- `DaemonControlProofs`. `ChildInv` says what a command owes its child at each
  position: none before the spawn, none or a reaped one at the end. `RequestOrder`
  orders everything a watcher has: answers before the open prompt, the prompt before
  the unread requests, and all of them not beyond what the daemon sent; torn lines
  and Ctrl+C then only leave numbers out.
- `DaemonBridgeProofs`. `LatestSays` and `UnseenKept` relate the buffer to the
  daemon's session: the latest lifecycle line in the buffer tells it, and as long as
  no more lines arrived than the shell reads, all of them are still in the buffer and,
  if none is a lifecycle line, the session is as it was at the last poll. Trimming
  keeps both because of the assumption on the sizes. The mailbox: `AloneInFile` says
  that while nothing overlaps it, a writer between its two steps is alone in its file,
  has the newest request of the kind, and the file is empty and still there; the end of
  the write then leaves just that request in it.
- `SessionProofs`. `ReviewedCode` (a code up for review is the last one given)
  strengthens `VerifiedMeansLatestCode`, which is not inductive alone: `Approve`
  would approve whatever is on screen. `PinsOfThisRun` (what this run pinned is in the
  pins still) gives the mismatch test its force, and a restart begins a run without
  pins. The refinement of `SessionContract` is a case
  per action; that a peer is shown in `connected` only, a part of `TypeOK`, makes the
  actions that clear the peer stutter or legal.
- `NatLemmas`. The provers cannot use the library's induction theorems, whose
  parameter is an operator. `LeastNumber`, `GreatestNumber` and `SetInduction` state
  induction over sets of numbers instead, from the well-foundedness of `<`;
  `LoopTable` shows that the recursive function behind a loop of n rounds exists.

Only model-checked: the liveness properties (`AcceptDecides`, `TeardownCompletes`,
`RegistrationDecided`, `RelayEnds`, `ShownCatchesUp`, `CommandsEnd`, `DeathNoticed`),
which need fairness and `ENABLED`; and the four findings, which are
counterexamples.

## Plan

All parts of the system with state of their own are modelled, and the safety
properties are proved. Left to do:

1. The safety cores of the liveness properties, which the prover does reach: a poll
   with no callback in between publishes the client's list; a command's waiting
   position always has a step of its own enabled, stated without `ENABLED`.
2. Properties for the hazards that still have none, where the code settles what is
   right; the notes in `PROJECT.json` say which do not.

## Not modelled

- Server start-up and configuration, which are read once.
- JSON encoding, device names and message wording.
- The C interface's pointer and string conversions.
- The GTK app: its own code turns events into widget texts and dialogs; the
  lifecycle behind them is in the `bolt_app_core` library.
- In `Session`, the progress of transfers; in the bridge, `send_signal` and
  `send_decision`, which hand their argument to the library; `status` of the
  command line, which only reads.
- The daemon and `bolt_app_core`, which are not in this repository: they appear as
  external actions, with what the code here can observe of them.
- Build and packaging scripts.
