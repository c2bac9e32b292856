---------------------------- MODULE DaemonBridge ----------------------------
(***************************************************************************)
(* The native bridge between an app and its bolt-daemon: the daemon handle *)
(* (native/shared/src/daemon.rs), the IPC event queue (ipc.rs), the poll   *)
(* of the macOS shell on both (DaemonManager in BoltBridge.swift), and the *)
(* `send` command of the Linux command line, which shares the daemon's     *)
(* data directory.                                                         *)
(*                                                                         *)
(* Three channels with three ways to lose what they carry: the daemon's    *)
(* stderr, kept in a buffer trimmed at the front; its IPC events, kept in  *)
(* a queue that refuses the newest; and the requests to it, one file per   *)
(* kind, overwritten by the next.  The daemons are external: the app's own *)
(* child and any others, one of them at the default socket path, that use  *)
(* the same data directory.  The 1000, 500 and 30 lines and the 1000       *)
(* events are parameters.                                                  *)
(*                                                                         *)
(* The shell calls the bridge from its main thread only; the reader of     *)
(* stderr, the IPC callback, the daemons and `send` run beside it.         *)
(***************************************************************************)
EXTENDS Integers, Sequences, SequencesExt

CONSTANTS BufferCap, Trim,  \* stderr_lines: above BufferCap, the first Trim go
          TailLines,        \* how many lines the shell asks for
          QueueCap,         \* the events the IPC queue holds
          Kinds,            \* the signal files: "send_file" and those of the app alone
          MaxInputs         \* bound: lines, events and requests together

ASSUME TrimLeavesTheTail ==
    /\ {BufferCap, Trim, TailLines, QueueCap} \subseteq Nat \ {0}
    /\ TailLines <= BufferCap + 1 - Trim
ASSUME SendFileIsAKind == "send_file" \in Kinds /\ "none" \notin Kinds
ASSUME MaxInputsNat == MaxInputs \in Nat

(* What the shell looks for in a line of stderr. *)
Lines == {"registered", "cleared", "other"}

(* Who writes signal files: the main thread of the app, and `send`. *)
Writers == {"app", "send"}

VARIABLES
    (* BoltDaemon and the process behind it *)
    handle,          \* "none", "open", "stopping", "closed" (stop), "lost" (dropped)
    child,           \* "none", "alive", "dead" (a zombie), "reaped"
    buffer,          \* stderr_lines
    (* BoltIpc *)
    ipc,             \* "none", "open" or "closed"
    queue,           \* events
    (* DaemonManager *)
    running,         \* inside poll(): the answer of is_running
    wtActive,        \* wtSessionActive
    (* the data directory *)
    mail,            \* the request that is whole in each signal file, or 0
    writing, req,    \* the file a writer has truncated but not written, and its request
    unlinked,        \* the writers whose file was removed since they truncated it
    send,            \* where `send` is
    other,           \* a daemon answers at the default path: external
    (* history *)
    lines, session,  \* lines written so far, and what the last lifecycle line said
    unseen, missed,  \* lines since the last poll; one poll had more than it reads
    polled,          \* what `session` was when the shell last polled
    emitted, recent, \* IPC events so far, and those since the last drain
    requests,        \* requests made so far; they are numbered
    newest, fate,    \* the newest request of each kind, and what became of it
    raced            \* the kinds whose newest write overlapped another one or a removal

process == <<handle, child>>
stderr == <<buffer, running, wtActive, lines, session, unseen, missed, polled>>
events == <<ipc, queue, emitted, recent>>
files == <<mail, writing, req, unlinked>>
written == <<requests, newest, fate, raced>>
dataDir == <<files, written, send, other>>
vars == <<process, stderr, events, dataDir>>

WithinBound == lines + emitted + requests < MaxInputs

Init ==
    /\ handle = "none" /\ child = "none" /\ buffer = <<>>
    /\ ipc = "none" /\ queue = <<>>
    /\ running = "idle" /\ wtActive = FALSE
    /\ mail = [k \in Kinds |-> 0]
    /\ writing = [w \in Writers |-> "none"] /\ req = [w \in Writers |-> 0] /\ unlinked = {}
    /\ send = "idle" /\ other \in BOOLEAN
    /\ lines = 0 /\ session = FALSE /\ unseen = 0 /\ missed = FALSE /\ polled = FALSE
    /\ emitted = 0 /\ recent = <<>>
    /\ requests = 0 /\ newest = [k \in Kinds |-> 0]
    /\ fate = [k \in Kinds |-> "none"] /\ raced = {}

----------------------------------------------------------------------------
(* The process *)

(* The main thread is in no write. *)
MainIsFree == writing["app"] = "none"

(* bolt_daemon_start: spawn the binary that resolve_daemon_binary found,   *)
(* and the stderr reader; an error leaves everything as it is.             *)
DaemonStart ==
    /\ handle = "none"
    /\ handle' = "open" /\ child' = "alive"
    /\ UNCHANGED <<stderr, events, dataDir>>

(* The daemon exits by itself: external. *)
DaemonDies ==
    /\ child = "alive"
    /\ child' = "dead"
    /\ UNCHANGED <<handle, stderr, events, dataDir>>

(* bolt_daemon_stop, on the main thread and so outside a poll: kill(). *)
DaemonStopKills ==
    /\ handle = "open" /\ running = "idle" /\ MainIsFree
    /\ handle' = "stopping"
    /\ child' = IF child = "alive" THEN "dead" ELSE child
    /\ UNCHANGED <<stderr, events, dataDir>>

(* bolt_daemon_stop: wait(), then the socket is removed; the data          *)
(* directory and the files in it stay.                                     *)
DaemonStopWaits ==
    /\ handle = "stopping"
    /\ handle' = "closed" /\ child' = "reaped"
    /\ UNCHANGED <<stderr, events, dataDir>>

----------------------------------------------------------------------------
(* stderr *)

(* Mutant: the whole buffer is dropped at the limit. *)
TrimmedAway(b) == IF Len(b) > BufferCap THEN <<>> ELSE b

(* Mutant: the buffer grows for ever. *)
TrimmedNever(b) == b

(* The reader thread keeps the buffer near its cap. *)
Trimmed(b) == IF Len(b) > BufferCap THEN SubSeq(b, Trim + 1, Len(b)) ELSE b

(* The daemon writes a line and the reader thread pushes it. *)
DaemonLogs(line) ==
    /\ child = "alive"
    /\ WithinBound
    /\ lines' = lines + 1
    /\ buffer' = Trimmed(Append(buffer, line))
    /\ session' = IF line = "other" THEN session ELSE line = "registered"
    /\ unseen' = unseen + 1
    /\ UNCHANGED <<process, running, wtActive, missed, polled, events, dataDir>>

(* bolt_daemon_recent_stderr: the last lines of the buffer. *)
RecentStderr ==
    SubSeq(buffer, IF Len(buffer) > TailLines THEN Len(buffer) - TailLines + 1 ELSE 1, Len(buffer))

(* poll(): what the latest lifecycle line of the tail says; without one    *)
(* wtSessionActive stays as it is.                                         *)
LatestLifecycle ==
    LET tail == RecentStderr
        lifecycle == {i \in 1..Len(tail) : tail[i] # "other"}
    IN  IF lifecycle = {} THEN wtActive ELSE tail[Max(lifecycle)] = "registered"

(* poll(): bolt_daemon_is_running; try_wait reaps a child that exited. *)
PollRunning ==
    /\ handle = "open" /\ running = "idle" /\ MainIsFree
    /\ running' = IF child = "alive" THEN "yes" ELSE "no"
    /\ child' = IF child = "alive" THEN child ELSE "reaped"
    /\ UNCHANGED <<handle, buffer, wtActive, lines, session, unseen, missed, polled,
                   events, dataDir>>

(* Mutant: a daemon that died is only noticed while no session is active.  *)
PollStderrWaits ==
    /\ running # "idle"
    /\ running' = "idle"
    /\ wtActive' = LatestLifecycle
    /\ polled' = session
    /\ handle' = IF running = "no" /\ ~wtActive THEN "lost" ELSE handle
    /\ missed' = (missed \/ unseen > TailLines)
    /\ unseen' = 0
    /\ UNCHANGED <<child, buffer, lines, session, events, dataDir>>

(* poll(): bolt_daemon_recent_stderr and the clean-up after a daemon that  *)
(* died, which drops the handle without bolt_daemon_stop.                  *)
PollStderr ==
    LET dead == running = "no"
    IN  /\ running # "idle"
        /\ running' = "idle"
        /\ wtActive' = (~dead /\ LatestLifecycle)
        /\ polled' = (~dead /\ session)
        /\ handle' = IF dead THEN "lost" ELSE handle
        /\ missed' = (missed \/ unseen > TailLines)
        /\ unseen' = 0
        /\ UNCHANGED <<child, buffer, lines, session, events, dataDir>>

----------------------------------------------------------------------------
(* IPC events *)

(* bolt_ipc_start. *)
IpcStart ==
    /\ ipc = "none" /\ child = "alive" /\ MainIsFree
    /\ ipc' = "open"
    /\ UNCHANGED <<process, stderr, queue, emitted, recent, dataDir>>

(* Mutant: a full queue drops its oldest event. *)
IpcEventDropsOldest ==
    /\ ipc = "open"
    /\ WithinBound
    /\ emitted' = emitted + 1
    /\ recent' = Append(recent, emitted + 1)
    /\ queue' = IF Len(queue) < QueueCap THEN Append(queue, emitted + 1)
                ELSE Append(Tail(queue), emitted + 1)
    /\ UNCHANGED <<process, stderr, ipc, dataDir>>

(* The callback of bolt_ipc_start: a full queue refuses the event.  The    *)
(* bridge reports the loss of its daemon as an event too.                  *)
IpcEvent ==
    /\ ipc = "open"
    /\ WithinBound
    /\ emitted' = emitted + 1
    /\ recent' = Append(recent, emitted + 1)
    /\ queue' = IF Len(queue) < QueueCap THEN Append(queue, emitted + 1) ELSE queue
    /\ UNCHANGED <<process, stderr, ipc, dataDir>>

(* bolt_ipc_drain_events: joined and cleared under one lock. *)
IpcDrain ==
    /\ ipc = "open" /\ queue # <<>> /\ MainIsFree
    /\ queue' = <<>> /\ recent' = <<>>
    /\ UNCHANGED <<process, stderr, ipc, emitted, dataDir>>

(* bolt_ipc_stop: what is queued is freed with the handle. *)
IpcStop ==
    /\ ipc = "open" /\ MainIsFree
    /\ ipc' = "closed"
    /\ queue' = <<>> /\ recent' = <<>>
    /\ UNCHANGED <<process, stderr, emitted, dataDir>>

----------------------------------------------------------------------------
(* Requests *)

(* std::fs::write of a signal file is two steps.  First the file is        *)
(* created or truncated: whatever it held is gone, and two writers of one  *)
(* file are in it together.                                                *)
Truncate(w, k) ==
    /\ WithinBound
    /\ requests' = requests + 1
    /\ mail' = [mail EXCEPT ![k] = 0]
    /\ writing' = [writing EXCEPT ![w] = k]
    /\ req' = [req EXCEPT ![w] = requests + 1]
    /\ unlinked' = unlinked \ {w}
    /\ newest' = [newest EXCEPT ![k] = requests + 1]
    /\ fate' = [fate EXCEPT ![k] = "begun"]
    /\ raced' = IF \E v \in Writers \ {w} : writing[v] = k THEN raced \union {k} ELSE raced \ {k}

(* The write ends, and its caller is told how. *)
Reports(w, outcome) ==
    /\ writing' = [writing EXCEPT ![w] = "none"]
    /\ req' = [req EXCEPT ![w] = 0]
    /\ unlinked' = unlinked \ {w}
    /\ fate' = IF newest[writing[w]] = req[w] THEN [fate EXCEPT ![writing[w]] = outcome] ELSE fate
    /\ UNCHANGED <<requests, newest, raced>>

(* Then the bytes are written from the start of the file.  Over those of   *)
(* another writer the shorter leaves a mixture; into a file that was       *)
(* removed they are written for nobody.                                    *)
Fill(w) ==
    LET k == writing[w]
    IN  /\ k # "none"
        /\ \/ w \in unlinked /\ UNCHANGED mail
           \/ w \notin unlinked /\ mail' = [mail EXCEPT ![k] = req[w]]
           \/ w \notin unlinked /\ mail[k] # 0 /\ mail' = [mail EXCEPT ![k] = 0]
        /\ Reports(w, "written")

(* Mutant: the error of the write is not looked at. *)
FillFailsUnnoticed(w) ==
    /\ writing[w] # "none"
    /\ mail' \in {mail, [mail EXCEPT ![writing[w]] = 0]}
    /\ Reports(w, "written")

(* The write fails, with or without part of the bytes in the file. *)
FillFails(w) ==
    /\ writing[w] # "none"
    /\ mail' \in {mail, [mail EXCEPT ![writing[w]] = 0]}
    /\ Reports(w, "failed")

(* The bridge functions (bolt_daemon_send_file, _disconnect_session,       *)
(* _connect_remote and its v2, _allow_quic_peer_cert_hash, _pause_transfer *)
(* and _resume_transfer), one kind each, all write alike.  They need a     *)
(* handle and valid arguments, and nothing of the daemon: a file is        *)
(* written for a daemon that has died as well.                             *)
BridgeWrites(k) ==
    /\ handle = "open" /\ running = "idle" /\ MainIsFree
    /\ Truncate("app", k)
    /\ UNCHANGED <<process, stderr, events, send, other>>

(* The bridge function returns 1, or 0 when the write failed. *)
BridgeReturns ==
    /\ Fill("app") \/ FillFails("app")
    /\ UNCHANGED <<process, stderr, events, send, other>>

(* A daemon removes a signal file: external.  How many daemons read it     *)
(* before, and whether one dies in between, is not known here; a file that *)
(* is still being written may be removed too.                              *)
DaemonRemoves(k) ==
    LET open == {w \in Writers : writing[w] = k}
    IN  /\ child = "alive" \/ other
        /\ mail[k] # 0 \/ open # {}
        /\ mail' = [mail EXCEPT ![k] = 0]
        /\ unlinked' = unlinked \union open
        /\ raced' = IF open # {} THEN raced \union {k} ELSE raced
        /\ fate' = IF mail[k] # 0 /\ mail[k] = newest[k] THEN [fate EXCEPT ![k] = "taken"]
                   ELSE fate
        /\ UNCHANGED <<process, stderr, events, writing, req, requests, newest, send, other>>

(* The other daemon goes away: external. *)
OtherExits ==
    /\ other
    /\ other' = FALSE
    /\ UNCHANGED <<process, stderr, events, files, written, send>>

(* cmd_send: exit(1) without a file to send; over IPC when a daemon        *)
(* answers at the default path.                                            *)
SendProbes ==
    /\ send = "idle"
    /\ send' \in {"failed", IF other THEN "ipc" ELSE "file"}
    /\ UNCHANGED <<process, stderr, events, files, written, other>>

(* cmd_send: connect, handshake and file.send are written to the daemon. *)
SendOverIpc ==
    /\ send = "ipc" /\ other
    /\ send' = "done"
    /\ UNCHANGED <<process, stderr, events, files, written, other>>

(* cmd_send: the daemon went away since the probe or closes the            *)
(* connection; exit(1) when connecting or greeting fails, the signal file  *)
(* when writing file.send fails.                                           *)
SendIpcFails(then) ==
    /\ send = "ipc"
    /\ send' = then
    /\ UNCHANGED <<process, stderr, events, files, written, other>>

(* cmd_send: the signal file, whether or not a daemon runs; exit(1) when   *)
(* it cannot be created.                                                   *)
SendOpensFile ==
    /\ send = "file"
    /\ \/ Truncate("send", "send_file") /\ send' = "writing"
       \/ send' = "failed" /\ UNCHANGED <<files, written>>
    /\ UNCHANGED <<process, stderr, events, other>>

(* cmd_send: the outcome of the write. *)
SendWritesFile ==
    /\ send = "writing"
    /\ \/ Fill("send") /\ send' = "done"
       \/ FillFails("send") /\ send' = "failed"
    /\ UNCHANGED <<process, stderr, events, other>>

----------------------------------------------------------------------------
Poll == PollRunning \/ PollStderr

SendCommand ==
    \/ SendProbes \/ SendOverIpc \/ SendOpensFile \/ SendWritesFile
    \/ \E then \in {"failed", "file"} : SendIpcFails(then)

Next ==
    \/ DaemonStart \/ DaemonDies \/ DaemonStopKills \/ DaemonStopWaits
    \/ \E line \in Lines : DaemonLogs(line)
    \/ Poll
    \/ IpcStart \/ IpcEvent \/ IpcDrain \/ IpcStop
    \/ \E k \in Kinds : BridgeWrites(k) \/ DaemonRemoves(k)
    \/ BridgeReturns
    \/ OtherExits \/ SendCommand

Spec == Init /\ [][Next]_vars

(* The shell's timer keeps polling and a write to the data directory       *)
(* returns.  Nothing is assumed of the daemons, of `send` or of the user.  *)
FairSpec == Spec /\ WF_vars(Poll) /\ WF_vars(BridgeReturns)

----------------------------------------------------------------------------
(* Type invariant of the bridge's handles, buffers and files. *)
TypeOK ==
    /\ handle \in {"none", "open", "stopping", "closed", "lost"}
    /\ child \in {"none", "alive", "dead", "reaped"}
    /\ buffer \in Seq(Lines) /\ Len(buffer) <= BufferCap
    /\ ipc \in {"none", "open", "closed"}
    /\ queue \in Seq(1..MaxInputs) /\ Len(queue) <= QueueCap
    /\ running \in {"idle", "yes", "no"}
    /\ {wtActive, other, session, missed, polled} \subseteq BOOLEAN
    /\ mail \in [Kinds -> 0..MaxInputs] /\ newest \in [Kinds -> 0..MaxInputs]
    /\ writing \in [Writers -> Kinds \union {"none"}] /\ req \in [Writers -> 0..MaxInputs]
    /\ unlinked \subseteq Writers /\ raced \subseteq Kinds
    /\ fate \in [Kinds -> {"none", "begun", "written", "failed", "taken"}]
    /\ send \in {"idle", "ipc", "file", "writing", "done", "failed"}
    /\ lines \in 0..MaxInputs /\ unseen \in 0..MaxInputs
    /\ emitted \in 0..MaxInputs /\ recent \in Seq(1..MaxInputs)
    /\ requests \in 0..MaxInputs

(* "True when daemon has an active WT session" (wtSessionActive): as long  *)
(* as no poll interval brought more lines than the shell reads, the flag   *)
(* says after every poll what the daemon's last lifecycle line said,       *)
(* although the buffer is trimmed under the reader, and FALSE after a poll *)
(* that found the daemon gone.                                             *)
WtFlagExact == ~missed => wtActive = polled

(* The IPC queue loses only the newest: the shell's next batch is an       *)
(* unbroken prefix of the events since the last one, so a lost event is    *)
(* one that came after QueueCap unread ones (the cap in the callback of    *)
(* bolt_ipc_start).                                                        *)
QueueKeepsOldest ==
    queue = SubSeq(recent, 1, IF Len(recent) < QueueCap THEN Len(recent) ELSE QueueCap)

(* A signal file is a mailbox of one: the newest request of its kind, once *)
(* its caller was told that it is written, stays whole in the file until a *)
(* daemon takes the file.  So a request that was reported as made is lost  *)
(* only to a newer one, or if its write, which is not atomic, overlapped   *)
(* another write of the file or a removal of it.                           *)
NewestRequestKept ==
    \A k \in Kinds \ raced : fate[k] = "written" => mail[k] = newest[k]

(* A daemon that dies under an open handle is noticed: the child is        *)
(* reaped, the handle given up and no session shown (the clean-up at the   *)
(* end of DaemonManager.poll), unless the app stops it first.              *)
DeathNoticed ==
    (handle = "open" /\ child = "dead")
        ~> (child = "reaped" /\ handle = "lost" /\ ~wtActive) \/ handle \in {"stopping", "closed"}

=============================================================================
