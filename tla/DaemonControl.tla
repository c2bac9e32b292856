--------------------------- MODULE DaemonControl ----------------------------
(***************************************************************************)
(* The start, watch and stop commands of the Linux command line            *)
(* (native/linux/cli/src/main.rs) and the daemons they spawn, watch and    *)
(* kill.                                                                   *)
(*                                                                         *)
(* The daemon is external.  Every `start` spawns at most one, so a daemon  *)
(* is named after its parent; all use one socket path.  A process that     *)
(* exits stays a zombie ("dead") until its parent waits for it ("reaped"). *)
(* A timeout may strike at any round of the loop that counts it.  The      *)
(* messages of a daemon to a watcher are its requests, numbered, and the   *)
(* notices the watcher only prints (0).                                    *)
(***************************************************************************)
EXTENDS Integers, Sequences, FiniteSets, SequencesExt

CONSTANTS Starts,          \* invocations of `localbolt-cli start`
          Watchers,        \* those with --watch
          None,
          MaxMessages      \* bound: messages of the daemons to the watchers

ASSUME WatchersStart == Watchers \subseteq Starts /\ None \notin Starts
ASSUME MaxMessagesNat == MaxMessages \in Nat

VARIABLES
    proc,            \* each daemon process
    killed,          \* daemons that were sent SIGKILL
    answers,         \* the daemon that answers at the socket path
    pidFile,         \* the daemon whose pid is in the default pid file
    start,           \* where each `start` is
    ctrlC,           \* its shutdown flag
    peer,            \* the daemon its event loop is connected to
    inbox,           \* the lines of the daemon it has not read
    asking,          \* the request its prompt is about
    stop, target,    \* where the `stop` command is, and the pid it read
    messages,        \* messages sent so far
    decided          \* history: the decisions each watcher wrote, in order

processes == <<proc, killed, answers, pidFile>>
watching == <<ctrlC, peer, inbox, asking, messages, decided>>
vars == <<processes, start, watching, stop, target>>

Alive(d) == proc[d] \in {"booting", "serving", "hung"}

(* IpcStream::probe(socket_path), external: somebody answers there. *)
Probe == answers # None

Init ==
    /\ proc = [d \in Starts |-> "none"]
    /\ killed = {} /\ answers = None /\ pidFile = None
    /\ start = [s \in Starts |-> "idle"]
    /\ ctrlC = [s \in Starts |-> FALSE]
    /\ peer = [s \in Starts |-> None]
    /\ inbox = [s \in Starts |-> <<>>]
    /\ asking = [s \in Starts |-> 0]
    /\ stop = "idle" /\ target = None
    /\ messages = 0
    /\ decided = [s \in Starts |-> <<>>]

----------------------------------------------------------------------------
(* The daemons: external. *)

(* A daemon comes up on the socket path, taking it over from a daemon that *)
(* still answers there.                                                    *)
DaemonServes(d) ==
    /\ proc[d] = "booting"
    /\ proc' = [proc EXCEPT ![d] = "serving"]
    /\ answers' = d
    /\ UNCHANGED <<killed, pidFile, start, watching, stop, target>>

(* The pid file names the daemon that serves the path. *)
DaemonWritesPid(d) ==
    /\ answers = d /\ pidFile # d
    /\ pidFile' = d
    /\ UNCHANGED <<proc, killed, answers, start, watching, stop, target>>

(* A daemon stops answering, and stops reacting to SIGTERM. *)
DaemonHangs(d) ==
    /\ proc[d] = "serving"
    /\ proc' = [proc EXCEPT ![d] = "hung"]
    /\ answers' = IF answers = d THEN None ELSE answers
    /\ UNCHANGED <<killed, pidFile, start, watching, stop, target>>

(* A daemon exits: on its own, on SIGTERM, or because it was killed. *)
DaemonDies(d) ==
    /\ Alive(d)
    /\ proc' = [proc EXCEPT ![d] = "dead"]
    /\ answers' = IF answers = d THEN None ELSE answers
    /\ UNCHANGED <<killed, pidFile, start, watching, stop, target>>

(* A daemon writes a line to a watcher: a numbered request or a notice. *)
DaemonTells(d, s, line) ==
    /\ proc[d] = "serving"
    /\ peer[s] = d
    /\ messages < MaxMessages
    /\ line \in {0, messages + 1}
    /\ messages' = messages + 1
    /\ inbox' = [inbox EXCEPT ![s] = Append(@, line)]
    /\ UNCHANGED <<processes, start, ctrlC, peer, asking, decided, stop, target>>

----------------------------------------------------------------------------
(* localbolt-cli start *)

(* cmd_start: a daemon that answers is left alone, and watched with        *)
(* --watch (do_watch).                                                     *)
StartProbes(s) ==
    /\ start[s] = "idle"
    /\ start' = [start EXCEPT ![s] =
                    IF ~Probe THEN "spawning" ELSE IF s \in Watchers THEN "attaching" ELSE "done"]
    /\ UNCHANGED <<processes, watching, stop, target>>

(* cmd_start: exit(1) when the data directory cannot be made or the binary *)
(* that resolve_daemon_path settled on cannot be spawned.                  *)
StartFails(s) ==
    /\ start[s] = "spawning"
    /\ start' = [start EXCEPT ![s] = "done"]
    /\ UNCHANGED <<processes, watching, stop, target>>

(* cmd_start: Command::spawn. *)
StartSpawns(s) ==
    /\ start[s] = "spawning"
    /\ proc' = [proc EXCEPT ![s] = "booting"]
    /\ start' = [start EXCEPT ![s] = "spawned"]
    /\ UNCHANGED <<killed, answers, pidFile, watching, stop, target>>

(* cmd_start, do_watch: ctrlc::set_handler, after the spawn. *)
InstallHandler(s) ==
    /\ start[s] \in {"spawned", "attaching"}
    /\ start' = [start EXCEPT ![s] = IF @ = "spawned" THEN "waiting" ELSE "joining"]
    /\ UNCHANGED <<processes, watching, stop, target>>

(* The Ctrl+C handler stores the flag; nobody reads it once the child is   *)
(* being terminated.                                                       *)
CtrlC(s) ==
    /\ start[s] \in {"waiting", "joining", "watching", "prompting"}
    /\ ~ctrlC[s]
    /\ ctrlC' = [ctrlC EXCEPT ![s] = TRUE]
    /\ UNCHANGED <<processes, start, peer, inbox, asking, messages, decided, stop, target>>

(* The command dies where it is: its stream is closed, and a child it has  *)
(* spawned lives on, since dropping a Child kills and waits for nothing.   *)
Aborts(s) ==
    /\ start' = [start EXCEPT ![s] = "aborted"]
    /\ peer' = [peer EXCEPT ![s] = None]
    /\ inbox' = [inbox EXCEPT ![s] = <<>>]
    /\ asking' = [asking EXCEPT ![s] = 0]
    /\ UNCHANGED <<processes, ctrlC, messages, decided, stop, target>>

(* Ctrl+C before there is a handler: the default action of SIGINT. *)
Interrupted(s) ==
    /\ start[s] \in {"spawning", "spawned", "attaching"}
    /\ Aborts(s)

(* println! and eprintln! panic when the terminal or pipe behind them is   *)
(* gone, and so does slicing the peer id of session.connected inside a     *)
(* character (handle_event).  terminate_child prints nothing.              *)
Panics(s) ==
    /\ start[s] \in {"spawning", "spawned", "waiting", "attaching", "joining", "watching",
                      "prompting"}
    /\ Aborts(s)

(* Mutant: the timeout exits and leaves the child alone. *)
StartGivesUpOrphans(s) ==
    /\ start[s] = "waiting"
    /\ start' = [start EXCEPT ![s] = IF ctrlC[s] THEN "terminating" ELSE "done"]
    /\ UNCHANGED <<processes, watching, stop, target>>

(* The readiness loop: on Ctrl+C or after ten seconds the child is         *)
(* terminated.                                                             *)
StartGivesUp(s) ==
    /\ start[s] = "waiting"
    /\ start' = [start EXCEPT ![s] = "terminating"]
    /\ UNCHANGED <<processes, watching, stop, target>>

(* The readiness loop: the path answers, whoever answers there, and        *)
(* whether or not Ctrl+C came since the round began.  Without --watch the  *)
(* child is detached (mem::forget).                                        *)
StartReady(s) ==
    /\ start[s] = "waiting"
    /\ Probe
    /\ start' = [start EXCEPT ![s] = IF s \in Watchers THEN "joining" ELSE "detached"]
    /\ UNCHANGED <<processes, watching, stop, target>>

----------------------------------------------------------------------------
(* The event loop of --watch (event_loop, handle_event) *)

(* After the event loop the parent of a daemon terminates it; a watcher of *)
(* somebody else's daemon just ends.                                       *)
AfterWatch(s) == IF proc[s] = "none" THEN "done" ELSE "terminating"

(* event_loop: IpcStream::connect, which may find nobody by now. *)
WatchConnects(s) ==
    /\ start[s] = "joining"
    /\ IF Probe
         THEN /\ start' = [start EXCEPT ![s] = "watching"]
              /\ peer' = [peer EXCEPT ![s] = answers]
         ELSE /\ start' = [start EXCEPT ![s] = AfterWatch(s)]
              /\ UNCHANGED peer
    /\ UNCHANGED <<processes, ctrlC, inbox, asking, messages, decided, stop, target>>

(* event_loop: the shutdown flag, looked at after every line and every     *)
(* read timeout, or the end of the daemon's stream; the stream is closed.  *)
WatchEnds(s) ==
    /\ start[s] = "watching"
    /\ ctrlC[s] \/ (~Alive(peer[s]) /\ inbox[s] = <<>>)
    /\ start' = [start EXCEPT ![s] = AfterWatch(s)]
    /\ peer' = [peer EXCEPT ![s] = None]
    /\ inbox' = [inbox EXCEPT ![s] = <<>>]
    /\ UNCHANGED <<processes, ctrlC, asking, messages, decided, stop, target>>

(* event_loop: connect, the clone of the stream, the handshake or a read   *)
(* fails, or a daemon that lives on closes the stream.                     *)
WatchFails(s) ==
    /\ start[s] \in {"joining", "watching"}
    /\ start' = [start EXCEPT ![s] = AfterWatch(s)]
    /\ peer' = [peer EXCEPT ![s] = None]
    /\ inbox' = [inbox EXCEPT ![s] = <<>>]
    /\ UNCHANGED <<processes, ctrlC, asking, messages, decided, stop, target>>

(* handle_event: a notice is printed, a request prompts. *)
HandleEvent(s) ==
    /\ start[s] = "watching"
    /\ ~ctrlC[s]
    /\ inbox[s] # <<>>
    /\ inbox' = [inbox EXCEPT ![s] = Tail(@)]
    /\ IF Head(inbox[s]) = 0
         THEN UNCHANGED <<start, asking>>
         ELSE /\ start' = [start EXCEPT ![s] = "prompting"]
              /\ asking' = [asking EXCEPT ![s] = Head(inbox[s])]
    /\ UNCHANGED <<processes, ctrlC, peer, messages, decided, stop, target>>

(* event_loop: a read times out inside a line.  The part that was read is  *)
(* dropped by lines(), and what follows is not a message.                  *)
LineTorn(s) ==
    /\ start[s] = "watching"
    /\ ~ctrlC[s]
    /\ inbox[s] # <<>>
    /\ inbox' = [inbox EXCEPT ![s] = Tail(@)]
    /\ UNCHANGED <<processes, start, ctrlC, peer, asking, messages, decided, stop, target>>

(* Mutant: the prompt comes back after an answer. *)
AnswerAgain(s) ==
    /\ start[s] = "prompting"
    /\ decided' = [decided EXCEPT ![s] = Append(@, asking[s])]
    /\ Len(decided[s]) < MaxMessages
    /\ UNCHANGED <<processes, start, ctrlC, peer, inbox, asking, messages, stop, target>>

(* handle_event: a line of input decides (parse_pairing_choice maps what   *)
(* it does not know to DenyOnce), and write_message sends it; a daemon     *)
(* that has gone never gets it.                                            *)
Answer(s) ==
    /\ start[s] = "prompting"
    /\ decided' = [decided EXCEPT ![s] = IF Alive(peer[s]) THEN Append(@, asking[s]) ELSE @]
    /\ start' = [start EXCEPT ![s] = "watching"]
    /\ asking' = [asking EXCEPT ![s] = 0]
    /\ UNCHANGED <<processes, ctrlC, peer, inbox, messages, stop, target>>

----------------------------------------------------------------------------
(* terminate_child *)

(* SIGTERM, then try_wait every 250 ms: what SIGTERM does is up to the     *)
(* daemon (DaemonDies), and a child that has exited is reaped; wait()      *)
(* after SIGKILL does the same.                                            *)
ChildExited(s) ==
    /\ start[s] \in {"terminating", "killing"}
    /\ proc[s] = "dead"
    /\ proc' = [proc EXCEPT ![s] = "reaped"]
    /\ start' = [start EXCEPT ![s] = "done"]
    /\ UNCHANGED <<killed, answers, pidFile, watching, stop, target>>

(* Mutant: wait() right after the three seconds, without the SIGKILL. *)
WaitWithoutKill(s) ==
    /\ start[s] = "terminating"
    /\ start' = [start EXCEPT ![s] = "killing"]
    /\ UNCHANGED <<processes, watching, stop, target>>

(* SIGKILL when the three seconds are over, then wait(). *)
ForceKill(s) ==
    /\ start[s] = "terminating"
    /\ killed' = killed \union {s}
    /\ start' = [start EXCEPT ![s] = "killing"]
    /\ UNCHANGED <<proc, answers, pidFile, watching, stop, target>>

----------------------------------------------------------------------------
(* localbolt-cli stop *)

(* cmd_stop: nothing to do when nobody answers. *)
StopProbes ==
    /\ stop = "idle"
    /\ stop' = IF Probe THEN "reading" ELSE "done"
    /\ UNCHANGED <<processes, start, watching, target>>

(* Mutant: the loop is entered without a pid. *)
StopTerminatesAny ==
    /\ stop = "reading"
    /\ stop' = "polling" /\ target' = pidFile
    /\ UNCHANGED <<processes, start, watching>>

(* cmd_stop: SIGTERM to the pid of the default pid file if it is alive, an *)
(* error otherwise.                                                        *)
StopTerminates ==
    /\ stop = "reading"
    /\ IF pidFile # None /\ Alive(pidFile)
         THEN stop' = "polling" /\ target' = pidFile
         ELSE stop' = "done" /\ UNCHANGED target
    /\ UNCHANGED <<processes, start, watching>>

(* cmd_stop: the socket went away within the 20 rounds. *)
StopSeesSocketGone ==
    /\ stop = "polling"
    /\ ~Probe
    /\ stop' = "done"
    /\ pidFile' = None /\ target' = None
    /\ UNCHANGED <<proc, killed, answers, start, watching>>

(* cmd_stop: it did not; SIGKILL. *)
StopKills ==
    /\ stop = "polling"
    /\ stop' = "done"
    /\ killed' = killed \union {target}
    /\ pidFile' = None /\ target' = None
    /\ UNCHANGED <<proc, answers, start, watching>>

----------------------------------------------------------------------------
StartStep(s) ==
    \/ StartProbes(s) \/ StartFails(s) \/ StartSpawns(s) \/ InstallHandler(s)
    \/ StartGivesUp(s) \/ StartReady(s)
    \/ WatchConnects(s) \/ WatchEnds(s) \/ HandleEvent(s)
    \/ ChildExited(s) \/ ForceKill(s)

StopStep == StopProbes \/ StopTerminates \/ StopSeesSocketGone \/ StopKills

(* What befalls a command: the user, the terminal and the daemon's stream. *)
Mishap(s) == LineTorn(s) \/ WatchFails(s) \/ CtrlC(s) \/ Interrupted(s) \/ Panics(s)

DaemonStep(d) ==
    \/ DaemonServes(d) \/ DaemonWritesPid(d) \/ DaemonHangs(d) \/ DaemonDies(d)
    \/ \E s \in Watchers, line \in 0..MaxMessages : DaemonTells(d, s, line)

Next ==
    \/ \E s \in Starts : StartStep(s) \/ Mishap(s) \/ Answer(s)
    \/ StopStep
    \/ \E d \in Starts : DaemonStep(d)

Spec == Init /\ [][Next]_vars

(* The commands run on, and a process that was sent SIGKILL dies.  Nothing *)
(* else is assumed: a daemon may never serve or react to SIGTERM, and the  *)
(* user may leave a prompt open.                                           *)
Fairness ==
    /\ \A s \in Starts : WF_vars(StartStep(s))
    /\ WF_vars(StopStep)
    /\ \A d \in Starts : WF_vars(d \in killed /\ DaemonDies(d))

FairSpec == Spec /\ Fairness

----------------------------------------------------------------------------
(* Type invariant of the commands and their daemons. *)
TypeOK ==
    /\ proc \in [Starts -> {"none", "booting", "serving", "hung", "dead", "reaped"}]
    /\ killed \subseteq Starts
    /\ {answers, pidFile, target} \subseteq Starts \union {None}
    /\ start \in [Starts -> {"idle", "spawning", "spawned", "waiting", "attaching", "joining",
                             "watching", "prompting", "terminating", "killing", "detached",
                             "done", "aborted"}]
    /\ ctrlC \in [Starts -> BOOLEAN]
    /\ peer \in [Starts -> Starts \union {None}]
    /\ inbox \in [Starts -> Seq(0..MaxMessages)]
    /\ asking \in [Starts -> 0..MaxMessages]
    /\ stop \in {"idle", "reading", "polling", "done"}
    /\ messages \in 0..MaxMessages
    /\ decided \in [Starts -> Seq(1..MaxMessages)]

(* A `start` that runs to its end leaves a daemon behind only when it said *)
(* so, without --watch and after it saw the path answer: the timeout, the  *)
(* flag of Ctrl+C, and every end of the event loop (the flag, a daemon that*)
(* died or closed the stream, a connect, handshake or read that failed)    *)
(* leave a child that has exited and been reaped, whoever else sends it    *)
(* signals meanwhile.  Not so a command that is cut short ("aborted"): a   *)
(* SIGINT between the spawn and set_handler, and a panic, orphan the child.*)
NoOrphans ==
    \A s \in Starts : /\ start[s] = "done" => proc[s] \in {"none", "reaped"}
                      /\ start[s] = "detached" => s \notin Watchers

(* A watcher answers each request at most once and in the order they came, *)
(* although prompts block the loop while requests queue up behind them and *)
(* lines may be torn (handle_event).                                       *)
AnsweredOnceInOrder ==
    \A s \in Starts :
        /\ \A i, j \in 1..Len(decided[s]) : i < j => decided[s][i] < decided[s][j]
        /\ \A i \in 1..Len(decided[s]) : asking[s] # decided[s][i]

(* Every command comes to an end however the daemon behaves: `start`       *)
(* without --watch by itself, `start --watch` once Ctrl+C is pressed and   *)
(* no prompt waits for the user, and `stop` always.                        *)
CommandsEnd ==
    /\ \A s \in Starts :
         (start[s] \notin {"idle", "prompting"} /\ (ctrlC[s] \/ s \notin Watchers))
            ~> start[s] \in {"done", "detached", "aborted"}
    /\ stop # "idle" ~> stop = "done"

=============================================================================
