------------------------ MODULE DaemonControlProofs -------------------------
(***************************************************************************)
(* Proofs about DaemonControl, for any number of start commands and of     *)
(* messages.                                                               *)
(***************************************************************************)
EXTENDS DaemonControl, SequenceTheorems, TLAPS

Processes == {"none", "booting", "serving", "hung", "dead", "reaped"}
Positions == {"idle", "spawning", "spawned", "waiting", "attaching", "joining", "watching",
              "prompting", "terminating", "killing", "detached", "done", "aborted"}

(* TypeOK, by owner: the daemons and `stop`; the position of each `start`; *)
(* what a watcher has read.                                                *)
ProcType ==
    /\ proc \in [Starts -> Processes]
    /\ killed \subseteq Starts
    /\ answers \in Starts \union {None} /\ pidFile \in Starts \union {None}
    /\ target \in Starts \union {None}
    /\ stop \in {"idle", "reading", "polling", "done"}
StartType ==
    /\ start \in [Starts -> Positions]
    /\ ctrlC \in [Starts -> BOOLEAN]
    /\ peer \in [Starts -> Starts \union {None}]
ReadType ==
    /\ inbox \in [Starts -> Seq(0..MaxMessages)]
    /\ asking \in [Starts -> 0..MaxMessages]
    /\ messages \in 0..MaxMessages
    /\ decided \in [Starts -> Seq(1..MaxMessages)]

(* The parts make up TypeOK. *)
LEMMA TypeParts == TypeOK <=> ProcType /\ StartType /\ ReadType
  BY DEF TypeOK, ProcType, StartType, ReadType, Processes, Positions

(* `stop` polls for the process it read; a prompt is about a request. *)
HasTarget == stop = "polling" => target # None
HasRequest == \A s \in Starts : start[s] = "prompting" => asking[s] # 0

----------------------------------------------------------------------------
(* Type correctness *)

(* Every step keeps the types of the processes, and `stop` its target. *)
LEMMA ProcStep ==
  ASSUME ProcType, HasTarget, StartType, [Next]_vars
  PROVE  ProcType' /\ HasTarget'
<1> USE DEF ProcType, HasTarget, Processes, processes
<1>1. ASSUME NEW s \in Starts, StartStep(s) \/ Mishap(s) \/ Answer(s)
      PROVE  ProcType' /\ HasTarget'
  <2>1. CASE StartSpawns(s)
    BY <2>1 DEF StartSpawns
  <2>2. CASE ChildExited(s) \/ ForceKill(s)
    BY <2>2 DEF ChildExited, ForceKill
  <2>3. CASE StartProbes(s) \/ StartFails(s) \/ InstallHandler(s) \/ StartGivesUp(s) \/ StartReady(s)
    BY <2>3 DEF StartProbes, StartFails, InstallHandler, StartGivesUp, StartReady
  <2>4. CASE WatchConnects(s) \/ WatchEnds(s) \/ HandleEvent(s) \/ Answer(s)
    BY <2>4 DEF WatchConnects, WatchEnds, HandleEvent, Answer
  <2>5. CASE Mishap(s)
    BY <2>5 DEF Mishap, LineTorn, WatchFails, CtrlC, Interrupted, Panics, Aborts
  <2>6. QED
    BY <1>1, <2>1, <2>2, <2>3, <2>4, <2>5 DEF StartStep
<1>2. CASE StopStep
  BY <1>2 DEF StopStep, StopProbes, StopTerminates, StopSeesSocketGone, StopKills
<1>3. ASSUME NEW d \in Starts, DaemonStep(d) PROVE ProcType' /\ HasTarget'
  <2>1. CASE DaemonServes(d) \/ DaemonWritesPid(d)
    BY <2>1 DEF DaemonServes, DaemonWritesPid
  <2>2. CASE DaemonHangs(d) \/ DaemonDies(d)
    BY <2>2 DEF DaemonHangs, DaemonDies
  <2>3. CASE \E s \in Watchers, line \in 0..MaxMessages : DaemonTells(d, s, line)
    BY <2>3 DEF DaemonTells
  <2>4. QED
    BY <1>3, <2>1, <2>2, <2>3 DEF DaemonStep
<1>4. CASE UNCHANGED vars
  BY <1>4 DEF vars
<1>5. QED
  BY <1>1, <1>2, <1>3, <1>4 DEF Next

(* Every step keeps the types of what the start commands know. *)
LEMMA StartTypeStep ==
  ASSUME ProcType, StartType, [Next]_vars
  PROVE  StartType'
<1> USE DEF StartType, Positions, watching
<1>1. ASSUME NEW s \in Starts, StartStep(s) \/ Mishap(s) \/ Answer(s)
      PROVE  StartType'
  <2>1. CASE StartSpawns(s) \/ StartProbes(s) \/ StartFails(s) \/ InstallHandler(s)
    BY <2>1 DEF StartSpawns, StartProbes, StartFails, InstallHandler
  <2>2. CASE StartGivesUp(s) \/ StartReady(s) \/ ChildExited(s) \/ ForceKill(s) \/ CtrlC(s)
    BY <2>2 DEF StartGivesUp, StartReady, ChildExited, ForceKill, CtrlC
  <2>3. CASE WatchConnects(s) \/ WatchEnds(s) \/ WatchFails(s)
    BY <2>3 DEF WatchConnects, WatchEnds, WatchFails, AfterWatch, ProcType
  <2>4. CASE HandleEvent(s) \/ LineTorn(s) \/ Answer(s)
    BY <2>4 DEF HandleEvent, LineTorn, Answer
  <2>5. CASE Interrupted(s) \/ Panics(s)
    BY <2>5 DEF Interrupted, Panics, Aborts
  <2>6. QED
    BY <1>1, <2>1, <2>2, <2>3, <2>4, <2>5 DEF StartStep, Mishap
<1>2. CASE StopStep
  BY <1>2 DEF StopStep, StopProbes, StopTerminates, StopSeesSocketGone, StopKills
<1>3. CASE \E d \in Starts : DaemonStep(d)
  BY <1>3 DEF DaemonStep, DaemonServes, DaemonWritesPid, DaemonHangs, DaemonDies, DaemonTells
<1>4. CASE UNCHANGED vars
  BY <1>4 DEF vars
<1>5. QED
  BY <1>1, <1>2, <1>3, <1>4 DEF Next

(* The steps that leave a watcher's lines and prompts alone. *)
Unread == UNCHANGED <<inbox, asking, messages, decided>>

(* Every step keeps the types of what a watcher has read, and a prompt its *)
(* request.                                                                *)
LEMMA ReadStep ==
  ASSUME StartType, ReadType, HasRequest, [Next]_vars
  PROVE  ReadType' /\ HasRequest'
<1> USE DEF StartType, ReadType, HasRequest, Unread
<1>0. ASSUME Unread, \A s \in Starts : start'[s] = "prompting" => start[s] = "prompting"
      PROVE  ReadType' /\ HasRequest'
  BY <1>0
<1>1. ASSUME NEW s \in Starts, StartStep(s) \/ Mishap(s) \/ Answer(s)
      PROVE  ReadType' /\ HasRequest'
  <2>1. CASE StartSpawns(s) \/ StartProbes(s) \/ StartFails(s) \/ InstallHandler(s)
    BY <1>0, <2>1 DEF StartSpawns, StartProbes, StartFails, InstallHandler, watching
  <2>2. CASE StartGivesUp(s) \/ StartReady(s) \/ ChildExited(s) \/ ForceKill(s) \/ CtrlC(s)
    BY <1>0, <2>2 DEF StartGivesUp, StartReady, ChildExited, ForceKill, CtrlC, watching
  <2>3. CASE WatchConnects(s)
    BY <1>0, <2>3 DEF WatchConnects, AfterWatch
  <2>4. CASE WatchEnds(s) \/ WatchFails(s)
    <3>1. /\ start' = [start EXCEPT ![s] = AfterWatch(s)]
          /\ inbox' = [inbox EXCEPT ![s] = <<>>]
          /\ UNCHANGED <<asking, messages, decided>>
      BY <2>4, Zenon DEF WatchEnds, WatchFails
    <3>2. QED
      BY <3>1 DEF AfterWatch
  <2>5. CASE HandleEvent(s) \/ LineTorn(s)
    <3>1. Head(inbox[s]) \in 0..MaxMessages /\ Tail(inbox[s]) \in Seq(0..MaxMessages)
      BY <2>5, HeadTailProperties DEF HandleEvent, LineTorn
    <3>2. QED
      BY <2>5, <3>1 DEF HandleEvent, LineTorn
  <2>6. CASE Answer(s)
    <3>1. asking[s] \in 1..MaxMessages
      BY <2>6, MaxMessagesNat DEF Answer
    <3>2. decided' \in [Starts -> Seq(1..MaxMessages)]
      BY <2>6, <3>1, AppendProperties DEF Answer
    <3>3. QED
      BY <2>6, <3>2, MaxMessagesNat DEF Answer
  <2>7. CASE Interrupted(s) \/ Panics(s)
    <3>1. Aborts(s)
      BY <2>7, Zenon DEF Interrupted, Panics
    <3>2. QED
      BY <3>1, MaxMessagesNat DEF Aborts
  <2>8. QED
    BY <1>1, <2>1, <2>2, <2>3, <2>4, <2>5, <2>6, <2>7 DEF StartStep, Mishap
<1>2. CASE StopStep
  BY <1>0, <1>2 DEF StopStep, StopProbes, StopTerminates, StopSeesSocketGone, StopKills, watching
<1>3. ASSUME NEW d \in Starts, DaemonStep(d) PROVE ReadType' /\ HasRequest'
  <2>1. CASE DaemonServes(d) \/ DaemonWritesPid(d) \/ DaemonHangs(d) \/ DaemonDies(d)
    BY <1>0, <2>1 DEF DaemonServes, DaemonWritesPid, DaemonHangs, DaemonDies, watching
  <2>2. ASSUME NEW s \in Watchers, NEW line \in 0..MaxMessages, DaemonTells(d, s, line)
        PROVE  ReadType' /\ HasRequest'
    <3>1. messages' \in 0..MaxMessages
      BY <2>2, MaxMessagesNat DEF DaemonTells
    <3>2. inbox' \in [Starts -> Seq(0..MaxMessages)]
      BY <2>2, AppendProperties, WatchersStart DEF DaemonTells
    <3>3. QED
      BY <2>2, <3>1, <3>2 DEF DaemonTells
  <2>3. QED
    BY <1>3, <2>1, <2>2 DEF DaemonStep
<1>4. CASE UNCHANGED vars
  BY <1>0, <1>4 DEF vars, watching
<1>5. QED
  BY <1>1, <1>2, <1>3, <1>4 DEF Next

----------------------------------------------------------------------------
(* Processes *)

(* What cmd_start owes its child at each position: before the spawn there  *)
(* is none, at the end it is reaped or was never there, and only a command *)
(* without --watch detaches.                                               *)
ChildInv ==
    \A s \in Starts :
        /\ start[s] \in {"idle", "spawning"} => proc[s] = "none"
        /\ start[s] = "done" => proc[s] \in {"none", "reaped"}
        /\ start[s] = "detached" => s \notin Watchers

(* A command that is not cut short ends by reaping its child, detaching    *)
(* from it or never having spawned one, and a daemon is spawned by its own *)
(* command only.                                                           *)
LEMMA ChildStep ==
  ASSUME ProcType, StartType, ChildInv, [Next]_vars
  PROVE  ChildInv'
<1> USE DEF ProcType, StartType, ChildInv, Processes, Positions, processes
<1>1. ASSUME NEW s \in Starts, StartStep(s) \/ Mishap(s) \/ Answer(s)
      PROVE  ChildInv'
  <2>1. CASE StartProbes(s) \/ StartFails(s) \/ StartSpawns(s) \/ InstallHandler(s)
    BY <2>1 DEF StartProbes, StartFails, StartSpawns, InstallHandler
  <2>2. CASE StartGivesUp(s) \/ StartReady(s) \/ CtrlC(s) \/ Interrupted(s) \/ Panics(s)
    BY <2>2 DEF StartGivesUp, StartReady, CtrlC, Interrupted, Panics, Aborts
  <2>3. CASE WatchConnects(s) \/ WatchEnds(s) \/ WatchFails(s)
    BY <2>3 DEF WatchConnects, WatchEnds, WatchFails, AfterWatch
  <2>4. CASE HandleEvent(s) \/ LineTorn(s) \/ Answer(s)
    BY <2>4 DEF HandleEvent, LineTorn, Answer
  <2>5. CASE ChildExited(s) \/ ForceKill(s)
    BY <2>5 DEF ChildExited, ForceKill
  <2>6. QED
    BY <1>1, <2>1, <2>2, <2>3, <2>4, <2>5 DEF StartStep, Mishap
<1>2. CASE StopStep
  BY <1>2 DEF StopStep, StopProbes, StopTerminates, StopSeesSocketGone, StopKills
<1>3. ASSUME NEW d \in Starts, DaemonStep(d) PROVE ChildInv'
  <2>1. CASE DaemonServes(d) \/ DaemonWritesPid(d)
    BY <2>1 DEF DaemonServes, DaemonWritesPid
  <2>2. CASE DaemonHangs(d) \/ DaemonDies(d)
    BY <2>2 DEF DaemonHangs, DaemonDies, Alive
  <2>3. CASE \E s \in Watchers, line \in 0..MaxMessages : DaemonTells(d, s, line)
    BY <2>3 DEF DaemonTells
  <2>4. QED
    BY <1>3, <2>1, <2>2, <2>3 DEF DaemonStep
<1>4. CASE UNCHANGED vars
  BY <1>4 DEF vars
<1>5. QED
  BY <1>1, <1>2, <1>3, <1>4 DEF Next

----------------------------------------------------------------------------
(* Requests and decisions *)

(* The requests a watcher has decided, the one it asks about and those it  *)
(* has not read come in this order, and no number is beyond the messages   *)
(* sent so far: what AnsweredOnceInOrder rests on.                         *)
Increasing(q) == \A i, j \in 1..Len(q) : i < j /\ q[i] # 0 /\ q[j] # 0 => q[i] < q[j]
Below(n, q) == \A i \in 1..Len(q) : q[i] # 0 => n < q[i]
UpTo(q, n) == \A i \in 1..Len(q) : q[i] <= n

OrderOf(q, n, d) ==
    /\ Increasing(q) /\ Below(n, q)
    /\ Increasing(d)
    /\ \A i \in 1..Len(d) : (n # 0 => d[i] < n) /\ Below(d[i], q)
SentOf(q, n, d, m) == UpTo(q, m) /\ n <= m /\ UpTo(d, m)

RequestOrder ==
    \A s \in Starts : /\ OrderOf(inbox[s], asking[s], decided[s])
                      /\ SentOf(inbox[s], asking[s], decided[s], messages)

(* A sequence stays in order when what is added exceeds what it has. *)
LEMMA IncreasingAppend ==
  ASSUME NEW q \in Seq(Nat), Increasing(q), NEW k \in Nat, k # 0 => \A i \in 1..Len(q) : q[i] < k
  PROVE  Increasing(Append(q, k))
<1> DEFINE r == Append(q, k)
<1>1. /\ Len(r) = Len(q) + 1 /\ Len(q) \in Nat
      /\ \A i \in 1..Len(q) : r[i] = q[i]
      /\ r[Len(q) + 1] = k
  OBVIOUS
<1> SUFFICES ASSUME NEW i \in 1..Len(r), NEW j \in 1..Len(r), i < j, r[i] # 0, r[j] # 0
             PROVE  r[i] < r[j]
  BY Zenon DEF Increasing
<1> HIDE DEF r
<1>2. i \in 1..Len(q)
  BY <1>1
<1>3. CASE j \in 1..Len(q)
  BY <1>1, <1>2, <1>3 DEF Increasing
<1>4. CASE j = Len(q) + 1
  BY <1>1, <1>2, <1>4
<1>5. QED
  BY <1>1, <1>3, <1>4

(* The order survives the loss of the first line, read or torn. *)
LEMMA OrderTail ==
  ASSUME NEW q \in Seq(Nat), q # <<>>, NEW n \in Nat, NEW d \in Seq(Nat), NEW m \in Nat,
         OrderOf(q, n, d), SentOf(q, n, d, m)
  PROVE  /\ OrderOf(Tail(q), n, d) /\ SentOf(Tail(q), n, d, m)
         /\ Head(q) # 0 => OrderOf(Tail(q), Head(q), d) /\ SentOf(Tail(q), Head(q), d, m)
<1>1. /\ Len(q) \in Nat /\ Len(q) >= 1 /\ Head(q) = q[1]
      /\ Tail(q) \in Seq(Nat) /\ Len(Tail(q)) = Len(q) - 1
      /\ \A i \in 1..Len(Tail(q)) : i+1 \in 1..Len(q) /\ Tail(q)[i] = q[i+1]
  OBVIOUS
<1>2. Increasing(Tail(q)) /\ UpTo(Tail(q), m)
  BY <1>1 DEF OrderOf, SentOf, Increasing, UpTo
<1>3. \A k \in Nat : Below(k, q) => Below(k, Tail(q))
  BY <1>1 DEF Below
<1>4. \A i \in 1..Len(d) : d[i] \in Nat
  OBVIOUS
<1>5. Head(q) # 0 => /\ Below(Head(q), Tail(q))
                     /\ \A i \in 1..Len(d) : d[i] < Head(q)
  BY <1>1 DEF OrderOf, Increasing, Below
<1>6. Head(q) \in Nat /\ Head(q) <= m
  BY <1>1 DEF SentOf, UpTo
<1>7. QED
  BY <1>2, <1>3, <1>4, <1>5, <1>6 DEF OrderOf, SentOf

(* A new line of the daemon is a notice or the latest request. *)
LEMMA OrderAppend ==
  ASSUME NEW q \in Seq(Nat), NEW n \in Nat, NEW d \in Seq(Nat), NEW m \in Nat,
         OrderOf(q, n, d), SentOf(q, n, d, m), NEW line \in {0, m + 1}
  PROVE  OrderOf(Append(q, line), n, d) /\ SentOf(Append(q, line), n, d, m + 1)
<1>1. /\ Len(Append(q, line)) = Len(q) + 1 /\ Len(q) \in Nat
      /\ \A i \in 1..Len(q) : Append(q, line)[i] = q[i] /\ q[i] \in Nat
      /\ Append(q, line)[Len(q) + 1] = line
  OBVIOUS
<1>2. Increasing(Append(q, line)) /\ UpTo(Append(q, line), m + 1)
  <2>1. \A i \in 1..Len(q) : q[i] <= m
    BY DEF SentOf, UpTo
  <2>2. UpTo(Append(q, line), m + 1)
    BY <1>1, <2>1 DEF UpTo
  <2>3. QED
    <3>1. line \in Nat /\ \A i \in 1..Len(q) : line # 0 => q[i] < line
      BY <1>1, <2>1
    <3>2. Increasing(q)
      BY DEF OrderOf
    <3>3. QED
      BY <2>2, <3>1, <3>2, IncreasingAppend
<1>3. \A k \in Nat : k <= m /\ Below(k, q) => Below(k, Append(q, line))
  BY <1>1 DEF Below
<1>4. \A i \in 1..Len(d) : d[i] \in Nat
  OBVIOUS
<1>5. UpTo(d, m + 1) /\ \A i \in 1..Len(d) : d[i] <= m
  BY <1>4 DEF SentOf, UpTo
<1>6. Below(n, Append(q, line)) /\ \A i \in 1..Len(d) : Below(d[i], Append(q, line))
  BY <1>3, <1>4, <1>5 DEF OrderOf, SentOf
<1>7. QED
  BY <1>2, <1>5, <1>6 DEF OrderOf, SentOf

(* A decision is about the request asked last. *)
LEMMA OrderDecide ==
  ASSUME NEW q \in Seq(Nat), NEW n \in Nat, n # 0, NEW d \in Seq(Nat), NEW m \in Nat,
         OrderOf(q, n, d), SentOf(q, n, d, m)
  PROVE  OrderOf(q, 0, Append(d, n)) /\ SentOf(q, 0, Append(d, n), m)
<1>1. /\ Len(Append(d, n)) = Len(d) + 1 /\ Len(d) \in Nat
      /\ \A i \in 1..Len(d) : Append(d, n)[i] = d[i] /\ d[i] \in Nat
      /\ Append(d, n)[Len(d) + 1] = n
  OBVIOUS
<1>2. Increasing(Append(d, n)) /\ UpTo(Append(d, n), m)
  <2>1. UpTo(Append(d, n), m)
    BY <1>1 DEF SentOf, UpTo
  <2>2. QED
    BY <2>1, IncreasingAppend DEF OrderOf
<1>3. Below(0, q)
  BY DEF Below
<1>4. \A i \in 1..Len(Append(d, n)) : Below(Append(d, n)[i], q)
  BY <1>1 DEF OrderOf
<1>5. QED
  BY <1>2, <1>3, <1>4 DEF OrderOf, SentOf

(* A prompt that ends without a decision, and a closed stream. *)
LEMMA OrderDrop ==
  ASSUME NEW q \in Seq(Nat), NEW n \in Nat, NEW d \in Seq(Nat), NEW m \in Nat,
         OrderOf(q, n, d), SentOf(q, n, d, m)
  PROVE  /\ OrderOf(q, 0, d) /\ SentOf(q, 0, d, m)
         /\ OrderOf(<<>>, n, d) /\ SentOf(<<>>, n, d, m)
         /\ OrderOf(<<>>, 0, d) /\ SentOf(<<>>, 0, d, m)
         /\ SentOf(q, n, d, m + 1)
<1>1. Len(<<>>) = 0
  OBVIOUS
<1>2. /\ \A i \in 1..Len(q) : q[i] \in Nat
      /\ \A i \in 1..Len(d) : d[i] \in Nat
  OBVIOUS
<1>3. QED
  BY <1>1, <1>2 DEF OrderOf, SentOf, Increasing, Below, UpTo

(* Every step keeps requests and decisions in order. *)
LEMMA OrderStep ==
  ASSUME StartType, ReadType, HasRequest, RequestOrder, [Next]_vars
  PROVE  RequestOrder'
<1>0. /\ \A s \in Starts : /\ inbox[s] \in Seq(Nat) /\ asking[s] \in Nat
                           /\ decided[s] \in Seq(Nat)
      /\ messages \in Nat
  BY MaxMessagesNat DEF ReadType
<1> USE DEF ReadType, RequestOrder
<1>u. ASSUME Unread PROVE RequestOrder'
  BY <1>u DEF Unread
<1>1. ASSUME NEW s \in Starts, StartStep(s) \/ Mishap(s) \/ Answer(s)
      PROVE  RequestOrder'
  <2>1. CASE \/ StartSpawns(s) \/ StartProbes(s) \/ StartFails(s) \/ InstallHandler(s)
             \/ StartGivesUp(s) \/ StartReady(s)
    BY <1>u, <2>1 DEF StartSpawns, StartProbes, StartFails, InstallHandler, StartGivesUp,
                      StartReady, watching, Unread
  <2>2. CASE ChildExited(s) \/ ForceKill(s) \/ CtrlC(s) \/ WatchConnects(s)
    BY <1>u, <2>2 DEF ChildExited, ForceKill, CtrlC, WatchConnects, watching, Unread
  <2>3. CASE WatchEnds(s) \/ WatchFails(s)
    <3>1. inbox' = [inbox EXCEPT ![s] = <<>>] /\ UNCHANGED <<asking, messages, decided>>
      BY <2>3, Zenon DEF WatchEnds, WatchFails
    <3>2. QED
      BY <1>0, <3>1, OrderDrop
  <2>4. CASE LineTorn(s)
    BY <1>0, <2>4, OrderTail DEF LineTorn
  <2>5. CASE HandleEvent(s)
    BY <1>0, <2>5, OrderTail DEF HandleEvent
  <2>6. CASE Answer(s)
    <3>1. asking[s] # 0
      BY <2>6 DEF Answer, HasRequest
    <3>2. CASE Alive(peer[s])
      BY <1>0, <2>6, <3>1, <3>2, OrderDecide DEF Answer
    <3>3. CASE ~Alive(peer[s])
      BY <1>0, <2>6, <3>3, OrderDrop DEF Answer
    <3>4. QED
      BY <3>2, <3>3
  <2>7. CASE Interrupted(s) \/ Panics(s)
    <3>1. /\ inbox' = [inbox EXCEPT ![s] = <<>>] /\ asking' = [asking EXCEPT ![s] = 0]
          /\ UNCHANGED <<messages, decided>>
      BY <2>7, Zenon DEF Interrupted, Panics, Aborts
    <3>2. QED
      BY <1>0, <3>1, OrderDrop
  <2>8. QED
    BY <1>1, <2>1, <2>2, <2>3, <2>4, <2>5, <2>6, <2>7 DEF StartStep, Mishap
<1>2. CASE StopStep
  BY <1>u, <1>2 DEF StopStep, StopProbes, StopTerminates, StopSeesSocketGone, StopKills, watching,
                    Unread
<1>3. ASSUME NEW d \in Starts, DaemonStep(d) PROVE RequestOrder'
  <2>1. CASE DaemonServes(d) \/ DaemonWritesPid(d) \/ DaemonHangs(d) \/ DaemonDies(d)
    BY <1>u, <2>1 DEF DaemonServes, DaemonWritesPid, DaemonHangs, DaemonDies, watching, Unread
  <2>2. ASSUME NEW s \in Watchers, NEW line \in 0..MaxMessages, DaemonTells(d, s, line)
        PROVE  RequestOrder'
    <3>1. s \in Starts /\ line \in {0, messages + 1}
      BY <2>2, WatchersStart DEF DaemonTells
    <3>2. /\ OrderOf(inbox'[s], asking'[s], decided'[s])
          /\ SentOf(inbox'[s], asking'[s], decided'[s], messages')
      BY <1>0, <2>2, <3>1, OrderAppend DEF DaemonTells
    <3>3. \A t \in Starts \ {s} : /\ OrderOf(inbox'[t], asking'[t], decided'[t])
                                  /\ SentOf(inbox'[t], asking'[t], decided'[t], messages')
      BY <1>0, <2>2, OrderDrop DEF DaemonTells
    <3>4. QED
      BY <3>2, <3>3
  <2>3. QED
    BY <1>3, <2>1, <2>2 DEF DaemonStep
<1>4. CASE UNCHANGED vars
  BY <1>u, <1>4 DEF vars, watching, Unread
<1>5. QED
  BY <1>1, <1>2, <1>3, <1>4 DEF Next

----------------------------------------------------------------------------
(* Theorems *)

IInv == ProcType /\ HasTarget /\ StartType /\ ReadType /\ HasRequest /\ ChildInv /\ RequestOrder

(* The invariant holds throughout. *)
LEMMA SpecIInv == Spec => []IInv
<1>1. Init => IInv
  <2> SUFFICES ASSUME Init PROVE IInv
    OBVIOUS
  <2>1. ProcType /\ HasTarget /\ StartType
    BY DEF Init, ProcType, HasTarget, StartType, Processes, Positions
  <2>2. ReadType
    BY MaxMessagesNat DEF Init, ReadType
  <2>3. HasRequest /\ ChildInv
    BY DEF Init, HasRequest, ChildInv
  <2>4. RequestOrder
    BY DEF Init, RequestOrder, OrderOf, SentOf, Increasing, Below, UpTo
  <2>5. QED
    BY <2>1, <2>2, <2>3, <2>4 DEF IInv
<1>2. IInv /\ [Next]_vars => IInv'
  BY ProcStep, StartTypeStep, ReadStep, ChildStep, OrderStep DEF IInv
<1>3. QED
  BY <1>1, <1>2, PTL DEF Spec

(* The commands, the daemons and what a watcher reads stay well typed. *)
THEOREM TypeCorrect == Spec => []TypeOK
<1>1. IInv => TypeOK
  BY TypeParts DEF IInv
<1>2. QED
  BY <1>1, SpecIInv, PTL

(* A cmd_start that runs to its end leaves no daemon behind that it did    *)
(* not announce, however many commands and daemons race for the socket     *)
(* path.  A command cut short by SIGINT before its handler is installed,   *)
(* or by a panic, is excepted.                                             *)
THEOREM StartLeavesNoOrphans == Spec => []NoOrphans
<1>1. IInv => NoOrphans
  BY DEF IInv, ChildInv, NoOrphans
<1>2. QED
  BY <1>1, SpecIInv, PTL

(* handle_event answers every request at most once, in the order of the    *)
(* requests.                                                               *)
THEOREM AnswersAreOrdered == Spec => []AnsweredOnceInOrder
<1>1. IInv => AnsweredOnceInOrder
  <2> SUFFICES ASSUME IInv, NEW s \in Starts
               PROVE  /\ \A i, j \in 1..Len(decided[s]) : i < j => decided[s][i] < decided[s][j]
                      /\ \A i \in 1..Len(decided[s]) : asking[s] # decided[s][i]
    BY DEF AnsweredOnceInOrder
  <2>1. \A i \in 1..Len(decided[s]) : decided[s][i] \in Nat \ {0}
    BY MaxMessagesNat DEF IInv, ReadType
  <2>2. Increasing(decided[s]) /\ \A i \in 1..Len(decided[s]) : asking[s] # 0 => decided[s][i] < asking[s]
    BY DEF IInv, RequestOrder, OrderOf
  <2>3. QED
    BY <2>1, <2>2 DEF Increasing, IInv, ReadType
<1>2. QED
  BY <1>1, SpecIInv, PTL

=============================================================================
