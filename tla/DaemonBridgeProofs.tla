------------------------- MODULE DaemonBridgeProofs -------------------------
(***************************************************************************)
(* Proofs about DaemonBridge, for any sizes of its buffer, tail and queue  *)
(* and any number of inputs.                                               *)
(***************************************************************************)
EXTENDS DaemonBridge, SequenceTheorems, NatLemmas, TLAPS

(* TypeOK, by channel. *)
ProcessType ==
    /\ handle \in {"none", "open", "stopping", "closed", "lost"}
    /\ child \in {"none", "alive", "dead", "reaped"}
    /\ running \in {"idle", "yes", "no"}
BufferType ==
    /\ buffer \in Seq(Lines) /\ Len(buffer) <= BufferCap
    /\ lines \in 0..MaxInputs
    /\ unseen \in Nat /\ unseen <= lines
FlagType ==
    /\ wtActive \in BOOLEAN /\ session \in BOOLEAN /\ missed \in BOOLEAN /\ polled \in BOOLEAN
QueueType ==
    /\ ipc \in {"none", "open", "closed"}
    /\ queue \in Seq(1..MaxInputs) /\ Len(queue) <= QueueCap
    /\ emitted \in 0..MaxInputs /\ recent \in Seq(1..MaxInputs)
MailType ==
    /\ mail \in [Kinds -> 0..MaxInputs] /\ newest \in [Kinds -> 0..MaxInputs]
    /\ writing \in [Writers -> Kinds \union {"none"}] /\ req \in [Writers -> 0..MaxInputs]
    /\ unlinked \subseteq Writers /\ raced \subseteq Kinds
    /\ fate \in [Kinds -> {"none", "begun", "written", "failed", "taken"}]
    /\ send \in {"idle", "ipc", "file", "writing", "done", "failed"} /\ other \in BOOLEAN
    /\ requests \in 0..MaxInputs

(* The parts make up TypeOK. *)
LEMMA TypeParts ==
  ProcessType /\ BufferType /\ FlagType /\ QueueType /\ MailType => TypeOK
<1> SUFFICES ASSUME ProcessType, BufferType, FlagType, QueueType, MailType PROVE TypeOK
  OBVIOUS
<1>1. unseen \in 0..MaxInputs
  BY MaxInputsNat DEF BufferType
<1>2. {wtActive, other, session, missed, polled} \subseteq BOOLEAN
  BY Zenon DEF FlagType, MailType
<1>3. QED
  BY <1>1, <1>2 DEF TypeOK, ProcessType, BufferType, QueueType, MailType

(* The actions, by the channel they touch. *)
ProcessAction ==
    \/ DaemonStart \/ DaemonDies \/ DaemonStopKills \/ DaemonStopWaits
QueueAction == IpcStart \/ IpcEvent \/ IpcDrain \/ IpcStop
MailAction ==
    \/ \E k \in Kinds : BridgeWrites(k) \/ DaemonRemoves(k)
    \/ BridgeReturns \/ OtherExits \/ SendCommand

(* Every step is one of them, a line of the daemon, or a poll. *)
LEMMA NextParts ==
  ASSUME Next
  PROVE  ProcessAction \/ (\E line \in Lines : DaemonLogs(line)) \/ Poll
         \/ QueueAction \/ MailAction
BY DEF Next, ProcessAction, QueueAction, MailAction

----------------------------------------------------------------------------
(* stderr *)

(* The k-th line from the end. *)
FromEnd(b, k) == b[Len(b) - k]

(* A new line is the last, and the lines before it keep their distance     *)
(* from the end; if lines are trimmed the tail the shell reads is left.    *)
LEMMA LoggedBuffer ==
  ASSUME BufferType, NEW line \in Lines
  PROVE  LET b == Trimmed(Append(buffer, line))
         IN  /\ b \in Seq(Lines) /\ Len(b) \in 1..BufferCap
             /\ FromEnd(b, 0) = line
             /\ \A k \in 1..(Len(b) - 1) : /\ k - 1 \in 0..(Len(buffer) - 1)
                                           /\ FromEnd(b, k) = FromEnd(buffer, k - 1)
             /\ Len(b) = Len(buffer) + 1 \/ Len(b) >= TailLines
<1> DEFINE a == Append(buffer, line)
<1>0. /\ BufferCap \in Nat /\ Trim \in Nat /\ TailLines \in Nat
      /\ BufferCap > 0 /\ Trim > 0 /\ TailLines > 0 /\ TailLines <= BufferCap + 1 - Trim
  BY TrimLeavesTheTail
<1>1. /\ a \in Seq(Lines) /\ Len(a) = Len(buffer) + 1 /\ Len(buffer) \in Nat
      /\ \A i \in 1..Len(buffer) : a[i] = buffer[i]
      /\ a[Len(buffer) + 1] = line
  BY AppendProperties DEF BufferType
<1> HIDE DEF a
<1>2. CASE Len(a) > BufferCap
  <2> DEFINE b == SubSeq(a, Trim + 1, Len(a))
  <2>1. Len(a) = BufferCap + 1
    BY <1>0, <1>1, <1>2 DEF BufferType
  <2>2. /\ b \in Seq(Lines) /\ Len(b) = Len(a) - Trim
        /\ \A i \in 1..Len(b) : b[i] = a[Trim + i]
    BY <1>0, <1>1, <2>1
  <2> HIDE DEF b
  <2>3. ASSUME NEW k \in 0..(Len(b) - 1) PROVE FromEnd(b, k) = a[Len(a) - k]
    <3>1. Len(b) \in Nat /\ Len(b) - k \in 1..Len(b) /\ Trim + (Len(b) - k) = Len(a) - k
      BY <1>0, <1>1, <2>1, <2>2
    <3>2. b[Len(b) - k] = a[Trim + (Len(b) - k)]
      BY <2>2, <3>1
    <3>3. QED
      BY <3>1, <3>2 DEF FromEnd
  <2>4. Trimmed(a) = b
    BY <1>2 DEF Trimmed, b
  <2>5. FromEnd(b, 0) = line
    BY <1>0, <1>1, <2>1, <2>2, <2>3
  <2>6. \A k \in 1..(Len(b) - 1) : /\ k - 1 \in 0..(Len(buffer) - 1)
                                   /\ FromEnd(b, k) = FromEnd(buffer, k - 1)
    <3> SUFFICES ASSUME NEW k \in 1..(Len(b) - 1)
                 PROVE  /\ k - 1 \in 0..(Len(buffer) - 1)
                        /\ FromEnd(b, k) = FromEnd(buffer, k - 1)
      OBVIOUS
    <3>1. k \in Nat /\ k >= 1 /\ k <= Len(buffer) /\ FromEnd(b, k) = a[Len(a) - k]
      BY <1>0, <1>1, <2>1, <2>2, <2>3
    <3>2. Len(a) - k \in 1..Len(buffer) /\ Len(a) - k = Len(buffer) - (k - 1)
      BY <1>1, <3>1
    <3>3. QED
      BY <1>1, <3>1, <3>2 DEF FromEnd
  <2>7. Len(b) \in 1..BufferCap /\ Len(b) >= TailLines
    BY <1>0, <2>1, <2>2
  <2>8. QED
    BY <2>2, <2>4, <2>5, <2>6, <2>7, Zenon DEF a
<1>3. CASE ~(Len(a) > BufferCap)
  <2>1. Trimmed(a) = a
    BY <1>3 DEF Trimmed
  <2>2. QED
    BY <1>0, <1>1, <1>3, <2>1 DEF FromEnd, a
<1>4. QED
  BY <1>2, <1>3

(* The tail the shell reads has the last lines of the buffer. *)
LEMMA TailOfBuffer ==
  ASSUME BufferType
  PROVE  /\ RecentStderr \in Seq(Lines)
         /\ Len(RecentStderr) = IF Len(buffer) > TailLines THEN TailLines ELSE Len(buffer)
         /\ \A k \in 0..(Len(RecentStderr) - 1) : FromEnd(RecentStderr, k) = FromEnd(buffer, k)
<1>0. TailLines \in Nat /\ TailLines > 0
  BY TrimLeavesTheTail
<1>1. buffer \in Seq(Lines) /\ Len(buffer) \in Nat
  BY DEF BufferType
<1>2. CASE Len(buffer) > TailLines
  <2> DEFINE m == Len(buffer) - TailLines + 1
             t == SubSeq(buffer, m, Len(buffer))
  <2>1. RecentStderr = t
    BY <1>2 DEF RecentStderr
  <2>2. t \in Seq(Lines) /\ Len(t) = TailLines /\ \A i \in 1..Len(t) : t[i] = buffer[m + i - 1]
    BY <1>0, <1>1, <1>2
  <2> HIDE DEF t
  <2>3. ASSUME NEW k \in 0..(Len(t) - 1) PROVE FromEnd(t, k) = FromEnd(buffer, k)
    <3>1. Len(t) - k \in 1..Len(t) /\ m + (Len(t) - k) - 1 = Len(buffer) - k
      BY <1>0, <1>1, <1>2, <2>2
    <3>2. t[Len(t) - k] = buffer[m + (Len(t) - k) - 1]
      BY <2>2, <3>1
    <3>3. QED
      BY <3>1, <3>2 DEF FromEnd
  <2>4. QED
    BY <1>2, <2>1, <2>2, <2>3
<1>3. CASE ~(Len(buffer) > TailLines)
  <2>1. RecentStderr = buffer
    BY <1>1, <1>3, SubSeqFull DEF RecentStderr
  <2>2. QED
    BY <1>1, <1>3, <2>1
<1>4. QED
  BY <1>2, <1>3

(* What the shell will make of the buffer.  The latest lifecycle line in   *)
(* it says what the session is; and unless more lines came in than the     *)
(* shell reads, lines without one leave the session as it was when the     *)
(* shell last polled.                                                      *)
Silent(n) == \A j \in 0..(n - 1) : FromEnd(buffer, j) = "other"

LatestSays ==
    \A k \in 0..(Len(buffer) - 1) :
        Silent(k) /\ FromEnd(buffer, k) # "other" => session = (FromEnd(buffer, k) = "registered")
UnseenKept ==
    handle # "lost" /\ unseen <= TailLines =>
        /\ unseen <= Len(buffer)
        /\ Silent(unseen) => session = polled
PollsOpenHandle == running # "idle" => handle = "open"

StderrInv == BufferType /\ FlagType /\ LatestSays /\ UnseenKept /\ PollsOpenHandle /\ WtFlagExact

(* A line of the daemon keeps the types of the buffer. *)
LEMMA LogType ==
  ASSUME BufferType, FlagType, MailType, QueueType, NEW line \in Lines, DaemonLogs(line)
  PROVE  BufferType' /\ FlagType'
<1>1. buffer' \in Seq(Lines) /\ Len(buffer') <= BufferCap
  BY LoggedBuffer, TrimLeavesTheTail DEF DaemonLogs
<1>2. lines' \in 0..MaxInputs /\ unseen' \in Nat /\ unseen' <= lines'
  BY MaxInputsNat DEF DaemonLogs, WithinBound, BufferType, MailType, QueueType
<1>3. session' \in BOOLEAN
  BY DEF DaemonLogs, FlagType
<1>4. FlagType'
  BY <1>3 DEF DaemonLogs, FlagType
<1>5. QED
  BY <1>1, <1>2, <1>4 DEF BufferType

(* A line of the daemon keeps what the buffer says. *)
LEMMA LogStep ==
  ASSUME BufferType, FlagType, LatestSays, UnseenKept, NEW line \in Lines, DaemonLogs(line)
  PROVE  LatestSays' /\ UnseenKept'
<1> DEFINE b == Trimmed(Append(buffer, line))
<1>0. buffer' = b /\ handle' = handle /\ polled' = polled /\ unseen' = unseen + 1
  BY DEF DaemonLogs, process
<1>1. /\ b \in Seq(Lines) /\ Len(b) \in 1..BufferCap
      /\ FromEnd(b, 0) = line
      /\ \A k \in 1..(Len(b) - 1) : /\ k - 1 \in 0..(Len(buffer) - 1)
                                    /\ FromEnd(b, k) = FromEnd(buffer, k - 1)
      /\ Len(b) = Len(buffer) + 1 \/ Len(b) >= TailLines
  BY LoggedBuffer
<1> HIDE DEF b
<1>2. TailLines \in Nat /\ BufferCap \in Nat /\ Len(b) \in Nat /\ Len(buffer) \in Nat /\ unseen \in Nat
  BY <1>1, TrimLeavesTheTail DEF BufferType
<1>3. ASSUME NEW n \in 1..Len(b), \A j \in 0..(n - 1) : FromEnd(b, j) = "other"
      PROVE  line = "other" /\ n - 1 \in 0..Len(buffer) /\ Silent(n - 1)
  <2>1. \A j \in 0..(n - 1) : FromEnd(b, j) = "other"
    BY <1>3
  <2>2. line = "other"
    BY <1>1, <1>2, <2>1
  <2>3. \A j \in 0..(n - 2) : FromEnd(buffer, j) = "other"
    <3> SUFFICES ASSUME NEW j \in 0..(n - 2) PROVE FromEnd(buffer, j) = "other"
      OBVIOUS
    <3>1. j + 1 \in 1..(Len(b) - 1) /\ j + 1 \in 0..(n - 1) /\ (j + 1) - 1 = j
      BY <1>2
    <3>2. QED
      BY <1>1, <2>1, <3>1
  <2>4. n - 1 \in 0..Len(buffer)
    <3>1. CASE n = 1
      BY <1>2, <3>1
    <3>2. CASE n # 1
      <4>1. n - 1 \in 1..(Len(b) - 1)
        BY <1>2, <3>2
      <4>2. QED
        BY <1>1, <1>2, <4>1
    <3>3. QED
      BY <3>1, <3>2
  <2>5. QED
    BY <2>2, <2>3, <2>4 DEF Silent
<1>4. line = "other" => session' = session
  BY DEF DaemonLogs
<1>5. line # "other" => session' = (line = "registered")
  BY DEF DaemonLogs
<1>6. LatestSays'
  <2> SUFFICES ASSUME NEW k \in 0..(Len(b) - 1),
                      \A j \in 0..(k - 1) : FromEnd(b, j) = "other", FromEnd(b, k) # "other"
               PROVE  session' = (FromEnd(b, k) = "registered")
    BY <1>0 DEF LatestSays, Silent
  <2>1. CASE k = 0
    BY <1>1, <1>5, <2>1
  <2>2. CASE k # 0
    <3>1. k \in 1..(Len(b) - 1) /\ k \in 1..Len(b)
      BY <1>2, <2>2
    <3>2. line = "other" /\ Silent(k - 1)
      BY <1>3, <3>1
    <3>3. k - 1 \in 0..(Len(buffer) - 1) /\ FromEnd(b, k) = FromEnd(buffer, k - 1)
      BY <1>1, <3>1
    <3>4. QED
      BY <1>4, <3>2, <3>3 DEF LatestSays
  <2>3. QED
    BY <2>1, <2>2
<1>7. UnseenKept'
  <2> SUFFICES ASSUME handle # "lost", unseen + 1 <= TailLines
               PROVE  /\ unseen + 1 <= Len(b)
                      /\ (\A j \in 0..unseen : FromEnd(b, j) = "other") => session' = polled
    <3>1. 0..(unseen' - 1) = 0..unseen
      BY <1>0, <1>2
    <3>2. Silent(unseen)' <=> \A j \in 0..unseen : FromEnd(b, j) = "other"
      BY <1>0, <3>1 DEF Silent
    <3>3. QED
      BY <1>0, <3>2 DEF UnseenKept
  <2>1. unseen <= Len(buffer) /\ (Silent(unseen) => session = polled)
    BY <1>2 DEF UnseenKept
  <2>2. unseen + 1 <= Len(b)
    BY <1>1, <1>2, <2>1
  <2>3. ASSUME \A j \in 0..unseen : FromEnd(b, j) = "other" PROVE session' = polled
    <3>1. unseen + 1 \in 1..Len(b) /\ (unseen + 1) - 1 = unseen
      BY <1>2, <2>2
    <3>2. line = "other" /\ Silent(unseen)
      BY <1>3, <2>3, <3>1
    <3>3. QED
      BY <1>4, <2>1, <3>2
  <2>4. QED
    BY <2>2, <2>3
<1>8. QED
  BY <1>6, <1>7

(* If no more lines came in than the shell reads, the latest lifecycle     *)
(* line of the tail, or the old flag without one, is what the session is.  *)
LEMMA LifecycleExact ==
  ASSUME BufferType, FlagType, LatestSays, UnseenKept,
         handle # "lost", unseen <= TailLines, wtActive = polled
  PROVE  LatestLifecycle = session
<1> DEFINE tail == RecentStderr
           lifecycle == {i \in 1..Len(tail) : tail[i] # "other"}
<1>0. /\ Len(buffer) \in Nat /\ TailLines \in Nat /\ unseen \in Nat
      /\ unseen <= Len(buffer) /\ (Silent(unseen) => session = polled)
  BY TrimLeavesTheTail DEF BufferType, UnseenKept
<1>1. /\ tail \in Seq(Lines) /\ Len(tail) \in Nat /\ Len(tail) <= Len(buffer)
      /\ Len(tail) = IF Len(buffer) > TailLines THEN TailLines ELSE Len(buffer)
      /\ \A k \in 0..(Len(tail) - 1) : tail[Len(tail) - k] = FromEnd(buffer, k)
  BY <1>0, TailOfBuffer DEF FromEnd
<1>2. LatestLifecycle = IF lifecycle = {} THEN wtActive ELSE tail[Max(lifecycle)] = "registered"
  BY DEF LatestLifecycle
<1> HIDE DEF tail
<1>3. CASE lifecycle = {}
  <2>1. \A j \in 0..(unseen - 1) : FromEnd(buffer, j) = "other"
    <3> SUFFICES ASSUME NEW j \in 0..(unseen - 1) PROVE FromEnd(buffer, j) = "other"
      OBVIOUS
    <3>1. j \in 0..(Len(tail) - 1) /\ Len(tail) - j \in 1..Len(tail)
      BY <1>0, <1>1
    <3>2. QED
      BY <1>1, <1>3, <3>1
  <2>2. QED
    BY <1>0, <1>2, <1>3, <2>1 DEF Silent
<1>4. CASE lifecycle # {}
  <2> DEFINE m == Max(lifecycle)
  <2>1. m \in lifecycle /\ \A i \in lifecycle : m >= i
    <3>1. lifecycle \subseteq 0..Len(tail)
      BY <1>1
    <3>2. \E x \in lifecycle : \A y \in lifecycle : x >= y
      BY <1>1, <1>4, <3>1, GreatestNumber
    <3> HIDE DEF lifecycle
    <3>3. QED
      BY <3>2, Zenon DEF Max
  <2>2. m \in 1..Len(tail) /\ tail[m] # "other"
    BY <2>1
  <2> HIDE DEF m
  <2> DEFINE k == Len(tail) - m
  <2>3. k \in 0..(Len(tail) - 1) /\ k \in 0..(Len(buffer) - 1) /\ Len(tail) - k = m
    BY <1>0, <1>1, <2>2
  <2>4. FromEnd(buffer, k) = tail[m]
    BY <1>1, <2>3
  <2>5. Silent(k)
    <3> SUFFICES ASSUME NEW j \in 0..(k - 1) PROVE FromEnd(buffer, j) = "other"
      BY DEF Silent
    <3>1. j \in 0..(Len(tail) - 1) /\ Len(tail) - j \in 1..Len(tail) /\ ~(m >= Len(tail) - j)
      BY <1>1, <2>2
    <3>2. Len(tail) - j \notin lifecycle
      BY <2>1, <3>1
    <3>3. QED
      BY <1>1, <3>1, <3>2
  <2>6. session = (tail[m] = "registered")
    BY <2>2, <2>3, <2>4, <2>5 DEF LatestSays
  <2>7. QED
    BY <1>2, <1>4, <2>6 DEF m
<1>5. QED
  BY <1>3, <1>4

(* The shell's poll keeps the flag exact. *)
LEMMA PollStep ==
  ASSUME ProcessType, StderrInv, PollStderr
  PROVE  StderrInv'
<1>0. /\ BufferType /\ FlagType /\ LatestSays /\ UnseenKept /\ PollsOpenHandle /\ WtFlagExact
      /\ buffer' = buffer /\ session' = session /\ lines' = lines /\ unseen' = 0
      /\ running # "idle" /\ running' = "idle"
      /\ wtActive' = (~(running = "no") /\ LatestLifecycle)
      /\ polled' = (~(running = "no") /\ session)
      /\ handle' = IF running = "no" THEN "lost" ELSE handle
      /\ missed' = (missed \/ unseen > TailLines)
  BY DEF StderrInv, PollStderr
<1>1. BufferType'
  BY <1>0 DEF BufferType
<1>2. LatestLifecycle \in BOOLEAN
  BY <1>0 DEF LatestLifecycle, FlagType
<1>3. FlagType'
  BY <1>0, <1>2, Zenon DEF FlagType
<1>4. LatestSays'
  BY <1>0, Zenon DEF LatestSays, Silent, FromEnd
<1>5. UnseenKept'
  <2>1. Len(buffer) \in Nat
    BY <1>0 DEF BufferType
  <2>2. handle' # "lost" => polled' = session
    BY <1>0 DEF FlagType
  <2>3. QED
    BY <1>0, <2>1, <2>2 DEF UnseenKept
<1>6. WtFlagExact'
  <2> SUFFICES ASSUME ~missed' PROVE wtActive' = polled'
    BY DEF WtFlagExact
  <2>1. ~missed /\ unseen <= TailLines
    <3>1. ~missed /\ ~(unseen > TailLines)
      BY <1>0, Zenon
    <3>2. QED
      BY <1>0, <3>1, TrimLeavesTheTail DEF BufferType
  <2>2. handle # "lost" /\ wtActive = polled
    BY <1>0, <2>1, Zenon DEF PollsOpenHandle, WtFlagExact
  <2>3. LatestLifecycle = session
    BY <1>0, <2>1, <2>2, LifecycleExact
  <2>4. QED
    BY <1>0, <2>3, Zenon
<1>7. PollsOpenHandle'
  BY <1>0 DEF PollsOpenHandle
<1>8. QED
  BY <1>1, <1>3, <1>4, <1>5, <1>6, <1>7 DEF StderrInv

(* A step that leaves stderr and the flags alone keeps what is known of    *)
(* them, unless it takes the handle from a poll.                           *)
LEMMA StderrFrame ==
  ASSUME StderrInv, PollsOpenHandle', handle = "lost" => handle' = "lost",
         UNCHANGED <<buffer, wtActive, lines, session, unseen, missed, polled>>
  PROVE  StderrInv'
<1>1. BufferType'
  BY DEF StderrInv, BufferType
<1>2. FlagType'
  BY Zenon DEF StderrInv, FlagType
<1>3. LatestSays'
  BY Zenon DEF StderrInv, LatestSays, Silent, FromEnd
<1>4. UnseenKept'
  BY DEF StderrInv, UnseenKept, Silent, FromEnd
<1>5. WtFlagExact'
  BY Zenon DEF StderrInv, WtFlagExact
<1>6. QED
  BY <1>1, <1>2, <1>3, <1>4, <1>5 DEF StderrInv

----------------------------------------------------------------------------
(* IPC events *)

QueueInv == QueueType /\ QueueKeepsOldest

(* Every step on the IPC handle leaves in the queue the oldest events      *)
(* since the last drain.                                                   *)
LEMMA QueueStep ==
  ASSUME QueueInv, BufferType, MailType, QueueAction
  PROVE  QueueInv'
<1>0. QueueCap \in Nat /\ QueueCap > 0
  BY TrimLeavesTheTail
<1>1. /\ queue \in Seq(1..MaxInputs) /\ Len(queue) <= QueueCap /\ recent \in Seq(1..MaxInputs)
      /\ emitted \in 0..MaxInputs /\ QueueKeepsOldest
  BY DEF QueueInv, QueueType
<1>2. CASE IpcStart
  BY <1>2 DEF IpcStart, QueueInv, QueueType, QueueKeepsOldest
<1>3. CASE IpcDrain \/ IpcStop
  <2>1. queue' = <<>> /\ recent' = <<>> /\ emitted' = emitted /\ ipc' \in {"none", "open", "closed"}
    BY <1>3 DEF IpcDrain, IpcStop, QueueInv, QueueType
  <2>2. QueueType'
    BY <1>0, <1>1, <2>1 DEF QueueType
  <2>3. QueueKeepsOldest'
    BY <1>0, <2>1 DEF QueueKeepsOldest
  <2>4. QED
    BY <2>2, <2>3 DEF QueueInv
<1>4. CASE IpcEvent
  <2> DEFINE e == emitted + 1
  <2>1. e \in 1..MaxInputs
    BY <1>1, <1>4, MaxInputsNat DEF IpcEvent, WithinBound, BufferType, MailType
  <2>2. /\ ipc' = ipc /\ emitted' = e /\ recent' = Append(recent, e)
        /\ queue' = IF Len(queue) < QueueCap THEN Append(queue, e) ELSE queue
    BY <1>4 DEF IpcEvent
  <2> HIDE DEF e
  <2>3. Len(recent) \in Nat /\ Len(queue) \in Nat
    BY <1>1
  <2>4. CASE Len(recent) < QueueCap
    <3>1. queue = recent
      BY <1>1, <2>3, <2>4, SubSeqFull DEF QueueKeepsOldest
    <3>2. queue' = Append(recent, e)
      BY <2>2, <2>4, <3>1
    <3>3. recent' \in Seq(1..MaxInputs) /\ Len(recent') = Len(recent) + 1
      BY <1>1, <2>1, <2>2
    <3>4. queue' = SubSeq(recent', 1, Len(recent'))
      BY <2>2, <3>2, <3>3, SubSeqFull
    <3>5. (IF Len(recent') < QueueCap THEN Len(recent') ELSE QueueCap) = Len(recent')
      BY <1>0, <2>3, <2>4, <3>3
    <3>6. QueueKeepsOldest'
      BY <3>4, <3>5 DEF QueueKeepsOldest
    <3>7. QueueType'
      <4>1. Len(recent') <= QueueCap /\ queue' = recent' /\ emitted' \in 0..MaxInputs
        BY <1>0, <2>1, <2>2, <2>3, <2>4, <3>2, <3>3
      <4>2. QED
        BY <2>2, <3>3, <4>1 DEF QueueType, QueueInv
    <3>8. QED
      BY <3>6, <3>7 DEF QueueInv
  <2>5. CASE ~(Len(recent) < QueueCap)
    <3>1. queue = SubSeq(recent, 1, QueueCap)
      BY <1>1, <2>5 DEF QueueKeepsOldest
    <3>2. Len(queue) = QueueCap /\ \A i \in 1..QueueCap : queue[i] = recent[i]
      BY <1>0, <1>1, <2>3, <2>5, <3>1
    <3>3. queue' = queue
      BY <1>0, <2>2, <3>2
    <3> DEFINE r == Append(recent, e)
               s == SubSeq(r, 1, QueueCap)
    <3>4. /\ r \in Seq(1..MaxInputs) /\ Len(r) = Len(recent) + 1
          /\ \A i \in 1..Len(recent) : r[i] = recent[i]
          /\ recent' = r
      BY <1>1, <2>1, <2>2
    <3> HIDE DEF r
    <3>5. /\ s \in Seq(1..MaxInputs) /\ Len(s) = QueueCap
          /\ \A i \in 1..QueueCap : s[i] = r[i]
      <4>1. QueueCap \in Int /\ \A i \in 1..QueueCap : r[i] \in 1..MaxInputs
        <5>1. \A i \in 1..Len(r) : r[i] \in 1..MaxInputs
          BY <3>4, ElementOfSeq
        <5>2. QueueCap \in Int /\ \A i \in 1..QueueCap : i \in 1..Len(r)
          BY <1>0, <2>3, <2>5, <3>4
        <5>3. QED
          BY <5>1, <5>2
      <4>2. /\ s \in Seq(1..MaxInputs)
            /\ Len(s) = IF 1 <= QueueCap THEN QueueCap - 1 + 1 ELSE 0
            /\ \A i \in 1..(QueueCap - 1 + 1) : s[i] = r[1 + i - 1]
        BY <4>1, SubSeqProperties
      <4> HIDE DEF s
      <4>3. QED
        BY <1>0, <4>2
    <3> HIDE DEF s
    <3>6. s = queue
      <4>1. \A i \in 1..QueueCap : s[i] = queue[i]
        BY <1>0, <2>3, <2>5, <3>2, <3>4, <3>5
      <4>2. QED
        BY <1>0, <1>1, <3>2, <3>5, <4>1, SeqEqual
    <3>7. QueueKeepsOldest'
      <4>1. ~(Len(recent') < QueueCap)
        BY <1>0, <2>3, <2>5, <3>4
      <4>2. QED
        BY <3>3, <3>4, <3>6, <4>1 DEF QueueKeepsOldest, s
    <3>8. QueueType'
      BY <1>1, <2>1, <2>2, <3>3, <3>4 DEF QueueType, QueueInv
    <3>9. QED
      BY <3>7, <3>8 DEF QueueInv
  <2>6. QED
    BY <2>4, <2>5
<1>5. QED
  BY <1>2, <1>3, <1>4 DEF QueueAction

----------------------------------------------------------------------------
(* Requests *)

(* While nothing overlaps it, a writer that has truncated a file is alone  *)
(* in it, its request is the newest of the kind and the file is empty and  *)
(* still there.                                                            *)
AloneInFile ==
    /\ \A w \in Writers : writing[w] # "none" /\ writing[w] \notin raced =>
           /\ newest[writing[w]] = req[w] /\ fate[writing[w]] = "begun"
           /\ mail[writing[w]] = 0 /\ w \notin unlinked
    /\ \A v, w \in Writers : v # w /\ writing[v] = writing[w] /\ writing[v] # "none" =>
           writing[v] \in raced

MailInv == MailType /\ AloneInFile /\ NewestRequestKept

(* A step that leaves the files and their writers alone. *)
LEMMA MailFrame ==
  ASSUME MailInv, UNCHANGED <<files, written>>,
         send' \in {"idle", "ipc", "file", "writing", "done", "failed"}, other' \in BOOLEAN
  PROVE  MailInv'
<1>1. UNCHANGED <<mail, writing, req, unlinked, requests, newest, fate, raced>>
  BY Zenon DEF files, written
<1>2. MailType'
  BY <1>1, Zenon DEF MailInv, MailType
<1>3. QED
  BY <1>1, <1>2, Zenon DEF MailInv, AloneInFile, NewestRequestKept

(* Truncating a file takes the place of what it held. *)
LEMMA TruncateStep ==
  ASSUME MailInv, QueueType, BufferType, NEW w \in Writers, NEW k \in Kinds, Truncate(w, k),
         send' \in {"idle", "ipc", "file", "writing", "done", "failed"}, other' = other
  PROVE  MailInv'
<1> DEFINE r == requests + 1
<1>0. /\ MailType /\ AloneInFile /\ NewestRequestKept
      /\ requests' = r
      /\ mail' = [mail EXCEPT ![k] = 0]
      /\ writing' = [writing EXCEPT ![w] = k]
      /\ req' = [req EXCEPT ![w] = r]
      /\ unlinked' = unlinked \ {w}
      /\ newest' = [newest EXCEPT ![k] = r]
      /\ fate' = [fate EXCEPT ![k] = "begun"]
      /\ raced' = IF \E v \in Writers \ {w} : writing[v] = k THEN raced \union {k}
                  ELSE raced \ {k}
  BY DEF MailInv, Truncate
<1>1. r \in 1..MaxInputs /\ 0 \in 0..MaxInputs
  BY <1>0, MaxInputsNat DEF MailType, QueueType, BufferType, Truncate, WithinBound
<1> HIDE DEF r
<1>2. MailType'
  <2>1. mail' \in [Kinds -> 0..MaxInputs] /\ newest' \in [Kinds -> 0..MaxInputs]
    BY <1>0, <1>1 DEF MailType
  <2>2. writing' \in [Writers -> Kinds \union {"none"}] /\ req' \in [Writers -> 0..MaxInputs]
    BY <1>0, <1>1 DEF MailType
  <2>3. QED
    BY <1>0, <1>1, <2>1, <2>2 DEF MailType
<1>3. AloneInFile'
  <2>1. ASSUME NEW v \in Writers, writing'[v] # "none", writing'[v] \notin raced'
        PROVE  /\ newest'[writing'[v]] = req'[v] /\ fate'[writing'[v]] = "begun"
               /\ mail'[writing'[v]] = 0 /\ v \notin unlinked'
    <3>1. CASE v = w
      BY <1>0, <3>1 DEF MailType
    <3>2. CASE v # w
      <4>1. writing'[v] = writing[v] /\ req'[v] = req[v] /\ writing[v] \in Kinds
        BY <1>0, <2>1, <3>2 DEF MailType
      <4>2. writing[v] # k
        BY <1>0, <2>1, <3>2, <4>1
      <4>3. writing[v] \notin raced
        BY <1>0, <2>1, <4>1, <4>2
      <4>4. /\ newest[writing[v]] = req[v] /\ fate[writing[v]] = "begun"
            /\ mail[writing[v]] = 0 /\ v \notin unlinked
        BY <1>0, <4>1, <4>3, SendFileIsAKind DEF AloneInFile
      <4>5. QED
        BY <1>0, <4>1, <4>2, <4>4 DEF MailType
    <3>3. QED
      BY <3>1, <3>2
  <2>2. ASSUME NEW u \in Writers, NEW v \in Writers, u # v, writing'[u] = writing'[v],
               writing'[u] # "none"
        PROVE  writing'[u] \in raced'
    <3>1. CASE u = w
      BY <1>0, <2>2, <3>1 DEF MailType
    <3>2. CASE v = w
      BY <1>0, <2>2, <3>2 DEF MailType
    <3>3. CASE u # w /\ v # w
      <4>1. writing'[u] = writing[u] /\ writing'[v] = writing[v]
        BY <1>0, <3>3 DEF MailType
      <4>2. writing[u] \in raced
        BY <1>0, <2>2, <4>1 DEF AloneInFile
      <4>3. CASE writing[u] = k
        BY <1>0, <3>3, <4>1, <4>3
      <4>4. CASE writing[u] # k
        BY <1>0, <4>1, <4>2, <4>4
      <4>5. QED
        BY <4>3, <4>4
    <3>4. QED
      BY <3>1, <3>2, <3>3
  <2>3. QED
    BY <2>1, <2>2 DEF AloneInFile
<1>4. NewestRequestKept'
  <2> SUFFICES ASSUME NEW l \in Kinds \ raced', fate'[l] = "written" PROVE mail'[l] = newest'[l]
    BY DEF NewestRequestKept
  <2>1. l # k
    BY <1>0 DEF MailType
  <2>2. l \notin raced /\ fate[l] = "written" /\ mail'[l] = mail[l] /\ newest'[l] = newest[l]
    BY <1>0, <2>1 DEF MailType
  <2>3. QED
    BY <1>0, <2>2 DEF NewestRequestKept
<1>5. QED
  BY <1>2, <1>3, <1>4 DEF MailInv

(* A write that ends, well or not, concerns its own file. *)
LEMMA FillStep ==
  ASSUME MailInv, NEW w \in Writers, Fill(w) \/ FillFails(w),
         send' \in {"idle", "ipc", "file", "writing", "done", "failed"}, other' = other
  PROVE  MailInv'
<1> DEFINE k == writing[w]
<1>0. /\ MailType /\ AloneInFile /\ NewestRequestKept
      /\ k # "none"
      /\ writing' = [writing EXCEPT ![w] = "none"]
      /\ req' = [req EXCEPT ![w] = 0]
      /\ unlinked' = unlinked \ {w}
      /\ requests' = requests /\ newest' = newest /\ raced' = raced
  BY DEF MailInv, Fill, FillFails, Reports
<1>1. k \in Kinds
  BY <1>0 DEF MailType
<1>2. PICK outcome \in {"written", "failed"} :
          /\ fate' = IF newest[k] = req[w] THEN [fate EXCEPT ![k] = outcome] ELSE fate
          /\ outcome = "written" /\ w \notin unlinked =>
                 mail' = [mail EXCEPT ![k] = req[w]] \/ mail[k] # 0
  <2>1. CASE Fill(w)
    BY <2>1 DEF Fill, Reports
  <2>2. CASE FillFails(w)
    BY <2>2 DEF FillFails, Reports
  <2>3. QED
    BY <2>1, <2>2
<1>3. \E x \in {0, req[w], mail[k]} : mail' = [mail EXCEPT ![k] = x]
  <2>1. mail = [mail EXCEPT ![k] = mail[k]]
    BY <1>0, <1>1 DEF MailType
  <2>2. QED
    BY <2>1 DEF Fill, FillFails
<1> HIDE DEF k
<1>4. MailType'
  <2>1. mail' \in [Kinds -> 0..MaxInputs]
    BY <1>0, <1>1, <1>3, MaxInputsNat DEF MailType
  <2>2. fate' \in [Kinds -> {"none", "begun", "written", "failed", "taken"}]
    BY <1>0, <1>1, <1>2 DEF MailType
  <2>3. writing' \in [Writers -> Kinds \union {"none"}] /\ req' \in [Writers -> 0..MaxInputs]
    BY <1>0, MaxInputsNat DEF MailType
  <2>4. QED
    BY <1>0, <2>1, <2>2, <2>3 DEF MailType
<1>5. /\ writing[w] = k
      /\ \A l \in Kinds \ {k} : mail'[l] = mail[l] /\ fate'[l] = fate[l]
      /\ \A v \in Writers \ {w} : writing'[v] = writing[v] /\ req'[v] = req[v]
      /\ writing'[w] = "none"
  BY <1>0, <1>1, <1>2, <1>3 DEF MailType, k
<1>6. AloneInFile'
  <2>1. ASSUME NEW v \in Writers, writing'[v] # "none", writing'[v] \notin raced'
        PROVE  /\ newest'[writing'[v]] = req'[v] /\ fate'[writing'[v]] = "begun"
               /\ mail'[writing'[v]] = 0 /\ v \notin unlinked'
    <3>1. v # w /\ writing'[v] = writing[v] /\ req'[v] = req[v] /\ writing[v] \in Kinds
      BY <1>0, <1>5, <2>1 DEF MailType
    <3>2. writing[v] # k
      BY <1>0, <1>5, <2>1, <3>1 DEF AloneInFile
    <3>3. /\ newest[writing[v]] = req[v] /\ fate[writing[v]] = "begun"
          /\ mail[writing[v]] = 0 /\ v \notin unlinked
      BY <1>0, <2>1, <3>1 DEF AloneInFile
    <3>4. QED
      BY <1>0, <1>5, <3>1, <3>2, <3>3
  <2>2. ASSUME NEW u \in Writers, NEW v \in Writers, u # v, writing'[u] = writing'[v],
               writing'[u] # "none"
        PROVE  writing'[u] \in raced'
    BY <1>0, <1>5, <2>2 DEF AloneInFile
  <2>3. QED
    BY <2>1, <2>2 DEF AloneInFile
<1>7. NewestRequestKept'
  <2> SUFFICES ASSUME NEW l \in Kinds \ raced', fate'[l] = "written" PROVE mail'[l] = newest'[l]
    BY DEF NewestRequestKept
  <2>1. CASE l = k
    <3>1. newest[k] = req[w] /\ mail[k] = 0 /\ w \notin unlinked
      BY <1>0, <1>5, <2>1 DEF AloneInFile
    <3>2. fate'[k] = outcome
      BY <1>0, <1>1, <1>2, <3>1 DEF MailType
    <3>3. mail' = [mail EXCEPT ![k] = req[w]]
      BY <1>2, <2>1, <3>1, <3>2
    <3>4. QED
      BY <1>0, <1>1, <2>1, <3>1, <3>3 DEF MailType
  <2>2. CASE l # k
    BY <1>0, <1>5, <2>2 DEF NewestRequestKept
  <2>3. QED
    BY <2>1, <2>2
<1>8. QED
  BY <1>4, <1>6, <1>7 DEF MailInv

(* A daemon that removes a file takes the request in it; a write of the    *)
(* file that is under way has then been overlapped.                        *)
LEMMA RemoveStep ==
  ASSUME MailInv, NEW k \in Kinds, DaemonRemoves(k)
  PROVE  MailInv'
<1> DEFINE open == {w \in Writers : writing[w] = k}
<1>0. /\ MailType /\ AloneInFile /\ NewestRequestKept
      /\ mail[k] # 0 \/ open # {}
      /\ mail' = [mail EXCEPT ![k] = 0]
      /\ unlinked' = unlinked \union open
      /\ raced' = IF open # {} THEN raced \union {k} ELSE raced
      /\ fate' = IF mail[k] # 0 /\ mail[k] = newest[k] THEN [fate EXCEPT ![k] = "taken"] ELSE fate
      /\ UNCHANGED <<writing, req, requests, newest, send, other>>
  BY DEF MailInv, DaemonRemoves
<1>1. MailType'
  <2>1. mail' \in [Kinds -> 0..MaxInputs]
    BY <1>0, MaxInputsNat DEF MailType
  <2>2. fate' \in [Kinds -> {"none", "begun", "written", "failed", "taken"}]
    BY <1>0 DEF MailType
  <2>3. unlinked' \subseteq Writers /\ raced' \subseteq Kinds
    BY <1>0 DEF MailType
  <2>4. QED
    BY <1>0, <2>1, <2>2, <2>3 DEF MailType
<1>2. \A l \in Kinds \ {k} : mail'[l] = mail[l] /\ fate'[l] = fate[l]
  BY <1>0 DEF MailType
<1>3. AloneInFile'
  <2>1. ASSUME NEW v \in Writers, writing[v] # "none", writing[v] \notin raced'
        PROVE  /\ newest[writing[v]] = req[v] /\ fate'[writing[v]] = "begun"
               /\ mail'[writing[v]] = 0 /\ v \notin unlinked'
    <3>1. writing[v] \in Kinds /\ writing[v] \notin raced
      BY <1>0, <2>1 DEF MailType
    <3>2. writing[v] # k
      BY <1>0, <2>1
    <3>3. /\ newest[writing[v]] = req[v] /\ fate[writing[v]] = "begun"
          /\ mail[writing[v]] = 0 /\ v \notin unlinked
      BY <1>0, <2>1, <3>1 DEF AloneInFile
    <3>4. QED
      BY <1>0, <1>2, <3>1, <3>2, <3>3
  <2>2. raced \subseteq raced'
    BY <1>0
  <2>3. QED
    BY <1>0, <2>1, <2>2 DEF AloneInFile
<1>4. NewestRequestKept'
  <2> SUFFICES ASSUME NEW l \in Kinds \ raced', fate'[l] = "written" PROVE mail'[l] = newest'[l]
    BY DEF NewestRequestKept
  <2>1. l # k
    <3> SUFFICES ASSUME l = k PROVE FALSE
      OBVIOUS
    <3>1. mail[k] # 0 /\ k \notin raced
      BY <1>0
    <3>2. CASE mail[k] = newest[k]
      <4>1. fate'[k] = "taken"
        BY <1>0, <3>1, <3>2 DEF MailType
      <4>2. QED
        BY <4>1
    <3>3. CASE mail[k] # newest[k]
      BY <1>0, <3>1, <3>3 DEF NewestRequestKept
    <3>4. QED
      BY <3>2, <3>3
  <2>2. l \notin raced
    BY <1>0
  <2>3. QED
    BY <1>0, <1>2, <2>1, <2>2 DEF NewestRequestKept
<1>5. QED
  BY <1>1, <1>3, <1>4 DEF MailInv

(* The steps on the data directory. *)
LEMMA MailStep ==
  ASSUME MailInv, QueueType, BufferType, MailAction
  PROVE  MailInv'
<1>0. /\ send \in {"idle", "ipc", "file", "writing", "done", "failed"} /\ other \in BOOLEAN
      /\ {"app", "send"} = Writers /\ "send_file" \in Kinds
  BY SendFileIsAKind DEF MailInv, MailType, Writers
<1>1. ASSUME NEW k \in Kinds, BridgeWrites(k) PROVE MailInv'
  BY <1>0, <1>1, TruncateStep DEF BridgeWrites
<1>2. ASSUME NEW k \in Kinds, DaemonRemoves(k) PROVE MailInv'
  BY <1>2, RemoveStep
<1>3. CASE BridgeReturns
  <2>1. (Fill("app") \/ FillFails("app")) /\ send' = send /\ other' = other /\ "app" \in Writers
    BY <1>0, <1>3 DEF BridgeReturns
  <2>2. QED
    BY <1>0, <2>1, FillStep
<1>4. CASE OtherExits
  BY <1>0, <1>4, MailFrame DEF OtherExits
<1>5. CASE SendProbes
  <2>1. send' \in {"failed", "ipc", "file"}
    BY <1>5 DEF SendProbes
  <2>2. QED
    BY <1>0, <1>5, <2>1, MailFrame DEF SendProbes
<1>6. CASE SendOverIpc
  BY <1>0, <1>6, MailFrame DEF SendOverIpc
<1>7. ASSUME NEW then \in {"failed", "file"}, SendIpcFails(then) PROVE MailInv'
  BY <1>0, <1>7, MailFrame DEF SendIpcFails
<1>8. CASE SendOpensFile
  <2>1. ASSUME Truncate("send", "send_file"), send' = "writing" PROVE MailInv'
    BY <1>0, <1>8, <2>1, TruncateStep DEF SendOpensFile
  <2>2. ASSUME send' = "failed", UNCHANGED <<files, written>> PROVE MailInv'
    BY <1>0, <1>8, <2>2, MailFrame DEF SendOpensFile
  <2>3. QED
    BY <1>8, <2>1, <2>2 DEF SendOpensFile
<1>9. CASE SendWritesFile
  <2>1. /\ Fill("send") \/ FillFails("send")
        /\ send' \in {"done", "failed"} /\ other' = other /\ "send" \in Writers
    BY <1>0, <1>9 DEF SendWritesFile
  <2>2. QED
    BY <2>1, FillStep
<1>10. QED
  BY <1>1, <1>2, <1>3, <1>4, <1>5, <1>6, <1>7, <1>8, <1>9 DEF MailAction, SendCommand

----------------------------------------------------------------------------
(* The inductive invariant: the three channels do not touch each other. *)
IInv == ProcessType /\ StderrInv /\ QueueInv /\ MailInv

(* The bridge starts with nothing in any channel. *)
LEMMA InitIInv == Init => IInv
<1> SUFFICES ASSUME Init PROVE IInv
  OBVIOUS
<1>0. MaxInputs \in Nat /\ BufferCap \in Nat /\ QueueCap \in Nat /\ QueueCap > 0
  BY MaxInputsNat, TrimLeavesTheTail
<1>1. ProcessType
  BY DEF Init, ProcessType
<1>2. StderrInv
  <2>1. BufferType
    BY <1>0 DEF Init, BufferType
  <2>2. FlagType /\ WtFlagExact
    BY DEF Init, FlagType, WtFlagExact
  <2>3. LatestSays /\ UnseenKept /\ PollsOpenHandle
    <3>1. buffer = <<>> /\ Len(buffer) = 0 /\ unseen = 0 /\ running = "idle"
      BY DEF Init
    <3>2. session = polled
      BY DEF Init
    <3>3. QED
      BY <3>1, <3>2 DEF LatestSays, UnseenKept, PollsOpenHandle
  <2>4. QED
    BY <2>1, <2>2, <2>3 DEF StderrInv
<1>3. QueueInv
  BY <1>0 DEF Init, QueueInv, QueueType, QueueKeepsOldest
<1>4. MailInv
  <2>1. MailType
    BY <1>0 DEF Init, MailType
  <2>2. QED
    BY <2>1 DEF Init, MailInv, AloneInFile, NewestRequestKept
<1>5. QED
  BY <1>1, <1>2, <1>3, <1>4 DEF IInv

(* Every step keeps the inductive invariant. *)
LEMMA NextIInv == IInv /\ [Next]_vars => IInv'
<1> SUFFICES ASSUME IInv, [Next]_vars PROVE IInv'
  OBVIOUS
<1>0. /\ ProcessType /\ StderrInv /\ QueueInv /\ MailInv
      /\ BufferType /\ FlagType /\ PollsOpenHandle /\ QueueType /\ MailType
  BY DEF IInv, StderrInv, QueueInv, MailInv
<1>1. ASSUME UNCHANGED events PROVE QueueInv'
  BY <1>0, <1>1, Zenon DEF events, QueueInv, QueueType, QueueKeepsOldest
<1>2. ASSUME UNCHANGED dataDir PROVE MailInv'
  <2>1. UNCHANGED <<files, written>> /\ send' = send /\ other' = other
    BY <1>2, Zenon DEF dataDir
  <2>2. QED
    BY <1>0, <2>1, MailFrame DEF MailType
<1>3. ASSUME UNCHANGED <<process, stderr>> PROVE ProcessType' /\ StderrInv'
  <2>1. ProcessType' /\ PollsOpenHandle'
    BY <1>0, <1>3, Zenon DEF process, stderr, ProcessType, PollsOpenHandle
  <2>2. QED
    BY <1>0, <1>3, <2>1, StderrFrame DEF process, stderr
<1>4. CASE ProcessAction
  <2>1. UNCHANGED <<stderr, events, dataDir>> /\ (handle = "lost" => handle' = "lost")
    BY <1>4 DEF ProcessAction, DaemonStart, DaemonDies, DaemonStopKills, DaemonStopWaits
  <2>2. ProcessType' /\ PollsOpenHandle'
    BY <1>0, <1>4 DEF ProcessAction, DaemonStart, DaemonDies, DaemonStopKills, DaemonStopWaits,
                      ProcessType, PollsOpenHandle, stderr
  <2>3. StderrInv'
    BY <1>0, <2>1, <2>2, StderrFrame DEF stderr
  <2>4. QED
    BY <1>1, <1>2, <2>1, <2>2, <2>3 DEF IInv
<1>5. ASSUME NEW line \in Lines, DaemonLogs(line) PROVE IInv'
  <2>1. BufferType' /\ FlagType'
    BY <1>0, <1>5, LogType
  <2>2. LatestSays' /\ UnseenKept'
    BY <1>0, <1>5, LogStep DEF StderrInv
  <2>3. ProcessType' /\ PollsOpenHandle' /\ WtFlagExact' /\ UNCHANGED <<events, dataDir>>
    BY <1>0, <1>5 DEF DaemonLogs, process, ProcessType, PollsOpenHandle, WtFlagExact, StderrInv
  <2>4. QED
    BY <1>1, <1>2, <2>1, <2>2, <2>3 DEF IInv, StderrInv
<1>6. CASE PollRunning
  <2>1. /\ UNCHANGED <<handle, buffer, wtActive, lines, session, unseen, missed, polled>>
        /\ UNCHANGED <<events, dataDir>>
    BY <1>6 DEF PollRunning
  <2>2. ProcessType' /\ PollsOpenHandle'
    BY <1>0, <1>6 DEF PollRunning, ProcessType, PollsOpenHandle
  <2>3. StderrInv'
    BY <1>0, <2>1, <2>2, StderrFrame
  <2>4. QED
    BY <1>1, <1>2, <2>1, <2>2, <2>3 DEF IInv
<1>7. CASE PollStderr
  <2>1. StderrInv'
    BY <1>0, <1>7, PollStep
  <2>2. ProcessType' /\ UNCHANGED <<events, dataDir>>
    BY <1>0, <1>7 DEF PollStderr, ProcessType
  <2>3. QED
    BY <1>1, <1>2, <2>1, <2>2 DEF IInv
<1>8. CASE QueueAction
  <2>1. UNCHANGED <<process, stderr>> /\ UNCHANGED dataDir
    BY <1>8, Zenon DEF QueueAction, IpcStart, IpcEvent, IpcDrain, IpcStop
  <2>2. QueueInv'
    BY <1>0, <1>8, QueueStep
  <2>3. QED
    BY <1>2, <1>3, <2>1, <2>2 DEF IInv
<1>9. CASE MailAction
  <2>1. UNCHANGED <<process, stderr>> /\ UNCHANGED events
    BY <1>9, Zenon DEF MailAction, BridgeWrites, DaemonRemoves, BridgeReturns, OtherExits,
                       SendCommand, SendProbes, SendOverIpc, SendIpcFails, SendOpensFile,
                       SendWritesFile
  <2>2. MailInv'
    BY <1>0, <1>9, MailStep
  <2>3. QED
    BY <1>1, <1>3, <2>1, <2>2 DEF IInv
<1>10. CASE UNCHANGED vars
  BY <1>1, <1>2, <1>3, <1>10 DEF vars, IInv
<1>11. QED
  BY <1>4, <1>5, <1>6, <1>7, <1>8, <1>9, <1>10, NextParts DEF Poll

(* The inductive invariant holds of every behaviour. *)
LEMMA SpecIInv == Spec => []IInv
BY InitIInv, NextIInv, PTL DEF Spec

----------------------------------------------------------------------------
(* Every variable keeps its type; in particular stderr_lines stays within  *)
(* its limit and the IPC queue within its own.                             *)
THEOREM TypeCorrect == Spec => []TypeOK
<1>1. IInv => TypeOK
  BY TypeParts DEF IInv, StderrInv, QueueInv, MailInv
<1>2. QED
  BY SpecIInv, <1>1, PTL

(* For every buffer limit, trim and tail that leave the tail in the        *)
(* buffer: as long as no poll interval brought more lines than the shell   *)
(* reads, wtSessionActive says after every poll what the daemon's last     *)
(* lifecycle line said, and FALSE after a poll that found the daemon gone. *)
THEOREM FlagIsExact == Spec => []WtFlagExact
<1>1. IInv => WtFlagExact
  BY DEF IInv, StderrInv
<1>2. QED
  BY SpecIInv, <1>1, PTL

(* The IPC queue is an unbroken prefix of the events since the last drain. *)
THEOREM QueueIsPrefix == Spec => []QueueKeepsOldest
<1>1. IInv => QueueKeepsOldest
  BY DEF IInv, QueueInv
<1>2. QED
  BY SpecIInv, <1>1, PTL

(* For any set of signal files: the newest request of a kind that was      *)
(* reported as written is whole in its file until a daemon takes the file, *)
(* unless its write overlapped another write or a removal of the file.     *)
THEOREM NewestRequestIsKept == Spec => []NewestRequestKept
<1>1. IInv => NewestRequestKept
  BY DEF IInv, MailInv
<1>2. QED
  BY SpecIInv, <1>1, PTL

=============================================================================
