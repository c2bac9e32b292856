-------------------------- MODULE SignalingClient ---------------------------
(***************************************************************************)
(* The signaling client of the native bridge (native/shared/src/           *)
(* signaling.rs) and the poll loop of the macOS shell that reads it        *)
(* (SignalingManager in BoltBridge.swift).                                 *)
(*                                                                         *)
(* One callback serves two planes, the local and the cloud server, from    *)
(* the client's own threads; each callback holds the locks it needs for    *)
(* its whole body and is one step.  The shell polls from the main thread   *)
(* through C functions that each take one lock: every call is a step, and  *)
(* callbacks run between them.  The client library behind the callback     *)
(* (bolt_app_core) is external: a plane may say anything it can say while  *)
(* its connection is up, up to a budget of callbacks.  That includes joins,*)
(* leaves and signals before its list: the server makes a registration     *)
(* visible to the other handlers before it queues `peers` (server.rs, lines*)
(* 450-454), so the list may name a peer that the plane took back already. *)
(*                                                                         *)
(* A peer is its peer code; the device names and WebTransport data kept    *)
(* with it are left out.                                                   *)
(***************************************************************************)
EXTENDS Integers, Sequences, SequencesExt

CONSTANTS Planes,          \* Plane::Local and Plane::Cloud
          Codes, Self,     \* peer codes; Self is this device's own code
          NoPlane,
          MaxCallbacks,    \* bound: discovery callbacks of one behaviour
          MaxSignals       \* bound: signals received in one behaviour

ASSUME SelfIsACode == Self \in Codes
ASSUME NoPlaneIsNoPlane == NoPlane \notin Planes
ASSUME BoundsNat == MaxCallbacks \in Nat /\ MaxSignals \in Nat

VARIABLES
    (* BoltSignaling *)
    handle,          \* "none", "open" or "closed"
    connected,       \* connected: AtomicBool
    peers,           \* peers: the codes of the list, in order
    events,          \* events: is any queued (nobody reads what they say)
    signals,         \* incoming_signals
    (* SignalingManager *)
    poll,            \* where the main thread is in poll()
    batch,           \* the drained lines poll() has still to handle
    count, index, updated,  \* poll()'s locals
    shown,           \* peers: the list on screen
    online,          \* isConnected
    handled,         \* the signals given to onIncomingSignal
    (* external: the two planes *)
    link,            \* "down", "joining" (registered, no list yet) or "up"
    told,            \* the codes a plane has announced and not taken back
    gone,            \* the codes a plane took back before its list came
    calls,           \* callbacks made so far
    (* history *)
    received,        \* the signals that reached the callback
    retractedBy,     \* the plane that last took a code back, until it is told again
    lost,            \* codes a plane had announced when its connection dropped
    late             \* codes named by a list that came after they were taken back

bridge == <<handle, connected, peers, events, signals>>
shell == <<poll, batch, count, index, updated, shown, online, handled>>
outside == <<link, told, gone, calls>>
history == <<received, retractedBy, lost, late>>
vars == <<bridge, shell, outside, history>>

Init ==
    /\ handle = "none" /\ connected = FALSE
    /\ peers = <<>> /\ events = FALSE /\ signals = <<>>
    /\ poll = "idle" /\ batch = <<>> /\ count = 0 /\ index = 1 /\ updated = <<>>
    /\ shown = <<>> /\ online = FALSE /\ handled = <<>>
    /\ link = [p \in Planes |-> "down"]
    /\ told = [p \in Planes |-> {}] /\ gone = [p \in Planes |-> {}]
    /\ calls = 0
    /\ received = <<>> /\ lost = {} /\ late = {}
    /\ retractedBy = [c \in Codes |-> NoPlane]

----------------------------------------------------------------------------
(* The callback given to spawn_signaling_client. *)

(* bolt_signaling_start: fresh state behind a new handle; the shell starts *)
(* its poll timer.                                                         *)
Start ==
    /\ handle = "none"
    /\ handle' = "open"
    /\ UNCHANGED <<connected, peers, events, signals, shell, outside, history>>

(* The client calls back while the handle lives. *)
Callback ==
    /\ handle = "open"
    /\ calls < MaxCallbacks
    /\ calls' = calls + 1

(* Mutant: the test for a code that is already listed is dropped. *)
AddedAlways(list, c) == IF c = Self THEN list ELSE Append(list, c)

(* Push a peer unless it is this device or already listed. *)
Added(list, c) == IF c = Self \/ c \in Range(list) THEN list ELSE Append(list, c)

(* The loop of the PeerList arm: the peers of `new`, one by one. *)
Merged(list, new) ==
    LET merged[i \in 0..Len(new)] ==
          IF i = 0 THEN list ELSE Added(merged[i - 1], new[i])
    IN  merged[Len(new)]

(* retain: every entry of the code goes. *)
Without(list, c) ==
    LET kept[i \in 0..Len(list)] ==
          IF i = 0 THEN <<>>
          ELSE IF list[i] = c THEN kept[i - 1] ELSE Append(kept[i - 1], list[i])
    IN  kept[Len(list)]

(* DiscoveryEvent::Connected(plane). *)
OnConnected(p) ==
    /\ Callback
    /\ link[p] = "down"
    /\ link' = [link EXCEPT ![p] = "joining"]
    /\ connected' = TRUE
    /\ events' = TRUE
    /\ UNCHANGED <<handle, peers, signals, told, gone, shell, history>>

(* Mutant: the list of a plane replaces the merged list. *)
OnPeerListReplaces(p, list) ==
    /\ Callback
    /\ link[p] = "joining"
    /\ link' = [link EXCEPT ![p] = "up"]
    /\ told' = [told EXCEPT ![p] = @ \union (Range(list) \ gone[p])]
    /\ gone' = [gone EXCEPT ![p] = {}]
    /\ late' = late \union (Range(list) \intersect gone[p])
    /\ retractedBy' = [c \in Codes |-> IF c \in Range(list) THEN NoPlane ELSE retractedBy[c]]
    /\ peers' = Merged(<<>>, list)
    /\ UNCHANGED <<handle, connected, events, signals, shell, received, lost>>

(* DiscoveryEvent::PeerList(list, plane): merged into the list, never      *)
(* taking anything out of it; no event is queued.  The list is a snapshot: *)
(* what the plane took back before sending it stays taken back.            *)
OnPeerList(p, list) ==
    /\ Callback
    /\ link[p] = "joining"
    /\ link' = [link EXCEPT ![p] = "up"]
    /\ told' = [told EXCEPT ![p] = @ \union (Range(list) \ gone[p])]
    /\ gone' = [gone EXCEPT ![p] = {}]
    /\ late' = late \union (Range(list) \intersect gone[p])
    /\ retractedBy' = [c \in Codes |-> IF c \in Range(list) THEN NoPlane ELSE retractedBy[c]]
    /\ peers' = Merged(peers, list)
    /\ UNCHANGED <<handle, connected, events, signals, shell, received, lost>>

(* DiscoveryEvent::PeerJoined(peer, plane): a code that is already listed  *)
(* keeps its old entry, and the event is queued all the same.              *)
OnPeerJoined(p, c) ==
    /\ Callback
    /\ link[p] # "down"
    /\ told' = [told EXCEPT ![p] = @ \union {c}]
    /\ gone' = [gone EXCEPT ![p] = @ \ {c}]
    /\ retractedBy' = [retractedBy EXCEPT ![c] = NoPlane]
    /\ peers' = Added(peers, c)
    /\ events' = IF c = Self THEN events ELSE TRUE
    /\ UNCHANGED <<handle, connected, signals, link, shell, received, lost, late>>

(* Mutant: a peer that leaves stays in the list. *)
OnPeerLeftKeeps(p, c) ==
    /\ Callback
    /\ link[p] # "down"
    /\ told' = [told EXCEPT ![p] = @ \ {c}]
    /\ gone' = IF link[p] = "joining" THEN [gone EXCEPT ![p] = @ \union {c}] ELSE gone
    /\ retractedBy' = [retractedBy EXCEPT ![c] = p]
    /\ lost' = lost \ {c} /\ late' = late \ {c}
    /\ events' = TRUE
    /\ UNCHANGED <<handle, connected, peers, signals, link, shell, received>>

(* DiscoveryEvent::PeerLeft(code, plane): the code goes from the list,     *)
(* whichever plane announced it.                                           *)
OnPeerLeft(p, c) ==
    /\ Callback
    /\ link[p] # "down"
    /\ told' = [told EXCEPT ![p] = @ \ {c}]
    /\ gone' = IF link[p] = "joining" THEN [gone EXCEPT ![p] = @ \union {c}] ELSE gone
    /\ retractedBy' = [retractedBy EXCEPT ![c] = p]
    /\ lost' = lost \ {c} /\ late' = late \ {c}
    /\ peers' = Without(peers, c)
    /\ events' = TRUE
    /\ UNCHANGED <<handle, connected, signals, link, shell, received>>

(* DiscoveryEvent::Disconnected(reason, plane): only the event; the flag   *)
(* and the list stay as they are.                                          *)
OnDisconnected(p) ==
    /\ Callback
    /\ link[p] # "down"
    /\ link' = [link EXCEPT ![p] = "down"]
    /\ told' = [told EXCEPT ![p] = {}]
    /\ gone' = [gone EXCEPT ![p] = {}]
    /\ lost' = lost \union told[p]
    /\ events' = TRUE
    /\ UNCHANGED <<handle, connected, peers, signals, shell, received, retractedBy, late>>

(* DiscoveryEvent::Signal(sig, plane): queued for the shell. *)
OnSignal(p) ==
    /\ handle = "open"
    /\ link[p] # "down"
    /\ Len(received) < MaxSignals
    /\ LET sig == Len(received) + 1
       IN  /\ received' = Append(received, sig)
           /\ signals' = Append(signals, sig)
    /\ UNCHANGED <<handle, connected, peers, events, shell, outside, retractedBy, lost, late>>

----------------------------------------------------------------------------
(* SignalingManager.poll(), on the main thread. *)

(* bolt_signaling_is_connected. *)
PollStart ==
    /\ handle = "open" /\ poll = "idle"
    /\ poll' = "events"
    /\ online' = connected
    /\ UNCHANGED <<bridge, batch, count, index, updated, shown, handled, outside, history>>

(* bolt_signaling_drain_events: the count it returns is dropped. *)
DrainEvents ==
    /\ poll = "events"
    /\ poll' = "signals"
    /\ events' = FALSE
    /\ UNCHANGED <<handle, connected, peers, signals, batch, count, index, updated,
                   shown, online, handled, outside, history>>

(* Mutant: the drained signals are not taken out of the queue. *)
DrainSignalsCopies ==
    /\ poll = "signals"
    /\ poll' = "lines"
    /\ batch' = signals
    /\ UNCHANGED <<bridge, count, index, updated, shown, online, handled, outside, history>>

(* bolt_signaling_drain_signals: joined and cleared under one lock. *)
DrainSignals ==
    /\ poll = "signals"
    /\ poll' = "lines"
    /\ batch' = signals
    /\ signals' = <<>>
    /\ UNCHANGED <<handle, connected, peers, events, count, index, updated, shown,
                   online, handled, outside, history>>

(* onIncomingSignal for the next line of the batch. *)
HandleLine ==
    /\ poll = "lines"
    /\ batch # <<>>
    /\ handled' = Append(handled, Head(batch))
    /\ batch' = Tail(batch)
    /\ UNCHANGED <<bridge, poll, count, index, updated, shown, online, outside, history>>

(* bolt_signaling_peer_count. *)
ReadCount ==
    /\ poll = "lines"
    /\ batch = <<>>
    /\ poll' = "read"
    /\ count' = Len(peers)
    /\ index' = 1
    /\ updated' = <<>>
    /\ UNCHANGED <<bridge, batch, shown, online, handled, outside, history>>

(* bolt_signaling_get_peer for the next index of the loop: null, and so    *)
(* nothing added, past the end of the list as it is by now.                *)
GetPeer ==
    /\ poll = "read"
    /\ index <= count
    /\ index' = index + 1
    /\ updated' = IF index > Len(peers) THEN updated ELSE Append(updated, peers[index])
    /\ UNCHANGED <<bridge, poll, batch, count, shown, online, handled, outside, history>>

(* Mutant: only a list of another length is published. *)
PublishByCount ==
    /\ poll = "read"
    /\ index > count
    /\ poll' = "idle"
    /\ shown' = IF Len(updated) # Len(shown) THEN updated ELSE shown
    /\ count' = 0 /\ index' = 1 /\ updated' = <<>>
    /\ UNCHANGED <<bridge, batch, online, handled, outside, history>>

(* The end of poll(): the list is published when its codes differ from     *)
(* what is shown, and the locals are gone.                                 *)
Publish ==
    /\ poll = "read"
    /\ index > count
    /\ poll' = "idle"
    /\ shown' = IF updated # shown THEN updated ELSE shown
    /\ count' = 0 /\ index' = 1 /\ updated' = <<>>
    /\ UNCHANGED <<bridge, batch, online, handled, outside, history>>

(* SignalingManager.stop() and bolt_signaling_stop, also on the main       *)
(* thread: never inside a poll.  The callback's queues die with the handle.*)
Stop ==
    /\ handle = "open" /\ poll = "idle"
    /\ handle' = "closed"
    /\ shown' = <<>> /\ online' = FALSE
    /\ UNCHANGED <<connected, peers, events, signals, poll, batch, count, index,
                   updated, handled, outside, history>>

----------------------------------------------------------------------------
(* The lists a plane may send: a server keeps one entry per code. *)
PeerLists == UNION {Injection(1..n, Codes) : n \in 0..Cardinality(Codes)}

PollStep == PollStart \/ DrainEvents \/ DrainSignals \/ HandleLine \/ ReadCount
            \/ GetPeer \/ Publish

Next ==
    \/ Start
    \/ \E p \in Planes :
         \/ OnConnected(p)
         \/ \E list \in PeerLists : OnPeerList(p, list)
         \/ \E c \in Codes : OnPeerJoined(p, c) \/ OnPeerLeft(p, c)
         \/ OnDisconnected(p)
         \/ OnSignal(p)
    \/ PollStep
    \/ Stop

Spec == Init /\ [][Next]_vars

(* The repeating timer keeps calling poll() and poll() has no wait in it;  *)
(* nothing is assumed of the planes.                                       *)
FairSpec == Spec /\ WF_vars(PollStep)

----------------------------------------------------------------------------
(* The merged list of two planes: every peer once, never this device. *)
PeerListType == {s \in Seq(Codes \ {Self}) : IsInjective(s)}

(* Type invariant of the signaling client and its poll loop.  The list is  *)
(* free of repetitions and of this device, whatever joins, lists and       *)
(* re-announcements the two planes interleave; the list a poll puts        *)
(* together index by index is not.                                         *)
TypeOK ==
    /\ handle \in {"none", "open", "closed"}
    /\ connected \in BOOLEAN /\ online \in BOOLEAN /\ events \in BOOLEAN
    /\ peers \in PeerListType
    /\ shown \in Seq(Codes \ {Self}) /\ updated \in Seq(Codes \ {Self})
    /\ count \in Nat /\ index \in Nat \ {0} /\ calls \in Nat
    /\ signals \in Seq(Nat) /\ batch \in Seq(Nat)
    /\ handled \in Seq(Nat) /\ received \in Seq(Nat)
    /\ poll \in {"idle", "events", "signals", "lines", "read"}
    /\ link \in [Planes -> {"down", "joining", "up"}]
    /\ told \in [Planes -> SUBSET Codes] /\ gone \in [Planes -> SUBSET Codes]
    /\ retractedBy \in [Codes -> Planes \union {NoPlane}]
    /\ lost \subseteq Codes /\ late \subseteq Codes

(* A peer that a connected plane announces can be missing from the list    *)
(* only because another plane took it back since: the one way the shared   *)
(* list loses a reachable peer (PeerLeft removes by code alone).           *)
MissingOnlyIfLeftElsewhere ==
    \A p \in Planes : \A c \in told[p] \ ({Self} \union Range(peers)) :
        retractedBy[c] \in Planes \ {p}

(* The list holds a peer no plane announces for one of two reasons only: a *)
(* plane that had announced it dropped (Disconnected clears nothing), or a *)
(* plane's list named it after taking it back, as this repository's server *)
(* may do (NoGhostPeers of Rendezvous).  Nothing the client does by itself,*)
(* in any interleaving of the planes, leaves a stale entry, and the next   *)
(* PeerLeft for the code removes either kind.                              *)
StaleOnlyByOutageOrLateList ==
    Range(peers) \subseteq lost \union late \union UNION {told[p] : p \in Planes}

(* Every signal that reached the callback is given to the shell's handler  *)
(* exactly once and in order, over batches drained while more arrive: what *)
(* is handled, drained and queued is what was received.                    *)
SignalsOnceInOrder == handled \o batch \o signals = received

(* Once the planes are quiet, the list on screen becomes and stays the     *)
(* client's list, although count and entries are read under separate locks *)
(* while callbacks shift them, and no received signal is left unhandled.   *)
ShownCatchesUp == <>[](handle = "open" => shown = peers /\ handled = received)

=============================================================================
