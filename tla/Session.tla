------------------------------ MODULE Session -------------------------------
(***************************************************************************)
(* Session control of the macOS app: IpcManager and PinStore               *)
(* (BoltBridge.swift), and the signal handlers, buttons and WebTransport   *)
(* detection of LocalBoltApp.swift that drive them.                        *)
(*                                                                         *)
(* Everything runs on the main thread, one handler at a time: a step is    *)
(* one button, one incoming signal, one event of the daemon, or one change *)
(* of the detected WebTransport session.  The remote devices and the       *)
(* daemon are external and may say anything at any time, in particular     *)
(* late answers to what the user has since given up.  Transfers and the    *)
(* pause flag are left out.  A peer record carries its code, which         *)
(* TrustState keeps while the code is unverified and the model keeps on.   *)
(***************************************************************************)
EXTENDS Integers, FiniteSets

CONSTANTS Names,           \* device names
          Generic,         \* the name given to an unknown peer: "Peer"
          Keys,            \* identity keys
          Codes,           \* verification codes (SAS)
          None, MaxInputs  \* bound: signals and events from outside

ASSUME NoneIsNothing == None \notin Names \union Keys \union Codes \union {Generic}
ASSUME MaxInputsNat == MaxInputs \in Nat

VARIABLES
    phase,           \* sessionPhase
    peer,            \* connectedPeer
    pendingRequest,  \* the pairing sheet: pendingRequest
    pendingAccept,   \* pendingAcceptPeer
    pendingInitiator,\* pendingInitiatorPeer
    pins,            \* PinStore.pins: key -> device name
    bridge,          \* isConnected: the IPC handle is open
    incoming,        \* signaling.incomingConnectionRequest
    declined,        \* signaling.connectionDeclined
    wt,              \* daemon.wtSessionActive
    inputs,          \* inputs so far
    (* history *)
    latest,          \* the last code the daemon gave for the session
    run, pinned      \* how often the app was restarted, and what each run pinned

session == <<phase, peer, pendingRequest, pendingAccept, pendingInitiator>>
outside == <<bridge, incoming, declined, wt, inputs>>
pinning == <<pins, run, pinned>>
vars == <<session, pinning, outside, latest>>

Trusts == {"legacy", "unverified", "verified", "mismatch"}
DeviceNames == Names \union {Generic}
Peers == [name : DeviceNames, key : Keys \union {None}, trust : Trusts,
          sas : Codes \union {None}]
NoPeer == [name |-> None, key |-> None, trust |-> "none", sas |-> None]

Init ==
    /\ phase = "idle" /\ peer = NoPeer
    /\ pendingRequest = None /\ pendingAccept = NoPeer /\ pendingInitiator = None
    /\ pins = [k \in {} |-> None]
    /\ bridge = FALSE /\ incoming = None /\ declined = FALSE /\ wt = FALSE
    /\ inputs = 0
    /\ latest = None /\ run = 0 /\ pinned = {}

(* Something comes in from outside. *)
Input == inputs < MaxInputs /\ inputs' = inputs + 1

----------------------------------------------------------------------------
(* What resetSession and disconnectSession share. *)
ClearSession ==
    /\ peer' = NoPeer
    /\ pendingRequest' = None /\ pendingAccept' = NoPeer /\ pendingInitiator' = None
    /\ latest' = None

(* resetSession: any phase to idle. *)
ResetSession == phase' = "idle" /\ ClearSession

(* Mutant: the presentation-only disconnect forgets the peer it had. *)
DisconnectSessionKeepsPeer ==
    /\ phase' = "disconnected"
    /\ pendingRequest' = None /\ pendingAccept' = NoPeer /\ pendingInitiator' = None
    /\ UNCHANGED <<peer, latest>>

(* disconnectSession: from any phase. *)
DisconnectSession == phase' = "disconnected" /\ ClearSession

(* canStartFreshConnection, which beginRequest and receiveRequest reach    *)
(* through resetDisconnectedPresentationIfNeeded.                          *)
CanStartFresh == phase \in {"idle", "disconnected"}

(* Mutant: an acceptance is taken in any phase but connected. *)
CanBeginConnectingAlways == phase # "connected"

(* beginConnecting. *)
CanBeginConnecting == phase \in {"requesting", "incomingRequest"}

----------------------------------------------------------------------------
(* The user *)

(* initiateConnection: beginRequest; a row of the list is enabled only     *)
(* while IPC is connected.                                                 *)
Request(n) ==
    /\ bridge /\ CanStartFresh
    /\ phase' = "requesting"
    /\ pendingInitiator' = n
    /\ IF phase = "idle" THEN UNCHANGED <<peer, pendingRequest, pendingAccept, latest>>
       ELSE /\ peer' = NoPeer /\ pendingRequest' = None /\ pendingAccept' = NoPeer
            /\ latest' = None
    /\ UNCHANGED <<pinning, outside>>

(* Cancel, shown in requesting and connecting next to the pending peer. *)
Cancel ==
    /\ phase \in {"requesting", "connecting"}
    /\ pendingInitiator # None \/ pendingAccept # NoPeer
    /\ ResetSession
    /\ UNCHANGED <<pinning, outside>>

(* Accept on an incoming request: the peer is stashed, then                *)
(* beginConnecting.                                                        *)
AcceptIncoming ==
    /\ phase = "incomingRequest" /\ incoming # None
    /\ pendingAccept' = [name |-> incoming, key |-> None, trust |-> "legacy",
                         sas |-> None]
    /\ phase' = "connecting"
    /\ incoming' = None
    /\ UNCHANGED <<peer, pendingRequest, pendingInitiator, pinning, bridge, declined, wt,
                   inputs, latest>>

(* Decline on an incoming request. *)
DeclineIncoming ==
    /\ phase = "incomingRequest" /\ incoming # None
    /\ ResetSession
    /\ incoming' = None
    /\ UNCHANGED <<pinning, bridge, declined, wt, inputs>>

(* sendPairingDecision from the pairing sheet: an allowing decision        *)
(* stashes the peer, in whatever phase the sheet is answered.              *)
DecidePairing(allow) ==
    /\ bridge /\ pendingRequest # None
    /\ pendingAccept' =
         IF allow THEN [name |-> pendingRequest.name, key |-> None,
                        trust |-> IF pendingRequest.sas = None THEN "legacy" ELSE "unverified",
                        sas |-> pendingRequest.sas]
         ELSE pendingAccept
    /\ pendingRequest' = None
    /\ UNCHANGED <<phase, peer, pendingInitiator, pinning, outside, latest>>

(* Approve this session, shown while the code is unverified: markVerified. *)
Approve ==
    /\ peer.trust = "unverified"
    /\ peer' = [peer EXCEPT !.trust = "verified"]
    /\ UNCHANGED <<phase, pendingRequest, pendingAccept, pendingInitiator, pinning, outside,
                   latest>>

(* Disconnect, Reject, and Disconnect on a mismatch: the session view is   *)
(* shown for a connected peer only.                                        *)
Disconnect ==
    /\ phase = "connected" /\ peer # NoPeer
    /\ DisconnectSession
    /\ UNCHANGED <<pinning, outside>>

(* dismissDisconnect. *)
Dismiss ==
    /\ phase = "disconnected"
    /\ ResetSession
    /\ UNCHANGED <<pinning, outside>>

(* The app is quit and started again: PinStore.save writes its dates in    *)
(* ISO 8601, load reads them with the decoder's default, fails and starts  *)
(* empty.                                                                  *)
Restart ==
    /\ ResetSession
    /\ pins' = [k \in {} |-> None]
    /\ run' = run + 1 /\ UNCHANGED pinned
    /\ bridge' = FALSE /\ incoming' = None /\ declined' = FALSE /\ wt' = FALSE
    /\ Input

----------------------------------------------------------------------------
(* Signals of remote devices (wireSignalingHandler) *)

OnConnectionRequest(n) ==
    /\ Input /\ CanStartFresh
    /\ phase' = "incomingRequest"
    /\ incoming' = n
    /\ IF phase = "idle" THEN UNCHANGED <<peer, pendingRequest, pendingAccept, pendingInitiator,
                                          latest>>
       ELSE ClearSession
    /\ UNCHANGED <<pinning, bridge, declined, wt>>

OnConnectionAccepted ==
    /\ Input /\ CanBeginConnecting
    /\ phase' = "connecting"
    /\ UNCHANGED <<peer, pendingRequest, pendingAccept, pendingInitiator, pinning, bridge,
                   incoming, declined, wt, latest>>

(* connection_declined sets a flag, whoever sent it ... *)
OnConnectionDeclined ==
    /\ Input /\ ~declined
    /\ declined' = TRUE
    /\ UNCHANGED <<session, pinning, bridge, incoming, wt, latest>>

(* ... and the view that observes it resets the session, in any phase. *)
DeclinedObserved ==
    /\ declined
    /\ declined' = FALSE
    /\ ResetSession
    /\ UNCHANGED <<pinning, bridge, incoming, wt, inputs>>

----------------------------------------------------------------------------
(* Events of the daemon (IpcManager.poll), one per step.  Only the event   *)
(* that closes the bridge changes the generation and drops the rest of its *)
(* batch; session-ended does not, so what follows it is applied.           *)

Event == bridge /\ Input

(* start(), when the window appears: the bridge opens; attempts that fail  *)
(* change nothing.                                                         *)
StartIpc ==
    /\ ~bridge /\ bridge' = TRUE
    /\ UNCHANGED <<session, pinning, incoming, declined, wt, inputs, latest>>

OnPairingRequest(n, sas) ==
    /\ Event
    /\ pendingRequest' = [name |-> n, sas |-> sas]
    /\ UNCHANGED <<phase, peer, pendingAccept, pendingInitiator, pinning, bridge, incoming,
                   declined, wt, latest>>

(* The peer a new session is with: what was accepted, else what was        *)
(* requested, else whoever the daemon names; without any of them the peer  *)
(* is not set.                                                             *)
Resolved(key) ==
    IF pendingAccept # NoPeer THEN [pendingAccept EXCEPT !.key = key]
    ELSE IF pendingInitiator = None /\ key = None THEN peer
    ELSE [name |-> IF pendingInitiator = None THEN Generic ELSE pendingInitiator, key |-> key,
          trust |-> "legacy", sas |-> None]

(* session-connected, with or without the peer's key: through connecting   *)
(* if need be, ignored otherwise.                                          *)
OnSessionConnected(key) ==
    /\ Event
    /\ CanBeginConnecting \/ phase = "connecting"
    /\ phase' = "connected"
    /\ peer' = Resolved(key) /\ latest' = peer'.sas
    /\ pendingAccept' = NoPeer
    /\ pendingInitiator' = IF pendingAccept # NoPeer THEN pendingInitiator ELSE None
    /\ UNCHANGED <<pendingRequest, pinning, bridge, incoming, declined, wt>>

(* PinStore.checkMismatch: the name was pinned with another key. *)
Mismatch(key, name) == \E k \in DOMAIN pins : pins[k] = name /\ k # key

(* PinStore.pin: a key that is pinned stays as it is. *)
Pin(key, name) ==
    IF key \in DOMAIN pins THEN UNCHANGED pinning
    ELSE /\ pins' = [k \in DOMAIN pins \union {key} |-> IF k = key THEN name ELSE pins[k]]
         /\ pinned' = pinned \union {[name |-> name, key |-> key, run |-> run]}
         /\ UNCHANGED run

(* The key of the peer: the event's, or the one the session came with. *)
KeyOr(key) == IF key = None THEN peer.key ELSE key

(* Mutant: a verified peer is not asked again. *)
OnSessionSasTrusting(sas, key) ==
    LET id == KeyOr(key)
    IN  /\ Event /\ peer # NoPeer
        /\ latest' = sas
        /\ IF id # None /\ Mismatch(id, peer.name)
             THEN peer' = [peer EXCEPT !.trust = "mismatch", !.key = id] /\ UNCHANGED pinning
             ELSE /\ peer' = [peer EXCEPT !.trust = IF @ = "verified" THEN @ ELSE "unverified",
                                           !.key = id]
                  /\ IF id = None THEN UNCHANGED pinning ELSE Pin(id, peer.name)
        /\ UNCHANGED <<phase, pendingRequest, pendingAccept, pendingInitiator, bridge, incoming,
                       declined, wt>>

(* Mutant: the key is pinned without the mismatch test. *)
OnSessionSasPins(sas, key) ==
    LET id == KeyOr(key)
    IN  /\ Event /\ peer # NoPeer
        /\ latest' = sas
        /\ peer' = [peer EXCEPT !.trust = "unverified", !.sas = sas, !.key = id]
        /\ IF id = None THEN UNCHANGED pinning ELSE Pin(id, peer.name)
        /\ UNCHANGED <<phase, pendingRequest, pendingAccept, pendingInitiator, bridge, incoming,
                       declined, wt>>

(* session-sas: a mismatch of the peer's key with the pins, or the code    *)
(* for review and the key pinned; without a key the code alone.            *)
OnSessionSas(sas, key) ==
    LET id == KeyOr(key)
    IN  /\ Event /\ peer # NoPeer
        /\ latest' = sas
        /\ IF id # None /\ Mismatch(id, peer.name)
             THEN peer' = [peer EXCEPT !.trust = "mismatch", !.key = id] /\ UNCHANGED pinning
             ELSE /\ peer' = [peer EXCEPT !.trust = "unverified", !.sas = sas, !.key = id]
                  /\ IF id = None THEN UNCHANGED pinning ELSE Pin(id, peer.name)
        /\ UNCHANGED <<phase, pendingRequest, pendingAccept, pendingInitiator, bridge, incoming,
                       declined, wt>>

(* session-sas without a session on screen still pins the key, without a   *)
(* name.                                                                   *)
OnSessionSasUnseen(key) ==
    /\ Event /\ peer = NoPeer
    /\ Pin(key, None)
    /\ UNCHANGED <<session, bridge, incoming, declined, wt, latest>>

(* session-ended and session-error, in any phase. *)
OnSessionEnded ==
    /\ Event
    /\ DisconnectSession
    /\ UNCHANGED <<pinning, bridge, incoming, declined, wt>>

(* status-update with no connected peers. *)
OnStatusNoPeers ==
    /\ Event /\ phase = "connected"
    /\ DisconnectSession
    /\ UNCHANGED <<pinning, bridge, incoming, declined, wt>>

(* bridge-disconnected: disconnectSession, then stop() with its reset. *)
OnBridgeDisconnected ==
    /\ Event
    /\ bridge' = FALSE
    /\ ResetSession
    /\ UNCHANGED <<pinning, incoming, declined, wt>>

----------------------------------------------------------------------------
(* The WebTransport session seen in the daemon's stderr *)

(* applyWtVerificationCode: to the connected peer, for review. *)
WithCode(p, sas) == IF p = NoPeer \/ sas = None THEN p ELSE [p EXCEPT !.trust = "unverified", !.sas = sas]

(* wtSessionActive becomes true: connecting becomes connected.  Without    *)
(* anybody pending there is no peer.                                       *)
OnWtActive(sas) ==
    /\ Input /\ ~wt
    /\ wt' = TRUE
    /\ IF phase = "connecting"
         THEN /\ phase' = "connected"
              /\ peer' = WithCode(Resolved(None), sas)
              /\ pendingAccept' = NoPeer
              /\ pendingInitiator' = IF pendingAccept # NoPeer THEN pendingInitiator ELSE None
              /\ latest' = peer'.sas
         ELSE UNCHANGED <<phase, peer, pendingAccept, pendingInitiator, latest>>
    /\ UNCHANGED <<pendingRequest, pinning, bridge, incoming, declined>>

(* wtSessionSAS changes. *)
OnWtCode(sas) ==
    /\ Input /\ wt /\ phase = "connected"
    /\ peer' = WithCode(peer, sas)
    /\ latest' = sas
    /\ UNCHANGED <<phase, pendingRequest, pendingAccept, pendingInitiator, pinning, bridge,
                   incoming, declined, wt>>

(* wtSessionActive becomes false. *)
OnWtInactive ==
    /\ wt
    /\ wt' = FALSE
    /\ IF phase = "connected" THEN DisconnectSession ELSE UNCHANGED <<session, latest>>
    /\ UNCHANGED <<pinning, bridge, incoming, declined, inputs>>

----------------------------------------------------------------------------
User ==
    \/ \E n \in Names : Request(n)
    \/ Cancel \/ AcceptIncoming \/ DeclineIncoming
    \/ \E allow \in BOOLEAN : DecidePairing(allow)
    \/ Approve \/ Disconnect \/ Dismiss \/ Restart

Signals ==
    \/ \E n \in Names : OnConnectionRequest(n)
    \/ OnConnectionAccepted \/ OnConnectionDeclined \/ DeclinedObserved

Daemon ==
    \/ StartIpc
    \/ \E n \in Names, sas \in Codes \union {None} : OnPairingRequest(n, sas)
    \/ \E key \in Keys \union {None} : OnSessionConnected(key)
    \/ \E key \in Keys \union {None}, sas \in Codes : OnSessionSas(sas, key)
    \/ \E key \in Keys : OnSessionSasUnseen(key)
    \/ OnSessionEnded \/ OnStatusNoPeers \/ OnBridgeDisconnected

WebTransport ==
    \/ \E sas \in Codes \union {None} : OnWtActive(sas)
    \/ \E sas \in Codes : OnWtCode(sas)
    \/ OnWtInactive

Next == User \/ Signals \/ Daemon \/ WebTransport

Spec == Init /\ [][Next]_vars

----------------------------------------------------------------------------
(* Type invariant; in particular a peer is shown only while connected,     *)
(* which resetSession and disconnectSession have to see to from every      *)
(* phase.                                                                  *)
TypeOK ==
    /\ phase \in {"idle", "requesting", "incomingRequest", "connecting", "connected",
                  "disconnected"}
    /\ peer \in Peers \union {NoPeer}
    /\ peer # NoPeer => phase = "connected"
    /\ pendingAccept \in Peers \union {NoPeer}
    /\ pendingRequest \in [name : Names, sas : Codes \union {None}] \union {None}
    /\ pendingInitiator \in Names \union {None} /\ incoming \in Names \union {None}
    /\ DOMAIN pins \subseteq Keys
    /\ \A k \in DOMAIN pins : pins[k] \in DeviceNames \union {None}
    /\ bridge \in BOOLEAN /\ declined \in BOOLEAN /\ wt \in BOOLEAN
    /\ inputs \in 0..MaxInputs
    /\ latest \in Codes \union {None}
    /\ run \in Nat
    /\ pinned \subseteq [name : DeviceNames \union {None}, key : Keys, run : 0..run]

(* The session phases implement the canonical contract: whatever late      *)
(* answers, declines and daemon events come in, no phase is entered but by *)
(* a legal transition; the presentation-only disconnected counts as idle.  *)
Contract == INSTANCE SessionContract
              WITH phase <- IF phase = "disconnected" THEN "idle" ELSE phase
ImplementsSessionContract == Contract!Spec

(* "the SAS must be reviewed again next session" (markVerified): a session *)
(* is approved only as long as the last code the daemon gave for it is the *)
(* one the user approved; a new code, over IPC or WebTransport, takes the  *)
(* approval back.                                                          *)
VerifiedMeansLatestCode == peer.trust = "verified" => peer.sas = latest

(* "TOFU key-continuity / mismatch detection" within one run of the app    *)
(* (PinStore.checkMismatch before PinStore.pin): a device name that was    *)
(* ever pinned with two keys was pinned with them in different runs,       *)
(* whatever sessions of whatever peers came in between.                    *)
SecondKeyNeedsRestart ==
    \A p, q \in pinned : p.name = q.name /\ p.name # None /\ p.key # q.key => p.run # q.run

(* "Persists peer identity keys to disk (JSON) for TOFU key-continuity /   *)
(* mismatch detection" (PinStore): no device name is ever pinned with two  *)
(* keys, over restarts of the app too.                                     *)
KeyContinuity ==
    \A p, q \in pinned : p.name = q.name /\ p.name # None => p.key = q.key

=============================================================================
