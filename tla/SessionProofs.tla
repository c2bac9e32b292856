--------------------------- MODULE SessionProofs ----------------------------
(***************************************************************************)
(* Proofs about Session, for any devices, keys and codes and any number of *)
(* inputs.                                                                 *)
(***************************************************************************)
EXTENDS Session, TLAPS

(* What Approve relies on: a code that is up for review is the last one    *)
(* the daemon gave.  VerifiedMeansLatestCode alone is not inductive.       *)
ReviewedCode == peer.trust \in {"unverified", "verified"} => peer.sas = latest

(* What PinStore.checkMismatch relies on: what this run of the app pinned  *)
(* is in the pins still.                                                   *)
PinsOfThisRun ==
    \A p \in pinned : p.run = run => p.key \in DOMAIN pins /\ pins[p.key] = p.name

IInv == TypeOK /\ ReviewedCode /\ PinsOfThisRun /\ SecondKeyNeedsRestart

----------------------------------------------------------------------------
(* Operators *)

(* NoPeer is told from every peer by its trust. *)
LEMMA NoPeerIsNoPeer == NoPeer \notin Peers /\ NoPeer.trust = "none" /\ NoPeer.sas = None
  BY DEF NoPeer, Peers, Trusts

(* The peer of a new session is one, if there is any. *)
LEMMA ResolvedType ==
  ASSUME TypeOK, NEW key \in Keys \union {None}
  PROVE  Resolved(key) \in Peers \union {NoPeer}
<1>1. CASE pendingAccept # NoPeer
  <2>1. pendingAccept \in Peers
    BY <1>1 DEF TypeOK
  <2>2. QED
    BY <1>1, <2>1 DEF Resolved, Peers
<1>2. CASE pendingAccept = NoPeer /\ pendingInitiator = None /\ key = None
  BY <1>2 DEF Resolved, TypeOK
<1>3. CASE pendingAccept = NoPeer /\ ~(pendingInitiator = None /\ key = None)
  BY <1>3 DEF Resolved, Peers, TypeOK, DeviceNames, Trusts
<1>4. QED
  BY <1>1, <1>2, <1>3

(* A code for review leaves a peer a peer, and nobody nobody. *)
LEMMA WithCodeType ==
  ASSUME NEW STATE p, p \in Peers \union {NoPeer}, NEW sas \in Codes \union {None}
  PROVE  /\ p \in Peers => WithCode(p, sas) \in Peers
         /\ p = NoPeer => WithCode(p, sas) = NoPeer
         /\ p # NoPeer /\ sas # None => WithCode(p, sas).trust = "unverified"
                                        /\ WithCode(p, sas).sas = sas
  BY NoPeerIsNoPeer DEF WithCode, Peers, Trusts

----------------------------------------------------------------------------
(* Type correctness *)

SessionType ==
    /\ phase \in {"idle", "requesting", "incomingRequest", "connecting", "connected",
                  "disconnected"}
    /\ peer \in Peers \union {NoPeer}
    /\ peer # NoPeer => phase = "connected"
PendingType ==
    /\ pendingAccept \in Peers \union {NoPeer}
    /\ pendingRequest \in [name : Names, sas : Codes \union {None}] \union {None}
    /\ pendingInitiator \in Names \union {None}
PinsType ==
    /\ DOMAIN pins \subseteq Keys
    /\ \A k \in DOMAIN pins : pins[k] \in DeviceNames \union {None}
    /\ run \in Nat
    /\ pinned \subseteq [name : DeviceNames \union {None}, key : Keys, run : 0..run]
OutsideType ==
    /\ incoming \in Names \union {None}
    /\ bridge \in BOOLEAN /\ declined \in BOOLEAN /\ wt \in BOOLEAN
    /\ inputs \in 0..MaxInputs

(* TypeOK, by the part of the state it is about. *)
LEMMA TypeParts ==
  TypeOK <=> /\ SessionType /\ PendingType /\ PinsType /\ OutsideType
             /\ latest \in Codes \union {None}
  BY DEF TypeOK, SessionType, PendingType, PinsType, OutsideType

(* PinStore.pin: the pins stay a map from keys to names. *)
LEMMA PinType ==
  ASSUME PinsType, NEW key \in Keys, NEW STATE name, name \in DeviceNames \union {None},
         Pin(key, name)
  PROVE  PinsType'
<1>1. CASE key \in DOMAIN pins
  BY <1>1 DEF Pin, pinning, PinsType
<1>2. CASE key \notin DOMAIN pins
  <2>1. [name |-> name, key |-> key, run |-> run]
           \in [name : DeviceNames \union {None}, key : Keys, run : 0..run]
    BY DEF PinsType
  <2>2. run' = run /\ pinned' \subseteq [name : DeviceNames \union {None}, key : Keys, run : 0..run]
    BY <1>2, <2>1 DEF Pin, PinsType
  <2>3. DOMAIN pins' = DOMAIN pins \union {key}
        /\ \A k \in DOMAIN pins' : pins'[k] = IF k = key THEN name ELSE pins[k]
    BY <1>2 DEF Pin
  <2>4. QED
    BY <2>2, <2>3 DEF PinsType
<1>3. QED
  BY <1>1, <1>2

(* A step of the user's keeps the types. *)
LEMMA UserType ==
  ASSUME TypeOK, User
  PROVE  TypeOK'
<1>0. SessionType /\ PendingType /\ PinsType /\ OutsideType /\ latest \in Codes \union {None}
  BY TypeParts
<1> USE DEF SessionType, PendingType, PinsType, OutsideType, ClearSession, ResetSession,
            DisconnectSession, pinning, outside
<1>1. CASE (\E n \in Names : Request(n)) \/ Cancel \/ DeclineIncoming
  BY <1>0, <1>1 DEF TypeOK, Request, Cancel, DeclineIncoming, CanStartFresh
<1>2. CASE AcceptIncoming
  <2>1. pendingAccept' \in Peers
    BY <1>0, <1>2 DEF AcceptIncoming, Peers, DeviceNames, Trusts
  <2>2. QED
    BY <1>0, <1>2, <2>1 DEF TypeOK, AcceptIncoming
<1>3. ASSUME NEW allow \in BOOLEAN, DecidePairing(allow) PROVE TypeOK'
  <2>1. pendingRequest \in [name : Names, sas : Codes \union {None}]
    BY <1>0, <1>3 DEF DecidePairing
  <2>2. pendingAccept' \in Peers \union {NoPeer}
    BY <1>0, <1>3, <2>1 DEF DecidePairing, Peers, DeviceNames, Trusts
  <2>3. QED
    BY <1>0, <1>3, <2>2 DEF TypeOK, DecidePairing
<1>4. CASE Approve
  <2>1. peer \in Peers
    BY <1>0, <1>4, NoPeerIsNoPeer DEF Approve
  <2>2. peer' \in Peers
    BY <1>4, <2>1 DEF Approve, Peers, Trusts
  <2>3. QED
    BY <1>0, <1>4, <2>1, <2>2, NoPeerIsNoPeer DEF TypeOK, Approve
<1>5. CASE Disconnect \/ Dismiss
  BY <1>0, <1>5 DEF TypeOK, Disconnect, Dismiss
<1>6. CASE Restart
  <2>1. inputs' \in 0..MaxInputs
    BY <1>0, <1>6, MaxInputsNat DEF Restart, Input
  <2>2. SessionType' /\ PendingType' /\ latest' \in Codes \union {None}
    BY <1>0, <1>6 DEF Restart
  <2>3. PinsType'
    <3>1. run' \in Nat /\ 0..run \subseteq 0..run'
      BY <1>0, <1>6 DEF Restart
    <3>2. QED
      BY <1>0, <1>6, <3>1 DEF Restart
  <2>4. OutsideType'
    BY <1>6, <2>1 DEF Restart
  <2>5. QED
    BY <2>2, <2>3, <2>4 DEF TypeOK
<1>7. QED
  BY <1>1, <1>2, <1>3, <1>4, <1>5, <1>6 DEF User

(* A signal of a remote device keeps the types. *)
LEMMA SignalsType ==
  ASSUME TypeOK, Signals
  PROVE  TypeOK'
<1>0. SessionType /\ PendingType /\ PinsType /\ OutsideType /\ latest \in Codes \union {None}
  BY TypeParts
<1> USE DEF SessionType, PendingType, PinsType, OutsideType, ClearSession, ResetSession,
            session, pinning, Input
<1>1. CASE \E n \in Names : OnConnectionRequest(n)
  BY <1>0, <1>1, MaxInputsNat DEF TypeOK, OnConnectionRequest, CanStartFresh
<1>2. CASE OnConnectionAccepted
  BY <1>0, <1>2, MaxInputsNat DEF TypeOK, OnConnectionAccepted, CanBeginConnecting
<1>3. CASE OnConnectionDeclined
  BY <1>0, <1>3, MaxInputsNat DEF TypeOK, OnConnectionDeclined
<1>4. CASE DeclinedObserved
  BY <1>0, <1>4 DEF TypeOK, DeclinedObserved
<1>5. QED
  BY <1>1, <1>2, <1>3, <1>4 DEF Signals

(* An event of the daemon keeps the types. *)
LEMMA DaemonType ==
  ASSUME TypeOK, Daemon
  PROVE  TypeOK'
<1>0. SessionType /\ PendingType /\ PinsType /\ OutsideType /\ latest \in Codes \union {None}
  BY TypeParts
<1>a. \A p \in Peers : p.sas \in Codes \union {None} /\ p.name \in DeviceNames
  BY DEF Peers
<1> USE DEF SessionType, PendingType, PinsType, OutsideType, ClearSession, ResetSession,
            DisconnectSession, session, pinning, Input, Event
<1>1. CASE StartIpc
  BY <1>0, <1>1 DEF TypeOK, StartIpc
<1>2. ASSUME NEW n \in Names, NEW sas \in Codes \union {None}, OnPairingRequest(n, sas)
      PROVE  TypeOK'
  <2>1. pendingRequest' \in [name : Names, sas : Codes \union {None}]
    BY <1>2 DEF OnPairingRequest
  <2>2. QED
    BY <1>0, <1>2, <2>1, MaxInputsNat DEF TypeOK, OnPairingRequest
<1>3. ASSUME NEW key \in Keys \union {None}, OnSessionConnected(key) PROVE TypeOK'
  <2>1. peer' \in Peers \union {NoPeer} /\ latest' \in Codes \union {None}
    BY <1>3, <1>a, ResolvedType, NoPeerIsNoPeer DEF OnSessionConnected
  <2>2. QED
    BY <1>0, <1>3, <2>1, MaxInputsNat DEF TypeOK, OnSessionConnected
<1>4. ASSUME NEW key \in Keys, OnSessionSasUnseen(key) PROVE TypeOK'
  <2>1. PinsType'
    BY <1>0, <1>4, PinType DEF OnSessionSasUnseen
  <2>2. QED
    BY <1>0, <1>4, <2>1, MaxInputsNat DEF TypeOK, OnSessionSasUnseen
<1>5. ASSUME NEW key \in Keys \union {None}, NEW sas \in Codes, OnSessionSas(sas, key)
      PROVE  TypeOK'
  <2>1. peer \in Peers /\ phase = "connected" /\ KeyOr(key) \in Keys \union {None}
    BY <1>0, <1>5 DEF OnSessionSas, KeyOr, Peers
  <2>2. peer' \in Peers
    BY <1>5, <2>1 DEF OnSessionSas, Peers, Trusts
  <2>3. PinsType'
    <3>1. CASE UNCHANGED pinning
      BY <1>0, <3>1
    <3>2. CASE KeyOr(key) # None /\ Pin(KeyOr(key), peer.name)
      BY <1>0, <1>a, <2>1, <3>2, PinType
    <3>3. QED
      BY <1>5, <3>1, <3>2 DEF OnSessionSas
  <2>4. QED
    BY <1>0, <1>5, <2>1, <2>2, <2>3, MaxInputsNat DEF TypeOK, OnSessionSas
<1>6. CASE OnSessionEnded \/ OnStatusNoPeers
  BY <1>0, <1>6, MaxInputsNat DEF TypeOK, OnSessionEnded, OnStatusNoPeers
<1>7. CASE OnBridgeDisconnected
  <2>1. inputs' \in 0..MaxInputs
    BY <1>0, <1>7, MaxInputsNat DEF OnBridgeDisconnected
  <2>2. SessionType' /\ PendingType' /\ PinsType' /\ latest' \in Codes \union {None}
    BY <1>0, <1>7 DEF OnBridgeDisconnected
  <2>3. OutsideType'
    BY <1>0, <1>7, <2>1 DEF OnBridgeDisconnected
  <2>4. QED
    BY <2>2, <2>3 DEF TypeOK
<1>8. QED
  BY <1>1, <1>2, <1>3, <1>4, <1>5, <1>6, <1>7 DEF Daemon

(* A change of the WebTransport session keeps the types. *)
LEMMA WebTransportType ==
  ASSUME TypeOK, WebTransport
  PROVE  TypeOK'
<1>0. SessionType /\ PendingType /\ PinsType /\ OutsideType /\ latest \in Codes \union {None}
  BY TypeParts
<1>a. \A p \in Peers \union {NoPeer} : p.sas \in Codes \union {None}
  BY NoPeerIsNoPeer DEF Peers
<1> USE DEF SessionType, PendingType, PinsType, OutsideType, ClearSession,
            DisconnectSession, session, pinning, Input
<1>1. ASSUME NEW sas \in Codes \union {None}, OnWtActive(sas) PROVE TypeOK'
  <2>1. WithCode(Resolved(None), sas) \in Peers \union {NoPeer}
    BY ResolvedType, WithCodeType
  <2>2. peer' \in Peers \union {NoPeer} /\ latest' \in Codes \union {None}
    BY <1>0, <1>1, <1>a, <2>1 DEF OnWtActive
  <2>3. QED
    BY <1>0, <1>1, <2>2, MaxInputsNat DEF TypeOK, OnWtActive
<1>2. ASSUME NEW sas \in Codes, OnWtCode(sas) PROVE TypeOK'
  <2>1. peer' \in Peers \union {NoPeer}
    BY <1>0, <1>2, WithCodeType DEF OnWtCode
  <2>2. QED
    BY <1>0, <1>2, <2>1, MaxInputsNat DEF TypeOK, OnWtCode
<1>3. CASE OnWtInactive
  BY <1>0, <1>3 DEF TypeOK, OnWtInactive
<1>4. QED
  BY <1>1, <1>2, <1>3 DEF WebTransport

(* TypeOK is inductive. *)
LEMMA TypeStep == ASSUME TypeOK, [Next]_vars PROVE TypeOK'
<1>1. CASE Next
  BY <1>1, UserType, SignalsType, DaemonType, WebTransportType DEF Next
<1>2. CASE UNCHANGED vars
  BY <1>2 DEF vars, session, pinning, outside, TypeOK
<1>3. QED
  BY <1>1, <1>2

----------------------------------------------------------------------------
(* Verification codes *)

(* The peer and its code are left alone, or the session is over. *)
SameCode == UNCHANGED <<peer, latest>>
NoSession == peer' = NoPeer

(* Neither can put an old code up for review. *)
LEMMA CodeKept == ASSUME ReviewedCode, SameCode \/ NoSession PROVE ReviewedCode'
  BY NoPeerIsNoPeer DEF ReviewedCode, SameCode, NoSession

(* Every step keeps the code under review the latest one: a new code comes *)
(* with a new review, and an approval changes the trust alone.             *)
LEMMA ReviewedStep == ASSUME TypeOK, ReviewedCode, [Next]_vars PROVE ReviewedCode'
<1> USE DEF SameCode, NoSession, ClearSession, ResetSession, DisconnectSession, session, outside
<1>1. CASE User
  <2>1. CASE (\E n \in Names : Request(n)) \/ Cancel \/ AcceptIncoming \/ DeclineIncoming
    BY <2>1, CodeKept DEF Request, Cancel, AcceptIncoming, DeclineIncoming
  <2>2. CASE \E allow \in BOOLEAN : DecidePairing(allow)
    BY <2>2, CodeKept DEF DecidePairing
  <2>3. CASE Approve
    <3>1. peer \in Peers
      BY <2>3, NoPeerIsNoPeer DEF Approve, TypeOK
    <3>2. peer'.sas = peer.sas /\ latest' = latest
      BY <2>3, <3>1 DEF Approve, Peers
    <3>3. QED
      BY <2>3, <3>2 DEF Approve, ReviewedCode
  <2>4. CASE Disconnect \/ Dismiss \/ Restart
    BY <2>4, CodeKept DEF Disconnect, Dismiss, Restart
  <2>5. QED
    BY <1>1, <2>1, <2>2, <2>3, <2>4 DEF User
<1>2. CASE Signals
  <2>1. CASE \E n \in Names : OnConnectionRequest(n)
    BY <2>1, CodeKept DEF OnConnectionRequest
  <2>2. CASE OnConnectionAccepted \/ OnConnectionDeclined \/ DeclinedObserved
    BY <2>2, CodeKept DEF OnConnectionAccepted, OnConnectionDeclined, DeclinedObserved
  <2>3. QED
    BY <1>2, <2>1, <2>2 DEF Signals
<1>3. CASE Daemon
  <2>1. CASE StartIpc \/ (\E n \in Names, sas \in Codes \union {None} : OnPairingRequest(n, sas))
    BY <2>1, CodeKept DEF StartIpc, OnPairingRequest
  <2>2. CASE \E key \in Keys \union {None} : OnSessionConnected(key)
    BY <2>2 DEF OnSessionConnected, ReviewedCode
  <2>3. CASE \E key \in Keys : OnSessionSasUnseen(key)
    BY <2>3, CodeKept DEF OnSessionSasUnseen
  <2>4. ASSUME NEW key \in Keys \union {None}, NEW sas \in Codes, OnSessionSas(sas, key)
        PROVE  ReviewedCode'
    <3>1. peer \in Peers
      BY <2>4 DEF OnSessionSas, TypeOK
    <3>2. peer'.trust = "mismatch" \/ (peer'.sas = sas /\ latest' = sas)
      BY <2>4, <3>1 DEF OnSessionSas, Peers
    <3>3. QED
      BY <3>2 DEF ReviewedCode
  <2>5. CASE OnSessionEnded \/ OnStatusNoPeers \/ OnBridgeDisconnected
    BY <2>5, CodeKept DEF OnSessionEnded, OnStatusNoPeers, OnBridgeDisconnected
  <2>6. QED
    BY <1>3, <2>1, <2>2, <2>3, <2>4, <2>5 DEF Daemon
<1>4. CASE WebTransport
  <2>1. ASSUME NEW sas \in Codes \union {None}, OnWtActive(sas) PROVE ReviewedCode'
    <3>1. CASE phase = "connecting"
      BY <2>1, <3>1 DEF OnWtActive, ReviewedCode
    <3>2. CASE phase # "connecting"
      BY <2>1, <3>2, CodeKept DEF OnWtActive
    <3>3. QED
      BY <3>1, <3>2
  <2>2. ASSUME NEW sas \in Codes, OnWtCode(sas) PROVE ReviewedCode'
    <3>0. sas # None
      BY NoneIsNothing
    <3>1. CASE peer = NoPeer
      BY <2>2, <3>1, CodeKept, WithCodeType DEF OnWtCode
    <3>2. CASE peer # NoPeer
      BY <2>2, <3>0, <3>2, WithCodeType DEF OnWtCode, ReviewedCode, TypeOK
    <3>3. QED
      BY <3>1, <3>2
  <2>3. CASE OnWtInactive
    BY <2>3, CodeKept DEF OnWtInactive
  <2>4. QED
    BY <1>4, <2>1, <2>2, <2>3 DEF WebTransport
<1>5. CASE UNCHANGED vars
  BY <1>5, CodeKept DEF vars
<1>6. QED
  BY <1>1, <1>2, <1>3, <1>4, <1>5 DEF Next

----------------------------------------------------------------------------
(* Key continuity *)

(* A key may be pinned under a name when no other key has that name. *)
LEMMA PinKeepsKeys ==
  ASSUME PinsOfThisRun, SecondKeyNeedsRestart, NEW key, NEW STATE name,
         name = None \/ ~Mismatch(key, name), Pin(key, name)
  PROVE  PinsOfThisRun' /\ SecondKeyNeedsRestart'
<1>1. CASE key \in DOMAIN pins
  BY <1>1 DEF Pin, pinning, PinsOfThisRun, SecondKeyNeedsRestart
<1>2. CASE key \notin DOMAIN pins
  <2> DEFINE new == [name |-> name, key |-> key, run |-> run]
  <2>1. /\ run' = run /\ pinned' = pinned \union {new}
        /\ DOMAIN pins' = DOMAIN pins \union {key}
        /\ pins'[key] = name /\ \A k \in DOMAIN pins : pins'[k] = pins[k]
    BY <1>2 DEF Pin
  <2>2. new.name = name /\ new.key = key /\ new.run = run
    OBVIOUS
  <2> HIDE DEF new
  <2>3. PinsOfThisRun'
    BY <2>1, <2>2 DEF PinsOfThisRun
  <2>4. ASSUME NEW p \in pinned, p.name = name, name # None, p.key # key PROVE p.run # run
    BY <2>4 DEF PinsOfThisRun, Mismatch
  <2>5. SecondKeyNeedsRestart'
    BY <2>1, <2>2, <2>4 DEF SecondKeyNeedsRestart
  <2>6. QED
    BY <2>3, <2>5
<1>3. QED
  BY <1>1, <1>2

(* Every step keeps the names of a run apart: a restart begins a new run,  *)
(* in which nothing is pinned yet.                                         *)
LEMMA KeyStep ==
  ASSUME TypeOK, PinsOfThisRun, SecondKeyNeedsRestart, [Next]_vars
  PROVE  PinsOfThisRun' /\ SecondKeyNeedsRestart'
<1>0. ASSUME UNCHANGED pinning PROVE PinsOfThisRun' /\ SecondKeyNeedsRestart'
  BY <1>0 DEF pinning, PinsOfThisRun, SecondKeyNeedsRestart
<1> USE DEF session, outside
<1>1. CASE User
  <2>1. CASE Restart
    <3>1. \A p \in pinned : p.run # run + 1
      BY DEF TypeOK
    <3>2. QED
      BY <2>1, <3>1 DEF Restart, PinsOfThisRun, SecondKeyNeedsRestart
  <2>2. CASE ~Restart
    BY <1>0, <1>1, <2>2 DEF User, Request, Cancel, AcceptIncoming, DeclineIncoming,
                            DecidePairing, Approve, Disconnect, Dismiss
  <2>3. QED
    BY <2>1, <2>2
<1>2. CASE Signals \/ WebTransport
  BY <1>0, <1>2 DEF Signals, OnConnectionRequest, OnConnectionAccepted, OnConnectionDeclined,
                    DeclinedObserved, WebTransport, OnWtActive, OnWtCode, OnWtInactive
<1>3. CASE Daemon
  <2>1. CASE \E key \in Keys : OnSessionSasUnseen(key)
    BY <2>1, PinKeepsKeys DEF OnSessionSasUnseen
  <2>2. ASSUME NEW key \in Keys \union {None}, NEW sas \in Codes, OnSessionSas(sas, key)
        PROVE  PinsOfThisRun' /\ SecondKeyNeedsRestart'
    <3>1. \/ UNCHANGED pinning
          \/ ~Mismatch(KeyOr(key), peer.name) /\ Pin(KeyOr(key), peer.name)
      BY <2>2, Zenon DEF OnSessionSas
    <3>2. QED
      BY <1>0, <3>1, PinKeepsKeys
  <2>3. CASE OnSessionEnded \/ OnStatusNoPeers \/ OnBridgeDisconnected \/ StartIpc
    BY <1>0, <2>3 DEF OnSessionEnded, OnStatusNoPeers, OnBridgeDisconnected, StartIpc
  <2>4. CASE \/ \E n \in Names, sas \in Codes \union {None} : OnPairingRequest(n, sas)
             \/ \E key \in Keys \union {None} : OnSessionConnected(key)
    BY <1>0, <2>4 DEF OnPairingRequest, OnSessionConnected
  <2>5. QED
    BY <1>3, <2>1, <2>2, <2>3, <2>4 DEF Daemon
<1>4. CASE UNCHANGED vars
  BY <1>0, <1>4 DEF vars
<1>5. QED
  BY <1>1, <1>2, <1>3, <1>4 DEF Next

----------------------------------------------------------------------------
(* Theorems *)

(* The invariant holds throughout. *)
LEMMA SpecIInv == Spec => []IInv
<1>1. Init => IInv
  <2> SUFFICES ASSUME Init PROVE IInv
    OBVIOUS
  <2>1. TypeOK
    <3>1. inputs \in 0..MaxInputs
      BY MaxInputsNat DEF Init
    <3>2. SessionType /\ PendingType /\ latest \in Codes \union {None}
      BY DEF Init, SessionType, PendingType
    <3>3. PinsType
      BY DEF Init, PinsType
    <3>4. OutsideType
      BY <3>1 DEF Init, OutsideType
    <3>5. QED
      BY <3>2, <3>3, <3>4, TypeParts
  <2>2. ReviewedCode
    BY NoPeerIsNoPeer DEF Init, ReviewedCode
  <2>3. PinsOfThisRun /\ SecondKeyNeedsRestart
    BY DEF Init, PinsOfThisRun, SecondKeyNeedsRestart
  <2>4. QED
    BY <2>1, <2>2, <2>3 DEF IInv
<1>2. IInv /\ [Next]_vars => IInv'
  BY TypeStep, ReviewedStep, KeyStep DEF IInv
<1>3. QED
  BY <1>1, <1>2, PTL DEF Spec

(* The state of IpcManager, PinStore and the signal handlers stays well    *)
(* typed, and a peer is shown in the connected phase only.                 *)
THEOREM TypeCorrect == Spec => []TypeOK
<1>1. IInv => TypeOK
  BY DEF IInv
<1>2. QED
  BY <1>1, SpecIInv, PTL

(* No approval outlives the code the user approved (markVerified), however *)
(* the daemon's codes over IPC and WebTransport are interleaved.           *)
THEOREM ApprovalHoldsForOneCode == Spec => []VerifiedMeansLatestCode
<1>1. IInv => VerifiedMeansLatestCode
  BY DEF IInv, ReviewedCode, VerifiedMeansLatestCode
<1>2. QED
  BY <1>1, SpecIInv, PTL

(* Whatever sessions and restarts there were, two keys of one device name  *)
(* were never pinned in one run of the app: a second key of a name is      *)
(* pinned only once the app was restarted, which forgets the pins.         *)
THEOREM NamesKeepTheirKeysInARun == Spec => []SecondKeyNeedsRestart
<1>1. IInv => SecondKeyNeedsRestart
  BY DEF IInv
<1>2. QED
  BY <1>1, SpecIInv, PTL

----------------------------------------------------------------------------
(* Refinement *)

(* The phase the contract sees. *)
Seen == IF phase = "disconnected" THEN "idle" ELSE phase

(* What the contract calls a step, a reset or a stutter, in terms of the   *)
(* app's phase.                                                            *)
LEMMA ContractStep ==
  ASSUME TypeOK,
         \/ phase' \in {"idle", "disconnected"}
         \/ phase' = phase
         \/ phase \in {"idle", "disconnected"} /\ phase' \in {"requesting", "incomingRequest"}
         \/ phase \in {"requesting", "incomingRequest"} /\ phase' \in {"connecting", "connected"}
         \/ phase = "connecting" /\ phase' = "connected"
  PROVE  [Contract!Next]_Seen
  BY DEF TypeOK, Seen, Contract!Next, Contract!Step, Contract!ThroughConnecting,
         Contract!LegalTransitions, Contract!Phases, Contract!Reset

(* The app keeps to the canonical session contract: every click, signal    *)
(* and event is a legal transition of it, two at once, or none.            *)
THEOREM SessionImplementsContract == Spec => ImplementsSessionContract
<1>1. Init => Contract!Init
  BY DEF Init, Contract!Init
<1>2. ASSUME TypeOK, [Next]_vars PROVE [Contract!Next]_Seen
  <2> USE DEF ClearSession, ResetSession, DisconnectSession, session, outside
  <2>1. CASE User
    BY <1>2, <2>1, ContractStep
       DEF User, Request, Cancel, AcceptIncoming, DeclineIncoming, DecidePairing, Approve,
           Disconnect, Dismiss, Restart, CanStartFresh
  <2>2. CASE Signals
    BY <1>2, <2>2, ContractStep
       DEF Signals, OnConnectionRequest, OnConnectionAccepted, OnConnectionDeclined,
           DeclinedObserved, CanStartFresh, CanBeginConnecting
  <2>3. CASE Daemon
    BY <1>2, <2>3, ContractStep
       DEF Daemon, StartIpc, OnPairingRequest, OnSessionConnected, OnSessionSasUnseen,
           OnSessionSas, OnSessionEnded, OnStatusNoPeers, OnBridgeDisconnected,
           CanBeginConnecting
  <2>4. CASE WebTransport
    BY <1>2, <2>4, ContractStep DEF WebTransport, OnWtActive, OnWtCode, OnWtInactive
  <2>5. CASE UNCHANGED vars
    BY <1>2, <2>5, ContractStep DEF vars
  <2>6. QED
    BY <1>2, <2>1, <2>2, <2>3, <2>4, <2>5 DEF Next
<1>3. QED
  BY <1>1, <1>2, TypeCorrect, PTL DEF Spec, ImplementsSessionContract, Contract!Spec, Seen

=============================================================================
