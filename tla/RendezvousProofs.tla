-------------------------- MODULE RendezvousProofs --------------------------
(***************************************************************************)
(* Proofs about Rendezvous, for every number of connections, codes and     *)
(* addresses and every limit.                                              *)
(***************************************************************************)
EXTENDS Rendezvous, FiniteSetTheorems, TLAPS

(* Handlers that are past add_peer. *)
Registered == InSession \cup {"dropping", "closing"}

(* A handler has a room key after the handshake and a code once registered. *)
Known ==
    \A c \in Conns :
        /\ pc[c] \notin Finished \cup {"handshake"} => ip[c] \in RoomKeys
        /\ pc[c] \in Entering \cup Registered => code[c] \in Codes

USE DEF Phases, Finished, Entering, InSession, Registered

----------------------------------------------------------------------------
(* Messages and channels *)

(* The constructors build members of ServerMessage. *)
LEMMA MessageTypes ==
  /\ ErrorMsg \in ServerMessage
  /\ \A k \in Codes : PeerJoinedMsg(k) \in ServerMessage
  /\ \A k \in Codes : PeerLeftMsg(k) \in ServerMessage
  /\ \A k \in Codes : SignalMsg(k) \in ServerMessage
  /\ \A S \in SUBSET Codes : PeersMsg(S) \in ServerMessage
  BY DEF ErrorMsg, PeerJoinedMsg, PeerLeftMsg, SignalMsg, PeersMsg, ServerMessage

(* A send leaves every queue a sequence of messages. *)
LEMMA SentType ==
  ASSUME TypeOK, NEW STATE S, NEW STATE m, m \in ServerMessage
  PROVE  Sent(S, m) \in [Conns -> Seq(ServerMessage)]
  BY DEF TypeOK, Sent

(* What a client keeps of a message is a set of codes. *)
LEMMA MergedType ==
  ASSUME NEW STATE c, NEW STATE list, list \in SUBSET Codes,
         NEW STATE m, m \in ServerMessage
  PROVE  Merged(c, list, m) \in SUBSET Codes
  BY DEF Merged, ServerMessage

----------------------------------------------------------------------------
(* Type correctness, but for the slot counter *)

ChanType ==
    /\ open \subseteq Conns
    /\ queue \in [Conns -> Seq(ServerMessage)]
    /\ roster \in [Conns -> SUBSET Codes]
IdentType ==
    /\ pc \in [Conns -> Phases]
    /\ ip \in [Conns -> RoomKeys \cup {NoAddr}]
    /\ code \in [Conns -> Codes \cup {NoCode}]
    /\ session \in [Conns -> Nat]
    /\ nextSession \in Nat \ {0}
RoomType ==
    /\ roomKeys \subseteq RoomKeys
    /\ rooms \in [RoomKeys -> SUBSET Conns]
    /\ snapshot \in [Conns -> SUBSET Codes]
RelayType ==
    /\ to \in [Conns -> Codes \cup {NoCode}]
    /\ unscanned \in [Conns -> SUBSET RoomKeys]
    /\ target \in [Conns -> Conns \cup {NoConn}]

(* TypeOK, by the component that owns the variables. *)
LEMMA TypeParts ==
  TypeOK <=> active \in Nat /\ ChanType /\ IdentType /\ RoomType /\ RelayType
  BY DEF TypeOK, ChanType, IdentType, RoomType, RelayType

(* The room key a handshake computes. *)
LEMMA ClientIpType ==
  ASSUME NEW addr \in Addrs, NEW fly \in Addrs \cup {NoAddr}, NEW xff \in Addrs \cup {NoAddr}
  PROVE  ClientIp(addr, ForwardedFor(fly, xff)) \in RoomKeys
  BY AddrKinds, NoneAreNone DEF ClientIp, ForwardedFor, RoomKeys

(* Every step keeps the types of what handle_connection knows of a client. *)
LEMMA IdentStep ==
  ASSUME TypeOK, NEW c \in Conns, Client(c) \/ Handler(c) \/ Deliver(c)
  PROVE  IdentType'
<1>0. IdentType
  BY TypeParts
<1> USE DEF IdentType, Goto, ReturnReleasing, HandlerReturns, Refuse, identVars
<1>1. CASE Accept(c)
  BY <1>0, <1>1 DEF Accept
<1>2. CASE Handshake(c)
  <2>1. PICK addr \in Addrs, fly \in Addrs \cup {NoAddr}, xff \in Addrs \cup {NoAddr} :
          ip' = [ip EXCEPT ![c] = ClientIp(addr, ForwardedFor(fly, xff))]
    BY <1>2 DEF Handshake
  <2>2. ip' \in [Conns -> RoomKeys \cup {NoAddr}]
    BY <1>0, <2>1, ClientIpType
  <2>3. QED
    BY <1>0, <1>2, <2>2 DEF Handshake
<1>3. CASE HandshakeFails(c) \/ RejectInput(c) \/ AbandonRegistration(c)
  BY <1>0, <1>3 DEF HandshakeFails, RejectInput, AbandonRegistration
<1>4. CASE Register(c) \/ RegisterInvalidCode(c)
  BY <1>0, <1>4 DEF Register, RegisterInvalidCode
<1>5. CASE Signal(c) \/ ManualSignal(c) \/ Leave(c) \/ WriteTaskFails(c)
  BY <1>0, <1>5 DEF Signal, ManualSignal, Leave, WriteTaskFails
<1>6. CASE AddPeerProbe(c) \/ AddPeerCount(c)
  BY <1>0, <1>6 DEF AddPeerProbe, AddPeerCount
<1>7. CASE AddPeer(c) \/ SendPeers(c)
  BY <1>0, <1>7 DEF AddPeer, AddPeerBody, SendPeers, PeersBody
<1>8. CASE ScanRoom(c) \/ ScanDone(c) \/ Relay(c)
  BY <1>0, <1>8 DEF ScanRoom, ScanDone, Relay, RelayBody
<1>9. CASE RemovePeer(c) \/ RemoveRoom(c) \/ Finish(c)
  BY <1>0, <1>9 DEF RemovePeer, RemovePeerBody, RemoveRoom, Finish
<1>10. CASE Deliver(c)
  BY <1>0, <1>10 DEF Deliver
<1>11. QED
  BY <1>1, <1>2, <1>3, <1>4, <1>5, <1>6, <1>7, <1>8, <1>9, <1>10 DEF Client, Handler

(* Every step keeps the types of the lookup and relay locals. *)
LEMMA RelayStep ==
  ASSUME TypeOK, Known, NEW c \in Conns, Client(c) \/ Handler(c) \/ Deliver(c)
  PROVE  RelayType'
<1>0. RelayType /\ RoomType
  BY TypeParts
<1> USE DEF RelayType, Goto, ReturnReleasing, HandlerReturns, Refuse, relayVars, EndScan
<1>1. CASE Accept(c) \/ Handshake(c) \/ HandshakeFails(c)
  BY <1>0, <1>1 DEF Accept, Handshake, HandshakeFails
<1>2. CASE RejectInput(c) \/ AbandonRegistration(c) \/ Register(c) \/ RegisterInvalidCode(c)
  BY <1>0, <1>2 DEF RejectInput, AbandonRegistration, Register, RegisterInvalidCode
<1>3. CASE Signal(c)
  <2>1. ip[c] \in RoomKeys
    BY <1>3 DEF Signal, Known
  <2>2. \A k \in Codes : FindPeer(ip[c], k) \subseteq Conns
    BY <1>0, <2>1 DEF FindPeer, RoomType
  <2>3. QED
    BY <1>0, <1>3, <2>2 DEF Signal
<1>4. CASE ManualSignal(c) \/ Leave(c) \/ WriteTaskFails(c) \/ Deliver(c)
  BY <1>0, <1>4 DEF ManualSignal, Leave, WriteTaskFails, Deliver
<1>5. CASE AddPeerProbe(c) \/ AddPeerCount(c) \/ AddPeer(c) \/ SendPeers(c)
  BY <1>0, <1>5 DEF AddPeerProbe, AddPeerCount, AddPeer, AddPeerBody, SendPeers, PeersBody
<1>6. CASE ScanRoom(c)
  <2>1. \A r \in unscanned[c] : FindPeer(r, to[c]) \subseteq Conns
    BY <1>0 DEF FindPeer, RoomType
  <2>2. QED
    BY <1>0, <1>6, <2>1 DEF ScanRoom
<1>7. CASE ScanDone(c) \/ Relay(c)
  BY <1>0, <1>7 DEF ScanDone, Relay, RelayBody
<1>8. CASE RemovePeer(c) \/ RemoveRoom(c) \/ Finish(c)
  BY <1>0, <1>8 DEF RemovePeer, RemovePeerBody, RemoveRoom, Finish
<1>9. QED
  BY <1>1, <1>2, <1>3, <1>4, <1>5, <1>6, <1>7, <1>8 DEF Client, Handler

(* Listed connections have codes, in any room of the type. *)
LEMMA RoomStep ==
  ASSUME TypeOK, Known, ListedAreLive, NEW c \in Conns,
         Client(c) \/ Handler(c) \/ Deliver(c)
  PROVE  RoomType'
<1>0. RoomType
  BY TypeParts
<1> USE DEF RoomType, Goto, ReturnReleasing, HandlerReturns, Refuse, roomVars
<1>1. CASE Accept(c) \/ Handshake(c) \/ HandshakeFails(c)
  BY <1>0, <1>1 DEF Accept, Handshake, HandshakeFails
<1>2. CASE RejectInput(c) \/ AbandonRegistration(c) \/ Register(c) \/ RegisterInvalidCode(c)
  BY <1>0, <1>2 DEF RejectInput, AbandonRegistration, Register, RegisterInvalidCode
<1>3. CASE Signal(c) \/ ManualSignal(c) \/ Leave(c) \/ WriteTaskFails(c) \/ Deliver(c)
  BY <1>0, <1>3 DEF Signal, ManualSignal, Leave, WriteTaskFails, Deliver
<1>4. CASE AddPeerProbe(c) \/ AddPeerCount(c) \/ ScanRoom(c) \/ ScanDone(c) \/ Relay(c)
  BY <1>0, <1>4 DEF AddPeerProbe, AddPeerCount, ScanRoom, ScanDone, Relay, RelayBody
<1>5. CASE AddPeer(c)
  <2>1. ip[c] \in RoomKeys
    BY <1>5 DEF AddPeer, AddPeerBody, Known
  <2>2. CodesOf(rooms[ip[c]] \ SameCode(c)) \subseteq Codes
    BY <1>0, <2>1 DEF CodesOf, ListedAreLive, Known
  <2>3. rooms' \in [RoomKeys -> SUBSET Conns]
    BY <1>0, <1>5, <2>1 DEF AddPeer, AddPeerBody
  <2>4. snapshot' \in [Conns -> SUBSET Codes]
    BY <1>0, <1>5, <2>2 DEF AddPeer, AddPeerBody
  <2>5. roomKeys' \subseteq RoomKeys
    BY <1>0, <1>5, <2>1 DEF AddPeer, AddPeerBody
  <2>6. QED
    BY <2>3, <2>4, <2>5
<1>6. CASE SendPeers(c)
  BY <1>0, <1>6 DEF SendPeers, PeersBody
<1>7. CASE RemovePeer(c) \/ RemoveRoom(c)
  <2>1. ip[c] \in RoomKeys
    BY <1>7 DEF RemovePeer, RemovePeerBody, RemoveRoom, Known
  <2>2. QED
    BY <1>0, <1>7, <2>1 DEF RemovePeer, RemovePeerBody, RemoveRoom
<1>8. CASE Finish(c)
  BY <1>0, <1>8 DEF Finish
<1>9. QED
  BY <1>1, <1>2, <1>3, <1>4, <1>5, <1>6, <1>7, <1>8 DEF Client, Handler

(* Every step keeps the types of the channels and the client lists. *)
LEMMA ChanStep ==
  ASSUME TypeOK, Known, NEW c \in Conns, Client(c) \/ Handler(c) \/ Deliver(c)
  PROVE  ChanType'
<1>0. ChanType
  BY TypeParts
<1>e. Sent({c}, ErrorMsg) \in [Conns -> Seq(ServerMessage)]
  BY MessageTypes, SentType
<1>q. [queue EXCEPT ![c] = <<>>] \in [Conns -> Seq(ServerMessage)]
  <2>1. <<>> \in Seq(ServerMessage)
    OBVIOUS
  <2>2. QED
    BY <1>0, <2>1 DEF ChanType
<1>r. [roster EXCEPT ![c] = {}] \in [Conns -> SUBSET Codes]
  BY <1>0 DEF ChanType
<1>k. code[c] \in Codes =>
        \A S : /\ Sent(S, PeerJoinedMsg(code[c])) \in [Conns -> Seq(ServerMessage)]
              /\ Sent(S, PeerLeftMsg(code[c])) \in [Conns -> Seq(ServerMessage)]
              /\ Sent(S, SignalMsg(code[c])) \in [Conns -> Seq(ServerMessage)]
  <2> SUFFICES ASSUME code[c] \in Codes, NEW S
               PROVE  /\ Sent(S, PeerJoinedMsg(code[c])) \in [Conns -> Seq(ServerMessage)]
                      /\ Sent(S, PeerLeftMsg(code[c])) \in [Conns -> Seq(ServerMessage)]
                      /\ Sent(S, SignalMsg(code[c])) \in [Conns -> Seq(ServerMessage)]
    OBVIOUS
  <2>1. /\ PeerJoinedMsg(code[c]) \in ServerMessage
        /\ PeerLeftMsg(code[c]) \in ServerMessage
        /\ SignalMsg(code[c]) \in ServerMessage
    BY MessageTypes
  <2>2. QED
    BY <1>0, <2>1 DEF Sent, ChanType
<1> USE DEF ChanType, Goto, ReturnReleasing, HandlerReturns, Refuse, chanVars
<1>1. CASE Accept(c) \/ Handshake(c) \/ HandshakeFails(c)
  BY <1>0, <1>q, <1>r, <1>1 DEF Accept, Handshake, HandshakeFails
<1>2. CASE RejectInput(c) \/ AbandonRegistration(c) \/ Register(c) \/ RegisterInvalidCode(c)
  BY <1>0, <1>e, <1>q, <1>r, <1>2 DEF RejectInput, AbandonRegistration, Register, RegisterInvalidCode
<1>3. CASE Signal(c) \/ ManualSignal(c) \/ Leave(c)
  BY <1>0, <1>e, <1>3 DEF Signal, ManualSignal, Leave
<1>4. CASE WriteTaskFails(c) \/ Finish(c)
  BY <1>0, <1>q, <1>r, <1>4 DEF WriteTaskFails, Finish
<1>5. CASE AddPeerProbe(c) \/ AddPeerCount(c) \/ ScanRoom(c) \/ ScanDone(c) \/ RemoveRoom(c)
  BY <1>0, <1>e, <1>5 DEF AddPeerProbe, AddPeerCount, ScanRoom, ScanDone, RemoveRoom
<1>6. CASE AddPeer(c) \/ Relay(c) \/ RemovePeer(c)
  <2>1. code[c] \in Codes
    BY <1>6 DEF AddPeer, AddPeerBody, Relay, RelayBody, RemovePeer, RemovePeerBody, Known
  <2>2. QED
    BY <1>0, <1>e, <1>k, <1>6, <2>1
       DEF AddPeer, AddPeerBody, Relay, RelayBody, RemovePeer, RemovePeerBody
<1>7. CASE SendPeers(c)
  <2>1. PeersMsg(snapshot[c]) \in ServerMessage
    BY MessageTypes DEF TypeOK
  <2>2. Sent({c}, PeersMsg(snapshot[c])) \in [Conns -> Seq(ServerMessage)]
    BY <2>1, SentType
  <2>3. QED
    BY <1>0, <1>7, <2>2 DEF SendPeers, PeersBody
<1>8. CASE Deliver(c)
  <2>1. Head(queue[c]) \in ServerMessage /\ Tail(queue[c]) \in Seq(ServerMessage)
    BY <1>0, <1>8 DEF Deliver
  <2>2. Merged(c, roster[c], Head(queue[c])) \in SUBSET Codes
    BY <1>0, <2>1, MergedType
  <2>3. QED
    BY <1>0, <1>8, <2>1, <2>2 DEF Deliver
<1>9. QED
  BY <1>1, <1>2, <1>3, <1>4, <1>5, <1>6, <1>7, <1>8 DEF Client, Handler

(* No handler reaches add_peer without a room key and a code. *)
LEMMA KnownStep ==
  ASSUME TypeOK, Known, NEW c \in Conns, Client(c) \/ Handler(c) \/ Deliver(c)
  PROVE  Known'
<1>0. IdentType
  BY TypeParts
<1> USE DEF IdentType, Known, Goto, ReturnReleasing, HandlerReturns, Refuse, identVars
<1>1. CASE Accept(c) \/ HandshakeFails(c)
  BY <1>0, <1>1 DEF Accept, HandshakeFails
<1>2. CASE Handshake(c)
  <2>1. PICK addr \in Addrs, fly \in Addrs \cup {NoAddr}, xff \in Addrs \cup {NoAddr} :
          ip' = [ip EXCEPT ![c] = ClientIp(addr, ForwardedFor(fly, xff))]
    BY <1>2 DEF Handshake
  <2>2. ip'[c] \in RoomKeys /\ \A d \in Conns \ {c} : ip'[d] = ip[d]
    BY <1>0, <2>1, ClientIpType
  <2>3. QED
    BY <1>0, <1>2, <2>2 DEF Handshake
<1>3. CASE RejectInput(c) \/ AbandonRegistration(c)
  BY <1>0, <1>3 DEF RejectInput, AbandonRegistration
<1>4. CASE Register(c) \/ RegisterInvalidCode(c)
  BY <1>0, <1>4 DEF Register, RegisterInvalidCode
<1>5. CASE Signal(c) \/ ManualSignal(c) \/ Leave(c) \/ WriteTaskFails(c) \/ Deliver(c)
  BY <1>0, <1>5 DEF Signal, ManualSignal, Leave, WriteTaskFails, Deliver
<1>6. CASE AddPeerProbe(c) \/ AddPeerCount(c)
  BY <1>0, <1>6 DEF AddPeerProbe, AddPeerCount
<1>7. CASE AddPeer(c) \/ SendPeers(c)
  BY <1>0, <1>7 DEF AddPeer, AddPeerBody, SendPeers, PeersBody
<1>8. CASE ScanRoom(c) \/ ScanDone(c) \/ Relay(c)
  BY <1>0, <1>8 DEF ScanRoom, ScanDone, Relay, RelayBody
<1>9. CASE RemovePeer(c) \/ RemoveRoom(c) \/ Finish(c)
  BY <1>0, <1>9 DEF RemovePeer, RemovePeerBody, RemoveRoom, Finish
<1>10. QED
  BY <1>1, <1>2, <1>3, <1>4, <1>5, <1>6, <1>7, <1>8, <1>9 DEF Client, Handler

----------------------------------------------------------------------------
(* Slots *)

Holders == {c \in Conns : pc[c] \notin Finished}

(* Handlers are finitely many. *)
LEMMA HoldersFinite == IsFiniteSet(Holders) /\ Cardinality(Holders) \in Nat
<1>1. Holders \subseteq Conns
  BY DEF Holders
<1>2. QED
  BY <1>1, ConnsFinite, FS_Subset, FS_CardinalityType

(* A step takes a slot below the limit, turns a connection away at the      *)
(* limit, gives the slot of its connection back, or leaves the slots alone. *)
Take(c) ==
    /\ c \notin Holders /\ pc[c] # "rejected" /\ Holders' = Holders \cup {c}
    /\ active < MaxConnections /\ active' = active + 1
    /\ \A d \in Conns : pc'[d] = "rejected" <=> pc[d] = "rejected"
Reject(c) ==
    /\ c \notin Holders /\ pc[c] # "rejected" /\ Holders' = Holders
    /\ active >= MaxConnections /\ active' = active
    /\ \A d \in Conns : pc'[d] = "rejected" <=> pc[d] = "rejected" \/ d = c
GiveBack(c) ==
    /\ c \in Holders /\ Holders' = Holders \ {c} /\ active' = active - 1
    /\ \A d \in Conns : pc'[d] = "rejected" <=> pc[d] = "rejected"
KeepSlots ==
    /\ Holders' = Holders /\ active' = active
    /\ \A d \in Conns : pc'[d] = "rejected" <=> pc[d] = "rejected"

(* Every step of the server is one of the four. *)
LEMMA SlotStep ==
  ASSUME TypeOK, NEW c \in Conns, Client(c) \/ Handler(c) \/ Deliver(c)
  PROVE  Take(c) \/ Reject(c) \/ GiveBack(c) \/ KeepSlots
<1>0. pc \in [Conns -> Phases] /\ active \in Nat
  BY DEF TypeOK
<1> USE LimitsPositive DEF Goto, Holders
<1>1. CASE Accept(c)
  <2>1. CASE active >= MaxConnections
    BY <1>0, <1>1, <2>1 DEF Accept, Reject
  <2>2. CASE ~(active >= MaxConnections)
    BY <1>0, <1>1, <2>2 DEF Accept, Take
  <2>3. QED
    BY <2>1, <2>2
<1>2. CASE HandshakeFails(c) \/ AbandonRegistration(c) \/ Finish(c)
  BY <1>0, <1>2 DEF HandshakeFails, AbandonRegistration, Finish, HandlerReturns,
                    ReturnReleasing, GiveBack
<1> USE DEF KeepSlots
<1>3. CASE Handshake(c) \/ RejectInput(c) \/ Register(c) \/ RegisterInvalidCode(c)
  BY <1>0, <1>3 DEF Handshake, RejectInput, Register, RegisterInvalidCode, Refuse
<1>4. CASE Signal(c) \/ ManualSignal(c) \/ Leave(c) \/ WriteTaskFails(c) \/ Deliver(c)
  BY <1>0, <1>4 DEF Signal, ManualSignal, Leave, WriteTaskFails, Deliver
<1>5. CASE AddPeerProbe(c) \/ AddPeerCount(c)
  BY <1>0, <1>5 DEF AddPeerProbe, AddPeerCount, Refuse
<1>6. CASE AddPeer(c) \/ SendPeers(c)
  BY <1>0, <1>6 DEF AddPeer, AddPeerBody, SendPeers, PeersBody, Refuse
<1>7. CASE ScanRoom(c) \/ ScanDone(c) \/ Relay(c)
  BY <1>0, <1>7 DEF ScanRoom, ScanDone, Relay, RelayBody
<1>8. CASE RemovePeer(c) \/ RemoveRoom(c)
  BY <1>0, <1>8 DEF RemovePeer, RemovePeerBody, RemoveRoom
<1>9. QED
  BY <1>1, <1>2, <1>3, <1>4, <1>5, <1>6, <1>7, <1>8 DEF Client, Handler

(* Every step keeps the counter equal to the number of handlers. *)
LEMMA SlotsStep ==
  ASSUME TypeOK, SlotsExact, NEW c \in Conns, Client(c) \/ Handler(c) \/ Deliver(c)
  PROVE  SlotsExact' /\ active' \in Nat
<1>0. active = Cardinality(Holders)
  BY DEF SlotsExact, Holders
<1>1. active' = Cardinality(Holders')
  <2>1. CASE Take(c)
    BY <1>0, <2>1, HoldersFinite, FS_AddElement DEF Take
  <2>2. CASE GiveBack(c)
    BY <1>0, <2>2, HoldersFinite, FS_RemoveElement DEF GiveBack
  <2>3. CASE Reject(c) \/ KeepSlots
    BY <1>0, <2>3 DEF Reject, KeepSlots
  <2>4. QED
    BY <2>1, <2>2, <2>3, SlotStep
<1>2. IsFiniteSet(Holders')
  BY SlotStep, HoldersFinite, FS_AddElement, FS_RemoveElement
     DEF Take, GiveBack, Reject, KeepSlots
<1>3. Cardinality(Holders') \in Nat
  BY <1>2, FS_CardinalityType
<1>4. QED
  BY <1>1, <1>3 DEF SlotsExact, Holders

----------------------------------------------------------------------------
(* Rooms *)

(* A step other than the three that write the map leaves it alone, lets no  *)
(* connection into or out of its session, and changes the identity of a     *)
(* connection only before it is listed.                                     *)
Frame(c) ==
    /\ rooms' = rooms /\ roomKeys' = roomKeys
    /\ \A d \in Conns : pc'[d] \in InSession <=> pc[d] \in InSession
    /\ \A d \in Conns : pc'[d] = "dropping" <=> pc[d] = "dropping"
    /\ \A d \in Conns : pc[d] \in Registered =>
          ip'[d] = ip[d] /\ code'[d] = code[d] /\ session'[d] = session[d]

(* The actions that do not write the map are such steps. *)
LEMMA FrameStep ==
  ASSUME TypeOK, NEW c \in Conns, Client(c) \/ Handler(c) \/ Deliver(c),
         ~AddPeer(c), ~RemovePeer(c), ~RemoveRoom(c)
  PROVE  Frame(c)
<1>0. IdentType
  BY TypeParts
<1> USE DEF IdentType, Frame, Goto, ReturnReleasing, HandlerReturns, Refuse,
            identVars, roomVars
<1>1. CASE Accept(c) \/ Handshake(c) \/ HandshakeFails(c)
  BY <1>0, <1>1 DEF Accept, Handshake, HandshakeFails
<1>2. CASE RejectInput(c) \/ AbandonRegistration(c)
  BY <1>0, <1>2 DEF RejectInput, AbandonRegistration
<1>3. CASE Register(c) \/ RegisterInvalidCode(c)
  BY <1>0, <1>3 DEF Register, RegisterInvalidCode
<1>4. CASE Signal(c) \/ ManualSignal(c) \/ Leave(c) \/ WriteTaskFails(c) \/ Deliver(c)
  BY <1>0, <1>4 DEF Signal, ManualSignal, Leave, WriteTaskFails, Deliver
<1>5. CASE AddPeerProbe(c) \/ AddPeerCount(c)
  BY <1>0, <1>5 DEF AddPeerProbe, AddPeerCount
<1>6. CASE SendPeers(c) \/ ScanRoom(c) \/ ScanDone(c) \/ Relay(c) \/ Finish(c)
  BY <1>0, <1>6 DEF SendPeers, PeersBody, ScanRoom, ScanDone, Relay, RelayBody, Finish
<1>7. QED
  BY <1>1, <1>2, <1>3, <1>4, <1>5, <1>6 DEF Client, Handler

(* A room whose key is absent from the map is empty. *)
AbsentEmpty == \A r \in RoomKeys \ roomKeys : rooms[r] = {}

RoomInv == UniqueCodes /\ ListedAreLive /\ RoomLimit /\ AbsentEmpty /\ EmptyRoomsReclaimed

(* Parts of a room are finite, and as large as the room only if equal to it. *)
LEMMA RoomFinite ==
  ASSUME TypeOK, NEW STATE r, r \in RoomKeys, NEW STATE S, S \subseteq rooms[r]
  PROVE  /\ IsFiniteSet(S) /\ Cardinality(S) \in Nat
         /\ Cardinality(rooms[r]) \in Nat /\ Cardinality(S) <= Cardinality(rooms[r])
         /\ Cardinality(S) = Cardinality(rooms[r]) => S = rooms[r]
<1>1. rooms[r] \subseteq Conns
  BY DEF TypeOK
<1>2. IsFiniteSet(rooms[r])
  BY <1>1, ConnsFinite, FS_Subset
<1>3. QED
  BY <1>2, FS_Subset, FS_CardinalityType

(* Steps that do not write the map keep the room invariant. *)
LEMMA RoomsFrame ==
  ASSUME TypeOK, RoomInv, NEW c \in Conns, Frame(c)
  PROVE  RoomInv'
<1>1. \A r \in RoomKeys : \A p \in rooms[r] :
        p \in Conns /\ pc[p] \in InSession /\ ip[p] = r
  BY DEF RoomInv, ListedAreLive, TypeOK
<1>2. UniqueCodes'
  BY <1>1 DEF RoomInv, UniqueCodes, Frame
<1>3. ListedAreLive'
  BY <1>1 DEF ListedAreLive, Frame
<1>4. EmptyRoomsReclaimed'
  BY DEF RoomInv, EmptyRoomsReclaimed, Frame
<1>5. RoomLimit' /\ AbsentEmpty'
  BY DEF RoomInv, RoomLimit, AbsentEmpty, Frame
<1>6. QED
  BY <1>2, <1>3, <1>4, <1>5 DEF RoomInv

(* add_peer: a refused registration finds no entry of its own code, because *)
(* the room would not be full without it.                                   *)
LEMMA RefusedEvictsNobody ==
  ASSUME TypeOK, Known, RoomInv, NEW c \in Conns, AddPeer(c),
         Cardinality(rooms[ip[c]] \ SameCode(c)) >= MaxPeersPerRoom
  PROVE  rooms' = rooms /\ rooms[ip[c]] # {}
<1>1. ip[c] \in RoomKeys
  BY DEF AddPeer, AddPeerBody, Known
<1>2. Cardinality(rooms[ip[c]]) <= MaxPeersPerRoom
  BY <1>1 DEF RoomInv, RoomLimit
<1>3. rooms[ip[c]] \ SameCode(c) = rooms[ip[c]]
  <2> DEFINE S == rooms[ip[c]] \ SameCode(c)
  <2>1. S \subseteq rooms[ip[c]]
    OBVIOUS
  <2>2. /\ Cardinality(S) \in Nat /\ Cardinality(rooms[ip[c]]) \in Nat
        /\ Cardinality(S) <= Cardinality(rooms[ip[c]])
        /\ Cardinality(S) = Cardinality(rooms[ip[c]]) => S = rooms[ip[c]]
    BY <1>1, <2>1, RoomFinite
  <2>3. QED
    BY <1>2, <2>2, LimitsPositive
<1>4. rooms[ip[c]] # {}
  BY <1>3, FS_EmptySet, LimitsPositive
<1>5. rooms' = rooms
  <2>1. rooms' = [rooms EXCEPT ![ip[c]] = rooms[ip[c]] \ SameCode(c)]
    BY DEF AddPeer, AddPeerBody
  <2>2. QED
    BY <1>1, <1>3, <2>1 DEF TypeOK
<1>6. QED
  BY <1>4, <1>5

(* add_peer under the entry lock keeps the room invariant. *)
LEMMA RoomsAdd ==
  ASSUME TypeOK, Known, RoomInv, NEW c \in Conns, AddPeer(c)
  PROVE  RoomInv'
<1> DEFINE others == rooms[ip[c]] \ SameCode(c)
<1>1. ip[c] \in RoomKeys /\ pc[c] = "entering"
  BY DEF AddPeer, AddPeerBody, Known
<1>2. /\ UNCHANGED <<ip, code>> /\ roomKeys' = roomKeys \cup {ip[c]}
      /\ \A d \in Conns \ {c} : pc'[d] = pc[d]
      /\ pc'[c] # "dropping"
  BY DEF AddPeer, AddPeerBody, TypeOK, Goto, Refuse, identVars
<1>3. \A r \in RoomKeys : \A p \in rooms[r] :
        p \in Conns /\ p # c /\ pc[p] \in InSession /\ ip[p] = r
  BY <1>1 DEF RoomInv, ListedAreLive, TypeOK
<1>4. CASE Cardinality(others) >= MaxPeersPerRoom
  <2>1. rooms' = rooms /\ rooms[ip[c]] # {}
    BY <1>4, RefusedEvictsNobody
  <2>2. ListedAreLive' /\ UniqueCodes'
    BY <1>2, <1>3, <2>1 DEF RoomInv, ListedAreLive, UniqueCodes
  <2>3. RoomLimit' /\ AbsentEmpty'
    BY <1>2, <2>1 DEF RoomInv, RoomLimit, AbsentEmpty
  <2>4. EmptyRoomsReclaimed'
    BY <1>1, <1>2, <2>1 DEF RoomInv, EmptyRoomsReclaimed
  <2>5. QED
    BY <2>2, <2>3, <2>4 DEF RoomInv
<1>5. CASE ~(Cardinality(others) >= MaxPeersPerRoom)
  <2>1. rooms' = [rooms EXCEPT ![ip[c]] = others \cup {c}] /\ pc' = [pc EXCEPT ![c] = "joined"]
    BY <1>5 DEF AddPeer, AddPeerBody, Goto
  <2>2. /\ rooms'[ip[c]] = others \cup {c}
        /\ \A r \in RoomKeys \ {ip[c]} : rooms'[r] = rooms[r]
        /\ pc'[c] = "joined"
    BY <1>1, <2>1 DEF TypeOK
  <2>3. UniqueCodes'
    <3>1. \A p \in others : code[p] # code[c]
      BY DEF SameCode
    <3>2. QED
      BY <1>1, <1>2, <2>2, <3>1 DEF RoomInv, UniqueCodes
  <2>4. ListedAreLive'
    BY <1>1, <1>2, <1>3, <2>2 DEF ListedAreLive
  <2>5. RoomLimit'
    <3>1. IsFiniteSet(others) /\ Cardinality(others) \in Nat
      BY <1>1, RoomFinite
    <3>2. c \notin others
      BY <1>1, <1>3
    <3>3. Cardinality(others \cup {c}) = Cardinality(others) + 1
      BY <3>1, <3>2, FS_AddElement
    <3>4. Cardinality(rooms'[ip[c]]) <= MaxPeersPerRoom
      BY <1>5, <2>2, <3>1, <3>3, LimitsPositive
    <3>5. QED
      BY <2>2, <3>4 DEF RoomInv, RoomLimit
  <2>6. AbsentEmpty'
    BY <1>1, <1>2, <2>2 DEF RoomInv, AbsentEmpty
  <2>7. EmptyRoomsReclaimed'
    <3>1. rooms'[ip[c]] # {}
      BY <2>2
    <3>2. \A r \in roomKeys' : rooms'[r] = {} => r \in roomKeys /\ rooms[r] = {}
      BY <1>2, <2>2, <3>1 DEF TypeOK
    <3>3. \A d \in Conns : pc[d] = "dropping" => pc'[d] = "dropping"
      BY <1>1, <1>2
    <3>4. QED
      BY <1>2, <3>2, <3>3 DEF RoomInv, EmptyRoomsReclaimed
  <2>8. QED
    BY <2>3, <2>4, <2>5, <2>6, <2>7 DEF RoomInv
<1>6. QED
  BY <1>4, <1>5

(* remove_peer under the entry lock: the handler's own entry goes, if it is *)
(* still there, and an emptied room is left to the handler that emptied it. *)
LEMMA RoomsRemove ==
  ASSUME TypeOK, Known, RoomInv, NEW c \in Conns, RemovePeer(c)
  PROVE  RoomInv'
<1> DEFINE rest == rooms[ip[c]] \ OwnEntry(c)
<1>1. ip[c] \in RoomKeys /\ pc[c] = "leaving"
  BY DEF RemovePeer, RemovePeerBody, Known
<1>2. /\ UNCHANGED <<ip, code, roomKeys>>
      /\ \A d \in Conns \ {c} : pc'[d] = pc[d]
      /\ pc'[c] = IF OwnEntry(c) # {} /\ rest = {} THEN "dropping" ELSE "closing"
  BY DEF RemovePeer, RemovePeerBody, TypeOK, Goto, identVars
<1>3. /\ rooms'[ip[c]] = rest
      /\ \A r \in RoomKeys \ {ip[c]} : rooms'[r] = rooms[r]
  BY <1>1 DEF RemovePeer, RemovePeerBody, TypeOK
<1>4. c \notin rest
  BY DEF OwnEntry, SameCode
<1>5. \A r \in RoomKeys : rooms'[r] \subseteq rooms[r] /\ c \notin rooms'[r]
  BY <1>1, <1>3, <1>4 DEF RoomInv, ListedAreLive
<1>6. UniqueCodes' /\ ListedAreLive'
  <2>1. \A r \in RoomKeys : rooms[r] \subseteq Conns
    BY DEF TypeOK
  <2>2. QED
    BY <1>2, <1>5, <2>1 DEF RoomInv, UniqueCodes, ListedAreLive
<1>7. RoomLimit'
  <2> SUFFICES ASSUME NEW r \in RoomKeys PROVE Cardinality(rooms'[r]) <= MaxPeersPerRoom
    BY DEF RoomLimit
  <2>1. Cardinality(rooms[r]) <= MaxPeersPerRoom
    BY DEF RoomInv, RoomLimit
  <2>2. CASE r = ip[c]
    <3>1. /\ Cardinality(rest) \in Nat /\ Cardinality(rooms[r]) \in Nat
          /\ Cardinality(rest) <= Cardinality(rooms[r])
      BY <1>1, <2>2, RoomFinite
    <3>2. QED
      BY <1>3, <2>1, <2>2, <3>1, LimitsPositive
  <2>3. CASE r # ip[c]
    BY <1>3, <2>1, <2>3
  <2>4. QED
    BY <2>2, <2>3
<1>8. AbsentEmpty'
  BY <1>2, <1>5 DEF RoomInv, AbsentEmpty
<1>9. EmptyRoomsReclaimed'
  <2>1. \A d \in Conns : pc[d] = "dropping" => pc'[d] = "dropping"
    BY <1>1, <1>2
  <2>2. \A r \in roomKeys \ {ip[c]} : rooms'[r] = rooms[r]
    BY <1>3 DEF TypeOK
  <2>3. rest = {} => rooms[ip[c]] = {} \/ pc'[c] = "dropping"
    BY <1>2
  <2>4. QED
    BY <1>2, <1>3, <2>1, <2>2, <2>3 DEF RoomInv, EmptyRoomsReclaimed
<1>10. QED
  BY <1>6, <1>7, <1>8, <1>9 DEF RoomInv

(* remove_peer after the lock: the key goes, and whatever is in the room. *)
LEMMA RoomsDrop ==
  ASSUME TypeOK, Known, RoomInv, NEW c \in Conns, RemoveRoom(c)
  PROVE  RoomInv'
<1>1. ip[c] \in RoomKeys /\ pc[c] = "dropping"
  BY DEF RemoveRoom, Known
<1>2. /\ UNCHANGED <<ip, code>> /\ roomKeys' = roomKeys \ {ip[c]}
      /\ \A d \in Conns \ {c} : pc'[d] = pc[d]
      /\ rooms'[ip[c]] = {}
      /\ \A r \in RoomKeys \ {ip[c]} : rooms'[r] = rooms[r]
  BY <1>1 DEF RemoveRoom, TypeOK, Goto, identVars
<1>3. \A r \in RoomKeys : \A p \in rooms[r] : p \in Conns /\ p # c
  BY <1>1 DEF RoomInv, ListedAreLive, TypeOK
<1>4. UniqueCodes' /\ ListedAreLive'
  BY <1>2, <1>3 DEF RoomInv, UniqueCodes, ListedAreLive
<1>5. RoomLimit'
  BY <1>2, FS_EmptySet, LimitsPositive DEF RoomInv, RoomLimit
<1>6. AbsentEmpty'
  BY <1>2 DEF RoomInv, AbsentEmpty
<1>7. EmptyRoomsReclaimed'
  <2>1. \A r \in roomKeys' : r \in roomKeys /\ r # ip[c] /\ rooms'[r] = rooms[r]
    BY <1>2 DEF TypeOK
  <2>2. QED
    BY <1>2, <2>1 DEF RoomInv, EmptyRoomsReclaimed
<1>8. QED
  BY <1>4, <1>5, <1>6, <1>7 DEF RoomInv

----------------------------------------------------------------------------
(* Relays *)

(* A handler holds a sender only between its lookup and its send; the       *)
(* connection it belongs to has registered, and keeps its code and room     *)
(* after it left.                                                           *)
Routing ==
    \A c \in Conns : target[c] # NoConn =>
        /\ pc[c] \in {"scanning", "relaying", "relayingManual"}
        /\ pc[target[c]] \in Registered \cup {"closed"}
        /\ code[target[c]] = to[c]
        /\ pc[c] = "relaying" => ip[target[c]] = ip[c]

(* Nobody who registered and left changes code or room. *)
LEMMA IdentityKept ==
  ASSUME TypeOK, NEW c \in Conns, Client(c) \/ Handler(c) \/ Deliver(c)
  PROVE  \A d \in Conns : pc[d] \in Registered \cup {"closed"} =>
           /\ pc'[d] \in Registered \cup {"closed"}
           /\ code'[d] = code[d] /\ ip'[d] = ip[d]
<1>0. IdentType
  BY TypeParts
<1> USE DEF IdentType, Goto, ReturnReleasing, HandlerReturns, Refuse, identVars
<1>1. CASE Accept(c) \/ Handshake(c) \/ HandshakeFails(c)
  BY <1>0, <1>1 DEF Accept, Handshake, HandshakeFails
<1>2. CASE RejectInput(c) \/ AbandonRegistration(c)
  BY <1>0, <1>2 DEF RejectInput, AbandonRegistration
<1>3. CASE Register(c) \/ RegisterInvalidCode(c)
  BY <1>0, <1>3 DEF Register, RegisterInvalidCode
<1>4. CASE Signal(c) \/ ManualSignal(c) \/ Leave(c) \/ WriteTaskFails(c) \/ Deliver(c)
  BY <1>0, <1>4 DEF Signal, ManualSignal, Leave, WriteTaskFails, Deliver
<1>5. CASE AddPeerProbe(c) \/ AddPeerCount(c)
  BY <1>0, <1>5 DEF AddPeerProbe, AddPeerCount
<1>6. CASE AddPeer(c) \/ RemovePeer(c) \/ RemoveRoom(c)
  BY <1>0, <1>6 DEF AddPeer, AddPeerBody, RemovePeer, RemovePeerBody, RemoveRoom
<1>7. CASE SendPeers(c) \/ ScanRoom(c) \/ ScanDone(c) \/ Relay(c) \/ Finish(c)
  BY <1>0, <1>7 DEF SendPeers, PeersBody, ScanRoom, ScanDone, Relay, RelayBody, Finish
<1>8. QED
  BY <1>1, <1>2, <1>3, <1>4, <1>5, <1>6, <1>7 DEF Client, Handler

(* What find_peer returns is listed, so registered, in that room. *)
LEMMA FindPeerLive ==
  ASSUME TypeOK, ListedAreLive, NEW STATE r, r \in RoomKeys, NEW k,
         NEW p \in FindPeer(r, k)
  PROVE  p \in Conns /\ pc[p] \in InSession /\ ip[p] = r /\ code[p] = k
  BY DEF FindPeer, ListedAreLive, TypeOK

(* How a step changes what its handler holds: the lookups pick a listed     *)
(* target, a relay or a failed scan lets go, everything else keeps it.      *)
Picks(c) ==
    \E p \in Conns : \E k \in Codes :
        /\ pc[c] \in InSession /\ pc[p] \in InSession /\ code[p] = k
        /\ target' = [target EXCEPT ![c] = p]
        /\ to' = [to EXCEPT ![c] = k]
        /\ \/ pc' = [pc EXCEPT ![c] = "relaying"] /\ ip[p] = ip[c]
           \/ pc' = pc /\ pc[c] = "scanning"
LetsGo(c) ==
    /\ target' = [target EXCEPT ![c] = NoConn]
    /\ \A d \in Conns \ {c} : to'[d] = to[d] /\ pc'[d] = pc[d]
Holds(c) ==
    /\ target' = target
    /\ \A d \in Conns \ {c} : to'[d] = to[d] /\ pc'[d] = pc[d]
    /\ target[c] # NoConn =>
          to'[c] = to[c] /\ pc'[c] \in {pc[c], "relayingManual"}

(* Every step of the server is one of the three. *)
LEMMA TargetStep ==
  ASSUME TypeOK, Known, ListedAreLive, Routing, NEW c \in Conns,
         Client(c) \/ Handler(c) \/ Deliver(c)
  PROVE  Picks(c) \/ LetsGo(c) \/ Holds(c)
<1>0. pc \in [Conns -> Phases] /\ RelayType
  BY TypeParts DEF TypeOK
<1>t. target[c] # NoConn => pc[c] \in {"scanning", "relaying", "relayingManual"}
  BY DEF Routing
<1> USE DEF Goto, ReturnReleasing, HandlerReturns, Refuse, EndScan, relayVars, RelayType
<1>1. CASE Accept(c) \/ Handshake(c) \/ HandshakeFails(c)
  BY <1>0, <1>t, <1>1 DEF Accept, Handshake, HandshakeFails, Holds
<1>2. CASE RejectInput(c) \/ AbandonRegistration(c)
  BY <1>0, <1>t, <1>2 DEF RejectInput, AbandonRegistration, Holds
<1>3. CASE Register(c) \/ RegisterInvalidCode(c)
  BY <1>0, <1>t, <1>3 DEF Register, RegisterInvalidCode, Holds
<1>4. CASE ManualSignal(c) \/ Leave(c) \/ WriteTaskFails(c) \/ Deliver(c)
  BY <1>0, <1>t, <1>4 DEF ManualSignal, Leave, WriteTaskFails, Deliver, Holds
<1>5. CASE Signal(c)
  <2>1. ip[c] \in RoomKeys
    BY <1>5 DEF Signal, Known
  <2>2. CASE \E k \in Codes : \E p \in FindPeer(ip[c], k) :
               /\ to' = [to EXCEPT ![c] = k]
               /\ target' = [target EXCEPT ![c] = p]
               /\ pc' = [pc EXCEPT ![c] = "relaying"]
    <3>1. PICK k \in Codes : \E p \in FindPeer(ip[c], k) :
               /\ to' = [to EXCEPT ![c] = k]
               /\ target' = [target EXCEPT ![c] = p]
               /\ pc' = [pc EXCEPT ![c] = "relaying"]
      BY <2>2
    <3>2. PICK p \in FindPeer(ip[c], k) :
               /\ to' = [to EXCEPT ![c] = k]
               /\ target' = [target EXCEPT ![c] = p]
               /\ pc' = [pc EXCEPT ![c] = "relaying"]
      BY <3>1
    <3>3. p \in Conns /\ pc[p] \in InSession /\ ip[p] = ip[c] /\ code[p] = k
      BY <2>1, <3>2, FindPeerLive
    <3>4. QED
      BY <1>5, <3>2, <3>3 DEF Signal, Picks
  <2>3. CASE UNCHANGED <<pc, to, target>>
    BY <2>3 DEF Holds
  <2>4. QED
    BY <1>5, <2>2, <2>3 DEF Signal
<1>6. CASE ScanRoom(c)
  <2>1. PICK r \in unscanned[c] :
          \/ FindPeer(r, to[c]) = {} /\ UNCHANGED <<pc, to, target>>
          \/ \E p \in FindPeer(r, to[c]) :
               IF target[c] = NoConn
                 THEN target' = [target EXCEPT ![c] = p] /\ UNCHANGED <<pc, to>>
                 ELSE EndScan(c) /\ Goto(c, "active")
    BY <1>6 DEF ScanRoom
  <2>2. r \in RoomKeys
    BY <1>0
  <2>3. CASE UNCHANGED <<pc, to, target>>
    BY <2>3 DEF Holds
  <2>4. CASE EndScan(c) /\ Goto(c, "active")
    BY <1>0, <2>4 DEF LetsGo
  <2>5. CASE \E p \in FindPeer(r, to[c]) :
               target' = [target EXCEPT ![c] = p] /\ UNCHANGED <<pc, to>>
    <3>1. PICK p \in FindPeer(r, to[c]) :
            target' = [target EXCEPT ![c] = p] /\ UNCHANGED <<pc, to>>
      BY <2>5
    <3>2. p \in Conns /\ pc[p] \in InSession /\ code[p] = to[c]
      BY <2>2, <3>1, FindPeerLive
    <3>3. to[c] \in Codes
      BY <3>2 DEF Known
    <3>4. to' = [to EXCEPT ![c] = to[c]]
      BY <1>0, <3>1
    <3>5. QED
      BY <1>6, <3>1, <3>2, <3>3, <3>4 DEF ScanRoom, Picks
  <2>6. QED
    BY <2>1, <2>3, <2>4, <2>5
<1>7. CASE ScanDone(c)
  BY <1>0, <1>7 DEF ScanDone, LetsGo, Holds
<1>8. CASE Relay(c)
  BY <1>0, <1>8 DEF Relay, RelayBody, LetsGo
<1>9. CASE AddPeerProbe(c) \/ AddPeerCount(c) \/ SendPeers(c)
  BY <1>0, <1>t, <1>9 DEF AddPeerProbe, AddPeerCount, SendPeers, PeersBody, Holds
<1>10. CASE AddPeer(c) \/ RemovePeer(c) \/ RemoveRoom(c) \/ Finish(c)
  BY <1>0, <1>t, <1>10
     DEF AddPeer, AddPeerBody, RemovePeer, RemovePeerBody, RemoveRoom, Finish, Holds
<1>11. QED
  BY <1>1, <1>2, <1>3, <1>4, <1>5, <1>6, <1>7, <1>8, <1>9, <1>10 DEF Client, Handler

(* Every step keeps the routing of relays in flight. *)
LEMMA RoutingStep ==
  ASSUME TypeOK, Known, ListedAreLive, Routing, NEW c \in Conns,
         Client(c) \/ Handler(c) \/ Deliver(c)
  PROVE  Routing'
<1>0. pc \in [Conns -> Phases] /\ RelayType
  BY TypeParts DEF TypeOK
<1>1. \A d \in Conns : pc[d] \in Registered \cup {"closed"} =>
        /\ pc'[d] \in Registered \cup {"closed"}
        /\ code'[d] = code[d] /\ ip'[d] = ip[d]
  BY IdentityKept
<1>2. CASE Picks(c)
  BY <1>0, <1>1, <1>2 DEF Picks, Routing, RelayType
<1>3. CASE LetsGo(c)
  BY <1>0, <1>1, <1>3 DEF LetsGo, Routing, RelayType
<1>4. CASE Holds(c)
  BY <1>0, <1>1, <1>4 DEF Holds, Routing, RelayType
<1>5. QED
  BY <1>2, <1>3, <1>4, TargetStep

----------------------------------------------------------------------------
(* Session ids *)

(* NEXT_SESSION_ID gives every registration an id of its own. *)
Sessions ==
    /\ \A c \in Conns : session[c] < nextSession
    /\ \A c \in Conns : pc[c] \in {"counting", "entering"} \cup Registered => session[c] > 0
    /\ \A c, d \in Conns : c # d /\ session[c] > 0 => session[c] # session[d]

(* Every step keeps session ids unique. *)
LEMMA SessionsStep ==
  ASSUME TypeOK, Sessions, NEW c \in Conns, Client(c) \/ Handler(c) \/ Deliver(c)
  PROVE  Sessions'
<1>0. IdentType
  BY TypeParts
<1>1. CASE AddPeerProbe(c)
  <2>1. /\ session' = [session EXCEPT ![c] = nextSession] /\ nextSession' = nextSession + 1
        /\ pc[c] = "probing" /\ \A d \in Conns \ {c} : pc'[d] = pc[d]
    BY <1>0, <1>1 DEF AddPeerProbe, Goto, IdentType
  <2>2. QED
    BY <1>0, <2>1 DEF IdentType, Sessions
<1>2. ASSUME UNCHANGED <<session, nextSession>>,
             \A d \in Conns : pc'[d] \in {"counting", "entering"} \cup Registered =>
                              pc[d] \in {"counting", "entering"} \cup Registered
      PROVE  Sessions'
  BY <1>2 DEF Sessions
<1> USE DEF IdentType, Goto, ReturnReleasing, HandlerReturns, Refuse, identVars
<1>3. CASE Accept(c) \/ Handshake(c) \/ HandshakeFails(c)
  BY <1>0, <1>2, <1>3 DEF Accept, Handshake, HandshakeFails
<1>4. CASE RejectInput(c) \/ AbandonRegistration(c)
  BY <1>0, <1>2, <1>4 DEF RejectInput, AbandonRegistration
<1>5. CASE Register(c) \/ RegisterInvalidCode(c)
  BY <1>0, <1>2, <1>5 DEF Register, RegisterInvalidCode
<1>6. CASE Signal(c) \/ ManualSignal(c) \/ Leave(c) \/ WriteTaskFails(c) \/ Deliver(c)
  BY <1>0, <1>2, <1>6 DEF Signal, ManualSignal, Leave, WriteTaskFails, Deliver
<1>7. CASE AddPeerCount(c)
  BY <1>0, <1>2, <1>7 DEF AddPeerCount
<1>8. CASE AddPeer(c) \/ RemovePeer(c) \/ RemoveRoom(c)
  BY <1>0, <1>2, <1>8 DEF AddPeer, AddPeerBody, RemovePeer, RemovePeerBody, RemoveRoom
<1>9. CASE SendPeers(c) \/ ScanRoom(c) \/ ScanDone(c) \/ Relay(c) \/ Finish(c)
  BY <1>0, <1>2, <1>9 DEF SendPeers, PeersBody, ScanRoom, ScanDone, Relay, RelayBody, Finish
<1>10. QED
  BY <1>1, <1>3, <1>4, <1>5, <1>6, <1>7, <1>8, <1>9 DEF Client, Handler

----------------------------------------------------------------------------
(* The inductive invariant *)

IInv == TypeOK /\ SlotsExact /\ Known /\ RoomInv /\ Routing /\ Sessions

(* The empty server satisfies the invariant. *)
LEMMA InitIInv == Init => IInv
<1> SUFFICES ASSUME Init PROVE IInv
  OBVIOUS
<1> USE DEF Init
<1>1. TypeOK
  <2>1. active \in Nat /\ IdentType
    BY DEF IdentType
  <2>2. RoomType /\ RelayType
    BY DEF RoomType, RelayType
  <2>3. ChanType
    <3>1. <<>> \in Seq(ServerMessage)
      OBVIOUS
    <3>2. QED
      BY <3>1 DEF ChanType
  <2>4. QED
    BY <2>1, <2>2, <2>3, TypeParts
<1>2. SlotsExact
  <2>1. {c \in Conns : pc[c] \notin Finished} = {}
    OBVIOUS
  <2>2. QED
    BY <2>1, FS_EmptySet DEF SlotsExact
<1>3. Known /\ Sessions
  BY DEF Known, Sessions
<1>4. Routing
  BY DEF Routing
<1>5. RoomInv
  BY FS_EmptySet, LimitsPositive
     DEF RoomInv, UniqueCodes, ListedAreLive, RoomLimit, AbsentEmpty, EmptyRoomsReclaimed
<1>6. QED
  BY <1>1, <1>2, <1>3, <1>4, <1>5 DEF IInv

(* Every step keeps the room invariant. *)
LEMMA RoomInvStep ==
  ASSUME TypeOK, Known, RoomInv, NEW c \in Conns, Client(c) \/ Handler(c) \/ Deliver(c)
  PROVE  RoomInv'
  BY FrameStep, RoomsFrame, RoomsAdd, RoomsRemove, RoomsDrop

(* Every step of every handler and client keeps the invariant. *)
LEMMA NextIInv == IInv /\ [Next]_vars => IInv'
<1> SUFFICES ASSUME IInv, [Next]_vars PROVE IInv'
  OBVIOUS
<1>0. TypeOK /\ SlotsExact /\ Known /\ RoomInv /\ ListedAreLive /\ Routing /\ Sessions
  BY DEF IInv, RoomInv
<1>1. ASSUME NEW c \in Conns, Client(c) \/ Handler(c) \/ Deliver(c) PROVE IInv'
  <2>1. SlotsExact' /\ active' \in Nat
    BY <1>0, <1>1, SlotsStep
  <2>2. ChanType' /\ IdentType' /\ RoomType' /\ RelayType'
    BY <1>0, <1>1, ChanStep, IdentStep, RoomStep, RelayStep
  <2>3. TypeOK'
    BY <2>1, <2>2 DEF TypeOK, ChanType, IdentType, RoomType, RelayType
  <2>4. Known' /\ RoomInv'
    BY <1>0, <1>1, KnownStep, RoomInvStep
  <2>5. Routing' /\ Sessions'
    BY <1>0, <1>1, RoutingStep, SessionsStep
  <2>6. QED
    BY <2>1, <2>3, <2>4, <2>5 DEF IInv
<1>2. CASE UNCHANGED vars
  <2>1. TypeOK' /\ SlotsExact' /\ Known'
    BY <1>0, <1>2 DEF vars, TypeOK, SlotsExact, Known
  <2>2. RoomInv'
    BY <1>0, <1>2 DEF vars, RoomInv, UniqueCodes, ListedAreLive, RoomLimit,
                      AbsentEmpty, EmptyRoomsReclaimed
  <2>3. Routing' /\ Sessions'
    BY <1>0, <1>2 DEF vars, Routing, Sessions
  <2>4. QED
    BY <2>1, <2>2, <2>3 DEF IInv
<1>3. QED
  BY <1>1, <1>2 DEF Next

(* The invariant holds in every reachable state. *)
LEMMA SpecIInv == Spec => []IInv
  BY InitIInv, NextIInv, PTL DEF Spec

----------------------------------------------------------------------------
(* Every step of every handler of the signaling server keeps the types of   *)
(* its state, in particular the slot counter never goes below zero.         *)
THEOREM TypeCorrect == Spec => []TypeOK
<1>1. IInv => TypeOK
  BY DEF IInv
<1>2. QED
  BY <1>1, SpecIInv, PTL

(* handle_connection gives back exactly one slot on every path out of it,   *)
(* for any number of connections.                                           *)
THEOREM SlotsAreExact == Spec => []SlotsExact
<1>1. IInv => SlotsExact
  BY DEF IInv
<1>2. QED
  BY <1>1, SpecIInv, PTL

(* RoomManager never lists a code twice in a room, whatever registrations   *)
(* and teardowns race.                                                      *)
THEOREM CodesAreUnique == Spec => []UniqueCodes
<1>1. IInv => UniqueCodes
  BY DEF IInv, RoomInv
<1>2. QED
  BY <1>1, SpecIInv, PTL

(* No entry of a room outlives its connection's session. *)
THEOREM EntriesAreLive == Spec => []ListedAreLive
<1>1. IInv => ListedAreLive
  BY DEF IInv, RoomInv
<1>2. QED
  BY <1>1, SpecIInv, PTL

(* add_peer keeps every room within MAX_PEERS_PER_ROOM. *)
THEOREM RoomsAreLimited == Spec => []RoomLimit
<1>1. IInv => RoomLimit
  BY DEF IInv, RoomInv
<1>2. QED
  BY <1>1, SpecIInv, PTL

(* remove_peer leaves no empty room behind: some handler is still about to  *)
(* remove the key of each.                                                  *)
THEOREM RoomsAreReclaimed == Spec => []EmptyRoomsReclaimed
<1>1. IInv => EmptyRoomsReclaimed
  BY DEF IInv, RoomInv
<1>2. QED
  BY <1>1, SpecIInv, PTL

(* Every key of the map has a running handler of its own room: a listed     *)
(* peer's, or the one about to remove the empty room.                       *)
LEMMA RoomHasHandler ==
  ASSUME IInv, NEW r \in roomKeys
  PROVE  \E c \in Conns : pc[c] \notin Finished /\ ip[c] = r
<1>1. r \in RoomKeys /\ rooms[r] \subseteq Conns
  BY DEF IInv, TypeOK
<1>2. CASE rooms[r] = {}
  BY <1>2 DEF IInv, RoomInv, EmptyRoomsReclaimed, Finished
<1>3. CASE rooms[r] # {}
  BY <1>1, <1>3 DEF IInv, RoomInv, ListedAreLive, InSession, Finished
<1>4. QED
  BY <1>2, <1>3

(* However many registrations pass the MAX_ROOMS test at once, RoomManager  *)
(* never keeps more rooms than active_connections counts handlers.          *)
THEOREM RoomsAreWithinSlots == Spec => []RoomsWithinSlots
<1>1. ASSUME IInv PROVE RoomsWithinSlots
  <2> DEFINE H == {c \in Conns : pc[c] \notin Finished}
             f == [r \in roomKeys |-> CHOOSE c \in H : ip[c] = r]
  <2>1. \A r \in roomKeys : f[r] \in H /\ ip[f[r]] = r
    BY <1>1, RoomHasHandler
  <2>2. IsFiniteSet(H)
    BY ConnsFinite, FS_Subset
  <2>3. active = Cardinality(H)
    BY <1>1 DEF IInv, SlotsExact
  <2> HIDE DEF H
  <2>4. f \in [roomKeys -> H] /\ \A q, r \in roomKeys : f[q] = f[r] => q = r
    BY <2>1
  <2> HIDE DEF f
  <2>5. f \in Injection(roomKeys, H)
    BY <2>4 DEF Injection, IsInjective
  <2>6. QED
    BY <2>2, <2>3, <2>5, FS_Injection DEF RoomsWithinSlots
<1>2. QED
  BY <1>1, SpecIInv, PTL

(* A signal in flight goes to a connection registered under the code its    *)
(* sender named, in the sender's room unless it is a manual signal.         *)
THEOREM SignalsAreRouted == Spec => []SignalRouting
<1>1. IInv => SignalRouting
  BY DEF IInv, Routing, SignalRouting
<1>2. QED
  BY <1>1, SpecIInv, PTL

(* DP-5: what remove_peer deletes under the lock is the entry of its own    *)
(* connection and no other.                                                 *)
LEMMA OwnEntryIsOwn ==
  ASSUME TypeOK, Known, RoomInv, Sessions, NEW c \in Conns, pc[c] = "leaving"
  PROVE  OwnEntry(c) \subseteq {c}
<1>1. ip[c] \in RoomKeys
  BY DEF Known
<1>2. rooms[ip[c]] \subseteq Conns
  BY <1>1 DEF TypeOK
<1>3. QED
  BY <1>2 DEF OwnEntry, SameCode, Sessions

(* DP-5: no step removes the entry of a connection other than its own       *)
(* teardown, a new registration of the same code, or the removal of the     *)
(* whole room; a refused registration removes nobody.                       *)
THEOREM StaleTeardownSparesOthers == Spec => TeardownSparesOthers
<1>1. ASSUME IInv, [Next]_vars PROVE [EntryChange]_vars
  <2>0. TypeOK /\ Known /\ RoomInv /\ Sessions
    BY <1>1 DEF IInv
  <2>1. ASSUME NEW c \in Conns, Client(c) \/ Handler(c) \/ Deliver(c) PROVE EntryChange
    <3>1. CASE AddPeer(c)
      <4>1. /\ ip[c] \in RoomKeys /\ pc[c] = "entering"
        BY <2>0, <3>1 DEF AddPeer, AddPeerBody, Known
      <4>2. CASE Cardinality(rooms[ip[c]] \ SameCode(c)) >= MaxPeersPerRoom
        BY <2>0, <3>1, <4>2, RefusedEvictsNobody DEF EntryChange
      <4>3. CASE ~(Cardinality(rooms[ip[c]] \ SameCode(c)) >= MaxPeersPerRoom)
        <5>1. rooms' = [rooms EXCEPT ![ip[c]] = (rooms[ip[c]] \ SameCode(c)) \cup {c}]
          BY <3>1, <4>3 DEF AddPeer, AddPeerBody
        <5>2. /\ rooms'[ip[c]] = (rooms[ip[c]] \ SameCode(c)) \cup {c}
              /\ \A r \in RoomKeys \ {ip[c]} : rooms'[r] = rooms[r]
          BY <2>0, <4>1, <5>1 DEF TypeOK
        <5>3. c \notin rooms[ip[c]]
          BY <2>0, <4>1 DEF RoomInv, ListedAreLive
        <5>4. QED
          BY <4>1, <5>2, <5>3 DEF EntryChange, SameCode
      <4>4. QED
        BY <4>2, <4>3
    <3>2. CASE RemovePeer(c)
      <4>1. /\ ip[c] \in RoomKeys /\ pc[c] = "leaving"
        BY <2>0, <3>2 DEF RemovePeer, RemovePeerBody, Known
      <4>2. OwnEntry(c) \subseteq {c}
        BY <2>0, <4>1, OwnEntryIsOwn
      <4>3. /\ rooms'[ip[c]] = rooms[ip[c]] \ OwnEntry(c)
            /\ \A r \in RoomKeys \ {ip[c]} : rooms'[r] = rooms[r]
            /\ pc'[c] # "leaving"
        BY <2>0, <3>2, <4>1 DEF RemovePeer, RemovePeerBody, TypeOK, Goto
      <4>4. QED
        BY <4>1, <4>2, <4>3 DEF EntryChange
    <3>3. CASE RemoveRoom(c)
      <4>1. ip[c] \in RoomKeys /\ ip[c] \notin roomKeys'
        BY <2>0, <3>3 DEF RemoveRoom, Known
      <4>2. \A r \in RoomKeys \ {ip[c]} : rooms'[r] = rooms[r]
        BY <2>0, <3>3 DEF RemoveRoom, TypeOK
      <4>3. QED
        BY <4>1, <4>2 DEF EntryChange
    <3>4. CASE ~AddPeer(c) /\ ~RemovePeer(c) /\ ~RemoveRoom(c)
      <4>1. rooms' = rooms
        BY <2>0, <2>1, <3>4, FrameStep DEF Frame
      <4>2. QED
        BY <4>1 DEF EntryChange
    <3>5. QED
      BY <3>1, <3>2, <3>3, <3>4
  <2>2. QED
    BY <1>1, <2>1 DEF Next
<1>2. QED
  BY <1>1, SpecIInv, PTL DEF Spec, TeardownSparesOthers

(* The whole server implements the abstract slot pool: handlers hold slots  *)
(* below the limit, a connection is turned away only when all are held, and *)
(* each is given back once.                                                 *)
THEOREM ServerImplementsPool == Spec => ImplementsSlotPool
<1>0. \A S : Pool!Cardinality(S) = Cardinality(S)
  BY DEF Pool!Cardinality, Cardinality
<1> DEFINE Rejected == {c \in Conns : pc[c] = "rejected"}
<1>1. Init => Pool!Init
  BY DEF Init, Pool!Init
<1>2. ASSUME IInv, [Next]_vars PROVE [Pool!Next]_(Pool!poolVars)
  <2>0. TypeOK /\ active = Cardinality(Holders)
    BY <1>2 DEF IInv, SlotsExact, Holders
  <2>1. ASSUME NEW c \in Conns, Client(c) \/ Handler(c) \/ Deliver(c)
        PROVE  Pool!Acquire(c) \/ Pool!TurnAway(c) \/ Pool!Release(c)
                 \/ UNCHANGED <<Holders, Rejected>>
    <3>1. CASE Take(c)
      <4>1. Rejected' = Rejected /\ c \notin Rejected
        BY <3>1 DEF Take
      <4>2. QED
        BY <1>0, <2>0, <3>1, <4>1 DEF Take, Pool!Acquire, Holders
    <3>2. CASE Reject(c)
      <4>1. Rejected' = Rejected \cup {c} /\ c \notin Rejected
        BY <3>2 DEF Reject
      <4>2. QED
        BY <1>0, <2>0, <3>2, <4>1 DEF Reject, Pool!TurnAway, Holders
    <3>3. CASE GiveBack(c)
      <4>1. Rejected' = Rejected
        BY <3>3 DEF GiveBack
      <4>2. QED
        BY <3>3, <4>1 DEF GiveBack, Pool!Release, Holders
    <3>4. CASE KeepSlots
      <4>1. Rejected' = Rejected
        BY <3>4 DEF KeepSlots
      <4>2. QED
        BY <3>4, <4>1 DEF KeepSlots
    <3>5. QED
      BY <2>0, <2>1, <3>1, <3>2, <3>3, <3>4, SlotStep
  <2>2. CASE UNCHANGED vars
    BY <2>2 DEF vars, Pool!poolVars
  <2>3. QED
    BY <1>2, <2>1, <2>2 DEF Next, Pool!Next, Pool!poolVars, Holders
<1>3. QED
  BY <1>1, <1>2, SpecIInv, PTL DEF Spec, ImplementsSlotPool, Pool!Spec

----------------------------------------------------------------------------
(* What the clients learn *)

(* A client with this list, and these messages still to come, will know k. *)
Learns(list, msgs, k) ==
    \/ k \in list /\ \A i \in 1..Len(msgs) : ~Removes(msgs[i], k)
    \/ \E i \in 1..Len(msgs) :
         Adds(msgs[i], k) /\ \A j \in i+1..Len(msgs) : ~Removes(msgs[j], k)

(* WillKnow, with the list and the queue apart from the snapshot. *)
LEMMA WillKnowParts ==
  ASSUME NEW c, NEW k
  PROVE  WillKnow(c, k) <=> \/ Learns(roster[c], queue[c], k)
                            \/ pc[c] = "joined" /\ k \in snapshot[c]
  BY DEF WillKnow, Learns

(* A message that takes k back is the only one that makes a client forget. *)
LEMMA LearnsAppend ==
  ASSUME NEW list, NEW S, NEW msgs \in Seq(S), NEW m \in S, NEW k, ~Removes(m, k),
         Learns(list, msgs, k) \/ Adds(m, k)
  PROVE  Learns(list, Append(msgs, m), k)
<1> DEFINE a == Append(msgs, m)
           n == Len(msgs)
<1>1. /\ Len(a) = n + 1 /\ n \in Nat /\ a[n + 1] = m
      /\ \A i \in 1..n : a[i] = msgs[i]
  OBVIOUS
<1> HIDE DEF a, n
<1>2. \A i \in 1..(n + 1) : i \in 1..n \/ i = n + 1
  BY <1>1
<1>3. n + 1 \in 1..(n + 1) /\ \A i \in 1..n : i \in 1..(n + 1)
  BY <1>1
<1>4. CASE Adds(m, k)
  <2>1. \A j \in (n + 1) + 1..(n + 1) : FALSE
    BY <1>1
  <2>2. QED
    BY <1>1, <1>3, <1>4, <2>1 DEF Learns, a
<1>5. CASE k \in list /\ \A i \in 1..n : ~Removes(msgs[i], k)
  <2>1. \A i \in 1..(n + 1) : ~Removes(a[i], k)
    BY <1>1, <1>2, <1>5
  <2>2. QED
    BY <1>1, <1>5, <2>1 DEF Learns, a
<1>6. CASE \E i \in 1..n : Adds(msgs[i], k) /\ \A j \in i+1..n : ~Removes(msgs[j], k)
  <2>1. PICK i \in 1..n : Adds(msgs[i], k) /\ \A j \in i+1..n : ~Removes(msgs[j], k)
    BY <1>6
  <2>2. \A j \in i+1..(n + 1) : ~Removes(a[j], k)
    <3> TAKE j \in i+1..(n + 1)
    <3>1. j = n + 1 \/ (j \in i+1..n /\ j \in 1..n)
      BY <1>1
    <3>2. QED
      BY <1>1, <2>1, <3>1
  <2>3. i \in 1..(n + 1) /\ Adds(a[i], k)
    BY <1>1, <1>3, <2>1
  <2>4. QED
    BY <1>1, <2>2, <2>3 DEF Learns, a
<1>7. QED
  BY <1>4, <1>5, <1>6 DEF Learns, n

(* A client that takes a message off its queue will know what it would     *)
(* have known, but for its own code.                                       *)
LEMMA LearnsDeliver ==
  ASSUME NEW STATE c, NEW STATE list, NEW STATE msgs, msgs \in Seq(ServerMessage), msgs # <<>>,
         NEW STATE k, k # code[c], Learns(list, msgs, k)
  PROVE  Learns(Merged(c, list, Head(msgs)), Tail(msgs), k)
<1> DEFINE h == Head(msgs)
           t == Tail(msgs)
           n == Len(t)
<1>1. /\ n \in Nat /\ Len(msgs) = n + 1 /\ h = msgs[1]
      /\ \A i \in 1..n : t[i] = msgs[i + 1]
  OBVIOUS
<1>2. h \in ServerMessage
  OBVIOUS
<1> HIDE DEF h, t, n
<1>3. Adds(h, k) => k \in Merged(c, list, h)
  BY <1>2 DEF Adds, Merged, ServerMessage
<1>4. k \in list /\ ~Removes(h, k) => k \in Merged(c, list, h)
  BY <1>2 DEF Removes, Merged, ServerMessage
<1>5. CASE k \in list /\ \A i \in 1..(n + 1) : ~Removes(msgs[i], k)
  <2>1. 1 \in 1..(n + 1) /\ \A i \in 1..n : i + 1 \in 1..(n + 1)
    BY <1>1
  <2>2. k \in Merged(c, list, h) /\ \A i \in 1..n : ~Removes(t[i], k)
    BY <1>1, <1>4, <1>5, <2>1
  <2>3. QED
    BY <2>2 DEF Learns, h, t, n
<1>6. CASE \E i \in 1..(n + 1) :
             Adds(msgs[i], k) /\ \A j \in i+1..(n + 1) : ~Removes(msgs[j], k)
  <2>1. PICK i \in 1..(n + 1) :
               Adds(msgs[i], k) /\ \A j \in i+1..(n + 1) : ~Removes(msgs[j], k)
    BY <1>6
  <2>2. CASE i = 1
    <3>1. k \in Merged(c, list, h)
      BY <1>1, <1>3, <2>1, <2>2
    <3>2. \A j \in 1..n : ~Removes(t[j], k)
      <4> TAKE j \in 1..n
      <4>1. j + 1 \in i+1..(n + 1)
        BY <1>1, <2>2
      <4>2. QED
        BY <1>1, <2>1, <4>1
    <3>3. QED
      BY <3>1, <3>2 DEF Learns, h, t, n
  <2>3. CASE i # 1
    <3>1. i - 1 \in 1..n /\ (i - 1) + 1 = i
      BY <1>1, <2>3
    <3>2. Adds(t[i - 1], k)
      BY <1>1, <2>1, <3>1
    <3>3. \A j \in (i - 1) + 1..n : ~Removes(t[j], k)
      <4> TAKE j \in (i - 1) + 1..n
      <4>1. j \in 1..n /\ j + 1 \in i+1..(n + 1)
        BY <1>1, <3>1
      <4>2. QED
        BY <1>1, <2>1, <4>1
    <3>4. QED
      BY <3>1, <3>2, <3>3 DEF Learns, h, t, n
  <2>4. QED
    BY <2>2, <2>3
<1>7. QED
  BY <1>1, <1>5, <1>6 DEF Learns

(* A step does not make connection d forget: its channel is as open as     *)
(* before, and gets at most a message that takes nothing back.             *)
Remembers(d) ==
    /\ d \in open
    /\ roster'[d] = roster[d]
    /\ \/ queue'[d] = queue[d]
       \/ \E m \in ServerMessage : queue'[d] = Append(queue[d], m) /\ m.type # "peer_left"
    /\ pc[d] = "joined" => pc'[d] = "joined" /\ snapshot'[d] = snapshot[d]

(* Such a step keeps what d will know. *)
LEMMA WillKnowKept ==
  ASSUME TypeOK, NEW d \in Conns, Remembers(d), NEW k, WillKnow(d, k)
  PROVE  WillKnow(d, k)'
<1>1. CASE pc[d] = "joined" /\ k \in snapshot[d]
  BY <1>1 DEF Remembers, WillKnow
<1>2. CASE Learns(roster[d], queue[d], k)
  <2>1. CASE queue'[d] = queue[d]
    <3>1. Learns(roster'[d], queue'[d], k)
      BY <1>2, <2>1 DEF Remembers
    <3>2. QED
      BY <3>1 DEF WillKnow, Learns
  <2>2. CASE \E m \in ServerMessage : queue'[d] = Append(queue[d], m) /\ m.type # "peer_left"
    <3>1. PICK m \in ServerMessage : queue'[d] = Append(queue[d], m) /\ m.type # "peer_left"
      BY <2>2
    <3>2. queue[d] \in Seq(ServerMessage) /\ ~Removes(m, k)
      BY <3>1 DEF TypeOK, Removes
    <3>3. Learns(roster[d], Append(queue[d], m), k)
      BY <1>2, <3>2, LearnsAppend
    <3>4. Learns(roster'[d], queue'[d], k)
      BY <3>1, <3>3 DEF Remembers
    <3>5. QED
      BY <3>4 DEF WillKnow, Learns
  <2>3. QED
    BY <2>1, <2>2 DEF Remembers
<1>3. QED
  BY <1>1, <1>2, WillKnowParts

(* Every step but the five on the lists and the rooms leaves the clients   *)
(* in their sessions what they will know.                                  *)
LEMMA RemembersStep ==
  ASSUME IInv, NEW c \in Conns, Client(c) \/ Handler(c) \/ Deliver(c),
         ~AddPeer(c), ~SendPeers(c), ~RemovePeer(c), ~RemoveRoom(c), ~Deliver(c),
         NEW d \in Conns, pc[d] \in InSession, d \in open'
  PROVE  Remembers(d)
<1>0. pc \in [Conns -> Phases] /\ queue \in [Conns -> Seq(ServerMessage)]
  BY DEF IInv, TypeOK
<1>1. roster \in [Conns -> SUBSET Codes] /\ snapshot \in [Conns -> SUBSET Codes]
  BY DEF IInv, TypeOK
<1>e. \A S : \/ Sent(S, ErrorMsg)[d] = queue[d]
             \/ \E m \in ServerMessage :
                  Sent(S, ErrorMsg)[d] = Append(queue[d], m) /\ m.type # "peer_left"
  BY MessageTypes DEF Sent, ErrorMsg
<1> HIDE DEF Phases, Finished
<1> USE DEF Remembers, Goto, roomVars, chanVars
<1>2. CASE Accept(c) \/ Handshake(c)
  BY <1>0, <1>2 DEF Accept, Handshake
<1>3. CASE HandshakeFails(c) \/ AbandonRegistration(c) \/ Finish(c)
  BY <1>0, <1>1, <1>3 DEF HandshakeFails, AbandonRegistration, Finish, HandlerReturns,
                          ReturnReleasing
<1>4. CASE RejectInput(c) \/ Register(c)
  BY <1>0, <1>e, <1>4 DEF RejectInput, Register
<1>5. CASE RegisterInvalidCode(c) \/ AddPeerProbe(c) \/ AddPeerCount(c)
  BY <1>0, <1>e, <1>5 DEF RegisterInvalidCode, AddPeerProbe, AddPeerCount, Refuse
<1>6. CASE Signal(c) \/ ManualSignal(c) \/ Leave(c)
  BY <1>0, <1>e, <1>6 DEF Signal, ManualSignal, Leave
<1>7. CASE WriteTaskFails(c)
  BY <1>0, <1>7 DEF WriteTaskFails
<1>8. CASE ScanRoom(c) \/ ScanDone(c)
  <2>1. /\ UNCHANGED <<open, roster, snapshot>> /\ pc[c] = "scanning"
        /\ queue' = queue \/ queue' = Sent({c}, ErrorMsg)
        /\ \E phase : pc' = pc \/ pc' = [pc EXCEPT ![c] = phase]
    BY <1>8, Zenon DEF ScanRoom, ScanDone
  <2>2. \/ queue'[d] = queue[d]
        \/ \E m \in ServerMessage : queue'[d] = Append(queue[d], m) /\ m.type # "peer_left"
    BY <1>e, <2>1
  <2>3. pc[d] = "joined" => pc'[d] = "joined"
    BY <1>0, <2>1
  <2>4. QED
    BY <2>1, <2>2, <2>3
<1>9. CASE Relay(c)
  <2>1. code[c] \in Codes
    BY <1>9 DEF Relay, RelayBody, IInv, Known
  <2>2. SignalMsg(code[c]) \in ServerMessage /\ SignalMsg(code[c]).type # "peer_left"
    BY <2>1, MessageTypes DEF SignalMsg
  <2>3. \/ Sent({target[c]}, SignalMsg(code[c]))[d] = queue[d]
        \/ \E m \in ServerMessage :
             /\ Sent({target[c]}, SignalMsg(code[c]))[d] = Append(queue[d], m)
             /\ m.type # "peer_left"
    BY <2>2 DEF Sent
  <2>4. QED
    BY <1>0, <1>e, <1>9, <2>3 DEF Relay, RelayBody
<1>10. QED
  BY <1>2, <1>3, <1>4, <1>5, <1>6, <1>7, <1>8, <1>9 DEF Client, Handler

(* Two peers that were listed together know of each other after a step     *)
(* that neither forgets in.                                                *)
LEMMA PairKept ==
  ASSUME IInv, PeersLearnOfEachOther, NEW r \in RoomKeys, NEW p \in rooms[r], NEW q \in rooms[r],
         p # q, p \in Conns, Remembers(p), code'[q] = code[q]
  PROVE  WillKnow(p, code[q])'
<1>1. PICK k : k = code[q]
  OBVIOUS
<1>2. WillKnow(p, k)
  BY <1>1 DEF PeersLearnOfEachOther, Remembers
<1>3. WillKnow(p, k)'
  BY <1>2, WillKnowKept DEF IInv
<1>4. QED
  BY <1>1, <1>3

(* add_peer: whoever is in the room hears of the new peer, and the new     *)
(* peer's snapshot has everybody in it.                                    *)
LEMMA AddPeerLearned ==
  ASSUME IInv, PeersLearnOfEachOther, NEW c \in Conns, AddPeer(c)
  PROVE  PeersLearnOfEachOther'
<1> DEFINE others == rooms[ip[c]] \ SameCode(c)
           joined == PeerJoinedMsg(code[c])
<1>0. TypeOK /\ Known /\ RoomInv /\ UniqueCodes /\ ListedAreLive
  BY DEF IInv, RoomInv
<1>1. /\ ip[c] \in RoomKeys /\ pc[c] = "entering" /\ code[c] \in Codes
      /\ UNCHANGED <<code, open, roster>>
  BY <1>0 DEF AddPeer, AddPeerBody, Known, identVars
<1>2. \A r \in RoomKeys : \A p \in rooms[r] : p \in Conns /\ p # c /\ pc[p] \in InSession /\ ip[p] = r
  BY <1>0, <1>1 DEF ListedAreLive, TypeOK
<1> HIDE DEF Phases, Finished
<1>3. CASE Cardinality(others) >= MaxPeersPerRoom
  <2>1. rooms' = rooms
    BY <1>0, <1>3, RefusedEvictsNobody
  <2>2. pc' = [pc EXCEPT ![c] = "refused"] /\ queue' = Sent({c}, ErrorMsg) /\ snapshot' = snapshot
    BY <1>3 DEF AddPeer, AddPeerBody, Refuse, Goto
  <2>3. \A p \in Conns : p # c /\ p \in open => Remembers(p)
    BY <1>0, <1>1, <2>2 DEF Remembers, Sent, TypeOK
  <2>4. QED
    BY <1>1, <1>2, <2>1, <2>3, PairKept DEF PeersLearnOfEachOther
<1>4. CASE ~(Cardinality(others) >= MaxPeersPerRoom)
  <2>1. /\ rooms' = [rooms EXCEPT ![ip[c]] = others \cup {c}]
        /\ snapshot' = [snapshot EXCEPT ![c] = CodesOf(others)]
        /\ queue' = Sent(others, joined)
        /\ pc' = [pc EXCEPT ![c] = "joined"]
    BY <1>4 DEF AddPeer, AddPeerBody, Goto
  <2>2. /\ rooms'[ip[c]] = others \cup {c}
        /\ \A r \in RoomKeys \ {ip[c]} : rooms'[r] = rooms[r]
        /\ pc'[c] = "joined" /\ snapshot'[c] = CodesOf(others)
    BY <1>0, <1>1, <2>1 DEF TypeOK
  <2>3. joined \in ServerMessage /\ joined.type = "peer_joined" /\ joined.code = code[c]
    BY <1>1, MessageTypes DEF PeerJoinedMsg
  <2> HIDE DEF joined
  <2>4. \A p \in Conns : p # c /\ p \in open => Remembers(p)
    BY <1>0, <1>1, <2>1, <2>3 DEF Remembers, Sent, TypeOK
  <2> SUFFICES ASSUME NEW r \in RoomKeys, NEW p \in rooms'[r], NEW q \in rooms'[r],
                      p # q, p \in open
               PROVE  WillKnow(p, code[q])'
    BY <1>1 DEF PeersLearnOfEachOther
  <2>5. CASE p \in rooms[r] /\ q \in rooms[r]
    BY <1>1, <1>2, <2>4, <2>5, PairKept
  <2>6. CASE p = c
    <3>1. r = ip[c] /\ q \in others
      BY <1>2, <2>2, <2>6
    <3>2. code'[q] \in snapshot'[p]
      BY <1>1, <2>2, <2>6, <3>1 DEF CodesOf
    <3>3. QED
      BY <2>2, <2>6, <3>2 DEF WillKnow
  <2>7. CASE p # c /\ q = c
    <3>1. r = ip[c] /\ p \in others /\ p \in Conns
      BY <1>2, <2>2, <2>7
    <3>2. queue'[p] = Append(queue[p], joined) /\ queue[p] \in Seq(ServerMessage)
      BY <1>0, <2>1, <3>1 DEF Sent, TypeOK
    <3>3. Adds(joined, code[c]) /\ ~Removes(joined, code[c])
      BY <2>3 DEF Adds, Removes
    <3>4. PICK k : k = code[c]
      OBVIOUS
    <3>5. Learns(roster[p], Append(queue[p], joined), k)
      BY <2>3, <3>2, <3>3, <3>4, LearnsAppend
    <3>6. Learns(roster'[p], queue'[p], k)
      BY <1>1, <3>2, <3>5
    <3>7. WillKnow(p, k)'
      BY <3>6 DEF WillKnow, Learns
    <3>8. QED
      BY <1>1, <2>7, <3>4, <3>7
  <2>8. QED
    BY <2>2, <2>5, <2>6, <2>7
<1>5. QED
  BY <1>3, <1>4

(* The `peers` message, sent after the lock, brings what the snapshot has  *)
(* and takes nothing back that was announced in between.                   *)
LEMMA SendPeersLearned ==
  ASSUME IInv, PeersLearnOfEachOther, NEW c \in Conns, SendPeers(c)
  PROVE  PeersLearnOfEachOther'
<1> DEFINE msg == PeersMsg(snapshot[c])
<1>0. /\ TypeOK /\ \A r \in RoomKeys : rooms[r] \subseteq Conns
      /\ UNCHANGED <<code, open, roster, rooms>> /\ pc[c] = "joined"
      /\ queue' = Sent({c}, msg) /\ snapshot' = [snapshot EXCEPT ![c] = {}]
      /\ pc' = [pc EXCEPT ![c] = "active"]
  BY DEF IInv, TypeOK, SendPeers, PeersBody, Goto, identVars
<1>1. msg \in ServerMessage /\ msg.type = "peers" /\ msg.codes = snapshot[c]
  BY <1>0, MessageTypes DEF PeersMsg, TypeOK
<1> HIDE DEF msg, Phases, Finished
<1>2. \A p \in Conns : p # c /\ p \in open => Remembers(p)
  BY <1>0 DEF Remembers, Sent, TypeOK
<1> SUFFICES ASSUME NEW r \in RoomKeys, NEW p \in rooms[r], NEW q \in rooms[r], p # q, p \in open
             PROVE  WillKnow(p, code[q])'
  BY <1>0 DEF PeersLearnOfEachOther
<1>3. CASE p # c
  BY <1>0, <1>2, <1>3, PairKept
<1>4. CASE p = c
  <2>1. PICK k : k = code[q]
    OBVIOUS
  <2>2. Learns(roster[p], queue[p], k) \/ k \in snapshot[p]
    BY <2>1, WillKnowParts DEF PeersLearnOfEachOther
  <2>3. queue'[p] = Append(queue[p], msg) /\ queue[p] \in Seq(ServerMessage)
    BY <1>0, <1>4 DEF Sent, TypeOK
  <2>4. ~Removes(msg, k) /\ (k \in snapshot[p] => Adds(msg, k))
    BY <1>1, <1>4 DEF Adds, Removes
  <2>5. Learns(roster[p], Append(queue[p], msg), k)
    BY <1>1, <2>2, <2>3, <2>4, LearnsAppend
  <2>6. Learns(roster'[p], queue'[p], k)
    BY <1>0, <2>3, <2>5
  <2>7. WillKnow(p, k)'
    BY <2>6 DEF WillKnow, Learns
  <2>8. QED
    BY <1>0, <2>1, <2>7
<1>5. QED
  BY <1>3, <1>4

(* remove_peer: a peer_left names the code of the entry that went, and     *)
(* nobody else in the room has that code.                                  *)
LEMMA RemovePeerLearned ==
  ASSUME IInv, PeersLearnOfEachOther, NEW c \in Conns, RemovePeer(c)
  PROVE  PeersLearnOfEachOther'
<1> DEFINE rest == rooms[ip[c]] \ OwnEntry(c)
           left == PeerLeftMsg(code[c])
<1>0. TypeOK /\ Known /\ UniqueCodes /\ ListedAreLive
  BY DEF IInv, RoomInv
<1>1. /\ ip[c] \in RoomKeys /\ pc[c] = "leaving" /\ code[c] \in Codes
      /\ UNCHANGED <<code, open, roster, snapshot>>
      /\ rooms' = [rooms EXCEPT ![ip[c]] = rest]
      /\ queue' = IF OwnEntry(c) = {} THEN queue ELSE Sent(rest, left)
  BY <1>0 DEF RemovePeer, RemovePeerBody, Known, identVars
<1>2. \A d \in Conns : pc[d] = "joined" => pc'[d] = "joined"
  BY <1>0, <1>1 DEF RemovePeer, RemovePeerBody, Goto, TypeOK
<1>3. /\ rooms'[ip[c]] = rest
      /\ \A r \in RoomKeys \ {ip[c]} : rooms'[r] = rooms[r]
  BY <1>0, <1>1 DEF TypeOK
<1>4. \A r \in RoomKeys : \A p \in rooms[r] : p \in Conns /\ ip[p] = r
  BY <1>0 DEF ListedAreLive, TypeOK
<1>5. left \in ServerMessage /\ left.type = "peer_left" /\ left.code = code[c]
  BY <1>1, MessageTypes DEF PeerLeftMsg
<1> HIDE DEF left, Phases, Finished
<1> SUFFICES ASSUME NEW r \in RoomKeys, NEW p \in rooms'[r], NEW q \in rooms'[r], p # q, p \in open
             PROVE  WillKnow(p, code[q])'
  BY <1>1 DEF PeersLearnOfEachOther
<1>6. p \in rooms[r] /\ q \in rooms[r] /\ p \in Conns
  BY <1>3, <1>4
<1>7. CASE queue'[p] = queue[p]
  BY <1>1, <1>2, <1>6, <1>7, PairKept DEF Remembers
<1>8. CASE queue'[p] # queue[p]
  <2>1. OwnEntry(c) # {} /\ p \in rest /\ queue'[p] = Append(queue[p], left)
    BY <1>0, <1>1, <1>6, <1>8 DEF Sent, TypeOK
  <2>2. r = ip[c] /\ q \in rest
    BY <1>1, <1>3, <1>4, <1>6, <2>1
  <2>3. code[q] # code[c]
    <3>1. PICK x \in OwnEntry(c) : TRUE
      BY <2>1
    <3>2. x \in rooms[ip[c]] /\ code[x] = code[c] /\ x # q
      BY <2>2, <3>1 DEF OwnEntry, SameCode
    <3>3. QED
      BY <1>0, <1>1, <2>2, <3>2 DEF UniqueCodes
  <2>4. PICK k : k = code[q]
    OBVIOUS
  <2>5. Learns(roster[p], queue[p], k) \/ (pc[p] = "joined" /\ k \in snapshot[p])
    BY <1>6, <2>4, WillKnowParts DEF PeersLearnOfEachOther
  <2>6. CASE pc[p] = "joined" /\ k \in snapshot[p]
    <3>1. WillKnow(p, k)'
      BY <1>1, <1>2, <1>6, <2>6 DEF WillKnow
    <3>2. QED
      BY <1>1, <2>4, <3>1
  <2>7. CASE Learns(roster[p], queue[p], k)
    <3>1. ~Removes(left, k) /\ queue[p] \in Seq(ServerMessage)
      BY <1>0, <1>5, <1>6, <2>3, <2>4 DEF Removes, TypeOK
    <3>2. Learns(roster[p], Append(queue[p], left), k)
      BY <1>5, <2>7, <3>1, LearnsAppend
    <3>3. Learns(roster'[p], queue'[p], k)
      BY <1>1, <2>1, <3>2
    <3>4. WillKnow(p, k)'
      BY <3>3 DEF WillKnow, Learns
    <3>5. QED
      BY <1>1, <2>4, <3>4
  <2>8. QED
    BY <2>5, <2>6, <2>7
<1>9. QED
  BY <1>7, <1>8

(* A client takes a message off its queue. *)
LEMMA DeliverLearned ==
  ASSUME IInv, PeersLearnOfEachOther, NEW c \in Conns, Deliver(c)
  PROVE  PeersLearnOfEachOther'
<1>0. /\ TypeOK /\ UniqueCodes /\ \A r \in RoomKeys : rooms[r] \subseteq Conns
      /\ UNCHANGED <<pc, code, open, rooms, snapshot>> /\ queue[c] # <<>>
      /\ roster' = [roster EXCEPT ![c] = Merged(c, roster[c], Head(queue[c]))]
      /\ queue' = [queue EXCEPT ![c] = Tail(queue[c])]
  BY DEF IInv, RoomInv, TypeOK, Deliver, identVars, roomVars
<1> HIDE DEF Phases, Finished
<1>1. \A p \in Conns : p # c /\ p \in open => Remembers(p)
  BY <1>0 DEF Remembers, TypeOK
<1> SUFFICES ASSUME NEW r \in RoomKeys, NEW p \in rooms[r], NEW q \in rooms[r], p # q, p \in open
             PROVE  WillKnow(p, code[q])'
  BY <1>0 DEF PeersLearnOfEachOther
<1>2. CASE p # c
  BY <1>0, <1>1, <1>2, PairKept
<1>3. CASE p = c
  <2>1. PICK k : k = code[q]
    OBVIOUS
  <2>2. k # code[c]
    BY <1>0, <1>3, <2>1 DEF UniqueCodes
  <2>3. Learns(roster[c], queue[c], k) \/ (pc[c] = "joined" /\ k \in snapshot[c])
    BY <1>3, <2>1, WillKnowParts DEF PeersLearnOfEachOther
  <2>4. CASE pc[c] = "joined" /\ k \in snapshot[c]
    <3>1. WillKnow(p, k)'
      BY <1>0, <1>3, <2>4 DEF WillKnow
    <3>2. QED
      BY <1>0, <2>1, <3>1
  <2>5. CASE Learns(roster[c], queue[c], k)
    <3>1. queue[c] \in Seq(ServerMessage)
      BY <1>0 DEF TypeOK
    <3>2. Learns(Merged(c, roster[c], Head(queue[c])), Tail(queue[c]), k)
      BY <1>0, <2>2, <2>5, <3>1, LearnsDeliver
    <3>3. roster'[c] = Merged(c, roster[c], Head(queue[c])) /\ queue'[c] = Tail(queue[c])
      BY <1>0 DEF TypeOK
    <3>4. Learns(roster'[c], queue'[c], k)
      BY <3>2, <3>3
    <3>5. WillKnow(p, k)'
      BY <1>3, <3>4 DEF WillKnow, Learns
    <3>6. QED
      BY <1>0, <2>1, <3>5
  <2>6. QED
    BY <2>3, <2>4, <2>5
<1>4. QED
  BY <1>2, <1>3

(* Every step keeps what the peers of a room will know of each other. *)
LEMMA LearnedStep ==
  ASSUME IInv, PeersLearnOfEachOther, NEW c \in Conns, Client(c) \/ Handler(c) \/ Deliver(c)
  PROVE  PeersLearnOfEachOther'
<1>0. TypeOK /\ ListedAreLive
  BY DEF IInv, RoomInv
<1>1. \A r \in RoomKeys : \A p \in rooms[r] : p \in Conns /\ pc[p] \in InSession
  BY <1>0 DEF ListedAreLive, TypeOK
<1>2. CASE RemoveRoom(c)
  <2>1. /\ UNCHANGED <<code, open, queue, roster, snapshot>> /\ pc[c] = "dropping"
        /\ pc' = [pc EXCEPT ![c] = "closing"] /\ rooms' = [rooms EXCEPT ![ip[c]] = {}]
    BY <1>2 DEF RemoveRoom, Goto, identVars, chanVars
  <2>2. \A d \in Conns : pc[d] = "joined" => pc'[d] = "joined"
    BY <1>0, <2>1 DEF TypeOK
  <2>3. \A p \in Conns : p \in open => Remembers(p)
    BY <2>1, <2>2 DEF Remembers
  <2>4. \A r \in RoomKeys : rooms'[r] \subseteq rooms[r]
    BY <1>0, <2>1 DEF TypeOK
  <2>5. QED
    BY <1>1, <2>1, <2>3, <2>4, PairKept DEF PeersLearnOfEachOther
<1>3. CASE ~AddPeer(c) /\ ~SendPeers(c) /\ ~RemovePeer(c) /\ ~RemoveRoom(c) /\ ~Deliver(c)
  <2>1. Frame(c)
    BY <1>0, <1>3, FrameStep
  <2>2. rooms' = rooms /\ \A d \in Conns : pc[d] \in InSession => code'[d] = code[d]
    BY <2>1 DEF Frame
  <2>3. \A p \in Conns : pc[p] \in InSession /\ p \in open' => Remembers(p)
    BY <1>3, RemembersStep
  <2>4. QED
    BY <1>1, <2>2, <2>3, PairKept DEF PeersLearnOfEachOther
<1>4. QED
  BY <1>2, <1>3, AddPeerLearned, SendPeersLearned, RemovePeerLearned, DeliverLearned

(* Whatever registrations, teardowns and deliveries race, and however late *)
(* the `peers` message is, two peers listed in one room will know of each  *)
(* other once what is queued for them arrived.                             *)
THEOREM PeersLearn == Spec => []PeersLearnOfEachOther
<1>1. Init => PeersLearnOfEachOther
  BY DEF Init, PeersLearnOfEachOther
<1>2. IInv /\ PeersLearnOfEachOther /\ [Next]_vars => PeersLearnOfEachOther'
  <2> SUFFICES ASSUME IInv, PeersLearnOfEachOther, [Next]_vars PROVE PeersLearnOfEachOther'
    OBVIOUS
  <2>1. CASE Next
    BY <2>1, LearnedStep DEF Next
  <2>2. CASE UNCHANGED vars
    BY <2>2 DEF vars, PeersLearnOfEachOther, WillKnow
  <2>3. QED
    BY <2>1, <2>2
<1>3. QED
  BY SpecIInv, <1>1, <1>2, PTL DEF Spec

=============================================================================
