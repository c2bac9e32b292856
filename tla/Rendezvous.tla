---------------------------- MODULE Rendezvous ------------------------------
(***************************************************************************)
(* The bolt-rendezvous signaling server: RoomManager (signal/src/room.rs), *)
(* one handle_connection task per WebSocket (signal/src/server.rs) and the *)
(* slot limit of the accept loop (signal/src/lib.rs), together with the    *)
(* peer list a native client builds from what the server sends it          *)
(* (native/shared/src/signaling.rs).                                       *)
(*                                                                         *)
(* Handlers are tokio tasks on several threads and share one DashMap.  A   *)
(* step of the model is what one of them does atomically: everything under *)
(* one DashMap entry lock, one atomic counter operation or one channel     *)
(* send.  add_peer and remove_peer are therefore several steps each.       *)
(*                                                                         *)
(* A PeerInfo is built by the handler of connection c from its own peer    *)
(* code and sender, so a room is a set of connections; the entry's         *)
(* peer_code, sender and session_id are code[c], queue[c] and session[c].  *)
(* Device name, device type and WebTransport data are not distinguished.   *)
(***************************************************************************)
EXTENDS Integers, FiniteSets, Sequences

CONSTANTS Conns,             \* the TCP connections a behaviour may see
          Codes,             \* normalized peer codes
          NoCode,            \* no code yet
          NoConn,            \* no relay target
          Addrs,             \* IP addresses
          PrivateAddrs,      \* those for which is_private_ip holds
          TrustedProxies,    \* SignalingServer::trusted_proxies
          NoAddr,            \* a missing or unparsable header; no room yet
          Local,             \* the room key "local"
          MaxConnections,    \* SignalingServer::max_connections
          MaxRooms,          \* MAX_ROOMS
          MaxPeersPerRoom,   \* MAX_PEERS_PER_ROOM
          MaxQueue           \* bound: clients only ask for more messages
                             \* while every queue is shorter than this

ASSUME ConnsFinite == IsFiniteSet(Conns)
ASSUME NoneAreNone ==
    /\ NoCode \notin Codes
    /\ NoConn \notin Conns
    /\ NoAddr \notin Addrs
    /\ Local \notin Addrs
    /\ Local # NoAddr
ASSUME AddrKinds == PrivateAddrs \subseteq Addrs /\ TrustedProxies \subseteq Addrs
ASSUME LimitsPositive ==
    /\ MaxConnections \in Nat
    /\ MaxRooms \in Nat
    /\ MaxPeersPerRoom \in Nat \ {0}
    /\ MaxQueue \in Nat

VARIABLES
    active,      \* active_connections
    pc,          \* where the handler of each connection is
    ip,          \* client_ip: the key of the connection's room
    code,        \* peer_code the connection registered
    session,     \* session_id add_peer gave it; 0 before
    nextSession, \* NEXT_SESSION_ID
    roomKeys,    \* the keys present in RoomManager::rooms
    rooms,       \* the Vec<PeerInfo> of each key; {} where the key is absent
    snapshot,    \* codes in existing_peers, from add_peer to the `peers` send
    to,          \* the code a signal being relayed is addressed to
    unscanned,   \* rooms find_peer_manual has not iterated over yet
    target,      \* whose sender the lookup returned (PeerSender clone)
    open,        \* connections whose write task still owns the receiver
    queue,       \* the unbounded channel to each connection's write task
    roster       \* the client's peer list (Arc<Mutex<Vec<DiscoveredPeer>>>)

slotVars   == <<active>>
identVars  == <<ip, code, session, nextSession>>
roomVars   == <<roomKeys, rooms, snapshot>>
relayVars  == <<to, unscanned, target>>
chanVars   == <<open, queue, roster>>
vars == <<active, pc, ip, code, session, nextSession, roomKeys, rooms, snapshot,
          to, unscanned, target, open, queue, roster>>

----------------------------------------------------------------------------
(* Messages of the ServerMessage enum *)

PeersMsg(S)      == [type |-> "peers", codes |-> S]
PeerJoinedMsg(k) == [type |-> "peer_joined", code |-> k]
PeerLeftMsg(k)   == [type |-> "peer_left", code |-> k]
SignalMsg(k)     == [type |-> "signal", code |-> k]
ErrorMsg         == [type |-> "error"]

ServerMessage ==
    [type : {"peers"}, codes : SUBSET Codes]
      \cup [type : {"peer_joined", "peer_left", "signal"}, code : Codes]
      \cup [type : {"error"}]

(* Handler positions, in the order of handle_connection:                    *)
(* "rejected" (no slot), "handshake", "registering" (registration loop),    *)
(* "probing", "counting", "entering" (inside add_peer), "joined" (add_peer  *)
(* returned, `peers` not sent yet), "active" (message loop), "scanning"     *)
(* (find_peer_manual), "relaying" / "relayingManual" (holding the target's  *)
(* sender), "leaving" (left the loop), "dropping" (inside remove_peer,      *)
(* after the entry lock), "closing", "refused" (error queued, about to      *)
(* return), "closed".                                                       *)
Entering  == {"probing", "counting", "entering"}
InSession == {"joined", "active", "scanning", "relaying", "relayingManual", "leaving"}
Finished  == {"new", "rejected", "closed"}
Phases == Finished \cup {"handshake", "registering", "dropping", "closing", "refused"}
            \cup Entering \cup InSession

RoomKeys == (Addrs \ PrivateAddrs) \cup {Local}

Init ==
    /\ active = 0
    /\ pc = [c \in Conns |-> "new"]
    /\ ip = [c \in Conns |-> NoAddr]
    /\ code = [c \in Conns |-> NoCode]
    /\ session = [c \in Conns |-> 0]
    /\ nextSession = 1
    /\ roomKeys = {}
    /\ rooms = [r \in RoomKeys |-> {}]
    /\ snapshot = [c \in Conns |-> {}]
    /\ to = [c \in Conns |-> NoCode]
    /\ unscanned = [c \in Conns |-> {}]
    /\ target = [c \in Conns |-> NoConn]
    /\ open = {}
    /\ queue = [c \in Conns |-> <<>>]
    /\ roster = [c \in Conns |-> {}]

Goto(c, phase) == pc' = [pc EXCEPT ![c] = phase]

(* UnboundedSender::send to each connection of S; it fails, without an     *)
(* effect, where the receiver is gone.                                     *)
Sent(S, m) == [c \in Conns |-> IF c \in S \cap open THEN Append(queue[c], m) ELSE queue[c]]

CodesOf(S) == {code[p] : p \in S}

(* Bound on the environment: clients leave room in the queues. *)
Calm == \A c \in Conns : Len(queue[c]) < MaxQueue

----------------------------------------------------------------------------
(* Accepting a connection (run, try_acquire_slot) and the WebSocket         *)
(* handshake.  ConnectionSlots refines the slot step.                       *)

Accept(c) ==
    /\ pc[c] = "new"
    /\ IF active >= MaxConnections
         THEN Goto(c, "rejected") /\ UNCHANGED active
         ELSE Goto(c, "handshake") /\ active' = active + 1
    /\ UNCHANGED <<identVars, roomVars, relayVars, chanVars>>

ReturnReleasing(c, slots) ==
    /\ Goto(c, "closed")
    /\ active' = active - slots
    /\ open' = open \ {c}
    /\ queue' = [queue EXCEPT ![c] = <<>>]
    /\ roster' = [roster EXCEPT ![c] = {}]
    /\ UNCHANGED <<identVars, roomVars, relayVars>>

(* Mutants: the guard is leaked, or the slot is given back twice. *)
ReturnLeaksGuard(c)   == ReturnReleasing(c, 0)
ReturnReleaseTwice(c) == ReturnReleasing(c, 2)

(* The handler returns: its write task is aborted, which drops the          *)
(* receiver and what is still queued, and the ConnectionGuard is dropped.   *)
(* The client's own list is not looked at once its connection is gone;      *)
(* emptying it merges states that differ in nothing else.                   *)
HandlerReturns(c) == ReturnReleasing(c, 1)

(* Peek failure, a plain HTTP health check, or a failed upgrade. *)
HandshakeFails(c) ==
    /\ pc[c] = "handshake"
    /\ HandlerReturns(c)

(* Fly-Client-IP is preferred over the first X-Forwarded-For entry; NoAddr  *)
(* stands for a header that is missing or not an IP address.                *)
ForwardedFor(fly, xff) == IF fly # NoAddr THEN fly ELSE xff

(* client_ip: a forwarded address counts when the socket address is a       *)
(* trusted proxy or private; all private addresses share one room.          *)
ClientIp(addr, forwarded) ==
    LET raw == IF forwarded # NoAddr /\ addr \in TrustedProxies \cup PrivateAddrs
                 THEN forwarded ELSE addr
    IN IF raw \in PrivateAddrs THEN Local ELSE raw

Handshake(c) ==
    /\ pc[c] = "handshake"
    /\ Goto(c, "registering")
    /\ \E addr \in Addrs, fly, xff \in Addrs \cup {NoAddr} :
         ip' = [ip EXCEPT ![c] = ClientIp(addr, ForwardedFor(fly, xff))]
    /\ open' = open \cup {c}
    /\ UNCHANGED <<active, code, session, nextSession, roomVars, relayVars, queue, roster>>

----------------------------------------------------------------------------
(* Registration loop *)

(* A message answered with an error and nothing else, before or after       *)
(* registration: rate limited, oversized, malformed, binary, an invalid     *)
(* device name or target, not a register, or a second register.             *)
RejectInput(c) ==
    /\ pc[c] \in {"registering", "active"}
    /\ Calm
    /\ queue' = Sent({c}, ErrorMsg)
    /\ UNCHANGED <<active, pc, identVars, roomVars, relayVars, open, roster>>

(* Close frame, socket error or rate-limit close before registration. *)
AbandonRegistration(c) ==
    /\ pc[c] = "registering"
    /\ HandlerReturns(c)

Register(c) ==
    /\ pc[c] = "registering"
    /\ Goto(c, "probing")
    /\ \E k \in Codes : code' = [code EXCEPT ![c] = k]
    /\ UNCHANGED <<active, ip, session, nextSession, roomVars, relayVars, chanVars>>

(* An error is queued and the handler is about to abort its write task. *)
Refuse(c) ==
    /\ Goto(c, "refused")
    /\ queue' = Sent({c}, ErrorMsg)

(* validate_peer_code fails. *)
RegisterInvalidCode(c) ==
    /\ pc[c] = "registering"
    /\ Refuse(c)
    /\ UNCHANGED <<active, identVars, roomVars, relayVars, open, roster>>

----------------------------------------------------------------------------
(* RoomManager::add_peer *)

(* Take a session id; contains_key(ip). *)
AddPeerProbe(c) ==
    /\ pc[c] = "probing"
    /\ session' = [session EXCEPT ![c] = nextSession]
    /\ nextSession' = nextSession + 1
    /\ Goto(c, IF ip[c] \in roomKeys THEN "entering" ELSE "counting")
    /\ UNCHANGED <<active, ip, code, roomVars, relayVars, chanVars>>

(* The key was absent: rooms.len() >= MAX_ROOMS refuses the registration. *)
AddPeerCount(c) ==
    /\ pc[c] = "counting"
    /\ IF Cardinality(roomKeys) >= MaxRooms
         THEN Refuse(c)
         ELSE Goto(c, "entering") /\ UNCHANGED queue
    /\ UNCHANGED <<active, identVars, roomVars, relayVars, open, roster>>

(* Entries of the same peer code; position() finds the only one. *)
SameCode(c) == {p \in rooms[ip[c]] : code[p] = code[c]}

AddPeerBody(c, stale, limit) ==
    LET others == rooms[ip[c]] \ stale
    IN /\ pc[c] = "entering"
       /\ roomKeys' = roomKeys \cup {ip[c]}
       /\ IF Cardinality(others) >= limit
            THEN /\ rooms' = [rooms EXCEPT ![ip[c]] = others]
                 /\ Refuse(c)
                 /\ UNCHANGED snapshot
            ELSE /\ rooms' = [rooms EXCEPT ![ip[c]] = others \cup {c}]
                 /\ snapshot' = [snapshot EXCEPT ![c] = CodesOf(others)]
                 /\ queue' = Sent(others, PeerJoinedMsg(code[c]))
                 /\ Goto(c, "joined")
       /\ UNCHANGED <<active, identVars, relayVars, open, roster>>

(* Mutants: a reconnection does not replace the entry of the same code; the *)
(* limit test lets one peer too many in.                                    *)
AddPeerKeepsStale(c) == AddPeerBody(c, {}, MaxPeersPerRoom)
AddPeerOverLimit(c)  == AddPeerBody(c, SameCode(c), MaxPeersPerRoom + 1)

(* Everything under the entry lock: create the room if needed, replace a    *)
(* stale entry of the same code, test the room limit, take the snapshot,    *)
(* broadcast peer_joined, push.                                             *)
AddPeer(c) == AddPeerBody(c, SameCode(c), MaxPeersPerRoom)

PeersBody(c) ==
    /\ pc[c] = "joined"
    /\ queue' = Sent({c}, PeersMsg(snapshot[c]))
    /\ snapshot' = [snapshot EXCEPT ![c] = {}]
    /\ Goto(c, "active")
    /\ UNCHANGED <<active, identVars, roomKeys, rooms, relayVars, open, roster>>

(* Mutant: a bounded channel, whose send waits for the client to read. *)
SendPeersBounded(c) == queue[c] = <<>> /\ PeersBody(c)

(* handle_connection: the `peers` message, after the lock was released. *)
SendPeers(c) == PeersBody(c)

----------------------------------------------------------------------------
(* Message loop: signal and manual_signal *)

(* Mutant: find_peer searches every room. *)
FindPeerAnywhere(room, k) == {p \in UNION {rooms[r] : r \in RoomKeys} : code[p] = k}

(* RoomManager::find_peer: the entries of code k in the caller's room. *)
FindPeer(room, k) == {p \in rooms[room] : code[p] = k}

Signal(c) ==
    /\ pc[c] = "active"
    /\ Calm
    /\ \E k \in Codes :
         \/ \E p \in FindPeer(ip[c], k) :
              /\ to' = [to EXCEPT ![c] = k]
              /\ target' = [target EXCEPT ![c] = p]
              /\ Goto(c, "relaying")
              /\ UNCHANGED queue
         \/ /\ FindPeer(ip[c], k) = {}
            /\ queue' = Sent({c}, ErrorMsg)
            /\ UNCHANGED <<pc, to, target>>
    /\ UNCHANGED <<active, identVars, roomVars, unscanned, open, roster>>

(* find_peer_manual starts to iterate over the map. *)
ManualSignal(c) ==
    /\ pc[c] = "active"
    /\ Calm
    /\ \E k \in Codes : to' = [to EXCEPT ![c] = k]
    /\ unscanned' = [unscanned EXCEPT ![c] = RoomKeys]
    /\ Goto(c, "scanning")
    /\ UNCHANGED <<active, identVars, roomVars, target, chanVars>>

EndScan(c) ==
    /\ to' = [to EXCEPT ![c] = NoCode]
    /\ target' = [target EXCEPT ![c] = NoConn]
    /\ unscanned' = [unscanned EXCEPT ![c] = {}]

(* The iterator locks one shard at a time: rooms change between two steps.  *)
(* A second match makes the lookup Ambiguous.                               *)
ScanRoom(c) ==
    /\ pc[c] = "scanning"
    /\ \E r \in unscanned[c] :
         \/ /\ FindPeer(r, to[c]) = {}
            /\ unscanned' = [unscanned EXCEPT ![c] = @ \ {r}]
            /\ UNCHANGED <<pc, to, target, queue>>
         \/ \E p \in FindPeer(r, to[c]) :
              IF target[c] = NoConn
                THEN /\ target' = [target EXCEPT ![c] = p]
                     /\ unscanned' = [unscanned EXCEPT ![c] = @ \ {r}]
                     /\ UNCHANGED <<pc, to, queue>>
                ELSE /\ EndScan(c)
                     /\ queue' = Sent({c}, ErrorMsg)
                     /\ Goto(c, "active")
    /\ UNCHANGED <<active, identVars, roomVars, open, roster>>

(* The iteration is over: Found, or NotFound and an error. *)
ScanDone(c) ==
    /\ pc[c] = "scanning"
    /\ unscanned[c] = {}
    /\ IF target[c] = NoConn
         THEN /\ EndScan(c)
              /\ queue' = Sent({c}, ErrorMsg)
              /\ Goto(c, "active")
         ELSE /\ Goto(c, "relayingManual")
              /\ UNCHANGED <<relayVars, queue>>
    /\ UNCHANGED <<active, identVars, roomVars, open, roster>>

RelayBody(c) ==
    /\ pc[c] \in {"relaying", "relayingManual"}
    /\ queue' = IF target[c] \in open
                  THEN Sent({target[c]}, SignalMsg(code[c]))
                  ELSE Sent({c}, ErrorMsg)
    /\ EndScan(c)
    /\ Goto(c, "active")
    /\ UNCHANGED <<active, identVars, roomVars, open, roster>>

(* Mutant: a bounded channel, whose send waits for the target to read. *)
RelayBounded(c) == target[c] # NoConn /\ queue[target[c]] = <<>> /\ RelayBody(c)

(* target_sender.send(relay_msg), after the lookup's lock was released; an  *)
(* error goes back when the target's channel is closed.                     *)
Relay(c) == RelayBody(c)

----------------------------------------------------------------------------
(* Leaving *)

(* Mutant: the loop is left with a return, past the cleanup. *)
ReturnWithoutCleanup(c) ==
    /\ pc[c] = "active"
    /\ Goto(c, "closing")
    /\ UNCHANGED <<active, identVars, roomVars, relayVars, chanVars>>

(* Idle timeout, close frame, end of stream, socket error, rate-limit close. *)
Leave(c) ==
    /\ pc[c] = "active"
    /\ Goto(c, "leaving")
    /\ UNCHANGED <<active, identVars, roomVars, relayVars, chanVars>>

RemovePeerBody(c, gone, emptied, silent) ==
    LET rest == rooms[ip[c]] \ gone
    IN /\ pc[c] = "leaving"
       /\ rooms' = [rooms EXCEPT ![ip[c]] = rest]
       /\ queue' = IF silent THEN queue ELSE Sent(rest, PeerLeftMsg(code[c]))
       /\ Goto(c, IF gone # {} /\ rest = {} THEN emptied ELSE "closing")
       /\ UNCHANGED <<active, identVars, roomKeys, snapshot, relayVars, open, roster>>

OwnEntry(c) == {p \in SameCode(c) : session[p] = session[c]}

(* Mutants: remove_peer matches the peer code alone; an emptied room is not *)
(* cleaned up; peer_left is broadcast although the session was replaced.    *)
RemovePeerByCode(c)    == RemovePeerBody(c, SameCode(c), "dropping", SameCode(c) = {})
RemovePeerKeepsRoom(c) == RemovePeerBody(c, OwnEntry(c), "closing", OwnEntry(c) = {})
RemovePeerAlwaysTells(c) == RemovePeerBody(c, OwnEntry(c), "dropping", FALSE)

(* RoomManager::remove_peer under the entry lock: retain, broadcast         *)
(* peer_left, is_empty.  Nothing happens when the session was replaced.     *)
RemovePeer(c) == RemovePeerBody(c, OwnEntry(c), "dropping", OwnEntry(c) = {})

(* remove_peer after the lock: rooms.remove(ip), whatever is in the room.   *)
RemoveRoom(c) ==
    /\ pc[c] = "dropping"
    /\ roomKeys' = roomKeys \ {ip[c]}
    /\ rooms' = [rooms EXCEPT ![ip[c]] = {}]
    /\ Goto(c, "closing")
    /\ UNCHANGED <<active, identVars, snapshot, relayVars, chanVars>>

(* Mutant: the write task is drained, not aborted. *)
FinishWhenDrained(c) ==
    /\ pc[c] \in {"refused", "closing"}
    /\ queue[c] = <<>>
    /\ HandlerReturns(c)

(* write_task.abort() and return. *)
Finish(c) ==
    /\ pc[c] \in {"refused", "closing"}
    /\ HandlerReturns(c)

----------------------------------------------------------------------------
(* The write task and the client *)

(* The event callback of BoltSignaling: `peers` is merged into the list,    *)
(* never replaces it; the client skips its own code.                        *)
Merged(c, list, m) ==
    CASE m.type = "peers"       -> list \cup (m.codes \ {code[c]})
      [] m.type = "peer_joined" -> list \cup ({m.code} \ {code[c]})
      [] m.type = "peer_left"   -> list \ {m.code}
      [] OTHER                  -> list

Deliver(c) ==
    /\ c \in open
    /\ queue[c] # <<>>
    /\ roster' = [roster EXCEPT ![c] = Merged(c, @, Head(queue[c]))]
    /\ queue' = [queue EXCEPT ![c] = Tail(@)]
    /\ UNCHANGED <<active, pc, identVars, roomVars, relayVars, open>>

(* ws_sink.send fails: the write task ends and drops the receiver while the *)
(* handler goes on reading.                                                 *)
WriteTaskFails(c) ==
    /\ c \in open
    /\ queue[c] # <<>>
    /\ open' = open \ {c}
    /\ queue' = [queue EXCEPT ![c] = <<>>]
    /\ UNCHANGED <<active, pc, identVars, roomVars, relayVars, roster>>

----------------------------------------------------------------------------
(* What the client or the network decides, and what a scheduled task does.  *)
Client(c) ==
    \/ Accept(c) \/ Handshake(c) \/ HandshakeFails(c)
    \/ RejectInput(c) \/ AbandonRegistration(c) \/ Register(c) \/ RegisterInvalidCode(c)
    \/ Signal(c) \/ ManualSignal(c) \/ Leave(c) \/ WriteTaskFails(c)

Handler(c) ==
    \/ AddPeerProbe(c) \/ AddPeerCount(c) \/ AddPeer(c) \/ SendPeers(c)
    \/ ScanRoom(c) \/ ScanDone(c) \/ Relay(c)
    \/ RemovePeer(c) \/ RemoveRoom(c) \/ Finish(c)

Next == \E c \in Conns : Client(c) \/ Handler(c) \/ Deliver(c)

Spec == Init /\ [][Next]_vars

(* Handlers never block: channel sends are unbounded and the DashMap locks  *)
(* are held for a few instructions, so a scheduled handler takes its next   *)
(* step.  Clients and sockets (Client, Deliver) are owed nothing.           *)
FairSpec == Spec /\ \A c \in Conns : WF_vars(Handler(c))

(* With IDLE_TIMEOUT: a connection that sits in the message loop leaves it. *)
IdleFairSpec == FairSpec /\ \A c \in Conns : WF_vars(Leave(c))

----------------------------------------------------------------------------
(* Type invariant *)

TypeOK ==
    /\ active \in Nat
    /\ pc \in [Conns -> Phases]
    /\ ip \in [Conns -> RoomKeys \cup {NoAddr}]
    /\ code \in [Conns -> Codes \cup {NoCode}]
    /\ session \in [Conns -> Nat]
    /\ nextSession \in Nat \ {0}
    /\ roomKeys \subseteq RoomKeys
    /\ rooms \in [RoomKeys -> SUBSET Conns]
    /\ snapshot \in [Conns -> SUBSET Codes]
    /\ to \in [Conns -> Codes \cup {NoCode}]
    /\ unscanned \in [Conns -> SUBSET RoomKeys]
    /\ target \in [Conns -> Conns \cup {NoConn}]
    /\ open \subseteq Conns
    /\ queue \in [Conns -> Seq(ServerMessage)]
    /\ roster \in [Conns -> SUBSET Codes]

----------------------------------------------------------------------------
(* Safety *)

(* Every path out of handle_connection, before or after registration, gives *)
(* exactly one slot back: active_connections counts the running handlers.   *)
SlotsExact == active = Cardinality({c \in Conns : pc[c] \notin Finished})

(* Two connections that register the same code from the same address at    *)
(* the same time, in any order of their session ids and locks, never both  *)
(* end up listed: add_peer replaces under the entry lock, so find_peer's   *)
(* first match is the only one.                                            *)
UniqueCodes ==
    \A r \in RoomKeys : \A p, q \in rooms[r] : code[p] = code[q] => p = q

(* An entry never outlives its connection: whoever is listed in a room is  *)
(* a handler between add_peer and its own remove_peer, of that room, so    *)
(* every path out of handle_connection after registration cleans up.       *)
ListedAreLive ==
    \A r \in RoomKeys : \A p \in rooms[r] : pc[p] \in InSession /\ ip[p] = r

(* MAX_PEERS_PER_ROOM holds although a reconnection is let into a full      *)
(* room: add_peer tests the limit after it removed the replaced entry.      *)
RoomLimit == \A r \in RoomKeys : Cardinality(rooms[r]) <= MaxPeersPerRoom

(* remove_peer "cleans up the room entry if it becomes empty": a key whose  *)
(* room is empty is there only while the handler that emptied it (or an     *)
(* earlier one) is about to call rooms.remove.                              *)
EmptyRoomsReclaimed ==
    \A r \in roomKeys : rooms[r] = {} => \E c \in Conns : pc[c] = "dropping" /\ ip[c] = r

(* Registrations from several new addresses can pass the MAX_ROOMS test     *)
(* together, and a room can be removed under a peer that stays; still the   *)
(* map never has more rooms than running handlers, so what really bounds it *)
(* is the limit on connections.                                             *)
RoomsWithinSlots == Cardinality(roomKeys) <= active

(* A relay in flight goes to a connection that registered the code the      *)
(* sender named, and find_peer keeps it inside the sender's room; only the  *)
(* manual path crosses rooms.  Holds after the lookup's lock is released,   *)
(* while the target may be replaced or leave.                               *)
SignalRouting ==
    \A c \in Conns : target[c] # NoConn =>
        /\ code[target[c]] = to[c]
        /\ pc[c] = "relaying" => ip[target[c]] = ip[c]

(* What connection c's client will know of code k once everything queued    *)
(* for it, and the `peers` message its handler has still to send, arrived.  *)
Adds(m, k) == \/ m.type = "peers" /\ k \in m.codes
              \/ m.type = "peer_joined" /\ m.code = k
Removes(m, k) == m.type = "peer_left" /\ m.code = k

WillKnow(c, k) ==
    \/ k \in roster[c] /\ \A i \in 1..Len(queue[c]) : ~Removes(queue[c][i], k)
    \/ \E i \in 1..Len(queue[c]) :
         Adds(queue[c][i], k) /\ \A j \in i+1..Len(queue[c]) : ~Removes(queue[c][j], k)
    \/ pc[c] = "joined" /\ k \in snapshot[c]

(* Two peers listed in one room will know of each other: the snapshot, the  *)
(* peer_joined / peer_left broadcasts under the lock and the late `peers`   *)
(* message leave no join unseen, whatever their order in the queue.         *)
PeersLearnOfEachOther ==
    \A r \in RoomKeys : \A p, q \in rooms[r] :
        p # q /\ p \in open => WillKnow(p, code[q])

----------------------------------------------------------------------------
(* Action properties *)

(* DP-5: while its room exists, an entry disappears only because its own    *)
(* handler removes it or a new connection of the same code takes its place; *)
(* the teardown of a stale connection never removes its replacement, and a  *)
(* registration refused for a full room evicts nobody.                      *)
EntryChange ==
    \A r \in RoomKeys : \A p \in rooms[r] \ rooms'[r] :
        r \in roomKeys' =>
          \/ pc[p] = "leaving" /\ pc'[p] # "leaving"
          \/ \E q \in rooms'[r] \ rooms[r] : code[q] = code[p]
TeardownSparesOthers == [][EntryChange]_vars

(* The server implements the abstract slot pool: no path through            *)
(* handle_connection (failed upgrade, refused or abandoned registration,    *)
(* teardown with or without rooms.remove) holds two slots, keeps one, or    *)
(* makes the accept loop turn a client away while a slot is free.  Proved   *)
(* in RendezvousProofs.                                                     *)
Pool == INSTANCE SlotPool
          WITH holders <- {c \in Conns : pc[c] \notin Finished},
               turnedAway <- {c \in Conns : pc[c] = "rejected"}
ImplementsSlotPool == Pool!Spec

----------------------------------------------------------------------------
(* Liveness, under FairSpec *)

(* A handler that left its message loop releases its slot, whatever clients *)
(* whose sockets are stalled or dead it still has to notify.                *)
TeardownCompletes == \A c \in Conns : pc[c] = "leaving" ~> pc[c] = "closed"

(* A register message is answered: add_peer returns in finitely many steps, *)
(* with the connection in the message loop or refused.                      *)
RegistrationDecided ==
    \A c \in Conns : pc[c] = "probing" ~> pc[c] \in {"active", "refused"}

(* A lookup and relay in progress ends and the handler reads again, also    *)
(* when rooms come and go during the scan of find_peer_manual.              *)
RelayEnds ==
    \A c \in Conns : pc[c] \in {"scanning", "relaying"} ~> pc[c] = "active"

----------------------------------------------------------------------------
(* What the repository's comments claim and the code does not do.  Each is  *)
(* checked by a run of its own, which finds a counterexample.               *)

(* "All methods are safe to call concurrently from multiple tasks"          *)
(* (RoomManager): a connection in its session is listed in its room unless  *)
(* another connection took over its code.                                   *)
Replaced(c) == \E d \in Conns \ {c} :
    /\ code[d] = code[c] /\ ip[d] = ip[c]
    /\ pc[d] \notin Entering \cup {"registering"}
RegisteredIsListed ==
    \A c \in Conns : pc[c] \in InSession => c \in rooms[ip[c]] \/ Replaced(c)

(* "Full list of peers currently in the same IP room (sent on               *)
(* registration)" (ServerMessage::Peers): once no handler is in the middle  *)
(* of anything and its queue is empty, a listed client's peer list names    *)
(* only peers of its room.                                                  *)
Quiet == \A c \in Conns : pc[c] \in Finished \cup {"registering", "active"}
NoGhostPeers ==
    Quiet => \A r \in RoomKeys : \A p \in rooms[r] :
        p \in open /\ queue[p] = <<>> => roster[p] \subseteq CodesOf(rooms[r])

(* "Drop the old sender to close the stale connection" (add_peer): a        *)
(* connection whose code another one took over ends.  Checked under         *)
(* IdleFairSpec: the old handler owns a sender of its own, so its channel   *)
(* stays open and its client can go on signalling under the code.           *)
StaleConnectionEnds ==
    \A c \in Conns :
        (pc[c] = "active" /\ \E d \in rooms[ip[c]] \ {c} : code[d] = code[c])
          ~> pc[c] = "closed"

=============================================================================
