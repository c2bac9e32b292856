------------------------------ MODULE SlotPool ------------------------------
(***************************************************************************)
(* What the connection limit of the signaling server promises (AC-22,      *)
(* signal/src/lib.rs): at most MaxConnections handlers hold a slot, a      *)
(* connection is turned away only at a moment when every slot is taken,    *)
(* and a slot is given back once, by the connection that held it.          *)
(*                                                                         *)
(* Abstract specification.  ConnectionSlots (the lock-free counter) and    *)
(* Rendezvous (the whole server) are both shown to implement it.           *)
(***************************************************************************)
EXTENDS Integers, FiniteSets

CONSTANTS Conns,           \* the TCP connections a behaviour may see
          MaxConnections   \* SignalingServer::max_connections

VARIABLES holders,         \* connections that hold a slot
          turnedAway       \* connections dropped because the limit was reached

poolVars == <<holders, turnedAway>>

Init ==
    /\ holders = {}
    /\ turnedAway = {}

Acquire(c) ==
    /\ c \notin holders \cup turnedAway
    /\ Cardinality(holders) < MaxConnections
    /\ holders' = holders \cup {c}
    /\ UNCHANGED turnedAway

TurnAway(c) ==
    /\ c \notin holders \cup turnedAway
    /\ Cardinality(holders) >= MaxConnections
    /\ turnedAway' = turnedAway \cup {c}
    /\ UNCHANGED holders

Release(c) ==
    /\ c \in holders
    /\ holders' = holders \ {c}
    /\ UNCHANGED turnedAway

Next == \E c \in Conns : Acquire(c) \/ TurnAway(c) \/ Release(c)

Spec == Init /\ [][Next]_poolVars

=============================================================================
