-------------------------- MODULE ConnectionSlots ---------------------------
(***************************************************************************)
(* The connection-slot counter of SignalingServer (signal/src/lib.rs).     *)
(*                                                                         *)
(* The accept loop of `run` handles one connection at a time and takes a   *)
(* slot with a load / compare_exchange loop; the handler tasks it spawned  *)
(* run concurrently and give their slots back by dropping a                *)
(* ConnectionGuard, at any moment, also between the load and the           *)
(* compare_exchange.  Every access to the AtomicUsize is one step.         *)
(***************************************************************************)
EXTENDS Integers, FiniteSets

CONSTANTS Conns,           \* the TCP connections a behaviour may see
          MaxConnections   \* SignalingServer::max_connections (0 rejects all)

ASSUME ConnsFinite == IsFiniteSet(Conns)
ASSUME MaxConnectionsNat == MaxConnections \in Nat

VARIABLES active,          \* active_connections: Arc<AtomicUsize>
          current,         \* the accept loop's local `current`
          status           \* where each connection is

vars == <<active, current, status>>

(* "loading": accepted, try_acquire_slot is about to load the counter.     *)
(* "swapping": the counter was loaded and is below the limit.              *)
(* "served": its handler task runs and owns a ConnectionGuard.             *)
Statuses == {"new", "loading", "swapping", "served", "rejected", "done"}

Served == {c \in Conns : status[c] = "served"}

Init ==
    /\ active = 0
    /\ current = 0
    /\ status = [c \in Conns |-> "new"]

----------------------------------------------------------------------------
(* `run`: listener.accept() returns a stream; the loop body is sequential. *)
Accept(c) ==
    /\ status[c] = "new"
    /\ \A d \in Conns : status[d] \notin {"loading", "swapping"}
    /\ status' = [status EXCEPT ![c] = "loading"]
    /\ UNCHANGED <<active, current>>

(* Mutant: an off-by-one in the limit test. *)
LoadOffByOne(c) ==
    /\ status[c] = "loading"
    /\ IF active > MaxConnections
         THEN /\ status' = [status EXCEPT ![c] = "rejected"]
              /\ UNCHANGED current
         ELSE /\ status' = [status EXCEPT ![c] = "swapping"]
              /\ current' = active
    /\ UNCHANGED active

(* try_acquire_slot: the load and the limit test; at the limit the stream  *)
(* is dropped without a handler.                                           *)
Load(c) ==
    /\ status[c] = "loading"
    /\ IF active >= MaxConnections
         THEN /\ status' = [status EXCEPT ![c] = "rejected"]
              /\ UNCHANGED current
         ELSE /\ status' = [status EXCEPT ![c] = "swapping"]
              /\ current' = active
    /\ UNCHANGED active

(* Mutant: a plain store of current + 1 in place of compare_exchange. *)
BlindStore(c) ==
    /\ status[c] = "swapping"
    /\ active' = current + 1
    /\ status' = [status EXCEPT ![c] = "served"]
    /\ UNCHANGED current

(* Mutant: the retry reuses the stale `current` and never loads again. *)
RetryWithoutLoad(c) ==
    /\ status[c] = "swapping"
    /\ active = current
    /\ active' = current + 1
    /\ status' = [status EXCEPT ![c] = "served"]
    /\ UNCHANGED current

(* try_acquire_slot: the compare_exchange; on success the handler task is  *)
(* spawned with the guard, on failure the loop starts again.               *)
CompareExchange(c) ==
    /\ status[c] = "swapping"
    /\ IF active = current
         THEN /\ active' = current + 1
              /\ status' = [status EXCEPT ![c] = "served"]
         ELSE /\ status' = [status EXCEPT ![c] = "loading"]
              /\ UNCHANGED active
    /\ UNCHANGED current

(* Mutant: the slot is given back twice, by the handler and by the guard. *)
DropGuardTwice(c) ==
    /\ status[c] = "served"
    /\ active' = active - 2
    /\ status' = [status EXCEPT ![c] = "done"]
    /\ UNCHANGED current

(* The handler returned (or panicked): ConnectionGuard::drop. *)
DropGuard(c) ==
    /\ status[c] = "served"
    /\ active' = active - 1
    /\ status' = [status EXCEPT ![c] = "done"]
    /\ UNCHANGED current

Next == \E c \in Conns : \/ Accept(c)
                         \/ Load(c)
                         \/ CompareExchange(c)
                         \/ DropGuard(c)

Spec == Init /\ [][Next]_vars

(* A runnable accept loop takes its next step; so does a handler that      *)
(* returns.  Whether a handler ever returns is the client's choice, so     *)
(* DropGuard gets no fairness.                                             *)
Fairness == \A c \in Conns : WF_vars(Load(c)) /\ WF_vars(CompareExchange(c))

FairSpec == Spec /\ Fairness

----------------------------------------------------------------------------
(* Type invariant of the slot counter. *)
TypeOK ==
    /\ active \in Nat
    /\ current \in Nat
    /\ status \in [Conns -> Statuses]

(* The counter is exact: it equals the number of handlers that own a       *)
(* guard, whatever drops race with the compare_exchange loop of            *)
(* try_acquire_slot, so slots neither leak nor go negative.                *)
CounterExact == active = Cardinality(Served)

(* "ensuring no over-subscription" (try_acquire_slot): never more handlers *)
(* than max_connections.                                                   *)
NoOverSubscription == Cardinality(Served) <= MaxConnections

(* The compare_exchange loop and the guards implement the abstract pool:   *)
(* in particular a connection is rejected only at a moment when every slot *)
(* is held.                                                                *)
Pool == INSTANCE SlotPool
          WITH holders <- Served,
               turnedAway <- {c \in Conns : status[c] = "rejected"}
ImplementsSlotPool == Pool!Spec

(* The accept loop of `run` is never stuck in try_acquire_slot: every      *)
(* accepted connection is eventually served or rejected, because a failed  *)
(* compare_exchange means some handler gave a slot back.                   *)
AcceptDecides ==
    \A c \in Conns : status[c] = "loading" ~> status[c] \in {"served", "rejected", "done"}

=============================================================================
