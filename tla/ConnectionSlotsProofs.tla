----------------------- MODULE ConnectionSlotsProofs ------------------------
(***************************************************************************)
(* Proofs about ConnectionSlots, for every number of connections and every *)
(* limit: the counter is exact, the limit holds, and the compare_exchange  *)
(* loop implements the abstract SlotPool.                                  *)
(***************************************************************************)
EXTENDS ConnectionSlots, FiniteSetTheorems, TLAPS

(* The inductive invariant: a connection about to swap has loaded a value  *)
(* below the limit.                                                        *)
SwapBelowLimit == \A c \in Conns : status[c] = "swapping" => current < MaxConnections

IInv == TypeOK /\ CounterExact /\ NoOverSubscription /\ SwapBelowLimit

(* Served is a finite set whose size is a natural number. *)
LEMMA ServedFinite ==
  /\ IsFiniteSet(Served)
  /\ Cardinality(Served) \in Nat
<1>1. Served \subseteq Conns
  BY DEF Served
<1>2. QED
  BY <1>1, ConnsFinite, FS_Subset, FS_CardinalityType

(* How one change of status changes Served and its size. *)
LEMMA ServedJoin ==
  ASSUME TypeOK, NEW c \in Conns, status[c] # "served",
         status' = [status EXCEPT ![c] = "served"]
  PROVE  Served' = Served \cup {c} /\ Cardinality(Served') = Cardinality(Served) + 1
<1>1. Served' = Served \cup {c}
  BY DEF Served, TypeOK
<1>2. c \notin Served
  BY DEF Served
<1>3. QED
  BY <1>1, <1>2, ServedFinite, FS_AddElement

(* A dropped guard takes its connection out of Served. *)
LEMMA ServedPart ==
  ASSUME TypeOK, NEW c \in Conns, status[c] = "served",
         status' = [status EXCEPT ![c] = "done"]
  PROVE  /\ Served' = Served \ {c}
         /\ Cardinality(Served') = Cardinality(Served) - 1
         /\ Cardinality(Served) > 0
<1>1. Served' = Served \ {c}
  BY DEF Served, TypeOK
<1>2. c \in Served
  BY DEF Served
<1>3. Cardinality(Served') = Cardinality(Served) - 1
  BY <1>1, <1>2, ServedFinite, FS_RemoveElement
<1>4. IsFiniteSet(Served') /\ Cardinality(Served') \in Nat
  <2>1. IsFiniteSet(Served')
    BY <1>1, ServedFinite, FS_RemoveElement
  <2>2. QED
    BY <2>1, FS_CardinalityType
<1>5. QED
  BY <1>1, <1>3, <1>4, ServedFinite

(* Other changes of status leave Served alone. *)
LEMMA ServedSame ==
  ASSUME TypeOK, NEW c \in Conns, status[c] # "served", NEW s, s # "served",
         status' = [status EXCEPT ![c] = s]
  PROVE  Served' = Served
  BY DEF Served, TypeOK

----------------------------------------------------------------------------
(* The counter starts at zero with nobody served. *)
LEMMA InitIInv == Init => IInv
<1> SUFFICES ASSUME Init PROVE IInv
  OBVIOUS
<1>1. Served = {}
  BY DEF Init, Served
<1>2. Cardinality(Served) = 0
  BY <1>1, FS_EmptySet
<1>3. TypeOK /\ SwapBelowLimit
  BY DEF Init, TypeOK, Statuses, SwapBelowLimit
<1>4. QED
  BY <1>2, <1>3, MaxConnectionsNat DEF Init, IInv, CounterExact, NoOverSubscription

(* Every step of the accept loop and of a guard keeps the invariant. *)
LEMMA NextIInv == IInv /\ [Next]_vars => IInv'
<1> SUFFICES ASSUME IInv, [Next]_vars PROVE IInv'
  OBVIOUS
<1> USE MaxConnectionsNat
<1>t. TypeOK /\ active = Cardinality(Served) /\ Cardinality(Served) <= MaxConnections
  BY DEF IInv, CounterExact, NoOverSubscription
<1>1. ASSUME NEW c \in Conns, Accept(c) PROVE IInv'
  <2>1. Served' = Served
    BY <1>1, <1>t, ServedSame DEF Accept
  <2>2. TypeOK' /\ SwapBelowLimit'
    BY <1>1, <1>t DEF Accept, IInv, TypeOK, Statuses, SwapBelowLimit
  <2>3. QED
    BY <1>1, <1>t, <2>1, <2>2 DEF Accept, IInv, CounterExact, NoOverSubscription
<1>2. ASSUME NEW c \in Conns, Load(c) PROVE IInv'
  <2>1. Served' = Served
    BY <1>2, <1>t, ServedSame DEF Load
  <2>2. TypeOK'
    BY <1>2, <1>t DEF Load, TypeOK, Statuses
  <2>3. SwapBelowLimit'
    BY <1>2, <1>t DEF Load, IInv, TypeOK, SwapBelowLimit
  <2>4. QED
    BY <1>2, <1>t, <2>1, <2>2, <2>3 DEF Load, IInv, CounterExact, NoOverSubscription
<1>3. ASSUME NEW c \in Conns, CompareExchange(c) PROVE IInv'
  <2>1. TypeOK'
    BY <1>3, <1>t DEF CompareExchange, TypeOK, Statuses
  <2>2. SwapBelowLimit'
    BY <1>3, <1>t DEF CompareExchange, IInv, TypeOK, SwapBelowLimit
  <2>3. CASE active = current
    <3>1. Cardinality(Served') = Cardinality(Served) + 1
      BY <1>3, <1>t, <2>3, ServedJoin DEF CompareExchange
    <3>2. current < MaxConnections
      BY <1>3 DEF CompareExchange, IInv, SwapBelowLimit
    <3>3. active' = Cardinality(Served') /\ Cardinality(Served') <= MaxConnections
      <4>1. active' = active + 1
        BY <1>3, <2>3 DEF CompareExchange
      <4>2. active \in Nat /\ active + 1 <= MaxConnections
        BY <1>t, <2>3, <3>2 DEF TypeOK
      <4>3. QED
        BY <1>t, <3>1, <4>1, <4>2
    <3>4. QED
      BY <2>1, <2>2, <3>3 DEF IInv, CounterExact, NoOverSubscription
  <2>4. CASE active # current
    <3>1. Served' = Served
      BY <1>3, <1>t, <2>4, ServedSame DEF CompareExchange
    <3>2. QED
      BY <1>3, <1>t, <2>1, <2>2, <2>4, <3>1
         DEF CompareExchange, IInv, CounterExact, NoOverSubscription
  <2>5. QED
    BY <2>3, <2>4
<1>4. ASSUME NEW c \in Conns, DropGuard(c) PROVE IInv'
  <2>1. /\ Cardinality(Served') = Cardinality(Served) - 1
        /\ Cardinality(Served) > 0
    BY <1>4, <1>t, ServedPart DEF DropGuard
  <2>2. TypeOK'
    BY <1>4, <1>t, <2>1 DEF DropGuard, TypeOK, Statuses
  <2>3. SwapBelowLimit'
    BY <1>4, <1>t DEF DropGuard, IInv, TypeOK, SwapBelowLimit
  <2>4. QED
    BY <1>4, <1>t, <2>1, <2>2, <2>3
       DEF DropGuard, IInv, TypeOK, CounterExact, NoOverSubscription
<1>5. CASE UNCHANGED vars
  BY <1>5 DEF vars, IInv, TypeOK, CounterExact, NoOverSubscription, SwapBelowLimit, Served
<1>6. QED
  BY <1>1, <1>2, <1>3, <1>4, <1>5 DEF Next

(* The invariant holds in every reachable state. *)
LEMMA SpecIInv == Spec => []IInv
  BY InitIInv, NextIInv, PTL DEF Spec

----------------------------------------------------------------------------
(* The atomic counter of SignalingServer stays a natural number: no drop of *)
(* a ConnectionGuard takes it below zero.                                   *)
THEOREM TypeCorrect == Spec => []TypeOK
<1>1. IInv => TypeOK
  BY DEF IInv
<1>2. QED
  BY <1>1, SpecIInv, PTL

(* active_connections is exact in every interleaving of guard drops with    *)
(* try_acquire_slot.                                                        *)
THEOREM CounterIsExact == Spec => []CounterExact
<1>1. IInv => CounterExact
  BY DEF IInv
<1>2. QED
  BY <1>1, SpecIInv, PTL

(* try_acquire_slot never over-subscribes, for any limit. *)
THEOREM NeverOverSubscribed == Spec => []NoOverSubscription
<1>1. IInv => NoOverSubscription
  BY DEF IInv
<1>2. QED
  BY <1>1, SpecIInv, PTL

(* The load / compare_exchange loop and ConnectionGuard implement the       *)
(* abstract slot pool: every step is an acquisition, a rejection at a       *)
(* moment when all slots are held, a release, or invisible.                 *)
THEOREM SlotsImplementPool == Spec => ImplementsSlotPool
<1>0. \A S : Pool!Cardinality(S) = Cardinality(S)
  BY DEF Pool!Cardinality, Cardinality
<1> DEFINE Rejected == {c \in Conns : status[c] = "rejected"}
<1>1. Init => Pool!Init
  BY DEF Init, Pool!Init, Served
<1>2. ASSUME IInv, [Next]_vars PROVE [Pool!Next]_(Pool!poolVars)
  <2> USE MaxConnectionsNat
  <2>t. TypeOK /\ active = Cardinality(Served)
    BY <1>2 DEF IInv, CounterExact
  <2>1. ASSUME NEW c \in Conns, Accept(c) PROVE UNCHANGED <<Served, Rejected>>
    BY <2>1, <2>t DEF Accept, TypeOK, Served
  <2>2. ASSUME NEW c \in Conns, Load(c)
        PROVE  UNCHANGED <<Served, Rejected>> \/ Pool!TurnAway(c)
    <3>1. Served' = Served
      BY <2>2, <2>t, ServedSame DEF Load
    <3>2. CASE active >= MaxConnections
      <4>1. Rejected' = Rejected \cup {c} /\ c \notin Served \cup Rejected
        BY <2>2, <3>2, <2>t DEF Load, TypeOK, Served
      <4>2. QED
        BY <1>0, <3>1, <3>2, <4>1, <2>t DEF Pool!TurnAway
    <3>3. CASE ~(active >= MaxConnections)
      BY <2>2, <3>1, <3>3, <2>t DEF Load, TypeOK
    <3>4. QED
      BY <3>2, <3>3
  <2>3. ASSUME NEW c \in Conns, CompareExchange(c)
        PROVE  UNCHANGED <<Served, Rejected>> \/ Pool!Acquire(c)
    <3>1. Rejected' = Rejected /\ c \notin Served \cup Rejected
      BY <2>3, <2>t DEF CompareExchange, TypeOK, Served
    <3>2. CASE active = current
      <4>1. Served' = Served \cup {c}
        BY <2>3, <3>2, <2>t, ServedJoin DEF CompareExchange
      <4>2. Cardinality(Served) < MaxConnections
        BY <2>3, <3>2, <2>t, <1>2 DEF CompareExchange, IInv, SwapBelowLimit
      <4>3. QED
        BY <1>0, <3>1, <4>1, <4>2 DEF Pool!Acquire
    <3>3. CASE active # current
      BY <2>3, <3>1, <3>3, <2>t, ServedSame DEF CompareExchange
    <3>4. QED
      BY <3>2, <3>3
  <2>4. ASSUME NEW c \in Conns, DropGuard(c) PROVE Pool!Release(c)
    <3>1. Served' = Served \ {c} /\ c \in Served
      BY <2>4, <2>t, ServedPart DEF DropGuard, Served
    <3>2. Rejected' = Rejected
      BY <2>4, <2>t DEF DropGuard, TypeOK
    <3>3. QED
      BY <3>1, <3>2 DEF Pool!Release
  <2>5. CASE UNCHANGED vars
    BY <2>5 DEF vars, Pool!poolVars, Served
  <2>6. QED
    BY <1>2, <2>1, <2>2, <2>3, <2>4, <2>5 DEF Next, Pool!Next, Pool!poolVars
<1>3. QED
  BY <1>1, <1>2, SpecIInv, PTL DEF Spec, ImplementsSlotPool, Pool!Spec

=============================================================================
