----------------------------- MODULE NatLemmas ------------------------------
(***************************************************************************)
(* Least and greatest numbers, and induction over the natural numbers in a *)
(* form without operator parameters: what the proofs about buffers and     *)
(* lists need.                                                             *)
(***************************************************************************)
EXTENDS Integers, WellFoundedInduction, TLAPS

(* A set of natural numbers has a least element. *)
LEMMA LeastNumber ==
  ASSUME NEW T, T \subseteq Nat, T # {}
  PROVE  \E x \in T : \A y \in T : x <= y
<1>1. \E x \in T : \A y \in T : ~ (<<y, x>> \in OpToRel(<, Nat))
  BY NatLessThanWellFounded, WFMin
<1>2. \A x, y \in Nat : <<y, x>> \in OpToRel(<, Nat) <=> y < x
  BY DEF OpToRel
<1>3. \E x \in T : \A y \in T : ~ (y < x)
  BY <1>1, <1>2, Zenon
<1>4. QED
  BY <1>3

(* A bounded set of natural numbers has a greatest element. *)
LEMMA GreatestNumber ==
  ASSUME NEW n \in Nat, NEW T, T \subseteq 0..n, T # {}
  PROVE  \E x \in T : \A y \in T : x >= y
<1> DEFINE Below == {k \in Nat : \E x \in T : k = n - x}
<1>1. PICK k \in Below : \A j \in Below : k <= j
  <2>1. Below # {}
    <3>1. PICK x \in T : TRUE
      OBVIOUS
    <3>2. n - x \in Nat
      BY <3>1
    <3>3. QED
      BY <3>2
  <2>2. QED
    BY <2>1, LeastNumber
<1>2. PICK x \in T : k = n - x
  OBVIOUS
<1>3. \A y \in T : n - y \in Below
  OBVIOUS
<1>4. QED
  BY <1>1, <1>2, <1>3

(* A set with 0 that is closed under successor has every natural number. *)
LEMMA SetInduction ==
  ASSUME NEW T, 0 \in T, \A n \in Nat : n \in T => n + 1 \in T
  PROVE  Nat \subseteq T
<1> DEFINE Missing == Nat \ T
<1>1. SUFFICES ASSUME Missing # {} PROVE FALSE
  OBVIOUS
<1>2. PICK x \in Missing : \A y \in Missing : x <= y
  BY <1>1, LeastNumber, Missing \subseteq Nat
<1>3. x # 0 /\ x - 1 \in Nat /\ x - 1 \notin Missing
  BY <1>2
<1>4. QED
  BY <1>3

(* The values a loop of n steps goes through, from a on. *)
IsTable(g, S, a, n, step) ==
    /\ g \in [0..n -> S]
    /\ g[0] = a
    /\ \A i \in 1..n : g[i] = step[i][g[i - 1]]

(* Every loop has such a table: the recursive function over 0..n that      *)
(* describes it exists.                                                    *)
LEMMA LoopTable ==
  ASSUME NEW S, NEW a \in S, NEW n \in Nat, NEW step \in [1..n -> [S -> S]]
  PROVE  \E g : IsTable(g, S, a, n, step)
<1> DEFINE Table(g, m) == /\ g \in [0..m -> S]
                          /\ g[0] = a
                          /\ \A i \in 1..m : g[i] = step[i][g[i - 1]]
           T == {m \in Nat : m <= n => \E g : Table(g, m)}
<1>1. 0 \in T
  <2>1. Table([i \in 0..0 |-> a], 0)
    OBVIOUS
  <2>2. QED
    BY <2>1, Zenon
<1>2. ASSUME NEW m \in Nat, m \in T, m + 1 <= n PROVE \E g : Table(g, m + 1)
  <2>1. PICK g : Table(g, m)
    <3>1. m <= n
      BY <1>2
    <3>2. QED
      BY <1>2, <3>1, Zenon
  <2> DEFINE e == step[m + 1][g[m]]
             h == [i \in 0..(m + 1) |-> IF i = m + 1 THEN e ELSE g[i]]
  <2>2. e \in S /\ m + 1 \in 1..n /\ m \in 0..m
    BY <1>2, <2>1
  <2>3. h \in [0..(m + 1) -> S] /\ h[0] = a /\ h[m + 1] = e /\ \A i \in 0..m : h[i] = g[i]
    BY <2>1, <2>2
  <2>4. \A i \in 1..(m + 1) : h[i] = step[i][h[i - 1]]
    <3> HIDE DEF h
    <3> TAKE i \in 1..(m + 1)
    <3>1. CASE i = m + 1
      BY <2>2, <2>3, <3>1
    <3>2. CASE i # m + 1
      <4>1. i \in 1..m /\ i \in 0..m /\ i - 1 \in 0..m
        BY <3>2
      <4>2. QED
        BY <2>1, <2>3, <4>1
    <3>3. QED
      BY <3>1, <3>2
  <2> HIDE DEF h
  <2>5. Table(h, m + 1)
    BY <2>3, <2>4
  <2>6. QED
    BY <2>5
<1>3. n \in T
  <2> HIDE DEF Table
  <2>1. \A m \in Nat : m \in T => m + 1 \in T
    BY <1>2
  <2> HIDE DEF T
  <2>2. QED
    BY <1>1, <2>1, SetInduction
<1>4. PICK g : Table(g, n)
  <2> HIDE DEF Table
  <2>1. QED
    BY <1>3
<1>5. QED
  BY <1>4 DEF IsTable

=============================================================================
