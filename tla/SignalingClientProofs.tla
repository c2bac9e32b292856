----------------------- MODULE SignalingClientProofs ------------------------
(***************************************************************************)
(* Proofs about SignalingClient, for any planes, any peer codes, any       *)
(* number of callbacks and any number of signals.                          *)
(***************************************************************************)
EXTENDS SignalingClient, SequenceTheorems, NatLemmas, TLAPS

(* Pushing a peer keeps the list free of repetitions and of this device,   *)
(* and adds the peer unless it is this device.                             *)
LEMMA AddedPeer ==
  ASSUME NEW list \in PeerListType, NEW c \in Codes
  PROVE  /\ Added(list, c) \in PeerListType
         /\ Range(Added(list, c)) = Range(list) \union ({c} \ {Self})
<1>0. list \in Seq(Codes \ {Self}) /\ IsInjective(list) /\ Len(list) \in Nat
  BY DEF PeerListType
<1>1. \A i \in 1..Len(list) : list[i] \in Codes \ {Self}
  BY <1>0, ElementOfSeq
<1>2. Range(list) = {list[i] : i \in 1..Len(list)}
  BY <1>0 DEF Range
<1>3. CASE c = Self \/ c \in Range(list)
  BY <1>1, <1>2, <1>3 DEF Added
<1>4. CASE ~(c = Self \/ c \in Range(list))
  <2> DEFINE a == Append(list, c)
  <2>1. Added(list, c) = a
    BY <1>4 DEF Added
  <2>2. /\ a \in Seq(Codes \ {Self}) /\ Len(a) = Len(list) + 1
        /\ \A i \in 1..Len(list) : a[i] = list[i]
        /\ a[Len(list) + 1] = c
    BY <1>0, <1>4, AppendProperties
  <2> HIDE DEF a
  <2>3. DOMAIN a = 1..(Len(list) + 1) /\ DOMAIN list = 1..Len(list)
    BY <1>0, <2>2
  <2>4. \A i \in 1..(Len(list) + 1) : i \in 1..Len(list) \/ i = Len(list) + 1
    BY <1>0
  <2>5. \A i \in 1..Len(list) : i \in 1..(Len(list) + 1) /\ list[i] # c
    BY <1>0, <1>2, <1>4
  <2>6. Len(list) + 1 \in 1..(Len(list) + 1)
    BY <1>0
  <2>7. Range(a) = Range(list) \union {c}
    BY <2>2, <2>3, <2>4, <2>5, <2>6, Zenon DEF Range
  <2>8. IsInjective(a)
    BY <1>0, <2>2, <2>3, <2>4, <2>5, Zenon DEF IsInjective
  <2>9. QED
    BY <1>4, <2>1, <2>2, <2>7, <2>8 DEF PeerListType
<1>5. QED
  BY <1>3, <1>4

(* The loop of the PeerList arm adds exactly the peers of the new list. *)
LEMMA MergedLists ==
  ASSUME NEW list \in PeerListType, NEW new \in Seq(Codes)
  PROVE  /\ Merged(list, new) \in PeerListType
         /\ Range(Merged(list, new)) = Range(list) \union (Range(new) \ {Self})
<1> DEFINE n == Len(new)
           Loop(f) == f = [i \in 0..n |-> IF i = 0 THEN list ELSE Added(f[i - 1], new[i])]
           merged == CHOOSE f : Loop(f)
           step == [i \in 1..n |-> [s \in PeerListType |-> Added(s, new[i])]]
           Upto(i) == {new[j] : j \in 1..i}
<1>0. n \in Nat /\ \A i \in 1..n : new[i] \in Codes
  BY ElementOfSeq
<1>1. Merged(list, new) = merged[n]
  BY Zenon DEF Merged
<1>2. step \in [1..n -> [PeerListType -> PeerListType]]
  BY <1>0, AddedPeer
<1>3. PICK g \in [0..n -> PeerListType] :
              g[0] = list /\ \A i \in 1..n : g[i] = step[i][g[i - 1]]
  <2>1. n \in Nat
    BY <1>0
  <2> HIDE DEF step, n
  <2>2. PICK g : IsTable(g, PeerListType, list, n, step)
    BY <1>2, <2>1, LoopTable
  <2>3. QED
    BY <2>2 DEF IsTable
<1>4. Loop(g)
  <2>1. \A i \in 0..n : g[i] = IF i = 0 THEN list ELSE Added(g[i - 1], new[i])
    <3> TAKE i \in 0..n
    <3>1. CASE i = 0
      BY <1>3, <3>1
    <3>2. CASE i # 0
      <4>1. i \in 1..n /\ i - 1 \in 0..n
        BY <3>2
      <4>2. g[i - 1] \in PeerListType /\ g[i] = step[i][g[i - 1]]
        <5> HIDE DEF step
        <5>1. QED
          BY <1>3, <3>2, <4>1
      <4>3. QED
        BY <3>2, <4>1, <4>2
    <3>3. QED
      BY <3>1, <3>2
  <2>2. g = [i \in 0..n |-> g[i]]
    BY <1>3
  <2>3. QED
    BY <2>1, <2>2
<1>5. Loop(merged)
  <2> HIDE DEF Loop
  <2>1. QED
    BY <1>4, Zenon
<1>6. merged[0] = list /\ \A i \in 1..n : merged[i] = Added(merged[i - 1], new[i])
  <2> HIDE DEF merged
  <2>1. \A i \in 1..n : i \in 0..n /\ i # 0
    OBVIOUS
  <2>2. QED
    BY <1>0, <1>5, <2>1
<1> HIDE DEF merged, Loop, step
<1> DEFINE T == {i \in Nat : i <= n =>
                    /\ merged[i] \in PeerListType
                    /\ Range(merged[i]) = Range(list) \union (Upto(i) \ {Self})}
<1>7. 0 \in T
  BY <1>6
<1>8. ASSUME NEW i \in Nat, i \in T PROVE i + 1 \in T
  <2> SUFFICES ASSUME i + 1 <= n
               PROVE  /\ merged[i + 1] \in PeerListType
                      /\ Range(merged[i + 1]) = Range(list) \union (Upto(i + 1) \ {Self})
    OBVIOUS
  <2>1. /\ merged[i] \in PeerListType
        /\ Range(merged[i]) = Range(list) \union (Upto(i) \ {Self})
    BY <1>0, <1>8
  <2>2. i + 1 \in 1..n /\ (i + 1) - 1 = i
    BY <1>0
  <2>3. merged[i + 1] = Added(merged[i], new[i + 1])
    BY <1>6, <2>2
  <2>4. Upto(i + 1) = Upto(i) \union {new[i + 1]}
    <3>1. \A j \in 1..(i + 1) : j \in 1..i \/ j = i + 1
      OBVIOUS
    <3>2. i + 1 \in 1..(i + 1) /\ \A j \in 1..i : j \in 1..(i + 1)
      OBVIOUS
    <3>3. QED
      BY <3>1, <3>2, Zenon
  <2> HIDE DEF Upto
  <2>5. QED
    BY <1>0, <2>1, <2>2, <2>3, <2>4, AddedPeer
<1>9. n \in T
  <2> HIDE DEF T
  <2>1. QED
    BY <1>0, <1>7, <1>8, SetInduction
<1>10. Upto(n) = Range(new)
  BY DEF Range
<1>11. QED
  BY <1>0, <1>1, <1>9, <1>10

(* retain takes out exactly the given code. *)
LEMMA WithoutCode ==
  ASSUME NEW list \in PeerListType, NEW c
  PROVE  /\ Without(list, c) \in PeerListType
         /\ Range(Without(list, c)) = Range(list) \ {c}
<1> DEFINE n == Len(list)
           Push(s, d) == IF d = c THEN s ELSE Append(s, d)
           Loop(f) == f = [i \in 0..n |->
                             IF i = 0 THEN <<>>
                             ELSE IF list[i] = c THEN f[i - 1] ELSE Append(f[i - 1], list[i])]
           kept == CHOOSE f : Loop(f)
           S == Seq(Codes \ {Self})
           step == [i \in 1..n |-> [s \in S |-> Push(s, list[i])]]
           Upto(i) == {list[j] : j \in 1..i}
<1>0. /\ n \in Nat /\ list \in S /\ IsInjective(list) /\ DOMAIN list = 1..n
      /\ \A i \in 1..n : list[i] \in Codes \ {Self}
  BY ElementOfSeq DEF PeerListType
<1>1. Without(list, c) = kept[n]
  BY Zenon DEF Without
<1>2. step \in [1..n -> [S -> S]]
  <2>1. ASSUME NEW i \in 1..n, NEW s \in S PROVE Push(s, list[i]) \in S
    BY <1>0, <2>1, AppendProperties
  <2> HIDE DEF Push, S, n
  <2>2. QED
    BY <2>1
<1>3. PICK g \in [0..n -> S] : g[0] = <<>> /\ \A i \in 1..n : g[i] = step[i][g[i - 1]]
  <2>1. n \in Nat /\ <<>> \in S
    BY <1>0
  <2> HIDE DEF step, n, S
  <2>2. PICK g : IsTable(g, S, <<>>, n, step)
    BY <1>2, <2>1, LoopTable
  <2>3. QED
    BY <2>2 DEF IsTable
<1>4. \A i \in 0..n : g[i] = IF i = 0 THEN <<>> ELSE Push(g[i - 1], list[i])
  <2> HIDE DEF Push, S
  <2> TAKE i \in 0..n
  <2>1. CASE i = 0
    <3> HIDE DEF step
    <3>1. QED
      BY <1>3, <2>1
  <2>2. CASE i # 0
    <3>1. i \in 1..n /\ i - 1 \in 0..n
      BY <1>0, <2>2
    <3>2. g[i - 1] \in S /\ g[i] = step[i][g[i - 1]]
      <4> HIDE DEF step
      <4>1. QED
        BY <1>3, <2>2, <3>1
    <3>3. QED
      BY <2>2, <3>1, <3>2
  <2>3. QED
    BY <2>1, <2>2
<1>5. Loop(g)
  <2>1. g = [i \in 0..n |-> g[i]]
    BY <1>3
  <2>2. QED
    BY <1>4, <2>1
<1>6. Loop(kept)
  <2> HIDE DEF Loop
  <2>1. QED
    BY <1>5, Zenon
<1>7. kept[0] = <<>> /\ \A i \in 1..n : kept[i] = Push(kept[i - 1], list[i])
  <2> HIDE DEF kept
  <2>1. 0 \in 0..n /\ \A i \in 1..n : i \in 0..n /\ i # 0
    BY <1>0
  <2>2. QED
    BY <1>6, <2>1
<1> HIDE DEF kept, Loop, step, n
<1> DEFINE T == {i \in Nat : i <= n =>
                    /\ kept[i] \in PeerListType
                    /\ Range(kept[i]) = Upto(i) \ {c}}
<1>8. 0 \in T
  <2>1. <<>> \in PeerListType /\ Range(<<>>) = {}
    BY DEF PeerListType, IsInjective, Range
  <2>2. QED
    BY <1>7, <2>1
<1>9. ASSUME NEW i \in Nat, i \in T PROVE i + 1 \in T
  <2> SUFFICES ASSUME i + 1 <= n
               PROVE  kept[i + 1] \in PeerListType /\ Range(kept[i + 1]) = Upto(i + 1) \ {c}
    OBVIOUS
  <2>1. kept[i] \in PeerListType /\ Range(kept[i]) = Upto(i) \ {c}
    BY <1>0, <1>9
  <2>2. i + 1 \in 1..n /\ (i + 1) - 1 = i
    BY <1>0
  <2>3. kept[i + 1] = Push(kept[i], list[i + 1])
    BY <1>7, <2>2
  <2>4. Upto(i + 1) = Upto(i) \union {list[i + 1]}
    <3>1. \A j \in 1..(i + 1) : j \in 1..i \/ j = i + 1
      OBVIOUS
    <3>2. i + 1 \in 1..(i + 1) /\ \A j \in 1..i : j \in 1..(i + 1)
      OBVIOUS
    <3>3. QED
      BY <3>1, <3>2, Zenon
  <2>5. list[i + 1] \in Codes \ {Self} /\ list[i + 1] \notin Upto(i)
    <3>1. \A j \in 1..i : j \in 1..n /\ j # i + 1
      BY <1>0
    <3>2. QED
      BY <1>0, <2>2, <3>1 DEF IsInjective
  <2> HIDE DEF Upto
  <2>6. CASE list[i + 1] = c
    BY <2>1, <2>3, <2>4, <2>5, <2>6
  <2>7. CASE list[i + 1] # c
    <3>1. kept[i + 1] = Added(kept[i], list[i + 1])
      BY <2>1, <2>3, <2>5, <2>7 DEF Added
    <3>2. QED
      BY <2>1, <2>4, <2>5, <2>7, <3>1, AddedPeer
  <2>8. QED
    BY <2>6, <2>7
<1>10. n \in T
  <2> HIDE DEF T
  <2>1. QED
    BY <1>0, <1>8, <1>9, SetInduction
<1>11. Upto(n) = Range(list)
  BY <1>0 DEF Range
<1>12. QED
  BY <1>0, <1>1, <1>10, <1>11

(* A list that a plane sends is a sequence of codes. *)
LEMMA PeerListIsSeq ==
  ASSUME NEW list \in PeerLists
  PROVE  list \in Seq(Codes) /\ Range(list) \subseteq Codes
<1>1. PICK n \in Nat : list \in [1..n -> Codes]
  <2>1. PICK n \in 0..Cardinality(Codes) : list \in Injection(1..n, Codes)
    BY DEF PeerLists
  <2>2. QED
    BY <2>1 DEF Injection
<1>2. QED
  BY <1>1 DEF Range

----------------------------------------------------------------------------
(* The merged list and the planes *)

PeerType ==
    /\ peers \in PeerListType
    /\ link \in [Planes -> {"down", "joining", "up"}]
    /\ told \in [Planes -> SUBSET Codes] /\ gone \in [Planes -> SUBSET Codes]
    /\ retractedBy \in [Codes -> Planes \union {NoPlane}]
    /\ lost \subseteq Codes /\ late \subseteq Codes

ListInv == PeerType /\ MissingOnlyIfLeftElsewhere /\ StaleOnlyByOutageOrLateList

(* A step that leaves the list and what the planes said alone. *)
LEMMA ListFrame ==
  ASSUME ListInv, UNCHANGED <<peers, link, told, gone, retractedBy, lost, late>>
  PROVE  ListInv'
BY Zenon DEF ListInv, PeerType, MissingOnlyIfLeftElsewhere, StaleOnlyByOutageOrLateList

(* A plane comes up without a list. *)
LEMMA ConnectedStep ==
  ASSUME ListInv, NEW p \in Planes, OnConnected(p)
  PROVE  ListInv'
<1>0. /\ PeerType /\ MissingOnlyIfLeftElsewhere /\ StaleOnlyByOutageOrLateList
      /\ link' = [link EXCEPT ![p] = "joining"]
      /\ peers' = peers /\ told' = told /\ gone' = gone /\ retractedBy' = retractedBy
      /\ lost' = lost /\ late' = late
  BY DEF ListInv, OnConnected, history
<1>1. PeerType'
  BY <1>0 DEF PeerType
<1>2. MissingOnlyIfLeftElsewhere' /\ StaleOnlyByOutageOrLateList'
  BY <1>0, Zenon DEF MissingOnlyIfLeftElsewhere, StaleOnlyByOutageOrLateList
<1>3. QED
  BY <1>1, <1>2 DEF ListInv

(* The list of a plane is merged: nothing it announces is missing, nothing *)
(* another plane announced is lost, and what it had taken back before is   *)
(* accounted for as late.                                                  *)
LEMMA PeerListStep ==
  ASSUME ListInv, NEW p \in Planes, NEW list \in PeerLists, OnPeerList(p, list)
  PROVE  ListInv'
<1> DEFINE new == Range(list)
           was == Range(peers)
           now == Range(peers')
<1>0. /\ PeerType /\ MissingOnlyIfLeftElsewhere /\ StaleOnlyByOutageOrLateList
      /\ link' = [link EXCEPT ![p] = "up"]
      /\ told' = [told EXCEPT ![p] = told[p] \union (new \ gone[p])]
      /\ gone' = [gone EXCEPT ![p] = {}]
      /\ late' = late \union (new \intersect gone[p])
      /\ retractedBy' = [c \in Codes |-> IF c \in new THEN NoPlane ELSE retractedBy[c]]
      /\ peers' = Merged(peers, list) /\ lost' = lost
  BY DEF ListInv, OnPeerList
<1>1. list \in Seq(Codes) /\ new \subseteq Codes
  BY PeerListIsSeq
<1>2. peers' \in PeerListType /\ now = was \union (new \ {Self})
  BY <1>0, <1>1, MergedLists DEF PeerType
<1> HIDE DEF new, was, now
<1>3. PeerType'
  BY <1>0, <1>1, <1>2 DEF PeerType
<1>4. MissingOnlyIfLeftElsewhere'
  <2> SUFFICES ASSUME NEW q \in Planes, NEW c \in told'[q] \ ({Self} \union now)
               PROVE  retractedBy'[c] \in Planes \ {q}
    BY DEF MissingOnlyIfLeftElsewhere, now
  <2>1. c \notin new /\ c \notin was /\ c # Self
    BY <1>2
  <2>2. c \in told[q] /\ c \in Codes
    BY <1>0, <1>1, <2>1 DEF PeerType
  <2>3. retractedBy[c] \in Planes \ {q}
    BY <1>0, <2>1, <2>2 DEF MissingOnlyIfLeftElsewhere, was
  <2>4. QED
    BY <1>0, <2>1, <2>2, <2>3
<1>5. StaleOnlyByOutageOrLateList'
  <2> SUFFICES ASSUME NEW c \in now, c \notin lost, c \notin late'
               PROVE  \E q \in Planes : c \in told'[q]
    BY <1>0 DEF StaleOnlyByOutageOrLateList, now
  <2>1. CASE c \in new
    BY <1>0, <2>1 DEF PeerType
  <2>2. CASE c \notin new
    <3>1. PICK q \in Planes : c \in told[q]
      BY <1>0, <1>2, <2>2 DEF StaleOnlyByOutageOrLateList, was
    <3>2. QED
      BY <1>0, <3>1 DEF PeerType
  <2>3. QED
    BY <2>1, <2>2
<1>6. QED
  BY <1>3, <1>4, <1>5 DEF ListInv

(* A peer joins on a plane. *)
LEMMA PeerJoinedStep ==
  ASSUME ListInv, NEW p \in Planes, NEW c \in Codes, OnPeerJoined(p, c)
  PROVE  ListInv'
<1>0. /\ PeerType /\ MissingOnlyIfLeftElsewhere /\ StaleOnlyByOutageOrLateList
      /\ link' = link /\ lost' = lost /\ late' = late
      /\ told' = [told EXCEPT ![p] = @ \union {c}]
      /\ gone' = [gone EXCEPT ![p] = @ \ {c}]
      /\ retractedBy' = [retractedBy EXCEPT ![c] = NoPlane]
      /\ peers' = Added(peers, c)
  BY DEF ListInv, OnPeerJoined
<1> DEFINE was == Range(peers)
           now == Range(peers')
<1>1. peers' \in PeerListType /\ now = was \union ({c} \ {Self})
  BY <1>0, AddedPeer DEF PeerType
<1> HIDE DEF was, now
<1>2. PeerType'
  BY <1>0, <1>1 DEF PeerType
<1>3. MissingOnlyIfLeftElsewhere'
  <2> SUFFICES ASSUME NEW q \in Planes, NEW d \in told'[q] \ ({Self} \union now)
               PROVE  retractedBy'[d] \in Planes \ {q}
    BY DEF MissingOnlyIfLeftElsewhere, now
  <2>1. d # c /\ d \in told[q] \ ({Self} \union was) /\ d \in Codes
    BY <1>0, <1>1 DEF PeerType
  <2>2. retractedBy[d] \in Planes \ {q}
    BY <1>0, <2>1 DEF MissingOnlyIfLeftElsewhere, was
  <2>3. QED
    BY <1>0, <2>1, <2>2 DEF PeerType
<1>4. StaleOnlyByOutageOrLateList'
  <2> SUFFICES ASSUME NEW d \in now, d \notin lost, d \notin late
               PROVE  \E q \in Planes : d \in told'[q]
    BY <1>0 DEF StaleOnlyByOutageOrLateList, now
  <2>1. CASE d = c
    BY <1>0, <2>1 DEF PeerType
  <2>2. CASE d # c
    <3>1. PICK q \in Planes : d \in told[q]
      BY <1>0, <1>1, <2>2 DEF StaleOnlyByOutageOrLateList, was
    <3>2. QED
      BY <1>0, <3>1 DEF PeerType
  <2>3. QED
    BY <2>1, <2>2
<1>5. QED
  BY <1>2, <1>3, <1>4 DEF ListInv

(* A peer leaves on a plane: on every other plane that still announces it, *)
(* this plane is the one that took it back.                                *)
LEMMA PeerLeftStep ==
  ASSUME ListInv, NEW p \in Planes, NEW c \in Codes, OnPeerLeft(p, c)
  PROVE  ListInv'
<1>0. /\ PeerType /\ MissingOnlyIfLeftElsewhere /\ StaleOnlyByOutageOrLateList
      /\ link' = link /\ lost' = lost \ {c} /\ late' = late \ {c}
      /\ told' = [told EXCEPT ![p] = @ \ {c}]
      /\ gone' \in {gone, [gone EXCEPT ![p] = @ \union {c}]}
      /\ retractedBy' = [retractedBy EXCEPT ![c] = p]
      /\ peers' = Without(peers, c)
  BY DEF ListInv, OnPeerLeft
<1> DEFINE was == Range(peers)
           now == Range(peers')
<1>1. peers' \in PeerListType /\ now = was \ {c}
  BY <1>0, WithoutCode DEF PeerType
<1> HIDE DEF was, now
<1>2. PeerType'
  BY <1>0, <1>1 DEF PeerType
<1>3. MissingOnlyIfLeftElsewhere'
  <2> SUFFICES ASSUME NEW q \in Planes, NEW d \in told'[q] \ ({Self} \union now)
               PROVE  retractedBy'[d] \in Planes \ {q}
    BY DEF MissingOnlyIfLeftElsewhere, now
  <2>1. CASE d = c
    <3>1. q # p
      BY <1>0, <2>1 DEF PeerType
    <3>2. QED
      BY <1>0, <2>1, <3>1 DEF PeerType
  <2>2. CASE d # c
    <3>1. d \in told[q] \ ({Self} \union was) /\ d \in Codes
      BY <1>0, <1>1, <2>2 DEF PeerType
    <3>2. retractedBy[d] \in Planes \ {q}
      BY <1>0, <3>1 DEF MissingOnlyIfLeftElsewhere, was
    <3>3. QED
      BY <1>0, <2>2, <3>1, <3>2 DEF PeerType
  <2>3. QED
    BY <2>1, <2>2
<1>4. StaleOnlyByOutageOrLateList'
  <2> SUFFICES ASSUME NEW d \in now, d \notin lost', d \notin late'
               PROVE  \E q \in Planes : d \in told'[q]
    BY DEF StaleOnlyByOutageOrLateList, now
  <2>1. d # c /\ d \notin lost /\ d \notin late
    BY <1>0, <1>1
  <2>2. PICK q \in Planes : d \in told[q]
    BY <1>0, <1>1, <2>1 DEF StaleOnlyByOutageOrLateList, was
  <2>3. QED
    BY <1>0, <2>1, <2>2 DEF PeerType
<1>5. QED
  BY <1>2, <1>3, <1>4 DEF ListInv

(* A plane drops: what it had announced is lost, and stays listed. *)
LEMMA DisconnectedStep ==
  ASSUME ListInv, NEW p \in Planes, OnDisconnected(p)
  PROVE  ListInv'
<1>0. /\ PeerType /\ MissingOnlyIfLeftElsewhere /\ StaleOnlyByOutageOrLateList
      /\ link' = [link EXCEPT ![p] = "down"]
      /\ told' = [told EXCEPT ![p] = {}]
      /\ gone' = [gone EXCEPT ![p] = {}]
      /\ lost' = lost \union told[p]
      /\ peers' = peers /\ retractedBy' = retractedBy /\ late' = late
  BY DEF ListInv, OnDisconnected
<1>1. PeerType'
  BY <1>0 DEF PeerType
<1>2. MissingOnlyIfLeftElsewhere'
  <2> SUFFICES ASSUME NEW q \in Planes, NEW c \in told'[q] \ ({Self} \union Range(peers))
               PROVE  retractedBy[c] \in Planes \ {q}
    BY <1>0, Zenon DEF MissingOnlyIfLeftElsewhere
  <2>1. told'[q] = told[q]
    BY <1>0 DEF PeerType
  <2>2. QED
    BY <1>0, <2>1 DEF MissingOnlyIfLeftElsewhere
<1>3. StaleOnlyByOutageOrLateList'
  <2> SUFFICES ASSUME NEW c \in Range(peers), c \notin lost', c \notin late
               PROVE  \E q \in Planes : c \in told'[q]
    BY <1>0 DEF StaleOnlyByOutageOrLateList
  <2>1. PICK q \in Planes : c \in told[q]
    BY <1>0 DEF StaleOnlyByOutageOrLateList
  <2>2. QED
    BY <1>0, <2>1 DEF PeerType
<1>4. QED
  BY <1>1, <1>2, <1>3 DEF ListInv

----------------------------------------------------------------------------
(* The signals *)

SignalType ==
    /\ signals \in Seq(Nat) /\ batch \in Seq(Nat)
    /\ handled \in Seq(Nat) /\ received \in Seq(Nat)

(* A batch is worked off before the next one is drained. *)
BatchWorkedOff == poll # "lines" => batch = <<>>

SignalInv == SignalType /\ BatchWorkedOff /\ SignalsOnceInOrder

(* A step that leaves the signals alone. *)
LEMMA SignalFrame ==
  ASSUME SignalInv, BatchWorkedOff', UNCHANGED <<signals, batch, handled, received>>
  PROVE  SignalInv'
BY Zenon DEF SignalInv, SignalType, SignalsOnceInOrder

(* A signal reaches the callback. *)
LEMMA OnSignalStep ==
  ASSUME SignalInv, NEW p \in Planes, OnSignal(p)
  PROVE  SignalInv'
<1> DEFINE sig == Len(received) + 1
           front == handled \o batch
<1>0. /\ signals \in Seq(Nat) /\ batch \in Seq(Nat)
      /\ handled \in Seq(Nat) /\ received \in Seq(Nat)
      /\ BatchWorkedOff /\ SignalsOnceInOrder
      /\ received' = Append(received, sig) /\ signals' = Append(signals, sig)
      /\ handled' = handled /\ batch' = batch /\ poll' = poll
  BY DEF SignalInv, SignalType, OnSignal, shell
<1>1. sig \in Nat /\ front \in Seq(Nat)
  BY <1>0, ConcatProperties
<1>2. received = front \o signals
  BY <1>0 DEF SignalsOnceInOrder
<1> HIDE DEF sig, front
<1>3. front \o Append(signals, sig) = Append(front \o signals, sig)
  BY <1>0, <1>1
<1>4. SignalsOnceInOrder'
  BY <1>0, <1>2, <1>3 DEF SignalsOnceInOrder, front
<1>5. SignalType' /\ BatchWorkedOff'
  BY <1>0, <1>1 DEF SignalType, BatchWorkedOff
<1>6. QED
  BY <1>4, <1>5 DEF SignalInv

(* The queue becomes the batch. *)
LEMMA DrainSignalsStep ==
  ASSUME SignalInv, DrainSignals
  PROVE  SignalInv'
<1>0. /\ signals \in Seq(Nat) /\ handled \in Seq(Nat) /\ received \in Seq(Nat) /\ batch = <<>>
      /\ received = handled \o batch \o signals
      /\ poll' = "lines" /\ batch' = signals /\ signals' = <<>>
      /\ handled' = handled /\ received' = received
  BY DEF SignalInv, SignalType, BatchWorkedOff, SignalsOnceInOrder, DrainSignals, history
<1>1. handled \o signals \in Seq(Nat)
  BY <1>0, ConcatProperties
<1>2. handled \o <<>> \o signals = handled \o signals \o <<>>
  BY <1>0, <1>1
<1>3. SignalsOnceInOrder'
  BY <1>0, <1>2 DEF SignalsOnceInOrder
<1>4. SignalType' /\ BatchWorkedOff'
  BY <1>0 DEF SignalType, BatchWorkedOff
<1>5. QED
  BY <1>3, <1>4 DEF SignalInv

(* The shell handles the first line of the batch. *)
LEMMA HandleLineStep ==
  ASSUME SignalInv, HandleLine
  PROVE  SignalInv'
<1>0. /\ signals \in Seq(Nat) /\ batch \in Seq(Nat)
      /\ handled \in Seq(Nat) /\ received \in Seq(Nat) /\ batch # <<>>
      /\ received = handled \o batch \o signals
      /\ poll = "lines" /\ poll' = poll
      /\ handled' = Append(handled, Head(batch)) /\ batch' = Tail(batch)
      /\ signals' = signals /\ received' = received
  BY DEF SignalInv, SignalType, SignalsOnceInOrder, HandleLine, history, bridge
<1>1. Head(batch) \in Nat /\ Tail(batch) \in Seq(Nat)
  BY <1>0, HeadTailProperties
<1>2. Append(handled, Head(batch)) \o Tail(batch) = handled \o batch
  BY <1>0, <1>1
<1>3. SignalsOnceInOrder'
  BY <1>0, <1>2 DEF SignalsOnceInOrder
<1>4. SignalType' /\ BatchWorkedOff'
  BY <1>0, <1>1 DEF SignalType, BatchWorkedOff
<1>5. QED
  BY <1>3, <1>4 DEF SignalInv

----------------------------------------------------------------------------
(* The rest of the state *)

RestType ==
    /\ handle \in {"none", "open", "closed"}
    /\ count \in Nat /\ index \in Nat \ {0} /\ calls \in Nat
    /\ poll \in {"idle", "events", "signals", "lines", "read"}
FlagType == connected \in BOOLEAN /\ online \in BOOLEAN /\ events \in BOOLEAN
ScreenType == shown \in Seq(Codes \ {Self}) /\ updated \in Seq(Codes \ {Self})

(* The inductive invariant: the list, the signals and the shell. *)
IInv == RestType /\ FlagType /\ ScreenType /\ ListInv /\ SignalInv

(* The client starts with empty lists and planes that are down. *)
LEMMA InitIInv == Init => IInv
<1> SUFFICES ASSUME Init PROVE IInv
  OBVIOUS
<1>1. RestType /\ ScreenType
  BY DEF Init, RestType, ScreenType
<1>2. FlagType
  BY DEF Init, FlagType
<1>3. SignalInv
  BY DEF Init, SignalInv, SignalType, BatchWorkedOff, SignalsOnceInOrder
<1>4. ListInv
  <2>1. peers \in PeerListType /\ Range(peers) = {}
    BY DEF Init, PeerListType, IsInjective, Range
  <2>2. PeerType
    BY <2>1 DEF Init, PeerType
  <2>3. QED
    BY <2>1, <2>2 DEF Init, ListInv, MissingOnlyIfLeftElsewhere,
                      StaleOnlyByOutageOrLateList
<1>5. QED
  BY <1>1, <1>2, <1>3, <1>4 DEF IInv

(* Every step keeps the types of the rest of the state. *)
LEMMA RestStep ==
  ASSUME IInv, Next
  PROVE  RestType' /\ FlagType'
<1>0. RestType /\ FlagType
  BY DEF IInv
<1>1. Len(peers) \in Nat
  BY DEF IInv, ListInv, PeerType, PeerListType
<1>2. RestType'
  <2>1. CASE Start \/ Stop
    BY <1>0, <2>1 DEF RestType, Start, Stop, shell, outside
  <2>2. ASSUME NEW p \in Planes, OnConnected(p) \/ OnDisconnected(p) \/ OnSignal(p)
        PROVE  RestType'
    BY <1>0, <2>2 DEF RestType, OnConnected, OnDisconnected, OnSignal, Callback, shell, outside
  <2>3. ASSUME NEW p \in Planes, NEW list \in PeerLists, OnPeerList(p, list) PROVE RestType'
    BY <1>0, <2>3 DEF RestType, OnPeerList, Callback, shell
  <2>4. ASSUME NEW p \in Planes, NEW c \in Codes, OnPeerJoined(p, c) \/ OnPeerLeft(p, c)
        PROVE  RestType'
    <3>1. calls' = calls + 1 /\ UNCHANGED <<handle, count, index, poll>>
      BY <2>4, Zenon DEF OnPeerJoined, OnPeerLeft, Callback, shell
    <3>2. QED
      BY <1>0, <3>1 DEF RestType
  <2>5. CASE PollStep
    BY <1>0, <1>1, <2>5 DEF RestType, PollStep, PollStart, DrainEvents, DrainSignals, HandleLine,
                            ReadCount, GetPeer, Publish, bridge, outside
  <2>6. QED
    BY <2>1, <2>2, <2>3, <2>4, <2>5 DEF Next
<1>3. /\ connected' \in {connected, TRUE} /\ online' \in {online, connected, FALSE}
      /\ events' \in {events, TRUE, FALSE}
  BY Zenon DEF Next, Start, Stop, OnConnected, OnDisconnected, OnSignal, OnPeerList, OnPeerJoined,
               OnPeerLeft, PollStep, PollStart, DrainEvents, DrainSignals, HandleLine, ReadCount,
               GetPeer, Publish, shell, bridge
<1>4. FlagType'
  BY <1>0, <1>3, Zenon DEF FlagType
<1>5. QED
  BY <1>2, <1>4

(* The list on screen, and the one a poll puts together index by index,    *)
(* have only codes of the client's list.                                   *)
LEMMA ScreenStep ==
  ASSUME IInv, Next
  PROVE  ScreenType'
<1>0. ScreenType /\ peers \in Seq(Codes \ {Self}) /\ index \in Nat \ {0}
  BY DEF IInv, ListInv, PeerType, PeerListType, RestType
<1>1. CASE GetPeer
  <2>1. CASE index > Len(peers)
    BY <1>0, <1>1, <2>1 DEF GetPeer, ScreenType
  <2>2. CASE ~(index > Len(peers))
    <3>1. index \in 1..Len(peers)
      BY <1>0, <2>2
    <3>2. peers[index] \in Codes \ {Self}
      BY <1>0, <3>1, ElementOfSeq
    <3>3. updated' = Append(updated, peers[index]) /\ shown' = shown
      BY <1>1, <2>2 DEF GetPeer
    <3>4. QED
      BY <1>0, <3>2, <3>3 DEF ScreenType
  <2>3. QED
    BY <2>1, <2>2
<1>2. ASSUME ~GetPeer
      PROVE  shown' \in {shown, updated, <<>>} /\ updated' \in {updated, <<>>}
  BY <1>2, Zenon DEF Next, Start, Stop, OnConnected, OnDisconnected, OnSignal, OnPeerList,
               OnPeerJoined, OnPeerLeft, PollStep, PollStart, DrainEvents, DrainSignals,
               HandleLine, ReadCount, Publish, shell, bridge
<1>3. CASE ~GetPeer
  <2>1. <<>> \in Seq(Codes \ {Self})
    OBVIOUS
  <2>2. QED
    BY <1>0, <1>2, <1>3, <2>1, Zenon DEF ScreenType
<1>4. QED
  BY <1>1, <1>3

(* Every step keeps what is known of the list. *)
LEMMA ListStep ==
  ASSUME IInv, Next
  PROVE  ListInv'
<1>0. ListInv
  BY DEF IInv
<1>1. CASE Start \/ Stop \/ PollStep
  <2>1. UNCHANGED <<peers, link, told, gone, retractedBy, lost, late>>
    BY <1>1, Zenon DEF Start, Stop, PollStep, PollStart, DrainEvents, DrainSignals, HandleLine,
                       ReadCount, GetPeer, Publish, bridge, outside, history
  <2>2. QED
    BY <1>0, <2>1, ListFrame
<1>2. ASSUME NEW p \in Planes, OnSignal(p) PROVE ListInv'
  BY <1>0, <1>2, ListFrame DEF OnSignal, outside
<1>3. QED
  BY <1>0, <1>1, <1>2, ConnectedStep, PeerListStep, PeerJoinedStep, PeerLeftStep,
     DisconnectedStep, Zenon DEF Next

(* Every step keeps what is known of the signals. *)
LEMMA SignalStep ==
  ASSUME IInv, Next
  PROVE  SignalInv'
<1>0. SignalInv /\ BatchWorkedOff
  BY DEF IInv, SignalInv
<1>1. CASE Start \/ Stop \/ PollStart \/ DrainEvents \/ ReadCount \/ GetPeer \/ Publish
  <2>1. UNCHANGED <<signals, batch, handled, received>>
    BY <1>1, Zenon DEF Start, Stop, PollStart, DrainEvents, ReadCount, GetPeer, Publish, bridge,
                       shell, history
  <2>2. BatchWorkedOff'
    BY <1>0, <1>1 DEF BatchWorkedOff, Start, Stop, PollStart, DrainEvents, ReadCount, GetPeer,
                      Publish, shell
  <2>3. QED
    BY <1>0, <2>1, <2>2, SignalFrame
<1>2. CASE \E p \in Planes : \/ OnConnected(p) \/ OnDisconnected(p)
                             \/ \E list \in PeerLists : OnPeerList(p, list)
                             \/ \E c \in Codes : OnPeerJoined(p, c) \/ OnPeerLeft(p, c)
  <2>1. UNCHANGED <<signals, batch, handled, received, poll>>
    BY <1>2, Zenon DEF OnConnected, OnDisconnected, OnPeerList, OnPeerJoined, OnPeerLeft, shell,
                       history
  <2>2. QED
    BY <1>0, <2>1, SignalFrame DEF BatchWorkedOff
<1>3. QED
  BY <1>0, <1>1, <1>2, OnSignalStep, DrainSignalsStep, HandleLineStep, Zenon DEF Next, PollStep

(* The inductive invariant holds of every behaviour. *)
LEMMA SpecIInv == Spec => []IInv
<1>1. IInv /\ [Next]_vars => IInv'
  <2> SUFFICES ASSUME IInv, [Next]_vars PROVE IInv'
    OBVIOUS
  <2>1. CASE Next
    BY <2>1, RestStep, ScreenStep, ListStep, SignalStep DEF IInv
  <2>2. CASE UNCHANGED vars
    <3>1. /\ UNCHANGED <<peers, link, told, gone, retractedBy, lost, late>>
          /\ UNCHANGED <<signals, batch, handled, received, poll>>
          /\ UNCHANGED <<handle, connected, events, count, index, updated, shown, online, calls>>
      BY <2>2, Zenon DEF vars, bridge, shell, outside, history
    <3>2. ListInv'
      BY <3>1, ListFrame DEF IInv
    <3>3. SignalInv'
      BY <3>1, SignalFrame DEF IInv, SignalInv, BatchWorkedOff
    <3>4. QED
      BY <3>1, <3>2, <3>3, Zenon DEF IInv, RestType, FlagType, ScreenType
  <2>3. QED
    BY <2>1, <2>2
<1>2. QED
  BY InitIInv, <1>1, PTL DEF Spec

----------------------------------------------------------------------------
(* Every variable keeps its type; in particular the merged list of the     *)
(* planes has every peer once and never this device, whatever joins, lists *)
(* and re-announcements they interleave.                                   *)
THEOREM TypeCorrect == Spec => []TypeOK
<1>1. IInv => TypeOK
  BY DEF IInv, RestType, FlagType, ScreenType, ListInv, PeerType, SignalInv, SignalType, TypeOK
<1>2. QED
  BY SpecIInv, <1>1, PTL

(* With any number of planes, a peer that a connected plane announces is   *)
(* missing from the list only if another plane took it back since.         *)
THEOREM MissingOnlyElsewhere == Spec => []MissingOnlyIfLeftElsewhere
<1>1. IInv => MissingOnlyIfLeftElsewhere
  BY DEF IInv, ListInv
<1>2. QED
  BY SpecIInv, <1>1, PTL

(* With any number of planes, a listed peer that no plane announces was    *)
(* announced by a plane that dropped, or named by a list after its plane   *)
(* had taken it back.                                                      *)
THEOREM StaleNeedsOutageOrLateList == Spec => []StaleOnlyByOutageOrLateList
<1>1. IInv => StaleOnlyByOutageOrLateList
  BY DEF IInv, ListInv
<1>2. QED
  BY SpecIInv, <1>1, PTL

(* Every signal that reached the callback is handled once and in order. *)
THEOREM SignalsHandledOnce == Spec => []SignalsOnceInOrder
<1>1. IInv => SignalsOnceInOrder
  BY DEF IInv, SignalInv
<1>2. QED
  BY SpecIInv, <1>1, PTL

=============================================================================
