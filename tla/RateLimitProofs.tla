-------------------------- MODULE RateLimitProofs ---------------------------
(***************************************************************************)
(* Proofs about RateLimit, for every limit, threshold and window length.   *)
(* The inductive invariant relates the history to the limiter's state:     *)
(* windows are at least Window apart, a message lies in its window, and    *)
(* the messages of the current window are the last Limit - remaining.      *)
(***************************************************************************)
EXTENDS RateLimit, TLAPS

(* Every message let through lies in its window, and no later than now. *)
InWindow ==
    /\ Len(starts) = Len(log)
    /\ window_start <= now
    /\ \A i \in 1..Len(log) :
         /\ starts[i] <= log[i]
         /\ log[i] < starts[i] + Window
         /\ log[i] <= now

(* Two windows coincide or start at least Window apart. *)
Apart(s, t) == s = t \/ s + Window <= t
WindowsApart ==
    /\ \A i \in 1..Len(log) : Apart(starts[i], window_start)
    /\ \A i, j \in 1..Len(log) : i <= j => Apart(starts[i], starts[j])

(* The current window's messages are the last Limit - remaining ones. *)
CurrentWindow ==
    /\ Limit - remaining <= Len(log)
    /\ \A i \in 1..Len(log) :
         starts[i] = window_start <=> i > Len(log) - (Limit - remaining)

(* No window holds more than Limit messages. *)
WindowBudget ==
    \A i \in 1 .. Len(log) - Limit : starts[i] + Window <= starts[i + Limit]

(* Refusals happen with an empty budget, and the threshold ends the loop. *)
Streak ==
    /\ consecutive_violations > 0 => remaining = 0
    /\ connected => consecutive_violations < Threshold

IInv == TypeOK /\ InWindow /\ WindowsApart /\ CurrentWindow /\ WindowBudget /\ Streak

----------------------------------------------------------------------------
(* The invariant holds of a fresh limiter (RateLimit::new). *)
LEMMA InitIInv == Init => IInv
  BY LimitPositive, ThresholdPositive, WindowPositive
     DEF Init, IInv, TypeOK, InWindow, WindowsApart, Apart, CurrentWindow, WindowBudget, Streak

(* Passing time changes no window. *)
LEMMA TickIInv == IInv /\ Tick => IInv'
  BY DEF Tick, IInv, TypeOK, InWindow, WindowsApart, Apart, CurrentWindow, WindowBudget, Streak

(* A message let through, into the current window or into a new one that    *)
(* starts now, keeps the invariant (the Ok branch of RateLimit::check).     *)
LEMMA AdmitIInv ==
  ASSUME IInv, connected, NEW STATE b, NEW STATE w, Admit(b, w),
         \/ b = remaining /\ w = window_start /\ ~Elapsed
         \/ b = Limit /\ w = now /\ Elapsed
  PROVE  IInv'
<1> USE LimitPositive, ThresholdPositive, WindowPositive
<1> DEFINE n == Len(log) + 1
<1>1. /\ now \in Nat /\ remaining \in 0..Limit /\ window_start \in Nat
      /\ log \in Seq(Nat) /\ starts \in Seq(Nat) /\ Len(starts) = Len(log)
      /\ Len(log) \in Nat
  BY DEF IInv, TypeOK, InWindow
<1>2. /\ log' = Append(log, now) /\ starts' = Append(starts, w)
      /\ remaining' = b - 1 /\ window_start' = w /\ now' = now
      /\ consecutive_violations' = 0 /\ connected' = connected /\ b > 0
  BY DEF Admit
<1>3. /\ w \in Nat /\ b \in 1..Limit /\ w <= now /\ window_start <= w
      /\ now - w < Window
  BY <1>1, <1>2 DEF IInv, InWindow, Elapsed
<1>4. /\ Len(log') = n /\ Len(starts') = n
      /\ log'[n] = now /\ starts'[n] = w
      /\ \A i \in 1..Len(log) : log'[i] = log[i] /\ starts'[i] = starts[i]
      /\ log' \in Seq(Nat) /\ starts' \in Seq(Nat)
  BY <1>1, <1>2, <1>3
<1>5. \A i \in 1..n : i = n \/ i \in 1..Len(log)
  BY <1>1
<1>6. \A i \in 1..Len(log) : starts[i] \in Nat /\ log[i] \in Nat
  BY <1>1
<1>7. TypeOK'
  BY <1>1, <1>2, <1>3, <1>4 DEF IInv, TypeOK
<1>8. InWindow'
  BY <1>1, <1>2, <1>3, <1>4, <1>5 DEF IInv, InWindow
<1>9. \A i \in 1..Len(log) : Apart(starts[i], w)
  BY <1>1, <1>3, <1>6 DEF IInv, InWindow, WindowsApart, Apart, Elapsed
<1>e. Elapsed => \A i \in 1..Len(log) : starts[i] < now
  <2> SUFFICES ASSUME Elapsed, NEW i \in 1..Len(log)
               PROVE  starts[i] < now
    OBVIOUS
  <2>1. Apart(starts[i], window_start) /\ starts[i] \in Nat
    BY <1>6 DEF IInv, WindowsApart
  <2>2. now - window_start >= Window
    BY DEF Elapsed
  <2>3. QED
    BY <2>1, <2>2, <1>1 DEF Apart
<1>10. WindowsApart'
  <2>1. \A i \in 1..n : Apart(starts'[i], w)
    <3>1. Apart(w, w)
      BY DEF Apart
    <3>2. QED
      BY <3>1, <1>4, <1>5, <1>9
  <2>2. ASSUME NEW i \in 1..n, NEW j \in 1..n, i <= j
        PROVE  Apart(starts'[i], starts'[j])
    <3>1. CASE j = n
      BY <2>1, <3>1, <1>4
    <3>2. CASE j \in 1..Len(log)
      <4>1. i \in 1..Len(log)
        BY <2>2, <3>2, <1>1
      <4>2. QED
        BY <2>2, <3>2, <4>1, <1>4 DEF IInv, WindowsApart
    <3>3. QED
      BY <3>1, <3>2, <1>5
  <2>3. QED
    BY <2>1, <2>2, <1>2, <1>4 DEF WindowsApart
<1>11. CurrentWindow'
  <2>1. CASE b = remaining /\ w = window_start
    BY <2>1, <1>1, <1>2, <1>3, <1>4, <1>5 DEF IInv, CurrentWindow
  <2>2. CASE b = Limit /\ w = now /\ Elapsed
    <3>1. \A i \in 1..Len(log) : starts[i] # w
      BY <2>2, <1>1, <1>6, <1>e
    <3>2. QED
      BY <3>1, <2>2, <1>1, <1>2, <1>4, <1>5 DEF CurrentWindow
  <2>3. QED
    BY <2>1, <2>2
<1>12. WindowBudget'
  <2> SUFFICES ASSUME NEW i \in 1 .. n - Limit
               PROVE  starts'[i] + Window <= starts'[i + Limit]
    BY <1>4 DEF WindowBudget
  <2>1. i \in 1..Len(log)
    BY <1>1
  <2>2. CASE i + Limit = n
    <3>1. CASE b = remaining /\ w = window_start
      <4>1. ~(i > Len(log) - (Limit - remaining))
        BY <2>1, <2>2, <3>1, <1>1, <1>3
      <4>2. starts[i] # w
        BY <2>1, <3>1, <4>1 DEF IInv, CurrentWindow
      <4>3. QED
        BY <4>2, <2>1, <2>2, <1>4, <1>9 DEF Apart
    <3>2. CASE w = now /\ Elapsed
      <4>1. starts[i] # w
        BY <3>2, <2>1, <1>1, <1>6, <1>e
      <4>2. QED
        BY <4>1, <2>1, <2>2, <1>4, <1>9 DEF Apart
    <3>3. QED
      BY <3>1, <3>2
  <2>3. CASE i + Limit # n
    <3>1. i \in 1 .. Len(log) - Limit /\ i + Limit \in 1..Len(log)
      <4>1. i \in Nat /\ i >= 1 /\ i <= n - Limit
        BY <1>1
      <4>2. QED
        BY <4>1, <2>3, <1>1
    <3>2. QED
      BY <3>1, <2>1, <1>4 DEF IInv, WindowBudget
  <2>4. QED
    BY <2>2, <2>3
<1>13. Streak'
  BY <1>2 DEF Streak
<1>14. QED
  BY <1>7, <1>8, <1>10, <1>11, <1>12, <1>13 DEF IInv

(* A refusal changes only the streak, since the budget is empty only inside *)
(* a window that has not elapsed (the Err branch of RateLimit::check).      *)
LEMMA RefuseIInv ==
  ASSUME IInv, connected, Refuse(remaining, window_start), ~Elapsed
  PROVE  IInv'
<1>1. UNCHANGED <<now, remaining, window_start, log, starts>> /\ remaining = 0
  BY DEF Refuse
<1>2. /\ consecutive_violations' = consecutive_violations + 1
      /\ connected' = (consecutive_violations + 1 < Threshold)
  BY DEF Refuse
<1>3. consecutive_violations \in 0..Threshold /\ consecutive_violations < Threshold
  BY DEF IInv, TypeOK, Streak
<1>4. TypeOK' /\ Streak'
  <2>1. connected' \in BOOLEAN
    BY <1>2
  <2>2. connected' => consecutive_violations' < Threshold
    BY <1>2
  <2>3. consecutive_violations' \in 0..Threshold
    BY <1>2, <1>3, ThresholdPositive
  <2>4. TypeOK'
    BY <1>1, <2>1, <2>3 DEF IInv, TypeOK
  <2>5. Streak'
    BY <1>1, <2>2 DEF Streak
  <2>6. QED
    BY <2>4, <2>5
<1>5. (InWindow /\ WindowsApart /\ CurrentWindow /\ WindowBudget)'
  BY <1>1 DEF IInv, InWindow, WindowsApart, CurrentWindow, WindowBudget
<1>6. QED
  BY <1>4, <1>5 DEF IInv

(* check() after the reset test: either nothing elapsed, or a full budget. *)
LEMMA CheckCases ==
  ASSUME Check
  PROVE  /\ connected
         /\ \/ ~Elapsed /\ (Admit(remaining, window_start) \/ Refuse(remaining, window_start))
            \/ Elapsed /\ Admit(Limit, now)
  BY LimitPositive DEF Check, CheckWith, Refuse

(* Every call of check() and every tick keeps the invariant. *)
LEMMA NextIInv == IInv /\ [Next]_vars => IInv'
<1> SUFFICES ASSUME IInv, [Next]_vars
             PROVE  IInv'
  OBVIOUS
<1>1. CASE Tick
  BY <1>1, TickIInv
<1>2. CASE Check
  <2>1. CASE ~Elapsed /\ Admit(remaining, window_start)
    BY <2>1, <1>2, CheckCases, AdmitIInv
  <2>2. CASE ~Elapsed /\ Refuse(remaining, window_start)
    BY <2>2, <1>2, CheckCases, RefuseIInv
  <2>3. CASE Elapsed /\ Admit(Limit, now)
    BY <2>3, <1>2, CheckCases, AdmitIInv
  <2>4. QED
    BY <1>2, <2>1, <2>2, <2>3, CheckCases
<1>3. CASE UNCHANGED vars
  BY <1>3 DEF vars, IInv, TypeOK, InWindow, WindowsApart, Apart, CurrentWindow,
              WindowBudget, Streak
<1>4. QED
  BY <1>1, <1>2, <1>3 DEF Next

(* The invariant holds in every reachable state. *)
LEMMA SpecIInv == Spec => []IInv
  BY InitIInv, NextIInv, PTL DEF Spec

----------------------------------------------------------------------------
(* The limiter's counters stay in range: remaining, a u32, never underflows *)
(* in RateLimit::check.                                                     *)
THEOREM TypeCorrect == Spec => []TypeOK
<1>1. IInv => TypeOK
  BY DEF IInv
<1>2. QED
  BY <1>1, SpecIInv, PTL

(* Whatever the windows, at most 2 * Limit messages of a connection get     *)
(* through RateLimit::check in one second.                                  *)
THEOREM BurstBounded == Spec => []BurstBound
<1>1. ASSUME IInv PROVE BurstBound
  <2> USE LimitPositive, WindowPositive
  <2> SUFFICES ASSUME NEW i \in 1 .. Len(log) - 2 * Limit
               PROVE  log[i + 2 * Limit] - log[i] >= Window
    BY DEF BurstBound
  <2>1. /\ log \in Seq(Nat) /\ starts \in Seq(Nat) /\ Len(starts) = Len(log)
        /\ Len(log) \in Nat
    BY <1>1 DEF IInv, TypeOK, InWindow
  <2>2. /\ i \in 1 .. Len(log) - Limit
        /\ i + Limit \in 1 .. Len(log) - Limit
        /\ (i + Limit) + Limit = i + 2 * Limit
        /\ i + 2 * Limit \in 1..Len(log)
        /\ i \in 1..Len(log)
        /\ i + Limit \in 1..Len(log)
    BY <2>1
  <2>3. /\ starts[i] + Window <= starts[i + Limit]
        /\ starts[i + Limit] + Window <= starts[i + 2 * Limit]
    BY <1>1, <2>2 DEF IInv, WindowBudget
  <2>4. /\ log[i] < starts[i] + Window
        /\ starts[i + 2 * Limit] <= log[i + 2 * Limit]
    BY <1>1, <2>2 DEF IInv, InWindow
  <2>5. /\ log[i] \in Nat /\ log[i + 2 * Limit] \in Nat /\ starts[i] \in Nat
        /\ starts[i + Limit] \in Nat /\ starts[i + 2 * Limit] \in Nat
    BY <2>1, <2>2
  <2>6. QED
    BY <2>3, <2>4, <2>5
<1>2. QED
  BY <1>1, SpecIInv, PTL

(* A streak of refusals by RateLimit::check stays within one window.        *)
THEOREM StreakBounded == Spec => []StreakWithinWindow
<1>1. ASSUME IInv PROVE StreakWithinWindow
  <2>1. remaining = 0 /\ Len(log) \in Nat => Len(log) >= Limit
    BY <1>1, LimitPositive DEF IInv, CurrentWindow
  <2>2. Len(log) \in Nat
    BY <1>1 DEF IInv, TypeOK
  <2>3. ASSUME remaining = 0 PROVE starts[Len(log) - Limit + 1] = window_start
    <3>1. Len(log) - Limit + 1 \in 1..Len(log)
      BY <2>1, <2>2, <2>3, LimitPositive
    <3>2. QED
      BY <1>1, <2>2, <2>3, <3>1, LimitPositive DEF IInv, CurrentWindow
  <2>4. QED
    BY <1>1, <2>1, <2>2, <2>3 DEF IInv, Streak, StreakWithinWindow
<1>2. QED
  BY <1>1, SpecIInv, PTL

(* A client that sends at most Limit messages in every second is never      *)
(* refused by RateLimit::check.                                             *)
THEOREM RefusedOnlyAboveLimit == Spec => NeverRefusedBelowLimit
<1>1. ASSUME IInv, [Next]_vars PROVE [RefusalIsDeserved]_vars
  <2> SUFFICES ASSUME Next, consecutive_violations' > consecutive_violations
               PROVE  Len(log) >= Limit /\ now - log[Len(log) - Limit + 1] < Window
    BY <1>1 DEF RefusalIsDeserved
  <2>0. /\ consecutive_violations \in Nat /\ Len(log) \in Nat /\ now \in Nat
        /\ window_start \in Nat /\ log \in Seq(Nat) /\ remaining \in 0..Limit
    BY <1>1 DEF IInv, TypeOK
  <2>1. Check /\ ~Elapsed /\ Refuse(remaining, window_start)
    BY <2>0, CheckCases DEF Next, Tick, Admit
  <2>2. remaining = 0
    BY <2>1 DEF Refuse
  <2>3. Len(log) >= Limit /\ Len(log) - Limit + 1 \in 1..Len(log)
    BY <1>1, <2>0, <2>2, LimitPositive DEF IInv, CurrentWindow
  <2>4. starts[Len(log) - Limit + 1] = window_start
    BY <1>1, <2>0, <2>2, <2>3, LimitPositive DEF IInv, CurrentWindow
  <2>5. window_start <= log[Len(log) - Limit + 1] /\ log[Len(log) - Limit + 1] \in Nat
    BY <1>1, <2>0, <2>3, <2>4 DEF IInv, InWindow
  <2>6. now - window_start < Window
    BY <2>0, <2>1, WindowPositive DEF Elapsed
  <2>7. QED
    BY <2>0, <2>3, <2>5, <2>6, WindowPositive
<1>2. QED
  BY <1>1, SpecIInv, PTL DEF Spec, NeverRefusedBelowLimit

=============================================================================
