----------------------------- MODULE RateLimit ------------------------------
(***************************************************************************)
(* The per-connection message limiter of the signaling server              *)
(* (RateLimit in signal/src/server.rs) and its use by the registration and *)
(* message loops of handle_connection, which close the connection when     *)
(* check() returns Err(true).                                              *)
(*                                                                         *)
(* Time is counted in ticks, Window of them to the second.  The limiter    *)
(* counts in fixed windows that start at the first message after the last  *)
(* window ended.  `log` and `starts` are history: for every message let    *)
(* through, when it came and when its window had started.                  *)
(***************************************************************************)
EXTENDS Integers, Sequences

CONSTANTS Limit,       \* RATE_LIMIT_PER_SECOND
          Threshold,   \* RATE_LIMIT_CLOSE_THRESHOLD
          Window,      \* ticks in one second
          MaxTime      \* bound: the clock stops here

ASSUME LimitPositive == Limit \in Nat \ {0}
ASSUME ThresholdPositive == Threshold \in Nat \ {0}
ASSUME WindowPositive == Window \in Nat \ {0}
ASSUME MaxTimeNat == MaxTime \in Nat

VARIABLES now,                    \* tokio::time::Instant::now()
          remaining,              \* messages left in this window
          window_start,
          consecutive_violations,
          connected,              \* the handler still reads messages
          log,                    \* history: arrival of each message let through
          starts                  \* history: window_start at that moment

vars == <<now, remaining, window_start, consecutive_violations, connected, log, starts>>

(* RateLimit::new *)
Init ==
    /\ now = 0
    /\ remaining = Limit
    /\ window_start = 0
    /\ consecutive_violations = 0
    /\ connected = TRUE
    /\ log = <<>>
    /\ starts = <<>>

Tick ==
    /\ now < MaxTime
    /\ now' = now + 1
    /\ UNCHANGED <<remaining, window_start, consecutive_violations, connected, log, starts>>

----------------------------------------------------------------------------
(* RateLimit::check, with the window and the budget after the reset test *)

Elapsed == now - window_start >= Window

Admit(budget, start) ==
    /\ budget > 0
    /\ remaining' = budget - 1
    /\ window_start' = start
    /\ consecutive_violations' = 0
    /\ log' = Append(log, now)
    /\ starts' = Append(starts, start)
    /\ UNCHANGED <<now, connected>>

(* Err(false) keeps the connection, Err(true) ends it. *)
Refuse(budget, start) ==
    /\ budget = 0
    /\ remaining' = budget
    /\ window_start' = start
    /\ consecutive_violations' = consecutive_violations + 1
    /\ connected' = (consecutive_violations + 1 < Threshold)
    /\ UNCHANGED <<now, log, starts>>

CheckWith(budget, start) ==
    /\ connected
    /\ Admit(budget, start) \/ Refuse(budget, start)

(* Mutants: the reset refills the budget and leaves window_start; the reset *)
(* moves window_start and forgets to refill; the budget is not tested.      *)
CheckKeepsStart == CheckWith(IF Elapsed THEN Limit ELSE remaining, window_start)
CheckNoRefill   == CheckWith(remaining, IF Elapsed THEN now ELSE window_start)
CheckUnderflow  ==
    /\ connected
    /\ remaining' = remaining - 1
    /\ log' = Append(log, now)
    /\ starts' = Append(starts, window_start)
    /\ UNCHANGED <<now, window_start, consecutive_violations, connected>>

Check == CheckWith(IF Elapsed THEN Limit ELSE remaining,
                   IF Elapsed THEN now ELSE window_start)

Next == Tick \/ Check

Spec == Init /\ [][Next]_vars

----------------------------------------------------------------------------
(* Type invariant; remaining is a u32 that check() must never underflow. *)
TypeOK ==
    /\ now \in Nat
    /\ remaining \in 0..Limit
    /\ window_start \in Nat
    /\ consecutive_violations \in 0..Threshold
    /\ connected \in BOOLEAN
    /\ log \in Seq(Nat)
    /\ starts \in Seq(Nat)

(* What the limiter guarantees over any stretch of one second, although it  *)
(* counts in fixed windows: at most 2 * Limit messages get through, since   *)
(* message i + 2 * Limit comes at least a second after message i.           *)
BurstBound ==
    \A i \in 1 .. Len(log) - 2 * Limit : log[i + 2 * Limit] - log[i] >= Window

(* A message is refused only if Limit messages got through within the last  *)
(* second: a client that keeps to the limit over every second is never      *)
(* answered "rate limited", wherever its messages fall in the windows.      *)
RefusalIsDeserved ==
    consecutive_violations' > consecutive_violations =>
        /\ Len(log) >= Limit
        /\ now - log[Len(log) - Limit + 1] < Window
NeverRefusedBelowLimit == [][RefusalIsDeserved]_vars

(* The connection is closed only for Threshold refusals in a row in one     *)
(* window: a refusal streak does not survive into the next window, where    *)
(* the first message is let through and resets it.                          *)
StreakWithinWindow ==
    consecutive_violations > 0 => remaining = 0 /\ Len(log) >= Limit
                                  /\ starts[Len(log) - Limit + 1] = window_start

=============================================================================
