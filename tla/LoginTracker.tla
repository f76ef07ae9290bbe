------------------------------ MODULE LoginTracker ------------------------------
(***************************************************************************)
(* LoginTracker (src/auth/login-tracker/login-tracker.ts): failed logins   *)
(* per account, in the memory of one process.                              *)
(*                                                                         *)
(* lockedUntil is always lastAttempt + lockoutDuration, and is set exactly *)
(* when count has reached maxAttempts, so an entry is its count and the    *)
(* age of its last attempt.                                                *)
(***************************************************************************)
EXTENDS Naturals

CONSTANTS
  Accounts,
  MaxFailures,       \* options.maxAttempts
  LockoutDuration,   \* in ticks
  SweepEvery         \* 100 in the code: failures between two sweeps

ASSUME TrackerAssumption ==
  /\ MaxFailures \in Nat \ {0}
  /\ LockoutDuration \in Nat \ {0}
  /\ SweepEvery \in Nat \ {0}

VARIABLES
  count,          \* attempts.get(a).count, saturating at MaxFailures; 0: no entry
  age,            \* since lastAttempt, saturating just past the sweep's limit
  failureCount,   \* modulo SweepEvery
  streak          \* failures with less than LockoutDuration between two of them

trackerVars == <<count, age, failureCount, streak>>

Forgotten == 2 * LockoutDuration + 1

TrackerTypeOK ==
  /\ count \in [Accounts -> 0..MaxFailures]
  /\ age \in [Accounts -> 0..Forgotten]
  /\ failureCount \in 0..(SweepEvery - 1)
  /\ streak \in [Accounts -> Nat]

TrackerInit ==
  /\ count = [a \in Accounts |-> 0]
  /\ age = [a \in Accounts |-> 0]
  /\ failureCount = 0
  /\ streak = [a \in Accounts |-> 0]

\* lockedUntil > new Date().
Locked(a) == count[a] = MaxFailures /\ age[a] < LockoutDuration

\* isLocked(): the entry of a lock that has expired is deleted.
IsLocked(a, answer) ==
  /\ answer = Locked(a)
  /\ count' = IF count[a] = MaxFailures /\ ~answer
              THEN [count EXCEPT ![a] = 0] ELSE count
  /\ UNCHANGED <<age, failureCount, streak>>

\* Mutant: entries are swept when their lock could still be running.
SweptEarly(a) == failureCount + 1 = SweepEvery /\ age[a] > 0

\* cleanup() on every SweepEvery-th failure.
Swept(a) == failureCount + 1 = SweepEvery /\ age[a] > 2 * LockoutDuration

\* recordFailure(): the sweep comes first and may take the account's own entry.
RecordFailure(a) ==
  /\ failureCount' = (failureCount + 1) % SweepEvery
  /\ count' = [b \in Accounts |->
       LET kept == IF Swept(b) THEN 0 ELSE count[b]
       IN  IF b = a /\ kept < MaxFailures THEN kept + 1 ELSE kept]
  /\ age' = [age EXCEPT ![a] = 0]
  /\ streak' = [streak EXCEPT ![a] = @ + 1]

\* recordSuccess() and unlock().
ClearEntry(a) ==
  /\ count' = [count EXCEPT ![a] = 0]
  /\ streak' = [streak EXCEPT ![a] = 0]
  /\ UNCHANGED <<age, failureCount>>

TrackerTick ==
  /\ age' = [a \in Accounts |-> IF age[a] < Forgotten THEN age[a] + 1 ELSE age[a]]
  /\ streak' = [a \in Accounts |->
       IF age[a] + 1 >= LockoutDuration THEN 0 ELSE streak[a]]
  /\ UNCHANGED <<count, failureCount>>

=============================================================================
