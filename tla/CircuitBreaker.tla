--------------------------- MODULE CircuitBreaker ---------------------------
(***************************************************************************)
(* CircuitBreaker (src/resilience/circuit-breaker.ts), shared by           *)
(* concurrent calls.                                                       *)
(*                                                                         *)
(* execute() admits or rejects a call against the state of that moment,    *)
(* awaits it, and reports its outcome against whatever state the breaker   *)
(* has reached by then.  A rejected call changes nothing and is left out.  *)
(* Time is the number of ticks left until nextAttemptTime.                 *)
(***************************************************************************)
EXTENDS Naturals, FiniteSets

CONSTANTS
  Calls,             \* concurrent callers of execute()
  FailureThreshold,
  ResetTimeout,      \* in ticks
  HalfOpenMax

ASSUME BreakerAssumption ==
  /\ FailureThreshold \in Nat \ {0}
  /\ ResetTimeout \in Nat \ {0}
  /\ HalfOpenMax \in Nat \ {0}
  /\ IsFiniteSet(Calls)

VARIABLES
  state,
  failureCount,      \* saturates at FailureThreshold: only >= is asked of it
  halfOpenAttempts,
  wait,              \* nextAttemptTime - Date.now(), or 0 once it has passed
  running,           \* calls admitted and not settled
  probes,            \* those admitted in the current HALF_OPEN period
  elapsed            \* ticks since the breaker opened, saturating likewise

vars == <<state, failureCount, halfOpenAttempts, wait, running, probes, elapsed>>

TypeOK ==
  /\ state \in {"CLOSED", "OPEN", "HALF_OPEN"}
  /\ failureCount \in 0..FailureThreshold
  /\ halfOpenAttempts \in 0..HalfOpenMax
  /\ wait \in 0..ResetTimeout
  /\ running \subseteq Calls
  /\ probes \subseteq running
  /\ elapsed \in 0..ResetTimeout

Init ==
  /\ state = "CLOSED"
  /\ failureCount = 0
  /\ halfOpenAttempts = 0
  /\ wait = 0
  /\ running = {}
  /\ probes = {}
  /\ elapsed = 0

Capped(n, bound) == IF n < bound THEN n ELSE bound

\* transitionTo(): entering the state the breaker is in does nothing.
TransitionTo(newState) ==
  /\ state' = newState
  /\ wait' = IF newState = "OPEN" /\ state # "OPEN" THEN ResetTimeout ELSE wait
  /\ elapsed' = IF newState = "OPEN" /\ state # "OPEN" THEN 0 ELSE elapsed

-----------------------------------------------------------------------------

\* execute() lets the call through a closed breaker.
AdmitClosed(c) ==
  /\ c \notin running
  /\ state = "CLOSED"
  /\ running' = running \cup {c}
  /\ UNCHANGED <<state, failureCount, halfOpenAttempts, wait, probes, elapsed>>

\* The first call after nextAttemptTime turns an open breaker HALF_OPEN and
\* is let through as its first probe.
AdmitFirstProbe(c) ==
  /\ c \notin running
  /\ state = "OPEN" /\ wait = 0
  /\ TransitionTo("HALF_OPEN")
  /\ halfOpenAttempts' = 1
  /\ running' = running \cup {c}
  /\ probes' = {c}
  /\ UNCHANGED failureCount

\* Mutant: the limit is compared with > in place of >=.
AdmitOneProbeTooMany(c) ==
  /\ c \notin running
  /\ state = "HALF_OPEN" /\ halfOpenAttempts <= HalfOpenMax
  /\ halfOpenAttempts' = halfOpenAttempts + 1
  /\ running' = running \cup {c}
  /\ probes' = probes \cup {c}
  /\ UNCHANGED <<state, failureCount, wait, elapsed>>

\* Further probes, up to halfOpenMax.
AdmitProbe(c) ==
  /\ c \notin running
  /\ state = "HALF_OPEN" /\ halfOpenAttempts < HalfOpenMax
  /\ halfOpenAttempts' = halfOpenAttempts + 1
  /\ running' = running \cup {c}
  /\ probes' = probes \cup {c}
  /\ UNCHANGED <<state, failureCount, wait, elapsed>>

\* Mutant: any success closes the breaker.
SucceedClosing(c) ==
  /\ c \in running
  /\ running' = running \ {c}
  /\ TransitionTo("CLOSED")
  /\ failureCount' = 0
  /\ halfOpenAttempts' = 0
  /\ probes' = {}

\* The call's promise resolves: onSuccess().
Succeed(c) ==
  /\ c \in running
  /\ running' = running \ {c}
  /\ TransitionTo(IF state = "HALF_OPEN" THEN "CLOSED" ELSE state)
  /\ failureCount' = 0
  /\ halfOpenAttempts' = 0
  /\ probes' = {}

\* Mutant: a failing probe only counts; the breaker stays HALF_OPEN.
FailStayingHalfOpen(c) ==
  /\ c \in running
  /\ running' = running \ {c}
  /\ failureCount' = Capped(failureCount + 1, FailureThreshold)
  /\ TransitionTo(IF state = "CLOSED" /\ failureCount + 1 >= FailureThreshold
                  THEN "OPEN" ELSE state)
  /\ probes' = probes \ {c}
  /\ UNCHANGED halfOpenAttempts

\* The call's promise rejects: onFailure().
Fail(c) ==
  /\ c \in running
  /\ running' = running \ {c}
  /\ failureCount' = Capped(failureCount + 1, FailureThreshold)
  /\ TransitionTo(IF \/ state = "HALF_OPEN"
                     \/ failureCount + 1 >= FailureThreshold
                  THEN "OPEN" ELSE state)
  /\ probes' = {}
  /\ UNCHANGED halfOpenAttempts

\* reset(), called by an operator.
Reset ==
  /\ state' = "CLOSED"
  /\ failureCount' = 0
  /\ halfOpenAttempts' = 0
  /\ wait' = 0
  /\ probes' = {}
  /\ UNCHANGED <<running, elapsed>>

Tick ==
  /\ wait > 0 \/ (state = "OPEN" /\ elapsed < ResetTimeout)
  /\ wait' = IF wait > 0 THEN wait - 1 ELSE 0
  /\ elapsed' = Capped(elapsed + 1, ResetTimeout)
  /\ UNCHANGED <<state, failureCount, halfOpenAttempts, running, probes>>

Execute(c) == AdmitClosed(c) \/ AdmitFirstProbe(c) \/ AdmitProbe(c)

Settle(c) == Succeed(c) \/ Fail(c)

Next ==
  \/ \E c \in Calls : Execute(c) \/ Settle(c)
  \/ Reset
  \/ Tick

Spec == Init /\ [][Next]_vars

\* Callers keep calling and time passes, but the dependency may hang; Reset is
\* an operator's choice.
HangingSpec ==
  Spec /\ WF_vars(Tick) /\ \A c \in Calls : WF_vars(Execute(c))

-----------------------------------------------------------------------------

\* A closed breaker has always seen fewer failures than its threshold since
\* the last success, stale outcomes of earlier periods included.
ClosedBelowThreshold ==
  state = "CLOSED" => failureCount < FailureThreshold

\* The probes of a HALF_OPEN period that still run are all it has admitted,
\* and at most halfOpenMax: no outcome lets a further one in.
ProbesBounded ==
  state = "HALF_OPEN" =>
    /\ Cardinality(probes) = halfOpenAttempts
    /\ halfOpenAttempts <= HalfOpenMax

\* A breaker that is HALF_OPEN waits for a probe that runs: it cannot use up
\* its attempts and then reject every call with none left to decide.
HalfOpenAwaitsProbe ==
  state = "HALF_OPEN" => probes # {}

\* The timeout of an open breaker runs from the moment it opened; calls that
\* fail while it is open do not push nextAttemptTime back.
WindowFromOpening ==
  state = "OPEN" => wait + elapsed = ResetTimeout

\* An open breaker stays open for its whole timeout whatever the calls
\* admitted earlier return, and then becomes HALF_OPEN, unless it is reset.
OpenForWholeTimeout ==
  [][state = "OPEN" /\ state' # "OPEN" /\ ~Reset =>
       state' = "HALF_OPEN" /\ elapsed = ResetTimeout]_vars

\* No open breaker stays open: it comes to probe, and the probing ends.  It
\* takes callers that see every call settled.
Recovers ==
  /\ state = "OPEN" ~> state # "OPEN"
  /\ state = "HALF_OPEN" ~> state # "HALF_OPEN"

-----------------------------------------------------------------------------
\* Statements of the documentation, comments or tests that the code does not
\* keep: TLC refutes each of them.

\* docs/api/resilience.md:28: HALF_OPEN turns CLOSED when a probe call
\* succeeds, so not on the outcome of a call admitted before.
ClosedByProbe ==
  [][\A c \in Calls :
       state = "HALF_OPEN" /\ state' = "CLOSED" /\ c \in running \ running'
         => c \in probes]_vars

\* docs/api/resilience.md:29: HALF_OPEN turns OPEN when a probe fails or the
\* halfOpenMax limit is reached, so it does not last for ever.  Refuted under HangingSpec.
HalfOpenEnds == state = "HALF_OPEN" ~> state # "HALF_OPEN"

=============================================================================
