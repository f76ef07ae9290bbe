-------------------------- MODULE ResilienceProofs --------------------------
(***************************************************************************)
(* The breaker and the client over it, for any number of calls and         *)
(* attempts and any threshold, timeout and probe limit.                    *)
(*                                                                         *)
(* The breaker's safety properties are inductive together (IInv).  The     *)
(* client implements its breaker: hiding attempts and timers, every        *)
(* behaviour of ResilientClient is one of CircuitBreaker, so what is shown *)
(* of the breaker holds behind every client.  What a call sends while the  *)
(* breaker is open it takes from the attempts it had left (LoadInv).       *)
(***************************************************************************)
EXTENDS ResilientClient, FiniteSetTheorems, TLAPS

-----------------------------------------------------------------------------
\* CircuitBreaker.

IInv ==
  /\ TypeOK
  /\ ClosedBelowThreshold
  /\ ProbesBounded
  /\ HalfOpenAwaitsProbe
  /\ WindowFromOpening

\* Capping a count at a bound keeps it there.
LEMMA CappedInRange ==
  ASSUME NEW n \in Nat, NEW bound \in Nat
  PROVE  Capped(n, bound) \in 0..bound
BY DEF Capped

\* An admitted probe is new to the period, so it is counted once.
LEMMA ProbesGrow ==
  ASSUME TypeOK, NEW c \in Calls, c \notin running
  PROVE  /\ Cardinality(probes \cup {c}) = Cardinality(probes) + 1
         /\ Cardinality({c}) = 1
<1>1. IsFiniteSet(probes) /\ c \notin probes
  BY BreakerAssumption, FS_Subset DEF TypeOK
<1>2. QED
  BY <1>1, FS_AddElement, FS_Singleton

LEMMA IInvInit == Init => IInv
BY BreakerAssumption DEF Init, IInv, TypeOK, ClosedBelowThreshold,
   ProbesBounded, HalfOpenAwaitsProbe, WindowFromOpening

LEMMA IInvStep == IInv /\ [Next]_vars => IInv'
<1> SUFFICES ASSUME IInv, [Next]_vars PROVE IInv'
  OBVIOUS
<1> USE BreakerAssumption DEF IInv, TypeOK, ClosedBelowThreshold,
        HalfOpenAwaitsProbe, WindowFromOpening
<1>1. ASSUME NEW c \in Calls, AdmitClosed(c) PROVE IInv'
  BY <1>1 DEF AdmitClosed, ProbesBounded
<1>2. ASSUME NEW c \in Calls, AdmitFirstProbe(c) PROVE IInv'
  <2>1. Cardinality(probes') = 1
    BY <1>2, ProbesGrow DEF AdmitFirstProbe
  <2>2. QED
    BY <1>2, <2>1 DEF AdmitFirstProbe, TransitionTo, ProbesBounded
<1>3. ASSUME NEW c \in Calls, AdmitProbe(c) PROVE IInv'
  <2>1. Cardinality(probes') = Cardinality(probes) + 1
    BY <1>3, ProbesGrow DEF AdmitProbe
  <2>2. QED
    BY <1>3, <2>1 DEF AdmitProbe, ProbesBounded
<1>4. ASSUME NEW c \in Calls, Succeed(c) PROVE IInv'
  BY <1>4 DEF Succeed, TransitionTo, ProbesBounded
<1>5. ASSUME NEW c \in Calls, Fail(c) PROVE IInv'
  <2>1. failureCount' \in 0..FailureThreshold
    BY <1>5, CappedInRange DEF Fail
  <2>2. CASE state = "HALF_OPEN" \/ failureCount + 1 >= FailureThreshold
    BY <1>5, <2>1, <2>2 DEF Fail, TransitionTo, ProbesBounded
  <2>3. CASE ~(state = "HALF_OPEN" \/ failureCount + 1 >= FailureThreshold)
    BY <1>5, <2>1, <2>3 DEF Fail, TransitionTo, ProbesBounded, Capped
  <2>4. QED BY <2>2, <2>3
<1>6. CASE Reset
  BY <1>6 DEF Reset, ProbesBounded
<1>7. CASE Tick
  BY <1>7 DEF Tick, Capped, ProbesBounded
<1>8. CASE UNCHANGED vars
  BY <1>8 DEF vars, ProbesBounded
<1>9. QED
  BY <1>1, <1>2, <1>3, <1>4, <1>5, <1>6, <1>7, <1>8 DEF Next, Execute, Settle

LEMMA InvariantHolds == Spec => []IInv
<1>1. QED
  BY IInvInit, IInvStep, PTL DEF Spec

\* The variables keep their types for any number of calls.
THEOREM TypeCorrect == Spec => []TypeOK
<1>1. IInv => TypeOK
  BY DEF IInv
<1>2. QED
  BY <1>1, InvariantHolds, PTL

\* No half-open breaker is left with nobody to decide it, whatever stale
\* outcomes arrive.
THEOREM HalfOpenIsNotWedged == Spec => []HalfOpenAwaitsProbe
<1>1. IInv => HalfOpenAwaitsProbe
  BY DEF IInv
<1>2. QED
  BY <1>1, InvariantHolds, PTL

\* A half-open period never admits more than halfOpenMax calls.
THEOREM ProbesStayBounded == Spec => []ProbesBounded
<1>1. IInv => ProbesBounded
  BY DEF IInv
<1>2. QED
  BY <1>1, InvariantHolds, PTL

\* A step that ends an open period comes from a first probe after the whole
\* timeout, or is a reset.
LEMMA OpenStep ==
  IInv /\ [Next]_vars =>
    [state = "OPEN" /\ state' # "OPEN" /\ ~Reset =>
       state' = "HALF_OPEN" /\ elapsed = ResetTimeout]_vars
<1> SUFFICES ASSUME IInv, Next, state = "OPEN", state' # "OPEN", ~Reset
             PROVE  state' = "HALF_OPEN" /\ elapsed = ResetTimeout
  OBVIOUS
<1>1. ASSUME NEW c \in Calls, Execute(c)
      PROVE  state' = "HALF_OPEN" /\ elapsed = ResetTimeout
  BY <1>1, BreakerAssumption DEF Execute, AdmitClosed, AdmitFirstProbe,
     AdmitProbe, TransitionTo, IInv, WindowFromOpening, TypeOK
<1>2. ASSUME NEW c \in Calls, Settle(c) PROVE FALSE
  BY <1>2 DEF Settle, Succeed, Fail, TransitionTo
<1>3. QED
  BY <1>1, <1>2 DEF Next, Tick

\* An open breaker stays open for its whole timeout.
THEOREM OpenLastsItsTimeout == Spec => OpenForWholeTimeout
<1>1. QED
  BY InvariantHolds, OpenStep, PTL DEF Spec, OpenForWholeTimeout

-----------------------------------------------------------------------------
\* ResilientClient.

\* The client's steps are steps of its breaker.
LEMMA ClientStep == [ClientNext]_clientVars => [Next]_vars
<1> SUFFICES ASSUME [ClientNext]_clientVars PROVE [Next]_vars
  OBVIOUS
<1>1. ASSUME NEW c \in Calls, Call(c) PROVE Next
  BY <1>1 DEF Call, Next
<1>2. ASSUME NEW c \in Calls, ReplyArrives(c) PROVE Next
  BY <1>2 DEF ReplyArrives, Next, Settle
<1>3. ASSUME NEW c \in Calls, NEW retryable \in BOOLEAN, EndAttempt(c, retryable)
      PROVE  Next \/ UNCHANGED vars
  BY <1>3 DEF EndAttempt, Next, Settle
<1>4. ASSUME NEW c \in Calls, NextAttempt(c) PROVE UNCHANGED vars
  BY <1>4 DEF NextAttempt
<1>5. CASE BreakerAlone
  BY <1>5 DEF BreakerAlone, Next
<1>6. CASE UNCHANGED clientVars
  BY <1>6 DEF clientVars
<1>7. QED
  BY <1>1, <1>2, <1>3, <1>4, <1>5, <1>6 DEF ClientNext, ErrorArrives, TimerFires

\* Retries and timers never make the breaker take a step it does not have.
THEOREM ClientImplementsBreaker == ClientSpec => Spec
<1>1. ClientInit => Init
  BY DEF ClientInit
<1>2. QED
  BY <1>1, ClientStep, PTL DEF ClientSpec, Spec

\* A call is one the breaker counts as running exactly while it has an attempt
\* sent or a pause to wait for, and it never makes more than maxAttempts.
THEOREM ClientTypeCorrect == ClientSpec => []ClientTypeOK
<1>1. ClientInit /\ TypeOK => ClientTypeOK
  BY ClientAssumption DEF ClientInit, Init, ClientTypeOK
<1>2. ClientTypeOK /\ TypeOK' /\ [ClientNext]_clientVars => ClientTypeOK'
  <2> SUFFICES ASSUME ClientTypeOK, TypeOK', [ClientNext]_clientVars PROVE ClientTypeOK'
    OBVIOUS
  <2> USE ClientAssumption DEF ClientTypeOK
  <2>1. ASSUME NEW c \in Calls, Call(c) PROVE ClientTypeOK'
    BY <2>1 DEF Call, Send, Recount, Execute, AdmitClosed, AdmitFirstProbe, AdmitProbe
  <2>2. ASSUME NEW c \in Calls, ReplyArrives(c) PROVE ClientTypeOK'
    BY <2>2 DEF ReplyArrives, Leave, Recount, Succeed
  <2>3. ASSUME NEW c \in Calls, NEW retryable \in BOOLEAN, EndAttempt(c, retryable)
        PROVE  ClientTypeOK'
    BY <2>3 DEF EndAttempt, Leave, Recount, Fail, vars
  <2>4. ASSUME NEW c \in Calls, NextAttempt(c) PROVE ClientTypeOK'
    BY <2>4 DEF NextAttempt, Send, Recount, vars
  <2>5. CASE BreakerAlone
    BY <2>5 DEF BreakerAlone, Recount, Reset, Tick
  <2>6. CASE UNCHANGED clientVars
    BY <2>6 DEF clientVars, vars
  <2>7. QED
    BY <2>1, <2>2, <2>3, <2>4, <2>5, <2>6 DEF ClientNext, ErrorArrives, TimerFires
<1>3. QED
  BY <1>1, <1>2, ClientImplementsBreaker, TypeCorrect, PTL DEF ClientSpec

\* However calls retry, a half-open period admits at most halfOpenMax of them.
THEOREM ClientProbesStayBounded == ClientSpec => []ProbesBounded
<1>1. QED
  BY ClientImplementsBreaker, ProbesStayBounded, PTL

\* A call has made one attempt before those it sends in an OPEN period, and the
\* call that opened the breaker cannot come back while it is OPEN.
LoadInv ==
  state = "OPEN" =>
    /\ \A c \in running : openSent[c] + 1 <= attempt[c]
    /\ \A c \in Calls : openSent[c] <= MaxAttempts - 1
    /\ \E c \in Calls \ running : openSent[c] = 0

LEMMA LoadStep ==
  ASSUME ClientTypeOK, ClientTypeOK', LoadInv, [ClientNext]_clientVars
  PROVE  LoadInv'
<1> USE ClientAssumption DEF ClientTypeOK
<1>1. ASSUME NEW c \in Calls, Call(c) PROVE LoadInv'
  BY <1>1 DEF Call, Execute, AdmitClosed, AdmitFirstProbe, AdmitProbe, TransitionTo, LoadInv
<1>2. ASSUME NEW c \in Calls, c \in running, Succeed(c) \/ Fail(c), Leave(c) PROVE LoadInv'
  <2> SUFFICES ASSUME state' = "OPEN"
               PROVE  /\ \A d \in running' : openSent'[d] + 1 <= attempt'[d]
                      /\ \A d \in Calls : openSent'[d] <= MaxAttempts - 1
                      /\ \E d \in Calls \ running' : openSent'[d] = 0
    BY DEF LoadInv
  <2>1. /\ running' = running \ {c} /\ running \subseteq Calls
        /\ \A d \in Calls \ {c} : attempt'[d] = attempt[d]
    BY <1>2 DEF Succeed, Fail, Leave, TypeOK
  <2>2. CASE state = "OPEN"
    <3>1. openSent' = openSent
      BY <1>2, <2>2 DEF Leave, Recount
    <3>2. QED
      BY <2>1, <2>2, <3>1 DEF LoadInv
  <2>3. CASE state # "OPEN"
    <3>1. openSent' = [d \in Calls |-> 0]
      BY <1>2, <2>3 DEF Leave, Recount
    <3>2. \A d \in running' : attempt'[d] >= 1
      BY <2>1
    <3>3. c \in Calls \ running'
      BY <2>1
    <3>4. \A d \in Calls : openSent'[d] = 0
      BY <3>1
    <3>5. \A d \in running' : openSent'[d] + 1 <= attempt'[d]
      BY <2>1, <3>2, <3>4
    <3>6. 0 <= MaxAttempts - 1
      OBVIOUS
    <3>7. QED
      BY <3>3, <3>4, <3>5, <3>6
  <2>4. QED
    BY <2>2, <2>3
<1>3. ASSUME NEW c \in Calls, ReplyArrives(c) PROVE LoadInv'
  BY <1>2, <1>3 DEF ReplyArrives, Succeed
<1>4. ASSUME NEW c \in Calls, NEW retryable \in BOOLEAN, EndAttempt(c, retryable)
      PROVE  LoadInv'
  <2>1. CASE UNCHANGED <<vars, attempt, openSent>>
    BY <2>1 DEF vars, LoadInv
  <2>2. CASE Fail(c) /\ Leave(c)
    BY <1>2, <2>2 DEF Fail
  <2>3. QED
    BY <1>4, <2>1, <2>2 DEF EndAttempt
<1>5. ASSUME NEW c \in Calls, NextAttempt(c) PROVE LoadInv'
  <2> SUFFICES ASSUME state = "OPEN"
               PROVE  /\ \A d \in running : openSent'[d] + 1 <= attempt'[d]
                      /\ \A d \in Calls : openSent'[d] <= MaxAttempts - 1
                      /\ \E d \in Calls \ running : openSent'[d] = 0
    BY <1>5 DEF NextAttempt, vars, LoadInv
  <2>1. /\ c \in running /\ attempt[c] < MaxAttempts
        /\ openSent' = [openSent EXCEPT ![c] = @ + 1]
        /\ attempt' = [attempt EXCEPT ![c] = attempt[c] + 1]
    BY <1>5 DEF NextAttempt, Send, Recount, vars
  <2>2. openSent'[c] = openSent[c] + 1 /\ attempt'[c] = attempt[c] + 1
    BY <2>1
  <2>3. \A d \in Calls \ {c} : openSent'[d] = openSent[d] /\ attempt'[d] = attempt[d]
    BY <2>1
  <2>4. openSent[c] + 1 <= attempt[c]
    BY <2>1 DEF LoadInv
  <2>5. openSent'[c] + 1 <= attempt'[c] /\ openSent'[c] <= MaxAttempts - 1
    BY <2>1, <2>2, <2>4
  <2>6. QED
    BY <2>1, <2>3, <2>5 DEF LoadInv
<1>6. CASE BreakerAlone
  <2>1. CASE Reset
    BY <2>1 DEF Reset, LoadInv
  <2>2. CASE Tick
    BY <1>6, <2>2 DEF BreakerAlone, Tick, Recount, LoadInv
  <2>3. QED
    BY <1>6, <2>1, <2>2 DEF BreakerAlone
<1>7. CASE UNCHANGED clientVars
  BY <1>7 DEF clientVars, vars, LoadInv
<1>8. QED
  BY <1>1, <1>3, <1>4, <1>5, <1>6, <1>7 DEF ClientNext, ErrorArrives, TimerFires

\* While the breaker is open a call sends at most the attempts it had left, and
\* the call that opened it sends nothing.
THEOREM OpenLoadStaysBounded == ClientSpec => []OpenLoadBounded
<1>1. ClientInit => LoadInv
  BY DEF ClientInit, Init, LoadInv
<1>2. ClientTypeOK /\ ClientTypeOK' /\ LoadInv /\ [ClientNext]_clientVars => LoadInv'
  BY LoadStep
<1>3. LoadInv => OpenLoadBounded
  BY DEF LoadInv, OpenLoadBounded
<1>4. QED
  BY <1>1, <1>2, <1>3, ClientTypeCorrect, PTL DEF ClientSpec

=============================================================================
