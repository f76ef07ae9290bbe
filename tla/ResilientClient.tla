---------------------------- MODULE ResilientClient ----------------------------
(***************************************************************************)
(* ResilientServiceClient.call() (src/transport/resilient-client.ts) over  *)
(* one CircuitBreaker: circuit breaker, then retry, then timeout.          *)
(*                                                                         *)
(* The breaker admits a call once; inside it the call makes up to          *)
(* maxAttempts attempts, each raced against a timer, with a pause between  *)
(* two of them.  The timeout is configured; the service may answer late or *)
(* never, and what an abandoned request still does there never reaches the *)
(* client and is left out.                                                 *)
(***************************************************************************)
EXTENDS CircuitBreaker

CONSTANT MaxAttempts   \* retry.maxAttempts; 1 stands for no retry option

ASSUME ClientAssumption == MaxAttempts \in Nat \ {0}

VARIABLES
  attempt,   \* attempts each running call has made; 0 when it does not run
  phase,     \* what it awaits: the race of reply and timer, or the pause
  openSent   \* requests each call has sent in the current OPEN period

clientVars == <<vars, attempt, phase, openSent>>

ClientTypeOK ==
  /\ TypeOK
  /\ attempt \in [Calls -> 0..MaxAttempts]
  /\ phase \in [Calls -> {"idle", "reply", "pause"}]
  /\ openSent \in [Calls -> Nat]
  /\ \A c \in Calls : c \in running <=> phase[c] # "idle"
  /\ \A c \in Calls : c \in running <=> attempt[c] > 0
  /\ \A c \in Calls : phase[c] = "pause" => attempt[c] < MaxAttempts

ClientInit ==
  /\ Init
  /\ attempt = [c \in Calls |-> 0]
  /\ phase = [c \in Calls |-> "idle"]
  /\ openSent = [c \in Calls |-> 0]

\* Requests are counted while the breaker is OPEN.
Recount(sent) ==
  openSent' = IF state = "OPEN" /\ state' = "OPEN" THEN sent ELSE [c \in Calls |-> 0]

\* super.call() sends the request and _callWithTimeout sets its timer.
Send(c, n) ==
  /\ attempt' = [attempt EXCEPT ![c] = n]
  /\ phase' = [phase EXCEPT ![c] = "reply"]
  /\ Recount([openSent EXCEPT ![c] = @ + 1])

-----------------------------------------------------------------------------

\* call(): the breaker admits it and the first attempt is sent.
Call(c) ==
  /\ Execute(c)
  /\ Send(c, 1)

\* The call has left execute().
Leave(c) ==
  /\ attempt' = [attempt EXCEPT ![c] = 0]
  /\ phase' = [phase EXCEPT ![c] = "idle"]
  /\ Recount(openSent)

\* The reply of the running attempt arrives before its timer fires.
ReplyArrives(c) ==
  /\ phase[c] = "reply"
  /\ Succeed(c)
  /\ Leave(c)

\* Mutant: the last attempt is compared with maxAttempts, not maxAttempts - 1.
EndAttemptLate(c, retryable) ==
  /\ phase[c] = "reply"
  /\ \/ /\ retryable /\ attempt[c] <= MaxAttempts
        /\ phase' = [phase EXCEPT ![c] = "pause"]
        /\ UNCHANGED <<vars, attempt, openSent>>
     \/ /\ ~retryable \/ attempt[c] > MaxAttempts
        /\ Fail(c)
        /\ Leave(c)

\* The running attempt has failed: the loop pauses before the next one, or
\* throws after the last, or when retryOn() refuses the error.
EndAttempt(c, retryable) ==
  /\ phase[c] = "reply"
  /\ \/ /\ retryable /\ attempt[c] < MaxAttempts
        /\ phase' = [phase EXCEPT ![c] = "pause"]
        /\ UNCHANGED <<vars, attempt, openSent>>
     \/ /\ ~retryable \/ attempt[c] = MaxAttempts
        /\ Fail(c)
        /\ Leave(c)

\* The service rejects the request.
ErrorArrives(c) == \E retryable \in BOOLEAN : EndAttempt(c, retryable)

\* Mutant: only the first attempt of a call has a timer.
FirstTimerFires(c) ==
  /\ attempt[c] = 1
  /\ \E retryable \in BOOLEAN : EndAttempt(c, retryable)

\* The timer of the attempt fires before any reply.
TimerFires(c) == \E retryable \in BOOLEAN : EndAttempt(c, retryable)

\* sleep(delay) is over: the next attempt, whatever the breaker's state is by now.
NextAttempt(c) ==
  /\ phase[c] = "pause"
  /\ UNCHANGED vars
  /\ Send(c, attempt[c] + 1)

\* Steps of the breaker that no call takes.
BreakerAlone ==
  /\ Reset \/ Tick
  /\ Recount(openSent)
  /\ UNCHANGED <<attempt, phase>>

ClientNext ==
  \/ \E c \in Calls : \/ Call(c) \/ ReplyArrives(c) \/ ErrorArrives(c)
                      \/ TimerFires(c) \/ NextAttempt(c)
  \/ BreakerAlone

ClientSpec == ClientInit /\ [][ClientNext]_clientVars

\* Time passes, timers fire and callers keep calling.  Nothing is asked of
\* the service, which may never answer.
ClientFairSpec ==
  /\ ClientSpec
  /\ WF_clientVars(BreakerAlone /\ Tick)
  /\ \A c \in Calls : /\ WF_clientVars(Call(c))
                      /\ WF_clientVars(TimerFires(c))
                      /\ WF_clientVars(NextAttempt(c))

-----------------------------------------------------------------------------

\* What the service gets while the breaker is OPEN is only what calls
\* admitted before still have in hand: at most the attempts left to each
\* after its first, and none from the one that opened it.
OpenLoadBounded ==
  state = "OPEN" =>
    /\ \A c \in Calls : openSent[c] <= MaxAttempts - 1
    /\ \E c \in Calls : openSent[c] = 0

\* A service that never answers wedges nothing: every call ends, no open
\* breaker stays open and no half-open one stays half-open.
RecoversUnanswered ==
  /\ Recovers
  /\ \A c \in Calls : c \in running ~> c \notin running

=============================================================================
