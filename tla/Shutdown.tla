------------------------------ MODULE Shutdown ------------------------------
(***************************************************************************)
(* Graceful shutdown of one process: SignalHandler, ShutdownService,       *)
(* InFlightTracker (src/shutdown) and the readiness check of               *)
(* HealthController (src/health), while requests arrive and finish.        *)
(*                                                                         *)
(* The order of the teardown is NestJS's (external): on a signal, after    *)
(* enableShutdownHooks(), or in app.close(), it runs the onModuleDestroy() *)
(* of every provider, closes the HTTP server and waits for its requests,   *)
(* and then calls onApplicationShutdown().  A server closed twice reports  *)
(* an error.  The server may also be one NestJS does not close, as in the  *)
(* tests of the service.                                                   *)
(***************************************************************************)
EXTENDS Naturals, FiniteSets

CONSTANTS
  Requests,
  Timeout         \* of the force-exit timer, in ticks

ASSUME ShutdownAssumption == Timeout \in Nat \ {0}

VARIABLES
  isShuttingDown, \* of the SignalHandler: the force-exit timer is set
  timer,          \* ticks until it fires
  shuttingDownFlag,
  stage,          \* how far the teardown is
  listening,      \* the HTTP server accepts connections
  request,        \* new, running, done or dropped
  count,          \* InFlightTracker.count
  torn,           \* onModuleDestroy() of the providers has run
  process,        \* up, exited or killed
  hanging,        \* requests that never finish by themselves
  nestCloses      \* whether NestJS closes the HTTP server

setup == <<hanging, nestCloses>>

vars == <<isShuttingDown, timer, shuttingDownFlag, stage, listening, request,
          count, torn, process, setup>>

Stages == {"run", "dispose", "hook", "close", "done"}

InFlight == {r \in Requests : request[r] = "running"}

TypeOK ==
  /\ isShuttingDown \in BOOLEAN
  /\ timer \in 0..Timeout
  /\ shuttingDownFlag \in BOOLEAN
  /\ stage \in Stages
  /\ listening \in BOOLEAN
  /\ request \in [Requests -> {"new", "running", "done", "dropped"}]
  /\ count = Cardinality(InFlight)
  /\ torn \in BOOLEAN
  /\ process \in {"up", "exited", "killed"}
  /\ hanging \subseteq Requests
  /\ nestCloses \in BOOLEAN

Init ==
  /\ isShuttingDown = FALSE
  /\ timer = Timeout
  /\ shuttingDownFlag = FALSE
  /\ stage = "run"
  /\ listening = TRUE
  /\ request = [r \in Requests |-> "new"]
  /\ count = 0
  /\ torn = FALSE
  /\ process = "up"
  /\ hanging \in SUBSET Requests
  /\ nestCloses \in BOOLEAN

-----------------------------------------------------------------------------
\* Requests.

\* A request reaches the InFlightInterceptor.
Arrive(r) ==
  /\ process = "up" /\ listening /\ request[r] = "new"
  /\ request' = [request EXCEPT ![r] = "running"]
  /\ count' = count + 1
  /\ UNCHANGED <<isShuttingDown, timer, shuttingDownFlag, stage, listening,
                 torn, process, setup>>

\* Mutant: the counter is decremented for answers only, not for errors.
FinishAnswered(r) ==
  /\ process = "up" /\ request[r] = "running" /\ r \notin hanging
  /\ request' = [request EXCEPT ![r] = "done"]
  /\ count' \in {count, count - 1}
  /\ UNCHANGED <<isShuttingDown, timer, shuttingDownFlag, stage, listening,
                 torn, process, setup>>

\* Its response stream is finalized, after an answer or an error.
Finish(r) ==
  /\ process = "up" /\ request[r] = "running" /\ r \notin hanging
  /\ request' = [request EXCEPT ![r] = "done"]
  /\ count' = IF count > 0 THEN count - 1 ELSE count
  /\ UNCHANGED <<isShuttingDown, timer, shuttingDownFlag, stage, listening,
                 torn, process, setup>>

\* GET /readyz answers 200.
Ready == process = "up" /\ ~shuttingDownFlag

-----------------------------------------------------------------------------
\* Signals and the teardown.

\* NestJS runs onModuleDestroy() of every provider (external).
Destroy ==
  /\ stage = "run"
  /\ torn' = TRUE
  /\ stage' = "dispose"

\* Mutant: a repeated signal sets the timer again.
RestartingSignal ==
  /\ process = "up"
  /\ isShuttingDown' = TRUE
  /\ shuttingDownFlag' = TRUE
  /\ timer' = Timeout
  /\ IF stage = "run" THEN Destroy ELSE UNCHANGED <<torn, stage>>
  /\ UNCHANGED <<listening, request, count, process, setup>>

\* SIGTERM or SIGINT: the first sets the timer and the flag, a repeated one
\* is ignored.  NestJS starts its teardown at the same signal.
Signal ==
  /\ process = "up"
  /\ isShuttingDown' = TRUE
  /\ shuttingDownFlag' = IF isShuttingDown THEN shuttingDownFlag ELSE TRUE
  /\ IF stage = "run" THEN Destroy ELSE UNCHANGED <<torn, stage>>
  /\ UNCHANGED <<timer, listening, request, count, process, setup>>

\* app.close(), without a signal.
AppClose ==
  /\ process = "up"
  /\ Destroy
  /\ UNCHANGED <<isShuttingDown, timer, shuttingDownFlag, listening, request,
                 count, process, setup>>

\* NestJS stops the server accepting and waits for what is running, then
\* calls onApplicationShutdown().
StopListening ==
  /\ process = "up" /\ nestCloses /\ stage = "dispose" /\ listening
  /\ listening' = FALSE
  /\ UNCHANGED <<isShuttingDown, timer, shuttingDownFlag, stage, request,
                 count, torn, process, setup>>

OnApplicationShutdown ==
  /\ process = "up" /\ stage = "dispose"
  /\ nestCloses => ~listening /\ InFlight = {}
  /\ shuttingDownFlag' = TRUE
  /\ stage' = "hook"
  /\ UNCHANGED <<isShuttingDown, timer, listening, request, count, torn,
                 process, setup>>

\* await beforeShutdownHook() settles, ok or not, and server.close() is
\* called: nothing new is accepted from here on.
BeforeShutdownHook(ok) ==
  /\ process = "up" /\ stage = "hook"
  /\ stage' = "close"
  /\ listening' = FALSE
  /\ UNCHANGED <<isShuttingDown, timer, shuttingDownFlag, request, count, torn,
                 process, setup>>

\* Mutant: the open connections are closed without waiting for close().
CloseConnections ==
  /\ process = "up" /\ stage = "close"
  /\ request' = [r \in Requests |->
       IF request[r] = "running" THEN "dropped" ELSE request[r]]
  /\ count' = 0
  /\ stage' = "done"
  /\ UNCHANGED <<isShuttingDown, timer, shuttingDownFlag, listening, torn,
                 process, setup>>

\* The callback of server.close(): with an error at once if the server was
\* closed before, else when no request is running, whatever drainStrategy is.
\* closeAllConnections() then finds idle connections only.
ServerClosed ==
  /\ process = "up" /\ stage = "close"
  /\ nestCloses \/ InFlight = {}
  /\ stage' = "done"
  /\ UNCHANGED <<isShuttingDown, timer, shuttingDownFlag, listening, request,
                 count, torn, process, setup>>

\* The event loop is empty: the process ends.  A handle that is still open
\* (a pool, an interval) keeps it from ending.
Exit ==
  /\ process = "up" /\ stage = "done" /\ InFlight = {}
  /\ process' = "exited"
  /\ UNCHANGED <<isShuttingDown, timer, shuttingDownFlag, stage, listening,
                 request, count, torn, setup>>

\* Time passes for the force-exit timer.
Tick ==
  /\ process = "up" /\ isShuttingDown /\ timer > 0
  /\ timer' = timer - 1
  /\ UNCHANGED <<isShuttingDown, shuttingDownFlag, stage, listening, request,
                 count, torn, process, setup>>

\* The timer fires: process.exit(1).
ForceExit ==
  /\ process = "up" /\ isShuttingDown /\ timer = 0
  /\ process' = "killed"
  /\ listening' = FALSE
  /\ request' = [r \in Requests |->
       IF request[r] = "running" THEN "dropped" ELSE request[r]]
  /\ count' = 0
  /\ UNCHANGED <<isShuttingDown, timer, shuttingDownFlag, stage, torn, setup>>

HookSettles == \E ok \in BOOLEAN : BeforeShutdownHook(ok)

Teardown ==
  StopListening \/ OnApplicationShutdown \/ HookSettles \/ ServerClosed

Next ==
  \/ \E r \in Requests : Arrive(r) \/ Finish(r)
  \/ Signal \/ AppClose \/ Teardown \/ Exit \/ Tick \/ ForceExit

Spec == Init /\ [][Next]_vars

\* Time passes and a timer that is due fires; the teardown goes on; requests
\* finish, except the hanging ones.  Exit is not fair: a handle may be open.
FairSpec ==
  /\ Spec
  /\ WF_vars(Tick) /\ WF_vars(ForceExit) /\ WF_vars(Teardown)
  /\ \A r \in Requests : WF_vars(Finish(r))

-----------------------------------------------------------------------------

\* However often signals, app.close() and requests interleave, only the force
\* exit drops a request that was accepted, and after a signal nothing is torn
\* down and the server does not stop accepting while readyz answers 200.
GracefulDrain ==
  /\ (\E r \in Requests : request[r] = "dropped") => process = "killed"
  /\ isShuttingDown /\ (torn \/ ~listening) => ~Ready

\* A signal ends the process, whatever hangs and however many signals follow;
\* and when no request hangs the teardown completes, even if the hook fails.
ShutdownEnds ==
  /\ isShuttingDown ~> process # "up"
  /\ hanging = {} => (stage # "run" ~> stage = "done" \/ process = "killed")

-----------------------------------------------------------------------------
\* Statements of the documentation, comments or tests that the code does not
\* keep: TLC refutes each of them.

\* shutdown/interfaces.ts:17: the beforeShutdown hook is called before the
\* NestJS shutdown sequence begins.
HookBeforeTeardown == stage = "hook" => ~torn

\* health.controller.ts:16: readiness is refused while a graceful shutdown is
\* in progress.
NotReadyInShutdown == stage # "run" => ~Ready

=============================================================================
