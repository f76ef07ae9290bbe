---------------------------- MODULE MCOperations ----------------------------
(***************************************************************************)
(* TLC instance of what runs a service: its graceful shutdown (Shutdown),  *)
(* its alerts (Alerts), the migrations of its database (Migrations) and    *)
(* the check of its modules' imports (CycleDetector).  They share no       *)
(* state, so a behaviour runs one of them while the others keep their      *)
(* initial state.                                                          *)
(***************************************************************************)
EXTENDS Shutdown, Alerts, Migrations, CycleDetector, TLC

VARIABLE part   \* the part this behaviour runs

parts == <<vars, alertVars, migrationVars, detectorVars, part>>

CONSTANTS latency, errors

\* One rule with a debounce, as long as the cooldown, and one without.
DebounceDef == latency :> 2 @@ errors :> 0

PartInit ==
  /\ part \in {"shutdown", "alerts", "migrations", "imports"}
  /\ Init
  /\ AlertInit
  /\ MigrationInit
  /\ DetectorInit
  /\ part # "shutdown" => hanging = {} /\ nestCloses
  /\ part # "alerts" => ~slow
  /\ part # "migrations" => ~overlap
  /\ part # "imports" => adj = [v \in Nodes |-> {}]

PartNext ==
  \/ part = "shutdown" /\ Next /\ UNCHANGED <<alertVars, migrationVars, detectorVars, part>>
  \/ part = "alerts" /\ AlertNext /\ UNCHANGED <<vars, migrationVars, detectorVars, part>>
  \/ part = "migrations" /\ MigrationNext /\ UNCHANGED <<vars, alertVars, detectorVars, part>>
  \/ part = "imports" /\ DetectorNext /\ UNCHANGED <<vars, alertVars, migrationVars, part>>

\* The fairness of Shutdown!FairSpec, for the behaviours that run it.
PartSpec ==
  /\ PartInit /\ [][PartNext]_parts
  /\ WF_vars(part = "shutdown" /\ Tick)
  /\ WF_vars(part = "shutdown" /\ ForceExit)
  /\ WF_vars(part = "shutdown" /\ Teardown)
  /\ \A r \in Requests : WF_vars(part = "shutdown" /\ Finish(r))

\* The variables of the four parts keep their types.
OperationsTypesOK == TypeOK /\ AlertTypeOK /\ MigrationTypeOK /\ DetectorTypeOK

=============================================================================
