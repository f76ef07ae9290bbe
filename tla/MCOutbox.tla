------------------------------ MODULE MCOutbox ------------------------------
(***************************************************************************)
(* TLC instances of what carries work across services: the outbox, and the *)
(* saga runner.  They share no state, so a behaviour runs one of them      *)
(* while the other keeps its initial state.                                *)
(***************************************************************************)
EXTENDS Outbox, Saga

VARIABLE part   \* the part this behaviour runs

parts == <<vars, sagaVars, part>>

\* Over Redis no database command fails and no process dies or stops, but for
\* what its handlers do.
PartInit ==
  /\ part \in {"outbox", "saga"}
  /\ Init
  /\ SagaInit
  /\ part # "outbox" => ~redis
  /\ faults = (IF redis THEN MaxFaults ELSE 0)
  /\ part # "saga" => steps = << CHOOSE n \in Names : TRUE >>

PartNext ==
  \/ part = "outbox" /\ Next /\ UNCHANGED <<sagaVars, part>>
  \/ part = "saga" /\ SagaNext /\ UNCHANGED <<vars, part>>

\* The fairness of Outbox!FairSpec, for the behaviours that run it.
PartSpec ==
  /\ PartInit /\ [][PartNext]_parts
  /\ \A p \in Processes :
       /\ WF_vars(part = "outbox" /\ Poll(p))
       /\ WF_vars(part = "outbox" /\ EmitSome(p))
       /\ WF_vars(part = "outbox" /\ Settle(p))
       /\ WF_vars(part = "outbox" /\ Die(p) /\ ~timer[p])
       /\ WF_vars(part = "outbox" /\ Start(p))

\* The variables of both parts keep their types.
CrossServiceTypesOK == TypeOK /\ SagaTypeOK

=============================================================================
