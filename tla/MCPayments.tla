----------------------------- MODULE MCPayments -----------------------------
(***************************************************************************)
(* TLC instance of the payments module: webhook deliveries (Webhooks) and  *)
(* requests with an Idempotency-Key (Idempotency).  They share no state,   *)
(* so a behaviour runs one while the other keeps its initial state.        *)
(***************************************************************************)
EXTENDS Webhooks, Idempotency

VARIABLE part   \* the part this behaviour runs

parts == <<vars, keyVars, part>>

PartInit ==
  /\ part \in {"webhooks", "keys"}
  /\ Init
  /\ KeyInit
  /\ part = "keys" => ~prompt /\ ~serial
  /\ part = "webhooks" => ~patient

PartNext ==
  \/ part = "webhooks" /\ Next /\ UNCHANGED <<keyVars, part>>
  \/ part = "keys" /\ KeyNext /\ UNCHANGED <<vars, part>>

\* The fairness of Webhooks!FairSpec, for the behaviours that run it.
PartSpec ==
  /\ PartInit /\ [][PartNext]_parts
  /\ \A e \in Events :
       /\ SF_vars(part = "webhooks" /\ e \notin acked /\ Deliver(e))
       /\ SF_vars(part = "webhooks" /\ \E d \in Running(e) : Succeed(d))

\* The variables of both parts keep their types.
PaymentTypesOK == TypeOK /\ KeyTypeOK

=============================================================================
