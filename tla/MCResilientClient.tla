-------------------------- MODULE MCResilientClient --------------------------
(***************************************************************************)
(* TLC instances of ResilientClient, and through it of CircuitBreaker.     *)
(***************************************************************************)
EXTENDS ResilientClient

=============================================================================
