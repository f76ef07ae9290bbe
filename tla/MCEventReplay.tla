--------------------------- MODULE MCEventReplay ---------------------------
(***************************************************************************)
(* TLC instances of EventReplay.                                           *)
(***************************************************************************)
EXTENDS EventReplay

Symmetry == Permutations(Writers) \cup Permutations(Streams)

=============================================================================
