--------------------------- MODULE InsertionOrder ---------------------------
(***************************************************************************)
(* Sequences without repetitions, for what the language keeps in the order *)
(* of its insertion: the entries of a JavaScript Map, the elements of an   *)
(* array that is filtered.                                                 *)
(***************************************************************************)
EXTENDS Sequences, SequencesExt

\* The sequences of the given entries of s in the order of s: there is one when
\* s holds each of them once.
InOrder(s, entries) ==
  {t \in SetToSeqs(entries) :
     \A i, j \in DOMAIN t : i < j =>
       \E k, l \in DOMAIN s : k < l /\ s[k] = t[i] /\ s[l] = t[j]}

\* All but the entries beyond the limit, the first inserted ones.
Trimmed(s, limit) ==
  IF Len(s) > limit THEN SubSeq(s, Len(s) - limit + 1, Len(s)) ELSE s

=============================================================================
