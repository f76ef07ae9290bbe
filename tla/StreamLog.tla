----------------------------- MODULE StreamLog -----------------------------
(***************************************************************************)
(* What an event store promises its readers (EventStore in                 *)
(* src/cqrs/interfaces.ts): every stream is a sequence that only grows at  *)
(* its end, and the global positions of one stream's events rise with      *)
(* their versions.  An event is represented by its position; its version   *)
(* is its index in the stream.                                             *)
(***************************************************************************)
EXTENDS Naturals, Sequences

CONSTANT Streams

VARIABLE log  \* log[s] is the sequence of positions of the events of s

Rising(positions) ==
  \A i, j \in DOMAIN positions : i < j => positions[i] < positions[j]

Init == log = [s \in Streams |-> << >>]

\* One stream gains events at its end; nothing else changes.
Extend(s) ==
  /\ Len(log[s]) < Len(log'[s])
  /\ SubSeq(log'[s], 1, Len(log[s])) = log[s]
  /\ Rising(log'[s])
  /\ \A t \in Streams \ {s} : log'[t] = log[t]

Next == \E s \in Streams : Extend(s)

Spec == Init /\ [][Next]_log

=============================================================================
