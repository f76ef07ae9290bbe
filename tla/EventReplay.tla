---------------------------- MODULE EventReplay ----------------------------
(***************************************************************************)
(* EventReplayService (src/cqrs/event-replay.service.ts) feeding one       *)
(* projection from a MongoDB event store that is being appended to.        *)
(*                                                                         *)
(* The projection's owner keeps a checkpoint, the position of the last     *)
(* event read, and catches up with replayFrom(checkpoint).  A handler that *)
(* throws is logged and passed over.                                       *)
(***************************************************************************)
EXTENDS MongoEventStore, SequencesExt

VARIABLES
  checkpoint,  \* highest position a replay has read (kept by the application)
  read,        \* documents the replays have read
  handled      \* documents whose handler returned, in the order handled

replayVars == <<checkpoint, read, handled>>

ReplayTypeOK ==
  /\ TypeOK
  /\ checkpoint \in 0..seq
  /\ read \subseteq Document
  /\ handled \in Seq(Document)

ReplayInit == Init /\ checkpoint = 0 /\ read = {} /\ handled = << >>

\* Mutant: $gte in place of $gt.
AtOrAfter(position) == {d \in events : d.position >= position}

\* getAllEvents(fromPosition), before the sort.
After(position) == {d \in events : d.position > position}

\* .sort({ position: 1 }), as the one sequence it may return.
InPositionOrder(docs) ==
  {batch \in SetToSeqs(docs) :
     \A i, j \in DOMAIN batch : i < j => batch[i].position < batch[j].position}

\* Mutant: the owner resumes one past the last position read.
ReplayResumingPast(failing) ==
  /\ After(checkpoint) # {}
  /\ failing \subseteq After(checkpoint)
  /\ \E returned \in InPositionOrder(After(checkpoint) \ failing) :
       handled' = handled \o returned
  /\ \E batch \in InPositionOrder(After(checkpoint)) :
       checkpoint' = Last(batch).position + 1
  /\ read' = read \cup After(checkpoint)
  /\ UNCHANGED vars

\* replayFrom(checkpoint, [projection]); the handlers of failing throw, those
\* of the others return.
ReplayFrom(failing) ==
  /\ After(checkpoint) # {}
  /\ failing \subseteq After(checkpoint)
  /\ \E returned \in InPositionOrder(After(checkpoint) \ failing) :
       handled' = handled \o returned
  /\ \E batch \in InPositionOrder(After(checkpoint)) :
       checkpoint' = Last(batch).position
  /\ read' = read \cup After(checkpoint)
  /\ UNCHANGED vars

ReplayNext ==
  \/ Next /\ UNCHANGED replayVars
  \/ \E failing \in SUBSET events : ReplayFrom(failing)

ReplaySpec == ReplayInit /\ [][ReplayNext]_<<vars, replayVars>>

-----------------------------------------------------------------------------

\* A projection meets the events of a stream in version order and no event
\* twice, over all its catch-ups, however appends and replays interleave.
HandledInVersionOrder ==
  \A i, j \in DOMAIN handled :
    i < j /\ handled[i].stream = handled[j].stream =>
      handled[i].version < handled[j].version

-----------------------------------------------------------------------------
\* Statements of the documentation, comments or tests that the code does not
\* keep: TLC refutes each of them.

\* interfaces.ts:27: getAllEvents reads all events in global position order,
\* so replaying from the last position read misses no event.
CatchUpMissesNothing ==
  \A d \in events : d.position <= checkpoint => d \in read

=============================================================================
