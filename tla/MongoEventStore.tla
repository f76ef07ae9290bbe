-------------------------- MODULE MongoEventStore --------------------------
(***************************************************************************)
(* MongoDBEventStore (src/cqrs/adapters/mongodb-event-store.ts).           *)
(*                                                                         *)
(* append() is a sequence of awaited MongoDB commands, and other appends   *)
(* run between any two of them: an optional read that compares the         *)
(* stream's version with expectedVersion, a second read that fixes the new *)
(* versions, one atomic increment of the position counter per event, and   *)
(* an ordered insertMany, which is not a transaction: the documents are    *)
(* inserted one at a time under the unique index on (streamId, version).   *)
(***************************************************************************)
EXTENDS Integers, Sequences, FiniteSets

CONSTANTS
  Writers,    \* concurrent append() calls, in one process or in several
  Streams,    \* stream (aggregate) identifiers
  MaxBatch,   \* bound: events in one append
  MaxSeq      \* bound: positions handed out by the counter

ASSUME BoundsAssumption ==
  Streams # {} /\ MaxBatch \in Nat \ {0} /\ MaxSeq \in Nat

AnyVersion == -1     \* expectedVersion was not given

VARIABLES
  events,     \* the event_store collection
  seq,        \* the global_position document of event_store_counters
  pc,         \* where each append stands
  call,       \* its arguments
  base,       \* the stream version its second read returned
  positions,  \* the positions it has been handed, one per event
  inserted    \* how many of its documents are in the collection

vars == <<events, seq, pc, call, base, positions, inserted>>

Document == [stream : Streams, version : Nat, position : Nat]

Call == [stream : Streams, count : 1..MaxBatch, expected : Nat \cup {AnyVersion}]

Running == {"check", "read", "allocate", "insert"}

Returned == {"idle", "ok", "conflict"}

TypeOK ==
  /\ events \in SUBSET Document
  /\ seq \in Nat
  /\ pc \in [Writers -> Running \cup Returned]
  /\ call \in [Writers -> Call]
  /\ base \in [Writers -> Nat]
  /\ positions \in [Writers -> Seq(Nat)]
  /\ inserted \in [Writers -> Nat]

Versions(s) == {d.version : d \in {e \in events : e.stream = s}}

\* find({ streamId }).sort({ version: -1 }).limit(1)
Latest(s) ==
  IF Versions(s) = {} THEN 0
  ELSE CHOOSE m \in Versions(s) : \A v \in Versions(s) : v <= m

\* The i-th document an append builds.
Doc(w, i) ==
  [stream |-> call[w].stream, version |-> base[w] + i,
   position |-> positions[w][i]]

\* Mutant: the index on (streamId, version) is not unique.
NeverDuplicate(d) == FALSE

DuplicateKey(d) ==
  \E e \in events : e.stream = d.stream /\ e.version = d.version

NoCall ==
  [stream |-> CHOOSE s \in Streams : TRUE, count |-> 1, expected |-> AnyVersion]

Init ==
  /\ events = {}
  /\ seq = 0
  /\ pc = [w \in Writers |-> "idle"]
  /\ call = [w \in Writers |-> NoCall]
  /\ base = [w \in Writers |-> 0]
  /\ positions = [w \in Writers |-> << >>]
  /\ inserted = [w \in Writers |-> 0]

-----------------------------------------------------------------------------

\* append(streamId, events, expectedVersion) is called.
Begin(w, s, n, e) ==
  /\ pc[w] \in Returned
  /\ seq + n <= MaxSeq
  /\ call' = [call EXCEPT ![w] = [stream |-> s, count |-> n, expected |-> e]]
  /\ pc' = [pc EXCEPT ![w] = IF e = AnyVersion THEN "read" ELSE "check"]
  /\ base' = [base EXCEPT ![w] = 0]
  /\ positions' = [positions EXCEPT ![w] = << >>]
  /\ inserted' = [inserted EXCEPT ![w] = 0]
  /\ UNCHANGED <<events, seq>>

\* The first read: compare the stream's version with expectedVersion.
CheckVersion(w) ==
  /\ pc[w] = "check"
  /\ pc' = [pc EXCEPT ![w] =
              IF Latest(call[w].stream) = call[w].expected
              THEN "read" ELSE "conflict"]
  /\ UNCHANGED <<events, seq, call, base, positions, inserted>>

\* The second read, whose result numbers the new events.
ReadVersion(w) ==
  /\ pc[w] = "read"
  /\ base' = [base EXCEPT ![w] = Latest(call[w].stream)]
  /\ pc' = [pc EXCEPT ![w] = "allocate"]
  /\ UNCHANGED <<events, seq, call, positions, inserted>>

\* findOneAndUpdate({ $inc: { seq: 1 } }) for the next event of the batch.
AllocatePosition(w) ==
  /\ pc[w] = "allocate"
  /\ seq < MaxSeq
  /\ seq' = seq + 1
  /\ positions' = [positions EXCEPT ![w] = Append(@, seq')]
  /\ pc' = [pc EXCEPT ![w] =
              IF Len(positions[w]) + 1 = call[w].count
              THEN "insert" ELSE "allocate"]
  /\ UNCHANGED <<events, call, base, inserted>>

\* Mutant: the batch is stored last event first.
InsertReversed(w) ==
  /\ pc[w] = "insert"
  /\ LET d == Doc(w, call[w].count - inserted[w])
     IN  /\ ~DuplicateKey(d)
         /\ events' = events \cup {d}
  /\ inserted' = [inserted EXCEPT ![w] = @ + 1]
  /\ pc' = [pc EXCEPT ![w] =
              IF inserted[w] + 1 = call[w].count THEN "ok" ELSE "insert"]
  /\ UNCHANGED <<seq, call, base, positions>>

\* insertMany stores the next document of the batch.
InsertDocument(w) ==
  /\ pc[w] = "insert"
  /\ LET d == Doc(w, inserted[w] + 1)
     IN  /\ ~DuplicateKey(d)
         /\ events' = events \cup {d}
  /\ inserted' = [inserted EXCEPT ![w] = @ + 1]
  /\ pc' = [pc EXCEPT ![w] =
              IF inserted[w] + 1 = call[w].count THEN "ok" ELSE "insert"]
  /\ UNCHANGED <<seq, call, base, positions>>

\* Mutant: ordered: false, so the documents after a duplicate are stored too.
SkipDuplicate(w) ==
  /\ pc[w] = "insert"
  /\ DuplicateKey(Doc(w, inserted[w] + 1))
  /\ inserted' = [inserted EXCEPT ![w] = @ + 1]
  /\ pc' = [pc EXCEPT ![w] =
              IF inserted[w] + 1 = call[w].count THEN "conflict" ELSE "insert"]
  /\ UNCHANGED <<events, seq, call, base, positions>>

\* Mutant: error 11000 is swallowed.
IgnoreDuplicate(w) ==
  /\ pc[w] = "insert"
  /\ DuplicateKey(Doc(w, inserted[w] + 1))
  /\ pc' = [pc EXCEPT ![w] = "ok"]
  /\ UNCHANGED <<events, seq, call, base, positions, inserted>>

\* insertMany meets a duplicate key and stops; ConcurrencyError is thrown.
RejectDuplicate(w) ==
  /\ pc[w] = "insert"
  /\ DuplicateKey(Doc(w, inserted[w] + 1))
  /\ pc' = [pc EXCEPT ![w] = "conflict"]
  /\ UNCHANGED <<events, seq, call, base, positions, inserted>>

\* A command fails for another reason, or the process dies: what was written
\* stays, the rest of the append never happens.
Abort(w) ==
  /\ pc[w] \in Running
  /\ pc' = [pc EXCEPT ![w] = "idle"]
  /\ UNCHANGED <<events, seq, call, base, positions, inserted>>

Step(w) ==
  \/ CheckVersion(w)
  \/ ReadVersion(w)
  \/ AllocatePosition(w)
  \/ InsertDocument(w)
  \/ RejectDuplicate(w)

Next ==
  \E w \in Writers :
    \/ \E s \in Streams, n \in 1..MaxBatch, e \in 0..MaxSeq \cup {AnyVersion} :
         Begin(w, s, n, e)
    \/ Step(w)
    \/ Abort(w)

Spec == Init /\ [][Next]_vars

-----------------------------------------------------------------------------

\* No two stored events of a stream share a version, whatever the
\* interleaving of the appends that read the same stream version.
UniqueVersions ==
  \A d, e \in events :
    d.stream = e.stream /\ d.version = e.version => d = e

\* The versions of a stream are 1, 2, ... with no gap: an append that lost a
\* race, or that died half way, leaves no hole for a replay to fall into.
ContiguousVersions ==
  \A s \in Streams : Versions(s) = 1..Latest(s)

\* Replaying a stream in version order and replaying everything in global
\* position order visit the events of the stream in the same order, though
\* positions are handed out before, and apart from, the inserts.
PositionOrder ==
  \A d, e \in events :
    d.stream = e.stream /\ d.version < e.version => d.position < e.position

\* A stream with n events has exactly the versions 1..n, one event each:
\* concurrent appends that computed the same numbers never both keep them, and
\* what a failed batch leaves behind is a prefix of it.
DenseVersions == UniqueVersions /\ ContiguousVersions

\* An append that returned without an error has all its events in the
\* store, consecutively and under its own positions; a later append or a
\* concurrent one never takes their place.
AcknowledgedStays ==
  \A w \in Writers :
    pc[w] = "ok" => \A i \in 1..call[w].count : Doc(w, i) \in events

-----------------------------------------------------------------------------
\* Statements of the documentation, comments or tests that the code does not
\* keep: TLC refutes each of them.

\* interfaces.ts:15: an append given an expectedVersion fails when the
\* stream is at another version, so an accepted one starts right above it.
AppendHonoursExpectedVersion ==
  \A w \in Writers :
    pc[w] = "ok" /\ call[w].expected # AnyVersion => base[w] = call[w].expected

\* memory-event-store.ts:9 calls the two stores swappable, and the memory
\* store's failed append stores nothing: neither may this one's.
FailedAppendStoresNothing ==
  \A w \in Writers : pc[w] = "conflict" => inserted[w] = 0

-----------------------------------------------------------------------------

\* The stream a reader of getEvents sees, as StreamLog represents it.
PositionAt(s, v) ==
  (CHOOSE d \in events : d.stream = s /\ d.version = v).position

View == [s \in Streams |-> [v \in 1..Latest(s) |-> PositionAt(s, v)]]

Streamed == INSTANCE StreamLog WITH log <- View

\* Whatever the appends do to each other, a stream only grows at its end.
ImplementsStreamLog == Streamed!Spec

=============================================================================
