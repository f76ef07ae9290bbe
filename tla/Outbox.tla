------------------------------- MODULE Outbox -------------------------------
(***************************************************************************)
(* OutboxProcessor (src/cqrs/outbox-processor.ts) in several processes     *)
(* that share one outbox collection, publishing to the handlers that       *)
(* EventBusService.emitAsync (src/events/event-bus.service.ts) invokes,    *)
(* over the memory transport or over Redis.                                *)
(*                                                                         *)
(* Each process polls on a timer, takes the pending entries oldest first,  *)
(* and for each one awaits the handlers and then one updateOne.  Database  *)
(* commands fail and processes die between any two steps; both draw on the *)
(* budget MaxFaults.                                                       *)
(***************************************************************************)
EXTENDS Naturals, Sequences, FiniteSets, SequencesExt

CONSTANTS
  Processes,    \* application instances
  Entries,      \* outbox entries, numbered by createdAt
  Handlers,     \* handlers of the events
  SyncHandlers, \* those that do not return a promise
  MaxRetries,
  MaxFaults     \* bound: crashes and failing database commands, in all or left

ASSUME OutboxAssumption ==
  /\ IsFiniteSet(Processes)
  /\ Entries \subseteq Nat
  /\ SyncHandlers \subseteq Handlers
  /\ MaxRetries \in Nat \ {0}
  /\ MaxFaults \in Nat

VARIABLES
  stored,       \* entries whose transaction has committed
  published,    \* entries marked published: true
  retryCount,
  pc,           \* where each process stands in processOutbox()
  batch,        \* entries of the running batch still to be processed
  timer,        \* whether each process's poll timer is set
  faults,
  attempts,     \* times the entry was emitted, saturating at MaxRetries
  handledBy,    \* handlers that have completed on the entry
  redis,        \* whether the transport is Redis
  inbox         \* entries whose Redis message is on its way to each process

bus == <<redis, inbox>>

vars == <<stored, published, retryCount, pc, batch, timer, faults, attempts,
          handledBy, bus>>

\* "down": the process is dead; "idle": processing = false.
Places == {"down", "idle", "emit", "handle", "mark", "failed"}

TypeOK ==
  /\ stored \subseteq Entries
  /\ published \subseteq stored
  /\ retryCount \in [Entries -> 0..(MaxRetries + Cardinality(Processes))]
  /\ pc \in [Processes -> Places]
  /\ batch \in [Processes -> Seq(stored)]
  /\ timer \in [Processes -> BOOLEAN]
  /\ faults \in 0..MaxFaults
  /\ attempts \in [Entries -> 0..MaxRetries]
  /\ handledBy \in [Entries -> SUBSET Handlers]
  /\ redis \in BOOLEAN
  /\ inbox \in [Processes -> SUBSET stored]
  /\ \A p \in Processes : inbox[p] # {} => redis /\ pc[p] # "down"
  /\ \A p \in Processes : batch[p] = << >> <=> pc[p] \in {"down", "idle"}

Init ==
  /\ stored = {}
  /\ published = {}
  /\ retryCount = [e \in Entries |-> 0]
  /\ pc = [p \in Processes |-> "idle"]
  /\ batch = [p \in Processes |-> << >>]
  /\ timer = [p \in Processes |-> TRUE]
  /\ faults \in {0, MaxFaults}
  /\ attempts = [e \in Entries |-> 0]
  /\ handledBy = [e \in Entries |-> {}]
  /\ redis \in BOOLEAN
  /\ inbox = [p \in Processes |-> {}]

-----------------------------------------------------------------------------

\* persistToOutbox() in a transaction that commits.  createdAt is taken
\* before the commit, so entries need not appear in its order.
Persist(e) ==
  /\ e \notin stored
  /\ stored' = stored \cup {e}
  /\ UNCHANGED <<published, retryCount, pc, batch, timer, faults, attempts,
                 handledBy, bus>>

\* The entries the find() of processOutbox() returns (its limit of 100 is
\* beyond the bound on Entries).
Pending == {e \in stored \ published : retryCount[e] < MaxRetries}

\* The timer fires with no batch running and there is something to do.
Poll(p) ==
  /\ timer[p] /\ pc[p] = "idle"
  /\ Pending # {}
  /\ \E found \in SetToSeqs(Pending) :
       /\ \A i, j \in DOMAIN found : i < j => found[i] < found[j]
       /\ batch' = [batch EXCEPT ![p] = found]
  /\ pc' = [pc EXCEPT ![p] = "emit"]
  /\ UNCHANGED <<stored, published, retryCount, timer, faults, attempts,
                 handledBy, bus>>

\* emitAsync() over Redis publishes the event first: every live process is
\* subscribed, the publisher too.
Publish(p) ==
  /\ redis /\ pc[p] = "emit"
  /\ inbox' = [q \in Processes |->
       IF pc[q] = "down" THEN {} ELSE inbox[q] \cup {Head(batch[p])}]
  /\ pc' = [pc EXCEPT ![p] = "handle"]
  /\ UNCHANGED <<stored, published, retryCount, batch, timer, faults, attempts,
                 handledBy, redis>>

\* publish() rejects: no handler is invoked.
PublishFails(p) ==
  /\ redis /\ pc[p] = "emit"
  /\ attempts' = [attempts EXCEPT
       ![Head(batch[p])] = IF @ < MaxRetries THEN @ + 1 ELSE @]
  /\ pc' = [pc EXCEPT ![p] = "failed"]
  /\ UNCHANGED <<stored, published, retryCount, batch, timer, faults, handledBy,
                 bus>>

\* Mutant: the handlers are fired and not awaited.
EmitWithoutWaiting(p, failing) ==
  /\ pc[p] = IF redis THEN "handle" ELSE "emit"
  /\ LET e == Head(batch[p])
     IN  /\ handledBy' = [handledBy EXCEPT ![e] = @ \cup (Handlers \ failing)]
         /\ attempts' = [attempts EXCEPT
                           ![e] = IF @ < MaxRetries THEN @ + 1 ELSE @]
  /\ pc' = [pc EXCEPT ![p] = "mark"]
  /\ UNCHANGED <<stored, published, retryCount, batch, timer, faults, bus>>

\* emitAsync() awaits the handlers of its process: every one is invoked, those
\* in failing throw or reject.  invokeHandlers() logs what a synchronous handler throws and
\* carries on; only a rejected promise reaches the caller.
Emit(p, failing) ==
  /\ pc[p] = IF redis THEN "handle" ELSE "emit"
  /\ LET e == Head(batch[p])
     IN  /\ handledBy' = [handledBy EXCEPT ![e] = @ \cup (Handlers \ failing)]
         /\ attempts' = [attempts EXCEPT
                           ![e] = IF @ < MaxRetries THEN @ + 1 ELSE @]
  /\ pc' = [pc EXCEPT ![p] =
              IF failing \subseteq SyncHandlers THEN "mark" ELSE "failed"]
  /\ UNCHANGED <<stored, published, retryCount, batch, timer, faults, bus>>

\* Go on to the next entry of the batch, or finish with processing = false.
NextEntry(p) ==
  /\ batch' = [batch EXCEPT ![p] = Tail(@)]
  /\ pc' = [pc EXCEPT ![p] = IF Len(batch[p]) = 1 THEN "idle" ELSE "emit"]

\* updateOne(published: true).
MarkPublished(p) ==
  /\ pc[p] = "mark"
  /\ published' = published \cup {Head(batch[p])}
  /\ NextEntry(p)
  /\ UNCHANGED <<stored, retryCount, timer, faults, attempts, handledBy, bus>>

\* The updateOne reports a failure, applied or not: the catch block counts it
\* like a failed delivery.
MarkFails(p) ==
  /\ pc[p] = "mark"
  /\ faults < MaxFaults /\ faults' = faults + 1
  /\ published' \in {published, published \cup {Head(batch[p])}}
  /\ pc' = [pc EXCEPT ![p] = "failed"]
  /\ UNCHANGED <<stored, retryCount, batch, timer, attempts, handledBy, bus>>

\* Mutant: one failure is charged to every entry of the batch.
ChargeBatch(p) ==
  /\ pc[p] = "failed"
  /\ retryCount' = [e \in Entries |->
       IF e \in ToSet(batch[p]) /\ retryCount[e] < MaxRetries
       THEN retryCount[e] + 1 ELSE retryCount[e]]
  /\ NextEntry(p)
  /\ UNCHANGED <<stored, published, timer, faults, attempts, handledBy, bus>>

\* Mutant: the failing entry is retried in place, with no count.
RetryInPlace(p) ==
  /\ pc[p] = "failed"
  /\ pc' = [pc EXCEPT ![p] = "emit"]
  /\ UNCHANGED <<stored, published, retryCount, batch, timer, faults, attempts,
                 handledBy, bus>>

\* The catch block: updateOne($inc: { retryCount: 1 }).
CountRetry(p) ==
  /\ pc[p] = "failed"
  /\ retryCount' = [retryCount EXCEPT ![Head(batch[p])] = @ + 1]
  /\ NextEntry(p)
  /\ UNCHANGED <<stored, published, timer, faults, attempts, handledBy, bus>>

\* The updateOne of the catch block fails too: the exception ends the batch,
\* finally resets processing.
CountFails(p) ==
  /\ pc[p] = "failed"
  /\ faults < MaxFaults /\ faults' = faults + 1
  /\ pc' = [pc EXCEPT ![p] = "idle"]
  /\ batch' = [batch EXCEPT ![p] = << >>]
  /\ UNCHANGED <<stored, published, retryCount, timer, attempts, handledBy, bus>>

\* onModuleDestroy(): no more polls; a running batch is not waited for and
\* goes on until the process ends.
Stop(p) ==
  /\ timer[p] /\ pc[p] # "down"
  /\ faults < MaxFaults /\ faults' = faults + 1
  /\ timer' = [timer EXCEPT ![p] = FALSE]
  /\ UNCHANGED <<stored, published, retryCount, pc, batch, attempts, handledBy, bus>>

\* The process dies, at the end of its shutdown or anywhere before.
Die(p) ==
  /\ pc[p] # "down"
  /\ ~timer[p] \/ faults < MaxFaults
  /\ faults' = IF timer[p] THEN faults + 1 ELSE faults
  /\ pc' = [pc EXCEPT ![p] = "down"]
  /\ batch' = [batch EXCEPT ![p] = << >>]
  /\ timer' = [timer EXCEPT ![p] = FALSE]
  /\ inbox' = [inbox EXCEPT ![p] = {}]
  /\ UNCHANGED <<stored, published, retryCount, attempts, handledBy, redis>>

\* The subscriber of a process invokes its handlers and does not await them.
Receive(p, e, failing) ==
  /\ e \in inbox[p]
  /\ failing \subseteq SyncHandlers
  /\ handledBy' = [handledBy EXCEPT ![e] = @ \cup (Handlers \ failing)]
  /\ inbox' = [inbox EXCEPT ![p] = @ \ {e}]
  /\ UNCHANGED <<stored, published, retryCount, pc, batch, timer, faults,
                 attempts, redis>>

\* A handler's promise rejects there: nothing handles the rejection, and
\* Node.js ends the process.
ReceiveCrashes(p, e, failing) ==
  /\ e \in inbox[p]
  /\ ~(failing \subseteq SyncHandlers)
  /\ handledBy' = [handledBy EXCEPT ![e] = @ \cup (Handlers \ failing)]
  /\ pc' = [pc EXCEPT ![p] = "down"]
  /\ batch' = [batch EXCEPT ![p] = << >>]
  /\ timer' = [timer EXCEPT ![p] = FALSE]
  /\ inbox' = [inbox EXCEPT ![p] = {}]
  /\ UNCHANGED <<stored, published, retryCount, faults, attempts, redis>>

\* It is started again: onModuleInit().
Start(p) ==
  /\ pc[p] = "down"
  /\ pc' = [pc EXCEPT ![p] = "idle"]
  /\ timer' = [timer EXCEPT ![p] = TRUE]
  /\ UNCHANGED <<stored, published, retryCount, batch, faults, attempts,
                 handledBy, bus>>

EmitSome(p) ==
  \/ Publish(p) \/ PublishFails(p)
  \/ \E failing \in SUBSET Handlers : Emit(p, failing)

ReceiveSome(p) ==
  \E e \in Entries, failing \in SUBSET Handlers :
    Receive(p, e, failing) \/ ReceiveCrashes(p, e, failing)

Settle(p) == MarkPublished(p) \/ CountRetry(p)

Fault(p) == MarkFails(p) \/ CountFails(p) \/ Stop(p)

Next ==
  \/ \E e \in Entries : Persist(e)
  \/ \E p \in Processes :
       Poll(p) \/ EmitSome(p) \/ Settle(p) \/ Fault(p) \/ Die(p) \/ Start(p)
       \/ ReceiveSome(p)

Spec == Init /\ [][Next]_vars

\* The timer of a live process fires again and again, awaited work settles,
\* a process that is shutting down ends, and a dead one is restarted.
FairSpec ==
  /\ Spec
  /\ \A p \in Processes :
       /\ WF_vars(Poll(p)) /\ WF_vars(EmitSome(p)) /\ WF_vars(Settle(p))
       /\ WF_vars(Die(p) /\ ~timer[p]) /\ WF_vars(Start(p))

-----------------------------------------------------------------------------

\* An entry stops being pending rightly: it is marked published only after
\* every handler that reports its failures has completed on it, whichever
\* process marked it and after whatever crashes, and given up only after it was
\* itself emitted maxRetries times, so that the failures of its neighbours in a
\* batch, crashes and other processes do not use up its retries.
SettledRightly ==
  /\ \A e \in published : Handlers \ SyncHandlers \subseteq handledBy[e]
  /\ \A e \in stored \ published :
       retryCount[e] >= MaxRetries => attempts[e] = MaxRetries

\* A committed entry is eventually published, or its retries are used up, as
\* long as crashes and database failures end and the transport is in memory.
Resolved ==
  ~redis => \A e \in Entries :
    e \in stored ~> e \in published \/ retryCount[e] >= MaxRetries

-----------------------------------------------------------------------------
\* Statements of comments that the code does not keep: TLC refutes each of
\* them.

\* outbox-processor.ts:53 promises at-least-once delivery: what is marked
\* published has been handled by every handler.
AtLeastOnce ==
  \A e \in published : Handlers \subseteq handledBy[e]

\* docs/api/cqrs.md:36: an entry is published at most maxRetries times before it
\* is dead-lettered.  Over Redis a handler that keeps rejecting ends its
\* process before the retry is counted, each time it is restarted.
ResolvedOverRedis ==
  \A e \in Entries :
    e \in stored ~> e \in published \/ retryCount[e] >= MaxRetries

=============================================================================
