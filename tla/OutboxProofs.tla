---------------------------- MODULE OutboxProofs ----------------------------
(***************************************************************************)
(* Nothing leaves the pending entries of the outbox wrongly, for any       *)
(* number of processes, entries, handlers, retries and faults; a saga that *)
(* fails is compensated, for definitions of any length; and the types of   *)
(* both.                                                                   *)
(***************************************************************************)
EXTENDS MCOutbox, SequenceTheorems, FiniteSetTheorems, WellFoundedInduction, TLAPS

Busy == Places \ {"down", "idle"}

\* The shapes of the variables, but for the bound of retryCount; a batch names
\* no entry twice.
OutboxShape ==
  /\ stored \subseteq Entries /\ IsFiniteSet(stored)
  /\ published \subseteq stored
  /\ retryCount \in [Entries -> Nat]
  /\ pc \in [Processes -> Places]
  /\ batch \in [Processes -> Seq(stored)]
  /\ \A p \in Processes : IsInjective(batch[p])
  /\ \A p \in Processes : batch[p] = << >> <=> pc[p] \in {"down", "idle"}
  /\ timer \in [Processes -> BOOLEAN]
  /\ faults \in 0..MaxFaults
  /\ attempts \in [Entries -> 0..MaxRetries]
  /\ handledBy \in [Entries -> SUBSET Handlers]
  /\ redis \in BOOLEAN
  /\ inbox \in [Processes -> SUBSET stored]
  /\ \A p \in Processes : inbox[p] # {} => redis /\ pc[p] # "down"

\* The entry a process is at.
LEMMA HeadOfBatch ==
  ASSUME OutboxShape, NEW p \in Processes, pc[p] \in Busy
  PROVE  /\ batch[p] \in Seq(stored) /\ batch[p] # << >> /\ Len(batch[p]) \in Nat \ {0}
         /\ Head(batch[p]) \in stored /\ Head(batch[p]) \in Entries
         /\ Head(batch[p]) = batch[p][1]
<1>1. batch[p] \in Seq(stored) /\ batch[p] # << >>
  BY DEF OutboxShape, Busy
<1>2. QED
  BY <1>1, HeadTailProperties, EmptySeq, LenProperties DEF OutboxShape

\* The rest of a batch names no entry twice and not the entry just done.
LEMMA TailOfBatch ==
  ASSUME NEW S, NEW s \in Seq(S), s # << >>, IsInjective(s)
  PROVE  /\ Tail(s) \in Seq(S) /\ IsInjective(Tail(s))
         /\ Tail(s) = << >> <=> Len(s) = 1
         /\ ToSet(Tail(s)) = ToSet(s) \ {Head(s)}
<1>1. /\ Tail(s) \in Seq(S) /\ Len(Tail(s)) = Len(s) - 1 /\ Len(s) \in Nat \ {0}
      /\ \A i \in 1..Len(Tail(s)) : Tail(s)[i] = s[i + 1]
      /\ Head(s) = s[1]
  BY HeadTailProperties, EmptySeq, LenProperties
<1>2. DOMAIN s = 1..Len(s) /\ DOMAIN Tail(s) = 1..(Len(s) - 1)
  BY <1>1, LenProperties
<1>3. IsInjective(Tail(s))
  BY <1>1, <1>2 DEF IsInjective
<1>4. Tail(s) = << >> <=> Len(s) = 1
  BY <1>1, EmptySeq
<1>5. ToSet(Tail(s)) = ToSet(s) \ {Head(s)}
  <2>1. ASSUME NEW i \in DOMAIN Tail(s) PROVE Tail(s)[i] \in ToSet(s) \ {Head(s)}
    <3>1. i + 1 \in DOMAIN s /\ i + 1 # 1 /\ 1 \in DOMAIN s /\ Tail(s)[i] = s[i + 1]
      BY <1>1, <1>2
    <3>2. QED
      BY <3>1, <1>1 DEF ToSet, IsInjective
  <2>2. ASSUME NEW i \in DOMAIN s, s[i] # Head(s) PROVE s[i] \in ToSet(Tail(s))
    <3>1. i - 1 \in DOMAIN Tail(s) /\ Tail(s)[i - 1] = s[i]
      BY <1>1, <1>2, <2>2
    <3>2. QED
      BY <3>1 DEF ToSet
  <2>3. QED
    BY <2>1, <2>2 DEF ToSet
<1>6. QED
  BY <1>1, <1>3, <1>4, <1>5

\* What the find() returns names each pending entry once.
LEMMA FoundIsPending ==
  ASSUME OutboxShape, NEW found \in SetToSeqs(Pending)
  PROVE  /\ found \in Seq(Pending) /\ found \in Seq(stored) /\ IsInjective(found)
         /\ ToSet(found) \subseteq Pending
         /\ Pending # {} => found # << >>
<1>1. Pending \subseteq stored
  BY DEF Pending
<1>2. IsFiniteSet(Pending) /\ Cardinality(Pending) \in Nat
  BY <1>1, FS_Subset, FS_CardinalityType DEF OutboxShape
<1>3. /\ found \in [1..Cardinality(Pending) -> Pending]
      /\ \A i, j \in 1..Cardinality(Pending) : i # j => found[i] # found[j]
  BY DEF SetToSeqs
<1>4. found \in Seq(Pending) /\ found \in Seq(stored)
  <2>1. found \in [1..Cardinality(Pending) -> stored]
    BY <1>1, <1>3
  <2>2. QED
    BY <1>2, <1>3, <2>1, SeqDef
<1>5. IsInjective(found) /\ ToSet(found) \subseteq Pending
  BY <1>3 DEF IsInjective, ToSet
<1>6. ASSUME Pending # {} PROVE found # << >>
  <2>1. Cardinality(Pending) # 0
    BY <1>2, <1>6, FS_EmptySet
  <2>2. 1 \in DOMAIN found
    BY <1>2, <1>3, <2>1
  <2>3. QED
    BY <2>2
<1>7. QED
  BY <1>4, <1>5, <1>6

-----------------------------------------------------------------------------

LEMMA ShapeInit == Init => OutboxShape
<1> SUFFICES ASSUME Init PROVE OutboxShape
  OBVIOUS
<1>1. IsFiniteSet(stored) /\ stored \subseteq Entries /\ published \subseteq stored
  BY FS_EmptySet DEF Init
<1>2. \A p \in Processes : batch[p] \in Seq(stored) /\ IsInjective(batch[p]) /\ batch[p] = << >>
  BY EmptySeq DEF Init, IsInjective
<1>3. \A p \in Processes : inbox[p] = {}
  BY DEF Init
<1>4. faults \in 0..MaxFaults
  BY OutboxAssumption DEF Init
<1>5. attempts \in [Entries -> 0..MaxRetries]
  BY OutboxAssumption DEF Init
<1>6. QED
  BY <1>1, <1>2, <1>3, <1>4, <1>5 DEF Init, OutboxShape, Places

\* A batch stays one when entries are added to the collection.
LEMMA ShapePersist == ASSUME OutboxShape, NEW e \in Entries, Persist(e) PROVE OutboxShape'
<1>1. IsFiniteSet(stored')
  BY FS_AddElement DEF Persist, OutboxShape
<1>2. stored \subseteq stored' /\ stored' \subseteq Entries
  BY DEF Persist, OutboxShape
<1>3. batch \in [Processes -> Seq(stored')]
  <2> SUFFICES ASSUME NEW p \in Processes PROVE batch[p] \in Seq(stored')
    BY DEF OutboxShape
  <2>1. batch[p] \in [1..Len(batch[p]) -> stored] /\ Len(batch[p]) \in Nat
    BY LenProperties DEF OutboxShape
  <2>2. batch[p] \in [1..Len(batch[p]) -> stored']
    BY <1>2, <2>1
  <2>3. QED
    BY <2>1, <2>2, SeqDef
<1>4. inbox \in [Processes -> SUBSET stored']
  BY <1>2 DEF OutboxShape
<1>5. QED
  BY <1>1, <1>2, <1>3, <1>4 DEF OutboxShape, Persist, bus

LEMMA ShapePoll == ASSUME OutboxShape, NEW p \in Processes, Poll(p) PROVE OutboxShape'
<1>1. PICK found \in SetToSeqs(Pending) : batch' = [batch EXCEPT ![p] = found]
  BY DEF Poll
<1>2. found \in Seq(stored) /\ IsInjective(found) /\ found # << >>
  BY FoundIsPending DEF Poll
<1>3. QED
  BY <1>1, <1>2 DEF OutboxShape, Poll, Places, bus

LEMMA ShapeNextEntry ==
  ASSUME OutboxShape, NEW p \in Processes, pc[p] \in Busy, NextEntry(p)
  PROVE  /\ batch' \in [Processes -> Seq(stored)]
         /\ pc' \in [Processes -> Places]
         /\ \A q \in Processes : IsInjective(batch'[q])
         /\ \A q \in Processes : batch'[q] = << >> <=> pc'[q] \in {"down", "idle"}
         /\ \A q \in Processes : inbox[q] # {} => redis /\ pc'[q] # "down"
         /\ pc'[p] \in {"idle", "emit"}
         /\ batch'[p] = Tail(batch[p]) /\ \A q \in Processes \ {p} : batch'[q] = batch[q] /\ pc'[q] = pc[q]
<1>1. batch[p] \in Seq(stored) /\ batch[p] # << >> /\ IsInjective(batch[p])
  BY HeadOfBatch DEF OutboxShape
<1>2. /\ Tail(batch[p]) \in Seq(stored) /\ IsInjective(Tail(batch[p]))
      /\ Tail(batch[p]) = << >> <=> Len(batch[p]) = 1
  BY <1>1, TailOfBatch
<1>3. QED
  BY <1>2 DEF NextEntry, OutboxShape, Busy, Places

\* A process that dies, or gives up its batch.
LEMMA ShapeEnds ==
  ASSUME OutboxShape, NEW p \in Processes, NEW place \in {"idle", "down"},
         pc' = [pc EXCEPT ![p] = place], batch' = [batch EXCEPT ![p] = << >>]
  PROVE  /\ batch' \in [Processes -> Seq(stored)]
         /\ pc' \in [Processes -> Places]
         /\ \A q \in Processes : IsInjective(batch'[q])
         /\ \A q \in Processes : batch'[q] = << >> <=> pc'[q] \in {"down", "idle"}
<1>1. << >> \in Seq(stored) /\ IsInjective(<< >>)
  BY EmptySeq DEF IsInjective
<1>2. QED
  BY <1>1 DEF OutboxShape, Places

\* Emitting is counted, up to MaxRetries.
LEMMA AttemptCounted ==
  ASSUME OutboxShape, NEW e \in Entries,
         attempts' = [attempts EXCEPT ![e] = IF @ < MaxRetries THEN @ + 1 ELSE @]
  PROVE  /\ attempts' \in [Entries -> 0..MaxRetries]
         /\ attempts'[e] = MaxRetries \/ attempts'[e] = attempts[e] + 1
         /\ \A f \in Entries \ {e} : attempts'[f] = attempts[f]
<1>1. attempts[e] \in 0..MaxRetries /\ MaxRetries \in Nat
  BY OutboxAssumption DEF OutboxShape
<1>2. attempts'[e] = IF attempts[e] < MaxRetries THEN attempts[e] + 1 ELSE attempts[e]
  BY DEF OutboxShape
<1>3. attempts'[e] \in 0..MaxRetries
  BY <1>1, <1>2
<1>4. QED
  BY <1>1, <1>2, <1>3 DEF OutboxShape

LEMMA ShapeStep == OutboxShape /\ [Next]_vars => OutboxShape'
<1> SUFFICES ASSUME OutboxShape, [Next]_vars PROVE OutboxShape'
  OBVIOUS
<1>1. ASSUME NEW p \in Processes, Publish(p) PROVE OutboxShape'
  <2>1. Head(batch[p]) \in stored
    BY <1>1, HeadOfBatch DEF Publish, Busy, Places
  <2>2. QED
    BY <1>1, <2>1 DEF Publish, OutboxShape, Places
<1>2. ASSUME NEW p \in Processes, PublishFails(p) PROVE OutboxShape'
  <2>1. Head(batch[p]) \in Entries
    BY <1>2, HeadOfBatch DEF PublishFails, Busy, Places
  <2>2. attempts' \in [Entries -> 0..MaxRetries]
    BY <1>2, <2>1, AttemptCounted DEF PublishFails
  <2>3. QED
    BY <1>2, <2>2 DEF PublishFails, OutboxShape, Places, bus
<1>3. ASSUME NEW p \in Processes, NEW failing \in SUBSET Handlers, Emit(p, failing)
      PROVE  OutboxShape'
  <2>1. Head(batch[p]) \in Entries
    BY <1>3, HeadOfBatch DEF Emit, Busy, Places
  <2>2. attempts' \in [Entries -> 0..MaxRetries]
    BY <1>3, <2>1, AttemptCounted DEF Emit
  <2>3. handledBy' \in [Entries -> SUBSET Handlers]
    BY <1>3, <2>1 DEF Emit, OutboxShape
  <2>4. pc' \in [Processes -> Places] /\ pc'[p] \in {"mark", "failed"} /\ pc[p] \in {"emit", "handle"}
    BY <1>3 DEF Emit, OutboxShape, Places
  <2>5. QED
    BY <1>3, <2>2, <2>3, <2>4 DEF Emit, OutboxShape, bus
<1>4. ASSUME NEW p \in Processes, MarkPublished(p) PROVE OutboxShape'
  <2>1. pc[p] \in Busy
    BY <1>4 DEF MarkPublished, Busy, Places
  <2>2. Head(batch[p]) \in stored
    BY <2>1, HeadOfBatch
  <2>3. QED
    BY <1>4, <2>1, <2>2, ShapeNextEntry DEF MarkPublished, OutboxShape, bus
<1>5. ASSUME NEW p \in Processes, MarkFails(p) PROVE OutboxShape'
  <2>1. Head(batch[p]) \in stored
    BY <1>5, HeadOfBatch DEF MarkFails, Busy, Places
  <2>2. QED
    BY <1>5, <2>1, OutboxAssumption DEF MarkFails, OutboxShape, Places, bus
<1>6. ASSUME NEW p \in Processes, CountRetry(p) PROVE OutboxShape'
  <2>1. pc[p] \in Busy
    BY <1>6 DEF CountRetry, Busy, Places
  <2>2. retryCount' \in [Entries -> Nat]
    <3>1. PICK e \in Entries : e = Head(batch[p])
      BY <2>1, HeadOfBatch
    <3>2. retryCount' = [retryCount EXCEPT ![e] = @ + 1]
      BY <1>6, <3>1 DEF CountRetry
    <3>3. QED
      BY <3>2 DEF OutboxShape
  <2>3. NextEntry(p) /\ UNCHANGED <<stored, published, timer, faults, attempts, handledBy, bus>>
    BY <1>6 DEF CountRetry
  <2>4. QED
    BY <2>1, <2>2, <2>3, ShapeNextEntry DEF OutboxShape, bus
<1>7. ASSUME NEW p \in Processes, CountFails(p) PROVE OutboxShape'
  <2>1. faults' \in 0..MaxFaults
    BY <1>7, OutboxAssumption DEF CountFails, OutboxShape
  <2>2. pc[p] = "failed" /\ pc'[p] = "idle" /\ \A q \in Processes \ {p} : pc'[q] = pc[q]
    BY <1>7 DEF CountFails, OutboxShape
  <2>3. QED
    BY <1>7, <2>1, <2>2, ShapeEnds DEF CountFails, OutboxShape, bus
<1>8. ASSUME NEW p \in Processes, Stop(p) PROVE OutboxShape'
  BY <1>8, OutboxAssumption DEF Stop, OutboxShape, bus
<1>9. ASSUME NEW p \in Processes, Die(p) PROVE OutboxShape'
  <2>1. faults' \in 0..MaxFaults
    BY <1>9, OutboxAssumption DEF Die, OutboxShape
  <2>2. /\ pc'[p] = "down" /\ inbox'[p] = {} /\ inbox' \in [Processes -> SUBSET stored]
        /\ \A q \in Processes \ {p} : pc'[q] = pc[q] /\ inbox'[q] = inbox[q]
    BY <1>9 DEF Die, OutboxShape
  <2>3. QED
    BY <1>9, <2>1, <2>2, ShapeEnds DEF Die, OutboxShape
<1>10. ASSUME NEW p \in Processes, Start(p) PROVE OutboxShape'
  BY <1>10 DEF Start, OutboxShape, Places, bus
<1>11. ASSUME NEW p \in Processes, NEW e \in Entries, NEW failing \in SUBSET Handlers,
              Receive(p, e, failing)
       PROVE  OutboxShape'
  BY <1>11 DEF Receive, OutboxShape
<1>12. ASSUME NEW p \in Processes, NEW e \in Entries, NEW failing \in SUBSET Handlers,
              ReceiveCrashes(p, e, failing)
       PROVE  OutboxShape'
  BY <1>12, ShapeEnds DEF ReceiveCrashes, OutboxShape
<1>13. CASE UNCHANGED vars
  BY <1>13 DEF vars, bus, OutboxShape
<1>14. QED
  BY <1>1, <1>2, <1>3, <1>4, <1>5, <1>6, <1>7, <1>8, <1>9, <1>10, <1>11, <1>12, <1>13,
     ShapePersist, ShapePoll DEF Next, EmitSome, Settle, Fault, ReceiveSome
-----------------------------------------------------------------------------

\* The processes that have emitted e and not settled it, and those that hold e
\* in their batch.
Emitted(e) == {p \in Processes : pc[p] \in {"mark", "failed"} /\ Head(batch[p]) = e}

Holders(e) == {p \in Processes : e \in ToSet(batch[p])}

\* Whoever is about to mark an entry has seen its handlers complete.
HandledWhenMarked ==
  /\ \A e \in published : Handlers \ SyncHandlers \subseteq handledBy[e]
  /\ \A p \in Processes :
       pc[p] = "mark" => Handlers \ SyncHandlers \subseteq handledBy[Head(batch[p])]

\* A retry that has been counted, or may still be, was an attempt of its own.
RetriesWereAttempts ==
  \A e \in Entries :
    attempts[e] = MaxRetries \/ retryCount[e] + Cardinality(Emitted(e)) <= attempts[e]

\* A process that found the entry pending counts at most one more retry.
RetriesOvershoot ==
  \A e \in Entries :
    retryCount[e] + Cardinality(Holders(e)) <= MaxRetries + Cardinality(Processes)

OutboxInv ==
  OutboxShape /\ HandledWhenMarked /\ RetriesWereAttempts /\ RetriesOvershoot

LEMMA FiniteProcesses ==
  ASSUME NEW S \in SUBSET Processes
  PROVE  /\ IsFiniteSet(S) /\ Cardinality(S) \in Nat
         /\ Cardinality(S) <= Cardinality(Processes) /\ Cardinality(Processes) \in Nat
BY OutboxAssumption, FS_Subset, FS_CardinalityType

LEMMA HandledStep ==
  ASSUME OutboxShape, HandledWhenMarked, [Next]_vars
  PROVE  HandledWhenMarked'
<1> DEFINE Needed == Handlers \ SyncHandlers
<1>1. /\ \A e \in Entries : handledBy[e] \subseteq handledBy'[e]
      /\ \A e \in published' \ published :
           \E p \in Processes : pc[p] = "mark" /\ e = Head(batch[p])
      /\ \A p \in Processes : pc'[p] = "mark" =>
           /\ batch'[p] = batch[p]
           /\ \/ pc[p] = "mark"
              \/ pc[p] \in Busy /\ Needed \subseteq handledBy'[Head(batch[p])]
  <2> USE DEF OutboxShape
  <2>1. ASSUME NEW e \in Entries, Persist(e) PROVE <1>1!:
    BY <2>1 DEF Persist
  <2>2. ASSUME NEW p \in Processes, Poll(p) PROVE <1>1!:
    BY <2>2 DEF Poll
  <2>3. ASSUME NEW p \in Processes, Publish(p) \/ PublishFails(p) PROVE <1>1!:
    BY <2>3 DEF Publish, PublishFails
  <2>4. ASSUME NEW p \in Processes, NEW failing \in SUBSET Handlers, Emit(p, failing)
        PROVE  <1>1!:
    <3>1. pc[p] \in Busy /\ pc[p] \in {"emit", "handle"}
      BY <2>4 DEF Emit, Busy, Places
    <3>2. Head(batch[p]) \in Entries
      BY <3>1, HeadOfBatch
    <3>3. /\ \A e \in Entries : handledBy[e] \subseteq handledBy'[e]
          /\ handledBy'[Head(batch[p])] = handledBy[Head(batch[p])] \cup (Handlers \ failing)
      BY <2>4, <3>2 DEF Emit
    <3>4. \A q \in Processes \ {p} : pc'[q] = pc[q]
      BY <2>4 DEF Emit
    <3>5. pc'[p] = "mark" => failing \subseteq SyncHandlers
      BY <2>4 DEF Emit
    <3>6. batch' = batch /\ published' = published
      BY <2>4 DEF Emit
    <3>7. pc'[p] = "mark" => Needed \subseteq handledBy'[Head(batch[p])]
      BY <3>3, <3>5
    <3>8. QED
      BY <3>1, <3>3, <3>4, <3>6, <3>7
  <2>5. ASSUME NEW p \in Processes, MarkPublished(p) \/ CountRetry(p) PROVE <1>1!:
    BY <2>5 DEF MarkPublished, CountRetry, NextEntry
  <2>6. ASSUME NEW p \in Processes, MarkFails(p) \/ CountFails(p) \/ Stop(p) PROVE <1>1!:
    BY <2>6 DEF MarkFails, CountFails, Stop
  <2>7. ASSUME NEW p \in Processes, Die(p) \/ Start(p) PROVE <1>1!:
    BY <2>7 DEF Die, Start
  <2>8. ASSUME NEW p \in Processes, NEW e \in Entries, NEW failing \in SUBSET Handlers,
               Receive(p, e, failing) \/ ReceiveCrashes(p, e, failing)
        PROVE  <1>1!:
    <3>1. \A f \in Entries : handledBy[f] \subseteq handledBy'[f]
      <4>1. handledBy' = [handledBy EXCEPT ![e] = @ \cup (Handlers \ failing)]
        BY <2>8 DEF Receive, ReceiveCrashes
      <4>2. QED
        BY <4>1
    <3>2. published' = published
      BY <2>8 DEF Receive, ReceiveCrashes
    <3>3. \A q \in Processes : pc'[q] = "mark" => batch'[q] = batch[q] /\ pc[q] = "mark"
      BY <2>8 DEF Receive, ReceiveCrashes
    <3>4. QED
      BY <3>1, <3>2, <3>3
  <2>9. CASE UNCHANGED vars
    BY <2>9 DEF vars
  <2>10. QED
    BY <2>1, <2>2, <2>3, <2>4, <2>5, <2>6, <2>7, <2>8, <2>9
       DEF Next, EmitSome, Settle, Fault, ReceiveSome
<1>2. published' \subseteq Entries
  BY ShapeStep DEF OutboxShape
<1>3. \A p \in Processes : pc[p] = "mark" => Head(batch[p]) \in Entries
  BY HeadOfBatch DEF Busy, Places
<1>4. ASSUME NEW e \in published' PROVE Needed \subseteq handledBy'[e]
  <2>1. handledBy[e] \subseteq handledBy'[e]
    BY <1>1, <1>2
  <2>2. Needed \subseteq handledBy[e]
    BY <1>1 DEF HandledWhenMarked
  <2>3. QED
    BY <2>1, <2>2
<1>5. ASSUME NEW p \in Processes, pc'[p] = "mark"
      PROVE  Needed \subseteq handledBy'[Head(batch'[p])]
  <2>1. CASE pc[p] = "mark"
    <3>1. Needed \subseteq handledBy[Head(batch[p])]
      BY <2>1 DEF HandledWhenMarked
    <3>2. handledBy[Head(batch[p])] \subseteq handledBy'[Head(batch[p])]
      BY <1>1, <1>3, <2>1
    <3>3. QED
      BY <1>1, <1>5, <3>1, <3>2
  <2>2. CASE pc[p] # "mark"
    BY <1>1, <1>5, <2>2
  <2>3. QED
    BY <2>1, <2>2
<1>6. QED
  BY <1>4, <1>5 DEF HandledWhenMarked

\* A step that neither emits nor counts leaves the accounts in order.
LEMMA AccountsKept ==
  ASSUME OutboxShape, RetriesWereAttempts,
         attempts' = attempts, retryCount' = retryCount,
         \A q \in Processes :
           pc'[q] \in {"mark", "failed"} =>
             pc[q] \in {"mark", "failed"} /\ batch'[q] = batch[q]
  PROVE  RetriesWereAttempts'
<1> SUFFICES ASSUME NEW e \in Entries
             PROVE  attempts[e] = MaxRetries \/ retryCount[e] + Cardinality(Emitted(e)') <= attempts[e]
  BY DEF RetriesWereAttempts
<1>1. Emitted(e)' \subseteq Emitted(e) /\ Emitted(e) \in SUBSET Processes
  BY DEF Emitted
<1>2. Cardinality(Emitted(e)') <= Cardinality(Emitted(e))
  BY <1>1, FiniteProcesses, FS_Subset
<1>3. Cardinality(Emitted(e)') \in Nat /\ Cardinality(Emitted(e)) \in Nat
  BY <1>1, FiniteProcesses
<1>4. retryCount[e] \in Nat /\ attempts[e] \in Nat
  BY DEF OutboxShape
<1>5. QED
  BY <1>2, <1>3, <1>4 DEF RetriesWereAttempts

\* An entry that is emitted once more has one more to account for.
LEMMA EmissionCounted ==
  ASSUME OutboxShape, RetriesWereAttempts, NEW p \in Processes,
         pc[p] \in {"emit", "handle"}, NEW place \in {"mark", "failed"},
         pc' = [pc EXCEPT ![p] = place], batch' = batch, retryCount' = retryCount,
         attempts' = [attempts EXCEPT ![Head(batch[p])] = IF @ < MaxRetries THEN @ + 1 ELSE @]
  PROVE  RetriesWereAttempts'
<1>1. PICK h \in Entries : h = Head(batch[p])
  BY HeadOfBatch DEF Busy, Places
<1>2. Emitted(h)' = Emitted(h) \cup {p} /\ p \notin Emitted(h)
  BY <1>1 DEF Emitted, OutboxShape
<1>3. \A e \in Entries : Emitted(e) \in SUBSET Processes
  BY DEF Emitted
<1>4. Cardinality(Emitted(h)') = Cardinality(Emitted(h)) + 1
  BY <1>2, <1>3, FiniteProcesses, FS_AddElement
<1>5. \A e \in Entries \ {h} : Emitted(e)' = Emitted(e)
  BY <1>1 DEF Emitted, OutboxShape
<1>6. /\ attempts'[h] = MaxRetries \/ attempts'[h] = attempts[h] + 1
      /\ \A e \in Entries \ {h} : attempts'[e] = attempts[e]
  BY <1>1, AttemptCounted
<1>7. attempts[h] = MaxRetries => attempts'[h] = MaxRetries
  BY <1>1, OutboxAssumption DEF OutboxShape
<1>8. \A e \in Entries :
        /\ Cardinality(Emitted(e)) \in Nat /\ retryCount[e] \in Nat /\ attempts[e] \in Nat
        /\ attempts[e] = MaxRetries \/ retryCount[e] + Cardinality(Emitted(e)) <= attempts[e]
  BY <1>3, FiniteProcesses DEF OutboxShape, RetriesWereAttempts
<1>9. attempts'[h] = MaxRetries \/ retryCount'[h] + Cardinality(Emitted(h)') <= attempts'[h]
  BY <1>4, <1>6, <1>7, <1>8
<1>10. \A e \in Entries \ {h} :
         attempts'[e] = MaxRetries \/ retryCount'[e] + Cardinality(Emitted(e)') <= attempts'[e]
  BY <1>5, <1>6, <1>8
<1>11. QED
  BY <1>9, <1>10 DEF RetriesWereAttempts

\* The retry that is counted was one of those to account for.
LEMMA RetryCounted ==
  ASSUME OutboxShape, RetriesWereAttempts, RetriesOvershoot,
         NEW p \in Processes, CountRetry(p)
  PROVE  RetriesWereAttempts' /\ RetriesOvershoot'
<1>1. pc[p] = "failed" /\ pc[p] \in Busy
  BY DEF CountRetry, Busy, Places
<1>2. /\ Head(batch[p]) \in Entries /\ batch[p] \in Seq(stored) /\ batch[p] # << >>
      /\ IsInjective(batch[p]) /\ Head(batch[p]) \in ToSet(batch[p])
  <2>1. /\ Head(batch[p]) \in Entries /\ batch[p] \in Seq(stored) /\ batch[p] # << >>
        /\ Head(batch[p]) = batch[p][1] /\ Len(batch[p]) \in Nat \ {0}
    BY <1>1, HeadOfBatch
  <2>2. 1 \in DOMAIN batch[p]
    BY <2>1, LenProperties
  <2>3. QED
    BY <2>1, <2>2 DEF ToSet, OutboxShape
<1>3. PICK h \in Entries : h = Head(batch[p])
  BY <1>2
<1>4. /\ pc'[p] \in {"idle", "emit"} /\ batch'[p] = Tail(batch[p])
      /\ \A q \in Processes \ {p} : pc'[q] = pc[q] /\ batch'[q] = batch[q]
  BY <1>1, ShapeNextEntry DEF CountRetry
<1>5. ToSet(batch'[p]) = ToSet(batch[p]) \ {h}
  BY <1>2, <1>3, <1>4, TailOfBatch
<1>6. /\ retryCount'[h] = retryCount[h] + 1 /\ attempts' = attempts
      /\ \A e \in Entries \ {h} : retryCount'[e] = retryCount[e]
  BY <1>3 DEF CountRetry, OutboxShape
<1>7. Emitted(h)' = Emitted(h) \ {p} /\ p \in Emitted(h)
  BY <1>1, <1>3, <1>4 DEF Emitted
<1>8. Holders(h)' = Holders(h) \ {p} /\ p \in Holders(h)
  BY <1>2, <1>3, <1>4, <1>5 DEF Holders
<1>9. \A e \in Entries \ {h} : Emitted(e)' = Emitted(e)
  BY <1>1, <1>3, <1>4 DEF Emitted
<1>10. \A e \in Entries \ {h} : Holders(e)' = Holders(e)
  BY <1>4, <1>5 DEF Holders
<1>11. \A e \in Entries : Emitted(e) \in SUBSET Processes /\ Holders(e) \in SUBSET Processes
  BY DEF Emitted, Holders
<1>12. /\ Cardinality(Emitted(h)') = Cardinality(Emitted(h)) - 1
       /\ Cardinality(Holders(h)') = Cardinality(Holders(h)) - 1
  BY <1>7, <1>8, <1>11, FiniteProcesses, FS_RemoveElement
<1>13. \A e \in Entries :
         /\ Cardinality(Emitted(e)) \in Nat /\ Cardinality(Holders(e)) \in Nat
         /\ retryCount[e] \in Nat /\ attempts[e] \in Nat
         /\ MaxRetries \in Nat /\ Cardinality(Processes) \in Nat
         /\ attempts[e] = MaxRetries \/ retryCount[e] + Cardinality(Emitted(e)) <= attempts[e]
         /\ retryCount[e] + Cardinality(Holders(e)) <= MaxRetries + Cardinality(Processes)
  BY <1>11, FiniteProcesses, OutboxAssumption DEF OutboxShape, RetriesWereAttempts, RetriesOvershoot
<1>14. /\ attempts'[h] = MaxRetries \/ retryCount'[h] + Cardinality(Emitted(h)') <= attempts'[h]
       /\ retryCount'[h] + Cardinality(Holders(h)') <= MaxRetries + Cardinality(Processes)
  BY <1>6, <1>12, <1>13
<1>15. \A e \in Entries \ {h} :
         /\ attempts'[e] = MaxRetries \/ retryCount'[e] + Cardinality(Emitted(e)') <= attempts'[e]
         /\ retryCount'[e] + Cardinality(Holders(e)') <= MaxRetries + Cardinality(Processes)
  BY <1>6, <1>9, <1>10, <1>13
<1>16. QED
  BY <1>14, <1>15 DEF RetriesWereAttempts, RetriesOvershoot

\* Batches that only get shorter keep the bound.
LEMMA OvershootShrinks ==
  ASSUME OutboxShape, RetriesOvershoot, retryCount' = retryCount,
         \A e \in Entries : Holders(e)' \subseteq Holders(e)
  PROVE  RetriesOvershoot'
<1> SUFFICES ASSUME NEW e \in Entries
             PROVE  retryCount[e] + Cardinality(Holders(e)') <= MaxRetries + Cardinality(Processes)
  BY DEF RetriesOvershoot
<1>2. Holders(e)' \subseteq Holders(e) /\ Holders(e) \in SUBSET Processes
  BY DEF Holders
<1>3. /\ Cardinality(Holders(e)') <= Cardinality(Holders(e))
      /\ Cardinality(Holders(e)') \in Nat /\ Cardinality(Holders(e)) \in Nat
  BY <1>2, FiniteProcesses, FS_Subset
<1>4. retryCount[e] \in Nat /\ MaxRetries \in Nat /\ Cardinality(Processes) \in Nat
  BY OutboxAssumption, FiniteProcesses DEF OutboxShape
<1>5. QED
  BY <1>3, <1>4 DEF RetriesOvershoot

LEMMA OvershootKept ==
  ASSUME OutboxShape, RetriesOvershoot, retryCount' = retryCount,
         \A q \in Processes : batch'[q] = batch[q] \/ batch'[q] = << >>
  PROVE  RetriesOvershoot'
<1>1. \A e \in Entries : Holders(e)' \subseteq Holders(e)
  BY DEF Holders, ToSet
<1>2. QED
  BY <1>1, OvershootShrinks

\* A poll takes up entries whose retries are not used up.
LEMMA OvershootPoll ==
  ASSUME OutboxShape, RetriesOvershoot, NEW p \in Processes, Poll(p)
  PROVE  RetriesOvershoot'
<1>1. PICK found \in SetToSeqs(Pending) : batch' = [batch EXCEPT ![p] = found]
  BY DEF Poll
<1>2. ToSet(found) \subseteq Pending
  BY FoundIsPending
<1>3. batch'[p] = found /\ \A q \in Processes \ {p} : batch'[q] = batch[q]
  BY <1>1 DEF OutboxShape
<1>4. ASSUME NEW e \in Entries
      PROVE  retryCount[e] + Cardinality(Holders(e)') <= MaxRetries + Cardinality(Processes)
  <2>1. /\ Holders(e)' \in SUBSET Processes /\ Holders(e) \in SUBSET Processes
        /\ retryCount[e] \in Nat /\ MaxRetries \in Nat
    BY OutboxAssumption DEF Holders, OutboxShape
  <2>2. /\ Cardinality(Holders(e)') \in Nat /\ Cardinality(Holders(e)) \in Nat
        /\ Cardinality(Holders(e)') <= Cardinality(Processes) /\ Cardinality(Processes) \in Nat
    BY <2>1, FiniteProcesses
  <2>3. CASE e \in Pending
    BY <2>1, <2>2, <2>3 DEF Pending
  <2>4. CASE e \notin Pending
    <3>1. Holders(e)' \subseteq Holders(e)
      BY <1>2, <1>3, <2>4 DEF Holders
    <3>2. Cardinality(Holders(e)') <= Cardinality(Holders(e))
      BY <2>1, <3>1, FiniteProcesses, FS_Subset
    <3>3. QED
      BY <2>1, <2>2, <3>2 DEF RetriesOvershoot
  <2>5. QED
    BY <2>3, <2>4
<1>5. QED
  BY <1>4 DEF RetriesOvershoot, Poll

LEMMA OutboxInvInit == Init => OutboxInv
<1> SUFFICES ASSUME Init PROVE OutboxInv
  OBVIOUS
<1>1. HandledWhenMarked
  BY DEF Init, HandledWhenMarked
<1>2. \A e \in Entries : Emitted(e) = {} /\ Holders(e) = {}
  BY DEF Init, Emitted, Holders, ToSet
<1>3. \A e \in Entries : Cardinality(Emitted(e)) = 0 /\ Cardinality(Holders(e)) = 0
  BY <1>2, FS_EmptySet
<1>4. Cardinality(Processes) \in Nat
  BY FiniteProcesses
<1>5. RetriesWereAttempts /\ RetriesOvershoot
  BY <1>3, <1>4, OutboxAssumption DEF Init, RetriesWereAttempts, RetriesOvershoot
<1>6. QED
  BY <1>1, <1>5, ShapeInit DEF OutboxInv

LEMMA OutboxInvStep == OutboxInv /\ [Next]_vars => OutboxInv'
<1> SUFFICES ASSUME OutboxInv, [Next]_vars PROVE OutboxInv'
  OBVIOUS
<1>1. OutboxShape /\ OutboxShape'
  BY ShapeStep DEF OutboxInv
<1>2. HandledWhenMarked'
  BY HandledStep DEF OutboxInv
<1>3. RetriesWereAttempts' /\ RetriesOvershoot'
  <2> USE DEF OutboxInv
  <2>1. ASSUME NEW e \in Entries, Persist(e) PROVE <1>3!:
    BY <2>1, AccountsKept, OvershootKept DEF Persist
  <2>2. ASSUME NEW p \in Processes, Poll(p) PROVE <1>3!:
    <3>1. \A q \in Processes : pc'[q] \in {"mark", "failed"} =>
            pc[q] \in {"mark", "failed"} /\ batch'[q] = batch[q]
      BY <2>2 DEF Poll, OutboxShape
    <3>2. QED
      BY <2>2, <3>1, AccountsKept, OvershootPoll DEF Poll
  <2>3. ASSUME NEW p \in Processes, Publish(p) PROVE <1>3!:
    <3>1. \A q \in Processes : pc'[q] \in {"mark", "failed"} => pc[q] \in {"mark", "failed"}
      BY <2>3 DEF Publish, OutboxShape
    <3>2. QED
      BY <2>3, <3>1, AccountsKept, OvershootKept DEF Publish
  <2>4. ASSUME NEW p \in Processes, PublishFails(p) PROVE <1>3!:
    BY <2>4, EmissionCounted, OvershootKept DEF PublishFails
  <2>5. ASSUME NEW p \in Processes, NEW failing \in SUBSET Handlers, Emit(p, failing)
        PROVE  <1>3!:
    BY <2>5, EmissionCounted, OvershootKept DEF Emit
  <2>6. ASSUME NEW p \in Processes, MarkPublished(p) PROVE <1>3!:
    <3>1. pc[p] \in Busy
      BY <2>6 DEF MarkPublished, Busy, Places
    <3>2. batch[p] # << >>
      BY <3>1, HeadOfBatch
    <3>3. /\ pc'[p] \in {"idle", "emit"} /\ batch'[p] = Tail(batch[p])
          /\ \A q \in Processes \ {p} : batch'[q] = batch[q] /\ pc'[q] = pc[q]
      BY <2>6, <3>1, ShapeNextEntry DEF MarkPublished
    <3>4. \A q \in Processes : pc'[q] \in {"mark", "failed"} =>
            pc[q] \in {"mark", "failed"} /\ batch'[q] = batch[q]
      BY <3>3
    <3>5. RetriesWereAttempts'
      BY <2>6, <3>4, AccountsKept DEF MarkPublished
    <3>6. ASSUME NEW e \in Entries PROVE Holders(e)' \subseteq Holders(e)
      <4>1. ToSet(batch'[p]) \subseteq ToSet(batch[p])
        BY <3>2, <3>3, TailOfBatch DEF OutboxShape
      <4>2. QED
        BY <3>3, <4>1 DEF Holders
    <3>7. RetriesOvershoot'
      BY <2>6, <3>6, OvershootShrinks DEF MarkPublished
    <3>8. QED
      BY <3>5, <3>7
  <2>7. ASSUME NEW p \in Processes, MarkFails(p) \/ Stop(p) \/ Start(p) PROVE <1>3!:
    <3>1. \A q \in Processes : pc'[q] \in {"mark", "failed"} => pc[q] \in {"mark", "failed"}
      BY <2>7 DEF MarkFails, Stop, Start, OutboxShape
    <3>2. batch' = batch /\ attempts' = attempts /\ retryCount' = retryCount
      BY <2>7 DEF MarkFails, Stop, Start
    <3>3. QED
      BY <3>1, <3>2, AccountsKept, OvershootKept
  <2>8. ASSUME NEW p \in Processes, CountRetry(p) PROVE <1>3!:
    BY <2>8, RetryCounted
  <2>9. ASSUME NEW p \in Processes, NEW place \in {"idle", "down"},
               pc' = [pc EXCEPT ![p] = place], batch' = [batch EXCEPT ![p] = << >>],
               attempts' = attempts, retryCount' = retryCount
        PROVE  <1>3!:
    <3>1. \A q \in Processes : pc'[q] \in {"mark", "failed"} =>
            pc[q] \in {"mark", "failed"} /\ batch'[q] = batch[q]
      BY <2>9 DEF OutboxShape
    <3>2. \A q \in Processes : batch'[q] = batch[q] \/ batch'[q] = << >>
      BY <2>9 DEF OutboxShape
    <3>3. QED
      BY <2>9, <3>1, <3>2, AccountsKept, OvershootKept
  <2>10. ASSUME NEW p \in Processes, CountFails(p) PROVE <1>3!:
    BY <2>9, <2>10 DEF CountFails
  <2>11. ASSUME NEW p \in Processes, Die(p) PROVE <1>3!:
    BY <2>9, <2>11 DEF Die
  <2>12. ASSUME NEW p \in Processes, NEW e \in Entries, NEW failing \in SUBSET Handlers,
                Receive(p, e, failing)
         PROVE  <1>3!:
    BY <2>12, AccountsKept, OvershootKept DEF Receive
  <2>13. ASSUME NEW p \in Processes, NEW e \in Entries, NEW failing \in SUBSET Handlers,
                ReceiveCrashes(p, e, failing)
         PROVE  <1>3!:
    BY <2>9, <2>13 DEF ReceiveCrashes
  <2>14. CASE UNCHANGED vars
    BY <2>14, AccountsKept, OvershootKept DEF vars
  <2>15. QED
    BY <2>1, <2>2, <2>3, <2>4, <2>5, <2>6, <2>7, <2>8, <2>10, <2>11, <2>12, <2>13, <2>14
       DEF Next, EmitSome, Settle, Fault, ReceiveSome
<1>4. QED
  BY <1>1, <1>2, <1>3 DEF OutboxInv

\* However many processes poll the same entries, fail, crash and restart, an
\* entry about to be marked has been handled, and every retry counted for an
\* entry, or still to be counted, was an emission of that entry.
THEOREM OutboxInvariantHolds == Spec => []OutboxInv
<1>1. QED
  BY OutboxInvInit, OutboxInvStep, PTL DEF Spec

\* An entry is marked published only after every handler that reports its
\* failures completed on it, and given up only after maxRetries emissions.
THEOREM EntriesSettleRightly == Spec => []SettledRightly
<1>1. ASSUME OutboxInv PROVE SettledRightly
  <2>1. ASSUME NEW e \in stored \ published, retryCount[e] >= MaxRetries
        PROVE  attempts[e] = MaxRetries
    <3>1. e \in Entries /\ Emitted(e) \in SUBSET Processes
      BY <1>1 DEF OutboxInv, OutboxShape, Emitted
    <3>2. Cardinality(Emitted(e)) \in Nat /\ retryCount[e] \in Nat /\ attempts[e] \in 0..MaxRetries
      BY <1>1, <3>1, FiniteProcesses DEF OutboxInv, OutboxShape
    <3>3. attempts[e] = MaxRetries \/ retryCount[e] + Cardinality(Emitted(e)) <= attempts[e]
      BY <1>1, <3>1 DEF OutboxInv, RetriesWereAttempts
    <3>4. QED
      BY <2>1, <3>2, <3>3, OutboxAssumption
  <2>2. QED
    BY <1>1, <2>1 DEF SettledRightly, OutboxInv, HandledWhenMarked
<1>2. QED
  BY <1>1, OutboxInvariantHolds, PTL

LEMMA OutboxInvTypes == OutboxInv => TypeOK
<1> SUFFICES ASSUME OutboxInv PROVE TypeOK
  OBVIOUS
<1> USE DEF OutboxInv, OutboxShape
<1>1. ASSUME NEW e \in Entries PROVE retryCount[e] \in 0..(MaxRetries + Cardinality(Processes))
  <2>1. Holders(e) \in SUBSET Processes
    BY DEF Holders
  <2>2. Cardinality(Holders(e)) \in Nat /\ Cardinality(Processes) \in Nat /\ MaxRetries \in Nat
    BY <2>1, FiniteProcesses, OutboxAssumption
  <2>3. QED
    BY <2>2 DEF RetriesOvershoot
<1>2. retryCount \in [Entries -> 0..(MaxRetries + Cardinality(Processes))]
  BY <1>1
<1>3. batch \in [Processes -> Seq(stored)]
  OBVIOUS
<1>4. QED
  BY <1>2, <1>3 DEF TypeOK

-----------------------------------------------------------------------------
\* Sagas.

LEMMA LeastExists ==
  ASSUME NEW S, S \subseteq Nat, S # {}
  PROVE  \E n \in S : \A m \in S : n <= m
<1> DEFINE Less == {p \in Nat \X Nat : p[1] < p[2]}
<1>1. IsWellFoundedOn(Less, Nat)
  BY NatLessThanWellFounded DEF OpToRel
<1>2. PICK n \in S : \A m \in S : ~ (<<m, n>> \in Less)
  BY <1>1, WFMin
<1>3. \A m \in S : ~ (m < n)
  BY <1>2
<1>4. \A m \in S : m \in Nat
  OBVIOUS
<1> HIDE DEF Less
<1> QED
  BY <1>3, <1>4

\* SeqOf(set, n) holds the sequences of at most n elements.
LEMMA SeqOfBounded ==
  ASSUME NEW S, NEW n \in Nat, NEW s
  PROVE  s \in SeqOf(S, n) <=> s \in Seq(S) /\ Len(s) <= n
<1>1. ASSUME s \in SeqOf(S, n) PROVE s \in Seq(S) /\ Len(s) <= n
  <2>1. PICK m \in 0..n : s \in [1..m -> S]
    BY <1>1 DEF SeqOf
  <2>2. s \in Seq(S)
    BY <2>1, SeqDef
  <2>3. Len(s) = m
    BY <2>1, <2>2, LenProperties
  <2>4. QED
    BY <2>2, <2>3
<1>2. ASSUME s \in Seq(S), Len(s) <= n PROVE s \in SeqOf(S, n)
  <2>1. Len(s) \in 0..n /\ s \in [1..Len(s) -> S]
    BY <1>2, LenProperties
  <2>2. QED
    BY <2>1 DEF SeqOf
<1>3. QED
  BY <1>1, <1>2

\* What the saga has compensated, next - 1 - back of the completed steps, are
\* the last ones it completed, in reverse, if names differ.
SagaInv ==
  /\ steps \in Seq(Names) /\ Len(steps) \in 1..MaxSteps
  /\ progress \in {"execute", "compensate", "success", "failure"}
  /\ next \in 1..(Len(steps) + 1)
  /\ completedSteps = SubSeq(steps, 1, next - 1)
  /\ effects \subseteq 1..Len(steps)
  /\ compensatedSteps \in Seq(Names) /\ Len(compensatedSteps) = Len(undone)
  /\ undone \in Seq(1..(next - 1))
  /\ back \in 0..(next - 1)
  /\ progress = "success" <=> next = Len(steps) + 1
  /\ progress \in {"execute", "success"} => undone = << >> /\ back = 0
  /\ progress = "compensate" => back > 0
  /\ progress = "failure" => back = 0
  /\ progress \in {"compensate", "failure"} => Len(undone) = next - 1 - back
  /\ IsInjective(steps) => \A i \in 1..Len(undone) : undone[i] = next - i

\* The names completed so far are those of the steps before the next one.
LEMMA CompletedSteps ==
  ASSUME SagaInv
  PROVE  /\ completedSteps \in Seq(Names) /\ Len(completedSteps) = next - 1
         /\ \A i \in 1..(next - 1) : completedSteps[i] = steps[i]
BY SubSeqProperties DEF SagaInv

\* find() by name returns a completed step, and the very step when names
\* differ.
LEMMA FoundIsCompleted ==
  ASSUME SagaInv, progress = "compensate"
  PROVE  /\ Found \in 1..back
         /\ IsInjective(steps) => Found = back
<1> DEFINE I == {i \in 1..Len(steps) : steps[i] = completedSteps[back]}
<1>1. back \in 1..(next - 1) /\ next - 1 <= Len(steps) /\ next \in Nat /\ Len(steps) \in Nat
  BY DEF SagaInv
<1>2. completedSteps[back] = steps[back]
  BY <1>1, CompletedSteps
<1>3. back \in I /\ I \subseteq Nat
  BY <1>1, <1>2
<1>4. Found = CHOOSE x \in I : \A y \in I : x <= y
  BY <1>3 DEF Found, SelectInSeq, Min
<1>5. PICK x \in I : \A y \in I : x <= y
  BY <1>3, LeastExists
<1>6. Found \in I /\ Found <= back
  <2> HIDE DEF I
  <2>1. Found \in I /\ \A y \in I : Found <= y
    BY <1>4, <1>5
  <2>2. QED
    BY <2>1, <1>3
<1>7. IsInjective(steps) => Found = back
  BY <1>1, <1>2, <1>6 DEF IsInjective, SagaInv
<1>8. QED
  BY <1>1, <1>6, <1>7

LEMMA SagaInvInit == SagaInit => SagaInv
<1> SUFFICES ASSUME SagaInit PROVE SagaInv
  OBVIOUS
<1>1. steps \in Seq(Names) /\ Len(steps) <= MaxSteps /\ steps # << >>
  BY SagaAssumption, SeqOfBounded DEF SagaInit, Definitions
<1>2. Len(steps) \in 1..MaxSteps
  BY <1>1, EmptySeq, LenProperties, SagaAssumption
<1>3. completedSteps = SubSeq(steps, 1, next - 1)
  BY <1>1, <1>2, SubSeqProperties DEF SagaInit
<1>4. QED
  BY <1>1, <1>2, <1>3, EmptySeq DEF SagaInit, SagaInv

LEMMA SucceedsStep == ASSUME SagaInv, StepSucceeds PROVE SagaInv'
<1> USE DEF SagaInv, StepSucceeds
<1>1. next \in 1..Len(steps)
  OBVIOUS
<1>2. completedSteps' = SubSeq(steps, 1, next)
  <2>1. /\ SubSeq(steps, 1, next) \in Seq(Names) /\ Len(SubSeq(steps, 1, next)) = next
        /\ \A i \in 1..next : SubSeq(steps, 1, next)[i] = steps[i]
    BY <1>1, SubSeqProperties
  <2>2. /\ completedSteps' \in Seq(Names) /\ Len(completedSteps') = next
        /\ \A i \in 1..next : completedSteps'[i] = steps[i]
    BY <1>1, CompletedSteps, AppendProperties, ElementOfSeq
  <2> HIDE DEF SagaInv, StepSucceeds
  <2>3. QED
    BY <2>1, <2>2, SeqEqual
<1>3. undone' = << >> /\ undone' \in Seq(1..(next' - 1)) /\ Len(undone') = 0
  BY EmptySeq
<1>4. QED
  BY <1>1, <1>2, <1>3

LEMMA FailsStep == ASSUME SagaInv, StepFails PROVE SagaInv'
<1> USE DEF SagaInv, StepFails
<1>1. Len(completedSteps) = next - 1 /\ completedSteps \in Seq(Names)
  BY CompletedSteps
<1>2. completedSteps = << >> <=> next = 1
  BY <1>1, EmptySeq
<1>3. Len(undone) = 0
  BY EmptySeq
<1>4. QED
  BY <1>1, <1>2, <1>3

LEMMA CompensateStep ==
  ASSUME SagaInv, NEW ok \in BOOLEAN, Compensate(ok)
  PROVE  SagaInv'
<1> USE DEF Compensate
<1>1. /\ back \in 1..(next - 1) /\ next \in Nat /\ Len(undone) = next - 1 - back
      /\ undone \in Seq(1..(next - 1))
  BY DEF SagaInv
<1>2. Found \in 1..(next - 1)
  BY <1>1, FoundIsCompleted
<1>3. /\ undone' \in Seq(1..(next' - 1)) /\ Len(undone') = Len(undone) + 1
      /\ \A i \in 1..Len(undone) : undone'[i] = undone[i]
      /\ undone'[Len(undone) + 1] = Found
  BY <1>1, <1>2, AppendProperties
<1>4. completedSteps[back] \in Names
  BY <1>1, CompletedSteps, ElementOfSeq
<1>5. compensatedSteps' \in Seq(Names) /\ Len(compensatedSteps') = Len(compensatedSteps) + 1
  BY <1>4, AppendProperties DEF SagaInv
<1>6. ASSUME IsInjective(steps), NEW i \in 1..Len(undone') PROVE undone'[i] = next - i
  <2>1. i \in 1..Len(undone) \/ i = Len(undone) + 1
    BY <1>1, <1>3
  <2>2. CASE i \in 1..Len(undone)
    BY <2>2, <1>3, <1>6 DEF SagaInv
  <2>3. CASE i = Len(undone) + 1
    BY <2>3, <1>1, <1>3, <1>6, FoundIsCompleted
  <2>4. QED
    BY <2>1, <2>2, <2>3
<1>7. QED
  BY <1>1, <1>2, <1>3, <1>5, <1>6 DEF SagaInv

LEMMA SagaInvStep == SagaInv /\ [SagaNext]_sagaVars => SagaInv'
<1>1. ASSUME SagaInv, UNCHANGED sagaVars PROVE SagaInv'
  BY <1>1 DEF SagaInv, sagaVars
<1>2. QED
  BY <1>1, SucceedsStep, FailsStep, CompensateStep DEF SagaNext

\* While it compensates, execute() has undone the last steps it completed, last
\* first, whatever compensations fail.
THEOREM SagaInvariantHolds == SagaSpec => []SagaInv
<1>1. QED
  BY SagaInvInit, SagaInvStep, PTL DEF SagaSpec

LEMMA SagaInvTypes == SagaInv => SagaTypeOK
<1> SUFFICES ASSUME SagaInv PROVE SagaTypeOK
  OBVIOUS
<1> USE DEF SagaInv
<1>1. steps \in Definitions
  BY SeqOfBounded, EmptySeq, SagaAssumption DEF Definitions
<1>2. Len(undone) <= Len(steps) /\ Len(steps) \in Nat
  BY EmptySeq
<1>3. undone \in Seq(1..Len(steps))
  <2>1. 1..(next - 1) \subseteq 1..Len(steps)
    OBVIOUS
  <2>2. undone \in [1..Len(undone) -> 1..(next - 1)] /\ Len(undone) \in Nat
    BY LenProperties
  <2>3. undone \in [1..Len(undone) -> 1..Len(steps)]
    BY <2>1, <2>2
  <2>4. QED
    BY <2>2, <2>3, SeqDef
<1>4. compensatedSteps \in SeqOf(Names, Len(steps)) /\ undone \in SeqOf(1..Len(steps), Len(steps))
  BY <1>2, <1>3, SeqOfBounded
<1>5. Len(completedSteps) = next - 1
  BY CompletedSteps
<1>6. QED
  BY <1>1, <1>4, <1>5 DEF SagaTypeOK

\* A saga that reports failure has called every completed step's compensation
\* once, in reverse, when step names differ; a step that did not complete is
\* never compensated.
THEOREM FailedSagaIsCompensated == SagaSpec => []FailureIsCompensated
<1>1. ASSUME SagaInv PROVE FailureIsCompensated
  <2> USE <1>1 DEF SagaInv
  <2>1. undone \in [1..Len(undone) -> 1..(next - 1)]
    BY LenProperties
  <2>2. ToSet(undone) \subseteq 1..(next - 1)
    BY <2>1 DEF ToSet
  <2>3. ASSUME progress = "failure", IsInjective(steps) PROVE AllCompensated
    <3>1. Len(undone) = next - 1
      BY <2>3
    <3>2. \A i \in 1..(next - 1) : undone[i] = next - i
      BY <2>3, <3>1
    <3>3. QED
      BY <2>1, <3>1, <3>2 DEF AllCompensated
  <2>4. QED
    BY <2>2, <2>3 DEF FailureIsCompensated
<1>2. QED
  BY <1>1, SagaInvariantHolds, PTL

-----------------------------------------------------------------------------
\* Both together.

\* A behaviour of the combined instance is one of each part.
LEMMA PartStep == [PartNext]_parts => [Next]_vars /\ [SagaNext]_sagaVars
BY DEF PartNext, parts

\* The variables of both keep their types; retryCount passes maxRetries by less
\* than the number of processes that poll.
THEOREM CrossServiceTypesHold == PartSpec => []CrossServiceTypesOK
<1>1. PartInit => OutboxInv /\ SagaInv
  BY OutboxInvInit, SagaInvInit DEF PartInit
<1>2. OutboxInv /\ SagaInv /\ [PartNext]_parts => OutboxInv' /\ SagaInv'
  BY PartStep, OutboxInvStep, SagaInvStep
<1>3. OutboxInv /\ SagaInv => CrossServiceTypesOK
  BY OutboxInvTypes, SagaInvTypes DEF CrossServiceTypesOK
<1>4. QED
  BY <1>1, <1>2, <1>3, PTL DEF PartSpec

\* A run that checks the combined instance checks behaviours of each part, so what
\* is proved of a part holds there.
THEOREM PartsAreSpecified == PartSpec => Spec /\ SagaSpec
<1>1. PartInit => Init /\ SagaInit
  BY DEF PartInit
<1>2. QED
  BY <1>1, PartStep, PTL DEF PartSpec, Spec, SagaSpec

=============================================================================
