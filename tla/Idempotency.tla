----------------------------- MODULE Idempotency -----------------------------
(***************************************************************************)
(* IdempotencyGuard (src/payments/idempotency.guard.ts): requests that     *)
(* carry an Idempotency-Key, and the static Map of answers that tells a    *)
(* repeated one.                                                           *)
(*                                                                         *)
(* The answer of a request is stored when its handler answers, not when it *)
(* is admitted, so requests that overlap all run.  Only JSON answers pass  *)
(* through the wrapped res.json(); errors do too.  A replayed answer       *)
(* changes nothing and is left out, as is what the answers say.            *)
(***************************************************************************)
EXTENDS Naturals, InsertionOrder

CONSTANTS
  Keys,
  Handlers,     \* requests that may run at a time
  AnswerTTL,    \* ttl of @Idempotent(), in ticks
  MaxSize       \* MAX_SIZE

ASSUME IdempotencyAssumption ==
  /\ AnswerTTL \in Nat \ {0} /\ MaxSize \in Nat
  /\ "none" \notin Keys

VARIABLES
  answers,      \* the Map, in order of insertion: [key, left]
  runs,         \* the key each handler runs for, and the key's age at its start
  answerAge,    \* ticks since each key was last stored, saturating at AnswerTTL
  dropped,      \* keys whose last answer was trimmed or lost in a restart
  patient       \* whether clients wait for an answer before they repeat

keyVars == <<answers, runs, answerAge, dropped, patient>>

Free == [key |-> "none", age |-> 0]

KeyTypeOK ==
  /\ answers \in Seq([key : Keys, left : 0..AnswerTTL])
  /\ Len(answers) <= MaxSize + 1
  /\ IsInjective([i \in DOMAIN answers |-> answers[i].key])
  /\ runs \in [Handlers -> [key : Keys, age : 0..AnswerTTL] \cup {Free}]
  /\ answerAge \in [Keys -> 0..AnswerTTL]
  /\ dropped \subseteq Keys
  /\ patient \in BOOLEAN

KeyInit ==
  /\ answers = << >>
  /\ runs = [h \in Handlers |-> Free]
  /\ answerAge = [k \in Keys |-> AnswerTTL]
  /\ dropped = {}
  /\ patient \in BOOLEAN

-----------------------------------------------------------------------------

\* Mutant: an answer is taken for expired one tick early.
UnexpiredLong(entry) == entry.left > 1

\* Date.now() < expiresAt
Unexpired(entry) == entry.left > 0

StoredKeys(s) == {s[i].key : i \in DOMAIN s}

UnexpiredAnswers == {entry \in ToSet(answers) : Unexpired(entry)}

\* evict(): expired answers go, then the first inserted beyond MAX_SIZE.
Evicted == {Trimmed(left, MaxSize) : left \in InOrder(answers, UnexpiredAnswers)}

\* Map.set() leaves a key that is there in its place.
MapSet(s, k) ==
  LET entry == [key |-> k, left |-> AnswerTTL]
  IN  IF k \in StoredKeys(s)
      THEN [i \in DOMAIN s |-> IF s[i].key = k THEN entry ELSE s[i]]
      ELSE Append(s, entry)

\* canActivate() lets the request through: no unexpired answer is stored.
Begin(h, k) ==
  /\ runs[h] = Free
  /\ patient => \A g \in Handlers : runs[g].key # k
  /\ \A i \in DOMAIN answers : answers[i].key = k => ~Unexpired(answers[i])
  /\ answers' \in InOrder(answers, {entry \in ToSet(answers) : entry.key # k})
  /\ runs' = [runs EXCEPT ![h] = [key |-> k, age |-> answerAge[k]]]
  /\ UNCHANGED <<answerAge, dropped, patient>>

\* Mutant: answers are stored without eviction.
AnswerKeepingAll(h) ==
  /\ runs[h] # Free
  /\ answers' = MapSet(answers, runs[h].key)
  /\ answerAge' = [answerAge EXCEPT ![runs[h].key] = 0]
  /\ runs' = [runs EXCEPT ![h] = Free]
  /\ UNCHANGED <<dropped, patient>>

\* The wrapped res.json(): evict and store.
Answer(h) ==
  /\ runs[h] # Free
  /\ LET k == runs[h].key
     IN  /\ \E left \in Evicted :
              /\ answers' = MapSet(left, k)
              /\ dropped' = (dropped \cup
                   {entry.key : entry \in UnexpiredAnswers \ ToSet(left)}) \ {k}
         /\ answerAge' = [answerAge EXCEPT ![k] = 0]
  /\ runs' = [runs EXCEPT ![h] = Free]
  /\ UNCHANGED patient

\* The request ends without res.json(): a text answer, a stream, a broken
\* connection.
EndUnstored(h) ==
  /\ runs[h] # Free
  /\ runs' = [runs EXCEPT ![h] = Free]
  /\ UNCHANGED <<answers, answerAge, dropped, patient>>

KeyTick ==
  /\ answers' = [i \in DOMAIN answers |->
       [answers[i] EXCEPT !.left = IF @ > 0 THEN @ - 1 ELSE 0]]
  /\ answerAge' = [k \in Keys |->
       IF answerAge[k] < AnswerTTL THEN answerAge[k] + 1 ELSE AnswerTTL]
  /\ UNCHANGED <<runs, dropped, patient>>

\* The Map is a static of the class: a restart empties it.
KeyRestart ==
  /\ answers' = << >>
  /\ runs' = [h \in Handlers |-> Free]
  /\ dropped' = Keys
  /\ UNCHANGED <<answerAge, patient>>

KeyNext ==
  \/ \E h \in Handlers : (\E k \in Keys : Begin(h, k)) \/ Answer(h) \/ EndUnstored(h)
  \/ KeyTick
  \/ KeyRestart

KeySpec == KeyInit /\ [][KeyNext]_keyVars

-----------------------------------------------------------------------------

\* A client that waits for each answer never has its operation run again until
\* the answer stored for it is a whole TTL old, whatever other keys come, go
\* and fill the Map, unless the answer was trimmed or lost in a restart.
OneRunPerAnswer ==
  patient => \A h \in Handlers :
    runs[h] # Free /\ runs[h].key \notin dropped => runs[h].age = AnswerTTL

=============================================================================
