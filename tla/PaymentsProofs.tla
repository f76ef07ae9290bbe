--------------------------- MODULE PaymentsProofs ---------------------------
(***************************************************************************)
(* Webhooks and Idempotency-Keys, for any number of events, deliveries,    *)
(* keys and requests, any time to live and any size of the store.          *)
(*                                                                         *)
(* Both invariants say what the Map still holds.  Of an event that no      *)
(* restart and no eviction has made the process forget, the mark is there  *)
(* while its handler runs and as long as it can turn a delivery away       *)
(* (MarksOK); of a key, the answer is there until it expires, and expires  *)
(* when its age says so (AnswersKept).  Both evictions keep a part of the  *)
(* Map in its order, whatever its size, which is what the lemmas about     *)
(* InsertionOrder are for.                                                 *)
(***************************************************************************)
EXTENDS MCPayments, SequenceTheorems, FiniteSetTheorems, FunctionTheorems, TLAPS

-----------------------------------------------------------------------------
\* InsertionOrder.

\* t picks elements of s and leaves them in their order.
PicksFrom(t, s) ==
  \A i, j \in DOMAIN t : i < j =>
    \E k, l \in DOMAIN s : k < l /\ s[k] = t[i] /\ s[l] = t[j]

\* A sequence has at most as many elements as places.
LEMMA ToSetFinite ==
  ASSUME NEW S, NEW s \in Seq(S)
  PROVE  IsFiniteSet(ToSet(s)) /\ Cardinality(ToSet(s)) <= Len(s) /\ ToSet(s) \subseteq S
<1>1. Len(s) \in Nat /\ DOMAIN s = 1..Len(s) /\ s \in [1..Len(s) -> S]
  BY LenProperties
<1>2. IsFiniteSet(1..Len(s)) /\ Cardinality(1..Len(s)) = Len(s)
  BY <1>1, FS_Interval
<1>3. s \in Surjection(1..Len(s), ToSet(s))
  <2>1. s \in [1..Len(s) -> ToSet(s)]
    BY <1>1 DEF ToSet
  <2>2. \A x \in ToSet(s) : \E i \in 1..Len(s) : s[i] = x
    BY <1>1 DEF ToSet
  <2>3. QED
    BY <2>1, <2>2, Fun_IsSurj
<1>4. QED
  BY <1>1, <1>2, <1>3, FS_Surjection DEF ToSet

\* The elements of s that are entries, in the order of s, whichever of the ways.
LEMMA InOrderFacts ==
  ASSUME NEW S, NEW s \in Seq(S), NEW entries \in SUBSET ToSet(s), NEW t \in InOrder(s, entries)
  PROVE  /\ t \in Seq(S) /\ Len(t) <= Len(s) /\ ToSet(t) = entries /\ PicksFrom(t, s)
<1> DEFINE N == Cardinality(entries)
<1>1. /\ IsFiniteSet(entries) /\ N \in Nat /\ N <= Len(s) /\ Len(s) \in Nat
      /\ IsFiniteSet(1..N) /\ Cardinality(1..N) = N /\ entries \subseteq S
  <2>1. IsFiniteSet(ToSet(s)) /\ Cardinality(ToSet(s)) <= Len(s) /\ ToSet(s) \subseteq S
    BY ToSetFinite
  <2>2. IsFiniteSet(entries) /\ N <= Cardinality(ToSet(s))
    BY <2>1, FS_Subset
  <2>3. N \in Nat /\ Cardinality(ToSet(s)) \in Nat /\ Len(s) \in Nat
    BY <2>1, <2>2, FS_CardinalityType, LenProperties
  <2>4. N <= Len(s) /\ entries \subseteq S
    BY <2>1, <2>2, <2>3
  <2>5. IsFiniteSet(1..N) /\ Cardinality(1..N) = N
    BY <2>3, FS_Interval
  <2>6. QED
    BY <2>2, <2>3, <2>4, <2>5
<1>2. /\ t \in [1..N -> entries] /\ \A i, j \in 1..N : i # j => t[i] # t[j]
      /\ PicksFrom(t, s)
  BY DEF InOrder, SetToSeqs, PicksFrom, IsInjective
<1> HIDE DEF N
<1>3. t \in Injection(1..N, entries)
  BY <1>2 DEF Injection, IsInjective
<1>4. t \in Surjection(1..N, entries)
  BY <1>1, <1>3, FS_Injection DEF N
<1>5. t \in Seq(entries) /\ t \in Seq(S) /\ Len(t) = N /\ DOMAIN t = 1..N
  BY <1>1, <1>2
<1>6. ToSet(t) = entries
  BY <1>4, <1>5 DEF ToSet, Surjection
<1>7. QED
  BY <1>1, <1>2, <1>5, <1>6

\* Trimming keeps the last ones, at most limit of them.
LEMMA TrimmedFacts ==
  ASSUME NEW S, NEW s \in Seq(S), NEW limit \in Nat
  PROVE  /\ Trimmed(s, limit) \in Seq(S) /\ Len(Trimmed(s, limit)) <= limit
         /\ ToSet(Trimmed(s, limit)) \subseteq ToSet(s) /\ PicksFrom(Trimmed(s, limit), s)
<1>1. Len(s) \in Nat /\ DOMAIN s = 1..Len(s) /\ s \in [1..Len(s) -> S]
  BY LenProperties
<1>2. CASE Len(s) <= limit
  <2>1. Trimmed(s, limit) = s
    BY <1>1, <1>2 DEF Trimmed
  <2>2. QED
    BY <1>1, <1>2, <2>1 DEF PicksFrom
<1>3. CASE Len(s) > limit
  <2>1. PICK m : m = Len(s) - limit + 1
    OBVIOUS
  <2>2. m \in Nat /\ m >= 1 /\ m <= Len(s) + 1
    BY <1>1, <1>3, <2>1
  <2>3. PICK t : t = SubSeq(s, m, Len(s))
    OBVIOUS
  <2>4. Trimmed(s, limit) = t
    BY <1>3, <2>1, <2>3 DEF Trimmed
  <2>5. /\ t \in Seq(S) /\ Len(t) = limit
        /\ \A i \in 1..limit : t[i] = s[m + i - 1]
    <3>1. \A i \in m..Len(s) : s[i] \in S
      BY <1>1, <2>2
    <3>2. /\ t \in Seq(S) /\ Len(t) = IF m <= Len(s) THEN Len(s) - m + 1 ELSE 0
          /\ \A i \in 1..Len(s) - m + 1 : t[i] = s[m + i - 1]
      BY <1>1, <2>2, <2>3, <3>1, SubSeqProperties
    <3>3. Len(s) - m + 1 = limit /\ (m > Len(s) => limit = 0)
      BY <1>1, <2>1
    <3>4. QED
      BY <1>1, <2>2, <3>2, <3>3
  <2>6. DOMAIN t = 1..limit
    BY <2>5, LenProperties
  <2>7. \A i \in DOMAIN t : m + i - 1 \in DOMAIN s /\ t[i] = s[m + i - 1]
    <3>1. ASSUME NEW i \in 1..limit PROVE m + i - 1 \in 1..Len(s) /\ t[i] = s[m + i - 1]
      <4>1. m + i - 1 \in 1..Len(s)
        BY <1>1, <2>1, <2>2
      <4>2. QED
        BY <2>5, <4>1
    <3>2. QED
      BY <1>1, <2>6, <3>1
  <2>8. \A i, j \in DOMAIN t : i < j => m + i - 1 < m + j - 1
    BY <2>2, <2>6
  <2>9. PicksFrom(t, s)
    BY <2>7, <2>8 DEF PicksFrom
  <2>10. ToSet(t) \subseteq ToSet(s)
    BY <2>7 DEF ToSet
  <2>11. QED
    BY <2>4, <2>5, <2>9, <2>10
<1>4. QED
  BY <1>1, <1>2, <1>3

\* What is trimmed of a selection is a selection.
LEMMA PicksTwice ==
  ASSUME NEW s, NEW t, NEW u, PicksFrom(u, t), PicksFrom(t, s)
  PROVE  PicksFrom(u, s)
BY DEF PicksFrom

\* Where the elements of s are after an addition.
LEMMA AppendFacts ==
  ASSUME NEW S, NEW s \in Seq(S), NEW x \in S
  PROVE  /\ Append(s, x) \in Seq(S) /\ Len(Append(s, x)) = Len(s) + 1
         /\ ToSet(Append(s, x)) = ToSet(s) \cup {x}
         /\ \A i \in DOMAIN Append(s, x) :
              (i \in DOMAIN s /\ Append(s, x)[i] = s[i]) \/ (i = Len(s) + 1 /\ Append(s, x)[i] = x)
<1> DEFINE t == Append(s, x)
<1>1. /\ Len(s) \in Nat /\ DOMAIN s = 1..Len(s) /\ t \in Seq(S) /\ Len(t) = Len(s) + 1
      /\ DOMAIN t = 1..Len(s) + 1 /\ t[Len(s) + 1] = x
      /\ \A i \in 1..Len(s) : t[i] = s[i]
  BY AppendProperties, LenProperties
<1> HIDE DEF t
<1>2. \A i \in DOMAIN t : (i \in DOMAIN s /\ t[i] = s[i]) \/ (i = Len(s) + 1 /\ t[i] = x)
  <2> SUFFICES ASSUME NEW i \in DOMAIN t
               PROVE  (i \in DOMAIN s /\ t[i] = s[i]) \/ (i = Len(s) + 1 /\ t[i] = x)
    OBVIOUS
  <2>1. i \in 1..Len(s) + 1
    BY <1>1
  <2>2. i \in 1..Len(s) \/ i = Len(s) + 1
    BY <1>1, <2>1
  <2>3. ASSUME i \in 1..Len(s) PROVE i \in DOMAIN s /\ t[i] = s[i]
    BY <1>1, <2>3
  <2>4. ASSUME i = Len(s) + 1 PROVE t[i] = x
    BY <1>1, <2>4
  <2>5. QED
    BY <2>2, <2>3, <2>4
<1>3. \A i \in DOMAIN s : i \in DOMAIN t /\ t[i] = s[i]
  BY <1>1
<1>4. Len(s) + 1 \in DOMAIN t
  BY <1>1
<1>5. ToSet(t) = ToSet(s) \cup {x}
  BY <1>1, <1>2, <1>3, <1>4 DEF ToSet
<1>6. QED
  BY <1>1, <1>2, <1>5 DEF t

-----------------------------------------------------------------------------
\* Webhooks.

\* The store holds the events once, in the order of their marks.
InStoreOrder(s) ==
  \A i, j \in DOMAIN s :
    i < j => s[i].event # s[j].event /\ s[i].at <= s[j].at

StoreOK ==
  /\ store \in Seq(Mark)
  /\ InStoreOrder(store)
  /\ Len(store) <= MaxStore + 1
  /\ \A mark \in ToSet(store) : mark.at <= clock

WebhookShape ==
  /\ clock \in Time
  /\ delivery \in [Deliveries -> Mark \cup {NoEvent}]
  /\ acked \subseteq Events
  /\ handled \in [Events -> Time \cup {None}]
  /\ forgotten \subseteq Events
  /\ prompt \in BOOLEAN /\ serial \in BOOLEAN

\* A prompt handler settles before its mark expires.
DeliveryOK(d) ==
  delivery[d] # NoEvent =>
    /\ delivery[d].at <= clock
    /\ prompt => clock <= delivery[d].at + TTL

\* The mark of an event that is not forgotten is there while a handler runs and,
\* unless it has expired, after the handler has ended well.
MarksOK ==
  prompt => \A e \in Events \ forgotten :
    /\ \A d \in Running(e) :
         /\ Running(e) = {d} /\ delivery[d] \in ToSet(store)
         /\ handled[e] # None => delivery[d].at > handled[e] + TTL
    /\ handled[e] # None =>
         clock > handled[e] + TTL \/ [event |-> e, at |-> handled[e]] \in ToSet(store)

WebhookInv ==
  /\ WebhookShape
  /\ StoreOK
  /\ \A d \in Deliveries : DeliveryOK(d)
  /\ MarksOK

LEMMA WebhookInitially == Init => WebhookInv
<1> SUFFICES ASSUME Init PROVE WebhookInv
  OBVIOUS
<1>1. WebhookShape
  BY WebhooksAssumption DEF Init, WebhookShape, Time
<1>2. StoreOK
  BY EmptySeq, WebhooksAssumption DEF Init, StoreOK, InStoreOrder, ToSet
<1>3. \A e : Running(e) = {}
  BY DEF Init, Running
<1>4. QED
  BY <1>1, <1>2, <1>3 DEF Init, WebhookInv, DeliveryOK, MarksOK

\* A mark as a record.
LEMMA MarkFields ==
  ASSUME NEW mark \in Mark
  PROVE  /\ mark = [event |-> mark.event, at |-> mark.at]
         /\ mark.event \in Events /\ mark.at \in Nat
BY WebhooksAssumption DEF Mark, Time

\* A duplicate is one for a fresh mark of its event.
LEMMA DuplicateIsMark ==
  ASSUME NEW e
  PROVE  Duplicate(e) <=> \E mark \in ToSet(store) : mark.event = e /\ Fresh(mark)
BY DEF Duplicate, ToSet

\* An event is marked once.
LEMMA OneMark ==
  ASSUME StoreOK, NEW m \in ToSet(store), NEW n \in ToSet(store), m.event = n.event
  PROVE  m = n
<1>1. PICK i \in DOMAIN store : store[i] = m
  BY DEF ToSet
<1>2. PICK j \in DOMAIN store : store[j] = n
  BY DEF ToSet
<1>3. i = j \/ i < j \/ j < i
  <2>1. DOMAIN store = 1..Len(store) /\ Len(store) \in Nat
    BY LenProperties DEF StoreOK
  <2>2. QED
    BY <2>1
<1>4. QED
  BY <1>1, <1>2, <1>3 DEF StoreOK, InStoreOrder

\* A selection of an ordered store is ordered.
LEMMA PicksInStoreOrder ==
  ASSUME NEW s, NEW t, InStoreOrder(s), PicksFrom(t, s)
  PROVE  InStoreOrder(t)
BY DEF InStoreOrder, PicksFrom

\* A delivery that starts a handler finds no running handler of its event and no
\* mark of a completed one, unless the event is forgotten; it leaves a fresh mark.
LEMMA DispatchStep ==
  ASSUME WebhookInv, NEW d \in Deliveries, NEW e \in Events, Dispatch(d, e)
  PROVE  WebhookInv'
<1> USE WebhooksAssumption
<1>1. PICK new : new = [event |-> e, at |-> clock]
  OBVIOUS
<1>2. PICK left \in EvictStore :
        /\ store' = Append(left, new)
        /\ forgotten' = forgotten \cup {mark.event : mark \in FreshMarks \ ToSet(left)}
  BY <1>1 DEF Dispatch
<1>3. /\ delivery[d] = NoEvent /\ ~Duplicate(e) /\ delivery' = [delivery EXCEPT ![d] = new]
      /\ UNCHANGED <<clock, acked, handled, prompt, serial>>
  BY <1>1 DEF Dispatch
<1>4. /\ left \in Seq(Mark) /\ Len(left) <= MaxStore /\ ToSet(left) \subseteq FreshMarks
      /\ InStoreOrder(left)
  <2>1. PICK whole \in InOrder(store, FreshMarks) : left = Trimmed(whole, MaxStore)
    BY DEF EvictStore
  <2>2. whole \in Seq(Mark) /\ ToSet(whole) = FreshMarks /\ PicksFrom(whole, store)
    <3>1. FreshMarks \in SUBSET ToSet(store)
      BY DEF FreshMarks
    <3>2. QED
      BY <2>1, <3>1, InOrderFacts DEF WebhookInv, StoreOK
  <2>3. /\ left \in Seq(Mark) /\ Len(left) <= MaxStore /\ ToSet(left) \subseteq ToSet(whole)
        /\ PicksFrom(left, whole)
    BY <2>1, <2>2, TrimmedFacts
  <2>4. InStoreOrder(left)
    BY <2>2, <2>3, PicksTwice, PicksInStoreOrder DEF WebhookInv, StoreOK
  <2>5. QED
    BY <2>2, <2>3, <2>4
<1>5. /\ new \in Mark /\ new.event = e /\ new.at = clock /\ clock \in Nat
  BY <1>1 DEF WebhookInv, WebhookShape, Mark, Time
<1>6. /\ store' \in Seq(Mark) /\ Len(store') = Len(left) + 1 /\ Len(left) \in Nat
      /\ ToSet(store') = ToSet(left) \cup {new}
      /\ \A i \in DOMAIN store' :
           (i \in DOMAIN left /\ store'[i] = left[i]) \/ (i = Len(left) + 1 /\ store'[i] = new)
      /\ DOMAIN left = 1..Len(left)
  BY <1>2, <1>4, <1>5, AppendFacts, LenProperties
<1>7. \A mark \in FreshMarks : mark \in ToSet(store) /\ mark \in Mark /\ mark.event # e /\ mark.at <= clock
  <2>1. \A mark \in FreshMarks : mark \in ToSet(store) /\ Fresh(mark)
    BY DEF FreshMarks
  <2>2. ToSet(store) \subseteq Mark
    BY ToSetFinite DEF WebhookInv, StoreOK
  <2>3. QED
    BY <1>3, <2>1, <2>2, DuplicateIsMark DEF WebhookInv, StoreOK
<1>8. InStoreOrder(store')
  <2> SUFFICES ASSUME NEW i \in DOMAIN store', NEW j \in DOMAIN store', i < j
               PROVE  store'[i].event # store'[j].event /\ store'[i].at <= store'[j].at
    BY DEF InStoreOrder
  <2>1. i \in DOMAIN left /\ store'[i] = left[i]
    BY <1>6
  <2>2. CASE j \in DOMAIN left /\ store'[j] = left[j]
    BY <1>4, <2>1, <2>2 DEF InStoreOrder
  <2>3. CASE store'[j] = new
    <3>1. left[i] \in FreshMarks
      BY <1>4, <2>1 DEF ToSet
    <3>2. QED
      BY <1>5, <1>7, <2>1, <2>3, <3>1
  <2>4. QED
    BY <1>6, <2>2, <2>3
<1>9. StoreOK'
  <2>1. \A mark \in ToSet(store') : mark.at <= clock
    BY <1>4, <1>5, <1>6, <1>7
  <2>2. Len(store') <= MaxStore + 1
    BY <1>4, <1>6
  <2>3. ToSet(store)' = ToSet(store') /\ clock' = clock
    BY <1>3 DEF ToSet
  <2>4. QED
    BY <1>6, <1>8, <2>1, <2>2, <2>3 DEF StoreOK
<1>10. forgotten \subseteq forgotten' /\ forgotten' \subseteq Events
  BY <1>2, <1>7, MarkFields DEF WebhookInv, WebhookShape
<1>11. delivery'[d] = new /\ \A c \in Deliveries \ {d} : delivery'[c] = delivery[c]
  BY <1>3 DEF WebhookInv, WebhookShape
<1>12. WebhookShape'
  BY <1>3, <1>5, <1>10 DEF WebhookInv, WebhookShape
<1>13. \A c \in Deliveries : DeliveryOK(c)'
  BY <1>3, <1>5, <1>11 DEF WebhookInv, DeliveryOK
<1>14. MarksOK'
  <2> SUFFICES ASSUME prompt, NEW f \in Events, f \notin forgotten'
               PROVE  /\ \A c \in Running(f)' :
                           /\ Running(f)' = {c} /\ delivery'[c] \in ToSet(store')
                           /\ handled[f] # None => delivery'[c].at > handled[f] + TTL
                      /\ handled[f] # None =>
                           \/ clock > handled[f] + TTL
                           \/ [event |-> f, at |-> handled[f]] \in ToSet(store')
    BY <1>3 DEF MarksOK, ToSet
  <2>1. /\ \A c \in Running(f) :
             /\ Running(f) = {c} /\ delivery[c] \in ToSet(store)
             /\ handled[f] # None => delivery[c].at > handled[f] + TTL
        /\ handled[f] # None =>
             clock > handled[f] + TTL \/ [event |-> f, at |-> handled[f]] \in ToSet(store)
    BY <1>10 DEF WebhookInv, MarksOK
  <2>2. \A mark \in ToSet(store) :
          mark.event = f /\ Fresh(mark) => mark \in ToSet(store')
    BY <1>2, <1>6 DEF FreshMarks
  <2>3. \A c \in Running(f) : /\ c \in Deliveries /\ delivery[c] # NoEvent /\ delivery[c].event = f
                              /\ delivery[c] \in Mark
    BY DEF Running, WebhookInv, WebhookShape
  <2>4. ASSUME NEW c \in Running(f) PROVE Fresh(delivery[c]) /\ delivery[c] \in ToSet(store')
    <3>1. clock <= delivery[c].at + TTL /\ delivery[c].at \in Nat
      BY <2>3, MarkFields DEF WebhookInv, DeliveryOK
    <3>2. Fresh(delivery[c])
      BY <1>5, <3>1 DEF Fresh
    <3>3. QED
      BY <2>1, <2>2, <2>3, <3>2
  <2>5. handled[f] \in Time \cup {None} /\ (handled[f] # None => handled[f] \in Nat)
    BY DEF WebhookInv, WebhookShape, Time
  <2>6. handled[f] # None =>
          \/ clock > handled[f] + TTL
          \/ [event |-> f, at |-> handled[f]] \in ToSet(store) /\ Fresh([event |-> f, at |-> handled[f]])
    BY <1>5, <2>1, <2>5 DEF Fresh
  <2>7. handled[f] # None =>
          clock > handled[f] + TTL \/ [event |-> f, at |-> handled[f]] \in ToSet(store')
    BY <2>2, <2>6
  <2>8. CASE f = e
    <3>1. Running(e) = {}
      BY <1>3, <2>1, <2>3, <2>4, <2>8, DuplicateIsMark
    <3>2. Running(e)' = {d}
      <4>1. new # NoEvent
        BY <1>5 DEF NoEvent
      <4>2. QED
        BY <1>5, <1>11, <3>1, <4>1 DEF Running
    <3>3. handled[f] # None => clock > handled[f] + TTL
      BY <1>3, <2>6, <2>8, DuplicateIsMark
    <3>4. QED
      BY <1>5, <1>6, <1>11, <2>7, <2>8, <3>2, <3>3
  <2>9. CASE f # e
    <3>1. Running(f)' = Running(f) /\ d \notin Running(f)
      BY <1>3, <1>5, <1>11, <2>9 DEF Running
    <3>2. \A c \in Running(f) : delivery'[c] = delivery[c]
      BY <1>11, <2>3, <3>1
    <3>3. QED
      BY <2>1, <2>4, <2>7, <3>1, <3>2
  <2>10. QED
    BY <2>8, <2>9
<1>15. QED
  BY <1>9, <1>12, <1>13, <1>14 DEF WebhookInv

\* A handler that ends well leaves its mark where the next delivery looks.
LEMMA SucceedStep ==
  ASSUME WebhookInv, NEW d \in Deliveries, Succeed(d)
  PROVE  WebhookInv'
<1> USE WebhooksAssumption
<1>1. PICK e : e = delivery[d].event
  OBVIOUS
<1>2. PICK start : start = delivery[d].at
  OBVIOUS
<1>3. /\ delivery[d] # NoEvent /\ delivery[d] \in Mark /\ e \in Events /\ start \in Time
      /\ start \in Nat /\ start <= clock /\ delivery[d] = [event |-> e, at |-> start]
  BY <1>1, <1>2, MarkFields DEF Succeed, WebhookInv, WebhookShape, DeliveryOK, Mark
<1>4. /\ handled' = [handled EXCEPT ![e] = IF start > @ THEN start ELSE @]
      /\ acked' = acked \cup {e} /\ delivery' = [delivery EXCEPT ![d] = NoEvent]
      /\ UNCHANGED <<clock, store, forgotten, prompt, serial>>
  BY <1>1, <1>2 DEF Succeed
<1>5. /\ delivery'[d] = NoEvent /\ \A c \in Deliveries \ {d} : delivery'[c] = delivery[c]
      /\ \A f \in Events \ {e} : handled'[f] = handled[f]
      /\ handled'[e] = IF start > handled[e] THEN start ELSE handled[e]
  BY <1>3, <1>4 DEF WebhookInv, WebhookShape
<1>6. \A f : Running(f)' = Running(f) \ {d}
  BY <1>5 DEF Running
<1>7. \A f \in Events : handled[f] \in Time \cup {None} /\ (handled[f] # None => handled[f] \in Nat)
  BY DEF WebhookInv, WebhookShape, Time
<1>8. WebhookShape'
  <2>1. handled' \in [Events -> Time \cup {None}]
    BY <1>3, <1>4 DEF WebhookInv, WebhookShape
  <2>2. QED
    BY <1>3, <1>4, <2>1 DEF WebhookInv, WebhookShape
<1>9. StoreOK' /\ \A c \in Deliveries : DeliveryOK(c)'
  BY <1>4, <1>5 DEF WebhookInv, StoreOK, InStoreOrder, ToSet, DeliveryOK
<1>10. MarksOK'
  <2> SUFFICES ASSUME prompt, NEW f \in Events, f \notin forgotten
               PROVE  /\ \A c \in Running(f)' :
                           /\ Running(f)' = {c} /\ delivery'[c] \in ToSet(store)
                           /\ handled'[f] # None => delivery'[c].at > handled'[f] + TTL
                      /\ handled'[f] # None =>
                           \/ clock > handled'[f] + TTL
                           \/ [event |-> f, at |-> handled'[f]] \in ToSet(store)
    BY <1>4 DEF MarksOK, ToSet
  <2>1. /\ \A c \in Running(f) :
             /\ Running(f) = {c} /\ delivery[c] \in ToSet(store)
             /\ handled[f] # None => delivery[c].at > handled[f] + TTL
        /\ handled[f] # None =>
             clock > handled[f] + TTL \/ [event |-> f, at |-> handled[f]] \in ToSet(store)
    BY DEF WebhookInv, MarksOK
  <2>2. CASE f = e
    <3>1. d \in Running(e)
      BY <1>1, <1>3 DEF Running
    <3>2. Running(e)' = {}
      BY <1>6, <2>1, <2>2, <3>1
    <3>3. handled'[e] = start
      <4>1. handled[e] # None => start > handled[e] + TTL
        BY <1>2, <2>1, <2>2, <3>1
      <4>2. handled[e] # None => start > handled[e]
        BY <1>3, <1>7, <4>1
      <4>3. handled[e] = None => start > handled[e]
        BY <1>3 DEF None
      <4>4. QED
        BY <1>5, <4>2, <4>3
    <3>4. [event |-> e, at |-> start] \in ToSet(store)
      BY <1>3, <2>1, <2>2, <3>1
    <3>5. QED
      BY <2>2, <3>2, <3>3, <3>4
  <2>3. CASE f # e
    <3>1. d \notin Running(f)
      BY <1>1, <2>3 DEF Running
    <3>2. Running(f)' = Running(f) /\ handled'[f] = handled[f]
      BY <1>5, <1>6, <2>3, <3>1
    <3>3. \A c \in Running(f) : delivery'[c] = delivery[c]
      BY <1>5, <3>1 DEF Running
    <3>4. QED
      BY <2>1, <3>2, <3>3
  <2>4. QED
    BY <2>2, <2>3
<1>11. QED
  BY <1>8, <1>9, <1>10 DEF WebhookInv

\* A handler that fails takes away the mark of its event and no other.
LEMMA FailStep ==
  ASSUME WebhookInv, NEW d \in Deliveries, Fail(d)
  PROVE  WebhookInv'
<1> USE WebhooksAssumption
<1>1. PICK e : e = delivery[d].event
  OBVIOUS
<1>2. PICK others : others = {mark \in ToSet(store) : mark.event # e}
  OBVIOUS
<1>3. /\ delivery[d] # NoEvent /\ delivery[d] \in Mark /\ e \in Events
      /\ store' \in InOrder(store, others) /\ delivery' = [delivery EXCEPT ![d] = NoEvent]
      /\ UNCHANGED <<clock, acked, handled, forgotten, prompt, serial>>
  BY <1>1, <1>2, MarkFields DEF Fail, WebhookInv, WebhookShape
<1>4. /\ store' \in Seq(Mark) /\ Len(store') <= Len(store) /\ ToSet(store') = others
      /\ PicksFrom(store', store)
  <2>1. others \in SUBSET ToSet(store)
    BY <1>2
  <2>2. QED
    BY <1>3, <2>1, InOrderFacts DEF WebhookInv, StoreOK
<1>5. StoreOK'
  <2>1. InStoreOrder(store')
    BY <1>4, PicksInStoreOrder DEF WebhookInv, StoreOK
  <2>2. Len(store') <= MaxStore + 1
    BY <1>4, LenProperties DEF WebhookInv, StoreOK
  <2>3. \A mark \in ToSet(store') : mark.at <= clock
    BY <1>2, <1>4 DEF WebhookInv, StoreOK
  <2>4. QED
    BY <1>3, <1>4, <2>1, <2>2, <2>3 DEF StoreOK, ToSet, InStoreOrder
<1>6. delivery'[d] = NoEvent /\ \A c \in Deliveries \ {d} : delivery'[c] = delivery[c]
  BY <1>3 DEF WebhookInv, WebhookShape
<1>7. \A f : Running(f)' = Running(f) \ {d}
  BY <1>6 DEF Running
<1>8. WebhookShape' /\ \A c \in Deliveries : DeliveryOK(c)'
  BY <1>3, <1>6 DEF WebhookInv, WebhookShape, DeliveryOK
<1>9. MarksOK'
  <2> SUFFICES ASSUME prompt, NEW f \in Events, f \notin forgotten
               PROVE  /\ \A c \in Running(f)' :
                           /\ Running(f)' = {c} /\ delivery'[c] \in ToSet(store')
                           /\ handled[f] # None => delivery'[c].at > handled[f] + TTL
                      /\ handled[f] # None =>
                           \/ clock > handled[f] + TTL
                           \/ [event |-> f, at |-> handled[f]] \in ToSet(store')
    BY <1>3 DEF MarksOK, ToSet
  <2>1. /\ \A c \in Running(f) :
             /\ Running(f) = {c} /\ delivery[c] \in ToSet(store)
             /\ handled[f] # None => delivery[c].at > handled[f] + TTL
        /\ handled[f] # None =>
             clock > handled[f] + TTL \/ [event |-> f, at |-> handled[f]] \in ToSet(store)
    BY DEF WebhookInv, MarksOK
  <2>2. CASE f = e
    <3>1. d \in Running(e)
      BY <1>1, <1>3 DEF Running
    <3>2. Running(e)' = {}
      BY <1>7, <2>1, <2>2, <3>1
    <3>3. handled[e] # None => clock > handled[e] + TTL
      <4>1. handled[e] # None => delivery[d].at > handled[e] + TTL
        BY <2>1, <2>2, <3>1
      <4>2. delivery[d].at <= clock /\ delivery[d].at \in Nat /\ clock \in Nat
        BY <1>3, MarkFields DEF WebhookInv, WebhookShape, DeliveryOK, Time
      <4>3. handled[e] # None => handled[e] \in Nat
        BY <1>3 DEF WebhookInv, WebhookShape, Time
      <4>4. QED
        BY <4>1, <4>2, <4>3
    <3>4. QED
      BY <2>2, <3>2, <3>3
  <2>3. CASE f # e
    <3>1. d \notin Running(f)
      BY <1>1, <2>3 DEF Running
    <3>2. Running(f)' = Running(f)
      BY <1>7, <3>1
    <3>3. \A c \in Running(f) : delivery'[c] = delivery[c] /\ delivery[c].event = f
      BY <1>6, <3>1 DEF Running
    <3>4. \A mark \in ToSet(store) : mark.event = f => mark \in ToSet(store')
      BY <1>2, <1>4, <2>3
    <3>5. [event |-> f, at |-> handled[f]] \in ToSet(store) =>
            [event |-> f, at |-> handled[f]] \in ToSet(store')
      BY <3>4
    <3>6. QED
      BY <2>1, <3>2, <3>3, <3>4, <3>5
  <2>4. QED
    BY <2>2, <2>3
<1>10. QED
  BY <1>5, <1>8, <1>9 DEF WebhookInv

LEMMA WebhookStep == WebhookInv /\ [Next]_vars => WebhookInv'
<1> SUFFICES ASSUME WebhookInv, [Next]_vars PROVE WebhookInv'
  OBVIOUS
<1> USE WebhooksAssumption
<1>1. CASE Tick
  <2>1. /\ clock' = clock + 1 /\ clock \in Nat /\ clock' \in Time
        /\ prompt => \A d \in Deliveries : delivery[d] # NoEvent => clock < delivery[d].at + TTL
        /\ UNCHANGED <<store, delivery, acked, handled, forgotten, prompt, serial>>
    BY <1>1 DEF Tick, WebhookInv, WebhookShape, Time
  <2>2. \A mark \in ToSet(store) : mark.at \in Nat
    BY ToSetFinite, MarkFields DEF WebhookInv, StoreOK
  <2>3. StoreOK'
    BY <2>1, <2>2 DEF WebhookInv, StoreOK, InStoreOrder, ToSet
  <2>4. ASSUME NEW d \in Deliveries PROVE DeliveryOK(d)'
    <3>1. delivery[d] # NoEvent => delivery[d].at \in Nat
      BY MarkFields DEF WebhookInv, WebhookShape
    <3>2. QED
      BY <2>1, <3>1 DEF WebhookInv, DeliveryOK
  <2>5. \A f : Running(f)' = Running(f)
    BY <2>1 DEF Running
  <2>6. \A f \in Events : handled[f] # None => handled[f] \in Nat
    BY DEF WebhookInv, WebhookShape, Time
  <2>7. MarksOK'
    <3> SUFFICES ASSUME prompt, NEW f \in Events, f \notin forgotten
                 PROVE  /\ \A c \in Running(f) :
                             /\ Running(f) = {c} /\ delivery[c] \in ToSet(store)
                             /\ handled[f] # None => delivery[c].at > handled[f] + TTL
                        /\ handled[f] # None =>
                             \/ clock' > handled[f] + TTL
                             \/ [event |-> f, at |-> handled[f]] \in ToSet(store)
      BY <2>1, <2>5 DEF MarksOK, ToSet
    <3>1. /\ \A c \in Running(f) :
               /\ Running(f) = {c} /\ delivery[c] \in ToSet(store)
               /\ handled[f] # None => delivery[c].at > handled[f] + TTL
          /\ handled[f] # None =>
               clock > handled[f] + TTL \/ [event |-> f, at |-> handled[f]] \in ToSet(store)
      BY DEF WebhookInv, MarksOK
    <3>2. handled[f] # None /\ clock > handled[f] + TTL => clock' > handled[f] + TTL
      BY <2>1, <2>6
    <3>3. QED
      BY <3>1, <3>2
  <2>8. QED
    BY <2>1, <2>3, <2>4, <2>7 DEF WebhookInv, WebhookShape
<1>2. CASE Restart
  <2>1. /\ store' = << >> /\ delivery' = [d \in Deliveries |-> NoEvent] /\ forgotten' = Events
        /\ UNCHANGED <<clock, acked, handled, prompt, serial>>
    BY <1>2 DEF Restart
  <2>2. StoreOK'
    BY <2>1, EmptySeq DEF StoreOK, InStoreOrder, ToSet
  <2>3. QED
    BY <2>1, <2>2 DEF WebhookInv, WebhookShape, DeliveryOK, MarksOK
<1>3. ASSUME NEW e \in Events, Skip(e) PROVE WebhookInv'
  BY <1>3 DEF Skip, WebhookInv, WebhookShape, StoreOK, InStoreOrder, ToSet, DeliveryOK, MarksOK, Running
<1>4. CASE UNCHANGED vars
  BY <1>4 DEF vars, WebhookInv, WebhookShape, StoreOK, InStoreOrder, ToSet, DeliveryOK, MarksOK, Running
<1>5. QED
  BY <1>1, <1>2, <1>3, <1>4, DispatchStep, SucceedStep, FailStep DEF Next, Deliver

\* handleWebhook() keeps an event's mark for as long as the handler or the TTL needs it.
THEOREM WebhookInvariantHolds == Spec => []WebhookInv
<1>1. QED
  BY WebhookInitially, WebhookStep, PTL DEF Spec

\* While handlers settle before their mark expires, an event the process has not
\* forgotten has one handler at a time, and none within the TTL of a success.
THEOREM EventsHandledOnce == Spec => []OncePerTTL
<1>1. WebhookInv => OncePerTTL
  BY DEF WebhookInv, MarksOK, OncePerTTL
<1>2. QED
  BY <1>1, WebhookInvariantHolds, PTL

LEMMA WebhookInvTypes == WebhookInv => TypeOK
BY DEF WebhookInv, WebhookShape, StoreOK, InStoreOrder, TypeOK

-----------------------------------------------------------------------------
\* Idempotency.

\* The Map holds a key once.
KeysOnce(s) == \A i, j \in DOMAIN s : s[i].key = s[j].key => i = j

Entry == [key : Keys, left : 0..AnswerTTL]

KeyShape ==
  /\ answers \in Seq(Entry)
  /\ Len(answers) <= MaxSize + 1
  /\ KeysOnce(answers)
  /\ runs \in [Handlers -> [key : Keys, age : 0..AnswerTTL] \cup {Free}]
  /\ answerAge \in [Keys -> 0..AnswerTTL]
  /\ dropped \subseteq Keys
  /\ patient \in BOOLEAN

\* An answer younger than the TTL is in the Map, and expires with it, unless it
\* was dropped.
AnswersKept ==
  \A k \in Keys \ dropped :
    answerAge[k] < AnswerTTL =>
      [key |-> k, left |-> AnswerTTL - answerAge[k]] \in ToSet(answers)

\* Patient clients run one request for a key at a time.
RunsOK ==
  patient => \A h \in Handlers : runs[h] # Free =>
    /\ \A g \in Handlers : runs[g] # Free /\ runs[g].key = runs[h].key => g = h
    /\ runs[h].key \notin dropped => runs[h].age = AnswerTTL

KeyInv == KeyShape /\ AnswersKept /\ RunsOK

LEMMA KeyInitially == KeyInit => KeyInv
<1> SUFFICES ASSUME KeyInit PROVE KeyInv
  OBVIOUS
<1>1. answers \in Seq(Entry) /\ Len(answers) = 0 /\ DOMAIN answers = {}
  BY EmptySeq DEF KeyInit
<1>2. QED
  BY <1>1, IdempotencyAssumption DEF KeyInit, KeyInv, KeyShape, KeysOnce, AnswersKept, RunsOK

\* An entry as a record.
LEMMA EntryFields ==
  ASSUME NEW entry \in Entry
  PROVE  /\ entry = [key |-> entry.key, left |-> entry.left]
         /\ entry.key \in Keys /\ entry.left \in 0..AnswerTTL
BY DEF Entry

\* A selection of the Map holds a key once.
LEMMA PicksKeysOnce ==
  ASSUME NEW s \in Seq(Entry), NEW t \in Seq(Entry), KeysOnce(s), PicksFrom(t, s)
  PROVE  KeysOnce(t)
<1> SUFFICES ASSUME NEW i \in DOMAIN t, NEW j \in DOMAIN t, i < j, t[i].key = t[j].key
             PROVE  FALSE
  <2>1. DOMAIN t = 1..Len(t) /\ Len(t) \in Nat
    BY LenProperties
  <2>2. \A i, j \in DOMAIN t : i = j \/ i < j \/ j < i
    BY <2>1
  <2>3. QED
    BY <2>2 DEF KeysOnce
<1>1. PICK k, l \in DOMAIN s : k < l /\ s[k] = t[i] /\ s[l] = t[j]
  BY DEF PicksFrom
<1>2. k = l
  BY <1>1 DEF KeysOnce
<1>3. DOMAIN s = 1..Len(s) /\ Len(s) \in Nat
  BY LenProperties
<1>4. k \in 1..Len(s) /\ l \in 1..Len(s)
  BY <1>3
<1>5. QED
  BY <1>1, <1>2, <1>3, <1>4

\* Storing k's answer keeps the others.
LEMMA MapSetFacts ==
  ASSUME NEW s \in Seq(Entry), KeysOnce(s), Len(s) <= MaxSize, NEW k \in Keys,
         NEW entry, entry = [key |-> k, left |-> AnswerTTL]
  PROVE  /\ MapSet(s, k) \in Seq(Entry) /\ Len(MapSet(s, k)) <= MaxSize + 1
         /\ KeysOnce(MapSet(s, k)) /\ entry \in ToSet(MapSet(s, k))
         /\ \A other \in ToSet(s) : other.key # k => other \in ToSet(MapSet(s, k))
<1> USE IdempotencyAssumption
<1>0. AnswerTTL \in 0..AnswerTTL /\ entry \in Entry
  BY DEF Entry
<1>1. Len(s) \in Nat /\ DOMAIN s = 1..Len(s) /\ s \in [1..Len(s) -> Entry] /\ entry \in Entry
      /\ MaxSize \in Nat
  BY <1>0, LenProperties
<1>2. CASE k \in StoredKeys(s)
  <2>1. PICK t : t = [i \in DOMAIN s |-> IF s[i].key = k THEN entry ELSE s[i]]
    OBVIOUS
  <2>2. MapSet(s, k) = t
    BY <1>2, <2>1 DEF MapSet
  <2>3. t \in [1..Len(s) -> Entry]
    BY <1>1, <2>1
  <2>4. t \in Seq(Entry) /\ Len(t) = Len(s) /\ DOMAIN t = DOMAIN s
    BY <1>1, <2>3
  <2>5. \A i \in DOMAIN s : t[i].key = s[i].key
    BY <2>1
  <2>6. KeysOnce(t)
    BY <2>4, <2>5 DEF KeysOnce
  <2>7. PICK i \in DOMAIN s : s[i].key = k
    BY <1>2 DEF StoredKeys
  <2>8. entry \in ToSet(t)
    BY <2>1, <2>4, <2>7 DEF ToSet
  <2>9. ASSUME NEW other \in ToSet(s), other.key # k PROVE other \in ToSet(t)
    <3>1. PICK j \in DOMAIN s : s[j] = other
      BY DEF ToSet
    <3>2. t[j] = other
      BY <2>1, <2>9, <3>1
    <3>3. QED
      BY <2>4, <3>2 DEF ToSet
  <2>10. Len(t) <= MaxSize + 1
    BY <1>1, <2>4
  <2>11. QED
    BY <2>2, <2>4, <2>6, <2>8, <2>9, <2>10
<1>3. CASE k \notin StoredKeys(s)
  <2>1. PICK t : t = Append(s, entry)
    OBVIOUS
  <2>2. MapSet(s, k) = t
    BY <1>3, <2>1 DEF MapSet
  <2>3. /\ t \in Seq(Entry) /\ Len(t) = Len(s) + 1 /\ ToSet(t) = ToSet(s) \cup {entry}
        /\ \A i \in DOMAIN t : (i \in DOMAIN s /\ t[i] = s[i]) \/ (i = Len(s) + 1 /\ t[i] = entry)
    BY <1>1, <2>1, AppendFacts
  <2>4. \A i \in DOMAIN s : s[i].key # k
    BY <1>3 DEF StoredKeys
  <2>5. KeysOnce(t)
    <3> SUFFICES ASSUME NEW i \in DOMAIN t, NEW j \in DOMAIN t, t[i].key = t[j].key
                 PROVE  i = j
      BY DEF KeysOnce
    <3>1. CASE i \in DOMAIN s /\ t[i] = s[i] /\ j \in DOMAIN s /\ t[j] = s[j]
      BY <3>1 DEF KeysOnce
    <3>2. CASE i \in DOMAIN s /\ t[i] = s[i] /\ t[j] = entry
      BY <2>4, <3>2
    <3>3. CASE j \in DOMAIN s /\ t[j] = s[j] /\ t[i] = entry
      BY <2>4, <3>3
    <3>4. CASE i = Len(s) + 1 /\ j = Len(s) + 1
      BY <3>4
    <3>5. QED
      BY <2>3, <3>1, <3>2, <3>3, <3>4
  <2>6. Len(t) <= MaxSize + 1
    BY <1>1, <2>3
  <2>7. QED
    BY <2>2, <2>3, <2>5, <2>6
<1>4. QED
  BY <1>2, <1>3

\* The key of an unexpired answer tells it.
LEMMA OneAnswer ==
  ASSUME KeyShape, NEW m \in ToSet(answers), NEW n \in ToSet(answers), m.key = n.key
  PROVE  m = n
BY DEF KeyShape, KeysOnce, ToSet

\* A request that is let through finds no unexpired answer, and deletes none.
LEMMA BeginStep ==
  ASSUME KeyInv, NEW h \in Handlers, NEW k \in Keys, Begin(h, k)
  PROVE  KeyInv'
<1> USE IdempotencyAssumption
<1>1. PICK others : others = {entry \in ToSet(answers) : entry.key # k}
  OBVIOUS
<1>2. PICK new : new = [key |-> k, age |-> answerAge[k]]
  OBVIOUS
<1>3. /\ runs[h] = Free /\ (patient => \A g \in Handlers : runs[g].key # k)
      /\ \A i \in DOMAIN answers : answers[i].key = k => ~Unexpired(answers[i])
      /\ answers' \in InOrder(answers, others) /\ runs' = [runs EXCEPT ![h] = new]
      /\ UNCHANGED <<answerAge, dropped, patient>>
  BY <1>1, <1>2 DEF Begin
<1>4. /\ answers' \in Seq(Entry) /\ Len(answers') <= Len(answers) /\ ToSet(answers') = others
      /\ PicksFrom(answers', answers)
  <2>1. others \in SUBSET ToSet(answers)
    BY <1>1
  <2>2. QED
    BY <1>3, <2>1, InOrderFacts DEF KeyInv, KeyShape
<1>5. Len(answers') <= MaxSize + 1 /\ KeysOnce(answers')
  BY <1>4, LenProperties, PicksKeysOnce DEF KeyInv, KeyShape
<1>6. runs'[h] = new /\ \A g \in Handlers \ {h} : runs'[g] = runs[g]
  BY <1>3 DEF KeyInv, KeyShape
<1>7. new \in [key : Keys, age : 0..AnswerTTL]
  BY <1>2 DEF KeyInv, KeyShape
<1>8. KeyShape'
  BY <1>3, <1>4, <1>5, <1>7 DEF KeyInv, KeyShape, KeysOnce
<1>9. k \notin dropped => answerAge[k] = AnswerTTL
  <2> SUFFICES ASSUME k \notin dropped, answerAge[k] < AnswerTTL PROVE FALSE
    BY DEF KeyInv, KeyShape
  <2>1. PICK entry \in ToSet(answers) : entry = [key |-> k, left |-> AnswerTTL - answerAge[k]]
    BY DEF KeyInv, AnswersKept
  <2>2. entry.key = k /\ entry.left > 0
    BY <2>1 DEF KeyInv, KeyShape
  <2>3. QED
    BY <1>3, <2>2 DEF ToSet, Unexpired
<1>10. AnswersKept'
  <2> SUFFICES ASSUME NEW j \in Keys, j \notin dropped, answerAge[j] < AnswerTTL
               PROVE  [key |-> j, left |-> AnswerTTL - answerAge[j]] \in ToSet(answers')
    BY <1>3 DEF AnswersKept, ToSet
  <2>1. j # k
    BY <1>9 DEF KeyInv, KeyShape
  <2>2. [key |-> j, left |-> AnswerTTL - answerAge[j]] \in ToSet(answers)
    BY DEF KeyInv, AnswersKept
  <2>3. QED
    BY <1>1, <1>4, <2>1, <2>2
<1>11. RunsOK'
  <2> SUFFICES ASSUME patient, NEW g \in Handlers, runs'[g] # Free
               PROVE  /\ \A f \in Handlers : runs'[f] # Free /\ runs'[f].key = runs'[g].key => f = g
                      /\ runs'[g].key \notin dropped => runs'[g].age = AnswerTTL
    BY <1>3 DEF RunsOK
  <2>1. CASE g = h
    BY <1>2, <1>3, <1>6, <1>9, <2>1
  <2>2. CASE g # h
    BY <1>2, <1>3, <1>6, <2>2 DEF KeyInv, RunsOK
  <2>3. QED
    BY <2>1, <2>2
<1>12. QED
  BY <1>8, <1>10, <1>11 DEF KeyInv

\* Evicting and storing: what is not dropped stays, with the new answer.
LEMMA AnswerStep ==
  ASSUME KeyInv, NEW h \in Handlers, Answer(h)
  PROVE  KeyInv'
<1> USE IdempotencyAssumption
<1>1. PICK k : k = runs[h].key
  OBVIOUS
<1>2. PICK left \in Evicted :
        /\ answers' = MapSet(left, k)
        /\ dropped' = (dropped \cup {entry.key : entry \in UnexpiredAnswers \ ToSet(left)}) \ {k}
  BY <1>1 DEF Answer
<1>3. /\ runs[h] # Free /\ k \in Keys /\ answerAge' = [answerAge EXCEPT ![k] = 0]
      /\ runs' = [runs EXCEPT ![h] = Free] /\ UNCHANGED patient
  BY <1>1 DEF Answer, KeyInv, KeyShape
<1>4. /\ left \in Seq(Entry) /\ Len(left) <= MaxSize /\ ToSet(left) \subseteq UnexpiredAnswers
      /\ KeysOnce(left)
  <2>1. PICK whole \in InOrder(answers, UnexpiredAnswers) : left = Trimmed(whole, MaxSize)
    BY DEF Evicted
  <2>2. /\ whole \in Seq(Entry) /\ ToSet(whole) = UnexpiredAnswers /\ PicksFrom(whole, answers)
    <3>1. UnexpiredAnswers \in SUBSET ToSet(answers)
      BY DEF UnexpiredAnswers
    <3>2. QED
      BY <2>1, <3>1, InOrderFacts DEF KeyInv, KeyShape
  <2>3. /\ left \in Seq(Entry) /\ Len(left) <= MaxSize /\ ToSet(left) \subseteq ToSet(whole)
        /\ PicksFrom(left, whole)
    BY <2>1, <2>2, TrimmedFacts
  <2>4. PicksFrom(left, answers)
    BY <2>2, <2>3, PicksTwice
  <2>5. KeysOnce(left)
    BY <2>3, <2>4, PicksKeysOnce DEF KeyInv, KeyShape
  <2>6. QED
    BY <2>2, <2>3, <2>5
<1>5. /\ answers' \in Seq(Entry) /\ Len(answers') <= MaxSize + 1 /\ KeysOnce(answers')
      /\ [key |-> k, left |-> AnswerTTL] \in ToSet(answers')
      /\ \A other \in ToSet(left) : other.key # k => other \in ToSet(answers')
  BY <1>2, <1>3, <1>4, MapSetFacts
<1>6. \A entry \in UnexpiredAnswers : entry.key \in Keys
  <2>1. ToSet(answers) \subseteq Entry
    BY ToSetFinite DEF KeyInv, KeyShape
  <2>2. QED
    BY <2>1, EntryFields DEF UnexpiredAnswers
<1>7. KeyShape'
  BY <1>2, <1>3, <1>5, <1>6 DEF KeyInv, KeyShape, KeysOnce
<1>8. AnswersKept'
  <2> SUFFICES ASSUME NEW j \in Keys, j \notin dropped', answerAge'[j] < AnswerTTL
               PROVE  [key |-> j, left |-> AnswerTTL - answerAge'[j]] \in ToSet(answers')
    BY DEF AnswersKept, ToSet
  <2>1. CASE j = k
    <3>1. answerAge'[j] = 0
      BY <1>3, <2>1 DEF KeyInv, KeyShape
    <3>2. QED
      BY <1>5, <2>1, <3>1
  <2>2. CASE j # k
    <3>1. answerAge'[j] = answerAge[j] /\ j \notin dropped
      BY <1>2, <1>3, <2>2 DEF KeyInv, KeyShape
    <3>2. PICK entry \in ToSet(answers) : entry = [key |-> j, left |-> AnswerTTL - answerAge[j]]
      BY <3>1 DEF KeyInv, AnswersKept
    <3>3. entry \in UnexpiredAnswers /\ entry.key = j
      BY <3>1, <3>2 DEF UnexpiredAnswers, Unexpired, KeyInv, KeyShape
    <3>4. entry \in ToSet(left)
      BY <1>2, <2>2, <3>3
    <3>5. QED
      BY <1>5, <2>2, <3>1, <3>2, <3>3, <3>4
  <2>3. QED
    BY <2>1, <2>2
<1>9. runs'[h] = Free /\ \A g \in Handlers \ {h} : runs'[g] = runs[g]
  BY <1>3 DEF KeyInv, KeyShape
<1>10. RunsOK'
  <2> SUFFICES ASSUME patient, NEW g \in Handlers, runs'[g] # Free
               PROVE  /\ \A f \in Handlers : runs'[f] # Free /\ runs'[f].key = runs'[g].key => f = g
                      /\ runs'[g].key \notin dropped' => runs'[g].age = AnswerTTL
    BY <1>3 DEF RunsOK
  <2>1. g # h /\ runs'[g] = runs[g]
    BY <1>9
  <2>2. runs[g].key # k
    BY <1>1, <1>3, <2>1 DEF KeyInv, RunsOK
  <2>3. runs[g].key \notin dropped' => runs[g].key \notin dropped
    BY <1>2, <2>2
  <2>4. QED
    BY <1>9, <2>1, <2>3 DEF KeyInv, RunsOK
<1>11. QED
  BY <1>7, <1>8, <1>10 DEF KeyInv

\* The answers age as their keys do.
LEMMA KeyTickStep ==
  ASSUME KeyInv, KeyTick
  PROVE  KeyInv'
<1> USE IdempotencyAssumption
<1>1. /\ answers' = [i \in DOMAIN answers |-> [answers[i] EXCEPT !.left = IF @ > 0 THEN @ - 1 ELSE 0]]
      /\ answerAge' = [k \in Keys |-> IF answerAge[k] < AnswerTTL THEN answerAge[k] + 1 ELSE AnswerTTL]
      /\ UNCHANGED <<runs, dropped, patient>>
  BY DEF KeyTick
<1>2. Len(answers) \in Nat /\ DOMAIN answers = 1..Len(answers) /\ answers \in [1..Len(answers) -> Entry]
  BY LenProperties DEF KeyInv, KeyShape
<1>3. \A i \in 1..Len(answers) :
        /\ answers'[i] \in Entry /\ answers'[i].key = answers[i].key
        /\ answers'[i] = [key |-> answers[i].key,
                          left |-> IF answers[i].left > 0 THEN answers[i].left - 1 ELSE 0]
  <2> SUFFICES ASSUME NEW i \in 1..Len(answers)
               PROVE  /\ answers'[i] \in Entry /\ answers'[i].key = answers[i].key
                      /\ answers'[i] = [key |-> answers[i].key,
                                        left |-> IF answers[i].left > 0 THEN answers[i].left - 1 ELSE 0]
    OBVIOUS
  <2>1. answers'[i] = [answers[i] EXCEPT !.left = IF @ > 0 THEN @ - 1 ELSE 0]
    BY <1>1, <1>2
  <2>2. answers[i] = [key |-> answers[i].key, left |-> answers[i].left]
        /\ answers[i].key \in Keys /\ answers[i].left \in 0..AnswerTTL
    BY <1>2, EntryFields
  <2>3. answers'[i] = [key |-> answers[i].key,
                       left |-> IF answers[i].left > 0 THEN answers[i].left - 1 ELSE 0]
    BY <2>1, <2>2
  <2>4. QED
    BY <2>2, <2>3 DEF Entry
<1>4. answers' \in [1..Len(answers) -> Entry] /\ DOMAIN answers' = 1..Len(answers)
  BY <1>1, <1>2, <1>3
<1>5. answers' \in Seq(Entry) /\ Len(answers') = Len(answers)
  BY <1>2, <1>4
<1>6. KeysOnce(answers')
  BY <1>2, <1>3, <1>4 DEF KeyInv, KeyShape, KeysOnce
<1>7. answerAge' \in [Keys -> 0..AnswerTTL]
  BY <1>1 DEF KeyInv, KeyShape
<1>8. KeyShape'
  BY <1>1, <1>5, <1>6, <1>7 DEF KeyInv, KeyShape, KeysOnce
<1>9. AnswersKept'
  <2> SUFFICES ASSUME NEW k \in Keys, k \notin dropped, answerAge'[k] < AnswerTTL
               PROVE  [key |-> k, left |-> AnswerTTL - answerAge'[k]] \in ToSet(answers')
    BY <1>1 DEF AnswersKept, ToSet
  <2>1. answerAge[k] \in 0..AnswerTTL /\ answerAge[k] < AnswerTTL /\ answerAge'[k] = answerAge[k] + 1
    BY <1>1 DEF KeyInv, KeyShape
  <2>2. PICK i \in DOMAIN answers : answers[i] = [key |-> k, left |-> AnswerTTL - answerAge[k]]
    BY <2>1 DEF KeyInv, AnswersKept, ToSet
  <2>3. answers'[i] = [key |-> k, left |-> AnswerTTL - answerAge'[k]]
    BY <1>2, <1>3, <2>1, <2>2
  <2>4. QED
    BY <1>2, <1>4, <2>3 DEF ToSet
<1>10. QED
  BY <1>1, <1>8, <1>9 DEF KeyInv, RunsOK

LEMMA KeyStep == KeyInv /\ [KeyNext]_keyVars => KeyInv'
<1> SUFFICES ASSUME KeyInv, [KeyNext]_keyVars PROVE KeyInv'
  OBVIOUS
<1>1. ASSUME NEW h \in Handlers, EndUnstored(h) PROVE KeyInv'
  <2>1. runs' = [runs EXCEPT ![h] = Free] /\ UNCHANGED <<answers, answerAge, dropped, patient>>
    BY <1>1 DEF EndUnstored
  <2>2. runs'[h] = Free /\ \A g \in Handlers \ {h} : runs'[g] = runs[g]
    BY <2>1 DEF KeyInv, KeyShape
  <2>3. RunsOK'
    BY <2>1, <2>2 DEF KeyInv, RunsOK
  <2>4. QED
    BY <2>1, <2>3 DEF KeyInv, KeyShape, KeysOnce, AnswersKept, ToSet
<1>2. CASE KeyRestart
  <2>1. answers' = << >> /\ runs' = [h \in Handlers |-> Free] /\ dropped' = Keys
        /\ UNCHANGED <<answerAge, patient>>
    BY <1>2 DEF KeyRestart
  <2>2. answers' \in Seq(Entry) /\ Len(answers') = 0 /\ DOMAIN answers' = {}
    BY <2>1, EmptySeq
  <2>3. QED
    BY <2>1, <2>2, IdempotencyAssumption DEF KeyInv, KeyShape, KeysOnce, AnswersKept, RunsOK
<1>3. CASE UNCHANGED keyVars
  BY <1>3 DEF keyVars, KeyInv, KeyShape, KeysOnce, AnswersKept, RunsOK, ToSet
<1>4. QED
  BY <1>1, <1>2, <1>3, BeginStep, AnswerStep, KeyTickStep DEF KeyNext

\* IdempotencyGuard keeps the answer of a key that it has not dropped until it expires.
THEOREM KeyInvariantHolds == KeySpec => []KeyInv
<1>1. QED
  BY KeyInitially, KeyStep, PTL DEF KeySpec

\* Clients that await the answer to a key before they retry do not have its operation
\* run again within the TTL, unless the answer was dropped.
THEOREM OperationsRunOnce == KeySpec => []OneRunPerAnswer
<1>1. KeyInv => OneRunPerAnswer
  BY DEF KeyInv, RunsOK, OneRunPerAnswer
<1>2. QED
  BY <1>1, KeyInvariantHolds, PTL

LEMMA KeyInvTypes == KeyInv => KeyTypeOK
<1> SUFFICES ASSUME KeyInv PROVE KeyTypeOK
  OBVIOUS
<1>1. IsInjective([i \in DOMAIN answers |-> answers[i].key])
  BY DEF KeyInv, KeyShape, KeysOnce, IsInjective
<1>2. QED
  BY <1>1 DEF KeyInv, KeyShape, Entry, KeyTypeOK

\* A step of the module is one of either part.
LEMMA PartStep == [PartNext]_parts => [Next]_vars /\ [KeyNext]_keyVars
BY DEF PartNext, parts

\* The variables of both parts keep their types in the module that runs them.
THEOREM PaymentTypesHold == PartSpec => []PaymentTypesOK
<1>1. PartInit => WebhookInv /\ KeyInv
  BY WebhookInitially, KeyInitially DEF PartInit
<1>2. WebhookInv /\ KeyInv /\ [PartNext]_parts => WebhookInv' /\ KeyInv'
  BY PartStep, WebhookStep, KeyStep
<1>3. WebhookInv /\ KeyInv => PaymentTypesOK
  BY WebhookInvTypes, KeyInvTypes DEF PaymentTypesOK
<1>4. QED
  BY <1>1, <1>2, <1>3, PTL DEF PartSpec

\* A run that checks the combined instance checks behaviours of each part, so what
\* is proved of a part holds there.
THEOREM PartsAreSpecified == PartSpec => Spec /\ KeySpec
<1>1. PartInit => Init /\ KeyInit
  BY DEF PartInit
<1>2. QED
  BY <1>1, PartStep, PTL DEF PartSpec, Spec, KeySpec

=============================================================================
