--------------------------- MODULE EventLogProofs ---------------------------
(***************************************************************************)
(* The stream invariants of MongoEventStore, and the order in which a      *)
(* projection fed by EventReplay meets the events, hold for any number of  *)
(* appends, streams, events and positions.                                 *)
(*                                                                         *)
(* None of the stream invariants is inductive alone.  What makes them so   *)
(* is what an append in flight knows (InFlight): the version its second    *)
(* read returned is still a version of the stream, every event at or below *)
(* that version has a smaller position than the ones the append was        *)
(* handed, and the documents it has already inserted are its own.          *)
(*                                                                         *)
(* A projection's history is in order because each batch is sorted and     *)
(* lies beyond the checkpoint, and nothing handled before lies beyond it   *)
(* (ReplayInv).                                                            *)
(***************************************************************************)
EXTENDS EventReplay, SequenceTheorems, FiniteSetTheorems, TLAPS

\* The versions of a stream are 1..n for some n, without naming the last.
Contiguous ==
  \A s \in Streams : \E n \in Nat : Versions(s) = 1..n

\* No stored position is beyond the counter.
PositionsAllocated ==
  \A d \in events : d.position <= seq

\* What append w knows between its second read and its return.
InFlight(w) ==
  pc[w] \in {"allocate", "insert"} =>
    /\ base[w] = 0 \/ base[w] \in Versions(call[w].stream)
    /\ inserted[w] <= Len(positions[w])
    /\ Len(positions[w]) <= call[w].count
    /\ pc[w] = "insert" =>
         inserted[w] < call[w].count /\ Len(positions[w]) = call[w].count
    /\ pc[w] = "allocate" =>
         inserted[w] = 0 /\ Len(positions[w]) < call[w].count
    /\ \A i \in 1..Len(positions[w]) : positions[w][i] <= seq
    /\ \A i, j \in 1..Len(positions[w]) :
         i < j => positions[w][i] < positions[w][j]
    /\ \A i \in 1..inserted[w] : Doc(w, i) \in events
    /\ \A d \in events, i \in 1..Len(positions[w]) :
         d.stream = call[w].stream /\ d.version <= base[w] =>
           d.position < positions[w][i]

\* An append at its start has nothing yet.
Fresh(w) ==
  pc[w] \in {"check", "read"} => positions[w] = << >> /\ inserted[w] = 0

IInv ==
  /\ TypeOK
  /\ UniqueVersions
  /\ Contiguous
  /\ PositionOrder
  /\ PositionsAllocated
  /\ \A w \in Writers : InFlight(w) /\ Fresh(w)

-----------------------------------------------------------------------------

\* Latest(s) as a function of the versions of s.
LastOf(V) == IF V = {} THEN 0 ELSE CHOOSE m \in V : \A v \in V : v <= m

LEMMA LatestIsLastOf ==
  ASSUME NEW s
  PROVE  Latest(s) = LastOf(Versions(s)) /\ Latest(s)' = LastOf(Versions(s)')
BY DEF Latest, LastOf

LEMMA LastOfRange ==
  ASSUME NEW n \in Nat
  PROVE  LastOf(1..n) = n
<1> DEFINE V == 1..n
           m == CHOOSE m \in V : \A v \in V : v <= m
<1>1. CASE n = 0
  BY <1>1 DEF LastOf
<1>2. CASE n # 0
  <2>1. n \in V /\ \A v \in V : v <= n
    BY <1>2
  <2>2. m \in V /\ \A v \in V : v <= m
    <3> HIDE DEF V
    <3>1. QED
      BY <2>1, Zenon
  <2>3. m = n
    BY <2>1, <2>2
  <2>4. QED
    BY <2>1, <2>3 DEF LastOf
<1>3. QED
  BY <1>1, <1>2

\* The version of the last event of a stream whose versions are 1..n is n.
LEMMA LatestIsLast ==
  ASSUME NEW s, NEW n \in Nat, Versions(s) = 1..n
  PROVE  Latest(s) = n
BY LatestIsLastOf, LastOfRange

\* Contiguity in the form the runs check follows from the inductive form.
LEMMA ContiguousGivesLatest ==
  ASSUME Contiguous
  PROVE  /\ ContiguousVersions
         /\ \A s \in Streams : Latest(s) \in Nat
<1> SUFFICES ASSUME NEW s \in Streams
             PROVE  Versions(s) = 1..Latest(s) /\ Latest(s) \in Nat
  BY DEF ContiguousVersions
<1>1. PICK n \in Nat : Versions(s) = 1..n
  BY DEF Contiguous
<1>2. QED
  BY <1>1, LatestIsLast

\* Versions(s) names the stored versions of s.
LEMMA VersionsMember ==
  ASSUME NEW s, NEW v
  PROVE  v \in Versions(s) <=> \E d \in events : d.stream = s /\ d.version = v
BY DEF Versions

-----------------------------------------------------------------------------

\* Every append step keeps the variables in their types.
LEMMA TypePreserved ==
  ASSUME TypeOK, Contiguous, \A w \in Writers : InFlight(w), [Next]_vars
  PROVE  TypeOK'
<1> USE BoundsAssumption
<1>1. ASSUME NEW w \in Writers, NEW s \in Streams, NEW n \in 1..MaxBatch,
             NEW e \in 0..MaxSeq \cup {AnyVersion}, Begin(w, s, n, e)
      PROVE  TypeOK'
  BY <1>1 DEF TypeOK, Begin, Call, AnyVersion, Running, Returned
<1>2. ASSUME NEW w \in Writers, CheckVersion(w) PROVE TypeOK'
  BY <1>2 DEF TypeOK, CheckVersion, Running, Returned
<1>3. ASSUME NEW w \in Writers, ReadVersion(w) PROVE TypeOK'
  <2>1. Latest(call[w].stream) \in Nat
    BY ContiguousGivesLatest DEF TypeOK, Call
  <2>2. QED
    BY <1>3, <2>1 DEF TypeOK, ReadVersion, Running, Returned
<1>4. ASSUME NEW w \in Writers, AllocatePosition(w) PROVE TypeOK'
  BY <1>4 DEF TypeOK, AllocatePosition, Running, Returned
<1>5. ASSUME NEW w \in Writers, InsertDocument(w) PROVE TypeOK'
  <2>1. Doc(w, inserted[w] + 1) \in Document
    BY <1>5 DEF TypeOK, InsertDocument, InFlight, Doc, Document, Call
  <2>2. QED
    BY <1>5, <2>1 DEF TypeOK, InsertDocument, Running, Returned
<1>6. ASSUME NEW w \in Writers, RejectDuplicate(w) PROVE TypeOK'
  BY <1>6 DEF TypeOK, RejectDuplicate, Running, Returned
<1>7. ASSUME NEW w \in Writers, Abort(w) PROVE TypeOK'
  BY <1>7 DEF TypeOK, Abort, Running, Returned
<1>8. CASE UNCHANGED vars
  BY <1>8 DEF TypeOK, vars
<1>9. QED
  BY <1>1, <1>2, <1>3, <1>4, <1>5, <1>6, <1>7, <1>8 DEF Next, Step

\* A step that leaves the collection and the counter alone keeps what is said
\* of them.
LEMMA EventsUnchanged ==
  ASSUME IInv, UNCHANGED events, seq' \in Nat, seq' >= seq
  PROVE  UniqueVersions' /\ Contiguous' /\ PositionOrder' /\ PositionsAllocated'
<1>1. UniqueVersions' /\ PositionOrder'
  BY DEF IInv, UniqueVersions, PositionOrder
<1>2. Contiguous'
  BY DEF IInv, Contiguous, Versions
<1>3. PositionsAllocated'
  BY DEF IInv, TypeOK, PositionsAllocated, Document
<1>4. QED
  BY <1>1, <1>2, <1>3

\* A step of one append leaves what the others know intact, as long as it does
\* not touch the collection.
LEMMA OthersUnchanged ==
  ASSUME IInv, UNCHANGED events, seq' \in Nat, seq' >= seq, NEW v \in Writers,
         UNCHANGED <<pc[v], call[v], base[v], positions[v], inserted[v]>>
  PROVE  InFlight(v)' /\ Fresh(v)'
<1>1. InFlight(v) /\ Fresh(v)
  BY DEF IInv
<1>2. positions[v] \in Seq(Nat) /\ positions'[v] = positions[v]
  BY DEF IInv, TypeOK
<1>3. Fresh(v)'
  BY <1>1 DEF Fresh
<1>4. CASE pc[v] \in {"allocate", "insert"}
  <2>1. \A i \in 1..Len(positions[v]) : positions'[v][i] <= seq'
    <3>1. \A i \in 1..Len(positions[v]) :
            positions[v][i] <= seq /\ positions[v][i] \in Nat
      BY <1>1, <1>2, <1>4 DEF InFlight
    <3>2. QED
      BY <3>1, <1>2 DEF IInv, TypeOK
  <2>2. Versions(call[v].stream)' = Versions(call[v].stream)
    BY DEF Versions
  <2>3. \A i \in 1..inserted[v] : Doc(v, i)' \in events'
    BY <1>1, <1>4 DEF InFlight, Doc
  <2>4. InFlight(v)'
    BY <1>1, <1>4, <2>1, <2>2, <2>3 DEF InFlight
  <2>5. QED
    BY <1>3, <2>4
<1>5. CASE pc[v] \notin {"allocate", "insert"}
  BY <1>3, <1>5 DEF InFlight
<1>6. QED
  BY <1>3, <1>4, <1>5

LEMMA BeginPreserves ==
  ASSUME IInv, TypeOK', NEW w \in Writers, NEW s \in Streams,
         NEW n \in 1..MaxBatch, NEW e \in 0..MaxSeq \cup {AnyVersion},
         Begin(w, s, n, e)
  PROVE  IInv'
<1>1. UNCHANGED events /\ seq' \in Nat /\ seq' >= seq
  BY DEF Begin, IInv, TypeOK
<1>2. ASSUME NEW v \in Writers PROVE InFlight(v)' /\ Fresh(v)'
  <2>1. CASE v = w
    BY <2>1 DEF Begin, IInv, TypeOK, InFlight, Fresh
  <2>2. CASE v # w
    BY <2>2, <1>1, OthersUnchanged DEF Begin, IInv, TypeOK
  <2>3. QED BY <2>1, <2>2
<1>3. QED
  BY <1>1, <1>2, EventsUnchanged DEF IInv

LEMMA CheckVersionPreserves ==
  ASSUME IInv, TypeOK', NEW w \in Writers, CheckVersion(w)
  PROVE  IInv'
<1>1. UNCHANGED events /\ seq' \in Nat /\ seq' >= seq
  BY DEF CheckVersion, IInv, TypeOK
<1>2. ASSUME NEW v \in Writers PROVE InFlight(v)' /\ Fresh(v)'
  <2>1. CASE v = w
    BY <2>1 DEF CheckVersion, IInv, TypeOK, InFlight, Fresh
  <2>2. CASE v # w
    BY <2>2, <1>1, OthersUnchanged DEF CheckVersion, IInv, TypeOK
  <2>3. QED BY <2>1, <2>2
<1>3. QED
  BY <1>1, <1>2, EventsUnchanged DEF IInv

\* After the second read, base is 0 or a version of the stream.
LEMMA ReadVersionPreserves ==
  ASSUME IInv, TypeOK', NEW w \in Writers, ReadVersion(w)
  PROVE  IInv'
<1>1. UNCHANGED events /\ seq' \in Nat /\ seq' >= seq
  BY DEF ReadVersion, IInv, TypeOK
<1>2. ASSUME NEW v \in Writers PROVE InFlight(v)' /\ Fresh(v)'
  <2>1. CASE v = w
    <3> DEFINE s == call[w].stream
    <3>1. s \in Streams
      BY DEF IInv, TypeOK, Call
    <3>2. PICK n \in Nat : Versions(s) = 1..n
      BY <3>1 DEF IInv, Contiguous
    <3>3. Latest(s) = 0 \/ Latest(s) \in Versions(s)
      BY <3>2, LatestIsLast
    <3>4. positions[w] = << >> /\ inserted[w] = 0
      BY DEF ReadVersion, IInv, Fresh
    <3>5. /\ base'[w] = Latest(s) /\ call' = call /\ positions'[w] = << >>
          /\ inserted'[w] = 0 /\ pc'[w] = "allocate" /\ events' = events
      BY <3>4 DEF ReadVersion, IInv, TypeOK
    <3>6. base'[w] = 0 \/ base'[w] \in Versions(s)'
      BY <3>3, <3>5 DEF Versions
    <3>7. call[w].count \in Nat \ {0}
      BY BoundsAssumption DEF IInv, TypeOK, Call
    <3>8. QED
      BY <2>1, <3>5, <3>6, <3>7 DEF InFlight, Fresh
  <2>2. CASE v # w
    BY <2>2, <1>1, OthersUnchanged DEF ReadVersion, IInv, TypeOK
  <2>3. QED BY <2>1, <2>2
<1>3. QED
  BY <1>1, <1>2, EventsUnchanged DEF IInv

\* The position handed out is greater than every position in use.
LEMMA AllocatePositionPreserves ==
  ASSUME IInv, TypeOK', NEW w \in Writers, AllocatePosition(w)
  PROVE  IInv'
<1>1. UNCHANGED events /\ seq' \in Nat /\ seq' >= seq
  BY DEF AllocatePosition, IInv, TypeOK
<1>2. ASSUME NEW v \in Writers PROVE InFlight(v)' /\ Fresh(v)'
  <2>1. CASE v = w
    <3> DEFINE p == positions[w]
    <3>1. /\ p \in Seq(Nat) /\ seq \in Nat
          /\ positions'[w] = Append(p, seq + 1) /\ seq' = seq + 1
          /\ base' = base /\ call' = call /\ inserted' = inserted
          /\ call[w].count \in Nat /\ Len(p) \in Nat
      BY BoundsAssumption DEF AllocatePosition, IInv, TypeOK, Call
    <3>2. InFlight(w) /\ pc[w] = "allocate"
      BY DEF IInv, AllocatePosition
    <3>3. /\ Len(positions'[w]) = Len(p) + 1
          /\ positions'[w][Len(p) + 1] = seq + 1
          /\ \A i \in 1..Len(p) : positions'[w][i] = p[i] /\ p[i] \in Nat
      BY <3>1
    <3>4. pc'[w] = IF Len(p) + 1 = call[w].count THEN "insert" ELSE "allocate"
      BY DEF AllocatePosition, IInv, TypeOK
    <3>5. \A i \in 1..Len(positions'[w]) : positions'[w][i] <= seq'
      BY <3>1, <3>2, <3>3 DEF InFlight
    <3>6. \A i, j \in 1..Len(positions'[w]) :
            i < j => positions'[w][i] < positions'[w][j]
      BY <3>1, <3>2, <3>3 DEF InFlight
    <3>7. ASSUME NEW d \in events, NEW i \in 1..Len(positions'[w]),
                 d.stream = call[w].stream, d.version <= base[w]
          PROVE  d.position < positions'[w][i]
      <4>1. d.position <= seq /\ d.position \in Nat
        BY DEF IInv, TypeOK, PositionsAllocated, Document
      <4>2. CASE i = Len(p) + 1
        BY <4>1, <4>2, <3>1, <3>3
      <4>3. CASE i \in 1..Len(p)
        BY <4>3, <3>2, <3>3, <3>7 DEF InFlight
      <4>4. QED BY <4>2, <4>3, <3>1, <3>3
    <3>8. base'[w] = 0 \/ base'[w] \in Versions(call[w].stream)'
      BY <3>1, <3>2, <1>1 DEF InFlight, Versions
    <3>9. inserted[w] = 0
      BY <3>2 DEF InFlight
    <3>10. InFlight(w)'
      <4>1. /\ inserted'[w] = 0 /\ inserted'[w] <= Len(positions'[w])
            /\ Len(positions'[w]) <= call'[w].count
        BY <3>1, <3>2, <3>3, <3>9 DEF InFlight
      <4>2. pc'[w] = "insert" => inserted'[w] < call'[w].count
                                   /\ Len(positions'[w]) = call'[w].count
        BY <3>1, <3>2, <3>3, <3>4, <3>9 DEF InFlight
      <4>3. pc'[w] = "allocate" => inserted'[w] = 0
                                     /\ Len(positions'[w]) < call'[w].count
        BY <3>1, <3>2, <3>3, <3>4, <3>9 DEF InFlight
      <4>4. \A i \in 1..inserted'[w] : Doc(w, i)' \in events'
        BY <4>1
      <4>5. \A d \in events', i \in 1..Len(positions'[w]) :
              d.stream = call'[w].stream /\ d.version <= base'[w] =>
                d.position < positions'[w][i]
        BY <3>1, <3>7, <1>1
      <4>6. QED
        BY <4>1, <4>2, <4>3, <4>4, <4>5, <3>5, <3>6, <3>8 DEF InFlight
    <3>11. QED
      BY <3>4, <3>10, <2>1 DEF Fresh
  <2>2. CASE v # w
    BY <2>2, <1>1, OthersUnchanged DEF AllocatePosition, IInv, TypeOK
  <2>3. QED BY <2>1, <2>2
<1>3. QED
  BY <1>1, <1>2, EventsUnchanged DEF IInv

\* The document an inserting append stores next.
NextDoc(w) == Doc(w, inserted[w] + 1)

\* The document inserted next is the one right after the last of its stream:
\* this is where contiguity, uniqueness and the position order come from.
LEMMA NextDocument ==
  ASSUME IInv, NEW w \in Writers, InsertDocument(w),
         NEW n \in Nat, Versions(call[w].stream) = 1..n
  PROVE  /\ NextDoc(w) \in Document
         /\ NextDoc(w).stream = call[w].stream
         /\ NextDoc(w).version = n + 1
         /\ NextDoc(w).version = base[w] + inserted[w] + 1
         /\ NextDoc(w).position = positions[w][inserted[w] + 1]
         /\ NextDoc(w).position <= seq
         /\ \A e \in events : e.stream = call[w].stream =>
              e.version <= n /\ e.position < NextDoc(w).position
<1> DEFINE s == call[w].stream
           k == inserted[w] + 1
           p == positions[w]
           d == NextDoc(w)
<1>1. /\ s \in Streams /\ base[w] \in Nat /\ inserted[w] \in Nat
      /\ k \in Nat \ {0} /\ p \in Seq(Nat) /\ events \subseteq Document
  BY DEF IInv, TypeOK, Call
<1>2. InFlight(w) /\ pc[w] = "insert" /\ ~DuplicateKey(d)
  BY DEF IInv, InsertDocument, NextDoc
<1>3. k \in 1..Len(p) /\ p[k] \in Nat /\ p[k] <= seq
  BY <1>1, <1>2 DEF InFlight
<1>4. /\ d \in Document /\ d.stream = s /\ d.version = base[w] + k
      /\ d.position = p[k]
  BY <1>1, <1>3 DEF Doc, Document, NextDoc
<1>5. base[w] <= n
  BY <1>1, <1>2 DEF InFlight
<1>6. base[w] + inserted[w] <= n
  <2>1. CASE inserted[w] = 0
    BY <2>1, <1>1, <1>5
  <2>2. CASE inserted[w] # 0
    <3>1. Doc(w, inserted[w]) \in events
      BY <2>2, <1>1, <1>2 DEF InFlight
    <3>2. base[w] + inserted[w] \in Versions(s)
      BY <3>1, VersionsMember DEF Doc
    <3>3. QED BY <3>2
  <2>3. QED BY <2>1, <2>2
<1> HIDE DEF d
<1>7. d.version \notin Versions(s)
  <2>1. ASSUME d.version \in Versions(s) PROVE FALSE
    <3>1. \E e \in events : e.stream = s /\ e.version = d.version
      BY <2>1 DEF Versions
    <3>2. QED
      BY <3>1, <1>2, <1>4 DEF DuplicateKey
  <2>2. QED BY <2>1
<1>8. d.version = n + 1
  <2>1. base[w] + k \notin 1..n
    BY <1>4, <1>7
  <2>2. QED
    BY <2>1, <1>1, <1>4, <1>6
<1>9. ASSUME NEW e \in events, e.stream = s
      PROVE  e.version <= n /\ e.position < p[k]
  <2>1. e.version \in 1..n /\ e \in Document
    BY <1>1, <1>9, VersionsMember
  <2>2. CASE e.version <= base[w]
    BY <2>1, <2>2, <1>2, <1>3, <1>9 DEF InFlight
  <2>3. CASE e.version > base[w]
    <3> DEFINE i == e.version - base[w]
    <3>1. i \in 1..inserted[w] /\ e.version = base[w] + i
      BY <2>1, <2>3, <1>1, <1>4, <1>8
    <3>2. Doc(w, i) \in events
      BY <3>1, <1>2 DEF InFlight
    <3>3. /\ Doc(w, i).stream = e.stream /\ Doc(w, i).version = e.version
          /\ Doc(w, i).position = p[i]
      BY <3>1, <1>9 DEF Doc
    <3>4. e = Doc(w, i)
      BY <3>2, <3>3 DEF IInv, UniqueVersions
    <3>5. e.position = p[i]
      BY <3>3, <3>4
    <3>6. i \in 1..Len(p) /\ i < k
      BY <3>1, <1>1, <1>3
    <3>7. p[i] < p[k]
      BY <3>6, <1>2, <1>3 DEF InFlight
    <3>8. QED
      BY <2>1, <3>5, <3>7
  <2>4. QED
    BY <2>1, <2>2, <2>3, <1>1, <1>9 DEF Document
<1>10. QED
  BY <1>1, <1>3, <1>4, <1>8, <1>9 DEF d

LEMMA InsertDocumentPreserves ==
  ASSUME IInv, TypeOK', NEW w \in Writers, InsertDocument(w)
  PROVE  IInv'
<1> DEFINE d == NextDoc(w)
<1>0. PICK s \in Streams : s = call[w].stream
  BY DEF IInv, TypeOK, Call
<1>1. events \subseteq Document
  BY DEF IInv, TypeOK
<1>2. PICK n \in Nat : Versions(s) = 1..n
  BY DEF IInv, Contiguous
<1>3. /\ d \in Document /\ d.stream = s /\ d.version = n + 1
      /\ d.version = base[w] + inserted[w] + 1 /\ d.position <= seq
      /\ \A e \in events : e.stream = d.stream =>
           e.version <= n /\ e.position < d.position
  BY <1>0, <1>2, NextDocument
<1>4. events' = events \cup {d} /\ UNCHANGED <<seq, call, base, positions>>
  BY DEF InsertDocument, NextDoc
<1> HIDE DEF d
<1>5. UniqueVersions'
  BY <1>1, <1>3, <1>4 DEF IInv, UniqueVersions, Document
<1>6. PositionOrder'
  BY <1>1, <1>3, <1>4 DEF IInv, PositionOrder, Document
<1>7. PositionsAllocated'
  BY <1>1, <1>3, <1>4 DEF IInv, PositionsAllocated
<1>8. Versions(s)' = 1..(n + 1)
  <2>1. Versions(s)' = Versions(s) \cup {d.version}
    BY <1>3, <1>4 DEF Versions
  <2>2. QED
    BY <2>1, <1>2, <1>3
<1>9. \A t \in Streams \ {s} : Versions(t)' = Versions(t)
  BY <1>3, <1>4 DEF Versions
<1>10. Contiguous'
  <2>1. ASSUME NEW t \in Streams PROVE \E m \in Nat : Versions(t)' = 1..m
    <3>1. CASE t = s
      BY <3>1, <1>8
    <3>2. CASE t # s
      BY <3>2, <1>9 DEF IInv, Contiguous
    <3>3. QED BY <3>1, <3>2
  <2>2. QED
    BY <2>1 DEF Contiguous, Versions
<1>11. ASSUME NEW v \in Writers PROVE InFlight(v)' /\ Fresh(v)'
  <2>1. CASE v = w
    <3> DEFINE k == inserted[w] + 1
    <3>1. /\ inserted[w] \in Nat /\ inserted'[w] = k
          /\ base[w] \in Nat /\ positions[w] \in Seq(Nat)
          /\ pc'[w] = IF k = call[w].count THEN "ok" ELSE "insert"
          /\ call[w].count \in Nat
      BY DEF InsertDocument, IInv, TypeOK, Call
    <3>2. InFlight(w) /\ pc[w] = "insert"
      BY DEF IInv, InsertDocument
    <3>3. base[w] = 0 \/ base[w] \in Versions(s)'
      BY <1>0, <1>2, <1>8, <3>2 DEF InFlight
    <3>4. \A i \in 1..k : Doc(w, i) \in events'
      BY <1>4, <3>1, <3>2 DEF InFlight, d, NextDoc
    <3>5. \A e \in events', i \in 1..Len(positions[w]) :
            e.stream = s /\ e.version <= base[w] => e.position < positions[w][i]
      <4>1. ASSUME NEW e \in events, e.stream = s, e.version <= base[w],
                   NEW i \in 1..Len(positions[w])
            PROVE  e.position < positions[w][i]
        BY <1>0, <3>2, <4>1 DEF InFlight
      <4>2. ~(d.version <= base[w])
        BY <1>3, <3>1
      <4>3. QED
        BY <1>4, <4>1, <4>2
    <3>6. \A i \in 1..k : Doc(w, i)' = Doc(w, i)
      BY <1>4 DEF Doc
    <3>7. Versions(call[w].stream)' = Versions(s)'
      BY <1>0, <1>4 DEF Versions
    <3>8. CASE pc'[w] = "ok"
      BY <2>1, <3>8 DEF InFlight, Fresh
    <3>9. CASE pc'[w] = "insert"
      <4>1. k < call[w].count /\ Len(positions[w]) = call[w].count
        BY <3>1, <3>2, <3>9 DEF InFlight
      <4>2. \A i \in 1..inserted'[w] : Doc(w, i)' \in events'
        BY <3>1, <3>4, <3>6
      <4>3. InFlight(w)'
        BY <1>0, <1>4, <3>1, <3>2, <3>3, <3>5, <3>7, <3>9, <4>1, <4>2 DEF InFlight
      <4>4. QED
        BY <2>1, <3>9, <4>3 DEF Fresh
    <3>10. QED
      BY <3>1, <3>8, <3>9
  <2>2. CASE v # w
    <3>0. PICK t \in Streams : t = call[v].stream
      BY DEF IInv, TypeOK, Call
    <3>1. /\ InFlight(v) /\ Fresh(v)
          /\ pc'[v] = pc[v] /\ inserted'[v] = inserted[v] /\ base[v] \in Nat
      BY <2>2 DEF IInv, InsertDocument, TypeOK, Call
    <3>2. Fresh(v)'
      BY <1>4, <3>1 DEF Fresh
    <3>3. CASE pc[v] \in {"allocate", "insert"}
      <4>1. base[v] = 0 \/ base[v] \in Versions(t)'
        BY <1>2, <1>8, <1>9, <3>0, <3>1, <3>3 DEF InFlight
      <4>2. ASSUME t = s PROVE base[v] <= n
        BY <1>2, <3>0, <3>1, <3>3, <4>2 DEF InFlight
      <4>3. \A e \in events', i \in 1..Len(positions[v]) :
              e.stream = t /\ e.version <= base[v] => e.position < positions[v][i]
        BY <1>3, <1>4, <3>0, <3>1, <3>3, <4>2 DEF InFlight
      <4>4. \A i \in 1..inserted[v] : Doc(v, i)' \in events'
        BY <1>4, <3>1, <3>3 DEF InFlight, Doc
      <4>5. Versions(call[v].stream)' = Versions(t)'
        BY <1>4, <3>0 DEF Versions
      <4>6. InFlight(v)'
        BY <1>4, <3>0, <3>1, <3>3, <4>1, <4>3, <4>4, <4>5 DEF InFlight
      <4>7. QED BY <3>2, <4>6
    <3>4. CASE pc[v] \notin {"allocate", "insert"}
      BY <3>1, <3>2, <3>4 DEF InFlight
    <3>5. QED BY <3>3, <3>4
  <2>3. QED BY <2>1, <2>2
<1>12. QED
  BY <1>5, <1>6, <1>7, <1>10, <1>11 DEF IInv

\* An append that ends without storing anything disturbs nothing.
LEMMA EndPreserves ==
  ASSUME IInv, TypeOK', NEW w \in Writers, RejectDuplicate(w) \/ Abort(w)
  PROVE  IInv'
<1>1. UNCHANGED events /\ seq' \in Nat /\ seq' >= seq
  BY DEF RejectDuplicate, Abort, IInv, TypeOK
<1>2. ASSUME NEW v \in Writers PROVE InFlight(v)' /\ Fresh(v)'
  <2>1. CASE v = w
    BY <2>1 DEF RejectDuplicate, Abort, IInv, TypeOK, InFlight, Fresh
  <2>2. CASE v # w
    BY <2>2, <1>1, OthersUnchanged DEF RejectDuplicate, Abort, IInv, TypeOK
  <2>3. QED BY <2>1, <2>2
<1>3. QED
  BY <1>1, <1>2, EventsUnchanged DEF IInv

-----------------------------------------------------------------------------

LEMMA IInvInit == Init => IInv
<1> SUFFICES ASSUME Init PROVE IInv
  OBVIOUS
<1>1. NoCall \in Call
  BY BoundsAssumption DEF NoCall, Call
<1>2. TypeOK
  BY <1>1 DEF Init, TypeOK, Returned
<1>3. UniqueVersions /\ PositionOrder /\ PositionsAllocated
  BY DEF Init, UniqueVersions, PositionOrder, PositionsAllocated
<1>4. \A s \in Streams : Versions(s) = 1..0
  BY DEF Init, Versions
<1>5. Contiguous
  BY <1>4 DEF Contiguous
<1>6. \A w \in Writers : InFlight(w) /\ Fresh(w)
  BY DEF Init, InFlight, Fresh
<1>7. QED
  BY <1>2, <1>3, <1>5, <1>6 DEF IInv

LEMMA IInvStep == IInv /\ [Next]_vars => IInv'
<1> SUFFICES ASSUME IInv, [Next]_vars PROVE IInv'
  OBVIOUS
<1>1. TypeOK'
  BY TypePreserved DEF IInv
<1>2. ASSUME NEW w \in Writers, NEW s \in Streams, NEW n \in 1..MaxBatch,
             NEW e \in 0..MaxSeq \cup {AnyVersion}, Begin(w, s, n, e)
      PROVE  IInv'
  BY <1>1, <1>2, BeginPreserves
<1>3. ASSUME NEW w \in Writers, Step(w) PROVE IInv'
  <2>1. CASE CheckVersion(w)
    BY <1>1, <2>1, CheckVersionPreserves
  <2>2. CASE ReadVersion(w)
    BY <1>1, <2>2, ReadVersionPreserves
  <2>3. CASE AllocatePosition(w)
    BY <1>1, <2>3, AllocatePositionPreserves
  <2>4. CASE InsertDocument(w)
    BY <1>1, <2>4, InsertDocumentPreserves
  <2>5. CASE RejectDuplicate(w)
    BY <1>1, <2>5, EndPreserves
  <2>6. QED
    BY <1>3, <2>1, <2>2, <2>3, <2>4, <2>5 DEF Step
<1>4. ASSUME NEW w \in Writers, Abort(w) PROVE IInv'
  BY <1>1, <1>4, EndPreserves
<1>5. CASE UNCHANGED vars
  <2>1. UNCHANGED events /\ seq' \in Nat /\ seq' >= seq
    BY <1>5 DEF vars, IInv, TypeOK
  <2>2. \A v \in Writers : InFlight(v)' /\ Fresh(v)'
    BY <1>5, <2>1, OthersUnchanged DEF vars
  <2>3. QED
    BY <1>1, <2>1, <2>2, EventsUnchanged DEF IInv
<1>6. QED
  BY <1>2, <1>3, <1>4, <1>5 DEF Next

\* The inductive invariant holds of every behaviour of the event store.
THEOREM InvariantHolds == Spec => []IInv
<1>1. QED
  BY IInvInit, IInvStep, PTL DEF Spec

\* Type correctness, for every number of appends, streams and events.
THEOREM TypeCorrect == Spec => []TypeOK
<1>1. IInv => TypeOK
  BY DEF IInv
<1>2. QED
  BY <1>1, InvariantHolds, PTL

\* A stream of n events has the versions 1..n, one event each: appends that
\* read the same stream version cannot both store their first event, and an
\* append that lost a race or died half way leaves no gap.
THEOREM VersionsAreDense == Spec => []DenseVersions
<1>1. IInv => DenseVersions
  BY ContiguousGivesLatest DEF IInv, DenseVersions
<1>2. QED
  BY <1>1, InvariantHolds, PTL

\* Version order and global position order agree within a stream, although
\* positions are allocated before the inserts and outside of them.
THEOREM PositionsFollowVersions == Spec => []PositionOrder
<1>1. IInv => PositionOrder
  BY DEF IInv
<1>2. QED
  BY <1>1, InvariantHolds, PTL

-----------------------------------------------------------------------------

\* An append that has returned keeps its documents: they enter the collection
\* while it inserts, and nothing leaves the collection.
LEMMA AcknowledgedStep ==
  ASSUME IInv, AcknowledgedStays, [Next]_vars
  PROVE  AcknowledgedStays'
<1> SUFFICES ASSUME NEW w \in Writers, pc'[w] = "ok", NEW i \in 1..call'[w].count
             PROVE  Doc(w, i)' \in events'
  BY DEF AcknowledgedStays
<1>1. CASE pc[w] = "ok" /\ UNCHANGED <<call[w], base[w], positions[w]>>
  <2>1. events \subseteq events'
    BY DEF Next, Step, Begin, CheckVersion, ReadVersion, AllocatePosition,
           InsertDocument, RejectDuplicate, Abort, vars
  <2>2. Doc(w, i)' = Doc(w, i)
    BY <1>1 DEF Doc
  <2>3. QED
    BY <1>1, <2>1, <2>2 DEF AcknowledgedStays
<1>2. CASE InsertDocument(w)
  <2>1. /\ inserted[w] + 1 = call[w].count /\ UNCHANGED <<call, base, positions>>
        /\ events' = events \cup {Doc(w, inserted[w] + 1)}
    BY <1>2 DEF InsertDocument, IInv, TypeOK
  <2>2. \A k \in 1..inserted[w] : Doc(w, k) \in events
    BY <1>2 DEF InsertDocument, IInv, InFlight
  <2>3. inserted[w] \in Nat /\ Doc(w, i)' = Doc(w, i)
    BY <2>1 DEF IInv, TypeOK, Doc
  <2>4. QED
    BY <2>1, <2>2, <2>3
<1>3. QED
  BY <1>1, <1>2 DEF IInv, TypeOK, Next, Step, Begin, CheckVersion, ReadVersion,
     AllocatePosition, InsertDocument, RejectDuplicate, Abort, vars

\* An append that returned without an error has all its events in the store,
\* now and for ever, whatever concurrent and later appends do.
THEOREM AcknowledgedIsStored == Spec => []AcknowledgedStays
<1>1. Init => AcknowledgedStays
  BY DEF Init, AcknowledgedStays
<1>2. QED
  BY <1>1, AcknowledgedStep, InvariantHolds, PTL DEF Spec

-----------------------------------------------------------------------------

\* Uniqueness makes PositionAt the position of the event at a version.
LEMMA PositionOfEvent ==
  ASSUME UniqueVersions, NEW d \in events
  PROVE  PositionAt(d.stream, d.version) = d.position
<1> DEFINE P(e) == e.stream = d.stream /\ e.version = d.version
<1>1. P(CHOOSE e \in events : P(e)) /\ (CHOOSE e \in events : P(e)) \in events
  <2>1. P(d)
    OBVIOUS
  <2> HIDE DEF P
  <2>2. QED
    BY <2>1, Zenon
<1>2. (CHOOSE e \in events : P(e)) = d
  BY <1>1 DEF UniqueVersions
<1>3. QED
  BY <1>2 DEF PositionAt

\* The positions seen in a stream rise with the versions.
LEMMA ViewRises ==
  ASSUME IInv, NEW s \in Streams
  PROVE  \A i, j \in 1..Latest(s) :
           /\ PositionAt(s, i) \in Nat
           /\ i < j => PositionAt(s, i) < PositionAt(s, j)
<1>1. Versions(s) = 1..Latest(s)
  BY ContiguousGivesLatest DEF IInv, ContiguousVersions
<1>2. ASSUME NEW i \in 1..Latest(s), NEW j \in 1..Latest(s)
      PROVE  /\ PositionAt(s, i) \in Nat
             /\ i < j => PositionAt(s, i) < PositionAt(s, j)
  <2>1. PICK d \in events : d.stream = s /\ d.version = i
    BY <1>1, VersionsMember
  <2>2. PICK e \in events : e.stream = s /\ e.version = j
    BY <1>1, VersionsMember
  <2>3. PositionAt(s, i) = d.position /\ PositionAt(s, j) = e.position
    BY <2>1, <2>2, PositionOfEvent DEF IInv
  <2>4. d.position \in Nat
    BY DEF IInv, TypeOK, Document
  <2>5. QED
    BY <2>1, <2>2, <2>3, <2>4 DEF IInv, PositionOrder
<1>3. QED
  BY <1>2

\* A step that leaves the collection alone is not seen by a reader.
LEMMA ViewUnchanged ==
  ASSUME UNCHANGED events
  PROVE  View' = View
<1>1. \A s : Versions(s)' = Versions(s)
  BY DEF Versions
<1>2. \A s : Latest(s)' = Latest(s)
  BY <1>1, LatestIsLastOf
<1>3. \A s, v : PositionAt(s, v)' = PositionAt(s, v)
  BY DEF PositionAt
<1>4. QED
  BY <1>2, <1>3 DEF View

\* An inserted document is seen as one event more at the end of its stream.
LEMMA InsertExtends ==
  ASSUME IInv, IInv', NEW w \in Writers, InsertDocument(w)
  PROVE  Streamed!Next
<1>0. PICK s \in Streams : s = call[w].stream
  BY DEF IInv, TypeOK, Call
<1>1. PICK n \in Nat : Latest(s) = n /\ Versions(s) = 1..n
  BY ContiguousGivesLatest DEF IInv, ContiguousVersions
<1>2. PICK d \in Document : d = NextDoc(w)
  BY <1>0, <1>1, NextDocument
<1>3. events' = events \cup {d} /\ events \subseteq Document
  BY <1>2 DEF InsertDocument, NextDoc, IInv, TypeOK
<1>4. /\ d.stream = s /\ d.version = n + 1
      /\ \A e \in events : e.stream = s => e.position < d.position
  BY <1>0, <1>1, <1>2, NextDocument
<1>5. ASSUME NEW e \in events
      PROVE  PositionAt(e.stream, e.version)' = PositionAt(e.stream, e.version)
  <2>1. UniqueVersions /\ UniqueVersions' /\ e \in events'
    BY <1>3 DEF IInv
  <2>2. PositionAt(e.stream, e.version) = e.position
    BY <2>1, PositionOfEvent
  <2>3. \A c \in events' : (c.stream = e.stream /\ c.version = e.version) => c = e
    BY <2>1 DEF UniqueVersions
  <2> DEFINE P(c) == c.stream = e.stream /\ c.version = e.version
  <2>4. (CHOOSE c \in events' : P(c)) \in events' /\ P(CHOOSE c \in events' : P(c))
    <3>1. P(e)
      OBVIOUS
    <3> HIDE DEF P
    <3>2. QED
      BY <2>1, <3>1, Zenon
  <2>5. (CHOOSE c \in events' : P(c)) = e
    BY <2>3, <2>4
  <2>6. PositionAt(e.stream, e.version)' = e.position
    BY <2>5 DEF PositionAt
  <2>7. QED
    BY <2>2, <2>6
<1>6. ASSUME NEW t \in Streams, NEW v \in 1..Latest(t)
      PROVE  PositionAt(t, v)' = PositionAt(t, v)
  <2>1. v \in Versions(t)
    BY ContiguousGivesLatest DEF IInv, ContiguousVersions
  <2>2. PICK e \in events : e.stream = t /\ e.version = v
    BY <2>1, VersionsMember
  <2>3. QED
    BY <2>2, <1>5
<1>7. Versions(s)' = 1..(n + 1) /\ Latest(s)' = n + 1
  <2>1. Versions(s)' = Versions(s) \cup {n + 1}
    BY <1>3, <1>4 DEF Versions
  <2>2. Versions(s)' = 1..(n + 1)
    BY <1>1, <2>1
  <2>3. QED
    BY <1>1, <2>2, LatestIsLastOf, LastOfRange
<1>8. \A t \in Streams \ {s} : Latest(t)' = Latest(t)
  <2>1. \A t \in Streams \ {s} : Versions(t)' = Versions(t)
    BY <1>3, <1>4 DEF Versions
  <2>2. QED
    BY <2>1, LatestIsLastOf
<1>9. \A t \in Streams \ {s} : View'[t] = View[t]
  BY <1>6, <1>8 DEF View
<1>10. PositionAt(s, n + 1)' = d.position
  <2>1. d \in events' /\ UniqueVersions'
    BY <1>3 DEF IInv
  <2> DEFINE P(c) == c.stream = s /\ c.version = n + 1
  <2>2. (CHOOSE c \in events' : P(c)) \in events' /\ P(CHOOSE c \in events' : P(c))
    <3>1. P(d)
      BY <1>4
    <3> HIDE DEF P
    <3>2. QED
      BY <2>1, <3>1, Zenon
  <2>3. (CHOOSE c \in events' : P(c)) = d
    BY <1>4, <2>1, <2>2 DEF UniqueVersions
  <2>4. QED
    BY <2>3 DEF PositionAt
<1>11. /\ View[s] = [v \in 1..n |-> PositionAt(s, v)]
       /\ View'[s] = [v \in 1..(n + 1) |-> PositionAt(s, v)']
  BY <1>1, <1>7 DEF View
<1>12. \A i, j \in 1..(n + 1) : i < j => PositionAt(s, i)' < PositionAt(s, j)'
  <2>1. \A i \in 1..n : PositionAt(s, i)' < d.position
    <3>1. ASSUME NEW i \in 1..n PROVE PositionAt(s, i)' < d.position
      <4>1. PICK e \in events : e.stream = s /\ e.version = i
        BY <1>1, VersionsMember
      <4>2. PositionAt(s, i) = e.position
        BY <4>1, PositionOfEvent DEF IInv
      <4>3. QED
        BY <1>1, <1>4, <1>6, <4>1, <4>2
    <3>2. QED
      BY <3>1
  <2>2. \A i, j \in 1..n : i < j => PositionAt(s, i)' < PositionAt(s, j)'
    BY <1>1, <1>6, ViewRises
  <2>3. QED
    BY <1>1, <1>10, <2>1, <2>2
<1>13. Streamed!Extend(s)
  <2>1. Len(View[s]) = n /\ Len(View'[s]) = n + 1
    BY <1>1, <1>11
  <2>2. SubSeq(View'[s], 1, n) = View[s]
    <3>1. SubSeq(View'[s], 1, n) = [v \in 1..n |-> View'[s][v]]
      BY <1>1, <2>1
    <3>2. \A v \in 1..n : View'[s][v] = PositionAt(s, v)
      BY <1>1, <1>6, <1>11
    <3>3. QED
      BY <1>11, <3>1, <3>2
  <2>3. Streamed!Rising(View'[s])
    BY <1>11, <1>12 DEF Streamed!Rising
  <2>4. QED
    BY <1>1, <1>9, <2>1, <2>2, <2>3 DEF Streamed!Extend
<1>14. QED
  BY <1>1, <1>13 DEF Streamed!Next

\* Whatever the appends do to each other, readers see streams that only grow at
\* their end, with rising positions.
THEOREM ImplementsLog == Spec => ImplementsStreamLog
<1>1. Init => Streamed!Init
  <2>1. SUFFICES ASSUME Init PROVE Streamed!Init
    OBVIOUS
  <2>2. \A s \in Streams : Latest(s) = 0
    BY <2>1 DEF Init, Versions, Latest
  <2>3. View = [s \in Streams |-> << >>]
    BY <2>2 DEF View
  <2>4. QED
    BY <2>3 DEF Streamed!Init
<1>2. IInv /\ IInv' /\ [Next]_vars => [Streamed!Next]_View
  <2>1. SUFFICES ASSUME IInv, IInv', [Next]_vars
                 PROVE  Streamed!Next \/ UNCHANGED View
    OBVIOUS
  <2>2. CASE \E w \in Writers : InsertDocument(w)
    BY <2>1, <2>2, InsertExtends
  <2>3. CASE UNCHANGED events
    BY <2>3, ViewUnchanged
  <2>4. QED
    BY <2>1, <2>2, <2>3 DEF Next, Step, Begin, CheckVersion, ReadVersion,
       AllocatePosition, RejectDuplicate, Abort, vars
<1>3. QED
  BY <1>1, <1>2, InvariantHolds, PTL DEF Spec, ImplementsStreamLog, Streamed!Spec

-----------------------------------------------------------------------------

\* The projection has met stored events up to its checkpoint, each at a later
\* position than the one before.
ReplayInv ==
  /\ IInv
  /\ IsFiniteSet(events)
  /\ checkpoint \in 0..seq
  /\ read \subseteq events
  /\ handled \in Seq(events)
  /\ \A i \in DOMAIN handled : handled[i].position <= checkpoint
  /\ \A i, j \in DOMAIN handled : i < j => handled[i].position < handled[j].position

\* A sorted batch is a sequence of the documents found, each of them once.
LEMMA SortedBatch ==
  ASSUME NEW docs, IsFiniteSet(docs), NEW batch \in InPositionOrder(docs)
  PROVE  /\ batch \in Seq(docs) /\ Len(batch) = Cardinality(docs)
         /\ \A i, j \in DOMAIN batch : i < j => batch[i].position < batch[j].position
<1>1. Cardinality(docs) \in Nat
  BY FS_CardinalityType
<1>2. batch \in [1..Cardinality(docs) -> docs]
  BY DEF InPositionOrder, SetToSeqs
<1>3. batch \in Seq(docs)
  BY <1>1, <1>2
<1>4. Len(batch) = Cardinality(docs)
  BY <1>1, <1>2, <1>3
<1>5. QED
  BY <1>3, <1>4 DEF InPositionOrder

\* It leaves none of them out: it has as many places as there are documents.
LEMMA SortedIsWhole ==
  ASSUME NEW docs, IsFiniteSet(docs), NEW batch \in InPositionOrder(docs), NEW d \in docs
  PROVE  \E i \in DOMAIN batch : batch[i] = d
<1> DEFINE N == Cardinality(docs)
<1>1. N \in Nat /\ IsFiniteSet(1..N) /\ Cardinality(1..N) = N
  BY FS_CardinalityType, FS_Interval
<1>2. batch \in [1..N -> docs] /\ \A i, j \in 1..N : i # j => batch[i] # batch[j]
  BY DEF InPositionOrder, SetToSeqs, IsInjective
<1>3. batch \in Injection(1..N, docs)
  BY <1>2 DEF Injection, IsInjective
<1>4. batch \in Surjection(1..N, docs)
  BY <1>1, <1>3, FS_Injection
<1>5. QED
  BY <1>2, <1>4 DEF Surjection

\* Events are only added, one at a time.
LEMMA EventsGrow ==
  ASSUME IInv, [Next]_vars, IsFiniteSet(events)
  PROVE  events \subseteq events' /\ IsFiniteSet(events') /\ seq <= seq'
<1> USE DEF IInv, TypeOK
<1>1. ASSUME NEW w \in Writers, InsertDocument(w)
      PROVE  events \subseteq events' /\ IsFiniteSet(events') /\ seq <= seq'
  <2>1. events' = events \cup {Doc(w, inserted[w] + 1)} /\ seq' = seq
    BY <1>1 DEF InsertDocument
  <2>2. IsFiniteSet(events \cup {Doc(w, inserted[w] + 1)})
    BY FS_AddElement
  <2>3. seq <= seq'
    BY <2>1 DEF IInv, TypeOK
  <2>4. QED
    BY <2>1, <2>2, <2>3
<1>2. ASSUME NEW w \in Writers, AllocatePosition(w)
      PROVE  events \subseteq events' /\ IsFiniteSet(events') /\ seq <= seq'
  BY <1>2 DEF AllocatePosition
<1>3. CASE UNCHANGED <<events, seq>>
  BY <1>3
<1>4. ASSUME NEW w \in Writers, CheckVersion(w) \/ ReadVersion(w) \/ RejectDuplicate(w) \/ Abort(w)
      PROVE  UNCHANGED <<events, seq>>
  BY <1>4 DEF CheckVersion, ReadVersion, RejectDuplicate, Abort
<1>5. ASSUME NEW w \in Writers, NEW s \in Streams, NEW n \in 1..MaxBatch,
             NEW e \in 0..MaxSeq \cup {AnyVersion}, Begin(w, s, n, e)
      PROVE  UNCHANGED <<events, seq>>
  BY <1>5 DEF Begin
<1>6. QED
  BY <1>1, <1>2, <1>3, <1>4, <1>5 DEF Next, Step, vars

\* Nothing is stored, read or handled at the start.
LEMMA ReplayInitially == ReplayInit => ReplayInv
<1> SUFFICES ASSUME ReplayInit PROVE ReplayInv
  OBVIOUS
<1>1. IInv /\ events = {} /\ seq = 0
  BY IInvInit DEF ReplayInit, Init
<1>2. QED
  BY <1>1, FS_EmptySet, EmptySeq DEF ReplayInit, ReplayInv

\* A catch-up hands over a batch that lies beyond everything handled so far.
LEMMA ReplayFromStep ==
  ASSUME ReplayInv, NEW failing, ReplayFrom(failing)
  PROVE  ReplayInv'
<1> USE DEF ReplayInv
<1> DEFINE found == After(checkpoint)
<1>1. /\ found \subseteq events /\ found # {} /\ IsFiniteSet(found) /\ IsFiniteSet(found \ failing)
      /\ \A d \in found : d.position > checkpoint /\ d.position \in Nat /\ d.position <= seq
  <2>1. found \subseteq events /\ found \ failing \subseteq events
    BY DEF After
  <2>2. \A d \in found : d.position > checkpoint /\ d.position \in Nat /\ d.position <= seq
    BY DEF After, IInv, TypeOK, PositionsAllocated, Document
  <2>3. QED
    BY <2>1, <2>2, FS_Subset DEF ReplayFrom
<1>2. PICK returned \in InPositionOrder(found \ failing) : handled' = handled \o returned
  BY DEF ReplayFrom
<1>3. PICK batch \in InPositionOrder(found) : checkpoint' = Last(batch).position
  BY DEF ReplayFrom
<1>4. /\ returned \in Seq(found \ failing)
      /\ \A i, j \in DOMAIN returned : i < j => returned[i].position < returned[j].position
  BY <1>1, <1>2, SortedBatch
<1>5. /\ batch \in Seq(found) /\ Len(batch) = Cardinality(found)
      /\ \A i, j \in DOMAIN batch : i < j => batch[i].position < batch[j].position
  BY <1>1, <1>3, SortedBatch
<1>6. UNCHANGED vars /\ events' = events /\ seq' = seq /\ read' \subseteq events
  BY <1>1 DEF ReplayFrom, vars
<1> HIDE DEF found
<1>7. /\ checkpoint' \in Nat /\ checkpoint < checkpoint' /\ checkpoint' <= seq
      /\ \A d \in found : d.position <= checkpoint'
  <2>1. Len(batch) \in Nat /\ Len(batch) # 0 /\ DOMAIN batch = 1..Len(batch)
    <3>1. Cardinality(found) # 0 /\ Cardinality(found) \in Nat
      BY <1>1, FS_EmptySet, FS_CardinalityType
    <3>2. QED
      BY <1>5, <3>1, LenProperties
  <2>2. batch[Len(batch)] \in found /\ Last(batch) = batch[Len(batch)]
    BY <1>5, <2>1 DEF Last
  <2>3. \A d \in found : \E i \in DOMAIN batch : batch[i] = d
    BY <1>1, <1>3, SortedIsWhole
  <2>4. ASSUME NEW d \in found PROVE d.position <= batch[Len(batch)].position
    <3>1. PICK i \in 1..Len(batch) : batch[i] = d
      BY <2>1, <2>3
    <3>2. i = Len(batch) \/ i < Len(batch)
      <4>1. \A n \in Nat : \A k \in 1..n : k = n \/ k < n
        OBVIOUS
      <4>2. QED
        BY <2>1, <4>1
    <3>3. d.position \in Nat
      BY <1>1
    <3>4. CASE i < Len(batch)
      <4>1. i \in DOMAIN batch /\ Len(batch) \in DOMAIN batch
        BY <2>1, <3>1
      <4>2. batch[i].position < batch[Len(batch)].position
        BY <1>5, <3>4, <4>1
      <4>3. batch[Len(batch)].position \in Nat
        BY <1>1, <2>2
      <4>4. QED
        BY <3>1, <3>3, <4>2, <4>3
    <3>5. QED
      BY <3>1, <3>2, <3>3, <3>4
  <2>5. QED
    BY <1>1, <1>3, <2>2, <2>4
<1>8. Len(handled) \in Nat /\ DOMAIN handled = 1..Len(handled)
      /\ Len(returned) \in Nat /\ DOMAIN returned = 1..Len(returned)
  BY <1>4, LenProperties
<1>9. handled \in Seq(events) /\ returned \in Seq(events)
  BY <1>1, <1>4, SeqMonotonic
<1>10. /\ handled' \in Seq(events) /\ DOMAIN handled' = 1..Len(handled) + Len(returned)
       /\ \A i \in 1..Len(handled) + Len(returned) :
            handled'[i] = IF i <= Len(handled) THEN handled[i] ELSE returned[i - Len(handled)]
  BY <1>2, <1>8, <1>9, ConcatProperties, LenProperties
<1>11. checkpoint \in Nat
  BY DEF IInv, TypeOK
<1>12. ASSUME NEW i \in DOMAIN handled'
       PROVE  /\ i \in DOMAIN handled => handled'[i] = handled[i] /\ handled'[i].position <= checkpoint
              /\ i \notin DOMAIN handled => /\ i - Len(handled) \in DOMAIN returned
                                           /\ handled'[i] = returned[i - Len(handled)]
                                           /\ handled'[i] \in found
                                           /\ handled'[i].position > checkpoint
              /\ handled'[i].position \in Nat /\ handled'[i].position <= checkpoint'
  <2>1. CASE i \in DOMAIN handled
    <3>1. handled'[i] = handled[i] /\ handled[i] \in events /\ handled[i].position <= checkpoint
      BY <1>8, <1>10, <2>1
    <3>2. handled[i].position \in Nat
      BY <3>1 DEF IInv, TypeOK, Document
    <3>3. QED
      BY <1>7, <1>11, <2>1, <3>1, <3>2
  <2>2. CASE i \notin DOMAIN handled
    <3>1. i - Len(handled) \in DOMAIN returned /\ handled'[i] = returned[i - Len(handled)]
      BY <1>8, <1>10, <2>2
    <3>2. handled'[i] \in found
      BY <1>4, <3>1, <1>8
    <3>3. QED
      BY <1>1, <1>7, <2>2, <3>1, <3>2
  <2>3. QED
    BY <2>1, <2>2
<1>13. ASSUME NEW i \in DOMAIN handled', NEW j \in DOMAIN handled', i < j
       PROVE  handled'[i].position < handled'[j].position
  <2>1. CASE j \in DOMAIN handled
    <3>1. i \in DOMAIN handled
      BY <1>8, <1>10, <1>13, <2>1
    <3>2. QED
      BY <1>12, <1>13, <2>1, <3>1
  <2>2. CASE j \notin DOMAIN handled /\ i \in DOMAIN handled
    BY <1>11, <1>12, <2>2
  <2>3. CASE j \notin DOMAIN handled /\ i \notin DOMAIN handled
    <3>1. i - Len(handled) < j - Len(handled)
      BY <1>8, <1>10, <1>13
    <3>2. QED
      BY <1>4, <1>12, <2>3, <3>1
  <2>4. QED
    BY <2>1, <2>2, <2>3
<1>14. IInv'
  BY <1>6, IInvStep
<1>15. QED
  BY <1>6, <1>7, <1>10, <1>12, <1>13, <1>14

\* Appends only add events, and those leave what was handled where it is.
LEMMA ReplayStep == ReplayInv /\ [ReplayNext]_<<vars, replayVars>> => ReplayInv'
<1> SUFFICES ASSUME ReplayInv, [ReplayNext]_<<vars, replayVars>> PROVE ReplayInv'
  OBVIOUS
<1>1. CASE [Next]_vars /\ UNCHANGED replayVars
  <2>1. IInv' /\ events \subseteq events' /\ IsFiniteSet(events') /\ seq <= seq'
    BY <1>1, IInvStep, EventsGrow DEF ReplayInv
  <2>2. handled' = handled /\ checkpoint' = checkpoint /\ read' = read
    BY <1>1 DEF replayVars
  <2>3. handled \in Seq(events')
    BY <2>1, SeqMonotonic DEF ReplayInv
  <2>4. checkpoint \in 0..seq'
    BY <2>1 DEF ReplayInv, IInv, TypeOK
  <2>5. QED
    BY <2>1, <2>2, <2>3, <2>4 DEF ReplayInv
<1>2. QED
  BY <1>1, ReplayFromStep DEF ReplayNext, replayVars

\* The replay invariant holds of every behaviour of a store being appended to
\* while its projection catches up.
THEOREM ReplayInvariantHolds == ReplaySpec => []ReplayInv
<1>1. QED
  BY ReplayInitially, ReplayStep, PTL DEF ReplaySpec

\* Type correctness of the replay: the checkpoint never passes the position
\* counter, so a later append is always beyond it.
THEOREM ReplayTypesHold == ReplaySpec => []ReplayTypeOK
<1>1. ReplayInv => ReplayTypeOK
  <2> SUFFICES ASSUME ReplayInv PROVE ReplayTypeOK
    OBVIOUS
  <2>1. TypeOK /\ events \subseteq Document
    BY DEF ReplayInv, IInv, TypeOK
  <2>2. handled \in Seq(Document)
    BY <2>1, SeqMonotonic DEF ReplayInv
  <2>3. QED
    BY <2>1, <2>2 DEF ReplayInv, ReplayTypeOK
<1>2. QED
  BY <1>1, ReplayInvariantHolds, PTL

\* A projection meets the events of a stream in version order and none of them
\* twice, over all its catch-ups and whatever handlers fail.
THEOREM ProjectionsSeeVersionOrder == ReplaySpec => []HandledInVersionOrder
<1>1. ReplayInv => HandledInVersionOrder
  <2> SUFFICES ASSUME ReplayInv, NEW i \in DOMAIN handled, NEW j \in DOMAIN handled, i < j,
                      handled[i].stream = handled[j].stream
               PROVE  handled[i].version < handled[j].version
    BY DEF HandledInVersionOrder
  <2>1. handled[i] \in events /\ handled[j] \in events /\ handled[i].position < handled[j].position
    BY DEF ReplayInv
  <2>2. /\ handled[i].version \in Nat /\ handled[j].version \in Nat
        /\ handled[i].position \in Nat /\ handled[j].position \in Nat
    BY <2>1 DEF ReplayInv, IInv, TypeOK, Document
  <2>3. handled[i].version # handled[j].version
    BY <2>1, <2>2 DEF ReplayInv, IInv, UniqueVersions
  <2>4. ~(handled[j].version < handled[i].version)
    BY <2>1, <2>2 DEF ReplayInv, IInv, PositionOrder
  <2>5. QED
    BY <2>2, <2>3, <2>4
<1>2. QED
  BY <1>1, ReplayInvariantHolds, PTL

=============================================================================
