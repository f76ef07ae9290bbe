---------------------------- MODULE CacheProofs ----------------------------
(***************************************************************************)
(* The caches, for any number of services, processes, calls and versions   *)
(* and any times to live.                                                  *)
(*                                                                         *)
(* The guard: why a call that a factory has overtaken does not run the     *)
(* factory again is a matter of the connection's order (LateOK).  The      *)
(* leader's set() is behind the call's get() on the wire, so the call      *)
(* hears from L2 while the inflight map still holds the leader.            *)
(*                                                                         *)
(* The repository: a read that has not been tainted began when nobody      *)
(* wrote and has not been overlapped since, so it holds the current        *)
(* version (ReadOK); what a write has cleared from its own L1 comes back   *)
(* only tainted before the write returns (NearOK).                         *)
(***************************************************************************)
EXTENDS MCMultiCache, SequenceTheorems, TLAPS

-----------------------------------------------------------------------------
\* MultiCache: the stampede guard of each process.

\* a's command is on the wire before b's.
Before(s, a, b) == \E i, j \in DOMAIN s : i < j /\ s[i] = a /\ s[j] = b

\* The callers of p that await an L2 command.
Waiting(p) == {c \in Callers : ProcessOf[c] = p /\ pc[c] \in Asking}

Places == Leading \cup Asking \cup {"idle", "join"}

\* Each wire holds the callers of its process that await a command, once.
WiresOK ==
  /\ pc \in [Callers -> Places]
  /\ wire \in [Processes -> Seq(Callers)]
  /\ \A p \in Processes : IsInjective(wire[p]) /\ ToSet(wire[p]) = Waiting(p)

\* A process leads with the caller its inflight map holds, and no other.
LeadersOK ==
  /\ inflight \in [Processes -> Callers \cup {None}]
  /\ \A p \in Processes : inflight[p] # None => ProcessOf[inflight[p]] = p
  /\ \A c \in Callers : pc[c] \in Leading <=> inflight[ProcessOf[c]] = c

\* A call that a factory has overtaken will hear from L2 before that factory's
\* leader does, and so before the inflight map forgets the leader.
LateOK ==
  \A d \in late :
    LET p == ProcessOf[d]
    IN  /\ pc[d] \in {"ask", "join"}
        /\ pc[d] = "ask" => /\ inflight[p] # None
                            /\ pc[inflight[p]] = "store"
                            /\ Before(wire[p], d, inflight[p])

\* The inductive invariant of the guard.
GuardInv ==
  /\ origin \in Version
  /\ l1 \in [Processes -> Value \ Large]
  /\ l2 \in Value
  /\ val \in [Callers -> Value]
  /\ failed \subseteq applied
  /\ late \subseteq Callers
  /\ WiresOK
  /\ LeadersOK
  /\ LateOK

-----------------------------------------------------------------------------

\* Appending a command keeps the order of those before it.
LEMMA AppendWire ==
  ASSUME NEW s \in Seq(Callers), NEW c \in Callers, c \notin ToSet(s), IsInjective(s)
  PROVE  /\ Append(s, c) \in Seq(Callers) /\ IsInjective(Append(s, c))
         /\ ToSet(Append(s, c)) = ToSet(s) \cup {c}
         /\ \A a, b : Before(s, a, b) => Before(Append(s, c), a, b)
         /\ \A a \in ToSet(s) : Before(Append(s, c), a, c)
<1> DEFINE t == Append(s, c)
<1>1. /\ Len(s) \in Nat /\ DOMAIN s = 1..Len(s) /\ t \in Seq(Callers)
      /\ DOMAIN t = 1..Len(s) + 1 /\ t[Len(s) + 1] = c
      /\ \A i \in 1..Len(s) : t[i] = s[i]
  BY AppendProperties, LenProperties
<1> HIDE DEF t
<1>2. \A i \in DOMAIN s : s[i] # c
  BY DEF ToSet
<1>3. IsInjective(t)
  BY <1>1, <1>2 DEF IsInjective
<1>4. ToSet(t) = ToSet(s) \cup {c}
  <2>1. \A i \in DOMAIN t : (i \in DOMAIN s /\ t[i] = s[i]) \/ t[i] = c
    BY <1>1
  <2>2. \A i \in DOMAIN s : i \in DOMAIN t /\ t[i] = s[i]
    BY <1>1
  <2>3. Len(s) + 1 \in DOMAIN t
    BY <1>1
  <2>4. QED
    BY <1>1, <2>1, <2>2, <2>3 DEF ToSet
<1>5. ASSUME NEW a, NEW b, Before(s, a, b) PROVE Before(t, a, b)
  <2>1. PICK i, j \in DOMAIN s : i < j /\ s[i] = a /\ s[j] = b
    BY <1>5 DEF Before
  <2>2. i \in DOMAIN t /\ j \in DOMAIN t /\ t[i] = a /\ t[j] = b
    BY <1>1, <2>1
  <2>3. QED
    BY <2>1, <2>2 DEF Before
<1>6. ASSUME NEW a \in ToSet(s) PROVE Before(t, a, c)
  <2>1. PICK i \in DOMAIN s : s[i] = a
    BY DEF ToSet
  <2>2. i \in DOMAIN t /\ Len(s) + 1 \in DOMAIN t /\ t[i] = a /\ i < Len(s) + 1
    BY <1>1, <2>1
  <2>3. QED
    BY <1>1, <2>2 DEF Before
<1>7. QED
  BY <1>1, <1>3, <1>4, <1>5, <1>6 DEF t

\* So does taking the reply to the first one, which nothing is before.
LEMMA TailWire ==
  ASSUME NEW s \in Seq(Callers), s # << >>, IsInjective(s)
  PROVE  /\ Tail(s) \in Seq(Callers) /\ IsInjective(Tail(s))
         /\ Head(s) \in Callers /\ Head(s) \in ToSet(s)
         /\ ToSet(Tail(s)) = ToSet(s) \ {Head(s)}
         /\ \A a, b : Before(s, a, b) /\ a # Head(s) => Before(Tail(s), a, b)
         /\ \A a : ~Before(s, a, Head(s))
<1> DEFINE t == Tail(s)
<1>1. /\ Len(s) \in Nat /\ Len(s) >= 1 /\ DOMAIN s = 1..Len(s) /\ t \in Seq(Callers)
      /\ DOMAIN t = 1..Len(s) - 1 /\ Head(s) = s[1]
      /\ \A i \in 1..Len(s) - 1 : t[i] = s[i + 1]
  <2>1. Len(s) \in Nat /\ DOMAIN s = 1..Len(s) /\ Len(s) >= 1
    BY EmptySeq, LenProperties
  <2>2. t \in Seq(Callers) /\ Len(t) = Len(s) - 1 /\ Head(s) = s[1]
    BY HeadTailProperties
  <2>3. \A i \in 1..Len(s) - 1 : t[i] = s[i + 1]
    BY <2>2, HeadTailProperties
  <2>4. DOMAIN t = 1..Len(s) - 1
    BY <2>2, LenProperties
  <2>5. QED
    BY <2>1, <2>2, <2>3, <2>4
<1> HIDE DEF t
<1>2. \A i \in DOMAIN s : i = 1 \/ (i - 1 \in DOMAIN t /\ t[i - 1] = s[i])
  BY <1>1
<1>3. \A i \in DOMAIN t : i + 1 \in DOMAIN s /\ t[i] = s[i + 1] /\ i + 1 # 1
  BY <1>1
<1>4. 1 \in DOMAIN s
  BY <1>1
<1>5. IsInjective(t)
  <2> SUFFICES ASSUME NEW i \in DOMAIN t, NEW j \in DOMAIN t, t[i] = t[j] PROVE i = j
    BY DEF IsInjective
  <2>1. i + 1 = j + 1
    BY <1>3 DEF IsInjective
  <2>2. QED
    BY <1>1, <2>1
<1>6. ToSet(t) = ToSet(s) \ {s[1]}
  <2>1. ASSUME NEW x \in ToSet(t) PROVE x \in ToSet(s) /\ x # s[1]
    <3>1. PICK i \in DOMAIN t : t[i] = x
      BY DEF ToSet
    <3>2. i + 1 \in DOMAIN s /\ s[i + 1] = x /\ i + 1 # 1
      BY <1>3, <3>1
    <3>3. QED
      BY <1>4, <3>2 DEF ToSet, IsInjective
  <2>2. ASSUME NEW x \in ToSet(s), x # s[1] PROVE x \in ToSet(t)
    <3>1. PICK i \in DOMAIN s : s[i] = x
      BY DEF ToSet
    <3>2. i - 1 \in DOMAIN t /\ t[i - 1] = x
      BY <1>2, <2>2, <3>1
    <3>3. QED
      BY <3>2 DEF ToSet
  <2>3. QED
    BY <2>1, <2>2
<1>7. ASSUME NEW a, NEW b, Before(s, a, b), a # s[1] PROVE Before(t, a, b)
  <2>1. PICK i, j \in DOMAIN s : i < j /\ s[i] = a /\ s[j] = b
    BY <1>7 DEF Before
  <2>2. i # 1 /\ j # 1
    BY <1>1, <1>7, <2>1
  <2>3. i - 1 \in DOMAIN t /\ j - 1 \in DOMAIN t /\ t[i - 1] = a /\ t[j - 1] = b
    BY <1>2, <2>1, <2>2
  <2>4. i - 1 < j - 1
    BY <1>1, <2>1
  <2>5. QED
    BY <2>3, <2>4 DEF Before
<1>8. ASSUME NEW a, Before(s, a, s[1]) PROVE FALSE
  <2>1. PICK i, j \in DOMAIN s : i < j /\ s[i] = a /\ s[j] = s[1]
    BY <1>8 DEF Before
  <2>2. j = 1
    BY <1>4, <2>1 DEF IsInjective
  <2>3. QED
    BY <1>1, <2>1, <2>2
<1>9. s[1] \in Callers /\ s[1] \in ToSet(s)
  BY <1>1, <1>4 DEF ToSet
<1>10. QED
  BY <1>1, <1>5, <1>6, <1>7, <1>8, <1>9 DEF t

\* What a step of caller c may do to the wires.
Moved(c, place) ==
  /\ WiresOK'
  /\ \A d \in Callers : pc'[d] = IF d = c THEN place ELSE pc[d]
  /\ \A p \in Processes, a, b \in Callers :
       a # c /\ Before(wire[p], a, b) => Before(wire'[p], a, b)

\* A command issued comes after all those that wait.
LEMMA IssueMoves ==
  ASSUME WiresOK, NEW c \in Callers, NEW place \in Asking, pc[c] \notin Asking, Issue(c, place)
  PROVE  /\ Moved(c, place)
         /\ \A a \in Waiting(ProcessOf[c]) : Before(wire'[ProcessOf[c]], a, c)
<1> PICK q \in Processes : q = ProcessOf[c]
  BY MultiCacheAssumption
<1>1. /\ wire' = [wire EXCEPT ![q] = Append(@, c)] /\ pc' = [pc EXCEPT ![c] = place]
      /\ wire[q] \in Seq(Callers) /\ IsInjective(wire[q]) /\ ToSet(wire[q]) = Waiting(q)
  BY DEF Issue, Goto, WiresOK
<1>2. c \notin ToSet(wire[q])
  BY <1>1 DEF Waiting
<1>3. /\ wire'[q] \in Seq(Callers) /\ IsInjective(wire'[q])
      /\ ToSet(wire'[q]) = Waiting(q) \cup {c}
      /\ \A a, b : Before(wire[q], a, b) => Before(wire'[q], a, b)
      /\ \A a \in Waiting(q) : Before(wire'[q], a, c)
  <2>1. wire'[q] = Append(wire[q], c)
    BY <1>1 DEF WiresOK
  <2>2. QED
    BY <1>1, <1>2, <2>1, AppendWire
<1>4. \A p \in Processes : p # q => wire'[p] = wire[p]
  BY <1>1 DEF WiresOK
<1>5. /\ \A d \in Callers : pc'[d] = IF d = c THEN place ELSE pc[d]
      /\ pc' \in [Callers -> Places]
  BY <1>1 DEF WiresOK, Places
<1>6. ASSUME NEW p \in Processes PROVE IsInjective(wire'[p]) /\ ToSet(wire'[p]) = Waiting(p)'
  <2>1. CASE p = q
    <3>1. Waiting(p)' = Waiting(q) \cup {c}
      BY <1>5, <2>1 DEF Waiting
    <3>2. QED
      BY <1>3, <2>1, <3>1
  <2>2. CASE p # q
    <3>1. Waiting(p)' = Waiting(p)
      BY <1>5, <2>2 DEF Waiting
    <3>2. QED
      BY <1>4, <2>2, <3>1 DEF WiresOK
  <2>3. QED
    BY <2>1, <2>2
<1>7. wire' \in [Processes -> Seq(Callers)]
  BY <1>1, <1>3 DEF WiresOK
<1>8. QED
  BY <1>3, <1>4, <1>5, <1>6, <1>7 DEF Moved, WiresOK

\* The caller that hears from L2 was the first.
LEMMA ReplyIsFirst ==
  ASSUME WiresOK, NEW c \in Callers, Replied(c)
  PROVE  \A a : ~Before(wire[ProcessOf[c]], a, c)
<1>1. PICK s : s = wire[ProcessOf[c]]
  OBVIOUS
<1>2. s \in Seq(Callers) /\ s # << >> /\ IsInjective(s) /\ Head(s) = c
  BY <1>1, MultiCacheAssumption DEF Replied, WiresOK
<1>3. \A a : ~Before(s, a, Head(s))
  BY <1>2, TailWire
<1>4. QED
  BY <1>1, <1>2, <1>3

\* A reply leaves the front of the wire.
LEMMA ReplyLeaves ==
  ASSUME WiresOK, NEW c \in Callers, Replied(c), NEW q, q = ProcessOf[c]
  PROVE  /\ q \in Processes /\ Tail(wire[q]) \in Seq(Callers) /\ IsInjective(Tail(wire[q]))
         /\ ToSet(Tail(wire[q])) = Waiting(q) \ {c} /\ pc[c] \in Asking
         /\ \A a, b : Before(wire[q], a, b) /\ a # c => Before(Tail(wire[q]), a, b)
<1>1. /\ q \in Processes /\ wire[q] \in Seq(Callers) /\ IsInjective(wire[q])
      /\ ToSet(wire[q]) = Waiting(q) /\ wire[q] # << >> /\ Head(wire[q]) = c
  BY MultiCacheAssumption DEF WiresOK, Replied
<1>2. QED
  BY <1>1, TailWire DEF Waiting

\* Handling a reply, with and without a further command.
LEMMA ReceiveMoves ==
  ASSUME WiresOK, NEW c \in Callers, NEW place \in Places \ Asking, Receive(c, place)
  PROVE  Moved(c, place)
<1> PICK q : q = ProcessOf[c]
  OBVIOUS
<1>1. /\ q \in Processes /\ Tail(wire[q]) \in Seq(Callers) /\ IsInjective(Tail(wire[q]))
      /\ ToSet(Tail(wire[q])) = Waiting(q) \ {c}
      /\ \A a, b : Before(wire[q], a, b) /\ a # c => Before(Tail(wire[q]), a, b)
  BY ReplyLeaves DEF Receive
<1>2. wire' = [wire EXCEPT ![q] = Tail(@)] /\ pc' = [pc EXCEPT ![c] = place]
  BY DEF Receive, Goto
<1>3. wire'[q] = Tail(wire[q]) /\ \A p \in Processes : p # q => wire'[p] = wire[p]
  BY <1>1, <1>2 DEF WiresOK
<1>4. /\ \A d \in Callers : pc'[d] = IF d = c THEN place ELSE pc[d]
      /\ pc' \in [Callers -> Places]
  BY <1>2 DEF WiresOK
<1>5. ASSUME NEW p \in Processes PROVE IsInjective(wire'[p]) /\ ToSet(wire'[p]) = Waiting(p)'
  <2>1. CASE p = q
    <3>1. Waiting(p)' = Waiting(q) \ {c}
      BY <1>4, <2>1 DEF Waiting
    <3>2. QED
      BY <1>1, <1>3, <2>1, <3>1
  <2>2. CASE p # q
    <3>1. Waiting(p)' = Waiting(p)
      BY <1>4, <2>2 DEF Waiting
    <3>2. QED
      BY <1>3, <2>2, <3>1 DEF WiresOK
  <2>3. QED
    BY <2>1, <2>2
<1>6. wire' \in [Processes -> Seq(Callers)]
  BY <1>1, <1>2, <1>3 DEF WiresOK
<1>7. QED
  BY <1>1, <1>3, <1>4, <1>5, <1>6 DEF Moved, WiresOK

LEMMA ReceiveAndIssueMoves ==
  ASSUME WiresOK, NEW c \in Callers, NEW place \in Asking, ReceiveAndIssue(c, place)
  PROVE  Moved(c, place)
<1> PICK q : q = ProcessOf[c]
  OBVIOUS
<1>1. /\ q \in Processes /\ Tail(wire[q]) \in Seq(Callers) /\ IsInjective(Tail(wire[q]))
      /\ ToSet(Tail(wire[q])) = Waiting(q) \ {c} /\ pc[c] \in Asking
      /\ \A a, b : Before(wire[q], a, b) /\ a # c => Before(Tail(wire[q]), a, b)
  BY ReplyLeaves DEF ReceiveAndIssue
<1>2. wire' = [wire EXCEPT ![q] = Append(Tail(@), c)] /\ pc' = [pc EXCEPT ![c] = place]
  BY DEF ReceiveAndIssue, Goto
<1>3. wire'[q] = Append(Tail(wire[q]), c) /\ \A p \in Processes : p # q => wire'[p] = wire[p]
  BY <1>1, <1>2 DEF WiresOK
<1>4. /\ wire'[q] \in Seq(Callers) /\ IsInjective(wire'[q])
      /\ ToSet(wire'[q]) = Waiting(q) \cup {c}
      /\ \A a, b : Before(wire[q], a, b) /\ a # c => Before(wire'[q], a, b)
  <2>1. c \notin ToSet(Tail(wire[q]))
    BY <1>1
  <2>2. PICK t : t = Tail(wire[q])
    OBVIOUS
  <2>3. t \in Seq(Callers) /\ IsInjective(t) /\ c \notin ToSet(t)
    BY <1>1, <2>1, <2>2
  <2>4. /\ Append(t, c) \in Seq(Callers) /\ IsInjective(Append(t, c))
        /\ ToSet(Append(t, c)) = ToSet(t) \cup {c}
        /\ \A a, b : Before(t, a, b) => Before(Append(t, c), a, b)
    BY <2>3, AppendWire
  <2>5. wire'[q] = Append(t, c)
    BY <1>3, <2>2
  <2>6. ToSet(Append(t, c)) = Waiting(q) \cup {c}
    BY <1>1, <2>2, <2>4
  <2>7. \A a, b : Before(wire[q], a, b) /\ a # c => Before(Append(t, c), a, b)
    BY <1>1, <2>2, <2>4
  <2>8. QED
    BY <2>4, <2>5, <2>6, <2>7
<1>5. /\ \A d \in Callers : pc'[d] = IF d = c THEN place ELSE pc[d]
      /\ pc' \in [Callers -> Places]
  BY <1>2 DEF WiresOK, Places
<1>6. ASSUME NEW p \in Processes PROVE IsInjective(wire'[p]) /\ ToSet(wire'[p]) = Waiting(p)'
  <2>1. CASE p = q
    <3>1. Waiting(p)' = Waiting(q) \cup {c}
      BY <1>5, <2>1 DEF Waiting
    <3>2. QED
      BY <1>4, <2>1, <3>1
  <2>2. CASE p # q
    <3>1. Waiting(p)' = Waiting(p)
      BY <1>5, <2>2 DEF Waiting
    <3>2. QED
      BY <1>3, <2>2, <3>1 DEF WiresOK
  <2>3. QED
    BY <2>1, <2>2
<1>7. wire' \in [Processes -> Seq(Callers)]
  BY <1>1, <1>2, <1>4, <1>3 DEF WiresOK
<1>8. QED
  BY <1>3, <1>4, <1>5, <1>6, <1>7 DEF Moved, WiresOK

-----------------------------------------------------------------------------

\* A caller that neither becomes nor stops being a leader disturbs neither the
\* leaders nor the overtaken calls.
LEMMA MovesKeep ==
  ASSUME GuardInv, NEW c \in Callers, NEW place, Moved(c, place), UNCHANGED inflight,
         pc[c] \in Leading <=> place \in Leading,
         late' \subseteq late, c \in late' => place = "join",
         pc[c] = "store" => \A a : ~Before(wire[ProcessOf[c]], a, c)
  PROVE  LeadersOK' /\ LateOK'
<1>1. LeadersOK'
  BY DEF GuardInv, LeadersOK, Moved
<1>2. ASSUME NEW d \in late', d # c, pc[d] = "ask"
      PROVE  /\ inflight'[ProcessOf[d]] # None
             /\ pc'[inflight'[ProcessOf[d]]] = "store"
             /\ Before(wire'[ProcessOf[d]], d, inflight'[ProcessOf[d]])
  <2> PICK p \in Processes : p = ProcessOf[d]
    BY MultiCacheAssumption DEF GuardInv
  <2>1. /\ d \in Callers /\ inflight[p] # None /\ inflight[p] \in Callers
        /\ pc[inflight[p]] = "store" /\ Before(wire[p], d, inflight[p])
        /\ ProcessOf[inflight[p]] = p
    BY <1>2 DEF GuardInv, LateOK, LeadersOK
  <2>2. inflight[p] # c
    BY <2>1
  <2>3. QED
    BY <1>2, <2>1, <2>2 DEF Moved
<1>3. LateOK'
  <2> SUFFICES ASSUME NEW d \in late'
               PROVE  /\ pc'[d] \in {"ask", "join"}
                      /\ pc'[d] = "ask" =>
                           /\ inflight'[ProcessOf[d]] # None
                           /\ pc'[inflight'[ProcessOf[d]]] = "store"
                           /\ Before(wire'[ProcessOf[d]], d, inflight'[ProcessOf[d]])
    BY DEF LateOK
  <2>1. CASE d = c
    BY <2>1 DEF Moved
  <2>2. CASE d # c
    <3>1. pc'[d] = pc[d] /\ pc[d] \in {"ask", "join"}
      BY <2>2 DEF GuardInv, LateOK, Moved
    <3>2. QED
      BY <1>2, <2>2, <3>1
  <2>3. QED
    BY <2>1, <2>2
<1>4. QED
  BY <1>1, <1>3

\* L1 takes small values, L2 any.
LEMMA L1Keeps ==
  ASSUME l1 \in [Processes -> Value \ Large], NEW p \in Processes, NEW v \in Value
  PROVE  InL1(p, v) \in [Processes -> Value \ Large]
BY MultiCacheAssumption DEF InL1, Value

\* Nobody waits or leads at the start.
LEMMA GuardInitially == Init => GuardInv
<1> SUFFICES ASSUME Init PROVE GuardInv
  OBVIOUS
<1>1. None \in Value \ Large /\ 0 \in Version
  BY MultiCacheAssumption DEF Value, Version, None
<1>2. ASSUME NEW p \in Processes PROVE IsInjective(wire[p]) /\ ToSet(wire[p]) = Waiting(p)
  <2>1. wire[p] = << >> /\ DOMAIN wire[p] = {}
    BY EmptySeq DEF Init
  <2>2. QED
    BY <2>1 DEF Init, IsInjective, ToSet, Waiting, Asking
<1>3. WiresOK
  BY <1>2, EmptySeq DEF Init, WiresOK, Places
<1>4. LeadersOK
  BY MultiCacheAssumption DEF Init, LeadersOK, Leading
<1>5. QED
  BY <1>1, <1>3, <1>4 DEF Init, GuardInv, LateOK, Value

\* Steps in which no caller moves: those of the environment.
LEMMA EnvironmentStep ==
  ASSUME GuardInv, Change \/ Expire \/ \E c \in Callers : Apply(c) \/ Refuse(c)
  PROVE  GuardInv'
<1> USE MultiCacheAssumption
<1>1. UNCHANGED <<inflight, pc, wire, late>>
  BY DEF Change, Expire, Apply, Refuse
<1>2. WiresOK' /\ LeadersOK' /\ LateOK'
  BY <1>1 DEF GuardInv, WiresOK, LeadersOK, LateOK, Waiting, Before
<1>3. None \in Value \ Large
  BY DEF Value, None
<1>4. CASE Change
  BY <1>1, <1>2, <1>4 DEF GuardInv, Change, Version
<1>5. CASE Expire
  BY <1>1, <1>2, <1>3, <1>5 DEF GuardInv, Expire
<1>6. ASSUME NEW c \in Callers, Apply(c) PROVE GuardInv'
  <2>1. l2' \in {val[c], None, l2} /\ UNCHANGED <<origin, l1, failed>>
        /\ (val' = [val EXCEPT ![c] = l2] \/ val' = [val EXCEPT ![c] = val[c]])
        /\ applied' = applied \cup {c}
    BY <1>6 DEF Apply
  <2>2. QED
    BY <1>1, <1>2, <1>3, <2>1 DEF GuardInv
<1>7. ASSUME NEW c \in Callers, Refuse(c) PROVE GuardInv'
  BY <1>1, <1>2, <1>7 DEF GuardInv, Refuse
<1>8. QED
  BY <1>4, <1>5, <1>6, <1>7

\* The calls of MultiCacheService.
LEMMA ServiceStep ==
  ASSUME GuardInv, NEW c \in Callers, Get(c) \/ Return(c) \/ Set(c) \/ Del(c) \/ Written(c) \/ Join(c)
  PROVE  GuardInv'
<1> USE MultiCacheAssumption
<1>1. PICK q \in Processes : q = ProcessOf[c]
  OBVIOUS
<1>2. None \in Value \ Large /\ Version \subseteq Value
  BY DEF Value, None
<1>3. "idle" \notin Leading /\ "idle" \notin Asking /\ "join" \notin Leading /\ "join" \notin Asking
      /\ {"idle", "join"} \subseteq Places
      /\ {"ask", "askPlain", "set", "del"} \subseteq Asking /\ "ask" \notin Leading
      /\ "askPlain" \notin Leading /\ "set" \notin Leading /\ "del" \notin Leading
  BY DEF Leading, Asking, Places
<1>4. CASE Get(c)
  <2>1. /\ pc[c] = "idle" /\ UNCHANGED <<origin, l1, l2, inflight, applied, failed, val, late>>
        /\ (Issue(c, "ask") \/ Issue(c, "askPlain"))
    BY <1>4 DEF Get
  <2>2. Moved(c, "ask") \/ Moved(c, "askPlain")
    BY <1>3, <2>1, IssueMoves DEF GuardInv
  <2>3. c \notin late
    BY <2>1 DEF GuardInv, LateOK
  <2>4. LeadersOK' /\ LateOK'
    BY <1>3, <2>1, <2>2, <2>3, MovesKeep
  <2>5. QED
    BY <2>1, <2>2, <2>4 DEF GuardInv, Moved
<1>5. CASE Set(c) \/ Del(c)
  <2>1. /\ pc[c] = "idle" /\ UNCHANGED <<origin, l2, inflight, applied, failed, late>>
        /\ (Issue(c, "set") \/ Issue(c, "del"))
    BY <1>5 DEF Set, Del
  <2>2. Moved(c, "set") \/ Moved(c, "del")
    BY <1>3, <2>1, IssueMoves DEF GuardInv
  <2>3. c \notin late
    BY <2>1 DEF GuardInv, LateOK
  <2>4. LeadersOK' /\ LateOK'
    BY <1>3, <2>1, <2>2, <2>3, MovesKeep
  <2>5. l1' \in [Processes -> Value \ Large] /\ val' \in [Callers -> Value]
    <3>1. origin \in Value /\ l1 \in [Processes -> Value \ Large] /\ val \in [Callers -> Value]
      BY <1>2 DEF GuardInv
    <3>2. CASE Set(c)
      <4>1. l1' = InL1(q, origin) /\ val' = [val EXCEPT ![c] = origin]
        BY <1>1, <3>2 DEF Set
      <4>2. QED
        BY <3>1, <4>1, L1Keeps
    <3>3. CASE Del(c)
      <4>1. l1' = [l1 EXCEPT ![q] = None] /\ val' = val
        BY <1>1, <3>3 DEF Del
      <4>2. QED
        BY <1>2, <3>1, <4>1
    <3>4. QED
      BY <1>5, <3>2, <3>3
  <2>6. QED
    BY <2>1, <2>2, <2>4, <2>5 DEF GuardInv, Moved
<1>6. CASE Return(c) \/ Written(c)
  <2>1. /\ pc[c] \in {"ask", "askPlain", "set", "del"} /\ UNCHANGED <<origin, l2, inflight>>
        /\ Receive(c, "idle") /\ val' = [val EXCEPT ![c] = None]
    BY <1>6 DEF Return, Written
  <2>2. Moved(c, "idle")
    BY <1>3, <2>1, ReceiveMoves DEF GuardInv
  <2>3. late' \subseteq late /\ c \notin late'
    BY <1>6 DEF Return, Written, GuardInv, LateOK
  <2>4. LeadersOK' /\ LateOK'
    BY <1>3, <2>1, <2>2, <2>3, MovesKeep
  <2>5. l1' \in [Processes -> Value \ Large] /\ val' \in [Callers -> Value]
    <3>1. l1' = l1 \/ l1' = InL1(q, val[c])
      BY <1>1, <1>6 DEF Return, Written
    <3>2. val[c] \in Value /\ l1 \in [Processes -> Value \ Large] /\ val \in [Callers -> Value]
      BY DEF GuardInv
    <3>3. InL1(q, val[c]) \in [Processes -> Value \ Large]
      BY <3>2, L1Keeps
    <3>4. QED
      BY <1>2, <2>1, <3>1, <3>2, <3>3
  <2>6. failed' \subseteq applied'
    BY <2>1 DEF Receive, Replied, GuardInv
  <2>7. QED
    BY <2>1, <2>2, <2>3, <2>4, <2>5, <2>6 DEF GuardInv, Moved
<1>7. CASE Join(c)
  <2>1. /\ pc[c] = "ask" /\ Receive(c, "join") /\ UNCHANGED <<origin, l1, l2, inflight, val, late>>
    BY <1>7 DEF Join, Missed
  <2>2. Moved(c, "join")
    BY <1>3, <2>1, ReceiveMoves DEF GuardInv
  <2>3. LeadersOK' /\ LateOK'
    BY <1>3, <2>1, <2>2, MovesKeep
  <2>4. failed' \subseteq applied'
    BY <2>1 DEF Receive, Replied, GuardInv
  <2>5. QED
    BY <2>1, <2>2, <2>3, <2>4 DEF GuardInv, Moved
<1>8. QED
  BY <1>4, <1>5, <1>6, <1>7

\* A caller leads only where nobody does, and where no factory has overtaken a
\* call that still waits.
LEMMA LeadStep ==
  ASSUME GuardInv, NEW c \in Callers, Lead(c)
  PROVE  GuardInv'
<1> USE MultiCacheAssumption
<1>1. PICK q \in Processes : q = ProcessOf[c]
  OBVIOUS
<1>2. /\ pc[c] = "ask" /\ inflight[q] = None /\ ReceiveAndIssue(c, "lock")
      /\ inflight' = [inflight EXCEPT ![q] = c] /\ UNCHANGED <<origin, l1, l2, val, late>>
  BY <1>1 DEF Lead, Missed
<1>3. Moved(c, "lock")
  BY <1>2, ReceiveAndIssueMoves DEF GuardInv, Asking
<1>4. /\ inflight' \in [Processes -> Callers \cup {None}] /\ inflight'[q] = c
      /\ \A p \in Processes : p # q => inflight'[p] = inflight[p]
  BY <1>2 DEF GuardInv, LeadersOK
<1>5. LeadersOK'
  <2>1. \A p \in Processes : inflight'[p] # None => ProcessOf[inflight'[p]] = p
    BY <1>1, <1>4 DEF GuardInv, LeadersOK
  <2>2. ASSUME NEW d \in Callers PROVE pc'[d] \in Leading <=> inflight'[ProcessOf[d]] = d
    <3>1. CASE d = c
      BY <1>1, <1>3, <1>4, <3>1 DEF Moved, Leading
    <3>2. CASE d # c
      <4>1. pc'[d] = pc[d] /\ ProcessOf[d] \in Processes
        BY <1>3, <3>2 DEF Moved
      <4>2. CASE ProcessOf[d] = q
        BY <1>2, <1>4, <3>2, <4>1, <4>2 DEF GuardInv, LeadersOK
      <4>3. CASE ProcessOf[d] # q
        BY <1>4, <4>1, <4>3 DEF GuardInv, LeadersOK
      <4>4. QED
        BY <4>2, <4>3
    <3>3. QED
      BY <3>1, <3>2
  <2>3. QED
    BY <1>4, <2>1, <2>2 DEF LeadersOK
<1>6. LateOK'
  <2> SUFFICES ASSUME NEW d \in late'
               PROVE  /\ pc'[d] \in {"ask", "join"}
                      /\ pc'[d] = "ask" =>
                           /\ inflight'[ProcessOf[d]] # None
                           /\ pc'[inflight'[ProcessOf[d]]] = "store"
                           /\ Before(wire'[ProcessOf[d]], d, inflight'[ProcessOf[d]])
    BY DEF LateOK
  <2>0. PICK p \in Processes : p = ProcessOf[d]
    BY <1>2 DEF GuardInv
  <2>1. /\ d \in Callers /\ pc[d] \in {"ask", "join"}
        /\ pc[d] = "ask" => /\ inflight[p] # None /\ pc[inflight[p]] = "store"
                            /\ Before(wire[p], d, inflight[p])
    BY <1>2, <2>0 DEF GuardInv, LateOK
  <2>2. d # c
    BY <1>1, <1>2, <2>0, <2>1
  <2>3. pc'[d] = pc[d]
    BY <1>3, <2>1, <2>2 DEF Moved
  <2>4. CASE pc[d] = "join"
    BY <2>3, <2>4
  <2>5. CASE pc[d] = "ask"
    <3>1. p # q /\ inflight'[p] = inflight[p] /\ inflight[p] \in Callers /\ inflight[p] # c
      BY <1>2, <1>4, <2>1, <2>5 DEF GuardInv, LeadersOK
    <3>2. pc'[inflight[p]] = "store" /\ Before(wire'[p], d, inflight[p])
      BY <1>3, <2>1, <2>2, <2>5, <3>1 DEF Moved
    <3>3. QED
      BY <2>0, <2>1, <2>3, <2>5, <3>1, <3>2
  <2>6. QED
    BY <2>1, <2>4, <2>5
<1>7. failed' \subseteq applied'
  BY <1>2 DEF ReceiveAndIssue, Replied, GuardInv
<1>8. QED
  BY <1>2, <1>3, <1>5, <1>6, <1>7 DEF GuardInv, Moved

\* The leader goes on.
LEMMA LeaderStep ==
  ASSUME GuardInv, NEW c \in Callers, Locked(c) \/ Factory(c) \/ Stored(c)
  PROVE  GuardInv'
<1> USE MultiCacheAssumption
<1>1. {"lock", "factory", "read", "store", "unlock"} \subseteq Leading
      /\ {"factory", "read"} \subseteq Places \ Asking /\ {"lock", "store", "unlock"} \subseteq Asking
  BY DEF Leading, Asking, Places
<1>2. c \notin late
  BY DEF Locked, Factory, Stored, GuardInv, LateOK
<1>3. CASE Locked(c)
  <2>1. /\ pc[c] = "lock" /\ UNCHANGED <<origin, l1, l2, inflight, val, late>>
        /\ (ReceiveAndIssue(c, "unlock") \/ Receive(c, "factory"))
    BY <1>3 DEF Locked
  <2>2. Moved(c, "unlock") \/ Moved(c, "factory")
    BY <1>1, <2>1, ReceiveAndIssueMoves, ReceiveMoves DEF GuardInv
  <2>3. LeadersOK' /\ LateOK'
    BY <1>1, <1>2, <2>1, <2>2, MovesKeep
  <2>4. failed' \subseteq applied'
    BY <2>1 DEF ReceiveAndIssue, Receive, Replied, GuardInv
  <2>5. QED
    BY <2>1, <2>2, <2>3, <2>4 DEF GuardInv, Moved
<1>4. CASE Factory(c)
  <2>1. /\ pc[c] = "factory" /\ UNCHANGED <<origin, l1, l2, inflight, applied, failed, late>>
        /\ \/ val' = [val EXCEPT ![c] = origin] /\ Goto(c, "read") /\ UNCHANGED wire
           \/ Issue(c, "unlock") /\ UNCHANGED val
    BY <1>4 DEF Factory
  <2>2. pc[c] \notin Asking
    BY <1>1, <2>1
  <2>3. ASSUME Goto(c, "read") /\ UNCHANGED wire PROVE Moved(c, "read")
    <3>1. /\ \A d \in Callers : pc'[d] = IF d = c THEN "read" ELSE pc[d]
          /\ pc' \in [Callers -> Places]
      BY <1>1, <2>3 DEF Goto, GuardInv, WiresOK
    <3>2. \A p \in Processes : Waiting(p)' = Waiting(p)
      BY <1>1, <2>2, <3>1 DEF Waiting
    <3>3. WiresOK'
      BY <2>3, <3>1, <3>2 DEF GuardInv, WiresOK
    <3>4. QED
      BY <2>3, <3>1, <3>3 DEF Moved
  <2>4. Moved(c, "read") \/ Moved(c, "unlock")
    BY <1>1, <2>1, <2>2, <2>3, IssueMoves DEF GuardInv
  <2>5. LeadersOK' /\ LateOK'
    BY <1>1, <1>2, <2>1, <2>4, MovesKeep
  <2>6. val' \in [Callers -> Value]
    BY <2>1 DEF GuardInv, Value, Version
  <2>7. QED
    BY <2>1, <2>4, <2>5, <2>6 DEF GuardInv, Moved
<1>5. CASE Stored(c)
  <2>1. /\ pc[c] = "store" /\ UNCHANGED <<origin, l1, l2, inflight, val, late>>
        /\ ReceiveAndIssue(c, "unlock") /\ Replied(c)
    BY <1>5 DEF Stored, ReceiveAndIssue
  <2>2. Moved(c, "unlock") /\ \A a : ~Before(wire[ProcessOf[c]], a, c)
    BY <1>1, <2>1, ReceiveAndIssueMoves, ReplyIsFirst DEF GuardInv
  <2>3. LeadersOK' /\ LateOK'
    BY <1>1, <1>2, <2>1, <2>2, MovesKeep
  <2>4. failed' \subseteq applied'
    BY <2>1 DEF Replied, GuardInv
  <2>5. QED
    BY <2>1, <2>2, <2>3, <2>4 DEF GuardInv, Moved
<1>6. QED
  BY <1>3, <1>4, <1>5

\* Storing overtakes the calls that wait for L2: their replies come first.
LEMMA StoreStep ==
  ASSUME GuardInv, NEW c \in Callers, Store(c)
  PROVE  GuardInv'
<1> USE MultiCacheAssumption
<1>1. PICK q \in Processes : q = ProcessOf[c]
  OBVIOUS
<1>2. /\ pc[c] = "read" /\ l1' = InL1(q, val[c]) /\ Issue(c, "store")
      /\ late' = late \cup {d \in Callers : ProcessOf[d] = q /\ pc[d] = "ask"}
      /\ UNCHANGED <<origin, l2, inflight, applied, failed, val>>
  BY <1>1 DEF Store
<1>3. /\ Moved(c, "store") /\ \A a \in Waiting(q) : Before(wire'[q], a, c)
  <2>1. pc[c] \notin Asking /\ "store" \in Asking
    BY <1>2 DEF Asking
  <2>2. QED
    BY <1>1, <1>2, <2>1, IssueMoves DEF GuardInv
<1>4. inflight[q] = c
  BY <1>1, <1>2 DEF GuardInv, LeadersOK, Leading
<1>5. LeadersOK'
  BY <1>2, <1>3 DEF GuardInv, LeadersOK, Moved, Leading
<1>6. LateOK'
  <2> SUFFICES ASSUME NEW d \in late'
               PROVE  /\ pc'[d] \in {"ask", "join"}
                      /\ pc'[d] = "ask" =>
                           /\ inflight'[ProcessOf[d]] # None
                           /\ pc'[inflight'[ProcessOf[d]]] = "store"
                           /\ Before(wire'[ProcessOf[d]], d, inflight'[ProcessOf[d]])
    BY DEF LateOK
  <2>0. d \in Callers /\ pc[d] \in {"ask", "join"} /\ d # c /\ pc'[d] = pc[d]
    BY <1>2, <1>3 DEF GuardInv, LateOK, Moved
  <2>1. CASE pc[d] = "ask" /\ ProcessOf[d] = q
    <3>1. d \in Waiting(q)
      BY <2>0, <2>1 DEF Waiting, Asking
    <3>2. QED
      BY <1>2, <1>3, <1>4, <2>0, <2>1, <3>1 DEF Moved
  <2>2. CASE pc[d] = "ask" /\ ProcessOf[d] # q
    <3>0. PICK p \in Processes : p = ProcessOf[d]
      BY <2>0
    <3>1. /\ inflight[p] # None /\ pc[inflight[p]] = "store" /\ Before(wire[p], d, inflight[p])
          /\ inflight[p] \in Callers
      BY <1>2, <2>2, <3>0 DEF GuardInv, LateOK, LeadersOK
    <3>2. inflight[p] # c
      BY <1>2, <3>1
    <3>3. QED
      BY <1>2, <1>3, <2>0, <3>0, <3>1, <3>2 DEF Moved
  <2>3. QED
    BY <2>0, <2>1, <2>2
<1>7. l1' \in [Processes -> Value \ Large]
  BY <1>2, L1Keeps DEF GuardInv
<1>8. QED
  BY <1>2, <1>3, <1>5, <1>6, <1>7 DEF GuardInv, Moved

\* The leader's promise settles, and nobody waits for it any more.
LEMMA UnlockStep ==
  ASSUME GuardInv, NEW c \in Callers, Unlock(c)
  PROVE  GuardInv'
<1> USE MultiCacheAssumption
<1>1. PICK q \in Processes : q = ProcessOf[c]
  OBVIOUS
<1>2. PICK returning : returning = {c} \cup {d \in Callers : pc[d] = "join" /\ inflight[ProcessOf[d]] = c}
  OBVIOUS
<1>3. /\ pc[c] = "unlock" /\ Replied(c) /\ wire' = [wire EXCEPT ![q] = Tail(@)]
      /\ pc' = [d \in Callers |-> IF d \in returning THEN "idle" ELSE pc[d]]
      /\ late' = late \ returning /\ val' = [val EXCEPT ![c] = None]
      /\ inflight' = [inflight EXCEPT ![q] = None] /\ UNCHANGED <<origin, l1, l2>>
  BY <1>1, <1>2 DEF Unlock, Settle
<1>4. inflight[q] = c /\ \A p \in Processes : inflight[p] = c => p = q
  BY <1>1, <1>3 DEF GuardInv, LeadersOK, Leading
<1>5. WiresOK'
  <2>1. /\ Tail(wire[q]) \in Seq(Callers) /\ IsInjective(Tail(wire[q]))
        /\ ToSet(Tail(wire[q])) = Waiting(q) \ {c}
    BY <1>1, <1>3, ReplyLeaves DEF GuardInv
  <2>2. /\ wire'[q] = Tail(wire[q]) /\ \A p \in Processes : p # q => wire'[p] = wire[p]
        /\ wire' \in [Processes -> Seq(Callers)]
    BY <1>3, <2>1 DEF GuardInv, WiresOK
  <2>3. pc' \in [Callers -> Places]
    BY <1>3 DEF GuardInv, WiresOK, Places
  <2>4. \A d \in Callers : pc'[d] \in Asking <=> d # c /\ pc[d] \in Asking
    BY <1>2, <1>3 DEF Asking
  <2>5. ASSUME NEW p \in Processes PROVE IsInjective(wire'[p]) /\ ToSet(wire'[p]) = Waiting(p)'
    <3>1. CASE p = q
      <4>1. Waiting(p)' = Waiting(q) \ {c}
        BY <2>4, <3>1 DEF Waiting
      <4>2. QED
        BY <2>1, <2>2, <3>1, <4>1
    <3>2. CASE p # q
      <4>1. Waiting(p)' = Waiting(p)
        BY <1>1, <2>4, <3>2 DEF Waiting
      <4>2. QED
        BY <2>2, <3>2, <4>1 DEF GuardInv, WiresOK
    <3>3. QED
      BY <3>1, <3>2
  <2>6. QED
    BY <2>2, <2>3, <2>5 DEF WiresOK
<1>6. /\ inflight' \in [Processes -> Callers \cup {None}] /\ inflight'[q] = None
      /\ \A p \in Processes : p # q => inflight'[p] = inflight[p]
  BY <1>3 DEF GuardInv, LeadersOK
<1>7. LeadersOK'
  <2>1. \A p \in Processes : inflight'[p] # None => ProcessOf[inflight'[p]] = p
    BY <1>6 DEF GuardInv, LeadersOK
  <2>2. ASSUME NEW d \in Callers PROVE pc'[d] \in Leading <=> inflight'[ProcessOf[d]] = d
    <3>1. pc'[d] \in Leading <=> d # c /\ pc[d] \in Leading
      BY <1>2, <1>3 DEF Leading
    <3>2. ProcessOf[d] \in Processes /\ (pc[d] \in Leading <=> inflight[ProcessOf[d]] = d) /\ d # None
      BY DEF GuardInv, LeadersOK
    <3>3. CASE ProcessOf[d] = q
      BY <1>4, <1>6, <3>1, <3>2, <3>3
    <3>4. CASE ProcessOf[d] # q
      BY <1>1, <1>6, <3>1, <3>2, <3>4
    <3>5. QED
      BY <3>3, <3>4
  <2>3. QED
    BY <1>6, <2>1, <2>2 DEF LeadersOK
<1>8. LateOK'
  <2> SUFFICES ASSUME NEW d \in late'
               PROVE  /\ pc'[d] \in {"ask", "join"}
                      /\ pc'[d] = "ask" =>
                           /\ inflight'[ProcessOf[d]] # None
                           /\ pc'[inflight'[ProcessOf[d]]] = "store"
                           /\ Before(wire'[ProcessOf[d]], d, inflight'[ProcessOf[d]])
    BY DEF LateOK
  <2>0. PICK p \in Processes : p = ProcessOf[d]
    BY <1>3 DEF GuardInv
  <2>1. /\ d \in Callers /\ pc[d] \in {"ask", "join"} /\ pc'[d] = pc[d] /\ d # c
        /\ pc[d] = "ask" => /\ inflight[p] # None /\ pc[inflight[p]] = "store"
                            /\ Before(wire[p], d, inflight[p])
    BY <1>2, <1>3, <2>0 DEF GuardInv, LateOK
  <2>2. CASE pc[d] = "ask"
    <3>1. p # q
      BY <1>3, <1>4, <2>1, <2>2
    <3>2. inflight'[p] = inflight[p] /\ wire'[p] = wire[p] /\ inflight[p] \in Callers
      BY <1>3, <1>6, <2>1, <2>2, <3>1 DEF GuardInv, LeadersOK, WiresOK
    <3>3. inflight[p] \notin returning
      BY <1>2, <1>3, <2>1, <2>2
    <3>4. pc'[inflight[p]] = "store"
      BY <1>3, <2>1, <2>2, <3>2, <3>3
    <3>5. QED
      BY <2>0, <2>1, <2>2, <3>2, <3>4
  <2>3. QED
    BY <2>1, <2>2
<1>9. val' \in [Callers -> Value] /\ failed' \subseteq applied'
  BY <1>3 DEF GuardInv, Value, Replied
<1>10. QED
  BY <1>3, <1>5, <1>7, <1>8, <1>9 DEF GuardInv

\* The invariant is inductive.
LEMMA GuardStep == GuardInv /\ [Next]_vars => GuardInv'
<1> SUFFICES ASSUME GuardInv, [Next]_vars PROVE GuardInv'
  OBVIOUS
<1>1. CASE UNCHANGED vars
  BY <1>1 DEF vars, GuardInv, WiresOK, LeadersOK, LateOK, Waiting, Before
<1>2. QED
  BY <1>1, EnvironmentStep, ServiceStep, LeadStep, LeaderStep, StoreStep, UnlockStep
     DEF Next, Step

\* The invariant of the guard's leaders and wires holds of every behaviour.
THEOREM GuardInvariantHolds == Spec => []GuardInv
<1>1. QED
  BY GuardInitially, GuardStep, PTL DEF Spec

\* A process runs one factory at a time, the one its inflight map holds, and a
\* call that was waiting when a factory succeeded does not run it again.
THEOREM FactoriesDoNotStampede == Spec => []OneFactoryPerMiss
<1>1. GuardInv => OneFactoryPerMiss
  <2> SUFFICES ASSUME GuardInv PROVE OneFactoryPerMiss
    OBVIOUS
  <2>1. ASSUME NEW p \in Processes
        PROVE  Leaders(p) = IF inflight[p] = None THEN {} ELSE {inflight[p]}
    BY MultiCacheAssumption DEF GuardInv, LeadersOK, Leaders
  <2>2. \A c \in late : pc[c] \notin Leading
    BY DEF GuardInv, LateOK, Leading
  <2>3. QED
    BY <2>1, <2>2 DEF OneFactoryPerMiss
<1>2. QED
  BY <1>1, GuardInvariantHolds, PTL

LEMMA GuardInvTypes == GuardInv => TypeOK
BY DEF GuardInv, WiresOK, LeadersOK, Waiting, Places, TypeOK

-----------------------------------------------------------------------------
\* CachedRepository.

\* No write is on its way.
Quiet == \A w \in Writers : write[w] = "idle"

ReadCall ==
  [at : {"idle", "ask", "hit", "query", "fetched", "store"}, copy : Held]

RepositoryShape ==
  /\ doc \in 0..MaxWrites
  /\ near \in [Services -> Copy \cup {NoCopy}]
  /\ far \in Copy \cup {NoCopy}
  /\ read \in [Readers -> ReadCall]
  /\ write \in [Writers -> {"idle", "invalidate", "scan", "delete"}]
  /\ last \in [Services -> 0..doc]

\* A read holds a copy that is fresh, unless it overlapped a write, and that
\* has spent no time in a cache, unless it found it there.
ReadOK(r) ==
  LET copy == read[r].copy
  IN  /\ IF read[r].at = "hit" THEN copy.age < 2 * CacheTTL ELSE copy.age = 0
      /\ read[r].at # "idle" /\ ~copy.tainted => Quiet
      /\ read[r].at \in {"hit", "fetched", "store"} /\ ~copy.tainted => copy.version = doc

FarOK ==
  far # NoCopy =>
    /\ far.ttl > 0 /\ far.age + far.ttl <= 2 * CacheTTL
    /\ Quiet /\ ~far.tainted => far.version = doc

\* Once a write has cleared its L1, only tainted copies come back to it before
\* the write returns.
NearOK(s) ==
  near[s] # NoCopy =>
    /\ near[s].ttl > 0 /\ near[s].age + near[s].ttl < 2 * CacheTTL + DefaultTTL
    /\ ~near[s].tainted /\ ~Writing(s) => near[s].version >= last[s]
    /\ ~near[s].tainted =>
         \A w \in Writers : ServiceOf[w] = s => write[w] \notin {"scan", "delete"}

RepositoryInv ==
  /\ RepositoryShape
  /\ \A r \in Readers : ReadOK(r)
  /\ FarOK
  /\ \A s \in Services : NearOK(s)

-----------------------------------------------------------------------------

\* What the operators on copies keep and change.
LEMMA CopyFacts ==
  ASSUME NEW copy \in Copy
  PROVE  /\ copy # NoCopy
         /\ copy.version \in 0..MaxWrites /\ copy.tainted \in BOOLEAN
         /\ copy.age \in Nat /\ copy.ttl \in Nat
BY DEF Copy, NoCopy

LEMMA HeldFacts ==
  ASSUME NEW copy \in Held
  PROVE  /\ copy.version \in 0..MaxWrites /\ copy.tainted \in BOOLEAN
         /\ copy.age \in Nat /\ copy.ttl = 0
BY DEF Held

LEMMA KeptFacts ==
  ASSUME NEW copy \in Held, NEW ttl \in Nat
  PROVE  /\ Kept(copy, ttl) \in Copy /\ Kept(copy, ttl).ttl = ttl
         /\ Kept(copy, ttl).version = copy.version /\ Kept(copy, ttl).age = copy.age
         /\ Kept(copy, ttl).tainted = copy.tainted
BY DEF Held, Kept, Copy

LEMMA TaintFacts ==
  ASSUME NEW copy
  PROVE  /\ copy \in Copy => /\ Taint(copy) \in Copy /\ Taint(copy).tainted
                             /\ Taint(copy).version = copy.version
                             /\ Taint(copy).age = copy.age /\ Taint(copy).ttl = copy.ttl
         /\ copy \in Held => /\ Taint(copy) \in Held /\ Taint(copy).tainted
                             /\ Taint(copy).version = copy.version
                             /\ Taint(copy).age = copy.age
BY DEF Held, Copy, Taint

\* Time moves from a copy's time to live to its age, and ends it at 1.
LEMMA OlderFacts ==
  ASSUME NEW copy \in Copy \cup {NoCopy}, copy # NoCopy => copy.ttl > 0
  PROVE  /\ Older(copy) \in Copy \cup {NoCopy}
         /\ Older(copy) # NoCopy =>
              /\ copy # NoCopy
              /\ Older(copy).ttl > 0 /\ Older(copy).age + Older(copy).ttl = copy.age + copy.ttl
              /\ Older(copy).version = copy.version /\ Older(copy).tainted = copy.tainted
<1>1. CASE copy = NoCopy
  BY <1>1 DEF Older
<1>2. CASE copy # NoCopy /\ copy.ttl = 1
  BY <1>2 DEF Older
<1>3. CASE copy # NoCopy /\ copy.ttl # 1
  <2>1. /\ copy = [version |-> copy.version, tainted |-> copy.tainted, age |-> copy.age, ttl |-> copy.ttl]
        /\ copy.age \in Nat /\ copy.ttl \in Nat /\ copy.ttl > 1
        /\ copy.version \in 0..MaxWrites /\ copy.tainted \in BOOLEAN
    BY <1>3 DEF Copy
  <2>2. Older(copy) = [version |-> copy.version, tainted |-> copy.tainted,
                       age |-> copy.age + 1, ttl |-> copy.ttl - 1]
    BY <1>3, <2>1 DEF Older
  <2>3. copy.age + 1 \in Nat /\ copy.ttl - 1 \in Nat
    BY <2>1
  <2>4. Older(copy) \in Copy
    BY <2>1, <2>2, <2>3 DEF Copy
  <2>5. QED
    BY <1>3, <2>1, <2>2, <2>4
<1>4. QED
  BY <1>1, <1>2, <1>3

\* Nobody writes exactly when no service does.
LEMMA QuietIsNotWriting == Quiet <=> \A s \in Services : ~Writing(s)
BY CachedRepositoryAssumption DEF Quiet, Writing

\* There are no copies at the start.
LEMMA RepositoryInitially == RepositoryInit => RepositoryInv
<1> SUFFICES ASSUME RepositoryInit PROVE RepositoryInv
  OBVIOUS
<1>1. Blank \in Held /\ Blank.age = 0
  BY CachedRepositoryAssumption DEF Blank, Held
<1>2. RepositoryShape
  BY <1>1, CachedRepositoryAssumption DEF RepositoryInit, RepositoryShape, ReadCall, Idle
<1>3. \A r \in Readers : ReadOK(r)
  BY <1>1 DEF RepositoryInit, ReadOK, Idle
<1>4. QED
  BY <1>2, <1>3 DEF RepositoryInit, RepositoryInv, FarOK, NearOK

-----------------------------------------------------------------------------

\* A step of a read changes that read and, when it keeps its copy, one cache.
LEMMA ReadStep ==
  ASSUME RepositoryInv, NEW r \in Readers, Read(r)
  PROVE  RepositoryInv'
<1> USE CachedRepositoryAssumption DEF RepositoryInv, ReadCall
<1>1. UNCHANGED <<doc, write, last>> /\ (Quiet' <=> Quiet) /\ \A s : Writing(s)' <=> Writing(s)
  BY DEF Read, Miss, Answer, KeepNear, Query, StoreNear, StoreFar, ReadFails, Quiet, Writing
<1>2. PICK s \in Services : s = ServiceOf[r]
  OBVIOUS
<1>3. /\ read[r].copy \in Held /\ Blank \in Held /\ Blank.age = 0 /\ Idle.at = "idle"
      /\ Idle.copy = Blank /\ Idle \in [at : {"idle"}, copy : Held]
  BY DEF RepositoryShape, Blank, Held, Idle
<1>4. ASSUME NEW new \in ReadCall,
             read' = [read EXCEPT ![r] = new], ReadOK(r)'
      PROVE  /\ read' \in [Readers -> ReadCall]
             /\ \A q \in Readers : ReadOK(q)'
  BY <1>1, <1>4 DEF RepositoryShape, ReadOK
<1>5. UNCHANGED far => FarOK'
  BY <1>1 DEF FarOK
<1>6. ASSUME NEW t \in Services, near'[t] = near[t] PROVE NearOK(t)'
  BY <1>1, <1>6 DEF NearOK
<1>7. CASE Miss(r)
  <2> DEFINE new == [at |-> "ask", copy |-> [Blank EXCEPT !.tainted = \E t \in Services : Writing(t)]]
  <2>1. /\ new \in ReadCall
        /\ new.copy.age = 0 /\ new.at = "ask" /\ (new.copy.tainted <=> \E t \in Services : Writing(t))
    BY <1>3 DEF Held, Blank
  <2>2. read' = [read EXCEPT ![r] = new] /\ UNCHANGED <<near, far>>
    BY <1>7 DEF Miss
  <2> HIDE DEF new
  <2>3. read'[r] = new
    BY <2>2 DEF RepositoryShape
  <2>4. ReadOK(r)'
    BY <1>1, <2>1, <2>3, QuietIsNotWriting DEF ReadOK
  <2>5. QED
    BY <1>1, <1>4, <1>5, <1>6, <2>1, <2>2, <2>4 DEF RepositoryShape
<1>8. CASE Answer(r) /\ far = NoCopy
  <2> DEFINE new == [read[r] EXCEPT !.at = "query"]
  <2>1. /\ new \in ReadCall
        /\ new.copy = read[r].copy /\ new.at = "query"
    BY <1>3 DEF RepositoryShape
  <2>2. read' = [read EXCEPT ![r] = new] /\ UNCHANGED <<near, far>> /\ read[r].at = "ask"
    BY <1>8 DEF Answer
  <2> HIDE DEF new
  <2>3. read'[r] = new
    BY <2>2 DEF RepositoryShape
  <2>4. ReadOK(r)'
    BY <1>1, <2>1, <2>2, <2>3 DEF ReadOK
  <2>5. QED
    BY <1>1, <1>4, <1>5, <1>6, <2>1, <2>2, <2>4 DEF RepositoryShape
<1>9. CASE Answer(r) /\ far # NoCopy
  <2> DEFINE new == [at |-> "hit",
                     copy |-> [far EXCEPT !.ttl = 0, !.tainted = @ \/ read[r].copy.tainted]]
  <2>0. far \in Copy
    BY <1>9 DEF RepositoryShape
  <2>1. /\ new \in ReadCall
        /\ new.copy.age = far.age /\ new.at = "hit" /\ new.copy.version = far.version
        /\ (new.copy.tainted <=> far.tainted \/ read[r].copy.tainted)
    BY <2>0, HeldFacts, <1>3 DEF Copy, Held
  <2>2. read' = [read EXCEPT ![r] = new] /\ UNCHANGED <<near, far>> /\ read[r].at = "ask"
    BY <1>9 DEF Answer
  <2> HIDE DEF new
  <2>3. read'[r] = new
    BY <2>2 DEF RepositoryShape
  <2>4. far.age < 2 * CacheTTL
    BY <2>0, <1>9, CopyFacts DEF FarOK
  <2>5. ~read[r].copy.tainted => Quiet
    BY <2>2 DEF ReadOK
  <2>6. ReadOK(r)'
    BY <1>1, <1>9, <2>1, <2>3, <2>4, <2>5 DEF ReadOK, FarOK
  <2>7. QED
    BY <1>1, <1>4, <1>5, <1>6, <2>1, <2>2, <2>6 DEF RepositoryShape
<1>10. CASE Query(r)
  <2> DEFINE new == [at |-> "fetched", copy |-> [read[r].copy EXCEPT !.version = doc]]
  <2>1. /\ new \in ReadCall
        /\ new.copy.age = read[r].copy.age /\ new.at = "fetched" /\ new.copy.version = doc
        /\ new.copy.tainted = read[r].copy.tainted
    BY <1>3 DEF RepositoryShape, Held
  <2>2. read' = [read EXCEPT ![r] = new] /\ UNCHANGED <<near, far>> /\ read[r].at = "query"
    BY <1>10 DEF Query, RepositoryShape
  <2> HIDE DEF new
  <2>3. read'[r] = new
    BY <2>2 DEF RepositoryShape
  <2>4. ReadOK(r)'
    BY <1>1, <2>1, <2>2, <2>3 DEF ReadOK
  <2>5. QED
    BY <1>1, <1>4, <1>5, <1>6, <2>1, <2>2, <2>4 DEF RepositoryShape
<1>11. ASSUME read'[r].at = "idle", read' = [read EXCEPT ![r] = Idle]
       PROVE  /\ read' \in [Readers -> ReadCall]
              /\ \A q \in Readers : ReadOK(q)'
  <2>1. read'[r] = Idle
    BY <1>11 DEF RepositoryShape
  <2>2. ReadOK(r)'
    BY <1>3, <2>1 DEF ReadOK
  <2>3. QED
    BY <1>3, <1>4, <1>11, <2>2
<1>12. CASE ReadFails(r)
  <2>1. read' = [read EXCEPT ![r] = Idle] /\ UNCHANGED <<near, far>>
    BY <1>12 DEF ReadFails
  <2>2. read'[r].at = "idle"
    BY <1>3, <2>1 DEF RepositoryShape
  <2>3. QED
    BY <1>1, <1>5, <1>6, <1>11, <2>1, <2>2 DEF RepositoryShape
<1>13. ASSUME NEW ttl \in Nat \ {0}, near' = [near EXCEPT ![ServiceOf[r]] = Kept(read[r].copy, ttl)],
              read[r].copy.age + ttl < 2 * CacheTTL + DefaultTTL,
              read[r].at \in {"hit", "fetched"}
       PROVE  near' \in [Services -> Copy \cup {NoCopy}] /\ \A t \in Services : NearOK(t)'
  <2>1. /\ Kept(read[r].copy, ttl) \in Copy /\ Kept(read[r].copy, ttl).ttl = ttl
        /\ Kept(read[r].copy, ttl).version = read[r].copy.version
        /\ Kept(read[r].copy, ttl).age = read[r].copy.age
        /\ Kept(read[r].copy, ttl).tainted = read[r].copy.tainted
    BY <1>3, KeptFacts
  <2>2. near'[s] = Kept(read[r].copy, ttl) /\ near' \in [Services -> Copy \cup {NoCopy}]
    BY <1>2, <1>13, <2>1 DEF RepositoryShape
  <2>3. ASSUME ~read[r].copy.tainted
        PROVE  read[r].copy.version >= last[s] /\ Quiet
    <3>1. read[r].copy.version = doc /\ Quiet
      BY <1>13, <2>3 DEF ReadOK
    <3>2. QED
      BY <3>1 DEF RepositoryShape
  <2>4. NearOK(s)'
    <3>1. near'[s].ttl > 0 /\ near'[s].age + near'[s].ttl < 2 * CacheTTL + DefaultTTL
      BY <1>13, <2>1, <2>2
    <3>2. ~near'[s].tainted => near'[s].version >= last'[s]
      BY <1>1, <2>1, <2>2, <2>3
    <3>3. ~near'[s].tainted => \A w \in Writers : write'[w] = "idle"
      BY <1>1, <2>1, <2>2, <2>3 DEF Quiet
    <3>4. QED
      BY <3>1, <3>2, <3>3 DEF NearOK
  <2>5. ASSUME NEW t \in Services, t # s PROVE NearOK(t)'
    BY <1>2, <1>6, <1>13, <2>5 DEF RepositoryShape
  <2>6. QED
    BY <2>2, <2>4, <2>5
<1>14. CASE KeepNear(r)
  <2>1. /\ read' = [read EXCEPT ![r] = Idle] /\ UNCHANGED far /\ read[r].at = "hit"
        /\ near' = [near EXCEPT ![ServiceOf[r]] = Kept(read[r].copy, DefaultTTL)]
    BY <1>14 DEF KeepNear
  <2>2. read'[r].at = "idle"
    BY <1>3, <2>1 DEF RepositoryShape
  <2>3. read[r].copy.age + DefaultTTL < 2 * CacheTTL + DefaultTTL
    <3>1. read[r].copy.age \in Nat /\ read[r].copy.age < 2 * CacheTTL
      BY <1>3, <2>1, HeldFacts DEF ReadOK
    <3>2. QED
      BY <3>1
  <2>4. QED
    BY <1>1, <1>5, <1>11, <1>13, <2>1, <2>2, <2>3 DEF RepositoryShape
<1>15. CASE StoreNear(r)
  <2> DEFINE new == [read[r] EXCEPT !.at = "store"]
  <2>1. /\ new \in ReadCall
        /\ new.copy = read[r].copy /\ new.at = "store"
    BY <1>3 DEF RepositoryShape
  <2>2. read' = [read EXCEPT ![r] = new] /\ UNCHANGED far /\ read[r].at = "fetched"
    BY <1>15 DEF StoreNear
  <2> HIDE DEF new
  <2>3. read'[r] = new
    BY <2>2 DEF RepositoryShape
  <2>4. ReadOK(r)'
    BY <1>1, <2>1, <2>2, <2>3 DEF ReadOK
  <2>5. read[r].copy.age + CacheTTL < 2 * CacheTTL + DefaultTTL
    BY <2>2 DEF ReadOK
  <2>6. near' = [near EXCEPT ![ServiceOf[r]] = Kept(read[r].copy, CacheTTL)]
    BY <1>15 DEF StoreNear
  <2>7. near' \in [Services -> Copy \cup {NoCopy}] /\ \A t \in Services : NearOK(t)'
    BY <1>13, <2>2, <2>5, <2>6
  <2>8. QED
    BY <1>1, <1>4, <1>5, <2>1, <2>2, <2>4, <2>7 DEF RepositoryShape
<1>16. CASE StoreFar(r)
  <2>1. /\ read' = [read EXCEPT ![r] = Idle] /\ UNCHANGED near /\ read[r].at = "store"
        /\ far' = Kept(read[r].copy, 2 * CacheTTL)
    BY <1>16 DEF StoreFar
  <2>2. read'[r].at = "idle"
    BY <1>3, <2>1 DEF RepositoryShape
  <2>3. 2 * CacheTTL \in Nat /\ 2 * CacheTTL > 0
    OBVIOUS
  <2>4. /\ far' \in Copy /\ far'.ttl = 2 * CacheTTL /\ far'.version = read[r].copy.version
        /\ far'.age = read[r].copy.age /\ far'.tainted = read[r].copy.tainted
    BY <1>3, <2>1, <2>3, KeptFacts
  <2>5. read[r].copy.age = 0 /\ (~read[r].copy.tainted => read[r].copy.version = doc)
    BY <2>1 DEF ReadOK
  <2>6. FarOK'
    BY <1>1, <2>3, <2>4, <2>5 DEF FarOK
  <2>7. QED
    BY <1>1, <1>6, <1>11, <2>1, <2>2, <2>4, <2>6 DEF RepositoryShape
<1>17. QED
  BY <1>7, <1>8, <1>9, <1>10, <1>12, <1>14, <1>15, <1>16 DEF Read

\* A commit taints every read in progress, and no cache is the wiser yet.
LEMMA CommitStep ==
  ASSUME RepositoryInv, NEW w \in Writers, Commit(w)
  PROVE  RepositoryInv'
<1> USE CachedRepositoryAssumption DEF RepositoryInv, ReadCall
<1>1. /\ doc' = doc + 1 /\ doc \in Nat /\ doc' \in 0..MaxWrites /\ UNCHANGED <<near, far>>
      /\ last' = [last EXCEPT ![ServiceOf[w]] = doc'] /\ write' = [write EXCEPT ![w] = "invalidate"]
      /\ read' = [r \in Readers |-> IF read[r].at = "idle" THEN Idle
                                   ELSE [read[r] EXCEPT !.copy = Taint(@)]]
  BY DEF Commit, RepositoryShape
<1>2. Blank \in Held /\ Blank.age = 0 /\ Idle.at = "idle" /\ Idle.copy = Blank /\ ~Blank.tainted
      /\ Idle \in [at : {"idle"}, copy : Held]
  BY DEF Blank, Held, Idle
<1>3. ASSUME NEW r \in Readers
      PROVE  /\ read'[r] \in ReadCall
             /\ ReadOK(r)'
  <2>1. CASE read[r].at = "idle"
    <3>1. read'[r] = Idle
      BY <1>1, <2>1
    <3>2. QED
      BY <1>2, <3>1 DEF ReadOK
  <2>2. CASE read[r].at # "idle"
    <3>1. read[r].copy \in Held /\ read[r] \in ReadCall
      BY DEF RepositoryShape
    <3>2. read'[r] = [read[r] EXCEPT !.copy = Taint(@)]
      BY <1>1, <2>2
    <3>3. read'[r].at = read[r].at /\ read'[r].copy = Taint(read[r].copy)
      BY <3>1, <3>2
    <3>4. /\ Taint(read[r].copy) \in Held /\ Taint(read[r].copy).tainted
          /\ Taint(read[r].copy).age = read[r].copy.age
      BY <3>1, TaintFacts
    <3>5. read'[r] \in ReadCall
      BY <3>1, <3>2, <3>4
    <3>6. QED
      BY <3>3, <3>4, <3>5 DEF ReadOK
  <2>3. QED
    BY <2>1, <2>2
<1>4. RepositoryShape'
  <2>1. read' \in [Readers -> ReadCall]
    BY <1>1, <1>3
  <2>2. last' \in [Services -> 0..doc']
    BY <1>1 DEF RepositoryShape
  <2>3. QED
    BY <1>1, <2>1, <2>2 DEF RepositoryShape
<1>5. write'[w] = "invalidate" /\ \A v \in Writers : v # w => write'[v] = write[v]
  BY <1>1 DEF RepositoryShape
<1>6. FarOK'
  BY <1>1, <1>5 DEF FarOK, Quiet
<1>7. ASSUME NEW s \in Services, s # ServiceOf[w]
      PROVE  last'[s] = last[s] /\ (Writing(s)' <=> Writing(s))
  BY <1>1, <1>5, <1>7 DEF RepositoryShape, Writing
<1>8. Writing(ServiceOf[w])'
  BY <1>5 DEF Writing
<1>9. ASSUME NEW s \in Services PROVE NearOK(s)'
  <2>1. CASE s = ServiceOf[w]
    BY <1>1, <1>5, <1>8, <2>1 DEF NearOK
  <2>2. CASE s # ServiceOf[w]
    BY <1>1, <1>5, <1>7, <2>2 DEF NearOK
  <2>3. QED
    BY <2>1, <2>2
<1>10. QED
  BY <1>3, <1>4, <1>6, <1>9

\* An invalidation only takes copies away, or fails and taints the one it leaves.
LEMMA InvalidateStep ==
  ASSUME RepositoryInv, NEW w \in Writers,
         ClearNear(w) \/ Scan(w) \/ DeleteFar(w) \/ InvalidationFails(w)
  PROVE  RepositoryInv'
<1> USE CachedRepositoryAssumption DEF RepositoryInv, ReadCall
<1>1. /\ UNCHANGED <<doc, read, last>> /\ write[w] # "idle"
      /\ write' \in [Writers -> {"idle", "invalidate", "scan", "delete"}]
      /\ \A v \in Writers : v # w => write'[v] = write[v]
  BY DEF ClearNear, Scan, DeleteFar, InvalidationFails, RepositoryShape
<1>2. ~Quiet
  BY <1>1 DEF Quiet
<1>3. \A r \in Readers : ReadOK(r)'
  BY <1>1, <1>2 DEF ReadOK
<1>4. ASSUME NEW s \in Services, s # ServiceOf[w] PROVE Writing(s)' <=> Writing(s)
  BY <1>1, <1>4 DEF Writing
<1>5. \/ far' = far /\ (far = NoCopy \/ write'[w] # "idle")
      \/ far' = NoCopy
      \/ far # NoCopy /\ far' = Taint(far)
  BY DEF ClearNear, Scan, DeleteFar, InvalidationFails, LeftBehind, RepositoryShape
<1>6. far # NoCopy => far \in Copy
  BY DEF RepositoryShape
<1>7. far' \in Copy \cup {NoCopy} /\ FarOK'
  <2>1. CASE far' = far /\ (far = NoCopy \/ write'[w] # "idle")
    BY <1>1, <2>1 DEF FarOK, Quiet, RepositoryShape
  <2>2. CASE far' = NoCopy
    BY <2>2 DEF FarOK
  <2>3. CASE far # NoCopy /\ far' = Taint(far)
    BY <1>6, <2>3, TaintFacts DEF FarOK
  <2>4. QED
    BY <1>5, <2>1, <2>2, <2>3
<1>8. near' \in [Services -> Copy \cup {NoCopy}] /\ \A s \in Services : NearOK(s)'
  <2>1. CASE ClearNear(w)
    <3>1. near' = [near EXCEPT ![ServiceOf[w]] = NoCopy]
      BY <2>1 DEF ClearNear
    <3>2. ASSUME NEW s \in Services PROVE NearOK(s)'
      <4>1. CASE s = ServiceOf[w]
        BY <3>1, <4>1 DEF NearOK, RepositoryShape
      <4>2. CASE s # ServiceOf[w]
        <5>1. near'[s] = near[s]
          BY <3>1, <4>2 DEF RepositoryShape
        <5>2. \A v \in Writers : ServiceOf[v] = s => write'[v] = write[v]
          BY <1>1, <4>2
        <5>3. QED
          BY <1>1, <1>4, <4>2, <5>1, <5>2 DEF NearOK
      <4>3. QED
        BY <4>1, <4>2
    <3>3. QED
      BY <3>1, <3>2 DEF RepositoryShape
  <2>2. CASE ~ClearNear(w)
    <3>1. near' = near /\ write[w] \in {"scan", "delete"}
      BY <2>2 DEF Scan, DeleteFar, InvalidationFails
    <3>2. ASSUME NEW s \in Services PROVE NearOK(s)'
      <4>1. CASE s = ServiceOf[w]
        <5>1. near[s] # NoCopy => near[s].tainted
          BY <3>1, <4>1 DEF NearOK
        <5>2. QED
          BY <1>1, <3>1, <5>1 DEF NearOK
      <4>2. CASE s # ServiceOf[w]
        <5>1. \A v \in Writers : ServiceOf[v] = s => write'[v] = write[v]
          BY <1>1, <4>2
        <5>2. QED
          BY <1>1, <1>4, <3>1, <4>2, <5>1 DEF NearOK
      <4>3. QED
        BY <4>1, <4>2
    <3>3. QED
      BY <3>1, <3>2 DEF RepositoryShape
  <2>3. QED
    BY <2>1, <2>2
<1>9. QED
  BY <1>1, <1>3, <1>7, <1>8 DEF RepositoryShape

\* A process that dies in a write leaves a tainted copy in L2.
LEMMA CrashStep ==
  ASSUME RepositoryInv, NEW c \in Services, Crash(c)
  PROVE  RepositoryInv'
<1> USE CachedRepositoryAssumption DEF RepositoryInv, ReadCall
<1>1. /\ near' = [near EXCEPT ![c] = NoCopy]
      /\ far' = IF Writing(c) THEN LeftBehind(far) ELSE far
      /\ read' = [r \in Readers |-> IF ServiceOf[r] = c THEN Idle ELSE read[r]]
      /\ write' = [w \in Writers |-> IF ServiceOf[w] = c THEN "idle" ELSE write[w]]
      /\ UNCHANGED <<doc, last>>
  BY DEF Crash
<1>2. Blank \in Held /\ Blank.age = 0 /\ Idle.at = "idle" /\ Idle.copy = Blank
      /\ Idle \in ReadCall
  BY DEF Blank, Held, Idle
<1>3. (Quiet => Quiet') /\ \A s \in Services : s # c => (Writing(s)' <=> Writing(s))
  BY <1>1 DEF Quiet, Writing
<1>4. ~Writing(c) => (Quiet' => Quiet)
  BY <1>1 DEF Quiet, Writing
<1>5. ASSUME NEW r \in Readers
      PROVE  /\ read'[r] \in ReadCall
             /\ ReadOK(r)'
  <2>1. CASE ServiceOf[r] = c
    <3>1. read'[r] = Idle
      BY <1>1, <2>1
    <3>2. QED
      BY <1>2, <3>1 DEF ReadOK
  <2>2. CASE ServiceOf[r] # c
    <3>1. read'[r] = read[r]
      BY <1>1, <2>2
    <3>2. QED
      BY <1>1, <1>3, <3>1 DEF ReadOK, RepositoryShape
  <2>3. QED
    BY <2>1, <2>2
<1>6. far' \in Copy \cup {NoCopy} /\ FarOK'
  <2>1. CASE ~Writing(c)
    BY <1>1, <1>4, <2>1 DEF FarOK, RepositoryShape
  <2>2. CASE Writing(c) /\ far = NoCopy
    BY <1>1, <2>2 DEF FarOK, LeftBehind
  <2>3. CASE Writing(c) /\ far # NoCopy
    <3>1. far \in Copy /\ far' = Taint(far)
      BY <1>1, <2>3 DEF RepositoryShape, LeftBehind
    <3>2. QED
      BY <2>3, <3>1, TaintFacts DEF FarOK
  <2>4. QED
    BY <2>1, <2>2, <2>3
<1>7. ASSUME NEW s \in Services PROVE NearOK(s)'
  <2>1. CASE s = c
    BY <1>1, <2>1 DEF NearOK, RepositoryShape
  <2>2. CASE s # c
    <3>1. near'[s] = near[s] /\ \A v \in Writers : ServiceOf[v] = s => write'[v] = write[v]
      BY <1>1, <2>2 DEF RepositoryShape
    <3>2. QED
      BY <1>1, <1>3, <2>2, <3>1 DEF NearOK
  <2>3. QED
    BY <2>1, <2>2
<1>8. RepositoryShape'
  BY <1>1, <1>5, <1>6 DEF RepositoryShape
<1>9. QED
  BY <1>5, <1>6, <1>7, <1>8

\* Copies grow older, and those whose time is up are gone.
LEMMA PassStep ==
  ASSUME RepositoryInv, Pass
  PROVE  RepositoryInv'
<1> USE CachedRepositoryAssumption DEF RepositoryInv, ReadCall
<1>1. near' = [s \in Services |-> Older(near[s])] /\ far' = Older(far) /\ UNCHANGED <<doc, read, write, last>>
  BY DEF Pass
<1>2. UNCHANGED <<Quiet>> /\ \A s \in Services : Writing(s)' <=> Writing(s)
  BY <1>1 DEF Quiet, Writing
<1>3. far' \in Copy \cup {NoCopy} /\ FarOK'
  <2>1. far \in Copy \cup {NoCopy} /\ (far # NoCopy => far.ttl > 0)
    BY DEF RepositoryShape, FarOK
  <2>2. /\ far' \in Copy \cup {NoCopy}
        /\ far' # NoCopy =>
             /\ far # NoCopy /\ far'.ttl > 0 /\ far'.age + far'.ttl = far.age + far.ttl
             /\ far'.version = far.version /\ far'.tainted = far.tainted
    BY <1>1, <2>1, OlderFacts
  <2>3. QED
    BY <1>1, <1>2, <2>2 DEF FarOK
<1>4. ASSUME NEW s \in Services PROVE near'[s] \in Copy \cup {NoCopy} /\ NearOK(s)'
  <2>1. near[s] \in Copy \cup {NoCopy} /\ (near[s] # NoCopy => near[s].ttl > 0)
    BY DEF RepositoryShape, NearOK
  <2>2. /\ near'[s] \in Copy \cup {NoCopy}
        /\ near'[s] # NoCopy =>
             /\ near[s] # NoCopy /\ near'[s].ttl > 0
             /\ near'[s].age + near'[s].ttl = near[s].age + near[s].ttl
             /\ near'[s].version = near[s].version /\ near'[s].tainted = near[s].tainted
    BY <1>1, <2>1, OlderFacts
  <2>3. QED
    BY <1>1, <1>2, <2>2 DEF NearOK
<1>5. near' \in [Services -> Copy \cup {NoCopy}]
  BY <1>1, <1>4
<1>6. QED
  BY <1>1, <1>2, <1>3, <1>4, <1>5 DEF RepositoryShape, ReadOK

\* The invariant is inductive.
LEMMA RepositoryStep ==
  RepositoryInv /\ [RepositoryNext]_repositoryVars => RepositoryInv'
<1> SUFFICES ASSUME RepositoryInv, [RepositoryNext]_repositoryVars PROVE RepositoryInv'
  OBVIOUS
<1>1. ASSUME NEW s \in Services, Evict(s) PROVE RepositoryInv'
  <2>1. near' = [near EXCEPT ![s] = NoCopy] /\ UNCHANGED <<doc, far, read, write, last>>
    BY <1>1 DEF Evict
  <2>2. \A t \in Services : near'[t] = NoCopy \/ near'[t] = near[t]
    BY <2>1 DEF RepositoryInv, RepositoryShape
  <2>3. (Quiet' <=> Quiet) /\ \A t \in Services : Writing(t)' <=> Writing(t)
    BY <2>1 DEF Quiet, Writing
  <2>4. ASSUME NEW t \in Services PROVE NearOK(t)'
    BY <2>1, <2>2, <2>3 DEF RepositoryInv, NearOK
  <2>5. QED
    BY <2>1, <2>3, <2>4 DEF RepositoryInv, RepositoryShape, ReadOK, FarOK
<1>2. CASE UNCHANGED repositoryVars
  BY <1>2 DEF repositoryVars, RepositoryInv, RepositoryShape, ReadOK, FarOK, NearOK, Quiet, Writing
<1>3. QED
  BY <1>1, <1>2, ReadStep, CommitStep, InvalidateStep, CrashStep, PassStep
     DEF RepositoryNext, Write

\* The invariant of the repository's copies and reads holds of every behaviour.
THEOREM RepositoryInvariantHolds == RepositorySpec => []RepositoryInv
<1>1. QED
  BY RepositoryInitially, RepositoryStep, PTL DEF RepositorySpec

\* Only a read that overlapped a write, or an invalidation that failed, leaves
\* an old copy of a document in a cache after the writes have returned.
THEOREM CopiesAreFreshOrRaced == RepositorySpec => []UnracedIsFresh
<1>1. RepositoryInv => UnracedIsFresh
  BY QuietIsNotWriting DEF RepositoryInv, FarOK, NearOK, UnracedIsFresh
<1>2. QED
  BY <1>1, RepositoryInvariantHolds, PTL

\* No copy outlives twice the repository's cacheTtl and one default TTL, however
\* often it is handed from L2 to L1.
THEOREM EveryCopyExpires == RepositorySpec => []CopiesExpire
<1>1. RepositoryInv => CopiesExpire
  <2> SUFFICES ASSUME RepositoryInv,
                      NEW copy \in ({far} \cup {near[s] : s \in Services}) \ {NoCopy}
               PROVE  copy.age < 2 * CacheTTL + DefaultTTL
    BY DEF CopiesExpire
  <2>1. CASE copy = far
    <3>1. far \in Copy /\ far # NoCopy
      BY <2>1 DEF RepositoryInv, RepositoryShape
    <3>2. QED
      BY <2>1, <3>1, CopyFacts, CachedRepositoryAssumption DEF RepositoryInv, FarOK
  <2>2. ASSUME NEW s \in Services, copy = near[s] PROVE copy.age < 2 * CacheTTL + DefaultTTL
    <3>1. near[s] \in Copy /\ near[s] # NoCopy
      BY <2>2 DEF RepositoryInv, RepositoryShape
    <3>2. QED
      BY <2>2, <3>1, CopyFacts, CachedRepositoryAssumption DEF RepositoryInv, NearOK
  <2>3. QED
    BY <2>1, <2>2
<1>2. QED
  BY <1>1, RepositoryInvariantHolds, PTL

LEMMA RepositoryInvTypes == RepositoryInv => RepositoryTypeOK
BY DEF RepositoryInv, RepositoryShape, ReadCall, RepositoryTypeOK

-----------------------------------------------------------------------------
\* Both together.

\* A behaviour of the combined instance is one of each part.
LEMMA PartStep == [PartNext]_parts => [Next]_vars /\ [RepositoryNext]_repositoryVars
BY DEF PartNext, parts

\* The variables of both keep their types: among them, each connection carries
\* exactly the callers of its process that await L2, each of them once.
THEOREM CacheTypesHold == PartSpec => []CacheTypesOK
<1>1. PartInit => GuardInv /\ RepositoryInv
  BY GuardInitially, RepositoryInitially DEF PartInit
<1>2. GuardInv /\ RepositoryInv /\ [PartNext]_parts => GuardInv' /\ RepositoryInv'
  BY PartStep, GuardStep, RepositoryStep
<1>3. GuardInv /\ RepositoryInv => CacheTypesOK
  BY GuardInvTypes, RepositoryInvTypes DEF CacheTypesOK
<1>4. QED
  BY <1>1, <1>2, <1>3, PTL DEF PartSpec

\* A run that checks the combined instance checks behaviours of each part, so what
\* is proved of a part holds there.
THEOREM PartsAreSpecified == PartSpec => Spec /\ RepositorySpec
<1>1. PartInit => Init /\ RepositoryInit
  BY DEF PartInit
<1>2. QED
  BY <1>1, PartStep, PTL DEF PartSpec, Spec, RepositorySpec

=============================================================================
