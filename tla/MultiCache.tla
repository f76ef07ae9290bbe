----------------------------- MODULE MultiCache -----------------------------
(***************************************************************************)
(* MultiCacheService (src/cache/multi-cache.service.ts) and                *)
(* CacheStampedeGuard (src/cache/cache-stampede.ts) for one key, in        *)
(* several processes: an in-memory L1 in each, one shared L2, and an       *)
(* origin the factories read.                                              *)
(*                                                                         *)
(* What a process does between two awaits is one step, and L1 answers      *)
(* within it.  A process has one connection to L2: its commands are        *)
(* applied in the order they are issued and replied to in that order.      *)
(* Entries expire, or are evicted, at any time; commands and factories     *)
(* fail.                                                                   *)
(***************************************************************************)
EXTENDS Integers, Sequences, FiniteSets, SequencesExt

CONSTANTS
  Processes,
  Callers,       \* concurrent calls of all the processes together
  ProcessOf,     \* [Callers -> Processes]
  Operations,    \* what each caller does, a subset of OperationNames
  Large,         \* versions of the value that take 1 MB or more
  MaxVersion     \* bound: the last version of the origin

None == -1

OperationNames == {"getOrSet", "get", "set", "del"}

ASSUME MultiCacheAssumption ==
  /\ ProcessOf \in [Callers -> Processes]
  /\ Operations \in [Callers -> SUBSET OperationNames]
  /\ MaxVersion \in Nat
  /\ Large \subseteq 0..MaxVersion
  /\ None \notin Callers

VARIABLES
  origin,        \* the version the origin holds
  l1,            \* each process's copy
  l2,            \* the shared copy
  inflight,      \* each process's inflight map: the leader, or none
  pc,            \* where each caller stands
  wire,          \* each process's L2 commands not replied to, by caller
  applied,       \* callers whose command L2 has dealt with
  failed,        \* callers whose command L2 will report as failed
  val,           \* what a caller has read and not used yet
  late           \* getOrSet calls during which a factory of their process
                 \* has succeeded

vars == <<origin, l1, l2, inflight, pc, wire, applied, failed, val, late>>

Version == 0..MaxVersion
Value == Version \cup {None}

\* Stages of the guard's leader.
Leading == {"lock", "factory", "read", "store", "unlock"}

\* Stages in which a caller awaits an L2 command.
Asking == {"ask", "askPlain", "lock", "store", "unlock", "set", "del"}

TypeOK ==
  /\ origin \in Version
  /\ l1 \in [Processes -> Value \ Large]
  /\ l2 \in Value
  /\ inflight \in [Processes -> Callers \cup {None}]
  /\ pc \in [Callers -> Leading \cup Asking \cup {"idle", "join"}]
  /\ \A p \in Processes :
       /\ IsInjective(wire[p])
       /\ ToSet(wire[p]) = {c \in Callers : ProcessOf[c] = p /\ pc[c] \in Asking}
  /\ failed \subseteq applied
  /\ val \in [Callers -> Value]
  /\ late \subseteq Callers

Init ==
  /\ origin = 0
  /\ l1 = [p \in Processes |-> None]
  /\ l2 \in {None, 0}
  /\ inflight = [p \in Processes |-> None]
  /\ pc = [c \in Callers |-> "idle"]
  /\ wire = [p \in Processes |-> << >>]
  /\ applied = {}
  /\ failed = {}
  /\ val = [c \in Callers |-> None]
  /\ late = {}

\* Mutant: L1 takes every value.
AnyInL1(p, v) == [l1 EXCEPT ![p] = v]

\* L1 takes small values only.
InL1(p, v) == [l1 EXCEPT ![p] = IF v \in Large THEN @ ELSE v]

Goto(c, place) == pc' = [pc EXCEPT ![c] = place]

\* Issue an L2 command and await it.
Issue(c, place) ==
  /\ Goto(c, place)
  /\ wire' = [wire EXCEPT ![ProcessOf[c]] = Append(@, c)]

\* The reply to c's command is the next of its connection.
Replied(c) ==
  /\ c \in applied
  /\ wire[ProcessOf[c]] # << >> /\ Head(wire[ProcessOf[c]]) = c
  /\ applied' = applied \ {c}
  /\ failed' = failed \ {c}

\* Handle it, and go on without a further command.
Receive(c, place) ==
  /\ Replied(c)
  /\ wire' = [wire EXCEPT ![ProcessOf[c]] = Tail(@)]
  /\ Goto(c, place)

\* Handle it, and issue the next one.
ReceiveAndIssue(c, place) ==
  /\ Replied(c)
  /\ wire' = [wire EXCEPT ![ProcessOf[c]] = Append(Tail(@), c)]
  /\ Goto(c, place)

-----------------------------------------------------------------------------
\* The environment.

\* The origin changes.
Change ==
  /\ origin < MaxVersion
  /\ origin' = origin + 1
  /\ UNCHANGED <<l1, l2, inflight, pc, wire, applied, failed, val, late>>

\* An entry expires, or is the least recently used one of a full L1.
Expire ==
  /\ \/ l2 # None /\ l2' = None /\ UNCHANGED l1
     \/ /\ UNCHANGED l2
        /\ \E p \in Processes : l1[p] # None /\ l1' = [l1 EXCEPT ![p] = None]
  /\ UNCHANGED <<origin, inflight, pc, wire, applied, failed, val, late>>

\* L2 comes to c's command: everything issued before it has been dealt with.
Reached(c) ==
  LET w == wire[ProcessOf[c]]
  IN  /\ c \notin applied
      /\ \E i \in DOMAIN w :
           w[i] = c /\ \A j \in 1..(i - 1) : w[j] \in applied

\* L2 applies the command.
Apply(c) ==
  /\ Reached(c)
  /\ applied' = applied \cup {c}
  /\ val' = [val EXCEPT ![c] = IF pc[c] \in {"ask", "askPlain"} THEN l2 ELSE @]
  /\ l2' = CASE pc[c] \in {"set", "store"} -> val[c]
             [] pc[c] = "del"              -> None
             [] OTHER                      -> l2
  /\ UNCHANGED <<origin, l1, inflight, pc, wire, failed, late>>

\* Or the command fails.
Refuse(c) ==
  /\ Reached(c)
  /\ applied' = applied \cup {c}
  /\ failed' = failed \cup {c}
  /\ UNCHANGED <<origin, l1, l2, inflight, pc, wire, val, late>>

-----------------------------------------------------------------------------
\* MultiCacheService.

\* get() misses in L1 and asks L2; the guard's getOrSet() begins the same way.
Get(c) ==
  /\ pc[c] = "idle" /\ l1[ProcessOf[c]] = None
  /\ \/ "get" \in Operations[c] /\ Issue(c, "askPlain")
     \/ "getOrSet" \in Operations[c] /\ Issue(c, "ask")
  /\ UNCHANGED <<origin, l1, l2, inflight, applied, failed, val, late>>

\* The reply is a hit, which is written back to L1, or an error, which rejects
\* the call; a plain get() also returns on a miss.
Return(c) ==
  /\ pc[c] \in {"ask", "askPlain"}
  /\ Receive(c, "idle")
  /\ c \in failed \/ val[c] # None \/ pc[c] = "askPlain"
  /\ l1' = IF c \in failed \/ val[c] = None THEN l1
           ELSE InL1(ProcessOf[c], val[c])
  /\ val' = [val EXCEPT ![c] = None]
  /\ late' = late \ {c}
  /\ UNCHANGED <<origin, l2, inflight>>

\* set() of the origin's value: L1 at once if it is small, then L2.
Set(c) ==
  /\ "set" \in Operations[c] /\ pc[c] = "idle"
  /\ l1' = InL1(ProcessOf[c], origin)
  /\ val' = [val EXCEPT ![c] = origin]
  /\ Issue(c, "set")
  /\ UNCHANGED <<origin, l2, inflight, applied, failed, late>>

\* del(): L1 at once, then L2.
Del(c) ==
  /\ "del" \in Operations[c] /\ pc[c] = "idle"
  /\ l1' = [l1 EXCEPT ![ProcessOf[c]] = None]
  /\ Issue(c, "del")
  /\ UNCHANGED <<origin, l2, inflight, applied, failed, val, late>>

\* set() or del() resolves, or rejects with the command.
Written(c) ==
  /\ pc[c] \in {"set", "del"}
  /\ Receive(c, "idle")
  /\ val' = [val EXCEPT ![c] = None]
  /\ UNCHANGED <<origin, l1, l2, inflight, late>>

-----------------------------------------------------------------------------
\* CacheStampedeGuard.

Missed(c) == pc[c] = "ask" /\ c \notin failed /\ val[c] = None

\* The reply is a miss and a factory is running in the process: join it.
Join(c) ==
  /\ Missed(c) /\ inflight[ProcessOf[c]] # None
  /\ Receive(c, "join")
  /\ UNCHANGED <<origin, l1, l2, inflight, val, late>>

\* Nothing is running: runFactory() issues the set() of the <key>:lock entry,
\* which nobody reads, and its promise is recorded, in one step.
Lead(c) ==
  /\ Missed(c) /\ inflight[ProcessOf[c]] = None
  /\ inflight' = [inflight EXCEPT ![ProcessOf[c]] = c]
  /\ ReceiveAndIssue(c, "lock")
  /\ UNCHANGED <<origin, l1, l2, val, late>>

\* The lock entry is set: call the factory; or not: release the lock.
Locked(c) ==
  /\ pc[c] = "lock"
  /\ IF c \in failed THEN ReceiveAndIssue(c, "unlock") ELSE Receive(c, "factory")
  /\ UNCHANGED <<origin, l1, l2, inflight, val, late>>

\* The factory reads the origin, or rejects.
Factory(c) ==
  /\ pc[c] = "factory"
  /\ \/ /\ val' = [val EXCEPT ![c] = origin]
        /\ Goto(c, "read")
        /\ UNCHANGED wire
     \/ Issue(c, "unlock") /\ UNCHANGED val
  /\ UNCHANGED <<origin, l1, l2, inflight, applied, failed, late>>

\* It resolves: set() stores the value in L1 and issues the L2 command.
Store(c) ==
  /\ pc[c] = "read"
  /\ l1' = InL1(ProcessOf[c], val[c])
  /\ late' = late \cup
       {d \in Callers : ProcessOf[d] = ProcessOf[c] /\ pc[d] = "ask"}
  /\ Issue(c, "store")
  /\ UNCHANGED <<origin, l2, inflight, applied, failed, val>>

\* Mutant: the inflight entry is deleted when the value is known, before the
\* lock is released.
StoreForgetting(c) ==
  /\ pc[c] = "store"
  /\ ReceiveAndIssue(c, "unlock")
  /\ inflight' = [inflight EXCEPT ![ProcessOf[c]] = None]
  /\ UNCHANGED <<origin, l1, l2, val, late>>

\* The value is stored, or storing it failed: release the lock.
Stored(c) ==
  /\ pc[c] = "store"
  /\ ReceiveAndIssue(c, "unlock")
  /\ UNCHANGED <<origin, l1, l2, inflight, val, late>>

\* The promise of runFactory() settles: those who joined return with it.
Settle(c) ==
  /\ pc[c] = "unlock"
  /\ Replied(c)
  /\ wire' = [wire EXCEPT ![ProcessOf[c]] = Tail(@)]
  /\ LET returning == {c} \cup
           {d \in Callers : pc[d] = "join" /\ inflight[ProcessOf[d]] = c}
     IN  /\ pc' = [d \in Callers |-> IF d \in returning THEN "idle" ELSE pc[d]]
         /\ late' = late \ returning
  /\ val' = [val EXCEPT ![c] = None]

\* Mutant: the inflight entry is deleted on success only.
UnlockIfStored(c) ==
  /\ Settle(c)
  /\ inflight' = IF val[c] = None THEN inflight
                 ELSE [inflight EXCEPT ![ProcessOf[c]] = None]
  /\ UNCHANGED <<origin, l1, l2>>

\* The lock entry is deleted, or deleting it failed; the leader removes its
\* promise from the inflight map.
Unlock(c) ==
  /\ Settle(c)
  /\ inflight' = [inflight EXCEPT ![ProcessOf[c]] = None]
  /\ UNCHANGED <<origin, l1, l2>>

Step(c) ==
  \/ Apply(c) \/ Refuse(c) \/ Return(c) \/ Written(c) \/ Join(c) \/ Lead(c)
  \/ Locked(c) \/ Factory(c) \/ Store(c) \/ Stored(c) \/ Unlock(c)

Next ==
  \/ Change \/ Expire
  \/ \E c \in Callers : Get(c) \/ Set(c) \/ Del(c) \/ Step(c)

Spec == Init /\ [][Next]_vars

\* Every command and every factory settles.
FairSpec == Spec /\ \A c \in Callers : WF_vars(Step(c))

-----------------------------------------------------------------------------

Leaders(p) == {c \in Callers : ProcessOf[c] = p /\ pc[c] \in Leading}

\* Every getOrSet() returns, those that joined a failing factory too.
GetOrSetReturns == \A c \in Callers : pc[c] # "idle" ~> pc[c] = "idle"

\* A process runs one factory at a time, the one its inflight map holds,
\* however commands and factories fail; and a getOrSet() that was waiting for
\* its get() when a factory of its process resolved does not run it again: it
\* joins, or finds the value.
OneFactoryPerMiss ==
  /\ \A p \in Processes :
       Leaders(p) = IF inflight[p] = None THEN {} ELSE {inflight[p]}
  /\ \A c \in late : pc[c] \notin Leading

-----------------------------------------------------------------------------
\* Statements of the documentation, comments or tests that the code does not
\* keep: TLC refutes each of them.

\* cache-stampede.ts:21: the lock coordinates across instances.
OneFactoryAcrossProcesses ==
  Cardinality({p \in Processes : Leaders(p) # {}}) <= 1

\* multi-cache.service.ts:73: del() deletes a key from all layers.  Where calls
\* only read and delete, a key that is in no layer comes back to none.
Absent == l2 = None /\ \A p \in Processes : l1[p] = None

DeletedStaysDeleted == [][Absent => Absent']_vars

\* multi-cache.service.ts:54: a value of 1 MB or more is stored in L2 only.
\* When the set() of one returns, with no other call running, the process
\* serves no other value of the key from L1.
LargeInL2Only ==
  [][\A c \in Callers :
       pc[c] = "set" /\ pc'[c] = "idle" /\ val[c] \in Large
       => l1'[ProcessOf[c]] = None]_vars

=============================================================================
