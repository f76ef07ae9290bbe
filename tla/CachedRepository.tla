-------------------------- MODULE CachedRepository --------------------------
(***************************************************************************)
(* CachedBaseRepository (src/database/cached.repository.ts) for the        *)
(* documents behind one cache key, in several services: reads go through   *)
(* getOrSet() of MultiCacheService, writes delete the keys of the          *)
(* collection from their own L1 and from L2.                               *)
(*                                                                         *)
(* A read is a get() from L2, a query and a set() with awaits between      *)
(* them; a write is the database's command and then a SCAN and a DEL.      *)
(* Nothing ties a read to the writes it overlaps.  Reads are not sent to a *)
(* replica (readerModel is not given).                                     *)
(***************************************************************************)
EXTENDS Integers, FiniteSets

CONSTANTS
  Services,     \* processes, each with an L1
  Readers,      \* read calls in progress at a time
  Writers,      \* write calls in progress at a time
  ServiceOf,    \* [Readers \cup Writers -> Services]
  CacheTTL,     \* the repository's cacheTtl
  DefaultTTL,   \* the cache's default TTL
  MaxWrites     \* bound: writes of the collection

ASSUME CachedRepositoryAssumption ==
  /\ ServiceOf \in [Readers \cup Writers -> Services]
  /\ CacheTTL \in Nat \ {0}
  /\ DefaultTTL \in Nat \ {0}
  /\ MaxWrites \in Nat

VARIABLES
  doc,       \* the version of the documents in the database
  near,      \* each service's copy in L1
  far,       \* the copy in L2
  read,      \* each read: its stage, and the copy it holds
  write,     \* the stage of each write
  last       \* the version each service wrote last

repositoryVars == <<doc, near, far, read, write, last>>

\* A copy knows (these two are not in the program) the time it has spent in
\* caches and whether it is tainted: got by a read that overlapped a write, or
\* left behind by an invalidation that failed.
Copy == [version : 0..MaxWrites, tainted : BOOLEAN, age : Nat, ttl : Nat]

NoCopy == [version |-> -1]

Held == [version : 0..MaxWrites, tainted : BOOLEAN, age : Nat, ttl : {0}]

Kept(copy, ttl) == [copy EXCEPT !.ttl = ttl]

RepositoryTypeOK ==
  /\ doc \in 0..MaxWrites
  /\ near \in [Services -> Copy \cup {NoCopy}]
  /\ far \in Copy \cup {NoCopy}
  /\ \A r \in Readers :
       /\ read[r].at \in {"idle", "ask", "hit", "query", "fetched", "store"}
       /\ read[r].copy \in Held
  /\ write \in [Writers -> {"idle", "invalidate", "scan", "delete"}]
  /\ \A s \in Services : last[s] <= doc

Blank == [version |-> 0, tainted |-> FALSE, age |-> 0, ttl |-> 0]

Idle == [at |-> "idle", copy |-> Blank]

RepositoryInit ==
  /\ doc = 0
  /\ near = [s \in Services |-> NoCopy]
  /\ far = NoCopy
  /\ read = [r \in Readers |-> Idle]
  /\ write = [w \in Writers |-> "idle"]
  /\ last = [s \in Services |-> 0]

-----------------------------------------------------------------------------
\* Reads: findAll(), findById(), findOne(), count(), aggregate(), exists().

Writing(s) == \E w \in Writers : ServiceOf[w] = s /\ write[w] # "idle"

\* L1 misses; a hit is answered at once and changes nothing.
Miss(r) ==
  /\ read[r].at = "idle"
  /\ near[ServiceOf[r]] = NoCopy
  /\ read' = [read EXCEPT ![r] =
       [at |-> "ask", copy |-> [Blank EXCEPT !.tainted = \E s \in Services : Writing(s)]]]
  /\ UNCHANGED <<doc, near, far, write, last>>

\* L2 answers.
Answer(r) ==
  /\ read[r].at = "ask"
  /\ LET overlapped == read[r].copy.tainted
     IN  read' = [read EXCEPT ![r] =
           IF far = NoCopy THEN [@ EXCEPT !.at = "query"]
           ELSE [at |-> "hit",
                 copy |-> [far EXCEPT !.ttl = 0, !.tainted = @ \/ overlapped]]]
  /\ UNCHANGED <<doc, near, far, write, last>>

\* Mutant: a hit is written back with set(), into both layers.
KeepInBoth(r) ==
  /\ read[r].at = "hit"
  /\ near' = [near EXCEPT ![ServiceOf[r]] = Kept(read[r].copy, DefaultTTL)]
  /\ far' = Kept(read[r].copy, 2 * DefaultTTL)
  /\ read' = [read EXCEPT ![r] = Idle]
  /\ UNCHANGED <<doc, write, last>>

\* A hit is written back to L1, with the default TTL.
KeepNear(r) ==
  /\ read[r].at = "hit"
  /\ near' = [near EXCEPT ![ServiceOf[r]] = Kept(read[r].copy, DefaultTTL)]
  /\ read' = [read EXCEPT ![r] = Idle]
  /\ UNCHANGED <<doc, far, write, last>>

\* A miss in both layers: the documents are read from the database.
Query(r) ==
  /\ read[r].at = "query"
  /\ read' = [read EXCEPT ![r] =
       [at |-> "fetched", copy |-> [@.copy EXCEPT !.version = doc]]]
  /\ UNCHANGED <<doc, near, far, write, last>>

\* set(): L1 at once.
StoreNear(r) ==
  /\ read[r].at = "fetched"
  /\ near' = [near EXCEPT ![ServiceOf[r]] = Kept(read[r].copy, CacheTTL)]
  /\ read' = [read EXCEPT ![r].at = "store"]
  /\ UNCHANGED <<doc, far, write, last>>

\* Then L2, for twice the time.
StoreFar(r) ==
  /\ read[r].at = "store"
  /\ far' = Kept(read[r].copy, 2 * CacheTTL)
  /\ read' = [read EXCEPT ![r] = Idle]
  /\ UNCHANGED <<doc, near, write, last>>

\* A command of the read fails, and the read with it.
ReadFails(r) ==
  /\ read[r].at \in {"ask", "query", "store"}
  /\ read' = [read EXCEPT ![r] = Idle]
  /\ UNCHANGED <<doc, near, far, write, last>>

-----------------------------------------------------------------------------
\* Writes: create(), createMany(), update(), updateMany(), delete(),
\* deleteMany().

Taint(copy) == [copy EXCEPT !.tainted = TRUE]

\* The database has changed; one that fails changes nothing.
Commit(w) ==
  /\ write[w] = "idle"
  /\ doc < MaxWrites
  /\ doc' = doc + 1
  /\ last' = [last EXCEPT ![ServiceOf[w]] = doc']
  /\ write' = [write EXCEPT ![w] = "invalidate"]
  /\ read' = [r \in Readers |->
       IF read[r].at = "idle" THEN Idle
       ELSE [read[r] EXCEPT !.copy = Taint(@)]]
  /\ UNCHANGED <<near, far>>

\* invalidateCache(): delByPrefix() clears L1 at once and sends a SCAN.
ClearNear(w) ==
  /\ write[w] = "invalidate"
  /\ near' = [near EXCEPT ![ServiceOf[w]] = NoCopy]
  /\ write' = [write EXCEPT ![w] = "scan"]
  /\ UNCHANGED <<doc, far, read, last>>

\* Mutant: the loop stops after the first page of keys, and the key is on
\* another one.
FirstPageOnly(w) ==
  /\ write[w] = "scan"
  /\ write' = [write EXCEPT ![w] = "idle"]
  /\ UNCHANGED <<doc, near, far, read, last>>

\* The cursor passes the key's place: it is found, or it is not there yet.
Scan(w) ==
  /\ write[w] = "scan"
  /\ write' = [write EXCEPT ![w] = IF far = NoCopy THEN "idle" ELSE "delete"]
  /\ UNCHANGED <<doc, near, far, read, last>>

DeleteFar(w) ==
  /\ write[w] = "delete"
  /\ far' = NoCopy
  /\ write' = [write EXCEPT ![w] = "idle"]
  /\ UNCHANGED <<doc, near, read, last>>

LeftBehind(copy) == IF copy = NoCopy THEN NoCopy ELSE Taint(copy)

\* A command of the invalidation fails: the write has been made, and its call
\* rejects.
InvalidationFails(w) ==
  /\ write[w] \in {"scan", "delete"}
  /\ far' = LeftBehind(far)
  /\ write' = [write EXCEPT ![w] = "idle"]
  /\ UNCHANGED <<doc, near, read, last>>

-----------------------------------------------------------------------------

\* A process dies with its L1 and its calls.
Crash(s) ==
  /\ near' = [near EXCEPT ![s] = NoCopy]
  /\ far' = IF Writing(s) THEN LeftBehind(far) ELSE far
  /\ read' = [r \in Readers |-> IF ServiceOf[r] = s THEN Idle ELSE read[r]]
  /\ write' = [w \in Writers |-> IF ServiceOf[w] = s THEN "idle" ELSE write[w]]
  /\ UNCHANGED <<doc, last>>

Older(copy) ==
  IF copy = NoCopy \/ copy.ttl = 1 THEN NoCopy
  ELSE [copy EXCEPT !.age = @ + 1, !.ttl = @ - 1]

\* Time passes for the copies, and expired ones are gone.
Pass ==
  /\ near' = [s \in Services |-> Older(near[s])]
  /\ far' = Older(far)
  /\ UNCHANGED <<doc, read, write, last>>

\* L1 evicts the copy to make room.
Evict(s) ==
  /\ near[s] # NoCopy
  /\ near' = [near EXCEPT ![s] = NoCopy]
  /\ UNCHANGED <<doc, far, read, write, last>>

Read(r) ==
  Miss(r) \/ Answer(r) \/ KeepNear(r) \/ Query(r) \/ StoreNear(r) \/ StoreFar(r) \/ ReadFails(r)

Write(w) ==
  Commit(w) \/ ClearNear(w) \/ Scan(w) \/ DeleteFar(w) \/ InvalidationFails(w)

RepositoryNext ==
  \/ \E r \in Readers : Read(r)
  \/ \E w \in Writers : Write(w)
  \/ \E s \in Services : Crash(s) \/ Evict(s)
  \/ Pass

RepositorySpec == RepositoryInit /\ [][RepositoryNext]_repositoryVars

-----------------------------------------------------------------------------

\* Only a read that overlapped a write, or an invalidation that failed, leaves
\* an old copy behind.  Any other copy in L2 is the current one whenever no
\* write is on its way, and any other copy in a service's L1 is at least as new
\* as what the service itself has written.
UnracedIsFresh ==
  /\ (\A s \in Services : ~Writing(s)) /\ far # NoCopy /\ ~far.tainted
       => far.version = doc
  /\ \A s \in Services :
       ~Writing(s) /\ near[s] # NoCopy /\ ~near[s].tainted
         => near[s].version >= last[s]

\* However reads, writes and failures interleave, a copy that should have been
\* deleted is not served for ever: L2 keeps a copy twice as long as L1, and a
\* hit in its last moment is kept in L1 for the default TTL, once.
CopiesExpire ==
  \A copy \in ({far} \cup {near[s] : s \in Services}) \ {NoCopy} :
    copy.age < 2 * CacheTTL + DefaultTTL

-----------------------------------------------------------------------------
\* Statements of the documentation, comments or tests that the code does not
\* keep: TLC refutes each of them.

\* cached.repository.ts:11: "Write methods invalidate cache by collection
\* prefix", so that no copy from before a write is served after it returned.
NothingStale ==
  (\A s \in Services : ~Writing(s)) =>
    \A copy \in ({far} \cup {near[s] : s \in Services}) \ {NoCopy} :
      copy.version = doc

=============================================================================
