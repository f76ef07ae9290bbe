---------------------------- MODULE MCMultiCache ----------------------------
(***************************************************************************)
(* TLC instances of the caches: one key of the stampede guard over both    *)
(* layers, and the cached repository.  They share no state, so a behaviour *)
(* runs one of them while the other keeps its initial state.               *)
(***************************************************************************)
EXTENDS MultiCache, CachedRepository, TLC

CONSTANTS p1, p2, c1, c2, c3, r1, r2, w1, w2

\* Two callers share a process and its guard; the third writes from another.
TwoAndOne == (c1 :> p1) @@ (c2 :> p1) @@ (c3 :> p2)

MixedOperations ==
  (c1 :> {"getOrSet", "get", "del"}) @@ (c2 :> {"getOrSet", "set"})
    @@ (c3 :> {"set", "del"})

\* A reader in each of two services, and writers in both.
ReadAndWrite == (r1 :> p1) @@ (r2 :> p2) @@ (w1 :> p1) @@ (w2 :> p2)

VARIABLE part   \* the part this behaviour runs

parts == <<vars, repositoryVars, part>>

PartInit ==
  /\ part \in {"guard", "repository"}
  /\ Init
  /\ RepositoryInit
  /\ part # "guard" => l2 = None

PartNext ==
  \/ part = "guard" /\ Next /\ UNCHANGED <<repositoryVars, part>>
  \/ part = "repository" /\ RepositoryNext /\ UNCHANGED <<vars, part>>

\* The fairness of MultiCache!FairSpec, for the behaviours that run it.
PartSpec ==
  /\ PartInit /\ [][PartNext]_parts
  /\ \A c \in Callers : WF_vars(part = "guard" /\ Step(c))

\* The variables of both parts keep their types.
CacheTypesOK == TypeOK /\ RepositoryTypeOK

=============================================================================
