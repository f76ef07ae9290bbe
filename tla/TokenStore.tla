-------------------------------- MODULE TokenStore --------------------------------
(***************************************************************************)
(* The two implementations of TokenStore (src/auth/token): the maps of     *)
(* MemoryTokenStore, whose methods run in one step, and RedisTokenStore,   *)
(* whose methods are sequences of Redis commands.                          *)
(*                                                                         *)
(* One user; each token belongs to a family.  Callers overlap.  A Redis    *)
(* token key carries a time to live and so does the flag of a revoked      *)
(* family (30 days in the code).                                           *)
(***************************************************************************)
EXTENDS Naturals, FiniteSets

CONSTANTS
  TokenIds,
  Families,
  FamilyOf,     \* [TokenIds -> Families]
  TokenTTL,     \* life of a token, in ticks
  FlagTTL       \* life of a revoked flag in Redis

ASSUME TokenStoreAssumption ==
  /\ FamilyOf \in [TokenIds -> Families]
  /\ TokenTTL \in Nat \ {0}
  /\ FlagTTL \in Nat /\ FlagTTL >= TokenTTL

VARIABLES
  kind,        \* which implementation runs: memory or redis
  token,       \* what is stored under the token's id
  ttl,         \* ticks left to it
  flag,        \* ticks left to the family's revoked flag; in memory it stays
  members,     \* boot:token:user: the families of the user
  storing,     \* where storeToken() stands for each token
  smembers,    \* families revokeAllForUser() has read and is to revoke
  revoking,    \* what it is going to have revoked: the tokens stored before
  dead         \* tokens that were stored and have become unusable

storeVars == <<kind, token, ttl, flag, members, storing, smembers, revoking, dead>>

\* "bare": a hash that holds no familyId.
Stored == {"none", "bare", "fresh", "used"}

StoreTypeOK ==
  /\ kind \in {"memory", "redis"}
  /\ token \in [TokenIds -> Stored]
  /\ ttl \in [TokenIds -> 0..TokenTTL]
  /\ flag \in [Families -> 0..FlagTTL]
  /\ members \subseteq Families
  /\ storing \in [TokenIds -> {"new", "hset", "expire", "done"}]
  /\ smembers \subseteq Families
  /\ revoking \subseteq TokenIds
  /\ dead \subseteq TokenIds

StoreInit ==
  /\ kind \in {"memory", "redis"}
  /\ token = [t \in TokenIds |-> "none"]
  /\ ttl = [t \in TokenIds |-> 0]
  /\ flag = [f \in Families |-> 0]
  /\ members = {}
  /\ storing = [t \in TokenIds |-> "new"]
  /\ smembers = {}
  /\ revoking = {}
  /\ dead = {}

\* Mutant: whatever is stored under the id is taken for a token.
GetAnything(tok, t) == tok[t] # "none"

\* getToken() finds the token.
Get(tok, t) == tok[t] \in {"fresh", "used"}

\* What a caller may exchange: getToken() finds it, isFamilyRevoked() does not
\* refuse it.
Usable(tok, flg, t) == Get(tok, t) /\ flg[FamilyOf[t]] = 0

\* Stored tokens that this step makes unusable, or has revoked, are dead.
Bury(revoked) ==
  dead' = dead \cup revoked \cup
            {t \in TokenIds : /\ storing[t] = "done"
                             /\ Usable(token, flag, t) /\ ~Usable(token', flag', t)}

-----------------------------------------------------------------------------

\* MemoryTokenStore.storeToken().
StoreInMemory(t) ==
  /\ kind = "memory" /\ storing[t] = "new"
  /\ token' = [token EXCEPT ![t] = "fresh"]
  /\ ttl' = [ttl EXCEPT ![t] = TokenTTL]
  /\ storing' = [storing EXCEPT ![t] = "done"]
  /\ UNCHANGED <<kind, flag, members, smembers, revoking, dead>>

\* RedisTokenStore.storeToken(): HSET, EXPIRE, SADD.  A process that dies
\* leaves the rest undone.
HSet(t) ==
  /\ kind = "redis" /\ storing[t] = "new"
  /\ token' = [token EXCEPT ![t] = "fresh"]
  /\ storing' = [storing EXCEPT ![t] = "hset"]
  /\ UNCHANGED <<kind, ttl, flag, members, smembers, revoking, dead>>

Expire(t) ==
  /\ storing[t] = "hset"
  /\ ttl' = [ttl EXCEPT ![t] = TokenTTL]
  /\ storing' = [storing EXCEPT ![t] = "expire"]
  /\ UNCHANGED <<kind, token, flag, members, smembers, revoking, dead>>

SAdd(t) ==
  /\ storing[t] = "expire"
  /\ members' = members \cup {FamilyOf[t]}
  /\ storing' = [storing EXCEPT ![t] = "done"]
  /\ UNCHANGED <<kind, token, ttl, flag, smembers, revoking, dead>>

\* markUsed(): the memory store changes an entry it has; HSET creates the hash
\* again when its key has expired.
MarkTokenUsed(t) ==
  /\ storing[t] = "done"
  /\ \/ token[t] = "fresh" /\ token' = [token EXCEPT ![t] = "used"]
     \/ /\ token[t] = "none" /\ kind = "redis"
        /\ token' = [token EXCEPT ![t] = "bare"]
  /\ UNCHANGED <<kind, ttl, flag, members, storing, smembers, revoking, dead>>

\* revokeFamily() of the memory store: the flag, and the tokens deleted.
RevokeInMemory(families, revoked) ==
  /\ kind = "memory"
  /\ flag' = [f \in Families |-> IF f \in families THEN FlagTTL ELSE flag[f]]
  /\ token' = [t \in TokenIds |-> IF t \in revoked THEN "none" ELSE token[t]]
  /\ Bury(revoked)
  /\ UNCHANGED <<kind, ttl, members, storing, smembers, revoking>>

RevokeFamilyInMemory(f) ==
  RevokeInMemory({f}, {t \in TokenIds : token[t] # "none" /\ FamilyOf[t] = f})

\* revokeAllForUser() of the memory store walks the stored tokens.
RevokeAllInMemory ==
  LET stored == {t \in TokenIds : token[t] # "none"}
  IN  /\ stored # {}
      /\ RevokeInMemory({FamilyOf[t] : t \in stored}, stored)

\* SET familyKey EX: the tokens stay.
SetFlags(families, revoked) ==
  /\ kind = "redis"
  /\ flag' = [f \in Families |-> IF f \in families THEN FlagTTL ELSE flag[f]]
  /\ token' = token
  /\ Bury(revoked)
  /\ UNCHANGED <<kind, ttl, members, storing>>

RevokeFamilyInRedis(f) ==
  /\ SetFlags({f}, {t \in TokenIds : storing[t] = "done" /\ FamilyOf[t] = f})
  /\ UNCHANGED <<smembers, revoking>>

\* revokeAllForUser() reads the user's families ...
SMembers ==
  /\ kind = "redis" /\ smembers = {} /\ members # {}
  /\ smembers' = members
  /\ revoking' = {t \in TokenIds : storing[t] = "done"}
  /\ UNCHANGED <<kind, token, ttl, flag, members, storing, dead>>

\* ... and flags them in one pipeline.
Pipeline ==
  /\ smembers # {}
  /\ SetFlags(smembers, revoking)
  /\ smembers' = {}
  /\ revoking' = {}

\* Time passes.  A key whose time is over is gone; in memory the entry is
\* deleted when it is next looked up.
StoreTick ==
  /\ ttl' = [t \in TokenIds |-> IF ttl[t] = 0 THEN 0 ELSE ttl[t] - 1]
  /\ token' = [t \in TokenIds |-> IF ttl[t] = 1 THEN "none" ELSE token[t]]
  /\ flag' = [f \in Families |->
       IF flag[f] = 0 \/ kind = "memory" THEN flag[f] ELSE flag[f] - 1]
  /\ Bury({})
  /\ UNCHANGED <<kind, members, storing, smembers, revoking>>

StoreToken(t) == StoreInMemory(t) \/ HSet(t) \/ Expire(t) \/ SAdd(t)

RevokeAllForUser == RevokeAllInMemory \/ SMembers \/ Pipeline

StoreNext ==
  \/ \E t \in TokenIds : StoreToken(t) \/ MarkTokenUsed(t)
  \/ \E f \in Families : RevokeFamilyInMemory(f) \/ RevokeFamilyInRedis(f)
  \/ RevokeAllForUser
  \/ StoreTick

StoreSpec == StoreInit /\ [][StoreNext]_storeVars

-----------------------------------------------------------------------------

\* A token that has expired, or whose storing was complete when its family or
\* its user was revoked, can never be exchanged again in either store: not when
\* markUsed() writes under an expired key, and not when the flag of its family
\* runs out, which it does if a token may live longer than the flag.
DeadStaysDead == \A t \in dead : ~Usable(token, flag, t)

=============================================================================
