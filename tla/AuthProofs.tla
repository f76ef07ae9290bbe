----------------------------- MODULE AuthProofs -----------------------------
(***************************************************************************)
(* Logins, refresh tokens, token stores and permission checks, for any     *)
(* number of accounts, requests, tokens, roles and permissions.            *)
(*                                                                         *)
(* GuessesBounded needs an account of the requests that have passed the    *)
(* lock and may still fail (Comparing): once the account is locked no      *)
(* other joins them until the lockout is over.  ClosedFamilyStaysClosed    *)
(* needs that an exchange under way never belongs to a closed family, and  *)
(* that a family has one account, so that revoking the account closes it.  *)
(*                                                                         *)
(* DeadStaysDead: the memory store has deleted a dead token (InMemory);    *)
(* the Redis store may still hold it, and then the flag of its family      *)
(* lives at least as long as it does (InRedis).                            *)
(*                                                                         *)
(* GrantedWasHeld: what resolveAll() collects is what the roles inherit,   *)
(* cyclic hierarchies included, and a check has in reach what the user     *)
(* holds until it has read the roles.                                      *)
(***************************************************************************)
EXTENDS MCAuth, FiniteSetTheorems, NaturalsInduction, WellFoundedInduction, TLAPS

-----------------------------------------------------------------------------
\* AuthService.

Row == [account : Accounts, family : 1..MaxTokens,
        used : BOOLEAN, revoked : BOOLEAN]

OnAccount == [at : {"compare", "create", "revokeAll"}, account : Accounts]

OnToken == [at : {"reuse", "mark", "rotate"}, token : Nat]

Typed ==
  /\ TrackerTypeOK
  /\ rows \in Seq(Row)
  /\ Len(rows) <= MaxTokens
  /\ request \in [Requests -> {Idle} \cup OnAccount \cup OnToken]
  /\ \A r \in Requests :
       request[r].at \in {"reuse", "mark", "rotate"} =>
         request[r] \in OnToken /\ request[r].token \in Tokens
  /\ closed \subseteq Tokens

\* Requests that were not refused and whose password is being compared.
Comparing(a) ==
  {r \in Requests : request[r].at = "compare" /\ request[r].account = a}

Guesses(a) ==
  /\ age[a] >= LockoutDuration => streak[a] = 0
  /\ count[a] < MaxFailures => streak[a] <= count[a]
  /\ count[a] = MaxFailures =>
       streak[a] + Cardinality(Comparing(a)) < MaxFailures + Cardinality(Requests)

GuessInv == \A a \in Accounts : Guesses(a)

FamilyInv ==
  /\ \A t \in Tokens : rows[t].family \in Tokens
  /\ \A t, u \in Tokens :
       rows[t].family = rows[u].family => rows[t].account = rows[u].account
  /\ ClosedFamilyStaysClosed
  /\ \A r \in Requests :
       request[r].at \in {"mark", "rotate"} =>
         rows[request[r].token].family \notin closed

-----------------------------------------------------------------------------
\* AuthService: types.

LEMMA TypedInit == AuthInit => Typed
<1> SUFFICES ASSUME AuthInit PROVE Typed
  OBVIOUS
<1>1. TrackerTypeOK
  BY TrackerAssumption DEF AuthInit, TrackerInit, TrackerTypeOK, Forgotten
<1>2. rows \in Seq(Row) /\ Len(rows) <= MaxTokens /\ closed \subseteq Tokens
  BY AuthAssumption DEF AuthInit
<1>3. \A r \in Requests : request[r].at = "idle"
  BY DEF AuthInit, Idle
<1>4. QED
  BY <1>1, <1>2, <1>3 DEF AuthInit, Typed

LEMMA TrackerTyped ==
  ASSUME TrackerTypeOK,
         \/ \E a \in Accounts : RecordFailure(a) \/ ClearEntry(a)
         \/ \E a \in Accounts, locked \in BOOLEAN : IsLocked(a, locked)
         \/ TrackerTick
         \/ UNCHANGED trackerVars
  PROVE  TrackerTypeOK'
<1> USE TrackerAssumption
<1>1. ASSUME NEW a \in Accounts, RecordFailure(a) PROVE TrackerTypeOK'
  <2>1. failureCount' \in 0..(SweepEvery - 1)
    BY <1>1 DEF RecordFailure, TrackerTypeOK
  <2>2. count' \in [Accounts -> 0..MaxFailures]
    BY <1>1 DEF RecordFailure, TrackerTypeOK
  <2>3. QED
    BY <1>1, <2>1, <2>2 DEF RecordFailure, TrackerTypeOK, Forgotten
<1>2. ASSUME NEW a \in Accounts, ClearEntry(a) PROVE TrackerTypeOK'
  BY <1>2 DEF ClearEntry, TrackerTypeOK
<1>3. ASSUME NEW a \in Accounts, NEW locked \in BOOLEAN, IsLocked(a, locked)
      PROVE  TrackerTypeOK'
  BY <1>3 DEF IsLocked, TrackerTypeOK
<1>4. ASSUME TrackerTick PROVE TrackerTypeOK'
  BY <1>4 DEF TrackerTick, TrackerTypeOK, Forgotten
<1>5. CASE UNCHANGED trackerVars
  BY <1>5 DEF trackerVars, TrackerTypeOK
<1>6. QED
  BY <1>1, <1>2, <1>3, <1>4, <1>5

\* A row is added at the end.
LEMMA RowAdded ==
  ASSUME Typed, NEW a \in Accounts, NEW f \in 1..MaxTokens,
         rows' = NewRow(a, f), Len(rows) < MaxTokens
  PROVE  /\ rows' \in Seq(Row) /\ Len(rows') = Len(rows) + 1
         /\ Len(rows') <= MaxTokens
         /\ \A t \in Tokens : rows'[t] = rows[t]
         /\ rows'[Len(rows')].family = f /\ rows'[Len(rows')].account = a
         /\ rows'[Len(rows')].revoked = FALSE
<1> DEFINE new == [account |-> a, family |-> f, used |-> FALSE, revoked |-> FALSE]
<1>1. new \in Row /\ new.family = f /\ new.account = a /\ new.revoked = FALSE
  BY DEF Row
<1>2. rows' = Append(rows, new) /\ rows \in Seq(Row) /\ Len(rows) \in Nat
  BY DEF NewRow, Typed
<1> HIDE DEF new
<1>3. QED
  BY <1>1, <1>2, AuthAssumption DEF Tokens

\* Rows are revoked in place.
LEMMA RowsRevoked ==
  ASSUME Typed, NEW chosen \in SUBSET Tokens, Revoke(chosen)
  PROVE  /\ rows' \in Seq(Row) /\ Len(rows') = Len(rows)
         /\ \A t \in Tokens :
              /\ rows'[t].family = rows[t].family
              /\ rows'[t].account = rows[t].account
              /\ rows'[t].revoked = (t \in chosen \/ rows[t].revoked)
         /\ closed' \subseteq Tokens
<1>1. \A t \in Tokens : rows[t] \in Row
  BY DEF Typed, Tokens
<1>2. \A t \in Tokens : [rows[t] EXCEPT !.revoked = TRUE] \in Row
  BY <1>1 DEF Row
<1>3. rows' \in [1..Len(rows) -> Row] /\ Len(rows) \in Nat
  BY <1>1, <1>2 DEF Revoke, Tokens, Typed
<1>4. rows' \in Seq(Row) /\ Len(rows') = Len(rows)
  BY <1>3
<1>5. ASSUME NEW t \in Tokens
      PROVE  /\ rows'[t].family = rows[t].family
             /\ rows'[t].account = rows[t].account
             /\ rows'[t].revoked = (t \in chosen \/ rows[t].revoked)
  BY <1>1 DEF Revoke, Row
<1>6. closed' \subseteq Tokens
  BY DEF Revoke, Settled, Typed
<1>7. QED
  BY <1>4, <1>5, <1>6

-----------------------------------------------------------------------------
\* What a step does to one request.

\* Await(r, step) leaves the other requests alone.
LEMMA AwaitOne ==
  ASSUME Typed, NEW r \in Requests, NEW step, Await(r, step)
  PROVE  /\ request'[r] = step
         /\ \A q \in Requests \ {r} : request'[q] = request[q]
BY DEF Typed, Await

\* Requests that keep their row index stay typed when rows only grow.
LEMMA RequestsTyped ==
  ASSUME Typed, NEW r \in Requests, NEW step, Await(r, step),
         rows' \in Seq(Row), Len(rows') >= Len(rows),
         \/ step = Idle
         \/ step \in OnAccount
         \/ step \in OnToken /\ step.token \in Tokens
  PROVE  /\ request' \in [Requests -> {Idle} \cup OnAccount \cup OnToken]
         /\ \A q \in Requests :
              request'[q].at \in {"reuse", "mark", "rotate"} =>
                request'[q] \in OnToken /\ request'[q].token \in Tokens'
<1>1. Tokens \subseteq Tokens'
  BY DEF Typed, Tokens
<1>2. request' \in [Requests -> {Idle} \cup OnAccount \cup OnToken]
  BY DEF Typed, Await
<1>3. step.at \in {"reuse", "mark", "rotate"} =>
        step \in OnToken /\ step.token \in Tokens
  BY DEF Idle, OnAccount
<1>4. QED
  BY <1>1, <1>2, <1>3, AwaitOne DEF Typed

\* The request of each kind of step.
LEMMA RequestKinds ==
  ASSUME Typed, NEW r \in Requests
  PROVE  /\ request[r].at \in {"compare", "create", "revokeAll"} =>
              request[r] \in OnAccount /\ request[r].account \in Accounts
         /\ request[r].at \in {"reuse", "mark", "rotate"} =>
              request[r] \in OnToken /\ request[r].token \in Tokens
<1>1. request[r] \in {Idle} \cup OnAccount \cup OnToken
  BY DEF Typed
<1>2. request[r] = Idle => request[r].at = "idle"
  BY DEF Idle
<1>3. request[r] \in OnAccount =>
        request[r].at \in {"compare", "create", "revokeAll"}
  BY DEF OnAccount
<1>4. request[r] \in OnToken => request[r].at \in {"reuse", "mark", "rotate"}
  BY DEF OnToken
<1>5. request[r] \in OnAccount => request[r].account \in Accounts
  BY DEF OnAccount
<1>6. QED
  BY <1>1, <1>2, <1>3, <1>4, <1>5 DEF Typed

\* A request keeps its arguments when it goes on to the next await.
LEMMA NextAwait ==
  ASSUME NEW q
  PROVE  /\ q \in OnAccount => [q EXCEPT !.at = "create"] \in OnAccount
         /\ q \in OnToken =>
              /\ [q EXCEPT !.at = "rotate"] \in OnToken
              /\ [q EXCEPT !.at = "rotate"].token = q.token
              /\ [q EXCEPT !.at = "rotate"].at = "rotate"
<1>1. q \in OnAccount => [q EXCEPT !.at = "create"] \in OnAccount
  BY DEF OnAccount
<1>2. q \in OnToken => [q EXCEPT !.at = "rotate"] \in OnToken
  BY DEF OnToken
<1>3. q \in OnToken => /\ [q EXCEPT !.at = "rotate"].token = q.token
                       /\ [q EXCEPT !.at = "rotate"].at = "rotate"
  BY DEF OnToken
<1>4. QED
  BY <1>1, <1>2, <1>3

LEMMA TypedStep == Typed /\ [AuthNext]_authVars => Typed'
<1> SUFFICES ASSUME Typed, [AuthNext]_authVars PROVE Typed'
  OBVIOUS
<1> USE DEF Tokens
<1>1. \A t \in Tokens : rows[t] \in Row /\ rows[t].account \in Accounts
                        /\ rows[t].family \in 1..MaxTokens
  <2>1. \A t \in Tokens : rows[t] \in Row
    BY DEF Typed
  <2>2. \A row \in Row : row.account \in Accounts /\ row.family \in 1..MaxTokens
    BY DEF Row
  <2>3. QED
    BY <2>1, <2>2
<1>2. ASSUME NEW r \in Requests, NEW step, Await(r, step),
             TrackerTypeOK', UNCHANGED <<rows, closed>>,
             \/ step = Idle
             \/ step \in OnAccount
             \/ step \in OnToken /\ step.token \in Tokens
      PROVE  Typed'
  BY <1>2, RequestsTyped DEF Typed
<1>3. ASSUME NEW r \in Requests, NEW step, Await(r, step),
             UNCHANGED trackerVars, rows' \in Seq(Row), Len(rows') <= MaxTokens,
             Len(rows') >= Len(rows), closed' \subseteq Tokens,
             \/ step = Idle
             \/ step \in OnToken /\ step.token \in Tokens
      PROVE  Typed'
  BY <1>3, RequestsTyped, TrackerTyped DEF Typed
<1>4. ASSUME NEW r \in Requests, Login(r) PROVE Typed'
  <2>1. CASE \E b \in Accounts : LoginStarts(r, b)
    <3>1. PICK b \in Accounts, locked \in BOOLEAN :
            /\ IsLocked(b, locked)
            /\ Await(r, IF locked THEN Idle ELSE [at |-> "compare", account |-> b])
            /\ UNCHANGED <<rows, closed>>
      BY <2>1 DEF LoginStarts
    <3>2. [at |-> "compare", account |-> b] \in OnAccount
      BY DEF OnAccount
    <3>3. QED
      BY <1>2, <3>1, <3>2, TrackerTyped DEF Typed
  <2>2. CASE LoginFails(r)
    BY <1>2, <2>2, TrackerTyped, RequestKinds DEF LoginFails, Typed
  <2>3. CASE LoginSucceeds(r)
    BY <1>2, <2>3, TrackerTyped, RequestKinds, NextAwait DEF LoginSucceeds, Typed
  <2>4. CASE CreateToken(r)
    <3>1. Len(rows) + 1 \in 1..MaxTokens
      BY <2>4, AuthAssumption DEF CreateToken, Typed
    <3>2. /\ rows' \in Seq(Row) /\ Len(rows') <= MaxTokens
          /\ Len(rows') = Len(rows) + 1
      BY <2>4, <3>1, RowAdded, RequestKinds DEF CreateToken
    <3>3. Len(rows') >= Len(rows)
      BY <3>2 DEF Typed
    <3>4. QED
      BY <1>3, <2>4, <3>2, <3>3 DEF CreateToken, Typed
  <2>5. QED
    BY <1>4, <2>1, <2>2, <2>3, <2>4 DEF Login
<1>5. ASSUME NEW r \in Requests, RefreshToken(r) PROVE Typed'
  <2>1. CASE \E t \in Tokens : Present(r, t)
    <3>1. PICK t \in Tokens, step \in {"reuse", "mark"} :
            /\ Await(r, [at |-> step, token |-> t])
            /\ UNCHANGED <<trackerVars, rows, closed>>
      BY <2>1 DEF Present
    <3>2. [at |-> step, token |-> t] \in OnToken
      BY DEF OnToken
    <3>3. QED
      BY <1>2, <3>1, <3>2, TrackerTyped DEF Typed
  <2>2. CASE MarkUsed(r)
    <3> DEFINE t == request[r].token
    <3>1. t \in Tokens /\ request[r] \in OnToken
      BY <2>2, RequestKinds DEF MarkUsed
    <3>2. [rows[t] EXCEPT !.used = TRUE] \in Row
      BY <1>1, <3>1 DEF Row
    <3>3. rows' = [rows EXCEPT ![t] = [rows[t] EXCEPT !.used = TRUE]]
      BY <2>2 DEF MarkUsed
    <3>4. rows' \in Seq(Row) /\ Len(rows') = Len(rows)
      BY <3>1, <3>2, <3>3 DEF Typed
    <3>5. [request[r] EXCEPT !.at = "rotate"] \in OnToken
      BY <3>1, NextAwait
    <3>6. [request[r] EXCEPT !.at = "rotate"].token = t
      BY <3>1, NextAwait
    <3>7. Len(rows') >= Len(rows) /\ Len(rows') <= MaxTokens
      BY <3>4 DEF Typed
    <3>8. Await(r, [request[r] EXCEPT !.at = "rotate"])
          /\ UNCHANGED <<trackerVars, closed>>
      BY <2>2 DEF MarkUsed
    <3>9. closed' \subseteq Tokens
      BY <3>8 DEF Typed
    <3>10. QED
      BY <1>3, <3>1, <3>4, <3>5, <3>6, <3>7, <3>8, <3>9
  <2>3. CASE Rotate(r)
    <3> DEFINE old == rows[request[r].token]
    <3>1. old.account \in Accounts /\ old.family \in 1..MaxTokens
      BY <1>1, <2>3, RequestKinds DEF Rotate
    <3>2. rows' = NewRow(old.account, old.family) /\ Len(rows) < MaxTokens
      BY <2>3 DEF Rotate
    <3>3. /\ rows' \in Seq(Row) /\ Len(rows') <= MaxTokens
          /\ Len(rows') = Len(rows) + 1
      BY <3>1, <3>2, RowAdded
    <3>4. Len(rows') >= Len(rows)
      BY <3>3 DEF Typed
    <3>5. QED
      BY <1>3, <2>3, <3>3, <3>4 DEF Rotate, Typed
  <2>4. CASE RevokeFamily(r)
    <3>1. rows' \in Seq(Row) /\ Len(rows') = Len(rows) /\ closed' \subseteq Tokens
      BY <2>4, RowsRevoked DEF RevokeFamily
    <3>2. QED
      BY <1>3, <2>4, <3>1 DEF RevokeFamily, Typed
  <2>5. QED
    BY <1>5, <2>1, <2>2, <2>3, <2>4 DEF RefreshToken
<1>6. ASSUME NEW r \in Requests, Logout(r) PROVE Typed'
  <2>1. CASE \E b \in Accounts : RevocationStarts(r, b)
    BY <1>2, <2>1, TrackerTyped DEF RevocationStarts, OnAccount, Typed
  <2>2. CASE RevokeAll(r)
    <3>1. rows' \in Seq(Row) /\ Len(rows') = Len(rows) /\ closed' \subseteq Tokens
      BY <2>2, RowsRevoked DEF RevokeAll
    <3>2. QED
      BY <1>3, <2>2, <3>1 DEF RevokeAll, Typed
  <2>3. QED
    BY <1>6, <2>1, <2>2 DEF Logout
<1>7. ASSUME NEW b \in Accounts, Unlock(b) PROVE Typed'
  BY <1>7, TrackerTyped DEF Unlock, Typed
<1>8. ASSUME AuthTick PROVE Typed'
  BY <1>8, TrackerTyped DEF AuthTick, Typed
<1>9. ASSUME Restart PROVE Typed'
  <2>1. TrackerTypeOK'
    BY <1>9, TrackerAssumption DEF Restart, Typed, TrackerTypeOK
  <2>2. \A r \in Requests : request'[r].at = "idle"
    BY <1>9 DEF Restart, Idle
  <2>3. QED
    BY <1>9, <2>1, <2>2 DEF Restart, Typed
<1>10. CASE UNCHANGED authVars
  BY <1>10, TrackerTyped DEF authVars, Typed
<1>11. QED
  BY <1>4, <1>5, <1>6, <1>7, <1>8, <1>9, <1>10 DEF AuthNext

-----------------------------------------------------------------------------
\* Wrong passwords.

LEMMA ComparingFinite ==
  ASSUME NEW a
  PROVE  /\ Cardinality(Comparing(a)) \in Nat /\ Cardinality(Requests) \in Nat
         /\ Cardinality(Comparing(a)) <= Cardinality(Requests)
         /\ IsFiniteSet(Comparing(a))
BY AuthAssumption, FS_Subset, FS_CardinalityType DEF Comparing

\* No request has begun to compare a password.
LEMMA NoneBegins ==
  ASSUME Typed, NEW a, Comparing(a)' \subseteq Comparing(a)
  PROVE  Cardinality(Comparing(a)') <= Cardinality(Comparing(a))
BY ComparingFinite, FS_Subset

\* One that did has ended.
LEMMA OneEnds ==
  ASSUME Typed, NEW a, NEW r \in Comparing(a), r \notin Comparing(a)',
         Comparing(a)' \subseteq Comparing(a)
  PROVE  /\ Cardinality(Comparing(a)') < Cardinality(Comparing(a))
         /\ Cardinality(Comparing(a)') < Cardinality(Requests)
<1>1. Comparing(a)' \subseteq Comparing(a) \ {r}
  OBVIOUS
<1>2. /\ Cardinality(Comparing(a) \ {r}) = Cardinality(Comparing(a)) - 1
      /\ IsFiniteSet(Comparing(a) \ {r})
  BY ComparingFinite, FS_RemoveElement
<1>3. Cardinality(Comparing(a)') <= Cardinality(Comparing(a) \ {r})
  BY <1>1, <1>2, FS_Subset
<1>4. Cardinality(Comparing(a)') \in Nat
  BY <1>1, <1>2, FS_Subset, FS_CardinalityType
<1>5. QED
  BY <1>2, <1>3, <1>4, ComparingFinite

\* A request that goes on to something else is no comparison any more.
LEMMA ComparingAfterAwait ==
  ASSUME Typed, NEW r \in Requests, NEW step, Await(r, step), NEW a
  PROVE  /\ step.at # "compare" \/ step.account # a =>
              Comparing(a)' \subseteq Comparing(a) /\ r \notin Comparing(a)'
BY AwaitOne DEF Comparing

\* The tracker is left alone and no request has begun to compare.
LEMMA GuessesUnchanged ==
  ASSUME Typed, NEW a \in Accounts, Guesses(a), count'[a] = count[a],
         age'[a] = age[a], streak'[a] = streak[a],
         Comparing(a)' \subseteq Comparing(a)
  PROVE  Guesses(a)'
<1>1. Cardinality(Comparing(a)') <= Cardinality(Comparing(a))
  BY NoneBegins
<1>2. Cardinality(Comparing(a)') \in Nat
  BY ComparingFinite, FS_Subset, FS_CardinalityType
<1>3. streak[a] \in Nat
  BY DEF Typed, TrackerTypeOK
<1>4. QED
  BY <1>1, <1>2, <1>3, ComparingFinite, TrackerAssumption DEF Guesses

\* A login that is admitted finds the account unlocked, and its count below the
\* limit afterwards.
LEMMA GuessesLoginStarts ==
  ASSUME Typed, GuessInv, NEW r \in Requests, NEW b \in Accounts,
         LoginStarts(r, b), NEW a \in Accounts
  PROVE  Guesses(a)'
<1>1. PICK locked \in BOOLEAN :
        /\ IsLocked(b, locked)
        /\ Await(r, IF locked THEN Idle ELSE [at |-> "compare", account |-> b])
  BY DEF LoginStarts
<1>2. Guesses(a) /\ count[a] \in 0..MaxFailures /\ streak[a] \in Nat
      /\ age[a] \in Nat
  BY DEF GuessInv, Typed, TrackerTypeOK
<1>3. CASE a # b \/ locked
  <2>1. count'[a] = count[a] /\ age' = age /\ streak' = streak
    BY <1>1, <1>3 DEF IsLocked, Typed, TrackerTypeOK
  <2>2. Comparing(a)' \subseteq Comparing(a)
    BY <1>1, <1>3, ComparingAfterAwait DEF Idle
  <2>3. QED
    BY <1>2, <2>1, <2>2, GuessesUnchanged
<1>4. CASE a = b /\ ~locked
  <2>1. age' = age /\ streak' = streak
    BY <1>1 DEF IsLocked
  <2>2. CASE count[a] = MaxFailures
    <3>1. ~Locked(a) /\ count' = [count EXCEPT ![a] = 0]
      BY <1>1, <1>4, <2>2, Zenon DEF IsLocked
    <3>2. count'[a] = 0 /\ age[a] >= LockoutDuration
      BY <1>2, <2>2, <3>1, TrackerAssumption DEF Locked, Typed, TrackerTypeOK
    <3>3. QED
      BY <1>2, <2>1, <3>2, TrackerAssumption DEF Guesses
  <2>3. CASE count[a] # MaxFailures
    <3>1. count'[a] = count[a]
      BY <1>1, <2>3, <1>4 DEF IsLocked
    <3>2. QED
      BY <1>2, <2>1, <2>3, <3>1 DEF Guesses
  <2>4. QED
    BY <2>2, <2>3
<1>5. QED
  BY <1>3, <1>4

\* A failure adds one to the streak and takes one from the comparisons.
LEMMA GuessesLoginFails ==
  ASSUME Typed, GuessInv, NEW r \in Requests, LoginFails(r), NEW a \in Accounts
  PROVE  Guesses(a)'
<1>0. PICK b \in Accounts : b = request[r].account
  BY RequestKinds DEF LoginFails
<1>1. RecordFailure(b) /\ Await(r, Idle) /\ r \in Comparing(b)
  BY <1>0 DEF LoginFails, Comparing
<1>2. /\ Guesses(a) /\ count[a] \in 0..MaxFailures /\ streak[a] \in Nat
      /\ age[a] \in Nat
  BY DEF GuessInv, Typed, TrackerTypeOK
<1>3. Comparing(a)' \subseteq Comparing(a) /\ r \notin Comparing(a)'
  BY <1>1, ComparingAfterAwait DEF Idle
<1>4. Swept(a) => streak[a] = 0
  BY <1>2, TrackerAssumption DEF Swept, Guesses
<1>5. CASE a # b
  <2>1. age'[a] = age[a] /\ streak'[a] = streak[a]
        /\ count'[a] = IF Swept(a) THEN 0 ELSE count[a]
    BY <1>1, <1>5 DEF RecordFailure, Typed, TrackerTypeOK
  <2>2. CASE Swept(a)
    BY <1>2, <1>4, <2>1, <2>2, TrackerAssumption DEF Guesses
  <2>3. CASE ~Swept(a)
    BY <1>2, <1>3, <2>1, <2>3, GuessesUnchanged
  <2>4. QED
    BY <2>2, <2>3
<1>6. CASE a = b
  <2> DEFINE kept == IF Swept(a) THEN 0 ELSE count[a]
  <2>1. age'[a] = 0 /\ streak'[a] = streak[a] + 1
        /\ count'[a] = IF kept < MaxFailures THEN kept + 1 ELSE kept
    BY <1>1, <1>6 DEF RecordFailure, Typed, TrackerTypeOK
  <2>2. /\ Cardinality(Comparing(a)') < Cardinality(Comparing(a))
        /\ Cardinality(Comparing(a)') < Cardinality(Requests)
        /\ Cardinality(Comparing(a)') \in Nat
    <3>1. IsFiniteSet(Comparing(a)')
      BY <1>3, ComparingFinite, FS_Subset
    <3>2. QED
      BY <1>1, <1>3, <1>6, <3>1, OneEnds, FS_CardinalityType
  <2>3. kept < MaxFailures => streak[a] <= kept
    BY <1>2, <1>4 DEF Guesses
  <2>4. kept \in 0..MaxFailures /\ (kept = MaxFailures => kept = count[a])
    BY <1>2, TrackerAssumption
  <2>5. QED
    BY <1>2, <2>1, <2>2, <2>3, <2>4, ComparingFinite, TrackerAssumption
       DEF Guesses
<1>7. QED
  BY <1>5, <1>6

\* recordSuccess() and unlock() forget the failures.
LEMMA GuessesCleared ==
  ASSUME Typed, GuessInv, NEW b \in Accounts, ClearEntry(b),
         NEW a \in Accounts, Comparing(a)' \subseteq Comparing(a)
  PROVE  Guesses(a)'
<1>1. CASE a = b
  <2>1. count'[a] = 0 /\ streak'[a] = 0
    BY <1>1 DEF ClearEntry, Typed, TrackerTypeOK
  <2>2. QED
    BY <2>1, TrackerAssumption DEF Guesses
<1>2. CASE a # b
  <2>1. count'[a] = count[a] /\ age'[a] = age[a] /\ streak'[a] = streak[a]
    BY <1>2 DEF ClearEntry, Typed, TrackerTypeOK
  <2>2. QED
    BY <2>1, GuessesUnchanged DEF GuessInv
<1>3. QED
  BY <1>1, <1>2

\* With time a streak only ends.
LEMMA GuessesTick ==
  ASSUME Typed, GuessInv, AuthTick, NEW a \in Accounts
  PROVE  Guesses(a)'
<1>1. /\ Guesses(a) /\ count[a] \in 0..MaxFailures /\ streak[a] \in Nat
      /\ age[a] \in Nat /\ count' = count /\ Comparing(a)' = Comparing(a)
      /\ age'[a] = (IF age[a] < Forgotten THEN age[a] + 1 ELSE age[a])
      /\ streak'[a] = (IF age[a] + 1 >= LockoutDuration THEN 0 ELSE streak[a])
  BY DEF GuessInv, Typed, TrackerTypeOK, AuthTick, TrackerTick, Comparing
<1>2. QED
  BY <1>1, ComparingFinite, TrackerAssumption DEF Guesses, Forgotten

LEMMA GuessStep == Typed /\ GuessInv /\ [AuthNext]_authVars => GuessInv'
<1> SUFFICES ASSUME Typed, GuessInv, [AuthNext]_authVars, NEW a \in Accounts
             PROVE  Guesses(a)'
  BY DEF GuessInv
<1>1. ASSUME NEW r \in Requests, NEW step, step.at # "compare", Await(r, step),
             UNCHANGED trackerVars
      PROVE  Guesses(a)'
  BY <1>1, ComparingAfterAwait, GuessesUnchanged DEF trackerVars, GuessInv
<1>2. ASSUME NEW r \in Requests, Login(r) PROVE Guesses(a)'
  <2>1. CASE LoginSucceeds(r)
    <3>1. [request[r] EXCEPT !.at = "create"].at # "compare"
      BY <2>1, RequestKinds DEF LoginSucceeds, OnAccount
    <3>2. Comparing(a)' \subseteq Comparing(a)
      BY <2>1, <3>1, ComparingAfterAwait DEF LoginSucceeds
    <3>3. QED
      BY <2>1, <3>2, GuessesCleared, RequestKinds DEF LoginSucceeds
  <2>2. CASE CreateToken(r)
    BY <1>1, <2>2 DEF CreateToken, Idle
  <2>3. QED
    BY <1>2, <2>1, <2>2, GuessesLoginStarts, GuessesLoginFails DEF Login
<1>3. ASSUME NEW r \in Requests, RefreshToken(r) PROVE Guesses(a)'
  <2>1. CASE \E t \in Tokens : Present(r, t)
    BY <1>1, <2>1 DEF Present
  <2>2. CASE MarkUsed(r)
    <3>1. [request[r] EXCEPT !.at = "rotate"].at # "compare"
      BY <2>2, RequestKinds, NextAwait DEF MarkUsed
    <3>2. QED
      BY <1>1, <2>2, <3>1 DEF MarkUsed
  <2>3. CASE Rotate(r) \/ RevokeFamily(r)
    BY <1>1, <2>3 DEF Rotate, RevokeFamily, Idle
  <2>4. QED
    BY <1>3, <2>1, <2>2, <2>3 DEF RefreshToken
<1>4. ASSUME NEW r \in Requests, Logout(r) PROVE Guesses(a)'
  BY <1>1, <1>4 DEF Logout, RevocationStarts, RevokeAll, Idle
<1>5. ASSUME NEW b \in Accounts, Unlock(b) PROVE Guesses(a)'
  <2>1. Comparing(a)' = Comparing(a)
    BY <1>5 DEF Unlock, Comparing
  <2>2. QED
    BY <1>5, <2>1, GuessesCleared DEF Unlock
<1>6. ASSUME Restart PROVE Guesses(a)'
  <2>1. count'[a] = 0 /\ streak'[a] = 0
    BY <1>6 DEF Restart
  <2>2. QED
    BY <2>1, TrackerAssumption DEF Guesses
<1>7. CASE UNCHANGED authVars
  <2>1. Comparing(a)' = Comparing(a) /\ UNCHANGED trackerVars
    BY <1>7 DEF authVars, Comparing
  <2>2. QED
    BY <2>1, GuessesUnchanged DEF trackerVars, GuessInv
<1>8. QED
  BY <1>2, <1>3, <1>4, <1>5, <1>6, <1>7, GuessesTick DEF AuthNext

-----------------------------------------------------------------------------
\* Families of refresh tokens.

\* A row is added to a family that is not closed, with the account of the
\* family if it has rows.
LEMMA FamilyAfterAdding ==
  ASSUME Typed, FamilyInv, NEW r \in Requests, NEW b \in Accounts,
         NEW f \in 1..MaxTokens, rows' = NewRow(b, f), Len(rows) < MaxTokens,
         closed' = closed, Await(r, Idle),
         f \in Tokens \/ f = Len(rows) + 1,
         f \notin closed,
         \A t \in Tokens : rows[t].family = f => rows[t].account = b
  PROVE  FamilyInv'
<1> DEFINE n == Len(rows) + 1
<1>1. /\ Len(rows) \in Nat /\ Tokens = 1..Len(rows) /\ Tokens' = 1..n
      /\ \A t \in Tokens : rows'[t] = rows[t]
      /\ rows'[n].family = f /\ rows'[n].account = b
  <2>1. Len(rows) \in Nat
    BY DEF Typed
  <2>2. /\ Len(rows') = n /\ \A t \in Tokens : rows'[t] = rows[t]
        /\ rows'[Len(rows')].family = f /\ rows'[Len(rows')].account = b
    BY RowAdded
  <2>3. QED
    BY <2>1, <2>2 DEF Tokens
<1>2. \A t \in Tokens' : t = n \/ t \in Tokens
  BY <1>1
<1>3. \A t \in Tokens' : rows'[t].family \in Tokens'
  BY <1>1, <1>2 DEF FamilyInv
<1>4. \A t, u \in Tokens' :
        rows'[t].family = rows'[u].family => rows'[t].account = rows'[u].account
  BY <1>1, <1>2 DEF FamilyInv
<1>5. ClosedFamilyStaysClosed'
  BY <1>1, <1>2 DEF FamilyInv, ClosedFamilyStaysClosed
<1>6. \A q \in Requests : request'[q].at \in {"mark", "rotate"} =>
        /\ request'[q] = request[q] /\ request[q].token \in Tokens
  BY AwaitOne, RequestKinds DEF Idle
<1>7. \A q \in Requests : request'[q].at \in {"mark", "rotate"} =>
        rows'[request'[q].token].family \notin closed'
  BY <1>1, <1>6 DEF FamilyInv
<1>8. QED
  BY <1>3, <1>4, <1>5, <1>7 DEF FamilyInv

\* Revoking all rows of some families closes them for good.
LEMMA FamilyAfterRevoking ==
  ASSUME Typed, FamilyInv, NEW r \in Requests, NEW chosen \in SUBSET Tokens,
         Revoke(chosen), Await(r, Idle),
         \A t \in chosen, u \in Tokens :
           rows[u].family = rows[t].family => u \in chosen
  PROVE  FamilyInv'
<1>1. /\ Tokens' = Tokens
      /\ \A t \in Tokens :
           /\ rows'[t].family = rows[t].family
           /\ rows'[t].account = rows[t].account
           /\ rows'[t].revoked = (t \in chosen \/ rows[t].revoked)
  BY RowsRevoked DEF Tokens
<1>2. closed' = closed \cup (Settled \cap {rows[t].family : t \in chosen})
  BY DEF Revoke
<1>3. ASSUME NEW t \in Tokens, rows[t].family \in closed' PROVE rows'[t].revoked
  <2>1. CASE rows[t].family \in closed
    BY <1>1, <2>1 DEF FamilyInv, ClosedFamilyStaysClosed
  <2>2. CASE \E u \in chosen : rows[t].family = rows[u].family
    BY <1>1, <2>2
  <2>3. QED
    BY <1>2, <1>3, <2>1, <2>2
<1>4. ClosedFamilyStaysClosed'
  BY <1>1, <1>3 DEF ClosedFamilyStaysClosed
<1>5. \A q \in Requests : request'[q].at \in {"mark", "rotate"} =>
        /\ request'[q] = request[q] /\ request[q].token \in Tokens
        /\ rows[request[q].token].family \notin closed'
  <2>1. \A q \in Requests : request'[q].at \in {"mark", "rotate"} =>
          request'[q] = request[q] /\ request[q].token \in Tokens
    BY AwaitOne, RequestKinds DEF Idle
  <2>2. QED
    BY <1>2, <2>1 DEF FamilyInv, Settled
<1>6. \A q \in Requests : request'[q].at \in {"mark", "rotate"} =>
        rows'[request'[q].token].family \notin closed'
  BY <1>1, <1>5
<1>7. \A t \in Tokens' : rows'[t].family \in Tokens'
  BY <1>1 DEF FamilyInv
<1>8. \A t, u \in Tokens' :
        rows'[t].family = rows'[u].family => rows'[t].account = rows'[u].account
  BY <1>1 DEF FamilyInv
<1>9. QED
  BY <1>4, <1>6, <1>7, <1>8 DEF FamilyInv

\* Nothing changes but what one request is waiting for.
LEMMA FamilyAfterAwait ==
  ASSUME Typed, FamilyInv, NEW r \in Requests, NEW step, Await(r, step),
         UNCHANGED <<rows, closed>>,
         step.at \in {"mark", "rotate"} => rows[step.token].family \notin closed
  PROVE  FamilyInv'
<1>1. \A q \in Requests : request'[q].at \in {"mark", "rotate"} =>
        rows[request'[q].token].family \notin closed
  BY AwaitOne DEF FamilyInv
<1>2. QED
  BY <1>1 DEF FamilyInv, ClosedFamilyStaysClosed, Tokens

LEMMA FamilyStep == Typed /\ FamilyInv /\ [AuthNext]_authVars => FamilyInv'
<1> SUFFICES ASSUME Typed, FamilyInv, [AuthNext]_authVars PROVE FamilyInv'
  OBVIOUS
<1>1. ASSUME NEW r \in Requests, Login(r) PROVE FamilyInv'
  <2>1. CASE \E b \in Accounts : LoginStarts(r, b)
    BY <2>1, FamilyAfterAwait DEF LoginStarts, Idle
  <2>2. CASE LoginFails(r)
    BY <2>2, FamilyAfterAwait DEF LoginFails, Idle
  <2>3. CASE LoginSucceeds(r)
    <3>1. [request[r] EXCEPT !.at = "create"].at = "create"
      BY <2>3, RequestKinds DEF LoginSucceeds, OnAccount
    <3>2. QED
      BY <2>3, <3>1, FamilyAfterAwait DEF LoginSucceeds
  <2>4. CASE CreateToken(r)
    <3> DEFINE f == Len(rows) + 1
    <3>1. f \in 1..MaxTokens /\ f \notin Tokens
      BY <2>4, AuthAssumption DEF CreateToken, Typed, Tokens
    <3>2. f \notin closed /\ \A t \in Tokens : rows[t].family # f
      BY <3>1 DEF Typed, FamilyInv
    <3>3. request[r].account \in Accounts
      BY <2>4, RequestKinds DEF CreateToken
    <3>4. QED
      BY <2>4, <3>1, <3>2, <3>3, FamilyAfterAdding DEF CreateToken
  <2>5. QED
    BY <1>1, <2>1, <2>2, <2>3, <2>4 DEF Login
<1>2. ASSUME NEW r \in Requests, RefreshToken(r) PROVE FamilyInv'
  <2>1. CASE \E t \in Tokens : Present(r, t)
    <3>1. PICK t \in Tokens : Present(r, t)
      BY <2>1
    <3>2. ~rows[t].revoked => rows[t].family \notin closed
      BY DEF FamilyInv, ClosedFamilyStaysClosed
    <3>3. QED
      BY <3>1, <3>2, FamilyAfterAwait DEF Present
  <2>2. CASE MarkUsed(r)
    <3> DEFINE t == request[r].token
    <3>1. t \in Tokens /\ request[r] \in OnToken
      BY <2>2, RequestKinds DEF MarkUsed
    <3>2. /\ Tokens' = Tokens
          /\ \A u \in Tokens : /\ rows'[u].family = rows[u].family
                               /\ rows'[u].account = rows[u].account
                               /\ rows'[u].revoked = rows[u].revoked
      <4>1. \A u \in Tokens : rows[u] \in Row
        BY DEF Typed, Tokens
      <4>2. rows' = [rows EXCEPT ![t] = [rows[t] EXCEPT !.used = TRUE]]
        BY <2>2 DEF MarkUsed
      <4>3. Tokens' = Tokens
        BY <4>2, <3>1 DEF Typed, Tokens
      <4>4. \A u \in Tokens :
              \/ rows'[u] = rows[u]
              \/ u = t /\ rows'[u] = [rows[t] EXCEPT !.used = TRUE]
        BY <4>2, <3>1 DEF Typed, Tokens
      <4>5. QED
        BY <4>1, <4>3, <4>4 DEF Row
    <3>3. \A q \in Requests : request'[q].at \in {"mark", "rotate"} =>
            /\ request'[q].token \in Tokens
            /\ rows[request'[q].token].family \notin closed
      <4>1. rows[t].family \notin closed
        BY <2>2 DEF MarkUsed, FamilyInv
      <4>2. /\ request'[r].token = t
            /\ \A q \in Requests \ {r} : request'[q] = request[q]
        <5>1. Await(r, [request[r] EXCEPT !.at = "rotate"])
          BY <2>2 DEF MarkUsed
        <5>2. [request[r] EXCEPT !.at = "rotate"].token = t
          BY <3>1, NextAwait
        <5>3. QED
          BY <5>1, <5>2, AwaitOne
      <4>3. QED
        BY <3>1, <4>1, <4>2, RequestKinds DEF FamilyInv
    <3>4. closed' = closed
      BY <2>2 DEF MarkUsed
    <3>5. ClosedFamilyStaysClosed'
      BY <3>2, <3>4 DEF FamilyInv, ClosedFamilyStaysClosed
    <3>6. QED
      BY <3>2, <3>3, <3>4, <3>5 DEF FamilyInv
  <2>3. CASE Rotate(r)
    <3>1. PICK t \in Tokens : t = request[r].token
      BY <2>3, RequestKinds DEF Rotate
    <3>2. rows[t] \in Row
      BY DEF Typed, Tokens
    <3>3. rows[t].account \in Accounts /\ rows[t].family \in 1..MaxTokens
      BY <3>2 DEF Row
    <3>4. /\ rows[t].family \in Tokens /\ rows[t].family \notin closed
          /\ \A u \in Tokens : rows[u].family = rows[t].family =>
                                 rows[u].account = rows[t].account
      BY <2>3, <3>1 DEF Rotate, FamilyInv
    <3>5. QED
      BY <2>3, <3>1, <3>3, <3>4, FamilyAfterAdding DEF Rotate
  <2>4. CASE RevokeFamily(r)
    BY <2>4, FamilyAfterRevoking DEF RevokeFamily
  <2>5. QED
    BY <1>2, <2>1, <2>2, <2>3, <2>4 DEF RefreshToken
<1>3. ASSUME NEW r \in Requests, Logout(r) PROVE FamilyInv'
  <2>1. CASE \E b \in Accounts : RevocationStarts(r, b)
    BY <2>1, FamilyAfterAwait DEF RevocationStarts
  <2>2. CASE RevokeAll(r)
    BY <2>2, FamilyAfterRevoking DEF RevokeAll, FamilyInv
  <2>3. QED
    BY <1>3, <2>1, <2>2 DEF Logout
<1>4. ASSUME UNCHANGED <<rows, request, closed>> PROVE FamilyInv'
  BY <1>4 DEF FamilyInv, ClosedFamilyStaysClosed, Tokens
<1>5. ASSUME Restart PROVE FamilyInv'
  <2>1. \A q \in Requests : request'[q].at = "idle"
    BY <1>5 DEF Restart, Idle
  <2>2. QED
    BY <1>5, <2>1 DEF Restart, FamilyInv, ClosedFamilyStaysClosed, Tokens
<1>6. QED
  BY <1>1, <1>2, <1>3, <1>4, <1>5 DEF AuthNext, Unlock, AuthTick, authVars

-----------------------------------------------------------------------------

LEMMA AuthInitially == AuthInit => Typed /\ GuessInv /\ FamilyInv
<1> SUFFICES ASSUME AuthInit PROVE GuessInv /\ FamilyInv
  BY TypedInit
<1>1. GuessInv
  <2>1. \A a \in Accounts : count[a] = 0 /\ age[a] = 0 /\ streak[a] = 0
    BY DEF AuthInit, TrackerInit
  <2>2. 0 < MaxFailures /\ 0 < LockoutDuration
    BY TrackerAssumption
  <2>3. QED
    <3>1. ASSUME NEW a \in Accounts PROVE Guesses(a)
      <4>1. streak[a] <= count[a] /\ ~(age[a] >= LockoutDuration)
            /\ count[a] # MaxFailures
        BY <2>1, TrackerAssumption
      <4>2. QED
        BY <4>1, <2>1 DEF Guesses
    <3>2. QED
      BY <3>1 DEF GuessInv
<1>2. Tokens = {} /\ \A r \in Requests : request[r].at = "idle"
  BY DEF AuthInit, Tokens, Idle
<1>3. QED
  BY <1>1, <1>2 DEF FamilyInv, ClosedFamilyStaysClosed

THEOREM AuthInvariantHolds == AuthSpec => [](Typed /\ GuessInv /\ FamilyInv)
<1>1. QED
  BY AuthInitially, TypedStep, GuessStep, FamilyStep, PTL DEF AuthSpec

\* However many logins overlap, an account takes fewer wrong passwords than
\* maxAttempts plus the number of requests before a whole lockout passes.
THEOREM GuessesAreBounded == AuthSpec => []GuessesBounded
<1>1. Typed /\ GuessInv => GuessesBounded
  <2> SUFFICES ASSUME Typed, GuessInv, NEW a \in Accounts
               PROVE  streak[a] < MaxFailures + Cardinality(Requests)
    BY DEF GuessesBounded
  <2>1. Guesses(a) /\ count[a] \in 0..MaxFailures /\ streak[a] \in Nat
    BY DEF GuessInv, Typed, TrackerTypeOK
  <2>2. QED
    BY <2>1, ComparingFinite, TrackerAssumption DEF Guesses
<1>2. QED
  BY <1>1, AuthInvariantHolds, PTL

\* A family revoked while none of its tokens was being exchanged never has a
\* usable token again, for any number of accounts, tokens and requests.
THEOREM ClosedFamiliesStayClosed == AuthSpec => []ClosedFamilyStaysClosed
<1>1. FamilyInv => ClosedFamilyStaysClosed
  BY DEF FamilyInv
<1>2. QED
  BY <1>1, AuthInvariantHolds, PTL

-----------------------------------------------------------------------------
\* TokenStore.

\* A token whose storing is complete has a life left while it can be found.
HasLife ==
  \A t \in TokenIds :
    storing[t] \in {"expire", "done"} /\ Get(token, t) => ttl[t] > 0

InMemory ==
  kind = "memory" =>
    /\ smembers = {}
    /\ \A t \in TokenIds :
         /\ storing[t] \in {"new", "done"}
         /\ token[t] # "bare"
         /\ token[t] # "none" => storing[t] = "done"
         /\ t \in dead => token[t] = "none"

InRedis ==
  kind = "redis" =>
    /\ \A t \in TokenIds : storing[t] = "done" => FamilyOf[t] \in members
    /\ \A t \in revoking : storing[t] = "done" /\ FamilyOf[t] \in smembers
    /\ \A t \in dead : Get(token, t) => ttl[t] <= flag[FamilyOf[t]]

StoreInv ==
  /\ StoreTypeOK
  /\ \A t \in dead : storing[t] = "done"
  /\ HasLife
  /\ InMemory
  /\ InRedis

-----------------------------------------------------------------------------

LEMMA StoreInMemoryPreserves ==
  ASSUME StoreInv, NEW t \in TokenIds, StoreInMemory(t)
  PROVE  StoreInv'
<1> USE TokenStoreAssumption
<1>1. StoreTypeOK'
  BY DEF StoreInv, StoreInMemory, StoreTypeOK, Stored
<1>2. \A u \in dead' : storing'[u] = "done"
  BY DEF StoreInv, StoreInMemory, StoreTypeOK
<1>3. HasLife'
  BY DEF StoreInv, StoreInMemory, StoreTypeOK, HasLife, Get
<1>4. InMemory'
  BY DEF StoreInv, StoreInMemory, StoreTypeOK, InMemory
<1>5. InRedis'
  BY DEF StoreInMemory, InRedis
<1>6. QED
  BY <1>1, <1>2, <1>3, <1>4, <1>5 DEF StoreInv

\* HSET, EXPIRE and SADD touch a token that is not dead yet.
LEMMA StoreInRedisPreserves ==
  ASSUME StoreInv, NEW t \in TokenIds, HSet(t) \/ Expire(t) \/ SAdd(t)
  PROVE  StoreInv'
<1> USE TokenStoreAssumption
<1>0. kind = "redis" /\ kind' = kind /\ t \notin dead /\ t \notin revoking
  BY DEF StoreInv, InMemory, InRedis, HSet, Expire, SAdd, StoreTypeOK
<1>1. StoreTypeOK'
  BY DEF StoreInv, HSet, Expire, SAdd, StoreTypeOK, Stored
<1>2. \A u \in dead' : storing'[u] = "done"
  BY <1>0 DEF StoreInv, HSet, Expire, SAdd, StoreTypeOK
<1>3. HasLife'
  BY DEF StoreInv, HSet, Expire, SAdd, StoreTypeOK, HasLife, Get
<1>4. InMemory'
  BY <1>0 DEF InMemory
<1>5. InRedis'
  BY <1>0 DEF StoreInv, HSet, Expire, SAdd, StoreTypeOK, InRedis, Get
<1>6. QED
  BY <1>1, <1>2, <1>3, <1>4, <1>5 DEF StoreInv

\* markUsed() writes a whole token only over a whole token.
LEMMA MarkTokenUsedPreserves ==
  ASSUME StoreInv, NEW t \in TokenIds, MarkTokenUsed(t)
  PROVE  StoreInv'
<1>1. StoreTypeOK'
  BY DEF StoreInv, MarkTokenUsed, StoreTypeOK, Stored
<1>2. \A u \in dead' : storing'[u] = "done"
  BY DEF StoreInv, MarkTokenUsed
<1>3. \A u \in TokenIds : Get(token', u) => Get(token, u)
  BY DEF StoreInv, MarkTokenUsed, StoreTypeOK, Get
<1>4. HasLife'
  BY <1>3 DEF StoreInv, MarkTokenUsed, HasLife, Get
<1>5. InMemory'
  BY DEF StoreInv, MarkTokenUsed, StoreTypeOK, InMemory
<1>6. InRedis'
  BY <1>3 DEF StoreInv, MarkTokenUsed, StoreTypeOK, InRedis, Get
<1>7. QED
  BY <1>1, <1>2, <1>4, <1>5, <1>6 DEF StoreInv

\* In memory, what a revocation makes unusable it deletes.
LEMMA RevokeInMemoryPreserves ==
  ASSUME StoreInv, NEW families \in SUBSET Families, NEW revoked \in SUBSET TokenIds,
         RevokeInMemory(families, revoked),
         \A t \in revoked : token[t] # "none",
         \A t \in TokenIds :
           token[t] # "none" /\ FamilyOf[t] \in families => t \in revoked
  PROVE  StoreInv'
<1> USE TokenStoreAssumption
<1>1. StoreTypeOK'
  <2>1. dead' \subseteq TokenIds
    BY DEF StoreInv, RevokeInMemory, Bury, StoreTypeOK
  <2>2. QED
    BY <2>1 DEF StoreInv, RevokeInMemory, StoreTypeOK, Stored
<1>2. \A t \in revoked : storing[t] = "done"
  BY DEF StoreInv, InMemory, RevokeInMemory
<1>3. \A t \in TokenIds :
        Usable(token, flag, t) /\ ~Usable(token', flag', t) => token'[t] = "none"
  BY DEF StoreInv, RevokeInMemory, StoreTypeOK, Usable, Get
<1>4. \A t \in dead' : storing'[t] = "done" /\ token'[t] = "none"
  BY <1>2, <1>3 DEF StoreInv, InMemory, RevokeInMemory, Bury, StoreTypeOK
<1>5. HasLife'
  BY DEF StoreInv, RevokeInMemory, HasLife, Get, StoreTypeOK
<1>6. InMemory'
  BY <1>4 DEF StoreInv, InMemory, RevokeInMemory, StoreTypeOK
<1>7. InRedis'
  BY DEF RevokeInMemory, InRedis
<1>8. QED
  BY <1>1, <1>4, <1>5, <1>6, <1>7 DEF StoreInv

\* In Redis, the flag a revocation sets outlives every token of the family.
LEMMA SetFlagsPreserves ==
  ASSUME StoreInv, NEW families \in SUBSET Families, NEW revoked \in SUBSET TokenIds,
         SetFlags(families, revoked),
         \A t \in revoked : storing[t] = "done" /\ FamilyOf[t] \in families,
         \/ UNCHANGED <<smembers, revoking>>
         \/ smembers' = {} /\ revoking' = {}
  PROVE  StoreInv'
<1> USE TokenStoreAssumption
<1>1. StoreTypeOK'
  <2>1. dead' \subseteq TokenIds
    BY DEF StoreInv, SetFlags, Bury, StoreTypeOK
  <2>2. QED
    BY <2>1 DEF StoreInv, SetFlags, StoreTypeOK, Stored
<1>2. \A t \in dead' : storing[t] = "done"
  BY DEF StoreInv, SetFlags, Bury
<1>3. \A f \in Families : flag[f] <= flag'[f]
  BY DEF StoreInv, SetFlags, StoreTypeOK
<1>4. ASSUME NEW t \in dead', Get(token, t) PROVE ttl[t] <= flag'[FamilyOf[t]]
  <2>1. /\ t \in TokenIds /\ FamilyOf[t] \in Families
        /\ ttl[t] \in 0..TokenTTL /\ flag[FamilyOf[t]] \in 0..FlagTTL
        /\ flag'[FamilyOf[t]] \in 0..FlagTTL
    BY <1>1 DEF StoreInv, StoreTypeOK
  <2>2. CASE t \in dead
    <3>1. ttl[t] <= flag[FamilyOf[t]]
      BY <1>4, <2>2 DEF StoreInv, InRedis, SetFlags
    <3>2. QED
      BY <1>3, <2>1, <3>1
  <2>3. CASE FamilyOf[t] \in families
    BY <2>1, <2>3 DEF SetFlags
  <2>4. CASE Usable(token, flag, t) /\ ~Usable(token', flag', t)
    BY <2>1, <2>3, <2>4 DEF SetFlags, Usable, Get
  <2>5. QED
    BY <2>2, <2>3, <2>4 DEF SetFlags, Bury
<1>5. HasLife'
  BY DEF StoreInv, SetFlags, HasLife, Get
<1>6. InMemory'
  BY DEF SetFlags, InMemory
<1>7. InRedis'
  BY <1>4 DEF StoreInv, InRedis, SetFlags, Get
<1>8. QED
  BY <1>1, <1>2, <1>5, <1>6, <1>7 DEF StoreInv, SetFlags

LEMMA SMembersPreserves ==
  ASSUME StoreInv, SMembers
  PROVE  StoreInv'
<1>1. StoreTypeOK'
  BY DEF StoreInv, SMembers, StoreTypeOK
<1>2. HasLife' /\ \A t \in dead' : storing'[t] = "done"
  BY DEF StoreInv, SMembers, HasLife, Get
<1>3. InMemory'
  BY DEF SMembers, InMemory
<1>4. InRedis'
  BY DEF StoreInv, SMembers, InRedis, Get
<1>5. QED
  BY <1>1, <1>2, <1>3, <1>4 DEF StoreInv

\* A tick takes as much from the flag as from the token.
LEMMA StoreTickPreserves ==
  ASSUME StoreInv, StoreTick
  PROVE  StoreInv'
<1> USE TokenStoreAssumption
<1>1. StoreTypeOK'
  <2>1. dead' \subseteq TokenIds
    BY DEF StoreInv, StoreTick, Bury, StoreTypeOK
  <2>2. ttl' \in [TokenIds -> 0..TokenTTL] /\ flag' \in [Families -> 0..FlagTTL]
    BY DEF StoreInv, StoreTick, StoreTypeOK
  <2>3. token' \in [TokenIds -> Stored]
    BY DEF StoreInv, StoreTick, StoreTypeOK, Stored
  <2>4. QED
    BY <2>1, <2>2, <2>3 DEF StoreInv, StoreTick, StoreTypeOK
<1>2. \A t \in dead' : storing'[t] = "done"
  BY DEF StoreInv, StoreTick, Bury
<1>3. \A t \in TokenIds : Get(token', t) =>
        Get(token, t) /\ ttl[t] # 1 /\ token'[t] = token[t]
  BY DEF StoreInv, StoreTick, StoreTypeOK, Get
<1>4. \A t \in TokenIds : ttl[t] \in Nat /\ ttl'[t] =
        IF ttl[t] = 0 THEN 0 ELSE ttl[t] - 1
  BY DEF StoreInv, StoreTick, StoreTypeOK
<1>5. HasLife'
  BY <1>3, <1>4 DEF StoreInv, StoreTick, HasLife, Get
<1>6. ASSUME kind = "memory" PROVE InMemory'
  <2>1. flag' = flag
    BY <1>6 DEF StoreInv, StoreTick, StoreTypeOK
  <2>2. \A t \in TokenIds : token'[t] = token[t] \/ token'[t] = "none"
    BY DEF StoreInv, StoreTick, StoreTypeOK
  <2>3. \A t \in TokenIds :
          Usable(token, flag, t) /\ ~Usable(token', flag', t) => token'[t] = "none"
    BY <2>1, <2>2 DEF Usable, Get
  <2>4. \A t \in dead' : token'[t] = "none"
    BY <1>6, <2>2, <2>3 DEF StoreInv, InMemory, StoreTick, Bury, StoreTypeOK
  <2>5. QED
    BY <1>6, <2>2, <2>4 DEF StoreInv, InMemory, StoreTick
<1>7. ASSUME kind = "redis", NEW t \in dead', Get(token', t)
      PROVE  ttl'[t] <= flag'[FamilyOf[t]]
  <2>1. t \in TokenIds /\ FamilyOf[t] \in Families
    BY <1>1 DEF StoreTypeOK
  <2>2. /\ flag[FamilyOf[t]] \in Nat
        /\ flag'[FamilyOf[t]] =
             IF flag[FamilyOf[t]] = 0 THEN 0 ELSE flag[FamilyOf[t]] - 1
    BY <1>7, <2>1 DEF StoreInv, StoreTick, StoreTypeOK
  <2>3. t \in dead
    <3>1. ~(Usable(token, flag, t) /\ ~Usable(token', flag', t))
      BY <1>7, <2>2 DEF Usable
    <3>2. QED
      BY <3>1 DEF StoreTick, Bury
  <2>4. ttl[t] <= flag[FamilyOf[t]]
    BY <1>3, <1>7, <2>1, <2>3 DEF StoreInv, InRedis
  <2>5. QED
    BY <1>4, <2>1, <2>2, <2>4
<1>8. InRedis'
  BY <1>7 DEF StoreInv, StoreTick, InRedis, Get
<1>9. InMemory'
  BY <1>6 DEF StoreTick, InMemory
<1>10. QED
  BY <1>1, <1>2, <1>5, <1>8, <1>9 DEF StoreInv

-----------------------------------------------------------------------------

LEMMA StoreInitially == StoreInit => StoreInv
BY TokenStoreAssumption
   DEF StoreInit, StoreInv, StoreTypeOK, HasLife, InMemory, InRedis, Get, Stored

LEMMA StoreStep == StoreInv /\ [StoreNext]_storeVars => StoreInv'
<1> SUFFICES ASSUME StoreInv, [StoreNext]_storeVars PROVE StoreInv'
  OBVIOUS
<1>1. ASSUME NEW t \in TokenIds, StoreToken(t) PROVE StoreInv'
  BY <1>1, StoreInMemoryPreserves, StoreInRedisPreserves DEF StoreToken
<1>2. ASSUME NEW t \in TokenIds, MarkTokenUsed(t) PROVE StoreInv'
  BY <1>2, MarkTokenUsedPreserves
<1>3. ASSUME NEW f \in Families, RevokeFamilyInMemory(f) PROVE StoreInv'
  <2> DEFINE R == {t \in TokenIds : token[t] # "none" /\ FamilyOf[t] = f}
  <2>1. RevokeInMemory({f}, R) /\ {f} \in SUBSET Families /\ R \in SUBSET TokenIds
    BY <1>3 DEF RevokeFamilyInMemory
  <2>2. QED
    BY <2>1, RevokeInMemoryPreserves
<1>4. ASSUME RevokeAllInMemory PROVE StoreInv'
  <2> DEFINE R == {t \in TokenIds : token[t] # "none"}
             F == {FamilyOf[t] : t \in R}
  <2>1. /\ RevokeInMemory(F, R) /\ R \in SUBSET TokenIds
        /\ F \in SUBSET Families
    BY <1>4, TokenStoreAssumption DEF RevokeAllInMemory
  <2>2. QED
    BY <2>1, RevokeInMemoryPreserves
<1>5. ASSUME NEW f \in Families, RevokeFamilyInRedis(f) PROVE StoreInv'
  <2> DEFINE R == {t \in TokenIds : storing[t] = "done" /\ FamilyOf[t] = f}
  <2>1. /\ SetFlags({f}, R) /\ UNCHANGED <<smembers, revoking>>
        /\ {f} \in SUBSET Families /\ R \in SUBSET TokenIds
    BY <1>5 DEF RevokeFamilyInRedis
  <2>2. QED
    BY <2>1, SetFlagsPreserves
<1>6. ASSUME SMembers PROVE StoreInv'
  BY <1>6, SMembersPreserves
<1>7. ASSUME Pipeline PROVE StoreInv'
  <2>1. /\ SetFlags(smembers, revoking) /\ smembers' = {} /\ revoking' = {}
        /\ smembers \in SUBSET Families /\ revoking \in SUBSET TokenIds
    BY <1>7 DEF Pipeline, StoreInv, StoreTypeOK
  <2>2. \A t \in revoking : storing[t] = "done" /\ FamilyOf[t] \in smembers
    BY <2>1 DEF StoreInv, InRedis, SetFlags
  <2>3. QED
    BY <2>1, <2>2, SetFlagsPreserves
<1>8. ASSUME StoreTick PROVE StoreInv'
  BY <1>8, StoreTickPreserves
<1>9. CASE UNCHANGED storeVars
  BY <1>9 DEF storeVars, StoreInv, StoreTypeOK, HasLife, InMemory, InRedis, Get
<1>10. QED
  BY <1>1, <1>2, <1>3, <1>4, <1>5, <1>6, <1>7, <1>8, <1>9
     DEF StoreNext, RevokeAllForUser

THEOREM StoreInvariantHolds == StoreSpec => []StoreInv
<1>1. QED
  BY StoreInitially, StoreStep, PTL DEF StoreSpec

\* A token that expired, or was revoked after it had been stored, cannot be
\* exchanged again in either store: the flag of its family outlives it.
THEOREM DeadTokensStayDead == StoreSpec => []DeadStaysDead
<1>1. StoreInv => DeadStaysDead
  BY TokenStoreAssumption
     DEF StoreInv, StoreTypeOK, HasLife, InMemory, InRedis, DeadStaysDead, Usable, Get
<1>2. QED
  BY <1>1, StoreInvariantHolds, PTL

-----------------------------------------------------------------------------
\* PermissionCheck.

\* A set of naturals has a least element.
LEMMA LeastExists ==
  ASSUME NEW S, S \subseteq Nat, S # {}
  PROVE  \E n \in S : \A m \in S : n <= m
<1> DEFINE Less == {p \in Nat \X Nat : p[1] < p[2]}
<1>1. IsWellFoundedOn(Less, Nat)
  BY NatLessThanWellFounded DEF OpToRel
<1>2. PICK n \in S : \A m \in S : ~ (<<m, n>> \in Less)
  BY <1>1, WFMin
<1>3. \A m \in S : ~ (m < n)
  BY <1>2
<1>4. \A m \in S : m \in Nat
  OBVIOUS
<1> HIDE DEF Less
<1> QED
  BY <1>3, <1>4

Parents(roles) == UNION {hierarchy.inherits[r] : r \in roles}

\* resolveAll() without its recursion.
Visits(visit) ==
  visit = [resolved \in SUBSET Roles |->
             IF Parents(resolved) \subseteq resolved THEN resolved
             ELSE visit[resolved \cup Parents(resolved)]]

\* Roles that are closed inherit nothing more; others inherit what they and
\* their parents do.
LEMMA InheritedFacts ==
  ASSUME PermTypeOK, NEW roles \in SUBSET Roles
  PROVE  /\ Parents(roles) \subseteq Roles
         /\ Parents(roles) \subseteq roles => Inherited(roles) = roles
         /\ Inherited(roles \cup Parents(roles)) = Inherited(roles)
<1>1. \A r \in Roles : hierarchy.inherits[r] \subseteq Roles
  BY PermissionAssumption DEF PermTypeOK
<1>2. Parents(roles) \subseteq Roles
  BY <1>1 DEF Parents
<1>3. ASSUME Parents(roles) \subseteq roles PROVE Inherited(roles) = roles
  <2>1. ClosedUnderInheritance(roles)
    BY <1>3 DEF Parents, ClosedUnderInheritance
  <2>2. QED
    BY <2>1 DEF Inherited
<1>4. ASSUME NEW s \in SUBSET Roles, ClosedUnderInheritance(s)
      PROVE  roles \subseteq s <=> roles \cup Parents(roles) \subseteq s
  BY <1>4 DEF Parents, ClosedUnderInheritance
<1>5. Inherited(roles \cup Parents(roles)) = Inherited(roles)
  BY <1>4 DEF Inherited
<1>6. QED
  BY <1>2, <1>3, <1>5

\* The recursion has a solution.
LEMMA VisitExists ==
  ASSUME PermTypeOK
  PROVE  \E visit : Visits(visit)
<1> DEFINE h == [roles \in SUBSET Roles |-> Inherited(roles)]
<1>1. \A roles \in SUBSET Roles : Parents(roles) \subseteq Roles
  BY InheritedFacts
<1>2. \A roles \in SUBSET Roles :
        h[roles] = IF Parents(roles) \subseteq roles THEN roles ELSE h[roles \cup Parents(roles)]
  BY <1>1, InheritedFacts
<1>3. h = [roles \in SUBSET Roles |-> h[roles]]
  OBVIOUS
<1> HIDE DEF h
<1>4. Visits(h)
  BY <1>2, <1>3 DEF Visits
<1>5. QED
  BY <1>4

\* Every solution is the set of inherited roles: the roles left to visit become
\* fewer with each call.
LEMMA VisitIsInherited ==
  ASSUME PermTypeOK, NEW visit, Visits(visit), NEW roles \in SUBSET Roles
  PROVE  visit[roles] = Inherited(roles)
<1> DEFINE Wrong == {x \in SUBSET Roles : visit[x] # Inherited(x)}
           Sizes == {Cardinality(Roles \ x) : x \in Wrong}
<1> SUFFICES ASSUME Wrong # {} PROVE FALSE
  OBVIOUS
<1>1. \A x \in SUBSET Roles : IsFiniteSet(Roles \ x) /\ Cardinality(Roles \ x) \in Nat
  BY PermissionAssumption, FS_Difference, FS_CardinalityType
<1>2. PICK n \in Sizes : \A m \in Sizes : n <= m
  <2>1. Sizes \subseteq Nat /\ Sizes # {}
    BY <1>1
  <2>2. QED
    BY <2>1, LeastExists
<1>3. PICK x \in Wrong : n = Cardinality(Roles \ x)
  OBVIOUS
<1>4. PICK y : y = x \cup Parents(x)
  OBVIOUS
<1>5. x \in SUBSET Roles /\ y \in SUBSET Roles /\ visit[x] # Inherited(x)
  BY <1>4, InheritedFacts
<1>6. ~(Parents(x) \subseteq x)
  BY <1>5, InheritedFacts DEF Visits
<1>7. visit[x] = visit[y] /\ Inherited(x) = Inherited(y)
  BY <1>4, <1>5, <1>6, InheritedFacts DEF Visits
<1>8. y \in Wrong
  BY <1>5, <1>7
<1>9. Cardinality(Roles \ y) < Cardinality(Roles \ x)
  <2>1. Roles \ y \subseteq Roles \ x /\ Roles \ y # Roles \ x
    BY <1>4, <1>5, <1>6
  <2>2. /\ IsFiniteSet(Roles \ x) /\ Cardinality(Roles \ x) \in Nat
        /\ Cardinality(Roles \ y) \in Nat
    BY <1>1, <1>5
  <2>3. /\ Cardinality(Roles \ y) <= Cardinality(Roles \ x)
        /\ Cardinality(Roles \ y) # Cardinality(Roles \ x)
    BY <2>1, <2>2, FS_Subset
  <2>4. QED
    BY <2>2, <2>3
<1>10. Cardinality(Roles \ y) \in Nat /\ Cardinality(Roles \ x) \in Nat
  BY <1>1, <1>5
<1>11. n <= Cardinality(Roles \ y)
  BY <1>2, <1>8
<1>12. QED
  BY <1>3, <1>9, <1>10, <1>11

\* resolveAll() collects the roles that every closed set around the given ones
\* contains, in a cyclic hierarchy as in any other.
THEOREM ResolvesWhatIsInherited ==
  ASSUME PermTypeOK, NEW roles \in SUBSET Roles
  PROVE  ResolveAll(roles) = Inherited(roles)
<1>1. PICK v : Visits(v)
  BY VisitExists
<1> DEFINE visit == CHOOSE f : Visits(f)
<1>2. Visits(visit)
  BY <1>1
<1>3. ResolveAll(roles) = visit[roles]
  BY DEF ResolveAll, Visits, Parents
<1> HIDE DEF visit
<1>4. QED
  BY <1>2, <1>3, VisitIsInherited

\* What a check that still awaits the roles may be granted is in its reach.
InReach(c) ==
  check[c].at = "roles" =>
    /\ Holds(userPerms, userRoles) \subseteq check[c].held
    /\ \A q \in Permissions :
         (\E p \in check[c].direct : Means(p, q)) => q \in check[c].held

PermInv ==
  /\ PermTypeOK
  /\ \A c \in Checks : InReach(c)
  /\ GrantedWasHeld

\* The code's matching is what a permission means.
LEMMA MatchingIsMeaning ==
  ASSUME NEW p, NEW q
  PROVE  MatchesPermission(p, q) => Means(p, q)
BY DEF MatchesPermission, Means

\* A permission of the roles is one the user holds.
LEMMA RolesAreHeld ==
  ASSUME PermTypeOK, NEW perms, NEW roles \in SUBSET Roles,
         NEW p \in GetAllPermissions(tokenRoles) \cup GetAllPermissions(roles),
         NEW q \in Permissions, Means(p, q)
  PROVE  q \in Holds(perms, roles)
<1>1. tokenRoles \in SUBSET Roles /\ roles \cup tokenRoles \in SUBSET Roles
  BY DEF PermTypeOK
<1>2. PICK r \in Inherited(tokenRoles) \cup Inherited(roles) : p \in hierarchy.grants[r]
  BY <1>1, ResolvesWhatIsInherited DEF GetAllPermissions
<1>3. r \in Inherited(roles \cup tokenRoles)
  BY DEF Inherited
<1>4. QED
  BY <1>2, <1>3 DEF Holds

LEMMA PermInitially == PermInit => PermInv
BY DEF PermInit, PermInv, PermTypeOK, NoCheck, InReach, GrantedWasHeld

LEMMA StartCheckStep ==
  ASSUME PermInv, NEW c \in Checks, NEW required \in RequiredSets, StartCheck(c, required)
  PROVE  PermInv'
<1>1. PICK new : new = [at |-> IF SuperAdmin \in tokenRoles THEN "granted" ELSE "roles",
        required |-> required, direct |-> userPerms, held |-> Holds(userPerms, userRoles)]
  OBVIOUS
<1>2. /\ check' = [check EXCEPT ![c] = new]
      /\ UNCHANGED <<hierarchy, tokenRoles, userRoles, userPerms>>
  BY <1>1 DEF StartCheck
<1>3. Holds(userPerms, userRoles) \subseteq Permissions
  BY DEF Holds
<1>4. PermTypeOK'
  BY <1>1, <1>2, <1>3 DEF PermInv, PermTypeOK
<1>5. check'[c] = new /\ \A d \in Checks \ {c} : check'[d] = check[d]
  BY <1>2 DEF PermInv, PermTypeOK
<1>6. Holds(userPerms, userRoles)' = Holds(userPerms, userRoles)
  BY <1>2 DEF Holds, Inherited, ClosedUnderInheritance
<1>7. \A q \in Permissions :
        (\E p \in userPerms : Means(p, q)) => q \in Holds(userPerms, userRoles)
  BY DEF Holds
<1>8. \A d \in Checks : InReach(d)'
  <2>1. InReach(c)'
    BY <1>1, <1>5, <1>6, <1>7 DEF InReach
  <2>2. ASSUME NEW d \in Checks, d # c PROVE InReach(d)'
    BY <1>5, <1>6, <2>2 DEF PermInv, InReach
  <2>3. QED
    BY <2>1, <2>2
<1>9. GrantedWasHeld'
  <2>1. new.at = "granted" => required \subseteq Holds(userPerms, userRoles)
    BY <1>1, PermissionAssumption DEF Holds
  <2>2. QED
    BY <1>1, <1>5, <2>1 DEF PermInv, GrantedWasHeld
<1>10. QED
  BY <1>4, <1>8, <1>9 DEF PermInv

LEMMA AnswerStep ==
  ASSUME PermInv, NEW c \in Checks, Answer(c)
  PROVE  PermInv'
<1>1. PICK perms : perms = check[c].direct \cup GetAllPermissions(tokenRoles)
                             \cup GetAllPermissions(userRoles)
  OBVIOUS
<1>2. PICK answer : answer = IF Covers(perms, check[c].required) THEN "granted" ELSE "denied"
  OBVIOUS
<1>3. /\ check[c].at = "roles" /\ check' = [check EXCEPT ![c].at = answer]
      /\ UNCHANGED <<hierarchy, tokenRoles, userRoles, userPerms>>
  BY <1>1, <1>2 DEF Answer
<1>4. /\ check'[c].at = answer /\ check'[c].required = check[c].required
      /\ check'[c].held = check[c].held /\ \A d \in Checks \ {c} : check'[d] = check[d]
  BY <1>3 DEF PermInv, PermTypeOK
<1>5. PermTypeOK'
  BY <1>2, <1>3 DEF PermInv, PermTypeOK
<1>6. Holds(userPerms, userRoles)' = Holds(userPerms, userRoles)
  BY <1>3 DEF Holds, Inherited, ClosedUnderInheritance
<1>7. check[c].required \subseteq Permissions
  BY PermissionAssumption DEF PermInv, PermTypeOK
<1>8. ASSUME answer = "granted", NEW q \in check[c].required PROVE q \in check[c].held
  <2>1. PICK p \in perms : MatchesPermission(p, q)
    BY <1>2, <1>8 DEF Covers
  <2>2. Means(p, q) /\ q \in Permissions
    BY <1>7, <2>1, MatchingIsMeaning
  <2>3. CASE p \in check[c].direct
    BY <1>3, <2>2, <2>3 DEF PermInv, InReach
  <2>4. CASE p \in GetAllPermissions(tokenRoles) \cup GetAllPermissions(userRoles)
    <3>1. q \in Holds(userPerms, userRoles)
      BY <2>2, <2>4, RolesAreHeld DEF PermInv, PermTypeOK
    <3>2. QED
      BY <1>3, <3>1 DEF PermInv, InReach
  <2>5. QED
    BY <1>1, <2>3, <2>4
<1>9. GrantedWasHeld'
  BY <1>4, <1>8 DEF PermInv, GrantedWasHeld
<1>10. \A d \in Checks : InReach(d)'
  <2>1. InReach(c)'
    BY <1>2, <1>4 DEF InReach
  <2>2. ASSUME NEW d \in Checks, d # c PROVE InReach(d)'
    BY <1>4, <1>6, <2>2 DEF PermInv, InReach
  <2>3. QED
    BY <2>1, <2>2
<1>11. QED
  BY <1>5, <1>9, <1>10 DEF PermInv

\* A change of the store comes into the reach of the checks under way.
LEMMA WitnessStep ==
  ASSUME PermInv, NEW perms \in SUBSET Permissions, NEW roles \in SUBSET Roles,
         userPerms' = perms, userRoles' = roles, Witness(perms, roles),
         UNCHANGED <<hierarchy, tokenRoles>>
  PROVE  PermInv'
<1>1. PICK now : now = Holds(perms, roles)
  OBVIOUS
<1>2. now \subseteq Permissions /\ Holds(userPerms, userRoles)' = now
  BY <1>1 DEF Holds, Inherited, ClosedUnderInheritance
<1>3. ASSUME NEW c \in Checks
      PROVE  /\ check'[c].at = check[c].at /\ check'[c].required = check[c].required
             /\ check'[c].direct = check[c].direct
             /\ check'[c].held = IF check[c].at = "roles" THEN check[c].held \cup now
                                 ELSE check[c].held
             /\ check'[c] \in [at : {"none", "roles", "granted", "denied"},
                               required : RequiredSets \cup {{}},
                               direct : SUBSET Permissions, held : SUBSET Permissions]
  <2>1. check[c] \in [at : {"none", "roles", "granted", "denied"},
                      required : RequiredSets \cup {{}},
                      direct : SUBSET Permissions, held : SUBSET Permissions]
    BY DEF PermInv, PermTypeOK
  <2>2. check'[c] = IF check[c].at = "roles"
                    THEN [check[c] EXCEPT !.held = @ \cup now] ELSE check[c]
    BY <1>1 DEF Witness
  <2>3. QED
    BY <1>2, <2>1, <2>2
<1>4. PermTypeOK'
  BY <1>3 DEF PermInv, PermTypeOK, Witness
<1>5. ASSUME NEW c \in Checks PROVE InReach(c)'
  BY <1>2, <1>3 DEF PermInv, InReach
<1>6. GrantedWasHeld'
  BY <1>3 DEF PermInv, GrantedWasHeld
<1>7. QED
  BY <1>4, <1>5, <1>6 DEF PermInv

LEMMA PermStep == PermInv /\ [PermNext]_permVars => PermInv'
<1> SUFFICES ASSUME PermInv, [PermNext]_permVars PROVE PermInv'
  OBVIOUS
<1>1. userPerms \in SUBSET Permissions /\ userRoles \in SUBSET Roles
  BY DEF PermInv, PermTypeOK
<1>2. ASSUME NEW r \in Roles, AssignRole(r) \/ RemoveRole(r) PROVE PermInv'
  <2>1. PICK roles \in SUBSET Roles : SetRoles(roles)
    BY <1>1, <1>2 DEF AssignRole, RemoveRole
  <2>2. QED
    BY <1>1, <2>1, WitnessStep DEF SetRoles
<1>3. ASSUME NEW p \in Permissions, AssignPermission(p) \/ RemovePermission(p) PROVE PermInv'
  <2>1. PICK perms \in SUBSET Permissions : SetPermissions(perms)
    BY <1>1, <1>3 DEF AssignPermission, RemovePermission
  <2>2. QED
    BY <1>1, <2>1, WitnessStep DEF SetPermissions
<1>4. CASE UNCHANGED permVars
  <2>1. Holds(userPerms, userRoles)' = Holds(userPerms, userRoles)
    BY <1>4 DEF permVars, Holds, Inherited, ClosedUnderInheritance
  <2>2. PermTypeOK'
    BY <1>4 DEF permVars, PermInv, PermTypeOK
  <2>3. (\A c \in Checks : InReach(c)') /\ GrantedWasHeld'
    BY <1>4, <2>1 DEF permVars, PermInv, InReach, GrantedWasHeld
  <2>4. QED
    BY <2>2, <2>3 DEF PermInv
<1>5. QED
  BY <1>2, <1>3, <1>4, StartCheckStep, AnswerStep DEF PermNext

\* A check under way has in reach all that the store grants it meanwhile.
THEOREM PermissionInvariantHolds == PermSpec => []PermInv
<1>1. QED
  BY PermInitially, PermStep, PTL DEF PermSpec

\* No request passes the guard on a permission that the user did not hold at some
\* moment of the check, for any hierarchy, cyclic ones included.
THEOREM GrantsWereHeld == PermSpec => []GrantedWasHeld
<1>1. PermInv => GrantedWasHeld
  BY DEF PermInv
<1>2. QED
  BY <1>1, PermissionInvariantHolds, PTL

-----------------------------------------------------------------------------
\* The parts together.

LEMMA AuthTyped == Typed => AuthTypeOK
<1> SUFFICES ASSUME Typed PROVE AuthTypeOK
  OBVIOUS
<1>1. ASSUME NEW r \in Requests
      PROVE  \/ request[r] = Idle
             \/ /\ request[r].at \in {"compare", "create", "revokeAll"}
                /\ request[r].account \in Accounts
             \/ /\ request[r].at \in {"reuse", "mark", "rotate"}
                /\ request[r].token \in Tokens
  <2>1. CASE request[r] \in OnAccount
    BY <2>1, RequestKinds DEF OnAccount
  <2>2. CASE request[r] \in OnToken
    <3>1. request[r].at \in {"reuse", "mark", "rotate"}
      BY <2>2 DEF OnToken
    <3>2. QED
      BY <3>1 DEF Typed
  <2>3. QED
    BY <2>1, <2>2 DEF Typed
<1>2. QED
  BY <1>1 DEF Typed, Row, AuthTypeOK

\* A step of the module is one of a part.
LEMMA PartStep ==
  [PartNext]_parts => [AuthNext]_authVars /\ [StoreNext]_storeVars /\ [PermNext]_permVars
BY DEF PartNext, parts

\* The variables of all parts keep their types in the module that runs them.
THEOREM AuthTypesHold == PartSpec => []AuthTypesOK
<1>1. PartInit => Typed /\ StoreInv /\ PermInv
  BY TypedInit, StoreInitially, PermInitially DEF PartInit
<1>2. Typed /\ StoreInv /\ PermInv /\ [PartNext]_parts => Typed' /\ StoreInv' /\ PermInv'
  BY PartStep, TypedStep, StoreStep, PermStep
<1>3. Typed /\ StoreInv /\ PermInv => AuthTypesOK
  BY AuthTyped DEF StoreInv, PermInv, AuthTypesOK
<1>4. QED
  BY <1>1, <1>2, <1>3, PTL DEF PartSpec

\* A run that checks the combined instance checks behaviours of each part, so what
\* is proved of a part holds there.
THEOREM PartsAreSpecified == PartSpec => AuthSpec /\ StoreSpec /\ PermSpec
<1>1. PartInit => AuthInit /\ StoreInit /\ PermInit
  BY DEF PartInit
<1>2. QED
  BY <1>1, PartStep, PTL DEF PartSpec, AuthSpec, StoreSpec, PermSpec

=============================================================================
