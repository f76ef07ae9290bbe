------------------------------- MODULE AuthService -------------------------------
(***************************************************************************)
(* AuthService of the backend template                                     *)
(* (templates/backend-core/src/auth/auth.service.ts): logins guarded by    *)
(* LoginTracker, and families of refresh tokens in the database.           *)
(*                                                                         *)
(* Requests overlap.  Each await of the database or of bcrypt ends a step, *)
(* so what a request has read may be out of date when it acts on it.  A    *)
(* restart forgets the tracker and the requests, not the rows.  A family   *)
(* is named after the token of the login that started it.  Tokens expire   *)
(* inside their JWT, which only refuses more, and is left out.             *)
(***************************************************************************)
EXTENDS LoginTracker, Sequences, FiniteSets

CONSTANTS
  Requests,
  MaxTokens      \* bound: rows ever created

ASSUME AuthAssumption == MaxTokens \in Nat /\ IsFiniteSet(Requests)

VARIABLES
  rows,      \* refresh tokens stored: [account, family, used, revoked]
  request,   \* what each request awaits, and what it has read
  closed     \* families revoked while no refresh of theirs was under way

authVars == <<trackerVars, rows, request, closed>>

Tokens == 1..Len(rows)

Idle == [at |-> "idle"]

AuthTypeOK ==
  /\ TrackerTypeOK
  /\ rows \in Seq([account : Accounts, family : 1..MaxTokens,
                   used : BOOLEAN, revoked : BOOLEAN])
  /\ Len(rows) <= MaxTokens
  /\ \A r \in Requests :
       \/ request[r] = Idle
       \/ /\ request[r].at \in {"compare", "create", "revokeAll"}
          /\ request[r].account \in Accounts
       \/ /\ request[r].at \in {"reuse", "mark", "rotate"}
          /\ request[r].token \in Tokens
  /\ closed \subseteq Tokens

AuthInit ==
  /\ TrackerInit
  /\ rows = << >>
  /\ request = [r \in Requests |-> Idle]
  /\ closed = {}

Await(r, step) == request' = [request EXCEPT ![r] = step]

-----------------------------------------------------------------------------
\* login()

\* The user is read and isLocked() asked; a locked account is refused, any
\* other goes on to bcrypt.compare().
LoginStarts(r, a) ==
  /\ request[r] = Idle
  /\ \E locked \in BOOLEAN :
       /\ IsLocked(a, locked)
       /\ Await(r, IF locked THEN Idle ELSE [at |-> "compare", account |-> a])
  /\ UNCHANGED <<rows, closed>>

\* The password does not match the hash read.
LoginFails(r) ==
  /\ request[r].at = "compare"
  /\ RecordFailure(request[r].account)
  /\ Await(r, Idle)
  /\ UNCHANGED <<rows, closed>>

\* It matches: the failures are forgotten and a first token is to be created.
LoginSucceeds(r) ==
  /\ request[r].at = "compare"
  /\ ClearEntry(request[r].account)
  /\ Await(r, [request[r] EXCEPT !.at = "create"])
  /\ UNCHANGED <<rows, closed>>

NewRow(a, family) ==
  Append(rows, [account |-> a, family |-> family, used |-> FALSE, revoked |-> FALSE])

\* refreshToken.create() with a familyId of its own.
CreateToken(r) ==
  /\ request[r].at = "create"
  /\ Len(rows) < MaxTokens
  /\ rows' = NewRow(request[r].account, Len(rows) + 1)
  /\ Await(r, Idle)
  /\ UNCHANGED <<trackerVars, closed>>

-----------------------------------------------------------------------------
\* refreshToken()

\* Mutant: a revoked token is refused only if it was used as well.
PresentUnrevoked(r, t) ==
  /\ request[r] = Idle
  /\ Await(r, [at |-> IF rows[t].used THEN "reuse" ELSE "mark", token |-> t])
  /\ UNCHANGED <<trackerVars, rows, closed>>

\* findFirst() returns a row of the token presented, whoever presents it (two
\* tokens of a family signed in one second are one string): a used one is a
\* reuse, a revoked one is refused.
Present(r, t) ==
  /\ request[r] = Idle
  /\ \/ /\ rows[t].used
        /\ Await(r, [at |-> "reuse", token |-> t])
     \/ /\ ~rows[t].used /\ ~rows[t].revoked
        /\ Await(r, [at |-> "mark", token |-> t])
  /\ UNCHANGED <<trackerVars, rows, closed>>

\* update({ used: true }), with no condition on the row.
MarkUsed(r) ==
  /\ request[r].at = "mark"
  /\ rows' = [rows EXCEPT ![request[r].token].used = TRUE]
  /\ Await(r, [request[r] EXCEPT !.at = "rotate"])
  /\ UNCHANGED <<trackerVars, closed>>

\* refreshToken.create() in the family of the token presented.
Rotate(r) ==
  /\ request[r].at = "rotate"
  /\ Len(rows) < MaxTokens
  /\ LET old == rows[request[r].token]
     IN  rows' = NewRow(old.account, old.family)
  /\ Await(r, Idle)
  /\ UNCHANGED <<trackerVars, closed>>

\* Families none of whose tokens is between its read and its successor.
Settled ==
  {f \in Tokens : \A r \in Requests :
     request[r].at \in {"mark", "rotate"} => rows[request[r].token].family # f}

\* updateMany({ revoked: true }) over the chosen rows.
Revoke(chosen) ==
  /\ rows' = [t \in Tokens |->
       IF t \in chosen THEN [rows[t] EXCEPT !.revoked = TRUE] ELSE rows[t]]
  /\ closed' = closed \cup (Settled \cap {rows[t].family : t \in chosen})

\* Mutant: only the token presented is revoked.
RevokeReused(r) ==
  /\ request[r].at = "reuse"
  /\ rows' = [rows EXCEPT ![request[r].token].revoked = TRUE]
  /\ closed' = closed \cup (Settled \cap {rows[request[r].token].family})
  /\ Await(r, Idle)
  /\ UNCHANGED trackerVars

\* A used token was presented: its whole family is revoked.
RevokeFamily(r) ==
  /\ request[r].at = "reuse"
  /\ Revoke({t \in Tokens : rows[t].family = rows[request[r].token].family})
  /\ Await(r, Idle)
  /\ UNCHANGED trackerVars

-----------------------------------------------------------------------------
\* logout(), resetPassword() and changePassword()

\* resetPassword() and changePassword() have stored the new hash and go on to
\* revoke; logout() starts with it.
RevocationStarts(r, a) ==
  /\ request[r] = Idle
  /\ Await(r, [at |-> "revokeAll", account |-> a])
  /\ UNCHANGED <<trackerVars, rows, closed>>

\* Mutant: the rows are deleted.
RevokeAllDeleting(r) ==
  /\ request[r].at = "revokeAll"
  /\ rows' = SelectSeq(rows, LAMBDA row : row.account # request[r].account)
  /\ Await(r, Idle)
  /\ UNCHANGED <<trackerVars, closed>>

\* updateMany() over the account's rows.
RevokeAll(r) ==
  /\ request[r].at = "revokeAll"
  /\ Revoke({t \in Tokens : rows[t].account = request[r].account})
  /\ Await(r, Idle)
  /\ UNCHANGED trackerVars

-----------------------------------------------------------------------------

\* The process restarts: the tracker and every request are gone.
Restart ==
  /\ count' = [a \in Accounts |-> 0]
  /\ failureCount' = 0
  /\ streak' = [a \in Accounts |-> 0]
  /\ request' = [r \in Requests |-> Idle]
  /\ UNCHANGED <<age, rows, closed>>

\* An administrator unlocks the account.
Unlock(a) == ClearEntry(a) /\ UNCHANGED <<rows, request, closed>>

AuthTick == TrackerTick /\ UNCHANGED <<rows, request, closed>>

Login(r) ==
  \/ \E a \in Accounts : LoginStarts(r, a)
  \/ LoginFails(r) \/ LoginSucceeds(r) \/ CreateToken(r)

RefreshToken(r) ==
  \/ \E t \in Tokens : Present(r, t)
  \/ MarkUsed(r) \/ Rotate(r) \/ RevokeFamily(r)

Logout(r) == (\E a \in Accounts : RevocationStarts(r, a)) \/ RevokeAll(r)

AuthNext ==
  \/ \E r \in Requests : Login(r) \/ RefreshToken(r) \/ Logout(r)
  \/ \E a \in Accounts : Unlock(a)
  \/ AuthTick
  \/ Restart

AuthSpec == AuthInit /\ [][AuthNext]_authVars

-----------------------------------------------------------------------------

\* However many logins overlap, an account takes at most maxAttempts wrong
\* passwords, and one more for each further login under way, before it has
\* been left alone for the whole lockout: neither the sweep nor an expiring
\* lock gives more.
GuessesBounded ==
  \A a \in Accounts : streak[a] < MaxFailures + Cardinality(Requests)

\* A family revoked on a reuse, a logout or a password change while none of
\* its tokens was being exchanged stays without a usable token for ever,
\* whatever is presented later.
ClosedFamilyStaysClosed ==
  \A t \in Tokens : rows[t].family \in closed => rows[t].revoked
=============================================================================
