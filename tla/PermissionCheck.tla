----------------------------- MODULE PermissionCheck -----------------------------
(***************************************************************************)
(* PermissionsGuard with a permission store                                *)
(* (src/auth/guards/permissions.guard.ts, src/auth/rbac): the checks of    *)
(* one user's requests, while the user's roles and permissions change.     *)
(*                                                                         *)
(* A check awaits the store twice, first for the direct permissions, then  *)
(* for the roles, and joins both with the token's roles; permissions in    *)
(* the token never change and are left out.  The hierarchy comes from      *)
(* static options; it may be cyclic.  A permission is a resource and an    *)
(* action, "*" standing for any.                                           *)
(***************************************************************************)
EXTENDS Naturals, FiniteSets

CONSTANTS
  Roles, SuperAdmin,
  Permissions,       \* every pattern that can be granted
  RequiredSets,      \* what routes require
  Hierarchies,       \* configured hierarchies: [inherits, grants]
  Checks             \* concurrent requests

ASSUME PermissionAssumption ==
  /\ SuperAdmin \in Roles /\ IsFiniteSet(Roles)
  /\ Permissions \subseteq [resource : STRING, action : STRING]
  /\ Hierarchies \subseteq [inherits : [Roles -> SUBSET Roles],
                           grants : [Roles -> SUBSET Permissions]]
  /\ \A required \in RequiredSets : required # {} /\ required \subseteq Permissions

VARIABLES
  hierarchy,    \* rbac.hierarchy: each role's direct parents and permissions
  tokenRoles,   \* roles in the user's token, as old as the token
  userRoles,    \* roles in the store
  userPerms,    \* permissions in the store
  check         \* each request: what it requires, has read and had in reach

permVars == <<hierarchy, tokenRoles, userRoles, userPerms, check>>

NoCheck == [at |-> "none", required |-> {}, direct |-> {}, held |-> {}]

PermTypeOK ==
  /\ hierarchy \in Hierarchies
  /\ tokenRoles \subseteq Roles
  /\ userRoles \subseteq Roles
  /\ userPerms \subseteq Permissions
  /\ check \in [Checks -> [at : {"none", "roles", "granted", "denied"},
                           required : RequiredSets \cup {{}},
                           direct : SUBSET Permissions, held : SUBSET Permissions]]

PermInit ==
  /\ hierarchy \in Hierarchies
  /\ tokenRoles \in SUBSET Roles
  /\ userRoles = {}
  /\ userPerms = {}
  /\ check = [c \in Checks |-> NoCheck]

-----------------------------------------------------------------------------

\* Mutant: the colon is cut off with the star.
MatchesAnyPrefix(perm, required) ==
  \/ perm = required
  \/ perm.action = "*"

\* matchesPermission(): the star alone, the permission itself, or resource:*.
MatchesPermission(perm, required) ==
  \/ perm.resource = "*"
  \/ perm = required
  \/ perm.action = "*" /\ perm.resource = required.resource

\* resolveAll(): the roles and all they inherit, each visited once.
ResolveAll(roles) ==
  LET visit[resolved \in SUBSET Roles] ==
        LET parents == UNION {hierarchy.inherits[r] : r \in resolved}
        IN  IF parents \subseteq resolved THEN resolved
            ELSE visit[resolved \cup parents]
  IN  visit[roles]

\* getAllPermissions()
GetAllPermissions(roles) == UNION {hierarchy.grants[r] : r \in ResolveAll(roles)}

Covers(perms, required) ==
  \A q \in required : \E p \in perms : MatchesPermission(p, q)

-----------------------------------------------------------------------------
\* What the user may do, said without the code's operators: p is meant by some
\* permission the user has, of its own or of a role that every set closed under
\* inheritance and holding the user's roles contains.

ClosedUnderInheritance(roles) == \A r \in roles : hierarchy.inherits[r] \subseteq roles

Inherited(roles) ==
  {r \in Roles : \A s \in SUBSET Roles :
     roles \subseteq s /\ ClosedUnderInheritance(s) => r \in s}

Means(p, q) ==
  p.resource \in {"*", q.resource} /\ (p.resource # "*" => p.action \in {"*", q.action})

Holds(perms, roles) ==
  {q \in Permissions :
     \/ SuperAdmin \in tokenRoles
     \/ \E p \in perms \cup UNION {hierarchy.grants[r] : r \in Inherited(roles \cup tokenRoles)} :
          Means(p, q)}

-----------------------------------------------------------------------------

\* canActivate(): a super-admin passes; else the direct permissions are read.
StartCheck(c, required) ==
  /\ check[c].at # "roles"
  /\ check' = [check EXCEPT ![c] =
       [at |-> IF SuperAdmin \in tokenRoles THEN "granted" ELSE "roles",
        required |-> required, direct |-> userPerms, held |-> Holds(userPerms, userRoles)]]
  /\ UNCHANGED <<hierarchy, tokenRoles, userRoles, userPerms>>

\* Mutant: one permission out of several is enough.
AnswerAny(c) ==
  /\ check[c].at = "roles"
  /\ LET perms == check[c].direct \cup GetAllPermissions(tokenRoles)
                    \cup GetAllPermissions(userRoles)
     IN  check' = [check EXCEPT ![c].at =
           IF \E q \in check[c].required : Covers(perms, {q}) THEN "granted" ELSE "denied"]
  /\ UNCHANGED <<hierarchy, tokenRoles, userRoles, userPerms>>

\* The roles are read and the guard answers.
Answer(c) ==
  /\ check[c].at = "roles"
  /\ LET perms == check[c].direct \cup GetAllPermissions(tokenRoles)
                    \cup GetAllPermissions(userRoles)
     IN  check' = [check EXCEPT ![c].at =
           IF Covers(perms, check[c].required) THEN "granted" ELSE "denied"]
  /\ UNCHANGED <<hierarchy, tokenRoles, userRoles, userPerms>>

\* The checks under way have had in reach what the user holds now.
Witness(perms, roles) ==
  check' = [c \in Checks |->
    IF check[c].at = "roles"
    THEN [check[c] EXCEPT !.held = @ \cup Holds(perms, roles)] ELSE check[c]]

\* assignRoles() and removeRoles() of the store.
SetRoles(roles) ==
  /\ userRoles' = roles
  /\ Witness(userPerms, roles)
  /\ UNCHANGED <<hierarchy, tokenRoles, userPerms>>

AssignRole(r) == r \notin userRoles /\ SetRoles(userRoles \cup {r})

RemoveRole(r) == r \in userRoles /\ SetRoles(userRoles \ {r})

\* assignPermissions() and removePermissions() of the store.
SetPermissions(perms) ==
  /\ userPerms' = perms
  /\ Witness(perms, userRoles)
  /\ UNCHANGED <<hierarchy, tokenRoles, userRoles>>

AssignPermission(p) == p \notin userPerms /\ SetPermissions(userPerms \cup {p})

RemovePermission(p) == p \in userPerms /\ SetPermissions(userPerms \ {p})

PermNext ==
  \/ \E c \in Checks :
       (\E required \in RequiredSets : StartCheck(c, required)) \/ Answer(c)
  \/ \E r \in Roles : AssignRole(r) \/ RemoveRole(r)
  \/ \E p \in Permissions : AssignPermission(p) \/ RemovePermission(p)

PermSpec == PermInit /\ [][PermNext]_permVars

-----------------------------------------------------------------------------

\* Every permission that let a request through was held by the user at some
\* moment of the check, by the definition above, though not all of them need
\* have been held at one moment.
GrantedWasHeld ==
  \A c \in Checks : check[c].at = "granted" => check[c].required \subseteq check[c].held

=============================================================================
