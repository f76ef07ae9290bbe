------------------------------- MODULE MCAuth -------------------------------
(***************************************************************************)
(* TLC instances of the parts of the auth module that keep state: logins   *)
(* and refresh tokens in the database (AuthService over LoginTracker),     *)
(* the two token stores (TokenStore) and permission checks                 *)
(* (PermissionCheck).  They share no state, so a behaviour runs one of     *)
(* them while the others keep their initial state.                         *)
(***************************************************************************)
EXTENDS AuthService, TokenStore, PermissionCheck, TLC

VARIABLE part   \* the part this behaviour runs

parts == <<authVars, storeVars, permVars, part>>

CONSTANTS t1, t2, t3, f1, f2, admin, editor, viewer

\* Two tokens of one family, one of another.
FamilyOfDef == t1 :> f1 @@ t2 :> f1 @@ t3 :> f2

Perm(r, a) == [resource |-> r, action |-> a]

PermissionsDef ==
  {Perm("user", "read"), Perm("user", "*"), Perm("doc", "read"), Perm("*", "*")}

RequiredSetsDef ==
  {{Perm("user", "read")}, {Perm("user", "read"), Perm("doc", "read")}}

\* Four hierarchies, two of them cyclic.
HierarchiesDef ==
  {[inherits |-> viewer :> {} @@ editor :> e @@ admin :> a,
    grants |-> viewer :> {Perm("user", "*")} @@ editor :> {}
                 @@ admin :> {Perm("doc", "read")}] :
      e \in {{viewer}, {viewer, admin}}, a \in {{}, {editor}}}

PartInit ==
  /\ part \in {"service", "stores", "permissions"}
  /\ AuthInit
  /\ StoreInit
  /\ PermInit
  /\ part # "stores" => kind = "memory"
  /\ part # "permissions" =>
       /\ tokenRoles = {}
       /\ hierarchy = CHOOSE h \in Hierarchies : TRUE

PartNext ==
  \/ part = "service" /\ AuthNext /\ UNCHANGED <<storeVars, permVars, part>>
  \/ part = "stores" /\ StoreNext /\ UNCHANGED <<authVars, permVars, part>>
  \/ part = "permissions" /\ PermNext /\ UNCHANGED <<authVars, storeVars, part>>

PartSpec == PartInit /\ [][PartNext]_parts

\* The variables of the three parts keep their types.
AuthTypesOK == AuthTypeOK /\ StoreTypeOK /\ PermTypeOK

RequestSymmetry == Permutations(Requests)

=============================================================================
