------------------------ MODULE MCContentPublishing ------------------------
(***************************************************************************)
(* TLC instances of content management: the publishing workflow and the    *)
(* versions of an entry.  Neither reads what the other writes, so a        *)
(* behaviour runs one of them while the other keeps its initial state.     *)
(***************************************************************************)
EXTENDS ContentPublishing, ContentVersions

VARIABLE part   \* the part this behaviour runs

parts == <<vars, versionVars, part>>

PartInit ==
  /\ part \in {"publishing", "versions"}
  /\ Init
  /\ VersionInit

PartNext ==
  \/ part = "publishing" /\ Next /\ UNCHANGED <<versionVars, part>>
  \/ part = "versions" /\ VersionNext /\ UNCHANGED <<vars, part>>

\* The fairness of ContentPublishing!FairSpec, for the behaviours that run it.
PartSpec ==
  /\ PartInit /\ [][PartNext]_parts
  /\ WF_vars(part = "publishing" /\ Tick)
  /\ \A p \in Schedulers :
       /\ WF_vars(part = "publishing" /\ Check(p))
       /\ SF_vars(part = "publishing" /\ StartCheck(p, TRUE))
       /\ SF_vars(part = "publishing" /\ NextQuery(p, TRUE))
       /\ \A e \in Entries : SF_vars(part = "publishing" /\ CheckSaves(p, e))

\* The variables of both parts keep their types.
ContentTypesOK == TypeOK /\ VersionTypeOK

=============================================================================
