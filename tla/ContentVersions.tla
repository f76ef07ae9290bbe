--------------------------- MODULE ContentVersions ---------------------------
(***************************************************************************)
(* The versions of one content entry: create(), update() and hardDelete()  *)
(* of ContentEntryService with ContentVersionService.createVersion()       *)
(* (src/content/services).                                                 *)
(*                                                                         *)
(* An update reads the entry, writes it with the next version number in a  *)
(* second database command and inserts the version's record in a third.    *)
(* No transaction joins them, and (entryId, version) is not unique.        *)
(* Restoring a version is an update with the data of its record.           *)
(***************************************************************************)
EXTENDS Integers, FiniteSets

CONSTANTS
  Editors,      \* calls in progress at a time
  Contents,     \* what the data of the entry may be
  MaxEdits    \* bound on the version number

ASSUME VersionsAssumption == Contents # {} /\ MaxEdits \in Nat \ {0}

VARIABLES
  item,       \* the row of the entry
  history,    \* its version records
  edit,       \* each call: its stage, what it changes, what it has read
  held,       \* the versions and data the row has had
  cut         \* some call ended between its row and its record

versionVars == <<item, history, edit, held, cut>>

Row == [version : 1..MaxEdits, data : Contents]

Absent == [version |-> 0]    \* not created yet
Gone == [version |-> -1]     \* hard-deleted

\* What an update names: new data, a new slug only, or a status only.
Named == Contents \cup {"slug", "status"}

Resting == [at |-> "idle"]

Edit == [at : {"write", "record"}, named : Named, read : Row]

VersionTypeOK ==
  /\ item \in Row \cup {Absent, Gone}
  /\ history \subseteq Row
  /\ edit \in [Editors -> Edit \cup {Resting}]
  /\ held \subseteq Row
  /\ cut \in BOOLEAN
  /\ item = Gone => history = {}

VersionInit ==
  /\ item = Absent
  /\ history = {}
  /\ edit = [e \in Editors |-> Resting]
  /\ held = {}
  /\ cut = FALSE

\* The row is written.
Write(row) ==
  /\ item' = row
  /\ held' = held \cup {row}

Await(e, stage, named, row) ==
  edit' = [edit EXCEPT ![e] = [at |-> stage, named |-> named, read |-> row]]

Rest(e) == edit' = [edit EXCEPT ![e] = Resting]

\* create(): the row begins at version 1; its record comes next.
Create(e, data) ==
  /\ item = Absent
  /\ edit[e] = Resting
  /\ Write([version |-> 1, data |-> data])
  /\ Await(e, "record", data, item')
  /\ UNCHANGED <<history, cut>>

\* update(): the entry is read and validated.
StartUpdate(e, named) ==
  /\ item \in Row
  /\ edit[e] = Resting
  /\ Await(e, "write", named, item)
  /\ UNCHANGED <<item, history, held, cut>>

\* A status alone is written without a version.
WriteStatus(e) ==
  /\ edit[e] # Resting /\ edit[e].at = "write" /\ edit[e].named = "status"
  /\ Rest(e)
  /\ UNCHANGED <<item, history, held, cut>>

\* The row after an update: data that is not named stays as it is now.
Updated(e) ==
  [version |-> edit[e].read.version + 1,
   data |-> IF edit[e].named = "slug" THEN item.data ELSE edit[e].named]

\* Mutant: the record takes the data the update has read.
ReturnedAsRead(e) ==
  IF edit[e].named = "slug"
  THEN [version |-> edit[e].read.version + 1, data |-> edit[e].read.data]
  ELSE Updated(e)

\* What the call goes on to record: the updated row, as the database returns it.
Recorded(e) == Updated(e)

\* Data or slug are written with the version after the one that was read.
WriteEntry(e) ==
  /\ edit[e] # Resting /\ edit[e].at = "write" /\ edit[e].named # "status"
  /\ item \in Row
  /\ edit[e].read.version < MaxEdits
  /\ Write(Updated(e))
  /\ Await(e, "record", edit[e].named, Recorded(e))
  /\ UNCHANGED <<history, cut>>

\* createVersion(); a record of an entry that is gone is refused.
CreateVersion(e) ==
  /\ edit[e] # Resting /\ edit[e].at = "record"
  /\ history' = IF item = Gone THEN history ELSE history \cup {edit[e].read}
  /\ Rest(e)
  /\ UNCHANGED <<item, held, cut>>

\* The next command fails, or the process dies before it.
EditFails(e) ==
  /\ edit[e] # Resting
  /\ cut' = (cut \/ edit[e].at = "record")
  /\ Rest(e)
  /\ UNCHANGED <<item, history, held>>

\* hardDelete(): the records go with the row.
HardDelete ==
  /\ item \in Row
  /\ item' = Gone
  /\ history' = {}
  /\ UNCHANGED <<edit, held, cut>>

VersionNext ==
  \/ \E e \in Editors :
       \/ \E data \in Contents : Create(e, data)
       \/ \E named \in Named : StartUpdate(e, named)
       \/ WriteStatus(e) \/ WriteEntry(e) \/ CreateVersion(e) \/ EditFails(e)
  \/ HardDelete

VersionSpec == VersionInit /\ [][VersionNext]_versionVars

-----------------------------------------------------------------------------

\* However updates of one entry interleave, every record is what the entry was
\* at some moment, and when no update is on its way and none was cut short
\* before its record, the entry as it stands can be restored.
HistoryMatches ==
  /\ history \subseteq held
  /\ item \in Row /\ ~cut /\ (\A e \in Editors : edit[e] = Resting \/ edit[e].at = "write")
       => item \in history

-----------------------------------------------------------------------------
\* Statements of the documentation, comments or tests that the code does not
\* keep: TLC refutes each of them.

\* docs/content-service-spec.md:123: rollback restores to any previous version,
\* so a version number names one record.
OneRecordPerVersion ==
  \A a, b \in history : a.version = b.version => a = b

\* content/README.md:269: an update creates a new version, so the entry's
\* version never falls.
VersionsRise ==
  [][(item \in Row /\ (item' \in Row)) => (item'.version >= (item.version))]_versionVars

=============================================================================
