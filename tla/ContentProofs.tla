---------------------------- MODULE ContentProofs ----------------------------
(***************************************************************************)
(* The history of a content entry matches the entry (ContentVersions), and *)
(* nothing is published that was not approved or before its date           *)
(* (ContentPublishing), for any numbers of entries, editors, requests and  *)
(* periodic checks; and the types of both.                                 *)
(***************************************************************************)
EXTENDS MCContentPublishing, TLAPS

Recording(e) == edit[e].at = "record"

\* Every version still on its way to the history is one the row has had, and
\* the row's own version is in the history or on its way there, unless a call
\* was cut short: this is what HistoryMatches needs of the calls in progress.
VersionInvariant ==
  /\ VersionTypeOK
  /\ history \subseteq held
  /\ item \in Row => item \in held
  /\ \A e \in Editors : Recording(e) => edit[e].read \in held
  /\ item \in Row /\ ~cut =>
       item \in history \/ \E e \in Editors : Recording(e) /\ edit[e].read = item

\* A call that is not resting has its fields, and a resting one no stage.
LEMMA EditFields ==
  ASSUME VersionTypeOK, NEW e \in Editors
  PROVE  /\ edit[e] # Resting => edit[e] \in Edit
         /\ edit[e] = Resting => edit[e].at = "idle"
  BY DEF VersionTypeOK, Edit, Resting

\* An entry that is gone, or not created yet, has no version of its own.
LEMMA NoRow == Gone \notin Row /\ Absent \notin Row
<1>1. ASSUME NEW r \in Row
      PROVE  r.version \in 1..MaxEdits
  BY DEF Row
<1>2. Gone.version = -1 /\ Absent.version = 0
  BY DEF Gone, Absent
<1>3. -1 \notin 1..MaxEdits /\ 0 \notin 1..MaxEdits
  BY VersionsAssumption
<1> QED
  BY <1>1, <1>2, <1>3

\* What an update writes is a row.
LEMMA UpdatedIsRow ==
  ASSUME VersionTypeOK, NEW e \in Editors, edit[e] # Resting,
         edit[e].named # "status", item \in Row, edit[e].read.version < MaxEdits
  PROVE  Updated(e) \in Row
<1>1. edit[e].read \in Row /\ edit[e].named \in Named
  BY EditFields DEF Edit
<1>2. edit[e].read.version + 1 \in 1..MaxEdits
  BY <1>1, VersionsAssumption DEF Row
<1>3. edit[e].named # "slug" => edit[e].named \in Contents
  BY <1>1 DEF Named
<1>4. item.data \in Contents
  BY DEF Row
<1> QED
  BY <1>2, <1>3, <1>4 DEF Updated, Row

LEMMA VersionInitially == VersionInit => VersionInvariant
<1> SUFFICES ASSUME VersionInit
             PROVE  VersionInvariant
  OBVIOUS
<1>1. VersionTypeOK
  BY DEF VersionInit, VersionTypeOK, Absent, Gone
<1>2. \A e \in Editors : ~Recording(e)
  BY DEF VersionInit, Recording, Resting
<1>3. item \notin Row
  BY NoRow DEF VersionInit
<1> QED
  BY <1>1, <1>2, <1>3 DEF VersionInvariant, VersionInit

\* The row is written and its version goes on its way to the history.
LEMMA WritePreserves ==
  ASSUME VersionInvariant, NEW e \in Editors, NEW row \in Row, NEW named \in Named,
         Write(row), Await(e, "record", named, row), UNCHANGED <<history, cut>>
  PROVE  VersionInvariant'
<1> USE DEF VersionInvariant, VersionTypeOK, Write, Await
<1>1. edit' = [edit EXCEPT ![e] = [at |-> "record", named |-> named, read |-> row]]
  OBVIOUS
<1>2. [at |-> "record", named |-> named, read |-> row] \in Edit
  BY DEF Edit
<1>3. VersionTypeOK'
  BY <1>1, <1>2, NoRow
<1>4. /\ edit'[e].at = "record" /\ edit'[e].read = row
      /\ \A f \in Editors \ {e} : edit'[f] = edit[f]
  BY <1>1
<1>5. \A f \in Editors : Recording(f)' => edit'[f].read \in held'
  BY <1>4 DEF Recording
<1>6. Recording(e)' /\ edit'[e].read = item'
  BY <1>4 DEF Recording
<1> QED
  BY <1>3, <1>5, <1>6

\* A call rests, or goes on to write, with the row and the history as they are:
\* the invariant holds unless it was the call recording this row.
LEMMA EditPreserves ==
  ASSUME VersionInvariant, NEW e \in Editors, ~Recording(e),
         NEW to \in Edit \cup {Resting}, to.at # "record",
         edit' = [edit EXCEPT ![e] = to],
         UNCHANGED <<item, history, held, cut>>
  PROVE  VersionInvariant'
<1> USE DEF VersionInvariant
<1>1. VersionTypeOK'
  BY DEF VersionTypeOK
<1>2. \A f \in Editors : Recording(f)' <=> Recording(f)
  BY DEF Recording, VersionTypeOK
<1>3. \A f \in Editors : Recording(f) => edit'[f] = edit[f]
  BY DEF VersionTypeOK
<1> QED
  BY <1>1, <1>2, <1>3

LEMMA VersionStep ==
  ASSUME VersionInvariant, [VersionNext]_versionVars
  PROVE  VersionInvariant'
<1> USE DEF VersionInvariant
<1>1. ASSUME NEW e \in Editors, NEW data \in Contents, Create(e, data)
      PROVE  VersionInvariant'
  <2>1. [version |-> 1, data |-> data] \in Row /\ data \in Named
    BY VersionsAssumption DEF Row, Named
  <2>2. item' = [version |-> 1, data |-> data]
    BY <1>1 DEF Create, Write
  <2> QED
    BY <1>1, <2>1, <2>2, WritePreserves DEF Create
<1>2. ASSUME NEW e \in Editors, NEW named \in Named, StartUpdate(e, named)
      PROVE  VersionInvariant'
  <2>1. [at |-> "write", named |-> named, read |-> item] \in Edit
    BY <1>2 DEF StartUpdate, Edit
  <2>2. ~Recording(e)
    BY <1>2 DEF StartUpdate, Recording, Resting
  <2> QED
    BY <1>2, <2>1, <2>2, EditPreserves DEF StartUpdate, Await
<1>3. ASSUME NEW e \in Editors, WriteStatus(e)
      PROVE  VersionInvariant'
  <2>1. ~Recording(e) /\ Resting.at # "record"
    BY <1>3 DEF WriteStatus, Recording, Resting
  <2> QED
    BY <1>3, <2>1, EditPreserves DEF WriteStatus, Rest
<1>4. ASSUME NEW e \in Editors, WriteEntry(e)
      PROVE  VersionInvariant'
  <2>1. Updated(e) \in Row
    BY <1>4, UpdatedIsRow DEF WriteEntry
  <2>2. edit[e].named \in Named
    BY <1>4, EditFields DEF WriteEntry, Edit
  <2>3. Recorded(e) = Updated(e)
    BY DEF Recorded
  <2> QED
    BY <1>4, <2>1, <2>2, <2>3, WritePreserves DEF WriteEntry
<1>5. ASSUME NEW e \in Editors, CreateVersion(e)
      PROVE  VersionInvariant'
  <2>1. Recording(e) /\ edit[e] \in Edit
    BY <1>5, EditFields DEF CreateVersion, Recording
  <2>2. edit[e].read \in held /\ edit[e].read \in Row
    BY <2>1 DEF Edit
  <2>3. history' \subseteq held' /\ history' \subseteq Row
    BY <1>5, <2>2 DEF CreateVersion, VersionTypeOK
  <2>4. edit' \in [Editors -> Edit \cup {Resting}]
    BY <1>5 DEF CreateVersion, Rest, VersionTypeOK
  <2>5. VersionTypeOK'
    BY <1>5, <2>3, <2>4 DEF CreateVersion, VersionTypeOK
  <2>6. \A f \in Editors : f # e => edit'[f] = edit[f]
    BY <1>5 DEF CreateVersion, Rest, VersionTypeOK
  <2>7. ~Recording(e)'
    BY <1>5 DEF CreateVersion, Rest, Recording, Resting, VersionTypeOK
  <2>8. \A f \in Editors : Recording(f)' => edit'[f].read \in held'
    BY <1>5, <2>6, <2>7 DEF CreateVersion, Recording
  <2>9. ASSUME item' \in Row, ~cut'
        PROVE  \/ item' \in history'
               \/ \E f \in Editors : Recording(f)' /\ edit'[f].read = item'
    <3>1. item \in Row /\ ~cut /\ item # Gone
      BY <1>5, <2>9, NoRow DEF CreateVersion
    <3>2. history' = history \cup {edit[e].read}
      BY <1>5, <3>1 DEF CreateVersion
    <3>3. CASE item \in history
      BY <1>5, <3>2, <3>3 DEF CreateVersion
    <3>4. ASSUME NEW f \in Editors, Recording(f), edit[f].read = item
          PROVE  \/ item' \in history'
                 \/ \E g \in Editors : Recording(g)' /\ edit'[g].read = item'
      <4>1. CASE f = e
        BY <1>5, <3>2, <3>4, <4>1 DEF CreateVersion
      <4>2. CASE f # e
        BY <1>5, <2>6, <3>4, <4>2 DEF CreateVersion, Recording
      <4> QED
        BY <4>1, <4>2
    <3> QED
      BY <3>1, <3>3, <3>4
  <2>10. item' \in Row => item' \in held'
    BY <1>5 DEF CreateVersion
  <2> QED
    BY <2>3, <2>5, <2>8, <2>9, <2>10
<1>6. ASSUME NEW e \in Editors, EditFails(e)
      PROVE  VersionInvariant'
  <2>1. CASE ~Recording(e)
    <3>1. Resting.at # "record" /\ cut' = cut
      BY <1>6, <2>1 DEF EditFails, Recording, Resting, VersionTypeOK
    <3> QED
      BY <1>6, <2>1, <3>1, EditPreserves DEF EditFails, Rest
  <2>2. CASE Recording(e)
    <3>1. cut'
      BY <1>6, <2>2 DEF EditFails, Recording
    <3>2. VersionTypeOK'
      BY <1>6 DEF EditFails, Rest, VersionTypeOK
    <3>3. \A f \in Editors : Recording(f)' => Recording(f) /\ edit'[f] = edit[f]
      BY <1>6 DEF EditFails, Rest, Recording, Resting, VersionTypeOK
    <3> QED
      BY <1>6, <3>1, <3>2, <3>3 DEF EditFails
  <2> QED
    BY <2>1, <2>2
<1>7. CASE HardDelete
  <2>1. item' \notin Row
    BY <1>7, NoRow DEF HardDelete
  <2>2. VersionTypeOK'
    BY <1>7 DEF HardDelete, VersionTypeOK
  <2>3. \A f \in Editors : Recording(f)' <=> Recording(f)
    BY <1>7 DEF HardDelete, Recording
  <2> QED
    BY <1>7, <2>1, <2>2, <2>3 DEF HardDelete
<1>8. CASE UNCHANGED versionVars
  BY <1>8 DEF versionVars, VersionTypeOK, Recording
<1> QED
  BY <1>1, <1>2, <1>3, <1>4, <1>5, <1>6, <1>7, <1>8 DEF VersionNext

\* The invariant of the calls in progress holds in every reachable state.
THEOREM VersionInvariantHolds == VersionSpec => []VersionInvariant
<1> QED
  BY VersionInitially, VersionStep, PTL DEF VersionSpec

\* However the updates of an entry interleave, fail or are cut short, each
\* record of ContentVersionService is what the entry was at some moment, and an
\* entry with no call left to record it, and none cut short, can be restored as
\* it stands.
THEOREM HistoryAlwaysMatches == VersionSpec => []HistoryMatches
<1>1. VersionInvariant => HistoryMatches
  <2> SUFFICES ASSUME VersionInvariant
               PROVE  HistoryMatches
    OBVIOUS
  <2>1. ASSUME \A e \in Editors : edit[e] = Resting \/ edit[e].at = "write"
        PROVE  \A e \in Editors : ~Recording(e)
    BY <2>1 DEF Recording, Resting
  <2> QED
    BY <2>1 DEF VersionInvariant, HistoryMatches
<1> QED
  BY <1>1, VersionInvariantHolds, PTL

-----------------------------------------------------------------------------
\* The publishing workflow.

Requested == [entry : Entries, change : Change]

\* What a change may do to an entry: nobody schedules or publishes what was not
\* approved, and a schedule comes with its date.
Rightful(e, change) ==
  /\ change \in Change
  /\ change.status \in {"SCHEDULED", "PUBLISHED"} => e \in approved
  /\ change.status = "SCHEDULED" => change.scheduledAt # None
  /\ change.publishedAt <= clock

RowsOK ==
  /\ status \in [Entries -> Status]
  /\ publishedAt \in [Entries -> Date]
  /\ scheduledAt \in [Entries -> Date]
  /\ scheduledUnpublishAt \in [Entries -> Date]
  /\ dates \in [Entries -> SUBSET Time]
  /\ \A e \in Entries :
       /\ publishedAt[e] <= clock
       /\ status[e] = "SCHEDULED" => scheduledAt[e] \in dates[e]
       /\ status[e] \in {"APPROVED", "SCHEDULED", "PUBLISHED"} => e \in approved

RequestsOK ==
  /\ request \in [Clients -> {NoRequest} \cup Requested]
  /\ \A c \in Clients : request[c] # NoRequest => Rightful(request[c].entry, request[c].change)

ChecksOK ==
  /\ stage \in [Schedulers -> {"idle", "publish", "unpublish"}]
  /\ now \in [Schedulers -> Time]
  /\ list \in [Schedulers -> SUBSET Entries]
  /\ \A p \in Schedulers : stage[p] = "idle" => list[p] = {}
  /\ \A p \in Schedulers : stage[p] = "publish" =>
       \A e \in list[p] : e \in approved /\ \E d \in dates[e] : d <= clock

\* Whatever is on its way to a row, prepared by a request or listed by a check,
\* was rightly so when it was read and still is: approval and accepted dates
\* are never taken back.
PublishingInv == clock \in Time /\ RowsOK /\ RequestsOK /\ ChecksOK

LEMMA DateFacts ==
  /\ MaxTime \in Nat /\ Time \subseteq Nat /\ None \notin Time
  /\ Date = Time \cup {None} /\ \A d \in Date : d \in Int
BY PublishingAssumption DEF Time, Date, None

LEMMA PublishingInit == Init => PublishingInv
BY DateFacts, PublishingAssumption
   DEF Init, PublishingInv, RowsOK, RequestsOK, ChecksOK, Status, Date, Time, None

\* The update of a rightful change, whoever makes it.
LEMMA UpdateKeeps ==
  ASSUME PublishingInv, NEW e \in Entries, NEW change, Rightful(e, change),
         Update(e, change), clock' = clock
  PROVE  /\ RowsOK'
         /\ approved \subseteq approved'
         /\ \A f \in Entries : dates[f] \subseteq dates'[f]
<1> USE DEF PublishingInv, RowsOK
<1>1. /\ change.status \in Status \cup {"same"} /\ change.publishedAt \in Date
      /\ change.scheduledAt \in Date
  BY DEF Rightful, Change
<1>2. approved \subseteq approved'
  BY DEF Update
<1>3. /\ dates' \in [Entries -> SUBSET Time]
      /\ dates'[e] = dates[e] \cup ({change.scheduledAt} \ {None})
      /\ \A f \in Entries \ {e} : dates'[f] = dates[f]
  BY <1>1, DateFacts DEF Update
<1>4. /\ status' \in [Entries -> Status]
      /\ status'[e] = IF change.status = "same" THEN status[e] ELSE change.status
      /\ \A f \in Entries \ {e} : status'[f] = status[f]
  BY <1>1 DEF Update
<1>5. /\ scheduledAt' \in [Entries -> Date]
      /\ scheduledAt'[e] = IF change.scheduledAt = None THEN scheduledAt[e] ELSE change.scheduledAt
      /\ \A f \in Entries \ {e} : scheduledAt'[f] = scheduledAt[f]
  BY <1>1 DEF Update, Field
<1>6. /\ publishedAt' \in [Entries -> Date]
      /\ publishedAt'[e] = IF change.publishedAt = None THEN publishedAt[e] ELSE change.publishedAt
      /\ \A f \in Entries \ {e} : publishedAt'[f] = publishedAt[f]
  BY <1>1 DEF Update, Field
<1>7. scheduledUnpublishAt' \in [Entries -> Date]
  BY DEF Update
<1>8. /\ publishedAt'[e] <= clock
      /\ status'[e] = "SCHEDULED" => scheduledAt'[e] \in dates'[e]
      /\ status'[e] \in {"APPROVED", "SCHEDULED", "PUBLISHED"} => e \in approved'
  <2>1. publishedAt'[e] <= clock
    BY <1>6 DEF Rightful
  <2>2. ASSUME status'[e] = "SCHEDULED" PROVE scheduledAt'[e] \in dates'[e]
    BY <1>1, <1>3, <1>4, <1>5, <2>2 DEF Rightful
  <2>3. ASSUME status'[e] \in {"APPROVED", "SCHEDULED", "PUBLISHED"} PROVE e \in approved'
    <3>1. change.status = "APPROVED" => e \in approved'
      BY DEF Update
    <3>2. QED
      BY <1>2, <1>4, <2>3, <3>1 DEF Rightful
  <2>4. QED
    BY <2>1, <2>2, <2>3
<1>9. \A f \in Entries \ {e} :
        /\ publishedAt'[f] <= clock
        /\ status'[f] = "SCHEDULED" => scheduledAt'[f] \in dates'[f]
        /\ status'[f] \in {"APPROVED", "SCHEDULED", "PUBLISHED"} => f \in approved'
  BY <1>2, <1>3, <1>4, <1>5, <1>6
<1>10. QED
  BY <1>2, <1>3, <1>4, <1>5, <1>6, <1>7, <1>8, <1>9

\* What was rightful stays so while approvals and dates are added.
LEMMA RightfulStays ==
  ASSUME NEW e, NEW change, Rightful(e, change), approved \subseteq approved', clock' = clock
  PROVE  Rightful(e, change)'
BY DEF Rightful

LEMMA ListsStay ==
  ASSUME PublishingInv, approved \subseteq approved', clock' = clock,
         \A f \in Entries : dates[f] \subseteq dates'[f],
         stage' = stage, now' = now, list' \in [Schedulers -> SUBSET Entries],
         \A p \in Schedulers : list'[p] \subseteq list[p]
  PROVE  ChecksOK'
BY DEF PublishingInv, ChecksOK

LEMMA ChecksStay ==
  ASSUME PublishingInv, approved \subseteq approved', clock' = clock,
         \A f \in Entries : dates[f] \subseteq dates'[f],
         UNCHANGED request
  PROVE  RequestsOK'
BY DEF PublishingInv, RequestsOK, Rightful

-----------------------------------------------------------------------------

\* A request prepares a rightful change.
LEMMA PreparedIsRightful ==
  ASSUME PublishingInv, NEW c \in Clients, NEW e \in Entries, NEW change,
         Rightful(e, change), Prepare(c, e, change),
         UNCHANGED <<clock, status, publishedAt, scheduledAt, scheduledUnpublishAt,
                     stage, now, list, approved, dates, asked>>
  PROVE  PublishingInv'
<1>1. [entry |-> e, change |-> change] \in Requested
  BY DEF Requested, Rightful
<1>2. request' \in [Clients -> {NoRequest} \cup Requested]
  BY <1>1 DEF PublishingInv, RequestsOK, Prepare
<1>3. ASSUME NEW d \in Clients, request'[d] # NoRequest
      PROVE  Rightful(request[d].entry, request[d].change)'
  <2>1. CASE d = c
    BY <2>1 DEF PublishingInv, RequestsOK, Prepare, Rightful
  <2>2. CASE d # c
    BY <1>3, <2>2 DEF PublishingInv, RequestsOK, Prepare, Rightful
  <2>3. QED
    BY <2>1, <2>2
<1>4. RequestsOK'
  BY <1>2, <1>3 DEF RequestsOK
<1>5. QED
  BY <1>4 DEF PublishingInv, RowsOK, ChecksOK

LEMMA TransitionStep ==
  ASSUME PublishingInv, NEW c \in Clients, NEW e \in Entries, NEW target \in Status,
         NEW at \in Time, Transition(c, e, target, at)
  PROVE  PublishingInv'
<1> DEFINE change == ChangeTo(target, at)
<1>1. change \in Change /\ change.status = target
  BY DateFacts DEF ChangeTo, Nothing, Change, PublishingInv, Status
<1>2. change.publishedAt <= clock
  BY DateFacts DEF ChangeTo, Nothing, PublishingInv, None
<1>3. target = "SCHEDULED" => change.scheduledAt # None
  BY DateFacts DEF ChangeTo, Nothing
<1>4. target \in {"SCHEDULED", "PUBLISHED"} => e \in approved
  <2>1. status[e] \in Status /\ target \in Transitions[status[e]]
    BY DEF Transition, Accepted, PublishingInv, RowsOK
  <2>2. target \in {"SCHEDULED", "PUBLISHED"} => status[e] \in {"APPROVED", "SCHEDULED"}
    BY <2>1 DEF Status, Transitions
  <2>3. QED
    BY <2>1, <2>2 DEF PublishingInv, RowsOK
<1>5. QED
  BY <1>1, <1>2, <1>3, <1>4, PreparedIsRightful DEF Transition, Rightful

LEMMA ScheduleUnpublishStep ==
  ASSUME PublishingInv, NEW c \in Clients, NEW e \in Entries, NEW at \in Time,
         ScheduleUnpublish(c, e, at)
  PROVE  PublishingInv'
<1>1. Rightful(e, [Nothing EXCEPT !.scheduledUnpublishAt = at])
  BY DateFacts DEF Rightful, Nothing, Change, Status, None, PublishingInv
<1>2. QED
  BY <1>1, PreparedIsRightful DEF ScheduleUnpublish

LEMMA OverrideStep ==
  ASSUME PublishingInv, NEW c \in Clients, NEW e \in Entries,
         NEW target \in {"ARCHIVED", "DRAFT"}, Override(c, e, target)
  PROVE  PublishingInv'
<1>1. Rightful(e, [Nothing EXCEPT !.status = target])
  BY DateFacts DEF Rightful, Nothing, Change, Status, None, PublishingInv
<1>2. QED
  BY <1>1, PreparedIsRightful DEF Override

LEMMA SaveStep == ASSUME PublishingInv, NEW c \in Clients, Save(c) PROVE PublishingInv'
<1>1. /\ request[c].entry \in Entries /\ Rightful(request[c].entry, request[c].change)
  BY DEF Save, PublishingInv, RequestsOK, Requested
<1>2. /\ RowsOK' /\ approved \subseteq approved'
      /\ \A f \in Entries : dates[f] \subseteq dates'[f]
  BY <1>1, UpdateKeeps DEF Save
<1>3. ChecksOK'
  BY <1>2, ListsStay DEF Save, PublishingInv, ChecksOK
<1>4. RequestsOK'
  BY <1>2 DEF Save, PublishingInv, RequestsOK, Rightful
<1>5. QED
  BY <1>2, <1>3, <1>4 DEF PublishingInv, Save

LEMMA CheckSavesStep ==
  ASSUME PublishingInv, NEW p \in Schedulers, NEW e \in Entries, CheckSaves(p, e)
  PROVE  PublishingInv'
<1>1. stage[p] \in {"publish", "unpublish"}
  BY DEF CheckSaves, PublishingInv, ChecksOK
<1>2. Rightful(e, CheckChange(p))
  <2>1. CASE stage[p] = "publish"
    <3>1. e \in approved
      BY <2>1 DEF CheckSaves, PublishingInv, ChecksOK
    <3>2. clock \in Date /\ clock <= clock
      BY DateFacts DEF PublishingInv
    <3>3. CheckChange(p) = [status |-> "PUBLISHED", publishedAt |-> clock,
                            scheduledAt |-> None, scheduledUnpublishAt |-> None]
      BY <2>1 DEF CheckChange, PublishChange, Nothing
    <3>4. CheckChange(p) \in Change
      BY <3>2, <3>3, DateFacts DEF Change, Status
    <3>5. QED
      BY <3>1, <3>2, <3>3, <3>4 DEF Rightful
  <2>2. CASE stage[p] = "unpublish"
    BY <2>2, DateFacts DEF Rightful, CheckChange, Nothing, Change, Status, PublishingInv, None
  <2>3. QED
    BY <1>1, <2>1, <2>2
<1>3. PICK change : change = CheckChange(p)
  OBVIOUS
<1>4. /\ RowsOK' /\ approved \subseteq approved'
      /\ \A f \in Entries : dates[f] \subseteq dates'[f]
  BY <1>2, <1>3, UpdateKeeps DEF CheckSaves
<1>5. /\ list' \in [Schedulers -> SUBSET Entries]
      /\ \A q \in Schedulers : list'[q] \subseteq list[q]
  BY DEF CheckSaves, Done, PublishingInv, ChecksOK
<1>6. ChecksOK'
  BY <1>4, <1>5, ListsStay DEF CheckSaves
<1>7. RequestsOK'
  BY <1>4, ChecksStay DEF CheckSaves
<1>8. QED
  BY <1>4, <1>6, <1>7 DEF PublishingInv, CheckSaves

LEMMA CheckFailsStep ==
  ASSUME PublishingInv, NEW p \in Schedulers, NEW e \in Entries, CheckFails(p, e)
  PROVE  PublishingInv'
<1>1. /\ list' \in [Schedulers -> SUBSET Entries]
      /\ \A q \in Schedulers : list'[q] \subseteq list[q]
  BY DEF CheckFails, Done, PublishingInv, ChecksOK
<1>2. ChecksOK'
  BY <1>1, ListsStay DEF CheckFails, Rows
<1>3. QED
  BY <1>2 DEF CheckFails, Rows, PublishingInv, RowsOK, RequestsOK, Rightful

\* The entries a check finds scheduled are approved, and their date has come.
LEMMA StartCheckStep ==
  ASSUME PublishingInv, NEW p \in Schedulers, NEW ok \in BOOLEAN, StartCheck(p, ok)
  PROVE  PublishingInv'
<1>1. \A e \in FindScheduled(clock) : e \in approved /\ \E d \in dates[e] : d <= clock
  BY DEF FindScheduled, PublishingInv, RowsOK
<1>2. FindScheduled(clock) \subseteq Entries
  BY DEF FindScheduled
<1>3. /\ list' \in [Schedulers -> SUBSET Entries]
      /\ list'[p] \subseteq FindScheduled(clock)
      /\ \A q \in Schedulers \ {p} : list'[q] = list[q] /\ stage'[q] = stage[q]
      /\ stage' \in [Schedulers -> {"idle", "publish", "unpublish"}] /\ stage'[p] = "publish"
      /\ now' \in [Schedulers -> Time]
  BY <1>2 DEF StartCheck, Query, PublishingInv, ChecksOK
<1>4. clock' = clock /\ approved' = approved /\ dates' = dates
  BY DEF StartCheck, Query, Rows
<1>5. ChecksOK'
  BY <1>1, <1>3, <1>4 DEF PublishingInv, ChecksOK
<1>6. QED
  BY <1>5 DEF StartCheck, Query, Rows, PublishingInv, RowsOK, RequestsOK, Rightful

LEMMA NextQueryStep ==
  ASSUME PublishingInv, NEW p \in Schedulers, NEW ok \in BOOLEAN, NextQuery(p, ok)
  PROVE  PublishingInv'
<1>1. FindScheduledUnpublish(now[p]) \subseteq Entries
  BY DEF FindScheduledUnpublish
<1>2. /\ list' \in [Schedulers -> SUBSET Entries]
      /\ \A q \in Schedulers \ {p} : list'[q] = list[q] /\ stage'[q] = stage[q]
      /\ stage' \in [Schedulers -> {"idle", "publish", "unpublish"}] /\ stage'[p] = "unpublish"
  BY <1>1 DEF NextQuery, Query, PublishingInv, ChecksOK
<1>3. clock' = clock /\ approved' = approved /\ dates' = dates /\ now' = now
  BY DEF NextQuery, Query, Rows
<1>4. ChecksOK'
  BY <1>2, <1>3 DEF PublishingInv, ChecksOK
<1>5. QED
  BY <1>4 DEF NextQuery, Query, Rows, PublishingInv, RowsOK, RequestsOK, Rightful

LEMMA PublishingStep == PublishingInv /\ [Next]_vars => PublishingInv'
<1> SUFFICES ASSUME PublishingInv, [Next]_vars PROVE PublishingInv'
  OBVIOUS
<1>1. CASE Tick
  <2>1. clock' \in Time /\ clock' = clock + 1
    BY <1>1, PublishingAssumption DEF Tick, PublishingInv, Time
  <2>2. clock \in Nat /\ \A e \in Entries : publishedAt[e] \in Int /\ dates[e] \subseteq Nat
    BY DateFacts DEF PublishingInv, RowsOK
  <2>3. RowsOK'
    BY <1>1, <2>1, <2>2 DEF Tick, PublishingInv, RowsOK
  <2>4. ChecksOK'
    BY <1>1, <2>1, <2>2 DEF Tick, PublishingInv, ChecksOK
  <2>5. RequestsOK'
    <3>1. ASSUME NEW c \in Clients, request[c] # NoRequest
          PROVE  Rightful(request[c].entry, request[c].change)'
      <4>1. request[c].change.publishedAt <= clock /\ request[c].change.publishedAt \in Int
        BY <3>1, DateFacts DEF PublishingInv, RequestsOK, Rightful, Change
      <4>2. QED
        BY <1>1, <2>1, <2>2, <3>1, <4>1 DEF Tick, PublishingInv, RequestsOK, Rightful
    <3>2. QED
      BY <1>1, <3>1 DEF Tick, PublishingInv, RequestsOK
  <2>6. QED
    BY <2>1, <2>3, <2>4, <2>5 DEF PublishingInv
<1>2. ASSUME NEW p \in Schedulers, EndCheck(p) PROVE PublishingInv'
  BY <1>2 DEF EndCheck, Rows, PublishingInv, RowsOK, RequestsOK, ChecksOK, Rightful
<1>3. CASE UNCHANGED vars
  BY <1>3 DEF vars, PublishingInv, RowsOK, RequestsOK, ChecksOK, Rightful
<1>4. QED
  BY <1>1, <1>2, <1>3, TransitionStep, ScheduleUnpublishStep, OverrideStep, SaveStep,
     CheckSavesStep, CheckFailsStep, StartCheckStep, NextQueryStep DEF Next, Request, Check

\* However requests and the checks of several instances interleave, what is on
\* its way to an entry's row was approved, and dated, when it was read and is
\* still.
THEOREM PublishingInvariantHolds == Spec => []PublishingInv
<1>1. QED
  BY PublishingInit, PublishingStep, PTL DEF Spec

\* Nobody schedules or publishes what was not approved, and the periodic check
\* publishes nothing before a date accepted for it.
THEOREM PublishesRightly == Spec => []PublishedRightly
<1>1. PublishingInv => PublishedRightly
  BY DEF PublishingInv, RowsOK, ChecksOK, PublishedRightly, PublishedWasApproved, PublishedWhenDue
<1>2. QED
  BY <1>1, PublishingInvariantHolds, PTL

LEMMA PublishingInvTypes == PublishingInv => TypeOK
BY DEF PublishingInv, RowsOK, RequestsOK, ChecksOK, Requested, Rightful, TypeOK

-----------------------------------------------------------------------------
\* Both together.

\* A behaviour of the combined instance is one of each part.
LEMMA PartStep == [PartNext]_parts => [Next]_vars /\ [VersionNext]_versionVars
BY DEF PartNext, parts

\* The variables of both keep their types.
THEOREM ContentTypesHold == PartSpec => []ContentTypesOK
<1>1. PartInit => PublishingInv /\ VersionInvariant
  BY PublishingInit, VersionInitially DEF PartInit
<1>2. PublishingInv /\ VersionInvariant /\ [PartNext]_parts => PublishingInv' /\ VersionInvariant'
  BY PartStep, PublishingStep, VersionStep
<1>3. PublishingInv /\ VersionInvariant => ContentTypesOK
  BY PublishingInvTypes DEF ContentTypesOK, VersionInvariant
<1>4. QED
  BY <1>1, <1>2, <1>3, PTL DEF PartSpec

\* A run that checks the combined instance checks behaviours of each part, so what
\* is proved of a part holds there.
THEOREM PartsAreSpecified == PartSpec => Spec /\ VersionSpec
<1>1. PartInit => Init /\ VersionInit
  BY DEF PartInit
<1>2. QED
  BY <1>1, PartStep, PTL DEF PartSpec, Spec, VersionSpec

=============================================================================
