------------------------- MODULE ContentPublishing -------------------------
(***************************************************************************)
(* The publishing workflow of content entries: ContentPublishingService    *)
(* with its periodic check, the status changes of ContentEntryService, and *)
(* the ContentEntryRepository.update() below them (src/content).           *)
(*                                                                         *)
(* A request reads the entry, checks, and updates it in a second database  *)
(* command; the periodic check of every instance reads a list and updates  *)
(* its entries one by one.  Nothing ties an update to what was read.       *)
(***************************************************************************)
EXTENDS Integers, FiniteSets

CONSTANTS
  Entries,
  Clients,      \* requests in progress at a time
  Schedulers,   \* periodic checks in progress at a time: one for each instance
                \* of the service, more if a check outlives its interval
  MaxTime,      \* bound on the clock
  Overrides     \* whether entries are also archived by DELETE and restored

ASSUME PublishingAssumption ==
  /\ MaxTime \in Nat
  /\ Overrides \in BOOLEAN

None == -1

Status == {"DRAFT", "APPROVED", "SCHEDULED", "PUBLISHED", "REJECTED",
           "UNPUBLISHED", "ARCHIVED"}

\* ENTRY_STATUS_TRANSITIONS
Transitions ==
  [DRAFT       |-> {"APPROVED", "ARCHIVED"},
   APPROVED    |-> {"PUBLISHED", "SCHEDULED", "REJECTED"},
   SCHEDULED   |-> {"PUBLISHED", "APPROVED", "REJECTED"},
   PUBLISHED   |-> {"UNPUBLISHED", "ARCHIVED"},
   REJECTED    |-> {"DRAFT"},
   UNPUBLISHED |-> {"DRAFT", "ARCHIVED"},
   ARCHIVED    |-> {"DRAFT"}]

Time == 0..MaxTime
Date == Time \cup {None}

VARIABLES
  clock,
  status,
  publishedAt,
  scheduledAt,
  scheduledUnpublishAt,
  request,      \* the update each client is about to make, if any
  stage,        \* where each periodic check stands
  now,          \* the time it began at
  list,         \* entries its query returned and it has not updated yet
  approved,     \* entries that have been APPROVED since they were created
  dates,        \* publication dates accepted for each entry
  asked         \* entries whose scheduleUnpublish() has succeeded, until they
                \* leave PUBLISHED

vars == <<clock, status, publishedAt, scheduledAt, scheduledUnpublishAt,
          request, stage, now, list, approved, dates, asked>>

\* The fields an update() call names; None, and "same" for the status,
\* is undefined.
Change == [status : Status \cup {"same"}, publishedAt : Date, scheduledAt : Date,
           scheduledUnpublishAt : Date]

NoRequest == [entry |-> None]

TypeOK ==
  /\ clock \in Time
  /\ status \in [Entries -> Status]
  /\ publishedAt \in [Entries -> Date]
  /\ scheduledAt \in [Entries -> Date]
  /\ scheduledUnpublishAt \in [Entries -> Date]
  /\ \A c \in Clients :
       \/ request[c] = NoRequest
       \/ /\ request[c].entry \in Entries
          /\ request[c].change \in Change
  /\ stage \in [Schedulers -> {"idle", "publish", "unpublish"}]
  /\ now \in [Schedulers -> Time]
  /\ list \in [Schedulers -> SUBSET Entries]
  /\ \A p \in Schedulers : stage[p] = "idle" => list[p] = {}
  /\ \A e \in Entries :
       /\ publishedAt[e] <= clock
       /\ status[e] = "SCHEDULED" => scheduledAt[e] \in dates[e]

Init ==
  /\ clock = 0
  /\ status = [e \in Entries |-> "DRAFT"]
  /\ publishedAt = [e \in Entries |-> None]
  /\ scheduledAt = [e \in Entries |-> None]
  /\ scheduledUnpublishAt = [e \in Entries |-> None]
  /\ request = [c \in Clients |-> NoRequest]
  /\ stage = [p \in Schedulers |-> "idle"]
  /\ now = [p \in Schedulers |-> 0]
  /\ list = [p \in Schedulers |-> {}]
  /\ approved = {}
  /\ dates = [e \in Entries |-> {}]
  /\ asked = {}

Tick ==
  /\ clock < MaxTime
  /\ clock' = clock + 1
  /\ UNCHANGED <<status, publishedAt, scheduledAt, scheduledUnpublishAt,
                 request, stage, now, list, approved, dates, asked>>

-----------------------------------------------------------------------------
\* ContentEntryRepository.

Nothing == [status |-> "same", publishedAt |-> None, scheduledAt |-> None,
            scheduledUnpublishAt |-> None]


\* A date of entry e after an update: an undefined one is left alone.
Field(f, e, v) == [f EXCEPT ![e] = IF v = None THEN @ ELSE v]

\* update(): status, publishedAt and scheduledAt are copied when they are
\* defined; scheduledUnpublishAt is not among the fields it knows.
Update(e, change) ==
  /\ status' = [status EXCEPT ![e] = IF change.status = "same" THEN @ ELSE change.status]
  /\ publishedAt' = Field(publishedAt, e, change.publishedAt)
  /\ scheduledAt' = Field(scheduledAt, e, change.scheduledAt)
  /\ UNCHANGED scheduledUnpublishAt
  /\ approved' = IF change.status = "APPROVED" THEN approved \cup {e} ELSE approved
  /\ dates' = [dates EXCEPT ![e] = @ \cup ({change.scheduledAt} \ {None})]
  /\ asked' = {a \in IF change.scheduledUnpublishAt = None THEN asked
                     ELSE asked \cup {e} : status'[a] = "PUBLISHED"}

\* Mutant: entries that are due at this very moment.
DueNow(before) == {e \in Entries : status[e] = "SCHEDULED" /\ scheduledAt[e] = before}

\* Mutant: the date is not part of the query.
AllScheduled(before) == {e \in Entries : status[e] = "SCHEDULED"}

\* findScheduledEntries()
FindScheduled(before) ==
  {e \in Entries : status[e] = "SCHEDULED" /\ scheduledAt[e] <= before}

\* findScheduledUnpublishEntries()
FindScheduledUnpublish(before) ==
  {e \in Entries : /\ status[e] = "PUBLISHED"
                   /\ scheduledUnpublishAt[e] # None
                   /\ scheduledUnpublishAt[e] <= before}

-----------------------------------------------------------------------------
\* Requests.

\* Mutant: the table of transitions is not consulted.
AnyTransition(current, target, at) == target = "SCHEDULED" => at > clock

\* What transition() accepts.
Accepted(current, target, at) ==
  /\ target \in Transitions[current]
  /\ target = "SCHEDULED" => at > clock

\* Mutant: the date is not passed on.
DatelessChange(target, at) ==
  [Nothing EXCEPT !.status = target,
                  !.publishedAt = IF target = "PUBLISHED" THEN clock ELSE None]

\* The update transition() prepares.
ChangeTo(target, at) ==
  [Nothing EXCEPT
     !.status = target,
     !.publishedAt = IF target = "PUBLISHED" THEN clock ELSE None,
     !.scheduledAt = IF target = "SCHEDULED" THEN at ELSE None]

Prepare(c, e, change) == request' = [request EXCEPT ![c] = [entry |-> e, change |-> change]]

\* transition(): the entry is read and the update prepared.
Transition(c, e, target, at) ==
  /\ request[c] = NoRequest
  /\ Accepted(status[e], target, at)
  /\ Prepare(c, e, ChangeTo(target, at))
  /\ UNCHANGED <<clock, status, publishedAt, scheduledAt, scheduledUnpublishAt,
                 stage, now, list, approved, dates, asked>>

\* scheduleUnpublish(): the same, for a published entry and a later date.
ScheduleUnpublish(c, e, at) ==
  /\ request[c] = NoRequest
  /\ status[e] = "PUBLISHED"
  /\ at > clock
  /\ Prepare(c, e, [Nothing EXCEPT !.scheduledUnpublishAt = at])
  /\ UNCHANGED <<clock, status, publishedAt, scheduledAt, scheduledUnpublishAt,
                 stage, now, list, approved, dates, asked>>

\* ContentEntryService.delete() archives and the restore request drafts an
\* entry of any status.
Override(c, e, target) ==
  /\ Overrides
  /\ request[c] = NoRequest
  /\ Prepare(c, e, [Nothing EXCEPT !.status = target])
  /\ UNCHANGED <<clock, status, publishedAt, scheduledAt, scheduledUnpublishAt,
                 stage, now, list, approved, dates, asked>>

\* The prepared update is made.
Save(c) ==
  /\ request[c] # NoRequest
  /\ Update(request[c].entry, request[c].change)
  /\ request' = [request EXCEPT ![c] = NoRequest]
  /\ UNCHANGED <<clock, stage, now, list>>

-----------------------------------------------------------------------------
\* processScheduledEntries().

Rows == <<status, publishedAt, scheduledAt, scheduledUnpublishAt, approved,
          dates, asked>>

\* A query that fails is logged and leaves nothing to do.
Query(p, next, found, ok) ==
  /\ stage' = [stage EXCEPT ![p] = next]
  /\ list' = [list EXCEPT ![p] = IF ok THEN found ELSE {}]
  /\ UNCHANGED <<clock, request, Rows>>

\* The timer fires and the entries to publish are read.
StartCheck(p, ok) ==
  /\ stage[p] = "idle"
  /\ now' = [now EXCEPT ![p] = clock]
  /\ Query(p, "publish", FindScheduled(clock), ok)

\* Once those are updated, the entries to unpublish are read.
NextQuery(p, ok) ==
  /\ stage[p] = "publish" /\ list[p] = {}
  /\ UNCHANGED now
  /\ Query(p, "unpublish", FindScheduledUnpublish(now[p]), ok)

PublishChange == [Nothing EXCEPT !.status = "PUBLISHED", !.publishedAt = clock]

\* The update of one entry of the list.
CheckChange(p) ==
  IF stage[p] = "publish" THEN PublishChange
  ELSE [Nothing EXCEPT !.status = "UNPUBLISHED"]

Done(p, e) == list' = [list EXCEPT ![p] = @ \ {e}]

CheckSaves(p, e) ==
  /\ e \in list[p]
  /\ Update(e, CheckChange(p))
  /\ Done(p, e)
  /\ UNCHANGED <<clock, request, stage, now>>

\* The update fails and is logged; the loop goes on with the next entry.
CheckFails(p, e) ==
  /\ e \in list[p]
  /\ Done(p, e)
  /\ UNCHANGED <<clock, request, stage, now, Rows>>

EndCheck(p) ==
  /\ stage[p] = "unpublish" /\ list[p] = {}
  /\ stage' = [stage EXCEPT ![p] = "idle"]
  /\ UNCHANGED <<clock, request, now, list, Rows>>

-----------------------------------------------------------------------------

Check(p) ==
  \/ \E ok \in BOOLEAN : StartCheck(p, ok) \/ NextQuery(p, ok)
  \/ EndCheck(p)
  \/ \E e \in Entries : CheckSaves(p, e) \/ CheckFails(p, e)

Request(c) ==
  \E e \in Entries :
    \/ \E target \in Status, at \in Time : Transition(c, e, target, at)
    \/ \E at \in Time : ScheduleUnpublish(c, e, at)
    \/ \E target \in {"ARCHIVED", "DRAFT"} : Override(c, e, target)

Next ==
  \/ Tick
  \/ \E c \in Clients : Request(c) \/ Save(c)
  \/ \E p \in Schedulers : Check(p)

Spec == Init /\ [][Next]_vars

\* The clock runs, the periodic check goes on, and a query or an update that is
\* tried again and again succeeds at last.
FairSpec ==
  /\ Spec
  /\ WF_vars(Tick)
  /\ \A p \in Schedulers :
       /\ WF_vars(Check(p)) /\ SF_vars(StartCheck(p, TRUE)) /\ SF_vars(NextQuery(p, TRUE))
       /\ \A e \in Entries : SF_vars(CheckSaves(p, e))

-----------------------------------------------------------------------------

\* Whatever requests and periodic checks of several instances interleave, only
\* an entry that has been approved is scheduled or published.
PublishedWasApproved ==
  \A e \in Entries : status[e] \in {"SCHEDULED", "PUBLISHED"} => e \in approved

\* The periodic check publishes an entry only when a date accepted for it has
\* passed.
PublishedWhenDue ==
  \A p \in Schedulers : stage[p] = "publish" =>
    \A e \in list[p] : \E d \in dates[e] : d <= clock

\* Nothing appears on the site that nobody approved or before its time.
PublishedRightly == PublishedWasApproved /\ PublishedWhenDue

\* An entry does not stay scheduled after its date, even if the check missed
\* the moment or failed to update it.
DueIsPublished ==
  \A e \in Entries :
    status[e] = "SCHEDULED" /\ scheduledAt[e] <= clock ~> status[e] # "SCHEDULED"

-----------------------------------------------------------------------------
\* Statements of the documentation, comments or tests that the code does not
\* keep: TLC refutes each of them.

\* entry-status.enum.ts:12: the allowed state transitions of an entry, here as
\* what its row may go through.
AllowedTransitions ==
  [][\A e \in Entries :
       status'[e] # status[e] => status'[e] \in Transitions[status[e]]]_vars

\* content-publishing.service.ts:114: at the scheduled time a published entry
\* transitions to UNPUBLISHED.
UnpublishHappens == \A e \in Entries : e \in asked ~> status[e] # "PUBLISHED"

\* content-publishing.service.spec.ts:91: PUBLISHED to UNPUBLISHED clears
\* publishedAt.
UnpublishedIsUndated ==
  \A e \in Entries : status[e] = "UNPUBLISHED" => publishedAt[e] = None

=============================================================================
