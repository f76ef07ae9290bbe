------------------------------ MODULE Migrations ------------------------------
(***************************************************************************)
(* MigrationRunner (src/database/migrations/migration.runner.ts): several  *)
(* runners over one database and its _migrations collection, failing,      *)
(* dying and losing commands half-way.                                     *)
(*                                                                         *)
(* up() and down() are the application's (external): each takes effect or  *)
(* fails without one.  The collection has no unique index, so a version    *)
(* may be recorded twice.  status() only reads.                            *)
(***************************************************************************)
EXTENDS Naturals, FiniteSets, FiniteSetsExt

CONSTANTS
  Runners,
  Versions,        \* of the registered migrations, in their order
  Reversible       \* those that implement down()

ASSUME MigrationsAssumption ==
  /\ IsFiniteSet(Runners) /\ IsFiniteSet(Versions)
  /\ Versions \subseteq Nat /\ Reversible \subseteq Versions

VARIABLES
  records,      \* how many records of each version there are
  inEffect,     \* versions whose up() has had effect, and no down() since
  job,          \* what each runner does, to which versions, and how far it is
  overlap,      \* whether runners may run at the same time
  reversed,     \* whether a rollback has been started
  cut           \* versions whose rollback ended between down() and deleteOne()

migrationVars == <<records, inEffect, job, overlap, reversed, cut>>

NoJob == [at |-> "idle", todo |-> {}]

Jobs == [at : {"up", "insert", "down", "delete"}, todo : (SUBSET Versions) \ {{}}]

MigrationTypeOK ==
  /\ records \in [Versions -> 0..Cardinality(Runners)]
  /\ inEffect \subseteq Versions
  /\ job \in [Runners -> Jobs \cup {NoJob}]
  /\ overlap \in BOOLEAN /\ reversed \in BOOLEAN
  /\ cut \subseteq Versions

MigrationInit ==
  /\ records = [v \in Versions |-> 0]
  /\ inEffect = {}
  /\ job = [r \in Runners |-> NoJob]
  /\ overlap \in BOOLEAN
  /\ reversed = FALSE
  /\ cut = {}

Applied == {v \in Versions : records[v] > 0}

\* The loop goes on with the versions left, or is over.
Continue(r, at, todo) ==
  job' = [job EXCEPT ![r] = IF todo = {} THEN NoJob ELSE [at |-> at, todo |-> todo]]

MayStart(r) ==
  /\ job[r] = NoJob
  /\ overlap \/ \A q \in Runners : job[q] = NoJob

-----------------------------------------------------------------------------
\* migrate()

StartMigrate(r) ==
  /\ MayStart(r)
  /\ Continue(r, "up", Versions \ Applied)
  /\ UNCHANGED <<records, inEffect, overlap, reversed, cut>>

Oldest(r) == Min(job[r].todo)

\* migration.up()
Up(r) ==
  /\ job[r].at = "up"
  /\ inEffect' = inEffect \cup {Oldest(r)}
  /\ cut' = cut \ {Oldest(r)}
  /\ job' = [job EXCEPT ![r].at = "insert"]
  /\ UNCHANGED <<records, overlap, reversed>>

\* Mutant: the loop goes on after a failure.
UpSkipped(r) ==
  /\ job[r].at = "up"
  /\ Continue(r, "up", job[r].todo \ {Oldest(r)})
  /\ UNCHANGED <<records, inEffect, overlap, reversed, cut>>

\* It throws: later migrations are not run.
UpFails(r) ==
  /\ job[r].at = "up"
  /\ job' = [job EXCEPT ![r] = NoJob]
  /\ UNCHANGED <<records, inEffect, overlap, reversed, cut>>

Recorded(v) == [records EXCEPT ![v] = @ + 1]

Insert(r) ==
  /\ job[r].at = "insert"
  /\ records' = Recorded(Oldest(r))
  /\ Continue(r, "up", job[r].todo \ {Oldest(r)})
  /\ UNCHANGED <<inEffect, overlap, reversed, cut>>

\* insertOne() throws, or the process dies, before or after the insertion.
InsertFails(r) ==
  /\ job[r].at = "insert"
  /\ records' \in {records, Recorded(Oldest(r))}
  /\ job' = [job EXCEPT ![r] = NoJob]
  /\ UNCHANGED <<inEffect, overlap, reversed, cut>>

-----------------------------------------------------------------------------
\* rollback(count)

StartRollback(r) ==
  /\ MayStart(r)
  /\ \E newest \in SUBSET Applied :
       /\ newest # {}
       /\ \A v \in newest, u \in Applied \ newest : u < v
       /\ Continue(r, "down", newest)
  /\ reversed' = TRUE
  /\ UNCHANGED <<records, inEffect, overlap, cut>>

Newest(r) == Max(job[r].todo)

\* A migration without down() is passed over.
PassOver(r) ==
  /\ job[r].at = "down" /\ Newest(r) \notin Reversible
  /\ Continue(r, "down", job[r].todo \ {Newest(r)})
  /\ UNCHANGED <<records, inEffect, overlap, reversed, cut>>

\* migration.down()
Down(r) ==
  /\ job[r].at = "down" /\ Newest(r) \in Reversible
  /\ inEffect' = inEffect \ {Newest(r)}
  /\ job' = [job EXCEPT ![r].at = "delete"]
  /\ UNCHANGED <<records, overlap, reversed, cut>>

\* It throws: older migrations are not rolled back.
DownFails(r) ==
  /\ job[r].at = "down" /\ Newest(r) \in Reversible
  /\ job' = [job EXCEPT ![r] = NoJob]
  /\ UNCHANGED <<records, inEffect, overlap, reversed, cut>>

Unrecorded(v) == [records EXCEPT ![v] = IF @ > 0 THEN @ - 1 ELSE 0]

\* deleteOne() removes one record of the version.
Delete(r) ==
  /\ job[r].at = "delete"
  /\ records' = Unrecorded(Newest(r))
  /\ cut' = cut \ {Newest(r)}
  /\ Continue(r, "down", job[r].todo \ {Newest(r)})
  /\ UNCHANGED <<inEffect, overlap, reversed>>

\* deleteOne() throws, or the process dies, before or after the deletion.
DeleteFails(r) ==
  /\ job[r].at = "delete"
  /\ \/ records' = Unrecorded(Newest(r)) /\ cut' = cut \ {Newest(r)}
     \/ records' = records /\ cut' = cut \cup {Newest(r)}
  /\ job' = [job EXCEPT ![r] = NoJob]
  /\ UNCHANGED <<inEffect, overlap, reversed>>

-----------------------------------------------------------------------------

Migrate(r) == StartMigrate(r) \/ Up(r) \/ UpFails(r) \/ Insert(r) \/ InsertFails(r)

Rollback(r) ==
  \/ StartRollback(r) \/ PassOver(r) \/ Down(r) \/ DownFails(r)
  \/ Delete(r) \/ DeleteFails(r)

MigrationNext == \E r \in Runners : Migrate(r) \/ Rollback(r)

MigrationSpec == MigrationInit /\ [][MigrationNext]_migrationVars

-----------------------------------------------------------------------------

\* Whatever fails, dies or is passed over, an up() runs only when every earlier
\* migration is in effect, while runners take turns, or overlap and only
\* migrate.  The exception is a version whose rollback was cut off between
\* down() and deleteOne(): it is down and still recorded, so migrate() passes
\* it over and runs the later ones.
EarlierInEffect ==
  (overlap => ~reversed) =>
    \A r \in Runners : job[r].at = "up" =>
      \A v \in Versions : v < Oldest(r) => v \in inEffect \cup cut

=============================================================================
