-------------------------------- MODULE Saga --------------------------------
(***************************************************************************)
(* One run of SagaRunner.execute() (src/cqrs/saga.ts) over a definition    *)
(* made with SagaBuilder.                                                  *)
(*                                                                         *)
(* A step is known by its position in the definition; its name is what the *)
(* runner records and looks up again to compensate, and step() does not    *)
(* ask that names differ.  Each execute() and each compensate() resolves   *)
(* or rejects.                                                             *)
(***************************************************************************)
EXTENDS Naturals, Sequences, FiniteSets, SequencesExt

CONSTANTS
  Names,        \* names a step can be given
  MaxSteps      \* bound: the longest definition

ASSUME SagaAssumption == MaxSteps \in Nat \ {0}

VARIABLES
  steps,            \* saga.steps: the name of each step
  progress,         \* execute, compensate, or the outcome
  next,             \* position of the step to execute, or to fail
  completedSteps,   \* names
  compensatedSteps, \* names
  back,             \* i: what of completedSteps is left to compensate
  effects,          \* positions whose execute() took effect and stands
  undone            \* positions of the compensate() calls made, in order

sagaVars == <<steps, progress, next, completedSteps, compensatedSteps, back, effects,
          undone>>

\* What SagaBuilder.build() returns: at least one step, in the order added.
Definitions == {d \in SeqOf(Names, MaxSteps) : d # << >>}

SagaTypeOK ==
  /\ steps \in Definitions
  /\ progress \in {"execute", "compensate", "success", "failure"}
  /\ next \in 1..(Len(steps) + 1)
  /\ completedSteps = SubSeq(steps, 1, next - 1)
  /\ compensatedSteps \in SeqOf(Names, Len(steps))
  /\ back \in 0..Len(completedSteps)
  /\ progress = "success" <=> next = Len(steps) + 1
  /\ effects \subseteq 1..Len(steps)
  /\ undone \in SeqOf(1..Len(steps), Len(steps))

SagaInit ==
  /\ steps \in Definitions
  /\ progress = "execute"
  /\ next = 1
  /\ completedSteps = << >>
  /\ compensatedSteps = << >>
  /\ back = 0
  /\ effects = {}
  /\ undone = << >>

-----------------------------------------------------------------------------

\* await step.execute(context) resolves.
StepSucceeds ==
  /\ progress = "execute"
  /\ completedSteps' = Append(completedSteps, steps[next])
  /\ effects' = effects \cup {next}
  /\ next' = next + 1
  /\ progress' = IF next = Len(steps) THEN "success" ELSE "execute"
  /\ UNCHANGED <<steps, compensatedSteps, back, undone>>

\* Mutant: the failing step is compensated like those before it.
StepFailsAndIsRecorded ==
  /\ progress = "execute"
  /\ completedSteps' = Append(completedSteps, steps[next])
  /\ back' = next
  /\ next' = next + 1
  /\ progress' = "compensate"
  /\ UNCHANGED <<steps, compensatedSteps, effects, undone>>

\* It rejects: compensate() starts from the last completed step.
StepFails ==
  /\ progress = "execute"
  /\ back' = Len(completedSteps)
  /\ progress' = IF completedSteps = << >> THEN "failure" ELSE "compensate"
  /\ UNCHANGED <<steps, next, completedSteps, compensatedSteps, effects, undone>>

\* Mutant: the last step of the name is taken.
FindLast == SelectLastInSeq(steps, LAMBDA n : n = completedSteps[back])

\* allSteps.find((s) => s.name === stepName)
Found == SelectInSeq(steps, LAMBDA n : n = completedSteps[back])

\* Mutant: a failing compensation ends the loop.
CompensateUntilFailure(ok) ==
  /\ progress = "compensate"
  /\ undone' = Append(undone, Found)
  /\ effects' = IF ok THEN effects \ {Found} ELSE effects
  /\ compensatedSteps' = Append(compensatedSteps, completedSteps[back])
  /\ back' = back - 1
  /\ progress' = IF back = 1 \/ ~ok THEN "failure" ELSE "compensate"
  /\ UNCHANGED <<steps, next, completedSteps>>

\* One round of compensate(): the step found by name is compensated, and
\* listed as compensated whether its compensation resolves or rejects.
Compensate(ok) ==
  /\ progress = "compensate"
  /\ undone' = Append(undone, Found)
  /\ effects' = IF ok THEN effects \ {Found} ELSE effects
  /\ compensatedSteps' = Append(compensatedSteps, completedSteps[back])
  /\ back' = back - 1
  /\ progress' = IF back = 1 THEN "failure" ELSE "compensate"
  /\ UNCHANGED <<steps, next, completedSteps>>

SagaNext ==
  \/ StepSucceeds
  \/ StepFails
  \/ \E ok \in BOOLEAN : Compensate(ok)

SagaSpec == SagaInit /\ [][SagaNext]_sagaVars

\* compensate() has been called for each completed step, last step first.
AllCompensated == undone = [i \in 1..(next - 1) |-> next - i]

-----------------------------------------------------------------------------

\* A saga that reports failure has called the compensation of every completed
\* step exactly once, last step first, however many of the compensations fail,
\* as long as its step names differ; and whatever the names, compensation is
\* called only for steps that completed.
FailureIsCompensated ==
  /\ progress = "failure" /\ IsInjective(steps) => AllCompensated
  /\ ToSet(undone) \subseteq 1..(next - 1)

-----------------------------------------------------------------------------
\* Statements of the documentation, comments or tests that the code does not
\* keep: TLC refutes each of them.

\* saga.ts:78: compensating actions are executed in reverse order for all
\* previously completed steps.
CompletedCompensated == progress = "failure" => AllCompensated

\* docs/api/cqrs.md:250: compensatedSteps are the steps that were compensated.
ReportedWasCompensated ==
  progress = "failure" =>
    \A i \in effects : steps[i] \notin ToSet(compensatedSteps)

=============================================================================
