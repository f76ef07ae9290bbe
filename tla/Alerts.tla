-------------------------------- MODULE Alerts --------------------------------
(***************************************************************************)
(* AlertService (src/alerts/alert.service.ts): periodic checks of rules    *)
(* over metrics, with a debounce per rule and a common cooldown.           *)
(*                                                                         *)
(* A check reads the metrics and the clock once, and awaits the channels   *)
(* after each alert it sends; what it does to the next rules is as old as  *)
(* its start.  The interval starts a check whether or not the last one has *)
(* ended.  Channels may fail, which is logged.  The list of the last 1000  *)
(* alerts is left out.  Instants are kept as ages.                         *)
(***************************************************************************)
EXTENDS Integers, FiniteSets

CONSTANTS
  Rules,
  Debounce,      \* [Rules -> Nat]: rule.for, in ticks; 0 for none
  Cooldown,      \* in ticks
  Checkers,      \* checks that may run at a time
  MaxAge,        \* bound: how long a check may run
  Horizon        \* bound: no age is told from a greater one

\* No check asks for more than a debounce or the cooldown since its start.
ASSUME AlertsAssumption ==
  /\ Debounce \in [Rules -> Nat] /\ Cooldown \in Nat
  /\ MaxAge \in Nat /\ Horizon \in Nat
  /\ \A r \in Rules : Debounce[r] + MaxAge < Horizon
  /\ Cooldown + MaxAge < Horizon

VARIABLES
  rules,         \* those registered
  checker,       \* each running check: its age, what it read, the rules left
  pending,       \* of each rule: none, or since when and whether fired
  sentAge,       \* ticks since cooldowns.get(rule), saturating
  alerted,       \* rules with an alert sent since they were last clear
  slow           \* whether a check may outlast the interval

alertVars ==
  <<rules, checker, pending, sentAge, alerted, slow>>

NoCheck == [at |-> "none", age |-> 0, read |-> {}, left |-> {}, resolved |-> {}]
NotPending == [since |-> 0, fired |-> FALSE, is |-> FALSE]

AlertTypeOK ==
  /\ rules \subseteq Rules /\ alerted \subseteq Rules
  /\ checker \in [Checkers -> [at : {"none", "rule", "send"}, age : 0..MaxAge,
                               read : SUBSET Rules, left : SUBSET Rules,
                               resolved : SUBSET Rules]]
  /\ pending \in [Rules -> [since : 0..Horizon, fired : BOOLEAN, is : BOOLEAN]]
  /\ sentAge \in [Rules -> 0..Horizon]
  /\ slow \in BOOLEAN

AlertInit ==
  /\ rules = Rules
  /\ checker = [c \in Checkers |-> NoCheck]
  /\ pending = [r \in Rules |-> NotPending]
  /\ sentAge = [r \in Rules |-> Horizon]
  /\ alerted = {}
  /\ slow \in BOOLEAN

-----------------------------------------------------------------------------

\* The check goes on with the rules left, or ends.
NextRule(c, left) ==
  checker' = [checker EXCEPT ![c] =
    IF left = {} THEN NoCheck
    ELSE [@ EXCEPT !.at = "rule", !.left = left, !.resolved = {}]]

\* No check is between two awaits.
Quiet == \A c \in Checkers : checker[c].at # "rule"

\* checkRules() has the metrics, which meet any rules' conditions, and the
\* time.  A rule whose metric has no value is passed over.
StartCheckRules(c) ==
  /\ Quiet /\ checker[c] = NoCheck
  /\ slow \/ \A d \in Checkers : checker[d] = NoCheck
  /\ \E read \in SUBSET Rules, left \in (SUBSET rules) \ {{}} :
       checker' = [checker EXCEPT ![c] =
         [at |-> "rule", age |-> 0, read |-> read, left |-> left, resolved |-> {}]]
  /\ UNCHANGED <<rules, pending, sentAge, alerted, slow>>

\* c comes to rule r, and has found it triggered or clear.
Finds(c, r, isTriggered) ==
  /\ checker[c].at = "rule" /\ r \in checker[c].left
  /\ isTriggered = (r \in checker[c].read)

\* What has passed between the instant of an age and the check's start.
Elapsed(c, age) == age - checker[c].age

\* The debounce begins.
Defer(c, r) ==
  /\ Finds(c, r, TRUE)
  /\ Debounce[r] > 0 /\ ~pending[r].is
  /\ pending' = [pending EXCEPT ![r] =
       [since |-> checker[c].age, fired |-> FALSE, is |-> TRUE]]
  /\ NextRule(c, checker[c].left \ {r})
  /\ UNCHANGED <<rules, sentAge, alerted, slow>>

Due(c, r) ==
  \/ Debounce[r] = 0
  \/ /\ pending[r].is /\ ~pending[r].fired
     /\ Elapsed(c, pending[r].since) >= Debounce[r]

\* The debounce still runs, or the rule has fired already.
Wait(c, r) ==
  /\ Finds(c, r, TRUE)
  /\ Debounce[r] > 0 => pending[r].is
  /\ ~Due(c, r)
  /\ NextRule(c, checker[c].left \ {r})
  /\ UNCHANGED <<rules, pending, sentAge, alerted, slow>>

Fired(r) == [pending EXCEPT ![r].fired = Debounce[r] > 0]

\* A rule that is due inside its cooldown is marked fired all the same.
Swallow(c, r) ==
  /\ Finds(c, r, TRUE) /\ Due(c, r)
  /\ Elapsed(c, sentAge[r]) < Cooldown
  /\ pending' = Fired(r)
  /\ NextRule(c, checker[c].left \ {r})
  /\ UNCHANGED <<rules, sentAge, alerted, slow>>

\* The alert is sent, and the channels awaited.
Fire(c, r) ==
  /\ Finds(c, r, TRUE) /\ Due(c, r)
  /\ Elapsed(c, sentAge[r]) >= Cooldown
  /\ pending' = Fired(r)
  /\ sentAge' = [sentAge EXCEPT ![r] = checker[c].age]
  /\ alerted' = alerted \cup {r}
  /\ checker' = [checker EXCEPT ![c].at = "send", ![c].left = @ \ {r}]
  /\ UNCHANGED <<rules, slow>>

\* Mutant: the instant of the first trigger is kept.
KeepSince(clear) ==
  /\ pending' = [r \in Rules |->
       IF r \in clear THEN [pending[r] EXCEPT !.fired = FALSE] ELSE pending[r]]
  /\ alerted' = alerted \ clear

\* Rules that are clear are taken off the pending ones.
Forget(clear) ==
  /\ pending' = [r \in Rules |-> IF r \in clear THEN NotPending ELSE pending[r]]
  /\ alerted' = alerted \ clear

\* The rule is clear and had not fired.
Clear(c, r) ==
  /\ Finds(c, r, FALSE) /\ ~pending[r].fired
  /\ Forget({r})
  /\ NextRule(c, checker[c].left \ {r})
  /\ UNCHANGED <<rules, sentAge, slow>>

\* The rule is clear and had fired: a resolution is sent, and awaited before
\* the rule is taken off the pending ones.
Resolve(c, r) ==
  /\ Finds(c, r, FALSE) /\ pending[r].fired
  /\ checker' = [checker EXCEPT ![c].at = "send", ![c].left = @ \ {r},
                               ![c].resolved = {r}]
  /\ UNCHANGED <<rules, pending, sentAge, alerted, slow>>

\* Every channel has answered or failed.
Sent(c) ==
  /\ Quiet /\ checker[c].at = "send"
  /\ Forget(checker[c].resolved)
  /\ NextRule(c, checker[c].left)
  /\ UNCHANGED <<rules, sentAge, slow>>

-----------------------------------------------------------------------------

\* removeRule() forgets the rule and its debounce, not its cooldown; the loop
\* over the Map passes it over.
RemoveRule(r) ==
  /\ Quiet /\ r \in rules
  /\ rules' = rules \ {r}
  /\ pending' = [pending EXCEPT ![r] = NotPending]
  /\ checker' = [c \in Checkers |-> [checker[c] EXCEPT !.left = @ \ {r}]]
  /\ UNCHANGED <<sentAge, alerted, slow>>

\* addRule(): a running loop still comes to it.
AddRule(r) ==
  /\ Quiet /\ r \notin rules
  /\ rules' = rules \cup {r}
  /\ checker' = [c \in Checkers |->
       IF checker[c] = NoCheck THEN NoCheck ELSE [checker[c] EXCEPT !.left = @ \cup {r}]]
  /\ UNCHANGED <<pending, sentAge, alerted, slow>>

Older(age) == IF age < Horizon THEN age + 1 ELSE Horizon

AlertTick ==
  /\ Quiet /\ \A c \in Checkers : checker[c].at = "none" \/ checker[c].age < MaxAge
  /\ checker' = [c \in Checkers |->
       IF checker[c].at = "none" THEN NoCheck ELSE [checker[c] EXCEPT !.age = @ + 1]]
  /\ pending' = [r \in Rules |->
       IF pending[r].is THEN [pending[r] EXCEPT !.since = Older(@)] ELSE NotPending]
  /\ sentAge' = [r \in Rules |-> Older(sentAge[r])]
  /\ UNCHANGED <<rules, alerted, slow>>

CheckRule(c, r) == Defer(c, r) \/ Wait(c, r) \/ Swallow(c, r) \/ Fire(c, r) \/ Clear(c, r)
                   \/ Resolve(c, r)

AlertNext ==
  \/ \E c \in Checkers : \/ StartCheckRules(c) \/ Sent(c)
                         \/ \E r \in Rules : CheckRule(c, r)
  \/ \E r \in Rules : RemoveRule(r) \/ AddRule(r)
  \/ AlertTick

AlertSpec == AlertInit /\ [][AlertNext]_alertVars

-----------------------------------------------------------------------------

\* While checks do not overlap, a rule whose debounce is no shorter than the
\* cooldown counts as fired, and is resolved, only after an alert was sent: the
\* cooldown swallows none, however long the channels take and though rules are
\* removed and added again.
FiredWasAlerted ==
  ~slow => \A r \in Rules :
    pending[r].fired /\ Debounce[r] >= Cooldown => r \in alerted

=============================================================================
