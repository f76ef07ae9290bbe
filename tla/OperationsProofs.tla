--------------------------- MODULE OperationsProofs ---------------------------
(***************************************************************************)
(* What runs a service does what it promises: the shutdown drains          *)
(* (Shutdown), the cooldown swallows no alert (Alerts), migrations are     *)
(* applied in their order (Migrations), and the search for import cycles   *)
(* finds exactly the cycles there are (CycleDetector), for any values of   *)
(* the constants and any graph.                                            *)
(***************************************************************************)
EXTENDS MCOperations, FiniteSetTheorems, FunctionTheorems, SequenceTheorems,
        WellFoundedInduction, TLAPS

\* A set of numbers that has an element has a least one.
LEMMA LeastExists ==
  ASSUME NEW S, S \subseteq Nat, S # {}
  PROVE  \E n \in S : \A m \in S : n <= m
<1> DEFINE Less == {p \in Nat \X Nat : p[1] < p[2]}
<1>1. IsWellFoundedOn(Less, Nat)
  BY NatLessThanWellFounded DEF OpToRel
<1>2. PICK n \in S : \A m \in S : ~ (<<m, n>> \in Less)
  BY <1>1, WFMin
<1>3. \A m \in S : ~ (m < n)
  BY <1>2
<1>4. \A m \in S : m \in Nat
  OBVIOUS
<1> HIDE DEF Less
<1> QED
  BY <1>3, <1>4

\* A finite set of numbers that has an element has a greatest one.
LEMMA GreatestExists ==
  ASSUME NEW S, S \subseteq Nat, S # {}, IsFiniteSet(S)
  PROVE  \E n \in S : \A m \in S : m <= n
<1> DEFINE HasGreatest(T) == \E n \in T : \A m \in T : m <= n
           Sizes == {Cardinality(T) : T \in {U \in SUBSET S : U # {} /\ ~HasGreatest(U)}}
<1>1. \A T \in SUBSET S : IsFiniteSet(T) /\ Cardinality(T) \in Nat
  BY FS_Subset, FS_CardinalityType
<1>2. CASE Sizes = {}
  <2>1. HasGreatest(S)
    BY <1>2
  <2>2. QED
    BY <2>1
<1>3. CASE Sizes # {}
  <2>1. PICK k \in Sizes : \A l \in Sizes : k <= l
    <3>1. Sizes \subseteq Nat
      BY <1>1
    <3>2. QED
      BY <1>3, <3>1, LeastExists
  <2>2. PICK T \in SUBSET S : T # {} /\ ~HasGreatest(T) /\ k = Cardinality(T)
    BY <2>1
  <2>3. PICK x \in T : TRUE
    BY <2>2
  <2>4. Cardinality(T \ {x}) = k - 1 /\ k \in Nat
    BY <1>1, <2>2, <2>3, FS_RemoveElement
  <2>5. Cardinality(T \ {x}) \notin Sizes
    BY <2>1, <2>4
  <2>6. T \ {x} = {} \/ HasGreatest(T \ {x})
    BY <2>5
  <2>7. HasGreatest(T)
    <3>1. CASE T \ {x} = {}
      <4>1. \A m \in T : m <= x
        BY <2>2, <3>1
      <4>2. QED
        BY <4>1
    <3>2. CASE HasGreatest(T \ {x})
      <4>1. PICK n \in T \ {x} : \A m \in T \ {x} : m <= n
        BY <3>2
      <4>2. n \in Nat /\ x \in Nat /\ \A m \in T : m \in Nat
        OBVIOUS
      <4>3. CASE x <= n
        <5>1. \A m \in T : m <= n
          BY <4>1, <4>3
        <5>2. QED
          BY <5>1
      <4>4. CASE ~(x <= n)
        <5>1. \A m \in T : m <= x
          BY <4>1, <4>2, <4>4
        <5>2. QED
          BY <5>1
      <4>5. QED
        BY <4>3, <4>4
    <3>3. QED
      BY <2>6, <3>1, <3>2
  <2>8. QED
    BY <2>2, <2>7
<1>4. QED
  BY <1>2, <1>3

-----------------------------------------------------------------------------
\* Graceful shutdown.

\* The flag readyz asks is up from the first signal on, and only the force exit
\* drops requests.
DrainInv ==
  /\ TypeOK
  /\ IsFiniteSet(InFlight)
  /\ isShuttingDown => shuttingDownFlag
  /\ \A r \in Requests : request[r] = "dropped" => process = "killed"

LEMMA DrainInit == Init => DrainInv
<1> SUFFICES ASSUME Init PROVE DrainInv
  OBVIOUS
<1>1. InFlight = {}
  BY DEF Init, InFlight
<1>2. IsFiniteSet(InFlight) /\ Cardinality(InFlight) = 0
  BY <1>1, FS_EmptySet
<1>3. hanging \subseteq Requests /\ nestCloses \in BOOLEAN
  BY DEF Init
<1>4. timer \in 0..Timeout /\ count = Cardinality(InFlight)
  BY <1>2, ShutdownAssumption DEF Init
<1>5. \A r \in Requests : request[r] # "dropped"
  BY DEF Init
<1>6. QED
  BY <1>2, <1>3, <1>4, <1>5 DEF Init, DrainInv, TypeOK, Stages

\* A request that begins is counted once.
LEMMA ArriveStep == ASSUME DrainInv, NEW r \in Requests, Arrive(r) PROVE DrainInv'
<1>1. InFlight' = InFlight \cup {r} /\ r \notin InFlight
  BY DEF InFlight, Arrive, DrainInv, TypeOK
<1>2. IsFiniteSet(InFlight') /\ Cardinality(InFlight') = Cardinality(InFlight) + 1
  BY <1>1, FS_AddElement DEF DrainInv
<1>3. QED
  BY <1>2, ShutdownAssumption DEF Arrive, DrainInv, TypeOK, setup

\* One that ends is counted off once: the counter is not 0 while it runs.
LEMMA FinishStep == ASSUME DrainInv, NEW r \in Requests, Finish(r) PROVE DrainInv'
<1>1. InFlight' = InFlight \ {r} /\ r \in InFlight
  BY DEF InFlight, Finish, DrainInv, TypeOK
<1>2. /\ IsFiniteSet(InFlight') /\ Cardinality(InFlight') = Cardinality(InFlight) - 1
      /\ Cardinality(InFlight) \in Nat
  BY <1>1, FS_RemoveElement, FS_CardinalityType DEF DrainInv
<1>3. Cardinality(InFlight) # 0
  BY <1>1, FS_EmptySet DEF DrainInv
<1>4. QED
  BY <1>2, <1>3, ShutdownAssumption DEF Finish, DrainInv, TypeOK, setup

LEMMA ForceExitStep == ASSUME DrainInv, ForceExit PROVE DrainInv'
<1>1. InFlight' = {}
  BY DEF InFlight, ForceExit, DrainInv, TypeOK
<1>2. IsFiniteSet(InFlight') /\ Cardinality(InFlight') = 0
  BY <1>1, FS_EmptySet
<1>3. QED
  BY <1>2, ShutdownAssumption DEF ForceExit, DrainInv, TypeOK, setup

LEMMA DrainStep == DrainInv /\ [Next]_vars => DrainInv'
<1> SUFFICES ASSUME DrainInv, [Next]_vars PROVE DrainInv'
  OBVIOUS
<1> USE ShutdownAssumption DEF DrainInv, TypeOK, InFlight, Stages, setup
<1>1. CASE Signal
  BY <1>1 DEF Signal, Destroy
<1>2. CASE AppClose
  BY <1>2 DEF AppClose, Destroy
<1>3. CASE StopListening
  BY <1>3 DEF StopListening
<1>4. CASE OnApplicationShutdown
  BY <1>4 DEF OnApplicationShutdown
<1>5. ASSUME NEW ok \in BOOLEAN, BeforeShutdownHook(ok) PROVE DrainInv'
  BY <1>5 DEF BeforeShutdownHook
<1>6. CASE ServerClosed
  BY <1>6 DEF ServerClosed
<1>7. CASE Exit
  BY <1>7 DEF Exit
<1>8. CASE Tick
  BY <1>8 DEF Tick
<1>9. CASE UNCHANGED vars
  BY <1>9 DEF vars
<1>10. QED
  BY <1>1, <1>2, <1>3, <1>4, <1>5, <1>6, <1>7, <1>8, <1>9,
     ArriveStep, FinishStep, ForceExitStep DEF Next, Teardown, HookSettles

\* Through signals, close() and the force exit, the counter counts the requests
\* that run, and the flag of readyz is up once a signal came.
THEOREM DrainInvariantHolds == Spec => []DrainInv
<1>1. QED
  BY DrainInit, DrainStep, PTL DEF Spec

\* Whatever signals, close() and requests do, a process that is shutting down
\* answers readyz with 503, and the teardown drops no request: only the force
\* exit does.
THEOREM DrainsGracefully == Spec => []GracefulDrain
<1>1. DrainInv => GracefulDrain
  BY DEF DrainInv, GracefulDrain, Ready
<1>2. QED
  BY <1>1, DrainInvariantHolds, PTL

-----------------------------------------------------------------------------
\* Alerts.

Running(c) == checker[c].at # "none"

AgesOK ==
  /\ rules \subseteq Rules /\ slow \in BOOLEAN
  /\ checker \in [Checkers -> [at : {"none", "rule", "send"}, age : 0..MaxAge,
                               read : SUBSET Rules, left : SUBSET Rules,
                               resolved : SUBSET Rules]]
  /\ pending \in [Rules -> [since : 0..Horizon, fired : BOOLEAN, is : BOOLEAN]]
  /\ sentAge \in [Rules -> 0..Horizon]

OneCheck == \A c, d \in Checkers : Running(c) /\ Running(d) => c = d

\* No alert is younger than the check that is running.
SentByStart == \A c \in Checkers : Running(c) => \A r \in Rules : checker[c].age <= sentAge[r]

\* A rule alerted after it began to be pending is known as alerted.
SentWasAlerted ==
  \A r \in Rules : pending[r].is /\ sentAge[r] < pending[r].since => r \in alerted

AlertInvariant ==
  /\ AgesOK
  /\ ~slow => OneCheck /\ SentByStart /\ SentWasAlerted
  /\ FiredWasAlerted

-----------------------------------------------------------------------------

\* Each check goes on as old as it was, or ends; none begins.
ChecksGoOn ==
  \A c \in Checkers : Running(c)' => Running(c) /\ checker'[c].age = checker[c].age

\* The rules in clear are forgotten, the others stay as they are.
LEMMA ForgetStep ==
  ASSUME AlertInvariant, NEW clear \in SUBSET Rules, Forget(clear),
         UNCHANGED <<sentAge, slow>>
  PROVE  /\ pending' \in [Rules -> [since : 0..Horizon, fired : BOOLEAN, is : BOOLEAN]]
         /\ FiredWasAlerted'
         /\ ~slow => SentWasAlerted'
<1> USE DEF AlertInvariant, AgesOK
<1>1. /\ NotPending \in [since : 0..Horizon, fired : BOOLEAN, is : BOOLEAN]
      /\ ~NotPending.fired /\ ~NotPending.is
  BY AlertsAssumption DEF NotPending
<1>2. \A r \in Rules : pending'[r] = IF r \in clear THEN NotPending ELSE pending[r]
  BY DEF Forget
<1>3. \A r \in Rules \ clear : r \in alerted => r \in alerted'
  BY DEF Forget
<1>4. pending' \in [Rules -> [since : 0..Horizon, fired : BOOLEAN, is : BOOLEAN]]
  BY <1>1 DEF Forget
<1>5. FiredWasAlerted'
  BY <1>1, <1>2, <1>3 DEF FiredWasAlerted
<1>6. ~slow => SentWasAlerted'
  BY <1>1, <1>2, <1>3 DEF SentWasAlerted
<1> QED
  BY <1>4, <1>5, <1>6

\* The check goes on with the rules left, or ends.
LEMMA NextRuleStep ==
  ASSUME AgesOK, NEW c \in Checkers, Running(c), NEW left \in SUBSET Rules,
         NextRule(c, left)
  PROVE  /\ checker' \in [Checkers -> [at : {"none", "rule", "send"}, age : 0..MaxAge,
                                       read : SUBSET Rules, left : SUBSET Rules,
                                       resolved : SUBSET Rules]]
         /\ ChecksGoOn
<1> DEFINE next == IF left = {} THEN NoCheck
                   ELSE [checker[c] EXCEPT !.at = "rule", !.left = left, !.resolved = {}]
           Check == [at : {"none", "rule", "send"}, age : 0..MaxAge, read : SUBSET Rules,
                     left : SUBSET Rules, resolved : SUBSET Rules]
<1>1. NoCheck \in Check /\ NoCheck.at = "none"
  BY AlertsAssumption DEF NoCheck
<1>2. checker[c] \in Check
  BY DEF AgesOK
<1>3. next \in Check /\ (next.at # "none" => next.age = checker[c].age)
  BY <1>1, <1>2
<1>4. checker' = [checker EXCEPT ![c] = next]
  BY DEF NextRule
<1> HIDE DEF next, Check
<1>5. checker \in [Checkers -> Check]
  BY DEF AgesOK, Check
<1>6. /\ checker' \in [Checkers -> Check] /\ checker'[c] = next
      /\ \A d \in Checkers \ {c} : checker'[d] = checker[d]
  BY <1>3, <1>4, <1>5
<1>7. ChecksGoOn
  BY <1>3, <1>6 DEF ChecksGoOn, Running
<1> QED
  BY <1>6, <1>7 DEF Check

\* A check that stops at an await keeps its age.
LEMMA AwaitStep ==
  ASSUME AgesOK, NEW c \in Checkers, Running(c), NEW left \in SUBSET Rules,
         NEW resolved \in SUBSET Rules,
         checker' = [checker EXCEPT ![c] =
           [checker[c] EXCEPT !.at = "send", !.left = left, !.resolved = resolved]]
  PROVE  /\ checker' \in [Checkers -> [at : {"none", "rule", "send"}, age : 0..MaxAge,
                                       read : SUBSET Rules, left : SUBSET Rules,
                                       resolved : SUBSET Rules]]
         /\ ChecksGoOn
<1> DEFINE next == [checker[c] EXCEPT !.at = "send", !.left = left, !.resolved = resolved]
           Check == [at : {"none", "rule", "send"}, age : 0..MaxAge, read : SUBSET Rules,
                     left : SUBSET Rules, resolved : SUBSET Rules]
<1>1. checker[c] \in Check
  BY DEF AgesOK
<1>2. next \in Check /\ next.age = checker[c].age
  BY <1>1
<1> HIDE DEF next, Check
<1>3. checker \in [Checkers -> Check]
  BY DEF AgesOK, Check
<1>4. /\ checker' \in [Checkers -> Check] /\ checker'[c] = next
      /\ \A d \in Checkers \ {c} : checker'[d] = checker[d]
  BY <1>2, <1>3 DEF next
<1> QED
  BY <1>2, <1>4 DEF Check, ChecksGoOn, Running

\* What the order of checks and alerts needs, when no check begins and no
\* time passes: one check at a time, and no alert younger than it.
LEMMA GoOnPreserves ==
  ASSUME AlertInvariant, ChecksGoOn, UNCHANGED <<sentAge, slow>>
  PROVE  ~slow' => OneCheck' /\ SentByStart'
  BY DEF AlertInvariant, ChecksGoOn, OneCheck, SentByStart

-----------------------------------------------------------------------------

LEMMA AlertInitially == AlertInit => AlertInvariant
<1> SUFFICES ASSUME AlertInit
             PROVE  AlertInvariant
  OBVIOUS
<1>1. NoCheck \in [at : {"none", "rule", "send"}, age : 0..MaxAge, read : SUBSET Rules,
                   left : SUBSET Rules, resolved : SUBSET Rules]
  BY AlertsAssumption DEF NoCheck
<1>2. NotPending \in [since : 0..Horizon, fired : BOOLEAN, is : BOOLEAN]
  BY AlertsAssumption DEF NotPending
<1>3. AgesOK
  BY <1>1, <1>2, AlertsAssumption DEF AlertInit, AgesOK
<1>4. \A c \in Checkers : ~Running(c)
  BY DEF AlertInit, Running, NoCheck
<1>5. \A r \in Rules : ~pending[r].fired /\ ~pending[r].is
  BY DEF AlertInit, NotPending
<1> QED
  BY <1>3, <1>4, <1>5 DEF AlertInvariant, OneCheck, SentByStart, SentWasAlerted, FiredWasAlerted

LEMMA StartCheckStep ==
  ASSUME AlertInvariant, NEW c \in Checkers, StartCheckRules(c)
  PROVE  AlertInvariant'
<1> USE DEF AlertInvariant
<1>1. PICK read \in SUBSET Rules, left \in (SUBSET rules) \ {{}} :
        checker' = [checker EXCEPT ![c] =
          [at |-> "rule", age |-> 0, read |-> read, left |-> left, resolved |-> {}]]
  BY DEF StartCheckRules
<1> DEFINE next == [at |-> "rule", age |-> 0, read |-> read, left |-> left, resolved |-> {}]
           Check == [at : {"none", "rule", "send"}, age : 0..MaxAge, read : SUBSET Rules,
                     left : SUBSET Rules, resolved : SUBSET Rules]
<1>2. next \in Check /\ next.age = 0
  <2>1. left \in SUBSET Rules /\ 0 \in 0..MaxAge
    BY AlertsAssumption DEF AgesOK
  <2> QED
    BY <2>1
<1> HIDE DEF next, Check
<1>3. checker \in [Checkers -> Check]
  BY DEF AgesOK, Check
<1>4. /\ checker' \in [Checkers -> Check] /\ checker'[c] = next
      /\ \A d \in Checkers \ {c} : checker'[d] = checker[d]
  BY <1>1, <1>2, <1>3 DEF next
<1>5. AgesOK'
  BY <1>4 DEF AgesOK, Check, StartCheckRules
<1>6. ~slow => \A d \in Checkers \ {c} : ~Running(d)'
  BY <1>4 DEF Running, StartCheckRules, NoCheck
<1>7. \A r \in Rules : 0 <= sentAge[r]
  BY AlertsAssumption DEF AgesOK
<1>8. ~slow => OneCheck' /\ SentByStart'
  BY <1>2, <1>4, <1>6, <1>7 DEF OneCheck, SentByStart, StartCheckRules
<1>9. FiredWasAlerted' /\ (SentWasAlerted => SentWasAlerted')
  BY DEF FiredWasAlerted, SentWasAlerted, StartCheckRules
<1> QED
  BY <1>5, <1>8, <1>9 DEF StartCheckRules

\* What the rules share when a check comes to one of them.
LEMMA FoundRule ==
  ASSUME AlertInvariant, NEW c \in Checkers, NEW r \in Rules, NEW b \in BOOLEAN,
         Finds(c, r, b)
  PROVE  /\ Running(c) /\ checker[c].left \ {r} \in SUBSET Rules
         /\ checker[c].age \in 0..MaxAge
  BY DEF AlertInvariant, AgesOK, Finds, Running

LEMMA DeferStep ==
  ASSUME AlertInvariant, NEW c \in Checkers, NEW r \in Rules, Defer(c, r)
  PROVE  AlertInvariant'
<1> USE DEF AlertInvariant
<1>1. /\ Running(c) /\ checker[c].left \ {r} \in SUBSET Rules
      /\ checker[c].age \in 0..MaxAge
  BY FoundRule DEF Defer
<1>2. NextRule(c, checker[c].left \ {r})
  BY DEF Defer
<1>3. ChecksGoOn /\ checker' \in [Checkers -> [at : {"none", "rule", "send"},
        age : 0..MaxAge, read : SUBSET Rules, left : SUBSET Rules, resolved : SUBSET Rules]]
  BY <1>1, <1>2, NextRuleStep
<1> DEFINE new == [since |-> checker[c].age, fired |-> FALSE, is |-> TRUE]
<1>4. new \in [since : 0..Horizon, fired : BOOLEAN, is : BOOLEAN]
  BY <1>1, AlertsAssumption
<1>5. /\ pending' \in [Rules -> [since : 0..Horizon, fired : BOOLEAN, is : BOOLEAN]]
      /\ pending'[r] = new /\ \A s \in Rules \ {r} : pending'[s] = pending[s]
  BY <1>4 DEF Defer, AgesOK
<1>6. AgesOK'
  BY <1>3, <1>5 DEF AgesOK, Defer
<1>7. ~slow' => OneCheck' /\ SentByStart'
  BY <1>3, GoOnPreserves DEF Defer
<1>8. ~slow => ~(sentAge[r] < checker[c].age)
  BY <1>1, AlertsAssumption DEF SentByStart, AgesOK
<1>9. ~slow => SentWasAlerted'
  BY <1>5, <1>8 DEF SentWasAlerted, Defer
<1>10. FiredWasAlerted'
  BY <1>5 DEF FiredWasAlerted, Defer
<1> QED
  BY <1>6, <1>7, <1>9, <1>10 DEF Defer

\* Marking a rule fired touches nothing else of it.
LEMMA FiredFields ==
  ASSUME AgesOK, NEW r \in Rules, pending' = Fired(r)
  PROVE  /\ pending' \in [Rules -> [since : 0..Horizon, fired : BOOLEAN, is : BOOLEAN]]
         /\ pending'[r].fired = (Debounce[r] > 0)
         /\ pending'[r].since = pending[r].since /\ pending'[r].is = pending[r].is
         /\ \A s \in Rules \ {r} : pending'[s] = pending[s]
<1> DEFINE new == [pending[r] EXCEPT !.fired = Debounce[r] > 0]
<1>1. pending[r] \in [since : 0..Horizon, fired : BOOLEAN, is : BOOLEAN]
  BY DEF AgesOK
<1>2. (Debounce[r] > 0) \in BOOLEAN
  OBVIOUS
<1>3. /\ new \in [since : 0..Horizon, fired : BOOLEAN, is : BOOLEAN]
      /\ new.fired = (Debounce[r] > 0)
      /\ new.since = pending[r].since /\ new.is = pending[r].is
  BY <1>1, <1>2
<1>4. pending' = [pending EXCEPT ![r] = new]
  BY DEF Fired
<1> HIDE DEF new
<1> QED
  BY <1>3, <1>4 DEF AgesOK

\* A rule that is due inside its cooldown, with a debounce as long, has been
\* alerted since it began to be pending.
LEMMA SwallowedWasAlerted ==
  ASSUME AlertInvariant, ~slow, NEW c \in Checkers, NEW r \in Rules, Swallow(c, r),
         Debounce[r] > 0, Debounce[r] >= Cooldown
  PROVE  r \in alerted
<1>1. pending[r].is /\ pending[r].since - checker[c].age >= Debounce[r]
  BY AlertsAssumption DEF Swallow, Due, Elapsed
<1>2. sentAge[r] - checker[c].age < Cooldown
  BY DEF Swallow, Elapsed
<1>3. /\ pending[r].since \in Nat /\ checker[c].age \in Nat /\ sentAge[r] \in Nat
      /\ Debounce[r] \in Nat /\ Cooldown \in Nat
  BY AlertsAssumption DEF AlertInvariant, AgesOK
<1>4. sentAge[r] < pending[r].since
  BY <1>1, <1>2, <1>3
<1> QED
  BY <1>1, <1>4 DEF AlertInvariant, SentWasAlerted

LEMMA SwallowStep ==
  ASSUME AlertInvariant, NEW c \in Checkers, NEW r \in Rules, Swallow(c, r)
  PROVE  AlertInvariant'
<1> USE DEF AlertInvariant
<1>1. /\ Running(c) /\ checker[c].left \ {r} \in SUBSET Rules
  BY FoundRule DEF Swallow
<1>2. ChecksGoOn /\ checker' \in [Checkers -> [at : {"none", "rule", "send"},
        age : 0..MaxAge, read : SUBSET Rules, left : SUBSET Rules, resolved : SUBSET Rules]]
  BY <1>1, NextRuleStep DEF Swallow
<1>3. /\ pending' \in [Rules -> [since : 0..Horizon, fired : BOOLEAN, is : BOOLEAN]]
      /\ pending'[r].fired = (Debounce[r] > 0)
      /\ pending'[r].since = pending[r].since /\ pending'[r].is = pending[r].is
      /\ \A s \in Rules \ {r} : pending'[s] = pending[s]
  BY FiredFields DEF Swallow
<1>4. AgesOK'
  BY <1>2, <1>3 DEF AgesOK, Swallow
<1>5. ~slow' => OneCheck' /\ SentByStart'
  BY <1>2, GoOnPreserves DEF Swallow
<1>6. ~slow => SentWasAlerted'
  BY <1>3 DEF SentWasAlerted, Swallow
<1>7. FiredWasAlerted'
  <2> SUFFICES ASSUME ~slow, NEW s \in Rules, pending'[s].fired, Debounce[s] >= Cooldown
               PROVE  s \in alerted
    BY DEF FiredWasAlerted, Swallow
  <2>1. CASE s = r
    BY <1>3, <2>1, SwallowedWasAlerted
  <2>2. CASE s # r
    BY <1>3, <2>2 DEF FiredWasAlerted
  <2> QED
    BY <2>1, <2>2
<1> QED
  BY <1>4, <1>5, <1>6, <1>7 DEF Swallow

LEMMA FireStep ==
  ASSUME AlertInvariant, NEW c \in Checkers, NEW r \in Rules, Fire(c, r)
  PROVE  AlertInvariant'
<1> USE DEF AlertInvariant
<1>1. /\ Running(c) /\ checker[c].left \ {r} \in SUBSET Rules
      /\ checker[c].age \in 0..MaxAge
  BY FoundRule DEF Fire
<1>2. checker[c].resolved \in SUBSET Rules
  BY DEF AgesOK
<1>3. checker' = [checker EXCEPT ![c] = [checker[c] EXCEPT !.at = "send",
        !.left = checker[c].left \ {r}, !.resolved = checker[c].resolved]]
  BY DEF Fire, AgesOK
<1>4. ChecksGoOn /\ checker' \in [Checkers -> [at : {"none", "rule", "send"},
        age : 0..MaxAge, read : SUBSET Rules, left : SUBSET Rules, resolved : SUBSET Rules]]
  BY <1>1, <1>2, <1>3, AwaitStep
<1>5. /\ pending' \in [Rules -> [since : 0..Horizon, fired : BOOLEAN, is : BOOLEAN]]
      /\ \A s \in Rules \ {r} : pending'[s] = pending[s]
  BY FiredFields DEF Fire
<1>6. /\ sentAge' \in [Rules -> 0..Horizon] /\ sentAge'[r] = checker[c].age
      /\ \A s \in Rules \ {r} : sentAge'[s] = sentAge[s]
      /\ r \in alerted' /\ alerted \subseteq alerted'
  BY <1>1, AlertsAssumption DEF Fire, AgesOK
<1>7. AgesOK'
  BY <1>4, <1>5, <1>6 DEF AgesOK, Fire
<1>8. ~slow => OneCheck'
  BY <1>4 DEF OneCheck, ChecksGoOn
<1>9. ~slow => SentByStart'
  <2> SUFFICES ASSUME ~slow, NEW d \in Checkers, Running(d)', NEW s \in Rules
               PROVE  checker'[d].age <= sentAge'[s]
    BY DEF SentByStart
  <2>1. d = c /\ checker'[d].age = checker[c].age
    BY <1>1, <1>4 DEF OneCheck, ChecksGoOn
  <2>2. checker[c].age <= sentAge[s]
    BY <1>1 DEF SentByStart
  <2> QED
    BY <1>1, <1>6, <2>1, <2>2
<1>10. ~slow => SentWasAlerted'
  BY <1>5, <1>6 DEF SentWasAlerted
<1>11. FiredWasAlerted'
  BY <1>5, <1>6 DEF FiredWasAlerted, Fire
<1> QED
  BY <1>7, <1>8, <1>9, <1>10, <1>11 DEF Fire

-----------------------------------------------------------------------------

LEMMA WaitStep ==
  ASSUME AlertInvariant, NEW c \in Checkers, NEW r \in Rules, Wait(c, r)
  PROVE  AlertInvariant'
<1> USE DEF AlertInvariant
<1>1. /\ Running(c) /\ checker[c].left \ {r} \in SUBSET Rules
  BY FoundRule DEF Wait
<1>2. ChecksGoOn /\ checker' \in [Checkers -> [at : {"none", "rule", "send"},
        age : 0..MaxAge, read : SUBSET Rules, left : SUBSET Rules, resolved : SUBSET Rules]]
  BY <1>1, NextRuleStep DEF Wait
<1>3. AgesOK'
  BY <1>2 DEF AgesOK, Wait
<1>4. ~slow' => OneCheck' /\ SentByStart'
  BY <1>2, GoOnPreserves DEF Wait
<1>5. (SentWasAlerted => SentWasAlerted') /\ FiredWasAlerted'
  BY DEF SentWasAlerted, FiredWasAlerted, Wait
<1> QED
  BY <1>3, <1>4, <1>5 DEF Wait

LEMMA ClearStep ==
  ASSUME AlertInvariant, NEW c \in Checkers, NEW clear \in SUBSET Rules,
         NEW left \in SUBSET Rules, Running(c),
         Forget(clear), NextRule(c, left), UNCHANGED <<rules, sentAge, slow>>
  PROVE  AlertInvariant'
<1> USE DEF AlertInvariant
<1>1. ChecksGoOn /\ checker' \in [Checkers -> [at : {"none", "rule", "send"},
        age : 0..MaxAge, read : SUBSET Rules, left : SUBSET Rules, resolved : SUBSET Rules]]
  BY NextRuleStep
<1>2. /\ pending' \in [Rules -> [since : 0..Horizon, fired : BOOLEAN, is : BOOLEAN]]
      /\ FiredWasAlerted' /\ (~slow => SentWasAlerted')
  BY ForgetStep
<1>3. AgesOK'
  BY <1>1, <1>2 DEF AgesOK
<1> QED
  BY <1>1, <1>2, <1>3, GoOnPreserves

LEMMA ResolveStep ==
  ASSUME AlertInvariant, NEW c \in Checkers, NEW r \in Rules, Resolve(c, r)
  PROVE  AlertInvariant'
<1> USE DEF AlertInvariant
<1>1. /\ Running(c) /\ checker[c].left \ {r} \in SUBSET Rules /\ {r} \in SUBSET Rules
  BY FoundRule DEF Resolve
<1>2. checker' = [checker EXCEPT ![c] = [checker[c] EXCEPT !.at = "send",
        !.left = checker[c].left \ {r}, !.resolved = {r}]]
  BY DEF Resolve, AgesOK
<1>3. ChecksGoOn /\ checker' \in [Checkers -> [at : {"none", "rule", "send"},
        age : 0..MaxAge, read : SUBSET Rules, left : SUBSET Rules, resolved : SUBSET Rules]]
  BY <1>1, <1>2, AwaitStep
<1>4. AgesOK'
  BY <1>3 DEF AgesOK, Resolve
<1>5. ~slow' => OneCheck' /\ SentByStart'
  BY <1>3, GoOnPreserves DEF Resolve
<1>6. (SentWasAlerted => SentWasAlerted') /\ FiredWasAlerted'
  BY DEF SentWasAlerted, FiredWasAlerted, Resolve
<1> QED
  BY <1>4, <1>5, <1>6 DEF Resolve

LEMMA RemoveRuleStep ==
  ASSUME AlertInvariant, NEW r \in Rules, RemoveRule(r)
  PROVE  AlertInvariant'
<1> USE DEF AlertInvariant
<1>1. /\ NotPending \in [since : 0..Horizon, fired : BOOLEAN, is : BOOLEAN]
      /\ ~NotPending.fired /\ ~NotPending.is
  BY AlertsAssumption DEF NotPending
<1>2. /\ pending' \in [Rules -> [since : 0..Horizon, fired : BOOLEAN, is : BOOLEAN]]
      /\ pending'[r] = NotPending /\ \A s \in Rules \ {r} : pending'[s] = pending[s]
  BY <1>1 DEF RemoveRule, AgesOK
<1> DEFINE Check == [at : {"none", "rule", "send"}, age : 0..MaxAge, read : SUBSET Rules,
                     left : SUBSET Rules, resolved : SUBSET Rules]
           next(c) == [checker[c] EXCEPT !.left = checker[c].left \ {r}]
<1>3. \A c \in Checkers :
        next(c) \in Check /\ next(c).at = checker[c].at /\ next(c).age = checker[c].age
  BY DEF AgesOK
<1>4. checker' = [c \in Checkers |-> next(c)]
  BY DEF RemoveRule
<1> HIDE DEF next, Check
<1>5. checker' \in [Checkers -> Check] /\ ChecksGoOn
  BY <1>3, <1>4 DEF ChecksGoOn, Running
<1>6. AgesOK'
  BY <1>2, <1>5 DEF AgesOK, RemoveRule, Check
<1>7. ~slow' => OneCheck' /\ SentByStart'
  BY <1>5, GoOnPreserves DEF RemoveRule
<1>8. ~slow => SentWasAlerted'
  BY <1>1, <1>2 DEF SentWasAlerted, RemoveRule
<1>9. FiredWasAlerted'
  BY <1>1, <1>2 DEF FiredWasAlerted, RemoveRule
<1> QED
  BY <1>6, <1>7, <1>8, <1>9 DEF RemoveRule

LEMMA AddRuleStep ==
  ASSUME AlertInvariant, NEW r \in Rules, AddRule(r)
  PROVE  AlertInvariant'
<1> USE DEF AlertInvariant
<1> DEFINE Check == [at : {"none", "rule", "send"}, age : 0..MaxAge, read : SUBSET Rules,
                     left : SUBSET Rules, resolved : SUBSET Rules]
           longer(c) == [checker[c] EXCEPT !.left = checker[c].left \cup {r}]
           next(c) == IF checker[c] = NoCheck THEN NoCheck ELSE longer(c)
<1>1. \A c \in Checkers :
        longer(c) \in Check /\ longer(c).at = checker[c].at
                           /\ longer(c).age = checker[c].age
  BY DEF AgesOK
<1>2. NoCheck \in Check
  BY AlertsAssumption DEF NoCheck
<1>3. checker' = [c \in Checkers |-> next(c)]
  BY DEF AddRule
<1> HIDE DEF longer, Check
<1>4. checker' \in [Checkers -> Check] /\ ChecksGoOn
  BY <1>1, <1>2, <1>3 DEF ChecksGoOn, Running
<1>5. AgesOK'
  BY <1>4 DEF AgesOK, AddRule, Check
<1>6. ~slow' => OneCheck' /\ SentByStart'
  BY <1>4, GoOnPreserves DEF AddRule
<1>7. (SentWasAlerted => SentWasAlerted') /\ FiredWasAlerted'
  BY DEF SentWasAlerted, FiredWasAlerted, AddRule
<1> QED
  BY <1>5, <1>6, <1>7 DEF AddRule

\* Time passes: every age grows, and no order between ages is made.
LEMMA AlertTickStep ==
  ASSUME AlertInvariant, AlertTick
  PROVE  AlertInvariant'
<1> USE DEF AlertInvariant
<1>1. \A n \in 0..Horizon : Older(n) \in 0..Horizon
  BY AlertsAssumption DEF Older
<1>2. \A m, n \in 0..Horizon : Older(m) < Older(n) => m < n
  BY AlertsAssumption DEF Older
<1>3. \A m \in 0..MaxAge, n \in 0..Horizon : m < MaxAge /\ m <= n => m + 1 <= Older(n)
  BY AlertsAssumption DEF Older
<1> DEFINE Pending == [since : 0..Horizon, fired : BOOLEAN, is : BOOLEAN]
           older(r) == [pending[r] EXCEPT !.since = Older(pending[r].since)]
<1>4. \A r \in Rules :
        /\ older(r) \in Pending /\ older(r).since = Older(pending[r].since)
        /\ older(r).fired = pending[r].fired /\ older(r).is = pending[r].is
  BY <1>1 DEF AgesOK
<1>5. NotPending \in Pending /\ ~NotPending.fired /\ ~NotPending.is
  BY AlertsAssumption DEF NotPending
<1>6. pending' = [r \in Rules |-> IF pending[r].is THEN older(r) ELSE NotPending]
  BY DEF AlertTick
<1> HIDE DEF Pending, older
<1>7. /\ pending' \in [Rules -> Pending]
      /\ \A r \in Rules : pending'[r].fired => pending[r].fired
      /\ \A r \in Rules : pending'[r].is =>
           pending[r].is /\ pending'[r].since = Older(pending[r].since)
  BY <1>4, <1>5, <1>6
<1>8. /\ sentAge' \in [Rules -> 0..Horizon]
      /\ \A r \in Rules : sentAge'[r] = Older(sentAge[r])
  BY <1>1 DEF AlertTick, AgesOK
<1> DEFINE Check == [at : {"none", "rule", "send"}, age : 0..MaxAge, read : SUBSET Rules,
                     left : SUBSET Rules, resolved : SUBSET Rules]
           next(c) == [checker[c] EXCEPT !.age = checker[c].age + 1]
<1>9. \A c \in Checkers : Running(c) =>
        /\ checker[c].age < MaxAge /\ next(c) \in Check
        /\ next(c).at = checker[c].at /\ next(c).age = checker[c].age + 1
  <2> SUFFICES ASSUME NEW c \in Checkers, Running(c)
               PROVE  /\ checker[c].age < MaxAge /\ next(c) \in Check
                      /\ next(c).at = checker[c].at /\ next(c).age = checker[c].age + 1
    OBVIOUS
  <2>1. checker[c] \in Check
    BY DEF AgesOK
  <2>2. checker[c].age < MaxAge
    BY DEF AlertTick, Running
  <2>3. checker[c].age + 1 \in 0..MaxAge
    BY <2>1, <2>2, AlertsAssumption
  <2> QED
    BY <2>1, <2>2, <2>3
<1>10. NoCheck \in Check /\ NoCheck.at = "none"
  BY AlertsAssumption DEF NoCheck
<1>11. checker' = [c \in Checkers |-> IF checker[c].at = "none" THEN NoCheck ELSE next(c)]
  BY DEF AlertTick
<1> HIDE DEF Check, next
<1>12. /\ checker' \in [Checkers -> Check]
       /\ \A c \in Checkers : Running(c)' =>
            /\ Running(c) /\ checker[c].age < MaxAge
            /\ checker'[c].age = checker[c].age + 1
  BY <1>9, <1>10, <1>11 DEF Running
<1>13. AgesOK'
  BY <1>7, <1>8, <1>12 DEF AgesOK, AlertTick, Pending, Check
<1>14. ~slow => OneCheck'
  BY <1>12 DEF OneCheck
<1>15. ~slow => SentByStart'
  <2> SUFFICES ASSUME ~slow, NEW c \in Checkers, Running(c)', NEW r \in Rules
               PROVE  checker'[c].age <= sentAge'[r]
    BY DEF SentByStart
  <2>1. checker[c].age \in 0..MaxAge /\ sentAge[r] \in 0..Horizon
    BY DEF AgesOK
  <2>2. checker[c].age <= sentAge[r] /\ checker[c].age < MaxAge
    BY <1>12 DEF SentByStart
  <2> QED
    BY <1>3, <1>8, <1>12, <2>1, <2>2
<1>16. ~slow => SentWasAlerted'
  BY <1>2, <1>7, <1>8 DEF SentWasAlerted, AgesOK, AlertTick
<1>17. FiredWasAlerted'
  BY <1>7 DEF FiredWasAlerted, AlertTick
<1> QED
  BY <1>13, <1>14, <1>15, <1>16, <1>17 DEF AlertTick

-----------------------------------------------------------------------------

LEMMA AlertStep ==
  ASSUME AlertInvariant, [AlertNext]_alertVars
  PROVE  AlertInvariant'
<1>1. ASSUME NEW c \in Checkers, StartCheckRules(c)
      PROVE  AlertInvariant'
  BY <1>1, StartCheckStep
<1>2. ASSUME NEW c \in Checkers, Sent(c)
      PROVE  AlertInvariant'
  <2>1. /\ Running(c) /\ checker[c].resolved \in SUBSET Rules
        /\ checker[c].left \in SUBSET Rules
    BY <1>2 DEF Sent, Running, AlertInvariant, AgesOK
  <2> QED
    BY <1>2, <2>1, ClearStep DEF Sent
<1>3. ASSUME NEW c \in Checkers, NEW r \in Rules, CheckRule(c, r)
      PROVE  AlertInvariant'
  <2>1. CASE Clear(c, r)
    <3>1. Running(c) /\ checker[c].left \ {r} \in SUBSET Rules /\ {r} \in SUBSET Rules
      BY <2>1, FoundRule DEF Clear
    <3> QED
      BY <2>1, <3>1, ClearStep DEF Clear
  <2> QED
    BY <1>3, <2>1, DeferStep, WaitStep, SwallowStep, FireStep, ResolveStep DEF CheckRule
<1>4. ASSUME NEW r \in Rules, RemoveRule(r) \/ AddRule(r)
      PROVE  AlertInvariant'
  BY <1>4, RemoveRuleStep, AddRuleStep
<1>5. CASE AlertTick
  BY <1>5, AlertTickStep
<1>6. CASE UNCHANGED alertVars
  BY <1>6 DEF alertVars, AlertInvariant, AgesOK, OneCheck, SentByStart, SentWasAlerted,
              FiredWasAlerted, Running
<1> QED
  BY <1>1, <1>2, <1>3, <1>4, <1>5, <1>6 DEF AlertNext

\* The order of checks and alerts that the cooldown rests on holds in every
\* reachable state.
THEOREM AlertInvariantHolds == AlertSpec => []AlertInvariant
<1> QED
  BY AlertInitially, AlertStep, PTL DEF AlertSpec

\* While checks do not overlap, checkRules() marks a rule whose debounce is no
\* shorter than the cooldown as fired only after an alert of it was sent: the
\* cooldown swallows none, for any debounces and however long channels take.
THEOREM NoAlertSwallowed == AlertSpec => []FiredWasAlerted
<1>1. AlertInvariant => FiredWasAlerted
  BY DEF AlertInvariant
<1> QED
  BY <1>1, AlertInvariantHolds, PTL

\* Only rules are alerted.
LEMMA AlertedStep ==
  ASSUME alerted \subseteq Rules, [AlertNext]_alertVars
  PROVE  alerted' \subseteq Rules
<1>1. ASSUME NEW c \in Checkers, StartCheckRules(c) \/ Sent(c) PROVE alerted' \subseteq Rules
  BY <1>1 DEF StartCheckRules, Sent, Forget
<1>2. ASSUME NEW c \in Checkers, NEW r \in Rules, CheckRule(c, r) PROVE alerted' \subseteq Rules
  BY <1>2 DEF CheckRule, Defer, Wait, Swallow, Fire, Clear, Resolve, Forget
<1>3. ASSUME NEW r \in Rules, RemoveRule(r) \/ AddRule(r) PROVE alerted' \subseteq Rules
  BY <1>3 DEF RemoveRule, AddRule
<1>4. CASE AlertTick \/ UNCHANGED alertVars
  BY <1>4 DEF AlertTick, alertVars
<1>5. QED
  BY <1>1, <1>2, <1>3, <1>4 DEF AlertNext

-----------------------------------------------------------------------------
\* Migrations.

Migrating(r) == job[r].at \in {"up", "insert"}
RollingBack(r) == job[r].at \in {"down", "delete"}

\* What the order rests on: who may run, and that no runner rolls back while
\* others migrate.
RunnersTakeTurns ==
  /\ records \in [Versions -> Nat]
  /\ job \in [Runners -> Jobs \cup {NoJob}]
  /\ overlap \in BOOLEAN /\ reversed \in BOOLEAN
  /\ ~overlap => \A q, r \in Runners : q = r \/ job[q] = NoJob \/ job[r] = NoJob
  /\ ~reversed => \A r \in Runners : ~RollingBack(r)

\* A recorded version is in effect, or on its way out, or its rollback was cut.
RecordedInEffect ==
  \A v \in Versions : records[v] > 0 =>
    \/ v \in inEffect \cup cut
    \/ \E r \in Runners : job[r].at = "delete" /\ v = Newest(r)

\* What a migrating runner has not left to do is in effect.
RestInEffect ==
  \A r \in Runners : Migrating(r) =>
    /\ \A v \in Versions \ job[r].todo : v \in inEffect \cup cut
    /\ job[r].at = "insert" => Oldest(r) \in inEffect

\* Without overlap a version is recorded once, when its up() has run.
RecordedOnce ==
  ~overlap =>
    /\ \A v \in Versions : records[v] <= 1
    /\ \A r \in Runners : Migrating(r) => \A v \in job[r].todo : records[v] = 0

MigrationInvariant ==
  /\ RunnersTakeTurns
  /\ (overlap => ~reversed) => RecordedInEffect /\ RestInEffect /\ RecordedOnce

-----------------------------------------------------------------------------

\* A runner that does something has versions left to do it to.
LEMMA JobFields ==
  ASSUME RunnersTakeTurns, NEW r \in Runners, job[r].at # "idle"
  PROVE  /\ job[r] \in Jobs /\ job[r].todo \subseteq Versions /\ job[r].todo # {}
         /\ job[r].at \in {"up", "insert", "down", "delete"}
  BY DEF RunnersTakeTurns, Jobs, NoJob

\* Oldest takes the least version left.
LEMMA OldestIsLeast ==
  ASSUME RunnersTakeTurns, NEW r \in Runners, job[r].at # "idle"
  PROVE  /\ Oldest(r) \in job[r].todo /\ Oldest(r) \in Versions
         /\ \A v \in job[r].todo : Oldest(r) <= v
<1>1. job[r].todo \subseteq Versions /\ job[r].todo # {}
  BY JobFields
<1>2. job[r].todo \subseteq Nat /\ job[r].todo # {}
  BY <1>1, MigrationsAssumption
<1>3. PICK n \in job[r].todo : \A m \in job[r].todo : n <= m
  BY <1>2, LeastExists
<1>4. Oldest(r) \in job[r].todo /\ \A v \in job[r].todo : Oldest(r) <= v
  BY <1>3 DEF Oldest, Min
<1> QED
  BY <1>1, <1>4

\* When runners take turns, a runner that does something is alone.
LEMMA Alone ==
  ASSUME RunnersTakeTurns, ~overlap, NEW r \in Runners, job[r].at # "idle"
  PROVE  \A q \in Runners \ {r} : job[q] = NoJob
  BY DEF RunnersTakeTurns, NoJob

\* A runner that goes on, or ends, leaves the others at what they do.
LEMMA JobStep ==
  ASSUME RunnersTakeTurns, NEW r \in Runners, NEW j \in Jobs \cup {NoJob},
         job' = [job EXCEPT ![r] = j]
  PROVE  /\ job' \in [Runners -> Jobs \cup {NoJob}]
         /\ job'[r] = j
         /\ \A q \in Runners \ {r} : job'[q] = job[q]
  BY DEF RunnersTakeTurns

\* The loop goes on with what is left, or is over.
LEMMA ContinueStep ==
  ASSUME RunnersTakeTurns, NEW r \in Runners, NEW at \in {"up", "down"},
         NEW todo \in SUBSET Versions, Continue(r, at, todo)
  PROVE  \E j \in Jobs \cup {NoJob} :
           /\ job' = [job EXCEPT ![r] = j]
           /\ j = NoJob \/ j = [at |-> at, todo |-> todo]
<1>1. CASE todo = {}
  BY <1>1 DEF Continue
<1>2. CASE todo # {}
  <2>1. [at |-> at, todo |-> todo] \in Jobs
    BY <1>2 DEF Jobs
  <2> QED
    BY <1>2, <2>1 DEF Continue
<1> QED
  BY <1>1, <1>2

\* Turns are kept by a runner that goes on with what it did, or ends.
LEMMA TurnsKept ==
  ASSUME RunnersTakeTurns, NEW r \in Runners, NEW j \in Jobs \cup {NoJob},
         job[r].at # "idle", job' = [job EXCEPT ![r] = j],
         j.at \in {"down", "delete"} => RollingBack(r),
         records' \in [Versions -> Nat], UNCHANGED <<overlap, reversed>>
  PROVE  RunnersTakeTurns'
<1>1. /\ job' \in [Runners -> Jobs \cup {NoJob}] /\ job'[r] = j
      /\ \A q \in Runners \ {r} : job'[q] = job[q]
  BY JobStep
<1>2. ~overlap' => \A p, q \in Runners : p = q \/ job'[p] = NoJob \/ job'[q] = NoJob
  BY <1>1, Alone
<1>3. ~reversed' => \A q \in Runners : ~RollingBack(q)'
  BY <1>1 DEF RunnersTakeTurns, RollingBack
<1> QED
  BY <1>1, <1>2, <1>3 DEF RunnersTakeTurns

\* A runner ends without an effect.
LEMMA EndPreserves ==
  ASSUME MigrationInvariant, NEW r \in Runners, job[r].at \in {"up", "insert", "down"},
         job' = [job EXCEPT ![r] = NoJob],
         UNCHANGED <<records, inEffect, overlap, reversed, cut>>
  PROVE  MigrationInvariant'
<1>1. /\ job'[r] = NoJob /\ NoJob.at = "idle"
      /\ \A q \in Runners \ {r} : job'[q] = job[q]
  BY JobStep DEF MigrationInvariant, NoJob
<1>2. RunnersTakeTurns'
  BY <1>1, TurnsKept DEF MigrationInvariant, RunnersTakeTurns
<1>3. RecordedInEffect => RecordedInEffect'
  BY <1>1 DEF RecordedInEffect, Newest
<1>4. RestInEffect => RestInEffect'
  BY <1>1 DEF RestInEffect, Migrating, Oldest
<1>5. RecordedOnce => RecordedOnce'
  BY <1>1 DEF RecordedOnce, Migrating
<1> QED
  BY <1>2, <1>3, <1>4, <1>5 DEF MigrationInvariant

-----------------------------------------------------------------------------

LEMMA MigrationInitially == MigrationInit => MigrationInvariant
<1> SUFFICES ASSUME MigrationInit
             PROVE  MigrationInvariant
  OBVIOUS
<1>1. \A r \in Runners : ~Migrating(r) /\ ~RollingBack(r)
  BY DEF MigrationInit, Migrating, RollingBack, NoJob
<1>2. RunnersTakeTurns
  BY <1>1 DEF MigrationInit, RunnersTakeTurns
<1>3. RecordedInEffect
  BY DEF MigrationInit, RecordedInEffect
<1>4. RestInEffect
  BY <1>1 DEF RestInEffect
<1>5. RecordedOnce
  BY <1>1 DEF MigrationInit, RecordedOnce
<1> QED
  BY <1>2, <1>3, <1>4, <1>5 DEF MigrationInvariant

LEMMA StartMigrateStep ==
  ASSUME MigrationInvariant, NEW r \in Runners, StartMigrate(r)
  PROVE  MigrationInvariant'
<1> USE DEF MigrationInvariant
<1>1. Versions \ Applied \in SUBSET Versions
  OBVIOUS
<1>2. PICK j \in Jobs \cup {NoJob} :
        /\ job' = [job EXCEPT ![r] = j]
        /\ j = NoJob \/ j = [at |-> "up", todo |-> Versions \ Applied]
  BY <1>1, ContinueStep DEF StartMigrate
<1>3. /\ job' \in [Runners -> Jobs \cup {NoJob}] /\ job'[r] = j /\ job[r] = NoJob
      /\ \A q \in Runners \ {r} : job'[q] = job[q]
  BY <1>2, JobStep DEF StartMigrate, MayStart
<1>4. ~overlap => \A q \in Runners : job[q] = NoJob
  BY DEF StartMigrate, MayStart, RunnersTakeTurns
<1>5. j.at \in {"idle", "up"}
  BY <1>2 DEF NoJob
<1>6. RunnersTakeTurns'
  BY <1>3, <1>4, <1>5 DEF StartMigrate, RunnersTakeTurns, RollingBack
<1>7. ASSUME overlap => ~reversed
      PROVE  RecordedInEffect' /\ RestInEffect' /\ RecordedOnce'
  <2>1. \A q \in Runners : job[q].at # "delete"
    BY <1>4, <1>7 DEF RunnersTakeTurns, RollingBack, NoJob
  <2>2. \A v \in Versions : records[v] > 0 => v \in inEffect \cup cut
    BY <1>7, <2>1 DEF RecordedInEffect
  <2>3. \A v \in Versions : v \in Applied \/ records[v] = 0
    BY DEF Applied, RunnersTakeTurns
  <2>4. RecordedInEffect'
    BY <2>2 DEF RecordedInEffect, StartMigrate
  <2>5. Migrating(r)' => job'[r].at = "up" /\ job'[r].todo = Versions \ Applied
    BY <1>2, <1>3 DEF Migrating, NoJob
  <2>6. Migrating(r)' => \A v \in Versions \ job'[r].todo : v \in inEffect \cup cut
    BY <2>2, <2>5 DEF Applied
  <2>7. RestInEffect'
    BY <1>3, <1>7, <2>5, <2>6 DEF RestInEffect, Migrating, Oldest, StartMigrate
  <2>8. RecordedOnce'
    BY <1>3, <1>7, <2>3, <2>5 DEF RecordedOnce, Migrating, StartMigrate
  <2> QED
    BY <2>4, <2>7, <2>8
<1> QED
  BY <1>6, <1>7 DEF StartMigrate

LEMMA UpStep ==
  ASSUME MigrationInvariant, NEW r \in Runners, Up(r)
  PROVE  MigrationInvariant'
<1> USE DEF MigrationInvariant
<1> DEFINE j == [job[r] EXCEPT !.at = "insert"]
<1>1. j \in Jobs /\ j.at = "insert" /\ j.todo = job[r].todo
  BY JobFields DEF Up, Jobs
<1>2. /\ job' = [job EXCEPT ![r] = j] /\ job'[r] = j
      /\ \A q \in Runners \ {r} : job'[q] = job[q]
  BY <1>1, JobStep DEF Up
<1>3. RunnersTakeTurns'
  BY <1>1, <1>2, TurnsKept DEF Up, RunnersTakeTurns
<1>4. inEffect \cup cut \subseteq inEffect' \cup cut' /\ inEffect \subseteq inEffect'
  BY DEF Up
<1>5. RecordedInEffect => RecordedInEffect'
  BY <1>1, <1>2, <1>4 DEF RecordedInEffect, Newest, Up
<1>6. Oldest(r)' = Oldest(r) /\ Oldest(r) \in inEffect'
  BY <1>1, <1>2 DEF Oldest, Up
<1>7. RestInEffect => RestInEffect'
  BY <1>1, <1>2, <1>4, <1>6 DEF RestInEffect, Migrating, Oldest, Up
<1>8. RecordedOnce => RecordedOnce'
  BY <1>1, <1>2 DEF RecordedOnce, Migrating, Up
<1> QED
  BY <1>3, <1>5, <1>7, <1>8 DEF Up

\* A record of the version whose up() has run, and the runner going on or
\* ending: what insertOne() does, whether or not the runner sees it succeed.
LEMMA RecordedStep ==
  ASSUME MigrationInvariant, NEW r \in Runners, job[r].at = "insert",
         NEW j \in Jobs \cup {NoJob}, job' = [job EXCEPT ![r] = j],
         j = NoJob \/ j = [at |-> "up", todo |-> job[r].todo \ {Oldest(r)}],
         records' = Recorded(Oldest(r)),
         UNCHANGED <<inEffect, overlap, reversed, cut>>
  PROVE  MigrationInvariant'
<1> USE DEF MigrationInvariant
<1>1. job'[r] = j /\ \A q \in Runners \ {r} : job'[q] = job[q]
  BY JobStep
<1>2. Oldest(r) \in job[r].todo /\ Oldest(r) \in Versions
  BY OldestIsLeast
<1>3. /\ records' \in [Versions -> Nat] /\ records'[Oldest(r)] = records[Oldest(r)] + 1
      /\ \A v \in Versions \ {Oldest(r)} : records'[v] = records[v]
  BY <1>2 DEF Recorded, RunnersTakeTurns
<1>4. j.at \in {"idle", "up"}
  BY DEF NoJob
<1>5. RunnersTakeTurns'
  BY <1>3, <1>4, TurnsKept
<1>6. ASSUME RecordedInEffect, RestInEffect
      PROVE  RecordedInEffect' /\ RestInEffect'
  <2>1. Oldest(r) \in inEffect
    BY <1>6 DEF RestInEffect, Migrating
  <2>2. RecordedInEffect'
    <3> SUFFICES ASSUME NEW v \in Versions, records'[v] > 0
                 PROVE  \/ v \in inEffect' \cup cut'
                        \/ \E q \in Runners : job'[q].at = "delete" /\ v = Newest(q)'
      BY DEF RecordedInEffect
    <3>1. CASE v = Oldest(r)
      BY <2>1, <3>1
    <3>2. CASE v # Oldest(r)
      BY <1>1, <1>3, <1>6, <3>2 DEF RecordedInEffect, Newest
    <3> QED
      BY <3>1, <3>2
  <2>3. RestInEffect'
    BY <1>1, <1>4, <1>6, <2>1 DEF RestInEffect, Migrating, Oldest, NoJob
  <2> QED
    BY <2>2, <2>3
<1>7. ASSUME RecordedOnce, ~overlap
      PROVE  RecordedOnce'
  <2>1. \A v \in Versions : records'[v] <= 1
    BY <1>2, <1>3, <1>7 DEF RecordedOnce, Migrating, RunnersTakeTurns
  <2>2. \A q \in Runners \ {r} : ~Migrating(q)'
    BY <1>1, <1>7, Alone DEF Migrating, NoJob
  <2>3. Migrating(r)' => \A v \in job'[r].todo : records'[v] = 0
    <3>1. job[r].todo \subseteq Versions /\ Migrating(r)
      BY JobFields DEF Migrating
    <3> QED
      BY <1>1, <1>3, <1>7, <3>1 DEF RecordedOnce, Migrating, NoJob
  <2> QED
    BY <1>7, <2>1, <2>2, <2>3 DEF RecordedOnce
<1> QED
  BY <1>5, <1>6, <1>7 DEF RecordedOnce

LEMMA InsertStep ==
  ASSUME MigrationInvariant, NEW r \in Runners, Insert(r) \/ InsertFails(r)
  PROVE  MigrationInvariant'
<1> USE DEF MigrationInvariant
<1>1. CASE Insert(r)
  <2>1. job[r].todo \ {Oldest(r)} \in SUBSET Versions
    BY <1>1, JobFields DEF Insert
  <2>2. \E j \in Jobs \cup {NoJob} :
          /\ job' = [job EXCEPT ![r] = j]
          /\ j = NoJob \/ j = [at |-> "up", todo |-> job[r].todo \ {Oldest(r)}]
    BY <1>1, <2>1, ContinueStep DEF Insert
  <2> QED
    BY <1>1, <2>2, RecordedStep DEF Insert
<1>2. CASE InsertFails(r) /\ records' = records
  BY <1>2, EndPreserves DEF InsertFails
<1>3. CASE InsertFails(r) /\ records' = Recorded(Oldest(r))
  BY <1>3, RecordedStep DEF InsertFails
<1> QED
  BY <1>1, <1>2, <1>3 DEF InsertFails

-----------------------------------------------------------------------------

LEMMA StartRollbackStep ==
  ASSUME MigrationInvariant, NEW r \in Runners, StartRollback(r)
  PROVE  MigrationInvariant'
<1> USE DEF MigrationInvariant
<1>1. PICK newest \in SUBSET Applied : newest # {} /\ Continue(r, "down", newest)
  BY DEF StartRollback
<1>2. newest \in SUBSET Versions
  BY DEF Applied
<1>3. PICK j \in Jobs \cup {NoJob} :
        /\ job' = [job EXCEPT ![r] = j]
        /\ j = NoJob \/ j = [at |-> "down", todo |-> newest]
  BY <1>1, <1>2, ContinueStep
<1>4. /\ job' \in [Runners -> Jobs \cup {NoJob}] /\ job'[r] = j /\ job[r] = NoJob
      /\ \A q \in Runners \ {r} : job'[q] = job[q]
  BY <1>3, JobStep DEF StartRollback, MayStart
<1>5. ~overlap => \A q \in Runners : job[q] = NoJob
  BY DEF StartRollback, MayStart, RunnersTakeTurns
<1>6. j.at \in {"idle", "down"}
  BY <1>3 DEF NoJob
<1>7. RunnersTakeTurns'
  BY <1>4, <1>5 DEF StartRollback, RunnersTakeTurns
<1>8. ASSUME ~overlap
      PROVE  RecordedInEffect' /\ RestInEffect' /\ RecordedOnce'
  <2>1. \A q \in Runners : ~Migrating(q)' /\ job[q].at = "idle"
    BY <1>4, <1>5, <1>6, <1>8 DEF Migrating, NoJob
  <2>2. RecordedInEffect'
    BY <1>8, <2>1 DEF RecordedInEffect, StartRollback
  <2>3. RecordedOnce'
    BY <1>8, <2>1 DEF RecordedOnce, StartRollback
  <2> QED
    BY <2>1, <2>2, <2>3 DEF RestInEffect
<1> QED
  BY <1>7, <1>8 DEF StartRollback

\* The loop of a rollback goes on without an effect.
LEMMA PassOverStep ==
  ASSUME MigrationInvariant, NEW r \in Runners, PassOver(r)
  PROVE  MigrationInvariant'
<1> USE DEF MigrationInvariant
<1>1. job[r].todo \ {Newest(r)} \in SUBSET Versions
  BY JobFields DEF PassOver
<1>2. PICK j \in Jobs \cup {NoJob} :
        /\ job' = [job EXCEPT ![r] = j]
        /\ j = NoJob \/ j = [at |-> "down", todo |-> job[r].todo \ {Newest(r)}]
  BY <1>1, ContinueStep DEF PassOver
<1>3. job'[r] = j /\ \A q \in Runners \ {r} : job'[q] = job[q]
  BY <1>2, JobStep
<1>4. j.at \in {"idle", "down"}
  BY <1>2 DEF NoJob
<1>5. RunnersTakeTurns'
  BY <1>2, <1>4, TurnsKept DEF PassOver, RollingBack, RunnersTakeTurns
<1>6. RecordedInEffect => RecordedInEffect'
  BY <1>3 DEF RecordedInEffect, Newest, PassOver
<1>7. RestInEffect => RestInEffect'
  BY <1>3, <1>4 DEF RestInEffect, Migrating, Oldest, PassOver
<1>8. RecordedOnce => RecordedOnce'
  BY <1>3, <1>4 DEF RecordedOnce, Migrating, PassOver
<1> QED
  BY <1>5, <1>6, <1>7, <1>8 DEF PassOver

\* When the invariant says something of the versions, who rolls back is alone.
LEMMA RollbackAlone ==
  ASSUME RunnersTakeTurns, overlap => ~reversed, NEW r \in Runners, RollingBack(r)
  PROVE  ~overlap /\ \A q \in Runners \ {r} : job[q] = NoJob
  BY Alone DEF RunnersTakeTurns, RollingBack

LEMMA DownStep ==
  ASSUME MigrationInvariant, NEW r \in Runners, Down(r)
  PROVE  MigrationInvariant'
<1> USE DEF MigrationInvariant
<1> DEFINE j == [job[r] EXCEPT !.at = "delete"]
<1>1. j \in Jobs /\ j.at = "delete" /\ j.todo = job[r].todo
  BY JobFields DEF Down, Jobs
<1>2. /\ job' = [job EXCEPT ![r] = j] /\ job'[r] = j
      /\ \A q \in Runners \ {r} : job'[q] = job[q]
  BY <1>1, JobStep DEF Down
<1>3. RollingBack(r)
  BY DEF Down, RollingBack
<1>4. RunnersTakeTurns'
  BY <1>1, <1>2, <1>3, TurnsKept DEF Down, RunnersTakeTurns
<1>5. ASSUME overlap => ~reversed
      PROVE  RecordedInEffect' /\ RestInEffect' /\ RecordedOnce'
  <2> HIDE DEF j
  <2>1. \A q \in Runners : ~Migrating(q)'
    BY <1>1, <1>2, <1>3, <1>5, RollbackAlone DEF Migrating, NoJob
  <2>2. \A q \in Runners : job[q].at # "delete"
    BY <1>3, <1>5, RollbackAlone DEF Down, NoJob
  <2>3. job'[r].at = "delete" /\ Newest(r)' = Newest(r)
    BY <1>1, <1>2 DEF Newest
  <2>4. RecordedInEffect'
    BY <1>5, <2>2, <2>3 DEF RecordedInEffect, Down
  <2>5. RecordedOnce'
    BY <1>5, <2>1 DEF RecordedOnce, Down
  <2> QED
    BY <2>1, <2>4, <2>5 DEF RestInEffect
<1> QED
  BY <1>4, <1>5 DEF Down

\* The runner at deleteOne() goes on or ends, its version's record gone or the
\* rollback noted as cut.
LEMMA DeletedStep ==
  ASSUME MigrationInvariant, NEW r \in Runners, job[r].at = "delete",
         NEW j \in Jobs \cup {NoJob}, job' = [job EXCEPT ![r] = j],
         j.at \in {"idle", "down"},
         UNCHANGED <<inEffect, overlap, reversed>>,
         \/ records' = Unrecorded(Newest(r)) /\ cut' = cut \ {Newest(r)}
         \/ records' = records /\ cut' = cut \cup {Newest(r)}
  PROVE  MigrationInvariant'
<1> USE DEF MigrationInvariant
<1>1. job'[r] = j /\ \A q \in Runners \ {r} : job'[q] = job[q]
  BY JobStep
<1>2. RollingBack(r)
  BY DEF RollingBack
<1>3. records' \in [Versions -> Nat] /\ \A v \in Versions : records'[v] <= records[v]
  BY DEF Unrecorded, RunnersTakeTurns
<1>4. RunnersTakeTurns'
  BY <1>2, <1>3, TurnsKept
<1>5. ASSUME overlap => ~reversed
      PROVE  RecordedInEffect' /\ RestInEffect' /\ RecordedOnce'
  <2>1. ~overlap /\ \A q \in Runners \ {r} : job[q] = NoJob
    BY <1>2, <1>5, RollbackAlone
  <2>2. \A q \in Runners : ~Migrating(q)'
    BY <1>1, <2>1 DEF Migrating, NoJob
  <2>3. \A v \in Versions : records[v] \in Nat /\ records[v] <= 1 /\ records'[v] \in Nat
    BY <1>3, <1>5, <2>1 DEF RecordedOnce, RunnersTakeTurns
  <2>4. \A v \in Versions : records[v] > 0 /\ v # Newest(r) => v \in inEffect \cup cut
    BY <1>5, <2>1 DEF RecordedInEffect, NoJob
  <2>5. ASSUME NEW v \in Versions, records'[v] > 0
        PROVE  v \in inEffect' \cup cut'
    <3>1. CASE records' = records /\ cut' = cut \cup {Newest(r)}
      BY <2>4, <2>5, <3>1
    <3>2. CASE records' = Unrecorded(Newest(r)) /\ cut' = cut \ {Newest(r)}
      <4>1. v # Newest(r)
        BY <2>3, <2>5, <3>2 DEF Unrecorded, RunnersTakeTurns
      <4>2. records[v] > 0
        BY <1>3, <2>3, <2>5
      <4> QED
        BY <2>4, <3>2, <4>1, <4>2
    <3> QED
      BY <3>1, <3>2
  <2>6. RecordedOnce'
    BY <1>3, <2>2, <2>3 DEF RecordedOnce
  <2> QED
    BY <2>2, <2>5, <2>6 DEF RecordedInEffect, RestInEffect
<1> QED
  BY <1>4, <1>5

LEMMA DeleteStep ==
  ASSUME MigrationInvariant, NEW r \in Runners, Delete(r) \/ DeleteFails(r)
  PROVE  MigrationInvariant'
<1> USE DEF MigrationInvariant
<1>1. CASE Delete(r)
  <2>1. job[r].todo \ {Newest(r)} \in SUBSET Versions
    BY <1>1, JobFields DEF Delete
  <2>2. PICK j \in Jobs \cup {NoJob} :
          /\ job' = [job EXCEPT ![r] = j]
          /\ j = NoJob \/ j = [at |-> "down", todo |-> job[r].todo \ {Newest(r)}]
    BY <1>1, <2>1, ContinueStep DEF Delete
  <2>3. j.at \in {"idle", "down"}
    BY <2>2 DEF NoJob
  <2> QED
    BY <1>1, <2>2, <2>3, DeletedStep DEF Delete
<1>2. CASE DeleteFails(r)
  <2>1. NoJob.at = "idle"
    BY DEF NoJob
  <2> QED
    BY <1>2, <2>1, DeletedStep DEF DeleteFails
<1> QED
  BY <1>1, <1>2

LEMMA MigrationStep ==
  ASSUME MigrationInvariant, [MigrationNext]_migrationVars
  PROVE  MigrationInvariant'
<1>1. ASSUME NEW r \in Runners, Migrate(r)
      PROVE  MigrationInvariant'
  <2>1. CASE UpFails(r)
    BY <2>1, EndPreserves DEF UpFails
  <2> QED
    BY <1>1, <2>1, StartMigrateStep, UpStep, InsertStep DEF Migrate
<1>2. ASSUME NEW r \in Runners, Rollback(r)
      PROVE  MigrationInvariant'
  <2>1. CASE DownFails(r)
    BY <2>1, EndPreserves DEF DownFails
  <2> QED
    BY <1>2, <2>1, StartRollbackStep, PassOverStep, DownStep, DeleteStep DEF Rollback
<1>3. CASE UNCHANGED migrationVars
  BY <1>3 DEF migrationVars, MigrationInvariant, RunnersTakeTurns, RecordedInEffect,
              RestInEffect, RecordedOnce, Migrating, RollingBack, Oldest, Newest
<1> QED
  BY <1>1, <1>2, <1>3 DEF MigrationNext

-----------------------------------------------------------------------------

\* What the order of the migrations rests on holds in every reachable state.
THEOREM MigrationInvariantHolds == MigrationSpec => []MigrationInvariant
<1> QED
  BY MigrationInitially, MigrationStep, PTL DEF MigrationSpec

\* Whatever runners fail, die or lose commands, the migrate() of
\* MigrationRunner runs an up() only when every earlier migration is in effect,
\* except one whose rollback was cut off, as long as runners take turns, or
\* overlap and only migrate.
THEOREM MigrationsInOrder == MigrationSpec => []EarlierInEffect
<1>1. MigrationInvariant => EarlierInEffect
  <2> SUFFICES ASSUME MigrationInvariant, overlap => ~reversed,
                      NEW r \in Runners, job[r].at = "up",
                      NEW v \in Versions, v < Oldest(r)
               PROVE  v \in inEffect \cup cut
    BY DEF EarlierInEffect
  <2>1. v \notin job[r].todo
    <3>1. Oldest(r) \in Nat /\ v \in Nat
      BY OldestIsLeast, MigrationsAssumption DEF MigrationInvariant
    <3> QED
      BY <3>1, OldestIsLeast DEF MigrationInvariant
  <2> QED
    BY <2>1 DEF MigrationInvariant, RestInEffect, Migrating
<1> QED
  BY <1>1, MigrationInvariantHolds, PTL

\* Newest takes the greatest version left.
LEMMA NewestIsLeft ==
  ASSUME RunnersTakeTurns, NEW r \in Runners, job[r].at # "idle"
  PROVE  Newest(r) \in job[r].todo /\ Newest(r) \in Versions
<1>1. job[r].todo # {} /\ job[r].todo \subseteq Versions
  BY JobFields
<1>2. job[r].todo \subseteq Nat /\ IsFiniteSet(job[r].todo)
  BY <1>1, MigrationsAssumption, FS_Subset
<1>3. \E n \in job[r].todo : \A m \in job[r].todo : n >= m
  BY <1>1, <1>2, GreatestExists
<1>4. Newest(r) \in job[r].todo
  BY <1>3 DEF Newest, Max
<1>5. QED
  BY <1>1, <1>4

\* Runners that may still record version v.
Awaiting(v) == {r \in Runners : Migrating(r) /\ v \in job[r].todo}

\* A version has no more records than runners found it missing at the same time.
RecordsBounded ==
  /\ inEffect \subseteq Versions /\ cut \subseteq Versions
  /\ \A v \in Versions : records[v] + Cardinality(Awaiting(v)) <= Cardinality(Runners)

LEMMA AwaitingFacts ==
  /\ Cardinality(Runners) \in Nat
  /\ \A S \in SUBSET Runners : \A T \in SUBSET S :
       Cardinality(T) <= Cardinality(S) /\ Cardinality(S) \in Nat /\ Cardinality(T) \in Nat
  /\ \A S \in SUBSET Runners : \A r \in S : \A T \in SUBSET (S \ {r}) :
       Cardinality(T) + 1 <= Cardinality(S)
<1>1. IsFiniteSet(Runners) /\ Cardinality(Runners) \in Nat
  BY MigrationsAssumption, FS_CardinalityType
<1>2. \A S \in SUBSET Runners : IsFiniteSet(S) /\ Cardinality(S) \in Nat
  BY <1>1, FS_Subset, FS_CardinalityType
<1>3. ASSUME NEW S \in SUBSET Runners, NEW T \in SUBSET S PROVE Cardinality(T) <= Cardinality(S)
  BY <1>2, FS_Subset
<1>4. ASSUME NEW S \in SUBSET Runners, NEW r \in S, NEW T \in SUBSET (S \ {r})
      PROVE  Cardinality(T) + 1 <= Cardinality(S)
  <2>1. Cardinality(S \ {r}) = Cardinality(S) - 1
    BY <1>2, FS_RemoveElement
  <2>2. S \ {r} \in SUBSET Runners /\ Cardinality(T) \in Nat /\ T \in SUBSET Runners
    BY <1>2
  <2>3. Cardinality(T) <= Cardinality(S \ {r})
    BY <1>3, <2>2
  <2>4. QED
    BY <1>2, <2>1, <2>2, <2>3
<1>5. QED
  BY <1>1, <1>2, <1>3, <1>4

LEMMA RecordsInitially == MigrationInit => RecordsBounded
<1> SUFFICES ASSUME MigrationInit PROVE RecordsBounded
  OBVIOUS
<1>1. \A v \in Versions : Awaiting(v) = {} /\ records[v] = 0
  BY DEF MigrationInit, Awaiting, Migrating, NoJob
<1>2. QED
  BY <1>1, AwaitingFacts, FS_EmptySet DEF MigrationInit, RecordsBounded

\* A runner that drops some of what it may record, and records none of it.
LEMMA NoneAwaits ==
  ASSUME MigrationInvariant, RecordsBounded,
         \A v \in Versions : Awaiting(v)' \subseteq Awaiting(v),
         records' \in [Versions -> Nat], \A v \in Versions : records'[v] <= records[v],
         inEffect' \subseteq Versions, cut' \subseteq Versions
  PROVE  RecordsBounded'
<1>1. ASSUME NEW v \in Versions
      PROVE  records'[v] + Cardinality(Awaiting(v)') <= Cardinality(Runners)
  <2>1. Awaiting(v) \in SUBSET Runners /\ Awaiting(v)' \in SUBSET Awaiting(v)
    BY DEF Awaiting
  <2>2. /\ Cardinality(Awaiting(v)') <= Cardinality(Awaiting(v))
        /\ Cardinality(Awaiting(v)) \in Nat /\ Cardinality(Awaiting(v)') \in Nat
    BY <2>1, AwaitingFacts
  <2>3. records[v] + Cardinality(Awaiting(v)) <= Cardinality(Runners)
    BY DEF RecordsBounded
  <2>4. records[v] \in Nat /\ records'[v] \in Nat /\ records'[v] <= records[v]
    BY DEF MigrationInvariant, RunnersTakeTurns
  <2>5. QED
    BY <2>2, <2>3, <2>4, AwaitingFacts
<1>2. QED
  BY <1>1 DEF RecordsBounded

\* What r leaves of its versions, when it goes on or ends.
LEMMA AwaitingStep ==
  ASSUME RunnersTakeTurns, NEW r \in Runners, NEW j \in Jobs \cup {NoJob},
         job' = [job EXCEPT ![r] = j],
         j.at \in {"up", "insert"} => Migrating(r) /\ j.todo \subseteq job[r].todo,
         NEW v \in Versions
  PROVE  Awaiting(v)' \subseteq Awaiting(v)
BY DEF RunnersTakeTurns, Awaiting, Migrating

LEMMA InsertedOnce ==
  ASSUME MigrationInvariant, RecordsBounded, NEW r \in Runners, Insert(r) \/ InsertFails(r)
  PROVE  RecordsBounded'
<1>0. PICK u : u = Oldest(r)
  OBVIOUS
<1>1. RunnersTakeTurns /\ job[r].at = "insert" /\ u \in job[r].todo /\ u \in Versions
      /\ job[r] \in Jobs /\ records \in [Versions -> Nat]
  BY <1>0, JobFields, OldestIsLeast DEF Insert, InsertFails, MigrationInvariant, RunnersTakeTurns
<1>2. PICK left \in SUBSET (job[r].todo \ {u}) :
        job' = [job EXCEPT ![r] = IF left = {} THEN NoJob ELSE [at |-> "up", todo |-> left]]
  <2>1. CASE Insert(r)
    BY <1>0, <2>1 DEF Insert, Continue
  <2>2. CASE InsertFails(r)
    <3>1. job' = [job EXCEPT ![r] = IF {} = {} THEN NoJob ELSE [at |-> "up", todo |-> {}]]
      BY <2>2 DEF InsertFails
    <3>2. QED
      BY <3>1
  <2>3. QED
    BY <2>1, <2>2
<1> DEFINE j == IF left = {} THEN NoJob ELSE [at |-> "up", todo |-> left]
<1>3. j \in Jobs \cup {NoJob} /\ j.todo \subseteq job[r].todo \ {u} /\ job' = [job EXCEPT ![r] = j]
  BY <1>1, <1>2 DEF Jobs, NoJob
<1> HIDE DEF j
<1>4. \A v \in Versions : Awaiting(v)' \subseteq Awaiting(v)
  BY <1>1, <1>3, AwaitingStep DEF Migrating
<1>5. r \in Awaiting(u) /\ r \notin Awaiting(u)'
  BY <1>1, <1>3 DEF Awaiting, Migrating, RunnersTakeTurns
<1>6. inEffect' \subseteq Versions /\ cut' \subseteq Versions
  BY DEF Insert, InsertFails, RecordsBounded
<1>7. CASE records' = records
  BY <1>1, <1>4, <1>6, <1>7, NoneAwaits
<1>8. CASE records' = [records EXCEPT ![u] = @ + 1]
  <2>1. ASSUME NEW v \in Versions
        PROVE  records'[v] + Cardinality(Awaiting(v)') <= Cardinality(Runners)
    <3>1. Awaiting(v) \in SUBSET Runners /\ Awaiting(v)' \in SUBSET Awaiting(v)
      BY <1>4 DEF Awaiting
    <3>2. records[v] + Cardinality(Awaiting(v)) <= Cardinality(Runners) /\ records[v] \in Nat
      BY <1>1 DEF RecordsBounded
    <3>3. /\ Cardinality(Awaiting(v)') <= Cardinality(Awaiting(v))
          /\ Cardinality(Awaiting(v)) \in Nat /\ Cardinality(Awaiting(v)') \in Nat
      BY <3>1, AwaitingFacts
    <3>4. CASE v = u
      <4>1. Cardinality(Awaiting(v)') + 1 <= Cardinality(Awaiting(v))
        BY <1>5, <3>1, <3>4, AwaitingFacts
      <4>2. records'[v] = records[v] + 1
        BY <1>1, <1>8, <3>4
      <4>3. QED
        BY <3>2, <3>3, <4>1, <4>2, AwaitingFacts
    <3>5. CASE v # u
      <4>1. records'[v] = records[v]
        BY <1>1, <1>8, <3>5
      <4>2. QED
        BY <3>2, <3>3, <4>1, AwaitingFacts
    <3>6. QED
      BY <3>4, <3>5
  <2>2. QED
    BY <1>6, <2>1 DEF RecordsBounded
<1>9. QED
  BY <1>0, <1>7, <1>8 DEF Insert, InsertFails, Recorded

\* Whoever begins to migrate will record only what has no record.
LEMMA MissingVersions ==
  ASSUME MigrationInvariant, RecordsBounded, NEW r \in Runners, StartMigrate(r)
  PROVE  RecordsBounded'
<1>1. records' = records /\ records \in [Versions -> Nat]
      /\ inEffect' \subseteq Versions /\ cut' \subseteq Versions /\ job \in [Runners -> Jobs \cup {NoJob}]
  BY DEF StartMigrate, RecordsBounded, MigrationInvariant, RunnersTakeTurns
<1>2. ASSUME NEW v \in Versions
      PROVE  records[v] + Cardinality(Awaiting(v)') <= Cardinality(Runners)
  <2>1. Awaiting(v) \in SUBSET Runners /\ Awaiting(v)' \in SUBSET Runners
    BY DEF Awaiting
  <2>2. records[v] + Cardinality(Awaiting(v)) <= Cardinality(Runners) /\ records[v] \in Nat
    BY <1>1 DEF RecordsBounded
  <2>3. Cardinality(Awaiting(v)') <= Cardinality(Runners) /\ Cardinality(Awaiting(v)') \in Nat
    BY <2>1, AwaitingFacts
  <2>4. CASE records[v] = 0
    BY <2>3, <2>4, AwaitingFacts
  <2>5. CASE records[v] # 0
    <3>1. v \notin Versions \ Applied
      BY <2>2, <2>5 DEF Applied
    <3>2. Awaiting(v)' \subseteq Awaiting(v)
      BY <1>1, <3>1 DEF Awaiting, Migrating, StartMigrate, Continue, NoJob
    <3>3. Cardinality(Awaiting(v)') <= Cardinality(Awaiting(v)) /\ Cardinality(Awaiting(v)) \in Nat
      BY <2>1, <3>2, AwaitingFacts
    <3>4. QED
      BY <2>2, <2>3, <3>3, AwaitingFacts
  <2>6. QED
    BY <2>4, <2>5
<1>3. QED
  BY <1>1, <1>2 DEF RecordsBounded

LEMMA RecordsStep ==
  ASSUME MigrationInvariant, RecordsBounded, [MigrationNext]_migrationVars
  PROVE  RecordsBounded'
<1>0. RunnersTakeTurns /\ records \in [Versions -> Nat] /\ inEffect \subseteq Versions
      /\ cut \subseteq Versions /\ job \in [Runners -> Jobs \cup {NoJob}]
  BY DEF MigrationInvariant, RunnersTakeTurns, RecordsBounded
<1>1. ASSUME NEW r \in Runners, Up(r) PROVE RecordsBounded'
  <2>1. Oldest(r) \in Versions /\ job[r] \in Jobs
    BY <1>0, <1>1, JobFields, OldestIsLeast DEF Up
  <2>2. [job[r] EXCEPT !.at = "insert"] \in Jobs /\ [job[r] EXCEPT !.at = "insert"].todo = job[r].todo
    BY <2>1 DEF Jobs
  <2>3. job' = [job EXCEPT ![r] = [job[r] EXCEPT !.at = "insert"]] /\ Migrating(r)
    BY <1>1 DEF Up, Migrating
  <2>4. \A v \in Versions : Awaiting(v)' \subseteq Awaiting(v)
    BY <1>0, <2>2, <2>3, AwaitingStep
  <2>5. QED
    BY <1>0, <1>1, <2>1, <2>4, NoneAwaits DEF Up
<1>2. ASSUME NEW r \in Runners, UpFails(r) PROVE RecordsBounded'
  <2>1. \A v \in Versions : Awaiting(v)' \subseteq Awaiting(v)
    BY <1>0, <1>2 DEF UpFails, Awaiting, Migrating, NoJob
  <2>2. QED
    BY <1>0, <1>2, <2>1, NoneAwaits DEF UpFails
<1>3. ASSUME NEW r \in Runners, Rollback(r) PROVE RecordsBounded'
  <2>1. \A v \in Versions : Awaiting(v)' \subseteq Awaiting(v)
    <3>1. \A todo : LET j == IF todo = {} THEN NoJob ELSE [at |-> "down", todo |-> todo]
                    IN  ~ (j.at \in {"up", "insert"})
      BY DEF NoJob
    <3>2. ~ ([job[r] EXCEPT !.at = "delete"].at \in {"up", "insert"}) \/ job[r].at = "idle"
      <4>1. job[r] \in Jobs \/ job[r] = NoJob
        BY <1>0
      <4>2. QED
        BY <4>1 DEF Jobs, NoJob
    <3>3. \E j : job' = [job EXCEPT ![r] = j] /\ ~ (j.at \in {"up", "insert"})
      BY <1>3, <3>1, <3>2 DEF Rollback, StartRollback, PassOver, Down, DownFails, Delete, DeleteFails,
         Continue, NoJob
    <3>4. QED
      BY <1>0, <3>3 DEF Awaiting, Migrating
  <2>2. \A v \in Versions : Unrecorded(v) \in [Versions -> Nat]
                            /\ \A w \in Versions : Unrecorded(v)[w] <= records[w]
    BY <1>0 DEF Unrecorded
  <2>3. job[r].at \in {"delete"} => Newest(r) \in Versions
    BY <1>0, JobFields, NewestIsLeft
  <2>4. /\ records' \in [Versions -> Nat] /\ \A w \in Versions : records'[w] <= records[w]
        /\ inEffect' \subseteq Versions /\ cut' \subseteq Versions
    BY <1>0, <1>3, <2>2, <2>3 DEF Rollback, StartRollback, PassOver, Down, DownFails, Delete, DeleteFails
  <2>5. QED
    BY <2>1, <2>4, NoneAwaits
<1>4. CASE UNCHANGED migrationVars
  BY <1>4 DEF migrationVars, RecordsBounded, Awaiting, Migrating
<1>5. QED
  BY <1>1, <1>2, <1>3, <1>4, InsertedOnce, MissingVersions DEF MigrationNext, Migrate

LEMMA MigrationInvTypes == MigrationInvariant /\ RecordsBounded => MigrationTypeOK
<1> SUFFICES ASSUME MigrationInvariant, RecordsBounded PROVE MigrationTypeOK
  OBVIOUS
<1>1. ASSUME NEW v \in Versions PROVE records[v] \in 0..Cardinality(Runners)
  <2>1. Awaiting(v) \in SUBSET Runners
    BY DEF Awaiting
  <2>2. Cardinality(Awaiting(v)) \in Nat
    BY <2>1, AwaitingFacts
  <2>3. QED
    BY <2>2, AwaitingFacts DEF RecordsBounded, MigrationInvariant, RunnersTakeTurns
<1>2. QED
  BY <1>1 DEF MigrationInvariant, RunnersTakeTurns, RecordsBounded, MigrationTypeOK


-----------------------------------------------------------------------------
\* Import cycles.

\* What the recursion of Reachable defines: the sets of nodes reached in at
\* most n + 1 steps.
Grown(g, E, v, N) ==
  g = [n \in 0..N |-> IF n = 0 THEN E[v]
                      ELSE g[n - 1] \cup UNION {E[w] : w \in g[n - 1]}]

LEMMA GrownExists == ASSUME NEW E, NEW v, NEW N \in Nat PROVE \E g : Grown(g, E, v, N)
<1> DEFINE Bad == {m \in Nat : ~ \E g : Grown(g, E, v, m)}
<1> SUFFICES ASSUME Bad # {} PROVE FALSE
  OBVIOUS
<1>1. PICK m \in Bad : \A k \in Bad : m <= k
  <2>1. Bad \subseteq Nat
    OBVIOUS
  <2>2. QED
    BY <2>1, LeastExists
<1>2. m \in Nat /\ ~ \E g : Grown(g, E, v, m)
  OBVIOUS
<1>3. CASE m = 0
  <2> DEFINE h == [n \in 0..0 |-> E[v]]
  <2>1. Grown(h, E, v, 0)
    BY DEF Grown
  <2>2. QED
    BY <1>2, <1>3, <2>1
<1>4. CASE m # 0
  <2>1. m - 1 \in Nat /\ m - 1 \notin Bad
    BY <1>1, <1>2, <1>4
  <2>2. PICK g : Grown(g, E, v, m - 1)
    BY <2>1
  <2> DEFINE h == [n \in 0..m |-> IF n = m THEN g[m - 1] \cup UNION {E[w] : w \in g[m - 1]} ELSE g[n]]
  <2>3. \A n \in 0..m : h[n] = IF n = 0 THEN E[v]
                      ELSE h[n - 1] \cup UNION {E[w] : w \in h[n - 1]}
    <3> TAKE n \in 0..m
    <3>1. CASE n = m
      <4>1. h[n - 1] = g[m - 1]
        BY <1>2, <1>4, <3>1
      <4>2. QED
        BY <4>1, <3>1, <1>4
    <3>2. CASE n # m
      <4>1. n \in 0..(m - 1)
        BY <1>2, <3>2
      <4>2. g[n] = IF n = 0 THEN E[v] ELSE g[n - 1] \cup UNION {E[w] : w \in g[n - 1]}
        BY <2>2, <4>1 DEF Grown
      <4>3. h[n] = g[n] /\ (n # 0 => h[n - 1] = g[n - 1])
        BY <1>2, <3>2, <4>1
      <4>4. QED
        BY <4>2, <4>3
    <3>3. QED
      BY <3>1, <3>2
  <2>4. h = [n \in 0..m |-> h[n]]
    OBVIOUS
  <2> HIDE DEF h
  <2>5. Grown(h, E, v, m)
    BY <2>3, <2>4 DEF Grown
  <2>6. QED
    BY <1>2, <2>5
<1>5. QED
  BY <1>3, <1>4

LEMMA ReachableIsGrown ==
  ASSUME NEW v
  PROVE  \E g : Grown(g, adj, v, Cardinality(Nodes)) /\ Reachable(v) = g[Cardinality(Nodes)]
<1>1. Cardinality(Nodes) \in Nat
  BY DetectorAssumption, FS_CardinalityType
<1>2. PICK h : Grown(h, adj, v, Cardinality(Nodes))
  BY <1>1, GrownExists
<1> DEFINE g == CHOOSE f : Grown(f, adj, v, Cardinality(Nodes))
<1>3. Grown(g, adj, v, Cardinality(Nodes))
  BY <1>2
<1>4. Reachable(v) = g[Cardinality(Nodes)]
  BY DEF Reachable, Grown
<1>5. QED
  BY <1>3, <1>4

\* Nothing is reached out of a set that no edge leaves.
LEMMA ReachableStaysIn ==
  ASSUME adj \in [Nodes -> SUBSET Nodes], NEW v \in Nodes, NEW S \in SUBSET Nodes,
         adj[v] \subseteq S, \A w \in S : adj[w] \subseteq S
  PROVE  Reachable(v) \subseteq S
<1> DEFINE N == Cardinality(Nodes)
<1>0. N \in Nat
  BY DetectorAssumption, FS_CardinalityType
<1>1. PICK g : Grown(g, adj, v, N) /\ Reachable(v) = g[N]
  BY ReachableIsGrown
<1> HIDE DEF N
<1>2. \A n \in 0..N : g[n] = IF n = 0 THEN adj[v]
                      ELSE g[n - 1] \cup UNION {adj[w] : w \in g[n - 1]}
  BY <1>1 DEF Grown
<1> DEFINE Bad == {n \in 0..N : ~ (g[n] \subseteq S)}
<1>3. CASE Bad = {}
  BY <1>0, <1>1, <1>3
<1>4. CASE Bad # {}
  <2>1. PICK m \in Bad : \A k \in Bad : m <= k
    <3>1. Bad \subseteq Nat
      OBVIOUS
    <3>2. QED
      BY <3>1, <1>4, LeastExists
  <2>2. m \in 0..N /\ m # 0
    BY <1>0, <1>2
  <2>3. m - 1 \in 0..N /\ g[m - 1] \subseteq S
    BY <1>0, <2>1, <2>2
  <2>4. g[m] = g[m - 1] \cup UNION {adj[w] : w \in g[m - 1]}
    BY <1>2, <2>2
  <2>5. g[m] \subseteq S
    BY <2>3, <2>4
  <2>6. QED
    BY <2>5
<1>5. QED
  BY <1>3, <1>4

\* The recursion goes as far as there is anything to reach: each round that
\* adds nothing is followed by such rounds only, and a round that adds adds
\* a node.
LEMMA ReachableIsClosed ==
  ASSUME adj \in [Nodes -> SUBSET Nodes], NEW v \in Nodes
  PROVE  /\ adj[v] \subseteq Reachable(v)
         /\ Reachable(v) \subseteq Nodes
         /\ \A w \in Reachable(v) : adj[w] \subseteq Reachable(v)
<1> DEFINE N == Cardinality(Nodes)
<1>0. N \in Nat /\ IsFiniteSet(Nodes)
  BY DetectorAssumption, FS_CardinalityType
<1>1. PICK g : Grown(g, adj, v, N) /\ Reachable(v) = g[N]
  BY ReachableIsGrown
<1>a. \A T \in SUBSET Nodes : IsFiniteSet(T) /\ Cardinality(T) \in Nat /\ Cardinality(T) <= N
  BY <1>0, FS_Subset, FS_CardinalityType
<1> HIDE DEF N
<1>2. \A n \in 0..N : g[n] = IF n = 0 THEN adj[v]
                      ELSE g[n - 1] \cup UNION {adj[w] : w \in g[n - 1]}
  BY <1>1 DEF Grown
<1> DEFINE Closed(T) == \A w \in T : adj[w] \subseteq T
           Good(n) == /\ adj[v] \subseteq g[n] /\ g[n] \subseteq Nodes
                      /\ Closed(g[n]) \/ Cardinality(g[n]) > n
           Bad == {n \in 0..N : ~ Good(n)}
<1>3. CASE Bad = {}
  <2>1. N \in 0..N
    BY <1>0
  <2>2. Good(N)
    BY <1>3, <2>1
  <2>3. Cardinality(g[N]) \in Nat /\ Cardinality(g[N]) <= N
    BY <1>a, <2>2
  <2>4. QED
    BY <1>0, <1>1, <2>2, <2>3
<1>4. CASE Bad # {}
  <2>1. PICK m \in Bad : \A k \in Bad : m <= k
    <3>1. Bad \subseteq Nat
      OBVIOUS
    <3>2. QED
      BY <3>1, <1>4, LeastExists
  <2>2. m \in 0..N /\ ~Good(m)
    OBVIOUS
  <2>3. CASE m = 0
    <3>1. g[0] = adj[v] /\ adj[v] \subseteq Nodes
      BY <1>2, <2>2, <2>3
    <3>2. CASE adj[v] = {}
      BY <2>2, <2>3, <3>1, <3>2
    <3>3. CASE adj[v] # {}
      <4>1. Cardinality(adj[v]) # 0
        BY <1>a, <3>1, <3>3, FS_EmptySet
      <4>2. QED
        BY <1>a, <2>2, <2>3, <3>1, <4>1
    <3>4. QED
      BY <3>2, <3>3
  <2>4. CASE m # 0
    <3>1. m - 1 \in 0..N /\ m - 1 \notin Bad
      BY <1>0, <2>1, <2>2, <2>4
    <3>2. Good(m - 1)
      BY <3>1
    <3>3. g[m] = g[m - 1] \cup UNION {adj[w] : w \in g[m - 1]}
      BY <1>2, <2>2, <2>4
    <3>4. adj[v] \subseteq g[m] /\ g[m] \subseteq Nodes /\ g[m - 1] \subseteq g[m]
      BY <3>2, <3>3
    <3>5. CASE Closed(g[m - 1])
      <4>1. g[m] = g[m - 1]
        BY <3>3, <3>5
      <4>2. QED
        BY <2>2, <3>4, <3>5, <4>1
    <3>6. CASE ~Closed(g[m - 1])
      <4>1. Cardinality(g[m - 1]) > m - 1
        BY <3>2, <3>6
      <4>2. g[m] # g[m - 1]
        BY <3>3, <3>6
      <4>3. Cardinality(g[m - 1]) < Cardinality(g[m])
        <5>1. /\ Cardinality(g[m - 1]) <= Cardinality(g[m])
              /\ Cardinality(g[m - 1]) # Cardinality(g[m])
          BY <1>a, <3>4, <4>2, FS_Subset
        <5>2. Cardinality(g[m - 1]) \in Nat /\ Cardinality(g[m]) \in Nat
          BY <1>a, <3>2, <3>4
        <5>3. QED
          BY <5>1, <5>2
      <4>4. Cardinality(g[m]) > m
        <5>1. Cardinality(g[m - 1]) \in Nat /\ Cardinality(g[m]) \in Nat /\ m \in Int
          BY <1>a, <1>0, <2>2, <3>2, <3>4
        <5>2. QED
          BY <4>1, <4>3, <5>1
      <4>5. QED
        BY <2>2, <3>4, <4>4
    <3>7. QED
      BY <3>5, <3>6
  <2>5. QED
    BY <2>3, <2>4
<1>5. QED
  BY <1>3, <1>4

\* What is reached from a node that is reached is reached.
LEMMA ReachableOnwards ==
  ASSUME adj \in [Nodes -> SUBSET Nodes], NEW u \in Nodes, NEW v \in Reachable(u)
  PROVE  v \in Nodes /\ Reachable(v) \subseteq Reachable(u)
<1>1. v \in Nodes /\ adj[v] \subseteq Reachable(u) /\ Reachable(u) \in SUBSET Nodes
  BY ReachableIsClosed
<1>2. QED
  BY <1>1, ReachableIsClosed, ReachableStaysIn
-----------------------------------------------------------------------------
\* The calls of strongconnect() in progress are the frames, the newest first.
Node(i) == frames[i].node
ReachEq(v, w) == w = v \/ w \in Reachable(v)
Gray(v) == \E i \in DOMAIN frames : Node(i) = v
Frame == [node : Nodes, left : SUBSET Nodes]

\* The variables have their types; an index is younger than those before it.
DetectorShape ==
  /\ adj \in [Nodes -> SUBSET Nodes]
  /\ frames \in Seq(Frame)
  /\ stack \in Seq(Nodes)
  /\ ToSet(stack) = onStack
  /\ indices \in [Nodes -> Int]
  /\ lowlinks \in [Nodes -> Int]
  /\ index \in Nat /\ index = Cardinality({v \in Nodes : Visited(v)})
  /\ \A v \in Nodes : indices[v] = Unvisited \/ indices[v] \in 0..index - 1
  /\ \A v \in Nodes : lowlinks[v] <= indices[v]

\* Callers are on the stack, and older than what they call.
CallsInOrder ==
  /\ \A i \in DOMAIN frames : Node(i) \in onStack /\ frames[i].left \subseteq adj[Node(i)]
  /\ \A i, j \in DOMAIN frames : i < j => indices[Node(i)] > indices[Node(j)]

\* The stack holds nodes in the order of their visits.
StackInOrder ==
  /\ \A v \in onStack : Visited(v)
  /\ \A i, j \in DOMAIN stack : i < j => indices[stack[i]] < indices[stack[j]]

\* Every neighbour a call is done with has been visited.
LookedUp ==
  /\ \A i \in DOMAIN frames : \A w \in adj[Node(i)] \ frames[i].left : Visited(w)
  /\ \A v \in Nodes : Visited(v) /\ ~Gray(v) => \A w \in adj[v] : Visited(w)

\* No edge leads from what has been popped to what has not.
PoppedIsClosed ==
  \A v \in Nodes : Visited(v) /\ v \notin onStack =>
    \A w \in adj[v] : Visited(w) /\ w \notin onStack

\* A call in progress reaches every younger node of the stack ...
CallsReachStack ==
  \A i \in DOMAIN frames : \A v \in onStack :
    indices[Node(i)] <= indices[v] => ReachEq(Node(i), v)

\* ... and every node of the stack reaches a call that is not younger.
StackReachesCalls ==
  \A v \in onStack : \E i \in DOMAIN frames :
    indices[Node(i)] <= indices[v] /\ ReachEq(v, Node(i))

\* The lowlink of a call is the index of a node of the stack it reaches ...
LowlinksReached ==
  \A i \in DOMAIN frames : \E w \in onStack :
    indices[w] = lowlinks[Node(i)] /\ ReachEq(Node(i), w)

\* ... and no edge it has looked at, of its own or of a call that has ended
\* since, leads lower on the stack.
LowlinksBound ==
  \A i \in DOMAIN frames :
    /\ \A w \in adj[Node(i)] \ frames[i].left :
         w \in onStack => lowlinks[Node(i)] <= indices[w]
    /\ \A v \in onStack :
         /\ indices[Node(i)] < indices[v]
         /\ \A j \in 1..i - 1 : indices[v] < indices[Node(j)]
         => \A w \in adj[v] \cap onStack : lowlinks[Node(i)] <= indices[w]

\* What is reported is right, and complete for the nodes popped.
Reported ==
  /\ sccs \subseteq Components
  /\ \A c \in Components : (\E v \in c : Visited(v) /\ v \notin onStack) => c \in sccs

DetectorInvariant ==
  /\ DetectorShape /\ CallsInOrder /\ StackInOrder /\ LookedUp /\ PoppedIsClosed
  /\ CallsReachStack /\ StackReachesCalls /\ LowlinksReached /\ LowlinksBound /\ Reported
LEMMA ReachEqTransitive ==
  ASSUME adj \in [Nodes -> SUBSET Nodes], NEW u \in Nodes, NEW v, NEW w,
         ReachEq(u, v), ReachEq(v, w)
  PROVE  ReachEq(u, w)
BY ReachableOnwards DEF ReachEq

LEMMA EdgeReached ==
  ASSUME adj \in [Nodes -> SUBSET Nodes], NEW u \in Nodes, NEW v, NEW w \in adj[v], ReachEq(u, v)
  PROVE  ReachEq(u, w)
BY ReachableIsClosed DEF ReachEq

\* The graph does not change.
LEMMA ReachKept == ASSUME adj' = adj
                   PROVE  /\ \A v : Reachable(v)' = Reachable(v)
                          /\ Components' = Components
                          /\ \A v, w : ReachEq(v, w)' = ReachEq(v, w)
<1>1. \A v : Reachable(v)' = Reachable(v)
  BY DEF Reachable
<1>2. QED
  BY <1>1 DEF Components, ReachEq

LEMMA DetectorInitially == DetectorInit => DetectorInvariant
<1> SUFFICES ASSUME DetectorInit PROVE DetectorInvariant
  OBVIOUS
<1>1. adj \in [Nodes -> SUBSET Nodes] /\ frames = << >> /\ stack = << >> /\ onStack = {}
  BY DEF DetectorInit
<1>2. /\ indices = [v \in Nodes |-> Unvisited] /\ lowlinks = [v \in Nodes |-> Unvisited]
      /\ index = 0 /\ sccs = {}
  BY DEF DetectorInit
<1>3. \A v \in Nodes : ~Visited(v)
  BY <1>2 DEF Visited
<1>4. {v \in Nodes : Visited(v)} = {}
  BY <1>3
<1>5. Cardinality({v \in Nodes : Visited(v)}) = 0
  BY <1>4, FS_EmptySet
<1>6. ToSet(stack) = {}
  BY <1>1 DEF ToSet
<1>7. DetectorShape
  BY <1>1, <1>2, <1>5, <1>6, <1>3 DEF DetectorShape, Unvisited
<1>8. \A c \in Components : \A v \in c : v \in Nodes
  BY <1>1, ReachableIsClosed DEF Components
<1>9. Reported
  BY <1>2, <1>3, <1>8 DEF Reported
<1>10. /\ CallsInOrder /\ StackInOrder /\ LookedUp /\ PoppedIsClosed
       /\ CallsReachStack /\ StackReachesCalls /\ LowlinksReached /\ LowlinksBound
  BY <1>1, <1>3 DEF CallsInOrder, StackInOrder, LookedUp, PoppedIsClosed,
     CallsReachStack, StackReachesCalls, LowlinksReached, LowlinksBound
<1>11. QED
  BY <1>7, <1>9, <1>10 DEF DetectorInvariant

-----------------------------------------------------------------------------

\* A call for a node that has no index yet, by callers that wait for it.
LEMMA EnterStep ==
  ASSUME DetectorInvariant, NEW v \in Nodes, ~Visited(v),
         NEW callers \in Seq(Frame), Len(callers) = Len(frames),
         \A i \in DOMAIN frames :
           /\ callers[i].node = Node(i) /\ callers[i].left \subseteq frames[i].left
           /\ frames[i].left \ callers[i].left \subseteq {v},
         frames # << >> => v \in adj[Node(1)],
         Enter(v, callers)
  PROVE  DetectorInvariant'
<1> USE DEF DetectorInvariant
<1> DEFINE top == [node |-> v, left |-> adj[v]]
<1>1. /\ adj' = adj /\ sccs' = sccs /\ index' = index + 1
      /\ onStack' = onStack \cup {v} /\ stack' = Append(stack, v)
      /\ frames' = << top >> \o callers
  BY DEF Enter
<1>2. /\ adj \in [Nodes -> SUBSET Nodes] /\ frames \in Seq(Frame) /\ index \in Nat
      /\ stack \in Seq(Nodes) /\ onStack \subseteq Nodes
  BY DEF DetectorShape, ToSet
<1>3. top \in Frame /\ top.node = v /\ top.left = adj[v]
  BY <1>2 DEF Frame
<1> HIDE DEF top
<1>4. /\ frames' \in Seq(Frame) /\ DOMAIN frames' = 1..Len(frames) + 1
      /\ frames'[1] = top
      /\ \A i \in 2..Len(frames) + 1 : frames'[i] = callers[i - 1]
  <2>1. << top >> \in Seq(Frame) /\ Len(<< top >>) = 1 /\ << top >>[1] = top
    BY <1>3
  <2>2. Len(frames) \in Nat
    BY <1>2, LenProperties
  <2>3. /\ frames' \in Seq(Frame) /\ Len(frames') = Len(frames) + 1
        /\ \A i \in 1..Len(frames) + 1 : frames'[i] = IF i <= 1 THEN << top >>[i] ELSE callers[i - 1]
    BY <1>1, <2>1, <2>2, ConcatProperties
  <2>4. DOMAIN frames' = 1..Len(frames) + 1
    BY <2>3, LenProperties
  <2>5. QED
    BY <2>1, <2>2, <2>3, <2>4
<1>5. Len(frames) \in Nat /\ DOMAIN frames = 1..Len(frames)
  BY <1>2, LenProperties
<1>6. /\ Node(1)' = v /\ frames'[1].left = adj[v]
      /\ \A i \in 2..Len(frames) + 1 :
           /\ i - 1 \in DOMAIN frames /\ Node(i)' = Node(i - 1)
           /\ frames'[i].left = callers[i - 1].left
  <2>1. Node(1)' = v /\ frames'[1].left = adj[v]
    BY <1>3, <1>4 DEF Node
  <2>2. \A i \in 2..Len(frames) + 1 : i - 1 \in DOMAIN frames
    BY <1>5
  <2>3. \A i \in 2..Len(frames) + 1 : frames'[i].node = Node(i - 1)
    BY <1>4, <2>2
  <2>4. QED
    BY <1>4, <2>1, <2>2, <2>3 DEF Node
<1>7. /\ indices' \in [Nodes -> Int] /\ lowlinks' \in [Nodes -> Int]
      /\ indices'[v] = index /\ lowlinks'[v] = index
      /\ \A w \in Nodes \ {v} : indices'[w] = indices[w] /\ lowlinks'[w] = lowlinks[w]
  BY <1>2 DEF Enter, DetectorShape
<1>8. \A w \in Nodes : Visited(w)' <=> Visited(w) \/ w = v
  BY <1>2, <1>7 DEF Visited, Unvisited
<1>9. \A w \in Nodes : Visited(w) => indices[w] \in 0..index - 1
  BY DEF DetectorShape, Visited
<1>10. v \notin onStack /\ \A w \in onStack : w \in Nodes /\ Visited(w)
  BY <1>2 DEF StackInOrder
<1>11. \A i \in DOMAIN frames : Node(i) \in onStack
  BY DEF CallsInOrder
<1>12. DetectorShape'
  <2>1. ToSet(stack') = onStack'
    <3>1. DOMAIN stack' = 1..Len(stack) + 1 /\ stack'[Len(stack) + 1] = v
          /\ \A i \in 1..Len(stack) : stack'[i] = stack[i]
      BY <1>1, <1>2, AppendProperties
    <3>2. Len(stack) \in Nat /\ DOMAIN stack = 1..Len(stack) /\ ToSet(stack) = onStack
      BY <1>2, LenProperties DEF DetectorShape
    <3>3. ToSet(stack') = {stack'[i] : i \in 1..Len(stack)} \cup {stack'[Len(stack) + 1]}
      BY <3>1, <3>2 DEF ToSet
    <3>4. {stack'[i] : i \in 1..Len(stack)} = onStack
      BY <3>1, <3>2 DEF ToSet
    <3>5. QED
      BY <1>1, <3>1, <3>3, <3>4
  <2>2. stack' \in Seq(Nodes)
    BY <1>1, <1>2, AppendProperties
  <2>3. Cardinality({w \in Nodes : Visited(w)'}) = index + 1
    <3>1. {w \in Nodes : Visited(w)'} = {w \in Nodes : Visited(w)} \cup {v}
      BY <1>8
    <3>2. IsFiniteSet({w \in Nodes : Visited(w)})
      BY DetectorAssumption, FS_Subset
    <3>3. QED
      BY <3>1, <3>2, FS_AddElement DEF DetectorShape
  <2>4. ASSUME NEW w \in Nodes PROVE indices'[w] = Unvisited \/ indices'[w] \in 0..index' - 1
    <3>1. CASE w = v
      BY <1>1, <1>2, <1>7, <3>1
    <3>2. CASE w # v
      <4>1. indices[w] = Unvisited \/ indices[w] \in 0..index - 1
        BY DEF DetectorShape
      <4>2. QED
        BY <1>1, <1>2, <1>7, <3>2, <4>1
    <3>3. QED
      BY <3>1, <3>2
  <2>5. ASSUME NEW w \in Nodes PROVE lowlinks'[w] <= indices'[w]
    <3>1. CASE w = v
      BY <1>2, <1>7, <3>1
    <3>2. CASE w # v
      <4>1. lowlinks[w] <= indices[w]
        BY DEF DetectorShape
      <4>2. QED
        BY <1>7, <3>2, <4>1
    <3>3. QED
      BY <3>1, <3>2
  <2>6. QED
    BY <1>1, <1>2, <1>4, <1>7, <2>1, <2>2, <2>3, <2>4, <2>5 DEF DetectorShape
<1>13. CallsInOrder'
  <2>1. ASSUME NEW i \in DOMAIN frames'
        PROVE  Node(i)' \in onStack' /\ frames'[i].left \subseteq adj'[Node(i)']
    <3>1. CASE i = 1
      BY <1>1, <1>6, <3>1
    <3>2. CASE i # 1
      <4>1. i \in 2..Len(frames) + 1
        BY <1>4, <1>5, <3>2
      <4>2. QED
        BY <1>1, <1>6, <4>1 DEF CallsInOrder
    <3>3. QED
      BY <3>1, <3>2
  <2>2. ASSUME NEW i \in DOMAIN frames', NEW j \in DOMAIN frames', i < j
        PROVE  indices'[Node(i)'] > indices'[Node(j)']
    <3>1. j \in 2..Len(frames) + 1
      BY <1>4, <1>5, <2>2
    <3>2. Node(j)' \in onStack /\ Node(j)' = Node(j - 1)
      BY <1>6, <1>11, <3>1
    <3>3. indices'[Node(j)'] = indices[Node(j - 1)] /\ indices[Node(j - 1)] \in 0..index - 1
      BY <1>7, <1>9, <1>10, <3>2
    <3>4. CASE i = 1
      BY <1>2, <1>6, <1>7, <3>3, <3>4
    <3>5. CASE i # 1
      <4>1. i \in 2..Len(frames) + 1
        BY <1>4, <1>5, <3>5
      <4>2. Node(i)' \in onStack /\ Node(i)' = Node(i - 1)
        BY <1>6, <1>11, <4>1
      <4>3. indices'[Node(i)'] = indices[Node(i - 1)]
        BY <1>7, <1>10, <4>2
      <4>4. indices[Node(i - 1)] > indices[Node(j - 1)]
        <5>1. i - 1 < j - 1
          BY <1>5, <2>2, <3>1, <4>1
        <5>2. i - 1 \in DOMAIN frames /\ j - 1 \in DOMAIN frames
          BY <1>6, <3>1, <4>1
        <5>3. QED
          BY <5>1, <5>2 DEF CallsInOrder
      <4>5. QED
        BY <3>3, <4>3, <4>4
    <3>6. QED
      BY <3>4, <3>5
  <2>3. QED
    BY <2>1, <2>2 DEF CallsInOrder
<1>14. StackInOrder'
  <2>1. DOMAIN stack' = 1..Len(stack) + 1 /\ stack'[Len(stack) + 1] = v
        /\ \A i \in 1..Len(stack) : stack'[i] = stack[i]
    BY <1>1, <1>2, AppendProperties
  <2>2. Len(stack) \in Nat /\ DOMAIN stack = 1..Len(stack) /\ ToSet(stack) = onStack
    BY <1>2, LenProperties DEF DetectorShape
  <2>3. \A i \in 1..Len(stack) : stack[i] \in onStack
    BY <2>2 DEF ToSet
  <2>4. \A i \in 1..Len(stack) : indices'[stack'[i]] = indices[stack[i]] /\ indices[stack[i]] \in 0..index - 1
    BY <1>7, <1>9, <1>10, <2>1, <2>3
  <2>5. ASSUME NEW i \in DOMAIN stack', NEW j \in DOMAIN stack', i < j
        PROVE  indices'[stack'[i]] < indices'[stack'[j]]
    <3>1. i \in 1..Len(stack)
      BY <2>1, <2>2, <2>5
    <3>2. CASE j = Len(stack) + 1
      <4>1. indices'[stack'[j]] = index
        BY <1>7, <2>1, <3>2
      <4>2. indices'[stack'[i]] \in 0..index - 1
        BY <2>4, <3>1
      <4>3. QED
        BY <1>2, <4>1, <4>2
    <3>3. CASE j # Len(stack) + 1
      <4>1. j \in 1..Len(stack)
        BY <2>1, <2>2, <3>3
      <4>2. QED
        BY <2>2, <2>4, <2>5, <3>1, <4>1 DEF StackInOrder
    <3>4. QED
      BY <3>2, <3>3
  <2>6. \A w \in onStack' : Visited(w)'
    BY <1>1, <1>8, <1>10
  <2>7. QED
    BY <2>5, <2>6 DEF StackInOrder
<1>15. LookedUp'
  <2>1. ASSUME NEW i \in DOMAIN frames', NEW w \in adj'[Node(i)'] \ frames'[i].left
        PROVE  Visited(w)'
    <3>1. i \in 2..Len(frames) + 1
      BY <1>1, <1>4, <1>5, <1>6
    <3>2. w \in adj[Node(i - 1)] /\ (w \notin frames[i - 1].left \/ w = v)
      BY <1>1, <1>6, <2>1, <3>1
    <3>3. w \in Nodes
      BY <1>2, <1>6, <1>10, <1>11, <3>1, <3>2
    <3>4. QED
      BY <1>6, <1>8, <3>1, <3>2, <3>3 DEF LookedUp
  <2>2. ASSUME NEW w \in Nodes, Visited(w)', ~Gray(w)' PROVE \A x \in adj'[w] : Visited(x)'
    <3>1. w # v
      BY <1>4, <1>5, <1>6, <2>2 DEF Gray
    <3>2. ~Gray(w)
      <4>1. SUFFICES ASSUME NEW i \in DOMAIN frames, Node(i) = w PROVE FALSE
        BY DEF Gray
      <4>2. i + 1 \in DOMAIN frames' /\ Node(i + 1)' = w
        BY <1>4, <1>5, <1>6, <4>1
      <4>3. QED
        BY <2>2, <4>2 DEF Gray
    <3>3. Visited(w)
      BY <1>8, <2>2, <3>1
    <3>4. QED
      BY <1>1, <1>2, <1>8, <3>2, <3>3 DEF LookedUp
  <2>3. QED
    BY <2>1, <2>2 DEF LookedUp
<1>16. PoppedIsClosed'
  BY <1>1, <1>2, <1>8, <1>10 DEF PoppedIsClosed
<1>17. CallsReachStack'
  <2>1. ASSUME NEW i \in DOMAIN frames', NEW w \in onStack', indices'[Node(i)'] <= indices'[w]
        PROVE  ReachEq(Node(i)', w)
    <3>1. CASE i = 1
      <4>1. w = v
        <5>1. ASSUME w # v PROVE FALSE
          <6>1. w \in onStack /\ indices'[w] = indices[w] /\ indices[w] \in 0..index - 1
            BY <1>1, <1>7, <1>9, <1>10, <5>1
          <6>2. QED
            BY <1>2, <1>6, <1>7, <2>1, <3>1, <6>1
        <5>2. QED
          BY <5>1
      <4>2. QED
        BY <1>6, <3>1, <4>1 DEF ReachEq
    <3>2. CASE i # 1
      <4>1. i \in 2..Len(frames) + 1 /\ i - 1 \in DOMAIN frames /\ Node(i)' = Node(i - 1)
        BY <1>4, <1>5, <1>6, <3>2
      <4>2. Node(i - 1) \in onStack /\ Node(i - 1) \in Nodes
        BY <1>10, <1>11, <4>1
      <4>3. CASE w = v
        <5>1. 1 \in DOMAIN frames /\ frames # << >>
          BY <1>5, <4>1
        <5>2. Node(1) \in onStack /\ indices[Node(i - 1)] <= indices[Node(1)]
          <6>1. CASE i - 1 = 1
            BY <1>11, <5>1, <6>1, <1>2, <4>2, <1>9, <1>10
          <6>2. CASE i - 1 # 1
            <7>1. 1 < i - 1
              BY <1>5, <4>1, <6>2
            <7>2. indices[Node(1)] > indices[Node(i - 1)]
              BY <4>1, <5>1, <7>1 DEF CallsInOrder
            <7>3. indices[Node(1)] \in Int /\ indices[Node(i - 1)] \in Int
              BY <1>9, <1>10, <1>11, <4>2, <5>1
            <7>4. QED
              BY <1>11, <5>1, <7>2, <7>3
          <6>3. QED
            BY <6>1, <6>2
        <5>3. ReachEq(Node(i - 1), Node(1))
          BY <4>1, <5>2 DEF CallsReachStack
        <5>4. v \in adj[Node(1)]
          BY <5>1
        <5>5. QED
          BY <1>2, <4>1, <4>2, <4>3, <5>3, <5>4, EdgeReached
      <4>4. CASE w # v
        <5>1. w \in onStack /\ indices'[w] = indices[w] /\ indices'[Node(i)'] = indices[Node(i - 1)]
          BY <1>1, <1>7, <1>10, <4>1, <4>2, <4>4
        <5>2. QED
          BY <2>1, <4>1, <5>1 DEF CallsReachStack
      <4>5. QED
        BY <4>3, <4>4
    <3>3. QED
      BY <3>1, <3>2
  <2>2. QED
    BY <1>1, <2>1, ReachKept DEF CallsReachStack
<1>18. StackReachesCalls'
  <2>1. ASSUME NEW w \in onStack'
        PROVE  \E i \in DOMAIN frames' : indices'[Node(i)'] <= indices'[w] /\ ReachEq(w, Node(i)')
    <3>1. CASE w = v
      <4>1. 1 \in DOMAIN frames' /\ indices'[Node(1)'] <= indices'[w] /\ ReachEq(w, Node(1)')
        BY <1>2, <1>4, <1>5, <1>6, <1>7, <3>1 DEF ReachEq
      <4>2. QED
        BY <4>1
    <3>2. CASE w # v
      <4>1. w \in onStack
        BY <1>1, <3>2
      <4>2. PICK i \in DOMAIN frames : indices[Node(i)] <= indices[w] /\ ReachEq(w, Node(i))
        BY <4>1 DEF StackReachesCalls
      <4>3. i + 1 \in 2..Len(frames) + 1 /\ Node(i + 1)' = Node(i)
        BY <1>5, <1>6
      <4>4. indices'[Node(i)] = indices[Node(i)] /\ indices'[w] = indices[w]
        BY <1>7, <1>10, <1>11, <4>1
      <4>5. i + 1 \in DOMAIN frames' /\ indices'[Node(i + 1)'] <= indices'[w] /\ ReachEq(w, Node(i + 1)')
        BY <1>4, <1>5, <4>2, <4>3, <4>4
      <4>6. QED
        BY <4>5
    <3>3. QED
      BY <3>1, <3>2
  <2>2. QED
    BY <1>1, <2>1, ReachKept DEF StackReachesCalls
<1>19. LowlinksReached'
  <2>1. ASSUME NEW i \in DOMAIN frames'
        PROVE  \E w \in onStack' : indices'[w] = lowlinks'[Node(i)'] /\ ReachEq(Node(i)', w)
    <3>1. CASE i = 1
      BY <1>1, <1>6, <1>7, <3>1 DEF ReachEq
    <3>2. CASE i # 1
      <4>1. i \in 2..Len(frames) + 1 /\ i - 1 \in DOMAIN frames /\ Node(i)' = Node(i - 1)
        BY <1>4, <1>5, <1>6, <3>2
      <4>2. PICK w \in onStack : indices[w] = lowlinks[Node(i - 1)] /\ ReachEq(Node(i - 1), w)
        BY <4>1 DEF LowlinksReached
      <4>3. indices'[w] = indices[w] /\ lowlinks'[Node(i - 1)] = lowlinks[Node(i - 1)]
        BY <1>7, <1>10, <1>11, <4>1
      <4>4. QED
        BY <1>1, <4>1, <4>2, <4>3
    <3>3. QED
      BY <3>1, <3>2
  <2>2. QED
    BY <1>1, <2>1, ReachKept DEF LowlinksReached
<1>20. LowlinksBound'
  <2>1. \A i \in 2..Len(frames) + 1 :
          /\ lowlinks'[Node(i)'] = lowlinks[Node(i - 1)] /\ lowlinks[Node(i - 1)] <= index
          /\ indices'[Node(i)'] = indices[Node(i - 1)]
    <3> TAKE i \in 2..Len(frames) + 1
    <3>1. Node(i)' = Node(i - 1) /\ Node(i - 1) \in Nodes \ {v} /\ indices[Node(i - 1)] \in 0..index - 1
      BY <1>6, <1>9, <1>10, <1>11
    <3>2. lowlinks[Node(i - 1)] <= indices[Node(i - 1)] /\ lowlinks[Node(i - 1)] \in Int
      BY <3>1 DEF DetectorShape
    <3>3. QED
      BY <1>2, <1>7, <3>1, <3>2
  <2>2. ASSUME NEW i \in DOMAIN frames', NEW w \in adj'[Node(i)'] \ frames'[i].left, w \in onStack'
        PROVE  lowlinks'[Node(i)'] <= indices'[w]
    <3>1. i \in 2..Len(frames) + 1
      BY <1>1, <1>4, <1>5, <1>6
    <3>2. CASE w = v
      BY <1>7, <2>1, <3>1, <3>2
    <3>3. CASE w # v
      <4>1. w \in onStack /\ w \in adj[Node(i - 1)] \ frames[i - 1].left /\ indices'[w] = indices[w]
        BY <1>1, <1>6, <1>7, <1>10, <2>2, <3>1, <3>3
      <4>2. QED
        BY <1>6, <2>1, <3>1, <4>1 DEF LowlinksBound
    <3>4. QED
      BY <3>2, <3>3
  <2>3. ASSUME NEW i \in DOMAIN frames', NEW u \in onStack', indices'[Node(i)'] < indices'[u],
               \A j \in 1..i - 1 : indices'[u] < indices'[Node(j)'],
               NEW w \in adj'[u] \cap onStack'
        PROVE  lowlinks'[Node(i)'] <= indices'[w]
    <3>1. CASE i = 1
      <4>1. u # v
        BY <1>2, <1>6, <1>7, <2>3, <3>1
      <4>2. indices'[u] \in 0..index - 1
        BY <1>1, <1>7, <1>9, <1>10, <4>1
      <4>3. QED
        BY <1>2, <1>6, <1>7, <2>3, <3>1, <4>2
    <3>2. CASE i # 1
      <4>1. i \in 2..Len(frames) + 1
        BY <1>4, <1>5, <3>2
      <4>2. CASE w = v
        BY <1>7, <2>1, <4>1, <4>2
      <4>3. CASE w # v
        <5>1. u # v
          <6>1. 1 \in 1..i - 1
            BY <1>5, <4>1
          <6>2. indices'[u] < index
            BY <1>6, <1>7, <2>3, <6>1
          <6>3. QED
            BY <1>2, <1>7, <6>2
        <5>2. u \in onStack /\ w \in adj[u] \cap onStack /\ indices'[u] = indices[u] /\ indices'[w] = indices[w]
          BY <1>1, <1>7, <1>10, <2>3, <4>3, <5>1
        <5>3. \A j \in 1..(i - 1) - 1 : indices[u] < indices[Node(j)]
          <6> TAKE j \in 1..(i - 1) - 1
          <6>1. j + 1 \in 1..i - 1 /\ j + 1 \in 2..Len(frames) + 1 /\ (j + 1) - 1 = j
            BY <1>5, <4>1
          <6>2. indices'[Node(j + 1)'] = indices[Node(j)]
            BY <2>1, <6>1
          <6>3. QED
            BY <2>3, <5>2, <6>1, <6>2
        <5>4. indices[Node(i - 1)] < indices[u] /\ i - 1 \in DOMAIN frames
          BY <1>6, <2>1, <2>3, <4>1, <5>2
        <5>5. lowlinks[Node(i - 1)] <= indices[w]
          BY <5>2, <5>3, <5>4 DEF LowlinksBound
        <5>6. QED
          BY <2>1, <4>1, <5>2, <5>5
      <4>4. QED
        BY <4>2, <4>3
    <3>3. QED
      BY <3>1, <3>2
  <2>4. QED
    BY <2>2, <2>3 DEF LowlinksBound
<1>21. Reported'
  <2>1. \A c \in Components : c \subseteq Nodes
    BY <1>2, ReachableIsClosed DEF Components
  <2>2. QED
    BY <1>1, <1>8, <2>1, ReachKept DEF Reported
<1>22. QED
  BY <1>12, <1>13, <1>14, <1>15, <1>16, <1>17, <1>18, <1>19, <1>20, <1>21

-----------------------------------------------------------------------------

\* A call looks at a neighbour that has an index.
LEMMA LookBackStep ==
  ASSUME DetectorInvariant, NEW x \in Nodes, LookBack(x)
  PROVE  DetectorInvariant'
<1> USE DEF DetectorInvariant
<1> DEFINE v == Node(1)
<1>1. /\ adj' = adj /\ sccs' = sccs /\ index' = index /\ onStack' = onStack
      /\ stack' = stack /\ indices' = indices /\ Visited(x) /\ frames # << >>
  BY DEF LookBack
<1>2. /\ adj \in [Nodes -> SUBSET Nodes] /\ frames \in Seq(Frame) /\ onStack \subseteq Nodes
      /\ indices \in [Nodes -> Int] /\ lowlinks \in [Nodes -> Int]
  BY DEF DetectorShape, ToSet
<1>3. Len(frames) \in Nat /\ DOMAIN frames = 1..Len(frames) /\ 1 \in DOMAIN frames
  BY <1>1, <1>2, LenProperties, EmptySeq
<1>4. Head(frames) = frames[1] /\ Current = v /\ v \in Nodes /\ v \in onStack
  BY <1>2, <1>3 DEF Current, Node, CallsInOrder
<1>5. x \in frames[1].left /\ frames[1] \in Frame
  BY <1>2, <1>3, <1>4 DEF LookBack
<1>6. /\ frames' \in Seq(Frame) /\ DOMAIN frames' = DOMAIN frames
      /\ \A i \in DOMAIN frames : Node(i)' = Node(i)
      /\ frames'[1].left = frames[1].left \ {x}
      /\ \A i \in DOMAIN frames \ {1} : frames'[i].left = frames[i].left
  <2> DEFINE f == [frames[1] EXCEPT !.left = frames[1].left \ {x}]
  <2>1. f \in Frame /\ f.node = frames[1].node /\ f.left = frames[1].left \ {x}
    BY <1>5 DEF Frame
  <2>2. frames' = [frames EXCEPT ![1] = f]
    BY DEF LookBack, LookedAt
  <2> HIDE DEF f
  <2>3. /\ frames' \in Seq(Frame) /\ Len(frames') = Len(frames)
        /\ \A i \in 1..Len(frames) : frames'[i] = IF i = 1 THEN f ELSE frames[i]
    BY <1>2, <1>3, <2>1, <2>2, ExceptSeq
  <2>4. DOMAIN frames' = DOMAIN frames
    BY <1>3, <2>3, LenProperties
  <2>5. QED
    BY <1>3, <2>1, <2>3, <2>4 DEF Node
<1> HIDE DEF v
<1>7. /\ lowlinks' \in [Nodes -> Int]
      /\ \A w \in Nodes \ {v} : lowlinks'[w] = lowlinks[w]
      /\ lowlinks'[v] <= lowlinks[v]
      /\ x \in onStack => lowlinks'[v] <= indices[x]
      /\ lowlinks'[v] = lowlinks[v] \/ (x \in onStack /\ lowlinks'[v] = indices[x])
  <2>1. indices[x] \in Int /\ lowlinks[v] \in Int
    BY <1>2, <1>4
  <2>2. CASE x \in onStack
    <3>1. lowlinks' = [lowlinks EXCEPT ![v] = IF indices[x] < lowlinks[v] THEN indices[x] ELSE lowlinks[v]]
      BY <1>4, <2>2 DEF LookBack, BackEdge, Lower
    <3>2. QED
      BY <1>2, <1>4, <2>1, <2>2, <3>1
  <2>3. CASE x \notin onStack
    <3>1. lowlinks' = lowlinks
      BY <2>3 DEF LookBack, BackEdge
    <3>2. QED
      BY <1>2, <2>1, <2>3, <3>1
  <2>4. QED
    BY <2>2, <2>3
<1>8. \A w \in Nodes : Visited(w)' = Visited(w)
  BY <1>1 DEF Visited
<1>9. x \in adj[v]
  BY <1>3, <1>5 DEF CallsInOrder, v
<1>10. \A i \in DOMAIN frames : Node(i) \in Nodes /\ (i # 1 => Node(i) # v)
  <2>1. ASSUME NEW i \in DOMAIN frames, i # 1 PROVE Node(i) # v
    <3>1. indices[Node(1)] > indices[Node(i)]
      BY <1>3, <2>1 DEF CallsInOrder
    <3>2. Node(1) \in Nodes /\ indices[Node(1)] \in Int
      BY <1>2, <1>4 DEF v
    <3>3. QED
      BY <3>1, <3>2 DEF v
  <2>2. QED
    BY <1>2, <2>1 DEF CallsInOrder
<1>11. DetectorShape'
  <2>1. \A w \in Nodes : lowlinks'[w] <= indices'[w]
    <3> TAKE w \in Nodes
    <3>1. lowlinks[w] <= indices[w] /\ lowlinks[w] \in Int /\ indices[w] \in Int /\ lowlinks'[w] \in Int
      BY <1>2, <1>7 DEF DetectorShape
    <3>2. lowlinks'[w] <= lowlinks[w]
      BY <1>7, <3>1
    <3>3. QED
      BY <1>1, <3>1, <3>2
  <2>2. index' = Cardinality({w \in Nodes : Visited(w)'})
    BY <1>1, <1>8 DEF DetectorShape
  <2>3. QED
    BY <1>1, <1>2, <1>6, <1>7, <2>1, <2>2 DEF DetectorShape
<1>12. CallsInOrder'
  BY <1>1, <1>3, <1>6 DEF CallsInOrder, Node
<1>13. StackInOrder'
  BY <1>1, <1>2, <1>8 DEF StackInOrder
<1>14. LookedUp'
  <2>1. \A w \in Nodes : Gray(w)' = Gray(w)
    BY <1>6 DEF Gray
  <2>2. ASSUME NEW i \in DOMAIN frames, NEW w \in adj[Node(i)] \ frames'[i].left PROVE Visited(w)
    BY <1>1, <1>6, <2>2 DEF LookedUp
  <2>3. \A v0 \in Nodes : adj[v0] \subseteq Nodes
    BY <1>2
  <2>4. QED
    BY <1>1, <1>6, <1>8, <1>10, <2>1, <2>2, <2>3 DEF LookedUp
<1>15. PoppedIsClosed'
  BY <1>1, <1>2, <1>8 DEF PoppedIsClosed
<1>16. CallsReachStack'
  BY <1>1, <1>6, ReachKept DEF CallsReachStack
<1>17. StackReachesCalls'
  BY <1>1, <1>6, ReachKept DEF StackReachesCalls
<1>18. LowlinksReached'
  <2>1. ASSUME NEW i \in DOMAIN frames
        PROVE  \E w \in onStack : indices[w] = lowlinks'[Node(i)] /\ ReachEq(Node(i), w)
    <3>1. CASE lowlinks'[Node(i)] = lowlinks[Node(i)]
      BY <3>1 DEF LowlinksReached
    <3>2. CASE lowlinks'[Node(i)] # lowlinks[Node(i)]
      <4>1. Node(i) = v /\ x \in onStack /\ lowlinks'[v] = indices[x]
        BY <1>7, <1>10, <3>2
      <4>2. ReachEq(v, x)
        BY <1>2, <1>4, <1>9, EdgeReached DEF ReachEq
      <4>3. QED
        BY <4>1, <4>2
    <3>3. QED
      BY <3>1, <3>2
  <2>2. QED
    BY <1>1, <1>6, <2>1, ReachKept DEF LowlinksReached
<1>19. LowlinksBound'
  <2>1. ASSUME NEW i \in DOMAIN frames
        PROVE  lowlinks'[Node(i)] <= lowlinks[Node(i)] /\ lowlinks'[Node(i)] \in Int /\ lowlinks[Node(i)] \in Int
    BY <1>2, <1>7, <1>10
  <2>2. ASSUME NEW i \in DOMAIN frames, NEW w \in adj[Node(i)] \ frames'[i].left, w \in onStack
        PROVE  lowlinks'[Node(i)] <= indices[w]
    <3>1. CASE i = 1 /\ w = x
      BY <1>7, <2>2, <3>1 DEF v
    <3>2. CASE ~(i = 1 /\ w = x)
      <4>1. w \in adj[Node(i)] \ frames[i].left
        BY <1>6, <2>2, <3>2
      <4>2. lowlinks[Node(i)] <= indices[w]
        BY <2>2, <4>1 DEF LowlinksBound
      <4>3. indices[w] \in Int
        BY <1>2, <2>2
      <4>4. QED
        BY <2>1, <4>2, <4>3
    <3>3. QED
      BY <3>1, <3>2
  <2>3. ASSUME NEW i \in DOMAIN frames, NEW u \in onStack, indices[Node(i)] < indices[u],
               \A j \in 1..i - 1 : indices[u] < indices[Node(j)], NEW w \in adj[u] \cap onStack
        PROVE  lowlinks'[Node(i)] <= indices[w]
    <3>1. lowlinks[Node(i)] <= indices[w]
      BY <2>3 DEF LowlinksBound
    <3>2. indices[w] \in Int
      BY <1>2
    <3>3. QED
      BY <2>1, <3>1, <3>2
  <2>4. \A i \in DOMAIN frames : \A j \in 1..i - 1 : j \in DOMAIN frames
    BY <1>3
  <2>5. QED
    BY <1>1, <1>6, <2>2, <2>3, <2>4 DEF LowlinksBound
<1>20. Reported'
  <2>1. \A c \in Components : c \subseteq Nodes
    BY <1>2, ReachableIsClosed DEF Components
  <2>2. QED
    BY <1>1, <1>8, <2>1, ReachKept DEF Reported
<1>21. QED
  BY <1>11, <1>12, <1>13, <1>14, <1>15, <1>16, <1>17, <1>18, <1>19, <1>20

-----------------------------------------------------------------------------
\* The end of a call.

\* The components of a node that is in one are the same.
Mutual(v) == {w \in Reachable(v) : v \in Reachable(w)}

LEMMA MutualIsShared ==
  ASSUME adj \in [Nodes -> SUBSET Nodes], NEW u \in Nodes, NEW v \in Mutual(u)
  PROVE  v \in Nodes /\ u \in Mutual(v) /\ Mutual(v) = Mutual(u)
<1>1. v \in Reachable(u) /\ u \in Reachable(v) /\ v \in Nodes
  BY ReachableOnwards DEF Mutual
<1>2. Reachable(v) = Reachable(u)
  BY <1>1, ReachableOnwards
<1>3. \A w : u \in Reachable(w) /\ w \in Nodes <=> v \in Reachable(w) /\ w \in Nodes
  BY <1>1, ReachableOnwards
<1>4. Reachable(u) \subseteq Nodes
  BY ReachableIsClosed
<1>5. QED
  BY <1>1, <1>2, <1>3, <1>4 DEF Mutual

\* The call that is at its end: what it has on the stack is what its root pops.
LeavingRoot ==
  /\ frames # << >> /\ Head(frames).left = {}
  /\ lowlinks[Current] = indices[Current]

LEMMA TopCall ==
  ASSUME DetectorInvariant, frames # << >>
  PROVE  /\ Current = Node(1) /\ Head(frames) = frames[1] /\ 1 \in DOMAIN frames
         /\ DOMAIN frames = 1..Len(frames) /\ Len(frames) \in Nat
         /\ Current \in onStack /\ Current \in Nodes /\ onStack \subseteq Nodes
         /\ \A i \in DOMAIN frames : Node(i) \in onStack
         /\ \A w \in Nodes : indices[w] \in Int /\ lowlinks[w] \in Int
         /\ \A i \in DOMAIN frames : i # 1 => indices[Node(i)] < indices[Current]
<1> USE DEF DetectorInvariant
<1>1. frames \in Seq(Frame) /\ onStack \subseteq Nodes
  BY DEF DetectorShape, ToSet
<1>2. DOMAIN frames = 1..Len(frames) /\ Len(frames) \in Nat /\ 1 \in DOMAIN frames
  BY <1>1, LenProperties, EmptySeq
<1>3. Head(frames) = frames[1] /\ Current = Node(1)
  BY <1>1, <1>2 DEF Current, Node
<1>4. \A i \in DOMAIN frames : Node(i) \in onStack
  BY DEF CallsInOrder
<1>5. \A w \in Nodes : indices[w] \in Int /\ lowlinks[w] \in Int
  BY DEF DetectorShape
<1>6. \A i \in DOMAIN frames : i # 1 => indices[Node(i)] < indices[Current]
  <2> TAKE i \in DOMAIN frames
  <2> HAVE i # 1
  <2>1. 1 < i
    BY <1>2
  <2>2. indices[Node(1)] > indices[Node(i)]
    BY <1>2, <2>1 DEF CallsInOrder
  <2>3. indices[Node(1)] \in Int /\ indices[Node(i)] \in Int
    BY <1>1, <1>2, <1>4, <1>5
  <2>4. QED
    BY <1>3, <2>2, <2>3
<1>7. QED
  BY <1>1, <1>2, <1>3, <1>4, <1>5, <1>6

\* Each node of the stack has an index of its own.
LEMMA SameIndex ==
  ASSUME DetectorInvariant, NEW v \in onStack, NEW w \in onStack, indices[v] = indices[w]
  PROVE  v = w
<1>1. PICK k \in DOMAIN stack, j \in DOMAIN stack : stack[k] = v /\ stack[j] = w
  BY DEF DetectorInvariant, DetectorShape, ToSet
<1>2. DOMAIN stack = 1..Len(stack) /\ Len(stack) \in Nat /\ indices[v] \in Int
  BY LenProperties DEF DetectorInvariant, DetectorShape, ToSet
<1>3. ~(k < j) /\ ~(j < k)
  BY <1>1, <1>2 DEF DetectorInvariant, StackInOrder
<1>4. QED
  BY <1>1, <1>2, <1>3

\* No edge leads from what is popped to what stays on the stack.
LEMMA PoppedHasNoEdgeDown ==
  ASSUME DetectorInvariant, LeavingRoot, NEW v \in Popped(Current), NEW w \in adj[v]
  PROVE  Visited(w) /\ (w \in onStack => w \in Popped(Current))
<1> USE DEF DetectorInvariant
<1>1. v \in onStack /\ indices[v] >= indices[Current] /\ v \in Nodes /\ indices[v] \in Int
      /\ indices[Current] \in Int
  BY TopCall DEF Popped, LeavingRoot
<1>2. adj \in [Nodes -> SUBSET Nodes] /\ w \in Nodes /\ indices[w] \in Int
  BY <1>1, TopCall DEF DetectorShape, LeavingRoot
<1>3. CASE v = Current
  <2>1. w \in adj[Node(1)] \ frames[1].left /\ 1 \in DOMAIN frames /\ v = Node(1)
    BY <1>3, TopCall DEF LeavingRoot
  <2>2. Visited(w)
    BY <2>1 DEF LookedUp
  <2>3. w \in onStack => lowlinks[Node(1)] <= indices[w]
    BY <2>1 DEF LowlinksBound
  <2>4. w \in onStack => indices[w] >= indices[Current]
    BY <1>1, <1>2, <1>3, <2>1, <2>3 DEF LeavingRoot
  <2>5. QED
    BY <2>2, <2>4 DEF Popped
<1>4. CASE v # Current
  <2>1. indices[v] > indices[Current]
    BY <1>1, <1>4, SameIndex, TopCall DEF LeavingRoot
  <2>2. ~Gray(v)
    <3> SUFFICES ASSUME NEW i \in DOMAIN frames, Node(i) = v PROVE FALSE
      BY DEF Gray
    <3>1. i # 1
      BY <1>4, TopCall DEF LeavingRoot
    <3>2. indices[v] < indices[Current]
      BY <3>1, TopCall DEF LeavingRoot
    <3>3. QED
      BY <1>1, <2>1, <3>2
  <2>3. Visited(w)
    BY <1>1, <2>2 DEF LookedUp, StackInOrder
  <2>4. \A j \in 1..1 - 1 : indices[v] < indices[Node(j)]
    OBVIOUS
  <2>5. w \in onStack => lowlinks[Node(1)] <= indices[w]
    <3>1. 1 \in DOMAIN frames /\ indices[Node(1)] < indices[v]
      BY <1>1, <2>1, TopCall DEF LeavingRoot
    <3>2. QED
      BY <1>1, <2>4, <3>1 DEF LowlinksBound
  <2>6. w \in onStack => indices[w] >= indices[Current]
    BY <1>1, <1>2, <2>5, TopCall DEF LeavingRoot
  <2>7. QED
    BY <2>3, <2>6 DEF Popped
<1>5. QED
  BY <1>3, <1>4

\* So what is popped reaches only what is popped, now or before.
LEMMA PoppedReaches ==
  ASSUME DetectorInvariant, LeavingRoot, NEW v \in Popped(Current), NEW w \in Reachable(v)
  PROVE  w \in Nodes /\ Visited(w) /\ (w \in onStack => w \in Popped(Current))
<1> USE DEF DetectorInvariant
<1> DEFINE T == {u \in Nodes : Visited(u) /\ (u \in onStack => u \in Popped(Current))}
<1>1. adj \in [Nodes -> SUBSET Nodes] /\ onStack \subseteq Nodes
  BY TopCall DEF DetectorShape, LeavingRoot
<1>2. v \in T
  BY <1>1 DEF Popped, StackInOrder
<1>3. \A u \in T : adj[u] \subseteq T
  <2> TAKE u \in T
  <2>1. CASE u \in onStack
    BY <1>1, <2>1, PoppedHasNoEdgeDown
  <2>2. CASE u \notin onStack
    BY <1>1, <2>2 DEF PoppedIsClosed
  <2>3. QED
    BY <2>1, <2>2
<1>4. Reachable(v) \subseteq T
  <2>1. T \in SUBSET Nodes /\ adj[v] \subseteq T /\ v \in Nodes
    BY <1>2, <1>3
  <2> HIDE DEF T
  <2>2. QED
    BY <1>1, <1>3, <2>1, ReachableStaysIn
<1>5. QED
  BY <1>4

\* What was popped before reaches only what was.
LEMMA OffStackReaches ==
  ASSUME DetectorInvariant, NEW v \in Nodes, Visited(v), v \notin onStack, NEW w \in Reachable(v)
  PROVE  w \in Nodes /\ Visited(w) /\ w \notin onStack
<1> USE DEF DetectorInvariant
<1> DEFINE T == {u \in Nodes : Visited(u) /\ u \notin onStack}
<1>1. adj \in [Nodes -> SUBSET Nodes]
  BY DEF DetectorShape
<1>2. T \in SUBSET Nodes /\ v \in T /\ \A u \in T : adj[u] \subseteq T
  BY <1>1 DEF PoppedIsClosed
<1>3. adj[v] \subseteq T
  BY <1>2
<1> HIDE DEF T
<1>4. Reachable(v) \subseteq T
  BY <1>1, <1>2, <1>3, ReachableStaysIn
<1>5. QED
  BY <1>4 DEF T

\* The root reaches what it pops, and is reached from there.
LEMMA PoppedIsConnected ==
  ASSUME DetectorInvariant, LeavingRoot, NEW v \in Popped(Current)
  PROVE  ReachEq(Current, v) /\ ReachEq(v, Current)
<1> USE DEF DetectorInvariant
<1>1. v \in onStack /\ v \in Nodes /\ indices[v] >= indices[Current] /\ Current = Node(1)
      /\ 1 \in DOMAIN frames /\ indices[v] \in Int /\ indices[Current] \in Int
  BY TopCall DEF Popped, LeavingRoot
<1>2. ReachEq(Current, v)
  BY <1>1 DEF CallsReachStack
<1>3. PICK i \in DOMAIN frames : indices[Node(i)] <= indices[v] /\ ReachEq(v, Node(i))
  BY <1>1 DEF StackReachesCalls
<1>4. Node(i) \in Popped(Current)
  <2>1. Node(i) \in onStack
    BY TopCall DEF LeavingRoot
  <2>2. CASE Node(i) = v
    BY <2>2
  <2>3. CASE Node(i) # v
    BY <1>3, <2>1, <2>3, PoppedReaches DEF ReachEq
  <2>4. QED
    BY <2>2, <2>3
<1>5. i = 1
  <2>1. indices[Node(i)] >= indices[Current]
    BY <1>4 DEF Popped
  <2>2. Node(i) \in Nodes /\ indices[Node(i)] \in Int
    BY TopCall DEF LeavingRoot
  <2>3. i # 1 => indices[Node(i)] < indices[Current]
    BY TopCall DEF LeavingRoot
  <2>4. QED
    BY <1>1, <2>1, <2>2, <2>3
<1>6. QED
  BY <1>1, <1>2, <1>3, <1>5

\* What is popped is the root's component, if it has two nodes.
LEMMA PoppedIsMutual ==
  ASSUME DetectorInvariant, LeavingRoot
  PROVE  /\ Current \in Popped(Current)
         /\ Mutual(Current) \subseteq Popped(Current)
         /\ \A v \in Popped(Current) : v # Current => v \in Mutual(Current) /\ Current \in Mutual(Current)
<1> USE DEF DetectorInvariant
<1>1. adj \in [Nodes -> SUBSET Nodes] /\ Current \in onStack /\ Current \in Nodes
      /\ indices[Current] \in Int
  BY TopCall DEF DetectorShape, LeavingRoot
<1>2. Current \in Popped(Current)
  BY <1>1 DEF Popped
<1>3. ASSUME NEW w \in Mutual(Current) PROVE w \in Popped(Current)
  <2>1. w \in Reachable(Current) /\ Current \in Reachable(w)
    BY DEF Mutual
  <2>2. w \in Nodes /\ Visited(w) /\ (w \in onStack => w \in Popped(Current))
    BY <1>2, <2>1, PoppedReaches
  <2>3. w \in onStack
    BY <1>1, <2>1, <2>2, OffStackReaches
  <2>4. QED
    BY <2>2, <2>3
<1>4. ASSUME NEW v \in Popped(Current), v # Current
      PROVE  v \in Mutual(Current) /\ Current \in Mutual(Current)
  <2>1. v \in Reachable(Current) /\ Current \in Reachable(v)
    BY <1>4, PoppedIsConnected DEF ReachEq
  <2>2. Current \in Reachable(Current)
    BY <1>1, <2>1, ReachableOnwards
  <2>3. QED
    BY <2>1, <2>2 DEF Mutual
<1>5. QED
  BY <1>2, <1>3, <1>4

LEMMA TwoNodes ==
  ASSUME NEW S \in SUBSET Nodes, NEW v
  PROVE  /\ Cardinality(S) > 1 => \E w \in S : w # v
         /\ \A w \in S : v \in S /\ w # v => Cardinality(S) > 1
<1>1. IsFiniteSet(S) /\ Cardinality(S) \in Nat
  BY DetectorAssumption, FS_Subset, FS_CardinalityType
<1>2. ASSUME Cardinality(S) > 1, \A w \in S : w = v PROVE FALSE
  <2>1. S = {} \/ S = {v}
    BY <1>2
  <2>2. Cardinality(S) = 0 \/ Cardinality(S) = 1
    BY <2>1, FS_EmptySet, FS_Singleton
  <2>3. QED
    BY <1>2, <2>2
<1>3. ASSUME NEW w \in S, v \in S, w # v PROVE Cardinality(S) > 1
  <2>1. Cardinality(S) # 0
    BY <1>1, <1>3, FS_EmptySet
  <2>2. Cardinality(S) # 1
    <3>1. ASSUME Cardinality(S) = 1 PROVE FALSE
      <4>1. PICK x : S = {x}
        BY <1>1, <3>1, FS_Singleton
      <4>2. QED
        BY <1>3, <4>1
    <3>2. QED
      BY <3>1
  <2>3. QED
    BY <1>1, <2>1, <2>2
<1>4. QED
  BY <1>2, <1>3

\* The sets reported after a root has popped its component.
LEMMA ReportedAfterPop ==
  ASSUME DetectorInvariant, LeavingRoot
  PROVE  /\ Cardinality(Popped(Current)) > 1 => Popped(Current) \in Components
         /\ \A c \in Components : \A v \in c : v \in Popped(Current) =>
              c = Popped(Current) /\ Cardinality(Popped(Current)) > 1
<1> USE DEF DetectorInvariant
<1> DEFINE S == Popped(Current)
<1>1. adj \in [Nodes -> SUBSET Nodes] /\ Current \in Nodes /\ S \in SUBSET Nodes
  BY TopCall DEF DetectorShape, LeavingRoot, Popped
<1>2. /\ Current \in S /\ Mutual(Current) \subseteq S
      /\ \A v \in S : v # Current => v \in Mutual(Current) /\ Current \in Mutual(Current)
  BY PoppedIsMutual
<1>3. Components = {c \in {Mutual(v) : v \in Nodes} : Cardinality(c) > 1}
  BY DEF Components, Mutual
<1> HIDE DEF S
<1>4. ASSUME Cardinality(S) > 1 PROVE S \in Components /\ S = Mutual(Current)
  <2>1. PICK w \in S : w # Current
    BY <1>1, <1>4, TwoNodes
  <2>2. S = Mutual(Current)
    BY <1>2, <2>1
  <2>3. QED
    BY <1>1, <1>3, <1>4, <2>2
<1>5. ASSUME NEW c \in Components, NEW v \in c, v \in S
      PROVE  c = S /\ Cardinality(S) > 1
  <2>1. PICK u \in Nodes : c = Mutual(u)
    BY <1>3
  <2>2. Cardinality(c) > 1
    BY <1>3
  <2>3. v \in Nodes /\ Mutual(v) = c
    BY <1>1, <2>1, MutualIsShared
  <2>4. Mutual(Current) = c
    <3>1. CASE v = Current
      BY <2>3, <3>1
    <3>2. CASE v # Current
      <4>1. v \in Mutual(Current)
        BY <1>2, <1>5, <3>2
      <4>2. QED
        BY <1>1, <2>3, <4>1, MutualIsShared
    <3>3. QED
      BY <3>1, <3>2
  <2>5. c \subseteq S /\ c \in SUBSET Nodes
    BY <1>1, <1>2, <2>4
  <2>6. PICK w \in c : w # Current
    BY <2>2, <2>5, TwoNodes
  <2>7. Cardinality(S) > 1
    BY <1>1, <1>2, <2>5, <2>6, TwoNodes
  <2>8. QED
    BY <1>4, <2>4, <2>7
<1>6. QED
  BY <1>4, <1>5 DEF S

-----------------------------------------------------------------------------

\* What the root pops is the top of the stack.
LEMMA PoppedIsTop ==
  ASSUME DetectorInvariant, LeavingRoot
  PROVE  \E n \in 1..Len(stack) :
           /\ \A i \in 1..Len(stack) : stack[i] \in Popped(Current) <=> i >= n
           /\ Len(stack) - Cardinality(Popped(Current)) = n - 1
<1> USE DEF DetectorInvariant
<1>1. /\ stack \in Seq(Nodes) /\ DOMAIN stack = 1..Len(stack) /\ Len(stack) \in Nat
      /\ onStack = {stack[i] : i \in 1..Len(stack)} /\ Current \in onStack
      /\ \A i \in 1..Len(stack) : stack[i] \in Nodes /\ indices[stack[i]] \in Int
  BY LenProperties, TopCall DEF DetectorShape, ToSet, LeavingRoot
<1>2. PICK n \in 1..Len(stack) : stack[n] = Current
  BY <1>1
<1>3. \A i, j \in 1..Len(stack) : i < j => indices[stack[i]] < indices[stack[j]]
  BY <1>1 DEF StackInOrder
<1>4. \A i \in 1..Len(stack) : indices[stack[i]] >= indices[Current] <=> i >= n
  <2> TAKE i \in 1..Len(stack)
  <2>1. CASE i < n
    BY <1>1, <1>2, <1>3, <2>1
  <2>2. CASE i = n
    BY <1>1, <1>2, <2>2
  <2>3. CASE i > n
    BY <1>1, <1>2, <1>3, <2>3
  <2>4. QED
    BY <2>1, <2>2, <2>3
<1>5. \A i \in 1..Len(stack) : stack[i] \in Popped(Current) <=> i >= n
  BY <1>1, <1>4 DEF Popped
<1> DEFINE f == [i \in n..Len(stack) |-> stack[i]]
<1>6. f \in Bijection(n..Len(stack), Popped(Current))
  <2>1. \A i \in n..Len(stack) : i \in 1..Len(stack) /\ stack[i] \in Popped(Current)
    BY <1>1, <1>5
  <2>2. f \in [n..Len(stack) -> Popped(Current)]
    BY <2>1
  <2>3. ASSUME NEW i \in n..Len(stack), NEW j \in n..Len(stack), f[i] = f[j] PROVE i = j
    <3>1. i \in 1..Len(stack) /\ j \in 1..Len(stack) /\ stack[i] = stack[j]
      BY <2>1, <2>3
    <3>2. ~(i < j) /\ ~(j < i)
      BY <1>1, <1>3, <3>1
    <3>3. QED
      BY <3>1, <3>2
  <2>4. ASSUME NEW v \in Popped(Current) PROVE \E i \in n..Len(stack) : f[i] = v
    <3>1. PICK i \in 1..Len(stack) : stack[i] = v
      BY <1>1 DEF Popped
    <3>2. i \in n..Len(stack)
      BY <1>5, <3>1
    <3>3. QED
      BY <3>1, <3>2
  <2>5. QED
    BY <2>2, <2>3, <2>4, Fun_IsBij
<1>7. Cardinality(Popped(Current)) = Len(stack) - n + 1
  <2>1. IsFiniteSet(n..Len(stack)) /\ Cardinality(n..Len(stack)) = Len(stack) - n + 1
    BY <1>1, FS_Interval
  <2>2. ExistsBijection(n..Len(stack), Popped(Current))
    BY <1>6 DEF ExistsBijection
  <2>3. QED
    BY <2>1, <2>2, FS_Bijection
<1>8. QED
  BY <1>1, <1>5, <1>7

LEMMA LeaveFrames ==
  ASSUME DetectorInvariant, Leave
  PROVE  /\ frames # << >> /\ frames[1].left = {}
         /\ frames' \in Seq(Frame) /\ DOMAIN frames' = 1..Len(frames) - 1
         /\ \A i \in 1..Len(frames) - 1 : i + 1 \in DOMAIN frames /\ Node(i)' = Node(i + 1)
                                          /\ frames'[i].left = frames[i + 1].left
         /\ adj' = adj /\ indices' = indices /\ index' = index
         /\ \A v \in Nodes : Visited(v)' = Visited(v)
<1>1. frames # << >> /\ Head(frames).left = {} /\ frames' = Tail(frames)
      /\ adj' = adj /\ indices' = indices /\ index' = index
  BY DEF Leave
<1>2. frames \in Seq(Frame) /\ Len(frames) \in Nat /\ DOMAIN frames = 1..Len(frames)
  BY LenProperties DEF DetectorInvariant, DetectorShape
<1>3. /\ frames' \in Seq(Frame) /\ Len(frames') = Len(frames) - 1
      /\ \A i \in 1..Len(frames) - 1 : frames'[i] = frames[i + 1]
  BY <1>1, <1>2, HeadTailProperties
<1>4. DOMAIN frames' = 1..Len(frames) - 1
  BY <1>3, LenProperties
<1>5. \A i \in 1..Len(frames) - 1 : i + 1 \in DOMAIN frames
  BY <1>2
<1>6. frames[1].left = {}
  BY <1>1, TopCall
<1>7. QED
  BY <1>1, <1>3, <1>4, <1>5, <1>6 DEF Node, Visited

LEMMA LeaveLowlinks ==
  ASSUME DetectorInvariant, Leave
  PROVE  /\ lowlinks' \in [Nodes -> Int]
         /\ \A v \in Nodes : lowlinks'[v] <= lowlinks[v]
         /\ frames' # << >> =>
              /\ lowlinks'[Node(2)] <= lowlinks[Current]
              /\ lowlinks'[Node(2)] \in {lowlinks[Node(2)], lowlinks[Current]}
         /\ \A i \in 3..Len(frames) : lowlinks'[Node(i)] = lowlinks[Node(i)]
<1> USE DEF DetectorInvariant
<1>1. frames # << >> /\ frames' = Tail(frames)
  BY DEF Leave
<1>2. lowlinks \in [Nodes -> Int] /\ Current \in Nodes
  BY <1>1, TopCall DEF DetectorShape
<1>3. Len(frames) \in Nat /\ DOMAIN frames = 1..Len(frames)
  BY <1>1, TopCall
<1>4. CASE Tail(frames) = << >>
  <2>1. lowlinks' = lowlinks
    BY <1>4 DEF Leave
  <2>2. Len(frames) - 1 = 0
    BY <1>1, <1>4, LeaveFrames, HeadTailProperties, EmptySeq DEF DetectorShape
  <2>3. QED
    BY <1>1, <1>2, <1>3, <1>4, <2>1, <2>2
<1>5. CASE Tail(frames) # << >>
  <2>1. Tail(frames) \in Seq(Frame) /\ Tail(frames) = frames'
        /\ DOMAIN frames' = 1..Len(frames) - 1
    BY <1>1, LeaveFrames
  <2>2. Head(Tail(frames)) = frames'[1] /\ 1 \in DOMAIN frames'
    BY <1>5, <2>1, EmptySeq, LenProperties
  <2>3. Head(Tail(frames)).node = Node(2) /\ 2 \in DOMAIN frames
    BY <1>3, <2>1, <2>2, LeaveFrames DEF Node
  <2>4. Node(2) \in Nodes
    BY <1>1, <2>3, TopCall
  <2>5. lowlinks' = [lowlinks EXCEPT ![Node(2)] =
           IF lowlinks[Current] < lowlinks[Node(2)] THEN lowlinks[Current] ELSE lowlinks[Node(2)]]
    BY <1>5, <2>3 DEF Leave, Lower
  <2>6. \A i \in 3..Len(frames) : Node(i) # Node(2) /\ Node(i) \in Nodes
    <3> TAKE i \in 3..Len(frames)
    <3>1. i \in DOMAIN frames /\ 2 < i
      BY <1>3
    <3>2. indices[Node(2)] > indices[Node(i)] /\ Node(i) \in Nodes
      BY <1>1, <2>3, <3>1, TopCall DEF CallsInOrder
    <3>3. indices[Node(2)] \in Int
      BY <1>1, <2>4, TopCall
    <3>4. QED
      BY <3>2, <3>3
  <2>7. lowlinks[Current] \in Int /\ lowlinks[Node(2)] \in Int
    BY <1>2, <2>4
  <2>8. QED
    BY <1>2, <2>4, <2>5, <2>6, <2>7
<1>6. QED
  BY <1>4, <1>5

\* What the end of a call leaves alone.
LEMMA LeaveKeeps ==
  ASSUME DetectorInvariant, Leave
  PROVE  /\ index' = Cardinality({v \in Nodes : Visited(v)'})
         /\ \A v \in Nodes : lowlinks'[v] <= indices'[v]
         /\ \A i, j \in DOMAIN frames' : i < j => indices'[Node(i)'] > indices'[Node(j)']
         /\ \A i \in DOMAIN frames' : Node(i)' \in onStack /\ frames'[i].left \subseteq adj'[Node(i)']
         /\ LookedUp'
<1> USE DEF DetectorInvariant
<1>1. DOMAIN frames' = 1..Len(frames) - 1 /\ frames # << >> /\ adj' = adj /\ indices' = indices
      /\ \A i \in 1..Len(frames) - 1 : i + 1 \in DOMAIN frames /\ Node(i)' = Node(i + 1)
                                          /\ frames'[i].left = frames[i + 1].left
  BY LeaveFrames
<1>2. \A v \in Nodes : lowlinks'[v] <= indices'[v]
  <2> TAKE v \in Nodes
  <2>1. lowlinks'[v] <= lowlinks[v] /\ lowlinks'[v] \in Int /\ lowlinks[v] \in Int /\ indices[v] \in Int
    BY <1>1, LeaveLowlinks, TopCall
  <2>2. lowlinks[v] <= indices[v]
    BY DEF DetectorShape
  <2>3. QED
    BY <1>1, <2>1, <2>2
<1>3. index' = Cardinality({v \in Nodes : Visited(v)'})
  BY LeaveFrames DEF DetectorShape
<1>4. ASSUME NEW i \in DOMAIN frames', NEW j \in DOMAIN frames', i < j
      PROVE  indices'[Node(i)'] > indices'[Node(j)']
  <2>1. i + 1 \in DOMAIN frames /\ j + 1 \in DOMAIN frames /\ i + 1 < j + 1
    BY <1>1, <1>4
  <2>2. indices[Node(i + 1)] > indices[Node(j + 1)]
    BY <2>1 DEF CallsInOrder
  <2>3. QED
    BY <1>1, <2>2
<1>5. \A i \in DOMAIN frames' : Node(i)' \in onStack /\ frames'[i].left \subseteq adj'[Node(i)']
  BY <1>1 DEF CallsInOrder
<1>6. LookedUp'
  <2>1. ASSUME NEW i \in DOMAIN frames', NEW w \in adj'[Node(i)'] \ frames'[i].left
        PROVE  Visited(w)'
    <3>1. i + 1 \in DOMAIN frames /\ w \in adj[Node(i + 1)] \ frames[i + 1].left
      BY <1>1, <2>1
    <3>2. Visited(w)
      BY <3>1 DEF LookedUp
    <3>3. QED
      BY <1>1, <3>2 DEF Visited
  <2>2. ASSUME NEW v \in Nodes, Visited(v)', ~Gray(v)', NEW w \in adj'[v]
        PROVE  Visited(w)'
    <3>1. Visited(v) /\ w \in adj[v]
      BY <1>1, <2>2 DEF Visited
    <3>2. CASE v = Current
      <4>1. 1 \in DOMAIN frames /\ w \in adj[Node(1)] \ frames[1].left
        BY <1>1, <3>1, <3>2, LeaveFrames, TopCall
      <4>2. Visited(w)
        BY <4>1 DEF LookedUp
      <4>3. QED
        BY <1>1, <4>2 DEF Visited
    <3>3. CASE v # Current
      <4>1. ~Gray(v)
        <5> SUFFICES ASSUME NEW i \in DOMAIN frames, Node(i) = v PROVE FALSE
          BY DEF Gray
        <5>1. i # 1 /\ DOMAIN frames = 1..Len(frames) /\ Len(frames) \in Nat
          BY <1>1, <3>3, TopCall
        <5>2. i - 1 \in DOMAIN frames' /\ Node(i - 1)' = v
          BY <1>1, <5>1
        <5>3. QED
          BY <2>2, <5>2 DEF Gray
      <4>2. Visited(w)
        BY <3>1, <4>1 DEF LookedUp
      <4>3. QED
        BY <1>1, <4>2 DEF Visited
    <3>4. QED
      BY <3>2, <3>3
  <2>3. QED
    BY <2>1, <2>2 DEF LookedUp
<1>7. QED
  BY <1>2, <1>3, <1>4, <1>5, <1>6

\* A call that is not a root leaves its nodes to its caller.
LEMMA LeaveToCaller ==
  ASSUME DetectorInvariant, Leave, lowlinks[Current] # indices[Current]
  PROVE  DetectorInvariant'
<1> USE DEF DetectorInvariant
<1>1. /\ frames # << >> /\ frames[1].left = {} /\ frames' \in Seq(Frame)
      /\ DOMAIN frames' = 1..Len(frames) - 1
      /\ \A i \in 1..Len(frames) - 1 : i + 1 \in DOMAIN frames /\ Node(i)' = Node(i + 1)
                                       /\ frames'[i].left = frames[i + 1].left
      /\ adj' = adj /\ indices' = indices /\ index' = index
      /\ \A v \in Nodes : Visited(v)' = Visited(v)
  BY LeaveFrames
<1>2. onStack' = onStack /\ sccs' = sccs /\ stack' = stack
  <2>1. Cardinality({}) = 0
    BY FS_EmptySet
  <2>2. /\ stack' = SubSeq(stack, 1, Len(stack) - Cardinality({}))
        /\ onStack' = onStack \ {} /\ sccs' = IF Cardinality({}) > 1 THEN sccs \cup {{}} ELSE sccs
    BY DEF Leave
  <2>3. stack \in Seq(Nodes) /\ Len(stack) \in Nat
    BY LenProperties DEF DetectorShape
  <2>4. QED
    BY <2>1, <2>2, <2>3, SubSeqFull
<1>3. /\ Current = Node(1) /\ 1 \in DOMAIN frames /\ DOMAIN frames = 1..Len(frames)
      /\ Len(frames) \in Nat /\ Current \in onStack /\ Current \in Nodes /\ onStack \subseteq Nodes
      /\ \A i \in DOMAIN frames : Node(i) \in onStack
      /\ \A w \in Nodes : indices[w] \in Int /\ lowlinks[w] \in Int
  BY <1>1, TopCall
<1>4. adj \in [Nodes -> SUBSET Nodes]
  BY DEF DetectorShape
<1>5. PICK low \in onStack : indices[low] = lowlinks[Current] /\ ReachEq(Current, low)
  BY <1>3 DEF LowlinksReached
<1>6. indices[low] < indices[Current]
  BY <1>3, <1>5 DEF DetectorShape
<1>7. DetectorShape'
  BY <1>1, <1>2, LeaveLowlinks, LeaveKeeps DEF DetectorShape
<1>8. CallsInOrder' /\ LookedUp'
  BY <1>2, LeaveKeeps DEF CallsInOrder
<1>9. StackInOrder' /\ PoppedIsClosed' /\ Reported'
  <2>1. \A c \in Components : c \subseteq Nodes
    BY <1>4, ReachableIsClosed DEF Components
  <2>2. Reported'
    BY <1>1, <1>2, <2>1, ReachKept DEF Reported
  <2>3. PoppedIsClosed'
    BY <1>1, <1>2, <1>4 DEF PoppedIsClosed
  <2>4. StackInOrder'
    BY <1>1, <1>2, <1>3 DEF StackInOrder
  <2>5. QED
    BY <2>2, <2>3, <2>4
<1>10. CallsReachStack'
  BY <1>1, <1>2, ReachKept DEF CallsReachStack
<1>11. StackReachesCalls'
  <2>1. ASSUME NEW v \in onStack
        PROVE  \E i \in DOMAIN frames : i # 1 /\ indices[Node(i)] <= indices[v] /\ ReachEq(v, Node(i))
    <3>1. PICK i \in DOMAIN frames : indices[Node(i)] <= indices[v] /\ ReachEq(v, Node(i))
      BY DEF StackReachesCalls
    <3>2. CASE i = 1
      <4>1. PICK k \in DOMAIN frames : indices[Node(k)] <= indices[low] /\ ReachEq(low, Node(k))
        BY DEF StackReachesCalls
      <4>2. indices[Node(k)] \in Int /\ indices[v] \in Int /\ indices[Current] \in Int /\ indices[low] \in Int
        BY <1>3
      <4>3. k # 1 /\ indices[Node(k)] <= indices[v]
        BY <1>3, <1>6, <3>1, <3>2, <4>1, <4>2
      <4>4. ReachEq(v, low)
        BY <1>3, <1>4, <1>5, <3>1, <3>2, ReachEqTransitive
      <4>5. ReachEq(v, Node(k))
        BY <1>3, <1>4, <4>1, <4>4, ReachEqTransitive
      <4>6. QED
        BY <4>3, <4>5
    <3>3. QED
      BY <3>1, <3>2
  <2>2. ASSUME NEW v \in onStack
        PROVE  \E i \in DOMAIN frames' : indices'[Node(i)'] <= indices'[v] /\ ReachEq(v, Node(i)')
    <3>1. PICK i \in DOMAIN frames : i # 1 /\ indices[Node(i)] <= indices[v] /\ ReachEq(v, Node(i))
      BY <2>1
    <3>2. i - 1 \in 1..Len(frames) - 1 /\ (i - 1) + 1 = i
      BY <1>3, <3>1
    <3>3. Node(i - 1)' = Node(i)
      BY <1>1, <3>2
    <3>4. i - 1 \in DOMAIN frames' /\ indices'[Node(i - 1)'] <= indices'[v] /\ ReachEq(v, Node(i - 1)')
      BY <1>1, <3>1, <3>2, <3>3
    <3>5. QED
      BY <3>4
  <2>3. QED
    BY <1>1, <1>2, <2>2, ReachKept DEF StackReachesCalls
<1>12. LowlinksReached'
  <2>1. ASSUME NEW i \in 2..Len(frames)
        PROVE  \E w \in onStack : indices[w] = lowlinks'[Node(i)] /\ ReachEq(Node(i), w)
    <3>1. i \in DOMAIN frames /\ Node(i) \in Nodes
      BY <1>3
    <3>2. CASE lowlinks'[Node(i)] = lowlinks[Node(i)]
      BY <3>1, <3>2 DEF LowlinksReached
    <3>3. CASE lowlinks'[Node(i)] # lowlinks[Node(i)]
      <4>1. i = 2
        BY <3>3, <1>3, LeaveLowlinks
      <4>2. frames' # << >>
        <5>1. 1 \in DOMAIN frames'
          BY <1>1, <1>3, <3>1, <4>1
        <5>2. QED
          BY <5>1, <1>1, EmptySeq, LenProperties
      <4>3. lowlinks'[Node(i)] = lowlinks[Current]
        BY <3>3, <4>1, <4>2, LeaveLowlinks
      <4>4. indices[Node(i)] <= indices[Current]
        <5>1. indices[Node(i)] < indices[Current] /\ indices[Node(i)] \in Int /\ indices[Current] \in Int
          BY <1>1, <1>3, <3>1, <4>1, TopCall
        <5>2. QED
          BY <5>1
      <4>5. ReachEq(Node(i), Current)
        BY <1>3, <3>1, <4>4 DEF CallsReachStack
      <4>6. ReachEq(Node(i), low)
        BY <1>4, <1>5, <3>1, <4>5, ReachEqTransitive
      <4>7. QED
        BY <1>5, <4>3, <4>6
    <3>4. QED
      BY <3>2, <3>3
  <2>2. \A i \in DOMAIN frames' : i + 1 \in 2..Len(frames) /\ Node(i)' = Node(i + 1)
    BY <1>1, <1>3
  <2>3. QED
    BY <1>1, <1>2, <2>1, <2>2, ReachKept DEF LowlinksReached
<1>13. LowlinksBound'
  <2>1. \A i \in DOMAIN frames' : i + 1 \in 2..Len(frames) /\ i + 1 \in DOMAIN frames
                                  /\ Node(i)' = Node(i + 1)
    BY <1>1, <1>3
  <2>2. \A w \in Nodes : lowlinks'[w] <= lowlinks[w] /\ lowlinks'[w] \in Int /\ lowlinks[w] \in Int
    BY <1>3, LeaveLowlinks
  <2>3. ASSUME NEW i \in DOMAIN frames', NEW w \in adj'[Node(i)'] \ frames'[i].left, w \in onStack
        PROVE  lowlinks'[Node(i)'] <= indices'[w]
    <3>1. w \in adj[Node(i + 1)] \ frames[i + 1].left
      BY <1>1, <2>3
    <3>2. lowlinks[Node(i + 1)] <= indices[w] /\ indices[w] \in Int /\ Node(i + 1) \in Nodes
      BY <1>3, <2>1, <2>3, <3>1 DEF LowlinksBound
    <3>3. lowlinks'[Node(i + 1)] <= indices[w]
      BY <2>2, <3>2
    <3>4. QED
      BY <1>1, <2>1, <3>3
  <2>4. ASSUME NEW i \in DOMAIN frames', NEW v \in onStack, indices'[Node(i)'] < indices'[v],
               \A j \in 1..i - 1 : indices'[v] < indices'[Node(j)'],
               NEW w \in adj'[v] \cap onStack
        PROVE  lowlinks'[Node(i)'] <= indices'[w]
    <3>1. w \in adj[v] /\ w \in Nodes /\ v \in Nodes /\ Node(i + 1) \in Nodes /\ Node(i)' = Node(i + 1)
          /\ indices[Node(i + 1)] < indices[v] /\ i + 1 \in DOMAIN frames
      BY <1>1, <1>3, <2>1, <2>4
    <3>2. CASE i = 1
      <4>1. frames' # << >>
        BY <1>1, <3>2, EmptySeq, LenProperties
      <4>2. lowlinks'[Node(2)] <= lowlinks[Current] /\ lowlinks'[Node(2)] <= lowlinks[Node(2)]
        BY <2>2, <3>1, <3>2, <4>1, LeaveLowlinks
      <4>3. CASE indices[v] < indices[Current]
        <5>1. \A j \in 1..2 - 1 : indices[v] < indices[Node(j)]
          BY <1>3, <4>3
        <5>2. lowlinks[Node(2)] <= indices[w]
          BY <2>4, <3>1, <3>2, <5>1 DEF LowlinksBound
        <5>3. QED
          BY <1>1, <1>3, <2>2, <3>1, <3>2, <4>2, <5>2
      <4>4. CASE v = Current
        <5>1. w \in adj[Node(1)] \ frames[1].left
          BY <1>1, <1>3, <3>1, <4>4
        <5>2. lowlinks[Node(1)] <= indices[w]
          BY <1>3, <2>4, <5>1 DEF LowlinksBound
        <5>3. QED
          BY <1>1, <1>3, <2>2, <3>1, <3>2, <4>2, <5>2
      <4>5. CASE indices[v] > indices[Current]
        <5>1. \A j \in 1..1 - 1 : indices[v] < indices[Node(j)]
          OBVIOUS
        <5>2. indices[Node(1)] < indices[v]
          BY <1>3, <3>1, <4>5
        <5>3. lowlinks[Node(1)] <= indices[w]
          BY <1>3, <2>4, <3>1, <5>1, <5>2 DEF LowlinksBound
        <5>4. QED
          BY <1>1, <1>3, <2>2, <3>1, <3>2, <4>2, <5>3
      <4>6. indices[v] = indices[Current] => v = Current
        BY <1>3, SameIndex
      <4>7. QED
        BY <1>3, <3>1, <4>3, <4>4, <4>5, <4>6
    <3>3. CASE i # 1
      <4>1. \A j \in 1..(i + 1) - 1 : indices[v] < indices[Node(j)]
        <5> TAKE j \in 1..(i + 1) - 1
        <5>1. CASE j = 1
          <6>1. 1 \in 1..i - 1 /\ 1 \in DOMAIN frames' /\ 2 \in DOMAIN frames
            BY <1>1, <1>3, <2>1, <3>3
          <6>2. indices[v] < indices[Node(2)]
            BY <1>1, <2>1, <2>4, <6>1
          <6>3. indices[Node(2)] < indices[Current] /\ indices[Node(2)] \in Int
            BY <1>1, <1>3, <6>1, TopCall
          <6>4. QED
            BY <1>3, <3>1, <5>1, <6>2, <6>3
        <5>2. CASE j # 1
          <6>1. j - 1 \in 1..i - 1 /\ j - 1 \in DOMAIN frames' /\ (j - 1) + 1 = j
            BY <1>1, <1>3, <2>1, <5>2
          <6>2. Node(j - 1)' = Node(j)
            BY <2>1, <6>1
          <6>3. QED
            BY <1>1, <2>4, <6>1, <6>2
        <5>3. QED
          BY <5>1, <5>2
      <4>2. lowlinks[Node(i + 1)] <= indices[w]
        BY <2>4, <3>1, <4>1 DEF LowlinksBound
      <4>3. QED
        BY <1>1, <1>3, <2>2, <3>1, <4>2
    <3>4. QED
      BY <3>2, <3>3
  <2>5. QED
    BY <1>2, <2>3, <2>4 DEF LowlinksBound
<1>14. QED
  BY <1>7, <1>8, <1>9, <1>10, <1>11, <1>12, <1>13

\* A root pops its component.
LEMMA LeaveAsRoot ==
  ASSUME DetectorInvariant, Leave, lowlinks[Current] = indices[Current]
  PROVE  DetectorInvariant'
<1> USE DEF DetectorInvariant
<1>1. /\ frames # << >> /\ frames[1].left = {} /\ frames' \in Seq(Frame)
      /\ DOMAIN frames' = 1..Len(frames) - 1
      /\ \A i \in 1..Len(frames) - 1 : i + 1 \in DOMAIN frames /\ Node(i)' = Node(i + 1)
                                       /\ frames'[i].left = frames[i + 1].left
      /\ adj' = adj /\ indices' = indices /\ index' = index
      /\ \A v \in Nodes : Visited(v)' = Visited(v)
  BY LeaveFrames
<1>2. LeavingRoot
  BY DEF Leave, LeavingRoot
<1>3. /\ Current = Node(1) /\ 1 \in DOMAIN frames /\ DOMAIN frames = 1..Len(frames)
      /\ Len(frames) \in Nat /\ Current \in onStack /\ Current \in Nodes /\ onStack \subseteq Nodes
      /\ \A i \in DOMAIN frames : Node(i) \in onStack
      /\ \A w \in Nodes : indices[w] \in Int /\ lowlinks[w] \in Int
      /\ \A i \in DOMAIN frames : i # 1 => indices[Node(i)] < indices[Current]
  BY <1>1, TopCall
<1>4. adj \in [Nodes -> SUBSET Nodes]
  BY DEF DetectorShape
<1> DEFINE scc == Popped(Current)
<1>5. /\ stack' = SubSeq(stack, 1, Len(stack) - Cardinality(scc))
      /\ onStack' = onStack \ scc
      /\ sccs' = IF Cardinality(scc) > 1 THEN sccs \cup {scc} ELSE sccs
  BY DEF Leave
<1>6. \A w \in onStack : w \in onStack' <=> indices[w] < indices[Current]
  BY <1>3, <1>5 DEF Popped
<1>7. onStack' \subseteq onStack
  BY <1>5
<1>8. PICK n \in 1..Len(stack) :
           /\ \A i \in 1..Len(stack) : stack[i] \in scc <=> i >= n
           /\ Len(stack) - Cardinality(scc) = n - 1
  BY <1>2, PoppedIsTop
<1> HIDE DEF scc
<1>9. /\ stack \in Seq(Nodes) /\ Len(stack) \in Nat /\ DOMAIN stack = 1..Len(stack)
      /\ onStack = {stack[i] : i \in 1..Len(stack)}
  BY LenProperties DEF DetectorShape, ToSet
<1>10. /\ stack' \in Seq(Nodes) /\ DOMAIN stack' = 1..n - 1
       /\ \A i \in 1..n - 1 : stack'[i] = stack[i]
  <2>1. stack' = SubSeq(stack, 1, n - 1)
    BY <1>5, <1>8
  <2>2. \A i \in 1..n - 1 : stack[i] \in Nodes
    BY <1>9
  <2>3. /\ stack' \in Seq(Nodes) /\ Len(stack') = IF 1 <= n - 1 THEN (n - 1) - 1 + 1 ELSE 0
        /\ \A i \in 1..(n - 1) - 1 + 1 : stack'[i] = stack[1 + i - 1]
    BY <1>9, <2>1, <2>2, SubSeqProperties
  <2>4. Len(stack') = n - 1
    BY <1>9, <2>3
  <2>5. DOMAIN stack' = 1..n - 1
    BY <2>3, <2>4, LenProperties
  <2>6. \A i \in 1..n - 1 : stack'[i] = stack[i]
    BY <1>9, <2>3
  <2>7. QED
    BY <2>3, <2>5, <2>6
<1>11. ToSet(stack') = onStack'
  <2>1. ToSet(stack') = {stack[i] : i \in 1..n - 1}
    BY <1>10 DEF ToSet
  <2>2. \A i \in 1..Len(stack) : stack[i] \in onStack' <=> i \in 1..n - 1
    BY <1>5, <1>8, <1>9
  <2>3. QED
    BY <1>7, <1>9, <2>1, <2>2
<1>12. DetectorShape'
  BY <1>1, <1>10, <1>11, LeaveLowlinks, LeaveKeeps DEF DetectorShape
<1>13. CallsInOrder'
  <2>1. \A i \in DOMAIN frames' : Node(i)' \in onStack'
    <3> TAKE i \in DOMAIN frames'
    <3>1. Node(i)' = Node(i + 1) /\ i + 1 \in DOMAIN frames /\ i + 1 # 1
      BY <1>1, <1>3
    <3>2. QED
      BY <1>3, <1>6, <3>1
  <2>2. QED
    BY <2>1, LeaveKeeps DEF CallsInOrder
<1>14. StackInOrder'
  <2>1. ASSUME NEW i \in DOMAIN stack', NEW j \in DOMAIN stack', i < j
        PROVE  indices'[stack'[i]] < indices'[stack'[j]]
    <3>1. i \in DOMAIN stack /\ j \in DOMAIN stack
      BY <1>9, <1>10
    <3>2. QED
      BY <1>1, <1>10, <2>1, <3>1 DEF StackInOrder
  <2>2. \A w \in onStack' : Visited(w)'
    BY <1>1, <1>3, <1>7 DEF StackInOrder
  <2>3. QED
    BY <2>1, <2>2 DEF StackInOrder
<1>15. PoppedIsClosed'
  <2>1. ASSUME NEW v \in Nodes, Visited(v), v \notin onStack', NEW w \in adj[v]
        PROVE  Visited(w) /\ w \notin onStack'
    <3>1. CASE v \in onStack
      <4>1. v \in Popped(Current)
        BY <1>5, <2>1, <3>1 DEF scc
      <4>2. Visited(w) /\ (w \in onStack => w \in Popped(Current))
        BY <1>2, <4>1, PoppedHasNoEdgeDown
      <4>3. QED
        BY <1>5, <4>2 DEF scc
    <3>2. CASE v \notin onStack
      BY <1>7, <2>1, <3>2 DEF PoppedIsClosed
    <3>3. QED
      BY <3>1, <3>2
  <2>2. QED
    BY <1>1, <1>4, <2>1 DEF PoppedIsClosed
<1>16. CallsReachStack'
  BY <1>1, <1>7, ReachKept DEF CallsReachStack
<1>17. StackReachesCalls'
  <2>1. ASSUME NEW v \in onStack'
        PROVE  \E i \in DOMAIN frames' : indices'[Node(i)'] <= indices'[v] /\ ReachEq(v, Node(i)')
    <3>1. v \in onStack /\ indices[v] < indices[Current]
      BY <1>6, <1>7
    <3>2. PICK i \in DOMAIN frames : indices[Node(i)] <= indices[v] /\ ReachEq(v, Node(i))
      BY <3>1 DEF StackReachesCalls
    <3>3. i # 1
      <4>1. indices[v] \in Int /\ indices[Current] \in Int
        BY <1>3, <3>1
      <4>2. QED
        BY <1>3, <3>1, <3>2, <4>1
    <3>4. i - 1 \in 1..Len(frames) - 1 /\ (i - 1) + 1 = i
      BY <1>3, <3>3
    <3>5. Node(i - 1)' = Node(i)
      BY <1>1, <3>4
    <3>6. i - 1 \in DOMAIN frames' /\ indices'[Node(i - 1)'] <= indices'[v] /\ ReachEq(v, Node(i - 1)')
      BY <1>1, <3>2, <3>4, <3>5
    <3>7. QED
      BY <3>6
  <2>2. QED
    BY <1>1, <2>1, ReachKept DEF StackReachesCalls
<1>18. \A i \in 2..Len(frames) :
         /\ lowlinks'[Node(i)] = lowlinks[Node(i)] /\ i \in DOMAIN frames
         /\ lowlinks[Node(i)] < indices[Current]
  <2> TAKE i \in 2..Len(frames)
  <2>1. i \in DOMAIN frames /\ i # 1 /\ Node(i) \in Nodes
    BY <1>3
  <2>2. lowlinks[Node(i)] <= indices[Node(i)] /\ indices[Node(i)] < indices[Current]
    BY <1>3, <2>1 DEF DetectorShape
  <2>3. lowlinks[Node(i)] < indices[Current]
    BY <1>3, <2>1, <2>2
  <2>4. CASE i = 2
    <3>1. frames' # << >>
      BY <1>1, <1>3, <2>4, EmptySeq, LenProperties
    <3>2. lowlinks'[Node(2)] \in {lowlinks[Node(2)], lowlinks[Current]} /\ lowlinks'[Node(2)] <= lowlinks[Node(2)]
      BY <2>1, <2>4, <3>1, LeaveLowlinks
    <3>3. QED
      BY <1>3, <2>1, <2>3, <2>4, <3>2
  <2>5. CASE i # 2
    BY <2>1, <2>3, <2>5, <1>3, LeaveLowlinks
  <2>6. QED
    BY <2>4, <2>5
<1>19. \A i \in DOMAIN frames' : i + 1 \in 2..Len(frames) /\ Node(i)' = Node(i + 1)
  BY <1>1, <1>3
<1>20. LowlinksReached'
  <2>1. ASSUME NEW i \in 2..Len(frames)
        PROVE  \E w \in onStack' : indices[w] = lowlinks'[Node(i)] /\ ReachEq(Node(i), w)
    <3>1. PICK w \in onStack : indices[w] = lowlinks[Node(i)] /\ ReachEq(Node(i), w)
      BY <1>18 DEF LowlinksReached
    <3>2. w \in onStack'
      BY <1>6, <1>18, <3>1
    <3>3. QED
      BY <1>18, <3>1, <3>2
  <2>2. QED
    BY <1>1, <1>19, <2>1, ReachKept DEF LowlinksReached
<1>21. LowlinksBound'
  <2>1. ASSUME NEW i \in DOMAIN frames', NEW w \in adj'[Node(i)'] \ frames'[i].left, w \in onStack'
        PROVE  lowlinks'[Node(i)'] <= indices'[w]
    <3>1. w \in adj[Node(i + 1)] \ frames[i + 1].left /\ w \in onStack /\ i + 1 \in DOMAIN frames
      BY <1>1, <1>7, <2>1
    <3>2. QED
      BY <1>1, <1>18, <1>19, <3>1 DEF LowlinksBound
  <2>2. ASSUME NEW i \in DOMAIN frames', NEW v \in onStack', indices'[Node(i)'] < indices'[v],
               \A j \in 1..i - 1 : indices'[v] < indices'[Node(j)'],
               NEW w \in adj'[v] \cap onStack'
        PROVE  lowlinks'[Node(i)'] <= indices'[w]
    <3>1. v \in onStack /\ w \in adj[v] \cap onStack /\ indices[v] < indices[Current]
          /\ i + 1 \in DOMAIN frames /\ indices[Node(i + 1)] < indices[v]
      BY <1>1, <1>6, <1>7, <1>19, <2>2
    <3>2. \A j \in 1..(i + 1) - 1 : indices[v] < indices[Node(j)]
      <4> TAKE j \in 1..(i + 1) - 1
      <4>1. CASE j = 1
        BY <1>3, <3>1, <4>1
      <4>2. CASE j # 1
        <5>1. j - 1 \in 1..i - 1 /\ j - 1 \in DOMAIN frames' /\ (j - 1) + 1 = j
          BY <1>1, <1>3, <4>2
        <5>2. Node(j - 1)' = Node(j)
          BY <1>19, <5>1
        <5>3. QED
          BY <1>1, <2>2, <5>1, <5>2
      <4>3. QED
        BY <4>1, <4>2
    <3>3. lowlinks[Node(i + 1)] <= indices[w]
      BY <3>1, <3>2 DEF LowlinksBound
    <3>4. QED
      BY <1>1, <1>18, <1>19, <3>3
  <2>3. QED
    BY <2>1, <2>2 DEF LowlinksBound
<1>22. Reported'
  <2>1. Cardinality(scc) > 1 => scc \in Components
    BY <1>2, ReportedAfterPop DEF scc
  <2>2. \A c \in Components : \A v \in c : v \in scc => c = scc /\ Cardinality(scc) > 1
    BY <1>2, ReportedAfterPop DEF scc
  <2>3. sccs' \subseteq Components
    BY <1>5, <2>1 DEF Reported
  <2>4. ASSUME NEW c \in Components, NEW v \in c, Visited(v)', v \notin onStack' PROVE c \in sccs'
    <3>1. v \in Nodes
      BY <1>4, ReachableIsClosed DEF Components
    <3>2. CASE v \in onStack
      BY <1>5, <2>2, <2>4, <3>2
    <3>3. CASE v \notin onStack
      BY <1>1, <1>5, <2>4, <3>1, <3>3 DEF Reported
    <3>4. QED
      BY <3>2, <3>3
  <2>5. QED
    BY <1>1, <2>3, <2>4, ReachKept DEF Reported
<1>23. QED
  BY <1>12, <1>13, <1>14, <1>15, <1>16, <1>17, <1>20, <1>21, <1>22, LeaveKeeps

LEMMA DetectorStep == DetectorInvariant /\ [DetectorNext]_detectorVars => DetectorInvariant'
<1> SUFFICES ASSUME DetectorInvariant, [DetectorNext]_detectorVars PROVE DetectorInvariant'
  OBVIOUS
<1>1. ASSUME NEW v \in Nodes, StartFrom(v) PROVE DetectorInvariant'
  <2>1. frames = << >> /\ ~Visited(v) /\ Enter(v, << >>)
    BY <1>1 DEF StartFrom
  <2>2. << >> \in Seq(Frame) /\ Len(<< >>) = Len(frames) /\ DOMAIN frames = {}
    BY <2>1, EmptySeq
  <2>3. QED
    BY <2>1, <2>2, EnterStep
<1>2. ASSUME NEW w \in Nodes, Descend(w) PROVE DetectorInvariant'
  <2>1. frames # << >> /\ ~Visited(w) /\ Enter(w, LookedAt(w)) /\ w \in Head(frames).left
    BY <1>2 DEF Descend
  <2>2. /\ frames \in Seq(Frame) /\ 1 \in DOMAIN frames /\ Head(frames) = frames[1]
        /\ DOMAIN frames = 1..Len(frames) /\ frames[1] \in Frame
    BY <2>1, TopCall DEF DetectorInvariant, DetectorShape
  <2> DEFINE f == [frames[1] EXCEPT !.left = frames[1].left \ {w}]
  <2>3. f \in Frame /\ f.node = frames[1].node /\ f.left = frames[1].left \ {w}
    BY <2>2 DEF Frame
  <2>4. LookedAt(w) = [frames EXCEPT ![1] = f]
    BY DEF LookedAt
  <2> HIDE DEF f
  <2>5. /\ LookedAt(w) \in Seq(Frame) /\ Len(LookedAt(w)) = Len(frames)
        /\ \A i \in DOMAIN frames : LookedAt(w)[i] = IF i = 1 THEN f ELSE frames[i]
    BY <2>2, <2>3, <2>4, ExceptSeq
  <2>6. \A i \in DOMAIN frames :
           /\ LookedAt(w)[i].node = Node(i) /\ LookedAt(w)[i].left \subseteq frames[i].left
           /\ frames[i].left \ LookedAt(w)[i].left \subseteq {w}
    BY <2>3, <2>5 DEF Node
  <2>7. w \in adj[Node(1)]
    BY <2>1, <2>2 DEF DetectorInvariant, CallsInOrder
  <2>8. QED
    BY <2>1, <2>5, <2>6, <2>7, EnterStep
<1>3. CASE Leave
  BY <1>3, LeaveToCaller, LeaveAsRoot
<1>4. CASE UNCHANGED detectorVars
  <2>1. /\ adj' = adj /\ frames' = frames /\ stack' = stack /\ onStack' = onStack
        /\ indices' = indices /\ lowlinks' = lowlinks /\ index' = index /\ sccs' = sccs
    BY <1>4 DEF detectorVars
  <2>2. DetectorShape' /\ CallsInOrder' /\ StackInOrder'
    BY <2>1 DEF DetectorInvariant, DetectorShape, CallsInOrder, StackInOrder, Node, Visited
  <2>3. LookedUp' /\ PoppedIsClosed'
    BY <2>1 DEF DetectorInvariant, LookedUp, PoppedIsClosed, Node, Visited, Gray
  <2>4. CallsReachStack' /\ StackReachesCalls' /\ LowlinksReached' /\ LowlinksBound'
    BY <2>1, ReachKept DEF DetectorInvariant, CallsReachStack, StackReachesCalls,
       LowlinksReached, LowlinksBound, Node
  <2>5. Reported'
    BY <2>1, ReachKept DEF DetectorInvariant, Reported, Visited
  <2>6. QED
    BY <2>2, <2>3, <2>4, <2>5 DEF DetectorInvariant
<1>5. QED
  BY <1>1, <1>2, <1>3, <1>4, LookBackStep DEF DetectorNext

\* What Tarjan's algorithm rests on, whatever the order of nodes and edges,
\* holds between any two turns of the loops of detectCycles().
THEOREM DetectorInvariantHolds == DetectorSpec => []DetectorInvariant
<1>1. QED
  BY DetectorInitially, DetectorStep, PTL DEF DetectorSpec

\* For every finite graph, detectCycles() reports only sets of two or more
\* modules that import each other, each of them whole, and in the end all.
THEOREM CyclesAreReported == DetectorSpec => []ReportsComponents
<1>1. DetectorInvariant => ReportsComponents
  <2> SUFFICES ASSUME DetectorInvariant, Finished PROVE Components \subseteq sccs
    BY DEF ReportsComponents, DetectorInvariant, Reported, Finished
  <2>1. adj \in [Nodes -> SUBSET Nodes]
    BY DEF DetectorInvariant, DetectorShape
  <2>2. onStack = {}
    BY EmptySeq DEF Finished, DetectorInvariant, StackReachesCalls
  <2>3. ASSUME NEW c \in Components PROVE c \in sccs
    <3>1. c \in SUBSET Nodes /\ Cardinality(c) > 1
      BY <2>1, ReachableIsClosed DEF Components
    <3>2. PICK v \in c : TRUE
      BY <3>1, FS_EmptySet
    <3>3. QED
      BY <2>2, <3>1, <3>2 DEF Finished, DetectorInvariant, Reported
  <2>4. QED
    BY <2>3
<1>2. QED
  BY <1>1, DetectorInvariantHolds, PTL

LEMMA DetectorInvTypes == DetectorInvariant => DetectorTypeOK
<1> SUFFICES ASSUME DetectorInvariant PROVE DetectorTypeOK
  OBVIOUS
<1>1. \A i \in DOMAIN frames : frames[i].node \in Nodes /\ frames[i].left \subseteq adj[frames[i].node]
  BY DEF DetectorInvariant, CallsInOrder, Node, DetectorShape, ToSet
<1>2. IsInjective(stack)
  <2>1. DOMAIN stack = 1..Len(stack) /\ Len(stack) \in Nat
    BY LenProperties DEF DetectorInvariant, DetectorShape
  <2>2. \A i \in DOMAIN stack : indices[stack[i]] \in Int
    BY DEF DetectorInvariant, DetectorShape
  <2>3. \A i, j \in DOMAIN stack : i < j \/ j < i \/ i = j
    BY <2>1
  <2>4. \A i, j \in DOMAIN stack : i < j => stack[i] # stack[j]
    BY <2>2 DEF DetectorInvariant, StackInOrder
  <2>5. QED
    BY <2>3, <2>4 DEF IsInjective
<1>3. QED
  BY <1>1, <1>2 DEF DetectorInvariant, DetectorShape, DetectorTypeOK

-----------------------------------------------------------------------------
\* All four together.

\* A behaviour of the combined instance is one of each part.
LEMMA PartStep ==
  [PartNext]_parts => /\ [Next]_vars /\ [AlertNext]_alertVars
                      /\ [MigrationNext]_migrationVars /\ [DetectorNext]_detectorVars
BY DEF PartNext, parts

LEMMA AlertInvTypes == AlertInvariant /\ alerted \subseteq Rules => AlertTypeOK
BY DEF AlertInvariant, AgesOK, AlertTypeOK

\* The variables of the four keep their types: among them, the counter of
\* InFlightTracker is the number of requests that run, and the stack of
\* detectCycles() holds each node once.
THEOREM OperationsTypesHold == PartSpec => []OperationsTypesOK
<1> DEFINE Inv == /\ DrainInv /\ DetectorInvariant
                  /\ AlertInvariant /\ alerted \subseteq Rules
                  /\ MigrationInvariant /\ RecordsBounded
<1>1. PartInit => Inv
  BY DrainInit, AlertInitially, MigrationInitially, RecordsInitially, DetectorInitially
     DEF PartInit, AlertInit
<1>2. Inv /\ [PartNext]_parts => Inv'
  BY PartStep, DrainStep, AlertStep, AlertedStep, MigrationStep, RecordsStep, DetectorStep
<1>3. Inv => OperationsTypesOK
  BY AlertInvTypes, MigrationInvTypes, DetectorInvTypes DEF OperationsTypesOK, DrainInv
<1> HIDE DEF Inv
<1>4. QED
  BY <1>1, <1>2, <1>3, PTL DEF PartSpec

\* A run that checks the combined instance checks behaviours of each part, so what
\* is proved of a part holds there.
THEOREM PartsAreSpecified == PartSpec => Spec /\ AlertSpec /\ MigrationSpec /\ DetectorSpec
<1>1. PartInit => Init /\ AlertInit /\ MigrationInit /\ DetectorInit
  BY DEF PartInit
<1>2. QED
  BY <1>1, PartStep, PTL DEF PartSpec, Spec, AlertSpec, MigrationSpec, DetectorSpec

=============================================================================
