------------------------------ MODULE Webhooks ------------------------------
(***************************************************************************)
(* WebhookController (src/payments): deliveries of payment events by a     *)
(* provider that repeats them, the in-memory store that tells duplicates,  *)
(* and the application's handler.                                          *)
(*                                                                         *)
(* A delivery looks its event up, purges the store, marks the event and    *)
(* calls the handler in one step; the handler then settles at any time     *)
(* later.  The provider (external) repeats an event until it is answered   *)
(* 200, and sometimes after that.  Signatures and payloads, which only     *)
(* reject a delivery, are left out.                                        *)
(***************************************************************************)
EXTENDS Integers, InsertionOrder

CONSTANTS
  Events,
  Deliveries,     \* deliveries in progress at a time
  TTL,            \* STORE_TTL_MS
  MaxStore,       \* MAX_STORE_SIZE
  MaxTime         \* bound on the clock

ASSUME WebhooksAssumption ==
  /\ TTL \in Nat /\ MaxStore \in Nat /\ MaxTime \in Nat
  /\ "none" \notin Events

VARIABLES
  clock,
  store,          \* the Map of the store, in the order of insertion
  delivery,       \* the event each delivery is handling, and since when
  acked,          \* events answered 200
  handled,        \* the latest start of the handler for each event that ended well
  forgotten,      \* events whose mark was trimmed, or lost in a restart
  prompt,         \* whether handlers settle within the TTL
  serial          \* whether the provider waits for an answer before it repeats

vars == <<clock, store, delivery, acked, handled, forgotten, prompt, serial>>

Time == 0..MaxTime
Mark == [event : Events, at : Time]
NoEvent == [event |-> "none", at |-> 0]

None == -1

Running(e) == {d \in Deliveries : delivery[d] # NoEvent /\ delivery[d].event = e}

TypeOK ==
  /\ clock \in Time
  /\ store \in Seq(Mark)
  /\ \A i, j \in DOMAIN store :
       i < j => store[i].event # store[j].event /\ store[i].at <= store[j].at
  /\ Len(store) <= MaxStore + 1
  /\ delivery \in [Deliveries -> Mark \cup {NoEvent}]
  /\ acked \subseteq Events
  /\ handled \in [Events -> Time \cup {None}]
  /\ forgotten \subseteq Events
  /\ prompt \in BOOLEAN /\ serial \in BOOLEAN

Init ==
  /\ clock = 0
  /\ store = << >>
  /\ delivery = [d \in Deliveries |-> NoEvent]
  /\ acked = {}
  /\ handled = [e \in Events |-> None]
  /\ forgotten = {}
  /\ prompt \in BOOLEAN
  /\ serial \in BOOLEAN

\* Prompt handlers have settled before their mark expires.
Tick ==
  /\ clock < MaxTime
  /\ prompt => \A d \in Deliveries :
       delivery[d] # NoEvent => clock < delivery[d].at + TTL
  /\ clock' = clock + 1
  /\ UNCHANGED <<store, delivery, acked, handled, forgotten, prompt, serial>>

-----------------------------------------------------------------------------

\* Mutant: an entry expires when its age reaches the TTL.
YoungerThanTTL(mark) == clock - mark.at < TTL

\* An entry that tells a duplicate.
Fresh(mark) == clock - mark.at <= TTL

FreshMarks == {mark \in ToSet(store) : Fresh(mark)}

\* Mutant: only expired entries are removed.
EvictExpired == InOrder(store, FreshMarks)

\* evictStore(): expired entries go, then the oldest beyond MAX_STORE_SIZE.
EvictStore == {Trimmed(left, MaxStore) : left \in InOrder(store, FreshMarks)}

Duplicate(e) == \E i \in DOMAIN store : store[i].event = e /\ Fresh(store[i])

\* dispatchIfNew(): a duplicate is answered at once.
Skip(e) ==
  /\ serial => Running(e) = {}
  /\ Duplicate(e)
  /\ acked' = acked \cup {e}
  /\ UNCHANGED <<clock, store, delivery, handled, forgotten, prompt, serial>>

\* A new event is marked and its handler called.
Dispatch(d, e) ==
  /\ delivery[d] = NoEvent
  /\ serial => Running(e) = {}
  /\ ~Duplicate(e)
  /\ \E left \in EvictStore :
       /\ store' = Append(left, [event |-> e, at |-> clock])
       /\ forgotten' = forgotten \cup
            {mark.event : mark \in FreshMarks \ ToSet(left)}
  /\ delivery' = [delivery EXCEPT ![d] = [event |-> e, at |-> clock]]
  /\ UNCHANGED <<clock, acked, handled, prompt, serial>>

\* The handler resolves and the delivery is answered 200.
Succeed(d) ==
  /\ delivery[d] # NoEvent
  /\ handled' = [handled EXCEPT ![delivery[d].event] =
                   IF delivery[d].at > @ THEN delivery[d].at ELSE @]
  /\ acked' = acked \cup {delivery[d].event}
  /\ delivery' = [delivery EXCEPT ![d] = NoEvent]
  /\ UNCHANGED <<clock, store, forgotten, prompt, serial>>

\* Mutant: the mark of a failed event is kept.
FailMarked(d) ==
  /\ delivery[d] # NoEvent
  /\ delivery' = [delivery EXCEPT ![d] = NoEvent]
  /\ UNCHANGED <<clock, store, acked, handled, forgotten, prompt, serial>>

\* The handler rejects: the event's mark is removed, whoever set it, and the
\* delivery is answered with an error.
Fail(d) ==
  /\ delivery[d] # NoEvent
  /\ store' \in InOrder(store,
       {mark \in ToSet(store) : mark.event # delivery[d].event})
  /\ delivery' = [delivery EXCEPT ![d] = NoEvent]
  /\ UNCHANGED <<clock, acked, handled, forgotten, prompt, serial>>

\* The process restarts: the store and what was running are lost.
Restart ==
  /\ store' = << >>
  /\ delivery' = [d \in Deliveries |-> NoEvent]
  /\ forgotten' = Events
  /\ UNCHANGED <<clock, acked, handled, prompt, serial>>

Deliver(e) == Skip(e) \/ \E d \in Deliveries : Dispatch(d, e)

Next ==
  \/ Tick \/ Restart
  \/ \E e \in Events : Deliver(e)
  \/ \E d \in Deliveries : Succeed(d) \/ Fail(d)

Spec == Init /\ [][Next]_vars

\* The provider repeats what has not been answered 200, handlers settle,
\* and one that is called again and again succeeds at last.
FairSpec ==
  /\ Spec
  /\ \A e \in Events :
       /\ SF_vars(e \notin acked /\ Deliver(e))
       /\ SF_vars(\E d \in Running(e) : Succeed(d))

-----------------------------------------------------------------------------

\* While its mark lasts an event is not handled twice: when handlers settle
\* within the TTL, none starts while another handles the event or within the
\* TTL of one that ended well, however many deliveries overlap and whatever
\* else fails.  Marks are lost only to the size limit and to restarts.
OncePerTTL ==
  prompt => \A d \in Deliveries, e \in Events \ forgotten : d \in Running(e) =>
    /\ Running(e) = {d}
    /\ handled[e] # None => delivery[d].at > handled[e] + TTL

\* A provider that waits for the answer before it repeats an event gets it
\* handled, through failing handlers, eviction and restarts.
EventuallyHandled ==
  serial => \A e \in Events : <>(handled[e] # None)

-----------------------------------------------------------------------------
\* A statement of a comment that the code does not keep: TLC refutes it.

\* webhook.controller.ts:174: a failed event can be retried.  A duplicate that
\* was answered 200 while the handler ran ends the provider's retries.
AckedWasHandled ==
  \A e \in acked : Running(e) # {} \/ handled[e] # None

=============================================================================
