---------------------------- MODULE CycleDetector ----------------------------
(***************************************************************************)
(* detectCycles() (src/graph/cycle-detector.ts): Tarjan's algorithm over   *)
(* the graph of module imports, one step per turn of its loops.            *)
(*                                                                         *)
(* The recursion is a stack of frames, each with the neighbours its loop   *)
(* has still to look at.  Nodes and edges come in any order.               *)
(***************************************************************************)
EXTENDS Integers, Sequences, FiniteSets, SequencesExt

CONSTANTS
  Nodes,
  MaxImports    \* bound: edges of the graph

ASSUME DetectorAssumption == MaxImports \in Nat /\ IsFiniteSet(Nodes)

VARIABLES
  adj,        \* the neighbours of each node
  frames,     \* calls of strongconnect() in progress: the node and the
              \* neighbours left to visit
  stack,
  onStack,
  indices,    \* the index of each node, None before its visit
  lowlinks,
  index,      \* the next index
  sccs        \* the components reported

detectorVars == <<adj, frames, stack, onStack, indices, lowlinks, index, sccs>>

Unvisited == -1

Visited(v) == indices[v] # Unvisited

DetectorTypeOK ==
  /\ adj \in [Nodes -> SUBSET Nodes]
  /\ \A i \in DOMAIN frames :
       /\ frames[i].node \in Nodes
       /\ frames[i].left \subseteq adj[frames[i].node]
  /\ IsInjective(stack)
  /\ ToSet(stack) = onStack
  /\ index = Cardinality({v \in Nodes : Visited(v)})
  /\ \A v \in Nodes : lowlinks[v] <= indices[v]

\* An import of a module by itself is an edge as well.
DetectorInit ==
  /\ \E edges \in UNION {kSubset(n, Nodes \X Nodes) : n \in 0..MaxImports} :
       adj = [v \in Nodes |-> {w \in Nodes : <<v, w>> \in edges}]
  /\ frames = << >>
  /\ stack = << >>
  /\ onStack = {}
  /\ indices = [v \in Nodes |-> Unvisited]
  /\ lowlinks = [v \in Nodes |-> Unvisited]
  /\ index = 0
  /\ sccs = {}

Current == Head(frames).node

\* strongconnect(v) is called.
Enter(v, callers) ==
  /\ frames' = << [node |-> v, left |-> adj[v]] >> \o callers
  /\ indices' = [indices EXCEPT ![v] = index]
  /\ lowlinks' = [lowlinks EXCEPT ![v] = index]
  /\ index' = index + 1
  /\ stack' = Append(stack, v)
  /\ onStack' = onStack \cup {v}
  /\ UNCHANGED <<adj, sccs>>

\* The outer loop comes to a node without an index.
StartFrom(v) ==
  /\ frames = << >>
  /\ ~Visited(v)
  /\ Enter(v, << >>)

LookedAt(w) == [frames EXCEPT ![1].left = @ \ {w}]

\* A neighbour that has no index yet.
Descend(w) ==
  /\ frames # << >>
  /\ w \in Head(frames).left
  /\ ~Visited(w)
  /\ Enter(w, LookedAt(w))

Lower(v, bound) == [lowlinks EXCEPT ![v] = IF bound < @ THEN bound ELSE @]

\* Mutant: every node with an index is taken for one on the stack.
BackEdgeToAny(w) == TRUE

BackEdge(w) == w \in onStack

\* A neighbour with an index bounds the lowlink if it is on the stack.
LookBack(w) ==
  /\ frames # << >>
  /\ w \in Head(frames).left
  /\ Visited(w)
  /\ frames' = LookedAt(w)
  /\ lowlinks' = IF BackEdge(w) THEN Lower(Current, indices[w]) ELSE lowlinks
  /\ UNCHANGED <<adj, stack, onStack, indices, index, sccs>>

\* From v to the top of the stack.
Popped(v) == {w \in onStack : indices[w] >= indices[v]}

\* The loop over the neighbours is done: a root pops its component, which is
\* reported if it has two nodes, and the caller takes over the lowlink.
Leave ==
  /\ frames # << >>
  /\ Head(frames).left = {}
  /\ LET v   == Current
         scc == IF lowlinks[v] = indices[v] THEN Popped(v) ELSE {}
     IN  /\ stack' = SubSeq(stack, 1, Len(stack) - Cardinality(scc))
         /\ onStack' = onStack \ scc
         /\ sccs' = IF Cardinality(scc) > 1 THEN sccs \cup {scc} ELSE sccs
         /\ frames' = Tail(frames)
         /\ lowlinks' = IF Tail(frames) = << >> THEN lowlinks
                        ELSE Lower(Head(Tail(frames)).node, lowlinks[v])
  /\ UNCHANGED <<adj, indices, index>>

DetectorNext ==
  \/ \E v \in Nodes : StartFrom(v) \/ Descend(v) \/ LookBack(v)
  \/ Leave

DetectorSpec == DetectorInit /\ [][DetectorNext]_detectorVars

-----------------------------------------------------------------------------

\* Nodes that can be reached from v, in at least one step.
Reachable(v) ==
  LET grown[n \in 0..Cardinality(Nodes)] ==
        IF n = 0 THEN adj[v]
        ELSE grown[n - 1] \cup UNION {adj[w] : w \in grown[n - 1]}
  IN  grown[Cardinality(Nodes)]

\* The components of two or more nodes, by their definition.
Components ==
  {c \in {{w \in Reachable(v) : v \in Reachable(w)} : v \in Nodes} : Cardinality(c) > 1}

Finished == frames = << >> /\ \A v \in Nodes : Visited(v)

\* Whatever the order of nodes and edges, the result is the sets of two or more
\* modules that import each other, directly or not; and a set is reported only
\* if it is one, even before the end.
ReportsComponents ==
  /\ sccs \subseteq Components
  /\ Finished => sccs = Components

-----------------------------------------------------------------------------
\* Statements of the documentation, comments or tests that the code does not
\* keep: TLC refutes each of them.

\* cycle-detector.ts:4: an empty array means an acyclic graph.
EmptyIsAcyclic ==
  Finished /\ sccs = {} => \A v \in Nodes : v \notin Reachable(v)

=============================================================================
