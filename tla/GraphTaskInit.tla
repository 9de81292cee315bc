--------------------------- MODULE GraphTaskInit ---------------------------
(***************************************************************************)
(* How Engine::execute prepares a GraphTask: compute_dependencies, then,    *)
(* when the caller names outputs, init_to_execute, both on every small      *)
(* graph (torch/csrc/autograd/engine.cpp).  Its results are the constants   *)
(* of AutogradEngine.                                                       *)
(*                                                                          *)
(* Nodes are numbered so that edges lead to smaller numbers; N is the root. *)
(***************************************************************************)
EXTENDS Naturals, Sequences, FiniteSets, Functions, FiniteSetsExt

CONSTANTS
  N,        \* number of Nodes
  MaxEdges, \* bound on next_edges() of a Node
  MaxTopo   \* bound on topological_nr()

ASSUME InitAssumption == N \in Nat \ {0} /\ MaxEdges \in Nat /\ MaxTopo \in Nat

Nodes == 1..N
Root == N

VARIABLES
  next,         \* next_edges() of each Node, the valid ones
  topo,         \* topological_nr() of each Node
  outputs,      \* the functions of the edges in outputs
  accumulate,   \* accumulate_grad: backward(), not grad()
  pc,
  queue,        \* compute_dependencies: Nodes to expand
  seen,         \* seen of the algorithm that runs
  dependencies, \* dependencies_
  needed,       \* exec_info_: Nodes with needed_
  stack         \* init_to_execute: Frames

graph == <<next, topo, outputs, accumulate>>
vars == <<graph, pc, queue, seen, dependencies, needed, stack>>

\* update_topological_nr keeps it above that of every next Node.  An edge that was
\* replaced since may have left it higher than the longest path.
TopologicalNrs ==
  {f \in [Nodes -> 0..MaxTopo] : \A n \in Nodes : \A i \in DOMAIN next[n] : f[n] > f[next[n][i]]}

Init ==
  /\ next \in {f \in [Nodes -> UNION {[1..k -> Nodes] : k \in 0..MaxEdges}] :
                 \A n \in Nodes : \A i \in DOMAIN f[n] : f[n][i] < n}
  /\ topo \in TopologicalNrs
  /\ outputs \in SUBSET Nodes
  /\ accumulate \in BOOLEAN
  /\ outputs = {} => accumulate
  /\ pc = "dependencies"
  /\ queue = {Root}
  /\ seen = {}
  /\ dependencies = [n \in Nodes |-> 0]
  /\ needed = {}
  /\ stack = <<>>

\* compute_min_topological_nr
MinTopologicalNr == IF outputs = {} THEN 0 ELSE Min({topo[n] : n \in outputs})

\* Mutant: the bound is off by one.
PrunedAtBound(n) == topo[n] \leq MinTopologicalNr

\* Too low to lead to an output.
Pruned(n) == topo[n] < MinTopologicalNr

Captured == IF accumulate THEN {} ELSE outputs

\* nodeShouldExecute
ShouldExecute(n) == n \in needed \cup Captured

Edges(n, m) == Cardinality({i \in DOMAIN next[n] : next[n][i] = m})

\* Mutant: parallel edges count once.
VisitOnce ==
  /\ pc = "dependencies"
  /\ \E fn \in queue :
       IF Pruned(fn)
       THEN queue' = queue \ {fn} /\ UNCHANGED <<seen, dependencies>>
       ELSE /\ dependencies' = [m \in Nodes |->
                 dependencies[m] + IF Edges(fn, m) > 0 THEN 1 ELSE 0]
            /\ queue' = (queue \ {fn}) \cup (Range(next[fn]) \ seen)
            /\ seen' = seen \cup Range(next[fn])
  /\ UNCHANGED <<graph, pc, needed, stack>>

\* A Node leaves the queue: its next Nodes depend on it, those not seen follow.
\* The order in which Nodes leave the queue does not matter.
Visit ==
  /\ pc = "dependencies"
  /\ \E fn \in queue :
       IF Pruned(fn)
       THEN queue' = queue \ {fn} /\ UNCHANGED <<seen, dependencies>>
       ELSE /\ dependencies' = [m \in Nodes |-> dependencies[m] + Edges(fn, m)]
            /\ queue' = (queue \ {fn}) \cup (Range(next[fn]) \ seen)
            /\ seen' = seen \cup Range(next[fn])
  /\ UNCHANGED <<graph, pc, needed, stack>>

\* A Frame of the depth-first search; i is the index of the next edge.
Frame(fn) == [fn |-> fn, i |-> 1]

\* init_to_execute is called only with outputs; (0) marks them.
InitToExecute ==
  /\ pc = "dependencies" /\ queue = {}
  /\ IF outputs = {}
     THEN pc' = "done" /\ UNCHANGED <<seen, needed, stack>>
     ELSE /\ pc' = "execute"
          /\ seen' = {}
          /\ needed' = IF accumulate THEN outputs ELSE {}
          /\ stack' = <<Frame(Root)>>
  /\ UNCHANGED <<graph, queue, dependencies>>

Top == stack[Len(stack)]
Parent == stack[Len(stack) - 1].fn

\* get_next_fn until a child that was not seen: its index, or the end.
NextUnseen ==
  Min({j \in Top.i..Len(next[Top.fn]) : next[Top.fn][j] \notin seen} \cup {Len(next[Top.fn]) + 1})

\* (1) the children passed over that should execute make their parent needed.
NeededBySeen ==
  needed \cup {Top.fn : j \in {k \in Top.i..(NextUnseen - 1) : ShouldExecute(next[Top.fn][k])}}

\* (2) the next child has not been seen.
Descend ==
  /\ pc = "execute" /\ stack # <<>>
  /\ NextUnseen \leq Len(next[Top.fn])
  /\ LET child == next[Top.fn][NextUnseen]
         here == [stack EXCEPT ![Len(stack)].i = NextUnseen + 1]
     IN /\ seen' = seen \cup {child}
        /\ stack' = IF Pruned(child) THEN here ELSE Append(here, Frame(child))
  /\ needed' = NeededBySeen
  /\ UNCHANGED <<graph, pc, queue, dependencies>>

\* (3) no child is left: the Node is final and tells its parent.
Return ==
  /\ pc = "execute" /\ stack # <<>>
  /\ NextUnseen > Len(next[Top.fn])
  /\ stack' = SubSeq(stack, 1, Len(stack) - 1)
  /\ needed' = NeededBySeen \cup
       IF Len(stack) > 1 /\ Top.fn \in NeededBySeen \cup Captured THEN {Parent} ELSE {}
  /\ UNCHANGED <<graph, pc, queue, seen, dependencies>>

Finish ==
  /\ pc = "execute" /\ stack = <<>>
  /\ pc' = "done"
  /\ UNCHANGED <<graph, queue, seen, dependencies, needed, stack>>

Done == pc = "done" /\ UNCHANGED vars

Next == Visit \/ InitToExecute \/ Descend \/ Return \/ Finish \/ Done

Spec == Init /\ [][Next]_vars

-----------------------------------------------------------------------------
\* The types of the search, in particular that no Frame is past its last edge.
TypeOK ==
  /\ pc \in {"dependencies", "execute", "done"}
  /\ queue \subseteq Nodes /\ seen \subseteq Nodes /\ needed \subseteq Nodes
  /\ dependencies \in [Nodes -> Nat]
  /\ \A k \in DOMAIN stack : stack[k].fn \in Nodes /\ stack[k].i \in 1..(Len(next[stack[k].fn]) + 1)

\* Reference: n has a path to an output.
Leads[n \in Nodes] ==
  \E i \in DOMAIN next[n] : next[n][i] \in outputs \/ Leads[next[n][i]]

\* Reference: there is a path from the root to n.
Reached[n \in Nodes] ==
  n = Root \/ \E m \in (n + 1)..N : Edges(m, n) > 0 /\ Reached[m]

\* What init_to_execute should find needed.
ShouldBeNeeded(n) == Leads[n] \/ (accumulate /\ n \in outputs)

\* "Only nodes that have a path to any edge in outputs should be executed": and
\* every one of them the root can reach, pruning and shared Nodes notwithstanding.
NeededIsPath ==
  pc = "done" /\ outputs # {} =>
    \A n \in Nodes : Reached[n] => (n \in needed <=> ShouldBeNeeded(n))

\* The Nodes that evaluate_function calls.
Executes(n) == Reached[n] /\ (outputs = {} \/ n \in needed)

\* The edges that lead from the Nodes in S to n.
EdgesFrom(S, n) ==
  {e \in S \X (1..MaxEdges) : e[2] \in DOMAIN next[e[1]] /\ next[e[1]][e[2]] = n}

\* A Node that should execute waits for exactly the edges of Nodes that will be
\* evaluated, and an evaluated Node finds a dependency for each of its edges: no
\* Node stays in not_ready_ and none runs early.  The searches stay in bounds.
DependenciesExact ==
  /\ TypeOK
  /\ pc = "done" => \A n \in Nodes \ {Root} :
       Reached[n] /\ (outputs = {} \/ ShouldExecute(n)) =>
         dependencies[n] = Cardinality(EdgesFrom({m \in Nodes : Executes(m)}, n))
  /\ pc = "done" => \A n, m \in Nodes :
       Executes(n) /\ Edges(n, m) > 0 => dependencies[m] \geq Edges(n, m)
=============================================================================
