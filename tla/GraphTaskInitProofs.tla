-------------------------- MODULE GraphTaskInitProofs --------------------------
(***************************************************************************)
(* Proofs that compute_dependencies and init_to_execute find, on every     *)
(* graph, the Nodes with a path to an output and the number of edges each  *)
(* of them waits for.                                                      *)
(*                                                                         *)
(* Induction over a graph is written with a Node of least or greatest      *)
(* number among those that would contradict the claim (Least, Greatest).   *)
(***************************************************************************)
EXTENDS GraphTaskInit, FiniteSetTheorems, WellFoundedInduction, TLAPS

\* The graph that Engine::execute is given.
GraphOK ==
  /\ next \in [Nodes -> UNION {[1..k -> Nodes] : k \in 0..MaxEdges}]
  /\ \A n \in Nodes : \A i \in DOMAIN next[n] : next[n][i] < n
  /\ topo \in TopologicalNrs
  /\ outputs \in SUBSET Nodes /\ accumulate \in BOOLEAN /\ (outputs = {} => accumulate)

Children(n) == {next[n][i] : i \in DOMAIN next[n]}

\* What (0) marks: an output that backward() accumulates into.
Marked(n) == accumulate /\ n \in outputs

\* A Node to be executed or captured, or one that leads to such a Node.
Wanted(n) == n \in outputs \/ Leads[n]

\* compute_dependencies has expanded the Nodes in V.
Counted(V) ==
  \A m \in Nodes : dependencies[m] = Cardinality(EdgesFrom({n \in V : ~Pruned(n)}, m))

\* V holds the root and, but for the pruned ones, the children of its members.
ClosedUnderNext(V) ==
  /\ V \subseteq Nodes /\ Root \in V
  /\ \A n \in V : Pruned(n) \/ Children(n) \subseteq V

Expanded == (seen \cup {Root}) \ queue

\* While compute_dependencies runs: the Nodes that left the queue are counted, and
\* their children were seen.
VisitInv ==
  pc = "dependencies" =>
    /\ needed = {} /\ stack = <<>>
    /\ queue \subseteq seen \cup {Root} /\ Root \notin seen
    /\ \A n \in Expanded : Pruned(n) \/ Children(n) \subseteq seen
    /\ \A n \in seen : Reached[n]
    /\ Counted(Expanded)

\* Afterwards: all the Nodes that matter are counted.
CountedInv ==
  pc # "dependencies" =>
    \E V \in SUBSET Nodes :
      ClosedUnderNext(V) /\ (\A n \in V : Reached[n]) /\ Counted(V)

\* An edge of n before the i-th leads to an output.
Passed(n, i) == \E j \in 1..(i - 1) : Wanted(next[n][j])

\* The edges of the k-th Frame that its Node knows the answer of: a Frame below
\* the top is still waiting for the one of its last edge.
Answered(k) == IF k = Len(stack) THEN stack[k].i ELSE stack[k].i - 1

FrameSet == [fn : Nodes, i : Nat]

OnStack == {stack[k].fn : k \in DOMAIN stack}

\* A Frame: its Node and the edges before i were seen, and the last of them, if
\* the Frame is not the top, leads to the Node of the next Frame.
FrameInv(k) ==
  /\ stack[k].fn \in seen \cup {Root}
  /\ stack[k].i \in 1..(Len(next[stack[k].fn]) + 1)
  /\ \A j \in 1..(stack[k].i - 1) : next[stack[k].fn][j] \in seen
  /\ stack[k].fn \in needed <=> Marked(stack[k].fn) \/ Passed(stack[k].fn, Answered(k))
  /\ k < Len(stack) =>
       stack[k].i \geq 2 /\ next[stack[k].fn][stack[k].i - 1] = stack[k + 1].fn

FramesInv ==
  /\ stack \in Seq(FrameSet)
  /\ \A k \in DOMAIN stack : FrameInv(k)
  /\ \A k, l \in DOMAIN stack : k < l => stack[k].fn > stack[l].fn

\* A Node that the search is done with.
Settled(n) ==
  /\ n \in needed <=> Marked(n) \/ Leads[n]
  /\ Pruned(n) \/ Children(n) \subseteq seen

\* While init_to_execute runs.
SearchInv ==
  pc = "execute" =>
    /\ outputs # {} /\ Root \notin seen
    /\ FramesInv
    /\ \A n \in (seen \cup {Root}) \ OnStack : Settled(n)
    /\ \A n \in Nodes \ (seen \cup {Root}) : n \in needed <=> Marked(n)

\* Afterwards: the Nodes that matter were settled.
SettledInv ==
  pc = "done" /\ outputs # {} =>
    \E V \in SUBSET Nodes :
      /\ ClosedUnderNext(V)
      /\ \A n \in V : n \in needed <=> Marked(n) \/ Leads[n]
      /\ \A n \in Nodes \ V : n \in needed <=> Marked(n)

IInv ==
  /\ GraphOK /\ TypeOK
  /\ VisitInv /\ CountedInv /\ SearchInv /\ SettledInv


-----------------------------------------------------------------------------
\* A set of natural numbers has a least element.
LEMMA Least ==
  ASSUME NEW S, S \subseteq Nat, S # {}
  PROVE  \E x \in S : \A y \in S : x \leq y
<1> DEFINE R == {ss \in Nat \X Nat : ss[1] < ss[2]}
<1>1. IsWellFoundedOn(R, Nat)
  BY NatLessThanWellFounded DEF OpToRel
<1>2. \A y, x \in Nat : <<y, x>> \in R <=> y < x
  OBVIOUS
<1> HIDE DEF R
<1>3. PICK x \in S : \A y \in S : ~(<<y, x>> \in R)
  BY <1>1, WFMin
<1>4. \A y \in S : ~(y < x)
  BY <1>2, <1>3
<1> QED
  BY <1>4

\* A set of Nodes has a greatest element.
LEMMA Greatest ==
  ASSUME NEW S, S \subseteq Nodes, S # {}
  PROVE  \E x \in S : \A y \in S : y \leq x
<1> DEFINE T == {N - x : x \in S}
<1>0. N \in Nat /\ S \subseteq 1..N
  BY InitAssumption DEF Nodes
<1>1. T \subseteq Nat /\ T # {}
  BY <1>0
<1>2. PICK t \in T : \A u \in T : t \leq u
  BY <1>1, Least
<1>3. PICK x \in S : t = N - x
  OBVIOUS
<1>4. \A y \in S : N - x \leq N - y
  BY <1>2, <1>3
<1>5. \A y \in S : y \leq x
  BY <1>0, <1>4
<1> QED
  BY <1>5

\* The least element is the one that Min chooses.
LEMMA MinFacts ==
  ASSUME NEW S, S \subseteq Nat, S # {}
  PROVE  Min(S) \in S /\ \A y \in S : Min(S) \leq y
<1>1. \E x \in S : \A y \in S : x =< y
  BY Least
<1> QED
  BY <1>1 DEF Min

-----------------------------------------------------------------------------
\* The edges of a Node lead to smaller ones.
LEMMA NextFacts ==
  ASSUME GraphOK, NEW n \in Nodes
  PROVE  /\ next[n] \in Seq(Nodes) /\ Len(next[n]) \in 0..MaxEdges
         /\ DOMAIN next[n] = 1..Len(next[n])
         /\ \A i \in DOMAIN next[n] : next[n][i] \in Nodes /\ next[n][i] < n
         /\ \A i \in DOMAIN next[n] : topo[n] > topo[next[n][i]]
         /\ Children(n) \subseteq Nodes /\ Root \notin Children(n) /\ n \notin Children(n)
         /\ topo[n] \in Nat /\ n \in Nat /\ n \leq N
<1>0. N \in Nat /\ Nodes = 1..N /\ Root = N /\ MaxEdges \in Nat /\ MaxTopo \in Nat
  BY InitAssumption DEF Nodes, Root
<1>1. PICK k \in 0..MaxEdges : next[n] \in [1..k -> Nodes]
  BY DEF GraphOK
<1>2. next[n] \in Seq(Nodes) /\ Len(next[n]) = k /\ DOMAIN next[n] = 1..k
  BY <1>0, <1>1
<1>3. \A i \in DOMAIN next[n] : next[n][i] \in Nodes /\ next[n][i] < n
  BY <1>1, <1>2 DEF GraphOK
<1>4. /\ \A i \in DOMAIN next[n] : topo[n] > topo[next[n][i]]
      /\ topo[n] \in Nat
  BY <1>0 DEF GraphOK, TopologicalNrs
<1>5. n \in Nat /\ n \leq N
  BY <1>0
<1>6. Children(n) \subseteq Nodes /\ Root \notin Children(n) /\ n \notin Children(n)
  BY <1>0, <1>3, <1>5 DEF Children
<1> QED
  BY <1>0, <1>1, <1>2, <1>3, <1>4, <1>5, <1>6

\* The number of edges between two Nodes.
LEMMA EdgesFacts ==
  ASSUME GraphOK, NEW n \in Nodes, NEW m \in Nodes
  PROVE  /\ Edges(n, m) \in Nat /\ (Edges(n, m) > 0 <=> m \in Children(n))
         /\ IsFiniteSet({i \in DOMAIN next[n] : next[n][i] = m})
<1> DEFINE S == {i \in DOMAIN next[n] : next[n][i] = m}
<1>1. Len(next[n]) \in Nat /\ DOMAIN next[n] = 1..Len(next[n])
  BY NextFacts, InitAssumption
<1>2. IsFiniteSet(1..Len(next[n])) /\ S \in SUBSET (1..Len(next[n]))
  BY <1>1, FS_Interval
<1>3. IsFiniteSet(S)
  BY <1>2, FS_Subset
<1>4. Cardinality(S) \in Nat /\ (Cardinality(S) = 0 <=> S = {})
  BY <1>3, FS_CardinalityType, FS_EmptySet
<1>5. S # {} <=> m \in Children(n)
  BY DEF Children
<1> QED
  BY <1>3, <1>4, <1>5 DEF Edges

\* Leads is what its recursive definition says: the least set of Nodes that is
\* closed under it is a solution.
LEMMA LeadsFacts ==
  ASSUME GraphOK
  PROVE  \A n \in Nodes : Leads[n] <=> \E i \in DOMAIN next[n] : Wanted(next[n][i])
<1> DEFINE Step(n, S) == \E i \in DOMAIN next[n] : next[n][i] \in outputs \/ next[n][i] \in S
           Closed(S) == \A n \in Nodes : Step(n, S) => n \in S
           L == {n \in Nodes : \A S \in SUBSET Nodes : Closed(S) => n \in S}
           F == [n \in Nodes |-> n \in L]
<1>1. Closed(L)
  <2> SUFFICES ASSUME NEW n \in Nodes, Step(n, L), NEW S \in SUBSET Nodes, Closed(S)
               PROVE  n \in S
    OBVIOUS
  <2>1. L \subseteq S
    OBVIOUS
  <2>2. Step(n, S)
    BY <2>1
  <2> QED
    BY <2>2
<1>2. ASSUME NEW n \in L PROVE Step(n, L)
  <2> SUFFICES ASSUME ~Step(n, L) PROVE FALSE
    OBVIOUS
  <2>1. Closed(L \ {n})
    <3> SUFFICES ASSUME NEW m \in Nodes, Step(m, L \ {n}) PROVE m \in L \ {n}
      OBVIOUS
    <3>1. Step(m, L)
      OBVIOUS
    <3>2. m \in L
      BY <1>1, <3>1
    <3> QED
      BY <3>1, <3>2
  <2>2. L \ {n} \in SUBSET Nodes
    OBVIOUS
  <2> QED
    BY <2>1, <2>2
<1>3. \A n \in Nodes : n \in L <=> Step(n, L)
  BY <1>1, <1>2
<1>4. \A n \in Nodes : \A i \in DOMAIN next[n] : next[n][i] \in Nodes
  BY NextFacts
<1>5. \A n \in Nodes : F[n] = (n \in L)
  OBVIOUS
<1> HIDE DEF L
<1> HIDE DEF F
<1>6. ASSUME NEW n \in Nodes
      PROVE  F[n] = (\E i \in DOMAIN next[n] : next[n][i] \in outputs \/ F[next[n][i]])
  <2>1. \A i \in DOMAIN next[n] : F[next[n][i]] = (next[n][i] \in L)
    BY <1>4, <1>5
  <2> DEFINE P == \E i \in DOMAIN next[n] : next[n][i] \in outputs \/ F[next[n][i]]
  <2>2. P <=> Step(n, L)
    BY <2>1
  <2>3. n \in L <=> Step(n, L)
    BY <1>3
  <2>4. F[n] = (n \in L)
    BY <1>5
  <2>5. P \in BOOLEAN /\ (n \in L) \in BOOLEAN
    OBVIOUS
  <2> HIDE DEF Step, P
  <2>6. (n \in L) = P
    BY <2>2, <2>3, <2>5
  <2>7. F[n] = P
    BY <2>4, <2>6
  <2> QED
    BY <2>7 DEF P
<1>7. F = [n \in Nodes |-> \E i \in DOMAIN next[n] : next[n][i] \in outputs \/ F[next[n][i]]]
  <2>1. F = [n \in Nodes |-> F[n]]
    BY DEF F
  <2> QED
    BY <1>6, <2>1, Zenon
<1>8. Leads = [n \in Nodes |-> \E i \in DOMAIN next[n] : \/ next[n][i] \in outputs
                                                         \/ Leads[next[n][i]]]
  BY <1>7 DEF Leads
<1>9. \A n \in Nodes : Leads[n] = (\E i \in DOMAIN next[n] : \/ next[n][i] \in outputs
                                                             \/ Leads[next[n][i]])
  BY <1>8
<1> QED
  BY <1>9 DEF Wanted

\* So is Reached.
LEMMA ReachedFacts ==
  ASSUME GraphOK
  PROVE  \A n \in Nodes :
           Reached[n] <=> n = Root \/ \E m \in Nodes : n \in Children(m) /\ Reached[m]
<1> DEFINE Step(n, S) == n = Root \/ \E m \in (n + 1)..N : Edges(m, n) > 0 /\ m \in S
           Closed(S) == \A n \in Nodes : Step(n, S) => n \in S
           L == {n \in Nodes : \A S \in SUBSET Nodes : Closed(S) => n \in S}
           F == [n \in Nodes |-> n \in L]
<1>1. Closed(L)
  <2> SUFFICES ASSUME NEW n \in Nodes, Step(n, L), NEW S \in SUBSET Nodes, Closed(S)
               PROVE  n \in S
    OBVIOUS
  <2>1. L \subseteq S
    OBVIOUS
  <2>2. Step(n, S)
    BY <2>1
  <2> QED
    BY <2>2
<1>2. ASSUME NEW n \in L PROVE Step(n, L)
  <2> SUFFICES ASSUME ~Step(n, L) PROVE FALSE
    OBVIOUS
  <2>1. Closed(L \ {n})
    <3> SUFFICES ASSUME NEW m \in Nodes, Step(m, L \ {n}) PROVE m \in L \ {n}
      OBVIOUS
    <3>1. Step(m, L)
      OBVIOUS
    <3>2. m \in L
      BY <1>1, <3>1
    <3> QED
      BY <3>1, <3>2
  <2>2. L \ {n} \in SUBSET Nodes
    OBVIOUS
  <2> QED
    BY <2>1, <2>2
<1>3. \A n \in Nodes : n \in L <=> Step(n, L)
  BY <1>1, <1>2
<1>4. \A n \in Nodes : (n + 1)..N \subseteq Nodes
  BY InitAssumption DEF Nodes
<1>5. \A n \in Nodes : F[n] = (n \in L)
  OBVIOUS
<1> HIDE DEF L
<1> HIDE DEF F
<1>6. ASSUME NEW n \in Nodes
      PROVE  F[n] = (n = Root \/ \E m \in (n + 1)..N : Edges(m, n) > 0 /\ F[m])
  <2>1. \A m \in (n + 1)..N : F[m] = (m \in L)
    BY <1>4, <1>5
  <2> DEFINE P == n = Root \/ \E m \in (n + 1)..N : Edges(m, n) > 0 /\ F[m]
  <2>2. P <=> Step(n, L)
    BY <2>1
  <2>3. n \in L <=> Step(n, L)
    BY <1>3
  <2>4. F[n] = (n \in L)
    BY <1>5
  <2>5. P \in BOOLEAN /\ (n \in L) \in BOOLEAN
    OBVIOUS
  <2> HIDE DEF Step, P
  <2>6. (n \in L) = P
    BY <2>2, <2>3, <2>5
  <2>7. F[n] = P
    BY <2>4, <2>6
  <2> QED
    BY <2>7 DEF P
<1>7. F = [n \in Nodes |-> n = Root \/ \E m \in (n + 1)..N : Edges(m, n) > 0 /\ F[m]]
  <2>1. F = [n \in Nodes |-> F[n]]
    BY DEF F
  <2> QED
    BY <1>6, <2>1, Zenon
<1>8. Reached = [n \in Nodes |-> n = Root \/ \E m \in (n + 1)..N : Edges(m, n) > 0 /\ Reached[m]]
  BY <1>7 DEF Reached
<1>9. \A n \in Nodes :
        Reached[n] = (n = Root \/ \E m \in (n + 1)..N : Edges(m, n) > 0 /\ Reached[m])
  BY <1>8
<1>10. ASSUME NEW n \in Nodes, NEW m \in Nodes
       PROVE  m \in (n + 1)..N /\ Edges(m, n) > 0 <=> n \in Children(m)
  <2>1. Edges(m, n) > 0 <=> n \in Children(m)
    BY EdgesFacts
  <2>2. n \in Children(m) => n < m
    BY NextFacts DEF Children
  <2>3. m \in (n + 1)..N <=> n < m
    BY InitAssumption DEF Nodes
  <2> QED
    BY <2>1, <2>2, <2>3
<1> QED
  BY <1>4, <1>9, <1>10

-----------------------------------------------------------------------------
\* A Node on the way to an output is not pruned: topological numbers fall along
\* every edge.
LEMMA WantedNotPruned ==
  ASSUME GraphOK, NEW n \in Nodes, outputs = {} \/ Wanted(n)
  PROVE  ~Pruned(n)
<1> DEFINE T == {topo[m] : m \in outputs}
<1>0. \A m \in Nodes : topo[m] \in Nat
  BY NextFacts
<1>1. CASE outputs = {}
  BY <1>0, <1>1 DEF Pruned, MinTopologicalNr
<1>2. CASE outputs # {}
  <2>1. outputs \subseteq Nodes /\ T \subseteq Nat /\ T # {}
    BY <1>0, <1>2 DEF GraphOK
  <2>2. Min(T) \in Nat /\ \A m \in outputs : Min(T) \leq topo[m]
    BY <2>1, MinFacts
  <2>3. MinTopologicalNr = Min(T)
    BY <1>2 DEF MinTopologicalNr
  <2> HIDE DEF T
  <2> DEFINE S == {m \in Nodes : Leads[m] /\ topo[m] < Min(T)}
  <2>4. S = {}
    <3> SUFFICES ASSUME S # {} PROVE FALSE
      OBVIOUS
    <3>1. S \subseteq Nat
      BY InitAssumption DEF Nodes
    <3>2. PICK x \in S : \A y \in S : x \leq y
      BY <3>1, Least
    <3>3. PICK i \in DOMAIN next[x] : Wanted(next[x][i])
      BY LeadsFacts
    <3>4. next[x][i] \in Nodes /\ next[x][i] < x /\ topo[x] > topo[next[x][i]] /\ x \in Nat
      BY NextFacts
    <3>5. topo[x] \in Nat /\ topo[next[x][i]] \in Nat /\ topo[x] < Min(T)
      BY <1>0, <3>4
    <3>6. topo[next[x][i]] < Min(T)
      BY <2>2, <3>4, <3>5
    <3>7. next[x][i] \notin outputs
      BY <1>0, <2>2, <3>4, <3>6
    <3>8. next[x][i] \in S
      BY <3>3, <3>4, <3>6, <3>7 DEF Wanted
    <3>9. next[x][i] \in Nat
      BY <3>1, <3>8
    <3> QED
      BY <3>2, <3>4, <3>8, <3>9
  <2>5. Leads[n] => ~(topo[n] < Min(T))
    BY <2>4
  <2>6. n \in outputs => ~(topo[n] < Min(T))
    BY <1>0, <2>2
  <2> QED
    BY <1>2, <2>3, <2>5, <2>6 DEF Pruned, Wanted
<1> QED
  BY <1>1, <1>2

\* An edge to a Node on the way makes its own Node one.
LEMMA WantedBack ==
  ASSUME GraphOK, NEW m \in Nodes, NEW n \in Children(m), Wanted(n)
  PROVE  Leads[m] /\ Wanted(m)
<1>1. \E i \in DOMAIN next[m] : Wanted(next[m][i])
  BY DEF Children
<1>2. Leads[m]
  BY <1>1, LeadsFacts
<1> QED
  BY <1>2 DEF Wanted

\* Every Node that matters is in a set that a search closes: the greatest one that
\* is not has a parent in it, and the parent, on the way too, was not pruned.
LEMMA WantedFound ==
  ASSUME GraphOK, NEW V, ClosedUnderNext(V),
         NEW n \in Nodes, Reached[n], outputs = {} \/ Wanted(n)
  PROVE  n \in V
<1> DEFINE S == {m \in Nodes : Reached[m] /\ (outputs = {} \/ Wanted(m)) /\ m \notin V}
<1> SUFFICES ASSUME n \notin V PROVE FALSE
  OBVIOUS
<1>1. n \in S
  OBVIOUS
<1>2. PICK x \in S : \A y \in S : y \leq x
  BY <1>1, Greatest
<1>3. x # Root
  BY DEF ClosedUnderNext
<1>4. PICK m \in Nodes : x \in Children(m) /\ Reached[m]
  BY <1>3, ReachedFacts
<1>5. x < m /\ m \in Nat /\ x \in Nat
  BY <1>4, NextFacts DEF Children
<1>6. outputs = {} \/ Wanted(m)
  BY <1>4, WantedBack
<1>7. m \in V
  BY <1>2, <1>4, <1>5, <1>6
<1>8. ~Pruned(m)
  BY <1>6, WantedNotPruned
<1>9. x \in V
  BY <1>4, <1>7, <1>8 DEF ClosedUnderNext
<1> QED
  BY <1>9

-----------------------------------------------------------------------------
\* The edges from a set of Nodes can be counted.
LEMMA EdgesFromFinite ==
  ASSUME GraphOK, NEW S \in SUBSET Nodes, NEW m \in Nodes
  PROVE  IsFiniteSet(EdgesFrom(S, m)) /\ Cardinality(EdgesFrom(S, m)) \in Nat
<1>1. IsFiniteSet(1..MaxEdges) /\ IsFiniteSet(1..N)
  BY InitAssumption, FS_Interval
<1>2. IsFiniteSet((1..N) \X (1..MaxEdges))
  BY <1>1, FS_Product
<1>3. EdgesFrom(S, m) \in SUBSET ((1..N) \X (1..MaxEdges))
  BY DEF EdgesFrom, Nodes
<1>4. IsFiniteSet(EdgesFrom(S, m))
  BY <1>2, <1>3, FS_Subset
<1> QED
  BY <1>4, FS_CardinalityType

\* Those from one Node are the ones that Edges counts.
LEMMA EdgesFromOne ==
  ASSUME GraphOK, NEW n \in Nodes, NEW m \in Nodes
  PROVE  Cardinality(EdgesFrom({n}, m)) = Edges(n, m)
<1> DEFINE A == {i \in DOMAIN next[n] : next[n][i] = m}
           B == EdgesFrom({n}, m)
           f == [i \in A |-> <<n, i>>]
<1>1. IsFiniteSet(A)
  BY EdgesFacts
<1>2. DOMAIN next[n] \subseteq 1..MaxEdges
  BY NextFacts, InitAssumption
<1>3. \A i \in A : <<n, i>> \in B
  BY <1>2 DEF EdgesFrom
<1>4. \A e \in B : e[2] \in A /\ e = <<n, e[2]>>
  BY DEF EdgesFrom
<1> HIDE DEF A, B
<1>5. f \in Bijection(A, B)
  <2>1. f \in [A -> B]
    BY <1>3
  <2>2. \A i, j \in A : f[i] = f[j] => i = j
    OBVIOUS
  <2>3. \A e \in B : \E i \in A : f[i] = e
    BY <1>4
  <2> QED
    BY <2>1, <2>2, <2>3 DEF Bijection, Injection, Surjection, IsInjective
<1>6. ExistsBijection(A, B)
  BY <1>5 DEF ExistsBijection
<1>7. Cardinality(B) = Cardinality(A)
  BY <1>1, <1>6, FS_Bijection
<1> QED
  BY <1>7 DEF A, B, Edges

\* Expanding one more Node adds its edges.
LEMMA EdgesFromAdd ==
  ASSUME GraphOK, NEW S \in SUBSET Nodes, NEW n \in Nodes, n \notin S, NEW m \in Nodes
  PROVE  Cardinality(EdgesFrom(S \cup {n}, m)) = Cardinality(EdgesFrom(S, m)) + Edges(n, m)
<1> DEFINE A == EdgesFrom(S, m)
           B == EdgesFrom({n}, m)
<1>1. IsFiniteSet(A) /\ IsFiniteSet(B) /\ Cardinality(A) \in Nat /\ Cardinality(B) \in Nat
  BY EdgesFromFinite
<1>2. A \cup B = EdgesFrom(S \cup {n}, m)
  BY DEF EdgesFrom
<1>3. A \cap B = {}
  BY DEF EdgesFrom
<1>4. Cardinality(B) = Edges(n, m)
  BY EdgesFromOne
<1> HIDE DEF A, B
<1>5. Cardinality(A \cup B) = Cardinality(A) + Cardinality(B) - Cardinality(A \cap B)
  BY <1>1, FS_Union
<1>6. Cardinality(A \cap B) = 0
  BY <1>3, FS_EmptySet
<1>7. Cardinality(A \cup B) = Cardinality(A) + Cardinality(B)
  BY <1>1, <1>5, <1>6
<1> QED
  BY <1>2, <1>4, <1>7 DEF A

\* The edges of a Node are among those of a set it is in.
LEMMA EdgesFromMember ==
  ASSUME GraphOK, NEW S \in SUBSET Nodes, NEW n \in S, NEW m \in Nodes
  PROVE  Cardinality(EdgesFrom(S, m)) \geq Edges(n, m)
<1>1. EdgesFrom({n}, m) \in SUBSET EdgesFrom(S, m)
  BY DEF EdgesFrom
<1>2. IsFiniteSet(EdgesFrom(S, m)) /\ Cardinality(EdgesFrom(S, m)) \in Nat
  BY EdgesFromFinite
<1>3. Cardinality(EdgesFrom({n}, m)) \leq Cardinality(EdgesFrom(S, m))
  BY <1>1, <1>2, FS_Subset
<1>4. Cardinality(EdgesFrom({n}, m)) = Edges(n, m) /\ Edges(n, m) \in Nat
  BY EdgesFromOne, EdgesFacts
<1> QED
  BY <1>2, <1>3, <1>4

-----------------------------------------------------------------------------
\* Execution starts with nothing counted.
LEMMA InitIInv == Init => IInv
<1> SUFFICES ASSUME Init PROVE IInv
  OBVIOUS
<1>0. N \in Nat /\ Nodes = 1..N /\ Root \in Nodes
  BY InitAssumption DEF Nodes, Root
<1>1. GraphOK
  BY DEF Init, GraphOK
<1>2. TypeOK
  BY <1>0 DEF Init, TypeOK
<1>3. VisitInv
  <2>1. Expanded = {}
    BY DEF Expanded, Init
  <2>2. \A m \in Nodes : EdgesFrom({n \in {} : ~Pruned(n)}, m) = {}
    BY DEF EdgesFrom
  <2>3. Counted({})
    BY <2>2, FS_EmptySet DEF Counted, Init
  <2> QED
    BY <2>1, <2>3 DEF Init, VisitInv
<1> QED
  BY <1>1, <1>2, <1>3 DEF Init, IInv, CountedInv, SearchInv, SettledInv

\* What a step that leaves the graph alone leaves alone with it.
LEMMA SameGraph ==
  ASSUME UNCHANGED graph
  PROVE  /\ \A n : Children(n)' = Children(n) /\ (Pruned(n)' <=> Pruned(n))
         /\ \A n : (Marked(n)' <=> Marked(n)) /\ (Wanted(n)' <=> Wanted(n))
         /\ \A n \in Nodes : (Leads[n]' <=> Leads[n]) /\ (Reached[n]' <=> Reached[n])
         /\ \A n, i : Passed(n, i)' <=> Passed(n, i)
         /\ \A S, n : EdgesFrom(S, n)' = EdgesFrom(S, n)
         /\ \A n, m : Edges(n, m)' = Edges(n, m)
         /\ \A V : ClosedUnderNext(V)' <=> ClosedUnderNext(V)
         /\ GraphOK' <=> GraphOK
<1>0. next' = next /\ topo' = topo /\ outputs' = outputs /\ accumulate' = accumulate
  BY DEF graph
<1>1. \A n : Children(n)' = Children(n)
  BY <1>0 DEF Children
<1>2. \A n : Pruned(n)' <=> Pruned(n)
  BY <1>0 DEF Pruned, MinTopologicalNr
<1>3. Leads' = Leads
  BY <1>0 DEF Leads
<1>4. \A S, n : EdgesFrom(S, n)' = EdgesFrom(S, n)
  BY <1>0 DEF EdgesFrom
<1>5. \A n, m : Edges(n, m)' = Edges(n, m)
  BY <1>0 DEF Edges
<1>6. Reached' = Reached
  BY <1>0 DEF Reached, Edges
<1>7. \A n : (Marked(n)' <=> Marked(n)) /\ (Wanted(n)' <=> Wanted(n))
  BY <1>0, <1>3 DEF Marked, Wanted
<1>8. \A n, i : Passed(n, i)' <=> Passed(n, i)
  BY <1>0, <1>7 DEF Passed
<1>9. \A V : ClosedUnderNext(V)' <=> ClosedUnderNext(V)
  BY <1>1, <1>2 DEF ClosedUnderNext
<1>10. GraphOK' <=> GraphOK
  BY <1>0 DEF GraphOK, TopologicalNrs
<1> QED
  BY <1>1, <1>2, <1>3, <1>4, <1>5, <1>6, <1>7, <1>8, <1>9, <1>10

-----------------------------------------------------------------------------
\* The constants.
LEMMA RootNode == Root \in Nodes /\ N \in Nat /\ Nodes = 1..N /\ MaxEdges \in Nat
  BY InitAssumption DEF Nodes, Root

\* A Node leaves the queue: it is counted from now on.
LEMMA VisitStep == IInv /\ Visit => IInv'
<1> SUFFICES ASSUME IInv, Visit PROVE IInv'
  OBVIOUS
<1>0. /\ UNCHANGED graph /\ pc = "dependencies" /\ pc' = pc
      /\ needed' = needed /\ stack' = stack
  BY DEF Visit
<1>1. /\ needed = {} /\ stack = <<>>
      /\ queue \subseteq seen \cup {Root} /\ Root \notin seen
      /\ \A n \in Expanded : Pruned(n) \/ Children(n) \subseteq seen
      /\ \A n \in seen : Reached[n]
      /\ Counted(Expanded)
  BY <1>0 DEF IInv, VisitInv
<1>2. GraphOK /\ queue \subseteq Nodes /\ seen \subseteq Nodes /\ dependencies \in [Nodes -> Nat]
  BY DEF IInv, TypeOK
<1>3. PICK fn \in queue :
        IF Pruned(fn)
        THEN queue' = queue \ {fn} /\ UNCHANGED <<seen, dependencies>>
        ELSE /\ dependencies' = [m \in Nodes |-> dependencies[m] + Edges(fn, m)]
             /\ queue' = (queue \ {fn}) \cup (Range(next[fn]) \ seen)
             /\ seen' = seen \cup Range(next[fn])
  BY DEF Visit
<1>4. /\ fn \in Nodes /\ Children(fn) \subseteq Nodes /\ Root \notin Children(fn)
      /\ fn \notin Children(fn)
  BY <1>2, <1>3, NextFacts
<1>5. Range(next[fn]) = Children(fn)
  BY DEF Range, Children
<1>6. Reached[fn] /\ \A m \in Children(fn) : Reached[m]
  <2>1. Reached[fn]
    BY <1>1, <1>2, <1>4, RootNode, ReachedFacts
  <2> QED
    BY <1>2, <1>4, <2>1, ReachedFacts
<1>7. /\ queue' \subseteq seen' \cup {Root} /\ Root \notin seen'
      /\ queue' \subseteq Nodes /\ seen' \subseteq Nodes
      /\ \A n \in seen' : Reached[n]
      /\ Pruned(fn) \/ Children(fn) \subseteq seen'
      /\ (seen' \cup {Root}) \ queue' = Expanded \cup {fn}
      /\ seen \subseteq seen' /\ fn \notin Expanded /\ Expanded \subseteq Nodes
  <2>1. CASE Pruned(fn)
    BY <1>1, <1>2, <1>3, <1>4, <2>1, RootNode DEF Expanded
  <2>2. CASE ~Pruned(fn)
    <3>1. /\ queue' = (queue \ {fn}) \cup (Children(fn) \ seen)
          /\ seen' = seen \cup Children(fn)
      BY <1>3, <1>5, <2>2
    <3>2. /\ queue' \subseteq seen' \cup {Root} /\ Root \notin seen'
          /\ queue' \subseteq Nodes /\ seen' \subseteq Nodes
          /\ Children(fn) \subseteq seen' /\ seen \subseteq seen'
      BY <1>1, <1>2, <1>4, <3>1
    <3>3. \A n \in seen' : Reached[n]
      BY <1>1, <1>6, <3>1
    <3>4. fn \notin Expanded /\ Expanded \subseteq Nodes
      BY <1>2, <1>3, RootNode DEF Expanded
    <3>5. (seen' \cup {Root}) \ queue' = Expanded \cup {fn}
      BY <1>1, <1>3, <1>4, <3>1 DEF Expanded
    <3> QED
      BY <3>2, <3>3, <3>4, <3>5
  <2> QED
    BY <2>1, <2>2
<1>8. Expanded' = Expanded \cup {fn}
  BY <1>7 DEF Expanded
<1> DEFINE A == {n \in Expanded : ~Pruned(n)}
           B == {n \in Expanded \cup {fn} : ~Pruned(n)}
<1>9. \A m \in Nodes : dependencies[m] = Cardinality(EdgesFrom(A, m))
  BY <1>1 DEF Counted
<1>10. /\ dependencies' \in [Nodes -> Nat]
       /\ \A m \in Nodes : dependencies'[m] = Cardinality(EdgesFrom(B, m))
  <2>1. CASE Pruned(fn)
    <3>1. dependencies' = dependencies /\ A = B
      BY <1>3, <2>1
    <3> HIDE DEF A, B
    <3> QED
      BY <1>2, <1>9, <3>1
  <2>2. CASE ~Pruned(fn)
    <3>1. dependencies' = [m \in Nodes |-> dependencies[m] + Edges(fn, m)]
      BY <1>3, <2>2
    <3>2. B = A \cup {fn} /\ fn \notin A /\ A \in SUBSET Nodes
      BY <1>7, <2>2
    <3> HIDE DEF A, B
    <3>3. \A m \in Nodes :
            /\ Edges(fn, m) \in Nat
            /\ Cardinality(EdgesFrom(B, m)) = Cardinality(EdgesFrom(A, m)) + Edges(fn, m)
      BY <1>2, <1>4, <3>2, EdgesFacts, EdgesFromAdd
    <3> QED
      BY <1>2, <1>9, <3>1, <3>3
  <2> QED
    BY <2>1, <2>2
<1>11. \A n \in Expanded \cup {fn} : Pruned(n) \/ Children(n) \subseteq seen'
  BY <1>1, <1>7
<1>12. GraphOK'
  BY <1>0, <1>2, SameGraph
<1>13. TypeOK'
  BY <1>0, <1>1, <1>7, <1>10 DEF TypeOK
<1>14. Counted(Expanded)'
  <2>1. {n \in Expanded' : ~Pruned(n)'} = B
    BY <1>0, <1>8, SameGraph
  <2> HIDE DEF B
  <2>2. \A m \in Nodes : EdgesFrom({n \in Expanded : ~Pruned(n)}, m)' = EdgesFrom(B, m)
    BY <1>0, <2>1 DEF EdgesFrom, graph
  <2> QED
    BY <1>10, <2>2 DEF Counted
<1>15. VisitInv'
  <2>1. \A n \in Expanded' : Pruned(n)' \/ Children(n)' \subseteq seen'
    BY <1>0, <1>8, <1>11, SameGraph
  <2>2. \A n \in seen' : Reached[n]'
    BY <1>0, <1>7, SameGraph
  <2> QED
    BY <1>0, <1>1, <1>7, <1>14, <2>1, <2>2 DEF VisitInv
<1> QED
  BY <1>0, <1>12, <1>13, <1>15 DEF IInv, CountedInv, SearchInv, SettledInv

\* Counting depends on the graph only.
LEMMA CountedSame ==
  ASSUME UNCHANGED <<graph, dependencies>>, NEW V, Counted(V)
  PROVE  Counted(V)'
<1>1. {n \in V : ~Pruned(n)'} = {n \in V : ~Pruned(n)}
  BY SameGraph
<1>2. \A m \in Nodes : EdgesFrom({n \in V : ~Pruned(n)}, m)' = EdgesFrom({n \in V : ~Pruned(n)}, m)
  BY <1>1 DEF EdgesFrom, graph
<1> QED
  BY <1>2 DEF Counted

\* What compute_dependencies found stays, whatever the search does.
LEMMA CountedStays ==
  ASSUME CountedInv, UNCHANGED <<graph, dependencies>>, pc # "dependencies", pc' # "dependencies"
  PROVE  CountedInv'
<1>1. PICK V \in SUBSET Nodes : ClosedUnderNext(V) /\ (\A n \in V : Reached[n]) /\ Counted(V)
  BY DEF CountedInv
<1>2. ClosedUnderNext(V)' /\ \A n \in V : Reached[n]'
  BY <1>1, SameGraph
<1>3. Counted(V)'
  BY <1>1, CountedSame
<1> QED
  BY <1>2, <1>3 DEF CountedInv

\* The queue is empty: everything that was seen is counted, and the search begins.
LEMMA InitToExecuteStep == IInv /\ InitToExecute => IInv'
<1> SUFFICES ASSUME IInv, InitToExecute PROVE IInv'
  OBVIOUS
<1>0. /\ UNCHANGED <<graph, queue, dependencies>>
      /\ pc = "dependencies" /\ queue = {} /\ pc' # "dependencies"
  BY DEF InitToExecute
<1>1. /\ needed = {} /\ stack = <<>> /\ Root \notin seen
      /\ \A n \in Expanded : Pruned(n) \/ Children(n) \subseteq seen
      /\ \A n \in seen : Reached[n]
      /\ Counted(Expanded)
  BY <1>0 DEF IInv, VisitInv
<1>2. GraphOK /\ seen \subseteq Nodes /\ dependencies \in [Nodes -> Nat] /\ outputs \subseteq Nodes
  BY DEF IInv, TypeOK, GraphOK
<1>3. GraphOK'
  BY <1>0, <1>2, SameGraph
<1>4. CountedInv'
  <2>1. Expanded = seen \cup {Root}
    BY <1>0 DEF Expanded
  <2>2. PICK V \in SUBSET Nodes : V = Expanded
    BY <1>2, <2>1, RootNode
  <2>3. ClosedUnderNext(V) /\ (\A n \in V : Reached[n]) /\ Counted(V)
    <3>1. Reached[Root]
      BY <1>2, RootNode, ReachedFacts
    <3> QED
      BY <1>1, <2>1, <2>2, <3>1 DEF ClosedUnderNext
  <2>4. ClosedUnderNext(V)' /\ \A n \in V : Reached[n]'
    BY <1>0, <2>3, SameGraph
  <2>5. Counted(V)'
    BY <1>0, <2>3, CountedSame
  <2> QED
    BY <2>4, <2>5 DEF CountedInv
<1>5. CASE outputs = {}
  <2>1. pc' = "done" /\ seen' = seen /\ needed' = needed /\ stack' = stack /\ outputs' = {}
    BY <1>0, <1>5 DEF InitToExecute, graph
  <2>2. TypeOK'
    BY <1>0, <1>1, <1>2, <2>1 DEF TypeOK
  <2> QED
    BY <1>3, <1>4, <2>1, <2>2 DEF IInv, VisitInv, SearchInv, SettledInv
<1>6. CASE outputs # {}
  <2>1. /\ pc' = "execute" /\ seen' = {} /\ stack' = <<Frame(Root)>> /\ outputs' = outputs
        /\ needed' = IF accumulate THEN outputs ELSE {}
        /\ next' = next
    BY <1>0, <1>6 DEF InitToExecute, graph
  <2>2. /\ stack' = <<[fn |-> Root, i |-> 1]>> /\ Len(stack') = 1 /\ DOMAIN stack' = {1}
        /\ stack'[1].fn = Root /\ stack'[1].i = 1
        /\ stack' \in Seq(FrameSet)
    BY <2>1, RootNode DEF Frame, FrameSet
  <2>3. Len(next[Root]) \in Nat
    BY <1>2, RootNode, NextFacts
  <2>4. TypeOK'
    BY <1>0, <1>2, <2>1, <2>2, <2>3, RootNode DEF TypeOK
  <2>5. \A n : n \in needed' <=> Marked(n)
    BY <2>1 DEF Marked
  <2>6. ~Passed(Root, 1)
    BY DEF Passed
  <2>7. OnStack' = {Root} /\ Answered(1)' = 1
    BY <2>2 DEF OnStack, Answered
  <2>8. \A n : (Marked(n)' <=> Marked(n)) /\ (Passed(n, 1)' <=> Passed(n, 1))
    BY <1>0, SameGraph
  <2>9. FramesInv'
    <3>1. (stack[1].fn \in needed <=> Marked(stack[1].fn) \/ Passed(stack[1].fn, Answered(1)))'
      <4>1. Root \in needed' <=> Marked(Root)' \/ Passed(Root, 1)'
        BY <2>5, <2>6, <2>8
      <4> QED
        BY <2>2, <2>7, <4>1 DEF Marked, Passed, Wanted
    <3> QED
      BY <2>1, <2>2, <2>3, <3>1 DEF FramesInv, FrameInv
  <2>10. SearchInv'
    <3>1. \A n \in Nodes \ (seen' \cup {Root}) : n \in needed' <=> Marked(n)'
      BY <2>5, <2>8
    <3>2. (seen' \cup {Root}) \ OnStack' = {}
      BY <2>1, <2>7
    <3>3. outputs' # {} /\ Root \notin seen'
      BY <1>6, <2>1
    <3> QED
      BY <2>9, <3>1, <3>2, <3>3 DEF SearchInv
  <2> QED
    BY <1>3, <1>4, <2>1, <2>4, <2>10 DEF IInv, VisitInv, SettledInv
<1> QED
  BY <1>5, <1>6

-----------------------------------------------------------------------------
\* The fields of a Frame.
LEMMA FrameTypes ==
  /\ \A r \in FrameSet : r.fn \in Nodes /\ r.i \in Nat
  /\ \A n \in Nodes : Frame(n) \in FrameSet /\ Frame(n).fn = n /\ Frame(n).i = 1
  /\ \A r \in FrameSet, j \in Nat :
       \E q \in FrameSet : q = [r EXCEPT !.i = j] /\ q.fn = r.fn /\ q.i = j
<1>1. \A r \in FrameSet : r.fn \in Nodes /\ r.i \in Nat
  BY DEF FrameSet
<1>2. \A n \in Nodes : Frame(n) \in FrameSet /\ Frame(n).fn = n /\ Frame(n).i = 1
  BY DEF FrameSet, Frame
<1>3. ASSUME NEW r \in FrameSet, NEW j \in Nat
      PROVE  \E q \in FrameSet : q = [r EXCEPT !.i = j] /\ q.fn = r.fn /\ q.i = j
  <2>1. /\ [r EXCEPT !.i = j] \in FrameSet
        /\ [r EXCEPT !.i = j].fn = r.fn /\ [r EXCEPT !.i = j].i = j
    BY DEF FrameSet
  <2> QED
    BY <2>1
<1> QED
  BY <1>1, <1>2, <1>3

\* Sequences of Frames, or of anything: the last element replaced.
LEMMA ReplaceLast ==
  ASSUME NEW R, NEW s \in Seq(R), NEW L \in Nat, L = Len(s), L \geq 1, NEW r \in R,
         NEW h, h = [s EXCEPT ![L] = r]
  PROVE  /\ h \in Seq(R) /\ Len(h) = L /\ DOMAIN h = 1..L /\ h[L] = r
         /\ \A k \in 1..L : k # L => h[k] = s[k]
<1>1. DOMAIN h = 1..L /\ h[L] = r /\ \A k \in 1..L : k # L => h[k] = s[k]
  OBVIOUS
<1>2. h \in Seq(R)
  OBVIOUS
<1> QED
  BY <1>1, <1>2

\* One added.
LEMMA AddLast ==
  ASSUME NEW R, NEW s \in Seq(R), NEW L \in Nat, L = Len(s), NEW r \in R
  PROVE  /\ Append(s, r) \in Seq(R) /\ Len(Append(s, r)) = L + 1
         /\ DOMAIN Append(s, r) = 1..(L + 1) /\ Append(s, r)[L + 1] = r
         /\ \A k \in 1..L : Append(s, r)[k] = s[k]
  OBVIOUS

\* The last one taken away.
LEMMA DropLast ==
  ASSUME NEW R, NEW s \in Seq(R), NEW L \in Nat, L = Len(s), L \geq 1
  PROVE  /\ SubSeq(s, 1, L - 1) \in Seq(R) /\ Len(SubSeq(s, 1, L - 1)) = L - 1
         /\ DOMAIN SubSeq(s, 1, L - 1) = 1..(L - 1)
         /\ \A k \in 1..(L - 1) : SubSeq(s, 1, L - 1)[k] = s[k]
  OBVIOUS

\* What a sequence is.
LEMMA SeqFacts ==
  ASSUME NEW R, NEW s \in Seq(R)
  PROVE  Len(s) \in Nat /\ DOMAIN s = 1..Len(s) /\ \A k \in DOMAIN s : s[k] \in R
  OBVIOUS

\* The types of the stack.
LEMMA StackFacts ==
  ASSUME FramesInv
  PROVE  /\ Len(stack) \in Nat /\ DOMAIN stack = 1..Len(stack)
         /\ \A k \in DOMAIN stack : stack[k].fn \in Nodes /\ stack[k].i \in Nat
<1>1. stack \in Seq(FrameSet)
  BY DEF FramesInv
<1> QED
  BY <1>1, FrameTypes, SeqFacts

\* The top Frame and the next child that was not seen.
LEMMA TopFacts ==
  ASSUME GraphOK, FramesInv, stack # <<>>
  PROVE  /\ Len(stack) \in Nat /\ Len(stack) \geq 1 /\ DOMAIN stack = 1..Len(stack)
         /\ Top.fn \in Nodes /\ Top.i \in 1..(Len(next[Top.fn]) + 1)
         /\ NextUnseen \in Top.i..(Len(next[Top.fn]) + 1)
         /\ \A j \in 1..(NextUnseen - 1) : j \in DOMAIN next[Top.fn] /\ next[Top.fn][j] \in seen
         /\ NextUnseen \leq Len(next[Top.fn]) =>
              NextUnseen \in DOMAIN next[Top.fn] /\ next[Top.fn][NextUnseen] \notin seen
<1>1. /\ Len(stack) \in Nat /\ Len(stack) \geq 1 /\ DOMAIN stack = 1..Len(stack)
      /\ Len(stack) \in DOMAIN stack
  BY StackFacts DEF FramesInv
<1>2. /\ Top.fn \in Nodes /\ Top.i \in 1..(Len(next[Top.fn]) + 1)
      /\ \A j \in 1..(Top.i - 1) : next[Top.fn][j] \in seen
  <2>1. FrameInv(Len(stack))
    BY <1>1 DEF FramesInv
  <2> QED
    BY <1>1, <2>1, StackFacts DEF FrameInv, Top
<1>3. Len(next[Top.fn]) \in Nat /\ DOMAIN next[Top.fn] = 1..Len(next[Top.fn])
  BY <1>2, NextFacts, InitAssumption
<1>4. PICK x, i, e : x = Top.fn /\ i = Top.i /\ e = Len(next[Top.fn])
  OBVIOUS
<1> DEFINE S == {j \in i..e : next[x][j] \notin seen} \cup {e + 1}
<1>5. i \in Nat /\ e \in Nat /\ i \leq e + 1 /\ 1 \leq i
  BY <1>2, <1>3, <1>4
<1>6. S \subseteq Nat /\ S # {} /\ S \subseteq i..(e + 1)
  BY <1>5
<1>7. Min(S) \in S /\ \A y \in S : Min(S) \leq y
  BY <1>6, MinFacts
<1>8. NextUnseen = Min(S)
  BY <1>4 DEF NextUnseen
<1>9. PICK d : d = Min(S)
  OBVIOUS
<1>10. d \in i..(e + 1) /\ (d \leq e => next[x][d] \notin seen)
  BY <1>5, <1>6, <1>7, <1>9
<1>11. \A j \in i..(d - 1) : next[x][j] \in seen
  <2> SUFFICES ASSUME NEW j \in i..(d - 1), next[x][j] \notin seen PROVE FALSE
    OBVIOUS
  <2>1. j \in S /\ j < d
    BY <1>5, <1>10
  <2> QED
    BY <1>5, <1>7, <1>9, <1>10, <2>1
<1>12. \A j \in 1..(d - 1) : j \in 1..e /\ next[x][j] \in seen
  BY <1>2, <1>4, <1>5, <1>10, <1>11
<1> HIDE DEF S
<1> QED
  BY <1>1, <1>2, <1>3, <1>4, <1>5, <1>8, <1>9, <1>10, <1>12

\* A child that was seen is settled: it is below every Node on the stack, so its
\* Frame has returned, or it never had one.
LEMMA SeenChild ==
  ASSUME GraphOK, FramesInv, stack # <<>>,
         \A n \in (seen \cup {Root}) \ OnStack : Settled(n),
         NEW c \in seen, c \in Nodes, c < Top.fn
  PROVE  c \notin OnStack /\ (ShouldExecute(c) <=> Wanted(c))
<1>1. /\ Len(stack) \in Nat /\ Len(stack) \geq 1 /\ DOMAIN stack = 1..Len(stack)
      /\ Top.fn \in Nodes
  BY TopFacts
<1>2. \A k \in DOMAIN stack : stack[k].fn \in Nodes
  BY StackFacts
<1>3. \A k \in DOMAIN stack : k < Len(stack) => stack[k].fn > Top.fn
  <2>1. \A k, l \in DOMAIN stack : k < l => stack[k].fn > stack[l].fn
    BY DEF FramesInv
  <2>2. Len(stack) \in DOMAIN stack
    BY <1>1
  <2> QED
    BY <2>1, <2>2 DEF Top
<1>4. \A k \in DOMAIN stack : stack[k].fn # c
  <2> SUFFICES ASSUME NEW k \in DOMAIN stack, stack[k].fn = c PROVE FALSE
    OBVIOUS
  <2>1. k < Len(stack) \/ stack[k] = Top
    BY <1>1 DEF Top
  <2> QED
    BY <1>1, <1>2, <1>3, <2>1, RootNode
<1>5. c \notin OnStack
  BY <1>4 DEF OnStack
<1>6. c \in needed <=> Marked(c) \/ Leads[c]
  BY <1>5 DEF Settled
<1> QED
  BY <1>5, <1>6 DEF ShouldExecute, Captured, Wanted, Marked

\* (1): the Node of the top Frame knows the answer of every edge before the next
\* child that was not seen.
LEMMA NeededBySeenFacts ==
  ASSUME GraphOK, FramesInv, stack # <<>>,
         \A n \in (seen \cup {Root}) \ OnStack : Settled(n), seen \subseteq Nodes
  PROVE  /\ Top.fn \in NeededBySeen <=> Marked(Top.fn) \/ Passed(Top.fn, NextUnseen)
         /\ \A n : n # Top.fn => (n \in NeededBySeen <=> n \in needed)
<1>1. PICK x, i, d : x = Top.fn /\ i = Top.i /\ d = NextUnseen
  OBVIOUS
<1>2. /\ Len(stack) \in DOMAIN stack /\ x \in Nodes /\ i \in 1..(Len(next[x]) + 1)
      /\ d \in i..(Len(next[x]) + 1)
      /\ \A j \in 1..(d - 1) : j \in DOMAIN next[x] /\ next[x][j] \in seen
  BY <1>1, TopFacts
<1>3. Len(next[x]) \in Nat
  BY <1>2, NextFacts, InitAssumption
<1>4. i \in Nat /\ d \in Nat /\ 1 \leq i /\ i \leq d
  BY <1>2, <1>3
<1>5. Answered(Len(stack)) = i
  BY <1>1 DEF Answered, Top
<1>6. x \in needed <=> Marked(x) \/ Passed(x, i)
  <2>1. \A k \in DOMAIN stack :
          stack[k].fn \in needed <=> Marked(stack[k].fn) \/ Passed(stack[k].fn, Answered(k))
    BY DEF FramesInv, FrameInv
  <2>2. stack[Len(stack)].fn = x
    BY <1>1 DEF Top
  <2> QED
    BY <1>2, <1>5, <2>1, <2>2
<1>7. \A k \in i..(d - 1) : ShouldExecute(next[x][k]) <=> Wanted(next[x][k])
  <2> TAKE k \in i..(d - 1)
  <2>1. k \in 1..(d - 1)
    BY <1>4
  <2>2. k \in DOMAIN next[x] /\ next[x][k] \in seen
    BY <1>2, <2>1
  <2>3. next[x][k] \in Nodes /\ next[x][k] < Top.fn
    BY <1>1, <1>2, <2>2, NextFacts
  <2> QED
    BY <2>2, <2>3, SeenChild
<1>8. Passed(x, d) <=> Passed(x, i) \/ \E k \in i..(d - 1) : Wanted(next[x][k])
  <2>1. \A j : j \in 1..(d - 1) <=> j \in 1..(i - 1) \/ j \in i..(d - 1)
    BY <1>4
  <2> QED
    BY <2>1 DEF Passed
<1>9. NeededBySeen = needed \cup {x : j \in {k \in i..(d - 1) : ShouldExecute(next[x][k])}}
  BY <1>1 DEF NeededBySeen
<1>10. \A n : n \in NeededBySeen <=>
         n \in needed \/ (n = x /\ \E k \in i..(d - 1) : Wanted(next[x][k]))
  BY <1>7, <1>9
<1>11. x \in NeededBySeen <=> Marked(x) \/ Passed(x, d)
  BY <1>6, <1>8, <1>10
<1>12. \A n : n # x => (n \in NeededBySeen <=> n \in needed)
  BY <1>10
<1> QED
  BY <1>1, <1>11, <1>12

-----------------------------------------------------------------------------
\* What a Frame must satisfy after a step of the search.
LEMMA FrameInvNext ==
  ASSUME UNCHANGED graph,
         NEW k, NEW n, NEW i, NEW a,
         n = stack'[k].fn, i = stack'[k].i,
         a = IF k = Len(stack') THEN i ELSE i - 1,
         n \in seen' \cup {Root}, i \in 1..(Len(next[n]) + 1),
         \A j \in 1..(i - 1) : next[n][j] \in seen',
         n \in needed' <=> Marked(n) \/ Passed(n, a),
         k < Len(stack') => i \geq 2 /\ next[n][i - 1] = stack'[k + 1].fn
  PROVE  FrameInv(k)'
<1>1. next' = next /\ outputs' = outputs /\ accumulate' = accumulate
  BY DEF graph
<1>2. Answered(k)' = a
  BY DEF Answered
<1>3. Marked(stack[k].fn)' <=> Marked(n)
  BY <1>1 DEF Marked
<1>4. Passed(stack[k].fn, Answered(k))' <=> Passed(n, a)
  <2>1. Leads' = Leads
    BY <1>1 DEF Leads
  <2> QED
    BY <1>1, <1>2, <2>1 DEF Passed, Wanted
<1>5. (stack[k].fn \in needed <=> Marked(stack[k].fn) \/ Passed(stack[k].fn, Answered(k)))'
  BY <1>3, <1>4
<1> QED
  BY <1>1, <1>5 DEF FrameInv

\* The search as a whole after a step.
LEMMA SearchNext ==
  ASSUME UNCHANGED <<graph, pc, queue, dependencies>>, IInv, pc = "execute",
         NEW L \in Nat, L = Len(stack'), DOMAIN stack' = 1..L,
         stack' \in Seq(FrameSet),
         \A k \in 1..L : FrameInv(k)',
         \A k, l \in 1..L : k < l => stack'[k].fn > stack'[l].fn,
         Root \notin seen', seen' \subseteq Nodes, needed' \subseteq Nodes,
         \A n \in seen' \cup {Root} :
           \/ \E k \in 1..L : n = stack'[k].fn
           \/ /\ n \in needed' <=> Marked(n) \/ Leads[n]
              /\ Pruned(n) \/ Children(n) \subseteq seen',
         \A n \in Nodes \ (seen' \cup {Root}) : n \in needed' <=> Marked(n)
  PROVE  IInv'
<1>0. next' = next /\ outputs' = outputs /\ pc' = "execute" /\ queue' = queue
      /\ dependencies' = dependencies
  BY DEF graph
<1>1. GraphOK /\ TypeOK /\ CountedInv /\ outputs # {}
  BY DEF IInv, SearchInv
<1>2. GraphOK'
  BY <1>1, SameGraph
<1>3. CountedInv'
  BY <1>0, <1>1, CountedStays
<1>4. FramesInv'
  BY DEF FramesInv
<1>5. TypeOK'
  <2>1. \A k \in DOMAIN stack' :
          stack'[k].fn \in Nodes /\ stack'[k].i \in 1..(Len(next'[stack'[k].fn]) + 1)
    <3>1. (\A k \in DOMAIN stack : stack[k].fn \in Nodes /\ stack[k].i \in Nat)'
      BY FrameTypes, SeqFacts
    <3> QED
      BY <3>1 DEF FrameInv
  <2> QED
    BY <1>0, <1>1, <2>1 DEF TypeOK
<1>6. ASSUME NEW n \in (seen' \cup {Root}) \ OnStack' PROVE Settled(n)'
  <2>1. /\ n \in needed' <=> Marked(n) \/ Leads[n]
        /\ Pruned(n) \/ Children(n) \subseteq seen'
    BY DEF OnStack
  <2>2. n \in Nodes
    BY RootNode
  <2>3. /\ Children(n)' = Children(n) /\ (Pruned(n)' <=> Pruned(n))
        /\ (Marked(n)' <=> Marked(n)) /\ (Leads[n]' <=> Leads[n])
    BY <2>2, SameGraph
  <2> QED
    BY <2>1, <2>3 DEF Settled
<1>7. \A n \in Nodes \ (seen' \cup {Root}) : n \in needed' <=> Marked(n)'
  BY SameGraph
<1>8. SearchInv'
  BY <1>0, <1>1, <1>4, <1>6, <1>7 DEF SearchInv
<1> QED
  BY <1>0, <1>2, <1>3, <1>5, <1>8 DEF IInv, VisitInv, SettledInv

\* What the search invariant says of the Frames, with names for the top.
LEMMA SearchFacts ==
  ASSUME IInv, pc = "execute"
  PROVE  /\ GraphOK /\ FramesInv /\ outputs # {} /\ Root \notin seen
         /\ seen \subseteq Nodes /\ needed \subseteq Nodes
         /\ \A n \in (seen \cup {Root}) \ OnStack : Settled(n)
         /\ \A n \in Nodes \ (seen \cup {Root}) : n \in needed <=> Marked(n)
  BY DEF IInv, SearchInv, TypeOK

\* One more edge.
LEMMA PassedNext ==
  ASSUME NEW n, NEW d \in Nat, d \geq 1
  PROVE  Passed(n, d + 1) <=> Passed(n, d) \/ Wanted(next[n][d])
<1>1. \A j : j \in 1..((d + 1) - 1) <=> j \in 1..(d - 1) \/ j = d
  OBVIOUS
<1> QED
  BY <1>1 DEF Passed

\* All of them.
LEMMA PassedAll ==
  ASSUME GraphOK, NEW n \in Nodes
  PROVE  Passed(n, Len(next[n]) + 1) <=> Leads[n]
<1>1. Len(next[n]) \in Nat /\ DOMAIN next[n] = 1..Len(next[n])
  BY NextFacts, InitAssumption
<1>2. (Len(next[n]) + 1) - 1 = Len(next[n])
  BY <1>1
<1>3. Passed(n, Len(next[n]) + 1) <=> \E j \in DOMAIN next[n] : Wanted(next[n][j])
  BY <1>1, <1>2 DEF Passed
<1> QED
  BY <1>3, LeadsFacts

\* The top Frame passes over the children that were seen and descends into the
\* next, unless it is pruned.
LEMMA DescendStep == IInv /\ Descend => IInv'
<1> SUFFICES ASSUME IInv, Descend PROVE IInv'
  OBVIOUS
<1>0. UNCHANGED <<graph, pc, queue, dependencies>> /\ pc = "execute" /\ stack # <<>>
  BY DEF Descend
<1>1. /\ GraphOK /\ FramesInv /\ Root \notin seen
      /\ seen \subseteq Nodes /\ needed \subseteq Nodes
      /\ \A n \in (seen \cup {Root}) \ OnStack : Settled(n)
      /\ \A n \in Nodes \ (seen \cup {Root}) : n \in needed <=> Marked(n)
  BY <1>0, SearchFacts
<1>2. PICK L, x, d, c : /\ L = Len(stack) /\ x = Top.fn /\ d = NextUnseen
                        /\ c = next[Top.fn][NextUnseen]
  OBVIOUS
<1>3. /\ L \in Nat /\ L \geq 1 /\ DOMAIN stack = 1..L /\ L = Len(stack)
      /\ \A k \in 1..L : stack[k].fn \in Nodes /\ stack[k].i \in Nat
      /\ stack[L].fn = x /\ x \in Nodes
  BY <1>0, <1>1, <1>2, StackFacts, TopFacts DEF Top
<1>4. L \in Nat /\ L \geq 1
  BY <1>3
<1>5. L = Len(stack)
  BY <1>3
<1>6. /\ d \in DOMAIN next[x] /\ c = next[x][d] /\ c \notin seen
      /\ \A j \in 1..(d - 1) : next[x][j] \in seen
      /\ d \in Nat /\ d \geq 1 /\ d \leq Len(next[x]) /\ Len(next[x]) \in Nat
  <2>1. NextUnseen \leq Len(next[Top.fn])
    BY DEF Descend
  <2>2. d \in DOMAIN next[x] /\ c = next[x][d] /\ c \notin seen
        /\ \A j \in 1..(d - 1) : next[x][j] \in seen
    BY <1>0, <1>1, <1>2, <2>1, TopFacts
  <2>3. DOMAIN next[x] = 1..Len(next[x]) /\ Len(next[x]) \in Nat
    BY <1>1, <1>3, NextFacts, InitAssumption
  <2> QED
    BY <2>2, <2>3
<1>7. c \in Nodes /\ c < x /\ c # Root /\ c # x /\ x \in Nat /\ c \in Nat /\ c \in Children(x)
  <2>1. c \in Nodes /\ c < x
    BY <1>1, <1>3, <1>6, NextFacts
  <2>2. c \in Children(x) /\ Root \notin Children(x) /\ x \notin Children(x) /\ x \in Nat
    BY <1>1, <1>3, <1>6, NextFacts DEF Children
  <2> QED
    BY <2>1, <2>2, RootNode
<1>8. /\ \A n : n # x => (n \in needed' <=> n \in needed)
      /\ x \in needed' <=> Marked(x) \/ Passed(x, d)
      /\ seen' = seen \cup {c}
  <2>1. needed' = NeededBySeen /\ seen' = seen \cup {next[Top.fn][NextUnseen]}
    BY DEF Descend
  <2>2. /\ Top.fn \in NeededBySeen <=> Marked(Top.fn) \/ Passed(Top.fn, NextUnseen)
        /\ \A n : n # Top.fn => (n \in NeededBySeen <=> n \in needed)
    BY <1>0, <1>1, NeededBySeenFacts
  <2> QED
    BY <1>2, <2>1, <2>2
<1>9. PICK here : here = [stack EXCEPT ![Len(stack)].i = NextUnseen + 1]
  OBVIOUS
<1>10. /\ here \in Seq(FrameSet) /\ Len(here) = L /\ DOMAIN here = 1..L
       /\ here[L].fn = stack[L].fn /\ here[L].i = d + 1
       /\ \A k \in 1..L : k # L => here[k] = stack[k]
  <2>1. stack \in Seq(FrameSet)
    BY <1>1 DEF FramesInv
  <2>2. here = [stack EXCEPT ![L].i = d + 1] /\ d + 1 \in Nat
    BY <1>2, <1>6, <1>9
  <2> QED
    <3>1. stack[L] \in FrameSet
      BY <1>3, <2>1, SeqFacts
    <3>2. PICK r \in FrameSet : /\ r = [stack[L] EXCEPT !.i = d + 1]
                                /\ r.fn = stack[L].fn /\ r.i = d + 1
      BY <2>2, <3>1, FrameTypes
    <3>3. here = [stack EXCEPT ![L] = r]
      BY <2>2, <3>2
    <3>4. /\ here \in Seq(FrameSet) /\ Len(here) = L /\ DOMAIN here = 1..L /\ here[L] = r
          /\ \A k \in 1..L : k # L => here[k] = stack[k]
      BY <1>4, <1>5, <2>1, <3>3, ReplaceLast
    <3> QED
      BY <3>2, <3>4
<1>11. /\ \A k \in 1..L : here[k].fn = stack[k].fn
       /\ \A k \in 1..L : k < L => here[k].i = stack[k].i
       /\ here[L].fn = x /\ here[L].i = d + 1
  <2>1. here[L].fn = x
    BY <1>3, <1>10
  <2> QED
    <3>1. \A k \in 1..L : k = L \/ here[k] = stack[k]
      BY <1>10
    <3>2. \A k \in 1..L : k < L => k # L
      BY <1>4
    <3>3. here[L].fn = stack[L].fn /\ here[L].i = d + 1
      BY <1>10
    <3> QED
      BY <2>1, <3>1, <3>2, <3>3
<1>12. \A k \in 1..L : k < L => stack[k].fn > x /\ stack[k].fn # x
  <2>1. \A k, l \in DOMAIN stack : k < l => stack[k].fn > stack[l].fn
    BY <1>1 DEF FramesInv
  <2>2. L \in DOMAIN stack
    BY <1>3
  <2>3. \A k \in 1..L : k < L => stack[k].fn > x
    BY <1>3, <2>1, <2>2
  <2> QED
    BY <1>3, <1>7, <2>3, RootNode
<1>13. \A k \in 1..L : stack[k].fn \in seen \cup {Root}
  BY <1>1, <1>3 DEF FramesInv, FrameInv
<1>14. \A k, l \in 1..L : k < l => here[k].fn > here[l].fn
  <2>1. \A k, l \in 1..L : k < l => stack[k].fn > stack[l].fn
    BY <1>1, <1>3 DEF FramesInv
  <2> QED
    BY <1>11, <2>1
<1>15. Root \notin seen' /\ seen' \subseteq Nodes /\ needed' \subseteq Nodes
  BY <1>1, <1>3, <1>7, <1>8
<1>16. ASSUME NEW n \in seen' \cup {Root}
       PROVE  \/ \E k \in 1..L : n = here[k].fn
              \/ n = c
              \/ /\ n \in needed' <=> Marked(n) \/ Leads[n]
                 /\ Pruned(n) \/ Children(n) \subseteq seen'
  <2> SUFFICES ASSUME n # c, \A k \in 1..L : n # here[k].fn
               PROVE  /\ n \in needed' <=> Marked(n) \/ Leads[n]
                      /\ Pruned(n) \/ Children(n) \subseteq seen'
    OBVIOUS
  <2>1. n \in seen \cup {Root} /\ n # x
    BY <1>3, <1>8, <1>11
  <2>2. n \notin OnStack
    BY <1>3, <1>11 DEF OnStack
  <2>3. Settled(n)
    BY <1>1, <2>1, <2>2
  <2> QED
    BY <1>8, <2>1, <2>3 DEF Settled
<1>17. \A n \in Nodes \ (seen' \cup {Root}) : n \in needed' <=> Marked(n)
  <2>1. x \in seen \cup {Root}
    BY <1>3, <1>13
  <2> QED
    BY <1>1, <1>8, <2>1
<1>18. ASSUME NEW k \in 1..L, k < L, L \leq Len(stack'), stack'[k] = here[k],
              stack'[k + 1].fn = here[k + 1].fn
       PROVE  FrameInv(k)'
  <2>1. FrameInv(k) /\ k \in Nat /\ k + 1 \in 1..L /\ k # L
    <3>1. FrameInv(k)
      BY <1>1, <1>3 DEF FramesInv
    <3> QED
      BY <1>4, <1>18, <3>1
  <2>2. PICK n, i : n = stack[k].fn /\ i = stack[k].i
    OBVIOUS
  <2>3. /\ n \in seen \cup {Root} /\ i \in 1..(Len(next[n]) + 1)
        /\ \A j \in 1..(i - 1) : next[n][j] \in seen
        /\ i \geq 2 /\ next[n][i - 1] = stack[k + 1].fn
        /\ n \in needed <=> Marked(n) \/ Passed(n, i - 1)
    BY <1>3, <1>18, <2>1, <2>2 DEF FrameInv, Answered
  <2>4. n # x /\ n = stack'[k].fn /\ i = stack'[k].i /\ stack'[k + 1].fn = stack[k + 1].fn
    BY <1>11, <1>12, <1>18, <2>1, <2>2
  <2>5. n \in needed' <=> Marked(n) \/ Passed(n, i - 1)
    BY <1>8, <2>3, <2>4
  <2>6. k # Len(stack')
    BY <1>4, <1>18, <2>1
  <2>7. n \in seen' \cup {Root} /\ \A j \in 1..(i - 1) : next[n][j] \in seen'
    BY <1>8, <2>3
  <2>8. k < Len(stack') => i \geq 2 /\ next[n][i - 1] = stack'[k + 1].fn
    BY <2>3, <2>4
  <2> QED
    BY <1>0, <2>3, <2>4, <2>5, <2>6, <2>7, <2>8, FrameInvNext
<1>19. x \in seen' \cup {Root} /\ \A j \in 1..((d + 1) - 1) : next[x][j] \in seen'
  <2>1. \A j \in 1..((d + 1) - 1) : j \in 1..(d - 1) \/ j = d
    BY <1>6
  <2> QED
    BY <1>3, <1>6, <1>8, <1>13, <2>1
<1>20. d + 1 \in 1..(Len(next[x]) + 1) /\ (d + 1) - 1 = d
  BY <1>6
<1>21. CASE Pruned(c)
  <2>1. stack' = here
    BY <1>2, <1>9, <1>21 DEF Descend
  <2>2. ~Wanted(c)
    BY <1>1, <1>7, <1>21, WantedNotPruned
  <2>3. x \in needed' <=> Marked(x) \/ Passed(x, d + 1)
    BY <1>6, <1>8, <2>2, PassedNext
  <2>4. FrameInv(L)'
    <3>1. x = stack'[L].fn /\ d + 1 = stack'[L].i /\ L = Len(stack') /\ ~(L < Len(stack'))
      <4>1. here[L].fn = x /\ here[L].i = d + 1
        BY <1>11
      <4>2. Len(here) = L
        BY <1>10
      <4> QED
        BY <1>4, <2>1, <4>1, <4>2
    <3> QED
      BY <1>0, <1>19, <1>20, <2>3, <3>1, FrameInvNext
  <2>5. \A k \in 1..L : FrameInv(k)'
    <3> TAKE k \in 1..L
    <3>1. ASSUME k < L PROVE FrameInv(k)'
      <4>1. L \leq Len(stack')
        BY <1>4, <1>10, <2>1
      <4> QED
        BY <1>18, <2>1, <3>1, <4>1
    <3> QED
      BY <1>4, <2>4, <3>1
  <2>6. ASSUME NEW n \in seen' \cup {Root}
        PROVE  \/ \E k \in 1..L : n = stack'[k].fn
               \/ /\ n \in needed' <=> Marked(n) \/ Leads[n]
                  /\ Pruned(n) \/ Children(n) \subseteq seen'
    <3>1. c \in needed' <=> Marked(c) \/ Leads[c]
      <4>1. c \in needed' <=> Marked(c)
        BY <1>1, <1>6, <1>7, <1>8
      <4> QED
        BY <2>2, <4>1 DEF Wanted
    <3> QED
      BY <1>16, <1>21, <2>1, <3>1
  <2>7. L = Len(stack') /\ DOMAIN stack' = 1..L /\ stack' \in Seq(FrameSet)
        /\ \A k, l \in 1..L : k < l => stack'[k].fn > stack'[l].fn
    BY <1>10, <1>14, <2>1
  <2> QED
    BY <1>0, <1>3, <1>15, <1>17, <2>5, <2>6, <2>7, SearchNext
<1>22. CASE ~Pruned(c)
  <2>1. stack' = Append(here, Frame(c))
    BY <1>2, <1>9, <1>22 DEF Descend
  <2>2. /\ Len(stack') = L + 1 /\ DOMAIN stack' = 1..(L + 1)
        /\ stack' \in Seq(FrameSet)
        /\ \A k \in 1..L : stack'[k] = here[k]
        /\ stack'[L + 1].fn = c /\ stack'[L + 1].i = 1
    <3>1. here \in Seq(FrameSet) /\ L = Len(here)
      BY <1>10
    <3>2. PICK r \in FrameSet : r = Frame(c) /\ r.fn = c /\ r.i = 1
      BY <1>7, FrameTypes
    <3>3. stack' = Append(here, r)
      BY <2>1, <3>2
    <3>4. /\ Append(here, r) \in Seq(FrameSet) /\ Len(Append(here, r)) = L + 1
          /\ DOMAIN Append(here, r) = 1..(L + 1) /\ Append(here, r)[L + 1] = r
          /\ \A k \in 1..L : Append(here, r)[k] = here[k]
      BY <1>4, <3>1, AddLast
    <3> QED
      BY <3>2, <3>3, <3>4
  <2>3. FrameInv(L)'
    <3>1. /\ x = stack'[L].fn /\ d + 1 = stack'[L].i /\ L # Len(stack')
          /\ d + 1 \geq 2 /\ next[x][(d + 1) - 1] = stack'[L + 1].fn
      <4>1. here[L].fn = x /\ here[L].i = d + 1
        BY <1>11
      <4>2. stack'[L] = here[L] /\ L # Len(stack')
        BY <1>4, <2>2
      <4>3. d + 1 \geq 2 /\ (d + 1) - 1 = d /\ next[x][d] = c
        BY <1>6
      <4>4. stack'[L + 1].fn = c
        BY <2>2
      <4> QED
        BY <4>1, <4>2, <4>3, <4>4
    <3>2. x \in needed' <=> Marked(x) \/ Passed(x, (d + 1) - 1)
      BY <1>8, <1>20
    <3> QED
      BY <1>0, <1>19, <1>20, <3>1, <3>2, FrameInvNext
  <2>4. FrameInv(L + 1)'
    <3>1. /\ c = stack'[L + 1].fn /\ 1 = stack'[L + 1].i /\ L + 1 = Len(stack')
          /\ ~(L + 1 < Len(stack'))
      BY <1>3, <2>2
    <3>2. c \in needed' <=> Marked(c) \/ Passed(c, 1)
      <4>1. ~Passed(c, 1)
        BY DEF Passed
      <4> QED
        BY <1>1, <1>6, <1>7, <1>8, <4>1
    <3>3. 1 \in 1..(Len(next[c]) + 1) /\ \A j \in 1..(1 - 1) : next[c][j] \in seen'
      BY <1>1, <1>7, NextFacts, InitAssumption
    <3>4. c \in seen' \cup {Root}
      BY <1>8
    <3> QED
      BY <1>0, <3>1, <3>2, <3>3, <3>4, FrameInvNext
  <2>5. \A k \in 1..(L + 1) : FrameInv(k)'
    <3> TAKE k \in 1..(L + 1)
    <3>1. k \in 1..L /\ k < L => FrameInv(k)'
      <4> SUFFICES ASSUME k \in 1..L, k < L PROVE FrameInv(k)'
        OBVIOUS
      <4>1. k + 1 \in 1..L /\ L \leq Len(stack')
        BY <1>3, <2>2
      <4>2. stack'[k] = here[k] /\ stack'[k + 1].fn = here[k + 1].fn
        BY <2>2, <4>1
      <4> QED
        BY <1>18, <4>1, <4>2
    <3>2. (k \in 1..L /\ k < L) \/ k = L \/ k = L + 1
      BY <1>4
    <3> QED
      BY <2>3, <2>4, <3>1, <3>2
  <2>6. \A n \in seen' \cup {Root} :
          \/ \E k \in 1..(L + 1) : n = stack'[k].fn
          \/ /\ n \in needed' <=> Marked(n) \/ Leads[n]
             /\ Pruned(n) \/ Children(n) \subseteq seen'
    <3>1. L + 1 \in 1..(L + 1) /\ \A k \in 1..L : k \in 1..(L + 1)
      BY <1>3
    <3> QED
      BY <1>16, <2>2, <3>1
  <2>7. \A k, l \in 1..(L + 1) : k < l => stack'[k].fn > stack'[l].fn
    <3> SUFFICES ASSUME NEW k \in 1..(L + 1), NEW l \in 1..(L + 1), k < l
                 PROVE  stack'[k].fn > stack'[l].fn
      OBVIOUS
    <3>1. k \in 1..L /\ (l \in 1..L \/ l = L + 1)
      BY <1>4
    <3>2. stack'[k].fn = stack[k].fn /\ stack[k].fn \in Nat
      <4>1. stack'[k].fn = stack[k].fn
        BY <1>11, <2>2, <3>1
      <4>2. stack[k].fn \in Nodes
        BY <1>3, <3>1
      <4> QED
        BY <4>1, <4>2, RootNode
    <3>3. stack[k].fn > c
      BY <1>3, <1>7, <1>12, <3>1, <3>2
    <3> QED
      BY <1>14, <2>2, <3>1, <3>2, <3>3
  <2>8. L + 1 \in Nat
    BY <1>3
  <2> QED
    BY <1>0, <1>15, <1>17, <2>2, <2>5, <2>6, <2>7, <2>8, SearchNext
<1> QED
  BY <1>21, <1>22

\* The top Frame has no child left: its Node knows whether it leads to an output,
\* and its parent takes that as the answer of the edge it waited for.
LEMMA ReturnStep == IInv /\ Return => IInv'
<1> SUFFICES ASSUME IInv, Return PROVE IInv'
  OBVIOUS
<1>0. UNCHANGED <<graph, pc, queue, dependencies>> /\ pc = "execute" /\ stack # <<>> /\ seen' = seen
  BY DEF Return
<1>1. /\ GraphOK /\ FramesInv /\ Root \notin seen
      /\ seen \subseteq Nodes /\ needed \subseteq Nodes
      /\ \A n \in (seen \cup {Root}) \ OnStack : Settled(n)
      /\ \A n \in Nodes \ (seen \cup {Root}) : n \in needed <=> Marked(n)
  BY <1>0, SearchFacts
<1>2. PICK L, x, e : L = Len(stack) /\ x = Top.fn /\ e = Len(next[Top.fn])
  OBVIOUS
<1>3. /\ DOMAIN stack = 1..L /\ stack[L].fn = x /\ x \in Nodes
      /\ \A k \in 1..L : stack[k].fn \in Nodes /\ stack[k].i \in Nat
  BY <1>0, <1>1, <1>2, StackFacts, TopFacts DEF Top
<1>4. L \in Nat /\ L \geq 1
  BY <1>0, <1>1, <1>2, TopFacts
<1>5. e \in Nat /\ DOMAIN next[x] = 1..e /\ e = Len(next[x])
  BY <1>1, <1>2, <1>3, NextFacts, InitAssumption
<1>6. NextUnseen = e + 1 /\ Children(x) \subseteq seen
  <2>1. NextUnseen > e /\ Top.i \in 1..(e + 1) /\ NextUnseen \in Top.i..(e + 1)
    BY <1>0, <1>1, <1>2, TopFacts DEF Return
  <2>2. NextUnseen = e + 1
    BY <1>5, <2>1
  <2>3. \A j \in 1..(NextUnseen - 1) : next[x][j] \in seen
    BY <1>0, <1>1, <1>2, TopFacts
  <2>4. \A j \in 1..e : next[x][j] \in seen
    BY <1>5, <2>2, <2>3
  <2> QED
    BY <1>5, <2>2, <2>4 DEF Children
<1>7. PICK B : B = NeededBySeen
  OBVIOUS
<1>8. /\ x \in B <=> Marked(x) \/ Leads[x]
      /\ \A n : n # x => (n \in B <=> n \in needed)
  <2>1. /\ Top.fn \in NeededBySeen <=> Marked(Top.fn) \/ Passed(Top.fn, NextUnseen)
        /\ \A n : n # Top.fn => (n \in NeededBySeen <=> n \in needed)
    BY <1>0, <1>1, NeededBySeenFacts
  <2>2. x \in B <=> Marked(x) \/ Passed(x, e + 1)
    BY <1>2, <1>6, <1>7, <2>1
  <2>3. Passed(x, e + 1) <=> Leads[x]
    BY <1>1, <1>3, <1>5, PassedAll
  <2> QED
    BY <1>2, <1>7, <2>1, <2>2, <2>3
<1>9. x \in B \cup Captured <=> Wanted(x)
  BY <1>8 DEF Captured, Wanted, Marked
<1>10. needed' = B \cup IF L > 1 /\ Wanted(x) THEN {stack[L - 1].fn} ELSE {}
  BY <1>2, <1>7, <1>9 DEF Return, Parent
<1>11. PICK M \in Nat : M = L - 1
  BY <1>4
<1>12. /\ stack' \in Seq(FrameSet) /\ Len(stack') = M /\ DOMAIN stack' = 1..M
       /\ \A k \in 1..M : stack'[k] = stack[k]
  <2>1. stack \in Seq(FrameSet)
    BY <1>1 DEF FramesInv
  <2>2. stack' = SubSeq(stack, 1, L - 1)
    BY <1>2 DEF Return
  <2>3. /\ SubSeq(stack, 1, L - 1) \in Seq(FrameSet) /\ Len(SubSeq(stack, 1, L - 1)) = L - 1
        /\ DOMAIN SubSeq(stack, 1, L - 1) = 1..(L - 1)
        /\ \A k \in 1..(L - 1) : SubSeq(stack, 1, L - 1)[k] = stack[k]
    BY <1>2, <1>4, <2>1, DropLast
  <2> QED
    BY <1>11, <2>2, <2>3
<1>13. \A k \in 1..M : k \in 1..L /\ k < L /\ k \in Nat
  BY <1>4, <1>11
<1>14. \A k, l \in 1..L : k < l => stack[k].fn > stack[l].fn
  BY <1>1, <1>3 DEF FramesInv
<1>15. \A k, l \in 1..L : k < l => stack[k].fn # stack[l].fn
  <2>1. \A k \in 1..L : stack[k].fn \in Nat
    BY <1>3, RootNode
  <2> QED
    BY <1>14, <2>1
<1>16. \A k, l \in 1..M : k < l => stack'[k].fn > stack'[l].fn
  BY <1>12, <1>13, <1>14
<1>17. \A k \in 1..M : stack[k].fn # x
  BY <1>3, <1>4, <1>13, <1>15
<1>18. \A n : n # x /\ (M = 0 \/ n # stack[M].fn) => (n \in needed' <=> n \in needed)
  BY <1>4, <1>8, <1>10, <1>11
<1>19. x \in needed' <=> Marked(x) \/ Leads[x]
  <2>1. L > 1 => stack[L - 1].fn # x
    BY <1>4, <1>11, <1>17
  <2> QED
    BY <1>8, <1>10, <2>1
<1>20. \A k \in 1..M : FrameInv(k)'
  <2> TAKE k \in 1..M
  <2>1. FrameInv(k) /\ k < L /\ k \in Nat
    BY <1>1, <1>3, <1>13 DEF FramesInv
  <2>2. PICK n, i : n = stack[k].fn /\ i = stack[k].i
    OBVIOUS
  <2>3. /\ n \in seen \cup {Root} /\ i \in 1..(Len(next[n]) + 1)
        /\ \A j \in 1..(i - 1) : next[n][j] \in seen
        /\ i \geq 2 /\ next[n][i - 1] = stack[k + 1].fn
        /\ n \in needed <=> Marked(n) \/ Passed(n, i - 1)
    BY <1>2, <1>4, <2>1, <2>2 DEF FrameInv, Answered
  <2>4. n = stack'[k].fn /\ i = stack'[k].i /\ i \in Nat
    BY <1>3, <1>12, <1>13, <2>2
  <2>5. CASE k = M
    <3>1. k = Len(stack') /\ ~(k < Len(stack')) /\ k + 1 = L
      BY <1>4, <1>11, <1>12, <2>5
    <3>2. next[n][i - 1] = x
      BY <1>3, <2>3, <3>1
    <3>3. Passed(n, i) <=> Passed(n, i - 1) \/ Wanted(x)
      <4>1. i - 1 \in Nat /\ i - 1 \geq 1 /\ (i - 1) + 1 = i
        BY <2>3, <2>4
      <4>2. Passed(n, (i - 1) + 1) <=> Passed(n, i - 1) \/ Wanted(next[n][i - 1])
        BY <4>1, PassedNext
      <4> QED
        BY <3>2, <4>1, <4>2
    <3>4. n \in needed' <=> n \in needed \/ Wanted(x)
      <4>1. L > 1 /\ stack[L - 1].fn = n
        BY <1>4, <1>11, <2>2, <2>5
      <4>2. n # x
        BY <1>17, <2>2
      <4> QED
        BY <1>8, <1>10, <4>1, <4>2
    <3>5. n \in needed' <=> Marked(n) \/ Passed(n, i)
      BY <2>3, <3>3, <3>4
    <3> QED
      BY <1>0, <2>3, <2>4, <3>1, <3>5, FrameInvNext
  <2>6. CASE k # M
    <3>1. k # Len(stack') /\ k + 1 \in 1..M /\ M \in 1..L /\ k < M /\ k \in 1..L
      BY <1>4, <1>11, <1>12, <2>6
    <3>2. stack'[k + 1].fn = stack[k + 1].fn
      BY <1>12, <3>1
    <3>3. n # x /\ n # stack[M].fn
      BY <1>15, <1>17, <2>2, <3>1
    <3>4. n \in needed' <=> Marked(n) \/ Passed(n, i - 1)
      BY <1>18, <2>3, <3>3
    <3> QED
      BY <1>0, <2>3, <2>4, <3>1, <3>2, <3>4, FrameInvNext
  <2> QED
    BY <2>5, <2>6
<1>21. ASSUME NEW n \in seen' \cup {Root}
       PROVE  \/ \E k \in 1..M : n = stack'[k].fn
              \/ /\ n \in needed' <=> Marked(n) \/ Leads[n]
                 /\ Pruned(n) \/ Children(n) \subseteq seen'
  <2> SUFFICES ASSUME \A k \in 1..M : n # stack'[k].fn
               PROVE  /\ n \in needed' <=> Marked(n) \/ Leads[n]
                      /\ Pruned(n) \/ Children(n) \subseteq seen'
    OBVIOUS
  <2>1. CASE n = x
    BY <1>0, <1>6, <1>19, <2>1
  <2>2. CASE n # x
    <3>1. \A k \in 1..L : k \in 1..M \/ k = L
      BY <1>4, <1>11
    <3>2. \A k \in 1..L : stack[k].fn # n
      BY <1>3, <1>12, <2>2, <3>1
    <3>3. n \notin OnStack
      BY <1>3, <3>2 DEF OnStack
    <3>4. Settled(n)
      BY <1>0, <1>1, <3>3
    <3>5. M = 0 \/ n # stack[M].fn
      <4>1. M # 0 => M \in 1..L
        BY <1>4, <1>11
      <4> QED
        BY <3>2, <4>1
    <3> QED
      BY <1>0, <1>18, <2>2, <3>4, <3>5 DEF Settled
  <2> QED
    BY <2>1, <2>2
<1>22. \A k \in 1..L : stack[k].fn \in seen \cup {Root}
  BY <1>1, <1>3 DEF FramesInv, FrameInv
<1>23. \A n \in Nodes \ (seen' \cup {Root}) : n \in needed' <=> Marked(n)
  <2> TAKE n \in Nodes \ (seen' \cup {Root})
  <2>1. \A k \in 1..L : stack[k].fn # n
    BY <1>0, <1>22
  <2>2. n # x /\ (M = 0 \/ n # stack[M].fn)
    BY <1>3, <1>4, <1>11, <1>13, <2>1
  <2> QED
    BY <1>0, <1>1, <1>18, <2>2
<1>24. needed' \subseteq Nodes
  <2>1. B \subseteq Nodes
    BY <1>1, <1>3, <1>8
  <2>2. L > 1 => stack[L - 1].fn \in Nodes
    BY <1>3, <1>4
  <2> QED
    BY <1>10, <2>1, <2>2
<1>25. Root \notin seen' /\ seen' \subseteq Nodes
  BY <1>0, <1>1
<1> QED
  BY <1>0, <1>12, <1>16, <1>20, <1>21, <1>23, <1>24, <1>25, SearchNext

\* The stack is empty: every Node that was seen is settled.
LEMMA FinishStep == IInv /\ Finish => IInv'
<1> SUFFICES ASSUME IInv, Finish PROVE IInv'
  OBVIOUS
<1>0. /\ UNCHANGED <<graph, queue, seen, dependencies, needed, stack>>
      /\ pc = "execute" /\ pc' = "done" /\ stack = <<>>
  BY DEF Finish
<1>1. /\ GraphOK /\ seen \subseteq Nodes
      /\ \A n \in (seen \cup {Root}) \ OnStack : Settled(n)
      /\ \A n \in Nodes \ (seen \cup {Root}) : n \in needed <=> Marked(n)
  BY <1>0, SearchFacts
<1>2. GraphOK'
  BY <1>0, <1>1, SameGraph
<1>3. TypeOK'
  BY <1>0 DEF IInv, TypeOK, graph
<1>4. CountedInv'
  BY <1>0, CountedStays DEF IInv
<1>5. PICK V \in SUBSET Nodes : V = seen \cup {Root}
  BY <1>1, RootNode
<1>6. \A n \in V : Settled(n)
  BY <1>0, <1>1, <1>5 DEF OnStack
<1>7. ClosedUnderNext(V)'
  <2>1. ClosedUnderNext(V)
    BY <1>5, <1>6 DEF ClosedUnderNext, Settled
  <2> QED
    BY <1>0, <2>1, SameGraph
<1>8. /\ \A n \in V : n \in needed' <=> Marked(n)' \/ Leads[n]'
      /\ \A n \in Nodes \ V : n \in needed' <=> Marked(n)'
  <2>1. \A n \in V : n \in needed <=> Marked(n) \/ Leads[n]
    BY <1>6 DEF Settled
  <2> QED
    BY <1>0, <1>1, <1>5, <2>1, SameGraph
<1>9. SettledInv'
  BY <1>7, <1>8 DEF SettledInv
<1> QED
  BY <1>0, <1>2, <1>3, <1>4, <1>9 DEF IInv, VisitInv, SearchInv

\* Nothing happens.
LEMMA StutterStep == IInv /\ UNCHANGED vars => IInv'
<1> SUFFICES ASSUME IInv, UNCHANGED vars PROVE IInv'
  OBVIOUS
<1>0. /\ next' = next /\ topo' = topo /\ outputs' = outputs /\ accumulate' = accumulate
      /\ pc' = pc /\ queue' = queue /\ seen' = seen /\ dependencies' = dependencies
      /\ needed' = needed /\ stack' = stack
  BY DEF vars, graph
<1>1. UNCHANGED graph /\ GraphOK /\ TypeOK
  BY DEF vars, IInv
<1>2. GraphOK' /\ TypeOK'
  BY <1>0, <1>1, SameGraph DEF TypeOK
<1>3. CASE pc = "dependencies"
  <2>1. PICK V : V = Expanded
    OBVIOUS
  <2>2. Expanded' = V
    BY <1>0, <2>1 DEF Expanded
  <2>3. /\ needed = {} /\ stack = <<>>
        /\ queue \subseteq seen \cup {Root} /\ Root \notin seen
        /\ \A n \in V : Pruned(n) \/ Children(n) \subseteq seen
        /\ \A n \in seen : Reached[n]
        /\ Counted(V)
    BY <1>3, <2>1 DEF IInv, VisitInv
  <2>4. Counted(V)'
    BY <1>0, <1>1, <2>3, CountedSame
  <2>5. Counted(Expanded)'
    BY <1>0, <2>2, <2>4 DEF Counted, EdgesFrom
  <2>6. \A n \in V : Pruned(n)' \/ Children(n)' \subseteq seen'
    BY <1>0, <1>1, <2>3, SameGraph
  <2>7. \A n \in seen' : Reached[n]'
    BY <1>0, <1>1, <2>3, SameGraph DEF TypeOK
  <2>8. VisitInv'
    BY <1>0, <2>2, <2>3, <2>5, <2>6, <2>7 DEF VisitInv
  <2> QED
    BY <1>0, <1>2, <1>3, <2>8 DEF IInv, CountedInv, SearchInv, SettledInv
<1>4. CASE pc = "execute"
  <2>1. /\ FramesInv /\ Root \notin seen /\ seen \subseteq Nodes /\ needed \subseteq Nodes
        /\ \A n \in (seen \cup {Root}) \ OnStack : Settled(n)
        /\ \A n \in Nodes \ (seen \cup {Root}) : n \in needed <=> Marked(n)
    BY <1>4, SearchFacts
  <2>2. PICK L \in Nat : L = Len(stack) /\ DOMAIN stack = 1..L
    BY <2>1, StackFacts
  <2>3. \A k \in 1..L : FrameInv(k)'
    <3> TAKE k \in 1..L
    <3>1. FrameInv(k)
      BY <2>1, <2>2 DEF FramesInv
    <3>2. PICK n, i, b : n = stack[k].fn /\ i = stack[k].i /\ b = Answered(k)
      OBVIOUS
    <3>3. /\ n = stack'[k].fn /\ i = stack'[k].i
          /\ b = IF k = Len(stack') THEN i ELSE i - 1
      BY <1>0, <3>2 DEF Answered
    <3>4. /\ n \in seen' \cup {Root} /\ i \in 1..(Len(next[n]) + 1)
          /\ \A j \in 1..(i - 1) : next[n][j] \in seen'
          /\ n \in needed' <=> Marked(n) \/ Passed(n, b)
          /\ k < Len(stack') => i \geq 2 /\ next[n][i - 1] = stack'[k + 1].fn
      BY <1>0, <3>1, <3>2 DEF FrameInv
    <3> QED
      BY <1>1, <3>3, <3>4, FrameInvNext
  <2>4. ASSUME NEW n \in seen' \cup {Root}
        PROVE  \/ \E k \in 1..L : n = stack'[k].fn
               \/ /\ n \in needed' <=> Marked(n) \/ Leads[n]
                  /\ Pruned(n) \/ Children(n) \subseteq seen'
    BY <1>0, <2>1, <2>2 DEF OnStack, Settled
  <2>5. /\ stack' \in Seq(FrameSet) /\ L = Len(stack') /\ DOMAIN stack' = 1..L
        /\ \A k, l \in 1..L : k < l => stack'[k].fn > stack'[l].fn
    BY <1>0, <2>1, <2>2 DEF FramesInv
  <2>6. /\ Root \notin seen' /\ seen' \subseteq Nodes /\ needed' \subseteq Nodes
        /\ \A n \in Nodes \ (seen' \cup {Root}) : n \in needed' <=> Marked(n)
    BY <1>0, <2>1
  <2> QED
    BY <1>0, <1>1, <1>4, <2>3, <2>4, <2>5, <2>6, SearchNext
<1>5. CASE pc = "done"
  <2>1. CountedInv'
    BY <1>0, <1>1, <1>5, CountedStays DEF IInv
  <2>2. SettledInv'
    <3> SUFFICES ASSUME outputs' # {} PROVE SettledInv'
      BY DEF SettledInv
    <3>1. PICK V \in SUBSET Nodes :
            /\ ClosedUnderNext(V)
            /\ \A n \in V : n \in needed <=> Marked(n) \/ Leads[n]
            /\ \A n \in Nodes \ V : n \in needed <=> Marked(n)
      BY <1>0, <1>5 DEF IInv, SettledInv
    <3>2. /\ ClosedUnderNext(V)'
          /\ \A n \in V : n \in needed' <=> Marked(n)' \/ Leads[n]'
          /\ \A n \in Nodes \ V : n \in needed' <=> Marked(n)'
      BY <1>0, <1>1, <3>1, SameGraph
    <3> QED
      BY <3>2 DEF SettledInv
  <2> QED
    BY <1>0, <1>2, <1>5, <2>1, <2>2 DEF IInv, VisitInv, SearchInv
<1> QED
  BY <1>1, <1>3, <1>4, <1>5 DEF TypeOK

-----------------------------------------------------------------------------
\* Every step.
LEMMA NextStep == IInv /\ [Next]_vars => IInv'
<1> SUFFICES ASSUME IInv, [Next]_vars PROVE IInv'
  OBVIOUS
<1>1. CASE Visit
  BY <1>1, VisitStep
<1>2. CASE InitToExecute
  BY <1>2, InitToExecuteStep
<1>3. CASE Descend
  BY <1>3, DescendStep
<1>4. CASE Return
  BY <1>4, ReturnStep
<1>5. CASE Finish
  BY <1>5, FinishStep
<1>6. CASE Done \/ UNCHANGED vars
  BY <1>6, StutterStep DEF Done
<1> QED
  BY <1>1, <1>2, <1>3, <1>4, <1>5, <1>6 DEF Next

\* After each step of compute_dependencies (engine.cpp) the Nodes it expanded are
\* counted, and after each step of init_to_execute the Nodes that left its stack are
\* settled and those on it wait for the one above them, on every graph.
THEOREM GraphTaskInvariant == Spec => []IInv
<1>1. Init => IInv
  BY InitIInv
<1>2. IInv /\ [Next]_vars => IInv'
  BY NextStep
<1> QED
  BY <1>1, <1>2, PTL DEF Spec

\* What the end of the search says of the Nodes that the root reaches.
LEMMA NeededAtEnd ==
  ASSUME IInv, pc = "done", outputs # {}, NEW n \in Nodes, Reached[n]
  PROVE  n \in needed <=> ShouldBeNeeded(n)
<1>1. PICK V \in SUBSET Nodes :
        /\ ClosedUnderNext(V)
        /\ \A m \in V : m \in needed <=> Marked(m) \/ Leads[m]
        /\ \A m \in Nodes \ V : m \in needed <=> Marked(m)
  BY DEF IInv, SettledInv
<1>2. GraphOK
  BY DEF IInv
<1>3. CASE n \in V
  BY <1>1, <1>3 DEF ShouldBeNeeded, Marked
<1>4. CASE n \notin V
  <2>1. ~Wanted(n)
    BY <1>1, <1>2, <1>4, WantedFound
  <2>2. n \in needed <=> Marked(n)
    BY <1>1, <1>4
  <2> QED
    BY <2>1, <2>2 DEF ShouldBeNeeded, Marked, Wanted
<1> QED
  BY <1>3, <1>4

\* init_to_execute marks, of the Nodes that the root reaches, exactly those with a
\* path to an output, on every graph: pruning by topological number loses none, and
\* a Node that is shared between paths is final before a parent passes over it.
THEOREM InitToExecuteExact == Spec => []NeededIsPath
<1>1. IInv => NeededIsPath
  BY NeededAtEnd DEF NeededIsPath
<1> QED
  BY <1>1, GraphTaskInvariant, PTL

\* Two searches agree: the Nodes that compute_dependencies counted and did not
\* prune are, for a Node that matters, the ones that will be evaluated.
LEMMA CountedAtEnd ==
  ASSUME IInv, pc = "done", NEW V \in SUBSET Nodes,
         ClosedUnderNext(V), \A n \in V : Reached[n]
  PROVE  /\ \A n \in Nodes : Executes(n) => n \in V /\ ~Pruned(n)
         /\ \A n \in Nodes : Reached[n] /\ (outputs = {} \/ ShouldExecute(n)) =>
              \A m \in Nodes : n \in Children(m) =>
                (Executes(m) <=> m \in V /\ ~Pruned(m))
<1>1. GraphOK
  BY DEF IInv
<1>2. ASSUME NEW n \in Nodes, Reached[n], outputs = {} \/ ShouldExecute(n)
      PROVE  outputs = {} \/ Wanted(n)
  <2> SUFFICES ASSUME outputs # {} PROVE Wanted(n)
    OBVIOUS
  <2>1. n \in needed <=> ShouldBeNeeded(n)
    BY <1>2, NeededAtEnd
  <2> QED
    BY <1>2, <2>1 DEF ShouldExecute, Captured, ShouldBeNeeded, Wanted
<1>3. ASSUME NEW n \in Nodes, Executes(n)
      PROVE  n \in V /\ ~Pruned(n)
  <2>1. Reached[n] /\ (outputs = {} \/ ShouldExecute(n))
    BY <1>3 DEF Executes, ShouldExecute
  <2>2. outputs = {} \/ Wanted(n)
    BY <1>2, <2>1
  <2> QED
    BY <1>1, <2>1, <2>2, WantedFound, WantedNotPruned
<1>4. ASSUME NEW n \in Nodes, Reached[n], outputs = {} \/ ShouldExecute(n),
             NEW m \in Nodes, n \in Children(m), m \in V
      PROVE  Executes(m)
  <2>1. Reached[m]
    BY <1>4
  <2>2. outputs = {} \/ m \in needed
    <3> SUFFICES ASSUME outputs # {} PROVE m \in needed
      OBVIOUS
    <3>1. Wanted(n)
      BY <1>2, <1>4
    <3>2. Leads[m]
      BY <1>1, <1>4, <3>1, WantedBack
    <3>3. m \in needed <=> ShouldBeNeeded(m)
      BY <2>1, NeededAtEnd
    <3> QED
      BY <3>2, <3>3 DEF ShouldBeNeeded
  <2> QED
    BY <2>1, <2>2 DEF Executes
<1> QED
  BY <1>3, <1>4

\* A Node that should execute waits for exactly the edges of the Nodes that will be
\* evaluated, and each evaluated Node finds the dependencies it decrements, on every
\* graph: evaluate_function never meets a Node without an entry in dependencies_,
\* and no Node stays in not_ready_.
THEOREM ComputeDependenciesExact == Spec => []DependenciesExact
<1>1. IInv => DependenciesExact
  <2> SUFFICES ASSUME IInv PROVE DependenciesExact
    OBVIOUS
  <2>0. GraphOK /\ TypeOK
    BY DEF IInv
  <2> SUFFICES ASSUME pc = "done"
               PROVE  /\ \A n \in Nodes \ {Root} :
                           Reached[n] /\ (outputs = {} \/ ShouldExecute(n)) =>
                             dependencies[n] =
                               Cardinality(EdgesFrom({m \in Nodes : Executes(m)}, n))
                      /\ \A n, m \in Nodes :
                           Executes(n) /\ Edges(n, m) > 0 => dependencies[m] \geq Edges(n, m)
    BY <2>0 DEF DependenciesExact
  <2>1. PICK V \in SUBSET Nodes :
          ClosedUnderNext(V) /\ (\A n \in V : Reached[n]) /\ Counted(V)
    BY DEF IInv, CountedInv
  <2> DEFINE U == {m \in V : ~Pruned(m)}
             E == {m \in Nodes : Executes(m)}
  <2>2. \A m \in Nodes : dependencies[m] = Cardinality(EdgesFrom(U, m))
    BY <2>1 DEF Counted
  <2>3. U \in SUBSET Nodes /\ E \in SUBSET U
    BY <2>1, CountedAtEnd
  <2>4. ASSUME NEW n \in Nodes, Reached[n], outputs = {} \/ ShouldExecute(n)
        PROVE  EdgesFrom(U, n) = EdgesFrom(E, n)
    <3>1. \A m \in Nodes : n \in Children(m) => (m \in E <=> m \in U)
      BY <2>1, <2>4, CountedAtEnd
    <3>2. \A m, i : i \in DOMAIN next[m] /\ next[m][i] = n => n \in Children(m)
      BY DEF Children
    <3> HIDE DEF U, E
    <3>3. \A m, i : i \in DOMAIN next[m] /\ next[m][i] = n => (m \in E <=> m \in U)
      BY <2>3, <3>1, <3>2
    <3> QED
      BY <3>3 DEF EdgesFrom
  <2>5. ASSUME NEW n \in Nodes, NEW m \in Nodes, Executes(n)
        PROVE  dependencies[m] \geq Edges(n, m)
    <3>1. n \in U
      BY <2>3, <2>5
    <3> HIDE DEF U, E
    <3>2. Cardinality(EdgesFrom(U, m)) \geq Edges(n, m)
      BY <2>0, <2>3, <3>1, EdgesFromMember
    <3> QED
      BY <2>2, <3>2
  <2> QED
    BY <2>2, <2>4, <2>5
<1> QED
  BY <1>1, GraphTaskInvariant, PTL
=============================================================================
