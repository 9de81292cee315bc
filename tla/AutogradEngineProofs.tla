------------------------ MODULE AutogradEngineProofs ------------------------
(***************************************************************************)
(* Proofs of the safety of the autograd engine, for any graphs, threads,   *)
(* devices, depth of reentrant calls and functions that throw.             *)
(*                                                                         *)
(* The inductive invariant follows the one NodeTask of each Node from the  *)
(* queue it is pushed to, through the activation that evaluates it, to the *)
(* outputs that make its successors ready; says of the counter of a        *)
(* GraphTask what it counts; and who may complete its future.              *)
(***************************************************************************)
EXTENDS AutogradEngine, FiniteSetTheorems, FunctionTheorems, TLAPS

\* The activations by thread and place in its stack.
Acts == [a \in Activations |-> frames[a[1]][a[2]]]

FrameSet == [task : Tasks \cup {None}, pc : PCs, g : Tasks \cup {None},
             fn : Nodes \cup Threads \cup {None}, inputs : SUBSET Nodes]
ItemSet == [g : Tasks, fn : Nodes \cup Threads, inputs : SUBSET Nodes]

\* The activation keeps GraphTask g alive.
Holds(f, g) == f.task = g \/ f.g = g \/ (f.pc = "calling" /\ Origin[g] = f.fn)

\* The entries that ReadyQueue::push adds.
NewEntries(g, P) == {<<QueueFor(g, i), i>> : i \in P}

\* The types, with the stacks as sequences.
Typed ==
  /\ frames \in [Threads -> Seq(FrameSet)]
  /\ queue \in [Queues -> SUBSET ItemSet]
  /\ pool \in [Pool -> {"none", "new", "idle", "busy"}]
  /\ graphtasks \in Seq(Tasks)
  /\ outstanding \in [Tasks -> Nat]
  /\ hasError \in [Tasks -> BOOLEAN] /\ claimed \in [Tasks -> BOOLEAN]
  /\ future \in [Tasks -> {"none", "pending"} \cup Done]
  /\ owner \in [Tasks -> Devices \cup {CPU, None}]
  /\ cpuQueue \in [Tasks -> Queues \cup {None}]
  /\ depth \in [Tasks -> Nat]
  /\ dependencies \in [Nodes -> Nat]
  /\ notReady \in [Nodes -> SUBSET Nodes]
  /\ evaluated \subseteq Nodes

\* The Nodes whose outputs were accumulated.
Fed == evaluated \cap Needed

\* An activation holds the NodeTask of a Node that is not evaluated ...
Token == {"eval", "calling", "outputs", "throw"}

\* ... or the right to complete the future of its GraphTask.
Claim == {"setError", "post"}

\* An activation that is about to wake the owner.
Wake == {"post", "waitFuture", "wake"}

\* A NodeTask of a Node that may be evaluated.
TokenOK(x) ==
  /\ x.fn \in Nodes \ evaluated /\ TaskOf[x.fn] = x.g
  /\ Preds(x.fn) \subseteq Fed /\ x.inputs = Preds(x.fn)

\* All of GraphTask g was evaluated.
AllRun(g) == \A n \in ShouldExecute : TaskOf[n] = g => n \in evaluated

Started(g) == future[g] # "none"

\* An activation.
FrameOK(f) ==
  /\ f.task # None => Started(f.task)
  /\ f.pc \in {"loop", "pop"} => f.g = None
  /\ f.pc \notin {"loop", "pop"} => f.g \in Tasks /\ Started(f.g)
  /\ f.pc \in Token => TokenOK(f)
  /\ f.pc \in {"calling", "outputs"} => f.fn \in Needed
  /\ f.pc \in Claim => claimed[f.g] /\ future[f.g] = "pending"
  /\ f.pc = "setError" => hasError[f.g]
  /\ f.pc = "post" => AllRun(f.g)

\* A NodeTask in a queue.
ItemOK(i) == Started(i.g) /\ (i.fn \in Nodes => TokenOK(i))

Shape == \A a \in DOMAIN Acts : FrameOK(Acts[a])
Items == \A e \in Entries : ItemOK(e[2])

\* Where the NodeTask of n is.
InFrame(n) == {a \in DOMAIN Acts : Acts[a].pc \in Token /\ Acts[a].fn = n}
InQueue(n) == {e \in Entries : e[2].fn = n}

\* A Node has one NodeTask.
Unique ==
  \A n \in Nodes :
    /\ \A a, b \in InFrame(n) : a = b
    /\ \A d, e \in InQueue(n) : d = e
    /\ InFrame(n) = {} \/ InQueue(n) = {}

\* dependencies_ and not_ready_ follow from what was evaluated.
Graph ==
  \A n \in Nodes :
    /\ dependencies[n] = Cardinality(Preds(n) \ Fed)
    /\ notReady[n] = IF n \in ShouldExecute /\ ~(Preds(n) \subseteq Fed)
                     THEN Preds(n) \cap Fed ELSE {}
    /\ n \in evaluated => Preds(n) \subseteq Fed

\* The fields of a GraphTask.
TaskOK(g) ==
  /\ ~Started(g) =>
       /\ outstanding[g] = 0 /\ ~claimed[g] /\ ~hasError[g]
       /\ \A n \in evaluated : TaskOf[n] # g
  /\ Started(g) => owner[g] \in Devices \cup {CPU} /\ cpuQueue[g] \in Queues
  /\ future[g] \in Done => claimed[g]
  /\ hasError[g] => claimed[g]
  /\ future[g] = "value" => AllRun(g)
  /\ future[g] = "error" => hasError[g]
TasksOK == \A g \in Tasks : TaskOK(g)

\* A function calls execute() once: a started GraphTask is not called again.
Called ==
  \A g \in Tasks :
    Started(g) /\ Origin[g] \in Nodes =>
      /\ Started(TaskOf[Origin[g]]) /\ Preds(Origin[g]) \subseteq Fed
      /\ InQueue(Origin[g]) = {}
      /\ \A a \in DOMAIN Acts : Acts[a].pc = "eval" => Acts[a].fn # Origin[g]

\* The stacks, and the reentrant pool.
Stacks ==
  /\ \A a \in DOMAIN Acts : a[2] < Depth(a[1]) => Acts[a].pc = "calling"
  /\ \A p \in Pool :
       /\ pool[p] # "busy" => Depth(p) = 0
       /\ Depth(p) > 0 => Acts[<<p, 1>>].task \in Tasks
  /\ \A j \in 1..Len(graphtasks) : Started(graphtasks[j])

\* One activation may complete a future.
Claims ==
  \A a, b \in DOMAIN Acts :
    Acts[a].pc \in Claim /\ Acts[b].pc \in Claim /\ Acts[a].g = Acts[b].g => a = b

\* What outstanding_tasks_ counts.
Counted ==
  /\ IsFiniteSet(DOMAIN Acts) /\ IsFiniteSet(Entries)
  /\ \A g \in Tasks :
       Valid(g) => outstanding[g] = Cardinality(Queued(g)) + Cardinality(Running(g))

\* A thread that is about to wake the owner has no dummy task in a queue.
WakeFree ==
  \A a \in DOMAIN Acts, e \in Entries :
    Acts[a].pc \in Wake => e[2] # Item(Acts[a].g, a[1], {})

\* No Node is forgotten: when all its inputs are there, it is evaluated, queued
\* or held, unless its GraphTask failed.
Alive ==
  \A n \in ShouldExecute :
    LET g == TaskOf[n] IN
    Valid(g) /\ Started(g) /\ ~hasError[g] /\ Preds(n) \subseteq Fed =>
      n \in evaluated \/ InFrame(n) # {} \/ InQueue(n) # {}

Inv ==
  /\ Typed /\ Shape /\ Items /\ Unique /\ Graph /\ TasksOK /\ Called /\ Stacks
  /\ Claims /\ Counted /\ WakeFree /\ Alive
-----------------------------------------------------------------------------
(* The stacks as a function of their places.                               *)

\* The places of the stacks.
LEMMA ActsFacts ==
  ASSUME Typed
  PROVE  /\ DOMAIN Acts = Activations
         /\ \A t \in Threads : \A i \in 1..Depth(t) :
              <<t, i>> \in DOMAIN Acts /\ Acts[<<t, i>>] = frames[t][i]
         /\ \A a \in DOMAIN Acts :
              /\ a[1] \in Threads /\ a[2] \in 1..Depth(a[1]) /\ a = <<a[1], a[2]>>
              /\ Acts[a] = frames[a[1]][a[2]] /\ Acts[a] \in FrameSet
         /\ \A t \in Threads : Depth(t) \in Nat
<1>1. DOMAIN Acts = Activations
  BY DEF Acts
<1>2. \A t \in Threads : \A i \in 1..Depth(t) : <<t, i>> \in Activations
  BY DEF Activations
<1>3. \A a \in Activations : \E t \in Threads : \E i \in 1..Depth(t) : a = <<t, i>>
  BY DEF Activations
<1>4. \A t \in Threads : Depth(t) \in Nat /\ \A i \in 1..Depth(t) : frames[t][i] \in FrameSet
  BY DEF Typed, Depth
<1>5. \A a \in Activations : Acts[a] = frames[a[1]][a[2]]
  BY DEF Acts
<1> QED
  BY <1>1, <1>2, <1>3, <1>4, <1>5

\* The place of the activation that runs.
LEMMA TopFacts ==
  ASSUME Typed, NEW t \in Threads, Depth(t) > 0
  PROVE  /\ <<t, Depth(t)>> \in DOMAIN Acts /\ Acts[<<t, Depth(t)>>] = Top(t)
         /\ Top(t) \in FrameSet
BY ActsFacts DEF Top

\* A step that changes the running activation.
LEMMA SetTopEffect ==
  ASSUME Typed, NEW t \in Threads, Depth(t) > 0, NEW f \in FrameSet, SetTop(t, f)
  PROVE  /\ frames' \in [Threads -> Seq(FrameSet)]
         /\ \A s \in Threads : Depth(s)' = Depth(s)
         /\ Acts' = [Acts EXCEPT ![<<t, Depth(t)>>] = f]
<1>1. frames \in [Threads -> Seq(FrameSet)]
  BY DEF Typed
<1>2. frames' = [frames EXCEPT ![t] = [frames[t] EXCEPT ![Depth(t)] = f]]
  BY DEF SetTop
<1>3. Depth(t) \in 1..Len(frames[t])
  BY <1>1 DEF Depth
<1>4. frames' \in [Threads -> Seq(FrameSet)]
  BY <1>1, <1>2, <1>3
<1>5. \A s \in Threads : Depth(s)' = Depth(s)
  BY <1>1, <1>2, <1>3 DEF Depth
<1>6. Activations' = Activations
  BY <1>5 DEF Activations
<1>7. \A a \in Activations : a[1] \in Threads /\ a[2] \in 1..Depth(a[1]) /\ a = <<a[1], a[2]>>
  BY ActsFacts
<1>8. \A a \in Activations :
        frames'[a[1]][a[2]] = IF a = <<t, Depth(t)>> THEN f ELSE frames[a[1]][a[2]]
  <2> SUFFICES ASSUME NEW a \in Activations
               PROVE  frames'[a[1]][a[2]] = IF a = <<t, Depth(t)>> THEN f ELSE frames[a[1]][a[2]]
    OBVIOUS
  <2>1. CASE a[1] = t
    <3>1. frames'[t] = [frames[t] EXCEPT ![Depth(t)] = f]
      BY <1>1, <1>2
    <3>2. a[2] \in DOMAIN frames[t]
      BY <1>1, <1>7, <2>1 DEF Depth
    <3>3. frames'[t][a[2]] = IF a[2] = Depth(t) THEN f ELSE frames[t][a[2]]
      BY <3>1, <3>2
    <3> QED
      BY <1>7, <2>1, <3>3
  <2>2. CASE a[1] # t
    <3>1. frames'[a[1]] = frames[a[1]]
      BY <1>1, <1>2, <1>7, <2>2
    <3> QED
      BY <1>7, <2>2, <3>1
  <2> QED
    BY <2>1, <2>2
<1>9. Acts' = [a \in Activations |-> IF a = <<t, Depth(t)>> THEN f ELSE frames[a[1]][a[2]]]
  BY <1>6, <1>8 DEF Acts
<1> QED
  BY <1>4, <1>5, <1>9 DEF Acts

\* A step that leaves the stacks alone.
LEMMA FramesSame ==
  ASSUME frames' = frames
  PROVE  /\ Acts' = Acts /\ Activations' = Activations
         /\ \A s : Depth(s)' = Depth(s)
BY DEF Acts, Activations, Depth

\* A stack that starts with an activation for g.
LEMMA NewStackEffect ==
  ASSUME Typed, NEW t \in Threads, Depth(t) = 0, NEW f \in FrameSet,
         frames' = [frames EXCEPT ![t] = <<f>>]
  PROVE  /\ frames' \in [Threads -> Seq(FrameSet)]
         /\ Depth(t)' = 1 /\ \A s \in Threads \ {t} : Depth(s)' = Depth(s)
         /\ <<t, 1>> \notin DOMAIN Acts /\ DOMAIN Acts' = DOMAIN Acts \cup {<<t, 1>>}
         /\ \A a \in DOMAIN Acts : Acts'[a] = Acts[a]
         /\ Acts'[<<t, 1>>] = f
<1>1. frames \in [Threads -> Seq(FrameSet)]
  BY DEF Typed
<1>2. <<f>> \in Seq(FrameSet) /\ Len(<<f>>) = 1 /\ <<f>>[1] = f
  OBVIOUS
<1>3. frames'[t] = <<f>> /\ \A s \in Threads \ {t} : frames'[s] = frames[s]
  BY <1>1
<1>4. frames' \in [Threads -> Seq(FrameSet)]
  BY <1>1, <1>2
<1>5. Depth(t)' = 1 /\ \A s \in Threads \ {t} : Depth(s)' = Depth(s)
  BY <1>2, <1>3 DEF Depth
<1>6. \A a \in Activations : a[1] \in Threads \ {t} /\ a[2] \in 1..Depth(a[1]) /\ a = <<a[1], a[2]>>
  BY ActsFacts
<1>7. Activations' = Activations \cup {<<t, 1>>}
  <2>1. ASSUME NEW a \in Activations' PROVE a \in Activations \cup {<<t, 1>>}
    <3>0. PICK s \in Threads : \E i \in 1..Depth(s)' : a = <<s, i>>
      BY <2>1 DEF Activations
    <3>1. PICK i \in 1..Depth(s)' : a = <<s, i>>
      BY <3>0
    <3>2. CASE s = t
      BY <1>5, <3>1, <3>2
    <3>3. CASE s # t
      <4>1. i \in 1..Depth(s)
        BY <1>5, <3>3
      <4> QED
        BY <3>1, <4>1 DEF Activations
    <3> QED
      BY <3>2, <3>3
  <2>2. ASSUME NEW a \in Activations PROVE a \in Activations'
    <3>1. a[2] \in 1..Depth(a[1])'
      BY <1>5, <1>6
    <3> QED
      BY <1>6, <3>1 DEF Activations
  <2>3. <<t, 1>> \in Activations'
    <3>1. 1 \in 1..Depth(t)'
      BY <1>5
    <3> QED
      BY <3>1 DEF Activations
  <2> QED
    BY <2>1, <2>2, <2>3
<1>8. <<t, 1>> \notin Activations
  BY <1>6
<1>9. Acts' = [a \in Activations \cup {<<t, 1>>} |-> frames'[a[1]][a[2]]]
  BY <1>7 DEF Acts
<1> QED
  <2>1. DOMAIN Acts = Activations /\ \A a \in Activations : Acts[a] = frames[a[1]][a[2]]
    BY DEF Acts
  <2>2. \A a \in Activations : frames'[a[1]][a[2]] = frames[a[1]][a[2]]
    BY <1>3, <1>6
  <2>3. frames'[t][1] = f
    BY <1>2, <1>3
  <2> QED
    BY <1>4, <1>5, <1>8, <1>9, <2>1, <2>2, <2>3

\* A reentrant call.
LEMMA NestEffect ==
  ASSUME Typed, NEW t \in Threads, Depth(t) > 0, NEW f \in FrameSet,
         frames' = [frames EXCEPT ![t] = Append([@ EXCEPT ![Depth(t)].pc = "calling"], f)]
  PROVE  LET a0 == <<t, Depth(t)>>
             b == <<t, Depth(t) + 1>> IN
         /\ frames' \in [Threads -> Seq(FrameSet)]
         /\ Depth(t)' = Depth(t) + 1 /\ \A s \in Threads \ {t} : Depth(s)' = Depth(s)
         /\ b \notin DOMAIN Acts /\ DOMAIN Acts' = DOMAIN Acts \cup {b}
         /\ \A a \in DOMAIN Acts : a # a0 => Acts'[a] = Acts[a]
         /\ Acts'[a0] = [Acts[a0] EXCEPT !.pc = "calling"]
         /\ Acts'[b] = f
<1> DEFINE d == Depth(t)
           c == [frames[t] EXCEPT ![d].pc = "calling"]
           r == [frames[t][d] EXCEPT !.pc = "calling"]
<1>1. frames \in [Threads -> Seq(FrameSet)] /\ frames[t] \in Seq(FrameSet)
  BY DEF Typed
<1>2. d = Len(frames[t]) /\ d \in 1..Len(frames[t])
  BY <1>1 DEF Depth
<1>3. r \in FrameSet
  <2>1. frames[t][d] \in FrameSet
    BY <1>1, <1>2
  <2> QED
    BY <2>1 DEF FrameSet, PCs
<1>4. c = [frames[t] EXCEPT ![d] = r]
  OBVIOUS
<1>5. c \in Seq(FrameSet) /\ Len(c) = d /\ c[d] = r /\ \A i \in 1..d : i # d => c[i] = frames[t][i]
  BY <1>1, <1>2, <1>3, <1>4
<1> HIDE DEF c, r
<1>6. /\ Append(c, f) \in Seq(FrameSet) /\ Len(Append(c, f)) = d + 1
      /\ Append(c, f)[d + 1] = f /\ \A i \in 1..d : Append(c, f)[i] = c[i]
  BY <1>2, <1>5
<1>7. frames' = [frames EXCEPT ![t] = Append(c, f)]
  BY DEF c
<1>8. frames'[t] = Append(c, f) /\ \A s \in Threads \ {t} : frames'[s] = frames[s]
  BY <1>1, <1>7
<1>9. frames' \in [Threads -> Seq(FrameSet)]
  BY <1>1, <1>6, <1>7
<1>10. Depth(t)' = d + 1 /\ \A s \in Threads \ {t} : Depth(s)' = Depth(s)
  BY <1>6, <1>8 DEF Depth
<1>11. \A a \in Activations : a[1] \in Threads /\ a[2] \in 1..Depth(a[1]) /\ a = <<a[1], a[2]>>
  BY ActsFacts
<1>12. Activations' = Activations \cup {<<t, d + 1>>}
  <2>1. ASSUME NEW a \in Activations' PROVE a \in Activations \cup {<<t, d + 1>>}
    <3>0. PICK s \in Threads : \E i \in 1..Depth(s)' : a = <<s, i>>
      BY <2>1 DEF Activations
    <3>1. PICK i \in 1..Depth(s)' : a = <<s, i>>
      BY <3>0
    <3>2. CASE i \in 1..Depth(s)
      BY <3>1, <3>2 DEF Activations
    <3>3. CASE i \notin 1..Depth(s)
      BY <1>2, <1>10, <3>1, <3>3
    <3> QED
      BY <3>2, <3>3
  <2>2. ASSUME NEW a \in Activations PROVE a \in Activations'
    <3>1. a[2] \in 1..Depth(a[1])'
      BY <1>2, <1>10, <1>11
    <3> QED
      BY <1>11, <3>1 DEF Activations
  <2>3. <<t, d + 1>> \in Activations'
    <3>1. d + 1 \in 1..Depth(t)'
      BY <1>2, <1>10
    <3> QED
      BY <3>1 DEF Activations
  <2> QED
    BY <2>1, <2>2, <2>3
<1>13. <<t, d + 1>> \notin Activations
  BY <1>2, <1>11
<1>14. Acts' = [a \in Activations \cup {<<t, d + 1>>} |-> frames'[a[1]][a[2]]]
  BY <1>12 DEF Acts
<1> QED
  <2>1. DOMAIN Acts = Activations /\ \A a \in Activations : Acts[a] = frames[a[1]][a[2]]
    BY DEF Acts
  <2>2. \A a \in Activations : a # <<t, d>> => frames'[a[1]][a[2]] = frames[a[1]][a[2]]
    <3> SUFFICES ASSUME NEW a \in Activations, a # <<t, d>>
                 PROVE  frames'[a[1]][a[2]] = frames[a[1]][a[2]]
      OBVIOUS
    <3>1. CASE a[1] = t
      <4>1. a[2] \in 1..d /\ a[2] # d
        BY <1>11, <3>1
      <4> QED
        BY <1>5, <1>6, <1>8, <3>1, <4>1
    <3>2. CASE a[1] # t
      BY <1>8, <1>11, <3>2
    <3> QED
      BY <3>1, <3>2
  <2>3. frames'[t][d + 1] = f /\ frames'[t][d] = r
    BY <1>2, <1>5, <1>6, <1>8
  <2>4. <<t, d>> \in Activations /\ Acts[<<t, d>>] = frames[t][d]
    BY <1>2, ActsFacts
  <2> QED
    BY <1>9, <1>10, <1>13, <1>14, <2>1, <2>2, <2>3, <2>4 DEF r

\* An activation returns.
LEMMA ReturnEffect ==
  ASSUME Typed, NEW t \in Threads, Depth(t) > 0,
         frames' = [frames EXCEPT ![t] = SubSeq(@, 1, Depth(t) - 1)]
  PROVE  LET a0 == <<t, Depth(t)>> IN
         /\ frames' \in [Threads -> Seq(FrameSet)]
         /\ Depth(t)' = Depth(t) - 1 /\ \A s \in Threads \ {t} : Depth(s)' = Depth(s)
         /\ DOMAIN Acts' = DOMAIN Acts \ {a0}
         /\ \A a \in DOMAIN Acts' : Acts'[a] = Acts[a]
<1> DEFINE d == Depth(t)
           c == SubSeq(frames[t], 1, d - 1)
<1>1. frames \in [Threads -> Seq(FrameSet)] /\ frames[t] \in Seq(FrameSet)
  BY DEF Typed
<1>2. d = Len(frames[t]) /\ d \in 1..Len(frames[t])
  BY <1>1 DEF Depth
<1>3. c \in Seq(FrameSet) /\ Len(c) = d - 1 /\ \A i \in 1..(d - 1) : c[i] = frames[t][i]
  BY <1>1, <1>2
<1>4. frames' = [frames EXCEPT ![t] = c]
  OBVIOUS
<1> HIDE DEF c
<1>5. frames'[t] = c /\ \A s \in Threads \ {t} : frames'[s] = frames[s]
  BY <1>1, <1>4
<1>6. frames' \in [Threads -> Seq(FrameSet)]
  BY <1>1, <1>3, <1>4
<1>7. Depth(t)' = d - 1 /\ \A s \in Threads \ {t} : Depth(s)' = Depth(s)
  BY <1>3, <1>5 DEF Depth
<1>8. \A a \in Activations : a[1] \in Threads /\ a[2] \in 1..Depth(a[1]) /\ a = <<a[1], a[2]>>
  BY ActsFacts
<1>9. Activations' = Activations \ {<<t, d>>}
  <2>1. ASSUME NEW a \in Activations' PROVE a \in Activations \ {<<t, d>>}
    <3>0. PICK s \in Threads : \E i \in 1..Depth(s)' : a = <<s, i>>
      BY <2>1 DEF Activations
    <3>1. PICK i \in 1..Depth(s)' : a = <<s, i>>
      BY <3>0
    <3>2. i \in 1..Depth(s) /\ (s = t => i # d)
      BY <1>2, <1>7, <3>1
    <3> QED
      BY <3>1, <3>2 DEF Activations
  <2>2. ASSUME NEW a \in Activations \ {<<t, d>>} PROVE a \in Activations'
    <3>1. a[2] \in 1..Depth(a[1])'
      BY <1>2, <1>7, <1>8, <2>2
    <3> QED
      BY <1>8, <3>1 DEF Activations
  <2> QED
    BY <2>1, <2>2
<1>10. Acts' = [a \in Activations \ {<<t, d>>} |-> frames'[a[1]][a[2]]]
  BY <1>9 DEF Acts
<1> QED
  <2>1. DOMAIN Acts = Activations /\ \A a \in Activations : Acts[a] = frames[a[1]][a[2]]
    BY DEF Acts
  <2>2. \A a \in Activations \ {<<t, d>>} : frames'[a[1]][a[2]] = frames[a[1]][a[2]]
    <3> SUFFICES ASSUME NEW a \in Activations, a # <<t, d>>
                 PROVE  frames'[a[1]][a[2]] = frames[a[1]][a[2]]
      OBVIOUS
    <3>1. CASE a[1] = t
      <4>1. a[2] \in 1..(d - 1)
        BY <1>2, <1>8, <3>1
      <4> QED
        BY <1>3, <1>5, <3>1, <4>1
    <3>2. CASE a[1] # t
      BY <1>5, <1>8, <3>2
    <3> QED
      BY <3>1, <3>2
  <2> QED
    BY <1>6, <1>7, <1>10, <2>1, <2>2

\* A frame that keeps GraphTask g alive.
LEMMA ValidFacts ==
  ASSUME NEW g
  PROVE  /\ Valid(g) <=> \E a \in DOMAIN Acts : Holds(Acts[a], g)
         /\ Valid(g)' <=> \E a \in DOMAIN Acts' : Holds(Acts'[a], g)
         /\ Running(g) = {a \in DOMAIN Acts : Acts[a].g = g /\ Acts[a].pc \in Unfinished}
         /\ Running(g)' = {a \in DOMAIN Acts' : Acts'[a].g = g /\ Acts'[a].pc \in Unfinished}
<1>1. /\ \A t \in Threads : \A i \in 1..Depth(t) : <<t, i>> \in Activations
      /\ \A a \in Activations : \E t \in Threads : \E i \in 1..Depth(t) : a = <<t, i>>
  BY DEF Activations
<1>2. /\ \A t \in Threads : \A i \in 1..Depth(t)' : <<t, i>> \in Activations'
      /\ \A a \in Activations' : \E t \in Threads : \E i \in 1..Depth(t)' : a = <<t, i>>
  BY DEF Activations
<1>3. DOMAIN Acts = Activations /\ \A a \in Activations : Acts[a] = frames[a[1]][a[2]]
  BY DEF Acts
<1>4. DOMAIN Acts' = Activations' /\ \A a \in Activations' : Acts'[a] = frames'[a[1]][a[2]]
  BY DEF Acts
<1>5. Valid(g) <=> \E t \in Threads : \E i \in 1..Depth(t) : Holds(frames[t][i], g)
  BY DEF Valid, Holds
<1>6. Valid(g)' <=> \E t \in Threads : \E i \in 1..Depth(t)' : Holds(frames'[t][i], g)
  BY DEF Valid, Holds
<1>7. Valid(g) <=> \E a \in DOMAIN Acts : Holds(Acts[a], g)
  <2>1. ASSUME NEW t \in Threads, NEW i \in 1..Depth(t), Holds(frames[t][i], g)
        PROVE  \E a \in DOMAIN Acts : Holds(Acts[a], g)
    <3>1. <<t, i>> \in DOMAIN Acts /\ Acts[<<t, i>>] = frames[t][i]
      BY <1>1, <1>3
    <3> QED
      BY <2>1, <3>1
  <2>2. ASSUME NEW a \in DOMAIN Acts, Holds(Acts[a], g)
        PROVE  \E t \in Threads : \E i \in 1..Depth(t) : Holds(frames[t][i], g)
    <3>1. PICK t \in Threads : \E i \in 1..Depth(t) : a = <<t, i>>
      BY <1>1, <1>3
    <3>2. PICK i \in 1..Depth(t) : a = <<t, i>>
      BY <3>1
    <3>3. Acts[a] = frames[t][i]
      BY <1>3, <3>2
    <3> QED
      BY <2>2, <3>3
  <2> QED
    BY <1>5, <2>1, <2>2
<1>8. Valid(g)' <=> \E a \in DOMAIN Acts' : Holds(Acts'[a], g)
  <2>1. ASSUME NEW t \in Threads, NEW i \in 1..Depth(t)', Holds(frames'[t][i], g)
        PROVE  \E a \in DOMAIN Acts' : Holds(Acts'[a], g)
    <3>1. <<t, i>> \in DOMAIN Acts' /\ Acts'[<<t, i>>] = frames'[t][i]
      BY <1>2, <1>4
    <3> QED
      BY <2>1, <3>1
  <2>2. ASSUME NEW a \in DOMAIN Acts', Holds(Acts'[a], g)
        PROVE  \E t \in Threads : \E i \in 1..Depth(t)' : Holds(frames'[t][i], g)
    <3>1. PICK t \in Threads : \E i \in 1..Depth(t)' : a = <<t, i>>
      BY <1>2, <1>4
    <3>2. PICK i \in 1..Depth(t)' : a = <<t, i>>
      BY <3>1
    <3>3. Acts'[a] = frames'[t][i]
      BY <1>4, <3>2
    <3> QED
      BY <2>2, <3>3
  <2> QED
    BY <1>6, <2>1, <2>2
<1>9. Running(g) = {a \in DOMAIN Acts : Acts[a].g = g /\ Acts[a].pc \in Unfinished}
  BY <1>3 DEF Running
<1>10. Running(g)' = {a \in DOMAIN Acts' : Acts'[a].g = g /\ Acts'[a].pc \in Unfinished}
  BY <1>4 DEF Running
<1> QED
  BY <1>7, <1>8, <1>9, <1>10

-----------------------------------------------------------------------------
(* The queues as a set of entries.                                         *)

\* An entry is a queue and a NodeTask in it.
LEMMA EntriesFacts ==
  ASSUME Typed
  PROVE  /\ \A q \in Queues : \A i \in queue[q] : <<q, i>> \in Entries /\ i \in ItemSet
         /\ \A e \in Entries :
              e[1] \in Queues /\ e[2] \in queue[e[1]] /\ e = <<e[1], e[2]>> /\ e[2] \in ItemSet
<1>1. queue \in [Queues -> SUBSET ItemSet]
  BY DEF Typed
<1>2. \A e \in Entries : \E q \in Queues : \E i \in queue[q] : e = <<q, i>>
  BY DEF Entries
<1>3. \A q \in Queues : \A i \in queue[q] : <<q, i>> \in Entries
  BY DEF Entries
<1> QED
  BY <1>1, <1>2, <1>3

\* A step that leaves the queues alone.
LEMMA QueueSame ==
  ASSUME queue' = queue
  PROVE  Entries' = Entries
BY DEF Entries

\* ReadyQueue::push.
LEMMA PushEffect ==
  ASSUME Typed, NEW g \in Tasks, NEW P \in SUBSET ItemSet, Push(g, P),
         \A i \in P : QueueFor(g, i) \in Queues
  PROVE  /\ queue' \in [Queues -> SUBSET ItemSet]
         /\ Entries' = Entries \cup NewEntries(g, P)
         /\ \A e \in NewEntries(g, P) : e[2] \in P
         /\ \A i \in P : <<QueueFor(g, i), i>> \in NewEntries(g, P)
         /\ IsFiniteSet(P) =>
              IsFiniteSet(NewEntries(g, P)) /\ Cardinality(NewEntries(g, P)) = Cardinality(P)
<1>1. queue \in [Queues -> SUBSET ItemSet]
  BY DEF Typed
<1>2. queue' = [q \in Queues |-> queue[q] \cup {i \in P : QueueFor(g, i) = q}]
  BY DEF Push
<1>3. queue' \in [Queues -> SUBSET ItemSet]
  BY <1>1, <1>2
<1>4. /\ \A e \in Entries : \E q \in Queues : \E i \in queue[q] : e = <<q, i>>
      /\ \A e \in Entries' : \E q \in Queues : \E i \in queue'[q] : e = <<q, i>>
      /\ \A q \in Queues : \A i \in queue[q] : <<q, i>> \in Entries
      /\ \A q \in Queues : \A i \in queue'[q] : <<q, i>> \in Entries'
  BY DEF Entries
<1>5. /\ \A e \in NewEntries(g, P) : \E i \in P : e = <<QueueFor(g, i), i>>
      /\ \A i \in P : <<QueueFor(g, i), i>> \in NewEntries(g, P)
  BY DEF NewEntries
<1>6. \A q \in Queues : \A i : i \in queue'[q] <=> i \in queue[q] \/ (i \in P /\ QueueFor(g, i) = q)
  BY <1>2
<1>7. Entries' = Entries \cup NewEntries(g, P)
  <2>1. ASSUME NEW e \in Entries' PROVE e \in Entries \cup NewEntries(g, P)
    BY <1>4, <1>5, <1>6
  <2>2. ASSUME NEW e \in Entries PROVE e \in Entries'
    BY <1>4, <1>6
  <2>3. ASSUME NEW e \in NewEntries(g, P) PROVE e \in Entries'
    BY <1>4, <1>5, <1>6
  <2> QED
    BY <2>1, <2>2, <2>3
<1>8. \A e \in NewEntries(g, P) : e[2] \in P
  BY <1>5
<1>9. ASSUME IsFiniteSet(P)
      PROVE  IsFiniteSet(NewEntries(g, P)) /\ Cardinality(NewEntries(g, P)) = Cardinality(P)
  <2> DEFINE h == [i \in P |-> <<QueueFor(g, i), i>>]
  <2>1. h \in Bijection(P, NewEntries(g, P))
    <3>1. h \in [P -> NewEntries(g, P)]
      BY <1>5
    <3>2. \A i, j \in P : h[i] = h[j] => i = j
      OBVIOUS
    <3>3. \A e \in NewEntries(g, P) : \E i \in P : h[i] = e
      BY <1>5
    <3> QED
      BY <3>1, <3>2, <3>3 DEF Bijection, Injection, Surjection, IsInjective
  <2>2. ExistsBijection(P, NewEntries(g, P))
    BY <2>1 DEF ExistsBijection
  <2> QED
    BY <1>9, <2>2, FS_Bijection
<1> QED
  BY <1>3, <1>5, <1>7, <1>8, <1>9

\* ReadyQueue::pop.
LEMMA PopEffect ==
  ASSUME Typed, NEW q \in Queues, NEW i \in queue[q],
         queue' = [queue EXCEPT ![q] = @ \ {i}]
  PROVE  /\ queue' \in [Queues -> SUBSET ItemSet]
         /\ <<q, i>> \in Entries /\ Entries' = Entries \ {<<q, i>>}
<1>1. queue \in [Queues -> SUBSET ItemSet]
  BY DEF Typed
<1>2. queue' \in [Queues -> SUBSET ItemSet]
  BY <1>1
<1>3. /\ \A e \in Entries : \E p \in Queues : \E j \in queue[p] : e = <<p, j>>
      /\ \A e \in Entries' : \E p \in Queues : \E j \in queue'[p] : e = <<p, j>>
      /\ \A p \in Queues : \A j \in queue[p] : <<p, j>> \in Entries
      /\ \A p \in Queues : \A j \in queue'[p] : <<p, j>> \in Entries'
  BY DEF Entries
<1>4. \A p \in Queues : \A j : j \in queue'[p] <=> j \in queue[p] /\ <<p, j>> # <<q, i>>
  BY <1>1
<1>5. ASSUME NEW e \in Entries' PROVE e \in Entries \ {<<q, i>>}
  BY <1>3, <1>4
<1>6. ASSUME NEW e \in Entries \ {<<q, i>>} PROVE e \in Entries'
  BY <1>3, <1>4
<1> QED
  BY <1>2, <1>3, <1>5, <1>6

-----------------------------------------------------------------------------
(* The graphs.                                                             *)

\* What EngineAssumption says of the graphs.
LEMMA GraphFacts ==
  /\ \A n \in Nodes : Preds(n) \subseteq Nodes /\ IsFiniteSet(Preds(n))
  /\ \A m, n \in Nodes : n \in Succs(m) <=> m \in Preds(n)
  /\ \A n \in Nodes : \A m \in Preds(n) :
       TaskOf[m] = TaskOf[n] /\ (n \in ShouldExecute => m \in Needed)
  /\ ShouldExecute \subseteq Nodes /\ Needed \subseteq ShouldExecute
  /\ \A n \in Nodes : TaskOf[n] \in Tasks
  /\ \A g \in Tasks : Root[g] \in Nodes /\ TaskOf[Root[g]] = g /\ Preds(Root[g]) = {}
  /\ \A n \in Nodes : Preds(n) = {} => n = Root[TaskOf[n]]
<1>1. \A n \in Nodes : Preds(n) \in SUBSET Nodes
  BY DEF Preds
<1>2. IsFiniteSet(Nodes)
  BY EngineAssumption
<1>3. \A n \in Nodes : IsFiniteSet(Preds(n))
  BY <1>1, <1>2, FS_Subset
<1>4. \A m, n \in Nodes : n \in Succs(m) <=> m \in Preds(n)
  BY DEF Preds, Succs
<1>5. \A n \in Nodes : \A m \in Preds(n) : <<m, n>> \in Edges
  BY DEF Preds
<1>6. \A n \in Nodes : \A m \in Preds(n) :
        TaskOf[m] = TaskOf[n] /\ (n \in ShouldExecute => m \in Needed)
  <2>1. \A e \in Edges :
          TaskOf[e[1]] = TaskOf[e[2]] /\ (e[2] \in ShouldExecute => e[1] \in Needed)
    BY EngineAssumption
  <2>2. \A m, n \in Nodes : <<m, n>>[1] = m /\ <<m, n>>[2] = n
    OBVIOUS
  <2> QED
    BY <1>1, <1>5, <2>1, <2>2
<1>7. ShouldExecute \subseteq Nodes /\ Needed \subseteq ShouldExecute
  BY EngineAssumption DEF ShouldExecute
<1>8. /\ \A n \in Nodes : TaskOf[n] \in Tasks
      /\ \A g \in Tasks : Root[g] \in Nodes /\ TaskOf[Root[g]] = g
  BY EngineAssumption
<1>9. \A n \in Nodes : Preds(n) = {} <=> n = Root[TaskOf[n]]
  BY EngineAssumption
<1> QED
  BY <1>1, <1>3, <1>4, <1>6, <1>7, <1>8, <1>9

-----------------------------------------------------------------------------
(* What a step must show for each part of the invariant.                   *)

\* A step that takes nothing back.
Grows ==
  /\ \A g \in Tasks : Started(g) => future'[g] # "none"
  /\ \A g \in Tasks : claimed[g] => claimed'[g]
  /\ \A g \in Tasks : hasError[g] => hasError'[g]
  /\ evaluated \subseteq evaluated'

\* A step that starts no GraphTask.
NoStart == \A g \in Tasks : future'[g] = "none" <=> future[g] = "none"

\* An activation that the step leaves alone.
Stays(a) ==
  /\ a \in DOMAIN Acts /\ Acts'[a] = Acts[a]
  /\ Acts[a].pc \in Token => Acts[a].fn \notin evaluated'
  /\ Acts[a].pc \in Claim => future'[Acts[a].g] = "pending"

\* An activation that stays, or that the step shows to be well formed.
LEMMA ShapeKeeps ==
  ASSUME Typed, Shape, Grows,
         \A a \in DOMAIN Acts' : Stays(a) \/ FrameOK(Acts[a])'
  PROVE  Shape'
<1> SUFFICES ASSUME NEW a \in DOMAIN Acts'
             PROVE  FrameOK(Acts[a])'
  BY DEF Shape
<1>1. CASE Stays(a)
  <2>1. FrameOK(Acts[a]) /\ Acts[a] \in FrameSet
    BY <1>1, ActsFacts DEF Shape, Stays
  <2>2. Acts[a].task \in Tasks \cup {None} /\ (Acts[a].fn \in Nodes \/ Acts[a].pc \notin Token)
    BY <2>1 DEF FrameSet, FrameOK, TokenOK
  <2> QED
    BY <1>1, <2>1, <2>2
    DEF Stays, Grows, FrameOK, TokenOK, Started, AllRun, Fed, Token, Claim
<1>2. CASE FrameOK(Acts[a])'
  BY <1>2
<1> QED
  BY <1>1, <1>2

\* A queued NodeTask whose Node is not evaluated by the step, or a new one.
LEMMA ItemsKeeps ==
  ASSUME Typed, Items, Grows,
         \A e \in Entries' : \/ e \in Entries /\ (e[2].fn \in Nodes => e[2].fn \notin evaluated')
                             \/ ItemOK(e[2])'
  PROVE  Items'
<1> SUFFICES ASSUME NEW e \in Entries'
             PROVE  ItemOK(e[2])'
  BY DEF Items
<1>1. CASE e \in Entries /\ (e[2].fn \in Nodes => e[2].fn \notin evaluated')
  <2>1. ItemOK(e[2]) /\ e[2] \in ItemSet
    BY <1>1, EntriesFacts DEF Items
  <2>2. e[2].g \in Tasks
    BY <2>1 DEF ItemSet
  <2> QED
    BY <1>1, <2>1, <2>2 DEF Grows, ItemOK, TokenOK, Started, Fed
<1>2. CASE ItemOK(e[2])'
  BY <1>2
<1> QED
  BY <1>1, <1>2

\* A step after which no Node has a NodeTask in a new place.
LEMMA UniqueKeeps ==
  ASSUME Unique,
         \A n \in Nodes : InFrame(n)' \subseteq InFrame(n) /\ InQueue(n)' \subseteq InQueue(n)
  PROVE  Unique'
BY DEF Unique

\* A step that starts no GraphTask and completes one only when it may.
LEMMA TasksKeep ==
  ASSUME Typed, TasksOK, NoStart, Grows,
         \A g \in Tasks : future[g] = "none" =>
           /\ outstanding'[g] = outstanding[g] /\ ~claimed'[g] /\ ~hasError'[g]
           /\ \A n \in evaluated' \ evaluated : TaskOf[n] # g,
         owner' = owner, cpuQueue' = cpuQueue,
         \A g \in Tasks : future'[g] # future[g] =>
           /\ claimed'[g] /\ (future'[g] = "value" => AllRun(g))
           /\ future'[g] = "error" => hasError'[g],
         \A g \in Tasks : hasError'[g] => hasError[g] \/ claimed'[g]
  PROVE  TasksOK'
<1> SUFFICES ASSUME NEW g \in Tasks
             PROVE  TaskOK(g)'
  BY DEF TasksOK
<1>1. TaskOK(g)
  BY DEF TasksOK
<1>2. AllRun(g) => AllRun(g)'
  BY DEF Grows, AllRun
<1> QED
  BY <1>1, <1>2 DEF TaskOK, NoStart, Grows, Started, Done

\* A step that starts no GraphTask and gives no caller back its NodeTask.
LEMMA CalledKeeps ==
  ASSUME Called, NoStart, Fed \subseteq Fed',
         \A g \in Tasks : Started(g) /\ Origin[g] \in Nodes => InQueue(Origin[g])' = {},
         \A a \in DOMAIN Acts' : Acts'[a].pc = "eval" =>
           a \in DOMAIN Acts /\ Acts[a].pc = "eval" /\ Acts[a].fn = Acts'[a].fn
  PROVE  Called'
<1>1. \A g \in Tasks : Origin[g] \in Nodes => TaskOf[Origin[g]] \in Tasks
  BY GraphFacts
<1> QED
  BY <1>1 DEF Called, NoStart, Started

\* A step that claims no future.
LEMMA ClaimsKeep ==
  ASSUME Claims,
         \A a \in DOMAIN Acts' : Acts'[a].pc \in Claim =>
           a \in DOMAIN Acts /\ Acts[a].pc \in Claim /\ Acts[a].g = Acts'[a].g
  PROVE  Claims'
BY DEF Claims

\* A step that pushes nothing and after which no other thread wakes an owner.
LEMMA WakeFreeKeeps ==
  ASSUME WakeFree, Entries' \subseteq Entries,
         \A a \in DOMAIN Acts' : Acts'[a].pc \in Wake =>
           a \in DOMAIN Acts /\ Acts[a].pc \in Wake /\ Acts[a].g = Acts'[a].g
  PROVE  WakeFree'
BY DEF WakeFree, Item

\* A step that evaluates nothing and drops no NodeTask of a live GraphTask.
LEMMA AliveKeeps ==
  ASSUME Alive, NoStart, Grows, evaluated' = evaluated,
         \A g \in Tasks : Valid(g)' => Valid(g),
         \A n \in ShouldExecute : ~hasError'[TaskOf[n]] /\ Valid(TaskOf[n])' =>
           /\ InFrame(n) # {} => InFrame(n)' # {} \/ InQueue(n)' # {}
           /\ InQueue(n) # {} => InFrame(n)' # {} \/ InQueue(n)' # {}
  PROVE  Alive'
<1>1. \A n \in ShouldExecute : TaskOf[n] \in Tasks
  BY GraphFacts
<1>2. Fed' = Fed
  BY DEF Fed
<1> QED
  BY <1>1, <1>2 DEF Alive, NoStart, Grows, Started

\* A step that neither queues nor runs other NodeTasks.
LEMMA CountedKeeps ==
  ASSUME Counted, IsFiniteSet(DOMAIN Acts'), Entries' = Entries, outstanding' = outstanding,
         \A g \in Tasks : Valid(g)' => Valid(g),
         \A g \in Tasks : Running(g)' = Running(g)
  PROVE  Counted'
BY DEF Counted, Queued

\* The stacks when the running activation changes.
LEMMA TopStacks ==
  ASSUME Typed, Stacks, NEW t \in Threads, Depth(t) > 0, NEW f \in FrameSet, SetTop(t, f),
         f.task = Top(t).task, pool' = pool, graphtasks' = graphtasks, Grows
  PROVE  Stacks'
<1>0. PICK a : a = <<t, Depth(t)>>
  OBVIOUS
<1>1. a \in DOMAIN Acts /\ Acts[a] = Top(t)
  BY <1>0, TopFacts
<1>2. Acts' = [Acts EXCEPT ![a] = f] /\ \A s \in Threads : Depth(s)' = Depth(s)
  BY <1>0, SetTopEffect
<1>3. /\ DOMAIN Acts' = DOMAIN Acts /\ Acts'[a] = f
      /\ \A b \in DOMAIN Acts : b # a => Acts'[b] = Acts[b]
  BY <1>1, <1>2
<1>4. \A b \in DOMAIN Acts : b[1] \in Threads /\ b[2] \in 1..Depth(b[1]) /\ b = <<b[1], b[2]>>
  BY ActsFacts
<1>5. \A b \in DOMAIN Acts' : b[2] < Depth(b[1])' => Acts'[b].pc = "calling"
  <2> SUFFICES ASSUME NEW b \in DOMAIN Acts, b[2] < Depth(b[1]) PROVE Acts'[b].pc = "calling"
    BY <1>2, <1>3, <1>4
  <2>1. b # a
    BY <1>0, <1>4
  <2> QED
    BY <1>3, <2>1 DEF Stacks
<1>6. \A p \in Pool : /\ pool'[p] # "busy" => Depth(p)' = 0
                      /\ Depth(p)' > 0 => Acts'[<<p, 1>>].task \in Tasks
  <2> SUFFICES ASSUME NEW p \in Pool
               PROVE  /\ pool'[p] # "busy" => Depth(p)' = 0
                      /\ Depth(p)' > 0 => Acts'[<<p, 1>>].task \in Tasks
    OBVIOUS
  <2>1. p \in Threads /\ Depth(p) \in Nat
    BY ActsFacts DEF Threads
  <2>2. Depth(p) > 0 => <<p, 1>> \in DOMAIN Acts
    BY <2>1, ActsFacts
  <2> QED
    BY <1>1, <1>2, <1>3, <2>1, <2>2 DEF Stacks
<1>7. \A j \in 1..Len(graphtasks') : future'[graphtasks'[j]] # "none"
  <2>1. \A j \in 1..Len(graphtasks) : graphtasks[j] \in Tasks
    BY DEF Typed
  <2> QED
    BY <2>1 DEF Stacks, Grows, Started
<1> QED
  BY <1>5, <1>6, <1>7 DEF Stacks, Started

\* What keeps a GraphTask alive when the running activation changes.
LEMMA TopValid ==
  ASSUME Typed, NEW t \in Threads, Depth(t) > 0, NEW f \in FrameSet, SetTop(t, f),
         f.task = Top(t).task, f.g \in {Top(t).g, None}, f.pc # "calling"
  PROVE  \A g \in Tasks : Valid(g)' => Valid(g)
<1>0. PICK a : a = <<t, Depth(t)>>
  OBVIOUS
<1>1. a \in DOMAIN Acts /\ Acts[a] = Top(t)
  BY <1>0, TopFacts
<1>2. Acts' = [Acts EXCEPT ![a] = f] /\ \A s \in Threads : Depth(s)' = Depth(s)
  BY <1>0, SetTopEffect
<1>3. /\ DOMAIN Acts' = DOMAIN Acts /\ Acts'[a] = f
      /\ \A b \in DOMAIN Acts : b # a => Acts'[b] = Acts[b]
  BY <1>1, <1>2
<1> SUFFICES ASSUME NEW g \in Tasks, NEW b \in DOMAIN Acts', Holds(Acts'[b], g)
             PROVE  Holds(Acts[b], g)
  BY <1>3, ValidFacts
<1>4. CASE b = a
  <2>1. g # None
    BY EngineAssumption
  <2> QED
    BY <1>1, <1>3, <1>4, <2>1 DEF Holds
<1>5. CASE b # a
  BY <1>3, <1>5
<1> QED
  BY <1>4, <1>5

\* The running activation changes, and neither the queues nor what is evaluated.
LEMMA TopStep ==
  ASSUME Inv, NEW t \in Threads, Depth(t) > 0, NEW f \in FrameSet, SetTop(t, f),
         NEW a, a = <<t, Depth(t)>>,
         UNCHANGED <<queue, pool, graphtasks, owner, cpuQueue, dependencies, notReady, evaluated>>,
         Grows, NoStart,
         f.task = Acts[a].task, f.g \in {Acts[a].g, None},
         f.pc \notin {"eval", "calling"},
         f.pc \in Token => Acts[a].pc \in Token /\ f.fn = Acts[a].fn,
         Acts[a].pc \in Token /\ f.pc \notin Token => hasError'[Acts[a].g],
         \A g \in Tasks : future'[g] # future[g] => g = Acts[a].g /\ Acts[a].pc \in Claim,
         FrameOK(f)',
         f.pc \in Claim => ~claimed[f.g],
         f.pc \in Wake => f.g = Acts[a].g /\ (Acts[a].pc \in Wake \/ Queued(f.g) = {})
  PROVE  /\ Shape' /\ Items' /\ Unique' /\ Graph' /\ Called' /\ Stacks' /\ Claims'
         /\ WakeFree' /\ Alive'
         /\ frames' \in [Threads -> Seq(FrameSet)] /\ IsFiniteSet(DOMAIN Acts') /\ Entries' = Entries
         /\ DOMAIN Acts' = DOMAIN Acts /\ Acts'[a] = f
         /\ \A b \in DOMAIN Acts : b # a => Acts'[b] = Acts[b]
         /\ \A g \in Tasks : Valid(g)' => Valid(g)
<1>i. /\ Typed /\ Shape /\ Items /\ Unique /\ Graph /\ Called /\ Stacks /\ Claims
      /\ Counted /\ WakeFree /\ Alive
  BY DEF Inv
<1>1. a \in DOMAIN Acts /\ Acts[a] = Top(t)
  BY <1>i, TopFacts
<1>2. /\ Acts' = [Acts EXCEPT ![a] = f] /\ \A s \in Threads : Depth(s)' = Depth(s)
      /\ frames' \in [Threads -> Seq(FrameSet)]
  BY <1>i, SetTopEffect
<1>3. /\ DOMAIN Acts' = DOMAIN Acts /\ Acts'[a] = f
      /\ \A b \in DOMAIN Acts : b # a => Acts'[b] = Acts[b]
  BY <1>1, <1>2
<1>4. Entries' = Entries
  BY QueueSame
<1>5. Fed' = Fed
  BY DEF Fed
<1>6. \A n \in Nodes : InQueue(n)' = InQueue(n)
  BY <1>4 DEF InQueue
<1>7. \A n \in Nodes : InFrame(n)' \subseteq InFrame(n)
  BY <1>1, <1>3 DEF InFrame
<1>8. Items'
  <2>1. \A e \in Entries : e[2].fn \in Nodes => e[2].fn \notin evaluated
    BY <1>i DEF Items, ItemOK, TokenOK
  <2> QED
    BY <1>i, <1>4, <2>1, ItemsKeeps
<1>9. Unique'
  BY <1>i, <1>6, <1>7, UniqueKeeps
<1>10. Graph'
  BY <1>i, <1>5 DEF Graph
<1>11. Called'
  <2>1. \A g \in Tasks : Started(g) /\ Origin[g] \in Nodes => InQueue(Origin[g])' = {}
    BY <1>i, <1>6 DEF Called
  <2>2. \A b \in DOMAIN Acts' : Acts'[b].pc = "eval" =>
          b \in DOMAIN Acts /\ Acts[b].pc = "eval" /\ Acts[b].fn = Acts'[b].fn
    BY <1>3
  <2> QED
    BY <1>i, <1>5, <2>1, <2>2, CalledKeeps
<1>12. Stacks'
  BY <1>i, <1>1, TopStacks
<1>13. \A g \in Tasks : Valid(g)' => Valid(g)
  BY <1>i, <1>1, TopValid
<1>14. Alive'
  <2>1. \A n \in ShouldExecute : ~hasError'[TaskOf[n]] => InFrame(n) \subseteq InFrame(n)'
    <3> SUFFICES ASSUME NEW n \in ShouldExecute, ~hasError'[TaskOf[n]], NEW b \in InFrame(n)
                 PROVE  b \in InFrame(n)'
      OBVIOUS
    <3>1. b \in DOMAIN Acts /\ Acts[b].pc \in Token /\ Acts[b].fn = n
      BY DEF InFrame
    <3>2. CASE b # a
      BY <1>3, <3>1, <3>2 DEF InFrame
    <3>3. CASE b = a
      <4>1. TaskOf[n] = Acts[a].g
        BY <1>i, <3>1, <3>3 DEF Shape, FrameOK, TokenOK
      <4>2. f.pc \in Token /\ f.fn = n
        BY <3>1, <3>3, <4>1
      <4> QED
        BY <1>3, <3>1, <3>3, <4>2 DEF InFrame
    <3> QED
      BY <3>2, <3>3
  <2>2. ShouldExecute \subseteq Nodes
    BY GraphFacts
  <2> QED
    BY <1>i, <1>6, <1>13, <2>1, <2>2, AliveKeeps
<1>15. IsFiniteSet(DOMAIN Acts')
  BY <1>i, <1>3 DEF Counted
<1>16. Shape'
  <2>1. \A b \in DOMAIN Acts' : b # a => Stays(b)
    <3> SUFFICES ASSUME NEW b \in DOMAIN Acts, b # a PROVE Stays(b)
      BY <1>3
    <3>1. FrameOK(Acts[b])
      BY <1>i DEF Shape
    <3>2. Acts[b].pc \in Token => Acts[b].fn \notin evaluated'
      BY <3>1 DEF FrameOK, TokenOK
    <3>3. Acts[b].pc \in Claim => future'[Acts[b].g] = "pending"
      <4> SUFFICES ASSUME Acts[b].pc \in Claim PROVE future'[Acts[b].g] = "pending"
        OBVIOUS
      <4>1. Acts[b].g \in Tasks /\ future[Acts[b].g] = "pending"
        BY <3>1 DEF FrameOK, Claim
      <4>2. ~(Acts[a].pc \in Claim /\ Acts[a].g = Acts[b].g)
        BY <1>i, <1>1 DEF Claims
      <4> QED
        BY <4>1, <4>2
    <3> QED
      BY <1>3, <3>2, <3>3 DEF Stays
  <2>2. FrameOK(Acts[a])'
    BY <1>3 DEF FrameOK, TokenOK, Started, AllRun, Fed
  <2> QED
    BY <1>i, <2>1, <2>2, ShapeKeeps
<1>17. Claims'
  <2>1. \A b \in DOMAIN Acts : Acts[b].pc \in Claim => claimed[Acts[b].g]
    BY <1>i DEF Shape, FrameOK
  <2> SUFFICES ASSUME NEW b \in DOMAIN Acts, NEW c \in DOMAIN Acts, b # c,
                      Acts'[b].pc \in Claim, Acts'[c].pc \in Claim, Acts'[b].g = Acts'[c].g
               PROVE  FALSE
    BY <1>3 DEF Claims
  <2>2. CASE b # a /\ c # a
    BY <1>i, <1>3, <2>2 DEF Claims
  <2>3. CASE b = a
    BY <1>3, <2>1, <2>3
  <2>4. CASE c = a
    BY <1>3, <2>1, <2>4
  <2> QED
    BY <2>2, <2>3, <2>4
<1>18. WakeFree'
  <2> SUFFICES ASSUME NEW b \in DOMAIN Acts, NEW e \in Entries, Acts'[b].pc \in Wake
               PROVE  e[2] # Item(Acts'[b].g, b[1], {})
    BY <1>3, <1>4 DEF WakeFree, Item
  <2>1. CASE Acts[b].pc \in Wake /\ Acts'[b].g = Acts[b].g
    BY <1>i, <2>1 DEF WakeFree
  <2>2. CASE b = a /\ Queued(f.g) = {}
    BY <1>3, <2>2 DEF Queued, Item
  <2> QED
    BY <1>3, <2>1, <2>2
<1> QED
  BY <1>2, <1>3, <1>4, <1>8, <1>9, <1>10, <1>11, <1>12, <1>13, <1>14, <1>15, <1>16, <1>17,
     <1>18

\* A step on one activation that is counted before and after, or neither.
LEMMA SameRunning ==
  ASSUME NEW a \in DOMAIN Acts, DOMAIN Acts' = DOMAIN Acts,
         \A b \in DOMAIN Acts : b # a => Acts'[b] = Acts[b],
         Acts'[a].pc \in Unfinished <=> Acts[a].pc \in Unfinished,
         Acts'[a].pc \in Unfinished => Acts'[a].g = Acts[a].g
  PROVE  \A g \in Tasks : Running(g)' = Running(g)
<1> SUFFICES ASSUME NEW g \in Tasks
             PROVE  \A b \in DOMAIN Acts :
                      Acts'[b].g = g /\ Acts'[b].pc \in Unfinished
                        <=> Acts[b].g = g /\ Acts[b].pc \in Unfinished
  BY ValidFacts
<1> QED
  OBVIOUS

-----------------------------------------------------------------------------
(* Steps that change the running activation only.                          *)

\* What TopStep shows.
Rest ==
  /\ Shape' /\ Items' /\ Unique' /\ Graph' /\ Called' /\ Stacks' /\ Claims'
  /\ WakeFree' /\ Alive'
  /\ frames' \in [Threads -> Seq(FrameSet)] /\ IsFiniteSet(DOMAIN Acts') /\ Entries' = Entries
  /\ \A g \in Tasks : Valid(g)' => Valid(g)

\* An activation that moves to pc.
LEMMA GotoFields ==
  ASSUME NEW x \in FrameSet, NEW pc \in PCs
  PROVE  LET f == [x EXCEPT !.pc = pc] IN
         /\ f \in FrameSet /\ f.pc = pc /\ f.task = x.task
         /\ f.g = x.g /\ f.fn = x.fn /\ f.inputs = x.inputs
BY DEF FrameSet

\* An activation at the start of the loop.
LEMMA NewFields ==
  ASSUME NEW k \in Tasks \cup {None}
  PROVE  /\ Frame(k) \in FrameSet /\ Frame(k).pc = "loop" /\ Frame(k).task = k
         /\ Frame(k).g = None
BY DEF Frame, FrameSet, PCs

\* The running activation.
LEMMA AtFacts ==
  ASSUME Inv, NEW t \in Threads, NEW pc, At(t, pc)
  PROVE  /\ Depth(t) > 0 /\ <<t, Depth(t)>> \in DOMAIN Acts
         /\ Acts[<<t, Depth(t)>>] = Top(t) /\ Top(t) \in FrameSet /\ Top(t).pc = pc
         /\ FrameOK(Top(t)) /\ Top(t).task \in Tasks \cup {None}
<1>1. Typed /\ Shape /\ Depth(t) > 0 /\ Top(t).pc = pc
  BY DEF Inv, At
<1>2. /\ <<t, Depth(t)>> \in DOMAIN Acts /\ Acts[<<t, Depth(t)>>] = Top(t)
      /\ Top(t) \in FrameSet
  BY <1>1, TopFacts
<1>3. FrameOK(Acts[<<t, Depth(t)>>])
  BY <1>1, <1>2 DEF Shape
<1>4. Top(t).task \in Tasks \cup {None}
  BY <1>2 DEF FrameSet
<1> QED
  BY <1>1, <1>2, <1>3, <1>4

\* Places between which an activation moves by itself.
Moves(pc0, pc) ==
  /\ pc \in PCs /\ pc \notin {"eval", "calling", "loop"}
  /\ pc0 # "pop" /\ (pc = "pop" <=> pc0 = "loop")
  /\ pc = "outputs" => pc0 = "calling"
  /\ pc \in Token => pc0 \in Token

\* The running activation goes from pc0 to pc.
LEMMA GotoStep ==
  ASSUME Inv, NEW t \in Threads, NEW pc0, At(t, pc0), NEW pc, Goto(t, pc), Moves(pc0, pc),
         UNCHANGED <<queue, pool, graphtasks, owner, cpuQueue, dependencies, notReady, evaluated>>,
         Grows, NoStart,
         pc0 \in Token /\ pc \notin Token => hasError'[Top(t).g],
         \A g \in Tasks : future'[g] # future[g] => g = Top(t).g /\ pc0 \in Claim,
         pc \in Claim => /\ ~claimed[Top(t).g] /\ claimed'[Top(t).g]
                         /\ future'[Top(t).g] = "pending",
         pc = "setError" => hasError'[Top(t).g],
         pc = "post" => AllRun(Top(t).g),
         pc \in Wake => pc0 \in Wake \/ Queued(Top(t).g) = {}
  PROVE  /\ Rest
         /\ (pc \in Unfinished <=> pc0 \in Unfinished) =>
              \A g \in Tasks : Running(g)' = Running(g)
         /\ pc0 \in Unfinished /\ pc \notin Unfinished =>
              /\ <<t, Depth(t)>> \in Running(Top(t).g)
              /\ \A g \in Tasks : Running(g)' = Running(g) \ {<<t, Depth(t)>>}
              /\ \A g \in Tasks : g # Top(t).g => Running(g)' = Running(g)
<1>1. /\ Depth(t) > 0 /\ <<t, Depth(t)>> \in DOMAIN Acts
      /\ Acts[<<t, Depth(t)>>] = Top(t) /\ Top(t) \in FrameSet /\ Top(t).pc = pc0
      /\ FrameOK(Top(t))
  BY AtFacts
<1>m. /\ pc \in PCs /\ pc \notin {"eval", "calling", "loop"}
      /\ pc0 # "pop" /\ (pc = "pop" <=> pc0 = "loop")
      /\ pc = "outputs" => pc0 = "calling"
      /\ pc \in Token => pc0 \in Token
  BY DEF Moves
<1>2. PICK a : a = <<t, Depth(t)>>
  OBVIOUS
<1>3. PICK x : x = Top(t)
  OBVIOUS
<1>4. PICK f : f = [x EXCEPT !.pc = pc]
  OBVIOUS
<1>5. a \in DOMAIN Acts /\ Acts[a] = x /\ x \in FrameSet /\ x.pc = pc0 /\ FrameOK(x)
  BY <1>1, <1>2, <1>3
<1>6. /\ f \in FrameSet /\ f.pc = pc /\ f.task = x.task
      /\ f.g = x.g /\ f.fn = x.fn /\ f.inputs = x.inputs
  BY <1>4, <1>5, <1>m, GotoFields
<1>7. SetTop(t, f)
  BY <1>3, <1>4 DEF Goto
<1>8. FrameOK(f)'
  <2>1. /\ x.task \in Tasks \cup {None}
        /\ x.pc \notin {"loop", "pop"} => x.g \in Tasks
    BY <1>5 DEF FrameOK, FrameSet
  <2>2. /\ f.task # None => future'[f.task] # "none"
        /\ f.pc \in {"loop", "pop"} => f.g = None
        /\ f.pc \notin {"loop", "pop"} => f.g \in Tasks /\ future'[f.g] # "none"
    BY <1>5, <1>6, <1>m, <2>1 DEF FrameOK, Grows, Started
  <2>3. f.pc \in Token => TokenOK(f)'
    BY <1>5, <1>6, <1>m DEF FrameOK, TokenOK, Fed
  <2>4. f.pc \in {"calling", "outputs"} => f.fn \in Needed
    BY <1>5, <1>6, <1>m DEF FrameOK
  <2>5. /\ f.pc \in Claim => claimed'[f.g] /\ future'[f.g] = "pending"
        /\ f.pc = "setError" => hasError'[f.g]
    BY <1>3, <1>6
  <2>6. f.pc = "post" => AllRun(f.g)'
    BY <1>3, <1>6 DEF AllRun
  <2> QED
    BY <2>2, <2>3, <2>4, <2>5, <2>6 DEF FrameOK, Started
<1>9. /\ Rest
      /\ DOMAIN Acts' = DOMAIN Acts /\ Acts'[a] = f
      /\ \A b \in DOMAIN Acts : b # a => Acts'[b] = Acts[b]
  BY <1>1, <1>2, <1>3, <1>5, <1>6, <1>7, <1>8, <1>m, TopStep DEF Rest
<1>10. (pc \in Unfinished <=> pc0 \in Unfinished) => \A g \in Tasks : Running(g)' = Running(g)
  BY <1>5, <1>6, <1>9, SameRunning
<1>11. ASSUME pc0 \in Unfinished, pc \notin Unfinished
       PROVE  /\ a \in Running(x.g)
              /\ \A g \in Tasks : Running(g)' = Running(g) \ {a}
              /\ \A g \in Tasks : g # x.g => Running(g)' = Running(g)
  <2>1. a \in Running(x.g)
    BY <1>5, <1>11, ValidFacts
  <2>2. ASSUME NEW g \in Tasks
        PROVE  /\ Running(g)' = Running(g) \ {a}
               /\ g # x.g => Running(g)' = Running(g)
    <3>1. /\ Running(g) = {b \in DOMAIN Acts : Acts[b].g = g /\ Acts[b].pc \in Unfinished}
          /\ Running(g)' = {b \in DOMAIN Acts' : Acts'[b].g = g /\ Acts'[b].pc \in Unfinished}
      BY ValidFacts
    <3> QED
      BY <1>5, <1>6, <1>9, <1>11, <3>1
  <2> QED
    BY <2>1, <2>2
<1> QED
  BY <1>2, <1>3, <1>9, <1>10, <1>11

\* The running activation starts its loop again.
LEMMA AgainStep ==
  ASSUME Inv, NEW t \in Threads, NEW pc0, At(t, pc0), SetTop(t, Frame(Top(t).task)),
         UNCHANGED <<queue, pool, graphtasks, owner, cpuQueue, dependencies, notReady, evaluated,
                     future>>,
         Grows, pc0 \notin Token \cup Unfinished
  PROVE  Rest /\ \A g \in Tasks : Running(g)' = Running(g)
<1>1. /\ Depth(t) > 0 /\ <<t, Depth(t)>> \in DOMAIN Acts
      /\ Acts[<<t, Depth(t)>>] = Top(t) /\ Top(t) \in FrameSet /\ Top(t).pc = pc0
      /\ FrameOK(Top(t)) /\ Top(t).task \in Tasks \cup {None}
  BY AtFacts
<1>2. PICK a : a = <<t, Depth(t)>>
  OBVIOUS
<1>3. PICK x : x = Top(t)
  OBVIOUS
<1>4. PICK f : f = Frame(x.task)
  OBVIOUS
<1>5. /\ a \in DOMAIN Acts /\ Acts[a] = x /\ x \in FrameSet /\ x.pc = pc0 /\ FrameOK(x)
      /\ x.task \in Tasks \cup {None}
  BY <1>1, <1>2, <1>3
<1>6. f \in FrameSet /\ f.pc = "loop" /\ f.task = x.task /\ f.g = None
  BY <1>4, <1>5, NewFields
<1>7. SetTop(t, f)
  BY <1>3, <1>4
<1>8. FrameOK(f)'
  BY <1>5, <1>6 DEF FrameOK, Token, Claim, Started
<1>9. NoStart
  BY DEF NoStart
<1>10. f.pc \notin Token \cup Claim \cup Wake \cup Unfinished \cup {"eval", "calling"}
  BY <1>6 DEF Token, Claim, Wake, Unfinished
<1>11. /\ Rest
       /\ DOMAIN Acts' = DOMAIN Acts /\ Acts'[a] = f
       /\ \A b \in DOMAIN Acts : b # a => Acts'[b] = Acts[b]
  BY <1>1, <1>2, <1>3, <1>5, <1>6, <1>7, <1>8, <1>9, <1>10, TopStep DEF Rest
<1> QED
  BY <1>5, <1>10, <1>11, SameRunning

\* The reentrant call returns.
LEMMA ResumeKeeps ==
  ASSUME Inv, NEW t \in Threads, Resume(t)
  PROVE  Inv'
<1>i. Typed /\ Shape /\ TasksOK /\ Claims /\ Counted /\ Alive
  BY DEF Inv
<1>e. /\ At(t, "calling") /\ UNCHANGED <<queue, pool, graphtasks, outstanding, hasError, claimed,
           future, owner, cpuQueue, depth, dependencies, notReady, evaluated>>
  BY DEF Resume, taskVars
<1>p. PICK pc \in {"outputs", "throw"} : Goto(t, pc)
  BY DEF Resume
<1>m. /\ Moves("calling", pc) /\ pc \in Token /\ "calling" \notin Claim
      /\ pc \notin Claim \cup Wake \cup {"setError", "post"}
      /\ pc \in Unfinished /\ "calling" \in Unfinished
  BY <1>p DEF Moves, PCs, Token, Claim, Wake, Unfinished
<1>g. Grows /\ NoStart
  BY <1>e DEF Grows, NoStart, Started
<1>r. Rest /\ \A g \in Tasks : Running(g)' = Running(g)
  BY <1>e, <1>p, <1>m, <1>g, GotoStep
<1>t. TasksOK'
  BY <1>i, <1>e, <1>g, TasksKeep DEF TasksOK, TaskOK, Started
<1>c. Counted'
  BY <1>i, <1>e, <1>r, CountedKeeps DEF Rest
<1>y. Typed'
  BY <1>i, <1>e, <1>r DEF Typed, Rest, Done
<1> QED
  BY <1>r, <1>t, <1>c, <1>y DEF Inv, Rest

\* A function throws.
LEMMA FailKeeps ==
  ASSUME Inv, NEW t \in Threads, Fail(t)
  PROVE  Inv'
<1>i. Typed /\ Shape /\ TasksOK /\ Claims /\ Counted /\ Alive
  BY DEF Inv
<1>e. /\ At(t, "eval") /\ UNCHANGED <<queue, pool, graphtasks, outstanding, hasError, claimed,
           future, owner, cpuQueue, depth, dependencies, notReady, evaluated>>
  BY DEF Fail, taskVars
<1>p. Goto(t, "throw")
  BY DEF Fail
<1>m. /\ Moves("eval", "throw") /\ "throw" \in Token /\ "eval" \notin Claim
      /\ "throw" \notin Claim \cup Wake
      /\ "throw" \in Unfinished /\ "eval" \in Unfinished
  BY DEF Moves, PCs, Token, Claim, Wake, Unfinished
<1>g. Grows /\ NoStart
  BY <1>e DEF Grows, NoStart, Started
<1>r. Rest /\ \A g \in Tasks : Running(g)' = Running(g)
  BY <1>e, <1>p, <1>m, <1>g, GotoStep
<1>t. TasksOK'
  BY <1>i, <1>e, <1>g, TasksKeep DEF TasksOK, TaskOK, Started
<1>c. Counted'
  BY <1>i, <1>e, <1>r, CountedKeeps DEF Rest
<1>y. Typed'
  BY <1>i, <1>e, <1>r DEF Typed, Rest, Done
<1> QED
  BY <1>r, <1>t, <1>c, <1>y DEF Inv, Rest

\* A thread has waited for the future.
LEMMA WaitFutureKeeps ==
  ASSUME Inv, NEW t \in Threads, WaitFuture(t)
  PROVE  Inv'
<1>i. Typed /\ Shape /\ TasksOK /\ Claims /\ Counted /\ Alive
  BY DEF Inv
<1>e. /\ At(t, "waitFuture") /\ UNCHANGED <<queue, pool, graphtasks, outstanding, hasError, claimed,
           future, owner, cpuQueue, depth, dependencies, notReady, evaluated>>
  BY DEF WaitFuture, taskVars
<1>p. Goto(t, "wake")
  BY DEF WaitFuture
<1>m. /\ Moves("waitFuture", "wake") /\ "waitFuture" \notin Token \cup Claim
      /\ "wake" \notin Claim /\ "waitFuture" \in Wake
      /\ "wake" \notin Unfinished /\ "waitFuture" \notin Unfinished
  BY DEF Moves, PCs, Token, Claim, Wake, Unfinished
<1>g. Grows /\ NoStart
  BY <1>e DEF Grows, NoStart, Started
<1>r. Rest /\ \A g \in Tasks : Running(g)' = Running(g)
  BY <1>e, <1>p, <1>m, <1>g, GotoStep
<1>t. TasksOK'
  BY <1>i, <1>e, <1>g, TasksKeep DEF TasksOK, TaskOK, Started
<1>c. Counted'
  BY <1>i, <1>e, <1>r, CountedKeeps DEF Rest
<1>y. Typed'
  BY <1>i, <1>e, <1>r DEF Typed, Rest, Done
<1> QED
  BY <1>r, <1>t, <1>c, <1>y DEF Inv, Rest

\* set_exception() claims the future.
LEMMA SetExceptionKeeps ==
  ASSUME Inv, NEW t \in Threads, SetException(t)
  PROVE  Inv'
<1>i. Typed /\ Shape /\ TasksOK /\ Claims /\ Counted /\ Alive
  BY DEF Inv
<1>0. At(t, "throw") /\ Top(t).g \in Tasks /\ Started(Top(t).g)
  <2>1. At(t, "throw")
    BY DEF SetException
  <2>2. /\ <<t, Depth(t)>> \in DOMAIN Acts /\ Acts[<<t, Depth(t)>>] = Top(t)
        /\ FrameOK(Top(t)) /\ Top(t).pc = "throw"
    BY <2>1, AtFacts
  <2> QED
    BY <2>1, <2>2 DEF FrameOK
<1>1. PICK k \in Tasks : k = Top(t).g
  BY <1>0
<1>e. /\ UNCHANGED <<queue, pool, graphtasks, outstanding, future, owner, cpuQueue, depth,
                    dependencies, notReady, evaluated>>
      /\ hasError' = [hasError EXCEPT ![k] = TRUE]
      /\ claimed' = [claimed EXCEPT ![k] = TRUE]
  BY <1>1 DEF SetException
<1>2. /\ hasError'[k] /\ claimed'[k]
      /\ \A g \in Tasks : g # k => hasError'[g] = hasError[g] /\ claimed'[g] = claimed[g]
  BY <1>i, <1>e DEF Typed
<1>3. PICK pc \in {"dec", "setError"} : Goto(t, pc) /\ (pc = "setError" => ~claimed[k])
  BY <1>1 DEF SetException
<1>4. ~claimed[k] => future[k] = "pending"
  BY <1>i, <1>0, <1>1 DEF Typed, TasksOK, TaskOK, Started, Done
<1>g. Grows /\ NoStart
  BY <1>e, <1>2 DEF Grows, NoStart, Started
<1>r. Rest /\ \A g \in Tasks : Running(g)' = Running(g)
  <2>1. /\ Moves("throw", pc) /\ "throw" \notin Claim /\ pc \notin Wake \cup {"post"}
        /\ pc \in Claim => pc = "setError"
        /\ pc \in Unfinished /\ "throw" \in Unfinished
    BY <1>3 DEF Moves, PCs, Token, Claim, Wake, Unfinished
  <2> QED
    BY <1>0, <1>1, <1>e, <1>2, <1>3, <1>4, <1>g, <2>1, GotoStep
<1>t. TasksOK'
  BY <1>i, <1>0, <1>1, <1>e, <1>2, <1>g, TasksKeep DEF TasksOK, TaskOK, Started
<1>c. Counted'
  BY <1>i, <1>e, <1>r, CountedKeeps DEF Rest
<1>y. Typed'
  BY <1>i, <1>e, <1>r DEF Typed, Rest, Done
<1> QED
  BY <1>r, <1>t, <1>c, <1>y DEF Inv, Rest

\* The exception completes the future.
LEMMA SetErrorKeeps ==
  ASSUME Inv, NEW t \in Threads, SetError(t)
  PROVE  Inv'
<1>i. Typed /\ Shape /\ TasksOK /\ Claims /\ Counted /\ Alive
  BY DEF Inv
<1>0. /\ At(t, "setError") /\ Top(t).g \in Tasks /\ Started(Top(t).g) /\ hasError[Top(t).g]
      /\ claimed[Top(t).g]
  <2>1. At(t, "setError")
    BY DEF SetError
  <2>2. /\ <<t, Depth(t)>> \in DOMAIN Acts /\ Acts[<<t, Depth(t)>>] = Top(t)
        /\ FrameOK(Top(t)) /\ Top(t).pc = "setError"
    BY <2>1, AtFacts
  <2> QED
    BY <2>1, <2>2 DEF FrameOK, Claim
<1>1. PICK k \in Tasks : k = Top(t).g
  BY <1>0
<1>e. /\ UNCHANGED <<queue, pool, graphtasks, outstanding, hasError, claimed, owner, cpuQueue, depth,
                    dependencies, notReady, evaluated>>
      /\ future' = [future EXCEPT ![k] = "error"] /\ Goto(t, "dec")
  BY <1>1 DEF SetError
<1>2. future'[k] = "error" /\ \A g \in Tasks : g # k => future'[g] = future[g]
  BY <1>i, <1>e DEF Typed
<1>g. Grows /\ NoStart
  BY <1>0, <1>1, <1>e, <1>2 DEF Grows, NoStart, Started
<1>r. Rest /\ \A g \in Tasks : Running(g)' = Running(g)
  <2>1. /\ Moves("setError", "dec") /\ "setError" \in Claim \ Token
        /\ "dec" \notin Wake \cup Claim /\ "dec" \in Unfinished /\ "setError" \in Unfinished
    BY DEF Moves, PCs, Token, Claim, Wake, Unfinished
  <2> QED
    BY <1>0, <1>1, <1>e, <1>2, <1>g, <2>1, GotoStep
<1>t. TasksOK'
  BY <1>i, <1>0, <1>1, <1>e, <1>2, <1>g, TasksKeep DEF TasksOK, TaskOK, Started
<1>c. Counted'
  BY <1>i, <1>e, <1>r, CountedKeeps DEF Rest
<1>y. Typed'
  BY <1>i, <1>e, <1>r DEF Typed, Rest, Done
<1> QED
  BY <1>r, <1>t, <1>c, <1>y DEF Inv, Rest

\* The NodeTask is given back.
LEMMA DecrementKeeps ==
  ASSUME Inv, NEW t \in Threads, Decrement(t)
  PROVE  Inv'
<1>i. Typed /\ Shape /\ TasksOK /\ Claims /\ Counted /\ Alive
  BY DEF Inv
<1>0. /\ At(t, "dec") /\ Top(t).g \in Tasks /\ Started(Top(t).g)
      /\ <<t, Depth(t)>> \in DOMAIN Acts /\ Acts[<<t, Depth(t)>>] = Top(t)
  <2>1. At(t, "dec")
    BY DEF Decrement
  <2>2. /\ <<t, Depth(t)>> \in DOMAIN Acts /\ Acts[<<t, Depth(t)>>] = Top(t)
        /\ FrameOK(Top(t)) /\ Top(t).pc = "dec"
    BY <2>1, AtFacts
  <2> QED
    BY <2>1, <2>2 DEF FrameOK
<1>1. PICK k \in Tasks : k = Top(t).g
  BY <1>0
<1>2. PICK a : a = <<t, Depth(t)>>
  OBVIOUS
<1>e. /\ UNCHANGED <<queue, pool, graphtasks, hasError, claimed, future, owner, cpuQueue, depth,
                    dependencies, notReady, evaluated>>
      /\ outstanding' = [outstanding EXCEPT ![k] = @ - 1] /\ Goto(t, "check")
  BY <1>1 DEF Decrement
<1>3. outstanding'[k] = outstanding[k] - 1 /\ \A g \in Tasks : g # k => outstanding'[g] = outstanding[g]
  BY <1>i, <1>e DEF Typed
<1>4. Valid(k)
  <2>1. Holds(Acts[a], k)
    BY <1>0, <1>1, <1>2 DEF Holds
  <2> QED
    BY <1>0, <1>2, <2>1, ValidFacts
<1>g. Grows /\ NoStart
  BY <1>e DEF Grows, NoStart, Started
<1>r. /\ Rest /\ a \in Running(k)
      /\ Running(k)' = Running(k) \ {a}
      /\ \A g \in Tasks : g # k => Running(g)' = Running(g)
  <2>1. /\ Moves("dec", "check") /\ "dec" \notin Token \cup Claim
        /\ "check" \notin Wake \cup Claim /\ "dec" \in Unfinished /\ "check" \notin Unfinished
    BY DEF Moves, PCs, Token, Claim, Wake, Unfinished
  <2> QED
    BY <1>0, <1>1, <1>2, <1>e, <1>g, <2>1, GotoStep
<1>5. IsFiniteSet(Running(k)) /\ IsFiniteSet(Queued(k))
  <2>1. Running(k) \in SUBSET DOMAIN Acts /\ Queued(k) \in SUBSET Entries
    BY ValidFacts DEF Queued
  <2> QED
    BY <1>i, <2>1, FS_Subset DEF Counted
<1>6. /\ Cardinality(Running(k)) \in Nat /\ Cardinality(Queued(k)) \in Nat
      /\ Cardinality(Running(k)') = Cardinality(Running(k)) - 1
      /\ Cardinality(Running(k)') \in Nat
  BY <1>5, <1>r, FS_RemoveElement, FS_CardinalityType
<1>7. outstanding[k] = Cardinality(Queued(k)) + Cardinality(Running(k))
  BY <1>i, <1>4 DEF Counted
<1>8. Queued(k)' = Queued(k) /\ \A g \in Tasks : Queued(g)' = Queued(g)
  BY <1>r DEF Queued, Rest
<1>9. outstanding'[k] = Cardinality(Queued(k)) + Cardinality(Running(k)')
  BY <1>3, <1>6, <1>7
<1>t. TasksOK'
  BY <1>i, <1>0, <1>1, <1>e, <1>3, <1>g, TasksKeep DEF TasksOK, TaskOK, Started
<1>c. Counted'
  <2> SUFFICES ASSUME NEW g \in Tasks, Valid(g)'
               PROVE  outstanding'[g] = Cardinality(Queued(g)') + Cardinality(Running(g)')
    BY <1>i, <1>r DEF Counted, Rest
  <2>1. CASE g = k
    BY <1>8, <1>9, <2>1
  <2>2. CASE g # k
    BY <1>i, <1>3, <1>8, <1>r, <2>2 DEF Counted, Rest
  <2> QED
    BY <2>1, <2>2
<1>10. outstanding' \in [Tasks -> Nat]
  BY <1>i, <1>e, <1>6, <1>9, <1>3 DEF Typed
<1>y. Typed'
  BY <1>i, <1>e, <1>r, <1>10 DEF Typed, Rest, Done
<1> QED
  BY <1>r, <1>t, <1>c, <1>y DEF Inv, Rest

\* The future completes with what was captured.
LEMMA PostProcessKeeps ==
  ASSUME Inv, NEW t \in Threads, PostProcess(t)
  PROVE  Inv'
<1>i. Typed /\ Shape /\ TasksOK /\ Claims /\ Counted /\ Alive
  BY DEF Inv
<1>0. /\ At(t, "post") /\ Top(t).g \in Tasks /\ Started(Top(t).g) /\ AllRun(Top(t).g)
      /\ claimed[Top(t).g]
  <2>1. At(t, "post")
    BY DEF PostProcess
  <2>2. /\ <<t, Depth(t)>> \in DOMAIN Acts /\ Acts[<<t, Depth(t)>>] = Top(t)
        /\ FrameOK(Top(t)) /\ Top(t).pc = "post"
    BY <2>1, AtFacts
  <2> QED
    BY <2>1, <2>2 DEF FrameOK, Claim
<1>1. PICK k \in Tasks : k = Top(t).g
  BY <1>0
<1>2. \A n \in Nodes : TaskOf[n] = k => notReady[n] = {}
  <2> SUFFICES ASSUME NEW n \in Nodes, TaskOf[n] = k, n \in ShouldExecute, ~(Preds(n) \subseteq Fed)
               PROVE  FALSE
    BY DEF Inv, Graph
  <2>1. PICK m \in Preds(n) : m \notin Fed
    OBVIOUS
  <2>2. m \in Needed /\ m \in ShouldExecute /\ TaskOf[m] = k
    BY <2>1, GraphFacts
  <2>3. m \in evaluated
    BY <1>0, <1>1, <2>2 DEF AllRun
  <2> QED
    BY <2>1, <2>2, <2>3 DEF Fed
<1>e. /\ UNCHANGED <<queue, pool, graphtasks, outstanding, hasError, claimed, owner, cpuQueue, depth,
                    dependencies, notReady, evaluated>>
      /\ future' = [future EXCEPT ![k] = "value"] /\ Goto(t, "wake")
  BY <1>1, <1>2 DEF PostProcess
<1>3. future'[k] = "value" /\ \A g \in Tasks : g # k => future'[g] = future[g]
  BY <1>i, <1>e DEF Typed
<1>g. Grows /\ NoStart
  BY <1>0, <1>1, <1>e, <1>3 DEF Grows, NoStart, Started
<1>r. Rest /\ \A g \in Tasks : Running(g)' = Running(g)
  <2>1. /\ Moves("post", "wake") /\ "post" \in (Claim \cap Wake) \ Token
        /\ "wake" \notin Claim /\ "post" \notin Unfinished /\ "wake" \notin Unfinished
    BY DEF Moves, PCs, Token, Claim, Wake, Unfinished
  <2> QED
    BY <1>0, <1>1, <1>e, <1>3, <1>g, <2>1, GotoStep
<1>t. TasksOK'
  BY <1>i, <1>0, <1>1, <1>e, <1>3, <1>g, TasksKeep DEF TasksOK, TaskOK, Started
<1>c. Counted'
  BY <1>i, <1>e, <1>r, CountedKeeps DEF Rest
<1>y. Typed'
  BY <1>i, <1>e, <1>r DEF Typed, Rest, Done
<1> QED
  BY <1>r, <1>t, <1>c, <1>y DEF Inv, Rest

\* When nothing of a GraphTask is queued or running and nothing of it failed, all
\* of it was evaluated.
LEMMA NothingLeft ==
  ASSUME Inv, NEW k \in Tasks, Valid(k), Started(k), outstanding[k] = 0
  PROVE  Queued(k) = {} /\ (~hasError[k] => AllRun(k))
<1>i. Typed /\ Shape /\ Items /\ TasksOK /\ Counted /\ Alive
  BY DEF Inv
<1>1. IsFiniteSet(Running(k)) /\ IsFiniteSet(Queued(k))
  <2>1. Running(k) \in SUBSET DOMAIN Acts /\ Queued(k) \in SUBSET Entries
    BY ValidFacts DEF Queued
  <2> QED
    BY <1>i, <2>1, FS_Subset DEF Counted
<1>2. Cardinality(Running(k)) \in Nat /\ Cardinality(Queued(k)) \in Nat
  BY <1>1, FS_CardinalityType
<1>3. Cardinality(Running(k)) = 0 /\ Cardinality(Queued(k)) = 0
  BY <1>i, <1>2 DEF Counted
<1>4. Running(k) = {} /\ Queued(k) = {}
  BY <1>1, <1>3, FS_EmptySet
<1>5. ASSUME ~hasError[k] PROVE AllRun(k)
  <2> DEFINE S == {n \in ShouldExecute : TaskOf[n] = k /\ n \notin evaluated}
  <2> SUFFICES ASSUME S # {} PROVE FALSE
    BY DEF AllRun
  <2>1. S \in SUBSET Nodes
    BY GraphFacts
  <2>2. PICK n \in S : Preds(n) \cap S = {}
    BY <2>1, EngineAssumption
  <2>3. n \in ShouldExecute /\ n \in Nodes /\ TaskOf[n] = k /\ n \notin evaluated
    BY <2>1
  <2>4. \A m \in Preds(n) : m \in Fed
    <3> SUFFICES ASSUME NEW m \in Preds(n) PROVE m \in Fed
      OBVIOUS
    <3>1. m \in Needed /\ m \in ShouldExecute /\ TaskOf[m] = k
      BY <2>3, GraphFacts
    <3>2. m \in evaluated
      BY <2>2, <3>1
    <3> QED
      BY <3>1, <3>2 DEF Fed
  <2>5. InFrame(n) # {} \/ InQueue(n) # {}
    BY <1>i, <1>5, <2>3, <2>4 DEF Alive
  <2>6. ASSUME NEW a \in InFrame(n) PROVE FALSE
    <3>1. a \in DOMAIN Acts /\ Acts[a].pc \in Token /\ Acts[a].fn = n
      BY DEF InFrame
    <3>2. Acts[a].g = k
      BY <1>i, <2>3, <3>1 DEF Shape, FrameOK, TokenOK
    <3>3. a \in Running(k)
      BY <3>1, <3>2, ValidFacts DEF Token, Unfinished
    <3> QED
      BY <1>4, <3>3
  <2>7. ASSUME NEW e \in InQueue(n) PROVE FALSE
    <3>1. e \in Entries /\ e[2].fn = n
      BY DEF InQueue
    <3>2. e[2].g = k
      BY <1>i, <2>3, <3>1 DEF Items, ItemOK, TokenOK
    <3> QED
      BY <1>4, <3>1, <3>2 DEF Queued
  <2> QED
    BY <2>5, <2>6, <2>7
<1> QED
  BY <1>4, <1>5

\* A thread finds its GraphTask completed, or not.
LEMMA CompletedKeeps ==
  ASSUME Inv, NEW t \in Threads, Completed(t)
  PROVE  Inv'
<1>i. Typed /\ Shape /\ TasksOK /\ Claims /\ Counted /\ Alive
  BY DEF Inv
<1>0. /\ At(t, "check") /\ Top(t).g \in Tasks /\ Started(Top(t).g)
      /\ <<t, Depth(t)>> \in DOMAIN Acts /\ Acts[<<t, Depth(t)>>] = Top(t)
  <2>1. At(t, "check")
    BY DEF Completed
  <2>2. /\ <<t, Depth(t)>> \in DOMAIN Acts /\ Acts[<<t, Depth(t)>>] = Top(t)
        /\ FrameOK(Top(t)) /\ Top(t).pc = "check"
    BY <2>1, AtFacts
  <2> QED
    BY <2>1, <2>2 DEF FrameOK
<1>1. PICK k \in Tasks : k = Top(t).g
  BY <1>0
<1>2. Valid(k)
  <2>1. Holds(Acts[<<t, Depth(t)>>], k)
    BY <1>0, <1>1 DEF Holds
  <2> QED
    BY <1>0, <2>1, ValidFacts
<1>e. UNCHANGED <<queue, pool, graphtasks, outstanding, hasError, future, owner, cpuQueue, depth,
                  dependencies, notReady, evaluated>>
  BY DEF Completed
<1>3. CASE ~IsCompleted(k)
  <2>1. SetTop(t, Frame(Top(t).task)) /\ claimed' = claimed
    BY <1>1, <1>3 DEF Completed
  <2>g. Grows /\ NoStart
    BY <1>e, <2>1 DEF Grows, NoStart, Started
  <2>2. "check" \notin Token \cup Unfinished
    BY DEF Token, Unfinished
  <2>r. Rest /\ \A g \in Tasks : Running(g)' = Running(g)
    BY <1>0, <1>e, <2>1, <2>2, <2>g, AgainStep
  <2>t. TasksOK'
    BY <1>i, <1>e, <2>1, <2>g, TasksKeep DEF TasksOK, TaskOK, Started
  <2>c. Counted'
    BY <1>i, <1>e, <2>r, CountedKeeps DEF Rest
  <2>y. Typed'
    BY <1>i, <1>e, <2>1, <2>r DEF Typed, Rest
  <2> QED
    BY <2>r, <2>t, <2>c, <2>y DEF Inv, Rest
<1>4. CASE IsCompleted(k)
  <2>1. claimed' = [claimed EXCEPT ![k] = TRUE]
    BY <1>1, <1>4 DEF Completed
  <2>2. claimed'[k] /\ \A g \in Tasks : g # k => claimed'[g] = claimed[g]
    BY <1>i, <2>1 DEF Typed
  <2>3. PICK pc \in {"waitFuture", "post"} : Goto(t, pc) /\ (pc = "post" => ~claimed[k])
    BY <1>1, <1>4 DEF Completed
  <2>4. Queued(k) = {} /\ (~hasError[k] => AllRun(k))
    BY <1>0, <1>1, <1>2, <1>4, NothingLeft DEF IsCompleted
  <2>5. ~claimed[k] => ~hasError[k] /\ future[k] = "pending"
    BY <1>i, <1>0, <1>1 DEF Typed, TasksOK, TaskOK, Started, Done
  <2>g. Grows /\ NoStart
    BY <1>e, <2>2 DEF Grows, NoStart, Started
  <2>r. Rest /\ \A g \in Tasks : Running(g)' = Running(g)
    <3>1. /\ Moves("check", pc) /\ "check" \notin Claim \cup Token /\ pc \in Wake /\ pc # "setError"
          /\ pc \in Claim => pc = "post"
          /\ pc \notin Unfinished /\ "check" \notin Unfinished
      BY <2>3 DEF Moves, PCs, Token, Claim, Wake, Unfinished
    <3>2. pc = "post" => ~claimed[k] /\ claimed'[k] /\ future'[k] = "pending" /\ AllRun(k)
      BY <1>e, <2>2, <2>3, <2>4, <2>5
    <3> QED
      BY <1>0, <1>1, <1>e, <2>3, <2>4, <2>g, <3>1, <3>2, GotoStep
  <2>t. TasksOK'
    BY <1>i, <1>0, <1>1, <1>e, <2>2, <2>g, TasksKeep DEF TasksOK, TaskOK, Started
  <2>c. Counted'
    BY <1>i, <1>e, <2>r, CountedKeeps DEF Rest
  <2>y. Typed'
    BY <1>i, <1>e, <2>1, <2>r DEF Typed, Rest
  <2> QED
    BY <2>r, <2>t, <2>c, <2>y DEF Inv, Rest
<1> QED
  BY <1>3, <1>4

-----------------------------------------------------------------------------
(* Evaluation.                                                             *)

\* The NodeTasks that the evaluation of n makes ready.
MadeReady(k, n, N) ==
  /\ \A e \in N :
       /\ e[2].fn \in Nodes /\ e[2].g = k /\ TaskOf[e[2].fn] = k
       /\ e[2].inputs = Preds(e[2].fn)
       /\ Preds(e[2].fn) \subseteq Fed' /\ ~(Preds(e[2].fn) \subseteq Fed)
       /\ n \in Preds(e[2].fn)
  /\ \A d, e \in N : d[2].fn = e[2].fn => d = e
  /\ \A m \in ShouldExecute :
       Preds(m) \subseteq Fed' /\ ~(Preds(m) \subseteq Fed) => \E e \in N : e[2].fn = m

\* A Node is evaluated, and its successors that are ready are pushed.
LEMMA Evaluate ==
  ASSUME Inv, NEW t \in Threads, NEW pc0 \in {"eval", "outputs"}, At(t, pc0), Goto(t, "dec"),
         evaluated' = evaluated \cup {Top(t).fn},
         UNCHANGED <<pool, graphtasks, hasError, claimed, future, owner, cpuQueue>>,
         NEW N, Entries' = Entries \cup N, MadeReady(Top(t).g, Top(t).fn, N),
         \A g \in Tasks : g # Top(t).g => outstanding'[g] = outstanding[g]
  PROVE  /\ Shape' /\ Items' /\ Unique' /\ TasksOK' /\ Called' /\ Stacks' /\ Claims'
         /\ WakeFree' /\ Alive'
         /\ frames' \in [Threads -> Seq(FrameSet)] /\ IsFiniteSet(DOMAIN Acts')
         /\ \A g \in Tasks : Valid(g)' => Valid(g)
         /\ \A g \in Tasks : Running(g)' = Running(g)
         /\ \A e \in N : e \notin Entries
<1>i. /\ Typed /\ Shape /\ Items /\ Unique /\ Graph /\ TasksOK /\ Called /\ Stacks /\ Claims
      /\ Counted /\ WakeFree /\ Alive
  BY DEF Inv
<1>1. /\ Depth(t) > 0 /\ <<t, Depth(t)>> \in DOMAIN Acts
      /\ Acts[<<t, Depth(t)>>] = Top(t) /\ Top(t) \in FrameSet /\ Top(t).pc = pc0
      /\ FrameOK(Top(t))
  BY AtFacts
<1>2. PICK a : a = <<t, Depth(t)>>
  OBVIOUS
<1>3. PICK x : x = Top(t)
  OBVIOUS
<1>4. PICK f : f = [x EXCEPT !.pc = "dec"]
  OBVIOUS
<1>5. a \in DOMAIN Acts /\ Acts[a] = x /\ x \in FrameSet /\ x.pc = pc0 /\ FrameOK(x)
  BY <1>1, <1>2, <1>3
<1>6. /\ f \in FrameSet /\ f.pc = "dec" /\ f.task = x.task
      /\ f.g = x.g /\ f.fn = x.fn /\ f.inputs = x.inputs
  <2>1. "dec" \in PCs
    BY DEF PCs
  <2> QED
    BY <1>4, <1>5, <2>1, GotoFields
<1>7. SetTop(t, f)
  BY <1>3, <1>4 DEF Goto
<1>8. Acts' = [Acts EXCEPT ![a] = f] /\ frames' \in [Threads -> Seq(FrameSet)]
  BY <1>i, <1>1, <1>2, <1>6, <1>7, SetTopEffect
<1>9. /\ DOMAIN Acts' = DOMAIN Acts /\ Acts'[a] = f
      /\ \A b \in DOMAIN Acts : b # a => Acts'[b] = Acts[b]
  BY <1>5, <1>8
<1>10. PICK n \in Nodes, k \in Tasks : n = x.fn /\ k = x.g
  BY <1>5 DEF FrameOK, TokenOK, Token
<1>11. /\ n \notin evaluated /\ TaskOf[n] = k /\ Preds(n) \subseteq Fed
       /\ x.pc \in Token /\ f.pc \notin Token \cup Claim \cup Wake \cup {"eval", "calling"}
       /\ Started(k)
  BY <1>5, <1>6, <1>10 DEF FrameOK, TokenOK, Token, Claim, Wake
<1>12. a \in InFrame(n)
  BY <1>5, <1>10, <1>11 DEF InFrame
<1>13. InQueue(n) = {} /\ \A b \in InFrame(n) : b = a
  BY <1>i, <1>12 DEF Unique
<1>e. /\ UNCHANGED <<pool, graphtasks, hasError, claimed, future, owner, cpuQueue>>
      /\ evaluated' = evaluated \cup {n} /\ Entries' = Entries \cup N
      /\ \A g \in Tasks : g # k => outstanding'[g] = outstanding[g]
  BY <1>3, <1>10
<1>m. MadeReady(k, n, N)
  BY <1>3, <1>10
<1>n. \A e \in N : /\ e[2].fn \in Nodes /\ e[2].fn \notin evaluated'
                   /\ InFrame(e[2].fn) = {} /\ InQueue(e[2].fn) = {}
  <2> SUFFICES ASSUME NEW e \in N
               PROVE  /\ e[2].fn \in Nodes /\ e[2].fn \notin evaluated'
                      /\ InFrame(e[2].fn) = {} /\ InQueue(e[2].fn) = {}
    OBVIOUS
  <2>1. e[2].fn \in Nodes /\ ~(Preds(e[2].fn) \subseteq Fed)
    BY <1>m DEF MadeReady
  <2>2. e[2].fn \notin evaluated /\ e[2].fn # n
    BY <1>i, <1>11, <2>1 DEF Graph
  <2>3. ASSUME NEW b \in InFrame(e[2].fn) PROVE FALSE
    BY <1>i, <2>1 DEF InFrame, Shape, FrameOK, TokenOK
  <2>4. ASSUME NEW d \in InQueue(e[2].fn) PROVE FALSE
    BY <1>i, <2>1 DEF InQueue, Items, ItemOK, TokenOK
  <2> QED
    BY <1>e, <2>1, <2>2, <2>3, <2>4
<1>g. Grows /\ NoStart /\ Fed \subseteq Fed'
  BY <1>e DEF Grows, NoStart, Started, Fed
<1>14. Shape'
  <2>1. \A b \in DOMAIN Acts' : b # a => Stays(b)
    <3> SUFFICES ASSUME NEW b \in DOMAIN Acts, b # a PROVE Stays(b)
      BY <1>9
    <3>1. FrameOK(Acts[b])
      BY <1>i DEF Shape
    <3>2. Acts[b].pc \in Token => Acts[b].fn \notin evaluated /\ Acts[b].fn # n
      BY <1>13, <3>1 DEF FrameOK, TokenOK, InFrame
    <3>3. Acts[b].pc \in Claim => future'[Acts[b].g] = "pending"
      BY <1>e, <3>1 DEF FrameOK
    <3> QED
      BY <1>9, <1>e, <3>2, <3>3 DEF Stays
  <2>2. FrameOK(Acts[a])'
    <3>1. x.task \in Tasks \cup {None}
      BY <1>5 DEF FrameSet
    <3>2. x.task # None => future[x.task] # "none"
      BY <1>5 DEF FrameOK, Started
    <3>3. "dec" \notin Token \cup Claim
      BY DEF Token, Claim
    <3> QED
      BY <1>6, <1>9, <1>10, <1>11, <1>e, <3>1, <3>2, <3>3 DEF FrameOK, Started
  <2> QED
    BY <1>i, <1>g, <2>1, <2>2, ShapeKeeps
<1>15. Items'
  <2>1. ASSUME NEW e \in Entries, e[2].fn \in Nodes PROVE e[2].fn \notin evaluated'
    <3>1. e[2].fn \notin evaluated
      BY <1>i, <2>1 DEF Items, ItemOK, TokenOK
    <3>2. e[2].fn # n
      BY <1>13 DEF InQueue
    <3> QED
      BY <1>e, <3>1, <3>2
  <2>2. ASSUME NEW e \in N PROVE ItemOK(e[2])'
    BY <1>11, <1>e, <1>m, <1>n DEF MadeReady, ItemOK, TokenOK, Started
  <2> QED
    BY <1>i, <1>e, <1>g, <2>1, <2>2, ItemsKeeps
<1>16. \A m \in Nodes : m # n => InFrame(m)' = InFrame(m)
  BY <1>5, <1>9, <1>10, <1>11 DEF InFrame
<1>17. InFrame(n)' = {}
  BY <1>9, <1>11, <1>13 DEF InFrame
<1>18. \A m \in Nodes : InQueue(m)' = InQueue(m) \cup {e \in N : e[2].fn = m}
  BY <1>e DEF InQueue
<1>19. Unique'
  <2> SUFFICES ASSUME NEW m \in Nodes
               PROVE  /\ \A b, c \in InFrame(m)' : b = c
                      /\ \A d, e \in InQueue(m)' : d = e
                      /\ InFrame(m)' = {} \/ InQueue(m)' = {}
    BY DEF Unique
  <2>1. /\ \A b, c \in InFrame(m) : b = c
        /\ \A d, e \in InQueue(m) : d = e
        /\ InFrame(m) = {} \/ InQueue(m) = {}
    BY <1>i DEF Unique
  <2>2. InFrame(m)' \subseteq InFrame(m)
    BY <1>16, <1>17
  <2>3. CASE \A e \in N : e[2].fn # m
    BY <1>18, <2>1, <2>2, <2>3
  <2>4. CASE \E e \in N : e[2].fn = m
    <3>1. InFrame(m) = {} /\ InQueue(m) = {}
      BY <1>n, <2>4
    <3>2. \A d, e \in N : d[2].fn = e[2].fn => d = e
      BY <1>m DEF MadeReady
    <3> QED
      BY <1>18, <2>2, <3>1, <3>2
  <2> QED
    BY <2>3, <2>4
<1>20. TasksOK'
  <2>1. \A m \in evaluated' \ evaluated : TaskOf[m] = k
    BY <1>11, <1>e
  <2> QED
    BY <1>i, <1>11, <1>e, <1>g, <2>1, TasksKeep DEF TasksOK, TaskOK, Started
<1>21. Called'
  <2>1. ASSUME NEW g \in Tasks, Started(g), Origin[g] \in Nodes PROVE InQueue(Origin[g])' = {}
    <3>1. InQueue(Origin[g]) = {} /\ Preds(Origin[g]) \subseteq Fed
      BY <1>i, <2>1 DEF Called
    <3>2. \A e \in N : e[2].fn # Origin[g]
      BY <1>m, <3>1 DEF MadeReady
    <3> QED
      BY <1>18, <2>1, <3>1, <3>2
  <2>2. \A b \in DOMAIN Acts' : Acts'[b].pc = "eval" =>
          b \in DOMAIN Acts /\ Acts[b].pc = "eval" /\ Acts[b].fn = Acts'[b].fn
    BY <1>9, <1>11
  <2> QED
    BY <1>i, <1>g, <2>1, <2>2, CalledKeeps
<1>22. Stacks'
  BY <1>i, <1>1, <1>3, <1>6, <1>7, <1>e, <1>g, TopStacks
<1>23. Claims'
  <2>1. \A b \in DOMAIN Acts' : Acts'[b].pc \in Claim =>
          b \in DOMAIN Acts /\ Acts[b].pc \in Claim /\ Acts[b].g = Acts'[b].g
    BY <1>9, <1>11
  <2> QED
    BY <1>i, <2>1, ClaimsKeep
<1>24. WakeFree'
  <2> SUFFICES ASSUME NEW b \in DOMAIN Acts, NEW e \in Entries', Acts'[b].pc \in Wake
               PROVE  e[2] # Item(Acts'[b].g, b[1], {})
    BY <1>9 DEF WakeFree, Item
  <2>1. b # a
    BY <1>9, <1>11
  <2>2. CASE e \in Entries
    BY <1>i, <1>9, <2>1, <2>2 DEF WakeFree
  <2>3. CASE e \in N
    <3>1. b[1] \in Threads
      BY <1>i, ActsFacts
    <3>2. b[1] \notin Nodes
      BY <3>1, EngineAssumption
    <3> QED
      BY <1>n, <2>3, <3>2 DEF Item
  <2> QED
    BY <1>e, <2>2, <2>3
<1>25. \A g \in Tasks : Valid(g)' => Valid(g)
  BY <1>i, <1>1, <1>3, <1>6, <1>7, <1>11, TopValid
<1>26. Alive'
  <2> SUFFICES ASSUME NEW m \in ShouldExecute, Valid(TaskOf[m])', Started(TaskOf[m])',
                      ~hasError'[TaskOf[m]], Preds(m) \subseteq Fed',
                      m \notin evaluated', InFrame(m)' = {}, InQueue(m)' = {}
               PROVE  FALSE
    BY DEF Alive
  <2>1. m \in Nodes /\ TaskOf[m] \in Tasks
    BY GraphFacts
  <2>2. m # n /\ m \notin evaluated
    BY <1>e
  <2>3. InFrame(m) = {} /\ InQueue(m) = {} /\ \A e \in N : e[2].fn # m
    BY <1>16, <1>18, <2>1, <2>2
  <2>4. Preds(m) \subseteq Fed
    BY <1>m, <2>3 DEF MadeReady
  <2>5. Valid(TaskOf[m]) /\ Started(TaskOf[m]) /\ ~hasError[TaskOf[m]]
    BY <1>25, <1>e, <2>1 DEF Started
  <2> QED
    BY <1>i, <2>2, <2>3, <2>4, <2>5 DEF Alive
<1>27. \A g \in Tasks : Running(g)' = Running(g)
  <2>1. x.pc \in Unfinished /\ f.pc \in Unfinished
    BY <1>5, <1>6 DEF Unfinished
  <2> QED
    BY <1>5, <1>6, <1>9, <2>1, SameRunning
<1>28. \A e \in N : e \notin Entries
  BY <1>n DEF InQueue
<1>29. IsFiniteSet(DOMAIN Acts')
  BY <1>i, <1>9 DEF Counted
<1> QED
  BY <1>8, <1>14, <1>15, <1>19, <1>20, <1>21, <1>22, <1>23, <1>24, <1>25, <1>26, <1>27,
     <1>28, <1>29

\* A captured Node that is not needed.
LEMMA CaptureKeeps ==
  ASSUME Inv, NEW t \in Threads, Capture(t)
  PROVE  Inv'
<1>i. Typed /\ Shape /\ Graph /\ Counted
  BY DEF Inv
<1>e. /\ At(t, "eval") /\ Top(t).fn \notin Needed /\ Goto(t, "dec")
      /\ evaluated' = evaluated \cup {Top(t).fn}
      /\ UNCHANGED <<queue, pool, graphtasks, outstanding, hasError, claimed, future, owner,
                     cpuQueue, depth, dependencies, notReady>>
  BY DEF Capture
<1>1. Fed' = Fed
  BY <1>e DEF Fed
<1>2. Entries' = Entries \cup {}
  BY <1>e, QueueSame
<1>3. MadeReady(Top(t).g, Top(t).fn, {})
  BY <1>1 DEF MadeReady
<1>r. /\ Shape' /\ Items' /\ Unique' /\ TasksOK' /\ Called' /\ Stacks' /\ Claims'
      /\ WakeFree' /\ Alive'
      /\ frames' \in [Threads -> Seq(FrameSet)] /\ IsFiniteSet(DOMAIN Acts')
      /\ \A g \in Tasks : Valid(g)' => Valid(g)
      /\ \A g \in Tasks : Running(g)' = Running(g)
  BY <1>e, <1>2, <1>3, Evaluate
<1>4. Top(t).fn \in Nodes /\ Preds(Top(t).fn) \subseteq Fed
  <2>1. FrameOK(Top(t)) /\ Top(t).pc = "eval"
    BY <1>e, AtFacts
  <2> QED
    BY <2>1 DEF FrameOK, TokenOK, Token
<1>5. Graph'
  BY <1>i, <1>e, <1>1, <1>4 DEF Graph
<1>c. Counted'
  BY <1>i, <1>e, <1>2, <1>r, CountedKeeps
<1>y. Typed'
  BY <1>i, <1>e, <1>r, <1>4 DEF Typed
<1> QED
  BY <1>r, <1>5, <1>c, <1>y DEF Inv

\* outstanding_tasks_ when NodeTasks of k are pushed.
LEMMA PushCount ==
  ASSUME Typed, Counted, NEW k \in Tasks, NEW P \in SUBSET ItemSet, IsFiniteSet(P), Push(k, P),
         \A i \in P : i.g = k /\ QueueFor(k, i) \in Queues,
         \A e \in NewEntries(k, P) : e \notin Entries,
         IsFiniteSet(DOMAIN Acts'),
         \A g \in Tasks \ {k} : Valid(g)' =>
           Valid(g) \/ outstanding[g] = Cardinality(Queued(g)) + Cardinality(Running(g)),
         \A g \in Tasks : Running(g)' = Running(g),
         Valid(k) \/ outstanding[k] = Cardinality(Queued(k)) + Cardinality(Running(k))
  PROVE  Counted' /\ outstanding' \in [Tasks -> Nat]
<1>1. /\ Entries' = Entries \cup NewEntries(k, P)
      /\ \A e \in NewEntries(k, P) : e[2] \in P
      /\ IsFiniteSet(NewEntries(k, P)) /\ Cardinality(NewEntries(k, P)) = Cardinality(P)
  BY PushEffect
<1>2. outstanding' = [outstanding EXCEPT ![k] = @ + Cardinality(P)] /\ Cardinality(P) \in Nat
  BY FS_CardinalityType DEF Push
<1>3. /\ outstanding'[k] = outstanding[k] + Cardinality(P) /\ outstanding[k] \in Nat
      /\ \A g \in Tasks : g # k => outstanding'[g] = outstanding[g]
      /\ outstanding' \in [Tasks -> Nat]
  BY <1>2 DEF Typed
<1>4. IsFiniteSet(Entries) /\ IsFiniteSet(Entries')
  BY <1>1, FS_Union DEF Counted
<1>5. Queued(k)' = Queued(k) \cup NewEntries(k, P) /\ \A g \in Tasks : g # k => Queued(g)' = Queued(g)
  BY <1>1 DEF Queued
<1>6. IsFiniteSet(Queued(k))
  <2>1. Queued(k) \in SUBSET Entries
    BY DEF Queued
  <2> QED
    BY <1>4, <2>1, FS_Subset
<1>7. Cardinality(Queued(k)') = Cardinality(Queued(k)) + Cardinality(P)
  <2>1. Queued(k) \cap NewEntries(k, P) = {}
    BY DEF Queued
  <2>2. Cardinality(Queued(k) \cap NewEntries(k, P)) = 0
    BY <2>1, FS_EmptySet
  <2>3. Cardinality(Queued(k) \cup NewEntries(k, P)) =
          Cardinality(Queued(k)) + Cardinality(NewEntries(k, P))
            - Cardinality(Queued(k) \cap NewEntries(k, P))
    BY <1>1, <1>6, FS_Union
  <2>4. Cardinality(Queued(k)) \in Nat
    BY <1>6, FS_CardinalityType
  <2> QED
    BY <1>1, <1>2, <1>5, <2>2, <2>3, <2>4
<1>8. outstanding[k] = Cardinality(Queued(k)) + Cardinality(Running(k))
  BY DEF Counted
<1>9. Cardinality(Queued(k)) \in Nat /\ Cardinality(Running(k)) \in Nat
  <2>1. Running(k) \in SUBSET DOMAIN Acts
    BY ValidFacts
  <2>2. IsFiniteSet(Running(k))
    BY <2>1, FS_Subset DEF Counted
  <2> QED
    BY <1>6, <2>2, FS_CardinalityType
<1>10. outstanding'[k] = Cardinality(Queued(k)') + Cardinality(Running(k)')
  BY <1>2, <1>3, <1>7, <1>8, <1>9
<1>11. \A g \in Tasks :
         Valid(g)' => outstanding'[g] = Cardinality(Queued(g)') + Cardinality(Running(g)')
  <2> SUFFICES ASSUME NEW g \in Tasks, Valid(g)'
               PROVE  outstanding'[g] = Cardinality(Queued(g)') + Cardinality(Running(g)')
    OBVIOUS
  <2>1. CASE g = k
    BY <1>10, <2>1
  <2>2. CASE g # k
    BY <1>3, <1>5, <2>2 DEF Counted
  <2> QED
    BY <2>1, <2>2
<1> QED
  BY <1>3, <1>4, <1>11 DEF Counted

\* Whose last input n is.
LEMMA ReadyFacts ==
  ASSUME Inv, NEW n \in Needed, n \notin evaluated, NEW m \in Nodes, n \in Preds(m)
  PROVE  /\ dependencies[m] = 1 <=> Preds(m) \subseteq Fed \cup {n}
         /\ dependencies[m] \in Nat \ {0}
         /\ dependencies[m] - 1 = Cardinality(Preds(m) \ (Fed \cup {n}))
         /\ ~(Preds(m) \subseteq Fed)
<1>1. PICK S : S = Preds(m) \ Fed
  OBVIOUS
<1>2. n \in S /\ S \ {n} = Preds(m) \ (Fed \cup {n})
  BY <1>1 DEF Fed
<1>3. IsFiniteSet(S)
  <2>1. IsFiniteSet(Preds(m)) /\ S \in SUBSET Preds(m)
    BY <1>1, GraphFacts
  <2> QED
    BY <2>1, FS_Subset
<1>4. dependencies[m] = Cardinality(S)
  BY <1>1 DEF Inv, Graph
<1>5. Cardinality(S) \in Nat /\ IsFiniteSet(S \ {n}) /\ Cardinality(S \ {n}) = Cardinality(S) - 1
  BY <1>2, <1>3, FS_RemoveElement, FS_CardinalityType
<1>6. Cardinality(S \ {n}) \in Nat /\ (Cardinality(S \ {n}) = 0 <=> S \ {n} = {})
  BY <1>5, FS_EmptySet, FS_CardinalityType
<1>7. S \ {n} = {} <=> Preds(m) \subseteq Fed \cup {n}
  BY <1>2
<1>8. ~(Preds(m) \subseteq Fed)
  BY <1>1, <1>2
<1>9. /\ dependencies[m] = 1 <=> Cardinality(S \ {n}) = 0
      /\ dependencies[m] \in Nat \ {0}
      /\ dependencies[m] - 1 = Cardinality(S \ {n})
  BY <1>4, <1>5, <1>6
<1>10. dependencies[m] - 1 = Cardinality(Preds(m) \ (Fed \cup {n}))
  BY <1>2, <1>9
<1> QED
  BY <1>6, <1>7, <1>8, <1>9, <1>10

\* The outputs of a function go to the next functions.
LEMMA OutputsKeeps ==
  ASSUME Inv, NEW t \in Threads, Outputs(t)
  PROVE  Inv'
<1>i. Typed /\ Shape /\ Graph /\ TasksOK /\ Counted
  BY DEF Inv
<1>1. PICK pc0 \in {"eval", "outputs"} : At(t, pc0) /\ (pc0 = "eval" => Top(t).fn \in Needed)
  BY DEF Outputs
<1>2. /\ <<t, Depth(t)>> \in DOMAIN Acts
      /\ Acts[<<t, Depth(t)>>] = Top(t) /\ Top(t).pc = pc0 /\ FrameOK(Top(t))
  BY <1>1, AtFacts
<1>3. /\ Top(t).fn \in Needed /\ Top(t).fn \in Nodes \ evaluated /\ Top(t).g \in Tasks
      /\ TaskOf[Top(t).fn] = Top(t).g /\ Started(Top(t).g) /\ Preds(Top(t).fn) \subseteq Fed
  BY <1>1, <1>2 DEF FrameOK, TokenOK, Token
<1>4. PICK n \in Needed, k \in Tasks : n = Top(t).fn /\ k = Top(t).g
  BY <1>3
<1>5. n \in Nodes /\ n \notin evaluated /\ TaskOf[n] = k /\ Started(k) /\ Preds(n) \subseteq Fed
  BY <1>3, <1>4
<1>6. PICK R : R = Ready(n)
  OBVIOUS
<1>7. PICK P : P = {Item(k, m, notReady[m] \cup {n}) : m \in R}
  OBVIOUS
<1>e. /\ dependencies' = [m \in Nodes |-> IF m \in Succs(n) THEN dependencies[m] - 1 ELSE dependencies[m]]
      /\ notReady' = [m \in Nodes |->
           CASE m \in R -> {}
             [] m \in (Succs(n) \cap ShouldExecute) \ R -> notReady[m] \cup {n}
             [] OTHER -> notReady[m]]
      /\ evaluated' = evaluated \cup {n} /\ Goto(t, "dec") /\ Push(k, P)
      /\ UNCHANGED <<pool, graphtasks, hasError, claimed, future, owner, cpuQueue, depth>>
  BY <1>4, <1>6, <1>7 DEF Outputs
<1>8. Fed' = Fed \cup {n} /\ n \notin Fed
  BY <1>5, <1>e DEF Fed
<1>9. /\ R \in SUBSET Nodes
      /\ \A m \in Nodes : m \in R <=> /\ m \in ShouldExecute /\ n \in Preds(m)
                                      /\ Preds(m) \subseteq Fed'
  <2>1. \A m \in Nodes : m \in Succs(n) <=> n \in Preds(m)
    BY <1>5, GraphFacts
  <2>2. ShouldExecute \subseteq Nodes
    BY GraphFacts
  <2>3. \A m \in Nodes : m \in R <=> m \in ShouldExecute /\ m \in Succs(n) /\ dependencies[m] = 1
    BY <1>6 DEF Ready
  <2>4. \A m \in Nodes : n \in Preds(m) => (dependencies[m] = 1 <=> Preds(m) \subseteq Fed')
    BY <1>5, <1>8, ReadyFacts
  <2>5. R \in SUBSET Nodes
    BY <1>6, <2>2 DEF Ready
  <2> QED
    BY <2>1, <2>3, <2>4, <2>5
<1>10. \A m \in R : /\ m \in ShouldExecute /\ n \in Preds(m) /\ Preds(m) \subseteq Fed'
                    /\ ~(Preds(m) \subseteq Fed) /\ TaskOf[m] = k
                    /\ notReady[m] \cup {n} = Preds(m)
  <2> SUFFICES ASSUME NEW m \in R
               PROVE  /\ m \in ShouldExecute /\ n \in Preds(m) /\ Preds(m) \subseteq Fed'
                      /\ ~(Preds(m) \subseteq Fed) /\ TaskOf[m] = k
                      /\ notReady[m] \cup {n} = Preds(m)
    OBVIOUS
  <2>1. m \in ShouldExecute /\ n \in Preds(m) /\ Preds(m) \subseteq Fed' /\ m \in Nodes
    BY <1>9
  <2>2. ~(Preds(m) \subseteq Fed)
    BY <1>8, <2>1
  <2>3. notReady[m] = Preds(m) \cap Fed
    BY <1>i, <2>1, <2>2 DEF Graph
  <2>4. TaskOf[m] = k
    BY <1>5, <2>1, GraphFacts
  <2> QED
    BY <1>8, <2>1, <2>2, <2>3, <2>4
<1>11. /\ \A m \in R : Item(k, m, Preds(m)) \in P
       /\ \A i \in P : \E m \in R : i = Item(k, m, Preds(m))
  BY <1>7, <1>10
<1>12. \A i \in P : /\ i \in ItemSet /\ i.g = k /\ i.fn \in R /\ i.inputs = Preds(i.fn)
                    /\ QueueFor(k, i) \in Queues
  <2> SUFFICES ASSUME NEW m \in R, NEW i, i = Item(k, m, Preds(m))
               PROVE  /\ i \in ItemSet /\ i.g = k /\ i.fn \in R /\ i.inputs = Preds(i.fn)
                      /\ QueueFor(k, i) \in Queues
    BY <1>11
  <2>1. i.g = k /\ i.fn = m /\ i.inputs = Preds(m)
    BY DEF Item
  <2>2. m \in Nodes /\ Preds(m) \in SUBSET Nodes
    BY <1>9, GraphFacts
  <2>3. i \in ItemSet
    BY <2>2 DEF Item, ItemSet
  <2>4. cpuQueue'[k] \in Queues
    BY <1>i, <1>5, <1>e DEF TasksOK, TaskOK
  <2>5. Device[m] \in Devices \cup {CPU}
    BY <2>2, EngineAssumption
  <2>6. QueueFor(k, i) \in Queues
    BY <2>1, <2>2, <2>4, <2>5 DEF QueueFor, ReadyQueue, Queues
  <2> QED
    BY <2>1, <2>3, <2>6
<1>13. P \in SUBSET ItemSet /\ IsFiniteSet(P)
  <2>1. IsFiniteSet(R)
    BY <1>9, EngineAssumption, FS_Subset
  <2> DEFINE h == [m \in R |-> Item(k, m, Preds(m))]
  <2>2. h \in Surjection(R, P)
    <3>1. h \in [R -> P]
      BY <1>11
    <3>2. \A i \in P : \E m \in R : h[m] = i
      BY <1>11
    <3> QED
      BY <3>1, <3>2 DEF Surjection
  <2> HIDE DEF h
  <2>3. IsFiniteSet(P)
    BY <2>1, <2>2, FS_Surjection
  <2> QED
    BY <1>12, <2>3
<1>14. PICK N : N = NewEntries(k, P)
  OBVIOUS
<1>15. /\ queue' \in [Queues -> SUBSET ItemSet] /\ Entries' = Entries \cup N
       /\ \A e \in N : e[2] \in P
       /\ \A i \in P : <<QueueFor(k, i), i>> \in N
  BY <1>i, <1>12, <1>13, <1>14, <1>e, PushEffect
<1>16. MadeReady(k, n, N)
  <2>1. \A e \in N : /\ e[2].fn \in Nodes /\ e[2].g = k /\ TaskOf[e[2].fn] = k
                     /\ e[2].inputs = Preds(e[2].fn)
                     /\ Preds(e[2].fn) \subseteq Fed' /\ ~(Preds(e[2].fn) \subseteq Fed)
                     /\ n \in Preds(e[2].fn)
    BY <1>9, <1>10, <1>12, <1>15
  <2>2. \A d, e \in N : d[2].fn = e[2].fn => d = e
    <3>1. \A e \in N : e = <<QueueFor(k, e[2]), e[2]>>
      BY <1>14 DEF NewEntries
    <3>2. \A i, j \in P : i.fn = j.fn => i = j
      BY <1>11 DEF Item
    <3> QED
      BY <1>15, <3>1, <3>2
  <2>3. ASSUME NEW m \in ShouldExecute, Preds(m) \subseteq Fed', ~(Preds(m) \subseteq Fed)
        PROVE  \E e \in N : e[2].fn = m
    <3>1. m \in Nodes /\ n \in Preds(m)
      BY <1>8, <2>3, GraphFacts
    <3>2. m \in R
      BY <1>9, <2>3, <3>1
    <3>3. Item(k, m, Preds(m)) \in P /\ Item(k, m, Preds(m)).fn = m
      BY <1>11, <3>2 DEF Item
    <3>4. PICK e \in N : e[2] = Item(k, m, Preds(m))
      BY <1>15, <3>3
    <3> QED
      BY <3>3, <3>4
  <2> QED
    BY <2>1, <2>2, <2>3 DEF MadeReady
<1>17. /\ outstanding' = [outstanding EXCEPT ![k] = @ + Cardinality(P)]
       /\ \A g \in Tasks : g # k => outstanding'[g] = outstanding[g]
  BY <1>i, <1>e DEF Push, Typed
<1>r. /\ Shape' /\ Items' /\ Unique' /\ TasksOK' /\ Called' /\ Stacks' /\ Claims'
      /\ WakeFree' /\ Alive'
      /\ frames' \in [Threads -> Seq(FrameSet)] /\ IsFiniteSet(DOMAIN Acts')
      /\ \A g \in Tasks : Valid(g)' => Valid(g)
      /\ \A g \in Tasks : Running(g)' = Running(g)
      /\ \A e \in N : e \notin Entries
  BY <1>1, <1>4, <1>e, <1>15, <1>16, <1>17, Evaluate
<1>18. Valid(k)
  <2>1. Holds(Acts[<<t, Depth(t)>>], k)
    BY <1>2, <1>4 DEF Holds
  <2> QED
    BY <1>2, <2>1, ValidFacts
<1>19. Counted' /\ outstanding' \in [Tasks -> Nat]
  BY <1>i, <1>12, <1>13, <1>14, <1>18, <1>e, <1>r, PushCount
<1>20. \A m \in Nodes : m \in Succs(n) <=> n \in Preds(m)
  BY <1>5, GraphFacts
<1>21. Graph'
  <2> SUFFICES ASSUME NEW m \in Nodes
               PROVE  /\ dependencies'[m] = Cardinality(Preds(m) \ Fed')
                      /\ notReady'[m] = IF m \in ShouldExecute /\ ~(Preds(m) \subseteq Fed')
                                        THEN Preds(m) \cap Fed' ELSE {}
                      /\ m \in evaluated' => Preds(m) \subseteq Fed'
    BY DEF Graph
  <2>1. /\ dependencies[m] = Cardinality(Preds(m) \ Fed)
        /\ notReady[m] = IF m \in ShouldExecute /\ ~(Preds(m) \subseteq Fed)
                         THEN Preds(m) \cap Fed ELSE {}
        /\ m \in evaluated => Preds(m) \subseteq Fed
    BY <1>i DEF Graph
  <2>2. dependencies'[m] = Cardinality(Preds(m) \ Fed')
    <3>1. CASE n \in Preds(m)
      BY <1>5, <1>8, <1>20, <1>e, <3>1, ReadyFacts
    <3>2. CASE n \notin Preds(m)
      <4>1. Preds(m) \ Fed' = Preds(m) \ Fed
        BY <1>8, <3>2
      <4> QED
        BY <1>20, <1>e, <2>1, <3>2, <4>1
    <3> QED
      BY <3>1, <3>2
  <2>3. notReady'[m] = IF m \in ShouldExecute /\ ~(Preds(m) \subseteq Fed')
                       THEN Preds(m) \cap Fed' ELSE {}
    <3>1. CASE m \in R
      <4>1. notReady'[m] = {}
        BY <1>e, <3>1
      <4> QED
        BY <1>10, <3>1, <4>1
    <3>2. CASE m \in (Succs(n) \cap ShouldExecute) \ R
      <4>1. notReady'[m] = notReady[m] \cup {n}
        BY <1>e, <3>2
      <4>2. n \in Preds(m) /\ m \in ShouldExecute /\ ~(Preds(m) \subseteq Fed')
        BY <1>9, <1>20, <3>2
      <4>3. notReady[m] = Preds(m) \cap Fed
        BY <1>8, <2>1, <4>2
      <4> QED
        BY <1>8, <4>1, <4>2, <4>3
    <3>3. CASE m \notin R /\ m \notin Succs(n) \cap ShouldExecute
      <4>1. notReady'[m] = notReady[m]
        BY <1>e, <3>3
      <4>2. m \notin ShouldExecute \/ n \notin Preds(m)
        BY <1>20, <3>3
      <4> QED
        BY <1>8, <2>1, <4>1, <4>2
    <3> QED
      BY <3>1, <3>2, <3>3
  <2>4. m \in evaluated' => Preds(m) \subseteq Fed'
    BY <1>5, <1>8, <1>e, <2>1
  <2> QED
    BY <2>2, <2>3, <2>4
<1>22. dependencies' \in [Nodes -> Nat]
  <2>1. \A m \in Nodes : dependencies'[m] \in Nat
    <3> SUFFICES ASSUME NEW m \in Nodes PROVE dependencies'[m] \in Nat
      OBVIOUS
    <3>1. CASE n \in Preds(m)
      <4>1. dependencies[m] \in Nat \ {0}
        BY <1>5, <3>1, ReadyFacts
      <4> QED
        BY <1>20, <1>e, <3>1, <4>1
    <3>2. CASE n \notin Preds(m)
      BY <1>i, <1>20, <1>e, <3>2 DEF Typed
    <3> QED
      BY <3>1, <3>2
  <2> QED
    BY <1>e, <2>1
<1>23. notReady' \in [Nodes -> SUBSET Nodes]
  <2>1. \A m \in Nodes : notReady[m] \in SUBSET Nodes
    BY <1>i DEF Typed
  <2> QED
    BY <1>5, <1>e, <2>1
<1>y. Typed'
  BY <1>i, <1>5, <1>e, <1>15, <1>19, <1>22, <1>23, <1>r DEF Typed
<1> QED
  BY <1>r, <1>19, <1>21, <1>y DEF Inv

-----------------------------------------------------------------------------
(* The queues.                                                             *)

\* The local queue and the device of a thread that runs.
LEMMA LocalFacts ==
  ASSUME Inv, NEW t \in Threads, Depth(t) > 0
  PROVE  /\ LocalQueue(t) \in Queues /\ WorkerDevice(t) \in Devices \cup {CPU}
         /\ t \in Pool => frames[t][1].task \in Tasks /\ depth[frames[t][1].task] \in Nat
<1>i. Typed /\ Shape /\ TasksOK /\ Stacks
  BY DEF Inv
<1>1. CASE t \in Pool
  <2>1. <<t, 1>> \in DOMAIN Acts /\ Acts[<<t, 1>>] = frames[t][1]
    BY <1>i, ActsFacts
  <2>2. PICK k \in Tasks : k = frames[t][1].task
    BY <1>i, <1>1, <2>1 DEF Stacks
  <2>3. Started(k)
    <3>1. FrameOK(Acts[<<t, 1>>])
      BY <1>i, <2>1 DEF Shape
    <3>2. k # None
      BY EngineAssumption
    <3> QED
      BY <2>1, <2>2, <3>1, <3>2 DEF FrameOK
  <2>4. owner[k] \in Devices \cup {CPU} /\ cpuQueue[k] \in Queues
    BY <1>i, <2>3 DEF TasksOK, TaskOK
  <2>5. LocalQueue(t) = ReadyQueue(cpuQueue[k], owner[k])
    BY <1>1, <2>2 DEF LocalQueue
  <2>6. t \notin Users /\ t \notin Devices
    BY <1>1, EngineAssumption DEF Queues
  <2>7. WorkerDevice(t) = owner[k]
    BY <1>1, <2>2, <2>6 DEF WorkerDevice
  <2>8. depth[k] \in Nat
    BY <1>i DEF Typed
  <2> QED
    BY <2>2, <2>4, <2>5, <2>7, <2>8 DEF ReadyQueue, Queues
<1>2. CASE t \notin Pool
  <2>1. t \in Users \/ t \in Devices
    BY <1>2 DEF Threads
  <2>2. LocalQueue(t) = t
    BY <1>2 DEF LocalQueue
  <2>3. ~(t \in Users /\ t \in Devices)
    BY EngineAssumption
  <2>4. WorkerDevice(t) \in Devices \cup {CPU}
    BY <1>2, <2>1, <2>3 DEF WorkerDevice
  <2> QED
    BY <1>2, <2>1, <2>2, <2>4 DEF Queues
<1> QED
  BY <1>1, <1>2

\* A NodeTask of a GraphTask that expired is dropped.
LEMMA DropKeeps ==
  ASSUME Inv, NEW t \in Threads, At(t, "pop"), NEW q \in Queues, NEW i \in queue[q],
         queue' = [queue EXCEPT ![q] = @ \ {i}], ~Valid(i.g), Goto(t, "loop"),
         UNCHANGED <<pool, graphtasks, taskVars>>
  PROVE  Inv'
<1>i. /\ Typed /\ Shape /\ Items /\ Unique /\ Graph /\ TasksOK /\ Called /\ Stacks /\ Claims
      /\ Counted /\ WakeFree /\ Alive
  BY DEF Inv
<1>e. UNCHANGED <<pool, graphtasks, outstanding, hasError, claimed, future, owner, cpuQueue, depth,
                  dependencies, notReady, evaluated>>
  BY DEF taskVars
<1>1. /\ Depth(t) > 0 /\ <<t, Depth(t)>> \in DOMAIN Acts
      /\ Acts[<<t, Depth(t)>>] = Top(t) /\ Top(t) \in FrameSet /\ Top(t).pc = "pop"
      /\ FrameOK(Top(t))
  BY AtFacts
<1>2. PICK a : a = <<t, Depth(t)>>
  OBVIOUS
<1>3. PICK x : x = Top(t)
  OBVIOUS
<1>4. PICK f : f = [x EXCEPT !.pc = "loop"]
  OBVIOUS
<1>5. a \in DOMAIN Acts /\ Acts[a] = x /\ x \in FrameSet /\ x.pc = "pop" /\ FrameOK(x)
  BY <1>1, <1>2, <1>3
<1>6. /\ f \in FrameSet /\ f.pc = "loop" /\ f.task = x.task
      /\ f.g = x.g /\ f.fn = x.fn /\ f.inputs = x.inputs
  <2>1. "loop" \in PCs
    BY DEF PCs
  <2> QED
    BY <1>4, <1>5, <2>1, GotoFields
<1>7. SetTop(t, f)
  BY <1>3, <1>4 DEF Goto
<1>8. Acts' = [Acts EXCEPT ![a] = f] /\ frames' \in [Threads -> Seq(FrameSet)]
  BY <1>i, <1>1, <1>2, <1>6, <1>7, SetTopEffect
<1>9. /\ DOMAIN Acts' = DOMAIN Acts /\ Acts'[a] = f
      /\ \A b \in DOMAIN Acts : b # a => Acts'[b] = Acts[b]
  BY <1>5, <1>8
<1>10. /\ x.pc \notin Token \cup Claim \cup Wake \cup Unfinished \cup {"eval", "calling"}
       /\ f.pc \notin Token \cup Claim \cup Wake \cup Unfinished \cup {"eval", "calling"}
  BY <1>5, <1>6 DEF Token, Claim, Wake, Unfinished
<1>11. PICK d : d = <<q, i>>
  OBVIOUS
<1>12. /\ queue' \in [Queues -> SUBSET ItemSet] /\ d \in Entries /\ Entries' = Entries \ {d}
       /\ d[2] = i
  BY <1>i, <1>11, PopEffect
<1>g. Grows /\ NoStart /\ Fed' = Fed
  BY <1>e DEF Grows, NoStart, Started, Fed
<1>13. Shape'
  <2>1. \A b \in DOMAIN Acts' : b # a => Stays(b)
    <3> SUFFICES ASSUME NEW b \in DOMAIN Acts, b # a PROVE Stays(b)
      BY <1>9
    <3>1. FrameOK(Acts[b])
      BY <1>i DEF Shape
    <3> QED
      BY <1>9, <1>e, <3>1 DEF FrameOK, TokenOK, Stays
  <2>2. FrameOK(Acts[a])'
    BY <1>5, <1>6, <1>9, <1>10, <1>e DEF FrameOK, Started
  <2> QED
    BY <1>i, <1>g, <2>1, <2>2, ShapeKeeps
<1>14. Items'
  <2>1. \A e \in Entries : e[2].fn \in Nodes => e[2].fn \notin evaluated
    BY <1>i DEF Items, ItemOK, TokenOK
  <2> QED
    BY <1>i, <1>12, <1>e, <1>g, <2>1, ItemsKeeps
<1>15. \A n \in Nodes : InFrame(n)' = InFrame(n)
  BY <1>5, <1>9, <1>10 DEF InFrame
<1>16. \A n \in Nodes : InQueue(n)' = InQueue(n) \ {d}
  BY <1>12 DEF InQueue
<1>17. Unique'
  BY <1>i, <1>15, <1>16, UniqueKeeps
<1>18. Graph'
  BY <1>i, <1>e, <1>g DEF Graph
<1>19. TasksOK'
  BY <1>i, <1>e, <1>g, TasksKeep DEF TasksOK, TaskOK, Started
<1>20. Called'
  <2>1. \A g \in Tasks : Started(g) /\ Origin[g] \in Nodes => InQueue(Origin[g])' = {}
    BY <1>i, <1>16 DEF Called
  <2>2. \A b \in DOMAIN Acts' : Acts'[b].pc = "eval" =>
          b \in DOMAIN Acts /\ Acts[b].pc = "eval" /\ Acts[b].fn = Acts'[b].fn
    BY <1>9, <1>10
  <2> QED
    BY <1>i, <1>g, <2>1, <2>2, CalledKeeps
<1>21. Stacks'
  BY <1>i, <1>1, <1>3, <1>6, <1>7, <1>e, <1>g, TopStacks
<1>22. Claims'
  <2>1. \A b \in DOMAIN Acts' : Acts'[b].pc \in Claim =>
          b \in DOMAIN Acts /\ Acts[b].pc \in Claim /\ Acts[b].g = Acts'[b].g
    BY <1>9, <1>10
  <2> QED
    BY <1>i, <2>1, ClaimsKeep
<1>23. WakeFree'
  <2>1. \A b \in DOMAIN Acts' : Acts'[b].pc \in Wake =>
          b \in DOMAIN Acts /\ Acts[b].pc \in Wake /\ Acts[b].g = Acts'[b].g
    BY <1>9, <1>10
  <2> QED
    BY <1>i, <1>12, <2>1, WakeFreeKeeps
<1>24. \A g \in Tasks : Valid(g)' => Valid(g)
  BY <1>i, <1>1, <1>3, <1>6, <1>7, <1>10, TopValid
<1>25. Alive'
  <2>1. ASSUME NEW n \in ShouldExecute, Valid(TaskOf[n])' PROVE InQueue(n)' = InQueue(n)
    <3>1. n \in Nodes /\ TaskOf[n] \in Tasks
      BY GraphFacts
    <3>2. Valid(TaskOf[n])
      BY <1>24, <2>1, <3>1
    <3>3. i.fn = n => i.g = TaskOf[n]
      BY <1>i, <1>12, <3>1 DEF Items, ItemOK, TokenOK
    <3>4. d \notin InQueue(n)
      BY <1>12, <3>2, <3>3 DEF InQueue
    <3> QED
      BY <1>16, <3>1, <3>4
  <2>2. ShouldExecute \subseteq Nodes
    BY GraphFacts
  <2> QED
    BY <1>i, <1>15, <1>24, <1>e, <1>g, <2>1, <2>2, AliveKeeps
<1>26. \A g \in Tasks : Running(g)' = Running(g)
  BY <1>5, <1>9, <1>10, SameRunning
<1>27. Counted'
  <2>1. IsFiniteSet(DOMAIN Acts') /\ IsFiniteSet(Entries')
    BY <1>i, <1>9, <1>12, FS_RemoveElement DEF Counted
  <2>2. \A g \in Tasks : Valid(g) => Queued(g)' = Queued(g)
    BY <1>12 DEF Queued
  <2> QED
    BY <1>i, <1>24, <1>26, <1>e, <2>1, <2>2 DEF Counted
<1>y. Typed'
  BY <1>i, <1>8, <1>12, <1>e DEF Typed
<1> QED
  BY <1>13, <1>14, <1>17, <1>18, <1>19, <1>20, <1>21, <1>22, <1>23, <1>25, <1>27, <1>y
  DEF Inv

\* A NodeTask is taken from the queue.
LEMMA TakeKeeps ==
  ASSUME Inv, NEW t \in Threads, At(t, "pop"), NEW q \in Queues, NEW i \in queue[q],
         queue' = [queue EXCEPT ![q] = @ \ {i}], Valid(i.g),
         NEW pc, pc = (IF i.fn \in Nodes /\ ~hasError[i.g] THEN "eval" ELSE "dec"),
         SetTop(t, [Top(t) EXCEPT !.pc = pc, !.g = i.g, !.fn = i.fn, !.inputs = i.inputs]),
         UNCHANGED <<pool, graphtasks, taskVars>>
  PROVE  Inv'
<1>i. /\ Typed /\ Shape /\ Items /\ Unique /\ Graph /\ TasksOK /\ Called /\ Stacks /\ Claims
      /\ Counted /\ WakeFree /\ Alive
  BY DEF Inv
<1>e. UNCHANGED <<pool, graphtasks, outstanding, hasError, claimed, future, owner, cpuQueue, depth,
                  dependencies, notReady, evaluated>>
  BY DEF taskVars
<1>1. /\ Depth(t) > 0 /\ <<t, Depth(t)>> \in DOMAIN Acts
      /\ Acts[<<t, Depth(t)>>] = Top(t) /\ Top(t) \in FrameSet /\ Top(t).pc = "pop"
      /\ FrameOK(Top(t))
  BY AtFacts
<1>2. PICK a : a = <<t, Depth(t)>>
  OBVIOUS
<1>3. PICK x : x = Top(t)
  OBVIOUS
<1>4. PICK f : f = [x EXCEPT !.pc = pc, !.g = i.g, !.fn = i.fn, !.inputs = i.inputs]
  OBVIOUS
<1>5. a \in DOMAIN Acts /\ Acts[a] = x /\ x \in FrameSet /\ x.pc = "pop" /\ FrameOK(x)
  BY <1>1, <1>2, <1>3
<1>11. PICK d : d = <<q, i>>
  OBVIOUS
<1>12. /\ queue' \in [Queues -> SUBSET ItemSet] /\ d \in Entries /\ Entries' = Entries \ {d}
       /\ d[2] = i
  BY <1>i, <1>11, PopEffect
<1>k. PICK k \in Tasks : k = i.g
  <2>1. i \in ItemSet
    BY <1>i, <1>12, EntriesFacts
  <2> QED
    BY <2>1 DEF ItemSet
<1>6. /\ f \in FrameSet /\ f.pc = pc /\ f.task = x.task
      /\ f.g = k /\ f.fn = i.fn /\ f.inputs = i.inputs
  <2>1. pc \in PCs
    BY DEF PCs
  <2>2. i \in ItemSet
    BY <1>i, <1>12, EntriesFacts
  <2> QED
    BY <1>4, <1>5, <1>k, <2>1, <2>2 DEF FrameSet, ItemSet
<1>7. SetTop(t, f)
  BY <1>3, <1>4
<1>8. Acts' = [Acts EXCEPT ![a] = f] /\ frames' \in [Threads -> Seq(FrameSet)]
  BY <1>i, <1>1, <1>2, <1>6, <1>7, SetTopEffect
<1>9. /\ DOMAIN Acts' = DOMAIN Acts /\ Acts'[a] = f
      /\ \A b \in DOMAIN Acts : b # a => Acts'[b] = Acts[b]
  BY <1>5, <1>8
<1>10. /\ x.pc \notin Token \cup Claim \cup Wake \cup Unfinished \cup {"eval", "calling"}
       /\ pc \notin Claim \cup Wake \cup {"calling", "outputs", "loop", "pop"} /\ pc \in Unfinished
       /\ pc \in Token <=> pc = "eval"
  BY <1>5 DEF Token, Claim, Wake, Unfinished
<1>13. ItemOK(i) /\ (pc = "eval" <=> i.fn \in Nodes /\ ~hasError[k])
  BY <1>i, <1>12, <1>k DEF Items
<1>g. Grows /\ NoStart /\ Fed' = Fed
  BY <1>e DEF Grows, NoStart, Started, Fed
<1>14. Shape'
  <2>1. \A b \in DOMAIN Acts' : b # a => Stays(b)
    <3> SUFFICES ASSUME NEW b \in DOMAIN Acts, b # a PROVE Stays(b)
      BY <1>9
    <3>1. FrameOK(Acts[b])
      BY <1>i DEF Shape
    <3> QED
      BY <1>9, <1>e, <3>1 DEF FrameOK, TokenOK, Stays
  <2>2. FrameOK(Acts[a])'
    <3>1. x.task # None => future[x.task] # "none"
      BY <1>5 DEF FrameOK, Started
    <3>2. future[k] # "none"
      BY <1>13, <1>k DEF ItemOK, Started
    <3>3. pc \in Token => TokenOK(Acts[a])'
      BY <1>6, <1>9, <1>10, <1>13, <1>e, <1>g, <1>k DEF ItemOK, TokenOK
    <3> QED
      BY <1>6, <1>9, <1>10, <1>e, <3>1, <3>2, <3>3 DEF FrameOK, Started, Claim
  <2> QED
    BY <1>i, <1>g, <2>1, <2>2, ShapeKeeps
<1>15. Items'
  <2>1. \A e \in Entries : e[2].fn \in Nodes => e[2].fn \notin evaluated
    BY <1>i DEF Items, ItemOK, TokenOK
  <2> QED
    BY <1>i, <1>12, <1>e, <1>g, <2>1, ItemsKeeps
<1>16. \A n \in Nodes : InFrame(n)' = InFrame(n) \cup (IF pc = "eval" /\ i.fn = n THEN {a} ELSE {})
  BY <1>5, <1>6, <1>9, <1>10 DEF InFrame
<1>17. \A n \in Nodes : InQueue(n)' = InQueue(n) \ {d} /\ (i.fn = n => d \in InQueue(n))
  BY <1>12 DEF InQueue
<1>18. Unique'
  <2> SUFFICES ASSUME NEW n \in Nodes
               PROVE  /\ \A b, c \in InFrame(n)' : b = c
                      /\ \A e, c \in InQueue(n)' : e = c
                      /\ InFrame(n)' = {} \/ InQueue(n)' = {}
    BY DEF Unique
  <2>1. /\ \A b, c \in InFrame(n) : b = c
        /\ \A e, c \in InQueue(n) : e = c
        /\ InFrame(n) = {} \/ InQueue(n) = {}
    BY <1>i DEF Unique
  <2>2. CASE i.fn = n
    <3>1. InFrame(n) = {} /\ InQueue(n)' = {}
      BY <1>17, <2>1, <2>2
    <3> QED
      BY <1>16, <3>1
  <2>3. CASE i.fn # n
    BY <1>16, <1>17, <2>1, <2>3
  <2> QED
    BY <2>2, <2>3
<1>19. Graph'
  BY <1>i, <1>e, <1>g DEF Graph
<1>20. TasksOK'
  BY <1>i, <1>e, <1>g, TasksKeep DEF TasksOK, TaskOK, Started
<1>21. Called'
  <2> SUFFICES ASSUME NEW g \in Tasks, Started(g), Origin[g] \in Nodes
               PROVE  /\ Started(TaskOf[Origin[g]])' /\ Preds(Origin[g]) \subseteq Fed'
                      /\ InQueue(Origin[g])' = {}
                      /\ \A b \in DOMAIN Acts' : Acts'[b].pc = "eval" => Acts'[b].fn # Origin[g]
    BY <1>e DEF Called, Started
  <2>1. /\ Started(TaskOf[Origin[g]]) /\ Preds(Origin[g]) \subseteq Fed
        /\ InQueue(Origin[g]) = {}
        /\ \A b \in DOMAIN Acts : Acts[b].pc = "eval" => Acts[b].fn # Origin[g]
    BY <1>i DEF Called
  <2>2. i.fn # Origin[g]
    BY <1>17, <2>1
  <2>3. \A b \in DOMAIN Acts' : Acts'[b].pc = "eval" => Acts'[b].fn # Origin[g]
    BY <1>6, <1>9, <2>1, <2>2
  <2> QED
    BY <1>17, <1>e, <1>g, <2>1, <2>3 DEF Started
<1>22. Stacks'
  BY <1>i, <1>1, <1>3, <1>6, <1>7, <1>e, <1>g, TopStacks
<1>23. Claims'
  <2>1. \A b \in DOMAIN Acts' : Acts'[b].pc \in Claim =>
          b \in DOMAIN Acts /\ Acts[b].pc \in Claim /\ Acts[b].g = Acts'[b].g
    BY <1>6, <1>9, <1>10
  <2> QED
    BY <1>i, <2>1, ClaimsKeep
<1>24. WakeFree'
  <2>1. \A b \in DOMAIN Acts' : Acts'[b].pc \in Wake =>
          b \in DOMAIN Acts /\ Acts[b].pc \in Wake /\ Acts[b].g = Acts'[b].g
    BY <1>6, <1>9, <1>10
  <2> QED
    BY <1>i, <1>12, <2>1, WakeFreeKeeps
<1>25. \A g \in Tasks : Valid(g)' => Valid(g)
  <2> SUFFICES ASSUME NEW g \in Tasks, NEW b \in DOMAIN Acts', Holds(Acts'[b], g), g # k
               PROVE  Holds(Acts[b], g)
    BY <1>9, <1>k, ValidFacts
  <2>1. CASE b = a
    BY <1>5, <1>6, <1>9, <1>10, <2>1 DEF Holds
  <2>2. CASE b # a
    BY <1>9, <2>2
  <2> QED
    BY <2>1, <2>2
<1>26. Alive'
  <2>1. ASSUME NEW n \in ShouldExecute, ~hasError'[TaskOf[n]]
        PROVE  /\ InFrame(n) # {} => InFrame(n)' # {} \/ InQueue(n)' # {}
               /\ InQueue(n) # {} => InFrame(n)' # {} \/ InQueue(n)' # {}
    <3>1. n \in Nodes
      BY GraphFacts
    <3>2. CASE i.fn = n
      <4>1. TaskOf[n] = k
        BY <1>13, <1>k, <3>1, <3>2 DEF ItemOK, TokenOK
      <4>2. a \in InFrame(n)'
        BY <1>13, <1>16, <1>e, <2>1, <3>1, <3>2, <4>1
      <4> QED
        BY <4>2
    <3>3. CASE i.fn # n
      <4>1. d \notin InQueue(n)
        BY <1>12, <3>3 DEF InQueue
      <4> QED
        BY <1>16, <1>17, <3>1, <4>1
    <3> QED
      BY <3>2, <3>3
  <2> QED
    BY <1>i, <1>25, <1>e, <1>g, <2>1, AliveKeeps
<1>27. Running(k)' = Running(k) \cup {a} /\ a \notin Running(k)
  BY <1>5, <1>6, <1>9, <1>10, ValidFacts
<1>28. ASSUME NEW g \in Tasks, g # k PROVE Running(g)' = Running(g)
  <2>1. /\ Running(g) = {b \in DOMAIN Acts : Acts[b].g = g /\ Acts[b].pc \in Unfinished}
        /\ Running(g)' = {b \in DOMAIN Acts' : Acts'[b].g = g /\ Acts'[b].pc \in Unfinished}
    BY ValidFacts
  <2>2. \A b \in DOMAIN Acts : /\ Acts'[b].g = g /\ Acts'[b].pc \in Unfinished
                               <=> Acts[b].g = g /\ Acts[b].pc \in Unfinished
    BY <1>5, <1>6, <1>9, <1>10, <1>28
  <2> QED
    BY <1>9, <2>1, <2>2
<1>29. Queued(k)' = Queued(k) \ {d} /\ d \in Queued(k)
  BY <1>12, <1>k DEF Queued
<1>30. \A g \in Tasks : g # k => Queued(g)' = Queued(g)
  BY <1>12, <1>k DEF Queued
<1>31. IsFiniteSet(Running(k)) /\ IsFiniteSet(Queued(k))
  <2>1. Running(k) \in SUBSET DOMAIN Acts /\ Queued(k) \in SUBSET Entries
    BY ValidFacts DEF Queued
  <2> QED
    BY <1>i, <2>1, FS_Subset DEF Counted
<1>32. /\ Cardinality(Running(k)) \in Nat /\ Cardinality(Running(k)') = Cardinality(Running(k)) + 1
       /\ Cardinality(Queued(k)) \in Nat /\ Cardinality(Queued(k)') = Cardinality(Queued(k)) - 1
  <2>1. Cardinality(Running(k)) \in Nat /\ Cardinality(Queued(k)) \in Nat
    BY <1>31, FS_CardinalityType
  <2>2. Cardinality(Running(k) \cup {a}) = Cardinality(Running(k)) + 1
    BY <1>27, <1>31, FS_AddElement
  <2>3. Cardinality(Queued(k) \ {d}) = Cardinality(Queued(k)) - 1
    BY <1>29, <1>31, FS_RemoveElement
  <2> QED
    BY <1>27, <1>29, <2>1, <2>2, <2>3
<1>33. outstanding[k] = Cardinality(Queued(k)) + Cardinality(Running(k))
  BY <1>i, <1>k DEF Counted
<1>34. outstanding'[k] = Cardinality(Queued(k)') + Cardinality(Running(k)')
  BY <1>32, <1>33, <1>e
<1>35. Counted'
  <2>1. IsFiniteSet(DOMAIN Acts') /\ IsFiniteSet(Entries')
    BY <1>i, <1>9, <1>12, FS_RemoveElement DEF Counted
  <2>2. \A g \in Tasks : g # k /\ Valid(g)' =>
          outstanding'[g] = Cardinality(Queued(g)') + Cardinality(Running(g)')
    BY <1>i, <1>25, <1>28, <1>30, <1>e DEF Counted
  <2> QED
    BY <1>34, <2>1, <2>2 DEF Counted
<1>y. Typed'
  BY <1>i, <1>8, <1>12, <1>e DEF Typed
<1> QED
  BY <1>14, <1>15, <1>18, <1>19, <1>20, <1>21, <1>22, <1>23, <1>24, <1>26, <1>35, <1>y
  DEF Inv

\* ReadyQueue::pop.
LEMMA PopKeeps ==
  ASSUME Inv, NEW t \in Threads, Pop(t)
  PROVE  Inv'
<1>1. At(t, "pop") /\ UNCHANGED <<pool, graphtasks, taskVars>>
  BY DEF Pop
<1>2. Depth(t) > 0 /\ LocalQueue(t) \in Queues
  BY <1>1, AtFacts, LocalFacts
<1>3. PICK q \in Queues : q = LocalQueue(t)
  BY <1>2
<1>4. PICK i \in queue[q] :
        /\ queue' = [queue EXCEPT ![q] = @ \ {i}]
        /\ IF Valid(i.g)
           THEN SetTop(t, [Top(t) EXCEPT
                  !.pc = IF i.fn \in Nodes /\ ~hasError[i.g] THEN "eval" ELSE "dec",
                  !.g = i.g, !.fn = i.fn, !.inputs = i.inputs])
           ELSE Goto(t, "loop")
  BY <1>3 DEF Pop, Front
<1>5. CASE Valid(i.g)
  <2>1. PICK pc : pc = (IF i.fn \in Nodes /\ ~hasError[i.g] THEN "eval" ELSE "dec")
    OBVIOUS
  <2>2. SetTop(t, [Top(t) EXCEPT !.pc = pc, !.g = i.g, !.fn = i.fn, !.inputs = i.inputs])
    BY <1>4, <1>5, <2>1
  <2> QED
    BY <1>1, <1>4, <1>5, <2>1, <2>2, TakeKeeps
<1>6. CASE ~Valid(i.g)
  BY <1>1, <1>4, <1>6, DropKeeps
<1> QED
  BY <1>5, <1>6

\* A dummy task for the owner.
LEMMA WakeOwnerKeeps ==
  ASSUME Inv, NEW t \in Threads, WakeOwner(t)
  PROVE  Inv'
<1>i. /\ Typed /\ Shape /\ Items /\ Unique /\ Graph /\ TasksOK /\ Called /\ Stacks /\ Claims
      /\ Counted /\ WakeFree /\ Alive
  BY DEF Inv
<1>0. /\ At(t, "wake") /\ SetTop(t, Frame(Top(t).task))
      /\ UNCHANGED <<pool, graphtasks, hasError, claimed, future, owner, cpuQueue, depth,
                     dependencies, notReady, evaluated>>
  BY DEF WakeOwner
<1>1. /\ Depth(t) > 0 /\ <<t, Depth(t)>> \in DOMAIN Acts
      /\ Acts[<<t, Depth(t)>>] = Top(t) /\ Top(t) \in FrameSet /\ Top(t).pc = "wake"
      /\ FrameOK(Top(t)) /\ Top(t).task \in Tasks \cup {None}
  BY <1>0, AtFacts
<1>g. Grows /\ NoStart /\ Fed' = Fed
  BY <1>0 DEF Grows, NoStart, Started, Fed
<1>2. CASE queue' = queue /\ outstanding' = outstanding
  <2>1. "wake" \notin Token \cup Unfinished
    BY DEF Token, Unfinished
  <2>r. Rest /\ \A g \in Tasks : Running(g)' = Running(g)
    BY <1>0, <1>2, <1>g, <2>1, AgainStep
  <2>t. TasksOK'
    BY <1>i, <1>0, <1>2, <1>g, TasksKeep DEF TasksOK, TaskOK, Started
  <2>c. Counted'
    BY <1>i, <1>2, <2>r, CountedKeeps DEF Rest
  <2>y. Typed'
    BY <1>i, <1>0, <1>2, <2>r DEF Typed, Rest
  <2> QED
    BY <2>r, <2>t, <2>c, <2>y DEF Inv, Rest
<1>3. ASSUME Push(Top(t).g, {Item(Top(t).g, t, {})})
      PROVE  Inv'
  <2>2. PICK a : a = <<t, Depth(t)>>
    OBVIOUS
  <2>3. PICK x : x = Top(t)
    OBVIOUS
  <2>4. PICK f : f = Frame(x.task)
    OBVIOUS
  <2>5. /\ a \in DOMAIN Acts /\ Acts[a] = x /\ x \in FrameSet /\ x.pc = "wake" /\ FrameOK(x)
        /\ x.task \in Tasks \cup {None}
    BY <1>1, <2>2, <2>3
  <2>6. f \in FrameSet /\ f.pc = "loop" /\ f.task = x.task /\ f.g = None
    BY <2>4, <2>5, NewFields
  <2>7. SetTop(t, f)
    BY <1>0, <2>3, <2>4
  <2>8. Acts' = [Acts EXCEPT ![a] = f] /\ frames' \in [Threads -> Seq(FrameSet)]
    BY <1>i, <1>1, <2>2, <2>6, <2>7, SetTopEffect
  <2>9. /\ DOMAIN Acts' = DOMAIN Acts /\ Acts'[a] = f
        /\ \A b \in DOMAIN Acts : b # a => Acts'[b] = Acts[b]
    BY <2>5, <2>8
  <2>10. /\ x.pc \notin Token \cup Claim \cup Unfinished \cup {"eval", "calling"} /\ x.pc \in Wake
         /\ f.pc \notin Token \cup Claim \cup Wake \cup Unfinished \cup {"eval", "calling"}
    BY <2>5, <2>6 DEF Token, Claim, Wake, Unfinished
  <2>k. PICK k \in Tasks : k = x.g /\ Started(k)
    BY <2>5 DEF FrameOK
  <2>11. PICK i : i = Item(k, t, {})
    OBVIOUS
  <2>12. i \in ItemSet /\ i.g = k /\ i.fn = t /\ i.fn \notin Nodes
    <3>1. t \notin Nodes
      BY EngineAssumption
    <3> QED
      BY <2>11, <3>1 DEF Item, ItemSet
  <2>13. QueueFor(k, i) \in Queues
    <3>1. owner'[k] \in Devices \cup {CPU} /\ cpuQueue'[k] \in Queues
      BY <1>i, <1>0, <2>k DEF TasksOK, TaskOK
    <3> QED
      BY <2>12, <3>1 DEF QueueFor, ReadyQueue, Queues
  <2>p. Push(k, {i})
    BY <1>3, <2>3, <2>k, <2>11
  <2>14. PICK N : N = NewEntries(k, {i})
    OBVIOUS
  <2>15. /\ queue' \in [Queues -> SUBSET ItemSet] /\ Entries' = Entries \cup N
         /\ \A e \in N : e[2] = i
    <3>1. {i} \in SUBSET ItemSet /\ \A j \in {i} : QueueFor(k, j) \in Queues
      BY <2>12, <2>13
    <3>2. /\ queue' \in [Queues -> SUBSET ItemSet] /\ Entries' = Entries \cup NewEntries(k, {i})
          /\ \A e \in NewEntries(k, {i}) : e[2] \in {i}
      BY <1>i, <2>p, <3>1, PushEffect
    <3> QED
      BY <2>14, <3>2
  <2>16. \A e \in Entries : e[2] # i
    <3>1. a[1] = t
      BY <2>2
    <3> QED
      BY <1>i, <2>5, <2>10, <2>11, <2>k, <3>1 DEF WakeFree
  <2>17. Shape'
    <3>1. \A b \in DOMAIN Acts' : b # a => Stays(b)
      <4> SUFFICES ASSUME NEW b \in DOMAIN Acts, b # a PROVE Stays(b)
        BY <2>9
      <4>1. FrameOK(Acts[b])
        BY <1>i DEF Shape
      <4> QED
        BY <1>0, <2>9, <4>1 DEF FrameOK, TokenOK, Stays
    <3>2. FrameOK(Acts[a])'
      BY <1>0, <2>5, <2>6, <2>9, <2>10 DEF FrameOK, Started
    <3> QED
      BY <1>i, <1>g, <3>1, <3>2, ShapeKeeps
  <2>18. Items'
    <3>1. \A e \in Entries : e[2].fn \in Nodes => e[2].fn \notin evaluated
      BY <1>i DEF Items, ItemOK, TokenOK
    <3>2. \A e \in N : ItemOK(e[2])'
      BY <1>0, <2>12, <2>15, <2>k DEF ItemOK, Started
    <3> QED
      BY <1>i, <1>0, <1>g, <2>15, <3>1, <3>2, ItemsKeeps
  <2>19. \A n \in Nodes : InFrame(n)' = InFrame(n)
    BY <2>5, <2>9, <2>10 DEF InFrame
  <2>20. \A n \in Nodes : InQueue(n)' = InQueue(n)
    BY <2>12, <2>15 DEF InQueue
  <2>21. Unique'
    BY <1>i, <2>19, <2>20, UniqueKeeps
  <2>22. Graph'
    BY <1>i, <1>0, <1>g DEF Graph
  <2>23. TasksOK'
    <3>1. \A g \in Tasks : g # k => outstanding'[g] = outstanding[g]
      BY <1>i, <2>p DEF Push, Typed
    <3> QED
      BY <1>i, <1>0, <1>g, <2>k, <3>1, TasksKeep DEF TasksOK, TaskOK, Started
  <2>24. Called'
    <3>1. \A g \in Tasks : Started(g) /\ Origin[g] \in Nodes => InQueue(Origin[g])' = {}
      BY <1>i, <2>20 DEF Called
    <3>2. \A b \in DOMAIN Acts' : Acts'[b].pc = "eval" =>
            b \in DOMAIN Acts /\ Acts[b].pc = "eval" /\ Acts[b].fn = Acts'[b].fn
      BY <2>9, <2>10
    <3> QED
      BY <1>i, <1>g, <3>1, <3>2, CalledKeeps
  <2>25. Stacks'
    BY <1>i, <1>0, <1>1, <1>g, <2>3, <2>6, <2>7, TopStacks
  <2>26. Claims'
    <3>1. \A b \in DOMAIN Acts' : Acts'[b].pc \in Claim =>
            b \in DOMAIN Acts /\ Acts[b].pc \in Claim /\ Acts[b].g = Acts'[b].g
      BY <2>9, <2>10
    <3> QED
      BY <1>i, <3>1, ClaimsKeep
  <2>27. WakeFree'
    <3> SUFFICES ASSUME NEW b \in DOMAIN Acts, NEW e \in Entries', Acts'[b].pc \in Wake
                 PROVE  e[2] # Item(Acts'[b].g, b[1], {})
      BY <2>9 DEF WakeFree, Item
    <3>1. b # a /\ Acts'[b] = Acts[b]
      BY <2>9, <2>10
    <3>2. CASE e \in Entries
      BY <1>i, <3>1, <3>2 DEF WakeFree
    <3>3. CASE e \in N
      <4>1. /\ b[1] \in Threads /\ b[2] \in 1..Depth(b[1]) /\ b = <<b[1], b[2]>>
            /\ Depth(b[1]) \in Nat
        BY <1>i, ActsFacts
      <4>2. ~(b[2] < Depth(b[1]))
        BY <1>i, <3>1 DEF Stacks, Wake
      <4>3. b[1] # t
        BY <2>2, <3>1, <4>1, <4>2
      <4> QED
        BY <2>12, <2>15, <3>3, <4>3 DEF Item
    <3> QED
      BY <2>15, <3>2, <3>3
  <2>28. \A g \in Tasks : Valid(g)' => Valid(g)
    BY <1>i, <1>1, <2>3, <2>6, <2>7, <2>10, TopValid
  <2>29. Alive'
    <3>1. ShouldExecute \subseteq Nodes
      BY GraphFacts
    <3> QED
      BY <1>i, <1>0, <1>g, <2>19, <2>20, <2>28, <3>1, AliveKeeps
  <2>30. \A g \in Tasks : Running(g)' = Running(g)
    BY <2>5, <2>9, <2>10, SameRunning
  <2>31. Valid(k)
    <3>1. Holds(Acts[a], k)
      BY <2>5, <2>k DEF Holds
    <3> QED
      BY <2>5, <3>1, ValidFacts
  <2>32. Counted' /\ outstanding' \in [Tasks -> Nat]
    <3>1. {i} \in SUBSET ItemSet /\ IsFiniteSet({i})
      BY <2>12, FS_Singleton
    <3>2. IsFiniteSet(DOMAIN Acts')
      BY <1>i, <2>9 DEF Counted
    <3>3. \A e \in NewEntries(k, {i}) : e \notin Entries
      BY <2>14, <2>15, <2>16
    <3> QED
      BY <1>i, <2>12, <2>13, <2>28, <2>30, <2>31, <2>p, <3>1, <3>2, <3>3, PushCount
  <2>y. Typed'
    BY <1>i, <1>0, <2>8, <2>15, <2>32 DEF Typed
  <2> QED
    BY <2>17, <2>18, <2>21, <2>22, <2>23, <2>24, <2>25, <2>26, <2>27, <2>29, <2>32, <2>y
    DEF Inv
<1> QED
  BY <1>2, <1>3 DEF WakeOwner

\* An activation whose GraphTask is complete returns.
LEMMA ReturnKeeps ==
  ASSUME Inv, NEW t \in Threads, At(t, "loop"),
         frames' = [frames EXCEPT ![t] = SubSeq(@, 1, Depth(t) - 1)],
         pool' = IF t \in Pool /\ Depth(t) = 1 THEN [pool EXCEPT ![t] = "new"] ELSE pool,
         UNCHANGED <<queue, graphtasks, taskVars>>
  PROVE  Inv'
<1>i. /\ Typed /\ Shape /\ Items /\ Unique /\ Graph /\ TasksOK /\ Called /\ Stacks /\ Claims
      /\ Counted /\ WakeFree /\ Alive
  BY DEF Inv
<1>e. UNCHANGED <<queue, graphtasks, outstanding, hasError, claimed, future, owner, cpuQueue, depth,
                  dependencies, notReady, evaluated>>
  BY DEF taskVars
<1>1. /\ Depth(t) > 0 /\ <<t, Depth(t)>> \in DOMAIN Acts
      /\ Acts[<<t, Depth(t)>>] = Top(t) /\ Top(t).pc = "loop"
  BY AtFacts
<1>2. PICK a : a = <<t, Depth(t)>>
  OBVIOUS
<1>3. a \in DOMAIN Acts /\ Acts[a].pc \notin Token \cup Unfinished
  BY <1>1, <1>2 DEF Token, Unfinished
<1>4. /\ frames' \in [Threads -> Seq(FrameSet)]
      /\ Depth(t)' = Depth(t) - 1 /\ \A s \in Threads \ {t} : Depth(s)' = Depth(s)
      /\ DOMAIN Acts' = DOMAIN Acts \ {a}
      /\ \A b \in DOMAIN Acts' : Acts'[b] = Acts[b]
  BY <1>i, <1>1, <1>2, ReturnEffect
<1>g. Grows /\ NoStart /\ Fed' = Fed /\ Entries' = Entries
  BY <1>e, QueueSame DEF Grows, NoStart, Started, Fed
<1>5. Shape'
  <2>1. \A b \in DOMAIN Acts' : Stays(b)
    <3> SUFFICES ASSUME NEW b \in DOMAIN Acts' PROVE Stays(b)
      OBVIOUS
    <3>1. b \in DOMAIN Acts /\ Acts'[b] = Acts[b] /\ FrameOK(Acts[b])
      BY <1>i, <1>4 DEF Shape
    <3> QED
      BY <1>e, <3>1 DEF FrameOK, TokenOK, Stays
  <2> QED
    BY <1>i, <1>g, <2>1, ShapeKeeps
<1>6. Items'
  <2>1. \A e \in Entries : e[2].fn \in Nodes => e[2].fn \notin evaluated
    BY <1>i DEF Items, ItemOK, TokenOK
  <2> QED
    BY <1>i, <1>e, <1>g, <2>1, ItemsKeeps
<1>7. \A n \in Nodes : InFrame(n)' = InFrame(n) /\ InQueue(n)' = InQueue(n)
  BY <1>3, <1>4, <1>g DEF InFrame, InQueue
<1>8. Unique'
  BY <1>i, <1>7, UniqueKeeps
<1>9. Graph'
  BY <1>i, <1>e, <1>g DEF Graph
<1>10. TasksOK'
  BY <1>i, <1>e, <1>g, TasksKeep DEF TasksOK, TaskOK, Started
<1>11. Called'
  <2>1. \A g \in Tasks : Started(g) /\ Origin[g] \in Nodes => InQueue(Origin[g])' = {}
    BY <1>i, <1>7 DEF Called
  <2> QED
    BY <1>i, <1>4, <1>g, <2>1, CalledKeeps
<1>12. Stacks'
  <2>1. \A b \in DOMAIN Acts : /\ b[1] \in Threads /\ b[2] \in 1..Depth(b[1]) /\ b = <<b[1], b[2]>>
                               /\ Depth(b[1]) \in Nat
    BY <1>i, ActsFacts
  <2>2. ASSUME NEW b \in DOMAIN Acts', b[2] < Depth(b[1])' PROVE Acts'[b].pc = "calling"
    <3>1. b \in DOMAIN Acts /\ Acts'[b] = Acts[b]
      BY <1>4
    <3>2. b[2] < Depth(b[1])
      BY <1>1, <1>4, <2>1, <2>2, <3>1
    <3> QED
      BY <1>i, <3>1, <3>2 DEF Stacks
  <2>3. ASSUME NEW p \in Pool
        PROVE  /\ pool'[p] # "busy" => Depth(p)' = 0
               /\ Depth(p)' > 0 => Acts'[<<p, 1>>].task \in Tasks
    <3>1. p \in Threads /\ Depth(p) \in Nat /\ pool \in [Pool -> {"none", "new", "idle", "busy"}]
      BY <1>i, ActsFacts DEF Threads, Typed
    <3>2. /\ pool[p] # "busy" => Depth(p) = 0
          /\ Depth(p) > 0 => Acts[<<p, 1>>].task \in Tasks /\ <<p, 1>> \in DOMAIN Acts
      BY <1>i, <3>1, ActsFacts DEF Stacks
    <3>3. CASE p = t
      <4>1. CASE Depth(t) = 1
        BY <1>4, <3>3, <4>1
      <4>2. CASE Depth(t) # 1
        <5>1. pool' = pool /\ Depth(p) > 0
          BY <1>1, <3>3, <4>2
        <5>2. <<p, 1>> \in DOMAIN Acts'
          BY <1>2, <1>4, <3>2, <3>3, <4>2, <5>1
        <5> QED
          BY <1>4, <3>2, <5>1, <5>2
      <4> QED
        BY <4>1, <4>2
    <3>4. CASE p # t
      <4>1. pool'[p] = pool[p] /\ Depth(p)' = Depth(p)
        BY <1>4, <3>1, <3>4
      <4>2. <<p, 1>> # a
        BY <1>2, <3>4
      <4> QED
        BY <1>4, <3>2, <4>1, <4>2
    <3> QED
      BY <3>3, <3>4
  <2>4. \A j \in 1..Len(graphtasks') : future'[graphtasks'[j]] # "none"
    BY <1>i, <1>e DEF Stacks, Started
  <2> QED
    BY <2>2, <2>3, <2>4 DEF Stacks, Started
<1>13. Claims'
  BY <1>i, <1>4, ClaimsKeep
<1>14. WakeFree'
  BY <1>i, <1>4, <1>g, WakeFreeKeeps
<1>15. ASSUME NEW g \in Tasks, Valid(g)' PROVE Valid(g)
  BY <1>4, <1>15, ValidFacts
<1>16. Alive'
  <2>1. ShouldExecute \subseteq Nodes
    BY GraphFacts
  <2> QED
    BY <1>i, <1>7, <1>15, <1>e, <1>g, <2>1, AliveKeeps
<1>17. ASSUME NEW g \in Tasks PROVE Running(g)' = Running(g)
  <2>1. /\ Running(g) = {b \in DOMAIN Acts : Acts[b].g = g /\ Acts[b].pc \in Unfinished}
        /\ Running(g)' = {b \in DOMAIN Acts' : Acts'[b].g = g /\ Acts'[b].pc \in Unfinished}
    BY ValidFacts
  <2> QED
    BY <1>3, <1>4, <2>1
<1>18. Counted'
  <2>1. IsFiniteSet(DOMAIN Acts')
    BY <1>i, <1>4, FS_RemoveElement DEF Counted
  <2> QED
    BY <1>i, <1>15, <1>17, <1>e, <1>g, <2>1, CountedKeeps
<1>y. Typed'
  BY <1>i, <1>4, <1>e DEF Typed
<1> QED
  BY <1>5, <1>6, <1>8, <1>9, <1>10, <1>11, <1>12, <1>13, <1>14, <1>16, <1>18, <1>y DEF Inv

\* The loop of thread_main.
LEMMA LoopKeeps ==
  ASSUME Inv, NEW t \in Threads, Loop(t)
  PROVE  Inv'
<1>i. Typed /\ TasksOK /\ Counted
  BY DEF Inv
<1>1. At(t, "loop") /\ UNCHANGED <<queue, graphtasks, taskVars>>
  BY DEF Loop
<1>2. CASE Top(t).task # None /\ future[Top(t).task] \in Done
  <2>1. /\ frames' = [frames EXCEPT ![t] = SubSeq(@, 1, Depth(t) - 1)]
        /\ pool' = IF t \in Pool /\ Depth(t) = 1 THEN [pool EXCEPT ![t] = "new"] ELSE pool
    BY <1>2 DEF Loop
  <2> QED
    BY <1>1, <2>1, ReturnKeeps
<1>3. CASE ~(Top(t).task # None /\ future[Top(t).task] \in Done)
  <2>e. /\ Goto(t, "pop")
        /\ UNCHANGED <<queue, pool, graphtasks, outstanding, hasError, claimed, future, owner,
                       cpuQueue, depth, dependencies, notReady, evaluated>>
    BY <1>1, <1>3 DEF Loop, taskVars
  <2>g. Grows /\ NoStart
    BY <2>e DEF Grows, NoStart, Started
  <2>1. /\ Moves("loop", "pop") /\ "loop" \notin Token \cup Claim /\ "pop" \notin Claim \cup Wake
        /\ "loop" \notin Unfinished /\ "pop" \notin Unfinished
    BY DEF Moves, PCs, Token, Claim, Wake, Unfinished
  <2>r. Rest /\ \A g \in Tasks : Running(g)' = Running(g)
    BY <1>1, <2>e, <2>g, <2>1, GotoStep
  <2>t. TasksOK'
    BY <1>i, <2>e, <2>g, TasksKeep DEF TasksOK, TaskOK, Started
  <2>c. Counted'
    BY <1>i, <2>e, <2>r, CountedKeeps DEF Rest
  <2>y. Typed'
    BY <1>i, <2>e, <2>r DEF Typed, Rest
  <2> QED
    BY <2>r, <2>t, <2>c, <2>y DEF Inv, Rest
<1> QED
  BY <1>2, <1>3

-----------------------------------------------------------------------------
(* execute().                                                              *)

\* Nothing is left of a GraphTask that did not start.
LEMMA Unstarted ==
  ASSUME Inv, NEW g \in Tasks, ~Started(g)
  PROVE  /\ outstanding[g] = 0 /\ ~claimed[g] /\ ~hasError[g]
         /\ Queued(g) = {} /\ Running(g) = {}
         /\ outstanding[g] = Cardinality(Queued(g)) + Cardinality(Running(g))
         /\ \A n \in Nodes : TaskOf[n] = g =>
              n \notin evaluated /\ InFrame(n) = {} /\ InQueue(n) = {}
<1>i. Typed /\ Shape /\ Items /\ TasksOK
  BY DEF Inv
<1>1. /\ outstanding[g] = 0 /\ ~claimed[g] /\ ~hasError[g]
      /\ \A n \in evaluated : TaskOf[n] # g
  BY <1>i DEF TasksOK, TaskOK
<1>2. \A e \in Entries : e[2].g # g
  BY <1>i DEF Items, ItemOK
<1>3. ASSUME NEW a \in DOMAIN Acts, Acts[a].pc \in Unfinished PROVE Acts[a].g # g
  <2>1. Acts[a].pc \notin {"loop", "pop"}
    BY <1>3 DEF Unfinished
  <2>2. FrameOK(Acts[a])
    BY <1>i DEF Shape
  <2> QED
    BY <2>1, <2>2 DEF FrameOK
<1>4. Queued(g) = {}
  BY <1>2 DEF Queued
<1>5. Running(g) = {}
  BY <1>3, ValidFacts
<1>6. outstanding[g] = Cardinality(Queued(g)) + Cardinality(Running(g))
  <2>1. Cardinality({}) = 0
    BY FS_EmptySet
  <2> QED
    BY <1>1, <1>4, <1>5, <2>1
<1>7. ASSUME NEW n \in Nodes, TaskOf[n] = g
      PROVE  n \notin evaluated /\ InFrame(n) = {} /\ InQueue(n) = {}
  <2>1. ASSUME NEW a \in DOMAIN Acts, Acts[a].pc \in Token, Acts[a].fn = n PROVE FALSE
    <3>1. Acts[a].pc \in Unfinished
      BY <2>1 DEF Token, Unfinished
    <3>2. FrameOK(Acts[a])
      BY <1>i DEF Shape
    <3> QED
      BY <1>3, <1>7, <2>1, <3>1, <3>2 DEF FrameOK, TokenOK
  <2>2. ASSUME NEW e \in Entries, e[2].fn = n PROVE FALSE
    BY <1>i, <1>2, <1>7, <2>2 DEF Items, ItemOK, TokenOK
  <2> QED
    BY <1>1, <1>7, <2>1, <2>2 DEF InFrame, InQueue
<1> QED
  BY <1>1, <1>4, <1>5, <1>6, <1>7

\* A GraphTask g starts: C holds the activation whose function called execute(),
\* if a function did, and B the activation that drives g, if there is a new one.
LEMMA StartKeeps ==
  ASSUME Inv, NEW t, NEW g \in Tasks, NEW q \in Queues, NEW dev \in Devices \cup {CPU},
         NEW d \in Nat, Start(t, g, q, dev, d),
         NEW B, NEW C, B \cap DOMAIN Acts = {}, C \subseteq DOMAIN Acts, IsFiniteSet(B),
         DOMAIN Acts' = DOMAIN Acts \cup B,
         \A b \in DOMAIN Acts : b \notin C => Acts'[b] = Acts[b],
         \A b \in C : /\ Acts[b].pc = "eval" /\ Acts[b].fn \in Needed /\ Acts[b].fn = Origin[g]
                      /\ Acts'[b] = [Acts[b] EXCEPT !.pc = "calling"],
         \A b \in B : Acts'[b] = Frame(g),
         Origin[g] \in Nodes => C # {},
         frames' \in [Threads -> Seq(FrameSet)],
         pool' \in [Pool -> {"none", "new", "idle", "busy"}], graphtasks' \in Seq(Tasks),
         Stacks'
  PROVE  Inv'
<1>i. /\ Typed /\ Shape /\ Items /\ Unique /\ Graph /\ TasksOK /\ Called /\ Stacks /\ Claims
      /\ Counted /\ WakeFree /\ Alive
  BY DEF Inv
<1>0. PICK r \in Nodes : r = Root[g] /\ TaskOf[r] = g /\ Preds(r) = {}
  BY GraphFacts
<1>1. PICK i : i = Item(g, r, {})
  OBVIOUS
<1>e. /\ future[g] = "none" /\ future' = [future EXCEPT ![g] = "pending"]
      /\ owner' = [owner EXCEPT ![g] = dev] /\ cpuQueue' = [cpuQueue EXCEPT ![g] = q]
      /\ depth' = [depth EXCEPT ![g] = d] /\ Push(g, {i})
      /\ UNCHANGED <<hasError, claimed, dependencies, notReady, evaluated>>
  BY <1>0, <1>1 DEF Start
<1>2. /\ future' \in [Tasks -> {"none", "pending"} \cup Done] /\ future'[g] = "pending"
      /\ \A h \in Tasks : h # g => future'[h] = future[h]
      /\ owner' \in [Tasks -> Devices \cup {CPU, None}] /\ owner'[g] = dev
      /\ cpuQueue' \in [Tasks -> Queues \cup {None}] /\ cpuQueue'[g] = q
      /\ \A h \in Tasks : h # g => owner'[h] = owner[h] /\ cpuQueue'[h] = cpuQueue[h]
      /\ depth' \in [Tasks -> Nat]
  BY <1>i, <1>e DEF Typed
<1>g. Grows /\ Fed' = Fed
  BY <1>2, <1>e DEF Grows, Started, Fed
<1>u. /\ ~Started(g) /\ outstanding[g] = 0 /\ ~claimed[g] /\ ~hasError[g]
      /\ outstanding[g] = Cardinality(Queued(g)) + Cardinality(Running(g))
      /\ \A n \in Nodes : TaskOf[n] = g =>
           n \notin evaluated /\ InFrame(n) = {} /\ InQueue(n) = {}
  <2>1. ~Started(g)
    BY <1>e DEF Started
  <2> QED
    BY <2>1, Unstarted
<1>3. i \in ItemSet /\ i.g = g /\ i.fn = r /\ i.inputs = Preds(r)
  BY <1>0, <1>1 DEF Item, ItemSet
<1>4. QueueFor(g, i) \in Queues
  <2>1. Device[r] \in Devices \cup {CPU}
    BY EngineAssumption
  <2> QED
    BY <1>2, <1>3, <2>1 DEF QueueFor, ReadyQueue, Queues
<1>5. PICK N : N = NewEntries(g, {i})
  OBVIOUS
<1>6. PICK x : x = <<QueueFor(g, i), i>>
  OBVIOUS
<1>7. /\ queue' \in [Queues -> SUBSET ItemSet] /\ Entries' = Entries \cup N /\ N = {x}
      /\ x[2] = i
  <2>1. {i} \in SUBSET ItemSet /\ \A j \in {i} : QueueFor(g, j) \in Queues
    BY <1>3, <1>4
  <2>2. queue' \in [Queues -> SUBSET ItemSet] /\ Entries' = Entries \cup NewEntries(g, {i})
    BY <1>i, <1>e, <2>1, PushEffect
  <2>3. NewEntries(g, {i}) = {<<QueueFor(g, i), i>>}
    BY DEF NewEntries
  <2> QED
    BY <1>5, <1>6, <2>2, <2>3
<1>8. \A e \in Entries : e[2].fn # r
  BY <1>0, <1>u DEF InQueue
<1>9. /\ g # None
      /\ \A b \in B : /\ Acts'[b].pc = "loop" /\ Acts'[b].task = g /\ Acts'[b].g = None
                      /\ b \notin DOMAIN Acts
  <2>1. g # None
    BY EngineAssumption
  <2>2. Frame(g).pc = "loop" /\ Frame(g).task = g /\ Frame(g).g = None
    BY NewFields
  <2> QED
    BY <2>1, <2>2
<1>10. \A b \in C : /\ b \in DOMAIN Acts /\ Acts[b].pc = "eval" /\ Acts'[b].pc = "calling"
                    /\ Acts'[b].task = Acts[b].task /\ Acts'[b].g = Acts[b].g
                    /\ Acts'[b].fn = Acts[b].fn /\ Acts'[b].inputs = Acts[b].inputs
                    /\ Acts[b].fn = Origin[g] /\ Acts[b].fn \in Needed /\ FrameOK(Acts[b])
  <2> SUFFICES ASSUME NEW b \in C
               PROVE  /\ b \in DOMAIN Acts /\ Acts[b].pc = "eval" /\ Acts'[b].pc = "calling"
                      /\ Acts'[b].task = Acts[b].task /\ Acts'[b].g = Acts[b].g
                      /\ Acts'[b].fn = Acts[b].fn /\ Acts'[b].inputs = Acts[b].inputs
                      /\ Acts[b].fn = Origin[g] /\ Acts[b].fn \in Needed /\ FrameOK(Acts[b])
    OBVIOUS
  <2>1. b \in DOMAIN Acts /\ Acts[b] \in FrameSet /\ FrameOK(Acts[b])
    BY <1>i, ActsFacts DEF Shape
  <2>2. "calling" \in PCs
    BY DEF PCs
  <2>3. PICK y \in FrameSet : y = Acts[b]
    BY <2>1
  <2>4. LET f == [y EXCEPT !.pc = "calling"] IN
        /\ f.pc = "calling" /\ f.task = y.task /\ f.g = y.g /\ f.fn = y.fn /\ f.inputs = y.inputs
    BY <2>2, GotoFields
  <2>5. /\ Acts[b].pc = "eval" /\ Acts[b].fn \in Needed /\ Acts[b].fn = Origin[g]
        /\ Acts'[b] = [y EXCEPT !.pc = "calling"]
    BY <2>3
  <2> QED
    BY <2>1, <2>3, <2>4, <2>5
<1>11. /\ "loop" \notin Token \cup Claim \cup Wake \cup Unfinished
       /\ "eval" \in Token \cap Unfinished /\ "calling" \in Token \cap Unfinished
       /\ "eval" \notin Claim \cup Wake /\ "calling" \notin Claim \cup Wake
  BY DEF Token, Claim, Wake, Unfinished
<1>12. \A b \in DOMAIN Acts' : b \in B \/ b \in C \/ (b \in DOMAIN Acts /\ Acts'[b] = Acts[b])
  OBVIOUS
<1>13. Shape'
  <2>1. ASSUME NEW b \in DOMAIN Acts, b \notin C PROVE Stays(b)
    <3>1. FrameOK(Acts[b]) /\ Acts'[b] = Acts[b]
      BY <1>i, <2>1 DEF Shape
    <3>2. Acts[b].pc \in Claim => Acts[b].g \in Tasks /\ future[Acts[b].g] = "pending"
      BY <3>1 DEF FrameOK, Claim
    <3>3. Acts[b].pc \in Claim => future'[Acts[b].g] = "pending"
      BY <1>2, <3>2
    <3>4. Acts[b].pc \in Token => Acts[b].fn \notin evaluated'
      BY <1>e, <3>1 DEF FrameOK, TokenOK
    <3> QED
      BY <3>1, <3>3, <3>4 DEF Stays
  <2>2. ASSUME NEW b \in B PROVE FrameOK(Acts[b])'
    BY <1>2, <1>9, <1>11, <2>2 DEF FrameOK, Started, Claim
  <2>3. ASSUME NEW b \in C PROVE FrameOK(Acts[b])'
    <3>1. /\ Acts[b].task # None => Acts[b].task \in Tasks /\ Started(Acts[b].task)
          /\ Acts[b].g \in Tasks /\ Started(Acts[b].g) /\ TokenOK(Acts[b])
      <4>1. Acts[b] \in FrameSet
        BY <1>i, <1>10, ActsFacts
      <4>2. Acts[b].task \in Tasks \cup {None}
        BY <4>1 DEF FrameSet
      <4> QED
        BY <1>10, <1>11, <4>2 DEF FrameOK
    <3>2. TokenOK(Acts[b])'
      BY <1>10, <1>e, <1>g, <3>1 DEF TokenOK
    <3>3. /\ Acts'[b].task # None => Started(Acts[b].task)'
          /\ Acts'[b].g \in Tasks /\ Started(Acts[b].g)'
      BY <1>10, <1>g, <3>1 DEF Grows, Started
    <3> QED
      BY <1>10, <1>11, <3>2, <3>3 DEF FrameOK, Claim
  <2> QED
    BY <1>i, <1>g, <2>1, <2>2, <2>3, ShapeKeeps
<1>14. Items'
  <2>1. \A e \in Entries : e[2].fn \in Nodes => e[2].fn \notin evaluated
    BY <1>i DEF Items, ItemOK, TokenOK
  <2>2. ItemOK(x[2])'
    BY <1>0, <1>2, <1>3, <1>7, <1>e, <1>u DEF ItemOK, TokenOK, Started
  <2> QED
    BY <1>i, <1>7, <1>e, <1>g, <2>1, <2>2, ItemsKeeps
<1>15. \A n \in Nodes : InFrame(n)' = InFrame(n)
  <2> SUFFICES ASSUME NEW n \in Nodes PROVE InFrame(n)' = InFrame(n)
    OBVIOUS
  <2>1. \A b \in DOMAIN Acts :
          Acts'[b].pc \in Token /\ Acts'[b].fn = n <=> Acts[b].pc \in Token /\ Acts[b].fn = n
    BY <1>10, <1>11
  <2>2. \A b \in B : Acts'[b].pc \notin Token
    BY <1>9, <1>11
  <2> QED
    BY <2>1, <2>2 DEF InFrame
<1>16. \A n \in Nodes : InQueue(n)' = InQueue(n) \cup (IF n = r THEN {x} ELSE {})
  BY <1>3, <1>7 DEF InQueue
<1>17. Unique'
  <2> SUFFICES ASSUME NEW n \in Nodes
               PROVE  /\ \A b, c \in InFrame(n)' : b = c
                      /\ \A e, c \in InQueue(n)' : e = c
                      /\ InFrame(n)' = {} \/ InQueue(n)' = {}
    BY DEF Unique
  <2>1. CASE n = r
    <3>1. InFrame(n)' = {} /\ InQueue(n)' = {x}
      BY <1>0, <1>15, <1>16, <1>u, <2>1
    <3> QED
      BY <3>1
  <2>2. CASE n # r
    BY <1>i, <1>15, <1>16, <2>2 DEF Unique
  <2> QED
    BY <2>1, <2>2
<1>18. Graph'
  BY <1>i, <1>e, <1>g DEF Graph
<1>19. /\ outstanding' = [outstanding EXCEPT ![g] = @ + Cardinality({i})]
       /\ \A h \in Tasks : h # g => outstanding'[h] = outstanding[h]
  BY <1>i, <1>e DEF Push, Typed
<1>20. TasksOK'
  <2> SUFFICES ASSUME NEW h \in Tasks PROVE TaskOK(h)'
    BY DEF TasksOK
  <2>1. CASE h = g
    BY <1>2, <1>e, <1>u, <2>1 DEF TaskOK, Started, Done
  <2>2. CASE h # g
    <3>1. TaskOK(h)
      BY <1>i DEF TasksOK
    <3> QED
      BY <1>2, <1>19, <1>e, <2>2, <3>1 DEF TaskOK, Started, AllRun
  <2> QED
    BY <2>1, <2>2
<1>21. Called'
  <2> SUFFICES ASSUME NEW h \in Tasks, future'[h] # "none", Origin[h] \in Nodes
               PROVE  /\ Started(TaskOf[Origin[h]])' /\ Preds(Origin[h]) \subseteq Fed'
                      /\ InQueue(Origin[h])' = {}
                      /\ \A b \in DOMAIN Acts' : Acts'[b].pc = "eval" => Acts'[b].fn # Origin[h]
    BY DEF Called, Started
  <2>1. TaskOf[Origin[h]] \in Tasks
    BY GraphFacts
  <2>2. CASE h = g
    <3>1. PICK c \in C : TRUE
      BY <2>2
    <3>2. c \in DOMAIN Acts /\ Acts[c].fn = Origin[h] /\ Acts[c].pc = "eval" /\ FrameOK(Acts[c])
      BY <1>10, <2>2
    <3>3. Started(TaskOf[Origin[h]]) /\ Preds(Origin[h]) \subseteq Fed
      BY <1>11, <3>2 DEF FrameOK, TokenOK
    <3>4. c \in InFrame(Origin[h])
      BY <1>11, <3>2 DEF InFrame
    <3>5. Origin[h] # r
      BY <1>0, <1>u, <3>3
    <3>6. InQueue(Origin[h]) = {} /\ \A b \in InFrame(Origin[h]) : b = c
      BY <1>i, <3>4 DEF Unique
    <3>7. InQueue(Origin[h])' = {}
      BY <1>16, <3>5, <3>6
    <3>8. ASSUME NEW b \in DOMAIN Acts', Acts'[b].pc = "eval" PROVE Acts'[b].fn # Origin[h]
      <4>1. b \in DOMAIN Acts /\ b # c /\ Acts'[b] = Acts[b]
        BY <1>9, <1>10, <1>12, <3>8
      <4>2. b \notin InFrame(Origin[h])
        BY <3>6, <4>1
      <4> QED
        BY <1>11, <3>8, <4>1, <4>2 DEF InFrame
    <3> QED
      BY <1>g, <2>1, <3>3, <3>7, <3>8 DEF Grows, Started
  <2>3. CASE h # g
    <3>1. Started(h)
      BY <1>2, <2>3 DEF Started
    <3>2. /\ Started(TaskOf[Origin[h]]) /\ Preds(Origin[h]) \subseteq Fed
          /\ InQueue(Origin[h]) = {}
          /\ \A b \in DOMAIN Acts : Acts[b].pc = "eval" => Acts[b].fn # Origin[h]
      BY <1>i, <3>1 DEF Called
    <3>3. Origin[h] # r
      BY <1>0, <1>u, <3>2
    <3>4. InQueue(Origin[h])' = {}
      BY <1>16, <3>2, <3>3
    <3>5. \A b \in DOMAIN Acts' : Acts'[b].pc = "eval" => Acts'[b].fn # Origin[h]
      BY <1>9, <1>10, <1>12, <3>2
    <3> QED
      BY <1>g, <2>1, <3>2, <3>4, <3>5 DEF Grows, Started
  <2> QED
    BY <2>2, <2>3
<1>22. Claims'
  <2>1. \A b \in DOMAIN Acts' : Acts'[b].pc \in Claim =>
          b \in DOMAIN Acts /\ Acts[b].pc \in Claim /\ Acts[b].g = Acts'[b].g
    BY <1>9, <1>10, <1>11, <1>12
  <2> QED
    BY <1>i, <2>1, ClaimsKeep
<1>23. WakeFree'
  <2> SUFFICES ASSUME NEW b \in DOMAIN Acts', NEW e \in Entries', Acts'[b].pc \in Wake
               PROVE  e[2] # Item(Acts'[b].g, b[1], {})
    BY DEF WakeFree, Item
  <2>1. b \in DOMAIN Acts /\ Acts'[b] = Acts[b]
    BY <1>9, <1>10, <1>11, <1>12
  <2>2. CASE e \in Entries
    BY <1>i, <2>1, <2>2 DEF WakeFree
  <2>3. CASE e = x
    <3>1. b[1] \in Threads
      BY <1>i, <2>1, ActsFacts
    <3>2. b[1] # r
      BY <3>1, EngineAssumption
    <3>3. Item(Acts'[b].g, b[1], {}).fn = b[1]
      BY DEF Item
    <3> QED
      BY <1>3, <1>7, <2>3, <3>2, <3>3
  <2> QED
    BY <1>7, <2>2, <2>3
<1>24. ASSUME NEW h \in Tasks, h # g, Valid(h)' PROVE Valid(h) \/ ~Started(h)
  <2>1. PICK b \in DOMAIN Acts' : Holds(Acts'[b], h)
    BY <1>24, ValidFacts
  <2>2. CASE b \in B
    <3>1. h # None
      BY EngineAssumption
    <3> QED
      BY <1>9, <1>24, <2>1, <2>2, <3>1 DEF Holds
  <2>3. CASE b \in C
    <3>1. CASE Origin[h] = Acts[b].fn
      <4>1. Origin[h] \in Nodes
        <5>1. Needed \subseteq Nodes
          BY EngineAssumption
        <5> QED
          BY <1>10, <2>3, <3>1, <5>1
      <4> QED
        BY <1>i, <1>10, <2>3, <3>1, <4>1 DEF Called
    <3>2. CASE Origin[h] # Acts[b].fn
      <4>1. Holds(Acts[b], h)
        BY <1>10, <2>1, <2>3, <3>2 DEF Holds
      <4> QED
        BY <1>10, <2>3, <4>1, ValidFacts
    <3> QED
      BY <3>1, <3>2
  <2>4. CASE b \in DOMAIN Acts /\ Acts'[b] = Acts[b]
    BY <2>1, <2>4, ValidFacts
  <2> QED
    BY <1>12, <2>2, <2>3, <2>4
<1>25. Alive'
  <2> SUFFICES ASSUME NEW n \in ShouldExecute, Valid(TaskOf[n])', Started(TaskOf[n])',
                      ~hasError'[TaskOf[n]], Preds(n) \subseteq Fed'
               PROVE  n \in evaluated' \/ InFrame(n)' # {} \/ InQueue(n)' # {}
    BY DEF Alive
  <2>1. n \in Nodes /\ TaskOf[n] \in Tasks
    BY GraphFacts
  <2>2. CASE TaskOf[n] = g
    <3>1. \A m \in Preds(n) : m \in Nodes /\ TaskOf[m] = g
      BY <2>1, <2>2, GraphFacts
    <3>2. Preds(n) = {}
      BY <1>g, <1>u, <3>1 DEF Fed
    <3>3. n = r
      BY <1>0, <2>1, <2>2, <3>2, GraphFacts
    <3> QED
      BY <1>16, <3>3
  <2>3. CASE TaskOf[n] # g
    <3>1. Started(TaskOf[n])
      BY <1>2, <2>1, <2>3 DEF Started
    <3>2. Valid(TaskOf[n])
      BY <1>24, <2>1, <2>3, <3>1
    <3>3. n \in evaluated \/ InFrame(n) # {} \/ InQueue(n) # {}
      BY <1>i, <1>e, <1>g, <3>1, <3>2 DEF Alive
    <3> QED
      BY <1>15, <1>16, <1>e, <2>1, <3>3
  <2> QED
    BY <2>2, <2>3
<1>26. ASSUME NEW h \in Tasks PROVE Running(h)' = Running(h)
  <2>1. /\ Running(h) = {b \in DOMAIN Acts : Acts[b].g = h /\ Acts[b].pc \in Unfinished}
        /\ Running(h)' = {b \in DOMAIN Acts' : Acts'[b].g = h /\ Acts'[b].pc \in Unfinished}
    BY ValidFacts
  <2>2. \A b \in DOMAIN Acts : Acts'[b].g = h /\ Acts'[b].pc \in Unfinished
                               <=> Acts[b].g = h /\ Acts[b].pc \in Unfinished
    BY <1>10, <1>11
  <2>3. \A b \in B : Acts'[b].pc \notin Unfinished
    BY <1>9, <1>11
  <2> QED
    BY <2>1, <2>2, <2>3
<1>27. Counted' /\ outstanding' \in [Tasks -> Nat]
  <2>1. {i} \in SUBSET ItemSet /\ IsFiniteSet({i}) /\ \A j \in {i} : j.g = g /\ QueueFor(g, j) \in Queues
    BY <1>3, <1>4, FS_Singleton
  <2>2. IsFiniteSet(DOMAIN Acts')
    <3>1. IsFiniteSet(DOMAIN Acts)
      BY <1>i DEF Counted
    <3>2. IsFiniteSet(DOMAIN Acts \cup B)
      BY <3>1, FS_Union
    <3> QED
      BY <3>2
  <2>3. \A e \in NewEntries(g, {i}) : e \notin Entries
    BY <1>3, <1>5, <1>7, <1>8
  <2>4. \A h \in Tasks \ {g} : Valid(h)' =>
          Valid(h) \/ outstanding[h] = Cardinality(Queued(h)) + Cardinality(Running(h))
    <3> SUFFICES ASSUME NEW h \in Tasks, h # g, Valid(h)', ~Valid(h)
                 PROVE  outstanding[h] = Cardinality(Queued(h)) + Cardinality(Running(h))
      OBVIOUS
    <3>1. ~Started(h)
      BY <1>24
    <3> QED
      BY <3>1, Unstarted
  <2> QED
    BY <1>i, <1>26, <1>e, <1>u, <2>1, <2>2, <2>3, <2>4, PushCount
<1>y. Typed'
  BY <1>i, <1>2, <1>7, <1>27, <1>e DEF Typed
<1> QED
  BY <1>13, <1>14, <1>17, <1>18, <1>20, <1>21, <1>22, <1>23, <1>25, <1>27, <1>y DEF Inv

\* A user thread calls backward().
LEMMA ExecuteKeeps ==
  ASSUME Inv, NEW u \in Users, NEW g \in Tasks, Execute(u, g)
  PROVE  Inv'
<1>i. Typed /\ Stacks
  BY DEF Inv
<1>0. /\ Origin[g] = u /\ frames[u] = <<>> /\ Start(u, g, u, CPU, 0)
      /\ frames' = [frames EXCEPT ![u] = <<Frame(g)>>] /\ UNCHANGED <<pool, graphtasks>>
  BY DEF Execute
<1>1. u \in Threads /\ u \in Queues /\ u \notin Pool /\ Origin[g] \notin Nodes
  BY <1>0, EngineAssumption DEF Threads, Queues
<1>2. Depth(u) = 0
  BY <1>0 DEF Depth
<1>3. Frame(g) \in FrameSet
  BY NewFields
<1>4. PICK b : b = <<u, 1>>
  OBVIOUS
<1>5. /\ frames' \in [Threads -> Seq(FrameSet)]
      /\ Depth(u)' = 1 /\ \A s \in Threads \ {u} : Depth(s)' = Depth(s)
      /\ b \notin DOMAIN Acts /\ DOMAIN Acts' = DOMAIN Acts \cup {b}
      /\ \A a \in DOMAIN Acts : Acts'[a] = Acts[a]
      /\ Acts'[b] = Frame(g)
  BY <1>i, <1>0, <1>1, <1>2, <1>3, <1>4, NewStackEffect
<1>6. Grows
  BY <1>i, <1>0 DEF Start, Grows, Started, Typed
<1>7. Stacks'
  <2>1. ASSUME NEW a \in DOMAIN Acts', a[2] < Depth(a[1])' PROVE Acts'[a].pc = "calling"
    <3>1. a \in DOMAIN Acts
      BY <1>4, <1>5, <2>1
    <3>2. a[1] \in Threads /\ a[2] \in 1..Depth(a[1]) /\ Depth(a[1]) \in Nat
      BY <1>i, <3>1, ActsFacts
    <3>3. a[1] # u
      BY <1>2, <3>2
    <3> QED
      BY <1>i, <1>5, <2>1, <3>1, <3>2, <3>3 DEF Stacks
  <2>2. ASSUME NEW p \in Pool
        PROVE  /\ pool'[p] # "busy" => Depth(p)' = 0
               /\ Depth(p)' > 0 => Acts'[<<p, 1>>].task \in Tasks
    <3>1. p \in Threads /\ p # u
      BY <1>1 DEF Threads
    <3>2. Depth(p) > 0 => <<p, 1>> \in DOMAIN Acts
      BY <1>i, <3>1, ActsFacts
    <3> QED
      BY <1>i, <1>0, <1>5, <3>1, <3>2 DEF Stacks
  <2>3. ASSUME NEW j \in 1..Len(graphtasks') PROVE future'[graphtasks'[j]] # "none"
    <3>1. graphtasks[j] \in Tasks /\ Started(graphtasks[j])
      BY <1>i, <1>0 DEF Stacks, Typed
    <3> QED
      BY <1>0, <1>6, <3>1 DEF Grows
  <2> QED
    BY <2>1, <2>2, <2>3 DEF Stacks, Started
<1>8. pool' \in [Pool -> {"none", "new", "idle", "busy"}] /\ graphtasks' \in Seq(Tasks)
  BY <1>i, <1>0 DEF Typed
<1>9. PICK B, C : B = {b} /\ C = {}
  OBVIOUS
<1>10. IsFiniteSet(B)
  BY <1>9, FS_Singleton
<1>11. /\ B \cap DOMAIN Acts = {} /\ C \subseteq DOMAIN Acts /\ DOMAIN Acts' = DOMAIN Acts \cup B
       /\ \A a \in DOMAIN Acts : a \notin C => Acts'[a] = Acts[a]
       /\ \A a \in C : /\ Acts[a].pc = "eval" /\ Acts[a].fn \in Needed /\ Acts[a].fn = Origin[g]
                       /\ Acts'[a] = [Acts[a] EXCEPT !.pc = "calling"]
       /\ \A a \in B : Acts'[a] = Frame(g)
  BY <1>5, <1>9
<1>12. CPU \in Devices \cup {CPU} /\ 0 \in Nat
  OBVIOUS
<1> QED
  BY <1>0, <1>1, <1>5, <1>7, <1>8, <1>10, <1>11, <1>12, StartKeeps

\* What a reentrant call finds.
LEMMA NestedFacts ==
  ASSUME Inv, NEW t \in Threads, NEW g \in Tasks, At(t, "eval"), Top(t).fn \in Needed,
         Origin[g] = Top(t).fn
  PROVE  /\ Depth(t) \in Nat /\ Depth(t) > 0 /\ <<t, Depth(t)>> \in DOMAIN Acts
         /\ Acts[<<t, Depth(t)>>] = Top(t) /\ Top(t) \in FrameSet /\ Top(t).pc = "eval"
         /\ LocalQueue(t) \in Queues /\ WorkerDevice(t) \in Devices \cup {CPU}
         /\ TotalDepth(t) + 1 \in Nat
<1>1. /\ Depth(t) > 0 /\ <<t, Depth(t)>> \in DOMAIN Acts
      /\ Acts[<<t, Depth(t)>>] = Top(t) /\ Top(t) \in FrameSet /\ Top(t).pc = "eval"
  BY AtFacts
<1>2. Depth(t) \in Nat
  BY ActsFacts DEF Inv
<1>3. /\ LocalQueue(t) \in Queues /\ WorkerDevice(t) \in Devices \cup {CPU}
      /\ t \in Pool => depth[frames[t][1].task] \in Nat
  BY <1>1, LocalFacts
<1>4. TotalDepth(t) + 1 \in Nat
  BY <1>1, <1>2, <1>3 DEF TotalDepth, CurrentDepth
<1> QED
  BY <1>1, <1>2, <1>3, <1>4

\* A function calls backward() in its thread.
LEMMA ExecuteNestedKeeps ==
  ASSUME Inv, NEW t \in Threads, NEW g \in Tasks, ExecuteNested(t, g)
  PROVE  Inv'
<1>i. Typed /\ Stacks
  BY DEF Inv
<1>0. /\ At(t, "eval") /\ Top(t).fn \in Needed /\ Origin[g] = Top(t).fn
      /\ Start(t, g, LocalQueue(t), WorkerDevice(t), TotalDepth(t) + 1)
      /\ frames' = [frames EXCEPT ![t] =
                      Append([@ EXCEPT ![Depth(t)].pc = "calling"], Frame(g))]
      /\ UNCHANGED <<pool, graphtasks>>
  BY DEF ExecuteNested
<1>1. /\ Depth(t) \in Nat /\ Depth(t) > 0 /\ <<t, Depth(t)>> \in DOMAIN Acts
      /\ Acts[<<t, Depth(t)>>] = Top(t) /\ Top(t).pc = "eval"
      /\ LocalQueue(t) \in Queues /\ WorkerDevice(t) \in Devices \cup {CPU}
      /\ TotalDepth(t) + 1 \in Nat
  BY <1>0, NestedFacts
<1>2. PICK q \in Queues, dev \in Devices \cup {CPU}, d \in Nat :
        q = LocalQueue(t) /\ dev = WorkerDevice(t) /\ d = TotalDepth(t) + 1
  BY <1>1
<1>3. Frame(g) \in FrameSet
  BY NewFields
<1>4. PICK a0, b : a0 = <<t, Depth(t)>> /\ b = <<t, Depth(t) + 1>>
  OBVIOUS
<1>5. /\ frames' \in [Threads -> Seq(FrameSet)]
      /\ Depth(t)' = Depth(t) + 1 /\ \A s \in Threads \ {t} : Depth(s)' = Depth(s)
      /\ b \notin DOMAIN Acts /\ DOMAIN Acts' = DOMAIN Acts \cup {b}
      /\ \A a \in DOMAIN Acts : a # a0 => Acts'[a] = Acts[a]
      /\ Acts'[a0] = [Acts[a0] EXCEPT !.pc = "calling"]
      /\ Acts'[b] = Frame(g)
  BY <1>i, <1>0, <1>1, <1>3, <1>4, NestEffect
<1>6. Grows
  BY <1>i, <1>0 DEF Start, Grows, Started, Typed
<1>7. /\ a0 \in DOMAIN Acts /\ Acts[a0] \in FrameSet /\ Acts[a0].pc = "eval"
      /\ Acts[a0].fn \in Needed /\ Acts[a0].fn = Origin[g]
      /\ Acts'[a0].pc = "calling" /\ Acts'[a0].task = Acts[a0].task
  <2>1. a0 \in DOMAIN Acts /\ Acts[a0] = Top(t) /\ Acts[a0] \in FrameSet
    BY <1>i, <1>1, <1>4, ActsFacts
  <2>2. [Acts[a0] EXCEPT !.pc = "calling"].pc = "calling"
        /\ [Acts[a0] EXCEPT !.pc = "calling"].task = Acts[a0].task
    BY <2>1 DEF FrameSet
  <2> QED
    BY <1>0, <1>1, <1>5, <2>1, <2>2
<1>8. Stacks'
  <2>1. ASSUME NEW a \in DOMAIN Acts', a[2] < Depth(a[1])' PROVE Acts'[a].pc = "calling"
    <3>1. a \in DOMAIN Acts
      BY <1>1, <1>4, <1>5, <2>1
    <3>2. a[1] \in Threads /\ a[2] \in 1..Depth(a[1]) /\ Depth(a[1]) \in Nat /\ a = <<a[1], a[2]>>
      BY <1>i, <3>1, ActsFacts
    <3>3. CASE a = a0
      BY <1>7, <3>3
    <3>4. CASE a # a0
      <4>1. a[2] < Depth(a[1])
        BY <1>1, <1>4, <1>5, <2>1, <3>2, <3>4
      <4> QED
        BY <1>i, <1>5, <3>1, <3>4, <4>1 DEF Stacks
    <3> QED
      BY <3>3, <3>4
  <2>2. ASSUME NEW p \in Pool
        PROVE  /\ pool'[p] # "busy" => Depth(p)' = 0
               /\ Depth(p)' > 0 => Acts'[<<p, 1>>].task \in Tasks
    <3>1. p \in Threads /\ Depth(p) \in Nat
      BY <1>i, ActsFacts DEF Threads
    <3>2. /\ pool[p] # "busy" => Depth(p) = 0
          /\ Depth(p) > 0 => Acts[<<p, 1>>].task \in Tasks /\ <<p, 1>> \in DOMAIN Acts
      BY <1>i, <3>1, ActsFacts DEF Stacks
    <3>3. <<p, 1>> \in DOMAIN Acts => Acts'[<<p, 1>>].task = Acts[<<p, 1>>].task
      BY <1>5, <1>7
    <3>4. CASE p = t
      <4>1. Depth(p) > 0
        BY <1>1, <3>4
      <4> QED
        BY <1>0, <3>1, <3>2, <3>3, <4>1
    <3>5. CASE p # t
      <4>1. Depth(p)' = Depth(p)
        BY <1>5, <3>1, <3>5
      <4> QED
        BY <1>0, <3>2, <3>3, <4>1
    <3> QED
      BY <3>4, <3>5
  <2>3. ASSUME NEW j \in 1..Len(graphtasks') PROVE future'[graphtasks'[j]] # "none"
    <3>1. graphtasks[j] \in Tasks /\ Started(graphtasks[j])
      BY <1>i, <1>0 DEF Stacks, Typed
    <3> QED
      BY <1>0, <1>6, <3>1 DEF Grows
  <2> QED
    BY <2>1, <2>2, <2>3 DEF Stacks, Started
<1>9. pool' \in [Pool -> {"none", "new", "idle", "busy"}] /\ graphtasks' \in Seq(Tasks)
  BY <1>i, <1>0 DEF Typed
<1>10. PICK B, C : B = {b} /\ C = {a0}
  OBVIOUS
<1>11. IsFiniteSet(B) /\ C # {}
  BY <1>10, FS_Singleton
<1>12. /\ B \cap DOMAIN Acts = {} /\ C \subseteq DOMAIN Acts /\ DOMAIN Acts' = DOMAIN Acts \cup B
       /\ \A a \in DOMAIN Acts : a \notin C => Acts'[a] = Acts[a]
       /\ \A a \in C : /\ Acts[a].pc = "eval" /\ Acts[a].fn \in Needed /\ Acts[a].fn = Origin[g]
                       /\ Acts'[a] = [Acts[a] EXCEPT !.pc = "calling"]
       /\ \A a \in B : Acts'[a] = Frame(g)
  BY <1>5, <1>7, <1>10
<1>13. Start(t, g, q, dev, d)
  BY <1>0, <1>2
<1> QED
  BY <1>5, <1>8, <1>9, <1>11, <1>12, <1>13, StartKeeps

\* A function calls backward() at the maximum depth.
LEMMA ExecuteOnPoolKeeps ==
  ASSUME Inv, NEW t \in Threads, NEW g \in Tasks, ExecuteOnPool(t, g)
  PROVE  Inv'
<1>i. Typed /\ Stacks
  BY DEF Inv
<1>0. /\ At(t, "eval") /\ Top(t).fn \in Needed /\ Origin[g] = Top(t).fn
      /\ Start(t, g, LocalQueue(t), WorkerDevice(t), TotalDepth(t) + 1)
      /\ Goto(t, "calling") /\ graphtasks' = Append(graphtasks, g)
      /\ \/ \E p \in Pool : pool[p] = "none" /\ pool' = [pool EXCEPT ![p] = "new"]
         \/ pool' = pool
  BY DEF ExecuteOnPool
<1>1. /\ Depth(t) \in Nat /\ Depth(t) > 0 /\ <<t, Depth(t)>> \in DOMAIN Acts
      /\ Acts[<<t, Depth(t)>>] = Top(t) /\ Top(t) \in FrameSet /\ Top(t).pc = "eval"
      /\ LocalQueue(t) \in Queues /\ WorkerDevice(t) \in Devices \cup {CPU}
      /\ TotalDepth(t) + 1 \in Nat
  BY <1>0, NestedFacts
<1>2. PICK q \in Queues, dev \in Devices \cup {CPU}, d \in Nat :
        q = LocalQueue(t) /\ dev = WorkerDevice(t) /\ d = TotalDepth(t) + 1
  BY <1>1
<1>3. PICK a0, x : a0 = <<t, Depth(t)>> /\ x = Top(t)
  OBVIOUS
<1>4. PICK f : f = [x EXCEPT !.pc = "calling"]
  OBVIOUS
<1>5. f \in FrameSet /\ f.pc = "calling" /\ f.task = x.task
  <2>1. "calling" \in PCs
    BY DEF PCs
  <2> QED
    BY <1>1, <1>3, <1>4, <2>1, GotoFields
<1>6. SetTop(t, f)
  BY <1>0, <1>3, <1>4 DEF Goto
<1>7. /\ frames' \in [Threads -> Seq(FrameSet)] /\ Acts' = [Acts EXCEPT ![a0] = f]
      /\ \A s \in Threads : Depth(s)' = Depth(s)
  BY <1>i, <1>1, <1>3, <1>5, <1>6, SetTopEffect
<1>8. /\ a0 \in DOMAIN Acts /\ Acts[a0] = x /\ x.pc = "eval" /\ x.fn \in Needed /\ x.fn = Origin[g]
      /\ DOMAIN Acts' = DOMAIN Acts /\ Acts'[a0] = f
      /\ \A a \in DOMAIN Acts : a # a0 => Acts'[a] = Acts[a]
  BY <1>0, <1>1, <1>3, <1>7
<1>9. Grows /\ future'[g] # "none"
  BY <1>i, <1>0 DEF Start, Grows, Started, Typed
<1>10. /\ pool' \in [Pool -> {"none", "new", "idle", "busy"}]
       /\ \A p \in Pool : pool'[p] # "busy" => pool[p] # "busy"
  BY <1>i, <1>0 DEF Typed
<1>11. graphtasks' \in Seq(Tasks)
  BY <1>i, <1>0 DEF Typed
<1>12. Stacks'
  <2>1. ASSUME NEW a \in DOMAIN Acts', a[2] < Depth(a[1])' PROVE Acts'[a].pc = "calling"
    <3>1. a \in DOMAIN Acts /\ a[1] \in Threads
      BY <1>i, <1>8, ActsFacts
    <3>2. Acts[a].pc = "calling"
      BY <1>i, <1>7, <2>1, <3>1 DEF Stacks
    <3> QED
      BY <1>5, <1>8, <3>1, <3>2
  <2>2. ASSUME NEW p \in Pool
        PROVE  /\ pool'[p] # "busy" => Depth(p)' = 0
               /\ Depth(p)' > 0 => Acts'[<<p, 1>>].task \in Tasks
    <3>1. p \in Threads
      BY DEF Threads
    <3>2. /\ pool[p] # "busy" => Depth(p) = 0
          /\ Depth(p) > 0 => Acts[<<p, 1>>].task \in Tasks /\ <<p, 1>> \in DOMAIN Acts
      BY <1>i, <3>1, ActsFacts DEF Stacks
    <3>3. <<p, 1>> \in DOMAIN Acts => Acts'[<<p, 1>>].task = Acts[<<p, 1>>].task
      BY <1>5, <1>8
    <3> QED
      BY <1>7, <1>10, <3>1, <3>2, <3>3
  <2>3. ASSUME NEW j \in 1..Len(graphtasks') PROVE future'[graphtasks'[j]] # "none"
    <3>1. graphtasks \in Seq(Tasks)
      BY <1>i DEF Typed
    <3>2. CASE j \in 1..Len(graphtasks)
      <4>1. graphtasks'[j] = graphtasks[j] /\ graphtasks[j] \in Tasks
        BY <1>0, <3>1, <3>2
      <4>2. Started(graphtasks[j])
        BY <1>i, <3>2 DEF Stacks
      <4> QED
        BY <1>9, <4>1, <4>2 DEF Grows
    <3>3. CASE j \notin 1..Len(graphtasks)
      <4>1. graphtasks'[j] = g
        BY <1>0, <3>1, <3>3
      <4> QED
        BY <1>9, <4>1
    <3> QED
      BY <3>2, <3>3
  <2> QED
    BY <2>1, <2>2, <2>3 DEF Stacks, Started
<1>13. PICK B, C : B = {} /\ C = {a0}
  OBVIOUS
<1>14. IsFiniteSet(B) /\ C # {}
  BY <1>13, FS_EmptySet
<1>15. /\ B \cap DOMAIN Acts = {} /\ C \subseteq DOMAIN Acts /\ DOMAIN Acts' = DOMAIN Acts \cup B
       /\ \A a \in DOMAIN Acts : a \notin C => Acts'[a] = Acts[a]
       /\ \A a \in C : /\ Acts[a].pc = "eval" /\ Acts[a].fn \in Needed /\ Acts[a].fn = Origin[g]
                       /\ Acts'[a] = [Acts[a] EXCEPT !.pc = "calling"]
       /\ \A a \in B : Acts'[a] = Frame(g)
  BY <1>4, <1>8, <1>13
<1>16. Start(t, g, q, dev, d)
  BY <1>0, <1>2
<1>17. /\ frames' \in [Threads -> Seq(FrameSet)]
       /\ pool' \in [Pool -> {"none", "new", "idle", "busy"}]
  BY <1>7, <1>10
<1> QED
  BY <1>11, <1>12, <1>14, <1>15, <1>16, <1>17, StartKeeps

-----------------------------------------------------------------------------
(* The reentrant pool.                                                     *)

\* The parts that read neither the pool nor the stacks of its threads.
LEMMA PoolStep ==
  ASSUME Inv, UNCHANGED <<queue, taskVars>>,
         pool' \in [Pool -> {"none", "new", "idle", "busy"}], graphtasks' \in Seq(Tasks),
         frames' \in [Threads -> Seq(FrameSet)],
         NEW B, IsFiniteSet(B), B \cap DOMAIN Acts = {}, DOMAIN Acts' = DOMAIN Acts \cup B,
         \A b \in DOMAIN Acts : Acts'[b] = Acts[b],
         NEW g, B # {} => g \in Tasks /\ Valid(g) /\ Started(g),
         \A b \in B : Acts'[b] = Frame(g),
         Stacks'
  PROVE  Inv'
<1>i. /\ Typed /\ Shape /\ Items /\ Unique /\ Graph /\ TasksOK /\ Called /\ Stacks /\ Claims
      /\ Counted /\ WakeFree /\ Alive
  BY DEF Inv
<1>e. UNCHANGED <<queue, outstanding, hasError, claimed, future, owner, cpuQueue, depth,
                  dependencies, notReady, evaluated>>
  BY DEF taskVars
<1>g. Grows /\ NoStart /\ Fed' = Fed /\ Entries' = Entries
  BY <1>e, QueueSame DEF Grows, NoStart, Started, Fed
<1>1. \A b \in B : Acts'[b].pc = "loop" /\ Acts'[b].task = g /\ Acts'[b].g = None
  <2>1. Frame(g).pc = "loop" /\ Frame(g).task = g /\ Frame(g).g = None
    BY DEF Frame
  <2> QED
    BY <2>1
<1>2. "loop" \notin Token \cup Claim \cup Wake \cup Unfinished
  BY DEF Token, Claim, Wake, Unfinished
<1>3. Shape'
  <2>1. ASSUME NEW b \in DOMAIN Acts PROVE Stays(b)
    <3>1. FrameOK(Acts[b]) /\ Acts'[b] = Acts[b]
      BY <1>i DEF Shape
    <3> QED
      BY <1>e, <3>1 DEF FrameOK, TokenOK, Stays
  <2>2. ASSUME NEW b \in B PROVE FrameOK(Acts[b])'
    <3>1. Started(g)
      BY <2>2
    <3> QED
      BY <1>1, <1>2, <1>e, <2>2, <3>1 DEF FrameOK, Started, Claim
  <2> QED
    BY <1>i, <1>g, <2>1, <2>2, ShapeKeeps
<1>4. Items'
  <2>1. \A e \in Entries : e[2].fn \in Nodes => e[2].fn \notin evaluated
    BY <1>i DEF Items, ItemOK, TokenOK
  <2> QED
    BY <1>i, <1>e, <1>g, <2>1, ItemsKeeps
<1>5. \A n \in Nodes : InFrame(n)' = InFrame(n) /\ InQueue(n)' = InQueue(n)
  BY <1>1, <1>2, <1>g DEF InFrame, InQueue
<1>6. Unique'
  BY <1>i, <1>5, UniqueKeeps
<1>7. Graph'
  BY <1>i, <1>e, <1>g DEF Graph
<1>8. TasksOK'
  BY <1>i, <1>e, <1>g, TasksKeep DEF TasksOK, TaskOK, Started
<1>9. Called'
  <2>1. \A h \in Tasks : Started(h) /\ Origin[h] \in Nodes => InQueue(Origin[h])' = {}
    BY <1>i, <1>5 DEF Called
  <2> QED
    BY <1>i, <1>1, <1>g, <2>1, CalledKeeps
<1>10. Claims'
  <2>1. \A b \in DOMAIN Acts' : Acts'[b].pc \in Claim =>
          b \in DOMAIN Acts /\ Acts[b].pc \in Claim /\ Acts[b].g = Acts'[b].g
    BY <1>1, <1>2
  <2> QED
    BY <1>i, <2>1, ClaimsKeep
<1>11. WakeFree'
  <2>1. \A b \in DOMAIN Acts' : Acts'[b].pc \in Wake =>
          b \in DOMAIN Acts /\ Acts[b].pc \in Wake /\ Acts[b].g = Acts'[b].g
    BY <1>1, <1>2
  <2> QED
    BY <1>i, <1>g, <2>1, WakeFreeKeeps
<1>12. ASSUME NEW h \in Tasks, Valid(h)' PROVE Valid(h)
  <2>1. PICK b \in DOMAIN Acts' : Holds(Acts'[b], h)
    BY <1>12, ValidFacts
  <2>2. CASE b \in B
    <3>1. h # None
      BY EngineAssumption
    <3>2. h = g
      BY <1>1, <2>1, <2>2, <3>1 DEF Holds
    <3> QED
      BY <2>2, <3>2
  <2>3. CASE b \in DOMAIN Acts
    BY <2>1, <2>3, ValidFacts
  <2> QED
    BY <2>2, <2>3
<1>13. Alive'
  <2>1. ShouldExecute \subseteq Nodes
    BY GraphFacts
  <2> QED
    BY <1>i, <1>5, <1>12, <1>e, <1>g, <2>1, AliveKeeps
<1>14. ASSUME NEW h \in Tasks PROVE Running(h)' = Running(h)
  <2>1. /\ Running(h) = {b \in DOMAIN Acts : Acts[b].g = h /\ Acts[b].pc \in Unfinished}
        /\ Running(h)' = {b \in DOMAIN Acts' : Acts'[b].g = h /\ Acts'[b].pc \in Unfinished}
    BY ValidFacts
  <2> QED
    BY <1>1, <1>2, <2>1
<1>15. Counted'
  <2>1. IsFiniteSet(DOMAIN Acts)
    BY <1>i DEF Counted
  <2>2. IsFiniteSet(DOMAIN Acts \cup B)
    BY <2>1, FS_Union
  <2> QED
    BY <1>i, <1>12, <1>14, <1>e, <1>g, <2>2, CountedKeeps
<1>y. Typed'
  BY <1>i, <1>e DEF Typed
<1> QED
  BY <1>3, <1>4, <1>6, <1>7, <1>8, <1>9, <1>10, <1>11, <1>13, <1>15, <1>y DEF Inv

\* The stacks when a pool thread changes its state and keeps its empty stack.
LEMMA PoolStacks ==
  ASSUME Inv, frames' = frames, future' = future, NEW p \in Pool,
         \A r \in Pool : r # p => pool'[r] = pool[r], pool[p] # "busy",
         \A j \in 1..Len(graphtasks') : Started(graphtasks'[j])
  PROVE  Stacks'
<1>i. Typed /\ Stacks
  BY DEF Inv
<1>1. Acts' = Acts /\ \A s : Depth(s)' = Depth(s)
  BY FramesSame
<1>2. \A r \in Pool : pool'[r] # "busy" => Depth(r)' = 0
  BY <1>i, <1>1 DEF Stacks
<1>3. \A r \in Pool : Depth(r)' > 0 => Acts'[<<r, 1>>].task \in Tasks
  BY <1>i, <1>1 DEF Stacks
<1>4. \A a \in DOMAIN Acts' : a[2] < Depth(a[1])' => Acts'[a].pc = "calling"
  BY <1>i, <1>1 DEF Stacks
<1>5. \A j \in 1..Len(graphtasks') : future'[graphtasks'[j]] # "none"
  BY DEF Started
<1> QED
  BY <1>2, <1>3, <1>4, <1>5 DEF Stacks, Started

\* A pool thread starts to wait.
LEMMA PoolWaitKeeps ==
  ASSUME Inv, NEW p \in Pool, PoolWait(p)
  PROVE  Inv'
<1>i. Typed /\ Stacks
  BY DEF Inv
<1>e. /\ pool[p] = "new" /\ pool' = [pool EXCEPT ![p] = "idle"]
      /\ UNCHANGED <<frames, queue, graphtasks, taskVars>>
  BY DEF PoolWait
<1>1. /\ pool' \in [Pool -> {"none", "new", "idle", "busy"}] /\ graphtasks' \in Seq(Tasks)
      /\ frames' \in [Threads -> Seq(FrameSet)] /\ \A r \in Pool : r # p => pool'[r] = pool[r]
  BY <1>i, <1>e DEF Typed
<1>2. Stacks'
  <2>1. \A j \in 1..Len(graphtasks') : Started(graphtasks'[j])
    BY <1>i, <1>e DEF Stacks
  <2>2. future' = future
    BY <1>e DEF taskVars
  <2> QED
    BY <1>1, <1>e, <2>1, <2>2, PoolStacks
<1>3. Acts' = Acts
  BY <1>e, FramesSame
<1>4. PICK B, g : B = {} /\ g = None
  OBVIOUS
<1>5. IsFiniteSet(B)
  BY <1>4, FS_EmptySet
<1>6. /\ B \cap DOMAIN Acts = {} /\ DOMAIN Acts' = DOMAIN Acts \cup B
      /\ \A b \in DOMAIN Acts : Acts'[b] = Acts[b]
      /\ B # {} => g \in Tasks /\ Valid(g) /\ Started(g)
      /\ \A b \in B : Acts'[b] = Frame(g)
  BY <1>3, <1>4
<1>7. UNCHANGED <<queue, taskVars>>
  BY <1>e
<1> QED
  BY <1>1, <1>2, <1>5, <1>6, <1>7, PoolStep

\* A step that changes nothing.
LEMMA StutterKeeps ==
  ASSUME Inv, UNCHANGED vars
  PROVE  Inv'
<1>i. Typed /\ Stacks
  BY DEF Inv
<1>e. UNCHANGED <<frames, queue, pool, graphtasks, taskVars>>
  BY DEF vars, engineVars
<1>1. /\ pool' \in [Pool -> {"none", "new", "idle", "busy"}] /\ graphtasks' \in Seq(Tasks)
      /\ frames' \in [Threads -> Seq(FrameSet)]
  BY <1>i, <1>e DEF Typed
<1>2. Acts' = Acts /\ \A s : Depth(s)' = Depth(s)
  BY <1>e, FramesSame
<1>3. Stacks'
  BY <1>i, <1>2, <1>e DEF Stacks, Started, taskVars
<1>4. PICK B, g : B = {} /\ g = None
  OBVIOUS
<1>5. IsFiniteSet(B)
  BY <1>4, FS_EmptySet
<1>6. /\ B \cap DOMAIN Acts = {} /\ DOMAIN Acts' = DOMAIN Acts \cup B
      /\ \A b \in DOMAIN Acts : Acts'[b] = Acts[b]
      /\ B # {} => g \in Tasks /\ Valid(g) /\ Started(g)
      /\ \A b \in B : Acts'[b] = Frame(g)
  BY <1>2, <1>4
<1>7. UNCHANGED <<queue, taskVars>>
  BY <1>e
<1> QED
  BY <1>1, <1>3, <1>5, <1>6, <1>7, PoolStep

\* A pool thread takes a GraphTask, or drops one that expired.
LEMMA PoolTakeKeeps ==
  ASSUME Inv, NEW p \in Pool, PoolTake(p)
  PROVE  Inv'
<1>i. Typed /\ Stacks
  BY DEF Inv
<1>e. /\ pool[p] = "idle" /\ graphtasks # <<>> /\ graphtasks' = Tail(graphtasks)
      /\ UNCHANGED <<queue, taskVars>>
  BY DEF PoolTake
<1>f. future' = future
  BY <1>e DEF taskVars
<1>1. PICK g \in Tasks : g = Head(graphtasks)
  BY <1>i, <1>e DEF Typed
<1>2. graphtasks' \in Seq(Tasks)
  BY <1>i, <1>e DEF Typed
<1>3. \A j \in 1..Len(graphtasks') : Started(graphtasks'[j])
  <2>1. graphtasks \in Seq(Tasks)
    BY <1>i DEF Typed
  <2>2. \A j \in 1..Len(graphtasks') : j + 1 \in 1..Len(graphtasks) /\ graphtasks'[j] = graphtasks[j + 1]
    BY <1>e, <2>1
  <2> QED
    BY <1>i, <2>2 DEF Stacks
<1>4. Started(g)
  <2>1. graphtasks \in Seq(Tasks)
    BY <1>i DEF Typed
  <2>2. 1 \in 1..Len(graphtasks) /\ g = graphtasks[1]
    BY <1>1, <1>e, <2>1
  <2> QED
    BY <1>i, <2>2 DEF Stacks
<1>5. CASE Valid(g)
  <2>1. pool' = [pool EXCEPT ![p] = "busy"] /\ frames' = [frames EXCEPT ![p] = <<Frame(g)>>]
    BY <1>1, <1>5 DEF PoolTake
  <2>2. p \in Threads /\ Depth(p) = 0 /\ Frame(g) \in FrameSet
    BY <1>i, <1>e, NewFields DEF Stacks, Threads
  <2>3. PICK b : b = <<p, 1>>
    OBVIOUS
  <2>4. /\ frames' \in [Threads -> Seq(FrameSet)]
        /\ Depth(p)' = 1 /\ \A s \in Threads \ {p} : Depth(s)' = Depth(s)
        /\ b \notin DOMAIN Acts /\ DOMAIN Acts' = DOMAIN Acts \cup {b}
        /\ \A a \in DOMAIN Acts : Acts'[a] = Acts[a]
        /\ Acts'[b] = Frame(g)
    BY <1>i, <2>1, <2>2, <2>3, NewStackEffect
  <2>5. /\ pool' \in [Pool -> {"none", "new", "idle", "busy"}] /\ pool'[p] = "busy"
        /\ \A r \in Pool : r # p => pool'[r] = pool[r]
    BY <1>i, <2>1 DEF Typed
  <2>6. Stacks'
    <3>1. ASSUME NEW a \in DOMAIN Acts', a[2] < Depth(a[1])' PROVE Acts'[a].pc = "calling"
      <4>1. a \in DOMAIN Acts
        BY <2>3, <2>4, <3>1
      <4>2. a[1] \in Threads /\ a[2] \in 1..Depth(a[1]) /\ Depth(a[1]) \in Nat
        BY <1>i, <4>1, ActsFacts
      <4>3. a[1] # p
        BY <2>2, <4>2
      <4> QED
        BY <1>i, <2>4, <3>1, <4>1, <4>2, <4>3 DEF Stacks
    <3>2. ASSUME NEW r \in Pool
          PROVE  /\ pool'[r] # "busy" => Depth(r)' = 0
                 /\ Depth(r)' > 0 => Acts'[<<r, 1>>].task \in Tasks
      <4>1. r \in Threads
        BY DEF Threads
      <4>2. CASE r = p
        <5>1. Acts'[<<r, 1>>].task = g
          BY <2>3, <2>4, <4>2, NewFields
        <5> QED
          BY <2>5, <4>2, <5>1
      <4>3. CASE r # p
        <5>1. Depth(r) > 0 => <<r, 1>> \in DOMAIN Acts
          BY <1>i, <4>1, ActsFacts
        <5> QED
          BY <1>i, <2>4, <2>5, <4>1, <4>3, <5>1 DEF Stacks
      <4> QED
        BY <4>2, <4>3
    <3>3. \A j \in 1..Len(graphtasks') : future'[graphtasks'[j]] # "none"
      BY <1>3, <1>f DEF Started
    <3> QED
      BY <3>1, <3>2, <3>3 DEF Stacks, Started
  <2>7. PICK B : B = {b}
    OBVIOUS
  <2>8. IsFiniteSet(B)
    BY <2>7, FS_Singleton
  <2>9. /\ B \cap DOMAIN Acts = {} /\ DOMAIN Acts' = DOMAIN Acts \cup B
        /\ \A a \in DOMAIN Acts : Acts'[a] = Acts[a]
        /\ B # {} => g \in Tasks /\ Valid(g) /\ Started(g)
        /\ \A a \in B : Acts'[a] = Frame(g)
    BY <1>4, <1>5, <2>4, <2>7
  <2>10. pool' \in [Pool -> {"none", "new", "idle", "busy"}] /\ frames' \in [Threads -> Seq(FrameSet)]
    BY <2>4, <2>5
  <2> QED
    BY <1>2, <1>e, <2>6, <2>8, <2>9, <2>10, PoolStep
<1>6. CASE ~Valid(g)
  <2>1. pool' = [pool EXCEPT ![p] = "new"] /\ frames' = frames
    BY <1>1, <1>6 DEF PoolTake
  <2>2. /\ pool' \in [Pool -> {"none", "new", "idle", "busy"}]
        /\ frames' \in [Threads -> Seq(FrameSet)] /\ \A r \in Pool : r # p => pool'[r] = pool[r]
    BY <1>i, <2>1 DEF Typed
  <2>3. Stacks'
    BY <1>3, <1>e, <1>f, <2>1, <2>2, PoolStacks
  <2>4. Acts' = Acts
    BY <2>1, FramesSame
  <2>5. PICK B : B = {}
    OBVIOUS
  <2>6. IsFiniteSet(B)
    BY <2>5, FS_EmptySet
  <2>7. /\ B \cap DOMAIN Acts = {} /\ DOMAIN Acts' = DOMAIN Acts \cup B
        /\ \A b \in DOMAIN Acts : Acts'[b] = Acts[b]
        /\ B # {} => g \in Tasks /\ Valid(g) /\ Started(g)
        /\ \A b \in B : Acts'[b] = Frame(g)
    BY <2>4, <2>5
  <2> QED
    BY <1>2, <1>e, <2>2, <2>3, <2>6, <2>7, PoolStep
<1> QED
  BY <1>5, <1>6

-----------------------------------------------------------------------------
(* The inductive invariant.                                                *)

\* The engine starts with one idle activation on each device.
LEMMA InitHolds ==
  ASSUME Init
  PROVE  Inv
<1>0. /\ frames = [t \in Threads |-> IF t \in Devices THEN <<Frame(None)>> ELSE <<>>]
      /\ queue = [q \in Queues |-> {}]
      /\ pool = [p \in Pool |-> "none"]
      /\ graphtasks = <<>>
      /\ outstanding = [g \in Tasks |-> 0]
      /\ hasError = [g \in Tasks |-> FALSE]
      /\ claimed = [g \in Tasks |-> FALSE]
      /\ future = [g \in Tasks |-> "none"]
      /\ owner = [g \in Tasks |-> None]
      /\ cpuQueue = [g \in Tasks |-> None]
      /\ depth = [g \in Tasks |-> 0]
      /\ dependencies = [n \in Nodes |-> Cardinality(Preds(n))]
      /\ notReady = [n \in Nodes |-> {}]
      /\ evaluated = {}
  BY DEF Init
<1>1. Frame(None) \in FrameSet /\ Frame(None).pc = "loop" /\ Frame(None).task = None
      /\ Frame(None).g = None
  BY NewFields
<1>2. frames \in [Threads -> Seq(FrameSet)]
  BY <1>0, <1>1
<1>3. \A n \in Nodes : Cardinality(Preds(n)) \in Nat
  BY GraphFacts, FS_CardinalityType
<1>4. Typed
  <2>1. queue \in [Queues -> SUBSET ItemSet] /\ pool \in [Pool -> {"none", "new", "idle", "busy"}]
    BY <1>0
  <2>2. graphtasks \in Seq(Tasks) /\ outstanding \in [Tasks -> Nat] /\ depth \in [Tasks -> Nat]
    BY <1>0
  <2>3. /\ hasError \in [Tasks -> BOOLEAN] /\ claimed \in [Tasks -> BOOLEAN]
        /\ future \in [Tasks -> {"none", "pending"} \cup Done]
    BY <1>0
  <2>4. /\ owner \in [Tasks -> Devices \cup {CPU, None}]
        /\ cpuQueue \in [Tasks -> Queues \cup {None}]
    BY <1>0
  <2>5. /\ dependencies \in [Nodes -> Nat] /\ notReady \in [Nodes -> SUBSET Nodes]
        /\ evaluated \subseteq Nodes
    BY <1>0, <1>3
  <2> QED
    BY <1>2, <2>1, <2>2, <2>3, <2>4, <2>5 DEF Typed
<1>5. /\ \A t \in Threads : Depth(t) = IF t \in Devices THEN 1 ELSE 0
      /\ \A t \in Devices : frames[t][1] = Frame(None)
  BY <1>0 DEF Depth, Threads
<1>6. \A a \in DOMAIN Acts : /\ a[1] \in Devices /\ a[2] = 1 /\ a = <<a[1], a[2]>>
                             /\ Acts[a] = Frame(None)
  <2> SUFFICES ASSUME NEW a \in DOMAIN Acts
               PROVE  /\ a[1] \in Devices /\ a[2] = 1 /\ a = <<a[1], a[2]>>
                      /\ Acts[a] = Frame(None)
    OBVIOUS
  <2>1. /\ a[1] \in Threads /\ a[2] \in 1..Depth(a[1]) /\ a = <<a[1], a[2]>>
        /\ Acts[a] = frames[a[1]][a[2]]
    BY <1>4, ActsFacts
  <2>2. a[1] \in Devices /\ a[2] = 1
    BY <1>5, <2>1
  <2> QED
    BY <1>5, <2>1, <2>2
<1>7. Entries = {}
  <2>1. \A e \in Entries : e[1] \in Queues /\ e[2] \in queue[e[1]]
    BY <1>4, EntriesFacts
  <2> QED
    BY <1>0, <2>1
<1>8. "loop" \notin Token \cup Claim \cup Wake \cup Unfinished
  BY DEF Token, Claim, Wake, Unfinished
<1>9. \A n \in Nodes : InFrame(n) = {} /\ InQueue(n) = {}
  BY <1>1, <1>6, <1>7, <1>8 DEF InFrame, InQueue
<1>10. Shape
  BY <1>1, <1>6, <1>8 DEF Shape, FrameOK, Claim
<1>11. Items /\ Unique
  BY <1>7, <1>9 DEF Items, Unique
<1>12. Graph
  <2> SUFFICES ASSUME NEW n \in Nodes
               PROVE  /\ dependencies[n] = Cardinality(Preds(n) \ Fed)
                      /\ notReady[n] = IF n \in ShouldExecute /\ ~(Preds(n) \subseteq Fed)
                                       THEN Preds(n) \cap Fed ELSE {}
                      /\ n \in evaluated => Preds(n) \subseteq Fed
    BY DEF Graph
  <2>1. Fed = {}
    BY <1>0 DEF Fed
  <2>2. Preds(n) \ Fed = Preds(n) /\ Preds(n) \cap Fed = {}
    BY <2>1
  <2> QED
    BY <1>0, <2>2
<1>13. TasksOK
  BY <1>0 DEF TasksOK, TaskOK, Started, Done
<1>14. Called /\ \A g \in Tasks : ~Started(g)
  BY <1>0 DEF Called, Started
<1>15. Stacks
  <2>1. \A p \in Pool : p \in Threads /\ p \notin Devices
    BY EngineAssumption DEF Threads, Queues
  <2>2. \A p \in Pool : Depth(p) = 0
    BY <1>5, <2>1
  <2>3. \A a \in DOMAIN Acts : ~(a[2] < Depth(a[1]))
    BY <1>5, <1>6 DEF Threads
  <2>4. \A j \in 1..Len(graphtasks) : FALSE
    BY <1>0
  <2> QED
    BY <2>2, <2>3, <2>4 DEF Stacks
<1>16. Claims /\ WakeFree
  BY <1>1, <1>6, <1>8 DEF Claims, WakeFree
<1>17. IsFiniteSet(DOMAIN Acts)
  <2>1. IsFiniteSet(Devices)
    BY EngineAssumption
  <2> DEFINE h == [s \in Devices |-> <<s, 1>>]
  <2>2. \A s \in Devices : <<s, 1>> \in DOMAIN Acts
    <3>1. \A s \in Devices : s \in Threads /\ 1 \in 1..Depth(s)
      BY <1>5 DEF Threads
    <3> QED
      BY <1>4, <3>1, ActsFacts
  <2>3. h \in Surjection(Devices, DOMAIN Acts)
    <3>1. h \in [Devices -> DOMAIN Acts]
      BY <2>2
    <3>2. \A a \in DOMAIN Acts : \E s \in Devices : h[s] = a
      BY <1>6
    <3> QED
      BY <3>1, <3>2 DEF Surjection
  <2> HIDE DEF h
  <2> QED
    BY <2>1, <2>3, FS_Surjection
<1>18. Counted
  <2>1. IsFiniteSet(Entries)
    BY <1>7, FS_EmptySet
  <2>2. ASSUME NEW g \in Tasks
        PROVE  outstanding[g] = Cardinality(Queued(g)) + Cardinality(Running(g))
    <3>1. Queued(g) = {}
      BY <1>7 DEF Queued
    <3>2. Running(g) = {}
      BY <1>1, <1>6, <1>8, ValidFacts
    <3>3. Cardinality({}) = 0
      BY FS_EmptySet
    <3> QED
      BY <1>0, <3>1, <3>2, <3>3
  <2> QED
    BY <1>17, <2>1, <2>2 DEF Counted
<1>19. Alive
  BY <1>14, GraphFacts DEF Alive
<1> QED
  BY <1>4, <1>10, <1>11, <1>12, <1>13, <1>14, <1>15, <1>16, <1>18, <1>19 DEF Inv

\* Every step of every thread keeps the invariant.
LEMMA NextKeeps ==
  ASSUME Inv, [Next]_vars
  PROVE  Inv'
<1>1. CASE UNCHANGED vars
  BY <1>1, StutterKeeps
<1>2. ASSUME NEW u \in Users, NEW g \in Tasks, Execute(u, g) PROVE Inv'
  BY <1>2, ExecuteKeeps
<1>3. ASSUME NEW t \in Threads, Step(t) PROVE Inv'
  <2>1. CASE Loop(t)
    BY <2>1, LoopKeeps
  <2>2. CASE Pop(t)
    BY <2>2, PopKeeps
  <2>3. CASE Capture(t)
    BY <2>3, CaptureKeeps
  <2>4. CASE Resume(t)
    BY <2>4, ResumeKeeps
  <2>5. CASE Outputs(t)
    BY <2>5, OutputsKeeps
  <2>6. CASE Fail(t)
    BY <2>6, FailKeeps
  <2>7. CASE SetException(t)
    BY <2>7, SetExceptionKeeps
  <2>8. CASE SetError(t)
    BY <2>8, SetErrorKeeps
  <2>9. CASE Decrement(t)
    BY <2>9, DecrementKeeps
  <2>10. CASE Completed(t)
    BY <2>10, CompletedKeeps
  <2>11. CASE PostProcess(t)
    BY <2>11, PostProcessKeeps
  <2>12. CASE WaitFuture(t)
    BY <2>12, WaitFutureKeeps
  <2>13. CASE WakeOwner(t)
    BY <2>13, WakeOwnerKeeps
  <2>14. ASSUME NEW g \in Tasks, ExecuteNested(t, g) PROVE Inv'
    BY <2>14, ExecuteNestedKeeps
  <2>15. ASSUME NEW g \in Tasks, ExecuteOnPool(t, g) PROVE Inv'
    BY <2>15, ExecuteOnPoolKeeps
  <2>16. ASSUME t \in Pool, PoolWait(t) PROVE Inv'
    BY <2>16, PoolWaitKeeps
  <2>17. ASSUME t \in Pool, PoolTake(t) PROVE Inv'
    BY <2>17, PoolTakeKeeps
  <2> QED
    BY <1>3, <2>1, <2>2, <2>3, <2>4, <2>5, <2>6, <2>7, <2>8, <2>9, <2>10, <2>11, <2>12,
       <2>13,
       <2>14, <2>15, <2>16, <2>17 DEF Step
<1> QED
  BY <1>1, <1>2, <1>3 DEF Next

\* The inductive invariant holds in every behaviour of the engine: each Node has
\* one NodeTask, on its way from a queue to evaluate_function, counted once.
THEOREM EngineInvariant == Spec => []Inv
<1>1. Init => Inv
  BY InitHolds
<1>2. Inv /\ [Next]_vars => Inv'
  BY NextKeeps
<1> QED
  BY <1>1, <1>2, PTL DEF Spec

-----------------------------------------------------------------------------
(* What follows from it.                                                   *)

\* max_recursion_depth_ is what the constructor made it.
LEMMA DepthFixed == Spec => [](maxDepth \in Nat)
<1>1. Init => maxDepth \in Nat
  BY EngineAssumption DEF Init, EngineAssumption
<1>2. maxDepth \in Nat /\ [Next]_vars => (maxDepth \in Nat)'
  BY DEF Next, vars
<1> QED
  BY <1>1, <1>2, PTL DEF Spec

\* The invariant counts the NodeTasks and gives the types.
LEMMA ExactOutstanding ==
  ASSUME Inv, maxDepth \in Nat
  PROVE  OutstandingExact
<1>i. Typed /\ Counted
  BY DEF Inv
<1>1. \A t \in Threads : \A i \in 1..Depth(t) : frames[t][i] \in FrameSet
  BY <1>i, ActsFacts
<1>2. TypeOK
  BY <1>i, <1>1 DEF TypeOK, Typed, FrameSet, ItemSet
<1> QED
  BY <1>i, <1>2 DEF OutstandingExact, Counted

\* A Node that is not evaluated is still expected by the next functions.
LEMMA StillExpected ==
  ASSUME Inv, NEW n \in Nodes \ evaluated, NEW m \in Succs(n)
  PROVE  dependencies[m] > 0
<1>1. m \in Nodes /\ n \in Preds(m)
  <2>1. m \in Nodes
    BY DEF Succs
  <2> QED
    BY <2>1, GraphFacts
<1>2. PICK S : S = Preds(m) \ Fed
  OBVIOUS
<1>3. n \in S
  BY <1>1, <1>2 DEF Fed
<1>4. IsFiniteSet(S)
  <2>1. IsFiniteSet(Preds(m)) /\ S \in SUBSET Preds(m)
    BY <1>1, <1>2, GraphFacts
  <2> QED
    BY <2>1, FS_Subset
<1>5. Cardinality(S) \in Nat /\ Cardinality(S) # 0
  BY <1>3, <1>4, FS_EmptySet, FS_CardinalityType
<1>6. dependencies[m] = Cardinality(S)
  BY <1>1, <1>2 DEF Inv, Graph
<1> QED
  BY <1>5, <1>6

\* A NodeTask is held or queued only with all its inputs.
LEMMA InputsThere ==
  ASSUME Inv
  PROVE  AllInputsAccumulated
<1>i. Typed /\ Shape /\ Items
  BY DEF Inv
<1>1. ASSUME NEW t \in Threads, NEW i \in 1..Depth(t), frames[t][i].pc = "eval"
      PROVE  /\ frames[t][i].inputs = Preds(frames[t][i].fn)
             /\ frames[t][i].fn \notin evaluated
             /\ \A m \in Succs(frames[t][i].fn) : dependencies[m] > 0
  <2>1. <<t, i>> \in DOMAIN Acts /\ Acts[<<t, i>>] = frames[t][i]
    BY <1>i, ActsFacts
  <2>2. FrameOK(frames[t][i])
    <3>1. FrameOK(Acts[<<t, i>>])
      BY <1>i, <2>1 DEF Shape
    <3> QED
      BY <2>1, <3>1
  <2>3. TokenOK(frames[t][i])
    BY <1>1, <2>2 DEF FrameOK, Token
  <2>4. frames[t][i].fn \in Nodes \ evaluated /\ frames[t][i].inputs = Preds(frames[t][i].fn)
    BY <2>3 DEF TokenOK
  <2>5. \A m \in Succs(frames[t][i].fn) : dependencies[m] > 0
    BY <2>4, StillExpected
  <2> QED
    BY <2>4, <2>5
<1>2. ASSUME NEW q \in Queues, NEW i \in queue[q], i.fn \in Nodes
      PROVE  i.inputs = Preds(i.fn) /\ i.fn \notin evaluated
  <2>1. <<q, i>> \in Entries
    BY <1>i, EntriesFacts
  <2>2. ItemOK(<<q, i>>[2])
    BY <1>i, <2>1 DEF Items
  <2>3. <<q, i>>[2] = i
    OBVIOUS
  <2> QED
    BY <1>2, <2>2, <2>3 DEF ItemOK, TokenOK
<1> QED
  BY <1>1, <1>2 DEF AllInputsAccumulated

\* outstanding_tasks_ is the number of NodeTasks of the GraphTask that are queued
\* or running at every moment, for any graphs, threads and reentrant calls; and
\* it never goes below zero, nor does any of dependencies_.
THEOREM EngineOutstandingExact == Spec => []OutstandingExact
<1>1. Inv /\ maxDepth \in Nat => OutstandingExact
  BY ExactOutstanding
<1> QED
  BY <1>1, EngineInvariant, DepthFixed, PTL

\* evaluate_function runs a function once, with the gradients of all the functions
\* that feed it in its input buffer, and finds its outputs expected.
THEOREM EngineAllInputsAccumulated == Spec => []AllInputsAccumulated
<1>1. Inv => AllInputsAccumulated
  BY InputsThere
<1> QED
  BY <1>1, EngineInvariant, PTL

\* execute() returns a value only when every function that should execute did, so
\* mark_as_completed never ran early; and an error only when a function threw, so
\* exec_post_processing found no gradient left behind in not_ready_.
THEOREM EngineCompleteResult == Spec => []CompleteResult
<1>1. Inv => CompleteResult
  BY DEF Inv, TasksOK, TaskOK, AllRun, CompleteResult
<1> QED
  BY <1>1, EngineInvariant, PTL

\* Who changes the result of a GraphTask finds it pending or not there.
LEMMA FutureStep ==
  ASSUME Inv, [Next]_vars, NEW g \in Tasks, future[g] \in Done
  PROVE  future'[g] = future[g]
<1>i. Typed
  BY DEF Inv
<1>1. "pending" \notin Done /\ "none" \notin Done
  BY DEF Done
<1>2. ASSUME NEW u, NEW h \in Tasks, NEW q, NEW dev, NEW d, Start(u, h, q, dev, d)
      PROVE  future'[g] = future[g]
  <2>1. future[h] = "none" /\ future' = [future EXCEPT ![h] = "pending"]
    BY <1>2 DEF Start
  <2>2. h # g
    BY <1>1, <2>1
  <2> QED
    BY <1>i, <2>1, <2>2 DEF Typed
<1>3. ASSUME NEW t \in Threads, NEW pc \in Claim, At(t, pc)
      PROVE  Top(t).g # g
  <2>1. FrameOK(Top(t)) /\ Top(t).pc = pc
    BY <1>3, AtFacts
  <2>2. future[Top(t).g] = "pending"
    BY <2>1 DEF FrameOK
  <2> QED
    BY <1>1, <2>2
<1>4. ASSUME NEW t \in Threads, SetError(t) PROVE future'[g] = future[g]
  <2>1. At(t, "setError") /\ future' = [future EXCEPT ![Top(t).g] = "error"]
    BY <1>4 DEF SetError
  <2>2. Top(t).g # g
    BY <1>3, <2>1 DEF Claim
  <2> QED
    BY <1>i, <2>1, <2>2 DEF Typed
<1>5. ASSUME NEW t \in Threads, PostProcess(t) PROVE future'[g] = future[g]
  <2>1. /\ At(t, "post")
        /\ \E v : future' = [future EXCEPT ![Top(t).g] = v]
    BY <1>5 DEF PostProcess
  <2>2. Top(t).g # g
    BY <1>3, <2>1 DEF Claim
  <2> QED
    BY <1>i, <2>1, <2>2 DEF Typed
<1>6. ASSUME NEW t \in Threads, Step(t) PROVE future'[g] = future[g]
  <2>1. CASE \/ Loop(t) \/ Pop(t) \/ Resume(t) \/ Fail(t) \/ WaitFuture(t)
             \/ t \in Pool /\ (PoolWait(t) \/ PoolTake(t))
    BY <2>1 DEF Loop, Pop, Resume, Fail, WaitFuture, PoolWait, PoolTake, taskVars
  <2>2. CASE \/ Capture(t) \/ Outputs(t) \/ SetException(t) \/ Decrement(t) \/ Completed(t)
             \/ WakeOwner(t)
    BY <2>2 DEF Capture, Outputs, SetException, Decrement, Completed, WakeOwner
  <2>3. CASE \E h \in Tasks : ExecuteNested(t, h) \/ ExecuteOnPool(t, h)
    <3>1. PICK h \in Tasks : Start(t, h, LocalQueue(t), WorkerDevice(t), TotalDepth(t) + 1)
      BY <2>3 DEF ExecuteNested, ExecuteOnPool
    <3> QED
      BY <1>2, <3>1
  <2> QED
    BY <1>4, <1>5, <1>6, <2>1, <2>2, <2>3 DEF Step
<1>7. ASSUME NEW u \in Users, NEW h \in Tasks, Execute(u, h) PROVE future'[g] = future[g]
  <2>1. Start(u, h, u, CPU, 0)
    BY <1>7 DEF Execute
  <2> QED
    BY <1>2, <2>1
<1>8. CASE UNCHANGED vars
  BY <1>8 DEF vars, engineVars, taskVars
<1> QED
  BY <1>6, <1>7, <1>8 DEF Next

\* future_result_ is completed once: mark_as_completed_and_run_post_processing and
\* set_exception never both write it, whatever order the threads come in.
THEOREM EngineResultIsFinal == Spec => ResultIsFinal
<1>1. Inv /\ [Next]_vars =>
        [\A g \in Tasks : future[g] \in Done => future'[g] = future[g]]_vars
  BY FutureStep
<1> QED
  BY <1>1, EngineInvariant, PTL DEF Spec, ResultIsFinal

-----------------------------------------------------------------------------
(* The threads of the reentrant pool.                                      *)

\* The pool threads that will take a GraphTask.
Waiting == {p \in Pool : pool[p] \in {"new", "idle"}}

\* The idle threads are among those that will take a GraphTask.
LEMMA WaitingFinite ==
  /\ IsFiniteSet(Waiting) /\ Cardinality(Waiting) \in Nat
  /\ IsFiniteSet(Idle) /\ Cardinality(Idle) \in Nat /\ Cardinality(Idle) \leq Cardinality(Waiting)
<1>1. Waiting \in SUBSET Pool /\ Idle \in SUBSET Waiting
  BY DEF Waiting, Idle
<1>2. IsFiniteSet(Waiting)
  BY <1>1, EngineAssumption, FS_Subset
<1>3. IsFiniteSet(Idle) /\ Cardinality(Idle) \leq Cardinality(Waiting)
  BY <1>1, <1>2, FS_Subset
<1> QED
  BY <1>2, <1>3, FS_CardinalityType

\* A thread that returns to the pool.
LEMMA WaitingGrows ==
  ASSUME Waiting \subseteq Waiting', graphtasks' = graphtasks, Typed, PoolSuffices
  PROVE  PoolSuffices'
<1>1. IsFiniteSet(Waiting') /\ Waiting \in SUBSET Waiting'
  <2>1. Waiting' \in SUBSET Pool
    BY DEF Waiting
  <2> QED
    BY <2>1, EngineAssumption, FS_Subset
<1>2. Cardinality(Waiting) \leq Cardinality(Waiting')
  BY <1>1, FS_Subset
<1>3. Cardinality(Waiting) \in Nat /\ Cardinality(Waiting') \in Nat
  BY <1>1, WaitingFinite, FS_CardinalityType
<1>4. Len(graphtasks) \in Nat /\ Len(graphtasks) \leq Cardinality(Waiting)
  BY DEF Typed, PoolSuffices, Waiting
<1>5. Len(graphtasks') \leq Cardinality(Waiting')
  BY <1>2, <1>3, <1>4
<1> QED
  BY <1>5 DEF PoolSuffices, Waiting

\* add_thread_pool_task creates a thread unless enough of them are idle.
LEMMA AddPoolTask ==
  ASSUME Typed, PoolSuffices, NEW t, NEW g, ExecuteOnPool(t, g)
  PROVE  PoolSuffices'
<1>1. /\ Len(graphtasks) \in Nat /\ Len(graphtasks) \leq Cardinality(Waiting)
      /\ Len(graphtasks') = Len(graphtasks) + 1
  BY DEF Typed, PoolSuffices, Waiting, ExecuteOnPool
<1>2. /\ IsFiniteSet(Waiting) /\ Cardinality(Waiting) \in Nat
      /\ Cardinality(Idle) \in Nat /\ Cardinality(Idle) \leq Cardinality(Waiting)
  BY WaitingFinite
<1>3. CASE CreateThread
  <2>1. PICK p \in Pool : pool[p] = "none" /\ pool' = [pool EXCEPT ![p] = "new"]
    BY <1>3 DEF ExecuteOnPool
  <2>2. Waiting' = Waiting \cup {p} /\ p \notin Waiting
    BY <2>1 DEF Waiting, Typed
  <2>3. Cardinality(Waiting \cup {p}) = Cardinality(Waiting) + 1
    BY <1>2, <2>2, FS_AddElement
  <2>4. Len(graphtasks') \leq Cardinality(Waiting')
    BY <1>1, <1>2, <2>2, <2>3
  <2> QED
    BY <2>4 DEF PoolSuffices, Waiting
<1>4. CASE ~CreateThread
  <2>1. pool' = pool
    BY <1>4 DEF ExecuteOnPool
  <2>2. Waiting' = Waiting
    BY <2>1 DEF Waiting
  <2>3. ~(Cardinality(Idle) \leq Len(graphtasks))
    BY <1>4 DEF CreateThread
  <2>4. Len(graphtasks') \leq Cardinality(Waiting')
    BY <1>1, <1>2, <2>2, <2>3
  <2> QED
    BY <2>4 DEF PoolSuffices, Waiting
<1> QED
  BY <1>3, <1>4

\* The thread that takes a GraphTask leaves one fewer behind.
LEMMA TakePoolTask ==
  ASSUME Typed, PoolSuffices, NEW p \in Pool, PoolTake(p)
  PROVE  PoolSuffices'
<1>1. /\ Len(graphtasks) \in Nat /\ Len(graphtasks) \leq Cardinality(Waiting)
      /\ Len(graphtasks') = Len(graphtasks) - 1
  BY DEF Typed, PoolSuffices, Waiting, PoolTake
<1>2. IsFiniteSet(Waiting) /\ Cardinality(Waiting) \in Nat
  BY WaitingFinite
<1>3. /\ pool[p] = "idle"
      /\ pool' = [pool EXCEPT ![p] = "busy"] \/ pool' = [pool EXCEPT ![p] = "new"]
  BY DEF PoolTake
<1>4. p \in Waiting
  BY <1>3 DEF Waiting
<1>5. CASE pool' = [pool EXCEPT ![p] = "busy"]
  <2>1. Waiting' = Waiting \ {p}
    BY <1>5 DEF Waiting, Typed
  <2>2. Cardinality(Waiting \ {p}) = Cardinality(Waiting) - 1
    BY <1>2, <1>4, FS_RemoveElement
  <2>3. Len(graphtasks') \leq Cardinality(Waiting')
    BY <1>1, <1>2, <2>1, <2>2
  <2> QED
    BY <2>3 DEF PoolSuffices, Waiting
<1>6. CASE pool' = [pool EXCEPT ![p] = "new"]
  <2>1. Waiting' = Waiting
    BY <1>3, <1>6 DEF Waiting, Typed
  <2>2. Len(graphtasks') \leq Cardinality(Waiting')
    BY <1>1, <1>2, <2>1
  <2> QED
    BY <2>2 DEF PoolSuffices, Waiting
<1> QED
  BY <1>3, <1>5, <1>6

\* Every step leaves enough threads in the pool.
LEMMA PoolNext ==
  ASSUME Typed, PoolSuffices, [Next]_vars
  PROVE  PoolSuffices'
<1>1. ASSUME pool' = pool, graphtasks' = graphtasks PROVE PoolSuffices'
  BY <1>1 DEF PoolSuffices
<1>2. ASSUME NEW t \in Threads, Step(t) PROVE PoolSuffices'
  <2>1. CASE \/ Pop(t) \/ Capture(t) \/ Resume(t) \/ Fail(t) \/ SetException(t) \/ SetError(t)
             \/ Decrement(t)
    BY <1>1, <2>1 DEF Pop, Capture, Resume, Fail, SetException, SetError, Decrement
  <2>2. CASE \/ Outputs(t) \/ Completed(t) \/ PostProcess(t) \/ WaitFuture(t) \/ WakeOwner(t)
             \/ \E g \in Tasks : ExecuteNested(t, g)
    BY <1>1, <2>2 DEF Outputs, Completed, PostProcess, WaitFuture, WakeOwner, ExecuteNested
  <2>3. CASE Loop(t)
    <3>1. graphtasks' = graphtasks
      BY <2>3 DEF Loop
    <3>2. pool' = pool \/ (t \in Pool /\ pool' = [pool EXCEPT ![t] = "new"])
      BY <2>3 DEF Loop
    <3>3. Waiting \subseteq Waiting'
      BY <3>2 DEF Waiting, Typed
    <3> QED
      BY <3>1, <3>3, WaitingGrows
  <2>4. CASE \E g \in Tasks : ExecuteOnPool(t, g)
    BY <2>4, AddPoolTask
  <2>5. CASE t \in Pool /\ PoolWait(t)
    <3>1. graphtasks' = graphtasks /\ pool' = [pool EXCEPT ![t] = "idle"]
      BY <2>5 DEF PoolWait
    <3>2. Waiting \subseteq Waiting'
      BY <3>1 DEF Waiting, Typed
    <3> QED
      BY <3>1, <3>2, WaitingGrows
  <2>6. CASE t \in Pool /\ PoolTake(t)
    BY <2>6, TakePoolTask
  <2> QED
    BY <1>2, <2>1, <2>2, <2>3, <2>4, <2>5, <2>6 DEF Step
<1>3. ASSUME NEW u \in Users, NEW g \in Tasks, Execute(u, g) PROVE PoolSuffices'
  BY <1>1, <1>3 DEF Execute
<1>4. CASE UNCHANGED vars
  BY <1>1, <1>4 DEF vars, engineVars
<1> QED
  BY <1>2, <1>3, <1>4 DEF Next

\* add_thread_pool_task: counting the idle threads under the pool's mutex is
\* enough for every GraphTask in graphtasks_queue_ to have a thread that comes for
\* it, however many reentrant calls reach the maximum depth at once.
THEOREM EnginePoolSuffices == Spec => []PoolSuffices
<1>1. Init => PoolSuffices
  <2> SUFFICES ASSUME Init PROVE PoolSuffices
    OBVIOUS
  <2>1. Len(graphtasks) = 0
    BY DEF Init
  <2>2. Cardinality(Waiting) \in Nat
    BY WaitingFinite
  <2> QED
    BY <2>1, <2>2 DEF PoolSuffices, Waiting
<1>2. Typed /\ PoolSuffices /\ [Next]_vars => PoolSuffices'
  BY PoolNext
<1>3. Inv => Typed
  BY DEF Inv
<1> QED
  BY <1>1, <1>2, <1>3, EngineInvariant, PTL DEF Spec
=============================================================================
