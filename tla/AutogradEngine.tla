--------------------------- MODULE AutogradEngine ---------------------------
(***************************************************************************)
(* The autograd engine (torch/csrc/autograd/engine.cpp): the threads that  *)
(* drive backward(), the ready queues they share and the GraphTasks they   *)
(* execute, with reentrant backward calls and functions that throw.        *)
(*                                                                         *)
(* A thread is a stack of thread_main activations.  User threads call      *)
(* execute(), a device has one thread and one ready queue for all its work *)
(* and threads of the reentrant pool take over the queue of a thread that  *)
(* is too deep.  Atomic operations and critical sections are the steps.    *)
(***************************************************************************)
EXTENDS Naturals, Sequences, FiniteSets

CONSTANTS
  Users, Devices, Pool,  \* user threads, device threads, reentrant pool threads
  CPU,                   \* CPU_DEVICE
  None,
  Nodes, Edges,          \* the graphs: next_edges of every Node
  Tasks,                 \* the GraphTasks, one for each call of execute()
  TaskOf, Root,          \* the GraphTask a Node belongs to, and its graph_root
  Origin,                \* the user thread, or the Node, that calls execute()
  Device,                \* the device of a Node's input buffer
  SequenceNr,            \* sequence_nr() of a Node
  Needed, Captured,      \* exec_info_: needed_ and captures_
  MayThrow,              \* Nodes whose function may throw
  Calls                  \* for each max_recursion_depth_, the GraphTasks user threads start

Threads == Users \cup Devices \cup Pool
Queues == Users \cup Devices

Done == {"value", "error"}
ShouldExecute == Needed \cup Captured

Preds(n) == {m \in Nodes : <<m, n>> \in Edges}
Succs(n) == {m \in Nodes : <<n, m>> \in Edges}

ASSUME EngineAssumption ==
  /\ IsFiniteSet(Nodes) /\ IsFiniteSet(Devices) /\ IsFiniteSet(Pool)
  /\ Users \cap Devices = {} /\ Pool \cap Queues = {} /\ Nodes \cap Threads = {}
  /\ Edges \subseteq Nodes \X Nodes
  /\ TaskOf \in [Nodes -> Tasks] /\ Root \in [Tasks -> Nodes]
  /\ \A e \in Edges : TaskOf[e[1]] = TaskOf[e[2]]
  /\ \A g \in Tasks : TaskOf[Root[g]] = g /\ Origin[g] \in Users \cup Nodes
  \* A graph has no cycle, and its Nodes are what its graph_root leads to.
  /\ \A S \in SUBSET Nodes : S # {} => \E n \in S : Preds(n) \cap S = {}
  /\ \A n \in Nodes : Preds(n) = {} <=> n = Root[TaskOf[n]]
  /\ \A n \in Nodes : Device[n] \in Devices \cup {CPU}
  /\ Needed \cup Captured \subseteq Nodes
  \* init_to_execute: what leads to a Node that should execute is needed.
  /\ \A e \in Edges : e[2] \in ShouldExecute => e[1] \in Needed
  /\ DOMAIN Calls \subseteq Nat
  /\ None \notin Tasks \cup Nodes

VARIABLES
  maxDepth,     \* max_recursion_depth_, set when the Engine is constructed
  frames,       \* the thread_main activations of each thread
  queue,        \* the ReadyQueues: the local one of each user, one per device
  pool,         \* state of each pool thread
  graphtasks,   \* graphtasks_queue_ of the pool
  \* GraphTask
  outstanding,  \* outstanding_tasks_
  hasError,     \* has_error_
  claimed,      \* future_completed_
  future,       \* future_result_
  owner,        \* owner_
  cpuQueue,     \* cpu_ready_queue_
  depth,        \* reentrant_depth_
  dependencies, \* dependencies_
  notReady,     \* not_ready_: the gradients accumulated for a Node, by producer
  evaluated     \* Nodes whose function was evaluated or captured

taskVars == <<outstanding, hasError, claimed, future, owner, cpuQueue, depth,
              dependencies, notReady, evaluated>>
engineVars == <<frames, queue, pool, graphtasks, taskVars>>
vars == <<maxDepth, engineVars>>

\* The GraphTask that the function of n executes, if it is reentrant.
Children(n) == {g \in Tasks : Origin[g] = n}

\* An activation of thread_main(task): its NodeTask is of GraphTask g.
Frame(task) == [task |-> task, pc |-> "loop", g |-> None, fn |-> None, inputs |-> {}]

\* A NodeTask; fn is a Node, or the thread that pushed a dummy task.
Item(g, fn, inputs) == [g |-> g, fn |-> fn, inputs |-> inputs]

Init ==
  /\ maxDepth \in DOMAIN Calls
  /\ frames = [t \in Threads |-> IF t \in Devices THEN <<Frame(None)>> ELSE <<>>]
  /\ queue = [q \in Queues |-> {}]
  /\ pool = [p \in Pool |-> "none"]
  /\ graphtasks = <<>>
  /\ outstanding = [g \in Tasks |-> 0]
  /\ hasError = [g \in Tasks |-> FALSE]
  /\ claimed = [g \in Tasks |-> FALSE]
  /\ future = [g \in Tasks |-> "none"]
  /\ owner = [g \in Tasks |-> None]
  /\ cpuQueue = [g \in Tasks |-> None]
  /\ depth = [g \in Tasks |-> 0]
  /\ dependencies = [n \in Nodes |-> Cardinality(Preds(n))]
  /\ notReady = [n \in Nodes |-> {}]
  /\ evaluated = {}

-----------------------------------------------------------------------------
Depth(t) == Len(frames[t])
Top(t) == frames[t][Depth(t)]
At(t, pc) == Depth(t) > 0 /\ Top(t).pc = pc

SetTop(t, f) == frames' = [frames EXCEPT ![t][Depth(t)] = f]
Goto(t, pc) == SetTop(t, [Top(t) EXCEPT !.pc = pc])

\* ready_queue_by_index, and ready_queue for the device of an input buffer.
ReadyQueue(cpuq, dev) == IF dev = CPU THEN cpuq ELSE dev

\* worker_device and local_ready_queue: a pool thread takes both from the
\* GraphTask it was woken for.
WorkerDevice(t) ==
  CASE t \in Users -> CPU
    [] t \in Devices -> t
    [] t \in Pool -> owner[frames[t][1].task]
LocalQueue(t) ==
  IF t \in Pool
  THEN LET g == frames[t][1].task IN ReadyQueue(cpuQueue[g], owner[g])
  ELSE t

\* current_depth and total_depth of a thread.
CurrentDepth(t) == Depth(t) - 1
TotalDepth(t) == CurrentDepth(t) + IF t \in Pool THEN depth[frames[t][1].task] ELSE 0

\* base_.lock() succeeds: some thread still holds the GraphTask.
Valid(g) ==
  \E t \in Threads : \E i \in 1..Depth(t) :
    LET f == frames[t][i] IN
    f.task = g \/ f.g = g \/ (f.pc = "calling" /\ Origin[g] = f.fn)

\* The queue of a NodeTask: that of its device, a dummy's is that of the owner.
QueueFor(g, i) ==
  ReadyQueue(cpuQueue'[g], IF i.fn \in Nodes THEN Device[i.fn] ELSE owner'[g])

\* Mutant: a dummy task is not counted.
PushDummyFree(g, P) ==
  /\ queue' = [q \in Queues |->
                 queue[q] \cup {i \in P : QueueFor(g, i) = q}]
  /\ outstanding' = [outstanding EXCEPT ![g] = @ + Cardinality({i \in P : i.fn \in Nodes})]

\* ReadyQueue::push of the items P of GraphTask g.
Push(g, P) ==
  /\ queue' = [q \in Queues |->
                 queue[q] \cup {i \in P : QueueFor(g, i) = q}]
  /\ outstanding' = [outstanding EXCEPT ![g] = @ + Cardinality(P)]

\* CompareNodeTaskTime: i may be popped before j.
Before(i, j) ==
  \/ i.fn \notin Nodes
  \/ /\ j.fn \in Nodes
     /\ \/ depth[i.g] > depth[j.g]
        \/ depth[i.g] = depth[j.g] /\ SequenceNr[i.fn] \geq SequenceNr[j.fn]

\* heap_.top().  getReentrantDepth() of a queued NodeTask grows when its GraphTask
\* expires; the heap is not rebuilt, so only the place of dummies is then certain.
Front(items) ==
  {i \in items : \A j \in items :
     Before(i, j) \/ (j.fn \in Nodes /\ \E k \in items : ~Valid(k.g))}

-----------------------------------------------------------------------------
(* execute().                                                              *)

\* execute_with_graph_task up to the push of the root.
Start(t, g, local, dev, d) ==
  /\ future[g] = "none"
  /\ future' = [future EXCEPT ![g] = "pending"]
  /\ owner' = [owner EXCEPT ![g] = dev]
  /\ cpuQueue' = [cpuQueue EXCEPT ![g] = local]
  /\ depth' = [depth EXCEPT ![g] = d]
  /\ Push(g, {Item(g, Root[g], {})})
  /\ UNCHANGED <<hasError, claimed, dependencies, notReady, evaluated>>

\* A user thread calls backward().
Execute(u, g) ==
  /\ frames[u] = <<>> /\ Origin[g] = u /\ g \in Calls[maxDepth]
  /\ Start(u, g, u, CPU, 0)
  /\ frames' = [frames EXCEPT ![u] = <<Frame(g)>>]
  /\ UNCHANGED <<pool, graphtasks>>

\* A function that is being evaluated calls backward() in its thread.
ExecuteNested(t, g) ==
  /\ At(t, "eval") /\ Top(t).fn \in Needed /\ Origin[g] = Top(t).fn
  /\ CurrentDepth(t) < maxDepth
  /\ Start(t, g, LocalQueue(t), WorkerDevice(t), TotalDepth(t) + 1)
  /\ frames' = [frames EXCEPT ![t] =
                  Append([@ EXCEPT ![Depth(t)].pc = "calling"], Frame(g))]
  /\ UNCHANGED <<pool, graphtasks>>

Idle == {p \in Pool : pool[p] = "idle"}

\* Mutant: as many idle threads as GraphTasks that wait for them.
CreateThreadLess == Cardinality(Idle) < Len(graphtasks)

\* create_thread of add_thread_pool_task.
CreateThread == Cardinality(Idle) \leq Len(graphtasks)

\* At the maximum depth: add_thread_pool_task, and the thread waits.
ExecuteOnPool(t, g) ==
  /\ At(t, "eval") /\ Top(t).fn \in Needed /\ Origin[g] = Top(t).fn
  /\ CurrentDepth(t) \geq maxDepth
  /\ Start(t, g, LocalQueue(t), WorkerDevice(t), TotalDepth(t) + 1)
  /\ Goto(t, "calling")
  /\ graphtasks' = Append(graphtasks, g)
  /\ IF CreateThread
     THEN \E p \in Pool : pool[p] = "none" /\ pool' = [pool EXCEPT ![p] = "new"]
     ELSE UNCHANGED pool

\* reentrant_thread_init: the thread counts itself in num_workers_ and waits.
PoolWait(p) ==
  /\ pool[p] = "new"
  /\ pool' = [pool EXCEPT ![p] = "idle"]
  /\ UNCHANGED <<frames, queue, graphtasks, taskVars>>

\* ... then takes a GraphTask, unless it has expired.
PoolTake(p) ==
  /\ pool[p] = "idle" /\ graphtasks # <<>>
  /\ graphtasks' = Tail(graphtasks)
  /\ IF Valid(Head(graphtasks))
     THEN /\ pool' = [pool EXCEPT ![p] = "busy"]
          /\ frames' = [frames EXCEPT ![p] = <<Frame(Head(graphtasks))>>]
     ELSE pool' = [pool EXCEPT ![p] = "new"] /\ UNCHANGED frames
  /\ UNCHANGED <<queue, taskVars>>

-----------------------------------------------------------------------------
(* thread_main.                                                            *)

\* The loop condition: leave when the GraphTask of this activation is complete.
Loop(t) ==
  /\ At(t, "loop")
  /\ IF Top(t).task # None /\ future[Top(t).task] \in Done
     THEN /\ frames' = [frames EXCEPT ![t] = SubSeq(@, 1, Depth(t) - 1)]
          /\ pool' = IF t \in Pool /\ Depth(t) = 1 THEN [pool EXCEPT ![t] = "new"] ELSE pool
     ELSE Goto(t, "pop") /\ UNCHANGED pool
  /\ UNCHANGED <<queue, graphtasks, taskVars>>

\* ReadyQueue::pop, and what is skipped: expired GraphTasks, dummies, errors.
Pop(t) ==
  /\ At(t, "pop")
  /\ \E i \in Front(queue[LocalQueue(t)]) :
       /\ queue' = [queue EXCEPT ![LocalQueue(t)] = @ \ {i}]
       /\ IF Valid(i.g)
          THEN SetTop(t, [Top(t) EXCEPT
                 !.pc = IF i.fn \in Nodes /\ ~hasError[i.g] THEN "eval" ELSE "dec",
                 !.g = i.g, !.fn = i.fn, !.inputs = i.inputs])
          ELSE Goto(t, "loop")
  /\ UNCHANGED <<pool, graphtasks, taskVars>>

\* evaluate_function of a Node that is captured and not needed.
Capture(t) ==
  /\ At(t, "eval") /\ Top(t).fn \notin Needed
  /\ evaluated' = evaluated \cup {Top(t).fn}
  /\ Goto(t, "dec")
  /\ UNCHANGED <<queue, pool, graphtasks, outstanding, hasError, claimed, future, owner,
                 cpuQueue, depth, dependencies, notReady>>

\* execute() of the reentrant call returns to the function, or throws in it.
Resume(t) ==
  /\ At(t, "calling")
  /\ \E g \in Children(Top(t).fn) :
       /\ future[g] \in Done
       /\ Goto(t, IF future[g] = "value" THEN "outputs" ELSE "throw")
  /\ UNCHANGED <<queue, pool, graphtasks, taskVars>>

\* Mutant: a function is ready with its first input.
ReadyAny(n) == Succs(n) \cap ShouldExecute

\* The next functions of n that wait for nothing else.
Ready(n) == {m \in Succs(n) \cap ShouldExecute : dependencies[m] = 1}

\* call_function returns, and the outputs go to the next functions under mutex_.
Outputs(t) ==
  LET f == Top(t)
      n == f.fn
      next == Succs(n)
      ready == Ready(n)
  IN
  /\ \/ At(t, "outputs")
     \/ At(t, "eval") /\ n \in Needed /\ Children(n) = {}
  /\ dependencies' = [m \in Nodes |-> IF m \in next THEN dependencies[m] - 1 ELSE dependencies[m]]
  /\ notReady' = [m \in Nodes |->
       CASE m \in ready -> {}
         [] m \in (next \cap ShouldExecute) \ ready -> notReady[m] \cup {n}
         [] OTHER -> notReady[m]]
  /\ evaluated' = evaluated \cup {n}
  /\ UNCHANGED <<cpuQueue, owner>>
  /\ Push(f.g, {Item(f.g, m, notReady[m] \cup {n}) : m \in ready})
  /\ Goto(t, "dec")
  /\ UNCHANGED <<pool, graphtasks, hasError, claimed, future, depth>>

\* call_function throws.
Fail(t) ==
  /\ At(t, "eval") /\ Top(t).fn \in MayThrow
  /\ Goto(t, "throw")
  /\ UNCHANGED <<queue, pool, graphtasks, taskVars>>

\* GraphTask::set_exception: the first to claim the future completes it ...
SetException(t) ==
  /\ At(t, "throw")
  /\ hasError' = [hasError EXCEPT ![Top(t).g] = TRUE]
  /\ claimed' = [claimed EXCEPT ![Top(t).g] = TRUE]
  /\ Goto(t, IF claimed[Top(t).g] THEN "dec" ELSE "setError")
  /\ UNCHANGED <<queue, pool, graphtasks, outstanding, future, owner, cpuQueue, depth,
                 dependencies, notReady, evaluated>>

\* ... with the exception.
SetError(t) ==
  /\ At(t, "setError")
  /\ future' = [future EXCEPT ![Top(t).g] = "error"]
  /\ Goto(t, "dec")
  /\ UNCHANGED <<queue, pool, graphtasks, outstanding, hasError, claimed, owner, cpuQueue,
                 depth, dependencies, notReady, evaluated>>

\* --outstanding_tasks_
Decrement(t) ==
  /\ At(t, "dec")
  /\ outstanding' = [outstanding EXCEPT ![Top(t).g] = @ - 1]
  /\ Goto(t, "check")
  /\ UNCHANGED <<queue, pool, graphtasks, hasError, claimed, future, owner, cpuQueue, depth,
                 dependencies, notReady, evaluated>>

\* Mutant: the last NodeTask is still running.
IsCompletedEarly(g) == outstanding[g] \leq 1

\* GraphTask::completed(), with exit_on_error_ false as execute() makes it.
IsCompleted(g) == outstanding[g] = 0

\* Mutant: no exchange, every thread that sees it completed completes the future.
CompletedAlways(t) ==
  /\ At(t, "check")
  /\ IF IsCompleted(Top(t).g)
     THEN /\ claimed' = [claimed EXCEPT ![Top(t).g] = TRUE]
          /\ Goto(t, "post")
     ELSE SetTop(t, Frame(Top(t).task)) /\ UNCHANGED claimed
  /\ UNCHANGED <<queue, pool, graphtasks, outstanding, hasError, future, owner, cpuQueue,
                 depth, dependencies, notReady, evaluated>>

\* completed(), and the exchange of mark_as_completed_and_run_post_processing.
Completed(t) ==
  /\ At(t, "check")
  /\ IF IsCompleted(Top(t).g)
     THEN /\ claimed' = [claimed EXCEPT ![Top(t).g] = TRUE]
          /\ Goto(t, IF claimed[Top(t).g] THEN "waitFuture" ELSE "post")
     ELSE SetTop(t, Frame(Top(t).task)) /\ UNCHANGED claimed
  /\ UNCHANGED <<queue, pool, graphtasks, outstanding, hasError, future, owner, cpuQueue,
                 depth, dependencies, notReady, evaluated>>

\* exec_post_processing throws if a Node is not ready; then the future completes.
PostProcess(t) ==
  LET g == Top(t).g IN
  /\ At(t, "post")
  /\ future' = [future EXCEPT ![g] =
       IF \E n \in Nodes : TaskOf[n] = g /\ notReady[n] # {} THEN "error" ELSE "value"]
  /\ Goto(t, "wake")
  /\ UNCHANGED <<queue, pool, graphtasks, outstanding, hasError, claimed, owner, cpuQueue,
                 depth, dependencies, notReady, evaluated>>

\* The other threads that see it completed wait for the future.
WaitFuture(t) ==
  /\ At(t, "waitFuture") /\ future[Top(t).g] \in Done
  /\ Goto(t, "wake")
  /\ UNCHANGED <<queue, pool, graphtasks, taskVars>>

\* Mutant: the owner is left to itself.
WakeOwnerNever(t) ==
  /\ At(t, "wake")
  /\ SetTop(t, Frame(Top(t).task))
  /\ UNCHANGED <<queue, pool, graphtasks, taskVars>>

\* A dummy task for the owner's queue, unless this thread works for that device.
WakeOwner(t) ==
  LET g == Top(t).g IN
  /\ At(t, "wake")
  /\ UNCHANGED <<cpuQueue, owner>>
  /\ IF WorkerDevice(t) # owner[g]
     THEN Push(g, {Item(g, t, {})})
     ELSE UNCHANGED <<queue, outstanding>>
  /\ SetTop(t, Frame(Top(t).task))
  /\ UNCHANGED <<pool, graphtasks, hasError, claimed, future, depth, dependencies, notReady,
                 evaluated>>

-----------------------------------------------------------------------------
Step(t) ==
  \/ Loop(t) \/ Pop(t) \/ Capture(t) \/ Resume(t) \/ Outputs(t) \/ Fail(t)
  \/ SetException(t) \/ SetError(t) \/ Decrement(t) \/ Completed(t)
  \/ PostProcess(t) \/ WaitFuture(t) \/ WakeOwner(t)
  \/ \E g \in Tasks : ExecuteNested(t, g) \/ ExecuteOnPool(t, g)
  \/ t \in Pool /\ (PoolWait(t) \/ PoolTake(t))

Next ==
  /\ \/ \E u \in Users, g \in Tasks : Execute(u, g)
     \/ \E t \in Threads : Step(t)
  /\ UNCHANGED maxDepth

\* Step(t) is enabled: t is in an activation and waits neither for a NodeTask nor for
\* another thread to complete a future, or it is a pool thread with something to do.
Runnable(t) ==
  \/ Depth(t) > 0 /\ Top(t).pc \notin {"pop", "calling", "waitFuture"}
  \/ At(t, "pop") /\ queue[LocalQueue(t)] # {}
  \/ At(t, "calling") /\ \E g \in Children(Top(t).fn) : future[g] \in Done
  \/ At(t, "waitFuture") /\ future[Top(t).g] \in Done
  \/ t \in Pool /\ (pool[t] = "new" \/ (pool[t] = "idle" /\ graphtasks # <<>>))

\* Weak fairness of every thread, with the enabling condition of Step(t) written
\* out: threads run, and functions and hooks return.
Fairness == \A t \in Threads : []<>~Runnable(t) \/ []<><<Step(t)>>_engineVars

Spec == Init /\ [][Next]_vars /\ Fairness

\* The same with ENABLED: dearer to check, and the reference for Runnable.
WeaklyFairSpec == Init /\ [][Next]_vars /\ \A t \in Threads : WF_engineVars(Step(t))

-----------------------------------------------------------------------------
PCs == {"loop", "pop", "eval", "calling", "outputs", "throw", "setError", "dec", "check",
        "post", "waitFuture", "wake"}

\* The types; in particular no counter of a GraphTask goes below zero.
TypeOK ==
  /\ maxDepth \in Nat
  /\ \A t \in Threads : \A i \in 1..Depth(t) :
       frames[t][i] \in [task : Tasks \cup {None}, pc : PCs, g : Tasks \cup {None},
                         fn : Nodes \cup Threads \cup {None}, inputs : SUBSET Nodes]
  /\ queue \in [Queues -> SUBSET [g : Tasks, fn : Nodes \cup Threads, inputs : SUBSET Nodes]]
  /\ pool \in [Pool -> {"none", "new", "idle", "busy"}]
  /\ graphtasks \in Seq(Tasks)
  /\ outstanding \in [Tasks -> Nat]
  /\ hasError \in [Tasks -> BOOLEAN] /\ claimed \in [Tasks -> BOOLEAN]
  /\ future \in [Tasks -> {"none", "pending"} \cup Done]
  /\ owner \in [Tasks -> Devices \cup {CPU, None}]
  /\ cpuQueue \in [Tasks -> Queues \cup {None}]
  /\ depth \in [Tasks -> Nat]
  /\ dependencies \in [Nodes -> Nat]
  /\ notReady \in [Nodes -> SUBSET Nodes]
  /\ evaluated \subseteq Nodes

\* NodeTasks of g popped and not yet given back by --outstanding_tasks_.
Unfinished == {"eval", "calling", "outputs", "throw", "setError", "dec"}
Activations == UNION {{t} \X (1..Depth(t)) : t \in Threads}
Running(g) ==
  {a \in Activations :
     LET f == frames[a[1]][a[2]] IN f.g = g /\ f.pc \in Unfinished}

\* NodeTasks of g in a ReadyQueue.
Entries == UNION {{q} \X queue[q] : q \in Queues}
Queued(g) == {e \in Entries : e[2].g = g}

\* outstanding_tasks_ counts the NodeTasks that are queued or running, at every
\* moment: the completion test can trust it, and no counter goes below zero.
OutstandingExact ==
  /\ TypeOK
  /\ \A g \in Tasks :
       Valid(g) => outstanding[g] = Cardinality(Queued(g)) + Cardinality(Running(g))

\* A function is evaluated once, and only when every function that feeds it has
\* added its gradient to the input buffer; its own outputs are always expected
\* (evaluate_function never throws "dependency not found").
AllInputsAccumulated ==
  /\ \A t \in Threads : \A i \in 1..Depth(t) :
       LET f == frames[t][i] IN
       f.fn \in Nodes /\ f.pc = "eval" =>
         /\ f.inputs = Preds(f.fn) /\ f.fn \notin evaluated
         /\ \A m \in Succs(f.fn) : dependencies[m] > 0
  /\ \A q \in Queues : \A i \in queue[q] :
       i.fn \in Nodes => i.inputs = Preds(i.fn) /\ i.fn \notin evaluated

\* backward() succeeds only after every function that should execute did, and
\* it fails only if a function threw.
CompleteResult ==
  \A g \in Tasks :
    /\ future[g] = "value" => \A n \in ShouldExecute : TaskOf[n] = g => n \in evaluated
    /\ future[g] = "error" => hasError[g]

\* Every GraphTask handed to the reentrant pool has a thread that will take it.
PoolSuffices ==
  Len(graphtasks) \leq Cardinality({p \in Pool : pool[p] \in {"new", "idle"}})

\* The result of a GraphTask is set once: an error never replaces a value and a
\* late completion never hides an error.
ResultIsFinal ==
  [][\A g \in Tasks : future[g] \in Done => future'[g] = future[g]]_vars

\* backward() returns.
BackwardReturns == \A u \in Users : frames[u] # <<>> ~> frames[u] = <<>>
=============================================================================
