# PyTorch's concurrent core in TLA+

This directory is a verification project for the parts of PyTorch whose
correctness depends on the order in which threads, callbacks and messages run:
reference counting, the autograd engine, the RPC framework with its remote
references, data-parallel training and the elastic rendezvous.  Tensor kernels, code
generation and compilers are out of its scope.

All source paths below are relative to `src/pytorch/`.

## 1. Inventory

| Component | State it keeps | Operations | Hard behaviours | What makes it correct |
|---|---|---|---|---|
| `c10/util/intrusive_ptr.h` | `refcount_` and `weakcount_` of every target | copy, move, reset, lock, reclaim/release, make_weak | lock-free, two counters, `lock()` races with the last `reset_()`; fast path that skips the last decrement | no use after free, resources released once, no resurrection, no leak |
| Autograd engine (`torch/csrc/autograd/engine.cpp`) | ready queues, `GraphTask` (outstanding tasks, dependencies, not-ready buffers, future), thread stacks, reentrant pool | execute, evaluate_function, thread_main, reentrant execute, exceptions | one queue shared by several threads, reentrant backward, errors racing with completion, waking the owner | every node runs once with all its inputs; backward() returns; completion only after the last node |
| RRef protocol (`torch/csrc/distributed/rpc/rref_context.cpp`, `rref_impl.cpp`, request handlers) | owner: `owners_`, `forks_`, `pendingOwners_`; user: `pendingUsers_`, `confirmedUsers_`, `pendingChildren_`; messages in flight | remote, fork, to_here, delete, shutdown | unordered delivery, retries, timeouts, two critical sections per handler | the owner keeps the value while a user lives, forgets it after |
| RPC agents (`rpc_agent.cpp`, `tensorpipe_agent.cpp`) | retry map, pending messages, timeout map, active call counts | send, sendWithRetries, retry thread, timeout thread, join, shutdown | timeout races with a late response, retry after shutdown, distributed join | each future completes once; join returns only when nobody has calls left |
| Distributed autograd (`torch/csrc/distributed/autograd/`) | contexts, send/recv functions, known workers, dist engine | backward, cleanup broadcast, context release | cleanup racing with late messages | contexts are released on all workers |
| `ivalue::Future` (`aten/src/ATen/core/ivalue_inl.h`) | value/error, callbacks | markCompleted, setError, then, wait | callback added while the future completes | each callback runs exactly once |
| `c10::ThreadPool` (`c10/core/thread_pool.cpp`) | task queue, available threads | run, waitWorkComplete, destructor | destructor races with tasks | no task lost, completion is seen |
| DDP Reducer (`torch/csrc/distributed/c10d/reducer.cpp`) | buckets, pending counts, unused parameters | autograd_hook, mark_variable_ready, finalize_backward | hooks on several threads, bucket order, rebuild | each bucket reduced once per iteration, in the same order everywhere |
| c10d stores (`TCPStore`, `FileStore`, `HashStore`, `PrefixStore`) | key/value map, waiting keys, watch callbacks | set, get, add, wait, compareSet, watchKey | blocking waits, concurrent file access | linearizable keys; waits wake up |
| Elastic rendezvous and agent (`torch/distributed/elastic/`) | rendezvous state, participants, heartbeat | join, keep-alive, close, restart | crashes, stale state, CAS retries | same world on every node |
| CUDA caching allocator (`c10/cuda/CUDACachingAllocator.cpp`) | block pools, events | malloc, free, split/merge, process_events | use on several streams | no block handed out twice |
| DataLoader (`torch/utils/data/dataloader.py`, `_utils/worker.py`) | index queues, outstanding tasks, reorder buffer | next, shutdown | worker death, out-of-order results | results in order, no hang |
| caffe2 async nets and queues (`caffe2/core/net_async_*`, `caffe2/queue/`) | operator states, events, blocking queue | run, cancel, dequeue | legacy, not planned | |

Parts with no interesting control state (ATen and caffe2 kernels, quantized
kernels, JIT passes and codegen, ONNX export, mobile and vulkan backends,
vendored libraries, build tooling) are listed as not modelled.

How the parts meet: every shared object is an `intrusive_ptr`; the autograd engine
runs on threads that share them and fires the hooks of the DDP Reducer; the RRef
protocol sends its messages with `RpcAgent::sendWithRetries`, and what `RRef`
assumes of a call (its future is completed once, the request may run several
times, late copies arrive) is what `RpcAgent` is shown to implement; the elastic
agent runs `next_rendezvous()` before it starts the worker processes in which the
rest runs.

## 2. Plan

1. `IntrusivePtr`, checked and proved: the ground everything else stands on. Done.
2. `RRef`: one remote reference, all its messages. Done.
3. `AutogradEngine`: threads, ready queues, graph tasks, reentrancy, errors; and
   `GraphTaskInit`, the preparation of a graph task over all small graphs. Done.
4. `RpcAgent`: calls, retries, time-outs, broken pipes and shutdown, and the
   abstract `RpcCalls` it implements, with the proof of the refinement. Done.
5. `Reducer`: gradient reduction on all ranks. Done.
6. `Rendezvous`: the dynamic rendezvous with the agents that use it; the
   soundness of its record and the agreement of the nodes proved. Done.
7. The safety of `RRef`, `AutogradEngine`, `GraphTaskInit` and `RpcAgent` proved, and
   of `Reducer` that every reduction finishes before training goes on, that the
   ranks issue the same collectives, that no check fails by itself and that the
   gradients are the sums of those of all ranks. Done.
8. Left: distributed autograd's context clean-up, the c10d stores, `c10::ThreadPool`,
   DataLoader workers.

The order follows what the rest of the system rests on: memory, then the
protocols in which a wrong order of events loses a value or hangs a program.
Modules are written to be proved about as well as checked: no `RECURSIVE`
operator, named assumptions on the constants, invariants as conjunctions of named
parts.

## 3. Modules and the code

A definition carries the name of the function it models where it can;
`PROJECT.json` (`map`) gives the lines of each.  Definitions whose comment starts
with "Mutant" are wrong on purpose: they replace the definition that follows to
show that a property depends on it.

### `IntrusivePtr` (`c10/util/intrusive_ptr.h`)

* State: `refcount`, `weakcount`, the memory and the number of
  `release_resources()` calls of every target; `target` of every slot, a slot
  being one `intrusive_ptr`, `weak_intrusive_ptr` or released raw pointer.
* A slot is an actor, because the contract of the class is that one thread
  changes a slot at a time while slots of different threads are unsynchronised.
  Each atomic operation is a step: `reset_()` is `ResetStrong`,
  `ReleaseResources`, `LoadWeak` (with its fast path), `DecWeak`, `Delete`;
  `lock()` is `LockBegin`, `LockLoad`, then `LockExchange` or `LockRetry` (the
  weak compare-exchange may fail spuriously).
* Memory order is not modelled: steps are sequentially consistent.

### `RRef` (`torch/csrc/distributed/rpc/`)

* One remote reference, its owner and its users.  The owner's maps `owners_`,
  `forks_` and `pendingOwners_`, the users' `pendingUsers_`, `confirmedUsers_`
  and `pendingChildren_`, the messages in flight, the retried calls and the phase
  of a graceful shutdown.
* `Recv...` actions are the request handlers and the callbacks of responses.  A
  handler that takes the context's mutex twice is two actions
  (`RecvRemoteCall`/`AddForkOfOwner`, `ShareFromOwner`/`KeepOwner`): other
  handlers run in between on the agent's thread pool.
* Instances of `OwnerRRef` are numbered (`made`), so that an instance erased and
  made again is not mistaken for the first.
* Messages stay in flight until handled and are handled in any order.  `Networks`
  holds the fault models of a run, and `Init` picks one (`lossy`).  In a lossy
  network `AttemptTimesOut` gives up on an attempt whose message may still arrive
  and sends it again: delay, loss (a message never handled) and duplication in
  one; `LossyForks` bounds the forks made then.  The network itself is known only
  through the way this code uses it; `RpcAgent` models the client's side of it.
* `ShareUnconfirmed` says whether the creator passes its RRef on before the owner
  has confirmed it.  Argument unpickling waits for *received* RRefs to be
  confirmed, but nothing makes the creator wait, so the passing runs assume it waits and
  `rref_eager_owner_lost` shows what happens when it does not.
* A user may pass its RRef to any worker, the owner and itself included; so may the
  owner.

### `AutogradEngine` (`torch/csrc/autograd/engine.cpp`)

* A thread is a stack of `thread_main` activations (`frames`): user threads that
  call `execute()`, one thread per device, and threads of the reentrant pool.
  A frame is in one of the places where the code can be preempted between two
  atomic operations or critical sections.
* `queue` holds the `ReadyQueue`s.  A device has one, and a user thread has its
  local one, which it keeps between calls (so NodeTasks left by a failed call
  meet the next one).  `Front` is the top of the heap; when a `GraphTask` expires
  the comparison of its queued tasks changes under the heap, so from then on only
  dummies have a certain place.
* `Valid(g)` is `base_.lock()`: a GraphTask lives as long as a frame refers to it.
* A reentrant call is a further frame (`ExecuteNested`), or, at
  `max_recursion_depth_`, an entry of the pool's queue (`ExecuteOnPool`).  A pool
  thread takes `worker_device`, the queue and the depth of the GraphTask.
* `max_recursion_depth_` is chosen in `Init` among the ones `Calls` has; for each of
  them `Calls` says which GraphTasks the user threads start.
* Graph, devices, sequence numbers and `exec_info_` are constants.  Two edges
  between the same two nodes are one; gradients are the set of nodes that
  contributed to an input buffer.  `EngineAssumption` says what they are: finitely
  many nodes, a graph without cycles in which only the `graph_root` has no incoming
  edge (the code makes the nodes of a graph task by walking from the root), and
  `exec_info_` as `init_to_execute` leaves it: what leads to a node that should
  execute is needed.

### `GraphTaskInit` (`compute_dependencies`, `init_to_execute`)

The two searches that compute the constants of `AutogradEngine`, over every graph
of `N` nodes: parallel edges, nodes shared by paths, outputs on the same path or
out of reach, and every `topological_nr` that `update_topological_nr` allows.  The
references `Leads` and `Reached` say "has a path" directly.

### `RpcAgent` and `RpcCalls` (`rpc_agent.cpp`, `tensorpipe_agent.cpp`)

* `RpcCalls` is the promise of `sendWithRetries()`: a call is refused, or its
  future is completed once, with a value only if the callee ran the request; a
  request may run more than once and after its future was completed.
  `ImplementsCalls` is the refinement (`outcome <- orig`).
* `RpcAgent` has the client side of one worker: the application's threads inside
  `send()` (one step per critical section: `Register`, `AddAssertion`,
  `IncreaseCallCount`, `AddTimeout`, `PipeWrite`), the retry thread
  (`TakeRetries` to `RetryLoops`), the timeout thread (`Poll...`), TensorPipe's
  callbacks (`Receive`, `HandleClientError`, `Flush`), the pool that completes
  futures (`Complete`, `Reschedule`, `DecreaseCallCount`) and `shutdownImpl`.
* A message id is a call and an attempt.  A time-out or a retry that is due may be
  taken at any time, so every race of a response with its time-out is covered.

### `Reducer` (`torch/csrc/distributed/c10d/reducer.cpp`, `torch/nn/parallel/distributed.py`)

* All ranks run the same program, a sequence of passes: synchronised, under
  `no_sync()`, or a forward whose output is ignored.  Every rank picks its own
  graph for each pass, and hooks fire in any order.
* A `Reducer` is one record per rank with the fields of the class; its methods are
  operators from record to record, and actions apply them: `prepare_for_backward`,
  `autograd_hook` with `mark_variable_ready`, `mark_bucket_ready` and
  `all_reduce_bucket`, the final callback `finalize_backward`, and
  `rebuild_buckets` with its two broadcasts.
* The process group matches collectives by position: the oldest ones of all ranks
  complete together.  A gradient is the set of contributions summed in it, so a
  lost, doubled or foreign gradient is seen.
* `compute_bucket_assignment_by_size` is a recursive function over the parameters.

### `Rendezvous` (`torch/distributed/elastic/rendezvous/dynamic_rendezvous.py`, `agent/server/api.py`)

* `backend` is the record in the store.  A step of a node is one iteration of
  `_DistributedRendezvousOpExecutor.run()`: `sync()` (with `_sanitize`), the
  operation that picks an action (`ExitOp`, `JoinOp`, `CloseOp`, keep-alive) and
  the action on the local copy; the copy is written by the node's next `sync()`.
* A write with an old token returns the stored record, as a read does, so `dirty[n]`
  is kept only while the token of `n` is current: another node's write resets it.
* Heartbeats are a set, and `expired` the ones too old: the clocks of the hosts
  agree.  `Expire` is for nodes that have gone, `Stall` for a live node that was
  too slow, `Crash` for a process that dies anywhere.
* The agent waits for the `role_info` keys of all ranks (`StartWorkers`,
  `GatherFails`), restarts the group when nodes wait or workers fail, and closes
  the rendezvous when it ends.  `role_info` is set in the step in which
  `next_rendezvous()` returns, and the wait for the keys times out only for a key
  that never comes.  The handler's one-second cache is left out.

## 4. Runs

| Run | Instance | Distinct states | Shows |
|---|---|---|---|
| `intrusive` | 2 targets, 3 strong and 2 weak slots | 266 thousand | the inductive invariant, no use after free, one release, no resurrection; released and deleted in the end |
| `rref_confirmed` | 2 users; 3 forks on a reliable network, 2 forks, 2 attempts and 2 slow calls on a lossy one | 1.8 million | the owner keeps the value while a user lives, under duplicates and late messages; no leak on a reliable network |
| `rref_live` | 2 users, 2 forks, shutdown | 368 thousand | `to_here()` returns, an unused RRef is reclaimed, graceful shutdown ends and leaves no fork |
| `engine_backward` | 2 users, 1 device, 4 GraphTasks, 3 functions that throw, depth 1; 1 user, 2 devices, 3 GraphTasks, 2 pool threads, depth 0 | 256 thousand | exact counters, complete and final results, enough pool threads, no lost wake-up, the next call undisturbed by an error |
| `graph_task_init` | 4 nodes, 2 edges each | 1.5 million | both searches against their references |
| `rpc_agent` | 1 call with 2 retries; 2 calls on one pipe with 1 retry, a bad device map and shutdown; the pipe may break | 224 thousand | refinement of `RpcCalls`, no unknown response, what `join()` relies on, time-outs and shutdown return |
| `reducer` | 2 ranks, 3 parameters, 6 programs, all modes | 448 thousand | matching collectives, equal and complete gradients, no false error, every rank finishes |
| `rendezvous` | 3 nodes, 2 to 3 per round, 2 rounds, 1 failure, 1 time-out | 689 thousand | the record stays sound, worlds agree, rounds exclude each other, nothing is undone, joins end |

Why the bounds are enough to make the interesting cases happen: three strong
slots let two `lock()`s race with a `reset_()`; three forks give a creator, a
child and a grandchild or two children; two attempts make a duplicate; the
diamond gives a node with inputs from two threads, and the second GraphTask on the
same device gives work of different owners in one queue; depth 0 sends every
reentrant call to the pool.  Four nodes include every way in which two outputs and
a shared node can lie on paths from the root.  Retries make a late response of
the first attempt meet the second; the two calls share a pipe, so an error of one
flushes the other.  Parameters of two sizes make the number of buckets depend on
their order, so the layout of rank 0 differs from the local one; the programs put
a `no_sync()` and an ignored pass before, between and after synchronised ones.
Two nodes complete a round and the third comes late, waits and forces a second
round; one failure at every place covers a crash in the middle of each operation.
`MaxEdges`, `MaxTopo`, `MaxAttempts`, `MaxFetches`, `LossyForks`, `MaxRetries`, `MaxSlow`,
`MaxRounds`, `MaxFailures` and `MaxTimeouts` are the only caps on counters.

Every module has one type invariant; where it is not a conjunct of an inductive
invariant, it is the first conjunct of a safety invariant a run checks.  Deadlock
checking is off where the system may come to rest: no references left, no calls
open, every `backward()` returned, training over.  Symmetry (of the users) is used in the
safety run of `RRef` only.

Fairness.  `IntrusivePtr`: a thread inside `reset_()` takes its next step; callers
are never obliged to drop a reference or to retry `lock()`.  `RRef`: the runtime
does not stop while a message can be handled, and every fetch that can be answered
is (`WF(Runtime)`, `WF(Answer(f))`); user code is not obliged to do anything, and
liveness is checked on a reliable network.  `AutogradEngine`: each thread goes on
when it can (weak fairness per thread): functions and hooks return, which the
engine needs.  `RpcAgent`: the agent's threads go on, TensorPipe reports errors of
a broken pipe, and the clock reaches every time-out (`SF(PollTakes)`, because the
timeout thread leaves and re-enters the place where it looks); peers need not
answer.  `Reducer` and `Rendezvous`: weak fairness of every rank or node.  In these two
and in `AutogradEngine` the enabling condition of the steps is written out
(`[]<>~Runnable \/ []<><<Step>>_vars`), which TLC evaluates faster than `ENABLED`.
`engine_pool_sleep` uses the `ENABLED` form (`WeaklyFairSpec`).
In `Rendezvous` polling an unchanged record does not count as a step, and time
passes (`WF(TimePasses)`); nothing obliges a node to fail or to be late.

## 5. Disagreements with the documentation

Four runs are expected to violate a property the repository states.

* `rref_eager_owner_lost` (`OwnerKept`).  A user calls `remote()` and at once passes the
  unconfirmed RRef to its owner (`Remote`, `ShareFromUser`); that RPC overtakes the
  creating call and makes the `OwnerRRef` (`RecvRpcAtOwner`), which has no fork yet.
  The owner passes the RRef to itself (`ShareFromOwner`, `KeepOwner`), and the fork made
  for that is deleted on arrival (`RecvRpcAtOwner`): it is the last one, so the
  `OwnerRRef` is erased while the creator's UserRRef lives.  The creating call
  (`RecvRemoteCall`) makes a second one, which gets the value; the one in the hands of
  the owner's code never does.
* `engine_pool_sleep` (`BackwardReturns`).  At the maximum depth on a CPU thread,
  a pool thread shares the user's ready queue.  Its own GraphTask is completed by
  a device thread and the dummy that should wake it is taken by the user thread;
  the pool thread then takes the last task of the outer GraphTask, compares
  devices instead of threads, sends no dummy, and the user sleeps in `pop()`.
  `MAX_DEPTH` is 60, so this needs deep nesting; the model uses depth 0 and nothing
  in the argument depends on the number.
* `reducer_partial_loss` (`NoFalseAlarm`).  With a static graph the first iteration
  counts the hook of a parameter whose output is not in the loss; later iterations
  wait for that hook, and the next forward raises although the graph never changed
  and the documentation lists this case as supported.
* `reducer_nosync_unused` (`NoSyncSynchronized`).  With `find_unused_parameters`, one
  rank uses a parameter under `no_sync()`, and no rank uses it in the pass that
  synchronises.  `autograd_hook` returns at once while hooks are not expected
  (`reducer.cpp:565`), so the parameter is not in `local_used_map_`, counts as globally
  unused, and its gradient stays as it is: on one rank only.  The documentation of
  `no_sync()` says that such gradients are synchronised in the first pass after it, and
  a comment of `autograd_hook` that the parameter is marked as used.  `GradsAgree`
  describes what the code does: the sum in the parameters used in that pass, the rank's
  own gradient in the others.

Met while modelling, and visible as an exception that a property names:

* `RRef`: a retried `RRefForkRequest` handled after the delete of its fork adds the
  fork again (`rref_context.cpp:745`), so `NoLeak` is stated for a reliable
  network.  A `remote()` to self that times out before its handler runs makes
  `finishCreatingOwnerRRef` delete the self fork and, with the last fork, the
  `OwnerRRef`; the late handler, whose comment says "Creating an owner RRef on self,
  should already exist in owners map" (`request_callback_no_python.cpp:174`), then fails
  the assertion of `getOwnerRRef` (`rref_context.cpp:385`).  `AssertionsHold` and
  `RRefAssertionsHold` except this case (`SelfFork \in timedOut`).
* `RpcAgent`: the notification of the timeout thread at shutdown can be lost
  (`ShutdownWaitsForTimer`); a `send()` that throws after it registered its future
  leads to a decrement of `clientActiveCalls_` without an increment, so
  `JoinSeesWork` excludes it; retries waiting in `rpcRetryMap_` are neither counted
  by `join()` nor completed by shutdown (`SettledAtShutdown`).
* `Reducer`: `initialize_buckets` compares rank 0's number of buckets with this
  rank's number of size limits (`reducer.cpp:976`); where they differ the rank
  raises, which `NoFalseAlarm` and `AllFinish` except (`CountsDiffer`).  A pass under `no_sync()` right after a forward
  whose output was ignored does reduce, because that forward left
  `expect_autograd_hooks_` set (`Reduces`).  When a static graph changes so that no
  parameter's count of hooks reaches zero and `unused_parameters_` is empty, nothing
  is marked, `require_finalize_` stays false and the next forward does not notice
  that the pass reduced nothing: `EverySyncFinalized` excepts a static graph that
  changed, which the documentation forbids.
* `Rendezvous`: the package's documentation promises the same members and ranks to
  all nodes of a round; a member that crashes or expires between the completion
  and another member's poll makes world sizes differ, and a rank may then be as
  large as the world (`WorldAgrees` names the case; the agents wait for the keys of
  all ranks and fail).  A live node wrongly taken for dead is not told and goes on
  while others form a round without it (`Exclusive`, `JoinsEnd`).

## 6. Proofs

`IntrusivePtrProofs` proves for every number of targets and slots (finite sets of
slots, strong and weak ones disjoint: `SlotAssumption`) that

* `Counting`: `IndInv` is an invariant;
* `UseAfterFreeFree`, `ReleasedExactlyOnce`, `DestructorSafe`: the three safety
  invariants that matter to users of the class follow;
* `ZeroIsFinal`: a strong count of zero is final, as an action property.

`CountingScheme` alone (strong count = strong references; weak count = weak
references plus one while the strong side has not finished) is not inductive: the
step from the last strong reference to the deletion passes through places where no
reference is left and the counts alone do not say who may still touch the target.
`SoleFinisher` supplies that: the slot inside `reset_()` after zero is the only
strong slot of its target, and the slot about to delete the only slot at all.
`SlotInv` ties a `lock()` in progress to the weak slot that keeps its target
allocated, and `ReleasedInv` counts `release_resources()`.  Counts are
cardinalities, so each action needs one of three lemmas about them (`GainOne`,
`LoseOne`, `HandOver`); there is one lemma per action, and `StepKeeps` joins them.

`RpcAgentProofs` proves for any calls, retries, workloads and faults
(`ConstAssumption`) that

* `Refinement`: `RpcAgent` implements `RpcCalls` (`ImplementsCalls`): initial
  states map to initial states, every step to a step or a stutter;
* `Recognized`: a response always finds its message in the pipe's
  `pendingResponseMessage_`, unless the pipe has failed (`ResponseRecognized`);
* `Holding`: the inductive invariant `IInv` behind both.

The refinement fails if a call's future could be completed twice, and nothing in
the state says directly that it cannot: the right to complete it moves between
threads.  `OneHolder` says that a call in progress has at most one holder: the
caller inside `sendWithRetries()`, the callback on its newest attempt, the thread
that reschedules it, or the retry thread's structures; `RetryDisjoint` that those
structures share no call; `InOrder` that only the newest attempt can have a callback
on an open future; `Begun` that nothing of a call happens before its first attempt
was sent; `Futures` that a message's future is completed once, and with a value only
if the request ran; `Expected` that what is on a pipe is in its
`pendingResponseMessage_`.  Each action moves one holding, and only some of the
conjuncts: `Frames` gives the others.

Its second part goes on from `IInv` and proves, under the same assumptions,

* `RpcJoinSeesWork`: what `join()` reads off `clientActiveCalls_` (`JoinSeesWork`);
* `RpcSettledAtShutdown`: what `shutdown()` leaves behind (`SettledAtShutdown`, with
  the types);
* `ShutdownInvariant`: the inductive invariant `SInv` behind both.

`OneHolder` says that a call has *at most* one holder; `Held` adds that an open call has
one.  `Messages` follows a message from `pendingResponseMessage_` over
`handleClientError` to the flag of its future and the pool, so that a message whose wire
is closed is never forgotten; `Works` says that a pool thread that still has to put a
call into `rpcRetryMap_` has not decreased the count yet; `Counted` that
`clientActiveCalls_` is the number of messages counted minus the number whose work is
done, so that at zero the two sets, one inside the other, are equal; `Retrying` what the
retry thread holds in each phase and `Stopping` what `shutdown()` has waited for at each
point.  At the end every holder but `rpcRetryMap_` is excluded.

`RendezvousProofs` proves for any finite set of nodes, numbered in their order, and
any minimum from 1 to the maximum (`RendezvousAssumption`), whatever the number of
rounds, crashes and time-outs, that

* `RecordsSound`: `StateSound` (with the types) holds of the stored record and of
  every dirty copy of it;
* `AgreementKept`: `NothingUndone`;
* `Records`: the inductive invariant `IInv` behind both.

The argument is about one record and its successor, not about the nodes: `Good(s)`
is a well-formed record and `Follows(s, t)` that `t` may be written over `s`.
`_sanitize` and each action of the executor lead from a good record to a good one
that follows it (`SanitizeFacts`, `ApplyFacts`), provided that the operation chose
the action under its guards (`OpsAllowed`).  `StateSound` is not inductive without
the copies: the invariant says that every dirty copy follows the *stored* record,
which holds because a write by another node makes the token of the copy old.

Its second part relates the record to the nodes and proves

* `RendezvousWorldAgrees`: `WorldAgrees`;
* `RendezvousExclusive`: `Exclusive`;
* `WorldInvariant`: the inductive invariant `WInv` behind both.

Neither property is inductive, because a member may disappear from the record, or
from a copy that is not written yet, before another one reads its world from it.
`WInv` says who may disappear: of the members a completed round had (`formed`), some
are missing in a record only if the round is `Excused`, that is, a member failed or
every member has set its `role_info` key (`Agrees`).  The keys carry the argument: a
node restarts only from `run`, hence after it saw all of them, and a node that is
still in `next_rendezvous()` has not set its own (`NodeOf`, `Keyed`), so it never reads a
record that a restarting node has left.  `CopyOf` is about the copies: they lack members
only for an expired heartbeat or because their node removed itself, and a copy with a new
round has no other member.  `RanksOfOrder` shows that the ranks
`_mark_rendezvous_complete` gives are 0 to size - 1, by counting.  A sync is
one lemma (`SyncWorlds`), to which each operation adds what it does to its own node.

`RRefProofs` proves for any finite sets of users and forks, any number of attempts,
time-outs, lost messages and fetches (`ConstAssumption`), with or without shutdown,

* `RRefParentOutlivesChild`, `RRefInFlightTracked`, `RRefAssertionsHold`: on every
  network, and whether or not the creator waits to be confirmed (`AssertionsHold`
  with the exception of section 5, a call to self that timed out);
* `RRefOwnerKept`: if the creator passes its RRef on only when it is confirmed (the
  hypothesis `~ShareUnconfirmed`, without which `rref_eager_owner_lost` refutes it);
* `RRefNoLeak`: under the same hypothesis, on a network that loses nothing;
* `RRefCleanShutdown`: on a network that loses nothing;
* `BaseInvariant`: the inductive invariant `Base /\ CInv`.

None of the properties is inductive: each speaks of two ends of a protocol whose
middle is on the wire.  `Base` follows one fork through its life (unborn, coming,
pending, confirmed, deleted) and says at each point which of its messages may be in
flight and in which stage its handler may be: `Attempts` (only a message that is sent
again has a second attempt), `MapsOf` (the maps of the user), `CreatorOf` (the creator's
`rpc.remote()`), `ChildOf` (who vouches for a child: the parent, the owner's forks, or a
message on the way between them), `ParentOf` (a parent with pending children is alive),
`SelfInv` (the owner's fork of itself) and `Phases` (the workers leave the running phase
together).  `OwnerInv` adds
that an unconfirmed creator is alone and that the one `OwnerRRef` made is kept while
any fork is known; `CInv` that on a reliable network each fork the owner knows has
somebody who will delete it, and that nothing is left once the owner left.  There is
one lemma per action and, for the parts an action does not touch, frame lemmas by the
kinds of messages it sends (`Only`).

`AutogradEngineProofs` proves for any finite graphs, any threads, devices, pool,
depth of reentrant calls and functions that throw (`EngineAssumption`)

* `EngineOutstandingExact`, `EngineAllInputsAccumulated`, `EngineCompleteResult`;
* `EngineResultIsFinal`, an action property: the future is completed once;
* `EnginePoolSuffices`;
* `EngineInvariant`: the inductive invariant `Inv`.

Between two decrements of `outstanding_tasks_` the counter says nothing of *which*
NodeTasks are left, so that it reaches zero only when all work is done needs more:
`Unique` (a Node has one NodeTask, in a queue or in an activation), `Items` and
`Shape` (whoever holds it has the gradients of all predecessors, and the Node is not
evaluated), `Graph` (`dependencies_` and `not_ready_` are functions of `Fed`, the Nodes
whose outputs were accumulated), `Alive` (a Node all of whose inputs are there is
evaluated, queued or held, unless its GraphTask failed) and `Counted` (what the counter
counts).  At zero nothing is queued or held, so by `Alive` and the absence of cycles
every Node that should execute was evaluated (`NothingLeft`): that makes
`CompleteResult` hold and `exec_post_processing` find nothing in `not_ready_`.  `Claims`
says that one activation at most may complete a future, and that it is still pending
then; `Called` that a function makes its reentrant call once; `WakeFree` that a thread
about to push a dummy task has none in a queue already, without which the counter
and the *set* of queued items would part; `Stacks` that only the top activation of a
thread runs and what pool threads hold.  `PoolSuffices` has its own short induction.

`GraphTaskInitProofs` proves for any number of nodes, of edges of a node and of
topological numbers (`InitAssumption`), so for every acyclic graph, every choice of
outputs and every numbering that `update_topological_nr` allows,

* `InitToExecuteExact`: `NeededIsPath`;
* `ComputeDependenciesExact`: `DependenciesExact`;
* `GraphTaskInvariant`: the inductive invariant `IInv`.

The references `Leads` and `Reached` are recursive functions; that they satisfy their
own equations is shown first, from the least set of nodes closed under them
(`LeadsFacts`, `ReachedFacts`).  An induction over the graph is a counterexample of
least or greatest number (`Least`, `Greatest`): a node on the way to an output is
never pruned, because topological numbers fall along every edge (`WantedNotPruned`),
and any set that holds the root and the children of its members that are not pruned
holds every node that matters (`WantedFound`).  The two searches are then two ways to
build such a set.  `VisitInv` says that the nodes that left the queue are counted, edge
by edge, and their children seen.  `SearchInv` is about the stack: its numbers fall, a
frame below the top waits for the one above it and knows the answer of every earlier
edge (`FrameInv`), and a node that was seen and is not on the stack is settled, so that
a parent that passes over it reads a final answer.

`ReducerProofs` proves for any ranks, parameters, sizes, caps and programs, any graphs
with a parameter in the loss, and every order of the hooks,

* `SyncFinalized`: `EverySyncFinalized`;
* `RanksMatch`: `CollectivesMatch`, the type invariant included;
* `ReducerInvariant` and `CollectivesInvariant`: the inductive invariants `IInv` and
  `JInv` they rest on.

The count of finalized reductions is right only together with why the next one will
be noticed.  `IInv` therefore keeps an account per rank (`RankInv`).  Outside of a
backward, either `require_finalize_` is set, and the next `forward()` raises, or what
was finalized is due and the hooks are expected exactly after an ignored forward.
Inside, hooks are expected exactly when the pass reduces, and then a reduction is under
way, or the delayed one is queued, or a hook is still to fire that will mark its
parameter (`Awaited`); once no hook is left, only the first two remain.  In a static
graph a hook marks its parameter only with the last count, so `Awaited` needs that no
more hooks are counted than will fire (`Counted`), which follows from how the first
iteration counts and from the graph's staying the same.  The methods of the class are
lemmas about what the account reads of the record (`Agree`, `Marks`, `Hooked`).

`RanksMatch` has an inductive invariant of its own, `JInv`.  Collectives are paired by
position, so that two ranks agree for ever only if what a rank issues does not depend
on its hooks.  `JInv` says what it does depend on.  The collectives of a rank fall into
rounds (`Rounds`): one for each reduction it finalized and one for `rebuild_buckets`.
The kinds and keys of round `c` are `RoundSigs(P, L, c)`, a function of the program and
of `L`, the layout that rank 0 computed (`Layout`), whatever happens on the rank.

* `Ledger`: what a rank has completed and issued is a prefix of the signatures of its
  round; while the layout is exchanged, the results are what rank 0 announced.
* `Progress`, `Marking`: how long that prefix is, from where the rank is:
  `next_bucket_ - 1` buckets while hooks fire, with the used map after the last, and
  all of the round when the rank waits.
* `Ordered`: `rebuilt_param_indices_` has no parameter twice, those that are ready and
  were not found unused so far, and all of them (`IsPerm`) when the buckets are
  rebuilt; this is why the check on its length never fails and why the broadcast has
  the same size on all ranks.
* `Delays`: in a static graph, which reduction is the delayed one and which passes can
  precede it; a program that makes `delay_all_reduce` run under `no_sync()` (`Doomed`)
  has a second delayed round, on every rank, and stops there.
* `Aligned`: two ranks are in the same round with the same number of results, or one is
  a round ahead without a result and the other has all results of its own round.
* `LaidOut`: the buckets are the initial ones or, after the rebuild, those of rank 0.

That a rank may take rank 0's layout over rests on two facts about the algorithms:
`compute_bucket_assignment_by_size` cuts the order of the parameters into consecutive,
non-empty pieces (`AssignCut`), and what is flattened and cut again at the broadcast
sizes is the same layout (`CutFlatten`, `CutUnflatten`; together `Sound`).  Both are
inductions over the length, which the provers cannot take from the library; they are
done here with a least counterexample among the positions (`Least`).  Then every action
keeps the invariant of its rank and moves it within its round or to the next one
(`Moves`, `AlignMove`); when rank 0 replaces its plan, no rank has a collective that
depended on the old one (`Relayout`).  The theorem holds for every mode and for passes
that break the contract of their mode: a rank that raised keeps what it had issued.

`ReducerAlarmProofs` goes on from both and proves

* `NoAlarm`: `NoFalseAlarm` for every program and set of graphs that satisfies `Fits`,
  in the three modes, with any ranks, parameters, sizes, caps and order of the hooks;
* `ExpectationInvariant`: the inductive invariant `KInv` behind it.

A check of the Reducer fails when its expectation and the backward disagree: a bucket
waits for a hook that never fires, a parameter is marked twice, a hook of a static graph
fires once more than was counted.  While all ranks keep the contract, `KInv` says that
the two agree exactly: in a pass that reduces, a parameter has hooks to fire if and only
if it is neither ready nor unused, and as many as the static graph counts for it
(`HooksExact`); in the first iteration of a static graph, what was counted and what is
to fire add up to the graph's number (`Counting`), which is known from then on
(`CountsKnown`); and a parameter of `local_used_map_` has a gradient (`UsedHere`).  When
no hook is left, all buckets are complete and the callback finds what it asserts.

`Fits` names what the property needs beyond the contract that `broken` records; it is
not an assumption on the constants.  In the modes without a static graph: no pass under
`no_sync()` right after an ignored forward, where it would reduce.  In a static graph: if
the first forward is ignored, its backward runs in the next pass, so that the hooks are
counted; no other pass under `no_sync()` comes between the first and the second iteration
(`~Doomed`); and no output is outside of the loss.  Every program and graph of
`MCReducer.cfg` satisfies it.  The last condition is needed: `reducer_partial_loss` is a
program that meets all the others, and TLC finds the false alarm.

The same module proves

* `GradsSum`: `GradsAgree` for every program that satisfies `Sums` and, with a static
  graph, ranks that keep their graph, with any ranks, parameters, sizes, caps, graphs
  and order of the hooks;
* `SumInvariant`: the inductive invariant `GInv` behind it.

`GInv` follows a gradient from where it is accumulated to where the result is copied
back, as long as no rank has raised an exception (`Calm`).

* `GRank`, of one rank: outside of the time after a synchronised pass `param.grad` is
  what the rank itself accumulated.  In the backward of a synchronised pass (`Amounts`)
  the view of every ready parameter is that gradient, every bucket and used map issued
  and not complete carries it (`Carries`), and `local_used_map_` has exactly the
  parameters whose hooks have fired and found a gradient (`MapExact`).
* `ResultsRight`: when all ranks are in the backward of the same pass or have finalized
  it (`AllHere`), the results that a rank has are the totals of all ranks.  A rank that
  still fires hooks changes the totals only of parameters that are not ready, and those
  are in no result yet: a result has the buckets of all ranks, and what a rank has put
  into a bucket it does not accumulate again in that pass.
* `GradsRight`: so are the gradients of a rank that has finalized the pass.
* `MapKept`: the reduced used map of a static graph, once there is one, is that of all
  ranks, and it stays so because the graphs do.

That ranks which finish early see the same totals as those that finish late needs
`Aligned` from `JInv`: a rank has finalized a pass only when the results of all others
in it are complete (`PassEnded`), so that no hook of that pass is left to fire anywhere.

`Sums` names the programs: no pass under `no_sync()` right after an ignored forward,
where it would reduce and leave sums in gradients that are then accumulated and reduced
again; and `Fits` in static mode.  Outside of it the property says less than it should,
as the union of sets of contributions does not tell a contribution summed twice from one
summed once; inside, `Carries` shows that each rank puts in its own contributions and
nothing else.  All programs of `MCReducer.cfg` but the static
`<<"ignored", "nosync", "sync">>` satisfy it.

Only model-checked: all liveness properties, which are beyond the prover.

## 7. Not modelled

* `IntrusivePtr`: weak memory orders; `MaybeOwned` and `ExclusivelyOwned`.
* `RRef`: several RRefs in one message, values that are errors, shutdown that is
  not graceful.
* `AutogradEngine`: final callbacks of a GraphTask (`engine.cpp:594-602`), an error that
  one of them throws (530-532), the stream synchronisation before them (549-578),
  `Engine::stop()` and forked processes.  `Outputs` pushes all successors that are ready
  in one step, where the code pushes them one by one (896-915).
* `RpcAgent`: the server's side but for one step, `Serve`, which stands for `respond()`
  and `sendCompletedResponseMessage()`; plain `send()` without retries, the
  barrier of `join()` across workers, shutdown while a thread of the application is
  inside `send()`.  A retry carries the whole request here; in the code the first write
  has moved the payload out of the shared message (`tensorpipe_utils.cpp:148`).
* `Reducer`: sparse gradients, communication hooks, `join()` for uneven inputs,
  `gradient_as_bucket_view`, several devices or types per model; the reversed order that
  `DDP_SET_LAST_BUCKET_CAP` asks for (`reducer.cpp:1682-1707`); the broadcasts of module
  buffers before and after the module runs (`distributed.py:917-921`, `935-936`), which
  are collectives of the same process group, so `CollectivesMatch` is about models
  without buffers or with `broadcast_buffers=False`; a forward under `no_grad`.
  `Backward` queues the delayed reduction in the first static iteration even if the loss
  does not pass through the sink (`distributed.py:163-168`).  The checked programs
  have no `no_sync()` right after the first synchronised pass of a static graph, where
  `num_iterations` is still 1, `_DDPSink` queues the delayed reduction in a backward
  that expects no hooks, and the assertion of `finalize_backward` fails.  Of the
  theorems, `RanksMatch` and `SyncFinalized` cover such programs; `NoAlarm` and
  `GradsSum` exclude them (`Fits`, `Sums`).  Every graph uses at least one parameter in
  the loss.
* `Rendezvous`: `set_closed()` called by others, the etcd and C10d backends
  themselves, the agent's exit barrier and its count of restarts.  A
  `RendezvousConnectionError` of `sync()` (`dynamic_rendezvous.py:396`, `408`) is
  modelled for the timer thread only, not for exit, join or `num_nodes_waiting()`.
  `StartWorkers` leaves out the wait for `MASTER_ADDR` and `MASTER_PORT` of rank 0
  (`api.py:547-549`) and its time-out.  The checked instance has as many nodes as a
  round may have, so no node waits at a full round.
* The components that the plan leaves to later or that have no interesting control
  state.  Kernels, compilers and generated code make up nearly all lines of the
  repository, so the share of its lines that these modules cover is small and
  stays so.

`PROJECT.json` lists each component with its reason, and the hazards no property
covers with a note.
