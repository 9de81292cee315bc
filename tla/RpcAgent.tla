------------------------------ MODULE RpcAgent ------------------------------
(***************************************************************************)
(* The client side of one worker's TensorPipeAgent: send(), the retry      *)
(* thread of RpcAgent, the timeout thread, responses and pipe errors       *)
(* delivered by TensorPipe, the thread pool that completes futures, and    *)
(* shutdown() (torch/csrc/distributed/rpc/rpc_agent.cpp and                *)
(* tensorpipe_agent.cpp).                                                  *)
(*                                                                         *)
(* A step is one critical section, or one atomic read or write, of one     *)
(* thread.  A message id is a call and the number of the attempt.  Time is *)
(* abstracted: a timeout or a retry that is due may be taken at any time.  *)
(***************************************************************************)
EXTENDS Integers, FiniteSets

CONSTANTS
  Calls,       \* sendWithRetries() calls of the application, each on its own thread
  MaxRetries,  \* bound on RpcRetryOptions::maxRetries
  Peers,       \* the workers called
  To,          \* the worker each call is sent to
  BadDevices,  \* calls whose device map is wrong: getDevicesForRemote throws
  Breakable,   \* peers whose pipe may break
  Timed,       \* calls with a timeout; a timeout of 0 means none
  Workloads    \* [calls, retries, stops]: the calls the application makes, their
               \* maxRetries, and may it shut the agent down?

ASSUME ConstAssumption ==
  /\ IsFiniteSet(Calls) /\ BadDevices \subseteq Calls
  /\ Timed \subseteq Calls
  /\ MaxRetries \in Nat /\ To \in [Calls -> Peers] /\ Breakable \subseteq Peers
  /\ Workloads \subseteq [calls : SUBSET Calls, retries : 0..MaxRetries, stops : BOOLEAN]

Ids == Calls \X (0..MaxRetries)
Peer(id) == To[id[1]]

VARIABLES
  load,      \* the workload of this behaviour
  running,   \* rpcAgentRunning_
  stage,     \* how far send() of each message is
  pending,   \* pendingResponseMessage_ of all pipes
  timeouts,  \* timeoutMap_ and messageIdToTimeout_
  flag,      \* messages whose AtomicJitFuture has isComplete set
  task,      \* the thread pool's work for each message's future
  fut,       \* the future send() returns
  active,    \* clientActiveCalls_
  attached,  \* messages whose future has rpcRetryCallback attached
  orig,      \* originalFuture_ of each call, or "refused" when the call threw
  count,     \* retryCount_
  sched,     \* the thread about to put the call into rpcRetryMap_, or "no"
  retryMap,  \* rpcRetryMap_
  retry,     \* the retry thread
  poll,      \* the timeout thread
  flushing,  \* messages handleClientError has taken and not yet marked
  down,      \* pipes in error
  wire,      \* each message on its pipe
  ran,       \* calls whose request a peer ran
  stop       \* shutdown()

sendVars == <<stage, pending, timeouts, active>>
futVars == <<flag, task, fut>>
retryVars == <<attached, orig, count, sched, retryMap, retry>>
netVars == <<flushing, down, wire, ran>>
agentVars == <<running, sendVars, futVars, retryVars, poll, netVars, stop>>
vars == <<load, agentVars>>

Init ==
  /\ load \in Workloads
  /\ running = TRUE /\ active = 0 /\ stop = "none"
  /\ stage = [id \in Ids |-> "none"] /\ wire = [id \in Ids |-> "none"]
  /\ task = [id \in Ids |-> "none"] /\ fut = [id \in Ids |-> "open"]
  /\ pending = {} /\ timeouts = {} /\ flag = {} /\ attached = {} /\ flushing = {} /\ down = {}
  /\ orig = [c \in Calls |-> "none"] /\ count = [c \in Calls |-> 0]
  /\ ran = {}
  /\ sched = [c \in Calls |-> "no"] /\ retryMap = {}
  /\ retry = [pc |-> "sleep", batch |-> {}, sent |-> {}, failed |-> {}]
  /\ poll = [pc |-> "armed", expired |-> {}]

-----------------------------------------------------------------------------
(* Completing futures.                                                     *)

\* Mutant: the flag of the AtomicJitFuture is tested but not set.
MarkFutureUnset(id, r) ==
  /\ task' = IF id \in flag THEN task ELSE [task EXCEPT ![id] = r]
  /\ UNCHANGED <<flag, fut>>

\* markFutureAsComplete and markFutureWithError: the first to set isComplete
\* hands the future to the thread pool.
MarkFuture(id, r) ==
  /\ flag' = flag \cup {id}
  /\ task' = IF id \in flag THEN task ELSE [task EXCEPT ![id] = r]
  /\ UNCHANGED fut

\* rpcRetryCallback, run by thread e on a completed attempt with retryCount_ n,
\* up to the lock.
RpcRetryCallback(c, r, n, e) ==
  IF r = "err" /\ running /\ n < load.retries
  THEN sched' = [sched EXCEPT ![c] = e] /\ UNCHANGED orig
  ELSE orig' = [orig EXCEPT ![c] = r] /\ UNCHANGED sched

\* Mutant: the count is decreased before the callbacks run.
CompleteCounted(id) ==
  /\ task[id] \in {"ok", "err"}
  /\ fut' = [fut EXCEPT ![id] = task[id]]
  /\ task' = [task EXCEPT ![id] = "done"]
  /\ active' = active - 1
  /\ IF id \in attached THEN RpcRetryCallback(id[1], task[id], count[id[1]], "pool")
     ELSE UNCHANGED <<sched, orig>>
  /\ UNCHANGED <<running, stage, pending, timeouts, flag, attached, count, retryMap, retry, poll,
                 netVars, stop>>

\* A pool thread completes the future and runs its callbacks.
Complete(id) ==
  /\ task[id] \in {"ok", "err"}
  /\ fut' = [fut EXCEPT ![id] = task[id]]
  /\ task' = [task EXCEPT ![id] = "decrease"]
  /\ IF id \in attached THEN RpcRetryCallback(id[1], task[id], count[id[1]], "pool")
     ELSE UNCHANGED <<sched, orig>>
  /\ UNCHANGED <<running, sendVars, flag, attached, count, retryMap, retry, poll, netVars, stop>>

\* The call is put into rpcRetryMap_ under rpcRetryMutex_, which the retry
\* thread holds while it sends.
Reschedule(c) ==
  /\ sched[c] # "no" /\ retry.pc # "send"
  /\ retryMap' = retryMap \cup {c}
  /\ sched' = [sched EXCEPT ![c] = "no"]
  /\ UNCHANGED <<running, sendVars, futVars, attached, orig, count, retry, poll, netVars, stop>>

\* decreaseCallCount, after the callbacks.
DecreaseCallCount(id) ==
  /\ task[id] = "decrease" /\ sched[id[1]] # "pool"
  /\ active' = active - 1
  /\ task' = [task EXCEPT ![id] = "done"]
  /\ UNCHANGED <<running, stage, pending, timeouts, flag, fut, retryVars, poll, netVars, stop>>

-----------------------------------------------------------------------------
(* send().                                                                 *)

\* Mutant: the future is not put into pendingResponseMessage_ first.
RegisterNothing(id) ==
  /\ stage' = [stage EXCEPT ![id] = "registered"]
  /\ UNCHANGED pending

\* send() up to the insertion into pendingResponseMessage_.
Register(id) ==
  /\ stage' = [stage EXCEPT ![id] = "registered"]
  /\ pending' = pending \cup {id}

\* addCallback of the thread pool assertion: on a future that is completed
\* already the callback runs here, outside the pool, and send() throws.
AddAssertion(id) ==
  /\ stage[id] = "registered"
  /\ stage' = [stage EXCEPT ![id] =
       IF fut[id] # "open" \/ id[1] \in BadDevices THEN "threw" ELSE "hooked"]
  /\ UNCHANGED <<pending, timeouts, active>>

IncreaseCallCount(id) ==
  /\ stage[id] = "hooked" /\ stage' = [stage EXCEPT ![id] = "counted"]
  /\ active' = active + 1
  /\ UNCHANGED <<pending, timeouts>>

\* The timeout thread checks rpcAgentRunning_ with timeoutMapMutex_ held.
Check == IF running THEN "armed" ELSE "gone"

\* A notification; it is lost unless the thread waits.
Notify(t) == IF t.pc = "wait" THEN [t EXCEPT !.pc = Check] ELSE t

\* Mutant: the timeout is kept in messageIdToTimeout_ only.
AddTimeoutNot(id) ==
  /\ stage[id] = "counted" /\ stage' = [stage EXCEPT ![id] = "timed"]
  /\ UNCHANGED <<pending, timeouts, active, poll>>

\* The future is put into timeoutMap_ under its mutex and the timeout thread
\* notified, unless the call has no timeout.
AddTimeout(id) ==
  /\ stage[id] = "counted" /\ stage' = [stage EXCEPT ![id] = "timed"]
  /\ IF id[1] \in Timed
     THEN poll.pc # "armed" /\ timeouts' = timeouts \cup {id} /\ poll' = Notify(poll)
     ELSE UNCHANGED <<timeouts, poll>>
  /\ UNCHANGED <<pending, active>>

PipeWrite(id) ==
  /\ stage[id] = "timed" /\ stage' = [stage EXCEPT ![id] = "sent"]
  /\ UNCHANGED <<pending, timeouts, active>>

SendStep(id) ==
  \/ (AddAssertion(id) \/ IncreaseCallCount(id)) /\ UNCHANGED <<poll, wire>>
  \/ AddTimeout(id) /\ UNCHANGED wire
  \/ PipeWrite(id) /\ wire' = [wire EXCEPT ![id] = "request"] /\ UNCHANGED poll

Sending(id) == stage[id] \in {"registered", "hooked", "counted", "timed"}

\* The application calls sendWithRetries(); send() checks rpcAgentRunning_
\* first.
Call(c) ==
  /\ c \in load.calls /\ orig[c] = "none"
  /\ \/ /\ ~running /\ orig' = [orig EXCEPT ![c] = "refused"]
        /\ UNCHANGED <<stage, pending>>
     \/ /\ running /\ orig' = [orig EXCEPT ![c] = "open"]
        /\ Register(<<c, 0>>)
  /\ UNCHANGED <<running, timeouts, active, futVars, attached, count, sched, retryMap,
                 retry, poll, netVars, stop>>

CallerSends(c) ==
  /\ SendStep(<<c, 0>>)
  /\ orig' = IF stage'[<<c, 0>>] = "threw" THEN [orig EXCEPT ![c] = "refused"] ELSE orig
  /\ UNCHANGED <<running, futVars, attached, count, sched, retryMap, retry, flushing, down,
                 ran, stop>>

\* addCallback of rpcRetryCallback: at once when the future is completed.
AttachCallback(id, n, e) ==
  /\ attached' = attached \cup {id}
  /\ IF fut[id] = "open" THEN UNCHANGED <<sched, orig>>
     ELSE RpcRetryCallback(id[1], fut[id], n, e)

CallerAttaches(c) ==
  /\ stage[<<c, 0>>] = "sent" /\ <<c, 0>> \notin attached
  /\ AttachCallback(<<c, 0>>, 0, "caller")
  /\ UNCHANGED <<running, sendVars, futVars, count, retryMap, retry, poll, netVars, stop>>

-----------------------------------------------------------------------------
(* retryExpiredRpcs.                                                       *)

Attempt(c) == <<c, count[c] + 1>>

\* The retries due at the earliest time point are taken, under rpcRetryMutex_.
TakeRetries ==
  /\ retry.pc = "sleep" /\ running
  /\ \E S \in SUBSET retryMap \ {{}} :
       /\ retry' = [retry EXCEPT !.pc = "send", !.batch = S]
       /\ retryMap' = retryMap \ S
  /\ UNCHANGED <<running, sendVars, futVars, attached, orig, count, sched, poll, netVars, stop>>

RetryBegins(c) ==
  /\ retry.pc = "send" /\ c \in retry.batch /\ stage[Attempt(c)] = "none"
  /\ \A d \in retry.batch : ~Sending(Attempt(d))
  /\ Register(Attempt(c))
  /\ UNCHANGED <<running, timeouts, active, futVars, retryVars, poll, netVars, stop>>

RetrySends(c) ==
  /\ retry.pc = "send" /\ c \in retry.batch /\ SendStep(Attempt(c))
  /\ retry' = IF stage'[Attempt(c)] \notin {"sent", "threw"} THEN retry
              ELSE [pc |-> IF retry.batch = {c} THEN "attach" ELSE "send",
                    batch |-> retry.batch \ {c},
                    sent |-> retry.sent \cup {d \in {c} : stage'[Attempt(d)] = "sent"},
                    failed |-> retry.failed \cup {d \in {c} : stage'[Attempt(d)] = "threw"}]
  /\ UNCHANGED <<running, futVars, attached, orig, count, sched, retryMap, flushing, down,
                 ran, stop>>

\* The inline callback of an earlier call has finished.
RetryFree == retry.pc = "attach" /\ \A c \in Calls : sched[c] # "retry"

RetryAttaches(c) ==
  /\ RetryFree /\ c \in retry.sent
  /\ count' = [count EXCEPT ![c] = @ + 1]
  /\ AttachCallback(Attempt(c), count[c] + 1, "retry")
  /\ retry' = [retry EXCEPT !.sent = @ \ {c}]
  /\ UNCHANGED <<running, sendVars, futVars, retryMap, poll, netVars, stop>>

\* Mutant: the calls whose retry threw are forgotten.
RetryForgets(c) ==
  /\ RetryFree /\ retry.sent = {} /\ c \in retry.failed
  /\ retry' = [retry EXCEPT !.failed = @ \ {c}]
  /\ UNCHANGED <<running, sendVars, futVars, attached, orig, count, sched, retryMap, poll,
                 netVars, stop>>

\* setError on the originalFuture_ of a retry that threw.
RetryFails(c) ==
  /\ RetryFree /\ retry.sent = {} /\ c \in retry.failed
  /\ orig' = [orig EXCEPT ![c] = "err"]
  /\ retry' = [retry EXCEPT !.failed = @ \ {c}]
  /\ UNCHANGED <<running, sendVars, futVars, attached, count, sched, retryMap, poll,
                 netVars, stop>>

\* Mutant: only the loop condition is checked, not the flag after each wait.
RetryLoopsOn ==
  /\ RetryFree /\ retry.sent = {} /\ retry.failed = {}
  /\ retry' = [retry EXCEPT !.pc = IF running THEN "sleep" ELSE "gone"]
  /\ UNCHANGED <<running, sendVars, futVars, attached, orig, count, sched, retryMap, poll,
                 netVars, stop>>

\* Back to the loop condition, or out of the thread.
RetryLoops ==
  /\ \/ RetryFree /\ retry.sent = {} /\ retry.failed = {}
     \/ retry.pc = "sleep" /\ ~running
  /\ retry' = [retry EXCEPT !.pc = IF running THEN "sleep" ELSE "gone"]
  /\ UNCHANGED <<running, sendVars, futVars, attached, orig, count, sched, retryMap, poll,
                 netVars, stop>>

-----------------------------------------------------------------------------
(* pollTimeoutRpcs.                                                        *)

PollUnchanged == UNCHANGED <<running, stage, pending, active, futVars, retryVars, netVars, stop>>

\* Nothing is due: wait() or wait_until(), which release the mutex.
PollWaits ==
  /\ poll.pc = "armed" /\ poll' = [poll EXCEPT !.pc = "wait"]
  /\ PollUnchanged /\ UNCHANGED timeouts

\* wait_until() returns after rpcAgentRunning_ was cleared.
PollEnds ==
  /\ poll.pc = "wait" /\ timeouts # {} /\ ~running /\ poll' = [poll EXCEPT !.pc = "gone"]
  /\ PollUnchanged /\ UNCHANGED timeouts

\* The messages of the earliest time point are due and leave both maps.
PollTakes ==
  /\ poll.pc = "armed" \/ (poll.pc = "wait" /\ running)
  /\ \E S \in SUBSET timeouts \ {{}} :
       /\ poll' = [pc |-> "mark", expired |-> S]
       /\ timeouts' = timeouts \ S
  /\ PollUnchanged

PollMarks(id) ==
  /\ poll.pc = "mark" /\ id \in poll.expired
  /\ MarkFuture(id, "err")
  /\ poll' = [pc |-> IF poll.expired = {id} THEN Check ELSE "mark",
              expired |-> poll.expired \ {id}]
  /\ UNCHANGED <<running, sendVars, retryVars, netVars, stop>>

-----------------------------------------------------------------------------
(* TensorPipe and the peers.                                               *)

\* respond() and sendCompletedResponseMessage() of the peer, in one step: it runs the
\* request and answers with a value or an exception; one that is never answered
\* stays on the wire.
Serve(id) ==
  /\ wire[id] = "request" /\ Peer(id) \notin down
  /\ \E r \in {"ok", "err"} : wire' = [wire EXCEPT ![id] = r]
  /\ ran' = ran \cup {id[1]}
  /\ UNCHANGED <<running, sendVars, futVars, retryVars, poll, flushing, down, stop>>

\* The read callback of a response: pendingResponseMessage_, then
\* removeFromTimeoutMap, then the future.
Receive(id) ==
  /\ wire[id] \in {"ok", "err"} /\ Peer(id) \notin down /\ poll.pc # "armed"
  /\ wire' = [wire EXCEPT ![id] = "closed"]
  /\ pending' = pending \ {id}
  /\ timeouts' = timeouts \ {id}
  /\ MarkFuture(id, wire[id])
  /\ UNCHANGED <<running, stage, active, retryVars, poll, flushing, down, ran, stop>>

PipeBreaks(p) ==
  /\ p \in Breakable \ down /\ down' = down \cup {p}
  /\ UNCHANGED <<running, sendVars, futVars, retryVars, poll, flushing, wire, ran, stop>>

\* The callback of a write or read on a pipe in error: handleClientError takes
\* every pending message of the pipe, also those still inside send().
HandleClientError(id) ==
  /\ Peer(id) \in down /\ wire[id] \in {"request", "ok", "err"}
  /\ wire' = [wire EXCEPT ![id] = "closed"]
  /\ LET P == {j \in pending : Peer(j) = Peer(id)} IN
       flushing' = flushing \cup P /\ pending' = pending \ P
  /\ UNCHANGED <<running, stage, timeouts, active, futVars, retryVars, poll, down, ran, stop>>

\* ... and marks each with an error and removes it from the timeout map.
Flush(id) ==
  /\ id \in flushing /\ poll.pc # "armed"
  /\ flushing' = flushing \ {id} /\ timeouts' = timeouts \ {id}
  /\ MarkFuture(id, "err")
  /\ UNCHANGED <<running, stage, pending, active, retryVars, poll, down, wire, ran, stop>>

-----------------------------------------------------------------------------
(* shutdown() and shutdownImpl().                                          *)

Goes(from, to) == stop = from /\ stop' = to

StopUnchanged == UNCHANGED <<sendVars, futVars, retryVars, flushing, wire, ran>>

InSend(c) ==
  \/ Sending(<<c, 0>>) \/ sched[c] = "caller"
  \/ stage[<<c, 0>>] = "sent" /\ <<c, 0>> \notin attached

\* rpcAgentRunning_ is cleared under rpcRetryMutex_ and the retry thread
\* notified; no application thread is inside send().
Stop ==
  /\ load.stops /\ retry.pc # "send" /\ \A c \in Calls : ~InSend(c)
  /\ Goes("none", "stopped") /\ running' = FALSE
  /\ StopUnchanged /\ UNCHANGED <<poll, down>>

JoinRetryThread ==
  /\ retry.pc = "gone" /\ Goes("stopped", "retryJoined")
  /\ StopUnchanged /\ UNCHANGED <<running, poll, down>>

\* timeoutThreadCV_.notify_one(), without timeoutMapMutex_.
NotifyTimeoutThread ==
  /\ Goes("retryJoined", "notified") /\ poll' = Notify(poll)
  /\ StopUnchanged /\ UNCHANGED <<running, down>>

\* The timeout thread is joined and context_->join() closes the pipes.
CloseContext ==
  /\ poll.pc = "gone" /\ Goes("notified", "closing") /\ down' = Peers
  /\ StopUnchanged /\ UNCHANGED <<running, poll>>

\* context_->join() returns once all callbacks ran, waitWorkComplete once the
\* pool is idle.
WaitWorkComplete ==
  /\ Goes("closing", "done") /\ flushing = {}
  /\ \A id \in Ids : wire[id] \in {"none", "closed"} /\ task[id] \in {"none", "done"}
  /\ StopUnchanged /\ UNCHANGED <<running, poll, down>>

-----------------------------------------------------------------------------
CallerStep(c) == CallerSends(c) \/ CallerAttaches(c) \/ (sched[c] = "caller" /\ Reschedule(c))

PoolStep(id) ==
  \/ Complete(id) \/ DecreaseCallCount(id)
  \/ sched[id[1]] = "pool" /\ Reschedule(id[1])

RetryStep ==
  \/ TakeRetries \/ RetryLoops
  \/ \E c \in Calls : \/ RetryBegins(c) \/ RetrySends(c) \/ RetryAttaches(c) \/ RetryFails(c)
                      \/ sched[c] = "retry" /\ Reschedule(c)

PollStep == PollWaits \/ PollEnds \/ PollTakes \/ \E id \in Ids : PollMarks(id)

ShutdownStep == JoinRetryThread \/ NotifyTimeoutThread \/ CloseContext \/ WaitWorkComplete

Next ==
  /\ \/ \E c \in Calls : Call(c) \/ CallerStep(c)
     \/ \E id \in Ids :
          PoolStep(id) \/ Serve(id) \/ Receive(id) \/ HandleClientError(id) \/ Flush(id)
     \/ RetryStep \/ PollStep \/ ShutdownStep \/ Stop
     \/ \E p \in Peers : PipeBreaks(p)
  /\ UNCHANGED load

\* What the agent's threads and TensorPipe do by themselves.
Work ==
  \/ \E c \in Calls : CallerStep(c)
  \/ \E id \in Ids : PoolStep(id) \/ HandleClientError(id) \/ Flush(id)
  \/ RetryStep \/ ShutdownStep

\* The threads run, TensorPipe invokes the callbacks of a pipe in error, and
\* the clock reaches every timeout; peers need not answer.
Fairness == WF_agentVars(Work) /\ WF_agentVars(PollStep) /\ SF_agentVars(PollTakes)

Spec == Init /\ [][Next]_vars /\ Fairness

-----------------------------------------------------------------------------
\* The types; a call that waits for its retry has one left.
TypeOK ==
  /\ load \in Workloads /\ running \in BOOLEAN /\ active \in Int
  /\ stage \in [Ids -> {"none", "registered", "hooked", "counted", "timed", "sent", "threw"}]
  /\ pending \cup timeouts \cup flag \cup attached \cup flushing \subseteq Ids
  /\ task \in [Ids -> {"none", "ok", "err", "decrease", "done"}]
  /\ fut \in [Ids -> {"open", "ok", "err"}]
  /\ orig \in [Calls -> {"none", "open", "ok", "err", "refused"}]
  /\ count \in [Calls -> 0..load.retries]
  /\ sched \in [Calls -> {"no", "pool", "caller", "retry"}]
  /\ retryMap \subseteq {c \in Calls : count[c] < load.retries}
  /\ retry.pc \in {"sleep", "send", "attach", "gone"}
  /\ retry.batch \cup retry.sent \cup retry.failed \subseteq Calls
  /\ poll.pc \in {"armed", "wait", "mark", "gone"} /\ poll.expired \subseteq Ids
  /\ down \subseteq Peers
  /\ wire \in [Ids -> {"none", "request", "ok", "err", "closed"}]
  /\ ran \subseteq Calls
  /\ stop \in {"none", "stopped", "retryJoined", "notified", "closing", "done"}

\* A response always finds its message: the assertions "message ID is not
\* recognized" of the read callback hold, also after a timeout.
ResponseRecognized ==
  \A id \in Ids : wire[id] \in {"ok", "err"} /\ Peer(id) \notin down => id \in pending

\* What join() relies on: when clientActiveCalls_ is 0, and no send() is under
\* way or threw, every future is completed and its callbacks have run.
JoinSeesWork ==
  active = 0 /\ (\A id \in Ids : stage[id] \in {"none", "sent"}) =>
    /\ \A id \in Ids : stage[id] = "sent" => fut[id] # "open"
    /\ \A c \in Calls : sched[c] # "pool"

\* When shutdown() returns, nothing of the agent runs and every call has its
\* answer, except the ones that wait in rpcRetryMap_: those never get one.
SettledAtShutdown ==
  /\ TypeOK
  /\ stop = "done" =>
       /\ \A c \in Calls : orig[c] = "open" => c \in retryMap
       /\ \A c \in Calls : sched[c] = "no"
       /\ \A id \in Ids : task[id] \in {"none", "done"}

\* While the agent runs, a call with a timeout is answered or throws: lost
\* responses, timeouts, broken pipes and failed retries leave no future open.
TimedCallsReturn ==
  \A c \in Timed : orig[c] = "open" ~> (orig[c] # "open" \/ ~running)

\* shutdown() returns, unless the timeout thread missed its notification and
\* sleeps with an empty timeoutMap_.
ShutdownWaitsForTimer ==
  stop = "stopped" ~>
    (stop = "done" \/ (stop = "notified" /\ poll.pc = "wait" /\ timeouts = {}))

\* sendWithRetries() implements RpcCalls: a future is completed at
\* most once, with a value only if the peer ran the request, and a call that
\* throws was never run.
Promise == INSTANCE RpcCalls WITH
  outcome <- orig

ImplementsCalls == Promise!Spec
=============================================================================
