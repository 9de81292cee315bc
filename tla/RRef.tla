-------------------------------- MODULE RRef --------------------------------
(***************************************************************************)
(* The remote reference (RRef) protocol of torch.distributed.rpc: one RRef *)
(* with its owner, the UserRRefs forked from it, and the control messages  *)
(* that keep the owner's fork set in step with them                        *)
(* (torch/csrc/distributed/rpc/rref_context.cpp, rref_impl.cpp and the     *)
(* request handlers of request_callback_no_python.cpp).                    *)
(*                                                                         *)
(* Every worker handles requests and responses on a thread pool, so the    *)
(* network is a set of messages handled in any order, and a handler that   *)
(* enters the context's mutex twice is two steps.  A ForkId names one      *)
(* UserRRef; its instances are never shared by two workers.                *)
(***************************************************************************)
EXTENDS Naturals, FiniteSets

CONSTANTS
  Users,             \* workers that use the RRef
  Owner,             \* the worker that owns it
  Forks,             \* the ForkIds the model may allocate
  SelfFork,          \* the RRefId used as a ForkId by rpc.remote() to self
  None,
  ShareUnconfirmed,  \* may the creator use its RRef before the owner confirms it?
  Shutdowns,         \* may the application call shutdown()?
  Networks,          \* fault models: may attempts time out while their messages stay in flight?
  LossyForks,        \* bound on the forks when they may
  MaxAttempts,       \* bound on the attempts of sendWithRetries
  MaxSlow,           \* bound on the calls whose attempts time out
  MaxFetches         \* bound on the to_here() calls in progress

ASSUME ConstAssumption ==
  /\ IsFiniteSet(Forks) /\ IsFiniteSet(Users)
  /\ Owner \notin Users \cup {None} /\ None \notin Users
  /\ SelfFork \notin Forks /\ None \notin Forks /\ Owner \notin Forks
  /\ {ShareUnconfirmed, Shutdowns} \cup Networks \subseteq BOOLEAN
  /\ MaxAttempts \in Nat \ {0} /\ {MaxFetches, LossyForks, MaxSlow} \subseteq Nat

Workers == Users \cup {Owner}
ForkIds == Forks \cup {SelfFork}

\* Messages sent with sendWithRetries; the others are sent once.
Retried == {"forkRequest", "childAccept", "userDelete"}
Acks == {"forkAck", "acceptAck", "deleteAck"}
Kinds == Retried \cup Acks \cup {"remoteCall", "remoteRet", "rpc"}

VARIABLES
  born,            \* the RRefId was generated
  \* the owner's RRefContext
  owners,          \* the OwnerRRef instance in owners_, 0 if there is none
  made,            \* how many OwnerRRef instances were constructed
  valued,          \* instances whose future_ is completed
  forks,           \* forks_[rrefId]
  stage,           \* assignOwnerRRef and prepareChildFork in progress, per fork
  inst,            \* the instance those steps, and waiting fetches, hold
  ownerRef,        \* the instance the owner's user code holds, 0 if none
  fetch,           \* to_here() of each UserRRef
  \* the users' RRefContexts and UserRRefs
  loc,             \* the worker a fork was made for, None before
  parent,          \* the fork it was forked from, Owner, or None for the creator
  alive,           \* UserRRef instances that exist
  held,            \* ... referenced by user code or by an RPC's arguments
  pendingUsers,    \* pendingUsers_
  confirmedUsers,  \* confirmedUsers_
  pendingChildren, \* pendingChildren_: children whose parent must stay alive
  deletedOnOwner,  \* deletedOnOwner_
  timedOut,        \* timedOut_ of UserRRefs
  \* messages and calls
  lossy,           \* the fault model of this behaviour
  net,             \* messages in flight
  call,            \* attempts of the retried calls
  phase            \* graceful shutdown of each worker

ownerVars == <<owners, made, valued, forks, stage, inst, ownerRef, fetch>>
userVars == <<loc, parent, alive, held, pendingUsers, confirmedUsers,
              pendingChildren, deletedOnOwner, timedOut>>
protocolVars == <<born, ownerVars, userVars, net, call, phase>>
vars == <<lossy, protocolVars>>

Msg(k, f, n) == [kind |-> k, fork |-> f, attempt |-> n]
Idle == [attempt |-> 0, state |-> "idle"]
Open(k, f) == call[k][f].state = "open"

Init ==
  /\ lossy \in Networks
  /\ born = FALSE
  /\ owners = 0 /\ made = 0 /\ valued = {} /\ forks = {} /\ ownerRef = 0
  /\ stage = [f \in ForkIds |-> "none"]
  /\ inst = [f \in ForkIds |-> 0]
  /\ fetch = [f \in Forks |-> "no"]
  /\ loc = [f \in Forks |-> None]
  /\ parent = [f \in Forks |-> None]
  /\ alive = {} /\ held = {} /\ pendingUsers = {} /\ confirmedUsers = {}
  /\ pendingChildren = {} /\ deletedOnOwner = {} /\ timedOut = {}
  /\ net = {}
  /\ call = [k \in Retried |-> [f \in Forks |-> Idle]]
  /\ phase = [w \in Workers |-> "run"]

-----------------------------------------------------------------------------
(* The network and sendWithRetries.                                        *)

Consume(m) == net' = net \ {m}
Reply(m, r) == net' = (net \ {m}) \cup {r}

\* The first attempt of a retried call.
OpenCall(k, f) == call' = [call EXCEPT ![k][f] = [attempt |-> 1, state |-> "open"]]

\* A response completes its call only if it answers the current attempt: the
\* agent has forgotten the attempts that timed out.
Current(m, k) == Open(k, m.fork) /\ call[k][m.fork].attempt = m.attempt

\* An attempt times out: the call is retried, or fails after the last one.
\* The message of the attempt, or its response, may still arrive; a message that
\* is lost is one that stays in net for ever.
AttemptTimesOut(k, f) ==
  /\ lossy /\ Open(k, f)
  /\ Cardinality({c \in Retried \X Forks : call[c[1]][c[2]].attempt > 1} \cup {<<k, f>>})
       \leq MaxSlow
  /\ IF call[k][f].attempt < MaxAttempts
     THEN LET n == call[k][f].attempt + 1 IN
          /\ call' = [call EXCEPT ![k][f].attempt = n]
          /\ net' = net \cup {Msg(k, f, n)}
     ELSE call' = [call EXCEPT ![k][f].state = "failed"] /\ UNCHANGED net
  /\ UNCHANGED <<born, ownerVars, userVars, phase>>

-----------------------------------------------------------------------------
(* Creating the RRef.                                                      *)

\* The next ForkId to allocate, if the bound of the fault model allows one more.
Fresh(f) ==
  /\ loc[f] = None /\ f = (CHOOSE g \in Forks : loc[g] = None)
  /\ lossy => Cardinality({g \in Forks : loc[g] # None}) < LossyForks

\* rpc.remote() on a user: createUserRRef, send, addPendingUser.
Remote(u, f) ==
  /\ ~born /\ phase[u] = "run" /\ Fresh(f)
  /\ born' = TRUE
  /\ loc' = [loc EXCEPT ![f] = u]
  /\ alive' = alive \cup {f} /\ held' = held \cup {f}
  /\ pendingUsers' = pendingUsers \cup {f}
  /\ net' = net \cup {Msg("remoteCall", f, 1)}
  /\ UNCHANGED <<ownerVars, parent, confirmedUsers, pendingChildren, deletedOnOwner,
                 timedOut, call, phase>>

\* Mutant: addSelfAsFork is not called.
RemoteSelfUntracked ==
  /\ ~born /\ phase[Owner] = "run"
  /\ born' = TRUE
  /\ made' = 1 /\ owners' = 1 /\ ownerRef' = 1
  /\ net' = net \cup {Msg("remoteCall", SelfFork, 1)}
  /\ UNCHANGED <<valued, forks, stage, inst, fetch, userVars, call, phase>>

\* rpc.remote() to self: createOwnerRRef, addSelfAsFork, send.
RemoteSelf ==
  /\ ~born /\ phase[Owner] = "run"
  /\ born' = TRUE
  /\ made' = 1 /\ owners' = 1 /\ ownerRef' = 1
  /\ forks' = {SelfFork}
  /\ net' = net \cup {Msg("remoteCall", SelfFork, 1)}
  /\ UNCHANGED <<valued, stage, inst, fetch, userVars, call, phase>>

\* RRef(value) on the owner: createOwnerRRef, which owners_ does not record.
CreateLocal ==
  /\ ~born /\ phase[Owner] = "run"
  /\ born' = TRUE
  /\ made' = 1 /\ ownerRef' = 1 /\ valued' = {1}
  /\ UNCHANGED <<owners, forks, stage, inst, fetch, userVars, net, call, phase>>

-----------------------------------------------------------------------------
(* The owner's context.                                                    *)

\* Mutant: the future in pendingOwners_ is not completed.
GetOrCreateOwnerRRefSilent(i) ==
  IF owners # 0
  THEN i = owners /\ UNCHANGED <<owners, made, fetch>>
  ELSE i = made + 1 /\ owners' = i /\ made' = i /\ UNCHANGED fetch

\* getOrCreateOwnerRRef: i is the instance returned; a new one completes the
\* future in pendingOwners_, so fetches waiting for the owner wait for its value.
GetOrCreateOwnerRRef(i) ==
  IF owners # 0
  THEN i = owners /\ UNCHANGED <<owners, made, fetch>>
  ELSE /\ i = made + 1
       /\ owners' = i /\ made' = i
       /\ fetch' = [g \in Forks |-> IF fetch[g] = "waitOwner" THEN "waitValue" ELSE fetch[g]]

\* Fetches that were waiting for the owner hold the instance just created.
InstAfter(i, f) ==
  inst' = [g \in ForkIds |->
             IF g = f \/ (g \in Forks /\ owners = 0 /\ fetch[g] = "waitOwner")
             THEN i ELSE inst[g]]

\* Mutant: owners_ keeps the OwnerRRef.
DelForkOfOwnerOnly(f) == forks' = forks \ {f} /\ UNCHANGED owners

\* delForkOfOwner: the last fork takes the OwnerRRef out of owners_ with it.
DelForkOfOwner(f) ==
  /\ forks' = forks \ {f}
  /\ owners' = IF forks # {} /\ forks' = {} THEN 0 ELSE owners

\* assignOwnerRRef, first critical section: getOrCreateOwnerRRef.
RecvRemoteCall(m) ==
  /\ m.kind = "remoteCall" /\ m.fork \in Forks
  /\ \E i \in 1..(made + 1) : GetOrCreateOwnerRRef(i) /\ InstAfter(i, m.fork)
  /\ stage' = [stage EXCEPT ![m.fork] = "assign"]
  /\ Consume(m)
  /\ UNCHANGED <<born, valued, forks, ownerRef, userVars, call, phase>>

\* assignOwnerRRef of a call to self: getOwnerRRef(forceCreated) must find it.
RecvSelfCall(m) ==
  /\ m.kind = "remoteCall" /\ m.fork = SelfFork
  /\ IF owners # 0
     THEN /\ inst' = [inst EXCEPT ![SelfFork] = owners]
          /\ stage' = [stage EXCEPT ![SelfFork] = "value"]
          /\ Consume(m)
     ELSE Reply(m, Msg("remoteRet", SelfFork, 1)) /\ UNCHANGED <<inst, stage>>
  /\ UNCHANGED <<born, owners, made, valued, forks, ownerRef, fetch, userVars, call, phase>>

\* assignOwnerRRef, second critical section: addForkOfOwner.
AddForkOfOwner(f) ==
  /\ stage[f] = "assign"
  /\ forks' = forks \cup {f}
  /\ stage' = [stage EXCEPT ![f] = "value"]
  /\ UNCHANGED <<born, owners, made, valued, inst, ownerRef, fetch, userVars, net, call, phase>>

\* assignOwnerRRef: the value future completes and RemoteRet is sent.
AssignValue(f) ==
  /\ stage[f] = "value"
  /\ valued' = valued \cup {inst[f]}
  /\ stage' = [stage EXCEPT ![f] = "none"]
  /\ net' = net \cup {Msg("remoteRet", f, 1)}
  /\ UNCHANGED <<born, owners, made, forks, inst, ownerRef, fetch, userVars, call, phase>>

\* finishCreatingOwnerRRef: the self fork is removed.
RecvSelfRet(m) ==
  /\ m.kind = "remoteRet" /\ m.fork = SelfFork
  /\ DelForkOfOwner(SelfFork)
  /\ Consume(m)
  /\ UNCHANGED <<born, made, valued, stage, inst, ownerRef, fetch, userVars, call, phase>>

\* processRRefForkRequest: addForkOfOwnerIfNotPresent, RRefAck.
RecvForkRequest(m) ==
  /\ m.kind = "forkRequest"
  /\ forks' = forks \cup {m.fork}
  /\ Reply(m, Msg("forkAck", m.fork, m.attempt))
  /\ UNCHANGED <<born, owners, made, valued, stage, inst, ownerRef, fetch, userVars, call, phase>>

\* processRRefUserDelete: delForkOfOwner, RRefAck.
RecvUserDelete(m) ==
  /\ m.kind = "userDelete"
  /\ DelForkOfOwner(m.fork)
  /\ Reply(m, Msg("deleteAck", m.fork, m.attempt))
  /\ UNCHANGED <<born, made, valued, stage, inst, ownerRef, fetch, userVars, call, phase>>

-----------------------------------------------------------------------------
(* Sharing the RRef: an RRef in the arguments of a user's RPC.             *)

\* A UserRRef received in an RPC reaches user code once it is confirmed; the
\* creator's is usable at once.
Usable(f) ==
  /\ f \in held /\ phase[loc[f]] = "run" /\ f \notin timedOut \cup deletedOnOwner
  /\ f \in pendingUsers => parent[f] = None

\* Mutant: no addPendingChild.
ShareFromUserUntracked(f, c, w) ==
  /\ Usable(f) /\ Fresh(c)
  /\ ShareUnconfirmed \/ f \notin pendingUsers
  /\ loc' = [loc EXCEPT ![c] = w]
  /\ parent' = [parent EXCEPT ![c] = f]
  /\ net' = net \cup {Msg("rpc", c, 1)}
  /\ UNCHANGED <<born, ownerVars, alive, held, pendingUsers, confirmedUsers,
                 pendingChildren, deletedOnOwner, timedOut, call, phase>>

\* prepareChildFork of a UserRRef: addPendingChild, then the RPC is sent.
ShareFromUser(f, c, w) ==
  /\ Usable(f) /\ Fresh(c)
  /\ ShareUnconfirmed \/ f \notin pendingUsers
  /\ loc' = [loc EXCEPT ![c] = w]
  /\ parent' = [parent EXCEPT ![c] = f]
  /\ pendingChildren' = pendingChildren \cup {c}
  /\ net' = net \cup {Msg("rpc", c, 1)}
  /\ UNCHANGED <<born, ownerVars, alive, held, pendingUsers, confirmedUsers,
                 deletedOnOwner, timedOut, call, phase>>

\* Mutant: no early fork registration.
ShareFromOwnerUntracked(c, w) ==
  /\ ownerRef # 0 /\ phase[Owner] = "run" /\ SelfFork \notin timedOut /\ Fresh(c)
  /\ stage' = [stage EXCEPT ![c] = "prepare"]
  /\ inst' = [inst EXCEPT ![c] = ownerRef]
  /\ loc' = [loc EXCEPT ![c] = w]
  /\ parent' = [parent EXCEPT ![c] = Owner]
  /\ UNCHANGED <<born, owners, made, valued, forks, ownerRef, fetch, alive, held, pendingUsers,
                 confirmedUsers, pendingChildren, deletedOnOwner, timedOut, net, call, phase>>

\* prepareChildFork of the OwnerRRef: first addForkOfOwner ...
ShareFromOwner(c, w) ==
  /\ ownerRef # 0 /\ phase[Owner] = "run" /\ SelfFork \notin timedOut /\ Fresh(c)
  /\ forks' = forks \cup {c}
  /\ stage' = [stage EXCEPT ![c] = "prepare"]
  /\ inst' = [inst EXCEPT ![c] = ownerRef]
  /\ loc' = [loc EXCEPT ![c] = w]
  /\ parent' = [parent EXCEPT ![c] = Owner]
  /\ UNCHANGED <<born, owners, made, valued, ownerRef, fetch, alive, held, pendingUsers,
                 confirmedUsers, pendingChildren, deletedOnOwner, timedOut, net, call, phase>>

\* ... then owners_ is written in a second critical section, and the RPC sent.
KeepOwner(c) ==
  /\ stage[c] = "prepare"
  /\ owners' = inst[c]
  /\ stage' = [stage EXCEPT ![c] = "none"]
  /\ net' = net \cup {Msg("rpc", c, 1)}
  /\ UNCHANGED <<born, made, valued, forks, inst, ownerRef, fetch, userVars, call, phase>>

\* getOrCreateRRef and notifyOwnerAndParentOfFork when the callee is the owner.
\* From a user the fork is a phantom one and its parent is told; from the owner
\* itself, the fork added by prepareChildFork keeps the OwnerRRef until here.
RecvRpcAtOwner(m) ==
  /\ m.kind = "rpc" /\ loc[m.fork] = Owner
  /\ IF parent[m.fork] = Owner
     THEN /\ DelForkOfOwner(m.fork)
          /\ ownerRef' = owners
          /\ Consume(m)
          /\ UNCHANGED <<made, fetch, inst, call>>
     ELSE /\ \E i \in 1..(made + 1) :
               GetOrCreateOwnerRRef(i) /\ InstAfter(i, SelfFork) /\ ownerRef' = i
          /\ OpenCall("childAccept", m.fork)
          /\ Reply(m, Msg("childAccept", m.fork, 1))
          /\ UNCHANGED forks
  /\ UNCHANGED <<born, valued, stage, userVars, phase>>

\* ... and when the callee is a user: addConfirmedUser if the owner sent it,
\* else a fork request to the owner and addPendingUser.
RecvRpcAtUser(m) ==
  /\ m.kind = "rpc" /\ loc[m.fork] # Owner
  /\ alive' = alive \cup {m.fork} /\ held' = held \cup {m.fork}
  /\ IF parent[m.fork] = Owner
     THEN /\ confirmedUsers' = confirmedUsers \cup {m.fork}
          /\ Consume(m)
          /\ UNCHANGED <<pendingUsers, call>>
     ELSE /\ pendingUsers' = pendingUsers \cup {m.fork}
          /\ OpenCall("forkRequest", m.fork)
          /\ Reply(m, Msg("forkRequest", m.fork, 1))
          /\ UNCHANGED confirmedUsers
  /\ UNCHANGED <<born, ownerVars, loc, parent, pendingChildren, deletedOnOwner, timedOut, phase>>

\* delPendingUser: addConfirmedUser, and pendingUsers_ lets go of the UserRRef.
DelPendingUser(f) ==
  /\ pendingUsers' = pendingUsers \ {f}
  /\ confirmedUsers' = confirmedUsers \cup {f}

\* finishForkRequest: the fork is confirmed and its parent told.
RecvForkAck(m) ==
  /\ m.kind = "forkAck"
  /\ IF Current(m, "forkRequest")
     THEN /\ DelPendingUser(m.fork)
          /\ call' = [call EXCEPT !["forkRequest"][m.fork].state = "done",
                                  !["childAccept"][m.fork] = [attempt |-> 1, state |-> "open"]]
          /\ Reply(m, Msg("childAccept", m.fork, 1))
     ELSE Consume(m) /\ UNCHANGED <<pendingUsers, confirmedUsers, call>>
  /\ UNCHANGED <<born, ownerVars, loc, parent, alive, held, pendingChildren,
                 deletedOnOwner, timedOut, phase>>

\* Mutant: delPendingChild is not called.
RecvChildAcceptIgnored(m) ==
  /\ m.kind = "childAccept"
  /\ Reply(m, Msg("acceptAck", m.fork, m.attempt))
  /\ UNCHANGED <<born, ownerVars, userVars, call, phase>>

\* processRRefChildAccept: delPendingChild, RRefAck.
RecvChildAccept(m) ==
  /\ m.kind = "childAccept"
  /\ pendingChildren' = pendingChildren \ {m.fork}
  /\ Reply(m, Msg("acceptAck", m.fork, m.attempt))
  /\ UNCHANGED <<born, ownerVars, loc, parent, alive, held, pendingUsers, confirmedUsers,
                 deletedOnOwner, timedOut, call, phase>>

\* The callbacks of RRefChildAccept and RRefUserDelete.
RecvAck(m, k, ack) ==
  /\ m.kind = ack
  /\ call' = IF Current(m, k) THEN [call EXCEPT ![k][m.fork].state = "done"] ELSE call
  /\ Consume(m)
  /\ UNCHANGED <<born, ownerVars, userVars, phase>>

\* confirmPendingUser without an error.  The response of a call that already timed
\* out is dropped by the agent, which has forgotten the message's id.
RecvRemoteRet(m) ==
  /\ m.kind = "remoteRet" /\ m.fork \in Forks
  /\ IF m.fork \in timedOut
     THEN UNCHANGED <<pendingUsers, confirmedUsers>>
     ELSE DelPendingUser(m.fork)
  /\ Consume(m)
  /\ UNCHANGED <<born, ownerVars, loc, parent, alive, held, pendingChildren,
                 deletedOnOwner, timedOut, call, phase>>

\* confirmPendingUser with a timeout: handleError, delPendingUser.
RemoteTimesOut(f) ==
  /\ lossy /\ f \in pendingUsers /\ parent[f] = None
  /\ timedOut' = timedOut \cup {f}
  /\ DelPendingUser(f)
  /\ UNCHANGED <<born, ownerVars, loc, parent, alive, held, pendingChildren,
                 deletedOnOwner, net, call, phase>>

\* finishCreatingOwnerRRef with a timeout.
SelfTimesOut ==
  /\ lossy /\ SelfFork \in forks /\ SelfFork \notin timedOut
  /\ timedOut' = timedOut \cup {SelfFork}
  /\ DelForkOfOwner(SelfFork)
  /\ UNCHANGED <<born, made, valued, stage, inst, ownerRef, fetch, loc, parent, alive, held,
                 pendingUsers, confirmedUsers, pendingChildren, deletedOnOwner, net, call, phase>>

-----------------------------------------------------------------------------
(* to_here().                                                              *)

SetFetch(f, from, to) == fetch[f] = from /\ fetch' = [fetch EXCEPT ![f] = to]

\* UserRRef::toHere() sends a fetch; the UserRRef stays alive until it returns.
ToHere(f) ==
  /\ Cardinality({g \in Forks : fetch[g] # "no"}) < MaxFetches
  /\ Usable(f) /\ SetFetch(f, "no", "sent")
  /\ UNCHANGED <<born, owners, made, valued, forks, stage, inst, ownerRef, userVars, net,
                 call, phase>>

\* retrieveOwnerRRef: wait for the OwnerRRef to be created, or for its value.
RetrieveOwnerRRef(f) ==
  /\ SetFetch(f, "sent", IF owners = 0 THEN "waitOwner" ELSE "waitValue")
  /\ inst' = [inst EXCEPT ![f] = owners]
  /\ UNCHANGED <<born, owners, made, valued, forks, stage, ownerRef, userVars, net, call, phase>>

\* The value is there: the response is sent, and toHere() returns.
FetchReturns(f) ==
  /\ inst[f] \in valued /\ SetFetch(f, "waitValue", "no")
  /\ inst' = [inst EXCEPT ![f] = 0]
  /\ UNCHANGED <<born, owners, made, valued, forks, stage, ownerRef, userVars, net, call, phase>>

-----------------------------------------------------------------------------
(* Dropping references.                                                    *)

\* User code drops its last reference to a UserRRef.
Release(f) ==
  /\ f \in held /\ fetch[f] = "no"
  /\ f \in pendingUsers => parent[f] = None
  /\ held' = held \ {f}
  /\ UNCHANGED <<born, ownerVars, loc, parent, alive, pendingUsers, confirmedUsers,
                 pendingChildren, deletedOnOwner, timedOut, net, call, phase>>

OwnerRelease ==
  /\ ownerRef # 0 /\ ownerRef' = 0
  /\ UNCHANGED <<born, owners, made, valued, forks, stage, inst, fetch, userVars, net,
                 call, phase>>

\* tryDel of every fork in D: RRefUserDelete unless the context is destroyed.
DelUsers(D) ==
  LET S == {f \in D \ deletedOnOwner : phase[loc[f]] # "left"} IN
  /\ deletedOnOwner' = deletedOnOwner \cup D
  /\ net' = net \cup {Msg("userDelete", f, 1) : f \in S}
  /\ call' = [call EXCEPT !["userDelete"] = [f \in Forks |->
                IF f \in S THEN [attempt |-> 1, state |-> "open"] ELSE call["userDelete"][f]]]

\* Mutant: pendingChildren_ does not hold a reference to the parent.
DestroyUserEarly(f) ==
  /\ f \in alive \ (held \cup pendingUsers)
  /\ alive' = alive \ {f}
  /\ confirmedUsers' = confirmedUsers \ {f}
  /\ DelUsers({f})
  /\ UNCHANGED <<born, ownerVars, loc, parent, held, pendingUsers, pendingChildren,
                 timedOut, phase>>

\* Nothing references the UserRRef any more, neither user code nor the maps of
\* RRefContext: release_resources() runs.
DestroyUser(f) ==
  /\ f \in alive \ (held \cup pendingUsers)
  /\ \A c \in pendingChildren : parent[c] # f
  /\ alive' = alive \ {f}
  /\ confirmedUsers' = confirmedUsers \ {f}
  /\ DelUsers({f})
  /\ UNCHANGED <<born, ownerVars, loc, parent, held, pendingUsers, pendingChildren,
                 timedOut, phase>>

-----------------------------------------------------------------------------
(* Graceful shutdown.                                                      *)

\* _wait_all_workers: every worker has finished its user RPCs.
BeginShutdown ==
  /\ Shutdowns /\ \A w \in Workers : phase[w] = "run"
  /\ \A m \in net : m.kind # "rpc"
  /\ \A f \in Forks : fetch[f] = "no" /\ stage[f] # "prepare"
  /\ \A f \in held \cap pendingUsers : parent[f] = None
  /\ phase' = [w \in Workers |-> "drain"]
  /\ UNCHANGED <<born, ownerVars, userVars, net, call>>

\* Mutant: it does not wait for the pending users and children.
DelAllUsersAtOnce(w) ==
  LET Here == {f \in Forks : loc[f] = w} IN
  /\ phase[w] = "drain"
  /\ confirmedUsers' = confirmedUsers \ Here
  /\ DelUsers(confirmedUsers \cap Here)
  /\ owners' = IF w = Owner /\ forks = {} THEN 0 ELSE owners
  /\ phase' = [phase EXCEPT ![w] = "wait"]
  /\ UNCHANGED <<born, made, valued, forks, stage, inst, ownerRef, fetch, loc, parent, alive,
                 held, pendingUsers, pendingChildren, timedOut>>

\* delAllUsersAndUnforkedOwners up to its last wait.
DelAllUsers(w) ==
  LET Here == {f \in Forks : loc[f] = w} IN
  /\ phase[w] = "drain"
  /\ \/ lossy
     \/ /\ pendingUsers \cap Here = {}
        /\ \A c \in pendingChildren : parent[c] \notin Here
  /\ confirmedUsers' = confirmedUsers \ Here
  /\ DelUsers(confirmedUsers \cap Here)
  /\ owners' = IF w = Owner /\ forks = {} THEN 0 ELSE owners
  /\ phase' = [phase EXCEPT ![w] = "wait"]
  /\ UNCHANGED <<born, made, valued, forks, stage, inst, ownerRef, fetch, loc, parent, alive,
                 held, pendingUsers, pendingChildren, timedOut>>

\* owners_ became empty, or the wait timed out; the worker joins the agents.
WaitForOwners(w) ==
  /\ phase[w] = "wait" /\ (lossy \/ w # Owner \/ owners = 0)
  /\ phase' = [phase EXCEPT ![w] = "join"]
  /\ UNCHANGED <<born, ownerVars, userVars, net, call>>

\* The agents' join() returns when all workers entered it and no call is active;
\* then destroyInstance() clears owners_.
Leave(w) ==
  /\ phase[w] = "join" /\ \A v \in Workers : phase[v] \in {"join", "left"}
  /\ net = {} /\ \A k \in Retried, f \in Forks : ~Open(k, f)
  /\ \A f \in ForkIds : stage[f] = "none"
  /\ phase' = [phase EXCEPT ![w] = "left"]
  /\ owners' = IF w = Owner THEN 0 ELSE owners
  /\ UNCHANGED <<born, made, valued, forks, stage, inst, ownerRef, fetch, userVars, net, call>>

-----------------------------------------------------------------------------
Deliver(m) ==
  \/ RecvRemoteCall(m) \/ RecvSelfCall(m) \/ RecvSelfRet(m) \/ RecvRemoteRet(m)
  \/ RecvForkRequest(m) \/ RecvUserDelete(m) \/ RecvChildAccept(m)
  \/ RecvRpcAtOwner(m) \/ RecvRpcAtUser(m) \/ RecvForkAck(m)
  \/ RecvAck(m, "childAccept", "acceptAck") \/ RecvAck(m, "userDelete", "deleteAck")

\* What the runtime does by itself for one fork, without user code.
Progress(f) ==
  \/ \E m \in net : m.fork = f /\ Deliver(m)
  \/ AddForkOfOwner(f) \/ AssignValue(f)
  \/ f \in Forks /\ (KeepOwner(f) \/ DestroyUser(f))

Answer(f) == RetrieveOwnerRRef(f) \/ FetchReturns(f)

Shutdown(w) == DelAllUsers(w) \/ WaitForOwners(w) \/ Leave(w)

UserCode ==
  \/ \E u \in Users, f \in Forks : Remote(u, f)
  \/ RemoteSelf \/ CreateLocal
  \/ \E f, c \in Forks, w \in Workers : ShareFromUser(f, c, w)
  \/ \E c \in Forks, w \in Workers : ShareFromOwner(c, w)
  \/ \E f \in Forks : ToHere(f) \/ Release(f)
  \/ OwnerRelease

Faults ==
  \/ \E k \in Retried, f \in Forks : AttemptTimesOut(k, f)
  \/ \E f \in Forks : RemoteTimesOut(f)
  \/ SelfTimesOut

Next ==
  /\ \/ UserCode \/ Faults \/ BeginShutdown
     \/ \E f \in ForkIds : Progress(f)
     \/ \E f \in Forks : Answer(f)
     \/ \E w \in Workers : Shutdown(w)
  /\ UNCHANGED lossy

\* What the runtime and the threads inside shutdown() do by themselves.
Runtime == (\E f \in ForkIds : Progress(f)) \/ (\E w \in Workers : Shutdown(w))

\* Some thread of the agents' pools or of shutdown() runs while one can: no
\* handler blocks; and the handlers of every fetch run.
Fairness ==
  /\ WF_protocolVars(Runtime)
  /\ \A f \in Forks : WF_protocolVars(Answer(f))

Spec == Init /\ [][Next]_vars /\ Fairness

-----------------------------------------------------------------------------
\* The types; pending and confirmed UserRRefs are forks of this RRef.
TypeOK ==
  /\ lossy \in BOOLEAN /\ born \in BOOLEAN
  /\ owners \in Nat /\ made \in Nat /\ ownerRef \in Nat
  /\ valued \subseteq Nat
  /\ forks \subseteq ForkIds
  /\ stage \in [ForkIds -> {"none", "assign", "value", "prepare"}]
  /\ inst \in [ForkIds -> Nat]
  /\ fetch \in [Forks -> {"no", "sent", "waitOwner", "waitValue"}]
  /\ loc \in [Forks -> Workers \cup {None}]
  /\ parent \in [Forks -> Forks \cup {Owner, None}]
  /\ alive \subseteq Forks /\ held \subseteq alive
  /\ pendingUsers \subseteq alive /\ confirmedUsers \subseteq alive
  /\ pendingUsers \cap confirmedUsers = {}
  /\ pendingChildren \subseteq Forks /\ deletedOnOwner \subseteq Forks
  /\ timedOut \subseteq ForkIds
  /\ net \subseteq [kind : Kinds, fork : ForkIds, attempt : 1..MaxAttempts]
  /\ call \in [Retried -> [Forks -> [attempt : 0..MaxAttempts,
                                     state : {"idle", "open", "done", "failed"}]]]
  /\ phase \in [Workers -> {"run", "drain", "wait", "join", "left"}]

\* "Keep OwnerRRefs alive until there is no living UserRRefs": unless its creation
\* timed out, a confirmed UserRRef is known to the owner, and while one exists and
\* nobody shuts down, owners_ holds the OwnerRRef.  It is always the same
\* instance: nobody ever waits for the value of a second one.
OwnerKept ==
  /\ made \leq 1
  /\ confirmedUsers \ timedOut \subseteq forks
  /\ confirmedUsers \ timedOut # {} /\ made > 0 /\ phase[Owner] = "run" => owners # 0

\* A child that its parent's worker still tracks has a living parent, whose
\* RRefUserDelete is not sent; so the owner knows some fork until it knows the
\* child itself (guarantee G2 of the design).
ParentOutlivesChild ==
  \A c \in pendingChildren :
    /\ parent[c] \in alive
    /\ phase[loc[parent[c]]] \in {"run", "drain"} => parent[c] \notin deletedOnOwner

\* A UserRRef in the arguments of an RPC in flight is still tracked as a child
\* by the user that sent it, or as a fork by the owner.
InFlightTracked ==
  \A m \in net :
    m.kind = "rpc" => m.fork \in (IF parent[m.fork] = Owner THEN forks ELSE pendingChildren)

\* The internal assertions hold: addForkOfOwner never sees its fork,
\* delPendingUser finds it, and a remote call to self finds its OwnerRRef; no
\* table holds what it may not, nor a UserRRef both pending and confirmed.
\* One case is excepted, because there the code's assertion fails: a remote() to
\* self that timed out before its handler ran.  finishCreatingOwnerRRef has then
\* deleted the self fork, and the OwnerRRef with it when it was the last one, and
\* the late handler's getOwnerRRef(forceCreated) meets an empty owners_.
AssertionsHold ==
  /\ TypeOK
  /\ \A f \in Forks : stage[f] = "assign" => f \notin forks
  /\ \A f \in Forks : Open("forkRequest", f) => f \in pendingUsers
  /\ \A m \in net : m.kind = "remoteRet" /\ m.fork \in Forks \ timedOut => m.fork \in pendingUsers
  /\ \A m \in net :
       m.kind = "remoteCall" /\ m.fork = SelfFork /\ SelfFork \notin timedOut => owners # 0

\* Nothing is left to do for the RRef, nobody uses it and no call failed.
Quiescent ==
  /\ alive = {} /\ ownerRef = 0 /\ net = {} /\ timedOut = {}
  /\ \A f \in ForkIds : stage[f] = "none"
  /\ \A k \in Retried, f \in Forks : call[k][f].state \in {"idle", "done"}

\* When the last UserRRef is gone and all messages are handled, the owner has
\* forgotten the RRef: no fork and no OwnerRRef leak.
NoLeak == ~lossy /\ Quiescent => forks = {} /\ owners = 0

\* checkRRefLeaks finds nothing when a graceful shutdown reaches it.
CleanShutdown == phase[Owner] = "left" => forks = {}

\* to_here() always returns.
ToHereReturns == \A f \in Forks : fetch[f] # "no" ~> fetch[f] = "no"

Unused == held = {} /\ ownerRef = 0 /\ \A m \in net : m.kind # "rpc"

\* When user code drops every reference, the owner eventually lets go of the
\* value.
EventuallyReclaimed == (born /\ Unused) ~> (owners = 0 \/ ~Unused)

\* A graceful shutdown terminates on every worker.
ShutdownCompletes ==
  (\E w \in Workers : phase[w] = "drain") ~> \A w \in Workers : phase[w] = "left"
=============================================================================
