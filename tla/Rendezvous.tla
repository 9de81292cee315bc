----------------------------- MODULE Rendezvous -----------------------------
(***************************************************************************)
(* The dynamic rendezvous of Torch Distributed Elastic                     *)
(* (torch/distributed/elastic/rendezvous/dynamic_rendezvous.py) with the   *)
(* elastic agents that use it (agent/server/api.py): nodes agree on the    *)
(* members of a round and their ranks through one record in a store that   *)
(* is only changed by compare-and-set, and remove each other when          *)
(* heartbeats expire.                                                      *)
(*                                                                         *)
(* A write with an old token returns the record that is stored, exactly    *)
(* like a read, so a node's dirty local state matters only as long as its  *)
(* token is current: another node's write resets dirty[n].  The clocks of  *)
(* the hosts agree on which heartbeats are expired.                        *)
(***************************************************************************)
EXTENDS Naturals, FiniteSets, Functions

CONSTANTS
  Nodes,       \* node descriptors, as numbers in their order
  None,
  MinNodes, MaxNodes,
  MaxRounds,   \* bound: no node rejoins after this round
  MaxFailures, \* bound on crashes, stalls and jobs that end
  MaxTimeouts  \* bound on deadlines that pass and heartbeats that are due

ASSUME RendezvousAssumption ==
  /\ Nodes \subseteq Nat /\ IsFiniteSet(Nodes)
  /\ MinNodes \in Nat \ {0} /\ MaxNodes \in Nat /\ MinNodes \leq MaxNodes
  /\ {MaxRounds, MaxFailures, MaxTimeouts} \subseteq Nat

VARIABLES
  backend,   \* the _RendezvousState in the store
  dirty,     \* _state of a node that is _dirty, while its _token is current
  pc,        \* what the node's main thread executes
  beating,   \* its timer thread is inside _keep_alive()
  late,      \* its operation's deadline: ahead, passed, or past the rollback period
  world,     \* the result of its last next_rendezvous()
  roleInfo,  \* the role_info keys in the stores of all rounds
  expired,   \* nodes whose heartbeat in the record is too old
  stalled,   \* live nodes that were ever found so
  formed,    \* the participants of every round that completed, by round
  failures, timeouts  \* how many of the bounded events happened

nodeVars == <<pc, beating, late, world>>
bounds == <<failures, timeouts>>
vars == <<backend, dirty, nodeVars, roleInfo, expired, stalled, formed, bounds>>

Gone == {"close", "left", "crashed"}
Active(n) == pc[n] \in {"gather", "run"}

Init ==
  /\ backend = [round |-> 0, complete |-> FALSE, deadline |-> "none", closed |-> FALSE,
                participants |-> <<>>, waitList |-> {}, heartbeats |-> {}]
  /\ dirty = [n \in Nodes |-> None]
  /\ pc = [n \in Nodes |-> "exit"]
  /\ beating = [n \in Nodes |-> FALSE]
  /\ late = [n \in Nodes |-> "no"]
  /\ world = [n \in Nodes |-> None]
  /\ roleInfo = {}
  /\ expired = {} /\ stalled = {}
  /\ formed = <<>>
  /\ failures = 0 /\ timeouts = 0

-----------------------------------------------------------------------------
(* The record and what a node does to its copy.                            *)

Members(s) == DOMAIN s.participants

\* Mutant: the deadline is kept when a participant leaves.
EpilogueKeepsDeadline(s) ==
  IF s.complete /\ Members(s) = {} THEN [s EXCEPT !.complete = FALSE, !.round = @ + 1] ELSE s

\* Mutant: the round ends when the first member leaves.
EpilogueEndsRound(s) ==
  IF s.complete THEN [s EXCEPT !.complete = FALSE, !.round = @ + 1]
  ELSE IF Cardinality(Members(s)) < MinNodes THEN [s EXCEPT !.deadline = "none"] ELSE s

\* _remove_participant_epilogue.
Epilogue(s) ==
  IF s.complete
  THEN IF Members(s) = {} THEN [s EXCEPT !.complete = FALSE, !.round = @ + 1] ELSE s
  ELSE IF Cardinality(Members(s)) < MinNodes THEN [s EXCEPT !.deadline = "none"] ELSE s

Without(s, gone) ==
  [s EXCEPT !.participants = Restrict(@, Members(s) \ gone),
            !.waitList = @ \ gone, !.heartbeats = @ \ gone]

\* Mutant: no epilogue.
SanitizeOnly(s, dead) == Without(s, dead)

\* _sanitize: dead nodes are removed from the copy that was read.
Sanitize(s, dead) ==
  IF Members(s) \cap dead # {} THEN Epilogue(Without(s, dead)) ELSE Without(s, dead)

\* _mark_rendezvous_complete: the ranks follow the order of the descriptors.
MarkComplete(s) ==
  [s EXCEPT !.complete = TRUE, !.deadline = "none",
            !.participants = [n \in Members(s) |-> Cardinality({m \in Members(s) : m < n})]]

\* _add_to_participants.
AddToParticipants(s, n) ==
  LET P == Members(s) \cup {n}
      t == [s EXCEPT !.waitList = @ \ {n}, !.heartbeats = @ \cup {n},
                     !.participants = [m \in P |-> IF m = n THEN 0 ELSE @[m]],
                     !.deadline = IF Cardinality(P) = MinNodes THEN "set" ELSE @]
  IN IF Cardinality(P) = MaxNodes THEN MarkComplete(t) ELSE t

\* The actions of the executor that change the copy.
Apply(a, s, n) ==
  CASE a = "KEEP_ALIVE" -> s
    [] a = "ADD_TO_PARTICIPANTS" -> AddToParticipants(s, n)
    [] a = "ADD_TO_WAIT_LIST" -> [s EXCEPT !.waitList = @ \cup {n}, !.heartbeats = @ \cup {n}]
    [] a = "REMOVE_FROM_PARTICIPANTS" -> Epilogue(Without(s, {n}))
    [] a = "REMOVE_FROM_WAIT_LIST" -> Without(s, {n})
    [] a = "MARK_RENDEZVOUS_COMPLETE" -> MarkComplete(s)
    [] a = "MARK_RENDEZVOUS_CLOSED" -> [s EXCEPT !.closed = TRUE]

\* The actions that set the node's own heartbeat.
Beats == {"KEEP_ALIVE", "ADD_TO_PARTICIPANTS", "ADD_TO_WAIT_LIST"}
Errors == {"ERROR_CLOSED", "ERROR_TIMEOUT"}

-----------------------------------------------------------------------------
(* The operations: which action the executor takes next.                   *)

\* _RendezvousExitOp.
ExitOp(s, n) ==
  CASE n \notin Members(s) -> "FINISH"
    [] n \in Members(s) /\ late[n] # "no" -> "ERROR_TIMEOUT"
    [] n \in Members(s) /\ late[n] = "no" -> "REMOVE_FROM_PARTICIPANTS"

\* _RendezvousJoinOp after its deadline: it rolls back for a while.
LateJoin(s, n) ==
  CASE late[n] = "late" /\ n \in Members(s) -> "REMOVE_FROM_PARTICIPANTS"
    [] late[n] = "late" /\ n \in s.waitList -> "REMOVE_FROM_WAIT_LIST"
    [] OTHER -> "ERROR_TIMEOUT"

\* _RendezvousJoinOp; due says that the heartbeat needs to be renewed.
JoinOp(s, n, due) ==
  CASE s.closed -> "ERROR_CLOSED"
    [] ~s.closed /\ s.complete /\ n \in Members(s) -> "FINISH"
    [] ~s.closed /\ ~(s.complete /\ n \in Members(s)) ->
         IF late[n] # "no" THEN LateJoin(s, n)
         ELSE IF s.complete /\ Cardinality(Members(s)) < MaxNodes /\ n \notin s.waitList
         THEN "ADD_TO_WAIT_LIST"
         ELSE IF ~s.complete /\ n \notin Members(s) THEN "ADD_TO_PARTICIPANTS"
         ELSE IF ~s.complete /\ Cardinality(Members(s)) >= MinNodes /\ s.deadline = "passed"
         THEN "MARK_RENDEZVOUS_COMPLETE"
         ELSE IF due THEN "KEEP_ALIVE" ELSE "SYNC"

\* _RendezvousCloseOp; it may time out in any iteration.
CloseOp(s, over) ==
  CASE s.closed -> "FINISH"
    [] ~s.closed /\ over -> "ERROR_TIMEOUT"
    [] ~s.closed /\ ~over -> "MARK_RENDEZVOUS_CLOSED"

-----------------------------------------------------------------------------
(* sync() and run() of the executor.                                       *)

\* The record after n's sync, and the heartbeats that are too old then.
Stored(n) == IF dirty[n] = None THEN backend ELSE dirty[n].state
Dead(n) ==
  (expired \cap Stored(n).heartbeats)
    \ (IF dirty[n] # None /\ dirty[n].beat THEN {n} ELSE {})
View(n) == Sanitize(Stored(n), Dead(n))

\* The events that the model bounds.
Failure == failures < MaxFailures /\ failures' = failures + 1 /\ UNCHANGED timeouts
Timeout == timeouts < MaxTimeouts /\ timeouts' = timeouts + 1 /\ UNCHANGED failures

\* _should_keep_alive may hold: n did not write its heartbeat in this sync.
MayBeDue(n) == n \in View(n).heartbeats /\ ~(dirty[n] # None /\ dirty[n].beat)

\* The rounds that have completed once s is in the store.
FormedWith(s) ==
  IF ~s.complete \/ s.round \in DOMAIN formed THEN formed
  ELSE [r \in DOMAIN formed \cup {s.round} |-> IF r = s.round THEN s.participants ELSE formed[r]]

\* Mutant: the token is not compared.
SyncBlind(n, new) ==
  /\ backend' = Stored(n) /\ expired' = Dead(n) /\ dirty' = [dirty EXCEPT ![n] = new]
  /\ formed' = FormedWith(Stored(n))

\* A write resets the copies of the others; new is what n leaves dirty.
Sync(n, new) ==
  /\ backend' = Stored(n)
  /\ expired' = Dead(n)
  /\ dirty' = [m \in Nodes |-> IF m = n THEN new
                               ELSE IF dirty[n] = None THEN dirty[m] ELSE None]
  /\ formed' = FormedWith(Stored(n))

\* One iteration of run() whose action changes nothing, or changes the copy.
Proceed(n, s, a) ==
  \/ a = "SYNC" /\ Sync(n, None)
  \/ /\ a \notin Errors \cup {"FINISH", "SYNC"}
     /\ Sync(n, [state |-> Apply(a, s, n), beat |-> a \in Beats])

\* The node's main thread goes on with a new deadline.
Goto(n, l) ==
  /\ pc' = [pc EXCEPT ![n] = l]
  /\ late' = [late EXCEPT ![n] = "no"]
  /\ UNCHANGED beating

-----------------------------------------------------------------------------
(* next_rendezvous(), shutdown() and the keep-alive timer.                 *)

\* The first operation of next_rendezvous(); an error makes the launcher call
\* shutdown().
Exit(n) ==
  LET s == View(n) a == ExitOp(s, n) IN
  /\ pc[n] = "exit"
  /\ \/ Proceed(n, s, a) /\ UNCHANGED <<pc, late, beating>>
     \/ a \in Errors /\ Sync(n, None) /\ Goto(n, "close")
     \/ /\ a = "FINISH" /\ Sync(n, None)
        /\ pc' = [pc EXCEPT ![n] = "join"] /\ UNCHANGED <<late, beating>>
  /\ UNCHANGED <<world, roleInfo, stalled, bounds>>

\* The second one, then _start_heartbeats and _get_world.
Join(n) ==
  /\ pc[n] = "join"
  /\ \E due \in BOOLEAN :
       LET s == View(n) a == JoinOp(s, n, due) IN
       /\ IF a = "KEEP_ALIVE" THEN MayBeDue(n) /\ Timeout ELSE UNCHANGED bounds
       /\ \/ Proceed(n, s, a) /\ UNCHANGED <<nodeVars, roleInfo>>
          \/ /\ a \in Errors /\ Sync(n, None) /\ Goto(n, "close")
             /\ UNCHANGED <<world, roleInfo>>
          \/ /\ a = "FINISH" /\ Sync(n, None) /\ Goto(n, "gather")
             /\ world' = [world EXCEPT ![n] = [round |-> s.round, rank |-> s.participants[n],
                                               size |-> Cardinality(Members(s))]]
             /\ roleInfo' = roleInfo \cup {<<s.round, s.participants[n]>>}
  /\ UNCHANGED stalled

\* shutdown(): _close with its own deadline.
Close(n) ==
  /\ pc[n] = "close"
  /\ \E over \in BOOLEAN :
       LET s == View(n) a == CloseOp(s, over) IN
       \/ Proceed(n, s, a) /\ UNCHANGED <<pc, late, beating>>
       \/ a \in Errors \cup {"FINISH"} /\ Sync(n, None) /\ Goto(n, "left")
  /\ UNCHANGED <<world, roleInfo, stalled, bounds>>

\* One iteration of _RendezvousKeepAliveOp on the timer thread.  A timeout of
\* the operation is only logged.
KeepAlive(n) ==
  /\ Active(n)
  /\ \/ /\ MayBeDue(n) /\ Timeout
        /\ Sync(n, [state |-> View(n), beat |-> TRUE])
        /\ beating' = [beating EXCEPT ![n] = TRUE]
     \/ /\ Sync(n, None) /\ UNCHANGED bounds
        /\ beating' = [beating EXCEPT ![n] = FALSE]
  /\ UNCHANGED <<pc, late, world, roleInfo, stalled>>

\* The connection to the store fails: _keep_alive() gives up with the copy still
\* dirty, and the next sync() of the node tries to write it.
KeepAliveFails(n) ==
  /\ beating[n]
  /\ beating' = [beating EXCEPT ![n] = FALSE]
  /\ UNCHANGED <<backend, dirty, pc, late, world, roleInfo, expired, stalled, formed, bounds>>

-----------------------------------------------------------------------------
(* The elastic agent.                                                      *)

\* The ranks whose role_info key _share_and_gather still waits for.
Missing(n) == {k \in 0..(world[n].size - 1) : <<world[n].round, k>> \notin roleInfo}

\* Mutant: the keys of the others are not waited for.
StartWorkersAtOnce(n) ==
  /\ pc[n] = "gather" /\ world[n].rank < world[n].size
  /\ pc' = [pc EXCEPT ![n] = "run"]
  /\ UNCHANGED <<backend, dirty, beating, late, world, roleInfo, expired, stalled, formed, bounds>>

\* _assign_worker_ranks has all keys; the workers start.
StartWorkers(n) ==
  /\ pc[n] = "gather" /\ Missing(n) = {} /\ world[n].rank < world[n].size
  /\ pc' = [pc EXCEPT ![n] = "run"]
  /\ UNCHANGED <<backend, dirty, beating, late, world, roleInfo, expired, stalled, formed, bounds>>

Leave(n, l) ==
  /\ ~beating[n]
  /\ Goto(n, l)
  /\ world' = [world EXCEPT ![n] = None]

\* The member that has to set a key is not on the way to it: it has gone, or was
\* removed from the round.  Otherwise it sets the key long before the timeout.
NeverComes(n) ==
  \E m \in DOMAIN formed[world[n].round] :
    /\ formed[world[n].round][m] \in Missing(n)
    /\ ~(pc[m] = "join" /\ backend.round = world[n].round /\ m \in Members(backend))

\* The wait times out, or role_infos has no entry of this rank.
GatherFails(n) ==
  /\ pc[n] = "gather" /\ (NeverComes(n) \/ (Missing(n) = {} /\ world[n].rank >= world[n].size))
  /\ Leave(n, "close")
  /\ UNCHANGED <<backend, dirty, roleInfo, expired, stalled, formed, bounds>>

\* The monitor loop of _invoke_run: the workers are healthy, num_nodes_waiting()
\* reads the record, and the group is restarted if nodes wait.
MonitorWorkers(n) ==
  /\ pc[n] = "run" /\ ~beating[n] /\ backend.round < MaxRounds
  /\ Sync(n, None)
  /\ IF View(n).waitList # {} THEN Leave(n, "exit") ELSE UNCHANGED nodeVars
  /\ UNCHANGED <<roleInfo, stalled, bounds>>

\* The workers failed: _restart_workers.
RestartWorkers(n) ==
  /\ pc[n] = "run" /\ backend.round < MaxRounds
  /\ Leave(n, "exit")
  /\ UNCHANGED <<backend, dirty, roleInfo, expired, stalled, formed, bounds>>

\* The workers succeeded, or failed without a restart left; launch_agent() then
\* calls shutdown().
FinishRun(n) ==
  /\ pc[n] = "run" /\ Failure
  /\ Leave(n, "close")
  /\ UNCHANGED <<backend, dirty, roleInfo, expired, stalled, formed>>

-----------------------------------------------------------------------------
(* Time and failures.                                                      *)

\* The deadline of an operation passes, then the rollback period.
DeadlinePasses(n) ==
  /\ pc[n] \in {"exit", "join"} /\ late[n] # "over" /\ Timeout
  /\ late' = [late EXCEPT ![n] = IF @ = "no" THEN "late" ELSE "over"]
  /\ UNCHANGED <<backend, dirty, pc, beating, world, roleInfo, expired, stalled, formed>>

\* The last call of the round is over, in the record and in the copies of it.
LastCall ==
  LET Passed(s) == IF s.deadline = "set" THEN [s EXCEPT !.deadline = "passed"] ELSE s IN
  /\ backend.deadline = "set"
  /\ backend' = Passed(backend)
  /\ dirty' = [n \in Nodes |->
                 IF dirty[n] = None THEN None ELSE [dirty[n] EXCEPT !.state = Passed(@)]]
  /\ UNCHANGED <<nodeVars, roleInfo, expired, stalled, formed, bounds>>

\* The heartbeat of a node that sends none any more expires.
Expire(n) ==
  /\ pc[n] \in Gone /\ n \in backend.heartbeats \ expired
  /\ expired' = expired \cup {n}
  /\ UNCHANGED <<backend, dirty, nodeVars, roleInfo, stalled, formed, bounds>>

\* A live node is too slow, or cut off, to renew its heartbeat in time.
Stall(n) ==
  /\ pc[n] \notin Gone /\ n \in backend.heartbeats \ expired /\ Failure
  /\ expired' = expired \cup {n} /\ stalled' = stalled \cup {n}
  /\ UNCHANGED <<backend, dirty, nodeVars, roleInfo, formed>>

\* The agent's process dies; a new one is another node.
Crash(n) ==
  /\ pc[n] \notin {"left", "crashed"} /\ Failure
  /\ dirty' = [dirty EXCEPT ![n] = None]
  /\ pc' = [pc EXCEPT ![n] = "crashed"] /\ late' = [late EXCEPT ![n] = "no"]
  /\ beating' = [beating EXCEPT ![n] = FALSE] /\ world' = [world EXCEPT ![n] = None]
  /\ UNCHANGED <<backend, roleInfo, expired, stalled, formed>>

-----------------------------------------------------------------------------
Operation(n) == Exit(n) \/ Join(n) \/ Close(n)

Next ==
  \/ \E n \in Nodes :
       \/ Operation(n) \/ KeepAlive(n) \/ KeepAliveFails(n)
       \/ StartWorkers(n) \/ GatherFails(n)
       \/ MonitorWorkers(n) \/ RestartWorkers(n) \/ FinishRun(n)
       \/ DeadlinePasses(n) \/ Expire(n) \/ Stall(n) \/ Crash(n)
  \/ LastCall

\* What a node's process does by itself, and what only takes time.
Work(n) ==
  \/ Operation(n) \/ (beating[n] /\ KeepAlive(n))
  \/ StartWorkers(n) \/ GatherFails(n) \/ MonitorWorkers(n)

\* ... and when it does more than to poll an unchanged record.
Runnable(n) ==
  \/ pc[n] \in {"exit", "close"} \/ beating[n]
  \/ pc[n] = "join" /\ (dirty[n] # None \/ JoinOp(View(n), n, FALSE) # "SYNC")
  \/ pc[n] = "gather" /\ (Missing(n) = {} \/ NeverComes(n))
  \/ pc[n] = "run" /\ View(n).waitList # {} /\ backend.round < MaxRounds

TimePasses == LastCall \/ \E n \in Nodes : Expire(n)

\* Weak fairness of every process, with the enabling condition of its steps
\* written out, and of time.
Fairness ==
  /\ \A n \in Nodes : []<>~Runnable(n) \/ []<><<Work(n)>>_vars
  /\ WF_vars(TimePasses)

Spec == Init /\ [][Next]_vars /\ Fairness

-----------------------------------------------------------------------------
States == {backend} \cup {dirty[n].state : n \in {m \in Nodes : dirty[m] # None}}

\* The types.
TypeOK ==
  /\ \A s \in States :
       /\ s.round \in Nat /\ s.deadline \in {"none", "set", "passed"}
       /\ {s.complete, s.closed} \subseteq BOOLEAN
       /\ s.waitList \cup s.heartbeats \cup Members(s) \subseteq Nodes
  /\ pc \in [Nodes -> Gone \cup {"exit", "join", "gather", "run"}]
  /\ beating \in [Nodes -> BOOLEAN]
  /\ late \in [Nodes -> {"no", "late", "over"}]
  /\ roleInfo \subseteq Nat \X Nat
  /\ expired \subseteq backend.heartbeats /\ stalled \subseteq Nodes

\* No copy of the record makes an operation raise KeyError or TypeError: the
\* members and the waiting nodes are those with a heartbeat, and the deadline that
\* _RendezvousJoinOp compares is set when there are enough participants.  No
\* round stays open with the maximum of participants or complete without any.
StateSound ==
  /\ TypeOK
  /\ \A s \in States :
       /\ s.heartbeats = Members(s) \cup s.waitList /\ Members(s) \cap s.waitList = {}
       /\ s.complete => Members(s) # {} /\ s.deadline = "none"
       /\ ~s.complete => /\ Cardinality(Members(s)) < MaxNodes
                         /\ (s.deadline # "none" <=> Cardinality(Members(s)) >= MinNodes)

\* Consistency: who leaves next_rendezvous() in a round was one of its
\* MinNodes..MaxNodes members and has the rank it was given then, ranks are 0 to
\* size - 1, and the world size is that of the round, unless a member of it has
\* failed, stopped or was too slow.  A member that restarts cannot be the reason:
\* the agents wait for the keys of all ranks before they start.
WorldAgrees ==
  \A n \in Nodes : Active(n) =>
    LET P == formed[world[n].round] size == Cardinality(DOMAIN P) IN
    /\ n \in DOMAIN P /\ world[n].rank = P[n]
    /\ {P[m] : m \in DOMAIN P} = 0..(size - 1) /\ size \in MinNodes..MaxNodes
    /\ \/ world[n].size = size
       \/ world[n].size < size /\ \E m \in DOMAIN P : pc[m] \in Gone \/ m \in stalled

\* Exclusivity: a node whose workers run while a later round has formed was
\* taken for dead.
Exclusive ==
  \A n \in Nodes : Active(n) /\ n \notin stalled =>
    \A r \in DOMAIN formed : r \leq world[n].round

\* What was agreed is never undone: a closed rendezvous stays closed, rounds
\* advance one by one and only when complete, and a completed round loses members
\* but gains none and changes no rank.
NothingUndone ==
  [][/\ backend.closed => backend'.closed
     /\ \/ backend'.round = backend.round
        \/ backend.complete /\ backend'.round = backend.round + 1
     /\ backend.complete /\ backend'.round = backend.round =>
          /\ backend'.complete /\ Members(backend') \subseteq Members(backend)
          /\ \A n \in Members(backend') : backend'.participants[n] = backend.participants[n]]_vars

\* Enough nodes are left, none was taken for dead wrongly, and the last round of
\* the model has not completed.
Healthy ==
  /\ Cardinality({m \in Nodes : pc[m] \notin {"left", "crashed"}}) >= MinNodes
  /\ stalled = {} /\ ~(backend.complete /\ backend.round >= MaxRounds)

\* Fault tolerance: although others crash, the nodes that join all get into a
\* round, or an error.
JoinsEnd == []<>(Healthy => \A n \in Nodes : pc[n] # "join")
=============================================================================
