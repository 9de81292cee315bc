----------------------------- MODULE RRefProofs -----------------------------
(***************************************************************************)
(* Proofs of the safety of the RRef protocol, for any number of users,     *)
(* forks, attempts and timeouts.                                           *)
(*                                                                         *)
(* The inductive invariant follows one fork through its life: unborn,      *)
(* coming (in an RPC that is prepared or in flight), pending, confirmed,   *)
(* deleted; and says at each point which messages may still be in flight   *)
(* and what the owner knows of it.                                         *)
(***************************************************************************)
EXTENDS RRef, TLAPS

\* The forks with a message of kind k in flight.
Flying(k) == {f \in ForkIds : \E n \in 1..MaxAttempts : Msg(k, f, n) \in net}

\* The messages that are sent once.
Once == {"remoteCall", "remoteRet", "rpc"}

\* The UserRRef is in an RPC that is being prepared or in flight.
Coming(f) == stage[f] = "prepare" \/ f \in Flying("rpc")

\* rpc.remote() of the creator has not returned.
Creating(f) ==
  f \in Flying("remoteCall") \cup Flying("remoteRet") \/ stage[f] \in {"assign", "value"}

\* One retried call.
CallState == [attempt : 0..MaxAttempts, state : {"idle", "open", "done", "failed"}]

\* The types of the variables.
Typed ==
  /\ lossy \in Networks /\ born \in BOOLEAN
  /\ owners \in Nat /\ made \in Nat /\ ownerRef \in Nat /\ valued \subseteq Nat
  /\ forks \subseteq ForkIds
  /\ stage \in [ForkIds -> {"none", "assign", "value", "prepare"}]
  /\ inst \in [ForkIds -> Nat]
  /\ fetch \in [Forks -> {"no", "sent", "waitOwner", "waitValue"}]
  /\ loc \in [Forks -> Workers \cup {None}]
  /\ parent \in [Forks -> Forks \cup {Owner, None}]
  /\ alive \subseteq Forks /\ held \subseteq Forks
  /\ pendingUsers \subseteq Forks /\ confirmedUsers \subseteq Forks
  /\ pendingChildren \subseteq Forks /\ deletedOnOwner \subseteq Forks
  /\ timedOut \subseteq ForkIds
  /\ net \subseteq [kind : Kinds, fork : ForkIds, attempt : 1..MaxAttempts]
  /\ call \in [Retried -> [Forks -> CallState]]
  /\ phase \in [Workers -> {"run", "drain", "wait", "join", "left"}]

\* How often a message may be in flight.
Attempts == \A m \in net : m.kind \in Once \/ ~lossy => m.attempt = 1

\* A fork that was not allocated has left no trace.
UnbornOf(f) ==
  loc[f] = None =>
    /\ parent[f] = None /\ stage[f] = "none"
    /\ f \notin alive \cup pendingChildren \cup deletedOnOwner \cup timedOut \cup forks
    /\ \A k \in Kinds : f \notin Flying(k)
    /\ \A k \in Retried : ~Open(k, f)

\* The users' maps.
MapsOf(f) ==
  /\ f \in held \cup pendingUsers \cup confirmedUsers => f \in alive
  /\ f \in pendingUsers =>
       f \notin confirmedUsers \cup deletedOnOwner \cup timedOut /\ parent[f] # Owner
  /\ f \in confirmedUsers => f \notin deletedOnOwner
  /\ f \in alive => f \in pendingUsers \cup confirmedUsers \cup deletedOnOwner /\ loc[f] \in Users
  /\ f \in alive \cup deletedOnOwner => ~Coming(f)
  /\ f \in timedOut => parent[f] = None
  /\ fetch[f] # "no" => f \in held

\* The creator's rpc.remote() is in one place at a time.
CreatorOf(f) ==
  /\ Creating(f) => parent[f] = None /\ f \in pendingUsers \cup timedOut
  /\ f \in Flying("remoteCall") => stage[f] = "none" /\ f \notin Flying("remoteRet")
  /\ stage[f] \in {"assign", "value"} => f \notin Flying("remoteRet")
  /\ f \in Flying("remoteCall") \/ stage[f] = "assign" => f \notin forks
  /\ f \in Flying("remoteRet") \/ stage[f] = "value" => f \in forks \cup deletedOnOwner

\* The messages of a child, and what its parent and the owner know of it.
ChildOf(f) ==
  /\ Coming(f) => parent[f] # None /\ phase[Owner] = "run"
  /\ stage[f] = "prepare" =>
       parent[f] = Owner /\ f \in forks /\ inst[f] # 0 /\ f \notin Flying("rpc")
  /\ f \in Flying("rpc") =>
       IF parent[f] = Owner THEN f \in forks ELSE f \in pendingChildren \ forks
  /\ f \in Flying("forkRequest") \cup Flying("forkAck") =>
       parent[f] \in Forks /\ f \in alive \cup deletedOnOwner
  /\ f \in Flying("forkAck") => f \in forks \cup deletedOnOwner
  /\ f \in Flying("childAccept") \/ Open("childAccept", f) =>
       parent[f] \in Forks /\ ~Coming(f) /\ f \notin pendingUsers
  /\ f \in Flying("userDelete") \/ Open("userDelete", f) => f \in deletedOnOwner
  /\ Open("forkRequest", f) => f \in pendingUsers /\ parent[f] \in Forks
  /\ f \in confirmedUsers \ timedOut => f \in forks

\* The parent of a child that is not accepted stays.
ParentOf(f) ==
  /\ f \in pendingUsers /\ parent[f] # None => f \in pendingChildren
  /\ f \in pendingChildren =>
       /\ parent[f] \in alive
       /\ phase[loc[parent[f]]] \in {"run", "drain"} => parent[f] \notin deletedOnOwner

\* rpc.remote() to self.
SelfInv ==
  /\ stage[SelfFork] \in {"none", "value"}
  /\ SelfFork \in forks =>
       /\ owners # 0
       /\ SelfFork \in Flying("remoteCall") \cup Flying("remoteRet") \/ stage[SelfFork] = "value"
  /\ SelfFork \in Flying("remoteCall") =>
       /\ stage[SelfFork] = "none" /\ SelfFork \notin Flying("remoteRet")
       /\ SelfFork \in forks \cup timedOut
  /\ stage[SelfFork] = "value" => SelfFork \notin Flying("remoteRet")
  /\ \A k \in Kinds \ {"remoteCall", "remoteRet"} : SelfFork \notin Flying(k)

\* Before the RRef exists.
NotBorn ==
  ~born =>
    /\ made = 0 /\ ownerRef = 0 /\ forks = {} /\ stage[SelfFork] = "none"
    /\ \A f \in Forks : loc[f] = None
    /\ \A k \in Kinds : SelfFork \notin Flying(k)

\* All workers begin to shut down together.
Phases == \A v, w \in Workers : phase[v] = "run" => phase[w] = "run"

Unborn == \A f \in Forks : UnbornOf(f)
Maps == \A f \in Forks : MapsOf(f)
Creator == \A f \in Forks : CreatorOf(f)
Child == \A f \in Forks : ChildOf(f)
Parent == \A f \in Forks : ParentOf(f)

\* The invariant that needs no assumption.
Base ==
  /\ Typed /\ Attempts /\ Unborn /\ Maps /\ Creator /\ Child /\ Parent
  /\ SelfInv /\ NotBorn /\ Phases

-----------------------------------------------------------------------------
\* While the creation is unconfirmed the creator is alone: it may not pass its RRef on.
LoneOf(f) ==
  parent[f] = None /\ loc[f] # None =>
    /\ SelfFork \notin forks /\ stage[SelfFork] = "none"
    /\ \A k \in Kinds : SelfFork \notin Flying(k)
    /\ f \in pendingUsers \cup timedOut =>
         ownerRef = 0 /\ \A g \in Forks : g # f => loc[g] = None

\* There is one OwnerRRef, from the first request of the creator on.
MadeOf(f) ==
  /\ f \in Flying("remoteCall") => made = 0
  /\ stage[f] = "assign" => made = 1 /\ (phase[Owner] = "run" => owners # 0)
  /\ loc[f] # None /\ parent[f] # None => made = 1
  /\ f \in pendingChildren => parent[f] \notin pendingUsers \cup timedOut

Instances ==
  /\ made \leq 1 /\ owners \leq made /\ ownerRef \leq made
  /\ \A f \in ForkIds : inst[f] \leq made
  /\ forks # {} => made = 1

\* owners_ lets go of the OwnerRRef only if no fork is left that may be used.
OwnerHeld ==
  /\ phase[Owner] = "run" /\ owners = 0 =>
       \A f \in forks \cap Forks : stage[f] = "prepare" \/ f \in deletedOnOwner
  /\ owners # 0 => forks # {} \/ \E f \in Forks : stage[f] = "assign"

Lone == \A f \in Forks : LoneOf(f)
Made == \A f \in Forks : MadeOf(f)

OwnerInv == Lone /\ Made /\ Instances /\ OwnerHeld

-----------------------------------------------------------------------------
\* On a reliable network a fork the owner knows has somebody who will delete it.
CleanOf(f) ==
  ~lossy =>
    /\ f \notin timedOut
    /\ f \in forks => f \in pendingUsers \cup confirmedUsers \cup Flying("userDelete") \/ Coming(f)
    /\ f \in Flying("forkRequest") => f \in pendingUsers /\ f \notin Flying("forkAck")
    /\ f \in Flying("forkAck") => f \in pendingUsers
    /\ f \in pendingUsers \cup confirmedUsers => phase[loc[f]] \in {"run", "drain"}

Clean == \A f \in Forks : CleanOf(f)

\* Nothing happens any more when the owner has left.
LeftInv ==
  ~lossy /\ phase[Owner] = "left" =>
    /\ forks = {} /\ \A k \in Kinds : Flying(k) = {}
    /\ \A f \in ForkIds : stage[f] = "none"
    /\ \A w \in Workers : phase[w] \in {"join", "left"}

CInv == Clean /\ LeftInv

-----------------------------------------------------------------------------
(* The network.                                                            *)

\* A step that sends and handles only messages of the kinds in K.
Only(K) ==
  /\ "forkRequest" \in K \/ Flying("forkRequest")' = Flying("forkRequest")
  /\ "childAccept" \in K \/ Flying("childAccept")' = Flying("childAccept")
  /\ "userDelete" \in K \/ Flying("userDelete")' = Flying("userDelete")
  /\ "forkAck" \in K \/ Flying("forkAck")' = Flying("forkAck")
  /\ "acceptAck" \in K \/ Flying("acceptAck")' = Flying("acceptAck")
  /\ "deleteAck" \in K \/ Flying("deleteAck")' = Flying("deleteAck")
  /\ "remoteCall" \in K \/ Flying("remoteCall")' = Flying("remoteCall")
  /\ "remoteRet" \in K \/ Flying("remoteRet")' = Flying("remoteRet")
  /\ "rpc" \in K \/ Flying("rpc")' = Flying("rpc")

\* The kinds one by one.
LEMMA OnlyKinds ==
  ASSUME NEW K, \A k \in Kinds \ K : Flying(k)' = Flying(k)
  PROVE  Only(K)
BY DEF Only, Kinds, Retried, Acks

\* A message in flight is counted by Flying.
LEMMA InFlight ==
  ASSUME Typed, NEW m \in net
  PROVE  /\ m.kind \in Kinds /\ m.fork \in ForkIds /\ m.attempt \in 1..MaxAttempts
         /\ m = Msg(m.kind, m.fork, m.attempt)
         /\ m.fork \in Flying(m.kind)
<1>1. /\ m.kind \in Kinds /\ m.fork \in ForkIds /\ m.attempt \in 1..MaxAttempts
      /\ m = Msg(m.kind, m.fork, m.attempt)
  BY DEF Typed, Msg
<1> QED
  BY <1>1 DEF Flying

\* Nothing is sent and nothing handled.
LEMMA NetSame ==
  ASSUME net' = net
  PROVE  /\ \A k \in Kinds : Flying(k)' = Flying(k)
         /\ Only({})
         /\ Attempts /\ lossy' = lossy => Attempts'
BY DEF Flying, Attempts, Only

\* A message is sent.
LEMMA NetAdd ==
  ASSUME NEW k \in Kinds, NEW c \in ForkIds, NEW n \in 1..MaxAttempts,
         net' = net \cup {Msg(k, c, n)}
  PROVE  /\ Flying(k)' = Flying(k) \cup {c}
         /\ Only({k})
         /\ Attempts /\ lossy' = lossy /\ n = 1 => Attempts'
         /\ Attempts /\ lossy' = lossy /\ lossy /\ k \notin Once => Attempts'
<1>1. Flying(k)' = Flying(k) \cup {c}
  BY DEF Flying, Msg
<1>2. \A j \in Kinds \ {k} : Flying(j)' = Flying(j)
  BY DEF Flying, Msg
<1>3. /\ Attempts /\ lossy' = lossy /\ n = 1 => Attempts'
      /\ Attempts /\ lossy' = lossy /\ lossy /\ k \notin Once => Attempts'
  BY DEF Attempts, Msg
<1> QED
  BY OnlyKinds, <1>1, <1>2, <1>3

\* RRefUserDelete of several forks.
LEMMA NetAddAll ==
  ASSUME NEW k \in Kinds, NEW S \in SUBSET Forks, MaxAttempts \in Nat \ {0},
         net' = net \cup {Msg(k, f, 1) : f \in S}
  PROVE  /\ Flying(k)' = Flying(k) \cup S
         /\ Only({k})
         /\ Attempts /\ lossy' = lossy => Attempts'
<1>1. Flying(k)' = Flying(k) \cup S
  <2>1. \A f, n : Msg(k, f, n) \in net' <=> Msg(k, f, n) \in net \/ (f \in S /\ n = 1)
    BY DEF Msg
  <2> QED
    BY <2>1 DEF Flying, ForkIds
<1>2. \A j \in Kinds \ {k} : Flying(j)' = Flying(j)
  BY DEF Flying, Msg
<1>3. Attempts /\ lossy' = lossy => Attempts'
  BY DEF Attempts, Msg
<1> QED
  BY OnlyKinds, <1>1, <1>2, <1>3

\* A message is handled; one that is sent once is then gone.
LEMMA NetConsume ==
  ASSUME Typed, Attempts, NEW m \in net, Consume(m)
  PROVE  /\ Only({m.kind})
         /\ Flying(m.kind)' \subseteq Flying(m.kind)
         /\ Flying(m.kind) \ {m.fork} \subseteq Flying(m.kind)'
         /\ m.kind \in Once \/ ~lossy => m.fork \notin Flying(m.kind)'
         /\ lossy' = lossy => Attempts'
<1>0. net' = net \ {m} /\ m = Msg(m.kind, m.fork, m.attempt)
  BY InFlight DEF Consume
<1>m. \A j, f, n : Msg(j, f, n) = m => j = m.kind /\ f = m.fork
  BY DEF Msg
<1>1. \A j \in Kinds \ {m.kind} : Flying(j)' = Flying(j)
  BY <1>0, <1>m DEF Flying
<1>2. /\ Flying(m.kind)' \subseteq Flying(m.kind)
      /\ Flying(m.kind) \ {m.fork} \subseteq Flying(m.kind)'
  BY <1>0, <1>m DEF Flying
<1>3. m.kind \in Once \/ ~lossy => m.fork \notin Flying(m.kind)'
  BY <1>0 DEF Flying, Msg, Attempts
<1>4. lossy' = lossy => Attempts'
  BY <1>0 DEF Attempts
<1> QED
  BY OnlyKinds, <1>1, <1>2, <1>3, <1>4

\* A message is handled and answered.
LEMMA NetReply ==
  ASSUME Typed, Attempts, NEW m \in net, NEW k \in Kinds \ {m.kind}, NEW n \in
         1..MaxAttempts,
         Reply(m, Msg(k, m.fork, n))
  PROVE  /\ Only({k, m.kind})
         /\ Flying(m.kind)' \subseteq Flying(m.kind)
         /\ Flying(m.kind) \ {m.fork} \subseteq Flying(m.kind)'
         /\ m.kind \in Once \/ ~lossy => m.fork \notin Flying(m.kind)'
         /\ Flying(k)' = Flying(k) \cup {m.fork}
         /\ lossy' = lossy /\ n = 1 => Attempts'
         /\ lossy' = lossy /\ k \notin Once /\ n = m.attempt => Attempts'
<1>0. /\ net' = (net \ {m}) \cup {Msg(k, m.fork, n)} /\ m = Msg(m.kind, m.fork, m.attempt)
      /\ m.fork \in ForkIds
  BY InFlight DEF Reply
<1>m. /\ \A j, f, n2 : Msg(j, f, n2) = m => j = m.kind /\ f = m.fork
      /\ \A j, f, n2 : Msg(j, f, n2) = Msg(k, m.fork, n) => j = k
  BY DEF Msg
<1>1. \A j \in Kinds \ {k, m.kind} : Flying(j)' = Flying(j)
  BY <1>0, <1>m DEF Flying
<1>2. /\ Flying(m.kind)' \subseteq Flying(m.kind)
      /\ Flying(m.kind) \ {m.fork} \subseteq Flying(m.kind)'
  BY <1>0, <1>m DEF Flying
<1>3. m.kind \in Once \/ ~lossy => m.fork \notin Flying(m.kind)'
  BY <1>0 DEF Flying, Msg, Attempts
<1>4. Flying(k)' = Flying(k) \cup {m.fork}
  BY <1>0 DEF Flying, Msg
<1>5. /\ lossy' = lossy /\ n = 1 => Attempts'
      /\ lossy' = lossy /\ k \notin Once /\ n = m.attempt => Attempts'
  BY <1>0 DEF Attempts, Msg
<1> QED
  BY OnlyKinds, <1>1, <1>2, <1>3, <1>4, <1>5

-----------------------------------------------------------------------------
(* The types.                                                              *)

\* The table of the retried calls.
LEMMA CallSet ==
  ASSUME NEW S, NEW t \in [Retried -> [Forks -> S]],
         NEW k \in Retried, NEW c \in Forks, NEW r \in S
  PROVE  /\ [t EXCEPT ![k][c] = r] \in [Retried -> [Forks -> S]]
         /\ \A j \in Retried, f \in Forks :
              [t EXCEPT ![k][c] = r][j][f] = IF j = k /\ f = c THEN r ELSE t[j][f]
OBVIOUS

\* Only rpc.remote() to self sends messages about the RRefId itself.
LEMMA ForkOf ==
  ASSUME Base, NEW m \in net, m.kind \notin {"remoteCall", "remoteRet"}
  PROVE  m.fork \in Forks
<1>1. m.fork \in ForkIds /\ m.kind \in Kinds /\ m.fork \in Flying(m.kind)
  BY InFlight DEF Base
<1> QED
  BY <1>1 DEF Base, SelfInv, ForkIds

\* The types after Remote.
LEMMA RemoteTyped ==
  ASSUME Base, lossy' = lossy, NEW u \in Users, NEW c \in Forks, Remote(u, c)
  PROVE  Typed'
BY ConstAssumption
DEF Base, Typed, CallState, Kinds, Retried, Acks, Workers, ForkIds, ownerVars, userVars,
    Remote, Fresh, Msg

\* The types after RemoteSelf.
LEMMA RemoteSelfTyped ==
  ASSUME Base, lossy' = lossy, RemoteSelf
  PROVE  Typed'
BY ConstAssumption
DEF Base, Typed, CallState, Kinds, Retried, Acks, Workers, ForkIds, ownerVars, userVars,
    RemoteSelf, Msg

\* The types after CreateLocal.
LEMMA CreateLocalTyped ==
  ASSUME Base, lossy' = lossy, CreateLocal
  PROVE  Typed'
BY ConstAssumption
DEF Base, Typed, CallState, Kinds, Retried, Acks, Workers, ForkIds, ownerVars, userVars,
    CreateLocal

\* The types after ShareFromUser.
LEMMA ShareFromUserTyped ==
  ASSUME Base, lossy' = lossy, NEW p \in Forks, NEW c \in Forks, NEW w \in Workers,
         ShareFromUser(p, c, w)
  PROVE  Typed'
BY ConstAssumption
DEF Base, Typed, CallState, Kinds, Retried, Acks, Workers, ForkIds, ownerVars, userVars,
    ShareFromUser, Usable, Fresh, Msg

\* The types after ShareFromOwner.
LEMMA ShareFromOwnerTyped ==
  ASSUME Base, lossy' = lossy, NEW c \in Forks, NEW w \in Workers, ShareFromOwner(c, w)
  PROVE  Typed'
BY ConstAssumption
DEF Base, Typed, CallState, Kinds, Retried, Acks, Workers, ForkIds, ownerVars, userVars,
    ShareFromOwner, Fresh

\* The types after ToHere.
LEMMA ToHereTyped ==
  ASSUME Base, lossy' = lossy, NEW c \in Forks, ToHere(c)
  PROVE  Typed'
BY ConstAssumption
DEF Base, Typed, CallState, Kinds, Retried, Acks, Workers, ForkIds, ownerVars, userVars,
    ToHere, Usable, SetFetch

\* The types after Release.
LEMMA ReleaseTyped ==
  ASSUME Base, lossy' = lossy, NEW c \in Forks, Release(c)
  PROVE  Typed'
BY ConstAssumption
DEF Base, Typed, CallState, Kinds, Retried, Acks, Workers, ForkIds, ownerVars, userVars,
    Release

\* The types after OwnerRelease.
LEMMA OwnerReleaseTyped ==
  ASSUME Base, lossy' = lossy, OwnerRelease
  PROVE  Typed'
BY ConstAssumption
DEF Base, Typed, CallState, Kinds, Retried, Acks, Workers, ForkIds, ownerVars, userVars,
    OwnerRelease

\* The types after AttemptTimesOut.
LEMMA AttemptTimesOutTyped ==
  ASSUME Base, lossy' = lossy, NEW k \in Retried, NEW c \in Forks, AttemptTimesOut(k, c)
  PROVE  Typed'
<1>0. /\ call[k][c].attempt \in 0..MaxAttempts /\ MaxAttempts \in Nat
      /\ net \subseteq [kind : Kinds, fork : ForkIds, attempt : 1..MaxAttempts]
      /\ UNCHANGED <<born, ownerVars, userVars, phase>>
  BY ConstAssumption DEF Base, Typed, CallState, AttemptTimesOut
<1>1. net' \subseteq [kind : Kinds, fork : ForkIds, attempt : 1..MaxAttempts]
  BY <1>0 DEF AttemptTimesOut, Msg, Kinds, ForkIds
<1>2. call' \in [Retried -> [Forks -> CallState]]
  <2>0. call[k][c] \in CallState
    BY DEF Base, Typed
  <2>1. CASE call[k][c].attempt < MaxAttempts
    <3>1. /\ call' = [call EXCEPT ![k][c].attempt = call[k][c].attempt + 1]
          /\ call[k][c].attempt + 1 \in 0..MaxAttempts
      BY <1>0, <2>1 DEF AttemptTimesOut
    <3>2. [call[k][c] EXCEPT !.attempt = call[k][c].attempt + 1] \in CallState
      BY <2>0, <3>1 DEF CallState
    <3> QED
      BY <3>1, <3>2, CallSet DEF Base, Typed
  <2>2. CASE ~(call[k][c].attempt < MaxAttempts)
    <3>1. call' = [call EXCEPT ![k][c].state = "failed"]
      BY <2>2 DEF AttemptTimesOut
    <3>2. [call[k][c] EXCEPT !.state = "failed"] \in CallState
      BY <2>0 DEF CallState
    <3> QED
      BY <3>1, <3>2, CallSet DEF Base, Typed
  <2> QED
    BY <2>1, <2>2
<1> QED
  BY <1>0, <1>1, <1>2 DEF Base, Typed, ownerVars, userVars

\* The types after RemoteTimesOut.
LEMMA RemoteTimesOutTyped ==
  ASSUME Base, lossy' = lossy, NEW c \in Forks, RemoteTimesOut(c)
  PROVE  Typed'
BY ConstAssumption
DEF Base, Typed, CallState, Kinds, Retried, Acks, Workers, ForkIds, ownerVars, userVars,
    RemoteTimesOut, DelPendingUser

\* The types after SelfTimesOut.
LEMMA SelfTimesOutTyped ==
  ASSUME Base, lossy' = lossy, SelfTimesOut
  PROVE  Typed'
BY ConstAssumption
DEF Base, Typed, CallState, Kinds, Retried, Acks, Workers, ForkIds, ownerVars, userVars,
    SelfTimesOut, DelForkOfOwner

\* The types after BeginShutdown.
LEMMA BeginShutdownTyped ==
  ASSUME Base, lossy' = lossy, BeginShutdown
  PROVE  Typed'
BY ConstAssumption
DEF Base, Typed, CallState, Kinds, Retried, Acks, Workers, ForkIds, ownerVars, userVars,
    BeginShutdown

\* The types after RecvRemoteCall.
LEMMA RecvRemoteCallTyped ==
  ASSUME Base, lossy' = lossy, NEW m \in net, RecvRemoteCall(m)
  PROVE  Typed'
BY ConstAssumption, InFlight, ForkOf
DEF Base, Typed, CallState, Kinds, Retried, Acks, Workers, ForkIds, ownerVars, userVars,
    RecvRemoteCall, GetOrCreateOwnerRRef, InstAfter, Consume

\* The types after RecvSelfCall.
LEMMA RecvSelfCallTyped ==
  ASSUME Base, lossy' = lossy, NEW m \in net, RecvSelfCall(m)
  PROVE  Typed'
BY ConstAssumption, InFlight, ForkOf
DEF Base, Typed, CallState, Kinds, Retried, Acks, Workers, ForkIds, ownerVars, userVars,
    RecvSelfCall, Consume, Reply, Msg

\* The types after RecvSelfRet.
LEMMA RecvSelfRetTyped ==
  ASSUME Base, lossy' = lossy, NEW m \in net, RecvSelfRet(m)
  PROVE  Typed'
BY ConstAssumption, InFlight, ForkOf
DEF Base, Typed, CallState, Kinds, Retried, Acks, Workers, ForkIds, ownerVars, userVars,
    RecvSelfRet, DelForkOfOwner, Consume

\* The types after RecvRemoteRet.
LEMMA RecvRemoteRetTyped ==
  ASSUME Base, lossy' = lossy, NEW m \in net, RecvRemoteRet(m)
  PROVE  Typed'
BY ConstAssumption, InFlight, ForkOf
DEF Base, Typed, CallState, Kinds, Retried, Acks, Workers, ForkIds, ownerVars, userVars,
    RecvRemoteRet, DelPendingUser, Consume

\* The types after RecvForkRequest.
LEMMA RecvForkRequestTyped ==
  ASSUME Base, lossy' = lossy, NEW m \in net, RecvForkRequest(m)
  PROVE  Typed'
BY ConstAssumption, InFlight, ForkOf
DEF Base, Typed, CallState, Kinds, Retried, Acks, Workers, ForkIds, ownerVars, userVars,
    RecvForkRequest, Reply, Msg

\* The types after RecvUserDelete.
LEMMA RecvUserDeleteTyped ==
  ASSUME Base, lossy' = lossy, NEW m \in net, RecvUserDelete(m)
  PROVE  Typed'
BY ConstAssumption, InFlight, ForkOf
DEF Base, Typed, CallState, Kinds, Retried, Acks, Workers, ForkIds, ownerVars, userVars,
    RecvUserDelete, DelForkOfOwner, Reply, Msg

\* The types after RecvChildAccept.
LEMMA RecvChildAcceptTyped ==
  ASSUME Base, lossy' = lossy, NEW m \in net, RecvChildAccept(m)
  PROVE  Typed'
BY ConstAssumption, InFlight, ForkOf
DEF Base, Typed, CallState, Kinds, Retried, Acks, Workers, ForkIds, ownerVars, userVars,
    RecvChildAccept, Reply, Msg

\* The types after RecvRpcAtOwner.
LEMMA RecvRpcAtOwnerTyped ==
  ASSUME Base, lossy' = lossy, NEW m \in net, RecvRpcAtOwner(m)
  PROVE  Typed'
<1>0. /\ m.fork \in Forks /\ m.attempt \in 1..MaxAttempts /\ MaxAttempts \in Nat \ {0}
      /\ UNCHANGED <<born, valued, stage, userVars, phase>>
  BY ConstAssumption, InFlight, ForkOf DEF Base, RecvRpcAtOwner
<1>1. net' \subseteq [kind : Kinds, fork : ForkIds, attempt : 1..MaxAttempts]
  <2>1. net' \subseteq net \cup {Msg("childAccept", m.fork, 1)}
    BY DEF RecvRpcAtOwner, Consume, Reply
  <2> QED
    BY <1>0, <2>1 DEF Base, Typed, Msg, Kinds, Retried, ForkIds
<1>3. call' \in [Retried -> [Forks -> CallState]]
  <2>1. \/ call' = call
        \/ call' = [call EXCEPT !["childAccept"][m.fork] = [attempt |-> 1, state |-> "open"]]
    BY DEF RecvRpcAtOwner, OpenCall
  <2>2. [attempt |-> 1, state |-> "open"] \in CallState /\ "childAccept" \in Retried
    BY <1>0 DEF CallState, Retried
  <2>3. [call EXCEPT !["childAccept"][m.fork] = [attempt |-> 1, state |-> "open"]]
          \in [Retried -> [Forks -> CallState]]
    BY <1>0, <2>2, CallSet DEF Base, Typed
  <2> QED
    BY <2>1, <2>3 DEF Base, Typed
<1>2. /\ owners' \in Nat /\ made' \in Nat /\ ownerRef' \in Nat /\ forks' \subseteq ForkIds
      /\ inst' \in [ForkIds -> Nat]
      /\ fetch' \in [Forks -> {"no", "sent", "waitOwner", "waitValue"}]
  <2>1. CASE parent[m.fork] = Owner
    BY <2>1 DEF Base, Typed, RecvRpcAtOwner, DelForkOfOwner
  <2>2. CASE parent[m.fork] # Owner
    BY <2>2 DEF Base, Typed, RecvRpcAtOwner, GetOrCreateOwnerRRef, InstAfter
  <2> QED
    BY <2>1, <2>2
<1> QED
  BY <1>0, <1>1, <1>2, <1>3 DEF Base, Typed, userVars

\* The types after RecvRpcAtUser.
LEMMA RecvRpcAtUserTyped ==
  ASSUME Base, lossy' = lossy, NEW m \in net, RecvRpcAtUser(m)
  PROVE  Typed'
BY ConstAssumption, InFlight, ForkOf
DEF Base, Typed, CallState, Kinds, Retried, Acks, Workers, ForkIds, ownerVars, userVars,
    RecvRpcAtUser, OpenCall, Consume, Reply, Msg

\* The types after RecvForkAck.
LEMMA RecvForkAckTyped ==
  ASSUME Base, lossy' = lossy, NEW m \in net, RecvForkAck(m)
  PROVE  Typed'
<1>0. /\ m.fork \in Forks /\ m.attempt \in 1..MaxAttempts /\ MaxAttempts \in Nat \ {0}
      /\ UNCHANGED <<born, ownerVars, loc, parent, alive, held, pendingChildren,
                     deletedOnOwner, timedOut, phase>>
  BY ConstAssumption, InFlight, ForkOf DEF Base, RecvForkAck
<1>1. net' \subseteq [kind : Kinds, fork : ForkIds, attempt : 1..MaxAttempts]
  BY <1>0 DEF Base, Typed, RecvForkAck, Consume, Reply, Msg, Kinds, Retried, ForkIds
<1>2. call' \in [Retried -> [Forks -> CallState]]
  <2>1. CASE Current(m, "forkRequest")
    <3> DEFINE after == [call EXCEPT !["forkRequest"][m.fork].state = "done"]
    <3>1. call["forkRequest"][m.fork] \in CallState /\ {"forkRequest", "childAccept"} \subseteq Retried
      BY <1>0 DEF Base, Typed, Retried
    <3>2. /\ [call["forkRequest"][m.fork] EXCEPT !.state = "done"] \in CallState
          /\ [attempt |-> 1, state |-> "open"] \in CallState
      BY <1>0, <3>1 DEF CallState
    <3>3. after \in [Retried -> [Forks -> CallState]]
      BY <1>0, <3>1, <3>2, CallSet DEF Base, Typed
    <3>4. call' = [after EXCEPT !["childAccept"][m.fork] = [attempt |-> 1, state |-> "open"]]
      BY <2>1 DEF RecvForkAck
    <3> HIDE DEF after
    <3> QED
      BY <1>0, <3>1, <3>2, <3>3, <3>4, CallSet
  <2>2. CASE ~Current(m, "forkRequest")
    BY <2>2 DEF Base, Typed, RecvForkAck
  <2> QED
    BY <2>1, <2>2
<1>3. pendingUsers' \subseteq Forks /\ confirmedUsers' \subseteq Forks
  BY <1>0 DEF Base, Typed, RecvForkAck, DelPendingUser
<1> QED
  BY <1>0, <1>1, <1>2, <1>3 DEF Base, Typed, ownerVars

\* The types after RecvAck.
LEMMA RecvAckTyped ==
  ASSUME Base, lossy' = lossy, NEW m \in net, NEW k \in Retried, NEW ack \in Acks,
         RecvAck(m, k, ack)
  PROVE  Typed'
BY ConstAssumption, InFlight, ForkOf
DEF Base, Typed, CallState, Kinds, Retried, Acks, Workers, ForkIds, ownerVars, userVars,
    RecvAck, Consume

\* The types after AddForkOfOwner.
LEMMA AddForkOfOwnerTyped ==
  ASSUME Base, lossy' = lossy, NEW c \in ForkIds, AddForkOfOwner(c)
  PROVE  Typed'
BY ConstAssumption
DEF Base, Typed, CallState, Kinds, Retried, Acks, Workers, ForkIds, ownerVars, userVars,
    AddForkOfOwner

\* The types after AssignValue.
LEMMA AssignValueTyped ==
  ASSUME Base, lossy' = lossy, NEW c \in ForkIds, AssignValue(c)
  PROVE  Typed'
<1>0. /\ MaxAttempts \in Nat \ {0}
      /\ UNCHANGED <<born, owners, made, forks, inst, ownerRef, fetch, userVars, call,
                     phase>>
      /\ stage' = [stage EXCEPT ![c] = "none"] /\ valued' = valued \cup {inst[c]}
  BY ConstAssumption DEF AssignValue
<1>1. net' \subseteq [kind : Kinds, fork : ForkIds, attempt : 1..MaxAttempts]
  BY <1>0 DEF Base, Typed, AssignValue, Msg, Kinds
<1> QED
  BY <1>0, <1>1 DEF Base, Typed, userVars

\* The types after KeepOwner.
LEMMA KeepOwnerTyped ==
  ASSUME Base, lossy' = lossy, NEW c \in Forks, KeepOwner(c)
  PROVE  Typed'
BY ConstAssumption
DEF Base, Typed, CallState, Kinds, Retried, Acks, Workers, ForkIds, ownerVars, userVars,
    KeepOwner, Msg

\* The types after DestroyUser.
LEMMA DestroyUserTyped ==
  ASSUME Base, lossy' = lossy, NEW c \in Forks, DestroyUser(c)
  PROVE  Typed'
BY ConstAssumption
DEF Base, Typed, CallState, Kinds, Retried, Acks, Workers, ForkIds, ownerVars, userVars,
    DestroyUser, DelUsers, Msg

\* The types after RetrieveOwnerRRef.
LEMMA RetrieveOwnerRRefTyped ==
  ASSUME Base, lossy' = lossy, NEW c \in Forks, RetrieveOwnerRRef(c)
  PROVE  Typed'
BY ConstAssumption
DEF Base, Typed, CallState, Kinds, Retried, Acks, Workers, ForkIds, ownerVars, userVars,
    RetrieveOwnerRRef, SetFetch

\* The types after FetchReturns.
LEMMA FetchReturnsTyped ==
  ASSUME Base, lossy' = lossy, NEW c \in Forks, FetchReturns(c)
  PROVE  Typed'
BY ConstAssumption
DEF Base, Typed, CallState, Kinds, Retried, Acks, Workers, ForkIds, ownerVars, userVars,
    FetchReturns, SetFetch

\* The types after DelAllUsers.
LEMMA DelAllUsersTyped ==
  ASSUME Base, lossy' = lossy, NEW w \in Workers, DelAllUsers(w)
  PROVE  Typed'
BY ConstAssumption
DEF Base, Typed, CallState, Kinds, Retried, Acks, Workers, ForkIds, ownerVars, userVars,
    DelAllUsers, DelUsers, Msg

\* The types after WaitForOwners.
LEMMA WaitForOwnersTyped ==
  ASSUME Base, lossy' = lossy, NEW w \in Workers, WaitForOwners(w)
  PROVE  Typed'
BY ConstAssumption
DEF Base, Typed, CallState, Kinds, Retried, Acks, Workers, ForkIds, ownerVars, userVars,
    WaitForOwners

\* The types after Stutter.
LEMMA StutterTyped ==
  ASSUME Base, lossy' = lossy, UNCHANGED vars
  PROVE  Typed'
BY ConstAssumption
DEF Base, Typed, CallState, Kinds, Retried, Acks, Workers, ForkIds, ownerVars, userVars,
    vars, protocolVars

\* The types after Leave.
LEMMA LeaveTyped ==
  ASSUME Base, lossy' = lossy, NEW w \in Workers, Leave(w)
  PROVE  Typed'
BY ConstAssumption
DEF Base, Typed, CallState, Kinds, Retried, Acks, Workers, ForkIds, ownerVars, userVars,
    Leave

-----------------------------------------------------------------------------
(* The calls.                                                              *)

\* The first attempt of a call.
LEMMA OpenCallEffect ==
  ASSUME Typed, NEW k \in Retried, NEW c \in Forks, OpenCall(k, c)
  PROVE  \A j \in Retried, f \in Forks : Open(j, f)' <=> Open(j, f) \/ (j = k /\ f = c)
BY DEF Typed, OpenCall, Open

\* An acknowledgement completes a call.
LEMMA DoneEffect ==
  ASSUME Typed, NEW k \in Retried, NEW c \in Forks,
         call' = [call EXCEPT ![k][c].state = "done"]
  PROVE  \A j \in Retried, f \in Forks : Open(j, f)' <=> Open(j, f) /\ ~(j = k /\ f = c)
BY DEF Typed, CallState, Open

\* finishForkRequest completes one call and opens the next.
LEMMA ForkAckEffect ==
  ASSUME Typed, NEW c \in Forks,
         call' = [call EXCEPT !["forkRequest"][c].state = "done",
                              !["childAccept"][c] = [attempt |-> 1, state |-> "open"]]
  PROVE  \A j \in Retried, f \in Forks :
           Open(j, f)' <=> \/ Open(j, f) /\ ~(j = "forkRequest" /\ f = c)
                           \/ j = "childAccept" /\ f = c
BY DEF Typed, CallState, Open, Retried

\* An attempt times out.
LEMMA TimeoutEffect ==
  ASSUME Typed, NEW k \in Retried, NEW c \in Forks, AttemptTimesOut(k, c)
  PROVE  /\ \A j \in Retried, f \in Forks : Open(j, f)' => Open(j, f)
         /\ \A j \in Retried, f \in Forks \ {c} : Open(j, f)' <=> Open(j, f)
<1>1. CASE call[k][c].attempt < MaxAttempts
  <2>1. call' = [call EXCEPT ![k][c].attempt = call[k][c].attempt + 1]
    BY <1>1 DEF AttemptTimesOut
  <2> QED
    BY <2>1 DEF Typed, CallState, Open
<1>2. CASE ~(call[k][c].attempt < MaxAttempts)
  <2>1. call' = [call EXCEPT ![k][c].state = "failed"]
    BY <1>2 DEF AttemptTimesOut
  <2> QED
    BY <2>1 DEF Typed, CallState, Open
<1> QED
  BY <1>1, <1>2

\* getOrCreateOwnerRRef finds or makes the OwnerRRef, and ends the waits for it.
LEMMA GetOrCreateEffect ==
  ASSUME Typed, NEW i \in 1..(made + 1), NEW c, GetOrCreateOwnerRRef(i), InstAfter(i, c)
  PROVE  /\ owners' # 0 /\ owners' = i
         /\ owners # 0 => owners' = owners /\ made' = made
         /\ owners = 0 => owners' = made + 1 /\ made' = made + 1
         /\ \A g \in Forks : (fetch'[g] = "no") <=> (fetch[g] = "no")
         /\ \A g \in ForkIds : inst'[g] \in {inst[g], owners'}
<1>1. owners' = i /\ i # 0
  BY DEF GetOrCreateOwnerRRef, Typed
<1>2. /\ owners # 0 => owners' = owners /\ made' = made
      /\ owners = 0 => owners' = made + 1 /\ made' = made + 1
  BY DEF GetOrCreateOwnerRRef
<1>3. \A g \in Forks : (fetch'[g] = "no") <=> (fetch[g] = "no")
  BY DEF GetOrCreateOwnerRRef, Typed
<1>4. \A g \in ForkIds : inst'[g] \in {inst[g], owners'}
  BY <1>1 DEF InstAfter
<1> QED
  BY <1>1, <1>2, <1>3, <1>4

\* tryDel of several forks.
LEMMA DelUsersEffect ==
  ASSUME Typed, Attempts, lossy' = lossy, NEW D \in SUBSET Forks, DelUsers(D)
  PROVE  LET S == {f \in D \ deletedOnOwner : phase[loc[f]] # "left"} IN
         /\ deletedOnOwner' = deletedOnOwner \cup D
         /\ Flying("userDelete")' = Flying("userDelete") \cup S
         /\ Only({"userDelete"})
         /\ Attempts'
         /\ \A j \in Retried, f \in Forks :
              Open(j, f)' <=> Open(j, f) \/ (j = "userDelete" /\ f \in S)
<1> DEFINE S == {f \in D \ deletedOnOwner : phase[loc[f]] # "left"}
<1>1. /\ deletedOnOwner' = deletedOnOwner \cup D
      /\ net' = net \cup {Msg("userDelete", f, 1) : f \in S}
      /\ call' = [call EXCEPT !["userDelete"] = [f \in Forks |->
                    IF f \in S THEN [attempt |-> 1, state |-> "open"]
                               ELSE call["userDelete"][f]]]
  BY DEF DelUsers
<1>2. S \in SUBSET Forks /\ "userDelete" \in Kinds /\ MaxAttempts \in Nat \ {0}
  BY ConstAssumption DEF Kinds, Retried
<1> HIDE DEF S
<1>3. /\ Flying("userDelete")' = Flying("userDelete") \cup S
      /\ Only({"userDelete"})
      /\ Attempts'
  BY <1>1, <1>2, NetAddAll
<1>4. \A j \in Retried, f \in Forks :
        Open(j, f)' <=> Open(j, f) \/ (j = "userDelete" /\ f \in S)
  BY <1>1 DEF Typed, Open, Retried
<1> QED
  BY <1>1, <1>3, <1>4 DEF S


-----------------------------------------------------------------------------
(* One step.                                                               *)

\* What every step keeps.
Kept ==
  /\ Base'
  /\ OwnerInv /\ ~ShareUnconfirmed => OwnerInv'
  /\ CInv => CInv'

\* A step that does not concern a fork.
Same(f) ==
  /\ loc'[f] = loc[f] /\ parent'[f] = parent[f] /\ stage'[f] = stage[f]
  /\ fetch'[f] = "no" <=> fetch[f] = "no"
  /\ stage[f] = "prepare" /\ inst[f] # 0 => inst'[f] # 0
  /\ f \in alive' <=> f \in alive
  /\ f \in held' <=> f \in held
  /\ f \in pendingUsers' <=> f \in pendingUsers
  /\ f \in confirmedUsers' <=> f \in confirmedUsers
  /\ f \in pendingChildren' <=> f \in pendingChildren
  /\ f \in deletedOnOwner' <=> f \in deletedOnOwner
  /\ f \in timedOut' <=> f \in timedOut
  /\ f \in forks' <=> f \in forks
  /\ \A k \in Kinds : f \in Flying(k)' <=> f \in Flying(k)
  /\ \A k \in Retried : Open(k, f)' <=> Open(k, f)

\* What the invariant says of a fork is kept by a step that does not concern it.
LEMMA SameKeeps ==
  ASSUME NEW f \in Forks, Same(f)
  PROVE  /\ UnbornOf(f) => UnbornOf(f)'
         /\ MapsOf(f) => MapsOf(f)'
         /\ CreatorOf(f) => CreatorOf(f)'
         /\ ChildOf(f) /\ (Coming(f) => phase'[Owner] = phase[Owner]) => ChildOf(f)'
<1>1. /\ \A k \in Kinds : f \in Flying(k)' <=> f \in Flying(k)
      /\ "rpc" \in Kinds /\ "remoteCall" \in Kinds /\ "remoteRet" \in Kinds
      /\ "forkRequest" \in Kinds /\ "forkAck" \in Kinds /\ "childAccept" \in Kinds
      /\ "userDelete" \in Kinds
      /\ "forkRequest" \in Retried /\ "childAccept" \in Retried /\ "userDelete" \in Retried
      /\ \A k \in Retried : Open(k, f)' <=> Open(k, f)
  BY DEF Same, Kinds, Retried, Acks
<1>2. (Coming(f)' <=> Coming(f)) /\ (Creating(f)' <=> Creating(f))
  BY <1>1 DEF Same, Coming, Creating
<1>3. UnbornOf(f) => UnbornOf(f)'
  BY <1>1 DEF Same, UnbornOf
<1>4. MapsOf(f) => MapsOf(f)'
  BY <1>2 DEF Same, MapsOf
<1>5. CreatorOf(f) => CreatorOf(f)'
  BY <1>1, <1>2 DEF Same, CreatorOf
<1>6. ChildOf(f) /\ (Coming(f) => phase'[Owner] = phase[Owner]) => ChildOf(f)'
  BY <1>1, <1>2 DEF Same, ChildOf
<1> QED
  BY <1>3, <1>4, <1>5, <1>6

\* ... and so is what holds on a reliable network.
LEMMA SameClean ==
  ASSUME NEW f \in Forks, Same(f), lossy' = lossy, CleanOf(f),
         \/ phase' = phase
         \/ f \in pendingUsers \cup confirmedUsers /\ ~lossy => phase'[loc[f]] \in {"run", "drain"}
  PROVE  CleanOf(f)'
<1>1. /\ \A k \in Kinds : f \in Flying(k)' <=> f \in Flying(k)
      /\ "rpc" \in Kinds /\ "forkRequest" \in Kinds /\ "forkAck" \in Kinds
      /\ "userDelete" \in Kinds
  BY DEF Same, Kinds, Retried, Acks
<1>2. Coming(f)' <=> Coming(f)
  BY <1>1 DEF Same, Coming
<1> QED
  BY <1>1, <1>2 DEF Same, CleanOf

\* While the creator's rpc.remote() is under way nobody else has the RRef.
LEMMA Alone ==
  ASSUME Base, OwnerInv, NEW c \in Forks, Creating(c)
  PROVE  /\ parent[c] = None /\ loc[c] # None /\ ownerRef = 0 /\ forks \subseteq {c}
         /\ \A g \in Forks \ {c} : loc[g] = None
<1>1. UnbornOf(c) /\ CreatorOf(c) /\ LoneOf(c) /\ \A g \in Forks : UnbornOf(g)
  BY DEF Base, OwnerInv, Unborn, Creator, Lone
<1>2. loc[c] # None
  BY <1>1 DEF UnbornOf, Creating, Kinds
<1>3. /\ parent[c] = None /\ ownerRef = 0 /\ SelfFork \notin forks
      /\ \A g \in Forks \ {c} : loc[g] = None
  BY <1>1, <1>2 DEF CreatorOf, LoneOf
<1>4. forks \subseteq {c}
  BY <1>1, <1>3 DEF UnbornOf, Base, Typed, ForkIds
<1> QED
  BY <1>2, <1>3, <1>4

\* Before the creator's fork is added the owner knows no fork: none can be the last.
LEMMA Assigning ==
  ASSUME Base, OwnerInv
  PROVE  \A f \in Forks : stage[f] = "assign" => forks = {}
<1> SUFFICES ASSUME NEW f \in Forks, stage[f] = "assign" PROVE forks = {}
  OBVIOUS
<1>1. Creating(f) /\ CreatorOf(f)
  BY DEF Creating, Base, Creator
<1> QED
  BY <1>1, Alone DEF CreatorOf

\* A child that its parent tracks keeps the OwnerRRef.
LEMMA HoldsOwner ==
  ASSUME Base, OwnerInv, NEW c \in pendingChildren, phase[Owner] = "run"
  PROVE  owners # 0
<1> DEFINE p == parent[c]
<1>1. c \in Forks /\ ParentOf(c) /\ MadeOf(c)
  BY DEF Base, Typed, Parent, OwnerInv, Made
<1>2. p \in alive /\ p \in Forks /\ p \notin pendingUsers \cup timedOut
  BY <1>1 DEF ParentOf, MadeOf, Base, Typed
<1>3. MapsOf(p) /\ ChildOf(p)
  BY <1>2 DEF Base, Maps, Child
<1>4. loc[p] \in Workers
  BY <1>2, <1>3 DEF MapsOf, Workers
<1>5. p \notin deletedOnOwner
  BY <1>1, <1>4 DEF ParentOf, Base, Phases, Workers
<1>6. p \in forks /\ stage[p] # "prepare"
  BY <1>2, <1>3, <1>5 DEF MapsOf, ChildOf, Coming
<1> QED
  BY <1>2, <1>5, <1>6 DEF OwnerInv, OwnerHeld

\* The creator's UserRRef is pending, and nobody else has the RRef.
LEMMA RemoteKeeps ==
  ASSUME Base, lossy' = lossy, NEW u \in Users, NEW c \in Forks, Remote(u, c)
  PROVE  Kept
<1>t. Typed'
  BY RemoteTyped
<1>e. /\ ~born
      /\ phase[u] = "run"
      /\ u \in Users
      /\ loc[c] = None
      /\ born' = TRUE
      /\ loc' = [loc EXCEPT ![c] = u]
      /\ alive' = alive \cup {c}
      /\ held' = held \cup {c}
      /\ pendingUsers' = pendingUsers \cup {c}
      /\ net' = net \cup {Msg("remoteCall", c, 1)}
      /\ UNCHANGED <<owners, made, valued, forks, stage, inst, ownerRef, fetch, parent,
                     confirmedUsers, pendingChildren, deletedOnOwner, timedOut, call,
                     phase>>
  BY ConstAssumption
  DEF Base, ownerVars, userVars, Kinds, Retried, Acks, ForkIds, Remote, Fresh
<1>n. /\ Only({"remoteCall"}) /\ Attempts'
      /\ Flying("remoteCall")' = Flying("remoteCall") \cup {c}
  <2>1. /\ Typed /\ Attempts /\ "remoteCall" \in Kinds /\ c \in ForkIds
        /\ 1 \in 1..MaxAttempts
    BY <1>e, ConstAssumption DEF Base, Kinds, Retried, Acks, ForkIds
  <2> QED
    BY <1>e, <2>1, NetAdd DEF Once
<1>o. c \in Forks /\ UnbornOf(c) /\ MapsOf(c) /\ CreatorOf(c) /\ ChildOf(c) /\ ParentOf(c)
  BY <1>e DEF Base, Unborn, Maps, Creator, Child, Parent
<1>s. \A f \in Forks \ {c} : Same(f)
  BY <1>e, <1>n, <1>o DEF Base, Typed, Same, Kinds, Retried, Acks, Only, Open
<1>u. UnbornOf(c)'
  BY <1>e, <1>n, <1>o, ConstAssumption DEF Base, Typed, Workers, UnbornOf, MapsOf
<1>m. MapsOf(c)'
  BY <1>e, <1>n, <1>o, ConstAssumption
  DEF Base, Typed, UnbornOf, MapsOf, CreatorOf, ChildOf, Coming, Creating, Only, Workers,
      Only
<1>c. CreatorOf(c)'
  BY <1>e, <1>n, <1>o, ConstAssumption
  DEF Base, Typed, UnbornOf, MapsOf, CreatorOf, ChildOf, Coming, Creating, Only, Only
<1>h. ChildOf(c)'
  BY <1>e, <1>n, <1>o, ConstAssumption
  DEF Base, Typed, UnbornOf, MapsOf, CreatorOf, ChildOf, Coming, Creating, Open, Only
<1>p. \A f \in Forks : ParentOf(f)'
  BY <1>e, <1>n, <1>o, ConstAssumption
  DEF Base, Typed, Parent, ParentOf, Maps, MapsOf, Unborn, UnbornOf, ChildOf
<1>f. SelfInv'
  BY <1>e, <1>n, <1>o, ConstAssumption
  DEF Base, Typed, SelfInv, Kinds, Retried, Acks, ForkIds, Only
<1>b. NotBorn' /\ Phases'
  BY <1>e, <1>n, <1>o, ConstAssumption
  DEF Base, Typed, NotBorn, Phases, Kinds, Retried, Acks, ForkIds, UnbornOf, SelfInv, Only
<1>B. Base'
  BY <1>t, <1>n, <1>s, <1>u, <1>m, <1>c, <1>h, <1>p, <1>f, <1>b, <1>e, SameKeeps
  DEF Base, Unborn, Maps, Creator, Child, Parent
<1>x. /\ stage'[SelfFork] = stage[SelfFork] /\ (SelfFork \in forks' <=> SelfFork \in forks)
      /\ \A j \in Kinds : SelfFork \in Flying(j)' <=> SelfFork \in Flying(j)
  BY <1>e, <1>n, <1>o, ConstAssumption DEF Base, Typed, Kinds, Retried, Acks, ForkIds, Only
<1>O. ASSUME OwnerInv, ~ShareUnconfirmed PROVE OwnerInv'
  <2>r. /\ made = 0 /\ \A f \in Forks : /\ loc[f] = None /\ f \notin pendingChildren
                                  /\ stage[f] = "none" /\ f \notin Flying("remoteCall")
    BY <1>e DEF Base, NotBorn, Unborn, UnbornOf, Kinds
  <2>l. Lone'
    BY <1>O, <1>e, <1>o, <1>x, <2>r, ConstAssumption
    DEF OwnerInv, Base, Typed, Lone, LoneOf, Unborn, UnbornOf, NotBorn
  <2>d. Made'
    BY <1>O, <1>e, <1>n, <1>o, <2>r, ConstAssumption
    DEF OwnerInv, Base, Typed, Made, MadeOf, Instances, Workers, ForkIds, Only, UnbornOf
  <2>i. Instances'
    BY <1>O, <1>e, <1>o, <2>r, ConstAssumption
    DEF OwnerInv, Base, Typed, Instances, Made, MadeOf, ForkIds
  <2>h. OwnerHeld'
    BY <1>O, <1>e, <1>o, <2>r, ConstAssumption
    DEF OwnerInv, Base, Typed, OwnerHeld, Instances, Workers, ForkIds, NotBorn, ChildOf
  <2> QED
    BY <2>l, <2>d, <2>i, <2>h DEF OwnerInv
<1>C. ASSUME CInv PROVE CInv'
  <2>c. CleanOf(c)'
    BY <1>C, <1>e, <1>n, <1>o, ConstAssumption
    DEF CInv, Clean, CleanOf, UnbornOf, MapsOf, CreatorOf, ChildOf, Coming, Creating, Base,
        Typed, Kinds, Retried, Acks, Only
  <2>f. \A f \in Forks \ {c} : CleanOf(f)'
    BY <1>C, <1>e, <1>s, SameClean DEF CInv, Clean
  <2>v. LeftInv'
    BY <1>C, <1>e, <1>n, <1>o, ConstAssumption
    DEF CInv, LeftInv, Kinds, Retried, Acks, Workers, ForkIds, Only, UnbornOf
  <2> QED
    BY <2>f, <2>c, <2>v DEF CInv, Clean
<1> QED
  BY <1>B, <1>O, <1>C DEF Kept

\* The owner's self fork keeps the OwnerRRef until the call returns.
LEMMA RemoteSelfKeeps ==
  ASSUME Base, lossy' = lossy, RemoteSelf
  PROVE  Kept
<1>t. Typed'
  BY RemoteSelfTyped
<1>e. /\ ~born
      /\ phase[Owner] = "run"
      /\ born' = TRUE
      /\ made' = 1
      /\ owners' = 1
      /\ ownerRef' = 1
      /\ forks' = {SelfFork}
      /\ net' = net \cup {Msg("remoteCall", SelfFork, 1)}
      /\ UNCHANGED <<valued, stage, inst, fetch, loc, parent, alive, held, pendingUsers,
                     confirmedUsers, pendingChildren, deletedOnOwner, timedOut, call,
                     phase>>
  BY ConstAssumption
  DEF Base, ownerVars, userVars, Kinds, Retried, Acks, ForkIds, RemoteSelf
<1>n. /\ Only({"remoteCall"}) /\ Attempts'
      /\ Flying("remoteCall")' = Flying("remoteCall") \cup {SelfFork}
  <2>1. /\ Typed /\ Attempts /\ "remoteCall" \in Kinds /\ SelfFork \in ForkIds
        /\ 1 \in 1..MaxAttempts
    BY <1>e, ConstAssumption DEF Base, Kinds, Retried, Acks, ForkIds
  <2> QED
    BY <1>e, <2>1, NetAdd DEF Once
<1>q. /\ forks = {} /\ stage[SelfFork] = "none" /\ SelfFork \notin Forks
      /\ \A k \in Kinds : SelfFork \notin Flying(k)
  BY <1>e, ConstAssumption DEF Base, NotBorn
<1>s. \A f \in Forks : Same(f)
  BY <1>e, <1>n, <1>q, ConstAssumption
  DEF Base, Typed, Same, Kinds, Retried, Acks, Open, ForkIds, Only
<1>p. \A f \in Forks : ParentOf(f)'
  BY <1>e, <1>n, <1>q, ConstAssumption
  DEF Base, Typed, Parent, ParentOf, Maps, MapsOf, Unborn, UnbornOf
<1>f. SelfInv'
  BY <1>e, <1>n, <1>q, ConstAssumption
  DEF Base, Typed, SelfInv, Kinds, Retried, Acks, ForkIds, Only
<1>b. NotBorn' /\ Phases'
  BY <1>e, <1>n, <1>q, ConstAssumption
  DEF Base, Typed, NotBorn, Phases, Kinds, Retried, Acks, ForkIds, UnbornOf, SelfInv, Only
<1>B. Base'
  BY <1>t, <1>n, <1>s, <1>p, <1>f, <1>b, <1>e, <1>q, SameKeeps
  DEF Base, Unborn, Maps, Creator, Child, Parent
<1>O. ASSUME OwnerInv, ~ShareUnconfirmed PROVE OwnerInv'
  <2>r. /\ made = 0 /\ \A f \in Forks : /\ loc[f] = None /\ f \notin pendingChildren
                                  /\ stage[f] = "none" /\ f \notin Flying("remoteCall")
    BY <1>e DEF Base, NotBorn, Unborn, UnbornOf, Kinds
  <2>l. Lone'
    BY <1>O, <1>e, <1>n, <1>q, <2>r, ConstAssumption
    DEF OwnerInv, Base, Typed, Lone, LoneOf, Unborn, UnbornOf, NotBorn, Kinds, Retried,
        Acks, Only
  <2>d. Made'
    BY <1>O, <1>e, <1>n, <1>q, <2>r, ConstAssumption
    DEF OwnerInv, Base, Typed, Made, MadeOf, Instances, Workers, ForkIds, Only
  <2>i. Instances'
    BY <1>O, <1>e, <1>q, <2>r, ConstAssumption
    DEF OwnerInv, Base, Typed, Instances, Made, MadeOf, ForkIds
  <2>h. OwnerHeld'
    BY <1>O, <1>e, <1>q, <2>r, ConstAssumption
    DEF OwnerInv, Base, Typed, OwnerHeld, Instances, Workers, ForkIds, NotBorn
  <2> QED
    BY <2>l, <2>d, <2>i, <2>h DEF OwnerInv
<1>C. ASSUME CInv PROVE CInv'
  <2>f. \A f \in Forks : CleanOf(f)'
    BY <1>C, <1>e, <1>s, SameClean DEF CInv, Clean
  <2>v. LeftInv'
    BY <1>C, <1>e, <1>n, <1>q, ConstAssumption
    DEF CInv, LeftInv, Kinds, Retried, Acks, Workers, ForkIds, Only
  <2> QED
    BY <2>f, <2>v DEF CInv, Clean
<1> QED
  BY <1>B, <1>O, <1>C DEF Kept

\* A local OwnerRRef is not in owners_.
LEMMA CreateLocalKeeps ==
  ASSUME Base, lossy' = lossy, CreateLocal
  PROVE  Kept
<1>t. Typed'
  BY CreateLocalTyped
<1>e. /\ ~born
      /\ phase[Owner] = "run"
      /\ born' = TRUE
      /\ made' = 1
      /\ ownerRef' = 1
      /\ valued' = {1}
      /\ UNCHANGED <<owners, forks, stage, inst, fetch, loc, parent, alive, held,
                     pendingUsers, confirmedUsers, pendingChildren, deletedOnOwner,
                     timedOut, call, phase, net>>
  BY ConstAssumption
  DEF Base, ownerVars, userVars, Kinds, Retried, Acks, ForkIds, CreateLocal
<1>n. /\ Only({}) /\ Attempts'
  BY <1>e, NetSame DEF Base
<1>s. \A f \in Forks : Same(f)
  BY <1>e, <1>n, ConstAssumption
  DEF Base, Typed, Same, Kinds, Retried, Acks, Open, ForkIds, Only
<1>p. \A f \in Forks : ParentOf(f)'
  BY <1>e, <1>n, ConstAssumption
  DEF Base, Typed, Parent, ParentOf, Maps, MapsOf, Unborn, UnbornOf
<1>f. SelfInv'
  BY <1>e, <1>n, ConstAssumption
  DEF Base, Typed, SelfInv, Kinds, Retried, Acks, ForkIds, Only
<1>b. NotBorn' /\ Phases'
  BY <1>e, <1>n, ConstAssumption
  DEF Base, Typed, NotBorn, Phases, Kinds, Retried, Acks, ForkIds, UnbornOf, SelfInv, Only
<1>B. Base'
  BY <1>t, <1>n, <1>s, <1>p, <1>f, <1>b, <1>e, SameKeeps
  DEF Base, Unborn, Maps, Creator, Child, Parent
<1>O. ASSUME OwnerInv, ~ShareUnconfirmed PROVE OwnerInv'
  <2>r. /\ made = 0 /\ \A f \in Forks : /\ loc[f] = None /\ f \notin pendingChildren
                                  /\ stage[f] = "none" /\ f \notin Flying("remoteCall")
    BY <1>e DEF Base, NotBorn, Unborn, UnbornOf, Kinds
  <2>l. Lone'
    BY <1>O, <1>e, <1>n, <2>r, ConstAssumption
    DEF OwnerInv, Base, Typed, Lone, LoneOf, Unborn, UnbornOf, NotBorn, Kinds, Retried,
        Acks, Only
  <2>d. Made'
    BY <1>O, <1>e, <1>n, <2>r, ConstAssumption
    DEF OwnerInv, Base, Typed, Made, MadeOf, Instances, Workers, ForkIds, Only
  <2>i. Instances'
    BY <1>O, <1>e, <2>r, ConstAssumption
    DEF OwnerInv, Base, Typed, Instances, Made, MadeOf, ForkIds
  <2>h. OwnerHeld'
    BY <1>O, <1>e, <2>r, ConstAssumption
    DEF OwnerInv, Base, Typed, OwnerHeld, Instances, Workers, ForkIds, NotBorn
  <2> QED
    BY <2>l, <2>d, <2>i, <2>h DEF OwnerInv
<1>C. ASSUME CInv PROVE CInv'
  <2>f. \A f \in Forks : CleanOf(f)'
    BY <1>C, <1>e, <1>s, SameClean DEF CInv, Clean
  <2>v. LeftInv'
    BY <1>C, <1>e, <1>n, ConstAssumption
    DEF CInv, LeftInv, Kinds, Retried, Acks, Workers, ForkIds, Only
  <2> QED
    BY <2>f, <2>v DEF CInv, Clean
<1> QED
  BY <1>B, <1>O, <1>C DEF Kept

\* The parent is alive and not deleted, and confirmed: the owner knows it.
LEMMA ShareFromUserKeeps ==
  ASSUME Base, lossy' = lossy, NEW p \in Forks, NEW c \in Forks, NEW w \in Workers,
         ShareFromUser(p, c, w)
  PROVE  Kept
<1>t. Typed'
  BY ShareFromUserTyped
<1>e. /\ p \in held \ (timedOut \cup deletedOnOwner)
      /\ phase[loc[p]] = "run"
      /\ ShareUnconfirmed \/ p \notin pendingUsers
      /\ loc[c] = None
      /\ loc' = [loc EXCEPT ![c] = w]
      /\ parent' = [parent EXCEPT ![c] = p]
      /\ pendingChildren' = pendingChildren \cup {c}
      /\ net' = net \cup {Msg("rpc", c, 1)}
      /\ UNCHANGED <<born, owners, made, valued, forks, stage, inst, ownerRef, fetch, alive,
                     held, pendingUsers, confirmedUsers, deletedOnOwner, timedOut, call,
                     phase>>
  BY ConstAssumption
  DEF Base, ownerVars, userVars, Kinds, Retried, Acks, ForkIds, ShareFromUser, Usable, Fresh
<1>n. /\ Only({"rpc"}) /\ Attempts'
      /\ Flying("rpc")' = Flying("rpc") \cup {c}
  <2>1. /\ Typed /\ Attempts /\ "rpc" \in Kinds /\ c \in ForkIds
        /\ 1 \in 1..MaxAttempts
    BY <1>e, ConstAssumption DEF Base, Kinds, Retried, Acks, ForkIds
  <2> QED
    BY <1>e, <2>1, NetAdd DEF Once
<1>o. c \in Forks /\ UnbornOf(c) /\ MapsOf(c) /\ CreatorOf(c) /\ ChildOf(c) /\ ParentOf(c)
  BY <1>e DEF Base, Unborn, Maps, Creator, Child, Parent
<1>q. /\ p # c /\ p \in alive /\ loc[p] \in Users /\ born
      /\ phase[Owner] = "run"
  <2>1. UnbornOf(p) /\ MapsOf(p) /\ (~born => loc[p] = None)
    BY DEF Base, Unborn, Maps, NotBorn
  <2>2. p # c /\ p \in alive /\ loc[p] \in Users /\ born
    BY <1>e, <2>1, ConstAssumption DEF UnbornOf, MapsOf
  <2> QED
    BY <1>e, <2>2 DEF Base, Phases, Workers
<1>s. \A f \in Forks \ {c} : Same(f)
  BY <1>e, <1>n, <1>o, <1>q DEF Base, Typed, Same, Kinds, Retried, Acks, Only, Open
<1>u. UnbornOf(c)'
  BY <1>e, <1>n, <1>o, <1>q, ConstAssumption DEF Base, Typed, Workers, UnbornOf, MapsOf
<1>m. MapsOf(c)'
  BY <1>e, <1>n, <1>o, <1>q, ConstAssumption
  DEF Base, Typed, UnbornOf, MapsOf, CreatorOf, ChildOf, Coming, Creating, Only, Workers,
      Only
<1>c. CreatorOf(c)'
  BY <1>e, <1>n, <1>o, <1>q, ConstAssumption
  DEF Base, Typed, UnbornOf, MapsOf, CreatorOf, ChildOf, Coming, Creating, Only, Only
<1>h. ChildOf(c)'
  BY <1>e, <1>n, <1>o, <1>q, ConstAssumption
  DEF Base, Typed, UnbornOf, MapsOf, CreatorOf, ChildOf, Coming, Creating, Open, Only
<1>p. \A f \in Forks : ParentOf(f)'
  BY <1>e, <1>n, <1>o, <1>q, ConstAssumption
  DEF Base, Typed, Parent, ParentOf, Maps, MapsOf, Unborn, UnbornOf, ChildOf
<1>f. SelfInv'
  BY <1>e, <1>n, <1>o, <1>q, ConstAssumption
  DEF Base, Typed, SelfInv, Kinds, Retried, Acks, ForkIds, Only
<1>b. NotBorn' /\ Phases'
  BY <1>e, <1>n, <1>o, <1>q, ConstAssumption
  DEF Base, Typed, NotBorn, Phases, Kinds, Retried, Acks, ForkIds, UnbornOf, SelfInv, Only
<1>B. Base'
  BY <1>t, <1>n, <1>s, <1>u, <1>m, <1>c, <1>h, <1>p, <1>f, <1>b, <1>e, <1>q, SameKeeps
  DEF Base, Unborn, Maps, Creator, Child, Parent
<1>x. /\ stage'[SelfFork] = stage[SelfFork] /\ (SelfFork \in forks' <=> SelfFork \in forks)
      /\ \A j \in Kinds : SelfFork \in Flying(j)' <=> SelfFork \in Flying(j)
  BY <1>e, <1>n, <1>o, <1>q, ConstAssumption
  DEF Base, Typed, Kinds, Retried, Acks, ForkIds, Only
<1>O. ASSUME OwnerInv, ~ShareUnconfirmed PROVE OwnerInv'
  <2>r. made = 1 /\ p \notin pendingUsers
    <3>1. MapsOf(p) /\ ChildOf(p) /\ p \notin pendingUsers
      BY <1>e, <1>O DEF Base, Maps, Child
    <3> QED
      BY <1>e, <1>q, <1>O, <3>1 DEF MapsOf, ChildOf, OwnerInv, Instances
  <2>l. Lone'
    BY <1>O, <1>e, <1>o, <1>x, <1>q, <2>r, ConstAssumption
    DEF OwnerInv, Base, Typed, Lone, LoneOf, Unborn, UnbornOf
  <2>d. Made'
    BY <1>O, <1>e, <1>n, <1>o, <1>q, <2>r, ConstAssumption
    DEF OwnerInv, Base, Typed, Made, MadeOf, Instances, Workers, ForkIds, Only, UnbornOf
  <2>i. Instances'
    BY <1>O, <1>e, <1>o, <1>q, <2>r, ConstAssumption
    DEF OwnerInv, Base, Typed, Instances, Made, MadeOf, ForkIds
  <2>h. OwnerHeld'
    BY <1>O, <1>e, <1>o, <1>q, <2>r, ConstAssumption
    DEF OwnerInv, Base, Typed, OwnerHeld, Instances, Workers, ForkIds, ChildOf
  <2> QED
    BY <2>l, <2>d, <2>i, <2>h DEF OwnerInv
<1>C. ASSUME CInv PROVE CInv'
  <2>c. CleanOf(c)'
    BY <1>C, <1>e, <1>n, <1>o, <1>q, ConstAssumption
    DEF CInv, Clean, CleanOf, MapsOf, CreatorOf, ChildOf, Coming, Creating, Only
  <2>f. \A f \in Forks \ {c} : CleanOf(f)'
    BY <1>C, <1>e, <1>s, SameClean DEF CInv, Clean
  <2>v. LeftInv'
    BY <1>C, <1>e, <1>n, <1>o, <1>q, ConstAssumption
    DEF CInv, LeftInv, Kinds, Retried, Acks, Workers, ForkIds, Only, UnbornOf
  <2> QED
    BY <2>f, <2>c, <2>v DEF CInv, Clean
<1> QED
  BY <1>B, <1>O, <1>C DEF Kept

\* The child's fork is added before owners_ is written.
LEMMA ShareFromOwnerKeeps ==
  ASSUME Base, lossy' = lossy, NEW c \in Forks, NEW w \in Workers, ShareFromOwner(c, w)
  PROVE  Kept
<1>t. Typed'
  BY ShareFromOwnerTyped
<1>e. /\ ownerRef # 0
      /\ phase[Owner] = "run"
      /\ loc[c] = None
      /\ forks' = forks \cup {c}
      /\ stage' = [stage EXCEPT ![c] = "prepare"]
      /\ inst' = [inst EXCEPT ![c] = ownerRef]
      /\ loc' = [loc EXCEPT ![c] = w]
      /\ parent' = [parent EXCEPT ![c] = Owner]
      /\ UNCHANGED <<born, owners, made, valued, ownerRef, fetch, alive, held, pendingUsers,
                     confirmedUsers, pendingChildren, deletedOnOwner, timedOut, call, phase,
                     net>>
  BY ConstAssumption
  DEF Base, ownerVars, userVars, Kinds, Retried, Acks, ForkIds, ShareFromOwner, Fresh
<1>n. /\ Only({}) /\ Attempts'
  BY <1>e, NetSame DEF Base
<1>o. c \in Forks /\ UnbornOf(c) /\ MapsOf(c) /\ CreatorOf(c) /\ ChildOf(c) /\ ParentOf(c)
  BY <1>e DEF Base, Unborn, Maps, Creator, Child, Parent
<1>s. \A f \in Forks \ {c} : Same(f)
  BY <1>e, <1>n, <1>o DEF Base, Typed, Same, Kinds, Retried, Acks, Only, Open, ForkIds
<1>u. UnbornOf(c)'
  BY <1>e, <1>n, <1>o, ConstAssumption DEF Base, Typed, Workers, UnbornOf, MapsOf
<1>m. MapsOf(c)'
  BY <1>e, <1>n, <1>o, ConstAssumption
  DEF Base, Typed, UnbornOf, MapsOf, CreatorOf, ChildOf, Coming, Creating, Only, Workers,
      Only
<1>c. CreatorOf(c)'
  BY <1>e, <1>n, <1>o, ConstAssumption
  DEF Base, Typed, UnbornOf, MapsOf, CreatorOf, ChildOf, Coming, Creating, Only, Only
<1>h. ChildOf(c)'
  BY <1>e, <1>n, <1>o, ConstAssumption
  DEF Base, Typed, UnbornOf, MapsOf, CreatorOf, ChildOf, Coming, Creating, Open, Only
<1>p. \A f \in Forks : ParentOf(f)'
  BY <1>e, <1>n, <1>o, ConstAssumption
  DEF Base, Typed, Parent, ParentOf, Maps, MapsOf, Unborn, UnbornOf, ChildOf
<1>f. SelfInv'
  BY <1>e, <1>n, <1>o, ConstAssumption
  DEF Base, Typed, SelfInv, Kinds, Retried, Acks, ForkIds, Only
<1>b. NotBorn' /\ Phases'
  BY <1>e, <1>n, <1>o, ConstAssumption
  DEF Base, Typed, NotBorn, Phases, Kinds, Retried, Acks, ForkIds, UnbornOf, SelfInv, Only
<1>B. Base'
  BY <1>t, <1>n, <1>s, <1>u, <1>m, <1>c, <1>h, <1>p, <1>f, <1>b, <1>e, SameKeeps
  DEF Base, Unborn, Maps, Creator, Child, Parent
<1>x. /\ stage'[SelfFork] = stage[SelfFork] /\ (SelfFork \in forks' <=> SelfFork \in forks)
      /\ \A j \in Kinds : SelfFork \in Flying(j)' <=> SelfFork \in Flying(j)
  BY <1>e, <1>n, <1>o, ConstAssumption DEF Base, Typed, Kinds, Retried, Acks, ForkIds, Only
<1>O. ASSUME OwnerInv, ~ShareUnconfirmed PROVE OwnerInv'
  <2>l. Lone'
    BY <1>O, <1>e, <1>o, <1>x, ConstAssumption
    DEF OwnerInv, Base, Typed, Lone, LoneOf, Unborn, UnbornOf
  <2>d. Made'
    BY <1>O, <1>e, <1>n, <1>o, ConstAssumption
    DEF OwnerInv, Base, Typed, Made, MadeOf, Instances, Workers, ForkIds, Only, UnbornOf
  <2>i. Instances'
    BY <1>O, <1>e, <1>o, ConstAssumption
    DEF OwnerInv, Base, Typed, Instances, Made, MadeOf, ForkIds
  <2>h. OwnerHeld'
    BY <1>O, <1>e, <1>o, ConstAssumption
    DEF OwnerInv, Base, Typed, OwnerHeld, Instances, Workers, ForkIds, ChildOf
  <2> QED
    BY <2>l, <2>d, <2>i, <2>h DEF OwnerInv
<1>C. ASSUME CInv PROVE CInv'
  <2>c. CleanOf(c)'
    BY <1>C, <1>e, <1>n, <1>o, ConstAssumption
    DEF CInv, Clean, CleanOf, UnbornOf, MapsOf, CreatorOf, ChildOf, Coming, Creating, Base,
        Typed, Kinds, Retried, Acks, ForkIds, Only
  <2>f. \A f \in Forks \ {c} : CleanOf(f)'
    BY <1>C, <1>e, <1>s, SameClean DEF CInv, Clean
  <2>v. LeftInv'
    BY <1>C, <1>e, <1>n, <1>o, ConstAssumption
    DEF CInv, LeftInv, Kinds, Retried, Acks, Workers, ForkIds, Only, UnbornOf
  <2> QED
    BY <2>f, <2>c, <2>v DEF CInv, Clean
<1> QED
  BY <1>B, <1>O, <1>C DEF Kept

\* A fetch starts; the UserRRef is held.
LEMMA ToHereKeeps ==
  ASSUME Base, lossy' = lossy, NEW c \in Forks, ToHere(c)
  PROVE  Kept
<1>t. Typed'
  BY ToHereTyped
<1>e. /\ c \in held
      /\ fetch' = [fetch EXCEPT ![c] = "sent"]
      /\ UNCHANGED <<born, owners, made, valued, forks, stage, inst, ownerRef, loc, parent,
                     alive, held, pendingUsers, confirmedUsers, pendingChildren,
                     deletedOnOwner, timedOut, call, phase, net>>
  BY ConstAssumption
  DEF Base, ownerVars, userVars, Kinds, Retried, Acks, ForkIds, ToHere, Usable, SetFetch
<1>n. /\ Only({}) /\ Attempts'
  BY <1>e, NetSame DEF Base
<1>o. c \in Forks /\ UnbornOf(c) /\ MapsOf(c) /\ CreatorOf(c) /\ ChildOf(c) /\ ParentOf(c)
  BY <1>e DEF Base, Unborn, Maps, Creator, Child, Parent
<1>s. \A f \in Forks \ {c} : Same(f)
  BY <1>e, <1>n, <1>o DEF Base, Typed, Same, Kinds, Retried, Acks, Only, Open
<1>u. UnbornOf(c)'
  BY <1>e, <1>n, <1>o, ConstAssumption DEF Base, Typed, Workers, UnbornOf, MapsOf
<1>m. MapsOf(c)'
  BY <1>e, <1>n, <1>o, ConstAssumption
  DEF Base, Typed, UnbornOf, MapsOf, CreatorOf, ChildOf, Coming, Creating, Only, Workers,
      Only
<1>c. CreatorOf(c)'
  BY <1>e, <1>n, <1>o, ConstAssumption
  DEF Base, Typed, UnbornOf, MapsOf, CreatorOf, ChildOf, Coming, Creating, Only, Only
<1>h. ChildOf(c)'
  BY <1>e, <1>n, <1>o, ConstAssumption
  DEF Base, Typed, UnbornOf, MapsOf, CreatorOf, ChildOf, Coming, Creating, Open, Only
<1>p. \A f \in Forks : ParentOf(f)'
  BY <1>e, <1>n, <1>o, ConstAssumption
  DEF Base, Typed, Parent, ParentOf, Maps, MapsOf, Unborn, UnbornOf, ChildOf
<1>f. SelfInv'
  BY <1>e, <1>n, <1>o, ConstAssumption
  DEF Base, Typed, SelfInv, Kinds, Retried, Acks, ForkIds, Only
<1>b. NotBorn' /\ Phases'
  BY <1>e, <1>n, <1>o, ConstAssumption
  DEF Base, Typed, NotBorn, Phases, Kinds, Retried, Acks, ForkIds, UnbornOf, SelfInv, Only
<1>B. Base'
  BY <1>t, <1>n, <1>s, <1>u, <1>m, <1>c, <1>h, <1>p, <1>f, <1>b, <1>e, SameKeeps
  DEF Base, Unborn, Maps, Creator, Child, Parent
<1>x. /\ stage'[SelfFork] = stage[SelfFork] /\ (SelfFork \in forks' <=> SelfFork \in forks)
      /\ \A j \in Kinds : SelfFork \in Flying(j)' <=> SelfFork \in Flying(j)
  BY <1>e, <1>n, <1>o, ConstAssumption DEF Base, Typed, Kinds, Retried, Acks, ForkIds, Only
<1>O. ASSUME OwnerInv, ~ShareUnconfirmed PROVE OwnerInv'
  <2>l. Lone'
    BY <1>O, <1>e, <1>o, <1>x, ConstAssumption
    DEF OwnerInv, Base, Typed, Lone, LoneOf, Unborn, UnbornOf
  <2>d. Made'
    BY <1>O, <1>e, <1>n, <1>o, ConstAssumption
    DEF OwnerInv, Base, Typed, Made, MadeOf, Instances, Workers, ForkIds, Only, UnbornOf
  <2>i. Instances'
    BY <1>O, <1>e, <1>o, ConstAssumption
    DEF OwnerInv, Base, Typed, Instances, Made, MadeOf, ForkIds
  <2>h. OwnerHeld'
    BY <1>O, <1>e, <1>o, ConstAssumption
    DEF OwnerInv, Base, Typed, OwnerHeld, Instances, Workers, ForkIds, ChildOf
  <2> QED
    BY <2>l, <2>d, <2>i, <2>h DEF OwnerInv
<1>C. ASSUME CInv PROVE CInv'
  <2>c. CleanOf(c)'
    BY <1>C, <1>e, <1>n, <1>o, ConstAssumption
    DEF CInv, Clean, CleanOf, MapsOf, CreatorOf, ChildOf, Coming, Creating, Only
  <2>f. \A f \in Forks \ {c} : CleanOf(f)'
    BY <1>C, <1>e, <1>s, SameClean DEF CInv, Clean
  <2>v. LeftInv'
    BY <1>C, <1>e, <1>n, <1>o, ConstAssumption
    DEF CInv, LeftInv, Kinds, Retried, Acks, Workers, ForkIds, Only, UnbornOf
  <2> QED
    BY <2>f, <2>c, <2>v DEF CInv, Clean
<1> QED
  BY <1>B, <1>O, <1>C DEF Kept

\* User code drops a UserRRef; the maps of RRefContext decide what follows.
LEMMA ReleaseKeeps ==
  ASSUME Base, lossy' = lossy, NEW c \in Forks, Release(c)
  PROVE  Kept
<1>t. Typed'
  BY ReleaseTyped
<1>e. /\ fetch[c] = "no"
      /\ c \in held
      /\ c \in pendingUsers => parent[c] = None
      /\ held' = held \ {c}
      /\ UNCHANGED <<born, owners, made, valued, forks, stage, inst, ownerRef, fetch, loc,
                     parent, alive, pendingUsers, confirmedUsers, pendingChildren,
                     deletedOnOwner, timedOut, call, phase, net>>
  BY ConstAssumption DEF Base, ownerVars, userVars, Kinds, Retried, Acks, ForkIds, Release
<1>n. /\ Only({}) /\ Attempts'
  BY <1>e, NetSame DEF Base
<1>o. c \in Forks /\ UnbornOf(c) /\ MapsOf(c) /\ CreatorOf(c) /\ ChildOf(c) /\ ParentOf(c)
  BY <1>e DEF Base, Unborn, Maps, Creator, Child, Parent
<1>s. \A f \in Forks \ {c} : Same(f)
  BY <1>e, <1>n, <1>o DEF Base, Typed, Same, Kinds, Retried, Acks, Only, Open
<1>u. UnbornOf(c)'
  BY <1>e, <1>n, <1>o, ConstAssumption DEF Base, Typed, Workers, UnbornOf, MapsOf
<1>m. MapsOf(c)'
  BY <1>e, <1>n, <1>o, ConstAssumption
  DEF Base, Typed, UnbornOf, MapsOf, CreatorOf, ChildOf, Coming, Creating, Only, Workers,
      Only
<1>c. CreatorOf(c)'
  BY <1>e, <1>n, <1>o, ConstAssumption
  DEF Base, Typed, UnbornOf, MapsOf, CreatorOf, ChildOf, Coming, Creating, Only, Only
<1>h. ChildOf(c)'
  BY <1>e, <1>n, <1>o, ConstAssumption
  DEF Base, Typed, UnbornOf, MapsOf, CreatorOf, ChildOf, Coming, Creating, Open, Only
<1>p. \A f \in Forks : ParentOf(f)'
  BY <1>e, <1>n, <1>o, ConstAssumption
  DEF Base, Typed, Parent, ParentOf, Maps, MapsOf, Unborn, UnbornOf, ChildOf
<1>f. SelfInv'
  BY <1>e, <1>n, <1>o, ConstAssumption
  DEF Base, Typed, SelfInv, Kinds, Retried, Acks, ForkIds, Only
<1>b. NotBorn' /\ Phases'
  BY <1>e, <1>n, <1>o, ConstAssumption
  DEF Base, Typed, NotBorn, Phases, Kinds, Retried, Acks, ForkIds, UnbornOf, SelfInv, Only
<1>B. Base'
  BY <1>t, <1>n, <1>s, <1>u, <1>m, <1>c, <1>h, <1>p, <1>f, <1>b, <1>e, SameKeeps
  DEF Base, Unborn, Maps, Creator, Child, Parent
<1>x. /\ stage'[SelfFork] = stage[SelfFork] /\ (SelfFork \in forks' <=> SelfFork \in forks)
      /\ \A j \in Kinds : SelfFork \in Flying(j)' <=> SelfFork \in Flying(j)
  BY <1>e, <1>n, <1>o, ConstAssumption DEF Base, Typed, Kinds, Retried, Acks, ForkIds, Only
<1>O. ASSUME OwnerInv, ~ShareUnconfirmed PROVE OwnerInv'
  <2>l. Lone'
    BY <1>O, <1>e, <1>o, <1>x, ConstAssumption
    DEF OwnerInv, Base, Typed, Lone, LoneOf, Unborn, UnbornOf
  <2>d. Made'
    BY <1>O, <1>e, <1>n, <1>o, ConstAssumption
    DEF OwnerInv, Base, Typed, Made, MadeOf, Instances, Workers, ForkIds, Only, UnbornOf
  <2>i. Instances'
    BY <1>O, <1>e, <1>o, ConstAssumption
    DEF OwnerInv, Base, Typed, Instances, Made, MadeOf, ForkIds
  <2>h. OwnerHeld'
    BY <1>O, <1>e, <1>o, ConstAssumption
    DEF OwnerInv, Base, Typed, OwnerHeld, Instances, Workers, ForkIds, ChildOf
  <2> QED
    BY <2>l, <2>d, <2>i, <2>h DEF OwnerInv
<1>C. ASSUME CInv PROVE CInv'
  <2>c. CleanOf(c)'
    BY <1>C, <1>e, <1>n, <1>o, ConstAssumption
    DEF CInv, Clean, CleanOf, MapsOf, CreatorOf, ChildOf, Coming, Creating, Only
  <2>f. \A f \in Forks \ {c} : CleanOf(f)'
    BY <1>C, <1>e, <1>s, SameClean DEF CInv, Clean
  <2>v. LeftInv'
    BY <1>C, <1>e, <1>n, <1>o, ConstAssumption
    DEF CInv, LeftInv, Kinds, Retried, Acks, Workers, ForkIds, Only, UnbornOf
  <2> QED
    BY <2>f, <2>c, <2>v DEF CInv, Clean
<1> QED
  BY <1>B, <1>O, <1>C DEF Kept

\* The owner's user code drops its reference.
LEMMA OwnerReleaseKeeps ==
  ASSUME Base, lossy' = lossy, OwnerRelease
  PROVE  Kept
<1>t. Typed'
  BY OwnerReleaseTyped
<1>e. /\ ownerRef' = 0
      /\ UNCHANGED <<born, owners, made, valued, forks, stage, inst, fetch, loc, parent,
                     alive, held, pendingUsers, confirmedUsers, pendingChildren,
                     deletedOnOwner, timedOut, call, phase, net>>
  BY ConstAssumption
  DEF Base, ownerVars, userVars, Kinds, Retried, Acks, ForkIds, OwnerRelease
<1>n. /\ Only({}) /\ Attempts'
  BY <1>e, NetSame DEF Base
<1>s. \A f \in Forks : Same(f)
  BY <1>e, <1>n, ConstAssumption
  DEF Base, Typed, Same, Kinds, Retried, Acks, Open, ForkIds, Only
<1>p. \A f \in Forks : ParentOf(f)'
  BY <1>e, <1>n, ConstAssumption
  DEF Base, Typed, Parent, ParentOf, Maps, MapsOf, Unborn, UnbornOf
<1>f. SelfInv'
  BY <1>e, <1>n, ConstAssumption
  DEF Base, Typed, SelfInv, Kinds, Retried, Acks, ForkIds, Only
<1>b. NotBorn' /\ Phases'
  BY <1>e, <1>n, ConstAssumption
  DEF Base, Typed, NotBorn, Phases, Kinds, Retried, Acks, ForkIds, UnbornOf, SelfInv, Only
<1>B. Base'
  BY <1>t, <1>n, <1>s, <1>p, <1>f, <1>b, <1>e, SameKeeps
  DEF Base, Unborn, Maps, Creator, Child, Parent
<1>O. ASSUME OwnerInv, ~ShareUnconfirmed PROVE OwnerInv'
  <2>l. Lone'
    BY <1>O, <1>e, <1>n, ConstAssumption
    DEF OwnerInv, Base, Typed, Lone, LoneOf, Unborn, UnbornOf, Kinds, Retried, Acks, Only
  <2>d. Made'
    BY <1>O, <1>e, <1>n, ConstAssumption
    DEF OwnerInv, Base, Typed, Made, MadeOf, Instances, Workers, ForkIds, Only
  <2>i. Instances'
    BY <1>O, <1>e, ConstAssumption
    DEF OwnerInv, Base, Typed, Instances, Made, MadeOf, ForkIds
  <2>h. OwnerHeld'
    BY <1>O, <1>e, ConstAssumption
    DEF OwnerInv, Base, Typed, OwnerHeld, Instances, Workers, ForkIds
  <2> QED
    BY <2>l, <2>d, <2>i, <2>h DEF OwnerInv
<1>C. ASSUME CInv PROVE CInv'
  <2>f. \A f \in Forks : CleanOf(f)'
    BY <1>C, <1>e, <1>s, SameClean DEF CInv, Clean
  <2>v. LeftInv'
    BY <1>C, <1>e, <1>n, ConstAssumption
    DEF CInv, LeftInv, Kinds, Retried, Acks, Workers, ForkIds, Only
  <2> QED
    BY <2>f, <2>v DEF CInv, Clean
<1> QED
  BY <1>B, <1>O, <1>C DEF Kept

\* The creation times out: the creator's fork moves from pendingUsers_ to timedOut_.
LEMMA RemoteTimesOutKeeps ==
  ASSUME Base, lossy' = lossy, NEW c \in Forks, RemoteTimesOut(c)
  PROVE  Kept
<1>t. Typed'
  BY RemoteTimesOutTyped
<1>e. /\ lossy
      /\ c \in pendingUsers
      /\ parent[c] = None
      /\ timedOut' = timedOut \cup {c}
      /\ pendingUsers' = pendingUsers \ {c}
      /\ confirmedUsers' = confirmedUsers \cup {c}
      /\ UNCHANGED <<born, owners, made, valued, forks, stage, inst, ownerRef, fetch, loc,
                     parent, alive, held, pendingChildren, deletedOnOwner, call, phase,
                     net>>
  BY ConstAssumption
  DEF Base, ownerVars, userVars, Kinds, Retried, Acks, ForkIds, RemoteTimesOut,
      DelPendingUser
<1>n. /\ Only({}) /\ Attempts'
  BY <1>e, NetSame DEF Base
<1>o. c \in Forks /\ UnbornOf(c) /\ MapsOf(c) /\ CreatorOf(c) /\ ChildOf(c) /\ ParentOf(c)
  BY <1>e DEF Base, Unborn, Maps, Creator, Child, Parent
<1>s. \A f \in Forks \ {c} : Same(f)
  BY <1>e, <1>n, <1>o DEF Base, Typed, Same, Kinds, Retried, Acks, Only, Open
<1>u. UnbornOf(c)'
  BY <1>e, <1>n, <1>o, ConstAssumption DEF Base, Typed, Workers, UnbornOf, MapsOf
<1>m. MapsOf(c)'
  BY <1>e, <1>n, <1>o, ConstAssumption
  DEF Base, Typed, UnbornOf, MapsOf, CreatorOf, ChildOf, Coming, Creating, Only, Workers,
      Only
<1>c. CreatorOf(c)'
  BY <1>e, <1>n, <1>o, ConstAssumption
  DEF Base, Typed, UnbornOf, MapsOf, CreatorOf, ChildOf, Coming, Creating, Only, Only
<1>h. ChildOf(c)'
  BY <1>e, <1>n, <1>o, ConstAssumption
  DEF Base, Typed, UnbornOf, MapsOf, CreatorOf, ChildOf, Coming, Creating, Open, Only
<1>p. \A f \in Forks : ParentOf(f)'
  BY <1>e, <1>n, <1>o, ConstAssumption
  DEF Base, Typed, Parent, ParentOf, Maps, MapsOf, Unborn, UnbornOf, ChildOf
<1>f. SelfInv'
  BY <1>e, <1>n, <1>o, ConstAssumption
  DEF Base, Typed, SelfInv, Kinds, Retried, Acks, ForkIds, Only
<1>b. NotBorn' /\ Phases'
  BY <1>e, <1>n, <1>o, ConstAssumption
  DEF Base, Typed, NotBorn, Phases, Kinds, Retried, Acks, ForkIds, UnbornOf, SelfInv, Only
<1>B. Base'
  BY <1>t, <1>n, <1>s, <1>u, <1>m, <1>c, <1>h, <1>p, <1>f, <1>b, <1>e, SameKeeps
  DEF Base, Unborn, Maps, Creator, Child, Parent
<1>x. /\ stage'[SelfFork] = stage[SelfFork] /\ (SelfFork \in forks' <=> SelfFork \in forks)
      /\ \A j \in Kinds : SelfFork \in Flying(j)' <=> SelfFork \in Flying(j)
  BY <1>e, <1>n, <1>o, ConstAssumption DEF Base, Typed, Kinds, Retried, Acks, ForkIds, Only
<1>O. ASSUME OwnerInv, ~ShareUnconfirmed PROVE OwnerInv'
  <2>l. Lone'
    BY <1>O, <1>e, <1>o, <1>x, ConstAssumption
    DEF OwnerInv, Base, Typed, Lone, LoneOf, Unborn, UnbornOf
  <2>d. Made'
    BY <1>O, <1>e, <1>n, <1>o, ConstAssumption
    DEF OwnerInv, Base, Typed, Made, MadeOf, Instances, Workers, ForkIds, Only, UnbornOf
  <2>i. Instances'
    BY <1>O, <1>e, <1>o, ConstAssumption
    DEF OwnerInv, Base, Typed, Instances, Made, MadeOf, ForkIds
  <2>h. OwnerHeld'
    BY <1>O, <1>e, <1>o, ConstAssumption
    DEF OwnerInv, Base, Typed, OwnerHeld, Instances, Workers, ForkIds, ChildOf
  <2> QED
    BY <2>l, <2>d, <2>i, <2>h DEF OwnerInv
<1>C. ASSUME CInv PROVE CInv'
  <2>c. CleanOf(c)'
    BY <1>C, <1>e, <1>n, <1>o, ConstAssumption
    DEF CInv, Clean, CleanOf, MapsOf, CreatorOf, ChildOf, Coming, Creating, Only
  <2>f. \A f \in Forks \ {c} : CleanOf(f)'
    BY <1>C, <1>e, <1>s, SameClean DEF CInv, Clean
  <2>v. LeftInv'
    BY <1>C, <1>e, <1>n, <1>o, ConstAssumption
    DEF CInv, LeftInv, Kinds, Retried, Acks, Workers, ForkIds, Only, UnbornOf
  <2> QED
    BY <2>f, <2>c, <2>v DEF CInv, Clean
<1> QED
  BY <1>B, <1>O, <1>C DEF Kept

\* A fork request is sent again: its fork is pending.
LEMMA TimesOutForkRequestKeeps ==
  ASSUME Base, lossy' = lossy, NEW k \in Retried, NEW c \in Forks, AttemptTimesOut(k, c), k
         = "forkRequest"
  PROVE  Kept
<1>t. Typed'
  BY AttemptTimesOutTyped
<1>e. /\ lossy
      /\ Open(k, c)
      /\ \A j \in Retried, f \in Forks : Open(j, f)' => Open(j, f)
      /\ \A j \in Retried, f \in Forks \ {c} : Open(j, f)' <=> Open(j, f)
      /\ UNCHANGED <<born, owners, made, valued, forks, stage, inst, ownerRef, fetch, loc,
                     parent, alive, held, pendingUsers, confirmedUsers, pendingChildren,
                     deletedOnOwner, timedOut, phase>>
  BY ConstAssumption, TimeoutEffect DEF Base, ownerVars, userVars, AttemptTimesOut
<1>n. /\ Only({"forkRequest"}) /\ Attempts'
      /\ Flying("forkRequest")' \subseteq Flying("forkRequest") \cup {c}
      /\ Flying("forkRequest") \subseteq Flying("forkRequest")'
  <2>0. /\ call[k][c].attempt \in 0..MaxAttempts /\ MaxAttempts \in Nat
        /\ k \in Kinds \ Once /\ c \in ForkIds /\ Attempts /\ lossy
    BY <1>e, ConstAssumption DEF Base, Typed, CallState, Kinds, Retried, Acks, Once, ForkIds
  <2>1. CASE call[k][c].attempt < MaxAttempts
    <3> DEFINE n == call[k][c].attempt + 1
    <3>1. n \in 1..MaxAttempts /\ net' = net \cup {Msg(k, c, n)}
      BY <2>0, <2>1 DEF AttemptTimesOut
    <3> HIDE DEF n
    <3>2. Flying(k)' = Flying(k) \cup {c} /\ Only({k}) /\ Attempts'
      BY <2>0, <3>1, NetAdd
    <3> QED
      BY <3>2
  <2>2. CASE ~(call[k][c].attempt < MaxAttempts)
    <3>1. net' = net
      BY <2>2 DEF AttemptTimesOut
    <3> QED
      BY <2>0, <3>1, NetSame DEF Only, Kinds, Retried
  <2> QED
    BY <2>1, <2>2
<1>o. c \in Forks /\ UnbornOf(c) /\ MapsOf(c) /\ CreatorOf(c) /\ ChildOf(c) /\ ParentOf(c)
  BY <1>e DEF Base, Unborn, Maps, Creator, Child, Parent
<1>s. \A f \in Forks \ {c} : Same(f)
  BY <1>e, <1>n, <1>o DEF Base, Typed, Same, Kinds, Retried, Acks, Only
<1>u. UnbornOf(c)'
  BY <1>e, <1>n, <1>o, ConstAssumption DEF Base, Typed, Workers, UnbornOf, MapsOf
<1>m. MapsOf(c)'
  BY <1>e, <1>n, <1>o, ConstAssumption
  DEF Base, Typed, UnbornOf, MapsOf, CreatorOf, ChildOf, Coming, Creating, Only, Workers,
      Only
<1>c. CreatorOf(c)'
  BY <1>e, <1>n, <1>o, ConstAssumption
  DEF Base, Typed, UnbornOf, MapsOf, CreatorOf, ChildOf, Coming, Creating, Only, Only
<1>h. ChildOf(c)'
  BY <1>e, <1>n, <1>o, ConstAssumption
  DEF Base, Typed, UnbornOf, MapsOf, CreatorOf, ChildOf, Coming, Creating, Retried, Only
<1>p. \A f \in Forks : ParentOf(f)'
  BY <1>e, <1>n, <1>o, ConstAssumption
  DEF Base, Typed, Parent, ParentOf, Maps, MapsOf, Unborn, UnbornOf, ChildOf
<1>f. SelfInv'
  BY <1>e, <1>n, <1>o, ConstAssumption
  DEF Base, Typed, SelfInv, Kinds, Retried, Acks, ForkIds, Only
<1>b. NotBorn' /\ Phases'
  BY <1>e, <1>n, <1>o, ConstAssumption
  DEF Base, Typed, NotBorn, Phases, Kinds, Retried, Acks, ForkIds, UnbornOf, SelfInv, Only
<1>B. Base'
  BY <1>t, <1>n, <1>s, <1>u, <1>m, <1>c, <1>h, <1>p, <1>f, <1>b, <1>e, SameKeeps
  DEF Base, Unborn, Maps, Creator, Child, Parent
<1>x. /\ stage'[SelfFork] = stage[SelfFork] /\ (SelfFork \in forks' <=> SelfFork \in forks)
      /\ \A j \in Kinds : SelfFork \in Flying(j)' <=> SelfFork \in Flying(j)
  BY <1>e, <1>n, <1>o, ConstAssumption DEF Base, Typed, Kinds, Retried, Acks, ForkIds, Only
<1>O. ASSUME OwnerInv, ~ShareUnconfirmed PROVE OwnerInv'
  <2>l. Lone'
    BY <1>O, <1>e, <1>o, <1>x, ConstAssumption
    DEF OwnerInv, Base, Typed, Lone, LoneOf, Unborn, UnbornOf
  <2>d. Made'
    BY <1>O, <1>e, <1>n, <1>o, ConstAssumption
    DEF OwnerInv, Base, Typed, Made, MadeOf, Instances, Workers, ForkIds, Only, UnbornOf
  <2>i. Instances'
    BY <1>O, <1>e, <1>o, ConstAssumption
    DEF OwnerInv, Base, Typed, Instances, Made, MadeOf, ForkIds
  <2>h. OwnerHeld'
    BY <1>O, <1>e, <1>o, ConstAssumption
    DEF OwnerInv, Base, Typed, OwnerHeld, Instances, Workers, ForkIds, ChildOf
  <2> QED
    BY <2>l, <2>d, <2>i, <2>h DEF OwnerInv
<1>C. ASSUME CInv PROVE CInv'
  <2>c. CleanOf(c)'
    BY <1>C, <1>e, <1>n, <1>o, ConstAssumption
    DEF CInv, Clean, CleanOf, MapsOf, CreatorOf, ChildOf, Coming, Creating, Only
  <2>f. \A f \in Forks \ {c} : CleanOf(f)'
    BY <1>C, <1>e, <1>s, SameClean DEF CInv, Clean
  <2>v. LeftInv'
    BY <1>C, <1>e, <1>n, <1>o, ConstAssumption
    DEF CInv, LeftInv, Kinds, Retried, Acks, Workers, ForkIds, Only, UnbornOf
  <2> QED
    BY <2>f, <2>c, <2>v DEF CInv, Clean
<1> QED
  BY <1>B, <1>O, <1>C DEF Kept

\* A child accept is sent again: its fork is no longer coming.
LEMMA TimesOutChildAcceptKeeps ==
  ASSUME Base, lossy' = lossy, NEW k \in Retried, NEW c \in Forks, AttemptTimesOut(k, c), k
         = "childAccept"
  PROVE  Kept
<1>t. Typed'
  BY AttemptTimesOutTyped
<1>e. /\ lossy
      /\ Open(k, c)
      /\ \A j \in Retried, f \in Forks : Open(j, f)' => Open(j, f)
      /\ \A j \in Retried, f \in Forks \ {c} : Open(j, f)' <=> Open(j, f)
      /\ UNCHANGED <<born, owners, made, valued, forks, stage, inst, ownerRef, fetch, loc,
                     parent, alive, held, pendingUsers, confirmedUsers, pendingChildren,
                     deletedOnOwner, timedOut, phase>>
  BY ConstAssumption, TimeoutEffect DEF Base, ownerVars, userVars, AttemptTimesOut
<1>n. /\ Only({"childAccept"}) /\ Attempts'
      /\ Flying("childAccept")' \subseteq Flying("childAccept") \cup {c}
      /\ Flying("childAccept") \subseteq Flying("childAccept")'
  <2>0. /\ call[k][c].attempt \in 0..MaxAttempts /\ MaxAttempts \in Nat
        /\ k \in Kinds \ Once /\ c \in ForkIds /\ Attempts /\ lossy
    BY <1>e, ConstAssumption DEF Base, Typed, CallState, Kinds, Retried, Acks, Once, ForkIds
  <2>1. CASE call[k][c].attempt < MaxAttempts
    <3> DEFINE n == call[k][c].attempt + 1
    <3>1. n \in 1..MaxAttempts /\ net' = net \cup {Msg(k, c, n)}
      BY <2>0, <2>1 DEF AttemptTimesOut
    <3> HIDE DEF n
    <3>2. Flying(k)' = Flying(k) \cup {c} /\ Only({k}) /\ Attempts'
      BY <2>0, <3>1, NetAdd
    <3> QED
      BY <3>2
  <2>2. CASE ~(call[k][c].attempt < MaxAttempts)
    <3>1. net' = net
      BY <2>2 DEF AttemptTimesOut
    <3> QED
      BY <2>0, <3>1, NetSame DEF Only, Kinds, Retried
  <2> QED
    BY <2>1, <2>2
<1>o. c \in Forks /\ UnbornOf(c) /\ MapsOf(c) /\ CreatorOf(c) /\ ChildOf(c) /\ ParentOf(c)
  BY <1>e DEF Base, Unborn, Maps, Creator, Child, Parent
<1>s. \A f \in Forks \ {c} : Same(f)
  BY <1>e, <1>n, <1>o DEF Base, Typed, Same, Kinds, Retried, Acks, Only
<1>u. UnbornOf(c)'
  BY <1>e, <1>n, <1>o, ConstAssumption DEF Base, Typed, Workers, UnbornOf, MapsOf
<1>m. MapsOf(c)'
  BY <1>e, <1>n, <1>o, ConstAssumption
  DEF Base, Typed, UnbornOf, MapsOf, CreatorOf, ChildOf, Coming, Creating, Only, Workers,
      Only
<1>c. CreatorOf(c)'
  BY <1>e, <1>n, <1>o, ConstAssumption
  DEF Base, Typed, UnbornOf, MapsOf, CreatorOf, ChildOf, Coming, Creating, Only, Only
<1>h. ChildOf(c)'
  BY <1>e, <1>n, <1>o, ConstAssumption
  DEF Base, Typed, UnbornOf, MapsOf, CreatorOf, ChildOf, Coming, Creating, Retried, Only
<1>p. \A f \in Forks : ParentOf(f)'
  BY <1>e, <1>n, <1>o, ConstAssumption
  DEF Base, Typed, Parent, ParentOf, Maps, MapsOf, Unborn, UnbornOf, ChildOf
<1>f. SelfInv'
  BY <1>e, <1>n, <1>o, ConstAssumption
  DEF Base, Typed, SelfInv, Kinds, Retried, Acks, ForkIds, Only
<1>b. NotBorn' /\ Phases'
  BY <1>e, <1>n, <1>o, ConstAssumption
  DEF Base, Typed, NotBorn, Phases, Kinds, Retried, Acks, ForkIds, UnbornOf, SelfInv, Only
<1>B. Base'
  BY <1>t, <1>n, <1>s, <1>u, <1>m, <1>c, <1>h, <1>p, <1>f, <1>b, <1>e, SameKeeps
  DEF Base, Unborn, Maps, Creator, Child, Parent
<1>x. /\ stage'[SelfFork] = stage[SelfFork] /\ (SelfFork \in forks' <=> SelfFork \in forks)
      /\ \A j \in Kinds : SelfFork \in Flying(j)' <=> SelfFork \in Flying(j)
  BY <1>e, <1>n, <1>o, ConstAssumption DEF Base, Typed, Kinds, Retried, Acks, ForkIds, Only
<1>O. ASSUME OwnerInv, ~ShareUnconfirmed PROVE OwnerInv'
  <2>l. Lone'
    BY <1>O, <1>e, <1>o, <1>x, ConstAssumption
    DEF OwnerInv, Base, Typed, Lone, LoneOf, Unborn, UnbornOf
  <2>d. Made'
    BY <1>O, <1>e, <1>n, <1>o, ConstAssumption
    DEF OwnerInv, Base, Typed, Made, MadeOf, Instances, Workers, ForkIds, Only, UnbornOf
  <2>i. Instances'
    BY <1>O, <1>e, <1>o, ConstAssumption
    DEF OwnerInv, Base, Typed, Instances, Made, MadeOf, ForkIds
  <2>h. OwnerHeld'
    BY <1>O, <1>e, <1>o, ConstAssumption
    DEF OwnerInv, Base, Typed, OwnerHeld, Instances, Workers, ForkIds, ChildOf
  <2> QED
    BY <2>l, <2>d, <2>i, <2>h DEF OwnerInv
<1>C. ASSUME CInv PROVE CInv'
  <2>c. CleanOf(c)'
    BY <1>C, <1>e, <1>n, <1>o, ConstAssumption
    DEF CInv, Clean, CleanOf, MapsOf, CreatorOf, ChildOf, Coming, Creating, Only
  <2>f. \A f \in Forks \ {c} : CleanOf(f)'
    BY <1>C, <1>e, <1>s, SameClean DEF CInv, Clean
  <2>v. LeftInv'
    BY <1>C, <1>e, <1>n, <1>o, ConstAssumption
    DEF CInv, LeftInv, Kinds, Retried, Acks, Workers, ForkIds, Only, UnbornOf
  <2> QED
    BY <2>f, <2>c, <2>v DEF CInv, Clean
<1> QED
  BY <1>B, <1>O, <1>C DEF Kept

\* A delete is sent again: its fork is deleted.
LEMMA TimesOutUserDeleteKeeps ==
  ASSUME Base, lossy' = lossy, NEW k \in Retried, NEW c \in Forks, AttemptTimesOut(k, c), k
         = "userDelete"
  PROVE  Kept
<1>t. Typed'
  BY AttemptTimesOutTyped
<1>e. /\ lossy
      /\ Open(k, c)
      /\ \A j \in Retried, f \in Forks : Open(j, f)' => Open(j, f)
      /\ \A j \in Retried, f \in Forks \ {c} : Open(j, f)' <=> Open(j, f)
      /\ UNCHANGED <<born, owners, made, valued, forks, stage, inst, ownerRef, fetch, loc,
                     parent, alive, held, pendingUsers, confirmedUsers, pendingChildren,
                     deletedOnOwner, timedOut, phase>>
  BY ConstAssumption, TimeoutEffect DEF Base, ownerVars, userVars, AttemptTimesOut
<1>n. /\ Only({"userDelete"}) /\ Attempts'
      /\ Flying("userDelete")' \subseteq Flying("userDelete") \cup {c}
      /\ Flying("userDelete") \subseteq Flying("userDelete")'
  <2>0. /\ call[k][c].attempt \in 0..MaxAttempts /\ MaxAttempts \in Nat
        /\ k \in Kinds \ Once /\ c \in ForkIds /\ Attempts /\ lossy
    BY <1>e, ConstAssumption DEF Base, Typed, CallState, Kinds, Retried, Acks, Once, ForkIds
  <2>1. CASE call[k][c].attempt < MaxAttempts
    <3> DEFINE n == call[k][c].attempt + 1
    <3>1. n \in 1..MaxAttempts /\ net' = net \cup {Msg(k, c, n)}
      BY <2>0, <2>1 DEF AttemptTimesOut
    <3> HIDE DEF n
    <3>2. Flying(k)' = Flying(k) \cup {c} /\ Only({k}) /\ Attempts'
      BY <2>0, <3>1, NetAdd
    <3> QED
      BY <3>2
  <2>2. CASE ~(call[k][c].attempt < MaxAttempts)
    <3>1. net' = net
      BY <2>2 DEF AttemptTimesOut
    <3> QED
      BY <2>0, <3>1, NetSame DEF Only, Kinds, Retried
  <2> QED
    BY <2>1, <2>2
<1>o. c \in Forks /\ UnbornOf(c) /\ MapsOf(c) /\ CreatorOf(c) /\ ChildOf(c) /\ ParentOf(c)
  BY <1>e DEF Base, Unborn, Maps, Creator, Child, Parent
<1>s. \A f \in Forks \ {c} : Same(f)
  BY <1>e, <1>n, <1>o DEF Base, Typed, Same, Kinds, Retried, Acks, Only
<1>u. UnbornOf(c)'
  BY <1>e, <1>n, <1>o, ConstAssumption DEF Base, Typed, Workers, UnbornOf, MapsOf
<1>m. MapsOf(c)'
  BY <1>e, <1>n, <1>o, ConstAssumption
  DEF Base, Typed, UnbornOf, MapsOf, CreatorOf, ChildOf, Coming, Creating, Only, Workers,
      Only
<1>c. CreatorOf(c)'
  BY <1>e, <1>n, <1>o, ConstAssumption
  DEF Base, Typed, UnbornOf, MapsOf, CreatorOf, ChildOf, Coming, Creating, Only, Only
<1>h. ChildOf(c)'
  BY <1>e, <1>n, <1>o, ConstAssumption
  DEF Base, Typed, UnbornOf, MapsOf, CreatorOf, ChildOf, Coming, Creating, Retried, Only
<1>p. \A f \in Forks : ParentOf(f)'
  BY <1>e, <1>n, <1>o, ConstAssumption
  DEF Base, Typed, Parent, ParentOf, Maps, MapsOf, Unborn, UnbornOf, ChildOf
<1>f. SelfInv'
  BY <1>e, <1>n, <1>o, ConstAssumption
  DEF Base, Typed, SelfInv, Kinds, Retried, Acks, ForkIds, Only
<1>b. NotBorn' /\ Phases'
  BY <1>e, <1>n, <1>o, ConstAssumption
  DEF Base, Typed, NotBorn, Phases, Kinds, Retried, Acks, ForkIds, UnbornOf, SelfInv, Only
<1>B. Base'
  BY <1>t, <1>n, <1>s, <1>u, <1>m, <1>c, <1>h, <1>p, <1>f, <1>b, <1>e, SameKeeps
  DEF Base, Unborn, Maps, Creator, Child, Parent
<1>x. /\ stage'[SelfFork] = stage[SelfFork] /\ (SelfFork \in forks' <=> SelfFork \in forks)
      /\ \A j \in Kinds : SelfFork \in Flying(j)' <=> SelfFork \in Flying(j)
  BY <1>e, <1>n, <1>o, ConstAssumption DEF Base, Typed, Kinds, Retried, Acks, ForkIds, Only
<1>O. ASSUME OwnerInv, ~ShareUnconfirmed PROVE OwnerInv'
  <2>l. Lone'
    BY <1>O, <1>e, <1>o, <1>x, ConstAssumption
    DEF OwnerInv, Base, Typed, Lone, LoneOf, Unborn, UnbornOf
  <2>d. Made'
    BY <1>O, <1>e, <1>n, <1>o, ConstAssumption
    DEF OwnerInv, Base, Typed, Made, MadeOf, Instances, Workers, ForkIds, Only, UnbornOf
  <2>i. Instances'
    BY <1>O, <1>e, <1>o, ConstAssumption
    DEF OwnerInv, Base, Typed, Instances, Made, MadeOf, ForkIds
  <2>h. OwnerHeld'
    BY <1>O, <1>e, <1>o, ConstAssumption
    DEF OwnerInv, Base, Typed, OwnerHeld, Instances, Workers, ForkIds, ChildOf
  <2> QED
    BY <2>l, <2>d, <2>i, <2>h DEF OwnerInv
<1>C. ASSUME CInv PROVE CInv'
  <2>c. CleanOf(c)'
    BY <1>C, <1>e, <1>n, <1>o, ConstAssumption
    DEF CInv, Clean, CleanOf, MapsOf, CreatorOf, ChildOf, Coming, Creating, Only
  <2>f. \A f \in Forks \ {c} : CleanOf(f)'
    BY <1>C, <1>e, <1>s, SameClean DEF CInv, Clean
  <2>v. LeftInv'
    BY <1>C, <1>e, <1>n, <1>o, ConstAssumption
    DEF CInv, LeftInv, Kinds, Retried, Acks, Workers, ForkIds, Only, UnbornOf
  <2> QED
    BY <2>f, <2>c, <2>v DEF CInv, Clean
<1> QED
  BY <1>B, <1>O, <1>C DEF Kept

\* The call to self times out and takes the self fork away.
LEMMA SelfTimesOutKeeps ==
  ASSUME Base, lossy' = lossy, SelfTimesOut
  PROVE  Kept
<1>t. Typed'
  BY SelfTimesOutTyped
<1>e. /\ lossy
      /\ timedOut' = timedOut \cup {SelfFork}
      /\ forks' = forks \ {SelfFork}
      /\ owners' = IF forks # {} /\ forks \ {SelfFork} = {} THEN 0 ELSE owners
      /\ UNCHANGED <<born, made, valued, stage, inst, ownerRef, fetch, loc, parent, alive,
                     held, pendingUsers, confirmedUsers, pendingChildren, deletedOnOwner,
                     call, phase, net>>
  BY ConstAssumption
  DEF Base, ownerVars, userVars, Kinds, Retried, Acks, ForkIds, SelfTimesOut, DelForkOfOwner
<1>n. /\ Only({}) /\ Attempts'
  BY <1>e, NetSame DEF Base
<1>q. SelfFork \notin Forks
  BY ConstAssumption
<1>s. \A f \in Forks : Same(f)
  BY <1>e, <1>n, <1>q, ConstAssumption
  DEF Base, Typed, Same, Kinds, Retried, Acks, Open, ForkIds, Only
<1>p. \A f \in Forks : ParentOf(f)'
  BY <1>e, <1>n, <1>q, ConstAssumption
  DEF Base, Typed, Parent, ParentOf, Maps, MapsOf, Unborn, UnbornOf
<1>f. SelfInv'
  BY <1>e, <1>n, <1>q, ConstAssumption
  DEF Base, Typed, SelfInv, Kinds, Retried, Acks, ForkIds, Only
<1>b. NotBorn' /\ Phases'
  BY <1>e, <1>n, <1>q, ConstAssumption
  DEF Base, Typed, NotBorn, Phases, Kinds, Retried, Acks, ForkIds, UnbornOf, SelfInv, Only
<1>B. Base'
  BY <1>t, <1>n, <1>s, <1>p, <1>f, <1>b, <1>e, <1>q, SameKeeps
  DEF Base, Unborn, Maps, Creator, Child, Parent
<1>O. ASSUME OwnerInv, ~ShareUnconfirmed PROVE OwnerInv'
  <2>r. /\ \A f \in Forks : stage[f] = "assign" => forks = {}
        /\ \A f \in pendingChildren : parent[f] # SelfFork
    <3>1. \A f \in Forks : stage[f] = "assign" => forks = {}
      BY <1>O, Assigning
    <3> QED
      BY <1>q, <3>1 DEF Base, Typed, Parent, ParentOf
  <2>l. Lone'
    BY <1>O, <1>e, <1>n, <1>q, <2>r, ConstAssumption
    DEF OwnerInv, Base, Typed, Lone, LoneOf, Unborn, UnbornOf, Kinds, Retried, Acks, Only
  <2>d. Made'
    BY <1>O, <1>e, <1>n, <1>q, <2>r, ConstAssumption
    DEF OwnerInv, Base, Typed, Made, MadeOf, Instances, Workers, ForkIds, Only
  <2>i. Instances'
    BY <1>O, <1>e, <1>q, <2>r, ConstAssumption
    DEF OwnerInv, Base, Typed, Instances, Made, MadeOf, ForkIds
  <2>h. OwnerHeld'
    BY <1>O, <1>e, <1>q, <2>r, ConstAssumption
    DEF OwnerInv, Base, Typed, OwnerHeld, Instances, Workers, ForkIds
  <2> QED
    BY <2>l, <2>d, <2>i, <2>h DEF OwnerInv
<1>C. ASSUME CInv PROVE CInv'
  <2>f. \A f \in Forks : CleanOf(f)'
    BY <1>C, <1>e, <1>s, SameClean DEF CInv, Clean
  <2>v. LeftInv'
    BY <1>C, <1>e, <1>n, <1>q, ConstAssumption
    DEF CInv, LeftInv, Kinds, Retried, Acks, Workers, ForkIds, Only
  <2> QED
    BY <2>f, <2>v DEF CInv, Clean
<1> QED
  BY <1>B, <1>O, <1>C DEF Kept

\* Shutdown begins when no RPC is in flight: no fork is coming.
LEMMA BeginShutdownKeeps ==
  ASSUME Base, lossy' = lossy, BeginShutdown
  PROVE  Kept
<1>t. Typed'
  BY BeginShutdownTyped
<1>e. /\ \A w \in Workers : phase[w] = "run"
      /\ \A x \in net : x.kind # "rpc"
      /\ \A f \in Forks : stage[f] # "prepare"
      /\ phase' = [w \in Workers |-> "drain"]
      /\ UNCHANGED <<born, owners, made, valued, forks, stage, inst, ownerRef, fetch, loc,
                     parent, alive, held, pendingUsers, confirmedUsers, pendingChildren,
                     deletedOnOwner, timedOut, call, net>>
  BY ConstAssumption
  DEF Base, ownerVars, userVars, Kinds, Retried, Acks, ForkIds, BeginShutdown
<1>n. /\ Only({}) /\ Attempts'
  BY <1>e, NetSame DEF Base
<1>q. \A f \in Forks : ~Coming(f)
  <2>1. \A f, n : Msg("rpc", f, n) \notin net
    BY <1>e DEF Msg
  <2> QED
    BY <1>e, <2>1 DEF Coming, Flying
<1>s. \A f \in Forks : Same(f)
  BY <1>e, <1>n, <1>q, ConstAssumption
  DEF Base, Typed, Same, Kinds, Retried, Acks, Open, ForkIds, Only
<1>p. \A f \in Forks : ParentOf(f)'
  BY <1>e, <1>n, <1>q, ConstAssumption
  DEF Base, Typed, Parent, ParentOf, Maps, MapsOf, Unborn, UnbornOf
<1>f. SelfInv'
  BY <1>e, <1>n, <1>q, ConstAssumption
  DEF Base, Typed, SelfInv, Kinds, Retried, Acks, ForkIds, Only
<1>b. NotBorn' /\ Phases'
  BY <1>e, <1>n, <1>q, ConstAssumption
  DEF Base, Typed, NotBorn, Phases, Kinds, Retried, Acks, ForkIds, UnbornOf, SelfInv, Only
<1>B. Base'
  BY <1>t, <1>n, <1>s, <1>p, <1>f, <1>b, <1>e, <1>q, SameKeeps
  DEF Base, Unborn, Maps, Creator, Child, Parent
<1>O. ASSUME OwnerInv, ~ShareUnconfirmed PROVE OwnerInv'
  <2>l. Lone'
    BY <1>O, <1>e, <1>n, <1>q, ConstAssumption
    DEF OwnerInv, Base, Typed, Lone, LoneOf, Unborn, UnbornOf, Kinds, Retried, Acks, Only
  <2>d. Made'
    BY <1>O, <1>e, <1>n, <1>q, ConstAssumption
    DEF OwnerInv, Base, Typed, Made, MadeOf, Instances, Workers, ForkIds, Only
  <2>i. Instances'
    BY <1>O, <1>e, <1>q, ConstAssumption
    DEF OwnerInv, Base, Typed, Instances, Made, MadeOf, ForkIds
  <2>h. OwnerHeld'
    BY <1>O, <1>e, <1>q, ConstAssumption
    DEF OwnerInv, Base, Typed, OwnerHeld, Instances, Workers, ForkIds
  <2> QED
    BY <2>l, <2>d, <2>i, <2>h DEF OwnerInv
<1>C. ASSUME CInv PROVE CInv'
  <2>f. \A f \in Forks : CleanOf(f)'
    <3> SUFFICES ASSUME NEW f \in Forks PROVE CleanOf(f)'
      OBVIOUS
    <3>1. CleanOf(f) /\ MapsOf(f)
      BY <1>C DEF CInv, Clean, Base, Maps
    <3>2. f \in pendingUsers \cup confirmedUsers /\ ~lossy => phase'[loc[f]] \in {"run", "drain"}
      BY <1>e, <3>1 DEF CleanOf, MapsOf, Workers, Base, Typed
    <3> QED
      BY <1>s, <3>1, <3>2, SameClean
  <2>v. LeftInv'
    BY <1>C, <1>e, <1>n, <1>q, ConstAssumption
    DEF CInv, LeftInv, Kinds, Retried, Acks, Workers, ForkIds, Only
  <2> QED
    BY <2>f, <2>v DEF CInv, Clean
<1> QED
  BY <1>B, <1>O, <1>C DEF Kept

\* The first request of the creator makes the only OwnerRRef: it is alone.
LEMMA RecvRemoteCallKeeps ==
  ASSUME Base, lossy' = lossy, NEW m \in net, RecvRemoteCall(m)
  PROVE  Kept
<1>t. Typed'
  BY RecvRemoteCallTyped
<1> DEFINE c == m.fork
<1>e. /\ m.fork \in Forks
      /\ \A g \in ForkIds : inst'[g] \in {inst[g], owners'}
      /\ owners' # 0
      /\ owners # 0 => owners' = owners /\ made' = made
      /\ owners = 0 => owners' = made + 1 /\ made' = made + 1
      /\ \A g \in Forks : (fetch'[g] = "no") <=> (fetch[g] = "no")
      /\ stage' = [stage EXCEPT ![m.fork] = "assign"]
      /\ m.kind = "remoteCall" /\ Consume(m)
      /\ UNCHANGED <<born, valued, forks, ownerRef, loc, parent, alive, held, pendingUsers,
                     confirmedUsers, pendingChildren, deletedOnOwner, timedOut, call,
                     phase>>
  <2>1. PICK i \in 1..(made + 1) : GetOrCreateOwnerRRef(i) /\ InstAfter(i, m.fork)
    BY DEF RecvRemoteCall
  <2>2. /\ owners' # 0
        /\ owners # 0 => owners' = owners /\ made' = made
        /\ owners = 0 => owners' = made + 1 /\ made' = made + 1
        /\ \A g \in Forks : (fetch'[g] = "no") <=> (fetch[g] = "no")
        /\ \A g \in ForkIds : inst'[g] \in {inst[g], owners'}
    BY <2>1, GetOrCreateEffect DEF Base
  <2> QED
    BY <2>2, ConstAssumption DEF userVars, RecvRemoteCall
<1>n. /\ Only({"remoteCall"}) /\ Attempts'
      /\ m.fork \in Flying("remoteCall")
      /\ Flying("remoteCall")' \subseteq Flying("remoteCall")
      /\ Flying("remoteCall") \ {m.fork} \subseteq Flying("remoteCall")'
      /\ m.fork \notin Flying("remoteCall")'
  <2>1. /\ Typed /\ Attempts /\ "remoteCall" \in Kinds
    BY <1>e, InFlight, ConstAssumption DEF Base, Kinds, Retried, Acks, ForkIds
  <2> QED
    BY <1>e, <2>1, InFlight, NetConsume DEF Once
<1>o. c \in Forks /\ UnbornOf(c) /\ MapsOf(c) /\ CreatorOf(c) /\ ChildOf(c) /\ ParentOf(c)
  BY <1>e DEF Base, Unborn, Maps, Creator, Child, Parent
<1>s. \A f \in Forks \ {c} : Same(f)
  BY <1>e, <1>n, <1>o DEF Base, Typed, Same, Kinds, Retried, Acks, Only, Open, ForkIds
<1>u. UnbornOf(c)'
  BY <1>e, <1>n, <1>o, ConstAssumption DEF Base, Typed, Workers, UnbornOf, MapsOf
<1>m. MapsOf(c)'
  BY <1>e, <1>n, <1>o, ConstAssumption
  DEF Base, Typed, UnbornOf, MapsOf, CreatorOf, ChildOf, Coming, Creating, Only, Workers,
      Only
<1>c. CreatorOf(c)'
  BY <1>e, <1>n, <1>o, ConstAssumption
  DEF Base, Typed, UnbornOf, MapsOf, CreatorOf, ChildOf, Coming, Creating, Only, Only
<1>h. ChildOf(c)'
  BY <1>e, <1>n, <1>o, ConstAssumption
  DEF Base, Typed, UnbornOf, MapsOf, CreatorOf, ChildOf, Coming, Creating, Open, Only
<1>p. \A f \in Forks : ParentOf(f)'
  BY <1>e, <1>n, <1>o, ConstAssumption
  DEF Base, Typed, Parent, ParentOf, Maps, MapsOf, Unborn, UnbornOf, ChildOf
<1>f. SelfInv'
  BY <1>e, <1>n, <1>o, ConstAssumption
  DEF Base, Typed, SelfInv, Kinds, Retried, Acks, ForkIds, Only
<1>b. NotBorn' /\ Phases'
  BY <1>e, <1>n, <1>o, ConstAssumption
  DEF Base, Typed, NotBorn, Phases, Kinds, Retried, Acks, ForkIds, UnbornOf, SelfInv, Only
<1>B. Base'
  BY <1>t, <1>n, <1>s, <1>u, <1>m, <1>c, <1>h, <1>p, <1>f, <1>b, <1>e, SameKeeps
  DEF Base, Unborn, Maps, Creator, Child, Parent
<1>x. /\ stage'[SelfFork] = stage[SelfFork] /\ (SelfFork \in forks' <=> SelfFork \in forks)
      /\ \A j \in Kinds : SelfFork \in Flying(j)' <=> SelfFork \in Flying(j)
  BY <1>e, <1>n, <1>o, ConstAssumption DEF Base, Typed, Kinds, Retried, Acks, ForkIds, Only
<1>O. ASSUME OwnerInv, ~ShareUnconfirmed PROVE OwnerInv'
  <2>r. /\ made = 0 /\ made' = 1 /\ owners' = 1 /\ c \in Flying("remoteCall")
        /\ \A f \in Forks \ {c} : /\ loc[f] = None /\ f \notin pendingChildren
                                 /\ stage[f] = "none" /\ f \notin Flying("remoteCall")
    <3>1. c \in Flying("remoteCall") /\ Creating(c) /\ MadeOf(c)
      BY <1>e, <1>n, <1>o, <1>O DEF Creating, OwnerInv, Made
    <3>2. made = 0 /\ owners = 0 /\ \A f \in Forks \ {c} : loc[f] = None
      BY <1>o, <1>O, <3>1, Alone DEF MadeOf, OwnerInv, Instances, Base, Typed
    <3> QED
      BY <1>e, <3>1, <3>2 DEF Base, Unborn, UnbornOf, Kinds
  <2>l. Lone'
    BY <1>O, <1>e, <1>o, <1>x, <2>r, ConstAssumption
    DEF OwnerInv, Base, Typed, Lone, LoneOf, Unborn, UnbornOf
  <2>d. Made'
    BY <1>O, <1>e, <1>n, <1>o, <2>r, ConstAssumption
    DEF OwnerInv, Base, Typed, Made, MadeOf, Instances, Workers, ForkIds, Only, UnbornOf
  <2>i. Instances'
    BY <1>O, <1>e, <1>o, <2>r, ConstAssumption
    DEF OwnerInv, Base, Typed, Instances, Made, MadeOf, ForkIds
  <2>h. OwnerHeld'
    BY <1>O, <1>e, <1>o, <2>r, ConstAssumption
    DEF OwnerInv, Base, Typed, OwnerHeld, Instances, Workers, ForkIds, ChildOf
  <2> QED
    BY <2>l, <2>d, <2>i, <2>h DEF OwnerInv
<1>C. ASSUME CInv PROVE CInv'
  <2>c. CleanOf(c)'
    BY <1>C, <1>e, <1>n, <1>o, ConstAssumption
    DEF CInv, Clean, CleanOf, MapsOf, CreatorOf, ChildOf, Coming, Creating, Only
  <2>f. \A f \in Forks \ {c} : CleanOf(f)'
    BY <1>C, <1>e, <1>s, SameClean DEF CInv, Clean
  <2>v. LeftInv'
    BY <1>C, <1>e, <1>n, <1>o, ConstAssumption
    DEF CInv, LeftInv, Kinds, Retried, Acks, Workers, ForkIds, Only, UnbornOf
  <2> QED
    BY <2>f, <2>c, <2>v DEF CInv, Clean
<1> QED
  BY <1>B, <1>O, <1>C DEF Kept

\* The call to self finds its OwnerRRef ...
LEMMA SelfCallFindsKeeps ==
  ASSUME Base, lossy' = lossy, NEW m \in net, RecvSelfCall(m), owners # 0
  PROVE  Kept
<1>t. Typed'
  BY RecvSelfCallTyped
<1>e. /\ m.fork = SelfFork
      /\ inst' = [inst EXCEPT ![SelfFork] = owners]
      /\ stage' = [stage EXCEPT ![SelfFork] = "value"]
      /\ m.kind = "remoteCall" /\ Consume(m)
      /\ UNCHANGED <<born, owners, made, valued, forks, ownerRef, fetch, loc, parent, alive,
                     held, pendingUsers, confirmedUsers, pendingChildren, deletedOnOwner,
                     timedOut, call, phase>>
  BY ConstAssumption, InFlight, ForkOf
  DEF Base, ownerVars, userVars, Kinds, Retried, Acks, ForkIds, RecvSelfCall
<1>n. /\ Only({"remoteCall"}) /\ Attempts'
      /\ m.fork \in Flying("remoteCall")
      /\ Flying("remoteCall")' \subseteq Flying("remoteCall")
      /\ Flying("remoteCall") \ {m.fork} \subseteq Flying("remoteCall")'
      /\ m.fork \notin Flying("remoteCall")'
  <2>1. /\ Typed /\ Attempts /\ "remoteCall" \in Kinds
    BY <1>e, InFlight, ConstAssumption DEF Base, Kinds, Retried, Acks, ForkIds
  <2> QED
    BY <1>e, <2>1, InFlight, NetConsume DEF Once
<1>q. SelfFork \notin Forks
  BY ConstAssumption
<1>s. \A f \in Forks : Same(f)
  BY <1>e, <1>n, <1>q, ConstAssumption
  DEF Base, Typed, Same, Kinds, Retried, Acks, Open, ForkIds, Only
<1>p. \A f \in Forks : ParentOf(f)'
  BY <1>e, <1>n, <1>q, ConstAssumption
  DEF Base, Typed, Parent, ParentOf, Maps, MapsOf, Unborn, UnbornOf
<1>f. SelfInv'
  BY <1>e, <1>n, <1>q, ConstAssumption
  DEF Base, Typed, SelfInv, Kinds, Retried, Acks, ForkIds, Only
<1>b. NotBorn' /\ Phases'
  BY <1>e, <1>n, <1>q, ConstAssumption
  DEF Base, Typed, NotBorn, Phases, Kinds, Retried, Acks, ForkIds, UnbornOf, SelfInv, Only
<1>B. Base'
  BY <1>t, <1>n, <1>s, <1>p, <1>f, <1>b, <1>e, <1>q, SameKeeps
  DEF Base, Unborn, Maps, Creator, Child, Parent
<1>O. ASSUME OwnerInv, ~ShareUnconfirmed PROVE OwnerInv'
  <2>l. Lone'
    BY <1>O, <1>e, <1>n, <1>q, ConstAssumption
    DEF OwnerInv, Base, Typed, Lone, LoneOf, Unborn, UnbornOf, Kinds, Retried, Acks, Only
  <2>d. Made'
    BY <1>O, <1>e, <1>n, <1>q, ConstAssumption
    DEF OwnerInv, Base, Typed, Made, MadeOf, Instances, Workers, ForkIds, Only
  <2>i. Instances'
    BY <1>O, <1>e, <1>q, ConstAssumption
    DEF OwnerInv, Base, Typed, Instances, Made, MadeOf, ForkIds
  <2>h. OwnerHeld'
    BY <1>O, <1>e, <1>q, ConstAssumption
    DEF OwnerInv, Base, Typed, OwnerHeld, Instances, Workers, ForkIds
  <2> QED
    BY <2>l, <2>d, <2>i, <2>h DEF OwnerInv
<1>C. ASSUME CInv PROVE CInv'
  <2>f. \A f \in Forks : CleanOf(f)'
    BY <1>C, <1>e, <1>s, SameClean DEF CInv, Clean
  <2>v. LeftInv'
    BY <1>C, <1>e, <1>n, <1>q, ConstAssumption
    DEF CInv, LeftInv, Kinds, Retried, Acks, Workers, ForkIds, Only
  <2> QED
    BY <2>f, <2>v DEF CInv, Clean
<1> QED
  BY <1>B, <1>O, <1>C DEF Kept

\* ... or, after a timeout, answers with an error.
LEMMA SelfCallFailsKeeps ==
  ASSUME Base, lossy' = lossy, NEW m \in net, RecvSelfCall(m), owners = 0
  PROVE  Kept
<1>t. Typed'
  BY RecvSelfCallTyped
<1>e. /\ m.fork = SelfFork
      /\ m.kind = "remoteCall" /\ Reply(m, Msg("remoteRet", m.fork, 1))
      /\ UNCHANGED <<born, owners, made, valued, forks, stage, inst, ownerRef, fetch, loc,
                     parent, alive, held, pendingUsers, confirmedUsers, pendingChildren,
                     deletedOnOwner, timedOut, call, phase>>
  BY ConstAssumption, InFlight, ForkOf
  DEF Base, ownerVars, userVars, Kinds, Retried, Acks, ForkIds, RecvSelfCall
<1>n. /\ Only({"remoteRet", "remoteCall"}) /\ Attempts'
      /\ m.fork \in Flying("remoteCall")
      /\ Flying("remoteCall")' \subseteq Flying("remoteCall")
      /\ Flying("remoteCall") \ {m.fork} \subseteq Flying("remoteCall")'
      /\ m.fork \notin Flying("remoteCall")'
      /\ Flying("remoteRet")' = Flying("remoteRet") \cup {m.fork}
  <2>1. /\ Typed /\ Attempts /\ "remoteCall" \in Kinds /\ "remoteRet" \in Kinds
        /\ 1 \in 1..MaxAttempts
    BY <1>e, InFlight, ConstAssumption DEF Base, Kinds, Retried, Acks, ForkIds
  <2> QED
    BY <1>e, <2>1, InFlight, NetReply DEF Once
<1>q. SelfFork \notin Forks
  BY ConstAssumption
<1>s. \A f \in Forks : Same(f)
  BY <1>e, <1>n, <1>q, ConstAssumption
  DEF Base, Typed, Same, Kinds, Retried, Acks, Open, ForkIds, Only
<1>p. \A f \in Forks : ParentOf(f)'
  BY <1>e, <1>n, <1>q, ConstAssumption
  DEF Base, Typed, Parent, ParentOf, Maps, MapsOf, Unborn, UnbornOf
<1>f. SelfInv'
  BY <1>e, <1>n, <1>q, ConstAssumption
  DEF Base, Typed, SelfInv, Kinds, Retried, Acks, ForkIds, Only
<1>b. NotBorn' /\ Phases'
  BY <1>e, <1>n, <1>q, ConstAssumption
  DEF Base, Typed, NotBorn, Phases, Kinds, Retried, Acks, ForkIds, UnbornOf, SelfInv, Only
<1>B. Base'
  BY <1>t, <1>n, <1>s, <1>p, <1>f, <1>b, <1>e, <1>q, SameKeeps
  DEF Base, Unborn, Maps, Creator, Child, Parent
<1>O. ASSUME OwnerInv, ~ShareUnconfirmed PROVE OwnerInv'
  <2>l. Lone'
    BY <1>O, <1>e, <1>n, <1>q, ConstAssumption
    DEF OwnerInv, Base, Typed, Lone, LoneOf, Unborn, UnbornOf, Kinds, Retried, Acks, Only
  <2>d. Made'
    BY <1>O, <1>e, <1>n, <1>q, ConstAssumption
    DEF OwnerInv, Base, Typed, Made, MadeOf, Instances, Workers, ForkIds, Only
  <2>i. Instances'
    BY <1>O, <1>e, <1>q, ConstAssumption
    DEF OwnerInv, Base, Typed, Instances, Made, MadeOf, ForkIds
  <2>h. OwnerHeld'
    BY <1>O, <1>e, <1>q, ConstAssumption
    DEF OwnerInv, Base, Typed, OwnerHeld, Instances, Workers, ForkIds
  <2> QED
    BY <2>l, <2>d, <2>i, <2>h DEF OwnerInv
<1>C. ASSUME CInv PROVE CInv'
  <2>f. \A f \in Forks : CleanOf(f)'
    BY <1>C, <1>e, <1>s, SameClean DEF CInv, Clean
  <2>v. LeftInv'
    BY <1>C, <1>e, <1>n, <1>q, ConstAssumption
    DEF CInv, LeftInv, Kinds, Retried, Acks, Workers, ForkIds, Only
  <2> QED
    BY <2>f, <2>v DEF CInv, Clean
<1> QED
  BY <1>B, <1>O, <1>C DEF Kept

\* The self fork is removed, and the OwnerRRef with it if it is the last.
LEMMA RecvSelfRetKeeps ==
  ASSUME Base, lossy' = lossy, NEW m \in net, RecvSelfRet(m)
  PROVE  Kept
<1>t. Typed'
  BY RecvSelfRetTyped
<1>e. /\ m.fork = SelfFork
      /\ forks' = forks \ {SelfFork}
      /\ owners' = IF forks # {} /\ forks \ {SelfFork} = {} THEN 0 ELSE owners
      /\ m.kind = "remoteRet" /\ Consume(m)
      /\ UNCHANGED <<born, made, valued, stage, inst, ownerRef, fetch, loc, parent, alive,
                     held, pendingUsers, confirmedUsers, pendingChildren, deletedOnOwner,
                     timedOut, call, phase>>
  BY ConstAssumption, InFlight, ForkOf
  DEF Base, ownerVars, userVars, Kinds, Retried, Acks, ForkIds, RecvSelfRet, DelForkOfOwner
<1>n. /\ Only({"remoteRet"}) /\ Attempts'
      /\ m.fork \in Flying("remoteRet")
      /\ Flying("remoteRet")' \subseteq Flying("remoteRet")
      /\ Flying("remoteRet") \ {m.fork} \subseteq Flying("remoteRet")'
      /\ m.fork \notin Flying("remoteRet")'
  <2>1. /\ Typed /\ Attempts /\ "remoteRet" \in Kinds
    BY <1>e, InFlight, ConstAssumption DEF Base, Kinds, Retried, Acks, ForkIds
  <2> QED
    BY <1>e, <2>1, InFlight, NetConsume DEF Once
<1>q. SelfFork \notin Forks
  BY ConstAssumption
<1>s. \A f \in Forks : Same(f)
  BY <1>e, <1>n, <1>q, ConstAssumption
  DEF Base, Typed, Same, Kinds, Retried, Acks, Open, ForkIds, Only
<1>p. \A f \in Forks : ParentOf(f)'
  BY <1>e, <1>n, <1>q, ConstAssumption
  DEF Base, Typed, Parent, ParentOf, Maps, MapsOf, Unborn, UnbornOf
<1>f. SelfInv'
  BY <1>e, <1>n, <1>q, ConstAssumption
  DEF Base, Typed, SelfInv, Kinds, Retried, Acks, ForkIds, Only
<1>b. NotBorn' /\ Phases'
  BY <1>e, <1>n, <1>q, ConstAssumption
  DEF Base, Typed, NotBorn, Phases, Kinds, Retried, Acks, ForkIds, UnbornOf, SelfInv, Only
<1>B. Base'
  BY <1>t, <1>n, <1>s, <1>p, <1>f, <1>b, <1>e, <1>q, SameKeeps
  DEF Base, Unborn, Maps, Creator, Child, Parent
<1>O. ASSUME OwnerInv, ~ShareUnconfirmed PROVE OwnerInv'
  <2>r. \A f \in Forks : stage[f] = "assign" => forks = {}
    BY <1>O, Assigning
  <2>l. Lone'
    BY <1>O, <1>e, <1>n, <1>q, <2>r, ConstAssumption
    DEF OwnerInv, Base, Typed, Lone, LoneOf, Unborn, UnbornOf, Kinds, Retried, Acks, Only
  <2>d. Made'
    BY <1>O, <1>e, <1>n, <1>q, <2>r, ConstAssumption
    DEF OwnerInv, Base, Typed, Made, MadeOf, Instances, Workers, ForkIds, Only
  <2>i. Instances'
    BY <1>O, <1>e, <1>q, <2>r, ConstAssumption
    DEF OwnerInv, Base, Typed, Instances, Made, MadeOf, ForkIds
  <2>h. OwnerHeld'
    BY <1>O, <1>e, <1>q, <2>r, ConstAssumption
    DEF OwnerInv, Base, Typed, OwnerHeld, Instances, Workers, ForkIds
  <2> QED
    BY <2>l, <2>d, <2>i, <2>h DEF OwnerInv
<1>C. ASSUME CInv PROVE CInv'
  <2>f. \A f \in Forks : CleanOf(f)'
    BY <1>C, <1>e, <1>s, SameClean DEF CInv, Clean
  <2>v. LeftInv'
    BY <1>C, <1>e, <1>n, <1>q, ConstAssumption
    DEF CInv, LeftInv, Kinds, Retried, Acks, Workers, ForkIds, Only
  <2> QED
    BY <2>f, <2>v DEF CInv, Clean
<1> QED
  BY <1>B, <1>O, <1>C DEF Kept

\* A late response to the creator is dropped.
LEMMA RemoteRetLateKeeps ==
  ASSUME Base, lossy' = lossy, NEW m \in net, RecvRemoteRet(m), m.fork \in timedOut
  PROVE  Kept
<1>t. Typed'
  BY RecvRemoteRetTyped
<1> DEFINE c == m.fork
<1>e. /\ m.fork \in Forks
      /\ m.kind = "remoteRet" /\ Consume(m)
      /\ UNCHANGED <<born, owners, made, valued, forks, stage, inst, ownerRef, fetch, loc,
                     parent, alive, held, pendingUsers, confirmedUsers, pendingChildren,
                     deletedOnOwner, timedOut, call, phase>>
  BY ConstAssumption, InFlight, ForkOf
  DEF Base, ownerVars, userVars, Kinds, Retried, Acks, ForkIds, RecvRemoteRet,
      DelPendingUser
<1>n. /\ Only({"remoteRet"}) /\ Attempts'
      /\ m.fork \in Flying("remoteRet")
      /\ Flying("remoteRet")' \subseteq Flying("remoteRet")
      /\ Flying("remoteRet") \ {m.fork} \subseteq Flying("remoteRet")'
      /\ m.fork \notin Flying("remoteRet")'
  <2>1. /\ Typed /\ Attempts /\ "remoteRet" \in Kinds
    BY <1>e, InFlight, ConstAssumption DEF Base, Kinds, Retried, Acks, ForkIds
  <2> QED
    BY <1>e, <2>1, InFlight, NetConsume DEF Once
<1>o. c \in Forks /\ UnbornOf(c) /\ MapsOf(c) /\ CreatorOf(c) /\ ChildOf(c) /\ ParentOf(c)
  BY <1>e DEF Base, Unborn, Maps, Creator, Child, Parent
<1>s. \A f \in Forks \ {c} : Same(f)
  BY <1>e, <1>n, <1>o DEF Base, Typed, Same, Kinds, Retried, Acks, Only, Open
<1>u. UnbornOf(c)'
  BY <1>e, <1>n, <1>o, ConstAssumption DEF Base, Typed, Workers, UnbornOf, MapsOf
<1>m. MapsOf(c)'
  BY <1>e, <1>n, <1>o, ConstAssumption
  DEF Base, Typed, UnbornOf, MapsOf, CreatorOf, ChildOf, Coming, Creating, Only, Workers,
      Only
<1>c. CreatorOf(c)'
  BY <1>e, <1>n, <1>o, ConstAssumption
  DEF Base, Typed, UnbornOf, MapsOf, CreatorOf, ChildOf, Coming, Creating, Only, Only
<1>h. ChildOf(c)'
  BY <1>e, <1>n, <1>o, ConstAssumption
  DEF Base, Typed, UnbornOf, MapsOf, CreatorOf, ChildOf, Coming, Creating, Open, Only
<1>p. \A f \in Forks : ParentOf(f)'
  BY <1>e, <1>n, <1>o, ConstAssumption
  DEF Base, Typed, Parent, ParentOf, Maps, MapsOf, Unborn, UnbornOf, ChildOf
<1>f. SelfInv'
  BY <1>e, <1>n, <1>o, ConstAssumption
  DEF Base, Typed, SelfInv, Kinds, Retried, Acks, ForkIds, Only
<1>b. NotBorn' /\ Phases'
  BY <1>e, <1>n, <1>o, ConstAssumption
  DEF Base, Typed, NotBorn, Phases, Kinds, Retried, Acks, ForkIds, UnbornOf, SelfInv, Only
<1>B. Base'
  BY <1>t, <1>n, <1>s, <1>u, <1>m, <1>c, <1>h, <1>p, <1>f, <1>b, <1>e, SameKeeps
  DEF Base, Unborn, Maps, Creator, Child, Parent
<1>x. /\ stage'[SelfFork] = stage[SelfFork] /\ (SelfFork \in forks' <=> SelfFork \in forks)
      /\ \A j \in Kinds : SelfFork \in Flying(j)' <=> SelfFork \in Flying(j)
  BY <1>e, <1>n, <1>o, ConstAssumption DEF Base, Typed, Kinds, Retried, Acks, ForkIds, Only
<1>O. ASSUME OwnerInv, ~ShareUnconfirmed PROVE OwnerInv'
  <2>l. Lone'
    BY <1>O, <1>e, <1>o, <1>x, ConstAssumption
    DEF OwnerInv, Base, Typed, Lone, LoneOf, Unborn, UnbornOf
  <2>d. Made'
    BY <1>O, <1>e, <1>n, <1>o, ConstAssumption
    DEF OwnerInv, Base, Typed, Made, MadeOf, Instances, Workers, ForkIds, Only, UnbornOf
  <2>i. Instances'
    BY <1>O, <1>e, <1>o, ConstAssumption
    DEF OwnerInv, Base, Typed, Instances, Made, MadeOf, ForkIds
  <2>h. OwnerHeld'
    BY <1>O, <1>e, <1>o, ConstAssumption
    DEF OwnerInv, Base, Typed, OwnerHeld, Instances, Workers, ForkIds, ChildOf
  <2> QED
    BY <2>l, <2>d, <2>i, <2>h DEF OwnerInv
<1>C. ASSUME CInv PROVE CInv'
  <2>c. CleanOf(c)'
    BY <1>C, <1>e, <1>n, <1>o, ConstAssumption
    DEF CInv, Clean, CleanOf, MapsOf, CreatorOf, ChildOf, Coming, Creating, Only
  <2>f. \A f \in Forks \ {c} : CleanOf(f)'
    BY <1>C, <1>e, <1>s, SameClean DEF CInv, Clean
  <2>v. LeftInv'
    BY <1>C, <1>e, <1>n, <1>o, ConstAssumption
    DEF CInv, LeftInv, Kinds, Retried, Acks, Workers, ForkIds, Only, UnbornOf
  <2> QED
    BY <2>f, <2>c, <2>v DEF CInv, Clean
<1> QED
  BY <1>B, <1>O, <1>C DEF Kept

\* The creator's UserRRef is confirmed: the owner knows it.
LEMMA RemoteRetConfirmsKeeps ==
  ASSUME Base, lossy' = lossy, NEW m \in net, RecvRemoteRet(m), m.fork \notin timedOut
  PROVE  Kept
<1>t. Typed'
  BY RecvRemoteRetTyped
<1> DEFINE c == m.fork
<1>e. /\ m.fork \in Forks
      /\ pendingUsers' = pendingUsers \ {m.fork}
      /\ confirmedUsers' = confirmedUsers \cup {m.fork}
      /\ m.kind = "remoteRet" /\ Consume(m)
      /\ UNCHANGED <<born, owners, made, valued, forks, stage, inst, ownerRef, fetch, loc,
                     parent, alive, held, pendingChildren, deletedOnOwner, timedOut, call,
                     phase>>
  BY ConstAssumption, InFlight, ForkOf
  DEF Base, ownerVars, userVars, Kinds, Retried, Acks, ForkIds, RecvRemoteRet,
      DelPendingUser
<1>n. /\ Only({"remoteRet"}) /\ Attempts'
      /\ m.fork \in Flying("remoteRet")
      /\ Flying("remoteRet")' \subseteq Flying("remoteRet")
      /\ Flying("remoteRet") \ {m.fork} \subseteq Flying("remoteRet")'
      /\ m.fork \notin Flying("remoteRet")'
  <2>1. /\ Typed /\ Attempts /\ "remoteRet" \in Kinds
    BY <1>e, InFlight, ConstAssumption DEF Base, Kinds, Retried, Acks, ForkIds
  <2> QED
    BY <1>e, <2>1, InFlight, NetConsume DEF Once
<1>o. c \in Forks /\ UnbornOf(c) /\ MapsOf(c) /\ CreatorOf(c) /\ ChildOf(c) /\ ParentOf(c)
  BY <1>e DEF Base, Unborn, Maps, Creator, Child, Parent
<1>s. \A f \in Forks \ {c} : Same(f)
  BY <1>e, <1>n, <1>o DEF Base, Typed, Same, Kinds, Retried, Acks, Only, Open
<1>u. UnbornOf(c)'
  BY <1>e, <1>n, <1>o, ConstAssumption DEF Base, Typed, Workers, UnbornOf, MapsOf
<1>m. MapsOf(c)'
  BY <1>e, <1>n, <1>o, ConstAssumption
  DEF Base, Typed, UnbornOf, MapsOf, CreatorOf, ChildOf, Coming, Creating, Only, Workers,
      Only
<1>c. CreatorOf(c)'
  BY <1>e, <1>n, <1>o, ConstAssumption
  DEF Base, Typed, UnbornOf, MapsOf, CreatorOf, ChildOf, Coming, Creating, Only, Only
<1>h. ChildOf(c)'
  BY <1>e, <1>n, <1>o, ConstAssumption
  DEF Base, Typed, UnbornOf, MapsOf, CreatorOf, ChildOf, Coming, Creating, Open, Only
<1>p. \A f \in Forks : ParentOf(f)'
  BY <1>e, <1>n, <1>o, ConstAssumption
  DEF Base, Typed, Parent, ParentOf, Maps, MapsOf, Unborn, UnbornOf, ChildOf
<1>f. SelfInv'
  BY <1>e, <1>n, <1>o, ConstAssumption
  DEF Base, Typed, SelfInv, Kinds, Retried, Acks, ForkIds, Only
<1>b. NotBorn' /\ Phases'
  BY <1>e, <1>n, <1>o, ConstAssumption
  DEF Base, Typed, NotBorn, Phases, Kinds, Retried, Acks, ForkIds, UnbornOf, SelfInv, Only
<1>B. Base'
  BY <1>t, <1>n, <1>s, <1>u, <1>m, <1>c, <1>h, <1>p, <1>f, <1>b, <1>e, SameKeeps
  DEF Base, Unborn, Maps, Creator, Child, Parent
<1>x. /\ stage'[SelfFork] = stage[SelfFork] /\ (SelfFork \in forks' <=> SelfFork \in forks)
      /\ \A j \in Kinds : SelfFork \in Flying(j)' <=> SelfFork \in Flying(j)
  BY <1>e, <1>n, <1>o, ConstAssumption DEF Base, Typed, Kinds, Retried, Acks, ForkIds, Only
<1>O. ASSUME OwnerInv, ~ShareUnconfirmed PROVE OwnerInv'
  <2>l. Lone'
    BY <1>O, <1>e, <1>o, <1>x, ConstAssumption
    DEF OwnerInv, Base, Typed, Lone, LoneOf, Unborn, UnbornOf
  <2>d. Made'
    BY <1>O, <1>e, <1>n, <1>o, ConstAssumption
    DEF OwnerInv, Base, Typed, Made, MadeOf, Instances, Workers, ForkIds, Only, UnbornOf
  <2>i. Instances'
    BY <1>O, <1>e, <1>o, ConstAssumption
    DEF OwnerInv, Base, Typed, Instances, Made, MadeOf, ForkIds
  <2>h. OwnerHeld'
    BY <1>O, <1>e, <1>o, ConstAssumption
    DEF OwnerInv, Base, Typed, OwnerHeld, Instances, Workers, ForkIds, ChildOf
  <2> QED
    BY <2>l, <2>d, <2>i, <2>h DEF OwnerInv
<1>C. ASSUME CInv PROVE CInv'
  <2>c. CleanOf(c)'
    BY <1>C, <1>e, <1>n, <1>o, ConstAssumption
    DEF CInv, Clean, CleanOf, MapsOf, CreatorOf, ChildOf, Coming, Creating, Only
  <2>f. \A f \in Forks \ {c} : CleanOf(f)'
    BY <1>C, <1>e, <1>s, SameClean DEF CInv, Clean
  <2>v. LeftInv'
    BY <1>C, <1>e, <1>n, <1>o, ConstAssumption
    DEF CInv, LeftInv, Kinds, Retried, Acks, Workers, ForkIds, Only, UnbornOf
  <2> QED
    BY <2>f, <2>c, <2>v DEF CInv, Clean
<1> QED
  BY <1>B, <1>O, <1>C DEF Kept

\* A fork request finds the OwnerRRef, unless its fork was deleted since: the
\* child, or the parent that still tracks it, keeps it.
LEMMA RecvForkRequestKeeps ==
  ASSUME Base, lossy' = lossy, NEW m \in net, RecvForkRequest(m)
  PROVE  Kept
<1>t. Typed'
  BY RecvForkRequestTyped
<1> DEFINE c == m.fork
<1>e. /\ m.fork \in Forks
      /\ forks' = forks \cup {m.fork}
      /\ m.kind = "forkRequest" /\ Reply(m, Msg("forkAck", m.fork, m.attempt))
      /\ UNCHANGED <<born, owners, made, valued, stage, inst, ownerRef, fetch, loc, parent,
                     alive, held, pendingUsers, confirmedUsers, pendingChildren,
                     deletedOnOwner, timedOut, call, phase>>
  BY ConstAssumption, InFlight, ForkOf
  DEF Base, ownerVars, userVars, Kinds, Retried, Acks, ForkIds, RecvForkRequest
<1>n. /\ Only({"forkAck", "forkRequest"}) /\ Attempts'
      /\ m.fork \in Flying("forkRequest")
      /\ Flying("forkRequest")' \subseteq Flying("forkRequest")
      /\ Flying("forkRequest") \ {m.fork} \subseteq Flying("forkRequest")'
      /\ ~lossy => m.fork \notin Flying("forkRequest")'
      /\ Flying("forkAck")' = Flying("forkAck") \cup {m.fork}
  <2>1. /\ Typed /\ Attempts /\ "forkAck" \in Kinds /\ "forkRequest" \in Kinds
        /\ m.attempt \in 1..MaxAttempts /\ "forkAck" \notin Once
    BY <1>e, InFlight, ConstAssumption DEF Base, Kinds, Retried, Acks, ForkIds, Once
  <2> QED
    BY <1>e, <2>1, InFlight, NetReply
<1>o. c \in Forks /\ UnbornOf(c) /\ MapsOf(c) /\ CreatorOf(c) /\ ChildOf(c) /\ ParentOf(c)
  BY <1>e DEF Base, Unborn, Maps, Creator, Child, Parent
<1>s. \A f \in Forks \ {c} : Same(f)
  BY <1>e, <1>n, <1>o DEF Base, Typed, Same, Kinds, Retried, Acks, Only, Open
<1>u. UnbornOf(c)'
  BY <1>e, <1>n, <1>o, ConstAssumption DEF Base, Typed, Workers, UnbornOf, MapsOf
<1>m. MapsOf(c)'
  BY <1>e, <1>n, <1>o, ConstAssumption
  DEF Base, Typed, UnbornOf, MapsOf, CreatorOf, ChildOf, Coming, Creating, Only, Workers,
      Only
<1>c. CreatorOf(c)'
  BY <1>e, <1>n, <1>o, ConstAssumption
  DEF Base, Typed, UnbornOf, MapsOf, CreatorOf, ChildOf, Coming, Creating, Only, Only
<1>h. ChildOf(c)'
  BY <1>e, <1>n, <1>o, ConstAssumption
  DEF Base, Typed, UnbornOf, MapsOf, CreatorOf, ChildOf, Coming, Creating, Open, Only
<1>p. \A f \in Forks : ParentOf(f)'
  BY <1>e, <1>n, <1>o, ConstAssumption
  DEF Base, Typed, Parent, ParentOf, Maps, MapsOf, Unborn, UnbornOf, ChildOf
<1>f. SelfInv'
  BY <1>e, <1>n, <1>o, ConstAssumption
  DEF Base, Typed, SelfInv, Kinds, Retried, Acks, ForkIds, Only
<1>b. NotBorn' /\ Phases'
  BY <1>e, <1>n, <1>o, ConstAssumption
  DEF Base, Typed, NotBorn, Phases, Kinds, Retried, Acks, ForkIds, UnbornOf, SelfInv, Only
<1>B. Base'
  BY <1>t, <1>n, <1>s, <1>u, <1>m, <1>c, <1>h, <1>p, <1>f, <1>b, <1>e, SameKeeps
  DEF Base, Unborn, Maps, Creator, Child, Parent
<1>x. /\ stage'[SelfFork] = stage[SelfFork] /\ (SelfFork \in forks' <=> SelfFork \in forks)
      /\ \A j \in Kinds : SelfFork \in Flying(j)' <=> SelfFork \in Flying(j)
  BY <1>e, <1>n, <1>o, ConstAssumption DEF Base, Typed, Kinds, Retried, Acks, ForkIds, Only
<1>O. ASSUME OwnerInv, ~ShareUnconfirmed PROVE OwnerInv'
  <2>r. made = 1 /\ (phase[Owner] = "run" /\ owners = 0 => c \in deletedOnOwner)
    <3>1. MadeOf(c) /\ loc[c] # None /\ parent[c] \in Forks /\ c \in alive \cup deletedOnOwner
      BY <1>n, <1>o, <1>O DEF OwnerInv, Made, UnbornOf, ChildOf, Kinds, Retried
    <3>2. parent[c] # None /\ made = 1
      BY <3>1, ConstAssumption DEF MadeOf
    <3>3. ASSUME phase[Owner] = "run", owners = 0, c \notin deletedOnOwner PROVE FALSE
      <4>1. c \notin pendingChildren
        BY <1>O, <3>3, HoldsOwner
      <4>2. c \in confirmedUsers \ timedOut
        BY <1>o, <3>1, <3>2, <3>3, <4>1 DEF MapsOf, ParentOf
      <4>3. c \in forks /\ stage[c] # "prepare"
        BY <1>o, <3>1, <3>3, <4>2 DEF ChildOf, MapsOf, Coming
      <4> QED
        BY <1>o, <1>O, <3>3, <4>3 DEF OwnerInv, OwnerHeld
    <3> QED
      BY <3>2, <3>3
  <2>l. Lone'
    BY <1>O, <1>e, <1>o, <1>x, <2>r, ConstAssumption
    DEF OwnerInv, Base, Typed, Lone, LoneOf, Unborn, UnbornOf
  <2>d. Made'
    BY <1>O, <1>e, <1>n, <1>o, <2>r, ConstAssumption
    DEF OwnerInv, Base, Typed, Made, MadeOf, Instances, Workers, ForkIds, Only, UnbornOf
  <2>i. Instances'
    BY <1>O, <1>e, <1>o, <2>r, ConstAssumption
    DEF OwnerInv, Base, Typed, Instances, Made, MadeOf, ForkIds
  <2>h. OwnerHeld'
    BY <1>O, <1>e, <1>o, <2>r, ConstAssumption
    DEF OwnerInv, Base, Typed, OwnerHeld, Instances, Workers, ForkIds, ChildOf
  <2> QED
    BY <2>l, <2>d, <2>i, <2>h DEF OwnerInv
<1>C. ASSUME CInv PROVE CInv'
  <2>c. CleanOf(c)'
    BY <1>C, <1>e, <1>n, <1>o, ConstAssumption
    DEF CInv, Clean, CleanOf, MapsOf, CreatorOf, ChildOf, Coming, Creating, Only
  <2>f. \A f \in Forks \ {c} : CleanOf(f)'
    BY <1>C, <1>e, <1>s, SameClean DEF CInv, Clean
  <2>v. LeftInv'
    BY <1>C, <1>e, <1>n, <1>o, ConstAssumption
    DEF CInv, LeftInv, Kinds, Retried, Acks, Workers, ForkIds, Only, UnbornOf
  <2> QED
    BY <2>f, <2>c, <2>v DEF CInv, Clean
<1> QED
  BY <1>B, <1>O, <1>C DEF Kept

\* The fork is removed, and the OwnerRRef with the last one.
LEMMA RecvUserDeleteKeeps ==
  ASSUME Base, lossy' = lossy, NEW m \in net, RecvUserDelete(m)
  PROVE  Kept
<1>t. Typed'
  BY RecvUserDeleteTyped
<1> DEFINE c == m.fork
<1>e. /\ m.fork \in Forks
      /\ forks' = forks \ {m.fork}
      /\ owners' = IF forks # {} /\ forks \ {m.fork} = {} THEN 0 ELSE owners
      /\ m.kind = "userDelete" /\ Reply(m, Msg("deleteAck", m.fork, m.attempt))
      /\ UNCHANGED <<born, made, valued, stage, inst, ownerRef, fetch, loc, parent, alive,
                     held, pendingUsers, confirmedUsers, pendingChildren, deletedOnOwner,
                     timedOut, call, phase>>
  BY ConstAssumption, InFlight, ForkOf
  DEF Base, ownerVars, userVars, Kinds, Retried, Acks, ForkIds, RecvUserDelete,
      DelForkOfOwner
<1>n. /\ Only({"deleteAck", "userDelete"}) /\ Attempts'
      /\ m.fork \in Flying("userDelete")
      /\ Flying("userDelete")' \subseteq Flying("userDelete")
      /\ Flying("userDelete") \ {m.fork} \subseteq Flying("userDelete")'
      /\ ~lossy => m.fork \notin Flying("userDelete")'
      /\ Flying("deleteAck")' = Flying("deleteAck") \cup {m.fork}
  <2>1. /\ Typed /\ Attempts /\ "deleteAck" \in Kinds /\ "userDelete" \in Kinds
        /\ m.attempt \in 1..MaxAttempts /\ "deleteAck" \notin Once
    BY <1>e, InFlight, ConstAssumption DEF Base, Kinds, Retried, Acks, ForkIds, Once
  <2> QED
    BY <1>e, <2>1, InFlight, NetReply
<1>o. c \in Forks /\ UnbornOf(c) /\ MapsOf(c) /\ CreatorOf(c) /\ ChildOf(c) /\ ParentOf(c)
  BY <1>e DEF Base, Unborn, Maps, Creator, Child, Parent
<1>s. \A f \in Forks \ {c} : Same(f)
  BY <1>e, <1>n, <1>o DEF Base, Typed, Same, Kinds, Retried, Acks, Only, Open
<1>u. UnbornOf(c)'
  BY <1>e, <1>n, <1>o, ConstAssumption DEF Base, Typed, Workers, UnbornOf, MapsOf
<1>m. MapsOf(c)'
  BY <1>e, <1>n, <1>o, ConstAssumption
  DEF Base, Typed, UnbornOf, MapsOf, CreatorOf, ChildOf, Coming, Creating, Only, Workers,
      Only
<1>c. CreatorOf(c)'
  BY <1>e, <1>n, <1>o, ConstAssumption
  DEF Base, Typed, UnbornOf, MapsOf, CreatorOf, ChildOf, Coming, Creating, Only, Only
<1>h. ChildOf(c)'
  BY <1>e, <1>n, <1>o, ConstAssumption
  DEF Base, Typed, UnbornOf, MapsOf, CreatorOf, ChildOf, Coming, Creating, Open, Only
<1>p. \A f \in Forks : ParentOf(f)'
  BY <1>e, <1>n, <1>o, ConstAssumption
  DEF Base, Typed, Parent, ParentOf, Maps, MapsOf, Unborn, UnbornOf, ChildOf
<1>f. SelfInv'
  BY <1>e, <1>n, <1>o, ConstAssumption
  DEF Base, Typed, SelfInv, Kinds, Retried, Acks, ForkIds, Only
<1>b. NotBorn' /\ Phases'
  BY <1>e, <1>n, <1>o, ConstAssumption
  DEF Base, Typed, NotBorn, Phases, Kinds, Retried, Acks, ForkIds, UnbornOf, SelfInv, Only
<1>B. Base'
  BY <1>t, <1>n, <1>s, <1>u, <1>m, <1>c, <1>h, <1>p, <1>f, <1>b, <1>e, SameKeeps
  DEF Base, Unborn, Maps, Creator, Child, Parent
<1>x. /\ stage'[SelfFork] = stage[SelfFork] /\ (SelfFork \in forks' <=> SelfFork \in forks)
      /\ \A j \in Kinds : SelfFork \in Flying(j)' <=> SelfFork \in Flying(j)
  BY <1>e, <1>n, <1>o, ConstAssumption DEF Base, Typed, Kinds, Retried, Acks, ForkIds, Only
<1>O. ASSUME OwnerInv, ~ShareUnconfirmed PROVE OwnerInv'
  <2>r. \A f \in Forks : stage[f] = "assign" => forks = {}
    BY <1>O, Assigning
  <2>l. Lone'
    BY <1>O, <1>e, <1>o, <1>x, <2>r, ConstAssumption
    DEF OwnerInv, Base, Typed, Lone, LoneOf, Unborn, UnbornOf
  <2>d. Made'
    BY <1>O, <1>e, <1>n, <1>o, <2>r, ConstAssumption
    DEF OwnerInv, Base, Typed, Made, MadeOf, Instances, Workers, ForkIds, Only, UnbornOf
  <2>i. Instances'
    BY <1>O, <1>e, <1>o, <2>r, ConstAssumption
    DEF OwnerInv, Base, Typed, Instances, Made, MadeOf, ForkIds
  <2>h. OwnerHeld'
    BY <1>O, <1>e, <1>o, <2>r, ConstAssumption
    DEF OwnerInv, Base, Typed, OwnerHeld, Instances, Workers, ForkIds, ChildOf
  <2> QED
    BY <2>l, <2>d, <2>i, <2>h DEF OwnerInv
<1>C. ASSUME CInv PROVE CInv'
  <2>c. CleanOf(c)'
    BY <1>C, <1>e, <1>n, <1>o, ConstAssumption
    DEF CInv, Clean, CleanOf, MapsOf, CreatorOf, ChildOf, Coming, Creating, Only
  <2>f. \A f \in Forks \ {c} : CleanOf(f)'
    BY <1>C, <1>e, <1>s, SameClean DEF CInv, Clean
  <2>v. LeftInv'
    BY <1>C, <1>e, <1>n, <1>o, ConstAssumption
    DEF CInv, LeftInv, Kinds, Retried, Acks, Workers, ForkIds, Only, UnbornOf
  <2> QED
    BY <2>f, <2>c, <2>v DEF CInv, Clean
<1> QED
  BY <1>B, <1>O, <1>C DEF Kept

\* The parent forgets a child that is confirmed.
LEMMA RecvChildAcceptKeeps ==
  ASSUME Base, lossy' = lossy, NEW m \in net, RecvChildAccept(m)
  PROVE  Kept
<1>t. Typed'
  BY RecvChildAcceptTyped
<1> DEFINE c == m.fork
<1>e. /\ m.fork \in Forks
      /\ pendingChildren' = pendingChildren \ {m.fork}
      /\ m.kind = "childAccept" /\ Reply(m, Msg("acceptAck", m.fork, m.attempt))
      /\ UNCHANGED <<born, owners, made, valued, forks, stage, inst, ownerRef, fetch, loc,
                     parent, alive, held, pendingUsers, confirmedUsers, deletedOnOwner,
                     timedOut, call, phase>>
  BY ConstAssumption, InFlight, ForkOf
  DEF Base, ownerVars, userVars, Kinds, Retried, Acks, ForkIds, RecvChildAccept
<1>n. /\ Only({"acceptAck", "childAccept"}) /\ Attempts'
      /\ m.fork \in Flying("childAccept")
      /\ Flying("childAccept")' \subseteq Flying("childAccept")
      /\ Flying("childAccept") \ {m.fork} \subseteq Flying("childAccept")'
      /\ ~lossy => m.fork \notin Flying("childAccept")'
      /\ Flying("acceptAck")' = Flying("acceptAck") \cup {m.fork}
  <2>1. /\ Typed /\ Attempts /\ "acceptAck" \in Kinds /\ "childAccept" \in Kinds
        /\ m.attempt \in 1..MaxAttempts /\ "acceptAck" \notin Once
    BY <1>e, InFlight, ConstAssumption DEF Base, Kinds, Retried, Acks, ForkIds, Once
  <2> QED
    BY <1>e, <2>1, InFlight, NetReply
<1>o. c \in Forks /\ UnbornOf(c) /\ MapsOf(c) /\ CreatorOf(c) /\ ChildOf(c) /\ ParentOf(c)
  BY <1>e DEF Base, Unborn, Maps, Creator, Child, Parent
<1>s. \A f \in Forks \ {c} : Same(f)
  BY <1>e, <1>n, <1>o DEF Base, Typed, Same, Kinds, Retried, Acks, Only, Open
<1>u. UnbornOf(c)'
  BY <1>e, <1>n, <1>o, ConstAssumption DEF Base, Typed, Workers, UnbornOf, MapsOf
<1>m. MapsOf(c)'
  BY <1>e, <1>n, <1>o, ConstAssumption
  DEF Base, Typed, UnbornOf, MapsOf, CreatorOf, ChildOf, Coming, Creating, Only, Workers,
      Only
<1>c. CreatorOf(c)'
  BY <1>e, <1>n, <1>o, ConstAssumption
  DEF Base, Typed, UnbornOf, MapsOf, CreatorOf, ChildOf, Coming, Creating, Only, Only
<1>h. ChildOf(c)'
  BY <1>e, <1>n, <1>o, ConstAssumption
  DEF Base, Typed, UnbornOf, MapsOf, CreatorOf, ChildOf, Coming, Creating, Open, Only
<1>p. \A f \in Forks : ParentOf(f)'
  BY <1>e, <1>n, <1>o, ConstAssumption
  DEF Base, Typed, Parent, ParentOf, Maps, MapsOf, Unborn, UnbornOf, ChildOf
<1>f. SelfInv'
  BY <1>e, <1>n, <1>o, ConstAssumption
  DEF Base, Typed, SelfInv, Kinds, Retried, Acks, ForkIds, Only
<1>b. NotBorn' /\ Phases'
  BY <1>e, <1>n, <1>o, ConstAssumption
  DEF Base, Typed, NotBorn, Phases, Kinds, Retried, Acks, ForkIds, UnbornOf, SelfInv, Only
<1>B. Base'
  BY <1>t, <1>n, <1>s, <1>u, <1>m, <1>c, <1>h, <1>p, <1>f, <1>b, <1>e, SameKeeps
  DEF Base, Unborn, Maps, Creator, Child, Parent
<1>x. /\ stage'[SelfFork] = stage[SelfFork] /\ (SelfFork \in forks' <=> SelfFork \in forks)
      /\ \A j \in Kinds : SelfFork \in Flying(j)' <=> SelfFork \in Flying(j)
  BY <1>e, <1>n, <1>o, ConstAssumption DEF Base, Typed, Kinds, Retried, Acks, ForkIds, Only
<1>O. ASSUME OwnerInv, ~ShareUnconfirmed PROVE OwnerInv'
  <2>l. Lone'
    BY <1>O, <1>e, <1>o, <1>x, ConstAssumption
    DEF OwnerInv, Base, Typed, Lone, LoneOf, Unborn, UnbornOf
  <2>d. Made'
    BY <1>O, <1>e, <1>n, <1>o, ConstAssumption
    DEF OwnerInv, Base, Typed, Made, MadeOf, Instances, Workers, ForkIds, Only, UnbornOf
  <2>i. Instances'
    BY <1>O, <1>e, <1>o, ConstAssumption
    DEF OwnerInv, Base, Typed, Instances, Made, MadeOf, ForkIds
  <2>h. OwnerHeld'
    BY <1>O, <1>e, <1>o, ConstAssumption
    DEF OwnerInv, Base, Typed, OwnerHeld, Instances, Workers, ForkIds, ChildOf
  <2> QED
    BY <2>l, <2>d, <2>i, <2>h DEF OwnerInv
<1>C. ASSUME CInv PROVE CInv'
  <2>c. CleanOf(c)'
    BY <1>C, <1>e, <1>n, <1>o, ConstAssumption
    DEF CInv, Clean, CleanOf, MapsOf, CreatorOf, ChildOf, Coming, Creating, Only
  <2>f. \A f \in Forks \ {c} : CleanOf(f)'
    BY <1>C, <1>e, <1>s, SameClean DEF CInv, Clean
  <2>v. LeftInv'
    BY <1>C, <1>e, <1>n, <1>o, ConstAssumption
    DEF CInv, LeftInv, Kinds, Retried, Acks, Workers, ForkIds, Only, UnbornOf
  <2> QED
    BY <2>f, <2>c, <2>v DEF CInv, Clean
<1> QED
  BY <1>B, <1>O, <1>C DEF Kept

\* The owner receives its own RRef: the fork that kept it is removed.
LEMMA OwnRpcAtOwnerKeeps ==
  ASSUME Base, lossy' = lossy, NEW m \in net, RecvRpcAtOwner(m), parent[m.fork] = Owner
  PROVE  Kept
<1>t. Typed'
  BY RecvRpcAtOwnerTyped
<1> DEFINE c == m.fork
<1>e. /\ m.fork \in Forks
      /\ loc[m.fork] = Owner
      /\ forks' = forks \ {m.fork}
      /\ owners' = IF forks # {} /\ forks \ {m.fork} = {} THEN 0 ELSE owners
      /\ ownerRef' = owners
      /\ m.kind = "rpc" /\ Consume(m)
      /\ UNCHANGED <<born, made, valued, stage, inst, fetch, loc, parent, alive, held,
                     pendingUsers, confirmedUsers, pendingChildren, deletedOnOwner,
                     timedOut, call, phase>>
  BY ConstAssumption, InFlight, ForkOf
  DEF Base, ownerVars, userVars, Kinds, Retried, Acks, ForkIds, RecvRpcAtOwner,
      DelForkOfOwner, GetOrCreateOwnerRRef, InstAfter, OpenCall
<1>n. /\ Only({"rpc"}) /\ Attempts'
      /\ m.fork \in Flying("rpc")
      /\ Flying("rpc")' \subseteq Flying("rpc")
      /\ Flying("rpc") \ {m.fork} \subseteq Flying("rpc")'
      /\ m.fork \notin Flying("rpc")'
  <2>1. /\ Typed /\ Attempts /\ "rpc" \in Kinds
    BY <1>e, InFlight, ConstAssumption DEF Base, Kinds, Retried, Acks, ForkIds
  <2> QED
    BY <1>e, <2>1, InFlight, NetConsume DEF Once
<1>o. c \in Forks /\ UnbornOf(c) /\ MapsOf(c) /\ CreatorOf(c) /\ ChildOf(c) /\ ParentOf(c)
  BY <1>e DEF Base, Unborn, Maps, Creator, Child, Parent
<1>s. \A f \in Forks \ {c} : Same(f)
  BY <1>e, <1>n, <1>o DEF Base, Typed, Same, Kinds, Retried, Acks, Only, Open
<1>u. UnbornOf(c)'
  BY <1>e, <1>n, <1>o, ConstAssumption DEF Base, Typed, Workers, UnbornOf, MapsOf
<1>m. MapsOf(c)'
  BY <1>e, <1>n, <1>o, ConstAssumption
  DEF Base, Typed, UnbornOf, MapsOf, CreatorOf, ChildOf, Coming, Creating, Only, Workers,
      Only
<1>c. CreatorOf(c)'
  BY <1>e, <1>n, <1>o, ConstAssumption
  DEF Base, Typed, UnbornOf, MapsOf, CreatorOf, ChildOf, Coming, Creating, Only, Only
<1>h. ChildOf(c)'
  BY <1>e, <1>n, <1>o, ConstAssumption
  DEF Base, Typed, UnbornOf, MapsOf, CreatorOf, ChildOf, Coming, Creating, Open, Only
<1>p. \A f \in Forks : ParentOf(f)'
  BY <1>e, <1>n, <1>o, ConstAssumption
  DEF Base, Typed, Parent, ParentOf, Maps, MapsOf, Unborn, UnbornOf, ChildOf
<1>f. SelfInv'
  BY <1>e, <1>n, <1>o, ConstAssumption
  DEF Base, Typed, SelfInv, Kinds, Retried, Acks, ForkIds, Only
<1>b. NotBorn' /\ Phases'
  BY <1>e, <1>n, <1>o, ConstAssumption
  DEF Base, Typed, NotBorn, Phases, Kinds, Retried, Acks, ForkIds, UnbornOf, SelfInv, Only
<1>B. Base'
  BY <1>t, <1>n, <1>s, <1>u, <1>m, <1>c, <1>h, <1>p, <1>f, <1>b, <1>e, SameKeeps
  DEF Base, Unborn, Maps, Creator, Child, Parent
<1>x. /\ stage'[SelfFork] = stage[SelfFork] /\ (SelfFork \in forks' <=> SelfFork \in forks)
      /\ \A j \in Kinds : SelfFork \in Flying(j)' <=> SelfFork \in Flying(j)
  BY <1>e, <1>n, <1>o, ConstAssumption DEF Base, Typed, Kinds, Retried, Acks, ForkIds, Only
<1>O. ASSUME OwnerInv, ~ShareUnconfirmed PROVE OwnerInv'
  <2>r. \A f \in Forks : stage[f] = "assign" => forks = {}
    BY <1>O, Assigning
  <2>l. Lone'
    BY <1>O, <1>e, <1>o, <1>x, <2>r, ConstAssumption
    DEF OwnerInv, Base, Typed, Lone, LoneOf, Unborn, UnbornOf
  <2>d. Made'
    BY <1>O, <1>e, <1>n, <1>o, <2>r, ConstAssumption
    DEF OwnerInv, Base, Typed, Made, MadeOf, Instances, Workers, ForkIds, Only, UnbornOf
  <2>i. Instances'
    BY <1>O, <1>e, <1>o, <2>r, ConstAssumption
    DEF OwnerInv, Base, Typed, Instances, Made, MadeOf, ForkIds
  <2>h. OwnerHeld'
    BY <1>O, <1>e, <1>o, <2>r, ConstAssumption
    DEF OwnerInv, Base, Typed, OwnerHeld, Instances, Workers, ForkIds, ChildOf
  <2> QED
    BY <2>l, <2>d, <2>i, <2>h DEF OwnerInv
<1>C. ASSUME CInv PROVE CInv'
  <2>c. CleanOf(c)'
    BY <1>C, <1>e, <1>n, <1>o, ConstAssumption
    DEF CInv, Clean, CleanOf, MapsOf, CreatorOf, ChildOf, Coming, Creating, Only
  <2>f. \A f \in Forks \ {c} : CleanOf(f)'
    BY <1>C, <1>e, <1>s, SameClean DEF CInv, Clean
  <2>v. LeftInv'
    BY <1>C, <1>e, <1>n, <1>o, ConstAssumption
    DEF CInv, LeftInv, Kinds, Retried, Acks, Workers, ForkIds, Only, UnbornOf
  <2> QED
    BY <2>f, <2>c, <2>v DEF CInv, Clean
<1> QED
  BY <1>B, <1>O, <1>C DEF Kept

\* The owner receives the RRef from a user whose UserRRef keeps the OwnerRRef: no
\* second one is made.
LEMMA UserRpcAtOwnerKeeps ==
  ASSUME Base, lossy' = lossy, NEW m \in net, RecvRpcAtOwner(m), parent[m.fork] # Owner
  PROVE  Kept
<1>t. Typed'
  BY RecvRpcAtOwnerTyped
<1> DEFINE c == m.fork
<1>e. /\ m.fork \in Forks
      /\ loc[m.fork] = Owner
      /\ \A g \in ForkIds : inst'[g] \in {inst[g], owners'}
      /\ owners' # 0
      /\ owners # 0 => owners' = owners /\ made' = made
      /\ owners = 0 => owners' = made + 1 /\ made' = made + 1
      /\ \A g \in Forks : (fetch'[g] = "no") <=> (fetch[g] = "no")
      /\ ownerRef' = owners'
      /\ \A j \in Retried, f \in Forks : Open(j, f)' <=> Open(j, f) \/ (j = "childAccept" /\ f = m.fork)
      /\ m.kind = "rpc" /\ Reply(m, Msg("childAccept", m.fork, 1))
      /\ UNCHANGED <<born, valued, forks, stage, loc, parent, alive, held, pendingUsers,
                     confirmedUsers, pendingChildren, deletedOnOwner, timedOut, phase>>
  <2>1. OpenCall("childAccept", m.fork) /\ m.fork \in Forks /\ "childAccept" \in Retried
    BY ForkOf DEF RecvRpcAtOwner, Retried
  <2>2. \A j \in Retried, f \in Forks : Open(j, f)' <=> Open(j, f) \/ (j = "childAccept" /\ f = m.fork)
    BY <2>1, OpenCallEffect DEF Base
  <2>3. PICK i \in 1..(made + 1) :
          GetOrCreateOwnerRRef(i) /\ InstAfter(i, SelfFork) /\ ownerRef' = i
    BY DEF RecvRpcAtOwner
  <2>4. /\ ownerRef' = owners'
        /\ owners' # 0
        /\ owners # 0 => owners' = owners /\ made' = made
        /\ owners = 0 => owners' = made + 1 /\ made' = made + 1
        /\ \A g \in Forks : (fetch'[g] = "no") <=> (fetch[g] = "no")
        /\ \A g \in ForkIds : inst'[g] \in {inst[g], owners'}
    BY <2>3, GetOrCreateEffect DEF Base
  <2> QED
    BY <2>1, <2>2, <2>4, ConstAssumption DEF userVars, RecvRpcAtOwner
<1>n. /\ Only({"childAccept", "rpc"}) /\ Attempts'
      /\ m.fork \in Flying("rpc")
      /\ Flying("rpc")' \subseteq Flying("rpc")
      /\ Flying("rpc") \ {m.fork} \subseteq Flying("rpc")'
      /\ m.fork \notin Flying("rpc")'
      /\ Flying("childAccept")' = Flying("childAccept") \cup {m.fork}
  <2>1. /\ Typed /\ Attempts /\ "childAccept" \in Kinds /\ "rpc" \in Kinds
        /\ 1 \in 1..MaxAttempts
    BY <1>e, InFlight, ConstAssumption DEF Base, Kinds, Retried, Acks, ForkIds
  <2> QED
    BY <1>e, <2>1, InFlight, NetReply DEF Once
<1>o. c \in Forks /\ UnbornOf(c) /\ MapsOf(c) /\ CreatorOf(c) /\ ChildOf(c) /\ ParentOf(c)
  BY <1>e DEF Base, Unborn, Maps, Creator, Child, Parent
<1>s. \A f \in Forks \ {c} : Same(f)
  BY <1>e, <1>n, <1>o DEF Base, Typed, Same, Kinds, Retried, Acks, Only, ForkIds
<1>u. UnbornOf(c)'
  BY <1>e, <1>n, <1>o, ConstAssumption DEF Base, Typed, Workers, UnbornOf, MapsOf
<1>m. MapsOf(c)'
  BY <1>e, <1>n, <1>o, ConstAssumption
  DEF Base, Typed, UnbornOf, MapsOf, CreatorOf, ChildOf, Coming, Creating, Only, Workers,
      Only
<1>c. CreatorOf(c)'
  BY <1>e, <1>n, <1>o, ConstAssumption
  DEF Base, Typed, UnbornOf, MapsOf, CreatorOf, ChildOf, Coming, Creating, Only, Only
<1>h. ChildOf(c)'
  BY <1>e, <1>n, <1>o, ConstAssumption
  DEF Base, Typed, UnbornOf, MapsOf, CreatorOf, ChildOf, Coming, Creating, Retried, Only
<1>p. \A f \in Forks : ParentOf(f)'
  BY <1>e, <1>n, <1>o, ConstAssumption
  DEF Base, Typed, Parent, ParentOf, Maps, MapsOf, Unborn, UnbornOf, ChildOf
<1>f. SelfInv'
  BY <1>e, <1>n, <1>o, ConstAssumption
  DEF Base, Typed, SelfInv, Kinds, Retried, Acks, ForkIds, Only
<1>b. NotBorn' /\ Phases'
  BY <1>e, <1>n, <1>o, ConstAssumption
  DEF Base, Typed, NotBorn, Phases, Kinds, Retried, Acks, ForkIds, UnbornOf, SelfInv, Only
<1>B. Base'
  BY <1>t, <1>n, <1>s, <1>u, <1>m, <1>c, <1>h, <1>p, <1>f, <1>b, <1>e, SameKeeps
  DEF Base, Unborn, Maps, Creator, Child, Parent
<1>x. /\ stage'[SelfFork] = stage[SelfFork] /\ (SelfFork \in forks' <=> SelfFork \in forks)
      /\ \A j \in Kinds : SelfFork \in Flying(j)' <=> SelfFork \in Flying(j)
  BY <1>e, <1>n, <1>o, ConstAssumption DEF Base, Typed, Kinds, Retried, Acks, ForkIds, Only
<1>O. ASSUME OwnerInv, ~ShareUnconfirmed PROVE OwnerInv'
  <2>r. /\ owners # 0 /\ owners' = owners /\ made' = made /\ made = 1
        /\ parent[c] # None /\ loc[c] # None
    <3>1. MadeOf(c) /\ loc[c] # None /\ Coming(c)
      BY <1>n, <1>o, <1>O DEF OwnerInv, Made, UnbornOf, Coming, Kinds
    <3>2. parent[c] # None /\ phase[Owner] = "run" /\ c \in pendingChildren
      BY <1>n, <1>o, <3>1 DEF ChildOf
    <3>3. owners # 0
      BY <1>O, <3>2, HoldsOwner
    <3> QED
      BY <1>e, <3>1, <3>2, <3>3 DEF MadeOf
  <2>l. Lone'
    BY <1>O, <1>e, <1>o, <1>x, <2>r, ConstAssumption
    DEF OwnerInv, Base, Typed, Lone, LoneOf, Unborn, UnbornOf
  <2>d. Made'
    BY <1>O, <1>e, <1>n, <1>o, <2>r, ConstAssumption
    DEF OwnerInv, Base, Typed, Made, MadeOf, Instances, Workers, ForkIds, Only, UnbornOf
  <2>i. Instances'
    BY <1>O, <1>e, <1>o, <2>r, ConstAssumption
    DEF OwnerInv, Base, Typed, Instances, Made, MadeOf, ForkIds
  <2>h. OwnerHeld'
    BY <1>O, <1>e, <1>o, <2>r, ConstAssumption
    DEF OwnerInv, Base, Typed, OwnerHeld, Instances, Workers, ForkIds, ChildOf
  <2> QED
    BY <2>l, <2>d, <2>i, <2>h DEF OwnerInv
<1>C. ASSUME CInv PROVE CInv'
  <2>c. CleanOf(c)'
    BY <1>C, <1>e, <1>n, <1>o, ConstAssumption
    DEF CInv, Clean, CleanOf, MapsOf, CreatorOf, ChildOf, Coming, Creating, Only
  <2>f. \A f \in Forks \ {c} : CleanOf(f)'
    BY <1>C, <1>e, <1>s, SameClean DEF CInv, Clean
  <2>v. LeftInv'
    BY <1>C, <1>e, <1>n, <1>o, ConstAssumption
    DEF CInv, LeftInv, Kinds, Retried, Acks, Workers, ForkIds, Only, UnbornOf
  <2> QED
    BY <2>f, <2>c, <2>v DEF CInv, Clean
<1> QED
  BY <1>B, <1>O, <1>C DEF Kept

\* A user receives the RRef from the owner, which knows the fork.
LEMMA OwnerRpcAtUserKeeps ==
  ASSUME Base, lossy' = lossy, NEW m \in net, RecvRpcAtUser(m), parent[m.fork] = Owner
  PROVE  Kept
<1>t. Typed'
  BY RecvRpcAtUserTyped
<1> DEFINE c == m.fork
<1>e. /\ m.fork \in Forks
      /\ loc[m.fork] # Owner
      /\ alive' = alive \cup {m.fork}
      /\ held' = held \cup {m.fork}
      /\ confirmedUsers' = confirmedUsers \cup {m.fork}
      /\ m.kind = "rpc" /\ Consume(m)
      /\ UNCHANGED <<born, owners, made, valued, forks, stage, inst, ownerRef, fetch, loc,
                     parent, pendingUsers, pendingChildren, deletedOnOwner, timedOut, call,
                     phase>>
  BY ConstAssumption, InFlight, ForkOf
  DEF Base, ownerVars, userVars, Kinds, Retried, Acks, ForkIds, RecvRpcAtUser, OpenCall
<1>n. /\ Only({"rpc"}) /\ Attempts'
      /\ m.fork \in Flying("rpc")
      /\ Flying("rpc")' \subseteq Flying("rpc")
      /\ Flying("rpc") \ {m.fork} \subseteq Flying("rpc")'
      /\ m.fork \notin Flying("rpc")'
  <2>1. /\ Typed /\ Attempts /\ "rpc" \in Kinds
    BY <1>e, InFlight, ConstAssumption DEF Base, Kinds, Retried, Acks, ForkIds
  <2> QED
    BY <1>e, <2>1, InFlight, NetConsume DEF Once
<1>o. c \in Forks /\ UnbornOf(c) /\ MapsOf(c) /\ CreatorOf(c) /\ ChildOf(c) /\ ParentOf(c)
  BY <1>e DEF Base, Unborn, Maps, Creator, Child, Parent
<1>q. phase[loc[c]] = "run"
  <2>1. Coming(c) /\ loc[c] # None
    BY <1>n, <1>o DEF Coming, UnbornOf, Kinds
  <2>2. loc[c] \in Workers
    BY <1>o, <2>1 DEF Base, Typed
  <2> QED
    BY <1>o, <2>1, <2>2 DEF ChildOf, Base, Phases, Workers
<1>s. \A f \in Forks \ {c} : Same(f)
  BY <1>e, <1>n, <1>o, <1>q DEF Base, Typed, Same, Kinds, Retried, Acks, Only, Open
<1>u. UnbornOf(c)'
  BY <1>e, <1>n, <1>o, <1>q, ConstAssumption DEF Base, Typed, Workers, UnbornOf, MapsOf
<1>m. MapsOf(c)'
  BY <1>e, <1>n, <1>o, <1>q, ConstAssumption
  DEF Base, Typed, UnbornOf, MapsOf, CreatorOf, ChildOf, Coming, Creating, Only, Workers,
      Only
<1>c. CreatorOf(c)'
  BY <1>e, <1>n, <1>o, <1>q, ConstAssumption
  DEF Base, Typed, UnbornOf, MapsOf, CreatorOf, ChildOf, Coming, Creating, Only, Only
<1>h. ChildOf(c)'
  BY <1>e, <1>n, <1>o, <1>q, ConstAssumption
  DEF Base, Typed, UnbornOf, MapsOf, CreatorOf, ChildOf, Coming, Creating, Open, Only
<1>p. \A f \in Forks : ParentOf(f)'
  BY <1>e, <1>n, <1>o, <1>q, ConstAssumption
  DEF Base, Typed, Parent, ParentOf, Maps, MapsOf, Unborn, UnbornOf, ChildOf
<1>f. SelfInv'
  BY <1>e, <1>n, <1>o, <1>q, ConstAssumption
  DEF Base, Typed, SelfInv, Kinds, Retried, Acks, ForkIds, Only
<1>b. NotBorn' /\ Phases'
  BY <1>e, <1>n, <1>o, <1>q, ConstAssumption
  DEF Base, Typed, NotBorn, Phases, Kinds, Retried, Acks, ForkIds, UnbornOf, SelfInv, Only
<1>B. Base'
  BY <1>t, <1>n, <1>s, <1>u, <1>m, <1>c, <1>h, <1>p, <1>f, <1>b, <1>e, <1>q, SameKeeps
  DEF Base, Unborn, Maps, Creator, Child, Parent
<1>x. /\ stage'[SelfFork] = stage[SelfFork] /\ (SelfFork \in forks' <=> SelfFork \in forks)
      /\ \A j \in Kinds : SelfFork \in Flying(j)' <=> SelfFork \in Flying(j)
  BY <1>e, <1>n, <1>o, <1>q, ConstAssumption
  DEF Base, Typed, Kinds, Retried, Acks, ForkIds, Only
<1>O. ASSUME OwnerInv, ~ShareUnconfirmed PROVE OwnerInv'
  <2>l. Lone'
    BY <1>O, <1>e, <1>o, <1>x, <1>q, ConstAssumption
    DEF OwnerInv, Base, Typed, Lone, LoneOf, Unborn, UnbornOf
  <2>d. Made'
    BY <1>O, <1>e, <1>n, <1>o, <1>q, ConstAssumption
    DEF OwnerInv, Base, Typed, Made, MadeOf, Instances, Workers, ForkIds, Only, UnbornOf
  <2>i. Instances'
    BY <1>O, <1>e, <1>o, <1>q, ConstAssumption
    DEF OwnerInv, Base, Typed, Instances, Made, MadeOf, ForkIds
  <2>h. OwnerHeld'
    BY <1>O, <1>e, <1>o, <1>q, ConstAssumption
    DEF OwnerInv, Base, Typed, OwnerHeld, Instances, Workers, ForkIds, ChildOf
  <2> QED
    BY <2>l, <2>d, <2>i, <2>h DEF OwnerInv
<1>C. ASSUME CInv PROVE CInv'
  <2>c. CleanOf(c)'
    BY <1>C, <1>e, <1>n, <1>o, <1>q, ConstAssumption
    DEF CInv, Clean, CleanOf, MapsOf, CreatorOf, ChildOf, Coming, Creating, Only
  <2>f. \A f \in Forks \ {c} : CleanOf(f)'
    BY <1>C, <1>e, <1>s, SameClean DEF CInv, Clean
  <2>v. LeftInv'
    BY <1>C, <1>e, <1>n, <1>o, <1>q, ConstAssumption
    DEF CInv, LeftInv, Kinds, Retried, Acks, Workers, ForkIds, Only, UnbornOf
  <2> QED
    BY <2>f, <2>c, <2>v DEF CInv, Clean
<1> QED
  BY <1>B, <1>O, <1>C DEF Kept

\* A user receives the RRef from another, which tracks the child.
LEMMA UserRpcAtUserKeeps ==
  ASSUME Base, lossy' = lossy, NEW m \in net, RecvRpcAtUser(m), parent[m.fork] # Owner
  PROVE  Kept
<1>t. Typed'
  BY RecvRpcAtUserTyped
<1> DEFINE c == m.fork
<1>e. /\ m.fork \in Forks
      /\ loc[m.fork] # Owner
      /\ alive' = alive \cup {m.fork}
      /\ held' = held \cup {m.fork}
      /\ pendingUsers' = pendingUsers \cup {m.fork}
      /\ \A j \in Retried, f \in Forks : Open(j, f)' <=> Open(j, f) \/ (j = "forkRequest" /\ f = m.fork)
      /\ m.kind = "rpc" /\ Reply(m, Msg("forkRequest", m.fork, 1))
      /\ UNCHANGED <<born, owners, made, valued, forks, stage, inst, ownerRef, fetch, loc,
                     parent, confirmedUsers, pendingChildren, deletedOnOwner, timedOut,
                     phase>>
  <2>1. OpenCall("forkRequest", m.fork) /\ m.fork \in Forks /\ "forkRequest" \in Retried
    BY ForkOf DEF RecvRpcAtUser, Retried
  <2>2. \A j \in Retried, f \in Forks : Open(j, f)' <=> Open(j, f) \/ (j = "forkRequest" /\ f = m.fork)
    BY <2>1, OpenCallEffect DEF Base
  <2> QED
    BY <2>1, <2>2, ConstAssumption DEF ownerVars, RecvRpcAtUser
<1>n. /\ Only({"forkRequest", "rpc"}) /\ Attempts'
      /\ m.fork \in Flying("rpc")
      /\ Flying("rpc")' \subseteq Flying("rpc")
      /\ Flying("rpc") \ {m.fork} \subseteq Flying("rpc")'
      /\ m.fork \notin Flying("rpc")'
      /\ Flying("forkRequest")' = Flying("forkRequest") \cup {m.fork}
  <2>1. /\ Typed /\ Attempts /\ "forkRequest" \in Kinds /\ "rpc" \in Kinds
        /\ 1 \in 1..MaxAttempts
    BY <1>e, InFlight, ConstAssumption DEF Base, Kinds, Retried, Acks, ForkIds
  <2> QED
    BY <1>e, <2>1, InFlight, NetReply DEF Once
<1>o. c \in Forks /\ UnbornOf(c) /\ MapsOf(c) /\ CreatorOf(c) /\ ChildOf(c) /\ ParentOf(c)
  BY <1>e DEF Base, Unborn, Maps, Creator, Child, Parent
<1>q. phase[loc[c]] = "run" /\ parent[c] # None /\ c \notin alive
  <2>1. Coming(c) /\ loc[c] # None
    BY <1>n, <1>o DEF Coming, UnbornOf, Kinds
  <2>2. loc[c] \in Workers
    BY <1>o, <2>1 DEF Base, Typed
  <2> QED
    BY <1>o, <2>1, <2>2 DEF ChildOf, MapsOf, Base, Phases, Workers
<1>s. \A f \in Forks \ {c} : Same(f)
  BY <1>e, <1>n, <1>o, <1>q DEF Base, Typed, Same, Kinds, Retried, Acks, Only
<1>u. UnbornOf(c)'
  BY <1>e, <1>n, <1>o, <1>q, ConstAssumption DEF Base, Typed, Workers, UnbornOf, MapsOf
<1>m. MapsOf(c)'
  BY <1>e, <1>n, <1>o, <1>q, ConstAssumption
  DEF Base, Typed, UnbornOf, MapsOf, CreatorOf, ChildOf, Coming, Creating, Only, Workers,
      Only
<1>c. CreatorOf(c)'
  BY <1>e, <1>n, <1>o, <1>q, ConstAssumption
  DEF Base, Typed, UnbornOf, MapsOf, CreatorOf, ChildOf, Coming, Creating, Only, Only
<1>h. ChildOf(c)'
  BY <1>e, <1>n, <1>o, <1>q, ConstAssumption
  DEF Base, Typed, UnbornOf, MapsOf, CreatorOf, ChildOf, Coming, Creating, Retried, Only
<1>p. \A f \in Forks : ParentOf(f)'
  BY <1>e, <1>n, <1>o, <1>q, ConstAssumption
  DEF Base, Typed, Parent, ParentOf, Maps, MapsOf, Unborn, UnbornOf, ChildOf
<1>f. SelfInv'
  BY <1>e, <1>n, <1>o, <1>q, ConstAssumption
  DEF Base, Typed, SelfInv, Kinds, Retried, Acks, ForkIds, Only
<1>b. NotBorn' /\ Phases'
  BY <1>e, <1>n, <1>o, <1>q, ConstAssumption
  DEF Base, Typed, NotBorn, Phases, Kinds, Retried, Acks, ForkIds, UnbornOf, SelfInv, Only
<1>B. Base'
  BY <1>t, <1>n, <1>s, <1>u, <1>m, <1>c, <1>h, <1>p, <1>f, <1>b, <1>e, <1>q, SameKeeps
  DEF Base, Unborn, Maps, Creator, Child, Parent
<1>x. /\ stage'[SelfFork] = stage[SelfFork] /\ (SelfFork \in forks' <=> SelfFork \in forks)
      /\ \A j \in Kinds : SelfFork \in Flying(j)' <=> SelfFork \in Flying(j)
  BY <1>e, <1>n, <1>o, <1>q, ConstAssumption
  DEF Base, Typed, Kinds, Retried, Acks, ForkIds, Only
<1>O. ASSUME OwnerInv, ~ShareUnconfirmed PROVE OwnerInv'
  <2>r. \A f \in pendingChildren : parent[f] # c
    BY <1>q DEF Base, Typed, Parent, ParentOf
  <2>l. Lone'
    BY <1>O, <1>e, <1>o, <1>x, <1>q, <2>r, ConstAssumption
    DEF OwnerInv, Base, Typed, Lone, LoneOf, Unborn, UnbornOf
  <2>d. Made'
    BY <1>O, <1>e, <1>n, <1>o, <1>q, <2>r, ConstAssumption
    DEF OwnerInv, Base, Typed, Made, MadeOf, Instances, Workers, ForkIds, Only, UnbornOf
  <2>i. Instances'
    BY <1>O, <1>e, <1>o, <1>q, <2>r, ConstAssumption
    DEF OwnerInv, Base, Typed, Instances, Made, MadeOf, ForkIds
  <2>h. OwnerHeld'
    BY <1>O, <1>e, <1>o, <1>q, <2>r, ConstAssumption
    DEF OwnerInv, Base, Typed, OwnerHeld, Instances, Workers, ForkIds, ChildOf
  <2> QED
    BY <2>l, <2>d, <2>i, <2>h DEF OwnerInv
<1>C. ASSUME CInv PROVE CInv'
  <2>c. CleanOf(c)'
    BY <1>C, <1>e, <1>n, <1>o, <1>q, ConstAssumption
    DEF CInv, Clean, CleanOf, MapsOf, CreatorOf, ChildOf, Coming, Creating, Only
  <2>f. \A f \in Forks \ {c} : CleanOf(f)'
    BY <1>C, <1>e, <1>s, SameClean DEF CInv, Clean
  <2>v. LeftInv'
    BY <1>C, <1>e, <1>n, <1>o, <1>q, ConstAssumption
    DEF CInv, LeftInv, Kinds, Retried, Acks, Workers, ForkIds, Only, UnbornOf
  <2> QED
    BY <2>f, <2>c, <2>v DEF CInv, Clean
<1> QED
  BY <1>B, <1>O, <1>C DEF Kept

\* An acknowledgement of an attempt that timed out is dropped.
LEMMA ForkAckStaleKeeps ==
  ASSUME Base, lossy' = lossy, NEW m \in net, RecvForkAck(m), ~Current(m, "forkRequest")
  PROVE  Kept
<1>t. Typed'
  BY RecvForkAckTyped
<1> DEFINE c == m.fork
<1>e. /\ m.fork \in Forks
      /\ m.kind = "forkAck" /\ Consume(m)
      /\ UNCHANGED <<born, owners, made, valued, forks, stage, inst, ownerRef, fetch, loc,
                     parent, alive, held, pendingUsers, confirmedUsers, pendingChildren,
                     deletedOnOwner, timedOut, call, phase>>
  BY ConstAssumption, InFlight, ForkOf
  DEF Base, ownerVars, userVars, Kinds, Retried, Acks, ForkIds, RecvForkAck, DelPendingUser
<1>n. /\ Only({"forkAck"}) /\ Attempts'
      /\ m.fork \in Flying("forkAck")
      /\ Flying("forkAck")' \subseteq Flying("forkAck")
      /\ Flying("forkAck") \ {m.fork} \subseteq Flying("forkAck")'
      /\ ~lossy => m.fork \notin Flying("forkAck")'
  <2>1. /\ Typed /\ Attempts /\ "forkAck" \in Kinds
    BY <1>e, InFlight, ConstAssumption DEF Base, Kinds, Retried, Acks, ForkIds
  <2> QED
    BY <1>e, <2>1, InFlight, NetConsume DEF Once
<1>o. c \in Forks /\ UnbornOf(c) /\ MapsOf(c) /\ CreatorOf(c) /\ ChildOf(c) /\ ParentOf(c)
  BY <1>e DEF Base, Unborn, Maps, Creator, Child, Parent
<1>s. \A f \in Forks \ {c} : Same(f)
  BY <1>e, <1>n, <1>o DEF Base, Typed, Same, Kinds, Retried, Acks, Only, Open
<1>u. UnbornOf(c)'
  BY <1>e, <1>n, <1>o, ConstAssumption DEF Base, Typed, Workers, UnbornOf, MapsOf
<1>m. MapsOf(c)'
  BY <1>e, <1>n, <1>o, ConstAssumption
  DEF Base, Typed, UnbornOf, MapsOf, CreatorOf, ChildOf, Coming, Creating, Only, Workers,
      Only
<1>c. CreatorOf(c)'
  BY <1>e, <1>n, <1>o, ConstAssumption
  DEF Base, Typed, UnbornOf, MapsOf, CreatorOf, ChildOf, Coming, Creating, Only, Only
<1>h. ChildOf(c)'
  BY <1>e, <1>n, <1>o, ConstAssumption
  DEF Base, Typed, UnbornOf, MapsOf, CreatorOf, ChildOf, Coming, Creating, Open, Only
<1>p. \A f \in Forks : ParentOf(f)'
  BY <1>e, <1>n, <1>o, ConstAssumption
  DEF Base, Typed, Parent, ParentOf, Maps, MapsOf, Unborn, UnbornOf, ChildOf
<1>f. SelfInv'
  BY <1>e, <1>n, <1>o, ConstAssumption
  DEF Base, Typed, SelfInv, Kinds, Retried, Acks, ForkIds, Only
<1>b. NotBorn' /\ Phases'
  BY <1>e, <1>n, <1>o, ConstAssumption
  DEF Base, Typed, NotBorn, Phases, Kinds, Retried, Acks, ForkIds, UnbornOf, SelfInv, Only
<1>B. Base'
  BY <1>t, <1>n, <1>s, <1>u, <1>m, <1>c, <1>h, <1>p, <1>f, <1>b, <1>e, SameKeeps
  DEF Base, Unborn, Maps, Creator, Child, Parent
<1>x. /\ stage'[SelfFork] = stage[SelfFork] /\ (SelfFork \in forks' <=> SelfFork \in forks)
      /\ \A j \in Kinds : SelfFork \in Flying(j)' <=> SelfFork \in Flying(j)
  BY <1>e, <1>n, <1>o, ConstAssumption DEF Base, Typed, Kinds, Retried, Acks, ForkIds, Only
<1>O. ASSUME OwnerInv, ~ShareUnconfirmed PROVE OwnerInv'
  <2>l. Lone'
    BY <1>O, <1>e, <1>o, <1>x, ConstAssumption
    DEF OwnerInv, Base, Typed, Lone, LoneOf, Unborn, UnbornOf
  <2>d. Made'
    BY <1>O, <1>e, <1>n, <1>o, ConstAssumption
    DEF OwnerInv, Base, Typed, Made, MadeOf, Instances, Workers, ForkIds, Only, UnbornOf
  <2>i. Instances'
    BY <1>O, <1>e, <1>o, ConstAssumption
    DEF OwnerInv, Base, Typed, Instances, Made, MadeOf, ForkIds
  <2>h. OwnerHeld'
    BY <1>O, <1>e, <1>o, ConstAssumption
    DEF OwnerInv, Base, Typed, OwnerHeld, Instances, Workers, ForkIds, ChildOf
  <2> QED
    BY <2>l, <2>d, <2>i, <2>h DEF OwnerInv
<1>C. ASSUME CInv PROVE CInv'
  <2>c. CleanOf(c)'
    BY <1>C, <1>e, <1>n, <1>o, ConstAssumption
    DEF CInv, Clean, CleanOf, MapsOf, CreatorOf, ChildOf, Coming, Creating, Only
  <2>f. \A f \in Forks \ {c} : CleanOf(f)'
    BY <1>C, <1>e, <1>s, SameClean DEF CInv, Clean
  <2>v. LeftInv'
    BY <1>C, <1>e, <1>n, <1>o, ConstAssumption
    DEF CInv, LeftInv, Kinds, Retried, Acks, Workers, ForkIds, Only, UnbornOf
  <2> QED
    BY <2>f, <2>c, <2>v DEF CInv, Clean
<1> QED
  BY <1>B, <1>O, <1>C DEF Kept

\* The child is confirmed: the owner knows it.
LEMMA ForkAckConfirmsKeeps ==
  ASSUME Base, lossy' = lossy, NEW m \in net, RecvForkAck(m), Current(m, "forkRequest")
  PROVE  Kept
<1>t. Typed'
  BY RecvForkAckTyped
<1> DEFINE c == m.fork
<1>e. /\ m.fork \in Forks
      /\ Open("forkRequest", m.fork)
      /\ pendingUsers' = pendingUsers \ {m.fork}
      /\ confirmedUsers' = confirmedUsers \cup {m.fork}
      /\ \A j \in Retried, f \in Forks :
           Open(j, f)' <=> \/ Open(j, f) /\ ~(j = "forkRequest" /\ f = m.fork)
                           \/ j = "childAccept" /\ f = m.fork
      /\ m.kind = "forkAck" /\ Reply(m, Msg("childAccept", m.fork, 1))
      /\ UNCHANGED <<born, owners, made, valued, forks, stage, inst, ownerRef, fetch, loc,
                     parent, alive, held, pendingChildren, deletedOnOwner, timedOut, phase>>
  <2>1. m.fork \in Forks
    BY ForkOf DEF RecvForkAck
  <2>2. \A j \in Retried, f \in Forks :
             Open(j, f)' <=> \/ Open(j, f) /\ ~(j = "forkRequest" /\ f = m.fork)
                             \/ j = "childAccept" /\ f = m.fork
    BY <2>1, ForkAckEffect DEF Base, RecvForkAck
  <2> QED
    BY <2>1, <2>2, ConstAssumption DEF ownerVars, RecvForkAck, DelPendingUser, Current
<1>n. /\ Only({"childAccept", "forkAck"}) /\ Attempts'
      /\ m.fork \in Flying("forkAck")
      /\ Flying("forkAck")' \subseteq Flying("forkAck")
      /\ Flying("forkAck") \ {m.fork} \subseteq Flying("forkAck")'
      /\ ~lossy => m.fork \notin Flying("forkAck")'
      /\ Flying("childAccept")' = Flying("childAccept") \cup {m.fork}
  <2>1. /\ Typed /\ Attempts /\ "childAccept" \in Kinds /\ "forkAck" \in Kinds
        /\ 1 \in 1..MaxAttempts
    BY <1>e, InFlight, ConstAssumption DEF Base, Kinds, Retried, Acks, ForkIds
  <2> QED
    BY <1>e, <2>1, InFlight, NetReply DEF Once
<1>o. c \in Forks /\ UnbornOf(c) /\ MapsOf(c) /\ CreatorOf(c) /\ ChildOf(c) /\ ParentOf(c)
  BY <1>e DEF Base, Unborn, Maps, Creator, Child, Parent
<1>s. \A f \in Forks \ {c} : Same(f)
  BY <1>e, <1>n, <1>o DEF Base, Typed, Same, Kinds, Retried, Acks, Only
<1>u. UnbornOf(c)'
  BY <1>e, <1>n, <1>o, ConstAssumption DEF Base, Typed, Workers, UnbornOf, MapsOf
<1>m. MapsOf(c)'
  BY <1>e, <1>n, <1>o, ConstAssumption
  DEF Base, Typed, UnbornOf, MapsOf, CreatorOf, ChildOf, Coming, Creating, Only, Workers,
      Only
<1>c. CreatorOf(c)'
  BY <1>e, <1>n, <1>o, ConstAssumption
  DEF Base, Typed, UnbornOf, MapsOf, CreatorOf, ChildOf, Coming, Creating, Only, Only
<1>h. ChildOf(c)'
  BY <1>e, <1>n, <1>o, ConstAssumption
  DEF Base, Typed, UnbornOf, MapsOf, CreatorOf, ChildOf, Coming, Creating, Retried, Only
<1>p. \A f \in Forks : ParentOf(f)'
  BY <1>e, <1>n, <1>o, ConstAssumption
  DEF Base, Typed, Parent, ParentOf, Maps, MapsOf, Unborn, UnbornOf, ChildOf
<1>f. SelfInv'
  BY <1>e, <1>n, <1>o, ConstAssumption
  DEF Base, Typed, SelfInv, Kinds, Retried, Acks, ForkIds, Only
<1>b. NotBorn' /\ Phases'
  BY <1>e, <1>n, <1>o, ConstAssumption
  DEF Base, Typed, NotBorn, Phases, Kinds, Retried, Acks, ForkIds, UnbornOf, SelfInv, Only
<1>B. Base'
  BY <1>t, <1>n, <1>s, <1>u, <1>m, <1>c, <1>h, <1>p, <1>f, <1>b, <1>e, SameKeeps
  DEF Base, Unborn, Maps, Creator, Child, Parent
<1>x. /\ stage'[SelfFork] = stage[SelfFork] /\ (SelfFork \in forks' <=> SelfFork \in forks)
      /\ \A j \in Kinds : SelfFork \in Flying(j)' <=> SelfFork \in Flying(j)
  BY <1>e, <1>n, <1>o, ConstAssumption DEF Base, Typed, Kinds, Retried, Acks, ForkIds, Only
<1>O. ASSUME OwnerInv, ~ShareUnconfirmed PROVE OwnerInv'
  <2>l. Lone'
    BY <1>O, <1>e, <1>o, <1>x, ConstAssumption
    DEF OwnerInv, Base, Typed, Lone, LoneOf, Unborn, UnbornOf
  <2>d. Made'
    BY <1>O, <1>e, <1>n, <1>o, ConstAssumption
    DEF OwnerInv, Base, Typed, Made, MadeOf, Instances, Workers, ForkIds, Only, UnbornOf
  <2>i. Instances'
    BY <1>O, <1>e, <1>o, ConstAssumption
    DEF OwnerInv, Base, Typed, Instances, Made, MadeOf, ForkIds
  <2>h. OwnerHeld'
    BY <1>O, <1>e, <1>o, ConstAssumption
    DEF OwnerInv, Base, Typed, OwnerHeld, Instances, Workers, ForkIds, ChildOf
  <2> QED
    BY <2>l, <2>d, <2>i, <2>h DEF OwnerInv
<1>C. ASSUME CInv PROVE CInv'
  <2>c. CleanOf(c)'
    BY <1>C, <1>e, <1>n, <1>o, ConstAssumption
    DEF CInv, Clean, CleanOf, MapsOf, CreatorOf, ChildOf, Coming, Creating, Only
  <2>f. \A f \in Forks \ {c} : CleanOf(f)'
    BY <1>C, <1>e, <1>s, SameClean DEF CInv, Clean
  <2>v. LeftInv'
    BY <1>C, <1>e, <1>n, <1>o, ConstAssumption
    DEF CInv, LeftInv, Kinds, Retried, Acks, Workers, ForkIds, Only, UnbornOf
  <2> QED
    BY <2>f, <2>c, <2>v DEF CInv, Clean
<1> QED
  BY <1>B, <1>O, <1>C DEF Kept

\* The parent's acknowledgement.
LEMMA AcceptAckKeeps ==
  ASSUME Base, lossy' = lossy, NEW m \in net, NEW k \in Retried, NEW ack \in Acks,
         RecvAck(m, k, ack), k = "childAccept", ack = "acceptAck"
  PROVE  Kept
<1>t. Typed'
  BY RecvAckTyped
<1> DEFINE c == m.fork
<1>e. /\ m.fork \in Forks
      /\ \A j \in Retried, f \in Forks : Open(j, f)' => Open(j, f)
      /\ \A j \in Retried, f \in Forks \ {m.fork} : Open(j, f)' <=> Open(j, f)
      /\ m.kind = "acceptAck" /\ Consume(m)
      /\ UNCHANGED <<born, owners, made, valued, forks, stage, inst, ownerRef, fetch, loc,
                     parent, alive, held, pendingUsers, confirmedUsers, pendingChildren,
                     deletedOnOwner, timedOut, phase>>
  <2>1. m.fork \in Forks
    BY ForkOf DEF RecvAck
  <2>2. CASE call' = call
    BY <2>1, <2>2, ConstAssumption DEF ownerVars, userVars, RecvAck, Open
  <2>3. CASE call' = [call EXCEPT ![k][m.fork].state = "done"]
    <3>1. \A j \in Retried, f \in Forks :
            Open(j, f)' <=> Open(j, f) /\ ~(j = k /\ f = m.fork)
      BY <2>1, <2>3, DoneEffect DEF Base
    <3> QED
      BY <2>1, <3>1, ConstAssumption DEF ownerVars, userVars, RecvAck
  <2> QED
    BY <2>2, <2>3 DEF RecvAck
<1>n. /\ Only({"acceptAck"}) /\ Attempts'
      /\ m.fork \in Flying("acceptAck")
      /\ Flying("acceptAck")' \subseteq Flying("acceptAck")
      /\ Flying("acceptAck") \ {m.fork} \subseteq Flying("acceptAck")'
      /\ ~lossy => m.fork \notin Flying("acceptAck")'
  <2>1. /\ Typed /\ Attempts /\ "acceptAck" \in Kinds
    BY <1>e, InFlight, ConstAssumption DEF Base, Kinds, Retried, Acks, ForkIds
  <2> QED
    BY <1>e, <2>1, InFlight, NetConsume DEF Once
<1>o. c \in Forks /\ UnbornOf(c) /\ MapsOf(c) /\ CreatorOf(c) /\ ChildOf(c) /\ ParentOf(c)
  BY <1>e DEF Base, Unborn, Maps, Creator, Child, Parent
<1>s. \A f \in Forks \ {c} : Same(f)
  BY <1>e, <1>n, <1>o DEF Base, Typed, Same, Kinds, Retried, Acks, Only
<1>u. UnbornOf(c)'
  BY <1>e, <1>n, <1>o, ConstAssumption DEF Base, Typed, Workers, UnbornOf, MapsOf
<1>m. MapsOf(c)'
  BY <1>e, <1>n, <1>o, ConstAssumption
  DEF Base, Typed, UnbornOf, MapsOf, CreatorOf, ChildOf, Coming, Creating, Only, Workers,
      Only
<1>c. CreatorOf(c)'
  BY <1>e, <1>n, <1>o, ConstAssumption
  DEF Base, Typed, UnbornOf, MapsOf, CreatorOf, ChildOf, Coming, Creating, Only, Only
<1>h. ChildOf(c)'
  BY <1>e, <1>n, <1>o, ConstAssumption
  DEF Base, Typed, UnbornOf, MapsOf, CreatorOf, ChildOf, Coming, Creating, Retried, Only
<1>p. \A f \in Forks : ParentOf(f)'
  BY <1>e, <1>n, <1>o, ConstAssumption
  DEF Base, Typed, Parent, ParentOf, Maps, MapsOf, Unborn, UnbornOf, ChildOf
<1>f. SelfInv'
  BY <1>e, <1>n, <1>o, ConstAssumption
  DEF Base, Typed, SelfInv, Kinds, Retried, Acks, ForkIds, Only
<1>b. NotBorn' /\ Phases'
  BY <1>e, <1>n, <1>o, ConstAssumption
  DEF Base, Typed, NotBorn, Phases, Kinds, Retried, Acks, ForkIds, UnbornOf, SelfInv, Only
<1>B. Base'
  BY <1>t, <1>n, <1>s, <1>u, <1>m, <1>c, <1>h, <1>p, <1>f, <1>b, <1>e, SameKeeps
  DEF Base, Unborn, Maps, Creator, Child, Parent
<1>x. /\ stage'[SelfFork] = stage[SelfFork] /\ (SelfFork \in forks' <=> SelfFork \in forks)
      /\ \A j \in Kinds : SelfFork \in Flying(j)' <=> SelfFork \in Flying(j)
  BY <1>e, <1>n, <1>o, ConstAssumption DEF Base, Typed, Kinds, Retried, Acks, ForkIds, Only
<1>O. ASSUME OwnerInv, ~ShareUnconfirmed PROVE OwnerInv'
  <2>l. Lone'
    BY <1>O, <1>e, <1>o, <1>x, ConstAssumption
    DEF OwnerInv, Base, Typed, Lone, LoneOf, Unborn, UnbornOf
  <2>d. Made'
    BY <1>O, <1>e, <1>n, <1>o, ConstAssumption
    DEF OwnerInv, Base, Typed, Made, MadeOf, Instances, Workers, ForkIds, Only, UnbornOf
  <2>i. Instances'
    BY <1>O, <1>e, <1>o, ConstAssumption
    DEF OwnerInv, Base, Typed, Instances, Made, MadeOf, ForkIds
  <2>h. OwnerHeld'
    BY <1>O, <1>e, <1>o, ConstAssumption
    DEF OwnerInv, Base, Typed, OwnerHeld, Instances, Workers, ForkIds, ChildOf
  <2> QED
    BY <2>l, <2>d, <2>i, <2>h DEF OwnerInv
<1>C. ASSUME CInv PROVE CInv'
  <2>c. CleanOf(c)'
    BY <1>C, <1>e, <1>n, <1>o, ConstAssumption
    DEF CInv, Clean, CleanOf, MapsOf, CreatorOf, ChildOf, Coming, Creating, Only
  <2>f. \A f \in Forks \ {c} : CleanOf(f)'
    BY <1>C, <1>e, <1>s, SameClean DEF CInv, Clean
  <2>v. LeftInv'
    BY <1>C, <1>e, <1>n, <1>o, ConstAssumption
    DEF CInv, LeftInv, Kinds, Retried, Acks, Workers, ForkIds, Only, UnbornOf
  <2> QED
    BY <2>f, <2>c, <2>v DEF CInv, Clean
<1> QED
  BY <1>B, <1>O, <1>C DEF Kept

\* The owner's acknowledgement of a delete.
LEMMA DeleteAckKeeps ==
  ASSUME Base, lossy' = lossy, NEW m \in net, NEW k \in Retried, NEW ack \in Acks,
         RecvAck(m, k, ack), k = "userDelete", ack = "deleteAck"
  PROVE  Kept
<1>t. Typed'
  BY RecvAckTyped
<1> DEFINE c == m.fork
<1>e. /\ m.fork \in Forks
      /\ \A j \in Retried, f \in Forks : Open(j, f)' => Open(j, f)
      /\ \A j \in Retried, f \in Forks \ {m.fork} : Open(j, f)' <=> Open(j, f)
      /\ m.kind = "deleteAck" /\ Consume(m)
      /\ UNCHANGED <<born, owners, made, valued, forks, stage, inst, ownerRef, fetch, loc,
                     parent, alive, held, pendingUsers, confirmedUsers, pendingChildren,
                     deletedOnOwner, timedOut, phase>>
  <2>1. m.fork \in Forks
    BY ForkOf DEF RecvAck
  <2>2. CASE call' = call
    BY <2>1, <2>2, ConstAssumption DEF ownerVars, userVars, RecvAck, Open
  <2>3. CASE call' = [call EXCEPT ![k][m.fork].state = "done"]
    <3>1. \A j \in Retried, f \in Forks :
            Open(j, f)' <=> Open(j, f) /\ ~(j = k /\ f = m.fork)
      BY <2>1, <2>3, DoneEffect DEF Base
    <3> QED
      BY <2>1, <3>1, ConstAssumption DEF ownerVars, userVars, RecvAck
  <2> QED
    BY <2>2, <2>3 DEF RecvAck
<1>n. /\ Only({"deleteAck"}) /\ Attempts'
      /\ m.fork \in Flying("deleteAck")
      /\ Flying("deleteAck")' \subseteq Flying("deleteAck")
      /\ Flying("deleteAck") \ {m.fork} \subseteq Flying("deleteAck")'
      /\ ~lossy => m.fork \notin Flying("deleteAck")'
  <2>1. /\ Typed /\ Attempts /\ "deleteAck" \in Kinds
    BY <1>e, InFlight, ConstAssumption DEF Base, Kinds, Retried, Acks, ForkIds
  <2> QED
    BY <1>e, <2>1, InFlight, NetConsume DEF Once
<1>o. c \in Forks /\ UnbornOf(c) /\ MapsOf(c) /\ CreatorOf(c) /\ ChildOf(c) /\ ParentOf(c)
  BY <1>e DEF Base, Unborn, Maps, Creator, Child, Parent
<1>s. \A f \in Forks \ {c} : Same(f)
  BY <1>e, <1>n, <1>o DEF Base, Typed, Same, Kinds, Retried, Acks, Only
<1>u. UnbornOf(c)'
  BY <1>e, <1>n, <1>o, ConstAssumption DEF Base, Typed, Workers, UnbornOf, MapsOf
<1>m. MapsOf(c)'
  BY <1>e, <1>n, <1>o, ConstAssumption
  DEF Base, Typed, UnbornOf, MapsOf, CreatorOf, ChildOf, Coming, Creating, Only, Workers,
      Only
<1>c. CreatorOf(c)'
  BY <1>e, <1>n, <1>o, ConstAssumption
  DEF Base, Typed, UnbornOf, MapsOf, CreatorOf, ChildOf, Coming, Creating, Only, Only
<1>h. ChildOf(c)'
  BY <1>e, <1>n, <1>o, ConstAssumption
  DEF Base, Typed, UnbornOf, MapsOf, CreatorOf, ChildOf, Coming, Creating, Retried, Only
<1>p. \A f \in Forks : ParentOf(f)'
  BY <1>e, <1>n, <1>o, ConstAssumption
  DEF Base, Typed, Parent, ParentOf, Maps, MapsOf, Unborn, UnbornOf, ChildOf
<1>f. SelfInv'
  BY <1>e, <1>n, <1>o, ConstAssumption
  DEF Base, Typed, SelfInv, Kinds, Retried, Acks, ForkIds, Only
<1>b. NotBorn' /\ Phases'
  BY <1>e, <1>n, <1>o, ConstAssumption
  DEF Base, Typed, NotBorn, Phases, Kinds, Retried, Acks, ForkIds, UnbornOf, SelfInv, Only
<1>B. Base'
  BY <1>t, <1>n, <1>s, <1>u, <1>m, <1>c, <1>h, <1>p, <1>f, <1>b, <1>e, SameKeeps
  DEF Base, Unborn, Maps, Creator, Child, Parent
<1>x. /\ stage'[SelfFork] = stage[SelfFork] /\ (SelfFork \in forks' <=> SelfFork \in forks)
      /\ \A j \in Kinds : SelfFork \in Flying(j)' <=> SelfFork \in Flying(j)
  BY <1>e, <1>n, <1>o, ConstAssumption DEF Base, Typed, Kinds, Retried, Acks, ForkIds, Only
<1>O. ASSUME OwnerInv, ~ShareUnconfirmed PROVE OwnerInv'
  <2>l. Lone'
    BY <1>O, <1>e, <1>o, <1>x, ConstAssumption
    DEF OwnerInv, Base, Typed, Lone, LoneOf, Unborn, UnbornOf
  <2>d. Made'
    BY <1>O, <1>e, <1>n, <1>o, ConstAssumption
    DEF OwnerInv, Base, Typed, Made, MadeOf, Instances, Workers, ForkIds, Only, UnbornOf
  <2>i. Instances'
    BY <1>O, <1>e, <1>o, ConstAssumption
    DEF OwnerInv, Base, Typed, Instances, Made, MadeOf, ForkIds
  <2>h. OwnerHeld'
    BY <1>O, <1>e, <1>o, ConstAssumption
    DEF OwnerInv, Base, Typed, OwnerHeld, Instances, Workers, ForkIds, ChildOf
  <2> QED
    BY <2>l, <2>d, <2>i, <2>h DEF OwnerInv
<1>C. ASSUME CInv PROVE CInv'
  <2>c. CleanOf(c)'
    BY <1>C, <1>e, <1>n, <1>o, ConstAssumption
    DEF CInv, Clean, CleanOf, MapsOf, CreatorOf, ChildOf, Coming, Creating, Only
  <2>f. \A f \in Forks \ {c} : CleanOf(f)'
    BY <1>C, <1>e, <1>s, SameClean DEF CInv, Clean
  <2>v. LeftInv'
    BY <1>C, <1>e, <1>n, <1>o, ConstAssumption
    DEF CInv, LeftInv, Kinds, Retried, Acks, Workers, ForkIds, Only, UnbornOf
  <2> QED
    BY <2>f, <2>c, <2>v DEF CInv, Clean
<1> QED
  BY <1>B, <1>O, <1>C DEF Kept

\* The creator's fork is added while the OwnerRRef is there.
LEMMA AddForkOfOwnerKeeps ==
  ASSUME Base, lossy' = lossy, NEW c \in ForkIds, AddForkOfOwner(c), c \in Forks
  PROVE  Kept
<1>t. Typed'
  BY AddForkOfOwnerTyped
<1>e. /\ stage[c] = "assign"
      /\ forks' = forks \cup {c}
      /\ stage' = [stage EXCEPT ![c] = "value"]
      /\ UNCHANGED <<born, owners, made, valued, inst, ownerRef, fetch, loc, parent, alive,
                     held, pendingUsers, confirmedUsers, pendingChildren, deletedOnOwner,
                     timedOut, call, phase, net>>
  BY ConstAssumption
  DEF Base, ownerVars, userVars, Kinds, Retried, Acks, ForkIds, AddForkOfOwner
<1>n. /\ Only({}) /\ Attempts'
  BY <1>e, NetSame DEF Base
<1>o. c \in Forks /\ UnbornOf(c) /\ MapsOf(c) /\ CreatorOf(c) /\ ChildOf(c) /\ ParentOf(c)
  BY <1>e DEF Base, Unborn, Maps, Creator, Child, Parent
<1>s. \A f \in Forks \ {c} : Same(f)
  BY <1>e, <1>n, <1>o DEF Base, Typed, Same, Kinds, Retried, Acks, Only, Open
<1>u. UnbornOf(c)'
  BY <1>e, <1>n, <1>o, ConstAssumption DEF Base, Typed, Workers, UnbornOf, MapsOf
<1>m. MapsOf(c)'
  BY <1>e, <1>n, <1>o, ConstAssumption
  DEF Base, Typed, UnbornOf, MapsOf, CreatorOf, ChildOf, Coming, Creating, Only, Workers,
      Only
<1>c. CreatorOf(c)'
  BY <1>e, <1>n, <1>o, ConstAssumption
  DEF Base, Typed, UnbornOf, MapsOf, CreatorOf, ChildOf, Coming, Creating, Only, Only
<1>h. ChildOf(c)'
  BY <1>e, <1>n, <1>o, ConstAssumption
  DEF Base, Typed, UnbornOf, MapsOf, CreatorOf, ChildOf, Coming, Creating, Open, Only
<1>p. \A f \in Forks : ParentOf(f)'
  BY <1>e, <1>n, <1>o, ConstAssumption
  DEF Base, Typed, Parent, ParentOf, Maps, MapsOf, Unborn, UnbornOf, ChildOf
<1>f. SelfInv'
  BY <1>e, <1>n, <1>o, ConstAssumption
  DEF Base, Typed, SelfInv, Kinds, Retried, Acks, ForkIds, Only
<1>b. NotBorn' /\ Phases'
  BY <1>e, <1>n, <1>o, ConstAssumption
  DEF Base, Typed, NotBorn, Phases, Kinds, Retried, Acks, ForkIds, UnbornOf, SelfInv, Only
<1>B. Base'
  BY <1>t, <1>n, <1>s, <1>u, <1>m, <1>c, <1>h, <1>p, <1>f, <1>b, <1>e, SameKeeps
  DEF Base, Unborn, Maps, Creator, Child, Parent
<1>x. /\ stage'[SelfFork] = stage[SelfFork] /\ (SelfFork \in forks' <=> SelfFork \in forks)
      /\ \A j \in Kinds : SelfFork \in Flying(j)' <=> SelfFork \in Flying(j)
  BY <1>e, <1>n, <1>o, ConstAssumption DEF Base, Typed, Kinds, Retried, Acks, ForkIds, Only
<1>O. ASSUME OwnerInv, ~ShareUnconfirmed PROVE OwnerInv'
  <2>r. made = 1 /\ (phase[Owner] = "run" => owners # 0)
    BY <1>e, <1>o, <1>O DEF OwnerInv, Made, MadeOf
  <2>l. Lone'
    BY <1>O, <1>e, <1>o, <1>x, <2>r, ConstAssumption
    DEF OwnerInv, Base, Typed, Lone, LoneOf, Unborn, UnbornOf
  <2>d. Made'
    BY <1>O, <1>e, <1>n, <1>o, <2>r, ConstAssumption
    DEF OwnerInv, Base, Typed, Made, MadeOf, Instances, Workers, ForkIds, Only, UnbornOf
  <2>i. Instances'
    BY <1>O, <1>e, <1>o, <2>r, ConstAssumption
    DEF OwnerInv, Base, Typed, Instances, Made, MadeOf, ForkIds
  <2>h. OwnerHeld'
    BY <1>O, <1>e, <1>o, <2>r, ConstAssumption
    DEF OwnerInv, Base, Typed, OwnerHeld, Instances, Workers, ForkIds, ChildOf
  <2> QED
    BY <2>l, <2>d, <2>i, <2>h DEF OwnerInv
<1>C. ASSUME CInv PROVE CInv'
  <2>c. CleanOf(c)'
    BY <1>C, <1>e, <1>n, <1>o, ConstAssumption
    DEF CInv, Clean, CleanOf, MapsOf, CreatorOf, ChildOf, Coming, Creating, Only
  <2>f. \A f \in Forks \ {c} : CleanOf(f)'
    BY <1>C, <1>e, <1>s, SameClean DEF CInv, Clean
  <2>v. LeftInv'
    BY <1>C, <1>e, <1>n, <1>o, ConstAssumption
    DEF CInv, LeftInv, Kinds, Retried, Acks, Workers, ForkIds, Only, UnbornOf
  <2> QED
    BY <2>f, <2>c, <2>v DEF CInv, Clean
<1> QED
  BY <1>B, <1>O, <1>C DEF Kept

\* The value is there and the creator is told.
LEMMA AssignValueKeeps ==
  ASSUME Base, lossy' = lossy, NEW c \in ForkIds, AssignValue(c), c \in Forks
  PROVE  Kept
<1>t. Typed'
  BY AssignValueTyped
<1>e. /\ stage[c] = "value"
      /\ valued' = valued \cup {inst[c]}
      /\ stage' = [stage EXCEPT ![c] = "none"]
      /\ net' = net \cup {Msg("remoteRet", c, 1)}
      /\ UNCHANGED <<born, owners, made, forks, inst, ownerRef, fetch, loc, parent, alive,
                     held, pendingUsers, confirmedUsers, pendingChildren, deletedOnOwner,
                     timedOut, call, phase>>
  BY ConstAssumption
  DEF Base, ownerVars, userVars, Kinds, Retried, Acks, ForkIds, AssignValue
<1>n. /\ Only({"remoteRet"}) /\ Attempts'
      /\ Flying("remoteRet")' = Flying("remoteRet") \cup {c}
  <2>1. /\ Typed /\ Attempts /\ "remoteRet" \in Kinds /\ c \in ForkIds
        /\ 1 \in 1..MaxAttempts
    BY <1>e, ConstAssumption DEF Base, Kinds, Retried, Acks, ForkIds
  <2> QED
    BY <1>e, <2>1, NetAdd DEF Once
<1>o. c \in Forks /\ UnbornOf(c) /\ MapsOf(c) /\ CreatorOf(c) /\ ChildOf(c) /\ ParentOf(c)
  BY <1>e DEF Base, Unborn, Maps, Creator, Child, Parent
<1>s. \A f \in Forks \ {c} : Same(f)
  BY <1>e, <1>n, <1>o DEF Base, Typed, Same, Kinds, Retried, Acks, Only, Open
<1>u. UnbornOf(c)'
  BY <1>e, <1>n, <1>o, ConstAssumption DEF Base, Typed, Workers, UnbornOf, MapsOf
<1>m. MapsOf(c)'
  BY <1>e, <1>n, <1>o, ConstAssumption
  DEF Base, Typed, UnbornOf, MapsOf, CreatorOf, ChildOf, Coming, Creating, Only, Workers,
      Only
<1>c. CreatorOf(c)'
  BY <1>e, <1>n, <1>o, ConstAssumption
  DEF Base, Typed, UnbornOf, MapsOf, CreatorOf, ChildOf, Coming, Creating, Only, Only
<1>h. ChildOf(c)'
  BY <1>e, <1>n, <1>o, ConstAssumption
  DEF Base, Typed, UnbornOf, MapsOf, CreatorOf, ChildOf, Coming, Creating, Open, Only
<1>p. \A f \in Forks : ParentOf(f)'
  BY <1>e, <1>n, <1>o, ConstAssumption
  DEF Base, Typed, Parent, ParentOf, Maps, MapsOf, Unborn, UnbornOf, ChildOf
<1>f. SelfInv'
  BY <1>e, <1>n, <1>o, ConstAssumption
  DEF Base, Typed, SelfInv, Kinds, Retried, Acks, ForkIds, Only
<1>b. NotBorn' /\ Phases'
  BY <1>e, <1>n, <1>o, ConstAssumption
  DEF Base, Typed, NotBorn, Phases, Kinds, Retried, Acks, ForkIds, UnbornOf, SelfInv, Only
<1>B. Base'
  BY <1>t, <1>n, <1>s, <1>u, <1>m, <1>c, <1>h, <1>p, <1>f, <1>b, <1>e, SameKeeps
  DEF Base, Unborn, Maps, Creator, Child, Parent
<1>x. /\ stage'[SelfFork] = stage[SelfFork] /\ (SelfFork \in forks' <=> SelfFork \in forks)
      /\ \A j \in Kinds : SelfFork \in Flying(j)' <=> SelfFork \in Flying(j)
  BY <1>e, <1>n, <1>o, ConstAssumption DEF Base, Typed, Kinds, Retried, Acks, ForkIds, Only
<1>O. ASSUME OwnerInv, ~ShareUnconfirmed PROVE OwnerInv'
  <2>l. Lone'
    BY <1>O, <1>e, <1>o, <1>x, ConstAssumption
    DEF OwnerInv, Base, Typed, Lone, LoneOf, Unborn, UnbornOf
  <2>d. Made'
    BY <1>O, <1>e, <1>n, <1>o, ConstAssumption
    DEF OwnerInv, Base, Typed, Made, MadeOf, Instances, Workers, ForkIds, Only, UnbornOf
  <2>i. Instances'
    BY <1>O, <1>e, <1>o, ConstAssumption
    DEF OwnerInv, Base, Typed, Instances, Made, MadeOf, ForkIds
  <2>h. OwnerHeld'
    BY <1>O, <1>e, <1>o, ConstAssumption
    DEF OwnerInv, Base, Typed, OwnerHeld, Instances, Workers, ForkIds, ChildOf
  <2> QED
    BY <2>l, <2>d, <2>i, <2>h DEF OwnerInv
<1>C. ASSUME CInv PROVE CInv'
  <2>c. CleanOf(c)'
    BY <1>C, <1>e, <1>n, <1>o, ConstAssumption
    DEF CInv, Clean, CleanOf, MapsOf, CreatorOf, ChildOf, Coming, Creating, Only
  <2>f. \A f \in Forks \ {c} : CleanOf(f)'
    BY <1>C, <1>e, <1>s, SameClean DEF CInv, Clean
  <2>v. LeftInv'
    BY <1>C, <1>e, <1>n, <1>o, ConstAssumption
    DEF CInv, LeftInv, Kinds, Retried, Acks, Workers, ForkIds, Only, UnbornOf
  <2> QED
    BY <2>f, <2>c, <2>v DEF CInv, Clean
<1> QED
  BY <1>B, <1>O, <1>C DEF Kept

\* The same for a call to self.
LEMMA AssignSelfKeeps ==
  ASSUME Base, lossy' = lossy, NEW c \in ForkIds, AssignValue(c), c = SelfFork
  PROVE  Kept
<1>t. Typed'
  BY AssignValueTyped
<1>e. /\ stage[SelfFork] = "value"
      /\ valued' = valued \cup {inst[SelfFork]}
      /\ stage' = [stage EXCEPT ![SelfFork] = "none"]
      /\ net' = net \cup {Msg("remoteRet", SelfFork, 1)}
      /\ UNCHANGED <<born, owners, made, forks, inst, ownerRef, fetch, loc, parent, alive,
                     held, pendingUsers, confirmedUsers, pendingChildren, deletedOnOwner,
                     timedOut, call, phase>>
  BY ConstAssumption
  DEF Base, ownerVars, userVars, Kinds, Retried, Acks, ForkIds, AssignValue
<1>n. /\ Only({"remoteRet"}) /\ Attempts'
      /\ Flying("remoteRet")' = Flying("remoteRet") \cup {SelfFork}
  <2>1. /\ Typed /\ Attempts /\ "remoteRet" \in Kinds /\ SelfFork \in ForkIds
        /\ 1 \in 1..MaxAttempts
    BY <1>e, ConstAssumption DEF Base, Kinds, Retried, Acks, ForkIds
  <2> QED
    BY <1>e, <2>1, NetAdd DEF Once
<1>q. SelfFork \notin Forks
  BY ConstAssumption
<1>s. \A f \in Forks : Same(f)
  BY <1>e, <1>n, <1>q, ConstAssumption
  DEF Base, Typed, Same, Kinds, Retried, Acks, Open, ForkIds, Only
<1>p. \A f \in Forks : ParentOf(f)'
  BY <1>e, <1>n, <1>q, ConstAssumption
  DEF Base, Typed, Parent, ParentOf, Maps, MapsOf, Unborn, UnbornOf
<1>f. SelfInv'
  BY <1>e, <1>n, <1>q, ConstAssumption
  DEF Base, Typed, SelfInv, Kinds, Retried, Acks, ForkIds, Only
<1>b. NotBorn' /\ Phases'
  BY <1>e, <1>n, <1>q, ConstAssumption
  DEF Base, Typed, NotBorn, Phases, Kinds, Retried, Acks, ForkIds, UnbornOf, SelfInv, Only
<1>B. Base'
  BY <1>t, <1>n, <1>s, <1>p, <1>f, <1>b, <1>e, <1>q, SameKeeps
  DEF Base, Unborn, Maps, Creator, Child, Parent
<1>O. ASSUME OwnerInv, ~ShareUnconfirmed PROVE OwnerInv'
  <2>l. Lone'
    BY <1>O, <1>e, <1>n, <1>q, ConstAssumption
    DEF OwnerInv, Base, Typed, Lone, LoneOf, Unborn, UnbornOf, Kinds, Retried, Acks, Only
  <2>d. Made'
    BY <1>O, <1>e, <1>n, <1>q, ConstAssumption
    DEF OwnerInv, Base, Typed, Made, MadeOf, Instances, Workers, ForkIds, Only
  <2>i. Instances'
    BY <1>O, <1>e, <1>q, ConstAssumption
    DEF OwnerInv, Base, Typed, Instances, Made, MadeOf, ForkIds
  <2>h. OwnerHeld'
    BY <1>O, <1>e, <1>q, ConstAssumption
    DEF OwnerInv, Base, Typed, OwnerHeld, Instances, Workers, ForkIds
  <2> QED
    BY <2>l, <2>d, <2>i, <2>h DEF OwnerInv
<1>C. ASSUME CInv PROVE CInv'
  <2>f. \A f \in Forks : CleanOf(f)'
    BY <1>C, <1>e, <1>s, SameClean DEF CInv, Clean
  <2>v. LeftInv'
    BY <1>C, <1>e, <1>n, <1>q, ConstAssumption
    DEF CInv, LeftInv, Kinds, Retried, Acks, Workers, ForkIds, Only
  <2> QED
    BY <2>f, <2>v DEF CInv, Clean
<1> QED
  BY <1>B, <1>O, <1>C DEF Kept

\* owners_ is written, and the RPC with the child sent.
LEMMA KeepOwnerKeeps ==
  ASSUME Base, lossy' = lossy, NEW c \in Forks, KeepOwner(c)
  PROVE  Kept
<1>t. Typed'
  BY KeepOwnerTyped
<1>e. /\ stage[c] = "prepare"
      /\ owners' = inst[c]
      /\ stage' = [stage EXCEPT ![c] = "none"]
      /\ net' = net \cup {Msg("rpc", c, 1)}
      /\ UNCHANGED <<born, made, valued, forks, inst, ownerRef, fetch, loc, parent, alive,
                     held, pendingUsers, confirmedUsers, pendingChildren, deletedOnOwner,
                     timedOut, call, phase>>
  BY ConstAssumption DEF Base, ownerVars, userVars, Kinds, Retried, Acks, ForkIds, KeepOwner
<1>n. /\ Only({"rpc"}) /\ Attempts'
      /\ Flying("rpc")' = Flying("rpc") \cup {c}
  <2>1. /\ Typed /\ Attempts /\ "rpc" \in Kinds /\ c \in ForkIds
        /\ 1 \in 1..MaxAttempts
    BY <1>e, ConstAssumption DEF Base, Kinds, Retried, Acks, ForkIds
  <2> QED
    BY <1>e, <2>1, NetAdd DEF Once
<1>o. c \in Forks /\ UnbornOf(c) /\ MapsOf(c) /\ CreatorOf(c) /\ ChildOf(c) /\ ParentOf(c)
  BY <1>e DEF Base, Unborn, Maps, Creator, Child, Parent
<1>s. \A f \in Forks \ {c} : Same(f)
  BY <1>e, <1>n, <1>o DEF Base, Typed, Same, Kinds, Retried, Acks, Only, Open
<1>u. UnbornOf(c)'
  BY <1>e, <1>n, <1>o, ConstAssumption DEF Base, Typed, Workers, UnbornOf, MapsOf
<1>m. MapsOf(c)'
  BY <1>e, <1>n, <1>o, ConstAssumption
  DEF Base, Typed, UnbornOf, MapsOf, CreatorOf, ChildOf, Coming, Creating, Only, Workers,
      Only
<1>c. CreatorOf(c)'
  BY <1>e, <1>n, <1>o, ConstAssumption
  DEF Base, Typed, UnbornOf, MapsOf, CreatorOf, ChildOf, Coming, Creating, Only, Only
<1>h. ChildOf(c)'
  BY <1>e, <1>n, <1>o, ConstAssumption
  DEF Base, Typed, UnbornOf, MapsOf, CreatorOf, ChildOf, Coming, Creating, Open, Only
<1>p. \A f \in Forks : ParentOf(f)'
  BY <1>e, <1>n, <1>o, ConstAssumption
  DEF Base, Typed, Parent, ParentOf, Maps, MapsOf, Unborn, UnbornOf, ChildOf
<1>f. SelfInv'
  BY <1>e, <1>n, <1>o, ConstAssumption
  DEF Base, Typed, SelfInv, Kinds, Retried, Acks, ForkIds, Only, ChildOf
<1>b. NotBorn' /\ Phases'
  BY <1>e, <1>n, <1>o, ConstAssumption
  DEF Base, Typed, NotBorn, Phases, Kinds, Retried, Acks, ForkIds, UnbornOf, SelfInv, Only
<1>B. Base'
  BY <1>t, <1>n, <1>s, <1>u, <1>m, <1>c, <1>h, <1>p, <1>f, <1>b, <1>e, SameKeeps
  DEF Base, Unborn, Maps, Creator, Child, Parent
<1>x. /\ stage'[SelfFork] = stage[SelfFork] /\ (SelfFork \in forks' <=> SelfFork \in forks)
      /\ \A j \in Kinds : SelfFork \in Flying(j)' <=> SelfFork \in Flying(j)
  BY <1>e, <1>n, <1>o, ConstAssumption DEF Base, Typed, Kinds, Retried, Acks, ForkIds, Only
<1>O. ASSUME OwnerInv, ~ShareUnconfirmed PROVE OwnerInv'
  <2>r. inst[c] # 0 /\ c \in forks
    BY <1>e, <1>o DEF ChildOf
  <2>l. Lone'
    BY <1>O, <1>e, <1>o, <1>x, <2>r, ConstAssumption
    DEF OwnerInv, Base, Typed, Lone, LoneOf, Unborn, UnbornOf
  <2>d. Made'
    BY <1>O, <1>e, <1>n, <1>o, <2>r, ConstAssumption
    DEF OwnerInv, Base, Typed, Made, MadeOf, Instances, Workers, ForkIds, Only, UnbornOf
  <2>i. Instances'
    BY <1>O, <1>e, <1>o, <2>r, ConstAssumption
    DEF OwnerInv, Base, Typed, Instances, Made, MadeOf, ForkIds
  <2>h. OwnerHeld'
    BY <1>O, <1>e, <1>o, <2>r, ConstAssumption
    DEF OwnerInv, Base, Typed, OwnerHeld, Instances, Workers, ForkIds, ChildOf
  <2> QED
    BY <2>l, <2>d, <2>i, <2>h DEF OwnerInv
<1>C. ASSUME CInv PROVE CInv'
  <2>c. CleanOf(c)'
    BY <1>C, <1>e, <1>n, <1>o, ConstAssumption
    DEF CInv, Clean, CleanOf, MapsOf, CreatorOf, ChildOf, Coming, Creating, Only
  <2>f. \A f \in Forks \ {c} : CleanOf(f)'
    BY <1>C, <1>e, <1>s, SameClean DEF CInv, Clean
  <2>v. LeftInv'
    BY <1>C, <1>e, <1>n, <1>o, ConstAssumption
    DEF CInv, LeftInv, Kinds, Retried, Acks, Workers, ForkIds, Only, UnbornOf
  <2> QED
    BY <2>f, <2>c, <2>v DEF CInv, Clean
<1> QED
  BY <1>B, <1>O, <1>C DEF Kept

\* release_resources(): no tracked child has the fork as its parent.
LEMMA DestroyUserKeeps ==
  ASSUME Base, lossy' = lossy, NEW c \in Forks, DestroyUser(c)
  PROVE  Kept
<1>t. Typed'
  BY DestroyUserTyped
<1>e. /\ c \in alive \ (held \cup pendingUsers)
      /\ \A g \in pendingChildren : parent[g] # c
      /\ alive' = alive \ {c}
      /\ confirmedUsers' = confirmedUsers \ {c}
      /\ deletedOnOwner' = deletedOnOwner \cup {c}
      /\ \A j \in Retried, f \in Forks :
           Open(j, f)' => Open(j, f) \/ (j = "userDelete" /\ f = c)
      /\ \A j \in Retried, f \in Forks \ {c} : Open(j, f)' <=> Open(j, f)
      /\ UNCHANGED <<born, owners, made, valued, forks, stage, inst, ownerRef, fetch, loc,
                     parent, held, pendingUsers, pendingChildren, timedOut, phase>>
  BY ConstAssumption, DelUsersEffect DEF Base, ownerVars, DestroyUser
<1>n. /\ Only({"userDelete"}) /\ Attempts'
      /\ Flying("userDelete")' \subseteq Flying("userDelete") \cup {c}
      /\ Flying("userDelete") \subseteq Flying("userDelete")'
      /\ c \in deletedOnOwner => Flying("userDelete")' = Flying("userDelete")
      /\ c \notin deletedOnOwner /\ phase[loc[c]] # "left" => c \in Flying("userDelete")'
  <2> DEFINE S == {f \in {c} \ deletedOnOwner : phase[loc[f]] # "left"}
  <2>1. Typed /\ Attempts /\ {c} \in SUBSET Forks /\ DelUsers({c})
    BY DEF Base, DestroyUser
  <2>2. Only({"userDelete"}) /\ Attempts' /\ Flying("userDelete")' = Flying("userDelete") \cup S
    BY <2>1, DelUsersEffect
  <2> QED
    BY <2>2
<1>o. c \in Forks /\ UnbornOf(c) /\ MapsOf(c) /\ CreatorOf(c) /\ ChildOf(c) /\ ParentOf(c)
  BY <1>e DEF Base, Unborn, Maps, Creator, Child, Parent
<1>s. \A f \in Forks \ {c} : Same(f)
  BY <1>e, <1>n, <1>o DEF Base, Typed, Same, Kinds, Retried, Acks, Only
<1>u. UnbornOf(c)'
  BY <1>e, <1>n, <1>o, ConstAssumption DEF Base, Typed, Workers, UnbornOf, MapsOf
<1>m. MapsOf(c)'
  BY <1>e, <1>n, <1>o, ConstAssumption
  DEF Base, Typed, UnbornOf, MapsOf, CreatorOf, ChildOf, Coming, Creating, Only, Workers,
      Only
<1>c. CreatorOf(c)'
  BY <1>e, <1>n, <1>o, ConstAssumption
  DEF Base, Typed, UnbornOf, MapsOf, CreatorOf, ChildOf, Coming, Creating, Only, Only
<1>h. ChildOf(c)'
  BY <1>e, <1>n, <1>o, ConstAssumption
  DEF Base, Typed, UnbornOf, MapsOf, CreatorOf, ChildOf, Coming, Creating, Retried, Only
<1>p. \A f \in Forks : ParentOf(f)'
  BY <1>e, <1>n, <1>o, ConstAssumption
  DEF Base, Typed, Parent, ParentOf, Maps, MapsOf, Unborn, UnbornOf, ChildOf
<1>f. SelfInv'
  BY <1>e, <1>n, <1>o, ConstAssumption
  DEF Base, Typed, SelfInv, Kinds, Retried, Acks, ForkIds, Only
<1>b. NotBorn' /\ Phases'
  BY <1>e, <1>n, <1>o, ConstAssumption
  DEF Base, Typed, NotBorn, Phases, Kinds, Retried, Acks, ForkIds, UnbornOf, SelfInv, Only
<1>B. Base'
  BY <1>t, <1>n, <1>s, <1>u, <1>m, <1>c, <1>h, <1>p, <1>f, <1>b, <1>e, SameKeeps
  DEF Base, Unborn, Maps, Creator, Child, Parent
<1>x. /\ stage'[SelfFork] = stage[SelfFork] /\ (SelfFork \in forks' <=> SelfFork \in forks)
      /\ \A j \in Kinds : SelfFork \in Flying(j)' <=> SelfFork \in Flying(j)
  BY <1>e, <1>n, <1>o, ConstAssumption DEF Base, Typed, Kinds, Retried, Acks, ForkIds, Only
<1>O. ASSUME OwnerInv, ~ShareUnconfirmed PROVE OwnerInv'
  <2>l. Lone'
    BY <1>O, <1>e, <1>o, <1>x, ConstAssumption
    DEF OwnerInv, Base, Typed, Lone, LoneOf, Unborn, UnbornOf
  <2>d. Made'
    BY <1>O, <1>e, <1>n, <1>o, ConstAssumption
    DEF OwnerInv, Base, Typed, Made, MadeOf, Instances, Workers, ForkIds, Only, UnbornOf
  <2>i. Instances'
    BY <1>O, <1>e, <1>o, ConstAssumption
    DEF OwnerInv, Base, Typed, Instances, Made, MadeOf, ForkIds
  <2>h. OwnerHeld'
    BY <1>O, <1>e, <1>o, ConstAssumption
    DEF OwnerInv, Base, Typed, OwnerHeld, Instances, Workers, ForkIds, ChildOf
  <2> QED
    BY <2>l, <2>d, <2>i, <2>h DEF OwnerInv
<1>C. ASSUME CInv PROVE CInv'
  <2>c. CleanOf(c)'
    BY <1>C, <1>e, <1>n, <1>o, ConstAssumption
    DEF CInv, Clean, CleanOf, MapsOf, CreatorOf, ChildOf, Coming, Creating, Only
  <2>f. \A f \in Forks \ {c} : CleanOf(f)'
    BY <1>C, <1>e, <1>s, SameClean DEF CInv, Clean
  <2>v. LeftInv'
    <3>1. ASSUME ~lossy, phase[Owner] = "left" PROVE c \in deletedOnOwner
      BY <1>C, <1>e, <1>o, <3>1 DEF CInv, Clean, CleanOf, LeftInv, MapsOf, Workers
    <3> QED
      BY <1>C, <1>e, <1>n, <3>1 DEF CInv, LeftInv, Kinds, Retried, Acks, Only
  <2> QED
    BY <2>f, <2>c, <2>v DEF CInv, Clean
<1> QED
  BY <1>B, <1>O, <1>C DEF Kept

\* A fetch looks up the OwnerRRef; its fork is not being prepared.
LEMMA RetrieveOwnerRRefKeeps ==
  ASSUME Base, lossy' = lossy, NEW c \in Forks, RetrieveOwnerRRef(c)
  PROVE  Kept
<1>t. Typed'
  BY RetrieveOwnerRRefTyped
<1>e. /\ fetch[c] = "sent"
      /\ fetch' = [fetch EXCEPT ![c] = IF owners = 0 THEN "waitOwner" ELSE "waitValue"]
      /\ inst' = [inst EXCEPT ![c] = owners]
      /\ UNCHANGED <<born, owners, made, valued, forks, stage, ownerRef, loc, parent, alive,
                     held, pendingUsers, confirmedUsers, pendingChildren, deletedOnOwner,
                     timedOut, call, phase, net>>
  BY ConstAssumption
  DEF Base, ownerVars, userVars, Kinds, Retried, Acks, ForkIds, RetrieveOwnerRRef, SetFetch
<1>n. /\ Only({}) /\ Attempts'
  BY <1>e, NetSame DEF Base
<1>o. c \in Forks /\ UnbornOf(c) /\ MapsOf(c) /\ CreatorOf(c) /\ ChildOf(c) /\ ParentOf(c)
  BY <1>e DEF Base, Unborn, Maps, Creator, Child, Parent
<1>s. \A f \in Forks \ {c} : Same(f)
  BY <1>e, <1>n, <1>o DEF Base, Typed, Same, Kinds, Retried, Acks, Only, Open, ForkIds
<1>u. UnbornOf(c)'
  BY <1>e, <1>n, <1>o, ConstAssumption DEF Base, Typed, Workers, UnbornOf, MapsOf
<1>m. MapsOf(c)'
  BY <1>e, <1>n, <1>o, ConstAssumption
  DEF Base, Typed, UnbornOf, MapsOf, CreatorOf, ChildOf, Coming, Creating, Only, Workers,
      Only
<1>c. CreatorOf(c)'
  BY <1>e, <1>n, <1>o, ConstAssumption
  DEF Base, Typed, UnbornOf, MapsOf, CreatorOf, ChildOf, Coming, Creating, Only, Only
<1>h. ChildOf(c)'
  BY <1>e, <1>n, <1>o, ConstAssumption
  DEF Base, Typed, UnbornOf, MapsOf, CreatorOf, ChildOf, Coming, Creating, Open, Only
<1>p. \A f \in Forks : ParentOf(f)'
  BY <1>e, <1>n, <1>o, ConstAssumption
  DEF Base, Typed, Parent, ParentOf, Maps, MapsOf, Unborn, UnbornOf, ChildOf
<1>f. SelfInv'
  BY <1>e, <1>n, <1>o, ConstAssumption
  DEF Base, Typed, SelfInv, Kinds, Retried, Acks, ForkIds, Only
<1>b. NotBorn' /\ Phases'
  BY <1>e, <1>n, <1>o, ConstAssumption
  DEF Base, Typed, NotBorn, Phases, Kinds, Retried, Acks, ForkIds, UnbornOf, SelfInv, Only
<1>B. Base'
  BY <1>t, <1>n, <1>s, <1>u, <1>m, <1>c, <1>h, <1>p, <1>f, <1>b, <1>e, SameKeeps
  DEF Base, Unborn, Maps, Creator, Child, Parent
<1>x. /\ stage'[SelfFork] = stage[SelfFork] /\ (SelfFork \in forks' <=> SelfFork \in forks)
      /\ \A j \in Kinds : SelfFork \in Flying(j)' <=> SelfFork \in Flying(j)
  BY <1>e, <1>n, <1>o, ConstAssumption DEF Base, Typed, Kinds, Retried, Acks, ForkIds, Only
<1>O. ASSUME OwnerInv, ~ShareUnconfirmed PROVE OwnerInv'
  <2>l. Lone'
    BY <1>O, <1>e, <1>o, <1>x, ConstAssumption
    DEF OwnerInv, Base, Typed, Lone, LoneOf, Unborn, UnbornOf
  <2>d. Made'
    BY <1>O, <1>e, <1>n, <1>o, ConstAssumption
    DEF OwnerInv, Base, Typed, Made, MadeOf, Instances, Workers, ForkIds, Only, UnbornOf
  <2>i. Instances'
    BY <1>O, <1>e, <1>o, ConstAssumption
    DEF OwnerInv, Base, Typed, Instances, Made, MadeOf, ForkIds
  <2>h. OwnerHeld'
    BY <1>O, <1>e, <1>o, ConstAssumption
    DEF OwnerInv, Base, Typed, OwnerHeld, Instances, Workers, ForkIds, ChildOf
  <2> QED
    BY <2>l, <2>d, <2>i, <2>h DEF OwnerInv
<1>C. ASSUME CInv PROVE CInv'
  <2>c. CleanOf(c)'
    BY <1>C, <1>e, <1>n, <1>o, ConstAssumption
    DEF CInv, Clean, CleanOf, MapsOf, CreatorOf, ChildOf, Coming, Creating, Only
  <2>f. \A f \in Forks \ {c} : CleanOf(f)'
    BY <1>C, <1>e, <1>s, SameClean DEF CInv, Clean
  <2>v. LeftInv'
    BY <1>C, <1>e, <1>n, <1>o, ConstAssumption
    DEF CInv, LeftInv, Kinds, Retried, Acks, Workers, ForkIds, Only, UnbornOf
  <2> QED
    BY <2>f, <2>c, <2>v DEF CInv, Clean
<1> QED
  BY <1>B, <1>O, <1>C DEF Kept

\* A fetch returns.
LEMMA FetchReturnsKeeps ==
  ASSUME Base, lossy' = lossy, NEW c \in Forks, FetchReturns(c)
  PROVE  Kept
<1>t. Typed'
  BY FetchReturnsTyped
<1>e. /\ fetch[c] = "waitValue"
      /\ fetch' = [fetch EXCEPT ![c] = "no"]
      /\ inst' = [inst EXCEPT ![c] = 0]
      /\ UNCHANGED <<born, owners, made, valued, forks, stage, ownerRef, loc, parent, alive,
                     held, pendingUsers, confirmedUsers, pendingChildren, deletedOnOwner,
                     timedOut, call, phase, net>>
  BY ConstAssumption
  DEF Base, ownerVars, userVars, Kinds, Retried, Acks, ForkIds, FetchReturns, SetFetch
<1>n. /\ Only({}) /\ Attempts'
  BY <1>e, NetSame DEF Base
<1>o. c \in Forks /\ UnbornOf(c) /\ MapsOf(c) /\ CreatorOf(c) /\ ChildOf(c) /\ ParentOf(c)
  BY <1>e DEF Base, Unborn, Maps, Creator, Child, Parent
<1>s. \A f \in Forks \ {c} : Same(f)
  BY <1>e, <1>n, <1>o DEF Base, Typed, Same, Kinds, Retried, Acks, Only, Open, ForkIds
<1>u. UnbornOf(c)'
  BY <1>e, <1>n, <1>o, ConstAssumption DEF Base, Typed, Workers, UnbornOf, MapsOf
<1>m. MapsOf(c)'
  BY <1>e, <1>n, <1>o, ConstAssumption
  DEF Base, Typed, UnbornOf, MapsOf, CreatorOf, ChildOf, Coming, Creating, Only, Workers,
      Only
<1>c. CreatorOf(c)'
  BY <1>e, <1>n, <1>o, ConstAssumption
  DEF Base, Typed, UnbornOf, MapsOf, CreatorOf, ChildOf, Coming, Creating, Only, Only
<1>h. ChildOf(c)'
  BY <1>e, <1>n, <1>o, ConstAssumption
  DEF Base, Typed, UnbornOf, MapsOf, CreatorOf, ChildOf, Coming, Creating, Open, Only
<1>p. \A f \in Forks : ParentOf(f)'
  BY <1>e, <1>n, <1>o, ConstAssumption
  DEF Base, Typed, Parent, ParentOf, Maps, MapsOf, Unborn, UnbornOf, ChildOf
<1>f. SelfInv'
  BY <1>e, <1>n, <1>o, ConstAssumption
  DEF Base, Typed, SelfInv, Kinds, Retried, Acks, ForkIds, Only
<1>b. NotBorn' /\ Phases'
  BY <1>e, <1>n, <1>o, ConstAssumption
  DEF Base, Typed, NotBorn, Phases, Kinds, Retried, Acks, ForkIds, UnbornOf, SelfInv, Only
<1>B. Base'
  BY <1>t, <1>n, <1>s, <1>u, <1>m, <1>c, <1>h, <1>p, <1>f, <1>b, <1>e, SameKeeps
  DEF Base, Unborn, Maps, Creator, Child, Parent
<1>x. /\ stage'[SelfFork] = stage[SelfFork] /\ (SelfFork \in forks' <=> SelfFork \in forks)
      /\ \A j \in Kinds : SelfFork \in Flying(j)' <=> SelfFork \in Flying(j)
  BY <1>e, <1>n, <1>o, ConstAssumption DEF Base, Typed, Kinds, Retried, Acks, ForkIds, Only
<1>O. ASSUME OwnerInv, ~ShareUnconfirmed PROVE OwnerInv'
  <2>l. Lone'
    BY <1>O, <1>e, <1>o, <1>x, ConstAssumption
    DEF OwnerInv, Base, Typed, Lone, LoneOf, Unborn, UnbornOf
  <2>d. Made'
    BY <1>O, <1>e, <1>n, <1>o, ConstAssumption
    DEF OwnerInv, Base, Typed, Made, MadeOf, Instances, Workers, ForkIds, Only, UnbornOf
  <2>i. Instances'
    BY <1>O, <1>e, <1>o, ConstAssumption
    DEF OwnerInv, Base, Typed, Instances, Made, MadeOf, ForkIds
  <2>h. OwnerHeld'
    BY <1>O, <1>e, <1>o, ConstAssumption
    DEF OwnerInv, Base, Typed, OwnerHeld, Instances, Workers, ForkIds, ChildOf
  <2> QED
    BY <2>l, <2>d, <2>i, <2>h DEF OwnerInv
<1>C. ASSUME CInv PROVE CInv'
  <2>c. CleanOf(c)'
    BY <1>C, <1>e, <1>n, <1>o, ConstAssumption
    DEF CInv, Clean, CleanOf, MapsOf, CreatorOf, ChildOf, Coming, Creating, Only
  <2>f. \A f \in Forks \ {c} : CleanOf(f)'
    BY <1>C, <1>e, <1>s, SameClean DEF CInv, Clean
  <2>v. LeftInv'
    BY <1>C, <1>e, <1>n, <1>o, ConstAssumption
    DEF CInv, LeftInv, Kinds, Retried, Acks, Workers, ForkIds, Only, UnbornOf
  <2> QED
    BY <2>f, <2>c, <2>v DEF CInv, Clean
<1> QED
  BY <1>B, <1>O, <1>C DEF Kept

\* A worker joins: it has no pending or confirmed UserRRef.
LEMMA WaitForOwnersKeeps ==
  ASSUME Base, lossy' = lossy, NEW w \in Workers, WaitForOwners(w)
  PROVE  Kept
<1>t. Typed'
  BY WaitForOwnersTyped
<1>e. /\ phase[w] = "wait"
      /\ phase' = [phase EXCEPT ![w] = "join"]
      /\ UNCHANGED <<born, owners, made, valued, forks, stage, inst, ownerRef, fetch, loc,
                     parent, alive, held, pendingUsers, confirmedUsers, pendingChildren,
                     deletedOnOwner, timedOut, call, net>>
  BY ConstAssumption
  DEF Base, ownerVars, userVars, Kinds, Retried, Acks, ForkIds, WaitForOwners
<1>n. /\ Only({}) /\ Attempts'
  BY <1>e, NetSame DEF Base
<1>q. \A f \in Forks : ~Coming(f)
  <2>1. phase[Owner] # "run"
    BY <1>e DEF Base, Phases, Workers
  <2> QED
    BY <2>1 DEF Base, Child, ChildOf
<1>s. \A f \in Forks : Same(f)
  BY <1>e, <1>n, <1>q, ConstAssumption
  DEF Base, Typed, Same, Kinds, Retried, Acks, Open, ForkIds, Only
<1>p. \A f \in Forks : ParentOf(f)'
  BY <1>e, <1>n, <1>q, ConstAssumption
  DEF Base, Typed, Parent, ParentOf, Maps, MapsOf, Unborn, UnbornOf
<1>f. SelfInv'
  BY <1>e, <1>n, <1>q, ConstAssumption
  DEF Base, Typed, SelfInv, Kinds, Retried, Acks, ForkIds, Only
<1>b. NotBorn' /\ Phases'
  BY <1>e, <1>n, <1>q, ConstAssumption
  DEF Base, Typed, NotBorn, Phases, Kinds, Retried, Acks, ForkIds, UnbornOf, SelfInv, Only
<1>B. Base'
  BY <1>t, <1>n, <1>s, <1>p, <1>f, <1>b, <1>e, <1>q, SameKeeps
  DEF Base, Unborn, Maps, Creator, Child, Parent
<1>O. ASSUME OwnerInv, ~ShareUnconfirmed PROVE OwnerInv'
  <2>l. Lone'
    BY <1>O, <1>e, <1>n, <1>q, ConstAssumption
    DEF OwnerInv, Base, Typed, Lone, LoneOf, Unborn, UnbornOf, Kinds, Retried, Acks, Only
  <2>d. Made'
    BY <1>O, <1>e, <1>n, <1>q, ConstAssumption
    DEF OwnerInv, Base, Typed, Made, MadeOf, Instances, Workers, ForkIds, Only
  <2>i. Instances'
    BY <1>O, <1>e, <1>q, ConstAssumption
    DEF OwnerInv, Base, Typed, Instances, Made, MadeOf, ForkIds
  <2>h. OwnerHeld'
    BY <1>O, <1>e, <1>q, ConstAssumption
    DEF OwnerInv, Base, Typed, OwnerHeld, Instances, Workers, ForkIds
  <2> QED
    BY <2>l, <2>d, <2>i, <2>h DEF OwnerInv
<1>C. ASSUME CInv PROVE CInv'
  <2>f. \A f \in Forks : CleanOf(f)'
    <3> SUFFICES ASSUME NEW f \in Forks PROVE CleanOf(f)'
      OBVIOUS
    <3>1. CleanOf(f) /\ MapsOf(f)
      BY <1>C DEF CInv, Clean, Base, Maps
    <3>2. f \in pendingUsers \cup confirmedUsers /\ ~lossy => phase'[loc[f]] \in {"run", "drain"}
      BY <1>e, <3>1 DEF CleanOf, MapsOf, Workers, Base, Typed
    <3> QED
      BY <1>s, <3>1, <3>2, SameClean
  <2>v. LeftInv'
    BY <1>C, <1>e, <1>n, <1>q, ConstAssumption
    DEF CInv, LeftInv, Kinds, Retried, Acks, Workers, ForkIds, Only
  <2> QED
    BY <2>f, <2>v DEF CInv, Clean
<1> QED
  BY <1>B, <1>O, <1>C DEF Kept

\* A worker leaves: nothing is in flight, so on a reliable network no fork is left.
LEMMA LeaveKeeps ==
  ASSUME Base, lossy' = lossy, NEW w \in Workers, Leave(w)
  PROVE  Kept
<1>t. Typed'
  BY LeaveTyped
<1>e. /\ phase[w] = "join"
      /\ \A v \in Workers : phase[v] \in {"join", "left"}
      /\ net = {}
      /\ \A f \in ForkIds : stage[f] = "none"
      /\ phase' = [phase EXCEPT ![w] = "left"]
      /\ owners' = IF w = Owner THEN 0 ELSE owners
      /\ UNCHANGED <<born, made, valued, forks, stage, inst, ownerRef, fetch, loc, parent,
                     alive, held, pendingUsers, confirmedUsers, pendingChildren,
                     deletedOnOwner, timedOut, call, net>>
  BY ConstAssumption DEF Base, ownerVars, userVars, Kinds, Retried, Acks, ForkIds, Leave
<1>n. /\ Only({}) /\ Attempts'
  BY <1>e, NetSame DEF Base
<1>q. (\A f \in Forks : ~Coming(f)) /\ \A k \in Kinds : Flying(k) = {}
  <2>1. phase[Owner] # "run"
    BY <1>e DEF Base, Phases, Workers
  <2>2. \A k \in Kinds : Flying(k) = {}
    BY <1>e DEF Flying
  <2> QED
    BY <2>1, <2>2 DEF Base, Child, ChildOf
<1>s. \A f \in Forks : Same(f)
  BY <1>e, <1>n, <1>q, ConstAssumption
  DEF Base, Typed, Same, Kinds, Retried, Acks, Open, ForkIds, Only
<1>p. \A f \in Forks : ParentOf(f)'
  BY <1>e, <1>n, <1>q, ConstAssumption
  DEF Base, Typed, Parent, ParentOf, Maps, MapsOf, Unborn, UnbornOf
<1>f. SelfInv'
  BY <1>e, <1>n, <1>q, ConstAssumption
  DEF Base, Typed, SelfInv, Kinds, Retried, Acks, ForkIds, Only
<1>b. NotBorn' /\ Phases'
  BY <1>e, <1>n, <1>q, ConstAssumption
  DEF Base, Typed, NotBorn, Phases, Kinds, Retried, Acks, ForkIds, UnbornOf, SelfInv, Only
<1>B. Base'
  BY <1>t, <1>n, <1>s, <1>p, <1>f, <1>b, <1>e, <1>q, SameKeeps
  DEF Base, Unborn, Maps, Creator, Child, Parent
<1>O. ASSUME OwnerInv, ~ShareUnconfirmed PROVE OwnerInv'
  <2>l. Lone'
    BY <1>O, <1>e, <1>n, <1>q, ConstAssumption
    DEF OwnerInv, Base, Typed, Lone, LoneOf, Unborn, UnbornOf, Kinds, Retried, Acks, Only
  <2>d. Made'
    BY <1>O, <1>e, <1>n, <1>q, ConstAssumption
    DEF OwnerInv, Base, Typed, Made, MadeOf, Instances, Workers, ForkIds, Only
  <2>i. Instances'
    BY <1>O, <1>e, <1>q, ConstAssumption
    DEF OwnerInv, Base, Typed, Instances, Made, MadeOf, ForkIds
  <2>h. OwnerHeld'
    BY <1>O, <1>e, <1>q, ConstAssumption
    DEF OwnerInv, Base, Typed, OwnerHeld, Instances, Workers, ForkIds
  <2> QED
    BY <2>l, <2>d, <2>i, <2>h DEF OwnerInv
<1>C. ASSUME CInv PROVE CInv'
  <2>f. \A f \in Forks : CleanOf(f)'
    <3> SUFFICES ASSUME NEW f \in Forks PROVE CleanOf(f)'
      OBVIOUS
    <3>1. CleanOf(f) /\ MapsOf(f)
      BY <1>C DEF CInv, Clean, Base, Maps
    <3>2. f \in pendingUsers \cup confirmedUsers /\ ~lossy => phase'[loc[f]] \in {"run", "drain"}
      BY <1>e, <3>1 DEF CleanOf, MapsOf, Workers, Base, Typed
    <3> QED
      BY <1>s, <3>1, <3>2, SameClean
  <2>v. LeftInv'
    <3>1. ASSUME ~lossy, NEW f \in forks PROVE FALSE
      <4>1. f # SelfFork
        BY <1>e, <1>q, <3>1 DEF Base, SelfInv, Kinds, ForkIds
      <4>2. f \in Forks /\ CleanOf(f) /\ MapsOf(f)
        BY <1>C, <3>1, <4>1 DEF CInv, Clean, Base, Typed, ForkIds, Maps
      <4>3. f \in pendingUsers \cup confirmedUsers
        BY <1>q, <3>1, <4>2 DEF CleanOf, Kinds, Retried
      <4> QED
        BY <1>e, <3>1, <4>2, <4>3 DEF CleanOf, MapsOf, Workers
    <3> QED
      BY <1>C, <1>e, <1>n, <1>q, <3>1
      DEF CInv, LeftInv, Kinds, Retried, Acks, Workers, Base, Typed, Only
  <2> QED
    BY <2>f, <2>v DEF CInv, Clean
<1> QED
  BY <1>B, <1>O, <1>C DEF Kept

\* Nothing changes.
LEMMA StutterKeeps ==
  ASSUME Base, lossy' = lossy, UNCHANGED vars
  PROVE  Kept
<1>t. Typed'
  BY StutterTyped
<1>e. /\ UNCHANGED <<born, owners, made, valued, forks, stage, inst, ownerRef, fetch, loc,
                     parent, alive, held, pendingUsers, confirmedUsers, pendingChildren,
                     deletedOnOwner, timedOut, call, phase, net>>
  BY ConstAssumption
  DEF Base, ownerVars, userVars, Kinds, Retried, Acks, ForkIds, vars, protocolVars
<1>n. /\ Only({}) /\ Attempts'
  BY <1>e, NetSame DEF Base
<1>s. \A f \in Forks : Same(f)
  BY <1>e, <1>n, ConstAssumption
  DEF Base, Typed, Same, Kinds, Retried, Acks, Open, ForkIds, Only
<1>p. \A f \in Forks : ParentOf(f)'
  BY <1>e, <1>n, ConstAssumption
  DEF Base, Typed, Parent, ParentOf, Maps, MapsOf, Unborn, UnbornOf
<1>f. SelfInv'
  BY <1>e, <1>n, ConstAssumption
  DEF Base, Typed, SelfInv, Kinds, Retried, Acks, ForkIds, Only
<1>b. NotBorn' /\ Phases'
  BY <1>e, <1>n, ConstAssumption
  DEF Base, Typed, NotBorn, Phases, Kinds, Retried, Acks, ForkIds, UnbornOf, SelfInv, Only
<1>B. Base'
  BY <1>t, <1>n, <1>s, <1>p, <1>f, <1>b, <1>e, SameKeeps
  DEF Base, Unborn, Maps, Creator, Child, Parent
<1>O. ASSUME OwnerInv, ~ShareUnconfirmed PROVE OwnerInv'
  <2>l. Lone'
    BY <1>O, <1>e, <1>n, ConstAssumption
    DEF OwnerInv, Base, Typed, Lone, LoneOf, Unborn, UnbornOf, Kinds, Retried, Acks, Only
  <2>d. Made'
    BY <1>O, <1>e, <1>n, ConstAssumption
    DEF OwnerInv, Base, Typed, Made, MadeOf, Instances, Workers, ForkIds, Only
  <2>i. Instances'
    BY <1>O, <1>e, ConstAssumption
    DEF OwnerInv, Base, Typed, Instances, Made, MadeOf, ForkIds
  <2>h. OwnerHeld'
    BY <1>O, <1>e, ConstAssumption
    DEF OwnerInv, Base, Typed, OwnerHeld, Instances, Workers, ForkIds
  <2> QED
    BY <2>l, <2>d, <2>i, <2>h DEF OwnerInv
<1>C. ASSUME CInv PROVE CInv'
  <2>f. \A f \in Forks : CleanOf(f)'
    BY <1>C, <1>e, <1>s, SameClean DEF CInv, Clean
  <2>v. LeftInv'
    BY <1>C, <1>e, <1>n, ConstAssumption
    DEF CInv, LeftInv, Kinds, Retried, Acks, Workers, ForkIds, Only
  <2> QED
    BY <2>f, <2>v DEF CInv, Clean
<1> QED
  BY <1>B, <1>O, <1>C DEF Kept

\* delAllUsersAndUnforkedOwners: all confirmed UserRRefs of the worker are deleted,
\* whose phase then says that their children may outlive them.
LEMMA DelAllUsersKeeps ==
  ASSUME Base, lossy' = lossy, NEW w \in Workers, DelAllUsers(w)
  PROVE  Kept
<1> DEFINE Here == {f \in Forks : loc[f] = w}
           G == confirmedUsers \cap Here
<1>t. Typed'
  BY DelAllUsersTyped
<1>e. /\ phase[w] = "drain" /\ phase' = [phase EXCEPT ![w] = "wait"]
      /\ \/ lossy
         \/ pendingUsers \cap Here = {} /\ \A c \in pendingChildren : parent[c] \notin Here
      /\ confirmedUsers' = confirmedUsers \ Here
      /\ DelUsers(G)
      /\ owners' = IF w = Owner /\ forks = {} THEN 0 ELSE owners
      /\ UNCHANGED <<born, made, valued, forks, stage, inst, ownerRef, fetch, loc, parent,
                     alive, held, pendingUsers, pendingChildren, timedOut>>
  BY DEF DelAllUsers
<1>g. /\ G \in SUBSET Forks
      /\ \A f \in G : f \in confirmedUsers \ deletedOnOwner /\ loc[f] = w
      /\ \A f \in Forks \ G : f \in confirmedUsers' <=> f \in confirmedUsers
      /\ \A f \in G : f \notin confirmedUsers'
  BY <1>e DEF Base, Typed, Maps, MapsOf
<1>n. /\ deletedOnOwner' = deletedOnOwner \cup G
      /\ Flying("userDelete")' = Flying("userDelete") \cup G
      /\ Only({"userDelete"})
      /\ Attempts'
      /\ \A j \in Retried, f \in Forks : Open(j, f)' <=> Open(j, f) \/ (j = "userDelete" /\ f \in G)
  <2> HIDE DEF G
  <2>1. {f \in G \ deletedOnOwner : phase[loc[f]] # "left"} = G
    BY <1>e, <1>g
  <2>2. Typed /\ Attempts /\ G \in SUBSET Forks
    BY <1>g DEF Base
  <2> QED
    BY <1>e, <2>1, <2>2, DelUsersEffect
<1>r. phase[Owner] # "run" /\ phase'[Owner] # "run" /\ \A f \in Forks : ~Coming(f)
  <2>1. phase[Owner] # "run"
    BY <1>e DEF Base, Phases, Workers
  <2> QED
    BY <1>e, <2>1 DEF Base, Typed, Child, ChildOf
<1> HIDE DEF G
<1>s. \A f \in Forks \ G : Same(f)
  BY <1>e, <1>g, <1>n DEF Base, Typed, Same, Kinds, Retried, Acks, Only
<1>u. ASSUME NEW f \in G PROVE UnbornOf(f)' /\ MapsOf(f)' /\ CreatorOf(f)' /\ ChildOf(f)'
  <2>1. /\ f \in Forks /\ UnbornOf(f) /\ MapsOf(f) /\ CreatorOf(f) /\ ChildOf(f) /\ ~Coming(f)
        /\ f \in confirmedUsers \ deletedOnOwner /\ loc[f] = w
    BY <1>g, <1>r DEF Base, Unborn, Maps, Creator, Child
  <2>2. /\ \A j \in {"forkRequest", "childAccept", "forkAck", "remoteCall", "remoteRet", "rpc"} :
             Flying(j)' = Flying(j)
        /\ f \in deletedOnOwner' /\ f \notin confirmedUsers'
    BY <1>g, <1>n DEF Only
  <2>3. ~Coming(f)' /\ (Creating(f)' <=> Creating(f))
    BY <1>e, <2>1, <2>2 DEF Coming, Creating
  <2>4. UnbornOf(f)'
    BY <1>e, <2>1, ConstAssumption DEF UnbornOf, Workers
  <2>5. MapsOf(f)'
    BY <1>e, <2>1, <2>2, <2>3 DEF MapsOf
  <2>6. CreatorOf(f)'
    BY <1>e, <2>1, <2>2, <2>3 DEF CreatorOf
  <2>7. ChildOf(f)'
    BY <1>e, <1>n, <2>1, <2>2, <2>3 DEF ChildOf, Retried, Coming
  <2> QED
    BY <2>4, <2>5, <2>6, <2>7
<1>p. \A f \in Forks : ParentOf(f)'
  <2> SUFFICES ASSUME NEW f \in Forks PROVE ParentOf(f)'
    OBVIOUS
  <2>1. ParentOf(f) /\ (f \in pendingChildren => loc[parent[f]] \in Workers)
    BY DEF Base, Typed, Parent, ParentOf, Maps, MapsOf, Workers
  <2>2. ASSUME f \in pendingChildren, phase'[loc[parent[f]]] \in {"run", "drain"}
        PROVE  parent[f] \notin deletedOnOwner \cup G
    BY <1>e, <1>g, <2>1, <2>2 DEF ParentOf, Base, Typed
  <2> QED
    BY <1>e, <1>n, <2>1, <2>2 DEF ParentOf
<1>f. SelfInv'
  BY <1>e, <1>g, <1>n, ConstAssumption
  DEF Base, Typed, SelfInv, Kinds, Retried, Acks, Only, ForkIds
<1>b. NotBorn' /\ Phases'
  <2>1. ~born => G = {}
    BY <1>g, ConstAssumption DEF Base, NotBorn, Workers
  <2> QED
    BY <1>e, <1>n, <1>r, <2>1
    DEF Base, Typed, NotBorn, Phases, Workers, Kinds, Retried, Acks, Only
<1>B. Base'
  <2>1. \A f \in Forks : UnbornOf(f)' /\ MapsOf(f)' /\ CreatorOf(f)' /\ ChildOf(f)'
    BY <1>s, <1>u, <1>r, SameKeeps DEF Base, Unborn, Maps, Creator, Child
  <2> QED
    BY <1>t, <1>n, <1>p, <1>f, <1>b, <2>1 DEF Base, Unborn, Maps, Creator, Child, Parent
<1>O. ASSUME OwnerInv, ~ShareUnconfirmed PROVE OwnerInv'
  <2>l. Lone'
    BY <1>O, <1>e, <1>g, <1>n, ConstAssumption
    DEF OwnerInv, Lone, LoneOf, Kinds, Retried, Acks, Only
  <2>d. Made'
    BY <1>O, <1>e, <1>r, <1>n DEF OwnerInv, Made, MadeOf, Kinds, Retried, Acks, Only
  <2>i. Instances'
    BY <1>O, <1>e DEF OwnerInv, Instances, Base, Typed
  <2>h. OwnerHeld'
    BY <1>O, <1>e, <1>r DEF OwnerInv, OwnerHeld
  <2> QED
    BY <2>l, <2>d, <2>i, <2>h DEF OwnerInv
<1>C. ASSUME CInv PROVE CInv'
  <2>1. ASSUME NEW f \in G PROVE CleanOf(f)'
    <3>1. f \in Forks /\ CleanOf(f) /\ MapsOf(f) /\ f \in confirmedUsers
      BY <1>C, <1>g DEF CInv, Clean, Base, Maps
    <3> QED
      BY <1>e, <1>g, <1>n, <3>1 DEF CleanOf, MapsOf, Kinds, Retried, Acks, Only
  <2>2. ASSUME NEW f \in Forks \ G PROVE CleanOf(f)'
    <3>1. CleanOf(f)
      BY <1>C DEF CInv, Clean
    <3>2. f \in pendingUsers \cup confirmedUsers /\ ~lossy => phase'[loc[f]] \in {"run", "drain"}
      BY <1>e, <3>1 DEF CleanOf, G, Base, Typed
    <3> QED
      BY <1>s, <3>1, <3>2, SameClean
  <2>3. LeftInv'
    BY <1>C, <1>e DEF CInv, LeftInv, Base, Typed
  <2> QED
    BY <2>1, <2>2, <2>3 DEF CInv, Clean
<1> QED
  BY <1>B, <1>O, <1>C DEF Kept

\* Every handler.
LEMMA DeliverKeeps ==
  ASSUME Base, lossy' = lossy, NEW m \in net, Deliver(m)
  PROVE  Kept
<1>1. CASE RecvRemoteCall(m)
  BY <1>1, RecvRemoteCallKeeps
<1>2. CASE RecvSelfCall(m)
  BY <1>2, SelfCallFindsKeeps, SelfCallFailsKeeps
<1>3. CASE RecvSelfRet(m)
  BY <1>3, RecvSelfRetKeeps
<1>4. CASE RecvRemoteRet(m)
  BY <1>4, RemoteRetLateKeeps, RemoteRetConfirmsKeeps
<1>5. CASE RecvForkRequest(m)
  BY <1>5, RecvForkRequestKeeps
<1>6. CASE RecvUserDelete(m)
  BY <1>6, RecvUserDeleteKeeps
<1>7. CASE RecvChildAccept(m)
  BY <1>7, RecvChildAcceptKeeps
<1>8. CASE RecvRpcAtOwner(m)
  BY <1>8, OwnRpcAtOwnerKeeps, UserRpcAtOwnerKeeps
<1>9. CASE RecvRpcAtUser(m)
  BY <1>9, OwnerRpcAtUserKeeps, UserRpcAtUserKeeps
<1>10. CASE RecvForkAck(m)
  BY <1>10, ForkAckStaleKeeps, ForkAckConfirmsKeeps
<1>11. CASE RecvAck(m, "childAccept", "acceptAck")
  <2>1. "childAccept" \in Retried /\ "acceptAck" \in Acks
    BY DEF Retried, Acks
  <2> QED
    BY <1>11, <2>1, AcceptAckKeeps
<1>12. CASE RecvAck(m, "userDelete", "deleteAck")
  <2>1. "userDelete" \in Retried /\ "deleteAck" \in Acks
    BY DEF Retried, Acks
  <2> QED
    BY <1>12, <2>1, DeleteAckKeeps
<1> QED
  BY <1>1, <1>2, <1>3, <1>4, <1>5, <1>6, <1>7, <1>8, <1>9, <1>10, <1>11, <1>12 DEF Deliver

\* Everything the runtime does for one fork.
LEMMA ProgressKeeps ==
  ASSUME Base, lossy' = lossy, NEW f \in ForkIds, Progress(f)
  PROVE  Kept
<1>0. f \in Forks \/ f = SelfFork
  BY DEF ForkIds
<1>1. CASE \E m \in net : m.fork = f /\ Deliver(m)
  BY <1>1, DeliverKeeps
<1>2. CASE AddForkOfOwner(f)
  <2>1. f # SelfFork
    BY <1>2 DEF AddForkOfOwner, Base, SelfInv
  <2> QED
    BY <1>0, <1>2, <2>1, AddForkOfOwnerKeeps
<1>3. CASE AssignValue(f)
  BY <1>0, <1>3, AssignValueKeeps, AssignSelfKeeps
<1>4. CASE f \in Forks /\ KeepOwner(f)
  BY <1>4, KeepOwnerKeeps
<1>5. CASE f \in Forks /\ DestroyUser(f)
  BY <1>5, DestroyUserKeeps
<1> QED
  BY <1>1, <1>2, <1>3, <1>4, <1>5 DEF Progress

\* Everything user code does.
LEMMA UserCodeKeeps ==
  ASSUME Base, lossy' = lossy, UserCode
  PROVE  Kept
<1>1. CASE \E u \in Users, f \in Forks : Remote(u, f)
  BY <1>1, RemoteKeeps
<1>2. CASE RemoteSelf
  BY <1>2, RemoteSelfKeeps
<1>3. CASE CreateLocal
  BY <1>3, CreateLocalKeeps
<1>4. CASE \E f, c \in Forks, w \in Workers : ShareFromUser(f, c, w)
  BY <1>4, ShareFromUserKeeps
<1>5. CASE \E c \in Forks, w \in Workers : ShareFromOwner(c, w)
  BY <1>5, ShareFromOwnerKeeps
<1>6. CASE \E f \in Forks : ToHere(f) \/ Release(f)
  BY <1>6, ToHereKeeps, ReleaseKeeps
<1>7. CASE OwnerRelease
  BY <1>7, OwnerReleaseKeeps
<1> QED
  BY <1>1, <1>2, <1>3, <1>4, <1>5, <1>6, <1>7 DEF UserCode

\* Every step.
LEMMA StepKeeps ==
  ASSUME Base, [Next]_vars
  PROVE  Kept
<1>1. ASSUME UserCode, lossy' = lossy PROVE Kept
  BY <1>1, UserCodeKeeps
<1>2. ASSUME Faults, lossy' = lossy PROVE Kept
  <2>1. CASE \E k \in Retried, f \in Forks : AttemptTimesOut(k, f)
    <3>1. PICK k \in Retried, f \in Forks : AttemptTimesOut(k, f)
      BY <2>1
    <3>2. k = "forkRequest" \/ k = "childAccept" \/ k = "userDelete"
      BY DEF Retried
    <3> QED
      BY <1>2, <3>1, <3>2, TimesOutForkRequestKeeps, TimesOutChildAcceptKeeps,
         TimesOutUserDeleteKeeps
  <2>2. CASE \E f \in Forks : RemoteTimesOut(f)
    BY <1>2, <2>2, RemoteTimesOutKeeps
  <2>3. CASE SelfTimesOut
    BY <1>2, <2>3, SelfTimesOutKeeps
  <2> QED
    BY <1>2, <2>1, <2>2, <2>3 DEF Faults
<1>3. ASSUME BeginShutdown, lossy' = lossy PROVE Kept
  BY <1>3, BeginShutdownKeeps
<1>4. ASSUME NEW f \in ForkIds, Progress(f), lossy' = lossy PROVE Kept
  BY <1>4, ProgressKeeps
<1>5. ASSUME NEW f \in Forks, Answer(f), lossy' = lossy PROVE Kept
  BY <1>5, RetrieveOwnerRRefKeeps, FetchReturnsKeeps DEF Answer
<1>6. ASSUME NEW w \in Workers, Shutdown(w), lossy' = lossy PROVE Kept
  BY <1>6, DelAllUsersKeeps, WaitForOwnersKeeps, LeaveKeeps DEF Shutdown
<1>7. CASE UNCHANGED vars
  BY <1>7, StutterKeeps DEF vars
<1> QED
  BY <1>1, <1>2, <1>3, <1>4, <1>5, <1>6, <1>7 DEF Next

\* The initial states.
LEMMA InitHolds ==
  ASSUME Init
  PROVE  Base /\ OwnerInv /\ CInv
<1>1. /\ \A k \in Kinds : Flying(k) = {}
      /\ \A k \in Retried, f \in Forks : ~Open(k, f)
  BY DEF Init, Flying, Open, Idle
<1>2. Typed
  <2>1. Idle \in CallState
    BY ConstAssumption DEF Idle, CallState
  <2> QED
    BY <2>1, ConstAssumption DEF Init, Typed, Workers, ForkIds
<1>3. \A f \in Forks : ~Coming(f) /\ ~Creating(f)
  BY <1>1 DEF Init, Coming, Creating, Kinds, ForkIds
<1>4. Attempts /\ Unborn /\ Maps /\ Phases
  BY <1>1, <1>3 DEF Init, Attempts, Unborn, UnbornOf, Maps, MapsOf, Phases, ForkIds
<1>5. Creator /\ Child /\ Parent
  BY <1>1, <1>3
  DEF Init, Creator, CreatorOf, Child, ChildOf, Parent, ParentOf, ForkIds, Kinds, Retried, Acks
<1>6. SelfInv /\ NotBorn
  BY <1>1 DEF Init, SelfInv, NotBorn, ForkIds, Kinds, Retried, Acks
<1>7. OwnerInv
  BY <1>1
  DEF Init, OwnerInv, Lone, LoneOf, Made, MadeOf, Instances, OwnerHeld, ForkIds, Kinds
<1>8. CInv
  BY <1>1, <1>3, ConstAssumption
  DEF Init, CInv, Clean, CleanOf, LeftInv, Kinds, Retried, Acks, Workers
<1> QED
  BY <1>2, <1>4, <1>5, <1>6, <1>7, <1>8 DEF Base

-----------------------------------------------------------------------------
(* The theorems.                                                           *)

\* The inductive invariant of the protocol, on every network and whether or
\* not the creator passes its RRef on before the owner confirms it.
THEOREM BaseInvariant == Spec => [](Base /\ CInv)
<1>1. Init => Base /\ CInv
  BY InitHolds
<1>2. Base /\ CInv /\ [Next]_vars => (Base /\ CInv)'
  BY StepKeeps DEF Kept
<1> QED
  BY <1>1, <1>2, PTL DEF Spec

\* The internal assertions of rref_context.cpp hold: addForkOfOwner never sees
\* its fork, delPendingUser finds it, and a remote call to self finds its
\* OwnerRRef.  The exception is a remote() to self that timed out before its
\* handler ran: there the assertion of getOwnerRRef fails (rref_context.cpp:385),
\* since finishCreatingOwnerRRef deleted the self fork and the OwnerRRef.
THEOREM RRefAssertionsHold == Spec => []AssertionsHold
<1>1. Base => AssertionsHold
  <2> SUFFICES ASSUME Base PROVE AssertionsHold
    OBVIOUS
  <2>1. TypeOK
    <3>1. held \subseteq alive /\ pendingUsers \subseteq alive /\ confirmedUsers \subseteq alive
          /\ pendingUsers \cap confirmedUsers = {}
      BY DEF Base, Typed, Maps, MapsOf
    <3> QED
      BY <3>1, ConstAssumption DEF Base, Typed, TypeOK, CallState
  <2>2. \A f \in Forks : stage[f] = "assign" => f \notin forks
    BY DEF Base, Creator, CreatorOf
  <2>3. \A f \in Forks : Open("forkRequest", f) => f \in pendingUsers
    BY DEF Base, Child, ChildOf
  <2>4. \A m \in net : m.kind = "remoteRet" /\ m.fork \in Forks \ timedOut => m.fork \in pendingUsers
    BY InFlight DEF Base, Creator, CreatorOf, Creating
  <2>5. \A m \in net :
          m.kind = "remoteCall" /\ m.fork = SelfFork /\ SelfFork \notin timedOut => owners # 0
    BY InFlight DEF Base, SelfInv
  <2> QED
    BY <2>1, <2>2, <2>3, <2>4, <2>5 DEF AssertionsHold
<1> QED
  BY <1>1, BaseInvariant, PTL

\* A child that its parent's worker tracks has a living parent, whose
\* RRefUserDelete is not sent before the child is accepted.
THEOREM RRefParentOutlivesChild == Spec => []ParentOutlivesChild
<1>1. Base => ParentOutlivesChild
  BY DEF Base, Typed, Parent, ParentOf, ParentOutlivesChild
<1> QED
  BY <1>1, BaseInvariant, PTL

\* A UserRRef in an RPC in flight is tracked by its parent or by the owner.
THEOREM RRefInFlightTracked == Spec => []InFlightTracked
<1>1. Base => InFlightTracked
  <2> SUFFICES ASSUME Base, NEW m \in net, m.kind = "rpc"
               PROVE  m.fork \in (IF parent[m.fork] = Owner THEN forks ELSE pendingChildren)
    BY DEF InFlightTracked
  <2>1. m.fork \in Forks /\ m.fork \in Flying("rpc")
    BY InFlight, ForkOf DEF Base
  <2> QED
    BY <2>1 DEF Base, Child, ChildOf
<1> QED
  BY <1>1, BaseInvariant, PTL

\* While a confirmed UserRRef exists the owner keeps the OwnerRRef, and there is
\* never a second one, if the creator passes its RRef on only when confirmed.
THEOREM RRefOwnerKept ==
  ASSUME ~ShareUnconfirmed
  PROVE  Spec => []OwnerKept
<1>1. Init => Base /\ OwnerInv
  BY InitHolds
<1>2. Base /\ OwnerInv /\ [Next]_vars => (Base /\ OwnerInv)'
  BY StepKeeps DEF Kept
<1>3. Base /\ OwnerInv => OwnerKept
  <2> SUFFICES ASSUME Base, OwnerInv PROVE OwnerKept
    OBVIOUS
  <2>1. confirmedUsers \ timedOut \subseteq forks
    BY DEF Base, Typed, Child, ChildOf
  <2>2. ASSUME NEW f \in confirmedUsers \ timedOut, phase[Owner] = "run" PROVE owners # 0
    <3>1. f \in Forks /\ MapsOf(f) /\ f \in forks
      BY <2>1 DEF Base, Typed, Maps
    <3>2. stage[f] # "prepare" /\ f \notin deletedOnOwner
      BY <3>1 DEF MapsOf, Coming
    <3> QED
      BY <2>2, <3>1, <3>2 DEF OwnerInv, OwnerHeld
  <2> QED
    BY <2>1, <2>2 DEF OwnerKept, OwnerInv, Instances
<1> QED
  BY <1>1, <1>2, <1>3, PTL DEF Spec

\* On a reliable network nothing is left on the owner when the last UserRRef is
\* gone and every message is handled.
THEOREM RRefNoLeak ==
  ASSUME ~ShareUnconfirmed
  PROVE  Spec => []NoLeak
<1>1. Init => Base /\ OwnerInv /\ CInv
  BY InitHolds
<1>2. Base /\ OwnerInv /\ CInv /\ [Next]_vars => (Base /\ OwnerInv /\ CInv)'
  BY StepKeeps DEF Kept
<1>3. Base /\ OwnerInv /\ CInv => NoLeak
  <2> SUFFICES ASSUME Base, OwnerInv, CInv, ~lossy, Quiescent PROVE forks = {} /\ owners = 0
    BY DEF NoLeak
  <2>1. (\A k \in Kinds : Flying(k) = {}) /\ \A f \in ForkIds : stage[f] = "none"
    BY DEF Quiescent, Flying
  <2>2. SelfFork \notin forks
    BY <2>1 DEF Base, SelfInv, Kinds, ForkIds
  <2>3. ASSUME NEW f \in forks PROVE FALSE
    <3>1. f \in Forks /\ CleanOf(f) /\ MapsOf(f)
      BY <2>2 DEF Base, Typed, ForkIds, Maps, CInv, Clean
    <3>2. ~Coming(f) /\ f \notin Flying("userDelete")
      BY <2>1, <3>1 DEF Coming, ForkIds, Kinds, Retried
    <3> QED
      BY <3>1, <3>2 DEF CleanOf, MapsOf, Quiescent
  <2> QED
    BY <2>1, <2>3 DEF OwnerInv, OwnerHeld, ForkIds
<1> QED
  BY <1>1, <1>2, <1>3, PTL DEF Spec

\* checkRRefLeaks finds nothing when a graceful shutdown on a reliable network
\* reaches it.
THEOREM RRefCleanShutdown == Spec => [](~lossy => CleanShutdown)
<1>1. CInv => (~lossy => CleanShutdown)
  BY DEF CInv, LeftInv, CleanShutdown
<1> QED
  BY <1>1, BaseInvariant, PTL
=============================================================================
