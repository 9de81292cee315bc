--------------------------- MODULE RpcAgentProofs ---------------------------
(***************************************************************************)
(* Proofs about the agent, for any number of calls, retries and peers.     *)
(*                                                                         *)
(* The first part shows that RpcAgent implements RpcCalls and recognizes   *)
(* every response.  A call in progress has at most one holder at a time:   *)
(* the caller inside sendWithRetries(), the callback attached to its       *)
(* newest attempt, the thread that reschedules it, or the retry thread's   *)
(* structures.  Only the holder completes originalFuture_.                 *)
(*                                                                         *)
(* The second part shows what join() and shutdown() rely on:               *)
(* clientActiveCalls_ counts the futures that are not done, and when       *)
(* shutdown() returns every call has its answer or waits in rpcRetryMap_.  *)
(* No step drops the last reference to a call whose originalFuture_ is     *)
(* open, and what shutdown() joins leaves only one place to hold it.       *)
(***************************************************************************)
EXTENDS RpcAgent, FiniteSetTheorems, TLAPS

\* The types the argument needs.
Typed ==
  /\ load \in Workloads
  /\ stage \in [Ids -> {"none", "registered", "hooked", "counted", "timed", "sent",
                          "threw"}]
  /\ task \in [Ids -> {"none", "ok", "err", "decrease", "done"}]
  /\ fut \in [Ids -> {"open", "ok", "err"}]
  /\ wire \in [Ids -> {"none", "request", "ok", "err", "closed"}]
  /\ orig \in [Calls -> {"none", "open", "ok", "err", "refused"}]
  /\ count \in [Calls -> 0..MaxRetries]
  /\ sched \in [Calls -> {"no", "pool", "caller", "retry"}]
  /\ retryMap \subseteq Calls
  /\ retry \in [pc : {"sleep", "send", "attach", "gone"}, batch : SUBSET Calls,
                sent : SUBSET Calls, failed : SUBSET Calls]

\* The caller has not attached its callback yet.
Calling(c) ==
  \/ Sending(<<c, 0>>)
  \/ stage[<<c, 0>>] = "sent" /\ <<c, 0>> \notin attached

\* The callback of the newest attempt waits for its future.
Awaited(c) == <<c, count[c]>> \in attached /\ fut[<<c, count[c]>>] = "open"

\* The retry thread has the call, or will take it.
InRetry(c) == c \in retryMap \cup retry.batch \cup retry.sent \cup retry.failed

\* The first attempt was sent.
Sent(c) == stage[<<c, 0>>] = "sent"

\* A call in progress has at most one holder.
HolderOf(c) ==
  /\ Calling(c) => ~Awaited(c) /\ sched[c] = "no" /\ ~InRetry(c) /\ count[c] = 0
  /\ Awaited(c) => sched[c] = "no" /\ ~InRetry(c)
  /\ sched[c] # "no" => ~InRetry(c)
  /\ Calling(c) \/ Awaited(c) \/ sched[c] # "no" \/ InRetry(c) => orig[c] = "open"
  /\ sched[c] # "no" \/ InRetry(c) => count[c] < load.retries

OneHolder == \A c \in Calls : HolderOf(c)

RetryDisjoint ==
  /\ retryMap \cap (retry.batch \cup retry.sent \cup retry.failed) = {}
  /\ retry.batch \cap (retry.sent \cup retry.failed) = {}
  /\ retry.sent \cap retry.failed = {}

\* Nothing of a call happens before its first attempt is sent.
BegunOf(c) ==
  /\ orig[c] = "none" => count[c] = 0 /\ stage[<<c, 0>>] = "none"
  /\ Sent(c) => orig[c] \in {"open", "ok", "err"}
  /\ c \in ran \/ sched[c] # "no" \/ InRetry(c) => Sent(c)

Begun == \A c \in Calls : BegunOf(c)

\* Callbacks are attached to one attempt after the other.
InOrderOf(c, k) ==
  <<c, k>> \in attached => k \leq count[c] /\ (k < count[c] => fut[<<c, k>>] # "open")

\* The future of a message is completed once, by the pool, and with a value only
\* if the request ran.
FutureOf(c, k) ==
  /\ fut[<<c, k>>] = "open" <=> task[<<c, k>>] \in {"none", "ok", "err"}
  /\ task[<<c, k>>] # "none" => <<c, k>> \in flag
  /\ task[<<c, k>>] = "ok" \/ fut[<<c, k>>] = "ok" \/ wire[<<c, k>>] \in {"ok", "err"}
       => c \in ran

\* A message on its pipe is in pendingResponseMessage_.
ExpectedOf(c, k) ==
  /\ Sending(<<c, k>>) \/ stage[<<c, k>>] = "none" => wire[<<c, k>>] = "none"
  /\ Sending(<<c, k>>) \/ wire[<<c, k>>] \in {"request", "ok", "err"}
       => To[c] \in down \/ <<c, k>> \in pending
  /\ wire[<<c, k>>] # "none" \/ <<c, k>> \in attached => Sent(c)

InOrder == \A c \in Calls, k \in 0..MaxRetries : InOrderOf(c, k)
Futures == \A c \in Calls, k \in 0..MaxRetries : FutureOf(c, k)
Expected == \A c \in Calls, k \in 0..MaxRetries : ExpectedOf(c, k)

IInv == Typed /\ OneHolder /\ RetryDisjoint /\ Begun /\ InOrder /\ Futures /\ Expected

-----------------------------------------------------------------------------
\* A message id is a call and an attempt.
LEMMA IdFacts ==
  /\ \A c \in Calls, k \in 0..MaxRetries : <<c, k>> \in Ids /\ Peer(<<c, k>>) = To[c]
  /\ \A id \in Ids : \E c \in Calls, k \in 0..MaxRetries : id = <<c, k>>
  /\ \A c \in Calls : <<c, 0>> \in Ids
  /\ 0 \in 0..MaxRetries
BY ConstAssumption DEF Ids, Peer

\* A call the retry thread may send again has an attempt left.
LEMMA AttemptFacts ==
  ASSUME Typed, OneHolder, NEW c \in Calls, InRetry(c)
  PROVE  /\ count[c] \in Nat /\ count[c] + 1 \in 0..MaxRetries
         /\ count[c] + 1 \leq load.retries /\ <<c, count[c] + 1>> \in Ids
         /\ Attempt(c) = <<c, count[c] + 1>>
<1>1. count[c] < load.retries /\ count[c] \in 0..MaxRetries
  BY DEF OneHolder, HolderOf, Typed
<1>2. load.retries \in 0..MaxRetries
  BY ConstAssumption DEF Typed
<1> QED
  BY <1>1, <1>2, IdFacts, ConstAssumption DEF Attempt

\* Steps that leave the variables of a conjunct alone keep it.
LEMMA Frames ==
  /\ OneHolder /\ UNCHANGED <<load, stage, attached, count, fut, sched, retryMap, retry, orig>>
       => OneHolder'
  /\ RetryDisjoint /\ UNCHANGED <<retryMap, retry>>
       => RetryDisjoint'
  /\ Begun /\ UNCHANGED <<orig, count, stage, ran, sched, retryMap, retry>>
       => Begun'
  /\ InOrder /\ UNCHANGED <<attached, count, fut>>
       => InOrder'
  /\ Futures /\ UNCHANGED <<fut, task, flag, wire, ran>>
       => Futures'
  /\ Expected /\ UNCHANGED <<stage, wire, down, pending, attached>>
       => Expected'
<1>1. OneHolder /\ UNCHANGED <<load, stage, attached, count, fut, sched, retryMap, retry, orig>>
        => OneHolder'
  BY DEF OneHolder, HolderOf, Calling, Awaited, InRetry, Sending
<1>2. RetryDisjoint /\ UNCHANGED <<retryMap, retry>>
        => RetryDisjoint'
  BY DEF RetryDisjoint
<1>3. Begun /\ UNCHANGED <<orig, count, stage, ran, sched, retryMap, retry>>
        => Begun'
  BY DEF Begun, BegunOf, Sent, InRetry
<1>4. InOrder /\ UNCHANGED <<attached, count, fut>>
        => InOrder'
  BY DEF InOrder, InOrderOf
<1>5. Futures /\ UNCHANGED <<fut, task, flag, wire, ran>>
        => Futures'
  BY DEF Futures, FutureOf
<1>6. Expected /\ UNCHANGED <<stage, wire, down, pending, attached>>
        => Expected'
  BY DEF Expected, ExpectedOf, Sending, Sent
<1> QED
  BY <1>1, <1>2, <1>3, <1>4, <1>5, <1>6

\* What one step of send() does.
LEMMA SendStepFacts ==
  ASSUME Typed, NEW c \in Calls, NEW k \in 0..MaxRetries, SendStep(<<c, k>>)
  PROVE  /\ Sending(<<c, k>>) /\ UNCHANGED pending
         /\ \E s \in {"hooked", "counted", "timed", "sent", "threw"} :
              /\ stage' = [stage EXCEPT ![<<c, k>>] = s]
              /\ wire' = IF s = "sent" THEN [wire EXCEPT ![<<c, k>>] = "request"] ELSE wire
BY IdFacts
DEF Typed, SendStep, AddAssertion, IncreaseCallCount, AddTimeout, PipeWrite, Sending

\* The callback of a completed attempt answers the call or hands it on.
LEMMA CompleteKeeps ==
  ASSUME IInv, UNCHANGED load, NEW c \in Calls, NEW k \in 0..MaxRetries,
         Complete(<<c, k>>)
  PROVE  IInv'
<1>a. /\ task[<<c, k>>] \in {"ok", "err"}
      /\ fut' = [fut EXCEPT ![<<c, k>>] = task[<<c, k>>]]
      /\ task' = [task EXCEPT ![<<c, k>>] = "decrease"]
      /\ \/ UNCHANGED <<orig, sched>>
         \/ /\ <<c, k>> \in attached /\ count[c] < load.retries
            /\ orig' = orig /\ sched' = [sched EXCEPT ![c] = "pool"]
         \/ /\ <<c, k>> \in attached
            /\ sched' = sched /\ orig' = [orig EXCEPT ![c] = task[<<c, k>>]]
  BY DEF Complete, RpcRetryCallback
<1>1. Typed'
  <2>1. (orig \in [Calls -> {"none", "open", "ok", "err", "refused"}])'
    BY <1>a, IdFacts DEF IInv, Typed
  <2>2. (sched \in [Calls -> {"no", "pool", "caller", "retry"}])'
    BY <1>a, IdFacts DEF IInv, Typed
  <2> QED
    BY <2>1, <2>2, <1>a, IdFacts DEF IInv, Typed, Complete, sendVars, netVars
<1>2. OneHolder'
  <2> SUFFICES ASSUME NEW d \in Calls PROVE HolderOf(d)'
    BY DEF OneHolder
  <2> QED
    BY IdFacts, <1>a, ConstAssumption
    DEF IInv, OneHolder, HolderOf, Calling, Awaited, InRetry, Sending, InOrder,
        InOrderOf, Futures, FutureOf, Typed, Complete, sendVars
<1>3. Begun'
  <2> SUFFICES ASSUME NEW d \in Calls PROVE BegunOf(d)'
    BY DEF Begun
  <2> QED
    BY DEF IInv, Begun, BegunOf, Sent, InRetry, Expected, ExpectedOf, Typed, Complete,
           RpcRetryCallback, sendVars, netVars
<1>4. InOrder'
  <2> SUFFICES ASSUME NEW d \in Calls, NEW j \in 0..MaxRetries PROVE InOrderOf(d, j)'
    BY DEF InOrder
  <2> QED
    BY DEF IInv, InOrder, InOrderOf, Complete
<1>5. Futures'
  <2> SUFFICES ASSUME NEW d \in Calls, NEW j \in 0..MaxRetries PROVE FutureOf(d, j)'
    BY DEF Futures
  <2>1. FutureOf(d, j) /\ <<d, j>> \in Ids /\ <<c, k>> \in Ids
    BY IdFacts DEF IInv, Futures
  <2>2. CASE d = c /\ j = k
    BY <2>1, <2>2, <1>a DEF IInv, Typed, FutureOf, Complete, netVars
  <2>3. CASE <<d, j>> # <<c, k>>
    BY <2>1, <2>3, <1>a DEF IInv, Typed, FutureOf, Complete, netVars
  <2> QED
    BY <2>2, <2>3
<1>6. RetryDisjoint' /\ Expected'
  BY Frames DEF IInv, Complete, RpcRetryCallback, sendVars, netVars
<1> QED
  BY <1>1, <1>2, <1>3, <1>4, <1>5, <1>6 DEF IInv

\* A call to be retried moves into rpcRetryMap_.
LEMMA RescheduleKeeps ==
  ASSUME IInv, UNCHANGED load, NEW c \in Calls, Reschedule(c)
  PROVE  IInv'
<1>1. Typed'
  BY IdFacts, ConstAssumption DEF IInv, Typed, Reschedule, sendVars, futVars, netVars
<1>2. OneHolder'
  <2> SUFFICES ASSUME NEW d \in Calls PROVE HolderOf(d)'
    BY DEF OneHolder
  <2> QED
    BY DEF IInv, OneHolder, HolderOf, Calling, Awaited, InRetry, Sending, Typed,
           Reschedule, sendVars, futVars
<1>3. RetryDisjoint'
  BY IdFacts, ConstAssumption
  DEF IInv, RetryDisjoint, OneHolder, HolderOf, InRetry, Typed, Reschedule, sendVars,
      futVars, netVars
<1>4. Begun'
  <2> SUFFICES ASSUME NEW d \in Calls PROVE BegunOf(d)'
    BY DEF Begun
  <2> QED
    BY DEF IInv, Begun, BegunOf, Sent, InRetry, Reschedule, sendVars, netVars
<1>5. InOrder' /\ Futures' /\ Expected'
  BY Frames DEF IInv, Reschedule, sendVars, futVars, netVars
<1> QED
  BY <1>1, <1>2, <1>3, <1>4, <1>5 DEF IInv

\* decreaseCallCount() changes no future.
LEMMA DecreaseKeeps ==
  ASSUME IInv, UNCHANGED load, NEW c \in Calls, NEW k \in 0..MaxRetries,
         DecreaseCallCount(<<c, k>>)
  PROVE  IInv'
<1>1. Typed'
  BY IdFacts, ConstAssumption DEF IInv, Typed, DecreaseCallCount, retryVars, netVars
<1>2. Futures'
  <2> SUFFICES ASSUME NEW d \in Calls, NEW j \in 0..MaxRetries PROVE FutureOf(d, j)'
    BY DEF Futures
  <2>1. FutureOf(d, j) /\ FutureOf(c, k) /\ <<d, j>> \in Ids /\ <<c, k>> \in Ids
    BY IdFacts DEF IInv, Futures
  <2>2. /\ UNCHANGED <<fut, flag, wire, ran>> /\ DOMAIN task = Ids
        /\ task[<<c, k>>] = "decrease" /\ task' = [task EXCEPT ![<<c, k>>] = "done"]
    BY DEF DecreaseCallCount, netVars, IInv, Typed
  <2>3. CASE d = c /\ j = k
    BY <2>1, <2>2, <2>3 DEF FutureOf
  <2>4. CASE <<d, j>> # <<c, k>>
    <3>1. task'[<<d, j>>] = task[<<d, j>>]
      BY <2>1, <2>2, <2>4
    <3> QED
      BY <2>1, <2>2, <3>1 DEF FutureOf
  <2> QED
    BY <2>3, <2>4
<1>3. OneHolder' /\ RetryDisjoint' /\ Begun' /\ InOrder' /\ Expected'
  BY Frames DEF IInv, DecreaseCallCount, retryVars, netVars
<1> QED
  BY <1>1, <1>2, <1>3 DEF IInv

\* A new call is held by its caller.
LEMMA CallKeeps ==
  ASSUME IInv, UNCHANGED load, NEW c \in Calls, Call(c)
  PROVE  IInv'
<1>1. Typed'
  <2>1. <<c, 0>> \in Ids
    BY IdFacts
  <2>2. (orig \in [Calls -> {"none", "open", "ok", "err", "refused"}])'
    BY DEF IInv, Typed, Call
  <2>3. (stage \in [Ids -> {"none", "registered", "hooked", "counted", "timed", "sent",
                          "threw"}])'
    BY <2>1 DEF IInv, Typed, Call, Register
  <2> QED
    BY <2>2, <2>3 DEF IInv, Typed, Call, futVars, netVars
<1>2. OneHolder'
  <2> SUFFICES ASSUME NEW d \in Calls PROVE HolderOf(d)'
    BY DEF OneHolder
  <2> QED
    BY IdFacts
    DEF IInv, OneHolder, HolderOf, Calling, Awaited, InRetry, Sending, Begun, BegunOf,
        Typed, Call, Register, futVars
<1>3. Begun'
  <2> SUFFICES ASSUME NEW d \in Calls PROVE BegunOf(d)'
    BY DEF Begun
  <2> QED
    BY IdFacts
    DEF IInv, Begun, BegunOf, Sent, InRetry, OneHolder, Typed, Call, Register,
        futVars, netVars
<1>4. Expected'
  <2> SUFFICES ASSUME NEW d \in Calls, NEW j \in 0..MaxRetries PROVE ExpectedOf(d, j)'
    BY DEF Expected
  <2> QED
    BY IdFacts
    DEF IInv, Expected, ExpectedOf, Sending, Sent, Typed, Begun, BegunOf, Call,
        Register, netVars
<1>5. RetryDisjoint' /\ InOrder' /\ Futures'
  BY Frames DEF IInv, Call, Register, futVars, netVars
<1> QED
  BY <1>1, <1>2, <1>3, <1>4, <1>5 DEF IInv

\* The caller inside send().
LEMMA CallerSendsKeeps ==
  ASSUME IInv, UNCHANGED load, NEW c \in Calls, CallerSends(c)
  PROVE  IInv'
<1>s. PICK s \in {"hooked", "counted", "timed", "sent", "threw"} :
        /\ Sending(<<c, 0>>) /\ UNCHANGED pending
        /\ stage' = [stage EXCEPT ![<<c, 0>>] = s]
        /\ wire' = IF s = "sent" THEN [wire EXCEPT ![<<c, 0>>] = "request"] ELSE wire
  BY SendStepFacts, IdFacts DEF CallerSends, IInv
<1>1. Typed'
  BY IdFacts, <1>s, ConstAssumption DEF IInv, Typed, CallerSends, futVars
<1>2. OneHolder'
  <2> SUFFICES ASSUME NEW d \in Calls PROVE HolderOf(d)'
    BY DEF OneHolder
  <2> QED
    BY <1>s
    DEF IInv, OneHolder, HolderOf, Calling, Awaited, InRetry, Sending, CallerSends,
        futVars
<1>3. Begun'
  <2> SUFFICES ASSUME NEW d \in Calls PROVE BegunOf(d)'
    BY DEF Begun
  <2>1. BegunOf(d) /\ <<d, 0>> \in Ids
    BY IdFacts DEF IInv, Begun
  <2>2. CASE d = c
    BY <2>1, <1>s
    DEF IInv, BegunOf, Sent, Sending, InRetry, OneHolder, HolderOf, Calling,
        CallerSends
  <2>3. CASE d # c
    BY <2>1, <2>3, <1>s DEF BegunOf, Sent, InRetry, CallerSends
  <2> QED
    BY <2>2, <2>3
<1>4. Futures'
  <2> SUFFICES ASSUME NEW d \in Calls, NEW j \in 0..MaxRetries PROVE FutureOf(d, j)'
    BY DEF Futures
  <2> QED
    BY IdFacts, <1>s, ConstAssumption
    DEF IInv, Futures, FutureOf, Typed, Begun, BegunOf, CallerSends, futVars
<1>5. Expected'
  <2> SUFFICES ASSUME NEW d \in Calls, NEW j \in 0..MaxRetries PROVE ExpectedOf(d, j)'
    BY DEF Expected
  <2>1. ExpectedOf(d, j) /\ <<d, j>> \in Ids /\ <<d, 0>> \in Ids
    BY IdFacts DEF IInv, Expected
  <2>2. (Sending(<<d, j>>) \/ stage[<<d, j>>] = "none" => wire[<<d, j>>] = "none")'
    BY <2>1, IdFacts, <1>s DEF IInv, Typed, ExpectedOf, Sending, CallerSends, futVars
  <2>3. (Sending(<<d, j>>) \/ wire[<<d, j>>] \in {"request", "ok", "err"}
           => To[d] \in down \/ <<d, j>> \in pending)'
    BY <2>1, IdFacts, <1>s DEF IInv, Typed, ExpectedOf, Sending, CallerSends, futVars
  <2>4. (wire[<<d, j>>] # "none" \/ <<d, j>> \in attached => Sent(d))'
    BY <2>1, IdFacts, <1>s
    DEF IInv, Typed, ExpectedOf, Sent, CallerSends, futVars, Sending
  <2> QED
    BY <2>2, <2>3, <2>4 DEF ExpectedOf
<1>6. RetryDisjoint' /\ InOrder'
  BY <1>s, Frames DEF IInv, CallerSends, futVars
<1> QED
  BY <1>1, <1>2, <1>3, <1>4, <1>5, <1>6 DEF IInv

\* The caller attaches the callback of the first attempt.
LEMMA CallerAttachesKeeps ==
  ASSUME IInv, UNCHANGED load, NEW c \in Calls, CallerAttaches(c)
  PROVE  IInv'
<1>a. /\ stage[<<c, 0>>] = "sent" /\ <<c, 0>> \notin attached
      /\ attached' = attached \cup {<<c, 0>>}
      /\ \/ fut[<<c, 0>>] = "open" /\ UNCHANGED <<orig, sched>>
         \/ /\ fut[<<c, 0>>] # "open" /\ 0 < load.retries
            /\ orig' = orig /\ sched' = [sched EXCEPT ![c] = "caller"]
         \/ /\ fut[<<c, 0>>] # "open"
            /\ sched' = sched /\ orig' = [orig EXCEPT ![c] = fut[<<c, 0>>]]
  BY DEF CallerAttaches, AttachCallback, RpcRetryCallback
<1>b. /\ count[c] = 0 /\ orig[c] = "open" /\ ~Awaited(c) /\ sched[c] = "no" /\ ~InRetry(c)
      /\ fut[<<c, 0>>] \in {"open", "ok", "err"} /\ <<c, 0>> \in Ids
  BY <1>a, IdFacts DEF IInv, OneHolder, HolderOf, Calling, Typed
<1>1. Typed'
  <2>1. (orig \in [Calls -> {"none", "open", "ok", "err", "refused"}])'
    BY <1>a, <1>b DEF IInv, Typed
  <2>2. (sched \in [Calls -> {"no", "pool", "caller", "retry"}])'
    BY <1>a, <1>b DEF IInv, Typed
  <2> QED
    BY <2>1, <2>2, <1>a, <1>b
    DEF IInv, Typed, CallerAttaches, sendVars, futVars, netVars
<1>2. OneHolder'
  <2> SUFFICES ASSUME NEW d \in Calls PROVE HolderOf(d)'
    BY DEF OneHolder
  <2>1. HolderOf(d) /\ <<d, 0>> \in Ids
    BY IdFacts DEF IInv, OneHolder
  <2>2. CASE d = c
    BY <2>1, <2>2, <1>a
    DEF HolderOf, Calling, Awaited, InRetry, Sending, CallerAttaches, sendVars,
        futVars
  <2>3. CASE d # c
    BY <2>1, <1>a
    DEF IInv, Typed, HolderOf, Calling, Awaited, InRetry, Sending, CallerAttaches,
        sendVars, futVars
  <2> QED
    BY <2>2, <2>3
<1>3. Begun'
  <2> SUFFICES ASSUME NEW d \in Calls PROVE BegunOf(d)'
    BY DEF Begun
  <2>1. BegunOf(d) /\ <<d, 0>> \in Ids
    BY IdFacts DEF IInv, Begun
  <2>2. CASE d = c
    BY <2>1, <2>2, <1>a DEF IInv, Typed, BegunOf, Sent, CallerAttaches, sendVars
  <2>3. CASE d # c
    BY <2>1, <1>a
    DEF IInv, Typed, BegunOf, Sent, InRetry, CallerAttaches, sendVars, netVars
  <2> QED
    BY <2>2, <2>3
<1>4. InOrder'
  <2> SUFFICES ASSUME NEW d \in Calls, NEW j \in 0..MaxRetries PROVE InOrderOf(d, j)'
    BY DEF InOrder
  <2>1. InOrderOf(d, j) /\ <<d, j>> \in Ids
    BY IdFacts DEF IInv, InOrder
  <2>2. CASE d = c
    BY <2>1, <2>2, <1>a, <1>b, IdFacts
    DEF IInv, Typed, InOrderOf, CallerAttaches, sendVars, futVars
  <2>3. CASE d # c
    BY <2>1, <2>3, <1>a, <1>b, IdFacts
    DEF IInv, Typed, InOrderOf, CallerAttaches, sendVars, futVars
  <2> QED
    BY <2>2, <2>3
<1>5. Expected'
  <2> SUFFICES ASSUME NEW d \in Calls, NEW j \in 0..MaxRetries PROVE ExpectedOf(d, j)'
    BY DEF Expected
  <2>1. ExpectedOf(d, j) /\ <<d, j>> \in Ids /\ <<d, 0>> \in Ids
    BY IdFacts DEF IInv, Expected
  <2>2. (Sending(<<d, j>>) \/ stage[<<d, j>>] = "none" => wire[<<d, j>>] = "none")'
    BY <2>1, IdFacts
    DEF IInv, Typed, ExpectedOf, Sending, CallerAttaches, AttachCallback, sendVars,
        futVars, netVars
  <2>3. (Sending(<<d, j>>) \/ wire[<<d, j>>] \in {"request", "ok", "err"}
           => To[d] \in down \/ <<d, j>> \in pending)'
    BY <2>1, IdFacts
    DEF IInv, Typed, ExpectedOf, Sending, CallerAttaches, AttachCallback, sendVars,
        futVars, netVars
  <2>4. (wire[<<d, j>>] # "none" \/ <<d, j>> \in attached => Sent(d))'
    BY <2>1, IdFacts
    DEF IInv, Typed, ExpectedOf, Sent, CallerAttaches, AttachCallback, sendVars,
        futVars, netVars
  <2> QED
    BY <2>2, <2>3, <2>4 DEF ExpectedOf
<1>6. RetryDisjoint' /\ Futures'
  BY Frames
  DEF IInv, CallerAttaches, AttachCallback, RpcRetryCallback, sendVars, futVars,
      netVars
<1> QED
  BY <1>1, <1>2, <1>3, <1>4, <1>5, <1>6 DEF IInv

\* The retry thread takes calls out of rpcRetryMap_.
LEMMA TakeRetriesKeeps ==
  ASSUME IInv, UNCHANGED load, TakeRetries
  PROVE  IInv'
<1>1. Typed'
  <2>1. PICK S \in SUBSET retryMap :
          /\ retry' = [retry EXCEPT !.pc = "send", !.batch = S]
          /\ retryMap' = retryMap \ S
    BY DEF TakeRetries
  <2>2. (retry \in [pc : {"sleep", "send", "attach", "gone"}, batch : SUBSET Calls,
                   sent : SUBSET Calls, failed : SUBSET Calls])'
    BY <2>1 DEF IInv, Typed
  <2> QED
    BY <2>1, <2>2 DEF IInv, Typed, TakeRetries, sendVars, futVars, netVars
<1>2. OneHolder'
  <2> SUFFICES ASSUME NEW d \in Calls PROVE HolderOf(d)'
    BY DEF OneHolder
  <2> QED
    BY DEF IInv, OneHolder, HolderOf, Calling, Awaited, InRetry, Sending, TakeRetries,
           sendVars, futVars
<1>3. RetryDisjoint'
  BY IdFacts, ConstAssumption
  DEF IInv, RetryDisjoint, OneHolder, HolderOf, InRetry, Typed, TakeRetries, sendVars,
      futVars, netVars
<1>4. Begun'
  <2> SUFFICES ASSUME NEW d \in Calls PROVE BegunOf(d)'
    BY DEF Begun
  <2> QED
    BY DEF IInv, Begun, BegunOf, Sent, InRetry, TakeRetries, sendVars, netVars
<1>5. InOrder' /\ Futures' /\ Expected'
  BY Frames DEF IInv, TakeRetries, sendVars, futVars, netVars
<1> QED
  BY <1>1, <1>2, <1>3, <1>4, <1>5 DEF IInv

\* The retry thread enters send().
LEMMA RetryBeginsKeeps ==
  ASSUME IInv, UNCHANGED load, NEW c \in Calls, RetryBegins(c)
  PROVE  IInv'
<1>0. InRetry(c) /\ Attempt(c) = <<c, count[c] + 1>> /\ count[c] + 1 \in 0..MaxRetries
      /\ count[c] \in Nat /\ count[c] + 1 \leq load.retries /\ <<c, count[c] + 1>> \in Ids
  <2>1. InRetry(c)
    BY DEF RetryBegins, InRetry
  <2> QED
    BY <2>1, AttemptFacts DEF IInv
<1>1. Typed'
  BY IdFacts, <1>0, ConstAssumption
  DEF IInv, Typed, RetryBegins, Register, futVars, retryVars, netVars
<1>2. OneHolder'
  <2> SUFFICES ASSUME NEW d \in Calls PROVE HolderOf(d)'
    BY DEF OneHolder
  <2> QED
    BY <1>0
    DEF IInv, OneHolder, HolderOf, Calling, Awaited, InRetry, Sending, RetryBegins,
        Register, futVars, retryVars
<1>3. Begun'
  <2> SUFFICES ASSUME NEW d \in Calls PROVE BegunOf(d)'
    BY DEF Begun
  <2> QED
    BY <1>0
    DEF IInv, Begun, BegunOf, Sent, InRetry, RetryBegins, Register, retryVars, netVars
<1>4. Expected'
  <2> SUFFICES ASSUME NEW d \in Calls, NEW j \in 0..MaxRetries PROVE ExpectedOf(d, j)'
    BY DEF Expected
  <2>1. ExpectedOf(d, j) /\ <<d, j>> \in Ids /\ <<d, 0>> \in Ids
    BY IdFacts DEF IInv, Expected
  <2>2. (Sending(<<d, j>>) \/ stage[<<d, j>>] = "none" => wire[<<d, j>>] = "none")'
    BY <2>1, IdFacts, <1>0
    DEF IInv, Typed, ExpectedOf, Sending, RetryBegins, Register, futVars, retryVars,
        netVars
  <2>3. (Sending(<<d, j>>) \/ wire[<<d, j>>] \in {"request", "ok", "err"}
           => To[d] \in down \/ <<d, j>> \in pending)'
    BY <2>1, IdFacts, <1>0
    DEF IInv, Typed, ExpectedOf, Sending, RetryBegins, Register, futVars, retryVars,
        netVars
  <2>4. (wire[<<d, j>>] # "none" \/ <<d, j>> \in attached => Sent(d))'
    BY <2>1 DEF ExpectedOf, Sent, RetryBegins, Register, retryVars, netVars
  <2> QED
    BY <2>2, <2>3, <2>4 DEF ExpectedOf
<1>5. RetryDisjoint' /\ InOrder' /\ Futures'
  BY Frames DEF IInv, RetryBegins, Register, futVars, retryVars, netVars
<1> QED
  BY <1>1, <1>2, <1>3, <1>4, <1>5 DEF IInv

\* The retry thread inside send().
LEMMA RetrySendsKeeps ==
  ASSUME IInv, UNCHANGED load, NEW c \in Calls, RetrySends(c)
  PROVE  IInv'
<1>0. InRetry(c) /\ Attempt(c) = <<c, count[c] + 1>> /\ count[c] + 1 \in 0..MaxRetries
      /\ count[c] \in Nat /\ count[c] + 1 \leq load.retries /\ <<c, count[c] + 1>> \in Ids
  <2>1. InRetry(c)
    BY DEF RetrySends, InRetry
  <2> QED
    BY <2>1, AttemptFacts DEF IInv
<1>s. PICK s \in {"hooked", "counted", "timed", "sent", "threw"} :
        /\ Sending(<<c, count[c] + 1>>) /\ UNCHANGED pending
        /\ stage' = [stage EXCEPT ![<<c, count[c] + 1>>] = s]
        /\ wire' = IF s = "sent" THEN [wire EXCEPT ![<<c, count[c] + 1>>] = "request"]
                   ELSE wire
  BY <1>0, SendStepFacts, IdFacts DEF RetrySends, IInv
<1>1. Typed'
  BY IdFacts, <1>0, <1>s, ConstAssumption DEF IInv, Typed, RetrySends, futVars
<1>2. OneHolder'
  <2> SUFFICES ASSUME NEW d \in Calls PROVE HolderOf(d)'
    BY DEF OneHolder
  <2> QED
    BY <1>s
    DEF IInv, OneHolder, HolderOf, Calling, Awaited, InRetry, Sending, RetrySends,
        futVars
<1>3. RetryDisjoint'
  BY IdFacts, <1>0, <1>s, ConstAssumption
  DEF IInv, RetryDisjoint, OneHolder, HolderOf, InRetry, Typed, RetrySends, futVars
<1>4. Begun'
  <2> SUFFICES ASSUME NEW d \in Calls PROVE BegunOf(d)'
    BY DEF Begun
  <2> QED
    BY <1>0, <1>s DEF IInv, Begun, BegunOf, Sent, InRetry, RetrySends
<1>5. Futures'
  <2> SUFFICES ASSUME NEW d \in Calls, NEW j \in 0..MaxRetries PROVE FutureOf(d, j)'
    BY DEF Futures
  <2> QED
    BY IdFacts, <1>0, <1>s, ConstAssumption
    DEF IInv, Futures, FutureOf, Typed, Begun, BegunOf, RetrySends, futVars
<1>6. Expected'
  <2> SUFFICES ASSUME NEW d \in Calls, NEW j \in 0..MaxRetries PROVE ExpectedOf(d, j)'
    BY DEF Expected
  <2>1. ExpectedOf(d, j) /\ <<d, j>> \in Ids /\ <<d, 0>> \in Ids
    BY IdFacts DEF IInv, Expected
  <2>2. ExpectedOf(c, count[c] + 1) /\ Sent(c)
    BY <1>0 DEF IInv, Expected, Begun, BegunOf
  <2>3. UNCHANGED <<down, pending, attached>> /\ DOMAIN stage = Ids /\ DOMAIN wire = Ids
    BY <1>s DEF IInv, Typed, RetrySends
  <2>4. Sent(d)' <=> Sent(d) \/ (<<d, 0>> = <<c, count[c] + 1>> /\ s = "sent")
    BY <1>0, <1>s, <2>1, <2>3 DEF Sent, Sending
  <2>5. CASE d = c /\ j = count[c] + 1
    BY <1>0, <1>s, <2>2, <2>3, <2>4, <2>5 DEF ExpectedOf, Sending
  <2>6. CASE <<d, j>> # <<c, count[c] + 1>>
    <3>1. stage'[<<d, j>>] = stage[<<d, j>>] /\ wire'[<<d, j>>] = wire[<<d, j>>]
      BY <1>0, <1>s, <2>1, <2>3, <2>6
    <3> QED
      BY <2>1, <2>3, <2>4, <3>1 DEF ExpectedOf, Sending
  <2> QED
    BY <2>5, <2>6
<1>7. InOrder'
  BY <1>s, Frames DEF IInv, RetrySends, futVars
<1> QED
  BY <1>1, <1>2, <1>3, <1>4, <1>5, <1>6, <1>7 DEF IInv

\* The retry thread attaches the callback of an attempt it sent.
LEMMA RetryAttachesKeeps ==
  ASSUME IInv, UNCHANGED load, NEW c \in Calls, RetryAttaches(c)
  PROVE  IInv'
<1>0. InRetry(c) /\ Attempt(c) = <<c, count[c] + 1>> /\ count[c] + 1 \in 0..MaxRetries
      /\ count[c] \in Nat /\ count[c] + 1 \leq load.retries /\ <<c, count[c] + 1>> \in Ids
  <2>1. InRetry(c)
    BY DEF RetryAttaches, InRetry
  <2> QED
    BY <2>1, AttemptFacts DEF IInv
<1>a. /\ c \in retry.sent /\ retry' = [retry EXCEPT !.sent = @ \ {c}]
      /\ count' = [count EXCEPT ![c] = count[c] + 1]
      /\ attached' = attached \cup {<<c, count[c] + 1>>}
      /\ \/ fut[<<c, count[c] + 1>>] = "open" /\ UNCHANGED <<orig, sched>>
         \/ /\ fut[<<c, count[c] + 1>>] # "open" /\ count[c] + 1 < load.retries
            /\ orig' = orig /\ sched' = [sched EXCEPT ![c] = "retry"]
         \/ /\ fut[<<c, count[c] + 1>>] # "open"
            /\ sched' = sched /\ orig' = [orig EXCEPT ![c] = fut[<<c, count[c] + 1>>]]
  BY <1>0 DEF RetryAttaches, AttachCallback, RpcRetryCallback
<1>b. /\ orig[c] = "open" /\ ~Calling(c) /\ ~Awaited(c) /\ sched[c] = "no" /\ Sent(c)
      /\ c \notin retryMap \cup retry.batch \cup retry.failed
      /\ fut[<<c, count[c] + 1>>] \in {"open", "ok", "err"}
  <2>1. HolderOf(c) /\ BegunOf(c) /\ c \in retry.sent
    BY <1>a DEF IInv, OneHolder, Begun
  <2>2. c \notin retryMap \cup retry.batch \cup retry.failed
    BY <2>1 DEF IInv, RetryDisjoint
  <2>3. fut[<<c, count[c] + 1>>] \in {"open", "ok", "err"}
    BY <1>0 DEF IInv, Typed
  <2> QED
    BY <1>0, <2>1, <2>2, <2>3 DEF HolderOf, BegunOf
<1>1. Typed'
  <2>1. (orig \in [Calls -> {"none", "open", "ok", "err", "refused"}])'
    BY <1>a, <1>b DEF IInv, Typed
  <2>2. (sched \in [Calls -> {"no", "pool", "caller", "retry"}])'
    BY <1>a, <1>b DEF IInv, Typed
  <2>3. (count \in [Calls -> 0..MaxRetries])'
    BY <1>0, <1>a DEF IInv, Typed
  <2>4. (retry \in [pc : {"sleep", "send", "attach", "gone"}, batch : SUBSET Calls,
                   sent : SUBSET Calls, failed : SUBSET Calls])'
    BY <1>a DEF IInv, Typed
  <2> QED
    BY <2>1, <2>2, <2>3, <2>4
    DEF IInv, Typed, RetryAttaches, sendVars, futVars, netVars
<1>2. OneHolder'
  <2> SUFFICES ASSUME NEW d \in Calls PROVE HolderOf(d)'
    BY DEF OneHolder
  <2>1. HolderOf(d) /\ <<d, 0>> \in Ids
    BY IdFacts DEF IInv, OneHolder
  <2>2. CASE d = c
    BY <2>1, <2>2, <1>a, <1>b
    DEF HolderOf, Calling, Awaited, InRetry, Sending, RetryAttaches, sendVars, futVars
  <2>3. CASE d # c
    BY <2>1, <2>3, <1>a
    DEF IInv, Typed, HolderOf, Calling, Awaited, InRetry, Sending, RetryAttaches,
        sendVars, futVars
  <2> QED
    BY <2>2, <2>3
<1>3. RetryDisjoint'
  BY DEF IInv, RetryDisjoint, RetryAttaches
<1>4. Begun'
  <2> SUFFICES ASSUME NEW d \in Calls PROVE BegunOf(d)'
    BY DEF Begun
  <2> QED
    BY <1>0
    DEF IInv, Begun, BegunOf, Sent, InRetry, Typed, RetryAttaches, AttachCallback,
        RpcRetryCallback, sendVars, netVars
<1>5. InOrder'
  <2> SUFFICES ASSUME NEW d \in Calls, NEW j \in 0..MaxRetries PROVE InOrderOf(d, j)'
    BY DEF InOrder
  <2>1. InOrderOf(d, j) /\ UNCHANGED fut
    BY DEF IInv, InOrder, RetryAttaches, futVars
  <2>2. CASE d # c
    BY <2>1, <2>2, <1>a DEF IInv, Typed, InOrderOf
  <2>3. CASE d = c /\ j = count[c] + 1
    BY <2>3, <1>0, <1>a DEF IInv, Typed, InOrderOf
  <2>4. CASE d = c /\ j # count[c] + 1
    <3>1. count'[c] = count[c] + 1 /\ (<<c, j>> \in attached' => <<c, j>> \in attached)
      BY <2>4, <1>a DEF IInv, Typed
    <3>2. <<c, j>> \in attached => j \leq count[c] /\ fut[<<c, j>>] # "open"
      BY <2>1, <2>4, <1>0, <1>b DEF InOrderOf, Awaited
    <3> QED
      BY <2>1, <2>4, <3>1, <3>2, <1>0 DEF InOrderOf
  <2> QED
    BY <2>2, <2>3, <2>4
<1>6. Expected'
  <2> SUFFICES ASSUME NEW d \in Calls, NEW j \in 0..MaxRetries PROVE ExpectedOf(d, j)'
    BY DEF Expected
  <2> QED
    BY <1>a, <1>b
    DEF IInv, Expected, ExpectedOf, Sending, Sent, RetryAttaches, sendVars, netVars
<1>7. Futures'
  BY Frames
  DEF IInv, RetryAttaches, AttachCallback, RpcRetryCallback, sendVars, futVars,
      netVars
<1> QED
  BY <1>1, <1>2, <1>3, <1>4, <1>5, <1>6, <1>7 DEF IInv

\* A retry that threw answers the call with an error.
LEMMA RetryFailsKeeps ==
  ASSUME IInv, UNCHANGED load, NEW c \in Calls, RetryFails(c)
  PROVE  IInv'
<1>1. Typed'
  BY IdFacts, ConstAssumption DEF IInv, Typed, RetryFails, sendVars, futVars, netVars
<1>2. OneHolder'
  <2> SUFFICES ASSUME NEW d \in Calls PROVE HolderOf(d)'
    BY DEF OneHolder
  <2> QED
    BY DEF IInv, OneHolder, HolderOf, Calling, Awaited, InRetry, Sending,
           RetryDisjoint, RetryFails, sendVars, futVars
<1>3. RetryDisjoint'
  BY IdFacts, ConstAssumption
  DEF IInv, RetryDisjoint, OneHolder, HolderOf, InRetry, Typed, RetryFails, sendVars,
      futVars, netVars
<1>4. Begun'
  <2> SUFFICES ASSUME NEW d \in Calls PROVE BegunOf(d)'
    BY DEF Begun
  <2> QED
    BY DEF IInv, Begun, BegunOf, Sent, InRetry, RetryFails, sendVars, netVars
<1>5. InOrder' /\ Futures' /\ Expected'
  BY Frames DEF IInv, RetryFails, sendVars, futVars, netVars
<1> QED
  BY <1>1, <1>2, <1>3, <1>4, <1>5 DEF IInv

\* The retry thread goes back to its loop.
LEMMA RetryLoopsKeeps ==
  ASSUME IInv, UNCHANGED load, RetryLoops
  PROVE  IInv'
<1>1. Typed'
  BY IdFacts, ConstAssumption DEF IInv, Typed, RetryLoops, sendVars, futVars, netVars
<1>2. OneHolder'
  <2> SUFFICES ASSUME NEW d \in Calls PROVE HolderOf(d)'
    BY DEF OneHolder
  <2> QED
    BY DEF IInv, OneHolder, HolderOf, Calling, Awaited, InRetry, Sending, RetryLoops,
           sendVars, futVars
<1>3. RetryDisjoint'
  BY IdFacts, ConstAssumption
  DEF IInv, RetryDisjoint, OneHolder, HolderOf, InRetry, Typed, RetryLoops, sendVars,
      futVars, netVars
<1>4. Begun'
  <2> SUFFICES ASSUME NEW d \in Calls PROVE BegunOf(d)'
    BY DEF Begun
  <2> QED
    BY DEF IInv, Begun, BegunOf, Sent, InRetry, RetryLoops, sendVars, netVars
<1>5. InOrder' /\ Futures' /\ Expected'
  BY Frames DEF IInv, RetryLoops, sendVars, futVars, netVars
<1> QED
  BY <1>1, <1>2, <1>3, <1>4, <1>5 DEF IInv

\* The timeout thread marks a future with an error.
LEMMA PollMarksKeeps ==
  ASSUME IInv, UNCHANGED load, NEW c \in Calls, NEW k \in 0..MaxRetries,
         PollMarks(<<c, k>>)
  PROVE  IInv'
<1>1. Typed'
  BY IdFacts, ConstAssumption
  DEF IInv, Typed, PollMarks, MarkFuture, sendVars, retryVars, netVars
<1>2. Futures'
  <2> SUFFICES ASSUME NEW d \in Calls, NEW j \in 0..MaxRetries PROVE FutureOf(d, j)'
    BY DEF Futures
  <2>1. FutureOf(d, j) /\ FutureOf(c, k) /\ <<d, j>> \in Ids /\ <<c, k>> \in Ids
    BY IdFacts DEF IInv, Futures
  <2>2. /\ UNCHANGED <<fut, wire, ran>> /\ flag' = flag \cup {<<c, k>>}
        /\ DOMAIN task = Ids
        /\ \/ <<c, k>> \in flag /\ task' = task
           \/ <<c, k>> \notin flag /\ task' = [task EXCEPT ![<<c, k>>] = "err"]
    BY DEF PollMarks, MarkFuture, netVars, IInv, Typed
  <2>3. CASE d = c /\ j = k
    BY <2>1, <2>2, <2>3 DEF FutureOf
  <2>4. CASE <<d, j>> # <<c, k>>
    <3>1. task'[<<d, j>>] = task[<<d, j>>]
      BY <2>1, <2>2, <2>4
    <3> QED
      BY <2>1, <2>2, <3>1 DEF FutureOf
  <2> QED
    BY <2>3, <2>4
<1>3. OneHolder' /\ RetryDisjoint' /\ Begun' /\ InOrder' /\ Expected'
  BY Frames DEF IInv, PollMarks, MarkFuture, sendVars, retryVars, netVars
<1> QED
  BY <1>1, <1>2, <1>3 DEF IInv

\* A peer runs a request.
LEMMA ServeKeeps ==
  ASSUME IInv, UNCHANGED load, NEW c \in Calls, NEW k \in 0..MaxRetries,
         Serve(<<c, k>>)
  PROVE  IInv'
<1>a. PICK r \in {"ok", "err"} : wire' = [wire EXCEPT ![<<c, k>>] = r]
  BY DEF Serve
<1>b. /\ wire[<<c, k>>] = "request" /\ ran' = ran \cup {c} /\ ExpectedOf(c, k)
      /\ <<c, k>> \in Ids
  BY IdFacts DEF Serve, IInv, Expected
<1>1. Typed'
  BY IdFacts, <1>a, <1>b, ConstAssumption
  DEF IInv, Typed, Serve, sendVars, futVars, retryVars
<1>2. Begun'
  <2> SUFFICES ASSUME NEW d \in Calls PROVE BegunOf(d)'
    BY DEF Begun
  <2> QED
    BY DEF IInv, Begun, BegunOf, Sent, InRetry, Expected, ExpectedOf, Serve, sendVars,
           retryVars
<1>3. Futures'
  <2> SUFFICES ASSUME NEW d \in Calls, NEW j \in 0..MaxRetries PROVE FutureOf(d, j)'
    BY DEF Futures
  <2> QED
    BY DEF IInv, Futures, FutureOf, Serve, futVars
<1>4. Expected'
  <2> SUFFICES ASSUME NEW d \in Calls, NEW j \in 0..MaxRetries PROVE ExpectedOf(d, j)'
    BY DEF Expected
  <2>1. ExpectedOf(d, j) /\ <<d, j>> \in Ids /\ <<d, 0>> \in Ids
    BY IdFacts DEF IInv, Expected
  <2>2. (Sending(<<d, j>>) \/ stage[<<d, j>>] = "none" => wire[<<d, j>>] = "none")'
    BY <2>1, <1>a, <1>b
    DEF IInv, Typed, ExpectedOf, Sending, Serve, sendVars, futVars, retryVars
  <2>3. (Sending(<<d, j>>) \/ wire[<<d, j>>] \in {"request", "ok", "err"}
           => To[d] \in down \/ <<d, j>> \in pending)'
    BY <2>1, <1>a, <1>b
    DEF IInv, Typed, ExpectedOf, Sending, Serve, sendVars, futVars, retryVars
  <2>4. (wire[<<d, j>>] # "none" \/ <<d, j>> \in attached => Sent(d))'
    BY <2>1, <1>a, <1>b
    DEF IInv, Typed, ExpectedOf, Sent, Serve, sendVars, futVars, retryVars
  <2> QED
    BY <2>2, <2>3, <2>4 DEF ExpectedOf
<1>5. OneHolder' /\ RetryDisjoint' /\ InOrder'
  BY Frames DEF IInv, Serve, sendVars, futVars, retryVars
<1> QED
  BY <1>1, <1>2, <1>3, <1>4, <1>5 DEF IInv

\* A response arrives.
LEMMA ReceiveKeeps ==
  ASSUME IInv, UNCHANGED load, NEW c \in Calls, NEW k \in 0..MaxRetries,
         Receive(<<c, k>>)
  PROVE  IInv'
<1>a. /\ wire[<<c, k>>] \in {"ok", "err"} /\ wire' = [wire EXCEPT ![<<c, k>>] = "closed"]
      /\ flag' = flag \cup {<<c, k>>} /\ FutureOf(c, k) /\ UNCHANGED <<fut, ran>>
      /\ \/ <<c, k>> \in flag /\ task' = task
         \/ <<c, k>> \notin flag /\ task' = [task EXCEPT ![<<c, k>>] = wire[<<c, k>>]]
  BY DEF Receive, MarkFuture, IInv, Futures
<1>1. Typed'
  BY IdFacts, <1>a, ConstAssumption DEF IInv, Typed, Receive, MarkFuture, retryVars
<1>2. Futures'
  <2> SUFFICES ASSUME NEW d \in Calls, NEW j \in 0..MaxRetries PROVE FutureOf(d, j)'
    BY DEF Futures
  <2>1. FutureOf(d, j) /\ <<d, j>> \in Ids /\ <<c, k>> \in Ids
    BY IdFacts DEF IInv, Futures
  <2>2. CASE d = c /\ j = k
    BY <2>1, <2>2, <1>a DEF IInv, Typed, FutureOf
  <2>3. CASE <<d, j>> # <<c, k>>
    BY <2>1, <2>3, <1>a DEF IInv, Typed, FutureOf
  <2> QED
    BY <2>2, <2>3
<1>3. Expected'
  <2> SUFFICES ASSUME NEW d \in Calls, NEW j \in 0..MaxRetries PROVE ExpectedOf(d, j)'
    BY DEF Expected
  <2>1. ExpectedOf(d, j) /\ <<d, j>> \in Ids /\ <<c, k>> \in Ids
    BY IdFacts DEF IInv, Expected
  <2>2. /\ UNCHANGED <<stage, down, attached>> /\ pending' = pending \ {<<c, k>>}
        /\ DOMAIN wire = Ids
    BY DEF Receive, retryVars, IInv, Typed
  <2>3. CASE d = c /\ j = k
    BY <1>a, <2>1, <2>2, <2>3 DEF ExpectedOf, Sending, Sent
  <2>4. CASE <<d, j>> # <<c, k>>
    <3>1. wire'[<<d, j>>] = wire[<<d, j>>]
      BY <1>a, <2>1, <2>2, <2>4
    <3> QED
      BY <2>1, <2>2, <2>4, <3>1 DEF ExpectedOf, Sending, Sent
  <2> QED
    BY <2>3, <2>4
<1>4. OneHolder' /\ RetryDisjoint' /\ Begun' /\ InOrder'
  BY Frames DEF IInv, Receive, MarkFuture, retryVars
<1> QED
  BY <1>1, <1>2, <1>3, <1>4 DEF IInv

\* A pipe breaks, or all are closed.
LEMMA PipeKeeps ==
  ASSUME IInv, UNCHANGED load, (\E p \in Peers : PipeBreaks(p)) \/ CloseContext
  PROVE  IInv'
<1>1. Typed'
  BY IdFacts, ConstAssumption
  DEF IInv, Typed, PipeBreaks, CloseContext, StopUnchanged, sendVars, futVars,
      retryVars
<1>2. Expected'
  <2> SUFFICES ASSUME NEW d \in Calls, NEW j \in 0..MaxRetries PROVE ExpectedOf(d, j)'
    BY DEF Expected
  <2> QED
    BY ConstAssumption
    DEF IInv, Expected, ExpectedOf, Sending, Sent, PipeBreaks, CloseContext,
        StopUnchanged, sendVars, retryVars
<1>3. OneHolder' /\ RetryDisjoint' /\ Begun' /\ InOrder' /\ Futures'
  BY Frames
  DEF IInv, PipeBreaks, CloseContext, StopUnchanged, sendVars, futVars, retryVars
<1> QED
  BY <1>1, <1>2, <1>3 DEF IInv

\* The messages of a broken pipe leave pendingResponseMessage_.
LEMMA HandleClientErrorKeeps ==
  ASSUME IInv, UNCHANGED load, NEW c \in Calls, NEW k \in 0..MaxRetries,
         HandleClientError(<<c, k>>)
  PROVE  IInv'
<1>1. Typed'
  BY IdFacts, ConstAssumption DEF IInv, Typed, HandleClientError, futVars, retryVars
<1>2. Futures'
  <2> SUFFICES ASSUME NEW d \in Calls, NEW j \in 0..MaxRetries PROVE FutureOf(d, j)'
    BY DEF Futures
  <2> QED
    BY IdFacts, ConstAssumption
    DEF IInv, Futures, FutureOf, Typed, Begun, BegunOf, HandleClientError, futVars,
        retryVars
<1>3. Expected'
  <2> SUFFICES ASSUME NEW d \in Calls, NEW j \in 0..MaxRetries PROVE ExpectedOf(d, j)'
    BY DEF Expected
  <2>1. ExpectedOf(d, j) /\ <<d, j>> \in Ids /\ <<c, k>> \in Ids /\ Peer(<<d, j>>) = To[d]
    BY IdFacts DEF IInv, Expected
  <2>2. /\ UNCHANGED <<stage, down, attached>> /\ DOMAIN wire = Ids
        /\ Peer(<<c, k>>) \in down /\ wire[<<c, k>>] \in {"request", "ok", "err"}
        /\ wire' = [wire EXCEPT ![<<c, k>>] = "closed"]
        /\ pending' = pending \ {i \in pending : Peer(i) = Peer(<<c, k>>)}
    BY DEF HandleClientError, retryVars, IInv, Typed
  <2>3. <<d, j>> \in pending => To[d] \in down' \/ <<d, j>> \in pending'
    BY <2>1, <2>2
  <2>4. CASE d = c /\ j = k
    BY <2>1, <2>2, <2>3, <2>4 DEF ExpectedOf, Sending, Sent
  <2>5. CASE <<d, j>> # <<c, k>>
    <3>1. wire'[<<d, j>>] = wire[<<d, j>>]
      BY <2>1, <2>2, <2>5
    <3> QED
      BY <2>1, <2>2, <2>3, <3>1 DEF ExpectedOf, Sending, Sent
  <2> QED
    BY <2>4, <2>5
<1>4. OneHolder' /\ RetryDisjoint' /\ Begun' /\ InOrder'
  BY Frames DEF IInv, HandleClientError, futVars, retryVars
<1> QED
  BY <1>1, <1>2, <1>3, <1>4 DEF IInv

\* ... and are marked with an error.
LEMMA FlushKeeps ==
  ASSUME IInv, UNCHANGED load, NEW c \in Calls, NEW k \in 0..MaxRetries,
         Flush(<<c, k>>)
  PROVE  IInv'
<1>1. Typed'
  BY IdFacts, ConstAssumption DEF IInv, Typed, Flush, MarkFuture, retryVars
<1>2. Futures'
  <2> SUFFICES ASSUME NEW d \in Calls, NEW j \in 0..MaxRetries PROVE FutureOf(d, j)'
    BY DEF Futures
  <2> QED
    BY IdFacts, ConstAssumption
    DEF IInv, Futures, FutureOf, Typed, Begun, BegunOf, Flush, MarkFuture, retryVars
<1>3. OneHolder' /\ RetryDisjoint' /\ Begun' /\ InOrder' /\ Expected'
  BY Frames DEF IInv, Flush, MarkFuture, retryVars
<1> QED
  BY <1>1, <1>2, <1>3 DEF IInv

\* Steps of the timeout thread and of shutdown() that touch no call.
LEMMA OthersKeep ==
  ASSUME IInv, UNCHANGED <<load, stage, pending, futVars, retryVars, netVars>>
  PROVE  IInv'
<1>1. Typed'
  BY DEF IInv, Typed, futVars, retryVars, netVars
<1>2. OneHolder' /\ RetryDisjoint' /\ Begun' /\ InOrder' /\ Futures' /\ Expected'
  BY Frames DEF IInv, futVars, retryVars, netVars
<1> QED
  BY <1>1, <1>2 DEF IInv

\* No call has begun.
LEMMA InitHolds == Init => IInv
<1> SUFFICES ASSUME Init PROVE IInv
  OBVIOUS
<1>1. Typed
  BY ConstAssumption DEF Init, Typed
<1>2. RetryDisjoint
  BY DEF Init, RetryDisjoint
<1>3. OneHolder
  BY IdFacts DEF Init, OneHolder, HolderOf, Calling, Awaited, InRetry, Sending
<1>4. Begun
  BY IdFacts DEF Init, Begun, BegunOf, Sent, InRetry
<1>5. InOrder
  BY DEF Init, InOrder, InOrderOf
<1>6. Futures
  BY IdFacts DEF Init, Futures, FutureOf
<1>7. Expected
  BY IdFacts DEF Init, Expected, ExpectedOf, Sending
<1> QED
  BY <1>1, <1>2, <1>3, <1>4, <1>5, <1>6, <1>7 DEF IInv

\* Every step keeps the invariant.
LEMMA StepKeeps ==
  ASSUME IInv, [Next]_vars
  PROVE  IInv'
<1>1. CASE UNCHANGED vars
  BY <1>1, OthersKeep DEF vars, agentVars, sendVars
<1>2. CASE Next
  <2>0. UNCHANGED load
    BY <1>2 DEF Next
  <2>1. ASSUME NEW c \in Calls, Call(c) \/ CallerStep(c)
        PROVE  IInv'
    BY <2>0, <2>1, CallKeeps, CallerSendsKeeps, CallerAttachesKeeps, RescheduleKeeps
    DEF CallerStep
  <2>2. ASSUME NEW id \in Ids,
               PoolStep(id) \/ Serve(id) \/ Receive(id) \/ HandleClientError(id) \/ Flush(id)
        PROVE  IInv'
    <3>1. PICK c \in Calls, k \in 0..MaxRetries : id = <<c, k>>
      BY IdFacts
    <3>2. CASE PoolStep(id)
      BY <2>0, <3>1, <3>2, CompleteKeeps, DecreaseKeeps, RescheduleKeeps DEF PoolStep
    <3>3. CASE Serve(id) \/ Receive(id)
      BY <2>0, <3>1, <3>3, ServeKeeps, ReceiveKeeps
    <3>4. CASE HandleClientError(id) \/ Flush(id)
      BY <2>0, <3>1, <3>4, HandleClientErrorKeeps, FlushKeeps
    <3> QED
      BY <2>2, <3>2, <3>3, <3>4
  <2>3. CASE RetryStep
    BY <2>0, <2>3, TakeRetriesKeeps, RetryLoopsKeeps, RetryBeginsKeeps,
       RetrySendsKeeps,
       RetryAttachesKeeps, RetryFailsKeeps, RescheduleKeeps
    DEF RetryStep
  <2>4. CASE PollStep
    <3>1. CASE PollWaits \/ PollEnds \/ PollTakes
      BY <2>0, <3>1, OthersKeep DEF PollWaits, PollEnds, PollTakes, PollUnchanged
    <3>2. ASSUME NEW id \in Ids, PollMarks(id)
          PROVE  IInv'
      <4>1. PICK c \in Calls, k \in 0..MaxRetries : id = <<c, k>>
        BY IdFacts
      <4> QED
        BY <2>0, <3>2, <4>1, PollMarksKeeps
    <3> QED
      BY <2>4, <3>1, <3>2 DEF PollStep
  <2>5. CASE ShutdownStep \/ Stop
    <3>1. CASE CloseContext
      BY <2>0, <3>1, PipeKeeps
    <3>2. CASE Stop \/ JoinRetryThread \/ NotifyTimeoutThread \/ WaitWorkComplete
      BY <2>0, <3>2, OthersKeep
      DEF Stop, JoinRetryThread, NotifyTimeoutThread, WaitWorkComplete, StopUnchanged,
          sendVars, netVars
    <3> QED
      BY <2>5, <3>1, <3>2 DEF ShutdownStep
  <2>6. CASE \E p \in Peers : PipeBreaks(p)
    BY <2>0, <2>6, PipeKeeps
  <2> QED
    BY <1>2, <2>1, <2>2, <2>3, <2>4, <2>5, <2>6 DEF Next
<1> QED
  BY <1>1, <1>2

\* Every call in progress has one holder.
THEOREM Holding == Spec => []IInv
<1>1. IInv /\ [Next]_vars => IInv'
  BY StepKeeps
<1> QED
  BY <1>1, InitHolds, PTL DEF Spec

\* The read callback always finds the message of a response in
\* pendingResponseMessage_, even if its future has timed out.
THEOREM Recognized == Spec => []ResponseRecognized
<1>1. IInv => ResponseRecognized
  <2> SUFFICES ASSUME IInv, NEW id \in Ids, wire[id] \in {"ok", "err"}, Peer(id) \notin down
               PROVE  id \in pending
    BY DEF ResponseRecognized
  <2>1. PICK c \in Calls, k \in 0..MaxRetries : id = <<c, k>>
    BY IdFacts
  <2>2. ExpectedOf(c, k) /\ Peer(<<c, k>>) = To[c]
    BY IdFacts DEF IInv, Expected
  <2> QED
    BY <2>1, <2>2 DEF ExpectedOf
<1> QED
  BY <1>1, Holding, PTL

-----------------------------------------------------------------------------
\* The callback of an attached attempt completes originalFuture_ of a call that
\* is open, and with a value only if the request ran.
LEMMA CompleteImplements ==
  ASSUME IInv, NEW c \in Calls, NEW k \in 0..MaxRetries, Complete(<<c, k>>)
  PROVE  [Promise!Next]_<<orig, ran>>
<1>1. CASE UNCHANGED orig
  BY <1>1 DEF Complete, netVars
<1>2. CASE <<c, k>> \in attached /\ orig' = [orig EXCEPT ![c] = task[<<c, k>>]]
  <2>1. FutureOf(c, k) /\ InOrderOf(c, k) /\ HolderOf(c) /\ count[c] \in Nat
    BY DEF IInv, Futures, InOrder, OneHolder, Typed
  <2>2. task[<<c, k>>] \in {"ok", "err"} /\ fut[<<c, k>>] = "open"
    BY <2>1 DEF Complete, FutureOf
  <2>3. k = count[c]
    BY <1>2, <2>1, <2>2 DEF InOrderOf
  <2>4. orig[c] = "open"
    BY <1>2, <2>1, <2>2, <2>3 DEF HolderOf, Awaited
  <2>5. Promise!Complete(c, task[<<c, k>>])
    BY <1>2, <2>1, <2>2, <2>4 DEF Promise!Complete, FutureOf, Complete, netVars
  <2> QED
    BY <2>2, <2>5 DEF Promise!Next
<1> QED
  BY <1>1, <1>2 DEF Complete, RpcRetryCallback

\* The caller's callback, run at once.
LEMMA CallerImplements ==
  ASSUME IInv, NEW c \in Calls, CallerAttaches(c)
  PROVE  [Promise!Next]_<<orig, ran>>
<1>1. CASE UNCHANGED orig
  BY <1>1 DEF CallerAttaches, netVars
<1>2. CASE fut[<<c, 0>>] # "open" /\ orig' = [orig EXCEPT ![c] = fut[<<c, 0>>]]
  <2>1. FutureOf(c, 0) /\ HolderOf(c) /\ fut[<<c, 0>>] \in {"ok", "err"}
    BY <1>2, IdFacts DEF IInv, Futures, OneHolder, Typed
  <2>2. orig[c] = "open"
    BY <2>1 DEF HolderOf, Calling, CallerAttaches
  <2>3. Promise!Complete(c, fut[<<c, 0>>])
    BY <1>2, <2>1, <2>2 DEF Promise!Complete, FutureOf, CallerAttaches, netVars
  <2> QED
    BY <2>1, <2>3 DEF Promise!Next
<1> QED
  BY <1>1, <1>2 DEF CallerAttaches, AttachCallback, RpcRetryCallback

\* The retry thread's callback, run at once.
LEMMA RetryImplements ==
  ASSUME IInv, NEW c \in Calls, RetryAttaches(c)
  PROVE  [Promise!Next]_<<orig, ran>>
<1>0. /\ HolderOf(c) /\ InRetry(c) /\ Attempt(c) = <<c, count[c] + 1>>
      /\ count[c] + 1 \in 0..MaxRetries /\ <<c, count[c] + 1>> \in Ids
  <2>1. InRetry(c)
    BY DEF RetryAttaches, InRetry
  <2> QED
    BY <2>1, AttemptFacts DEF IInv, OneHolder
<1>1. CASE UNCHANGED orig
  BY <1>1 DEF RetryAttaches, netVars
<1>2. CASE /\ fut[<<c, count[c] + 1>>] # "open"
           /\ orig' = [orig EXCEPT ![c] = fut[<<c, count[c] + 1>>]]
  <2>1. FutureOf(c, count[c] + 1) /\ fut[<<c, count[c] + 1>>] \in {"ok", "err"}
    BY <1>0, <1>2 DEF IInv, Futures, Typed
  <2>2. orig[c] = "open"
    BY <1>0 DEF HolderOf
  <2>3. Promise!Complete(c, fut[<<c, count[c] + 1>>])
    BY <1>2, <2>1, <2>2 DEF Promise!Complete, FutureOf, RetryAttaches, netVars
  <2> QED
    BY <2>1, <2>3 DEF Promise!Next
<1> QED
  BY <1>0, <1>1, <1>2 DEF RetryAttaches, AttachCallback, RpcRetryCallback

\* A step of the agent is a step of the promise, or changes nothing the caller
\* or the callee sees.
LEMMA StepImplements ==
  ASSUME IInv, [Next]_vars
  PROVE  [Promise!Next]_<<orig, ran>>
<1>1. CASE UNCHANGED vars
  BY <1>1 DEF vars, agentVars, retryVars, netVars
<1>2. ASSUME NEW c \in Calls, Call(c)
      PROVE  [Promise!Next]_<<orig, ran>>
  <2>1. BegunOf(c)
    BY DEF IInv, Begun
  <2>2. Promise!Begin(c) \/ Promise!Refuse(c)
    BY <1>2, <2>1 DEF Call, BegunOf, Sent, Promise!Begin, Promise!Refuse, netVars
  <2> QED
    BY <2>2 DEF Promise!Next
<1>3. ASSUME NEW c \in Calls, CallerSends(c)
      PROVE  [Promise!Next]_<<orig, ran>>
  <2>1. Sending(<<c, 0>>) /\ BegunOf(c) /\ HolderOf(c)
    BY <1>3, SendStepFacts, IdFacts DEF IInv, Begun, OneHolder, CallerSends
  <2>2. Promise!Refuse(c) \/ UNCHANGED <<orig, ran>>
    BY <1>3, <2>1
    DEF CallerSends, BegunOf, HolderOf, Sent, Sending, Calling, Promise!Refuse
  <2> QED
    BY <2>2 DEF Promise!Next
<1>4. ASSUME NEW c \in Calls, RetryFails(c)
      PROVE  [Promise!Next]_<<orig, ran>>
  <2>1. HolderOf(c) /\ InRetry(c)
    BY <1>4 DEF IInv, OneHolder, RetryFails, InRetry
  <2>2. Promise!Complete(c, "err")
    BY <1>4, <2>1 DEF HolderOf, RetryFails, Promise!Complete, netVars
  <2> QED
    BY <2>2 DEF Promise!Next
<1>5. ASSUME NEW c \in Calls, NEW k \in 0..MaxRetries, Serve(<<c, k>>)
      PROVE  [Promise!Next]_<<orig, ran>>
  <2>1. ExpectedOf(c, k) /\ BegunOf(c)
    BY DEF IInv, Expected, Begun
  <2>2. Promise!Execute(c)
    BY <1>5, <2>1 DEF ExpectedOf, BegunOf, Serve, Promise!Execute, retryVars
  <2> QED
    BY <2>2 DEF Promise!Next
<1>6. CASE Next
  <2>1. ASSUME NEW c \in Calls, Call(c) \/ CallerStep(c)
        PROVE  [Promise!Next]_<<orig, ran>>
    BY <1>2, <1>3, <2>1, CallerImplements DEF CallerStep, Reschedule, netVars
  <2>2. ASSUME NEW id \in Ids,
               PoolStep(id) \/ Serve(id) \/ Receive(id) \/ HandleClientError(id) \/ Flush(id)
        PROVE  [Promise!Next]_<<orig, ran>>
    <3>1. PICK c \in Calls, k \in 0..MaxRetries : id = <<c, k>>
      BY IdFacts
    <3>2. CASE Complete(id) \/ Serve(id)
      BY <1>5, <3>1, <3>2, CompleteImplements
    <3>3. CASE \/ DecreaseCallCount(id) \/ Reschedule(id[1]) \/ Receive(id)
               \/ HandleClientError(id) \/ Flush(id)
      BY <3>3 DEF DecreaseCallCount, Reschedule, Receive, HandleClientError, Flush,
                  retryVars, netVars
    <3> QED
      BY <2>2, <3>2, <3>3 DEF PoolStep
  <2>3. CASE RetryStep
    <3>1. ASSUME NEW c \in Calls, RetryAttaches(c) \/ RetryFails(c)
          PROVE  [Promise!Next]_<<orig, ran>>
      BY <1>4, <3>1, RetryImplements
    <3>2. ASSUME NEW c \in Calls, RetryBegins(c) \/ RetrySends(c) \/ Reschedule(c)
          PROVE  UNCHANGED <<orig, ran>>
      BY <3>2 DEF RetryBegins, RetrySends, Reschedule, retryVars, netVars
    <3>3. CASE TakeRetries \/ RetryLoops
      BY <3>3 DEF TakeRetries, RetryLoops, netVars
    <3> QED
      BY <2>3, <3>1, <3>2, <3>3 DEF RetryStep
  <2>4. CASE PollStep \/ ShutdownStep \/ Stop \/ \E p \in Peers : PipeBreaks(p)
    BY <2>4 DEF PollStep, PollWaits, PollEnds, PollTakes, PollMarks, PollUnchanged,
                ShutdownStep, JoinRetryThread, NotifyTimeoutThread, CloseContext,
                WaitWorkComplete, Stop, StopUnchanged, PipeBreaks, retryVars, netVars
  <2> QED
    BY <1>6, <2>1, <2>2, <2>3, <2>4 DEF Next
<1> QED
  BY <1>1, <1>6

\* sendWithRetries() implements RpcCalls: its future is completed at most once,
\* with a value only if the callee ran the request.
THEOREM Refinement == Spec => ImplementsCalls
<1>1. Init => Promise!Init
  BY DEF Init, Promise!Init
<1>2. IInv /\ [Next]_vars => [Promise!Next]_<<orig, ran>>
  BY StepImplements
<1> QED
  BY <1>1, <1>2, Holding, PTL DEF Spec, ImplementsCalls, Promise!Spec
-----------------------------------------------------------------------------
(* What join() and shutdown() rely on.                                     *)

\* The other types.
More ==
  /\ running \in BOOLEAN /\ active \in Int
  /\ pending \subseteq Ids /\ timeouts \subseteq Ids /\ flag \subseteq Ids
  /\ attached \subseteq Ids /\ flushing \subseteq Ids
  /\ \A c \in Calls : count[c] \leq load.retries
  /\ poll \in [pc : {"armed", "wait", "mark", "gone"}, expired : SUBSET Ids]
  /\ down \subseteq Peers /\ ran \subseteq Calls
  /\ stop \in {"none", "stopped", "retryJoined", "notified", "closing", "done"}

\* A message somebody may complete the future of was begun; one that was begun
\* is pending, about to be marked, or marked; one that was marked has work in
\* the pool.
MessageOf(c, k) ==
  /\ \/ <<c, k>> \in pending \cup timeouts \cup poll.expired \cup flushing \cup flag
     \/ task[<<c, k>>] # "none"
     => stage[<<c, k>>] # "none"
  /\ stage[<<c, k>>] # "none" => <<c, k>> \in pending \cup flushing \cup flag
  /\ wire[<<c, k>>] = "closed" => <<c, k>> \notin pending
  /\ <<c, k>> \in flag => task[<<c, k>>] # "none"
  /\ stage[<<c, k>>] = "sent" => wire[<<c, k>>] # "none"
  /\ <<c, k>> \in attached => stage[<<c, k>>] = "sent"

\* A call in progress has a holder.
HeldOf(c) ==
  orig[c] = "open" => Calling(c) \/ Awaited(c) \/ sched[c] # "no" \/ InRetry(c)

\* A pool thread that reschedules a call has not yet decreased the count.
WorksOf(c) ==
  sched[c] = "pool" => \E k \in 0..MaxRetries : task[<<c, k>>] = "decrease"

\* What the retry thread has in hand in each of its phases.
RetryOf(c) ==
  /\ c \in retry.sent => stage[<<c, count[c] + 1>>] = "sent"
  /\ sched[c] = "retry" => retry.pc = "attach"

Retrying ==
  /\ \A c \in Calls : RetryOf(c)
  /\ retry.pc # "send" => retry.batch = {}
  /\ retry.pc \in {"sleep", "gone"} => retry.sent = {} /\ retry.failed = {}

Messages == \A c \in Calls, k \in 0..MaxRetries : MessageOf(c, k)
Held == \A c \in Calls : HeldOf(c)
Works == \A c \in Calls : WorksOf(c)

\* What shutdown() has waited for.
Stopping ==
  /\ stop # "none" => ~running /\ \A c \in Calls : ~InSend(c)
  /\ stop \notin {"none", "stopped"} => retry.pc = "gone"
  /\ stop \in {"closing", "done"} => poll.pc = "gone" /\ down = Peers
  /\ stop = "done" =>
       /\ flushing = {}
       /\ \A id \in Ids : wire[id] \in {"none", "closed"} /\ task[id] \in {"none", "done"}

\* Messages counted by increaseCallCount(), and by decreaseCallCount().
Started == {id \in Ids : stage[id] \in {"counted", "timed", "sent"}}
Finished == {id \in Ids : task[id] = "done"}

Counted == active = Cardinality(Started) - Cardinality(Finished)

SInv == More /\ Messages /\ Held /\ Works /\ Retrying /\ Stopping /\ Counted

-----------------------------------------------------------------------------
\* Steps that leave the variables of a conjunct alone keep it.
LEMMA SFrames ==
  /\ More /\ UNCHANGED <<load, running, active, pending, timeouts, flag, attached, flushing,
                         count, poll, down, ran, stop>>
       => More'
  /\ Messages /\ UNCHANGED <<stage, pending, timeouts, poll, flushing, flag, task, wire,
                             attached>>
       => Messages'
  /\ Held /\ UNCHANGED <<orig, stage, attached, count, fut, sched, retryMap, retry>>
       => Held'
  /\ Works /\ UNCHANGED <<sched, task>>
       => Works'
  /\ Retrying /\ UNCHANGED <<retry, stage, count, sched>>
       => Retrying'
  /\ Stopping /\ UNCHANGED <<stop, running, stage, sched, attached, retry, poll, down, flushing,
                             wire, task>>
       => Stopping'
  /\ Counted /\ UNCHANGED <<active, stage, task>>
       => Counted'
<1>1. More /\ UNCHANGED <<load, running, active, pending, timeouts, flag, attached, flushing,
                          count, poll, down, ran, stop>>
       => More'
  BY DEF More
<1>2. Messages /\ UNCHANGED <<stage, pending, timeouts, poll, flushing, flag, task, wire,
                             attached>>
       => Messages'
  BY DEF Messages, MessageOf
<1>3. Held /\ UNCHANGED <<orig, stage, attached, count, fut, sched, retryMap, retry>>
       => Held'
  BY DEF Held, HeldOf, Calling, Awaited, InRetry, Sending
<1>4. Works /\ UNCHANGED <<sched, task>>
       => Works'
  BY DEF Works, WorksOf
<1>5. Retrying /\ UNCHANGED <<retry, stage, count, sched>>
       => Retrying'
  BY DEF Retrying, RetryOf
<1>6. Stopping /\ UNCHANGED <<stop, running, stage, sched, attached, retry, poll, down,
                              flushing, wire, task>>
       => Stopping'
  BY DEF Stopping, InSend, Sending
<1>7. Counted /\ UNCHANGED <<active, stage, task>>
       => Counted'
  BY DEF Counted, Started, Finished
<1> QED
  BY <1>1, <1>2, <1>3, <1>4, <1>5, <1>6, <1>7

\* The messages are finitely many, so the counts are numbers.
LEMMA CountFacts ==
  /\ IsFiniteSet(Ids) /\ IsFiniteSet(Started) /\ IsFiniteSet(Finished)
  /\ Cardinality(Started) \in Nat /\ Cardinality(Finished) \in Nat
<1>1. IsFiniteSet(0..MaxRetries)
  BY FS_Interval, ConstAssumption
<1>2. IsFiniteSet(Ids)
  BY <1>1, FS_Product, ConstAssumption DEF Ids
<1>3. Started \subseteq Ids /\ Finished \subseteq Ids
  BY DEF Started, Finished
<1>4. IsFiniteSet(Started) /\ IsFiniteSet(Finished)
  BY <1>2, <1>3, FS_Subset
<1> QED
  BY <1>2, <1>4, FS_CardinalityType

\* Nothing is counted twice when the sets stay.
LEMMA SameCount ==
  ASSUME Counted, UNCHANGED active, Started' = Started, Finished' = Finished
  PROVE  Counted'
BY DEF Counted

\* Marking a future hands it to the pool once: only a message with no work yet.
LEMMA MarkFacts ==
  ASSUME IInv, SInv, NEW c \in Calls, NEW k \in 0..MaxRetries, NEW r \in {"ok", "err"},
         MarkFuture(<<c, k>>, r)
  PROVE  /\ flag' = flag \cup {<<c, k>>} /\ UNCHANGED fut
         /\ task[<<c, k>>] = "none" => task'[<<c, k>>] = r
         /\ task[<<c, k>>] # "none" => task'[<<c, k>>] = task[<<c, k>>]
         /\ \A id \in Ids \ {<<c, k>>} : task'[id] = task[id]
         /\ Finished' = Finished
<1>1. task[<<c, k>>] # "none" <=> <<c, k>> \in flag
  BY DEF IInv, Futures, FutureOf, SInv, Messages, MessageOf
<1>2. <<c, k>> \in Ids /\ DOMAIN task = Ids
  BY IdFacts DEF IInv, Typed
<1>3. /\ flag' = flag \cup {<<c, k>>} /\ UNCHANGED fut
      /\ task' = IF <<c, k>> \in flag THEN task ELSE [task EXCEPT ![<<c, k>>] = r]
  BY DEF MarkFuture
<1>4. /\ task[<<c, k>>] = "none" => task'[<<c, k>>] = r
      /\ task[<<c, k>>] # "none" => task'[<<c, k>>] = task[<<c, k>>]
      /\ \A id \in Ids \ {<<c, k>>} : task'[id] = task[id]
  BY <1>1, <1>2, <1>3
<1>5. Finished' = Finished
  BY <1>2, <1>4 DEF Finished
<1> QED
  BY <1>3, <1>4, <1>5

\* A step of send(), and what it counts.
LEMMA SendCounts ==
  ASSUME IInv, SInv, NEW c \in Calls, NEW k \in 0..MaxRetries, SendStep(<<c, k>>),
         UNCHANGED task
  PROVE  /\ Counted' /\ active' \in Int
         /\ timeouts' \in {timeouts, timeouts \cup {<<c, k>>}}
         /\ poll' \in [pc : {"armed", "wait", "mark", "gone"}, expired : SUBSET Ids]
         /\ poll'.expired = poll.expired
         /\ poll.pc = "gone" => poll'.pc = "gone"
<1>1. <<c, k>> \in Ids /\ DOMAIN stage = Ids
  BY IdFacts DEF IInv, Typed
<1>2. Finished' = Finished
  BY DEF Finished
<1>3. ASSUME IncreaseCallCount(<<c, k>>) PROVE Counted'
  <2>1. /\ stage[<<c, k>>] = "hooked" /\ stage' = [stage EXCEPT ![<<c, k>>] = "counted"]
        /\ active' = active + 1
    BY <1>3 DEF IncreaseCallCount
  <2>2. Started' = Started \cup {<<c, k>>} /\ <<c, k>> \notin Started
    BY <1>1, <2>1 DEF Started
  <2>3. Cardinality(Started') = Cardinality(Started) + 1
    BY <2>2, CountFacts, FS_AddElement
  <2> QED
    BY <1>2, <2>1, <2>3, CountFacts DEF SInv, Counted, More
<1>4. ASSUME ~IncreaseCallCount(<<c, k>>) PROVE Counted'
  <2>1. UNCHANGED active /\ Started' = Started
    BY <1>1, <1>4
    DEF SendStep, AddAssertion, AddTimeout, PipeWrite, Started
  <2> QED
    BY <1>2, <2>1, SameCount DEF SInv, More
<1>5. Counted' /\ active' \in Int
  <2>1. active' \in Int
    BY DEF SInv, More, SendStep, AddAssertion, IncreaseCallCount, AddTimeout, PipeWrite
  <2> QED
    BY <1>3, <1>4, <2>1
<1>6. /\ timeouts' \in {timeouts, timeouts \cup {<<c, k>>}}
      /\ poll' = poll \/ poll' = Notify(poll)
  BY DEF SendStep, AddAssertion, IncreaseCallCount, AddTimeout, PipeWrite
<1>7. /\ poll' \in [pc : {"armed", "wait", "mark", "gone"}, expired : SUBSET Ids]
      /\ poll'.expired = poll.expired
      /\ poll.pc = "gone" => poll'.pc = "gone"
  BY <1>6 DEF Notify, Check, SInv, More
<1> QED
  BY <1>5, <1>6, <1>7

\* A callback runs before the count of its message is decreased.
LEMMA CompleteKeepsS ==
  ASSUME IInv, SInv, UNCHANGED load, NEW c \in Calls, NEW k \in 0..MaxRetries,
         Complete(<<c, k>>)
  PROVE  SInv'
<1>i. <<c, k>> \in Ids /\ DOMAIN task = Ids /\ DOMAIN sched = Calls /\ DOMAIN fut = Ids
      /\ DOMAIN orig = Calls /\ stage[<<c, k>>] # "none" /\ fut[<<c, k>>] = "open"
  BY IdFacts
  DEF IInv, Typed, SInv, Messages, MessageOf, Futures, FutureOf, Complete
<1>a. /\ task[<<c, k>>] \in {"ok", "err"}
      /\ fut' = [fut EXCEPT ![<<c, k>>] = task[<<c, k>>]]
      /\ task' = [task EXCEPT ![<<c, k>>] = "decrease"]
      /\ UNCHANGED <<running, stage, pending, timeouts, active, flag, attached, count,
                     retryMap, retry, poll, flushing, down, wire, ran, stop>>
      /\ \/ <<c, k>> \notin attached /\ UNCHANGED <<orig, sched>>
         \/ /\ <<c, k>> \in attached /\ running
            /\ orig' = orig /\ sched' = [sched EXCEPT ![c] = "pool"]
         \/ /\ <<c, k>> \in attached
            /\ sched' = sched /\ orig' = [orig EXCEPT ![c] = task[<<c, k>>]]
  BY DEF Complete, RpcRetryCallback, sendVars, netVars
<1>1. More' /\ Counted'
  <2>1. Started' = Started /\ Finished' = Finished
    BY <1>i, <1>a DEF Started, Finished
  <2>2. Counted'
    BY <2>1, <1>a, SameCount DEF SInv
  <2>3. More'
    BY <1>a, SFrames DEF SInv
  <2> QED
    BY <2>2, <2>3
<1>2. Messages'
  <2> SUFFICES ASSUME NEW d \in Calls, NEW j \in 0..MaxRetries PROVE MessageOf(d, j)'
    BY DEF Messages
  <2>1. MessageOf(d, j) /\ <<d, j>> \in Ids
    BY IdFacts DEF SInv, Messages
  <2>2. task'[<<d, j>>] # "none" <=> task[<<d, j>>] # "none"
    BY <1>i, <1>a, <2>1
  <2> QED
    BY <1>a, <2>1, <2>2 DEF MessageOf
<1>3. Held'
  <2> SUFFICES ASSUME NEW d \in Calls PROVE HeldOf(d)'
    BY DEF Held
  <2>1. HeldOf(d) /\ InOrderOf(c, k) /\ count[d] \in 0..MaxRetries /\ count[c] \in 0..MaxRetries
    BY DEF SInv, Held, IInv, InOrder, Typed
  <2>2. /\ Calling(d)' <=> Calling(d)
        /\ InRetry(d)' <=> InRetry(d)
    BY <1>a DEF Calling, InRetry, Sending
  <2>3. CASE d # c \/ count[d] # k
    <3>1. Awaited(d)' <=> Awaited(d)
      BY <1>i, <1>a, <2>1, <2>3, IdFacts DEF Awaited
    <3>2. (orig'[d] = "open" => orig[d] = "open") /\ (sched[d] # "no" => sched'[d] # "no")
      BY <1>i, <1>a
    <3> QED
      BY <2>1, <2>2, <3>1, <3>2 DEF HeldOf
  <2>4. CASE d = c /\ count[d] = k
    <3>1. CASE <<c, k>> \in attached
      <4>1. sched'[c] # "no" \/ orig'[c] # "open"
        BY <1>i, <1>a, <3>1
      <4> QED
        BY <2>4, <4>1 DEF HeldOf
    <3>2. CASE <<c, k>> \notin attached
      BY <1>a, <2>1, <2>2, <2>4, <3>2 DEF HeldOf, Awaited
    <3> QED
      BY <3>1, <3>2
  <2> QED
    BY <2>3, <2>4
<1>4. Works'
  <2> SUFFICES ASSUME NEW d \in Calls, sched'[d] = "pool"
               PROVE  \E j \in 0..MaxRetries : task'[<<d, j>>] = "decrease"
    BY DEF Works, WorksOf
  <2>1. CASE d = c
    BY <1>i, <1>a, <2>1
  <2>2. CASE d # c
    <3>1. PICK j \in 0..MaxRetries : task[<<d, j>>] = "decrease"
      BY <1>i, <1>a, <2>2 DEF SInv, Works, WorksOf
    <3>2. task'[<<d, j>>] = "decrease"
      BY <1>i, <1>a, <2>2, <3>1, IdFacts
    <3> QED
      BY <3>2
  <2> QED
    BY <2>1, <2>2
<1>5. Retrying'
  <2>1. \A d \in Calls : sched'[d] = "retry" => sched[d] = "retry"
    BY <1>i, <1>a
  <2> QED
    BY <2>1, <1>a DEF SInv, Retrying, RetryOf
<1>6. Stopping'
  <2>1. stop # "done"
    BY <1>i, <1>a DEF SInv, Stopping
  <2>2. \A d \in Calls : sched'[d] = "caller" => sched[d] = "caller"
    BY <1>i, <1>a
  <2> QED
    BY <2>1, <2>2, <1>a DEF SInv, Stopping, InSend, Sending
<1> QED
  BY <1>1, <1>2, <1>3, <1>4, <1>5, <1>6 DEF SInv

\* The call moves from the thread to rpcRetryMap_.
LEMMA RescheduleKeepsS ==
  ASSUME IInv, SInv, UNCHANGED load, NEW c \in Calls, Reschedule(c)
  PROVE  SInv'
<1>a. /\ sched[c] # "no" /\ retryMap' = retryMap \cup {c}
      /\ sched' = [sched EXCEPT ![c] = "no"] /\ DOMAIN sched = Calls
      /\ UNCHANGED <<running, stage, pending, timeouts, active, flag, task, fut, attached,
                     orig, count, retry, poll, flushing, down, wire, ran, stop>>
  BY DEF Reschedule, sendVars, futVars, netVars, IInv, Typed
<1>1. More' /\ Messages' /\ Counted'
  BY <1>a, SFrames DEF SInv
<1>2. Held'
  <2> SUFFICES ASSUME NEW d \in Calls PROVE HeldOf(d)'
    BY DEF Held
  <2> QED
    BY <1>a DEF SInv, Held, HeldOf, Calling, Awaited, InRetry, Sending
<1>3. \A d \in Calls : sched'[d] # "no" => sched'[d] = sched[d]
  BY <1>a
<1>4. Works' /\ Retrying' /\ Stopping'
  BY <1>a, <1>3 DEF SInv, Works, WorksOf, Retrying, RetryOf, Stopping, InSend, Sending
<1> QED
  BY <1>1, <1>2, <1>4 DEF SInv

\* decreaseCallCount() after the callbacks.
LEMMA DecreaseKeepsS ==
  ASSUME IInv, SInv, UNCHANGED load, NEW c \in Calls, NEW k \in 0..MaxRetries,
         DecreaseCallCount(<<c, k>>)
  PROVE  SInv'
<1>a. /\ task[<<c, k>>] = "decrease" /\ sched[c] # "pool" /\ active' = active - 1
      /\ task' = [task EXCEPT ![<<c, k>>] = "done"] /\ <<c, k>> \in Ids /\ DOMAIN task = Ids
      /\ UNCHANGED <<running, stage, pending, timeouts, flag, fut, attached, orig, count, sched,
                     retryMap, retry, poll, flushing, down, wire, ran, stop>>
  BY IdFacts DEF DecreaseCallCount, retryVars, netVars, IInv, Typed
<1>1. More'
  BY <1>a DEF SInv, More
<1>2. Messages'
  <2> SUFFICES ASSUME NEW d \in Calls, NEW j \in 0..MaxRetries PROVE MessageOf(d, j)'
    BY DEF Messages
  <2>1. MessageOf(d, j) /\ <<d, j>> \in Ids
    BY IdFacts DEF SInv, Messages
  <2>2. task'[<<d, j>>] # "none" <=> task[<<d, j>>] # "none"
    BY <1>a, <2>1
  <2> QED
    BY <1>a, <2>1, <2>2 DEF MessageOf
<1>3. Held' /\ Retrying'
  BY <1>a, SFrames DEF SInv
<1>4. Works'
  <2> SUFFICES ASSUME NEW d \in Calls, sched'[d] = "pool"
               PROVE  \E j \in 0..MaxRetries : task'[<<d, j>>] = "decrease"
    BY DEF Works, WorksOf
  <2>1. d # c
    BY <1>a
  <2>2. PICK j \in 0..MaxRetries : task[<<d, j>>] = "decrease"
    BY <1>a DEF SInv, Works, WorksOf
  <2>3. task'[<<d, j>>] = "decrease"
    BY <1>a, <2>1, <2>2, IdFacts
  <2> QED
    BY <2>3
<1>5. Stopping'
  <2>1. stop # "done"
    BY <1>a DEF SInv, Stopping
  <2> QED
    BY <2>1, <1>a DEF SInv, Stopping, InSend, Sending
<1>6. Counted'
  <2>1. Started' = Started
    BY <1>a DEF Started
  <2>2. Finished' = Finished \cup {<<c, k>>} /\ <<c, k>> \notin Finished
    BY <1>a DEF Finished
  <2>3. Cardinality(Finished') = Cardinality(Finished) + 1
    BY <2>2, CountFacts, FS_AddElement
  <2> QED
    BY <1>a, <2>1, <2>3, CountFacts DEF SInv, Counted, More
<1> QED
  BY <1>1, <1>2, <1>3, <1>4, <1>5, <1>6 DEF SInv

\* A new call registers its message and is held by its caller.
LEMMA CallKeepsS ==
  ASSUME IInv, SInv, UNCHANGED load, NEW c \in Calls, Call(c)
  PROVE  SInv'
<1>i. <<c, 0>> \in Ids /\ DOMAIN stage = Ids /\ DOMAIN orig = Calls /\ orig[c] = "none"
      /\ stage[<<c, 0>>] = "none"
  BY IdFacts DEF IInv, Typed, Begun, BegunOf, Call
<1>u. UNCHANGED <<running, timeouts, active, flag, task, fut, attached, count, sched, retryMap,
                  retry, poll, flushing, down, wire, ran, stop>>
  BY DEF Call, futVars, netVars
<1>1. CASE ~running /\ orig' = [orig EXCEPT ![c] = "refused"] /\ UNCHANGED <<stage, pending>>
  <2>1. Held'
    <3> SUFFICES ASSUME NEW d \in Calls PROVE HeldOf(d)'
      BY DEF Held
    <3> QED
      BY <1>1, <1>i, <1>u DEF SInv, Held, HeldOf, Calling, Awaited, InRetry, Sending
  <2>2. More' /\ Messages' /\ Works' /\ Retrying' /\ Stopping' /\ Counted'
    BY <1>1, <1>u, SFrames DEF SInv
  <2> QED
    BY <2>1, <2>2 DEF SInv
<1>2. CASE running /\ orig' = [orig EXCEPT ![c] = "open"] /\ Register(<<c, 0>>)
  <2>a. stage' = [stage EXCEPT ![<<c, 0>>] = "registered"] /\ pending' = pending \cup {<<c, 0>>}
    BY <1>2 DEF Register
  <2>1. More'
    BY <1>i, <1>u, <2>a DEF SInv, More
  <2>2. Messages'
    <3> SUFFICES ASSUME NEW d \in Calls, NEW j \in 0..MaxRetries PROVE MessageOf(d, j)'
      BY DEF Messages
    <3>1. MessageOf(d, j) /\ ExpectedOf(d, j) /\ <<d, j>> \in Ids
      BY IdFacts DEF SInv, Messages, IInv, Expected
    <3>2. CASE <<d, j>> = <<c, 0>>
      BY <1>i, <1>u, <2>a, <3>1, <3>2 DEF MessageOf, ExpectedOf
    <3>3. CASE <<d, j>> # <<c, 0>>
      BY <1>i, <1>u, <2>a, <3>1, <3>3 DEF MessageOf
    <3> QED
      BY <3>2, <3>3
  <2>3. Held'
    <3> SUFFICES ASSUME NEW d \in Calls PROVE HeldOf(d)'
      BY DEF Held
    <3>1. HeldOf(d) /\ <<d, 0>> \in Ids
      BY IdFacts DEF SInv, Held
    <3>2. CASE d = c
      BY <1>i, <2>a, <3>2 DEF HeldOf, Calling, Sending
    <3>3. CASE d # c
      <4>1. stage'[<<d, 0>>] = stage[<<d, 0>>] /\ orig'[d] = orig[d]
        BY <1>2, <1>i, <2>a, <3>1, <3>3
      <4> QED
        BY <1>u, <3>1, <4>1 DEF HeldOf, Calling, Awaited, InRetry, Sending
    <3> QED
      BY <3>2, <3>3
  <2>4. Works'
    BY <1>u, SFrames DEF SInv
  <2>5. Retrying'
    <3>1. \A id \in Ids : stage[id] = "sent" => stage'[id] = "sent"
      BY <1>i, <2>a
    <3>2. \A d \in Calls : d \in retry.sent => <<d, count[d] + 1>> \in Ids
      BY AttemptFacts DEF IInv, InRetry
    <3> QED
      BY <3>1, <3>2, <1>u DEF SInv, Retrying, RetryOf
  <2>6. Stopping'
    BY <1>2, <1>u DEF SInv, Stopping
  <2>7. Counted'
    <3>1. Started' = Started /\ Finished' = Finished
      BY <1>i, <1>u, <2>a DEF Started, Finished
    <3> QED
      BY <3>1, <1>u, SameCount DEF SInv
  <2> QED
    BY <2>1, <2>2, <2>3, <2>4, <2>5, <2>6, <2>7 DEF SInv
<1> QED
  BY <1>1, <1>2 DEF Call

\* The caller inside send().
LEMMA CallerSendsKeepsS ==
  ASSUME IInv, SInv, UNCHANGED load, NEW c \in Calls, CallerSends(c)
  PROVE  SInv'
<1>s. PICK s \in {"hooked", "counted", "timed", "sent", "threw"} :
        /\ Sending(<<c, 0>>) /\ UNCHANGED pending
        /\ stage' = [stage EXCEPT ![<<c, 0>>] = s]
        /\ wire' = IF s = "sent" THEN [wire EXCEPT ![<<c, 0>>] = "request"] ELSE wire
  BY SendStepFacts, IdFacts DEF CallerSends, IInv
<1>i. /\ <<c, 0>> \in Ids /\ DOMAIN stage = Ids /\ DOMAIN wire = Ids /\ DOMAIN orig = Calls
      /\ orig' = IF stage'[<<c, 0>>] = "threw" THEN [orig EXCEPT ![c] = "refused"] ELSE orig
      /\ UNCHANGED <<running, flag, task, fut, attached, count, sched, retryMap, retry, flushing,
                     down, ran, stop>>
  BY IdFacts DEF CallerSends, futVars, IInv, Typed
<1>c. /\ Counted' /\ active' \in Int
      /\ timeouts' \in {timeouts, timeouts \cup {<<c, 0>>}}
      /\ poll' \in [pc : {"armed", "wait", "mark", "gone"}, expired : SUBSET Ids]
      /\ poll'.expired = poll.expired
  BY <1>i, SendCounts, IdFacts DEF CallerSends
<1>1. More'
  BY <1>s, <1>i, <1>c DEF SInv, More
<1>2. Messages'
  <2> SUFFICES ASSUME NEW d \in Calls, NEW j \in 0..MaxRetries PROVE MessageOf(d, j)'
    BY DEF Messages
  <2>1. MessageOf(d, j) /\ <<d, j>> \in Ids
    BY IdFacts DEF SInv, Messages
  <2>2. CASE <<d, j>> = <<c, 0>>
    <3>1. ExpectedOf(d, j)
      BY DEF IInv, Expected
    <3> QED
      BY <1>s, <1>i, <1>c, <2>1, <2>2, <3>1 DEF MessageOf, ExpectedOf, Sending
  <2>3. CASE <<d, j>> # <<c, 0>>
    <3>1. stage'[<<d, j>>] = stage[<<d, j>>] /\ wire'[<<d, j>>] = wire[<<d, j>>]
      BY <1>s, <1>i, <2>1, <2>3
    <3>2. <<d, j>> \in timeouts' <=> <<d, j>> \in timeouts
      BY <1>c, <2>3
    <3> QED
      BY <1>s, <1>i, <1>c, <2>1, <3>1, <3>2 DEF MessageOf
  <2> QED
    BY <2>2, <2>3
<1>3. Held'
  <2> SUFFICES ASSUME NEW d \in Calls PROVE HeldOf(d)'
    BY DEF Held
  <2>1. HeldOf(d) /\ <<d, 0>> \in Ids
    BY IdFacts DEF SInv, Held
  <2>2. CASE d = c
    <3>1. <<c, 0>> \notin attached
      BY <1>s, IdFacts DEF SInv, Messages, MessageOf, Sending
    <3>2. orig'[c] # "open" \/ Calling(c)'
      BY <1>s, <1>i, <3>1 DEF Calling, Sending
    <3> QED
      BY <2>2, <3>2 DEF HeldOf
  <2>3. CASE d # c
    <3>1. stage'[<<d, 0>>] = stage[<<d, 0>>] /\ orig'[d] = orig[d]
      BY <1>s, <1>i, <2>1, <2>3
    <3> QED
      BY <1>i, <2>1, <3>1 DEF HeldOf, Calling, Awaited, InRetry, Sending
  <2> QED
    BY <2>2, <2>3
<1>4. Works'
  BY <1>i, SFrames DEF SInv
<1>5. Retrying'
  <2>1. \A id \in Ids : stage[id] = "sent" => stage'[id] = "sent"
    BY <1>s, <1>i DEF Sending
  <2>2. \A d \in Calls : d \in retry.sent => <<d, count[d] + 1>> \in Ids
    BY AttemptFacts DEF IInv, InRetry
  <2> QED
    BY <2>1, <2>2, <1>i DEF SInv, Retrying, RetryOf
<1>6. Stopping'
  <2>1. stop = "none"
    BY <1>s DEF SInv, Stopping, InSend
  <2> QED
    BY <2>1, <1>i DEF Stopping
<1> QED
  BY <1>1, <1>2, <1>3, <1>4, <1>5, <1>6, <1>c DEF SInv

\* The caller's callback takes the call over.
LEMMA CallerAttachesKeepsS ==
  ASSUME IInv, SInv, UNCHANGED load, NEW c \in Calls, CallerAttaches(c)
  PROVE  SInv'
<1>a. /\ stage[<<c, 0>>] = "sent" /\ <<c, 0>> \notin attached
      /\ attached' = attached \cup {<<c, 0>>}
      /\ \/ fut[<<c, 0>>] = "open" /\ UNCHANGED <<orig, sched>>
         \/ orig' = orig /\ sched' = [sched EXCEPT ![c] = "caller"]
         \/ /\ fut[<<c, 0>>] # "open" /\ sched' = sched
            /\ orig' = [orig EXCEPT ![c] = fut[<<c, 0>>]]
      /\ UNCHANGED <<running, stage, pending, timeouts, active, flag, task, fut, count, retryMap,
                     retry, poll, flushing, down, wire, ran, stop>>
  BY DEF CallerAttaches, AttachCallback, RpcRetryCallback, sendVars, futVars, netVars
<1>b. /\ count[c] = 0 /\ <<c, 0>> \in Ids /\ DOMAIN sched = Calls /\ DOMAIN orig = Calls
      /\ fut[<<c, 0>>] # "open" => fut[<<c, 0>>] \in {"ok", "err"}
  BY <1>a, IdFacts DEF IInv, OneHolder, HolderOf, Calling, Typed
<1>1. More' /\ Counted'
  BY <1>a, <1>b, SFrames DEF SInv, More
<1>2. Messages'
  BY <1>a DEF SInv, Messages, MessageOf
<1>3. Held'
  <2> SUFFICES ASSUME NEW d \in Calls PROVE HeldOf(d)'
    BY DEF Held
  <2>1. HeldOf(d) /\ <<d, 0>> \in Ids
    BY IdFacts DEF SInv, Held
  <2>2. CASE d = c
    <3>1. orig'[c] # "open" \/ Awaited(c)' \/ sched'[c] # "no"
      BY <1>a, <1>b DEF Awaited
    <3> QED
      BY <2>2, <3>1 DEF HeldOf
  <2>3. CASE d # c
    <3>1. sched'[d] = sched[d] /\ orig'[d] = orig[d]
      BY <1>a, <1>b, <2>3
    <3> QED
      BY <1>a, <2>1, <2>3, <3>1 DEF HeldOf, Calling, Awaited, InRetry, Sending
  <2> QED
    BY <2>2, <2>3
<1>4. Works' /\ Retrying'
  <2>1. \A d \in Calls : sched'[d] \in {"pool", "retry"} => sched'[d] = sched[d]
    BY <1>a, <1>b
  <2> QED
    BY <2>1, <1>a DEF SInv, Works, WorksOf, Retrying, RetryOf
<1>5. Stopping'
  <2>1. stop = "none"
    BY <1>a DEF SInv, Stopping, InSend
  <2> QED
    BY <2>1, <1>a DEF Stopping
<1> QED
  BY <1>1, <1>2, <1>3, <1>4, <1>5 DEF SInv

\* The retry thread takes calls out of rpcRetryMap_.
LEMMA TakeRetriesKeepsS ==
  ASSUME IInv, SInv, UNCHANGED load, TakeRetries
  PROVE  SInv'
<1>a. PICK S \in SUBSET retryMap :
        /\ retry.pc = "sleep" /\ running
        /\ retry' = [retry EXCEPT !.pc = "send", !.batch = S]
        /\ retryMap' = retryMap \ S
        /\ UNCHANGED <<running, stage, pending, timeouts, active, flag, task, fut, attached,
                       orig, count, sched, poll, flushing, down, wire, ran, stop>>
  BY DEF TakeRetries, sendVars, futVars, netVars
<1>b. /\ retry'.pc = "send" /\ retry'.batch = S /\ retry'.sent = retry.sent
      /\ retry'.failed = retry.failed
  BY <1>a DEF IInv, Typed
<1>1. More' /\ Messages' /\ Works' /\ Counted'
  BY <1>a, SFrames DEF SInv
<1>2. Held'
  <2> SUFFICES ASSUME NEW d \in Calls PROVE HeldOf(d)'
    BY DEF Held
  <2>1. InRetry(d) => InRetry(d)'
    BY <1>a, <1>b DEF InRetry, SInv, Retrying
  <2> QED
    BY <2>1, <1>a DEF SInv, Held, HeldOf, Calling, Awaited, Sending
<1>3. Retrying'
  <2>1. \A d \in Calls : sched[d] # "retry"
    BY <1>a DEF SInv, Retrying, RetryOf
  <2> QED
    BY <2>1, <1>a, <1>b DEF SInv, Retrying, RetryOf
<1>4. Stopping'
  <2>1. stop = "none"
    BY <1>a DEF SInv, Stopping
  <2> QED
    BY <2>1, <1>a DEF Stopping
<1> QED
  BY <1>1, <1>2, <1>3, <1>4 DEF SInv

\* The retry thread enters send().
LEMMA RetryBeginsKeepsS ==
  ASSUME IInv, SInv, UNCHANGED load, NEW c \in Calls, RetryBegins(c)
  PROVE  SInv'
<1>0. count[c] \in Nat /\ count[c] + 1 \in 0..MaxRetries /\ <<c, count[c] + 1>> \in Ids
      /\ Attempt(c) = <<c, count[c] + 1>>
  <2>1. InRetry(c)
    BY DEF RetryBegins, InRetry
  <2> QED
    BY <2>1, AttemptFacts DEF IInv
<1>k. PICK k \in 0..MaxRetries : k = count[c] + 1
  BY <1>0
<1>a. /\ k # 0 /\ <<c, k>> \in Ids /\ retry.pc = "send" /\ stage[<<c, k>>] = "none"
      /\ stage' = [stage EXCEPT ![<<c, k>>] = "registered"] /\ DOMAIN stage = Ids
      /\ pending' = pending \cup {<<c, k>>}
      /\ UNCHANGED <<running, timeouts, active, flag, task, fut, attached, orig, count, sched,
                     retryMap, retry, poll, flushing, down, wire, ran, stop>>
  BY <1>0, <1>k
  DEF RetryBegins, Register, futVars, retryVars, netVars, IInv, Typed
<1>1. More'
  BY <1>a DEF SInv, More
<1>2. Messages'
  <2> SUFFICES ASSUME NEW d \in Calls, NEW j \in 0..MaxRetries PROVE MessageOf(d, j)'
    BY DEF Messages
  <2>1. MessageOf(d, j) /\ ExpectedOf(d, j) /\ <<d, j>> \in Ids
    BY IdFacts DEF SInv, Messages, IInv, Expected
  <2>2. CASE <<d, j>> = <<c, k>>
    BY <1>a, <2>1, <2>2 DEF MessageOf, ExpectedOf
  <2>3. CASE <<d, j>> # <<c, k>>
    BY <1>a, <2>1, <2>3 DEF MessageOf
  <2> QED
    BY <2>2, <2>3
<1>3. Held'
  <2>1. \A d \in Calls : stage'[<<d, 0>>] = stage[<<d, 0>>]
    BY <1>a, IdFacts
  <2> QED
    BY <2>1, <1>a DEF SInv, Held, HeldOf, Calling, Awaited, InRetry, Sending
<1>4. Works'
  BY <1>a, SFrames DEF SInv
<1>5. Retrying'
  <2>1. \A id \in Ids : stage[id] = "sent" => stage'[id] = "sent"
    BY <1>a
  <2>2. \A d \in Calls : d \in retry.sent => <<d, count[d] + 1>> \in Ids
    BY AttemptFacts DEF IInv, InRetry
  <2> QED
    BY <2>1, <2>2, <1>a DEF SInv, Retrying, RetryOf
<1>6. Stopping'
  <2>1. \A d \in Calls : stage'[<<d, 0>>] = stage[<<d, 0>>]
    BY <1>a, IdFacts
  <2> QED
    BY <2>1, <1>a DEF SInv, Stopping, InSend, Sending
<1>7. Counted'
  <2>1. Started' = Started /\ Finished' = Finished
    BY <1>a DEF Started, Finished
  <2> QED
    BY <2>1, <1>a, SameCount DEF SInv
<1> QED
  BY <1>1, <1>2, <1>3, <1>4, <1>5, <1>6, <1>7 DEF SInv

\* The retry thread inside send().
LEMMA RetrySendsKeepsS ==
  ASSUME IInv, SInv, UNCHANGED load, NEW c \in Calls, RetrySends(c)
  PROVE  SInv'
<1>0. count[c] \in Nat /\ count[c] + 1 \in 0..MaxRetries /\ <<c, count[c] + 1>> \in Ids
      /\ Attempt(c) = <<c, count[c] + 1>>
  <2>1. InRetry(c)
    BY DEF RetrySends, InRetry
  <2> QED
    BY <2>1, AttemptFacts DEF IInv
<1>k. PICK k \in 0..MaxRetries : k = count[c] + 1
  BY <1>0
<1>S. SendStep(<<c, k>>) /\ k # 0 /\ Attempt(c) = <<c, k>> /\ <<c, k>> \in Ids
      /\ retry.pc = "send" /\ c \in retry.batch
  BY <1>0, <1>k DEF RetrySends
<1>s. PICK s \in {"hooked", "counted", "timed", "sent", "threw"} :
        /\ Sending(<<c, k>>) /\ UNCHANGED pending
        /\ stage' = [stage EXCEPT ![<<c, k>>] = s]
        /\ wire' = IF s = "sent" THEN [wire EXCEPT ![<<c, k>>] = "request"] ELSE wire
  BY <1>S, SendStepFacts DEF IInv
<1>i. /\ DOMAIN stage = Ids /\ DOMAIN wire = Ids
      /\ UNCHANGED <<running, flag, task, fut, attached, orig, count, sched, retryMap, flushing,
                     down, ran, stop>>
  BY DEF RetrySends, futVars, IInv, Typed
<1>c. /\ Counted' /\ active' \in Int
      /\ timeouts' \in {timeouts, timeouts \cup {<<c, k>>}}
      /\ poll' \in [pc : {"armed", "wait", "mark", "gone"}, expired : SUBSET Ids]
      /\ poll'.expired = poll.expired /\ (poll.pc = "gone" => poll'.pc = "gone")
  BY <1>S, <1>i, SendCounts
<1>t. stage'[<<c, k>>] = s
  BY <1>s, <1>i, <1>S
<1>r. \/ s \notin {"sent", "threw"} /\ retry' = retry
      \/ /\ s \in {"sent", "threw"}
         /\ retry'.pc = (IF retry.batch = {c} THEN "attach" ELSE "send")
         /\ retry'.batch = retry.batch \ {c}
         /\ retry'.sent = (IF s = "sent" THEN retry.sent \cup {c} ELSE retry.sent)
         /\ retry'.failed = (IF s = "threw" THEN retry.failed \cup {c} ELSE retry.failed)
  <2>1. retry' = IF s \notin {"sent", "threw"} THEN retry
              ELSE [pc |-> IF retry.batch = {c} THEN "attach" ELSE "send",
                    batch |-> retry.batch \ {c},
                    sent |-> retry.sent \cup {d \in {c} : stage'[Attempt(d)] = "sent"},
                    failed |-> retry.failed \cup {d \in {c} : stage'[Attempt(d)] = "threw"}]
    BY <1>S, <1>t DEF RetrySends
  <2>2. {d \in {c} : stage'[Attempt(d)] = "sent"} = IF s = "sent" THEN {c} ELSE {}
    BY <1>S, <1>t
  <2>3. {d \in {c} : stage'[Attempt(d)] = "threw"} = IF s = "threw" THEN {c} ELSE {}
    BY <1>S, <1>t
  <2> QED
    BY <2>1, <2>2, <2>3
<1>z. \A d \in Calls : stage'[<<d, 0>>] = stage[<<d, 0>>]
  BY <1>s, <1>i, <1>S, IdFacts
<1>1. More'
  BY <1>s, <1>i, <1>c, <1>S DEF SInv, More
<1>2. Messages'
  <2> SUFFICES ASSUME NEW d \in Calls, NEW j \in 0..MaxRetries PROVE MessageOf(d, j)'
    BY DEF Messages
  <2>1. MessageOf(d, j) /\ <<d, j>> \in Ids
    BY IdFacts DEF SInv, Messages
  <2>2. CASE <<d, j>> = <<c, k>>
    <3>1. ExpectedOf(d, j)
      BY DEF IInv, Expected
    <3> QED
      BY <1>s, <1>i, <1>c, <2>1, <2>2, <3>1 DEF MessageOf, ExpectedOf, Sending
  <2>3. CASE <<d, j>> # <<c, k>>
    <3>1. stage'[<<d, j>>] = stage[<<d, j>>] /\ wire'[<<d, j>>] = wire[<<d, j>>]
      BY <1>s, <1>i, <2>1, <2>3
    <3>2. <<d, j>> \in timeouts' <=> <<d, j>> \in timeouts
      BY <1>c, <2>3
    <3> QED
      BY <1>s, <1>i, <1>c, <2>1, <3>1, <3>2 DEF MessageOf
  <2> QED
    BY <2>2, <2>3
<1>3. Held'
  <2> SUFFICES ASSUME NEW d \in Calls PROVE HeldOf(d)'
    BY DEF Held
  <2>1. InRetry(d) => InRetry(d)'
    BY <1>i, <1>r DEF InRetry
  <2> QED
    BY <2>1, <1>i, <1>z DEF SInv, Held, HeldOf, Calling, Awaited, Sending
<1>4. Works'
  BY <1>i, SFrames DEF SInv
<1>5. Retrying'
  <2>1. \A id \in Ids : stage[id] = "sent" => stage'[id] = "sent"
    BY <1>s, <1>i DEF Sending
  <2>2. \A d \in Calls : d \in retry.sent => <<d, count[d] + 1>> \in Ids
    BY AttemptFacts DEF IInv, InRetry
  <2>3. \A d \in Calls : sched[d] # "retry"
    BY <1>S DEF SInv, Retrying, RetryOf
  <2>4. \A d \in Calls : RetryOf(d)'
    BY <2>1, <2>2, <2>3, <1>i, <1>k, <1>r, <1>t DEF SInv, Retrying, RetryOf
  <2> QED
    BY <2>4, <1>r, <1>S DEF Retrying
<1>6. Stopping'
  BY <1>i, <1>z, <1>S DEF SInv, Stopping, InSend, Sending
<1> QED
  BY <1>1, <1>2, <1>3, <1>4, <1>5, <1>6, <1>c DEF SInv

\* The callback of a retry takes the call over.
LEMMA RetryAttachesKeepsS ==
  ASSUME IInv, SInv, UNCHANGED load, NEW c \in Calls, RetryAttaches(c)
  PROVE  SInv'
<1>0. /\ count[c] \in Nat /\ count[c] + 1 \in 0..MaxRetries /\ <<c, count[c] + 1>> \in Ids
      /\ count[c] + 1 \leq load.retries /\ Attempt(c) = <<c, count[c] + 1>>
  <2>1. InRetry(c)
    BY DEF RetryAttaches, InRetry
  <2> QED
    BY <2>1, AttemptFacts DEF IInv
<1>k. PICK k \in 0..MaxRetries : k = count[c] + 1
  BY <1>0
<1>a. /\ k # 0 /\ <<c, k>> \in Ids /\ k \leq load.retries
      /\ retry.pc = "attach" /\ c \in retry.sent
      /\ \A d \in Calls : sched[d] # "retry"
      /\ count' = [count EXCEPT ![c] = k] /\ attached' = attached \cup {<<c, k>>}
      /\ \/ fut[<<c, k>>] = "open" /\ UNCHANGED <<orig, sched>>
         \/ running /\ orig' = orig /\ sched' = [sched EXCEPT ![c] = "retry"]
         \/ /\ fut[<<c, k>>] # "open" /\ sched' = sched
            /\ orig' = [orig EXCEPT ![c] = fut[<<c, k>>]]
      /\ retry' = [retry EXCEPT !.sent = @ \ {c}]
      /\ UNCHANGED <<running, stage, pending, timeouts, active, flag, task, fut, retryMap,
                     poll, flushing, down, wire, ran, stop>>
  BY <1>0, <1>k
  DEF RetryAttaches, RetryFree, AttachCallback, RpcRetryCallback, sendVars, futVars, netVars
<1>b. /\ DOMAIN sched = Calls /\ DOMAIN orig = Calls /\ DOMAIN count = Calls
      /\ fut[<<c, k>>] # "open" => fut[<<c, k>>] \in {"ok", "err"}
      /\ retry'.pc = retry.pc /\ retry'.batch = retry.batch /\ retry'.failed = retry.failed
      /\ retry'.sent = retry.sent \ {c}
  BY <1>a DEF IInv, Typed
<1>c. count'[c] = k /\ \A d \in Calls \ {c} : count'[d] = count[d]
  BY <1>a, <1>b
<1>1. More' /\ Counted'
  <2>1. Counted'
    BY <1>a, SFrames DEF SInv
  <2>2. \A d \in Calls : count'[d] \leq load'.retries
    BY <1>a, <1>c DEF SInv, More
  <2> QED
    BY <1>a, <2>1, <2>2 DEF SInv, More
<1>2. Messages'
  <2>1. stage[<<c, k>>] = "sent"
    BY <1>a, <1>k DEF SInv, Retrying, RetryOf
  <2> QED
    BY <1>a, <2>1 DEF SInv, Messages, MessageOf
<1>3. Held'
  <2> SUFFICES ASSUME NEW d \in Calls PROVE HeldOf(d)'
    BY DEF Held
  <2>1. HeldOf(d) /\ <<d, 0>> \in Ids
    BY IdFacts DEF SInv, Held
  <2>2. CASE d = c
    <3>1. orig'[c] # "open" \/ Awaited(c)' \/ sched'[c] # "no"
      BY <1>a, <1>b, <1>c DEF Awaited
    <3> QED
      BY <2>2, <3>1 DEF HeldOf
  <2>3. CASE d # c
    <3>1. sched'[d] = sched[d] /\ orig'[d] = orig[d] /\ count'[d] = count[d]
      BY <1>a, <1>b, <1>c, <2>3
    <3>2. InRetry(d) => InRetry(d)'
      BY <1>a, <1>b, <2>3 DEF InRetry
    <3>3. Calling(d) => Calling(d)'
      BY <1>a, <2>3 DEF Calling, Sending
    <3>4. Awaited(d) => Awaited(d)'
      BY <1>a, <3>1 DEF Awaited
    <3> QED
      BY <2>1, <3>1, <3>2, <3>3, <3>4 DEF HeldOf
  <2> QED
    BY <2>2, <2>3
<1>4. Works'
  <2>1. \A d \in Calls : sched'[d] = "pool" => sched[d] = "pool"
    BY <1>a, <1>b
  <2> QED
    BY <2>1, <1>a DEF SInv, Works, WorksOf
<1>5. Retrying'
  <2>1. \A d \in Calls : RetryOf(d)'
    BY <1>a, <1>b, <1>c DEF SInv, Retrying, RetryOf
  <2> QED
    BY <2>1, <1>a, <1>b DEF SInv, Retrying
<1>6. Stopping'
  <2>1. \A d \in Calls : InSend(d)' => InSend(d)
    BY <1>a, <1>b DEF InSend, Sending
  <2> QED
    BY <2>1, <1>a, <1>b DEF SInv, Stopping
<1> QED
  BY <1>1, <1>2, <1>3, <1>4, <1>5, <1>6 DEF SInv

\* A retry that threw is answered.
LEMMA RetryFailsKeepsS ==
  ASSUME IInv, SInv, UNCHANGED load, NEW c \in Calls, RetryFails(c)
  PROVE  SInv'
<1>a. /\ retry.pc = "attach" /\ orig' = [orig EXCEPT ![c] = "err"] /\ DOMAIN orig = Calls
      /\ retry' = [retry EXCEPT !.failed = @ \ {c}]
      /\ UNCHANGED <<running, stage, pending, timeouts, active, flag, task, fut, attached, count,
                     sched, retryMap, poll, flushing, down, wire, ran, stop>>
  BY DEF RetryFails, RetryFree, sendVars, futVars, netVars, IInv, Typed
<1>b. /\ retry'.pc = retry.pc /\ retry'.batch = retry.batch /\ retry'.sent = retry.sent
      /\ retry'.failed = retry.failed \ {c}
  BY <1>a DEF IInv, Typed
<1>1. More' /\ Messages' /\ Works' /\ Counted'
  BY <1>a, SFrames DEF SInv
<1>2. Held'
  <2> SUFFICES ASSUME NEW d \in Calls PROVE HeldOf(d)'
    BY DEF Held
  <2>1. orig'[d] = "open" => orig[d] = "open" /\ d # c
    BY <1>a
  <2>2. d # c /\ InRetry(d) => InRetry(d)'
    BY <1>a, <1>b DEF InRetry
  <2> QED
    BY <2>1, <2>2, <1>a DEF SInv, Held, HeldOf, Calling, Awaited, Sending
<1>3. Retrying' /\ Stopping'
  BY <1>a, <1>b DEF SInv, Retrying, RetryOf, Stopping, InSend, Sending
<1> QED
  BY <1>1, <1>2, <1>3 DEF SInv

\* The retry thread goes back to its loop with nothing in hand.
LEMMA RetryLoopsKeepsS ==
  ASSUME IInv, SInv, UNCHANGED load, RetryLoops
  PROVE  SInv'
<1>a. /\ retry.pc \in {"sleep", "attach"} /\ \A c \in Calls : sched[c] # "retry"
      /\ retry.sent = {} /\ retry.failed = {}
      /\ retry' = [retry EXCEPT !.pc = IF running THEN "sleep" ELSE "gone"]
      /\ UNCHANGED <<running, stage, pending, timeouts, active, flag, task, fut, attached, orig,
                     count, sched, retryMap, poll, flushing, down, wire, ran, stop>>
  BY DEF RetryLoops, RetryFree, sendVars, futVars, netVars, SInv, Retrying, RetryOf
<1>b. /\ retry'.pc \in {"sleep", "gone"} /\ retry'.batch = retry.batch
      /\ retry'.sent = retry.sent /\ retry'.failed = retry.failed
  BY <1>a DEF IInv, Typed
<1>1. More' /\ Messages' /\ Works' /\ Counted'
  BY <1>a, SFrames DEF SInv
<1>2. Held'
  BY <1>a, <1>b DEF SInv, Held, HeldOf, Calling, Awaited, InRetry, Sending
<1>3. Retrying'
  BY <1>a, <1>b DEF SInv, Retrying, RetryOf
<1>4. Stopping'
  <2>1. stop \in {"none", "stopped"}
    BY <1>a DEF SInv, Stopping
  <2> QED
    BY <2>1, <1>a DEF SInv, Stopping, InSend, Sending
<1> QED
  BY <1>1, <1>2, <1>3, <1>4 DEF SInv

\* The timeout thread waits, ends, or takes messages that are due.
LEMMA PollKeepsS ==
  ASSUME IInv, SInv, UNCHANGED load, PollWaits \/ PollEnds \/ PollTakes
  PROVE  SInv'
<1>a. UNCHANGED <<running, stage, pending, active, flag, task, fut, attached, orig, count, sched,
                  retryMap, retry, flushing, down, wire, ran, stop>>
  BY DEF PollWaits, PollEnds, PollTakes, PollUnchanged, futVars, retryVars, netVars
<1>b. /\ poll.pc # "gone" /\ timeouts' \subseteq timeouts
      /\ poll' \in [pc : {"armed", "wait", "mark", "gone"}, expired : SUBSET Ids]
      /\ poll'.expired \subseteq poll.expired \cup timeouts
  <2>1. CASE PollWaits
    BY <2>1 DEF PollWaits, SInv, More
  <2>2. CASE PollEnds
    BY <2>2 DEF PollEnds, SInv, More
  <2>3. CASE PollTakes
    <3>1. PICK S \in SUBSET timeouts :
            poll' = [pc |-> "mark", expired |-> S] /\ timeouts' = timeouts \ S
      BY <2>3 DEF PollTakes
    <3>2. poll.pc # "gone" /\ S \subseteq Ids
      BY <2>3 DEF PollTakes, SInv, More
    <3> QED
      BY <3>1, <3>2
  <2> QED
    BY <2>1, <2>2, <2>3
<1>1. More'
  BY <1>a, <1>b DEF SInv, More
<1>2. Messages'
  BY <1>a, <1>b DEF SInv, Messages, MessageOf
<1>3. Held' /\ Works' /\ Retrying' /\ Counted'
  BY <1>a, SFrames DEF SInv
<1>4. Stopping'
  BY <1>a, <1>b DEF SInv, Stopping, InSend, Sending
<1> QED
  BY <1>1, <1>2, <1>3, <1>4 DEF SInv

\* A step that marks one message that was begun, removes it from the tables and
\* changes nothing of the calls and of shutdown().
LEMMA MarksKeepS ==
  ASSUME IInv, SInv, UNCHANGED load, NEW c \in Calls, NEW k \in 0..MaxRetries,
         NEW r \in {"ok", "err"}, MarkFuture(<<c, k>>, r), stage[<<c, k>>] # "none",
         UNCHANGED <<running, stage, active, attached, orig, count, sched, retryMap, retry,
                     down, ran, stop>>,
         stop # "done",
         timeouts' \subseteq timeouts, poll'.expired \subseteq poll.expired,
         poll' \in [pc : {"armed", "wait", "mark", "gone"}, expired : SUBSET Ids],
         poll.pc = "gone" => poll' = poll,
         pending' \in {pending, pending \ {<<c, k>>}},
         flushing' \in {flushing, flushing \ {<<c, k>>}},
         wire' = wire \/ (wire' = [wire EXCEPT ![<<c, k>>] = "closed"]
                            /\ pending' = pending \ {<<c, k>>})
  PROVE  SInv'
<1>m. /\ flag' = flag \cup {<<c, k>>} /\ UNCHANGED fut
      /\ task[<<c, k>>] = "none" => task'[<<c, k>>] = r
      /\ task[<<c, k>>] # "none" => task'[<<c, k>>] = task[<<c, k>>]
      /\ \A id \in Ids \ {<<c, k>>} : task'[id] = task[id]
      /\ Finished' = Finished
  BY MarkFacts
<1>i. <<c, k>> \in Ids /\ DOMAIN wire = Ids
  BY IdFacts DEF IInv, Typed
<1>1. More'
  BY <1>m, <1>i DEF SInv, More
<1>2. Messages'
  <2> SUFFICES ASSUME NEW d \in Calls, NEW j \in 0..MaxRetries PROVE MessageOf(d, j)'
    BY DEF Messages
  <2>1. MessageOf(d, j) /\ <<d, j>> \in Ids
    BY IdFacts DEF SInv, Messages
  <2>2. CASE <<d, j>> = <<c, k>>
    <3>1. task'[<<c, k>>] # "none" /\ <<c, k>> \in flag'
      BY <1>m
    <3>2. wire'[<<c, k>>] = "closed" => <<c, k>> \notin pending'
      BY <1>i, <2>1, <2>2 DEF MessageOf
    <3>3. stage'[<<c, k>>] = "sent" => wire'[<<c, k>>] # "none"
      BY <1>i, <2>1, <2>2 DEF MessageOf
    <3>4. stage'[<<c, k>>] = stage[<<c, k>>] /\ attached' = attached
      OBVIOUS
    <3> QED
      BY <2>1, <2>2, <3>1, <3>2, <3>3, <3>4 DEF MessageOf
  <2>3. CASE <<d, j>> # <<c, k>>
    <3>1. task'[<<d, j>>] = task[<<d, j>>] /\ wire'[<<d, j>>] = wire[<<d, j>>]
      BY <1>m, <1>i, <2>1, <2>3
    <3>2. /\ <<d, j>> \in pending' <=> <<d, j>> \in pending
          /\ <<d, j>> \in flushing' <=> <<d, j>> \in flushing
          /\ <<d, j>> \in flag' <=> <<d, j>> \in flag
          /\ <<d, j>> \in timeouts' => <<d, j>> \in timeouts
          /\ <<d, j>> \in poll'.expired => <<d, j>> \in poll.expired
      BY <1>m, <2>3
    <3>3. stage'[<<d, j>>] = stage[<<d, j>>] /\ attached' = attached
      OBVIOUS
    <3> QED
      BY <2>1, <3>1, <3>2, <3>3 DEF MessageOf
  <2> QED
    BY <2>2, <2>3
<1>3. Held' /\ Retrying'
  BY <1>m, SFrames DEF SInv
<1>4. Works'
  <2> SUFFICES ASSUME NEW d \in Calls, sched'[d] = "pool"
               PROVE  \E j \in 0..MaxRetries : task'[<<d, j>>] = "decrease"
    BY DEF Works, WorksOf
  <2>1. PICK j \in 0..MaxRetries : task[<<d, j>>] = "decrease"
    BY DEF SInv, Works, WorksOf
  <2>2. task'[<<d, j>>] = "decrease"
    BY <1>m, <2>1, IdFacts
  <2> QED
    BY <2>2
<1>5. Stopping'
  <2>1. \A d \in Calls : InSend(d)' <=> InSend(d)
    BY DEF InSend, Sending
  <2> QED
    BY <2>1 DEF SInv, Stopping
<1>6. Counted'
  <2>1. Started' = Started
    BY DEF Started
  <2> QED
    BY <2>1, <1>m, SameCount DEF SInv
<1> QED
  BY <1>1, <1>2, <1>3, <1>4, <1>5, <1>6 DEF SInv

\* A timeout marks the message.
LEMMA PollMarksKeepsS ==
  ASSUME IInv, SInv, UNCHANGED load, NEW c \in Calls, NEW k \in 0..MaxRetries,
         PollMarks(<<c, k>>)
  PROVE  SInv'
<1>a. /\ poll.pc = "mark" /\ <<c, k>> \in poll.expired /\ MarkFuture(<<c, k>>, "err")
      /\ poll' = [pc |-> IF poll.expired = {<<c, k>>} THEN Check ELSE "mark",
                  expired |-> poll.expired \ {<<c, k>>}]
      /\ UNCHANGED <<running, stage, pending, timeouts, active, attached, orig, count, sched,
                     retryMap, retry, flushing, down, wire, ran, stop>>
  BY DEF PollMarks, sendVars, retryVars, netVars
<1>b. /\ poll'.expired \subseteq poll.expired
      /\ poll' \in [pc : {"armed", "wait", "mark", "gone"}, expired : SUBSET Ids]
  <2>1. poll.expired \subseteq Ids
    BY DEF SInv, More
  <2> QED
    BY <1>a, <2>1 DEF Check
<1>c. stage[<<c, k>>] # "none" /\ stop # "done"
  BY <1>a DEF SInv, Messages, MessageOf, Stopping
<1> QED
  BY <1>a, <1>b, <1>c, MarksKeepS

\* A response is taken from pendingResponseMessage_ and marks the message.
LEMMA ReceiveKeepsS ==
  ASSUME IInv, SInv, UNCHANGED load, NEW c \in Calls, NEW k \in 0..MaxRetries,
         Receive(<<c, k>>)
  PROVE  SInv'
<1>a. /\ wire[<<c, k>>] \in {"ok", "err"} /\ MarkFuture(<<c, k>>, wire[<<c, k>>])
      /\ wire' = [wire EXCEPT ![<<c, k>>] = "closed"]
      /\ pending' = pending \ {<<c, k>>} /\ timeouts' = timeouts \ {<<c, k>>}
      /\ UNCHANGED <<running, stage, active, attached, orig, count, sched, retryMap, retry, poll,
                     flushing, down, ran, stop>>
  BY DEF Receive, retryVars
<1>b. /\ stage[<<c, k>>] # "none" /\ stop # "done"
      /\ poll' \in [pc : {"armed", "wait", "mark", "gone"}, expired : SUBSET Ids]
  <2>1. ExpectedOf(c, k) /\ <<c, k>> \in Ids
    BY IdFacts DEF IInv, Expected
  <2>2. stop # "done"
    BY <1>a, <2>1 DEF SInv, Stopping
  <2>3. poll' \in [pc : {"armed", "wait", "mark", "gone"}, expired : SUBSET Ids]
    BY <1>a DEF SInv, More
  <2>4. stage[<<c, k>>] # "none"
    BY <1>a, <2>1 DEF ExpectedOf
  <2> QED
    BY <2>2, <2>3, <2>4
<1>c. PICK r \in {"ok", "err"} : r = wire[<<c, k>>]
  BY <1>a
<1>d. MarkFuture(<<c, k>>, r)
  BY <1>a, <1>c
<1> QED
  BY <1>a, <1>b, <1>d, MarksKeepS

\* handleClientError marks a message.
LEMMA FlushKeepsS ==
  ASSUME IInv, SInv, UNCHANGED load, NEW c \in Calls, NEW k \in 0..MaxRetries,
         Flush(<<c, k>>)
  PROVE  SInv'
<1>a. /\ <<c, k>> \in flushing /\ MarkFuture(<<c, k>>, "err")
      /\ flushing' = flushing \ {<<c, k>>} /\ timeouts' = timeouts \ {<<c, k>>}
      /\ UNCHANGED <<running, stage, pending, active, attached, orig, count, sched, retryMap,
                     retry, poll, down, wire, ran, stop>>
  BY DEF Flush, retryVars
<1>b. /\ stage[<<c, k>>] # "none" /\ stop # "done"
      /\ poll' \in [pc : {"armed", "wait", "mark", "gone"}, expired : SUBSET Ids]
  BY <1>a DEF SInv, Messages, MessageOf, Stopping, More
<1> QED
  BY <1>a, <1>b, MarksKeepS

\* The peer answers.
LEMMA ServeKeepsS ==
  ASSUME IInv, SInv, UNCHANGED load, NEW c \in Calls, NEW k \in 0..MaxRetries,
         Serve(<<c, k>>)
  PROVE  SInv'
<1>a. PICK r \in {"ok", "err"} :
        /\ wire[<<c, k>>] = "request" /\ wire' = [wire EXCEPT ![<<c, k>>] = r]
        /\ ran' = ran \cup {c} /\ <<c, k>> \in Ids /\ DOMAIN wire = Ids
        /\ UNCHANGED <<running, stage, pending, timeouts, active, flag, task, fut, attached,
                       orig, count, sched, retryMap, retry, poll, flushing, down, stop>>
  BY IdFacts DEF Serve, sendVars, futVars, retryVars, IInv, Typed
<1>1. More'
  BY <1>a DEF SInv, More
<1>2. Messages'
  <2> SUFFICES ASSUME NEW d \in Calls, NEW j \in 0..MaxRetries PROVE MessageOf(d, j)'
    BY DEF Messages
  <2>1. MessageOf(d, j) /\ <<d, j>> \in Ids
    BY IdFacts DEF SInv, Messages
  <2>2. wire'[<<d, j>>] \in {"none", "closed"} => wire'[<<d, j>>] = wire[<<d, j>>]
    BY <1>a, <2>1
  <2> QED
    BY <1>a, <2>1, <2>2 DEF MessageOf
<1>3. Held' /\ Works' /\ Retrying' /\ Counted'
  BY <1>a, SFrames DEF SInv
<1>4. Stopping'
  <2>1. stop # "done"
    BY <1>a DEF SInv, Stopping
  <2> QED
    BY <2>1, <1>a DEF SInv, Stopping, InSend, Sending
<1> QED
  BY <1>1, <1>2, <1>3, <1>4 DEF SInv

\* The messages of a broken pipe are moved to be marked.
LEMMA HandleClientErrorKeepsS ==
  ASSUME IInv, SInv, UNCHANGED load, NEW c \in Calls, NEW k \in 0..MaxRetries,
         HandleClientError(<<c, k>>)
  PROVE  SInv'
<1>a. PICK P \in SUBSET pending :
        /\ wire[<<c, k>>] \in {"request", "ok", "err"}
        /\ wire' = [wire EXCEPT ![<<c, k>>] = "closed"]
        /\ <<c, k>> \in pending => <<c, k>> \in P
        /\ flushing' = flushing \cup P /\ pending' = pending \ P
        /\ <<c, k>> \in Ids /\ DOMAIN wire = Ids
        /\ UNCHANGED <<running, stage, timeouts, active, flag, task, fut, attached, orig, count,
                       sched, retryMap, retry, poll, down, ran, stop>>
  <2> WITNESS {j \in pending : Peer(j) = Peer(<<c, k>>)} \in SUBSET pending
  <2> QED
    BY IdFacts DEF HandleClientError, futVars, retryVars, IInv, Typed
<1>1. More'
  BY <1>a DEF SInv, More
<1>2. Messages'
  <2> SUFFICES ASSUME NEW d \in Calls, NEW j \in 0..MaxRetries PROVE MessageOf(d, j)'
    BY DEF Messages
  <2>1. MessageOf(d, j) /\ <<d, j>> \in Ids
    BY IdFacts DEF SInv, Messages
  <2>2. /\ wire'[<<d, j>>] = "none" => wire[<<d, j>>] = "none"
        /\ wire'[<<d, j>>] = "closed" => <<d, j>> \notin pending'
    BY <1>a, <2>1 DEF MessageOf
  <2>3. <<d, j>> \in pending' \cup flushing' <=> <<d, j>> \in pending \cup flushing
    BY <1>a
  <2> QED
    BY <1>a, <2>1, <2>2, <2>3 DEF MessageOf
<1>3. Held' /\ Works' /\ Retrying' /\ Counted'
  BY <1>a, SFrames DEF SInv
<1>4. Stopping'
  <2>1. stop # "done"
    BY <1>a DEF SInv, Stopping
  <2> QED
    BY <2>1, <1>a DEF SInv, Stopping, InSend, Sending
<1> QED
  BY <1>1, <1>2, <1>3, <1>4 DEF SInv

\* Pipes break, shutdown() proceeds.
LEMMA StopKeepsS ==
  ASSUME IInv, SInv, UNCHANGED load,
         \/ \E p \in Peers : PipeBreaks(p)
         \/ ShutdownStep \/ Stop
  PROVE  SInv'
<1>a. UNCHANGED <<stage, pending, timeouts, active, flag, task, fut, attached, orig, count,
                  sched, retryMap, retry, flushing, wire, ran>>
  BY DEF PipeBreaks, ShutdownStep, Stop, JoinRetryThread, NotifyTimeoutThread, CloseContext,
         WaitWorkComplete, StopUnchanged, sendVars, futVars, retryVars
<1>p. /\ poll' \in [pc : {"armed", "wait", "mark", "gone"}, expired : SUBSET Ids]
      /\ poll'.expired = poll.expired /\ (poll.pc = "gone" => poll'.pc = "gone")
  <2>1. poll' = poll \/ poll' = Notify(poll)
    BY DEF PipeBreaks, ShutdownStep, Stop, JoinRetryThread, NotifyTimeoutThread, CloseContext,
           WaitWorkComplete
  <2> QED
    BY <2>1 DEF Notify, Check, SInv, More
<1>1. More'
  <2>1. running' \in BOOLEAN /\ down' \subseteq Peers
        /\ stop' \in {"none", "stopped", "retryJoined", "notified", "closing", "done"}
    BY ConstAssumption
    DEF PipeBreaks, ShutdownStep, Stop, JoinRetryThread, NotifyTimeoutThread, CloseContext,
        WaitWorkComplete, Goes, SInv, More
  <2> QED
    BY <2>1, <1>a, <1>p DEF SInv, More
<1>2. Messages'
  BY <1>a, <1>p DEF SInv, Messages, MessageOf
<1>3. Held' /\ Works' /\ Retrying' /\ Counted'
  BY <1>a, SFrames DEF SInv
<1>i. \A c \in Calls : InSend(c)' <=> InSend(c)
  BY <1>a DEF InSend, Sending
<1>4. CASE \E p \in Peers : PipeBreaks(p)
  <2>1. UNCHANGED <<running, stop, poll>> /\ (down = Peers => down' = Peers)
    BY <1>4, ConstAssumption DEF PipeBreaks
  <2>2. Stopping'
    BY <2>1, <1>a, <1>i DEF SInv, Stopping
  <2> QED
    BY <1>1, <1>2, <1>3, <2>2 DEF SInv
<1>5. CASE ShutdownStep \/ Stop
  <2>1. CASE Stop
    BY <2>1, <1>a, <1>i, <1>1, <1>2, <1>3 DEF Stop, Goes, SInv, Stopping
  <2>2. CASE JoinRetryThread
    BY <2>2, <1>a, <1>i, <1>1, <1>2, <1>3 DEF JoinRetryThread, Goes, SInv, Stopping
  <2>3. CASE NotifyTimeoutThread
    BY <2>3, <1>a, <1>i, <1>1, <1>2, <1>3 DEF NotifyTimeoutThread, Goes, SInv, Stopping
  <2>4. CASE CloseContext
    BY <2>4, <1>a, <1>i, <1>1, <1>2, <1>3 DEF CloseContext, Goes, SInv, Stopping
  <2>5. CASE WaitWorkComplete
    BY <2>5, <1>a, <1>i, <1>1, <1>2, <1>3 DEF WaitWorkComplete, Goes, SInv, Stopping
  <2> QED
    BY <1>5, <2>1, <2>2, <2>3, <2>4, <2>5 DEF ShutdownStep
<1> QED
  BY <1>4, <1>5

\* No call has begun.
LEMMA InitHoldsS == Init => SInv
<1> SUFFICES ASSUME Init PROVE SInv
  OBVIOUS
<1>1. More
  BY ConstAssumption DEF Init, More
<1>2. Messages
  BY IdFacts DEF Init, Messages, MessageOf
<1>3. Held /\ Works
  BY DEF Init, Held, HeldOf, Works, WorksOf
<1>4. Retrying
  BY DEF Init, Retrying, RetryOf
<1>5. Stopping
  BY DEF Init, Stopping
<1>6. Counted
  <2>1. Started = {} /\ Finished = {}
    BY DEF Init, Started, Finished
  <2> QED
    BY <2>1, FS_EmptySet DEF Init, Counted
<1> QED
  BY <1>1, <1>2, <1>3, <1>4, <1>5, <1>6 DEF SInv

\* Every step keeps the invariant.
LEMMA StepKeepsS ==
  ASSUME IInv, SInv, [Next]_vars
  PROVE  SInv'
<1>1. CASE UNCHANGED vars
  BY <1>1, SFrames
  DEF SInv, vars, agentVars, sendVars, futVars, retryVars, netVars
<1>2. CASE Next
  <2>0. UNCHANGED load
    BY <1>2 DEF Next
  <2>1. ASSUME NEW c \in Calls, Call(c) \/ CallerStep(c)
        PROVE  SInv'
    BY <2>0, <2>1, CallKeepsS, CallerSendsKeepsS, CallerAttachesKeepsS, RescheduleKeepsS
    DEF CallerStep
  <2>2. ASSUME NEW id \in Ids,
               PoolStep(id) \/ Serve(id) \/ Receive(id) \/ HandleClientError(id) \/ Flush(id)
        PROVE  SInv'
    <3>1. PICK c \in Calls, k \in 0..MaxRetries : id = <<c, k>>
      BY IdFacts
    <3>2. CASE PoolStep(id)
      BY <2>0, <3>1, <3>2, CompleteKeepsS, DecreaseKeepsS, RescheduleKeepsS DEF PoolStep
    <3>3. CASE Serve(id) \/ Receive(id)
      BY <2>0, <3>1, <3>3, ServeKeepsS, ReceiveKeepsS
    <3>4. CASE HandleClientError(id) \/ Flush(id)
      BY <2>0, <3>1, <3>4, HandleClientErrorKeepsS, FlushKeepsS
    <3> QED
      BY <2>2, <3>2, <3>3, <3>4
  <2>3. CASE RetryStep
    BY <2>0, <2>3, TakeRetriesKeepsS, RetryLoopsKeepsS, RetryBeginsKeepsS, RetrySendsKeepsS,
       RetryAttachesKeepsS, RetryFailsKeepsS, RescheduleKeepsS
    DEF RetryStep
  <2>4. CASE PollStep
    <3>1. CASE PollWaits \/ PollEnds \/ PollTakes
      BY <2>0, <3>1, PollKeepsS
    <3>2. ASSUME NEW id \in Ids, PollMarks(id)
          PROVE  SInv'
      <4>1. PICK c \in Calls, k \in 0..MaxRetries : id = <<c, k>>
        BY IdFacts
      <4> QED
        BY <2>0, <3>2, <4>1, PollMarksKeepsS
    <3> QED
      BY <2>4, <3>1, <3>2 DEF PollStep
  <2>5. CASE ShutdownStep \/ Stop \/ \E p \in Peers : PipeBreaks(p)
    BY <2>0, <2>5, StopKeepsS
  <2> QED
    BY <1>2, <2>1, <2>2, <2>3, <2>4, <2>5 DEF Next
<1> QED
  BY <1>1, <1>2

\* Every call in progress has a holder, every message is tracked until its
\* future is completed, and clientActiveCalls_ is exact.
THEOREM ShutdownInvariant == Spec => []SInv
<1>1. IInv /\ SInv /\ [Next]_vars => SInv'
  BY StepKeepsS
<1> QED
  BY <1>1, InitHoldsS, Holding, PTL DEF Spec

-----------------------------------------------------------------------------
\* When clientActiveCalls_ is 0 and no send() is under way or threw, join() may
\* rely on it: every future is completed and its callbacks have run.
THEOREM RpcJoinSeesWork == Spec => []JoinSeesWork
<1>1. IInv /\ SInv => JoinSeesWork
  <2> SUFFICES ASSUME IInv, SInv, active = 0, \A id \in Ids : stage[id] \in {"none", "sent"}
               PROVE  /\ \A id \in Ids : stage[id] = "sent" => fut[id] # "open"
                      /\ \A c \in Calls : sched[c] # "pool"
    BY DEF JoinSeesWork
  <2>1. Finished \subseteq Started
    <3> SUFFICES ASSUME NEW id \in Ids, task[id] = "done" PROVE stage[id] = "sent"
      BY DEF Finished, Started
    <3>1. PICK c \in Calls, k \in 0..MaxRetries : id = <<c, k>>
      BY IdFacts
    <3>2. stage[id] # "none"
      BY <3>1 DEF SInv, Messages, MessageOf
    <3> QED
      BY <3>2
  <2>2. Cardinality(Started) = Cardinality(Finished)
    BY CountFacts DEF SInv, Counted
  <2>3. Finished = Started
    BY <2>1, <2>2, CountFacts, FS_Subset
  <2>4. \A id \in Ids : stage[id] = "sent" => task[id] = "done"
    BY <2>3 DEF Finished, Started
  <2>5. ASSUME NEW id \in Ids, stage[id] = "sent" PROVE fut[id] # "open"
    <3>1. PICK c \in Calls, k \in 0..MaxRetries : id = <<c, k>>
      BY IdFacts
    <3> QED
      BY <2>4, <2>5, <3>1 DEF IInv, Futures, FutureOf
  <2>6. ASSUME NEW c \in Calls, sched[c] = "pool" PROVE FALSE
    <3>1. PICK k \in 0..MaxRetries : task[<<c, k>>] = "decrease"
      BY <2>6 DEF SInv, Works, WorksOf
    <3>2. stage[<<c, k>>] # "none" /\ <<c, k>> \in Ids
      BY <3>1, IdFacts DEF SInv, Messages, MessageOf
    <3> QED
      BY <2>4, <3>1, <3>2
  <2> QED
    BY <2>5, <2>6
<1> QED
  BY <1>1, Holding, ShutdownInvariant, PTL

\* When shutdown() has returned, no thread and no callback of the agent is left
\* and every call is answered, unless it waits in rpcRetryMap_ for a retry that
\* the joined retry thread will never make.
THEOREM RpcSettledAtShutdown == Spec => []SettledAtShutdown
<1>1. IInv /\ SInv => TypeOK
  <2> SUFFICES ASSUME IInv, SInv PROVE TypeOK
    OBVIOUS
  <2>1. count \in [Calls -> 0..load.retries]
    <3>1. load.retries \in Nat
      BY ConstAssumption DEF IInv, Typed
    <3> QED
      BY <3>1 DEF IInv, Typed, SInv, More
  <2>2. retryMap \subseteq {c \in Calls : count[c] < load.retries}
    BY DEF IInv, Typed, OneHolder, HolderOf, InRetry
  <2> QED
    BY <2>1, <2>2 DEF TypeOK, IInv, Typed, SInv, More
<1>2. IInv /\ SInv /\ stop = "done" =>
        /\ \A c \in Calls : orig[c] = "open" => c \in retryMap
        /\ \A c \in Calls : sched[c] = "no"
        /\ \A id \in Ids : task[id] \in {"none", "done"}
  <2> SUFFICES ASSUME IInv, SInv, stop = "done", NEW c \in Calls
               PROVE  (orig[c] = "open" => c \in retryMap) /\ sched[c] = "no"
    BY DEF SInv, Stopping
  <2>0. /\ ~InSend(c) /\ retry.pc = "gone" /\ flushing = {}
        /\ \A id \in Ids : wire[id] \in {"none", "closed"} /\ task[id] \in {"none", "done"}
    BY DEF SInv, Stopping
  <2>1. sched[c] = "no"
    <3>1. sched[c] # "caller" /\ sched[c] # "retry"
      BY <2>0 DEF InSend, SInv, Retrying, RetryOf
    <3>2. sched[c] # "pool"
      BY <2>0, IdFacts DEF SInv, Works, WorksOf
    <3> QED
      BY <3>1, <3>2 DEF IInv, Typed
  <2>2. ~Calling(c)
    BY <2>0 DEF InSend, Calling
  <2>3. ~Awaited(c)
    <3> SUFFICES ASSUME Awaited(c) PROVE FALSE
      OBVIOUS
    <3>1. PICK k \in 0..MaxRetries : k = count[c]
      BY DEF IInv, Typed
    <3>2. <<c, k>> \in attached /\ fut[<<c, k>>] = "open" /\ <<c, k>> \in Ids
      BY <3>1, IdFacts DEF Awaited
    <3>3. MessageOf(c, k) /\ FutureOf(c, k)
      BY DEF SInv, Messages, IInv, Futures
    <3>4. task[<<c, k>>] = "none"
      BY <2>0, <3>2, <3>3 DEF FutureOf
    <3>5. wire[<<c, k>>] = "closed"
      BY <2>0, <3>2, <3>3 DEF MessageOf
    <3> QED
      BY <2>0, <3>2, <3>3, <3>4, <3>5 DEF MessageOf
  <2>4. InRetry(c) => c \in retryMap
    BY <2>0 DEF InRetry, SInv, Retrying
  <2> QED
    BY <2>1, <2>2, <2>3, <2>4 DEF SInv, Held, HeldOf
<1>3. IInv /\ SInv => SettledAtShutdown
  BY <1>1, <1>2 DEF SettledAtShutdown
<1> QED
  BY <1>3, Holding, ShutdownInvariant, PTL
=============================================================================
