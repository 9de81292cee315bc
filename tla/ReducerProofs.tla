---------------------------- MODULE ReducerProofs ----------------------------
(***************************************************************************)
(* Proofs that no rank goes on training after a reduction that did not     *)
(* finish, and that the process group pairs the same collectives on all    *)
(* ranks: for any ranks, parameters, sizes, graphs and programs, in every  *)
(* order of the hooks.  The first part keeps account of the reductions of  *)
(* a rank (IInv); the second one says which collectives each rank issues   *)
(* in each of its rounds and how far two ranks may be apart (JInv).        *)
(***************************************************************************)
EXTENDS Reducer, FiniteSetTheorems, SequenceTheorems, WellFoundedInduction, TLAPS

Fields ==
  {"iterations", "expect", "finalize", "buckets", "next", "ready", "view", "unused", "marked",
   "used", "reduced", "hooks", "left", "order", "rebuilt", "plan", "callback", "work", "done",
   "error"}

Outside == {"idle", "indices", "sizes", "forward"}
InForward == {"indices", "sizes", "forward"}

(* The state of a rank: P is the program, R its Reducer, l where it is, k    *)
(* the passes it has completed, G its graph, f its hooks to fire and n its   *)
(* finalized reductions.                                                     *)

RankTypes(P, R, l, k, G, f, n) ==
  /\ DOMAIN R = Fields
  /\ R.iterations \in Nat /\ R.hooks \in [Params -> Nat] /\ R.left \in [Params -> Nat]
  /\ R.expect \in BOOLEAN /\ R.finalize \in BOOLEAN
  /\ R.error = (l = "raised")
  /\ l \in Locations /\ k \in Nat /\ n \in Nat
  /\ G \in Graphs[P.mode] /\ f \in [Params -> Nat]

\* Reduces, of the program P.
Reducing(P, i) ==
  \/ P.passes[i] = "sync"
  \/ P.passes[i] = "nosync" /\ i > 1 /\ P.passes[i - 1] = "ignored"

\* The reductions that the first k passes should have finalized.
Due(P, k) == Cardinality({i \in 1..k : Reducing(P, i)})

\* The hooks are expected by a forward that was ignored.
AfterIgnored(P, k) == k > 0 /\ P.passes[k] = "ignored"

\* A hook is still to fire that marks its parameter, in a static graph because no
\* more are counted for it than will fire.
Awaited(P, R, f) ==
  \E p \in Params : f[p] > 0 /\ (P.mode = "static" => R.left[p] \leq f[p])

\* What is due while the rank is outside of a backward.
AccountOutside(P, R, l, k, n) ==
  /\ l \in InForward => ~R.finalize /\ k < Len(P.passes)
  /\ R.finalize \/ n = Due(P, k)
  /\ ~R.finalize => (R.expect <=> AfterIgnored(P, k))

\* And in one.
AccountInside(P, R, l, k, f, n) ==
  /\ n = Due(P, k) /\ k < Len(P.passes) /\ P.passes[k + 1] # "ignored"
  /\ l = "final" => Reducing(P, k + 1)
  /\ l = "backward" =>
       /\ R.expect <=> Reducing(P, k + 1)
       /\ R.expect => R.finalize \/ R.callback = "delay" \/ Awaited(P, R, f)
       /\ ~R.expect => ~R.finalize

NoHooks(R) == \A p \in Params : R.hooks[p] = 0

\* What a static graph counted in its first iteration: no more hooks than a
\* parameter of the loss has.
CountedOutside(P, R, l, k) ==
  /\ l \in InForward /\ P.passes[k + 1] # "nosync" => R.iterations > 0
  /\ k = 0 => NoHooks(R)
  /\ R.iterations = 1 /\ l \in InForward /\ P.passes[k + 1] # "nosync" => NoHooks(R)
  /\ R.expect /\ ~R.finalize => R.left = R.hooks /\ (R.iterations = 1 => NoHooks(R))

CountedInside(R, l, G, f) ==
  /\ l = "backward" /\ R.expect /\ R.iterations = 1 =>
       \A p \in Params : G.loss[p] > 0 => R.hooks[p] + f[p] \leq G.loss[p]
  /\ l = "backward" /\ R.iterations = 1 => R.callback = "delay"

Counted(P, R, l, k, G, f) ==
  /\ R.expect => R.iterations > 0
  /\ R.iterations = 0 => NoHooks(R)
  /\ \A p \in Params : G.loss[p] > 0 => R.hooks[p] \leq G.loss[p]
  /\ l \in Outside => CountedOutside(P, R, l, k)
  /\ CountedInside(R, l, G, f)

RankInv(P, R, l, k, G, f, n) ==
  \/ l = "raised"
  \/ /\ l \in Outside => AccountOutside(P, R, l, k, n)
     /\ l \in {"backward", "final"} => AccountInside(P, R, l, k, f, n)
     /\ P.mode = "static" => Counted(P, R, l, k, G, f)

\* The static graph of some rank changed.
Changed == Mode = "static" /\ broken

Shape ==
  /\ DOMAIN red = Ranks /\ DOMAIN pc = Ranks /\ DOMAIN pass = Ranks
  /\ DOMAIN graph = Ranks /\ DOMAIN fires = Ranks /\ DOMAIN finals = Ranks

\* The inductive invariant: unless a static graph changed, every rank keeps account.
IInv ==
  /\ program \in Programs /\ broken \in BOOLEAN /\ Shape
  /\ \A r \in Ranks :
       /\ RankTypes(program, red[r], pc[r], pass[r], graph[r], fires[r], finals[r])
       /\ Changed \/ RankInv(program, red[r], pc[r], pass[r], graph[r], fires[r], finals[r])

-----------------------------------------------------------------------------
(* The Reducer's methods, as far as the account goes.                       *)

\* Q is R but for what the account does not read.
Agree(R, Q) ==
  /\ DOMAIN Q = Fields
  /\ Q.iterations = R.iterations /\ Q.expect = R.expect /\ Q.finalize = R.finalize
  /\ Q.hooks = R.hooks /\ Q.left = R.left /\ Q.callback = R.callback

\* Q is R after parameters were marked: the reduction is under way, or a check failed.
Marks(R, Q) ==
  /\ DOMAIN Q = Fields
  /\ Q.iterations = R.iterations /\ Q.expect = R.expect /\ Q.hooks = R.hooks /\ Q.left = R.left
  /\ Q.error \in BOOLEAN /\ (Q.error = FALSE => Q.finalize = TRUE)
  /\ Q.finalize \in BOOLEAN

\* mark_bucket_ready issues collectives.
LEMMA MarkBucketReadyFacts ==
  ASSUME NEW R, DOMAIN R = Fields
  PROVE  Agree(R, MarkBucketReady(R)) /\ MarkBucketReady(R).error = R.error
<1>1. PICK stop, w : MarkBucketReady(R) = [R EXCEPT !.next = stop, !.work = w]
  BY DEF MarkBucketReady
<1> QED
  BY SMTT(40), <1>1 DEF Agree, Fields

\* Copying gradients into the buckets leaves the account.
LEMMA DenseFacts ==
  ASSUME NEW R, DOMAIN R = Fields, NEW g, NEW S
  PROVE  /\ Agree(R, MarkVariablesReadyDense(R, g, S))
         /\ MarkVariablesReadyDense(R, g, S).error \in BOOLEAN
<1> DEFINE b == /\ DynamicFindUnused \/ StaticFirst(R)
                /\ \E p \in S : g[p] = {} /\ p \in R.used
           v == [p \in Params |-> IF p \in S THEN g[p] ELSE R.view[p]]
<1>1. MarkVariablesReadyDense(R, g, S) = [R EXCEPT !.view = v, !.error = b]
  BY DEF MarkVariablesReadyDense
<1>2. b \in BOOLEAN
  OBVIOUS
<1> HIDE DEF b, v
<1> QED
  BY <1>1, <1>2 DEF Agree, Fields

\* Queueing the final callback keeps the reduction to be finalized.
LEMMA AllBucketsReadyFacts ==
  ASSUME NEW R, DOMAIN R = Fields, R.finalize = TRUE, R.error = FALSE
  PROVE  Marks(R, AllBucketsReady(R))
<1>1. CASE R.next \leq Len(R.buckets)
  BY <1>1 DEF AllBucketsReady, Marks
<1>2. CASE ~(R.next \leq Len(R.buckets))
  <2>1. PICK w : AllBucketsReady(R) = [R EXCEPT !.callback = "finalize", !.work = w]
    BY <1>2 DEF AllBucketsReady
  <2> QED
    BY <2>1 DEF Marks, Fields
<1> QED
  BY <1>1, <1>2

\* mark_variable_ready requires the reduction to be finalized.
LEMMA MarkFacts ==
  ASSUME NEW R, DOMAIN R = Fields, R.finalize \in BOOLEAN, NEW g, NEW S
  PROVE  /\ S = {} => MarkVariablesReady(R, g, S) = R
         /\ S # {} => Marks(R, MarkVariablesReady(R, g, S))
<1>1. CASE S = {}
  BY <1>1 DEF MarkVariablesReady
<1>2. CASE S # {} /\ S \cap R.ready # {}
  <2>1. MarkVariablesReady(R, g, S) = [R EXCEPT !.error = TRUE]
    BY <1>2 DEF MarkVariablesReady
  <2> QED
    BY <1>2, <2>1 DEF Marks, Fields
<1>3. CASE S # {} /\ S \cap R.ready = {}
  <2>1. PICK T : T = [R EXCEPT !.ready = @ \cup S, !.finalize = TRUE]
    OBVIOUS
  <2>2. /\ DOMAIN T = Fields /\ T.finalize = TRUE
        /\ T.iterations = R.iterations /\ T.expect = R.expect /\ T.hooks = R.hooks
        /\ T.left = R.left
    BY <2>1 DEF Fields
  <2>3. PICK H : H = MarkVariablesReadyDense(T, g, S)
    OBVIOUS
  <2>4. Agree(T, H) /\ H.error \in BOOLEAN
    BY <2>2, <2>3, DenseFacts
  <2>5. MarkVariablesReady(R, g, S) = IF H.error THEN H ELSE AllBucketsReady(MarkBucketReady(H))
    BY <1>3, <2>1, <2>3 DEF MarkVariablesReady
  <2>6. CASE H.error = TRUE
    BY <1>3, <2>2, <2>4, <2>5, <2>6 DEF Agree, Marks
  <2>7. CASE H.error = FALSE
    <3>1. PICK B : B = MarkBucketReady(H)
      OBVIOUS
    <3>2. Agree(H, B) /\ B.error = H.error
      BY <2>4, <3>1, MarkBucketReadyFacts DEF Agree
    <3>3. DOMAIN B = Fields /\ B.finalize = TRUE /\ B.error = FALSE
      BY <2>2, <2>4, <2>7, <3>2 DEF Agree
    <3>4. Marks(B, AllBucketsReady(B))
      BY <3>3, AllBucketsReadyFacts
    <3>5. MarkVariablesReady(R, g, S) = AllBucketsReady(B)
      BY <2>5, <2>7, <3>1
    <3> QED
      BY <1>3, <2>2, <2>4, <3>2, <3>4, <3>5 DEF Agree, Marks
  <2> QED
    BY <2>4, <2>6, <2>7
<1> QED
  BY <1>1, <1>2, <1>3

\* rebuilt_param_indices_ is no part of it.
LEMMA PushRebuiltFacts ==
  ASSUME NEW R, DOMAIN R = Fields, NEW ps
  PROVE  Agree(R, PushRebuilt(R, ps)) /\ PushRebuilt(R, ps).error = R.error
<1>1. CASE ShouldRebuild(R)
  <2>1. PICK o : PushRebuilt(R, ps) = [R EXCEPT !.order = o]
    BY <1>1 DEF PushRebuilt
  <2> QED
    BY <2>1 DEF Agree, Fields
<1>2. CASE ~ShouldRebuild(R)
  BY <1>2 DEF PushRebuilt, Agree
<1> QED
  BY <1>1, <1>2

\* The hook of a parameter that is ready has the reduction to be finalized.
LEMMA MarkHookedFacts ==
  ASSUME NEW R, DOMAIN R = Fields, R.finalize \in BOOLEAN, NEW g, NEW p
  PROVE  Marks(R, MarkHooked(R, g, p))
<1>1. PICK T : T = PushRebuilt(R, <<p>>)
  OBVIOUS
<1>2. Agree(R, T)
  BY <1>1, PushRebuiltFacts
<1>3. DOMAIN T = Fields /\ T.finalize \in BOOLEAN
  BY <1>2 DEF Agree
<1>4. Marks(T, MarkVariablesReady(T, g, {p}))
  BY <1>3, MarkFacts
<1>5. MarkHooked(R, g, p) = MarkVariablesReady(T, g, {p})
  BY <1>1 DEF MarkHooked
<1> QED
  BY <1>2, <1>4, <1>5 DEF Agree, Marks

\* The unused parameters, if there are any, are marked by the first hook.
LEMMA MarkUnusedFacts ==
  ASSUME NEW R, DOMAIN R = Fields, R.finalize \in BOOLEAN, R.error = FALSE, NEW g
  PROVE  \/ Marks(R, MarkUnused(R, g))
         \/ Agree(R, MarkUnused(R, g)) /\ MarkUnused(R, g).error = FALSE
<1>1. CASE R.marked
  BY <1>1 DEF MarkUnused, Agree
<1>2. CASE ~R.marked
  <2>1. PICK T : T = [R EXCEPT !.marked = TRUE]
    OBVIOUS
  <2>2. Agree(R, T) /\ T.error = FALSE
    BY <2>1 DEF Agree, Fields
  <2>3. MarkUnused(R, g) = MarkVariablesReady(T, g, R.unused)
    BY <1>2, <2>1 DEF MarkUnused
  <2>4. DOMAIN T = Fields /\ T.finalize \in BOOLEAN
    BY <2>2 DEF Agree
  <2>5. MarkUnused(R, g) = T \/ Marks(T, MarkUnused(R, g))
    BY <2>3, <2>4, MarkFacts
  <2> QED
    BY <2>2, <2>5 DEF Agree, Marks
<1> QED
  BY <1>1, <1>2

\* Recording that a parameter is used changes nothing else.
LEMMA MarkUsedFacts ==
  ASSUME NEW R, DOMAIN R = Fields, NEW g, NEW p
  PROVE  Agree(R, MarkUsed(R, g, p)) /\ MarkUsed(R, g, p).error = R.error
<1>1. MarkUsed(R, g, p) = R \/ MarkUsed(R, g, p) = [R EXCEPT !.used = @ \cup {p}]
  BY DEF MarkUsed
<1> QED
  BY <1>1 DEF Agree, Fields

\* What a hook of p makes of its count in a static graph after the first iteration.
CountedDown(R, Q, p) ==
  /\ DOMAIN Q = Fields
  /\ Q.iterations = R.iterations /\ Q.expect = R.expect /\ Q.hooks = R.hooks
  /\ Q.left \in [Params -> Nat] /\ Q.error \in BOOLEAN /\ Q.finalize \in BOOLEAN
  /\ \/ Q.error
     \/ Q.finalize
     \/ /\ R.left[p] > 1 /\ Q.left = [R.left EXCEPT ![p] = @ - 1]
        /\ Q.finalize = R.finalize /\ Q.callback = R.callback

\* A hook of a static graph after its first iteration counts down, or marks.
LEMMA CountHookFacts ==
  ASSUME NEW R, DOMAIN R = Fields, R.finalize \in BOOLEAN, R.error = FALSE,
         R.left \in [Params -> Nat], NEW g, NEW p \in Params
  PROVE  CountedDown(R, CountHook(R, g, p), p)
<1>0. R.left[p] \in Nat
  OBVIOUS
<1>1. CASE R.left[p] = 0
  <2>1. CountHook(R, g, p) = [R EXCEPT !.error = TRUE]
    BY <1>1 DEF CountHook
  <2> QED
    BY <2>1 DEF CountedDown, Fields
<1>2. CASE R.left[p] > 1
  <2>1. CountHook(R, g, p) = [R EXCEPT !.left[p] = @ - 1]
    BY <1>2 DEF CountHook
  <2>2. PICK c : c = [R.left EXCEPT ![p] = @ - 1]
    OBVIOUS
  <2>3. c \in [Params -> Nat]
    BY <1>0, <1>2, <2>2
  <2>4. CountHook(R, g, p) = [R EXCEPT !.left = c]
    BY <2>1, <2>2
  <2> QED
    BY <1>2, <2>2, <2>3, <2>4 DEF CountedDown, Fields
<1>3. CASE R.left[p] = 1
  <2>1. PICK c : c = [R.left EXCEPT ![p] = 0]
    OBVIOUS
  <2>2. c \in [Params -> Nat]
    BY <2>1
  <2>3. PICK T : T = [R EXCEPT !.left = c]
    OBVIOUS
  <2>4. /\ DOMAIN T = Fields /\ T.finalize \in BOOLEAN /\ T.left = c
        /\ T.iterations = R.iterations /\ T.expect = R.expect /\ T.hooks = R.hooks
    BY <2>3 DEF Fields
  <2>5. CountHook(R, g, p) = MarkHooked(T, g, p)
    BY <1>3, <2>1, <2>3 DEF CountHook
  <2>6. Marks(T, MarkHooked(T, g, p))
    BY <2>4, MarkHookedFacts
  <2> QED
    BY <2>2, <2>4, <2>5, <2>6 DEF Marks, CountedDown
<1> QED
  BY <1>0, <1>1, <1>2, <1>3

\* What autograd_hook makes of R: nothing when hooks are not expected, a count in the
\* first static iteration, and otherwise a reduction under way, a failed check, or one
\* hook of several.
Hooked(R, Q, p) ==
  /\ ~R.expect => Q = R
  /\ R.expect /\ StaticFirst(R) =>
       /\ DOMAIN Q = Fields
       /\ Q.iterations = R.iterations /\ Q.expect = R.expect /\ Q.finalize = R.finalize
       /\ Q.left = R.left /\ Q.callback = R.callback /\ Q.error = FALSE
       /\ Q.hooks = [R.hooks EXCEPT ![p] = @ + 1]
  /\ R.expect /\ ~StaticFirst(R) =>
       CountedDown(R, Q, p) /\ (Mode # "static" => Q.error \/ Q.finalize)

\* autograd_hook does so.
LEMMA AutogradHookFacts ==
  ASSUME NEW R, DOMAIN R = Fields, R.finalize \in BOOLEAN, R.error = FALSE,
         R.left \in [Params -> Nat], R.hooks \in [Params -> Nat], NEW g, NEW p \in Params,
         NEW Q, Q = AutogradHook(R, g, p)
  PROVE  Hooked(R, Q, p)
<1>1. CASE ~R.expect
  BY <1>1 DEF AutogradHook, Hooked
<1>2. PICK U : U = MarkUsed(R, g, p)
  OBVIOUS
<1>3. Agree(R, U) /\ U.error = FALSE
  BY <1>2, MarkUsedFacts
<1>4. CASE R.expect /\ StaticFirst(R)
  <2>1. Q = [U EXCEPT !.hooks[p] = @ + 1]
    BY <1>2, <1>4 DEF AutogradHook
  <2>2. PICK h : h = [U.hooks EXCEPT ![p] = @ + 1]
    OBVIOUS
  <2>3. Q = [U EXCEPT !.hooks = h]
    BY <2>1, <2>2
  <2>4. h = [R.hooks EXCEPT ![p] = @ + 1]
    BY <1>3, <2>2 DEF Agree
  <2>5. /\ DOMAIN Q = Fields /\ Q.hooks = h
        /\ Q.iterations = U.iterations /\ Q.expect = U.expect /\ Q.finalize = U.finalize
        /\ Q.left = U.left /\ Q.callback = U.callback /\ Q.error = U.error
    BY <1>3, <2>3 DEF Agree, Fields
  <2> QED
    BY <1>3, <1>4, <2>4, <2>5 DEF Agree, Hooked
<1>5. CASE R.expect /\ ~StaticFirst(R)
  <2>1. PICK V : V = MarkUnused(U, g)
    OBVIOUS
  <2>2. Q = HookMarks(V, g, p)
    BY <1>2, <1>5, <2>1 DEF AutogradHook
  <2>3. DOMAIN U = Fields /\ U.finalize \in BOOLEAN
    BY <1>3 DEF Agree
  <2>4. Marks(U, V) \/ (Agree(U, V) /\ V.error = FALSE)
    BY <1>3, <2>1, <2>3, MarkUnusedFacts
  <2>5. /\ DOMAIN V = Fields /\ V.finalize \in BOOLEAN /\ V.error \in BOOLEAN
        /\ V.iterations = R.iterations /\ V.expect = R.expect /\ V.hooks = R.hooks
        /\ V.left = R.left
        /\ V.error \/ V.finalize \/ (V.finalize = R.finalize /\ V.callback = R.callback)
    BY <1>3, <2>3, <2>4 DEF Agree, Marks
  <2>6. CASE V.error = TRUE
    <3>1. Q = V
      BY <2>2, <2>6 DEF HookMarks
    <3> QED
      BY <1>5, <2>5, <2>6, <3>1 DEF CountedDown, Hooked
  <2>7. CASE V.error = FALSE /\ Mode = "static"
    <3>1. Q = CountHook(V, g, p)
      BY <2>2, <2>7 DEF HookMarks
    <3>2. CountedDown(V, Q, p)
      BY <2>5, <2>7, <3>1, CountHookFacts
    <3>3. CountedDown(R, Q, p)
      BY <2>5, <2>7, <3>2 DEF CountedDown
    <3> QED
      BY <1>5, <2>7, <3>3 DEF Hooked
  <2>8. CASE V.error = FALSE /\ Mode # "static"
    <3>1. Q = MarkHooked(V, g, p)
      BY <2>2, <2>8 DEF HookMarks
    <3>2. Marks(V, Q)
      BY <2>5, <3>1, MarkHookedFacts
    <3> QED
      BY <1>5, <2>5, <3>2 DEF CountedDown, Marks, Hooked
  <2> QED
    BY <2>5, <2>6, <2>7, <2>8
<1> QED
  BY <1>1, <1>4, <1>5
-----------------------------------------------------------------------------
(* The account of a rank.                                                   *)

\* The reductions due grow by one with each pass that reduces.
LEMMA DueNext ==
  ASSUME NEW P, NEW k \in Nat
  PROVE  /\ Due(P, 0) = 0 /\ Due(P, k) \in Nat
         /\ Reducing(P, k + 1) => Due(P, k + 1) = Due(P, k) + 1
         /\ ~Reducing(P, k + 1) => Due(P, k + 1) = Due(P, k)
<1> DEFINE D(m) == {i \in 1..m : Reducing(P, i)}
<1>1. D(0) = {}
  OBVIOUS
<1>2. IsFiniteSet(1..k)
  BY FS_Interval
<1>3. IsFiniteSet(D(k))
  BY <1>2, FS_Subset
<1>4. k + 1 \notin D(k)
  OBVIOUS
<1>5. Reducing(P, k + 1) => D(k + 1) = D(k) \cup {k + 1}
  OBVIOUS
<1>6. ~Reducing(P, k + 1) => D(k + 1) = D(k)
  OBVIOUS
<1>7. Due(P, 0) = Cardinality(D(0)) /\ Due(P, k) = Cardinality(D(k))
      /\ Due(P, k + 1) = Cardinality(D(k + 1))
  BY DEF Due
<1> HIDE DEF D
<1>8. Cardinality(D(k)) \in Nat
  BY <1>3, FS_CardinalityType
<1>9. Cardinality(D(k) \cup {k + 1}) = Cardinality(D(k)) + 1
  BY <1>3, <1>4, FS_AddElement
<1> QED
  BY <1>1, <1>5, <1>6, <1>7, <1>8, <1>9, FS_EmptySet

\* A step of one rank: the others keep their account.
LEMMA StepInv ==
  ASSUME IInv, UNCHANGED program, broken' \in BOOLEAN, broken => broken', Shape',
         NEW r \in Ranks,
         \A s \in Ranks \ {r} :
           /\ red'[s] = red[s] /\ pc'[s] = pc[s] /\ pass'[s] = pass[s]
           /\ graph'[s] = graph[s] /\ fires'[s] = fires[s] /\ finals'[s] = finals[s],
         RankTypes(program, red'[r], pc'[r], pass'[r], graph'[r], fires'[r], finals'[r]),
         \/ Mode = "static" /\ broken'
         \/ RankInv(program, red'[r], pc'[r], pass'[r], graph'[r], fires'[r], finals'[r])
  PROVE  IInv'
<1>1. Changed' <=> Mode = "static" /\ broken'
  BY DEF Changed, Mode
<1>2. Changed => Changed'
  BY <1>1 DEF Changed
<1>3. ASSUME NEW s \in Ranks
      PROVE  /\ RankTypes(program, red'[s], pc'[s], pass'[s], graph'[s], fires'[s], finals'[s])
             /\ \/ Changed'
                \/ RankInv(program, red'[s], pc'[s], pass'[s], graph'[s], fires'[s], finals'[s])
  <2>1. CASE s = r
    BY <1>1, <2>1
  <2>2. CASE s # r
    BY <1>2, <1>3, <2>2 DEF IInv
  <2> QED
    BY <2>1, <2>2
<1> QED
  BY <1>3 DEF IInv

\* What the account reads is unchanged outside of a backward.
LEMMA AgreeInv ==
  ASSUME NEW P, NEW R, NEW Q, NEW l, NEW m, NEW k, NEW G, NEW f, NEW n,
         Agree(R, Q), RankTypes(P, R, l, k, G, f, n), l \in InForward,
         Q.error = (m = "raised"), m \in InForward \/ m = "raised"
  PROVE  /\ RankTypes(P, Q, m, k, G, f, n)
         /\ RankInv(P, R, l, k, G, f, n) => RankInv(P, Q, m, k, G, f, n)
<1>1. RankTypes(P, Q, m, k, G, f, n)
  BY DEF Agree, RankTypes, InForward, Locations
<1>2. CASE m = "raised"
  BY <1>1, <1>2 DEF RankInv
<1>3. CASE m # "raised"
  <2>1. m \in InForward /\ l # "raised" /\ m \in Outside /\ l \in Outside
        /\ m \notin {"backward", "final"} /\ m # "backward"
    BY <1>3 DEF InForward, Outside
  <2>2. AccountOutside(P, R, l, k, n) => AccountOutside(P, Q, m, k, n)
    BY <2>1 DEF AccountOutside, Agree
  <2>3. Counted(P, R, l, k, G, f) => Counted(P, Q, m, k, G, f)
    BY <2>1 DEF Counted, CountedOutside, CountedInside, NoHooks, Agree
  <2> QED
    BY <1>1, <2>1, <2>2, <2>3 DEF RankInv
<1> QED
  BY <1>2, <1>3

\* forward() starts a pass: the iteration is counted and nothing else.
LEMMA ForwardInv ==
  ASSUME NEW P, NEW R, NEW Q, NEW m, NEW k, NEW G, NEW f, NEW n, NEW it,
         RankTypes(P, R, "idle", k, G, f, n), k < Len(P.passes),
         it = IF P.passes[k + 1] = "nosync" THEN R.iterations ELSE R.iterations + 1,
         DOMAIN Q = Fields, Q.iterations = it, Q.expect = R.expect, Q.finalize = R.finalize,
         Q.hooks = R.hooks, Q.left = R.left, Q.error = (m = "raised"),
         m = "raised" \/ (m \in InForward /\ ~R.finalize)
  PROVE  /\ RankTypes(P, Q, m, k, G, f, n)
         /\ RankInv(P, R, "idle", k, G, f, n) => RankInv(P, Q, m, k, G, f, n)
<1>0. it \in Nat /\ (P.passes[k + 1] # "nosync" => it > 0) /\ (it = 0 => R.iterations = 0)
      /\ (it = 1 /\ P.passes[k + 1] # "nosync" => R.iterations = 0)
      /\ (P.passes[k + 1] = "nosync" => it = R.iterations)
      /\ (R.iterations > 0 => it > 0)
  BY DEF RankTypes
<1>1. RankTypes(P, Q, m, k, G, f, n)
  BY <1>0 DEF RankTypes, InForward, Locations
<1>2. CASE m = "raised"
  BY <1>1, <1>2 DEF RankInv
<1>3. CASE m # "raised"
  <2>1. m \in InForward /\ m \in Outside /\ "idle" \in Outside
        /\ m \notin {"backward", "final"} /\ m # "backward"
    BY <1>3 DEF InForward, Outside
  <2>2. AccountOutside(P, R, "idle", k, n) => AccountOutside(P, Q, m, k, n)
    BY <1>3, <2>1 DEF AccountOutside
  <2>3. Counted(P, R, "idle", k, G, f) => Counted(P, Q, m, k, G, f)
    BY <1>0, <2>1 DEF Counted, CountedOutside, CountedInside, NoHooks
  <2> QED
    BY <1>1, <2>1, <2>2, <2>3 DEF RankInv
<1> QED
  BY <1>2, <1>3

\* rebuild_buckets up to its first broadcast leaves the account.
LEMMA RebuildBucketsFacts ==
  ASSUME NEW R, DOMAIN R = Fields, R.error = FALSE
  PROVE  Agree(R, RebuildBuckets(R)) /\ RebuildBuckets(R).error \in BOOLEAN
<1>1. CASE Len(R.order) # Cardinality(Params)
  <2>1. RebuildBuckets(R) = [R EXCEPT !.error = TRUE]
    BY <1>1 DEF RebuildBuckets
  <2> QED
    BY <2>1 DEF Agree, Fields
<1>2. CASE Len(R.order) = Cardinality(Params)
  <2>1. PICK q, w : RebuildBuckets(R) = Issue([R EXCEPT !.plan = q], w)
    BY <1>2 DEF RebuildBuckets
  <2>2. PICK T : T = [R EXCEPT !.plan = q]
    OBVIOUS
  <2>3. Agree(R, T) /\ T.error = FALSE
    BY <2>2 DEF Agree, Fields
  <2>4. PICK v : RebuildBuckets(R) = [T EXCEPT !.work = v]
    BY <2>1, <2>2 DEF Issue
  <2> QED
    BY <2>3, <2>4 DEF Agree, Fields
<1> QED
  BY <1>1, <1>2

\* forward() up to the call of the module preserves the invariant.
LEMMA ForwardStep ==
  ASSUME IInv, NEW r \in Ranks, Forward(r)
  PROVE  IInv'
<1>1. PICK R : R = red[r]
  OBVIOUS
<1>2. PICK it : it = IF program.passes[pass[r] + 1] = "nosync" THEN R.iterations ELSE R.iterations + 1
  OBVIOUS
<1>3. PICK T : T = [R EXCEPT !.iterations = it]
  OBVIOUS
<1>4. T = [red[r] EXCEPT !.iterations = IF Pass(r) = "nosync" THEN @ ELSE @ + 1]
  BY <1>1, <1>2, <1>3 DEF Pass
<1>5. /\ pc[r] = "idle" /\ pass[r] < Len(program.passes)
      /\ \/ /\ PriorReductionUnfinished(T)
            /\ Update(r, [T EXCEPT !.error = TRUE])
            /\ Goto(r, "raised")
         \/ /\ ~PriorReductionUnfinished(T)
            /\ Update(r, T)
            /\ Goto(r, "forward")
         \/ /\ ~PriorReductionUnfinished(T)
            /\ Update(r, RebuildBuckets(T))
            /\ GotoUnless(r, red'[r], "indices")
      /\ UNCHANGED <<program, pass, graph, fires, finals, broken>>
  BY <1>4 DEF Forward
<1>6. /\ RankTypes(program, R, "idle", pass[r], graph[r], fires[r], finals[r])
      /\ Changed \/ RankInv(program, R, "idle", pass[r], graph[r], fires[r], finals[r])
      /\ Shape /\ broken \in BOOLEAN
  BY <1>1, <1>5 DEF IInv
<1>7. DOMAIN R = Fields /\ R.error = FALSE /\ R.finalize \in BOOLEAN
  BY <1>6 DEF RankTypes
<1>8. /\ DOMAIN T = Fields /\ T.iterations = it /\ T.expect = R.expect /\ T.finalize = R.finalize
      /\ T.hooks = R.hooks /\ T.left = R.left /\ T.error = FALSE
  BY <1>3, <1>7 DEF Fields
<1>9. PICK Q, m :
        /\ red' = [red EXCEPT ![r] = Q] /\ pc' = [pc EXCEPT ![r] = m]
        /\ Agree(T, Q) \/ (DOMAIN Q = Fields /\ Q.iterations = it /\ Q.expect = R.expect
                           /\ Q.finalize = R.finalize /\ Q.hooks = R.hooks /\ Q.left = R.left)
        /\ Q.error = (m = "raised")
        /\ m = "raised" \/ (m \in InForward /\ ~R.finalize)
  <2>1. CASE Update(r, [T EXCEPT !.error = TRUE]) /\ Goto(r, "raised")
    <3>1. PICK Q : Q = [T EXCEPT !.error = TRUE]
      OBVIOUS
    <3>2. /\ DOMAIN Q = Fields /\ Q.iterations = it /\ Q.expect = R.expect /\ Q.error = TRUE
          /\ Q.finalize = R.finalize /\ Q.hooks = R.hooks /\ Q.left = R.left
      BY <1>8, <3>1 DEF Fields
    <3>3. red' = [red EXCEPT ![r] = Q] /\ pc' = [pc EXCEPT ![r] = "raised"]
      BY <2>1, <3>1 DEF Update, Goto
    <3> QED
      BY <3>2, <3>3
  <2>2. CASE ~PriorReductionUnfinished(T) /\ Update(r, T) /\ Goto(r, "forward")
    <3>1. red' = [red EXCEPT ![r] = T] /\ pc' = [pc EXCEPT ![r] = "forward"] /\ ~T.finalize
      BY <2>2 DEF Update, Goto, PriorReductionUnfinished
    <3> QED
      BY <1>8, <3>1 DEF InForward
  <2>3. CASE ~PriorReductionUnfinished(T) /\ Update(r, RebuildBuckets(T))
             /\ GotoUnless(r, red'[r], "indices")
    <3>1. PICK Q : Q = RebuildBuckets(T)
      OBVIOUS
    <3>2. Agree(T, Q) /\ Q.error \in BOOLEAN
      BY <1>8, <3>1, RebuildBucketsFacts
    <3>3. red' = [red EXCEPT ![r] = Q] /\ red'[r] = Q /\ ~T.finalize
      BY <1>6, <2>3, <3>1 DEF Update, Shape, PriorReductionUnfinished
    <3>4. pc' = [pc EXCEPT ![r] = IF Q.error THEN "raised" ELSE "indices"]
      BY <2>3, <3>3 DEF GotoUnless, Goto
    <3>5. CASE Q.error = TRUE
      BY <3>2, <3>3, <3>4, <3>5
    <3>6. CASE Q.error = FALSE
      BY <1>8, <3>2, <3>3, <3>4, <3>6 DEF InForward
    <3> QED
      BY <3>2, <3>5, <3>6
  <2> QED
    BY <1>5, <2>1, <2>2, <2>3
<1>10. /\ DOMAIN Q = Fields /\ Q.iterations = it /\ Q.expect = R.expect
       /\ Q.finalize = R.finalize /\ Q.hooks = R.hooks /\ Q.left = R.left
  BY <1>8, <1>9 DEF Agree
<1>11. PICK k, G, f, n : k = pass[r] /\ G = graph[r] /\ f = fires[r] /\ n = finals[r]
  OBVIOUS
<1>12. /\ RankTypes(program, Q, m, k, G, f, n)
       /\ RankInv(program, R, "idle", k, G, f, n) => RankInv(program, Q, m, k, G, f, n)
  <2>1. /\ RankTypes(program, R, "idle", k, G, f, n) /\ k < Len(program.passes)
        /\ it = IF program.passes[k + 1] = "nosync" THEN R.iterations ELSE R.iterations + 1
    BY <1>2, <1>5, <1>6, <1>11
  <2> QED
    BY <1>9, <1>10, <2>1, ForwardInv
<1>13. /\ red'[r] = Q /\ pc'[r] = m /\ pass'[r] = k /\ graph'[r] = G /\ fires'[r] = f
       /\ finals'[r] = n
  BY <1>5, <1>6, <1>9, <1>11 DEF Shape
<1>14. /\ Shape'
       /\ \A s \in Ranks \ {r} :
            /\ red'[s] = red[s] /\ pc'[s] = pc[s] /\ pass'[s] = pass[s]
            /\ graph'[s] = graph[s] /\ fires'[s] = fires[s] /\ finals'[s] = finals[s]
  BY <1>5, <1>6, <1>9 DEF Shape
<1>15. Changed \/ RankInv(program, Q, m, k, G, f, n)
  BY <1>6, <1>11, <1>12
<1>16. UNCHANGED program /\ broken' = broken
  BY <1>5
<1> QED
  BY <1>6, <1>12, <1>13, <1>14, <1>15, <1>16, StepInv DEF Changed

\* rebuild_buckets, once prepare_for_forward is past.
LEMMA RebuildStep ==
  ASSUME IInv, NEW r \in Ranks, pc[r] \in InForward, NEW Q, NEW m,
         Agree(red[r], Q), Q.error = (m = "raised"), m \in InForward \/ m = "raised",
         red' = [red EXCEPT ![r] = Q], pc' = [pc EXCEPT ![r] = m],
         UNCHANGED <<program, pass, graph, fires, finals, broken>>
  PROVE  IInv'
<1>1. PICK R, l, k, G, f, n :
        /\ R = red[r] /\ l = pc[r]
        /\ k = pass[r] /\ G = graph[r] /\ f = fires[r] /\ n = finals[r]
  OBVIOUS
<1>2. /\ RankTypes(program, R, l, k, G, f, n)
      /\ Changed \/ RankInv(program, R, l, k, G, f, n)
      /\ Shape /\ broken \in BOOLEAN
  BY <1>1 DEF IInv
<1>3. /\ RankTypes(program, Q, m, k, G, f, n)
      /\ RankInv(program, R, l, k, G, f, n) => RankInv(program, Q, m, k, G, f, n)
  BY <1>1, <1>2, AgreeInv
<1>4. /\ red'[r] = Q /\ pc'[r] = m /\ pass'[r] = k /\ graph'[r] = G /\ fires'[r] = f
      /\ finals'[r] = n
  BY <1>1, <1>2 DEF Shape
<1>5. /\ Shape'
      /\ \A s \in Ranks \ {r} :
           /\ red'[s] = red[s] /\ pc'[s] = pc[s] /\ pass'[s] = pass[s]
           /\ graph'[s] = graph[s] /\ fires'[s] = fires[s] /\ finals'[s] = finals[s]
  BY <1>2 DEF Shape
<1>6. Changed \/ RankInv(program, Q, m, k, G, f, n)
  BY <1>2, <1>3
<1>7. UNCHANGED program /\ broken' = broken
  OBVIOUS
<1> QED
  BY <1>2, <1>3, <1>4, <1>5, <1>6, <1>7, StepInv DEF Changed

\* So does the broadcast of the sizes.
LEMMA SyncBucketIndicesStep ==
  ASSUME IInv, NEW r \in Ranks, SyncBucketIndices(r)
  PROVE  IInv'
<1>1. DOMAIN red[r] = Fields /\ red[r].error = FALSE
  BY DEF IInv, RankTypes, SyncBucketIndices
<1>2. PICK w : red' = [red EXCEPT ![r] = Issue(red[r], w)]
  BY DEF SyncBucketIndices, Update
<1>3. PICK v : red' = [red EXCEPT ![r] = [red[r] EXCEPT !.work = v]]
  BY <1>2 DEF Issue
<1>4. PICK Q : Q = [red[r] EXCEPT !.work = v]
  OBVIOUS
<1>5. Agree(red[r], Q) /\ Q.error = FALSE
  BY <1>1, <1>4 DEF Agree, Fields
<1>6. /\ pc[r] \in InForward /\ pc' = [pc EXCEPT ![r] = "sizes"] /\ "sizes" \in InForward
      /\ UNCHANGED <<program, pass, graph, fires, finals, broken>>
  BY DEF SyncBucketIndices, Goto, InForward
<1> QED
  BY <1>3, <1>4, <1>5, <1>6, RebuildStep

\* So does the end of rebuild_buckets, also when it raises.
LEMMA InitializeBucketsStep ==
  ASSUME IInv, NEW r \in Ranks, InitializeBuckets(r)
  PROVE  IInv'
<1>1. DOMAIN red[r] = Fields /\ Shape
  BY DEF IInv, RankTypes
<1>2. PICK b, q, e : e \in BOOLEAN /\
        red' = [red EXCEPT ![r] = [red[r] EXCEPT !.buckets = b, !.rebuilt = TRUE, !.order = <<>>,
                                                 !.done = <<>>, !.plan = q, !.error = e]]
  <2> DEFINE R == red[r]
             b == Unflatten(R.done[1].data.flat, R.done[2].data)
             e == R.expect \/ Len(b) # Len(R.plan)
             q == IF e THEN R.plan ELSE <<>>
  <2>1. red' = [red EXCEPT ![r] = [red[r] EXCEPT !.buckets = b, !.rebuilt = TRUE, !.order = <<>>,
                                                 !.done = <<>>, !.plan = q, !.error = e]]
    BY DEF InitializeBuckets, Update
  <2>2. e \in BOOLEAN
    OBVIOUS
  <2> HIDE DEF R, b, e, q
  <2> QED
    BY <2>1, <2>2
<1>3. PICK Q : Q = [red[r] EXCEPT !.buckets = b, !.rebuilt = TRUE, !.order = <<>>,
                                  !.done = <<>>, !.plan = q, !.error = e]
  OBVIOUS
<1>4. Agree(red[r], Q) /\ Q.error = e
  BY <1>1, <1>3 DEF Agree, Fields
<1>5. red' = [red EXCEPT ![r] = Q] /\ red'[r] = Q
  BY <1>1, <1>2, <1>3 DEF Shape
<1>6. /\ pc[r] \in InForward /\ pc' = [pc EXCEPT ![r] = IF Q.error THEN "raised" ELSE "forward"]
      /\ UNCHANGED <<program, pass, graph, fires, finals, broken>>
  BY <1>5 DEF InitializeBuckets, GotoUnless, Goto, InForward
<1>7. PICK m : /\ m = IF Q.error THEN "raised" ELSE "forward"
               /\ pc' = [pc EXCEPT ![r] = m]
  BY <1>6
<1>8. Q.error = (m = "raised") /\ (m \in InForward \/ m = "raised")
  BY <1>2, <1>4, <1>7 DEF InForward
<1> QED
  BY <1>4, <1>5, <1>6, <1>7, <1>8, RebuildStep

\* finalize_backward has a reduction finalized for the pass that ends.
LEMMA FinalizeBackwardStep ==
  ASSUME IInv, NEW r \in Ranks, FinalizeBackward(r)
  PROVE  IInv'
<1>1. PICK R, k, G, f, n :
        R = red[r] /\ k = pass[r] /\ G = graph[r] /\ f = fires[r] /\ n = finals[r]
  OBVIOUS
<1>2. /\ RankTypes(program, R, "final", k, G, f, n)
      /\ Changed \/ RankInv(program, R, "final", k, G, f, n)
      /\ Shape /\ broken \in BOOLEAN
  BY <1>1 DEF IInv, FinalizeBackward
<1>3. PICK u, d : FinalizedReducer(R) =
        [R EXCEPT !.expect = FALSE, !.finalize = FALSE, !.done = <<>>, !.used = u, !.reduced = d]
  BY DEF FinalizedReducer
<1>4. PICK Q : Q = FinalizedReducer(R)
  OBVIOUS
<1>5. /\ DOMAIN Q = Fields /\ Q.iterations = R.iterations /\ Q.expect = FALSE
      /\ Q.finalize = FALSE /\ Q.hooks = R.hooks /\ Q.left = R.left /\ Q.error = R.error
  BY <1>2, <1>3, <1>4 DEF RankTypes, Fields
<1>6. /\ red' = [red EXCEPT ![r] = Q] /\ pc' = [pc EXCEPT ![r] = "idle"]
      /\ pass' = [pass EXCEPT ![r] = @ + 1] /\ finals' = [finals EXCEPT ![r] = @ + 1]
      /\ UNCHANGED <<program, graph, fires, broken>>
  BY <1>1, <1>4 DEF FinalizeBackward, Update, Goto
<1>7. RankTypes(program, Q, "idle", k + 1, G, f, n + 1)
  <2>1. R.error = FALSE
    BY <1>2 DEF RankTypes
  <2>2. k + 1 \in Nat /\ n + 1 \in Nat
    BY <1>2 DEF RankTypes
  <2> QED
    BY <1>2, <1>5, <2>1, <2>2 DEF RankTypes, Locations
<1>8. RankInv(program, R, "final", k, G, f, n) => RankInv(program, Q, "idle", k + 1, G, f, n + 1)
  <2>1. SUFFICES ASSUME RankInv(program, R, "final", k, G, f, n)
                 PROVE  RankInv(program, Q, "idle", k + 1, G, f, n + 1)
    OBVIOUS
  <2>2. AccountInside(program, R, "final", k, f, n)
        /\ (program.mode = "static" => Counted(program, R, "final", k, G, f))
    BY <2>1 DEF RankInv
  <2>3. k \in Nat /\ Due(program, k + 1) = n + 1
    BY <1>2, <2>2, DueNext DEF AccountInside, RankTypes
  <2>4. ~AfterIgnored(program, k + 1)
    BY <2>2 DEF AccountInside, AfterIgnored
  <2>5. AccountOutside(program, Q, "idle", k + 1, n + 1)
    BY <1>5, <2>3, <2>4 DEF AccountOutside, InForward
  <2>6. Counted(program, R, "final", k, G, f) => Counted(program, Q, "idle", k + 1, G, f)
    BY <1>5, <2>3 DEF Counted, CountedOutside, CountedInside, NoHooks, InForward
  <2> QED
    BY <2>2, <2>5, <2>6 DEF RankInv
<1>9. /\ red'[r] = Q /\ pc'[r] = "idle" /\ pass'[r] = k + 1 /\ graph'[r] = G /\ fires'[r] = f
      /\ finals'[r] = n + 1
  BY <1>1, <1>2, <1>6 DEF Shape
<1>10. /\ Shape'
       /\ \A s \in Ranks \ {r} :
            /\ red'[s] = red[s] /\ pc'[s] = pc[s] /\ pass'[s] = pass[s]
            /\ graph'[s] = graph[s] /\ fires'[s] = fires[s] /\ finals'[s] = finals[s]
  BY <1>2, <1>6 DEF Shape
<1>11. Changed \/ RankInv(program, Q, "idle", k + 1, G, f, n + 1)
  BY <1>2, <1>8
<1>12. UNCHANGED program /\ broken' = broken
  BY <1>6
<1> QED
  BY <1>2, <1>7, <1>9, <1>10, <1>11, <1>12, StepInv DEF Changed

\* The hook of p has fired, and the rank goes on or raises.
Fired(f, h, p, Q, m) ==
  /\ f[p] > 0 /\ h = [f EXCEPT ![p] = @ - 1]
  /\ m = IF Q.error THEN "raised" ELSE "backward"

\* A hook that fires leaves the rank with its account, whether it is counted, marks
\* its parameter, is one of several or fails a check.
LEMMA HookInv ==
  ASSUME NEW R, NEW Q, NEW k, NEW G, NEW f, NEW n, NEW p \in Params, NEW h, NEW m,
         RankTypes(program, R, "backward", k, G, f, n), G.loss \in [Params -> Nat],
         Fired(f, h, p, Q, m), Hooked(R, Q, p)
  PROVE  /\ RankTypes(program, Q, m, k, G, h, n)
         /\ RankInv(program, R, "backward", k, G, f, n) => RankInv(program, Q, m, k, G, h, n)
<1>0. /\ f[p] > 0 /\ h = [f EXCEPT ![p] = @ - 1]
      /\ m = IF Q.error THEN "raised" ELSE "backward"
  BY DEF Fired
<1>1. /\ DOMAIN R = Fields /\ R.finalize \in BOOLEAN /\ R.error = FALSE /\ R.expect \in BOOLEAN
      /\ R.left \in [Params -> Nat] /\ R.hooks \in [Params -> Nat] /\ R.iterations \in Nat
      /\ k \in Nat /\ n \in Nat /\ G \in Graphs[program.mode] /\ f \in [Params -> Nat]
  BY DEF RankTypes
<1>2. /\ ~R.expect => Q = R
      /\ R.expect /\ StaticFirst(R) =>
           /\ DOMAIN Q = Fields
           /\ Q.iterations = R.iterations /\ Q.expect = R.expect /\ Q.finalize = R.finalize
           /\ Q.left = R.left /\ Q.callback = R.callback /\ Q.error = FALSE
           /\ Q.hooks = [R.hooks EXCEPT ![p] = @ + 1]
      /\ R.expect /\ ~StaticFirst(R) =>
           CountedDown(R, Q, p) /\ (Mode # "static" => Q.error \/ Q.finalize)
  BY DEF Hooked
<1>3. f[p] \in Nat /\ f[p] - 1 \in Nat /\ h \in [Params -> Nat]
      /\ \A q \in Params : h[q] = IF q = p THEN f[p] - 1 ELSE f[q]
  BY <1>0, <1>1
<1>4. StaticFirst(R) <=> program.mode = "static" /\ R.iterations = 1
  BY DEF StaticFirst, Mode
<1>5. SUFFICES /\ DOMAIN Q = Fields /\ Q.iterations = R.iterations
               /\ Q.hooks \in [Params -> Nat] /\ Q.left \in [Params -> Nat]
               /\ Q.expect \in BOOLEAN /\ Q.finalize \in BOOLEAN /\ Q.error \in BOOLEAN
               /\ Q.error = FALSE /\ RankInv(program, R, "backward", k, G, f, n) =>
                    RankInv(program, Q, "backward", k, G, h, n)
  <2>1. CASE Q.error = TRUE
    <3>1. m = "raised"
      BY <1>0, <2>1
    <3> QED
      BY <1>1, <1>3, <1>5, <2>1, <3>1 DEF RankTypes, RankInv, Locations
  <2>2. CASE Q.error = FALSE
    <3>1. m = "backward"
      BY <1>0, <2>2
    <3>2. RankTypes(program, Q, m, k, G, h, n)
      BY <1>1, <1>3, <1>5, <2>2, <3>1 DEF RankTypes, Locations
    <3> QED
      BY <1>5, <2>2, <3>1, <3>2
  <2> QED
    BY <1>5, <2>1, <2>2
<1>6. RankInv(program, R, "backward", k, G, f, n) =>
        /\ AccountInside(program, R, "backward", k, f, n)
        /\ program.mode = "static" => Counted(program, R, "backward", k, G, f)
  BY DEF RankInv
<1>7. AccountInside(program, Q, "backward", k, h, n)
      /\ (program.mode = "static" => Counted(program, Q, "backward", k, G, h))
        => RankInv(program, Q, "backward", k, G, h, n)
  BY DEF RankInv, Outside
<1>8. CASE ~R.expect
  <2>1. Q = R
    BY <1>2, <1>8
  <2>2. AccountInside(program, R, "backward", k, f, n) => AccountInside(program, Q, "backward", k, h, n)
    BY <1>8, <2>1 DEF AccountInside
  <2>3. Counted(program, R, "backward", k, G, f) => Counted(program, Q, "backward", k, G, h)
    BY <1>8, <2>1 DEF Counted, CountedInside, Outside
  <2> QED
    BY <1>1, <1>6, <1>7, <2>1, <2>2, <2>3
<1>9. CASE R.expect /\ StaticFirst(R)
  <2>1. /\ DOMAIN Q = Fields
        /\ Q.iterations = R.iterations /\ Q.expect = R.expect /\ Q.finalize = R.finalize
        /\ Q.left = R.left /\ Q.callback = R.callback /\ Q.error = FALSE
        /\ Q.hooks = [R.hooks EXCEPT ![p] = @ + 1]
    BY <1>2, <1>9
  <2>2. Q.hooks \in [Params -> Nat]
        /\ \A q \in Params : Q.hooks[q] = IF q = p THEN R.hooks[p] + 1 ELSE R.hooks[q]
    BY <1>1, <2>1
  <2>3. SUFFICES ASSUME AccountInside(program, R, "backward", k, f, n),
                        Counted(program, R, "backward", k, G, f)
                 PROVE  /\ AccountInside(program, Q, "backward", k, h, n)
                        /\ Counted(program, Q, "backward", k, G, h)
    BY <1>1, <1>4, <1>6, <1>7, <1>9, <2>1, <2>2
  <2>4. Q.callback = "delay" /\ Q.iterations = 1
    BY <1>4, <1>9, <2>1, <2>3 DEF Counted, CountedInside
  <2>5. AccountInside(program, Q, "backward", k, h, n)
    BY <1>9, <2>1, <2>3, <2>4 DEF AccountInside
  <2>6. \A q \in Params : G.loss[q] > 0 => R.hooks[q] + f[q] \leq G.loss[q]
    BY <1>4, <1>9, <2>3 DEF Counted, CountedInside
  <2>7. ASSUME NEW q \in Params, G.loss[q] > 0
        PROVE  Q.hooks[q] + h[q] \leq G.loss[q] /\ Q.hooks[q] \leq G.loss[q]
    <3>1. /\ R.hooks[q] \in Nat /\ f[q] \in Nat /\ G.loss[q] \in Nat
          /\ R.hooks[q] + f[q] \leq G.loss[q]
      BY <1>1, <2>6, <2>7
    <3>2. CASE q = p
      BY <1>3, <2>2, <3>1, <3>2
    <3>3. CASE q # p
      BY <1>3, <2>2, <2>7, <3>1, <3>3
    <3> QED
      BY <3>2, <3>3
  <2>8. Counted(program, Q, "backward", k, G, h)
    BY <2>4, <2>7 DEF Counted, CountedInside, Outside
  <2> QED
    BY <2>5, <2>8
<1>10. CASE R.expect /\ ~StaticFirst(R)
  <2>1. CountedDown(R, Q, p) /\ (program.mode # "static" => Q.error \/ Q.finalize)
    BY <1>2, <1>10 DEF Mode
  <2>2. /\ DOMAIN Q = Fields
        /\ Q.iterations = R.iterations /\ Q.expect = R.expect /\ Q.hooks = R.hooks
        /\ Q.left \in [Params -> Nat] /\ Q.error \in BOOLEAN /\ Q.finalize \in BOOLEAN
    BY <2>1 DEF CountedDown
  <2>3. SUFFICES ASSUME Q.error = FALSE, AccountInside(program, R, "backward", k, f, n),
                        program.mode = "static" => Counted(program, R, "backward", k, G, f)
                 PROVE  /\ AccountInside(program, Q, "backward", k, h, n)
                        /\ program.mode = "static" => Counted(program, Q, "backward", k, G, h)
    BY <1>1, <1>6, <1>7, <2>2
  <2>4. program.mode = "static" => Counted(program, Q, "backward", k, G, h)
    BY <1>4, <1>10, <2>2, <2>3 DEF Counted, CountedInside, NoHooks, Outside
  <2>5. Q.finalize \/ Q.callback = "delay" \/ Awaited(program, Q, h)
    <3>1. CASE Q.finalize
      BY <3>1
    <3>2. CASE ~Q.finalize
      <4>1. /\ R.left[p] > 1 /\ Q.left = [R.left EXCEPT ![p] = @ - 1]
            /\ Q.finalize = R.finalize /\ Q.callback = R.callback /\ program.mode = "static"
        BY <2>1, <2>3, <3>2 DEF CountedDown
      <4>2. R.callback = "delay" \/ Awaited(program, R, f)
        BY <1>10, <2>3, <3>2, <4>1 DEF AccountInside
      <4>3. CASE Awaited(program, R, f)
        <5>1. PICK q \in Params : f[q] > 0 /\ R.left[q] \leq f[q]
          BY <4>1, <4>3 DEF Awaited
        <5>2. R.left[q] \in Nat /\ f[q] \in Nat /\ R.left[p] \in Nat
          BY <1>1
        <5>3. Q.left[q] = IF q = p THEN R.left[p] - 1 ELSE R.left[q]
          BY <1>1, <4>1
        <5>4. h[q] > 0 /\ Q.left[q] \leq h[q]
          BY <1>3, <4>1, <5>1, <5>2, <5>3
        <5> QED
          BY <5>4 DEF Awaited
      <4> QED
        BY <4>1, <4>2, <4>3
    <3> QED
      BY <3>1, <3>2
  <2>6. AccountInside(program, Q, "backward", k, h, n)
    BY <1>10, <2>2, <2>3, <2>5 DEF AccountInside
  <2> QED
    BY <2>4, <2>6
<1> QED
  BY <1>1, <1>8, <1>9, <1>10

\* What the constants say of a graph.
LEMMA GraphFacts ==
  ASSUME NEW P \in Programs, NEW G \in Graphs[P.mode]
  PROVE  G.loss \in [Params -> Nat] /\ \E p \in Params : G.loss[p] > 0
<1>1. P.mode \in Modes
  BY ProgramsAssumption
<1>2. G \in GraphType /\ \E p \in Params : G.loss[p] > 0
  BY <1>1, GraphsAssumption
<1>3. G.loss \in [Params -> 0..2]
  BY <1>2 DEF GraphType
<1> QED
  BY <1>2, <1>3

\* autograd_hook preserves the invariant, in whatever order the hooks fire.
LEMMA HookStep ==
  ASSUME IInv, NEW r \in Ranks, NEW p \in Params, Hook(r, p)
  PROVE  IInv'
<1>1. PICK R, k, G, f, n, g :
        /\ R = red[r] /\ k = pass[r] /\ G = graph[r] /\ f = fires[r] /\ n = finals[r]
        /\ g = grad'[r]
  OBVIOUS
<1>2. /\ RankTypes(program, R, "backward", k, G, f, n)
      /\ Changed \/ RankInv(program, R, "backward", k, G, f, n)
      /\ Shape /\ broken \in BOOLEAN /\ program \in Programs
  BY <1>1 DEF IInv, Hook
<1>3. PICK Q, h : Q = AutogradHook(R, g, p) /\ h = [f EXCEPT ![p] = @ - 1]
  OBVIOUS
<1>4. red' = [red EXCEPT ![r] = Q] /\ red'[r] = Q
  BY <1>1, <1>2, <1>3 DEF Hook, Update, Shape
<1>5. PICK m : m = IF Q.error THEN "raised" ELSE "backward"
  OBVIOUS
<1>6. /\ pc' = [pc EXCEPT ![r] = m] /\ fires' = [fires EXCEPT ![r] = h] /\ f[p] > 0
      /\ UNCHANGED <<program, pass, graph, finals, broken>>
  BY <1>1, <1>3, <1>4, <1>5 DEF Hook, GotoUnless, Goto
<1>7. /\ DOMAIN R = Fields /\ R.finalize \in BOOLEAN /\ R.error = FALSE
      /\ R.left \in [Params -> Nat] /\ R.hooks \in [Params -> Nat] /\ G \in Graphs[program.mode]
  BY <1>2 DEF RankTypes
<1>8. Hooked(R, Q, p)
  BY <1>3, <1>7, AutogradHookFacts
<1>9. G.loss \in [Params -> Nat]
  BY <1>2, <1>7, GraphFacts
<1>10. /\ RankTypes(program, Q, m, k, G, h, n)
       /\ RankInv(program, R, "backward", k, G, f, n) => RankInv(program, Q, m, k, G, h, n)
  <2>1. RankTypes(program, R, "backward", k, G, f, n)
    BY <1>2
  <2>2. Fired(f, h, p, Q, m)
    BY <1>3, <1>5, <1>6 DEF Fired
  <2> QED
    BY <1>8, <1>9, <2>1, <2>2, HookInv
<1>11. /\ red'[r] = Q /\ pc'[r] = m /\ pass'[r] = k /\ graph'[r] = G /\ fires'[r] = h
       /\ finals'[r] = n
  BY <1>1, <1>2, <1>4, <1>6 DEF Shape
<1>12. /\ Shape'
       /\ \A s \in Ranks \ {r} :
            /\ red'[s] = red[s] /\ pc'[s] = pc[s] /\ pass'[s] = pass[s]
            /\ graph'[s] = graph[s] /\ fires'[s] = fires[s] /\ finals'[s] = finals[s]
  BY <1>2, <1>4, <1>6 DEF Shape
<1>13. Changed \/ RankInv(program, Q, m, k, G, h, n)
  BY <1>2, <1>10
<1>14. UNCHANGED program /\ broken' = broken
  BY <1>6
<1> QED
  BY <1>2, <1>10, <1>11, <1>12, <1>13, <1>14, StepInv DEF Changed

\* What the final callbacks do before finalize_backward.
LEMMA CallbackFacts ==
  ASSUME NEW R, DOMAIN R = Fields, R.error = FALSE, R.finalize \in BOOLEAN, NEW g, NEW S,
         S = IF R.callback = "delay" THEN DelayAllReduce(R, g) ELSE FinalCallback(R)
  PROVE  /\ DOMAIN S = Fields /\ S.iterations = R.iterations /\ S.expect = R.expect
         /\ S.hooks = R.hooks /\ S.left = R.left
         /\ S.finalize \in BOOLEAN /\ S.error \in BOOLEAN
<1>1. CASE R.callback = "delay"
  <2>1. PICK u : u = {p \in Params : R.hooks[p] = 0}
    OBVIOUS
  <2>2. PICK T : T = [R EXCEPT !.unused = u, !.finalize = TRUE]
    OBVIOUS
  <2>3. /\ DOMAIN T = Fields /\ T.iterations = R.iterations /\ T.expect = R.expect
        /\ T.hooks = R.hooks /\ T.left = R.left /\ T.finalize = TRUE
    BY <2>2 DEF Fields
  <2>4. PICK v : Issue(T, AllReduceLocalUsedMap(R)) = [T EXCEPT !.work = v]
    BY DEF Issue
  <2>5. PICK U : U = [T EXCEPT !.work = v]
    OBVIOUS
  <2>6. Agree(T, U)
    BY <2>3, <2>5 DEF Agree, Fields
  <2>7. PICK V : V = MarkVariablesReadyDense(U, g, Params)
    OBVIOUS
  <2>8. Agree(U, V) /\ V.error \in BOOLEAN
    BY <2>6, <2>7, DenseFacts DEF Agree
  <2>9. S = IF V.error THEN V
            ELSE [V EXCEPT !.work = @ \o [i \in DOMAIN R.buckets |-> AllReduceBucket(V, i)]]
    BY <1>1, <2>1, <2>2, <2>4, <2>5, <2>7 DEF DelayAllReduce
  <2>10. PICK w : S = V \/ S = [V EXCEPT !.work = w]
    BY <2>9
  <2>11. Agree(V, S) /\ S.error \in BOOLEAN
    BY <2>8, <2>10 DEF Agree, Fields
  <2> QED
    BY <2>3, <2>6, <2>8, <2>11 DEF Agree
<1>2. CASE R.callback # "delay"
  <2>1. S = R \/ \E ps : S = PushRebuilt(R, ps)
    BY <1>2 DEF FinalCallback
  <2>2. CASE S = R
    BY <2>2
  <2>3. CASE \E ps : S = PushRebuilt(R, ps)
    <3>1. PICK ps : S = PushRebuilt(R, ps)
      BY <2>3
    <3>2. Agree(R, S) /\ S.error = FALSE
      BY <3>1, PushRebuiltFacts
    <3> QED
      BY <3>2 DEF Agree
  <2> QED
    BY <2>1, <2>2, <2>3
<1> QED
  BY <1>1, <1>2

\* A backward that ends without a final callback has no reduction under way, or one
\* that the next forward() finds unfinished.
LEMMA QuietEndInv ==
  ASSUME NEW P, NEW R, NEW k, NEW G, NEW f, NEW n,
         RankTypes(P, R, "backward", k, G, f, n), R.callback = "none",
         \A p \in Params : f[p] = 0
  PROVE  /\ RankTypes(P, R, "idle", k + 1, G, f, n)
         /\ RankInv(P, R, "backward", k, G, f, n) => RankInv(P, R, "idle", k + 1, G, f, n)
<1>0. R.error = FALSE
  BY DEF RankTypes
<1>1. k \in Nat /\ k + 1 \in Nat /\ R.finalize \in BOOLEAN
  BY DEF RankTypes
<1>2. RankTypes(P, R, "idle", k + 1, G, f, n)
  BY <1>0, <1>1 DEF RankTypes, Locations
<1>3. SUFFICES ASSUME AccountInside(P, R, "backward", k, f, n),
                      P.mode = "static" => Counted(P, R, "backward", k, G, f)
               PROVE  RankInv(P, R, "idle", k + 1, G, f, n)
  BY <1>2 DEF RankInv
<1>4. ~Awaited(P, R, f)
  BY DEF Awaited
<1>5. R.expect => R.finalize
  BY <1>3, <1>4 DEF AccountInside
<1>6. ~R.expect => ~R.finalize /\ ~Reducing(P, k + 1)
  BY <1>3 DEF AccountInside
<1>7. ~AfterIgnored(P, k + 1)
  BY <1>3 DEF AccountInside, AfterIgnored
<1>8. n = Due(P, k)
  BY <1>3 DEF AccountInside
<1>9. ~R.finalize => n = Due(P, k + 1)
  BY <1>1, <1>5, <1>6, <1>8, DueNext
<1>10. AccountOutside(P, R, "idle", k + 1, n)
  BY <1>5, <1>6, <1>7, <1>9 DEF AccountOutside, InForward
<1>11. Counted(P, R, "backward", k, G, f) => Counted(P, R, "idle", k + 1, G, f)
  BY <1>1, <1>5 DEF Counted, CountedOutside, CountedInside, InForward
<1> QED
  BY <1>3, <1>10, <1>11 DEF RankInv

\* And with one, it raises or has hooks expected and a reduction to finalize.
LEMMA CallbackEndInv ==
  ASSUME NEW P, NEW R, NEW S, NEW m, NEW k, NEW G, NEW f, NEW n,
         RankTypes(P, R, "backward", k, G, f, n),
         DOMAIN S = Fields, S.iterations = R.iterations, S.expect = R.expect,
         S.hooks = R.hooks, S.left = R.left, S.finalize \in BOOLEAN,
         S.error = (m = "raised"), m = "raised" \/ (m = "final" /\ S.expect)
  PROVE  /\ RankTypes(P, S, m, k, G, f, n)
         /\ RankInv(P, R, "backward", k, G, f, n) => RankInv(P, S, m, k, G, f, n)
<1>1. RankTypes(P, S, m, k, G, f, n)
  BY DEF RankTypes, Locations
<1>2. CASE m = "raised"
  BY <1>1, <1>2 DEF RankInv
<1>3. CASE m = "final" /\ S.expect
  <2>1. AccountInside(P, R, "backward", k, f, n) => AccountInside(P, S, "final", k, f, n)
    BY <1>3 DEF AccountInside
  <2>2. Counted(P, R, "backward", k, G, f) => Counted(P, S, "final", k, G, f)
    BY <1>3 DEF Counted, CountedInside, NoHooks, Outside
  <2> QED
    BY <1>1, <1>3, <2>1, <2>2 DEF RankInv, Outside
<1> QED
  BY <1>2, <1>3

\* The end of a backward preserves the invariant.
LEMMA EndBackwardStep ==
  ASSUME IInv, NEW r \in Ranks, EndBackward(r)
  PROVE  IInv'
<1>1. PICK R, k, G, f, n, g :
        /\ R = red[r] /\ k = pass[r] /\ G = graph[r] /\ f = fires[r] /\ n = finals[r]
        /\ g = grad[r]
  OBVIOUS
<1>2. /\ RankTypes(program, R, "backward", k, G, f, n)
      /\ Changed \/ RankInv(program, R, "backward", k, G, f, n)
      /\ Shape /\ broken \in BOOLEAN
  BY <1>1 DEF IInv, EndBackward
<1>3. PICK S : S = IF R.callback = "delay" THEN DelayAllReduce(R, g) ELSE FinalCallback(R)
  OBVIOUS
<1>4. /\ \A p \in Params : f[p] = 0
      /\ \/ /\ R.callback = "none" /\ Goto(r, "idle")
            /\ pass' = [pass EXCEPT ![r] = @ + 1] /\ UNCHANGED red
         \/ /\ Update(r, [S EXCEPT !.callback = "none", !.error = @ \/ ~(S.expect /\ S.finalize)])
            /\ GotoUnless(r, red'[r], "final") /\ UNCHANGED pass
      /\ UNCHANGED <<program, graph, fires, finals, broken>>
  BY <1>1, <1>3 DEF EndBackward
<1>5. DOMAIN R = Fields /\ R.error = FALSE /\ R.finalize \in BOOLEAN /\ R.expect \in BOOLEAN
  BY <1>2 DEF RankTypes
<1>6. UNCHANGED program /\ broken' = broken
  BY <1>4
<1>7. CASE /\ R.callback = "none" /\ Goto(r, "idle")
           /\ pass' = [pass EXCEPT ![r] = @ + 1] /\ UNCHANGED red
  <2>1. /\ RankTypes(program, R, "idle", k + 1, G, f, n)
        /\ RankInv(program, R, "backward", k, G, f, n) => RankInv(program, R, "idle", k + 1, G, f, n)
    BY <1>2, <1>4, <1>7, QuietEndInv
  <2>2. /\ red'[r] = R /\ pc'[r] = "idle" /\ pass'[r] = k + 1 /\ graph'[r] = G /\ fires'[r] = f
        /\ finals'[r] = n
    BY <1>1, <1>2, <1>4, <1>7 DEF Shape, Goto
  <2>3. /\ Shape'
        /\ \A s \in Ranks \ {r} :
             /\ red'[s] = red[s] /\ pc'[s] = pc[s] /\ pass'[s] = pass[s]
             /\ graph'[s] = graph[s] /\ fires'[s] = fires[s] /\ finals'[s] = finals[s]
    BY <1>2, <1>4, <1>7 DEF Shape, Goto
  <2>4. Changed \/ RankInv(program, R, "idle", k + 1, G, f, n)
    BY <1>2, <2>1
  <2> QED
    BY <1>2, <1>6, <2>1, <2>2, <2>3, <2>4, StepInv DEF Changed
<1>8. CASE /\ Update(r, [S EXCEPT !.callback = "none", !.error = @ \/ ~(S.expect /\ S.finalize)])
           /\ GotoUnless(r, red'[r], "final") /\ UNCHANGED pass
  <2>1. /\ DOMAIN S = Fields /\ S.iterations = R.iterations /\ S.expect = R.expect
        /\ S.hooks = R.hooks /\ S.left = R.left
        /\ S.finalize \in BOOLEAN /\ S.error \in BOOLEAN
    BY ZenonT(40), <1>3, <1>5, CallbackFacts
  <2>2. PICK e : e = (S.error \/ ~(S.expect /\ S.finalize))
    OBVIOUS
  <2>3. e \in BOOLEAN /\ (e = FALSE => S.expect)
    BY <2>2
  <2>4. PICK Q : Q = [S EXCEPT !.callback = "none", !.error = e]
    OBVIOUS
  <2>5. /\ DOMAIN Q = Fields /\ Q.iterations = R.iterations /\ Q.expect = R.expect
        /\ Q.hooks = R.hooks /\ Q.left = R.left /\ Q.finalize \in BOOLEAN /\ Q.error = e
    BY <2>1, <2>4 DEF Fields
  <2>6. red' = [red EXCEPT ![r] = Q] /\ red'[r] = Q
    BY <1>2, <1>8, <2>2, <2>4 DEF Update, Shape
  <2>7. PICK m : m = IF Q.error THEN "raised" ELSE "final"
    OBVIOUS
  <2>8. pc' = [pc EXCEPT ![r] = m]
    BY <1>8, <2>6, <2>7 DEF GotoUnless, Goto
  <2>9. Q.error = (m = "raised") /\ (m = "raised" \/ (m = "final" /\ Q.expect))
    BY <2>1, <2>3, <2>5, <2>7
  <2>10. /\ RankTypes(program, Q, m, k, G, f, n)
         /\ RankInv(program, R, "backward", k, G, f, n) => RankInv(program, Q, m, k, G, f, n)
    BY <1>2, <2>5, <2>9, CallbackEndInv
  <2>11. /\ red'[r] = Q /\ pc'[r] = m /\ pass'[r] = k /\ graph'[r] = G /\ fires'[r] = f
         /\ finals'[r] = n
    BY <1>1, <1>2, <1>4, <1>8, <2>6, <2>8 DEF Shape
  <2>12. /\ Shape'
         /\ \A s \in Ranks \ {r} :
              /\ red'[s] = red[s] /\ pc'[s] = pc[s] /\ pass'[s] = pass[s]
              /\ graph'[s] = graph[s] /\ fires'[s] = fires[s] /\ finals'[s] = finals[s]
    BY <1>2, <1>4, <1>8, <2>6, <2>8 DEF Shape
  <2>13. Changed \/ RankInv(program, Q, m, k, G, f, n)
    BY <1>2, <2>10
  <2> QED
    BY <1>2, <1>6, <2>10, <2>11, <2>12, <2>13, StepInv DEF Changed
<1> QED
  BY <1>4, <1>7, <1>8

\* The Reducer at the end of forward(), as far as the account goes.
Prepared(P, R, Q, k) ==
  /\ DOMAIN Q = Fields /\ Q.iterations = R.iterations /\ Q.hooks = R.hooks
  /\ Q.finalize = R.finalize /\ Q.error = R.error
  /\ IF P.passes[k + 1] = "nosync" THEN Q.expect = R.expect /\ Q.left = R.left
     ELSE Q.expect = TRUE /\ Q.left = IF P.mode = "static" THEN R.hooks ELSE R.left

\* prepare_for_backward has the hooks expected, and restarts their counts.
LEMMA PrepareFacts ==
  ASSUME NEW R, DOMAIN R = Fields, NEW out, NEW k, NEW T,
         T = IF program.passes[k + 1] = "nosync" THEN R ELSE PrepareForBackward(R, out)
  PROVE  Prepared(program, R, T, k) /\ \A c : Prepared(program, R, [T EXCEPT !.callback = c], k)
<1>1. CASE program.passes[k + 1] = "nosync"
  BY <1>1 DEF Prepared, Fields
<1>2. CASE program.passes[k + 1] # "nosync"
  <2>1. PICK x, u :
          /\ T = [R EXCEPT !.expect = TRUE, !.next = 1, !.ready = {}, !.marked = FALSE,
                           !.left = x, !.unused = u]
          /\ x = IF program.mode = "static" THEN R.hooks ELSE R.left
    BY <1>2 DEF PrepareForBackward, Mode
  <2>2. /\ DOMAIN T = Fields /\ T.iterations = R.iterations /\ T.hooks = R.hooks
        /\ T.finalize = R.finalize /\ T.error = R.error /\ T.expect = TRUE /\ T.left = x
    BY ZenonT(40), <2>1 DEF Fields
  <2>3. Prepared(program, R, T, k)
    BY <1>2, <2>1, <2>2 DEF Prepared
  <2>4. ASSUME NEW c PROVE Prepared(program, R, [T EXCEPT !.callback = c], k)
    <3>1. PICK Q : Q = [T EXCEPT !.callback = c]
      OBVIOUS
    <3>2. /\ DOMAIN Q = Fields /\ Q.iterations = T.iterations /\ Q.hooks = T.hooks
          /\ Q.finalize = T.finalize /\ Q.error = T.error /\ Q.expect = T.expect
          /\ Q.left = T.left
      BY <2>2, <3>1 DEF Fields
    <3>3. Prepared(program, R, Q, k)
      BY <2>3, <3>2 DEF Prepared
    <3> QED
      BY <3>1, <3>3
  <2> QED
    BY <2>3, <2>4
<1> QED
  BY <1>1, <1>2

\* An ignored forward leaves the hooks expected, which the next pass accounts for.
LEMMA IgnoredInv ==
  ASSUME NEW P \in Programs, NEW R, NEW Q, NEW k, NEW G, NEW g, NEW f, NEW n,
         RankTypes(P, R, "forward", k, G, f, n), g \in Graphs[P.mode],
         Prepared(P, R, Q, k), P.passes[k + 1] = "ignored"
  PROVE  /\ RankTypes(P, Q, "idle", k + 1, g, f, n)
         /\ (P.mode = "static" /\ k > 0 => g = G) /\ RankInv(P, R, "forward", k, G, f, n) =>
              RankInv(P, Q, "idle", k + 1, g, f, n)
<1>0. R.error = FALSE
  BY DEF RankTypes
<1>1. k \in Nat /\ k + 1 \in Nat /\ R.hooks \in [Params -> Nat] /\ R.left \in [Params -> Nat]
  BY DEF RankTypes
<1>2. /\ DOMAIN Q = Fields /\ Q.iterations = R.iterations /\ Q.hooks = R.hooks
      /\ Q.finalize = R.finalize /\ Q.error = R.error /\ Q.expect = TRUE
      /\ Q.left = IF P.mode = "static" THEN R.hooks ELSE R.left
  BY DEF Prepared
<1>3. RankTypes(P, Q, "idle", k + 1, g, f, n)
  BY <1>0, <1>1, <1>2 DEF RankTypes, Locations
<1>4. SUFFICES ASSUME P.mode = "static" /\ k > 0 => g = G,
                      AccountOutside(P, R, "forward", k, n),
                      P.mode = "static" => Counted(P, R, "forward", k, G, f)
               PROVE  RankInv(P, Q, "idle", k + 1, g, f, n)
  BY <1>3 DEF RankInv, Outside
<1>5. ~R.finalize /\ n = Due(P, k)
  BY <1>4 DEF AccountOutside, InForward
<1>6. ~Reducing(P, k + 1) /\ AfterIgnored(P, k + 1)
  BY <1>1 DEF Reducing, AfterIgnored
<1>7. n = Due(P, k + 1)
  BY <1>1, <1>5, <1>6, DueNext
<1>8. AccountOutside(P, Q, "idle", k + 1, n)
  BY <1>2, <1>5, <1>6, <1>7 DEF AccountOutside, InForward
<1>9. ASSUME P.mode = "static" PROVE Counted(P, Q, "idle", k + 1, g, f)
  <2>1. Counted(P, R, "forward", k, G, f)
    BY <1>4, <1>9
  <2>2. CountedOutside(P, R, "forward", k)
    BY <2>1 DEF Counted, Outside
  <2>3. R.iterations > 0 /\ (R.iterations = 1 => NoHooks(R))
    BY <2>2 DEF CountedOutside, InForward
  <2>4. \A p \in Params : g.loss[p] > 0 => R.hooks[p] \leq g.loss[p]
    <3>1. CASE k = 0
      BY <2>2, <3>1, GraphFacts DEF CountedOutside, NoHooks
    <3>2. CASE k > 0
      BY <1>4, <1>9, <2>1, <3>2 DEF Counted
    <3> QED
      BY <1>1, <3>1, <3>2
  <2>5. CountedOutside(P, Q, "idle", k + 1)
    BY <1>1, <1>2, <1>9, <2>3 DEF CountedOutside, InForward, NoHooks
  <2> QED
    BY <1>2, <2>1, <2>3, <2>4, <2>5 DEF Counted, CountedInside, NoHooks
<1> QED
  BY <1>8, <1>9 DEF RankInv

\* The hooks that a backward will fire: all those of the loss are among them.
Sink(g, h) == h \in [Params -> Nat] /\ \A p \in Params : g.loss[p] > 0 => h[p] = g.loss[p]

\* A backward starts: if hooks are expected, the pass reduces, and one will mark its
\* parameter.
LEMMA BackwardInv ==
  ASSUME NEW P \in Programs, NEW R, NEW Q, NEW k, NEW G, NEW g, NEW f, NEW h, NEW n,
         RankTypes(P, R, "forward", k, G, f, n), g \in Graphs[P.mode],
         Prepared(P, R, Q, k), P.passes[k + 1] # "ignored", Sink(g, h),
         P.mode = "static" /\ R.iterations = 1 => Q.callback = "delay",
         k < Len(P.passes) => P.passes[k + 1] \in Passes
  PROVE  /\ RankTypes(P, Q, "backward", k, g, h, n)
         /\ (P.mode = "static" /\ k > 0 => g = G) /\ RankInv(P, R, "forward", k, G, f, n) =>
              RankInv(P, Q, "backward", k, g, h, n)
<1>0. R.error = FALSE
  BY DEF RankTypes
<1>1. /\ k \in Nat /\ R.hooks \in [Params -> Nat] /\ R.left \in [Params -> Nat]
      /\ R.expect \in BOOLEAN
  BY DEF RankTypes
<1>2. /\ DOMAIN Q = Fields /\ Q.iterations = R.iterations /\ Q.hooks = R.hooks
      /\ Q.finalize = R.finalize /\ Q.error = R.error
      /\ P.passes[k + 1] = "nosync" => Q.expect = R.expect /\ Q.left = R.left
      /\ P.passes[k + 1] # "nosync" =>
           Q.expect = TRUE /\ Q.left = IF P.mode = "static" THEN R.hooks ELSE R.left
  BY DEF Prepared
<1>3. RankTypes(P, Q, "backward", k, g, h, n)
  <2>1. Q.expect \in BOOLEAN /\ Q.left \in [Params -> Nat]
    BY <1>1, <1>2
  <2> QED
    BY <1>0, <1>1, <1>2, <2>1 DEF RankTypes, Locations, Sink
<1>4. SUFFICES ASSUME P.mode = "static" /\ k > 0 => g = G,
                      AccountOutside(P, R, "forward", k, n),
                      P.mode = "static" => Counted(P, R, "forward", k, G, f)
               PROVE  RankInv(P, Q, "backward", k, g, h, n)
  BY <1>3 DEF RankInv, Outside
<1>5. /\ ~R.finalize /\ n = Due(P, k) /\ k < Len(P.passes) /\ (R.expect <=> AfterIgnored(P, k))
  BY <1>4 DEF AccountOutside, InForward
<1>6. Q.expect <=> Reducing(P, k + 1)
  <2>1. CASE P.passes[k + 1] = "nosync"
    <3>1. k + 1 > 1 <=> k > 0
      BY <1>1
    <3>2. k + 1 - 1 = k
      BY <1>1
    <3>3. Reducing(P, k + 1) <=> k + 1 > 1 /\ P.passes[k + 1 - 1] = "ignored"
      BY <1>1, <2>1 DEF Reducing
    <3>4. Reducing(P, k + 1) <=> AfterIgnored(P, k)
      BY <3>1, <3>2, <3>3 DEF AfterIgnored
    <3>5. Q.expect = R.expect
      BY <1>2, <2>1
    <3> QED
      BY <1>5, <3>4, <3>5
  <2>2. CASE P.passes[k + 1] = "sync"
    BY <1>2, <2>2 DEF Reducing
  <2> QED
    BY <1>5, <2>1, <2>2 DEF Passes
<1>7. ASSUME P.mode = "static"
      PROVE  /\ Q.expect => R.iterations > 0 /\ Q.left = R.hooks /\ (R.iterations = 1 => NoHooks(R))
             /\ R.iterations = 0 => NoHooks(R)
             /\ \A p \in Params : g.loss[p] > 0 => R.hooks[p] \leq g.loss[p]
  <2>1. Counted(P, R, "forward", k, G, f)
    BY <1>4, <1>7
  <2>2. CountedOutside(P, R, "forward", k)
    BY <2>1 DEF Counted, Outside
  <2>3. Q.expect => R.iterations > 0 /\ Q.left = R.hooks /\ (R.iterations = 1 => NoHooks(R))
    <3>1. CASE P.passes[k + 1] = "nosync"
      BY <1>2, <1>5, <2>1, <2>2, <3>1 DEF CountedOutside, Counted
    <3>2. CASE P.passes[k + 1] # "nosync"
      BY <1>2, <1>7, <2>2, <3>2 DEF CountedOutside, InForward
    <3> QED
      BY <3>1, <3>2
  <2>4. \A p \in Params : g.loss[p] > 0 => R.hooks[p] \leq g.loss[p]
    <3>1. CASE k = 0
      BY <2>2, <3>1, GraphFacts DEF CountedOutside, NoHooks
    <3>2. CASE k > 0
      BY <1>4, <1>7, <2>1, <3>2 DEF Counted
    <3> QED
      BY <1>1, <3>1, <3>2
  <2> QED
    BY <2>1, <2>3, <2>4 DEF Counted
<1>8. Q.expect => Awaited(P, Q, h)
  <2>1. PICK p \in Params : g.loss[p] > 0
    BY GraphFacts
  <2>2. h[p] > 0 /\ h[p] = g.loss[p]
    BY <2>1 DEF Sink
  <2> QED
    BY <1>7, <2>1, <2>2 DEF Awaited
<1>9. AccountInside(P, Q, "backward", k, h, n)
  BY <1>2, <1>5, <1>6, <1>8 DEF AccountInside
<1>10. ASSUME P.mode = "static" PROVE Counted(P, Q, "backward", k, g, h)
  <2>1. ASSUME Q.expect, R.iterations = 1, NEW p \in Params, g.loss[p] > 0
        PROVE  Q.hooks[p] + h[p] \leq g.loss[p]
    <3>1. Q.hooks[p] = 0 /\ h[p] = g.loss[p] /\ g.loss[p] \in Nat
      BY <1>2, <1>7, <1>10, <2>1, GraphFacts DEF NoHooks, Sink
    <3> QED
      BY <3>1
  <2>2. CountedInside(Q, "backward", g, h)
    BY <1>2, <1>10, <2>1 DEF CountedInside
  <2> QED
    BY <1>2, <1>7, <1>10, <2>2 DEF Counted, NoHooks, Outside
<1> QED
  BY <1>9, <1>10 DEF RankInv, Outside

\* forward() after the call of the module preserves the invariant.
LEMMA BackwardStep ==
  ASSUME IInv, NEW r \in Ranks, Backward(r)
  PROVE  IInv'
<1>1. PICK R, k, G, f, n :
        R = red[r] /\ k = pass[r] /\ G = graph[r] /\ f = fires[r] /\ n = finals[r]
  OBVIOUS
<1>2. /\ RankTypes(program, R, "forward", k, G, f, n)
      /\ Changed \/ RankInv(program, R, "forward", k, G, f, n)
      /\ Shape /\ broken \in BOOLEAN /\ program \in Programs
  BY <1>1 DEF IInv, Backward
<1>3. DOMAIN R = Fields /\ k \in Nat
  BY <1>2 DEF RankTypes
<1>4. PICK g \in Graphs[Mode] :
        LET T == IF Pass(r) = "nosync" THEN red[r] ELSE PrepareForBackward(red[r], g.out)
            sink == [p \in Params |-> IF HasSink(r) /\ g.loss[p] = 0 /\ p \in g.out THEN 1 ELSE g.loss[p]]
        IN /\ graph' = [graph EXCEPT ![r] = g]
           /\ broken' = (broken \/ ~Contract(r, g))
           /\ \/ /\ Pass(r) = "ignored"
                 /\ Update(r, T)
                 /\ Goto(r, "idle")
                 /\ pass' = [pass EXCEPT ![r] = @ + 1]
                 /\ UNCHANGED fires
              \/ /\ Pass(r) # "ignored"
                 /\ Update(r, [T EXCEPT !.callback = IF StaticFirst(T) THEN "delay" ELSE "none"])
                 /\ Goto(r, "backward")
                 /\ fires' = [fires EXCEPT ![r] = sink]
                 /\ UNCHANGED pass
  BY DEF Backward
<1>5. PICK T, h :
        /\ T = IF program.passes[k + 1] = "nosync" THEN R ELSE PrepareForBackward(R, g.out)
        /\ h = [p \in Params |-> IF HasSink(r) /\ g.loss[p] = 0 /\ p \in g.out THEN 1 ELSE g.loss[p]]
  OBVIOUS
<1>6. PICK c : c = IF StaticFirst(T) THEN "delay" ELSE "none"
  OBVIOUS
<1>7. Pass(r) = program.passes[k + 1]
  BY <1>1 DEF Pass
<1>8. /\ graph' = [graph EXCEPT ![r] = g] /\ broken' = (broken \/ ~Contract(r, g))
      /\ \/ /\ program.passes[k + 1] = "ignored"
            /\ red' = [red EXCEPT ![r] = T] /\ pc' = [pc EXCEPT ![r] = "idle"]
            /\ pass' = [pass EXCEPT ![r] = @ + 1] /\ fires' = fires
         \/ /\ program.passes[k + 1] # "ignored"
            /\ red' = [red EXCEPT ![r] = [T EXCEPT !.callback = c]]
            /\ pc' = [pc EXCEPT ![r] = "backward"]
            /\ fires' = [fires EXCEPT ![r] = h] /\ pass' = pass
  BY <1>1, <1>4, <1>5, <1>6, <1>7 DEF Update, Goto
<1>9. g \in Graphs[program.mode]
  BY <1>4 DEF Mode
<1>10. Prepared(program, R, T, k) /\ \A d : Prepared(program, R, [T EXCEPT !.callback = d], k)
  BY <1>3, <1>5, PrepareFacts
<1>11. UNCHANGED program /\ finals' = finals /\ broken' \in BOOLEAN /\ (broken => broken')
  BY <1>2, <1>8 DEF Backward
<1>12. program.mode = "static" => broken' \/ (k > 0 => g = G)
  <2>1. program.mode = "static" => (Contract(r, g) <=> (k > 0 => g = G))
    BY <1>1 DEF Contract, Mode
  <2> QED
    BY <1>8, <2>1
<1>13. \/ program.mode = "static" /\ broken'
       \/ /\ program.mode = "static" /\ k > 0 => g = G
          /\ RankInv(program, R, "forward", k, G, f, n)
  BY <1>2, <1>11, <1>12 DEF Changed, Mode
<1>14. CASE /\ program.passes[k + 1] = "ignored"
            /\ red' = [red EXCEPT ![r] = T] /\ pc' = [pc EXCEPT ![r] = "idle"]
            /\ pass' = [pass EXCEPT ![r] = @ + 1] /\ fires' = fires
  <2>1. /\ RankTypes(program, T, "idle", k + 1, g, f, n)
        /\ (program.mode = "static" /\ k > 0 => g = G) /\ RankInv(program, R, "forward", k, G, f, n) =>
             RankInv(program, T, "idle", k + 1, g, f, n)
    <3>1. RankTypes(program, R, "forward", k, G, f, n) /\ program \in Programs
      BY <1>2
    <3>2. Prepared(program, R, T, k)
      BY <1>10
    <3>3. program.passes[k + 1] = "ignored"
      BY <1>14
    <3> QED
      BY <1>9, <3>1, <3>2, <3>3, IgnoredInv
  <2>2. /\ red'[r] = T /\ pc'[r] = "idle" /\ pass'[r] = k + 1 /\ graph'[r] = g /\ fires'[r] = f
        /\ finals'[r] = n
    BY <1>1, <1>2, <1>8, <1>11, <1>14 DEF Shape
  <2>3. /\ Shape'
        /\ \A s \in Ranks \ {r} :
             /\ red'[s] = red[s] /\ pc'[s] = pc[s] /\ pass'[s] = pass[s]
             /\ graph'[s] = graph[s] /\ fires'[s] = fires[s] /\ finals'[s] = finals[s]
    BY <1>2, <1>8, <1>11, <1>14 DEF Shape
  <2>4. \/ Mode = "static" /\ broken'
        \/ RankInv(program, T, "idle", k + 1, g, f, n)
    BY <1>13, <2>1 DEF Mode
  <2> QED
    BY <1>11, <2>1, <2>2, <2>3, <2>4, StepInv
<1>15. CASE /\ program.passes[k + 1] # "ignored"
            /\ red' = [red EXCEPT ![r] = [T EXCEPT !.callback = c]]
            /\ pc' = [pc EXCEPT ![r] = "backward"]
            /\ fires' = [fires EXCEPT ![r] = h] /\ pass' = pass
  <2>1. PICK Q : Q = [T EXCEPT !.callback = c]
    OBVIOUS
  <2>2. Prepared(program, R, Q, k)
    BY <1>10, <2>1
  <2>3. DOMAIN T = Fields /\ T.iterations = R.iterations
    BY <1>10 DEF Prepared
  <2>4. Q.callback = c
    BY <2>1, <2>3 DEF Fields
  <2>5. program.mode = "static" /\ R.iterations = 1 => Q.callback = "delay"
    BY <1>6, <2>3, <2>4 DEF StaticFirst, Mode
  <2>6. Sink(g, h)
    <3>1. g.loss \in [Params -> Nat]
      BY <1>2, <1>9, GraphFacts
    <3> QED
      BY <1>5, <3>1 DEF Sink
  <2>7. k < Len(program.passes) => program.passes[k + 1] \in Passes
    <3>1. program.passes \in Seq(Passes)
      BY <1>2, ProgramsAssumption
    <3> QED
      BY <1>3, <3>1
  <2>8. /\ RankTypes(program, Q, "backward", k, g, h, n)
        /\ (program.mode = "static" /\ k > 0 => g = G) /\ RankInv(program, R, "forward", k, G, f, n) =>
             RankInv(program, Q, "backward", k, g, h, n)
    <3>1. RankTypes(program, R, "forward", k, G, f, n) /\ program \in Programs
      BY <1>2
    <3>2. program.passes[k + 1] # "ignored"
      BY <1>15
    <3> QED
      BY <1>9, <2>2, <2>5, <2>6, <2>7, <3>1, <3>2, BackwardInv
  <2>9. /\ red'[r] = Q /\ pc'[r] = "backward" /\ pass'[r] = k /\ graph'[r] = g /\ fires'[r] = h
        /\ finals'[r] = n
    BY <1>1, <1>2, <1>8, <1>11, <1>15, <2>1 DEF Shape
  <2>10. /\ Shape'
         /\ \A s \in Ranks \ {r} :
              /\ red'[s] = red[s] /\ pc'[s] = pc[s] /\ pass'[s] = pass[s]
              /\ graph'[s] = graph[s] /\ fires'[s] = fires[s] /\ finals'[s] = finals[s]
    BY <1>2, <1>8, <1>11, <1>15 DEF Shape
  <2>11. \/ Mode = "static" /\ broken'
         \/ RankInv(program, Q, "backward", k, g, h, n)
    BY <1>13, <2>8 DEF Mode
  <2> QED
    BY <1>11, <2>8, <2>9, <2>10, <2>11, StepInv
<1> QED
  BY <1>8, <1>14, <1>15

\* A collective moves results: the account of no rank reads them.
LEMMA CollectiveStep ==
  ASSUME IInv, Collective
  PROVE  IInv'
<1>1. UNCHANGED <<program, pc, pass, graph, fires, finals, broken>>
  BY DEF Collective
<1>2. DOMAIN red' = Ranks
  BY DEF Collective
<1>3. ASSUME NEW s \in Ranks
      PROVE  /\ RankTypes(program, red'[s], pc[s], pass[s], graph[s], fires[s], finals[s])
             /\ \/ Changed
                \/ RankInv(program, red'[s], pc[s], pass[s], graph[s], fires[s], finals[s])
  <2>1. PICK R, Q, l, k, G, f, n :
          /\ R = red[s] /\ Q = red'[s] /\ l = pc[s]
          /\ k = pass[s] /\ G = graph[s] /\ f = fires[s] /\ n = finals[s]
    OBVIOUS
  <2>2. /\ RankTypes(program, R, l, k, G, f, n)
        /\ Changed \/ RankInv(program, R, l, k, G, f, n)
    BY <1>3, <2>1 DEF IInv
  <2>3. PICK w, d : red'[s] = [red[s] EXCEPT !.work = w, !.done = d]
    BY <1>3 DEF Collective
  <2>4. Agree(R, Q) /\ Q.error = R.error
    BY <2>1, <2>2, <2>3 DEF Agree, RankTypes, Fields
  <2>5. RankTypes(program, Q, l, k, G, f, n)
    BY <2>2, <2>4 DEF RankTypes, Agree
  <2>6. AccountOutside(program, R, l, k, n) => AccountOutside(program, Q, l, k, n)
    BY <2>4 DEF AccountOutside, Agree
  <2>7. AccountInside(program, R, l, k, f, n) => AccountInside(program, Q, l, k, f, n)
    BY <2>4 DEF AccountInside, Awaited, Agree
  <2>8. Counted(program, R, l, k, G, f) => Counted(program, Q, l, k, G, f)
    BY <2>4 DEF Counted, CountedOutside, CountedInside, NoHooks, Agree
  <2>9. RankInv(program, R, l, k, G, f, n) => RankInv(program, Q, l, k, G, f, n)
    BY <2>6, <2>7, <2>8 DEF RankInv
  <2> QED
    BY <2>1, <2>2, <2>5, <2>9
<1>4. Changed' <=> Changed
  BY <1>1 DEF Changed, Mode
<1>5. Shape' /\ program' \in Programs /\ broken' \in BOOLEAN
  BY <1>1, <1>2 DEF IInv, Shape
<1>6. ASSUME NEW s \in Ranks
      PROVE  /\ RankTypes(program', red'[s], pc'[s], pass'[s], graph'[s], fires'[s], finals'[s])
             /\ \/ Changed'
                \/ RankInv(program', red'[s], pc'[s], pass'[s], graph'[s], fires'[s], finals'[s])
  BY <1>1, <1>3, <1>4, <1>6
<1> QED
  BY <1>5, <1>6 DEF IInv

-----------------------------------------------------------------------------
\* The constructors establish the invariant.
LEMMA InitInv ==
  ASSUME Init
  PROVE  IInv
<1>1. program \in Programs /\ broken = FALSE /\ Shape
  BY DEF Init, Shape
<1>2. program.mode \in Modes
  BY <1>1, ProgramsAssumption
<1>3. ASSUME NEW r \in Ranks
      PROVE  /\ RankTypes(program, red[r], pc[r], pass[r], graph[r], fires[r], finals[r])
             /\ RankInv(program, red[r], pc[r], pass[r], graph[r], fires[r], finals[r])
  <2>1. PICK zero : zero = [p \in Params |-> 0]
    OBVIOUS
  <2>2. zero \in [Params -> Nat] /\ \A p \in Params : zero[p] = 0
    BY <2>1
  <2>3. PICK R : R = NewReducer
    OBVIOUS
  <2>4. /\ DOMAIN R = Fields /\ R.iterations = 0 /\ R.expect = FALSE /\ R.finalize = FALSE
        /\ R.hooks = zero /\ R.left = zero /\ R.error = FALSE /\ R.callback = "none"
    BY <2>1, <2>3 DEF NewReducer, Fields
  <2>5. /\ red[r] = R /\ pc[r] = "idle" /\ pass[r] = 0 /\ fires[r] = zero /\ finals[r] = 0
    BY <1>3, <2>1, <2>3 DEF Init
  <2>6. PICK G : G = graph[r]
    OBVIOUS
  <2>7. G \in Graphs[program.mode]
    <3>1. Graphs[program.mode] # {}
      BY <1>2, GraphsAssumption
    <3>2. G = CHOOSE g \in Graphs[program.mode] : TRUE
      BY <1>3, <2>6 DEF Init
    <3> QED
      BY <3>1, <3>2
  <2>8. G.loss \in [Params -> Nat]
    BY <1>1, <2>7, GraphFacts
  <2>9. RankTypes(program, R, "idle", 0, G, zero, 0)
    <3>1. 0 \in Nat /\ "idle" \in Locations
      BY DEF Locations
    <3>2. R.error = ("idle" = "raised")
      <4>1. ("idle" = "raised") = FALSE
        OBVIOUS
      <4>2. R.error = FALSE
        BY <2>4
      <4> QED
        BY <4>1, <4>2
    <3>3. R.iterations \in Nat
      BY <2>4
    <3>4. R.expect \in BOOLEAN /\ R.finalize \in BOOLEAN
      BY <2>4
    <3> QED
      BY <2>2, <2>4, <2>7, <3>1, <3>2, <3>3, <3>4 DEF RankTypes
  <2>10. Due(program, 0) = 0
    BY DueNext
  <2>11. AccountOutside(program, R, "idle", 0, 0)
    BY <2>4, <2>10 DEF AccountOutside, AfterIgnored, InForward
  <2>12. Counted(program, R, "idle", 0, G, zero)
    BY <2>2, <2>4, <2>8 DEF Counted, CountedOutside, CountedInside, NoHooks, InForward
  <2>13. RankInv(program, R, "idle", 0, G, zero, 0)
    BY <2>11, <2>12 DEF RankInv
  <2> QED
    BY <2>5, <2>6, <2>9, <2>13
<1> QED
  BY <1>1, <1>3 DEF IInv

\* Every step preserves the invariant.
LEMMA NextInv ==
  ASSUME IInv, [Next]_vars
  PROVE  IInv'
<1>1. CASE UNCHANGED vars
  BY <1>1 DEF vars, IInv, Shape, Changed, Mode
<1>2. CASE Collective
  BY <1>2, CollectiveStep
<1>3. ASSUME NEW r \in Ranks, Step(r)
      PROVE  IInv'
  <2>1. CASE Forward(r)
    BY <1>3, <2>1, ForwardStep
  <2>2. CASE SyncBucketIndices(r)
    BY <1>3, <2>2, SyncBucketIndicesStep
  <2>3. CASE InitializeBuckets(r)
    BY <1>3, <2>3, InitializeBucketsStep
  <2>4. CASE Backward(r)
    BY <1>3, <2>4, BackwardStep
  <2>5. ASSUME NEW p \in Params, Hook(r, p)
        PROVE  IInv'
    BY <1>3, <2>5, HookStep
  <2>6. CASE EndBackward(r)
    BY <1>3, <2>6, EndBackwardStep
  <2>7. CASE FinalizeBackward(r)
    BY <1>3, <2>7, FinalizeBackwardStep
  <2> QED
    BY <1>3, <2>1, <2>2, <2>3, <2>4, <2>5, <2>6, <2>7 DEF Step
<1> QED
  BY <1>1, <1>2, <1>3 DEF Next

\* The invariant accounts for every finalized reduction.
LEMMA InvImpliesFinalized == IInv => EverySyncFinalized
<1> SUFFICES ASSUME IInv, NEW r \in Ranks, pc[r] \in {"forward", "backward", "final"},
                    ~(Mode = "static" /\ broken)
             PROVE  finals[r] = Cardinality({i \in 1..pass[r] : Reduces(i)})
  BY DEF EverySyncFinalized
<1>1. PICK R, l, k, G, f, n :
        /\ R = red[r] /\ l = pc[r]
        /\ k = pass[r] /\ G = graph[r] /\ f = fires[r] /\ n = finals[r]
  OBVIOUS
<1>2. RankInv(program, R, l, k, G, f, n)
  BY <1>1 DEF IInv, Changed
<1>3. n = Due(program, k)
  BY <1>1, <1>2 DEF RankInv, AccountOutside, AccountInside, Outside, InForward
<1>4. {i \in 1..k : Reducing(program, i)} = {i \in 1..k : Reduces(i)}
  BY DEF Reducing, Reduces
<1> QED
  BY <1>1, <1>3, <1>4 DEF Due

\* In every execution each rank keeps account of its reductions: what its Reducer
\* expects, has under way and has finalized agrees with the passes it has completed,
\* unless a static graph changed.
THEOREM ReducerInvariant == Spec => []IInv
  BY InitInv, NextInv, PTL DEF Spec

\* No rank goes on training after a reduction that did not finish, and none is
\* finalized twice: prepare_for_forward's check, the expected hooks and the final
\* callbacks of Reducer leave one finalized reduction for each pass that reduces.
THEOREM SyncFinalized == Spec => []EverySyncFinalized
  BY ReducerInvariant, InvImpliesFinalized, PTL

-----------------------------------------------------------------------------
(* The collectives of a rank, L the layout that rank 0 computed.            *)

\* The synchronised reductions before rebuild_buckets.
First(P) == IF P.mode = "static" THEN 2 ELSE 1

\* The first j passes that are not under no_sync(), which num_iterations_ counts.
Opened(P, j) == Cardinality({i \in 1..j : P.passes[i] # "nosync"})

\* A backward under no_sync() that runs delay_all_reduce although nothing is expected.
DoomedAt(P, i) ==
  /\ i \in 2..Len(P.passes) /\ P.passes[i] = "nosync" /\ P.passes[i - 1] # "ignored"
  /\ Opened(P, i) = 1
Doomed(P) == \E i \in 2..Len(P.passes) : DoomedAt(P, i)

\* Rounds of collectives that a rank has completed.
Rounds(R, n) == IF R.rebuilt THEN n + 1 ELSE n

\* What the process group matches of a collective, and those of the used map, of the buckets B and of
\* sync_bucket_indices.
Sig(w) == <<w.kind, w.key>>
UsedSig == <<"used", <<>>>>
BucketSigs(B) == [i \in 1..Len(B) |-> <<"bucket", B[i]>>]
RebuildSigs(L) == <<<<"indices", <<Cardinality(Params) + 1>>>>, <<"sizes", <<Len(L)>>>>>>

\* The round in which rebuild_buckets broadcasts, and one whose reduction is delayed.
Rebuilds(P, c) == P.mode # "unused" /\ c = First(P)
DelayedRound(P, c) == P.mode = "static" /\ (c = 0 \/ (c = 1 /\ Doomed(P)))

\* The collectives of round c.
RoundSigs(P, L, c) ==
  IF P.mode = "unused" THEN Append(BucketSigs(InitialBuckets), UsedSig)
  ELSE IF Rebuilds(P, c) THEN RebuildSigs(L)
  ELSE IF DelayedRound(P, c) THEN <<UsedSig>> \o BucketSigs(InitialBuckets)
  ELSE BucketSigs(IF c < First(P) THEN InitialBuckets ELSE L)

\* The gradients that a program can accumulate.
Given(P) == SUBSET (Ranks \X (1..Len(P.passes)) \X (1..2))

\* The data of a collective.
IsWork(P, w) ==
  /\ DOMAIN w = {"kind", "key", "data"}
  /\ w.kind = "bucket" => w.data \in [Range(w.key) -> Given(P)]
  /\ w.kind = "used" => w.data \subseteq Params

IsWorks(P, s) == s \in Seq(Range(s)) /\ \A i \in 1..Len(s) : IsWork(P, s[i])

\* What rank 0 broadcasts of its layout.
Sizes(L) == [i \in 1..Len(L) |-> Len(L[i])]
Announced(L) == <<[flat |-> FlattenSeq(L), buckets |-> Len(L)], Sizes(L)>>

\* Every parameter is in one bucket; and the layout survives its broadcast.
IsLayout(B) ==
  /\ B \in Seq(Seq(Params)) /\ Len(B) \in 1..Cardinality(Params)
  /\ \A p \in Params : \E i \in 1..Len(B) :
       p \in Range(B[i]) /\ \A k \in 1..Len(B) : p \in Range(B[k]) => k = i
Sound(L) == IsLayout(L) /\ Unflatten(FlattenSeq(L), Sizes(L)) = L
\* The orders of the parameters that layouts are computed from.
Distinct(o) == \A a, b \in 1..Len(o) : o[a] = o[b] => a = b
IsPerm(o) == o \in Seq(Params) /\ Len(o) = Cardinality(Params) /\ Distinct(o) /\ Range(o) = Params

-----------------------------------------------------------------------------
\* The types, and the pass a rank is in.
Typed(P, R, l, k, f) ==
  /\ k \in 0..Len(P.passes) /\ f \in [Params -> 0..2]
  /\ l \notin {"idle", "raised"} => k < Len(P.passes)
  /\ l \in {"backward", "final"} => P.passes[k + 1] # "ignored"
  /\ R.iterations \in 0..Len(P.passes)
  /\ l = "idle" => R.iterations = Opened(P, k)
  /\ l \notin {"idle", "raised"} => R.iterations = Opened(P, k + 1)
  /\ R.rebuilt \in BOOLEAN /\ R.marked \in BOOLEAN /\ R.reduced \in BOOLEAN
  /\ R.view \in [Params -> Given(P)]
  /\ R.next \in 1..Cardinality(Params) + 1
  /\ ~R.rebuilt \/ (R.expect /\ l # "raised") => R.next \leq Len(R.buckets) + 1
  /\ R.ready \subseteq Params /\ R.unused \subseteq Params /\ R.used \subseteq Params
  /\ R.hooks \in [Params -> 0..2] /\ R.left \in [Params -> 0..2]
  /\ R.callback \in {"none", "delay", "finalize"}
  /\ R.order \in Seq(Params)

\* The buckets are the initial ones or those of rank 0.
LaidOut(L, R, l) ==
  /\ R.buckets = IF R.rebuilt THEN L ELSE InitialBuckets
  /\ R.rebuilt => Sound(L)
  /\ l \in {"indices", "sizes"} => ~R.rebuilt /\ R.plan = Assign(R.order)

\* The results and the collectives issued are the first ones of the round; what sync_bucket_indices has
\* received is what rank 0 announced.
Ledger(P, L, R, n) ==
  LET S == RoundSigs(P, L, Rounds(R, n))
      d == Len(R.done)
  IN  /\ IsWorks(P, R.done) /\ IsWorks(P, R.work)
      /\ d + Len(R.work) \leq Len(S)
      /\ \A i \in 1..d : Sig(R.done[i]) = S[i]
      /\ \A i \in 1..Len(R.work) : Sig(R.work[i]) = S[d + i]
      /\ Rebuilds(P, Rounds(R, n)) =>
           /\ d + Len(R.work) > 1 => d > 0
           /\ \A i \in 1..d : R.done[i].data = Announced(L)[i]

\* What rank 0 has issued is so too.
Announces(P, L, R, n) ==
  Rebuilds(P, Rounds(R, n)) =>
    \A i \in 1..Len(R.work) : R.work[i].data = Announced(L)[Len(R.done) + i]

Issued(R) == Len(R.done) + Len(R.work)

\* How many collectives of its round the rank has issued.
Progress(P, L, R, l, n) ==
  /\ ~R.finalize /\ l \notin {"indices", "sizes"} => Issued(R) = 0
  /\ l = "indices" => Issued(R) = 1
  /\ l = "sizes" => Issued(R) = 2
  /\ l = "backward" /\ R.finalize =>
       Issued(R) = IF P.mode = "unused" /\ R.next > Len(R.buckets) THEN R.next ELSE R.next - 1
  /\ l = "final" => Issued(R) = Len(RoundSigs(P, L, Rounds(R, n)))
  /\ l \in {"indices", "sizes"} => ~R.finalize

\* When buckets are rebuilt, and that rebuilt_param_indices_ then has every parameter once.
Ordered(P, R, l, n) ==
  /\ R.rebuilt => P.mode # "unused" /\ n \geq First(P)
  /\ l \in {"indices", "sizes"} => P.mode # "unused" /\ ~R.rebuilt /\ n = First(P)
  /\ P.mode # "unused" /\ ~R.rebuilt =>
       /\ n \leq First(P)
       /\ n = First(P) => l \in {"idle", "indices", "sizes"} /\ ~R.finalize /\ IsPerm(R.order)
       /\ n < First(P) /\ ~R.finalize => R.order = <<>>
       /\ l = "backward" /\ R.finalize => Distinct(R.order) /\ Range(R.order) = R.ready \ R.unused
       /\ l = "final" => IF n + 1 = First(P) THEN IsPerm(R.order) ELSE R.order = <<>>

\* The buckets issued so far in a backward are the complete ones.
Marking(R, l) ==
  /\ R.finalize => R.expect
  /\ l \in InForward => ~R.finalize
  /\ l = "final" => R.finalize
  /\ R.expect /\ ~R.finalize => R.ready = {} /\ R.next = 1 /\ (R.marked => R.unused = {})
  /\ l = "backward" /\ R.finalize =>
       /\ R.marked /\ R.unused \subseteq R.ready
       /\ \A i \in 1..R.next - 1 : Complete(R, i)
       /\ R.next \leq Len(R.buckets) => ~Complete(R, R.next)
       /\ R.callback = IF R.next > Len(R.buckets) THEN "finalize" ELSE "none"
  /\ l = "backward" /\ ~R.finalize => R.callback # "finalize"

\* The first iteration of a static graph, whose reduction is delayed.
Delays(P, R, l, k, f, n) ==
  /\ R.iterations = 0 => n = 0 /\ ~R.expect
  /\ R.iterations = 1 =>
       n = IF (l \in InForward /\ P.passes[k + 1] # "nosync") \/ R.expect THEN 0 ELSE 1
  /\ R.iterations = 1 /\ l \in InForward /\ P.passes[k + 1] # "nosync" => ~R.expect
  /\ l \in {"idle", "indices", "sizes", "forward"} /\ AfterIgnored(P, k) => R.expect /\ ~R.finalize
  /\ R.iterations = 1 /\ R.expect =>
       \/ AfterIgnored(P, k)
       \/ l \in {"backward", "final"} /\ P.passes[k + 1] # "nosync"
  /\ l = "backward" /\ R.iterations = 1 /\ ~R.expect => DoomedAt(P, k + 1)
  /\ \A i \in 2..k : ~DoomedAt(P, i)
  /\ n = 0 => R.left = [p \in Params |-> 0]
  /\ n = 0 /\ ~(R.iterations = 1 /\ l \in {"backward", "final"}) => NoHooks(R) /\ R.unused = {}
  /\ n > 0 => R.reduced \/ R.used = Params
  /\ l = "backward" /\ R.iterations = 1 /\ R.expect => \A p \in Params : R.hooks[p] + f[p] \leq 2
  /\ l = "backward" => (R.callback = "delay" <=> R.iterations = 1)
  /\ R.finalize /\ l # "final" => n > 0 /\ R.iterations # 1
  /\ l = "final" => (n = 0 <=> R.iterations = 1)

\* The other modes have none.
Quiet(P, R) ==
  /\ R.callback # "delay" /\ NoHooks(R) /\ R.left = [p \in Params |-> 0]
  /\ P.mode = "plain" => R.unused = {}

\* All that, of a rank that has not raised.
Keeps(P, L, R, l, k, f, n) ==
  /\ Progress(P, L, R, l, n) /\ Ordered(P, R, l, n) /\ Marking(R, l)
  /\ IF P.mode = "static" THEN Delays(P, R, l, k, f, n) ELSE Quiet(P, R)

\* All collectives of the round are complete.
Ended(P, L, R, n) == Len(R.done) = Len(RoundSigs(P, L, Rounds(R, n)))

\* Two ranks are at the same place of the same round, or one has ended it and the other begins the next.
Aligned(P, L, R, n, Q, m) ==
  \/ Rounds(R, n) = Rounds(Q, m) /\ Len(R.done) = Len(Q.done)
  \/ Rounds(R, n) = Rounds(Q, m) + 1 /\ R.done = <<>> /\ Ended(P, L, Q, m)
  \/ Rounds(Q, m) = Rounds(R, n) + 1 /\ Q.done = <<>> /\ Ended(P, L, R, n)

\* The layout of rank 0, installed or still to be.
Layout == IF red[Root].rebuilt THEN red[Root].buckets ELSE red[Root].plan

\* The invariant of a rank.
JRank(P, L, R, l, k, f, n) ==
  /\ Typed(P, R, l, k, f) /\ LaidOut(L, R, l) /\ Ledger(P, L, R, n)
  /\ l # "raised" => Keeps(P, L, R, l, k, f, n)
  /\ R.rebuilt => P.mode # "unused" /\ n \geq First(P)
  /\ ~R.rebuilt /\ P.mode # "unused" => n \leq First(P)
  /\ ~R.rebuilt /\ n = First(P) /\ P.mode # "unused" => l \in {"idle", "indices", "sizes"}

\* The inductive invariant of the collectives.
JInv ==
  /\ \A r \in Ranks : JRank(program, Layout, red[r], pc[r], pass[r], fires[r], finals[r])
  /\ Announces(program, Layout, red[Root], finals[Root])
  /\ \A r, s \in Ranks : Aligned(program, Layout, red[r], finals[r], red[s], finals[s])
  /\ \A r \in Ranks : grad[r] \in [Params -> Given(program)] /\ gave[r] \in [Params -> Given(program)]

-----------------------------------------------------------------------------
(* Recursive functions and sequences.                                       *)

\* A set of natural numbers has a least element.
LEMMA Least ==
  ASSUME NEW S, S \subseteq Nat, S # {}
  PROVE  \E x \in S : \A y \in S : x \leq y
<1> DEFINE R == {ss \in Nat \X Nat : ss[1] < ss[2]}
<1>1. IsWellFoundedOn(R, Nat)
  BY NatLessThanWellFounded DEF OpToRel
<1>2. \A y, x \in Nat : <<y, x>> \in R <=> y < x
  OBVIOUS
<1> HIDE DEF R
<1>3. PICK x \in S : \A y \in S : ~(<<y, x>> \in R)
  BY <1>1, WFMin
<1>4. \A y \in S : ~(y < x)
  BY <1>2, <1>3
<1> QED
  BY <1>4

\* A set that holds 0 and the successor of every member holds all numbers up to N.
LEMMA UpTo ==
  ASSUME NEW N \in Nat, NEW S, 0 \in S, \A i \in 0..N - 1 : i \in S => i + 1 \in S
  PROVE  0..N \subseteq S
<1> SUFFICES ASSUME ~(0..N \subseteq S)
             PROVE  FALSE
  OBVIOUS
<1> DEFINE T == {i \in 0..N : i \notin S}
<1>1. T \subseteq Nat /\ T # {}
  OBVIOUS
<1>2. PICK x \in T : \A y \in T : x \leq y
  BY <1>1, Least
<1>3. x \in 0..N /\ x # 0
  BY <1>2
<1>4. x - 1 \in 0..N - 1 /\ (x - 1) + 1 = x
  BY <1>3
<1>5. x - 1 \in S
  BY <1>2, <1>4
<1> QED
  BY <1>2, <1>4, <1>5

\* f is defined by primitive recursion from a, with s[i] for its i-th step.
Recurses(D, a, N, s, f) ==
  f \in [0..N -> D] /\ f[0] = a /\ \A i \in 1..N : f[i] = s[i][f[i - 1]]

\* Primitive recursion up to N.
LEMMA Recursion ==
  ASSUME NEW D, NEW a \in D, NEW N \in Nat, NEW s \in [1..N -> [D -> D]]
  PROVE  \E f : Recurses(D, a, N, s, f)
<1> DEFINE Is(n, f) == f \in [0..n -> D] /\ f[0] = a /\ \A i \in 1..n : f[i] = s[i][f[i - 1]]
           S == {n \in 0..N : \E f \in [0..n -> D] : Is(n, f)}
<1>1. 0 \in S
  <2>1. Is(0, [i \in 0..0 |-> a])
    OBVIOUS
  <2>2. [i \in 0..0 |-> a] \in [0..0 -> D]
    OBVIOUS
  <2> HIDE DEF Is
  <2> QED
    BY <2>1, <2>2
<1>2. ASSUME NEW i \in 0..N - 1, i \in S
      PROVE  i + 1 \in S
  <2>1. PICK f \in [0..i -> D] : Is(i, f)
    BY <1>2
  <2> DEFINE g == [j \in 0..i + 1 |-> IF j = i + 1 THEN s[i + 1][f[i]] ELSE f[j]]
  <2>2. f[i] \in D /\ i + 1 \in 1..N
    OBVIOUS
  <2>3. s[i + 1][f[i]] \in D
    BY <2>2
  <2>4. g \in [0..i + 1 -> D]
    BY <2>3
  <2>5. g[0] = a
    BY <2>1
  <2>6. ASSUME NEW j \in 1..i + 1
        PROVE  g[j] = s[j][g[j - 1]]
    <3>1. CASE j = i + 1
      BY <3>1
    <3>2. CASE j # i + 1
      <4>1. j \in 1..i /\ j - 1 \in 0..i /\ j \in 0..i + 1 /\ j - 1 \in 0..i + 1 /\ j - 1 # i + 1
        BY <3>2
      <4>2. g[j] = f[j] /\ g[j - 1] = f[j - 1]
        BY <4>1, <3>2
      <4> QED
        BY <4>1, <4>2, <2>1
    <3> QED
      BY <3>1, <3>2
  <2>7. Is(i + 1, g)
    BY <2>4, <2>5, <2>6
  <2> HIDE DEF Is, g
  <2> QED
    BY <2>4, <2>7
<1>3. 0..N \subseteq S
  <2> HIDE DEF S
  <2> QED
    BY <1>1, <1>2, UpTo
<1>4. PICK f \in [0..N -> D] : Is(N, f)
  BY <1>3
<1>5. Recurses(D, a, N, s, f)
  BY <1>4 DEF Recurses
<1> QED
  BY <1>5

\* A function on 1..n is a sequence.
LEMMA FunctionSeq ==
  ASSUME NEW n \in Nat, NEW S, NEW f \in [1..n -> S]
  PROVE  f \in Seq(S) /\ Len(f) = n
  OBVIOUS

-----------------------------------------------------------------------------
(* The layouts that compute_bucket_assignment_by_size returns.              *)

\* The loop of compute_bucket_assignment_by_size.
Fills == [closed : Seq(Seq(Params)), open : Seq(Params), bytes : Nat, limit : Nat]
Unfilled == [closed |-> <<>>, open |-> <<>>, bytes |-> 0, limit |-> FirstCap]
Filled(b, p) ==
  IF b.bytes + Size[p] >= b.limit
  THEN [closed |-> Append(b.closed, Append(b.open, p)), open |-> <<>>, bytes |-> 0, limit |-> Cap]
  ELSE [b EXCEPT !.open = Append(@, p), !.bytes = @ + Size[p]]

\* compute_bucket_assignment_by_size puts a parameter into the open bucket and may close it.
LEMMA FilledType ==
  ASSUME NEW b \in Fills, NEW p \in Params
  PROVE  /\ Filled(b, p) \in Fills
         /\ \/ /\ Filled(b, p).closed = Append(b.closed, Append(b.open, p))
               /\ Filled(b, p).open = <<>>
            \/ /\ Filled(b, p).closed = b.closed
               /\ Filled(b, p).open = Append(b.open, p)
<1>0. /\ b.closed \in Seq(Seq(Params)) /\ b.open \in Seq(Params) /\ b.bytes \in Nat /\ b.limit \in Nat
      /\ b = [closed |-> b.closed, open |-> b.open, bytes |-> b.bytes, limit |-> b.limit]
  BY DEF Fills
<1>1. Size[p] \in Nat /\ Cap \in Nat
  BY SizeAssumption, CapAssumption
<1>2. Append(b.open, p) \in Seq(Params) /\ b.bytes + Size[p] \in Nat
  BY <1>0, <1>1
<1>3. Append(b.closed, Append(b.open, p)) \in Seq(Seq(Params))
  BY <1>0, <1>2
<1>4. CASE b.bytes + Size[p] >= b.limit
  <2>1. Filled(b, p) = [closed |-> Append(b.closed, Append(b.open, p)), open |-> <<>>, bytes |-> 0,
                        limit |-> Cap]
    BY <1>4 DEF Filled
  <2> QED
    BY SMTT(40), <2>1, <1>1, <1>3 DEF Fills
<1>5. CASE ~(b.bytes + Size[p] >= b.limit)
  <2>1. Filled(b, p) = [closed |-> b.closed, open |-> Append(b.open, p), bytes |-> b.bytes + Size[p],
                        limit |-> b.limit]
    BY <1>5, <1>0 DEF Filled
  <2> QED
    BY <2>1, <1>0, <1>2 DEF Fills
<1> QED
  BY <1>4, <1>5

\* Its loop over the parameters has a state after each of them.
LEMMA FillExists ==
  ASSUME NEW o \in Seq(Params)
  PROVE  \E f : f = [i \in 0..Len(o) |-> IF i = 0 THEN Unfilled ELSE Filled(f[i - 1], o[i])]
<1> DEFINE s == [i \in 1..Len(o) |-> [b \in Fills |-> Filled(b, o[i])]]
<1>1. s \in [1..Len(o) -> [Fills -> Fills]]
  <2>1. \A i \in 1..Len(o) : o[i] \in Params
    OBVIOUS
  <2> QED
    BY <2>1, FilledType
<1>2. Unfilled \in Fills
  BY CapAssumption DEF Unfilled, Fills
<1>3. \A i \in 1..Len(o) : \A b \in Fills : s[i][b] = Filled(b, o[i])
  OBVIOUS
<1> HIDE DEF s
<1>4a. PICK f : Recurses(Fills, Unfilled, Len(o), s, f)
  <2>1. Len(o) \in Nat
    OBVIOUS
  <2> QED
    BY <1>1, <1>2, <2>1, Recursion
<1>4. /\ f \in [0..Len(o) -> Fills] /\ f[0] = Unfilled
      /\ \A i \in 1..Len(o) : f[i] = s[i][f[i - 1]]
  BY <1>4a DEF Recurses
<1>5. ASSUME NEW i \in 1..Len(o)
      PROVE  f[i] = Filled(f[i - 1], o[i])
  <2>1. i - 1 \in 0..Len(o)
    OBVIOUS
  <2>2. f[i - 1] \in Fills
    BY <2>1, <1>4
  <2> QED
    BY <1>3, <1>4, <2>2
<1>6. ASSUME NEW i \in 0..Len(o)
      PROVE  f[i] = IF i = 0 THEN Unfilled ELSE Filled(f[i - 1], o[i])
  <2>1. i = 0 \/ i \in 1..Len(o)
    OBVIOUS
  <2> QED
    BY <1>4, <1>5, <2>1
<1>7. f = [i \in 0..Len(o) |-> f[i]]
  BY <1>4
<1>8. f = [i \in 0..Len(o) |-> IF i = 0 THEN Unfilled ELSE Filled(f[i - 1], o[i])]
  BY <1>6, <1>7
<1> QED
  BY <1>8

\* The layout it returns is that state, with the bucket still open as the last.
LEMMA AssignFill ==
  ASSUME NEW o \in Seq(Params)
  PROVE  \E f : /\ f[0] = Unfilled
                /\ \A i \in 1..Len(o) : f[i] = Filled(f[i - 1], o[i])
                /\ Assign(o) = IF f[Len(o)].open = <<>> THEN f[Len(o)].closed
                               ELSE Append(f[Len(o)].closed, f[Len(o)].open)
<1> DEFINE f == CHOOSE f : f = [i \in 0..Len(o) |-> IF i = 0 THEN Unfilled ELSE Filled(f[i - 1], o[i])]
<1>1. f = [i \in 0..Len(o) |-> IF i = 0 THEN Unfilled ELSE Filled(f[i - 1], o[i])]
  BY FillExists
<1>2. Assign(o) = IF f[Len(o)].open = <<>> THEN f[Len(o)].closed
                  ELSE Append(f[Len(o)].closed, f[Len(o)].open)
  BY DEF Assign, Unfilled, Filled
<1> HIDE DEF f
<1>3. f[0] = Unfilled
  <2>1. 0 \in 0..Len(o)
    OBVIOUS
  <2> QED
    BY <1>1, <2>1
<1>4. ASSUME NEW i \in 1..Len(o)
      PROVE  f[i] = Filled(f[i - 1], o[i])
  <2>1. i \in 0..Len(o) /\ i # 0
    OBVIOUS
  <2> QED
    BY <1>1, <2>1
<1> QED
  BY <1>2, <1>3, <1>4

\* The buckets B are the first m members of o, cut at the points c, none of them empty.
Cuts(B, o, c, m) ==
  /\ c \in [0..Len(B) -> Nat] /\ c[0] = 0 /\ c[Len(B)] = m
  /\ \A i, k \in 0..Len(B) : i < k => c[i] < c[k]
  /\ \A i \in 0..Len(B) : i \leq c[i]
  /\ \A i \in 1..Len(B) : Len(B[i]) = c[i] - c[i - 1]
  /\ \A i \in 1..Len(B) : \A j \in 1..Len(B[i]) : B[i][j] = o[c[i - 1] + j]
Cut(B, o, m) == B \in Seq(Seq(Params)) /\ m \in Nat /\ \E c : Cuts(B, o, c, m)

\* The next piece of the order is a bucket more.
LEMMA CutAppend ==
  ASSUME NEW B, NEW o, NEW m, Cut(B, o, m), NEW e \in Seq(Params), Len(e) > 0,
         \A j \in 1..Len(e) : e[j] = o[m + j]
  PROVE  Cut(Append(B, e), o, m + Len(e))
<1>0. B \in Seq(Seq(Params)) /\ m \in Nat /\ Len(e) \in Nat /\ Len(B) \in Nat
  BY DEF Cut
<1>1. PICK c : Cuts(B, o, c, m)
  BY DEF Cut
<1> DEFINE A == Append(B, e)
           d == [i \in 0..Len(B) + 1 |-> IF i = Len(B) + 1 THEN m + Len(e) ELSE c[i]]
<1>2. A \in Seq(Seq(Params)) /\ Len(A) = Len(B) + 1 /\ A[Len(B) + 1] = e
      /\ \A i \in 1..Len(B) : A[i] = B[i]
  BY <1>0
<1>3. /\ c \in [0..Len(B) -> Nat] /\ c[0] = 0 /\ c[Len(B)] = m
      /\ \A i, k \in 0..Len(B) : i < k => c[i] < c[k]
      /\ \A i \in 0..Len(B) : i \leq c[i]
      /\ \A i \in 1..Len(B) : Len(B[i]) = c[i] - c[i - 1]
      /\ \A i \in 1..Len(B) : \A j \in 1..Len(B[i]) : B[i][j] = o[c[i - 1] + j]
  BY <1>1 DEF Cuts
<1>4. d \in [0..Len(B) + 1 -> Nat] /\ d[0] = 0 /\ d[Len(B) + 1] = m + Len(e)
      /\ \A i \in 0..Len(B) : d[i] = c[i]
  BY <1>0, <1>3
<1> HIDE DEF A, d
<1>5. \A i \in 0..Len(B) : c[i] \in Nat /\ c[i] \leq m
  BY SMTT(40), <1>0, <1>3
<1>6. ASSUME NEW i \in 0..Len(B) + 1, NEW k \in 0..Len(B) + 1, i < k
      PROVE  d[i] < d[k]
  <2>1. i \in 0..Len(B) /\ d[i] = c[i] /\ c[i] \in Nat /\ c[i] \leq m
    BY <1>6, <1>0, <1>4, <1>5
  <2>2. CASE k = Len(B) + 1
    BY <2>1, <2>2, <1>0, <1>4
  <2>3. CASE k # Len(B) + 1
    <3>1. k \in 0..Len(B)
      BY <2>3, <1>0
    <3> QED
      BY <3>1, <2>1, <1>6, <1>3, <1>4
  <2> QED
    BY <2>2, <2>3
<1>7. ASSUME NEW i \in 0..Len(B) + 1
      PROVE  i \leq d[i]
  <2>1. CASE i = Len(B) + 1
    <3>1. Len(B) \leq m
      BY <1>3, <1>0
    <3> QED
      BY <3>1, <2>1, <1>0, <1>4
  <2>2. CASE i # Len(B) + 1
    <3>1. i \in 0..Len(B)
      BY <2>2, <1>0
    <3> QED
      BY <3>1, <1>3, <1>4
  <2> QED
    BY <2>1, <2>2
<1>8. ASSUME NEW i \in 1..Len(B) + 1
      PROVE  Len(A[i]) = d[i] - d[i - 1] /\ \A j \in 1..Len(A[i]) : A[i][j] = o[d[i - 1] + j]
  <2>1. CASE i = Len(B) + 1
    <3>1. A[i] = e /\ d[i] = m + Len(e) /\ d[i - 1] = m
      BY <2>1, <1>0, <1>2, <1>3, <1>4
    <3> QED
      BY <3>1, <1>0
  <2>2. CASE i # Len(B) + 1
    <3>1. i \in 1..Len(B) /\ i \in 0..Len(B) /\ i - 1 \in 0..Len(B)
      BY <2>2, <1>0
    <3>2. A[i] = B[i] /\ d[i] = c[i] /\ d[i - 1] = c[i - 1]
      BY <3>1, <1>2, <1>4
    <3> QED
      BY <3>1, <3>2, <1>3
  <2> QED
    BY <2>1, <2>2
<1>9. Cuts(A, o, d, m + Len(e))
  BY <1>2, <1>4, <1>6, <1>7, <1>8 DEF Cuts
<1> QED
  BY <1>0, <1>2, <1>9 DEF Cut, A

\* compute_bucket_assignment_by_size cuts the parameters in their order.
LEMMA AssignCut ==
  ASSUME NEW o \in Seq(Params)
  PROVE  Cut(Assign(o), o, Len(o))
<1>1. PICK f : /\ f[0] = Unfilled
               /\ \A i \in 1..Len(o) : f[i] = Filled(f[i - 1], o[i])
               /\ Assign(o) = IF f[Len(o)].open = <<>> THEN f[Len(o)].closed
                              ELSE Append(f[Len(o)].closed, f[Len(o)].open)
  BY AssignFill
<1> DEFINE OK(i, b) == /\ b \in Fills /\ Len(b.open) \leq i /\ Cut(b.closed, o, i - Len(b.open))
                       /\ \A j \in 1..Len(b.open) : b.open[j] = o[(i - Len(b.open)) + j]
           S == {i \in 0..Len(o) : OK(i, f[i])}
<1>0. Len(o) \in Nat
  OBVIOUS
<1>2. 0 \in S
  <2>1. Unfilled \in Fills /\ Unfilled.closed = <<>> /\ Unfilled.open = <<>>
    BY CapAssumption DEF Unfilled, Fills
  <2>2. Cuts(<<>>, o, [i \in 0..0 |-> 0], 0)
    BY DEF Cuts
  <2>3. Cut(<<>>, o, 0)
    BY <2>2 DEF Cut
  <2>4. OK(0, Unfilled)
    BY <2>1, <2>3
  <2> HIDE DEF OK
  <2> QED
    BY <2>4, <1>1, <1>0
<1>3. ASSUME NEW i \in 0..Len(o) - 1, i \in S
      PROVE  i + 1 \in S
  <2> DEFINE b == f[i]
             p == o[i + 1]
  <2>0. i \in Nat /\ i + 1 \in 1..Len(o) /\ i + 1 \in 0..Len(o) /\ (i + 1) - 1 = i
    BY <1>0
  <2>1. b \in Fills /\ Len(b.open) \leq i /\ Cut(b.closed, o, i - Len(b.open))
        /\ \A j \in 1..Len(b.open) : b.open[j] = o[(i - Len(b.open)) + j]
    BY <1>3
  <2>2. p \in Params /\ f[i + 1] = Filled(b, p)
    BY <1>1, <2>0
  <2> HIDE DEF b, p
  <2>3. Filled(b, p) \in Fills
    BY <2>1, <2>2, FilledType
  <2>4. b.open \in Seq(Params) /\ Len(b.open) \in Nat
    BY <2>1 DEF Fills
  <2> DEFINE e == Append(b.open, p)
  <2>5. e \in Seq(Params) /\ Len(e) = Len(b.open) + 1 /\ Len(e) > 0
        /\ \A j \in 1..Len(b.open) : e[j] = b.open[j]
    BY <2>2, <2>4
  <2>5b. e[Len(b.open) + 1] = p
    BY <2>2, <2>4
  <2>5c. Len(b.open) \leq i
    BY <2>1
  <2> HIDE DEF OK, S
  <2>5d. i - Len(b.open) \in Nat
    BY <2>0, <2>4, <2>5c
  <2>6. PICK m \in Nat : m = i - Len(b.open)
    BY <2>5d
  <2>7. i = m + Len(b.open) /\ i + 1 = m + Len(e)
    <3>1. Len(e) = Len(b.open) + 1
      BY <2>5
    <3> HIDE DEF e
    <3>2. i \in Nat /\ Len(b.open) \in Nat
      BY <2>0, <2>4
    <3>3. i = m + Len(b.open)
      BY <2>6, <3>2
    <3>4. i + 1 = m + Len(e)
      BY <3>1, <3>2, <3>3
    <3> QED
      BY <3>3, <3>4
  <2>8. \A j \in 1..Len(e) : e[j] = o[m + j]
    <3> SUFFICES ASSUME NEW j \in 1..Len(e)
                 PROVE  e[j] = o[m + j]
      OBVIOUS
    <3>1. CASE j = Len(b.open) + 1
      BY <3>1, <2>5b, <2>7, <2>4, <2>6, <2>0 DEF p
    <3>2. CASE j # Len(b.open) + 1
      <4>1. j \in 1..Len(b.open)
        BY <3>2, <2>5, <2>4
      <4> QED
        BY <4>1, <2>1, <2>5, <2>6
    <3> QED
      BY <3>1, <3>2
  <2> HIDE DEF e
  <2>9. CASE Filled(b, p).closed = Append(b.closed, e) /\ Filled(b, p).open = <<>>
    <3>1. Cut(Append(b.closed, e), o, m + Len(e))
      BY <2>1, <2>5, <2>6, <2>8, CutAppend
    <3>2. Len(<<>>) = 0 /\ (i + 1) - 0 = m + Len(e)
      BY <2>7, <2>0
    <3>3. OK(i + 1, Filled(b, p))
      BY <2>9, <2>3, <3>1, <3>2, <2>0 DEF OK
    <3> QED
      BY <3>3, <2>2, <2>0 DEF S
  <2>10. CASE Filled(b, p).closed = b.closed /\ Filled(b, p).open = e
    <3>1. (i + 1) - Len(e) = m /\ Len(e) \leq i + 1 /\ m = i - Len(b.open)
      BY <2>6, <2>7, <2>5, <2>4, <2>0
    <3>2. OK(i + 1, Filled(b, p))
      BY <2>10, <2>3, <2>1, <2>8, <3>1 DEF OK
    <3> QED
      BY <3>2, <2>2, <2>0 DEF S
  <2> QED
    BY <2>9, <2>10, <2>1, <2>2, FilledType DEF e
<1>4. 0..Len(o) \subseteq S
  <2> HIDE DEF S
  <2> QED
    BY <1>0, <1>2, <1>3, UpTo
<1>5a. OK(Len(o), f[Len(o)])
  <2>1. Len(o) \in 0..Len(o)
    BY <1>0
  <2> QED
    BY <2>1, <1>4
<1>5. PICK b : b = f[Len(o)] /\ OK(Len(o), b)
  BY <1>5a
<1>6. b.open \in Seq(Params) /\ Len(b.open) \in Nat
  BY <1>5 DEF Fills
<1>7. CASE b.open = <<>>
  BY <1>7, <1>5, <1>1, <1>0
<1>8. CASE b.open # <<>>
  <2>0. Len(b.open) \leq Len(o)
    BY <1>5
  <2>0b. Len(o) - Len(b.open) \in Nat
    BY <1>0, <1>6, <2>0
  <2>1. PICK m \in Nat : m = Len(o) - Len(b.open)
    BY <2>0b
  <2>2. Len(b.open) > 0 /\ m + Len(b.open) = Len(o)
    BY <1>8, <1>6, <2>1, <1>0
  <2>3. Cut(b.closed, o, m) /\ \A j \in 1..Len(b.open) : b.open[j] = o[m + j]
    BY <1>5, <2>1
  <2>4. Cut(Append(b.closed, b.open), o, m + Len(b.open))
    BY <2>3, <2>2, <1>6, CutAppend
  <2> QED
    BY <2>4, <2>2, <1>8, <1>5, <1>1
<1> QED
  BY <1>7, <1>8

\* The parameters are numbered.
LEMMA ParamsFacts ==
  /\ IsFiniteSet(Params) /\ Cardinality(Params) \in Nat /\ Cardinality(Params) \geq 1
  /\ Params = 1..Cardinality(Params)
<1>1. Cardinality(Params) \in Nat
  BY ParamsAssumption, FS_CardinalityType
<1> QED
  BY <1>1, ParamsAssumption

\* A permutation of the parameters that is cut has every one of them in one bucket.
LEMMA CutLayout ==
  ASSUME NEW o, NEW B, IsPerm(o), Cut(B, o, Len(o))
  PROVE  IsLayout(B)
<1>1. /\ o \in Seq(Params) /\ Len(o) = Cardinality(Params) /\ Len(o) \in Nat /\ Len(o) \geq 1
      /\ B \in Seq(Seq(Params)) /\ Len(B) \in Nat
  BY ParamsFacts DEF IsPerm, Cut
<1>2. PICK c : Cuts(B, o, c, Len(o))
  BY DEF Cut
<1>3. /\ c \in [0..Len(B) -> Nat] /\ c[0] = 0 /\ c[Len(B)] = Len(o)
      /\ \A i, k \in 0..Len(B) : i < k => c[i] < c[k]
      /\ \A i \in 0..Len(B) : i \leq c[i]
      /\ \A i \in 1..Len(B) : Len(B[i]) = c[i] - c[i - 1]
      /\ \A i \in 1..Len(B) : \A j \in 1..Len(B[i]) : B[i][j] = o[c[i - 1] + j]
  BY <1>2 DEF Cuts
<1>3a. \A i, k \in 0..Len(B) : i < k => c[i] < c[k]
  BY <1>3
<1>4. Len(B) \in 1..Len(o)
  <2>1. Len(B) # 0
    BY <1>1, <1>3
  <2>2. Len(B) \leq c[Len(B)]
    BY <1>1, <1>3
  <2> QED
    BY <2>1, <2>2, <1>1, <1>3
<1>5. ASSUME NEW i \in 1..Len(B)
      PROVE  i \in 0..Len(B) /\ i - 1 \in 0..Len(B) /\ c[i] \in Nat /\ c[i - 1] \in Nat /\ c[i - 1] < c[i]
             /\ c[i] \leq Len(o)
  <2>1. i \in 0..Len(B) /\ i - 1 \in 0..Len(B) /\ Len(B) \in 0..Len(B) /\ i - 1 < i /\ (i = Len(B) \/ i < Len(B))
    BY <1>1
  <2>2. c[i] \in Nat /\ c[i - 1] \in Nat /\ c[i - 1] < c[i]
    BY <2>1, <1>3
  <2>3. c[i] \leq Len(o)
    BY <2>1, <2>2, <1>3, <1>1
  <2> QED
    BY <2>1, <2>2, <2>3
<1>6. ASSUME NEW p \in Params
      PROVE  \E i \in 1..Len(B) : p \in Range(B[i]) /\ \A k \in 1..Len(B) : p \in Range(B[k]) => k = i
  <2>1. PICK j \in 1..Len(o) : o[j] = p
    BY <1>1 DEF IsPerm, Range
  <2> DEFINE T == {i \in 0..Len(B) : j \leq c[i]}
  <2>2. Len(B) \in T
    BY <1>1, <1>3
  <2>3. T \subseteq Nat /\ T # {}
    BY SMTT(40), <2>2, <1>1
  <2> HIDE DEF T
  <2>4. PICK i \in T : \A y \in T : i \leq y
    BY <2>3, Least
  <2>5. i \in 0..Len(B) /\ j \leq c[i] /\ i # 0
    BY <2>4, <1>3 DEF T
  <2>6. i \in 1..Len(B)
    BY <2>5, <1>1
  <2>7. c[i] \in Nat /\ c[i - 1] \in Nat /\ i - 1 \in 0..Len(B)
    BY <2>6, <1>5
  <2>8. c[i - 1] < j
    <3>1. i - 1 \notin T
      BY <2>4, <2>6
    <3> QED
      BY <3>1, <2>7 DEF T
  <2>9. Len(B[i]) = c[i] - c[i - 1] /\ B[i] \in Seq(Params)
    BY <2>6, <1>3, <1>1
  <2>10. j - c[i - 1] \in 1..Len(B[i]) /\ c[i - 1] + (j - c[i - 1]) = j
    BY SMTT(40), <2>5, <2>7, <2>8, <2>9
  <2>11. B[i][j - c[i - 1]] = p
    BY <2>1, <2>6, <2>10, <1>3
  <2>12. p \in Range(B[i])
    BY <2>9, <2>10, <2>11 DEF Range
  <2>13. ASSUME NEW k \in 1..Len(B), p \in Range(B[k])
         PROVE  k = i
    <3>0. B[k] \in Seq(Params) /\ Len(B[k]) = c[k] - c[k - 1]
      BY <1>1, <1>3
    <3>1. PICK t \in 1..Len(B[k]) : B[k][t] = p
      BY <2>13, <3>0 DEF Range
    <3>2. c[k] \in Nat /\ c[k - 1] \in Nat /\ k \in 0..Len(B) /\ k - 1 \in 0..Len(B) /\ c[k] \leq Len(o)
      BY <1>5
    <3>3. o[c[k - 1] + t] = p
      BY <3>1, <1>3
    <3>4a. t \in Nat /\ t \geq 1 /\ t \leq c[k] - c[k - 1]
      BY <3>0, <3>1, <3>2
    <3>4. c[k - 1] + t \in 1..Len(o) /\ c[k - 1] < c[k - 1] + t /\ c[k - 1] + t \leq c[k]
      <4>1. PICK a, b : a = c[k - 1] /\ b = c[k]
        OBVIOUS
      <4>2. a \in Nat /\ b \in Nat /\ b \leq Len(o) /\ t \leq b - a
        BY <4>1, <3>2, <3>4a
      <4>3. a + t \in 1..Len(o) /\ a < a + t /\ a + t \leq b
        BY <4>2, <3>4a, <1>1
      <4> QED
        BY <4>1, <4>3
    <3>5a. \A a, b \in 1..Len(o) : o[a] = o[b] => a = b
      BY DEF IsPerm, Distinct
    <3>5. c[k - 1] + t = j
      BY <2>1, <3>3, <3>4, <3>5a
    <3>6. c[k - 1] < j /\ j \leq c[k]
      BY <3>4, <3>5
    <3>7. ~(k < i)
      <4> SUFFICES ASSUME k < i
                   PROVE  FALSE
        OBVIOUS
      <4>1. k = i - 1 \/ k < i - 1
        BY <2>6, <1>1
      <4>2. k < i - 1 => c[k] < c[i - 1]
        BY ONLY <1>3a, <3>2, <2>7
      <4>3. c[k] \leq c[i - 1]
        BY ONLY SMTT(40), <4>1, <4>2, <3>2, <2>7
      <4> QED
        BY <4>3, <3>6, <2>8, <3>2, <2>7
    <3>8. ~(i < k)
      <4> SUFFICES ASSUME i < k
                   PROVE  FALSE
        OBVIOUS
      <4>1. i = k - 1 \/ i < k - 1
        BY <2>6, <1>1
      <4>2. i < k - 1 => c[i] < c[k - 1]
        BY ONLY <1>3a, <3>2, <2>5
      <4>3. c[i] \leq c[k - 1]
        BY ONLY SMTT(40), <4>1, <4>2, <3>2, <2>7
      <4> QED
        BY SMTT(40), <4>3, <3>6, <2>5, <3>2, <2>7
    <3> QED
      BY <3>7, <3>8, <2>6, <1>1
  <2> QED
    BY <2>6, <2>12, <2>13
<1> QED
  BY <1>1, <1>4, <1>6 DEF IsLayout

\* Joined again, the buckets give the order they were cut from.
LEMMA CutFlatten ==
  ASSUME NEW o \in Seq(Params), NEW B, Cut(B, o, Len(o)), Len(B) > 0
  PROVE  FlattenSeq(B) = o
<1>1. B \in Seq(Seq(Params)) /\ Len(B) \in Nat /\ Len(o) \in Nat
  BY DEF Cut
<1>2. PICK c : Cuts(B, o, c, Len(o))
  BY DEF Cut
<1>3. /\ c \in [0..Len(B) -> Nat] /\ c[0] = 0 /\ c[Len(B)] = Len(o)
      /\ \A i, k \in 0..Len(B) : i < k => c[i] < c[k]
      /\ \A i \in 1..Len(B) : Len(B[i]) = c[i] - c[i - 1]
      /\ \A i \in 1..Len(B) : \A j \in 1..Len(B[i]) : B[i][j] = o[c[i - 1] + j]
  BY <1>2 DEF Cuts
<1> DEFINE D == Seq(Params)
           s == [i \in 1..Len(B) |-> [b \in D |-> IF i = 1 THEN B[i] ELSE b \o B[i]]]
<1>4. s \in [1..Len(B) -> [D -> D]]
  <2>1. \A i \in 1..Len(B) : B[i] \in D
    BY <1>1
  <2>2. \A b, e \in D : b \o e \in D
    OBVIOUS
  <2> HIDE DEF D
  <2> QED
    BY <2>1, <2>2
<1>5. \A i \in 1..Len(B) : \A b \in D : s[i][b] = IF i = 1 THEN B[i] ELSE b \o B[i]
  OBVIOUS
<1>6. <<>> \in D
  OBVIOUS
<1> HIDE DEF s, D
<1>7. PICK e : Recurses(D, <<>>, Len(B), s, e)
  BY <1>1, <1>4, <1>6, Recursion
<1>8. \E f : f = [i \in 1..Len(B) |-> IF i = 1 THEN B[i] ELSE f[i - 1] \o B[i]]
  <2> DEFINE f == [i \in 1..Len(B) |-> e[i]]
  <2>0. e \in [0..Len(B) -> D] /\ \A i \in 1..Len(B) : e[i] = s[i][e[i - 1]]
    BY <1>7 DEF Recurses
  <2>1. ASSUME NEW i \in 1..Len(B)
        PROVE  f[i] = IF i = 1 THEN B[i] ELSE f[i - 1] \o B[i]
    <3>1. i - 1 \in 0..Len(B) /\ (i # 1 => i - 1 \in 1..Len(B))
      BY <1>1
    <3>2. e[i - 1] \in D
      BY <3>1, <2>0
    <3>3. f[i] = e[i] /\ (i # 1 => f[i - 1] = e[i - 1])
      BY <3>1
    <3> HIDE DEF f
    <3>4. e[i] = IF i = 1 THEN B[i] ELSE e[i - 1] \o B[i]
      BY <3>2, <2>0, <1>5
    <3> QED
      BY <3>3, <3>4
  <2>2. f = [i \in 1..Len(B) |-> f[i]]
    OBVIOUS
  <2> HIDE DEF f
  <2>3. f = [i \in 1..Len(B) |-> IF i = 1 THEN B[i] ELSE f[i - 1] \o B[i]]
    BY ZenonT(40), <2>1, <2>2
  <2> QED
    BY <2>3
<1> DEFINE f == CHOOSE f : f = [i \in 1..Len(B) |-> IF i = 1 THEN B[i] ELSE f[i - 1] \o B[i]]
<1>9. f = [i \in 1..Len(B) |-> IF i = 1 THEN B[i] ELSE f[i - 1] \o B[i]]
  BY ZenonT(40), <1>8
<1>10. FlattenSeq(B) = f[Len(B)]
  BY <1>1 DEF FlattenSeq
<1> HIDE DEF f
<1>11. \A i \in 1..Len(B) : f[i] = IF i = 1 THEN B[i] ELSE f[i - 1] \o B[i]
  BY <1>9
<1> DEFINE OK(i) == i = 0 \/ (f[i] \in D /\ Len(f[i]) = c[i] /\ \A j \in 1..Len(f[i]) : f[i][j] = o[j])
           S == {i \in 0..Len(B) : OK(i)}
<1>12. 0 \in S
  BY <1>1
<1>13. ASSUME NEW i \in 0..Len(B) - 1, i \in S
       PROVE  i + 1 \in S
  <2>0. i + 1 \in 1..Len(B) /\ i \in 0..Len(B) /\ (i + 1) - 1 = i /\ i + 1 \in 0..Len(B) /\ i \in Nat
    BY <1>1
  <2>1. B[i + 1] \in Seq(Params) /\ Len(B[i + 1]) = c[i + 1] - c[i]
        /\ (\A j \in 1..Len(B[i + 1]) : B[i + 1][j] = o[c[i] + j])
        /\ c[i] \in Nat /\ c[i + 1] \in Nat
    <3> DEFINE k == i + 1
    <3>1. k \in 1..Len(B) /\ k - 1 = i
      BY <2>0
    <3> HIDE DEF k
    <3>2. B[k] \in Seq(Params) /\ Len(B[k]) = c[k] - c[k - 1]
          /\ \A j \in 1..Len(B[k]) : B[k][j] = o[c[k - 1] + j]
      BY <3>1, <1>1, <1>3
    <3>3. c[i] \in Nat /\ c[i + 1] \in Nat
      BY <2>0, <1>3
    <3> QED
      BY <3>1, <3>2, <3>3 DEF k
  <2>2. CASE i = 0
    <3>1. f[i + 1] = B[i + 1]
      BY <2>2, <2>0, <1>11
    <3>2. c[i] = 0
      BY <2>2, <1>3
    <3>3. OK(i + 1)
      BY <3>1, <3>2, <2>1 DEF D
    <3> QED
      BY <3>3, <2>0
  <2>3. CASE i # 0
    <3>1. f[i + 1] = f[i] \o B[i + 1]
      <4>1. i + 1 # 1
        BY <2>3, <2>0
      <4> QED
        BY <4>1, <2>0, <1>11
    <3>2. f[i] \in Seq(Params) /\ Len(f[i]) = c[i] /\ \A j \in 1..Len(f[i]) : f[i][j] = o[j]
      BY <2>3, <1>13 DEF D
    <3>3. PICK x, y : x = f[i] /\ y = B[i + 1]
      OBVIOUS
    <3>4. x \in Seq(Params) /\ y \in Seq(Params) /\ Len(x) = c[i] /\ Len(y) = c[i + 1] - c[i]
          /\ (\A j \in 1..Len(x) : x[j] = o[j]) /\ \A j \in 1..Len(y) : y[j] = o[c[i] + j]
      BY <3>2, <3>3, <2>1
    <3>5. x \o y \in Seq(Params) /\ Len(x \o y) = Len(x) + Len(y)
          /\ \A j \in 1..Len(x) + Len(y) : (x \o y)[j] = IF j \leq Len(x) THEN x[j] ELSE y[j - Len(x)]
      <4>1. x \in Seq(Params) /\ y \in Seq(Params)
        BY <3>4
      <4> QED
        BY <4>1, ConcatProperties
    <3>6. Len(x) + Len(y) = c[i + 1] /\ Len(x) \in Nat /\ Len(y) \in Nat
      BY <3>4, <2>1
    <3>7. ASSUME NEW j \in 1..Len(x) + Len(y)
          PROVE  (x \o y)[j] = o[j]
      <4>1. CASE j \leq Len(x)
        BY <4>1, <3>4, <3>5, <3>6
      <4>2. CASE ~(j \leq Len(x))
        <5>1. j - Len(x) \in 1..Len(y) /\ c[i] + (j - Len(x)) = j
          BY SMTT(40), <4>2, <3>4, <3>6, <2>1
        <5> QED
          BY <5>1, <4>2, <3>4, <3>5
      <4> QED
        BY <4>1, <4>2
    <3>8. f[i + 1] = x \o y
      BY <3>1, <3>3
    <3>9. OK(i + 1)
      BY <3>5, <3>6, <3>7, <3>8 DEF D
    <3> QED
      BY <3>9, <2>0
  <2> QED
    BY <2>2, <2>3
<1>14. 0..Len(B) \subseteq S
  <2> HIDE DEF S
  <2> QED
    BY <1>1, <1>12, <1>13, UpTo
<1>15. OK(Len(B)) /\ Len(B) # 0
  <2>1. Len(B) \in 0..Len(B)
    BY <1>1
  <2> QED
    BY SMTT(40), <2>1, <1>14, <1>1
<1>16. f[Len(B)] \in Seq(Params) /\ Len(f[Len(B)]) = Len(o) /\ \A j \in 1..Len(o) : f[Len(B)][j] = o[j]
  BY <1>15, <1>3 DEF D
<1>17. f[Len(B)] = o
  BY <1>16, SeqEqual
<1> QED
  BY <1>10, <1>17

\* Cut at the sizes of its buckets, the order gives the buckets again.
LEMMA CutUnflatten ==
  ASSUME NEW o \in Seq(Params), NEW B, Cut(B, o, Len(o))
  PROVE  Unflatten(o, Sizes(B)) = B
<1>1. B \in Seq(Seq(Params)) /\ Len(B) \in Nat /\ Len(o) \in Nat
  BY DEF Cut
<1>2. PICK c : Cuts(B, o, c, Len(o))
  BY DEF Cut
<1>3. /\ c \in [0..Len(B) -> Nat] /\ c[0] = 0 /\ c[Len(B)] = Len(o)
      /\ \A i, k \in 0..Len(B) : i < k => c[i] < c[k]
      /\ \A i \in 1..Len(B) : Len(B[i]) = c[i] - c[i - 1]
      /\ \A i \in 1..Len(B) : \A j \in 1..Len(B[i]) : B[i][j] = o[c[i - 1] + j]
  BY <1>2 DEF Cuts
<1> DEFINE z == Sizes(B)
<1>4. \A i \in 1..Len(B) : z[i] = Len(B[i])
  BY DEF Sizes
<1>5. Len(z) = Len(B) /\ \A i \in 1..Len(B) : z[i] \in Nat
  <2>1. \A i \in 1..Len(B) : Len(B[i]) \in Nat
    BY <1>1
  <2>2. z \in [1..Len(B) -> Nat]
    BY <2>1 DEF Sizes
  <2> HIDE DEF z
  <2>3. z \in Seq(Nat) /\ Len(z) = Len(B)
    BY <2>2, <1>1, FunctionSeq
  <2> QED
    BY <2>3, <1>4, <2>1
<1> HIDE DEF z
<1>6. ASSUME NEW i \in 1..Len(B)
      PROVE  i \in 0..Len(B) /\ i - 1 \in 0..Len(B) /\ c[i] \in Nat /\ c[i - 1] \in Nat /\ c[i] = c[i - 1] + z[i]
  <2>1. i \in 0..Len(B) /\ i - 1 \in 0..Len(B)
    BY <1>1
  <2>2. c[i] \in Nat /\ c[i - 1] \in Nat
    BY <2>1, <1>3
  <2>3. z[i] = c[i] - c[i - 1]
    BY <1>3, <1>4
  <2> QED
    BY <2>1, <2>2, <2>3
<1>7. c = [i \in 0..Len(z) |-> IF i = 0 THEN 0 ELSE c[i - 1] + z[i]]
  <2>1. ASSUME NEW i \in 0..Len(B)
        PROVE  c[i] = IF i = 0 THEN 0 ELSE c[i - 1] + z[i]
    <3>1. i = 0 \/ i \in 1..Len(B)
      BY <1>1
    <3> QED
      BY <3>1, <1>3, <1>6
  <2>2. c = [i \in 0..Len(B) |-> c[i]]
    BY <1>3
  <2> QED
    BY <2>1, <2>2, <1>5
<1> DEFINE e == CHOOSE e : e = [i \in 0..Len(z) |-> IF i = 0 THEN 0 ELSE e[i - 1] + z[i]]
<1>8. e = [i \in 0..Len(z) |-> IF i = 0 THEN 0 ELSE e[i - 1] + z[i]]
  BY <1>7
<1>9. Unflatten(o, z) = [i \in 1..Len(z) |-> SubSeq(o, e[i - 1] + 1, e[i])]
  BY DEF Unflatten
<1> HIDE DEF e
<1>10. \A i \in 0..Len(B) : e[i] = IF i = 0 THEN 0 ELSE e[i - 1] + z[i]
  BY <1>8, <1>5
<1> DEFINE S == {i \in 0..Len(B) : e[i] = c[i]}
<1>11. 0 \in S
  <2>1. 0 \in 0..Len(B)
    BY ONLY <1>1
  <2>2. e[0] = 0
    BY ONLY <1>10, <2>1
  <2> QED
    BY <2>1, <2>2, <1>3
<1>12. ASSUME NEW i \in 0..Len(B) - 1, i \in S
       PROVE  i + 1 \in S
  <2>1. i + 1 \in 1..Len(B) /\ i + 1 \in 0..Len(B) /\ (i + 1) - 1 = i /\ i + 1 # 0
    BY <1>1
  <2>2. e[i + 1] = e[i] + z[i + 1]
    BY <2>1, <1>10
  <2>3. c[i + 1] = c[i] + z[i + 1]
    BY <2>1, <1>6
  <2> QED
    BY <2>1, <2>2, <2>3, <1>12
<1>13. 0..Len(B) \subseteq S
  <2> HIDE DEF S
  <2> QED
    BY <1>1, <1>11, <1>12, UpTo
<1>14. ASSUME NEW i \in 1..Len(B)
       PROVE  SubSeq(o, e[i - 1] + 1, e[i]) = B[i]
  <2>1. e[i - 1] = c[i - 1] /\ e[i] = c[i]
    BY <1>6, <1>13
  <2>2. B[i] \in Seq(Params) /\ Len(B[i]) = c[i] - c[i - 1] /\ Len(B[i]) \in Nat
        /\ \A j \in 1..Len(B[i]) : B[i][j] = o[c[i - 1] + j]
    BY <1>1, <1>3
  <2>3. PICK a \in Nat, b \in Nat : a = c[i - 1] /\ b = c[i]
    BY <1>6
  <2>4. a \leq b /\ b \leq Len(o)
    <3>1. b - a \in Nat
      BY <2>2, <2>3
    <3>2. i = Len(B) \/ i < Len(B)
      BY <1>1
    <3>3. b \leq Len(o)
      <4>1. CASE i = Len(B)
        BY <4>1, <2>3, <1>3, <1>1
      <4>2. CASE i < Len(B)
        <5>1. i \in 0..Len(B) /\ Len(B) \in 0..Len(B)
          BY <1>1
        <5>2. c[i] < c[Len(B)]
          BY <5>1, <4>2, <1>3
        <5> QED
          BY <5>2, <2>3, <1>3, <1>1
      <4> QED
        BY <3>2, <4>1, <4>2
    <3> QED
      BY <3>1, <3>3
  <2>5. SubSeq(o, a + 1, b) \in Seq(Params) /\ Len(SubSeq(o, a + 1, b)) = b - a
        /\ \A j \in 1..b - a : SubSeq(o, a + 1, b)[j] = o[a + j]
    <3>1. a + 1 \in 1..Len(o) + 1 /\ b \in a..Len(o)
      BY <2>4, <1>1
    <3>2. o \in Seq(Params) /\ a + 1 \in Nat /\ (b - (a + 1)) + 1 = b - a
      OBVIOUS
    <3>3. \A j \in 1..b - a : ((a + 1) + j) - 1 = a + j /\ a + j \in 1..Len(o)
      BY <2>4, <1>1
    <3> QED
      BY <3>1, <3>2, <3>3, <2>4
  <2>6. Len(B[i]) = b - a /\ \A j \in 1..b - a : B[i][j] = o[a + j]
    BY <2>2, <2>3
  <2>7. SubSeq(o, a + 1, b) = B[i]
    <3>1. PICK u, v : u = SubSeq(o, a + 1, b) /\ v = B[i]
      OBVIOUS
    <3>2. u \in Seq(Params) /\ v \in Seq(Params) /\ Len(u) = b - a /\ Len(v) = b - a
      BY <3>1, <2>2, <2>5, <2>6
    <3>3. \A j \in 1..b - a : u[j] = v[j]
      BY <3>1, <2>5, <2>6
    <3>4. Len(u) = Len(v) /\ \A j \in 1..Len(u) : u[j] = v[j]
      BY <3>2, <3>3
    <3>5. u = v
      BY <3>2, <3>4, SeqEqual
    <3> QED
      BY <3>1, <3>5
  <2> QED
    BY <2>1, <2>3, <2>7
<1>15. B = [i \in 1..Len(B) |-> B[i]]
  BY <1>1
<1> QED
  BY <1>5, <1>9, <1>14, <1>15 DEF z

\* The layout that rank 0 computes is a sound one.
LEMMA PermSound ==
  ASSUME NEW o, IsPerm(o)
  PROVE  Sound(Assign(o)) /\ FlattenSeq(Assign(o)) = o
<1>1. o \in Seq(Params)
  BY DEF IsPerm
<1>2. Cut(Assign(o), o, Len(o))
  BY <1>1, AssignCut
<1>3. IsLayout(Assign(o))
  BY <1>2, CutLayout
<1>4. Len(Assign(o)) > 0
  BY <1>3 DEF IsLayout
<1>5. FlattenSeq(Assign(o)) = o
  BY <1>1, <1>2, <1>4, CutFlatten
<1>6. Unflatten(o, Sizes(Assign(o))) = Assign(o)
  BY <1>1, <1>2, CutUnflatten
<1> QED
  BY <1>3, <1>5, <1>6 DEF Sound

\* The buckets that DDP builds the Reducer with have every parameter in one of them.
LEMMA InitialLayout == IsLayout(InitialBuckets)
<1> DEFINE o == [p \in Params |-> p]
           A == Assign(o)
           N == Cardinality(Params)
<1>0. N \in Nat /\ N \geq 1 /\ Params = 1..N
  BY ParamsFacts
<1>1. IsPerm(o)
  <2>1. o \in [1..N -> Params]
    BY <1>0
  <2>2. o \in Seq(Params) /\ Len(o) = N
    BY <2>1, <1>0, FunctionSeq
  <2>3. Range(o) = Params
    BY DEF Range
  <2>4. Distinct(o)
    BY <2>2, <1>0 DEF Distinct
  <2> QED
    BY <2>2, <2>3, <2>4 DEF IsPerm
<1>2. IsLayout(A)
  BY <1>1, PermSound DEF Sound
<1>3. InitialBuckets = Reverse(A)
  BY DEF InitialBuckets
<1> HIDE DEF o, A
<1>4. A \in Seq(Seq(Params)) /\ Len(A) \in 1..N /\ Len(A) \in Nat
  BY <1>2, <1>0 DEF IsLayout
<1> DEFINE B == Reverse(A)
<1>5. \A i \in 1..Len(A) : (Len(A) - i) + 1 \in 1..Len(A) /\ B[i] = A[(Len(A) - i) + 1]
  BY <1>4 DEF Reverse
<1>6. B \in [1..Len(A) -> Seq(Params)]
  BY <1>4, <1>5 DEF Reverse
<1> HIDE DEF B
<1>7. B \in Seq(Seq(Params)) /\ Len(B) = Len(A)
  BY <1>4, <1>6, FunctionSeq
<1>8. ASSUME NEW p \in Params
      PROVE  \E i \in 1..Len(B) : p \in Range(B[i]) /\ \A k \in 1..Len(B) : p \in Range(B[k]) => k = i
  <2>1. PICK a \in 1..Len(A) : p \in Range(A[a]) /\ \A k \in 1..Len(A) : p \in Range(A[k]) => k = a
    BY <1>2 DEF IsLayout
  <2>1a. (Len(A) - a) + 1 \in 1..Len(A)
    BY <1>4
  <2>2. PICK i \in 1..Len(A) : i = (Len(A) - a) + 1
    BY <2>1a
  <2>3. (Len(A) - i) + 1 = a
    BY <2>2, <1>4
  <2>4. p \in Range(B[i])
    BY <2>1, <2>3, <1>5
  <2>5. ASSUME NEW k \in 1..Len(A), p \in Range(B[k])
        PROVE  k = i
    <3>1. (Len(A) - k) + 1 = a
      BY <2>5, <2>1, <1>5
    <3> QED
      BY <3>1, <2>3, <1>4
  <2> QED
    BY <2>4, <2>5, <1>7
<1> QED
  BY <1>3, <1>4, <1>7, <1>8 DEF IsLayout, B

-----------------------------------------------------------------------------
(* The orders in which parameters become ready.                             *)

\* Parameters pushed to rebuilt_param_indices_ after others stay distinct when they are new.
LEMMA DistinctConcat ==
  ASSUME NEW s \in Seq(Params), NEW t \in Seq(Params), Distinct(s), Distinct(t),
         Range(s) \cap Range(t) = {}
  PROVE  s \o t \in Seq(Params) /\ Distinct(s \o t) /\ Range(s \o t) = Range(s) \cup Range(t)
<1> DEFINE u == s \o t
           n == Len(s)
           m == Len(t)
<1>1. u \in Seq(Params) /\ Len(u) = n + m
      /\ \A i \in 1..n + m : u[i] = IF i \leq n THEN s[i] ELSE t[i - n]
  BY ConcatProperties
<1>2. n \in Nat /\ m \in Nat
  OBVIOUS
<1>3. (\A i \in 1..n : s[i] \in Range(s)) /\ (\A i \in 1..m : t[i] \in Range(t))
      /\ (\A x \in Range(s) : \E i \in 1..n : s[i] = x) /\ (\A x \in Range(t) : \E i \in 1..m : t[i] = x)
  BY DEF Range
<1>4. \A x \in Range(u) : \E i \in 1..n + m : u[i] = x
  BY <1>1 DEF Range
<1>4b. \A i \in 1..n + m : u[i] \in Range(u)
  BY <1>1 DEF Range
<1> HIDE DEF u, n, m
<1>5. \A i \in 1..n + m : \/ i \in 1..n /\ u[i] = s[i]
                          \/ ~(i \leq n) /\ i - n \in 1..m /\ u[i] = t[i - n]
  BY <1>1, <1>2
<1>6. ASSUME NEW a \in 1..n + m, NEW b \in 1..n + m, u[a] = u[b]
      PROVE  a = b
  <2>1. CASE a \in 1..n /\ u[a] = s[a]
    <3>1. b \in 1..n /\ u[b] = s[b]
      <4>1. u[b] \in Range(s)
        BY <2>1, <1>3, <1>6
      <4>2. ~(b - n \in 1..m /\ u[b] = t[b - n])
        BY <4>1, <1>3
      <4> QED
        BY <4>2, <1>5
    <3> QED
      BY <2>1, <3>1, <1>6 DEF Distinct, n
  <2>2. CASE ~(a \leq n) /\ a - n \in 1..m /\ u[a] = t[a - n]
    <3>1. b - n \in 1..m /\ u[b] = t[b - n]
      <4>1. u[b] \in Range(t)
        BY <2>2, <1>3, <1>6
      <4>2. ~(b \in 1..n /\ u[b] = s[b])
        BY <4>1, <1>3
      <4> QED
        BY <4>2, <1>5
    <3>2. a - n = b - n
      BY <2>2, <3>1, <1>6 DEF Distinct, m
    <3> QED
      BY <3>2, <1>2
  <2> QED
    BY <2>1, <2>2, <1>5
<1>7. Distinct(u)
  BY <1>1, <1>6 DEF Distinct
<1>8. Range(u) = Range(s) \cup Range(t)
  <2>1. ASSUME NEW x \in Range(u)
        PROVE  x \in Range(s) \cup Range(t)
    BY <1>3, <1>4, <1>5
  <2>2. ASSUME NEW x \in Range(s)
        PROVE  x \in Range(u)
    <3>1. PICK i \in 1..n : s[i] = x
      BY <1>3
    <3>2. i \in 1..n + m /\ i \leq n
      BY <1>2
    <3> QED
      BY <3>1, <3>2, <1>1, <1>4b
  <2>3. ASSUME NEW x \in Range(t)
        PROVE  x \in Range(u)
    <3>1. PICK i \in 1..m : t[i] = x
      BY <1>3
    <3>2. n + i \in 1..n + m /\ ~(n + i \leq n) /\ (n + i) - n = i
      BY <1>2
    <3> QED
      BY <3>1, <3>2, <1>1, <1>4b
  <2> QED
    BY <2>1, <2>2, <2>3
<1> QED
  BY <1>1, <1>7, <1>8 DEF u

\* One parameter is pushed.
LEMMA DistinctOne ==
  ASSUME NEW p \in Params
  PROVE  <<p>> \in Seq(Params) /\ Distinct(<<p>>) /\ Range(<<p>>) = {p}
<1>1. <<p>> \in Seq(Params) /\ Len(<<p>>) = 1
  OBVIOUS
<1>2. DOMAIN <<p>> = {1} /\ <<p>>[1] = p
  OBVIOUS
<1>3. Range(<<p>>) = {p}
  BY <1>2 DEF Range
<1> QED
  BY <1>1, <1>3 DEF Distinct

\* None is.
LEMMA DistinctNone ==
  <<>> \in Seq(Params) /\ Distinct(<<>>) /\ Range(<<>>) = {}
  BY DEF Distinct, Range

\* All parameters, each of them once.
LEMMA DistinctPerm ==
  ASSUME NEW o \in Seq(Params), Distinct(o), Range(o) = Params
  PROVE  IsPerm(o)
<1>1. o \in [1..Len(o) -> Params] /\ Len(o) \in Nat
  OBVIOUS
<1>2. \A p \in Params : \E i \in 1..Len(o) : o[i] = p
  BY DEF Range
<1>3a. o \in Surjection(1..Len(o), Params)
  BY <1>1, <1>2 DEF Surjection
<1>3b. o \in Injection(1..Len(o), Params)
  BY <1>1 DEF Distinct, Injection, IsInjective
<1>3. o \in Bijection(1..Len(o), Params)
  BY <1>3a, <1>3b DEF Bijection
<1>4. Cardinality(Params) = Len(o)
  BY <1>1, <1>3, FS_CountingElements DEF ExistsBijection
<1> QED
  BY <1>4 DEF IsPerm

\* unused_parameters_ has each unused parameter once.
LEMMA AscendingFacts ==
  ASSUME NEW S, S \subseteq Params
  PROVE  Ascending(S) \in Seq(Params) /\ Distinct(Ascending(S)) /\ Range(Ascending(S)) = S
<1> DEFINE N == Cardinality(Params)
           D == Seq(Params)
           s == [i \in 1..N |-> [b \in D |-> IF i \in S THEN Append(b, i) ELSE b]]
<1>0. N \in Nat /\ Params = 1..N
  BY ParamsFacts
<1>1. s \in [1..N -> [D -> D]]
  BY <1>0
<1>2. \A i \in 1..N : \A b \in D : s[i][b] = IF i \in S THEN Append(b, i) ELSE b
  OBVIOUS
<1>3. <<>> \in D
  OBVIOUS
<1> HIDE DEF s, D, N
<1>4. PICK e : Recurses(D, <<>>, N, s, e)
  BY <1>0, <1>1, <1>3, Recursion
<1>5. e \in [0..N -> D] /\ e[0] = <<>> /\ \A i \in 1..N : e[i] = s[i][e[i - 1]]
  BY <1>4 DEF Recurses
<1>6. \E f : f = [i \in 0..N |-> IF i = 0 THEN <<>> ELSE IF i \in S THEN Append(f[i - 1], i) ELSE f[i - 1]]
  <2>1. ASSUME NEW i \in 0..N
        PROVE  e[i] = IF i = 0 THEN <<>> ELSE IF i \in S THEN Append(e[i - 1], i) ELSE e[i - 1]
    <3>1. CASE i = 0
      BY <3>1, <1>5
    <3>2. CASE i # 0
      <4>1. i \in 1..N /\ i - 1 \in 0..N
        BY <3>2, <1>0
      <4>2. e[i - 1] \in D
        BY <4>1, <1>5
      <4> QED
        BY <3>2, <4>1, <4>2, <1>2, <1>5
    <3> QED
      BY <3>1, <3>2
  <2>2. e = [i \in 0..N |-> e[i]]
    BY <1>5
  <2>3. e = [i \in 0..N |-> IF i = 0 THEN <<>> ELSE IF i \in S THEN Append(e[i - 1], i) ELSE e[i - 1]]
    BY ZenonT(40), <2>1, <2>2
  <2> QED
    BY <2>3
<1> DEFINE f == CHOOSE f : f = [i \in 0..N |-> IF i = 0 THEN <<>> ELSE IF i \in S THEN Append(f[i - 1], i) ELSE f[i - 1]]
<1>7. f = [i \in 0..N |-> IF i = 0 THEN <<>> ELSE IF i \in S THEN Append(f[i - 1], i) ELSE f[i - 1]]
  BY ZenonT(40), <1>6
<1>8. Ascending(S) = f[N]
  BY DEF Ascending, N
<1> HIDE DEF f
<1>9. \A i \in 0..N : f[i] = IF i = 0 THEN <<>> ELSE IF i \in S THEN Append(f[i - 1], i) ELSE f[i - 1]
  BY <1>7
<1> DEFINE OK(i, x) == x \in Seq(Params) /\ Distinct(x) /\ Range(x) = S \cap (1..i)
           T == {i \in 0..N : OK(i, f[i])}
<1>10. 0 \in T
  <2>1. f[0] = <<>> /\ 0 \in 0..N
    BY <1>9, <1>0
  <2>2. S \cap (1..0) = {}
    OBVIOUS
  <2> QED
    BY <2>1, <2>2, DistinctNone
<1>11. ASSUME NEW i \in 0..N - 1, i \in T
       PROVE  i + 1 \in T
  <2>0. i + 1 \in 0..N /\ i + 1 # 0 /\ (i + 1) - 1 = i /\ i \in Nat /\ i + 1 \in Params
    BY <1>0
  <2>1. PICK x : x = f[i]
    OBVIOUS
  <2>2. x \in Seq(Params) /\ Distinct(x) /\ Range(x) = S \cap (1..i)
    BY <1>11, <2>1
  <2>3. CASE i + 1 \in S
    <3>1. f[i + 1] = Append(x, i + 1)
      BY <2>0, <2>1, <2>3, <1>9
    <3>2. Append(x, i + 1) = x \o <<i + 1>>
      BY <2>0, <2>2, AppendIsConcat
    <3>3. <<i + 1>> \in Seq(Params) /\ Distinct(<<i + 1>>) /\ Range(<<i + 1>>) = {i + 1}
      BY <2>0, DistinctOne
    <3>4. i + 1 \notin 1..i
      BY <2>0
    <3>5. PICK y : y = <<i + 1>>
      OBVIOUS
    <3>6. x \o y \in Seq(Params) /\ Distinct(x \o y) /\ Range(x \o y) = Range(x) \cup Range(y)
      <4>1. y \in Seq(Params) /\ Distinct(y) /\ Range(x) \cap Range(y) = {}
        BY <3>3, <3>4, <3>5, <2>2
      <4>2. x \in Seq(Params) /\ Distinct(x)
        BY <2>2
      <4> QED
        BY <4>1, <4>2, DistinctConcat
    <3>7. S \cap (1..i + 1) = (S \cap (1..i)) \cup {i + 1}
      BY <2>0, <2>3
    <3>8. OK(i + 1, f[i + 1])
      BY <3>1, <3>2, <3>3, <3>5, <3>6, <3>7, <2>2
    <3> QED
      BY <3>8, <2>0
  <2>4. CASE i + 1 \notin S
    <3>1. f[i + 1] = x
      BY <2>0, <2>1, <2>4, <1>9
    <3>2. S \cap (1..i + 1) = S \cap (1..i)
      BY <2>0, <2>4
    <3> QED
      BY <3>1, <3>2, <2>2, <2>0
  <2> QED
    BY <2>3, <2>4
<1>12. 0..N \subseteq T
  <2> HIDE DEF T
  <2> QED
    BY <1>0, <1>10, <1>11, UpTo
<1>13. OK(N, f[N])
  <2>1. N \in 0..N
    BY <1>0
  <2> QED
    BY <2>1, <1>12
<1>14. S \cap (1..N) = S
  BY <1>0
<1> QED
  BY <1>8, <1>13, <1>14

-----------------------------------------------------------------------------
(* The collectives that the Reducer's methods issue.                        *)

\* The collectives of the round are the buckets of the rank, with the used map where
\* it is reduced with the last of them.
InBuckets(P, L, R, n) ==
  /\ ~Rebuilds(P, Rounds(R, n))
  /\ RoundSigs(P, L, Rounds(R, n)) =
       IF P.mode = "unused" THEN Append(BucketSigs(R.buckets), UsedSig) ELSE BucketSigs(R.buckets)

\* What the methods may not lose of the types.
Sane(P, R) ==
  /\ DOMAIN R = Fields /\ IsLayout(R.buckets)
  /\ R.view \in [Params -> Given(P)]
  /\ R.next \in 1..Len(R.buckets) + 1
  /\ R.ready \subseteq Params /\ R.unused \subseteq Params /\ R.used \subseteq Params
  /\ R.hooks \in [Params -> 0..2] /\ R.left \in [Params -> 0..2]
  /\ R.callback \in {"none", "delay", "finalize"}
  /\ R.order \in Seq(Params)
  /\ R.finalize \in BOOLEAN /\ R.marked \in BOOLEAN /\ R.rebuilt \in BOOLEAN

\* What a hook leaves alone.
Carried(R, Q) ==
  /\ Q.iterations = R.iterations /\ Q.expect = R.expect /\ Q.buckets = R.buckets
  /\ Q.unused = R.unused /\ Q.reduced = R.reduced /\ Q.rebuilt = R.rebuilt
  /\ Q.plan = R.plan /\ Q.done = R.done

\* The reduction is under way: the buckets before the next one are complete and issued.
Underway(P, R) ==
  /\ \A i \in 1..R.next - 1 : Complete(R, i)
  /\ R.next \leq Len(R.buckets) => ~Complete(R, R.next)
  /\ R.callback = IF R.next > Len(R.buckets) THEN "finalize" ELSE "none"
  /\ Issued(R) = IF P.mode = "unused" /\ R.next > Len(R.buckets) THEN R.next ELSE R.next - 1

\* Nothing is marked in the backward yet, or some of it is.
Fresh(R) == R.ready = {} /\ R.next = 1 /\ R.callback = "none" /\ Issued(R) = 0
Moving(P, R) == IF R.finalize THEN Underway(P, R) ELSE Fresh(R)

\* mark_bucket_ready stops at a bucket that is not complete, or after the last.
LEMMA StopExists ==
  ASSUME NEW R, NEW n \in Nat, NEW a \in 1..n + 1
  PROVE  \E j \in a..n + 1 : /\ j > n \/ ~Complete(R, j)
                             /\ \A k \in a..j - 1 : Complete(R, k)
<1> DEFINE T == {j \in a..n + 1 : j > n \/ ~Complete(R, j)}
<1>1. T \subseteq Nat /\ n + 1 \in T
  OBVIOUS
<1>2. PICK j \in T : \A y \in T : j \leq y
  <2> HIDE DEF T
  <2> QED
    BY <1>1, Least
<1>3. ASSUME NEW k \in a..j - 1
      PROVE  Complete(R, k)
  <2>1. k \in a..n + 1 /\ k \notin T /\ ~(k > n)
    BY <1>2
  <2> QED
    BY <2>1
<1> QED
  BY <1>2, <1>3

\* mark_bucket_ready issues the buckets from next up to the first incomplete one.
LEMMA BucketsTurn ==
  ASSUME NEW P, NEW R, Sane(P, R), R.work \in Seq(Range(R.work))
  PROVE  \E t, j : /\ MarkBucketReady(R) = [R EXCEPT !.next = j, !.work = R.work \o t]
                   /\ j \in R.next..Len(R.buckets) + 1
                   /\ j > Len(R.buckets) \/ ~Complete(R, j)
                   /\ \A k \in R.next..j - 1 : Complete(R, k)
                   /\ t \in Seq(Range(t)) /\ Len(t) = j - R.next
                   /\ \A i \in 1..Len(t) : t[i] = AllReduceBucket(R, (R.next - 1) + i)
<1> DEFINE n == Len(R.buckets)
           a == R.next
           s == [i \in DOMAIN R.buckets |-> AllReduceBucket(R, i)]
           j == CHOOSE j \in a..n + 1 : /\ j > n \/ ~Complete(R, j)
                                        /\ \A k \in a..j - 1 : Complete(R, k)
           t == SubSeq(s, a, j - 1)
<1>1. n \in Nat /\ a \in 1..n + 1 /\ DOMAIN R.buckets = 1..n
  BY DEF Sane, IsLayout
<1>2. /\ j \in a..n + 1
      /\ j > n \/ ~Complete(R, j)
      /\ \A k \in a..j - 1 : Complete(R, k)
  BY <1>1, StopExists
<1>3. MarkBucketReady(R) = [R EXCEPT !.next = j, !.work = R.work \o t]
  BY DEF MarkBucketReady
<1>4. \A i \in 1..n : s[i] = AllReduceBucket(R, i)
  BY <1>1
<1> DEFINE D == {AllReduceBucket(R, i) : i \in 1..n}
<1>5. s \in [1..n -> D]
  BY <1>1
<1> HIDE DEF j, s, n, a, D
<1>6. s \in Seq(D) /\ Len(s) = n
  BY <1>1, <1>5, FunctionSeq
<1>7. j \in Nat /\ a \in Nat /\ a \geq 1 /\ j \leq n + 1 /\ a \leq j
  BY <1>1, <1>2
<1>8. t \in Seq(D) /\ Len(t) = j - a /\ \A i \in 1..j - a : t[i] = s[(a - 1) + i]
  <2>1. Len(t) = j - a /\ t \in Seq(D)
    BY <1>6, <1>7
  <2>2. ASSUME NEW i \in 1..j - a
        PROVE  t[i] = s[(a - 1) + i]
    <3>1. (a + i) - 1 = (a - 1) + i
      BY <1>7
    <3>2. t[i] = s[(a + i) - 1]
      BY <1>6, <1>7
    <3> QED
      BY <3>1, <3>2
  <2> QED
    BY <2>1, <2>2
<1> HIDE DEF t
<1>9. \A i \in 1..j - a : (a - 1) + i \in 1..n
  BY <1>7, <1>1
<1>10. \A i \in 1..Len(t) : t[i] = AllReduceBucket(R, (a - 1) + i)
  BY <1>8, <1>9, <1>4
<1>11. t \in Seq(Range(t))
  BY <1>8, SeqOfRange
<1> QED
  BY <1>2, <1>3, <1>8, <1>10, <1>11 DEF a, n

\* Issuing more collectives.
LEMMA ConcatWorks ==
  ASSUME NEW P, NEW s, NEW t, IsWorks(P, s), IsWorks(P, t)
  PROVE  /\ IsWorks(P, s \o t) /\ Len(s \o t) = Len(s) + Len(t)
         /\ \A i \in 1..Len(s) : (s \o t)[i] = s[i]
         /\ \A i \in 1..Len(t) : (s \o t)[Len(s) + i] = t[i]
         /\ Len(s) \in Nat /\ Len(t) \in Nat
<1> DEFINE D == Range(s) \cup Range(t)
           u == s \o t
<1>0. s \in Seq(Range(s)) /\ t \in Seq(Range(t))
  BY DEF IsWorks
<1>1. s \in Seq(D) /\ t \in Seq(D)
  BY <1>0, SeqMonotonic
<1>2. u \in Seq(D) /\ Len(u) = Len(s) + Len(t)
      /\ \A i \in 1..Len(s) + Len(t) : u[i] = IF i \leq Len(s) THEN s[i] ELSE t[i - Len(s)]
  BY <1>1, ConcatProperties
<1>3. Len(s) \in Nat /\ Len(t) \in Nat
  BY <1>1
<1>4. u \in Seq(Range(u))
  BY <1>2, SeqOfRange
<1> HIDE DEF D, u
<1>5. \A i \in 1..Len(s) : u[i] = s[i]
  BY <1>2, <1>3
<1>6. ASSUME NEW i \in 1..Len(t)
      PROVE  u[Len(s) + i] = t[i]
  <2>1. Len(s) + i \in 1..Len(s) + Len(t) /\ ~(Len(s) + i \leq Len(s)) /\ (Len(s) + i) - Len(s) = i
    BY <1>3
  <2> QED
    BY <2>1, <1>2
<1>7. ASSUME NEW i \in 1..Len(u)
      PROVE  IsWork(P, u[i])
  <2>1. CASE i \leq Len(s)
    <3>1. i \in 1..Len(s)
      BY <2>1, <1>2, <1>3
    <3> QED
      BY <3>1, <1>5 DEF IsWorks
  <2>2. CASE ~(i \leq Len(s))
    <3>1. i - Len(s) \in 1..Len(t) /\ i \in 1..Len(s) + Len(t)
      BY <2>2, <1>2, <1>3
    <3>2. u[i] = t[i - Len(s)]
      BY <3>1, <2>2, <1>2
    <3> QED
      BY <3>1, <3>2 DEF IsWorks
  <2> QED
    BY <2>1, <2>2
<1>8. IsWorks(P, u)
  BY <1>4, <1>7 DEF IsWorks
<1> QED
  BY <1>2, <1>3, <1>5, <1>6, <1>8 DEF u

\* Q is R once it has issued t, the next collectives of its round.
Issues(P, L, R, Q, n, t) ==
  /\ Q.done = R.done /\ Q.rebuilt = R.rebuilt /\ Q.work = R.work \o t /\ IsWorks(P, t)
  /\ Issued(R) + Len(t) \leq Len(RoundSigs(P, L, Rounds(R, n)))
  /\ \A i \in 1..Len(t) : Sig(t[i]) = RoundSigs(P, L, Rounds(R, n))[Issued(R) + i]
  /\ Rebuilds(P, Rounds(R, n)) => Issued(R) + Len(t) \leq 1 \/ Len(R.done) > 0

\* A rank that issues the next collectives of its round keeps to the ledger.
LEMMA LedgerIssue ==
  ASSUME NEW P, NEW L, NEW R, NEW Q, NEW n, NEW t, Ledger(P, L, R, n), Issues(P, L, R, Q, n, t)
  PROVE  Ledger(P, L, Q, n) /\ Issued(Q) = Issued(R) + Len(t)
<1>0. /\ Q.done = R.done /\ Q.rebuilt = R.rebuilt /\ Q.work = R.work \o t /\ IsWorks(P, t)
      /\ Issued(R) + Len(t) \leq Len(RoundSigs(P, L, Rounds(R, n)))
      /\ \A i \in 1..Len(t) : Sig(t[i]) = RoundSigs(P, L, Rounds(R, n))[Issued(R) + i]
      /\ Rebuilds(P, Rounds(R, n)) => Issued(R) + Len(t) \leq 1 \/ Len(R.done) > 0
  BY DEF Issues
<1> DEFINE S == RoundSigs(P, L, Rounds(R, n))
           d == Len(R.done)
           w == Len(R.work)
<1>1. Rounds(Q, n) = Rounds(R, n)
  BY <1>0 DEF Rounds
<1>2. /\ IsWorks(P, R.done) /\ IsWorks(P, R.work)
      /\ \A i \in 1..d : Sig(R.done[i]) = S[i]
      /\ \A i \in 1..w : Sig(R.work[i]) = S[d + i]
      /\ Rebuilds(P, Rounds(R, n)) => \A i \in 1..d : R.done[i].data = Announced(L)[i]
  BY DEF Ledger
<1>3. /\ IsWorks(P, Q.work) /\ Len(Q.work) = w + Len(t)
      /\ \A i \in 1..w : Q.work[i] = R.work[i]
      /\ \A i \in 1..Len(t) : Q.work[w + i] = t[i]
      /\ w \in Nat /\ Len(t) \in Nat
  BY <1>0, <1>2, ConcatWorks
<1>4. d \in Nat
  BY <1>2 DEF IsWorks
<1>5. Issued(R) = d + w
  BY DEF Issued
<1>6. \A i \in 1..Len(t) : Sig(t[i]) = S[(d + w) + i]
  BY <1>0, <1>5
<1> HIDE DEF S, d, w
<1>7. ASSUME NEW i \in 1..w + Len(t)
      PROVE  Sig(Q.work[i]) = S[d + i]
  <2>1. CASE i \leq w
    BY <2>1, <1>2, <1>3
  <2>2. CASE ~(i \leq w)
    <3>1. PICK j \in 1..Len(t) : i = w + j
      <4>1. i - w \in 1..Len(t) /\ i = w + (i - w)
        BY <2>2, <1>3
      <4> QED
        BY <4>1
    <3>2. Q.work[i] = t[j]
      BY <3>1, <1>3
    <3>3. d + i = (d + w) + j
      BY <3>1, <1>3, <1>4
    <3> QED
      BY <3>2, <3>3, <1>6
  <2> QED
    BY <2>1, <2>2
<1>8. Len(Q.done) = d /\ d + Len(Q.work) = (d + w) + Len(t)
  <2>1. Len(Q.done) = d
    BY <1>0 DEF d
  <2>2. Len(Q.work) = w + Len(t)
    BY <1>3
  <2>3. d + (w + Len(t)) = (d + w) + Len(t)
    BY <1>3, <1>4
  <2> QED
    BY <2>1, <2>2, <2>3
<1>9. (d + w) + Len(t) \leq Len(S) /\ (Rebuilds(P, Rounds(R, n)) => (d + w) + Len(t) \leq 1 \/ d > 0)
  BY <1>0, <1>5 DEF S, d
<1>10. Issued(Q) = Issued(R) + Len(t)
  BY <1>5, <1>8 DEF Issued
<1>11. (d + w) + Len(t) > 1 => ~((d + w) + Len(t) \leq 1)
  BY <1>3, <1>4
<1>12. Ledger(P, L, Q, n)
  BY <1>0, <1>1, <1>2, <1>3, <1>7, <1>8, <1>9, <1>11 DEF Ledger, S, d
<1> QED
  BY <1>10, <1>12

\* A step that issues no collective keeps the ledger.
LEMMA LedgerSame ==
  ASSUME NEW P, NEW L, NEW R, NEW Q, NEW n, Ledger(P, L, R, n),
         Q.done = R.done, Q.rebuilt = R.rebuilt, Q.work = R.work
  PROVE  Ledger(P, L, Q, n) /\ Issued(Q) = Issued(R)
  BY ZenonT(40) DEF Ledger, Rounds, Issued

\* The collectives of a backward that reduces bucket by bucket.
LEMMA InBucketsSigs ==
  ASSUME NEW P, NEW L, NEW R, NEW n, InBuckets(P, L, R, n), IsLayout(R.buckets)
  PROVE  LET S == RoundSigs(P, L, Rounds(R, n)) IN
         /\ \A i \in 1..Len(R.buckets) : S[i] = <<"bucket", R.buckets[i]>>
         /\ Len(S) = IF P.mode = "unused" THEN Len(R.buckets) + 1 ELSE Len(R.buckets)
         /\ P.mode = "unused" => S[Len(R.buckets) + 1] = UsedSig
<1> DEFINE B == BucketSigs(R.buckets)
           D == {<<"bucket", R.buckets[i]>> : i \in 1..Len(R.buckets)} \cup {UsedSig}
           n0 == Len(R.buckets)
<1>0. n0 \in Nat
  BY DEF IsLayout
<1>1. B \in [1..n0 -> D] /\ \A i \in 1..n0 : B[i] = <<"bucket", R.buckets[i]>>
  BY DEF BucketSigs
<1>2. UsedSig \in D
  OBVIOUS
<1>2b. RoundSigs(P, L, Rounds(R, n)) = IF P.mode = "unused" THEN Append(B, UsedSig) ELSE B
  BY DEF InBuckets
<1> HIDE DEF B, D, n0
<1>3. B \in Seq(D) /\ Len(B) = n0
  BY <1>0, <1>1, FunctionSeq
<1>4. Append(B, UsedSig) \in Seq(D) /\ Len(Append(B, UsedSig)) = n0 + 1
      /\ (\A i \in 1..n0 : Append(B, UsedSig)[i] = B[i]) /\ Append(B, UsedSig)[n0 + 1] = UsedSig
  BY <1>0, <1>2, <1>3, AppendProperties
<1> QED
  BY <1>1, <1>2b, <1>3, <1>4 DEF n0

\* The data of a bucket that is reduced.
LEMMA BucketWork ==
  ASSUME NEW P, NEW R, Sane(P, R), NEW i \in 1..Len(R.buckets)
  PROVE  IsWork(P, AllReduceBucket(R, i)) /\ Sig(AllReduceBucket(R, i)) = <<"bucket", R.buckets[i]>>
<1> DEFINE w == AllReduceBucket(R, i)
<1>1. w = [kind |-> "bucket", key |-> R.buckets[i], data |-> [p \in Range(R.buckets[i]) |-> R.view[p]]]
  BY DEF AllReduceBucket, Work
<1> HIDE DEF w
<1>2. DOMAIN w = {"kind", "key", "data"} /\ w.kind = "bucket" /\ w.key = R.buckets[i]
      /\ w.data = [p \in Range(R.buckets[i]) |-> R.view[p]]
  BY <1>1
<1>3. Range(R.buckets[i]) \subseteq Params
  <2>1. R.buckets[i] \in Seq(Params)
    BY DEF Sane, IsLayout
  <2> QED
    BY <2>1, RangeOfSeq
<1>4. w.data \in [Range(w.key) -> Given(P)]
  BY <1>2, <1>3 DEF Sane
<1>5. "bucket" # "used"
  OBVIOUS
<1> QED
  BY <1>2, <1>4, <1>5 DEF IsWork, Sig, w

\* all_reduce_local_used_map issues the collective of the used maps.
LEMMA UsedWork ==
  ASSUME NEW P, NEW R, R.used \subseteq Params
  PROVE  IsWork(P, AllReduceLocalUsedMap(R)) /\ Sig(AllReduceLocalUsedMap(R)) = UsedSig
<1> DEFINE w == AllReduceLocalUsedMap(R)
<1>1. w = [kind |-> "used", key |-> <<>>, data |-> R.used]
  BY DEF AllReduceLocalUsedMap, Work
<1> HIDE DEF w
<1>2. DOMAIN w = {"kind", "key", "data"} /\ w.kind = "used" /\ w.key = <<>> /\ w.data = R.used
  BY <1>1
<1>3. "bucket" # "used"
  OBVIOUS
<1> QED
  BY <1>2, <1>3 DEF IsWork, Sig, UsedSig, w

\* As long as a parameter is not ready there is a bucket to come.
LEMMA BucketToCome ==
  ASSUME NEW P, NEW R, Sane(P, R), Moving(P, R), NEW p \in Params, p \notin R.ready
  PROVE  R.next \leq Len(R.buckets)
<1>0. Len(R.buckets) \in Nat /\ Len(R.buckets) \geq 1 /\ R.next \in 1..Len(R.buckets) + 1
  BY DEF Sane, IsLayout
<1>1. CASE R.finalize
  <2> SUFFICES ASSUME R.next = Len(R.buckets) + 1
               PROVE  FALSE
    BY <1>0
  <2>1. PICK i \in 1..Len(R.buckets) : p \in Range(R.buckets[i])
    BY DEF Sane, IsLayout
  <2>2. i \in 1..R.next - 1
    BY <1>0
  <2>3. Complete(R, i)
    BY <1>1, <2>2 DEF Moving, Underway
  <2> QED
    BY <2>1, <2>3 DEF Complete
<1>2. CASE ~R.finalize
  BY <1>0, <1>2 DEF Moving, Fresh
<1> QED
  BY <1>1, <1>2

\* So far the buckets before the next one are issued.
LEMMA MovingFacts ==
  ASSUME NEW P, NEW R, Sane(P, R), Moving(P, R), R.next \leq Len(R.buckets)
  PROVE  /\ Issued(R) = R.next - 1 /\ R.callback = "none"
         /\ \A i \in 1..R.next - 1 : Complete(R, i)
<1>0. Len(R.buckets) \in Nat /\ R.next \in 1..Len(R.buckets) + 1
  BY DEF Sane, IsLayout
<1>1. ~(R.next > Len(R.buckets))
  BY <1>0
<1>2. CASE R.finalize
  BY <1>1, <1>2 DEF Moving, Underway
<1>3. CASE ~R.finalize
  BY <1>3 DEF Moving, Fresh
<1> QED
  BY <1>2, <1>3

\* mark_variable_ready: Q is R after the parameters S were marked.
MarkedAs(P, L, R, Q, S, n) ==
  /\ Sane(P, Q) /\ Carried(R, Q) /\ Ledger(P, L, Q, n) /\ Q.error \in BOOLEAN
  /\ Q.order = R.order /\ Q.marked = R.marked /\ Q.used = R.used /\ Q.hooks = R.hooks /\ Q.left = R.left
  /\ ~Q.error => /\ S \cap R.ready = {} /\ Q.ready = R.ready \cup S /\ Q.finalize = TRUE
                 /\ Underway(P, Q)

\* The buckets that S completes are issued, in sequence.
LEMMA IssueBuckets ==
  ASSUME NEW P, P = program, NEW L, NEW R, NEW n, Sane(P, R), Ledger(P, L, R, n),
         InBuckets(P, L, R, n), R.next \leq Len(R.buckets), Issued(R) = R.next - 1,
         R.callback = "none", \A i \in 1..R.next - 1 : Complete(R, i)
  PROVE  LET Q == AllBucketsReady(MarkBucketReady(R)) IN
         /\ Sane(P, Q) /\ Carried(R, Q) /\ Ledger(P, L, Q, n) /\ Underway(P, Q)
         /\ Q.order = R.order /\ Q.marked = R.marked /\ Q.used = R.used /\ Q.hooks = R.hooks
         /\ Q.left = R.left /\ Q.ready = R.ready /\ Q.finalize = R.finalize /\ Q.error = R.error
<1> DEFINE T == MarkBucketReady(R)
           Q == AllBucketsReady(T)
           b == Len(R.buckets)
           S == RoundSigs(P, L, Rounds(R, n))
<1>0. /\ DOMAIN R = Fields /\ b \in Nat /\ R.next \in 1..b + 1 /\ R.next \in Nat /\ IsLayout(R.buckets)
  BY DEF Sane, IsLayout
<1>1. R.work \in Seq(Range(R.work)) /\ IsWorks(P, R.work) /\ IsWorks(P, R.done)
  BY DEF Ledger, IsWorks
<1>2. PICK t, j : /\ T = [R EXCEPT !.next = j, !.work = R.work \o t]
                  /\ j \in R.next..b + 1
                  /\ j > b \/ ~Complete(R, j)
                  /\ \A k \in R.next..j - 1 : Complete(R, k)
                  /\ t \in Seq(Range(t)) /\ Len(t) = j - R.next
                  /\ \A i \in 1..Len(t) : t[i] = AllReduceBucket(R, (R.next - 1) + i)
  BY <1>1, BucketsTurn
<1>3. /\ DOMAIN T = Fields /\ T.next = j /\ T.work = R.work \o t /\ Carried(R, T)
      /\ T.order = R.order /\ T.marked = R.marked /\ T.used = R.used /\ T.hooks = R.hooks
      /\ T.left = R.left /\ T.ready = R.ready /\ T.finalize = R.finalize /\ T.error = R.error
      /\ T.view = R.view /\ T.callback = R.callback
  BY <1>0, <1>2 DEF Carried, Fields
<1> HIDE DEF T, S, b
<1>4. j \in Nat /\ j \leq b + 1 /\ R.next \leq j /\ Len(t) \in Nat /\ (R.next - 1) + Len(t) = j - 1
  BY <1>0, <1>2
<1>5. ASSUME NEW i \in 1..Len(t)
      PROVE  IsWork(P, t[i]) /\ Sig(t[i]) = S[Issued(R) + i]
  <2>1. (R.next - 1) + i \in 1..b
    BY SMTT(40), <1>0, <1>4
  <2>2. IsWork(P, AllReduceBucket(R, (R.next - 1) + i))
        /\ Sig(AllReduceBucket(R, (R.next - 1) + i)) = <<"bucket", R.buckets[(R.next - 1) + i]>>
    BY <2>1, BucketWork DEF b
  <2>3. S[(R.next - 1) + i] = <<"bucket", R.buckets[(R.next - 1) + i]>>
    BY SMTT(40), <2>1, <1>0, InBucketsSigs DEF S, b
  <2> QED
    BY <2>2, <2>3, <1>2
<1>6. IsWorks(P, t)
  BY <1>2, <1>5 DEF IsWorks
<1>7. Len(S) = IF P.mode = "unused" THEN b + 1 ELSE b
  BY <1>0, InBucketsSigs DEF S, b
<1>8. Issued(R) + Len(t) = j - 1 /\ Issued(R) + Len(t) \leq Len(S)
  BY <1>4, <1>7, <1>0
<1>9. ~Rebuilds(P, Rounds(R, n))
  BY DEF InBuckets
<1>10. T.done = R.done /\ T.rebuilt = R.rebuilt /\ T.buckets = R.buckets
  BY <1>3 DEF Carried
<1>11. Ledger(P, L, T, n) /\ Issued(T) = j - 1
  <2>1. \A i \in 1..Len(t) : Sig(t[i]) = S[Issued(R) + i]
    BY <1>5
  <2>2. Ledger(P, L, T, n) /\ Issued(T) = Issued(R) + Len(t)
    <3>1. Issues(P, L, R, T, n, t)
      BY <1>3, <1>6, <1>8, <1>9, <1>10, <2>1 DEF S, Issues
    <3> QED
      BY <3>1, LedgerIssue
  <2> QED
    BY <2>2, <1>8
<1>12. \A i \in DOMAIN R.buckets : Complete(T, i) <=> Complete(R, i)
  BY <1>3, <1>10 DEF Complete
<1>13. ASSUME NEW i \in 1..j - 1
       PROVE  Complete(R, i)
  <2>1. i \in 1..R.next - 1 \/ i \in R.next..j - 1
    BY <1>0, <1>4
  <2> QED
    BY <2>1, <1>2
<1>14. DOMAIN R.buckets = 1..b
  BY DEF b, Sane, IsLayout
<1>15. Sane(P, T)
  BY <1>3, <1>10, <1>4, <1>0, <1>2 DEF Sane, Carried, b
<1>16. CASE j \leq b
  <2>1. Q = T
    BY <1>16, <1>3, <1>10 DEF AllBucketsReady, b
  <2>2. ~Complete(T, j)
    <3>1. ~(j > b) /\ j \in 1..b
      BY <1>16, <1>0, <1>4
    <3> QED
      BY <3>1, <1>2, <1>12, <1>14
  <2>3. \A i \in 1..j - 1 : Complete(T, i)
    <3>1. \A i \in 1..j - 1 : i \in 1..b
      BY <1>16, <1>0, <1>4
    <3> QED
      BY <3>1, <1>12, <1>13, <1>14
  <2>4. ~(j > b)
    BY <1>16, <1>0, <1>4
  <2>5. Underway(P, T)
    BY <2>2, <2>3, <2>4, <1>3, <1>10, <1>11 DEF Underway, b
  <2> QED
    BY <2>1, <2>5, <1>3, <1>11, <1>15 DEF T
<1>17. CASE ~(j \leq b)
  <2>0. j = b + 1 /\ j > b
    BY <1>17, <1>0, <1>4
  <2> DEFINE e == IF P.mode = "unused" THEN <<AllReduceLocalUsedMap(T)>> ELSE <<>>
  <2>1. Q = [T EXCEPT !.callback = "finalize",
                      !.work = IF P.mode = "unused" THEN Append(T.work, AllReduceLocalUsedMap(T)) ELSE T.work]
    BY <1>17, <1>3, <1>10 DEF AllBucketsReady, b, DynamicFindUnused, Mode
  <2>2. /\ DOMAIN Q = Fields /\ Q.next = j /\ Carried(T, Q)
        /\ Q.work = IF P.mode = "unused" THEN Append(T.work, AllReduceLocalUsedMap(T)) ELSE T.work
        /\ Q.order = T.order /\ Q.marked = T.marked /\ Q.used = T.used /\ Q.hooks = T.hooks
        /\ Q.left = T.left /\ Q.ready = T.ready /\ Q.finalize = T.finalize /\ Q.error = T.error
        /\ Q.view = T.view /\ Q.callback = "finalize"
    BY <2>1, <1>3 DEF Fields, Carried
  <2> HIDE DEF Q
  <2>3. Q.done = R.done /\ Q.rebuilt = R.rebuilt /\ Q.buckets = R.buckets /\ Q.done = T.done /\ Q.rebuilt = T.rebuilt
    BY <2>2, <1>10 DEF Carried
  <2>4. Ledger(P, L, Q, n) /\ Issued(Q) = IF P.mode = "unused" THEN j ELSE j - 1
    <3>1. CASE P.mode = "unused"
      <4>1. PICK u, x : u = <<x>> /\ x = AllReduceLocalUsedMap(T)
        OBVIOUS
      <4>2. IsWork(P, x) /\ Sig(x) = UsedSig
        BY <4>1, <1>3, UsedWork DEF Sane
      <4>3. IsWorks(P, u) /\ Len(u) = 1 /\ u[1] = x
        <5>1. u \in Seq({x}) /\ Len(u) = 1 /\ u[1] = x
          BY <4>1
        <5>2. u \in Seq(Range(u))
          BY <5>1, SeqOfRange
        <5> QED
          BY <5>1, <5>2, <4>2 DEF IsWorks
      <4>4. T.work \in Seq(Range(T.work))
        BY <1>11 DEF Ledger, IsWorks
      <4>5. Q.work = T.work \o u
        <5>1. Q.work = Append(T.work, x)
          BY <2>2, <3>1, <4>1
        <5>2. T.work \in Seq(Range(T.work) \cup {x}) /\ x \in Range(T.work) \cup {x}
          BY <4>4, SeqMonotonic
        <5>3. Append(T.work, x) = T.work \o <<x>>
          BY <5>2, AppendIsConcat
        <5> QED
          BY <5>1, <5>3, <4>1
      <4>6. Rounds(T, n) = Rounds(R, n)
        BY <1>10 DEF Rounds
      <4>7. S[b + 1] = UsedSig /\ Len(S) = b + 1
        BY <3>1, <1>0, <1>7, InBucketsSigs DEF S, b
      <4>8. Issued(T) = b /\ Issued(T) + Len(u) = j /\ Issued(T) + Len(u) \leq Len(S)
        BY <2>0, <4>3, <4>7, <1>11, <1>0
      <4>9. \A i \in 1..Len(u) : Sig(u[i]) = S[Issued(T) + i]
        BY <4>2, <4>3, <4>7, <4>8
      <4>10. Ledger(P, L, Q, n) /\ Issued(Q) = Issued(T) + Len(u)
        <5>1. Issues(P, L, T, Q, n, u)
          BY <2>3, <4>3, <4>5, <4>6, <4>8, <4>9, <1>9 DEF S, Issues
        <5> QED
          BY <5>1, <1>11, LedgerIssue
      <4> QED
        BY <3>1, <4>8, <4>10
    <3>2. CASE P.mode # "unused"
      BY <3>2, <2>2, <2>3, <1>11, LedgerSame
    <3> QED
      BY <3>1, <3>2
  <2>5. \A i \in 1..j - 1 : Complete(Q, i)
    <3>1. \A i \in 1..j - 1 : i \in 1..b
      BY <2>0, <1>0
    <3>2. \A i \in DOMAIN R.buckets : Complete(Q, i) <=> Complete(R, i)
      BY <2>2, <2>3, <1>3 DEF Complete
    <3> QED
      BY <3>1, <3>2, <1>13, <1>14
  <2>6. ~(j \leq b)
    BY <1>17
  <2>7. Underway(P, Q)
    BY <2>0, <2>2, <2>3, <2>4, <2>5, <2>6 DEF Underway, b
  <2>8. Sane(P, Q)
    <3>1. Q.next \in 1..Len(Q.buckets) + 1 /\ IsLayout(Q.buckets)
      BY <2>2, <2>3, <1>4, <1>0 DEF b
    <3>2. Q.unused = T.unused
      BY <2>2 DEF Carried
    <3>3. /\ T.view \in [Params -> Given(P)]
          /\ T.ready \subseteq Params /\ T.unused \subseteq Params /\ T.used \subseteq Params
          /\ T.hooks \in [Params -> 0..2] /\ T.left \in [Params -> 0..2]
          /\ T.order \in Seq(Params)
          /\ T.finalize \in BOOLEAN /\ T.marked \in BOOLEAN /\ T.rebuilt \in BOOLEAN
      BY <1>15 DEF Sane
    <3> QED
      BY <2>2, <2>3, <3>1, <3>2, <3>3 DEF Sane
  <2>9. Carried(R, Q)
    BY <2>2, <1>3 DEF Carried
  <2> QED
    BY <2>2, <2>4, <2>7, <2>8, <2>9, <1>3 DEF Q, T
<1> QED
  BY <1>16, <1>17

\* mark_variable_ready issues the next collectives of the round and no other, or fails.
LEMMA MarkReady ==
  ASSUME NEW P, P = program, NEW L, NEW R, NEW n, NEW g \in [Params -> Given(P)],
         NEW S, S \subseteq Params, S # {},
         Sane(P, R), Ledger(P, L, R, n), InBuckets(P, L, R, n), Moving(P, R), R.error = FALSE
  PROVE  MarkedAs(P, L, R, MarkVariablesReady(R, g, S), S, n)
<1> DEFINE Q == MarkVariablesReady(R, g, S)
           H == MarkVariablesReadyDense([R EXCEPT !.ready = @ \cup S, !.finalize = TRUE], g, S)
<1>0. DOMAIN R = Fields
  BY DEF Sane
<1>1. CASE S \cap R.ready # {}
  <2>1. Q = [R EXCEPT !.error = TRUE]
    BY <1>1 DEF MarkVariablesReady
  <2>2. /\ DOMAIN Q = Fields /\ Carried(R, Q) /\ Q.error = TRUE
        /\ Q.order = R.order /\ Q.marked = R.marked /\ Q.used = R.used /\ Q.hooks = R.hooks
        /\ Q.left = R.left /\ Q.ready = R.ready /\ Q.finalize = R.finalize /\ Q.view = R.view
        /\ Q.next = R.next /\ Q.callback = R.callback /\ Q.work = R.work
    BY <1>0, <2>1 DEF Carried, Fields
  <2> HIDE DEF Q
  <2>3. Sane(P, Q)
    BY <2>2 DEF Sane, Carried
  <2>4. Ledger(P, L, Q, n)
    BY <2>2, LedgerSame DEF Carried
  <2> QED
    BY <2>2, <2>3, <2>4 DEF MarkedAs, Q
<1>2. CASE S \cap R.ready = {}
  <2>1. PICK v, e : H = [R EXCEPT !.ready = R.ready \cup S, !.finalize = TRUE, !.view = v, !.error = e]
                    /\ v \in [Params -> Given(P)] /\ e \in BOOLEAN
    <3> DEFINE X == [R EXCEPT !.ready = @ \cup S, !.finalize = TRUE]
               v == [p \in Params |-> IF p \in S THEN g[p] ELSE X.view[p]]
               e == (DynamicFindUnused \/ StaticFirst(X)) /\ \E p \in S : g[p] = {} /\ p \in X.used
    <3>1. H = [X EXCEPT !.view = v, !.error = e]
      BY DEF MarkVariablesReadyDense
    <3>2. X.view = R.view /\ DOMAIN X = Fields
      BY <1>0 DEF Fields
    <3>3. v \in [Params -> Given(P)]
      BY <3>2 DEF Sane
    <3>4. e \in BOOLEAN
      OBVIOUS
    <3> HIDE DEF v, e
    <3>5. H = [R EXCEPT !.ready = R.ready \cup S, !.finalize = TRUE, !.view = v, !.error = e]
      BY <3>1, <1>0
    <3> QED
      BY <3>3, <3>4, <3>5
  <2>2. /\ DOMAIN H = Fields /\ Carried(R, H) /\ H.error \in BOOLEAN
        /\ H.order = R.order /\ H.marked = R.marked /\ H.used = R.used /\ H.hooks = R.hooks
        /\ H.left = R.left /\ H.ready = R.ready \cup S /\ H.finalize = TRUE
        /\ H.view \in [Params -> Given(P)]
        /\ H.next = R.next /\ H.callback = R.callback /\ H.work = R.work
    BY ZenonT(40), <1>0, <2>1 DEF Carried, Fields
  <2>3. Q = IF H.error THEN H ELSE AllBucketsReady(MarkBucketReady(H))
    BY <1>2 DEF MarkVariablesReady
  <2> HIDE DEF H, Q
  <2>4. Sane(P, H)
    <3>1. H.ready \subseteq Params
      BY <2>2 DEF Sane
    <3> QED
      BY <2>2, <3>1 DEF Sane, Carried
  <2>5. Ledger(P, L, H, n) /\ Issued(H) = Issued(R)
    BY <2>2, LedgerSame DEF Carried
  <2>6. CASE H.error
    BY <2>2, <2>3, <2>4, <2>5, <2>6 DEF MarkedAs, Q
  <2>7. CASE ~H.error
    <3>1. PICK p \in S : p \notin R.ready
      BY <1>2
    <3>2. R.next \leq Len(R.buckets)
      BY <3>1, BucketToCome
    <3>3. /\ Issued(R) = R.next - 1 /\ R.callback = "none"
          /\ \A i \in 1..R.next - 1 : Complete(R, i)
      BY <3>2, MovingFacts
    <3>4. H.next \leq Len(H.buckets) /\ Issued(H) = H.next - 1 /\ H.callback = "none"
      BY <2>2, <2>5, <3>2, <3>3 DEF Carried
    <3>5. \A i \in 1..H.next - 1 : Complete(H, i)
      BY <2>2, <3>3 DEF Carried, Complete
    <3>6. InBuckets(P, L, H, n)
      BY <2>2 DEF InBuckets, Carried, Rounds
    <3>7. PICK A : A = AllBucketsReady(MarkBucketReady(H))
      OBVIOUS
    <3>8. /\ Sane(P, A) /\ Carried(H, A) /\ Ledger(P, L, A, n) /\ Underway(P, A)
          /\ A.order = H.order /\ A.marked = H.marked /\ A.used = H.used /\ A.hooks = H.hooks
          /\ A.left = H.left /\ A.ready = H.ready /\ A.finalize = H.finalize /\ A.error = H.error
      BY <2>4, <2>5, <3>4, <3>5, <3>6, <3>7, IssueBuckets
    <3>9. Q = A
      BY <2>3, <2>7, <3>7
    <3>10. Carried(R, A)
      BY <3>8, <2>2 DEF Carried
    <3> QED
      BY <3>8, <3>9, <3>10, <2>2, <2>7, <1>2 DEF MarkedAs, Q
  <2> QED
    BY <2>6, <2>7
<1> QED
  BY <1>1, <1>2

-----------------------------------------------------------------------------
(* The hooks.                                                               *)

\* The order of the parameters that are ready, while it is recorded.
Recorded(P, R) ==
  P.mode # "unused" /\ ~R.rebuilt => Distinct(R.order) /\ Range(R.order) = R.ready \ R.unused

\* A rank whose hooks mark parameters.
InHook(P, L, R, n) ==
  /\ Sane(P, R) /\ Ledger(P, L, R, n) /\ Moving(P, R) /\ Recorded(P, R)
  /\ R.marked => R.unused \subseteq R.ready
  /\ R.finalize => R.marked

\* Q is R after a hook: it has failed, or goes on.
AfterHook(P, L, R, Q, n) ==
  /\ Sane(P, Q) /\ Carried(R, Q) /\ Ledger(P, L, Q, n) /\ Q.error \in BOOLEAN
  /\ Q.hooks = R.hooks /\ (P.mode # "static" => Q.left = R.left) /\ (P.mode = "static" => Q.used = R.used)
  /\ ~Q.error => InHook(P, L, Q, n) /\ Q.marked = TRUE

\* A step that keeps the layout and the round keeps its collectives.
LEMMA InBucketsCarried ==
  ASSUME NEW P, NEW L, NEW R, NEW Q, NEW n, InBuckets(P, L, R, n), Carried(R, Q)
  PROVE  InBuckets(P, L, Q, n)
  BY DEF InBuckets, Carried, Rounds

\* The first hook marks the parameters found unused and issues what is complete.
LEMMA MarkUnusedReady ==
  ASSUME NEW P, P = program, NEW L, NEW R, NEW n, NEW g \in [Params -> Given(P)],
         InHook(P, L, R, n), InBuckets(P, L, R, n), R.error = FALSE
  PROVE  AfterHook(P, L, R, MarkUnused(R, g), n)
<1> DEFINE Q == MarkUnused(R, g)
           T == [R EXCEPT !.marked = TRUE]
<1>0. /\ DOMAIN R = Fields /\ Sane(P, R) /\ Ledger(P, L, R, n) /\ Moving(P, R) /\ Recorded(P, R)
      /\ R.marked \in BOOLEAN /\ R.finalize \in BOOLEAN
  BY DEF InHook, Sane
<1>1. CASE R.marked
  <2>1. Q = R
    BY <1>1 DEF MarkUnused
  <2>2. Carried(R, R) /\ R.marked = TRUE
    BY <1>0, <1>1 DEF Carried
  <2> QED
    BY <2>1, <2>2, <1>0 DEF AfterHook
<1>2. CASE ~R.marked
  <2>0. ~R.finalize
    BY <1>2 DEF InHook
  <2>1. Q = MarkVariablesReady(T, g, R.unused)
    BY <1>2 DEF MarkUnused
  <2>2. /\ DOMAIN T = Fields /\ Carried(R, T) /\ T.error = FALSE /\ T.marked = TRUE
        /\ T.order = R.order /\ T.used = R.used /\ T.hooks = R.hooks
        /\ T.left = R.left /\ T.ready = R.ready /\ T.finalize = R.finalize /\ T.view = R.view
        /\ T.next = R.next /\ T.callback = R.callback /\ T.work = R.work
    BY <1>0 DEF Carried, Fields
  <2> HIDE DEF T, Q
  <2>3. Sane(P, T)
    BY <2>2, <1>0 DEF Sane, Carried
  <2>4. Ledger(P, L, T, n) /\ Issued(T) = Issued(R)
    BY <2>2, <1>0, LedgerSame DEF Carried
  <2>5. Moving(P, T) /\ T.ready = {}
    BY <2>0, <2>2, <2>4, <1>0 DEF Moving, Fresh
  <2>6. InBuckets(P, L, T, n)
    BY <2>2, InBucketsCarried
  <2>7. T.unused = R.unused /\ T.rebuilt = R.rebuilt
    BY <2>2 DEF Carried
  <2>8. Recorded(P, T)
    BY <2>2, <2>7, <1>0 DEF Recorded
  <2>9. CASE R.unused = {}
    <3>1. Q = T
      BY <2>1, <2>9 DEF MarkVariablesReady
    <3>2. InHook(P, L, T, n)
      BY <2>3, <2>4, <2>5, <2>8, <2>7, <2>9, <2>2 DEF InHook
    <3> QED
      BY <3>1, <3>2, <2>2, <2>3, <2>4 DEF AfterHook, Q
  <2>10. CASE R.unused # {}
    <3>1. R.unused \subseteq Params
      BY <1>0 DEF Sane
    <3>2. MarkedAs(P, L, T, Q, R.unused, n)
      BY <2>1, <2>2, <2>3, <2>4, <2>5, <2>6, <2>10, <3>1, MarkReady
    <3>3. /\ Sane(P, Q) /\ Carried(T, Q) /\ Ledger(P, L, Q, n) /\ Q.error \in BOOLEAN
          /\ Q.order = T.order /\ Q.marked = T.marked /\ Q.used = T.used /\ Q.hooks = T.hooks /\ Q.left = T.left
          /\ ~Q.error => /\ Q.ready = T.ready \cup R.unused /\ Q.finalize = TRUE /\ Underway(P, Q)
      BY <3>2 DEF MarkedAs
    <3>4. Carried(R, Q)
      BY <3>3, <2>2 DEF Carried
    <3>5. ASSUME ~Q.error
          PROVE  InHook(P, L, Q, n)
      <4>1. Q.ready = R.unused /\ Q.unused = R.unused /\ Q.finalize = TRUE /\ Underway(P, Q) /\ Q.rebuilt = R.rebuilt
        BY <3>3, <3>4, <3>5, <2>5 DEF Carried
      <4>2. Moving(P, Q)
        BY <4>1 DEF Moving
      <4>3. Recorded(P, Q)
        BY <4>1, <3>3, <2>8, <2>7, <2>5 DEF Recorded
      <4> QED
        BY <4>1, <4>2, <4>3, <3>3, <2>2 DEF InHook
    <3> QED
      BY <3>3, <3>4, <3>5, <2>2 DEF AfterHook, Q
  <2> QED
    BY <2>9, <2>10
<1> QED
  BY <1>1, <1>2

\* A hook marks its parameter, records it for the new layout and issues what is complete.
LEMMA MarkHookedReady ==
  ASSUME NEW P, P = program, NEW L, NEW R, NEW n, NEW g \in [Params -> Given(P)], NEW p \in Params,
         InHook(P, L, R, n), InBuckets(P, L, R, n), R.error = FALSE, R.marked = TRUE
  PROVE  AfterHook(P, L, R, MarkHooked(R, g, p), n)
<1> DEFINE Q == MarkHooked(R, g, p)
           T == PushRebuilt(R, <<p>>)
           o == IF P.mode # "unused" /\ ~R.rebuilt THEN R.order \o <<p>> ELSE R.order
<1>0. /\ DOMAIN R = Fields /\ Sane(P, R) /\ Ledger(P, L, R, n) /\ Moving(P, R) /\ Recorded(P, R)
      /\ R.unused \subseteq R.ready /\ R.order \in Seq(Params) /\ R.rebuilt \in BOOLEAN
  BY DEF InHook, Sane
<1>2. o \in Seq(Params)
  BY <1>0, DistinctOne
<1>3. /\ DOMAIN T = Fields /\ Carried(R, T) /\ T.error = FALSE /\ T.marked = TRUE
      /\ T.order = o /\ T.used = R.used /\ T.hooks = R.hooks
      /\ T.left = R.left /\ T.ready = R.ready /\ T.finalize = R.finalize /\ T.view = R.view
      /\ T.next = R.next /\ T.callback = R.callback /\ T.work = R.work
  <2>1. CASE P.mode # "unused" /\ ~R.rebuilt
    <3>1. T = [R EXCEPT !.order = R.order \o <<p>>]
      BY <2>1 DEF PushRebuilt, ShouldRebuild, Mode
    <3>2. o = R.order \o <<p>>
      BY <2>1
    <3> HIDE DEF T
    <3> QED
      BY <3>1, <3>2, <1>0 DEF Carried, Fields
  <2>2. CASE ~(P.mode # "unused" /\ ~R.rebuilt)
    <3>1. T = R /\ o = R.order
      BY <2>2, <1>0 DEF PushRebuilt, ShouldRebuild, Mode
    <3> QED
      BY <3>1, <1>0 DEF Carried
  <2> QED
    BY <2>1, <2>2
<1>4. Q = MarkVariablesReady(T, g, {p})
  BY DEF MarkHooked
<1> HIDE DEF Q, T
<1>5. Sane(P, T)
  BY <1>0, <1>2, <1>3 DEF Sane, Carried
<1>6. Ledger(P, L, T, n) /\ Issued(T) = Issued(R)
  BY <1>0, <1>3, LedgerSame DEF Carried
<1>7. Moving(P, T)
  BY <1>0, <1>3, <1>6 DEF Moving, Fresh, Underway, Carried, Complete
<1>8. InBuckets(P, L, T, n)
  BY <1>3, InBucketsCarried
<1>9. MarkedAs(P, L, T, Q, {p}, n)
  BY <1>3, <1>4, <1>5, <1>6, <1>7, <1>8, MarkReady
<1>10. /\ Sane(P, Q) /\ Carried(T, Q) /\ Ledger(P, L, Q, n) /\ Q.error \in BOOLEAN
       /\ Q.order = T.order /\ Q.marked = T.marked /\ Q.used = T.used /\ Q.hooks = T.hooks /\ Q.left = T.left
       /\ ~Q.error => {p} \cap T.ready = {} /\ Q.ready = T.ready \cup {p} /\ Q.finalize = TRUE /\ Underway(P, Q)
  BY <1>9 DEF MarkedAs
<1>11. Carried(R, Q)
  BY <1>3, <1>10 DEF Carried
<1>12. ASSUME ~Q.error
       PROVE  InHook(P, L, Q, n)
  <2>1. /\ p \notin R.ready /\ Q.ready = R.ready \cup {p} /\ Q.finalize = TRUE /\ Underway(P, Q)
        /\ Q.unused = R.unused /\ Q.rebuilt = R.rebuilt /\ Q.order = o
    BY <1>3, <1>10, <1>11, <1>12 DEF Carried
  <2>2. Moving(P, Q)
    BY <2>1 DEF Moving
  <2>3. ASSUME P.mode # "unused", ~R.rebuilt
        PROVE  Distinct(o) /\ Range(o) = Q.ready \ Q.unused
    <3>1. Distinct(R.order) /\ Range(R.order) = R.ready \ R.unused
      BY <2>3, <1>0 DEF Recorded
    <3>2. <<p>> \in Seq(Params) /\ Distinct(<<p>>) /\ Range(<<p>>) = {p}
      BY DistinctOne
    <3>3. PICK s : s = <<p>>
      OBVIOUS
    <3>4. s \in Seq(Params) /\ Distinct(s) /\ Range(s) = {p}
      BY <3>2, <3>3
    <3>5. Range(R.order) \cap Range(s) = {}
      BY <3>1, <3>4, <2>1
    <3>6. Distinct(R.order \o s) /\ Range(R.order \o s) = Range(R.order) \cup Range(s)
      BY <3>1, <3>4, <3>5, <1>0, DistinctConcat
    <3>7. o = R.order \o s
      BY <2>3, <3>3
    <3>8. p \notin R.unused
      BY <2>1, <1>0
    <3> HIDE DEF o
    <3> QED
      BY <3>1, <3>4, <3>6, <3>7, <3>8, <2>1
  <2>4. Recorded(P, Q)
    BY <2>1, <2>3 DEF Recorded
  <2> QED
    BY <2>1, <2>2, <2>4, <1>10, <1>3, <1>0 DEF InHook
<1> QED
  BY <1>3, <1>10, <1>11, <1>12 DEF AfterHook, Q

\* A hook that does not mark, of a static graph, or the hook of a rank that has failed.
LEMMA HookMarksReady ==
  ASSUME NEW P, P = program, NEW L, NEW R, NEW n, NEW g \in [Params -> Given(P)], NEW p \in Params,
         InHook(P, L, R, n), InBuckets(P, L, R, n), R.error = FALSE, R.marked = TRUE
  PROVE  AfterHook(P, L, R, HookMarks(R, g, p), n)
<1> DEFINE Q == HookMarks(R, g, p)
<1>0. /\ DOMAIN R = Fields /\ Sane(P, R) /\ Ledger(P, L, R, n) /\ Moving(P, R) /\ Recorded(P, R)
      /\ R.unused \subseteq R.ready /\ R.left \in [Params -> 0..2] /\ R.left[p] \in 0..2
  BY DEF InHook, Sane
<1>1. CASE P.mode # "static"
  <2>1. Q = MarkHooked(R, g, p)
    BY <1>1 DEF HookMarks, Mode
  <2> QED
    BY <2>1, MarkHookedReady
<1>2. CASE P.mode = "static"
  <2>1. Q = CountHook(R, g, p)
    BY <1>2 DEF HookMarks, Mode
  <2>2. CASE R.left[p] = 0
    <3>1. Q = [R EXCEPT !.error = TRUE]
      BY <2>1, <2>2 DEF CountHook
    <3>2. /\ DOMAIN Q = Fields /\ Carried(R, Q) /\ Q.error = TRUE
          /\ Q.order = R.order /\ Q.marked = R.marked /\ Q.used = R.used /\ Q.hooks = R.hooks
          /\ Q.left = R.left /\ Q.ready = R.ready /\ Q.finalize = R.finalize /\ Q.view = R.view
          /\ Q.next = R.next /\ Q.callback = R.callback /\ Q.work = R.work
      BY <1>0, <3>1 DEF Carried, Fields
    <3> HIDE DEF Q
    <3>3. Sane(P, Q)
      BY <3>2, <1>0 DEF Sane, Carried
    <3>4. Ledger(P, L, Q, n)
      BY <3>2, <1>0, LedgerSame DEF Carried
    <3> QED
      BY <3>2, <3>3, <3>4, <1>2 DEF AfterHook, Q
  <2>3. CASE R.left[p] # 0
    <3> DEFINE v == IF R.left[p] > 1 THEN R.left[p] - 1 ELSE 0
               T == [R EXCEPT !.left[p] = v]
    <3>1. v \in 0..2
      BY <1>0, <2>3
    <3>2. /\ DOMAIN T = Fields /\ Carried(R, T) /\ T.error = FALSE /\ T.marked = TRUE
          /\ T.order = R.order /\ T.used = R.used /\ T.hooks = R.hooks
          /\ T.left = [R.left EXCEPT ![p] = v] /\ T.ready = R.ready /\ T.finalize = R.finalize /\ T.view = R.view
          /\ T.next = R.next /\ T.callback = R.callback /\ T.work = R.work
      BY <1>0 DEF Carried, Fields
    <3>3. Q = IF R.left[p] > 1 THEN T ELSE MarkHooked(T, g, p)
      <4>1. CASE R.left[p] > 1
        BY <4>1, <2>1, <2>3 DEF CountHook
      <4>2. CASE ~(R.left[p] > 1)
        BY <4>2, <2>1, <2>3 DEF CountHook
      <4> QED
        BY <4>1, <4>2
    <3> HIDE DEF v, T, Q
    <3>4. T.left \in [Params -> 0..2]
      BY <3>1, <3>2, <1>0
    <3>5. Sane(P, T)
      BY <3>2, <3>4, <1>0 DEF Sane, Carried
    <3>6. Ledger(P, L, T, n) /\ Issued(T) = Issued(R)
      BY <3>2, <1>0, LedgerSame DEF Carried
    <3>7. Moving(P, T)
      BY <1>0, <3>2, <3>6 DEF Moving, Fresh, Underway, Carried, Complete
    <3>8. Recorded(P, T)
      BY <1>0, <3>2 DEF Recorded, Carried
    <3>9. InHook(P, L, T, n)
      BY <3>2, <3>5, <3>6, <3>7, <3>8, <1>0 DEF InHook, Carried
    <3>10. InBuckets(P, L, T, n)
      BY <3>2, InBucketsCarried
    <3>11. CASE R.left[p] > 1
      BY <3>2, <3>3, <3>5, <3>6, <3>9, <3>11, <1>2 DEF AfterHook, Q
    <3>12. CASE ~(R.left[p] > 1)
      <4>1. AfterHook(P, L, T, Q, n)
        BY <3>2, <3>3, <3>9, <3>10, <3>12, MarkHookedReady
      <4>2. Carried(R, Q)
        BY <4>1, <3>2 DEF AfterHook, Carried
      <4> QED
        BY <4>1, <4>2, <3>2, <1>2 DEF AfterHook, Q
    <3> QED
      BY <3>11, <3>12
  <2> QED
    BY <2>2, <2>3
<1> QED
  BY <1>1, <1>2

\* autograd_hook has recorded that a parameter is used.
UsedAs(P, L, R, Q, n) ==
  /\ InHook(P, L, Q, n) /\ InBuckets(P, L, Q, n) /\ Carried(R, Q) /\ Q.error = FALSE
  /\ Q.hooks = R.hooks /\ Q.left = R.left /\ Q.marked = R.marked
  /\ P.mode = "static" /\ R.iterations # 1 => Q = R

\* Recording that a parameter is used issues nothing.
LEMMA MarkUsedReady ==
  ASSUME NEW P, P = program, NEW L, NEW R, NEW n, NEW g, NEW p \in Params,
         InHook(P, L, R, n), InBuckets(P, L, R, n), R.error = FALSE
  PROVE  UsedAs(P, L, R, MarkUsed(R, g, p), n)
<1> DEFINE Q == MarkUsed(R, g, p)
<1>0. /\ DOMAIN R = Fields /\ Sane(P, R) /\ Ledger(P, L, R, n) /\ Moving(P, R) /\ Recorded(P, R)
      /\ R.used \subseteq Params
  BY DEF InHook, Sane
<1>1b. P.mode = "static" /\ R.iterations # 1 => Q = R
  BY DEF MarkUsed, DynamicFindUnused, StaticFirst, Mode
<1>2. /\ DOMAIN Q = Fields /\ Carried(R, Q) /\ Q.error = FALSE /\ Q.marked = R.marked
      /\ Q.order = R.order /\ Q.used \subseteq Params /\ Q.hooks = R.hooks
      /\ Q.left = R.left /\ Q.ready = R.ready /\ Q.finalize = R.finalize /\ Q.view = R.view
      /\ Q.next = R.next /\ Q.callback = R.callback /\ Q.work = R.work
  <2>1. CASE (DynamicFindUnused \/ StaticFirst(R)) /\ g[p] # {}
    <3>1. Q = [R EXCEPT !.used = R.used \cup {p}]
      BY <2>1 DEF MarkUsed
    <3>2. R.used \cup {p} \subseteq Params
      BY <1>0
    <3> HIDE DEF Q
    <3> QED
      BY <3>1, <3>2, <1>0 DEF Carried, Fields
  <2>2. CASE ~((DynamicFindUnused \/ StaticFirst(R)) /\ g[p] # {})
    <3>1. Q = R
      BY <2>2 DEF MarkUsed
    <3> QED
      BY <3>1, <1>0 DEF Carried
  <2> QED
    BY <2>1, <2>2
<1> HIDE DEF Q
<1>3. Sane(P, Q)
  BY <1>0, <1>2 DEF Sane, Carried
<1>4. Ledger(P, L, Q, n) /\ Issued(Q) = Issued(R)
  BY <1>0, <1>2, LedgerSame DEF Carried
<1>5. Moving(P, Q)
  BY <1>0, <1>2, <1>4 DEF Moving, Fresh, Underway, Carried, Complete
<1>6. Recorded(P, Q)
  BY <1>0, <1>2 DEF Recorded, Carried
<1>7. InHook(P, L, Q, n)
  BY <1>2, <1>3, <1>4, <1>5, <1>6 DEF InHook, Carried
<1>8. InBuckets(P, L, Q, n)
  BY <1>2, InBucketsCarried
<1> QED
  BY <1>1b, <1>2, <1>7, <1>8 DEF Q, UsedAs

\* autograd_hook, when it marks.
LEMMA HookReady ==
  ASSUME NEW P, P = program, NEW L, NEW R, NEW n, NEW g \in [Params -> Given(P)], NEW p \in Params,
         InHook(P, L, R, n), InBuckets(P, L, R, n), R.error = FALSE, R.expect,
         ~(P.mode = "static" /\ R.iterations = 1)
  PROVE  AfterHook(P, L, R, AutogradHook(R, g, p), n)
<1> DEFINE Q == AutogradHook(R, g, p)
           A == MarkUsed(R, g, p)
           B == MarkUnused(A, g)
<1>1. Q = HookMarks(B, g, p)
  BY DEF AutogradHook, StaticFirst, Mode
<1>2a. UsedAs(P, L, R, A, n)
  BY MarkUsedReady
<1> HIDE DEF A
<1>2. /\ InHook(P, L, A, n) /\ InBuckets(P, L, A, n) /\ Carried(R, A) /\ A.error = FALSE
      /\ A.hooks = R.hooks /\ A.left = R.left
      /\ P.mode = "static" => A = R
  BY <1>2a DEF UsedAs
<1>3. AfterHook(P, L, A, B, n)
  BY <1>2, MarkUnusedReady
<1> HIDE DEF B
<1>4. B.error \in BOOLEAN /\ Carried(A, B)
  BY <1>3 DEF AfterHook
<1>4b. Carried(R, B)
  BY <1>2, <1>4 DEF Carried
<1>5. CASE B.error
  <2>1. Q = B
    BY <1>1, <1>5 DEF HookMarks
  <2> QED
    BY <2>1, <1>2, <1>3, <1>4b, <1>5 DEF AfterHook
<1>6. CASE ~B.error
  <2>1. InHook(P, L, B, n) /\ B.marked = TRUE /\ B.error = FALSE
    BY <1>3, <1>4, <1>6 DEF AfterHook
  <2>2. InBuckets(P, L, B, n)
    BY <1>2, <1>4, InBucketsCarried
  <2>3. AfterHook(P, L, B, Q, n)
    BY <1>1, <2>1, <2>2, HookMarksReady
  <2>4. Carried(R, Q)
    BY <2>3, <1>4b DEF AfterHook, Carried
  <2> QED
    BY <2>3, <2>4, <1>2, <1>3 DEF AfterHook
<1> QED
  BY <1>5, <1>6

\* The rank raises: nothing else changes.
Uncounted(R, Q) == Q = [R EXCEPT !.marked = TRUE, !.error = TRUE] \/ Q = [R EXCEPT !.error = TRUE]

\* A static graph of which no hook was counted, because its first forward was ignored.
LEMMA UncountedHook ==
  ASSUME NEW P, P = program, NEW R, NEW g, NEW p \in Params, DOMAIN R = Fields, R.error = FALSE,
         P.mode = "static", R.iterations # 1, R.expect, R.unused = {}, R.left[p] = 0
  PROVE  Uncounted(R, AutogradHook(R, g, p))
<1> USE DEF Uncounted
<1>1. MarkUsed(R, g, p) = R
  BY DEF MarkUsed, DynamicFindUnused, StaticFirst, Mode
<1>2. AutogradHook(R, g, p) = HookMarks(MarkUnused(R, g), g, p)
  BY <1>1 DEF AutogradHook, StaticFirst, Mode
<1> DEFINE T == [R EXCEPT !.marked = TRUE]
<1>3. MarkUnused(R, g) = R \/ MarkUnused(R, g) = T
  BY DEF MarkUnused, MarkVariablesReady
<1>4. T.error = FALSE /\ T.left = R.left
  BY DEF Fields
<1>5. HookMarks(R, g, p) = [R EXCEPT !.error = TRUE]
  BY DEF HookMarks, CountHook, Mode
<1>6. HookMarks(T, g, p) = [T EXCEPT !.error = TRUE]
  <2> HIDE DEF T
  <2> QED
    BY <1>4 DEF HookMarks, CountHook, Mode
<1>7. [T EXCEPT !.error = TRUE] = [R EXCEPT !.marked = TRUE, !.error = TRUE]
  BY DEF Fields
<1> QED
  BY <1>2, <1>3, <1>5, <1>6, <1>7

-----------------------------------------------------------------------------
(* The rounds of a rank.                                                    *)

\* num_iterations_ counts one pass after the other.
LEMMA OpenedFacts ==
  ASSUME NEW P, NEW j \in Nat
  PROVE  /\ Opened(P, j) \in 0..j
         /\ Opened(P, 0) = 0
         /\ Opened(P, j + 1) = IF P.passes[j + 1] = "nosync" THEN Opened(P, j) ELSE Opened(P, j) + 1
<1> DEFINE S(i) == {x \in 1..i : P.passes[x] # "nosync"}
<1>1. IsFiniteSet(1..j) /\ Cardinality(1..j) = j
  BY FS_Interval
<1>2. IsFiniteSet(S(j)) /\ Cardinality(S(j)) \leq j
  BY <1>1, FS_Subset
<1>3. Cardinality(S(j)) \in Nat
  BY <1>2, FS_CardinalityType
<1>4. S(0) = {}
  OBVIOUS
<1>5. Cardinality(S(0)) = 0
  BY <1>4, FS_EmptySet
<1>6. CASE P.passes[j + 1] = "nosync"
  <2>1. S(j + 1) = S(j)
    BY <1>6
  <2> QED
    BY <2>1, <1>2, <1>3, <1>5, <1>6 DEF Opened
<1>7. CASE P.passes[j + 1] # "nosync"
  <2>1. S(j + 1) = S(j) \cup {j + 1} /\ j + 1 \notin S(j)
    BY <1>7
  <2>2. Cardinality(S(j + 1)) = Cardinality(S(j)) + 1
    BY <2>1, <1>2, FS_AddElement
  <2> QED
    BY <2>2, <1>2, <1>3, <1>5, <1>7 DEF Opened
<1> QED
  BY <1>6, <1>7

\* num_iterations_ only grows.
LEMMA OpenedMonotone ==
  ASSUME NEW P, NEW i \in Nat, NEW j \in Nat, i \leq j
  PROVE  Opened(P, i) \leq Opened(P, j)
<1> DEFINE S(x) == {y \in 1..x : P.passes[y] # "nosync"}
<1>1. IsFiniteSet(1..j)
  BY FS_Interval
<1>2. IsFiniteSet(S(j))
  BY <1>1, FS_Subset
<1>3. S(i) \in SUBSET S(j)
  OBVIOUS
<1>4. Cardinality(S(i)) \leq Cardinality(S(j))
  BY <1>2, <1>3, FS_Subset
<1> QED
  BY <1>4 DEF Opened

\* Past the first iteration no backward under no_sync() delays the reduction.
LEMMA NotDoomed ==
  ASSUME NEW P, NEW k \in Nat, \A i \in 2..k : ~DoomedAt(P, i), Opened(P, k + 1) \notin {0, 1}
  PROVE  ~Doomed(P)
<1> SUFFICES ASSUME NEW i \in 2..Len(P.passes), DoomedAt(P, i)
             PROVE  FALSE
  BY DEF Doomed
<1>1. i \in Nat
  OBVIOUS
<1>2. Opened(P, i) = 1
  BY DEF DoomedAt
<1>3. i \notin 2..k
  OBVIOUS
<1>4. k + 1 \leq i
  BY <1>1, <1>3
<1>5. Opened(P, k + 1) \leq Opened(P, i)
  BY <1>1, <1>4, OpenedMonotone
<1>6. Opened(P, k + 1) \in Nat
  BY OpenedFacts, k + 1 \in Nat
<1> QED
  BY <1>2, <1>5, <1>6

\* Every parameter is in one bucket of a rank, rebuilt or not.
LEMMA LaidOutLayout ==
  ASSUME NEW L, NEW R, NEW l, LaidOut(L, R, l), R.rebuilt \in BOOLEAN
  PROVE  IsLayout(R.buckets)
  BY InitialLayout DEF LaidOut, Sound

\* The types of a rank, as the two invariants state them.
TypedRank(P, R, l, k, f, n) ==
  /\ DOMAIN R = Fields /\ R.expect \in BOOLEAN /\ R.finalize \in BOOLEAN
  /\ R.error = (l = "raised") /\ l \in Locations /\ k \in Nat /\ n \in Nat
  /\ P \in Programs

\* The Reducer of a rank is well formed for mark_bucket_ready.
LEMMA RankSane ==
  ASSUME NEW P, NEW L, NEW R, NEW l, NEW k, NEW f, NEW n,
         TypedRank(P, R, l, k, f, n), Typed(P, R, l, k, f), LaidOut(L, R, l),
         ~R.rebuilt \/ (R.expect /\ l # "raised")
  PROVE  Sane(P, R)
<1>1. IsLayout(R.buckets)
  BY LaidOutLayout DEF Typed
<1>2. R.next \in 1..Len(R.buckets) + 1
  <2>1. R.next \in 1..Cardinality(Params) + 1 /\ R.next \leq Len(R.buckets) + 1
    BY DEF Typed
  <2>2. Cardinality(Params) \in Nat /\ Len(R.buckets) \in 1..Cardinality(Params)
    BY <1>1, ParamsFacts DEF IsLayout
  <2> QED
    BY <2>1, <2>2
<1> QED
  BY <1>1, <1>2 DEF Sane, TypedRank, Typed

\* next_bucket_ is a bucket or the end.
LEMMA SaneNext ==
  ASSUME NEW P, NEW R, Sane(P, R)
  PROVE  R.next \in 1..Cardinality(Params) + 1 /\ R.next \leq Len(R.buckets) + 1
<1>1. Len(R.buckets) \in 1..Cardinality(Params) /\ Cardinality(Params) \in Nat
      /\ R.next \in 1..Len(R.buckets) + 1
  BY ParamsFacts DEF Sane, IsLayout
<1> QED
  BY <1>1

\* A rank that has failed.
LEMMA RaisedRank ==
  ASSUME NEW P, NEW L, NEW R, NEW l, NEW k, NEW f, NEW n, NEW Q, NEW h,
         TypedRank(P, R, l, k, f, n), JRank(P, L, R, l, k, f, n), l \in {"backward", "final"},
         Sane(P, Q), Carried(R, Q), Ledger(P, L, Q, n), h \in [Params -> 0..2]
  PROVE  JRank(P, L, Q, "raised", k, h, n)
<1>1. /\ Typed(P, R, l, k, f) /\ LaidOut(L, R, l)
      /\ R.rebuilt => P.mode # "unused" /\ n \geq First(P)
      /\ ~R.rebuilt /\ P.mode # "unused" => n \leq First(P)
      /\ ~R.rebuilt /\ n = First(P) /\ P.mode # "unused" => l \in {"idle", "indices", "sizes"}
  BY DEF JRank
<1>2. Q.rebuilt = R.rebuilt /\ Q.buckets = R.buckets /\ Q.iterations = R.iterations /\ Q.reduced = R.reduced
  BY DEF Carried
<1>3. Typed(P, Q, "raised", k, h)
  BY <1>1, <1>2, SaneNext DEF Typed, Sane
<1>4. LaidOut(L, Q, "raised")
  BY <1>1, <1>2 DEF LaidOut
<1>5. l \notin {"idle", "indices", "sizes"}
  OBVIOUS
<1> QED
  BY <1>1, <1>2, <1>3, <1>4, <1>5 DEF JRank

\* Nothing was recorded in an order without elements.
LEMMA EmptyRange ==
  ASSUME NEW o \in Seq(Params), Range(o) = {}
  PROVE  o = <<>>
<1>1. \A i \in 1..Len(o) : o[i] \in Range(o)
  BY DEF Range
<1>2. Len(o) = 0
  <2>1. Len(o) \in Nat /\ (Len(o) # 0 => 1 \in 1..Len(o))
    OBVIOUS
  <2> QED
    BY <2>1, <1>1
<1> QED
  BY <1>2

\* The rank is in a backward whose hooks mark parameters.
HooksMark(P, R, l, n) ==
  /\ l = "backward" /\ R.expect
  /\ P.mode = "static" => R.iterations # 1 /\ n # 0

\* In a backward whose hooks mark parameters the round is one of buckets.
LEMMA RankInBuckets ==
  ASSUME NEW P, NEW L, NEW R, NEW l, NEW k, NEW f, NEW n,
         TypedRank(P, R, l, k, f, n), JRank(P, L, R, l, k, f, n),
         l \in {"backward", "final"}, P.mode = "static" => R.iterations # 1 /\ n # 0
  PROVE  InBuckets(P, L, R, n)
<1>00. l \notin {"idle", "indices", "sizes", "raised"}
  OBVIOUS
<1>0. /\ Typed(P, R, l, k, f) /\ LaidOut(L, R, l) /\ R.rebuilt \in BOOLEAN
      /\ n \in Nat /\ k \in Nat /\ P.mode \in Modes
      /\ R.rebuilt => P.mode # "unused" /\ n \geq First(P)
      /\ ~R.rebuilt /\ P.mode # "unused" => n \leq First(P) /\ n # First(P)
  BY <1>00, ProgramsAssumption DEF JRank, Typed, TypedRank
<1>1. R.buckets = IF R.rebuilt THEN L ELSE InitialBuckets
  BY <1>0 DEF LaidOut
<1>2. CASE P.mode = "unused"
  <2>1. ~R.rebuilt
    BY <1>0, <1>2
  <2> QED
    BY <2>1, <1>1, <1>2 DEF InBuckets, Rebuilds, RoundSigs
<1>3. CASE P.mode = "plain"
  <2>1. P.mode # "unused" /\ P.mode # "static" /\ First(P) = 1
    BY <1>3 DEF First
  <2>2. CASE R.rebuilt
    <3>1. Rounds(R, n) = n + 1 /\ n + 1 # 1 /\ ~(n + 1 < 1)
      BY <2>1, <2>2, <1>0 DEF Rounds
    <3> QED
      BY <2>1, <2>2, <3>1, <1>1 DEF InBuckets, Rebuilds, RoundSigs, DelayedRound
  <2>3. CASE ~R.rebuilt
    <3>1. n = 0
      BY <2>1, <2>3, <1>0
    <3>2. Rounds(R, n) = 0
      BY <3>1, <2>3 DEF Rounds
    <3> QED
      BY <2>1, <2>3, <3>2, <1>1 DEF InBuckets, Rebuilds, RoundSigs, DelayedRound
  <2> QED
    BY <2>2, <2>3
<1>4. CASE P.mode = "static"
  <2>1. P.mode # "unused" /\ First(P) = 2
    BY <1>4 DEF First
  <2>2. CASE R.rebuilt
    <3>1. Rounds(R, n) = n + 1 /\ n + 1 # 2 /\ ~(n + 1 < 2) /\ n + 1 # 0 /\ n + 1 # 1
      BY <2>1, <2>2, <1>0 DEF Rounds
    <3> QED
      BY <2>1, <2>2, <3>1, <1>1 DEF InBuckets, Rebuilds, RoundSigs, DelayedRound
  <2>3. CASE ~R.rebuilt
    <3>1. n = 1
      BY <2>1, <2>3, <1>0, <1>4
    <3>2. Rounds(R, n) = 1
      BY <3>1, <2>3 DEF Rounds
    <3>3. Delays(P, R, l, k, f, n)
      <4>1. l # "raised"
        OBVIOUS
      <4> QED
        BY <4>1, <1>4 DEF JRank, Keeps
    <3>4. R.iterations # 0 /\ R.iterations # 1
      BY <3>1, <3>3, <1>4 DEF Delays
    <3>5. R.iterations = Opened(P, k + 1)
      BY <1>0, <1>00 DEF Typed
    <3>6. \A i \in 2..k : ~DoomedAt(P, i)
      BY <3>3 DEF Delays
    <3>7. ~Doomed(P)
      BY <3>4, <3>5, <3>6, <1>0, NotDoomed
    <3> QED
      BY <2>1, <2>3, <3>2, <3>7, <1>1 DEF InBuckets, Rebuilds, RoundSigs, DelayedRound
  <2> QED
    BY <2>2, <2>3
<1> QED
  BY <1>0, <1>2, <1>3, <1>4 DEF Modes

\* A rank in a backward that marks parameters is in the state that the hooks expect.
LEMMA RankInHook ==
  ASSUME NEW P, NEW L, NEW R, NEW l, NEW k, NEW f, NEW n,
         TypedRank(P, R, l, k, f, n), JRank(P, L, R, l, k, f, n), HooksMark(P, R, l, n)
  PROVE  InHook(P, L, R, n)
<1>0. /\ Typed(P, R, l, k, f) /\ LaidOut(L, R, l) /\ Ledger(P, L, R, n) /\ Keeps(P, L, R, l, k, f, n)
      /\ R.rebuilt \in BOOLEAN /\ R.finalize \in BOOLEAN /\ n \in Nat /\ l = "backward" /\ R.expect
      /\ R.callback \in {"none", "delay", "finalize"} /\ R.order \in Seq(Params)
  BY DEF JRank, Typed, TypedRank, HooksMark
<1>1. Progress(P, L, R, l, n) /\ Ordered(P, R, l, n) /\ Marking(R, l)
      /\ (P.mode = "static" => Delays(P, R, l, k, f, n)) /\ (P.mode # "static" => Quiet(P, R))
  BY <1>0 DEF Keeps
<1>2. Sane(P, R)
  BY <1>0, RankSane
<1>3. R.callback # "delay"
  <2>1. CASE P.mode = "static"
    BY <2>1, <1>0, <1>1 DEF Delays, HooksMark
  <2>2. CASE P.mode # "static"
    BY <2>2, <1>1 DEF Quiet
  <2> QED
    BY <2>1, <2>2
<1>4. CASE R.finalize
  <2>1. Underway(P, R) /\ R.marked /\ R.unused \subseteq R.ready
    <3>1. /\ R.marked /\ R.unused \subseteq R.ready
          /\ \A i \in 1..R.next - 1 : Complete(R, i)
          /\ R.next \leq Len(R.buckets) => ~Complete(R, R.next)
          /\ R.callback = IF R.next > Len(R.buckets) THEN "finalize" ELSE "none"
      BY <1>0, <1>1, <1>4 DEF Marking
    <3>2. Issued(R) = IF P.mode = "unused" /\ R.next > Len(R.buckets) THEN R.next ELSE R.next - 1
      BY <1>0, <1>1, <1>4 DEF Progress
    <3> QED
      BY <3>1, <3>2 DEF Underway
  <2>2. Moving(P, R)
    BY <2>1, <1>4 DEF Moving
  <2>3. Recorded(P, R)
    BY <1>0, <1>1, <1>4 DEF Recorded, Ordered
  <2> QED
    BY <2>1, <2>2, <2>3, <1>0, <1>2 DEF InHook
<1>5. CASE ~R.finalize
  <2>1. R.ready = {} /\ R.next = 1 /\ (R.marked => R.unused = {})
    BY <1>0, <1>1, <1>5 DEF Marking
  <2>2. Issued(R) = 0
    <3>1. l \notin {"indices", "sizes"}
      BY <1>0
    <3> QED
      BY <3>1, <1>1, <1>5 DEF Progress
  <2>3. R.callback = "none"
    BY <1>0, <1>1, <1>3, <1>5 DEF Marking
  <2>4. Moving(P, R)
    BY <2>1, <2>2, <2>3, <1>5 DEF Moving, Fresh
  <2>5. Recorded(P, R)
    <3> SUFFICES ASSUME P.mode # "unused", ~R.rebuilt
                 PROVE  Distinct(R.order) /\ Range(R.order) = R.ready \ R.unused
      BY DEF Recorded
    <3>1. n \leq First(P) /\ n # First(P) /\ First(P) \in Nat
      <4>1. l \notin {"idle", "indices", "sizes"}
        BY <1>0
      <4> QED
        BY <4>1, <1>1 DEF Ordered, First
    <3>2. n < First(P)
      BY <3>1, <1>0
    <3>3. R.order = <<>>
      BY <3>2, <1>1, <1>5 DEF Ordered
    <3> QED
      BY <3>3, <2>1, DistinctNone
  <2> QED
    BY <2>1, <2>4, <2>5, <1>0, <1>2, <1>5 DEF InHook
<1> QED
  BY <1>4, <1>5

\* And the other way round.
LEMMA InHookRank ==
  ASSUME NEW P, NEW L, NEW R, NEW l, NEW k, NEW f, NEW n, NEW Q, NEW h,
         TypedRank(P, R, l, k, f, n), JRank(P, L, R, l, k, f, n), HooksMark(P, R, l, n),
         AfterHook(P, L, R, Q, n), ~Q.error, h \in [Params -> 0..2]
  PROVE  JRank(P, L, Q, l, k, h, n)
<1>0. /\ Typed(P, R, l, k, f) /\ LaidOut(L, R, l) /\ Keeps(P, L, R, l, k, f, n)
      /\ R.rebuilt \in BOOLEAN /\ n \in Nat /\ l = "backward" /\ R.expect
      /\ R.rebuilt => P.mode # "unused" /\ n \geq First(P)
      /\ ~R.rebuilt /\ P.mode # "unused" => n \leq First(P)
      /\ ~R.rebuilt /\ n = First(P) /\ P.mode # "unused" => l \in {"idle", "indices", "sizes"}
  BY DEF JRank, Typed, TypedRank, HooksMark
<1>1. Progress(P, L, R, l, n) /\ Ordered(P, R, l, n) /\ Marking(R, l)
      /\ (P.mode = "static" => Delays(P, R, l, k, f, n)) /\ (P.mode # "static" => Quiet(P, R))
  BY <1>0 DEF Keeps
<1>2. /\ Sane(P, Q) /\ Carried(R, Q) /\ Ledger(P, L, Q, n) /\ Moving(P, Q) /\ Recorded(P, Q)
      /\ Q.marked = TRUE /\ Q.unused \subseteq Q.ready
      /\ Q.hooks = R.hooks /\ (P.mode # "static" => Q.left = R.left) /\ (P.mode = "static" => Q.used = R.used)
  BY DEF AfterHook, InHook
<1>3. /\ Q.rebuilt = R.rebuilt /\ Q.buckets = R.buckets /\ Q.iterations = R.iterations /\ Q.reduced = R.reduced
      /\ Q.expect = R.expect /\ Q.unused = R.unused /\ Q.plan = R.plan /\ Q.finalize \in BOOLEAN
  BY <1>2 DEF Carried, Sane
<1>4. Typed(P, Q, l, k, h)
  BY <1>0, <1>2, <1>3, SaneNext DEF Typed, Sane
<1>5. LaidOut(L, Q, l)
  BY <1>0, <1>3 DEF LaidOut
<1>6. l \notin {"idle", "indices", "sizes", "forward", "final", "raised"}
  BY <1>0
<1>7. Progress(P, L, Q, l, n)
  BY <1>2, <1>6 DEF Progress, Moving, Underway, Fresh
<1>8. Ordered(P, Q, l, n)
  <2>1. ASSUME P.mode # "unused", ~Q.rebuilt
        PROVE  /\ Distinct(Q.order) /\ Range(Q.order) = Q.ready \ Q.unused
               /\ ~Q.finalize => Q.order = <<>>
    <3>1. Distinct(Q.order) /\ Range(Q.order) = Q.ready \ Q.unused
      BY <2>1, <1>2 DEF Recorded
    <3>2. ASSUME ~Q.finalize
          PROVE  Q.order = <<>>
      <4>1. Q.ready = {}
        BY <3>2, <1>2 DEF Moving, Fresh
      <4>2. Range(Q.order) = {}
        BY <3>1, <4>1
      <4>3. Q.order \in Seq(Params)
        BY <1>2 DEF Sane
      <4> QED
        BY <4>2, <4>3, EmptyRange
    <3> QED
      BY <3>1, <3>2
  <2>2. ~Q.rebuilt /\ P.mode # "unused" => n \leq First(P) /\ n # First(P)
    BY <1>0, <1>3, <1>6
  <2> QED
    BY <2>1, <2>2, <1>0, <1>3, <1>6 DEF Ordered
<1>9. Marking(Q, l)
  <2>1. Q.finalize => Underway(P, Q)
    BY <1>2 DEF Moving
  <2>2. ~Q.finalize => Q.ready = {} /\ Q.next = 1 /\ Q.callback = "none" /\ Q.unused = {}
    BY <1>2 DEF Moving, Fresh
  <2>3. "none" # "finalize" /\ l \notin InForward
    BY <1>0 DEF InForward
  <2> QED
    BY <2>1, <2>2, <2>3, <1>0, <1>2, <1>3, <1>6 DEF Marking, Underway
<1>10. CASE P.mode = "static"
  <2>1. Delays(P, R, l, k, f, n) /\ R.iterations # 1 /\ n # 0
    BY <1>10, <1>1 DEF HooksMark
  <2>2. n > 0 /\ Q.used = R.used
    BY <2>1, <1>0, <1>2, <1>10
  <2>3. Q.callback # "delay"
    BY <1>2 DEF Moving, Underway, Fresh
  <2>4. Delays(P, Q, l, k, h, n)
    BY <2>1, <2>2, <2>3, <1>0, <1>3, <1>6 DEF Delays
  <2> QED
    BY <2>4, <1>0, <1>2, <1>3, <1>4, <1>5, <1>7, <1>8, <1>9, <1>10 DEF JRank, Keeps
<1>11. CASE P.mode # "static"
  <2>1. Q.callback # "delay"
    BY <1>2 DEF Moving, Underway, Fresh
  <2>2. Quiet(P, Q)
    BY <2>1, <1>1, <1>2, <1>3, <1>11 DEF Quiet, NoHooks
  <2> QED
    BY <2>2, <1>0, <1>2, <1>3, <1>4, <1>5, <1>7, <1>8, <1>9, <1>11 DEF JRank, Keeps
<1> QED
  BY <1>10, <1>11

\* What a step of the rank may not change while its round goes on.
Kept(R, Q) == Q.done = R.done /\ Q.rebuilt = R.rebuilt /\ Q.plan = R.plan /\ Q.buckets = R.buckets

\* Q is R after a step that does not end a round.
StepsTo(P, L, R, Q, l, k, f, n) == JRank(P, L, Q, l, k, f, n) /\ Kept(R, Q)

\* A hook of the first iteration of a static graph only counts.
LEMMA CountedHookRank ==
  ASSUME NEW P, P = program, NEW L, NEW R, NEW k, NEW f, NEW n, NEW g, NEW p \in Params, NEW Q, NEW h,
         TypedRank(P, R, "backward", k, f, n), JRank(P, L, R, "backward", k, f, n),
         f[p] > 0, h = [f EXCEPT ![p] = @ - 1], Q = AutogradHook(R, g, p),
         R.expect, P.mode = "static", R.iterations = 1
  PROVE  StepsTo(P, L, R, Q, "backward", k, h, n) /\ Q.error = FALSE
<1> DEFINE l == "backward"
           T == MarkUsed(R, g, p)
<1>0. /\ Typed(P, R, l, k, f) /\ LaidOut(L, R, l) /\ Keeps(P, L, R, l, k, f, n) /\ Ledger(P, L, R, n)
      /\ DOMAIN R = Fields /\ R.error = FALSE /\ n \in Nat /\ R.finalize \in BOOLEAN
      /\ R.rebuilt => P.mode # "unused" /\ n \geq First(P)
      /\ ~R.rebuilt /\ P.mode # "unused" => n \leq First(P)
      /\ ~R.rebuilt /\ n = First(P) /\ P.mode # "unused" => l \in {"idle", "indices", "sizes"}
  BY DEF JRank, TypedRank
<1>1. Progress(P, L, R, l, n) /\ Ordered(P, R, l, n) /\ Marking(R, l) /\ Delays(P, R, l, k, f, n)
  BY <1>0 DEF Keeps
<1> DEFINE H == [T.hooks EXCEPT ![p] = @ + 1]
<1>2. Q = [T EXCEPT !.hooks = H]
  BY DEF AutogradHook, StaticFirst, Mode
<1>3. /\ DOMAIN T = Fields /\ T.used \subseteq Params /\ T.hooks = R.hooks
      /\ T.iterations = R.iterations /\ T.expect = R.expect /\ T.finalize = R.finalize
      /\ T.buckets = R.buckets /\ T.next = R.next /\ T.ready = R.ready /\ T.view = R.view
      /\ T.unused = R.unused /\ T.marked = R.marked /\ T.reduced = R.reduced /\ T.left = R.left
      /\ T.order = R.order /\ T.rebuilt = R.rebuilt /\ T.plan = R.plan /\ T.callback = R.callback
      /\ T.work = R.work /\ T.done = R.done /\ T.error = R.error
  <2>1. R.used \subseteq Params
    BY <1>0 DEF Typed
  <2>2. CASE (DynamicFindUnused \/ StaticFirst(R)) /\ g[p] # {}
    <3>1. T = [R EXCEPT !.used = @ \cup {p}]
      BY <2>2 DEF MarkUsed
    <3> HIDE DEF T
    <3> QED
      BY <2>1, <3>1, <1>0 DEF Fields
  <2>3. CASE ~((DynamicFindUnused \/ StaticFirst(R)) /\ g[p] # {})
    <3>1. T = R
      BY <2>3 DEF MarkUsed
    <3> QED
      BY <2>1, <3>1, <1>0
  <2> QED
    BY <2>2, <2>3
<1>3b. H = [R.hooks EXCEPT ![p] = @ + 1]
  BY <1>3
<1> HIDE DEF T, H
<1>4. /\ DOMAIN Q = Fields /\ Q.used = T.used /\ Q.hooks = H
      /\ Q.iterations = R.iterations /\ Q.expect = R.expect /\ Q.finalize = R.finalize
      /\ Q.buckets = R.buckets /\ Q.next = R.next /\ Q.ready = R.ready /\ Q.view = R.view
      /\ Q.unused = R.unused /\ Q.marked = R.marked /\ Q.reduced = R.reduced /\ Q.left = R.left
      /\ Q.order = R.order /\ Q.rebuilt = R.rebuilt /\ Q.plan = R.plan /\ Q.callback = R.callback
      /\ Q.work = R.work /\ Q.done = R.done /\ Q.error = R.error
  BY ZenonT(40), <1>2, <1>3 DEF Fields
<1>5. n = 0 /\ ~R.finalize /\ R.hooks[p] + f[p] \leq 2 /\ \A q \in Params : R.hooks[q] + f[q] \leq 2
  <2>1. n = 0 /\ \A q \in Params : R.hooks[q] + f[q] \leq 2
    BY <1>1 DEF Delays
  <2>2. "backward" # "final"
    OBVIOUS
  <2>3. ~R.finalize
    BY <1>1, <2>2, <1>0 DEF Delays
  <2> QED
    BY <2>1, <2>3
<1>6. f \in [Params -> 0..2] /\ R.hooks \in [Params -> 0..2]
  BY <1>0 DEF Typed
<1>7. /\ Q.hooks \in [Params -> 0..2] /\ h \in [Params -> 0..2]
      /\ \A q \in Params : Q.hooks[q] + h[q] \leq 2
  <2>1. R.hooks[p] \in 0..2 /\ f[p] \in 0..2
    BY <1>6
  <2>2. R.hooks[p] + 1 \in 0..2 /\ f[p] - 1 \in 0..2 /\ (R.hooks[p] + 1) + (f[p] - 1) \leq 2
    BY <2>1, <1>5
  <2>3. h = [f EXCEPT ![p] = f[p] - 1] /\ Q.hooks = [R.hooks EXCEPT ![p] = R.hooks[p] + 1]
    BY <1>3b, <1>4
  <2> QED
    BY <2>2, <2>3, <1>5, <1>6
<1>8. Typed(P, Q, l, k, h)
  BY <1>0, <1>3, <1>4, <1>7 DEF Typed
<1>9. LaidOut(L, Q, l)
  BY <1>0, <1>4 DEF LaidOut
<1>10. Ledger(P, L, Q, n) /\ Issued(Q) = Issued(R)
  BY <1>0, <1>4, LedgerSame
<1>11. Progress(P, L, Q, l, n)
  BY <1>1, <1>4, <1>5, <1>10 DEF Progress
<1>12. Ordered(P, Q, l, n)
  BY <1>1, <1>4 DEF Ordered
<1>13. Marking(Q, l)
  BY <1>1, <1>4, <1>5 DEF Marking
<1>14. Delays(P, Q, l, k, h, n)
  <2>1. l \in {"backward", "final"} /\ l = "backward"
    OBVIOUS
  <2> QED
    BY <2>1, <1>1, <1>4, <1>5, <1>7 DEF Delays
<1>15. Keeps(P, L, Q, l, k, h, n)
  BY <1>11, <1>12, <1>13, <1>14 DEF Keeps
<1>16. JRank(P, L, Q, l, k, h, n)
  BY <1>0, <1>4, <1>8, <1>9, <1>10, <1>15 DEF JRank
<1> QED
  BY <1>0, <1>4, <1>16 DEF StepsTo, Kept

\* A hook of any other backward.
LEMMA HookRank ==
  ASSUME NEW P, P = program, NEW L, NEW R, NEW k, NEW f, NEW n,
         NEW g \in [Params -> Given(P)], NEW p \in Params, NEW Q, NEW h,
         TypedRank(P, R, "backward", k, f, n), JRank(P, L, R, "backward", k, f, n),
         f[p] > 0, h = [f EXCEPT ![p] = @ - 1], Q = AutogradHook(R, g, p)
  PROVE  StepsTo(P, L, R, Q, IF Q.error THEN "raised" ELSE "backward", k, h, n)
<1> DEFINE l == "backward"
<1>0. /\ Typed(P, R, l, k, f) /\ LaidOut(L, R, l) /\ Keeps(P, L, R, l, k, f, n) /\ Ledger(P, L, R, n)
      /\ DOMAIN R = Fields /\ R.error = FALSE /\ n \in Nat /\ R.expect \in BOOLEAN
      /\ R.rebuilt => P.mode # "unused" /\ n \geq First(P)
      /\ ~R.rebuilt /\ P.mode # "unused" => n \leq First(P)
      /\ ~R.rebuilt /\ n = First(P) /\ P.mode # "unused" => l \in {"idle", "indices", "sizes"}
  BY DEF JRank, TypedRank
<1>1. Progress(P, L, R, l, n) /\ Ordered(P, R, l, n) /\ Marking(R, l)
      /\ (P.mode = "static" => Delays(P, R, l, k, f, n)) /\ (P.mode # "static" => Quiet(P, R))
  BY <1>0 DEF Keeps
<1>2. h \in [Params -> 0..2]
  <2>1. f \in [Params -> 0..2]
    BY <1>0 DEF Typed
  <2>2. f[p] - 1 \in 0..2
    BY <2>1
  <2> QED
    BY <2>1, <2>2
<1>3. R.expect => Sane(P, R)
  BY <1>0, RankSane
<1>4. CASE ~R.expect
  <2>1. Q = R
    BY <1>4 DEF AutogradHook
  <2>2. Typed(P, R, l, k, h)
    BY <1>0, <1>2 DEF Typed
  <2>3. P.mode = "static" => Delays(P, R, l, k, h, n)
    BY <1>1, <1>4 DEF Delays
  <2>4. Keeps(P, L, R, l, k, h, n)
    BY <2>3, <1>1 DEF Keeps
  <2>5. JRank(P, L, R, l, k, h, n)
    BY <2>2, <2>4, <1>0 DEF JRank
  <2> QED
    BY <2>1, <2>5, <1>0 DEF StepsTo, Kept
<1>5. CASE R.expect /\ P.mode = "static" /\ R.iterations = 1
  BY <1>5, CountedHookRank
<1>6. CASE R.expect /\ P.mode = "static" /\ R.iterations # 1 /\ n = 0
  <2>1. R.left = [q \in Params |-> 0] /\ R.unused = {}
    BY <1>1, <1>6 DEF Delays
  <2>2. R.left[p] = 0
    BY <2>1
  <2>3. Q = [R EXCEPT !.marked = TRUE, !.error = TRUE] \/ Q = [R EXCEPT !.error = TRUE]
    <3>1. DOMAIN R = Fields /\ R.error = FALSE /\ P.mode = "static" /\ R.iterations # 1 /\ R.expect
      BY <1>0, <1>6
    <3>2. Uncounted(R, AutogradHook(R, g, p))
      BY <2>1, <2>2, <3>1, UncountedHook
    <3> QED
      BY <3>2 DEF Uncounted
  <2>4. /\ DOMAIN Q = Fields /\ Q.error = TRUE /\ Q.marked \in BOOLEAN
        /\ Q.iterations = R.iterations /\ Q.expect = R.expect /\ Q.finalize = R.finalize
        /\ Q.buckets = R.buckets /\ Q.next = R.next /\ Q.ready = R.ready /\ Q.view = R.view
        /\ Q.unused = R.unused /\ Q.reduced = R.reduced /\ Q.left = R.left /\ Q.hooks = R.hooks
        /\ Q.order = R.order /\ Q.rebuilt = R.rebuilt /\ Q.plan = R.plan /\ Q.callback = R.callback
        /\ Q.work = R.work /\ Q.done = R.done /\ Q.used = R.used
    <3>1. R.marked \in BOOLEAN
      BY <1>3, <1>6 DEF Sane
    <3> QED
      BY ZenonT(40), <2>3, <3>1, <1>0 DEF Fields
  <2>5. Sane(P, Q)
    BY <2>4, <1>3, <1>6 DEF Sane
  <2>6. Carried(R, Q)
    BY <2>4 DEF Carried
  <2>7. Ledger(P, L, Q, n)
    BY <2>4, <1>0, LedgerSame
  <2>8. JRank(P, L, Q, "raised", k, h, n)
    BY <2>5, <2>6, <2>7, <1>2, RaisedRank
  <2> QED
    BY <2>4, <2>8 DEF StepsTo, Kept
<1>7. CASE R.expect /\ (P.mode = "static" => R.iterations # 1 /\ n # 0)
  <2>1. HooksMark(P, R, l, n)
    BY <1>7 DEF HooksMark
  <2>2. InHook(P, L, R, n)
    BY <2>1, RankInHook
  <2>3. InBuckets(P, L, R, n)
    BY <1>7, RankInBuckets
  <2>4. AfterHook(P, L, R, Q, n)
    BY <2>2, <2>3, <1>0, <1>7, HookReady
  <2>5. Sane(P, Q) /\ Carried(R, Q) /\ Ledger(P, L, Q, n) /\ Q.error \in BOOLEAN
    BY <2>4 DEF AfterHook
  <2>6. Kept(R, Q)
    BY <2>5 DEF Carried, Kept
  <2>7. CASE Q.error
    <3>1. JRank(P, L, Q, "raised", k, h, n)
      BY <2>5, <1>2, RaisedRank
    <3> QED
      BY <3>1, <2>6, <2>7 DEF StepsTo
  <2>8. CASE ~Q.error
    <3>1. JRank(P, L, Q, l, k, h, n)
      BY <2>1, <2>4, <2>8, <1>2, InHookRank
    <3> QED
      BY <3>1, <2>6, <2>8 DEF StepsTo
  <2> QED
    BY <2>7, <2>8
<1> QED
  BY <1>0, <1>4, <1>5, <1>6, <1>7

\* The program of a rank.
LEMMA ProgramFacts ==
  ASSUME NEW P \in Programs
  PROVE  P.mode \in Modes /\ P.passes \in Seq(Passes) /\ Len(P.passes) \in Nat /\ First(P) \in 1..2
  BY ProgramsAssumption DEF First

\* Q is R in the next forward: num_iterations_ has advanced, and the layout or the collectives may be new.
Advanced(P, R, Q, k) ==
  /\ DOMAIN Q = Fields /\ Q.used = R.used /\ Q.hooks = R.hooks
  /\ Q.iterations = (IF P.passes[k + 1] = "nosync" THEN R.iterations ELSE R.iterations + 1)
  /\ Q.expect = R.expect /\ Q.finalize = R.finalize
  /\ Q.buckets = R.buckets /\ Q.next = R.next /\ Q.ready = R.ready /\ Q.view = R.view
  /\ Q.unused = R.unused /\ Q.marked = R.marked /\ Q.reduced = R.reduced /\ Q.left = R.left
  /\ Q.order = R.order /\ Q.rebuilt = R.rebuilt /\ Q.callback = R.callback
  /\ Q.done = R.done

\* The types after prepare_for_forward.
LEMMA AdvancedFacts ==
  ASSUME NEW P, NEW R, NEW Q, NEW l, NEW k, NEW f, NEW n,
         TypedRank(P, R, "idle", k, f, n), Typed(P, R, "idle", k, f), k < Len(P.passes),
         Advanced(P, R, Q, k), l \in InForward \cup {"raised"}
  PROVE  Typed(P, Q, l, k, f) /\ Q.iterations = Opened(P, k + 1) /\ k + 1 \in Nat
<1>0. k \in Nat /\ Len(P.passes) \in Nat
  BY ProgramFacts DEF TypedRank
<1>1. R.iterations = Opened(P, k)
  BY DEF Typed
<1>2. Q.iterations = Opened(P, k + 1)
  BY <1>0, <1>1, OpenedFacts DEF Advanced
<1>3. Opened(P, k + 1) \in 0..k + 1
  BY <1>0, k + 1 \in Nat, OpenedFacts
<1>4. Q.iterations \in 0..Len(P.passes)
  BY <1>0, <1>2, <1>3
<1>5. l \notin {"idle", "backward", "final"}
  BY DEF InForward
<1> QED
  BY <1>0, <1>2, <1>4, <1>5 DEF Typed, Advanced

\* What is delayed, from one forward to the next.
LEMMA ForwardDelays ==
  ASSUME NEW P, NEW R, NEW Q, NEW l, NEW k, NEW f, NEW n,
         Delays(P, R, "idle", k, f, n), Typed(P, R, "idle", k, f), R.expect \in BOOLEAN,
         Advanced(P, R, Q, k), ~R.finalize, l \in InForward
  PROVE  Delays(P, Q, l, k, f, n)
<1>0. l \notin {"idle", "backward", "final"} /\ l \in {"idle", "indices", "sizes", "forward"}
  BY DEF InForward
<1>1. "idle" \notin InForward /\ "idle" \notin {"backward", "final"}
  BY DEF InForward
<1>2. R.iterations \in Nat
  BY DEF Typed
<1>3. NoHooks(Q) <=> NoHooks(R)
  BY DEF NoHooks, Advanced
<1>4. CASE P.passes[k + 1] = "nosync"
  <2>1. Q.iterations = R.iterations
    BY <1>4 DEF Advanced
  <2>2. /\ Q.expect = R.expect /\ Q.finalize = R.finalize /\ Q.left = R.left /\ Q.unused = R.unused
        /\ Q.reduced = R.reduced /\ Q.used = R.used /\ Q.hooks = R.hooks
    BY DEF Advanced
  <2> QED
    BY <2>1, <2>2, <1>0, <1>1, <1>3, <1>4 DEF Delays
<1>5. CASE P.passes[k + 1] # "nosync"
  <2>1. Q.iterations = R.iterations + 1
    BY <1>5 DEF Advanced
  <2>2. /\ Q.expect = R.expect /\ Q.finalize = R.finalize /\ Q.left = R.left /\ Q.unused = R.unused
        /\ Q.reduced = R.reduced /\ Q.used = R.used /\ Q.hooks = R.hooks
    BY DEF Advanced
  <2>3. Q.iterations # 0 /\ (Q.iterations = 1 => R.iterations = 0)
    BY <2>1, <1>2
  <2>4. Q.iterations = 1 => n = 0 /\ ~Q.expect
    BY <2>2, <2>3 DEF Delays
  <2> QED
    BY <2>2, <2>3, <2>4, <1>0, <1>1, <1>3, <1>5 DEF Delays
<1> QED
  BY <1>4, <1>5

\* ensure_prior_reduction_finished fails.
LEMMA UnfinishedRank ==
  ASSUME NEW P, NEW L, NEW R, NEW k, NEW f, NEW n, NEW Q,
         TypedRank(P, R, "idle", k, f, n), JRank(P, L, R, "idle", k, f, n), k < Len(P.passes),
         R.finalize, Advanced(P, R, Q, k), Q.plan = R.plan, Q.work = R.work
  PROVE  StepsTo(P, L, R, Q, "raised", k, f, n)
<1>0. /\ Typed(P, R, "idle", k, f) /\ LaidOut(L, R, "idle") /\ Ledger(P, L, R, n)
      /\ Keeps(P, L, R, "idle", k, f, n)
      /\ R.rebuilt => P.mode # "unused" /\ n \geq First(P)
      /\ ~R.rebuilt /\ P.mode # "unused" => n \leq First(P)
  BY DEF JRank
<1>1. Typed(P, Q, "raised", k, f)
  BY <1>0, AdvancedFacts
<1>2. Q.done = R.done /\ Q.rebuilt = R.rebuilt /\ Q.buckets = R.buckets
  BY DEF Advanced
<1>3. LaidOut(L, Q, "raised")
  BY <1>0, <1>2 DEF LaidOut
<1>4. Ledger(P, L, Q, n)
  BY <1>0, <1>2, LedgerSame
<1>5. ~(~R.rebuilt /\ n = First(P) /\ P.mode # "unused")
  BY <1>0 DEF Keeps, Ordered
<1> QED
  BY <1>0, <1>1, <1>2, <1>3, <1>4, <1>5 DEF StepsTo, JRank, Kept

\* An order of all parameters is not empty.
LEMMA PermNotEmpty ==
  ASSUME NEW o, IsPerm(o)
  PROVE  o # <<>> /\ Len(o) = Cardinality(Params)
<1>1. Len(o) = Cardinality(Params) /\ Cardinality(Params) \geq 1
  BY ParamsFacts DEF IsPerm
<1> QED
  BY <1>1, ParamsFacts

\* forward() calls the module.
LEMMA ForwardRank ==
  ASSUME NEW P, NEW L, NEW R, NEW k, NEW f, NEW n, NEW Q,
         TypedRank(P, R, "idle", k, f, n), JRank(P, L, R, "idle", k, f, n), k < Len(P.passes),
         ~R.finalize, P.mode = "unused" \/ R.rebuilt \/ R.order = <<>>,
         Advanced(P, R, Q, k), Q.plan = R.plan, Q.work = R.work
  PROVE  StepsTo(P, L, R, Q, "forward", k, f, n)
<1>0. /\ Typed(P, R, "idle", k, f) /\ LaidOut(L, R, "idle") /\ Ledger(P, L, R, n)
      /\ Keeps(P, L, R, "idle", k, f, n)
      /\ R.rebuilt => P.mode # "unused" /\ n \geq First(P)
      /\ ~R.rebuilt /\ P.mode # "unused" => n \leq First(P)
      /\ R.expect \in BOOLEAN
  BY DEF JRank, TypedRank
<1>1. Progress(P, L, R, "idle", n) /\ Ordered(P, R, "idle", n) /\ Marking(R, "idle")
      /\ (P.mode = "static" => Delays(P, R, "idle", k, f, n)) /\ (P.mode # "static" => Quiet(P, R))
  BY <1>0 DEF Keeps
<1>2. Typed(P, Q, "forward", k, f)
  BY <1>0, AdvancedFacts DEF InForward
<1>3. /\ Q.done = R.done /\ Q.rebuilt = R.rebuilt /\ Q.buckets = R.buckets /\ Q.finalize = R.finalize
      /\ Q.order = R.order /\ Q.expect = R.expect /\ Q.ready = R.ready /\ Q.next = R.next
      /\ Q.marked = R.marked /\ Q.unused = R.unused /\ Q.callback = R.callback /\ Q.hooks = R.hooks
      /\ Q.left = R.left
  BY DEF Advanced
<1>4. LaidOut(L, Q, "forward")
  BY <1>0, <1>3 DEF LaidOut
<1>5. Ledger(P, L, Q, n) /\ Issued(Q) = Issued(R)
  BY <1>0, <1>3, LedgerSame
<1>6. ~(~R.rebuilt /\ n = First(P) /\ P.mode # "unused")
  BY <1>1, PermNotEmpty DEF Ordered
<1>7. Progress(P, L, Q, "forward", n)
  <2>1. "idle" \notin {"indices", "sizes"}
    OBVIOUS
  <2>2. Issued(Q) = 0
    BY <2>1, <1>1, <1>5 DEF Progress
  <2> QED
    BY <2>2, <1>3 DEF Progress
<1>8. Ordered(P, Q, "forward", n)
  BY <1>1, <1>3, <1>6 DEF Ordered
<1>9. Marking(Q, "forward")
  BY <1>1, <1>3 DEF Marking
<1>10. P.mode = "static" => Delays(P, Q, "forward", k, f, n)
  BY <1>0, <1>1, ForwardDelays DEF InForward
<1>11. P.mode # "static" => Quiet(P, Q)
  BY <1>1, <1>3 DEF Quiet, NoHooks
<1>12. Keeps(P, L, Q, "forward", k, f, n)
  BY <1>7, <1>8, <1>9, <1>10, <1>11 DEF Keeps
<1>13. JRank(P, L, Q, "forward", k, f, n)
  BY <1>0, <1>2, <1>3, <1>4, <1>5, <1>6, <1>12 DEF JRank
<1> QED
  BY <1>3, <1>13 DEF StepsTo, Kept

\* The round of rebuild_buckets.
LEMMA RebuildRound ==
  ASSUME NEW P, NEW L, NEW c, Rebuilds(P, c)
  PROVE  /\ Len(RoundSigs(P, L, c)) = 2
         /\ RoundSigs(P, L, c)[1] = <<"indices", <<Cardinality(Params) + 1>>>>
         /\ RoundSigs(P, L, c)[2] = <<"sizes", <<Len(L)>>>>
<1>1. RoundSigs(P, L, c) = RebuildSigs(L)
  BY DEF RoundSigs, Rebuilds
<1> QED
  BY <1>1 DEF RebuildSigs

\* A single collective.
LEMMA OneWork ==
  ASSUME NEW P, NEW w, IsWork(P, w)
  PROVE  IsWorks(P, <<w>>) /\ Len(<<w>>) = 1 /\ <<w>>[1] = w
<1>1. <<w>> \in Seq({w}) /\ Len(<<w>>) = 1 /\ <<w>>[1] = w
  OBVIOUS
<1>2. <<w>> \in Seq(Range(<<w>>))
  BY <1>1, SeqOfRange
<1> QED
  BY <1>1, <1>2 DEF IsWorks

\* Issuing one appends it.
LEMMA AppendWork ==
  ASSUME NEW P, NEW s, NEW w, IsWorks(P, s)
  PROVE  Append(s, w) = s \o <<w>>
<1>1. s \in Seq(Range(s) \cup {w}) /\ w \in Range(s) \cup {w}
  <2>1. s \in Seq(Range(s))
    BY DEF IsWorks
  <2> QED
    BY <2>1, SeqMonotonic
<1> HIDE DEF IsWorks
<1> DEFINE D == Range(s) \cup {w}
<1>2. s \in Seq(D) /\ w \in D
  BY <1>1
<1> HIDE DEF D
<1> QED
  BY <1>2, AppendIsConcat

\* A rank that has issued nothing, before the layout is known and after.
LEMMA LedgerNone ==
  ASSUME NEW P, NEW L, NEW M, NEW R, NEW n, Ledger(P, L, R, n), Issued(R) = 0, Rebuilds(P, Rounds(R, n))
  PROVE  Ledger(P, M, R, n) /\ R.work = <<>> /\ R.done = <<>>
<1>1. IsWorks(P, R.done) /\ IsWorks(P, R.work)
  BY DEF Ledger
<1>2. Len(R.done) \in Nat /\ Len(R.work) \in Nat
  BY <1>1 DEF IsWorks
<1>3. Len(R.done) = 0 /\ Len(R.work) = 0
  <2> DEFINE d == Len(R.done)
             w == Len(R.work)
  <2>1. d + w = 0 /\ d \in Nat /\ w \in Nat
    BY <1>2 DEF Issued
  <2> HIDE DEF d, w
  <2>2. d = 0 /\ w = 0
    BY ONLY <2>1
  <2> QED
    BY <2>2 DEF d, w
<1>4. Len(RoundSigs(P, M, Rounds(R, n))) = 2
  BY RebuildRound
<1>5. R.work = <<>> /\ R.done = <<>>
  BY <1>1, <1>3 DEF IsWorks
<1> QED
  BY <1>1, <1>3, <1>4, <1>5 DEF Ledger

\* The order in which the gradients were accumulated is complete when it is used.
LEMMA RebuildDue ==
  ASSUME NEW P, NEW L, NEW R, NEW k, NEW f, NEW n,
         TypedRank(P, R, "idle", k, f, n), JRank(P, L, R, "idle", k, f, n), ~R.finalize,
         P.mode # "unused", ~R.rebuilt, R.order # <<>>
  PROVE  n = First(P) /\ IsPerm(R.order) /\ Issued(R) = 0 /\ Rebuilds(P, Rounds(R, n))
<1>0. Keeps(P, L, R, "idle", k, f, n) /\ n \in Nat /\ First(P) \in Nat
  BY ProgramFacts DEF JRank, TypedRank
<1>1. n \leq First(P) /\ ~(n < First(P)) /\ (n = First(P) => IsPerm(R.order))
  BY <1>0 DEF Keeps, Ordered
<1>2. n = First(P)
  BY <1>0, <1>1
<1>3. "idle" \notin {"indices", "sizes"}
  OBVIOUS
<1>4. Issued(R) = 0
  BY <1>0, <1>3 DEF Keeps, Progress
<1> QED
  BY <1>1, <1>2, <1>4 DEF Rebuilds, Rounds

\* What a rank broadcasts for its own plan.
IndicesWork(B) == Work("indices", <<Cardinality(Params) + 1>>, [flat |-> FlattenSeq(B), buckets |-> Len(B)])

\* rebuild_buckets broadcasts the indices.
LEMMA RebuildRank ==
  ASSUME NEW P, NEW L, NEW M, NEW R, NEW k, NEW f, NEW n, NEW Q,
         TypedRank(P, R, "idle", k, f, n), JRank(P, L, R, "idle", k, f, n), k < Len(P.passes),
         ~R.finalize, P.mode # "unused", ~R.rebuilt, R.order # <<>>,
         Advanced(P, R, Q, k), Q.plan = Assign(R.order), Q.work = Append(R.work, IndicesWork(Q.plan))
  PROVE  JRank(P, M, Q, "indices", k, f, n) /\ (M = Q.plan => Announces(P, M, Q, n))
<1> DEFINE l == "indices"
           w == IndicesWork(Q.plan)
<1>0. /\ Typed(P, R, "idle", k, f) /\ LaidOut(L, R, "idle") /\ Ledger(P, L, R, n)
      /\ Keeps(P, L, R, "idle", k, f, n)
      /\ R.expect \in BOOLEAN
  BY DEF JRank, TypedRank
<1>1. Progress(P, L, R, "idle", n) /\ Ordered(P, R, "idle", n) /\ Marking(R, "idle")
      /\ (P.mode = "static" => Delays(P, R, "idle", k, f, n)) /\ (P.mode # "static" => Quiet(P, R))
  BY <1>0 DEF Keeps
<1>2. n = First(P) /\ IsPerm(R.order) /\ Issued(R) = 0 /\ Rebuilds(P, Rounds(R, n)) /\ n \in Nat
  BY RebuildDue DEF TypedRank
<1>3. /\ Q.done = R.done /\ Q.rebuilt = R.rebuilt /\ Q.buckets = R.buckets /\ Q.finalize = R.finalize
      /\ Q.order = R.order /\ Q.expect = R.expect /\ Q.ready = R.ready /\ Q.next = R.next
      /\ Q.marked = R.marked /\ Q.unused = R.unused /\ Q.callback = R.callback /\ Q.hooks = R.hooks
      /\ Q.left = R.left
  BY DEF Advanced
<1>4. Typed(P, Q, l, k, f)
  BY <1>0, AdvancedFacts DEF InForward
<1>5. Ledger(P, M, R, n) /\ R.work = <<>> /\ R.done = <<>>
  BY <1>0, <1>2, LedgerNone
<1>6. IsWork(P, w) /\ Sig(w) = <<"indices", <<Cardinality(Params) + 1>>>>
      /\ w.data = [flat |-> FlattenSeq(Q.plan), buckets |-> Len(Q.plan)]
  <2>1. w = [kind |-> "indices", key |-> <<Cardinality(Params) + 1>>,
             data |-> [flat |-> FlattenSeq(Q.plan), buckets |-> Len(Q.plan)]]
    BY DEF IndicesWork, Work
  <2> HIDE DEF w
  <2>2. DOMAIN w = {"kind", "key", "data"} /\ w.kind = "indices" /\ w.key = <<Cardinality(Params) + 1>>
        /\ w.data = [flat |-> FlattenSeq(Q.plan), buckets |-> Len(Q.plan)]
    BY <2>1
  <2>3. "indices" # "used" /\ "indices" # "bucket"
    OBVIOUS
  <2> QED
    BY <2>2, <2>3 DEF IsWork, Sig
<1> HIDE DEF w
<1>7. IsWorks(P, <<w>>) /\ Len(<<w>>) = 1 /\ <<w>>[1] = w
  BY <1>6, OneWork
<1>8. Q.work = R.work \o <<w>>
  <2>1. IsWorks(P, R.work)
    BY <1>5 DEF Ledger
  <2>2. Q.work = Append(R.work, w)
    BY DEF w
  <2> QED
    BY ZenonT(40), <2>1, <2>2, AppendWork
<1>9. Issues(P, M, R, Q, n, <<w>>)
  <2> DEFINE S == RoundSigs(P, M, Rounds(R, n))
  <2>1. Len(S) = 2 /\ S[1] = <<"indices", <<Cardinality(Params) + 1>>>>
    BY <1>2, RebuildRound
  <2> HIDE DEF S
  <2>2. ASSUME NEW i \in 1..Len(<<w>>)
        PROVE  Sig(<<w>>[i]) = S[Issued(R) + i]
    <3>1. i = 1 /\ Issued(R) + i = 1
      BY <1>2, <1>7
    <3> QED
      BY <3>1, <2>1, <1>6, <1>7
  <2>3. Issued(R) + Len(<<w>>) = 1
    BY <1>2, <1>7
  <2>4. 1 \leq 2 /\ 1 \leq 1
    OBVIOUS
  <2>5. Issued(R) + Len(<<w>>) \leq Len(S) /\ Issued(R) + Len(<<w>>) \leq 1
    BY <2>1, <2>3, <2>4
  <2> QED
    BY <2>2, <2>5, <1>3, <1>7, <1>8 DEF Issues, S
<1>10. Ledger(P, M, Q, n) /\ Issued(Q) = 1
  <2> DEFINE t == <<w>>
  <2>1. Ledger(P, M, R, n)
    BY <1>5
  <2>2. Issues(P, M, R, Q, n, t)
    BY <1>9
  <2>3. Len(t) = 1
    BY <1>7
  <2> HIDE DEF t
  <2>4. Ledger(P, M, Q, n) /\ Issued(Q) = Issued(R) + Len(t)
    BY ONLY <2>1, <2>2, LedgerIssue
  <2> QED
    BY <2>3, <2>4, <1>2
<1>11. LaidOut(M, Q, l)
  BY <1>0, <1>3 DEF LaidOut
<1>12. Progress(P, M, Q, l, n)
  BY <1>3, <1>10 DEF Progress
<1>13. Ordered(P, Q, l, n)
  <2>1. ~(n < First(P)) /\ n \leq First(P)
    BY <1>2
  <2> QED
    BY <2>1, <1>2, <1>3 DEF Ordered
<1>14. Marking(Q, l)
  BY <1>1, <1>3 DEF Marking
<1>15. P.mode = "static" => Delays(P, Q, l, k, f, n)
  BY <1>0, <1>1, ForwardDelays DEF InForward
<1>16. P.mode # "static" => Quiet(P, Q)
  BY <1>1, <1>3 DEF Quiet, NoHooks
<1>17. Keeps(P, M, Q, l, k, f, n)
  BY <1>12, <1>13, <1>14, <1>15, <1>16 DEF Keeps
<1>18. JRank(P, M, Q, l, k, f, n)
  <2>1. n \leq First(P)
    BY <1>2
  <2> QED
    BY <2>1, <1>3, <1>4, <1>10, <1>11, <1>17 DEF JRank
<1>19. ASSUME M = Q.plan
       PROVE  Announces(P, M, Q, n)
  <2>1. Q.work = <<w>> /\ Len(Q.done) = 0 /\ Len(Q.work) = 1
    <3>1. Q.work = <<w>>
      BY <1>5, <1>8
    <3> QED
      BY <3>1, <1>3, <1>5, <1>7
  <2>2. Announced(M)[1] = w.data
    BY <1>6, <1>19 DEF Announced
  <2>3. ASSUME NEW i \in 1..Len(Q.work)
        PROVE  Q.work[i].data = Announced(M)[Len(Q.done) + i]
    <3>1. i = 1 /\ Len(Q.done) + i = 1
      BY <2>1
    <3>2. Q.work[1] = w
      BY <2>1, <1>7
    <3> QED
      BY <3>1, <3>2, <2>2
  <2> QED
    BY <2>3 DEF Announces
<1> QED
  BY <1>18, <1>19

\* Q is R but for the collectives it has issued.
Alike(R, Q) ==
  /\ Q.iterations = R.iterations /\ Q.expect = R.expect /\ Q.finalize = R.finalize
  /\ Q.buckets = R.buckets /\ Q.next = R.next /\ Q.ready = R.ready /\ Q.view = R.view
  /\ Q.unused = R.unused /\ Q.marked = R.marked /\ Q.reduced = R.reduced /\ Q.left = R.left
  /\ Q.order = R.order /\ Q.rebuilt = R.rebuilt /\ Q.callback = R.callback /\ Q.plan = R.plan
  /\ Q.used = R.used /\ Q.hooks = R.hooks

\* A rank in rebuild_buckets, once its broadcasts have arrived.
Awaits(P, L, R, l, n) ==
  /\ Rebuilds(P, Rounds(R, n)) /\ n = First(P) /\ P.mode # "unused" /\ ~R.rebuilt /\ ~R.finalize
  /\ Len(R.done) = IF l = "indices" THEN 1 ELSE 2
  /\ \A i \in 1..Len(R.done) : R.done[i].data = Announced(L)[i]
  /\ IsPerm(R.order) /\ R.plan = Assign(R.order)

\* The collectives that a rank in rebuild_buckets has issued are complete.
LEMMA RebuildAwaited ==
  ASSUME NEW P, NEW L, NEW R, NEW l, NEW k, NEW f, NEW n,
         TypedRank(P, R, l, k, f, n), JRank(P, L, R, l, k, f, n), l \in {"indices", "sizes"}, R.work = <<>>
  PROVE  Awaits(P, L, R, l, n)
<1> USE DEF Awaits
<1>0. Keeps(P, L, R, l, k, f, n) /\ Ledger(P, L, R, n) /\ LaidOut(L, R, l)
  BY DEF JRank
<1>1. n = First(P) /\ P.mode # "unused" /\ ~R.rebuilt /\ ~R.finalize
  BY <1>0 DEF Keeps, Ordered, Progress
<1>2. Rebuilds(P, Rounds(R, n))
  BY <1>1 DEF Rebuilds, Rounds
<1>3. Issued(R) = IF l = "indices" THEN 1 ELSE 2
  BY <1>0 DEF Keeps, Progress
<1>4. IsWorks(P, R.done) /\ \A i \in 1..Len(R.done) : R.done[i].data = Announced(L)[i]
  BY <1>0, <1>2 DEF Ledger
<1>5. Len(R.done) = Issued(R)
  <2>1. Len(R.done) \in Nat /\ Len(R.work) = 0
    BY <1>4 DEF IsWorks
  <2> QED
    BY <2>1 DEF Issued
<1>6. IsPerm(R.order) /\ R.plan = Assign(R.order)
  BY <1>0, <1>1 DEF Keeps, Ordered, LaidOut
<1> QED
  BY <1>1, <1>2, <1>3, <1>4, <1>5, <1>6

\* The broadcast of the sizes of m buckets.
SizesWork(B, m) == Work("sizes", <<m>>, LocalSizes(B, m))

\* As Alike, for what the delayed reduction depends on.
AlikeDelays(R, Q) ==
  /\ Q.iterations = R.iterations /\ Q.expect = R.expect /\ Q.finalize = R.finalize /\ Q.left = R.left
  /\ Q.unused = R.unused /\ Q.reduced = R.reduced /\ Q.used = R.used /\ Q.hooks = R.hooks

\* What is delayed, in rebuild_buckets.
LEMMA SyncDelays ==
  ASSUME NEW P, NEW R, NEW Q, NEW k, NEW f, NEW n, NEW l \in InForward, NEW h \in InForward,
         Delays(P, R, l, k, f, n), AlikeDelays(R, Q)
  PROVE  Delays(P, Q, h, k, f, n)
<1>1. l \notin {"idle", "backward", "final"} /\ l \in {"idle", "indices", "sizes", "forward"}
      /\ h \notin {"idle", "backward", "final"} /\ h \in {"idle", "indices", "sizes", "forward"}
  BY DEF InForward
<1>2. NoHooks(Q) <=> NoHooks(R)
  BY DEF NoHooks, AlikeDelays
<1> QED
  BY <1>1, <1>2 DEF Delays, AlikeDelays

\* sync_bucket_indices: a rank that has the indices issues the sizes of as many buckets as rank 0 has.
LEMMA SyncRank ==
  ASSUME NEW P, NEW L, NEW R, NEW k, NEW f, NEW n, NEW Q,
         TypedRank(P, R, "indices", k, f, n), JRank(P, L, R, "indices", k, f, n), R.work = <<>>,
         Alike(R, Q), Q.done = R.done, Q.work = Append(R.work, SizesWork(R.plan, R.done[1].data.buckets))
  PROVE  /\ StepsTo(P, L, R, Q, "sizes", k, f, n)
         /\ R.plan = L => Announces(P, L, Q, n)
<1> DEFINE l == "indices"
           w == SizesWork(R.plan, R.done[1].data.buckets)
<1>0. /\ Typed(P, R, l, k, f) /\ LaidOut(L, R, l) /\ Ledger(P, L, R, n) /\ Keeps(P, L, R, l, k, f, n)
      /\ R.expect \in BOOLEAN /\ n \in Nat
  BY DEF JRank, TypedRank
<1>1. Ordered(P, R, l, n) /\ Marking(R, l)
      /\ (P.mode = "static" => Delays(P, R, l, k, f, n)) /\ (P.mode # "static" => Quiet(P, R))
  BY <1>0 DEF Keeps
<1>2. /\ Rebuilds(P, Rounds(R, n)) /\ n = First(P) /\ P.mode # "unused" /\ ~R.rebuilt /\ ~R.finalize
      /\ Len(R.done) = 1 /\ R.done[1].data = Announced(L)[1] /\ IsPerm(R.order) /\ R.plan = Assign(R.order)
  <2>1. l \in {"indices", "sizes"}
    OBVIOUS
  <2>2. Len(R.done) = 1 => 1 \in 1..Len(R.done)
    OBVIOUS
  <2>3. Awaits(P, L, R, l, n)
    BY <2>1, RebuildAwaited
  <2> QED
    BY <2>2, <2>3 DEF Awaits
<1>3. R.done[1].data.buckets = Len(L)
  <2>1. Announced(L)[1] = [flat |-> FlattenSeq(L), buckets |-> Len(L)]
    BY DEF Announced
  <2> QED
    BY <2>1, <1>2
<1>4. w = [kind |-> "sizes", key |-> <<Len(L)>>, data |-> LocalSizes(R.plan, Len(L))]
  BY <1>3 DEF SizesWork, Work
<1>5. Q.work = Append(R.work, w)
  OBVIOUS
<1> HIDE DEF w
<1>6. IsWork(P, w) /\ Sig(w) = <<"sizes", <<Len(L)>>>> /\ w.data = LocalSizes(R.plan, Len(L))
  <2>2. DOMAIN w = {"kind", "key", "data"} /\ w.kind = "sizes" /\ w.key = <<Len(L)>>
        /\ w.data = LocalSizes(R.plan, Len(L))
    BY <1>4
  <2>3. "sizes" # "used" /\ "sizes" # "bucket"
    OBVIOUS
  <2> QED
    BY <2>2, <2>3 DEF IsWork, Sig
<1>7. IsWorks(P, <<w>>) /\ Len(<<w>>) = 1 /\ <<w>>[1] = w
  BY <1>6, OneWork
<1>8. Q.work = R.work \o <<w>>
  <2>1. IsWorks(P, R.work)
    BY <1>0 DEF Ledger
  <2> QED
    BY <2>1, <1>5, AppendWork
<1>9. Issued(R) = 1
  BY <1>0 DEF Keeps, Progress
<1>10. Issues(P, L, R, Q, n, <<w>>)
  <2> DEFINE S == RoundSigs(P, L, Rounds(R, n))
  <2>1. Len(S) = 2 /\ S[2] = <<"sizes", <<Len(L)>>>>
    BY <1>2, RebuildRound
  <2> HIDE DEF S
  <2>2. ASSUME NEW i \in 1..Len(<<w>>)
        PROVE  Sig(<<w>>[i]) = S[Issued(R) + i]
    <3>1. i = 1 /\ Issued(R) + i = 2
      BY <1>9, <1>7
    <3> QED
      BY <3>1, <2>1, <1>6, <1>7
  <2>3. Issued(R) + Len(<<w>>) = 2
    BY <1>9, <1>7
  <2>4. 2 \leq 2 /\ 1 > 0
    OBVIOUS
  <2>5. Issued(R) + Len(<<w>>) \leq Len(S) /\ Len(R.done) > 0
    BY <2>1, <2>3, <2>4, <1>2
  <2>6. Q.rebuilt = R.rebuilt
    BY DEF Alike
  <2> QED
    BY <2>2, <2>5, <2>6, <1>7, <1>8 DEF Issues, S
<1>11. Ledger(P, L, Q, n) /\ Issued(Q) = 2
  <2> DEFINE t == <<w>>
  <2>1. Ledger(P, L, R, n)
    BY <1>0
  <2>2. Issues(P, L, R, Q, n, t)
    BY <1>10
  <2>3. Len(t) = 1
    BY <1>7
  <2> HIDE DEF t
  <2>4. Ledger(P, L, Q, n) /\ Issued(Q) = Issued(R) + Len(t)
    BY ONLY <2>1, <2>2, LedgerIssue
  <2> QED
    BY <2>3, <2>4, <1>9
<1>12. Typed(P, Q, "sizes", k, f)
  BY <1>0 DEF Typed, Alike
<1>13. LaidOut(L, Q, "sizes")
  BY <1>0 DEF LaidOut, Alike
<1>14. Progress(P, L, Q, "sizes", n)
  BY <1>2, <1>11 DEF Progress, Alike
<1>15. Ordered(P, Q, "sizes", n)
  <2>1. ~(n < First(P)) /\ n \leq First(P)
    BY <1>0, <1>2
  <2> QED
    BY <2>1, <1>2 DEF Ordered, Alike
<1>16. Marking(Q, "sizes")
  <2>1. "sizes" \in InForward /\ "sizes" # "final" /\ "sizes" # "backward"
    BY DEF InForward
  <2> QED
    BY <2>1, <1>1, <1>2 DEF Marking, Alike
<1>17. P.mode = "static" => Delays(P, Q, "sizes", k, f, n)
  <2>1. AlikeDelays(R, Q)
    BY DEF Alike, AlikeDelays
  <2> QED
    BY <2>1, <1>1, SyncDelays DEF InForward
<1>18. P.mode # "static" => Quiet(P, Q)
  BY <1>1 DEF Quiet, NoHooks, Alike
<1>19. Keeps(P, L, Q, "sizes", k, f, n)
  BY <1>14, <1>15, <1>16, <1>17, <1>18 DEF Keeps
<1>20. JRank(P, L, Q, "sizes", k, f, n)
  <2>1. n \leq First(P) /\ Q.rebuilt = R.rebuilt
    BY <1>0, <1>2 DEF Alike
  <2> QED
    BY <2>1, <1>2, <1>11, <1>12, <1>13, <1>19 DEF JRank
<1>21. Kept(R, Q)
  BY DEF Kept, Alike
<1>22. ASSUME R.plan = L
       PROVE  Announces(P, L, Q, n)
  <2>1. Sound(L)
    BY <1>2, <1>22, PermSound
  <2>2. Len(L) \in Nat
    BY <2>1 DEF Sound, IsLayout
  <2>3. LocalSizes(L, Len(L)) = Sizes(L)
    <3>1. \A i \in 1..Len(L) : ~(i > Len(L))
      BY <2>2
    <3> QED
      BY <3>1 DEF LocalSizes, Sizes
  <2>4. Q.work = <<w>> /\ Len(Q.done) = 1 /\ Len(Q.work) = 1
    BY <1>2, <1>7, <1>8
  <2>5. Announced(L)[2] = w.data
    BY <2>3, <1>6, <1>22 DEF Announced
  <2>6. ASSUME NEW i \in 1..Len(Q.work)
        PROVE  Q.work[i].data = Announced(L)[Len(Q.done) + i]
    <3>1. i = 1 /\ Len(Q.done) + i = 2
      BY <2>4
    <3>2. Q.work[1] = w
      BY <2>4, <1>7
    <3> QED
      BY <3>1, <3>2, <2>5
  <2> QED
    BY <2>6 DEF Announces
<1> QED
  BY <1>20, <1>21, <1>22 DEF StepsTo

\* The layouts whose buckets are reduced one by one.
LEMMA BucketSigsLen ==
  ASSUME NEW B, Len(B) \in Nat
  PROVE  /\ Len(BucketSigs(B)) = Len(B)
         /\ Len(Append(BucketSigs(B), UsedSig)) = Len(B) + 1
         /\ Len(<<UsedSig>> \o BucketSigs(B)) = Len(B) + 1
         /\ (<<UsedSig>> \o BucketSigs(B))[1] = UsedSig
         /\ \A i \in 1..Len(B) : (<<UsedSig>> \o BucketSigs(B))[1 + i] = <<"bucket", B[i]>>
<1> DEFINE D == {<<"bucket", B[i]>> : i \in 1..Len(B)} \cup {UsedSig}
           s == BucketSigs(B)
           t == <<UsedSig>>
           m == Len(B)
<1>0. m \in Nat
  OBVIOUS
<1>1. s \in [1..m -> D] /\ UsedSig \in D /\ \A i \in 1..m : s[i] = <<"bucket", B[i]>>
  BY DEF BucketSigs
<1> HIDE DEF D, s, m
<1>2. s \in Seq(D) /\ Len(s) = m
  BY <1>0, <1>1, FunctionSeq
<1>3. Len(Append(s, UsedSig)) = m + 1
  BY <1>1, <1>2
<1>4. t \in Seq(D) /\ Len(t) = 1 /\ t[1] = UsedSig
  BY <1>1
<1> HIDE DEF t
<1>5. Len(t \o s) = 1 + m /\ (t \o s)[1] = t[1]
  <2>1. 1 \in 1..1 + m /\ 1 \leq 1
    BY <1>0
  <2>2. Len(t \o s) = Len(t) + Len(s)
    BY <1>2, <1>4, ConcatProperties
  <2>3. \A i \in 1..Len(t) + Len(s) : (t \o s)[i] = IF i \leq Len(t) THEN t[i] ELSE s[i - Len(t)]
    BY <1>2, <1>4, ConcatProperties
  <2> QED
    BY <2>1, <2>2, <2>3, <1>2, <1>4
<1>6. ASSUME NEW i \in 1..m
      PROVE  (t \o s)[1 + i] = s[i]
  <2>1. 1 + i \in 1..1 + m /\ ~(1 + i \leq 1) /\ (1 + i) - 1 = i
    BY <1>0
  <2>2. (t \o s)[1 + i] = s[(1 + i) - Len(t)]
    BY ZenonT(40), <2>1, <1>2, <1>4, ConcatProperties
  <2> QED
    BY <2>1, <2>2, <1>4
<1>7. 1 + m = m + 1
  BY <1>0
<1> QED
  BY <1>1, <1>2, <1>3, <1>4, <1>5, <1>6, <1>7 DEF s, t, m

\* Up to the rebuild the round does not depend on the layout, but for the number of
\* buckets that is broadcast.
LEMMA RoundsBefore ==
  ASSUME NEW P \in Programs, NEW L, NEW M, NEW c \in Nat, P.mode = "unused" \/ c \leq First(P)
  PROVE  /\ Len(RoundSigs(P, L, c)) = Len(RoundSigs(P, M, c)) /\ Len(RoundSigs(P, L, c)) \in Nat \ {0}
         /\ ~Rebuilds(P, c) => RoundSigs(P, L, c) = RoundSigs(P, M, c)
<1>0. Len(InitialBuckets) \in Nat /\ Len(InitialBuckets) \geq 1
  BY InitialLayout DEF IsLayout
<1>1. CASE Rebuilds(P, c)
  BY <1>1, RebuildRound
<1>2. CASE ~Rebuilds(P, c)
  <2>1. P.mode = "unused" \/ c < First(P)
    <3>1. First(P) \in Nat
      BY ProgramFacts
    <3> QED
      BY <3>1, <1>2 DEF Rebuilds
  <2>2. RoundSigs(P, L, c) = RoundSigs(P, M, c)
    BY <2>1, <1>2 DEF RoundSigs
  <2>3. RoundSigs(P, L, c) = Append(BucketSigs(InitialBuckets), UsedSig) \/
        RoundSigs(P, L, c) = <<UsedSig>> \o BucketSigs(InitialBuckets) \/
        RoundSigs(P, L, c) = BucketSigs(InitialBuckets)
    BY <2>1, <1>2 DEF RoundSigs
  <2>4. /\ Len(BucketSigs(InitialBuckets)) = Len(InitialBuckets)
        /\ Len(Append(BucketSigs(InitialBuckets), UsedSig)) = Len(InitialBuckets) + 1
        /\ Len(<<UsedSig>> \o BucketSigs(InitialBuckets)) = Len(InitialBuckets) + 1
    BY <1>0, BucketSigsLen
  <2>5. Len(RoundSigs(P, L, c)) = Len(InitialBuckets) + 1 \/ Len(RoundSigs(P, L, c)) = Len(InitialBuckets)
    BY <2>3, <2>4
  <2>6. Len(RoundSigs(P, L, c)) \in Nat \ {0}
    BY <2>5, <1>0
  <2> QED
    BY <2>2, <2>6
<1> QED
  BY <1>1, <1>2

\* Every round has collectives.
LEMMA RoundLength ==
  ASSUME NEW P \in Programs, NEW L, NEW c \in Nat, P.mode = "unused" \/ c \leq First(P) \/ IsLayout(L)
  PROVE  Len(RoundSigs(P, L, c)) \in Nat \ {0}
<1>1. CASE P.mode = "unused" \/ c \leq First(P)
  BY <1>1, RoundsBefore
<1>2. CASE ~(P.mode = "unused" \/ c \leq First(P))
  <2>0. Len(L) \in Nat /\ Len(L) \geq 1
    BY <1>2 DEF IsLayout
  <2>1. First(P) \in 1..2
    BY ProgramFacts
  <2>2. c # First(P) /\ ~(c < First(P)) /\ c # 0 /\ c # 1 /\ P.mode # "unused"
    BY <2>1, <1>2
  <2>3. RoundSigs(P, L, c) = BucketSigs(L)
    BY <2>2 DEF RoundSigs, Rebuilds, DelayedRound
  <2>4. Len(BucketSigs(L)) = Len(L)
    BY <2>0, BucketSigsLen
  <2> QED
    BY <2>0, <2>3, <2>4
<1> QED
  BY <1>1, <1>2

\* A rank at the start of a round.
LEMMA LedgerStart ==
  ASSUME NEW P \in Programs, NEW L, NEW R, NEW n, Rounds(R, n) \in Nat,
         P.mode = "unused" \/ Rounds(R, n) \leq First(P) \/ IsLayout(L), R.done = <<>>, R.work = <<>>
  PROVE  Ledger(P, L, R, n) /\ Issued(R) = 0
<1>1. Len(RoundSigs(P, L, Rounds(R, n))) \in Nat \ {0}
  BY RoundLength
<1>2. Len(R.done) = 0 /\ Len(R.work) = 0
  OBVIOUS
<1>3. IsWorks(P, R.done) /\ IsWorks(P, R.work)
  BY DEF IsWorks
<1>4. Len(R.done) + Len(R.work) = 0
  BY <1>2
<1>5. 0 \leq Len(RoundSigs(P, L, Rounds(R, n))) /\ ~(0 > 1)
  BY <1>1
<1> QED
  BY <1>2, <1>3, <1>4, <1>5 DEF Ledger, Issued

\* Q is R with the layout L, which it received.
Renewed(P, L, Q, l, k, f, n) ==
  /\ JRank(P, L, Q, l, k, f, n) /\ Q.done = <<>> /\ Q.work = <<>>
  /\ Q.rebuilt = TRUE /\ Q.buckets = L

\* What sync_bucket_indices has received is the layout of rank 0.
LEMMA ReceivedLayout ==
  ASSUME NEW P, NEW L, NEW R, NEW k, NEW f, NEW n,
         TypedRank(P, R, "sizes", k, f, n), JRank(P, L, R, "sizes", k, f, n), R.work = <<>>, Sound(L)
  PROVE  Unflatten(R.done[1].data.flat, R.done[2].data) = L
<1>1. Awaits(P, L, R, "sizes", n)
  <2>1. "sizes" \in {"indices", "sizes"}
    OBVIOUS
  <2> QED
    BY <2>1, RebuildAwaited
<1>2. Len(R.done) = 2
  BY <1>1 DEF Awaits
<1>3. R.done[1].data = Announced(L)[1] /\ R.done[2].data = Announced(L)[2]
  BY <1>1, <1>2 DEF Awaits
<1>4. Announced(L)[1] = [flat |-> FlattenSeq(L), buckets |-> Len(L)] /\ Announced(L)[2] = Sizes(L)
  BY DEF Announced
<1>5. R.done[1].data.flat = FlattenSeq(L)
  BY <1>3, <1>4
<1> QED
  BY <1>3, <1>4, <1>5 DEF Sound

\* initialize_buckets: the rank installs it and starts the next round, or its check fails.
LEMMA InitializeRank ==
  ASSUME NEW P, NEW L, NEW R, NEW k, NEW f, NEW n, NEW Q,
         TypedRank(P, R, "sizes", k, f, n), JRank(P, L, R, "sizes", k, f, n), R.work = <<>>, Sound(L),
         DOMAIN Q = Fields, AlikeDelays(R, Q), Q.next = R.next, Q.ready = R.ready, Q.view = R.view,
         Q.marked = R.marked, Q.callback = R.callback, Q.order = <<>>, Q.done = <<>>, Q.work = R.work,
         Q.rebuilt = TRUE, Q.buckets = L, Q.error \in BOOLEAN, ~Q.error => ~R.expect
  PROVE  Renewed(P, L, Q, IF Q.error THEN "raised" ELSE "forward", k, f, n)
<1> DEFINE l == "sizes"
<1>0. /\ Typed(P, R, l, k, f) /\ LaidOut(L, R, l) /\ Ledger(P, L, R, n) /\ Keeps(P, L, R, l, k, f, n)
      /\ R.expect \in BOOLEAN /\ n \in Nat /\ P \in Programs
  BY DEF JRank, TypedRank
<1>1. Ordered(P, R, l, n) /\ Marking(R, l)
      /\ (P.mode = "static" => Delays(P, R, l, k, f, n)) /\ (P.mode # "static" => Quiet(P, R))
  BY <1>0 DEF Keeps
<1>2. n = First(P) /\ P.mode # "unused" /\ ~R.finalize
  <2>1. l \in {"indices", "sizes"}
    OBVIOUS
  <2>2. Awaits(P, L, R, l, n)
    BY <2>1, RebuildAwaited
  <2> QED
    BY <2>2 DEF Awaits
<1>3. /\ Q.iterations = R.iterations /\ Q.expect = R.expect /\ Q.finalize = R.finalize /\ Q.left = R.left
      /\ Q.unused = R.unused /\ Q.reduced = R.reduced /\ Q.used = R.used /\ Q.hooks = R.hooks
  BY DEF AlikeDelays
<1>4. IsLayout(L)
  BY DEF Sound
<1>5. Ledger(P, L, Q, n) /\ Issued(Q) = 0
  <2>1. Rounds(Q, n) \in Nat
    BY <1>0 DEF Rounds
  <2> QED
    BY <2>1, <1>0, <1>4, LedgerStart
<1>6. n \geq First(P)
  BY <1>0, <1>2
<1>7. LaidOut(L, Q, "raised") /\ LaidOut(L, Q, "forward")
  BY DEF LaidOut
<1>8. Q.order \in Seq(Params)
  BY DistinctNone
<1>9. CASE Q.error
  <2>1. Typed(P, Q, "raised", k, f)
    BY <1>0, <1>3, <1>8 DEF Typed
  <2>2. JRank(P, L, Q, "raised", k, f, n)
    BY <2>1, <1>2, <1>5, <1>6, <1>7 DEF JRank
  <2> QED
    BY <2>2, <1>9 DEF Renewed
<1>10. CASE ~Q.error
  <2> DEFINE h == "forward"
  <2>0. ~R.expect
    BY <1>10
  <2>1. Typed(P, Q, h, k, f)
    BY <2>0, <1>0, <1>3, <1>8 DEF Typed
  <2>2. Progress(P, L, Q, h, n)
    BY <1>2, <1>3, <1>5 DEF Progress
  <2>3. Ordered(P, Q, h, n)
    BY <1>2, <1>6 DEF Ordered
  <2>4. Marking(Q, h)
    BY <2>0, <1>2, <1>3 DEF Marking
  <2>5. P.mode = "static" => Delays(P, Q, h, k, f, n)
    BY <1>1, SyncDelays DEF InForward
  <2>6. P.mode # "static" => Quiet(P, Q)
    BY <1>1, <1>3 DEF Quiet, NoHooks
  <2>7. Keeps(P, L, Q, h, k, f, n)
    BY <2>2, <2>3, <2>4, <2>5, <2>6 DEF Keeps
  <2>8. JRank(P, L, Q, h, k, f, n)
    BY <2>1, <2>7, <1>2, <1>5, <1>6, <1>7 DEF JRank
  <2> QED
    BY <2>8, <1>10 DEF Renewed
<1> QED
  BY <1>9, <1>10

\* Q is R but for what reset_bucket_counting and prepare_for_backward reset.
Primed(P, R, Q) ==
  /\ DOMAIN Q = Fields /\ Q.expect = TRUE /\ Q.next = 1 /\ Q.ready = {} /\ Q.marked = FALSE
  /\ Q.left = (IF P.mode = "static" THEN R.hooks ELSE R.left)
  /\ Q.unused \subseteq Params /\ (P.mode # "unused" => Q.unused = R.unused)
  /\ Q.iterations = R.iterations /\ Q.finalize = R.finalize /\ Q.buckets = R.buckets /\ Q.view = R.view
  /\ Q.used = R.used /\ Q.reduced = R.reduced /\ Q.hooks = R.hooks /\ Q.order = R.order
  /\ Q.rebuilt = R.rebuilt /\ Q.plan = R.plan /\ Q.work = R.work /\ Q.done = R.done

\* Q is R but for its callback.
Recalled(R, Q) ==
  /\ DOMAIN Q = Fields /\ Q.expect = R.expect /\ Q.next = R.next /\ Q.ready = R.ready /\ Q.marked = R.marked
  /\ Q.left = R.left /\ Q.unused = R.unused
  /\ Q.iterations = R.iterations /\ Q.finalize = R.finalize /\ Q.buckets = R.buckets /\ Q.view = R.view
  /\ Q.used = R.used /\ Q.reduced = R.reduced /\ Q.hooks = R.hooks /\ Q.order = R.order
  /\ Q.rebuilt = R.rebuilt /\ Q.plan = R.plan /\ Q.work = R.work /\ Q.done = R.done

\* The first iteration of a static graph.
Deferred(P, R) == P.mode = "static" /\ R.iterations = 1

\* A rank in the call of the module.
InModule(P, L, R, k, f, n) ==
  /\ Typed(P, R, "forward", k, f) /\ LaidOut(L, R, "forward") /\ Ledger(P, L, R, n)
  /\ ~R.finalize /\ Issued(R) = 0 /\ R.order \in Seq(Params) /\ k \in Nat /\ n \in Nat
  /\ R.expect \in BOOLEAN /\ R.iterations = Opened(P, k + 1)
  /\ R.rebuilt => P.mode # "unused" /\ n \geq First(P)
  /\ ~R.rebuilt /\ P.mode # "unused" => n \leq First(P) /\ n # First(P) /\ R.order = <<>>
  /\ P.mode = "static" => Delays(P, R, "forward", k, f, n)
  /\ P.mode # "static" => Quiet(P, R)
  /\ Marking(R, "forward")

\* What a rank in the call of the module has.
LEMMA RankInModule ==
  ASSUME NEW P, NEW L, NEW R, NEW k, NEW f, NEW n,
         TypedRank(P, R, "forward", k, f, n), JRank(P, L, R, "forward", k, f, n)
  PROVE  InModule(P, L, R, k, f, n)
<1> DEFINE l == "forward"
<1>0. /\ Typed(P, R, l, k, f) /\ LaidOut(L, R, l) /\ Ledger(P, L, R, n) /\ Keeps(P, L, R, l, k, f, n)
      /\ R.expect \in BOOLEAN /\ n \in Nat /\ k \in Nat /\ First(P) \in Nat
      /\ R.rebuilt => P.mode # "unused" /\ n \geq First(P)
      /\ ~R.rebuilt /\ P.mode # "unused" => n \leq First(P) /\ n # First(P)
  BY ProgramFacts DEF JRank, TypedRank
<1>1. Progress(P, L, R, l, n) /\ Ordered(P, R, l, n) /\ Marking(R, l)
      /\ (P.mode = "static" => Delays(P, R, l, k, f, n)) /\ (P.mode # "static" => Quiet(P, R))
  BY <1>0 DEF Keeps
<1>2. ~R.finalize
  BY <1>1 DEF Marking, InForward
<1>3. l \notin {"indices", "sizes"}
  OBVIOUS
<1>4. Issued(R) = 0
  BY <1>1, <1>2, <1>3 DEF Progress
<1>5. ~R.rebuilt /\ P.mode # "unused" => n < First(P)
  BY <1>0
<1>6. ~R.rebuilt /\ P.mode # "unused" => R.order = <<>>
  BY <1>1, <1>2, <1>5 DEF Ordered
<1>7. R.iterations = Opened(P, k + 1) /\ R.order \in Seq(Params)
  BY <1>0 DEF Typed
<1> QED
  BY <1>0, <1>1, <1>2, <1>4, <1>6, <1>7 DEF InModule

\* What is delayed, in the call of the module.
LEMMA ModuleDelays ==
  ASSUME NEW P, NEW L, NEW R, NEW k, NEW f, NEW n, InModule(P, L, R, k, f, n), P.mode = "static"
  PROVE  /\ R.iterations = 0 => n = 0 /\ ~R.expect
         /\ R.iterations = 1 => n = IF P.passes[k + 1] # "nosync" \/ R.expect THEN 0 ELSE 1
         /\ AfterIgnored(P, k) => R.expect
         /\ R.iterations = 1 /\ R.expect => AfterIgnored(P, k)
         /\ \A i \in 2..k : ~DoomedAt(P, i)
         /\ n = 0 => R.left = [p \in Params |-> 0] /\ R.hooks = [p \in Params |-> 0] /\ R.unused = {}
         /\ n > 0 => R.reduced \/ R.used = Params
<1>0. Delays(P, R, "forward", k, f, n) /\ R.hooks \in [Params -> 0..2]
  BY DEF InModule, Typed
<1>1. "forward" \in InForward /\ "forward" \notin {"backward", "final"} /\ "forward" \in {"idle", "indices", "sizes", "forward"}
  BY DEF InForward
<1>2. n = 0 => R.hooks = [p \in Params |-> 0]
  <2>1. n = 0 => NoHooks(R)
    BY <1>0, <1>1 DEF Delays
  <2> QED
    BY <2>1, <1>0 DEF NoHooks
<1> QED
  BY <1>0, <1>1, <1>2 DEF Delays

\* The forward before this backward opened an iteration.
LEMMA OpensOne ==
  ASSUME NEW P, NEW k \in Nat, P.passes[k + 1] # "nosync"
  PROVE  Opened(P, k + 1) # 0
<1>1. Opened(P, k) \in 0..k /\ Opened(P, k + 1) = Opened(P, k) + 1
  BY OpenedFacts
<1> QED
  BY <1>1

\* The output of the forward is ignored.
LEMMA IgnoredRank ==
  ASSUME NEW P, NEW L, NEW R, NEW k, NEW f, NEW n, NEW Q,
         TypedRank(P, R, "forward", k, f, n), JRank(P, L, R, "forward", k, f, n),
         P.passes[k + 1] = "ignored", Primed(P, R, Q), Q.callback = R.callback
  PROVE  StepsTo(P, L, R, Q, "idle", k + 1, f, n)
<1> DEFINE h == "idle"
           j == k + 1
<1>0. InModule(P, L, R, k, f, n) /\ P \in Programs /\ k \in Nat /\ n \in Nat
  BY RankInModule DEF TypedRank
<1>1. /\ Typed(P, R, "forward", k, f) /\ LaidOut(L, R, "forward") /\ Ledger(P, L, R, n)
      /\ ~R.finalize /\ Issued(R) = 0 /\ R.iterations = Opened(P, k + 1)
      /\ R.rebuilt => P.mode # "unused" /\ n \geq First(P)
      /\ ~R.rebuilt /\ P.mode # "unused" => n \leq First(P) /\ n # First(P) /\ R.order = <<>>
      /\ P.mode # "static" => Quiet(P, R)
  BY <1>0 DEF InModule
<1>2. /\ Q.expect = TRUE /\ Q.next = 1 /\ Q.ready = {} /\ Q.marked = FALSE
      /\ Q.unused \subseteq Params /\ (P.mode # "unused" => Q.unused = R.unused)
      /\ Q.iterations = R.iterations /\ Q.finalize = R.finalize /\ Q.buckets = R.buckets /\ Q.view = R.view
      /\ Q.used = R.used /\ Q.reduced = R.reduced /\ Q.hooks = R.hooks /\ Q.order = R.order
      /\ Q.rebuilt = R.rebuilt /\ Q.plan = R.plan /\ Q.work = R.work /\ Q.done = R.done
      /\ Q.left = (IF P.mode = "static" THEN R.hooks ELSE R.left)
  BY DEF Primed
<1>3. j \in 0..Len(P.passes) /\ 1 \in 1..Cardinality(Params) + 1 /\ 1 \leq Len(Q.buckets) + 1
  <2>1. Len(P.passes) \in Nat /\ k < Len(P.passes)
    BY <1>0, <1>1, ProgramFacts DEF Typed
  <2>2. Len(R.buckets) \in Nat
    <3>1. R.rebuilt \in BOOLEAN
      BY <1>1 DEF Typed
    <3> QED
      BY <3>1, <1>1, LaidOutLayout DEF IsLayout
  <2> QED
    BY <2>1, <2>2, <1>0, <1>2, ParamsFacts
<1>4. Typed(P, Q, h, j, f)
  BY <1>1, <1>2, <1>3 DEF Typed
<1>5. LaidOut(L, Q, h)
  BY <1>1, <1>2 DEF LaidOut
<1>6. Ledger(P, L, Q, n) /\ Issued(Q) = Issued(R)
  BY <1>1, <1>2, LedgerSame
<1>7. Progress(P, L, Q, h, n)
  BY <1>1, <1>2, <1>6 DEF Progress
<1>8. Ordered(P, Q, h, n)
  BY <1>1, <1>2 DEF Ordered
<1>9. Marking(Q, h)
  BY <1>1, <1>2 DEF Marking, InForward
<1>10. ASSUME P.mode = "static"
       PROVE  Delays(P, Q, h, j, f, n)
  <2>1. /\ R.iterations = 1 => n = 0
        /\ \A i \in 2..k : ~DoomedAt(P, i)
        /\ n = 0 => R.left = [p \in Params |-> 0] /\ R.hooks = [p \in Params |-> 0] /\ R.unused = {}
        /\ n > 0 => R.reduced \/ R.used = Params
    BY <1>0, <1>10, ModuleDelays
  <2>2. R.iterations # 0
    BY <1>0, <1>1, OpensOne
  <2>3. AfterIgnored(P, j)
    BY <1>0 DEF AfterIgnored
  <2>4. \A i \in 2..j : ~DoomedAt(P, i)
    <3>1. ~DoomedAt(P, j)
      BY DEF DoomedAt
    <3>2. \A i \in 2..j : i = j \/ i \in 2..k
      BY <1>0
    <3> QED
      BY <3>1, <3>2, <2>1
  <2>5. n = 0 => NoHooks(Q) /\ Q.left = [p \in Params |-> 0] /\ Q.unused = {}
    BY <2>1, <1>2, <1>10 DEF NoHooks
  <2>6. h \notin InForward /\ h \notin {"backward", "final"}
    BY DEF InForward
  <2> QED
    BY <2>1, <2>2, <2>3, <2>4, <2>5, <2>6, <1>1, <1>2 DEF Delays
<1>11. P.mode # "static" => Quiet(P, Q)
  BY <1>1, <1>2 DEF Quiet, NoHooks
<1>12. Keeps(P, L, Q, h, j, f, n)
  BY <1>7, <1>8, <1>9, <1>10, <1>11 DEF Keeps
<1>13. JRank(P, L, Q, h, j, f, n)
  BY <1>1, <1>2, <1>4, <1>5, <1>6, <1>12 DEF JRank
<1> QED
  BY <1>2, <1>13 DEF StepsTo, Kept

\* A synchronised backward starts.
LEMMA BackwardRank ==
  ASSUME NEW P, NEW L, NEW R, NEW k, NEW f, NEW n, NEW Q, NEW s \in [Params -> 0..2],
         TypedRank(P, R, "forward", k, f, n), JRank(P, L, R, "forward", k, f, n),
         P.passes[k + 1] # "ignored", P.passes[k + 1] # "nosync", Primed(P, R, Q),
         Q.callback = IF Deferred(P, R) THEN "delay" ELSE "none"
  PROVE  StepsTo(P, L, R, Q, "backward", k, s, n)
<1> DEFINE h == "backward"
<1>0. InModule(P, L, R, k, f, n) /\ P \in Programs /\ k \in Nat /\ n \in Nat
  BY RankInModule DEF TypedRank
<1>1. /\ Typed(P, R, "forward", k, f) /\ LaidOut(L, R, "forward") /\ Ledger(P, L, R, n)
      /\ ~R.finalize /\ Issued(R) = 0 /\ R.iterations = Opened(P, k + 1)
      /\ R.rebuilt => P.mode # "unused" /\ n \geq First(P)
      /\ ~R.rebuilt /\ P.mode # "unused" => n \leq First(P) /\ n # First(P) /\ R.order = <<>>
      /\ P.mode # "static" => Quiet(P, R)
  BY <1>0 DEF InModule
<1>2. /\ Q.expect = TRUE /\ Q.next = 1 /\ Q.ready = {} /\ Q.marked = FALSE
      /\ Q.unused \subseteq Params /\ (P.mode # "unused" => Q.unused = R.unused)
      /\ Q.iterations = R.iterations /\ Q.finalize = R.finalize /\ Q.buckets = R.buckets /\ Q.view = R.view
      /\ Q.used = R.used /\ Q.reduced = R.reduced /\ Q.hooks = R.hooks /\ Q.order = R.order
      /\ Q.rebuilt = R.rebuilt /\ Q.plan = R.plan /\ Q.work = R.work /\ Q.done = R.done
      /\ Q.left = (IF P.mode = "static" THEN R.hooks ELSE R.left)
  BY DEF Primed
<1>3. 1 \in 1..Cardinality(Params) + 1 /\ 1 \leq Len(Q.buckets) + 1
  <2>2. Len(R.buckets) \in Nat
    <3>1. R.rebuilt \in BOOLEAN
      BY <1>1 DEF Typed
    <3> QED
      BY <3>1, <1>1, LaidOutLayout DEF IsLayout
  <2> QED
    BY <2>2, <1>2, ParamsFacts
<1>3b. Q.callback \in {"none", "delay"} /\ (Q.callback = "delay" <=> Deferred(P, R))
  OBVIOUS
<1>4. Typed(P, Q, h, k, s)
  BY <1>1, <1>2, <1>3, <1>3b DEF Typed
<1>5. LaidOut(L, Q, h)
  BY <1>1, <1>2 DEF LaidOut
<1>6. Ledger(P, L, Q, n) /\ Issued(Q) = Issued(R)
  BY <1>1, <1>2, LedgerSame
<1>7. Progress(P, L, Q, h, n)
  BY <1>1, <1>2, <1>6 DEF Progress
<1>8. Ordered(P, Q, h, n)
  BY <1>1, <1>2 DEF Ordered
<1>9. Marking(Q, h)
  BY <1>1, <1>2, <1>3b DEF Marking, InForward
<1>10. ASSUME P.mode = "static"
       PROVE  Delays(P, Q, h, k, s, n)
  <2>1. /\ R.iterations = 1 => n = 0
        /\ \A i \in 2..k : ~DoomedAt(P, i)
        /\ n = 0 => R.left = [p \in Params |-> 0] /\ R.hooks = [p \in Params |-> 0] /\ R.unused = {}
        /\ n > 0 => R.reduced \/ R.used = Params
    BY <1>0, <1>10, ModuleDelays
  <2>2. R.iterations # 0
    BY <1>0, <1>1, OpensOne
  <2>5. n = 0 => NoHooks(Q) /\ Q.left = [p \in Params |-> 0] /\ Q.unused = {}
    BY <2>1, <1>2, <1>10 DEF NoHooks
  <2>6. h \notin InForward /\ h \in {"backward", "final"} /\ h # "final" /\ h \notin {"idle", "indices", "sizes", "forward"}
    BY DEF InForward
  <2>7. n = 0 => \A p \in Params : Q.hooks[p] + s[p] \leq 2
    BY <2>5 DEF NoHooks
  <2>8. Q.callback = "delay" <=> Q.iterations = 1
    BY <1>2, <1>3b, <1>10 DEF Deferred
  <2> QED
    BY <2>1, <2>2, <2>5, <2>6, <2>7, <2>8, <1>1, <1>2 DEF Delays
<1>11. P.mode # "static" => Quiet(P, Q)
  BY <1>1, <1>2, <1>3b DEF Quiet, NoHooks, Deferred
<1>12. Keeps(P, L, Q, h, k, s, n)
  BY <1>7, <1>8, <1>9, <1>10, <1>11 DEF Keeps
<1>13. JRank(P, L, Q, h, k, s, n)
  BY <1>1, <1>2, <1>4, <1>5, <1>6, <1>12 DEF JRank
<1> QED
  BY <1>2, <1>13 DEF StepsTo, Kept

\* A backward under no_sync() starts.
LEMMA NoSyncRank ==
  ASSUME NEW P, NEW L, NEW R, NEW k, NEW f, NEW n, NEW Q, NEW s \in [Params -> 0..2],
         TypedRank(P, R, "forward", k, f, n), JRank(P, L, R, "forward", k, f, n),
         P.passes[k + 1] = "nosync", Recalled(R, Q),
         Q.callback = IF Deferred(P, R) THEN "delay" ELSE "none"
  PROVE  StepsTo(P, L, R, Q, "backward", k, s, n)
<1> DEFINE h == "backward"
<1>0. InModule(P, L, R, k, f, n) /\ P \in Programs /\ k \in Nat /\ n \in Nat
  BY RankInModule DEF TypedRank
<1>1. /\ Typed(P, R, "forward", k, f) /\ LaidOut(L, R, "forward") /\ Ledger(P, L, R, n)
      /\ ~R.finalize /\ Issued(R) = 0 /\ R.iterations = Opened(P, k + 1) /\ R.expect \in BOOLEAN
      /\ R.rebuilt => P.mode # "unused" /\ n \geq First(P)
      /\ ~R.rebuilt /\ P.mode # "unused" => n \leq First(P) /\ n # First(P) /\ R.order = <<>>
      /\ P.mode # "static" => Quiet(P, R)
      /\ Marking(R, "forward")
  BY <1>0 DEF InModule
<1>2. /\ Q.expect = R.expect /\ Q.next = R.next /\ Q.ready = R.ready /\ Q.marked = R.marked
      /\ Q.left = R.left /\ Q.unused = R.unused
      /\ Q.iterations = R.iterations /\ Q.finalize = R.finalize /\ Q.buckets = R.buckets /\ Q.view = R.view
      /\ Q.used = R.used /\ Q.reduced = R.reduced /\ Q.hooks = R.hooks /\ Q.order = R.order
      /\ Q.rebuilt = R.rebuilt /\ Q.plan = R.plan /\ Q.work = R.work /\ Q.done = R.done
  BY DEF Recalled
<1>3b. Q.callback \in {"none", "delay"} /\ (Q.callback = "delay" <=> Deferred(P, R))
  OBVIOUS
<1>4. Typed(P, Q, h, k, s)
  <2>1. "nosync" # "ignored"
    OBVIOUS
  <2> QED
    BY <2>1, <1>1, <1>2, <1>3b DEF Typed
<1>5. LaidOut(L, Q, h)
  BY <1>1, <1>2 DEF LaidOut
<1>6. Ledger(P, L, Q, n) /\ Issued(Q) = Issued(R)
  BY <1>1, <1>2, LedgerSame
<1>7. Progress(P, L, Q, h, n)
  BY <1>1, <1>2, <1>6 DEF Progress
<1>8. Ordered(P, Q, h, n)
  BY <1>1, <1>2 DEF Ordered
<1>9. Marking(Q, h)
  <2>1. R.expect => R.ready = {} /\ R.next = 1 /\ (R.marked => R.unused = {})
    BY <1>1 DEF Marking
  <2> QED
    BY <2>1, <1>1, <1>2, <1>3b DEF Marking, InForward
<1>10. ASSUME P.mode = "static"
       PROVE  Delays(P, Q, h, k, s, n)
  <2>1. /\ R.iterations = 0 => n = 0 /\ ~R.expect
        /\ R.iterations = 1 => n = IF R.expect THEN 0 ELSE 1
        /\ AfterIgnored(P, k) => R.expect
        /\ R.iterations = 1 /\ R.expect => AfterIgnored(P, k)
        /\ \A i \in 2..k : ~DoomedAt(P, i)
        /\ n = 0 => R.left = [p \in Params |-> 0] /\ R.hooks = [p \in Params |-> 0] /\ R.unused = {}
        /\ n > 0 => R.reduced \/ R.used = Params
    BY <1>0, <1>10, ModuleDelays
  <2>5. n = 0 => NoHooks(Q) /\ Q.left = [p \in Params |-> 0] /\ Q.unused = {}
    BY <2>1, <1>2, <1>10 DEF NoHooks
  <2>6. h \notin InForward /\ h \in {"backward", "final"} /\ h # "final" /\ h \notin {"idle", "indices", "sizes", "forward"}
    BY DEF InForward
  <2>7. n = 0 => \A p \in Params : Q.hooks[p] + s[p] \leq 2
    BY <2>5 DEF NoHooks
  <2>8. Q.callback = "delay" <=> Q.iterations = 1
    BY <1>2, <1>3b, <1>10 DEF Deferred
  <2>9. ASSUME R.iterations = 1, ~R.expect
        PROVE  DoomedAt(P, k + 1)
    <3>1. Opened(P, k) \in 0..k /\ Opened(P, 0) = 0 /\ Opened(P, k + 1) = Opened(P, k)
      BY <1>0, OpenedFacts
    <3>2. Opened(P, k) = 1
      BY <3>1, <2>9, <1>1
    <3>3. k > 0
      BY <3>1, <3>2, <1>0
    <3>4. Len(P.passes) \in Nat /\ k < Len(P.passes)
      BY <1>0, <1>1, ProgramFacts DEF Typed
    <3>5. k + 1 \in 2..Len(P.passes) /\ (k + 1) - 1 = k
      BY <3>3, <3>4, <1>0
    <3>6. P.passes[k] # "ignored"
      BY <2>1, <2>9, <3>3 DEF AfterIgnored
    <3> QED
      BY <3>1, <3>2, <3>5, <3>6 DEF DoomedAt
  <2> QED
    BY <2>1, <2>5, <2>6, <2>7, <2>8, <2>9, <1>1, <1>2 DEF Delays
<1>11. P.mode # "static" => Quiet(P, Q)
  BY <1>1, <1>2, <1>3b DEF Quiet, NoHooks, Deferred
<1>12. Keeps(P, L, Q, h, k, s, n)
  BY <1>7, <1>8, <1>9, <1>10, <1>11 DEF Keeps
<1>13. JRank(P, L, Q, h, k, s, n)
  BY <1>1, <1>2, <1>4, <1>5, <1>6, <1>12 DEF JRank
<1> QED
  BY <1>2, <1>13 DEF StepsTo, Kept

\* A rank that has failed, in whatever it did.
LEMMA FailedRank ==
  ASSUME NEW P, NEW L, NEW R, NEW l, NEW k, NEW f, NEW n, NEW Q, NEW h,
         TypedRank(P, R, l, k, f, n), JRank(P, L, R, l, k, f, n), l \in {"backward", "final"},
         Sane(P, Q), Kept(R, Q), Q.iterations = R.iterations, Q.reduced = R.reduced,
         Ledger(P, L, Q, n), h \in [Params -> 0..2]
  PROVE  StepsTo(P, L, R, Q, "raised", k, h, n)
<1>1. /\ Typed(P, R, l, k, f) /\ LaidOut(L, R, l)
      /\ R.rebuilt => P.mode # "unused" /\ n \geq First(P)
      /\ ~R.rebuilt /\ P.mode # "unused" => n \leq First(P)
      /\ ~R.rebuilt /\ n = First(P) /\ P.mode # "unused" => l \in {"idle", "indices", "sizes"}
  BY DEF JRank
<1>2. Q.rebuilt = R.rebuilt /\ Q.buckets = R.buckets
  BY DEF Kept
<1>3. Typed(P, Q, "raised", k, h)
  BY <1>1, <1>2, SaneNext DEF Typed, Sane
<1>4. LaidOut(L, Q, "raised")
  BY <1>1, <1>2 DEF LaidOut
<1>5. l \notin {"idle", "indices", "sizes"}
  OBVIOUS
<1> QED
  BY <1>1, <1>2, <1>3, <1>4, <1>5 DEF JRank, StepsTo

\* The backward had nothing to reduce, or was left unfinished.
LEMMA EndRank ==
  ASSUME NEW P, NEW L, NEW R, NEW k, NEW f, NEW n,
         TypedRank(P, R, "backward", k, f, n), JRank(P, L, R, "backward", k, f, n), R.callback = "none"
  PROVE  StepsTo(P, L, R, R, "idle", k + 1, f, n)
<1> DEFINE l == "backward"
           h == "idle"
           j == k + 1
<1>0. /\ Typed(P, R, l, k, f) /\ LaidOut(L, R, l) /\ Ledger(P, L, R, n) /\ Keeps(P, L, R, l, k, f, n)
      /\ R.expect \in BOOLEAN /\ n \in Nat /\ k \in Nat /\ First(P) \in Nat /\ R.finalize \in BOOLEAN
      /\ R.rebuilt => P.mode # "unused" /\ n \geq First(P)
      /\ ~R.rebuilt /\ P.mode # "unused" => n \leq First(P)
      /\ ~R.rebuilt /\ n = First(P) /\ P.mode # "unused" => l \in {"idle", "indices", "sizes"}
      /\ Len(P.passes) \in Nat
  BY ProgramFacts DEF JRank, TypedRank
<1>1. Progress(P, L, R, l, n) /\ Ordered(P, R, l, n) /\ Marking(R, l)
      /\ (P.mode = "static" => Delays(P, R, l, k, f, n)) /\ (P.mode # "static" => Quiet(P, R))
  BY <1>0 DEF Keeps
<1>2. P.passes[k + 1] # "ignored" /\ R.iterations = Opened(P, k + 1) /\ k < Len(P.passes)
  BY <1>0 DEF Typed
<1>3. j \in 0..Len(P.passes)
  BY <1>0, <1>2
<1>4. Typed(P, R, h, j, f)
  BY <1>0, <1>2, <1>3 DEF Typed
<1>5. LaidOut(L, R, h)
  BY <1>0 DEF LaidOut
<1>6. l \notin {"idle", "indices", "sizes"} /\ h \notin {"indices", "sizes"} /\ h # "final" /\ h # "backward"
      /\ h \notin InForward /\ l \notin InForward
  BY DEF InForward
<1>7. Progress(P, L, R, h, n)
  BY <1>1, <1>6 DEF Progress
<1>8. Ordered(P, R, h, n)
  BY <1>0, <1>1, <1>6 DEF Ordered
<1>9. Marking(R, h)
  BY <1>1, <1>6 DEF Marking
<1>10. ASSUME P.mode = "static"
       PROVE  Delays(P, R, h, j, f, n)
  <2>1. Delays(P, R, l, k, f, n)
    BY <1>1, <1>10
  <2>2. R.iterations # 1
    BY <2>1 DEF Delays
  <2>3. ~AfterIgnored(P, j)
    BY <1>2 DEF AfterIgnored
  <2>4. \A i \in 2..j : ~DoomedAt(P, i)
    <3>1. ~DoomedAt(P, j)
      BY <2>2, <1>2 DEF DoomedAt
    <3>2. \A i \in 2..j : i = j \/ i \in 2..k
      BY <1>0
    <3>3. \A i \in 2..k : ~DoomedAt(P, i)
      BY <2>1 DEF Delays
    <3> QED
      BY <3>1, <3>2, <3>3
  <2> QED
    BY <2>1, <2>2, <2>3, <2>4, <1>6 DEF Delays
<1>11. Keeps(P, L, R, h, j, f, n)
  BY <1>1, <1>7, <1>8, <1>9, <1>10 DEF Keeps
<1>12. JRank(P, L, R, h, j, f, n)
  BY <1>0, <1>4, <1>5, <1>11 DEF JRank
<1> QED
  BY <1>12 DEF StepsTo, Kept

\* After the last bucket all parameters are ready.
LEMMA AllReady ==
  ASSUME NEW P, NEW R, Sane(P, R), R.next > Len(R.buckets), \A i \in 1..R.next - 1 : Complete(R, i)
  PROVE  R.ready = Params /\ R.next = Len(R.buckets) + 1
<1>0. Len(R.buckets) \in Nat /\ R.next \in 1..Len(R.buckets) + 1 /\ R.ready \subseteq Params
  BY DEF Sane, IsLayout
<1>1. R.next = Len(R.buckets) + 1
  BY <1>0
<1>2. ASSUME NEW p \in Params
      PROVE  p \in R.ready
  <2>1. PICK i \in 1..Len(R.buckets) : p \in Range(R.buckets[i])
    BY DEF Sane, IsLayout
  <2>2. i \in 1..R.next - 1
    BY <1>0, <1>1
  <2> QED
    BY <2>1, <2>2 DEF Complete
<1> QED
  BY <1>0, <1>1, <1>2

\* The order that a rank has when its reduction ends.
LEMMA FinalOrder ==
  ASSUME NEW P \in Programs, NEW R, NEW n \in Nat, Sane(P, R), Recorded(P, R), R.ready = Params,
         P.mode = "plain" => R.unused = {}, P.mode # "unused", ~R.rebuilt
  PROVE  IsPerm(IF P.mode = "static" THEN R.order \o Ascending(R.unused) ELSE R.order)
<1>0. Distinct(R.order) /\ Range(R.order) = Params \ R.unused /\ R.unused \subseteq Params /\ R.order \in Seq(Params)
  BY DEF Recorded, Sane
<1>1. CASE P.mode = "static"
  <2> DEFINE a == Ascending(R.unused)
  <2>1. a \in Seq(Params) /\ Distinct(a) /\ Range(a) = R.unused
    BY <1>0, AscendingFacts
  <2> HIDE DEF a
  <2>2. Range(R.order) \cap Range(a) = {}
    BY <2>1, <1>0
  <2>3. R.order \o a \in Seq(Params) /\ Distinct(R.order \o a) /\ Range(R.order \o a) = Range(R.order) \cup Range(a)
    BY <2>1, <2>2, <1>0, DistinctConcat
  <2>4. Range(R.order) \cup Range(a) = Params
    BY <2>1, <1>0
  <2>5. IsPerm(R.order \o a)
    BY <2>3, <2>4, DistinctPerm
  <2> QED
    BY <2>5, <1>1 DEF a
<1>2. CASE P.mode # "static"
  <2>1. P.mode = "plain"
    BY <1>2, ProgramFacts DEF Modes
  <2>2. Range(R.order) = Params
    BY <2>1, <1>0
  <2> QED
    BY <2>2, <1>0, <1>2, DistinctPerm
<1> QED
  BY <1>1, <1>2

\* Q is R but for its callback and the order of its parameters.
Concluded(P, R, Q) ==
  /\ DOMAIN Q = Fields /\ Q.expect = R.expect /\ Q.next = R.next /\ Q.ready = R.ready /\ Q.marked = R.marked
  /\ Q.left = R.left /\ Q.unused = R.unused /\ Q.callback = "none"
  /\ Q.iterations = R.iterations /\ Q.finalize = R.finalize /\ Q.buckets = R.buckets /\ Q.view = R.view
  /\ Q.used = R.used /\ Q.reduced = R.reduced /\ Q.hooks = R.hooks
  /\ Q.rebuilt = R.rebuilt /\ Q.plan = R.plan /\ Q.work = R.work /\ Q.done = R.done
  /\ Q.order = IF P.mode = "static" /\ ~R.rebuilt THEN R.order \o Ascending(R.unused) ELSE R.order

\* The last bucket is issued: the rank waits for the results.
LEMMA ConcludeRank ==
  ASSUME NEW P, NEW L, NEW R, NEW k, NEW f, NEW n, NEW Q,
         TypedRank(P, R, "backward", k, f, n), JRank(P, L, R, "backward", k, f, n), R.callback = "finalize",
         Concluded(P, R, Q)
  PROVE  StepsTo(P, L, R, Q, "final", k, f, n)
<1> DEFINE l == "backward"
           h == "final"
<1>0. /\ Typed(P, R, l, k, f) /\ LaidOut(L, R, l) /\ Ledger(P, L, R, n) /\ Keeps(P, L, R, l, k, f, n)
      /\ R.expect \in BOOLEAN /\ n \in Nat /\ k \in Nat /\ First(P) \in Nat /\ R.finalize \in BOOLEAN
      /\ R.rebuilt => P.mode # "unused" /\ n \geq First(P)
      /\ ~R.rebuilt /\ P.mode # "unused" => n \leq First(P) /\ n # First(P)
      /\ P \in Programs /\ P.mode \in Modes
  BY ProgramFacts DEF JRank, TypedRank
<1>1. Progress(P, L, R, l, n) /\ Ordered(P, R, l, n) /\ Marking(R, l)
      /\ (P.mode = "static" => Delays(P, R, l, k, f, n)) /\ (P.mode # "static" => Quiet(P, R))
  BY <1>0 DEF Keeps
<1>2. /\ R.finalize /\ R.expect /\ R.marked /\ R.unused \subseteq R.ready
      /\ \A i \in 1..R.next - 1 : Complete(R, i)
      /\ R.next > Len(R.buckets)
  BY <1>0, <1>1 DEF Marking
<1>3. P.mode = "static" => R.iterations # 1 /\ n # 0 /\ n > 0
  <2>1. l # "final"
    OBVIOUS
  <2>2. P.mode = "static" => R.iterations # 1 /\ n > 0
    BY <2>1, <1>1, <1>2 DEF Delays
  <2> QED
    BY <2>2, <1>0
<1>4. HooksMark(P, R, l, n)
  BY <1>2, <1>3 DEF HooksMark
<1>5. InHook(P, L, R, n) /\ InBuckets(P, L, R, n)
  BY <1>3, <1>4, RankInHook, RankInBuckets
<1>6. Sane(P, R) /\ Recorded(P, R) /\ IsLayout(R.buckets) /\ Len(R.buckets) \in Nat
  BY <1>5 DEF InHook, Sane, IsLayout
<1>7. R.ready = Params /\ R.next = Len(R.buckets) + 1
  BY <1>2, <1>6, AllReady
<1>8. Issued(R) = Len(RoundSigs(P, L, Rounds(R, n)))
  <2> DEFINE S == RoundSigs(P, L, Rounds(R, n))
  <2>1. Len(S) = IF P.mode = "unused" THEN Len(R.buckets) + 1 ELSE Len(R.buckets)
    BY <1>5, <1>6, InBucketsSigs
  <2>2. Issued(R) = IF P.mode = "unused" THEN R.next ELSE R.next - 1
    BY <1>1, <1>2 DEF Progress
  <2>3. R.next - 1 = Len(R.buckets)
    BY <1>6, <1>7
  <2> HIDE DEF S
  <2>4. Issued(R) = Len(S)
    BY <2>1, <2>2, <2>3, <1>7
  <2> QED
    BY <2>4 DEF S
<1>9. /\ Q.expect = R.expect /\ Q.next = R.next /\ Q.ready = R.ready /\ Q.marked = R.marked
      /\ Q.left = R.left /\ Q.unused = R.unused /\ Q.callback = "none"
      /\ Q.iterations = R.iterations /\ Q.finalize = R.finalize /\ Q.buckets = R.buckets /\ Q.view = R.view
      /\ Q.used = R.used /\ Q.reduced = R.reduced /\ Q.hooks = R.hooks
      /\ Q.rebuilt = R.rebuilt /\ Q.plan = R.plan /\ Q.work = R.work /\ Q.done = R.done
  BY DEF Concluded
<1>10. P.mode # "unused" /\ ~R.rebuilt => n + 1 = First(P) /\ IsPerm(Q.order)
  <2> SUFFICES ASSUME P.mode # "unused", ~R.rebuilt
               PROVE  n + 1 = First(P) /\ IsPerm(Q.order)
    OBVIOUS
  <2>1. n + 1 = First(P)
    <3>1. First(P) = IF P.mode = "static" THEN 2 ELSE 1
      BY DEF First
    <3> QED
      BY <3>1, <1>0, <1>3
  <2>2. P.mode = "plain" => R.unused = {}
    BY <1>1 DEF Quiet
  <2>3. IsPerm(IF P.mode = "static" THEN R.order \o Ascending(R.unused) ELSE R.order)
    BY <2>2, <1>0, <1>6, <1>7, FinalOrder
  <2>4. Q.order = IF P.mode = "static" THEN R.order \o Ascending(R.unused) ELSE R.order
    BY DEF Concluded
  <2> QED
    BY <2>1, <2>3, <2>4
<1>11. Q.order \in Seq(Params)
  <2>1. CASE P.mode # "unused" /\ ~R.rebuilt
    BY <2>1, <1>10 DEF IsPerm
  <2>2. CASE ~(P.mode # "unused" /\ ~R.rebuilt)
    <3>1. Q.order = R.order
      BY <2>2 DEF Concluded
    <3> QED
      BY <3>1, <1>0 DEF Typed
  <2> QED
    BY <2>1, <2>2
<1>12. Typed(P, Q, h, k, f)
  BY <1>0, <1>9, <1>11 DEF Typed
<1>13. LaidOut(L, Q, h)
  BY <1>0, <1>9 DEF LaidOut
<1>14. Ledger(P, L, Q, n) /\ Issued(Q) = Issued(R)
  BY <1>0, <1>9, LedgerSame
<1>15. Progress(P, L, Q, h, n)
  <2>1. Rounds(Q, n) = Rounds(R, n)
    BY <1>9 DEF Rounds
  <2> QED
    BY <2>1, <1>2, <1>8, <1>9, <1>14 DEF Progress
<1>16. Ordered(P, Q, h, n)
  BY <1>0, <1>2, <1>9, <1>10 DEF Ordered
<1>17. Marking(Q, h)
  BY <1>2, <1>9 DEF Marking, InForward
<1>18. ASSUME P.mode = "static"
       PROVE  Delays(P, Q, h, k, f, n)
  <2>1. Delays(P, R, l, k, f, n) /\ R.iterations # 1 /\ n # 0
    BY <1>1, <1>3, <1>18
  <2>2. h \notin InForward /\ h \notin {"idle", "indices", "sizes", "forward"} /\ h # "backward"
    BY DEF InForward
  <2> QED
    BY <2>1, <2>2, <1>9 DEF Delays
<1>19. P.mode # "static" => Quiet(P, Q)
  BY <1>1, <1>9 DEF Quiet, NoHooks
<1>20. Keeps(P, L, Q, h, k, f, n)
  BY <1>15, <1>16, <1>17, <1>18, <1>19 DEF Keeps
<1>21. JRank(P, L, Q, h, k, f, n)
  BY <1>0, <1>9, <1>12, <1>13, <1>14, <1>20 DEF JRank
<1> QED
  BY <1>9, <1>21 DEF StepsTo, Kept

\* What delay_all_reduce does, up to the reduction of the buckets.
Filling(P, R, F, g) ==
  /\ DOMAIN F = Fields /\ F.unused = {p \in Params : R.hooks[p] = 0} /\ F.finalize = TRUE
  /\ F.work = Append(R.work, AllReduceLocalUsedMap(R))
  /\ F.view = [p \in Params |-> g[p]] /\ F.error \in BOOLEAN
  /\ F.expect = R.expect /\ F.next = R.next /\ F.ready = R.ready /\ F.marked = R.marked
  /\ F.left = R.left /\ F.callback = R.callback
  /\ F.iterations = R.iterations /\ F.buckets = R.buckets /\ F.order = R.order
  /\ F.used = R.used /\ F.reduced = R.reduced /\ F.hooks = R.hooks
  /\ F.rebuilt = R.rebuilt /\ F.plan = R.plan /\ F.done = R.done

\* All buckets, issued.
FilledBuckets(F) == [i \in DOMAIN F.buckets |-> AllReduceBucket(F, i)]

\* S is F, with all buckets issued unless a check failed.
Loads(F, S) == S = IF F.error THEN F ELSE [F EXCEPT !.work = F.work \o FilledBuckets(F)]

\* delay_all_reduce copies all gradients, then reduces all buckets.
LEMMA DelayEffect ==
  ASSUME NEW P, NEW R, NEW g, DOMAIN R = Fields, NEW S, S = DelayAllReduce(R, g)
  PROVE  \E F : Filling(P, R, F, g) /\ Loads(F, S)
<1> DEFINE A == [R EXCEPT !.unused = {p \in Params : R.hooks[p] = 0}, !.finalize = TRUE]
           B == Issue(A, AllReduceLocalUsedMap(R))
           F == MarkVariablesReadyDense(B, g, Params)
<1>1. DelayAllReduce(R, g) =
        IF F.error THEN F ELSE [F EXCEPT !.work = @ \o [i \in DOMAIN R.buckets |-> AllReduceBucket(F, i)]]
  BY DEF DelayAllReduce
<1>2. /\ DOMAIN A = Fields /\ A.unused = {p \in Params : R.hooks[p] = 0} /\ A.finalize = TRUE
      /\ A.work = R.work /\ A.view = R.view
      /\ A.expect = R.expect /\ A.next = R.next /\ A.ready = R.ready /\ A.marked = R.marked
      /\ A.left = R.left /\ A.callback = R.callback
      /\ A.iterations = R.iterations /\ A.buckets = R.buckets /\ A.order = R.order
      /\ A.used = R.used /\ A.reduced = R.reduced /\ A.hooks = R.hooks
      /\ A.rebuilt = R.rebuilt /\ A.plan = R.plan /\ A.done = R.done
  BY DEF Fields
<1> HIDE DEF A
<1>3. B = [A EXCEPT !.work = Append(A.work, AllReduceLocalUsedMap(R))]
  BY DEF Issue
<1> HIDE DEF B
<1>4. /\ DOMAIN B = Fields /\ B.unused = A.unused /\ B.finalize = A.finalize
      /\ B.work = Append(A.work, AllReduceLocalUsedMap(R)) /\ B.view = A.view
      /\ B.expect = A.expect /\ B.next = A.next /\ B.ready = A.ready /\ B.marked = A.marked
      /\ B.left = A.left /\ B.callback = A.callback
      /\ B.iterations = A.iterations /\ B.buckets = A.buckets /\ B.order = A.order
      /\ B.used = A.used /\ B.reduced = A.reduced /\ B.hooks = A.hooks
      /\ B.rebuilt = A.rebuilt /\ B.plan = A.plan /\ B.done = A.done
  BY <1>2, <1>3 DEF Fields
<1> DEFINE v == [p \in Params |-> IF p \in Params THEN g[p] ELSE B.view[p]]
           e == (DynamicFindUnused \/ StaticFirst(B)) /\ \E p \in Params : g[p] = {} /\ p \in B.used
<1>5. F = [B EXCEPT !.view = v, !.error = e]
  BY DEF MarkVariablesReadyDense
<1>6. v = [p \in Params |-> g[p]] /\ e \in BOOLEAN
  OBVIOUS
<1> HIDE DEF F, v, e
<1>7. /\ DOMAIN F = Fields /\ F.unused = B.unused /\ F.finalize = B.finalize
      /\ F.work = B.work /\ F.view = v /\ F.error = e
      /\ F.expect = B.expect /\ F.next = B.next /\ F.ready = B.ready /\ F.marked = B.marked
      /\ F.left = B.left /\ F.callback = B.callback
      /\ F.iterations = B.iterations /\ F.buckets = B.buckets /\ F.order = B.order
      /\ F.used = B.used /\ F.reduced = B.reduced /\ F.hooks = B.hooks
      /\ F.rebuilt = B.rebuilt /\ F.plan = B.plan /\ F.done = B.done
  BY <1>4, <1>5 DEF Fields
<1>8. Filling(P, R, F, g)
  BY <1>2, <1>4, <1>6, <1>7 DEF Filling
<1>9. DelayAllReduce(R, g) = IF F.error THEN F ELSE [F EXCEPT !.work = F.work \o FilledBuckets(F)]
  BY <1>1, <1>2, <1>4, <1>7 DEF FilledBuckets
<1>10. Loads(F, S)
  BY <1>9 DEF Loads
<1> QED
  BY <1>8, <1>10

\* delay_all_reduce issues all buckets in order.
LEMMA FilledWorks ==
  ASSUME NEW P, NEW F, Sane(P, F)
  PROVE  /\ IsWorks(P, FilledBuckets(F)) /\ Len(FilledBuckets(F)) = Len(F.buckets)
         /\ \A i \in 1..Len(F.buckets) : Sig(FilledBuckets(F)[i]) = <<"bucket", F.buckets[i]>>
<1> DEFINE s == FilledBuckets(F)
           D == {AllReduceBucket(F, i) : i \in 1..Len(F.buckets)}
           m == Len(F.buckets)
<1>0. m \in Nat /\ DOMAIN F.buckets = 1..m
  BY DEF Sane, IsLayout
<1>1. s \in [1..m -> D] /\ \A i \in 1..m : s[i] = AllReduceBucket(F, i)
  BY <1>0 DEF FilledBuckets
<1>2. \A i \in 1..m : IsWork(P, AllReduceBucket(F, i)) /\ Sig(AllReduceBucket(F, i)) = <<"bucket", F.buckets[i]>>
  BY BucketWork
<1> HIDE DEF s, D, m
<1>3. s \in Seq(D) /\ Len(s) = m
  BY <1>0, <1>1, FunctionSeq
<1>4. s \in Seq(Range(s))
  BY <1>3, SeqOfRange
<1>5. IsWorks(P, s)
  BY <1>1, <1>2, <1>3, <1>4 DEF IsWorks
<1> QED
  BY <1>1, <1>2, <1>3, <1>5 DEF s, m

\* What the ledger of a delayed reduction is.
DelayedAs(P, L, R, F, Q, n) ==
  /\ Ledger(P, L, Q, n)
  /\ Q.work = F.work \o FilledBuckets(F) => Issued(Q) = Len(RoundSigs(P, L, Rounds(R, n)))

\* The round of a delayed reduction: the used map, then all buckets.
LEMMA DelayLedger ==
  ASSUME NEW P, NEW L, NEW R, NEW n, NEW Q, NEW F, NEW g, Ledger(P, L, R, n), Issued(R) = 0,
         Filling(P, R, F, g), Sane(P, F), DelayedRound(P, Rounds(R, n)), ~Rebuilds(P, Rounds(R, n)),
         R.buckets = InitialBuckets, Q.done = R.done, Q.rebuilt = R.rebuilt,
         Q.work = F.work \/ Q.work = F.work \o FilledBuckets(F)
  PROVE  DelayedAs(P, L, R, F, Q, n)
<1> USE DEF DelayedAs
<1> DEFINE S == RoundSigs(P, L, Rounds(R, n))
           u == AllReduceLocalUsedMap(R)
           b == FilledBuckets(F)
           m == Len(R.buckets)
<1>0. F.work = Append(R.work, u) /\ F.buckets = R.buckets /\ F.used = R.used /\ F.used \subseteq Params /\ m \in Nat
      /\ F.done = R.done /\ F.rebuilt = R.rebuilt
  BY DEF Filling, Sane, IsLayout
<1>1. S = <<UsedSig>> \o BucketSigs(InitialBuckets)
  BY DEF RoundSigs, DelayedRound
<1>2. /\ Len(S) = m + 1 /\ S[1] = UsedSig
      /\ \A i \in 1..m : S[1 + i] = <<"bucket", R.buckets[i]>>
  BY <1>0, <1>1, BucketSigsLen
<1>3. IsWork(P, u) /\ Sig(u) = UsedSig
  BY <1>0, UsedWork
<1>4. IsWorks(P, b) /\ Len(b) = m /\ \A i \in 1..m : Sig(b[i]) = <<"bucket", R.buckets[i]>>
  BY <1>0, FilledWorks
<1> HIDE DEF S, u, b, m
<1>5. IsWorks(P, <<u>>) /\ Len(<<u>>) = 1 /\ <<u>>[1] = u
  BY <1>3, OneWork
<1> DEFINE t == <<u>>
<1>6. F.work = R.work \o t
  <2>1. IsWorks(P, R.work)
    BY DEF Ledger
  <2> QED
    BY <2>1, <1>0, AppendWork
<1>7. IsWorks(P, t) /\ Len(t) = 1 /\ t[1] = u
  BY <1>5
<1> HIDE DEF t
<1>8. Issues(P, L, R, F, n, t)
  <2>1. ASSUME NEW i \in 1..Len(t)
        PROVE  Sig(t[i]) = S[Issued(R) + i]
    <3>1. i = 1 /\ Issued(R) + i = 1
      BY <1>7
    <3> QED
      BY <3>1, <1>2, <1>3, <1>7
  <2>2. Issued(R) + Len(t) \leq Len(S)
    BY <1>0, <1>2, <1>7
  <2> QED
    BY <2>1, <2>2, <1>0, <1>6, <1>7 DEF Issues, S
<1>9. Ledger(P, L, F, n) /\ Issued(F) = Issued(R) + Len(t)
  <2>1. Ledger(P, L, R, n)
    OBVIOUS
  <2> QED
    BY ONLY <2>1, <1>8, LedgerIssue
<1>10. Issued(F) = 1 /\ Rounds(F, n) = Rounds(R, n)
  BY <1>0, <1>7, <1>9 DEF Rounds
<1>11. CASE Q.work = F.work
  <2>1. Ledger(P, L, Q, n) /\ Issued(Q) = Issued(F)
    <3>1. Q.done = F.done /\ Q.rebuilt = F.rebuilt
      BY <1>0
    <3> QED
      BY <3>1, <1>9, <1>11, LedgerSame
  <2>2. ASSUME Q.work = F.work \o b
        PROVE  Issued(Q) = Len(S)
    <3>1. IsWorks(P, F.work)
      BY <1>9 DEF Ledger
    <3>2. Len(F.work \o b) = Len(F.work) + Len(b) /\ Len(F.work) \in Nat
      BY <3>1, <1>4, ConcatWorks
    <3>3. Len(F.work) = Len(F.work) + m
      BY <3>2, <2>2, <1>4, <1>11
    <3>4. m = 0
      BY <3>2, <3>3, <1>0
    <3> QED
      BY <3>4, <2>1, <1>2, <1>10
  <2> QED
    BY <2>1, <2>2 DEF b, S
<1>12. CASE Q.work = F.work \o b
  <2>1. Issues(P, L, F, Q, n, b)
    <3>1. \A i \in 1..Len(b) : Sig(b[i]) = S[Issued(F) + i]
      BY <1>2, <1>4, <1>10
    <3>2. Issued(F) + Len(b) \leq Len(S)
      BY <1>0, <1>2, <1>4, <1>10
    <3> QED
      BY <3>1, <3>2, <1>0, <1>4, <1>10, <1>12 DEF Issues, S
  <2>2. Ledger(P, L, Q, n) /\ Issued(Q) = Issued(F) + Len(b)
    <3>1. Ledger(P, L, F, n)
      BY <1>9
    <3> QED
      BY ONLY <3>1, <2>1, LedgerIssue
  <2>3. Issued(Q) = Len(S)
    BY <2>2, <1>0, <1>2, <1>4, <1>10
  <2> QED
    BY <2>2, <2>3 DEF S
<1> QED
  BY <1>11, <1>12 DEF b

\* Q is F but for its callback, with the buckets issued unless a check failed.
Drained(F, Q) ==
  /\ DOMAIN Q = Fields /\ Q.expect = F.expect /\ Q.next = F.next /\ Q.ready = F.ready /\ Q.marked = F.marked
  /\ Q.left = F.left /\ Q.unused = F.unused /\ Q.callback = "none" /\ Q.order = F.order
  /\ Q.iterations = F.iterations /\ Q.finalize = F.finalize /\ Q.buckets = F.buckets /\ Q.view = F.view
  /\ Q.used = F.used /\ Q.reduced = F.reduced /\ Q.hooks = F.hooks
  /\ Q.rebuilt = F.rebuilt /\ Q.plan = F.plan /\ Q.done = F.done
  /\ Q.error \in BOOLEAN
  /\ Q.work = F.work \/ Q.work = F.work \o FilledBuckets(F)
  /\ ~Q.error => Q.expect /\ Q.work = F.work \o FilledBuckets(F)

\* The callback of the first static iteration: the used map and all buckets are the whole round.
LEMMA DelayRank ==
  ASSUME NEW P, NEW L, NEW R, NEW k, NEW f, NEW n, NEW F, NEW Q, NEW g \in [Params -> Given(P)],
         TypedRank(P, R, "backward", k, f, n), JRank(P, L, R, "backward", k, f, n), R.callback = "delay",
         Filling(P, R, F, g), Drained(F, Q)
  PROVE  StepsTo(P, L, R, Q, IF Q.error THEN "raised" ELSE "final", k, f, n)
<1> DEFINE l == "backward"
           h == "final"
<1>0. /\ Typed(P, R, l, k, f) /\ LaidOut(L, R, l) /\ Ledger(P, L, R, n) /\ Keeps(P, L, R, l, k, f, n)
      /\ R.expect \in BOOLEAN /\ n \in Nat /\ k \in Nat /\ R.finalize \in BOOLEAN /\ R.rebuilt \in BOOLEAN
      /\ R.rebuilt => P.mode # "unused" /\ n \geq First(P)
      /\ ~R.rebuilt /\ P.mode # "unused" => n \leq First(P)
      /\ P \in Programs
  BY DEF JRank, TypedRank, Typed
<1>1. Progress(P, L, R, l, n) /\ Ordered(P, R, l, n) /\ Marking(R, l)
      /\ (P.mode = "static" => Delays(P, R, l, k, f, n)) /\ (P.mode # "static" => Quiet(P, R))
  BY <1>0 DEF Keeps
<1>2. P.mode = "static"
  BY <1>1 DEF Quiet
<1>3. Delays(P, R, l, k, f, n) /\ R.iterations = 1
  BY <1>1, <1>2 DEF Delays
<1>4. n = IF R.expect THEN 0 ELSE 1
  <2>1. l \notin InForward
    BY DEF InForward
  <2> QED
    BY <2>1, <1>3 DEF Delays
<1>5. ~R.finalize
  <2>1. l # "final"
    OBVIOUS
  <2> QED
    BY <2>1, <1>3, <1>0 DEF Delays
<1>6. First(P) = 2 /\ ~R.rebuilt /\ n < First(P) /\ n # First(P)
  <2>1. First(P) = 2
    BY <1>2 DEF First
  <2>2. n \in {0, 1}
    BY <1>4
  <2>3. ~R.rebuilt
    BY <2>1, <2>2, <1>0
  <2> QED
    BY <2>1, <2>2, <2>3
<1>7. Rounds(R, n) = n /\ R.buckets = InitialBuckets /\ Issued(R) = 0
  <2>1. l \notin {"indices", "sizes"}
    OBVIOUS
  <2> QED
    BY <2>1, <1>0, <1>1, <1>5, <1>6 DEF Rounds, LaidOut, Progress
<1>8. ~Rebuilds(P, Rounds(R, n))
  BY <1>6, <1>7 DEF Rebuilds
<1>9. DelayedRound(P, Rounds(R, n))
  <2>1. CASE R.expect
    BY <2>1, <1>2, <1>4, <1>7 DEF DelayedRound
  <2>2. CASE ~R.expect
    <3>1. DoomedAt(P, k + 1)
      BY <2>2, <1>3 DEF Delays
    <3>2. Doomed(P)
      BY <3>1 DEF Doomed, DoomedAt
    <3> QED
      BY <2>2, <3>2, <1>2, <1>4, <1>7 DEF DelayedRound
  <2> QED
    BY <2>1, <2>2
<1>10. Sane(P, R)
  BY <1>0, <1>6, RankSane
<1>11. /\ DOMAIN F = Fields /\ F.unused \subseteq Params /\ F.finalize = TRUE
       /\ F.view \in [Params -> Given(P)]
       /\ F.expect = R.expect /\ F.next = R.next /\ F.ready = R.ready /\ F.marked = R.marked
       /\ F.left = R.left /\ F.callback = R.callback
       /\ F.iterations = R.iterations /\ F.buckets = R.buckets /\ F.order = R.order
       /\ F.used = R.used /\ F.reduced = R.reduced /\ F.hooks = R.hooks
       /\ F.rebuilt = R.rebuilt /\ F.plan = R.plan /\ F.done = R.done
  BY DEF Filling
<1>12. Sane(P, F)
  BY <1>10, <1>11 DEF Sane
<1>13. /\ DOMAIN Q = Fields /\ Q.expect = R.expect /\ Q.next = R.next /\ Q.ready = R.ready /\ Q.marked = R.marked
       /\ Q.left = R.left /\ Q.unused \subseteq Params /\ Q.callback = "none" /\ Q.order = R.order
       /\ Q.iterations = R.iterations /\ Q.finalize = TRUE /\ Q.buckets = R.buckets
       /\ Q.view \in [Params -> Given(P)]
       /\ Q.used = R.used /\ Q.reduced = R.reduced /\ Q.hooks = R.hooks
       /\ Q.rebuilt = R.rebuilt /\ Q.plan = R.plan /\ Q.done = R.done
       /\ Q.error \in BOOLEAN
  BY <1>11 DEF Drained
<1>14. Q.work = F.work \/ Q.work = F.work \o FilledBuckets(F)
  BY DEF Drained
<1>15. /\ Ledger(P, L, Q, n)
       /\ Q.work = F.work \o FilledBuckets(F) => Issued(Q) = Len(RoundSigs(P, L, Rounds(R, n)))
  <2>1. Ledger(P, L, R, n) /\ Issued(R) = 0 /\ R.buckets = InitialBuckets
    BY <1>0, <1>7
  <2>2. Q.done = R.done /\ Q.rebuilt = R.rebuilt /\ Filling(P, R, F, g)
    BY <1>13
  <2>3. DelayedAs(P, L, R, F, Q, n)
    BY ONLY <2>1, <2>2, <1>8, <1>9, <1>12, <1>14, DelayLedger
  <2> QED
    BY <2>3 DEF DelayedAs
<1>16. Sane(P, Q)
  BY <1>10, <1>13 DEF Sane
<1>17. Kept(R, Q) /\ f \in [Params -> 0..2]
  BY <1>0, <1>13 DEF Kept, Typed
<1>18. CASE Q.error
  <2>1. StepsTo(P, L, R, Q, "raised", k, f, n)
    BY <1>13, <1>15, <1>16, <1>17, FailedRank
  <2> QED
    BY <2>1, <1>18
<1>19. CASE ~Q.error
  <2>1. R.expect /\ Issued(Q) = Len(RoundSigs(P, L, Rounds(R, n)))
    BY <1>13, <1>15, <1>19 DEF Drained
  <2>2. n = 0
    BY <2>1, <1>4
  <2>3. Typed(P, Q, h, k, f)
    BY <1>0, <1>13 DEF Typed
  <2>4. LaidOut(L, Q, h)
    BY <1>0, <1>13 DEF LaidOut
  <2>5. Progress(P, L, Q, h, n)
    <3>1. Rounds(Q, n) = Rounds(R, n)
      BY <1>13 DEF Rounds
    <3> QED
      BY <3>1, <2>1, <1>13 DEF Progress
  <2>6. Ordered(P, Q, h, n)
    <3>1. R.order = <<>>
      BY <1>1, <1>2, <1>5, <1>6 DEF Ordered
    <3>2. n + 1 # First(P) /\ n \leq First(P)
      BY <2>2, <1>6
    <3> QED
      BY <3>1, <3>2, <1>6, <1>13 DEF Ordered
  <2>7. Marking(Q, h)
    BY <2>1, <1>13 DEF Marking, InForward
  <2>8. Delays(P, Q, h, k, f, n)
    <3>1. AfterIgnored(P, k) \/ P.passes[k + 1] # "nosync"
      BY <2>1, <1>3 DEF Delays
    <3>2. (\A i \in 2..k : ~DoomedAt(P, i)) /\ R.left = [p \in Params |-> 0]
      BY <2>2, <1>3 DEF Delays
    <3>3. h \notin InForward /\ h \notin {"idle", "indices", "sizes", "forward"} /\ h # "backward" /\ h \in {"backward", "final"}
      BY DEF InForward
    <3>4. ~(n > 0)
      BY <2>2
    <3> QED
      BY <2>1, <2>2, <3>1, <3>2, <3>3, <3>4, <1>3, <1>13 DEF Delays
  <2>9. Keeps(P, L, Q, h, k, f, n)
    BY <2>5, <2>6, <2>7, <2>8, <1>2 DEF Keeps
  <2>10. JRank(P, L, Q, h, k, f, n)
    BY <2>3, <2>4, <2>9, <1>0, <1>6, <1>13, <1>15 DEF JRank
  <2> QED
    BY <2>10, <1>17, <1>19 DEF StepsTo
<1> QED
  BY <1>13, <1>18, <1>19

\* A rank that waits for its reductions, all of which are complete.
LEMMA FinalFacts ==
  ASSUME NEW P, NEW L, NEW R, NEW k, NEW f, NEW n,
         TypedRank(P, R, "final", k, f, n), JRank(P, L, R, "final", k, f, n), R.work = <<>>
  PROVE  /\ Ended(P, L, R, n) /\ R.finalize /\ R.expect /\ IsWorks(P, R.done)
         /\ \A i \in 1..Len(R.done) : Sig(R.done[i]) = RoundSigs(P, L, Rounds(R, n))[i]
<1>0. Keeps(P, L, R, "final", k, f, n) /\ Ledger(P, L, R, n) /\ R.finalize \in BOOLEAN /\ R.expect \in BOOLEAN
  BY DEF JRank, TypedRank
<1>1. R.finalize /\ R.expect
  BY <1>0 DEF Keeps, Marking
<1>2. Issued(R) = Len(RoundSigs(P, L, Rounds(R, n)))
  BY <1>0 DEF Keeps, Progress
<1>3. IsWorks(P, R.done) /\ \A i \in 1..Len(R.done) : Sig(R.done[i]) = RoundSigs(P, L, Rounds(R, n))[i]
  BY <1>0 DEF Ledger
<1>4. Issued(R) = Len(R.done)
  <2>1. Len(R.work) = 0 /\ Len(R.done) \in Nat
    BY <1>3 DEF IsWorks
  <2> QED
    BY <2>1 DEF Issued
<1> QED
  BY <1>1, <1>2, <1>3, <1>4 DEF Ended

\* A delayed round, at the end of the first static iteration.
LEMMA FinalDelayed ==
  ASSUME NEW P, NEW L, NEW R, NEW k, NEW f, NEW n,
         TypedRank(P, R, "final", k, f, n), JRank(P, L, R, "final", k, f, n), P.mode = "static", n = 0
  PROVE  RoundSigs(P, L, Rounds(R, n)) = <<UsedSig>> \o BucketSigs(R.buckets)
<1>1. ~R.rebuilt /\ First(P) = 2
  <2>1. R.rebuilt => n \geq First(P)
    BY DEF JRank
  <2> QED
    BY <2>1 DEF First
<1>2. Rounds(R, n) = 0 /\ R.buckets = InitialBuckets
  BY <1>1 DEF Rounds, JRank, LaidOut
<1> QED
  BY <1>1, <1>2 DEF RoundSigs, Rebuilds, DelayedRound

\* Every bucket was reduced.
LEMMA FinalBuckets ==
  ASSUME NEW P, NEW L, NEW R, NEW k, NEW f, NEW n,
         TypedRank(P, R, "final", k, f, n), JRank(P, L, R, "final", k, f, n), R.work = <<>>
  PROVE  \A i \in 1..Len(R.buckets) : \E j \in 1..Len(R.done) : Sig(R.done[j]) = <<"bucket", R.buckets[i]>>
<1> DEFINE S == RoundSigs(P, L, Rounds(R, n))
<1>0. /\ Len(R.done) = Len(S) /\ \A i \in 1..Len(R.done) : Sig(R.done[i]) = S[i]
  BY FinalFacts DEF Ended
<1>1. IsLayout(R.buckets) /\ Len(R.buckets) \in Nat /\ n \in Nat
  <2>1. IsLayout(R.buckets)
    BY LaidOutLayout DEF JRank, Typed
  <2> QED
    BY <2>1 DEF IsLayout, TypedRank
<1>2. P.mode = "static" => (n = 0 <=> R.iterations = 1)
  BY DEF JRank, Keeps, Delays
<1>3. CASE P.mode = "static" /\ n = 0
  <2>1. S = <<UsedSig>> \o BucketSigs(R.buckets)
    BY <1>3, FinalDelayed
  <2>2. Len(S) = Len(R.buckets) + 1 /\ \A i \in 1..Len(R.buckets) : S[1 + i] = <<"bucket", R.buckets[i]>>
    BY <2>1, <1>1, BucketSigsLen
  <2> HIDE DEF S
  <2> TAKE i \in 1..Len(R.buckets)
  <2>3. 1 + i \in 1..Len(R.done)
    BY <2>2, <1>0, <1>1
  <2>4. Sig(R.done[1 + i]) = <<"bucket", R.buckets[i]>>
    BY <2>2, <2>3, <1>0
  <2> QED
    BY <2>3, <2>4
<1>4. CASE ~(P.mode = "static" /\ n = 0)
  <2>1. InBuckets(P, L, R, n)
    BY <1>2, <1>4, RankInBuckets
  <2>2. /\ \A i \in 1..Len(R.buckets) : S[i] = <<"bucket", R.buckets[i]>>
        /\ Len(S) = IF P.mode = "unused" THEN Len(R.buckets) + 1 ELSE Len(R.buckets)
    BY <2>1, <1>1, InBucketsSigs
  <2> HIDE DEF S
  <2> TAKE i \in 1..Len(R.buckets)
  <2>3. i \in 1..Len(R.done)
    BY <2>2, <1>0, <1>1
  <2>4. Sig(R.done[i]) = <<"bucket", R.buckets[i]>>
    BY <2>2, <2>3, <1>0
  <2> QED
    BY <2>3, <2>4
<1> QED
  BY <1>3, <1>4

\* The gradients that finalize_backward copies back are those of the buckets.
LEMMA FinalGrads ==
  ASSUME NEW P, NEW L, NEW R, NEW k, NEW f, NEW n, NEW g \in [Params -> Given(P)],
         TypedRank(P, R, "final", k, f, n), JRank(P, L, R, "final", k, f, n), R.work = <<>>
  PROVE  FinalizedGrads(R, g) \in [Params -> Given(P)]
<1>1. ASSUME NEW p \in Params
      PROVE  BucketResult(R, p) \in Given(P)
  <2>1. IsLayout(R.buckets)
    BY LaidOutLayout DEF JRank, Typed
  <2>2. PICK i \in 1..Len(R.buckets) : p \in Range(R.buckets[i])
    BY <2>1 DEF IsLayout
  <2>3. PICK j \in 1..Len(R.done) : Sig(R.done[j]) = <<"bucket", R.buckets[i]>>
    BY FinalBuckets
  <2>4. R.done[j].kind = "bucket" /\ R.done[j].key = R.buckets[i]
    BY <2>3 DEF Sig
  <2>5. IsWorks(P, R.done)
    BY FinalFacts
  <2>6. R.done[j] \in Range(R.done) /\ DOMAIN R.done = 1..Len(R.done)
    BY <2>5 DEF IsWorks, Range
  <2> DEFINE w == CHOOSE w \in Range(R.done) : w.kind = "bucket" /\ p \in Range(w.key)
  <2>7. w \in Range(R.done) /\ w.kind = "bucket" /\ p \in Range(w.key)
    BY <2>2, <2>4, <2>6
  <2>8. BucketResult(R, p) = w.data[p]
    BY DEF BucketResult
  <2> HIDE DEF w
  <2>9. PICK m \in 1..Len(R.done) : w = R.done[m]
    BY <2>6, <2>7 DEF Range
  <2>10. IsWork(P, w)
    BY <2>5, <2>9 DEF IsWorks
  <2>11. w.data \in [Range(w.key) -> Given(P)]
    BY <2>7, <2>10 DEF IsWork
  <2> QED
    BY <2>7, <2>8, <2>11
<1> QED
  BY <1>1 DEF FinalizedGrads

\* The used map of a static graph, whether it is reduced now or was before.
LEMMA FinalUsed ==
  ASSUME NEW P, P = program, NEW L, NEW R, NEW k, NEW f, NEW n,
         TypedRank(P, R, "final", k, f, n), JRank(P, L, R, "final", k, f, n), R.work = <<>>, P.mode = "static"
  PROVE  GlobalUsed(R) \subseteq Params /\ (R.used = Params => GlobalUsed(R) = Params)
<1>0. R.used \subseteq Params /\ n \in Nat /\ R.reduced \in BOOLEAN
  BY DEF JRank, Typed, TypedRank
<1>1. CASE R.reduced \/ R.used = Params
  <2>1. GlobalUsed(R) = R.used
    BY <1>1 DEF GlobalUsed, Mode
  <2> QED
    BY <2>1, <1>0
<1>2. CASE ~(R.reduced \/ R.used = Params)
  <2>1. GlobalUsed(R) = UsedResult(R)
    BY <1>2 DEF GlobalUsed, Mode
  <2>2. ~(n > 0)
    BY <1>2 DEF JRank, Keeps, Delays
  <2>3. n = 0
    BY <2>2, <1>0
  <2> DEFINE S == RoundSigs(P, L, Rounds(R, n))
  <2>4. S = <<UsedSig>> \o BucketSigs(R.buckets)
    BY <2>3, FinalDelayed
  <2>5. Len(R.buckets) \in Nat
    BY LaidOutLayout DEF JRank, Typed, IsLayout
  <2>6. Len(S) = Len(R.buckets) + 1 /\ S[1] = UsedSig
    BY <2>4, <2>5, BucketSigsLen
  <2>7. /\ Len(R.done) = Len(S) /\ IsWorks(P, R.done)
        /\ \A i \in 1..Len(R.done) : Sig(R.done[i]) = S[i]
    BY FinalFacts DEF Ended
  <2> HIDE DEF S
  <2>8. 1 \in 1..Len(R.done)
    BY <2>5, <2>6, <2>7
  <2>9. R.done[1].kind = "used"
    BY <2>6, <2>7, <2>8 DEF Sig, UsedSig
  <2>10. R.done[1] \in Range(R.done) /\ DOMAIN R.done = 1..Len(R.done)
    BY <2>7, <2>8 DEF IsWorks, Range
  <2> DEFINE w == CHOOSE w \in Range(R.done) : w.kind = "used"
  <2>11. w \in Range(R.done) /\ w.kind = "used"
    BY <2>9, <2>10
  <2>12. UsedResult(R) = w.data
    BY DEF UsedResult
  <2> HIDE DEF w
  <2>13. PICK m \in 1..Len(R.done) : w = R.done[m]
    BY <2>10, <2>11 DEF Range
  <2>14. IsWork(P, w)
    BY <2>7, <2>13 DEF IsWorks
  <2>15. w.data \subseteq Params
    BY <2>11, <2>14 DEF IsWork
  <2> QED
    BY <2>1, <2>12, <2>15, <1>2
<1> QED
  BY <1>1, <1>2

\* Q is R after a step that starts the next round.
TurnsTo(P, L, R, Q, l, k, f, n, m) ==
  /\ JRank(P, L, Q, l, k, f, m) /\ Q.done = <<>> /\ Q.work = <<>>
  /\ Rounds(Q, m) = Rounds(R, n) + 1 /\ Ended(P, L, R, n)

\* Q is R after finalize_backward.
Finalized(P, R, Q) ==
  /\ DOMAIN Q = Fields /\ Q.expect = FALSE /\ Q.finalize = FALSE /\ Q.done = <<>>
  /\ Q.used \subseteq Params /\ Q.reduced \in BOOLEAN
  /\ P.mode = "static" => Q.reduced \/ Q.used = Params
  /\ Q.next = R.next /\ Q.ready = R.ready /\ Q.marked = R.marked
  /\ Q.left = R.left /\ Q.unused = R.unused /\ Q.callback = R.callback /\ Q.order = R.order
  /\ Q.iterations = R.iterations /\ Q.buckets = R.buckets /\ Q.view = R.view
  /\ Q.hooks = R.hooks /\ Q.rebuilt = R.rebuilt /\ Q.plan = R.plan /\ Q.work = R.work

\* What finalize_backward leaves.
LEMMA FinalizedFacts ==
  ASSUME NEW P, P = program, NEW L, NEW R, NEW k, NEW f, NEW n, NEW Q,
         TypedRank(P, R, "final", k, f, n), JRank(P, L, R, "final", k, f, n), R.work = <<>>,
         Q = FinalizedReducer(R)
  PROVE  Finalized(P, R, Q)
<1> DEFINE u == IF P.mode = "static" THEN GlobalUsed(R) ELSE {}
           d == P.mode = "static" /\ (R.reduced \/ R.used # Params)
<1>1. Q = [R EXCEPT !.expect = FALSE, !.finalize = FALSE, !.done = <<>>, !.used = u, !.reduced = d]
  BY DEF FinalizedReducer, Mode
<1>2. u \subseteq Params /\ d \in BOOLEAN /\ (P.mode = "static" => d = TRUE \/ u = Params)
  BY FinalUsed
<1>3. DOMAIN R = Fields
  BY DEF TypedRank
<1> HIDE DEF u, d
<1>4. /\ DOMAIN Q = Fields /\ Q.expect = FALSE /\ Q.finalize = FALSE /\ Q.done = <<>>
      /\ Q.used = u /\ Q.reduced = d
      /\ Q.next = R.next /\ Q.ready = R.ready /\ Q.marked = R.marked
      /\ Q.left = R.left /\ Q.unused = R.unused /\ Q.callback = R.callback /\ Q.order = R.order
      /\ Q.iterations = R.iterations /\ Q.buckets = R.buckets /\ Q.view = R.view
      /\ Q.hooks = R.hooks /\ Q.rebuilt = R.rebuilt /\ Q.plan = R.plan /\ Q.work = R.work
  BY <1>1, <1>3 DEF Fields
<1> QED
  BY <1>2, <1>4 DEF Finalized

\* finalize_backward ends the round and starts the next.
LEMMA FinalizeRank ==
  ASSUME NEW P, NEW L, NEW R, NEW k, NEW f, NEW n, NEW Q,
         TypedRank(P, R, "final", k, f, n), JRank(P, L, R, "final", k, f, n), R.work = <<>>,
         Finalized(P, R, Q)
  PROVE  TurnsTo(P, L, R, Q, "idle", k + 1, f, n, n + 1)
<1> DEFINE l == "final"
           h == "idle"
           j == k + 1
           m == n + 1
<1>0. /\ Typed(P, R, l, k, f) /\ LaidOut(L, R, l) /\ Keeps(P, L, R, l, k, f, n)
      /\ n \in Nat /\ k \in Nat /\ R.rebuilt \in BOOLEAN
      /\ R.rebuilt => P.mode # "unused" /\ n \geq First(P)
      /\ ~R.rebuilt /\ P.mode # "unused" => n \leq First(P)
      /\ ~R.rebuilt /\ n = First(P) /\ P.mode # "unused" => l \in {"idle", "indices", "sizes"}
      /\ P \in Programs /\ First(P) \in Nat /\ Len(P.passes) \in Nat
  BY ProgramFacts DEF JRank, TypedRank, Typed
<1>1. Ordered(P, R, l, n)
      /\ (P.mode = "static" => Delays(P, R, l, k, f, n)) /\ (P.mode # "static" => Quiet(P, R))
  BY <1>0 DEF Keeps
<1>2. Ended(P, L, R, n) /\ R.expect
  BY FinalFacts
<1>3. /\ Q.expect = FALSE /\ Q.finalize = FALSE /\ Q.done = <<>>
      /\ Q.used \subseteq Params /\ Q.reduced \in BOOLEAN
      /\ P.mode = "static" => Q.reduced \/ Q.used = Params
      /\ Q.next = R.next /\ Q.ready = R.ready /\ Q.marked = R.marked
      /\ Q.left = R.left /\ Q.unused = R.unused /\ Q.callback = R.callback /\ Q.order = R.order
      /\ Q.iterations = R.iterations /\ Q.buckets = R.buckets /\ Q.view = R.view
      /\ Q.hooks = R.hooks /\ Q.rebuilt = R.rebuilt /\ Q.plan = R.plan /\ Q.work = R.work
  BY DEF Finalized
<1>4. k < Len(P.passes) /\ P.passes[k + 1] # "ignored" /\ R.iterations = Opened(P, k + 1)
  BY <1>0 DEF Typed
<1>5. j \in 0..Len(P.passes) /\ m \in Nat
  BY <1>0, <1>4
<1>6. Typed(P, Q, h, j, f)
  BY <1>0, <1>3, <1>4, <1>5 DEF Typed
<1>7. LaidOut(L, Q, h)
  BY <1>0, <1>3 DEF LaidOut
<1>8. l \notin {"idle", "indices", "sizes"}
  OBVIOUS
<1>9. ~R.rebuilt /\ P.mode # "unused" => m \leq First(P)
  BY <1>0, <1>8
<1>10. R.rebuilt => m \geq First(P)
  BY <1>0
<1>11. Rounds(Q, m) = Rounds(R, n) + 1 /\ Rounds(Q, m) \in Nat
  BY <1>0, <1>3 DEF Rounds
<1>12. Ledger(P, L, Q, m) /\ Issued(Q) = 0
  <2>1. P.mode = "unused" \/ Rounds(Q, m) \leq First(P) \/ IsLayout(L)
    <3>1. CASE R.rebuilt
      BY <3>1, <1>0 DEF LaidOut, Sound
    <3>2. CASE ~R.rebuilt
      BY <3>2, <1>3, <1>9 DEF Rounds
    <3> QED
      BY <3>1, <3>2
  <2>2. Q.done = <<>> /\ Q.work = <<>>
    BY <1>3
  <2> QED
    BY <2>1, <2>2, <1>0, <1>11, LedgerStart
<1>13. Progress(P, L, Q, h, m)
  BY <1>3, <1>12 DEF Progress
<1>14. Ordered(P, Q, h, m)
  <2>1. ASSUME P.mode # "unused", ~R.rebuilt
        PROVE  IF m = First(P) THEN IsPerm(R.order) ELSE R.order = <<>>
    BY <2>1, <1>1 DEF Ordered
  <2>2. m < First(P) => m # First(P)
    BY <1>0
  <2> QED
    BY <2>1, <2>2, <1>0, <1>3, <1>9, <1>10 DEF Ordered
<1>15. Marking(Q, h)
  BY <1>3 DEF Marking, InForward
<1>16. ASSUME P.mode = "static"
       PROVE  Delays(P, Q, h, j, f, m)
  <2>1. Delays(P, R, l, k, f, n)
    BY <1>1, <1>16
  <2>2. R.iterations # 0 /\ (n = 0 <=> R.iterations = 1)
    BY <2>1, <1>2 DEF Delays
  <2>3. ~AfterIgnored(P, j)
    BY <1>4 DEF AfterIgnored
  <2>4. \A i \in 2..j : ~DoomedAt(P, i)
    <3>1. ~DoomedAt(P, j)
      <4> SUFFICES ASSUME DoomedAt(P, j)
                   PROVE  FALSE
        OBVIOUS
      <4>1. j - 1 = k /\ P.passes[j] = "nosync" /\ P.passes[j - 1] # "ignored" /\ Opened(P, j) = 1
        BY <1>0 DEF DoomedAt
      <4>2. R.iterations = 1
        BY <4>1, <1>4
      <4>3. AfterIgnored(P, k) \/ P.passes[k + 1] # "nosync"
        BY <4>2, <2>1, <1>2 DEF Delays
      <4> QED
        BY <4>1, <4>3 DEF AfterIgnored
    <3>2. \A i \in 2..j : i = j \/ i \in 2..k
      BY <1>0
    <3>3. \A i \in 2..k : ~DoomedAt(P, i)
      BY <2>1 DEF Delays
    <3> QED
      BY <3>1, <3>2, <3>3
  <2>5. m # 0 /\ (R.iterations = 1 => m = 1)
    BY <2>2, <1>0
  <2>6. h \notin InForward /\ h \notin {"backward", "final"}
    BY DEF InForward
  <2> QED
    BY <2>2, <2>3, <2>4, <2>5, <2>6, <1>3, <1>16 DEF Delays
<1>17. P.mode # "static" => Quiet(P, Q)
  BY <1>1, <1>3 DEF Quiet, NoHooks
<1>18. Keeps(P, L, Q, h, j, f, m)
  BY <1>13, <1>14, <1>15, <1>16, <1>17 DEF Keeps
<1>19. JRank(P, L, Q, h, j, f, m)
  BY <1>0, <1>3, <1>6, <1>7, <1>9, <1>10, <1>12, <1>18 DEF JRank
<1> QED
  BY <1>2, <1>3, <1>11, <1>19 DEF TurnsTo

\* The oldest collective of the rank is complete, with the result X.
Retired(R, Q, X) ==
  /\ Alike(R, Q) /\ Q.work = Tail(R.work) /\ Q.done = Append(R.done, [R.work[1] EXCEPT !.data = X])

\* X is a result of the oldest collective of the rank.
IsResult(P, L, R, n, X) ==
  /\ R.work[1].kind = "bucket" => X \in [Range(R.work[1].key) -> Given(P)]
  /\ R.work[1].kind = "used" => X \subseteq Params
  /\ Rebuilds(P, Rounds(R, n)) => X = Announced(L)[Len(R.done) + 1]

\* A completed collective moves from the ones issued to the results.
LEMMA RetiredLedger ==
  ASSUME NEW P, NEW L, NEW R, NEW Q, NEW n, NEW X, Ledger(P, L, R, n), R.work # <<>>,
         Retired(R, Q, X), IsResult(P, L, R, n, X)
  PROVE  Ledger(P, L, Q, n) /\ Issued(Q) = Issued(R) /\ Len(Q.done) = Len(R.done) + 1
<1> DEFINE S == RoundSigs(P, L, Rounds(R, n))
           d == Len(R.done)
           m == Len(R.work)
           w == R.work[1]
           x == [w EXCEPT !.data = X]
<1>1. /\ IsWorks(P, R.done) /\ IsWorks(P, R.work)
      /\ d + m \leq Len(S)
      /\ \A i \in 1..d : Sig(R.done[i]) = S[i]
      /\ \A i \in 1..m : Sig(R.work[i]) = S[d + i]
      /\ Rebuilds(P, Rounds(R, n)) => \A i \in 1..d : R.done[i].data = Announced(L)[i]
  BY DEF Ledger
<1>2. R.work \in Seq(Range(R.work)) /\ R.done \in Seq(Range(R.done)) /\ d \in Nat /\ m \in Nat
  BY <1>1 DEF IsWorks
<1>3. m > 0
  BY <1>2
<1>4. IsWork(P, w) /\ Sig(w) = S[d + 1]
  BY <1>1, <1>2, <1>3 DEF IsWorks
<1>5. /\ DOMAIN x = {"kind", "key", "data"} /\ x.kind = w.kind /\ x.key = w.key /\ x.data = X
  BY <1>4 DEF IsWork
<1> HIDE DEF w, x
<1>6. IsWork(P, x) /\ Sig(x) = S[d + 1]
  <2>1. Sig(x) = Sig(w)
    BY <1>5 DEF Sig
  <2>2. /\ w.kind = "bucket" => X \in [Range(w.key) -> Given(P)]
        /\ w.kind = "used" => X \subseteq Params
    BY DEF IsResult, w
  <2> QED
    BY <2>1, <2>2, <1>4, <1>5 DEF IsWork
<1>7. Q.work = Tail(R.work) /\ Q.done = Append(R.done, x) /\ Q.rebuilt = R.rebuilt
  BY DEF Retired, Alike, x, w
<1>8. Rebuilds(P, Rounds(R, n)) => X = Announced(L)[d + 1]
  BY DEF IsResult
<1>9. /\ Q.work \in Seq(Range(R.work)) /\ Len(Q.work) = m - 1 /\ \A i \in 1..m - 1 : Q.work[i] = R.work[i + 1]
  <2>1. R.work \in Seq(Range(R.work)) /\ R.work # <<>>
    BY <1>2
  <2>2. /\ Tail(R.work) \in Seq(Range(R.work)) /\ Len(Tail(R.work)) = Len(R.work) - 1
        /\ \A i \in 1..Len(Tail(R.work)) : Tail(R.work)[i] = R.work[i + 1]
    BY ONLY <2>1, HeadTailProperties
  <2> QED
    BY <2>2, <1>7
<1>9b. d = Len(R.done)
  OBVIOUS
<1> HIDE DEF S, d, m
<1>10. IsWorks(P, Q.work)
  <2>1. Q.work \in Seq(Range(Q.work))
    BY <1>9, SeqOfRange
  <2>2. ASSUME NEW i \in 1..m - 1
        PROVE  IsWork(P, Q.work[i])
    <3>1. i + 1 \in 1..m
      BY <1>2
    <3>2. IsWork(P, R.work[i + 1])
      BY <3>1, <1>1 DEF IsWorks, m
    <3> QED
      BY <3>2, <1>9
  <2> QED
    BY <2>1, <2>2, <1>9 DEF IsWorks
<1>11. Q.done = R.done \o <<x>>
  BY SMTT(40), <1>1, <1>7, AppendWork
<1>12. IsWorks(P, <<x>>) /\ Len(<<x>>) = 1 /\ <<x>>[1] = x
  BY <1>6, OneWork
<1> DEFINE t == <<x>>
<1>13. IsWorks(P, t) /\ Len(t) = 1 /\ t[1] = x /\ Q.done = R.done \o t
  BY <1>11, <1>12
<1> HIDE DEF t
<1>14. /\ IsWorks(P, Q.done) /\ Len(Q.done) = d + Len(t)
       /\ \A i \in 1..d : Q.done[i] = R.done[i]
       /\ \A i \in 1..Len(t) : Q.done[d + i] = t[i]
  <2>1. IsWorks(P, R.done) /\ IsWorks(P, t)
    BY <1>1, <1>13
  <2>2. /\ IsWorks(P, R.done \o t) /\ Len(R.done \o t) = Len(R.done) + Len(t)
        /\ \A i \in 1..Len(R.done) : (R.done \o t)[i] = R.done[i]
        /\ \A i \in 1..Len(t) : (R.done \o t)[Len(R.done) + i] = t[i]
    BY ONLY <2>1, ConcatWorks
  <2> QED
    BY <2>2, <1>13 DEF d
<1>15. Len(Q.done) = d + 1 /\ Q.done[d + 1] = x
  <2>1. 1 \in 1..Len(t)
    BY <1>13
  <2> QED
    BY <2>1, <1>13, <1>14
<1>16. ASSUME NEW i \in 1..d + 1
       PROVE  Sig(Q.done[i]) = S[i] /\ (Rebuilds(P, Rounds(R, n)) => Q.done[i].data = Announced(L)[i])
  <2>1. CASE i = d + 1
    BY <2>1, <1>5, <1>6, <1>8, <1>15
  <2>2. CASE i # d + 1
    <3>1. i \in 1..d
      BY <2>2, <1>2
    <3> QED
      BY <3>1, <1>1, <1>14
  <2> QED
    BY <2>1, <2>2
<1>17. ASSUME NEW i \in 1..m - 1
       PROVE  Sig(Q.work[i]) = S[(d + 1) + i]
  <2>1. i + 1 \in 1..m /\ d + (i + 1) = (d + 1) + i
    BY <1>2
  <2>2. Sig(R.work[i + 1]) = S[d + (i + 1)]
    BY <2>1, <1>1
  <2> QED
    BY <2>1, <2>2, <1>9
<1>18. (d + 1) + (m - 1) = d + m /\ d + 1 > 0
  BY <1>2
<1>19. Rounds(Q, n) = Rounds(R, n)
  BY <1>7 DEF Rounds
<1>20. Len(Q.done) + Len(Q.work) = d + m
  BY <1>9, <1>15, <1>18
<1>21. Ledger(P, L, Q, n)
  BY <1>1, <1>9, <1>10, <1>14, <1>15, <1>16, <1>17, <1>18, <1>19, <1>20 DEF Ledger, S
<1> QED
  BY <1>15, <1>20, <1>21 DEF Issued, d, m

\* A rank goes on when a collective it has issued completes.
LEMMA RetireRank ==
  ASSUME NEW P, NEW L, NEW R, NEW l, NEW k, NEW f, NEW n, NEW Q, NEW X,
         JRank(P, L, R, l, k, f, n), R.work # <<>>,
         Retired(R, Q, X), IsResult(P, L, R, n, X)
  PROVE  JRank(P, L, Q, l, k, f, n) /\ Len(Q.done) = Len(R.done) + 1
<1>0. /\ Typed(P, R, l, k, f) /\ LaidOut(L, R, l) /\ Ledger(P, L, R, n)
      /\ l # "raised" => Keeps(P, L, R, l, k, f, n)
      /\ R.rebuilt => P.mode # "unused" /\ n \geq First(P)
      /\ ~R.rebuilt /\ P.mode # "unused" => n \leq First(P)
      /\ ~R.rebuilt /\ n = First(P) /\ P.mode # "unused" => l \in {"idle", "indices", "sizes"}
  BY DEF JRank
<1>1. Ledger(P, L, Q, n) /\ Issued(Q) = Issued(R) /\ Len(Q.done) = Len(R.done) + 1
  BY <1>0, RetiredLedger
<1>2. Alike(R, Q)
  BY DEF Retired
<1>3. Typed(P, Q, l, k, f)
  BY <1>0, <1>2 DEF Typed, Alike
<1>4. LaidOut(L, Q, l)
  BY <1>0, <1>2 DEF LaidOut, Alike
<1>5. ASSUME l # "raised"
      PROVE  Keeps(P, L, Q, l, k, f, n)
  <2>0. Progress(P, L, R, l, n) /\ Ordered(P, R, l, n) /\ Marking(R, l)
        /\ (P.mode = "static" => Delays(P, R, l, k, f, n)) /\ (P.mode # "static" => Quiet(P, R))
    BY <1>0, <1>5 DEF Keeps
  <2>1. Rounds(Q, n) = Rounds(R, n)
    BY <1>2 DEF Rounds, Alike
  <2>2. Progress(P, L, Q, l, n)
    BY <2>0, <2>1, <1>1, <1>2 DEF Progress, Alike
  <2>3. Ordered(P, Q, l, n)
    BY <2>0, <1>2 DEF Ordered, Alike
  <2>4. Marking(Q, l)
    BY <2>0, <1>2 DEF Marking, Alike, Complete
  <2>5. P.mode = "static" => Delays(P, Q, l, k, f, n)
    BY <2>0, <1>2 DEF Delays, Alike, NoHooks
  <2>6. P.mode # "static" => Quiet(P, Q)
    BY <2>0, <1>2 DEF Quiet, Alike, NoHooks
  <2> QED
    BY <2>2, <2>3, <2>4, <2>5, <2>6 DEF Keeps
<1>6. Q.rebuilt = R.rebuilt
  BY <1>2 DEF Alike
<1> QED
  BY <1>0, <1>1, <1>3, <1>4, <1>5, <1>6 DEF JRank

-----------------------------------------------------------------------------
(* The ranks together.                                                       *)

\* Where a rank is in its round: the round has collectives, and it has issued no more.
InRound(P, L, R, n) ==
  /\ Rounds(R, n) \in Nat /\ Len(R.done) \in Nat /\ Len(R.work) \in Nat /\ First(P) \in 1..2
  /\ Len(RoundSigs(P, L, Rounds(R, n))) \in Nat \ {0}
  /\ Len(R.done) + Len(R.work) \leq Len(RoundSigs(P, L, Rounds(R, n)))
  /\ P.mode # "unused" => IF R.rebuilt THEN Rounds(R, n) > First(P) ELSE Rounds(R, n) \leq First(P)
  /\ R.rebuilt => P.mode # "unused"
  /\ R.rebuilt \in BOOLEAN

\* Every rank is in a round.
LEMMA RankRound ==
  ASSUME NEW P, NEW L, NEW R, NEW l, NEW k, NEW f, NEW n,
         TypedRank(P, R, l, k, f, n), JRank(P, L, R, l, k, f, n)
  PROVE  InRound(P, L, R, n)
<1>1. P \in Programs /\ n \in Nat
  BY DEF TypedRank
<1>2. First(P) \in 1..2
  BY <1>1, ProgramFacts
<1>3. /\ R.rebuilt \in BOOLEAN /\ (R.rebuilt => P.mode # "unused" /\ n \geq First(P) /\ Sound(L))
      /\ (~R.rebuilt /\ P.mode # "unused" => n \leq First(P))
  BY DEF JRank, Typed, LaidOut
<1>4. /\ IsWorks(P, R.done) /\ IsWorks(P, R.work)
      /\ Len(R.done) + Len(R.work) \leq Len(RoundSigs(P, L, Rounds(R, n)))
  BY DEF JRank, Ledger
<1>5. Len(R.done) \in Nat /\ Len(R.work) \in Nat
  BY <1>4 DEF IsWorks
<1>6. /\ Rounds(R, n) \in Nat
      /\ P.mode # "unused" => IF R.rebuilt THEN Rounds(R, n) > First(P) ELSE Rounds(R, n) \leq First(P)
  BY <1>1, <1>2, <1>3 DEF Rounds
<1>7. P.mode = "unused" \/ Rounds(R, n) \leq First(P) \/ IsLayout(L)
  BY <1>3, <1>6 DEF Sound
<1>8. Len(RoundSigs(P, L, Rounds(R, n))) \in Nat \ {0}
  BY <1>1, <1>6, <1>7, RoundLength
<1> QED
  BY <1>2, <1>3, <1>4, <1>5, <1>6, <1>8 DEF InRound

\* Alignment looks at two ranks alike.
LEMMA AlignSym ==
  ASSUME NEW P, NEW L, NEW R, NEW n, NEW Q, NEW m, Aligned(P, L, R, n, Q, m)
  PROVE  Aligned(P, L, Q, m, R, n)
  BY DEF Aligned

\* How a rank moves: within its round, or to the next one after all the collectives.
Moves(P, L, R, n, Q, m) ==
  \/ Q.done = R.done /\ Rounds(Q, m) = Rounds(R, n)
  \/ Q.done = <<>> /\ Rounds(Q, m) = Rounds(R, n) + 1 /\ Ended(P, L, R, n)

\* A rank that moves stays aligned with the others.
LEMMA AlignMove ==
  ASSUME NEW P, NEW L, NEW R, NEW n, NEW Q, NEW m, NEW S, NEW j,
         InRound(P, L, R, n), InRound(P, L, S, j), Aligned(P, L, R, n, S, j), Moves(P, L, R, n, Q, m)
  PROVE  Aligned(P, L, Q, m, S, j)
<1>0. /\ Rounds(R, n) \in Nat /\ Rounds(S, j) \in Nat
      /\ Len(RoundSigs(P, L, Rounds(R, n))) \in Nat \ {0}
  BY DEF InRound
<1>1. CASE Q.done = R.done /\ Rounds(Q, m) = Rounds(R, n)
  BY <1>1 DEF Aligned, Ended
<1>2. CASE Q.done = <<>> /\ Rounds(Q, m) = Rounds(R, n) + 1 /\ Ended(P, L, R, n)
  <2>1. CASE Rounds(R, n) = Rounds(S, j) /\ Len(R.done) = Len(S.done)
    BY <1>0, <1>2, <2>1 DEF Aligned, Ended
  <2>2. CASE R.done = <<>>
    <3>1. Len(R.done) = 0
      BY <2>2
    <3> QED
      BY <1>0, <1>2, <3>1 DEF Ended
  <2>3. CASE Rounds(S, j) = Rounds(R, n) + 1 /\ S.done = <<>>
    BY <1>0, <1>2, <2>3 DEF Aligned
  <2> QED
    BY <2>1, <2>2, <2>3 DEF Aligned
<1> QED
  BY <1>1, <1>2 DEF Moves

\* Two ranks with collectives to come are in the same place.
LEMMA SameRound ==
  ASSUME NEW P, NEW L, NEW R, NEW n, NEW S, NEW j, Aligned(P, L, R, n, S, j),
         InRound(P, L, R, n), InRound(P, L, S, j), Len(R.work) # 0, Len(S.work) # 0
  PROVE  Rounds(R, n) = Rounds(S, j) /\ Len(R.done) = Len(S.done)
<1>0. \A a, b, c \in Nat : b # 0 /\ a + b \leq c => a # c
  OBVIOUS
<1>1. ~Ended(P, L, R, n)
  <2>1. /\ Len(R.done) \in Nat /\ Len(R.work) \in Nat /\ Len(RoundSigs(P, L, Rounds(R, n))) \in Nat
        /\ Len(R.done) + Len(R.work) \leq Len(RoundSigs(P, L, Rounds(R, n)))
    BY DEF InRound
  <2> QED
    BY <1>0, <2>1 DEF Ended
<1>2. ~Ended(P, L, S, j)
  <2>1. /\ Len(S.done) \in Nat /\ Len(S.work) \in Nat /\ Len(RoundSigs(P, L, Rounds(S, j))) \in Nat
        /\ Len(S.done) + Len(S.work) \leq Len(RoundSigs(P, L, Rounds(S, j)))
    BY DEF InRound
  <2> QED
    BY <1>0, <2>1 DEF Ended
<1> QED
  BY <1>1, <1>2 DEF Aligned

\* Outside of rebuild_buckets there is nothing rank 0 has announced and not sent.
LEMMA AnnouncesOut ==
  ASSUME NEW P, NEW L, NEW R, NEW l, NEW k, NEW f, NEW n,
         TypedRank(P, R, l, k, f, n), JRank(P, L, R, l, k, f, n), l \notin {"indices", "sizes"}
  PROVE  Announces(P, L, R, n)
<1> SUFFICES ASSUME Rebuilds(P, Rounds(R, n)) PROVE Announces(P, L, R, n)
  BY DEF Announces
<1>1. P.mode # "unused" /\ Rounds(R, n) = First(P)
  BY DEF Rebuilds
<1>2. ~R.rebuilt /\ Rounds(R, n) \in Nat /\ Len(R.done) \in Nat /\ Len(R.work) \in Nat
  <2>1. InRound(P, L, R, n)
    BY RankRound
  <2>2. /\ Rounds(R, n) \in Nat /\ Len(R.done) \in Nat /\ Len(R.work) \in Nat /\ First(P) \in 1..2
        /\ IF R.rebuilt THEN Rounds(R, n) > First(P) ELSE Rounds(R, n) \leq First(P)
    BY <1>1, <2>1 DEF InRound
  <2> QED
    BY <1>1, <2>2
<1>3. n = First(P)
  BY <1>1, <1>2 DEF Rounds
<1>4. l = "idle"
  BY <1>1, <1>2, <1>3 DEF JRank
<1>5. Progress(P, L, R, l, n) /\ Ordered(P, R, l, n)
  BY <1>4 DEF JRank, Keeps
<1>6. ~R.finalize
  BY <1>1, <1>2, <1>3, <1>5 DEF Ordered
<1>7. Len(R.done) + Len(R.work) = 0
  BY <1>4, <1>5, <1>6 DEF Progress, Issued
<1>8. Len(R.work) = 0
  <2>1. \A a, b \in Nat : a + b = 0 => b = 0
    OBVIOUS
  <2> QED
    BY <1>2, <1>7, <2>1
<1> QED
  BY <1>8 DEF Announces

\* When rank 0 computes the layout, no rank has received one.
Unlaid(P, R, n) == P.mode # "unused" /\ Rounds(R, n) \leq First(P) /\ (Rounds(R, n) = First(P) => Len(R.done) = 0)

\* Its round is then the same whatever the layout.
LEMMA RelayoutLedger ==
  ASSUME NEW P, NEW L, NEW M, NEW R, NEW n, P \in Programs, InRound(P, L, R, n), Unlaid(P, R, n), Ledger(P, L, R, n)
  PROVE  Ledger(P, M, R, n) /\ Len(RoundSigs(P, M, Rounds(R, n))) = Len(RoundSigs(P, L, Rounds(R, n)))
<1>1. PICK c : c = Rounds(R, n)
  OBVIOUS
<1>2. /\ c \in Nat /\ Len(R.done) \in Nat /\ Len(R.work) \in Nat /\ P.mode # "unused" /\ c \leq First(P)
      /\ c = First(P) => Len(R.done) = 0
  BY <1>1 DEF InRound, Unlaid
<1>3. /\ Len(RoundSigs(P, L, c)) = Len(RoundSigs(P, M, c))
      /\ ~Rebuilds(P, c) => RoundSigs(P, L, c) = RoundSigs(P, M, c)
  BY <1>2, RoundsBefore
<1>4. CASE ~Rebuilds(P, c)
  <2>1. RoundSigs(P, M, Rounds(R, n)) = RoundSigs(P, L, Rounds(R, n)) /\ ~Rebuilds(P, Rounds(R, n))
    BY <1>1, <1>3, <1>4
  <2> QED
    BY <2>1 DEF Ledger
<1>5. CASE Rebuilds(P, c)
  <2>1. Len(R.done) = 0
    BY <1>2, <1>5 DEF Rebuilds
  <2>2. PICK s, t : s = RoundSigs(P, L, c) /\ t = RoundSigs(P, M, c)
    OBVIOUS
  <2>3. s[1] = t[1] /\ Len(s) = Len(t)
    BY SMTT(40), <1>3, <1>5, <2>2, RebuildRound
  <2>4. /\ IsWorks(P, R.done) /\ IsWorks(P, R.work) /\ Len(R.done) + Len(R.work) \leq Len(s)
        /\ \A i \in 1..Len(R.work) : Sig(R.work[i]) = s[Len(R.done) + i]
        /\ Len(R.done) + Len(R.work) > 1 => Len(R.done) > 0
    BY <1>1, <1>5, <2>2 DEF Ledger
  <2>5. Len(R.work) \leq 1
    BY <1>2, <2>1, <2>4
  <2>6. \A i \in 1..Len(R.work) : i = 1
    BY <1>2, <2>5
  <2>7. ASSUME NEW i \in 1..Len(R.work) PROVE Sig(R.work[i]) = t[Len(R.done) + i]
    <3>1. i = 1 /\ Sig(R.work[i]) = s[Len(R.done) + i]
      BY <2>4, <2>6
    <3>2. Len(R.done) + i = 1
      BY <2>1, <3>1
    <3> QED
      BY <2>3, <3>1, <3>2
  <2>8. 1..Len(R.done) = {}
    BY <2>1
  <2>9. /\ Len(R.done) + Len(R.work) \leq Len(t)
        /\ Len(R.done) + Len(R.work) > 1 => Len(R.done) > 0
    BY <2>3, <2>4
  <2> HIDE DEF Rounds
  <2>10. t = RoundSigs(P, M, Rounds(R, n))
    BY <1>1, <2>2
  <2>11. Ledger(P, M, R, n)
    BY <2>4, <2>7, <2>8, <2>9, <2>10 DEF Ledger
  <2> QED
    BY <1>1, <1>3, <2>11
<1> QED
  BY <1>4, <1>5

\* A rank keeps its invariant, and ends its round where it did, under the layout M.
Relaid(P, L, M, R, l, k, f, n) ==
  JRank(P, M, R, l, k, f, n) /\ (Ended(P, M, R, n) <=> Ended(P, L, R, n))

\* So a rank keeps its invariant when rank 0 computes the layout.
LEMMA Relayout ==
  ASSUME NEW P, NEW L, NEW M, NEW R, NEW l, NEW k, NEW f, NEW n,
         TypedRank(P, R, l, k, f, n), JRank(P, L, R, l, k, f, n), Unlaid(P, R, n)
  PROVE  Relaid(P, L, M, R, l, k, f, n)
<1>1. InRound(P, L, R, n)
  BY RankRound
<1>2. P \in Programs
  BY DEF TypedRank
<1>3. Ledger(P, L, R, n)
  BY DEF JRank
<1>4. Ledger(P, M, R, n) /\ Len(RoundSigs(P, M, Rounds(R, n))) = Len(RoundSigs(P, L, Rounds(R, n)))
  BY <1>1, <1>2, <1>3, RelayoutLedger
<1>5. ~R.rebuilt
  <2>1. /\ Rounds(R, n) \in Nat /\ First(P) \in 1..2 /\ Rounds(R, n) \leq First(P)
        /\ IF R.rebuilt THEN Rounds(R, n) > First(P) ELSE Rounds(R, n) \leq First(P)
    BY <1>1 DEF InRound, Unlaid
  <2> QED
    BY <2>1
<1>6. LaidOut(L, R, l) => LaidOut(M, R, l)
  BY <1>5 DEF LaidOut
<1>7. Progress(P, L, R, l, n) => Progress(P, M, R, l, n)
  BY <1>4 DEF Progress
<1>8. Keeps(P, L, R, l, k, f, n) => Keeps(P, M, R, l, k, f, n)
  BY <1>7 DEF Keeps
<1>9. JRank(P, M, R, l, k, f, n)
  BY <1>4, <1>6, <1>8 DEF JRank
<1>10. Ended(P, M, R, n) <=> Ended(P, L, R, n)
  BY <1>4 DEF Ended
<1> QED
  BY <1>9, <1>10 DEF Relaid

\* Alignment is the same when the ends of the two rounds are.
LEMMA AlignRelaid ==
  ASSUME NEW P, NEW L, NEW M, NEW R, NEW n, NEW S, NEW j, Aligned(P, L, R, n, S, j),
         Ended(P, M, R, n) <=> Ended(P, L, R, n), Ended(P, M, S, j) <=> Ended(P, L, S, j)
  PROVE  Aligned(P, M, R, n, S, j)
  BY DEF Aligned

\* The others have received no layout when rank 0 is about to send one.
LEMMA OthersUnlaid ==
  ASSUME NEW P, NEW L, NEW R, NEW n, NEW S, NEW j, P.mode # "unused", Rounds(R, n) = First(P), Len(R.done) = 0,
         InRound(P, L, R, n), InRound(P, L, S, j), Aligned(P, L, R, n, S, j)
  PROVE  Unlaid(P, S, j)
<1>1. /\ Rounds(S, j) \in Nat /\ First(P) \in 1..2 /\ Len(S.done) \in Nat
      /\ Len(RoundSigs(P, L, Rounds(R, n))) # 0
  BY DEF InRound
<1>2. ~Ended(P, L, R, n)
  BY <1>1 DEF Ended
<1>3. \/ Rounds(S, j) = First(P) /\ Len(S.done) = 0
      \/ First(P) = Rounds(S, j) + 1
  BY <1>2 DEF Aligned
<1> QED
  BY <1>1, <1>3 DEF Unlaid

\* A rank that has received the layout has it from rank 0, which computed it of all its parameters.
LEMMA RootSound ==
  ASSUME NEW P, NEW L, NEW R, NEW l, NEW k, NEW f, NEW n, NEW S, NEW j,
         TypedRank(P, R, l, k, f, n), JRank(P, L, R, l, k, f, n), ~R.rebuilt => L = R.plan,
         InRound(P, L, S, j), Rebuilds(P, Rounds(S, j)), Len(S.done) > 0, Aligned(P, L, R, n, S, j)
  PROVE  Sound(L)
<1>1. CASE R.rebuilt
  BY <1>1 DEF JRank, LaidOut
<1>2. CASE ~R.rebuilt
  <2>1. InRound(P, L, R, n)
    BY RankRound
  <2>2. P.mode # "unused" /\ Rounds(S, j) = First(P)
    BY DEF Rebuilds
  <2>3. Rounds(R, n) \in Nat /\ First(P) \in 1..2 /\ Rounds(R, n) \leq First(P)
    BY <1>2, <2>1, <2>2 DEF InRound
  <2>4. Rounds(R, n) = First(P) /\ Len(R.done) = Len(S.done)
    <3>1. S.done # <<>>
      OBVIOUS
    <3> QED
      BY <2>2, <2>3, <3>1 DEF Aligned
  <2>5. n = First(P)
    BY <1>2, <2>4 DEF Rounds
  <2>6. l \in {"idle", "indices", "sizes"}
    BY <1>2, <2>2, <2>5 DEF JRank
  <2>7. Progress(P, L, R, l, n) /\ Ordered(P, R, l, n) /\ LaidOut(L, R, l)
    BY <2>6 DEF JRank, Keeps
  <2>8. ~R.finalize /\ IsPerm(R.order)
    BY <1>2, <2>2, <2>5, <2>7 DEF Ordered
  <2>9. l # "idle"
    <3>1. l = "idle" => Len(R.done) + Len(R.work) = 0
      BY <2>7, <2>8 DEF Progress, Issued
    <3>2. Len(R.done) \in Nat /\ Len(R.work) \in Nat /\ Len(R.done) > 0
      BY <2>1, <2>4 DEF InRound
    <3>3. \A a, b \in Nat : a > 0 => a + b # 0
      OBVIOUS
    <3> QED
      BY <3>1, <3>2, <3>3
  <2>10. R.plan = Assign(R.order)
    BY <2>6, <2>7, <2>9 DEF LaidOut
  <2>11. Sound(R.plan)
    BY <2>8, <2>10, PermSound
  <2> QED
    BY <1>2, <2>11
<1>3. R.rebuilt \in BOOLEAN
  BY DEF JRank, Typed
<1> QED
  BY <1>1, <1>2, <1>3

-----------------------------------------------------------------------------
(* The steps of a rank and of the process group.                             *)

\* What the two invariants say of a rank.
LEMMA RankAt ==
  ASSUME IInv, JInv, NEW r \in Ranks
  PROVE  /\ TypedRank(program, red[r], pc[r], pass[r], fires[r], finals[r])
         /\ JRank(program, Layout, red[r], pc[r], pass[r], fires[r], finals[r])
         /\ InRound(program, Layout, red[r], finals[r])
<1>1. PICK P, R, l, k, f, n, G :
        P = program /\ R = red[r] /\ l = pc[r] /\ k = pass[r] /\ f = fires[r] /\ n = finals[r] /\ G = graph[r]
  OBVIOUS
<1>2. PICK L : L = Layout
  OBVIOUS
<1>3. RankTypes(P, R, l, k, G, f, n) /\ P \in Programs
  BY <1>1 DEF IInv
<1>4. TypedRank(P, R, l, k, f, n)
  BY <1>3 DEF RankTypes, TypedRank
<1>5. JRank(P, L, R, l, k, f, n)
  BY <1>1, <1>2 DEF JInv
<1>6. InRound(P, L, R, n)
  BY <1>4, <1>5, RankRound
<1> QED
  BY <1>1, <1>2, <1>4, <1>5, <1>6

\* The variables of the other ranks are as they were.
Others(r) ==
  \A s \in Ranks \ {r} :
    /\ red'[s] = red[s] /\ pc'[s] = pc[s] /\ pass'[s] = pass[s]
    /\ fires'[s] = fires[s] /\ finals'[s] = finals[s]

\* The gradients after the step.
GradsTyped == \A s \in Ranks : grad'[s] \in [Params -> Given(program)] /\ gave'[s] \in [Params -> Given(program)]

\* It is enough to look at the rank that takes the step.
LEMMA StepJ ==
  ASSUME IInv, JInv, NEW r \in Ranks, Others(r), GradsTyped, program' = program, Layout' = Layout,
         JRank(program, Layout, red'[r], pc'[r], pass'[r], fires'[r], finals'[r]),
         Moves(program, Layout, red[r], finals[r], red'[r], finals'[r]),
         r = Root => Announces(program, Layout, red'[r], finals'[r])
  PROVE  JInv'
<1>1. PICK P, L : P = program /\ L = Layout
  OBVIOUS
<1>2. P = program' /\ L = Layout'
  BY <1>1
<1>3. \A s \in Ranks : JRank(P, L, red'[s], pc'[s], pass'[s], fires'[s], finals'[s])
  <2> TAKE s \in Ranks
  <2>1. CASE s = r
    BY <1>1, <2>1
  <2>2. CASE s # r
    <3>1. JRank(P, L, red[s], pc[s], pass[s], fires[s], finals[s])
      BY <1>1 DEF JInv
    <3> QED
      BY <2>2, <3>1 DEF Others
  <2> QED
    BY <2>1, <2>2
<1>4. \A s \in Ranks \ {r} : Aligned(P, L, red'[r], finals'[r], red'[s], finals'[s])
  <2> TAKE s \in Ranks \ {r}
  <2>1. PICK R, n, S, j : R = red[r] /\ n = finals[r] /\ S = red[s] /\ j = finals[s]
    OBVIOUS
  <2>2. PICK Q, m : Q = red'[r] /\ m = finals'[r]
    OBVIOUS
  <2>3. InRound(P, L, R, n) /\ InRound(P, L, S, j)
    BY <1>1, <2>1, RankAt
  <2>4. Aligned(P, L, R, n, S, j)
    BY <1>1, <2>1 DEF JInv
  <2>5. Moves(P, L, R, n, Q, m)
    BY <1>1, <2>1, <2>2
  <2>6. Aligned(P, L, Q, m, S, j)
    BY ONLY <2>3, <2>4, <2>5, AlignMove
  <2>7. red'[s] = S /\ finals'[s] = j
    BY <2>1 DEF Others
  <2> QED
    BY <2>2, <2>6, <2>7
<1>5. \A s, t \in Ranks : Aligned(P, L, red'[s], finals'[s], red'[t], finals'[t])
  <2> TAKE s, t \in Ranks
  <2>1. CASE s = t
    BY <2>1 DEF Aligned
  <2>2. CASE s = r /\ t # r
    BY <1>4, <2>2
  <2>3. CASE s # r /\ t = r
    <3>1. Aligned(P, L, red'[t], finals'[t], red'[s], finals'[s])
      BY <1>4, <2>3
    <3> QED
      BY <3>1, AlignSym
  <2>4. CASE s # r /\ t # r
    <3>1. Aligned(P, L, red[s], finals[s], red[t], finals[t])
      BY <1>1 DEF JInv
    <3> QED
      BY <2>4, <3>1 DEF Others
  <2> QED
    BY <2>1, <2>2, <2>3, <2>4
<1>6. Announces(P, L, red'[Root], finals'[Root])
  <2>1. CASE r = Root
    BY <1>1, <2>1
  <2>2. CASE r # Root
    <3>1. Root \in Ranks \ {r}
      BY <2>2, RanksAssumption DEF Root
    <3>2. Announces(P, L, red[Root], finals[Root])
      BY <1>1 DEF JInv
    <3> QED
      BY <3>1, <3>2 DEF Others
  <2> QED
    BY <2>1, <2>2
<1>7. \A s \in Ranks : grad'[s] \in [Params -> Given(P)] /\ gave'[s] \in [Params -> Given(P)]
  BY <1>1 DEF GradsTyped
<1> QED
  BY <1>2, <1>3, <1>5, <1>6, <1>7 DEF JInv

\* The layout is as it was when rank 0 keeps its buckets and its plan.
LEMMA LayoutKept ==
  ASSUME NEW r \in Ranks, Others(r), r = Root => Kept(red[r], red'[r])
  PROVE  Layout' = Layout
<1>1. CASE r = Root
  BY <1>1 DEF Kept, Layout
<1>2. CASE r # Root
  <2>1. Root \in Ranks \ {r}
    BY <1>2, RanksAssumption DEF Root
  <2>2. red'[Root] = red[Root]
    BY <2>1 DEF Others
  <2> QED
    BY <2>2 DEF Layout
<1> QED
  BY <1>1, <1>2

\* A step within a round, outside of rebuild_buckets.
LEMMA StepWithin ==
  ASSUME IInv, JInv, IInv', NEW r \in Ranks, Others(r), GradsTyped, program' = program,
         finals'[r] = finals[r], pc'[r] \notin {"indices", "sizes"},
         StepsTo(program, Layout, red[r], red'[r], pc'[r], pass'[r], fires'[r], finals[r])
  PROVE  JInv'
<1>1. PICK P, L, R, n, Q, l, k, f :
        /\ P = program /\ L = Layout /\ R = red[r] /\ n = finals[r]
        /\ Q = red'[r] /\ l = pc'[r] /\ k = pass'[r] /\ f = fires'[r]
  OBVIOUS
<1>2. JRank(P, L, Q, l, k, f, n) /\ Kept(R, Q)
  BY <1>1 DEF StepsTo
<1>3. Layout' = Layout
  BY <1>1, <1>2, LayoutKept
<1>4. TypedRank(P, Q, l, k, f, n)
  <2>1. PICK G : G = graph'[r]
    OBVIOUS
  <2>2. RankTypes(P, Q, l, k, G, f, n) /\ P \in Programs
    BY <1>1, <2>1 DEF IInv
  <2> QED
    BY <2>2 DEF RankTypes, TypedRank
<1>5. Announces(P, L, Q, n)
  <2>1. l \notin {"indices", "sizes"}
    BY <1>1
  <2> QED
    BY ONLY <1>2, <1>4, <2>1, AnnouncesOut
<1>6. Moves(P, L, R, n, Q, n)
  BY <1>2 DEF Kept, Moves, Rounds
<1>7. /\ JRank(program, Layout, red'[r], pc'[r], pass'[r], fires'[r], finals'[r])
      /\ Moves(program, Layout, red[r], finals[r], red'[r], finals'[r])
      /\ Announces(program, Layout, red'[r], finals'[r])
  BY <1>1, <1>2, <1>5, <1>6
<1> QED
  BY <1>3, <1>7, StepJ

\* The gradients are functions on the ranks.
GradsShaped == DOMAIN grad = Ranks /\ DOMAIN gave = Ranks

\* A step that leaves the gradients.
LEMMA GradsKept ==
  ASSUME JInv, UNCHANGED <<grad, gave>>
  PROVE  GradsTyped
  BY DEF JInv, GradsTyped

\* The loop zeroes the gradients or leaves them.
LEMMA ForwardGrads ==
  ASSUME JInv, GradsShaped, NEW r \in Ranks, Forward(r)
  PROVE  GradsTyped
<1>1. PICK z, b : /\ z = [p \in Params |-> {}]
                  /\ grad' = [grad EXCEPT ![r] = IF b THEN z ELSE @]
                  /\ gave' = [gave EXCEPT ![r] = IF b THEN z ELSE @]
  BY DEF Forward
<1>2. z \in [Params -> Given(program)]
  BY <1>1 DEF Given
<1>3. \A s \in Ranks : (grad'[s] = grad[s] \/ grad'[s] = z) /\ (gave'[s] = gave[s] \/ gave'[s] = z)
  BY <1>1 DEF GradsShaped
<1>4. \A s \in Ranks : grad[s] \in [Params -> Given(program)] /\ gave[s] \in [Params -> Given(program)]
  BY DEF JInv
<1> QED
  BY <1>2, <1>3, <1>4 DEF GradsTyped

\* Q is T with the layout it computed and its indices issued.
Broadcasts(T, Q) ==
  /\ DOMAIN Q = Fields /\ Q.plan = Assign(T.order) /\ Q.work = Append(T.work, IndicesWork(Q.plan))
  /\ Q.used = T.used /\ Q.hooks = T.hooks /\ Q.iterations = T.iterations /\ Q.error = T.error
  /\ Q.expect = T.expect /\ Q.finalize = T.finalize
  /\ Q.buckets = T.buckets /\ Q.next = T.next /\ Q.ready = T.ready /\ Q.view = T.view
  /\ Q.unused = T.unused /\ Q.marked = T.marked /\ Q.reduced = T.reduced /\ Q.left = T.left
  /\ Q.order = T.order /\ Q.rebuilt = T.rebuilt /\ Q.callback = T.callback
  /\ Q.done = T.done

\* rebuild_buckets is called with an index for every parameter, and broadcasts the indices.
LEMMA RebuildEffect ==
  ASSUME NEW T, DOMAIN T = Fields, Len(T.order) = Cardinality(Params), NEW Q, Q = RebuildBuckets(T)
  PROVE  Broadcasts(T, Q)
<1>1. PICK a : a = Assign(T.order)
  OBVIOUS
<1>2. PICK U : U = [T EXCEPT !.plan = a]
  OBVIOUS
<1>3. PICK w : w = IndicesWork(a)
  OBVIOUS
<1>4. Q = Issue(U, w)
  BY <1>1, <1>2, <1>3 DEF RebuildBuckets, IndicesWork
<1>5. PICK v : v = Append(T.work, w)
  OBVIOUS
<1>6. U.work = T.work
  BY <1>2 DEF Fields
<1>7. Q = [U EXCEPT !.work = v]
  BY <1>4, <1>5, <1>6 DEF Issue
<1>8. Q.plan = a /\ Q.work = v
  BY <1>2, <1>7 DEF Fields
<1> QED
  BY <1>1, <1>2, <1>3, <1>5, <1>7, <1>8 DEF Fields, Broadcasts

\* forward() counts an iteration.
LEMMA AdvancedEffect ==
  ASSUME NEW P, NEW R, NEW k, NEW T, DOMAIN R = Fields,
         T = [R EXCEPT !.iterations = IF P.passes[k + 1] = "nosync" THEN @ ELSE @ + 1]
  PROVE  Advanced(P, R, T, k) /\ T.plan = R.plan /\ T.work = R.work /\ T.error = R.error
<1>1. PICK i : i = IF P.passes[k + 1] = "nosync" THEN R.iterations ELSE R.iterations + 1
  OBVIOUS
<1>2. T = [R EXCEPT !.iterations = i]
  BY <1>1
<1>3. T.iterations = i
  BY <1>2 DEF Fields
<1> QED
  BY <1>1, <1>2, <1>3 DEF Advanced, Fields

\* Rank 0 computes the layout: no rank has received another one.
LEMMA RootRebuildJ ==
  ASSUME IInv, JInv, NEW r \in Ranks, r = Root, Others(r), GradsTyped, program' = program,
         program.mode # "unused", Rounds(red[r], finals[r]) = First(program), Len(red[r].done) = 0,
         finals'[r] = finals[r], red'[r].done = red[r].done, red'[r].rebuilt = red[r].rebuilt,
         JRank(program, Layout', red'[r], pc'[r], pass'[r], fires'[r], finals[r]),
         Announces(program, Layout', red'[r], finals[r])
  PROVE  JInv'
<1>1. PICK P, L, M, R, n, Q : P = program /\ L = Layout /\ M = Layout' /\ R = red[r] /\ n = finals[r] /\ Q = red'[r]
  OBVIOUS
<1>2. \A s \in Ranks : Unlaid(P, red[s], finals[s])
  <2> TAKE s \in Ranks
  <2>1. PICK S, j : S = red[s] /\ j = finals[s]
    OBVIOUS
  <2>2. InRound(P, L, R, n) /\ InRound(P, L, S, j)
    BY <1>1, <2>1, RankAt
  <2>3. Aligned(P, L, R, n, S, j)
    BY <1>1, <2>1 DEF JInv
  <2>4. P.mode # "unused" /\ Rounds(R, n) = First(P) /\ Len(R.done) = 0
    BY <1>1
  <2>5. Unlaid(P, S, j)
    BY ONLY <2>2, <2>3, <2>4, OthersUnlaid
  <2> QED
    BY <2>1, <2>5
<1>3. \A s \in Ranks : Relaid(P, L, M, red[s], pc[s], pass[s], fires[s], finals[s])
  <2> TAKE s \in Ranks
  <2>1. PICK S, l, k, f, j : S = red[s] /\ l = pc[s] /\ k = pass[s] /\ f = fires[s] /\ j = finals[s]
    OBVIOUS
  <2>2. TypedRank(P, S, l, k, f, j) /\ JRank(P, L, S, l, k, f, j)
    BY <1>1, <2>1, RankAt
  <2>3. Unlaid(P, S, j)
    BY <1>2, <2>1
  <2>4. Relaid(P, L, M, S, l, k, f, j)
    BY ONLY <2>2, <2>3, Relayout
  <2> QED
    BY <2>1, <2>4
<1>4. \A s \in Ranks : JRank(P, M, red'[s], pc'[s], pass'[s], fires'[s], finals'[s])
  <2> TAKE s \in Ranks
  <2>1. CASE s = r
    BY <1>1, <2>1
  <2>2. CASE s # r
    <3>1. JRank(P, M, red[s], pc[s], pass[s], fires[s], finals[s])
      BY <1>3 DEF Relaid
    <3> QED
      BY <2>2, <3>1 DEF Others
  <2> QED
    BY <2>1, <2>2
<1>5. \A s, t \in Ranks : Aligned(P, M, red[s], finals[s], red[t], finals[t])
  <2> TAKE s, t \in Ranks
  <2>1. Aligned(P, L, red[s], finals[s], red[t], finals[t])
    BY <1>1 DEF JInv
  <2>2. /\ Ended(P, M, red[s], finals[s]) <=> Ended(P, L, red[s], finals[s])
        /\ Ended(P, M, red[t], finals[t]) <=> Ended(P, L, red[t], finals[t])
    BY <1>3 DEF Relaid
  <2> QED
    BY <2>1, <2>2, AlignRelaid
<1>6. \A s \in Ranks : /\ red'[s].done = red[s].done /\ finals'[s] = finals[s]
                       /\ Rounds(red'[s], finals'[s]) = Rounds(red[s], finals[s])
  BY DEF Others, Rounds
<1>7. \A s, t \in Ranks : Aligned(P, M, red'[s], finals'[s], red'[t], finals'[t])
  <2> TAKE s, t \in Ranks
  <2>1. Aligned(P, M, red[s], finals[s], red[t], finals[t])
    BY <1>5
  <2>2. /\ red'[s].done = red[s].done /\ Rounds(red'[s], finals'[s]) = Rounds(red[s], finals[s])
        /\ red'[t].done = red[t].done /\ Rounds(red'[t], finals'[t]) = Rounds(red[t], finals[t])
    BY <1>6
  <2> QED
    BY <2>1, <2>2 DEF Aligned, Ended
<1>8. Announces(P, M, red'[Root], finals'[Root])
  BY <1>1, <1>6
<1>9. \A s \in Ranks : grad'[s] \in [Params -> Given(P)] /\ gave'[s] \in [Params -> Given(P)]
  BY <1>1 DEF GradsTyped
<1> QED
  BY <1>1, <1>4, <1>7, <1>8, <1>9 DEF JInv

\* forward() up to the call of the module.
LEMMA ForwardJ ==
  ASSUME IInv, JInv, IInv', GradsShaped, NEW r \in Ranks, Forward(r)
  PROVE  JInv'
<1>1. PICK P, L, R, k, f, n, T :
        /\ P = program /\ L = Layout /\ R = red[r] /\ k = pass[r] /\ f = fires[r] /\ n = finals[r]
        /\ T = [R EXCEPT !.iterations = IF P.passes[k + 1] = "nosync" THEN @ ELSE @ + 1]
  OBVIOUS
<1>2. /\ pc[r] = "idle" /\ k < Len(P.passes)
      /\ \/ /\ T.finalize /\ Update(r, [T EXCEPT !.error = TRUE]) /\ Goto(r, "raised")
         \/ /\ ~T.finalize /\ (~ShouldRebuild(T) \/ T.order = <<>>) /\ Update(r, T) /\ Goto(r, "forward")
         \/ /\ ~T.finalize /\ ShouldRebuild(T) /\ T.order # <<>>
            /\ Update(r, RebuildBuckets(T)) /\ GotoUnless(r, red'[r], "indices")
      /\ UNCHANGED <<program, pass, graph, fires, finals, broken>>
  BY <1>1 DEF Forward, Pass, PriorReductionUnfinished
<1>3. TypedRank(P, R, "idle", k, f, n) /\ JRank(P, L, R, "idle", k, f, n) /\ InRound(P, L, R, n)
  BY <1>1, <1>2, RankAt
<1>4. DOMAIN R = Fields /\ R.error = FALSE /\ P \in Programs
  BY <1>3 DEF TypedRank
<1>5. Advanced(P, R, T, k) /\ T.plan = R.plan /\ T.work = R.work /\ T.error = FALSE
  BY <1>1, <1>4, AdvancedEffect
<1>6. /\ DOMAIN T = Fields /\ T.finalize = R.finalize /\ T.order = R.order /\ T.rebuilt = R.rebuilt
  BY <1>5 DEF Advanced
<1>7. GradsTyped /\ program' = program /\ finals' = finals /\ pass' = pass /\ fires' = fires
  BY <1>2, ForwardGrads
<1>8. DOMAIN red = Ranks /\ DOMAIN pc = Ranks
  BY DEF IInv, Shape
<1>9. ASSUME NEW Q, NEW m, red' = [red EXCEPT ![r] = Q], pc' = [pc EXCEPT ![r] = m]
      PROVE  Others(r) /\ red'[r] = Q /\ pc'[r] = m /\ pass'[r] = k /\ fires'[r] = f /\ finals'[r] = n
  BY <1>1, <1>7, <1>8, <1>9 DEF Others
<1>10. CASE T.finalize /\ Update(r, [T EXCEPT !.error = TRUE]) /\ Goto(r, "raised")
  <2>1. PICK Q : Q = [T EXCEPT !.error = TRUE]
    OBVIOUS
  <2>2. red' = [red EXCEPT ![r] = Q] /\ pc' = [pc EXCEPT ![r] = "raised"]
    BY <1>10, <2>1 DEF Update, Goto
  <2>3. Advanced(P, R, Q, k) /\ Q.plan = R.plan /\ Q.work = R.work
    BY <1>5, <2>1 DEF Advanced, Fields
  <2>4. R.finalize /\ k < Len(P.passes)
    BY <1>2, <1>6, <1>10
  <2>5. StepsTo(P, L, R, Q, "raised", k, f, n)
    BY ONLY <1>3, <2>3, <2>4, UnfinishedRank
  <2>6. /\ Others(r) /\ red'[r] = Q /\ pc'[r] = "raised" /\ pass'[r] = k /\ fires'[r] = f /\ finals'[r] = n
    BY <1>9, <2>2
  <2> QED
    BY <1>1, <1>7, <2>5, <2>6, StepWithin
<1>11. CASE ~T.finalize /\ (~ShouldRebuild(T) \/ T.order = <<>>) /\ Update(r, T) /\ Goto(r, "forward")
  <2>1. red' = [red EXCEPT ![r] = T] /\ pc' = [pc EXCEPT ![r] = "forward"]
    BY <1>11 DEF Update, Goto
  <2>2. ~R.finalize /\ (P.mode = "unused" \/ R.rebuilt \/ R.order = <<>>) /\ k < Len(P.passes)
    BY <1>1, <1>2, <1>6, <1>11 DEF ShouldRebuild, Mode
  <2>3. StepsTo(P, L, R, T, "forward", k, f, n)
    BY ONLY <1>3, <1>5, <2>2, ForwardRank
  <2>4. /\ Others(r) /\ red'[r] = T /\ pc'[r] = "forward" /\ pass'[r] = k /\ fires'[r] = f /\ finals'[r] = n
    BY <1>9, <2>1
  <2> QED
    BY <1>1, <1>7, <2>3, <2>4, StepWithin
<1>12. CASE /\ ~T.finalize /\ ShouldRebuild(T) /\ T.order # <<>>
            /\ Update(r, RebuildBuckets(T)) /\ GotoUnless(r, red'[r], "indices")
  <2>1. PICK Q : Q = RebuildBuckets(T)
    OBVIOUS
  <2>2. ~R.finalize /\ P.mode # "unused" /\ ~R.rebuilt /\ R.order # <<>> /\ k < Len(P.passes)
    BY <1>1, <1>2, <1>6, <1>12 DEF ShouldRebuild, Mode
  <2>3. n = First(P) /\ IsPerm(R.order) /\ Issued(R) = 0 /\ Rebuilds(P, Rounds(R, n))
    BY ONLY <1>3, <2>2, RebuildDue
  <2>4. Len(T.order) = Cardinality(Params)
    BY <1>6, <2>3 DEF IsPerm
  <2>5. Broadcasts(T, Q)
    BY ONLY <1>6, <2>1, <2>4, RebuildEffect
  <2>6. Advanced(P, R, Q, k)
    BY <1>5, <2>5 DEF Advanced, Broadcasts
  <2>7. Q.plan = Assign(R.order) /\ Q.work = Append(R.work, IndicesWork(Q.plan))
    BY <1>5, <1>6, <2>5 DEF Broadcasts
  <2>8. \A M : JRank(P, M, Q, "indices", k, f, n) /\ (M = Q.plan => Announces(P, M, Q, n))
    BY ONLY <1>3, <2>2, <2>6, <2>7, RebuildRank
  <2>9. red' = [red EXCEPT ![r] = Q] /\ red'[r] = Q /\ Q.error = FALSE
    BY <1>5, <1>8, <1>12, <2>1, <2>5 DEF Update, Broadcasts
  <2>10. pc' = [pc EXCEPT ![r] = "indices"]
    BY <1>12, <2>9 DEF GotoUnless, Goto
  <2>11. /\ Others(r) /\ red'[r] = Q /\ pc'[r] = "indices" /\ pass'[r] = k /\ fires'[r] = f /\ finals'[r] = n
    BY <1>9, <2>9, <2>10
  <2>12. Q.done = R.done /\ Q.rebuilt = R.rebuilt
    BY <2>6 DEF Advanced
  <2>13. CASE r = Root
    <3>1. Layout' = Q.plan
      BY <2>2, <2>11, <2>12, <2>13 DEF Layout
    <3>2. /\ JRank(program, Layout', red'[r], pc'[r], pass'[r], fires'[r], finals[r])
          /\ Announces(program, Layout', red'[r], finals[r])
      BY <1>1, <2>8, <2>11, <3>1
    <3>3. program.mode # "unused" /\ Rounds(red[r], finals[r]) = First(program)
      BY <1>1, <2>3 DEF Rebuilds
    <3>4. Len(red[r].done) = 0
      <4>1. Len(R.done) \in Nat /\ Len(R.work) \in Nat /\ Len(R.done) + Len(R.work) = 0
        BY <1>3, <2>3 DEF InRound, Issued
      <4>2. \A a, b \in Nat : a + b = 0 => a = 0
        OBVIOUS
      <4> QED
        BY <1>1, <4>1, <4>2
    <3>5. finals'[r] = finals[r] /\ red'[r].done = red[r].done /\ red'[r].rebuilt = red[r].rebuilt
      BY <1>1, <2>11, <2>12
    <3> QED
      BY <1>7, <2>11, <2>13, <3>2, <3>3, <3>4, <3>5, RootRebuildJ
  <2>14. CASE r # Root
    <3>1. Layout' = Layout
      BY <2>11, <2>14, LayoutKept
    <3>2. Moves(P, L, R, n, Q, n)
      BY <2>12 DEF Moves, Rounds
    <3>3. JRank(P, L, Q, "indices", k, f, n)
      BY <2>8
    <3> QED
      BY <1>1, <1>7, <2>11, <2>14, <3>1, <3>2, <3>3, StepJ
  <2> QED
    BY <2>13, <2>14
<1> QED
  BY <1>2, <1>10, <1>11, <1>12

\* The types of a rank after a step.
LEMMA TypedAfter ==
  ASSUME IInv', program' = program, NEW r \in Ranks
  PROVE  TypedRank(program, red'[r], pc'[r], pass'[r], fires'[r], finals'[r])
<1>1. PICK P, Q, l, k, f, n, G :
        /\ P = program /\ Q = red'[r] /\ l = pc'[r] /\ k = pass'[r] /\ f = fires'[r]
        /\ n = finals'[r] /\ G = graph'[r]
  OBVIOUS
<1>2. RankTypes(P, Q, l, k, G, f, n) /\ P \in Programs
  BY <1>1 DEF IInv
<1>3. TypedRank(P, Q, l, k, f, n)
  BY <1>2 DEF RankTypes, TypedRank
<1> QED
  BY <1>1, <1>3

\* The indices have arrived: broadcast the sizes.
LEMMA SyncBucketIndicesJ ==
  ASSUME IInv, JInv, NEW r \in Ranks, SyncBucketIndices(r)
  PROVE  JInv'
<1>1. PICK P, L, R, k, f, n, b, Q :
        /\ P = program /\ L = Layout /\ R = red[r] /\ k = pass[r] /\ f = fires[r] /\ n = finals[r]
        /\ b = R.done[1].data.buckets
        /\ Q = Issue(R, SizesWork(R.plan, b))
  OBVIOUS
<1>2. DOMAIN red = Ranks /\ DOMAIN pc = Ranks
  BY DEF IInv, Shape
<1>3. /\ pc[r] = "indices" /\ R.work = <<>> /\ red' = [red EXCEPT ![r] = Q] /\ pc' = [pc EXCEPT ![r] = "sizes"]
      /\ UNCHANGED <<program, grad, gave, pass, fires, finals>>
  BY <1>1 DEF SyncBucketIndices, Update, Goto, SizesWork
<1>4. TypedRank(P, R, "indices", k, f, n) /\ JRank(P, L, R, "indices", k, f, n)
  BY <1>1, <1>3, RankAt
<1>5. DOMAIN R = Fields
  BY <1>4 DEF TypedRank
<1>6. PICK v : v = Append(R.work, SizesWork(R.plan, b))
  OBVIOUS
<1>7. Q = [R EXCEPT !.work = v]
  BY <1>1, <1>6 DEF Issue
<1>8. Alike(R, Q) /\ Q.done = R.done
  BY <1>5, <1>7 DEF Alike, Fields
<1>9. Q.work = Append(R.work, SizesWork(R.plan, R.done[1].data.buckets))
  BY <1>1, <1>5, <1>6, <1>7 DEF Fields
<1>10. StepsTo(P, L, R, Q, "sizes", k, f, n) /\ (R.plan = L => Announces(P, L, Q, n))
  BY <1>3, <1>4, <1>8, <1>9, SyncRank
<1>11. JRank(P, L, Q, "sizes", k, f, n) /\ Kept(R, Q)
  BY <1>10 DEF StepsTo
<1>12. ~R.rebuilt
  <2>1. LaidOut(L, R, "indices")
    BY <1>4 DEF JRank
  <2> QED
    BY <2>1 DEF LaidOut
<1>13. r = Root => R.plan = L
  BY <1>1, <1>12 DEF Layout
<1>14. /\ Others(r) /\ red'[r] = Q /\ pc'[r] = "sizes" /\ pass'[r] = k /\ fires'[r] = f /\ finals'[r] = n
       /\ program' = program
  BY <1>1, <1>2, <1>3 DEF Others
<1>15. Layout' = Layout
  BY <1>1, <1>11, <1>14, LayoutKept
<1>16. Moves(P, L, R, n, Q, n)
  BY <1>11 DEF Kept, Moves, Rounds
<1>17. GradsTyped
  BY <1>3, GradsKept
<1>18. r = Root => Announces(P, L, Q, n)
  BY <1>10, <1>13
<1> QED
  BY <1>1, <1>11, <1>14, <1>15, <1>16, <1>17, <1>18, StepJ

\* The sizes have arrived: every rank installs the layout of rank 0.
LEMMA InitializeBucketsJ ==
  ASSUME IInv, JInv, IInv', NEW r \in Ranks, InitializeBuckets(r)
  PROVE  JInv'
<1>1. PICK P, L, R, k, f, n, b, w :
        /\ P = program /\ L = Layout /\ R = red[r] /\ k = pass[r] /\ f = fires[r] /\ n = finals[r]
        /\ b = Unflatten(R.done[1].data.flat, R.done[2].data)
        /\ w = (R.expect \/ Len(b) # Len(R.plan))
  OBVIOUS
<1>2. PICK Q : Q = [R EXCEPT !.buckets = b, !.rebuilt = TRUE, !.order = <<>>, !.done = <<>>,
                             !.plan = IF w THEN @ ELSE <<>>, !.error = w]
  OBVIOUS
<1>3. DOMAIN red = Ranks /\ DOMAIN pc = Ranks
  BY SMTT(40) DEF IInv, Shape
<1>4. /\ pc[r] = "sizes" /\ R.work = <<>> /\ red' = [red EXCEPT ![r] = Q]
      /\ GotoUnless(r, red'[r], "forward")
      /\ UNCHANGED <<program, grad, gave, pass, fires, finals>>
  BY ZenonT(40), <1>1, <1>2 DEF InitializeBuckets, Update
<1>5. PICK m : m = IF Q.error THEN "raised" ELSE "forward"
  OBVIOUS
<1>6. red'[r] = Q /\ pc' = [pc EXCEPT ![r] = m]
  BY <1>3, <1>4, <1>5 DEF GotoUnless, Goto
<1>7. TypedRank(P, R, "sizes", k, f, n) /\ JRank(P, L, R, "sizes", k, f, n) /\ InRound(P, L, R, n)
  BY <1>1, <1>4, RankAt
<1>8. DOMAIN R = Fields /\ R.expect \in BOOLEAN
  BY <1>7 DEF TypedRank
<1>9. w \in BOOLEAN /\ (~w => ~R.expect)
  BY <1>1, <1>8
<1>10. Awaits(P, L, R, "sizes", n)
  BY <1>4, <1>7, RebuildAwaited
<1>11. Rebuilds(P, Rounds(R, n)) /\ Len(R.done) = 2 /\ ~R.rebuilt
  BY <1>10 DEF Awaits
<1>12. Sound(L)
  <2>1. PICK S, l, i, h, j : S = red[Root] /\ l = pc[Root] /\ i = pass[Root] /\ h = fires[Root] /\ j = finals[Root]
    OBVIOUS
  <2>2. Root \in Ranks
    BY RanksAssumption DEF Root
  <2>3. TypedRank(P, S, l, i, h, j) /\ JRank(P, L, S, l, i, h, j)
    BY <1>1, <2>1, <2>2, RankAt
  <2>4. ~S.rebuilt => L = S.plan
    BY <1>1, <2>1 DEF Layout
  <2>5. Aligned(P, L, S, j, R, n)
    BY <1>1, <2>1, <2>2 DEF JInv
  <2>6. InRound(P, L, R, n) /\ Rebuilds(P, Rounds(R, n)) /\ Len(R.done) > 0
    BY <1>7, <1>11
  <2> QED
    BY ONLY <2>3, <2>4, <2>5, <2>6, RootSound
<1>13. b = L
  BY <1>1, <1>4, <1>7, <1>12, ReceivedLayout
<1>14. DOMAIN Q = Fields /\ AlikeDelays(R, Q)
  BY <1>2, <1>8 DEF AlikeDelays, Fields
<1>15. /\ Q.next = R.next /\ Q.ready = R.ready /\ Q.view = R.view
       /\ Q.marked = R.marked /\ Q.callback = R.callback /\ Q.order = <<>> /\ Q.done = <<>> /\ Q.work = R.work
       /\ Q.rebuilt = TRUE
  BY <1>2, <1>8 DEF Fields
<1>16. Q.buckets = L /\ Q.error = w
  BY <1>2, <1>8, <1>13 DEF Fields
<1>17. Q.error \in BOOLEAN /\ (~Q.error => ~R.expect)
  BY <1>9, <1>16
<1>18. Renewed(P, L, Q, IF Q.error THEN "raised" ELSE "forward", k, f, n)
  <2>1. TypedRank(P, R, "sizes", k, f, n) /\ JRank(P, L, R, "sizes", k, f, n) /\ R.work = <<>>
    BY <1>4, <1>7
  <2>2. Q.buckets = L
    BY <1>16
  <2> QED
    BY ONLY <2>1, <1>12, <1>14, <1>15, <2>2, <1>17, InitializeRank
<1>19. JRank(P, L, Q, m, k, f, n)
  BY <1>5, <1>18 DEF Renewed
<1>20. /\ Others(r) /\ red'[r] = Q /\ pc'[r] = m /\ pass'[r] = k /\ fires'[r] = f /\ finals'[r] = n
       /\ program' = program
  BY <1>1, <1>3, <1>4, <1>6 DEF Others
<1>21. Layout' = Layout
  <2>1. CASE r = Root
    BY <1>1, <1>15, <1>16, <1>20, <2>1 DEF Layout
  <2>2. CASE r # Root
    BY <1>20, <2>2, LayoutKept
  <2> QED
    BY <2>1, <2>2
<1>22. Moves(P, L, R, n, Q, n)
  <2>1. Rounds(Q, n) = Rounds(R, n) + 1
    BY <1>11, <1>15 DEF Rounds
  <2>2. Ended(P, L, R, n)
    BY <1>11, RebuildRound DEF Ended
  <2> QED
    BY <1>15, <2>1, <2>2 DEF Moves
<1>23. Announces(P, L, Q, n)
  <2>1. TypedRank(P, Q, m, k, f, n)
    BY <1>1, <1>20, TypedAfter
  <2>2. m \notin {"indices", "sizes"}
    BY <1>5
  <2> QED
    BY ONLY <1>19, <2>1, <2>2, AnnouncesOut
<1>24. GradsTyped
  BY <1>4, GradsKept
<1> QED
  BY <1>1, <1>19, <1>20, <1>21, <1>22, <1>23, <1>24, StepJ

\* prepare_for_backward, and the callback that the sink queues.
LEMMA PrimedEffect ==
  ASSUME NEW P, P = program, NEW R, DOMAIN R = Fields, NEW out, R.unused \subseteq Params,
         NEW T, T = PrepareForBackward(R, out), NEW c, NEW Q, Q = [T EXCEPT !.callback = c]
  PROVE  Primed(P, R, T) /\ T.callback = R.callback /\ Primed(P, R, Q) /\ Q.callback = c
<1>1. PICK a, u : /\ a = IF P.mode = "static" THEN R.hooks ELSE R.left
                  /\ u = IF P.mode = "unused" THEN Params \ out ELSE R.unused
  OBVIOUS
<1>2. u \subseteq Params /\ (P.mode # "unused" => u = R.unused)
  BY <1>1
<1>3. T = [R EXCEPT !.expect = TRUE, !.next = 1, !.ready = {}, !.marked = FALSE, !.left = a, !.unused = u]
  BY <1>1 DEF PrepareForBackward, DynamicFindUnused, Mode
<1>4. Primed(P, R, T) /\ T.callback = R.callback
  <2>1. /\ DOMAIN T = Fields /\ T.left = a /\ T.unused = u /\ T.callback = R.callback
        /\ T.expect = TRUE /\ T.next = 1 /\ T.ready = {} /\ T.marked = FALSE
        /\ T.iterations = R.iterations /\ T.finalize = R.finalize /\ T.buckets = R.buckets /\ T.view = R.view
        /\ T.used = R.used /\ T.reduced = R.reduced /\ T.hooks = R.hooks /\ T.order = R.order
        /\ T.rebuilt = R.rebuilt /\ T.plan = R.plan /\ T.work = R.work /\ T.done = R.done
    BY <1>3 DEF Fields
  <2> QED
    BY <1>1, <1>2, <2>1 DEF Primed
<1>5. Primed(P, R, Q) /\ Q.callback = c
  BY <1>4 DEF Primed, Fields
<1> QED
  BY <1>4, <1>5

\* Under no_sync() only the callback is queued.
LEMMA RecalledEffect ==
  ASSUME NEW R, DOMAIN R = Fields, NEW c, NEW Q, Q = [R EXCEPT !.callback = c]
  PROVE  Recalled(R, Q) /\ Q.callback = c
  BY DEF Recalled, Fields

\* A hook fires at most twice in a backward.
LEMMA SinkFires ==
  ASSUME NEW m \in Modes, NEW g \in Graphs[m], NEW b
  PROVE  [p \in Params |-> IF b /\ g.loss[p] = 0 /\ p \in g.out THEN 1 ELSE g.loss[p]] \in [Params -> 0..2]
<1>1. g \in GraphType
  BY GraphsAssumption
<1>2. g.loss \in [Params -> 0..2]
  BY <1>1 DEF GraphType
<1> QED
  BY <1>2

\* forward() after the call of the module.
LEMMA BackwardJ ==
  ASSUME IInv, JInv, IInv', NEW r \in Ranks, Backward(r)
  PROVE  JInv'
<1>1. PICK P, L, R, k, f, n :
        P = program /\ L = Layout /\ R = red[r] /\ k = pass[r] /\ f = fires[r] /\ n = finals[r]
  OBVIOUS
<1>2. pc[r] = "forward" /\ UNCHANGED <<program, grad, gave, finals>>
  BY DEF Backward
<1>3. TypedRank(P, R, "forward", k, f, n) /\ JRank(P, L, R, "forward", k, f, n)
  BY <1>1, <1>2, RankAt
<1>4. DOMAIN R = Fields /\ P \in Programs /\ R.unused \subseteq Params
  BY <1>3 DEF TypedRank, JRank, Typed
<1>5. PICK g \in Graphs[P.mode] :
        LET T == IF P.passes[k + 1] = "nosync" THEN R ELSE PrepareForBackward(R, g.out)
            sink == [p \in Params |-> IF HasSink(r) /\ g.loss[p] = 0 /\ p \in g.out THEN 1 ELSE g.loss[p]]
        IN \/ /\ P.passes[k + 1] = "ignored"
              /\ Update(r, T)
              /\ Goto(r, "idle")
              /\ pass' = [pass EXCEPT ![r] = @ + 1]
              /\ UNCHANGED fires
           \/ /\ P.passes[k + 1] # "ignored"
              /\ Update(r, [T EXCEPT !.callback = IF StaticFirst(T) THEN "delay" ELSE "none"])
              /\ Goto(r, "backward")
              /\ fires' = [fires EXCEPT ![r] = sink]
              /\ UNCHANGED pass
  BY <1>1 DEF Backward, Pass, Mode
<1>6. PICK b : b = HasSink(r)
  OBVIOUS
<1>7. PICK T, h, c :
        /\ T = IF P.passes[k + 1] = "nosync" THEN R ELSE PrepareForBackward(R, g.out)
        /\ h = [p \in Params |-> IF b /\ g.loss[p] = 0 /\ p \in g.out THEN 1 ELSE g.loss[p]]
        /\ c = IF StaticFirst(T) THEN "delay" ELSE "none"
  OBVIOUS
<1>8. \/ /\ P.passes[k + 1] = "ignored"
         /\ red' = [red EXCEPT ![r] = T] /\ pc' = [pc EXCEPT ![r] = "idle"]
         /\ pass' = [pass EXCEPT ![r] = @ + 1] /\ fires' = fires
      \/ /\ P.passes[k + 1] # "ignored"
         /\ red' = [red EXCEPT ![r] = [T EXCEPT !.callback = c]] /\ pc' = [pc EXCEPT ![r] = "backward"]
         /\ fires' = [fires EXCEPT ![r] = h] /\ pass' = pass
  BY <1>5, <1>6, <1>7 DEF Update, Goto
<1>9. PICK Q : Q = [T EXCEPT !.callback = c]
  OBVIOUS
<1>10. GradsTyped /\ program' = program /\ finals'[r] = n
  BY <1>1, <1>2, GradsKept
<1>11. /\ DOMAIN red = Ranks /\ DOMAIN pc = Ranks /\ DOMAIN pass = Ranks /\ DOMAIN fires = Ranks
  BY DEF IInv, Shape
<1>12. CASE /\ P.passes[k + 1] = "ignored"
            /\ red' = [red EXCEPT ![r] = T] /\ pc' = [pc EXCEPT ![r] = "idle"]
            /\ pass' = [pass EXCEPT ![r] = @ + 1] /\ fires' = fires
  <2>1. P.passes[k + 1] = "ignored" /\ T = PrepareForBackward(R, g.out)
    BY <1>7, <1>12
  <2>2. Primed(P, R, T) /\ T.callback = R.callback
    BY <1>1, <1>4, <1>9, <2>1, PrimedEffect
  <2>3. StepsTo(P, L, R, T, "idle", k + 1, f, n)
    BY ONLY <1>3, <2>1, <2>2, IgnoredRank
  <2>4. /\ Others(r) /\ red'[r] = T /\ pc'[r] = "idle" /\ pass'[r] = k + 1 /\ fires'[r] = f /\ finals'[r] = n
    BY <1>1, <1>2, <1>10, <1>11, <1>12 DEF Others
  <2> QED
    BY <1>1, <1>10, <2>3, <2>4, StepWithin
<1>13. CASE /\ P.passes[k + 1] # "ignored"
            /\ red' = [red EXCEPT ![r] = [T EXCEPT !.callback = c]] /\ pc' = [pc EXCEPT ![r] = "backward"]
            /\ fires' = [fires EXCEPT ![r] = h] /\ pass' = pass
  <2>1. h \in [Params -> 0..2]
    <3>1. P.mode \in Modes
      BY <1>4, ProgramFacts
    <3> QED
      BY <1>5, <1>7, <3>1, SinkFires
  <2>2. StepsTo(P, L, R, Q, "backward", k, h, n)
    <3>1. CASE P.passes[k + 1] = "nosync"
      <4>1. T = R
        BY <1>7, <3>1
      <4>2. Recalled(R, Q) /\ Q.callback = c
        BY <1>4, <1>9, <4>1, RecalledEffect
      <4>3. Q.callback = IF Deferred(P, R) THEN "delay" ELSE "none"
        BY <1>1, <1>7, <4>1, <4>2 DEF StaticFirst, Deferred, Mode
      <4> QED
        BY ONLY <1>3, <2>1, <3>1, <4>2, <4>3, NoSyncRank
    <3>2. CASE P.passes[k + 1] # "nosync"
      <4>1. T = PrepareForBackward(R, g.out)
        BY <1>7, <3>2
      <4>2. Primed(P, R, T) /\ Primed(P, R, Q) /\ Q.callback = c
        BY SMTT(40), <1>1, <1>4, <1>9, <4>1, PrimedEffect
      <4>3. T.iterations = R.iterations
        BY <4>2 DEF Primed
      <4>4. Q.callback = IF Deferred(P, R) THEN "delay" ELSE "none"
        BY <1>1, <1>7, <4>2, <4>3 DEF StaticFirst, Deferred, Mode
      <4>5. P.passes[k + 1] # "ignored"
        BY <1>13
      <4> QED
        BY ONLY <1>3, <2>1, <3>2, <4>2, <4>4, <4>5, BackwardRank
    <3> QED
      BY <3>1, <3>2
  <2>3. /\ Others(r) /\ red'[r] = Q /\ pc'[r] = "backward" /\ pass'[r] = k /\ fires'[r] = h /\ finals'[r] = n
    BY <1>1, <1>2, <1>9, <1>10, <1>11, <1>13 DEF Others
  <2> QED
    BY <1>1, <1>10, <2>2, <2>3, StepWithin
<1> QED
  BY <1>8, <1>12, <1>13

\* The engine accumulates a gradient and runs its hook.
LEMMA HookJ ==
  ASSUME IInv, JInv, IInv', GradsShaped, NEW r \in Ranks, NEW p \in Params, Hook(r, p)
  PROVE  JInv'
<1>1. PICK P, L, R, k, f, n, g, Q, h :
        /\ P = program /\ L = Layout /\ R = red[r] /\ k = pass[r] /\ f = fires[r] /\ n = finals[r]
        /\ g = grad'[r] /\ Q = AutogradHook(R, g, p) /\ h = [f EXCEPT ![p] = @ - 1]
  OBVIOUS
<1>2. PICK w : /\ w = IF graph[r].loss[p] > 0 THEN {<<r, k + 1, f[p]>>} ELSE {}
               /\ grad' = [grad EXCEPT ![r][p] = @ \cup w] /\ gave' = [gave EXCEPT ![r][p] = @ \cup w]
  BY <1>1 DEF Hook
<1>3. DOMAIN red = Ranks /\ DOMAIN pc = Ranks /\ DOMAIN fires = Ranks
  BY DEF IInv, Shape
<1>4. PICK m : m = IF Q.error THEN "raised" ELSE "backward"
  OBVIOUS
<1>5. /\ pc[r] = "backward" /\ f[p] > 0 /\ fires' = [fires EXCEPT ![r] = h]
      /\ red' = [red EXCEPT ![r] = Q] /\ red'[r] = Q /\ GotoUnless(r, red'[r], "backward")
      /\ UNCHANGED <<program, pass, finals>>
  BY <1>1, <1>3 DEF Hook, Update
<1>6. pc' = [pc EXCEPT ![r] = m]
  BY <1>4, <1>5 DEF GotoUnless, Goto
<1>7. TypedRank(P, R, "backward", k, f, n) /\ JRank(P, L, R, "backward", k, f, n)
  BY <1>1, <1>5, RankAt
<1>8. k \in 0..Len(P.passes) /\ k < Len(P.passes) /\ f \in [Params -> 0..2] /\ Len(P.passes) \in Nat
  <2>1. P \in Programs /\ Typed(P, R, "backward", k, f)
    BY <1>7 DEF TypedRank, JRank
  <2>2. Len(P.passes) \in Nat
    BY <2>1, ProgramFacts
  <2> QED
    BY <2>1, <2>2 DEF Typed
<1>9. w \in Given(P)
  <2>1. k + 1 \in 1..Len(P.passes)
    BY <1>8
  <2>2. f[p] \in 1..2
    BY <1>5, <1>8
  <2>3. <<r, k + 1, f[p]>> \in Ranks \X (1..Len(P.passes)) \X (1..2)
    BY <2>1, <2>2
  <2> QED
    BY <1>2, <2>3 DEF Given
<1>10. \A s \in Ranks : grad[s] \in [Params -> Given(P)] /\ gave[s] \in [Params -> Given(P)]
  BY <1>1 DEF JInv
<1>11. \A a, d : a \in Given(P) /\ d \in Given(P) => a \cup d \in Given(P)
  BY DEF Given
<1>12. \A s \in Ranks : grad'[s] \in [Params -> Given(P)]
  <2> TAKE s \in Ranks
  <2>1. CASE s = r
    <3>1. grad'[s] = [grad[s] EXCEPT ![p] = @ \cup w]
      BY <1>2, <2>1 DEF GradsShaped
    <3>2. grad[s] \in [Params -> Given(P)] /\ grad[s][p] \cup w \in Given(P)
      BY <1>9, <1>10, <1>11
    <3> QED
      BY <3>1, <3>2
  <2>2. CASE s # r
    BY <1>2, <1>10, <2>2 DEF GradsShaped
  <2> QED
    BY <2>1, <2>2
<1>13. \A s \in Ranks : gave'[s] \in [Params -> Given(P)]
  <2> TAKE s \in Ranks
  <2>1. CASE s = r
    <3>1. gave'[s] = [gave[s] EXCEPT ![p] = @ \cup w]
      BY <1>2, <2>1 DEF GradsShaped
    <3>2. gave[s] \in [Params -> Given(P)] /\ gave[s][p] \cup w \in Given(P)
      BY <1>9, <1>10, <1>11
    <3> QED
      BY <3>1, <3>2
  <2>2. CASE s # r
    BY <1>2, <1>10, <2>2 DEF GradsShaped
  <2> QED
    BY <2>1, <2>2
<1>14. GradsTyped
  BY <1>1, <1>12, <1>13 DEF GradsTyped
<1>15. StepsTo(P, L, R, Q, m, k, h, n)
  <2>1. g \in [Params -> Given(P)] /\ P = program
    BY <1>1, <1>12
  <2>2. f[p] > 0 /\ h = [f EXCEPT ![p] = @ - 1] /\ Q = AutogradHook(R, g, p)
    BY <1>1, <1>5
  <2>3. StepsTo(P, L, R, Q, IF Q.error THEN "raised" ELSE "backward", k, h, n)
    BY <1>7, <2>1, <2>2, HookRank
  <2> QED
    BY <1>4, <2>3
<1>16. /\ Others(r) /\ red'[r] = Q /\ pc'[r] = m /\ pass'[r] = k /\ fires'[r] = h /\ finals'[r] = n
       /\ program' = program /\ pc'[r] \notin {"indices", "sizes"}
  BY <1>1, <1>3, <1>4, <1>5, <1>6 DEF Others
<1> QED
  BY <1>1, <1>14, <1>15, <1>16, StepWithin

\* The callback has run, e that a check failed.
Ends(S, e) == [S EXCEPT !.callback = "none", !.error = e]

\* The final callback of mark_variable_ready: the parameters found unused come last.
LEMMA ConcludedEffect ==
  ASSUME NEW P, P = program, NEW R, DOMAIN R = Fields, NEW S, S = FinalCallback(R), NEW e, NEW Q,
         Q = Ends(S, e)
  PROVE  Concluded(P, R, Q) /\ Q.error = e
<1>0. Q = [S EXCEPT !.callback = "none", !.error = e]
  BY DEF Ends
<1>1. PICK o : o = IF P.mode = "static" /\ ~R.rebuilt THEN R.order \o Ascending(R.unused) ELSE R.order
  OBVIOUS
<1>2. CASE P.mode = "static" /\ ~R.rebuilt
  <2>1. S = [R EXCEPT !.order = o]
    BY <1>1, <1>2 DEF FinalCallback, PushRebuilt, ShouldRebuild, Mode
  <2>2. Q.order = o
    BY <1>0, <2>1 DEF Fields
  <2> QED
    BY <1>0, <1>1, <2>1, <2>2 DEF Concluded, Fields
<1>3. CASE ~(P.mode = "static" /\ ~R.rebuilt)
  <2>1. S = R
    BY <1>3 DEF FinalCallback, PushRebuilt, ShouldRebuild, Mode
  <2> QED
    BY <1>0, <1>3, <2>1 DEF Concluded, Fields
<1> QED
  BY <1>2, <1>3

\* delay_all_reduce, and the assertions of finalize_backward.
LEMMA DrainedEffect ==
  ASSUME NEW F, DOMAIN F = Fields, F.error \in BOOLEAN, F.expect \in BOOLEAN, F.finalize = TRUE,
         NEW S, Loads(F, S), NEW e, e = (S.error \/ ~(S.expect /\ S.finalize)), NEW Q, Q = Ends(S, e)
  PROVE  Drained(F, Q)
<1>1. PICK v : v = F.work \o FilledBuckets(F)
  OBVIOUS
<1>2. Q = [S EXCEPT !.callback = "none", !.error = e]
  BY DEF Ends
<1>3. CASE F.error = TRUE
  <2>1. S = F
    BY <1>3 DEF Loads
  <2>2. e = TRUE
    BY <1>1, <1>3, <2>1
  <2>3. Q.error = TRUE /\ Q.work = F.work
    BY <1>2, <2>1, <2>2 DEF Fields
  <2> QED
    BY ZenonT(40), <1>2, <2>1, <2>3 DEF Drained, Fields
<1>4. CASE F.error = FALSE
  <2>1. S = [F EXCEPT !.work = v]
    BY <1>1, <1>4 DEF Loads
  <2>2. S.error = FALSE /\ S.expect = F.expect /\ S.finalize = TRUE
    BY <1>4, <2>1 DEF Fields
  <2>3. e \in BOOLEAN /\ (~e => F.expect)
    BY <1>1, <2>2
  <2>4. Q.error = e /\ Q.work = v /\ Q.expect = F.expect /\ DOMAIN Q = Fields
    <3>1. DOMAIN F = Fields
      OBVIOUS
    <3>2. DOMAIN S = Fields /\ S.work = v /\ S.expect = F.expect
      BY ONLY <2>1, <3>1 DEF Fields
    <3> QED
      BY ONLY <1>2, <3>2 DEF Fields
  <2>5. /\ Q.error \in BOOLEAN /\ Q.work = F.work \o FilledBuckets(F)
        /\ ~Q.error => Q.expect /\ Q.work = F.work \o FilledBuckets(F)
    BY <1>1, <2>3, <2>4
  <2> QED
    BY ZenonT(40), <1>2, <2>1, <2>5 DEF Drained, Fields
<1> QED
  BY <1>3, <1>4

\* The GraphTask is complete.
LEMMA EndBackwardJ ==
  ASSUME IInv, JInv, IInv', NEW r \in Ranks, EndBackward(r)
  PROVE  JInv'
<1>1. PICK P, L, R, k, f, n, g :
        /\ P = program /\ L = Layout /\ R = red[r] /\ k = pass[r] /\ f = fires[r] /\ n = finals[r]
        /\ g = grad[r]
  OBVIOUS
<1>2. PICK S : S = IF R.callback = "delay" THEN DelayAllReduce(R, g) ELSE FinalCallback(R)
  OBVIOUS
<1>3. PICK e, Q : /\ e = (S.error \/ ~(S.expect /\ S.finalize))
                  /\ Q = Ends(S, e)
  OBVIOUS
<1>4. /\ pc[r] = "backward"
      /\ \/ /\ R.callback = "none" /\ Goto(r, "idle")
            /\ pass' = [pass EXCEPT ![r] = @ + 1] /\ UNCHANGED red
         \/ /\ R.callback # "none" /\ Update(r, Q)
            /\ GotoUnless(r, red'[r], "final") /\ UNCHANGED pass
      /\ UNCHANGED <<program, grad, gave, fires, finals>>
  BY <1>1, <1>2, <1>3 DEF EndBackward, Ends
<1>5. TypedRank(P, R, "backward", k, f, n) /\ JRank(P, L, R, "backward", k, f, n)
  BY <1>1, <1>4, RankAt
<1>6. /\ DOMAIN R = Fields /\ R.error = FALSE /\ R.expect \in BOOLEAN /\ R.finalize \in BOOLEAN
      /\ R.callback \in {"none", "delay", "finalize"}
  BY <1>5 DEF TypedRank, JRank, Typed
<1>7. GradsTyped /\ program' = program
  BY <1>4, GradsKept
<1>8. DOMAIN red = Ranks /\ DOMAIN pc = Ranks /\ DOMAIN pass = Ranks
  BY DEF IInv, Shape
<1>9. CASE /\ R.callback = "none" /\ Goto(r, "idle")
           /\ pass' = [pass EXCEPT ![r] = @ + 1] /\ UNCHANGED red
  <2>1. R.callback = "none"
    BY <1>9
  <2>2. StepsTo(P, L, R, R, "idle", k + 1, f, n)
    BY ONLY <1>5, <2>1, EndRank
  <2>3. /\ Others(r) /\ red'[r] = R /\ pc'[r] = "idle" /\ pass'[r] = k + 1 /\ fires'[r] = f /\ finals'[r] = n
    BY <1>1, <1>4, <1>8, <1>9 DEF Others, Goto
  <2> QED
    BY <1>1, <1>7, <2>2, <2>3, StepWithin
<1>10. CASE /\ R.callback # "none" /\ Update(r, Q)
            /\ GotoUnless(r, red'[r], "final") /\ UNCHANGED pass
  <2>1. PICK m : m = IF Q.error THEN "raised" ELSE "final"
    OBVIOUS
  <2>2. red' = [red EXCEPT ![r] = Q] /\ red'[r] = Q
    BY <1>8, <1>10 DEF Update
  <2>3. pc' = [pc EXCEPT ![r] = m]
    BY <1>10, <2>1, <2>2 DEF GotoUnless, Goto
  <2>4. StepsTo(P, L, R, Q, m, k, f, n)
    <3>1. CASE R.callback = "finalize"
      <4>1. S = FinalCallback(R)
        BY <1>2, <3>1
      <4>2. Concluded(P, R, Q) /\ Q.error = e
        <5>1. P = program
          BY <1>1
        <5>2. DOMAIN R = Fields
          BY <1>6
        <5>3. Q = Ends(S, e)
          BY <1>3
        <5> QED
          BY ONLY <4>1, <5>1, <5>2, <5>3, ConcludedEffect
      <4>3. Marking(R, "backward")
        BY <1>5 DEF JRank, Keeps
      <4>4. R.finalize /\ R.expect
        BY <3>1, <4>3 DEF Marking
      <4>5. S.error = FALSE /\ S.expect = R.expect /\ S.finalize = R.finalize
        BY <1>6, <4>1 DEF FinalCallback, PushRebuilt, Fields
      <4>6. e = FALSE
        BY <1>3, <1>6, <4>4, <4>5
      <4>7. StepsTo(P, L, R, Q, "final", k, f, n)
        <5>1. Concluded(P, R, Q)
          BY <4>2
        <5> QED
          BY ONLY <1>5, <3>1, <5>1, ConcludeRank
      <4>8. m = "final"
        BY <2>1, <4>2, <4>6
      <4> QED
        BY <4>7, <4>8
    <3>2. CASE R.callback = "delay"
      <4>1. S = DelayAllReduce(R, g)
        BY <1>2, <3>2
      <4>2. PICK F : Filling(P, R, F, g) /\ Loads(F, S)
        <5>1. DOMAIN R = Fields
          BY <1>6
        <5> QED
          BY ONLY <4>1, <5>1, DelayEffect
      <4>3. DOMAIN F = Fields /\ F.error \in BOOLEAN /\ F.expect \in BOOLEAN /\ F.finalize = TRUE
        BY <1>6, <4>2 DEF Filling
      <4>4. Q = Ends(S, e) /\ e = (S.error \/ ~(S.expect /\ S.finalize))
        BY <1>3
      <4>5. Drained(F, Q)
        BY ONLY <4>2, <4>3, <4>4, DrainedEffect
      <4>6. g \in [Params -> Given(P)]
        BY <1>1 DEF JInv
      <4>7. Filling(P, R, F, g)
        BY <4>2
      <4>8. StepsTo(P, L, R, Q, IF Q.error THEN "raised" ELSE "final", k, f, n)
        BY ONLY <1>5, <3>2, <4>5, <4>6, <4>7, DelayRank
      <4> QED
        BY <2>1, <4>8
    <3> QED
      BY <1>6, <1>10, <3>1, <3>2
  <2>5. /\ Others(r) /\ red'[r] = Q /\ pc'[r] = m /\ pass'[r] = k /\ fires'[r] = f /\ finals'[r] = n
        /\ pc'[r] \notin {"indices", "sizes"}
    BY <1>1, <1>4, <1>8, <1>10, <2>1, <2>2, <2>3 DEF Others
  <2> QED
    BY <1>1, <1>7, <2>4, <2>5, StepWithin
<1> QED
  BY <1>4, <1>9, <1>10

\* finalize_backward: the round of the rank has ended.
LEMMA FinalizeBackwardJ ==
  ASSUME IInv, JInv, IInv', GradsShaped, NEW r \in Ranks, FinalizeBackward(r)
  PROVE  JInv'
<1>1. PICK P, L, R, k, f, n, g, Q :
        /\ P = program /\ L = Layout /\ R = red[r] /\ k = pass[r] /\ f = fires[r] /\ n = finals[r]
        /\ g = grad[r] /\ Q = FinalizedReducer(R)
  OBVIOUS
<1>2. /\ pc[r] = "final" /\ R.work = <<>> /\ red' = [red EXCEPT ![r] = Q] /\ pc' = [pc EXCEPT ![r] = "idle"]
      /\ grad' = [grad EXCEPT ![r] = FinalizedGrads(R, g)]
      /\ pass' = [pass EXCEPT ![r] = @ + 1] /\ finals' = [finals EXCEPT ![r] = @ + 1]
      /\ UNCHANGED <<program, gave, fires>>
  BY <1>1 DEF FinalizeBackward, Update, Goto
<1>3. TypedRank(P, R, "final", k, f, n) /\ JRank(P, L, R, "final", k, f, n)
  BY <1>1, <1>2, RankAt
<1>4. g \in [Params -> Given(P)] /\ R.work = <<>> /\ P = program /\ Q = FinalizedReducer(R)
  BY <1>1, <1>2 DEF JInv
<1>5. FinalizedGrads(R, g) \in [Params -> Given(P)]
  BY <1>3, <1>4, FinalGrads
<1>6. GradsTyped
  <2>1. \A s \in Ranks : grad[s] \in [Params -> Given(P)] /\ gave[s] \in [Params -> Given(P)]
    BY <1>1 DEF JInv
  <2>2. \A s \in Ranks : grad'[s] = grad[s] \/ grad'[s] = FinalizedGrads(R, g)
    BY <1>2 DEF GradsShaped
  <2>3. gave' = gave
    BY <1>2
  <2> QED
    BY <1>1, <1>5, <2>1, <2>2, <2>3 DEF GradsTyped
<1>7. Finalized(P, R, Q)
  BY <1>3, <1>4, FinalizedFacts
<1>8. TurnsTo(P, L, R, Q, "idle", k + 1, f, n, n + 1)
  <2>1. R.work = <<>>
    BY <1>4
  <2> QED
    BY ONLY <1>3, <1>7, <2>1, FinalizeRank
<1>9. /\ JRank(P, L, Q, "idle", k + 1, f, n + 1) /\ Q.done = <<>>
      /\ Rounds(Q, n + 1) = Rounds(R, n) + 1 /\ Ended(P, L, R, n)
  BY <1>8 DEF TurnsTo
<1>10. /\ DOMAIN red = Ranks /\ DOMAIN pc = Ranks /\ DOMAIN pass = Ranks /\ DOMAIN finals = Ranks
  BY DEF IInv, Shape
<1>11. /\ Others(r) /\ red'[r] = Q /\ pc'[r] = "idle" /\ pass'[r] = k + 1 /\ fires'[r] = f
       /\ finals'[r] = n + 1 /\ program' = program
  BY <1>1, <1>2, <1>10 DEF Others
<1>12. Layout' = Layout
  <2>1. Q.rebuilt = R.rebuilt /\ Q.plan = R.plan /\ Q.buckets = R.buckets
    BY <1>7 DEF Finalized
  <2>2. CASE r = Root
    BY <1>1, <1>11, <2>1, <2>2 DEF Layout
  <2>3. CASE r # Root
    BY <1>11, <2>3, LayoutKept
  <2> QED
    BY <2>2, <2>3
<1>13. Moves(P, L, R, n, Q, n + 1)
  BY <1>9 DEF Moves
<1>14. Announces(P, L, Q, n + 1)
  <2>1. TypedRank(P, Q, "idle", k + 1, f, n + 1)
    BY <1>1, <1>11, TypedAfter
  <2>2. "idle" \notin {"indices", "sizes"}
    OBVIOUS
  <2>3. JRank(P, L, Q, "idle", k + 1, f, n + 1)
    BY <1>9
  <2> QED
    BY ONLY <2>1, <2>2, <2>3, AnnouncesOut
<1> QED
  BY <1>1, <1>6, <1>9, <1>11, <1>12, <1>13, <1>14, StepJ

\* What rank 0 has issued and not sent is still what it announces.
LEMMA RetiredAnnounces ==
  ASSUME NEW P, NEW L, NEW R, NEW n, NEW Q, NEW X, Announces(P, L, R, n), Retired(R, Q, X),
         IsWorks(P, R.work), R.work # <<>>, Len(R.done) \in Nat, Len(Q.done) = Len(R.done) + 1
  PROVE  Announces(P, L, Q, n)
<1>1. Rounds(Q, n) = Rounds(R, n)
  BY DEF Retired, Alike, Rounds
<1>2. SUFFICES ASSUME Rebuilds(P, Rounds(R, n)), NEW i \in 1..Len(Q.work)
               PROVE  Q.work[i].data = Announced(L)[Len(Q.done) + i]
  BY <1>1 DEF Announces
<1>3. PICK s : s = R.work
  OBVIOUS
<1>4. s \in Seq(Range(s)) /\ s # <<>> /\ Q.work = Tail(s)
  BY <1>3 DEF IsWorks, Retired
<1>5. Len(s) \in Nat /\ Len(Tail(s)) = Len(s) - 1 /\ \A j \in 1..Len(Tail(s)) : Tail(s)[j] = s[j + 1]
  BY <1>4, HeadTailProperties
<1>6. i + 1 \in 1..Len(s) /\ i \in Nat /\ Q.work[i] = s[i + 1]
  BY <1>2, <1>4, <1>5
<1>7. s[i + 1].data = Announced(L)[Len(R.done) + (i + 1)]
  BY <1>2, <1>3, <1>6 DEF Announces
<1>8. Len(R.done) + (i + 1) = Len(Q.done) + i
  <2>1. \A a, b, j \in Nat : b = a + 1 => a + (j + 1) = b + j
    OBVIOUS
  <2>2. Len(R.done) \in Nat /\ Len(Q.done) \in Nat /\ Len(Q.done) = Len(R.done) + 1
    OBVIOUS
  <2> QED
    BY <1>6, <2>1, <2>2
<1> QED
  BY <1>6, <1>7, <1>8

\* The collective of a round is what the layout says, and its data of the type.
LEMMA OldestFacts ==
  ASSUME NEW P, NEW L, NEW R, NEW n, NEW c, NEW d, Ledger(P, L, R, n), R.work # <<>>,
         c = Rounds(R, n), d = Len(R.done)
  PROVE  Sig(R.work[1]) = RoundSigs(P, L, c)[d + 1] /\ IsWork(P, R.work[1])
<1>1. R.work \in Seq(Range(R.work))
  BY DEF Ledger, IsWorks
<1>2. 1 \in 1..Len(R.work)
  BY <1>1
<1> QED
  BY <1>2 DEF Ledger, IsWorks

\* The process group pairs the oldest collectives of the ranks.
LEMMA CollectiveJ ==
  ASSUME IInv, JInv, Collective
  PROVE  JInv'
<1>1. PICK P, L, R, n, X : P = program /\ L = Layout /\ R = red[Root] /\ n = finals[Root] /\ X = CollectiveResult
  OBVIOUS
<1>2. PICK c, d : c = Rounds(R, n) /\ d = Len(R.done)
  OBVIOUS
<1>3. Root \in Ranks
  BY RanksAssumption DEF Root
<1>4. /\ \A s \in Ranks : red[s].work # <<>>
      /\ UNCHANGED <<program, grad, gave, pc, pass, fires, finals>>
      /\ red' = [s \in Ranks |-> [red[s] EXCEPT !.work = Tail(@), !.done = Append(@, [Oldest(s) EXCEPT !.data = X])]]
  BY <1>1 DEF Collective
<1>5. \A s \in Ranks : Rounds(red[s], finals[s]) = c /\ Len(red[s].done) = d
  <2> TAKE s \in Ranks
  <2>1. PICK S, j : S = red[s] /\ j = finals[s]
    OBVIOUS
  <2>2. InRound(P, L, R, n) /\ InRound(P, L, S, j)
    BY <1>1, <1>3, <2>1, RankAt
  <2>3. Aligned(P, L, R, n, S, j)
    BY <1>1, <1>3, <2>1 DEF JInv
  <2>4. Ledger(P, L, R, n) /\ Ledger(P, L, S, j)
    BY <1>1, <1>3, <2>1 DEF JInv, JRank
  <2>5. Len(R.work) # 0 /\ Len(S.work) # 0
    <3>1. R.work \in Seq(Range(R.work)) /\ S.work \in Seq(Range(S.work))
      BY <2>4 DEF Ledger, IsWorks
    <3>2. R.work # <<>> /\ S.work # <<>>
      BY <1>1, <1>3, <1>4, <2>1
    <3> QED
      BY <3>1, <3>2
  <2>6. Rounds(R, n) = Rounds(S, j) /\ Len(R.done) = Len(S.done)
    BY ONLY <2>2, <2>3, <2>5, SameRound
  <2> QED
    BY <1>2, <2>1, <2>6
<1>6. \A s \in Ranks : Sig(Oldest(s)) = RoundSigs(P, L, c)[d + 1] /\ IsWork(P, Oldest(s))
  <2> TAKE s \in Ranks
  <2>1. PICK S, j : S = red[s] /\ j = finals[s]
    OBVIOUS
  <2>2. Ledger(P, L, S, j) /\ S.work # <<>> /\ c = Rounds(S, j) /\ d = Len(S.done)
    BY <1>1, <1>4, <1>5, <2>1 DEF JInv, JRank
  <2>3. Sig(S.work[1]) = RoundSigs(P, L, c)[d + 1] /\ IsWork(P, S.work[1])
    BY ONLY <2>2, OldestFacts
  <2> QED
    BY <2>1, <2>3 DEF Oldest
<1>7. PICK w : w = Oldest(Root)
  OBVIOUS
<1>8. \A s \in Ranks : Oldest(s).kind = w.kind /\ Oldest(s).key = w.key
  BY <1>3, <1>6, <1>7 DEF Sig
<1>9. w.kind = "bucket" => X \in [Range(w.key) -> Given(P)]
  <2> SUFFICES ASSUME w.kind = "bucket" PROVE X \in [Range(w.key) -> Given(P)]
    OBVIOUS
  <2>1. X = [p \in Range(w.key) |-> UNION {Oldest(s).data[p] : s \in Ranks}]
    BY <1>1, <1>7 DEF CollectiveResult
  <2>2. \A s \in Ranks : Oldest(s).data \in [Range(w.key) -> Given(P)]
    BY <1>6, <1>8 DEF IsWork
  <2>3. \A p \in Range(w.key) : UNION {Oldest(s).data[p] : s \in Ranks} \in Given(P)
    <3> TAKE p \in Range(w.key)
    <3>1. \A s \in Ranks : Oldest(s).data[p] \in Given(P)
      BY <2>2
    <3> QED
      BY <3>1 DEF Given
  <2> QED
    BY <2>1, <2>3
<1>10. w.kind = "used" => X \subseteq Params
  <2> SUFFICES ASSUME w.kind = "used" PROVE X \subseteq Params
    OBVIOUS
  <2>1. X = UNION {Oldest(s).data : s \in Ranks}
    BY <1>1, <1>7 DEF CollectiveResult
  <2>2. \A s \in Ranks : Oldest(s).data \subseteq Params
    BY <1>6, <1>8 DEF IsWork
  <2> QED
    BY <2>1, <2>2
<1>11. R.work # <<>> /\ Announces(P, L, R, n) /\ Ledger(P, L, R, n) /\ w = R.work[1]
  BY <1>1, <1>3, <1>4, <1>7 DEF JInv, JRank, Oldest
<1>12. IsWorks(P, R.work) /\ IsWorks(P, R.done) /\ d + Len(R.work) \leq Len(RoundSigs(P, L, c))
  BY <1>2, <1>11 DEF Ledger
<1>13. d \in Nat /\ Len(R.work) \in Nat \ {0}
  <2>1. R.work \in Seq(Range(R.work)) /\ R.done \in Seq(Range(R.done))
    BY <1>12 DEF IsWorks
  <2> QED
    BY <1>2, <1>11, <2>1
<1>14. Rebuilds(P, c) => X = Announced(L)[d + 1]
  <2> SUFFICES ASSUME Rebuilds(P, c) PROVE X = Announced(L)[d + 1]
    OBVIOUS
  <2>1. PICK q : q = RoundSigs(P, L, c)
    OBVIOUS
  <2>2. Len(q) = 2 /\ q[1] = <<"indices", <<Cardinality(Params) + 1>>>> /\ q[2] = <<"sizes", <<Len(L)>>>>
    BY <2>1, RebuildRound
  <2>3. d + 1 = 1 \/ d + 1 = 2
    BY <1>12, <1>13, <2>1, <2>2
  <2>4. Sig(w) = q[d + 1]
    BY <1>3, <1>6, <1>7, <2>1
  <2>5. w.kind = "indices" \/ w.kind = "sizes"
    BY <2>2, <2>3, <2>4 DEF Sig
  <2>6. w.kind # "bucket" /\ w.kind # "used"
    BY <2>5
  <2>7. X = w.data
    BY <1>1, <1>7, <2>6 DEF CollectiveResult
  <2>8. 1 \in 1..Len(R.work)
    BY <1>13
  <2>9. R.work[1].data = Announced(L)[Len(R.done) + 1]
    BY <1>2, <1>11, <2>8 DEF Announces
  <2> QED
    BY <1>2, <1>11, <2>7, <2>9
<1>15. \A s \in Ranks : Retired(red[s], red'[s], X)
  <2> TAKE s \in Ranks
  <2>1. PICK S, t, u : S = red[s] /\ t = Tail(S.work) /\ u = Append(S.done, [S.work[1] EXCEPT !.data = X])
    OBVIOUS
  <2>2. red'[s] = [S EXCEPT !.work = t, !.done = u]
    BY <1>4, <2>1 DEF Oldest
  <2>3. DOMAIN S = Fields
    BY <2>1 DEF IInv, RankTypes
  <2>4. PICK Q : Q = red'[s]
    OBVIOUS
  <2>5. Alike(S, Q)
    BY <2>2, <2>3, <2>4 DEF Alike, Fields
  <2>6. Q.work = t /\ Q.done = u
    BY <2>2, <2>3, <2>4 DEF Fields
  <2> QED
    BY <2>1, <2>4, <2>5, <2>6 DEF Retired
<1>16. \A s \in Ranks : /\ JRank(P, L, red'[s], pc[s], pass[s], fires[s], finals[s])
                        /\ Len(red'[s].done) = d + 1
  <2> TAKE s \in Ranks
  <2>1. PICK S, l, k, f, j, Q :
          /\ S = red[s] /\ l = pc[s] /\ k = pass[s] /\ f = fires[s] /\ j = finals[s]
          /\ Q = red'[s]
    OBVIOUS
  <2>2. JRank(P, L, S, l, k, f, j) /\ S.work # <<>> /\ Retired(S, Q, X)
    BY <1>1, <1>4, <1>15, <2>1 DEF JInv
  <2>3. Rounds(S, j) = c /\ Len(S.done) = d /\ S.work[1].kind = w.kind /\ S.work[1].key = w.key
    BY <1>5, <1>8, <2>1 DEF Oldest
  <2>4. IsResult(P, L, S, j, X)
    BY <1>9, <1>10, <1>14, <2>3 DEF IsResult
  <2>5. JRank(P, L, Q, l, k, f, j) /\ Len(Q.done) = Len(S.done) + 1
    BY ONLY <2>2, <2>4, RetireRank
  <2> QED
    BY <2>1, <2>3, <2>5
<1>17. \A s \in Ranks : Rounds(red'[s], finals[s]) = c
  <2> TAKE s \in Ranks
  <2>1. red'[s].rebuilt = red[s].rebuilt
    BY <1>15 DEF Retired, Alike
  <2> QED
    BY <1>5, <2>1 DEF Rounds
<1>18. Layout' = Layout
  <2>1. Alike(red[Root], red'[Root])
    BY <1>3, <1>15 DEF Retired
  <2> QED
    BY <2>1 DEF Layout, Alike
<1>19. Announces(P, L, red'[Root], n)
  <2>1. PICK Q : Q = red'[Root]
    OBVIOUS
  <2>2. Retired(R, Q, X) /\ Len(Q.done) = Len(R.done) + 1 /\ Len(R.done) \in Nat
    BY <1>1, <1>2, <1>3, <1>13, <1>15, <1>16, <2>1
  <2>3. Announces(P, L, Q, n)
    BY ONLY <1>11, <1>12, <2>2, RetiredAnnounces
  <2> QED
    BY <2>1, <2>3
<1>20. \A s, t \in Ranks : Aligned(P, L, red'[s], finals[s], red'[t], finals[t])
  BY <1>16, <1>17 DEF Aligned
<1>21. \A s \in Ranks : grad[s] \in [Params -> Given(P)] /\ gave[s] \in [Params -> Given(P)]
  BY <1>1 DEF JInv
<1>22. /\ P = program' /\ L = Layout' /\ n = finals'[Root] /\ pc' = pc /\ pass' = pass /\ fires' = fires
       /\ finals' = finals /\ grad' = grad /\ gave' = gave
  BY <1>1, <1>4, <1>18
<1>23. \A s \in Ranks : JRank(P, L, red'[s], pc'[s], pass'[s], fires'[s], finals'[s])
  BY <1>16, <1>22
<1>24. \A s, t \in Ranks : Aligned(P, L, red'[s], finals'[s], red'[t], finals'[t])
  BY <1>20, <1>22
<1>25. Announces(P, L, red'[Root], finals'[Root])
  BY <1>19, <1>22
<1>26. \A s \in Ranks : grad'[s] \in [Params -> Given(P)] /\ gave'[s] \in [Params -> Given(P)]
  BY <1>21, <1>22
<1>27. P = program' /\ L = Layout'
  BY <1>22
<1> QED
  BY <1>23, <1>24, <1>25, <1>26, <1>27 DEF JInv

-----------------------------------------------------------------------------
(* The collectives of the ranks match.                                       *)

\* The variables that are tables of the ranks.
Tables ==
  /\ GradsShaped
  /\ pc = [s \in Ranks |-> pc[s]] /\ pass = [s \in Ranks |-> pass[s]]
  /\ graph = [s \in Ranks |-> graph[s]] /\ fires = [s \in Ranks |-> fires[s]]

\* w is the table v with an entry assigned, or v itself.
Assigned(v, w) == w = v \/ \E r, m : w = [v EXCEPT ![r] = m]

\* It is a table of the ranks still.
LEMMA AssignedTable ==
  ASSUME NEW v, NEW w, v = [s \in Ranks |-> v[s]], Assigned(v, w)
  PROVE  w = [s \in Ranks |-> w[s]]
  BY DEF Assigned

\* With an entry for every rank.
LEMMA AssignedDomain ==
  ASSUME NEW v, NEW w, DOMAIN v = Ranks, Assigned(v, w)
  PROVE  DOMAIN w = Ranks
  BY DEF Assigned

\* Every step assigns entries of the tables.
LEMMA StepAssigns ==
  ASSUME [Next]_vars
  PROVE  /\ Assigned(pc, pc') /\ Assigned(pass, pass') /\ Assigned(graph, graph') /\ Assigned(fires, fires')
         /\ Assigned(grad, grad') /\ Assigned(gave, gave')
<1>1. CASE UNCHANGED vars \/ Collective
  BY <1>1 DEF vars, Collective, Assigned
<1>2. ASSUME NEW r \in Ranks, Forward(r)
      PROVE  /\ Assigned(pc, pc') /\ Assigned(pass, pass') /\ Assigned(graph, graph')
             /\ Assigned(fires, fires') /\ Assigned(grad, grad') /\ Assigned(gave, gave')
  <2>1. Assigned(pc, pc')
    BY <1>2 DEF Forward, Goto, GotoUnless, Assigned
  <2>2. Assigned(grad, grad') /\ Assigned(gave, gave')
    BY <1>2 DEF Forward, Assigned
  <2> QED
    BY <1>2, <2>1, <2>2 DEF Forward, Assigned
<1>3. ASSUME NEW r \in Ranks, SyncBucketIndices(r) \/ InitializeBuckets(r)
      PROVE  /\ Assigned(pc, pc') /\ Assigned(pass, pass') /\ Assigned(graph, graph')
             /\ Assigned(fires, fires') /\ Assigned(grad, grad') /\ Assigned(gave, gave')
  BY <1>3 DEF SyncBucketIndices, InitializeBuckets, Goto, GotoUnless, Assigned
<1>4. ASSUME NEW r \in Ranks, Backward(r)
      PROVE  /\ Assigned(pc, pc') /\ Assigned(pass, pass') /\ Assigned(graph, graph')
             /\ Assigned(fires, fires') /\ Assigned(grad, grad') /\ Assigned(gave, gave')
  <2>1. Assigned(pc, pc') /\ Assigned(pass, pass') /\ Assigned(graph, graph')
    BY <1>4 DEF Backward, Goto, Assigned
  <2>2. Assigned(fires, fires')
    BY <1>4 DEF Backward, Assigned
  <2> QED
    BY <1>4, <2>1, <2>2 DEF Backward, Assigned
<1>5. ASSUME NEW r \in Ranks, NEW p \in Params, Hook(r, p)
      PROVE  /\ Assigned(pc, pc') /\ Assigned(pass, pass') /\ Assigned(graph, graph')
             /\ Assigned(fires, fires') /\ Assigned(grad, grad') /\ Assigned(gave, gave')
  <2>1. PICK w : /\ grad' = [grad EXCEPT ![r][p] = @ \cup w] /\ gave' = [gave EXCEPT ![r][p] = @ \cup w]
    BY <1>5 DEF Hook
  <2>2. PICK a, b, h : a = [grad[r] EXCEPT ![p] = @ \cup w] /\ b = [gave[r] EXCEPT ![p] = @ \cup w]
                       /\ h = [fires[r] EXCEPT ![p] = @ - 1]
    OBVIOUS
  <2>3. grad' = [grad EXCEPT ![r] = a] /\ gave' = [gave EXCEPT ![r] = b]
    BY <2>1, <2>2
  <2>4. fires' = [fires EXCEPT ![r] = h]
    BY <1>5, <2>2 DEF Hook
  <2>5. Assigned(pc, pc') /\ Assigned(pass, pass') /\ Assigned(graph, graph')
    BY <1>5 DEF Hook, GotoUnless, Goto, Assigned
  <2> QED
    BY <2>3, <2>4, <2>5 DEF Assigned
<1>6. ASSUME NEW r \in Ranks, EndBackward(r)
      PROVE  /\ Assigned(pc, pc') /\ Assigned(pass, pass') /\ Assigned(graph, graph')
             /\ Assigned(fires, fires') /\ Assigned(grad, grad') /\ Assigned(gave, gave')
  <2>1. Assigned(pc, pc') /\ Assigned(pass, pass')
    BY <1>6 DEF EndBackward, GotoUnless, Goto, Assigned
  <2> QED
    BY <1>6, <2>1 DEF EndBackward, Assigned
<1>7. ASSUME NEW r \in Ranks, FinalizeBackward(r)
      PROVE  /\ Assigned(pc, pc') /\ Assigned(pass, pass') /\ Assigned(graph, graph')
             /\ Assigned(fires, fires') /\ Assigned(grad, grad') /\ Assigned(gave, gave')
  BY <1>7 DEF FinalizeBackward, Goto, Assigned
<1> QED
  BY <1>1, <1>2, <1>3, <1>4, <1>5, <1>6, <1>7 DEF Next, Step

\* The tables stay tables of the ranks.
LEMMA TablesNext == Tables /\ [Next]_vars => Tables'
<1> SUFFICES ASSUME Tables, [Next]_vars PROVE Tables'
  OBVIOUS
<1>1. /\ Assigned(pc, pc') /\ Assigned(pass, pass') /\ Assigned(graph, graph') /\ Assigned(fires, fires')
      /\ Assigned(grad, grad') /\ Assigned(gave, gave')
  BY StepAssigns
<1>2. PICK a, b, c, d : a = pc' /\ b = pass' /\ c = graph' /\ d = fires'
  OBVIOUS
<1>3. Assigned(pc, a) /\ Assigned(pass, b) /\ Assigned(graph, c) /\ Assigned(fires, d)
  BY <1>1, <1>2
<1>4. /\ pc = [s \in Ranks |-> pc[s]] /\ pass = [s \in Ranks |-> pass[s]]
      /\ graph = [s \in Ranks |-> graph[s]] /\ fires = [s \in Ranks |-> fires[s]]
  BY DEF Tables
<1>5. a = [s \in Ranks |-> a[s]]
  BY <1>3, <1>4, AssignedTable
<1>6. b = [s \in Ranks |-> b[s]]
  BY <1>3, <1>4, AssignedTable
<1>7. c = [s \in Ranks |-> c[s]]
  BY <1>3, <1>4, AssignedTable
<1>8. d = [s \in Ranks |-> d[s]]
  BY <1>3, <1>4, AssignedTable
<1>9. DOMAIN grad' = Ranks
  BY <1>1, AssignedDomain DEF Tables, GradsShaped
<1>10. DOMAIN gave' = Ranks
  BY <1>1, AssignedDomain DEF Tables, GradsShaped
<1> QED
  BY <1>2, <1>5, <1>6, <1>7, <1>8, <1>9, <1>10 DEF Tables, GradsShaped

\* No rank has issued a collective.
LEMMA InitialRank ==
  ASSUME NEW P \in Programs, NEW L
  PROVE  JRank(P, L, NewReducer, "idle", 0, [p \in Params |-> 0], 0)
<1>1. PICK R, f : R = NewReducer /\ f = [p \in Params |-> 0]
  OBVIOUS
<1>2. /\ R.iterations = 0 /\ R.expect = FALSE /\ R.finalize = FALSE /\ R.buckets = InitialBuckets /\ R.next = 1
      /\ R.ready = {} /\ R.view = [p \in Params |-> {}] /\ R.unused = {} /\ R.marked = FALSE /\ R.used = {}
      /\ R.reduced = FALSE /\ R.hooks = f /\ R.left = f /\ R.order = <<>> /\ R.rebuilt = FALSE
      /\ R.plan = <<>> /\ R.callback = "none" /\ R.work = <<>> /\ R.done = <<>>
  BY <1>1 DEF NewReducer
<1>3. f \in [Params -> 0..2] /\ \A p \in Params : f[p] = 0
  BY <1>1
<1>4. Len(P.passes) \in Nat /\ First(P) \in 1..2 /\ P.mode \in Modes
  BY ProgramFacts
<1>5. Opened(P, 0) = 0
  BY OpenedFacts
<1>6. Len(InitialBuckets) \in 1..Cardinality(Params) /\ Cardinality(Params) \in Nat
  BY InitialLayout, ParamsFacts DEF IsLayout
<1>7. Typed(P, R, "idle", 0, f)
  <2>1. R.view \in [Params -> Given(P)]
    BY <1>2 DEF Given
  <2>2. R.next \in 1..Cardinality(Params) + 1 /\ R.next \leq Len(R.buckets) + 1
    BY <1>2, <1>6
  <2>3. R.hooks \in [Params -> 0..2] /\ R.left \in [Params -> 0..2] /\ R.order \in Seq(Params)
    BY <1>2, <1>3
  <2>4. 0 \in 0..Len(P.passes) /\ R.iterations \in 0..Len(P.passes)
    BY <1>2, <1>4
  <2>5. R.ready \subseteq Params /\ R.unused \subseteq Params /\ R.used \subseteq Params
    BY <1>2
  <2> QED
    BY <1>2, <1>3, <1>5, <2>1, <2>2, <2>3, <2>4, <2>5 DEF Typed
<1>8. LaidOut(L, R, "idle")
  BY <1>2 DEF LaidOut
<1>9. Rounds(R, 0) = 0
  BY <1>2 DEF Rounds
<1>10. Ledger(P, L, R, 0) /\ Issued(R) = 0
  <2>1. Rounds(R, 0) \in Nat /\ (P.mode = "unused" \/ Rounds(R, 0) \leq First(P) \/ IsLayout(L))
    BY <1>4, <1>9
  <2>2. R.done = <<>> /\ R.work = <<>>
    BY <1>2
  <2> QED
    BY <2>1, <2>2, LedgerStart
<1>11. Progress(P, L, R, "idle", 0)
  BY <1>10 DEF Progress
<1>12. Ordered(P, R, "idle", 0)
  BY <1>2, <1>4 DEF Ordered
<1>13. Marking(R, "idle")
  BY <1>2 DEF Marking, InForward
<1>14. Delays(P, R, "idle", 0, f, 0)
  <2>1. NoHooks(R) /\ R.left = [p \in Params |-> 0]
    BY <1>1, <1>2, <1>3 DEF NoHooks
  <2>2. 2..0 = {}
    OBVIOUS
  <2> QED
    BY <1>2, <2>1, <2>2 DEF Delays, AfterIgnored, InForward
<1>15. Quiet(P, R)
  BY <1>1, <1>2, <1>3 DEF Quiet, NoHooks
<1>16. Keeps(P, L, R, "idle", 0, f, 0)
  BY <1>11, <1>12, <1>13, <1>14, <1>15 DEF Keeps
<1>17. JRank(P, L, R, "idle", 0, f, 0)
  BY <1>2, <1>4, <1>7, <1>8, <1>10, <1>16 DEF JRank
<1> QED
  BY <1>1, <1>17

\* The ranks start aligned.
LEMMA InitJ == Init => JInv /\ Tables
<1> SUFFICES ASSUME Init PROVE JInv /\ Tables
  OBVIOUS
<1>1. Tables
  BY DEF Init, Tables, GradsShaped
<1>2. PICK P, L : P = program /\ L = Layout
  OBVIOUS
<1>3. P \in Programs
  BY <1>2 DEF Init
<1>4. /\ \A r \in Ranks : red[r] = NewReducer /\ pc[r] = "idle" /\ pass[r] = 0 /\ finals[r] = 0
      /\ \A r \in Ranks : fires[r] = [p \in Params |-> 0]
      /\ \A r \in Ranks : grad[r] = [p \in Params |-> {}] /\ gave[r] = [p \in Params |-> {}]
  BY DEF Init
<1>5. JRank(P, L, NewReducer, "idle", 0, [p \in Params |-> 0], 0)
  BY <1>3, InitialRank
<1>6. \A r \in Ranks : JRank(P, L, red[r], pc[r], pass[r], fires[r], finals[r])
  BY <1>4, <1>5
<1>7. \A r, s \in Ranks : Aligned(P, L, red[r], finals[r], red[s], finals[s])
  BY <1>4 DEF Aligned
<1>8. Announces(P, L, red[Root], finals[Root])
  <2>1. red[Root] = NewReducer
    BY <1>4, RanksAssumption DEF Root
  <2>2. red[Root].work = <<>>
    BY <2>1 DEF NewReducer
  <2>3. 1..Len(red[Root].work) = {}
    BY <2>2
  <2> QED
    BY <2>3 DEF Announces
<1>9. \A r \in Ranks : grad[r] \in [Params -> Given(P)] /\ gave[r] \in [Params -> Given(P)]
  BY <1>4 DEF Given
<1> QED
  BY <1>1, <1>2, <1>6, <1>7, <1>8, <1>9 DEF JInv

\* Every step keeps the invariant.
LEMMA NextJ ==
  ASSUME IInv, JInv, Tables, IInv', [Next]_vars
  PROVE  JInv'
<1>0. GradsShaped
  BY DEF Tables
<1>1. CASE UNCHANGED vars
  <2>1. UNCHANGED <<program, red, grad, gave, pc, pass, fires, finals>>
    BY <1>1 DEF vars
  <2>2. Layout' = Layout
    BY <2>1 DEF Layout
  <2> QED
    BY <2>1, <2>2 DEF JInv
<1>2. CASE Collective
  BY <1>2, CollectiveJ
<1>3. ASSUME NEW r \in Ranks, Step(r) PROVE JInv'
  <2>1. CASE Forward(r)
    BY <1>0, <2>1, ForwardJ
  <2>2. CASE SyncBucketIndices(r)
    BY <2>2, SyncBucketIndicesJ
  <2>3. CASE InitializeBuckets(r)
    BY <2>3, InitializeBucketsJ
  <2>4. CASE Backward(r)
    BY <2>4, BackwardJ
  <2>5. CASE \E p \in Params : Hook(r, p)
    BY <1>0, <2>5, HookJ
  <2>6. CASE EndBackward(r)
    BY <2>6, EndBackwardJ
  <2>7. CASE FinalizeBackward(r)
    BY <1>0, <2>7, FinalizeBackwardJ
  <2> QED
    BY <1>3, <2>1, <2>2, <2>3, <2>4, <2>5, <2>6, <2>7 DEF Step
<1> QED
  BY <1>1, <1>2, <1>3 DEF Next

\* Every parameter is in one bucket of a layout.
LEMMA LayoutCardinality ==
  ASSUME NEW B, IsLayout(B), NEW p \in Params
  PROVE  Cardinality({i \in DOMAIN B : p \in Range(B[i])}) = 1
<1>1. DOMAIN B = 1..Len(B)
  BY DEF IsLayout
<1>2. PICK i \in 1..Len(B) : p \in Range(B[i]) /\ \A k \in 1..Len(B) : p \in Range(B[k]) => k = i
  BY DEF IsLayout
<1>3. {j \in DOMAIN B : p \in Range(B[j])} = {i}
  BY <1>1, <1>2
<1> QED
  BY <1>3, FS_Singleton

\* What the two invariants say of the types.
LEMMA InvTypes ==
  ASSUME IInv, JInv, Tables
  PROVE  TypeOK
<1>1. program \in Programs
  BY DEF IInv
<1>2. \A r \in Ranks : IsGrad(grad[r]) /\ IsGrad(gave[r])
  BY DEF JInv, IsGrad, Given, Contributions
<1>3. \A r \in Ranks : /\ Typed(program, red[r], pc[r], pass[r], fires[r]) /\ IsLayout(red[r].buckets)
                       /\ pc[r] \in Locations
  <2> TAKE r \in Ranks
  <2>1. PICK P, L, R, l, k, f, n :
          P = program /\ L = Layout /\ R = red[r] /\ l = pc[r] /\ k = pass[r] /\ f = fires[r] /\ n = finals[r]
    OBVIOUS
  <2>2. TypedRank(P, R, l, k, f, n) /\ JRank(P, L, R, l, k, f, n)
    BY <2>1, RankAt
  <2>3. Typed(P, R, l, k, f) /\ LaidOut(L, R, l) /\ R.rebuilt \in BOOLEAN
    BY <2>2 DEF JRank, Typed
  <2>4. IsLayout(R.buckets)
    BY <2>3, LaidOutLayout
  <2> QED
    BY <2>1, <2>2, <2>3, <2>4 DEF TypedRank
<1>4. pc \in [Ranks -> Locations]
  <2>1. pc = [s \in Ranks |-> pc[s]]
    BY DEF Tables
  <2> QED
    BY <1>3, <2>1
<1>5. pass \in [Ranks -> 0..Len(program.passes)]
  <2>1. pass = [s \in Ranks |-> pass[s]]
    BY DEF Tables
  <2>2. \A s \in Ranks : pass[s] \in 0..Len(program.passes)
    BY <1>3 DEF Typed
  <2> QED
    BY <2>1, <2>2
<1>6. graph \in [Ranks -> Graphs[Mode]]
  <2>1. graph = [s \in Ranks |-> graph[s]]
    BY DEF Tables
  <2>2. \A s \in Ranks : graph[s] \in Graphs[Mode]
    BY DEF IInv, RankTypes, Mode
  <2> QED
    BY <2>1, <2>2
<1>7. fires \in [Ranks -> [Params -> 0..2]]
  <2>1. fires = [s \in Ranks |-> fires[s]]
    BY DEF Tables
  <2>2. \A s \in Ranks : fires[s] \in [Params -> 0..2]
    BY <1>3 DEF Typed
  <2> QED
    BY <2>1, <2>2
<1>8. \A r \in Ranks : IsGrad(red[r].view)
  BY <1>3 DEF Typed, IsGrad, Given, Contributions
<1>9. \A r \in Ranks : LET R == red[r] IN
        /\ R.iterations \in 0..Len(program.passes)
        /\ \A p \in Params : Cardinality({i \in DOMAIN R.buckets : p \in Range(R.buckets[i])}) = 1
        /\ R.next \in 1..Cardinality(Params) + 1
        /\ R.ready \cup R.unused \cup R.used \subseteq Params
        /\ R.hooks \in [Params -> 0..2] /\ R.left \in [Params -> 0..2]
        /\ R.callback \in {"none", "delay", "finalize"}
  <2> TAKE r \in Ranks
  <2>1. PICK P, R, l, k, f : P = program /\ R = red[r] /\ l = pc[r] /\ k = pass[r] /\ f = fires[r]
    OBVIOUS
  <2>2. Typed(P, R, l, k, f) /\ IsLayout(R.buckets)
    BY <1>3, <2>1
  <2>3. \A p \in Params : Cardinality({i \in DOMAIN R.buckets : p \in Range(R.buckets[i])}) = 1
    BY <2>2, LayoutCardinality
  <2>4. /\ R.iterations \in 0..Len(P.passes) /\ R.next \in 1..Cardinality(Params) + 1
        /\ R.ready \cup R.unused \cup R.used \subseteq Params
        /\ R.hooks \in [Params -> 0..2] /\ R.left \in [Params -> 0..2]
        /\ R.callback \in {"none", "delay", "finalize"}
    BY <2>2 DEF Typed
  <2> QED
    BY <2>1, <2>3, <2>4
<1> QED
  BY <1>1, <1>2, <1>4, <1>5, <1>6, <1>7, <1>8, <1>9 DEF TypeOK

\* Ranks with collectives to pair are in the same place of the same round, and the round
\* says which collectives those are.
LEMMA InvMatch ==
  ASSUME IInv, JInv, Tables
  PROVE  CollectivesMatch
<1>1. PICK P, L : P = program /\ L = Layout
  OBVIOUS
<1>2. ASSUME NEW r \in Ranks, NEW s \in Ranks, NEW i \in DOMAIN red[r].work \cap DOMAIN red[s].work,
             \A q \in Ranks : red[q].work # <<>>
      PROVE  red[r].work[i].kind = red[s].work[i].kind /\ red[r].work[i].key = red[s].work[i].key
  <2>1. PICK R, n, S, j : R = red[r] /\ n = finals[r] /\ S = red[s] /\ j = finals[s]
    OBVIOUS
  <2>2. InRound(P, L, R, n) /\ InRound(P, L, S, j)
    BY <1>1, <2>1, RankAt
  <2>3. Aligned(P, L, R, n, S, j)
    BY <1>1, <2>1 DEF JInv
  <2>4. Ledger(P, L, R, n) /\ Ledger(P, L, S, j)
    BY <1>1, <2>1 DEF JInv, JRank
  <2>5. R.work \in Seq(Range(R.work)) /\ S.work \in Seq(Range(S.work))
    BY <2>4 DEF Ledger, IsWorks
  <2>6. Len(R.work) # 0 /\ Len(S.work) # 0
    BY <1>2, <2>1, <2>5
  <2>7. Rounds(R, n) = Rounds(S, j) /\ Len(R.done) = Len(S.done)
    BY ONLY <2>2, <2>3, <2>6, SameRound
  <2>8. i \in 1..Len(R.work) /\ i \in 1..Len(S.work)
    BY <1>2, <2>1, <2>5
  <2>9. Sig(R.work[i]) = RoundSigs(P, L, Rounds(R, n))[Len(R.done) + i]
    BY <2>4, <2>8 DEF Ledger
  <2>10. Sig(S.work[i]) = RoundSigs(P, L, Rounds(S, j))[Len(S.done) + i]
    BY <2>4, <2>8 DEF Ledger
  <2>11. Sig(R.work[i]) = Sig(S.work[i])
    BY <2>7, <2>9, <2>10
  <2> QED
    BY <2>1, <2>11 DEF Sig
<1>3. TypeOK
  BY InvTypes
<1> QED
  BY <1>2, <1>3 DEF CollectivesMatch

\* In every execution, what each rank has issued and completed is a prefix of the collectives
\* of its round, which the program and the layout of rank 0 alone determine, and two ranks are
\* at most one round apart: the inductive invariant of the collectives.
THEOREM CollectivesInvariant == Spec => [](JInv /\ Tables)
<1>1. Init => JInv /\ Tables
  BY InitJ
<1>2. IInv /\ IInv' /\ (JInv /\ Tables) /\ [Next]_vars => (JInv /\ Tables)'
  BY NextJ, TablesNext
<1> QED
  BY <1>1, <1>2, ReducerInvariant, PTL DEF Spec

\* In every program and every mode, in whatever order the hooks fire on each rank, the process
\* group pairs the same collectives: all_reduce_bucket of the same bucket of the same layout,
\* the used maps, or the broadcasts of sync_bucket_indices; and every layout that a rank
\* installs has every parameter in one bucket.
THEOREM RanksMatch == Spec => []CollectivesMatch
<1>1. IInv /\ JInv /\ Tables => CollectivesMatch
  BY InvMatch
<1> QED
  BY <1>1, CollectivesInvariant, ReducerInvariant, PTL
=============================================================================
