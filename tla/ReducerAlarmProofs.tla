-------------------------- MODULE ReducerAlarmProofs --------------------------
(***************************************************************************)
(* Proofs that no check of a Reducer fails by itself: for any ranks,       *)
(* parameters and sizes, the programs and graphs that fit (Fits), and      *)
(* every order of the hooks, a rank that keeps the contract raises only    *)
(* when its number of buckets is not that of rank 0.  And proofs that the  *)
(* gradients of a synchronised pass are the sums of what all ranks         *)
(* accumulated, in the programs in which only such passes reduce (Sums).   *)
(*                                                                         *)
(* ReducerProofs says where the reductions of a rank stand.  Here the      *)
(* hooks of a backward still to fire are exactly those the Reducer waits   *)
(* for, and a parameter it calls used has a gradient (KInv); and the       *)
(* views, the collectives and their results hold what was accumulated      *)
(* (GInv).                                                                 *)
(***************************************************************************)
EXTENDS ReducerProofs

\* The programs and graphs that keep all checks of the Reducer satisfied.  No pass under
\* no_sync() follows an ignored forward: it would reduce.  In a static graph it may, and it
\* must if the first forward is ignored, so that the first iteration counts its hooks;
\* no other pass under no_sync() comes between the first and the second iteration, and no
\* output is outside of the loss.
Fits(P) ==
  IF P.mode = "static"
  THEN /\ ~Doomed(P)
       /\ \A i \in 2..Len(P.passes) :
            P.passes[i - 1] = "ignored" /\ Opened(P, i - 1) = 1 => P.passes[i] = "nosync"
       /\ \A g \in Graphs["static"] : \A p \in g.out : g.loss[p] > 0
  ELSE \A i \in 2..Len(P.passes) : P.passes[i - 1] = "ignored" => P.passes[i] # "nosync"

\* Those parameters have hooks to fire that are neither ready nor unused, one, or as many
\* as the static graph counts.
HooksExact(P, R, f) ==
  /\ \A p \in Params : f[p] = 0 <=> p \in R.ready \cup R.unused
  /\ \A p \in Params : IF P.mode = "static" THEN R.left[p] = f[p] ELSE f[p] \leq 1

\* What the first iteration of a static graph has counted, and is to count.
Counting(R, G, f) == \A p \in Params : R.hooks[p] + f[p] = G.loss[p]
CountsKnown(R, G) == \A p \in Params : R.hooks[p] = G.loss[p] /\ (p \in R.unused <=> R.hooks[p] = 0)

\* local_used_map_ is of this iteration.
MapsLocal(P, n) == P.mode = "unused" \/ (P.mode = "static" /\ n = 0)
UsedHere(R, l, g) ==
  /\ l \in Outside \/ (l = "backward" /\ ~R.expect) => R.used = {}
  /\ l = "backward" => \A p \in R.used : g[p] # {}

\* g are the gradients of the rank.
KRank(P, R, l, k, G, f, g, n) ==
  IF l = "raised" THEN Len(R.plan) \notin {0, Len(R.buckets)}
  ELSE /\ l = "idle" => ~R.finalize
       /\ l = "backward" /\ R.expect =>
            IF Deferred(P, R) THEN Counting(R, G, f) ELSE HooksExact(P, R, f)
       /\ P.mode = "static" =>
            /\ n > 0 \/ l = "final" => CountsKnown(R, G)
            /\ R.iterations > 1 => n > 0
       /\ MapsLocal(P, n) => UsedHere(R, l, g)
       /\ P.mode # "unused" /\ ~R.rebuilt /\ n = First(P) /\ l \in Outside => ~R.expect

\* The inductive invariant: while every rank keeps the contract of the mode.
KInv ==
  Fits(program) /\ ~broken =>
    \A r \in Ranks :
      KRank(program, red[r], pc[r], pass[r], graph[r], fires[r], grad[r], finals[r])

\* Q has the counts and maps of R.
SameCounts(R, Q) ==
  /\ DOMAIN Q = Fields /\ Q.error = FALSE
  /\ Q.unused = R.unused /\ Q.hooks = R.hooks
  /\ Q.iterations = R.iterations /\ Q.expect = R.expect
  /\ Q.rebuilt = R.rebuilt /\ Q.plan = R.plan /\ Q.buckets = R.buckets

\* mark_bucket_ready and the final callback leave them.
LEMMA BucketsClean ==
  ASSUME NEW R, DOMAIN R = Fields, R.error = FALSE, NEW Q, Q = AllBucketsReady(MarkBucketReady(R))
  PROVE  SameCounts(R, Q) /\ Q.used = R.used /\ Q.left = R.left /\ Q.ready = R.ready /\ Q.marked = R.marked
<1>1. PICK B : B = MarkBucketReady(R)
  OBVIOUS
<1>2. PICK j, w : MarkBucketReady(R) = [R EXCEPT !.next = j, !.work = w]
  BY DEF MarkBucketReady
<1>3. SameCounts(R, B) /\ B.used = R.used /\ B.left = R.left /\ B.ready = R.ready /\ B.marked = R.marked
  BY <1>1, <1>2 DEF SameCounts, Fields
<1>4. CASE B.next \leq Len(B.buckets)
  <2>1. Q = B
    BY <1>1, <1>4 DEF AllBucketsReady
  <2> QED
    BY <2>1, <1>3
<1>5. CASE ~(B.next \leq Len(B.buckets))
  <2>1. PICK v : Q = [B EXCEPT !.callback = "finalize", !.work = v]
    BY <1>1, <1>5 DEF AllBucketsReady
  <2>2. DOMAIN B = Fields
    BY <1>3 DEF SameCounts
  <2>3. SameCounts(B, Q) /\ Q.used = B.used /\ Q.left = B.left /\ Q.ready = B.ready /\ Q.marked = B.marked
    BY <2>1, <2>2, <1>3 DEF SameCounts, Fields
  <2> QED
    BY <2>3, <1>3 DEF SameCounts
<1> QED
  BY <1>4, <1>5

\* No parameter of S without a gradient is marked as used, where it is checked.
Defined(R, g, S) ==
  DynamicFindUnused \/ StaticFirst(R) => \A q \in S : q \in R.used => g[q] # {}

\* The parameters of S are marked.
MarkedCleanly(R, Q, S) ==
  SameCounts(R, Q) /\ Q.used = R.used /\ Q.left = R.left /\ Q.ready = R.ready \cup S

\* mark_variable_ready of parameters that are not ready, with gradients where the used map
\* says so, fails no check.
LEMMA MarkClean ==
  ASSUME NEW R, DOMAIN R = Fields, R.error = FALSE, NEW g, NEW S, S \cap R.ready = {},
         Defined(R, g, S)
  PROVE  MarkedCleanly(R, MarkVariablesReady(R, g, S), S)
<1>0. PICK Q : Q = MarkVariablesReady(R, g, S)
  OBVIOUS
<1>1. CASE S = {}
  <2>1. Q = R
    BY <1>0, <1>1 DEF MarkVariablesReady
  <2> QED
    BY <2>1, <1>0, <1>1 DEF SameCounts, MarkedCleanly
<1>2. CASE S # {}
  <2>1. PICK T : T = [R EXCEPT !.ready = @ \cup S, !.finalize = TRUE]
    OBVIOUS
  <2>2. /\ SameCounts(R, T) /\ T.used = R.used /\ T.left = R.left /\ T.ready = R.ready \cup S
        /\ T.marked = R.marked
    BY <2>1 DEF SameCounts, Fields
  <2>3. DOMAIN T = Fields /\ T.iterations = R.iterations
    BY <2>2 DEF SameCounts
  <2>4. PICK H : H = MarkVariablesReadyDense(T, g, S)
    OBVIOUS
  <2>5. ~((DynamicFindUnused \/ StaticFirst(T)) /\ \E q \in S : g[q] = {} /\ q \in T.used)
    BY <2>2, <2>3 DEF StaticFirst, Defined
  <2>6. PICK v : H = [T EXCEPT !.view = v, !.error = FALSE]
    BY <2>4, <2>5 DEF MarkVariablesReadyDense
  <2>7. SameCounts(T, H) /\ H.used = T.used /\ H.left = T.left /\ H.ready = T.ready /\ H.marked = T.marked
    BY <2>3, <2>6 DEF SameCounts, Fields
  <2>8. DOMAIN H = Fields /\ H.error = FALSE
    BY <2>7 DEF SameCounts
  <2>9. Q = AllBucketsReady(MarkBucketReady(H))
    BY <1>0, <1>2, <2>1, <2>4, <2>8 DEF MarkVariablesReady
  <2>10. SameCounts(H, Q) /\ Q.used = H.used /\ Q.left = H.left /\ Q.ready = H.ready /\ Q.marked = H.marked
    BY <2>8, <2>9, BucketsClean
  <2> QED
    BY <2>2, <2>7, <2>10, <1>0 DEF SameCounts, MarkedCleanly
<1> QED
  BY <1>1, <1>2

\* autograd_hook marks a parameter that is neither ready nor unused.
LEMMA HookedClean ==
  ASSUME NEW R, DOMAIN R = Fields, R.error = FALSE, NEW g, NEW p, p \notin R.ready,
         Defined(R, g, {p})
  PROVE  MarkedCleanly(R, MarkHooked(R, g, p), {p})
<1>0. PICK Q : Q = MarkHooked(R, g, p)
  OBVIOUS
<1>1. PICK T : T = PushRebuilt(R, <<p>>)
  OBVIOUS
<1>2. SameCounts(R, T) /\ T.used = R.used /\ T.left = R.left /\ T.ready = R.ready
  <2>1. CASE ShouldRebuild(R)
    <3>1. PICK o : T = [R EXCEPT !.order = o]
      BY <1>1, <2>1 DEF PushRebuilt
    <3> QED
      BY <3>1 DEF SameCounts, Fields
  <2>2. CASE ~ShouldRebuild(R)
    BY <1>1, <2>2 DEF PushRebuilt, SameCounts
  <2> QED
    BY <2>1, <2>2
<1>3. DOMAIN T = Fields /\ T.error = FALSE /\ T.iterations = R.iterations
  BY <1>2 DEF SameCounts
<1>4. Q = MarkVariablesReady(T, g, {p})
  BY <1>0, <1>1 DEF MarkHooked
<1>5. {p} \cap T.ready = {}
  BY <1>2
<1>6. Defined(T, g, {p})
  BY <1>2, <1>3 DEF StaticFirst, Defined
<1>7. MarkedCleanly(T, Q, {p})
  BY <1>3, <1>4, <1>5, <1>6, MarkClean
<1> QED
  BY <1>0, <1>2, <1>7 DEF SameCounts, MarkedCleanly

\* The state in which a hook finds the Reducer: the unused parameters are marked already or
\* nothing is.
Expecting(P, R, g) ==
  /\ DOMAIN R = Fields /\ R.error = FALSE /\ R.expect /\ ~Deferred(P, R)
  /\ R.marked \in BOOLEAN /\ R.left \in [Params -> 0..2]
  /\ IF R.marked THEN R.unused \subseteq R.ready ELSE R.ready = {}
  /\ P.mode = "unused" => \A q \in R.used : g[q] # {}

\* What a hook of p does that fails no check.
CleanHook(P, R, Q, g, p) ==
  /\ SameCounts(R, Q)
  /\ Q.used = IF P.mode = "unused" /\ g[p] # {} THEN R.used \cup {p} ELSE R.used
  /\ Q.left = IF P.mode = "static" THEN [R.left EXCEPT ![p] = @ - 1] ELSE R.left
  /\ Q.ready = (R.ready \cup R.unused) \cup (IF P.mode = "static" /\ R.left[p] > 1 THEN {} ELSE {p})

\* autograd_hook of a parameter that is neither ready nor unused fails no check.
LEMMA HookClean ==
  ASSUME NEW P, P = program, NEW R, NEW g, Expecting(P, R, g), NEW p \in Params,
         p \notin R.ready \cup R.unused, P.mode = "static" => R.left[p] > 0,
         NEW Q, Q = AutogradHook(R, g, p)
  PROVE  CleanHook(P, R, Q, g, p)
<1>0. /\ DOMAIN R = Fields /\ R.error = FALSE /\ R.expect /\ ~Deferred(P, R)
      /\ R.marked \in BOOLEAN /\ R.left \in [Params -> 0..2]
      /\ IF R.marked THEN R.unused \subseteq R.ready ELSE R.ready = {}
      /\ P.mode = "unused" => \A q \in R.used : g[q] # {}
  BY DEF Expecting
<1>1. PICK A : A = MarkUsed(R, g, p)
  OBVIOUS
<1>2. PICK B : B = MarkUnused(A, g)
  OBVIOUS
<1>3. Q = HookMarks(B, g, p)
  BY <1>0, <1>1, <1>2 DEF AutogradHook, StaticFirst, Mode, Deferred
<1>4. /\ SameCounts(R, A) /\ A.left = R.left /\ A.ready = R.ready /\ A.marked = R.marked
      /\ A.used = IF P.mode = "unused" /\ g[p] # {} THEN R.used \cup {p} ELSE R.used
  <2>1. CASE P.mode = "unused" /\ g[p] # {}
    <3>1. A = [R EXCEPT !.used = R.used \cup {p}]
      BY <1>1, <2>1 DEF MarkUsed, DynamicFindUnused, Mode
    <3> QED
      BY <3>1, <2>1, <1>0 DEF SameCounts, Fields
  <2>2. CASE ~(P.mode = "unused" /\ g[p] # {})
    <3>1. A = R
      BY <1>0, <1>1, <2>2 DEF MarkUsed, DynamicFindUnused, StaticFirst, Mode, Deferred
    <3> QED
      BY <3>1, <2>2, <1>0 DEF SameCounts
  <2> QED
    BY <2>1, <2>2
<1>5. DOMAIN A = Fields /\ A.error = FALSE /\ A.unused = R.unused /\ A.iterations = R.iterations
  BY <1>4 DEF SameCounts
<1>6. ~(P.mode = "static" /\ R.iterations = 1)
  BY <1>0 DEF Deferred
<1>7. P.mode = "unused" => \A q \in A.used : g[q] # {}
  BY <1>0, <1>4
<1>8. /\ SameCounts(A, B) /\ B.used = A.used /\ B.left = A.left /\ B.ready = A.ready \cup A.unused
  <2>1. CASE A.marked
    <3>1. B = A
      BY <1>2, <2>1 DEF MarkUnused
    <3>2. A.unused \subseteq A.ready
      BY <1>0, <1>4, <1>5, <2>1
    <3> QED
      BY <3>1, <3>2, <1>5 DEF SameCounts
  <2>2. CASE ~A.marked
    <3>1. PICK T : T = [A EXCEPT !.marked = TRUE]
      OBVIOUS
    <3>2. B = MarkVariablesReady(T, g, A.unused)
      BY <1>2, <2>2, <3>1 DEF MarkUnused
    <3>3. SameCounts(A, T) /\ T.used = A.used /\ T.left = A.left /\ T.ready = A.ready
      BY <3>1, <1>5 DEF SameCounts, Fields
    <3>4. DOMAIN T = Fields /\ T.error = FALSE /\ T.iterations = R.iterations
      BY <3>3, <1>5 DEF SameCounts
    <3>5. A.unused \cap T.ready = {}
      BY <3>3, <1>4, <1>0, <2>2
    <3>6. Defined(T, g, A.unused)
      BY <3>3, <3>4, <1>6, <1>7 DEF Defined, DynamicFindUnused, StaticFirst, Mode
    <3>7. MarkedCleanly(T, B, A.unused)
      BY <3>2, <3>4, <3>5, <3>6, MarkClean
    <3> QED
      BY <3>3, <3>7 DEF SameCounts, MarkedCleanly
  <2> QED
    BY <2>1, <2>2
<1>9. /\ DOMAIN B = Fields /\ B.error = FALSE /\ B.iterations = R.iterations /\ B.used = A.used
      /\ B.left = R.left /\ B.ready = R.ready \cup R.unused /\ p \notin B.ready /\ SameCounts(R, B)
  BY <1>4, <1>5, <1>8 DEF SameCounts
<1>10. CASE P.mode # "static"
  <2>1. Q = MarkHooked(B, g, p)
    BY <1>3, <1>9, <1>10 DEF HookMarks, Mode
  <2>2. Defined(B, g, {p})
    BY <1>7, <1>9, <1>10 DEF Defined, DynamicFindUnused, StaticFirst, Mode
  <2>0. DOMAIN B = Fields /\ B.error = FALSE /\ p \notin B.ready
    BY <1>9
  <2>3a. MarkedCleanly(B, Q, {p})
    BY <2>0, <2>1, <2>2, HookedClean
  <2>3. SameCounts(B, Q) /\ Q.used = B.used /\ Q.left = B.left /\ Q.ready = B.ready \cup {p}
    BY <2>3a DEF MarkedCleanly
  <2>4. SameCounts(R, Q)
    BY <1>9, <2>3 DEF SameCounts
  <2> QED
    BY <2>3, <2>4, <1>4, <1>9, <1>10 DEF CleanHook
<1>11. CASE P.mode = "static"
  <2>1. Q = CountHook(B, g, p)
    BY <1>3, <1>9, <1>11 DEF HookMarks, Mode
  <2>2. R.left[p] \in 0..2 /\ R.left[p] > 0 /\ B.left[p] = R.left[p]
    BY <1>0, <1>9, <1>11
  <2>3. CASE R.left[p] > 1
    <3>1. Q = [B EXCEPT !.left = [B.left EXCEPT ![p] = @ - 1]]
      BY <2>1, <2>2, <2>3 DEF CountHook
    <3>2. SameCounts(B, Q) /\ Q.used = B.used /\ Q.ready = B.ready /\ Q.left = [B.left EXCEPT ![p] = @ - 1]
      BY <3>1, <1>9 DEF SameCounts, Fields
    <3>3. SameCounts(R, Q)
      BY <1>9, <3>2 DEF SameCounts
    <3> QED
      BY <3>2, <3>3, <1>4, <1>9, <1>11, <2>3 DEF CleanHook
  <2>4. CASE ~(R.left[p] > 1)
    <3>1. R.left[p] = 1
      BY <2>2, <2>4
    <3>2. PICK T : T = [B EXCEPT !.left = [B.left EXCEPT ![p] = 0]]
      OBVIOUS
    <3>3. Q = MarkHooked(T, g, p)
      BY <2>1, <2>2, <3>1, <3>2 DEF CountHook
    <3>4. SameCounts(B, T) /\ T.used = B.used /\ T.ready = B.ready /\ T.left = [B.left EXCEPT ![p] = 0]
      BY <3>2, <1>9 DEF SameCounts, Fields
    <3>5. DOMAIN T = Fields /\ T.error = FALSE /\ T.iterations = R.iterations /\ p \notin T.ready
      BY <3>4, <1>9 DEF SameCounts
    <3>6. Defined(T, g, {p})
      BY <3>5, <1>6, <1>11 DEF Defined, DynamicFindUnused, StaticFirst, Mode
    <3>7a. MarkedCleanly(T, Q, {p})
      BY <3>3, <3>5, <3>6, HookedClean
    <3>7. SameCounts(T, Q) /\ Q.used = T.used /\ Q.left = T.left /\ Q.ready = T.ready \cup {p}
      BY <3>7a DEF MarkedCleanly
    <3>8. SameCounts(R, Q)
      BY <1>9, <3>4, <3>7 DEF SameCounts
    <3>9. [R.left EXCEPT ![p] = 0] = [R.left EXCEPT ![p] = @ - 1]
      BY <3>1
    <3> QED
      BY <3>4, <3>7, <3>8, <3>9, <1>4, <1>9, <1>11, <2>4 DEF CleanHook
  <2> QED
    BY <2>3, <2>4
<1> QED
  BY <1>10, <1>11

\* What the invariants say of a rank, whose gradients are g.
Sits(P, L, R, l, k, G, f, g, n) ==
  /\ TypedRank(P, R, l, k, f, n) /\ JRank(P, L, R, l, k, f, n) /\ RankInv(P, R, l, k, G, f, n)
  /\ KRank(P, R, l, k, G, f, g, n) /\ Fits(P)

\* Once a reduction was expected in a second iteration, the first one is finalized.
LEMMA SecondIteration ==
  ASSUME NEW P, NEW L, NEW R, NEW k, NEW G, NEW f, NEW g, NEW n, NEW Q,
         Sits(P, L, R, "idle", k, G, f, g, n), k < Len(P.passes), Advanced(P, R, Q, k),
         P.mode = "static", Q.iterations > 1
  PROVE  n > 0
<1>0. /\ Typed(P, R, "idle", k, f) /\ Keeps(P, L, R, "idle", k, f, n) /\ k \in Nat /\ n \in Nat
      /\ R.expect \in BOOLEAN /\ P \in Programs
  BY DEF Sits, TypedRank, JRank
<1>1. Delays(P, R, "idle", k, f, n)
  BY <1>0 DEF Keeps
<1>2. Len(P.passes) \in Nat /\ R.iterations \in Nat /\ R.iterations = Opened(P, k)
  BY <1>0, ProgramFacts DEF Typed
<1>3. R.iterations > 1 => n > 0
  BY DEF Sits, KRank
<1>4. CASE P.passes[k + 1] = "nosync"
  BY <1>3, <1>4 DEF Advanced
<1>5. CASE P.passes[k + 1] # "nosync"
  <2>1. R.iterations \geq 1
    BY <1>2, <1>5 DEF Advanced
  <2>2. CASE R.iterations = 1
    <3>1. "idle" \notin InForward /\ "idle" \notin {"backward", "final"}
      BY DEF InForward
    <3>2. R.expect => AfterIgnored(P, k)
      BY <1>1, <2>2, <3>1 DEF Delays
    <3>3. ~AfterIgnored(P, k)
      <4> SUFFICES ASSUME AfterIgnored(P, k) PROVE FALSE
        OBVIOUS
      <4>1. k > 0 /\ P.passes[k] = "ignored"
        BY DEF AfterIgnored
      <4>2. k + 1 \in 2..Len(P.passes) /\ (k + 1) - 1 = k
        BY <1>0, <1>2, <4>1
      <4>3. \A i \in 2..Len(P.passes) :
              P.passes[i - 1] = "ignored" /\ Opened(P, i - 1) = 1 => P.passes[i] = "nosync"
        BY DEF Sits, Fits
      <4> QED
        BY <1>2, <1>5, <2>2, <4>1, <4>2, <4>3
    <3>4. n = 1
      BY <1>1, <2>2, <3>1, <3>2, <3>3 DEF Delays
    <3> QED
      BY <3>4
  <2> QED
    BY <1>2, <1>3, <2>1, <2>2
<1> QED
  BY <1>4, <1>5

\* forward() has nothing to complain about.
LEMMA ForwardKRank ==
  ASSUME NEW P, NEW L, NEW R, NEW k, NEW G, NEW f, NEW g, NEW n, NEW Q, NEW m \in InForward, NEW z,
         Sits(P, L, R, "idle", k, G, f, g, n), k < Len(P.passes), Advanced(P, R, Q, k)
  PROVE  ~R.finalize /\ KRank(P, Q, m, k, G, f, z, n)
<1>1. m \in Outside /\ m \notin {"idle", "backward", "final", "raised"} /\ "idle" \in Outside
  BY DEF InForward, Outside
<1>2. /\ Q.hooks = R.hooks /\ Q.unused = R.unused /\ Q.used = R.used /\ Q.expect = R.expect
      /\ Q.rebuilt = R.rebuilt
  BY DEF Advanced
<1>3. P.mode = "static" /\ Q.iterations > 1 => n > 0
  BY SecondIteration
<1>4. KRank(P, R, "idle", k, G, f, g, n)
  BY DEF Sits
<1>5. P.mode = "static" /\ n > 0 => CountsKnown(Q, G)
  BY <1>2, <1>4 DEF KRank, CountsKnown
<1>6. MapsLocal(P, n) => UsedHere(Q, m, z)
  BY <1>1, <1>2, <1>4 DEF KRank, UsedHere
<1> QED
  BY <1>1, <1>2, <1>3, <1>4, <1>5, <1>6 DEF KRank

\* sync_bucket_indices changes nothing of it.
LEMMA AlikeKRank ==
  ASSUME NEW P, NEW R, NEW k, NEW G, NEW f, NEW g, NEW n, NEW Q, NEW l, NEW m,
         KRank(P, R, l, k, G, f, g, n), Alike(R, Q),
         m = l \/ (l = "indices" /\ m = "sizes")
  PROVE  KRank(P, Q, m, k, G, f, g, n)
<1>1. /\ Q.hooks = R.hooks /\ Q.unused = R.unused /\ Q.used = R.used /\ Q.expect = R.expect
      /\ Q.rebuilt = R.rebuilt /\ Q.plan = R.plan /\ Q.buckets = R.buckets /\ Q.finalize = R.finalize
      /\ Q.iterations = R.iterations /\ Q.ready = R.ready /\ Q.left = R.left
  BY DEF Alike
<1>2. CountsKnown(Q, G) <=> CountsKnown(R, G)
  BY <1>1 DEF CountsKnown
<1>3. (Counting(Q, G, f) <=> Counting(R, G, f)) /\ (HooksExact(P, Q, f) <=> HooksExact(P, R, f))
      /\ (Deferred(P, Q) <=> Deferred(P, R))
  BY <1>1 DEF Counting, HooksExact, Deferred
<1>4. UsedHere(R, l, g) => UsedHere(Q, m, g)
  BY <1>1 DEF UsedHere, Outside
<1>5. (m \in Outside <=> l \in Outside) /\ (m = "idle" <=> l = "idle") /\ (m = "backward" <=> l = "backward")
      /\ (m = "final" <=> l = "final") /\ (m = "raised" <=> l = "raised")
  BY DEF Outside
<1> QED
  BY <1>1, <1>2, <1>3, <1>4, <1>5 DEF KRank

\* initialize_buckets fails only for another number of buckets.
LEMMA InitializeKRank ==
  ASSUME NEW P, NEW L, NEW R, NEW k, NEW G, NEW f, NEW g, NEW n, NEW Q, NEW w,
         Sits(P, L, R, "sizes", k, G, f, g, n), R.work = <<>>, AlikeDelays(R, Q), Q.rebuilt = TRUE,
         w = (R.expect \/ Len(Q.buckets) # Len(R.plan)), w => Q.plan = R.plan
  PROVE  KRank(P, Q, IF w THEN "raised" ELSE "forward", k, G, f, g, n)
<1>1. Awaits(P, L, R, "sizes", n)
  <2>1. "sizes" \in {"indices", "sizes"} /\ TypedRank(P, R, "sizes", k, f, n) /\ JRank(P, L, R, "sizes", k, f, n)
    BY DEF Sits
  <2> QED
    BY <2>1, RebuildAwaited
<1>2. KRank(P, R, "sizes", k, G, f, g, n) /\ "sizes" \in Outside /\ "forward" \in Outside
  BY DEF Sits, Outside
<1>3. ~R.expect
  BY <1>1, <1>2 DEF Awaits, KRank
<1>4. Len(R.plan) # 0
  <2>1. Sound(Assign(R.order)) /\ R.plan = Assign(R.order)
    BY <1>1, PermSound DEF Awaits
  <2>2. Len(R.plan) \in 1..Cardinality(Params) /\ Cardinality(Params) \in Nat
    BY <2>1, ParamsFacts DEF Sound, IsLayout
  <2> QED
    BY <2>2
<1>5. CASE w
  <2>1. Len(Q.plan) # 0 /\ Len(Q.plan) # Len(Q.buckets)
    BY <1>3, <1>4, <1>5
  <2> QED
    BY <2>1, <1>5 DEF KRank
<1>6. CASE ~w
  <2>1. /\ Q.hooks = R.hooks /\ Q.unused = R.unused /\ Q.used = R.used /\ Q.expect = R.expect
        /\ Q.iterations = R.iterations
    BY DEF AlikeDelays
  <2>2. P.mode = "static" /\ n > 0 => CountsKnown(Q, G)
    BY <1>2, <2>1 DEF KRank, CountsKnown
  <2>3. MapsLocal(P, n) => UsedHere(Q, "forward", g)
    BY <1>2, <2>1 DEF KRank, UsedHere
  <2>4. KRank(P, Q, "forward", k, G, f, g, n)
    BY <1>2, <2>1, <2>2, <2>3 DEF KRank
  <2> QED
    BY <2>4, <1>6
<1> QED
  BY <1>5, <1>6

\* What is known of a rank in the call of the module.
Entered(P, R, k, G, n) ==
  /\ ~R.finalize /\ k \in Nat /\ n \in Nat /\ k < Len(P.passes) /\ Len(P.passes) \in Nat
  /\ R.iterations \in Nat /\ P.mode \in Modes
  /\ R.expect => AfterIgnored(P, k) /\ R.ready = {}
  /\ P.mode # "unused" /\ ~R.rebuilt => n # First(P)
  /\ n > 0 => k > 0
  /\ MapsLocal(P, n) => R.used = {}
  /\ P.mode = "plain" => R.unused = {}
  /\ P.mode = "static" =>
       /\ n > 0 => CountsKnown(R, G)
       /\ R.iterations > 1 => n > 0
       /\ P.passes[k + 1] # "nosync" \/ R.expect =>
            R.iterations > 0 /\ (R.iterations = 1 => NoHooks(R))
       /\ R.expect => R.left = R.hooks

\* A rank in the call of the module has finalized what it has to.
LEMMA RankEntered ==
  ASSUME NEW P, NEW L, NEW R, NEW k, NEW G, NEW f, NEW g, NEW n,
         Sits(P, L, R, "forward", k, G, f, g, n)
  PROVE  Entered(P, R, k, G, n)
<1> DEFINE l == "forward"
<1>1. /\ Typed(P, R, l, k, f) /\ Keeps(P, L, R, l, k, f, n) /\ k \in Nat /\ n \in Nat /\ P \in Programs
      /\ ~R.rebuilt /\ n = First(P) /\ P.mode # "unused" => l \in {"idle", "indices", "sizes"}
      /\ R.expect \in BOOLEAN /\ R.finalize \in BOOLEAN
  BY DEF Sits, TypedRank, JRank
<1>2. l \in InForward /\ l \in Outside /\ l \notin {"idle", "indices", "sizes", "raised"}
  BY DEF InForward, Outside
<1>3. Marking(R, l) /\ (P.mode # "static" => Quiet(P, R))
  BY <1>1 DEF Keeps
<1>4. AccountOutside(P, R, l, k, n) /\ (P.mode = "static" => Counted(P, R, l, k, G, f))
  BY <1>2 DEF Sits, RankInv
<1>5. /\ ~R.finalize /\ k < Len(P.passes) /\ n = Due(P, k) /\ (R.expect <=> AfterIgnored(P, k))
  BY <1>2, <1>4 DEF AccountOutside
<1>6. n > 0 => k > 0
  <2>1. Due(P, 0) = 0
    BY <1>1, DueNext
  <2> QED
    BY <1>1, <1>5, <2>1
<1>7. R.expect => R.ready = {}
  BY <1>3, <1>5 DEF Marking
<1>8. P.mode = "static" => Counted(P, R, l, k, G, f) /\ CountedOutside(P, R, l, k)
  BY <1>2, <1>4 DEF Counted
<1>9. P.mode = "static" =>
        /\ P.passes[k + 1] # "nosync" \/ R.expect =>
             R.iterations > 0 /\ (R.iterations = 1 => NoHooks(R))
        /\ R.expect => R.left = R.hooks
  BY <1>2, <1>5, <1>8 DEF Counted, CountedOutside
<1>10. KRank(P, R, l, k, G, f, g, n)
  BY DEF Sits
<1>11. P.mode = "static" => (n > 0 => CountsKnown(R, G)) /\ (R.iterations > 1 => n > 0)
  BY <1>10 DEF KRank
<1>12. MapsLocal(P, n) => R.used = {}
  BY <1>2, <1>10 DEF KRank, UsedHere
<1>13. P.mode = "plain" => R.unused = {}
  BY <1>3 DEF Quiet
<1>14. R.iterations \in Nat /\ Len(P.passes) \in Nat /\ P.mode \in Modes
  BY <1>1, ProgramFacts DEF Typed
<1>15. P.mode # "unused" /\ ~R.rebuilt => n # First(P)
  BY <1>1, <1>2
<1> QED
  BY <1>1, <1>5, <1>6, <1>7, <1>9, <1>11, <1>12, <1>13, <1>14, <1>15 DEF Entered

\* The output of the forward is ignored.
LEMMA IgnoredKRank ==
  ASSUME NEW P, NEW R, NEW k, NEW G, NEW f, NEW g, NEW n, NEW Q, NEW H,
         Entered(P, R, k, G, n), Primed(P, R, Q), P.mode = "static" /\ k > 0 => H = G
  PROVE  KRank(P, Q, "idle", k + 1, H, f, g, n)
<1>1. /\ Q.hooks = R.hooks /\ Q.used = R.used /\ Q.finalize = R.finalize
      /\ Q.rebuilt = R.rebuilt /\ Q.iterations = R.iterations /\ (P.mode = "static" => Q.unused = R.unused)
  BY DEF Primed
<1>2. P.mode = "static" /\ n > 0 => CountsKnown(Q, H)
  BY <1>1 DEF Entered, CountsKnown
<1>3. MapsLocal(P, n) => UsedHere(Q, "idle", g)
  BY <1>1 DEF Entered, UsedHere
<1> QED
  BY <1>1, <1>2, <1>3 DEF Entered, KRank

\* Q is R at the start of a backward through the graph H.
Opens(P, R, Q, H) ==
  /\ Q.iterations = R.iterations /\ Q.hooks = R.hooks /\ Q.used = R.used
  /\ P.mode = "static" => Q.unused = R.unused
  /\ Q.expect =>
       /\ Q.ready = {}
       /\ P.mode = "plain" => Q.unused = {} /\ \A p \in Params : H.loss[p] = 1
       /\ P.mode = "unused" =>
            Q.unused = Params \ H.out /\ \A p \in Params : H.loss[p] \leq (IF p \in H.out THEN 1 ELSE 0)
       /\ P.mode = "static" => Q.left = R.hooks /\ R.iterations > 0 /\ (R.iterations = 1 => NoHooks(R))

\* The hooks that a backward through the graph H fires, b that the outputs pass through the sink.
Sinks(b, H) == [p \in Params |-> IF b /\ H.loss[p] = 0 /\ p \in H.out THEN 1 ELSE H.loss[p]]

\* The hooks to fire are exactly those that are expected.
LEMMA OpensExact ==
  ASSUME NEW P, NEW R, NEW k, NEW G, NEW n, NEW Q, NEW H \in Graphs[P.mode],
         Entered(P, R, k, G, n), Opens(P, R, Q, H), P.mode = "static" /\ k > 0 => H = G, Fits(P), Q.expect,
         NEW b, b = (P.mode = "unused" \/ Deferred(P, R)), NEW h, h = Sinks(b, H)
  PROVE  IF Deferred(P, Q) THEN Counting(Q, H, h) ELSE HooksExact(P, Q, h)
<1>0. P.mode \in Modes /\ H \in GraphType /\ (Deferred(P, Q) <=> Deferred(P, R))
  BY GraphsAssumption DEF Entered, Opens, Deferred
<1>1. H.loss \in [Params -> 0..2] /\ \A p \in Params : H.loss[p] \in 0..2
  BY <1>0 DEF GraphType
<1>2. \A p \in Params : h[p] = IF b /\ H.loss[p] = 0 /\ p \in H.out THEN 1 ELSE H.loss[p]
  BY DEF Sinks
<1>3. CASE P.mode = "plain"
  <2>1. ~b /\ ~Deferred(P, Q)
    BY <1>0, <1>3 DEF Deferred
  <2>2. \A p \in Params : h[p] = 1
    BY <1>2, <1>3, <2>1 DEF Opens
  <2>3. HooksExact(P, Q, h)
    BY <1>3, <2>2 DEF Opens, HooksExact
  <2> QED
    BY <2>1, <2>3
<1>4. CASE P.mode = "unused"
  <2>1. b = TRUE /\ ~Deferred(P, Q)
    BY <1>0, <1>4 DEF Deferred
  <2>2. \A p \in Params : H.loss[p] \leq (IF p \in H.out THEN 1 ELSE 0)
    BY <1>4 DEF Opens
  <2>3. \A p \in Params : h[p] = IF p \in H.out THEN 1 ELSE 0
    BY <1>1, <1>2, <2>1, <2>2
  <2>4. Q.ready = {} /\ Q.unused = Params \ H.out
    BY <1>4 DEF Opens
  <2>5. HooksExact(P, Q, h)
    BY <1>4, <2>3, <2>4 DEF HooksExact
  <2> QED
    BY <2>1, <2>5
<1>5. CASE P.mode = "static"
  <2>1. \A p \in Params : h[p] = H.loss[p]
    <3>1. \A p \in H.out : H.loss[p] > 0
      BY <1>5 DEF Fits
    <3> QED
      BY <1>1, <1>2, <3>1
  <2>2. Q.hooks = R.hooks /\ Q.left = R.hooks /\ R.iterations > 0 /\ (R.iterations = 1 => NoHooks(R))
        /\ Q.iterations = R.iterations /\ Q.unused = R.unused /\ Q.ready = {}
    BY <1>5 DEF Opens
  <2>3. CASE Deferred(P, Q)
    <3>1. \A p \in Params : Q.hooks[p] = 0
      BY <2>2, <2>3 DEF Deferred, NoHooks
    <3>2. \A p \in Params : Q.hooks[p] + h[p] = H.loss[p]
      BY <1>1, <2>1, <3>1
    <3> QED
      BY <2>3, <3>2 DEF Counting
  <2>4. CASE ~Deferred(P, Q)
    <3>1. R.iterations > 1
      BY <1>5, <2>2, <2>4 DEF Deferred, Entered
    <3>2. n > 0 /\ k > 0 /\ CountsKnown(R, G)
      BY <1>5, <3>1 DEF Entered
    <3>3. \A p \in Params : R.hooks[p] = H.loss[p] /\ (p \in R.unused <=> R.hooks[p] = 0)
      BY <1>5, <3>2 DEF CountsKnown
    <3>4. HooksExact(P, Q, h)
      BY <1>5, <2>1, <2>2, <3>3 DEF HooksExact
    <3> QED
      BY <2>4, <3>4
  <2> QED
    BY <2>3, <2>4
<1> QED
  BY <1>0, <1>3, <1>4, <1>5 DEF Modes

\* The engine starts a backward.
LEMMA BackwardKRank ==
  ASSUME NEW P, NEW R, NEW k, NEW G, NEW n, NEW Q, NEW H \in Graphs[P.mode], NEW g,
         Entered(P, R, k, G, n), Opens(P, R, Q, H), P.mode = "static" /\ k > 0 => H = G, Fits(P),
         NEW b, b = (P.mode = "unused" \/ Deferred(P, R)), NEW h, h = Sinks(b, H)
  PROVE  KRank(P, Q, "backward", k, H, h, g, n)
<1>1. Q.expect => IF Deferred(P, Q) THEN Counting(Q, H, h) ELSE HooksExact(P, Q, h)
  BY OpensExact
<1>2. Q.iterations = R.iterations /\ Q.hooks = R.hooks /\ Q.used = R.used
      /\ (P.mode = "static" => Q.unused = R.unused)
  BY DEF Opens
<1>3. P.mode = "static" /\ n > 0 => CountsKnown(Q, H)
  BY <1>2 DEF Entered, CountsKnown
<1>4. MapsLocal(P, n) => UsedHere(Q, "backward", g)
  BY <1>2 DEF Entered, UsedHere
<1>5. "backward" \notin Outside
  BY DEF Outside
<1> QED
  BY <1>1, <1>2, <1>3, <1>4, <1>5 DEF Entered, KRank

\* After prepare_for_backward.
LEMMA PrimedOpens ==
  ASSUME NEW P, NEW R, NEW k, NEW G, NEW n, NEW Q, NEW H, Entered(P, R, k, G, n), Primed(P, R, Q),
         P.passes[k + 1] # "nosync",
         P.mode = "plain" => \A p \in Params : H.loss[p] = 1,
         P.mode = "unused" =>
           Q.unused = Params \ H.out /\ \A p \in Params : H.loss[p] \leq (IF p \in H.out THEN 1 ELSE 0)
  PROVE  Opens(P, R, Q, H)
<1>1. P.mode = "static" => R.iterations > 0 /\ (R.iterations = 1 => NoHooks(R))
  BY DEF Entered
<1>2. P.mode = "plain" => R.unused = {}
  BY DEF Entered
<1> QED
  BY <1>1, <1>2 DEF Opens, Primed

\* Under no_sync(), after a forward of a static graph that was ignored.
LEMMA RecalledOpens ==
  ASSUME NEW P, NEW R, NEW k, NEW G, NEW n, NEW Q, NEW H, Entered(P, R, k, G, n), Recalled(R, Q),
         P.passes[k + 1] = "nosync", Fits(P)
  PROVE  Opens(P, R, Q, H)
<1>1. R.expect => P.mode = "static"
  <2> SUFFICES ASSUME R.expect, P.mode # "static" PROVE FALSE
    OBVIOUS
  <2>1. k > 0 /\ P.passes[k] = "ignored" /\ k \in Nat /\ k < Len(P.passes) /\ Len(P.passes) \in Nat
    BY DEF Entered, AfterIgnored
  <2>2. k + 1 \in 2..Len(P.passes) /\ (k + 1) - 1 = k
    BY <2>1
  <2>3. \A i \in 2..Len(P.passes) : P.passes[i - 1] = "ignored" => P.passes[i] # "nosync"
    BY DEF Fits
  <2> QED
    BY <2>1, <2>2, <2>3
<1>2. R.expect => /\ R.ready = {} /\ R.left = R.hooks /\ R.iterations > 0
                  /\ R.iterations = 1 => NoHooks(R)
  BY <1>1 DEF Entered
<1> QED
  BY <1>1, <1>2 DEF Opens, Recalled

\* A hook of the first iteration of a static graph counts.
LEMMA CountedHook ==
  ASSUME NEW P, P = program, NEW R, NEW g, NEW p \in Params, NEW Q, Q = AutogradHook(R, g, p),
         DOMAIN R = Fields, R.error = FALSE, R.expect, Deferred(P, R), R.hooks \in [Params -> 0..2]
  PROVE  /\ SameCounts([R EXCEPT !.hooks = [R.hooks EXCEPT ![p] = @ + 1]], Q)
         /\ Q.used \subseteq R.used \cup (IF g[p] = {} THEN {} ELSE {p})
<1>1. PICK A, c : A = MarkUsed(R, g, p) /\ c = [A.hooks EXCEPT ![p] = @ + 1]
  OBVIOUS
<1>2. Q = [A EXCEPT !.hooks = c]
  BY <1>1 DEF AutogradHook, StaticFirst, Mode, Deferred
<1>3. SameCounts(R, A) /\ A.used \subseteq R.used \cup (IF g[p] = {} THEN {} ELSE {p})
  <2>1. CASE g[p] # {}
    <3>1. A = [R EXCEPT !.used = R.used \cup {p}]
      BY <1>1, <2>1 DEF MarkUsed, StaticFirst, Mode, Deferred
    <3>2. SameCounts(R, A) /\ A.used = R.used \cup {p}
      BY <3>1 DEF SameCounts, Fields
    <3> QED
      BY <2>1, <3>2
  <2>2. CASE g[p] = {}
    <3>1. A = R
      BY <1>1, <2>2 DEF MarkUsed
    <3> QED
      BY <3>1 DEF SameCounts
  <2> QED
    BY <2>1, <2>2
<1>4. DOMAIN A = Fields /\ A.hooks = R.hooks /\ A.error = FALSE
  BY <1>3 DEF SameCounts
<1>5. PICK B : B = [R EXCEPT !.hooks = c]
  OBVIOUS
<1>6. c = [R.hooks EXCEPT ![p] = @ + 1]
  BY <1>1, <1>4
<1>7. Q.used = A.used /\ SameCounts(B, Q)
  <2>1. /\ DOMAIN Q = Fields /\ Q.error = A.error /\ Q.unused = A.unused /\ Q.hooks = c
        /\ Q.iterations = A.iterations /\ Q.expect = A.expect /\ Q.rebuilt = A.rebuilt
        /\ Q.plan = A.plan /\ Q.buckets = A.buckets /\ Q.used = A.used
    BY <1>2, <1>4 DEF Fields
  <2>2. /\ B.unused = R.unused /\ B.hooks = c /\ B.iterations = R.iterations /\ B.expect = R.expect
        /\ B.rebuilt = R.rebuilt /\ B.plan = R.plan /\ B.buckets = R.buckets
    BY <1>5 DEF Fields
  <2> QED
    BY <1>3, <2>1, <2>2 DEF SameCounts
<1> QED
  BY <1>3, <1>5, <1>6, <1>7

\* No gradient of g is lost in z.
Grows(g, z) == \A q \in Params : g[q] \subseteq z[q]

\* Q has failed no check in a hook of p, that leaves the hooks f to fire.
Smooth(P, Q, k, G, f, p, z, n) ==
  Q.error = FALSE /\ KRank(P, Q, "backward", k, G, [f EXCEPT ![p] = @ - 1], z, n)

\* In a backward, where the hooks fire.
LEMMA HookKRank ==
  ASSUME NEW P, P = program, NEW L, NEW R, NEW k, NEW G, NEW f, NEW g, NEW n, NEW p \in Params,
         Sits(P, L, R, "backward", k, G, f, g, n), f[p] > 0, NEW z, Grows(g, z)
  PROVE  Smooth(P, AutogradHook(R, z, p), k, G, f, p, z, n)
<1> DEFINE l == "backward"
<1>0. PICK Q, h : Q = AutogradHook(R, z, p) /\ h = [f EXCEPT ![p] = @ - 1]
  OBVIOUS
<1>1. /\ Typed(P, R, l, k, f) /\ Keeps(P, L, R, l, k, f, n) /\ n \in Nat /\ P \in Programs
      /\ R.expect \in BOOLEAN /\ R.finalize \in BOOLEAN /\ DOMAIN R = Fields /\ R.error = FALSE
  BY DEF Sits, TypedRank, JRank
<1>2. KRank(P, R, l, k, G, f, g, n)
  BY DEF Sits
<1>3. l \notin Outside /\ l \notin {"idle", "final", "raised"}
  BY DEF Outside
<1>4. /\ f \in [Params -> 0..2] /\ R.hooks \in [Params -> 0..2] /\ R.left \in [Params -> 0..2]
      /\ R.marked \in BOOLEAN /\ R.used \subseteq Params /\ R.ready \subseteq Params /\ R.unused \subseteq Params
  BY <1>1 DEF Typed
<1>5. /\ P.mode = "static" => (n > 0 => CountsKnown(R, G)) /\ (R.iterations > 1 => n > 0)
      /\ MapsLocal(P, n) => UsedHere(R, l, g)
      /\ R.expect => IF Deferred(P, R) THEN Counting(R, G, f) ELSE HooksExact(P, R, f)
  BY <1>2, <1>3 DEF KRank
<1>6. h \in [Params -> 0..2] /\ h[p] = f[p] - 1 /\ \A q \in Params : q # p => h[q] = f[q]
  BY <1>0, <1>4
<1>7. MapsLocal(P, n) => \A q \in R.used : z[q] # {}
  <2>1. MapsLocal(P, n) => \A q \in R.used : g[q] # {}
    BY <1>5 DEF UsedHere
  <2> QED
    BY <1>4, <2>1 DEF Grows
<1>8. CASE ~R.expect
  <2>1. Q = R
    BY <1>0, <1>8 DEF AutogradHook
  <2>2. MapsLocal(P, n) => UsedHere(R, l, z)
    BY <1>3, <1>5, <1>7 DEF UsedHere
  <2>3. KRank(P, R, l, k, G, h, z, n)
    BY <1>3, <1>5, <1>8, <2>2 DEF KRank
  <2> QED
    BY <1>0, <1>1, <2>1, <2>3 DEF Smooth
<1>9. CASE R.expect /\ Deferred(P, R)
  <2>1. PICK B : B = [R EXCEPT !.hooks = [R.hooks EXCEPT ![p] = @ + 1]]
    OBVIOUS
  <2>2. SameCounts(B, Q) /\ Q.used \subseteq R.used \cup (IF z[p] = {} THEN {} ELSE {p})
    <3>1. Q = AutogradHook(R, z, p) /\ P = program /\ p \in Params
      BY <1>0
    <3>2. DOMAIN R = Fields /\ R.error = FALSE /\ R.expect /\ Deferred(P, R) /\ R.hooks \in [Params -> 0..2]
      BY <1>1, <1>4, <1>9
    <3> QED
      BY ONLY <2>1, <3>1, <3>2, CountedHook
  <2>3. /\ B.hooks = [R.hooks EXCEPT ![p] = @ + 1] /\ B.iterations = R.iterations /\ B.expect = R.expect
    BY <1>1, <2>1 DEF Fields
  <2>4. /\ Q.error = FALSE /\ Q.hooks = [R.hooks EXCEPT ![p] = @ + 1] /\ Q.iterations = R.iterations
        /\ Q.expect = R.expect
    BY <2>2, <2>3 DEF SameCounts
  <2>5. Deferred(P, Q) /\ R.iterations = 1 /\ P.mode = "static"
    BY <1>9, <2>4 DEF Deferred
  <2>6. n = 0
    <3>1. Delays(P, R, l, k, f, n) /\ l \notin InForward
      BY <1>1, <2>5 DEF Keeps, InForward
    <3> QED
      BY <1>9, <2>5, <3>1 DEF Delays
  <2>7. Counting(Q, G, h)
    <3>1. \A q \in Params : R.hooks[q] + f[q] = G.loss[q]
      BY <1>5, <1>9 DEF Counting
    <3>2. \A q \in Params : R.hooks[q] \in 0..2 /\ f[q] \in 0..2
      BY <1>4
    <3>3. \A q \in Params : Q.hooks[q] = IF q = p THEN R.hooks[q] + 1 ELSE R.hooks[q]
      BY <1>4, <2>4
    <3>4. Q.hooks[p] + h[p] = G.loss[p]
      BY <1>6, <3>1, <3>2, <3>3
    <3>5. \A q \in Params : q # p => Q.hooks[q] + h[q] = G.loss[q]
      BY <1>6, <3>1, <3>3
    <3> QED
      BY <3>4, <3>5 DEF Counting
  <2>8. UsedHere(Q, l, z)
    <3>1. MapsLocal(P, n)
      BY <2>5, <2>6 DEF MapsLocal
    <3>2. \A q \in Q.used : z[q] # {}
      BY <1>7, <2>2, <3>1
    <3> QED
      BY <1>3, <1>9, <2>4, <3>2 DEF UsedHere
  <2>9. KRank(P, Q, l, k, G, h, z, n)
    BY <1>3, <2>4, <2>5, <2>6, <2>7, <2>8 DEF KRank
  <2> QED
    BY <1>0, <2>4, <2>9 DEF Smooth
<1>10. CASE R.expect /\ ~Deferred(P, R)
  <2>1. HooksExact(P, R, f)
    BY <1>5, <1>10
  <2>2. Marking(R, l)
    BY <1>1 DEF Keeps
  <2>3. IF R.marked THEN R.unused \subseteq R.ready ELSE R.ready = {}
    BY <1>1, <1>10, <2>2 DEF Marking
  <2>4. P.mode = "unused" => \A q \in R.used : z[q] # {}
    BY <1>7 DEF MapsLocal
  <2>5. Expecting(P, R, z)
    BY <1>1, <1>4, <1>10, <2>3, <2>4 DEF Expecting
  <2>6. p \notin R.ready \cup R.unused /\ (P.mode = "static" => R.left[p] > 0)
    BY <2>1 DEF HooksExact
  <2>7. CleanHook(P, R, Q, z, p)
    BY <1>0, <2>5, <2>6, HookClean
  <2>8. /\ Q.error = FALSE /\ Q.hooks = R.hooks /\ Q.iterations = R.iterations /\ Q.expect = R.expect
        /\ Q.unused = R.unused
    BY <2>7 DEF CleanHook, SameCounts
  <2>9. HooksExact(P, Q, h)
    <3>1. /\ \A q \in Params : f[q] = 0 <=> q \in R.ready \cup R.unused
          /\ \A q \in Params : IF P.mode = "static" THEN R.left[q] = f[q] ELSE f[q] \leq 1
      BY <2>1 DEF HooksExact
    <3>2. /\ Q.left = IF P.mode = "static" THEN [R.left EXCEPT ![p] = @ - 1] ELSE R.left
          /\ Q.ready = (R.ready \cup R.unused) \cup (IF P.mode = "static" /\ R.left[p] > 1 THEN {} ELSE {p})
      BY <2>7 DEF CleanHook
    <3>3. \A q \in Params : q # p => (h[q] = 0 <=> q \in Q.ready \cup Q.unused)
      BY <1>6, <2>8, <3>1, <3>2
    <3>4. h[p] = 0 <=> p \in Q.ready \cup Q.unused
      <4>1. f[p] \in 0..2 /\ f[p] > 0 /\ p \notin R.ready \cup R.unused
        BY <1>4, <2>6
      <4>2. CASE P.mode = "static" /\ R.left[p] > 1
        <5>1. h[p] # 0
          BY <1>6, <3>1, <4>1, <4>2
        <5> QED
          BY <2>8, <3>2, <4>1, <4>2, <5>1
      <4>3. CASE ~(P.mode = "static" /\ R.left[p] > 1)
        <5>1. f[p] = 1
          BY <3>1, <4>1, <4>3
        <5>2. h[p] = 0
          BY <1>6, <5>1
        <5> QED
          BY <3>2, <4>3, <5>2
      <4> QED
        BY <4>2, <4>3
    <3>5. \A q \in Params : IF P.mode = "static" THEN Q.left[q] = h[q] ELSE h[q] \leq 1
      <4>1. CASE P.mode = "static"
        <5>1. Q.left = [R.left EXCEPT ![p] = @ - 1] /\ \A q \in Params : R.left[q] = f[q]
          BY <3>1, <3>2, <4>1
        <5> QED
          BY <1>4, <1>6, <4>1, <5>1
      <4>2. CASE P.mode # "static"
        <5>1. \A q \in Params : f[q] \leq 1 /\ f[q] \in 0..2
          BY <1>4, <3>1, <4>2
        <5> QED
          BY <1>6, <4>2, <5>1
      <4> QED
        BY <4>1, <4>2
    <3>6. \A q \in Params : h[q] = 0 <=> q \in Q.ready \cup Q.unused
      BY <3>3, <3>4
    <3> QED
      BY <3>5, <3>6 DEF HooksExact
  <2>10. P.mode = "static" /\ n > 0 => CountsKnown(Q, G)
    BY <1>5, <2>8 DEF CountsKnown
  <2>11. MapsLocal(P, n) => UsedHere(Q, l, z)
    <3>1. \A q \in Q.used : q \in R.used \/ z[q] # {}
      BY <2>7 DEF CleanHook
    <3> QED
      BY <1>3, <1>7, <1>10, <2>8, <3>1 DEF UsedHere
  <2>12. ~Deferred(P, Q)
    BY <1>10, <2>8 DEF Deferred
  <2>13. KRank(P, Q, l, k, G, h, z, n)
    BY <1>3, <1>5, <2>8, <2>9, <2>10, <2>11, <2>12 DEF KRank
  <2> QED
    BY <1>0, <2>8, <2>13 DEF Smooth
<1> QED
  BY <1>1, <1>8, <1>9, <1>10

\* What delay_all_reduce leaves, when the used map agrees with the gradients.
DelayedCleanly(R, S) ==
  /\ DOMAIN S = Fields /\ S.error = FALSE /\ S.expect = R.expect /\ S.finalize = TRUE
  /\ S.unused = {p \in Params : R.hooks[p] = 0} /\ S.hooks = R.hooks /\ S.iterations = R.iterations

\* delay_all_reduce fails no check then.
LEMMA DelayClean ==
  ASSUME NEW R, NEW g, DOMAIN R = Fields, R.error = FALSE, Defined(R, g, Params)
  PROVE  DelayedCleanly(R, DelayAllReduce(R, g))
<1>1. PICK A, u : /\ u = {p \in Params : R.hooks[p] = 0}
                  /\ A = [R EXCEPT !.unused = u, !.finalize = TRUE]
  OBVIOUS
<1>2. PICK B : B = Issue(A, AllReduceLocalUsedMap(R))
  OBVIOUS
<1>3. PICK F : F = MarkVariablesReadyDense(B, g, Params)
  OBVIOUS
<1>4. DelayAllReduce(R, g) =
        IF F.error THEN F ELSE [F EXCEPT !.work = @ \o [i \in DOMAIN R.buckets |-> AllReduceBucket(F, i)]]
  BY <1>1, <1>2, <1>3 DEF DelayAllReduce
<1>5. PICK v : B = [A EXCEPT !.work = v]
  BY <1>2 DEF Issue
<1>6. /\ DOMAIN A = Fields /\ A.expect = R.expect /\ A.finalize = TRUE /\ A.unused = u /\ A.hooks = R.hooks
      /\ A.iterations = R.iterations /\ A.used = R.used
  BY <1>1 DEF Fields
<1>7. /\ DOMAIN B = Fields /\ B.expect = R.expect /\ B.finalize = TRUE /\ B.unused = u /\ B.hooks = R.hooks
      /\ B.iterations = R.iterations /\ B.used = R.used
  BY <1>5, <1>6 DEF Fields
<1>8. ~((DynamicFindUnused \/ StaticFirst(B)) /\ \E q \in Params : g[q] = {} /\ q \in B.used)
  BY <1>7 DEF StaticFirst, Defined
<1>9. PICK x : F = [B EXCEPT !.view = x, !.error = FALSE]
  BY <1>3, <1>8 DEF MarkVariablesReadyDense
<1>10. /\ DOMAIN F = Fields /\ F.error = FALSE /\ F.expect = R.expect /\ F.finalize = TRUE /\ F.unused = u
       /\ F.hooks = R.hooks /\ F.iterations = R.iterations
  BY <1>7, <1>9 DEF Fields
<1>11. PICK y : DelayAllReduce(R, g) = [F EXCEPT !.work = y]
  BY <1>4, <1>10
<1>12. PICK S : S = DelayAllReduce(R, g)
  OBVIOUS
<1>13. DelayedCleanly(R, S)
  BY <1>1, <1>10, <1>11, <1>12 DEF DelayedCleanly, Fields
<1> QED
  BY <1>12, <1>13

\* All hooks have fired.
AllFired(f) == \A p \in Params : f[p] = 0

\* A backward without a final callback reduced nothing.
LEMMA EndKRank ==
  ASSUME NEW P, NEW L, NEW R, NEW k, NEW G, NEW f, NEW g, NEW n,
         Sits(P, L, R, "backward", k, G, f, g, n), AllFired(f), R.callback = "none"
  PROVE  KRank(P, R, "idle", k + 1, G, f, g, n)
<1> DEFINE l == "backward"
<1>1. /\ Typed(P, R, l, k, f) /\ Keeps(P, L, R, l, k, f, n) /\ n \in Nat /\ P \in Programs
      /\ R.expect \in BOOLEAN /\ R.finalize \in BOOLEAN /\ LaidOut(L, R, l)
  BY DEF Sits, TypedRank, JRank
<1>2. KRank(P, R, l, k, G, f, g, n) /\ RankInv(P, R, l, k, G, f, n)
  BY DEF Sits
<1>3. l \notin Outside /\ l \notin {"idle", "final", "raised"} /\ "idle" \in Outside
  BY DEF Outside
<1>4. Marking(R, l)
  BY <1>1 DEF Keeps
<1>5. ~R.finalize
  <2> SUFFICES ASSUME R.finalize PROVE FALSE
    OBVIOUS
  <2>1. /\ R.expect /\ R.unused \subseteq R.ready
        /\ R.next \leq Len(R.buckets) => ~Complete(R, R.next)
        /\ R.callback = IF R.next > Len(R.buckets) THEN "finalize" ELSE "none"
    BY <1>4 DEF Marking
  <2>2. IsLayout(R.buckets) /\ R.next \in 1..Cardinality(Params) + 1
    BY <1>1, LaidOutLayout DEF Typed
  <2>3. Len(R.buckets) \in 1..Cardinality(Params) /\ Cardinality(Params) \in Nat
        /\ R.buckets \in Seq(Seq(Params))
    BY <2>2, ParamsFacts DEF IsLayout
  <2>4. R.next \in 1..Len(R.buckets) /\ ~Complete(R, R.next)
    <3>1. ~(R.next > Len(R.buckets))
      BY <2>1
    <3> QED
      BY <2>1, <2>2, <2>3, <3>1
  <2>5. ~Deferred(P, R)
    <3>1. P.mode = "static" => Delays(P, R, l, k, f, n)
      BY <1>1 DEF Keeps
    <3> QED
      BY <3>1 DEF Delays, Deferred
  <2>6. HooksExact(P, R, f)
    BY <1>2, <1>3, <2>1, <2>5 DEF KRank
  <2>7. Params \subseteq R.ready
    BY <2>1, <2>6 DEF HooksExact, AllFired
  <2>8. R.buckets[R.next] \in Seq(Params)
    BY <2>3, <2>4
  <2>9. Range(R.buckets[R.next]) \subseteq Params
    BY <2>8 DEF Range
  <2> QED
    BY <2>4, <2>7, <2>9 DEF Complete
<1>6. ~R.expect
  <2>1. AccountInside(P, R, l, k, f, n)
    BY <1>2, <1>3 DEF RankInv
  <2>2. R.expect => Awaited(P, R, f)
    BY <1>5, <2>1 DEF AccountInside
  <2>3. ~Awaited(P, R, f)
    BY DEF AllFired, Awaited
  <2> QED
    BY <2>2, <2>3
<1>7. MapsLocal(P, n) => UsedHere(R, "idle", g)
  BY <1>2, <1>3, <1>6 DEF KRank, UsedHere
<1> QED
  BY <1>2, <1>3, <1>5, <1>6, <1>7 DEF KRank

\* The final callback of a backward that marked all parameters.
LEMMA ConcludeKRank ==
  ASSUME NEW P, NEW L, NEW R, NEW k, NEW G, NEW f, NEW g, NEW n, NEW Q,
         Sits(P, L, R, "backward", k, G, f, g, n), R.callback = "finalize", Concluded(P, R, Q)
  PROVE  KRank(P, Q, "final", k, G, f, g, n)
<1> DEFINE l == "backward"
<1>1. Keeps(P, L, R, l, k, f, n) /\ KRank(P, R, l, k, G, f, g, n)
  BY DEF Sits, JRank
<1>2. R.finalize
  BY <1>1 DEF Keeps, Marking
<1>3. P.mode = "static" => n > 0
  BY <1>1, <1>2 DEF Keeps, Delays
<1>4. Q.hooks = R.hooks /\ Q.unused = R.unused /\ Q.iterations = R.iterations
  BY DEF Concluded
<1>5. P.mode = "static" => CountsKnown(Q, G)
  BY <1>1, <1>3, <1>4 DEF KRank, CountsKnown
<1>6. UsedHere(Q, "final", g) /\ "final" \notin Outside
  BY DEF UsedHere, Outside
<1> QED
  BY <1>3, <1>5, <1>6 DEF KRank

\* The final callback of the first iteration of a static graph: all is expected, and counted.
LEMMA DelayKRank ==
  ASSUME NEW P, P = program, NEW L, NEW R, NEW k, NEW G, NEW f, NEW g, NEW n, NEW S, NEW e, NEW Q,
         Sits(P, L, R, "backward", k, G, f, g, n), AllFired(f), R.callback = "delay",
         S = DelayAllReduce(R, g), e = (S.error \/ ~(S.expect /\ S.finalize)), Q = Ends(S, e)
  PROVE  Q.error = FALSE /\ KRank(P, Q, "final", k, G, f, g, n)
<1> DEFINE l == "backward"
<1>1. /\ Typed(P, R, l, k, f) /\ Keeps(P, L, R, l, k, f, n) /\ n \in Nat /\ P \in Programs
      /\ R.expect \in BOOLEAN /\ DOMAIN R = Fields /\ R.error = FALSE /\ k \in Nat
  BY DEF Sits, TypedRank, JRank
<1>2. KRank(P, R, l, k, G, f, g, n)
  BY DEF Sits
<1>3. l \notin InForward /\ l \notin {"idle", "final", "raised"}
  BY DEF InForward
<1>4. P.mode = "static"
  BY <1>1 DEF Keeps, Quiet
<1>5. Delays(P, R, l, k, f, n) /\ R.iterations = 1
  BY <1>1, <1>4 DEF Keeps, Delays
<1>6. R.expect
  <2> SUFFICES ASSUME ~R.expect PROVE FALSE
    OBVIOUS
  <2>1. DoomedAt(P, k + 1)
    BY <1>5 DEF Delays
  <2>2. Doomed(P)
    BY <2>1 DEF Doomed, DoomedAt
  <2> QED
    BY <1>4, <2>2 DEF Sits, Fits
<1>7. n = 0 /\ MapsLocal(P, n)
  BY <1>3, <1>4, <1>5, <1>6 DEF Delays, MapsLocal
<1>8. Counting(R, G, f) /\ UsedHere(R, l, g)
  BY <1>2, <1>3, <1>4, <1>5, <1>6, <1>7 DEF KRank, Deferred
<1>9. Defined(R, g, Params)
  BY <1>8 DEF UsedHere, Defined
<1>10. DelayedCleanly(R, S)
  BY <1>1, <1>9, DelayClean
<1>11. e = FALSE
  BY <1>6, <1>10 DEF DelayedCleanly
<1>12. Q = [S EXCEPT !.callback = "none", !.error = FALSE]
  BY <1>11 DEF Ends
<1>13. /\ Q.error = FALSE /\ Q.hooks = R.hooks /\ Q.unused = {p \in Params : R.hooks[p] = 0}
       /\ Q.iterations = R.iterations
  BY <1>10, <1>12 DEF DelayedCleanly, Fields
<1>14. CountsKnown(Q, G)
  <2>1. \A p \in Params : R.hooks[p] = G.loss[p]
    <3>1. \A p \in Params : R.hooks[p] + 0 = G.loss[p] /\ R.hooks[p] \in 0..2
      BY <1>1, <1>8 DEF Counting, AllFired, Typed
    <3> QED
      BY <3>1
  <2> QED
    BY <1>13, <2>1 DEF CountsKnown
<1>15. UsedHere(Q, "final", g) /\ "final" \notin Outside
  BY DEF UsedHere, Outside
<1>16. KRank(P, Q, "final", k, G, f, g, n)
  BY <1>5, <1>13, <1>14, <1>15 DEF KRank
<1> QED
  BY <1>13, <1>16

\* finalize_backward.
LEMMA FinalizeKRank ==
  ASSUME NEW P, P = program, NEW L, NEW R, NEW k, NEW G, NEW f, NEW g, NEW n, NEW Q, NEW z,
         Sits(P, L, R, "final", k, G, f, g, n), Q = FinalizedReducer(R)
  PROVE  KRank(P, Q, "idle", k + 1, G, f, z, n + 1)
<1>1. KRank(P, R, "final", k, G, f, g, n) /\ n \in Nat /\ DOMAIN R = Fields
  BY DEF Sits, TypedRank
<1>2. PICK u, d : Q = [R EXCEPT !.expect = FALSE, !.finalize = FALSE, !.done = <<>>, !.used = u, !.reduced = d]
                  /\ (P.mode # "static" => u = {})
  BY DEF FinalizedReducer, Mode
<1>3. /\ Q.expect = FALSE /\ Q.finalize = FALSE /\ Q.used = u /\ Q.hooks = R.hooks /\ Q.unused = R.unused
      /\ Q.iterations = R.iterations
  BY <1>1, <1>2 DEF Fields
<1>4. P.mode = "static" => CountsKnown(Q, G)
  BY <1>1, <1>3 DEF KRank, CountsKnown
<1>5. n + 1 > 0 /\ n + 1 # 0
  BY <1>1
<1>6. MapsLocal(P, n + 1) => UsedHere(Q, "idle", z)
  BY <1>2, <1>3, <1>5 DEF MapsLocal, UsedHere
<1> QED
  BY <1>3, <1>4, <1>5, <1>6 DEF KRank

\* What the invariants say of each rank.
LEMMA KnownAt ==
  ASSUME IInv, JInv, KInv, Fits(program), ~broken, NEW r \in Ranks
  PROVE  /\ Sits(program, Layout, red[r], pc[r], pass[r], graph[r], fires[r], grad[r], finals[r])
         /\ graph[r] \in Graphs[program.mode]
<1>1. PICK P, R, l, k, f, n, G, g, L :
        /\ P = program /\ R = red[r] /\ l = pc[r] /\ k = pass[r] /\ f = fires[r] /\ n = finals[r]
        /\ G = graph[r] /\ g = grad[r] /\ L = Layout
  OBVIOUS
<1>2. TypedRank(P, R, l, k, f, n) /\ JRank(P, L, R, l, k, f, n)
  BY <1>1, RankAt
<1>3. RankInv(P, R, l, k, G, f, n) /\ G \in Graphs[P.mode]
  BY <1>1 DEF IInv, Changed, RankTypes
<1>4. KRank(P, R, l, k, G, f, g, n)
  BY <1>1 DEF KInv
<1>5. Sits(P, L, R, l, k, G, f, g, n)
  BY <1>1, <1>2, <1>3, <1>4 DEF Sits
<1> QED
  BY <1>1, <1>3, <1>5

\* It is enough to look at the rank that takes the step.
LEMMA StepK ==
  ASSUME KInv, NEW r \in Ranks, Others(r), program' = program, broken => broken',
         \A s \in Ranks \ {r} : graph'[s] = graph[s] /\ grad'[s] = grad[s],
         Fits(program) /\ ~broken' =>
           KRank(program, red'[r], pc'[r], pass'[r], graph'[r], fires'[r], grad'[r], finals'[r])
  PROVE  KInv'
<1>1. PICK P : P = program
  OBVIOUS
<1>2. ASSUME Fits(P), ~broken', NEW s \in Ranks
      PROVE  KRank(P, red'[s], pc'[s], pass'[s], graph'[s], fires'[s], grad'[s], finals'[s])
  <2>1. CASE s = r
    BY <1>1, <1>2, <2>1
  <2>2. CASE s # r
    <3>1. KRank(P, red[s], pc[s], pass[s], graph[s], fires[s], grad[s], finals[s])
      BY <1>1, <1>2 DEF KInv
    <3> QED
      BY <2>2, <3>1 DEF Others
  <2> QED
    BY <2>1, <2>2
<1>3. P = program'
  BY <1>1
<1> QED
  BY <1>2, <1>3 DEF KInv

\* forward() up to the call of the module.
LEMMA ForwardK ==
  ASSUME IInv, JInv, KInv, Tables, NEW r \in Ranks, Forward(r)
  PROVE  KInv'
<1>1. PICK P, L, R, k, f, n, T, G, g :
        /\ P = program /\ L = Layout /\ R = red[r] /\ k = pass[r] /\ f = fires[r] /\ n = finals[r]
        /\ T = [R EXCEPT !.iterations = IF P.passes[k + 1] = "nosync" THEN @ ELSE @ + 1]
        /\ G = graph[r] /\ g = grad[r]
  OBVIOUS
<1>2. /\ pc[r] = "idle" /\ k < Len(P.passes)
      /\ \/ /\ T.finalize /\ Update(r, [T EXCEPT !.error = TRUE]) /\ Goto(r, "raised")
         \/ /\ ~T.finalize /\ (~ShouldRebuild(T) \/ T.order = <<>>) /\ Update(r, T) /\ Goto(r, "forward")
         \/ /\ ~T.finalize /\ ShouldRebuild(T) /\ T.order # <<>>
            /\ Update(r, RebuildBuckets(T)) /\ GotoUnless(r, red'[r], "indices")
      /\ UNCHANGED <<program, pass, graph, fires, finals, broken>>
  BY <1>1 DEF Forward, Pass, PriorReductionUnfinished
<1>3. TypedRank(P, R, "idle", k, f, n) /\ JRank(P, L, R, "idle", k, f, n)
  BY <1>1, <1>2, RankAt
<1>4. DOMAIN R = Fields /\ R.error = FALSE
  BY <1>3 DEF TypedRank
<1>5. Advanced(P, R, T, k) /\ T.error = FALSE
  BY <1>1, <1>4, AdvancedEffect
<1>6. DOMAIN T = Fields /\ T.finalize = R.finalize /\ T.order = R.order /\ T.rebuilt = R.rebuilt
  BY <1>5 DEF Advanced
<1>7. DOMAIN red = Ranks /\ DOMAIN pc = Ranks
  BY DEF IInv, Shape
<1>8. \A s \in Ranks \ {r} : graph'[s] = graph[s] /\ grad'[s] = grad[s]
  <2>1. PICK z : grad' = [grad EXCEPT ![r] = z]
    BY DEF Forward
  <2> QED
    BY <1>2, <2>1 DEF Tables, GradsShaped
<1>9. ASSUME Fits(P), ~broken
      PROVE  /\ ~R.finalize
             /\ \A Q, m, z : Advanced(P, R, Q, k) /\ m \in InForward => KRank(P, Q, m, k, G, f, z, n)
  <2>1. Sits(P, L, R, "idle", k, G, f, g, n) /\ k < Len(P.passes)
    BY <1>1, <1>2, <1>9, KnownAt
  <2>2. \A Q, m, z : Advanced(P, R, Q, k) /\ m \in InForward => KRank(P, Q, m, k, G, f, z, n)
    BY ONLY <2>1, ForwardKRank
  <2>3. ~R.finalize
    <3>1. "idle" # "raised" /\ KRank(P, R, "idle", k, G, f, g, n)
      BY <2>1 DEF Sits
    <3> QED
      BY <3>1 DEF KRank
  <2> QED
    BY <2>2, <2>3
<1>10. ASSUME NEW Q, NEW m, red' = [red EXCEPT ![r] = Q], pc' = [pc EXCEPT ![r] = m],
              Fits(P) /\ ~broken => Advanced(P, R, Q, k) /\ m \in InForward
       PROVE  KInv'
  <2>1. Others(r) /\ red'[r] = Q /\ pc'[r] = m /\ pass'[r] = k /\ fires'[r] = f /\ finals'[r] = n
        /\ graph'[r] = G /\ program' = program /\ broken' = broken
    BY <1>1, <1>2, <1>7, <1>10 DEF Others
  <2>2. Fits(P) /\ ~broken => KRank(P, Q, m, k, G, f, grad'[r], n)
    BY <1>9, <1>10
  <2> QED
    BY <1>1, <1>8, <2>1, <2>2, StepK
<1>11. CASE T.finalize /\ Update(r, [T EXCEPT !.error = TRUE]) /\ Goto(r, "raised")
  <2>1. PICK Q : Q = [T EXCEPT !.error = TRUE]
    OBVIOUS
  <2>2. red' = [red EXCEPT ![r] = Q] /\ pc' = [pc EXCEPT ![r] = "raised"]
    BY <1>11, <2>1 DEF Update, Goto
  <2>3. ~(Fits(P) /\ ~broken)
    BY <1>6, <1>9, <1>11
  <2> QED
    BY <1>10, <2>2, <2>3
<1>12. CASE ~T.finalize /\ (~ShouldRebuild(T) \/ T.order = <<>>) /\ Update(r, T) /\ Goto(r, "forward")
  <2>1. red' = [red EXCEPT ![r] = T] /\ pc' = [pc EXCEPT ![r] = "forward"] /\ "forward" \in InForward
    BY <1>12 DEF Update, Goto, InForward
  <2> QED
    BY <1>5, <1>10, <2>1
<1>13. CASE /\ ~T.finalize /\ ShouldRebuild(T) /\ T.order # <<>>
            /\ Update(r, RebuildBuckets(T)) /\ GotoUnless(r, red'[r], "indices")
  <2>1. PICK Q : Q = RebuildBuckets(T)
    OBVIOUS
  <2>2. ~R.finalize /\ P.mode # "unused" /\ ~R.rebuilt /\ R.order # <<>>
    BY <1>1, <1>6, <1>13 DEF ShouldRebuild, Mode
  <2>3. IsPerm(R.order)
    BY ONLY <1>3, <2>2, RebuildDue
  <2>4. Len(T.order) = Cardinality(Params)
    BY <1>6, <2>3 DEF IsPerm
  <2>5. Broadcasts(T, Q)
    BY ONLY <1>6, <2>1, <2>4, RebuildEffect
  <2>6. Advanced(P, R, Q, k)
    BY <1>5, <2>5 DEF Advanced, Broadcasts
  <2>7. red' = [red EXCEPT ![r] = Q] /\ red'[r] = Q /\ Q.error = FALSE
    BY <1>5, <1>7, <1>13, <2>1, <2>5 DEF Update, Broadcasts
  <2>8. pc' = [pc EXCEPT ![r] = "indices"] /\ "indices" \in InForward
    BY <1>13, <2>7 DEF GotoUnless, Goto, InForward
  <2> QED
    BY <1>10, <2>6, <2>7, <2>8
<1> QED
  BY <1>2, <1>11, <1>12, <1>13

\* The indices have arrived: broadcast the sizes.
LEMMA SyncBucketIndicesK ==
  ASSUME IInv, JInv, KInv, NEW r \in Ranks, SyncBucketIndices(r)
  PROVE  KInv'
<1>1. PICK P, R, k, f, n, G, g : P = program /\ R = red[r] /\ k = pass[r] /\ f = fires[r] /\ n = finals[r]
                              /\ G = graph[r] /\ g = grad[r]
  OBVIOUS
<1>2. PICK Q, v : Q = Issue(R, Work("sizes", <<R.done[1].data.buckets>>, LocalSizes(R.plan, R.done[1].data.buckets)))
                  /\ Q = [R EXCEPT !.work = v]
  BY DEF Issue
<1>3. DOMAIN red = Ranks /\ DOMAIN pc = Ranks /\ DOMAIN R = Fields
  BY <1>1 DEF IInv, Shape, RankTypes
<1>4. /\ pc[r] = "indices" /\ red' = [red EXCEPT ![r] = Q] /\ pc' = [pc EXCEPT ![r] = "sizes"]
      /\ UNCHANGED <<program, grad, gave, pass, graph, fires, finals, broken>>
  BY <1>1, <1>2 DEF SyncBucketIndices, Update, Goto
<1>5. Alike(R, Q)
  BY <1>2, <1>3 DEF Alike, Fields
<1>6. Fits(P) /\ ~broken => KRank(P, Q, "sizes", k, G, f, g, n)
  <2> SUFFICES ASSUME Fits(P), ~broken PROVE KRank(P, Q, "sizes", k, G, f, g, n)
    OBVIOUS
  <2>1. KRank(P, R, "indices", k, G, f, g, n)
    BY <1>1, <1>4 DEF KInv
  <2> QED
    BY <1>5, <2>1, AlikeKRank
<1>7. /\ Others(r) /\ red'[r] = Q /\ pc'[r] = "sizes" /\ pass'[r] = k /\ fires'[r] = f /\ finals'[r] = n
      /\ graph'[r] = G /\ grad'[r] = g /\ program' = program /\ broken' = broken
      /\ \A s \in Ranks \ {r} : graph'[s] = graph[s] /\ grad'[s] = grad[s]
  BY <1>1, <1>3, <1>4 DEF Others
<1> QED
  BY <1>1, <1>6, <1>7, StepK

\* The sizes have arrived: every rank installs the layout of rank 0.
LEMMA InitializeBucketsK ==
  ASSUME IInv, JInv, KInv, NEW r \in Ranks, InitializeBuckets(r)
  PROVE  KInv'
<1>1. PICK P, L, R, k, f, n, b, w, G, g :
        /\ P = program /\ L = Layout /\ R = red[r] /\ k = pass[r] /\ f = fires[r] /\ n = finals[r]
        /\ b = Unflatten(R.done[1].data.flat, R.done[2].data)
        /\ w = (R.expect \/ Len(b) # Len(R.plan))
        /\ G = graph[r] /\ g = grad[r]
  OBVIOUS
<1>2. PICK Q, v : Q = [R EXCEPT !.buckets = b, !.rebuilt = TRUE, !.order = <<>>, !.done = <<>>,
                                !.plan = v, !.error = w]
                  /\ v = IF w THEN R.plan ELSE <<>>
  OBVIOUS
<1>3. DOMAIN red = Ranks /\ DOMAIN pc = Ranks /\ DOMAIN R = Fields
  BY <1>1 DEF IInv, Shape, RankTypes
<1>4. /\ pc[r] = "sizes" /\ R.work = <<>> /\ red' = [red EXCEPT ![r] = Q]
      /\ GotoUnless(r, red'[r], "forward")
      /\ UNCHANGED <<program, grad, gave, pass, graph, fires, finals, broken>>
  BY ZenonT(40), <1>1, <1>2 DEF InitializeBuckets, Update
<1>5. /\ AlikeDelays(R, Q) /\ Q.rebuilt = TRUE /\ Q.buckets = b /\ Q.plan = v /\ Q.error = w
  BY <1>2, <1>3 DEF AlikeDelays, Fields
<1>6. PICK m : m = IF w THEN "raised" ELSE "forward"
  OBVIOUS
<1>7. red'[r] = Q /\ pc' = [pc EXCEPT ![r] = m]
  BY <1>3, <1>4, <1>5, <1>6 DEF GotoUnless, Goto
<1>8. Fits(P) /\ ~broken => KRank(P, Q, m, k, G, f, g, n)
  <2> SUFFICES ASSUME Fits(P), ~broken PROVE KRank(P, Q, m, k, G, f, g, n)
    OBVIOUS
  <2>1. Sits(P, L, R, "sizes", k, G, f, g, n) /\ R.work = <<>>
    BY <1>1, <1>4, KnownAt
  <2>2. AlikeDelays(R, Q) /\ Q.rebuilt = TRUE /\ w = (R.expect \/ Len(Q.buckets) # Len(R.plan))
        /\ (w => Q.plan = R.plan)
    BY <1>1, <1>2, <1>5
  <2>3. KRank(P, Q, IF w THEN "raised" ELSE "forward", k, G, f, g, n)
    BY ONLY <2>1, <2>2, InitializeKRank
  <2> QED
    BY <1>6, <2>3
<1>9. /\ Others(r) /\ red'[r] = Q /\ pc'[r] = m /\ pass'[r] = k /\ fires'[r] = f /\ finals'[r] = n
      /\ graph'[r] = G /\ grad'[r] = g /\ program' = program /\ broken' = broken
      /\ \A s \in Ranks \ {r} : graph'[s] = graph[s] /\ grad'[s] = grad[s]
  BY <1>1, <1>3, <1>4, <1>7 DEF Others
<1> QED
  BY <1>1, <1>8, <1>9, StepK

\* What the contract of the mode says of the graph of a pass.
LEMMA ContractFacts ==
  ASSUME NEW r \in Ranks, NEW H, Contract(r, H), Mode \in Modes, Pass(r) \in Passes
  PROVE  /\ Mode = "plain" /\ Pass(r) = "sync" => \A p \in Params : H.loss[p] = 1
         /\ Mode = "unused" /\ Pass(r) = "sync" =>
              \A p \in Params : H.loss[p] \leq (IF p \in H.out THEN 1 ELSE 0)
         /\ Mode = "static" /\ pass[r] > 0 => H = graph[r]
<1>1. CASE Mode = "plain"
  BY <1>1 DEF Contract
<1>2. CASE Mode = "unused"
  BY <1>2 DEF Contract
<1>3. CASE Mode = "static"
  BY <1>3 DEF Contract
<1> QED
  BY <1>1, <1>2, <1>3 DEF Modes

\* The parameters that prepare_for_backward finds unused.
LEMMA PrimedUnused ==
  ASSUME NEW R, DOMAIN R = Fields, NEW out, NEW T, T = PrepareForBackward(R, out), NEW c,
         NEW Q, Q = [T EXCEPT !.callback = c], Mode = "unused"
  PROVE  Q.unused = Params \ out
<1>1. PICK u : u = Params \ out
  OBVIOUS
<1>2. PICK a : T = [R EXCEPT !.expect = TRUE, !.next = 1, !.ready = {}, !.marked = FALSE, !.left = a, !.unused = u]
  BY <1>1 DEF PrepareForBackward, DynamicFindUnused
<1>3. DOMAIN T = Fields /\ T.unused = u
  BY <1>2 DEF Fields
<1> QED
  BY <1>1, <1>3 DEF Fields

\* forward() after the call of the module.
LEMMA BackwardK ==
  ASSUME IInv, JInv, KInv, NEW r \in Ranks, Backward(r)
  PROVE  KInv'
<1>1. PICK P, L, R, k, f, n, G, g :
        /\ P = program /\ L = Layout /\ R = red[r] /\ k = pass[r] /\ f = fires[r] /\ n = finals[r]
        /\ G = graph[r] /\ g = grad[r]
  OBVIOUS
<1>2. pc[r] = "forward" /\ UNCHANGED <<program, grad, gave, finals>>
  BY DEF Backward
<1>3. TypedRank(P, R, "forward", k, f, n) /\ JRank(P, L, R, "forward", k, f, n)
  BY <1>1, <1>2, RankAt
<1>4. DOMAIN R = Fields /\ P \in Programs /\ R.unused \subseteq Params
  BY <1>3 DEF TypedRank, JRank, Typed
<1>5. PICK H \in Graphs[P.mode] :
        LET T == IF P.passes[k + 1] = "nosync" THEN R ELSE PrepareForBackward(R, H.out)
            sink == [p \in Params |-> IF HasSink(r) /\ H.loss[p] = 0 /\ p \in H.out THEN 1 ELSE H.loss[p]]
        IN /\ graph' = [graph EXCEPT ![r] = H]
           /\ broken' = (broken \/ ~Contract(r, H))
           /\ \/ /\ P.passes[k + 1] = "ignored"
                 /\ Update(r, T)
                 /\ Goto(r, "idle")
                 /\ pass' = [pass EXCEPT ![r] = @ + 1]
                 /\ UNCHANGED fires
              \/ /\ P.passes[k + 1] # "ignored"
                 /\ Update(r, [T EXCEPT !.callback = IF StaticFirst(T) THEN "delay" ELSE "none"])
                 /\ Goto(r, "backward")
                 /\ fires' = [fires EXCEPT ![r] = sink]
                 /\ UNCHANGED pass
  BY <1>1 DEF Backward, Pass, Mode
<1>6. PICK b : b = (P.mode = "unused" \/ Deferred(P, R))
  OBVIOUS
<1>7. b <=> HasSink(r)
  BY <1>1, <1>6 DEF HasSink, StaticFirst, Deferred, Mode
<1>8. PICK T, h, c :
        /\ T = IF P.passes[k + 1] = "nosync" THEN R ELSE PrepareForBackward(R, H.out)
        /\ h = Sinks(b, H)
        /\ c = IF StaticFirst(T) THEN "delay" ELSE "none"
  OBVIOUS
<1>9. PICK Q : Q = [T EXCEPT !.callback = c]
  OBVIOUS
<1>10. h = [p \in Params |-> IF HasSink(r) /\ H.loss[p] = 0 /\ p \in H.out THEN 1 ELSE H.loss[p]]
  BY <1>7, <1>8 DEF Sinks
<1>11. /\ graph' = [graph EXCEPT ![r] = H] /\ broken' = (broken \/ ~Contract(r, H))
       /\ \/ /\ P.passes[k + 1] = "ignored"
             /\ red' = [red EXCEPT ![r] = T] /\ pc' = [pc EXCEPT ![r] = "idle"]
             /\ pass' = [pass EXCEPT ![r] = @ + 1] /\ fires' = fires
          \/ /\ P.passes[k + 1] # "ignored"
             /\ red' = [red EXCEPT ![r] = Q] /\ pc' = [pc EXCEPT ![r] = "backward"]
             /\ fires' = [fires EXCEPT ![r] = h] /\ pass' = pass
  BY <1>5, <1>8, <1>9, <1>10 DEF Update, Goto
<1>12. /\ DOMAIN red = Ranks /\ DOMAIN pc = Ranks /\ DOMAIN pass = Ranks /\ DOMAIN fires = Ranks
       /\ DOMAIN graph = Ranks /\ broken \in BOOLEAN
  BY DEF IInv, Shape
<1>13. ASSUME Fits(P), ~broken'
       PROVE  /\ Entered(P, R, k, G, n)
              /\ P.mode = "static" /\ k > 0 => H = G
              /\ P.passes[k + 1] = "sync" /\ P.mode = "plain" => \A p \in Params : H.loss[p] = 1
              /\ P.passes[k + 1] = "sync" /\ P.mode = "unused" =>
                   \A p \in Params : H.loss[p] \leq (IF p \in H.out THEN 1 ELSE 0)
              /\ P.passes[k + 1] \in Passes
  <2>1. ~broken /\ Contract(r, H)
    BY <1>11, <1>12, <1>13
  <2>2. Sits(P, L, R, "forward", k, G, f, g, n)
    BY <1>1, <1>2, <1>13, <2>1, KnownAt
  <2>3. Entered(P, R, k, G, n)
    BY <2>2, RankEntered
  <2>4. P.passes[k + 1] \in Passes /\ P.mode \in Modes
    <3>1. P.passes \in Seq(Passes) /\ P.mode \in Modes
      BY <1>4, ProgramFacts
    <3>2. k + 1 \in 1..Len(P.passes)
      BY <2>3 DEF Entered
    <3> QED
      BY <3>1, <3>2
  <2>5. Pass(r) = P.passes[k + 1] /\ Mode = P.mode
    BY <1>1 DEF Pass, Mode
  <2>6. /\ Mode = "plain" /\ Pass(r) = "sync" => \A p \in Params : H.loss[p] = 1
        /\ Mode = "unused" /\ Pass(r) = "sync" =>
             \A p \in Params : H.loss[p] \leq (IF p \in H.out THEN 1 ELSE 0)
        /\ Mode = "static" /\ pass[r] > 0 => H = graph[r]
    BY <2>1, <2>4, <2>5, ContractFacts
  <2> QED
    BY <1>1, <2>3, <2>4, <2>5, <2>6
<1>14. /\ program' = program /\ finals'[r] = n /\ graph'[r] = H /\ grad'[r] = g /\ (broken => broken')
       /\ \A s \in Ranks \ {r} : graph'[s] = graph[s] /\ grad'[s] = grad[s]
  BY <1>1, <1>2, <1>11, <1>12
<1>15. CASE /\ P.passes[k + 1] = "ignored"
            /\ red' = [red EXCEPT ![r] = T] /\ pc' = [pc EXCEPT ![r] = "idle"]
            /\ pass' = [pass EXCEPT ![r] = @ + 1] /\ fires' = fires
  <2>1. T = PrepareForBackward(R, H.out)
    BY <1>8, <1>15
  <2>2. Primed(P, R, T)
    BY <1>1, <1>4, <1>9, <2>1, PrimedEffect
  <2>3. Fits(P) /\ ~broken' => KRank(P, T, "idle", k + 1, H, f, g, n)
    BY <1>13, <2>2, IgnoredKRank
  <2>4. /\ Others(r) /\ red'[r] = T /\ pc'[r] = "idle" /\ pass'[r] = k + 1 /\ fires'[r] = f
    BY <1>1, <1>2, <1>12, <1>15 DEF Others
  <2> QED
    BY <1>1, <1>14, <2>3, <2>4, StepK
<1>16. CASE /\ P.passes[k + 1] # "ignored"
            /\ red' = [red EXCEPT ![r] = Q] /\ pc' = [pc EXCEPT ![r] = "backward"]
            /\ fires' = [fires EXCEPT ![r] = h] /\ pass' = pass
  <2>1. ASSUME Fits(P), ~broken' PROVE KRank(P, Q, "backward", k, H, h, g, n)
    <3>1. /\ Entered(P, R, k, G, n) /\ (P.mode = "static" /\ k > 0 => H = G)
      BY <1>13, <2>1
    <3>2. Opens(P, R, Q, H)
      <4>1. CASE P.passes[k + 1] = "nosync"
        <5>1. T = R
          BY <1>8, <4>1
        <5>2. Recalled(R, Q)
          BY <1>4, <1>9, <5>1, RecalledEffect
        <5> QED
          BY ONLY <2>1, <3>1, <4>1, <5>2, RecalledOpens
      <4>2. CASE P.passes[k + 1] # "nosync"
        <5>1. T = PrepareForBackward(R, H.out)
          BY <1>8, <4>2
        <5>2. Primed(P, R, Q)
          BY SMTT(40), <1>1, <1>4, <1>9, <5>1, PrimedEffect
        <5>3. P.passes[k + 1] = "sync"
          BY <1>13, <1>16, <2>1, <4>2 DEF Passes
        <5>4. P.mode = "unused" => Q.unused = Params \ H.out
          <6> SUFFICES ASSUME P.mode = "unused" PROVE Q.unused = Params \ H.out
            OBVIOUS
          <6>1. Mode = "unused" /\ DOMAIN R = Fields
            BY <1>1, <1>4 DEF Mode
          <6> QED
            BY ONLY <1>9, <5>1, <6>1, PrimedUnused
        <5>5. /\ P.mode = "plain" => \A p \in Params : H.loss[p] = 1
              /\ P.mode = "unused" =>
                   Q.unused = Params \ H.out /\ \A p \in Params : H.loss[p] \leq (IF p \in H.out THEN 1 ELSE 0)
          BY <1>13, <2>1, <5>3, <5>4
        <5> QED
          BY ONLY <3>1, <4>2, <5>2, <5>5, PrimedOpens
      <4> QED
        BY <4>1, <4>2
    <3> QED
      BY ONLY <1>5, <1>6, <1>8, <2>1, <3>1, <3>2, BackwardKRank
  <2>2. /\ Others(r) /\ red'[r] = Q /\ pc'[r] = "backward" /\ pass'[r] = k /\ fires'[r] = h
    BY <1>1, <1>2, <1>12, <1>16 DEF Others
  <2> QED
    BY <1>1, <1>14, <2>1, <2>2, StepK
<1> QED
  BY <1>11, <1>15, <1>16

\* The engine accumulates a gradient and runs its hook.
LEMMA HookK ==
  ASSUME IInv, JInv, KInv, Tables, NEW r \in Ranks, NEW p \in Params, Hook(r, p)
  PROVE  KInv'
<1>1. PICK P, L, R, k, f, n, g, z, Q, h, G :
        /\ P = program /\ L = Layout /\ R = red[r] /\ k = pass[r] /\ f = fires[r] /\ n = finals[r]
        /\ g = grad[r] /\ z = grad'[r] /\ Q = AutogradHook(R, z, p) /\ h = [f EXCEPT ![p] = @ - 1]
        /\ G = graph[r]
  OBVIOUS
<1>2. PICK w : grad' = [grad EXCEPT ![r][p] = @ \cup w]
  BY DEF Hook
<1>3. DOMAIN red = Ranks /\ DOMAIN pc = Ranks /\ DOMAIN fires = Ranks
  BY DEF IInv, Shape
<1>4. PICK m : m = IF Q.error THEN "raised" ELSE "backward"
  OBVIOUS
<1>5. /\ pc[r] = "backward" /\ f[p] > 0 /\ fires' = [fires EXCEPT ![r] = h]
      /\ red' = [red EXCEPT ![r] = Q] /\ red'[r] = Q /\ GotoUnless(r, red'[r], "backward")
      /\ UNCHANGED <<program, pass, graph, finals, broken>>
  BY <1>1, <1>3 DEF Hook, Update
<1>6. pc' = [pc EXCEPT ![r] = m]
  BY <1>4, <1>5 DEF GotoUnless, Goto
<1>7. /\ \A q \in Params : g[q] \subseteq z[q]
      /\ \A s \in Ranks \ {r} : graph'[s] = graph[s] /\ grad'[s] = grad[s]
  <2>1. g \in [Params -> Given(P)] /\ DOMAIN grad = Ranks
    BY <1>1 DEF JInv, Tables, GradsShaped
  <2>2. z = [g EXCEPT ![p] = @ \cup w]
    BY <1>1, <1>2, <2>1
  <2>3. \A q \in Params : g[q] \subseteq z[q]
    BY <2>1, <2>2
  <2>4. \A s \in Ranks \ {r} : grad'[s] = grad[s]
    BY <1>2, <2>1
  <2> QED
    BY <1>5, <2>3, <2>4
<1>8. Fits(P) /\ ~broken => KRank(P, Q, m, k, G, h, z, n)
  <2> SUFFICES ASSUME Fits(P), ~broken PROVE KRank(P, Q, m, k, G, h, z, n)
    OBVIOUS
  <2>1. Sits(P, L, R, "backward", k, G, f, g, n)
    BY <1>1, <1>5, KnownAt
  <2>2. P = program /\ f[p] > 0 /\ Q = AutogradHook(R, z, p) /\ h = [f EXCEPT ![p] = @ - 1]
        /\ p \in Params /\ Grows(g, z)
    BY <1>1, <1>5, <1>7 DEF Grows
  <2>3. Smooth(P, Q, k, G, f, p, z, n)
    BY ONLY <2>1, <2>2, HookKRank
  <2> QED
    BY <1>4, <2>2, <2>3 DEF Smooth
<1>9. /\ Others(r) /\ red'[r] = Q /\ pc'[r] = m /\ pass'[r] = k /\ fires'[r] = h /\ finals'[r] = n
      /\ graph'[r] = G /\ program' = program /\ broken' = broken
  BY <1>1, <1>3, <1>5, <1>6 DEF Others
<1> QED
  BY <1>1, <1>7, <1>8, <1>9, StepK

\* The GraphTask is complete.
LEMMA EndBackwardK ==
  ASSUME IInv, JInv, KInv, NEW r \in Ranks, EndBackward(r)
  PROVE  KInv'
<1>1. PICK P, L, R, k, f, n, g, G :
        /\ P = program /\ L = Layout /\ R = red[r] /\ k = pass[r] /\ f = fires[r] /\ n = finals[r]
        /\ g = grad[r] /\ G = graph[r]
  OBVIOUS
<1>2. PICK S : S = IF R.callback = "delay" THEN DelayAllReduce(R, g) ELSE FinalCallback(R)
  OBVIOUS
<1>3. PICK e, Q : /\ e = (S.error \/ ~(S.expect /\ S.finalize))
                  /\ Q = Ends(S, e)
  OBVIOUS
<1>4. /\ pc[r] = "backward" /\ AllFired(f)
      /\ \/ /\ R.callback = "none" /\ Goto(r, "idle")
            /\ pass' = [pass EXCEPT ![r] = @ + 1] /\ UNCHANGED red
         \/ /\ R.callback # "none" /\ Update(r, Q)
            /\ GotoUnless(r, red'[r], "final") /\ UNCHANGED pass
      /\ UNCHANGED <<program, grad, gave, graph, fires, finals, broken>>
  BY <1>1, <1>2, <1>3 DEF EndBackward, Ends, AllFired
<1>5. TypedRank(P, R, "backward", k, f, n) /\ JRank(P, L, R, "backward", k, f, n)
  BY <1>1, <1>4, RankAt
<1>6. /\ DOMAIN R = Fields /\ R.error = FALSE /\ R.expect \in BOOLEAN /\ R.finalize \in BOOLEAN
      /\ R.callback \in {"none", "delay", "finalize"}
  BY <1>5 DEF TypedRank, JRank, Typed
<1>7. DOMAIN red = Ranks /\ DOMAIN pc = Ranks /\ DOMAIN pass = Ranks
  BY DEF IInv, Shape
<1>8. Fits(P) /\ ~broken => Sits(P, L, R, "backward", k, G, f, g, n)
  BY <1>1, <1>4, KnownAt
<1>9. /\ fires'[r] = f /\ finals'[r] = n /\ graph'[r] = G /\ grad'[r] = g /\ program' = program
      /\ broken' = broken /\ \A s \in Ranks \ {r} : graph'[s] = graph[s] /\ grad'[s] = grad[s]
  BY <1>1, <1>4
<1>10. CASE /\ R.callback = "none" /\ Goto(r, "idle")
            /\ pass' = [pass EXCEPT ![r] = @ + 1] /\ UNCHANGED red
  <2>1. R.callback = "none" /\ AllFired(f)
    BY <1>4, <1>10
  <2>2. Fits(P) /\ ~broken => KRank(P, R, "idle", k + 1, G, f, g, n)
    BY <1>8, <2>1, EndKRank
  <2>3. Others(r) /\ red'[r] = R /\ pc'[r] = "idle" /\ pass'[r] = k + 1
    BY <1>1, <1>4, <1>7, <1>10 DEF Others, Goto
  <2> QED
    BY <1>1, <1>9, <2>2, <2>3, StepK
<1>11. CASE /\ R.callback # "none" /\ Update(r, Q)
            /\ GotoUnless(r, red'[r], "final") /\ UNCHANGED pass
  <2>1. PICK m : m = IF Q.error THEN "raised" ELSE "final"
    OBVIOUS
  <2>2. red' = [red EXCEPT ![r] = Q] /\ red'[r] = Q
    BY <1>7, <1>11 DEF Update
  <2>3. pc' = [pc EXCEPT ![r] = m]
    BY <1>11, <2>1, <2>2 DEF GotoUnless, Goto
  <2>4. Fits(P) /\ ~broken => KRank(P, Q, m, k, G, f, g, n)
    <3> SUFFICES ASSUME Fits(P), ~broken PROVE KRank(P, Q, m, k, G, f, g, n)
      OBVIOUS
    <3>0. Sits(P, L, R, "backward", k, G, f, g, n)
      BY <1>8
    <3>1. CASE R.callback = "finalize"
      <4>1. S = FinalCallback(R)
        BY <1>2, <3>1
      <4>2. Concluded(P, R, Q) /\ Q.error = e
        <5>1. P = program
          BY <1>1
        <5>2. DOMAIN R = Fields
          BY <1>6
        <5>3. Q = Ends(S, e)
          BY <1>3
        <5> QED
          BY ONLY <4>1, <5>1, <5>2, <5>3, ConcludedEffect
      <4>3. Marking(R, "backward")
        BY <1>5 DEF JRank, Keeps
      <4>4. R.finalize /\ R.expect
        BY <3>1, <4>3 DEF Marking
      <4>5. S.error = FALSE /\ S.expect = R.expect /\ S.finalize = R.finalize
        BY <1>6, <4>1 DEF FinalCallback, PushRebuilt, Fields
      <4>6. e = FALSE
        BY <1>3, <1>6, <4>4, <4>5
      <4>7. KRank(P, Q, "final", k, G, f, g, n)
        BY <3>0, <3>1, <4>2, ConcludeKRank
      <4> QED
        BY <2>1, <4>2, <4>6, <4>7
    <3>2. CASE R.callback = "delay"
      <4>1. S = DelayAllReduce(R, g) /\ P = program /\ AllFired(f)
        BY <1>1, <1>2, <1>4, <3>2
      <4>2. Q.error = FALSE /\ KRank(P, Q, "final", k, G, f, g, n)
        BY ONLY <1>3, <3>0, <3>2, <4>1, DelayKRank
      <4> QED
        BY <2>1, <4>2
    <3> QED
      BY <1>6, <1>11, <3>1, <3>2
  <2>5. Others(r) /\ red'[r] = Q /\ pc'[r] = m /\ pass'[r] = k
    BY <1>1, <1>4, <1>7, <1>11, <2>2, <2>3 DEF Others
  <2> QED
    BY <1>1, <1>9, <2>4, <2>5, StepK
<1> QED
  BY <1>4, <1>10, <1>11

\* finalize_backward.
LEMMA FinalizeBackwardK ==
  ASSUME IInv, JInv, KInv, Tables, NEW r \in Ranks, FinalizeBackward(r)
  PROVE  KInv'
<1>1. PICK P, L, R, k, f, n, g, Q, G, z :
        /\ P = program /\ L = Layout /\ R = red[r] /\ k = pass[r] /\ f = fires[r] /\ n = finals[r]
        /\ g = grad[r] /\ Q = FinalizedReducer(R) /\ G = graph[r] /\ z = grad'[r]
  OBVIOUS
<1>2. /\ pc[r] = "final" /\ red' = [red EXCEPT ![r] = Q] /\ pc' = [pc EXCEPT ![r] = "idle"]
      /\ grad' = [grad EXCEPT ![r] = FinalizedGrads(R, g)]
      /\ pass' = [pass EXCEPT ![r] = @ + 1] /\ finals' = [finals EXCEPT ![r] = @ + 1]
      /\ UNCHANGED <<program, gave, graph, fires, broken>>
  BY <1>1 DEF FinalizeBackward, Update, Goto
<1>3. Fits(P) /\ ~broken => KRank(P, Q, "idle", k + 1, G, f, z, n + 1)
  <2> SUFFICES ASSUME Fits(P), ~broken PROVE KRank(P, Q, "idle", k + 1, G, f, z, n + 1)
    OBVIOUS
  <2>1. Sits(P, L, R, "final", k, G, f, g, n)
    BY <1>1, <1>2, KnownAt
  <2>2. P = program /\ Q = FinalizedReducer(R)
    BY <1>1
  <2> QED
    BY ONLY <2>1, <2>2, FinalizeKRank
<1>4. /\ DOMAIN red = Ranks /\ DOMAIN pc = Ranks /\ DOMAIN pass = Ranks /\ DOMAIN finals = Ranks
      /\ DOMAIN grad = Ranks
  BY DEF IInv, Shape, Tables, GradsShaped
<1>5. /\ Others(r) /\ red'[r] = Q /\ pc'[r] = "idle" /\ pass'[r] = k + 1 /\ fires'[r] = f
      /\ finals'[r] = n + 1 /\ program' = program /\ graph'[r] = G /\ broken' = broken
      /\ \A s \in Ranks \ {r} : graph'[s] = graph[s] /\ grad'[s] = grad[s]
  BY <1>1, <1>2, <1>4 DEF Others
<1> QED
  BY <1>1, <1>3, <1>5, StepK

\* The process group completes a collective.
LEMMA CollectiveK ==
  ASSUME IInv, KInv, Collective
  PROVE  KInv'
<1>1. PICK P : P = program
  OBVIOUS
<1>2. /\ red' = [s \in Ranks |-> [red[s] EXCEPT !.work = Tail(@),
                                              !.done = Append(@, [Oldest(s) EXCEPT !.data = CollectiveResult])]]
      /\ UNCHANGED <<program, grad, gave, pc, pass, graph, fires, finals, broken>>
  BY DEF Collective
<1>3. \A s \in Ranks : Alike(red[s], red'[s])
  <2> TAKE s \in Ranks
  <2>1. PICK S, Q, t, u : /\ S = red[s] /\ Q = red'[s] /\ t = Tail(S.work)
                          /\ u = Append(S.done, [Oldest(s) EXCEPT !.data = CollectiveResult])
    OBVIOUS
  <2>2. Q = [S EXCEPT !.work = t, !.done = u]
    BY <1>2, <2>1
  <2>3. DOMAIN S = Fields
    BY <2>1 DEF IInv, RankTypes
  <2>4. Alike(S, Q)
    BY <2>2, <2>3 DEF Alike, Fields
  <2> QED
    BY <2>1, <2>4
<1>4. ASSUME Fits(P), ~broken, NEW s \in Ranks
      PROVE  KRank(P, red'[s], pc[s], pass[s], graph[s], fires[s], grad[s], finals[s])
  <2>1. PICK R, Q, l, k, G, f, g, n :
          /\ R = red[s] /\ Q = red'[s] /\ l = pc[s] /\ k = pass[s] /\ G = graph[s] /\ f = fires[s]
          /\ g = grad[s] /\ n = finals[s]
    OBVIOUS
  <2>2. KRank(P, R, l, k, G, f, g, n) /\ Alike(R, Q)
    BY <1>1, <1>3, <1>4, <2>1 DEF KInv
  <2>3. KRank(P, Q, l, k, G, f, g, n)
    BY ONLY <2>2, AlikeKRank
  <2> QED
    BY <2>1, <2>3
<1>5. /\ P = program' /\ pc' = pc /\ pass' = pass /\ graph' = graph /\ fires' = fires /\ grad' = grad
      /\ finals' = finals /\ broken' = broken
  BY <1>1, <1>2
<1>6. ASSUME Fits(P), ~broken', NEW s \in Ranks
      PROVE  KRank(P, red'[s], pc'[s], pass'[s], graph'[s], fires'[s], grad'[s], finals'[s])
  BY <1>4, <1>5, <1>6
<1>7. P = program'
  BY <1>5
<1> QED
  BY <1>6, <1>7 DEF KInv

\* A rank starts with nothing expected.
LEMMA InitK == Init => KInv
<1> SUFFICES ASSUME Init, NEW r \in Ranks
             PROVE  KRank(program, red[r], pc[r], pass[r], graph[r], fires[r], grad[r], finals[r])
  BY DEF KInv
<1>1. PICK P, R, G, f, g : P = program /\ R = NewReducer /\ G = graph[r] /\ f = fires[r] /\ g = grad[r]
  OBVIOUS
<1>2. red[r] = R /\ pc[r] = "idle" /\ pass[r] = 0 /\ finals[r] = 0
  BY <1>1 DEF Init
<1>3. R.iterations = 0 /\ R.expect = FALSE /\ R.finalize = FALSE /\ R.used = {}
  BY <1>1 DEF NewReducer
<1>4. UsedHere(R, "idle", g)
  BY <1>3 DEF UsedHere
<1>5. KRank(P, R, "idle", 0, G, f, g, 0)
  BY <1>3, <1>4 DEF KRank
<1> QED
  BY <1>1, <1>2, <1>5

\* Every step keeps the invariant.
LEMMA NextK ==
  ASSUME IInv, JInv, KInv, Tables, [Next]_vars
  PROVE  KInv'
<1>1. CASE UNCHANGED vars
  BY <1>1 DEF vars, KInv
<1>2. CASE Collective
  BY <1>2, CollectiveK
<1>3. ASSUME NEW r \in Ranks, Step(r) PROVE KInv'
  <2>1. CASE Forward(r)
    BY <2>1, ForwardK
  <2>2. CASE SyncBucketIndices(r)
    BY <2>2, SyncBucketIndicesK
  <2>3. CASE InitializeBuckets(r)
    BY <2>3, InitializeBucketsK
  <2>4. CASE Backward(r)
    BY <2>4, BackwardK
  <2>5. CASE \E p \in Params : Hook(r, p)
    BY <2>5, HookK
  <2>6. CASE EndBackward(r)
    BY <2>6, EndBackwardK
  <2>7. CASE FinalizeBackward(r)
    BY <2>7, FinalizeBackwardK
  <2> QED
    BY <1>3, <2>1, <2>2, <2>3, <2>4, <2>5, <2>6, <2>7 DEF Step
<1> QED
  BY <1>1, <1>2, <1>3 DEF Next

\* A rank that has raised while all kept the contract has another number of buckets than
\* rank 0.
LEMMA InvNoAlarm ==
  ASSUME KInv, Fits(program)
  PROVE  NoFalseAlarm
<1> SUFFICES ASSUME NEW r \in Ranks, pc[r] = "raised", ~broken
             PROVE  CountsDiffer
  BY DEF NoFalseAlarm
<1>1. KRank(program, red[r], pc[r], pass[r], graph[r], fires[r], grad[r], finals[r])
  BY DEF KInv
<1>2. Len(red[r].plan) \notin {0, Len(red[r].buckets)}
  BY <1>1 DEF KRank
<1> QED
  BY <1>2 DEF CountsDiffer

\* While all ranks keep the contract of the mode, the hooks that are to fire are exactly those
\* that a reduction still waits for, and the used map agrees with the gradients.
THEOREM ExpectationInvariant == Spec => []KInv
<1>1. Init => KInv
  BY InitK
<1>2. IInv /\ (JInv /\ Tables) /\ KInv /\ [Next]_vars => KInv'
  BY NextK
<1> QED
  BY <1>1, <1>2, ReducerInvariant, CollectivesInvariant, PTL DEF Spec

\* No check of the Reducer fails by itself: in a program that fits, on ranks that keep the
\* contract of the mode, only the assertion of initialize_buckets can, on a rank that computed
\* another number of buckets than rank 0.
THEOREM NoAlarm == Spec => [](Fits(program) => NoFalseAlarm)
<1>1. KInv => (Fits(program) => NoFalseAlarm)
  BY InvNoAlarm
<1> QED
  BY <1>1, ExpectationInvariant, PTL

-----------------------------------------------------------------------------
(* The gradients.                                                            *)

\* The programs of which the sums are claimed: only synchronised passes reduce, and with a
\* static graph the checks of the Reducer are kept.
Sums(P) ==
  /\ \A i \in 2..Len(P.passes) : P.passes[i - 1] = "ignored" => P.passes[i] # "nosync"
  /\ P.mode = "static" => Fits(P)

\* A backward of the graph G runs hooks of p.
Touches(P, G, p) == G.loss[p] > 0 \/ (P.mode = "unused" /\ p \in G.out)

\* The rank is in the backward of a synchronised pass, or has completed the pass.
Syncing(P, l, k) == l \in {"backward", "final"} /\ P.passes[k + 1] = "sync"
AfterSync(P, l, k) == l = "idle" /\ k > 0 /\ P.passes[k] = "sync"

\* The parameters whose gradients are in the buckets.
Seen(P, R, l) == IF l = "final" THEN Params ELSE IF Deferred(P, R) THEN {} ELSE R.ready

\* v are the gradients that the rank accumulated: the collectives issued have them, and the
\* used map.
Carries(R, v) ==
  \A i \in 1..Len(R.work) :
    /\ R.work[i].kind = "bucket" => \A p \in Range(R.work[i].key) : R.work[i].data[p] = v[p]
    /\ R.work[i].kind = "used" => R.work[i].data = R.used

\* local_used_map_ has the parameters whose hooks have fired and found a gradient.
MapExact(P, R, G, f, v) ==
  /\ \A p \in R.used : Touches(P, G, p) /\ v[p] # {}
  /\ \A p \in Params : Touches(P, G, p) /\ v[p] # {} /\ f[p] = 0 => p \in R.used

\* In the backward of a synchronised pass.
Amounts(P, R, l, G, f, v) ==
  /\ \A p \in Seen(P, R, l) : R.view[p] = v[p]
  /\ Carries(R, v)
  /\ \A p \in Params : f[p] > 0 => Touches(P, G, p)
  /\ \A p \in Params : G.loss[p] > 0 /\ f[p] = 0 => v[p] # {}
  /\ P.mode = "plain" => \A p \in Seen(P, R, l) : G.loss[p] > 0
  /\ P.mode = "unused" \/ Deferred(P, R) => MapExact(P, R, G, f, v)
  /\ l = "final" => \A p \in Params : f[p] = 0

\* The invariant of a rank with the gradients g.
GRank(P, R, l, k, G, f, g, v) ==
  /\ AfterSync(P, l, k) \/ g = v
  /\ P.mode = "unused" /\ ~R.finalize => R.used = {}
  /\ Syncing(P, l, k) => Amounts(P, R, l, G, f, v)
  /\ AfterSync(P, l, k) /\ ~R.expect =>
       \A p \in Params : /\ G.loss[p] > 0 => v[p] # {}
                         /\ P.mode = "plain" => G.loss[p] > 0

\* Rank s is in the backward of the k-th pass or has finalized it.
Here(s, k) ==
  \/ pc[s] \in {"backward", "final"} /\ pass[s] + 1 = k
  \/ pc[s] = "idle" /\ pass[s] = k /\ ~red[s].expect
AllHere(k) == \A s \in Ranks : Here(s, k)

\* The parameters that a rank uses, and those that some rank does.
UsedBy(P, R, l, G, v) ==
  IF P.mode = "plain" THEN Params
  ELSE IF P.mode = "static" THEN {p \in Params : G.loss[p] > 0}
  ELSE IF l = "idle" THEN {p \in Params : Touches(P, G, p) /\ v[p] # {}}
  ELSE R.used
AllUsed == UNION {UsedBy(program, red[s], pc[s], graph[s], gave[s]) : s \in Ranks}

\* What all ranks accumulated.
Total(p) == UNION {gave[s][p] : s \in Ranks}

\* The results D of the buckets are the totals T, and those of the used maps are U.
Summed(D, T, U, mode) ==
  \A i \in 1..Len(D) :
    /\ D[i].kind = "bucket" => \A p \in Range(D[i].key) : D[i].data[p] = T[p]
    /\ D[i].kind = "used" /\ mode = "unused" => D[i].data = U
Totals == [p \in Params |-> Total(p)]

\* The results of a rank in the backward of a pass that all others are in, too.
ResultsRight(r) ==
  Syncing(program, pc[r], pass[r]) /\ AllHere(pass[r] + 1) =>
    Summed(red[r].done, Totals, AllUsed, Mode)

\* The gradients of a rank that has finalized such a pass.
GradsRight(r) ==
  AfterSync(program, pc[r], pass[r]) /\ ~red[r].expect /\ AllHere(pass[r]) =>
    \A p \in Params : grad[r][p] = IF p \in AllUsed THEN Totals[p] ELSE gave[r][p]

\* The used map of a static graph is reduced once and the same for ever.
MapKept(P, R, n, U) ==
  /\ P.mode # "static" \/ n = 0 => R.reduced = FALSE
  /\ P.mode = "static" =>
       /\ n > 0 => R.used = U
       /\ \A i \in 1..Len(R.done) : R.done[i].kind = "used" => R.done[i].data = U

\* The hypotheses: no rank has raised an exception, and a static graph is the same for ever.
Calm == Sums(program) /\ ~Changed /\ \A r \in Ranks : pc[r] # "raised"

\* The invariant, in its parts.
GParts ==
  /\ \A r \in Ranks :
       GRank(program, red[r], pc[r], pass[r], graph[r], fires[r], grad[r], gave[r])
  /\ \A r \in Ranks : ResultsRight(r) /\ GradsRight(r)
  /\ \A r \in Ranks : MapKept(program, red[r], finals[r], AllUsed)

\* The inductive invariant.
GInv == Calm => GParts

-----------------------------------------------------------------------------
(* What a hook does to the buckets.                                          *)

\* The buckets have the gradients z of the parameters that are ready, and so have the
\* collectives issued.
Stocked(R, z) ==
  /\ \A p \in R.ready : R.view[p] = z[p]
  /\ \A i \in 1..Len(R.work) :
       /\ R.work[i].kind = "bucket" =>
            \A p \in Range(R.work[i].key) : p \in R.ready /\ R.work[i].data[p] = z[p]
       /\ R.work[i].kind = "used" => R.work[i].data = R.used

\* One more collective of that kind.
HasData(w, Q, z) ==
  /\ w.kind = "bucket" => \A p \in Range(w.key) : p \in Q.ready /\ w.data[p] = z[p]
  /\ w.kind = "used" => w.data = Q.used

\* A bucket of parameters that are ready has their gradients.
LEMMA BucketData ==
  ASSUME NEW R, NEW i, NEW z, \A p \in R.ready : R.view[p] = z[p], Complete(R, i)
  PROVE  HasData(AllReduceBucket(R, i), R, z)
<1>1. PICK w : w = AllReduceBucket(R, i)
  OBVIOUS
<1>2. w.kind = "bucket" /\ w.key = R.buckets[i] /\ w.data = [p \in Range(R.buckets[i]) |-> R.view[p]]
  BY <1>1 DEF AllReduceBucket, Work
<1>3. \A p \in Range(w.key) : p \in R.ready /\ w.data[p] = z[p]
  BY <1>2 DEF Complete
<1> QED
  BY <1>1, <1>2, <1>3 DEF HasData

\* So has the used map.
LEMMA UsedData ==
  ASSUME NEW R, NEW z
  PROVE  HasData(AllReduceLocalUsedMap(R), R, z)
  BY DEF HasData, AllReduceLocalUsedMap, Work

\* A rank that issues collectives with the right data.
LEMMA StockedMore ==
  ASSUME NEW R, NEW Q, NEW z, Stocked(R, z), NEW t, t \in Seq(Range(t)), R.work \in Seq(Range(R.work)),
         Q.work = R.work \o t, Q.ready = R.ready, Q.view = R.view, Q.used = R.used,
         \A i \in 1..Len(t) : HasData(t[i], R, z)
  PROVE  Stocked(Q, z)
<1>1. Len(R.work) \in Nat /\ Len(t) \in Nat
  OBVIOUS
<1>2. /\ Len(Q.work) = Len(R.work) + Len(t)
      /\ \A i \in 1..Len(R.work) : Q.work[i] = R.work[i]
      /\ \A i \in Len(R.work) + 1..Len(Q.work) : Q.work[i] = t[i - Len(R.work)]
  <2>1. PICK D : D = Range(R.work) \cup Range(t)
    OBVIOUS
  <2>2. R.work \in Seq(D) /\ t \in Seq(D)
    BY <2>1
  <2> QED
    BY <2>2, ConcatProperties
<1>3. ASSUME NEW i \in 1..Len(Q.work) PROVE HasData(Q.work[i], Q, z)
  <2>1. CASE i \leq Len(R.work)
    <3>1. i \in 1..Len(R.work) /\ Q.work[i] = R.work[i]
      BY <1>1, <1>2, <2>1
    <3> QED
      BY <3>1 DEF Stocked, HasData
  <2>2. CASE ~(i \leq Len(R.work))
    <3>1. i \in Len(R.work) + 1..Len(Q.work) /\ i - Len(R.work) \in 1..Len(t)
      BY <1>1, <1>2, <2>2
    <3>2. HasData(t[i - Len(R.work)], R, z)
      BY <3>1
    <3> QED
      BY <1>2, <3>1, <3>2 DEF HasData
  <2> QED
    BY <2>1, <2>2
<1>4. \A p \in Q.ready : Q.view[p] = z[p]
  BY DEF Stocked
<1> QED
  BY <1>3, <1>4 DEF Stocked, HasData

\* The buckets that are complete are issued with the gradients of their parameters.
LEMMA IssueStocked ==
  ASSUME NEW P, NEW R, Sane(P, R), IsWorks(P, R.work), NEW z, Stocked(R, z)
  PROVE  LET Q == AllBucketsReady(MarkBucketReady(R)) IN
         /\ Stocked(Q, z) /\ Q.ready = R.ready /\ Q.used = R.used /\ Q.finalize = R.finalize
         /\ Q.error = R.error
<1>0. R.work \in Seq(Range(R.work)) /\ DOMAIN R = Fields
  BY DEF IsWorks, Sane
<1>1. PICK T : T = MarkBucketReady(R)
  OBVIOUS
<1>2. PICK t, j : /\ T = [R EXCEPT !.next = j, !.work = R.work \o t]
                  /\ j \in R.next..Len(R.buckets) + 1
                  /\ \A k \in R.next..j - 1 : Complete(R, k)
                  /\ t \in Seq(Range(t)) /\ Len(t) = j - R.next
                  /\ \A i \in 1..Len(t) : t[i] = AllReduceBucket(R, (R.next - 1) + i)
  BY <1>0, <1>1, BucketsTurn
<1>3. R.next \in Nat /\ j \in Int
  BY <1>2 DEF Sane, IsLayout
<1>4. \A i \in 1..Len(t) : HasData(t[i], R, z)
  <2> TAKE i \in 1..Len(t)
  <2>1. (R.next - 1) + i \in R.next..j - 1
    BY <1>2, <1>3
  <2>2. Complete(R, (R.next - 1) + i)
    BY <1>2, <2>1
  <2> QED
    BY <1>2, <2>2, BucketData DEF Stocked
<1>5. /\ T.work = R.work \o t /\ T.ready = R.ready /\ T.view = R.view /\ T.used = R.used
      /\ DOMAIN T = Fields /\ T.finalize = R.finalize /\ T.error = R.error
  BY <1>0, <1>2 DEF Fields
<1>6. Stocked(T, z)
  BY <1>0, <1>2, <1>4, <1>5, StockedMore
<1>7. PICK Q : Q = AllBucketsReady(T)
  OBVIOUS
<1>8. CASE Q = T
  BY <1>1, <1>5, <1>6, <1>7, <1>8
<1>9. CASE Q # T
  <2>1. PICK u : u = IF DynamicFindUnused THEN <<AllReduceLocalUsedMap(T)>> ELSE <<>>
    OBVIOUS
  <2>2. T.work \in Seq(Range(T.work))
    <3>1. PICK D : D = Range(R.work) \cup Range(t)
      OBVIOUS
    <3>2. R.work \in Seq(D) /\ t \in Seq(D)
      BY <1>0, <1>2, <3>1
    <3>3. T.work \in Seq(D)
      BY <1>5, <3>2
    <3> QED
      BY <3>3, SeqOfRange
  <2>3. u \in Seq(Range(u)) /\ \A i \in 1..Len(u) : HasData(u[i], T, z)
    <3>1. CASE DynamicFindUnused
      <4>1. PICK w : w = AllReduceLocalUsedMap(T)
        OBVIOUS
      <4>2. HasData(w, T, z)
        BY <4>1, UsedData
      <4>3. u = <<w>>
        BY <2>1, <3>1, <4>1
      <4>4. u \in Seq({w}) /\ Len(u) = 1 /\ u[1] = w
        BY <4>3
      <4>5. u \in Seq(Range(u))
        BY <4>4, SeqOfRange
      <4> QED
        BY <4>2, <4>4, <4>5
    <3>2. CASE ~DynamicFindUnused
      <4>1. u = <<>>
        BY <2>1, <3>2
      <4>2. u \in Seq(Range(u)) /\ Len(u) = 0
        BY <4>1
      <4> QED
        BY <4>2
    <3> QED
      BY <3>1, <3>2
  <2>4. PICK x : /\ Q = [T EXCEPT !.callback = "finalize", !.work = x]
                 /\ x = IF DynamicFindUnused THEN Append(T.work, AllReduceLocalUsedMap(T)) ELSE T.work
    BY <1>7, <1>9 DEF AllBucketsReady
  <2>5. x = T.work \o u
    <3>1. CASE DynamicFindUnused
      <4>1. PICK w : w = AllReduceLocalUsedMap(T)
        OBVIOUS
      <4>2. x = Append(T.work, w) /\ u = <<w>>
        BY <2>1, <2>4, <3>1, <4>1
      <4>3. PICK D : D = Range(T.work) \cup {w}
        OBVIOUS
      <4>4. T.work \in Seq(D) /\ w \in D
        BY <2>2, <4>3
      <4> QED
        BY <4>2, <4>4
    <3>2. CASE ~DynamicFindUnused
      <4>1. x = T.work /\ u = <<>>
        BY <2>1, <2>4, <3>2
      <4> QED
        BY <2>2, <4>1
    <3> QED
      BY <3>1, <3>2
  <2>6. /\ Q.work = T.work \o u /\ Q.ready = T.ready /\ Q.view = T.view /\ Q.used = T.used
        /\ Q.finalize = T.finalize /\ Q.error = T.error
    BY <1>5, <2>4, <2>5 DEF Fields
  <2>7. Stocked(Q, z)
    BY <1>6, <2>2, <2>3, <2>6, StockedMore
  <2> QED
    BY <1>1, <1>5, <1>7, <2>6, <2>7
<1> QED
  BY <1>8, <1>9

\* Q is R with the gradients z of S in the buckets.
StockedWith(R, Q, z, S) ==
  /\ Stocked(Q, z) /\ S \cap R.ready = {} /\ Q.ready = R.ready \cup S /\ Q.used = R.used
  /\ S # {} => Q.finalize = TRUE

\* mark_variable_ready copies the gradients of S into the buckets.
LEMMA MarkStocked ==
  ASSUME NEW P, NEW R, Sane(P, R), IsWorks(P, R.work), R.error = FALSE,
         NEW z \in [Params -> Given(P)], NEW S, S \subseteq Params,
         NEW Q, Q = MarkVariablesReady(R, z, S), Q.error = FALSE, Stocked(R, z)
  PROVE  StockedWith(R, Q, z, S)
<1>0. DOMAIN R = Fields
  BY DEF Sane
<1>1. CASE S = {}
  <2>1. Q = R
    BY <1>1 DEF MarkVariablesReady
  <2> QED
    BY <1>1, <2>1 DEF StockedWith
<1>2. CASE S # {}
  <2>1. S \cap R.ready = {}
    <3> SUFFICES ASSUME S \cap R.ready # {} PROVE FALSE
      OBVIOUS
    <3>1. Q = [R EXCEPT !.error = TRUE]
      BY <1>2 DEF MarkVariablesReady
    <3> QED
      BY <1>0, <3>1 DEF Fields
  <2>2. PICK X, H : /\ X = [R EXCEPT !.ready = @ \cup S, !.finalize = TRUE]
                    /\ H = MarkVariablesReadyDense(X, z, S)
    OBVIOUS
  <2>3. /\ DOMAIN X = Fields /\ X.ready = R.ready \cup S /\ X.finalize = TRUE /\ X.view = R.view
        /\ X.work = R.work /\ X.used = R.used /\ X.buckets = R.buckets /\ X.next = R.next
        /\ X.unused = R.unused /\ X.hooks = R.hooks /\ X.left = R.left /\ X.callback = R.callback
        /\ X.order = R.order /\ X.marked = R.marked /\ X.rebuilt = R.rebuilt
    BY <1>0, <2>2 DEF Fields
  <2>4. PICK v, e : /\ H = [X EXCEPT !.view = v, !.error = e]
                    /\ v = [p \in Params |-> IF p \in S THEN z[p] ELSE X.view[p]]
    BY <2>2 DEF MarkVariablesReadyDense
  <2>5. /\ DOMAIN H = Fields /\ H.ready = X.ready /\ H.finalize = X.finalize /\ H.view = v
        /\ H.work = X.work /\ H.used = X.used /\ H.buckets = X.buckets /\ H.next = X.next
        /\ H.unused = X.unused /\ H.hooks = X.hooks /\ H.left = X.left /\ H.callback = X.callback
        /\ H.order = X.order /\ H.marked = X.marked /\ H.rebuilt = X.rebuilt
    BY <2>3, <2>4 DEF Fields
  <2>6. Q = IF H.error THEN H ELSE AllBucketsReady(MarkBucketReady(H))
    BY <1>2, <2>1, <2>2 DEF MarkVariablesReady
  <2>7. ~H.error
    BY <2>6
  <2>8. R.view \in [Params -> Given(P)] /\ R.ready \subseteq Params
    BY DEF Sane
  <2>9. v \in [Params -> Given(P)]
    BY <2>3, <2>4, <2>8
  <2>10. H.ready \subseteq Params
    BY <2>3, <2>5, <2>8
  <2>11. Sane(P, H)
    BY <2>3, <2>5, <2>9, <2>10 DEF Sane
  <2>12. \A p \in H.ready : H.view[p] = z[p]
    <3> TAKE p \in H.ready
    <3>1. p \in Params /\ p \in R.ready \cup S
      BY <2>3, <2>5, <2>10
    <3> QED
      BY <2>3, <2>4, <2>5, <3>1 DEF Stocked
  <2>13. Stocked(H, z)
    <3>1. H.work = R.work /\ H.used = R.used /\ R.ready \subseteq H.ready
      BY <2>3, <2>5
    <3> QED
      BY <2>12, <3>1 DEF Stocked
  <2>14. IsWorks(P, H.work)
    BY <2>3, <2>5
  <2>15. /\ Stocked(Q, z) /\ Q.ready = H.ready /\ Q.used = H.used /\ Q.finalize = H.finalize
    BY <2>6, <2>7, <2>11, <2>13, <2>14, IssueStocked
  <2> QED
    BY <2>1, <2>3, <2>5, <2>15 DEF StockedWith
<1> QED
  BY <1>1, <1>2

\* What a hook of p leaves behind that fails no check: z are the gradients after it.
Hooks(P, R, Q, z, p) ==
  /\ Stocked(Q, z) /\ p \notin R.ready
  /\ R.ready \subseteq Q.ready /\ Q.ready \subseteq (R.ready \cup R.unused) \cup {p}
  /\ Q.used = IF P.mode = "unused" /\ z[p] # {} THEN R.used \cup {p} ELSE R.used
  /\ P.mode # "static" => Q.finalize = TRUE

\* A hook that marks its parameter.
LEMMA MarkHookedStocked ==
  ASSUME NEW P, P = program, NEW R, Sane(P, R), IsWorks(P, R.work), R.error = FALSE,
         NEW z \in [Params -> Given(P)], NEW p \in Params,
         NEW Q, Q = MarkHooked(R, z, p), Q.error = FALSE, Stocked(R, z)
  PROVE  StockedWith(R, Q, z, {p})
<1>1. PICK T : T = PushRebuilt(R, <<p>>)
  OBVIOUS
<1>2. DOMAIN R = Fields /\ R.order \in Seq(Params)
  BY DEF Sane
<1>4. /\ DOMAIN T = Fields /\ T.ready = R.ready /\ T.finalize = R.finalize /\ T.view = R.view
      /\ T.work = R.work /\ T.used = R.used /\ T.buckets = R.buckets /\ T.next = R.next
      /\ T.unused = R.unused /\ T.hooks = R.hooks /\ T.left = R.left /\ T.callback = R.callback
      /\ T.order \in Seq(Params) /\ T.marked = R.marked /\ T.rebuilt = R.rebuilt /\ T.error = R.error
  <2>1. CASE ShouldRebuild(R)
    <3>1. PICK o : o = R.order \o <<p>>
      OBVIOUS
    <3>2. T = [R EXCEPT !.order = o]
      BY <1>1, <2>1, <3>1 DEF PushRebuilt
    <3>3. o \in Seq(Params)
      BY <1>2, <3>1
    <3> QED
      BY <1>2, <3>2, <3>3 DEF Fields
  <2>2. CASE ~ShouldRebuild(R)
    BY <1>1, <1>2, <2>2 DEF PushRebuilt
  <2> QED
    BY <2>1, <2>2
<1>5. Sane(P, T) /\ IsWorks(P, T.work) /\ Stocked(T, z) /\ T.error = FALSE
  BY <1>4 DEF Sane, Stocked
<1>6. Q = MarkVariablesReady(T, z, {p})
  BY <1>1 DEF MarkHooked
<1>7. {p} \subseteq Params /\ {p} # {}
  OBVIOUS
<1>8. PICK S : S = {p}
  OBVIOUS
<1>9. StockedWith(T, Q, z, S)
  <2>1. Q = MarkVariablesReady(T, z, S) /\ S \subseteq Params
    BY <1>6, <1>7, <1>8
  <2> QED
    BY ONLY <1>5, <2>1, z \in [Params -> Given(P)], Q.error = FALSE, MarkStocked
<1> QED
  BY <1>4, <1>8, <1>9 DEF StockedWith

\* mark_variable_ready, when it fails no check.
Marked(R, Q, S) == S \cap R.ready = {} /\ Q.ready = R.ready \cup S /\ Q.used = R.used

\* mark_variable_ready adds to the parameters that are ready and to the collectives issued.
LEMMA MarkGrows ==
  ASSUME NEW R, DOMAIN R = Fields, R.error = FALSE, NEW g, NEW S,
         NEW Q, Q = MarkVariablesReady(R, g, S), Q.error = FALSE
  PROVE  Marked(R, Q, S)
<1>1. CASE S = {}
  <2>1. Q = R
    BY <1>1 DEF MarkVariablesReady
  <2> QED
    BY <1>1, <2>1 DEF Marked
<1>2. CASE S # {}
  <2>1. S \cap R.ready = {}
    <3> SUFFICES ASSUME S \cap R.ready # {} PROVE FALSE
      OBVIOUS
    <3>1. Q = [R EXCEPT !.error = TRUE]
      BY <1>2 DEF MarkVariablesReady
    <3> QED
      BY <3>1 DEF Fields
  <2>2. PICK X, H : /\ X = [R EXCEPT !.ready = @ \cup S, !.finalize = TRUE]
                    /\ H = MarkVariablesReadyDense(X, g, S)
    OBVIOUS
  <2>3. DOMAIN X = Fields /\ X.ready = R.ready \cup S /\ X.used = R.used
    BY <2>2 DEF Fields
  <2>4. PICK v, e : H = [X EXCEPT !.view = v, !.error = e] /\ e \in BOOLEAN
    BY <2>2 DEF MarkVariablesReadyDense
  <2>5. DOMAIN H = Fields /\ H.ready = X.ready /\ H.used = X.used /\ H.error = e
    BY <2>3, <2>4 DEF Fields
  <2>6. Q = IF H.error THEN H ELSE AllBucketsReady(MarkBucketReady(H))
    BY <1>2, <2>1, <2>2 DEF MarkVariablesReady
  <2>7. H.error = FALSE
    BY <2>4, <2>5, <2>6
  <2>8. Q = AllBucketsReady(MarkBucketReady(H))
    BY <2>6, <2>7
  <2>9. Q.used = H.used /\ Q.ready = H.ready
    BY <2>5, <2>7, <2>8, BucketsClean
  <2> QED
    BY <2>1, <2>3, <2>5, <2>9 DEF Marked
<1> QED
  BY <1>1, <1>2

\* A hook of a parameter that is ready fails, but for a static graph that does not count it.
LEMMA HookUnready ==
  ASSUME NEW P, P = program, P.mode # "static", NEW B, DOMAIN B = Fields, B.error = FALSE, NEW z, NEW p,
         NEW Q, Q = HookMarks(B, z, p), Q.error = FALSE
  PROVE  p \notin B.ready
<1>1. PICK T : T = PushRebuilt(B, <<p>>)
  OBVIOUS
<1>2. DOMAIN T = Fields /\ T.ready = B.ready /\ T.error = FALSE
  BY <1>1 DEF PushRebuilt, Fields
<1>3. Q = MarkVariablesReady(T, z, {p})
  BY <1>1 DEF HookMarks, MarkHooked, Mode
<1>4. PICK S : S = {p}
  OBVIOUS
<1>5. Q = MarkVariablesReady(T, z, S)
  BY <1>3, <1>4
<1>6. Marked(T, Q, S)
  BY ONLY <1>2, <1>5, Q.error = FALSE, MarkGrows
<1> QED
  BY <1>2, <1>4, <1>6 DEF Marked

\* The first hook marks what was found unused.
LEMMA MarkUnusedStocked ==
  ASSUME NEW P, NEW R, Sane(P, R), IsWorks(P, R.work), R.error = FALSE,
         IF R.marked THEN R.unused \subseteq R.ready ELSE R.ready = {},
         NEW z \in [Params -> Given(P)], NEW Q, Q = MarkUnused(R, z), Q.error = FALSE, Stocked(R, z)
  PROVE  StockedWith(R, Q, z, R.unused \ R.ready)
<1>0. DOMAIN R = Fields /\ R.marked \in BOOLEAN /\ R.unused \subseteq Params
  BY DEF Sane
<1>1. CASE R.marked
  <2>1. Q = R
    BY <1>1 DEF MarkUnused
  <2>2. R.unused \ R.ready = {}
    BY <1>1
  <2> QED
    BY <2>1, <2>2 DEF StockedWith
<1>2. CASE ~R.marked
  <2>1. PICK T, S : T = [R EXCEPT !.marked = TRUE] /\ S = R.unused
    OBVIOUS
  <2>2. Q = MarkVariablesReady(T, z, S)
    BY <1>2, <2>1 DEF MarkUnused
  <2>3. /\ DOMAIN T = Fields /\ T.ready = R.ready /\ T.finalize = R.finalize /\ T.view = R.view
        /\ T.work = R.work /\ T.used = R.used /\ T.buckets = R.buckets /\ T.next = R.next
        /\ T.unused = R.unused /\ T.hooks = R.hooks /\ T.left = R.left /\ T.callback = R.callback
        /\ T.order = R.order /\ T.marked \in BOOLEAN /\ T.rebuilt = R.rebuilt /\ T.error = FALSE
    BY <1>0, <2>1 DEF Fields
  <2>4. Sane(P, T) /\ IsWorks(P, T.work) /\ Stocked(T, z)
    BY <2>3 DEF Sane, Stocked
  <2>5. T.error = FALSE /\ S \subseteq Params
    BY <1>0, <2>1, <2>3
  <2>6. StockedWith(T, Q, z, S)
    BY ONLY <2>2, <2>4, <2>5, Q.error = FALSE, z \in [Params -> Given(P)], MarkStocked
  <2>7. S = R.unused \ R.ready
    BY <1>2, <2>1
  <2> QED
    BY <2>3, <2>6, <2>7 DEF StockedWith
<1> QED
  BY <1>0, <1>1, <1>2

\* autograd_hook, when it marks: what is in the buckets.
LEMMA HookStocked ==
  ASSUME NEW P, P = program, NEW L, NEW R, NEW n, InHook(P, L, R, n), InBuckets(P, L, R, n),
         R.error = FALSE, R.expect, ~Deferred(P, R), R.marked \/ R.ready = {},
         NEW v, NEW z \in [Params -> Given(P)], NEW p \in Params,
         \A q \in Params \ {p} : z[q] = v[q], Stocked(R, v),
         P.mode = "static" => p \notin R.ready,
         P.mode = "unused" /\ p \notin R.ready => \A i \in 1..Len(R.work) : R.work[i].kind # "used",
         NEW Q, Q = AutogradHook(R, z, p), Q.error = FALSE
  PROVE  Hooks(P, R, Q, z, p)
<1>0. /\ DOMAIN R = Fields /\ Sane(P, R) /\ IsWorks(P, R.work) /\ R.ready \subseteq Params
      /\ IF R.marked THEN R.unused \subseteq R.ready ELSE R.ready = {}
  BY DEF InHook, Sane, Ledger
<1>1. PICK A, B : A = MarkUsed(R, z, p) /\ B = MarkUnused(A, z)
  OBVIOUS
<1>2. Q = HookMarks(B, z, p)
  BY <1>1 DEF AutogradHook, StaticFirst, Mode, Deferred
<1>3. UsedAs(P, L, R, A, n)
  BY <1>1, MarkUsedReady
<1>4. InHook(P, L, A, n) /\ InBuckets(P, L, A, n) /\ A.error = FALSE
  BY <1>3 DEF UsedAs
<1>5. /\ A.view = R.view /\ A.ready = R.ready /\ A.work = R.work /\ A.unused = R.unused
      /\ A.marked = R.marked /\ A.finalize = R.finalize /\ DOMAIN A = Fields
      /\ A.used = IF P.mode = "unused" /\ z[p] # {} THEN R.used \cup {p} ELSE R.used
  <2>1. CASE P.mode = "unused" /\ z[p] # {}
    <3>1. A = [R EXCEPT !.used = R.used \cup {p}]
      BY <1>1, <2>1 DEF MarkUsed, DynamicFindUnused, Mode
    <3> QED
      BY <1>0, <2>1, <3>1 DEF Fields
  <2>2. CASE ~(P.mode = "unused" /\ z[p] # {})
    <3>1. A = R
      BY <1>1, <2>2 DEF MarkUsed, DynamicFindUnused, StaticFirst, Mode, Deferred
    <3> QED
      BY <1>0, <2>2, <3>1
  <2> QED
    BY <2>1, <2>2
<1>6. AfterHook(P, L, A, B, n)
  BY <1>1, <1>4, MarkUnusedReady
<1>7. B.error = FALSE
  <2>1. B.error \in BOOLEAN
    BY <1>6 DEF AfterHook
  <2>2. CASE B.error
    BY <1>2, <2>2 DEF HookMarks
  <2> QED
    BY <2>1, <2>2
<1>8. InHook(P, L, B, n) /\ B.marked = TRUE
  BY <1>6, <1>7 DEF AfterHook
<1>9. Sane(P, B) /\ DOMAIN B = Fields /\ IsWorks(P, B.work) /\ B.left \in [Params -> 0..2]
  BY <1>8 DEF InHook, Sane, Ledger
<1>10. p \notin R.ready
  <2>1. CASE P.mode = "static"
    BY <2>1
  <2>2. CASE P.mode # "static"
    <3>1. p \notin B.ready
      BY <1>2, <1>7, <1>9, <2>2, HookUnready
    <3>2. R.ready \subseteq B.ready
      <4>1. CASE A.marked
        BY <1>1, <1>5, <4>1 DEF MarkUnused
      <4>2. CASE ~A.marked
        <5>1. R.ready = {}
          BY <1>5, <4>2
        <5> QED
          BY <5>1
      <4> QED
        BY <4>1, <4>2
    <3> QED
      BY <3>1, <3>2
  <2> QED
    BY <2>1, <2>2
<1>11. Stocked(A, z)
  <2>1. \A q \in A.ready : A.view[q] = z[q]
    <3> TAKE q \in A.ready
    <3>1. q \in R.ready /\ q \in Params \ {p}
      BY <1>0, <1>5, <1>10
    <3> QED
      BY <1>5, <3>1 DEF Stocked
  <2>2. ASSUME NEW i \in 1..Len(A.work), A.work[i].kind = "bucket", NEW q \in Range(A.work[i].key)
        PROVE  q \in A.ready /\ A.work[i].data[q] = z[q]
    <3>1. q \in R.ready /\ A.work[i].data[q] = v[q]
      BY <1>5, <2>2 DEF Stocked
    <3>2. q \in Params \ {p}
      BY <1>0, <1>10, <3>1
    <3> QED
      BY <1>5, <3>1, <3>2
  <2>3. ASSUME NEW i \in 1..Len(A.work), A.work[i].kind = "used"
        PROVE  A.work[i].data = A.used
    <3>1. P.mode # "unused"
      BY <1>5, <1>10, <2>3
    <3> QED
      BY <1>5, <2>3, <3>1 DEF Stocked
  <2> QED
    BY <2>1, <2>2, <2>3 DEF Stocked
<1>12. PICK U : U = A.unused \ A.ready
  OBVIOUS
<1>13. StockedWith(A, B, z, U)
  <2>1. Sane(P, A) /\ IsWorks(P, A.work)
    BY <1>4 DEF InHook, Ledger
  <2>2. IF A.marked THEN A.unused \subseteq A.ready ELSE A.ready = {}
    BY <1>0, <1>5
  <2>3. B = MarkUnused(A, z) /\ z \in [Params -> Given(P)]
    BY <1>1
  <2> QED
    BY ONLY <1>4, <1>7, <1>11, <1>12, <2>1, <2>2, <2>3, MarkUnusedStocked
<1>14. Stocked(B, z) /\ B.ready = R.ready \cup U /\ B.used = A.used /\ U \subseteq R.unused
  BY <1>5, <1>12, <1>13 DEF StockedWith
<1>15. CASE P.mode # "static"
  <2>1. Q = MarkHooked(B, z, p)
    BY <1>2, <1>7, <1>15 DEF HookMarks, Mode
  <2>2. P = program /\ z \in [Params -> Given(P)] /\ p \in Params /\ Q.error = FALSE /\ Stocked(B, z)
    BY <1>14
  <2>3. StockedWith(B, Q, z, {p})
    BY ONLY <1>7, <1>9, <2>1, <2>2, MarkHookedStocked
  <2>4. /\ Stocked(Q, z) /\ Q.ready = B.ready \cup {p} /\ Q.used = B.used /\ Q.finalize = TRUE
    BY <2>3 DEF StockedWith
  <2> QED
    BY <1>5, <1>10, <1>14, <2>4 DEF Hooks
<1>16. CASE P.mode = "static"
  <2>1. Q = CountHook(B, z, p)
    BY <1>2, <1>7, <1>16 DEF HookMarks, Mode
  <2>2. B.left[p] # 0
    <3> SUFFICES ASSUME B.left[p] = 0 PROVE FALSE
      OBVIOUS
    <3>1. Q = [B EXCEPT !.error = TRUE]
      BY <2>1 DEF CountHook
    <3> QED
      BY <1>9, <3>1 DEF Fields
  <2>3. CASE B.left[p] > 1
    <3>1. PICK y : Q = [B EXCEPT !.left = y]
      BY <2>1, <2>2, <2>3 DEF CountHook
    <3>2. Q.view = B.view /\ Q.work = B.work /\ Q.ready = B.ready /\ Q.used = B.used
      BY <1>9, <3>1 DEF Fields
    <3>3. Stocked(Q, z)
      BY <1>14, <3>2 DEF Stocked
    <3> QED
      BY <1>5, <1>10, <1>14, <1>16, <3>2, <3>3 DEF Hooks
  <2>4. CASE ~(B.left[p] > 1)
    <3>1. PICK T, y : /\ T = [B EXCEPT !.left = y] /\ y = [B.left EXCEPT ![p] = 0]
      OBVIOUS
    <3>2. Q = MarkHooked(T, z, p)
      BY <2>1, <2>2, <2>4, <3>1 DEF CountHook
    <3>3. /\ DOMAIN T = Fields /\ T.ready = B.ready /\ T.finalize = B.finalize /\ T.view = B.view
          /\ T.work = B.work /\ T.used = B.used /\ T.buckets = B.buckets /\ T.next = B.next
          /\ T.unused = B.unused /\ T.hooks = B.hooks /\ T.left = y /\ T.callback = B.callback
          /\ T.order = B.order /\ T.marked = B.marked /\ T.rebuilt = B.rebuilt /\ T.error = FALSE
      BY <1>7, <1>9, <3>1 DEF Fields
    <3>4. y \in [Params -> 0..2]
      BY <1>9, <3>1
    <3>5. Sane(P, T) /\ IsWorks(P, T.work) /\ Stocked(T, z)
      BY <1>9, <1>14, <3>3, <3>4 DEF Sane, Stocked
    <3>6. P = program /\ z \in [Params -> Given(P)] /\ p \in Params /\ Q.error = FALSE /\ T.error = FALSE
      BY <3>3
    <3>7. StockedWith(T, Q, z, {p})
      BY ONLY <3>2, <3>5, <3>6, MarkHookedStocked
    <3>8. /\ Stocked(Q, z) /\ Q.ready = B.ready \cup {p} /\ Q.used = B.used
      BY <3>3, <3>7 DEF StockedWith
    <3> QED
      BY <1>5, <1>10, <1>14, <1>16, <3>8 DEF Hooks
  <2> QED
    BY <2>3, <2>4
<1> QED
  BY <1>15, <1>16

-----------------------------------------------------------------------------
\* What the earlier invariants say of a rank that keeps the hypotheses.
Stays(P, L, R, l, k, G, f, g, n) ==
  /\ TypedRank(P, R, l, k, f, n) /\ JRank(P, L, R, l, k, f, n) /\ RankInv(P, R, l, k, G, f, n)
  /\ InRound(P, L, R, n) /\ l # "raised" /\ Sums(P) /\ G \in Graphs[P.mode]
  /\ P.mode = "static" => KRank(P, R, l, k, G, f, g, n)

\* The buckets reduced have only parameters that are ready; with the used map, all are.
ReadyKeys(R, s) ==
  \A i \in 1..Len(s) :
    /\ s[i].kind = "bucket" => Range(s[i].key) \subseteq R.ready
    /\ s[i].kind = "used" => R.ready = Params

\* A rank whose hooks have marked parameters in the current backward.
MarksNow(P, L, R, n) == Sane(P, R) /\ Ledger(P, L, R, n) /\ InBuckets(P, L, R, n) /\ Underway(P, R)

\* A rank that has issued something in its backward has hooks that mark parameters.
LEMMA FinalizingMarks ==
  ASSUME NEW P, NEW L, NEW R, NEW k, NEW G, NEW f, NEW g, NEW n,
         Stays(P, L, R, "backward", k, G, f, g, n), Issued(R) # 0 \/ R.finalize
  PROVE  MarksNow(P, L, R, n) /\ ~Deferred(P, R) /\ R.expect
<1>1. TypedRank(P, R, "backward", k, f, n) /\ JRank(P, L, R, "backward", k, f, n)
      BY DEF Stays
<1>2. Keeps(P, L, R, "backward", k, f, n)
      BY <1>1 DEF JRank
<1>3. R.finalize
      BY <1>2 DEF Keeps, Progress
<1>4. R.expect
      BY <1>2, <1>3 DEF Keeps, Marking
<1>5. P.mode = "static" => R.iterations # 1 /\ n # 0
      <2> HAVE P.mode = "static"
      <2>1. Delays(P, R, "backward", k, f, n)
            BY <1>2 DEF Keeps
      <2>2. n > 0 /\ R.iterations # 1
            BY <2>1, <1>3 DEF Delays
      <2> QED BY <2>2
<1>6. InBuckets(P, L, R, n)
      BY <1>1, <1>5, RankInBuckets
<1>7. HooksMark(P, R, "backward", n)
      BY <1>4, <1>5 DEF HooksMark
<1>8. InHook(P, L, R, n)
      BY <1>1, <1>7, RankInHook
<1> QED BY <1>3, <1>4, <1>5, <1>6, <1>8 DEF InHook, Moving, MarksNow, Deferred

\* The bucket at a place among those issued has only ready parameters.
LEMMA KeyAt ==
  ASSUME NEW P, NEW L, NEW R, NEW n, MarksNow(P, L, R, n), NEW i \in 1..Issued(R), NEW w,
         Sig(w) = RoundSigs(P, L, Rounds(R, n))[i]
  PROVE  /\ w.kind = "bucket" => Range(w.key) \subseteq R.ready
         /\ w.kind = "used" => R.ready = Params
<1> DEFINE S == RoundSigs(P, L, Rounds(R, n))
<1>1. /\ Sane(P, R) /\ InBuckets(P, L, R, n) /\ IsLayout(R.buckets)
      BY DEF MarksNow, Sane
<1>2. /\ \A j \in 1..Len(R.buckets) : S[j] = <<"bucket", R.buckets[j]>>
      /\ P.mode = "unused" => S[Len(R.buckets) + 1] = UsedSig
      BY <1>1, InBucketsSigs
<1>3. Len(R.buckets) \in Nat /\ R.next \in 1..Len(R.buckets) + 1
      BY <1>1 DEF IsLayout, Sane
<1>4. /\ \A j \in 1..R.next - 1 : Complete(R, j)
      /\ Issued(R) = IF P.mode = "unused" /\ R.next > Len(R.buckets) THEN R.next ELSE R.next - 1
      BY DEF MarksNow, Underway
<1>5. CASE i \leq R.next - 1
      <2>1. i \in 1..Len(R.buckets) /\ i \in 1..R.next - 1
            BY <1>3, <1>5
      <2>2. Sig(w) = <<"bucket", R.buckets[i]>>
            BY <2>1, <1>2
      <2>3. w.kind = "bucket" /\ w.key = R.buckets[i]
            BY <2>2 DEF Sig
      <2>4. Complete(R, i)
            BY <2>1, <1>4
      <2> QED BY <2>3, <2>4 DEF Complete
<1>6. CASE ~(i \leq R.next - 1)
      <2>1. P.mode = "unused" /\ R.next > Len(R.buckets) /\ i = Len(R.buckets) + 1
            BY <1>3, <1>4, <1>6
      <2>2. Sig(w) = UsedSig
            BY <2>1, <1>2
      <2>3. w.kind = "used"
            BY <2>2 DEF Sig, UsedSig
      <2>4. R.ready = Params
            BY <2>1, <1>1, <1>4, AllReady
      <2> QED BY <2>3, <2>4
<1> QED BY <1>5, <1>6

\* So it is for all that the rank has issued, complete or not.
LEMMA KeysReady ==
  ASSUME NEW P, NEW L, NEW R, NEW k, NEW G, NEW f, NEW g, NEW n,
         Stays(P, L, R, "backward", k, G, f, g, n)
  PROVE  ReadyKeys(R, R.work) /\ ReadyKeys(R, R.done)
<1>0. Len(R.done) \in Nat /\ Len(R.work) \in Nat
      BY DEF Stays, InRound
<1> DEFINE d == Len(R.done)
           e == Len(R.work)
<1>i. Issued(R) = d + e
      BY DEF Issued
<1>n. d \in Nat /\ e \in Nat
      BY <1>0
<1> HIDE DEF d, e
<1>1. CASE Issued(R) = 0
      <2>0. d = 0 /\ e = 0
            BY ONLY <1>n, <1>i, <1>1
      <2>1. Len(R.done) = 0 /\ Len(R.work) = 0
            BY <2>0 DEF d, e
      <2> QED BY <2>1 DEF ReadyKeys
<1>2. CASE Issued(R) # 0
      <2>1. MarksNow(P, L, R, n)
            BY <1>2, FinalizingMarks
      <2>2. /\ \A i \in 1..Len(R.done) : Sig(R.done[i]) = RoundSigs(P, L, Rounds(R, n))[i]
            /\ \A i \in 1..Len(R.work) : Sig(R.work[i]) = RoundSigs(P, L, Rounds(R, n))[Len(R.done) + i]
            BY <2>1 DEF MarksNow, Ledger
      <2>3. ASSUME NEW i \in 1..Len(R.done)
            PROVE  /\ R.done[i].kind = "bucket" => Range(R.done[i].key) \subseteq R.ready
                   /\ R.done[i].kind = "used" => R.ready = Params
            <3>0. i \in 1..d
                  BY <2>3 DEF d
            <3>1. i \in 1..Issued(R)
                  BY ONLY <3>0, <1>n, <1>i
            <3>2. Sig(R.done[i]) = RoundSigs(P, L, Rounds(R, n))[i]
                  BY <2>2, <2>3
            <3> QED BY <2>1, <3>1, <3>2, KeyAt
      <2>4. ASSUME NEW i \in 1..Len(R.work)
            PROVE  /\ R.work[i].kind = "bucket" => Range(R.work[i].key) \subseteq R.ready
                   /\ R.work[i].kind = "used" => R.ready = Params
            <3>0. i \in 1..e
                  BY <2>4 DEF e
            <3>1. d + i \in 1..Issued(R)
                  BY ONLY <3>0, <1>n, <1>i
            <3>2. Sig(R.work[i]) = RoundSigs(P, L, Rounds(R, n))[d + i]
                  BY <2>2, <2>4 DEF d
            <3> QED BY <2>1, <3>1, <3>2, KeyAt
      <2> QED BY <2>3, <2>4 DEF ReadyKeys
<1> QED BY <1>1, <1>2

\* A rank whose reductions are all complete has marked all parameters.
LEMMA EndedReady ==
  ASSUME NEW P, NEW L, NEW R, NEW k, NEW G, NEW f, NEW g, NEW n,
         Stays(P, L, R, "backward", k, G, f, g, n), Ended(P, L, R, n)
  PROVE  R.ready = Params /\ R.expect /\ ~Deferred(P, R)
<1> DEFINE S == RoundSigs(P, L, Rounds(R, n))
<1>0. Len(R.done) \in Nat /\ Len(R.work) \in Nat /\ Len(S) \in Nat \ {0}
      BY DEF Stays, InRound
<1>1. Issued(R) \geq Len(S) /\ Issued(R) # 0
      BY <1>0 DEF Ended, Issued
<1>2. MarksNow(P, L, R, n) /\ ~Deferred(P, R) /\ R.expect
      BY <1>1, FinalizingMarks
<1>3. Sane(P, R) /\ InBuckets(P, L, R, n) /\ IsLayout(R.buckets)
      BY <1>2 DEF MarksNow, Sane
<1>4. Len(S) = IF P.mode = "unused" THEN Len(R.buckets) + 1 ELSE Len(R.buckets)
      BY <1>3, InBucketsSigs
<1>5. Len(R.buckets) \in Nat /\ R.next \in 1..Len(R.buckets) + 1
      BY <1>3 DEF IsLayout, Sane
<1>6. /\ \A j \in 1..R.next - 1 : Complete(R, j)
      /\ Issued(R) = IF P.mode = "unused" /\ R.next > Len(R.buckets) THEN R.next ELSE R.next - 1
      BY <1>2 DEF MarksNow, Underway
<1>7. R.next > Len(R.buckets)
      BY <1>1, <1>4, <1>5, <1>6
<1> QED BY <1>2, <1>3, <1>6, <1>7, AllReady

\* Only the backward of a synchronised pass expects hooks.
LEMMA SyncExpects ==
  ASSUME NEW P, NEW L, NEW R, NEW l \in {"backward", "final"}, NEW k, NEW G, NEW f, NEW g, NEW n,
         Stays(P, L, R, l, k, G, f, g, n)
  PROVE  /\ l = "backward" => (R.expect <=> P.passes[k + 1] = "sync")
         /\ l = "final" => P.passes[k + 1] = "sync"
         /\ n = Due(P, k) /\ k < Len(P.passes) /\ k \in Nat
<1>1. TypedRank(P, R, l, k, f, n) /\ AccountInside(P, R, l, k, f, n) /\ P \in Programs
      BY DEF Stays, RankInv, TypedRank
<1>2. k \in Nat /\ k < Len(P.passes) /\ P.passes[k + 1] # "ignored" /\ n = Due(P, k)
      BY <1>1 DEF TypedRank, AccountInside
<1>3. P.passes \in Seq(Passes) /\ Len(P.passes) \in Nat
      BY <1>1, ProgramFacts
<1>4. k + 1 \in 1..Len(P.passes)
      BY <1>2, <1>3
<1>5. P.passes[k + 1] \in Passes
      BY <1>3, <1>4
<1>6. Reducing(P, k + 1) <=> P.passes[k + 1] = "sync"
      <2>1. CASE P.passes[k + 1] = "sync"
            BY <2>1 DEF Reducing
      <2>2. CASE P.passes[k + 1] = "nosync" /\ k + 1 > 1
            <3>1. k + 1 \in 2..Len(P.passes)
                  BY <2>2, <1>2, <1>3
            <3>2. P.passes[(k + 1) - 1] # "ignored"
                  BY <3>1, <2>2 DEF Stays, Sums
            <3> QED BY <3>2, <2>2 DEF Reducing
      <2>3. CASE P.passes[k + 1] = "nosync" /\ ~(k + 1 > 1)
            BY <2>3 DEF Reducing
      <2> QED BY <2>1, <2>2, <2>3, <1>2, <1>5 DEF Passes
<1> QED BY <1>1, <1>2, <1>6 DEF AccountInside

\* The gradients that are in the buckets are with the works, too.
LEMMA AmountsStocked ==
  ASSUME NEW P, NEW L, NEW R, NEW k, NEW G, NEW f, NEW g, NEW n, NEW v,
         Stays(P, L, R, "backward", k, G, f, g, n), Amounts(P, R, "backward", G, f, v), ~Deferred(P, R)
  PROVE  Stocked(R, v)
<1>1. ReadyKeys(R, R.work)
      BY KeysReady
<1>2. Carries(R, v) /\ \A p \in R.ready : R.view[p] = v[p]
      BY DEF Amounts, Seen
<1> QED BY <1>1, <1>2 DEF ReadyKeys, Carries, Stocked

\* The gradients after the hook of p.
Adds(G, v, z, p) ==
  /\ \A q \in Params : q # p => z[q] = v[q]
  /\ v[p] \subseteq z[p] /\ (G.loss[p] > 0 => z[p] # {})
FiresOnce(f, h, p) == \A q \in Params : IF q = p THEN f[q] > 0 /\ h[q] < f[q] ELSE h[q] = f[q]

\* local_used_map_ stays exact.
LEMMA MapExactHook ==
  ASSUME NEW P, NEW R, NEW Q, NEW G, NEW f, NEW h, NEW v, NEW z, NEW p \in Params,
         MapExact(P, R, G, f, v), Touches(P, G, p), Adds(G, v, z, p), FiresOnce(f, h, p),
         Q.used = IF z[p] # {} THEN R.used \cup {p} ELSE R.used, R.used \subseteq Params
  PROVE  MapExact(P, Q, G, h, z)
<1>1. ASSUME NEW q \in Q.used
      PROVE  Touches(P, G, q) /\ z[q] # {}
      <2>1. CASE q = p
            <3>1. CASE q \in R.used
                  <4>1. v[q] # {}
                        BY <3>1 DEF MapExact
                  <4> QED BY <2>1, <4>1 DEF Adds
            <3>2. CASE q \notin R.used
                  BY <3>2, <2>1
            <3> QED BY <3>1, <3>2
      <2>2. CASE q # p
            <3>1. q \in R.used /\ q \in Params
                  BY <2>2
            <3> QED BY <3>1, <2>2 DEF MapExact, Adds
      <2> QED BY <2>1, <2>2
<1>2. ASSUME NEW q \in Params, Touches(P, G, q), z[q] # {}, h[q] = 0
      PROVE  q \in Q.used
      <2>1. CASE q = p
            BY <2>1, <1>2
      <2>2. CASE q # p
            <3>1. v[q] # {} /\ f[q] = 0
                  BY <2>2, <1>2 DEF Adds, FiresOnce
            <3> QED BY <3>1, <1>2 DEF MapExact
      <2> QED BY <2>1, <2>2
<1> QED BY <1>1, <1>2 DEF MapExact

\* What a hook does to a rank and to its gradients z.
HookedRight(P, R, Q, k, G, h, z, p, n) ==
  /\ GRank(P, Q, "backward", k, G, h, z, z)
  /\ P.passes[k + 1] = "sync" => p \notin R.ready
  /\ P.mode = "static" /\ n > 0 => Q.used = R.used
  /\ Q.reduced = R.reduced

\* A hook in the first iteration of a static graph.
LEMMA DeferredHook ==
  ASSUME NEW P, P = program, NEW L, NEW R, NEW k, NEW G, NEW f, NEW g, NEW n, NEW p \in Params,
         Stays(P, L, R, "backward", k, G, f, g, n), P.passes[k + 1] = "sync", Deferred(P, R),
         NEW v, Amounts(P, R, "backward", G, f, v), Touches(P, G, p),
         NEW z, Adds(G, v, z, p), NEW h, FiresOnce(f, h, p), NEW Q, Q = AutogradHook(R, z, p)
  PROVE  Amounts(P, Q, "backward", G, h, z) /\ p \notin R.ready /\ n = 0 /\ Q.reduced = R.reduced
<1>1. /\ DOMAIN R = Fields /\ Keeps(P, L, R, "backward", k, f, n) /\ R.used \subseteq Params
      /\ Len(R.done) \in Nat /\ Len(R.work) \in Nat
      BY DEF Stays, TypedRank, JRank, Typed, InRound
<1>2. R.expect
      BY SyncExpects
<1>3. Delays(P, R, "backward", k, f, n) /\ Marking(R, "backward") /\ Progress(P, L, R, "backward", n)
      BY <1>1 DEF Keeps, Deferred
<1>4. ~R.finalize /\ n = 0
      BY <1>2, <1>3 DEF Delays, Deferred
<1>5. R.ready = {}
      BY <1>2, <1>3, <1>4 DEF Marking
<1>6. Len(R.work) = 0
      <2>1. Issued(R) = 0
            BY <1>3, <1>4 DEF Progress
      <2>2. PICK d, e : d = Len(R.done) /\ e = Len(R.work)
            OBVIOUS
      <2>3. d + e = 0
            BY <2>1, <2>2 DEF Issued
      <2>4. d \in Nat /\ e \in Nat
            BY <1>1, <2>2
      <2>5. e = 0
            BY ONLY <2>3, <2>4
      <2> QED BY <2>2, <2>5
<1>7. PICK A, c : A = MarkUsed(R, z, p) /\ c = [A.hooks EXCEPT ![p] = @ + 1]
      OBVIOUS
<1>8. Q = [A EXCEPT !.hooks = c]
      BY <1>2, <1>7 DEF AutogradHook, StaticFirst, Mode, Deferred
<1>9. A = IF z[p] # {} THEN [R EXCEPT !.used = R.used \cup {p}] ELSE R
      BY <1>7 DEF MarkUsed, StaticFirst, Mode, Deferred
<1>10. /\ DOMAIN A = Fields /\ A.work = R.work /\ A.iterations = R.iterations /\ A.ready = R.ready
       /\ A.used = (IF z[p] # {} THEN R.used \cup {p} ELSE R.used) /\ A.reduced = R.reduced
      <2>1. CASE z[p] # {}
            <3>1. A = [R EXCEPT !.used = R.used \cup {p}]
                  BY <1>9, <2>1
            <3>2. /\ DOMAIN A = Fields /\ A.work = R.work /\ A.iterations = R.iterations /\ A.ready = R.ready
                  /\ A.used = R.used \cup {p} /\ A.reduced = R.reduced
                  BY <3>1, <1>1 DEF Fields
            <3> QED BY <3>2, <2>1
      <2>2. CASE z[p] = {}
            BY <1>1, <1>9, <2>2
      <2> QED BY <2>1, <2>2
<1>11. /\ Q.work = A.work /\ Q.iterations = A.iterations /\ Q.used = A.used /\ Q.reduced = A.reduced
      BY <1>8, <1>10 DEF Fields
<1>12. /\ Len(Q.work) = 0 /\ Deferred(P, Q) /\ Q.reduced = R.reduced
       /\ Q.used = (IF z[p] # {} THEN R.used \cup {p} ELSE R.used)
      BY <1>6, <1>10, <1>11 DEF Deferred
<1>13. MapExact(P, R, G, f, v)
      BY DEF Amounts
<1>14. MapExact(P, Q, G, h, z)
      BY <1>1, <1>12, <1>13, MapExactHook
<1>15. Carries(Q, z)
      BY <1>12 DEF Carries
<1>16. Seen(P, Q, "backward") = {}
      BY <1>12 DEF Seen
<1>17. \A q \in Params : h[q] > 0 => Touches(P, G, q)
      <2> TAKE q \in Params
      <2>1. CASE q = p
            BY <2>1
      <2>2. CASE q # p
            <3>1. h[q] = f[q]
                  BY <2>2 DEF FiresOnce
            <3> QED BY <3>1 DEF Amounts
      <2> QED BY <2>1, <2>2
<1>18. \A q \in Params : G.loss[q] > 0 /\ h[q] = 0 => z[q] # {}
      <2> TAKE q \in Params
      <2>1. CASE q = p
            BY <2>1 DEF Adds
      <2>2. CASE q # p
            <3>1. h[q] = f[q] /\ z[q] = v[q]
                  BY <2>2 DEF FiresOnce, Adds
            <3> QED BY <3>1 DEF Amounts
      <2> QED BY <2>1, <2>2
<1>19. Amounts(P, Q, "backward", G, h, z)
      BY <1>14, <1>15, <1>16, <1>17, <1>18 DEF Amounts
<1> QED BY <1>4, <1>5, <1>12, <1>19

\* A hook has marked p, or marked it as used, with what was accumulated.
MarkedRight(P, R, Q, G, h, z, p) ==
  /\ Amounts(P, Q, "backward", G, h, z) /\ p \notin R.ready /\ Q.reduced = R.reduced
  /\ P.mode = "static" => Q.used = R.used
  /\ P.mode # "static" => Q.finalize = TRUE

\* A hook that marks parameters.
LEMMA MarkingHook ==
  ASSUME NEW P, P = program, NEW L, NEW R, NEW k, NEW G, NEW f, NEW g, NEW n, NEW p \in Params,
         Stays(P, L, R, "backward", k, G, f, g, n), P.passes[k + 1] = "sync", ~Deferred(P, R),
         NEW v, Amounts(P, R, "backward", G, f, v), Touches(P, G, p), f[p] > 0,
         NEW z \in [Params -> Given(P)], Adds(G, v, z, p), NEW h, FiresOnce(f, h, p),
         NEW Q, Q = AutogradHook(R, z, p), Q.error = FALSE
  PROVE  MarkedRight(P, R, Q, G, h, z, p)
<1>1. /\ DOMAIN R = Fields /\ Keeps(P, L, R, "backward", k, f, n) /\ R.used \subseteq Params
      /\ TypedRank(P, R, "backward", k, f, n) /\ JRank(P, L, R, "backward", k, f, n) /\ R.error = FALSE
      BY DEF Stays, TypedRank, JRank, Typed
<1>2. R.expect
      BY SyncExpects
<1>3. P.mode = "static" => R.iterations # 1 /\ n # 0 /\ p \notin R.ready
      <2> HAVE P.mode = "static"
      <2>1. KRank(P, R, "backward", k, G, f, g, n) /\ R.iterations # 1
            BY DEF Stays, Deferred
      <2>2. Delays(P, R, "backward", k, f, n) /\ R.iterations \in Nat
            BY <1>1 DEF Keeps, JRank, Typed
      <2>3. R.iterations > 1
            BY <2>1, <2>2, <1>2 DEF Delays
      <2>4. n > 0 /\ HooksExact(P, R, f)
            BY <2>1, <2>3, <1>2 DEF KRank
      <2>5. p \notin R.ready
            BY <2>4 DEF HooksExact
      <2> QED BY <2>1, <2>4, <2>5
<1>4. HooksMark(P, R, "backward", n)
      BY <1>2, <1>3 DEF HooksMark
<1>5. InHook(P, L, R, n) /\ InBuckets(P, L, R, n)
      BY <1>1, <1>3, <1>4, RankInHook, RankInBuckets
<1>6. R.marked \/ R.ready = {}
      BY <1>1, <1>2 DEF Keeps, Marking
<1>7. Stocked(R, v)
      BY AmountsStocked
<1>8. ReadyKeys(R, R.work)
      BY KeysReady
<1>9. p \notin R.ready => \A i \in 1..Len(R.work) : R.work[i].kind # "used"
      BY <1>8 DEF ReadyKeys
<1>10. Hooks(P, R, Q, z, p)
      <2>1. \A q \in Params \ {p} : z[q] = v[q]
            BY DEF Adds
      <2> QED BY <1>1, <1>2, <1>3, <1>5, <1>6, <1>7, <1>9, <2>1, HookStocked
<1>11. AfterHook(P, L, R, Q, n)
      BY <1>1, <1>2, <1>5, HookReady DEF Deferred
<1>12. Q.iterations = R.iterations /\ Q.reduced = R.reduced
      BY <1>11 DEF AfterHook, Carried
<1>13. ~Deferred(P, Q)
      BY <1>12 DEF Deferred
<1>14. /\ Stocked(Q, z) /\ p \notin R.ready /\ Q.ready \subseteq (R.ready \cup R.unused) \cup {p}
       /\ Q.used = (IF P.mode = "unused" /\ z[p] # {} THEN R.used \cup {p} ELSE R.used)
       /\ P.mode # "static" => Q.finalize = TRUE
      BY <1>10 DEF Hooks
<1>15. Carries(Q, z) /\ \A q \in Seen(P, Q, "backward") : Q.view[q] = z[q]
      BY <1>13, <1>14 DEF Stocked, Carries, Seen
<1>16. P.mode = "unused" => MapExact(P, Q, G, h, z)
      <2> HAVE P.mode = "unused"
      <2>1. MapExact(P, R, G, f, v)
            BY DEF Amounts
      <2>2. Q.used = IF z[p] # {} THEN R.used \cup {p} ELSE R.used
            BY <1>14
      <2> QED BY <1>1, <2>1, <2>2, MapExactHook
<1>17. \A q \in Params : h[q] > 0 => Touches(P, G, q)
      <2> TAKE q \in Params
      <2>1. CASE q = p
            BY <2>1
      <2>2. CASE q # p
            <3>1. h[q] = f[q]
                  BY <2>2 DEF FiresOnce
            <3> QED BY <3>1 DEF Amounts
      <2> QED BY <2>1, <2>2
<1>18. \A q \in Params : G.loss[q] > 0 /\ h[q] = 0 => z[q] # {}
      <2> TAKE q \in Params
      <2>1. CASE q = p
            BY <2>1 DEF Adds
      <2>2. CASE q # p
            <3>1. h[q] = f[q] /\ z[q] = v[q]
                  BY <2>2 DEF FiresOnce, Adds
            <3> QED BY <3>1 DEF Amounts
      <2> QED BY <2>1, <2>2
<1>19. P.mode = "plain" => \A q \in Seen(P, Q, "backward") : G.loss[q] > 0
      <2> HAVE P.mode = "plain"
      <2> TAKE q \in Seen(P, Q, "backward")
      <2>1. R.unused = {}
            BY <1>1 DEF Keeps, Quiet
      <2>2. q \in R.ready \cup {p}
            BY <1>13, <1>14, <2>1 DEF Seen
      <2>3. CASE q = p
            BY <2>3 DEF Touches
      <2>4. CASE q \in R.ready
            BY <2>4 DEF Amounts, Seen
      <2> QED BY <2>2, <2>3, <2>4
<1>20. Amounts(P, Q, "backward", G, h, z)
      BY <1>13, <1>15, <1>16, <1>17, <1>18, <1>19 DEF Amounts
<1> QED BY <1>12, <1>14, <1>20 DEF MarkedRight

\* A hook.
LEMMA HookGRank ==
  ASSUME NEW P, P = program, NEW L, NEW R, NEW k, NEW G, NEW f, NEW g, NEW n, NEW p \in Params,
         Stays(P, L, R, "backward", k, G, f, g, n), NEW v, GRank(P, R, "backward", k, G, f, g, v), f[p] > 0,
         NEW z \in [Params -> Given(P)], Adds(G, v, z, p), NEW h, FiresOnce(f, h, p),
         NEW Q, Q = AutogradHook(R, z, p), Q.error = FALSE
  PROVE  HookedRight(P, R, Q, k, G, h, z, p, n)
<1>1. ~AfterSync(P, "backward", k)
      BY DEF AfterSync
<1>2. CASE P.passes[k + 1] = "sync"
      <2>1. Amounts(P, R, "backward", G, f, v)
            BY <1>2 DEF GRank, Syncing
      <2>2. Touches(P, G, p)
            BY <2>1 DEF Amounts
      <2>3. CASE Deferred(P, R)
            <3>1. Amounts(P, Q, "backward", G, h, z) /\ p \notin R.ready /\ n = 0 /\ Q.reduced = R.reduced
                  BY <1>2, <2>1, <2>2, <2>3, DeferredHook
            <3>2. P.mode # "unused"
                  BY <2>3 DEF Deferred
            <3> QED BY <1>1, <3>1, <3>2 DEF GRank, HookedRight
      <2>4. CASE ~Deferred(P, R)
            <3>1. MarkedRight(P, R, Q, G, h, z, p)
                  BY <1>2, <2>1, <2>2, <2>4, MarkingHook
            <3> QED BY <1>1, <3>1 DEF GRank, HookedRight, MarkedRight
      <2> QED BY <2>3, <2>4
<1>3. CASE P.passes[k + 1] # "sync"
      <2>1. ~R.expect
            BY <1>3, SyncExpects
      <2>2. Q = R
            BY <2>1 DEF AutogradHook
      <2> QED BY <1>1, <1>3, <2>2 DEF GRank, HookedRight, Syncing
<1> QED BY <1>2, <1>3

\* forward() zeroes the gradients and what is accumulated, or leaves both.
LEMMA ForwardGRank ==
  ASSUME NEW P, NEW R, NEW Q, NEW l, NEW k, NEW G, NEW f, NEW g, NEW v, NEW m \in InForward, NEW z,
         GRank(P, R, l, k, G, f, g, v), Q.used = R.used, Q.finalize = R.finalize
  PROVE  GRank(P, Q, m, k, G, f, z, z)
<1>1. ~AfterSync(P, m, k) /\ ~Syncing(P, m, k)
      BY DEF AfterSync, Syncing, InForward
<1>2. P.mode = "unused" /\ ~Q.finalize => Q.used = {}
      BY DEF GRank
<1> QED BY <1>1, <1>2 DEF GRank

\* A pass that does not reduce gradients.
LEMMA QuietGRank ==
  ASSUME NEW P, NEW R, NEW Q, NEW k \in Nat, NEW G, NEW H, NEW f, NEW h, NEW g, NEW v, NEW l,
         GRank(P, R, l, k, G, f, g, v), Q.used = R.used, Q.finalize = R.finalize, P.passes[k + 1] # "sync"
  PROVE  /\ GRank(P, Q, "backward", k, H, h, v, v)
         /\ GRank(P, Q, "idle", k + 1, H, h, v, v)
<1>1. ~AfterSync(P, "idle", k + 1) /\ ~Syncing(P, "backward", k) /\ ~Syncing(P, "idle", k + 1)
      BY DEF AfterSync, Syncing
<1>2. P.mode = "unused" /\ ~Q.finalize => Q.used = {}
      BY DEF GRank
<1>3. GRank(P, Q, "backward", k, H, h, v, v)
      <2>1. ~AfterSync(P, "backward", k)
            BY DEF AfterSync
      <2> QED BY <1>1, <1>2, <2>1 DEF GRank
<1>4. GRank(P, Q, "idle", k + 1, H, h, v, v)
      BY <1>1, <1>2 DEF GRank
<1> QED BY <1>3, <1>4

\* The backward of a synchronised pass starts.
LEMMA BackwardGRank ==
  ASSUME NEW P, NEW L, NEW R, NEW Q, NEW k, NEW G, NEW f, NEW g, NEW n, NEW v, NEW H \in Graphs[P.mode],
         Stays(P, L, R, "forward", k, G, f, g, n), GRank(P, R, "forward", k, G, f, g, v),
         Primed(P, R, Q), P.passes[k + 1] = "sync",
         NEW b, b = (P.mode = "unused" \/ Deferred(P, R)), NEW h, h = Sinks(b, H)
  PROVE  GRank(P, Q, "backward", k, H, h, v, v)
<1>1. /\ TypedRank(P, R, "forward", k, f, n) /\ JRank(P, L, R, "forward", k, f, n) /\ P \in Programs
      /\ Len(R.done) \in Nat /\ Len(R.work) \in Nat
      BY DEF Stays, TypedRank, InRound
<1>2. ~R.finalize /\ Issued(R) = 0 /\ (P.mode = "static" => Delays(P, R, "forward", k, f, n))
      BY <1>1, RankInModule DEF InModule
<1>3. Len(R.work) = 0
      <2>2. PICK d, e : d = Len(R.done) /\ e = Len(R.work)
            OBVIOUS
      <2>3. d + e = 0
            BY <1>2, <2>2 DEF Issued
      <2>4. d \in Nat /\ e \in Nat
            BY <1>1, <2>2
      <2>5. e = 0
            BY ONLY <2>3, <2>4
      <2> QED BY <2>2, <2>5
<1>4. /\ Q.ready = {} /\ Q.used = R.used /\ Q.finalize = R.finalize /\ Q.work = R.work
      /\ Q.iterations = R.iterations
      BY DEF Primed
<1>5. P.mode = "unused" \/ Deferred(P, R) => R.used = {}
      <2>1. CASE P.mode = "unused"
            BY <2>1, <1>2 DEF GRank
      <2>2. CASE Deferred(P, R)
            <3>1. P.mode = "static" /\ R.iterations = 1
                  BY <2>2 DEF Deferred
            <3>2. n = 0
                  BY <1>2, <3>1 DEF Delays, InForward
            <3>3. KRank(P, R, "forward", k, G, f, g, n)
                  BY <3>1 DEF Stays
            <3>4. UsedHere(R, "forward", g)
                  BY <3>1, <3>2, <3>3 DEF KRank, MapsLocal
            <3> QED BY <3>4 DEF UsedHere, Outside
      <2> QED BY <2>1, <2>2
<1>6. H.loss \in [Params -> Nat]
      BY <1>1, GraphFacts
<1>7. \A p \in Params : h[p] = IF b /\ H.loss[p] = 0 /\ p \in H.out THEN 1 ELSE H.loss[p]
      BY DEF Sinks
<1>8. P.mode = "static" => \A p \in H.out : H.loss[p] > 0
      BY DEF Stays, Sums, Fits
<1>9. \A p \in Params : h[p] > 0 => Touches(P, H, p)
      <2> SUFFICES ASSUME NEW p \in Params, h[p] > 0 PROVE Touches(P, H, p)
          OBVIOUS
      <2>1. H.loss[p] \in Nat
            BY <1>6
      <2>2. CASE H.loss[p] > 0
            BY <2>2 DEF Touches
      <2>3. CASE H.loss[p] = 0
            <3>1. b /\ p \in H.out
                  BY <1>7, <2>3
            <3>2. P.mode # "static"
                  BY <1>8, <2>3, <3>1
            <3> QED BY <3>1, <3>2 DEF Touches, Deferred
      <2> QED BY <2>1, <2>2, <2>3
<1>10. \A p \in Params : H.loss[p] > 0 => h[p] # 0
      BY <1>6, <1>7
<1>11. Deferred(P, Q) <=> Deferred(P, R)
      BY <1>4 DEF Deferred
<1>12. P.mode = "unused" \/ Deferred(P, Q) => MapExact(P, Q, H, h, v)
      <2> SUFFICES ASSUME P.mode = "unused" \/ Deferred(P, R) PROVE MapExact(P, Q, H, h, v)
          BY <1>11
      <2>1. Q.used = {} /\ b
            BY <1>4, <1>5
      <2>2. \A p \in Params : Touches(P, H, p) => h[p] # 0
            BY <1>6, <1>7, <1>10, <2>1 DEF Touches
      <2> QED BY <2>1, <2>2 DEF MapExact
<1>13. Seen(P, Q, "backward") = {}
      BY <1>4 DEF Seen
<1>14. Carries(Q, v)
      BY <1>3, <1>4 DEF Carries
<1>15. Amounts(P, Q, "backward", H, h, v)
      BY <1>9, <1>10, <1>12, <1>13, <1>14 DEF Amounts
<1>16. ~AfterSync(P, "backward", k)
      BY DEF AfterSync
<1> QED BY <1>4, <1>15, <1>16 DEF GRank

\* The backward ends without a callback.
LEMMA EndGRank ==
  ASSUME NEW P, NEW L, NEW R, NEW k, NEW G, NEW f, NEW g, NEW n, NEW v,
         Stays(P, L, R, "backward", k, G, f, g, n), GRank(P, R, "backward", k, G, f, g, v)
  PROVE  GRank(P, R, "idle", k + 1, G, f, g, v) /\ (P.passes[k + 1] = "sync" => R.expect)
<1>1. k \in Nat /\ (R.expect <=> P.passes[k + 1] = "sync")
      BY SyncExpects
<1>2. ~Syncing(P, "idle", k + 1) /\ (P.passes[k + 1] = "sync" <=> AfterSync(P, "idle", k + 1))
      BY <1>1 DEF Syncing, AfterSync
<1>3. g = v
      BY DEF GRank, AfterSync
<1> QED BY <1>1, <1>2, <1>3 DEF GRank

\* The backward ends: the final callback of mark_variable_ready.
LEMMA ConcludeGRank ==
  ASSUME NEW P, NEW L, NEW R, NEW k, NEW G, NEW f, NEW g, NEW n, NEW v, NEW Q,
         Stays(P, L, R, "backward", k, G, f, g, n), GRank(P, R, "backward", k, G, f, g, v),
         R.callback = "finalize", Concluded(P, R, Q), \A p \in Params : f[p] = 0
  PROVE  GRank(P, Q, "final", k, G, f, g, v)
<1>1. Keeps(P, L, R, "backward", k, f, n)
      BY DEF Stays, JRank
<1>2. R.finalize
      BY <1>1 DEF Keeps, Marking
<1>3. MarksNow(P, L, R, n) /\ ~Deferred(P, R) /\ R.expect
      BY <1>2, FinalizingMarks
<1>4. R.next > Len(R.buckets) /\ Sane(P, R) /\ \A i \in 1..R.next - 1 : Complete(R, i)
      BY <1>3 DEF MarksNow, Underway
<1>5. R.ready = Params
      BY <1>4, AllReady
<1>6. P.passes[k + 1] = "sync"
      BY <1>3, SyncExpects
<1>7. Amounts(P, R, "backward", G, f, v) /\ g = v
      BY <1>6 DEF GRank, Syncing, AfterSync
<1>8. Seen(P, R, "backward") = Params /\ Seen(P, Q, "final") = Params
      BY <1>3, <1>5 DEF Seen
<1>9. Q.view = R.view /\ Q.work = R.work /\ Q.used = R.used /\ Q.iterations = R.iterations /\ Q.finalize = R.finalize
      BY DEF Concluded
<1>10. ~Deferred(P, Q)
      BY <1>3, <1>9 DEF Deferred
<1>11. Carries(Q, v)
      BY <1>7, <1>9 DEF Amounts, Carries
<1>12. P.mode = "unused" => MapExact(P, Q, G, f, v)
      BY <1>7, <1>9 DEF Amounts, MapExact
<1>13. Amounts(P, Q, "final", G, f, v)
      BY <1>7, <1>8, <1>9, <1>10, <1>11, <1>12 DEF Amounts
<1>14. ~AfterSync(P, "final", k)
      BY DEF AfterSync
<1> QED BY <1>2, <1>7, <1>9, <1>13, <1>14 DEF GRank

\* A collective has the gradients v, or the used map u.
Conveys(w, v, u) ==
  /\ w.kind = "bucket" => \A p \in Range(w.key) : w.data[p] = v[p]
  /\ w.kind = "used" => w.data = u

\* delay_all_reduce issues the used map and the buckets with all gradients.
LEMMA DelayCarries ==
  ASSUME NEW P, NEW R, NEW F, NEW Q, NEW v, IsWorks(P, R.work), Len(R.work) = 0, Sane(P, F),
         R.used \subseteq Params, F.work = Append(R.work, AllReduceLocalUsedMap(R)),
         Q.work = F.work \o FilledBuckets(F), Q.used = R.used,
         \A p \in Params : F.view[p] = v[p]
  PROVE  Carries(Q, v)
<1> DEFINE u == AllReduceLocalUsedMap(R)
           b == FilledBuckets(F)
           m == Len(F.buckets)
<1>1. IsWork(P, u)
      BY UsedWork
<1>2. IsWorks(P, <<u>>) /\ Len(<<u>>) = 1 /\ <<u>>[1] = u
      BY <1>1, OneWork
<1>3. F.work = R.work \o <<u>>
      BY AppendWork
<1> DEFINE t == <<u>>
<1>4. IsWorks(P, t) /\ Len(t) = 1 /\ t[1] = u /\ F.work = R.work \o t
      BY <1>2, <1>3
<1>5. Conveys(u, v, R.used)
      BY DEF Conveys, AllReduceLocalUsedMap, Work
<1>6. /\ IsWorks(P, b) /\ Len(b) = m
      BY FilledWorks
<1>6b. DOMAIN F.buckets = 1..m /\ m \in Nat /\ \A i \in 1..m : Range(F.buckets[i]) \subseteq Params
      <2>1. IsLayout(F.buckets)
            BY DEF Sane
      <2>2. F.buckets \in Seq(Seq(Params))
            BY <2>1 DEF IsLayout
      <2>3. \A i \in 1..m : F.buckets[i] \in Seq(Params)
            BY <2>2
      <2>4. \A i \in 1..m : Range(F.buckets[i]) \subseteq Params
            BY <2>3 DEF Range
      <2>5. DOMAIN F.buckets = 1..Len(F.buckets) /\ Len(F.buckets) \in Nat
            BY ONLY <2>2
      <2> QED BY ONLY <2>5, <2>4
<1>7. \A i \in 1..m : Conveys(b[i], v, R.used)
      <2> TAKE i \in 1..m
      <2>1. b[i] = AllReduceBucket(F, i)
            BY <1>6b DEF FilledBuckets
      <2>2. PICK B : B = F.buckets[i]
            OBVIOUS
      <2>3. b[i] = Work("bucket", B, [p \in Range(B) |-> F.view[p]]) /\ Range(B) \subseteq Params
            BY <2>1, <2>2, <1>6b DEF AllReduceBucket
      <2>4. b[i].kind = "bucket" /\ b[i].key = B /\ b[i].data = [p \in Range(B) |-> F.view[p]]
            BY <2>3 DEF Work
      <2>5. \A p \in Range(B) : b[i].data[p] = v[p]
            BY <2>3, <2>4
      <2> QED BY <2>4, <2>5 DEF Conveys
<1> HIDE DEF u, b, m, t
<1>8. /\ IsWorks(P, F.work) /\ Len(F.work) = 0 + 1 /\ F.work[0 + 1] = u
      <2>1. /\ IsWorks(P, R.work \o t) /\ Len(R.work \o t) = Len(R.work) + Len(t)
            /\ \A i \in 1..Len(t) : (R.work \o t)[Len(R.work) + i] = t[i]
            BY <1>4, ConcatWorks
      <2>2. 1 \in 1..Len(t)
            BY <1>4
      <2> QED BY <2>1, <2>2, <1>4
<1>9. /\ Len(Q.work) = Len(F.work) + Len(b)
      /\ \A i \in 1..Len(F.work) : Q.work[i] = F.work[i]
      /\ \A i \in 1..Len(b) : Q.work[Len(F.work) + i] = b[i]
      <2>1. PICK c, e : c = F.work /\ e = b
            OBVIOUS
      <2>2. IsWorks(P, c) /\ IsWorks(P, e)
            BY <2>1, <1>6, <1>8
      <2>3. /\ Len(c \o e) = Len(c) + Len(e)
            /\ \A i \in 1..Len(c) : (c \o e)[i] = c[i]
            /\ \A i \in 1..Len(e) : (c \o e)[Len(c) + i] = e[i]
            BY ONLY <2>2, ConcatWorks
      <2>4. Q.work = c \o e
            BY <2>1 DEF b
      <2> QED BY ONLY <2>1, <2>3, <2>4
<1>10. ASSUME NEW i \in 1..Len(Q.work)
       PROVE  Conveys(Q.work[i], v, R.used)
      <2>0. Len(Q.work) = 1 + m /\ m \in Nat
            BY <1>6, <1>6b, <1>8, <1>9 DEF m
      <2>1. CASE i = 1
            <3>1. Q.work[i] = u
                  BY <2>1, <1>8, <1>9
            <3> QED BY <3>1, <1>5
      <2>2. CASE i # 1
            <3>1. PICK j : j = i - 1
                  OBVIOUS
            <3>2. j \in 1..m /\ i = 1 + j
                  BY <2>0, <2>2, <1>10, <3>1
            <3>3. Q.work[1 + j] = b[j]
                  <4>1. j \in 1..Len(b) /\ Len(F.work) = 1
                        BY ONLY <3>2, <1>6, <1>8
                  <4>2. Q.work[Len(F.work) + j] = b[j]
                        BY ONLY <4>1, <1>9
                  <4> QED BY ONLY <4>1, <4>2
            <3> QED BY <3>2, <3>3, <1>7
      <2> QED BY <2>1, <2>2
<1> QED BY <1>10 DEF Carries, Conveys

\* The backward ends: delay_all_reduce.
LEMMA DelayGRank ==
  ASSUME NEW P, NEW L, NEW R, NEW k, NEW G, NEW f, NEW g \in [Params -> Given(P)], NEW n, NEW v, NEW F, NEW Q,
         Stays(P, L, R, "backward", k, G, f, g, n), GRank(P, R, "backward", k, G, f, g, v),
         R.callback = "delay", Filling(P, R, F, g), Drained(F, Q), ~Q.error, \A p \in Params : f[p] = 0
  PROVE  GRank(P, Q, "final", k, G, f, g, v)
<1>1. /\ Keeps(P, L, R, "backward", k, f, n) /\ DOMAIN R = Fields /\ R.used \subseteq Params
      /\ TypedRank(P, R, "backward", k, f, n) /\ Typed(P, R, "backward", k, f) /\ LaidOut(L, R, "backward")
      /\ IsWorks(P, R.work) /\ Len(R.done) \in Nat /\ Len(R.work) \in Nat
      BY DEF Stays, JRank, Typed, TypedRank, Ledger, InRound
<1>2. P.mode = "static" /\ Delays(P, R, "backward", k, f, n)
      BY <1>1 DEF Keeps, Quiet
<1>3. R.iterations = 1 /\ Deferred(P, R) /\ ~R.finalize
      BY <1>2 DEF Delays, Deferred
<1>4. Len(R.work) = 0
      <2>1. Issued(R) = 0
            BY <1>1, <1>3 DEF Progress, Keeps
      <2>2. PICK d, e : d = Len(R.done) /\ e = Len(R.work)
            OBVIOUS
      <2>3. d + e = 0
            BY <2>1, <2>2 DEF Issued
      <2>4. d \in Nat /\ e \in Nat
            BY <1>1, <2>2
      <2>5. e = 0
            BY ONLY <2>3, <2>4
      <2> QED BY <2>2, <2>5
<1>5. R.expect
      BY DEF Drained, Filling
<1>6. P.passes[k + 1] = "sync"
      BY <1>5, SyncExpects
<1>7. Amounts(P, R, "backward", G, f, v) /\ g = v
      BY <1>6 DEF GRank, Syncing, AfterSync
<1>8. Sane(P, R)
      BY <1>1, <1>5, RankSane
<1>9. /\ F.view = [p \in Params |-> g[p]] /\ F.work = Append(R.work, AllReduceLocalUsedMap(R))
      /\ F.used = R.used /\ F.iterations = R.iterations
      BY DEF Filling
<1>10. Sane(P, F)
      <2>1. F.view \in [Params -> Given(P)]
            BY <1>9
      <2> QED BY <1>8, <2>1 DEF Sane, Filling
<1>11. /\ Q.work = F.work \o FilledBuckets(F) /\ Q.used = F.used /\ Q.view = F.view
       /\ Q.iterations = F.iterations
      BY DEF Drained
<1>12. \A p \in Params : F.view[p] = v[p]
      BY <1>7, <1>9
<1>13. Carries(Q, v)
      BY <1>1, <1>4, <1>9, <1>10, <1>11, <1>12, DelayCarries
<1>14. MapExact(P, Q, G, f, v)
      BY <1>3, <1>7, <1>9, <1>11 DEF Amounts, MapExact
<1>15. \A p \in Seen(P, Q, "final") : Q.view[p] = v[p]
      BY <1>11, <1>12 DEF Seen
<1>16. Amounts(P, Q, "final", G, f, v)
      BY <1>2, <1>7, <1>13, <1>14, <1>15 DEF Amounts
<1>17. ~AfterSync(P, "final", k)
      BY DEF AfterSync
<1> QED BY <1>2, <1>7, <1>16, <1>17 DEF GRank

\* finalize_backward.
LEMMA FinalizeGRank ==
  ASSUME NEW P, P = program, NEW L, NEW R, NEW k, NEW G, NEW f, NEW g, NEW n, NEW v, NEW z, NEW Q,
         Stays(P, L, R, "final", k, G, f, g, n), GRank(P, R, "final", k, G, f, g, v),
         Q = FinalizedReducer(R)
  PROVE  GRank(P, Q, "idle", k + 1, G, f, z, v)
<1>1. P.passes[k + 1] = "sync" /\ k \in Nat /\ DOMAIN R = Fields
      BY SyncExpects DEF Stays, TypedRank
<1>2. AfterSync(P, "idle", k + 1) /\ ~Syncing(P, "idle", k + 1)
      BY <1>1 DEF AfterSync, Syncing
<1>3. Amounts(P, R, "final", G, f, v)
      BY <1>1 DEF GRank, Syncing
<1>4. P.mode = "unused" => Q.used = {}
      BY <1>1 DEF FinalizedReducer, Mode, Fields
<1>5. \A p \in Params : /\ G.loss[p] > 0 => v[p] # {}
                        /\ P.mode = "plain" => G.loss[p] > 0
      BY <1>3 DEF Amounts, Seen
<1> QED BY <1>2, <1>4, <1>5 DEF GRank

\* A collective completes.
LEMMA TailGRank ==
  ASSUME NEW P, NEW R, NEW Q, NEW l, NEW k, NEW G, NEW f, NEW g, NEW v,
         GRank(P, R, l, k, G, f, g, v), Alike(R, Q), IsWorks(P, R.work), R.work # <<>>, Q.work = Tail(R.work)
  PROVE  GRank(P, Q, l, k, G, f, g, v)
<1>1. /\ Q.iterations = R.iterations /\ Q.expect = R.expect /\ Q.finalize = R.finalize
      /\ Q.ready = R.ready /\ Q.view = R.view /\ Q.used = R.used
      BY DEF Alike
<1>2. /\ Len(Q.work) \in Nat /\ Len(R.work) = Len(Q.work) + 1
      /\ \A i \in 1..Len(Q.work) : Q.work[i] = R.work[i + 1]
      BY DEF IsWorks
<1>3. Carries(R, v) => Carries(Q, v)
      <2> SUFFICES ASSUME Carries(R, v), NEW i \in 1..Len(Q.work)
                   PROVE  Conveys(Q.work[i], v, Q.used)
          BY DEF Carries, Conveys
      <2>1. i + 1 \in 1..Len(R.work)
            BY <1>2
      <2>2. Conveys(R.work[i + 1], v, R.used)
            BY <2>1 DEF Carries, Conveys
      <2> QED BY <1>1, <1>2, <2>2
<1>4. Deferred(P, Q) <=> Deferred(P, R)
      BY <1>1 DEF Deferred
<1>5. Seen(P, Q, l) = Seen(P, R, l)
      BY <1>1, <1>4 DEF Seen
<1>6. MapExact(P, R, G, f, v) => MapExact(P, Q, G, f, v)
      BY <1>1 DEF MapExact
<1>7. Amounts(P, R, l, G, f, v) => Amounts(P, Q, l, G, f, v)
      BY <1>1, <1>3, <1>4, <1>5, <1>6 DEF Amounts
<1> QED BY <1>1, <1>7 DEF GRank

-----------------------------------------------------------------------------
(* The passes that the ranks are in.                                        *)

\* Past prepare_for_forward; the round of a rank there that has finalized n reductions.
InPass == {"forward", "backward", "final"}
CurrentRound(P, n) == IF P.mode # "unused" /\ n \geq First(P) THEN n + 1 ELSE n

\* The round of a rank is determined by its pass.
LEMMA RoundOfPass ==
  ASSUME NEW P, NEW L, NEW R, NEW l \in InPass, NEW k, NEW G, NEW f, NEW g, NEW n,
         Stays(P, L, R, l, k, G, f, g, n)
  PROVE  n = Due(P, k) /\ Rounds(R, n) = CurrentRound(P, n) /\ n \in Nat /\ k \in Nat /\ First(P) \in 1..2
<1>1. /\ TypedRank(P, R, l, k, f, n) /\ JRank(P, L, R, l, k, f, n) /\ RankInv(P, R, l, k, G, f, n)
      /\ l # "raised" /\ n \in Nat /\ k \in Nat /\ First(P) \in 1..2
      BY DEF Stays, TypedRank, InRound
<1>2. n = Due(P, k)
      <2>1. CASE l = "forward"
            BY <1>1, <2>1 DEF RankInv, AccountOutside, Outside, InForward
      <2>2. CASE l # "forward"
            BY <1>1, <2>2 DEF RankInv, AccountInside, InPass
      <2> QED BY <2>1, <2>2
<1>3. /\ R.rebuilt => P.mode # "unused" /\ n \geq First(P)
      /\ ~R.rebuilt /\ P.mode # "unused" => n \leq First(P) /\ n # First(P)
      <2>1. l \notin {"idle", "indices", "sizes"}
            BY DEF InPass
      <2> QED BY <1>1, <2>1 DEF JRank
<1>4. Rounds(R, n) = CurrentRound(P, n)
      BY <1>1, <1>3 DEF Rounds, CurrentRound
<1> QED BY <1>1, <1>2, <1>4

\* Ranks in the same pass have completed the same collectives.
LEMMA SamePass ==
  ASSUME NEW P, NEW L, NEW R, NEW l \in InPass, NEW k, NEW G, NEW f, NEW g, NEW n,
         Stays(P, L, R, l, k, G, f, g, n),
         NEW Q, NEW m \in InPass, NEW H, NEW h, NEW z, NEW j,
         Stays(P, L, Q, m, k, H, h, z, j), Aligned(P, L, R, n, Q, j)
  PROVE  Rounds(R, n) = Rounds(Q, j) /\ Len(R.done) = Len(Q.done)
<1>1. n = Due(P, k) /\ Rounds(R, n) = CurrentRound(P, n) /\ n \in Nat
      BY RoundOfPass
<1>2. j = Due(P, k) /\ Rounds(Q, j) = CurrentRound(P, j)
      BY RoundOfPass
<1>3. Rounds(R, n) = Rounds(Q, j) /\ Rounds(R, n) \in Nat
      BY <1>1, <1>2 DEF CurrentRound
<1> QED BY <1>3 DEF Aligned

\* A rank that has finalized a pass waited for all the others' reductions in it.
LEMMA PassEnded ==
  ASSUME NEW P, NEW L, NEW R, NEW l \in InPass, NEW k, NEW G, NEW f, NEW g, NEW n,
         Stays(P, L, R, l, k, G, f, g, n), P.passes[k + 1] = "sync",
         NEW Q, NEW H, NEW h, NEW z, NEW j,
         Stays(P, L, Q, "idle", k + 1, H, h, z, j), ~Q.expect, Aligned(P, L, R, n, Q, j)
  PROVE  Ended(P, L, R, n) /\ Len(R.done) # 0
<1>1. n = Due(P, k) /\ Rounds(R, n) = CurrentRound(P, n) /\ n \in Nat /\ k \in Nat /\ First(P) \in 1..2
      BY RoundOfPass
<1>2. /\ JRank(P, L, Q, "idle", k + 1, h, j) /\ RankInv(P, Q, "idle", k + 1, H, h, j) /\ j \in Nat
      /\ Len(RoundSigs(P, L, Rounds(R, n))) \in Nat \ {0}
      BY DEF Stays, TypedRank, InRound
<1>3. ~Q.finalize
      BY <1>2 DEF JRank, Keeps, Marking
<1>4. j = Due(P, k + 1)
      BY <1>2, <1>3 DEF RankInv, AccountOutside, Outside
<1>5. Reducing(P, k + 1)
      BY DEF Reducing
<1>6. j = n + 1
      BY <1>1, <1>4, <1>5, DueNext
<1>7. ~Q.rebuilt /\ P.mode # "unused" => j \leq First(P)
      BY <1>2 DEF JRank
<1>8. Rounds(Q, j) \geq Rounds(R, n) + 1 /\ Rounds(R, n) \in Nat /\ Rounds(Q, j) \in Nat
      <2>1. CASE P.mode # "unused" /\ n \geq First(P)
            <3>1. Rounds(R, n) = n + 1
                  BY <1>1, <2>1 DEF CurrentRound
            <3>2. Q.rebuilt
                  BY <1>1, <1>6, <1>7, <2>1
            <3> QED BY <1>1, <1>6, <3>1, <3>2 DEF Rounds
      <2>2. CASE ~(P.mode # "unused" /\ n \geq First(P))
            <3>1. Rounds(R, n) = n
                  BY <1>1, <2>2 DEF CurrentRound
            <3> QED BY <1>1, <1>6, <3>1 DEF Rounds
      <2> QED BY <2>1, <2>2
<1>9. Ended(P, L, R, n)
      BY <1>8 DEF Aligned
<1> QED BY <1>2, <1>9 DEF Ended

\* While a rank is in its first pass with nothing reduced, no rank has reduced anything.
LEMMA FirstPass ==
  ASSUME NEW P, NEW L, NEW R, NEW l \in InPass, NEW k, NEW G, NEW f, NEW g, NEW n,
         Stays(P, L, R, l, k, G, f, g, n), k = 0, Len(R.done) = 0,
         NEW Q, NEW m, NEW i, NEW H, NEW h, NEW z, NEW j,
         Stays(P, L, Q, m, i, H, h, z, j), Aligned(P, L, R, n, Q, j)
  PROVE  j = 0 /\ Len(Q.done) = 0
<1>1. n = Due(P, k) /\ Rounds(R, n) = CurrentRound(P, n) /\ n \in Nat /\ k \in Nat /\ First(P) \in 1..2
      BY RoundOfPass
<1>2. n = 0 /\ Rounds(R, n) = 0
      BY <1>1, DueNext DEF CurrentRound
<1>3. j \in Nat /\ Len(RoundSigs(P, L, Rounds(R, n))) \in Nat \ {0} /\ Rounds(Q, j) \in Nat
      BY DEF Stays, TypedRank, InRound
<1>4. ~Ended(P, L, R, n)
      BY <1>3 DEF Ended
<1>5. Rounds(Q, j) = 0 /\ Len(Q.done) = 0
      BY <1>2, <1>3, <1>4 DEF Aligned
<1>6. j = 0
      BY <1>3, <1>5 DEF Rounds
<1> QED BY <1>5, <1>6

-----------------------------------------------------------------------------
(* The steps.                                                               *)

\* What the earlier invariants say of a rank.
LEMMA StaysAt ==
  ASSUME IInv, JInv, KInv, Calm, NEW r \in Ranks
  PROVE  Stays(program, Layout, red[r], pc[r], pass[r], graph[r], fires[r], grad[r], finals[r])
<1>1. PICK P, R, l, k, f, n, G, g, L :
        /\ P = program /\ R = red[r] /\ l = pc[r] /\ k = pass[r] /\ f = fires[r] /\ n = finals[r]
        /\ G = graph[r] /\ g = grad[r] /\ L = Layout
      OBVIOUS
<1>2. TypedRank(P, R, l, k, f, n) /\ JRank(P, L, R, l, k, f, n) /\ InRound(P, L, R, n)
      BY <1>1, RankAt
<1>3. RankInv(P, R, l, k, G, f, n) /\ G \in Graphs[P.mode]
      BY <1>1 DEF IInv, Calm, RankTypes
<1>4. l # "raised" /\ Sums(P)
      BY <1>1 DEF Calm
<1>5. P.mode = "static" => KRank(P, R, l, k, G, f, g, n)
      BY <1>1 DEF KInv, Calm, Sums, Changed, Mode
<1>6. Stays(P, L, R, l, k, G, f, g, n)
      BY <1>2, <1>3, <1>4, <1>5 DEF Stays
<1> QED BY <1>1, <1>6

\* Two ranks are aligned.
LEMMA AlignedAt ==
  ASSUME JInv, NEW r \in Ranks, NEW s \in Ranks
  PROVE  Aligned(program, Layout, red[r], finals[r], red[s], finals[s])
  BY DEF JInv

\* A step of rank r.
OthersG(r) ==
  /\ Others(r) /\ program' = program /\ (broken => broken')
  /\ \A s \in Ranks \ {r} : graph'[s] = graph[s] /\ grad'[s] = grad[s] /\ gave'[s] = gave[s]

\* The hypotheses have held before.
LEMMA CalmBefore ==
  ASSUME NEW r \in Ranks, OthersG(r), pc[r] # "raised", Calm'
  PROVE  Calm
<1>1. Sums(program) /\ ~Changed
      BY DEF Calm, OthersG, Changed, Mode
<1>2. ASSUME NEW s \in Ranks PROVE pc[s] # "raised"
      <2>1. CASE s = r
            BY <2>1
      <2>2. CASE s # r
            <3>1. pc'[s] = pc[s]
                  BY <2>2 DEF OthersG, Others
            <3> QED BY <3>1 DEF Calm
      <2> QED BY <2>1, <2>2
<1> QED BY <1>1, <1>2 DEF Calm

\* It is enough to look at the rank that takes the step, and at what relates the ranks.
LEMMA StepG ==
  ASSUME GParts, NEW r \in Ranks, OthersG(r),
         GRank(program, red'[r], pc'[r], pass'[r], graph'[r], fires'[r], grad'[r], gave'[r]),
         \A s \in Ranks : ResultsRight(s)' /\ GradsRight(s)',
         \A s \in Ranks : MapKept(program, red'[s], finals'[s], AllUsed')
  PROVE  GParts'
<1>1. PICK P : P = program
      OBVIOUS
<1>2. ASSUME NEW s \in Ranks
      PROVE  GRank(P, red'[s], pc'[s], pass'[s], graph'[s], fires'[s], grad'[s], gave'[s])
      <2>1. CASE s = r
            BY <1>1, <2>1
      <2>2. CASE s # r
            <3>1. GRank(P, red[s], pc[s], pass[s], graph[s], fires[s], grad[s], gave[s])
                  BY <1>1 DEF GParts
            <3> QED BY <2>2, <3>1 DEF OthersG, Others
      <2> QED BY <2>1, <2>2
<1>3. \A s \in Ranks : MapKept(P, red'[s], finals'[s], AllUsed')
      BY <1>1
<1>4. P = program'
      BY <1>1 DEF OthersG
<1> QED BY <1>2, <1>3, <1>4 DEF GParts

\* With a static graph the used parameters stay what they are.
LEMMA StaticUsed ==
  ASSUME NEW r \in Ranks, OthersG(r), program.mode = "static", graph'[r] = graph[r]
  PROVE  AllUsed' = AllUsed
<1>1. \A s \in Ranks : graph'[s] = graph[s]
      BY DEF OthersG
<1>2. AllUsed = UNION {{p \in Params : graph[s].loss[p] > 0} : s \in Ranks}
      BY DEF AllUsed, UsedBy
<1>3. AllUsed' = UNION {{p \in Params : graph'[s].loss[p] > 0} : s \in Ranks}
      BY DEF AllUsed, UsedBy, OthersG
<1> QED BY <1>1, <1>2, <1>3

\* Then it is enough to look at the used map of the rank that takes the step.
LEMMA MapsStep ==
  ASSUME GParts, NEW r \in Ranks, OthersG(r), program.mode = "static" => graph'[r] = graph[r],
         MapKept(program, red'[r], finals'[r], AllUsed)
  PROVE  \A s \in Ranks : MapKept(program, red'[s], finals'[s], AllUsed')
<1>1. PICK P, U, V : P = program /\ U = AllUsed /\ V = AllUsed'
      OBVIOUS
<1>2. P.mode = "static" => V = U
      BY <1>1, StaticUsed
<1>3. ASSUME NEW s \in Ranks PROVE MapKept(P, red'[s], finals'[s], U)
      <2>1. CASE s = r
            BY <1>1, <2>1
      <2>2. CASE s # r
            <3>1. MapKept(P, red[s], finals[s], U)
                  BY <1>1 DEF GParts
            <3>2. red'[s] = red[s] /\ finals'[s] = finals[s]
                  BY <2>2 DEF OthersG, Others
            <3> QED BY <3>1, <3>2
      <2> QED BY <2>1, <2>2
<1>4. ASSUME NEW s \in Ranks PROVE MapKept(P, red'[s], finals'[s], V)
      <2>1. CASE P.mode = "static"
            BY <1>2, <1>3, <2>1
      <2>2. CASE P.mode # "static"
            BY <1>3, <2>2 DEF MapKept
      <2> QED BY <2>1, <2>2
<1> QED BY <1>1, <1>4

\* A rank that is in no pass.
LEMMA Absent ==
  ASSUME NEW r \in Ranks, pc'[r] \notin {"backward", "final"}, pc'[r] = "idle" => red'[r].expect
  PROVE  \A s \in Ranks : ResultsRight(s)' /\ GradsRight(s)'
<1>1. \A k : ~(AllHere(k)')
      BY DEF AllHere, Here
<1> QED BY <1>1 DEF ResultsRight, GradsRight, AllHere, Here

\* The used map that a rank keeps.
SameMap(R, Q) == Q.used = R.used /\ Q.reduced = R.reduced /\ (Q.done = R.done \/ Q.done = <<>>)

\* What keeps the used map and its results keeps their invariant.
LEMMA MapKeptSame ==
  ASSUME NEW P, NEW R, NEW Q, NEW n, NEW U, MapKept(P, R, n, U), SameMap(R, Q)
  PROVE  MapKept(P, Q, n, U)
<1>1. Q.used = R.used /\ Q.reduced = R.reduced
      BY DEF SameMap
<1>2. CASE Q.done = R.done
      BY <1>1, <1>2 DEF MapKept
<1>3. CASE Q.done = <<>>
      <2>1. Len(Q.done) = 0
            BY <1>3
      <2> QED BY <1>1, <2>1 DEF MapKept
<1> QED BY <1>2, <1>3 DEF SameMap

\* A step of a rank that is in no pass then.
LEMMA AbsentStep ==
  ASSUME GParts, NEW r \in Ranks, OthersG(r), program.mode = "static" => graph'[r] = graph[r],
         GRank(program, red'[r], pc'[r], pass'[r], graph'[r], fires'[r], grad'[r], gave'[r]),
         pc'[r] \notin {"backward", "final"}, pc'[r] = "idle" => red'[r].expect,
         SameMap(red[r], red'[r]), finals'[r] = finals[r]
  PROVE  GParts'
<1>1. MapKept(program, red[r], finals[r], AllUsed)
      BY DEF GParts
<1>2. MapKept(program, red'[r], finals'[r], AllUsed)
      BY <1>1, MapKeptSame
<1>3. \A s \in Ranks : MapKept(program, red'[s], finals'[s], AllUsed')
      BY <1>2, MapsStep
<1>4. \A s \in Ranks : ResultsRight(s)' /\ GradsRight(s)'
      BY Absent
<1> QED BY <1>3, <1>4, StepG

\* forward() up to the call of the module.
LEMMA ForwardG ==
  ASSUME IInv, JInv, KInv, Tables, GInv, NEW r \in Ranks, Forward(r)
  PROVE  GInv'
<1> SUFFICES ASSUME Calm' PROVE GParts'
    BY DEF GInv
<1>1. PICK P, R, k, f, n, T, G, g, v, Q, z :
        /\ P = program /\ R = red[r] /\ k = pass[r] /\ f = fires[r] /\ n = finals[r]
        /\ T = [R EXCEPT !.iterations = IF P.passes[k + 1] = "nosync" THEN @ ELSE @ + 1]
        /\ G = graph[r] /\ g = grad[r] /\ v = gave[r] /\ Q = red'[r] /\ z = grad'[r]
      OBVIOUS
<1>2. /\ pc[r] = "idle"
      /\ \/ /\ T.finalize /\ Update(r, [T EXCEPT !.error = TRUE]) /\ Goto(r, "raised")
         \/ /\ Update(r, T) /\ Goto(r, "forward")
         \/ /\ Update(r, RebuildBuckets(T)) /\ GotoUnless(r, red'[r], "indices")
      /\ UNCHANGED <<program, pass, graph, fires, finals, broken>>
      BY <1>1 DEF Forward, Pass, PriorReductionUnfinished
<1>3. PICK y, b : /\ grad' = [grad EXCEPT ![r] = IF b THEN y ELSE @]
                  /\ gave' = [gave EXCEPT ![r] = IF b THEN y ELSE @]
                  /\ b = (pass[r] > 0 /\ program.passes[pass[r]] = "sync")
      BY DEF Forward
<1>4. /\ DOMAIN red = Ranks /\ DOMAIN pc = Ranks /\ DOMAIN R = Fields
      /\ DOMAIN grad = Ranks /\ DOMAIN gave = Ranks
      BY <1>1 DEF IInv, Shape, RankTypes, Tables, GradsShaped
<1>5. pc'[r] # "raised"
      BY DEF Calm
<1>6. PICK m \in InForward :
        /\ red' = [red EXCEPT ![r] = Q] /\ pc' = [pc EXCEPT ![r] = m] /\ pc'[r] = m
        /\ Q = T \/ (Q = RebuildBuckets(T) /\ Q.error # TRUE)
      <2>1. CASE T.finalize /\ Update(r, [T EXCEPT !.error = TRUE]) /\ Goto(r, "raised")
            <3>1. pc'[r] = "raised"
                  BY <2>1, <1>4 DEF Goto
            <3> QED BY <3>1, <1>5
      <2>2. CASE Update(r, T) /\ Goto(r, "forward")
            <3>1. red' = [red EXCEPT ![r] = T] /\ pc' = [pc EXCEPT ![r] = "forward"]
                  BY <2>2 DEF Update, Goto
            <3>2. Q = T /\ pc'[r] = "forward" /\ "forward" \in InForward
                  BY <3>1, <1>1, <1>4 DEF InForward
            <3> QED BY <3>1, <3>2
      <2>3. CASE Update(r, RebuildBuckets(T)) /\ GotoUnless(r, red'[r], "indices")
            <3>0. PICK B : B = RebuildBuckets(T)
                  OBVIOUS
            <3>1. red' = [red EXCEPT ![r] = B]
                  BY <2>3, <3>0 DEF Update
            <3>2. Q = B
                  BY <3>1, <1>1, <1>4
            <3>3. pc' = [pc EXCEPT ![r] = IF Q.error THEN "raised" ELSE "indices"]
                  BY <2>3, <1>1 DEF GotoUnless, Goto
            <3>4. ~Q.error /\ pc'[r] = "indices" /\ "indices" \in InForward
                  BY <3>3, <1>4, <1>5 DEF InForward
            <3>5. pc' = [pc EXCEPT ![r] = "indices"]
                  BY <3>3, <3>4
            <3>6. Q.error # TRUE
                  BY <3>4
            <3> QED BY <3>0, <3>1, <3>2, <3>4, <3>5, <3>6
      <2> QED BY <1>2, <2>1, <2>2, <2>3
<1>7. /\ DOMAIN T = Fields /\ T.used = R.used /\ T.reduced = R.reduced /\ T.done = R.done
      /\ T.finalize = R.finalize
      BY <1>1, <1>4 DEF Fields
<1>8. /\ Q.used = R.used /\ Q.reduced = R.reduced /\ Q.done = R.done /\ Q.finalize = R.finalize
      <2>1. CASE Q = T
            BY <1>7, <2>1
      <2>2. CASE Q = RebuildBuckets(T) /\ Q.error # TRUE
            <3>1. Len(T.order) = Cardinality(Params)
                  BY <1>7, <2>2 DEF RebuildBuckets, Fields
            <3>2. Broadcasts(T, Q)
                  BY ONLY <1>7, <2>2, <3>1, RebuildEffect
            <3> QED BY <1>7, <3>2 DEF Broadcasts
      <2> QED BY <1>6, <2>1, <2>2
<1>9. /\ Others(r) /\ pass'[r] = k /\ fires'[r] = f /\ finals'[r] = n /\ graph'[r] = G
      /\ program' = program /\ broken' = broken
      BY <1>1, <1>2, <1>4, <1>6 DEF Others
<1>10. \A s \in Ranks \ {r} : graph'[s] = graph[s] /\ grad'[s] = grad[s] /\ gave'[s] = gave[s]
      BY <1>2, <1>3, <1>4
<1>11. OthersG(r)
      BY <1>9, <1>10 DEF OthersG
<1>12. Calm
      BY <1>2, <1>11, CalmBefore
<1>13. GParts
      BY <1>12 DEF GInv
<1>14. GRank(P, R, "idle", k, G, f, g, v)
      BY <1>1, <1>2, <1>13 DEF GParts
<1>15. gave'[r] = z
      <2>1. CASE b
            BY <1>1, <1>3, <1>4, <2>1
      <2>2. CASE ~b
            <3>1. ~AfterSync(P, "idle", k)
                  BY <1>1, <1>3, <2>2 DEF AfterSync
            <3>2. g = v
                  BY <1>14, <3>1 DEF GRank
            <3> QED BY <1>1, <1>3, <1>4, <2>2, <3>2
      <2> QED BY <2>1, <2>2
<1>16. GRank(P, Q, pc'[r], k, G, f, z, z)
      BY <1>6, <1>8, <1>14, ForwardGRank
<1>17. SameMap(R, Q)
      BY <1>8 DEF SameMap
<1>18. pc'[r] \notin {"idle", "backward", "final"}
      BY <1>6 DEF InForward
<1> QED BY <1>1, <1>9, <1>11, <1>13, <1>15, <1>16, <1>17, <1>18, AbsentStep

\* The indices have arrived: broadcast the sizes.
LEMMA SyncBucketIndicesG ==
  ASSUME IInv, JInv, KInv, GInv, NEW r \in Ranks, SyncBucketIndices(r)
  PROVE  GInv'
<1> SUFFICES ASSUME Calm' PROVE GParts'
    BY DEF GInv
<1>1. PICK P, R, k, f, n, G, g, u : P = program /\ R = red[r] /\ k = pass[r] /\ f = fires[r] /\ n = finals[r]
                              /\ G = graph[r] /\ g = grad[r] /\ u = gave[r]
      OBVIOUS
<1>2. PICK Q, v : Q = Issue(R, Work("sizes", <<R.done[1].data.buckets>>, LocalSizes(R.plan, R.done[1].data.buckets)))
                  /\ Q = [R EXCEPT !.work = v]
      BY DEF Issue
<1>3. DOMAIN red = Ranks /\ DOMAIN pc = Ranks /\ DOMAIN R = Fields
      BY <1>1 DEF IInv, Shape, RankTypes
<1>4. /\ pc[r] = "indices" /\ red' = [red EXCEPT ![r] = Q] /\ pc' = [pc EXCEPT ![r] = "sizes"]
      /\ UNCHANGED <<program, grad, gave, pass, graph, fires, finals, broken>>
      BY <1>1, <1>2 DEF SyncBucketIndices, Update, Goto
<1>5. /\ Q.used = R.used /\ Q.reduced = R.reduced /\ Q.done = R.done /\ Q.finalize = R.finalize
      BY <1>2, <1>3 DEF Fields
<1>6. /\ Others(r) /\ red'[r] = Q /\ pc'[r] = "sizes" /\ pass'[r] = k /\ fires'[r] = f /\ finals'[r] = n
      /\ graph'[r] = G /\ grad'[r] = g /\ gave'[r] = u
      BY <1>1, <1>3, <1>4 DEF Others
<1>7. OthersG(r)
      BY <1>4, <1>6 DEF OthersG
<1>8. Calm
      BY <1>4, <1>7, CalmBefore
<1>9. GParts
      BY <1>8 DEF GInv
<1>10. GRank(P, R, "indices", k, G, f, g, u)
      BY <1>1, <1>4, <1>9 DEF GParts
<1>11. g = u
      BY <1>10 DEF GRank, AfterSync
<1>12. GRank(P, Q, "sizes", k, G, f, g, u)
      BY <1>5, <1>10, <1>11, ForwardGRank DEF InForward
<1>13. SameMap(R, Q)
      BY <1>5 DEF SameMap
<1> QED BY <1>1, <1>6, <1>7, <1>9, <1>12, <1>13, AbsentStep

\* The sizes have arrived: every rank installs the layout of rank 0.
LEMMA InitializeBucketsG ==
  ASSUME IInv, JInv, KInv, GInv, NEW r \in Ranks, InitializeBuckets(r)
  PROVE  GInv'
<1> SUFFICES ASSUME Calm' PROVE GParts'
    BY DEF GInv
<1>1. PICK P, R, k, f, n, b, w, G, g, u :
        /\ P = program /\ R = red[r] /\ k = pass[r] /\ f = fires[r] /\ n = finals[r]
        /\ b = Unflatten(R.done[1].data.flat, R.done[2].data)
        /\ w = (R.expect \/ Len(b) # Len(R.plan))
        /\ G = graph[r] /\ g = grad[r] /\ u = gave[r]
      OBVIOUS
<1>2. PICK Q, v : Q = [R EXCEPT !.buckets = b, !.rebuilt = TRUE, !.order = <<>>, !.done = <<>>,
                                !.plan = v, !.error = w]
                  /\ v = IF w THEN R.plan ELSE <<>>
      OBVIOUS
<1>3. DOMAIN red = Ranks /\ DOMAIN pc = Ranks /\ DOMAIN R = Fields
      BY <1>1 DEF IInv, Shape, RankTypes
<1>4. /\ pc[r] = "sizes" /\ red' = [red EXCEPT ![r] = Q]
      /\ GotoUnless(r, red'[r], "forward")
      /\ UNCHANGED <<program, grad, gave, pass, graph, fires, finals, broken>>
      BY ZenonT(40), <1>1, <1>2 DEF InitializeBuckets, Update
<1>5. /\ Q.used = R.used /\ Q.reduced = R.reduced /\ Q.done = <<>> /\ Q.finalize = R.finalize
      BY <1>2, <1>3 DEF Fields
<1>6. red'[r] = Q /\ pc'[r] # "raised"
      BY <1>3, <1>4 DEF Calm
<1>7. pc' = [pc EXCEPT ![r] = "forward"]
      BY <1>3, <1>4, <1>6 DEF GotoUnless, Goto
<1>8. /\ Others(r) /\ pc'[r] = "forward" /\ pass'[r] = k /\ fires'[r] = f /\ finals'[r] = n
      /\ graph'[r] = G /\ grad'[r] = g /\ gave'[r] = u
      BY <1>1, <1>3, <1>4, <1>7 DEF Others
<1>9. OthersG(r)
      BY <1>4, <1>8 DEF OthersG
<1>10. Calm
      BY <1>4, <1>9, CalmBefore
<1>11. GParts
      BY <1>10 DEF GInv
<1>12. GRank(P, R, "sizes", k, G, f, g, u)
      BY <1>1, <1>4, <1>11 DEF GParts
<1>13. g = u
      BY <1>12 DEF GRank, AfterSync
<1>14. GRank(P, Q, "forward", k, G, f, g, u)
      BY <1>5, <1>12, <1>13, ForwardGRank DEF InForward
<1>15. SameMap(R, Q)
      BY <1>5 DEF SameMap
<1> QED BY <1>1, <1>6, <1>8, <1>9, <1>11, <1>14, <1>15, AbsentStep

\* Nothing has been reduced when the module is called.
LEMMA EmptyForward ==
  ASSUME NEW P, NEW L, NEW R, NEW k, NEW G, NEW f, NEW g, NEW n,
         Stays(P, L, R, "forward", k, G, f, g, n)
  PROVE  Len(R.done) = 0 /\ Len(R.work) = 0
<1>1. Keeps(P, L, R, "forward", k, f, n) /\ Len(R.done) \in Nat /\ Len(R.work) \in Nat
      BY DEF Stays, JRank, InRound
<1>2. ~R.finalize
      BY <1>1 DEF Keeps, Marking, InForward
<1>3. Issued(R) = 0
      BY <1>1, <1>2 DEF Keeps, Progress
<1>4. PICK d, e : d = Len(R.done) /\ e = Len(R.work)
      OBVIOUS
<1>5. d + e = 0 /\ d \in Nat /\ e \in Nat
      BY <1>1, <1>3, <1>4 DEF Issued
<1>6. d = 0 /\ e = 0
      BY ONLY <1>5
<1> QED BY <1>4, <1>6

\* The used maps when a rank has a new graph.
LEMMA BackwardMaps ==
  ASSUME IInv, JInv, KInv, Calm, GParts, NEW r \in Ranks, pc[r] = "forward", OthersG(r),
         SameMap(red[r], red'[r]), finals'[r] = finals[r],
         program.mode = "static" /\ pass[r] > 0 => graph'[r] = graph[r]
  PROVE  \A s \in Ranks : MapKept(program, red'[s], finals'[s], AllUsed')
<1>1. MapKept(program, red[r], finals[r], AllUsed)
      BY DEF GParts
<1>2. MapKept(program, red'[r], finals'[r], AllUsed)
      BY <1>1, MapKeptSame
<1>3. CASE program.mode = "static" => graph'[r] = graph[r]
      BY <1>2, <1>3, MapsStep
<1>4. CASE program.mode = "static" /\ graph'[r] # graph[r]
      <2>1. PICK P, L, R, k, f, n, G, g :
              /\ P = program /\ L = Layout /\ R = red[r] /\ k = pass[r] /\ f = fires[r] /\ n = finals[r]
              /\ G = graph[r] /\ g = grad[r]
            OBVIOUS
      <2>2. Stays(P, L, R, "forward", k, G, f, g, n)
            BY <2>1, StaysAt
      <2>3. k \in Nat
            BY <2>2 DEF Stays, TypedRank
      <2>4. k = 0
            BY <1>4, <2>1, <2>3
      <2>5. Len(R.done) = 0
            BY <2>2, EmptyForward
      <2>6. ASSUME NEW s \in Ranks
            PROVE  finals[s] = 0 /\ Len(red[s].done) = 0 /\ red[s].reduced = FALSE
            <3>1. PICK Q, l, i, H, h, z, j :
                    /\ Q = red[s] /\ l = pc[s] /\ i = pass[s] /\ H = graph[s] /\ h = fires[s] /\ z = grad[s]
                    /\ j = finals[s]
                  OBVIOUS
            <3>2. Stays(P, L, Q, l, i, H, h, z, j)
                  BY <2>1, <3>1, StaysAt
            <3>3. Aligned(P, L, R, n, Q, j)
                  BY <2>1, <3>1, AlignedAt
            <3>4. "forward" \in InPass
                  BY DEF InPass
            <3>5. j = 0 /\ Len(Q.done) = 0
                  BY ONLY <2>2, <2>4, <2>5, <3>2, <3>3, <3>4, FirstPass
            <3>6. MapKept(P, Q, j, AllUsed)
                  BY <2>1, <3>1 DEF GParts
            <3>7. Q.reduced = FALSE
                  BY <3>5, <3>6 DEF MapKept
            <3> QED BY <3>1, <3>5, <3>7
      <2>7. ASSUME NEW s \in Ranks, NEW U
            PROVE  MapKept(program, red'[s], finals'[s], U)
            <3>0. PICK S, j : S = red[s] /\ j = finals[s]
                  OBVIOUS
            <3>a. j = 0 /\ Len(S.done) = 0 /\ S.reduced = FALSE
                  BY <2>6, <3>0
            <3>b. MapKept(program, S, j, U)
                  BY ONLY <3>a DEF MapKept
            <3>1. MapKept(program, red[s], finals[s], U)
                  BY <3>0, <3>b
            <3>2. CASE s = r
                  BY <3>1, <3>2, MapKeptSame
            <3>3. CASE s # r
                  <4>1. red'[s] = red[s] /\ finals'[s] = finals[s]
                        BY <3>3 DEF OthersG, Others
                  <4> QED BY <3>1, <4>1
            <3> QED BY <3>2, <3>3
      <2> QED BY <2>7
<1> QED BY <1>3, <1>4

\* A rank that starts its backward has waited for all others to finish the earlier pass, and
\* none has a result of this one.
LEMMA EnterResults ==
  ASSUME IInv, JInv, KInv, Calm, NEW r \in Ranks, pc[r] = "forward", OthersG(r),
         pc'[r] = "backward", pass'[r] = pass[r], red'[r].done = red[r].done
  PROVE  \A s \in Ranks : ResultsRight(s)' /\ GradsRight(s)'
<1>1. PICK P, L, R, k, f, n, G, g :
        /\ P = program /\ L = Layout /\ R = red[r] /\ k = pass[r] /\ f = fires[r] /\ n = finals[r]
        /\ G = graph[r] /\ g = grad[r]
      OBVIOUS
<1>2. Stays(P, L, R, "forward", k, G, f, g, n) /\ "forward" \in InPass
      BY <1>1, StaysAt DEF InPass
<1>3. k \in Nat
      BY <1>2 DEF Stays, TypedRank
<1>4. Len(R.done) = 0
      BY <1>2, EmptyForward
<1>5. \A j : Here(r, j)' => j = k + 1
      BY <1>1 DEF Here
<1>6. P = program'
      BY <1>1 DEF OthersG
<1>7. ASSUME NEW s \in Ranks PROVE ResultsRight(s)'
      <2> SUFFICES ASSUME pc'[s] \in {"backward", "final"}, AllHere(pass[s] + 1)'
                   PROVE  Len(red'[s].done) = 0
            <3>1. ASSUME NEW D, NEW U, NEW V, NEW o, Len(D) = 0 PROVE Summed(D, U, V, o)
                  BY <3>1 DEF Summed
            <3> QED BY <3>1 DEF ResultsRight, Syncing
      <2>1. CASE s = r
            BY <1>1, <1>4, <2>1
      <2>2. CASE s # r
            <3>1. PICK Q, l, i, H, h, z, j :
                    /\ Q = red[s] /\ l = pc[s] /\ i = pass[s] /\ H = graph[s] /\ h = fires[s] /\ z = grad[s]
                    /\ j = finals[s]
                  OBVIOUS
            <3>2. l = pc'[s] /\ i = pass'[s] /\ Q = red'[s]
                  BY <2>2, <3>1 DEF OthersG, Others
            <3>3. Stays(P, L, Q, l, i, H, h, z, j) /\ Aligned(P, L, R, n, Q, j)
                  BY <1>1, <3>1, StaysAt, AlignedAt
            <3>4. i \in Nat
                  BY <3>3 DEF Stays, TypedRank
            <3>5. \A q \in Ranks : Here(q, pass[s] + 1)'
                  BY DEF AllHere
            <3>6. i + 1 = k + 1
                  BY <1>5, <3>2, <3>5
            <3>7. i = k /\ l \in InPass
                  BY <1>3, <3>2, <3>4, <3>6 DEF InPass
            <3>8. Len(R.done) = Len(Q.done)
                  BY ONLY <1>2, <3>3, <3>7, SamePass
            <3> QED BY <1>4, <3>2, <3>8
      <2> QED BY <2>1, <2>2
<1>8. ASSUME NEW s \in Ranks PROVE GradsRight(s)'
      <2> SUFFICES ASSUME AfterSync(program, pc[s], pass[s])', ~red'[s].expect, AllHere(pass[s])'
                   PROVE  FALSE
            BY DEF GradsRight
      <2>1. pc'[s] = "idle" /\ pass'[s] > 0 /\ P.passes[pass'[s]] = "sync"
            BY <1>6 DEF AfterSync
      <2>2. s # r
            BY <2>1
      <2>3. PICK Q, i, H, h, z, j :
              /\ Q = red[s] /\ i = pass[s] /\ H = graph[s] /\ h = fires[s] /\ z = grad[s]
              /\ j = finals[s]
            OBVIOUS
      <2>4. pc[s] = "idle" /\ i = pass'[s] /\ Q = red'[s]
            BY <2>1, <2>2, <2>3 DEF OthersG, Others
      <2>5. Stays(P, L, Q, "idle", i, H, h, z, j) /\ Aligned(P, L, R, n, Q, j)
            BY <1>1, <2>3, <2>4, StaysAt, AlignedAt
      <2>6. i = k + 1
            BY <1>5, <2>4 DEF AllHere
      <2>7. P.passes[k + 1] = "sync" /\ ~Q.expect /\ Stays(P, L, Q, "idle", k + 1, H, h, z, j)
            BY <2>1, <2>4, <2>5, <2>6
      <2>8. Len(R.done) # 0
            BY ONLY <1>2, <2>5, <2>7, PassEnded
      <2> QED BY <1>4, <2>8
<1> QED BY <1>7, <1>8

\* forward() after the call of the module.
LEMMA BackwardG ==
  ASSUME IInv, JInv, KInv, Tables, GInv, NEW r \in Ranks, Backward(r)
  PROVE  GInv'
<1> SUFFICES ASSUME Calm' PROVE GParts'
    BY DEF GInv
<1>1. PICK P, L, R, k, f, n, G, g, v :
        /\ P = program /\ L = Layout /\ R = red[r] /\ k = pass[r] /\ f = fires[r] /\ n = finals[r]
        /\ G = graph[r] /\ g = grad[r] /\ v = gave[r]
      OBVIOUS
<1>2. pc[r] = "forward" /\ UNCHANGED <<program, grad, gave, finals>>
      BY DEF Backward
<1>3. TypedRank(P, R, "forward", k, f, n) /\ JRank(P, L, R, "forward", k, f, n)
      BY <1>1, <1>2, RankAt
<1>4. DOMAIN R = Fields /\ P \in Programs /\ R.unused \subseteq Params
      BY <1>3 DEF TypedRank, JRank, Typed
<1>5. PICK H \in Graphs[P.mode] :
        LET T == IF P.passes[k + 1] = "nosync" THEN R ELSE PrepareForBackward(R, H.out)
            sink == [p \in Params |-> IF HasSink(r) /\ H.loss[p] = 0 /\ p \in H.out THEN 1 ELSE H.loss[p]]
        IN /\ graph' = [graph EXCEPT ![r] = H]
           /\ broken' = (broken \/ ~Contract(r, H))
           /\ \/ /\ P.passes[k + 1] = "ignored"
                 /\ Update(r, T)
                 /\ Goto(r, "idle")
                 /\ pass' = [pass EXCEPT ![r] = @ + 1]
                 /\ UNCHANGED fires
              \/ /\ P.passes[k + 1] # "ignored"
                 /\ Update(r, [T EXCEPT !.callback = IF StaticFirst(T) THEN "delay" ELSE "none"])
                 /\ Goto(r, "backward")
                 /\ fires' = [fires EXCEPT ![r] = sink]
                 /\ UNCHANGED pass
      BY <1>1 DEF Backward, Pass, Mode
<1>6. PICK b : b = (P.mode = "unused" \/ Deferred(P, R))
      OBVIOUS
<1>7. b <=> HasSink(r)
      BY <1>1, <1>6 DEF HasSink, StaticFirst, Deferred, Mode
<1>8. PICK T, h, c :
        /\ T = IF P.passes[k + 1] = "nosync" THEN R ELSE PrepareForBackward(R, H.out)
        /\ h = Sinks(b, H)
        /\ c = IF StaticFirst(T) THEN "delay" ELSE "none"
      OBVIOUS
<1>9. PICK Q : Q = [T EXCEPT !.callback = c]
      OBVIOUS
<1>10. h = [p \in Params |-> IF HasSink(r) /\ H.loss[p] = 0 /\ p \in H.out THEN 1 ELSE H.loss[p]]
      BY <1>7, <1>8 DEF Sinks
<1>11. /\ graph' = [graph EXCEPT ![r] = H] /\ broken' = (broken \/ ~Contract(r, H))
       /\ \/ /\ P.passes[k + 1] = "ignored"
             /\ red' = [red EXCEPT ![r] = T] /\ pc' = [pc EXCEPT ![r] = "idle"]
             /\ pass' = [pass EXCEPT ![r] = @ + 1] /\ fires' = fires
          \/ /\ P.passes[k + 1] # "ignored"
             /\ red' = [red EXCEPT ![r] = Q] /\ pc' = [pc EXCEPT ![r] = "backward"]
             /\ fires' = [fires EXCEPT ![r] = h] /\ pass' = pass
      BY <1>5, <1>8, <1>9, <1>10 DEF Update, Goto
<1>12. /\ DOMAIN red = Ranks /\ DOMAIN pc = Ranks /\ DOMAIN pass = Ranks /\ DOMAIN graph = Ranks
       /\ DOMAIN fires = Ranks
      BY DEF IInv, Shape
<1>13. OthersG(r) /\ graph'[r] = H /\ grad'[r] = g /\ gave'[r] = v /\ finals'[r] = n
      BY <1>1, <1>2, <1>11, <1>12 DEF OthersG, Others
<1>14. Calm
      BY <1>2, <1>13, CalmBefore
<1>15. GParts
      BY <1>14 DEF GInv
<1>16. GRank(P, R, "forward", k, G, f, g, v) /\ Stays(P, L, R, "forward", k, G, f, g, n)
      BY <1>1, <1>2, <1>14, <1>15, StaysAt DEF GParts
<1>17. g = v /\ k \in Nat
      BY <1>16 DEF GRank, AfterSync, Stays, TypedRank
<1>18. program.mode = "static" /\ pass[r] > 0 => graph'[r] = graph[r]
      <2> HAVE program.mode = "static" /\ pass[r] > 0
      <2>1. ~broken'
            BY <1>2 DEF Calm, Changed, Mode
      <2>2. Contract(r, H)
            BY <1>11, <2>1
      <2>3. H = graph[r]
            BY <2>2 DEF Contract, Mode
      <2> QED BY <1>13, <2>3
<1>19. P.passes[k + 1] \in Passes
      <2>1. P.passes \in Seq(Passes) /\ Len(P.passes) \in Nat
            BY <1>4, ProgramFacts
      <2>2. k + 1 \in 1..Len(P.passes)
            BY <1>17, <2>1, <1>3 DEF JRank, Typed
      <2> QED BY <2>1, <2>2
<1>20. CASE /\ P.passes[k + 1] = "ignored"
            /\ red' = [red EXCEPT ![r] = T] /\ pc' = [pc EXCEPT ![r] = "idle"]
            /\ pass' = [pass EXCEPT ![r] = @ + 1] /\ fires' = fires
      <2>1. T = PrepareForBackward(R, H.out)
            BY <1>8, <1>20
      <2>2. Primed(P, R, T)
            BY <1>1, <1>4, <1>9, <2>1, PrimedEffect
      <2>3. /\ red'[r] = T /\ pc'[r] = "idle" /\ pass'[r] = k + 1 /\ fires'[r] = f
            BY <1>1, <1>2, <1>12, <1>20
      <2>4. T.used = R.used /\ T.finalize = R.finalize /\ SameMap(R, T) /\ T.expect
            BY <2>2 DEF Primed, SameMap
      <2>5. P.passes[k + 1] # "sync"
            BY <1>20
      <2>6. GRank(P, T, "idle", k + 1, H, f, v, v)
            BY ONLY <1>16, <1>17, <2>4, <2>5, QuietGRank
      <2>7. \A s \in Ranks : ResultsRight(s)' /\ GradsRight(s)'
            BY <2>3, <2>4, Absent
      <2>8. \A s \in Ranks : MapKept(program, red'[s], finals'[s], AllUsed')
            BY <1>1, <1>2, <1>13, <1>14, <1>15, <1>18, <2>3, <2>4, BackwardMaps
      <2> QED BY <1>1, <1>13, <1>15, <1>17, <2>3, <2>6, <2>7, <2>8, StepG
<1>21. CASE /\ P.passes[k + 1] # "ignored"
            /\ red' = [red EXCEPT ![r] = Q] /\ pc' = [pc EXCEPT ![r] = "backward"]
            /\ fires' = [fires EXCEPT ![r] = h] /\ pass' = pass
      <2>1. /\ red'[r] = Q /\ pc'[r] = "backward" /\ pass'[r] = k /\ fires'[r] = h
            BY <1>1, <1>2, <1>12, <1>21
      <2>2. GRank(P, Q, "backward", k, H, h, v, v) /\ SameMap(R, Q) /\ Q.done = R.done
            <3>1. CASE P.passes[k + 1] = "nosync"
                  <4>1. T = R
                        BY <1>8, <3>1
                  <4>2. Recalled(R, Q)
                        BY <1>4, <1>9, <4>1, RecalledEffect
                  <4>3. Q.used = R.used /\ Q.finalize = R.finalize /\ SameMap(R, Q) /\ Q.done = R.done
                        BY <4>2 DEF Recalled, SameMap
                  <4>4. P.passes[k + 1] # "sync"
                        BY <3>1
                  <4>5. GRank(P, Q, "backward", k, H, h, v, v)
                        BY ONLY <1>16, <1>17, <4>3, <4>4, QuietGRank
                  <4> QED BY <4>3, <4>5
            <3>2. CASE P.passes[k + 1] # "nosync"
                  <4>1. T = PrepareForBackward(R, H.out)
                        BY <1>8, <3>2
                  <4>2. Primed(P, R, Q)
                        BY SMTT(40), <1>1, <1>4, <1>9, <4>1, PrimedEffect
                  <4>3. P.passes[k + 1] = "sync"
                        BY <1>19, <1>21, <3>2 DEF Passes
                  <4>4. SameMap(R, Q) /\ Q.done = R.done
                        BY <4>2 DEF Primed, SameMap
                  <4>5. H \in Graphs[P.mode] /\ h = Sinks(b, H)
                        BY <1>5, <1>8
                  <4>6. GRank(P, Q, "backward", k, H, h, v, v)
                        BY ONLY <1>6, <1>16, <4>2, <4>3, <4>5, BackwardGRank
                  <4> QED BY <4>4, <4>6
            <3> QED BY <3>1, <3>2
      <2>3. \A s \in Ranks : ResultsRight(s)' /\ GradsRight(s)'
            BY <1>1, <1>2, <1>13, <1>14, <2>1, <2>2, EnterResults
      <2>4. \A s \in Ranks : MapKept(program, red'[s], finals'[s], AllUsed')
            BY <1>1, <1>2, <1>13, <1>14, <1>15, <1>18, <2>1, <2>2, BackwardMaps
      <2> QED BY <1>1, <1>13, <1>15, <1>17, <2>1, <2>2, <2>3, <2>4, StepG
<1> QED BY <1>11, <1>20, <1>21

\* Results that all ranks have are of buckets that are ready on each of them.
LEMMA DoneReady ==
  ASSUME NEW P, NEW L, NEW R, NEW k, NEW G, NEW f, NEW g, NEW n,
         Stays(P, L, R, "backward", k, G, f, g, n),
         NEW Q, NEW m \in InPass, NEW H, NEW h, NEW z, NEW j,
         Stays(P, L, Q, m, k, H, h, z, j), Aligned(P, L, R, n, Q, j)
  PROVE  ReadyKeys(R, Q.done)
<1>0. "backward" \in InPass
      BY DEF InPass
<1>1. Rounds(R, n) = Rounds(Q, j) /\ Len(R.done) = Len(Q.done)
      BY <1>0, SamePass
<1>2. PICK S : S = RoundSigs(P, L, Rounds(R, n))
      OBVIOUS
<1>3. \A i \in 1..Len(R.done) : Sig(R.done[i]) = S[i]
      BY <1>2 DEF Stays, JRank, Ledger
<1>4. \A i \in 1..Len(Q.done) : Sig(Q.done[i]) = S[i]
      <2>1. S = RoundSigs(P, L, Rounds(Q, j))
            BY <1>1, <1>2
      <2> QED BY <2>1 DEF Stays, JRank, Ledger
<1>5. ReadyKeys(R, R.done)
      BY KeysReady
<1>6. ASSUME NEW i \in 1..Len(Q.done)
      PROVE  /\ Q.done[i].kind = "bucket" => Range(Q.done[i].key) \subseteq R.ready
             /\ Q.done[i].kind = "used" => R.ready = Params
      <2>1. i \in 1..Len(R.done) /\ Sig(Q.done[i]) = Sig(R.done[i])
            BY <1>1, <1>3, <1>4
      <2>2. Q.done[i].kind = R.done[i].kind /\ Q.done[i].key = R.done[i].key
            BY <2>1 DEF Sig
      <2> QED BY <1>5, <2>1, <2>2 DEF ReadyKeys
<1> QED BY <1>6 DEF ReadyKeys

\* The gradient of a parameter that is not ready may change.
LEMMA SummedUnready ==
  ASSUME NEW D, NEW T, NEW U, NEW m, Summed(D, T, U, m), NEW R, ReadyKeys(R, D), R.ready \subseteq Params,
         NEW p \in Params \ R.ready, NEW T2, NEW U2, \A q \in Params : q # p => T2[q] = T[q]
  PROVE  Summed(D, T2, U2, m)
<1>1. ASSUME NEW i \in 1..Len(D)
      PROVE  /\ D[i].kind = "bucket" => \A q \in Range(D[i].key) : D[i].data[q] = T2[q]
             /\ D[i].kind = "used" /\ m = "unused" => D[i].data = U2
      <2>1. D[i].kind # "used"
            BY DEF ReadyKeys
      <2>2. ASSUME D[i].kind = "bucket", NEW q \in Range(D[i].key)
            PROVE  D[i].data[q] = T2[q]
            <3>1. q \in R.ready
                  BY <2>2 DEF ReadyKeys
            <3>2. T2[q] = T[q]
                  BY <3>1
            <3>3. D[i].data[q] = T[q]
                  BY <2>2 DEF Summed
            <3> QED BY <3>2, <3>3
      <2> QED BY <2>1, <2>2
<1> QED BY <1>1 DEF Summed

\* The totals of the other parameters stay.
LEMMA TotalsHook ==
  ASSUME NEW r \in Ranks, OthersG(r), NEW p \in Params,
         \A q \in Params : q # p => gave'[r][q] = gave[r][q]
  PROVE  \A q \in Params : q # p => Totals'[q] = Totals[q]
<1> SUFFICES ASSUME NEW q \in Params, q # p PROVE Totals'[q] = Totals[q]
    OBVIOUS
<1>1. Totals[q] = UNION {gave[s][q] : s \in Ranks} /\ Totals'[q] = UNION {gave'[s][q] : s \in Ranks}
      BY DEF Totals, Total
<1>2. \A s \in Ranks : gave'[s][q] = gave[s][q]
      <2> TAKE s \in Ranks
      <2>1. CASE s = r
            BY <2>1
      <2>2. CASE s # r
            BY <2>2 DEF OthersG
      <2> QED BY <2>1, <2>2
<1> QED BY <1>1, <1>2

\* A hook of a synchronised pass is of a parameter that no rank has the result of.
LEMMA HookResults ==
  ASSUME IInv, JInv, KInv, Calm, GParts, NEW r \in Ranks, OthersG(r), NEW p \in Params,
         pc[r] = "backward", pc'[r] = "backward", pass'[r] = pass[r], red'[r].done = red[r].done,
         program.passes[pass[r] + 1] = "sync" => p \notin red[r].ready,
         \A q \in Params : q # p => gave'[r][q] = gave[r][q]
  PROVE  \A s \in Ranks : ResultsRight(s)' /\ GradsRight(s)'
<1>1. PICK P, L, R, k, f, n, G, g :
        /\ P = program /\ L = Layout /\ R = red[r] /\ k = pass[r] /\ f = fires[r] /\ n = finals[r]
        /\ G = graph[r] /\ g = grad[r]
      OBVIOUS
<1>2. Stays(P, L, R, "backward", k, G, f, g, n) /\ "backward" \in InPass
      BY <1>1, StaysAt DEF InPass
<1>3. k \in Nat /\ R.ready \subseteq Params
      BY <1>2 DEF Stays, TypedRank, JRank, Typed
<1>4. \A j : Here(r, j)' => j = k + 1
      BY <1>1 DEF Here
<1>5. P = program'
      BY <1>1 DEF OthersG
<1>6. \A q \in Params : q # p => Totals'[q] = Totals[q]
      BY TotalsHook
<1>7. \A j : AllHere(j)' => AllHere(j)
      <2> SUFFICES ASSUME NEW j, AllHere(j)', NEW s \in Ranks PROVE Here(s, j)
            BY DEF AllHere
      <2>1. Here(s, j)'
            BY DEF AllHere
      <2>2. CASE s = r
            BY <2>1, <2>2 DEF Here
      <2>3. CASE s # r
            BY <2>1, <2>3 DEF Here, OthersG, Others
      <2> QED BY <2>2, <2>3
<1>8. ASSUME NEW s \in Ranks PROVE ResultsRight(s)'
      <2> SUFFICES ASSUME Syncing(program, pc[s], pass[s])', AllHere(pass[s] + 1)'
                   PROVE  Summed(red[s].done, Totals, AllUsed, Mode)'
            BY DEF ResultsRight
      <2>1. PICK Q, l, i, H, h, z, j :
              /\ Q = red[s] /\ l = pc[s] /\ i = pass[s] /\ H = graph[s] /\ h = fires[s] /\ z = grad[s]
              /\ j = finals[s]
            OBVIOUS
      <2>2. l = pc'[s] /\ i = pass'[s] /\ Q.done = red'[s].done
            <3>1. CASE s = r
                  BY <2>1, <3>1
            <3>2. CASE s # r
                  BY <2>1, <3>2 DEF OthersG, Others
            <3> QED BY <3>1, <3>2
      <2>3. l \in InPass /\ P.passes[i + 1] = "sync" /\ Syncing(program, pc[s], pass[s])
            BY <1>1, <1>5, <2>1, <2>2 DEF Syncing, InPass
      <2>4. Stays(P, L, Q, l, i, H, h, z, j) /\ Aligned(P, L, R, n, Q, j)
            BY <1>1, <2>1, StaysAt, AlignedAt
      <2>5. i \in Nat
            BY <2>4 DEF Stays, TypedRank
      <2>6. i + 1 = k + 1
            <3>1. Here(r, pass[s] + 1)'
                  BY DEF AllHere
            <3> QED BY <1>4, <2>2, <3>1
      <2>7. i = k
            BY <1>3, <2>5, <2>6
      <2>8. p \in Params \ R.ready
            BY <1>1, <2>3, <2>7
      <2>9. ReadyKeys(R, Q.done)
            BY ONLY <1>2, <2>3, <2>4, <2>7, DoneReady
      <2>10. AllHere(pass[s] + 1)
            <3>1. AllHere(i + 1)'
                  BY <2>2 DEF AllHere, Here
            <3>2. AllHere(i + 1)
                  BY <1>7, <3>1
            <3> QED BY <2>1, <3>2
      <2>11. PICK D, T, U, o : D = Q.done /\ T = Totals /\ U = AllUsed /\ o = Mode
            OBVIOUS
      <2>12. Summed(D, T, U, o)
            BY <2>1, <2>3, <2>10, <2>11 DEF GParts, ResultsRight
      <2>13. PICK T2, U2 : T2 = Totals' /\ U2 = AllUsed'
            OBVIOUS
      <2>14. \A q \in Params : q # p => T2[q] = T[q]
            BY <1>6, <2>11, <2>13
      <2>15. Summed(D, T2, U2, o)
            BY ONLY <1>3, <2>8, <2>9, <2>11, <2>12, <2>14, SummedUnready
      <2>16. o = Mode' /\ D = red'[s].done
            BY <1>1, <1>5, <2>2, <2>11 DEF Mode
      <2> QED BY <2>13, <2>15, <2>16
<1>9. ASSUME NEW s \in Ranks PROVE GradsRight(s)'
      <2> SUFFICES ASSUME AfterSync(program, pc[s], pass[s])', ~red'[s].expect, AllHere(pass[s])'
                   PROVE  FALSE
            BY DEF GradsRight
      <2>1. pc'[s] = "idle" /\ pass'[s] > 0 /\ P.passes[pass'[s]] = "sync"
            BY <1>5 DEF AfterSync
      <2>2. s # r
            BY <2>1
      <2>3. PICK Q, i, H, h, z, j :
              /\ Q = red[s] /\ i = pass[s] /\ H = graph[s] /\ h = fires[s] /\ z = grad[s]
              /\ j = finals[s]
            OBVIOUS
      <2>4. pc[s] = "idle" /\ i = pass'[s] /\ Q = red'[s]
            BY <2>1, <2>2, <2>3 DEF OthersG, Others
      <2>5. Stays(P, L, Q, "idle", i, H, h, z, j) /\ Aligned(P, L, R, n, Q, j)
            BY <1>1, <2>3, <2>4, StaysAt, AlignedAt
      <2>6. i = k + 1
            BY <1>4, <2>4 DEF AllHere
      <2>7. P.passes[k + 1] = "sync" /\ ~Q.expect /\ Stays(P, L, Q, "idle", k + 1, H, h, z, j)
            BY <2>1, <2>4, <2>5, <2>6
      <2>8. Ended(P, L, R, n)
            BY ONLY <1>2, <2>5, <2>7, PassEnded
      <2>9. R.ready = Params
            BY ONLY <1>2, <2>8, EndedReady
      <2> QED BY <1>1, <2>7, <2>9
<1> QED BY <1>8, <1>9

\* The engine accumulates a gradient and runs its hook.
LEMMA HookG ==
  ASSUME IInv, JInv, KInv, Tables, GInv, IInv', JInv', NEW r \in Ranks, NEW p \in Params, Hook(r, p)
  PROVE  GInv'
<1> SUFFICES ASSUME Calm' PROVE GParts'
    BY DEF GInv
<1>1. PICK P, L, R, k, f, n, g, z, Q, h, G, v :
        /\ P = program /\ L = Layout /\ R = red[r] /\ k = pass[r] /\ f = fires[r] /\ n = finals[r]
        /\ g = grad[r] /\ z = grad'[r] /\ Q = AutogradHook(R, z, p) /\ h = [f EXCEPT ![p] = @ - 1]
        /\ G = graph[r] /\ v = gave[r]
      OBVIOUS
<1>2. PICK w : /\ grad' = [grad EXCEPT ![r][p] = @ \cup w] /\ gave' = [gave EXCEPT ![r][p] = @ \cup w]
               /\ G.loss[p] > 0 => w # {}
      <2>1. PICK w : /\ w = IF graph[r].loss[p] > 0 THEN {<<r, pass[r] + 1, fires[r][p]>>} ELSE {}
                     /\ grad' = [grad EXCEPT ![r][p] = @ \cup w] /\ gave' = [gave EXCEPT ![r][p] = @ \cup w]
            BY DEF Hook
      <2>2. graph[r].loss[p] > 0 => w # {}
            BY <2>1
      <2> QED BY <1>1, <2>1, <2>2
<1>3. /\ DOMAIN red = Ranks /\ DOMAIN pc = Ranks /\ DOMAIN fires = Ranks
      /\ DOMAIN grad = Ranks /\ DOMAIN gave = Ranks
      BY DEF IInv, Shape, Tables, GradsShaped
<1>4. /\ pc[r] = "backward" /\ f[p] > 0 /\ fires' = [fires EXCEPT ![r] = h]
      /\ red' = [red EXCEPT ![r] = Q] /\ red'[r] = Q /\ GotoUnless(r, red'[r], "backward")
      /\ UNCHANGED <<program, pass, graph, finals, broken>>
      BY <1>1, <1>3 DEF Hook, Update
<1>5. pc'[r] # "raised"
      BY DEF Calm
<1>6. pc' = [pc EXCEPT ![r] = "backward"] /\ pc'[r] = "backward"
      <2>1. pc' = [pc EXCEPT ![r] = IF Q.error THEN "raised" ELSE "backward"]
            BY <1>4 DEF GotoUnless, Goto
      <2>2. ~Q.error
            BY <1>3, <1>5, <2>1
      <2> QED BY <1>3, <2>1, <2>2
<1>7. Q.error = FALSE
      <2>1. red'[r].error = (pc'[r] = "raised")
            BY DEF IInv, RankTypes
      <2> QED BY <1>4, <1>6, <2>1
<1>8. OthersG(r) /\ fires'[r] = h /\ pass'[r] = k /\ finals'[r] = n /\ graph'[r] = G
      BY <1>1, <1>2, <1>3, <1>4, <1>6 DEF OthersG, Others
<1>9. Calm
      BY <1>4, <1>8, CalmBefore
<1>10. GParts
      BY <1>9 DEF GInv
<1>11. GRank(P, R, "backward", k, G, f, g, v) /\ Stays(P, L, R, "backward", k, G, f, g, n)
      BY <1>1, <1>4, <1>9, <1>10, StaysAt DEF GParts
<1>12. g = v
      BY <1>11 DEF GRank, AfterSync
<1>13. v \in [Params -> Given(P)] /\ gave'[r] = [v EXCEPT ![p] = @ \cup w] /\ z = [v EXCEPT ![p] = @ \cup w]
      BY <1>1, <1>2, <1>3, <1>12 DEF JInv
<1>14. Adds(G, v, z, p)
      BY <1>2, <1>13 DEF Adds
<1>15. z \in [Params -> Given(P)]
      BY <1>1, <1>4 DEF JInv
<1>16. f \in [Params -> 0..2]
      BY <1>11 DEF Stays, JRank, Typed
<1>17. FiresOnce(f, h, p)
      BY <1>1, <1>4, <1>16 DEF FiresOnce
<1>18. HookedRight(P, R, Q, k, G, h, z, p, n)
      BY ONLY <1>1, <1>4, <1>7, <1>11, <1>14, <1>15, <1>17, HookGRank
<1>19. Kept(R, Q)
      <2>1. TypedRank(P, R, "backward", k, f, n) /\ JRank(P, L, R, "backward", k, f, n)
            BY <1>11 DEF Stays
      <2>2. StepsTo(P, L, R, Q, IF Q.error THEN "raised" ELSE "backward", k, h, n)
            BY ONLY <1>1, <1>4, <1>15, <2>1, HookRank
      <2> QED BY <2>2 DEF StepsTo
<1>20. Q.done = R.done
      BY <1>19 DEF Kept
<1>21. /\ GRank(P, Q, "backward", k, G, h, z, z) /\ (P.passes[k + 1] = "sync" => p \notin R.ready)
      BY <1>18 DEF HookedRight
<1>22. MapKept(P, Q, n, AllUsed)
      <2>1. PICK U : U = AllUsed
            OBVIOUS
      <2>2. MapKept(P, R, n, U)
            BY <1>1, <1>10, <2>1 DEF GParts
      <2>3. (P.mode = "static" /\ n > 0 => Q.used = R.used) /\ Q.reduced = R.reduced
            BY <1>18 DEF HookedRight
      <2>4. MapKept(P, Q, n, U)
            BY ONLY <1>20, <2>2, <2>3 DEF MapKept
      <2> QED BY <2>1, <2>4
<1>23. \A s \in Ranks : MapKept(program, red'[s], finals'[s], AllUsed')
      BY <1>1, <1>4, <1>8, <1>10, <1>22, MapsStep
<1>24. \A q \in Params : q # p => gave'[r][q] = gave[r][q]
      BY <1>1, <1>13
<1>25. \A s \in Ranks : ResultsRight(s)' /\ GradsRight(s)'
      <2>1. red[r].done = red'[r].done /\ (program.passes[pass[r] + 1] = "sync" => p \notin red[r].ready)
            BY <1>1, <1>4, <1>20, <1>21
      <2> QED BY <1>1, <1>4, <1>6, <1>8, <1>9, <1>10, <1>24, <2>1, HookResults
<1>26. gave'[r] = z
      BY <1>13
<1> QED BY <1>1, <1>4, <1>6, <1>8, <1>10, <1>21, <1>23, <1>25, <1>26, StepG

\* A rank that uses the same parameters as before.
LEMMA UsedSame ==
  ASSUME NEW r \in Ranks, OthersG(r),
         UsedBy(program, red'[r], pc'[r], graph'[r], gave'[r]) = UsedBy(program, red[r], pc[r], graph[r], gave[r])
  PROVE  AllUsed' = AllUsed
<1>1. \A s \in Ranks : UsedBy(program, red'[s], pc'[s], graph'[s], gave'[s])
                       = UsedBy(program, red[s], pc[s], graph[s], gave[s])
      <2> TAKE s \in Ranks
      <2>1. CASE s = r
            BY <2>1
      <2>2. CASE s # r
            BY <2>2 DEF OthersG, Others
      <2> QED BY <2>1, <2>2
<1>2. program' = program
      BY DEF OthersG
<1>3. AllUsed' = UNION {UsedBy(program, red'[s], pc'[s], graph'[s], gave'[s]) : s \in Ranks}
      BY <1>2 DEF AllUsed
<1> QED BY <1>1, <1>3 DEF AllUsed

\* A rank that stays in its pass, or finalizes it.
LEMMA StillHere ==
  ASSUME GParts, NEW r \in Ranks, OthersG(r), \A j : Here(r, j)' => Here(r, j),
         AllUsed' = AllUsed, gave'[r] = gave[r], GradsRight(r)',
         Syncing(program, pc'[r], pass'[r]) =>
           Syncing(program, pc[r], pass[r]) /\ pass'[r] = pass[r] /\ red'[r].done = red[r].done
  PROVE  \A s \in Ranks : ResultsRight(s)' /\ GradsRight(s)'
<1>1. \A s \in Ranks : gave'[s] = gave[s]
      <2> TAKE s \in Ranks
      <2>1. CASE s = r
            BY <2>1
      <2>2. CASE s # r
            BY <2>2 DEF OthersG
      <2> QED BY <2>1, <2>2
<1>2. Totals' = Totals
      BY <1>1 DEF Totals, Total
<1>3. program' = program /\ Mode' = Mode
      BY DEF OthersG, Mode
<1>4. \A j : AllHere(j)' => AllHere(j)
      <2> SUFFICES ASSUME NEW j, AllHere(j)', NEW s \in Ranks PROVE Here(s, j)
            BY DEF AllHere
      <2>1. Here(s, j)'
            BY DEF AllHere
      <2>2. CASE s = r
            BY <2>1, <2>2
      <2>3. CASE s # r
            BY <2>1, <2>3 DEF Here, OthersG, Others
      <2> QED BY <2>2, <2>3
<1>5. ASSUME NEW s \in Ranks PROVE ResultsRight(s)'
      <2> SUFFICES ASSUME Syncing(program, pc[s], pass[s])', AllHere(pass[s] + 1)'
                   PROVE  Summed(red[s].done, Totals, AllUsed, Mode)'
            BY DEF ResultsRight
      <2>1. Syncing(program, pc[s], pass[s]) /\ pass'[s] = pass[s] /\ red'[s].done = red[s].done
            <3>0. Syncing(program, pc'[s], pass'[s])
                  BY <1>3
            <3>1. CASE s = r
                  BY <3>0, <3>1
            <3>2. CASE s # r
                  BY <3>0, <3>2 DEF OthersG, Others
            <3> QED BY <3>1, <3>2
      <2>2. PICK i : i = pass[s]
            OBVIOUS
      <2>3. AllHere(i + 1)'
            BY <2>1, <2>2 DEF AllHere, Here
      <2>4. AllHere(pass[s] + 1)
            BY <1>4, <2>2, <2>3
      <2>5. Summed(red[s].done, Totals, AllUsed, Mode)
            BY <2>1, <2>4 DEF GParts, ResultsRight
      <2> QED BY <1>2, <1>3, <2>1, <2>5
<1>6. ASSUME NEW s \in Ranks PROVE GradsRight(s)'
      <2>1. CASE s = r
            BY <2>1
      <2>2. CASE s # r
            <3> SUFFICES ASSUME AfterSync(program, pc[s], pass[s])', ~red'[s].expect, AllHere(pass[s])',
                                NEW p \in Params
                         PROVE  grad'[s][p] = IF p \in AllUsed' THEN Totals'[p] ELSE gave'[s][p]
                  BY DEF GradsRight
            <3>1. /\ pc'[s] = pc[s] /\ pass'[s] = pass[s] /\ red'[s] = red[s] /\ grad'[s] = grad[s]
                  BY <2>2 DEF OthersG, Others
            <3>2. AfterSync(program, pc[s], pass[s]) /\ ~red[s].expect
                  BY <1>3, <3>1
            <3>3. PICK i : i = pass[s]
                  OBVIOUS
            <3>4. AllHere(i)'
                  BY <3>1, <3>3 DEF AllHere, Here
            <3>5. AllHere(pass[s])
                  BY <1>4, <3>3, <3>4
            <3>6. grad[s][p] = IF p \in AllUsed THEN Totals[p] ELSE gave[s][p]
                  BY <3>2, <3>5 DEF GParts, GradsRight
            <3> QED BY <1>1, <1>2, <3>1, <3>6
      <2> QED BY <2>1, <2>2
<1> QED BY <1>5, <1>6

\* The backward of a pass that does not reduce ends.
LEMMA QuietEnd ==
  ASSUME IInv, JInv, KInv, Calm, NEW r \in Ranks, OthersG(r), pc[r] = "backward",
         pc'[r] = "idle", pass'[r] = pass[r] + 1, program.passes[pass[r] + 1] = "sync" => red'[r].expect
  PROVE  \A s \in Ranks : ResultsRight(s)' /\ GradsRight(s)'
<1>1. CASE red'[r].expect
      BY <1>1, Absent
<1>2. CASE ~red'[r].expect
      <2>1. PICK P, k : P = program /\ k = pass[r]
            OBVIOUS
      <2>2. P.passes[k + 1] # "sync" /\ P = program'
            BY <1>2, <2>1 DEF OthersG
      <2>3. \A j : Here(r, j)' => j = k + 1
            BY <2>1 DEF Here
      <2>4. ASSUME NEW s \in Ranks PROVE ResultsRight(s)' /\ GradsRight(s)'
            <3>1. ASSUME Syncing(program, pc[s], pass[s])', AllHere(pass[s] + 1)' PROVE FALSE
                  <4>1. Here(r, pass[s] + 1)'
                        BY <3>1 DEF AllHere
                  <4>2. pass'[s] + 1 = k + 1
                        BY <2>3, <4>1
                  <4>3. P.passes[pass'[s] + 1] = "sync"
                        BY <2>2, <3>1 DEF Syncing
                  <4> QED BY <2>2, <4>2, <4>3
            <3>2. ASSUME AfterSync(program, pc[s], pass[s])', AllHere(pass[s])' PROVE FALSE
                  <4>1. Here(r, pass[s])'
                        BY <3>2 DEF AllHere
                  <4>2. pass'[s] = k + 1
                        BY <2>3, <4>1
                  <4>3. P.passes[pass'[s]] = "sync"
                        BY <2>2, <3>2 DEF AfterSync
                  <4> QED BY <2>2, <4>2, <4>3
            <3> QED BY <3>1, <3>2 DEF ResultsRight, GradsRight
      <2> QED BY <2>4
<1> QED BY <1>1, <1>2

\* The GraphTask is complete.
LEMMA EndBackwardG ==
  ASSUME IInv, JInv, KInv, GInv, IInv', NEW r \in Ranks, EndBackward(r)
  PROVE  GInv'
<1> SUFFICES ASSUME Calm' PROVE GParts'
    BY DEF GInv
<1>1. PICK P, L, R, k, f, n, g, G, v :
        /\ P = program /\ L = Layout /\ R = red[r] /\ k = pass[r] /\ f = fires[r] /\ n = finals[r]
        /\ g = grad[r] /\ G = graph[r] /\ v = gave[r]
      OBVIOUS
<1>2. PICK S : S = IF R.callback = "delay" THEN DelayAllReduce(R, g) ELSE FinalCallback(R)
      OBVIOUS
<1>3. PICK e, Q : /\ e = (S.error \/ ~(S.expect /\ S.finalize))
                  /\ Q = Ends(S, e)
      OBVIOUS
<1>4. /\ pc[r] = "backward" /\ AllFired(f)
      /\ \/ /\ R.callback = "none" /\ Goto(r, "idle")
            /\ pass' = [pass EXCEPT ![r] = @ + 1] /\ UNCHANGED red
         \/ /\ R.callback # "none" /\ Update(r, Q)
            /\ GotoUnless(r, red'[r], "final") /\ UNCHANGED pass
      /\ UNCHANGED <<program, grad, gave, graph, fires, finals, broken>>
      BY <1>1, <1>2, <1>3 DEF EndBackward, Ends, AllFired
<1>5. TypedRank(P, R, "backward", k, f, n) /\ JRank(P, L, R, "backward", k, f, n)
      BY <1>1, <1>4, RankAt
<1>6. /\ DOMAIN R = Fields /\ R.error = FALSE /\ R.expect \in BOOLEAN /\ R.finalize \in BOOLEAN
      /\ R.callback \in {"none", "delay", "finalize"}
      BY <1>5 DEF TypedRank, JRank, Typed
<1>7. DOMAIN red = Ranks /\ DOMAIN pc = Ranks /\ DOMAIN pass = Ranks
      BY DEF IInv, Shape
<1>8. /\ fires'[r] = f /\ finals'[r] = n /\ graph'[r] = G /\ grad'[r] = g /\ gave'[r] = v
      BY <1>1, <1>4
<1>9. OthersG(r)
      <2>1. CASE Goto(r, "idle") /\ pass' = [pass EXCEPT ![r] = @ + 1] /\ UNCHANGED red
            BY <1>4, <1>7, <2>1 DEF OthersG, Others, Goto
      <2>2. CASE Update(r, Q) /\ GotoUnless(r, red'[r], "final") /\ UNCHANGED pass
            <3>1. PICK m : red' = [red EXCEPT ![r] = Q] /\ pc' = [pc EXCEPT ![r] = m]
                  BY <2>2 DEF Update, GotoUnless, Goto
            <3> QED BY <1>4, <1>7, <2>2, <3>1 DEF OthersG, Others
      <2> QED BY <1>4, <2>1, <2>2
<1>10. Calm
      BY <1>4, <1>9, CalmBefore
<1>11. GParts
      BY <1>10 DEF GInv
<1>12. GRank(P, R, "backward", k, G, f, g, v) /\ Stays(P, L, R, "backward", k, G, f, g, n)
      BY <1>1, <1>4, <1>10, <1>11, StaysAt DEF GParts
<1>13. \A p \in Params : f[p] = 0
      BY <1>4 DEF AllFired
<1>14. MapKept(P, R, n, AllUsed)
      BY <1>1, <1>11 DEF GParts
<1>15. CASE /\ R.callback = "none" /\ Goto(r, "idle")
            /\ pass' = [pass EXCEPT ![r] = @ + 1] /\ UNCHANGED red
      <2>1. red'[r] = R /\ pc'[r] = "idle" /\ pass'[r] = k + 1
            BY <1>1, <1>4, <1>7, <1>15 DEF Goto
      <2>2. GRank(P, R, "idle", k + 1, G, f, g, v) /\ (P.passes[k + 1] = "sync" => R.expect)
            BY ONLY <1>12, EndGRank
      <2>3. \A s \in Ranks : ResultsRight(s)' /\ GradsRight(s)'
            BY <1>1, <1>4, <1>9, <1>10, <2>1, <2>2, QuietEnd
      <2>4. \A s \in Ranks : MapKept(program, red'[s], finals'[s], AllUsed')
            BY <1>1, <1>8, <1>9, <1>11, <1>14, <2>1, MapsStep
      <2> QED BY <1>1, <1>8, <1>9, <1>11, <2>1, <2>2, <2>3, <2>4, StepG
<1>16. CASE /\ R.callback # "none" /\ Update(r, Q)
            /\ GotoUnless(r, red'[r], "final") /\ UNCHANGED pass
      <2>1. red'[r] = Q /\ pass'[r] = k
            BY <1>1, <1>7, <1>16 DEF Update
      <2>2. pc'[r] = "final" /\ ~Q.error
            <3>1. pc' = [pc EXCEPT ![r] = IF Q.error THEN "raised" ELSE "final"]
                  BY <1>16, <2>1 DEF GotoUnless, Goto
            <3>2. pc'[r] # "raised"
                  BY DEF Calm
            <3> QED BY <1>7, <3>1, <3>2
      <2>3. GRank(P, Q, "final", k, G, f, g, v) /\ SameMap(R, Q) /\ Q.done = R.done /\ Q.used = R.used
            <3>1. CASE R.callback = "finalize"
                  <4>1. S = FinalCallback(R)
                        BY <1>2, <3>1
                  <4>2. P = program /\ DOMAIN R = Fields /\ Q = Ends(S, e)
                        BY <1>1, <1>3, <1>6
                  <4>3. Concluded(P, R, Q)
                        BY ONLY <4>1, <4>2, ConcludedEffect
                  <4>4. SameMap(R, Q) /\ Q.done = R.done /\ Q.used = R.used
                        BY <4>3 DEF Concluded, SameMap
                  <4>5. GRank(P, Q, "final", k, G, f, g, v)
                        BY ONLY <1>12, <1>13, <3>1, <4>3, ConcludeGRank
                  <4> QED BY <4>4, <4>5
            <3>2. CASE R.callback = "delay"
                  <4>1. S = DelayAllReduce(R, g) /\ DOMAIN R = Fields
                        BY <1>2, <1>6, <3>2
                  <4>2. PICK F : Filling(P, R, F, g) /\ Loads(F, S)
                        BY ONLY <4>1, DelayEffect
                  <4>3. DOMAIN F = Fields /\ F.error \in BOOLEAN /\ F.expect \in BOOLEAN /\ F.finalize = TRUE
                        BY <1>6, <4>2 DEF Filling
                  <4>4. Q = Ends(S, e) /\ e = (S.error \/ ~(S.expect /\ S.finalize))
                        BY <1>3
                  <4>5. Drained(F, Q)
                        BY ONLY <4>2, <4>3, <4>4, DrainedEffect
                  <4>6. g \in [Params -> Given(P)]
                        BY <1>1 DEF JInv
                  <4>7. Filling(P, R, F, g)
                        BY <4>2
                  <4>8. SameMap(R, Q) /\ Q.done = R.done /\ Q.used = R.used
                        BY <4>5, <4>7 DEF Drained, Filling, SameMap
                  <4>9. GRank(P, Q, "final", k, G, f, g, v)
                        BY ONLY <1>12, <1>13, <2>2, <3>2, <4>5, <4>6, <4>7, DelayGRank
                  <4> QED BY <4>8, <4>9
            <3> QED BY <1>6, <1>16, <3>1, <3>2
      <2>4. AllUsed' = AllUsed
            <3>1. UsedBy(P, Q, "final", G, v) = UsedBy(P, R, "backward", G, v)
                  BY <2>3 DEF UsedBy
            <3> QED BY <1>1, <1>4, <1>8, <1>9, <2>1, <2>2, <3>1, UsedSame
      <2>5. \A s \in Ranks : ResultsRight(s)' /\ GradsRight(s)'
            <3>1. \A j : Here(r, j)' => Here(r, j)
                  BY <1>1, <1>4, <2>1, <2>2 DEF Here
            <3>2. GradsRight(r)'
                  BY <2>2 DEF GradsRight, AfterSync
            <3>3. Syncing(program, pc'[r], pass'[r]) =>
                    Syncing(program, pc[r], pass[r]) /\ pass'[r] = pass[r] /\ red'[r].done = red[r].done
                  BY <1>1, <1>4, <2>1, <2>3 DEF Syncing
            <3> QED BY <1>1, <1>8, <1>9, <1>11, <2>4, <3>1, <3>2, <3>3, StillHere
      <2>6. MapKept(P, Q, n, AllUsed)
            BY <1>14, <2>3, MapKeptSame
      <2>7. \A s \in Ranks : MapKept(program, red'[s], finals'[s], AllUsed')
            BY <1>1, <1>8, <1>9, <1>11, <2>1, <2>6, MapsStep
      <2> QED BY <1>1, <1>8, <1>9, <1>11, <2>1, <2>2, <2>3, <2>5, <2>7, StepG
<1> QED BY <1>4, <1>15, <1>16

\* The results of the buckets, when all reductions of a rank are complete.
LEMMA FinalTotals ==
  ASSUME NEW P, NEW L, NEW R, NEW k, NEW G, NEW f, NEW g, NEW n,
         Stays(P, L, R, "final", k, G, f, g, n), R.work = <<>>,
         NEW T, NEW U, NEW o, Summed(R.done, T, U, o), NEW p \in Params
  PROVE  BucketResult(R, p) = T[p]
<1>1. TypedRank(P, R, "final", k, f, n) /\ JRank(P, L, R, "final", k, f, n)
      BY DEF Stays
<1>2. IsLayout(R.buckets)
      BY <1>1, LaidOutLayout DEF JRank, Typed
<1>3. PICK i \in 1..Len(R.buckets) : p \in Range(R.buckets[i])
      BY <1>2 DEF IsLayout
<1>4. PICK j \in 1..Len(R.done) : Sig(R.done[j]) = <<"bucket", R.buckets[i]>>
      BY <1>1, FinalBuckets
<1>5. R.done[j].kind = "bucket" /\ R.done[j].key = R.buckets[i]
      BY <1>4 DEF Sig
<1>6. IsWorks(P, R.done)
      BY <1>1, FinalFacts
<1>7. R.done[j] \in Range(R.done) /\ DOMAIN R.done = 1..Len(R.done)
      BY <1>6 DEF IsWorks, Range
<1> DEFINE w == CHOOSE w \in Range(R.done) : w.kind = "bucket" /\ p \in Range(w.key)
<1>8. w \in Range(R.done) /\ w.kind = "bucket" /\ p \in Range(w.key)
      BY <1>3, <1>5, <1>7
<1>9. BucketResult(R, p) = w.data[p]
      BY DEF BucketResult
<1> HIDE DEF w
<1>10. PICK m \in 1..Len(R.done) : w = R.done[m]
      BY <1>7, <1>8 DEF Range
<1> QED BY <1>8, <1>9, <1>10 DEF Summed

\* A reduced used map is with them.
LEMMA UsedAmong ==
  ASSUME NEW P, NEW R, IsWorks(P, R.done), NEW j \in 1..Len(R.done), R.done[j].kind = "used"
  PROVE  \E m \in 1..Len(R.done) : R.done[m].kind = "used" /\ UsedResult(R) = R.done[m].data
<1>1. R.done[j] \in Range(R.done) /\ DOMAIN R.done = 1..Len(R.done)
      BY DEF IsWorks, Range
<1> DEFINE w == CHOOSE w \in Range(R.done) : w.kind = "used"
<1>2. w \in Range(R.done) /\ w.kind = "used"
      BY <1>1
<1>3. UsedResult(R) = w.data
      BY DEF UsedResult
<1> HIDE DEF w
<1>4. PICK m \in 1..Len(R.done) : w = R.done[m]
      BY <1>1, <1>2 DEF Range
<1> QED BY <1>2, <1>3, <1>4

\* A rank that is to finalize has a reduced used map wherever it may need it.
LEMMA FinalUsedDone ==
  ASSUME NEW P, NEW L, NEW R, NEW k, NEW G, NEW f, NEW g, NEW n,
         Stays(P, L, R, "final", k, G, f, g, n), R.work = <<>>, P.mode = "unused" \/ (P.mode = "static" /\ n = 0)
  PROVE  \E m \in 1..Len(R.done) : R.done[m].kind = "used" /\ UsedResult(R) = R.done[m].data
<1>1. TypedRank(P, R, "final", k, f, n) /\ JRank(P, L, R, "final", k, f, n)
      BY DEF Stays
<1>2. IsLayout(R.buckets)
      BY <1>1, LaidOutLayout DEF JRank, Typed
<1>3. Len(R.buckets) \in Nat
      BY <1>2 DEF IsLayout
<1> DEFINE S == RoundSigs(P, L, Rounds(R, n))
<1>4. /\ Len(R.done) = Len(S) /\ IsWorks(P, R.done)
      /\ \A i \in 1..Len(R.done) : Sig(R.done[i]) = S[i]
      BY <1>1, FinalFacts DEF Ended
<1>5. \E i \in 1..Len(S) : S[i] = UsedSig
      <2>1. CASE P.mode = "static" /\ n = 0
            <3>1. S = <<UsedSig>> \o BucketSigs(R.buckets)
                  BY <1>1, <2>1, FinalDelayed
            <3>2. Len(S) = Len(R.buckets) + 1 /\ S[1] = UsedSig
                  BY <3>1, <1>3, BucketSigsLen
            <3>3. 1 \in 1..Len(S)
                  BY <1>3, <3>2
            <3> QED BY <3>2, <3>3
      <2>2. CASE P.mode = "unused"
            <3>1. InBuckets(P, L, R, n)
                  BY <1>1, <2>2, RankInBuckets
            <3>2. Len(S) = Len(R.buckets) + 1 /\ S[Len(R.buckets) + 1] = UsedSig
                  BY <1>2, <2>2, <3>1, InBucketsSigs
            <3>3. Len(R.buckets) + 1 \in 1..Len(S)
                  BY <1>3, <3>2
            <3> QED BY <3>2, <3>3
      <2> QED BY <2>1, <2>2
<1> HIDE DEF S
<1>6. PICK j \in 1..Len(R.done) : Sig(R.done[j]) = UsedSig
      BY <1>4, <1>5
<1>7. R.done[j].kind = "used"
      BY <1>6 DEF Sig, UsedSig
<1> QED BY <1>4, <1>7, UsedAmong

\* The used map that finalize_backward goes by is that of all ranks.
LEMMA FinalMap ==
  ASSUME NEW P, P = program, NEW L, NEW R, NEW k, NEW G, NEW f, NEW g, NEW n, NEW v,
         Stays(P, L, R, "final", k, G, f, g, n), GRank(P, R, "final", k, G, f, g, v), R.work = <<>>,
         NEW U, U \subseteq Params, UsedBy(P, R, "final", G, v) \subseteq U, MapKept(P, R, n, U),
         NEW T, P.mode # "unused" \/ Summed(R.done, T, U, P.mode)
  PROVE  GlobalUsed(R) = U
<1>1. /\ n \in Nat /\ P.mode \in Modes /\ R.used \subseteq Params
      /\ Keeps(P, L, R, "final", k, f, n)
      BY ProgramFacts DEF Stays, TypedRank, JRank, Typed
<1>2. CASE P.mode = "plain"
      BY <1>2 DEF GlobalUsed, Mode, UsedBy
<1>3. CASE P.mode = "unused"
      <2>1. R.reduced = FALSE
            BY <1>3 DEF MapKept
      <2>2. CASE R.used = Params
            BY <1>3, <2>2 DEF GlobalUsed, Mode, UsedBy
      <2>3. CASE R.used # Params
            <3>1. GlobalUsed(R) = UsedResult(R)
                  BY <1>3, <2>1, <2>3 DEF GlobalUsed, Mode
            <3>2. PICK m \in 1..Len(R.done) : R.done[m].kind = "used" /\ UsedResult(R) = R.done[m].data
                  BY <1>3, FinalUsedDone
            <3>3. R.done[m].data = U
                  BY <1>3, <3>2 DEF Summed
            <3> QED BY <3>1, <3>2, <3>3
      <2> QED BY <2>2, <2>3
<1>4. CASE P.mode = "static" /\ n > 0
      <2>1. R.reduced \/ R.used = Params
            BY <1>1, <1>4 DEF Keeps, Delays
      <2>2. R.used = U
            BY <1>4 DEF MapKept
      <2> QED BY <1>4, <2>1, <2>2 DEF GlobalUsed, Mode
<1>5. CASE P.mode = "static" /\ n = 0
      <2>1. R.reduced = FALSE
            BY <1>5 DEF MapKept
      <2>2. CASE R.used = Params
            <3>1. Delays(P, R, "final", k, f, n)
                  BY <1>1, <1>5 DEF Keeps
            <3>2. Deferred(P, R)
                  <4>1. P.mode = "static" => (n = 0 <=> R.iterations = 1)
                        BY DEF Stays, JRank, Keeps, Delays
                  <4> QED BY <1>5, <4>1 DEF Deferred
            <3>3. P.passes[k + 1] = "sync"
                  BY SyncExpects
            <3>4. Amounts(P, R, "final", G, f, v)
                  BY <3>3 DEF GRank, Syncing
            <3>5. MapExact(P, R, G, f, v)
                  BY <3>2, <3>4 DEF Amounts
            <3>6. \A p \in Params : G.loss[p] > 0
                  BY <1>5, <2>2, <3>5 DEF MapExact, Touches
            <3>7. U = Params
                  BY <1>5, <3>6 DEF UsedBy
            <3> QED BY <1>5, <2>2, <3>7 DEF GlobalUsed, Mode
      <2>3. CASE R.used # Params
            <3>1. GlobalUsed(R) = UsedResult(R)
                  BY <1>5, <2>1, <2>3 DEF GlobalUsed, Mode
            <3>2. PICK m \in 1..Len(R.done) : R.done[m].kind = "used" /\ UsedResult(R) = R.done[m].data
                  BY <1>5, FinalUsedDone
            <3>3. R.done[m].data = U
                  BY <1>5, <3>2 DEF MapKept
            <3> QED BY <3>1, <3>2, <3>3
      <2> QED BY <2>2, <2>3
<1> QED BY <1>1, <1>2, <1>3, <1>4, <1>5 DEF Modes

\* What the used maps are of.
LEMMA AllUsedParams ==
  ASSUME JInv, NEW r \in Ranks
  PROVE  AllUsed \subseteq Params /\ UsedBy(program, red[r], pc[r], graph[r], gave[r]) \subseteq AllUsed
<1>1. ASSUME NEW s \in Ranks
      PROVE  UsedBy(program, red[s], pc[s], graph[s], gave[s]) \subseteq Params
      <2>1. red[s].used \subseteq Params
            BY DEF JInv, JRank, Typed
      <2> QED BY <2>1 DEF UsedBy
<1> QED BY <1>1 DEF AllUsed

\* Finalizing changes nothing in what a rank uses.
LEMMA FinalUsedBy ==
  ASSUME NEW P, NEW L, NEW R, NEW k, NEW G, NEW f, NEW g, NEW n, NEW v, NEW Q,
         Stays(P, L, R, "final", k, G, f, g, n), GRank(P, R, "final", k, G, f, g, v)
  PROVE  UsedBy(P, Q, "idle", G, v) = UsedBy(P, R, "final", G, v)
<1>0. P.mode \in Modes
      BY ProgramFacts DEF Stays, TypedRank
<1>1. CASE P.mode # "unused"
      BY <1>0, <1>1 DEF UsedBy, Modes
<1>2. CASE P.mode = "unused"
      <2>1. P.passes[k + 1] = "sync"
            BY SyncExpects
      <2>2. Amounts(P, R, "final", G, f, v)
            BY <2>1 DEF GRank, Syncing
      <2>3. MapExact(P, R, G, f, v) /\ \A p \in Params : f[p] = 0
            BY <1>2, <2>2 DEF Amounts
      <2>4. R.used \subseteq Params
            BY DEF Stays, JRank, Typed
      <2>5. R.used = {p \in Params : Touches(P, G, p) /\ v[p] # {}}
            BY <2>3, <2>4 DEF MapExact
      <2> QED BY <1>2, <2>5 DEF UsedBy
<1> QED BY <1>1, <1>2

\* The used map that finalize_backward leaves.
LEMMA FinalMapKept ==
  ASSUME NEW P, P = program, NEW R, DOMAIN R = Fields, NEW n \in Nat, NEW U, NEW Q, Q = FinalizedReducer(R),
         P.mode = "static" => GlobalUsed(R) = U
  PROVE  MapKept(P, Q, n + 1, U) /\ Q.done = <<>> /\ Q.expect = FALSE
<1>1. PICK u, d : /\ Q = [R EXCEPT !.expect = FALSE, !.finalize = FALSE, !.done = <<>>, !.used = u, !.reduced = d]
                  /\ (P.mode = "static" => u = GlobalUsed(R)) /\ (P.mode # "static" => d = FALSE)
      BY DEF FinalizedReducer, Mode
<1>2. Q.used = u /\ Q.reduced = d /\ Q.done = <<>> /\ Q.expect = FALSE
      BY <1>1 DEF Fields
<1>3. n + 1 # 0 /\ Len(Q.done) = 0
      BY <1>2
<1> QED BY <1>1, <1>2, <1>3 DEF MapKept

\* finalize_backward.
LEMMA FinalizeBackwardG ==
  ASSUME IInv, JInv, KInv, Tables, GInv, NEW r \in Ranks, FinalizeBackward(r)
  PROVE  GInv'
<1> SUFFICES ASSUME Calm' PROVE GParts'
    BY DEF GInv
<1>1. PICK P, L, R, k, f, n, g, Q, G, z, v :
        /\ P = program /\ L = Layout /\ R = red[r] /\ k = pass[r] /\ f = fires[r] /\ n = finals[r]
        /\ g = grad[r] /\ Q = FinalizedReducer(R) /\ G = graph[r] /\ z = FinalizedGrads(R, g) /\ v = gave[r]
      OBVIOUS
<1>2. /\ pc[r] = "final" /\ R.work = <<>>
      /\ red' = [red EXCEPT ![r] = Q] /\ pc' = [pc EXCEPT ![r] = "idle"]
      /\ grad' = [grad EXCEPT ![r] = z]
      /\ pass' = [pass EXCEPT ![r] = @ + 1] /\ finals' = [finals EXCEPT ![r] = @ + 1]
      /\ UNCHANGED <<program, gave, graph, fires, broken>>
      BY <1>1 DEF FinalizeBackward, Update, Goto
<1>3. /\ DOMAIN red = Ranks /\ DOMAIN pc = Ranks /\ DOMAIN pass = Ranks /\ DOMAIN finals = Ranks
      /\ DOMAIN grad = Ranks
      BY DEF IInv, Shape, Tables, GradsShaped
<1>4. /\ red'[r] = Q /\ pc'[r] = "idle" /\ pass'[r] = k + 1 /\ fires'[r] = f
      /\ finals'[r] = n + 1 /\ graph'[r] = G /\ grad'[r] = z /\ gave'[r] = v
      BY <1>1, <1>2, <1>3
<1>5. OthersG(r)
      BY <1>2, <1>3 DEF OthersG, Others
<1>6. Calm
      BY <1>2, <1>5, CalmBefore
<1>7. GParts
      BY <1>6 DEF GInv
<1>8. GRank(P, R, "final", k, G, f, g, v) /\ Stays(P, L, R, "final", k, G, f, g, n)
      BY <1>1, <1>2, <1>6, <1>7, StaysAt DEF GParts
<1>9. g = v /\ k \in Nat /\ n \in Nat /\ DOMAIN R = Fields
      BY <1>8 DEF GRank, AfterSync, Stays, TypedRank
<1>10. P = program /\ Q = FinalizedReducer(R)
      BY <1>1
<1>11. GRank(P, Q, "idle", k + 1, G, f, z, v)
      BY ONLY <1>8, <1>10, FinalizeGRank
<1>12. AllUsed' = AllUsed
      <2>1. UsedBy(P, Q, "idle", G, v) = UsedBy(P, R, "final", G, v)
            BY ONLY <1>8, FinalUsedBy
      <2> QED BY <1>1, <1>2, <1>4, <1>5, <2>1, UsedSame
<1>13. PICK U, T : U = AllUsed /\ T = Totals
      OBVIOUS
<1>14. U \subseteq Params /\ UsedBy(P, R, "final", G, v) \subseteq U
      BY <1>1, <1>2, <1>13, AllUsedParams
<1>15. MapKept(P, R, n, U)
      BY <1>1, <1>7, <1>13 DEF GParts
<1>16. P.mode = "static" => GlobalUsed(R) = U
      <2> HAVE P.mode = "static"
      <2>1. P.mode # "unused" \/ Summed(R.done, T, U, P.mode)
            OBVIOUS
      <2> QED BY ONLY <1>2, <1>8, <1>10, <1>14, <1>15, <2>1, FinalMap
<1>17. MapKept(P, Q, n + 1, U) /\ Q.done = <<>> /\ Q.expect = FALSE
      BY ONLY <1>9, <1>10, <1>16, FinalMapKept
<1>18. \A s \in Ranks : MapKept(program, red'[s], finals'[s], AllUsed')
      BY <1>1, <1>4, <1>5, <1>7, <1>13, <1>17, MapsStep
<1>19. \A j : Here(r, j)' => Here(r, j)
      BY <1>1, <1>2, <1>4, <1>9 DEF Here
<1>20. GradsRight(r)'
      <2> SUFFICES ASSUME AllHere(pass[r])', NEW p \in Params
                   PROVE  grad'[r][p] = IF p \in AllUsed' THEN Totals'[p] ELSE gave'[r][p]
            BY DEF GradsRight
      <2>1. Totals' = T
            BY <1>2, <1>13 DEF Totals, Total
      <2>2. AllHere(k + 1)
            <3> SUFFICES ASSUME NEW s \in Ranks PROVE Here(s, k + 1)
                  BY DEF AllHere
            <3>1. Here(s, pass[r])'
                  BY DEF AllHere
            <3>2. CASE s = r
                  BY <1>1, <1>2, <3>2 DEF Here
            <3>3. CASE s # r
                  <4>1. pc'[s] = pc[s] /\ pass'[s] = pass[s] /\ red'[s] = red[s]
                        BY <1>5, <3>3 DEF OthersG, Others
                  <4> QED BY <1>4, <3>1, <4>1 DEF Here
            <3> QED BY <3>2, <3>3
      <2>3. Syncing(P, "final", k)
            BY <1>8, SyncExpects DEF Syncing
      <2>4. Summed(R.done, T, U, P.mode)
            BY <1>1, <1>2, <1>7, <1>13, <2>2, <2>3 DEF GParts, ResultsRight, Mode
      <2>5. P.mode # "unused" \/ Summed(R.done, T, U, P.mode)
            BY <2>4
      <2>6. GlobalUsed(R) = U
            BY ONLY <1>2, <1>8, <1>10, <1>14, <1>15, <2>5, FinalMap
      <2>7. BucketResult(R, p) = T[p]
            <3>1. p \in Params
                  OBVIOUS
            <3>2. R.work = <<>>
                  BY <1>2
            <3>3. Stays(P, L, R, "final", k, G, f, g, n)
                  BY <1>8
            <3>4. PICK o : o = P.mode
                  OBVIOUS
            <3>5. Summed(R.done, T, U, o)
                  BY <2>4, <3>4
            <3> QED BY ONLY <3>1, <3>2, <3>3, <3>5, FinalTotals
      <2>8. z[p] = IF p \in U THEN T[p] ELSE g[p]
            BY <1>1, <2>6, <2>7 DEF FinalizedGrads
      <2> QED BY <1>4, <1>9, <1>12, <1>13, <2>1, <2>8
<1>21. \A s \in Ranks : ResultsRight(s)' /\ GradsRight(s)'
      <2>1. ~Syncing(program, pc'[r], pass'[r])
            BY <1>4 DEF Syncing
      <2> QED BY <1>1, <1>4, <1>5, <1>7, <1>12, <1>19, <1>20, <2>1, StillHere
<1> QED BY <1>1, <1>4, <1>5, <1>7, <1>11, <1>18, <1>21, StepG

\* A rank with a collective to complete is in the reduction of a synchronised pass, or between
\* the two collectives that rebuild the buckets.
LEMMA WorkPlace ==
  ASSUME NEW P, NEW L, NEW R, NEW l, NEW k, NEW G, NEW f, NEW g, NEW n,
         Stays(P, L, R, l, k, G, f, g, n), R.work # <<>>
  PROVE  /\ l = "idle" => R.expect
         /\ l \in {"backward", "final"} => P.passes[k + 1] = "sync"
         /\ l # "forward" /\ Issued(R) # 0 /\ 1 \in 1..Len(R.work)
<1>1. /\ Keeps(P, L, R, l, k, f, n) /\ IsWorks(P, R.work) /\ Len(R.done) \in Nat
      /\ R.finalize \in BOOLEAN /\ R.expect \in BOOLEAN
      BY DEF Stays, JRank, TypedRank, Ledger, InRound
<1>2. Len(R.work) \in Nat \ {0}
      BY <1>1 DEF IsWorks
<1>3. Issued(R) # 0 /\ 1 \in 1..Len(R.work)
      <2>1. PICK a, b : a = Len(R.done) /\ b = Len(R.work)
            OBVIOUS
      <2>2. a \in Nat /\ b \in Nat \ {0}
            BY <1>1, <1>2, <2>1
      <2>3. a + b # 0 /\ 1 \in 1..b
            BY <2>2
      <2> QED BY <2>1, <2>3 DEF Issued
<1>4. R.finalize \/ l \in {"indices", "sizes"}
      BY <1>1, <1>3 DEF Keeps, Progress
<1>5. R.finalize => R.expect /\ l \notin InForward
      BY <1>1 DEF Keeps, Marking
<1>6. l = "backward" => P.passes[k + 1] = "sync"
      <2> HAVE l = "backward"
      <2>1. R.expect
            BY <1>4, <1>5
      <2>2. Stays(P, L, R, "backward", k, G, f, g, n)
            OBVIOUS
      <2>3. R.expect <=> P.passes[k + 1] = "sync"
            BY ONLY <2>2, SyncExpects
      <2> QED BY <2>1, <2>3
<1>7. l = "final" => P.passes[k + 1] = "sync"
      <2> HAVE l = "final"
      <2>2. Stays(P, L, R, "final", k, G, f, g, n)
            OBVIOUS
      <2> QED BY ONLY <2>2, SyncExpects
<1> QED BY <1>3, <1>4, <1>5, <1>6, <1>7 DEF InForward

\* The collectives of a rank that has issued all of them are of its buckets.
LEMMA FinalKeys ==
  ASSUME NEW P, NEW L, NEW R, NEW k, NEW G, NEW f, NEW g, NEW n, NEW S,
         Stays(P, L, R, "final", k, G, f, g, n), S = RoundSigs(P, L, Rounds(R, n)), NEW i \in 1..Len(S)
  PROVE  S[i] = UsedSig \/ \E j \in 1..Len(R.buckets) : S[i] = <<"bucket", R.buckets[j]>>
<1>1. TypedRank(P, R, "final", k, f, n) /\ JRank(P, L, R, "final", k, f, n) /\ n \in Nat
      BY DEF Stays, TypedRank
<1>2. IsLayout(R.buckets)
      BY <1>1, LaidOutLayout DEF JRank, Typed
<1>3. PICK m : m = Len(R.buckets)
      OBVIOUS
<1>4. m \in Nat
      BY <1>2, <1>3 DEF IsLayout
<1>5. P.mode = "static" => (n = 0 <=> R.iterations = 1)
      BY <1>1 DEF JRank, Keeps, Delays
<1>6. CASE P.mode = "static" /\ n = 0
      <2>1. S = <<UsedSig>> \o BucketSigs(R.buckets)
            BY <1>1, <1>6, FinalDelayed
      <2>2. Len(S) = m + 1 /\ S[1] = UsedSig /\ \A j \in 1..m : S[1 + j] = <<"bucket", R.buckets[j]>>
            BY <2>1, <1>3, <1>4, BucketSigsLen
      <2>3. CASE i = 1
            BY <2>2, <2>3
      <2>4. CASE i # 1
            <3>1. PICK j : j = i - 1
                  OBVIOUS
            <3>2. j \in 1..m /\ i = 1 + j
                  BY <1>4, <2>2, <2>4, <3>1
            <3> QED BY <1>3, <2>2, <3>2
      <2> QED BY <2>3, <2>4
<1>7. CASE ~(P.mode = "static" /\ n = 0)
      <2>1. InBuckets(P, L, R, n)
            BY <1>1, <1>5, <1>7, RankInBuckets
      <2>2. /\ \A j \in 1..m : S[j] = <<"bucket", R.buckets[j]>>
            /\ Len(S) = IF P.mode = "unused" THEN m + 1 ELSE m
            /\ P.mode = "unused" => S[m + 1] = UsedSig
            BY <1>2, <1>3, <2>1, InBucketsSigs
      <2>3. i \in 1..m \/ (P.mode = "unused" /\ i = m + 1)
            BY <1>4, <2>2
      <2> QED BY <1>3, <2>2, <2>3
<1> QED BY <1>6, <1>7

\* A bucket that is reduced has parameters.
LEMMA OldestKey ==
  ASSUME NEW P, NEW L, NEW R, NEW l \in {"backward", "final"}, NEW k, NEW G, NEW f, NEW g, NEW n,
         Stays(P, L, R, l, k, G, f, g, n), R.work # <<>>, R.work[1].kind = "bucket"
  PROVE  Range(R.work[1].key) \subseteq Params
<1>1. 1 \in 1..Len(R.work)
      BY WorkPlace
<1>2. CASE l = "backward"
      <2>1. Stays(P, L, R, "backward", k, G, f, g, n)
            BY <1>2
      <2>2. ReadyKeys(R, R.work)
            BY ONLY <2>1, KeysReady
      <2>3. Range(R.work[1].key) \subseteq R.ready
            BY <1>1, <2>2 DEF ReadyKeys
      <2>4. R.ready \subseteq Params
            BY DEF Stays, JRank, Typed
      <2> QED BY <2>3, <2>4
<1>3. CASE l = "final"
      <2>1. Stays(P, L, R, "final", k, G, f, g, n)
            BY <1>3
      <2>2. PICK S : S = RoundSigs(P, L, Rounds(R, n))
            OBVIOUS
      <2>3. PICK d, e : d = Len(R.done) /\ e = Len(R.work)
            OBVIOUS
      <2>4. d \in Nat /\ e \in Nat \ {0} /\ Len(S) \in Nat /\ d + e \leq Len(S)
            <3>1. InRound(P, L, R, n)
                  BY DEF Stays
            <3>2. d \in Nat /\ e \in Nat /\ Len(S) \in Nat /\ d + e \leq Len(S)
                  BY <2>2, <2>3, <3>1 DEF InRound
            <3>3. 1 \in 1..e
                  BY <1>1, <2>3
            <3> QED BY ONLY <3>2, <3>3
      <2>5. d + 1 \in 1..Len(S)
            BY <2>4
      <2>6. Sig(R.work[1]) = S[d + 1]
            BY <1>1, <2>2, <2>3 DEF Stays, JRank, Ledger
      <2>7. PICK i : i = d + 1
            OBVIOUS
      <2>8. i \in 1..Len(S) /\ Sig(R.work[1]) = S[i]
            BY <2>5, <2>6, <2>7
      <2>9. S[i] = UsedSig \/ \E j \in 1..Len(R.buckets) : S[i] = <<"bucket", R.buckets[j]>>
            BY ONLY <2>1, <2>2, <2>8, FinalKeys
      <2>10. PICK j \in 1..Len(R.buckets) : R.work[1].key = R.buckets[j]
            BY <2>8, <2>9 DEF Sig, UsedSig
      <2>11. R.buckets \in Seq(Seq(Params))
            <3>1. IsLayout(R.buckets)
                  BY LaidOutLayout DEF Stays, JRank, Typed
            <3> QED BY <3>1 DEF IsLayout
      <2>12. R.buckets[j] \in Seq(Params)
            BY <2>11
      <2> QED BY <2>10, <2>12 DEF Range
<1> QED BY <1>2, <1>3

\* A static graph reduces its used map once, with the parameters that the loss depends on.
LEMMA StaticUsedData ==
  ASSUME NEW P, NEW L, NEW R, NEW l, NEW k, NEW G, NEW f, NEW g, NEW n, NEW v,
         Stays(P, L, R, l, k, G, f, g, n), GRank(P, R, l, k, G, f, g, v), P.mode = "static",
         R.work # <<>>, R.work[1].kind = "used"
  PROVE  R.work[1].data = {p \in Params : G.loss[p] > 0}
<1>1. /\ JRank(P, L, R, l, k, f, n) /\ Keeps(P, L, R, l, k, f, n) /\ Delays(P, R, l, k, f, n) /\ n \in Nat
      /\ l \in Locations /\ l # "raised" /\ KRank(P, R, l, k, G, f, g, n) /\ R.finalize \in BOOLEAN
      /\ Ledger(P, L, R, n) /\ InRound(P, L, R, n) /\ Fits(P)
      BY DEF Stays, JRank, Keeps, TypedRank, Sums
<1>2. Issued(R) # 0 /\ 1 \in 1..Len(R.work) /\ l # "forward"
      BY WorkPlace
<1>3. PICK c, d, S : c = Rounds(R, n) /\ d = Len(R.done) /\ S = RoundSigs(P, L, c)
      OBVIOUS
<1>4. Sig(R.work[1]) = S[d + 1] /\ d \in Nat /\ c \in Nat /\ d + 1 \leq Len(S) /\ Len(S) \in Nat
      <2>1. Sig(R.work[1]) = S[d + 1]
            BY <1>1, <1>2, <1>3 DEF Ledger
      <2>2. PICK e : e = Len(R.work)
            OBVIOUS
      <2>3. d \in Nat /\ e \in Nat /\ 1 \in 1..e /\ d + e \leq Len(S) /\ Len(S) \in Nat /\ c \in Nat
            BY <1>1, <1>2, <1>3, <2>2 DEF InRound
      <2> QED BY <2>1, <2>3
<1>5. S[d + 1][1] = "used"
      BY <1>4 DEF Sig
<1>6. ~Rebuilds(P, c)
      <2> SUFFICES ASSUME Rebuilds(P, c) PROVE FALSE
            OBVIOUS
      <2>1. Len(S) = 2 /\ S[1] = <<"indices", <<Cardinality(Params) + 1>>>> /\ S[2] = <<"sizes", <<Len(L)>>>>
            BY <1>3, RebuildRound
      <2>2. d + 1 = 1 \/ d + 1 = 2
            BY <1>4, <2>1
      <2> QED BY <1>5, <2>1, <2>2
<1>7. c = 0
      <2> SUFFICES ASSUME c # 0 PROVE FALSE
            OBVIOUS
      <2>1. ~DelayedRound(P, c)
            BY <1>1 DEF Fits, DelayedRound
      <2>2. PICK B : S = BucketSigs(B)
            BY <1>3, <1>6, <2>1 DEF RoundSigs
      <2>3. Len(S) = Len(B) \/ Len(B) \notin Nat
            BY <2>2, BucketSigsLen
      <2>5. d + 1 \in DOMAIN S => S[d + 1][1] = "bucket"
            BY <2>2 DEF BucketSigs
      <2>6. d + 1 \in DOMAIN S
            BY <1>4, <2>2, <2>3 DEF BucketSigs
      <2> QED BY <1>5, <2>5, <2>6
<1>8. n = 0 /\ ~R.rebuilt
      BY <1>1, <1>3, <1>7 DEF Rounds
<1>9. l \notin {"indices", "sizes"}
      BY <1>1, <1>8 DEF Keeps, Ordered, First
<1>10. R.finalize
      BY <1>1, <1>2, <1>9 DEF Keeps, Progress
<1>11. l = "final"
      <2>1. l # "final" => n > 0
            BY <1>1, <1>10 DEF Delays
      <2> QED BY <1>8, <2>1
<1>12. Deferred(P, R)
      BY <1>1, <1>8, <1>11 DEF Delays, Deferred
<1>13. P.passes[k + 1] = "sync"
      <2>1. Stays(P, L, R, "final", k, G, f, g, n)
            BY <1>11
      <2> QED BY ONLY <2>1, SyncExpects
<1>14. Amounts(P, R, l, G, f, v)
      BY <1>11, <1>13 DEF GRank, Syncing
<1>15. /\ MapExact(P, R, G, f, v) /\ Carries(R, v) /\ \A p \in Params : f[p] = 0
       /\ \A p \in Params : G.loss[p] > 0 /\ f[p] = 0 => v[p] # {}
      BY <1>11, <1>12, <1>14 DEF Amounts
<1>16. R.work[1].data = R.used
      BY <1>2, <1>15 DEF Carries
<1>17. R.used \subseteq Params
      BY <1>1 DEF JRank, Typed
<1>18. R.used = {p \in Params : G.loss[p] > 0}
      BY <1>15, <1>17 DEF MapExact, Touches
<1> QED BY <1>16, <1>18

\* A result is added to those that a rank has.
LEMMA SummedMore ==
  ASSUME NEW P, NEW D, NEW w, NEW E, NEW T, NEW U, NEW o, Summed(D, T, U, o), IsWorks(P, D), E = Append(D, w),
         w.kind = "bucket" => \A p \in Range(w.key) : w.data[p] = T[p],
         w.kind = "used" /\ o = "unused" => w.data = U
  PROVE  Summed(E, T, U, o)
<1>1. D \in Seq(Range(D))
      BY DEF IsWorks
<1>2. PICK m : m = Len(D)
      OBVIOUS
<1>3. m \in Nat /\ Len(E) = m + 1 /\ E[m + 1] = w /\ \A i \in 1..m : E[i] = D[i]
      BY <1>1, <1>2
<1>4. ASSUME NEW i \in 1..Len(E)
      PROVE  /\ E[i].kind = "bucket" => \A p \in Range(E[i].key) : E[i].data[p] = T[p]
             /\ E[i].kind = "used" /\ o = "unused" => E[i].data = U
      <2>1. CASE i = m + 1
            BY <1>3, <2>1
      <2>2. CASE i # m + 1
            <3>1. i \in 1..m
                  BY <1>3, <2>2
            <3>2. E[i] = D[i] /\ i \in 1..Len(D)
                  BY <1>2, <1>3, <3>1
            <3> QED BY <3>2 DEF Summed
      <2> QED BY <2>1, <2>2
<1> QED BY <1>4 DEF Summed

\* The used map of a rank is kept by a result that is the one of all ranks.
LEMMA MapKeptMore ==
  ASSUME NEW P, NEW R, NEW Q, NEW n, NEW U, NEW w, MapKept(P, R, n, U), IsWorks(P, R.done), Alike(R, Q),
         Q.done = Append(R.done, w), P.mode = "static" /\ w.kind = "used" => w.data = U
  PROVE  MapKept(P, Q, n, U)
<1>1. R.done \in Seq(Range(R.done))
      BY DEF IsWorks
<1>2. PICK D, E, m : D = R.done /\ E = Q.done /\ m = Len(D)
      OBVIOUS
<1>3. m \in Nat /\ Len(E) = m + 1 /\ E[m + 1] = w /\ \A i \in 1..m : E[i] = D[i]
      BY <1>1, <1>2
<1>4. Q.reduced = R.reduced /\ Q.used = R.used
      BY DEF Alike
<1>5. ASSUME P.mode = "static", NEW i \in 1..Len(E), E[i].kind = "used"
      PROVE  E[i].data = U
      <2>1. CASE i = m + 1
            BY <1>3, <1>5, <2>1
      <2>2. CASE i # m + 1
            <3>1. i \in 1..m
                  BY <1>3, <2>2
            <3>2. E[i] = D[i] /\ i \in 1..Len(D)
                  BY <1>2, <1>3, <3>1
            <3>3. D[i].data = U
                  BY <1>2, <1>5, <3>2 DEF MapKept
            <3> QED BY <3>2, <3>3
      <2> QED BY <2>1, <2>2
<1>6. P.mode # "static" \/ n = 0 => Q.reduced = FALSE
      BY <1>4 DEF MapKept
<1>7. P.mode = "static" /\ n > 0 => Q.used = U
      BY <1>4 DEF MapKept
<1> QED BY <1>2, <1>5, <1>6, <1>7 DEF MapKept

\* What a collective completes, with the result X.
Completes(X) ==
  /\ X = CollectiveResult /\ UNCHANGED <<program, grad, gave, pc, pass, graph, fires, finals, broken>>
  /\ \A s \in Ranks :
       /\ red[s].work # <<>> /\ Retired(red[s], red'[s], X)
       /\ Oldest(s).kind = Oldest(Root).kind /\ Oldest(s).key = Oldest(Root).key

\* The collective is that of the oldest operations of all ranks.
LEMMA CollectiveCompletes ==
  ASSUME IInv, Collective
  PROVE  \E X : Completes(X)
<1>1. PICK X : X = CollectiveResult
      OBVIOUS
<1>2. Root \in Ranks
      BY RanksAssumption DEF Root
<1>3. /\ \A s \in Ranks : red[s].work # <<>>
      /\ UNCHANGED <<program, grad, gave, pc, pass, graph, fires, finals, broken>>
      /\ red' = [s \in Ranks |-> [red[s] EXCEPT !.work = Tail(@), !.done = Append(@, [Oldest(s) EXCEPT !.data = X])]]
      BY <1>1 DEF Collective
<1>4. \A s \in Ranks : Oldest(s).kind = Oldest(Root).kind /\ Oldest(s).key = Oldest(Root).key
      BY <1>2 DEF Collective, Matching
<1>5. \A s \in Ranks : Retired(red[s], red'[s], X)
      <2> TAKE s \in Ranks
      <2>1. PICK S, t, u : S = red[s] /\ t = Tail(S.work) /\ u = Append(S.done, [S.work[1] EXCEPT !.data = X])
            OBVIOUS
      <2>2. red'[s] = [S EXCEPT !.work = t, !.done = u]
            BY <1>3, <2>1 DEF Oldest
      <2>3. DOMAIN S = Fields
            BY <2>1 DEF IInv, RankTypes
      <2>4. PICK Q : Q = red'[s]
            OBVIOUS
      <2>5. Alike(S, Q)
            BY <2>2, <2>3, <2>4 DEF Alike, Fields
      <2>6. Q.work = t /\ Q.done = u
            BY <2>2, <2>3, <2>4 DEF Fields
      <2> QED BY <2>1, <2>4, <2>5, <2>6 DEF Retired
<1>6. Completes(X)
      BY <1>1, <1>3, <1>4, <1>5 DEF Completes
<1> QED BY <1>6

\* The collective of ranks in one pass sums what they accumulated.
LEMMA ResultOfAll ==
  ASSUME IInv, JInv, KInv, Calm, GParts, NEW X, Completes(X), NEW k, AllHere(k), NEW w, w = Oldest(Root)
  PROVE  /\ w.kind = "bucket" => \A p \in Range(w.key) : X[p] = Totals[p]
         /\ w.kind = "used" /\ Mode = "unused" => X = AllUsed
<1>1. ASSUME NEW s \in Ranks
      PROVE  /\ pc[s] \in {"backward", "final"} /\ Conveys(Oldest(s), gave[s], red[s].used)
             /\ Oldest(s).kind = "bucket" => Range(Oldest(s).key) \subseteq Params
      <2>1. PICK P, L, R, l, j, G, f, g, n, v :
              /\ P = program /\ L = Layout /\ R = red[s] /\ l = pc[s] /\ j = pass[s] /\ G = graph[s]
              /\ f = fires[s] /\ g = grad[s] /\ n = finals[s] /\ v = gave[s]
            OBVIOUS
      <2>2. Stays(P, L, R, l, j, G, f, g, n)
            BY <2>1, StaysAt
      <2>3. GRank(P, R, l, j, G, f, g, v)
            BY <2>1 DEF GParts
      <2>4. R.work # <<>> /\ Oldest(s) = R.work[1]
            BY <2>1 DEF Completes, Oldest
      <2>5. /\ l = "idle" => R.expect
            /\ l \in {"backward", "final"} => P.passes[j + 1] = "sync"
            /\ 1 \in 1..Len(R.work)
            BY ONLY <2>2, <2>4, WorkPlace
      <2>6. l \in {"backward", "final"}
            BY <2>1, <2>5 DEF AllHere, Here
      <2>7. Amounts(P, R, l, G, f, v)
            BY <2>3, <2>5, <2>6 DEF GRank, Syncing
      <2>8. Carries(R, v)
            BY <2>7 DEF Amounts
      <2>9. Conveys(R.work[1], v, R.used)
            BY <2>5, <2>8 DEF Carries, Conveys
      <2>10. R.work[1].kind = "bucket" => Range(R.work[1].key) \subseteq Params
            <3> HAVE R.work[1].kind = "bucket"
            <3>1. R.work[1].kind = "bucket"
                  OBVIOUS
            <3> QED BY ONLY <2>2, <2>4, <2>6, <3>1, OldestKey
      <2> QED BY <2>1, <2>4, <2>6, <2>9, <2>10
<1>2. Root \in Ranks
      BY RanksAssumption DEF Root
<1>3. \A s \in Ranks : Oldest(s).kind = w.kind /\ Oldest(s).key = w.key
      BY DEF Completes
<1>4. ASSUME w.kind = "bucket", NEW p \in Range(w.key)
      PROVE  X[p] = Totals[p]
      <2>1. p \in Params
            BY <1>1, <1>2, <1>4
      <2>2. X[p] = UNION {Oldest(s).data[p] : s \in Ranks}
            BY <1>4 DEF Completes, CollectiveResult
      <2>3. \A s \in Ranks : Oldest(s).data[p] = gave[s][p]
            BY <1>1, <1>3, <1>4 DEF Conveys
      <2>4. X[p] = UNION {gave[s][p] : s \in Ranks}
            BY <2>2, <2>3
      <2> QED BY <2>1, <2>4 DEF Totals, Total
<1>5. ASSUME w.kind = "used", Mode = "unused"
      PROVE  X = AllUsed
      <2>1. X = UNION {Oldest(s).data : s \in Ranks}
            BY <1>5 DEF Completes, CollectiveResult
      <2>2. \A s \in Ranks : Oldest(s).data = red[s].used
            BY <1>1, <1>3, <1>5 DEF Conveys
      <2>3. \A s \in Ranks : UsedBy(program, red[s], pc[s], graph[s], gave[s]) = red[s].used
            BY <1>1, <1>5 DEF UsedBy, Mode
      <2> QED BY <2>1, <2>2, <2>3 DEF AllUsed
<1> QED BY <1>4, <1>5

\* The reduction of the used maps of a static graph.
LEMMA StaticResult ==
  ASSUME IInv, JInv, KInv, Calm, GParts, NEW X, Completes(X), Oldest(Root).kind = "used", program.mode = "static"
  PROVE  X = AllUsed
<1>1. ASSUME NEW s \in Ranks
      PROVE  Oldest(s).data = UsedBy(program, red[s], pc[s], graph[s], gave[s])
      <2>1. PICK P, L, R, l, j, G, f, g, n, v :
              /\ P = program /\ L = Layout /\ R = red[s] /\ l = pc[s] /\ j = pass[s] /\ G = graph[s]
              /\ f = fires[s] /\ g = grad[s] /\ n = finals[s] /\ v = gave[s]
            OBVIOUS
      <2>2. Stays(P, L, R, l, j, G, f, g, n)
            BY <2>1, StaysAt
      <2>3. GRank(P, R, l, j, G, f, g, v)
            BY <2>1 DEF GParts
      <2>4. R.work # <<>> /\ R.work[1].kind = "used" /\ P.mode = "static" /\ Oldest(s) = R.work[1]
            BY <2>1 DEF Completes, Oldest
      <2>5. R.work[1].data = {p \in Params : G.loss[p] > 0}
            BY ONLY <2>2, <2>3, <2>4, StaticUsedData
      <2> QED BY <2>1, <2>4, <2>5 DEF UsedBy
<1>2. X = UNION {Oldest(s).data : s \in Ranks}
      BY DEF Completes, CollectiveResult
<1> QED BY <1>1, <1>2 DEF AllUsed

\* The process group completes a collective.
LEMMA CollectiveG ==
  ASSUME IInv, JInv, KInv, GInv, Collective
  PROVE  GInv'
<1> SUFFICES ASSUME Calm' PROVE GParts'
    BY DEF GInv
<1>1. PICK X : Completes(X)
      BY CollectiveCompletes
<1>2. UNCHANGED <<program, grad, gave, pc, pass, graph, fires, finals, broken>>
      BY <1>1 DEF Completes
<1>3. Calm
      BY <1>2 DEF Calm, Changed, Mode
<1>4. GParts
      BY <1>3 DEF GInv
<1>5. \A s \in Ranks : red'[s].expect = red[s].expect /\ red'[s].used = red[s].used
      BY <1>1 DEF Completes, Retired, Alike
<1>6. AllUsed' = AllUsed
      <2>1. ASSUME NEW s \in Ranks
            PROVE  UsedBy(program, red'[s], pc[s], graph[s], gave[s])
                   = UsedBy(program, red[s], pc[s], graph[s], gave[s])
            BY <1>5 DEF UsedBy
      <2>2. AllUsed' = UNION {UsedBy(program, red'[s], pc[s], graph[s], gave[s]) : s \in Ranks}
            BY <1>2 DEF AllUsed
      <2> QED BY <2>1, <2>2 DEF AllUsed
<1>7. Totals' = Totals
      BY <1>2 DEF Totals, Total
<1>8. PICK w : w = Oldest(Root)
      OBVIOUS
<1>9. ASSUME NEW s \in Ranks
      PROVE  \E e : /\ red'[s].done = Append(red[s].done, e) /\ e.kind = w.kind /\ e.key = w.key /\ e.data = X
                    /\ IsWorks(program, red[s].done) /\ IsWorks(program, red[s].work)
                    /\ red[s].work # <<>> /\ Alike(red[s], red'[s]) /\ red'[s].work = Tail(red[s].work)
      <2>1. PICK R, Q, P, L, n : R = red[s] /\ Q = red'[s] /\ P = program /\ L = Layout /\ n = finals[s]
            OBVIOUS
      <2>2. Ledger(P, L, R, n)
            BY <2>1 DEF JInv, JRank
      <2>3. Retired(R, Q, X) /\ R.work # <<>> /\ R.work[1].kind = w.kind /\ R.work[1].key = w.key
            BY <1>1, <1>8, <2>1 DEF Completes, Oldest
      <2>4. IsWork(P, R.work[1])
            BY <2>2, <2>3, OldestFacts
      <2>5. PICK e : e = [R.work[1] EXCEPT !.data = X]
            OBVIOUS
      <2>6. e.kind = w.kind /\ e.key = w.key /\ e.data = X
            BY <2>3, <2>4, <2>5 DEF IsWork
      <2>7. Q.done = Append(R.done, e) /\ Alike(R, Q) /\ Q.work = Tail(R.work)
            BY <2>3, <2>5 DEF Retired
      <2>8. IsWorks(P, R.done) /\ IsWorks(P, R.work)
            BY <2>2 DEF Ledger
      <2> QED BY <2>1, <2>3, <2>6, <2>7, <2>8
<1>10. ASSUME NEW s \in Ranks
       PROVE  GRank(program, red'[s], pc[s], pass[s], graph[s], fires[s], grad[s], gave[s])
      <2>1. PICK P, R, Q, l, k, G, f, g, v :
              /\ P = program /\ R = red[s] /\ Q = red'[s] /\ l = pc[s] /\ k = pass[s] /\ G = graph[s]
              /\ f = fires[s] /\ g = grad[s] /\ v = gave[s]
            OBVIOUS
      <2>2. GRank(P, R, l, k, G, f, g, v)
            BY <1>4, <2>1 DEF GParts
      <2>3. IsWorks(P, R.work) /\ R.work # <<>> /\ Alike(R, Q) /\ Q.work = Tail(R.work)
            BY <1>9, <2>1
      <2>4. GRank(P, Q, l, k, G, f, g, v)
            BY ONLY <2>2, <2>3, TailGRank
      <2> QED BY <2>1, <2>4
<1>11. \A j : AllHere(j)' => AllHere(j)
      BY <1>2, <1>5 DEF AllHere, Here
<1>12. ASSUME NEW s \in Ranks PROVE ResultsRight(s)'
      <2> SUFFICES ASSUME Syncing(program, pc[s], pass[s])', AllHere(pass[s] + 1)'
                   PROVE  Summed(red[s].done, Totals, AllUsed, Mode)'
            BY DEF ResultsRight
      <2>1. PICK i : i = pass[s] + 1
            OBVIOUS
      <2>2. AllHere(i)'
            BY <1>2, <2>1 DEF AllHere, Here
      <2>3. AllHere(i)
            BY <1>11, <2>2
      <2>4. PICK R, Q, T, U, o, P :
              R = red[s] /\ Q = red'[s] /\ T = Totals /\ U = AllUsed /\ o = Mode /\ P = program
            OBVIOUS
      <2>5. Summed(R.done, T, U, o)
            <3>1. Syncing(program, pc[s], pass[s])
                  BY <1>2
            <3> QED BY <1>4, <2>1, <2>3, <2>4, <3>1 DEF GParts, ResultsRight
      <2>6. PICK e : /\ Q.done = Append(R.done, e) /\ e.kind = w.kind /\ e.key = w.key /\ e.data = X
                     /\ IsWorks(P, R.done)
            BY <1>9, <2>4
      <2>7. /\ w.kind = "bucket" => \A p \in Range(w.key) : X[p] = T[p]
            /\ w.kind = "used" /\ o = "unused" => X = U
            BY <1>1, <1>3, <1>4, <1>8, <2>3, <2>4, ResultOfAll
      <2>8. e.kind = "bucket" => \A p \in Range(e.key) : e.data[p] = T[p]
            BY <2>6, <2>7
      <2>9. e.kind = "used" /\ o = "unused" => e.data = U
            BY <2>6, <2>7
      <2>10. PICK D, E : D = R.done /\ E = Q.done
            OBVIOUS
      <2>11. Summed(D, T, U, o) /\ IsWorks(P, D) /\ E = Append(D, e)
            BY <2>5, <2>6, <2>10
      <2>12. Summed(E, T, U, o)
            BY ONLY <2>8, <2>9, <2>11, SummedMore
      <2>13. Mode' = Mode
            BY <1>2 DEF Mode
      <2> QED BY <1>6, <1>7, <2>4, <2>10, <2>12, <2>13
<1>13. ASSUME NEW s \in Ranks PROVE GradsRight(s)'
      <2> SUFFICES ASSUME AfterSync(program, pc[s], pass[s])', ~red'[s].expect
                   PROVE  FALSE
            BY DEF GradsRight
      <2>1. PICK P, L, R, l, j, G, f, g, n :
              /\ P = program /\ L = Layout /\ R = red[s] /\ l = pc[s] /\ j = pass[s] /\ G = graph[s]
              /\ f = fires[s] /\ g = grad[s] /\ n = finals[s]
            OBVIOUS
      <2>2. Stays(P, L, R, l, j, G, f, g, n)
            BY <1>3, <2>1, StaysAt
      <2>3. R.work # <<>>
            BY <1>9, <2>1
      <2>4. l = "idle" => R.expect
            BY ONLY <2>2, <2>3, WorkPlace
      <2> QED BY <1>2, <1>5, <2>1, <2>4 DEF AfterSync
<1>14. ASSUME NEW s \in Ranks PROVE MapKept(program, red'[s], finals[s], AllUsed)
      <2>1. PICK P, R, Q, n, U : P = program /\ R = red[s] /\ Q = red'[s] /\ n = finals[s] /\ U = AllUsed
            OBVIOUS
      <2>2. MapKept(P, R, n, U)
            BY <1>4, <2>1 DEF GParts
      <2>3. PICK e : /\ Q.done = Append(R.done, e) /\ e.kind = w.kind /\ e.data = X
                     /\ IsWorks(P, R.done) /\ Alike(R, Q)
            BY <1>9, <2>1
      <2>4. P.mode = "static" /\ e.kind = "used" => e.data = U
            BY <1>1, <1>3, <1>4, <1>8, <2>1, <2>3, StaticResult
      <2>5. MapKept(P, Q, n, U)
            BY ONLY <2>2, <2>3, <2>4, MapKeptMore
      <2> QED BY <2>1, <2>5
<1>15. \A s \in Ranks :
         GRank(program', red'[s], pc'[s], pass'[s], graph'[s], fires'[s], grad'[s], gave'[s])
      BY <1>2, <1>10
<1>16. \A s \in Ranks : MapKept(program', red'[s], finals'[s], AllUsed')
      BY <1>2, <1>6, <1>14
<1> QED BY <1>12, <1>13, <1>15, <1>16 DEF GParts

\* Nothing is accumulated at the start.
LEMMA InitG == Init => GInv
<1> SUFFICES ASSUME Init PROVE GParts
    BY DEF GInv
<1>1. PICK P, R, U : P = program /\ R = NewReducer /\ U = AllUsed
      OBVIOUS
<1>2. \A s \in Ranks : red[s] = R /\ pc[s] = "idle" /\ pass[s] = 0 /\ finals[s] = 0 /\ grad[s] = gave[s]
      BY <1>1 DEF Init
<1>3. R.expect = FALSE /\ R.finalize = FALSE /\ R.used = {} /\ R.reduced = FALSE /\ R.done = <<>>
      BY <1>1 DEF NewReducer
<1>4. \A l : ~Syncing(P, "idle", l)
      BY DEF Syncing
<1>5. ~AfterSync(P, "idle", 0)
      BY DEF AfterSync
<1>6. \A G, f, g : GRank(P, R, "idle", 0, G, f, g, g)
      BY <1>3, <1>4, <1>5 DEF GRank
<1>7. \A s \in Ranks : GRank(P, red[s], pc[s], pass[s], graph[s], fires[s], grad[s], gave[s])
      BY <1>2, <1>6
<1>8. \A s \in Ranks : ResultsRight(s) /\ GradsRight(s)
      BY <1>1, <1>2, <1>4, <1>5 DEF ResultsRight, GradsRight
<1>9. MapKept(P, R, 0, U)
      <2>1. Len(R.done) = 0
            BY <1>3
      <2> QED BY <1>3, <2>1 DEF MapKept
<1>10. \A s \in Ranks : MapKept(P, red[s], finals[s], U)
      BY <1>2, <1>9
<1> QED BY <1>1, <1>7, <1>8, <1>10 DEF GParts

\* Every step keeps the invariant.
LEMMA NextG ==
  ASSUME IInv, JInv, KInv, Tables, GInv, IInv', JInv', [Next]_vars
  PROVE  GInv'
<1>1. CASE UNCHANGED vars
      <2>1. UNCHANGED <<program, red, grad, gave, pc, pass, graph, fires, finals, broken>>
            BY <1>1 DEF vars
      <2>2. Calm' => Calm
            BY <2>1 DEF Calm, Changed, Mode
      <2>3. AllUsed' = AllUsed /\ Totals' = Totals /\ Mode' = Mode
            BY <2>1 DEF AllUsed, Totals, Total, Mode
      <2>4. \A s \in Ranks : ResultsRight(s) => ResultsRight(s)'
            BY <2>1, <2>3 DEF ResultsRight, AllHere, Here
      <2>5. \A s \in Ranks : GradsRight(s) => GradsRight(s)'
            BY <2>1, <2>3 DEF GradsRight, AllHere, Here
      <2>6. GParts => GParts'
            BY <2>1, <2>3, <2>4, <2>5 DEF GParts
      <2> QED BY <2>2, <2>6 DEF GInv
<1>2. CASE Collective
      BY <1>2, CollectiveG
<1>3. ASSUME NEW r \in Ranks, Step(r) PROVE GInv'
      <2>1. CASE Forward(r)
            BY <2>1, ForwardG
      <2>2. CASE SyncBucketIndices(r)
            BY <2>2, SyncBucketIndicesG
      <2>3. CASE InitializeBuckets(r)
            BY <2>3, InitializeBucketsG
      <2>4. CASE Backward(r)
            BY <2>4, BackwardG
      <2>5. CASE \E p \in Params : Hook(r, p)
            BY <2>5, HookG
      <2>6. CASE EndBackward(r)
            BY <2>6, EndBackwardG
      <2>7. CASE FinalizeBackward(r)
            BY <2>7, FinalizeBackwardG
      <2> QED BY <1>3, <2>1, <2>2, <2>3, <2>4, <2>5, <2>6, <2>7 DEF Step
<1> QED BY <1>1, <1>2, <1>3 DEF Next

\* The parameters used are those of UsedBySome, once all ranks have finalized a pass.
LEMMA UsedBySomeRank ==
  ASSUME NEW P, NEW R, NEW k, NEW G \in Graphs[P.mode], NEW f, NEW g, NEW v, P \in Programs, Sums(P),
         GRank(P, R, "idle", k, G, f, g, v), AfterSync(P, "idle", k), ~R.expect, NEW p \in Params
  PROVE  p \in UsedBy(P, R, "idle", G, v) <=> (G.loss[p] > 0 \/ p \in G.out) /\ v[p] # {}
<1>1. P.mode \in Modes
      BY ProgramFacts
<1>2. /\ G.loss[p] > 0 => v[p] # {}
      /\ P.mode = "plain" => G.loss[p] > 0
      BY DEF GRank
<1>3. CASE P.mode = "plain"
      BY <1>2, <1>3 DEF UsedBy
<1>4. CASE P.mode = "unused"
      BY <1>4 DEF UsedBy, Touches
<1>5. CASE P.mode = "static"
      <2>1. \A q \in G.out : G.loss[q] > 0
            BY <1>5 DEF Sums, Fits
      <2> QED BY <1>2, <1>5, <2>1 DEF UsedBy
<1> QED BY <1>1, <1>3, <1>4, <1>5 DEF Modes

\* The results of a pass that all ranks have finalized are the sums.
LEMMA InvGradsAgree ==
  ASSUME IInv, GInv, Sums(program), ~Changed
  PROVE  GradsAgree
<1> SUFFICES ASSUME \A r, s \in Ranks : SameSyncedPass(r, s), NEW r \in Ranks, NEW p \in Params
             PROVE  grad[r][p] = IF UsedBySome(p) THEN UNION {gave[s][p] : s \in Ranks} ELSE gave[r][p]
    BY DEF GradsAgree
<1>1. \A s \in Ranks : /\ pc[s] = "idle" /\ pass[s] > 0 /\ program.passes[pass[s]] = "sync"
                       /\ ~red[s].expect /\ pass[s] = pass[r]
      BY DEF SameSyncedPass, Synced
<1>2. Calm
      BY <1>1 DEF Calm
<1>3. GParts
      BY <1>2 DEF GInv
<1>4. AllHere(pass[r])
      BY <1>1 DEF AllHere, Here
<1>5. AfterSync(program, pc[r], pass[r]) /\ ~red[r].expect
      BY <1>1 DEF AfterSync
<1>6. grad[r][p] = IF p \in AllUsed THEN Totals[p] ELSE gave[r][p]
      BY <1>3, <1>4, <1>5 DEF GParts, GradsRight
<1>7. Totals[p] = UNION {gave[s][p] : s \in Ranks}
      BY DEF Totals, Total
<1>8. ASSUME NEW s \in Ranks
      PROVE  p \in UsedBy(program, red[s], pc[s], graph[s], gave[s])
             <=> (graph[s].loss[p] > 0 \/ p \in graph[s].out) /\ gave[s][p] # {}
      <2>1. PICK P, R, k, G, f, g, v :
              /\ P = program /\ R = red[s] /\ k = pass[s] /\ G = graph[s] /\ f = fires[s] /\ g = grad[s]
              /\ v = gave[s]
            OBVIOUS
      <2>2. GRank(P, R, "idle", k, G, f, g, v)
            BY <1>1, <1>3, <2>1 DEF GParts
      <2>3. G \in Graphs[P.mode] /\ P \in Programs /\ Sums(P)
            BY <2>1 DEF IInv, RankTypes
      <2>4. AfterSync(P, "idle", k) /\ ~R.expect
            BY <1>1, <2>1 DEF AfterSync
      <2>5. p \in Params
            OBVIOUS
      <2>6. p \in UsedBy(P, R, "idle", G, v) <=> (G.loss[p] > 0 \/ p \in G.out) /\ v[p] # {}
            BY ONLY <2>2, <2>3, <2>4, <2>5, UsedBySomeRank
      <2> QED BY <1>1, <2>1, <2>6
<1>9. p \in AllUsed <=> UsedBySome(p)
      BY <1>8 DEF AllUsed, UsedBySome
<1> QED BY <1>6, <1>7, <1>9

\* While no rank has raised an exception, the buckets and the used map that a rank has issued
\* hold what it accumulated, the results what all ranks accumulated, and the gradients of a
\* rank that has finalized a pass are these results.
THEOREM SumInvariant == Spec => []GInv
<1>1. Init => GInv
      BY InitG
<1>2. /\ IInv /\ (JInv /\ Tables) /\ KInv /\ GInv /\ IInv' /\ (JInv /\ Tables)' /\ [Next]_vars
      => GInv'
      BY NextG
<1> QED BY <1>1, <1>2, ReducerInvariant, CollectivesInvariant, ExpectationInvariant, PTL DEF Spec

\* When the synchronised backward of all ranks has returned, every parameter that some rank
\* used has the sum of what all of them accumulated, the same on every rank, and the others
\* keep the gradients they had: in every program in which only synchronised passes reduce and,
\* with a static graph, the ranks keep their graph.
THEOREM GradsSum == Spec => [](Sums(program) /\ ~Changed => GradsAgree)
<1>1. IInv /\ GInv => (Sums(program) /\ ~Changed => GradsAgree)
      BY InvGradsAgree
<1> QED BY <1>1, ReducerInvariant, SumInvariant, PTL
===============================================================================
