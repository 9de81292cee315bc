------------------------------ MODULE Reducer ------------------------------
(***************************************************************************)
(* DistributedDataParallel and its Reducer.  Every rank runs the same      *)
(* program, a sequence of passes through the model.  The hooks of the      *)
(* parameters fire in any order as the autograd engine accumulates their   *)
(* gradients; buckets are all-reduced in sequence, asynchronously, and     *)
(* the last one queues the callback that waits for the results and copies  *)
(* them back.  The process group matches collectives by position alone, so *)
(* all ranks must issue the same ones in the same order.                   *)
(*                                                                         *)
(* A gradient is the set of contributions <<rank, pass, n>> summed in it,  *)
(* {} when it is undefined.  One device and dense gradients, no            *)
(* communication hook, no join(), gradient_as_bucket_view=False.           *)
(***************************************************************************)
EXTENDS Integers, FiniteSets, SequencesExt

CONSTANTS
  Ranks,     \* the processes, 0 .. N - 1
  Params,    \* the indices of the parameters, 1 .. n
  Size,      \* bytes of each parameter
  FirstCap,  \* first_bucket_bytes_cap_
  Cap,       \* bucket_bytes_cap_
  Programs,  \* [mode, passes]: how DDP was built and the passes it is used for
  Graphs     \* for every mode, the autograd graphs a pass may build

\* "plain": the default; "unused": find_unused_parameters; "static":
\* _set_static_graph().
Modes == {"plain", "unused", "static"}

\* A pass is a forward and a backward, the same under no_sync(), or a forward
\* whose output is ignored.
Passes == {"sync", "nosync", "ignored"}

\* out: the parameters the outputs of forward() depend on; loss: how often the
\* gradient of each parameter is accumulated when the loss is differentiated.
GraphType == [out : SUBSET Params, loss : [Params -> 0..2]]

ASSUME RanksAssumption == IsFiniteSet(Ranks) /\ 0 \in Ranks
ASSUME ParamsAssumption ==
  IsFiniteSet(Params) /\ Params = 1..Cardinality(Params) /\ Params # {}
ASSUME SizeAssumption == Size \in [Params -> Nat \ {0}]
ASSUME CapAssumption == FirstCap \in Nat /\ Cap \in Nat
ASSUME ProgramsAssumption == Programs \subseteq [mode : Modes, passes : Seq(Passes)]
ASSUME GraphsAssumption ==
  /\ DOMAIN Graphs = Modes
  /\ \A m \in Modes : Graphs[m] # {} /\ \A g \in Graphs[m] :
       g \in GraphType /\ \E p \in Params : g.loss[p] > 0

VARIABLES
  program,  \* the program all ranks run
  red,      \* the Reducer of each rank
  grad,     \* param.grad
  gave,     \* what the rank itself accumulated since its last zero_grad()
  pc,       \* where the training loop of the rank is
  pass,     \* passes it has completed
  graph,    \* the autograd graph of its current pass
  fires,    \* hooks of the current backward still to fire
  finals,   \* reductions the rank has finalized
  broken    \* some pass of some rank broke the contract of the mode

vars == <<program, red, grad, gave, pc, pass, graph, fires, finals, broken>>

Root == 0
Mode == program.mode

\* The pass the rank is in.
Pass(r) == program.passes[pass[r] + 1]

Locations == {"idle", "indices", "sizes", "forward", "backward", "final", "raised"}

-----------------------------------------------------------------------------
\* compute_bucket_assignment_by_size: parameters of one type and device, in order.
Assign(order) ==
  LET Add(b, p) ==
        IF b.bytes + Size[p] >= b.limit
        THEN [closed |-> Append(b.closed, Append(b.open, p)), open |-> <<>>,
              bytes |-> 0, limit |-> Cap]
        ELSE [b EXCEPT !.open = Append(@, p), !.bytes = @ + Size[p]]
      fill[i \in 0..Len(order)] ==
        IF i = 0 THEN [closed |-> <<>>, open |-> <<>>, bytes |-> 0, limit |-> FirstCap]
        ELSE Add(fill[i - 1], order[i])
      all == fill[Len(order)]
  IN  IF all.open = <<>> THEN all.closed ELSE Append(all.closed, all.open)

\* The constructor gets the buckets in the opposite order.
InitialBuckets == Reverse(Assign([p \in Params |-> p]))

NewReducer ==
  [iterations |-> 0,             \* num_iterations_
   expect     |-> FALSE,         \* expect_autograd_hooks_
   finalize   |-> FALSE,         \* require_finalize_
   buckets    |-> InitialBuckets,
   next       |-> 1,             \* next_bucket_
   ready      |-> {},            \* perIterationReadyParams_
   view       |-> [p \in Params |-> {}],  \* bucket_views_in
   unused     |-> {},            \* unused_parameters_
   marked     |-> FALSE,         \* has_marked_unused_parameters_
   used       |-> {},            \* local_used_map_
   reduced    |-> FALSE,         \* local_used_map_reduced_
   hooks      |-> [p \in Params |-> 0],   \* numGradHooksTriggeredMap_
   left       |-> [p \in Params |-> 0],   \* ...PerIteration_
   order      |-> <<>>,          \* rebuilt_param_indices_
   rebuilt    |-> FALSE,         \* has_rebuilt_bucket_
   plan       |-> <<>>,          \* the local rebuilt_bucket_indices
   callback   |-> "none",        \* the final callback queued on the engine
   work       |-> <<>>,          \* collectives issued, not complete
   done       |-> <<>>,          \* results not consumed
   error      |-> FALSE]         \* a check failed: the rank throws

Init ==
  /\ program \in Programs
  /\ red = [r \in Ranks |-> NewReducer]
  /\ grad = [r \in Ranks |-> [p \in Params |-> {}]]
  /\ gave = grad
  /\ pc = [r \in Ranks |-> "idle"]
  /\ pass = [r \in Ranks |-> 0]
  /\ graph \in [Ranks -> {CHOOSE g \in Graphs[program.mode] : TRUE}]
  /\ fires = [r \in Ranks |-> [p \in Params |-> 0]]
  /\ finals = [r \in Ranks |-> 0]
  /\ broken = FALSE

-----------------------------------------------------------------------------
(* The Reducer's methods: R is the Reducer, g the gradients of its rank.    *)

DynamicFindUnused == Mode = "unused"
StaticFirst(R) == Mode = "static" /\ R.iterations = 1
ShouldRebuild(R) == Mode # "unused" /\ ~R.rebuilt

\* process_group_->allreduce and broadcast: ranks must agree on the kind and the key.
Work(kind, key, data) == [kind |-> kind, key |-> key, data |-> data]
Issue(R, w) == [R EXCEPT !.work = Append(@, w)]

\* all_reduce_bucket.
AllReduceBucket(R, i) ==
  Work("bucket", R.buckets[i], [p \in Range(R.buckets[i]) |-> R.view[p]])

AllReduceLocalUsedMap(R) == Work("used", <<>>, R.used)

\* A bucket has no pending parameter.
Complete(R, i) == Range(R.buckets[i]) \subseteq R.ready

\* mark_bucket_ready: buckets are reduced in sequence, each once it is complete.
MarkBucketReady(R) ==
  LET stop == CHOOSE j \in R.next .. Len(R.buckets) + 1 :
                /\ j > Len(R.buckets) \/ ~Complete(R, j)
                /\ \A k \in R.next .. j - 1 : Complete(R, k)
      turn == SubSeq([i \in DOMAIN R.buckets |-> AllReduceBucket(R, i)], R.next, stop - 1)
  IN  [R EXCEPT !.next = stop, !.work = @ \o turn]

\* mark_variable_ready_dense for all of S: copy the gradients, or zeros, into the
\* buckets.  An undefined gradient may not be of a parameter marked as used.
MarkVariablesReadyDense(R, g, S) ==
  [R EXCEPT !.view = [p \in Params |-> IF p \in S THEN g[p] ELSE @[p]],
            !.error = /\ DynamicFindUnused \/ StaticFirst(R)
                      /\ \E p \in S : g[p] = {} /\ p \in R.used]

\* The last bucket has been issued: mark_variable_ready queues the final callback.
AllBucketsReady(R) ==
  IF R.next \leq Len(R.buckets) THEN R
  ELSE [R EXCEPT !.callback = "finalize",
                 !.work = IF DynamicFindUnused THEN Append(@, AllReduceLocalUsedMap(R)) ELSE @]

\* mark_variable_ready for all of S, in any order.
MarkVariablesReady(R, g, S) ==
  LET here == MarkVariablesReadyDense(
                [R EXCEPT !.ready = @ \cup S, !.finalize = TRUE], g, S)
  IN  IF S = {} THEN R
      ELSE IF S \cap R.ready # {} THEN [R EXCEPT !.error = TRUE]
      ELSE IF here.error THEN here
      ELSE AllBucketsReady(MarkBucketReady(here))

PushRebuilt(R, ps) == IF ShouldRebuild(R) THEN [R EXCEPT !.order = @ \o ps] ELSE R

\* As MarkUnused, had the parameters found unused been left out.
MarkUnusedNever(R, g) == [R EXCEPT !.marked = TRUE]

\* autograd_hook, after it has recorded that p is used: the parameters found unused
\* are marked ready with the first hook, then p itself.
MarkUnused(R, g) ==
  IF R.marked THEN R
  ELSE MarkVariablesReady([R EXCEPT !.marked = TRUE], g, R.unused)

MarkHooked(R, g, p) == MarkVariablesReady(PushRebuilt(R, <<p>>), g, {p})

\* static_graph_after_first_iteration: p is ready with the last of its hooks.
CountHook(R, g, p) ==
  IF R.left[p] = 0 THEN [R EXCEPT !.error = TRUE]
  ELSE IF R.left[p] > 1 THEN [R EXCEPT !.left[p] = @ - 1]
  ELSE MarkHooked([R EXCEPT !.left[p] = 0], g, p)

HookMarks(R, g, p) ==
  IF R.error THEN R
  ELSE IF Mode = "static" THEN CountHook(R, g, p)
  ELSE MarkHooked(R, g, p)

MarkUsed(R, g, p) ==
  IF (DynamicFindUnused \/ StaticFirst(R)) /\ g[p] # {}
  THEN [R EXCEPT !.used = @ \cup {p}] ELSE R

\* autograd_hook.
AutogradHook(R, g, p) ==
  IF ~R.expect THEN R
  ELSE IF StaticFirst(R) THEN [MarkUsed(R, g, p) EXCEPT !.hooks[p] = @ + 1]
  ELSE HookMarks(MarkUnused(MarkUsed(R, g, p), g), g, p)

\* delay_all_reduce, up to finalize_backward.
DelayAllReduce(R, g) ==
  LET start == [R EXCEPT !.unused = {p \in Params : R.hooks[p] = 0}, !.finalize = TRUE]
      full == MarkVariablesReadyDense(Issue(start, AllReduceLocalUsedMap(R)), g, Params)
  IN  IF full.error THEN full
      ELSE [full EXCEPT !.work = @ \o [i \in DOMAIN R.buckets |-> AllReduceBucket(full, i)]]

\* unused_parameters_ of a static graph: delay_all_reduce fills it in the order of
\* the indices.
Ascending(S) ==
  LET upto[i \in 0..Cardinality(Params)] ==
        IF i = 0 THEN <<>> ELSE IF i \in S THEN Append(upto[i - 1], i) ELSE upto[i - 1]
  IN  upto[Cardinality(Params)]

\* The final callback queued by mark_variable_ready, up to finalize_backward.
FinalCallback(R) ==
  IF Mode = "static" THEN PushRebuilt(R, Ascending(R.unused)) ELSE R

\* The result of the reduction of the used maps; of the bucket with p.
UsedResult(R) == (CHOOSE w \in Range(R.done) : w.kind = "used").data
BucketResult(R, p) ==
  (CHOOSE w \in Range(R.done) : w.kind = "bucket" /\ p \in Range(w.key)).data[p]

\* As GlobalUsed, without the wait for the reduced map.
GlobalUsedLocal(R) == IF Mode = "plain" THEN Params ELSE R.used

\* The used map once finalize_bucket_dense has looked at every parameter: it waits
\* for the reduced one at the first that this rank did not use.
GlobalUsed(R) ==
  IF Mode = "plain" THEN Params
  ELSE IF R.reduced \/ R.used = Params THEN R.used
  ELSE UsedResult(R)

\* finalize_backward with finalize_bucket_dense and copy_bucket_to_grad.
FinalizedGrads(R, g) ==
  [p \in Params |-> IF p \in GlobalUsed(R) THEN BucketResult(R, p) ELSE g[p]]

FinalizedReducer(R) ==
  [R EXCEPT !.expect = FALSE, !.finalize = FALSE, !.done = <<>>,
            !.used = IF Mode = "static" THEN GlobalUsed(R) ELSE {},
            !.reduced = Mode = "static" /\ (@ \/ R.used # Params)]

\* As PrepareForBackward, without clearing perIterationReadyParams_.
PrepareForBackwardStale(R, out) ==
  [R EXCEPT !.expect = TRUE, !.next = 1, !.marked = FALSE,
            !.left = IF Mode = "static" THEN R.hooks ELSE @,
            !.unused = IF DynamicFindUnused THEN Params \ out ELSE @]

\* reset_bucket_counting and prepare_for_backward with search_unused_parameters.
PrepareForBackward(R, out) ==
  [R EXCEPT !.expect = TRUE, !.next = 1, !.ready = {}, !.marked = FALSE,
            !.left = IF Mode = "static" THEN R.hooks ELSE @,
            !.unused = IF DynamicFindUnused THEN Params \ out ELSE @]

-----------------------------------------------------------------------------
(* The passes of a rank.                                                    *)

Update(r, R) == red' = [red EXCEPT ![r] = R]
Goto(r, l) == pc' = [pc EXCEPT ![r] = l]

\* A failed check is an exception in the training loop of the rank.
GotoUnless(r, R, l) == Goto(r, IF R.error THEN "raised" ELSE l)

\* As PriorReductionUnfinished, had the check been left out.
PriorReductionIgnored(R) == FALSE

\* ensure_prior_reduction_finished.
PriorReductionUnfinished(R) == R.finalize

\* rebuild_buckets up to the first broadcast of sync_bucket_indices.
RebuildBuckets(R) ==
  LET plan == Assign(R.order)
  IN  IF Len(R.order) # Cardinality(Params) THEN [R EXCEPT !.error = TRUE]
      ELSE Issue([R EXCEPT !.plan = plan],
                 Work("indices", <<Len(R.order) + 1>>,
                      [flat |-> FlattenSeq(plan), buckets |-> Len(plan)]))

\* forward() up to the call of the module: prepare_for_forward and
\* rebuild_buckets.  The loop zeroes the gradients after each synchronised pass.
Forward(r) ==
  /\ pc[r] = "idle"
  /\ pass[r] < Len(program.passes)
  /\ LET fresh == pass[r] > 0 /\ program.passes[pass[r]] = "sync"
         zero == [p \in Params |-> {}]
         R == [red[r] EXCEPT !.iterations = IF Pass(r) = "nosync" THEN @ ELSE @ + 1]
     IN /\ grad' = [grad EXCEPT ![r] = IF fresh THEN zero ELSE @]
        /\ gave' = [gave EXCEPT ![r] = IF fresh THEN zero ELSE @]
        /\ \/ /\ PriorReductionUnfinished(R)
              /\ Update(r, [R EXCEPT !.error = TRUE])
              /\ Goto(r, "raised")
           \/ /\ ~PriorReductionUnfinished(R)
              /\ ~ShouldRebuild(R) \/ R.order = <<>>
              /\ Update(r, R)
              /\ Goto(r, "forward")
           \/ /\ ~PriorReductionUnfinished(R)
              /\ ShouldRebuild(R) /\ R.order # <<>>
              /\ Update(r, RebuildBuckets(R))
              /\ GotoUnless(r, red'[r], "indices")
  /\ UNCHANGED <<program, pass, graph, fires, finals, broken>>

\* What a rank has for the sizes of n buckets before it receives those of rank 0.
LocalSizes(plan, n) ==
  [i \in 1..n |-> Len(plan[IF i > Len(plan) THEN Len(plan) ELSE i])]

\* sync_bucket_indices: the indices have arrived, broadcast the sizes.
SyncBucketIndices(r) ==
  /\ pc[r] = "indices"
  /\ red[r].work = <<>>
  /\ LET n == red[r].done[1].data.buckets
     IN  Update(r, Issue(red[r], Work("sizes", <<n>>, LocalSizes(red[r].plan, n))))
  /\ Goto(r, "sizes")
  /\ UNCHANGED <<program, grad, gave, pass, graph, fires, finals, broken>>

\* Cut the indices received into buckets of the sizes received.
Unflatten(flat, sizes) ==
  LET end[i \in 0..Len(sizes)] == IF i = 0 THEN 0 ELSE end[i - 1] + sizes[i]
  IN  [i \in 1..Len(sizes) |-> SubSeq(flat, end[i - 1] + 1, end[i])]

\* As InitializeBuckets, with the buckets this rank computed itself.
InitializeBucketsLocal(r) ==
  /\ pc[r] = "sizes"
  /\ red[r].work = <<>>
  /\ Update(r, [red[r] EXCEPT !.buckets = red[r].plan, !.rebuilt = TRUE, !.order = <<>>,
                              !.plan = <<>>, !.done = <<>>])
  /\ Goto(r, "forward")
  /\ UNCHANGED <<program, grad, gave, pass, graph, fires, finals, broken>>

\* The sizes have arrived: the rest of rebuild_buckets, with initialize_buckets.
InitializeBuckets(r) ==
  /\ pc[r] = "sizes"
  /\ red[r].work = <<>>
  /\ LET R == red[r]
         buckets == Unflatten(R.done[1].data.flat, R.done[2].data)
         wrong == R.expect \/ Len(buckets) # Len(R.plan)
     IN  Update(r, [R EXCEPT !.buckets = buckets, !.rebuilt = TRUE, !.order = <<>>, !.done = <<>>,
                             !.plan = IF wrong THEN @ ELSE <<>>, !.error = wrong])
  /\ GotoUnless(r, red'[r], "forward")
  /\ UNCHANGED <<program, grad, gave, pass, graph, fires, finals, broken>>

\* _DDPSink: hooks of parameters that only feed outputs outside the loss fire too,
\* without a gradient, and in the first static iteration the reduction is delayed.
HasSink(r) == Mode = "unused" \/ StaticFirst(red[r])

\* What the documentation of each mode asks of the graph of a pass.
Contract(r, g) ==
  CASE Mode = "plain" -> Pass(r) = "sync" => \A p \in Params : g.loss[p] = 1
    [] Mode = "unused" -> Pass(r) = "sync" => \A p \in Params : g.loss[p] \leq (IF p \in g.out THEN 1 ELSE 0)
    [] Mode = "static" -> pass[r] > 0 => g = graph[r]

\* forward() after the call of the module: prepare_for_backward.
Backward(r) ==
  /\ pc[r] = "forward"
  /\ \E g \in Graphs[Mode] :
       LET R == IF Pass(r) = "nosync" THEN red[r] ELSE PrepareForBackward(red[r], g.out)
           sink == [p \in Params |-> IF HasSink(r) /\ g.loss[p] = 0 /\ p \in g.out THEN 1 ELSE g.loss[p]]
       IN /\ graph' = [graph EXCEPT ![r] = g]
          /\ broken' = (broken \/ ~Contract(r, g))
          /\ \/ /\ Pass(r) = "ignored"
                /\ Update(r, R)
                /\ Goto(r, "idle")
                /\ pass' = [pass EXCEPT ![r] = @ + 1]
                /\ UNCHANGED fires
             \/ /\ Pass(r) # "ignored"
                /\ Update(r, [R EXCEPT !.callback = IF StaticFirst(R) THEN "delay" ELSE "none"])
                /\ Goto(r, "backward")
                /\ fires' = [fires EXCEPT ![r] = sink]
                /\ UNCHANGED pass
  /\ UNCHANGED <<program, grad, gave, finals>>

\* The engine accumulates the gradient of p, if it has one, and runs its hook.
Hook(r, p) ==
  /\ pc[r] = "backward"
  /\ fires[r][p] > 0
  /\ LET new == IF graph[r].loss[p] > 0 THEN {<<r, pass[r] + 1, fires[r][p]>>} ELSE {}
     IN /\ grad' = [grad EXCEPT ![r][p] = @ \cup new]
        /\ gave' = [gave EXCEPT ![r][p] = @ \cup new]
  /\ fires' = [fires EXCEPT ![r][p] = @ - 1]
  /\ Update(r, AutogradHook(red[r], grad'[r], p))
  /\ GotoUnless(r, red'[r], "backward")
  /\ UNCHANGED <<program, pass, graph, finals, broken>>

\* The GraphTask is complete: the engine runs the final callback, if there is one.
EndBackward(r) ==
  /\ pc[r] = "backward"
  /\ \A p \in Params : fires[r][p] = 0
  /\ LET R == red[r]
         S == IF R.callback = "delay" THEN DelayAllReduce(R, grad[r]) ELSE FinalCallback(R)
         \* The assertions finalize_backward starts with.
         ok == S.expect /\ S.finalize
     IN \/ /\ R.callback = "none"
           /\ Goto(r, "idle")
           /\ pass' = [pass EXCEPT ![r] = @ + 1]
           /\ UNCHANGED red
        \/ /\ R.callback # "none"
           /\ Update(r, [S EXCEPT !.callback = "none", !.error = @ \/ ~ok])
           /\ GotoUnless(r, red'[r], "final")
           /\ UNCHANGED pass
  /\ UNCHANGED <<program, grad, gave, graph, fires, finals, broken>>

\* finalize_backward, when all reductions the rank waits for are complete.
FinalizeBackward(r) ==
  /\ pc[r] = "final"
  /\ red[r].work = <<>>
  /\ grad' = [grad EXCEPT ![r] = FinalizedGrads(red[r], grad[r])]
  /\ Update(r, FinalizedReducer(red[r]))
  /\ Goto(r, "idle")
  /\ pass' = [pass EXCEPT ![r] = @ + 1]
  /\ finals' = [finals EXCEPT ![r] = @ + 1]
  /\ UNCHANGED <<program, gave, graph, fires, broken>>

-----------------------------------------------------------------------------
(* The process group: the oldest collective of every rank is one operation. *)

Oldest(r) == red[r].work[1]
Matching == \A r, s \in Ranks : Oldest(r).kind = Oldest(s).kind /\ Oldest(r).key = Oldest(s).key

CollectiveResult ==
  LET w == Oldest(Root)
  IN  CASE w.kind = "bucket" -> [p \in Range(w.key) |-> UNION {Oldest(s).data[p] : s \in Ranks}]
        [] w.kind = "used" -> UNION {Oldest(s).data : s \in Ranks}
        [] OTHER -> w.data

Collective ==
  /\ \A r \in Ranks : red[r].work # <<>>
  /\ Matching
  /\ red' = [r \in Ranks |->
       [red[r] EXCEPT !.work = Tail(@),
                      !.done = Append(@, [Oldest(r) EXCEPT !.data = CollectiveResult])]]
  /\ UNCHANGED <<program, grad, gave, pc, pass, graph, fires, finals, broken>>

-----------------------------------------------------------------------------
Step(r) ==
  \/ Forward(r) \/ SyncBucketIndices(r) \/ InitializeBuckets(r) \/ Backward(r)
  \/ (\E p \in Params : Hook(r, p)) \/ EndBackward(r) \/ FinalizeBackward(r)

Next == (\E r \in Ranks : Step(r)) \/ Collective

\* Step(r) is enabled.
Runnable(r) ==
  \/ pc[r] = "idle" /\ pass[r] < Len(program.passes)
  \/ pc[r] \in {"indices", "sizes", "final"} /\ red[r].work = <<>>
  \/ pc[r] \in {"forward", "backward"}

\* Weak fairness of every rank, with the enabling condition of Step(r) written out,
\* and of the process group: processes and collectives that can run do run.
Fairness ==
  /\ \A r \in Ranks : []<>~Runnable(r) \/ []<><<Step(r)>>_vars
  /\ WF_vars(Collective)

Spec == Init /\ [][Next]_vars /\ Fairness

-----------------------------------------------------------------------------
(* Properties.                                                              *)

Contributions == Ranks \X (1..Len(program.passes)) \X (1..2)
IsGrad(g) == g \in [Params -> SUBSET Contributions]

\* The types; every parameter is in one bucket, whatever layout was received.
TypeOK ==
  /\ program \in Programs
  /\ \A r \in Ranks : IsGrad(grad[r]) /\ IsGrad(gave[r]) /\ IsGrad(red[r].view)
  /\ pc \in [Ranks -> Locations]
  /\ pass \in [Ranks -> 0..Len(program.passes)]
  /\ graph \in [Ranks -> Graphs[Mode]]
  /\ fires \in [Ranks -> [Params -> 0..2]]
  /\ \A r \in Ranks : LET R == red[r] IN
       /\ R.iterations \in 0..Len(program.passes)
       /\ \A p \in Params : Cardinality({i \in DOMAIN R.buckets : p \in Range(R.buckets[i])}) = 1
       /\ R.next \in 1..Cardinality(Params) + 1
       /\ R.ready \cup R.unused \cup R.used \subseteq Params
       /\ R.hooks \in [Params -> 0..2] /\ R.left \in [Params -> 0..2]
       /\ R.callback \in {"none", "delay", "finalize"}

\* The collectives that the process group pairs are the same on all ranks, the
\* layout of the buckets included, in whatever order the hooks fire on each of them;
\* and the tables of each rank are well formed, every parameter in one bucket.
CollectivesMatch ==
  /\ TypeOK
  /\ \A r, s \in Ranks : \A i \in DOMAIN red[r].work \cap DOMAIN red[s].work :
       (\A q \in Ranks : red[q].work # <<>>) =>
         /\ red[r].work[i].kind = red[s].work[i].kind
         /\ red[r].work[i].key = red[s].work[i].key

\* The rank has finalized a synchronised pass and has not started the next one.
Synced(r) ==
  /\ pc[r] = "idle" /\ pass[r] > 0
  /\ program.passes[pass[r]] = "sync" /\ ~red[r].expect

SameSyncedPass(r, s) == Synced(r) /\ Synced(s) /\ pass[r] = pass[s]

\* Some rank's backward reached the parameter in this pass and left a gradient in
\* it, be it one accumulated under no_sync().
UsedBySome(p) ==
  \E r \in Ranks : (graph[r].loss[p] > 0 \/ p \in graph[r].out) /\ gave[r][p] # {}

\* When a synchronised backward returns, the gradient of every parameter that some
\* rank used in that pass is the same on all ranks and sums what all of them
\* accumulated since the gradients were zeroed, under no_sync() too; a parameter that
\* no rank used in it keeps the gradient it had.  So with find_unused_parameters a
\* parameter used under no_sync() only keeps the gradient of its own rank, which is
\* what NoSyncSynchronized denies.
GradsAgree ==
  (\A r, s \in Ranks : SameSyncedPass(r, s)) =>
    \A r \in Ranks, p \in Params :
      grad[r][p] = IF UsedBySome(p) THEN UNION {gave[s][p] : s \in Ranks} ELSE gave[r][p]

\* What no_sync() documents: the gradients accumulated under it, on any rank, are
\* synchronised in the first pass after it.  autograd_hook returns before it marks
\* the parameter in local_used_map_ while hooks are not expected.
NoSyncSynchronized ==
  (\A r, s \in Ranks : SameSyncedPass(r, s)) =>
    \A r \in Ranks, p \in Params : grad[r][p] = UNION {gave[s][p] : s \in Ranks}

\* The i-th pass reduces its gradients: a synchronised one does, and so does one under
\* no_sync() when the output of the forward before it, which expected the hooks, was
\* ignored.
Reduces(i) ==
  \/ program.passes[i] = "sync"
  \/ program.passes[i] = "nosync" /\ i > 1 /\ program.passes[i - 1] = "ignored"

\* No rank goes on training after a reduction that did not finish, none is finalized
\* twice, and no_sync() has none but after an ignored forward: past forward(), one
\* reduction is finalized for each earlier pass that reduces.  Only a static graph that
\* changed can keep all its hooks from marking a parameter, so that nothing is noticed.
EverySyncFinalized ==
  \A r \in Ranks : pc[r] \in {"forward", "backward", "final"} =>
    \/ Mode = "static" /\ broken
    \/ finals[r] = Cardinality({i \in 1..pass[r] : Reduces(i)})

\* initialize_buckets has failed on a rank that computed another number of buckets
\* than rank 0, although sync_bucket_indices provides for it.
CountsDiffer == \E r \in Ranks : pc[r] = "raised" /\ Len(red[r].plan) \notin {0, Len(red[r].buckets)}

\* No check of the Reducer fails while every rank keeps the contract of the mode,
\* but for the assertion on the number of rebuilt buckets.
NoFalseAlarm == (\E r \in Ranks : pc[r] = "raised") => broken \/ CountsDiffer

\* While every rank keeps the contract, all of them finish all passes, with the same
\* exception.
AllFinish ==
  <>(broken \/ CountsDiffer \/ \A r \in Ranks : pc[r] = "idle" /\ pass[r] = Len(program.passes))
=============================================================================
