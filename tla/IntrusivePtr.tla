---------------------------- MODULE IntrusivePtr ----------------------------
(***************************************************************************)
(* c10::intrusive_ptr and c10::weak_intrusive_ptr (c10/util/intrusive_ptr.h): *)
(* the lock-free reference counting under every Tensor, Storage, Future and *)
(* RRef of PyTorch.                                                        *)
(*                                                                         *)
(* A slot is one owning reference: an intrusive_ptr, a weak_intrusive_ptr, *)
(* or the raw pointer returned by release() that must be reclaim()ed.  The *)
(* C++ contract is that a slot is mutated by one thread at a time, and that *)
(* it is not mutated while another thread copies it or locks it; distinct  *)
(* slots are used by distinct threads with no synchronisation at all.  So  *)
(* each slot is an actor, and each atomic operation on the two counters of *)
(* a target is a step.                                                     *)
(***************************************************************************)
EXTENDS Naturals, FiniteSets

CONSTANTS
  Objects,   \* heap allocations of intrusive_ptr_target, each used once
  Strong,    \* slots that hold strong references
  Weak,      \* slots that hold weak references
  NULL       \* NullType::singleton()

ASSUME SlotAssumption ==
  /\ IsFiniteSet(Strong) /\ IsFiniteSet(Weak)
  /\ Strong \cap Weak = {}
  /\ NULL \notin Objects /\ NULL \notin Weak

VARIABLES
  mem,        \* mem[o]: "none" before new, "alive", "deleted"
  refcount,   \* refcount_ of each target
  weakcount,  \* weakcount_ of each target
  released,   \* how often release_resources() ran on each target
  target,     \* target_ of each slot
  pc,         \* where the operation in progress on each slot stands
  lockSrc,    \* the weak slot the lock() that will fill a strong slot reads
  expected    \* the local variable refcount of that lock()

vars == <<mem, refcount, weakcount, released, target, pc, lockSrc, expected>>

Slots == Strong \cup Weak

\* reset_() after refcount_ reached zero, up to the decision to delete.
Releasing == {"release", "loadWeak", "decWeak"}

\* A slot some lock() in progress reads: it may not be mutated meanwhile.
BeingLocked(w) == \E s \in Strong : lockSrc[s] = w

Free(s) == pc[s] = "idle" /\ target[s] = NULL
Holds(s, o) == pc[s] = "idle" /\ target[s] = o

Init ==
  /\ mem = [o \in Objects |-> "none"]
  /\ refcount = [o \in Objects |-> 0]
  /\ weakcount = [o \in Objects |-> 0]
  /\ released = [o \in Objects |-> 0]
  /\ target = [s \in Slots |-> NULL]
  /\ pc = [s \in Slots |-> "idle"]
  /\ lockSrc = [s \in Strong |-> NULL]
  /\ expected = [s \in Strong |-> 0]

-----------------------------------------------------------------------------
\* make(): new TTarget, then the raw pointer constructor stores both counters.
Make(s, o) ==
  /\ Free(s) /\ mem[o] = "none"
  /\ mem' = [mem EXCEPT ![o] = "alive"]
  /\ refcount' = [refcount EXCEPT ![o] = 1]
  /\ weakcount' = [weakcount EXCEPT ![o] = 1]
  /\ target' = [target EXCEPT ![s] = o]
  /\ UNCHANGED <<released, pc, lockSrc, expected>>

\* Copy construction, incref, reclaim_copy: retain_ of the object slot r owns.
Retain(s, r, o) ==
  /\ Free(s) /\ Holds(r, o)
  /\ refcount' = [refcount EXCEPT ![o] = @ + 1]
  /\ target' = [target EXCEPT ![s] = o]
  /\ UNCHANGED <<mem, weakcount, released, pc, lockSrc, expected>>

\* swap(), and with an empty slot the moves, release() and reclaim().
Swap(s, r) ==
  /\ pc[s] = "idle" /\ pc[r] = "idle" /\ target[s] # target[r]
  /\ target' = [target EXCEPT ![s] = target[r], ![r] = target[s]]
  /\ UNCHANGED <<mem, refcount, weakcount, released, pc, lockSrc, expected>>

\* Mutant: the release begins one reference early.
ResetStrongEarly(s, o) ==
  /\ Holds(s, o)
  /\ refcount' = [refcount EXCEPT ![o] = @ - 1]
  /\ IF refcount'[o] \leq 1
     THEN pc' = [pc EXCEPT ![s] = "release"] /\ UNCHANGED target
     ELSE target' = [target EXCEPT ![s] = NULL] /\ UNCHANGED pc
  /\ UNCHANGED <<mem, weakcount, released, lockSrc, expected>>

\* reset_(), the destructor and decref: the decrement of refcount_.
ResetStrong(s, o) ==
  /\ Holds(s, o)
  /\ refcount' = [refcount EXCEPT ![o] = @ - 1]
  /\ IF refcount'[o] = 0
     THEN pc' = [pc EXCEPT ![s] = "release"] /\ UNCHANGED target
     ELSE target' = [target EXCEPT ![s] = NULL] /\ UNCHANGED pc
  /\ UNCHANGED <<mem, weakcount, released, lockSrc, expected>>

\* reset_(): release_resources() of the target.
ReleaseResources(s, o) ==
  /\ pc[s] = "release" /\ target[s] = o
  /\ released' = [released EXCEPT ![o] = @ + 1]
  /\ pc' = [pc EXCEPT ![s] = "loadWeak"]
  /\ UNCHANGED <<mem, refcount, weakcount, target, lockSrc, expected>>

\* Mutant: off by one in the fast path.
LoadWeakOffByOne(s, o) ==
  /\ pc[s] = "loadWeak" /\ target[s] = o
  /\ pc' = [pc EXCEPT ![s] = IF weakcount[o] \leq 2 THEN "delete" ELSE "decWeak"]
  /\ UNCHANGED <<mem, refcount, weakcount, released, target, lockSrc, expected>>

\* reset_(): weakcount_.load() == 1 skips the decrement.
LoadWeak(s, o) ==
  /\ pc[s] = "loadWeak" /\ target[s] = o
  /\ pc' = [pc EXCEPT ![s] = IF weakcount[o] = 1 THEN "delete" ELSE "decWeak"]
  /\ UNCHANGED <<mem, refcount, weakcount, released, target, lockSrc, expected>>

\* Mutant: the zero is not acted upon.
DropWeakOnly(s, o) ==
  /\ weakcount' = [weakcount EXCEPT ![o] = @ - 1]
  /\ target' = [target EXCEPT ![s] = NULL]
  /\ pc' = [pc EXCEPT ![s] = "idle"]
  /\ UNCHANGED <<mem, refcount, released, lockSrc, expected>>

\* Drop one unit of weakcount_; the one that reaches zero deletes the target.
DropWeak(s, o) ==
  /\ weakcount' = [weakcount EXCEPT ![o] = @ - 1]
  /\ IF weakcount'[o] = 0
     THEN pc' = [pc EXCEPT ![s] = "delete"] /\ UNCHANGED target
     ELSE /\ target' = [target EXCEPT ![s] = NULL]
          /\ pc' = [pc EXCEPT ![s] = "idle"]
  /\ UNCHANGED <<mem, refcount, released, lockSrc, expected>>

\* reset_(): the decrement of the unit the strong references share.
DecWeak(s, o) == pc[s] = "decWeak" /\ target[s] = o /\ DropWeak(s, o)

\* delete target_, then target_ = NullType::singleton().
Delete(s, o) ==
  /\ pc[s] = "delete" /\ target[s] = o
  /\ mem' = [mem EXCEPT ![o] = "deleted"]
  /\ target' = [target EXCEPT ![s] = NULL]
  /\ pc' = [pc EXCEPT ![s] = "idle"]
  /\ UNCHANGED <<refcount, weakcount, released, lockSrc, expected>>

-----------------------------------------------------------------------------
\* weak_intrusive_ptr(ptr), make_weak and weak copies: r is strong or weak.
RetainWeak(w, r, o) ==
  /\ Free(w) /\ Holds(r, o)
  /\ weakcount' = [weakcount EXCEPT ![o] = @ + 1]
  /\ target' = [target EXCEPT ![w] = o]
  /\ UNCHANGED <<mem, refcount, released, pc, lockSrc, expected>>

SwapWeak(w, v) == ~BeingLocked(w) /\ ~BeingLocked(v) /\ Swap(w, v)

\* weak reset_(), the weak destructor and the weak decref.
ResetWeak(w, o) == Holds(w, o) /\ ~BeingLocked(w) /\ DropWeak(w, o)

\* lock(): expired() saw a live target, then refcount_ is loaded.  The load
\* happens at any later time, so LockLoad is a step of its own.
LockBegin(s, w, o) ==
  /\ Free(s) /\ Holds(w, o) /\ refcount[o] > 0
  /\ lockSrc' = [lockSrc EXCEPT ![s] = w]
  /\ pc' = [pc EXCEPT ![s] = "lockLoad"]
  /\ UNCHANGED <<mem, refcount, weakcount, released, target, expected>>

\* Mutant: lock() forgets that zero is final.
LockSawAny(s, n) ==
  /\ expected' = [expected EXCEPT ![s] = n]
  /\ pc' = [pc EXCEPT ![s] = "lockCAS"]
  /\ UNCHANGED <<mem, refcount, weakcount, released, target, lockSrc>>

\* lock() sees the value n of refcount_: zero returns a null intrusive_ptr.
LockSaw(s, n) ==
  /\ IF n = 0
     THEN /\ lockSrc' = [lockSrc EXCEPT ![s] = NULL]
          /\ pc' = [pc EXCEPT ![s] = "idle"]
          /\ UNCHANGED expected
     ELSE /\ expected' = [expected EXCEPT ![s] = n]
          /\ pc' = [pc EXCEPT ![s] = "lockCAS"]
          /\ UNCHANGED lockSrc
  /\ UNCHANGED <<mem, refcount, weakcount, released, target>>

LockLoad(s, o) ==
  /\ pc[s] = "lockLoad" /\ target[lockSrc[s]] = o
  /\ LockSaw(s, refcount[o])

\* Mutant: a plain store instead of the compare-exchange.
LockStore(s, o) ==
  /\ pc[s] = "lockCAS" /\ target[lockSrc[s]] = o
  /\ refcount' = [refcount EXCEPT ![o] = expected[s] + 1]
  /\ target' = [target EXCEPT ![s] = o]
  /\ lockSrc' = [lockSrc EXCEPT ![s] = NULL]
  /\ pc' = [pc EXCEPT ![s] = "idle"]
  /\ UNCHANGED <<mem, weakcount, released, expected>>

\* compare_exchange_weak succeeded: the slot owns a new strong reference.
LockExchange(s, o) ==
  /\ pc[s] = "lockCAS" /\ target[lockSrc[s]] = o
  /\ refcount[o] = expected[s]
  /\ refcount' = [refcount EXCEPT ![o] = expected[s] + 1]
  /\ target' = [target EXCEPT ![s] = o]
  /\ lockSrc' = [lockSrc EXCEPT ![s] = NULL]
  /\ pc' = [pc EXCEPT ![s] = "idle"]
  /\ UNCHANGED <<mem, weakcount, released, expected>>

\* compare_exchange_weak failed, perhaps spuriously, and reloaded refcount_.
LockRetry(s, o) ==
  /\ pc[s] = "lockCAS" /\ target[lockSrc[s]] = o
  /\ LockSaw(s, refcount[o])

-----------------------------------------------------------------------------
Finish(s) ==
  \E o \in Objects :
    ReleaseResources(s, o) \/ LoadWeak(s, o) \/ DecWeak(s, o) \/ Delete(s, o)

StrongNext(s, o) ==
  \/ Make(s, o)
  \/ \E r \in Strong : Retain(s, r, o)
  \/ ResetStrong(s, o)
  \/ \E w \in Weak : LockBegin(s, w, o)
  \/ LockLoad(s, o) \/ LockExchange(s, o) \/ LockRetry(s, o)

WeakNext(w, o) ==
  \/ \E r \in Slots : RetainWeak(w, r, o)
  \/ ResetWeak(w, o)

Next ==
  \/ \E s \in Strong, o \in Objects : StrongNext(s, o)
  \/ \E w \in Weak, o \in Objects : WeakNext(w, o)
  \/ \E s, r \in Strong : Swap(s, r)
  \/ \E w, v \in Weak : SwapWeak(w, v)
  \/ \E s \in Slots : Finish(s)

\* A thread inside reset_() is not blocked by anyone and completes it.
Fairness == \A s \in Slots : WF_vars(Finish(s))

Spec == Init /\ [][Next]_vars /\ Fairness

-----------------------------------------------------------------------------
\* The types; in particular the two counters never go below zero.
TypeOK ==
  /\ mem \in [Objects -> {"none", "alive", "deleted"}]
  /\ refcount \in [Objects -> Nat]
  /\ weakcount \in [Objects -> Nat]
  /\ released \in [Objects -> Nat]
  /\ target \in [Slots -> Objects \cup {NULL}]
  /\ pc \in [Slots -> {"idle", "delete", "lockLoad", "lockCAS"} \cup Releasing]
  /\ lockSrc \in [Strong -> Weak \cup {NULL}]
  /\ expected \in [Strong -> Nat]

StrongRefs(o) == {s \in Strong : Holds(s, o)}
WeakRefs(o) == {w \in Weak : Holds(w, o)}
Releasers(o) == {s \in Strong : pc[s] \in Releasing /\ target[s] = o}
Deleters(o) == {s \in Slots : pc[s] = "delete" /\ target[s] = o}

\* No slot, idle or inside reset_(), ever refers to memory that was deleted or
\* never allocated: every counter access and every deref is of a live target.
NoUseAfterFree == \A s \in Slots : target[s] # NULL => mem[target[s]] = "alive"

\* Note [Weak references for intrusive refcounting]: refcount_ is the number
\* of strong references, weakcount_ the number of weak ones plus one from the
\* first strong reference until the last reset_() gave its unit back.
CountsOf(o) ==
  /\ refcount[o] = Cardinality(StrongRefs(o))
  /\ mem[o] = "alive" /\ Deleters(o) = {} =>
       weakcount[o] = Cardinality(WeakRefs(o))
                      + IF StrongRefs(o) # {} \/ Releasers(o) # {} THEN 1 ELSE 0

\* Note [Weak references for intrusive refcounting], of every target.
CountingScheme == \A o \in Objects : CountsOf(o)

\* A target reachable through a strong reference still has its resources, and
\* release_resources() ran exactly once before the target is deleted.
ResourcesReleasedOnce ==
  \A o \in Objects :
    /\ StrongRefs(o) # {} => released[o] = 0
    /\ released[o] \leq 1
    /\ mem[o] = "deleted" \/ Deleters(o) # {} => released[o] = 1

\* The assertions of ~intrusive_ptr_target hold when delete runs, and one slot
\* alone runs it.
DestructorAssertions ==
  \A o \in Objects : \A s \in Deleters(o) :
    /\ refcount[o] = 0 /\ weakcount[o] \in {0, 1}
    /\ StrongRefs(o) = {} /\ WeakRefs(o) = {}
    /\ Deleters(o) = {s}

\* A live target always has a slot that will delete it: nothing leaks.
NoLeak == \A o \in Objects : mem[o] = "alive" => \E s \in Slots : target[s] = o

-----------------------------------------------------------------------------
\* What each slot's program counter implies about the slot itself.
SlotInv ==
  /\ \A w \in Weak : pc[w] \in {"idle", "delete"}
  /\ \A s \in Slots : pc[s] \in Releasing \cup {"delete"} => target[s] # NULL
  /\ \A s \in Strong :
       IF pc[s] \in {"lockLoad", "lockCAS"}
       THEN /\ target[s] = NULL /\ lockSrc[s] \in Weak
            /\ pc[lockSrc[s]] = "idle" /\ target[lockSrc[s]] # NULL
            /\ pc[s] = "lockCAS" => expected[s] > 0
       ELSE lockSrc[s] = NULL

\* The slot that finishes a target is alone: no other strong slot refers to a
\* target being released, and no other slot at all to one being deleted.
SoleFinisher ==
  /\ \A s, t \in Strong :
       pc[s] \in Releasing /\ target[t] = target[s] => t = s
  /\ \A s, t \in Slots : pc[s] = "delete" /\ target[t] = target[s] => t = s
  /\ \A s \in Slots : pc[s] = "delete" => weakcount[target[s]] \in {0, 1}

\* How often release_resources() ran, from the target's life so far.
ReleasedOf(o) ==
  released[o] =
    IF \/ mem[o] = "none"
       \/ StrongRefs(o) # {}
       \/ \E s \in Strong : pc[s] = "release" /\ target[s] = o
    THEN 0 ELSE 1

ReleasedInv == \A o \in Objects : ReleasedOf(o)

\* The inductive invariant of the scheme (see IntrusivePtrProofs): a reset_()
\* that reaches zero is the only path left to the target.
IndInv ==
  /\ TypeOK /\ SlotInv /\ SoleFinisher /\ NoUseAfterFree
  /\ CountingScheme /\ ReleasedInv /\ NoLeak

\* Once refcount_ is zero it never becomes positive again: lock() and retain_
\* cannot resurrect a target whose release has begun.
NeverResurrected ==
  [][\A o \in Objects :
       mem[o] # "none" /\ refcount[o] = 0 => refcount'[o] = 0]_vars

\* When the last strong reference goes, release_resources() eventually runs,
\* whatever weak references and lock() calls do, and a target nobody holds or
\* locks any more is eventually deleted.
EventuallyFreed ==
  \A o \in Objects :
    /\ mem[o] = "alive" /\ refcount[o] = 0 ~> released[o] = 1
    /\ mem[o] = "alive" /\ StrongRefs(o) = {} /\ WeakRefs(o) = {} ~> mem[o] = "deleted"
=============================================================================
