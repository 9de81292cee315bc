------------------------- MODULE IntrusivePtrProofs -------------------------
(***************************************************************************)
(* Proofs that the reference counting of IntrusivePtr is safe for any      *)
(* number of objects and slots.                                            *)
(***************************************************************************)
EXTENDS IntrusivePtr, FiniteSetTheorems, TLAPS

\* Gaining a reference adds one to the number of references.
LEMMA GainOne ==
  ASSUME NEW S, NEW x, IsFiniteSet(S), x \notin S
  PROVE  Cardinality(S \cup {x}) = Cardinality(S) + 1
BY FS_AddElement

\* Losing a reference subtracts one, and only the last one leaves none.
LEMMA LoseOne ==
  ASSUME NEW S, NEW x, IsFiniteSet(S), x \in S
  PROVE  /\ Cardinality(S \ {x}) = Cardinality(S) - 1
         /\ Cardinality(S) - 1 = 0 <=> S \ {x} = {}
         /\ Cardinality(S) - 1 \in Nat
<1>1. IsFiniteSet(S \ {x}) /\ Cardinality(S \ {x}) = Cardinality(S) - 1
  BY FS_RemoveElement
<1>2. Cardinality(S \ {x}) \in Nat
  BY <1>1, FS_CardinalityType
<1>3. Cardinality(S \ {x}) = 0 <=> S \ {x} = {}
  BY <1>1, FS_EmptySet
<1> QED
  BY <1>1, <1>2, <1>3

\* Handing a reference from slot x to slot y keeps their number.
LEMMA HandOver ==
  ASSUME NEW S, NEW x, NEW y, IsFiniteSet(S), x \in S, y \notin S
  PROVE  Cardinality((S \ {x}) \cup {y}) = Cardinality(S)
<1>1. IsFiniteSet(S \ {x}) /\ Cardinality(S \ {x}) = Cardinality(S) - 1
  BY FS_RemoveElement
<1>2. Cardinality((S \ {x}) \cup {y}) = Cardinality(S \ {x}) + 1
  BY <1>1, FS_AddElement
<1>3. Cardinality(S) \in Nat
  BY FS_CardinalityType
<1> QED
  BY <1>1, <1>2, <1>3

\* The references to a target form finite sets.
LEMMA RefsFinite ==
  ASSUME NEW o
  PROVE  /\ IsFiniteSet(StrongRefs(o)) /\ IsFiniteSet(WeakRefs(o))
         /\ Cardinality(StrongRefs(o)) \in Nat /\ Cardinality(WeakRefs(o)) \in Nat
         /\ Cardinality(StrongRefs(o)) = 0 <=> StrongRefs(o) = {}
         /\ Cardinality(WeakRefs(o)) = 0 <=> WeakRefs(o) = {}
<1>1. StrongRefs(o) \in SUBSET Strong /\ WeakRefs(o) \in SUBSET Weak
  BY DEF StrongRefs, WeakRefs
<1>2. IsFiniteSet(StrongRefs(o)) /\ IsFiniteSet(WeakRefs(o))
  BY <1>1, FS_Subset, SlotAssumption
<1> QED
  BY <1>2, FS_CardinalityType, FS_EmptySet

\* A new target starts with the one reference of the slot that made it.
LEMMA MakeKeeps ==
  ASSUME IndInv, NEW s \in Strong, NEW o \in Objects,
         Make(s, o)
  PROVE  IndInv'
<1>1. TypeOK'
  BY SlotAssumption DEF IndInv, TypeOK, Make, Slots, Releasing, Holds, Free,
     BeingLocked
<1>2. \A p \in Objects :
        /\ StrongRefs(p)' = IF p = o THEN {s} ELSE StrongRefs(p)
        /\ WeakRefs(p)' = WeakRefs(p)
        /\ Releasers(p)' = Releasers(p)
        /\ Deleters(p)' = Deleters(p)
  BY SlotAssumption DEF IndInv, TypeOK, SlotInv, SoleFinisher, NoUseAfterFree, Make,
     Slots, Releasing, Holds, Free, BeingLocked, StrongRefs, WeakRefs, Releasers,
     Deleters
<1>3. SlotInv'
  BY SlotAssumption DEF IndInv, TypeOK, SlotInv, Make, Slots, Releasing, Holds,
     Free, BeingLocked
<1>4. SoleFinisher'
  BY SlotAssumption DEF IndInv, TypeOK, SlotInv, SoleFinisher, NoUseAfterFree, Make,
     Slots, Releasing, Holds, Free, BeingLocked
<1>5. NoUseAfterFree'
  BY SlotAssumption DEF IndInv, TypeOK, NoUseAfterFree, Make, Slots, Releasing,
     Holds, Free, BeingLocked
<1>6. CountingScheme'
  <2>1. StrongRefs(o) = {} /\ WeakRefs(o) = {} /\ Releasers(o) = {}
    BY SlotAssumption DEF IndInv, NoUseAfterFree, Make, StrongRefs, WeakRefs,
       Releasers, Holds, Slots
  <2>2. Cardinality({s}) = 1 /\ Cardinality({}) = 0
    BY FS_Singleton, FS_EmptySet
  <2> SUFFICES ASSUME NEW p \in Objects
               PROVE  CountsOf(p)'
    BY DEF CountingScheme
  <2>3. CASE p = o
    <3>1. refcount'[o] = 1 /\ weakcount'[o] = 1
      BY DEF IndInv, TypeOK, Make
    <3>2. StrongRefs(o)' = {s} /\ WeakRefs(o)' = {}
      BY <1>2, <2>1
    <3> QED
      BY <2>2, <2>3, <3>1, <3>2 DEF CountsOf
  <2>4. CASE p # o
    BY <1>2, <2>4 DEF IndInv, TypeOK, CountingScheme, CountsOf, Make
  <2> QED
    BY <2>3, <2>4
<1>7. ReleasedInv'
  BY <1>2, SlotAssumption DEF IndInv, TypeOK, ReleasedInv, ReleasedOf, NoUseAfterFree, Make,
     Slots, Releasing, Holds, Free, BeingLocked
<1>8. NoLeak'
  BY SlotAssumption DEF IndInv, TypeOK, NoLeak, Make, Slots, Releasing, Holds, Free,
     BeingLocked
<1> QED
  BY <1>1, <1>3, <1>4, <1>5, <1>6, <1>7, <1>8 DEF IndInv

\* A copy adds one strong reference to a target that has one.
LEMMA RetainKeeps ==
  ASSUME IndInv, NEW s \in Strong, NEW r \in Strong, NEW o \in Objects,
         Retain(s, r, o)
  PROVE  IndInv'
<1>1. TypeOK'
  BY SlotAssumption DEF IndInv, TypeOK, Retain, Slots, Releasing, Holds, Free,
     BeingLocked
<1>2. \A p \in Objects :
        /\ StrongRefs(p)' = IF p = o THEN StrongRefs(o) \cup {s} ELSE StrongRefs(p)
        /\ WeakRefs(p)' = WeakRefs(p)
        /\ Releasers(p)' = Releasers(p)
        /\ Deleters(p)' = Deleters(p)
  BY SlotAssumption DEF IndInv, TypeOK, SlotInv, SoleFinisher, NoUseAfterFree,
     Retain, Slots, Releasing, Holds, Free, BeingLocked, StrongRefs, WeakRefs,
     Releasers, Deleters
<1>3. SlotInv'
  BY SlotAssumption DEF IndInv, TypeOK, SlotInv, Retain, Slots, Releasing, Holds,
     Free, BeingLocked
<1>4. SoleFinisher'
  BY SlotAssumption DEF IndInv, TypeOK, SlotInv, SoleFinisher, NoUseAfterFree,
     Retain, Slots, Releasing, Holds, Free, BeingLocked
<1>5. NoUseAfterFree'
  BY SlotAssumption DEF IndInv, TypeOK, NoUseAfterFree, Retain, Slots, Releasing,
     Holds, Free, BeingLocked
<1>6. CountingScheme'
  <2>1. s \notin StrongRefs(o) /\ r \in StrongRefs(o)
    BY SlotAssumption DEF Retain, StrongRefs, Free, Holds
  <2>2. Cardinality(StrongRefs(o) \cup {s}) = Cardinality(StrongRefs(o)) + 1
    BY <2>1, GainOne, RefsFinite
  <2> SUFFICES ASSUME NEW p \in Objects
               PROVE  CountsOf(p)'
    BY DEF CountingScheme
  <2>8. CASE p = o
    BY <1>2, <2>1, <2>2, <2>8, RefsFinite DEF IndInv, TypeOK, CountingScheme,
       CountsOf, Retain
  <2>9. CASE p # o
    BY <1>2, <2>9 DEF IndInv, TypeOK, CountingScheme, CountsOf, Retain
  <2> QED
    BY <2>8, <2>9
<1>7. ReleasedInv'
  <2>1. r \in StrongRefs(o)
    BY DEF Retain, StrongRefs, Holds
  <2>2. \A p \in Objects : StrongRefs(p)' # {} <=> StrongRefs(p) # {}
    BY <1>2, <2>1
  <2> QED
    BY <2>2, SlotAssumption DEF IndInv, TypeOK, ReleasedInv, ReleasedOf, Retain, Free
<1>8. NoLeak'
  BY SlotAssumption DEF IndInv, TypeOK, NoLeak, Retain, Slots, Releasing, Holds,
     Free, BeingLocked
<1> QED
  BY <1>1, <1>3, <1>4, <1>5, <1>6, <1>7, <1>8 DEF IndInv

\* Swapping two strong slots moves references without changing their number.
LEMMA SwapKeeps ==
  ASSUME IndInv, NEW s \in Strong, NEW r \in Strong,
         Swap(s, r)
  PROVE  IndInv'
<1>1. TypeOK'
  BY SlotAssumption DEF IndInv, TypeOK, Swap, Slots, Releasing, Holds, Free,
     BeingLocked
<1>2. \A p \in Objects :
        /\ WeakRefs(p)' = WeakRefs(p)
        /\ Releasers(p)' = Releasers(p)
        /\ Deleters(p)' = Deleters(p)
  BY SlotAssumption DEF IndInv, TypeOK, SlotInv, SoleFinisher, NoUseAfterFree, Swap,
     Slots, Releasing, Holds, Free, BeingLocked, StrongRefs, WeakRefs, Releasers,
     Deleters
<1>3. SlotInv'
  BY SlotAssumption DEF IndInv, TypeOK, SlotInv, Swap, Slots, Releasing, Holds,
     Free, BeingLocked
<1>4. SoleFinisher'
  BY SlotAssumption DEF IndInv, TypeOK, SlotInv, SoleFinisher, NoUseAfterFree, Swap,
     Slots, Releasing, Holds, Free, BeingLocked
<1>5. NoUseAfterFree'
  BY SlotAssumption DEF IndInv, TypeOK, NoUseAfterFree, Swap, Slots, Releasing,
     Holds, Free, BeingLocked
<1>6. CountingScheme'
  <2> SUFFICES ASSUME NEW p \in Objects
               PROVE  CountsOf(p)'
    BY DEF CountingScheme
  <2>1. Cardinality(StrongRefs(p)') = Cardinality(StrongRefs(p)) /\ (StrongRefs(p)' = {} <=> StrongRefs(p) = {})
    <3>1. CASE s \in StrongRefs(p) /\ r \notin StrongRefs(p)
      <4>1. StrongRefs(p)' = (StrongRefs(p) \ {s}) \cup {r}
        BY <3>1, SlotAssumption DEF IndInv, TypeOK, Swap, Swap, StrongRefs, Slots,
           Holds
      <4> QED
        BY <3>1, <4>1, HandOver, RefsFinite
    <3>2. CASE r \in StrongRefs(p) /\ s \notin StrongRefs(p)
      <4>1. StrongRefs(p)' = (StrongRefs(p) \ {r}) \cup {s}
        BY <3>2, SlotAssumption DEF IndInv, TypeOK, Swap, Swap, StrongRefs, Slots,
           Holds
      <4> QED
        BY <3>2, <4>1, HandOver, RefsFinite
    <3>3. CASE s \in StrongRefs(p) <=> r \in StrongRefs(p)
      <4>1. StrongRefs(p)' = StrongRefs(p)
        BY <3>3, SlotAssumption DEF IndInv, TypeOK, Swap, Swap, StrongRefs, Slots,
           Holds
      <4> QED
        BY <4>1
    <3> QED
      BY <3>1, <3>2, <3>3
  <2> QED
    BY <1>2, <2>1 DEF IndInv, TypeOK, CountingScheme, CountsOf, Swap, Swap
<1>7. ReleasedInv'
  <2>1. \A p \in Objects : StrongRefs(p)' = {} <=> StrongRefs(p) = {}
    BY SlotAssumption DEF IndInv, TypeOK, Swap, StrongRefs, Slots, Holds
  <2> QED
    BY <2>1, SlotAssumption DEF IndInv, TypeOK, ReleasedInv, ReleasedOf, Swap, Slots
<1>8. NoLeak'
  BY SlotAssumption DEF IndInv, TypeOK, NoLeak, Swap, Slots, Releasing, Holds, Free,
     BeingLocked
<1> QED
  BY <1>1, <1>3, <1>4, <1>5, <1>6, <1>7, <1>8 DEF IndInv

\* Swapping two weak slots that no lock() reads moves weak references.
LEMMA SwapWeakKeeps ==
  ASSUME IndInv, NEW s \in Weak, NEW r \in Weak,
         SwapWeak(s, r)
  PROVE  IndInv'
<1>1. TypeOK'
  BY SlotAssumption DEF IndInv, TypeOK, SwapWeak, Swap, Slots, Releasing, Holds,
     Free, BeingLocked
<1>2. \A p \in Objects :
        /\ StrongRefs(p)' = StrongRefs(p)
        /\ Releasers(p)' = Releasers(p)
        /\ Deleters(p)' = Deleters(p)
  BY SlotAssumption DEF IndInv, TypeOK, SlotInv, SoleFinisher, NoUseAfterFree,
     SwapWeak, Swap, Slots, Releasing, Holds, Free, BeingLocked, StrongRefs,
     WeakRefs, Releasers, Deleters
<1>3. SlotInv'
  BY SlotAssumption DEF IndInv, TypeOK, SlotInv, SwapWeak, Swap, Slots, Releasing,
     Holds, Free, BeingLocked
<1>4. SoleFinisher'
  BY SlotAssumption DEF IndInv, TypeOK, SlotInv, SoleFinisher, NoUseAfterFree,
     SwapWeak, Swap, Slots, Releasing, Holds, Free, BeingLocked
<1>5. NoUseAfterFree'
  BY SlotAssumption DEF IndInv, TypeOK, NoUseAfterFree, SwapWeak, Swap, Slots,
     Releasing, Holds, Free, BeingLocked
<1>6. CountingScheme'
  <2> SUFFICES ASSUME NEW p \in Objects
               PROVE  CountsOf(p)'
    BY DEF CountingScheme
  <2>1. Cardinality(WeakRefs(p)') = Cardinality(WeakRefs(p)) /\ (WeakRefs(p)' = {} <=> WeakRefs(p) = {})
    <3>1. CASE s \in WeakRefs(p) /\ r \notin WeakRefs(p)
      <4>1. WeakRefs(p)' = (WeakRefs(p) \ {s}) \cup {r}
        BY <3>1, SlotAssumption DEF IndInv, TypeOK, SwapWeak, Swap, WeakRefs, Slots,
           Holds
      <4> QED
        BY <3>1, <4>1, HandOver, RefsFinite
    <3>2. CASE r \in WeakRefs(p) /\ s \notin WeakRefs(p)
      <4>1. WeakRefs(p)' = (WeakRefs(p) \ {r}) \cup {s}
        BY <3>2, SlotAssumption DEF IndInv, TypeOK, SwapWeak, Swap, WeakRefs, Slots,
           Holds
      <4> QED
        BY <3>2, <4>1, HandOver, RefsFinite
    <3>3. CASE s \in WeakRefs(p) <=> r \in WeakRefs(p)
      <4>1. WeakRefs(p)' = WeakRefs(p)
        BY <3>3, SlotAssumption DEF IndInv, TypeOK, SwapWeak, Swap, WeakRefs, Slots,
           Holds
      <4> QED
        BY <4>1
    <3> QED
      BY <3>1, <3>2, <3>3
  <2> QED
    BY <1>2, <2>1 DEF IndInv, TypeOK, CountingScheme, CountsOf, SwapWeak, Swap
<1>7. ReleasedInv'
  BY <1>2, SlotAssumption DEF IndInv, TypeOK, ReleasedInv, ReleasedOf, NoUseAfterFree, SwapWeak,
     Swap, Slots, Releasing, Holds, Free, BeingLocked
<1>8. NoLeak'
  BY SlotAssumption DEF IndInv, TypeOK, NoLeak, SwapWeak, Swap, Slots, Releasing,
     Holds, Free, BeingLocked
<1> QED
  BY <1>1, <1>3, <1>4, <1>5, <1>6, <1>7, <1>8 DEF IndInv

\* Dropping the last strong reference makes its slot the only releaser.
LEMMA ResetStrongKeeps ==
  ASSUME IndInv, NEW s \in Strong, NEW o \in Objects,
         ResetStrong(s, o)
  PROVE  IndInv'
<1>0. /\ s \in StrongRefs(o) /\ refcount[o] = Cardinality(StrongRefs(o))
      /\ refcount[o] - 1 \in Nat
      /\ Cardinality(StrongRefs(o) \ {s}) = refcount[o] - 1
      /\ refcount[o] - 1 = 0 <=> StrongRefs(o) \ {s} = {}
  <2>1. s \in StrongRefs(o)
    BY DEF ResetStrong, StrongRefs, Holds
  <2>2. refcount[o] = Cardinality(StrongRefs(o))
    BY DEF IndInv, CountingScheme, CountsOf
  <2> QED
    BY <2>1, <2>2, LoseOne, RefsFinite
<1>1. TypeOK'
  BY <1>0, SlotAssumption DEF IndInv, TypeOK, ResetStrong, Slots, Releasing, Holds,
     Free, BeingLocked
<1>2. \A p \in Objects :
        /\ StrongRefs(p)' = IF p = o THEN StrongRefs(o) \ {s} ELSE StrongRefs(p)
        /\ WeakRefs(p)' = WeakRefs(p)
        /\ Releasers(p)' = IF p = o /\ refcount'[o] = 0 THEN Releasers(o) \cup {s} ELSE Releasers(p)
        /\ Deleters(p)' = Deleters(p)
  BY SlotAssumption DEF IndInv, TypeOK, SlotInv, SoleFinisher, NoUseAfterFree,
     ResetStrong, Slots, Releasing, Holds, Free, BeingLocked, StrongRefs, WeakRefs,
     Releasers, Deleters
<1>3. SlotInv'
  BY SlotAssumption DEF IndInv, TypeOK, SlotInv, ResetStrong, Slots, Releasing,
     Holds, Free, BeingLocked
<1>4. SoleFinisher'
  <2>1. \A t \in Strong : pc[t] \in Releasing => target[t] # o
    BY SlotAssumption DEF IndInv, TypeOK, SoleFinisher, ResetStrong, Slots,
       Releasing, Holds, Free, BeingLocked
  <2>2. \A t \in Slots : pc[t] = "delete" => target[t] # o
    BY SlotAssumption DEF IndInv, TypeOK, SoleFinisher, ResetStrong, Slots,
       Releasing, Holds, Free, BeingLocked
  <2>3. CASE refcount[o] - 1 = 0
    <3>1. \A t \in Strong : t # s => target[t] # o
      BY <1>0, <2>1, <2>2, <2>3, SlotAssumption DEF IndInv, TypeOK, SlotInv,
         StrongRefs, Slots, Releasing, Holds, Free, BeingLocked
    <3> QED
      BY <2>1, <2>2, <2>3, <3>1, SlotAssumption DEF IndInv, TypeOK, SlotInv,
         SoleFinisher, ResetStrong, Slots, Releasing, Holds, Free, BeingLocked
  <2>4. CASE refcount[o] - 1 # 0
    BY <2>1, <2>2, <2>4, SlotAssumption DEF IndInv, TypeOK, SlotInv, SoleFinisher,
       NoUseAfterFree, ResetStrong, Slots, Releasing, Holds, Free, BeingLocked
  <2> QED
    BY <2>3, <2>4
<1>5. NoUseAfterFree'
  BY SlotAssumption DEF IndInv, TypeOK, NoUseAfterFree, ResetStrong, Slots,
     Releasing, Holds, Free, BeingLocked
<1>6. CountingScheme'
  <2> SUFFICES ASSUME NEW p \in Objects
               PROVE  CountsOf(p)'
    BY DEF CountingScheme
  <2>8. CASE p = o
    BY <1>2, <1>0, <2>8, RefsFinite DEF IndInv, TypeOK, CountingScheme, CountsOf,
       ResetStrong
  <2>9. CASE p # o
    BY <1>2, <2>9 DEF IndInv, TypeOK, CountingScheme, CountsOf, ResetStrong
  <2> QED
    BY <2>8, <2>9
<1>7. ReleasedInv'
  <2> SUFFICES ASSUME NEW p \in Objects
               PROVE  ReleasedOf(p)'
    BY DEF ReleasedInv
  <2>1. CASE p # o
    <3>1. \A t \in Strong :
            pc'[t] = "release" /\ target'[t] = p <=> pc[t] = "release" /\ target[t] = p
      BY <2>1, SlotAssumption DEF IndInv, TypeOK, ResetStrong, Holds, Slots
    <3> QED
      BY <1>2, <2>1, <3>1 DEF IndInv, ReleasedInv, ReleasedOf, ResetStrong
  <2>2. CASE p = o /\ refcount[o] - 1 = 0
    <3>1. pc'[s] = "release" /\ target'[s] = o
      BY <2>2, SlotAssumption DEF IndInv, TypeOK, ResetStrong, Holds, Slots
    <3> QED
      BY <1>0, <2>2, <3>1 DEF IndInv, TypeOK, ReleasedInv, ReleasedOf, ResetStrong
  <2>3. CASE p = o /\ refcount[o] - 1 # 0
    BY <1>0, <1>2, <2>3 DEF IndInv, TypeOK, ReleasedInv, ReleasedOf, ResetStrong
  <2> QED
    BY <2>1, <2>2, <2>3
<1>8. NoLeak'
  <2>1. CASE refcount[o] - 1 = 0
    BY <2>1 DEF IndInv, TypeOK, NoLeak, ResetStrong
  <2>2. CASE refcount[o] - 1 # 0
    <3>1. PICK t \in Strong : t # s /\ target[t] = o
      BY <1>0, <2>2 DEF StrongRefs, Holds
    <3> QED
      BY <2>2, <3>1, SlotAssumption DEF IndInv, TypeOK, NoLeak, ResetStrong, Holds,
         Slots
  <2> QED
    BY <2>1, <2>2
<1> QED
  BY <1>1, <1>3, <1>4, <1>5, <1>6, <1>7, <1>8 DEF IndInv

\* release_resources() runs once: its slot is the only releaser.
LEMMA ReleaseResourcesKeeps ==
  ASSUME IndInv, NEW s \in Strong, NEW o \in Objects,
         ReleaseResources(s, o)
  PROVE  IndInv'
<1>1. TypeOK'
  BY SlotAssumption DEF IndInv, TypeOK, ReleaseResources, Slots, Releasing, Holds,
     Free, BeingLocked
<1>2. \A p \in Objects :
        /\ StrongRefs(p)' = StrongRefs(p)
        /\ WeakRefs(p)' = WeakRefs(p)
        /\ Releasers(p)' = Releasers(p)
        /\ Deleters(p)' = Deleters(p)
  BY SlotAssumption DEF IndInv, TypeOK, SlotInv, SoleFinisher, NoUseAfterFree,
     ReleaseResources, Slots, Releasing, Holds, Free, BeingLocked, StrongRefs,
     WeakRefs, Releasers, Deleters
<1>3. SlotInv'
  BY SlotAssumption DEF IndInv, TypeOK, SlotInv, ReleaseResources, Slots, Releasing,
     Holds, Free, BeingLocked
<1>4. SoleFinisher'
  BY SlotAssumption DEF IndInv, TypeOK, SlotInv, SoleFinisher, NoUseAfterFree,
     ReleaseResources, Slots, Releasing, Holds, Free, BeingLocked
<1>5. NoUseAfterFree'
  BY SlotAssumption DEF IndInv, TypeOK, NoUseAfterFree, ReleaseResources, Slots,
     Releasing, Holds, Free, BeingLocked
<1>6. CountingScheme'
  BY <1>2 DEF IndInv, TypeOK, CountingScheme, CountsOf, ReleaseResources
<1>7. ReleasedInv'
  <2>1. StrongRefs(o) = {} /\ mem[o] = "alive"
    BY SlotAssumption DEF IndInv, TypeOK, SoleFinisher, NoUseAfterFree, StrongRefs,
       ReleaseResources, Slots, Releasing, Holds, Free, BeingLocked
  <2>2. \A t \in Strong : target[t] = o => t = s
    BY SlotAssumption DEF IndInv, TypeOK, SoleFinisher, ReleaseResources, Releasing
  <2> SUFFICES ASSUME NEW p \in Objects
               PROVE  ReleasedOf(p)'
    BY DEF ReleasedInv
  <2>3. CASE p = o
    <3>1. released[o] = 0
      BY <2>1 DEF IndInv, ReleasedInv, ReleasedOf, ReleaseResources
    <3>2. ~ \E t \in Strong : pc'[t] = "release" /\ target'[t] = o
      BY <2>2, SlotAssumption DEF IndInv, TypeOK, ReleaseResources, Slots
    <3>3. released'[o] = 1
      BY <3>1 DEF IndInv, TypeOK, ReleaseResources
    <3> QED
      BY <1>2, <2>1, <2>3, <3>2, <3>3 DEF ReleasedOf, ReleaseResources
  <2>4. CASE p # o
    <3>1. \A t \in Strong :
            pc'[t] = "release" /\ target'[t] = p <=> pc[t] = "release" /\ target[t] = p
      BY <2>4, SlotAssumption DEF IndInv, TypeOK, ReleaseResources, Slots
    <3>2. released'[p] = released[p]
      BY <2>4 DEF IndInv, TypeOK, ReleaseResources
    <3> QED
      BY <1>2, <3>1, <3>2 DEF IndInv, ReleasedInv, ReleasedOf, ReleaseResources
  <2> QED
    BY <2>3, <2>4
<1>8. NoLeak'
  BY SlotAssumption DEF IndInv, TypeOK, NoLeak, ReleaseResources, Slots, Releasing,
     Holds, Free, BeingLocked
<1> QED
  BY <1>1, <1>3, <1>4, <1>5, <1>6, <1>7, <1>8 DEF IndInv

\* A releaser that loads weakcount_ = 1 is the only slot left.
LEMMA LoadWeakKeeps ==
  ASSUME IndInv, NEW s \in Strong, NEW o \in Objects,
         LoadWeak(s, o)
  PROVE  IndInv'
<1>0. /\ s \in Releasers(o) /\ Deleters(o) = {} /\ StrongRefs(o) = {}
      /\ weakcount[o] = 1 => WeakRefs(o) = {}
  <2>1. s \in Releasers(o) /\ Deleters(o) = {} /\ mem[o] = "alive"
    BY SlotAssumption DEF IndInv, TypeOK, SoleFinisher, NoUseAfterFree, LoadWeak,
       Releasers, Deleters, Slots, Releasing, Holds, Free, BeingLocked
  <2>2. StrongRefs(o) = {}
    BY SlotAssumption DEF IndInv, TypeOK, SoleFinisher, LoadWeak, StrongRefs, Slots,
       Releasing, Holds, Free, BeingLocked
  <2>3. weakcount[o] = Cardinality(WeakRefs(o)) + 1
    BY <2>1 DEF IndInv, CountingScheme, CountsOf
  <2> QED
    BY <2>1, <2>2, <2>3, RefsFinite
<1>9. weakcount[o] = 1 => \A t \in Slots : t # s => target[t] # o
  BY <1>0, SlotAssumption DEF IndInv, TypeOK, SlotInv, SoleFinisher, WeakRefs,
     LoadWeak, Slots, Releasing, Holds, Free, BeingLocked
<1>1. TypeOK'
  BY SlotAssumption DEF IndInv, TypeOK, LoadWeak, Slots, Releasing, Holds, Free,
     BeingLocked
<1>2. \A p \in Objects :
        /\ StrongRefs(p)' = StrongRefs(p)
        /\ WeakRefs(p)' = WeakRefs(p)
        /\ Releasers(p)' = IF p = o THEN IF weakcount[o] = 1 THEN {} ELSE Releasers(o) ELSE Releasers(p)
        /\ Deleters(p)' = IF p = o THEN IF weakcount[o] = 1 THEN {s} ELSE Deleters(o) ELSE Deleters(p)
  BY <1>9, SlotAssumption DEF IndInv, TypeOK, SlotInv, SoleFinisher, LoadWeak,
     Slots, Releasing, Holds, Free, BeingLocked, StrongRefs, WeakRefs, Releasers,
     Deleters
<1>3. SlotInv'
  BY SlotAssumption DEF IndInv, TypeOK, SlotInv, LoadWeak, Slots, Releasing, Holds,
     Free, BeingLocked
<1>4. SoleFinisher'
  BY <1>9, SlotAssumption DEF IndInv, TypeOK, SlotInv, SoleFinisher, NoUseAfterFree,
     LoadWeak, Slots, Releasing, Holds, Free, BeingLocked
<1>5. NoUseAfterFree'
  BY SlotAssumption DEF IndInv, TypeOK, NoUseAfterFree, LoadWeak, Slots, Releasing,
     Holds, Free, BeingLocked
<1>6. CountingScheme'
  BY <1>0, <1>2 DEF IndInv, TypeOK, CountingScheme, CountsOf, LoadWeak
<1>7. ReleasedInv'
  BY <1>2, SlotAssumption DEF IndInv, TypeOK, ReleasedInv, ReleasedOf, NoUseAfterFree, LoadWeak,
     Slots, Releasing, Holds, Free, BeingLocked
<1>8. NoLeak'
  BY SlotAssumption DEF IndInv, TypeOK, NoLeak, LoadWeak, Slots, Releasing, Holds,
     Free, BeingLocked
<1> QED
  BY <1>1, <1>3, <1>4, <1>5, <1>6, <1>7, <1>8 DEF IndInv

\* The releaser gives back the unit the strong references shared.
LEMMA DecWeakKeeps ==
  ASSUME IndInv, NEW s \in Strong, NEW o \in Objects,
         DecWeak(s, o)
  PROVE  IndInv'
<1>0. /\ weakcount[o] = Cardinality(WeakRefs(o)) + 1
      /\ s \in Releasers(o) /\ StrongRefs(o) = {} /\ Deleters(o) = {}
  <2>1. s \in Releasers(o) /\ Deleters(o) = {} /\ mem[o] = "alive"
    BY SlotAssumption DEF IndInv, TypeOK, SoleFinisher, NoUseAfterFree, DecWeak,
       Releasers, Deleters, Slots, Releasing, Holds, Free, BeingLocked
  <2>2. StrongRefs(o) = {}
    BY SlotAssumption DEF IndInv, TypeOK, SoleFinisher, DecWeak, StrongRefs, Slots,
       Releasing, Holds, Free, BeingLocked
  <2> QED
    BY <2>1, <2>2 DEF IndInv, CountingScheme, CountsOf
<1>9. /\ weakcount[o] - 1 = 0 <=> WeakRefs(o) = {}
      /\ weakcount[o] - 1 = 0 => \A t \in Slots : t # s => target[t] # o
  <2>1. weakcount[o] - 1 = 0 <=> WeakRefs(o) = {}
    BY <1>0, RefsFinite
  <2> QED
    BY <1>0, <2>1, SlotAssumption DEF IndInv, TypeOK, SlotInv, SoleFinisher,
       WeakRefs, DecWeak, Slots, Releasing, Holds, Free, BeingLocked
<1>1. TypeOK'
  BY <1>0, RefsFinite, SlotAssumption DEF IndInv, TypeOK, DecWeak, DropWeak, Slots,
     Releasing, Holds, Free, BeingLocked
<1>2. \A p \in Objects :
        /\ StrongRefs(p)' = StrongRefs(p)
        /\ WeakRefs(p)' = WeakRefs(p)
        /\ Releasers(p)' = IF p = o THEN {} ELSE Releasers(p)
        /\ Deleters(p)' = IF p = o THEN IF weakcount'[o] = 0 THEN {s} ELSE Deleters(o) ELSE Deleters(p)
  <2> TAKE p \in Objects
  <2>1. StrongRefs(p)' = StrongRefs(p) /\ WeakRefs(p)' = WeakRefs(p)
    BY SlotAssumption DEF IndInv, TypeOK, SlotInv, DecWeak, DropWeak, StrongRefs,
       WeakRefs, Slots, Releasing, Holds, Free, BeingLocked
  <2>2. Releasers(p)' = IF p = o THEN {} ELSE Releasers(p)
    BY SlotAssumption DEF IndInv, TypeOK, SoleFinisher, DecWeak, DropWeak,
       Releasers, Slots, Releasing, Holds, Free, BeingLocked
  <2>3. Deleters(p)' = IF p = o THEN IF weakcount'[o] = 0 THEN {s} ELSE Deleters(o) ELSE Deleters(p)
    BY <1>0, SlotAssumption DEF IndInv, TypeOK, SoleFinisher, DecWeak, DropWeak,
       Deleters, Slots, Releasing, Holds, Free, BeingLocked
  <2> QED
    BY <2>1, <2>2, <2>3
<1>3. SlotInv'
  BY SlotAssumption DEF IndInv, TypeOK, SlotInv, DecWeak, DropWeak, Slots,
     Releasing, Holds, Free, BeingLocked
<1>4. SoleFinisher'
  BY <1>9, SlotAssumption DEF IndInv, TypeOK, SlotInv, SoleFinisher, NoUseAfterFree,
     DecWeak, DropWeak, Slots, Releasing, Holds, Free, BeingLocked
<1>5. NoUseAfterFree'
  BY SlotAssumption DEF IndInv, TypeOK, NoUseAfterFree, DecWeak, DropWeak, Slots,
     Releasing, Holds, Free, BeingLocked
<1>6. CountingScheme'
  <2> SUFFICES ASSUME NEW p \in Objects
               PROVE  CountsOf(p)'
    BY DEF CountingScheme
  <2>8. CASE p = o
    BY <1>2, <1>0, <2>8, RefsFinite DEF IndInv, TypeOK, CountingScheme, CountsOf,
       DecWeak, DropWeak
  <2>9. CASE p # o
    BY <1>2, <2>9 DEF IndInv, TypeOK, CountingScheme, CountsOf, DecWeak, DropWeak
  <2> QED
    BY <2>8, <2>9
<1>7. ReleasedInv'
  BY <1>2, SlotAssumption DEF IndInv, TypeOK, ReleasedInv, ReleasedOf, NoUseAfterFree, DecWeak,
     DropWeak, Slots, Releasing, Holds, Free, BeingLocked
<1>8. NoLeak'
  <2>1. CASE weakcount[o] - 1 = 0
    BY <2>1 DEF IndInv, TypeOK, NoLeak, DecWeak, DropWeak
  <2>2. CASE weakcount[o] - 1 # 0
    <3>1. PICK t \in Weak : target[t] = o
      BY <1>9, <2>2 DEF WeakRefs, Holds
    <3> QED
      BY <2>2, <3>1, SlotAssumption DEF IndInv, TypeOK, NoLeak, DecWeak, DropWeak,
         Slots
  <2> QED
    BY <2>1, <2>2
<1> QED
  BY <1>1, <1>3, <1>4, <1>5, <1>6, <1>7, <1>8 DEF IndInv

\* The slot that deletes a target is the only one that refers to it.
LEMMA DeleteKeeps ==
  ASSUME IndInv, NEW s \in Slots, NEW o \in Objects,
         Delete(s, o)
  PROVE  IndInv'
<1>0. mem[o] = "alive" /\ \A t \in Slots : t # s => target[t] # o
  BY SlotAssumption DEF IndInv, TypeOK, SoleFinisher, NoUseAfterFree, Delete, Slots,
     Releasing, Holds, Free, BeingLocked
<1>1. TypeOK'
  BY SlotAssumption DEF IndInv, TypeOK, Delete, Slots, Releasing, Holds, Free,
     BeingLocked
<1>2. \A p \in Objects :
        /\ StrongRefs(p)' = StrongRefs(p)
        /\ WeakRefs(p)' = WeakRefs(p)
        /\ Releasers(p)' = Releasers(p)
        /\ Deleters(p)' = IF p = o THEN {} ELSE Deleters(p)
  BY SlotAssumption DEF IndInv, TypeOK, SlotInv, SoleFinisher, NoUseAfterFree,
     Delete, Slots, Releasing, Holds, Free, BeingLocked, StrongRefs, WeakRefs,
     Releasers, Deleters
<1>3. SlotInv'
  BY SlotAssumption DEF IndInv, TypeOK, SlotInv, Delete, Slots, Releasing, Holds,
     Free, BeingLocked
<1>4. SoleFinisher'
  BY SlotAssumption DEF IndInv, TypeOK, SlotInv, SoleFinisher, NoUseAfterFree,
     Delete, Slots, Releasing, Holds, Free, BeingLocked
<1>5. NoUseAfterFree'
  BY <1>0, SlotAssumption DEF IndInv, TypeOK, NoUseAfterFree, Delete, Slots,
     Releasing, Holds, Free, BeingLocked
<1>6. CountingScheme'
  <2> SUFFICES ASSUME NEW p \in Objects
               PROVE  CountsOf(p)'
    BY DEF CountingScheme
  <2>1. CASE p = o
    BY <1>2, <2>1 DEF IndInv, TypeOK, CountingScheme, CountsOf, Delete
  <2>2. CASE p # o
    BY <1>2, <2>2 DEF IndInv, TypeOK, CountingScheme, CountsOf, Delete
  <2> QED
    BY <2>1, <2>2
<1>7. ReleasedInv'
  <2> SUFFICES ASSUME NEW p \in Objects
               PROVE  ReleasedOf(p)'
    BY DEF ReleasedInv
  <2>1. \A t \in Strong :
          pc'[t] = "release" /\ target'[t] = p <=> pc[t] = "release" /\ target[t] = p
    BY SlotAssumption DEF IndInv, TypeOK, Delete, Slots
  <2>2. mem'[p] = "none" <=> mem[p] = "none"
    BY <1>0 DEF IndInv, TypeOK, Delete
  <2> QED
    BY <1>2, <2>1, <2>2 DEF IndInv, ReleasedInv, ReleasedOf, Delete
<1>8. NoLeak'
  BY SlotAssumption DEF IndInv, TypeOK, NoLeak, Delete, Slots, Releasing, Holds,
     Free, BeingLocked
<1> QED
  BY <1>1, <1>3, <1>4, <1>5, <1>6, <1>7, <1>8 DEF IndInv

\* A weak copy adds one weak reference; slot r keeps the target from deletion.
LEMMA RetainWeakKeeps ==
  ASSUME IndInv, NEW w \in Weak, NEW r \in Slots, NEW o \in Objects,
         RetainWeak(w, r, o)
  PROVE  IndInv'
<1>0. /\ w \notin WeakRefs(o)
      /\ Cardinality(WeakRefs(o) \cup {w}) = Cardinality(WeakRefs(o)) + 1
      /\ Deleters(o) = {} /\ mem[o] = "alive"
  <2>1. w \notin WeakRefs(o)
    BY SlotAssumption DEF RetainWeak, WeakRefs, Free, Holds
  <2>2. Deleters(o) = {} /\ mem[o] = "alive"
    BY SlotAssumption DEF IndInv, TypeOK, SoleFinisher, NoUseAfterFree, RetainWeak,
       Deleters, Slots, Releasing, Holds, Free, BeingLocked
  <2> QED
    BY <2>1, <2>2, GainOne, RefsFinite
<1>1. TypeOK'
  BY SlotAssumption DEF IndInv, TypeOK, RetainWeak, Slots, Releasing, Holds, Free,
     BeingLocked
<1>2. \A p \in Objects :
        /\ StrongRefs(p)' = StrongRefs(p)
        /\ WeakRefs(p)' = IF p = o THEN WeakRefs(o) \cup {w} ELSE WeakRefs(p)
        /\ Releasers(p)' = Releasers(p)
        /\ Deleters(p)' = Deleters(p)
  BY SlotAssumption DEF IndInv, TypeOK, SlotInv, SoleFinisher, NoUseAfterFree,
     RetainWeak, Slots, Releasing, Holds, Free, BeingLocked, StrongRefs, WeakRefs,
     Releasers, Deleters
<1>3. SlotInv'
  BY SlotAssumption DEF IndInv, TypeOK, SlotInv, RetainWeak, Slots, Releasing,
     Holds, Free, BeingLocked
<1>4. SoleFinisher'
  BY SlotAssumption DEF IndInv, TypeOK, SlotInv, SoleFinisher, NoUseAfterFree,
     RetainWeak, Slots, Releasing, Holds, Free, BeingLocked
<1>5. NoUseAfterFree'
  BY SlotAssumption DEF IndInv, TypeOK, NoUseAfterFree, RetainWeak, Slots,
     Releasing, Holds, Free, BeingLocked
<1>6. CountingScheme'
  <2> SUFFICES ASSUME NEW p \in Objects
               PROVE  CountsOf(p)'
    BY DEF CountingScheme
  <2> DEFINE n == Cardinality(WeakRefs(o))
             unit == IF StrongRefs(o) # {} \/ Releasers(o) # {} THEN 1 ELSE 0
  <2>1. CASE p = o
    <3>1. refcount[o] = Cardinality(StrongRefs(o)) /\ weakcount[o] = n + unit
      BY <1>0 DEF IndInv, CountingScheme, CountsOf
    <3>2. refcount'[o] = refcount[o] /\ weakcount'[o] = weakcount[o] + 1
      BY DEF IndInv, TypeOK, RetainWeak
    <3>3. /\ StrongRefs(o)' = StrongRefs(o) /\ Releasers(o)' = Releasers(o)
          /\ WeakRefs(o)' = WeakRefs(o) \cup {w}
      BY <1>2
    <3>4. n \in Nat /\ unit \in Nat
      BY RefsFinite
    <3>5. weakcount'[o] = (n + 1) + unit
      BY <3>1, <3>2, <3>4
    <3>6. Cardinality(WeakRefs(o))' = n + 1
      BY <1>0, <3>3
    <3>7. (IF StrongRefs(o)' # {} \/ Releasers(o)' # {} THEN 1 ELSE 0) = unit
      BY <3>3
    <3> HIDE DEF n, unit
    <3> QED
      BY <2>1, <3>1, <3>2, <3>3, <3>5, <3>6, <3>7 DEF CountsOf
  <2>2. CASE p # o
    BY <1>2, <2>2 DEF IndInv, TypeOK, CountingScheme, CountsOf, RetainWeak
  <2> QED
    BY <2>1, <2>2
<1>7. ReleasedInv'
  BY <1>2, SlotAssumption DEF IndInv, TypeOK, ReleasedInv, ReleasedOf, NoUseAfterFree,
     RetainWeak, Slots, Releasing, Holds, Free, BeingLocked
<1>8. NoLeak'
  BY SlotAssumption DEF IndInv, TypeOK, NoLeak, RetainWeak, Slots, Releasing, Holds,
     Free, BeingLocked
<1> QED
  BY <1>1, <1>3, <1>4, <1>5, <1>6, <1>7, <1>8 DEF IndInv

\* Dropping the last unit of weakcount_ makes the weak slot the deleter.
LEMMA ResetWeakKeeps ==
  ASSUME IndInv, NEW w \in Weak, NEW o \in Objects,
         ResetWeak(w, o)
  PROVE  IndInv'
<1>0. /\ w \in WeakRefs(o) /\ mem[o] = "alive" /\ Deleters(o) = {}
      /\ weakcount[o] = Cardinality(WeakRefs(o))
                        + IF StrongRefs(o) # {} \/ Releasers(o) # {} THEN 1 ELSE 0
      /\ Cardinality(WeakRefs(o) \ {w}) = Cardinality(WeakRefs(o)) - 1
      /\ Cardinality(WeakRefs(o)) - 1 \in Nat
      /\ Cardinality(WeakRefs(o)) - 1 = 0 <=> WeakRefs(o) \ {w} = {}
  <2>1. w \in WeakRefs(o) /\ mem[o] = "alive"
    BY SlotAssumption DEF IndInv, TypeOK, NoUseAfterFree, ResetWeak, WeakRefs,
       Slots, Releasing, Holds, Free, BeingLocked
  <2>2. Deleters(o) = {}
    BY SlotAssumption DEF IndInv, TypeOK, SoleFinisher, ResetWeak, Deleters, Slots,
       Releasing, Holds, Free, BeingLocked
  <2>3. weakcount[o] = Cardinality(WeakRefs(o))
                        + IF StrongRefs(o) # {} \/ Releasers(o) # {} THEN 1 ELSE 0
    BY <2>1, <2>2 DEF IndInv, CountingScheme, CountsOf
  <2> QED
    BY <2>1, <2>2, <2>3, LoseOne, RefsFinite
<1>9. /\ weakcount[o] - 1 \in Nat
      /\ weakcount[o] - 1 = 0 <=>
           StrongRefs(o) = {} /\ Releasers(o) = {} /\ WeakRefs(o) \ {w} = {}
      /\ weakcount[o] - 1 = 0 => \A t \in Slots : t # w => target[t] # o
  <2>1. weakcount[o] - 1 \in Nat
    <3>1. CASE StrongRefs(o) # {} \/ Releasers(o) # {}
      BY <1>0, <3>1, RefsFinite
    <3>2. CASE StrongRefs(o) = {} /\ Releasers(o) = {}
      BY <1>0, <3>2, RefsFinite
    <3> QED
      BY <3>1, <3>2
  <2>2. weakcount[o] - 1 = 0 <=>
           StrongRefs(o) = {} /\ Releasers(o) = {} /\ WeakRefs(o) \ {w} = {}
    <3>1. CASE StrongRefs(o) # {} \/ Releasers(o) # {}
      BY <1>0, <3>1, RefsFinite
    <3>2. CASE StrongRefs(o) = {} /\ Releasers(o) = {}
      BY <1>0, <3>2, RefsFinite
    <3> QED
      BY <3>1, <3>2
  <2>3. ASSUME weakcount[o] - 1 = 0, NEW t \in Slots, t # w
        PROVE  target[t] # o
    <3>1. CASE t \in Strong
      BY <1>0, <2>2, <2>3, <3>1, SlotAssumption DEF IndInv, TypeOK, SlotInv,
         StrongRefs, Releasers, Deleters, Slots, Releasing, Holds, Free, BeingLocked
    <3>2. CASE t \in Weak
      BY <1>0, <2>2, <2>3, <3>2, SlotAssumption DEF IndInv, TypeOK, SlotInv,
         WeakRefs, Deleters, Slots, Releasing, Holds, Free, BeingLocked
    <3> QED
      BY <3>1, <3>2 DEF Slots
  <2> QED
    BY <2>1, <2>2, <2>3
<1>1. TypeOK'
  BY <1>9, SlotAssumption DEF IndInv, TypeOK, ResetWeak, DropWeak, Slots, Releasing,
     Holds, Free, BeingLocked
<1>2. \A p \in Objects :
        /\ StrongRefs(p)' = StrongRefs(p)
        /\ WeakRefs(p)' = IF p = o THEN WeakRefs(o) \ {w} ELSE WeakRefs(p)
        /\ Releasers(p)' = Releasers(p)
        /\ Deleters(p)' = IF p = o THEN IF weakcount'[o] = 0 THEN {w} ELSE Deleters(o) ELSE Deleters(p)
  <2> TAKE p \in Objects
  <2>1. StrongRefs(p)' = StrongRefs(p)
    BY SlotAssumption DEF IndInv, TypeOK, SlotInv, ResetWeak, DropWeak, StrongRefs,
       Slots, Releasing, Holds, Free, BeingLocked
  <2>2. Releasers(p)' = Releasers(p)
    BY SlotAssumption DEF IndInv, TypeOK, ResetWeak, DropWeak, Releasers, Slots,
       Releasing, Holds, Free, BeingLocked
  <2>3. WeakRefs(p)' = IF p = o THEN WeakRefs(o) \ {w} ELSE WeakRefs(p)
    BY SlotAssumption DEF IndInv, TypeOK, ResetWeak, DropWeak, WeakRefs, Slots,
       Releasing, Holds, Free, BeingLocked
  <2>4. Deleters(p)' = IF p = o THEN IF weakcount'[o] = 0 THEN {w} ELSE Deleters(o) ELSE Deleters(p)
    BY <1>0, SlotAssumption DEF IndInv, TypeOK, ResetWeak, DropWeak, Deleters,
       Slots, Releasing, Holds, Free, BeingLocked
  <2> QED
    BY <2>1, <2>2, <2>3, <2>4
<1>3. SlotInv'
  BY SlotAssumption DEF IndInv, TypeOK, SlotInv, ResetWeak, DropWeak, Slots,
     Releasing, Holds, Free, BeingLocked
<1>4. SoleFinisher'
  BY <1>0, <1>9, SlotAssumption DEF IndInv, TypeOK, SlotInv, SoleFinisher,
     NoUseAfterFree, ResetWeak, DropWeak, Deleters, Slots, Releasing, Holds, Free,
     BeingLocked
<1>5. NoUseAfterFree'
  BY SlotAssumption DEF IndInv, TypeOK, NoUseAfterFree, ResetWeak, DropWeak, Slots,
     Releasing, Holds, Free, BeingLocked
<1>6. CountingScheme'
  <2> SUFFICES ASSUME NEW p \in Objects
               PROVE  CountsOf(p)'
    BY DEF CountingScheme
  <2> DEFINE n == Cardinality(WeakRefs(o))
             unit == IF StrongRefs(o) # {} \/ Releasers(o) # {} THEN 1 ELSE 0
  <2>1. CASE p = o
    <3>1. refcount[o] = Cardinality(StrongRefs(o)) /\ weakcount[o] = n + unit
      BY <1>0 DEF IndInv, CountingScheme, CountsOf
    <3>2. refcount'[o] = refcount[o] /\ weakcount'[o] = weakcount[o] - 1
      BY DEF IndInv, TypeOK, ResetWeak, DropWeak
    <3>3. /\ StrongRefs(o)' = StrongRefs(o) /\ Releasers(o)' = Releasers(o)
          /\ WeakRefs(o)' = WeakRefs(o) \ {w}
      BY <1>2
    <3>4. n \in Nat /\ unit \in Nat
      BY RefsFinite
    <3>5. weakcount'[o] = (n - 1) + unit
      BY <3>1, <3>2, <3>4
    <3>6. Cardinality(WeakRefs(o))' = n - 1
      BY <1>0, <3>3
    <3>7. (IF StrongRefs(o)' # {} \/ Releasers(o)' # {} THEN 1 ELSE 0) = unit
      BY <3>3
    <3> HIDE DEF n, unit
    <3> QED
      BY <2>1, <3>1, <3>2, <3>3, <3>5, <3>6, <3>7 DEF CountsOf
  <2>2. CASE p # o
    BY <1>2, <2>2 DEF IndInv, TypeOK, CountingScheme, CountsOf, ResetWeak, DropWeak
  <2> QED
    BY <2>1, <2>2
<1>7. ReleasedInv'
  BY <1>2, SlotAssumption DEF IndInv, TypeOK, ReleasedInv, ReleasedOf, NoUseAfterFree,
     ResetWeak, DropWeak, Slots, Releasing, Holds, Free, BeingLocked
<1>8. NoLeak'
  <2>1. CASE weakcount[o] - 1 = 0
    BY <2>1, SlotAssumption DEF IndInv, TypeOK, NoLeak, ResetWeak, DropWeak, Holds,
       Slots
  <2>2. CASE weakcount[o] - 1 # 0
    <3>1. PICK t \in Slots : t # w /\ target[t] = o
      BY <1>9, <2>2, SlotAssumption DEF StrongRefs, Releasers, WeakRefs, Holds,
         Slots
    <3> QED
      BY <2>2, <3>1, SlotAssumption DEF IndInv, TypeOK, NoLeak, ResetWeak, DropWeak,
         Holds, Slots
  <2> QED
    BY <2>1, <2>2
<1> QED
  BY <1>1, <1>3, <1>4, <1>5, <1>6, <1>7, <1>8 DEF IndInv

\* Starting a lock() changes no reference.
LEMMA LockBeginKeeps ==
  ASSUME IndInv, NEW s \in Strong, NEW w \in Weak, NEW o \in Objects,
         LockBegin(s, w, o)
  PROVE  IndInv'
<1>1. TypeOK'
  BY SlotAssumption DEF IndInv, TypeOK, LockBegin, Slots, Releasing, Holds, Free,
     BeingLocked
<1>2. \A p \in Objects :
        /\ StrongRefs(p)' = StrongRefs(p)
        /\ WeakRefs(p)' = WeakRefs(p)
        /\ Releasers(p)' = Releasers(p)
        /\ Deleters(p)' = Deleters(p)
  BY SlotAssumption DEF IndInv, TypeOK, SlotInv, SoleFinisher, NoUseAfterFree,
     LockBegin, Slots, Releasing, Holds, Free, BeingLocked, StrongRefs, WeakRefs,
     Releasers, Deleters
<1>3. SlotInv'
  BY SlotAssumption DEF IndInv, TypeOK, SlotInv, LockBegin, Slots, Releasing, Holds,
     Free, BeingLocked
<1>4. SoleFinisher'
  BY SlotAssumption DEF IndInv, TypeOK, SlotInv, SoleFinisher, NoUseAfterFree,
     LockBegin, Slots, Releasing, Holds, Free, BeingLocked
<1>5. NoUseAfterFree'
  BY SlotAssumption DEF IndInv, TypeOK, NoUseAfterFree, LockBegin, Slots, Releasing,
     Holds, Free, BeingLocked
<1>6. CountingScheme'
  BY <1>2 DEF IndInv, TypeOK, CountingScheme, CountsOf, LockBegin
<1>7. ReleasedInv'
  BY <1>2, SlotAssumption DEF IndInv, TypeOK, ReleasedInv, ReleasedOf, NoUseAfterFree,
     LockBegin, Slots, Releasing, Holds, Free, BeingLocked
<1>8. NoLeak'
  BY SlotAssumption DEF IndInv, TypeOK, NoLeak, LockBegin, Slots, Releasing, Holds,
     Free, BeingLocked
<1> QED
  BY <1>1, <1>3, <1>4, <1>5, <1>6, <1>7, <1>8 DEF IndInv

\* Loading refcount_, first or after a failed exchange, changes no reference.
LEMMA LockSawKeeps ==
  ASSUME IndInv, NEW s \in Strong, NEW o \in Objects,
         LockLoad(s, o) \/ LockRetry(s, o)
  PROVE  IndInv'
<1>1. TypeOK'
  BY SlotAssumption DEF IndInv, TypeOK, LockSaw, LockLoad, LockRetry, Slots,
     Releasing, Holds, Free, BeingLocked
<1>2. \A p \in Objects :
        /\ StrongRefs(p)' = StrongRefs(p)
        /\ WeakRefs(p)' = WeakRefs(p)
        /\ Releasers(p)' = Releasers(p)
        /\ Deleters(p)' = Deleters(p)
  BY SlotAssumption DEF IndInv, TypeOK, SlotInv, SoleFinisher, NoUseAfterFree,
     LockSaw, LockLoad, LockRetry, Slots, Releasing, Holds, Free, BeingLocked,
     StrongRefs, WeakRefs, Releasers, Deleters
<1>3. SlotInv'
  BY SlotAssumption DEF IndInv, TypeOK, SlotInv, LockSaw, LockLoad, LockRetry,
     Slots, Releasing, Holds, Free, BeingLocked
<1>4. SoleFinisher'
  BY SlotAssumption DEF IndInv, TypeOK, SlotInv, SoleFinisher, NoUseAfterFree,
     LockSaw, LockLoad, LockRetry, Slots, Releasing, Holds, Free, BeingLocked
<1>5. NoUseAfterFree'
  BY SlotAssumption DEF IndInv, TypeOK, NoUseAfterFree, LockSaw, LockLoad,
     LockRetry, Slots, Releasing, Holds, Free, BeingLocked
<1>6. CountingScheme'
  BY <1>2 DEF IndInv, TypeOK, CountingScheme, CountsOf, LockSaw, LockLoad, LockRetry
<1>7. ReleasedInv'
  BY <1>2, SlotAssumption DEF IndInv, TypeOK, ReleasedInv, ReleasedOf, NoUseAfterFree, LockSaw,
     LockLoad, LockRetry, Slots, Releasing, Holds, Free, BeingLocked
<1>8. NoLeak'
  BY SlotAssumption DEF IndInv, TypeOK, NoLeak, LockSaw, LockLoad, LockRetry, Slots,
     Releasing, Holds, Free, BeingLocked
<1> QED
  BY <1>1, <1>3, <1>4, <1>5, <1>6, <1>7, <1>8 DEF IndInv

\* A successful exchange adds a strong reference to a target that has one.
LEMMA LockExchangeKeeps ==
  ASSUME IndInv, NEW s \in Strong, NEW o \in Objects,
         LockExchange(s, o)
  PROVE  IndInv'
<1>0. /\ s \notin StrongRefs(o) /\ StrongRefs(o) # {}
      /\ Cardinality(StrongRefs(o) \cup {s}) = Cardinality(StrongRefs(o)) + 1
      /\ refcount[o] = Cardinality(StrongRefs(o)) /\ expected[s] = refcount[o]
  <2>1. s \notin StrongRefs(o)
    BY SlotAssumption DEF LockExchange, StrongRefs, Holds
  <2>2. refcount[o] = Cardinality(StrongRefs(o)) /\ expected[s] = refcount[o]
    BY DEF IndInv, CountingScheme, CountsOf, LockExchange
  <2>3. expected[s] > 0
    BY DEF IndInv, SlotInv, LockExchange
  <2> QED
    BY <2>1, <2>2, <2>3, GainOne, RefsFinite
<1>9. /\ \A t \in Slots : pc[t] = "delete" => target[t] # o
      /\ \A t \in Strong : pc[t] \in Releasing => target[t] # o
      /\ mem[o] = "alive" /\ target[s] = NULL
  BY <1>0, SlotAssumption DEF IndInv, TypeOK, SlotInv, SoleFinisher, NoUseAfterFree,
     LockExchange, StrongRefs, Slots, Releasing, Holds, Free, BeingLocked
<1>1. TypeOK'
  BY SlotAssumption DEF IndInv, TypeOK, LockExchange, Slots, Releasing, Holds, Free,
     BeingLocked
<1>2. \A p \in Objects :
        /\ StrongRefs(p)' = IF p = o THEN StrongRefs(o) \cup {s} ELSE StrongRefs(p)
        /\ WeakRefs(p)' = WeakRefs(p)
        /\ Releasers(p)' = Releasers(p)
        /\ Deleters(p)' = Deleters(p)
  BY SlotAssumption DEF IndInv, TypeOK, SlotInv, SoleFinisher, NoUseAfterFree,
     LockExchange, Slots, Releasing, Holds, Free, BeingLocked, StrongRefs, WeakRefs,
     Releasers, Deleters
<1>3. SlotInv'
  BY SlotAssumption DEF IndInv, TypeOK, SlotInv, LockExchange, Slots, Releasing,
     Holds, Free, BeingLocked
<1>4. SoleFinisher'
  BY <1>9, SlotAssumption DEF IndInv, TypeOK, SlotInv, SoleFinisher, NoUseAfterFree,
     LockExchange, Slots, Releasing, Holds, Free, BeingLocked
<1>5. NoUseAfterFree'
  BY <1>9, SlotAssumption DEF IndInv, TypeOK, NoUseAfterFree, LockExchange, Slots,
     Releasing, Holds, Free, BeingLocked
<1>6. CountingScheme'
  <2> SUFFICES ASSUME NEW p \in Objects
               PROVE  CountsOf(p)'
    BY DEF CountingScheme
  <2>8. CASE p = o
    BY <1>2, <1>0, <2>8, RefsFinite DEF IndInv, TypeOK, CountingScheme, CountsOf,
       LockExchange
  <2>9. CASE p # o
    BY <1>2, <2>9 DEF IndInv, TypeOK, CountingScheme, CountsOf, LockExchange
  <2> QED
    BY <2>8, <2>9
<1>7. ReleasedInv'
  <2>1. \A p \in Objects : StrongRefs(p)' # {} <=> StrongRefs(p) # {}
    BY <1>0, <1>2
  <2>2. \A p \in Objects, t \in Strong :
          pc'[t] = "release" /\ target'[t] = p <=> pc[t] = "release" /\ target[t] = p
    BY SlotAssumption DEF IndInv, TypeOK, LockExchange, Slots
  <2> QED
    BY <2>1, <2>2 DEF IndInv, TypeOK, ReleasedInv, ReleasedOf, LockExchange
<1>8. NoLeak'
  BY <1>9, SlotAssumption DEF IndInv, TypeOK, NoLeak, LockExchange, Slots,
     Releasing, Holds, Free, BeingLocked
<1> QED
  BY <1>1, <1>3, <1>4, <1>5, <1>6, <1>7, <1>8 DEF IndInv

\* Every step of the specification keeps the inductive invariant.
LEMMA StepKeeps ==
  ASSUME IndInv, [Next]_vars
  PROVE  IndInv'
<1>1. CASE \E s \in Strong, o \in Objects : StrongNext(s, o)
  BY <1>1, MakeKeeps, RetainKeeps, ResetStrongKeeps, LockBeginKeeps, LockSawKeeps,
     LockExchangeKeeps DEF StrongNext
<1>2. CASE \E w \in Weak, o \in Objects : WeakNext(w, o)
  BY <1>2, RetainWeakKeeps, ResetWeakKeeps DEF WeakNext
<1>3. CASE \E s, r \in Strong : Swap(s, r)
  BY <1>3, SwapKeeps
<1>4. CASE \E w, v \in Weak : SwapWeak(w, v)
  BY <1>4, SwapWeakKeeps
<1>5. CASE \E s \in Slots : Finish(s)
  <2>1. PICK s \in Slots, o \in Objects :
          ReleaseResources(s, o) \/ LoadWeak(s, o) \/ DecWeak(s, o) \/ Delete(s, o)
    BY <1>5 DEF Finish
  <2>2. pc[s] \in Releasing => s \in Strong
    BY DEF IndInv, SlotInv, Slots, Releasing
  <2> QED
    BY <2>1, <2>2, ReleaseResourcesKeeps, LoadWeakKeeps, DecWeakKeeps, DeleteKeeps
       DEF ReleaseResources, LoadWeak, DecWeak, Releasing
<1>6. CASE UNCHANGED vars
  <2>1. /\ mem' = mem /\ refcount' = refcount /\ weakcount' = weakcount
        /\ released' = released /\ target' = target /\ pc' = pc
        /\ lockSrc' = lockSrc /\ expected' = expected
    BY <1>6 DEF vars
  <2>2. TypeOK' /\ SlotInv' /\ SoleFinisher' /\ NoUseAfterFree' /\ NoLeak'
    BY <2>1 DEF IndInv, TypeOK, SlotInv, SoleFinisher, NoUseAfterFree, NoLeak
  <2>3. \A o : /\ StrongRefs(o)' = StrongRefs(o) /\ WeakRefs(o)' = WeakRefs(o)
               /\ Releasers(o)' = Releasers(o) /\ Deleters(o)' = Deleters(o)
    BY <2>1 DEF StrongRefs, WeakRefs, Releasers, Deleters, Holds
  <2>4. CountingScheme'
    BY <2>1, <2>3 DEF IndInv, CountingScheme, CountsOf
  <2>5. ReleasedInv'
    BY <2>1, <2>3 DEF IndInv, ReleasedInv, ReleasedOf
  <2> QED
    BY <2>2, <2>4, <2>5 DEF IndInv
<1> QED
  BY <1>1, <1>2, <1>3, <1>4, <1>5, <1>6 DEF Next

\* The initial state satisfies the inductive invariant.
LEMMA InitHolds ==
  ASSUME Init
  PROVE  IndInv
<1>1. TypeOK
  BY SlotAssumption DEF Init, TypeOK, Slots, Releasing
<1>2. SlotInv /\ SoleFinisher /\ NoUseAfterFree /\ NoLeak /\ ReleasedInv
  BY SlotAssumption DEF Init, SlotInv, SoleFinisher, NoUseAfterFree, NoLeak,
     ReleasedInv, ReleasedOf,
     Slots, Releasing
<1>3. CountingScheme
  <2>1. \A o \in Objects : StrongRefs(o) = {}
    BY SlotAssumption DEF Init, StrongRefs, Holds, Slots
  <2> QED
    BY <2>1, FS_EmptySet DEF Init, CountingScheme, CountsOf
<1> QED
  BY <1>1, <1>2, <1>3 DEF IndInv

\* The counting scheme is an invariant for any objects and slots: IndInv, and
\* with it TypeOK, CountingScheme and NoLeak, holds in every reachable state.
THEOREM Counting == Spec => []IndInv
<1>1. Init => IndInv
  BY InitHolds
<1>2. IndInv /\ [Next]_vars => IndInv'
  BY StepKeeps
<1> QED
  BY <1>1, <1>2, PTL DEF Spec

\* No slot of c10::intrusive_ptr or weak_intrusive_ptr ever refers to deleted
\* memory, however reset_(), copies, moves and lock() interleave.
THEOREM UseAfterFreeFree == Spec => []NoUseAfterFree
<1>1. IndInv => NoUseAfterFree
  BY DEF IndInv
<1> QED
  BY <1>1, Counting, PTL

\* release_resources() runs exactly once, after the last strong reference is
\* gone and before the target is deleted.
THEOREM ReleasedExactlyOnce == Spec => []ResourcesReleasedOnce
<1>1. IndInv => ResourcesReleasedOnce
  <2> SUFFICES ASSUME IndInv, NEW o \in Objects
               PROVE  /\ StrongRefs(o) # {} => released[o] = 0
                      /\ released[o] \leq 1
                      /\ mem[o] = "deleted" \/ Deleters(o) # {} => released[o] = 1
    BY DEF ResourcesReleasedOnce
  <2>1. StrongRefs(o) # {} => released[o] = 0
    BY DEF IndInv, ReleasedInv, ReleasedOf
  <2>2. released[o] \leq 1
    BY DEF IndInv, ReleasedInv, ReleasedOf
  <2>3. ASSUME mem[o] = "deleted" PROVE released[o] = 1
    <3>1. \A s \in Slots : target[s] # o
      BY <2>3, SlotAssumption DEF IndInv, NoUseAfterFree
    <3> QED
      BY <2>3, <3>1 DEF IndInv, ReleasedInv, ReleasedOf, StrongRefs, Holds, Slots
  <2>4. ASSUME NEW d \in Deleters(o) PROVE released[o] = 1
    <3>1. mem[o] = "alive" /\ \A s \in Slots : target[s] = o => s = d
      BY SlotAssumption DEF IndInv, NoUseAfterFree, SoleFinisher, Deleters
    <3>2. pc[d] = "delete"
      BY DEF Deleters
    <3> QED
      BY <3>1, <3>2 DEF IndInv, ReleasedInv, ReleasedOf, StrongRefs, Holds, Slots
  <2> QED
    BY <2>1, <2>2, <2>3, <2>4
<1> QED
  BY <1>1, Counting, PTL

\* The assertions of ~intrusive_ptr_target hold whenever delete runs, and one
\* slot alone runs it.
THEOREM DestructorSafe == Spec => []DestructorAssertions
<1>1. IndInv => DestructorAssertions
  <2> SUFFICES ASSUME IndInv, NEW o \in Objects, NEW s \in Deleters(o)
               PROVE  /\ refcount[o] = 0 /\ weakcount[o] \in {0, 1}
                      /\ StrongRefs(o) = {} /\ WeakRefs(o) = {}
                      /\ Deleters(o) = {s}
    BY DEF DestructorAssertions
  <2>1. \A t \in Slots : target[t] = o => t = s
    BY SlotAssumption DEF IndInv, SoleFinisher, Deleters
  <2>2. StrongRefs(o) = {} /\ WeakRefs(o) = {} /\ Deleters(o) = {s}
    BY <2>1 DEF StrongRefs, WeakRefs, Deleters, Holds, Slots
  <2>3. refcount[o] = 0
    BY <2>2, RefsFinite DEF IndInv, CountingScheme, CountsOf
  <2>4. weakcount[o] \in {0, 1}
    BY DEF IndInv, SoleFinisher, Deleters
  <2> QED
    BY <2>2, <2>3, <2>4
<1> QED
  BY <1>1, Counting, PTL

\* Note [Weak references]: once refcount_ is zero it is never positive again.
THEOREM ZeroIsFinal == Spec => NeverResurrected
<1>1. ASSUME IndInv, [Next]_vars
      PROVE  [\A o \in Objects :
                mem[o] # "none" /\ refcount[o] = 0 => refcount'[o] = 0]_vars
  <2> SUFFICES ASSUME NEW p \in Objects, mem[p] # "none", refcount[p] = 0, Next
               PROVE  refcount'[p] = 0
    BY <1>1
  <2>1. StrongRefs(p) = {}
    BY RefsFinite, <1>1 DEF IndInv, CountingScheme, CountsOf
  <2>2. CASE \E s \in Strong, o \in Objects : StrongNext(s, o)
    <3>1. PICK s \in Strong, o \in Objects : StrongNext(s, o)
      BY <2>2
    <3>2. CASE Make(s, o)
      BY <3>2, <1>1 DEF Make, IndInv, TypeOK
    <3>3. CASE \E r \in Strong : Retain(s, r, o)
      BY <2>1, <3>3, <1>1 DEF Retain, StrongRefs, IndInv, TypeOK
    <3>4. CASE ResetStrong(s, o)
      BY <2>1, <3>4, <1>1 DEF ResetStrong, StrongRefs, IndInv, TypeOK
    <3>5. CASE LockExchange(s, o)
      BY <3>5, <1>1 DEF LockExchange, IndInv, SlotInv, TypeOK
    <3>6. CASE (\E w \in Weak : LockBegin(s, w, o)) \/ LockLoad(s, o) \/ LockRetry(s, o)
      BY <3>6, <1>1 DEF LockBegin, LockLoad, LockRetry, LockSaw
    <3> QED
      BY <3>1, <3>2, <3>3, <3>4, <3>5, <3>6 DEF StrongNext
  <2>3. CASE \E w \in Weak, o \in Objects : WeakNext(w, o)
    BY <2>3 DEF WeakNext, RetainWeak, ResetWeak, DropWeak
  <2>4. CASE (\E s, r \in Strong : Swap(s, r)) \/ (\E w, v \in Weak : SwapWeak(w, v))
    BY <2>4 DEF SwapWeak, Swap
  <2>5. CASE \E s \in Slots : Finish(s)
    BY <2>5 DEF Finish, ReleaseResources, LoadWeak, DecWeak, DropWeak, Delete
  <2> QED
    BY <2>2, <2>3, <2>4, <2>5 DEF Next
<1> QED
  BY <1>1, Counting, PTL DEF Spec, NeverResurrected
=============================================================================
