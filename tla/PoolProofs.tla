----------------------------- MODULE PoolProofs -----------------------------
(***************************************************************************)
(* What Pool.tla promises for every MaxSize, VersionSpan, InitialCapacity  *)
(* and Objects. The inductive invariant is the type invariant together     *)
(* with Consistent: the swap of free() keeps slots and indirectors paired  *)
(* only because each used indirector has exactly one slot, and no slot is  *)
(* handed out twice only because the free stack holds exactly the others.  *)
(***************************************************************************)
EXTENDS Pool, SequenceTheorems, FiniteSetTheorems, TLAPS

Indirector == [real_index : 0..MaxSize, version : Versions]

IInv == TypeOK /\ Consistent

(* The step form of StableIdentity. *)
Stable == \A key \in Keys : Alive(key) /\ Alive(key)' => Deref(key)' = Deref(key)

-----------------------------------------------------------------------------
(* The array operations of pool.h, position by position. *)

(* A function on 1..n with values in a set is a sequence over that set. *)
LEMMA FunctionIsSeq ==
  ASSUME NEW S, NEW n \in Nat, NEW f \in [1..n -> S]
  PROVE  f \in Seq(S) /\ Len(f) = n /\ DOMAIN f = 1..n
  OBVIOUS

(* size_type wraps around: what is stored stays below the span. *)
LEMMA WrapsIntoRange ==
  ASSUME NEW m \in Nat, m > 0, NEW x \in Nat
  PROVE  x % m \in 0..m - 1
  OBVIOUS

(* What is below the span is its own remainder. *)
LEMMA SmallStays ==
  ASSUME NEW m \in Nat, NEW x \in Nat, x < m
  PROVE  x % m = x
  OBVIOUS

(* Once around the span is where it was. *)
LEMMA RoundStays ==
  ASSUME NEW m \in Nat, NEW x \in Nat, x < m
  PROVE  (x + m) % m = x
  OBVIOUS

(* push_back() on an array: its length and its elements. *)
LEMMA AppendSeq ==
  ASSUME NEW S, NEW s \in Seq(S), NEW x \in S
  PROVE  /\ Append(s, x) \in Seq(S)
         /\ Len(Append(s, x)) = Len(s) + 1
         /\ DOMAIN Append(s, x) = 1..Len(s) + 1
         /\ \A j \in 1..Len(s) : Append(s, x)[j] = s[j]
         /\ Append(s, x)[Len(s) + 1] = x
  BY AppendProperties, LenProperties

(* The swap with the last element and pop_back(), as free() does it. *)
LEMMA SwapRemoveSeq ==
  ASSUME NEW S, NEW s \in Seq(S), NEW i \in 1..Len(s)
  PROVE  /\ SwapRemove(s, i) \in Seq(S)
         /\ Len(SwapRemove(s, i)) = Len(s) - 1
         /\ DOMAIN SwapRemove(s, i) = 1..Len(s) - 1
         /\ \A j \in 1..Len(s) - 1 :
              SwapRemove(s, i)[j] = IF j = i THEN s[Len(s)] ELSE s[j]
<1>1. Len(s) - 1 \in Nat /\ \A j \in 1..Len(s) : s[j] \in S
  BY LenProperties, ElementOfSeq
<1>2. SwapRemove(s, i) \in [1..Len(s) - 1 -> S]
  BY <1>1 DEF SwapRemove
<1>. QED  BY <1>1, <1>2, FunctionIsSeq DEF SwapRemove

(* The inverse, as undo_free() does it. *)
LEMMA SwapInsertSeq ==
  ASSUME NEW S, NEW s \in Seq(S), NEW i \in 1..Len(s) + 1, NEW x \in S
  PROVE  /\ SwapInsert(s, i, x) \in Seq(S)
         /\ Len(SwapInsert(s, i, x)) = Len(s) + 1
         /\ DOMAIN SwapInsert(s, i, x) = 1..Len(s) + 1
         /\ \A j \in 1..Len(s) + 1 :
              SwapInsert(s, i, x)[j] = IF j = i THEN x
                                       ELSE IF j = Len(s) + 1 THEN s[i] ELSE s[j]
<1>1. Len(s) + 1 \in Nat /\ \A j \in 1..Len(s) : s[j] \in S
  BY LenProperties, ElementOfSeq
<1>2. SwapInsert(s, i, x) \in [1..Len(s) + 1 -> S]
  BY <1>1 DEF SwapInsert
<1>. QED  BY <1>1, <1>2, FunctionIsSeq DEF SwapInsert

(* pop_back() on a stack. *)
LEMMA PoppedSeq ==
  ASSUME NEW S, NEW s \in Seq(S), Len(s) > 0
  PROVE  /\ Popped(s) \in Seq(S)
         /\ Len(Popped(s)) = Len(s) - 1
         /\ DOMAIN Popped(s) = 1..Len(s) - 1
         /\ \A j \in 1..Len(s) - 1 : Popped(s)[j] = s[j]
<1>1. Len(s) - 1 \in Nat /\ \A j \in 1..Len(s) : s[j] \in S
  BY LenProperties, ElementOfSeq
<1>2. Popped(s) \in [1..Len(s) - 1 -> S]
  BY <1>1 DEF Popped
<1>. QED  BY <1>1, <1>2, FunctionIsSeq DEF Popped

(* erase_element() on a stack: the order of the others is kept. *)
LEMMA ErasedAtSeq ==
  ASSUME NEW S, NEW s \in Seq(S), NEW p \in 1..Len(s)
  PROVE  /\ ErasedAt(s, p) \in Seq(S)
         /\ Len(ErasedAt(s, p)) = Len(s) - 1
         /\ DOMAIN ErasedAt(s, p) = 1..Len(s) - 1
         /\ \A j \in 1..Len(s) - 1 :
              ErasedAt(s, p)[j] = IF j < p THEN s[j] ELSE s[j + 1]
<1>1. Len(s) - 1 \in Nat /\ \A j \in 1..Len(s) : s[j] \in S
  BY LenProperties, ElementOfSeq
<1>2. ErasedAt(s, p) \in [1..Len(s) - 1 -> S]
  BY <1>1 DEF ErasedAt
<1>. QED  BY <1>1, <1>2, FunctionIsSeq DEF ErasedAt

-----------------------------------------------------------------------------
(* The invariant, spelled out in numbers and elements. *)
LEMMA Shape ==
  ASSUME IInv
  PROVE  /\ Size \in Nat /\ Capacity \in Nat
         /\ Size <= Capacity /\ Capacity <= MaxSize
         /\ Len(objects) = Size
         /\ Len(free_indirectors) = Capacity - Size
         /\ DOMAIN slots = 1..Size
         /\ DOMAIN objects = 1..Size
         /\ DOMAIN indirectors = 1..Capacity
         /\ DOMAIN free_indirectors = 1..Len(free_indirectors)
         /\ \A i \in 1..Size : slots[i] \in 1..Capacity /\ objects[i] \in Objects
         /\ \A k \in 1..Capacity : indirectors[k] \in Indirector
         /\ \A i \in 1..Len(free_indirectors) : free_indirectors[i] \in 1..Capacity
         /\ \A i, j \in 1..Size : slots[i] = slots[j] => i = j
<1>1. /\ Size \in Nat /\ Capacity \in Nat /\ Len(free_indirectors) \in Nat
      /\ DOMAIN slots = 1..Size
      /\ DOMAIN objects = 1..Len(objects)
      /\ DOMAIN indirectors = 1..Capacity
      /\ DOMAIN free_indirectors = 1..Len(free_indirectors)
  BY LenProperties DEF IInv, TypeOK, Size, Capacity
<1>2. /\ Len(objects) = Size
      /\ Len(free_indirectors) + Size = Capacity
      /\ Capacity <= MaxSize
  BY DEF IInv, TypeOK, Consistent, PointersPair, FreeListExact
<1>3. Size <= Capacity /\ Len(free_indirectors) = Capacity - Size
  BY <1>1, <1>2
<1>4. /\ \A i \in 1..Size : slots[i] \in 1..Capacity
      /\ \A i \in 1..Size : indirectors[slots[i]].real_index = i
      /\ \A i \in 1..Len(free_indirectors) : free_indirectors[i] \in 1..Capacity
  BY <1>1 DEF IInv, Consistent, PointersPair, FreeListExact
<1>5. \A i \in 1..Size : objects[i] \in Objects
  BY <1>2, ElementOfSeq DEF IInv, TypeOK
<1>6. \A k \in 1..Capacity : indirectors[k] \in Indirector
  BY ElementOfSeq DEF IInv, TypeOK, Indirector, Capacity
<1>. QED  BY <1>1, <1>2, <1>3, <1>4, <1>5, <1>6

(* What each field of the invariant is to be shown of the next state. *)
LEMMA Reassembled ==
  ASSUME slots' \in Seq(1..MaxSize), objects' \in Seq(Objects),
         indirectors' \in Seq(Indirector), free_indirectors' \in Seq(1..MaxSize),
         Capacity' <= MaxSize, PointersPair', FreeListExact'
  PROVE  IInv'
BY DEF IInv, TypeOK, Consistent, Indirector

(* Growing the pool: the new indirectors are fresh, stacked once each, and *)
(* disjoint from what was stacked before.                                  *)
LEMMA Grown ==
  ASSUME IInv, NEW n \in Capacity..MaxSize
  PROVE  /\ GrownIndirectors(n) \in Seq(Indirector)
         /\ Len(GrownIndirectors(n)) = n
         /\ DOMAIN GrownIndirectors(n) = 1..n
         /\ \A k \in 1..Capacity : GrownIndirectors(n)[k] = indirectors[k]
         /\ \A k \in Capacity + 1..n : GrownIndirectors(n)[k] = FreshIndirector
         /\ GrownFree(n) \in Seq(1..MaxSize)
         /\ Len(GrownFree(n)) = n - Size
         /\ DOMAIN GrownFree(n) = 1..n - Size
         /\ \A i \in 1..n - Size :
              /\ GrownFree(n)[i] \in 1..n
              /\ GrownIndirectors(n)[GrownFree(n)[i]].real_index = Unused
         /\ \A i, j \in 1..n - Size :
              GrownFree(n)[i] = GrownFree(n)[j] => i = j
         /\ \A i \in 1..Capacity - Size : GrownFree(n)[i] = free_indirectors[i]
         /\ \A i \in Capacity - Size + 1..n - Size :
              GrownFree(n)[i] = n - (i - (Capacity - Size)) + 1
<1>. DEFINE more == [i \in 1..n - Capacity |-> n - i + 1]
<1>1. /\ Capacity \in Nat /\ Size \in Nat /\ MaxSize \in Nat /\ n \in Nat
      /\ Size <= Capacity /\ VersionSpan \in Nat /\ VersionSpan >= MaxSize + 2
      /\ Len(free_indirectors) = Capacity - Size
      /\ DOMAIN free_indirectors = 1..Capacity - Size
      /\ \A k \in 1..Capacity : indirectors[k] \in Indirector
      /\ \A i \in 1..Capacity - Size : free_indirectors[i] \in 1..Capacity
  BY Shape, PoolAssumption
<1>2. FreshIndirector \in Indirector
  BY <1>1 DEF FreshIndirector, Indirector, Unused, Versions
<1>3. GrownIndirectors(n) \in [1..n -> Indirector]
  BY <1>1, <1>2 DEF GrownIndirectors
<1>4. /\ GrownIndirectors(n) \in Seq(Indirector)
      /\ Len(GrownIndirectors(n)) = n
      /\ DOMAIN GrownIndirectors(n) = 1..n
  BY <1>1, <1>3, FunctionIsSeq
<1>5. /\ \A k \in 1..Capacity : GrownIndirectors(n)[k] = indirectors[k]
      /\ \A k \in Capacity + 1..n : GrownIndirectors(n)[k] = FreshIndirector
  BY <1>1 DEF GrownIndirectors
<1>6. more \in Seq(1..MaxSize) /\ Len(more) = n - Capacity
  <2>1. more \in [1..n - Capacity -> 1..MaxSize] /\ n - Capacity \in Nat
    BY <1>1
  <2>. QED  BY <2>1, FunctionIsSeq
<1>7. /\ GrownFree(n) \in Seq(1..MaxSize)
      /\ Len(GrownFree(n)) = n - Size
      /\ \A i \in 1..n - Size : GrownFree(n)[i] =
           IF i <= Capacity - Size THEN free_indirectors[i]
                                   ELSE more[i - (Capacity - Size)]
  <2>1. free_indirectors \in Seq(1..MaxSize)
    BY DEF IInv, TypeOK
  <2>2. GrownFree(n) = free_indirectors \o more
    BY DEF GrownFree
  <2>. HIDE DEF more
  <2>3. Len(free_indirectors) + Len(more) = n - Size
    BY <1>1, <1>6
  <2>4. /\ free_indirectors \o more \in Seq(1..MaxSize)
        /\ Len(free_indirectors \o more) = Len(free_indirectors) + Len(more)
        /\ \A i \in 1..Len(free_indirectors) + Len(more) :
             (free_indirectors \o more)[i] =
               IF i <= Len(free_indirectors) THEN free_indirectors[i]
                                             ELSE more[i - Len(free_indirectors)]
    BY <1>6, <2>1, ConcatProperties
  <2>. QED  BY <1>1, <2>2, <2>3, <2>4
<1>8. \A i \in Capacity - Size + 1..n - Size :
         GrownFree(n)[i] = n - (i - (Capacity - Size)) + 1
  <2>. TAKE i \in Capacity - Size + 1..n - Size
  <2>1. i \in 1..n - Size /\ ~(i <= Capacity - Size) /\ i - (Capacity - Size) \in 1..n - Capacity
    BY <1>1
  <2>. QED  BY <2>1, <1>7
<1>9. \A i \in 1..Capacity - Size :
         GrownFree(n)[i] = free_indirectors[i]
  <2>. TAKE i \in 1..Capacity - Size
  <2>1. i \in 1..n - Size /\ i <= Capacity - Size
    BY <1>1
  <2>. QED  BY <2>1, <1>7
<1>10. DOMAIN GrownFree(n) = 1..n - Size
  BY <1>7, LenProperties
<1>11. /\ \A i \in 1..Capacity - Size : indirectors[free_indirectors[i]].real_index = Unused
       /\ \A i, j \in 1..Capacity - Size : free_indirectors[i] = free_indirectors[j] => i = j
  BY <1>1 DEF IInv, Consistent, FreeListExact
<1>12. ASSUME NEW i \in 1..n - Size
       PROVE  /\ GrownFree(n)[i] \in 1..n
              /\ GrownIndirectors(n)[GrownFree(n)[i]].real_index = Unused
  <2>1. CASE i \in 1..Capacity - Size
    BY <2>1, <1>1, <1>5, <1>9, <1>11
  <2>2. CASE i \in Capacity - Size + 1..n - Size
    <3>1. GrownFree(n)[i] \in Capacity + 1..n
      BY <2>2, <1>1, <1>8
    <3>. QED  BY <3>1, <1>1, <1>5 DEF FreshIndirector
  <2>. QED  BY <2>1, <2>2, <1>1
<1>13. ASSUME NEW i \in 1..n - Size, NEW j \in 1..n - Size,
              GrownFree(n)[i] = GrownFree(n)[j]
       PROVE  i = j
  <2>1. CASE i \in 1..Capacity - Size /\ j \in 1..Capacity - Size
    BY <2>1, <1>13, <1>9, <1>11
  <2>2. CASE i \in Capacity - Size + 1..n - Size /\ j \in Capacity - Size + 1..n - Size
    BY <2>2, <1>13, <1>1, <1>8
  <2>3. CASE i \in 1..Capacity - Size /\ j \in Capacity - Size + 1..n - Size
    BY <2>3, <1>13, <1>1, <1>8, <1>9
  <2>4. CASE j \in 1..Capacity - Size /\ i \in Capacity - Size + 1..n - Size
    BY <2>4, <1>13, <1>1, <1>8, <1>9
  <2>. QED  BY <2>1, <2>2, <2>3, <2>4, <1>1
<1>. HIDE DEF more
<1>. QED  BY <1>4, <1>5, <1>7, <1>8, <1>9, <1>10, <1>12, <1>13

-----------------------------------------------------------------------------
(* A pool just constructed satisfies the invariant. *)
THEOREM InitInvariant == Init => IInv
<1>. SUFFICES ASSUME Init PROVE IInv
  OBVIOUS
<1>1. /\ InitialCapacity \in Nat /\ InitialCapacity <= MaxSize /\ MaxSize \in Nat
      /\ VersionSpan \in Nat /\ VersionSpan >= MaxSize + 2
  BY PoolAssumption
<1>2. FreshIndirector \in Indirector
  BY <1>1 DEF FreshIndirector, Indirector, Unused, Versions
<1>3. /\ indirectors \in Seq(Indirector) /\ Len(indirectors) = InitialCapacity
      /\ DOMAIN indirectors = 1..InitialCapacity
  <2>1. indirectors \in [1..InitialCapacity -> Indirector]
    BY <1>2 DEF Init
  <2>. QED  BY <2>1, <1>1, FunctionIsSeq
<1>4. /\ free_indirectors \in Seq(1..MaxSize) /\ Len(free_indirectors) = InitialCapacity
      /\ DOMAIN free_indirectors = 1..InitialCapacity
  <2>1. free_indirectors \in [1..InitialCapacity -> 1..MaxSize]
    BY <1>1 DEF Init
  <2>. QED  BY <2>1, <1>1, FunctionIsSeq
<1>5. /\ slots \in Seq(1..MaxSize) /\ objects \in Seq(Objects)
      /\ Len(slots) = 0 /\ Len(objects) = 0 /\ DOMAIN slots = {}
  BY EmptySeq DEF Init
<1>6. PointersPair
  BY <1>3, <1>5 DEF PointersPair, Size, Init, FreshIndirector
<1>7. FreeListExact
  <2>1. \A i \in 1..InitialCapacity :
           free_indirectors[i] = InitialCapacity - i + 1
    BY DEF Init
  <2>2. \A k \in 1..InitialCapacity : indirectors[k].real_index = Unused
    BY DEF Init, FreshIndirector
  <2>3. \A i \in 1..InitialCapacity : free_indirectors[i] \in 1..InitialCapacity
    BY <2>1, <1>1
  <2>4. \A i, j \in 1..InitialCapacity : free_indirectors[i] = free_indirectors[j] => i = j
    BY <2>1, <1>1
  <2>5. Len(free_indirectors) + Size = Capacity
    BY <1>1, <1>3, <1>4, <1>5 DEF Size, Capacity
  <2>. QED  BY <2>2, <2>3, <2>4, <2>5, <1>3, <1>4 DEF FreeListExact
<1>. QED
  BY <1>1, <1>3, <1>4, <1>5, <1>6, <1>7 DEF IInv, TypeOK, Consistent, Indirector, Capacity

(* An object placed at the end under the indirector on top of the stack    *)
(* pairs a new slot with it and moves nobody.                              *)
LEMMA AllocateStep ==
  ASSUME IInv, NEW o \in Objects, Allocate(o)
  PROVE  IInv' /\ Stable
<1>. DEFINE n == CapacityForOneMore
            indirs == GrownIndirectors(n)
            unused == GrownFree(n)
            k == unused[Len(unused)]
<1>1. /\ MaxSize \in Nat /\ Size \in Nat /\ Capacity \in Nat
      /\ Size <= Capacity /\ Capacity <= MaxSize
      /\ Size = Capacity => Size < MaxSize
      /\ Len(objects) = Size
  BY Shape, PoolAssumption DEF Allocate, Full, CanExpand
<1>2. n \in Capacity..MaxSize /\ n > Size
  BY <1>1 DEF CapacityForOneMore
<1>3. /\ indirs \in Seq(Indirector) /\ Len(indirs) = n /\ DOMAIN indirs = 1..n
      /\ \A j \in 1..Capacity : indirs[j] = indirectors[j]
      /\ \A j \in Capacity + 1..n : indirs[j] = FreshIndirector
  BY <1>2, Grown
<1>4. /\ unused \in Seq(1..MaxSize) /\ Len(unused) = n - Size /\ DOMAIN unused = 1..n - Size
      /\ \A i \in 1..n - Size :
           unused[i] \in 1..n /\ indirs[unused[i]].real_index = Unused
      /\ \A i, j \in 1..n - Size : unused[i] = unused[j] => i = j
  BY <1>2, Grown
<1>5. k \in 1..n /\ k \in 1..MaxSize /\ indirs[k].real_index = Unused /\ k = unused[n - Size]
  <2>. HIDE DEF n, indirs, unused
  <2>. QED  BY <1>1, <1>2, <1>4
<1>6. /\ free_indirectors' = Popped(unused)
      /\ indirectors' = [indirs EXCEPT ![k] = Redirected(@, Size + 1)]
      /\ slots' = Append(slots, k)
      /\ objects' = Append(objects, o)
  BY DEF Allocate
<1>. HIDE DEF n, indirs, unused, k
<1>7. /\ slots' \in Seq(1..MaxSize) /\ Size' = Size + 1 /\ DOMAIN slots' = 1..Size + 1
      /\ \A j \in 1..Size : slots'[j] = slots[j]
      /\ slots'[Size + 1] = k
  BY <1>5, <1>6, AppendSeq DEF IInv, TypeOK, Size
<1>8. /\ objects' \in Seq(Objects) /\ Len(objects') = Size + 1
      /\ \A j \in 1..Size : objects'[j] = objects[j]
  BY <1>1, <1>6, AppendSeq DEF IInv, TypeOK
<1>9. /\ free_indirectors' \in Seq(1..MaxSize)
      /\ Len(free_indirectors') = n - Size - 1
      /\ DOMAIN free_indirectors' = 1..n - Size - 1
      /\ \A j \in 1..n - Size - 1 : free_indirectors'[j] = unused[j]
  <2>1. Len(unused) > 0
    BY <1>1, <1>2, <1>4
  <2>2. /\ Popped(unused) \in Seq(1..MaxSize)
        /\ Len(Popped(unused)) = Len(unused) - 1
        /\ DOMAIN Popped(unused) = 1..Len(unused) - 1
        /\ \A j \in 1..Len(unused) - 1 : Popped(unused)[j] = unused[j]
    BY <1>4, <2>1, PoppedSeq
  <2>. QED  BY <1>4, <1>6, <2>2
<1>10. /\ indirectors' \in Seq(Indirector) /\ Capacity' = n /\ DOMAIN indirectors' = 1..n
       /\ indirectors'[k] = [real_index |-> Size + 1, version |-> indirs[k].version]
       /\ \A j \in 1..n : j # k => indirectors'[j] = indirs[j]
  <2>1. indirs[k] \in Indirector /\ Size + 1 \in 0..MaxSize
    BY <1>1, <1>2, <1>3, <1>5, ElementOfSeq
  <2>2. indirectors' = [indirs EXCEPT ![k] =
                          [real_index |-> Size + 1, version |-> indirs[k].version]]
    BY <1>6 DEF Redirected
  <2>3. [real_index |-> Size + 1, version |-> indirs[k].version] \in Indirector
    BY <2>1 DEF Indirector
  <2>. QED  BY <1>3, <1>5, <2>2, <2>3, ExceptSeq, LenProperties DEF Capacity
<1>11. \A i \in 1..Size : /\ slots[i] \in 1..Capacity
                          /\ indirectors[slots[i]].real_index = i
  BY Shape DEF IInv, Consistent, PointersPair
<1>12. \A j \in 1..Capacity : indirectors[j].real_index # Unused =>
          indirectors[j].real_index \in 1..Size /\ slots[indirectors[j].real_index] = j
  BY Shape DEF IInv, Consistent, PointersPair
<1>13. PointersPair'
  <2>1. ASSUME NEW i \in 1..Size + 1
        PROVE  slots'[i] \in 1..n /\ indirectors'[slots'[i]].real_index = i
    <3>1. CASE i = Size + 1
      BY <3>1, <1>5, <1>7, <1>10
    <3>2. CASE i \in 1..Size
      <4>1. slots[i] \in 1..n /\ slots[i] # k
        BY <3>2, <1>1, <1>2, <1>3, <1>5, <1>11 DEF Unused
      <4>. QED  BY <3>2, <4>1, <1>3, <1>7, <1>10, <1>11
    <3>. QED  BY <3>1, <3>2, <1>1
  <2>2. ASSUME NEW j \in 1..n, indirectors'[j].real_index # Unused
        PROVE  /\ indirectors'[j].real_index \in 1..Size + 1
               /\ slots'[indirectors'[j].real_index] = j
    <3>1. CASE j = k
      BY <3>1, <1>1, <1>7, <1>10
    <3>2. CASE j # k /\ j \in 1..Capacity
      BY <3>2, <2>2, <1>1, <1>3, <1>7, <1>10, <1>12
    <3>3. CASE j # k /\ j \in Capacity + 1..n
      BY <3>3, <2>2, <1>3, <1>10 DEF FreshIndirector
    <3>. QED  BY <3>1, <3>2, <3>3, <1>1
  <2>. QED  BY <2>1, <2>2, <1>7, <1>8, <1>10 DEF PointersPair
<1>14. FreeListExact'
  <2>1. ASSUME NEW i \in 1..n - Size - 1
        PROVE  /\ free_indirectors'[i] \in 1..n
               /\ indirectors'[free_indirectors'[i]].real_index = Unused
    <3>1. i \in 1..n - Size /\ n - Size \in 1..n - Size /\ i # n - Size
      BY <1>1, <1>2
    <3>2. free_indirectors'[i] = unused[i] /\ unused[i] # k
      BY <3>1, <1>4, <1>5, <1>9
    <3>. QED  BY <3>1, <3>2, <1>4, <1>10
  <2>2. \A i, j \in 1..n - Size - 1 : free_indirectors'[i] = free_indirectors'[j] => i = j
    BY <1>1, <1>2, <1>4, <1>9
  <2>3. Len(free_indirectors') + Size' = Capacity'
    BY <1>1, <1>2, <1>7, <1>9, <1>10
  <2>. QED  BY <2>1, <2>2, <2>3, <1>9, <1>10 DEF FreeListExact
<1>15. IInv'
  <2>1. Capacity' <= MaxSize
    BY <1>1, <1>2, <1>10
  <2>. QED  BY <2>1, <1>7, <1>8, <1>9, <1>10, <1>13, <1>14, Reassembled
<1>16. Stable
  <2>. SUFFICES ASSUME NEW key \in Keys, Alive(key), Alive(key)'
                PROVE  Deref(key)' = Deref(key)
    BY DEF Stable
  <2>1. key.indirection_index \in 1..Capacity
    BY Shape DEF Alive
  <2>2. /\ indirectors[key.indirection_index].real_index # Unused
        /\ indirectors[key.indirection_index].real_index \in 1..Size
    BY <2>1, <1>12 DEF Alive
  <2>3. key.indirection_index \in 1..n /\ key.indirection_index # k
    BY <2>1, <2>2, <1>1, <1>2, <1>3, <1>5
  <2>4. indirectors'[key.indirection_index] = indirectors[key.indirection_index]
    BY <2>1, <2>3, <1>3, <1>10
  <2>. QED  BY <2>2, <2>4, <1>8 DEF Deref
<1>. QED  BY <1>15, <1>16

(* The last object takes the place of the removed one; its indirector is   *)
(* the only other one that changes.                                        *)
LEMMA FreeStep ==
  ASSUME IInv, NEW key \in Keys, Free(key)
  PROVE  IInv' /\ Stable
<1>. DEFINE k == key.indirection_index
            removed == indirectors[k].real_index
            moved == slots[Size]
            grown == (indirectors[k].version + 1) % VersionSpan
<1>1. /\ MaxSize \in Nat /\ Size \in Nat /\ Capacity \in Nat
      /\ Size <= Capacity /\ Capacity <= MaxSize
      /\ Len(objects) = Size /\ Len(free_indirectors) = Capacity - Size
      /\ DOMAIN indirectors = 1..Capacity
      /\ DOMAIN free_indirectors = 1..Capacity - Size
      /\ VersionSpan \in Nat /\ VersionSpan > 0
      /\ \A j \in 1..Capacity : indirectors[j] \in Indirector
  BY Shape, PoolAssumption
<1>2. \A i \in 1..Size : /\ slots[i] \in 1..Capacity
                         /\ indirectors[slots[i]].real_index = i
  BY Shape DEF IInv, Consistent, PointersPair
<1>3. \A j \in 1..Capacity : indirectors[j].real_index # Unused =>
         indirectors[j].real_index \in 1..Size /\ slots[indirectors[j].real_index] = j
  BY Shape DEF IInv, Consistent, PointersPair
<1>4. k \in 1..Capacity /\ removed \in 1..Size /\ slots[removed] = k /\ removed # Unused
  BY <1>1, <1>3 DEF Free, Alive
<1>5. /\ Size \in 1..Size /\ moved \in 1..Capacity /\ indirectors[moved].real_index = Size
      /\ k \in 1..MaxSize
      /\ moved = k <=> removed = Size
  BY <1>1, <1>2, <1>4
<1>6. grown \in Versions
  <2>1. indirectors[k].version \in Nat
    BY <1>1, <1>4 DEF Indirector, Versions
  <2>2. indirectors[k].version + 1 \in Nat
    BY <2>1
  <2>. QED  BY <1>1, <2>2, WrapsIntoRange, SMTT(20) DEF Versions
<1>7. /\ free_indirectors' = Append(free_indirectors, k)
      /\ indirectors' = [i \in DOMAIN indirectors |->
           IF i = k THEN [real_index |-> Unused, version |-> grown]
           ELSE IF i = moved THEN Redirected(indirectors[i], removed)
           ELSE indirectors[i]]
      /\ slots' = SwapRemove(slots, removed)
      /\ objects' = SwapRemove(objects, removed)
  BY DEF Free
<1>. HIDE DEF k, removed, moved, grown
<1>8. /\ slots' \in Seq(1..MaxSize) /\ Size' = Size - 1 /\ DOMAIN slots' = 1..Size - 1
      /\ \A j \in 1..Size - 1 : slots'[j] = IF j = removed THEN moved ELSE slots[j]
  BY <1>4, <1>7, SwapRemoveSeq DEF IInv, TypeOK, Size, moved
<1>9. /\ objects' \in Seq(Objects) /\ Len(objects') = Size - 1
      /\ \A j \in 1..Size - 1 : objects'[j] = IF j = removed THEN objects[Size] ELSE objects[j]
  <2>1. objects \in Seq(Objects) /\ removed \in 1..Len(objects) /\ Len(objects) = Size
    BY <1>1, <1>4 DEF IInv, TypeOK
  <2>2. /\ SwapRemove(objects, removed) \in Seq(Objects)
        /\ Len(SwapRemove(objects, removed)) = Len(objects) - 1
        /\ \A j \in 1..Len(objects) - 1 :
             SwapRemove(objects, removed)[j] = IF j = removed THEN objects[Len(objects)] ELSE objects[j]
    BY <2>1, SwapRemoveSeq
  <2>. QED  BY <1>7, <2>1, <2>2
<1>10. /\ free_indirectors' \in Seq(1..MaxSize)
       /\ Len(free_indirectors') = Capacity - Size + 1
       /\ DOMAIN free_indirectors' = 1..Capacity - Size + 1
       /\ \A j \in 1..Capacity - Size : free_indirectors'[j] = free_indirectors[j]
       /\ free_indirectors'[Capacity - Size + 1] = k
  <2>1. free_indirectors \in Seq(1..MaxSize)
    BY DEF IInv, TypeOK
  <2>2. k \in 1..MaxSize
    BY <1>5
  <2>3. /\ Append(free_indirectors, k) \in Seq(1..MaxSize)
        /\ Len(Append(free_indirectors, k)) = Len(free_indirectors) + 1
        /\ DOMAIN Append(free_indirectors, k) = 1..Len(free_indirectors) + 1
        /\ \A j \in 1..Len(free_indirectors) :
              Append(free_indirectors, k)[j] = free_indirectors[j]
        /\ Append(free_indirectors, k)[Len(free_indirectors) + 1] = k
    BY <2>1, <2>2, AppendSeq
  <2>4. free_indirectors' = Append(free_indirectors, k)
    BY <1>7
  <2>5. Len(free_indirectors) = Capacity - Size
    BY <1>1
  <2>. QED  BY <2>3, <2>4, <2>5
<1>11. /\ indirectors' \in Seq(Indirector) /\ Capacity' = Capacity
       /\ DOMAIN indirectors' = 1..Capacity
       /\ indirectors'[k] = [real_index |-> Unused, version |-> grown]
       /\ moved # k => indirectors'[moved] =
            [real_index |-> removed, version |-> indirectors[moved].version]
       /\ \A j \in 1..Capacity : j # k /\ j # moved => indirectors'[j] = indirectors[j]
  <2>1. [real_index |-> Unused, version |-> grown] \in Indirector
    BY <1>1, <1>6 DEF Indirector, Unused
  <2>2. \A j \in 1..Capacity : Redirected(indirectors[j], removed) \in Indirector
    BY <1>1, <1>4 DEF Indirector, Redirected
  <2>3. indirectors' \in [1..Capacity -> Indirector]
    BY <1>1, <1>7, <2>1, <2>2
  <2>4. indirectors' \in Seq(Indirector) /\ Capacity' = Capacity
    BY <1>1, <2>3, FunctionIsSeq DEF Capacity
  <2>. QED  BY <1>1, <1>4, <1>5, <1>7, <2>3, <2>4 DEF Redirected
<1>12. PointersPair'
  <2>1. ASSUME NEW i \in 1..Size - 1
        PROVE  slots'[i] \in 1..Capacity /\ indirectors'[slots'[i]].real_index = i
    <3>1. CASE i = removed
      <4>1. moved # k
        BY <3>1, <1>1, <1>5
      <4>. QED  BY <3>1, <4>1, <1>5, <1>8, <1>11
    <3>2. CASE i # removed
      <4>1. i \in 1..Size /\ slots[i] # k /\ slots[i] # moved
        BY <3>2, <1>1, <1>2, <1>4, <1>5 DEF removed
      <4>. QED  BY <3>2, <4>1, <1>2, <1>8, <1>11
    <3>. QED  BY <3>1, <3>2
  <2>2. ASSUME NEW j \in 1..Capacity, indirectors'[j].real_index # Unused
        PROVE  /\ indirectors'[j].real_index \in 1..Size - 1
               /\ slots'[indirectors'[j].real_index] = j
    <3>1. j # k
      BY <2>2, <1>11
    <3>2. CASE j = moved
      <4>1. removed \in 1..Size - 1
        BY <3>1, <3>2, <1>1, <1>4, <1>5
      <4>. QED  BY <3>1, <3>2, <4>1, <1>8, <1>11
    <3>3. CASE j # moved
      <4>1. indirectors'[j] = indirectors[j]
        BY <3>1, <3>3, <1>11
      <4>2. indirectors[j].real_index \in 1..Size /\ slots[indirectors[j].real_index] = j
        BY <2>2, <4>1, <1>3
      <4>3. indirectors[j].real_index # removed /\ indirectors[j].real_index # Size
        BY <3>1, <3>3, <4>2, <1>4 DEF moved
      <4>. QED  BY <4>1, <4>2, <4>3, <1>1, <1>8
    <3>. QED  BY <3>2, <3>3
  <2>. QED  BY <2>1, <2>2, <1>8, <1>9, <1>11 DEF PointersPair
<1>13. FreeListExact'
  <2>1. /\ \A i \in 1..Capacity - Size : /\ free_indirectors[i] \in 1..Capacity
                                         /\ indirectors[free_indirectors[i]].real_index = Unused
        /\ \A i, j \in 1..Capacity - Size : free_indirectors[i] = free_indirectors[j] => i = j
    BY <1>1 DEF IInv, Consistent, FreeListExact
  <2>2. \A i \in 1..Capacity - Size : free_indirectors[i] # k /\ free_indirectors[i] # moved
    BY <2>1, <1>4, <1>5 DEF removed, Unused
  <2>3. ASSUME NEW i \in 1..Capacity - Size + 1
        PROVE  /\ free_indirectors'[i] \in 1..Capacity
               /\ indirectors'[free_indirectors'[i]].real_index = Unused
    <3>1. CASE i \in 1..Capacity - Size
      BY <3>1, <2>1, <2>2, <1>10, <1>11
    <3>2. CASE i = Capacity - Size + 1
      BY <3>2, <1>4, <1>10, <1>11
    <3>. QED  BY <3>1, <3>2, <1>1
  <2>4. \A i, j \in 1..Capacity - Size + 1 : free_indirectors'[i] = free_indirectors'[j] => i = j
    <3>1. \A i \in 1..Capacity - Size + 1 :
             i = Capacity - Size + 1 \/ i \in 1..Capacity - Size
      BY <1>1
    <3>. QED  BY <3>1, <2>1, <2>2, <1>10
  <2>5. Len(free_indirectors') + Size' = Capacity'
    BY <1>1, <1>8, <1>10, <1>11
  <2>. QED  BY <2>3, <2>4, <2>5, <1>10, <1>11 DEF FreeListExact
<1>14. IInv'
  BY <1>1, <1>8, <1>9, <1>10, <1>11, <1>12, <1>13, Reassembled
<1>15. Stable
  <2>. SUFFICES ASSUME NEW other \in Keys, Alive(other), Alive(other)'
                PROVE  Deref(other)' = Deref(other)
    BY DEF Stable
  <2>. DEFINE j == other.indirection_index
  <2>1. /\ j \in 1..Capacity /\ indirectors[j].real_index # Unused
        /\ indirectors'[j].real_index # Unused
    BY <1>1 DEF Alive
  <2>2. j # k /\ indirectors[j].real_index \in 1..Size /\ slots[indirectors[j].real_index] = j
    BY <2>1, <1>3, <1>11
  <2>. HIDE DEF j
  <2>3. CASE j = moved
    <3>1. indirectors'[j].real_index = removed /\ removed \in 1..Size - 1
      BY <2>2, <2>3, <1>1, <1>4, <1>5, <1>11
    <3>2. objects'[removed] = objects[Size]
      BY <3>1, <1>9
    <3>. QED  BY <2>3, <3>1, <3>2, <1>5 DEF Deref, j
  <2>4. CASE j # moved
    <3>1. indirectors'[j] = indirectors[j]
      BY <2>1, <2>2, <2>4, <1>11
    <3>2. indirectors[j].real_index # removed /\ indirectors[j].real_index # Size
      BY <2>2, <2>4, <1>4 DEF moved
    <3>. QED  BY <2>2, <3>1, <3>2, <1>1, <1>9 DEF Deref, j
  <2>. QED  BY <2>3, <2>4
<1>. QED  BY <1>14, <1>15

(* undo_last_allocate() keeps the invariant: the last slot and the         *)
(* indirector paired with it go, nobody else moves.                        *)
LEMMA UndoLastAllocateStep ==
  ASSUME IInv, NEW key \in Keys, UndoLastAllocate(key)
  PROVE  IInv' /\ Stable
<1>. DEFINE k == key.indirection_index
<1>1. /\ MaxSize \in Nat /\ Size \in Nat /\ Capacity \in Nat
      /\ Size <= Capacity /\ Capacity <= MaxSize
      /\ Len(objects) = Size /\ Len(free_indirectors) = Capacity - Size
      /\ DOMAIN indirectors = 1..Capacity
      /\ DOMAIN free_indirectors = 1..Capacity - Size
      /\ \A j \in 1..Capacity : indirectors[j] \in Indirector
  BY Shape, PoolAssumption
<1>2. \A i \in 1..Size : /\ slots[i] \in 1..Capacity
                         /\ indirectors[slots[i]].real_index = i
  BY Shape DEF IInv, Consistent, PointersPair
<1>3. \A j \in 1..Capacity : indirectors[j].real_index # Unused =>
         indirectors[j].real_index \in 1..Size /\ slots[indirectors[j].real_index] = j
  BY Shape DEF IInv, Consistent, PointersPair
<1>4. /\ k \in 1..Capacity /\ k \in 1..MaxSize
      /\ indirectors[k].real_index = Size /\ Size > 0 /\ slots[Size] = k
  BY <1>1, <1>3 DEF UndoLastAllocate, Alive
<1>5. /\ free_indirectors' = Append(free_indirectors, k)
      /\ indirectors' = [indirectors EXCEPT ![k] = Redirected(@, Unused)]
      /\ slots' = Popped(slots)
      /\ objects' = Popped(objects)
  BY DEF UndoLastAllocate
<1>. HIDE DEF k
<1>6. /\ slots' \in Seq(1..MaxSize) /\ Size' = Size - 1 /\ DOMAIN slots' = 1..Size - 1
      /\ \A j \in 1..Size - 1 : slots'[j] = slots[j]
  BY <1>4, <1>5, PoppedSeq DEF IInv, TypeOK, Size
<1>7. /\ objects' \in Seq(Objects) /\ Len(objects') = Size - 1
      /\ \A j \in 1..Size - 1 : objects'[j] = objects[j]
  BY <1>1, <1>4, <1>5, PoppedSeq DEF IInv, TypeOK
<1>8. /\ free_indirectors' \in Seq(1..MaxSize)
      /\ Len(free_indirectors') = Capacity - Size + 1
      /\ DOMAIN free_indirectors' = 1..Capacity - Size + 1
      /\ \A j \in 1..Capacity - Size : free_indirectors'[j] = free_indirectors[j]
      /\ free_indirectors'[Capacity - Size + 1] = k
  <2>1. free_indirectors \in Seq(1..MaxSize)
    BY DEF IInv, TypeOK
  <2>2. /\ Append(free_indirectors, k) \in Seq(1..MaxSize)
        /\ Len(Append(free_indirectors, k)) = Len(free_indirectors) + 1
        /\ DOMAIN Append(free_indirectors, k) = 1..Len(free_indirectors) + 1
        /\ \A j \in 1..Len(free_indirectors) :
             Append(free_indirectors, k)[j] = free_indirectors[j]
        /\ Append(free_indirectors, k)[Len(free_indirectors) + 1] = k
    BY <1>4, <2>1, AppendSeq
  <2>. QED  BY <1>1, <1>5, <2>2
<1>9. /\ indirectors' \in Seq(Indirector) /\ Capacity' = Capacity
      /\ DOMAIN indirectors' = 1..Capacity
      /\ indirectors'[k].real_index = Unused
      /\ \A j \in 1..Capacity : j # k => indirectors'[j] = indirectors[j]
  <2>1. Redirected(indirectors[k], Unused) \in Indirector
    BY <1>1, <1>4 DEF Indirector, Redirected, Unused
  <2>2. indirectors' = [indirectors EXCEPT ![k] = Redirected(indirectors[k], Unused)]
    BY <1>5
  <2>3. indirectors \in Seq(Indirector)
    BY DEF IInv, TypeOK, Indirector
  <2>4. Redirected(indirectors[k], Unused).real_index = Unused
    BY DEF Redirected
  <2>. QED  BY <1>4, <2>1, <2>2, <2>3, <2>4, ExceptSeq, LenProperties DEF Capacity
<1>10. PointersPair'
  <2>1. ASSUME NEW i \in 1..Size - 1
        PROVE  slots'[i] \in 1..Capacity /\ indirectors'[slots'[i]].real_index = i
    <3>1. i \in 1..Size /\ slots[i] # k
      BY <1>1, <1>2, <1>4
    <3>. QED  BY <3>1, <1>2, <1>6, <1>9
  <2>2. ASSUME NEW j \in 1..Capacity, indirectors'[j].real_index # Unused
        PROVE  /\ indirectors'[j].real_index \in 1..Size - 1
               /\ slots'[indirectors'[j].real_index] = j
    <3>1. j # k /\ indirectors'[j] = indirectors[j]
      BY <2>2, <1>9
    <3>2. indirectors[j].real_index \in 1..Size /\ slots[indirectors[j].real_index] = j
      BY <2>2, <3>1, <1>3
    <3>3. indirectors[j].real_index # Size
      BY <3>1, <3>2, <1>4
    <3>. QED  BY <3>1, <3>2, <3>3, <1>1, <1>6
  <2>. QED  BY <2>1, <2>2, <1>6, <1>7, <1>9 DEF PointersPair
<1>11. FreeListExact'
  <2>1. /\ \A i \in 1..Capacity - Size : /\ free_indirectors[i] \in 1..Capacity
                                         /\ indirectors[free_indirectors[i]].real_index = Unused
        /\ \A i, j \in 1..Capacity - Size : free_indirectors[i] = free_indirectors[j] => i = j
    BY <1>1 DEF IInv, Consistent, FreeListExact
  <2>2. \A i \in 1..Capacity - Size : free_indirectors[i] # k
    BY <2>1, <1>4 DEF Unused
  <2>3. ASSUME NEW i \in 1..Capacity - Size + 1
        PROVE  /\ free_indirectors'[i] \in 1..Capacity
               /\ indirectors'[free_indirectors'[i]].real_index = Unused
    <3>1. CASE i \in 1..Capacity - Size
      BY <3>1, <2>1, <2>2, <1>8, <1>9
    <3>2. CASE i = Capacity - Size + 1
      BY <3>2, <1>4, <1>8, <1>9
    <3>. QED  BY <3>1, <3>2, <1>1
  <2>4. \A i, j \in 1..Capacity - Size + 1 : free_indirectors'[i] = free_indirectors'[j] => i = j
    <3>1. \A i \in 1..Capacity - Size + 1 :
             i = Capacity - Size + 1 \/ i \in 1..Capacity - Size
      BY <1>1
    <3>. QED  BY <3>1, <2>1, <2>2, <1>8
  <2>5. Len(free_indirectors') + Size' = Capacity'
    BY <1>1, <1>6, <1>8, <1>9
  <2>. QED  BY <2>3, <2>4, <2>5, <1>8, <1>9 DEF FreeListExact
<1>12. IInv'
  BY <1>1, <1>6, <1>7, <1>8, <1>9, <1>10, <1>11, Reassembled
<1>13. Stable
  <2>. SUFFICES ASSUME NEW other \in Keys, Alive(other), Alive(other)'
                PROVE  Deref(other)' = Deref(other)
    BY DEF Stable
  <2>. DEFINE j == other.indirection_index
  <2>1. /\ j \in 1..Capacity /\ indirectors[j].real_index # Unused
        /\ indirectors'[j].real_index # Unused
    BY <1>1 DEF Alive
  <2>2. /\ j # k /\ indirectors[j].real_index \in 1..Size
        /\ slots[indirectors[j].real_index] = j
        /\ indirectors'[j] = indirectors[j]
    BY <2>1, <1>3, <1>9
  <2>3. indirectors[j].real_index \in 1..Size - 1
    BY <2>2, <1>1, <1>4
  <2>. QED  BY <2>2, <2>3, <1>7 DEF Deref
<1>. QED  BY <1>12, <1>13

(* The mirror image of FreeStep. *)
LEMMA UndoFreeStep ==
  ASSUME IInv, NEW k, NEW r, NEW o,
         o \in Objects, UndoFree(k, r, o)
  PROVE  IInv' /\ Stable
<1>. DEFINE older == (indirectors[k].version + VersionSpan - 1) % VersionSpan
            moved == slots[r]
<1>1. /\ MaxSize \in Nat /\ Size \in Nat /\ Capacity \in Nat
      /\ Size <= Capacity /\ Capacity <= MaxSize
      /\ Len(objects) = Size /\ Len(free_indirectors) = Capacity - Size
      /\ DOMAIN indirectors = 1..Capacity
      /\ DOMAIN free_indirectors = 1..Capacity - Size
      /\ VersionSpan \in Nat /\ VersionSpan > 0
      /\ \A j \in 1..Capacity : indirectors[j] \in Indirector
  BY Shape, PoolAssumption
<1>2. \A i \in 1..Size : /\ slots[i] \in 1..Capacity
                         /\ indirectors[slots[i]].real_index = i
  BY Shape DEF IInv, Consistent, PointersPair
<1>3. \A j \in 1..Capacity : indirectors[j].real_index # Unused =>
         indirectors[j].real_index \in 1..Size /\ slots[indirectors[j].real_index] = j
  BY Shape DEF IInv, Consistent, PointersPair
<1>4. /\ \A i \in 1..Capacity - Size : /\ free_indirectors[i] \in 1..Capacity
                                       /\ indirectors[free_indirectors[i]].real_index = Unused
      /\ \A i, j \in 1..Capacity - Size : free_indirectors[i] = free_indirectors[j] => i = j
  BY <1>1 DEF IInv, Consistent, FreeListExact
<1>5. PICK p \in 1..Capacity - Size :
         /\ free_indirectors[p] = k
         /\ free_indirectors' = ErasedAt(free_indirectors, p)
  BY <1>1 DEF UndoFree
<1>6. r \in 1..Size + 1 /\ k \in 1..Capacity /\ indirectors[k].real_index = Unused
  BY <1>4, <1>5 DEF UndoFree
<1>7. older \in Versions
  <2>1. indirectors[k].version + VersionSpan - 1 \in Nat
    <3>1. PICK v : v = indirectors[k].version
      OBVIOUS
    <3>2. indirectors[k] \in Indirector
      BY <1>1, <1>6
    <3>3. v \in 0..VersionSpan - 1
      BY <3>1, <3>2 DEF Indirector, Versions
    <3>4. v + VersionSpan - 1 \in Nat
      BY ONLY <1>1, <3>3
    <3>. QED  BY <3>1, <3>4
  <2>2. (indirectors[k].version + VersionSpan - 1) % VersionSpan \in 0..VersionSpan - 1
    BY ONLY <1>1, <2>1, WrapsIntoRange
  <2>. QED  BY <2>2 DEF Versions
<1>8. /\ indirectors' = [i \in DOMAIN indirectors |->
           IF i = k THEN [real_index |-> r, version |-> older]
           ELSE IF r <= Size /\ i = moved THEN Redirected(indirectors[i], Size + 1)
           ELSE indirectors[i]]
      /\ slots' = SwapInsert(slots, r, k)
      /\ objects' = SwapInsert(objects, r, o)
  BY DEF UndoFree
<1>. HIDE DEF older
<1>9. /\ slots' \in Seq(1..MaxSize) /\ Size' = Size + 1 /\ DOMAIN slots' = 1..Size + 1
      /\ \A j \in 1..Size + 1 : slots'[j] = IF j = r THEN k
                                ELSE IF j = Size + 1 THEN moved ELSE slots[j]
  <2>. DEFINE Indices == 1..MaxSize
  <2>1. slots \in Seq(Indices) /\ r \in 1..Len(slots) + 1 /\ k \in Indices
    BY <1>1, <1>6 DEF IInv, TypeOK, Size
  <2>. HIDE DEF Indices
  <2>2. /\ SwapInsert(slots, r, k) \in Seq(Indices)
        /\ Len(SwapInsert(slots, r, k)) = Len(slots) + 1
        /\ DOMAIN SwapInsert(slots, r, k) = 1..Len(slots) + 1
    BY <2>1, SwapInsertSeq
  <2>3. \A j \in 1..Len(slots) + 1 : SwapInsert(slots, r, k)[j] =
             IF j = r THEN k ELSE IF j = Len(slots) + 1 THEN slots[r] ELSE slots[j]
    BY <2>1, SwapInsertSeq
  <2>. QED  BY <1>1, <1>8, <2>2, <2>3 DEF Size, Indices
<1>10. /\ objects' \in Seq(Objects) /\ Len(objects') = Size + 1
       /\ \A j \in 1..Size + 1 : objects'[j] = IF j = r THEN o
                                 ELSE IF j = Size + 1 THEN objects[r] ELSE objects[j]
  <2>1. objects \in Seq(Objects) /\ r \in 1..Len(objects) + 1 /\ o \in Objects
    BY <1>1, <1>6 DEF IInv, TypeOK, Size
  <2>2. /\ SwapInsert(objects, r, o) \in Seq(Objects)
        /\ Len(SwapInsert(objects, r, o)) = Len(objects) + 1
        /\ DOMAIN SwapInsert(objects, r, o) = 1..Len(objects) + 1
    BY <2>1, SwapInsertSeq
  <2>3. \A j \in 1..Len(objects) + 1 : SwapInsert(objects, r, o)[j] =
             IF j = r THEN o ELSE IF j = Len(objects) + 1 THEN objects[r] ELSE objects[j]
    BY <2>1, SwapInsertSeq
  <2>. QED  BY <1>1, <1>8, <2>2, <2>3 DEF Size
<1>11. /\ free_indirectors' \in Seq(1..MaxSize)
       /\ Len(free_indirectors') = Capacity - Size - 1
       /\ DOMAIN free_indirectors' = 1..Capacity - Size - 1
       /\ \A j \in 1..Capacity - Size - 1 :
            free_indirectors'[j] = IF j < p THEN free_indirectors[j] ELSE free_indirectors[j + 1]
  <2>1. free_indirectors \in Seq(1..MaxSize)
    BY DEF IInv, TypeOK
  <2>2. p \in 1..Len(free_indirectors)
    BY <1>1
  <2>3. /\ ErasedAt(free_indirectors, p) \in Seq(1..MaxSize)
        /\ Len(ErasedAt(free_indirectors, p)) = Len(free_indirectors) - 1
        /\ DOMAIN ErasedAt(free_indirectors, p) = 1..Len(free_indirectors) - 1
        /\ \A j \in 1..Len(free_indirectors) - 1 : ErasedAt(free_indirectors, p)[j] =
             IF j < p THEN free_indirectors[j] ELSE free_indirectors[j + 1]
    BY <2>1, <2>2, ErasedAtSeq
  <2>. QED  BY <1>1, <1>5, <2>3
<1>12. /\ indirectors' \in Seq(Indirector) /\ Capacity' = Capacity
       /\ DOMAIN indirectors' = 1..Capacity
       /\ indirectors'[k] = [real_index |-> r, version |-> older]
       /\ \A j \in 1..Capacity : j # k /\ r <= Size /\ j = moved =>
            indirectors'[j] = [real_index |-> Size + 1, version |-> indirectors[j].version]
       /\ \A j \in 1..Capacity : j # k /\ ~(r <= Size /\ j = moved) =>
            indirectors'[j] = indirectors[j]
  <2>1. [real_index |-> r, version |-> older] \in Indirector
    <3>1. Size < Capacity
      BY <1>1, <1>5
    <3>. QED  BY <3>1, <1>1, <1>6, <1>7 DEF Indirector
  <2>2. \A j \in 1..Capacity : Size < Capacity => Redirected(indirectors[j], Size + 1) \in Indirector
    BY <1>1 DEF Indirector, Redirected
  <2>3. Size < Capacity
    BY <1>1, <1>5
  <2>4. indirectors' \in [1..Capacity -> Indirector]
    BY <1>1, <1>8, <2>1, <2>2, <2>3
  <2>5. indirectors' \in Seq(Indirector) /\ Capacity' = Capacity
    BY <1>1, <2>4, FunctionIsSeq DEF Capacity
  <2>. QED  BY <1>1, <1>6, <1>8, <2>4, <2>5 DEF Redirected
<1>13. r <= Size => moved \in 1..Capacity /\ moved # k /\ indirectors[moved].real_index = r
  BY <1>1, <1>2, <1>6 DEF Unused
<1>. HIDE DEF moved
<1>14. PointersPair'
  <2>1. ASSUME NEW i \in 1..Size + 1
        PROVE  slots'[i] \in 1..Capacity /\ indirectors'[slots'[i]].real_index = i
    <3>1. CASE i = r
      BY <3>1, <1>6, <1>9, <1>12
    <3>2. CASE i # r /\ i = Size + 1
      <4>1. r <= Size
        BY <3>2, <1>1, <1>6
      <4>. QED  BY <3>2, <4>1, <1>9, <1>12, <1>13
    <3>3. CASE i # r /\ i # Size + 1
      <4>1. i \in 1..Size /\ slots[i] # k /\ ~(r <= Size /\ slots[i] = moved)
        BY <3>3, <1>1, <1>2, <1>6, <1>13 DEF Unused
      <4>. QED  BY <3>3, <4>1, <1>2, <1>9, <1>12
    <3>. QED  BY <3>1, <3>2, <3>3
  <2>2. ASSUME NEW j \in 1..Capacity, indirectors'[j].real_index # Unused
        PROVE  /\ indirectors'[j].real_index \in 1..Size + 1
               /\ slots'[indirectors'[j].real_index] = j
    <3>1. CASE j = k
      BY <3>1, <1>6, <1>9, <1>12
    <3>2. CASE j # k /\ r <= Size /\ j = moved
      <4>1. Size + 1 \in 1..Size + 1 /\ Size + 1 # r
        BY <3>2, <1>1, <1>6
      <4>. QED  BY <3>2, <4>1, <1>9, <1>12
    <3>3. CASE j # k /\ ~(r <= Size /\ j = moved)
      <4>1. indirectors'[j] = indirectors[j]
        BY <3>3, <1>12
      <4>2. indirectors[j].real_index \in 1..Size /\ slots[indirectors[j].real_index] = j
        BY <2>2, <4>1, <1>3
      <4>3. indirectors[j].real_index # r
        BY <3>3, <4>2, <1>1 DEF moved
      <4>. QED  BY <4>1, <4>2, <4>3, <1>1, <1>9
    <3>. QED  BY <3>1, <3>2, <3>3
  <2>. QED  BY <2>1, <2>2, <1>9, <1>10, <1>12 DEF PointersPair
<1>15. FreeListExact'
  <2>1. ASSUME NEW i \in 1..Capacity - Size - 1
        PROVE  \E q \in 1..Capacity - Size :
                 /\ q # p /\ free_indirectors'[i] = free_indirectors[q]
                 /\ q = IF i < p THEN i ELSE i + 1
    BY <1>1, <1>5, <1>11
  <2>2. ASSUME NEW i \in 1..Capacity - Size - 1
        PROVE  /\ free_indirectors'[i] \in 1..Capacity
               /\ indirectors'[free_indirectors'[i]].real_index = Unused
    <3>1. PICK q \in 1..Capacity - Size : q # p /\ free_indirectors'[i] = free_indirectors[q]
      BY <2>1
    <3>2. /\ free_indirectors[q] \in 1..Capacity
          /\ indirectors[free_indirectors[q]].real_index = Unused
          /\ free_indirectors[q] # k
      BY <3>1, <1>4, <1>5
    <3>3. ~(r <= Size /\ free_indirectors[q] = moved)
      BY <3>2, <1>6, <1>13 DEF Unused
    <3>. QED  BY <3>1, <3>2, <3>3, <1>12
  <2>3. ASSUME NEW i \in 1..Capacity - Size - 1, NEW j \in 1..Capacity - Size - 1,
               free_indirectors'[i] = free_indirectors'[j]
        PROVE  i = j
    <3>1. PICK q \in 1..Capacity - Size :
             free_indirectors'[i] = free_indirectors[q] /\ q = IF i < p THEN i ELSE i + 1
      BY <2>1
    <3>2. PICK s \in 1..Capacity - Size :
             free_indirectors'[j] = free_indirectors[s] /\ s = IF j < p THEN j ELSE j + 1
      BY <2>1
    <3>3. q = s
      BY <2>3, <3>1, <3>2, <1>4
    <3>. QED  BY <3>1, <3>2, <3>3, <1>1, <1>5
  <2>4. Len(free_indirectors') + Size' = Capacity'
    BY <1>1, <1>9, <1>11, <1>12
  <2>. QED  BY <2>2, <2>3, <2>4, <1>11, <1>12 DEF FreeListExact
<1>16. IInv'
  BY <1>1, <1>9, <1>10, <1>11, <1>12, <1>14, <1>15, Reassembled
<1>17. Stable
  <2>. SUFFICES ASSUME NEW other \in Keys, Alive(other), Alive(other)'
                PROVE  Deref(other)' = Deref(other)
    BY DEF Stable
  <2>. DEFINE j == other.indirection_index
  <2>1. j \in 1..Capacity /\ indirectors[j].real_index # Unused
    BY <1>1 DEF Alive
  <2>2. j # k /\ indirectors[j].real_index \in 1..Size /\ slots[indirectors[j].real_index] = j
    BY <2>1, <1>3, <1>6
  <2>. HIDE DEF j
  <2>3. CASE r <= Size /\ j = moved
    <3>1. indirectors'[j].real_index = Size + 1 /\ Size + 1 \in 1..Size + 1 /\ Size + 1 # r
      BY <2>1, <2>2, <2>3, <1>1, <1>12
    <3>2. objects'[Size + 1] = objects[r]
      BY <3>1, <1>10
    <3>. QED  BY <2>3, <3>1, <3>2, <1>13 DEF Deref, j
  <2>4. CASE ~(r <= Size /\ j = moved)
    <3>1. indirectors'[j] = indirectors[j]
      BY <2>1, <2>2, <2>4, <1>12
    <3>2. indirectors[j].real_index # r
      BY <2>2, <2>4, <1>1 DEF moved
    <3>. QED  BY <2>2, <3>1, <3>2, <1>1, <1>10 DEF Deref, j
  <2>. QED  BY <2>3, <2>4
<1>. QED  BY <1>16, <1>17

(* reserve() keeps the invariant: the new indirectors are unused and       *)
(* stacked.                                                                *)
LEMMA ReserveStep ==
  ASSUME IInv, NEW n, n \in 1..MaxSize, Reserve(n)
  PROVE  IInv' /\ Stable
<1>1. /\ MaxSize \in Nat /\ Size \in Nat /\ Capacity \in Nat
      /\ Size <= Capacity /\ Capacity <= MaxSize
      /\ Len(objects) = Size /\ DOMAIN indirectors = 1..Capacity
  BY Shape, PoolAssumption
<1>2. n \in Capacity..MaxSize
  BY <1>1 DEF Reserve
<1>3. /\ indirectors' \in Seq(Indirector) /\ Capacity' = n /\ DOMAIN indirectors' = 1..n
      /\ \A j \in 1..Capacity : indirectors'[j] = indirectors[j]
      /\ \A j \in Capacity + 1..n : indirectors'[j] = FreshIndirector
  BY <1>2, Grown DEF Reserve, Capacity
<1>4. /\ free_indirectors' \in Seq(1..MaxSize) /\ Len(free_indirectors') = n - Size
      /\ DOMAIN free_indirectors' = 1..n - Size
      /\ \A i \in 1..n - Size : /\ free_indirectors'[i] \in 1..n
                                /\ indirectors'[free_indirectors'[i]].real_index = Unused
      /\ \A i, j \in 1..n - Size : free_indirectors'[i] = free_indirectors'[j] => i = j
  BY <1>2, Grown DEF Reserve
<1>5. slots' = slots /\ objects' = objects /\ Size' = Size
  BY DEF Reserve, Size
<1>6. /\ \A i \in 1..Size : /\ slots[i] \in 1..Capacity
                            /\ indirectors[slots[i]].real_index = i
      /\ \A j \in 1..Capacity : indirectors[j].real_index # Unused =>
           indirectors[j].real_index \in 1..Size /\ slots[indirectors[j].real_index] = j
      /\ DOMAIN slots = 1..Size
  BY Shape DEF IInv, Consistent, PointersPair
<1>7. PointersPair'
  <2>1. \A i \in 1..Size : /\ slots[i] \in 1..n /\ indirectors'[slots[i]].real_index = i
    BY <1>1, <1>2, <1>3, <1>6
  <2>2. ASSUME NEW j \in 1..n, indirectors'[j].real_index # Unused
        PROVE  /\ indirectors'[j].real_index \in 1..Size
               /\ slots[indirectors'[j].real_index] = j
    <3>1. j \in 1..Capacity
      BY <2>2, <1>1, <1>3 DEF FreshIndirector
    <3>. QED  BY <2>2, <3>1, <1>3, <1>6
  <2>. QED  BY <2>1, <2>2, <1>1, <1>3, <1>5, <1>6 DEF PointersPair
<1>8. FreeListExact'
  <2>1. Len(free_indirectors') + Size' = Capacity'
    BY <1>1, <1>2, <1>3, <1>4, <1>5
  <2>. QED  BY <2>1, <1>3, <1>4 DEF FreeListExact
<1>9. IInv'
  <2>1. slots' \in Seq(1..MaxSize) /\ objects' \in Seq(Objects) /\ Capacity' <= MaxSize
    BY <1>2, <1>3, <1>5 DEF IInv, TypeOK
  <2>. QED  BY <2>1, <1>3, <1>4, <1>7, <1>8, Reassembled
<1>10. Stable
  <2>. SUFFICES ASSUME NEW other \in Keys, Alive(other), Alive(other)'
                PROVE  Deref(other)' = Deref(other)
    BY DEF Stable
  <2>1. other.indirection_index \in 1..Capacity
    BY <1>1 DEF Alive
  <2>. QED  BY <2>1, <1>3, <1>5 DEF Deref
<1>. QED  BY <1>9, <1>10

(* clear() keeps the invariant: it leaves fresh indirectors, all of them   *)
(* stacked.                                                                *)
LEMMA ClearStep ==
  ASSUME IInv, Clear
  PROVE  IInv' /\ Stable
<1>1. /\ MaxSize \in Nat /\ Capacity \in Nat /\ Capacity <= MaxSize
      /\ VersionSpan \in Nat /\ VersionSpan >= MaxSize + 2
  BY Shape, PoolAssumption
<1>2. FreshIndirector \in Indirector
  BY <1>1 DEF FreshIndirector, Indirector, Unused, Versions
<1>3. /\ indirectors' \in Seq(Indirector) /\ Capacity' = Capacity
      /\ DOMAIN indirectors' = 1..Capacity
      /\ \A k \in 1..Capacity : indirectors'[k] = FreshIndirector
  <2>1. indirectors' \in [1..Capacity -> Indirector]
    BY <1>2 DEF Clear
  <2>2. \A k \in 1..Capacity : indirectors'[k] = FreshIndirector
    BY DEF Clear
  <2>. QED  BY <2>1, <2>2, <1>1, FunctionIsSeq DEF Capacity
<1>4. /\ free_indirectors' \in Seq(1..MaxSize) /\ Len(free_indirectors') = Capacity
      /\ DOMAIN free_indirectors' = 1..Capacity
      /\ \A i \in 1..Capacity : free_indirectors'[i] = Capacity - i + 1
  <2>1. free_indirectors' \in [1..Capacity -> 1..MaxSize]
    BY <1>1 DEF Clear
  <2>2. \A i \in 1..Capacity : free_indirectors'[i] = Capacity - i + 1
    BY DEF Clear
  <2>. QED  BY <2>1, <2>2, <1>1, FunctionIsSeq
<1>5. /\ slots' \in Seq(1..MaxSize) /\ objects' \in Seq(Objects)
      /\ Size' = 0 /\ Len(objects') = 0 /\ DOMAIN slots' = {}
  BY EmptySeq DEF Clear, Size
<1>6. PointersPair'
  BY <1>3, <1>5 DEF PointersPair, FreshIndirector
<1>7. FreeListExact'
  <2>1. \A i \in 1..Capacity : /\ free_indirectors'[i] \in 1..Capacity
                               /\ indirectors'[free_indirectors'[i]].real_index = Unused
    BY <1>1, <1>3, <1>4 DEF FreshIndirector
  <2>2. \A i, j \in 1..Capacity : free_indirectors'[i] = free_indirectors'[j] => i = j
    BY <1>1, <1>4
  <2>3. Len(free_indirectors') + Size' = Capacity'
    BY <1>1, <1>3, <1>4, <1>5
  <2>. QED  BY <2>1, <2>2, <2>3, <1>3, <1>4 DEF FreeListExact
<1>8. IInv'
  BY <1>1, <1>3, <1>4, <1>5, <1>6, <1>7, Reassembled
<1>9. Stable
  BY <1>3 DEF Stable, Alive, FreshIndirector
<1>. QED  BY <1>8, <1>9

(* Distinct values below a bound are at most as many as the bound. *)
LEMMA InjectionFits ==
  ASSUME NEW m \in Nat, NEW n \in Nat, NEW f \in [1..m -> 1..n],
         \A x, y \in 1..m : f[x] = f[y] => x = y
  PROVE  m <= n
<1>. DEFINE S == 1..m
            T == 1..n
<1>1. IsFiniteSet(S) /\ Cardinality(S) = m
  BY FS_Interval
<1>2. IsFiniteSet(T) /\ Cardinality(T) = n
  BY FS_Interval
<1>3. f \in [S -> T] /\ ~(\E x, y \in S : x # y /\ f[x] = f[y])
  OBVIOUS
<1>. HIDE DEF S, T
<1>4. ~(Cardinality(T) < Cardinality(S))
  BY <1>1, <1>2, <1>3, FS_PigeonHole, SMTT(20)
<1>. QED  BY <1>1, <1>2, <1>4

(* There is room for the unused indirectors: the slots name different      *)
(* indirectors, all of them below the rebuilt capacity.                    *)
LEMMA ReadLuaStep ==
  ASSUME IInv, ReadLua
  PROVE  IInv' /\ Stable
<1>1. /\ MaxSize \in Nat /\ Size \in Nat /\ Capacity \in Nat
      /\ Size <= Capacity /\ Capacity <= MaxSize /\ Len(objects) = Size
      /\ DOMAIN slots = 1..Size /\ DOMAIN indirectors = 1..Capacity
      /\ VersionSpan \in Nat /\ VersionSpan >= MaxSize + 2
      /\ \A k \in 1..Capacity : indirectors[k] \in Indirector
      /\ \A i, j \in 1..Size : slots[i] = slots[j] => i = j
  BY Shape, PoolAssumption
<1>2. /\ \A i \in 1..Size : /\ slots[i] \in 1..Capacity
                            /\ indirectors[slots[i]].real_index = i
      /\ \A j \in 1..Capacity : indirectors[j].real_index # Unused =>
           indirectors[j].real_index \in 1..Size /\ slots[indirectors[j].real_index] = j
  BY <1>1 DEF IInv, Consistent, PointersPair
<1>. DEFINE used(n) == {k \in 1..n : indirectors[k].real_index # Unused}
<1>3. PICK n \in 0..Capacity :
         /\ LuaCapacity(n)
         /\ indirectors' = [k \in 1..n |-> IF k \in used(n) THEN indirectors[k]
                                                          ELSE FreshIndirector]
         /\ \E stack \in [1..n - Size -> (1..n) \ used(n)] :
              /\ \A i, j \in 1..n - Size : i < j => stack[i] < stack[j]
              /\ free_indirectors' = stack
         /\ UNCHANGED <<slots, objects>>
  BY DEF ReadLua
<1>4. \A i \in 1..Size : slots[i] \in 1..n
  <2>. TAKE i \in 1..Size
  <2>1. slots[i] \in 1..Capacity
    BY <1>2
  <2>2. slots[i] <= n
    BY <1>1, <1>3 DEF LuaCapacity
  <2>. QED  BY <2>1, <2>2, <1>1
<1>5. Size <= n
  <2>. DEFINE f == [i \in 1..Size |-> slots[i]]
  <2>1. f \in [1..Size -> 1..n] /\ n \in Nat
    BY <1>1, <1>4
  <2>2. \A x, y \in 1..Size : f[x] = f[y] => x = y
    BY <1>1
  <2>. HIDE DEF f
  <2>. QED  BY <2>1, <2>2, <1>1, InjectionFits
<1>6. FreshIndirector \in Indirector
  BY <1>1 DEF FreshIndirector, Indirector, Unused, Versions
<1>7. /\ indirectors' \in Seq(Indirector) /\ Capacity' = n /\ DOMAIN indirectors' = 1..n
      /\ \A k \in 1..n : indirectors'[k] = IF indirectors[k].real_index # Unused
                                           THEN indirectors[k] ELSE FreshIndirector
  <2>1. \A k \in 1..n : k \in 1..Capacity
    BY <1>1
  <2>2. indirectors' \in [1..n -> Indirector] /\ n \in Nat
    BY <1>1, <1>3, <1>6, <2>1
  <2>3. \A k \in 1..n : indirectors'[k] = IF indirectors[k].real_index # Unused
                                          THEN indirectors[k] ELSE FreshIndirector
    BY <1>3
  <2>. QED  BY <2>2, <2>3, FunctionIsSeq DEF Capacity
<1>8. \A k \in 1..n : indirectors'[k].real_index = indirectors[k].real_index
  BY <1>7 DEF FreshIndirector
<1>9. /\ free_indirectors' \in Seq(1..MaxSize) /\ Len(free_indirectors') = n - Size
      /\ DOMAIN free_indirectors' = 1..n - Size
      /\ \A i \in 1..n - Size : /\ free_indirectors'[i] \in 1..n
                                /\ indirectors[free_indirectors'[i]].real_index = Unused
      /\ \A i, j \in 1..n - Size : i < j => free_indirectors'[i] < free_indirectors'[j]
  <2>1. free_indirectors' \in [1..n - Size -> (1..n) \ used(n)]
    BY <1>3
  <2>2. n - Size \in Nat /\ (1..n) \ used(n) \subseteq 1..MaxSize
    BY <1>1, <1>5
  <2>3. free_indirectors' \in [1..n - Size -> 1..MaxSize]
    BY <2>1, <2>2
  <2>4. /\ free_indirectors' \in Seq(1..MaxSize) /\ Len(free_indirectors') = n - Size
        /\ DOMAIN free_indirectors' = 1..n - Size
    BY <2>2, <2>3, FunctionIsSeq
  <2>5. \A i \in 1..n - Size : /\ free_indirectors'[i] \in 1..n
                               /\ indirectors[free_indirectors'[i]].real_index = Unused
    BY <2>1
  <2>6. \A i, j \in 1..n - Size : i < j => free_indirectors'[i] < free_indirectors'[j]
    BY <1>3
  <2>. QED  BY <2>4, <2>5, <2>6
<1>10. slots' = slots /\ objects' = objects /\ Size' = Size
  BY <1>3 DEF Size
<1>11. PointersPair'
  <2>1. \A i \in 1..Size : slots[i] \in 1..n /\ indirectors'[slots[i]].real_index = i
    BY <1>2, <1>4, <1>8
  <2>2. \A j \in 1..n : indirectors'[j].real_index # Unused =>
           /\ indirectors'[j].real_index \in 1..Size
           /\ slots[indirectors'[j].real_index] = j
    BY <1>1, <1>2, <1>8
  <2>. QED  BY <2>1, <2>2, <1>1, <1>7, <1>10 DEF PointersPair
<1>12. FreeListExact'
  <2>1. \A i \in 1..n - Size : /\ free_indirectors'[i] \in 1..n
                               /\ indirectors'[free_indirectors'[i]].real_index = Unused
    BY <1>8, <1>9
  <2>2. \A i, j \in 1..n - Size : free_indirectors'[i] = free_indirectors'[j] => i = j
    <3>1. \A i, j \in 1..n - Size : i < j \/ j < i \/ i = j
      BY <1>1
    <3>2. \A i \in 1..n - Size : free_indirectors'[i] \in Int
      BY <1>9
    <3>. QED  BY <3>1, <3>2, <1>9
  <2>3. Len(free_indirectors') + Size' = Capacity'
    BY <1>1, <1>7, <1>9, <1>10
  <2>. QED  BY <2>1, <2>2, <2>3, <1>7, <1>9 DEF FreeListExact
<1>13. IInv'
  <2>1. slots' \in Seq(1..MaxSize) /\ objects' \in Seq(Objects) /\ Capacity' <= MaxSize
    BY <1>1, <1>7, <1>10 DEF IInv, TypeOK
  <2>. QED  BY <2>1, <1>7, <1>9, <1>11, <1>12, Reassembled
<1>14. Stable
  <2>. SUFFICES ASSUME NEW other \in Keys, Alive(other), Alive(other)'
                PROVE  Deref(other)' = Deref(other)
    BY DEF Stable
  <2>1. other.indirection_index \in 1..n
    BY <1>7 DEF Alive
  <2>. QED  BY <2>1, <1>8, <1>10 DEF Deref
<1>. QED  BY <1>13, <1>14

-----------------------------------------------------------------------------
(* Every operation of the pool, the undoing ones included, keeps the       *)
(* invariant and moves no live object to another id.                       *)
THEOREM NextPreserves ==
  ASSUME IInv, [Next]_vars
  PROVE  IInv' /\ Stable
<1>1. CASE \E o \in Objects : Allocate(o)
  BY <1>1, AllocateStep
<1>2. CASE \E key \in Keys : Free(key)
  BY <1>2, FreeStep
<1>3. CASE \E n \in 1..MaxSize : Reserve(n)
  BY <1>3, ReserveStep
<1>4. CASE Clear
  BY <1>4, ClearStep
<1>5. CASE ReadLua
  BY <1>5, ReadLuaStep
<1>6. CASE \E key \in Keys : UndoLastAllocate(key)
  BY <1>6, UndoLastAllocateStep
<1>7. CASE \E k, r \in 1..MaxSize, o \in Objects : UndoFree(k, r, o)
  BY <1>7, UndoFreeStep
<1>8. CASE UNCHANGED vars
  <2>1. /\ slots' = slots /\ objects' = objects
        /\ indirectors' = indirectors /\ free_indirectors' = free_indirectors
    BY <1>8 DEF vars
  <2>2. IInv'
    BY <2>1 DEF IInv, TypeOK, Consistent, PointersPair, FreeListExact, Size, Capacity
  <2>3. Stable
    BY <2>1 DEF Stable, Deref
  <2>. QED  BY <2>2, <2>3
<1>. QED  BY <1>1, <1>2, <1>3, <1>4, <1>5, <1>6, <1>7, <1>8 DEF Next

(* The inductive invariant holds in every reachable state. *)
THEOREM SpecInvariant == Spec => []IInv
<1>1. IInv /\ [Next]_vars => IInv'
  BY NextPreserves
<1>. QED  BY <1>1, InitInvariant, PTL DEF Spec

(* The pool's arrays stay within their limits and types. *)
THEOREM PoolTypeOK == Spec => []TypeOK
<1>1. IInv => TypeOK
  BY DEF IInv
<1>. QED  BY <1>1, SpecInvariant, PTL

(* Whatever is allocated, freed, undone, cleared or reloaded, slots and    *)
(* indirectors stay paired, no slot leaks and none is handed out twice.    *)
THEOREM PoolConsistent == Spec => []Consistent
<1>1. IInv => Consistent
  BY DEF IInv
<1>. QED  BY <1>1, SpecInvariant, PTL

(* No step makes a live id denote another object.                          *)
THEOREM PoolStableIdentity == Spec => StableIdentity
<1>1. IInv /\ [Next]_vars =>
        [\A key \in Keys : Alive(key) /\ Alive(key)' => Deref(key)' = Deref(key)]_vars
  BY NextPreserves DEF Stable
<1>. QED  BY <1>1, SpecInvariant, PTL DEF Spec, StableIdentity

-----------------------------------------------------------------------------
(* Without undo and without wrapping no version is ever zero, so a spent   *)
(* id is exactly one whose version the indirector has passed.              *)
VersionsPositive == \A k \in DOMAIN indirectors : indirectors[k].version >= 1

LifetimeInv == IInv /\ VersionsPositive

(* The strengthening for pools without undos holds at first: every version *)
(* is at least 1.                                                          *)
LEMMA InitLifetimeInv == Init => LifetimeInv
<1>. SUFFICES ASSUME Init PROVE VersionsPositive
  BY InitInvariant DEF LifetimeInv
<1>1. \A k \in DOMAIN indirectors : indirectors[k] = FreshIndirector
  BY DEF Init
<1>. QED  BY <1>1 DEF VersionsPositive, FreshIndirector

(* A pool just constructed is the empty table. *)
LEMMA InitImplements == Init => Table!Init
<1>. SUFFICES ASSUME Init PROVE Table!Init
  OBVIOUS
<1>1. /\ DOMAIN indirectors = 1..InitialCapacity
      /\ \A k \in 1..InitialCapacity : indirectors[k] = FreshIndirector
  BY DEF Init
<1>2. LiveIds = {}
  BY <1>1 DEF LiveIds, Alive, FreshIndirector
<1>3. RetiredIds = {}
  BY <1>1 DEF RetiredIds, FreshIndirector
<1>. QED  BY <1>2, <1>3 DEF Table!Init, LiveTable

(* What the refinement reads of a step: which ids live and what they       *)
(* denote, and the version of each indirector.                             *)
LEMMA AllocateImplements ==
  ASSUME LifetimeInv, NEW o \in Objects, Allocate(o)
  PROVE  VersionsPositive' /\ \E id \in Keys : Table!Issue(id, o)
<1>. DEFINE n == CapacityForOneMore
            indirs == GrownIndirectors(n)
            unused == GrownFree(n)
            k == unused[Len(unused)]
<1>1. /\ MaxSize \in Nat /\ Size \in Nat /\ Capacity \in Nat
      /\ Size <= Capacity /\ Capacity <= MaxSize
      /\ Size = Capacity => Size < MaxSize
      /\ DOMAIN indirectors = 1..Capacity /\ Len(objects) = Size
      /\ DOMAIN slots = 1..Size
  BY Shape, PoolAssumption DEF LifetimeInv, Allocate, Full, CanExpand
<1>2. n \in Capacity..MaxSize /\ n > Size
  BY <1>1 DEF CapacityForOneMore
<1>3. /\ indirs \in Seq(Indirector) /\ DOMAIN indirs = 1..n
      /\ \A j \in 1..Capacity : indirs[j] = indirectors[j]
      /\ \A j \in Capacity + 1..n : indirs[j] = FreshIndirector
  BY <1>2, Grown DEF LifetimeInv
<1>4. /\ Len(unused) = n - Size
      /\ \A i \in 1..n - Size :
           unused[i] \in 1..n /\ indirs[unused[i]].real_index = Unused
  BY <1>2, Grown DEF LifetimeInv
<1>5. k \in 1..n /\ k \in 1..MaxSize /\ indirs[k].real_index = Unused
  <2>. HIDE DEF n, indirs, unused
  <2>. QED  BY <1>1, <1>2, <1>4
<1>6. /\ indirectors' = [indirs EXCEPT ![k] = Redirected(@, Size + 1)]
      /\ objects' = Append(objects, o)
      /\ slots' = Append(slots, k)
  BY DEF Allocate
<1>. HIDE DEF n, indirs, unused, k
<1>7. indirs[k] \in Indirector
  <2>1. Len(indirs) = n
    BY <1>2, Grown DEF LifetimeInv, indirs
  <2>. QED  BY <1>3, <1>5, <2>1, ElementOfSeq
<1>8. /\ DOMAIN indirectors' = 1..n
      /\ indirectors'[k].real_index = Size + 1
      /\ indirectors'[k].version = indirs[k].version
      /\ \A j \in 1..n : j # k => indirectors'[j] = indirs[j]
  BY <1>3, <1>5, <1>6 DEF Redirected
<1>9. /\ objects'[Size + 1] = o
      /\ \A j \in 1..Size : objects'[j] = objects[j]
  BY <1>1, <1>6, AppendSeq DEF LifetimeInv, IInv, TypeOK
<1>10. PICK id \in Keys :
         /\ id = [indirection_index |-> k, version |-> indirs[k].version]
         /\ k \in 1..Capacity => indirectors[k] = indirs[k]
         /\ k \notin 1..Capacity => indirs[k].version = 1
  <2>1. k \in 1..Capacity => indirectors[k] = indirs[k]
    BY <1>3
  <2>2. k \notin 1..Capacity => indirs[k].version = 1
    BY <1>1, <1>2, <1>3, <1>5 DEF FreshIndirector
  <2>3. [indirection_index |-> k, version |-> indirs[k].version] \in Keys
    BY <1>5, <1>7 DEF Keys, Indirector
  <2>. QED  BY <2>1, <2>2, <2>3
<1>11. \A j \in 1..Capacity : indirectors[j].real_index # Unused =>
          indirectors[j].real_index \in 1..Size
  BY <1>1 DEF LifetimeInv, IInv, Consistent, PointersPair
<1>12. \A j \in 1..n : indirectors'[j].version =
          IF j \in 1..Capacity THEN indirectors[j].version ELSE 1
  BY <1>1, <1>2, <1>3, <1>8, <1>10 DEF FreshIndirector
<1>13. VersionsPositive'
  BY <1>1, <1>8, <1>12 DEF LifetimeInv, VersionsPositive
<1>14. id \notin LiveIds \cup RetiredIds
  <2>1. id \notin LiveIds
    BY <1>1, <1>5, <1>10 DEF LiveIds, Alive
  <2>2. id \notin RetiredIds
    BY <1>1, <1>7, <1>10 DEF RetiredIds, Indirector, Versions
  <2>. QED  BY <2>1, <2>2
<1>15. ASSUME NEW key \in Keys
       PROVE  Alive(key)' <=> Alive(key) \/ key = id
  <2>. DEFINE j == key.indirection_index
  <2>1. CASE j \notin 1..n
    BY <2>1, <1>1, <1>2, <1>5, <1>8, <1>10 DEF Alive
  <2>2. CASE j = k
    <3>1. ~Alive(key)
      BY <2>2, <1>1, <1>5, <1>10 DEF Alive
    <3>2. Alive(key)' <=> key.version = indirs[k].version
      BY <2>2, <1>1, <1>5, <1>8 DEF Alive, Unused
    <3>3. key = id <=> key.version = indirs[k].version
      BY <2>2, <1>10 DEF Keys
    <3>. QED  BY <3>1, <3>2, <3>3
  <2>3. CASE j \in 1..Capacity /\ j # k
    BY <2>3, <1>1, <1>2, <1>3, <1>8, <1>10 DEF Alive
  <2>4. CASE j \in Capacity + 1..n /\ j # k
    <3>1. ~Alive(key) /\ ~Alive(key)' /\ key # id
      BY <2>4, <1>1, <1>3, <1>8, <1>10 DEF Alive, FreshIndirector
    <3>. QED  BY <3>1
  <2>. QED  BY <2>1, <2>2, <2>3, <2>4, <1>1, <1>2
<1>16. LiveIds' = LiveIds \cup {id}
  BY <1>10, <1>15 DEF LiveIds
<1>17. \A key \in LiveIds : Deref(key)' = Deref(key)
  BY <1>15, AllocateStep DEF LifetimeInv, Stable, LiveIds
<1>18. Deref(id)' = o
  BY <1>8, <1>9, <1>10 DEF Deref
<1>19. LiveTable' = [i \in LiveIds \cup {id} |-> IF i = id THEN o ELSE LiveTable[i]]
  <2>1. LiveTable' = [key \in LiveIds \cup {id} |-> Deref(key)']
    BY <1>16 DEF LiveTable
  <2>2. \A key \in LiveIds : key # id /\ LiveTable[key] = Deref(key)'
    BY <1>14, <1>17 DEF LiveTable
  <2>. QED  BY <2>1, <2>2, <1>18
<1>20. RetiredIds' = RetiredIds
  <2>1. ASSUME NEW key \in Keys
        PROVE  key \in RetiredIds' <=> key \in RetiredIds
    <3>1. CASE key.indirection_index \in 1..Capacity
      BY <3>1, <1>1, <1>2, <1>8, <1>12 DEF RetiredIds
    <3>2. CASE key.indirection_index \notin 1..Capacity
      BY <3>2, <1>1, <1>2, <1>8, <1>12 DEF RetiredIds
    <3>. QED  BY <3>1, <3>2
  <2>. QED  BY <2>1 DEF RetiredIds
<1>21. DOMAIN LiveTable = LiveIds
  BY DEF LiveTable
<1>22. Table!Issue(id, o)
  BY <1>14, <1>19, <1>20, <1>21 DEF Table!Issue
<1>. QED  BY <1>13, <1>22

(* free() retires exactly the id it is given. *)
LEMMA FreeImplements ==
  ASSUME LifetimeInv, NEW id \in Keys, id.version + 1 < VersionSpan, Free(id)
  PROVE  VersionsPositive' /\ Table!Retire(id)
<1>1. /\ MaxSize \in Nat /\ Size \in Nat /\ Capacity \in Nat
      /\ VersionSpan \in Nat /\ VersionSpan > 0
      /\ DOMAIN indirectors = 1..Capacity
      /\ \A j \in 1..Capacity : indirectors[j] \in Indirector
  BY Shape, PoolAssumption DEF LifetimeInv
<1>2. /\ \A i \in 1..Size : /\ slots[i] \in 1..Capacity
                            /\ indirectors[slots[i]].real_index = i
      /\ \A j \in 1..Capacity : indirectors[j].real_index # Unused =>
           indirectors[j].real_index \in 1..Size /\ slots[indirectors[j].real_index] = j
  BY Shape DEF LifetimeInv, IInv, Consistent, PointersPair
<1>. DEFINE k == id.indirection_index
            removed == indirectors[k].real_index
<1>3. /\ Alive(id) /\ k \in 1..Capacity /\ removed \in 1..Size
      /\ indirectors[k].version = id.version
  BY <1>1, <1>2 DEF Free, Alive
<1>4. (indirectors[k].version + 1) % VersionSpan = id.version + 1
  <2>1. id.version \in Nat
    BY DEF Keys, Versions
  <2>. QED  BY <1>1, <1>3, <2>1, SmallStays
<1>5. /\ DOMAIN indirectors' = 1..Capacity
      /\ indirectors'[k] = [real_index |-> Unused, version |-> id.version + 1]
      /\ \A j \in 1..Capacity : j # k =>
           /\ indirectors'[j].version = indirectors[j].version
           /\ indirectors'[j].real_index =
                IF j = slots[Size] THEN removed ELSE indirectors[j].real_index
  BY <1>1, <1>3, <1>4 DEF Free, Redirected
<1>6. \A j \in 1..Capacity : j # k =>
         (indirectors'[j].real_index # Unused <=> indirectors[j].real_index # Unused)
  BY <1>1, <1>2, <1>3, <1>5 DEF Unused
<1>7. VersionsPositive'
  <2>1. \A j \in 1..Capacity : indirectors[j].version >= 1
    BY <1>1 DEF LifetimeInv, VersionsPositive
  <2>2. indirectors'[k].version >= 1
    BY <1>5 DEF Keys, Versions
  <2>3. \A j \in 1..Capacity : j # k => indirectors'[j].version >= 1
    BY <2>1, <1>5
  <2>. QED  BY <2>2, <2>3, <1>5 DEF VersionsPositive
<1>8. ASSUME NEW key \in Keys
      PROVE  Alive(key)' <=> Alive(key) /\ key # id
  <2>1. CASE key.indirection_index = k
    BY <2>1, <1>1, <1>3, <1>5 DEF Alive, Keys
  <2>2. CASE key.indirection_index # k
    BY <2>2, <1>1, <1>5, <1>6 DEF Alive
  <2>. QED  BY <2>1, <2>2
<1>9. LiveIds' = LiveIds \ {id}
  BY <1>8 DEF LiveIds
<1>10. \A key \in LiveIds \ {id} : Deref(key)' = Deref(key)
  BY <1>8, FreeStep DEF LifetimeInv, Stable, LiveIds
<1>11. LiveTable' = [key \in LiveIds \ {id} |-> LiveTable[key]]
  <2>1. LiveTable' = [key \in LiveIds \ {id} |-> Deref(key)']
    BY <1>9 DEF LiveTable
  <2>2. \A key \in LiveIds \ {id} : LiveTable[key] = Deref(key)'
    BY <1>10 DEF LiveTable
  <2>. QED  BY <2>1, <2>2
<1>12. ASSUME NEW key \in Keys
       PROVE  key \in RetiredIds' <=> key \in RetiredIds \/ key = id
  <2>1. key.version \in Nat /\ id.version \in Nat
    BY DEF Keys, Versions
  <2>2. CASE key.indirection_index = k
    <3>1. key = id <=> key.version = id.version
      BY <2>2 DEF Keys
    <3>2. id.version >= 1
      BY <1>1, <1>3 DEF LifetimeInv, VersionsPositive
    <3>3. PICK old, new : old = id.version /\ new = key.version
      OBVIOUS
    <3>4. indirectors[k].version = old /\ indirectors'[k].version = old + 1 /\ k \in 1..Capacity
      BY <1>3, <1>5, <3>3
    <3>5. key \in RetiredIds <=> new \in 1..old - 1
      BY <1>1, <2>2, <3>3, <3>4 DEF RetiredIds
    <3>6. key \in RetiredIds' <=> new \in 1..(old + 1) - 1
      BY <1>5, <2>2, <3>3, <3>4 DEF RetiredIds
    <3>7. new \in 1..(old + 1) - 1 <=> new \in 1..old - 1 \/ new = old
      BY ONLY <2>1, <3>2, <3>3
    <3>. QED  BY ONLY <3>1, <3>3, <3>5, <3>6, <3>7
  <2>3. CASE key.indirection_index # k
    BY <2>3, <1>1, <1>5 DEF RetiredIds
  <2>. QED  BY <2>2, <2>3
<1>13. RetiredIds' = RetiredIds \cup {id}
  BY <1>12 DEF RetiredIds
<1>14. id \in DOMAIN LiveTable /\ DOMAIN LiveTable = LiveIds
  BY <1>3 DEF LiveTable, LiveIds
<1>. QED  BY <1>7, <1>11, <1>13, <1>14 DEF Table!Retire

(* reserve() is a stuttering step of the table. *)
LEMMA ReserveImplements ==
  ASSUME LifetimeInv, NEW n, n \in 1..MaxSize, Reserve(n)
  PROVE  VersionsPositive' /\ UNCHANGED <<LiveTable, RetiredIds>>
<1>1. /\ MaxSize \in Nat /\ Capacity \in Nat /\ DOMAIN indirectors = 1..Capacity
  BY Shape, PoolAssumption DEF LifetimeInv
<1>2. n \in Capacity..MaxSize
  BY <1>1 DEF Reserve
<1>3. /\ DOMAIN indirectors' = 1..n
      /\ \A j \in 1..Capacity : indirectors'[j] = indirectors[j]
      /\ \A j \in Capacity + 1..n : indirectors'[j] = FreshIndirector
  BY <1>2, Grown DEF Reserve, LifetimeInv
<1>4. \A key \in Keys : Alive(key)' <=> Alive(key)
  BY <1>1, <1>2, <1>3 DEF Alive, FreshIndirector
<1>5. LiveIds' = LiveIds
  BY <1>4 DEF LiveIds
<1>6. \A key \in LiveIds : Deref(key)' = Deref(key)
  BY <1>4, ReserveStep DEF LifetimeInv, Stable, LiveIds
<1>7. LiveTable' = LiveTable
  BY <1>5, <1>6 DEF LiveTable
<1>8. ASSUME NEW key \in Keys
      PROVE  key \in RetiredIds' <=> key \in RetiredIds
  <2>1. CASE key.indirection_index \in 1..Capacity
    BY <2>1, <1>1, <1>2, <1>3 DEF RetiredIds
  <2>2. CASE key.indirection_index \notin 1..Capacity
    <3>1. key.indirection_index \in 1..n => indirectors'[key.indirection_index].version = 1
      BY <2>2, <1>1, <1>2, <1>3 DEF FreshIndirector
    <3>. QED  BY <2>2, <3>1, <1>1, <1>3 DEF RetiredIds
  <2>. QED  BY <2>1, <2>2
<1>9. RetiredIds' = RetiredIds
  BY <1>8 DEF RetiredIds
<1>10. VersionsPositive'
  BY <1>1, <1>2, <1>3 DEF LifetimeInv, VersionsPositive, FreshIndirector
<1>. QED  BY <1>7, <1>9, <1>10

(* clear() drops every id and the record of the spent ones. *)
LEMMA ClearImplements ==
  ASSUME LifetimeInv, Clear
  PROVE  VersionsPositive' /\ Table!Reset
<1>1. \A k \in DOMAIN indirectors' : indirectors'[k] = FreshIndirector
  BY DEF Clear
<1>2. LiveIds' = {}
  BY <1>1 DEF LiveIds, Alive, FreshIndirector
<1>3. RetiredIds' = {}
  BY <1>1 DEF RetiredIds, FreshIndirector
<1>4. VersionsPositive'
  BY <1>1 DEF VersionsPositive, FreshIndirector
<1>. QED  BY <1>2, <1>3, <1>4 DEF Table!Reset, LiveTable

(* The Lua round trip keeps every living id and may lose spent ones. *)
LEMMA ReadLuaImplements ==
  ASSUME LifetimeInv, ReadLua
  PROVE  VersionsPositive' /\ Table!Reload
<1>1. /\ Capacity \in Nat /\ DOMAIN indirectors = 1..Capacity /\ DOMAIN slots = 1..Size
  BY Shape DEF LifetimeInv
<1>2. PICK n \in 0..Capacity :
         /\ LuaCapacity(n)
         /\ indirectors' = [k \in 1..n |->
              IF k \in {j \in 1..n : indirectors[j].real_index # Unused}
              THEN indirectors[k] ELSE FreshIndirector]
  BY DEF ReadLua
<1>3. /\ DOMAIN indirectors' = 1..n
      /\ \A k \in 1..n : /\ k \in 1..Capacity
                         /\ indirectors'[k] = IF indirectors[k].real_index # Unused
                                              THEN indirectors[k] ELSE FreshIndirector
  BY <1>1, <1>2
<1>4. \A k \in 1..Capacity : indirectors[k].real_index # Unused => k \in 1..n
  <2>. TAKE k \in 1..Capacity
  <2>. HAVE indirectors[k].real_index # Unused
  <2>1. \E i \in DOMAIN slots : slots[i] = k
    BY <1>1 DEF LifetimeInv, IInv, Consistent, PointersPair
  <2>. QED  BY <2>1, <1>1, <1>2 DEF LuaCapacity
<1>5. \A key \in Keys : Alive(key)' <=> Alive(key)
  BY <1>1, <1>3, <1>4 DEF Alive, FreshIndirector
<1>6. LiveIds' = LiveIds
  BY <1>5 DEF LiveIds
<1>7. \A key \in LiveIds : Deref(key)' = Deref(key)
  BY <1>5, ReadLuaStep DEF LifetimeInv, Stable, LiveIds
<1>8. LiveTable' = LiveTable
  BY <1>6, <1>7 DEF LiveTable
<1>9. ASSUME NEW key \in RetiredIds'
      PROVE  key \in RetiredIds
  <2>1. /\ key \in Keys /\ key.indirection_index \in 1..n
        /\ key.version \in 1..indirectors'[key.indirection_index].version - 1
    BY <1>3 DEF RetiredIds
  <2>2. indirectors'[key.indirection_index] = indirectors[key.indirection_index]
    BY <2>1, <1>3 DEF FreshIndirector
  <2>. QED  BY <2>1, <2>2, <1>1, <1>3 DEF RetiredIds
<1>10. RetiredIds' \in SUBSET RetiredIds
  BY <1>9
<1>11. VersionsPositive'
  BY <1>1, <1>3 DEF LifetimeInv, VersionsPositive, FreshIndirector
<1>. QED  BY <1>8, <1>10, <1>11 DEF Table!Reload

(* Until a version wraps, the pool is a table that issues an id at most    *)
(* once between two losses of its record of spent ids.                     *)
THEOREM PoolImplementsTable == LifetimeSpec => ImplementsTable
<1>1. LifetimeNext => Next
  BY DEF LifetimeNext, Next
<1>2. LifetimeInv /\ [LifetimeNext]_vars => LifetimeInv' /\ [Table!Next]_Table!vars
  <2>. SUFFICES ASSUME LifetimeInv, [LifetimeNext]_vars
                PROVE  VersionsPositive' /\ [Table!Next]_Table!vars
    BY <1>1, NextPreserves DEF LifetimeInv
  <2>1. ASSUME NEW o \in Objects, Allocate(o)
        PROVE  VersionsPositive' /\ [Table!Next]_Table!vars
    BY <2>1, AllocateImplements DEF Table!Next
  <2>2. ASSUME NEW key \in Keys, key.version + 1 < VersionSpan, Free(key)
        PROVE  VersionsPositive' /\ [Table!Next]_Table!vars
    BY <2>2, FreeImplements DEF Table!Next
  <2>3. ASSUME NEW n \in 1..MaxSize, Reserve(n)
        PROVE  VersionsPositive' /\ [Table!Next]_Table!vars
    BY <2>3, ReserveImplements DEF Table!vars
  <2>4. CASE Clear
    BY <2>4, ClearImplements DEF Table!Next
  <2>5. CASE ReadLua
    BY <2>5, ReadLuaImplements DEF Table!Next
  <2>6. CASE UNCHANGED vars
    <3>1. UNCHANGED <<LiveTable, RetiredIds>>
      BY <2>6 DEF vars, LiveTable, LiveIds, RetiredIds, Alive, Deref
    <3>2. VersionsPositive'
      BY <2>6 DEF vars, LifetimeInv, VersionsPositive
    <3>. QED  BY <3>1, <3>2 DEF Table!vars
  <2>. QED  BY <2>1, <2>2, <2>3, <2>4, <2>5, <2>6 DEF LifetimeNext
<1>. QED
  BY <1>2, InitLifetimeInv, InitImplements, PTL DEF LifetimeSpec, ImplementsTable, Table!Spec
-----------------------------------------------------------------------------
(* What undo_last_allocate() and undo_free() restore. An undone allocation *)
(* leaves the pool as large as it has grown, so what comes back is the     *)
(* pool as a whole: with every indirector it may ever have, those not yet  *)
(* reserved fresh and at the bottom of the stack, the lowest on top.       *)
Whole ==
  [slots       |-> slots,
   indirectors |-> [k \in 1..MaxSize |-> IF k <= Capacity THEN indirectors[k] ELSE FreshIndirector],
   free        |-> [i \in 1..MaxSize - Size |->
                      IF i <= MaxSize - Capacity THEN MaxSize - i + 1
                      ELSE free_indirectors[i - (MaxSize - Capacity)]]]

Height(z) == MaxSize - Len(z.slots)

(* Whole pools are paired and stacked as Consistent says. *)
Sound(z) ==
  /\ z = [slots |-> z.slots, indirectors |-> z.indirectors, free |-> z.free]
  /\ z.slots \in Seq(1..MaxSize) /\ Len(z.slots) <= MaxSize
  /\ z.indirectors \in [1..MaxSize -> Indirector]
  /\ z.free \in [1..Height(z) -> 1..MaxSize]
  /\ \A i \in 1..Len(z.slots) : z.indirectors[z.slots[i]].real_index = i
  /\ \A k \in 1..MaxSize : z.indirectors[k].real_index # Unused =>
       /\ z.indirectors[k].real_index \in 1..Len(z.slots)
       /\ z.slots[z.indirectors[k].real_index] = k
  /\ \A i \in 1..Height(z) : z.indirectors[z.free[i]].real_index = Unused

Lives(z) ==
  {key \in Keys : /\ z.indirectors[key.indirection_index].version = key.version
                  /\ z.indirectors[key.indirection_index].real_index # Unused}

(* The id of the object allocated last. *)
Newest(z) ==
  LET k == z.slots[Len(z.slots)]
  IN [indirection_index |-> k, version |-> z.indirectors[k].version]

(* The whole pool after an allocation, and after a free(). *)
Allocated(z) ==
  LET k == z.free[Height(z)]
  IN [slots       |-> Append(z.slots, k),
      indirectors |-> [z.indirectors EXCEPT ![k] = Redirected(@, Len(z.slots) + 1)],
      free        |-> [i \in 1..Height(z) - 1 |-> z.free[i]]]

Freed(z, k) ==
  LET removed == z.indirectors[k].real_index
  IN [slots       |-> SwapRemove(z.slots, removed),
      indirectors |->
        [i \in 1..MaxSize |->
           IF i = k
           THEN [real_index |-> Unused,
                 version    |-> (z.indirectors[k].version + 1) % VersionSpan]
           ELSE IF i = z.slots[Len(z.slots)]
           THEN Redirected(z.indirectors[i], removed)
           ELSE z.indirectors[i]],
      free        |-> [i \in 1..Height(z) + 1 |-> IF i <= Height(z) THEN z.free[i] ELSE k]]

(* Adding the unreserved indirectors to a consistent pool pairs none and   *)
(* stacks each of them once.                                               *)
LEMMA WholeIsSound ==
  ASSUME IInv
  PROVE  /\ Sound(Whole)
         /\ Lives(Whole) = LiveIds
         /\ Full <=> Len(Whole.slots) = MaxSize
<1>1. /\ MaxSize \in Nat /\ Size \in Nat /\ Capacity \in Nat
      /\ Size <= Capacity /\ Capacity <= MaxSize
      /\ VersionSpan \in Nat /\ VersionSpan >= MaxSize + 2
      /\ Len(free_indirectors) = Capacity - Size
      /\ DOMAIN slots = 1..Size /\ DOMAIN indirectors = 1..Capacity
      /\ \A k \in 1..Capacity : indirectors[k] \in Indirector
      /\ \A i \in 1..Capacity - Size : free_indirectors[i] \in 1..Capacity
      /\ \A i \in 1..Size : slots[i] \in 1..Capacity
  BY Shape, PoolAssumption
<1>2. /\ \A i \in 1..Size : indirectors[slots[i]].real_index = i
      /\ \A k \in 1..Capacity : indirectors[k].real_index # Unused =>
           /\ indirectors[k].real_index \in 1..Size
           /\ slots[indirectors[k].real_index] = k
      /\ \A i \in 1..Capacity - Size : indirectors[free_indirectors[i]].real_index = Unused
  BY <1>1, Shape DEF IInv, Consistent, PointersPair, FreeListExact
<1>3. FreshIndirector \in Indirector /\ FreshIndirector.real_index = Unused
  BY <1>1 DEF FreshIndirector, Indirector, Unused, Versions
<1>. DEFINE ever  == Whole.indirectors
            stack == Whole.free
<1>4. Whole.slots = slots /\ Len(Whole.slots) = Size /\ Height(Whole) = MaxSize - Size
  BY DEF Whole, Size, Height
<1>5. /\ ever \in [1..MaxSize -> Indirector]
      /\ \A k \in 1..MaxSize : ever[k] = IF k <= Capacity THEN indirectors[k] ELSE FreshIndirector
  BY <1>1, <1>3 DEF Whole
<1>6. /\ stack \in [1..MaxSize - Size -> 1..MaxSize]
      /\ \A i \in 1..MaxSize - Size :
           stack[i] = IF i <= MaxSize - Capacity THEN MaxSize - i + 1
                      ELSE free_indirectors[i - (MaxSize - Capacity)]
  <2>1. \A i \in 1..MaxSize - Size : stack[i] =
           IF i <= MaxSize - Capacity THEN MaxSize - i + 1
           ELSE free_indirectors[i - (MaxSize - Capacity)]
    BY DEF Whole
  <2>2. \A i \in 1..MaxSize - Size :
           (IF i <= MaxSize - Capacity THEN MaxSize - i + 1
            ELSE free_indirectors[i - (MaxSize - Capacity)]) \in 1..MaxSize
    <3>. TAKE i \in 1..MaxSize - Size
    <3>1. CASE i <= MaxSize - Capacity
      BY <3>1, <1>1
    <3>2. CASE ~(i <= MaxSize - Capacity)
      <4>1. i - (MaxSize - Capacity) \in 1..Capacity - Size
        BY <3>2, <1>1
      <4>. QED  BY <3>2, <4>1, <1>1
    <3>. QED  BY <3>1, <3>2
  <2>. QED  BY <2>1, <2>2 DEF Whole
<1>7. slots \in Seq(1..MaxSize)
  BY DEF IInv, TypeOK
<1>8. Whole = [slots |-> Whole.slots, indirectors |-> ever, free |-> stack]
  BY DEF Whole
<1>. HIDE DEF ever, stack
<1>9. \A i \in 1..Size : ever[slots[i]].real_index = i
  <2>. TAKE i \in 1..Size
  <2>1. slots[i] \in 1..Capacity /\ slots[i] \in 1..MaxSize
    BY <1>1
  <2>. QED  BY <2>1, <1>1, <1>2, <1>5
<1>10. \A k \in 1..MaxSize : ever[k].real_index # Unused =>
          ever[k].real_index \in 1..Size /\ slots[ever[k].real_index] = k
  BY <1>1, <1>2, <1>3, <1>5
<1>11. \A i \in 1..MaxSize - Size : ever[stack[i]].real_index = Unused
  <2>. TAKE i \in 1..MaxSize - Size
  <2>1. CASE i <= MaxSize - Capacity
    <3>1. stack[i] \in 1..MaxSize /\ ~(stack[i] <= Capacity)
      BY <2>1, <1>1, <1>6
    <3>. QED  BY <3>1, <1>3, <1>5
  <2>2. CASE ~(i <= MaxSize - Capacity)
    <3>1. i - (MaxSize - Capacity) \in 1..Capacity - Size
      BY <2>2, <1>1
    <3>. DEFINE j == i - (MaxSize - Capacity)
    <3>3. stack[i] = free_indirectors[j]
      BY <2>2, <1>6
    <3>4. free_indirectors[j] \in 1..Capacity /\ indirectors[free_indirectors[j]].real_index = Unused
      BY <3>1, <1>1, <1>2
    <3>2. stack[i] \in 1..Capacity /\ indirectors[stack[i]].real_index = Unused
      BY <3>3, <3>4
    <3>. QED  BY <3>2, <1>1, <1>5
  <2>. QED  BY <2>1, <2>2
<1>12. Sound(Whole)
  BY <1>1, <1>4, <1>5, <1>6, <1>7, <1>8, <1>9, <1>10, <1>11 DEF Sound, ever, stack
<1>13. Lives(Whole) = LiveIds
  <2>1. ASSUME NEW key \in Keys
        PROVE  key \in Lives(Whole) <=> key \in LiveIds
    <3>1. key.indirection_index \in 1..MaxSize
      BY DEF Keys
    <3>. QED  BY <3>1, <1>1, <1>3, <1>5 DEF Lives, LiveIds, Alive, ever
  <2>. QED  BY <2>1 DEF Lives, LiveIds
<1>14. Full <=> Len(Whole.slots) = MaxSize
  BY <1>1, <1>4 DEF Full, CanExpand
<1>. QED  BY <1>12, <1>13, <1>14

(* An allocated object has the id on top of the stack, which no living     *)
(* object had; the others keep theirs.                                     *)
LEMMA AllocatedLives ==
  ASSUME NEW z, Sound(z), Len(z.slots) < MaxSize
  PROVE  /\ Newest(Allocated(z)) \in Keys \ Lives(z)
         /\ Lives(Allocated(z)) = Lives(z) \cup {Newest(Allocated(z))}
<1>. DEFINE k == z.free[Height(z)]
            n == Len(z.slots)
<1>1. MaxSize \in Nat /\ n \in Nat /\ Height(z) \in 1..MaxSize /\ k \in 1..MaxSize
  BY PoolAssumption DEF Sound, Height
<1>2. /\ z.indirectors \in [1..MaxSize -> Indirector]
      /\ z.indirectors[k].real_index = Unused
      /\ z.indirectors[k].version \in Versions
  BY <1>1 DEF Sound, Indirector
<1>3. Allocated(z).slots = Append(z.slots, k) /\ z.slots \in Seq(1..MaxSize)
  BY DEF Allocated, Sound
<1>4. /\ Len(Allocated(z).slots) = n + 1 /\ Allocated(z).slots[n + 1] = k
  BY <1>1, <1>3, AppendSeq
<1>5. /\ Allocated(z).indirectors[k] = [real_index |-> n + 1, version |-> z.indirectors[k].version]
      /\ \A j \in 1..MaxSize : j # k => Allocated(z).indirectors[j] = z.indirectors[j]
  BY <1>1, <1>2 DEF Allocated, Redirected
<1>. HIDE DEF k, n
<1>6. Newest(Allocated(z)) = [indirection_index |-> k, version |-> z.indirectors[k].version]
  BY <1>4, <1>5 DEF Newest
<1>7. Newest(Allocated(z)) \in Keys
  BY <1>1, <1>2, <1>6 DEF Keys
<1>8. Newest(Allocated(z)) \notin Lives(z)
  BY <1>2, <1>6 DEF Lives
<1>9. ASSUME NEW key \in Keys
      PROVE  key \in Lives(Allocated(z)) <=> key \in Lives(z) \/ key = Newest(Allocated(z))
  <2>1. /\ key.indirection_index \in 1..MaxSize
        /\ key = [indirection_index |-> key.indirection_index, version |-> key.version]
    BY DEF Keys
  <2>2. CASE key.indirection_index = k
    BY <2>1, <2>2, <1>1, <1>2, <1>5, <1>6 DEF Lives, Unused
  <2>3. CASE key.indirection_index # k
    BY <2>1, <2>3, <1>5, <1>6 DEF Lives
  <2>. QED  BY <2>2, <2>3
<1>10. Lives(Allocated(z)) \subseteq Keys /\ Lives(z) \subseteq Keys
  BY DEF Lives
<1>. QED  BY <1>7, <1>8, <1>9, <1>10

(* A freed id is no longer alive; the others are.                          *)
LEMMA FreedLives ==
  ASSUME NEW z, Sound(z), NEW key \in Lives(z)
  PROVE  Lives(Freed(z, key.indirection_index)) = Lives(z) \ {key}
<1>. DEFINE k == key.indirection_index
            n == Len(z.slots)
            removed == z.indirectors[k].real_index
<1>1. /\ MaxSize \in Nat /\ n \in Nat /\ k \in 1..MaxSize /\ removed \in 1..n
      /\ z.indirectors \in [1..MaxSize -> Indirector] /\ removed # Unused
  BY PoolAssumption DEF Sound, Lives, Keys
<1>2. \A i \in 1..MaxSize : Freed(z, k).indirectors[i] =
        IF i = k
        THEN [real_index |-> Unused, version |-> (z.indirectors[k].version + 1) % VersionSpan]
        ELSE IF i = z.slots[n] THEN Redirected(z.indirectors[i], removed) ELSE z.indirectors[i]
  BY DEF Freed
<1>3. /\ n \in 1..n /\ z.indirectors[z.slots[n]].real_index = n
  BY <1>1 DEF Sound
<1>. HIDE DEF k, n, removed
<1>4. ASSUME NEW other \in Keys
      PROVE  other \in Lives(Freed(z, k)) <=> other \in Lives(z) /\ other # key
  <2>1. /\ other.indirection_index \in 1..MaxSize
        /\ other = [indirection_index |-> other.indirection_index, version |-> other.version]
    BY DEF Keys
  <2>2. /\ key = [indirection_index |-> k, version |-> key.version]
        /\ z.indirectors[k].version = key.version
    BY DEF Lives, Keys, k
  <2>3. CASE other.indirection_index = k
    <3>1. other \notin Lives(Freed(z, k))
      BY <2>1, <2>3, <1>2 DEF Lives
    <3>2. other \in Lives(z) => other = key
      BY <2>1, <2>2, <2>3 DEF Lives
    <3>. QED  BY <3>1, <3>2
  <2>4. CASE other.indirection_index # k
    <3>1. other # key
      BY <2>2, <2>4
    <3>2. /\ Freed(z, k).indirectors[other.indirection_index].version
               = z.indirectors[other.indirection_index].version
          /\ Freed(z, k).indirectors[other.indirection_index].real_index # Unused
               <=> z.indirectors[other.indirection_index].real_index # Unused
      <4>. DEFINE j == other.indirection_index
      <4>1. Freed(z, k).indirectors[j] =
              IF j = z.slots[n] THEN Redirected(z.indirectors[j], removed) ELSE z.indirectors[j]
        BY <2>1, <2>4, <1>2
      <4>2. j = z.slots[n] => z.indirectors[j].real_index = n /\ n # Unused
        BY <1>1, <1>3 DEF Unused
      <4>. HIDE DEF j
      <4>3. CASE j = z.slots[n]
        <5>1. Freed(z, k).indirectors[j] = [real_index |-> removed, version |-> z.indirectors[j].version]
          BY <4>1, <4>3 DEF Redirected
        <5>. QED  BY <5>1, <4>2, <4>3, <1>1 DEF j
      <4>. QED  BY <4>1, <4>3 DEF j
    <3>. QED  BY <3>1, <3>2 DEF Lives
  <2>. QED  BY <2>3, <2>4
<1>5. Lives(Freed(z, k)) \subseteq Keys /\ Lives(z) \subseteq Keys
  BY DEF Lives
<1>. QED  BY <1>4, <1>5 DEF k

(* allocate() takes the id on top of the stack of the whole pool, however  *)
(* the pool had to grow for it.                                            *)
LEMMA AllocateWhole ==
  ASSUME IInv, NEW o \in Objects, Allocate(o)
  PROVE  /\ Whole' = Allocated(Whole) /\ Len(Whole.slots) < MaxSize
         /\ Deref(Newest(Whole))' = o
<1>. DEFINE n == CapacityForOneMore
            indirs == GrownIndirectors(n)
            unused == GrownFree(n)
            k == unused[Len(unused)]
<1>1. /\ MaxSize \in Nat /\ Size \in Nat /\ Capacity \in Nat
      /\ Size <= Capacity /\ Capacity <= MaxSize
      /\ Size = Capacity => Size < MaxSize
      /\ Len(objects) = Size
  BY Shape, PoolAssumption DEF Allocate, Full, CanExpand
<1>2. n \in Capacity..MaxSize /\ n > Size /\ (Size < Capacity => n = Capacity)
  BY <1>1 DEF CapacityForOneMore
<1>3. /\ indirs \in Seq(Indirector) /\ Len(indirs) = n /\ DOMAIN indirs = 1..n
      /\ \A j \in 1..Capacity : indirs[j] = indirectors[j]
      /\ \A j \in Capacity + 1..n : indirs[j] = FreshIndirector
  BY <1>2, Grown
<1>4. /\ unused \in Seq(1..MaxSize) /\ Len(unused) = n - Size
      /\ \A i \in 1..n - Size : unused[i] \in 1..n
      /\ \A i \in 1..Capacity - Size : unused[i] = free_indirectors[i]
      /\ \A i \in Capacity - Size + 1..n - Size : unused[i] = n - (i - (Capacity - Size)) + 1
  BY <1>2, Grown
<1>5. /\ free_indirectors' = Popped(unused)
      /\ indirectors' = [indirs EXCEPT ![k] = Redirected(@, Size + 1)]
      /\ slots' = Append(slots, k)
      /\ objects' = Append(objects, o)
  BY DEF Allocate
<1>6. k = unused[n - Size]
  BY <1>4
<1>. HIDE DEF n, indirs, unused, k
<1>7. n - Size \in 1..n - Size /\ k \in 1..n /\ k \in 1..MaxSize
  BY <1>1, <1>2, <1>4, <1>6
<1>8. /\ Size' = Size + 1 /\ slots'[Size + 1] = k /\ Len(slots') = Size + 1
  BY <1>5, <1>7, AppendSeq DEF IInv, TypeOK, Size
<1>9. /\ Capacity' = n
      /\ indirectors'[k] = Redirected(indirs[k], Size + 1)
      /\ \A j \in 1..n : j # k => indirectors'[j] = indirs[j]
  <2>1. /\ indirectors' \in [1..n -> {indirectors'[j] : j \in 1..n}]
        /\ indirectors'[k] = Redirected(indirs[k], Size + 1)
        /\ \A j \in 1..n : j # k => indirectors'[j] = indirs[j]
    BY <1>3, <1>5, <1>7
  <2>2. Len(indirectors') = n
    BY <2>1, <1>2, <1>1, FunctionIsSeq
  <2>. QED  BY <2>1, <2>2 DEF Capacity
<1>10. \A j \in 1..n - Size - 1 : free_indirectors'[j] = unused[j]
  <2>1. Len(unused) > 0
    BY <1>1, <1>2, <1>4
  <2>2. \A j \in 1..Len(unused) - 1 : Popped(unused)[j] = unused[j]
    BY <1>4, <2>1, PoppedSeq
  <2>. QED  BY <1>4, <1>5, <2>2
<1>. DEFINE ever  == Whole.indirectors
            stack == Whole.free
<1>11. /\ ever = [j \in 1..MaxSize |-> IF j <= Capacity THEN indirectors[j] ELSE FreshIndirector]
       /\ ever' = [j \in 1..MaxSize |-> IF j <= n THEN indirectors'[j] ELSE FreshIndirector]
  BY <1>9 DEF Whole, FreshIndirector
<1>12. /\ stack = [i \in 1..MaxSize - Size |->
                      IF i <= MaxSize - Capacity THEN MaxSize - i + 1
                      ELSE free_indirectors[i - (MaxSize - Capacity)]]
       /\ stack' = [i \in 1..MaxSize - Size - 1 |->
                      IF i <= MaxSize - n THEN MaxSize - i + 1
                      ELSE free_indirectors'[i - (MaxSize - n)]]
  <2>1. MaxSize - (Size + 1) = MaxSize - Size - 1
    BY <1>1
  <2>. QED  BY <2>1, <1>8, <1>9 DEF Whole
<1>13. /\ Whole.slots = slots /\ Whole.slots' = slots' /\ Len(Whole.slots) = Size
       /\ Height(Whole) = MaxSize - Size
       /\ Whole' = [slots |-> Whole.slots', indirectors |-> ever', free |-> stack']
  BY DEF Whole, Size, Height
<1>. HIDE DEF ever, stack
<1>14. k = stack[MaxSize - Size]
  <2>1. MaxSize - Size \in 1..MaxSize - Size
    BY <1>1, <1>2
  <2>2. CASE Size < Capacity
    <3>1. /\ n = Capacity /\ ~(MaxSize - Size <= MaxSize - Capacity)
          /\ MaxSize - Size - (MaxSize - Capacity) = Capacity - Size
          /\ Capacity - Size \in 1..Capacity - Size
      BY <2>2, <1>1, <1>2
    <3>2. stack[MaxSize - Size] = free_indirectors[Capacity - Size]
      BY <2>1, <3>1, <1>12
    <3>. QED  BY <3>1, <3>2, <1>4, <1>6
  <2>3. CASE Size = Capacity
    <3>1. n - Size \in Capacity - Size + 1..n - Size /\ MaxSize - Size <= MaxSize - Capacity
      BY <2>3, <1>1, <1>2
    <3>2. unused[n - Size] = n - (n - Size - (Capacity - Size)) + 1
      BY <3>1, <1>4
    <3>3. stack[MaxSize - Size] = MaxSize - (MaxSize - Size) + 1
      BY <2>1, <3>1, <1>12
    <3>. QED  BY <2>3, <3>2, <3>3, <1>1, <1>2, <1>6
  <2>. QED  BY <2>2, <2>3, <1>1
<1>15. ever' = [ever EXCEPT ![k] = Redirected(@, Size + 1)]
  <2>1. ASSUME NEW j \in 1..MaxSize
        PROVE  ever'[j] = IF j = k THEN Redirected(ever[k], Size + 1) ELSE ever[j]
    <3>1. CASE j <= Capacity
      BY <3>1, <1>1, <1>2, <1>3, <1>7, <1>9, <1>11
    <3>2. CASE ~(j <= Capacity) /\ j <= n
      <4>1. j \in Capacity + 1..n /\ j \in 1..n
        BY <3>2, <1>1, <1>2
      <4>2. ever[j] = FreshIndirector /\ indirs[j] = FreshIndirector
        BY <4>1, <3>2, <1>3, <1>11
      <4>3. ever'[j] = indirectors'[j]
        BY <3>2, <1>11
      <4>. QED  BY <4>1, <4>2, <4>3, <1>9
    <3>3. CASE ~(j <= n)
      BY <3>3, <1>1, <1>2, <1>7, <1>11
    <3>. QED  BY <3>1, <3>2, <3>3
  <2>2. DOMAIN ever = 1..MaxSize /\ DOMAIN ever' = 1..MaxSize
    BY <1>11
  <2>3. ever' = [j \in 1..MaxSize |-> ever'[j]]
    BY <1>11
  <2>. QED  BY <2>1, <2>2, <2>3, <1>7
<1>16. stack' = [i \in 1..MaxSize - Size - 1 |-> stack[i]]
  <2>1. ASSUME NEW i \in 1..MaxSize - Size - 1
        PROVE  stack'[i] = stack[i]
    <3>1. i \in 1..MaxSize - Size
      BY <1>1
    <3>2. CASE i <= MaxSize - n
      <4>1. i <= MaxSize - Capacity
        BY <3>2, <1>1, <1>2
      <4>. QED  BY <3>1, <3>2, <4>1, <1>12
    <3>3. CASE ~(i <= MaxSize - n)
      <4>. DEFINE j == i - (MaxSize - n)
      <4>1. j \in 1..n - Size - 1 /\ stack'[i] = free_indirectors'[j]
        BY <3>3, <1>1, <1>2, <1>12
      <4>2. stack'[i] = unused[j]
        BY <4>1, <1>10
      <4>3. CASE Size < Capacity
        <5>1. n = Capacity /\ j \in 1..Capacity - Size
          BY <4>1, <4>3, <1>1, <1>2
        <5>2. stack[i] = free_indirectors[j]
          BY <3>1, <3>3, <5>1, <1>12
        <5>. QED  BY <4>2, <5>1, <5>2, <1>4
      <4>4. CASE Size = Capacity
        <5>1. j \in Capacity - Size + 1..n - Size /\ i <= MaxSize - Capacity
          BY <4>1, <4>4, <1>1, <1>2
        <5>2. unused[j] = n - (j - (Capacity - Size)) + 1
          BY <5>1, <1>4
        <5>3. stack[i] = MaxSize - i + 1
          BY <3>1, <5>1, <1>12
        <5>. QED  BY <4>2, <4>4, <5>2, <5>3, <1>1, <1>2
      <4>. QED  BY <4>3, <4>4, <1>1
    <3>. QED  BY <3>2, <3>3
  <2>2. stack' = [i \in 1..MaxSize - Size - 1 |-> stack'[i]]
    BY <1>12
  <2>. QED  BY <2>1, <2>2
<1>17. Whole' = Allocated(Whole)
  BY <1>5, <1>13, <1>14, <1>15, <1>16 DEF Allocated, ever, stack
<1>18. Deref(Newest(Whole))' = o
  <2>1. /\ Newest(Whole').indirection_index = k
    BY <1>8, <1>13 DEF Newest
  <2>2. indirectors'[k].real_index = Size + 1
    BY <1>9 DEF Redirected
  <2>3. objects'[Size + 1] = o
    BY <1>1, <1>5, AppendSeq DEF IInv, TypeOK
  <2>. QED  BY <2>1, <2>2, <2>3 DEF Deref
<1>. QED  BY <1>1, <1>2, <1>13, <1>17, <1>18

(* What undo_last_allocate() and undo_free() do to the whole pool, when    *)
(* the indirector concerned is the newest, or on top of the stack.         *)
TakenBack(z, k) ==
  [slots       |-> Popped(z.slots),
   indirectors |-> [z.indirectors EXCEPT ![k] = Redirected(@, Unused)],
   free        |-> [i \in 1..Height(z) + 1 |-> IF i <= Height(z) THEN z.free[i] ELSE k]]

Restored(z, k, r) ==
  [slots       |-> SwapInsert(z.slots, r, k),
   indirectors |->
     [i \in 1..MaxSize |->
        IF i = k
        THEN [real_index |-> r,
              version    |-> (z.indirectors[k].version + VersionSpan - 1) % VersionSpan]
        ELSE IF r <= Len(z.slots) /\ i = z.slots[r]
        THEN Redirected(z.indirectors[i], Len(z.slots) + 1)
        ELSE z.indirectors[i]],
   free        |-> [i \in 1..Height(z) - 1 |-> z.free[i]]]

(* Equal field by field, one whole pool is the other. *)
LEMMA SameWhole ==
  ASSUME NEW z, NEW a, Sound(a),
         z = [slots |-> z.slots, indirectors |-> z.indirectors, free |-> z.free],
         z.slots \in Seq(1..MaxSize), Len(z.slots) = Len(a.slots),
         \A j \in 1..Len(a.slots) : z.slots[j] = a.slots[j],
         DOMAIN z.indirectors = 1..MaxSize, z.indirectors = [k \in 1..MaxSize |-> z.indirectors[k]],
         \A k \in 1..MaxSize : z.indirectors[k] = a.indirectors[k],
         z.free = [i \in 1..Height(a) |-> z.free[i]],
         \A i \in 1..Height(a) : z.free[i] = a.free[i]
  PROVE  z = a
<1>1. z.slots = a.slots
  <2>1. a.slots \in Seq(1..MaxSize)
    BY DEF Sound
  <2>. QED  BY <2>1, SeqEqual
<1>2. z.indirectors = a.indirectors
  <2>1. a.indirectors = [k \in 1..MaxSize |-> a.indirectors[k]]
    BY DEF Sound
  <2>. QED  BY <2>1
<1>3. z.free = a.free
  <2>1. a.free = [i \in 1..Height(a) |-> a.free[i]]
    BY DEF Sound
  <2>. QED  BY <2>1
<1>. QED  BY <1>1, <1>2, <1>3 DEF Sound

(* Taking back an allocation leaves what it started from.                  *)
THEOREM TakesBackAllocated ==
  ASSUME NEW a, Sound(a), Len(a.slots) < MaxSize
  PROVE  TakenBack(Allocated(a), a.free[Height(a)]) = a
<1>. DEFINE k == a.free[Height(a)]
            n == Len(a.slots)
            b == Allocated(a)
            z == TakenBack(b, k)
<1>1. /\ MaxSize \in Nat /\ n \in Nat /\ n < MaxSize
      /\ Height(a) = MaxSize - n /\ Height(a) \in 1..Height(a) /\ k \in 1..MaxSize
      /\ a.slots \in Seq(1..MaxSize) /\ a.indirectors \in [1..MaxSize -> Indirector]
      /\ a.indirectors[k].real_index = Unused
  BY PoolAssumption DEF Sound, Height
<1>2. /\ b.slots = Append(a.slots, k)
      /\ b.indirectors = [a.indirectors EXCEPT ![k] = Redirected(@, n + 1)]
      /\ b.free = [i \in 1..Height(a) - 1 |-> a.free[i]]
  BY DEF Allocated
<1>3. /\ b.slots \in Seq(1..MaxSize) /\ Len(b.slots) = n + 1
      /\ \A j \in 1..n : b.slots[j] = a.slots[j]
  BY <1>1, <1>2, AppendSeq
<1>4. Height(b) = Height(a) - 1
  BY <1>1, <1>3 DEF Height
<1>5. /\ z = [slots |-> z.slots, indirectors |-> z.indirectors, free |-> z.free]
      /\ z.slots = Popped(b.slots)
      /\ z.indirectors = [b.indirectors EXCEPT ![k] = Redirected(@, Unused)]
      /\ z.free = [i \in 1..Height(b) + 1 |-> IF i <= Height(b) THEN b.free[i] ELSE k]
  BY DEF TakenBack
<1>6. k = a.free[Height(a)]
  OBVIOUS
<1>. HIDE DEF k, n, b, z
<1>7. /\ z.slots \in Seq(1..MaxSize) /\ Len(z.slots) = n
      /\ \A j \in 1..n : z.slots[j] = a.slots[j]
  <2>1. Len(b.slots) > 0
    BY <1>1, <1>3
  <2>2. /\ Popped(b.slots) \in Seq(1..MaxSize) /\ Len(Popped(b.slots)) = Len(b.slots) - 1
        /\ \A j \in 1..Len(b.slots) - 1 : Popped(b.slots)[j] = b.slots[j]
    BY <1>3, <2>1, PoppedSeq
  <2>. QED  BY <1>1, <1>3, <1>5, <2>2
<1>8. /\ DOMAIN z.indirectors = 1..MaxSize /\ z.indirectors = [j \in 1..MaxSize |-> z.indirectors[j]]
      /\ \A j \in 1..MaxSize : z.indirectors[j] = a.indirectors[j]
  <2>1. /\ DOMAIN z.indirectors = 1..MaxSize /\ z.indirectors = [j \in 1..MaxSize |-> z.indirectors[j]]
        /\ \A j \in 1..MaxSize : j # k => z.indirectors[j] = a.indirectors[j]
        /\ z.indirectors[k] = Redirected(b.indirectors[k], Unused)
        /\ b.indirectors[k] = Redirected(a.indirectors[k], n + 1)
    BY <1>1, <1>2, <1>5
  <2>2. a.indirectors[k] = [real_index |-> a.indirectors[k].real_index, version |-> a.indirectors[k].version]
    BY <1>1 DEF Indirector
  <2>3. z.indirectors[k] = a.indirectors[k]
    BY <2>1, <2>2, <1>1 DEF Redirected
  <2>. QED  BY <2>1, <2>3
<1>9. /\ z.free = [i \in 1..Height(a) |-> z.free[i]]
      /\ \A i \in 1..Height(a) : z.free[i] = a.free[i]
  <2>1. Height(b) + 1 = Height(a) /\ Height(a) \in Nat
    BY <1>1, <1>4
  <2>2. z.free = [i \in 1..Height(a) |-> IF i <= Height(a) - 1 THEN b.free[i] ELSE k]
    BY <1>4, <1>5, <2>1
  <2>3. ASSUME NEW i \in 1..Height(a) PROVE z.free[i] = a.free[i]
    <3>1. CASE i <= Height(a) - 1
      <4>1. i \in 1..Height(a) - 1
        BY <2>1, <3>1
      <4>. QED  BY <4>1, <3>1, <2>2, <1>2
    <3>2. CASE ~(i <= Height(a) - 1)
      <4>1. i = Height(a)
        BY <2>1, <3>2
      <4>. QED  BY <4>1, <3>2, <2>2, <1>6
    <3>. QED  BY <3>1, <3>2
  <2>. QED  BY <2>2, <2>3
<1>10. z = a
  BY <1>5, <1>7, <1>8, <1>9, SameWhole DEF n
<1>. QED  BY <1>10 DEF z, b, k

(* Restoring a freed object leaves what free() started from: the object    *)
(* that had taken its place is at the end again, and the version is back.  *)
THEOREM RestoresFreed ==
  ASSUME NEW a, Sound(a), NEW k \in 1..MaxSize, a.indirectors[k].real_index # Unused
  PROVE  Restored(Freed(a, k), k, a.indirectors[k].real_index) = a
<1>. DEFINE n == Len(a.slots)
            r == a.indirectors[k].real_index
            v == a.indirectors[k].version
            b == Freed(a, k)
            z == Restored(b, k, r)
<1>1. /\ MaxSize \in Nat /\ n \in Nat /\ n <= MaxSize /\ Height(a) = MaxSize - n
      /\ r \in 1..n /\ a.slots[r] = k /\ n \in 1..n
      /\ a.slots \in Seq(1..MaxSize) /\ a.indirectors \in [1..MaxSize -> Indirector]
      /\ a.indirectors[a.slots[n]].real_index = n /\ a.slots[n] \in 1..MaxSize
  <2>1. /\ MaxSize \in Nat /\ n \in Nat /\ n <= MaxSize /\ Height(a) = MaxSize - n
        /\ r \in 1..n /\ a.slots[r] = k
        /\ a.slots \in Seq(1..MaxSize) /\ a.indirectors \in [1..MaxSize -> Indirector]
        /\ \A i \in 1..n : a.indirectors[a.slots[i]].real_index = i
    BY PoolAssumption DEF Sound, Height
  <2>. HIDE DEF r
  <2>2. n \in 1..n
    BY <2>1
  <2>3. a.slots[n] \in 1..MaxSize
    BY <2>1, <2>2, ElementOfSeq
  <2>. QED  BY <2>1, <2>2, <2>3
<1>2. /\ VersionSpan \in Nat /\ VersionSpan > 0 /\ v \in 0..VersionSpan - 1
      /\ a.indirectors[k] = [real_index |-> r, version |-> v]
  <2>1. a.indirectors[k] \in Indirector
    BY <1>1
  <2>2. VersionSpan \in Nat /\ VersionSpan > 0
    BY <1>1, PoolAssumption
  <2>. QED  BY <2>1, <2>2 DEF Indirector, Versions
<1>3. /\ b.slots = SwapRemove(a.slots, r)
      /\ b.indirectors = [i \in 1..MaxSize |->
           IF i = k THEN [real_index |-> Unused, version |-> (v + 1) % VersionSpan]
           ELSE IF i = a.slots[n] THEN Redirected(a.indirectors[i], r) ELSE a.indirectors[i]]
      /\ b.free = [i \in 1..Height(a) + 1 |-> IF i <= Height(a) THEN a.free[i] ELSE k]
  BY DEF Freed
<1>4. /\ z = [slots |-> z.slots, indirectors |-> z.indirectors, free |-> z.free]
      /\ z.slots = SwapInsert(b.slots, r, k)
      /\ z.indirectors = [i \in 1..MaxSize |->
           IF i = k
           THEN [real_index |-> r,
                 version    |-> (b.indirectors[k].version + VersionSpan - 1) % VersionSpan]
           ELSE IF r <= Len(b.slots) /\ i = b.slots[r]
           THEN Redirected(b.indirectors[i], Len(b.slots) + 1)
           ELSE b.indirectors[i]]
      /\ z.free = [i \in 1..Height(b) - 1 |-> b.free[i]]
  BY DEF Restored
<1>. HIDE DEF n, r, v, b, z
<1>5. /\ b.slots \in Seq(1..MaxSize) /\ Len(b.slots) = n - 1
      /\ \A j \in 1..n - 1 : b.slots[j] = IF j = r THEN a.slots[n] ELSE a.slots[j]
  <2>1. r \in 1..Len(a.slots) /\ n = Len(a.slots)
    BY <1>1 DEF n
  <2>2. /\ SwapRemove(a.slots, r) \in Seq(1..MaxSize)
        /\ Len(SwapRemove(a.slots, r)) = n - 1
        /\ \A j \in 1..n - 1 :
             SwapRemove(a.slots, r)[j] = IF j = r THEN a.slots[n] ELSE a.slots[j]
    <3>1. /\ SwapRemove(a.slots, r) \in Seq(1..MaxSize)
          /\ Len(SwapRemove(a.slots, r)) = Len(a.slots) - 1
          /\ \A j \in 1..Len(a.slots) - 1 :
               SwapRemove(a.slots, r)[j] = IF j = r THEN a.slots[Len(a.slots)] ELSE a.slots[j]
      <4>1. a.slots \in Seq(1..MaxSize)
        BY <1>1
      <4>. QED  BY <4>1, <2>1, SwapRemoveSeq
    <3>. QED  BY <2>1, <3>1
  <2>. QED  BY <1>3, <2>2
<1>6. Height(b) = Height(a) + 1
  <2>1. Height(b) = MaxSize - Len(b.slots)
    BY DEF Height
  <2>. QED  BY <1>1, <1>5, <2>1
<1>7. /\ z.slots \in Seq(1..MaxSize) /\ Len(z.slots) = n
      /\ \A j \in 1..n : z.slots[j] = a.slots[j]
  <2>1. r \in 1..Len(b.slots) + 1 /\ Len(b.slots) + 1 = n
    BY <1>1, <1>5
  <2>2. /\ z.slots \in Seq(1..MaxSize) /\ Len(z.slots) = n
        /\ \A j \in 1..n : z.slots[j] =
             IF j = r THEN k ELSE IF j = n THEN b.slots[r] ELSE b.slots[j]
    <3>. DEFINE Indices == 1..MaxSize
                array   == b.slots
    <3>2. array \in Seq(Indices) /\ k \in Indices /\ r \in 1..Len(array) + 1
      BY <1>5, <2>1
    <3>. HIDE DEF Indices, array
    <3>3. /\ SwapInsert(array, r, k) \in Seq(Indices)
          /\ Len(SwapInsert(array, r, k)) = Len(array) + 1
          /\ DOMAIN SwapInsert(array, r, k) = 1..Len(array) + 1
      BY <3>2, SwapInsertSeq
    <3>4. \A j \in 1..Len(array) + 1 : SwapInsert(array, r, k)[j] =
               IF j = r THEN k ELSE IF j = Len(array) + 1 THEN array[r] ELSE array[j]
      BY <3>2, SwapInsertSeq
    <3>1. /\ SwapInsert(b.slots, r, k) \in Seq(1..MaxSize)
          /\ Len(SwapInsert(b.slots, r, k)) = Len(b.slots) + 1
          /\ \A j \in 1..Len(b.slots) + 1 : SwapInsert(b.slots, r, k)[j] =
               IF j = r THEN k ELSE IF j = Len(b.slots) + 1 THEN b.slots[r] ELSE b.slots[j]
      BY <3>3, <3>4 DEF Indices, array
    <3>. QED  BY <1>4, <2>1, <3>1
  <2>3. ASSUME NEW j \in 1..n PROVE z.slots[j] = a.slots[j]
    <3>1. CASE j = r
      BY <3>1, <2>2, <1>1
    <3>2. CASE j # r /\ j = n
      <4>1. r \in 1..n - 1
        BY <3>2, <1>1
      <4>. QED  BY <3>2, <4>1, <2>2, <1>5
    <3>3. CASE j # r /\ j # n
      <4>1. j \in 1..n - 1
        BY <3>3, <1>1
      <4>. QED  BY <3>3, <4>1, <2>2, <1>5
    <3>. QED  BY <3>1, <3>2, <3>3
  <2>. QED  BY <2>2, <2>3
<1>8. ASSUME NEW i \in 1..MaxSize PROVE z.indirectors[i] = a.indirectors[i]
  <2>1. CASE i = k
    <3>1. b.indirectors[k].version = (v + 1) % VersionSpan
      BY <1>3
    <3>2. (((v + 1) % VersionSpan) + VersionSpan - 1) % VersionSpan = v
      <4>1. CASE v + 1 < VersionSpan
        <5>1. (v + 1) % VersionSpan = v + 1
          BY <4>1, <1>2, SmallStays
        <5>2. ((v + 1) % VersionSpan) + VersionSpan - 1 = v + VersionSpan
          BY <5>1, <1>2
        <5>. QED  BY <5>2, <1>2, RoundStays
      <4>2. CASE v + 1 = VersionSpan
        <5>1. (v + 1) % VersionSpan = 0
          <6>1. 0 < VersionSpan /\ 0 + VersionSpan = v + 1
            BY <4>2, <1>2
          <6>. QED  BY <6>1, <1>2, RoundStays
        <5>2. ((v + 1) % VersionSpan) + VersionSpan - 1 = v /\ v \in Nat /\ v < VersionSpan
          BY <4>2, <5>1, <1>2
        <5>. QED  BY <5>2, <1>2, SmallStays
      <4>. QED  BY <4>1, <4>2, <1>2
    <3>3. z.indirectors[k] = [real_index |-> r, version |-> (((v + 1) % VersionSpan) + VersionSpan - 1) % VersionSpan]
      BY <3>1, <1>4
    <3>. QED  BY <2>1, <3>2, <3>3, <1>2
  <2>2. CASE i # k /\ i = a.slots[n]
    <3>1. r # n /\ r \in 1..n - 1
      BY <2>2, <1>1
    <3>2. r <= Len(b.slots) /\ b.slots[r] = a.slots[n] /\ Len(b.slots) + 1 = n
      BY <3>1, <1>1, <1>5
    <3>3. b.indirectors[i] = Redirected(a.indirectors[i], r)
      BY <2>2, <1>3
    <3>4. z.indirectors[i] = Redirected(b.indirectors[i], n)
      BY <2>2, <3>2, <1>4
    <3>5. a.indirectors[i] = [real_index |-> a.indirectors[i].real_index, version |-> a.indirectors[i].version]
      BY <1>1 DEF Indirector
    <3>. QED  BY <2>2, <3>3, <3>4, <3>5, <1>1 DEF Redirected
  <2>3. CASE i # k /\ i # a.slots[n]
    <3>1. b.indirectors[i] = a.indirectors[i]
      BY <2>3, <1>3
    <3>2. r <= Len(b.slots) => b.slots[r] = a.slots[n]
      <4>. SUFFICES ASSUME r <= Len(b.slots) PROVE b.slots[r] = a.slots[n]
        OBVIOUS
      <4>1. r \in 1..n - 1
        BY <1>1, <1>5
      <4>. QED  BY <4>1, <1>5
    <3>3. z.indirectors[i] = b.indirectors[i]
      BY <2>3, <3>2, <1>4
    <3>. QED  BY <3>1, <3>3
  <2>. QED  BY <2>1, <2>2, <2>3
<1>9. DOMAIN z.indirectors = 1..MaxSize /\ z.indirectors = [j \in 1..MaxSize |-> z.indirectors[j]]
  BY <1>4
<1>10. /\ z.free = [i \in 1..Height(a) |-> z.free[i]]
       /\ \A i \in 1..Height(a) : z.free[i] = a.free[i]
  <2>1. Height(b) - 1 = Height(a) /\ Height(a) \in Nat
    BY <1>1, <1>6
  <2>2. z.free = [i \in 1..Height(a) |-> b.free[i]]
    BY <2>1, <1>4
  <2>3. ASSUME NEW i \in 1..Height(a) PROVE z.free[i] = a.free[i]
    <3>1. i \in 1..Height(a) + 1 /\ i <= Height(a)
      BY <2>1
    <3>. QED  BY <2>2, <3>1, <1>3
  <2>. QED  BY <2>2, <2>3
<1>11. z = a
  BY <1>4, <1>7, <1>8, <1>9, <1>10, SameWhole DEF n
<1>. QED  BY <1>11 DEF z, b, r

(* free() leaves the freed indirector on top of the stack.                 *)
LEMMA FreeWhole ==
  ASSUME IInv, NEW key \in Keys, Free(key)
  PROVE  Whole' = Freed(Whole, key.indirection_index)
<1>. DEFINE k == key.indirection_index
            removed == indirectors[k].real_index
<1>1. /\ MaxSize \in Nat /\ Size \in Nat /\ Capacity \in Nat
      /\ Size <= Capacity /\ Capacity <= MaxSize
      /\ Len(free_indirectors) = Capacity - Size
      /\ DOMAIN slots = 1..Size /\ DOMAIN indirectors = 1..Capacity
      /\ DOMAIN free_indirectors = 1..Capacity - Size
      /\ k \in 1..Capacity /\ removed \in 1..Size
  BY Shape, PoolAssumption DEF Free, Alive, IInv, Consistent, PointersPair
<1>2. /\ free_indirectors' = Append(free_indirectors, k)
      /\ indirectors' = [i \in 1..Capacity |->
           IF i = k
           THEN [real_index |-> Unused, version |-> (indirectors[k].version + 1) % VersionSpan]
           ELSE IF i = slots[Size] THEN Redirected(indirectors[i], removed) ELSE indirectors[i]]
      /\ slots' = SwapRemove(slots, removed)
  BY <1>1 DEF Free
<1>. HIDE DEF k, removed
<1>3. Size' = Size - 1 /\ Len(slots') = Size - 1
  <2>1. slots \in Seq(1..MaxSize) /\ removed \in 1..Len(slots)
    BY <1>1 DEF IInv, TypeOK, Size
  <2>2. Len(SwapRemove(slots, removed)) = Len(slots) - 1
    BY <2>1, SwapRemoveSeq
  <2>. QED  BY <1>2, <2>2 DEF Size
<1>4. Capacity' = Capacity
  <2>1. indirectors' \in [1..Capacity -> {indirectors'[i] : i \in 1..Capacity}]
    BY <1>2
  <2>2. Len(indirectors') = Capacity
    BY <1>1, <2>1, FunctionIsSeq
  <2>. QED  BY <2>2 DEF Capacity
<1>5. /\ \A i \in 1..Capacity - Size : free_indirectors'[i] = free_indirectors[i]
      /\ free_indirectors'[Capacity - Size + 1] = k
  <2>1. free_indirectors \in Seq(1..MaxSize) /\ k \in 1..MaxSize
    BY <1>1 DEF IInv, TypeOK
  <2>2. /\ \A i \in 1..Len(free_indirectors) : Append(free_indirectors, k)[i] = free_indirectors[i]
        /\ Append(free_indirectors, k)[Len(free_indirectors) + 1] = k
    BY <2>1, AppendSeq
  <2>. QED  BY <1>1, <1>2, <2>2
<1>. DEFINE ever  == Whole.indirectors
            stack == Whole.free
<1>6. /\ ever = [j \in 1..MaxSize |-> IF j <= Capacity THEN indirectors[j] ELSE FreshIndirector]
      /\ ever' = [j \in 1..MaxSize |-> IF j <= Capacity THEN indirectors'[j] ELSE FreshIndirector]
  BY <1>4 DEF Whole, FreshIndirector
<1>7. /\ stack = [i \in 1..MaxSize - Size |->
                     IF i <= MaxSize - Capacity THEN MaxSize - i + 1
                     ELSE free_indirectors[i - (MaxSize - Capacity)]]
      /\ stack' = [i \in 1..MaxSize - Size + 1 |->
                     IF i <= MaxSize - Capacity THEN MaxSize - i + 1
                     ELSE free_indirectors'[i - (MaxSize - Capacity)]]
  <2>1. MaxSize - (Size - 1) = MaxSize - Size + 1
    BY <1>1
  <2>. QED  BY <2>1, <1>3, <1>4 DEF Whole
<1>8. /\ Whole.slots = slots /\ Whole.slots' = slots' /\ Len(Whole.slots) = Size
      /\ Height(Whole) = MaxSize - Size
      /\ Whole' = [slots |-> Whole.slots', indirectors |-> ever', free |-> stack']
  BY DEF Whole, Size, Height
<1>. HIDE DEF ever, stack
<1>9. k \in 1..MaxSize /\ slots[Size] \in 1..Capacity /\ ever[k] = indirectors[k]
  BY <1>1, <1>6, Shape
<1>10. ever' = [i \in 1..MaxSize |->
                  IF i = k
                  THEN [real_index |-> Unused, version |-> (ever[k].version + 1) % VersionSpan]
                  ELSE IF i = slots[Size] THEN Redirected(ever[i], removed) ELSE ever[i]]
  <2>1. ASSUME NEW i \in 1..MaxSize
        PROVE  ever'[i] = IF i = k
                          THEN [real_index |-> Unused, version |-> (ever[k].version + 1) % VersionSpan]
                          ELSE IF i = slots[Size] THEN Redirected(ever[i], removed) ELSE ever[i]
    <3>1. CASE i <= Capacity
      <4>1. i \in 1..Capacity /\ ever'[i] = indirectors'[i] /\ ever[i] = indirectors[i]
        BY <3>1, <1>1, <1>6
      <4>. QED  BY <4>1, <1>2, <1>9
    <3>2. CASE ~(i <= Capacity)
      <4>1. i # k /\ i # slots[Size]
        BY <3>2, <1>1, <1>9
      <4>. QED  BY <3>2, <4>1, <1>6
    <3>. QED  BY <3>1, <3>2
  <2>. QED  BY <2>1, <1>6
<1>11. stack' = [i \in 1..MaxSize - Size + 1 |-> IF i <= MaxSize - Size THEN stack[i] ELSE k]
  <2>1. ASSUME NEW i \in 1..MaxSize - Size + 1
        PROVE  stack'[i] = IF i <= MaxSize - Size THEN stack[i] ELSE k
    <3>1. CASE i <= MaxSize - Capacity
      <4>1. i \in 1..MaxSize - Size
        BY <3>1, <1>1
      <4>. QED  BY <3>1, <4>1, <1>7
    <3>2. CASE ~(i <= MaxSize - Capacity) /\ i <= MaxSize - Size
      <4>1. i \in 1..MaxSize - Size /\ i - (MaxSize - Capacity) \in 1..Capacity - Size
        BY <3>2, <1>1
      <4>. QED  BY <3>2, <4>1, <1>5, <1>7
    <3>3. CASE ~(i <= MaxSize - Size)
      <4>1. i - (MaxSize - Capacity) = Capacity - Size + 1 /\ ~(i <= MaxSize - Capacity)
        BY <3>3, <1>1
      <4>. QED  BY <3>3, <4>1, <1>5, <1>7
    <3>. QED  BY <3>1, <3>2, <3>3, <1>1
  <2>. QED  BY <2>1, <1>7
<1>12. Whole' = Freed(Whole, k)
  BY <1>2, <1>8, <1>9, <1>10, <1>11 DEF Freed, ever, stack, removed
<1>. QED  BY <1>12 DEF k

(* undo_last_allocate() stacks the indirector of the last object.          *)
LEMMA UndoLastAllocateWhole ==
  ASSUME IInv, NEW key \in Keys, UndoLastAllocate(key)
  PROVE  Whole' = TakenBack(Whole, key.indirection_index)
<1>. DEFINE k == key.indirection_index
<1>1. /\ MaxSize \in Nat /\ Size \in Nat /\ Capacity \in Nat
      /\ Size <= Capacity /\ Capacity <= MaxSize
      /\ Len(free_indirectors) = Capacity - Size
      /\ DOMAIN indirectors = 1..Capacity
      /\ k \in 1..Capacity /\ indirectors[k].real_index = Size /\ Size > 0
  BY Shape, PoolAssumption DEF UndoLastAllocate, Alive, Unused
<1>2. /\ free_indirectors' = Append(free_indirectors, k)
      /\ indirectors' = [indirectors EXCEPT ![k] = Redirected(@, Unused)]
      /\ slots' = Popped(slots)
  BY DEF UndoLastAllocate
<1>. HIDE DEF k
<1>3. Size' = Size - 1 /\ Len(slots') = Size - 1
  <2>1. slots \in Seq(1..MaxSize) /\ Len(slots) > 0
    BY <1>1 DEF IInv, TypeOK, Size
  <2>2. Len(Popped(slots)) = Len(slots) - 1
    BY <2>1, PoppedSeq
  <2>. QED  BY <1>2, <2>2 DEF Size
<1>4. /\ Capacity' = Capacity
      /\ \A i \in 1..Capacity : indirectors'[i] =
           IF i = k THEN Redirected(indirectors[k], Unused) ELSE indirectors[i]
  <2>1. /\ indirectors' \in [1..Capacity -> {indirectors'[i] : i \in 1..Capacity}]
        /\ \A i \in 1..Capacity : indirectors'[i] =
             IF i = k THEN Redirected(indirectors[k], Unused) ELSE indirectors[i]
    BY <1>1, <1>2
  <2>2. Len(indirectors') = Capacity
    BY <1>1, <2>1, FunctionIsSeq
  <2>. QED  BY <2>1, <2>2 DEF Capacity
<1>5. /\ \A i \in 1..Capacity - Size : free_indirectors'[i] = free_indirectors[i]
      /\ free_indirectors'[Capacity - Size + 1] = k
  <2>1. free_indirectors \in Seq(1..MaxSize) /\ k \in 1..MaxSize
    BY <1>1 DEF IInv, TypeOK
  <2>2. /\ \A i \in 1..Len(free_indirectors) : Append(free_indirectors, k)[i] = free_indirectors[i]
        /\ Append(free_indirectors, k)[Len(free_indirectors) + 1] = k
    BY <2>1, AppendSeq
  <2>. QED  BY <1>1, <1>2, <2>2
<1>. DEFINE ever  == Whole.indirectors
            stack == Whole.free
<1>6. /\ ever = [j \in 1..MaxSize |-> IF j <= Capacity THEN indirectors[j] ELSE FreshIndirector]
      /\ ever' = [j \in 1..MaxSize |-> IF j <= Capacity THEN indirectors'[j] ELSE FreshIndirector]
  BY <1>4 DEF Whole, FreshIndirector
<1>7. /\ stack = [i \in 1..MaxSize - Size |->
                     IF i <= MaxSize - Capacity THEN MaxSize - i + 1
                     ELSE free_indirectors[i - (MaxSize - Capacity)]]
      /\ stack' = [i \in 1..MaxSize - Size + 1 |->
                     IF i <= MaxSize - Capacity THEN MaxSize - i + 1
                     ELSE free_indirectors'[i - (MaxSize - Capacity)]]
  <2>1. MaxSize - (Size - 1) = MaxSize - Size + 1
    BY <1>1
  <2>. QED  BY <2>1, <1>3, <1>4 DEF Whole
<1>8. /\ Whole.slots = slots /\ Whole.slots' = slots' /\ Len(Whole.slots) = Size
      /\ Height(Whole) = MaxSize - Size
      /\ Whole' = [slots |-> Whole.slots', indirectors |-> ever', free |-> stack']
  BY DEF Whole, Size, Height
<1>. HIDE DEF ever, stack
<1>9. ever' = [ever EXCEPT ![k] = Redirected(@, Unused)]
  <2>1. ASSUME NEW i \in 1..MaxSize
        PROVE  ever'[i] = IF i = k THEN Redirected(ever[k], Unused) ELSE ever[i]
    <3>1. CASE i <= Capacity
      <4>1. /\ i \in 1..Capacity /\ ever'[i] = indirectors'[i] /\ ever[i] = indirectors[i]
            /\ k \in 1..MaxSize /\ ever[k] = indirectors[k]
        BY <3>1, <1>1, <1>6
      <4>. QED  BY <4>1, <1>4
    <3>2. CASE ~(i <= Capacity)
      BY <3>2, <1>1, <1>6
    <3>. QED  BY <3>1, <3>2
  <2>2. DOMAIN ever = 1..MaxSize /\ ever' = [i \in 1..MaxSize |-> ever'[i]]
    BY <1>6
  <2>. QED  BY <2>1, <2>2
<1>10. stack' = [i \in 1..MaxSize - Size + 1 |-> IF i <= MaxSize - Size THEN stack[i] ELSE k]
  <2>1. ASSUME NEW i \in 1..MaxSize - Size + 1
        PROVE  stack'[i] = IF i <= MaxSize - Size THEN stack[i] ELSE k
    <3>1. CASE i <= MaxSize - Capacity
      <4>1. i \in 1..MaxSize - Size
        BY <3>1, <1>1
      <4>. QED  BY <3>1, <4>1, <1>7
    <3>2. CASE ~(i <= MaxSize - Capacity) /\ i <= MaxSize - Size
      <4>1. i \in 1..MaxSize - Size /\ i - (MaxSize - Capacity) \in 1..Capacity - Size
        BY <3>2, <1>1
      <4>. QED  BY <3>2, <4>1, <1>5, <1>7
    <3>3. CASE ~(i <= MaxSize - Size)
      <4>1. i - (MaxSize - Capacity) = Capacity - Size + 1 /\ ~(i <= MaxSize - Capacity)
        BY <3>3, <1>1
      <4>. QED  BY <3>3, <4>1, <1>5, <1>7
    <3>. QED  BY <3>1, <3>2, <3>3, <1>1
  <2>. QED  BY <2>1, <1>7
<1>11. Whole' = TakenBack(Whole, k)
  BY <1>2, <1>8, <1>9, <1>10 DEF TakenBack, ever, stack
<1>. QED  BY <1>11 DEF k

(* undo_free() finds the indirector it is given on top of the stack, if    *)
(* that is where free() has left it.                                       *)
LEMMA UndoFreeWhole ==
  ASSUME IInv, NEW k \in 1..Capacity, NEW r, NEW o, UndoFree(k, r, o),
         Len(slots) < MaxSize, Whole.free[Height(Whole)] = k
  PROVE  Whole' = Restored(Whole, k, r)
<1>1. /\ MaxSize \in Nat /\ Size \in Nat /\ Capacity \in Nat
      /\ Size <= Capacity /\ Capacity <= MaxSize /\ Size < MaxSize
      /\ Len(free_indirectors) = Capacity - Size
      /\ DOMAIN free_indirectors = 1..Capacity - Size
      /\ DOMAIN indirectors = 1..Capacity /\ DOMAIN slots = 1..Size
      /\ \A i \in 1..Size : slots[i] \in 1..Capacity
      /\ \A i, j \in 1..Capacity - Size : free_indirectors[i] = free_indirectors[j] => i = j
  BY Shape, PoolAssumption DEF Size, IInv, Consistent, FreeListExact
<1>2. PICK p \in 1..Capacity - Size :
        free_indirectors[p] = k /\ free_indirectors' = ErasedAt(free_indirectors, p)
  BY <1>1 DEF UndoFree
<1>3. /\ r \in 1..Size + 1
      /\ indirectors' = [i \in 1..Capacity |->
           IF i = k
           THEN [real_index |-> r,
                 version    |-> (indirectors[k].version + VersionSpan - 1) % VersionSpan]
           ELSE IF r <= Size /\ i = slots[r]
           THEN Redirected(indirectors[i], Size + 1)
           ELSE indirectors[i]]
      /\ slots' = SwapInsert(slots, r, k)
  BY <1>1 DEF UndoFree
<1>4. Size' = Size + 1 /\ Len(slots') = Size + 1
  <2>. DEFINE Indices == 1..MaxSize
  <2>1. slots \in Seq(Indices) /\ r \in 1..Len(slots) + 1 /\ k \in Indices
    BY <1>1, <1>3 DEF IInv, TypeOK, Size
  <2>. HIDE DEF Indices
  <2>2. Len(SwapInsert(slots, r, k)) = Len(slots) + 1
    BY <2>1, SwapInsertSeq
  <2>. QED  BY <1>3, <2>2 DEF Size
<1>5. Capacity' = Capacity
  <2>1. indirectors' \in [1..Capacity -> {indirectors'[i] : i \in 1..Capacity}]
    BY <1>3
  <2>2. Len(indirectors') = Capacity
    BY <1>1, <2>1, FunctionIsSeq
  <2>. QED  BY <2>2 DEF Capacity
<1>. DEFINE ever  == Whole.indirectors
            stack == Whole.free
<1>6. /\ ever = [j \in 1..MaxSize |-> IF j <= Capacity THEN indirectors[j] ELSE FreshIndirector]
      /\ ever' = [j \in 1..MaxSize |-> IF j <= Capacity THEN indirectors'[j] ELSE FreshIndirector]
  BY <1>5 DEF Whole, FreshIndirector
<1>7. /\ stack = [i \in 1..MaxSize - Size |->
                     IF i <= MaxSize - Capacity THEN MaxSize - i + 1
                     ELSE free_indirectors[i - (MaxSize - Capacity)]]
      /\ stack' = [i \in 1..MaxSize - Size - 1 |->
                     IF i <= MaxSize - Capacity THEN MaxSize - i + 1
                     ELSE free_indirectors'[i - (MaxSize - Capacity)]]
  <2>1. MaxSize - (Size + 1) = MaxSize - Size - 1
    BY <1>1
  <2>. QED  BY <2>1, <1>4, <1>5 DEF Whole
<1>8. /\ Whole.slots = slots /\ Whole.slots' = slots' /\ Len(Whole.slots) = Size
      /\ Height(Whole) = MaxSize - Size /\ stack[MaxSize - Size] = k
      /\ Whole' = [slots |-> Whole.slots', indirectors |-> ever', free |-> stack']
  BY DEF Whole, Size, Height
<1>. HIDE DEF ever, stack
<1>9. p = Capacity - Size
  <2>1. MaxSize - Size \in 1..MaxSize - Size
    BY <1>1
  <2>2. CASE MaxSize - Size <= MaxSize - Capacity
    <3>1. k = MaxSize - (MaxSize - Size) + 1 /\ Size = Capacity
      BY <2>1, <2>2, <1>1, <1>7, <1>8
    <3>. QED  BY <3>1, <1>1
  <2>3. CASE ~(MaxSize - Size <= MaxSize - Capacity)
    <3>1. /\ MaxSize - Size - (MaxSize - Capacity) = Capacity - Size
          /\ Capacity - Size \in 1..Capacity - Size
      BY <2>3, <1>1
    <3>2. free_indirectors[Capacity - Size] = k
      BY <2>1, <2>3, <3>1, <1>7, <1>8
    <3>. QED  BY <3>1, <3>2, <1>1, <1>2
  <2>. QED  BY <2>2, <2>3
<1>10. \A i \in 1..Capacity - Size - 1 : free_indirectors'[i] = free_indirectors[i]
  <2>1. free_indirectors \in Seq(1..MaxSize) /\ p \in 1..Len(free_indirectors)
    BY <1>1 DEF IInv, TypeOK
  <2>2. \A i \in 1..Len(free_indirectors) - 1 : ErasedAt(free_indirectors, p)[i] =
          IF i < p THEN free_indirectors[i] ELSE free_indirectors[i + 1]
    BY <2>1, ErasedAtSeq
  <2>. QED  BY <1>1, <1>2, <1>9, <2>2
<1>11. ever' = [i \in 1..MaxSize |->
                  IF i = k
                  THEN [real_index |-> r,
                        version    |-> (ever[k].version + VersionSpan - 1) % VersionSpan]
                  ELSE IF r <= Size /\ i = slots[r]
                  THEN Redirected(ever[i], Size + 1)
                  ELSE ever[i]]
  <2>1. k \in 1..MaxSize /\ ever[k] = indirectors[k]
    BY <1>1, <1>6
  <2>2. r <= Size => slots[r] \in 1..Capacity
    BY <1>1, <1>3
  <2>3. ASSUME NEW i \in 1..MaxSize
        PROVE  ever'[i] = IF i = k
                          THEN [real_index |-> r,
                                version    |-> (ever[k].version + VersionSpan - 1) % VersionSpan]
                          ELSE IF r <= Size /\ i = slots[r]
                          THEN Redirected(ever[i], Size + 1)
                          ELSE ever[i]
    <3>1. CASE i <= Capacity
      <4>1. i \in 1..Capacity /\ ever'[i] = indirectors'[i] /\ ever[i] = indirectors[i]
        BY <3>1, <1>1, <1>6
      <4>. QED  BY <4>1, <2>1, <1>3
    <3>2. CASE ~(i <= Capacity)
      <4>1. i # k /\ ~(r <= Size /\ i = slots[r])
        BY <3>2, <2>2, <1>1
      <4>. QED  BY <3>2, <4>1, <1>6
    <3>. QED  BY <3>1, <3>2
  <2>. QED  BY <2>3, <1>6
<1>12. stack' = [i \in 1..MaxSize - Size - 1 |-> stack[i]]
  <2>1. ASSUME NEW i \in 1..MaxSize - Size - 1 PROVE stack'[i] = stack[i]
    <3>1. i \in 1..MaxSize - Size
      BY <1>1
    <3>2. CASE i <= MaxSize - Capacity
      BY <3>1, <3>2, <1>7
    <3>3. CASE ~(i <= MaxSize - Capacity)
      <4>1. i - (MaxSize - Capacity) \in 1..Capacity - Size - 1
        BY <3>3, <1>1
      <4>. QED  BY <3>1, <3>3, <4>1, <1>7, <1>10
    <3>. QED  BY <3>2, <3>3
  <2>. QED  BY <2>1, <1>7
<1>. QED  BY <1>3, <1>8, <1>11, <1>12 DEF Restored, ever, stack

=============================================================================
