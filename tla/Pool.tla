-------------------------------- MODULE Pool --------------------------------
(***************************************************************************)
(* augs::pool (augs/misc/pool): objects packed in one array and reached    *)
(* through a level of indirection, so that an id survives the moves that   *)
(* removal from the middle of the array causes. Positions count from 1     *)
(* here and 0 stands for static_cast<size_type>(-1). An element of objects *)
(* stands for the object with its entries in the synchronized arrays,      *)
(* which the code moves in the same statements.                            *)
(***************************************************************************)
EXTENDS Naturals, Sequences

CONSTANTS
  Objects,          \* the contents an object may have
  MaxSize,          \* max_size(): the container's limit
  VersionSpan,      \* number of values of size_type, 2^16 for entity pools
  InitialCapacity   \* slot_count of the constructor

ASSUME PoolAssumption ==
  /\ MaxSize \in Nat \ {0}
  /\ VersionSpan \in Nat
  /\ VersionSpan >= MaxSize + 2
  /\ InitialCapacity \in 0..MaxSize

VARIABLES
  slots,            \* slots[i]: the indirector pointing at the i-th object
  objects,          \* the packed objects
  indirectors,      \* one per slot ever reserved: where its object is now
  free_indirectors  \* stack of the unused indirectors, the next one last

vars == <<slots, objects, indirectors, free_indirectors>>

Unused   == 0
Versions == 0..VersionSpan - 1
Keys     == [indirection_index : 1..MaxSize, version : Versions]
FreshIndirector == [real_index |-> Unused, version |-> 1]

Redirected(indirector, r) == [real_index |-> r, version |-> indirector.version]

-----------------------------------------------------------------------------
Size        == Len(slots)
Capacity    == Len(indirectors)
CanExpand   == Size < MaxSize
Full        == Size = Capacity /\ ~CanExpand

Alive(key) ==
  /\ key.indirection_index \in DOMAIN indirectors
  /\ indirectors[key.indirection_index].version = key.version
  /\ indirectors[key.indirection_index].real_index # Unused

(* The object an alive key denotes. *)
Deref(key) == objects[indirectors[key.indirection_index].real_index]

(* reserve() appends fresh indirectors and stacks them so that the lowest  *)
(* of the new ones is the next to be used.                                 *)
GrownIndirectors(n) ==
  [k \in 1..n |-> IF k <= Capacity THEN indirectors[k] ELSE FreshIndirector]

GrownFree(n) ==
  free_indirectors \o [i \in 1..(n - Capacity) |-> n - i + 1]

(* A slip StableIdentity and Consistent exclude: the last element is lost. *)
PopOnly(array, i) == [j \in 1..Len(array) - 1 |-> array[j]]

(* The array once the i-th element is overwritten by the last one. *)
SwapRemove(array, i) ==
  [j \in 1..Len(array) - 1 |-> IF j = i THEN array[Len(array)] ELSE array[j]]

(* Another: the elements behind the i-th shift, as in a plain insertion. *)
InsertShifting(array, i, x) ==
  [j \in 1..Len(array) + 1 |-> IF j < i THEN array[j]
                               ELSE IF j = i THEN x ELSE array[j - 1]]

(* The inverse: x enters at i, what was there moves to the end. *)
SwapInsert(array, i, x) ==
  [j \in 1..Len(array) + 1 |-> IF j = i              THEN x
                               ELSE IF j = Len(array) + 1 THEN array[i]
                               ELSE array[j]]

ErasedAt(array, p) ==
  [j \in 1..Len(array) - 1 |-> IF j < p THEN array[j] ELSE array[j + 1]]

Popped(stack) == [j \in 1..Len(stack) - 1 |-> stack[j]]

-----------------------------------------------------------------------------
Init ==
  /\ slots = <<>>
  /\ objects = <<>>
  /\ indirectors = [k \in 1..InitialCapacity |-> FreshIndirector]
  /\ free_indirectors = [i \in 1..InitialCapacity |-> InitialCapacity - i + 1]

(* Without the trimming to max_size(). *)
UntrimmedCapacity == IF Size < Capacity THEN Capacity ELSE 2 * Size + 1

(* The capacity an allocation leaves: doubled plus one when exhausted. *)
CapacityForOneMore ==
  IF Size < Capacity          THEN Capacity
  ELSE IF 2 * Size + 1 < MaxSize THEN 2 * Size + 1
  ELSE MaxSize

(* A full pool throws and changes nothing. *)
Allocate(o) ==
  LET indirs == GrownIndirectors(CapacityForOneMore)
      unused == GrownFree(CapacityForOneMore)
      k      == unused[Len(unused)]
  IN /\ ~Full
     /\ free_indirectors' = Popped(unused)
     /\ indirectors' = [indirs EXCEPT ![k] = Redirected(@, Size + 1)]
     /\ slots' = Append(slots, k)
     /\ objects' = Append(objects, o)

(* A free() that forgets to increase the version: the key comes back. *)
FreeKeepingVersion(key) ==
  LET k       == key.indirection_index
      removed == indirectors[k].real_index
  IN /\ Alive(key)
     /\ free_indirectors' = Append(free_indirectors, k)
     /\ indirectors' =
          [i \in DOMAIN indirectors |->
             IF i = k THEN Redirected(indirectors[k], Unused)
             ELSE IF i = slots[Size] THEN Redirected(indirectors[i], removed)
             ELSE indirectors[i]]
     /\ slots' = SwapRemove(slots, removed)
     /\ objects' = SwapRemove(objects, removed)

(* A dead key is ignored. The version grows, so that the key dies. *)
Free(key) ==
  LET k       == key.indirection_index
      removed == indirectors[k].real_index
  IN /\ Alive(key)
     /\ free_indirectors' = Append(free_indirectors, k)
     /\ indirectors' =
          [i \in DOMAIN indirectors |->
             IF i = k
             THEN [real_index |-> Unused,
                   version    |-> (indirectors[k].version + 1) % VersionSpan]
             ELSE IF i = slots[Size]
             THEN Redirected(indirectors[i], removed)
             ELSE indirectors[i]]
     /\ slots' = SwapRemove(slots, removed)
     /\ objects' = SwapRemove(objects, removed)

(* Takes back the allocation of the last object. The version stays, so the *)
(* next allocation issues this very key. Any other alive key throws.       *)
UndoLastAllocate(key) ==
  LET k == key.indirection_index
  IN /\ Alive(key)
     /\ indirectors[k].real_index = Size
     /\ free_indirectors' = Append(free_indirectors, k)
     /\ indirectors' = [indirectors EXCEPT ![k] = Redirected(@, Unused)]
     /\ slots' = Popped(slots)
     /\ objects' = Popped(objects)

(* Takes back the free() that vacated position r of indirector k: the      *)
(* element now at r goes back to the end. The callers pass what a free()   *)
(* returned, so k is unused and r at most one past the end.                *)
UndoFree(k, r, o) ==
  /\ r \in 1..Size + 1
  /\ \E p \in DOMAIN free_indirectors :
       /\ free_indirectors[p] = k
       /\ free_indirectors' = ErasedAt(free_indirectors, p)
  /\ indirectors' =
       [i \in DOMAIN indirectors |->
          IF i = k
          THEN [real_index |-> r,
                version    |-> (indirectors[k].version + VersionSpan - 1) % VersionSpan]
          ELSE IF r <= Size /\ i = slots[r]
          THEN Redirected(indirectors[i], Size + 1)
          ELSE indirectors[i]]
  /\ slots' = SwapInsert(slots, r, k)
  /\ objects' = SwapInsert(objects, r, o)

(* reserve(n) with n <= capacity does nothing. *)
Reserve(n) ==
  /\ n > Capacity
  /\ indirectors' = GrownIndirectors(n)
  /\ free_indirectors' = GrownFree(n)
  /\ UNCHANGED <<slots, objects>>

(* clear() keeps the capacity but builds every indirector anew. *)
Clear ==
  /\ slots' = <<>>
  /\ objects' = <<>>
  /\ indirectors' = [k \in 1..Capacity |-> FreshIndirector]
  /\ free_indirectors' = [i \in 1..Capacity |-> Capacity - i + 1]

(* The pool is written to Lua and read back: only the indirectors in use   *)
(* are stored, those between them come back fresh, those after the last    *)
(* are gone, and the stack of the unused ones is rebuilt in rising order.  *)
LuaCapacity(n) ==
  /\ \A i \in DOMAIN slots : slots[i] <= n
  /\ n = 0 \/ \E i \in DOMAIN slots : slots[i] = n

ReadLua ==
  \E n \in 0..Capacity :
    LET used == {k \in 1..n : indirectors[k].real_index # Unused}
    IN /\ LuaCapacity(n)
       /\ indirectors' =
            [k \in 1..n |-> IF k \in used THEN indirectors[k]
                                          ELSE FreshIndirector]
       /\ \E stack \in [1..n - Size -> (1..n) \ used] :
            /\ \A i, j \in 1..n - Size : i < j => stack[i] < stack[j]
            /\ free_indirectors' = stack
       /\ UNCHANGED <<slots, objects>>

Next ==
  \/ \E o \in Objects : Allocate(o)
  \/ \E key \in Keys : Free(key)
  \/ \E n \in 1..MaxSize : Reserve(n)
  \/ Clear
  \/ ReadLua
  \/ \E key \in Keys : UndoLastAllocate(key)
  \/ \E k, r \in 1..MaxSize, o \in Objects : UndoFree(k, r, o)

Spec == Init /\ [][Next]_vars

-----------------------------------------------------------------------------
TypeOK ==
  /\ slots \in Seq(1..MaxSize)
  /\ objects \in Seq(Objects)
  /\ indirectors \in Seq([real_index : 0..MaxSize, version : Versions])
  /\ Capacity <= MaxSize
  /\ free_indirectors \in Seq(1..MaxSize)

(* Slots and indirectors point at each other: following a slot to its      *)
(* indirector and back ends where it began, for every used one. The swap   *)
(* in free() and the relocation after it must agree for this.              *)
PointersPair ==
  /\ Len(objects) = Size
  /\ \A i \in DOMAIN slots :
       /\ slots[i] \in DOMAIN indirectors
       /\ indirectors[slots[i]].real_index = i
  /\ \A k \in DOMAIN indirectors :
       indirectors[k].real_index # Unused =>
         /\ indirectors[k].real_index \in DOMAIN slots
         /\ slots[indirectors[k].real_index] = k

(* Every indirector is either in use or stacked, and stacked only once:    *)
(* no slot leaks and none can be handed out twice.                         *)
FreeListExact ==
  /\ \A i \in DOMAIN free_indirectors :
       /\ free_indirectors[i] \in DOMAIN indirectors
       /\ indirectors[free_indirectors[i]].real_index = Unused
  /\ \A i, j \in DOMAIN free_indirectors :
       free_indirectors[i] = free_indirectors[j] => i = j
  /\ Len(free_indirectors) + Size = Capacity

Consistent == PointersPair /\ FreeListExact

(* An id that is alive before and after a step denotes the same object on  *)
(* both sides, whatever was moved, reserved or reloaded in between.        *)
StableIdentity ==
  [][\A key \in Keys : Alive(key) /\ Alive(key)' => Deref(key)' = Deref(key)]_vars

-----------------------------------------------------------------------------
(* The table of ids a pool stands for. As versions only grow, the spent    *)
(* ids of an indirector are those of its earlier versions.                 *)
LiveIds    == {key \in Keys : Alive(key)}
LiveTable  == [key \in LiveIds |-> Deref(key)]
RetiredIds ==
  {key \in Keys : /\ key.indirection_index \in DOMAIN indirectors
                  /\ key.version \in 1..indirectors[key.indirection_index].version - 1}

Table == INSTANCE IdTable WITH
           Ids <- Keys, live <- LiveTable, retired <- RetiredIds

(* A pool nobody undoes on, none of whose indirectors is freed so often    *)
(* that its version starts over.                                           *)
LifetimeNext ==
  \/ \E o \in Objects : Allocate(o)
  \/ \E key \in Keys : key.version + 1 < VersionSpan /\ Free(key)
  \/ \E n \in 1..MaxSize : Reserve(n)
  \/ Clear
  \/ ReadLua

LifetimeSpec == Init /\ [][LifetimeNext]_vars

(* Until a version wraps, the pool is the table of IdTable.tla: each       *)
(* allocation issues an id never issued before, each free() retires        *)
(* exactly the id it was given, and only clear() and a reload from Lua     *)
(* lose the record of the spent ids.                                       *)
ImplementsTable == Table!Spec
=============================================================================
