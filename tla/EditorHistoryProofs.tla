------------------------- MODULE EditorHistoryProofs -------------------------
(***************************************************************************)
(* Why undo and redo in EditorHistory.tla are exact, for every size of the *)
(* pool and every length of the history. What a revision looks like is not *)
(* enough to know: a redone creation gets the id that the commands after   *)
(* it mention only if the pool is the same to the last indirector. So the  *)
(* invariant says that there is a path of whole pools, one for each entry  *)
(* of each command, on which the pool stands wherever the history is.      *)
(***************************************************************************)
EXTENDS EditorHistory, SequenceTheorems, TLAPS

EP == INSTANCE PoolProofs WITH Objects <- Positions, InitialCapacity <- Loaded

Kinds    == {"create", "duplicate", "delete", "move"}
Ids      == EP!Keys \cup {NoId}
Entries  == [id : Ids, source : Ids, content : Positions, real_index : Nat]
Commands == [kind : Kinds, entries : Seq(Entries), by : Positions, has_parent : BOOLEAN]
Tables   == UNION {[S -> Positions] : S \in SUBSET EP!Keys}

Creates(command) == command.kind \in {"create", "duplicate"}

(* A move is one step, any other command one for each entry. *)
Steps(command) == IF command.kind = "move" THEN 1 ELSE Len(command.entries)

(* Where the history can be. *)
Typed ==
  /\ commands \in Seq(Commands)
  /\ \A c \in 1..Len(commands) : Len(commands[c].entries) > 0
  /\ current_revision \in 0..Len(commands)
  /\ target_revision \in 0..Len(commands)
  /\ progress \in Nat
  /\ saved_at_revision \in Nat \cup {NeverSaved}
  /\ images \in Seq(Tables)

(* What is deleted is brought back to an indirector that is there. *)
Reserved ==
  \A c \in 1..Len(commands) : commands[c].kind = "delete" =>
    \A e \in 1..Len(commands[c].entries) :
      commands[c].entries[e].id.indirection_index \in DOMAIN indirectors

Progressing ==
  /\ Arrived => progress = 0
  /\ ~Arrived => progress < Steps(InFlight)

(* While the mouse may rewrite the last move, what can be redone deletes   *)
(* nothing: its contents would be those of another world.                  *)
Moving ==
  active => \A c \in current_revision + 1..Len(commands) :
              commands[c].kind = "delete" =>
                Redoing /\ c = current_revision + 1 /\ c = Len(commands)

-----------------------------------------------------------------------------
(* The path. *)

(* The e-th step of a command leads from the pool a to the pool b; done if *)
(* the command has stored what it needs to come back.                      *)
Links(command, e, a, b, done) ==
  LET entry == command.entries[e]
      k     == entry.id.indirection_index
  IN /\ EP!Sound(a)
     /\ Creates(command) /\ Len(a.slots) = MaxSize => b = a /\ entry.id = NoId
     /\ Creates(command) /\ Len(a.slots) # MaxSize =>
          /\ b = EP!Allocated(a)
          /\ done => entry.id = EP!Newest(b)
          /\ command.kind = "create" /\ ~done => entry.id = NoId
     /\ command.kind = "delete" =>
          /\ entry.id \in EP!Lives(a)
          /\ b = EP!Freed(a, k)
          /\ done => entry.real_index = a.indirectors[k].real_index
     /\ command.kind = "move" => b = a

(* What a command mentions lives where it starts. *)
Fits(command, row, k) ==
  LET entries == command.entries
  IN /\ Creates(command) =>
          /\ \A e \in k + 1..Len(entries) : entries[e].id = NoId
          /\ \A e, f \in 0..k : e <= f => EP!Lives(row[e]) \subseteq EP!Lives(row[f])
     /\ command.kind = "duplicate" =>
          \A e \in 1..Len(entries) : entries[e].source \in EP!Lives(row[0])
     /\ command.kind = "delete" =>
          /\ \A e \in 1..Len(entries) : entries[e].id \in EP!Lives(row[0])
          /\ \A e, f \in 1..Len(entries) : entries[e].id = entries[f].id => e = f
          /\ \A f \in 0..k, key \in EP!Keys :
               key \in EP!Lives(row[f]) <=>
                 key \in EP!Lives(row[0]) /\ \A e \in 1..f : entries[e].id # key
     /\ command.kind = "move" =>
          \A e \in 1..Len(entries) : entries[e].id \in EP!Lives(row[0])

(* The steps of a command whose outcome is known: all of them, but for a   *)
(* command still being done for the first time.                            *)
Known(known, c) == IF c < Len(commands) THEN Steps(commands[c]) ELSE known

DoneIn(c) ==
  IF c < current_revision THEN Steps(commands[c])
  ELSE IF c = current_revision
  THEN Steps(commands[c]) - (IF Undoing THEN progress ELSE 0)
  ELSE IF c = current_revision + 1 /\ Redoing THEN progress ELSE 0

Recording(known) ==
  commands # <<>> =>
    /\ known \in 0..Steps(commands[Len(commands)])
    /\ known < Steps(commands[Len(commands)]) =>
         /\ Redoing /\ current_revision + 1 = Len(commands)
         /\ progress = known /\ Len(images) = Len(commands)

Chained(path, known) ==
  \A c \in 1..Len(commands) :
    /\ \A e \in 1..Known(known, c) :
         Links(commands[c], e, path[c][e - 1], path[c][e], e <= DoneIn(c))
    /\ Fits(commands[c], path[c], Known(known, c))
    /\ Known(known, c) = Steps(commands[c]) => path[c + 1][0] = path[c][Steps(commands[c])]

Standing(path) ==
  /\ progress = 0 \/ Redoing => EP!Whole = path[current_revision + 1][progress]
  /\ progress > 0 /\ Undoing =>
       EP!Whole = path[current_revision][Steps(commands[current_revision]) - progress]

-----------------------------------------------------------------------------
(* The pictures of the revisions on the path. *)
Agree(f, g) == \A key \in DOMAIN f \cap DOMAIN g : f[key] = g[key]

Mentions(command, key) == \E e \in 1..Len(command.entries) : command.entries[e].id = key

(* What a creation puts into the pool, given the picture before it. *)
Made(command, e, before) ==
  IF command.kind = "create" THEN command.entries[e].content
  ELSE Moved(before[command.entries[e].source], command.by)

(* What has been created in the first k steps of a row is in the picture. *)
ShowsMade(command, row, k, before, after) ==
  \A e \in 1..k :
    Len(row[e - 1].slots) # MaxSize /\ EP!Newest(row[e]) \in DOMAIN after =>
      after[EP!Newest(row[e])] = Made(command, e, before)

Shown(command, row, before, after) ==
  /\ command.kind # "move" => Agree(before, after)
  /\ Creates(command) => ShowsMade(command, row, Steps(command), before, after)
  /\ command.kind = "move" =>
       \A key \in DOMAIN before :
         after[key] = IF Mentions(command, key) THEN Moved(before[key], command.by)
                      ELSE before[key]

Holds(command, before) ==
  \A e \in 1..Len(command.entries) : command.entries[e].content = before[command.entries[e].id]

Pictured(path) ==
  /\ Len(images) \in current_revision + 1..Len(commands) + 1
  /\ \A c \in 1..Len(images) : DOMAIN images[c] = EP!Lives(path[c][0])
  /\ \A c \in 1..Len(images) - 1 : Shown(commands[c], path[c], images[c], images[c + 1])
  /\ \A c \in 1..Len(commands) : commands[c].kind = "delete" =>
       c <= Len(images) /\ Holds(commands[c], images[c])
  /\ \A c \in 1..current_revision : commands[c].kind = "move" => Holds(commands[c], images[c])

(* Between two revisions the entities look as in both pictures, as far as  *)
(* they are in them.                                                       *)
Looks(path) ==
  /\ progress = 0 => World = images[current_revision + 1]
  /\ progress > 0 => Agree(World, images[current_revision + 1])
  /\ progress > 0 /\ Undoing => Agree(World, images[current_revision])
  /\ progress > 0 /\ Redoing /\ current_revision + 1 < Len(images) =>
       Agree(World, images[current_revision + 2])
  /\ progress > 0 /\ Redoing /\ Creates(InFlight) =>
       ShowsMade(InFlight, path[current_revision + 1], progress,
                 images[current_revision + 1], World)

(* The saved revision is pictured as the disk holds it. *)
Marked ==
  /\ saved_at_revision # NeverSaved /\ ~stale =>
       saved_at_revision + 1 \in 1..Len(images) /\ images[saved_at_revision + 1] = disk
  /\ commands = <<>> => World = disk

OnPath(path, known) ==
  /\ Recording(known) /\ Chained(path, known) /\ Standing(path)
  /\ Pictured(path) /\ Looks(path)

EInv ==
  /\ EP!IInv /\ Typed /\ Reserved /\ Progressing /\ Moving /\ Marked
  /\ \E path, known : OnPath(path, known)

-----------------------------------------------------------------------------
(* The assumptions of the pool are met. *)
LEMMA PoolFits == EP!PoolAssumption
<1>1. MaxSize \in Nat \ {0} /\ Places \in Nat \ {0}
  BY EditorAssumption
<1>. QED  BY <1>1, EditorAssumption DEF EP!PoolAssumption

(* The positions are a ring. *)
LEMMA MovedStays ==
  ASSUME NEW o \in Positions, NEW by \in Positions
  PROVE  Moved(o, by) \in Positions
<1>1. Places \in Nat \ {0}
  BY EditorAssumption
<1>2. o + by \in Nat
  BY <1>1 DEF Positions
<1>. QED  BY <1>1, <1>2 DEF Moved, Positions

(* The operators of the two instances of Pool.tla are the same. *)
LEMMA SamePool ==
  /\ Entities!Keys = EP!Keys
  /\ Entities!Full <=> EP!Full
  /\ Entities!Size = EP!Size
  /\ Entities!LiveIds = EP!LiveIds
  /\ \A key : Entities!Alive(key) <=> EP!Alive(key)
  /\ \A key : Entities!Deref(key) = EP!Deref(key)
<1>1. Entities!Keys = EP!Keys
  BY DEF Entities!Keys, EP!Keys, Entities!Versions, EP!Versions
<1>2. \A key : Entities!Alive(key) <=> EP!Alive(key)
  BY DEF Entities!Alive, EP!Alive, Entities!Unused, EP!Unused
<1>3. \A key : Entities!Deref(key) = EP!Deref(key)
  BY DEF Entities!Deref, EP!Deref
<1>4. (Entities!Full <=> EP!Full) /\ Entities!Size = EP!Size
  BY DEF Entities!Full, EP!Full, Entities!Size, EP!Size, Entities!Capacity, EP!Capacity,
         Entities!CanExpand, EP!CanExpand
<1>5. Entities!LiveIds = EP!LiveIds
  BY <1>1, <1>2 DEF Entities!LiveIds, EP!LiveIds
<1>. QED  BY <1>1, <1>2, <1>3, <1>4, <1>5

(* And so are the operations. *)
LEMMA SameAllocate ==
  ASSUME NEW o PROVE Entities!Allocate(o) <=> EP!Allocate(o)
  BY DEF Entities!Allocate, EP!Allocate, Entities!GrownIndirectors, EP!GrownIndirectors,
         Entities!GrownFree, EP!GrownFree, Entities!Capacity, EP!Capacity,
         Entities!CapacityForOneMore, EP!CapacityForOneMore, Entities!Size, EP!Size,
         Entities!Full, EP!Full, Entities!CanExpand, EP!CanExpand,
         Entities!Popped, EP!Popped, Entities!Redirected, EP!Redirected,
         Entities!FreshIndirector, EP!FreshIndirector, Entities!Unused, EP!Unused

(* free() of both instances. *)
LEMMA SameFree ==
  ASSUME NEW key PROVE Entities!Free(key) <=> EP!Free(key)
  BY DEF Entities!Free, EP!Free, Entities!Alive, EP!Alive, Entities!Size, EP!Size,
         Entities!Redirected, EP!Redirected, Entities!Unused, EP!Unused,
         Entities!SwapRemove, EP!SwapRemove

(* undo_last_allocate() of both instances. *)
LEMMA SameUndoLastAllocate ==
  ASSUME NEW key PROVE Entities!UndoLastAllocate(key) <=> EP!UndoLastAllocate(key)
  BY DEF Entities!UndoLastAllocate, EP!UndoLastAllocate, Entities!Alive, EP!Alive,
         Entities!Size, EP!Size, Entities!Redirected, EP!Redirected,
         Entities!Unused, EP!Unused, Entities!Popped, EP!Popped

(* undo_free() of both instances. *)
LEMMA SameUndoFree ==
  ASSUME NEW k, NEW r, NEW o PROVE Entities!UndoFree(k, r, o) <=> EP!UndoFree(k, r, o)
  BY DEF Entities!UndoFree, EP!UndoFree, Entities!Size, EP!Size, Entities!ErasedAt, EP!ErasedAt,
         Entities!Redirected, EP!Redirected, Entities!SwapInsert, EP!SwapInsert

-----------------------------------------------------------------------------
(* The pool as the commands see it: the whole of it, and the picture.      *)
Visible ==
  /\ EP!Sound(EP!Whole)
  /\ EP!Lives(EP!Whole) \subseteq EP!Keys
  /\ DOMAIN World = EP!Lives(EP!Whole)
  /\ World \in [EP!Lives(EP!Whole) -> Positions]
  /\ World \in Tables
  /\ \A key : Alive(key) /\ key \in EP!Keys <=> key \in EP!Lives(EP!Whole)
  /\ \A key \in EP!Lives(EP!Whole) : World[key] = Entities!Deref(key)
  /\ Entities!Full <=> Len(EP!Whole.slots) = MaxSize
  /\ Entities!LiveIds = EP!Lives(EP!Whole)
  /\ ~Alive(NoId)

(* The live ids of the pool are those of the whole, and show their content. *)
LEMMA Seen == EP!IInv => Visible
<1>. SUFFICES ASSUME EP!IInv PROVE Visible
  OBVIOUS
<1>1. /\ EP!Sound(EP!Whole) /\ EP!Lives(EP!Whole) = EP!LiveIds
      /\ EP!Full <=> Len(EP!Whole.slots) = MaxSize
  BY PoolFits, EP!WholeIsSound
<1>2. World = [key \in EP!LiveIds |-> EP!Deref(key)]
  BY SamePool DEF World, Entities!LiveTable
<1>3. \A key \in EP!LiveIds : EP!Deref(key) \in Positions
  <2>1. SUFFICES ASSUME NEW key \in EP!LiveIds PROVE EP!Deref(key) \in Positions
    OBVIOUS
  <2>2. key.indirection_index \in DOMAIN indirectors
        /\ indirectors[key.indirection_index].real_index # EP!Unused
    BY DEF EP!LiveIds, EP!Alive
  <2>3. indirectors[key.indirection_index].real_index \in DOMAIN slots
    BY <2>2 DEF EP!IInv, EP!Consistent, EP!PointersPair
  <2>4. DOMAIN slots = 1..EP!Size /\ \A i \in 1..EP!Size : objects[i] \in Positions
    BY PoolFits, EP!Shape
  <2>. QED  BY <2>3, <2>4 DEF EP!Deref
<1>4. EP!LiveIds \subseteq EP!Keys
  BY DEF EP!LiveIds
<1>5. World \in [EP!LiveIds -> Positions]
  BY <1>2, <1>3
<1>6. ~Alive(NoId)
  <2>1. DOMAIN indirectors = 1..EP!Capacity
    BY PoolFits, EP!Shape
  <2>. QED  BY <2>1 DEF Alive, Entities!Alive, NoId
<1>7. \A key : Alive(key) /\ key \in EP!Keys <=> key \in EP!LiveIds
  BY SamePool DEF Alive, EP!LiveIds
<1>8. World \in Tables
  BY <1>4, <1>5 DEF Tables
<1>. QED  BY <1>1, <1>2, <1>4, <1>5, <1>6, <1>7, <1>8, SamePool DEF Visible

(* A step that leaves the pool alone. *)
LEMMA Unseen ==
  ASSUME UNCHANGED pool
  PROVE  /\ EP!Whole' = EP!Whole /\ World' = World
         /\ EP!IInv => EP!IInv'
         /\ DOMAIN indirectors' = DOMAIN indirectors
<1>1. slots' = slots /\ objects' = objects /\ indirectors' = indirectors
      /\ free_indirectors' = free_indirectors
  BY DEF pool
<1>2. EP!Whole' = EP!Whole
  BY <1>1 DEF EP!Whole, EP!Capacity, EP!Size
<1>3. World' = World
  BY <1>1 DEF World, Entities!LiveTable, Entities!LiveIds, Entities!Alive, Entities!Deref
<1>4. EP!IInv => EP!IInv'
  BY <1>1 DEF EP!IInv, EP!TypeOK, EP!Consistent, EP!PointersPair, EP!FreeListExact,
              EP!Capacity, EP!Size
<1>. QED  BY <1>1, <1>2, <1>3, <1>4

(* The id of the last object in the pool. *)
LastVisible == slots # <<>> => NewestId = EP!Newest(EP!Whole)

(* It can be read off the whole pool. *)
LEMMA LastSeen == EP!IInv => LastVisible
<1>. SUFFICES ASSUME EP!IInv, slots # <<>> PROVE NewestId = EP!Newest(EP!Whole)
  BY DEF LastVisible
<1>1. /\ EP!Size \in Nat /\ EP!Capacity \in Nat /\ EP!Capacity <= MaxSize
      /\ \A i \in 1..EP!Size : slots[i] \in 1..EP!Capacity
  BY PoolFits, EP!Shape
<1>2. EP!Size > 0 /\ EP!Size = Len(slots)
  <2>1. slots \in Seq(1..MaxSize)
    BY DEF EP!IInv, EP!TypeOK
  <2>. QED  BY <2>1, EmptySeq, LenProperties DEF EP!Size
<1>. DEFINE k == slots[Len(slots)]
<1>3. k \in 1..EP!Capacity /\ k \in 1..MaxSize /\ MaxSize \in Nat
  <2>1. MaxSize \in Nat
    BY PoolFits DEF EP!PoolAssumption
  <2>2. Len(slots) \in 1..EP!Size
    BY <1>1, <1>2
  <2>3. k \in 1..EP!Capacity
    BY <1>1, <2>2
  <2>. QED  BY <1>1, <2>1, <2>3
<1>4. EP!Whole.slots = slots
  BY DEF EP!Whole
<1>5. EP!Whole.indirectors[k] = indirectors[k]
  <2>1. EP!Whole.indirectors = [j \in 1..MaxSize |->
          IF j <= EP!Capacity THEN indirectors[j] ELSE EP!FreshIndirector]
    BY DEF EP!Whole
  <2>. QED  BY <1>1, <1>3, <2>1
<1>. QED  BY <1>4, <1>5 DEF NewestId, EP!Newest

(* allocate(): the new id shows its content, the others what they showed. *)
LEMMA AllocateSeen ==
  ASSUME EP!IInv, NEW o \in Positions, Entities!Allocate(o)
  PROVE  /\ EP!IInv' /\ DOMAIN indirectors \subseteq DOMAIN indirectors'
         /\ Len(EP!Whole.slots) # MaxSize
         /\ EP!Whole' = EP!Allocated(EP!Whole)
         /\ NewestId' = EP!Newest(EP!Allocated(EP!Whole))
         /\ EP!Newest(EP!Allocated(EP!Whole)) \in EP!Keys \ DOMAIN World
         /\ DOMAIN World' = DOMAIN World \cup {EP!Newest(EP!Allocated(EP!Whole))}
         /\ \A key \in DOMAIN World : World'[key] = World[key]
         /\ World'[EP!Newest(EP!Allocated(EP!Whole))] = o
<1>. DEFINE n == EP!Newest(EP!Allocated(EP!Whole))
<1>1. EP!Allocate(o)
  BY SameAllocate
<1>2. EP!IInv' /\ EP!Stable
  BY <1>1, PoolFits, EP!AllocateStep
<1>3. /\ EP!Whole' = EP!Allocated(EP!Whole) /\ Len(EP!Whole.slots) < MaxSize
      /\ EP!Deref(EP!Newest(EP!Whole))' = o
  BY <1>1, PoolFits, EP!AllocateWhole
<1>4. Visible
  BY Seen
<1>5. /\ n \in EP!Keys \ EP!Lives(EP!Whole)
      /\ EP!Lives(EP!Allocated(EP!Whole)) = EP!Lives(EP!Whole) \cup {n}
  BY <1>3, <1>4, PoolFits, EP!AllocatedLives DEF Visible
<1>6. Visible'
  BY <1>2, Seen, PTL
<1>. HIDE DEF n
<1>7. DOMAIN World' = DOMAIN World \cup {n}
  BY <1>3, <1>4, <1>5, <1>6 DEF Visible
<1>8. ASSUME NEW key \in DOMAIN World PROVE World'[key] = World[key]
  <2>1. /\ key \in EP!Keys /\ Alive(key) /\ Alive(key)'
        /\ World[key] = Entities!Deref(key) /\ World'[key] = Entities!Deref(key)'
    BY <1>3, <1>4, <1>5, <1>6, <1>8 DEF Visible
  <2>2. EP!Alive(key) /\ EP!Alive(key)'
    BY <2>1 DEF Alive, Entities!Alive, EP!Alive, Entities!Unused, EP!Unused
  <2>. QED  BY <1>2, <2>1, <2>2 DEF EP!Stable, Entities!Deref, EP!Deref
<1>9. NewestId' = n
  <2>1. LastVisible'
    BY <1>2, LastSeen, PTL
  <2>2. EP!Newest(EP!Whole)' = n
    BY <1>3 DEF n, EP!Newest
  <2>3. slots' # <<>>
    BY <1>1 DEF EP!Allocate
  <2>. QED  BY <2>1, <2>2, <2>3 DEF LastVisible
<1>10. World'[n] = o
  <2>1. objects'[indirectors'[n.indirection_index].real_index] = o
    <3>1. EP!Newest(EP!Whole)' = n
      BY <1>3 DEF n, EP!Newest
    <3>2. EP!Deref(EP!Newest(EP!Whole))' =
            objects'[indirectors'[EP!Newest(EP!Whole)'.indirection_index].real_index]
      BY DEF EP!Deref
    <3>. QED  BY <1>3, <3>1, <3>2
  <2>2. n \in EP!Lives(EP!Whole')
    BY <1>6, <1>7 DEF Visible
  <2>3. World'[n] = objects'[indirectors'[n.indirection_index].real_index]
    BY <1>6, <2>2 DEF Visible, Entities!Deref
  <2>. QED  BY <2>1, <2>3
<1>11. DOMAIN indirectors \subseteq DOMAIN indirectors'
  <2>1. /\ DOMAIN indirectors = 1..EP!Capacity /\ EP!Capacity \in Nat /\ EP!Size \in Nat
        /\ EP!Size <= EP!Capacity /\ EP!Capacity <= MaxSize /\ MaxSize \in Nat
    BY PoolFits, EP!Shape DEF EP!PoolAssumption
  <2>2. DOMAIN indirectors' = 1..EP!CapacityForOneMore
    BY <1>1 DEF EP!Allocate, EP!GrownIndirectors
  <2>3. EP!CapacityForOneMore \in Nat /\ EP!CapacityForOneMore >= EP!Capacity
    BY <2>1 DEF EP!CapacityForOneMore
  <2>. QED  BY <2>1, <2>2, <2>3
<1>12. Len(EP!Whole.slots) # MaxSize
  BY <1>3, PoolFits DEF EP!PoolAssumption
<1>. QED  BY <1>2, <1>3, <1>4, <1>5, <1>7, <1>8, <1>9, <1>10, <1>11, <1>12 DEF n, Visible

(* free(): the id is gone, the others show what they showed. *)
LEMMA FreeSeen ==
  ASSUME EP!IInv, NEW key \in EP!Keys, Entities!Free(key)
  PROVE  /\ EP!IInv' /\ DOMAIN indirectors \subseteq DOMAIN indirectors'
         /\ EP!Whole' = EP!Freed(EP!Whole, key.indirection_index)
         /\ key \in DOMAIN World
         /\ DOMAIN World' = DOMAIN World \ {key}
         /\ \A other \in DOMAIN World' : World'[other] = World[other]
<1>1. EP!Free(key)
  BY SameFree
<1>2. EP!IInv' /\ EP!Stable
  BY <1>1, PoolFits, EP!FreeStep
<1>3. EP!Whole' = EP!Freed(EP!Whole, key.indirection_index)
  BY <1>1, PoolFits, EP!FreeWhole
<1>4. Visible /\ Visible'
  BY <1>2, Seen, PTL
<1>5. key \in EP!Lives(EP!Whole)
  <2>1. Alive(key)
    BY <1>1, SamePool DEF EP!Free, Alive
  <2>. QED  BY <1>4, <2>1 DEF Visible
<1>6. DOMAIN World' = DOMAIN World \ {key}
  BY <1>3, <1>4, <1>5, PoolFits, EP!FreedLives DEF Visible
<1>7. ASSUME NEW other \in DOMAIN World' PROVE World'[other] = World[other]
  <2>1. /\ other \in EP!Keys /\ Alive(other) /\ Alive(other)'
        /\ World[other] = Entities!Deref(other) /\ World'[other] = Entities!Deref(other)'
    BY <1>4, <1>6, <1>7 DEF Visible
  <2>2. EP!Alive(other) /\ EP!Alive(other)'
    BY <2>1 DEF Alive, Entities!Alive, EP!Alive, Entities!Unused, EP!Unused
  <2>. QED  BY <1>2, <2>1, <2>2 DEF EP!Stable, Entities!Deref, EP!Deref
<1>8. DOMAIN indirectors' = DOMAIN indirectors
  BY <1>1 DEF EP!Free
<1>. QED  BY <1>2, <1>3, <1>4, <1>5, <1>6, <1>7, <1>8 DEF Visible

(* undo_last_allocate() after the allocation: the pool is what it was.     *)
LEMMA TakeBackSeen ==
  ASSUME EP!IInv, NEW a, EP!Sound(a), Len(a.slots) # MaxSize,
         EP!Whole = EP!Allocated(a),
         NEW key, key = EP!Newest(EP!Allocated(a)), Entities!UndoLastAllocate(key)
  PROVE  /\ EP!IInv' /\ DOMAIN indirectors \subseteq DOMAIN indirectors'
         /\ EP!Whole' = a
         /\ DOMAIN World' = DOMAIN World \ {key}
         /\ \A other \in DOMAIN World' : World'[other] = World[other]
<1>0. MaxSize \in Nat /\ Len(a.slots) \in Nat /\ Len(a.slots) < MaxSize
  BY PoolFits, LenProperties DEF EP!PoolAssumption, EP!Sound
<1>1. /\ key \in EP!Keys \ EP!Lives(a)
      /\ EP!Lives(EP!Whole) = EP!Lives(a) \cup {key}
  BY <1>0, PoolFits, EP!AllocatedLives
<1>2. EP!UndoLastAllocate(key)
  BY SameUndoLastAllocate
<1>3. EP!IInv' /\ EP!Stable
  BY <1>1, <1>2, PoolFits, EP!UndoLastAllocateStep
<1>4. EP!Whole' = a
  <2>1. EP!Whole' = EP!TakenBack(EP!Whole, key.indirection_index)
    BY <1>1, <1>2, PoolFits, EP!UndoLastAllocateWhole
  <2>2. key.indirection_index = a.free[EP!Height(a)]
    <3>1. EP!Allocated(a).slots = Append(a.slots, a.free[EP!Height(a)])
      BY DEF EP!Allocated
    <3>2. key.indirection_index = EP!Allocated(a).slots[Len(EP!Allocated(a).slots)]
      BY DEF EP!Newest
    <3>3. a.slots \in Seq(1..MaxSize) /\ a.free[EP!Height(a)] \in 1..MaxSize
      <4>1. EP!Height(a) \in 1..EP!Height(a)
        BY <1>0 DEF EP!Height
      <4>. QED  BY <4>1 DEF EP!Sound
    <3>4. /\ Len(Append(a.slots, a.free[EP!Height(a)])) = Len(a.slots) + 1
          /\ Append(a.slots, a.free[EP!Height(a)])[Len(a.slots) + 1] = a.free[EP!Height(a)]
      BY <3>3, AppendProperties
    <3>. QED  BY <3>1, <3>2, <3>4
  <2>3. EP!TakenBack(EP!Allocated(a), a.free[EP!Height(a)]) = a
    BY <1>0, PoolFits, EP!TakesBackAllocated
  <2>. QED  BY <2>1, <2>2, <2>3
<1>5. Visible /\ Visible'
  BY <1>3, Seen, PTL
<1>6. DOMAIN World' = DOMAIN World \ {key}
  BY <1>1, <1>4, <1>5 DEF Visible
<1>7. ASSUME NEW other \in DOMAIN World' PROVE World'[other] = World[other]
  <2>1. /\ other \in EP!Keys /\ Alive(other) /\ Alive(other)'
        /\ World[other] = Entities!Deref(other) /\ World'[other] = Entities!Deref(other)'
    BY <1>5, <1>6, <1>7 DEF Visible
  <2>2. EP!Alive(other) /\ EP!Alive(other)'
    BY <2>1 DEF Alive, Entities!Alive, EP!Alive, Entities!Unused, EP!Unused
  <2>. QED  BY <1>3, <2>1, <2>2 DEF EP!Stable, Entities!Deref, EP!Deref
<1>8. DOMAIN indirectors' = DOMAIN indirectors
  BY <1>2 DEF EP!UndoLastAllocate
<1>. QED  BY <1>3, <1>4, <1>6, <1>7, <1>8

(* What a free() leaves behind to be undone. *)
LEMMA FreedShape ==
  ASSUME NEW a, EP!Sound(a), NEW key \in EP!Lives(a)
  PROVE  LET k == key.indirection_index
             z == EP!Freed(a, k)
         IN /\ key \in EP!Keys /\ k \in 1..MaxSize
            /\ a.indirectors[k].real_index \in 1..Len(a.slots)
            /\ a.indirectors[k].real_index # EP!Unused
            /\ Len(z.slots) = Len(a.slots) - 1
            /\ Len(a.slots) \in 1..MaxSize
            /\ z.free[MaxSize - (Len(a.slots) - 1)] = k
<1>. DEFINE k == key.indirection_index
            z == EP!Freed(a, k)
            r == a.indirectors[k].real_index
<1>1. key \in EP!Keys /\ k \in 1..MaxSize /\ r # EP!Unused
  BY DEF EP!Lives, EP!Keys
<1>2. /\ r \in 1..Len(a.slots) /\ Len(a.slots) \in Nat /\ Len(a.slots) <= MaxSize
      /\ a.slots \in Seq(1..MaxSize)
  BY <1>1, LenProperties DEF EP!Sound
<1>3. MaxSize \in Nat
  BY PoolFits DEF EP!PoolAssumption
<1>4. z.slots = EP!SwapRemove(a.slots, r)
      /\ z.free = [i \in 1..EP!Height(a) + 1 |-> IF i <= EP!Height(a) THEN a.free[i] ELSE k]
  BY DEF EP!Freed
<1>5. Len(z.slots) = Len(a.slots) - 1
  <2>. DEFINE Indices == 1..MaxSize
              array   == a.slots
  <2>1. array \in Seq(Indices) /\ r \in 1..Len(array)
    BY <1>2
  <2>. HIDE DEF Indices, array, r
  <2>2. Len(EP!SwapRemove(array, r)) = Len(array) - 1
    BY <2>1, PoolFits, EP!SwapRemoveSeq
  <2>. QED  BY <1>4, <2>2 DEF array
<1>6. z.free[MaxSize - (Len(a.slots) - 1)] = k
  <2>1. EP!Height(a) = MaxSize - Len(a.slots)
    BY DEF EP!Height
  <2>2. MaxSize - (Len(a.slots) - 1) \in 1..EP!Height(a) + 1
        /\ ~(MaxSize - (Len(a.slots) - 1) <= EP!Height(a))
    BY <1>2, <1>3, <2>1
  <2>. QED  BY <1>4, <2>2
<1>. QED  BY <1>1, <1>2, <1>3, <1>5, <1>6

(* That undo_free() finds what it undoes: the indirector is stacked, the   *)
(* place is in the array or right behind it.                               *)
LEMMA CanRestore ==
  ASSUME EP!IInv, NEW a, EP!Sound(a), NEW key \in EP!Lives(a),
         key.indirection_index \in DOMAIN indirectors,
         EP!Whole = EP!Freed(a, key.indirection_index)
  PROVE  /\ \E p \in DOMAIN free_indirectors : free_indirectors[p] = key.indirection_index
         /\ a.indirectors[key.indirection_index].real_index \in 1..Entities!Size + 1
         /\ Len(slots) < MaxSize /\ Entities!Size = Len(slots)
         /\ EP!Whole.free[EP!Height(EP!Whole)] = key.indirection_index
<1>. DEFINE k == key.indirection_index
<1>1. /\ k \in 1..MaxSize
      /\ a.indirectors[k].real_index \in 1..Len(a.slots)
      /\ Len(EP!Whole.slots) = Len(a.slots) - 1
      /\ Len(a.slots) \in 1..MaxSize
      /\ EP!Whole.free[MaxSize - (Len(a.slots) - 1)] = k
  BY FreedShape
<1>2. /\ EP!Size \in Nat /\ EP!Capacity \in Nat /\ EP!Size <= EP!Capacity
      /\ EP!Capacity <= MaxSize /\ MaxSize \in Nat
      /\ Len(free_indirectors) = EP!Capacity - EP!Size
      /\ DOMAIN indirectors = 1..EP!Capacity
      /\ DOMAIN free_indirectors = 1..Len(free_indirectors)
  BY PoolFits, EP!Shape DEF EP!PoolAssumption
<1>3. /\ EP!Whole.slots = slots
      /\ EP!Whole.free = [i \in 1..MaxSize - EP!Size |->
                            IF i <= MaxSize - EP!Capacity THEN MaxSize - i + 1
                            ELSE free_indirectors[i - (MaxSize - EP!Capacity)]]
  BY DEF EP!Whole
<1>4. EP!Size = Len(a.slots) - 1 /\ EP!Size = Len(slots) /\ Entities!Size = EP!Size
  BY <1>1, <1>3, SamePool DEF EP!Size
<1>5. EP!Height(EP!Whole) = MaxSize - EP!Size
  BY <1>3, <1>4 DEF EP!Height
<1>6. EP!Whole.free[MaxSize - EP!Size] = k /\ MaxSize - EP!Size \in 1..MaxSize - EP!Size
  <2>1. Len(a.slots) - 1 = EP!Size /\ EP!Size < MaxSize
    BY <1>1, <1>2, <1>4
  <2>2. EP!Whole.free[MaxSize - EP!Size] = k
    BY <1>1, <2>1
  <2>. QED  BY <1>2, <2>1, <2>2
<1>7. k \in 1..EP!Capacity
  BY <1>2
<1>8. ~(MaxSize - EP!Size <= MaxSize - EP!Capacity)
  <2>1. SUFFICES ASSUME MaxSize - EP!Size <= MaxSize - EP!Capacity PROVE FALSE
    OBVIOUS
  <2>2. EP!Whole.free[MaxSize - EP!Size] = MaxSize - (MaxSize - EP!Size) + 1
    BY <1>3, <1>6, <2>1
  <2>3. k = EP!Size + 1 /\ EP!Size = EP!Capacity
    BY <1>2, <1>6, <2>1, <2>2
  <2>. QED  BY <1>2, <1>7, <2>3
<1>9. free_indirectors[EP!Capacity - EP!Size] = k /\ EP!Capacity - EP!Size \in DOMAIN free_indirectors
  <2>1. EP!Whole.free[MaxSize - EP!Size] = free_indirectors[MaxSize - EP!Size - (MaxSize - EP!Capacity)]
    BY <1>3, <1>6, <1>8
  <2>2. MaxSize - EP!Size - (MaxSize - EP!Capacity) = EP!Capacity - EP!Size
        /\ EP!Capacity - EP!Size \in 1..EP!Capacity - EP!Size
    BY <1>2, <1>8
  <2>. QED  BY <1>2, <1>6, <2>1, <2>2
<1>10. /\ a.indirectors[k].real_index \in 1..Entities!Size + 1
       /\ Len(slots) < MaxSize /\ Entities!Size = Len(slots)
  BY <1>1, <1>2, <1>4
<1>11. EP!Whole.free[EP!Height(EP!Whole)] = k
  BY <1>5, <1>6
<1>. QED  BY <1>9, <1>10, <1>11

(* undo_free(): the id is back, shows what it is given, and the pool is    *)
(* what it was before the free().                                          *)
LEMMA RestoreSeen ==
  ASSUME EP!IInv, NEW a, EP!Sound(a), NEW key \in EP!Lives(a),
         key.indirection_index \in DOMAIN indirectors,
         EP!Whole = EP!Freed(a, key.indirection_index),
         NEW o \in Positions,
         Entities!UndoFree(key.indirection_index,
                           a.indirectors[key.indirection_index].real_index, o)
  PROVE  /\ EP!IInv' /\ DOMAIN indirectors \subseteq DOMAIN indirectors'
         /\ EP!Whole' = a
         /\ key \notin DOMAIN World
         /\ DOMAIN World' = DOMAIN World \cup {key}
         /\ \A other \in DOMAIN World : World'[other] = World[other]
         /\ World'[key] = o
<1>. DEFINE k == key.indirection_index
            r == a.indirectors[k].real_index
<1>1. /\ Len(slots) < MaxSize /\ EP!Whole.free[EP!Height(EP!Whole)] = k
      /\ r \in 1..Entities!Size + 1
  BY CanRestore
<1>2. k \in 1..MaxSize /\ r # EP!Unused /\ key \in EP!Keys /\ k \in 1..EP!Capacity
  BY FreedShape, PoolFits, EP!Shape
<1>3. EP!UndoFree(k, r, o)
  BY SameUndoFree
<1>4. EP!IInv' /\ EP!Stable
  BY <1>3, PoolFits, EP!UndoFreeStep
<1>5. EP!Whole' = a
  <2>1. EP!Whole' = EP!Restored(EP!Whole, k, r)
    BY <1>1, <1>2, <1>3, PoolFits, EP!UndoFreeWhole
  <2>2. EP!Restored(EP!Freed(a, k), k, r) = a
    BY <1>2, PoolFits, EP!RestoresFreed
  <2>. QED  BY <2>1, <2>2
<1>6. Visible /\ Visible'
  BY <1>4, Seen, PTL
<1>7. EP!Lives(EP!Whole) = EP!Lives(a) \ {key}
  BY PoolFits, EP!FreedLives
<1>8. key \notin DOMAIN World /\ DOMAIN World' = DOMAIN World \cup {key}
  BY <1>5, <1>6, <1>7 DEF Visible
<1>9. ASSUME NEW other \in DOMAIN World PROVE World'[other] = World[other]
  <2>1. /\ other \in EP!Keys /\ Alive(other) /\ Alive(other)'
        /\ World[other] = Entities!Deref(other) /\ World'[other] = Entities!Deref(other)'
    BY <1>5, <1>6, <1>7, <1>9 DEF Visible
  <2>2. EP!Alive(other) /\ EP!Alive(other)'
    BY <2>1 DEF Alive, Entities!Alive, EP!Alive, Entities!Unused, EP!Unused
  <2>. QED  BY <1>4, <2>1, <2>2 DEF EP!Stable, Entities!Deref, EP!Deref
<1>10. World'[key] = o
  <2>1. indirectors'[k].real_index = r
    BY <1>3 DEF EP!UndoFree
  <2>2. objects'[r] = o
    <3>1. objects' = EP!SwapInsert(objects, r, o)
      BY <1>3 DEF EP!UndoFree
    <3>2. Len(objects) = Entities!Size /\ Entities!Size \in Nat
      BY PoolFits, EP!Shape, SamePool
    <3>. QED  BY <1>1, <3>1, <3>2 DEF EP!SwapInsert
  <2>3. World'[key] = objects'[indirectors'[k].real_index]
    BY <1>6, <1>8 DEF Visible, Entities!Deref
  <2>. QED  BY <2>1, <2>2, <2>3
<1>11. DOMAIN indirectors' = DOMAIN indirectors
  BY <1>3 DEF EP!UndoFree
<1>. QED  BY <1>4, <1>5, <1>8, <1>9, <1>10, <1>11

(* Objects overwritten in place: the pool stays, each id that the command  *)
(* mentions shows what it is given.                                        *)
LEMMA ReplaceSeen ==
  ASSUME EP!IInv, NEW command, NEW new, NEW f,
         \A e \in DOMAIN command.entries :
           /\ command.entries[e].id \in DOMAIN World
           /\ new[e] = f[command.entries[e].id] /\ new[e] \in Positions,
         objects' = Replaced(command, new),
         UNCHANGED <<slots, indirectors, free_indirectors>>
  PROVE  /\ EP!IInv' /\ DOMAIN indirectors \subseteq DOMAIN indirectors'
         /\ EP!Whole' = EP!Whole
         /\ DOMAIN World' = DOMAIN World
         /\ \A key \in DOMAIN World :
              World'[key] = IF \E e \in DOMAIN command.entries : command.entries[e].id = key
                            THEN f[key] ELSE World[key]
<1>1. /\ EP!Size \in Nat /\ DOMAIN objects = 1..EP!Size /\ DOMAIN slots = 1..EP!Size
      /\ EP!Size = Len(slots) /\ Len(objects) = EP!Size
      /\ \A i \in 1..EP!Size : objects[i] \in Positions
  BY PoolFits, EP!Shape DEF EP!Size
<1>2. Visible
  BY Seen
<1>. DEFINE at(key) == indirectors[key.indirection_index].real_index
            mine(i) == {e \in DOMAIN command.entries : at(command.entries[e].id) = i}
<1>3. \A key \in DOMAIN World : at(key) \in 1..EP!Size /\ slots[at(key)] = key.indirection_index
                                /\ indirectors[key.indirection_index].version = key.version
                                /\ key \in EP!Keys
  BY <1>1, <1>2 DEF Visible, Alive, Entities!Alive, Entities!Unused, EP!Unused,
                    EP!IInv, EP!Consistent, EP!PointersPair
<1>4. \A key, other \in DOMAIN World : at(key) = at(other) => key = other
  BY <1>3 DEF EP!Keys
<1>5. objects' = [i \in 1..EP!Size |-> IF mine(i) = {} THEN objects[i]
                                       ELSE new[CHOOSE e \in mine(i) : TRUE]]
  BY <1>1 DEF Replaced
<1>6. ASSUME NEW i \in 1..EP!Size PROVE objects'[i] \in Positions
  <2>1. CASE mine(i) = {}
    BY <1>1, <1>5, <2>1
  <2>2. CASE mine(i) # {}
    <3>1. (CHOOSE e \in mine(i) : TRUE) \in mine(i)
      BY <2>2
    <3>. QED  BY <1>5, <2>2, <3>1
  <2>. QED  BY <2>1, <2>2
<1>7. objects' \in Seq(Positions) /\ Len(objects') = EP!Size
  <2>1. objects' \in [1..EP!Size -> Positions]
    BY <1>5, <1>6
  <2>. QED  BY <1>1, <2>1, EP!FunctionIsSeq
<1>8. EP!Whole' = EP!Whole
  BY DEF EP!Whole, EP!Capacity, EP!Size
<1>9. EP!IInv'
  BY <1>1, <1>7 DEF EP!IInv, EP!TypeOK, EP!Consistent, EP!PointersPair, EP!FreeListExact,
                    EP!Capacity, EP!Size
<1>10. Visible'
  BY <1>9, Seen, PTL
<1>11. DOMAIN World' = DOMAIN World
  BY <1>2, <1>8, <1>10 DEF Visible
<1>12. ASSUME NEW key \in DOMAIN World
       PROVE  World'[key] = IF \E e \in DOMAIN command.entries : command.entries[e].id = key
                            THEN f[key] ELSE World[key]
  <2>1. World'[key] = objects'[at(key)] /\ World[key] = objects[at(key)] /\ at(key) \in 1..EP!Size
    BY <1>2, <1>3, <1>10, <1>11 DEF Visible, Entities!Deref
  <2>2. CASE mine(at(key)) = {}
    BY <1>5, <2>1, <2>2
  <2>3. CASE mine(at(key)) # {}
    <3>1. PICK e \in mine(at(key)) : objects'[at(key)] = new[e]
      <4>1. (CHOOSE e \in mine(at(key)) : TRUE) \in mine(at(key))
        BY <2>3
      <4>. QED  BY <1>5, <2>1, <2>3, <4>1
    <3>2. command.entries[e].id = key
      BY <1>4, <3>1
    <3>. QED  BY <2>1, <3>1, <3>2
  <2>. QED  BY <2>2, <2>3
<1>. QED  BY <1>8, <1>9, <1>11, <1>12

-----------------------------------------------------------------------------
(* The commands and the pictures, one by one. *)
Listed ==
  /\ Len(commands) \in Nat /\ DOMAIN commands = 1..Len(commands)
  /\ \A c \in 1..Len(commands) :
       /\ commands[c] \in Commands
       /\ Len(commands[c].entries) \in Nat \ {0}
       /\ DOMAIN commands[c].entries = 1..Len(commands[c].entries)
       /\ \A e \in 1..Len(commands[c].entries) : commands[c].entries[e] \in Entries
       /\ Steps(commands[c]) \in Nat \ {0}
       /\ commands[c].kind # "move" => Steps(commands[c]) = Len(commands[c].entries)
  /\ Len(images) \in Nat /\ DOMAIN images = 1..Len(images)
  /\ \A c \in 1..Len(images) : images[c] \in Tables
  /\ current_revision \in Nat /\ target_revision \in Nat
  /\ current_revision <= Len(commands) /\ target_revision <= Len(commands)

(* A command of the history has entries, a step for each unless it moves. *)
LEMMA CommandShape ==
  ASSUME NEW command \in Commands, Len(command.entries) > 0
  PROVE  /\ Len(command.entries) \in Nat \ {0}
         /\ DOMAIN command.entries = 1..Len(command.entries)
         /\ \A e \in 1..Len(command.entries) : command.entries[e] \in Entries
         /\ Steps(command) \in Nat \ {0}
         /\ command.kind # "move" => Steps(command) = Len(command.entries)
         /\ command.kind \in Kinds /\ command.by \in Positions
<1>1. command.entries \in Seq(Entries) /\ command.kind \in Kinds /\ command.by \in Positions
  BY DEF Commands
<1>. QED  BY <1>1, LenProperties, ElementOfSeq DEF Steps

(* Where the history can be, in numbers. *)
LEMMA Lists == Typed => Listed
<1>. SUFFICES ASSUME Typed PROVE Listed
  OBVIOUS
<1>1. /\ Len(commands) \in Nat /\ DOMAIN commands = 1..Len(commands)
      /\ \A c \in 1..Len(commands) : commands[c] \in Commands
  BY LenProperties, ElementOfSeq DEF Typed
<1>2. /\ Len(images) \in Nat /\ DOMAIN images = 1..Len(images)
      /\ \A c \in 1..Len(images) : images[c] \in Tables
  BY LenProperties, ElementOfSeq DEF Typed
<1>3. ASSUME NEW c \in 1..Len(commands)
      PROVE  /\ Len(commands[c].entries) \in Nat \ {0}
             /\ DOMAIN commands[c].entries = 1..Len(commands[c].entries)
             /\ \A e \in 1..Len(commands[c].entries) : commands[c].entries[e] \in Entries
             /\ Steps(commands[c]) \in Nat \ {0}
             /\ commands[c].kind # "move" => Steps(commands[c]) = Len(commands[c].entries)
  <2>1. commands[c] \in Commands /\ Len(commands[c].entries) > 0
    BY <1>1 DEF Typed
  <2>. QED  BY <2>1, CommandShape
<1>4. /\ current_revision \in Nat /\ target_revision \in Nat
      /\ current_revision <= Len(commands) /\ target_revision <= Len(commands)
  BY <1>1 DEF Typed
<1>. QED  BY <1>1, <1>2, <1>3, <1>4 DEF Listed

(* But for a command being done for the first time all is known. *)
LEMMA AllKnown ==
  ASSUME Listed, NEW known, Recording(known), ~Redoing, NEW c \in 1..Len(commands)
  PROVE  Known(known, c) = Steps(commands[c])
<1>1. CASE c < Len(commands)
  BY <1>1 DEF Known
<1>2. CASE c = Len(commands)
  <2>1. commands # <<>>
    BY <1>2 DEF Listed
  <2>2. known \in 0..Steps(commands[c]) /\ ~(known < Steps(commands[c]))
    BY <1>2, <2>1 DEF Recording
  <2>. QED  BY <1>2, <2>2 DEF Known, Listed
<1>3. Len(commands) \in Nat
  BY DEF Listed
<1>. QED  BY <1>1, <1>2, <1>3

(* At rest everything up to the present is done, and nothing after it.     *)
LEMMA DoneAtRest ==
  ASSUME Listed, progress = 0, NEW c \in 1..Len(commands)
  PROVE  DoneIn(c) = IF c <= current_revision THEN Steps(commands[c]) ELSE 0
  BY DEF DoneIn, Listed

(* execute_new(): the history up to the present, and the command.          *)
LEMMA ExecutesNew ==
  ASSUME EP!IInv, Typed, Reserved, Progressing, Marked, NEW path, NEW known, OnPath(path, known),
         Arrived, NEW command \in Commands, Len(command.entries) > 0, ExecuteNew(command),
         \A e \in 1..Len(command.entries) :
           /\ Creates(command) => command.entries[e].id = NoId
           /\ command.kind = "duplicate" => command.entries[e].source \in DOMAIN World
           /\ command.kind \in {"delete", "move"} => command.entries[e].id \in DOMAIN World
           /\ command.kind = "delete" => command.entries[e].content = World[command.entries[e].id],
         command.kind = "delete" =>
           \A e, f \in 1..Len(command.entries) :
             command.entries[e].id = command.entries[f].id => e = f
  PROVE  EInv'
<1>. DEFINE r == current_revision
<1>1. Listed /\ Visible /\ progress = 0 /\ r \in Nat
  BY Lists, Seen DEF Progressing, Listed
<1>2. /\ EP!Whole' = EP!Whole /\ World' = World /\ EP!IInv'
      /\ DOMAIN indirectors' = DOMAIN indirectors
  BY Unseen DEF ExecuteNew
<1>3. /\ commands' = Append(SubSeq(commands, 1, r), command)
      /\ target_revision' = r + 1 /\ saved_at_revision' = MarkAfterDiscard
      /\ images' = SubSeq(images, 1, r + 1)
      /\ current_revision' = r /\ progress' = 0 /\ disk' = disk /\ stale' = stale
  BY <1>1 DEF ExecuteNew
<1>4. /\ commands' \in Seq(Commands) /\ Len(commands') = r + 1
      /\ \A c \in 1..r : commands'[c] = commands[c]
      /\ commands'[r + 1] = command
  <2>1. /\ SubSeq(commands, 1, r) \in Seq(Commands) /\ Len(SubSeq(commands, 1, r)) = r
        /\ \A c \in 1..r : SubSeq(commands, 1, r)[c] = commands[c]
    BY <1>1, SubSeqProperties DEF Listed, Typed
  <2>2. /\ Append(SubSeq(commands, 1, r), command) \in Seq(Commands)
        /\ Len(Append(SubSeq(commands, 1, r), command)) = r + 1
        /\ \A c \in 1..r : Append(SubSeq(commands, 1, r), command)[c] = SubSeq(commands, 1, r)[c]
        /\ Append(SubSeq(commands, 1, r), command)[r + 1] = command
    BY <2>1, AppendProperties
  <2>. QED  BY <1>3, <2>1, <2>2
<1>5. r + 1 \in 1..Len(images)
  BY <1>1 DEF OnPath, Pictured, Listed
<1>6. /\ images' \in Seq(Tables) /\ Len(images') = r + 1
      /\ \A c \in 1..r + 1 : images'[c] = images[c]
  <2>1. images \in Seq(Tables) /\ 1 \in 1..Len(images) + 1 /\ r + 1 \in 0..Len(images)
    BY <1>1, <1>5 DEF Typed, Listed
  <2>2. /\ SubSeq(images, 1, r + 1) \in Seq(Tables) /\ Len(SubSeq(images, 1, r + 1)) = r + 1
        /\ \A c \in 1..r + 1 : SubSeq(images, 1, r + 1)[c] = images[c]
    BY <1>1, <2>1, SubSeqProperties
  <2>. QED  BY <1>3, <2>2
<1>7. Redoing' /\ ~Undoing' /\ ~Arrived'
  BY <1>1, <1>3 DEF Redoing, Undoing, Arrived
<1>8. Typed'
  <2>1. \A c \in 1..Len(commands') : Len(commands'[c].entries) > 0
    BY <1>1, <1>4 DEF Typed, Listed
  <2>2. saved_at_revision' \in Nat \cup {NeverSaved}
    BY <1>3 DEF Typed, MarkAfterDiscard
  <2>. QED  BY <1>1, <1>3, <1>4, <1>6, <2>1, <2>2 DEF Typed
<1>9. Reserved'
  <2>1. SUFFICES ASSUME NEW c \in 1..r + 1, commands'[c].kind = "delete",
                        NEW e \in 1..Len(commands'[c].entries)
                 PROVE  commands'[c].entries[e].id.indirection_index \in DOMAIN indirectors
    BY <1>2, <1>4 DEF Reserved
  <2>2. CASE c = r + 1
    <3>1. command.entries[e].id \in DOMAIN World
      BY <1>4, <2>1, <2>2
    <3>2. Alive(command.entries[e].id)
      BY <1>1, <3>1 DEF Visible
    <3>. QED  BY <1>4, <2>2, <3>2 DEF Alive, Entities!Alive
  <2>3. CASE c \in 1..r
    BY <1>1, <1>4, <2>1, <2>3 DEF Reserved, Listed
  <2>. QED  BY <1>1, <2>1, <2>2, <2>3
<1>10. Steps(command) \in Nat \ {0}
  BY CommandShape
<1>11. Progressing'
  <2>1. InFlight' = command
    BY <1>3, <1>4, <1>7 DEF InFlight
  <2>. QED  BY <1>3, <1>7, <1>10, <2>1 DEF Progressing
<1>12. Moving'
  BY <1>1, <1>3, <1>4, <1>7 DEF Moving
<1>13. Marked'
  <2>1. commands' # <<>>
    BY <1>1, <1>4
  <2>2. ASSUME saved_at_revision' # NeverSaved, ~stale'
        PROVE  saved_at_revision' + 1 \in 1..Len(images') /\ images'[saved_at_revision' + 1] = disk'
    <3>1. saved_at_revision' = saved_at_revision /\ ~(saved_at_revision > r)
      BY <1>3, <2>2 DEF MarkAfterDiscard
    <3>2. saved_at_revision + 1 \in 1..Len(images) /\ images[saved_at_revision + 1] = disk
      BY <1>3, <2>2, <3>1 DEF Marked
    <3>3. saved_at_revision + 1 \in 1..r + 1
      BY <1>1, <2>2, <3>1 DEF Typed
    <3>. QED  BY <1>3, <1>6, <3>1, <3>2, <3>3
  <2>. QED  BY <2>1, <2>2 DEF Marked
<1>14. OnPath(path, 0)'
  <2>1. Recording(0)'
    BY <1>1, <1>3, <1>4, <1>6, <1>7, <1>10 DEF Recording
  <2>2. Chained(path, 0)'
    <3>1. SUFFICES ASSUME NEW c \in 1..r + 1
                   PROVE  /\ \A e \in 1..Known(0, c)' :
                               Links(commands'[c], e, path[c][e - 1], path[c][e], e <= DoneIn(c)')
                          /\ Fits(commands'[c], path[c], Known(0, c)')
                          /\ Known(0, c)' = Steps(commands'[c]) =>
                               path[c + 1][0] = path[c][Steps(commands'[c])]
      BY <1>4 DEF Chained
    <3>2. CASE c = r + 1
      <4>1. Known(0, c)' = 0 /\ commands'[c] = command
        BY <1>1, <1>4, <3>2 DEF Known
      <4>2. EP!Lives(path[c][0]) = DOMAIN World
        BY <1>1, <3>2 DEF OnPath, Standing, Visible
      <4>3. Fits(command, path[c], 0)
        <5>1. Creates(command) =>
                /\ \A e \in 0 + 1..Len(command.entries) : command.entries[e].id = NoId
                /\ \A e, f \in 0..0 : e <= f => EP!Lives(path[c][e]) \subseteq EP!Lives(path[c][f])
          OBVIOUS
        <5>2. command.kind = "delete" =>
                \A f \in 0..0, key \in EP!Keys : 
                  key \in EP!Lives(path[c][f]) <=>
                    key \in EP!Lives(path[c][0]) /\ \A e \in 1..f : command.entries[e].id # key
          OBVIOUS
        <5>. QED  BY <4>2, <5>1, <5>2 DEF Fits
      <4>. QED  BY <1>10, <4>1, <4>3
    <3>3. CASE c \in 1..r
      <4>1. c \in 1..Len(commands) /\ commands'[c] = commands[c]
        BY <1>1, <1>4, <3>3 DEF Listed
      <4>2. Known(known, c) = Steps(commands[c])
        BY <1>1, <4>1, AllKnown DEF OnPath, Arrived, Redoing
      <4>3. Known(0, c)' = Steps(commands[c])
        BY <1>1, <1>4, <3>3 DEF Known
      <4>4. DoneIn(c) = Steps(commands[c])
        BY <1>1, <3>3, <4>1, DoneAtRest
      <4>5. DoneIn(c)' = Steps(commands[c])
        <5>1. current_revision' = r /\ progress' = 0 /\ r \in Nat
          BY <1>1, <1>3 DEF Listed
        <5>2. commands'[c] = commands[c]
          BY <4>1
        <5>. QED  BY ONLY <5>1, <5>2, <1>7, <3>3 DEF DoneIn, Steps
      <4>. QED  BY <4>1, <4>2, <4>3, <4>4, <4>5 DEF OnPath, Chained
    <3>. QED  BY <1>1, <3>2, <3>3
  <2>3. Standing(path)'
    BY <1>1, <1>2, <1>3 DEF OnPath, Standing
  <2>4. Pictured(path)'
    <3>1. Len(images') \in r + 1..Len(commands') + 1
      BY <1>1, <1>4, <1>6
    <3>2. \A c \in 1..Len(images') : DOMAIN images'[c] = EP!Lives(path[c][0])
      BY <1>1, <1>5, <1>6 DEF OnPath, Pictured, Listed
    <3>3. \A c \in 1..Len(images') - 1 : Shown(commands'[c], path[c], images'[c], images'[c + 1])
      <4>1. SUFFICES ASSUME NEW c \in 1..r
                     PROVE  Shown(commands'[c], path[c], images'[c], images'[c + 1])
        BY <1>1, <1>6
      <4>2. c \in 1..Len(images) - 1 /\ c \in 1..r + 1 /\ c + 1 \in 1..r + 1
        BY <1>1, <1>5 DEF Listed
      <4>. QED  BY <1>4, <1>6, <4>2 DEF OnPath, Pictured
    <3>4. ASSUME NEW c \in 1..r + 1, commands'[c].kind = "delete"
          PROVE  c <= Len(images') /\ Holds(commands'[c], images'[c])
      <4>1. CASE c = r + 1
        <5>1. images'[c] = World /\ commands'[c] = command
          BY <1>1, <1>4, <1>6, <4>1 DEF OnPath, Looks
        <5>. QED  BY <1>1, <1>6, <3>4, <4>1, <5>1 DEF Holds
      <4>2. CASE c \in 1..r
        <5>1. c \in 1..Len(commands) /\ commands'[c] = commands[c] /\ images'[c] = images[c]
          BY <1>1, <1>4, <1>6, <4>2 DEF Listed
        <5>. QED  BY <1>1, <1>6, <3>4, <4>2, <5>1 DEF OnPath, Pictured
      <4>. QED  BY <1>1, <4>1, <4>2
    <3>5. ASSUME NEW c \in 1..r, commands'[c].kind = "move"
          PROVE  Holds(commands'[c], images'[c])
      BY <1>1, <1>4, <1>6, <3>5 DEF OnPath, Pictured
    <3>. QED  BY <1>3, <1>4, <3>1, <3>2, <3>3, <3>4, <3>5 DEF Pictured
  <2>5. Looks(path)'
    BY <1>1, <1>2, <1>3, <1>6 DEF OnPath, Looks
  <2>. QED  BY <2>1, <2>2, <2>3, <2>4, <2>5 DEF OnPath
<1>. QED  BY <1>2, <1>8, <1>9, <1>11, <1>12, <1>13, <1>14 DEF EInv

(* What a command mentions is all that counts for where it can start. *)
LEMMA FitsAlike ==
  ASSUME NEW old, NEW new, new.kind = old.kind, new.entries = old.entries,
         NEW row, NEW k, Fits(old, row, k)
  PROVE  Fits(new, row, k)
<1>1. PICK kind, entries : kind = old.kind /\ entries = old.entries
  OBVIOUS
<1>2. kind = new.kind /\ entries = new.entries
  BY <1>1
<1>. DEFINE Created    == /\ \A e \in k + 1..Len(entries) : entries[e].id = NoId
                         /\ \A e, f \in 0..k : e <= f => EP!Lives(row[e]) \subseteq EP!Lives(row[f])
           Duplicated == \A e \in 1..Len(entries) : entries[e].source \in EP!Lives(row[0])
           AllLive    == \A e \in 1..Len(entries) : entries[e].id \in EP!Lives(row[0])
           Deleted    == /\ \A e, f \in 1..Len(entries) : entries[e].id = entries[f].id => e = f
                         /\ \A f \in 0..k, key \in EP!Keys :
                              key \in EP!Lives(row[f]) <=>
                                key \in EP!Lives(row[0]) /\ \A e \in 1..f : entries[e].id # key
           FitsIn == /\ kind \in {"create", "duplicate"} => Created
                     /\ kind = "duplicate" => Duplicated
                     /\ kind = "delete" => AllLive /\ Deleted
                     /\ kind = "move" => AllLive
<1>3. FitsIn <=> Fits(old, row, k)
  BY ONLY <1>1 DEF Fits, Creates
<1>4. FitsIn <=> Fits(new, row, k)
  BY ONLY <1>2 DEF Fits, Creates
<1>. QED  BY <1>3, <1>4

(* And of what it keeps, the ids and the contents. *)
LEMMA HoldsAlike ==
  ASSUME NEW old, NEW new, Len(new.entries) = Len(old.entries),
         \A i \in 1..Len(new.entries) : /\ new.entries[i].id = old.entries[i].id
                                        /\ new.entries[i].content = old.entries[i].content,
         NEW before, Holds(old, before)
  PROVE  Holds(new, before)
  BY DEF Holds

(* While the pool and the pictures stay, so does the path: a seek begins,  *)
(* the mover stops, the project is saved.                                  *)
LEMMA StaysPut ==
  ASSUME EP!IInv, Typed, Reserved, Progressing, Moving, NEW path, NEW known, OnPath(path, known),
         Arrived, UNCHANGED <<pool, current_revision, progress, images>>,
         target_revision' \in 0..Len(commands), active' => active,
         commands' \in Seq(Commands), Len(commands') = Len(commands),
         \A c \in 1..Len(commands) :
           /\ commands'[c].kind = commands[c].kind /\ commands'[c].by = commands[c].by
           /\ commands'[c].entries = commands[c].entries,
         saved_at_revision' \in Nat \cup {NeverSaved}, Marked'
  PROVE  EInv'
<1>. DEFINE r == current_revision
<1>1. Listed /\ Visible /\ progress = 0 /\ r \in Nat /\ ~Redoing
  BY Lists, Seen DEF Progressing, Listed, Arrived, Redoing
<1>2. /\ EP!Whole' = EP!Whole /\ World' = World /\ EP!IInv'
      /\ DOMAIN indirectors' = DOMAIN indirectors
  BY Unseen
<1>3. current_revision' = r /\ progress' = 0 /\ images' = images
  BY <1>1
<1>4. Typed'
  BY <1>1, <1>3 DEF Typed, Listed
<1>5. Listed'
  BY <1>4, Lists, PTL
<1>6. \A c \in 1..Len(commands) : Steps(commands'[c]) = Steps(commands[c])
  BY DEF Steps
<1>7. Reserved'
  BY <1>2 DEF Reserved
<1>8. Progressing'
  <2>1. ASSUME ~Arrived' PROVE 0 < Steps(InFlight')
    <3>1. CASE Redoing'
      <4>1. InFlight' = commands'[r + 1] /\ r + 1 \in 1..Len(commands')
        BY <1>3, <1>5, <3>1 DEF InFlight, Redoing, Listed
      <4>. QED  BY <1>5, <4>1 DEF Listed
    <3>2. CASE ~Redoing'
      <4>1. r \in 1..Len(commands')
        BY <1>1, <1>3, <1>5, <2>1, <3>2 DEF Redoing, Arrived, Listed
      <4>2. InFlight' = commands'[r]
        BY <1>3, <3>2 DEF InFlight, LastCommand
      <4>. QED  BY <1>5, <4>1, <4>2 DEF Listed
    <3>. QED  BY <3>1, <3>2
  <2>. QED  BY <1>3, <2>1 DEF Progressing
<1>9. Moving'
  BY <1>1, <1>3 DEF Moving
<1>10. \A c \in 1..Len(commands) : DoneIn(c) = DoneIn(c)'
  <2>1. SUFFICES ASSUME NEW c \in 1..Len(commands) PROVE DoneIn(c) = DoneIn(c)'
    OBVIOUS
  <2>2. DoneIn(c) = IF c <= r THEN Steps(commands[c]) ELSE 0
    BY <1>1, DoneAtRest
  <2>3. DoneIn(c)' = IF c <= r THEN Steps(commands'[c]) ELSE 0
    <3>1. Steps(commands'[c]) \in Nat
      BY <1>5 DEF Listed
    <3>. QED  BY <1>1, <1>3, <3>1 DEF DoneIn
  <2>. QED  BY <1>6, <2>2, <2>3
<1>11. OnPath(path, known)'
  <2>1. Recording(known)'
    <3>1. commands' # <<>> => commands # <<>>
      BY <1>1, <1>5 DEF Listed
    <3>2. ASSUME commands # <<>> PROVE Len(commands) \in 1..Len(commands)
      BY <1>1, <3>2, EmptySeq DEF Listed, Typed
    <3>. QED  BY <1>1, <1>3, <1>6, <3>1, <3>2 DEF Recording, OnPath
  <2>2. Chained(path, known)'
    <3>1. SUFFICES ASSUME NEW c \in 1..Len(commands)
                   PROVE  /\ \A e \in 1..Known(known, c)' :
                               Links(commands'[c], e, path[c][e - 1], path[c][e], e <= DoneIn(c)')
                          /\ Fits(commands'[c], path[c], Known(known, c)')
                          /\ Known(known, c)' = Steps(commands'[c]) =>
                               path[c + 1][0] = path[c][Steps(commands'[c])]
      BY DEF Chained
    <3>2. /\ \A e \in 1..Known(known, c) :
               Links(commands[c], e, path[c][e - 1], path[c][e], e <= DoneIn(c))
          /\ Fits(commands[c], path[c], Known(known, c))
          /\ Known(known, c) = Steps(commands[c]) => path[c + 1][0] = path[c][Steps(commands[c])]
      BY DEF OnPath, Chained
    <3>3. Known(known, c)' = Known(known, c)
      BY <1>6 DEF Known
    <3>4. Fits(commands'[c], path[c], Known(known, c))
      <4>1. commands'[c].kind = commands[c].kind /\ commands'[c].entries = commands[c].entries
        OBVIOUS
      <4>2. Fits(commands[c], path[c], Known(known, c))
        BY <3>2
      <4>. QED  BY ONLY <4>1, <4>2, FitsAlike
    <3>5. \A e \in 1..Known(known, c) :
            Links(commands'[c], e, path[c][e - 1], path[c][e], e <= DoneIn(c)')
      BY <1>10, <3>2, ZenonT(40) DEF Links, Creates
    <3>. QED  BY <1>6, <3>2, <3>3, <3>4, <3>5
  <2>3. Standing(path)'
    BY <1>1, <1>2, <1>3 DEF OnPath, Standing
  <2>4. Pictured(path)'
    <3>1. \A c \in 1..Len(images) - 1 : Shown(commands'[c], path[c], images[c], images[c + 1])
      <4>1. SUFFICES ASSUME NEW c \in 1..Len(images) - 1
                     PROVE  Shown(commands'[c], path[c], images[c], images[c + 1])
        OBVIOUS
      <4>2. Shown(commands[c], path[c], images[c], images[c + 1]) /\ c \in 1..Len(commands)
        <5>1. Pictured(path)
          BY DEF OnPath
        <5>2. /\ Len(images) \in r + 1..Len(commands) + 1
              /\ \A x \in 1..Len(images) - 1 : Shown(commands[x], path[x], images[x], images[x + 1])
          BY ONLY <5>1 DEF Pictured
        <5>3. Len(commands) \in Nat /\ r \in Nat
          BY <1>1 DEF Listed
        <5>. QED  BY ONLY <5>2, <5>3, c \in 1..Len(images) - 1
      <4>3. /\ commands'[c].kind = commands[c].kind /\ commands'[c].entries = commands[c].entries
            /\ commands'[c].by = commands[c].by /\ Steps(commands'[c]) = Steps(commands[c])
        BY <1>6, <4>2
      <4>. QED  BY ONLY <4>2, <4>3 DEF Shown, ShowsMade, Made, Mentions, Creates
    <3>2. \A c \in 1..Len(commands) : commands'[c].kind = "delete" =>
            c <= Len(images) /\ Holds(commands'[c], images[c])
      BY DEF OnPath, Pictured, Holds
    <3>3. \A c \in 1..r : commands'[c].kind = "move" => Holds(commands'[c], images[c])
      <4>1. SUFFICES ASSUME NEW c \in 1..r, commands'[c].kind = "move"
                     PROVE  Holds(commands'[c], images[c])
        OBVIOUS
      <4>2. commands'[c].kind = commands[c].kind /\ commands'[c].entries = commands[c].entries
        BY <1>1 DEF Listed
      <4>3. Holds(commands[c], images[c])
        BY <4>1, <4>2 DEF OnPath, Pictured
      <4>. QED  BY ONLY <4>2, <4>3, HoldsAlike
    <3>. QED  BY <1>1, <1>3, <3>1, <3>2, <3>3 DEF OnPath, Pictured
  <2>5. Looks(path)'
    BY <1>1, <1>2, <1>3 DEF OnPath, Looks
  <2>. QED  BY <2>1, <2>2, <2>3, <2>4, <2>5 DEF OnPath
<1>. QED  BY <1>2, <1>4, <1>7, <1>8, <1>9, <1>11 DEF EInv

-----------------------------------------------------------------------------
(* The command in flight, its place in the history, and a step of it that  *)
(* leaves the command as cmd.                                              *)
Place == IF Redoing THEN current_revision + 1 ELSE current_revision

Flight(cmd, finishes) ==
  /\ ~Arrived
  /\ cmd \in Commands /\ cmd.kind = InFlight.kind /\ cmd.by = InFlight.by
  /\ Len(cmd.entries) = Len(InFlight.entries)
  /\ commands' = [commands EXCEPT ![Place] = cmd]
  /\ finishes <=> progress + 1 = Steps(InFlight)
  /\ Through(finishes)

(* What is before something in the list has a successor in it. *)
LEMMA SuccessorFits ==
  ASSUME NEW a \in Nat, NEW b \in Nat, NEW n \in Nat, a < b, b <= n
  PROVE  a + 1 \in 1..n
  OBVIOUS

(* Where the step leads. *)
LEMMA InTheAir ==
  ASSUME Typed, Progressing, NEW cmd, NEW finishes, Flight(cmd, finishes), Visible'
  PROVE  /\ Place \in 1..Len(commands) /\ InFlight = commands[Place]
         /\ Len(commands') = Len(commands) /\ commands'[Place] = cmd
         /\ \A x \in 1..Len(commands) : x # Place => commands'[x] = commands[x]
         /\ \A x \in 1..Len(commands) : Steps(commands'[x]) = Steps(commands[x])
         /\ progress \in 0..Steps(cmd) - 1 /\ Steps(cmd) \in Nat \ {0}
         /\ Steps(cmd) = Steps(commands[Place])
         /\ current_revision' = IF finishes THEN IF Redoing THEN current_revision + 1
                                                 ELSE current_revision - 1
                                ELSE current_revision
         /\ progress' = IF finishes THEN 0 ELSE progress + 1
         /\ finishes <=> progress + 1 = Steps(cmd)
         /\ Redoing => ~Undoing' /\ (~finishes => Redoing')
         /\ ~Redoing => ~Redoing' /\ (~finishes => Undoing') /\ Undoing
         /\ images' = IF finishes /\ Redoing /\ Len(images) = current_revision + 1
                      THEN Append(images, World') ELSE images
         /\ Typed' /\ Progressing'
<1>1. Listed
  BY Lists
<1>2. /\ ~Arrived
      /\ cmd \in Commands /\ cmd.kind = InFlight.kind /\ cmd.by = InFlight.by
      /\ Len(cmd.entries) = Len(InFlight.entries)
      /\ commands' = [commands EXCEPT ![Place] = cmd]
      /\ finishes <=> progress + 1 = Steps(InFlight)
      /\ Through(finishes)
  BY DEF Flight
<1>3. Place \in 1..Len(commands) /\ InFlight = commands[Place]
  BY <1>1, <1>2 DEF Place, Redoing, Arrived, InFlight, LastCommand, Listed
<1>4. /\ Len(commands') = Len(commands) /\ commands'[Place] = cmd
      /\ commands' \in Seq(Commands)
      /\ \A x \in 1..Len(commands) : x # Place => commands'[x] = commands[x]
  <2>1. commands' \in [1..Len(commands) -> Commands]
    BY <1>1, <1>2, <1>3 DEF Listed
  <2>2. commands' \in Seq(Commands) /\ Len(commands') = Len(commands)
    BY <1>1, <2>1, EP!FunctionIsSeq DEF Listed
  <2>. QED  BY <1>1, <1>2, <1>3, <2>2 DEF Listed
<1>5. Steps(cmd) = Steps(commands[Place]) /\ Steps(cmd) \in Nat \ {0} /\ Len(cmd.entries) > 0
  <2>1. Steps(cmd) = Steps(commands[Place]) /\ Len(cmd.entries) = Len(commands[Place].entries)
    BY <1>2, <1>3 DEF Steps
  <2>. QED  BY <1>1, <1>3, <2>1 DEF Listed
<1>6. progress \in 0..Steps(cmd) - 1
  BY <1>1, <1>2, <1>3, <1>5 DEF Progressing, Typed
<1>7. \A x \in 1..Len(commands) : Steps(commands'[x]) = Steps(commands[x])
  BY <1>4, <1>5
<1>8. /\ current_revision' = IF finishes THEN IF Redoing THEN current_revision + 1
                                              ELSE current_revision - 1
                             ELSE current_revision
      /\ progress' = IF finishes THEN 0 ELSE progress + 1
      /\ target_revision' = target_revision
      /\ saved_at_revision' = saved_at_revision
      /\ images' = IF finishes /\ Redoing /\ Len(images) = current_revision + 1
                   THEN Append(images, World') ELSE images
  BY <1>2 DEF Through
<1>9. /\ Redoing => ~Undoing' /\ (~finishes => Redoing')
      /\ ~Redoing => ~Redoing' /\ (~finishes => Undoing') /\ Undoing
  <2>1. /\ current_revision \in Nat /\ target_revision \in Nat
        /\ target_revision # current_revision
    BY <1>1, <1>2 DEF Listed, Arrived
  <2>2. CASE Redoing
    <3>1. current_revision < target_revision
      BY <2>2 DEF Redoing
    <3>2. current_revision' = IF finishes THEN current_revision + 1 ELSE current_revision
      BY <1>8, <2>2
    <3>. QED  BY <1>8, <2>1, <2>2, <3>1, <3>2 DEF Redoing, Undoing
  <2>3. CASE ~Redoing
    <3>1. current_revision > target_revision
      BY <2>1, <2>3 DEF Redoing
    <3>2. current_revision' = IF finishes THEN current_revision - 1 ELSE current_revision
      BY <1>8, <2>3
    <3>. QED  BY <1>8, <2>1, <2>3, <3>1, <3>2 DEF Redoing, Undoing
  <2>. QED  BY <2>2, <2>3
<1>10. current_revision' \in 0..Len(commands)
  <2>1. /\ current_revision \in 0..Len(commands) /\ target_revision \in 0..Len(commands)
        /\ Len(commands) \in Nat /\ target_revision # current_revision
    BY <1>1, <1>2 DEF Listed, Arrived
  <2>2. CASE Redoing
    <3>1. current_revision < target_revision
      BY <2>2 DEF Redoing
    <3>. QED  BY <1>8, <2>1, <2>2, <3>1
  <2>3. CASE ~Redoing
    <3>1. current_revision > target_revision
      BY <2>1, <2>3 DEF Redoing
    <3>. QED  BY <1>8, <2>1, <2>3, <3>1
  <2>. QED  BY <2>2, <2>3
<1>11. images' \in Seq(Tables)
  <2>1. World' \in Tables
    BY DEF Visible
  <2>. QED  BY <1>8, <2>1, AppendProperties DEF Typed
<1>12. Typed'
  <2>1. \A c \in 1..Len(commands') : Len(commands'[c].entries) > 0
    BY <1>4, <1>5 DEF Typed
  <2>2. progress' \in Nat
    BY <1>6, <1>8 DEF Typed
  <2>. QED  BY <1>4, <1>8, <1>10, <1>11, <2>1, <2>2 DEF Typed
<1>13. Progressing'
  <2>1. Listed'
    BY <1>12, Lists, PTL
  <2>2. ASSUME Arrived' PROVE progress' = 0
    BY <1>1, <1>2, <1>8, <2>2 DEF Arrived
  <2>3. ASSUME ~Arrived' PROVE progress' < Steps(InFlight')
    <3>1. Place' \in 1..Len(commands') /\ InFlight' = commands'[Place']
      <4>1. /\ current_revision' \in Nat /\ target_revision' \in Nat
            /\ current_revision' <= Len(commands') /\ target_revision' <= Len(commands')
            /\ Len(commands') \in Nat /\ target_revision' # current_revision'
        BY <2>1, <2>3 DEF Listed, Arrived
      <4>2. CASE Redoing'
        <5>1. current_revision' < target_revision'
          BY <4>2 DEF Redoing
        <5>2. Place' = current_revision' + 1 /\ InFlight' = commands'[current_revision' + 1]
          BY <4>2 DEF Place, InFlight
        <5>3. current_revision' + 1 \in 1..Len(commands')
          BY <4>1, <5>1, SuccessorFits
        <5>. QED  BY <5>2, <5>3
      <4>3. CASE ~Redoing'
        BY <4>1, <4>3 DEF Place, Redoing, InFlight, LastCommand
      <4>. QED  BY <4>2, <4>3
    <3>2. Steps(InFlight') \in Nat \ {0}
      BY <2>1, <3>1 DEF Listed
    <3>3. ASSUME ~finishes PROVE progress' < Steps(InFlight')
      <4>1. Place' = Place
        BY <1>8, <1>9, <3>3 DEF Place, Redoing, Undoing
      <4>2. InFlight' = cmd
        BY <1>4, <3>1, <4>1
      <4>. QED  BY <1>2, <1>3, <1>5, <1>6, <1>8, <3>3, <4>2
    <3>. QED  BY <1>8, <3>2, <3>3
  <2>. QED  BY <2>2, <2>3 DEF Progressing
<1>14. finishes <=> progress + 1 = Steps(cmd)
  BY <1>2, <1>3, <1>5
<1>. QED  BY <1>3, <1>4, <1>5, <1>6, <1>7, <1>8, <1>9, <1>12, <1>13, <1>14

(* The same step leads to the same pool.                                   *)
LEMMA LinksOnce ==
  ASSUME NEW command, NEW other, NEW e, NEW a, NEW b, NEW d, NEW p, NEW q,
         Links(command, e, a, b, p), Links(other, e, a, d, q),
         command.kind \in Kinds, other.kind = command.kind,
         command.kind = "delete" => other.entries[e].id = command.entries[e].id
  PROVE  b = d
  BY DEF Links, Creates, Kinds

(* A step adds an id, or takes one away. *)
LEMMA LinksLives ==
  ASSUME NEW command, NEW e, NEW a, NEW b, NEW done, Links(command, e, a, b, done)
  PROVE  /\ EP!Lives(a) \subseteq EP!Keys
         /\ Creates(command) => EP!Lives(a) \subseteq EP!Lives(b)
         /\ Creates(command) /\ Len(a.slots) # MaxSize =>
              /\ EP!Newest(b) \in EP!Keys \ EP!Lives(a)
              /\ EP!Lives(b) = EP!Lives(a) \cup {EP!Newest(b)}
         /\ command.kind = "delete" =>
              EP!Lives(b) = EP!Lives(a) \ {command.entries[e].id}
<1>1. EP!Sound(a) /\ EP!Lives(a) \subseteq EP!Keys
  BY DEF Links, EP!Lives
<1>2. ASSUME Creates(command), Len(a.slots) # MaxSize
      PROVE  /\ EP!Newest(b) \in EP!Keys \ EP!Lives(a)
             /\ EP!Lives(b) = EP!Lives(a) \cup {EP!Newest(b)}
  <2>1. Len(a.slots) < MaxSize
    BY <1>1, <1>2, PoolFits, LenProperties DEF EP!Sound, EP!PoolAssumption
  <2>2. b = EP!Allocated(a)
    BY <1>2 DEF Links
  <2>. QED  BY <1>1, <2>1, <2>2, PoolFits, EP!AllocatedLives
<1>3. ASSUME Creates(command), Len(a.slots) = MaxSize PROVE b = a
  BY <1>3 DEF Links
<1>4. ASSUME command.kind = "delete"
      PROVE  EP!Lives(b) = EP!Lives(a) \ {command.entries[e].id}
  <2>1. /\ command.entries[e].id \in EP!Lives(a)
        /\ b = EP!Freed(a, command.entries[e].id.indirection_index)
    BY <1>4 DEF Links
  <2>. QED  BY <1>1, <2>1, PoolFits, EP!FreedLives
<1>. QED  BY <1>1, <1>2, <1>3, <1>4

(* A path with one more pool on it, which may also be where the next       *)
(* command starts.                                                         *)
Extended(path, c, e, w, last) ==
  [x \in Nat |-> [y \in Nat |->
     IF (x = c /\ y = e) \/ (last /\ x = c + 1 /\ y = 0) THEN w ELSE path[x][y]]]

(* What the pictures need of a path that is extended.                      *)
Follows(path, path2, finishes) ==
  /\ \A x \in 1..Len(images) : path2[x][0] = path[x][0]
  /\ \A x \in 1..Len(images) - 1 : \A y \in 0..Steps(commands[x]) : path2[x][y] = path[x][y]
  /\ \A y \in 0..progress : path2[Place][y] = path[Place][y]
  /\ path2[Place][progress + 1] = EP!Whole'
  /\ finishes => path2[Place + 1][0] = EP!Whole'

(* A step forward stays on the path, or, if it is taken for the first      *)
(* time, makes it longer.                                                  *)
LEMMA StepsForward ==
  ASSUME EP!IInv, Typed, Progressing, NEW path, NEW known, OnPath(path, known),
         NEW cmd, NEW finishes, Flight(cmd, finishes), Redoing, Visible',
         \A i \in 1..Len(cmd.entries) :
           /\ cmd.entries[i].source = InFlight.entries[i].source
           /\ i # progress + 1 => /\ cmd.entries[i].id = InFlight.entries[i].id
                                  /\ cmd.entries[i].real_index = InFlight.entries[i].real_index
           /\ ~Creates(cmd) => cmd.entries[i].id = InFlight.entries[i].id,
         Links(cmd, progress + 1, EP!Whole, EP!Whole', TRUE)
  PROVE  \E path2, known2 :
           /\ Recording(known2)' /\ Chained(path2, known2)' /\ Standing(path2)'
           /\ Follows(path, path2, finishes)
<1>c. PICK c : c = current_revision + 1
  OBVIOUS
<1>. DEFINE e == progress + 1
            w == EP!Whole'
            old == commands[c]
            N == Steps(cmd)
<1>1. /\ c \in 1..Len(commands) /\ Place = c /\ InFlight = old
      /\ Len(commands') = Len(commands) /\ commands'[c] = cmd
      /\ \A x \in 1..Len(commands) : x # c => commands'[x] = commands[x]
      /\ \A x \in 1..Len(commands) : Steps(commands'[x]) = Steps(commands[x])
      /\ progress \in 0..N - 1 /\ N \in Nat \ {0} /\ N = Steps(old)
      /\ current_revision' = IF finishes THEN c ELSE current_revision
      /\ progress' = IF finishes THEN 0 ELSE e
      /\ finishes <=> e = N
      /\ ~Undoing' /\ (~finishes => Redoing')
      /\ Typed'
  BY <1>c, InTheAir DEF Place
<1>2. /\ Listed
      /\ Len(commands) \in Nat /\ current_revision \in Nat /\ c \in Nat /\ progress \in Nat
      /\ e \in 1..N /\ ~Undoing /\ current_revision = c - 1
  BY <1>1, <1>c, Lists DEF Listed, Redoing, Undoing
<1>3. cmd.kind \in Kinds /\ cmd.kind = old.kind /\ Len(cmd.entries) = Len(old.entries)
      /\ Len(cmd.entries) \in Nat /\ (cmd.kind # "move" => N = Len(cmd.entries))
  BY <1>1, <1>2 DEF Flight, Commands, Listed
<1>4. EP!Whole = path[c][progress]
  BY <1>c DEF OnPath, Standing
<1>5. /\ \A i \in 1..Known(known, c) : Links(old, i, path[c][i - 1], path[c][i], i <= DoneIn(c))
      /\ Fits(old, path[c], Known(known, c))
      /\ Known(known, c) = N => path[c + 1][0] = path[c][N]
  BY <1>1 DEF OnPath, Chained
<1>6. e <= Known(known, c) => path[c][e] = w
  <2>1. SUFFICES ASSUME e \in 1..Known(known, c) PROVE path[c][e] = w
    BY <1>1, <1>2 DEF Known, OnPath, Recording
  <2>2. e - 1 = progress
    BY <1>2
  <2>3. Links(old, e, EP!Whole, path[c][e], e <= DoneIn(c))
    BY <1>4, <1>5, <2>1, <2>2
  <2>4. old.kind = "delete" => cmd.entries[e].id = old.entries[e].id
    BY <1>1, <1>2, <1>3 DEF Creates
  <2>. QED  BY <1>3, <2>3, <2>4, LinksOnce
<1>7. e <= Known(known, c) => Known(known, c) = N
  <2>1. CASE c < Len(commands)
    BY <1>1, <2>1 DEF Known
  <2>2. CASE c = Len(commands)
    <3>1. commands # <<>>
      BY <1>1, <1>2, <2>2
    <3>2. known \in 0..N /\ (known < N => progress = known)
      BY <1>1, <2>2, <3>1 DEF OnPath, Recording
    <3>3. Known(known, c) = known
      BY <2>2 DEF Known
    <3>. QED  BY <1>1, <1>2, <3>2, <3>3
  <2>. QED  BY <1>1, <1>2, <2>1, <2>2
<1>8. ~(e <= Known(known, c)) =>
        c = Len(commands) /\ known = progress /\ Known(known, c) = progress /\ Len(images) = c
  <2>1. SUFFICES ASSUME ~(e <= Known(known, c))
                 PROVE  c = Len(commands) /\ known = progress /\ Known(known, c) = progress
                        /\ Len(images) = c
    OBVIOUS
  <2>2. c = Len(commands)
    BY <1>1, <1>2, <2>1 DEF Known
  <2>3. commands # <<>>
    BY <1>1, <1>2, <2>2
  <2>4. known \in 0..N /\ (known < N => progress = known /\ Len(images) = c)
    BY <1>1, <2>2, <2>3 DEF OnPath, Recording
  <2>5. Known(known, c) = known
    BY <2>2 DEF Known
  <2>. QED  BY <1>1, <1>2, <2>1, <2>2, <2>4, <2>5
<1>r. known \in Nat
  <2>1. commands # <<>>
    BY <1>1, <1>2
  <2>2. Len(commands) \in 1..Len(commands)
    BY <1>1, <1>2
  <2>3. known \in 0..Steps(commands[Len(commands)])
    BY <2>1 DEF OnPath, Recording
  <2>4. Steps(commands[Len(commands)]) \in Nat
    BY <1>2, <2>2 DEF Listed
  <2>. QED  BY <2>3, <2>4
<1>k. PICK known2 : known2 = IF c = Len(commands) /\ known < e THEN e ELSE known
  OBVIOUS
<1>p. PICK path2 : path2 = Extended(path, c, e, w, finishes)
  OBVIOUS
<1>9. \A x, y \in Nat :
        path2[x][y] = IF (x = c /\ y = e) \/ (finishes /\ x = c + 1 /\ y = 0) THEN w ELSE path[x][y]
  BY <1>p DEF Extended
<1>10. e <= Known(known, c) => \A x, y \in Nat : path2[x][y] = path[x][y]
  <2>1. SUFFICES ASSUME e <= Known(known, c), NEW x \in Nat, NEW y \in Nat
                 PROVE  path2[x][y] = path[x][y]
    OBVIOUS
  <2>2. path[c][e] = w
    BY <1>6, <2>1
  <2>3. finishes => path[c + 1][0] = w
    BY <1>1, <1>5, <1>7, <2>1, <2>2
  <2>. QED  BY <1>9, <2>2, <2>3
<1>11. \A x \in 1..Len(commands) : x # c =>
         /\ \A y \in Nat : path2[x][y] = path[x][y]
         /\ path2[x + 1][0] = path[x + 1][0]
  <2>1. SUFFICES ASSUME NEW x \in 1..Len(commands), x # c
                 PROVE  /\ \A y \in Nat : path2[x][y] = path[x][y]
                        /\ path2[x + 1][0] = path[x + 1][0]
    OBVIOUS
  <2>2. CASE e <= Known(known, c)
    BY <1>2, <1>10, <2>2
  <2>3. CASE ~(e <= Known(known, c))
    <3>1. c = Len(commands)
      BY <1>8, <2>3
    <3>2. x \in Nat /\ x + 1 \in Nat /\ x # c + 1 /\ x + 1 # c + 1 /\ e # 0 /\ 0 \in Nat
      BY <1>2, <2>1, <3>1
    <3>. QED  BY <1>9, <2>1, <3>2
  <2>. QED  BY <2>2, <2>3
<1>12. \A y \in 0..progress : path2[c][y] = path[c][y]
  <2>1. \A y \in 0..progress : y \in Nat /\ y # e /\ c # c + 1
    BY <1>2
  <2>. QED  BY <1>2, <1>9, <2>1
<1>13. path2[c][e] = w /\ (finishes => path2[c + 1][0] = w)
  <2>1. c \in Nat /\ e \in Nat /\ c + 1 \in Nat /\ 0 \in Nat
    BY <1>2
  <2>. QED  BY <1>9, <2>1
<1>14. Follows(path, path2, finishes)
  <2>1. \A x \in 1..Len(images) : path2[x][0] = path[x][0]
    <3>1. SUFFICES ASSUME NEW x \in 1..Len(images) PROVE path2[x][0] = path[x][0]
      OBVIOUS
    <3>2. x \in Nat /\ 0 \in Nat /\ e # 0
      BY <1>2
    <3>3. CASE e <= Known(known, c)
      BY <1>10, <3>2, <3>3
    <3>4. CASE ~(e <= Known(known, c))
      <4>1. x # c + 1
        BY <1>2, <1>8, <3>4
      <4>. QED  BY <1>9, <3>2, <4>1
    <3>. QED  BY <3>3, <3>4
  <2>2. \A x \in 1..Len(images) - 1 : \A y \in 0..Steps(commands[x]) : path2[x][y] = path[x][y]
    <3>1. SUFFICES ASSUME NEW x \in 1..Len(images) - 1, NEW y \in 0..Steps(commands[x])
                   PROVE  path2[x][y] = path[x][y]
      OBVIOUS
    <3>2. x \in Nat /\ y \in Nat
      BY <1>2 DEF Listed
    <3>3. CASE e <= Known(known, c)
      BY <1>10, <3>2, <3>3
    <3>4. CASE ~(e <= Known(known, c))
      <4>1. x # c /\ x # c + 1
        BY <1>2, <1>8, <3>4
      <4>. QED  BY <1>9, <3>2, <4>1
    <3>. QED  BY <3>3, <3>4
  <2>. QED  BY <1>1, <1>12, <1>13, <2>1, <2>2 DEF Follows
<1>15. Recording(known2)'
  <2>1. Len(commands') = Len(commands) /\ c <= Len(commands) /\ commands # <<>>
    BY <1>1, <1>2
  <2>2. known \in 0..Steps(commands[Len(commands)])
        /\ (known < Steps(commands[Len(commands)]) =>
              c = Len(commands) /\ progress = known /\ Len(images) = Len(commands))
    BY <1>c, <2>1 DEF OnPath, Recording
  <2>3. Steps(commands'[Len(commands)]) = Steps(commands[Len(commands)])
    <3>1. Len(commands) \in 1..Len(commands)
      BY <1>2, <2>1
    <3>. QED  BY <1>1, <3>1
  <2>4. CASE c = Len(commands) /\ known < e
    <3>1. known2 = e /\ e \in 0..N /\ Steps(commands[Len(commands)]) = N
      BY <1>1, <1>2, <1>k, <2>4
    <3>2. e < N => Redoing' /\ current_revision' + 1 = Len(commands) /\ progress' = e
                   /\ Len(images') = Len(commands)
      <4>1. SUFFICES ASSUME e < N
                     PROVE  Redoing' /\ current_revision' + 1 = Len(commands) /\ progress' = e
                            /\ Len(images') = Len(commands)
        OBVIOUS
      <4>2. ~finishes /\ known < N
        BY <1>1, <1>2, <2>2, <2>4, <3>1, <4>1
      <4>3. images' = images
        BY <4>2 DEF Flight, Through
      <4>. QED  BY <1>1, <1>2, <2>2, <2>4, <3>1, <4>2, <4>3
    <3>. QED  BY <2>1, <2>3, <3>1, <3>2 DEF Recording
  <2>5. CASE ~(c = Len(commands) /\ known < e)
    <3>1. known2 = known /\ ~(known < Steps(commands[Len(commands)]))
      BY <1>1, <1>2, <1>k, <2>2, <2>5
    <3>. QED  BY <2>1, <2>2, <2>3, <3>1 DEF Recording
  <2>. QED  BY <2>4, <2>5
<1>16. \A x \in 1..Len(commands) :
         Known(known2, x)' = IF x = c /\ ~(e <= Known(known, c)) THEN e ELSE Known(known, x)
  <2>1. SUFFICES ASSUME NEW x \in 1..Len(commands)
                 PROVE  Known(known2, x)' =
                          IF x = c /\ ~(e <= Known(known, c)) THEN e ELSE Known(known, x)
    OBVIOUS
  <2>2. Known(known2, x)' = IF x < Len(commands) THEN Steps(commands[x]) ELSE known2
    BY <1>1 DEF Known
  <2>3. CASE e <= Known(known, c)
    <3>1. known2 = known
      <4>1. c = Len(commands) => Known(known, c) = known
        BY <1>1, <1>2 DEF Known
      <4>2. c = Len(commands) => e <= known
        BY <2>3, <4>1
      <4>. QED  BY <1>2, <1>k, <1>r, <4>2
    <3>. QED  BY <2>2, <2>3, <3>1 DEF Known
  <2>4. CASE ~(e <= Known(known, c))
    <3>1. c = Len(commands) /\ known = progress /\ known2 = e
      BY <1>1, <1>2, <1>8, <1>k, <2>4
    <3>2. x < Len(commands) <=> x # c
      BY <1>2, <3>1
    <3>. QED  BY <2>2, <2>4, <3>1, <3>2 DEF Known
  <2>. QED  BY <2>3, <2>4
<1>17. \A x \in 1..Len(commands) : DoneIn(x)' = IF x = c THEN e ELSE DoneIn(x)
  <2>1. SUFFICES ASSUME NEW x \in 1..Len(commands)
                 PROVE  DoneIn(x)' = IF x = c THEN e ELSE DoneIn(x)
    OBVIOUS
  <2>2. Steps(commands'[x]) = Steps(commands[x]) /\ Steps(commands[x]) \in Nat
    BY <1>1, <1>2 DEF Listed
  <2>3. DoneIn(x) = IF x < c THEN Steps(commands[x]) ELSE IF x = c THEN progress ELSE 0
    BY <1>2, <2>2 DEF DoneIn
  <2>4. CASE finishes
    <3>1. current_revision' = c /\ progress' = 0 /\ e = N
      BY <1>1, <2>4
    <3>2. DoneIn(x)' = IF x <= c THEN Steps(commands[x]) ELSE 0
      BY <1>1, <1>2, <2>2, <3>1 DEF DoneIn
    <3>. QED  BY <1>1, <1>2, <2>3, <3>1, <3>2
  <2>5. CASE ~finishes
    <3>1. current_revision' = c - 1 /\ progress' = e /\ Redoing'
      BY <1>1, <1>2, <2>5
    <3>2. DoneIn(x)' = IF x < c THEN Steps(commands[x]) ELSE IF x = c THEN e ELSE 0
      BY <1>1, <1>2, <2>2, <3>1 DEF DoneIn
    <3>. QED  BY <1>1, <1>2, <2>3, <3>2
  <2>. QED  BY <2>4, <2>5
<1>18. /\ DoneIn(c) = progress /\ DoneIn(c)' = e
       /\ Known(known2, c)' = IF ~(e <= Known(known, c)) THEN e ELSE Known(known, c)
       /\ e <= Known(known, c) => Known(known2, c)' = Known(known, c) /\ Known(known2, c)' = N
       /\ ~(e <= Known(known, c)) => Known(known2, c)' = e /\ Known(known, c) = progress
  <2>1. DoneIn(c) = progress
    BY <1>1, <1>2 DEF DoneIn
  <2>2. DoneIn(c)' = e
    BY <1>1, <1>17
  <2>3. Known(known2, c)' = IF ~(e <= Known(known, c)) THEN e ELSE Known(known, c)
    BY <1>1, <1>16
  <2>. QED  BY <1>7, <1>8, <2>1, <2>2, <2>3
<1>k2. PICK kk : kk = Known(known2, c)'
  OBVIOUS
<1>d2. PICK d : d = DoneIn(c)'
  OBVIOUS
<1>k1. PICK ko : ko = Known(known, c)
  OBVIOUS
<1>kd. /\ d = e
       /\ e <= ko => kk = ko /\ kk = N
       /\ ~(e <= ko) => kk = e /\ ko = progress
  BY <1>18, <1>k1, <1>k2, <1>d2
<1>ke. kk \in 0..N /\ kk \in Nat /\ ko \in Nat /\ ko <= kk /\ e <= kk
  BY <1>1, <1>2, <1>kd
<1>19. \A i \in 1..kk : Links(cmd, i, path2[c][i - 1], path2[c][i], i <= d)
  <2>1. SUFFICES ASSUME NEW i \in 1..kk
                 PROVE  Links(cmd, i, path2[c][i - 1], path2[c][i], i <= e)
    BY <1>kd
  <2>2. i \in 1..N /\ i \in Nat /\ i - 1 \in Nat
    BY <1>1, <1>2, <1>ke
  <2>3. CASE i = e
    <3>1. e - 1 = progress /\ progress \in 0..progress
      BY <1>2
    <3>2. path2[c][i - 1] = EP!Whole /\ path2[c][i] = w
      BY <1>4, <1>12, <1>13, <2>3, <3>1
    <3>3. (i <= e) = TRUE
      BY <1>2, <2>3
    <3>. QED  BY <2>3, <3>2, <3>3
  <2>4. CASE i # e
    <3>1. i \in 1..ko
      BY <1>1, <1>2, <1>kd, <2>1, <2>2, <2>4
    <3>2. Links(old, i, path[c][i - 1], path[c][i], i <= progress)
      BY <1>5, <1>18, <1>k1, <3>1
    <3>3. path2[c][i - 1] = path[c][i - 1] /\ path2[c][i] = path[c][i]
      <4>2. CASE e <= ko
        BY <1>2, <1>10, <1>k1, <2>2, <4>2
      <4>3. CASE ~(e <= ko)
        <5>1. i \in 0..progress /\ i - 1 \in 0..progress
          BY <1>2, <1>kd, <2>2, <3>1, <4>3
        <5>. QED  BY <1>12, <5>1
      <4>. QED  BY <4>2, <4>3
    <3>4. (i <= e) <=> (i <= progress)
      BY <1>2, <2>2, <2>4
    <3>5. /\ cmd.kind = old.kind
          /\ cmd.kind # "move" =>
               /\ cmd.entries[i].id = old.entries[i].id
               /\ cmd.entries[i].real_index = old.entries[i].real_index
      BY <1>1, <1>3, <2>2, <2>4
    <3>6. Links(cmd, i, path[c][i - 1], path[c][i], i <= progress)
      BY ONLY <3>2, <3>5 DEF Links, Creates
    <3>7. Links(cmd, i, path[c][i - 1], path[c][i], i <= e)
      BY ONLY <3>4, <3>6 DEF Links
    <3>. QED  BY <3>3, <3>7
  <2>. QED  BY <2>3, <2>4
<1>20. Fits(cmd, path2[c], kk)
  <2>1. Fits(old, path[c], ko)
    BY <1>5, <1>k1
  <2>2. cmd.kind = old.kind /\ Len(cmd.entries) = Len(old.entries)
    BY <1>3
  <2>3. path2[c][0] = path[c][0]
    BY <1>2, <1>12
  <2>4. ASSUME cmd.kind = "move"
        PROVE  \A i \in 1..Len(cmd.entries) : cmd.entries[i].id \in EP!Lives(path2[c][0])
    BY <1>1, <2>1, <2>2, <2>3, <2>4 DEF Fits, Creates
  <2>5. ASSUME cmd.kind = "duplicate"
        PROVE  \A i \in 1..Len(cmd.entries) : cmd.entries[i].source \in EP!Lives(path2[c][0])
    BY <1>1, <2>1, <2>2, <2>3, <2>5 DEF Fits
  <2>6. ASSUME Creates(cmd) PROVE \A i \in kk + 1..Len(cmd.entries) : cmd.entries[i].id = NoId
    <3>1. SUFFICES ASSUME NEW i \in kk + 1..Len(cmd.entries) PROVE cmd.entries[i].id = NoId
      OBVIOUS
    <3>2. i \in ko + 1..Len(old.entries) /\ i \in 1..Len(cmd.entries) /\ i # progress + 1
      BY <1>2, <1>3, <1>ke
    <3>3. Creates(old)
      BY <2>2, <2>6 DEF Creates
    <3>4. old.entries[i].id = NoId
      BY <2>1, <3>2, <3>3 DEF Fits
    <3>. QED  BY <1>1, <3>2, <3>4
  <2>l. \A y \in 0..ko : path2[c][y] = path[c][y]
    <3>1. CASE e <= ko
      BY <1>2, <1>10, <1>k1, <1>ke, <3>1
    <3>2. CASE ~(e <= ko)
      BY <1>12, <1>kd, <3>2
    <3>. QED  BY <3>1, <3>2
  <2>s. (kk = ko /\ e <= ko) \/ (kk = e /\ ko = progress /\ e = ko + 1)
    BY <1>2, <1>kd
  <2>p. Links(cmd, e, path2[c][progress], path2[c][e], TRUE)
    <3>1. progress \in 0..progress
      BY <1>2
    <3>. QED  BY <1>4, <1>12, <1>13, <3>1
  <2>q. /\ Creates(cmd) => EP!Lives(path2[c][progress]) \subseteq EP!Lives(path2[c][e])
        /\ cmd.kind = "delete" =>
             EP!Lives(path2[c][e]) = EP!Lives(path2[c][progress]) \ {cmd.entries[e].id}
    <3>1. progress \in Nat /\ e - 1 = progress
      BY <1>2
    <3>2. PICK a, b : a = path2[c][progress] /\ b = path2[c][e]
      OBVIOUS
    <3>3. Links(cmd, e, a, b, TRUE)
      BY <2>p, <3>2
    <3>4. /\ Creates(cmd) => EP!Lives(a) \subseteq EP!Lives(b)
          /\ cmd.kind = "delete" => EP!Lives(b) = EP!Lives(a) \ {cmd.entries[e].id}
      BY ONLY <3>3, LinksLives, ZenonT(40)
    <3>. QED  BY <3>2, <3>4
  <2>7. ASSUME Creates(cmd), NEW i \in 0..kk, NEW j \in 0..kk, i <= j
        PROVE  EP!Lives(path2[c][i]) \subseteq EP!Lives(path2[c][j])
    <3>0. Creates(old)
      BY <2>2, <2>7 DEF Creates
    <3>1. \A a, b \in 0..ko : a <= b => EP!Lives(path2[c][a]) \subseteq EP!Lives(path2[c][b])
      BY <2>1, <2>l, <3>0 DEF Fits
    <3>2. CASE j \in 0..ko
      <4>1. i \in 0..ko
        BY <1>ke, <2>7, <3>2
      <4>. QED  BY <2>7, <3>1, <3>2, <4>1
    <3>3. CASE j \notin 0..ko
      <4>1. j = e /\ ko = progress /\ progress \in 0..ko
        BY <1>2, <1>ke, <2>s, <2>7, <3>3
      <4>2. CASE i = e
        BY <4>1, <4>2
      <4>3. CASE i # e
        <5>1. i \in 0..ko /\ i <= progress
          BY <1>2, <1>ke, <2>s, <2>7, <4>1, <4>3
        <5>. QED  BY <2>7, <2>q, <3>1, <4>1, <5>1
      <4>. QED  BY <4>2, <4>3
    <3>. QED  BY <3>2, <3>3
  <2>8. ASSUME cmd.kind = "delete"
        PROVE  /\ \A i \in 1..Len(cmd.entries) : cmd.entries[i].id \in EP!Lives(path2[c][0])
               /\ \A i, j \in 1..Len(cmd.entries) : cmd.entries[i].id = cmd.entries[j].id => i = j
               /\ \A f \in 0..kk, key \in EP!Keys :
                    key \in EP!Lives(path2[c][f]) <=>
                      key \in EP!Lives(path2[c][0]) /\ \A i \in 1..f : cmd.entries[i].id # key
    <3>1. \A i \in 1..Len(cmd.entries) : cmd.entries[i].id = old.entries[i].id
      BY <1>1, <2>8 DEF Creates
    <3>2. /\ \A i \in 1..Len(old.entries) : old.entries[i].id \in EP!Lives(path[c][0])
          /\ \A i, j \in 1..Len(old.entries) : old.entries[i].id = old.entries[j].id => i = j
          /\ \A f \in 0..ko, key \in EP!Keys :
               key \in EP!Lives(path[c][f]) <=>
                 key \in EP!Lives(path[c][0]) /\ \A i \in 1..f : old.entries[i].id # key
      BY <2>1, <2>2, <2>8 DEF Fits
    <3>3. ko <= Len(cmd.entries) /\ kk <= Len(cmd.entries) /\ Len(cmd.entries) \in Nat
      BY <1>3, <1>ke, <2>8
    <3>4. ASSUME NEW f \in 0..ko, NEW key \in EP!Keys
          PROVE  key \in EP!Lives(path2[c][f]) <=>
                   key \in EP!Lives(path2[c][0]) /\ \A i \in 1..f : cmd.entries[i].id # key
      <4>1. \A i \in 1..f : i \in 1..Len(cmd.entries)
        BY <1>ke, <3>3
      <4>2. \A i \in 1..f : cmd.entries[i].id = old.entries[i].id
        BY <3>1, <4>1
      <4>. QED  BY <2>l, <2>3, <3>2, <4>2
    <3>5. ASSUME NEW f \in 0..kk, f \notin 0..ko, NEW key \in EP!Keys
          PROVE  key \in EP!Lives(path2[c][f]) <=>
                   key \in EP!Lives(path2[c][0]) /\ \A i \in 1..f : cmd.entries[i].id # key
      <4>1. f = e /\ ko = progress /\ progress \in 0..ko
        BY <1>2, <1>ke, <2>s, <3>5
      <4>2. key \in EP!Lives(path2[c][progress]) <=>
              key \in EP!Lives(path2[c][0]) /\ \A i \in 1..progress : cmd.entries[i].id # key
        BY <3>4, <4>1
      <4>3. key \in EP!Lives(path2[c][e]) <=>
              key \in EP!Lives(path2[c][progress]) /\ cmd.entries[e].id # key
        BY <2>q, <2>8
      <4>4. \A i : i \in 1..e <=> (i \in 1..progress \/ i = e)
        BY <1>2
      <4>. QED  BY <4>1, <4>2, <4>3, <4>4
    <3>. QED  BY <2>2, <2>3, <3>1, <3>2, <3>4, <3>5
  <2>. QED  BY <2>4, <2>5, <2>6, <2>7, <2>8 DEF Fits
<1>21. kk = N => path2[c + 1][0] = path2[c][N]
  <2>1. SUFFICES ASSUME kk = N PROVE path2[c + 1][0] = path2[c][N]
    OBVIOUS
  <2>2. CASE e <= ko
    <3>1. ko = N /\ N \in Nat /\ c + 1 \in Nat /\ 0 \in Nat
      BY <1>1, <1>2, <1>kd, <2>1, <2>2
    <3>. QED  BY <1>2, <1>5, <1>10, <1>k1, <2>2, <3>1
  <2>3. CASE ~(e <= ko)
    BY <1>1, <1>13, <1>kd, <2>1, <2>3
  <2>. QED  BY <2>2, <2>3
<1>22. Chained(path2, known2)'
  <2>1. SUFFICES ASSUME NEW x \in 1..Len(commands)
                 PROVE  /\ \A i \in 1..Known(known2, x)' :
                             Links(commands'[x], i, path2[x][i - 1], path2[x][i], i <= DoneIn(x)')
                        /\ Fits(commands'[x], path2[x], Known(known2, x)')
                        /\ Known(known2, x)' = Steps(commands'[x]) =>
                             path2[x + 1][0] = path2[x][Steps(commands'[x])]
    BY <1>1 DEF Chained
  <2>2. CASE x = c
    BY <1>1, <1>19, <1>20, <1>21, <1>k2, <1>d2, <2>2
  <2>3. CASE x # c
    <3>1. commands'[x] = commands[x] /\ Steps(commands[x]) \in Nat
      BY <1>1, <1>2, <2>3 DEF Listed
    <3>2. Known(known2, x)' = Known(known, x) /\ DoneIn(x)' = DoneIn(x)
      BY <1>16, <1>17, <2>3
    <3>3. /\ \A i \in 1..Known(known, x) :
               Links(commands[x], i, path[x][i - 1], path[x][i], i <= DoneIn(x))
          /\ Fits(commands[x], path[x], Known(known, x))
          /\ Known(known, x) = Steps(commands[x]) => path[x + 1][0] = path[x][Steps(commands[x])]
      BY DEF OnPath, Chained
    <3>4. (\A y \in Nat : path2[x][y] = path[x][y]) /\ path2[x + 1][0] = path[x + 1][0]
      BY <1>11, <2>3
    <3>5. Known(known, x) \in Nat
      BY <1>r, <3>1 DEF Known
    <3>6. \A i \in 1..Known(known, x) :
            path2[x][i - 1] = path[x][i - 1] /\ path2[x][i] = path[x][i]
      BY <3>4, <3>5
    <3>7. Fits(commands[x], path2[x], Known(known, x))
      <4>1. \A y \in 0..Known(known, x) : path2[x][y] = path[x][y]
        BY <3>4, <3>5
      <4>2. path2[x][0] = path[x][0]
        BY <3>4
      <4>. QED  BY <3>3, <4>1, <4>2 DEF Fits
    <3>. QED  BY <3>1, <3>2, <3>3, <3>4, <3>6, <3>7
  <2>. QED  BY <2>2, <2>3
<1>23. Standing(path2)'
  <2>1. progress' = 0 => EP!Whole' = path2[current_revision' + 1][0]
    BY <1>1, <1>2, <1>13
  <2>2. progress' # 0 => EP!Whole' = path2[current_revision' + 1][progress']
    BY <1>1, <1>2, <1>13
  <2>. QED  BY <1>1, <2>1, <2>2 DEF Standing
<1>. QED  BY <1>14, <1>15, <1>22, <1>23

(* A step back returns to the pool the same step forward left.             *)
LEMMA StepsBack ==
  ASSUME EP!IInv, Typed, Progressing, NEW path, NEW known, OnPath(path, known),
         NEW cmd, NEW finishes, Flight(cmd, finishes), ~Redoing, Visible',
         NEW e, e = Steps(cmd) - progress,
         \A i \in 1..Len(cmd.entries) :
           /\ cmd.entries[i].source = InFlight.entries[i].source
           /\ i # e => /\ cmd.entries[i].id = InFlight.entries[i].id
                       /\ cmd.entries[i].real_index = InFlight.entries[i].real_index
           /\ ~Creates(cmd) => cmd.entries[i].id = InFlight.entries[i].id,
         NEW a, NEW b, a = path[Place][e - 1], b = path[Place][e],
         Links(cmd, e, a, b, FALSE), EP!Whole' = a
  PROVE  Recording(known)' /\ Chained(path, known)' /\ Standing(path)'
<1>c. PICK c : c = current_revision
  OBVIOUS
<1>. DEFINE old == commands[c]
            N == Steps(cmd)
<1>1. /\ c \in 1..Len(commands) /\ Place = c /\ InFlight = old
      /\ Len(commands') = Len(commands) /\ commands'[c] = cmd
      /\ \A x \in 1..Len(commands) : x # c => commands'[x] = commands[x]
      /\ \A x \in 1..Len(commands) : Steps(commands'[x]) = Steps(commands[x])
      /\ progress \in 0..N - 1 /\ N \in Nat \ {0} /\ N = Steps(old)
      /\ current_revision' = IF finishes THEN c - 1 ELSE c
      /\ progress' = IF finishes THEN 0 ELSE progress + 1
      /\ finishes <=> progress + 1 = N
      /\ ~Redoing' /\ (~finishes => Undoing') /\ Undoing
      /\ Typed'
  BY <1>c, InTheAir DEF Place
<1>2. /\ Listed
      /\ Len(commands) \in Nat /\ c \in Nat /\ progress \in Nat
      /\ e \in 1..N /\ e \in Nat /\ e - 1 \in Nat /\ e = N - progress
  BY <1>1, Lists DEF Listed
<1>3. cmd.kind \in Kinds /\ cmd.kind = old.kind /\ Len(cmd.entries) = Len(old.entries)
      /\ Len(cmd.entries) \in Nat /\ (cmd.kind # "move" => N = Len(cmd.entries))
  BY <1>1, <1>2 DEF Flight, Commands, Listed
<1>4. \A x \in 1..Len(commands) : Known(known, x) = Steps(commands[x])
  BY <1>2, AllKnown DEF OnPath
<1>5. \A x \in 1..Len(commands) :
        /\ \A i \in 1..Steps(commands[x]) :
             Links(commands[x], i, path[x][i - 1], path[x][i], i <= DoneIn(x))
        /\ Fits(commands[x], path[x], Steps(commands[x]))
        /\ path[x + 1][0] = path[x][Steps(commands[x])]
  BY <1>4 DEF OnPath, Chained
<1>6. known = Steps(commands[Len(commands)])
  <2>1. Len(commands) \in 1..Len(commands)
    BY <1>1, <1>2
  <2>. QED  BY <1>4, <2>1 DEF Known
<1>7. \A x \in 1..Len(commands) : Known(known, x)' = Steps(commands[x])
  <2>1. SUFFICES ASSUME NEW x \in 1..Len(commands) PROVE Known(known, x)' = Steps(commands[x])
    OBVIOUS
  <2>2. Known(known, x)' = IF x < Len(commands) THEN Steps(commands[x]) ELSE known
    BY <1>1 DEF Known
  <2>3. x = Len(commands) => known = Steps(commands[x])
    BY <1>6
  <2>. QED  BY <1>2, <2>2, <2>3
<1>8. \A x \in 1..Len(commands) :
        /\ DoneIn(x) = IF x = c THEN e ELSE IF x < c THEN Steps(commands[x]) ELSE 0
        /\ DoneIn(x)' = IF x = c THEN e - 1 ELSE DoneIn(x)
  <2>1. SUFFICES ASSUME NEW x \in 1..Len(commands)
                 PROVE  /\ DoneIn(x) = IF x = c THEN e ELSE IF x < c THEN Steps(commands[x]) ELSE 0
                        /\ DoneIn(x)' = IF x = c THEN e - 1 ELSE DoneIn(x)
    OBVIOUS
  <2>2. /\ Steps(commands'[x]) = Steps(commands[x]) /\ Steps(commands[x]) \in Nat
        /\ x = c => Steps(commands[x]) = N
    BY <1>1, <1>2 DEF Listed
  <2>3. DoneIn(x) = IF x = c THEN e ELSE IF x < c THEN Steps(commands[x]) ELSE 0
    BY <1>c, <1>1, <1>2, <2>2 DEF DoneIn
  <2>4. CASE finishes
    <3>1. current_revision' = c - 1 /\ progress' = 0 /\ e - 1 = 0 /\ ~Redoing'
      BY <1>1, <1>2, <2>4
    <3>2. DoneIn(x)' = IF x < c - 1 THEN Steps(commands[x])
                       ELSE IF x = c - 1
                       THEN Steps(commands[x]) - (IF Undoing' THEN 0 ELSE 0) ELSE 0
      BY <2>2, <3>1 DEF DoneIn
    <3>. QED  BY <1>2, <2>2, <2>3, <3>1, <3>2
  <2>5. CASE ~finishes
    <3>1. current_revision' = c /\ progress' = progress + 1 /\ Undoing' /\ ~Redoing'
      BY <1>1, <1>2, <2>5
    <3>2. DoneIn(x)' = IF x < c THEN Steps(commands[x])
                       ELSE IF x = c THEN Steps(commands[x]) - (progress + 1) ELSE 0
      BY <2>2, <3>1 DEF DoneIn
    <3>. QED  BY <1>1, <1>2, <2>2, <2>3, <3>2
  <2>. QED  BY <2>4, <2>5
<1>9. \A i \in 1..N : Links(cmd, i, path[c][i - 1], path[c][i], i <= e - 1)
  <2>1. SUFFICES ASSUME NEW i \in 1..N
                 PROVE  Links(cmd, i, path[c][i - 1], path[c][i], i <= e - 1)
    OBVIOUS
  <2>2. CASE i = e
    <3>1. (i <= e - 1) = FALSE
      BY <1>2, <2>2
    <3>. QED  BY <1>1, <2>2, <3>1
  <2>3. CASE i # e
    <3>1. Links(old, i, path[c][i - 1], path[c][i], i <= e)
      BY <1>1, <1>5, <1>8
    <3>2. (i <= e) = (i <= e - 1)
      BY <1>2, <2>3
    <3>3. Links(old, i, path[c][i - 1], path[c][i], i <= e - 1)
      BY <3>1, <3>2
    <3>4. /\ cmd.kind = old.kind
          /\ cmd.kind # "move" =>
               /\ cmd.entries[i].id = old.entries[i].id
               /\ cmd.entries[i].real_index = old.entries[i].real_index
      BY <1>1, <1>3, <2>1, <2>3
    <3>. QED  BY ONLY <3>3, <3>4 DEF Links, Creates
  <2>. QED  BY <2>2, <2>3
<1>10. Fits(cmd, path[c], N)
  <2>1. Fits(old, path[c], N)
    BY <1>1, <1>5
  <2>2. /\ cmd.kind = old.kind /\ Len(cmd.entries) = Len(old.entries)
        /\ \A i \in 1..Len(cmd.entries) : cmd.entries[i].source = old.entries[i].source
        /\ ~Creates(cmd) => \A i \in 1..Len(cmd.entries) : cmd.entries[i].id = old.entries[i].id
    BY <1>1, <1>3
  <2>3. Creates(cmd) => \A i : i \notin N + 1..Len(cmd.entries)
    BY <1>1, <1>3 DEF Creates
  <2>4. cmd.kind = "delete" => \A f \in 0..N : \A i \in 1..f : i \in 1..Len(cmd.entries)
    BY <1>1, <1>3
  <2>5. ASSUME Creates(cmd) PROVE Fits(cmd, path[c], N)
    BY <2>1, <2>2, <2>3, <2>5 DEF Fits, Creates
  <2>6. ASSUME ~Creates(cmd) PROVE Fits(cmd, path[c], N)
    <3>1. \A i \in 1..Len(cmd.entries) : cmd.entries[i].id = old.entries[i].id
      BY <2>2, <2>6
    <3>2. cmd.kind = "move" => Fits(cmd, path[c], N)
      BY <2>1, <2>2, <2>6, <3>1 DEF Fits, Creates
    <3>3. ASSUME cmd.kind = "delete" PROVE Fits(cmd, path[c], N)
      <4>1. /\ \A i \in 1..Len(cmd.entries) : cmd.entries[i].id \in EP!Lives(path[c][0])
            /\ \A i, j \in 1..Len(cmd.entries) : cmd.entries[i].id = cmd.entries[j].id => i = j
        BY <2>1, <2>2, <3>1, <3>3 DEF Fits
      <4>2. ASSUME NEW f \in 0..N, NEW key \in EP!Keys
            PROVE  key \in EP!Lives(path[c][f]) <=>
                     key \in EP!Lives(path[c][0]) /\ \A i \in 1..f : cmd.entries[i].id # key
        <5>1. key \in EP!Lives(path[c][f]) <=>
                key \in EP!Lives(path[c][0]) /\ \A i \in 1..f : old.entries[i].id # key
          BY <2>1, <2>2, <3>3 DEF Fits
        <5>2. \A i \in 1..f : cmd.entries[i].id = old.entries[i].id
          BY <2>4, <3>1, <3>3
        <5>. QED  BY <5>1, <5>2
      <4>. QED  BY <3>3, <4>1, <4>2 DEF Fits, Creates
    <3>. QED  BY <1>3, <2>6, <3>2, <3>3 DEF Kinds, Creates
  <2>. QED  BY <2>5, <2>6
<1>11. Chained(path, known)'
  <2>1. SUFFICES ASSUME NEW x \in 1..Len(commands)
                 PROVE  /\ \A i \in 1..Known(known, x)' :
                             Links(commands'[x], i, path[x][i - 1], path[x][i], i <= DoneIn(x)')
                        /\ Fits(commands'[x], path[x], Known(known, x)')
                        /\ Known(known, x)' = Steps(commands'[x]) =>
                             path[x + 1][0] = path[x][Steps(commands'[x])]
    BY <1>1 DEF Chained
  <2>2. Known(known, x)' = Steps(commands[x]) /\ Steps(commands'[x]) = Steps(commands[x])
        /\ path[x + 1][0] = path[x][Steps(commands[x])]
    BY <1>1, <1>5, <1>7
  <2>3. CASE x = c
    <3>1. DoneIn(x)' = e - 1
      BY <1>8, <2>3
    <3>. QED  BY <1>1, <1>9, <1>10, <2>2, <2>3, <3>1
  <2>4. CASE x # c
    <3>1. commands'[x] = commands[x] /\ DoneIn(x)' = DoneIn(x)
      BY <1>1, <1>8, <2>4
    <3>. QED  BY <1>5, <2>2, <3>1
  <2>. QED  BY <2>3, <2>4
<1>12. Standing(path)'
  <2>1. finishes => current_revision' = c - 1 /\ c - 1 + 1 = c /\ progress' = 0 /\ e - 1 = 0
    BY <1>1, <1>2
  <2>2. ~finishes => current_revision' = c /\ progress' = progress + 1 /\ progress' # 0
                     /\ Steps(commands'[c]) - progress' = e - 1
    <3>1. SUFFICES ASSUME ~finishes
                   PROVE  current_revision' = c /\ progress' = progress + 1 /\ progress' # 0
                          /\ Steps(commands'[c]) - progress' = e - 1
      OBVIOUS
    <3>2. current_revision' = c /\ progress' = progress + 1 /\ commands'[c] = cmd
      BY <1>1, <3>1
    <3>3. progress + 1 # 0 /\ N - (progress + 1) = e - 1
      <4>1. N \in Nat /\ progress \in Nat /\ e = N - progress
        BY <1>1, <1>2
      <4>2. PICK n, p : n = N /\ p = progress
        OBVIOUS
      <4>. QED  BY ONLY <4>1, <4>2
    <3>. QED  BY <3>2, <3>3
  <2>3. EP!Whole' = path[c][e - 1] /\ ~Redoing'
    BY <1>1
  <2>4. CASE finishes
    BY <2>1, <2>3, <2>4 DEF Standing
  <2>5. CASE ~finishes
    BY <2>2, <2>3, <2>5 DEF Standing
  <2>. QED  BY <2>4, <2>5
<1>13. Recording(known)'
  <2>1. known \in Nat /\ known \in 0..known
    <3>1. Len(commands) \in 1..Len(commands)
      BY <1>1, <1>2
    <3>2. Steps(commands[Len(commands)]) \in Nat
      BY <1>2, <3>1 DEF Listed
    <3>. QED  BY <1>6, <3>2
  <2>2. Steps(commands'[Len(commands')]) = known
    <3>1. Len(commands) \in 1..Len(commands)
      BY <1>1, <1>2
    <3>. QED  BY <1>1, <1>6, <3>1
  <2>. QED  BY <2>1, <2>2 DEF Recording
<1>. QED  BY <1>11, <1>12, <1>13

(* Two pictures show a command whatever it has stored to come back.        *)
LEMMA ShownSame ==
  ASSUME NEW command, NEW other, NEW row, NEW row2, NEW before, NEW after,
         Shown(command, row, before, after), Steps(command) \in Nat,
         other.kind = command.kind, other.by = command.by,
         Len(other.entries) = Len(command.entries),
         command.kind # "move" => Steps(command) = Len(command.entries),
         \A y \in 0..Steps(command) : row2[y] = row[y],
         \A i \in 1..Len(command.entries) :
           /\ other.entries[i].source = command.entries[i].source
           /\ ~Creates(command) => other.entries[i].id = command.entries[i].id
           /\ Creates(command) => other.entries[i].content = command.entries[i].content
  PROVE  Shown(other, row2, before, after)
<1>1. Steps(other) = Steps(command) /\ (Creates(other) <=> Creates(command))
  BY DEF Steps, Creates
<1>2. ASSUME Creates(command)
      PROVE  ShowsMade(other, row2, Steps(command), before, after)
  <2>1. SUFFICES ASSUME NEW e \in 1..Steps(command),
                        Len(row2[e - 1].slots) # MaxSize, EP!Newest(row2[e]) \in DOMAIN after
                 PROVE  after[EP!Newest(row2[e])] = Made(other, e, before)
    BY DEF ShowsMade
  <2>2. e \in 1..Len(command.entries)
    BY <1>2 DEF Creates
  <2>3. e - 1 \in 0..Steps(command) /\ e \in 0..Steps(command)
    OBVIOUS
  <2>4. row2[e - 1] = row[e - 1] /\ row2[e] = row[e]
    BY <2>3
  <2>5. after[EP!Newest(row2[e])] = Made(command, e, before)
    BY <1>2, <2>1, <2>4 DEF Shown, ShowsMade
  <2>6. Made(other, e, before) = Made(command, e, before)
    BY <1>2, <2>2 DEF Made
  <2>. QED  BY <2>5, <2>6
<1>3. ASSUME command.kind = "move", NEW key
      PROVE  Mentions(other, key) <=> Mentions(command, key)
  <2>1. ~Creates(command)
    BY <1>3 DEF Creates
  <2>. QED  BY <2>1 DEF Mentions
<1>. QED  BY <1>1, <1>2, <1>3 DEF Shown

(* A step forward that the pictures know, or that completes the next one.  *)
LEMMA PicturesForward ==
  ASSUME Typed, Progressing, NEW path, Pictured(path), NEW path2,
         NEW cmd, NEW finishes, Flight(cmd, finishes), Redoing, Visible',
         Follows(path, path2, finishes),
         \A i \in 1..Len(cmd.entries) :
           /\ cmd.entries[i].source = InFlight.entries[i].source
           /\ ~Creates(cmd) => cmd.entries[i].id = InFlight.entries[i].id
           /\ cmd.kind # "move" => cmd.entries[i].content = InFlight.entries[i].content,
         ~finishes => Agree(World', images[Place]),
         ~finishes /\ Place < Len(images) => Agree(World', images[Place + 1]),
         Creates(cmd) => ShowsMade(cmd, path2[Place], progress + 1, images[Place], World'),
         finishes /\ Place < Len(images) => World' = images[Place + 1],
         finishes /\ Place = Len(images) => Shown(cmd, path2[Place], images[Place], World'),
         cmd.kind = "move" => Holds(cmd, images[Place])
  PROVE  Pictured(path2)' /\ Looks(path2)'
<1>c. PICK c : c = current_revision + 1
  OBVIOUS
<1>. DEFINE old == commands[c]
<1>1. /\ c \in 1..Len(commands) /\ Place = c /\ InFlight = old
      /\ Len(commands') = Len(commands) /\ commands'[c] = cmd
      /\ \A x \in 1..Len(commands) : x # c => commands'[x] = commands[x]
      /\ \A x \in 1..Len(commands) : Steps(commands'[x]) = Steps(commands[x])
      /\ progress \in 0..Steps(cmd) - 1 /\ Steps(cmd) \in Nat \ {0} /\ Steps(cmd) = Steps(old)
      /\ current_revision' = IF finishes THEN c ELSE current_revision
      /\ progress' = IF finishes THEN 0 ELSE progress + 1
      /\ ~Undoing' /\ (~finishes => Redoing')
      /\ images' = IF finishes /\ Len(images) = current_revision + 1
                   THEN Append(images, World') ELSE images
      /\ Typed'
  BY <1>c, InTheAir DEF Place
<1>2. /\ Listed
      /\ Len(commands) \in Nat /\ c \in Nat /\ current_revision = c - 1 /\ Len(images) \in Nat
      /\ progress \in Nat /\ progress + 1 # 0
  <2>1. Listed
    BY Lists
  <2>2. Len(commands) \in Nat /\ current_revision \in Nat /\ Len(images) \in Nat
    BY <2>1 DEF Listed
  <2>3. progress \in Nat
    BY DEF Typed
  <2>. QED  BY <1>c, <2>1, <2>2, <2>3
<1>3. cmd.kind = old.kind /\ cmd.by = old.by /\ Len(cmd.entries) = Len(old.entries)
  BY <1>1 DEF Flight
<1>4. c <= Len(images) /\ Len(images) <= Len(commands) + 1
  BY <1>2 DEF Pictured
<1>. DEFINE appends == finishes /\ Len(images) = c
<1>5. /\ images' = IF appends THEN Append(images, World') ELSE images
      /\ Len(images') = IF appends THEN c + 1 ELSE Len(images)
      /\ \A x \in 1..Len(images) : images'[x] = images[x]
      /\ appends => images'[c + 1] = World'
  <2>1. images' = IF appends THEN Append(images, World') ELSE images
    BY <1>1, <1>c
  <2>2. /\ Len(Append(images, World')) = Len(images) + 1
        /\ \A x \in 1..Len(images) : Append(images, World')[x] = images[x]
        /\ Append(images, World')[Len(images) + 1] = World'
    <3>1. World' \in Tables /\ images \in Seq(Tables)
      BY DEF Visible, Typed
    <3>. QED  BY <3>1, AppendProperties
  <2>. QED  BY <2>1, <2>2
<1>6. \A x \in 1..Len(images) - 1 : x \in 1..Len(images) /\ x + 1 \in 1..Len(images)
                                     /\ x \in 1..Len(commands)
  BY <1>2, <1>4
<1>7. Looks(path2)'
  <2>1. CASE finishes
    <3>1. current_revision' + 1 = c + 1 /\ progress' = 0
      BY <1>1, <2>1
    <3>2. World' = images'[c + 1]
      <4>1. CASE appends
        BY <1>5, <4>1
      <4>2. CASE ~appends
        <5>1. c < Len(images) /\ c + 1 \in 1..Len(images)
          BY <1>2, <1>4, <2>1, <4>2
        <5>. QED  BY <1>1, <1>5, <2>1, <5>1
      <4>. QED  BY <4>1, <4>2
    <3>. QED  BY <3>1, <3>2 DEF Looks
  <2>2. CASE ~finishes
    <3>0. c - 1 + 1 = c /\ c - 1 + 2 = c + 1 /\ ~appends
      BY <1>2, <2>2
    <3>1. current_revision' = c - 1 /\ c - 1 + 1 = c /\ c - 1 + 2 = c + 1 /\ images' = images
          /\ progress' = progress + 1 /\ progress' # 0 /\ ~Undoing' /\ Redoing'
      <4>1. current_revision' = c - 1 /\ progress' = progress + 1 /\ ~Undoing' /\ Redoing'
        BY <1>1, <1>2, <2>2
      <4>2. images' = images
        BY <1>5, <3>0
      <4>. QED  BY <1>2, <3>0, <4>1, <4>2
    <3>2. InFlight' = cmd
      <4>1. InFlight' = commands'[current_revision' + 1]
        BY <3>1 DEF InFlight
      <4>. QED  BY <1>1, <3>1, <4>1
    <3>3. Agree(World', images[c])
      BY <1>1, <2>2
    <3>4. c < Len(images) => Agree(World', images[c + 1])
      BY <1>1, <2>2
    <3>5. Creates(cmd) => ShowsMade(cmd, path2[c], progress + 1, images[c], World')
      BY <1>1
    <3>. QED  BY <3>1, <3>2, <3>3, <3>4, <3>5 DEF Looks
  <2>. QED  BY <2>1, <2>2
<1>8. Pictured(path2)'
  <2>1. Len(images') \in current_revision' + 1..Len(commands') + 1
    BY <1>1, <1>2, <1>4, <1>5
  <2>2. \A x \in 1..Len(images') : DOMAIN images'[x] = EP!Lives(path2[x][0])
    <3>1. SUFFICES ASSUME NEW x \in 1..Len(images')
                   PROVE  DOMAIN images'[x] = EP!Lives(path2[x][0])
      OBVIOUS
    <3>2. CASE x \in 1..Len(images)
      BY <1>5, <3>2 DEF Pictured, Follows
    <3>3. CASE x \notin 1..Len(images)
      <4>1. appends /\ x = c + 1
        BY <1>2, <1>5, <3>3
      <4>2. path2[c + 1][0] = EP!Whole'
        BY <1>1, <4>1 DEF Follows
      <4>3. DOMAIN World' = EP!Lives(EP!Whole')
        BY DEF Visible
      <4>. QED  BY <1>5, <4>1, <4>2, <4>3
    <3>. QED  BY <3>2, <3>3
  <2>3. \A x \in 1..Len(images') - 1 : Shown(commands'[x], path2[x], images'[x], images'[x + 1])
    <3>1. SUFFICES ASSUME NEW x \in 1..Len(images') - 1
                   PROVE  Shown(commands'[x], path2[x], images'[x], images'[x + 1])
      OBVIOUS
    <3>2. CASE x \in 1..Len(images) - 1
      <4>1. Shown(commands[x], path[x], images[x], images[x + 1])
        BY <3>2 DEF Pictured
      <4>2. \A y \in 0..Steps(commands[x]) : path2[x][y] = path[x][y]
        BY <3>2 DEF Follows
      <4>3. x \in 1..Len(commands) /\ images'[x] = images[x] /\ images'[x + 1] = images[x + 1]
        BY <1>5, <1>6, <3>2
      <4>4. /\ Steps(commands[x]) \in Nat
            /\ commands[x].kind # "move" => Steps(commands[x]) = Len(commands[x].entries)
        BY <1>2, <4>3 DEF Listed
      <4>5. /\ commands'[x].kind = commands[x].kind /\ commands'[x].by = commands[x].by
            /\ Len(commands'[x].entries) = Len(commands[x].entries)
            /\ \A i \in 1..Len(commands[x].entries) :
                 /\ commands'[x].entries[i].source = commands[x].entries[i].source
                 /\ ~Creates(commands[x]) =>
                      commands'[x].entries[i].id = commands[x].entries[i].id
                 /\ Creates(commands[x]) =>
                      commands'[x].entries[i].content = commands[x].entries[i].content
        <5>1. CASE x = c
          BY <1>1, <1>3, <5>1 DEF Creates
        <5>2. CASE x # c
          BY <1>1, <4>3, <5>2
        <5>. QED  BY <5>1, <5>2
      <4>6. Shown(commands'[x], path2[x], images[x], images[x + 1])
        <5>1. PICK a, b, r, s : a = commands[x] /\ b = commands'[x] /\ r = path[x] /\ s = path2[x]
          OBVIOUS
        <5>2. PICK f, g : f = images[x] /\ g = images[x + 1]
          OBVIOUS
        <5>3. Shown(a, r, f, g) /\ Steps(a) \in Nat
              /\ (a.kind # "move" => Steps(a) = Len(a.entries))
              /\ \A y \in 0..Steps(a) : s[y] = r[y]
          BY <4>1, <4>2, <4>4, <5>1, <5>2
        <5>4. /\ b.kind = a.kind /\ b.by = a.by /\ Len(b.entries) = Len(a.entries)
              /\ \A i \in 1..Len(a.entries) :
                   /\ b.entries[i].source = a.entries[i].source
                   /\ ~Creates(a) => b.entries[i].id = a.entries[i].id
                   /\ Creates(a) => b.entries[i].content = a.entries[i].content
          BY <4>5, <5>1
        <5>5. Shown(b, s, f, g)
          BY <5>3, <5>4, ShownSame
        <5>. QED  BY <5>1, <5>2, <5>5
      <4>. QED  BY <4>3, <4>6
    <3>3. CASE x \notin 1..Len(images) - 1
      <4>1. appends /\ x = c /\ c \in 1..Len(images)
        BY <1>2, <1>4, <1>5, <3>3
      <4>. QED  BY <1>1, <1>5, <4>1
    <3>. QED  BY <3>2, <3>3
  <2>4. \A x \in 1..Len(commands') : commands'[x].kind = "delete" =>
          x <= Len(images') /\ Holds(commands'[x], images'[x])
    <3>1. SUFFICES ASSUME NEW x \in 1..Len(commands), commands'[x].kind = "delete"
                   PROVE  x <= Len(images') /\ Holds(commands'[x], images'[x])
      BY <1>1
    <3>2. commands[x].kind = "delete"
      BY <1>1, <1>3, <3>1
    <3>3. x <= Len(images) /\ Holds(commands[x], images[x]) /\ x \in Nat
      BY <1>2, <3>2 DEF Pictured
    <3>4. x <= Len(images') /\ images'[x] = images[x]
      BY <1>2, <1>5, <3>1, <3>3
    <3>5. Holds(commands'[x], images[x])
      <4>1. CASE x = c
        <5>1. commands[x] = old /\ commands'[x] = cmd /\ Len(cmd.entries) = Len(old.entries)
          BY <1>1, <1>3, <4>1
        <5>2. InFlight = old /\ ~Creates(cmd) /\ cmd.kind # "move"
          BY <1>1, <1>3, <3>2, <5>1 DEF Creates
        <5>3. \A i \in 1..Len(cmd.entries) :
                /\ ~Creates(cmd) => cmd.entries[i].id = InFlight.entries[i].id
                /\ cmd.kind # "move" => cmd.entries[i].content = InFlight.entries[i].content
          OBVIOUS
        <5>4. \A i \in 1..Len(cmd.entries) : /\ cmd.entries[i].id = old.entries[i].id
                                             /\ cmd.entries[i].content = old.entries[i].content
          BY ONLY <5>2, <5>3
        <5>5. Holds(cmd, images[x])
          BY ONLY <3>3, <5>1, <5>4, HoldsAlike
        <5>. QED  BY <5>1, <5>5
      <4>2. CASE x # c
        BY <1>1, <3>3, <4>2
      <4>. QED  BY <4>1, <4>2
    <3>. QED  BY <3>4, <3>5
  <2>5. \A x \in 1..current_revision' : commands'[x].kind = "move" => Holds(commands'[x], images'[x])
    <3>1. SUFFICES ASSUME NEW x \in 1..current_revision', commands'[x].kind = "move"
                   PROVE  Holds(commands'[x], images'[x])
      OBVIOUS
    <3>2. x \in 1..c /\ x \in 1..Len(images) /\ x \in 1..Len(commands)
      BY <1>1, <1>2, <1>4
    <3>3. CASE x = c
      BY <1>1, <1>5, <3>1, <3>2, <3>3
    <3>4. CASE x # c
      <4>1. x \in 1..current_revision /\ commands'[x] = commands[x]
        BY <1>1, <1>2, <3>2, <3>4
      <4>. QED  BY <1>5, <3>1, <3>2, <4>1 DEF Pictured
    <3>. QED  BY <3>3, <3>4
  <2>. QED  BY <2>1, <2>2, <2>3, <2>4, <2>5 DEF Pictured
<1>. QED  BY <1>7, <1>8

(* A step back that the pictures know. *)
LEMMA PicturesBack ==
  ASSUME Typed, Progressing, NEW path, Pictured(path),
         NEW cmd, NEW finishes, Flight(cmd, finishes), ~Redoing, Visible',
         \A i \in 1..Len(cmd.entries) :
           /\ cmd.entries[i].source = InFlight.entries[i].source
           /\ ~Creates(cmd) => cmd.entries[i].id = InFlight.entries[i].id
           /\ cmd.kind # "move" => cmd.entries[i].content = InFlight.entries[i].content,
         ~finishes => Agree(World', images[Place]) /\ Agree(World', images[Place + 1]),
         finishes => World' = images[Place]
  PROVE  Pictured(path)' /\ Looks(path)'
<1>c. PICK c : c = current_revision
  OBVIOUS
<1>. DEFINE old == commands[c]
<1>1. /\ c \in 1..Len(commands) /\ Place = c /\ InFlight = old
      /\ Len(commands') = Len(commands) /\ commands'[c] = cmd
      /\ \A x \in 1..Len(commands) : x # c => commands'[x] = commands[x]
      /\ \A x \in 1..Len(commands) : Steps(commands'[x]) = Steps(commands[x])
      /\ current_revision' = IF finishes THEN c - 1 ELSE c
      /\ progress' = IF finishes THEN 0 ELSE progress + 1
      /\ ~Redoing' /\ images' = images
  BY <1>c, InTheAir DEF Place
<1>2. /\ Listed /\ Len(commands) \in Nat /\ c \in Nat /\ Len(images) \in Nat
      /\ progress \in Nat /\ progress + 1 # 0
  <2>1. Listed
    BY Lists
  <2>2. Len(commands) \in Nat /\ current_revision \in Nat /\ Len(images) \in Nat
    BY <2>1 DEF Listed
  <2>3. progress \in Nat
    BY DEF Typed
  <2>. QED  BY <1>c, <2>1, <2>2, <2>3
<1>3. cmd.kind = old.kind /\ cmd.by = old.by /\ Len(cmd.entries) = Len(old.entries)
  BY <1>1 DEF Flight
<1>4. Len(images) \in c + 1..Len(commands) + 1
  BY <1>c DEF Pictured
<1>5. \A x \in 1..Len(images) - 1 : x \in 1..Len(commands)
  BY <1>2, <1>4
<1>6. Looks(path)'
  <2>1. CASE finishes
    <3>1. current_revision' + 1 = c /\ progress' = 0 /\ World' = images'[c]
      BY <1>1, <1>2, <2>1
    <3>. QED  BY <3>1 DEF Looks
  <2>2. CASE ~finishes
    <3>1. current_revision' = c /\ progress' = progress + 1 /\ progress' # 0 /\ ~Redoing'
          /\ images' = images
      BY <1>1, <1>2, <2>2
    <3>2. Agree(World', images[c]) /\ Agree(World', images[c + 1])
      BY <1>1, <2>2
    <3>. QED  BY <3>1, <3>2 DEF Looks
  <2>. QED  BY <2>1, <2>2
<1>7. Pictured(path)'
  <2>1. Len(images') \in current_revision' + 1..Len(commands') + 1
    BY <1>1, <1>2, <1>4
  <2>2. \A x \in 1..Len(images') : DOMAIN images'[x] = EP!Lives(path[x][0])
    BY <1>1 DEF Pictured
  <2>3. \A x \in 1..Len(images') - 1 : Shown(commands'[x], path[x], images'[x], images'[x + 1])
    <3>1. SUFFICES ASSUME NEW x \in 1..Len(images) - 1
                   PROVE  Shown(commands'[x], path[x], images[x], images[x + 1])
      BY <1>1
    <3>2. Shown(commands[x], path[x], images[x], images[x + 1]) /\ x \in 1..Len(commands)
      BY <1>5 DEF Pictured
    <3>3. CASE x = c
      <4>1. PICK r, f, g : r = path[x] /\ f = images[x] /\ g = images[x + 1]
        OBVIOUS
      <4>2. /\ Steps(old) \in Nat
            /\ old.kind # "move" => Steps(old) = Len(old.entries)
        BY <1>1, <1>2 DEF Listed
      <4>3. /\ cmd.kind = old.kind /\ cmd.by = old.by /\ Len(cmd.entries) = Len(old.entries)
            /\ \A i \in 1..Len(old.entries) :
                 /\ cmd.entries[i].source = old.entries[i].source
                 /\ ~Creates(old) => cmd.entries[i].id = old.entries[i].id
                 /\ Creates(old) => cmd.entries[i].content = old.entries[i].content
        BY <1>1, <1>3 DEF Creates
      <4>4. Shown(old, r, f, g)
        BY <3>2, <3>3, <4>1
      <4>. HIDE DEF old
      <4>5. Shown(cmd, r, f, g)
        BY <4>2, <4>3, <4>4, ShownSame
      <4>. QED  BY <1>1, <3>3, <4>1, <4>5
    <3>4. CASE x # c
      BY <1>1, <3>2, <3>4
    <3>. QED  BY <3>3, <3>4
  <2>4. \A x \in 1..Len(commands') : commands'[x].kind = "delete" =>
          x <= Len(images') /\ Holds(commands'[x], images'[x])
    <3>1. SUFFICES ASSUME NEW x \in 1..Len(commands), commands'[x].kind = "delete"
                   PROVE  x <= Len(images) /\ Holds(commands'[x], images[x])
      BY <1>1
    <3>2. commands[x].kind = "delete"
      BY <1>1, <1>3, <3>1
    <3>3. x <= Len(images) /\ Holds(commands[x], images[x])
      BY <3>2 DEF Pictured
    <3>4. CASE x = c
      BY <1>1, <1>3, <3>2, <3>3, <3>4 DEF Holds, Creates
    <3>5. CASE x # c
      BY <1>1, <3>3, <3>5
    <3>. QED  BY <3>3, <3>4, <3>5
  <2>5. \A x \in 1..current_revision' : commands'[x].kind = "move" => Holds(commands'[x], images'[x])
    <3>1. SUFFICES ASSUME NEW x \in 1..current_revision', commands'[x].kind = "move"
                   PROVE  Holds(commands'[x], images[x])
      BY <1>1
    <3>2. CASE finishes
      <4>1. x \in 1..c /\ x # c /\ x \in 1..Len(commands)
        BY <1>1, <1>2, <3>2
      <4>. QED  BY <1>1, <1>c, <3>1, <4>1 DEF Pictured
    <3>3. CASE ~finishes
      <4>1. x \in 1..c /\ x \in 1..Len(commands)
        BY <1>1, <1>2, <3>3
      <4>2. x # c
        <5>1. SUFFICES ASSUME x = c PROVE FALSE
          OBVIOUS
        <5>2. cmd.kind = "move"
          BY <1>1, <3>1, <5>1
        <5>3. Steps(InFlight) = 1
          BY <1>1, <1>3, <5>2 DEF Steps
        <5>4. progress < 1
          BY <5>3 DEF Progressing, Flight
        <5>5. progress + 1 = Steps(InFlight)
          BY <1>2, <5>3, <5>4
        <5>. QED  BY <3>3, <5>5 DEF Flight
      <4>. QED  BY <1>1, <1>c, <3>1, <4>1, <4>2 DEF Pictured
    <3>. QED  BY <3>2, <3>3
  <2>. QED  BY <2>1, <2>2, <2>3, <2>4, <2>5 DEF Pictured
<1>. QED  BY <1>6, <1>7

(* What is left to say of a step in flight once it is on the path.         *)
LEMMA Lands ==
  ASSUME Typed, Reserved, Progressing, Moving, Marked, NEW path, Pictured(path),
         NEW cmd, NEW finishes, Flight(cmd, finishes), EP!IInv', Visible',
         DOMAIN indirectors \subseteq DOMAIN indirectors',
         cmd.kind = "delete" => \A i \in 1..Len(cmd.entries) :
                                  cmd.entries[i].id = InFlight.entries[i].id,
         active' => active /\ (Redoing \/ cmd.kind # "delete"),
         NEW path2, NEW known2, OnPath(path2, known2)'
  PROVE  EInv'
<1>c. PICK c : c = Place
  OBVIOUS
<1>. DEFINE old == commands[c]
<1>1. /\ c \in 1..Len(commands) /\ InFlight = old
      /\ Len(commands') = Len(commands) /\ commands'[c] = cmd
      /\ \A x \in 1..Len(commands) : x # c => commands'[x] = commands[x]
      /\ current_revision' = IF finishes THEN IF Redoing THEN current_revision + 1
                                              ELSE current_revision - 1
                             ELSE current_revision
      /\ Redoing => ~Undoing' /\ (~finishes => Redoing')
      /\ images' = IF finishes /\ Redoing /\ Len(images) = current_revision + 1
                   THEN Append(images, World') ELSE images
      /\ Typed' /\ Progressing'
  BY <1>c, InTheAir
<1>2. Listed /\ Len(commands) \in Nat /\ current_revision \in Nat
  <2>1. Listed
    BY Lists
  <2>. QED  BY <2>1 DEF Listed
<1>3. cmd.kind = old.kind /\ Len(cmd.entries) = Len(old.entries)
  BY <1>1 DEF Flight
<1>4. \A x \in 1..Len(commands) : commands'[x].kind = commands[x].kind
  BY <1>1, <1>3
<1>5. Reserved'
  <2>1. SUFFICES ASSUME NEW x \in 1..Len(commands), commands'[x].kind = "delete",
                        NEW e \in 1..Len(commands'[x].entries)
                 PROVE  commands'[x].entries[e].id.indirection_index \in DOMAIN indirectors'
    BY <1>1 DEF Reserved
  <2>2. CASE x = c
    BY <1>1, <1>3, <2>1, <2>2 DEF Reserved
  <2>3. CASE x # c
    BY <1>1, <2>1, <2>3 DEF Reserved
  <2>. QED  BY <2>2, <2>3
<1>6. Moving'
  <2>1. SUFFICES ASSUME active', NEW x \in current_revision' + 1..Len(commands),
                        commands'[x].kind = "delete"
                 PROVE  Redoing' /\ x = current_revision' + 1 /\ x = Len(commands)
    BY <1>1 DEF Moving
  <2>2. active /\ (Redoing \/ cmd.kind # "delete")
    BY <2>1
  <2>3. CASE Redoing
    <3>1. x \in current_revision + 1..Len(commands) /\ x \in 1..Len(commands)
      BY <1>1, <1>2, <2>3
    <3>2. x = current_revision + 1 /\ x = Len(commands)
      BY <1>4, <2>1, <2>2, <3>1 DEF Moving
    <3>3. ~finishes
      BY <1>1, <1>2, <2>3, <3>2
    <3>. QED  BY <1>1, <2>3, <3>2, <3>3
  <2>4. CASE ~Redoing
    <3>1. c = current_revision /\ cmd.kind # "delete"
      BY <1>c, <2>2, <2>4 DEF Place
    <3>2. x \in c..Len(commands) /\ x \in 1..Len(commands)
      BY <1>1, <1>2, <2>4, <3>1
    <3>3. x # c
      BY <1>1, <2>1, <3>1
    <3>4. x \in current_revision + 1..Len(commands) /\ commands[x].kind = "delete"
      BY <1>2, <1>4, <2>1, <3>1, <3>2, <3>3
    <3>. QED  BY <2>2, <2>4, <3>4 DEF Moving
  <2>. QED  BY <2>3, <2>4
<1>7. Marked'
  <2>1. saved_at_revision' = saved_at_revision /\ stale' = stale /\ disk' = disk
    BY DEF Flight, Through
  <2>2. Len(images) \in Nat /\ World' \in Tables /\ images \in Seq(Tables)
    BY <1>2 DEF Listed, Visible, Typed
  <2>3. \A x \in 1..Len(images) : x \in 1..Len(images') /\ images'[x] = images[x]
    <3>1. /\ Len(Append(images, World')) = Len(images) + 1
          /\ \A x \in 1..Len(images) : Append(images, World')[x] = images[x]
      BY <2>2, AppendProperties
    <3>2. CASE images' = images
      BY <3>2
    <3>3. CASE images' = Append(images, World')
      BY <2>2, <3>1, <3>3
    <3>. QED  BY <1>1, <3>2, <3>3
  <2>4. commands' # <<>>
    BY <1>1, <1>2
  <2>. QED  BY <2>1, <2>3, <2>4 DEF Marked
<1>. QED  BY <1>1, <1>5, <1>6, <1>7 DEF EInv

-----------------------------------------------------------------------------
(* The command in flight and the entry in hand. *)
LEMMA Airborne ==
  ASSUME Typed, Progressing, ~Arrived
  PROVE  /\ Place \in 1..Len(commands) /\ InFlight = commands[Place] /\ InFlight \in Commands
         /\ InFlight.kind \in Kinds /\ Len(InFlight.entries) \in Nat \ {0}
         /\ DOMAIN InFlight.entries = 1..Len(InFlight.entries)
         /\ \A i \in 1..Len(InFlight.entries) : InFlight.entries[i] \in Entries
         /\ Steps(InFlight) \in Nat \ {0} /\ progress \in 0..Steps(InFlight) - 1
         /\ Redoing => Place = current_revision + 1 /\ Entering = progress + 1
         /\ ~Redoing => Undoing /\ Place = current_revision
         /\ InFlight.kind # "move" =>
              /\ Steps(InFlight) = Len(InFlight.entries)
              /\ Entering \in 1..Len(InFlight.entries) /\ InHand = InFlight.entries[Entering]
              /\ ~Redoing => Entering = Steps(InFlight) - progress
              /\ Finishes <=> progress + 1 = Steps(InFlight)
<1>1. Listed
  BY Lists
<1>2. Place \in 1..Len(commands) /\ InFlight = commands[Place]
  BY <1>1 DEF Place, Redoing, Arrived, InFlight, LastCommand, Listed
<1>3. /\ InFlight \in Commands /\ Len(InFlight.entries) > 0
  BY <1>1, <1>2 DEF Listed
<1>4. /\ Len(InFlight.entries) \in Nat \ {0}
      /\ DOMAIN InFlight.entries = 1..Len(InFlight.entries)
      /\ \A i \in 1..Len(InFlight.entries) : InFlight.entries[i] \in Entries
      /\ Steps(InFlight) \in Nat \ {0}
      /\ InFlight.kind # "move" => Steps(InFlight) = Len(InFlight.entries)
      /\ InFlight.kind \in Kinds
  BY <1>3, CommandShape
<1>5. progress \in Nat /\ progress < Steps(InFlight)
  BY DEF Progressing, Typed
<1>6. progress \in 0..Steps(InFlight) - 1
  BY <1>4, <1>5
<1>7. /\ Redoing => Place = current_revision + 1 /\ Entering = progress + 1
      /\ ~Redoing => Undoing /\ Place = current_revision
  BY <1>1 DEF Place, Entering, Redoing, Undoing, Arrived, Listed
<1>8. ASSUME InFlight.kind # "move"
      PROVE  /\ Entering \in 1..Len(InFlight.entries) /\ InHand = InFlight.entries[Entering]
             /\ ~Redoing => Entering = Steps(InFlight) - progress
             /\ Finishes <=> progress + 1 = Steps(InFlight)
  <2>1. Entering = IF Redoing THEN progress + 1 ELSE Len(InFlight.entries) - progress
    BY DEF Entering
  <2>2. Steps(InFlight) = Len(InFlight.entries)
    BY <1>4, <1>8
  <2>3. Entering \in 1..Len(InFlight.entries)
    BY <1>4, <1>6, <2>1, <2>2
  <2>. QED  BY <2>1, <2>2, <2>3 DEF InHand, Finishes
<1>. QED  BY <1>2, <1>3, <1>4, <1>6, <1>7, <1>8

(* Remember(): one entry of the command in flight is rewritten.            *)
LEMMA Rewrites ==
  ASSUME Typed, Progressing, ~Arrived, InFlight.kind # "move",
         NEW entry \in Entries, Remember(entry), Through(Finishes),
         NEW finishes, finishes = Finishes
  PROVE  \E cmd : /\ Flight(cmd, finishes) /\ cmd.kind = InFlight.kind
                  /\ Len(cmd.entries) = Len(InFlight.entries)
                  /\ \A i \in 1..Len(cmd.entries) :
                       cmd.entries[i] = IF i = Entering THEN entry ELSE InFlight.entries[i]
<1>1. /\ Place \in 1..Len(commands) /\ InFlight = commands[Place] /\ InFlight \in Commands
      /\ DOMAIN InFlight.entries = 1..Len(InFlight.entries)
      /\ \A i \in 1..Len(InFlight.entries) : InFlight.entries[i] \in Entries
      /\ Len(InFlight.entries) \in Nat
      /\ Entering \in 1..Len(InFlight.entries)
      /\ Finishes <=> progress + 1 = Steps(InFlight)
  BY Airborne
<1>2. PICK cmd : cmd = [InFlight EXCEPT !.entries = [@ EXCEPT ![Entering] = entry]]
  OBVIOUS
<1>3. InFlight = [kind |-> InFlight.kind, entries |-> InFlight.entries, by |-> InFlight.by,
                  has_parent |-> InFlight.has_parent]
      /\ InFlight.kind \in Kinds /\ InFlight.by \in Positions /\ InFlight.has_parent \in BOOLEAN
  BY <1>1 DEF Commands
<1>4. /\ cmd.kind = InFlight.kind /\ cmd.by = InFlight.by
      /\ cmd.entries = [InFlight.entries EXCEPT ![Entering] = entry]
      /\ cmd = [kind |-> InFlight.kind, entries |-> cmd.entries, by |-> InFlight.by,
                has_parent |-> InFlight.has_parent]
  BY <1>2, <1>3
<1>5. /\ cmd.entries \in Seq(Entries) /\ Len(cmd.entries) = Len(InFlight.entries)
      /\ \A i \in 1..Len(InFlight.entries) :
           cmd.entries[i] = IF i = Entering THEN entry ELSE InFlight.entries[i]
  <2>1. cmd.entries \in [1..Len(InFlight.entries) -> Entries]
    BY <1>1, <1>4
  <2>2. cmd.entries \in Seq(Entries) /\ Len(cmd.entries) = Len(InFlight.entries)
    BY <1>1, <2>1, EP!FunctionIsSeq
  <2>. QED  BY <1>1, <1>4, <2>2
<1>6. cmd \in Commands
  BY <1>3, <1>4, <1>5 DEF Commands
<1>7. commands' = [commands EXCEPT ![Place] = cmd]
  <2>1. commands' = [commands EXCEPT ![Place].entries[Entering] = entry]
    BY DEF Remember, Place
  <2>2. [commands EXCEPT ![Place].entries[Entering] = entry] =
          [commands EXCEPT ![Place] =
             [commands[Place] EXCEPT !.entries = [commands[Place].entries EXCEPT ![Entering] = entry]]]
    OBVIOUS
  <2>. QED  BY <1>1, <1>2, <2>1, <2>2
<1>8. Through(finishes)
  <2>1. CASE finishes
    BY <2>1 DEF Through
  <2>2. CASE ~finishes
    BY <2>2 DEF Through
  <2>. QED  BY <2>1, <2>2
<1>9. Flight(cmd, finishes)
  BY <1>1, <1>4, <1>5, <1>6, <1>7, <1>8 DEF Flight
<1>. QED  BY <1>4, <1>5, <1>9

(* The command in flight is left alone. *)
LEMMA Keeps ==
  ASSUME Typed, Progressing, ~Arrived, InFlight.kind # "move",
         UNCHANGED commands, Through(Finishes), NEW finishes, finishes = Finishes,
         NEW cmd, cmd = InFlight
  PROVE  Flight(cmd, finishes)
<1>1. /\ Place \in 1..Len(commands) /\ InFlight = commands[Place] /\ InFlight \in Commands
      /\ Finishes <=> progress + 1 = Steps(InFlight)
  BY Airborne
<1>2. commands' = [commands EXCEPT ![Place] = cmd]
  BY <1>1 DEF Typed
<1>3. Through(finishes)
  <2>1. CASE finishes
    BY <2>1 DEF Through
  <2>2. CASE ~finishes
    BY <2>2 DEF Through
  <2>. QED  BY <2>1, <2>2
<1>. QED  BY <1>1, <1>2, <1>3 DEF Flight

-----------------------------------------------------------------------------
(* Half of a command is done: what it will do next was known before, or it *)
(* is done for the first time.                                             *)
LEMMA KnownSoFar ==
  ASSUME Typed, Progressing, NEW path, NEW known, OnPath(path, known), Redoing,
         NEW c, c = Place
  PROVE  /\ Known(known, c) \in progress..Steps(commands[c])
         /\ Known(known, c) < Steps(commands[c]) =>
              Known(known, c) = progress /\ c = Len(commands) /\ Len(images) = c
         /\ \A i \in 1..Known(known, c) :
              Links(commands[c], i, path[c][i - 1], path[c][i], i <= progress)
         /\ Fits(commands[c], path[c], Known(known, c))
         /\ EP!Whole = path[c][progress] /\ c \in 1..Len(images)
         /\ DOMAIN images[c] = EP!Lives(path[c][0])
<1>1. /\ c \in 1..Len(commands) /\ c = current_revision + 1
      /\ Steps(commands[c]) \in Nat /\ progress \in 0..Steps(commands[c]) - 1
  <2>1. ~Arrived
    <3>1. Listed
      BY Lists
    <3>. QED  BY <3>1 DEF Redoing, Arrived, Listed
  <2>. QED  BY <2>1, Airborne
<1>2. Listed /\ Len(commands) \in Nat /\ current_revision \in Nat /\ Len(images) \in Nat
  <2>1. Listed
    BY Lists
  <2>. QED  BY <2>1 DEF Listed
<1>3. DoneIn(c) = progress
  BY <1>1, <1>2 DEF DoneIn
<1>4. Known(known, c) \in progress..Steps(commands[c])
      /\ (Known(known, c) < Steps(commands[c]) =>
            Known(known, c) = progress /\ c = Len(commands) /\ Len(images) = c)
  <2>1. CASE c < Len(commands)
    <3>1. Known(known, c) = Steps(commands[c])
      BY <2>1 DEF Known
    <3>. QED  BY <1>1, <3>1
  <2>2. CASE c = Len(commands)
    <3>1. Known(known, c) = known /\ commands # <<>>
      BY <1>1, <1>2, <2>2 DEF Known
    <3>2. known \in 0..Steps(commands[c])
          /\ (known < Steps(commands[c]) => progress = known /\ Len(images) = c)
      BY <2>2, <3>1 DEF OnPath, Recording
    <3>3. CASE known < Steps(commands[c])
      BY <1>1, <2>2, <3>1, <3>2, <3>3
    <3>4. CASE ~(known < Steps(commands[c]))
      BY <1>1, <2>2, <3>1, <3>2, <3>4
    <3>. QED  BY <3>3, <3>4
  <2>. QED  BY <1>1, <1>2, <2>1, <2>2
<1>5. /\ \A i \in 1..Known(known, c) :
           Links(commands[c], i, path[c][i - 1], path[c][i], i <= progress)
      /\ Fits(commands[c], path[c], Known(known, c))
  BY <1>1, <1>3 DEF OnPath, Chained
<1>6. EP!Whole = path[c][progress]
  BY <1>1 DEF OnPath, Standing
<1>7. c \in 1..Len(images)
  BY <1>1, <1>2 DEF OnPath, Pictured
<1>8. DOMAIN images[c] = EP!Lives(path[c][0])
  BY <1>7 DEF OnPath, Pictured
<1>. QED  BY <1>4, <1>5, <1>6, <1>7, <1>8

(* Halfway a command that does not move shows what both pictures show.     *)
LEMMA AgreesForward ==
  ASSUME Typed, Progressing, Visible, NEW path, NEW known, OnPath(path, known), Redoing,
         InFlight.kind # "move", NEW c, c = Place
  PROVE  /\ Agree(World, images[c])
         /\ c < Len(images) => Agree(World, images[c + 1])
<1>1. /\ c \in 1..Len(commands) /\ c = current_revision + 1 /\ InFlight = commands[c]
      /\ progress \in Nat
  <2>1. ~Arrived
    <3>1. Listed
      BY Lists
    <3>. QED  BY <3>1 DEF Redoing, Arrived, Listed
  <2>. QED  BY <2>1, Airborne
<1>2. c \in 1..Len(images)
  BY KnownSoFar
<1>3. Agree(World, images[c])
  <2>1. CASE progress = 0
    BY <1>1, <2>1 DEF OnPath, Looks, Agree
  <2>2. CASE progress # 0
    BY <1>1, <2>2 DEF OnPath, Looks
  <2>. QED  BY <2>1, <2>2
<1>4. ASSUME c < Len(images) PROVE Agree(World, images[c + 1])
  <2>1. c \in 1..Len(images) - 1
    BY <1>2, <1>4
  <2>2. Shown(InFlight, path[c], images[c], images[c + 1])
    BY <1>1, <2>1 DEF OnPath, Pictured
  <2>3. CASE progress = 0
    <3>1. World = images[c]
      BY <1>1, <2>3 DEF OnPath, Looks
    <3>. QED  BY <2>2, <3>1 DEF Shown
  <2>4. CASE progress # 0
    <3>1. current_revision + 1 < Len(images) /\ current_revision + 2 = c + 1 /\ progress > 0
      <4>1. current_revision \in Nat
        BY Lists DEF Listed
      <4>. QED  BY <1>1, <1>4, <2>4, <4>1
    <3>. QED  BY <3>1 DEF OnPath, Looks
  <2>. QED  BY <2>3, <2>4
<1>. QED  BY <1>3, <1>4

(* What has been created so far. *)
LEMMA CreationSoFar ==
  ASSUME Typed, Progressing, Visible, NEW path, NEW known, OnPath(path, known), Redoing,
         Creates(InFlight), NEW c, c = Place
  PROVE  /\ DOMAIN images[c] \subseteq DOMAIN World
         /\ \A i \in 1..progress : Len(path[c][i - 1].slots) # MaxSize =>
              EP!Newest(path[c][i]) \in DOMAIN World
         /\ Agree(World, images[c])
         /\ c < Len(images) => Agree(World, images[c + 1])
         /\ ShowsMade(InFlight, path[c], progress, images[c], World)
         /\ c < Len(images) =>
              ShowsMade(InFlight, path[c], Steps(InFlight), images[c], images[c + 1])
         /\ InFlight.kind = "duplicate" =>
              InFlight.entries[progress + 1].source \in DOMAIN images[c]
         /\ Len(EP!Whole.slots) = MaxSize \/ InFlight.kind = "create" =>
              InFlight.entries[progress + 1].id = NoId
<1>1. /\ Known(known, c) \in progress..Steps(commands[c])
      /\ Known(known, c) < Steps(commands[c]) => Known(known, c) = progress
      /\ \A i \in 1..Known(known, c) :
           Links(commands[c], i, path[c][i - 1], path[c][i], i <= progress)
      /\ Fits(commands[c], path[c], Known(known, c))
      /\ EP!Whole = path[c][progress] /\ c \in 1..Len(images)
      /\ DOMAIN images[c] = EP!Lives(path[c][0])
  BY KnownSoFar
<1>2. /\ c \in 1..Len(commands) /\ c = current_revision + 1 /\ InFlight = commands[c]
      /\ Steps(commands[c]) \in Nat /\ progress \in 0..Steps(commands[c]) - 1
      /\ Steps(commands[c]) = Len(commands[c].entries)
  <2>1. ~Arrived /\ InFlight.kind # "move"
    <3>1. Listed
      BY Lists
    <3>. QED  BY <3>1 DEF Redoing, Arrived, Listed, Creates
  <2>. QED  BY <2>1, Airborne
<1>k. PICK k : k = Known(known, c)
  OBVIOUS
<1>3. k \in progress..Steps(commands[c]) /\ (k < Steps(commands[c]) => k = progress)
      /\ progress \in Nat /\ Fits(commands[c], path[c], k)
  BY <1>1, <1>2, <1>k
<1>4. \A y \in 0..progress : EP!Lives(path[c][y]) \subseteq DOMAIN World
  <2>1. SUFFICES ASSUME NEW y \in 0..progress PROVE EP!Lives(path[c][y]) \subseteq DOMAIN World
    OBVIOUS
  <2>2. y \in 0..k /\ progress \in 0..k /\ y <= progress
    BY <1>2, <1>3
  <2>3. EP!Lives(path[c][y]) \subseteq EP!Lives(path[c][progress])
    BY <1>2, <1>3, <2>2 DEF Fits
  <2>. QED  BY <1>1, <2>3 DEF Visible
<1>5. DOMAIN images[c] \subseteq DOMAIN World
  BY <1>1, <1>3, <1>4
<1>6. ASSUME NEW i \in 1..progress, Len(path[c][i - 1].slots) # MaxSize
      PROVE  EP!Newest(path[c][i]) \in DOMAIN World
  <2>1. i \in 1..Known(known, c) /\ i \in 0..progress
    BY <1>1, <1>2, <1>3
  <2>2. PICK a, b, d : a = path[c][i - 1] /\ b = path[c][i] /\ d = (i <= progress)
    OBVIOUS
  <2>3. Links(InFlight, i, a, b, d)
    BY <1>1, <1>2, <2>1, <2>2
  <2>4. EP!Newest(b) \in EP!Lives(b)
    BY <1>6, <2>2, <2>3, LinksLives
  <2>. QED  BY <1>4, <2>1, <2>2, <2>4
<1>7. /\ Agree(World, images[c])
      /\ c < Len(images) => Agree(World, images[c + 1])
  BY AgreesForward DEF Creates
<1>8. ASSUME c < Len(images)
      PROVE  ShowsMade(InFlight, path[c], Steps(InFlight), images[c], images[c + 1])
  <2>1. c \in 1..Len(images) - 1
    BY <1>1, <1>8
  <2>. QED  BY <1>2, <2>1 DEF OnPath, Pictured, Shown
<1>9. ShowsMade(InFlight, path[c], progress, images[c], World)
  <2>1. CASE progress = 0
    BY <2>1 DEF ShowsMade
  <2>2. CASE progress # 0
    BY <1>2, <1>3, <2>2 DEF OnPath, Looks
  <2>. QED  BY <2>1, <2>2
<1>10. ASSUME InFlight.kind = "duplicate"
       PROVE  InFlight.entries[progress + 1].source \in DOMAIN images[c]
  <2>1. progress + 1 \in 1..Len(commands[c].entries)
    BY <1>2
  <2>. QED  BY <1>1, <1>2, <1>10, <2>1 DEF Fits
<1>11. ASSUME Len(EP!Whole.slots) = MaxSize \/ InFlight.kind = "create"
       PROVE  InFlight.entries[progress + 1].id = NoId
  <2>1. CASE k = progress
    <3>1. progress + 1 \in k + 1..Len(InFlight.entries)
      BY <1>2, <2>1
    <3>. QED  BY <1>2, <1>3, <3>1 DEF Fits
  <2>2. CASE k # progress
    <3>1. progress + 1 \in 1..Known(known, c) /\ progress + 1 - 1 = progress
          /\ ~(progress + 1 <= progress)
      BY <1>2, <1>3, <1>k, <2>2
    <3>2. Links(InFlight, progress + 1, EP!Whole, path[c][progress + 1], FALSE)
      <4>1. PICK i : i = progress + 1
        OBVIOUS
      <4>2. Links(commands[c], i, path[c][i - 1], path[c][i], i <= progress)
        BY <1>1, <3>1, <4>1
      <4>3. (i <= progress) = FALSE
        BY <1>3, <4>1
      <4>4. i - 1 = progress
        BY <1>3, <4>1
      <4>. QED  BY <1>1, <1>2, <4>1, <4>2, <4>3, <4>4
    <3>. QED  BY <1>11, <3>2 DEF Links
  <2>. QED  BY <2>1, <2>2
<1>. QED  BY <1>5, <1>6, <1>7, <1>8, <1>9, <1>10, <1>11

(* A step that completes what the next picture shows.                      *)
LEMMA Completes ==
  ASSUME Typed, NEW path, Pictured(path), NEW path2, NEW finishes, Follows(path, path2, finishes),
         finishes, NEW c, c = Place, c \in 1..Len(commands), c < Len(images), Visible',
         Agree(World', images[c + 1])
  PROVE  World' = images[c + 1]
<1>1. c + 1 \in 1..Len(images)
  <2>1. Len(images) \in Nat /\ Len(commands) \in Nat
    BY Lists DEF Listed
  <2>. QED  BY <2>1
<1>2. DOMAIN images[c + 1] = DOMAIN World'
  BY <1>1 DEF Pictured, Follows, Visible
<1>3. images[c + 1] \in Tables /\ World' \in Tables
  BY <1>1, Lists DEF Listed, Visible
<1>. QED  BY <1>2, <1>3 DEF Agree, Tables

(* Redoing a creation: the pictures know the new id, or learn it.          *)
LEMMA CreationForward ==
  ASSUME EP!IInv, Typed, Reserved, Progressing, Moving, Marked,
         NEW path, NEW known, OnPath(path, known),
         NEW cmd, NEW finishes, Flight(cmd, finishes), Redoing, Creates(cmd),
         EP!IInv', DOMAIN indirectors \subseteq DOMAIN indirectors', ~active',
         \A i \in 1..Len(cmd.entries) :
           /\ cmd.entries[i].source = InFlight.entries[i].source
           /\ cmd.entries[i].content = InFlight.entries[i].content
           /\ i # progress + 1 => /\ cmd.entries[i].id = InFlight.entries[i].id
                                  /\ cmd.entries[i].real_index = InFlight.entries[i].real_index,
         Links(cmd, progress + 1, EP!Whole, EP!Whole', TRUE),
         \A key \in DOMAIN World : key \in DOMAIN World' /\ World'[key] = World[key],
         \A key \in DOMAIN World' \ DOMAIN World :
           /\ Len(EP!Whole.slots) # MaxSize /\ key = EP!Newest(EP!Whole')
           /\ World'[key] = Made(InFlight, progress + 1, images[Place])
  PROVE  EInv'
<1>c. PICK c : c = Place
  OBVIOUS
<1>p. PICK p : p = progress
  OBVIOUS
<1>n. PICK n : n = EP!Newest(EP!Whole')
  OBVIOUS
<1>1. Visible /\ Visible'
  BY Seen, PTL
<1>2. ~Arrived /\ Creates(InFlight) /\ ~(cmd.kind \in {"delete", "move"})
  BY DEF Flight, Creates
<1>3. /\ c \in 1..Len(commands) /\ InFlight = commands[c] /\ c \in Nat
      /\ p \in Nat /\ p \in 0..Steps(InFlight) - 1
      /\ Steps(InFlight) \in Nat \ {0}
      /\ InFlight.kind # "move" => Steps(InFlight) = Len(InFlight.entries)
  BY <1>2, <1>c, <1>p, Airborne
<1>4. /\ cmd.kind = InFlight.kind /\ cmd.by = InFlight.by
      /\ Len(cmd.entries) = Len(InFlight.entries) /\ Steps(cmd) = Steps(InFlight)
      /\ (finishes <=> p + 1 = Steps(InFlight))
  BY <1>p DEF Flight, Steps
<1>5. PICK path2, known2 :
        /\ Recording(known2)' /\ Chained(path2, known2)' /\ Standing(path2)'
        /\ Follows(path, path2, finishes)
  <2>1. \A i \in 1..Len(cmd.entries) :
          /\ cmd.entries[i].source = InFlight.entries[i].source
          /\ i # progress + 1 => /\ cmd.entries[i].id = InFlight.entries[i].id
                                 /\ cmd.entries[i].real_index = InFlight.entries[i].real_index
          /\ ~Creates(cmd) => cmd.entries[i].id = InFlight.entries[i].id
    OBVIOUS
  <2>. QED  BY <1>1, <2>1, StepsForward
<1>6. /\ DOMAIN images[c] \subseteq DOMAIN World
      /\ \A i \in 1..p : Len(path[c][i - 1].slots) # MaxSize =>
           EP!Newest(path[c][i]) \in DOMAIN World
      /\ Agree(World, images[c])
      /\ c < Len(images) => Agree(World, images[c + 1])
      /\ ShowsMade(InFlight, path[c], p, images[c], World)
      /\ c < Len(images) =>
           ShowsMade(InFlight, path[c], Steps(InFlight), images[c], images[c + 1])
  BY <1>1, <1>2, <1>c, <1>p, CreationSoFar
<1>7. /\ EP!Whole = path[c][p] /\ c \in 1..Len(images)
  BY <1>c, <1>p, KnownSoFar
<1>8. /\ \A x \in 1..Len(images) - 1 : \A y \in 0..Steps(commands[x]) : path2[x][y] = path[x][y]
      /\ \A y \in 0..p : path2[c][y] = path[c][y]
      /\ path2[c][p + 1] = EP!Whole'
  BY <1>5, <1>c, <1>p DEF Follows
<1>9. \A key \in DOMAIN World' \ DOMAIN World :
        /\ Len(path[c][p].slots) # MaxSize /\ key = n
        /\ World'[key] = Made(InFlight, p + 1, images[c])
  BY <1>7, <1>c, <1>p, <1>n
<1>10. \A i \in 1..Len(cmd.entries) : Made(cmd, i, images[c]) = Made(InFlight, i, images[c])
  BY <1>4 DEF Made
<1>11. Agree(World', images[c])
  BY <1>6 DEF Agree
<1>12. ASSUME c < Len(images) PROVE Agree(World', images[c + 1])
  <2>1. SUFFICES ASSUME NEW key \in DOMAIN World', key \in DOMAIN images[c + 1]
                 PROVE  World'[key] = images[c + 1][key]
    BY DEF Agree
  <2>2. CASE key \in DOMAIN World
    BY <1>6, <1>12, <2>1, <2>2 DEF Agree
  <2>3. CASE key \notin DOMAIN World
    <3>1. c \in 1..Len(images) - 1 /\ p \in 0..Steps(InFlight) /\ p + 1 \in 1..Steps(InFlight)
          /\ p + 1 \in 0..Steps(InFlight) /\ p + 1 - 1 = p
      BY <1>3, <1>7, <1>12
    <3>2. path[c][p + 1] = EP!Whole'
      BY <1>3, <1>8, <3>1
    <3>3. EP!Newest(path[c][p + 1]) = key /\ Len(path[c][p + 1 - 1].slots) # MaxSize
      BY <1>9, <1>n, <2>1, <2>3, <3>1, <3>2
    <3>4. images[c + 1][key] = Made(InFlight, p + 1, images[c])
      BY <1>6, <1>12, <2>1, <3>1, <3>3 DEF ShowsMade
    <3>. QED  BY <1>9, <2>1, <2>3, <3>4
  <2>. QED  BY <2>2, <2>3
<1>13. ShowsMade(cmd, path2[c], p + 1, images[c], World')
  <2>1. SUFFICES ASSUME NEW i \in 1..p + 1, Len(path2[c][i - 1].slots) # MaxSize,
                        EP!Newest(path2[c][i]) \in DOMAIN World'
                 PROVE  World'[EP!Newest(path2[c][i])] = Made(InFlight, i, images[c])
    <3>1. \A i \in 1..p + 1 : i \in 1..Len(cmd.entries)
      BY <1>2, <1>3, <1>4 DEF Creates
    <3>. QED  BY <1>10, <3>1 DEF ShowsMade
  <2>2. CASE i = p + 1
    <3>1. EP!Newest(path2[c][i]) = n /\ Len(path[c][p].slots) # MaxSize
      <4>1. i - 1 = p /\ p \in 0..p
        BY <1>3, <2>2
      <4>. QED  BY <1>8, <1>n, <2>1, <2>2, <4>1
    <3>2. n \notin DOMAIN World
      <4>1. Len(EP!Whole.slots) # MaxSize
        BY <1>7, <3>1
      <4>2. n \notin EP!Lives(EP!Whole)
        <5>1. PICK e, a, b : e = progress + 1 /\ a = EP!Whole /\ b = EP!Whole'
          OBVIOUS
        <5>2. Links(cmd, e, a, b, TRUE)
          BY <5>1
        <5>3. EP!Newest(b) \in EP!Keys \ EP!Lives(a)
          BY <4>1, <5>1, <5>2, LinksLives
        <5>. QED  BY <1>n, <5>1, <5>3
      <4>. QED  BY <1>1, <4>2 DEF Visible
    <3>. QED  BY <1>9, <2>1, <2>2, <3>1, <3>2
  <2>3. CASE i # p + 1
    <3>1. i \in 1..p /\ i - 1 \in 0..p /\ i \in 0..p
      BY <1>3, <2>3
    <3>2. path2[c][i] = path[c][i] /\ path2[c][i - 1] = path[c][i - 1]
      BY <1>8, <3>1
    <3>3. EP!Newest(path[c][i]) \in DOMAIN World
      BY <1>6, <2>1, <3>1, <3>2
    <3>4. World[EP!Newest(path[c][i])] = Made(InFlight, i, images[c])
      BY <1>6, <2>1, <3>1, <3>2, <3>3 DEF ShowsMade
    <3>. QED  BY <3>2, <3>3, <3>4
  <2>. QED  BY <2>2, <2>3
<1>14. finishes /\ c < Len(images) => World' = images[c + 1]
  BY <1>1, <1>3, <1>5, <1>12, <1>c, Completes DEF OnPath
<1>15. finishes /\ c = Len(images) => Shown(cmd, path2[c], images[c], World')
  <2>1. SUFFICES ASSUME finishes PROVE Shown(cmd, path2[c], images[c], World')
    OBVIOUS
  <2>2. Agree(images[c], World')
    BY <1>11 DEF Agree
  <2>3. ShowsMade(cmd, path2[c], Steps(cmd), images[c], World')
    BY <1>4, <1>13, <2>1
  <2>. QED  BY <1>2, <2>2, <2>3 DEF Shown
<1>16. Pictured(path2)' /\ Looks(path2)'
  <2>1. /\ ~finishes => Agree(World', images[Place])
        /\ ~finishes /\ Place < Len(images) => Agree(World', images[Place + 1])
        /\ Creates(cmd) => ShowsMade(cmd, path2[Place], progress + 1, images[Place], World')
        /\ finishes /\ Place < Len(images) => World' = images[Place + 1]
        /\ finishes /\ Place = Len(images) => Shown(cmd, path2[Place], images[Place], World')
        /\ cmd.kind = "move" => Holds(cmd, images[Place])
    BY <1>2, <1>11, <1>12, <1>13, <1>14, <1>15, <1>c, <1>p
  <2>2. Pictured(path)
    BY DEF OnPath
  <2>3. \A i \in 1..Len(cmd.entries) :
           /\ cmd.entries[i].source = InFlight.entries[i].source
           /\ ~Creates(cmd) => cmd.entries[i].id = InFlight.entries[i].id
           /\ cmd.kind # "move" => cmd.entries[i].content = InFlight.entries[i].content
    OBVIOUS
  <2>. QED  BY <1>1, <1>5, <2>1, <2>2, <2>3, PicturesForward
<1>17. OnPath(path2, known2)'
  BY <1>5, <1>16 DEF OnPath
<1>. QED  BY <1>1, <1>2, <1>17, Lands DEF OnPath

(* Creating again, or, in a full pool, leaving the entity out.             *)
LEMMA RedoCreationKeeps == ASSUME EInv, RedoCreation PROVE EInv'
<1>1. PICK path, known : OnPath(path, known)
  BY DEF EInv
<1>2. /\ EP!IInv /\ Typed /\ Reserved /\ Progressing /\ Moving /\ Marked
      /\ Redoing /\ Creates(InFlight) /\ Through(Finishes) /\ ~active'
  BY DEF EInv, RedoCreation, Creates
<1>3. Visible /\ ~Arrived /\ InFlight.kind # "move"
  <2>1. Listed
    BY <1>2, Lists
  <2>. QED  BY <1>2, <2>1, Seen DEF Redoing, Arrived, Listed, Creates
<1>c. PICK c : c = Place
  OBVIOUS
<1>f. PICK finishes : finishes = Finishes
  OBVIOUS
<1>4. /\ Entering = progress + 1 /\ InHand = InFlight.entries[progress + 1]
      /\ progress + 1 \in 1..Len(InFlight.entries)
      /\ InHand \in Entries /\ InFlight \in Commands
  BY <1>2, <1>3, Airborne
<1>5. /\ DOMAIN images[c] \subseteq DOMAIN World /\ Agree(World, images[c])
      /\ InFlight.kind = "duplicate" => InHand.source \in DOMAIN images[c]
      /\ Len(EP!Whole.slots) = MaxSize => InHand.id = NoId
  BY <1>1, <1>2, <1>3, <1>4, <1>c, CreationSoFar
<1>o. PICK o : o = IF InFlight.kind = "create" THEN InHand.content
                   ELSE Moved(Entities!Deref(InHand.source), InFlight.by)
  OBVIOUS
<1>6. o \in Positions /\ o = Made(InFlight, progress + 1, images[c])
  <2>1. CASE InFlight.kind = "create"
    BY <1>4, <1>o, <2>1 DEF Made, Entries
  <2>2. CASE InFlight.kind # "create"
    <3>1. InHand.source \in DOMAIN images[c] /\ InHand.source \in DOMAIN World
      BY <1>2, <1>5, <2>2 DEF Creates
    <3>2. /\ Entities!Deref(InHand.source) = World[InHand.source]
          /\ World[InHand.source] \in Positions
          /\ World[InHand.source] = images[c][InHand.source]
      BY <1>3, <1>5, <3>1 DEF Visible, Agree
    <3>3. InFlight.by \in Positions
      BY <1>4 DEF Commands
    <3>. QED  BY <1>4, <1>o, <2>2, <3>2, <3>3, MovedStays DEF Made
  <2>. QED  BY <2>1, <2>2
<1>7. \/ Entities!Allocate(o) /\ Remember([InHand EXCEPT !.id = NewestId'])
      \/ Entities!Full /\ UNCHANGED <<pool, commands>>
  BY <1>o DEF RedoCreation
<1>8. CASE Entities!Allocate(o) /\ Remember([InHand EXCEPT !.id = NewestId'])
  <2>1. /\ EP!IInv' /\ DOMAIN indirectors \subseteq DOMAIN indirectors'
        /\ Len(EP!Whole.slots) # MaxSize
        /\ EP!Whole' = EP!Allocated(EP!Whole)
        /\ NewestId' = EP!Newest(EP!Allocated(EP!Whole))
        /\ EP!Newest(EP!Allocated(EP!Whole)) \in EP!Keys \ DOMAIN World
        /\ DOMAIN World' = DOMAIN World \cup {EP!Newest(EP!Allocated(EP!Whole))}
        /\ \A key \in DOMAIN World : World'[key] = World[key]
        /\ World'[EP!Newest(EP!Allocated(EP!Whole))] = o
    BY <1>2, <1>6, <1>8, AllocateSeen
  <2>n. PICK n : n = NewestId'
    OBVIOUS
  <2>e. PICK entry : entry = [InHand EXCEPT !.id = n]
    OBVIOUS
  <2>2. /\ entry \in Entries /\ entry.id = n /\ entry.source = InHand.source
        /\ entry.content = InHand.content
    <3>1. n \in Ids
      BY <2>1, <2>n DEF Ids
    <3>. QED  BY <1>4, <2>e, <3>1 DEF Entries
  <2>3. Remember(entry)
    BY <1>8, <2>n, <2>e
  <2>4. PICK cmd : /\ Flight(cmd, finishes) /\ cmd.kind = InFlight.kind
                   /\ Len(cmd.entries) = Len(InFlight.entries)
                   /\ \A i \in 1..Len(cmd.entries) :
                        cmd.entries[i] = IF i = Entering THEN entry ELSE InFlight.entries[i]
    BY <1>2, <1>3, <1>f, <2>2, <2>3, Rewrites
  <2>5. \A i \in 1..Len(cmd.entries) :
          /\ cmd.entries[i].source = InFlight.entries[i].source
          /\ cmd.entries[i].content = InFlight.entries[i].content
          /\ i # progress + 1 => /\ cmd.entries[i].id = InFlight.entries[i].id
                                 /\ cmd.entries[i].real_index = InFlight.entries[i].real_index
    BY <1>4, <2>2, <2>4
  <2>6. EP!Whole' = EP!Allocated(EP!Whole) /\ n = EP!Newest(EP!Whole')
    BY <2>1, <2>n
  <2>7. Creates(cmd)
    BY <1>2, <2>4 DEF Creates
  <2>8. Links(cmd, progress + 1, EP!Whole, EP!Whole', TRUE)
    <3>1. cmd.entries[progress + 1].id = n
      BY <1>4, <2>2, <2>4
    <3>2. EP!Sound(EP!Whole) /\ cmd.kind # "delete" /\ cmd.kind # "move"
      BY <1>3, <2>7 DEF Visible, Creates
    <3>. QED  BY <2>1, <2>6, <3>1, <3>2 DEF Links
  <2>9. \A key \in DOMAIN World : key \in DOMAIN World' /\ World'[key] = World[key]
    BY <2>1
  <2>10. \A key \in DOMAIN World' \ DOMAIN World :
           /\ Len(EP!Whole.slots) # MaxSize /\ key = EP!Newest(EP!Whole')
           /\ World'[key] = Made(InFlight, progress + 1, images[Place])
    BY <1>6, <1>c, <2>1, <2>6, <2>n
  <2>. QED  BY <1>1, <1>2, <2>1, <2>4, <2>5, <2>7, <2>8, <2>9, <2>10, CreationForward
<1>9. CASE Entities!Full /\ UNCHANGED <<pool, commands>>
  <2>1. /\ EP!Whole' = EP!Whole /\ World' = World /\ EP!IInv'
        /\ DOMAIN indirectors' = DOMAIN indirectors
    BY <1>2, <1>9, Unseen
  <2>2. PICK cmd : cmd = InFlight
    OBVIOUS
  <2>3. Flight(cmd, finishes)
    BY <1>2, <1>3, <1>9, <1>f, <2>2, Keeps
  <2>4. Len(EP!Whole.slots) = MaxSize
    BY <1>3, <1>9 DEF Visible
  <2>5. Links(cmd, progress + 1, EP!Whole, EP!Whole', TRUE)
    <3>1. cmd.entries[progress + 1].id = NoId
      BY <1>4, <1>5, <2>2, <2>4
    <3>2. EP!Sound(EP!Whole) /\ cmd.kind # "delete" /\ cmd.kind # "move"
      BY <1>2, <1>3, <2>2 DEF Visible, Creates
    <3>. QED  BY <2>1, <2>4, <3>1, <3>2 DEF Links
  <2>. QED  BY <1>1, <1>2, <2>1, <2>2, <2>3, <2>5, CreationForward
<1>. QED  BY <1>7, <1>8, <1>9

-----------------------------------------------------------------------------
(* An indirector in use is in the whole pool as it is. *)
LEMMA PointerSeen ==
  ASSUME EP!IInv, NEW key, Alive(key), NEW k, k = key.indirection_index
  PROVE  EP!Whole.indirectors[k].real_index = indirectors[k].real_index
<1>1. k \in DOMAIN indirectors
  BY DEF Alive, Entities!Alive
<1>2. k \in 1..EP!Capacity /\ EP!Capacity \in Nat /\ EP!Capacity <= MaxSize /\ MaxSize \in Nat
  BY <1>1, PoolFits, EP!Shape DEF EP!PoolAssumption
<1>3. EP!Whole.indirectors = [j \in 1..MaxSize |->
        IF j <= EP!Capacity THEN indirectors[j] ELSE EP!FreshIndirector]
  BY DEF EP!Whole
<1>. QED  BY <1>2, <1>3

(* Deleting again. *)
LEMMA RedoDeletionKeeps == ASSUME EInv, RedoDeletion PROVE EInv'
<1>1. PICK path, known : OnPath(path, known)
  BY DEF EInv
<1>2. /\ EP!IInv /\ Typed /\ Reserved /\ Progressing /\ Moving /\ Marked
      /\ Redoing /\ InFlight.kind = "delete" /\ Through(Finishes) /\ active' = active
      /\ Entities!Free(InHand.id)
      /\ Remember([InHand EXCEPT
           !.real_index = indirectors[InHand.id.indirection_index].real_index])
  BY DEF EInv, RedoDeletion
<1>3. Visible /\ ~Arrived /\ InFlight.kind # "move" /\ ~Creates(InFlight)
  <2>1. Listed
    BY <1>2, Lists
  <2>. QED  BY <1>2, <2>1, Seen DEF Redoing, Arrived, Listed, Creates
<1>c. PICK c : c = Place
  OBVIOUS
<1>f. PICK finishes : finishes = Finishes
  OBVIOUS
<1>y. PICK key : key = InHand.id
  OBVIOUS
<1>4. /\ Entering = progress + 1 /\ InHand = InFlight.entries[progress + 1]
      /\ progress + 1 \in 1..Len(InFlight.entries)
      /\ InHand \in Entries /\ InFlight \in Commands
      /\ Finishes <=> progress + 1 = Steps(InFlight)
      /\ c \in 1..Len(commands)
  BY <1>2, <1>3, <1>c, Airborne
<1>5. key \in EP!Keys /\ Alive(key)
  <2>1. Alive(key)
    BY <1>2, <1>y DEF Entities!Free, Alive
  <2>2. key \in Ids
    BY <1>4, <1>y DEF Entries
  <2>. QED  BY <1>3, <2>1, <2>2 DEF Visible, Ids
<1>6. /\ EP!IInv' /\ DOMAIN indirectors \subseteq DOMAIN indirectors'
      /\ EP!Whole' = EP!Freed(EP!Whole, key.indirection_index)
      /\ key \in DOMAIN World
      /\ DOMAIN World' = DOMAIN World \ {key}
      /\ \A other \in DOMAIN World' : World'[other] = World[other]
  <2>1. Entities!Free(key)
    BY <1>2, <1>y
  <2>. QED  BY <1>2, <1>5, <2>1, FreeSeen
<1>7. Visible'
  BY <1>6, Seen, PTL
<1>e. PICK entry : entry = [InHand EXCEPT !.real_index = indirectors[key.indirection_index].real_index]
  OBVIOUS
<1>8. /\ entry \in Entries /\ entry.id = key /\ entry.source = InHand.source
      /\ entry.content = InHand.content
      /\ entry.real_index = indirectors[key.indirection_index].real_index
  <2>1. indirectors[key.indirection_index].real_index \in Nat
    <3>1. key.indirection_index \in DOMAIN indirectors
          /\ indirectors[key.indirection_index].real_index # EP!Unused
      BY <1>5 DEF Alive, Entities!Alive, EP!Unused, Entities!Unused
    <3>2. indirectors[key.indirection_index].real_index \in DOMAIN slots
      BY <1>2, <3>1 DEF EP!IInv, EP!Consistent, EP!PointersPair
    <3>. QED  BY <1>2, <3>2, PoolFits, EP!Shape
  <2>. QED  BY <1>4, <1>e, <1>y, <2>1 DEF Entries
<1>9. Remember(entry)
  BY <1>2, <1>e, <1>y
<1>10. PICK cmd : /\ Flight(cmd, finishes) /\ cmd.kind = InFlight.kind
                  /\ Len(cmd.entries) = Len(InFlight.entries)
                  /\ \A i \in 1..Len(cmd.entries) :
                       cmd.entries[i] = IF i = Entering THEN entry ELSE InFlight.entries[i]
  BY <1>2, <1>3, <1>8, <1>9, <1>f, Rewrites
<1>11. \A i \in 1..Len(cmd.entries) :
         /\ cmd.entries[i].source = InFlight.entries[i].source
         /\ cmd.entries[i].content = InFlight.entries[i].content
         /\ cmd.entries[i].id = InFlight.entries[i].id
         /\ i # progress + 1 => cmd.entries[i].real_index = InFlight.entries[i].real_index
  BY <1>4, <1>8, <1>10, <1>y
<1>12. Links(cmd, progress + 1, EP!Whole, EP!Whole', TRUE)
  <2>1. cmd.entries[progress + 1] = entry
    BY <1>4, <1>10
  <2>2. ~Creates(cmd) /\ cmd.kind # "move" /\ EP!Sound(EP!Whole) /\ key \in EP!Lives(EP!Whole)
    BY <1>2, <1>3, <1>6, <1>10 DEF Visible, Creates
  <2>3. entry.real_index = EP!Whole.indirectors[key.indirection_index].real_index
    BY <1>2, <1>5, <1>8, PointerSeen
  <2>. QED  BY <1>6, <1>8, <2>1, <2>2, <2>3 DEF Links
<1>13. PICK path2, known2 :
         /\ Recording(known2)' /\ Chained(path2, known2)' /\ Standing(path2)'
         /\ Follows(path, path2, finishes)
  <2>1. \A i \in 1..Len(cmd.entries) :
          /\ cmd.entries[i].source = InFlight.entries[i].source
          /\ i # progress + 1 => /\ cmd.entries[i].id = InFlight.entries[i].id
                                 /\ cmd.entries[i].real_index = InFlight.entries[i].real_index
          /\ ~Creates(cmd) => cmd.entries[i].id = InFlight.entries[i].id
    BY <1>11
  <2>. QED  BY <1>1, <1>2, <1>7, <1>10, <1>12, <2>1, StepsForward
<1>14. /\ Agree(World, images[c])
       /\ c < Len(images) => Agree(World, images[c + 1])
  BY <1>1, <1>2, <1>3, <1>c, AgreesForward
<1>15. /\ Agree(World', images[c])
       /\ c < Len(images) => Agree(World', images[c + 1])
  BY <1>6, <1>14 DEF Agree
<1>16. finishes /\ c < Len(images) => World' = images[c + 1]
  BY <1>1, <1>2, <1>4, <1>7, <1>13, <1>15, <1>c, Completes DEF OnPath
<1>17. finishes /\ c = Len(images) => Shown(cmd, path2[c], images[c], World')
  <2>1. Agree(images[c], World')
    BY <1>15 DEF Agree
  <2>. QED  BY <1>2, <1>10, <2>1 DEF Shown, Creates
<1>18. Pictured(path2)' /\ Looks(path2)'
  <2>1. ~Creates(cmd) /\ cmd.kind # "move"
    BY <1>2, <1>10 DEF Creates
  <2>2. /\ ~finishes => Agree(World', images[Place])
        /\ ~finishes /\ Place < Len(images) => Agree(World', images[Place + 1])
        /\ Creates(cmd) => ShowsMade(cmd, path2[Place], progress + 1, images[Place], World')
        /\ finishes /\ Place < Len(images) => World' = images[Place + 1]
        /\ finishes /\ Place = Len(images) => Shown(cmd, path2[Place], images[Place], World')
        /\ cmd.kind = "move" => Holds(cmd, images[Place])
    BY <1>15, <1>16, <1>17, <1>c, <2>1
  <2>3. Pictured(path)
    BY <1>1 DEF OnPath
  <2>4. \A i \in 1..Len(cmd.entries) :
           /\ cmd.entries[i].source = InFlight.entries[i].source
           /\ ~Creates(cmd) => cmd.entries[i].id = InFlight.entries[i].id
           /\ cmd.kind # "move" => cmd.entries[i].content = InFlight.entries[i].content
    BY <1>11
  <2>. QED  BY <1>2, <1>7, <1>10, <1>13, <2>2, <2>3, <2>4, PicturesForward
<1>19. OnPath(path2, known2)'
  BY <1>13, <1>18 DEF OnPath
<1>20. cmd.kind = "delete" => \A i \in 1..Len(cmd.entries) :
                                cmd.entries[i].id = InFlight.entries[i].id
  BY <1>11
<1>. QED  BY <1>1, <1>2, <1>6, <1>7, <1>10, <1>19, <1>20, Lands DEF OnPath

-----------------------------------------------------------------------------
(* Moving rewrites the contents of all entries at once.                    *)
Reworded(content) ==
  commands' = [commands EXCEPT ![Place].entries =
                 [e \in DOMAIN @ |-> [@[e] EXCEPT !.content = content[e]]]]

(* It leaves the history a command in flight.                              *)
LEMMA Rewords ==
  ASSUME Typed, Progressing, ~Arrived, InFlight.kind = "move", Through(TRUE), NEW content,
         \A e \in 1..Len(InFlight.entries) : content[e] \in Positions, Reworded(content)
  PROVE  /\ progress = 0 /\ Steps(InFlight) = 1
         /\ \E cmd : /\ Flight(cmd, TRUE) /\ cmd.kind = "move"
                     /\ Len(cmd.entries) = Len(InFlight.entries)
                     /\ \A i \in 1..Len(cmd.entries) :
                          /\ cmd.entries[i].content = content[i]
                          /\ cmd.entries[i].id = InFlight.entries[i].id
                          /\ cmd.entries[i].source = InFlight.entries[i].source
                          /\ cmd.entries[i].real_index = InFlight.entries[i].real_index
<1>1. /\ Place \in 1..Len(commands) /\ InFlight = commands[Place] /\ InFlight \in Commands
      /\ DOMAIN InFlight.entries = 1..Len(InFlight.entries)
      /\ \A i \in 1..Len(InFlight.entries) : InFlight.entries[i] \in Entries
      /\ Len(InFlight.entries) \in Nat
      /\ progress \in 0..Steps(InFlight) - 1
  BY Airborne
<1>2. progress = 0 /\ Steps(InFlight) = 1
  BY <1>1 DEF Steps
<1>3. PICK entries : entries = [e \in DOMAIN InFlight.entries |->
                                  [InFlight.entries[e] EXCEPT !.content = content[e]]]
  OBVIOUS
<1>4. PICK cmd : cmd = [InFlight EXCEPT !.entries = entries]
  OBVIOUS
<1>5. InFlight = [kind |-> InFlight.kind, entries |-> InFlight.entries, by |-> InFlight.by,
                  has_parent |-> InFlight.has_parent]
      /\ InFlight.kind \in Kinds /\ InFlight.by \in Positions /\ InFlight.has_parent \in BOOLEAN
  BY <1>1 DEF Commands
<1>6. /\ cmd.kind = InFlight.kind /\ cmd.by = InFlight.by /\ cmd.entries = entries
      /\ cmd = [kind |-> InFlight.kind, entries |-> entries, by |-> InFlight.by,
                has_parent |-> InFlight.has_parent]
  BY <1>4, <1>5
<1>7. \A i \in 1..Len(InFlight.entries) :
        /\ entries[i] = [InFlight.entries[i] EXCEPT !.content = content[i]]
        /\ entries[i] \in Entries
        /\ entries[i].content = content[i]
        /\ entries[i].id = InFlight.entries[i].id
        /\ entries[i].source = InFlight.entries[i].source
        /\ entries[i].real_index = InFlight.entries[i].real_index
  <2>1. SUFFICES ASSUME NEW i \in 1..Len(InFlight.entries)
                 PROVE  /\ entries[i] = [InFlight.entries[i] EXCEPT !.content = content[i]]
                        /\ entries[i] \in Entries
                        /\ entries[i].content = content[i]
                        /\ entries[i].id = InFlight.entries[i].id
                        /\ entries[i].source = InFlight.entries[i].source
                        /\ entries[i].real_index = InFlight.entries[i].real_index
    OBVIOUS
  <2>2. entries[i] = [InFlight.entries[i] EXCEPT !.content = content[i]]
    BY <1>1, <1>3
  <2>3. InFlight.entries[i] \in Entries /\ content[i] \in Positions
    BY <1>1
  <2>. QED  BY <2>2, <2>3 DEF Entries
<1>8. entries \in Seq(Entries) /\ Len(entries) = Len(InFlight.entries)
  <2>1. entries \in [1..Len(InFlight.entries) -> Entries]
    BY <1>1, <1>3, <1>7
  <2>. QED  BY <1>1, <2>1, EP!FunctionIsSeq
<1>9. cmd \in Commands
  BY <1>5, <1>6, <1>8 DEF Commands
<1>10. commands' = [commands EXCEPT ![Place] = cmd]
  <2>1. [commands EXCEPT ![Place].entries =
           [e \in DOMAIN @ |-> [@[e] EXCEPT !.content = content[e]]]] =
          [commands EXCEPT ![Place] =
             [commands[Place] EXCEPT !.entries =
                [e \in DOMAIN commands[Place].entries |->
                   [commands[Place].entries[e] EXCEPT !.content = content[e]]]]]
    OBVIOUS
  <2>. QED  BY <1>1, <1>3, <1>4, <2>1 DEF Reworded
<1>11. Flight(cmd, TRUE)
  <2>1. cmd.kind = InFlight.kind /\ cmd.by = InFlight.by
        /\ Len(cmd.entries) = Len(InFlight.entries)
    BY <1>6, <1>8
  <2>2. TRUE <=> progress + 1 = Steps(InFlight)
    BY <1>2
  <2>. QED  BY <1>9, <1>10, <2>1, <2>2 DEF Flight
<1>12. cmd.kind = "move" /\ Len(cmd.entries) = Len(InFlight.entries)
  BY <1>6, <1>8
<1>13. \A i \in 1..Len(cmd.entries) :
         /\ cmd.entries[i].content = content[i]
         /\ cmd.entries[i].id = InFlight.entries[i].id
         /\ cmd.entries[i].source = InFlight.entries[i].source
         /\ cmd.entries[i].real_index = InFlight.entries[i].real_index
  BY <1>6, <1>7, <1>12
<1>. QED  BY <1>2, <1>11, <1>12, <1>13

(* What a move mentions is alive and shows; the pictures are functions.    *)
LEMMA Mentioned ==
  ASSUME EP!IInv, Typed, Progressing, ~Arrived, AllAlive(InFlight)
  PROVE  \A e \in 1..Len(InFlight.entries) :
           /\ InFlight.entries[e].id \in DOMAIN World
           /\ World[InFlight.entries[e].id] = Entities!Deref(InFlight.entries[e].id)
           /\ World[InFlight.entries[e].id] \in Positions
<1>1. Visible
  BY Seen
<1>2. SUFFICES ASSUME NEW e \in 1..Len(InFlight.entries)
               PROVE  /\ InFlight.entries[e].id \in DOMAIN World
                      /\ World[InFlight.entries[e].id] = Entities!Deref(InFlight.entries[e].id)
                      /\ World[InFlight.entries[e].id] \in Positions
  OBVIOUS
<1>3. DOMAIN InFlight.entries = 1..Len(InFlight.entries) /\ InFlight.entries[e] \in Entries
  BY Airborne
<1>4. Alive(InFlight.entries[e].id) /\ InFlight.entries[e].id \in Ids
  BY <1>3 DEF AllAlive, Entries
<1>5. InFlight.entries[e].id \in EP!Keys
  BY <1>1, <1>4 DEF Visible, Ids
<1>. QED  BY <1>1, <1>4, <1>5 DEF Visible

(* Moving again. *)
LEMMA RedoMoveKeeps == ASSUME EInv, RedoMove PROVE EInv'
<1>1. PICK path, known : OnPath(path, known)
  BY DEF EInv
<1>b. PICK before : before = [e \in DOMAIN InFlight.entries |-> Entities!Deref(InFlight.entries[e].id)]
  OBVIOUS
<1>a. PICK after : after = [e \in DOMAIN InFlight.entries |-> Moved(before[e], InFlight.by)]
  OBVIOUS
<1>2. /\ EP!IInv /\ Typed /\ Reserved /\ Progressing /\ Moving /\ Marked
      /\ Redoing /\ InFlight.kind = "move" /\ AllAlive(InFlight) /\ Through(TRUE)
      /\ objects' = Replaced(InFlight, after)
      /\ UNCHANGED <<slots, indirectors, free_indirectors>> /\ active' = active
      /\ commands' = [commands EXCEPT ![current_revision + 1].entries =
                        [e \in DOMAIN @ |-> [@[e] EXCEPT !.content = before[e]]]]
  <2>1. /\ EP!IInv /\ Typed /\ Reserved /\ Progressing /\ Moving /\ Marked
    BY DEF EInv
  <2>2. /\ Redoing /\ InFlight.kind = "move" /\ AllAlive(InFlight) /\ Through(TRUE)
        /\ UNCHANGED <<slots, indirectors, free_indirectors>> /\ active' = active
    BY DEF RedoMove
  <2>3. objects' = Replaced(InFlight, after)
    BY <1>a, <1>b DEF RedoMove
  <2>4. commands' = [commands EXCEPT ![current_revision + 1].entries =
                       [e \in DOMAIN @ |-> [@[e] EXCEPT !.content = before[e]]]]
    BY <1>b DEF RedoMove
  <2>. QED  BY <2>1, <2>2, <2>3, <2>4
<1>3. Visible /\ ~Arrived /\ ~Creates(InFlight)
  <2>1. Listed
    BY <1>2, Lists
  <2>. QED  BY <1>2, <2>1, Seen DEF Redoing, Arrived, Listed, Creates
<1>c. PICK c : c = Place
  OBVIOUS
<1>4. /\ c = current_revision + 1 /\ c \in 1..Len(commands) /\ InFlight = commands[c]
      /\ DOMAIN InFlight.entries = 1..Len(InFlight.entries)
      /\ InFlight \in Commands
  BY <1>2, <1>3, <1>c, Airborne
<1>5. \A e \in 1..Len(InFlight.entries) :
        /\ InFlight.entries[e].id \in DOMAIN World
        /\ before[e] = World[InFlight.entries[e].id]
        /\ World[InFlight.entries[e].id] \in Positions
        /\ after[e] = Moved(World[InFlight.entries[e].id], InFlight.by)
        /\ after[e] \in Positions
  <2>1. SUFFICES ASSUME NEW e \in 1..Len(InFlight.entries)
                 PROVE  /\ InFlight.entries[e].id \in DOMAIN World
                        /\ before[e] = World[InFlight.entries[e].id]
                        /\ World[InFlight.entries[e].id] \in Positions
                        /\ after[e] = Moved(World[InFlight.entries[e].id], InFlight.by)
                        /\ after[e] \in Positions
    OBVIOUS
  <2>2. /\ InFlight.entries[e].id \in DOMAIN World
        /\ World[InFlight.entries[e].id] = Entities!Deref(InFlight.entries[e].id)
        /\ World[InFlight.entries[e].id] \in Positions
    BY <1>2, <1>3, Mentioned
  <2>3. InFlight.by \in Positions
    BY <1>4 DEF Commands
  <2>. QED  BY <1>4, <1>a, <1>b, <2>2, <2>3, MovedStays
<1>6. /\ progress = 0 /\ Steps(InFlight) = 1
      /\ \E cmd : /\ Flight(cmd, TRUE) /\ cmd.kind = "move"
                  /\ Len(cmd.entries) = Len(InFlight.entries)
                  /\ \A i \in 1..Len(cmd.entries) :
                       /\ cmd.entries[i].content = before[i]
                       /\ cmd.entries[i].id = InFlight.entries[i].id
                       /\ cmd.entries[i].source = InFlight.entries[i].source
                       /\ cmd.entries[i].real_index = InFlight.entries[i].real_index
  <2>1. Reworded(before)
    BY <1>2, <1>4, <1>c DEF Reworded
  <2>2. \A e \in 1..Len(InFlight.entries) : before[e] \in Positions
    BY <1>5
  <2>. QED  BY <1>2, <1>3, <2>1, <2>2, Rewords, ZenonT(40)
<1>7. PICK cmd : /\ Flight(cmd, TRUE) /\ cmd.kind = "move"
                 /\ Len(cmd.entries) = Len(InFlight.entries)
                 /\ \A i \in 1..Len(cmd.entries) :
                      /\ cmd.entries[i].content = before[i]
                      /\ cmd.entries[i].id = InFlight.entries[i].id
                      /\ cmd.entries[i].source = InFlight.entries[i].source
                      /\ cmd.entries[i].real_index = InFlight.entries[i].real_index
  BY <1>6
<1>w. PICK f : f = [key \in DOMAIN World |-> Moved(World[key], InFlight.by)]
  OBVIOUS
<1>8. /\ EP!IInv' /\ DOMAIN indirectors \subseteq DOMAIN indirectors'
      /\ EP!Whole' = EP!Whole
      /\ DOMAIN World' = DOMAIN World
      /\ \A key \in DOMAIN World :
           World'[key] = IF Mentions(cmd, key) THEN Moved(World[key], InFlight.by)
                         ELSE World[key]
  <2>1. PICK command : command = InFlight
    OBVIOUS
  <2>2. \A e \in DOMAIN command.entries :
          /\ command.entries[e].id \in DOMAIN World
          /\ after[e] = f[command.entries[e].id] /\ after[e] \in Positions
    BY <1>4, <1>5, <1>w, <2>1
  <2>3. objects' = Replaced(command, after)
    BY <1>2, <2>1
  <2>4. /\ EP!IInv' /\ DOMAIN indirectors \subseteq DOMAIN indirectors'
        /\ EP!Whole' = EP!Whole
        /\ DOMAIN World' = DOMAIN World
        /\ \A key \in DOMAIN World :
             World'[key] = IF \E e \in DOMAIN command.entries : command.entries[e].id = key
                           THEN f[key] ELSE World[key]
    BY <1>2, <2>2, <2>3, ReplaceSeen
  <2>5. \A key : Mentions(cmd, key) <=> \E e \in DOMAIN command.entries : command.entries[e].id = key
    BY <1>4, <1>7, <2>1 DEF Mentions
  <2>. QED  BY <1>w, <2>4, <2>5
<1>9. Visible'
  BY <1>8, Seen, PTL
<1>10. World = images[c] /\ c \in 1..Len(images)
  <2>1. c \in 1..Len(images)
    BY <1>1, <1>2, <1>c, KnownSoFar
  <2>. QED  BY <1>1, <1>4, <1>6, <2>1 DEF OnPath, Looks
<1>11. Links(cmd, progress + 1, EP!Whole, EP!Whole', TRUE)
  BY <1>3, <1>7, <1>8 DEF Links, Creates, Visible
<1>12. PICK path2, known2 :
         /\ Recording(known2)' /\ Chained(path2, known2)' /\ Standing(path2)'
         /\ Follows(path, path2, TRUE)
  <2>1. \A i \in 1..Len(cmd.entries) :
          /\ cmd.entries[i].source = InFlight.entries[i].source
          /\ i # progress + 1 => /\ cmd.entries[i].id = InFlight.entries[i].id
                                 /\ cmd.entries[i].real_index = InFlight.entries[i].real_index
          /\ ~Creates(cmd) => cmd.entries[i].id = InFlight.entries[i].id
    BY <1>7
  <2>. QED  BY <1>1, <1>2, <1>7, <1>9, <1>11, <2>1, StepsForward
<1>13. c < Len(images) => World' = images[c + 1]
  <2>1. SUFFICES ASSUME c < Len(images) PROVE World' = images[c + 1]
    OBVIOUS
  <2>2. c \in 1..Len(images) - 1
    BY <1>10, <2>1
  <2>3. Shown(InFlight, path[c], images[c], images[c + 1])
    BY <1>1, <1>4, <2>2 DEF OnPath, Pictured
  <2>4. \A key : Mentions(cmd, key) <=> Mentions(InFlight, key)
    BY <1>7 DEF Mentions
  <2>5. Agree(World', images[c + 1])
    BY <1>2, <1>8, <1>10, <2>3, <2>4 DEF Shown, Agree
  <2>. QED  BY <1>1, <1>2, <1>4, <1>9, <1>12, <1>c, <2>1, <2>5, Completes DEF OnPath
<1>14. c = Len(images) => Shown(cmd, path2[c], images[c], World')
  <2>1. cmd.by = InFlight.by /\ ~Creates(cmd)
    BY <1>7 DEF Flight, Creates
  <2>. QED  BY <1>7, <1>8, <1>10, <2>1 DEF Shown
<1>15. Pictured(path2)' /\ Looks(path2)'
  <2>1. ~Creates(cmd)
    BY <1>7 DEF Creates
  <2>2. Holds(cmd, images[c])
    BY <1>5, <1>7, <1>10 DEF Holds
  <2>3. /\ Creates(cmd) => ShowsMade(cmd, path2[Place], progress + 1, images[Place], World')
        /\ TRUE /\ Place < Len(images) => World' = images[Place + 1]
        /\ TRUE /\ Place = Len(images) => Shown(cmd, path2[Place], images[Place], World')
        /\ cmd.kind = "move" => Holds(cmd, images[Place])
    BY <1>13, <1>14, <1>c, <2>1, <2>2
  <2>4. Pictured(path)
    BY <1>1 DEF OnPath
  <2>5. \A i \in 1..Len(cmd.entries) :
           /\ cmd.entries[i].source = InFlight.entries[i].source
           /\ ~Creates(cmd) => cmd.entries[i].id = InFlight.entries[i].id
           /\ cmd.kind # "move" => cmd.entries[i].content = InFlight.entries[i].content
    BY <1>7
  <2>. QED  BY <1>2, <1>7, <1>9, <1>12, <2>3, <2>4, <2>5, PicturesForward
<1>16. OnPath(path2, known2)'
  BY <1>12, <1>15 DEF OnPath
<1>17. cmd.kind # "delete" /\ Pictured(path)
  BY <1>1, <1>7 DEF OnPath
<1>. QED  BY <1>2, <1>7, <1>8, <1>9, <1>16, <1>17, Lands

-----------------------------------------------------------------------------
(* What is known of a command of which e steps are still to be taken back. *)
Backing(path, c, e) ==
  /\ c = current_revision /\ c \in 1..Len(commands) /\ InFlight = commands[c]
  /\ Steps(InFlight) \in Nat /\ e \in 1..Steps(InFlight) /\ e - 1 \in 0..Steps(InFlight)
  /\ EP!Whole = path[c][e]
  /\ \A i \in 1..Steps(InFlight) :
       Links(InFlight, i, path[c][i - 1], path[c][i], i <= e)
  /\ Links(InFlight, e, path[c][e - 1], EP!Whole, TRUE)
  /\ Fits(InFlight, path[c], Steps(InFlight))
  /\ c \in 1..Len(images) /\ c + 1 \in 1..Len(images)
  /\ DOMAIN images[c] = EP!Lives(path[c][0])
  /\ DOMAIN images[c + 1] = EP!Lives(path[c][Steps(InFlight)])
  /\ Shown(InFlight, path[c], images[c], images[c + 1])
  /\ InFlight.kind \in {"delete", "move"} => Holds(InFlight, images[c])
  /\ InFlight.kind # "move" => Agree(World, images[c]) /\ Agree(World, images[c + 1])
  /\ progress = 0 => World = images[c + 1]

(* Where a command is being taken back, everything is known.               *)
LEMMA KnownBack ==
  ASSUME Typed, Progressing, NEW path, NEW known, OnPath(path, known),
         ~Redoing, ~Arrived, NEW c, c = Place, NEW e, e = Steps(InFlight) - progress
  PROVE  Backing(path, c, e)
<1>1. /\ c = current_revision /\ c \in 1..Len(commands) /\ InFlight = commands[c]
      /\ Steps(InFlight) \in Nat \ {0} /\ progress \in 0..Steps(InFlight) - 1 /\ Undoing
      /\ InFlight.kind \in Kinds
  BY Airborne
<1>2. Listed /\ Len(commands) \in Nat /\ c \in Nat /\ Len(images) \in Nat /\ progress \in Nat
  <2>1. Listed
    BY Lists
  <2>2. Len(commands) \in Nat /\ current_revision \in Nat /\ Len(images) \in Nat
    BY <2>1 DEF Listed
  <2>3. progress \in Nat
    BY DEF Typed
  <2>. QED  BY <1>1, <2>1, <2>2, <2>3
<1>3. e \in 1..Steps(InFlight) /\ e - 1 \in 0..Steps(InFlight)
  BY <1>1
<1>4. Known(known, c) = Steps(commands[c])
  BY <1>1, <1>2, AllKnown DEF OnPath
<1>5. DoneIn(c) = e
  <2>1. PICK n, p : n = Steps(commands[c]) /\ p = progress
    OBVIOUS
  <2>2. DoneIn(c) = n - p
    BY <1>1, <1>2, <2>1 DEF DoneIn
  <2>. QED  BY <1>1, <2>1, <2>2
<1>6. /\ \A i \in 1..Steps(InFlight) : Links(InFlight, i, path[c][i - 1], path[c][i], i <= e)
      /\ Fits(InFlight, path[c], Steps(InFlight))
      /\ path[c + 1][0] = path[c][Steps(InFlight)]
  BY <1>1, <1>4, <1>5 DEF OnPath, Chained
<1>7. EP!Whole = path[c][e]
  <2>1. CASE progress = 0
    <3>1. e = Steps(InFlight)
      BY <1>1, <2>1
    <3>. QED  BY <1>1, <1>6, <2>1, <3>1 DEF OnPath, Standing
  <2>2. CASE progress # 0
    <3>1. progress > 0
      BY <1>2, <2>2
    <3>. QED  BY <1>1, <3>1 DEF OnPath, Standing
  <2>. QED  BY <2>1, <2>2
<1>8. Links(InFlight, e, path[c][e - 1], EP!Whole, TRUE)
  <2>1. (e <= e) = TRUE
    BY <1>1, <1>3
  <2>2. Links(InFlight, e, path[c][e - 1], path[c][e], e <= e)
    BY <1>3, <1>6
  <2>. QED  BY <1>7, <2>1, <2>2
<1>9. c \in 1..Len(images) /\ c + 1 \in 1..Len(images) /\ c \in 1..Len(images) - 1
  <2>1. Len(images) >= c + 1
    BY <1>1, <1>2 DEF OnPath, Pictured
  <2>. QED  BY <1>1, <1>2, <2>1
<1>10. /\ DOMAIN images[c] = EP!Lives(path[c][0])
       /\ DOMAIN images[c + 1] = EP!Lives(path[c][Steps(InFlight)])
       /\ Shown(InFlight, path[c], images[c], images[c + 1])
  BY <1>1, <1>6, <1>9 DEF OnPath, Pictured
<1>11. InFlight.kind \in {"delete", "move"} => Holds(InFlight, images[c])
  <2>1. c \in 1..current_revision
    BY <1>1, <1>2
  <2>. QED  BY <1>1, <2>1 DEF OnPath, Pictured
<1>12. progress = 0 => World = images[c + 1]
  BY <1>1 DEF OnPath, Looks
<1>13. ASSUME InFlight.kind # "move" PROVE Agree(World, images[c]) /\ Agree(World, images[c + 1])
  <2>1. CASE progress = 0
    <3>1. Agree(images[c], images[c + 1])
      BY <1>10, <1>13 DEF Shown
    <3>. QED  BY <1>12, <2>1, <3>1 DEF Agree
  <2>2. CASE progress # 0
    <3>1. progress > 0
      BY <1>2, <2>2
    <3>. QED  BY <1>1, <3>1 DEF OnPath, Looks
  <2>. QED  BY <2>1, <2>2
<1>. QED
  BY <1>1, <1>3, <1>6, <1>7, <1>8, <1>9, <1>10, <1>11, <1>12, <1>13 DEF Backing

(* A command is taken back by one step, and looks as before it.            *)
LEMMA Backward ==
  ASSUME EP!IInv, Typed, Reserved, Progressing, Moving, Marked,
         NEW path, NEW known, OnPath(path, known),
         NEW cmd, NEW finishes, Flight(cmd, finishes), ~Redoing,
         EP!IInv', DOMAIN indirectors \subseteq DOMAIN indirectors',
         active' => active /\ cmd.kind # "delete",
         NEW e, e = Steps(InFlight) - progress,
         \A i \in 1..Len(cmd.entries) :
           /\ cmd.entries[i].source = InFlight.entries[i].source
           /\ i # e => /\ cmd.entries[i].id = InFlight.entries[i].id
                       /\ cmd.entries[i].real_index = InFlight.entries[i].real_index
           /\ ~Creates(cmd) => cmd.entries[i].id = InFlight.entries[i].id
           /\ cmd.kind # "move" => cmd.entries[i].content = InFlight.entries[i].content,
         NEW a, NEW b, a = path[Place][e - 1], b = path[Place][e],
         Links(cmd, e, a, b, FALSE), EP!Whole' = a,
         Agree(World', images[Place]),
         ~finishes => Agree(World', images[Place + 1])
  PROVE  EInv'
<1>1. Visible' /\ ~Arrived
  BY Seen, PTL DEF Flight
<1>c. PICK c : c = Place
  OBVIOUS
<1>2. /\ c \in 1..Len(images) /\ c + 1 \in 1..Len(images)
      /\ DOMAIN images[c] = EP!Lives(path[c][0])
      /\ Steps(InFlight) \in Nat /\ e \in 1..Steps(InFlight)
  BY <1>1, <1>c, KnownBack DEF Backing
<1>3. e = Steps(cmd) - progress /\ (finishes <=> progress + 1 = Steps(InFlight))
      /\ progress \in Nat
  BY DEF Flight, Steps, Typed
<1>4. finishes => World' = images[c]
  <2>1. SUFFICES ASSUME finishes PROVE World' = images[c]
    OBVIOUS
  <2>2. e - 1 = 0
    BY <1>2, <1>3, <2>1
  <2>3. DOMAIN World' = DOMAIN images[c]
    BY <1>1, <1>2, <1>c, <2>2 DEF Visible
  <2>4. World' \in Tables /\ images[c] \in Tables
    BY <1>1, <1>2, Lists DEF Visible, Listed
  <2>. QED  BY <1>c, <2>3, <2>4 DEF Agree, Tables
<1>5. Recording(known)' /\ Chained(path, known)' /\ Standing(path)'
  <2>1. \A i \in 1..Len(cmd.entries) :
           /\ cmd.entries[i].source = InFlight.entries[i].source
           /\ i # e => /\ cmd.entries[i].id = InFlight.entries[i].id
                       /\ cmd.entries[i].real_index = InFlight.entries[i].real_index
           /\ ~Creates(cmd) => cmd.entries[i].id = InFlight.entries[i].id
    OBVIOUS
  <2>2. /\ EP!IInv /\ Typed /\ Progressing /\ OnPath(path, known)
        /\ Flight(cmd, finishes) /\ ~Redoing
        /\ a = path[Place][e - 1] /\ b = path[Place][e]
        /\ Links(cmd, e, a, b, FALSE) /\ EP!Whole' = a
    OBVIOUS
  <2>. QED  BY ONLY <1>1, <1>3, <2>1, <2>2, StepsBack
<1>6. Pictured(path)' /\ Looks(path)'
  <2>1. \A i \in 1..Len(cmd.entries) :
           /\ cmd.entries[i].source = InFlight.entries[i].source
           /\ ~Creates(cmd) => cmd.entries[i].id = InFlight.entries[i].id
           /\ cmd.kind # "move" => cmd.entries[i].content = InFlight.entries[i].content
    OBVIOUS
  <2>2. /\ ~finishes => Agree(World', images[Place]) /\ Agree(World', images[Place + 1])
        /\ finishes => World' = images[Place]
    BY <1>4, <1>c
  <2>. QED  BY <1>1, <2>1, <2>2, PicturesBack DEF OnPath
<1>7. OnPath(path, known)'
  BY <1>5, <1>6 DEF OnPath
<1>8. cmd.kind = "delete" => \A i \in 1..Len(cmd.entries) :
                               cmd.entries[i].id = InFlight.entries[i].id
  BY DEF Creates
<1>. QED  BY <1>1, <1>7, <1>8, Lands DEF OnPath

(* Moving back. *)
LEMMA UndoMoveKeeps == ASSUME EInv, UndoMove PROVE EInv'
<1>1. PICK path, known : OnPath(path, known)
  BY DEF EInv
<1>b. PICK before : before = [i \in DOMAIN InFlight.entries |-> InFlight.entries[i].content]
  OBVIOUS
<1>2. /\ EP!IInv /\ Typed /\ Reserved /\ Progressing /\ Moving /\ Marked
      /\ Undoing /\ InFlight.kind = "move" /\ AllAlive(InFlight) /\ Through(TRUE)
      /\ objects' = Replaced(InFlight, before)
      /\ UNCHANGED <<slots, indirectors, free_indirectors>> /\ active' = active
      /\ commands' = [commands EXCEPT ![current_revision].entries =
                        [i \in DOMAIN @ |-> [@[i] EXCEPT !.content = 0]]]
  <2>1. /\ EP!IInv /\ Typed /\ Reserved /\ Progressing /\ Moving /\ Marked
    BY DEF EInv
  <2>2. /\ Undoing /\ InFlight.kind = "move" /\ AllAlive(InFlight) /\ Through(TRUE)
        /\ UNCHANGED <<slots, indirectors, free_indirectors>> /\ active' = active
    BY DEF UndoMove
  <2>3. objects' = Replaced(InFlight, before)
    BY <1>b DEF UndoMove
  <2>4. commands' = [commands EXCEPT ![current_revision].entries =
                       [i \in DOMAIN @ |-> [@[i] EXCEPT !.content = 0]]]
    BY DEF UndoMove
  <2>. QED  BY <2>1, <2>2, <2>3, <2>4
<1>3. Visible /\ ~Arrived /\ ~Redoing /\ ~Creates(InFlight)
  <2>1. Listed
    BY <1>2, Lists
  <2>. QED  BY <1>2, <2>1, Seen DEF Undoing, Redoing, Arrived, Listed, Creates
<1>c. PICK c : c = Place
  OBVIOUS
<1>e. PICK e : e = Steps(InFlight) - progress
  OBVIOUS
<1>4. /\ c = current_revision /\ c \in 1..Len(commands) /\ InFlight = commands[c]
      /\ EP!Whole = path[c][e]
      /\ Links(InFlight, e, path[c][e - 1], EP!Whole, TRUE)
      /\ Fits(InFlight, path[c], Steps(InFlight))
      /\ DOMAIN images[c] = EP!Lives(path[c][0])
      /\ Shown(InFlight, path[c], images[c], images[c + 1])
      /\ Holds(InFlight, images[c])
      /\ progress = 0 => World = images[c + 1]
  <2>1. Typed /\ Progressing /\ OnPath(path, known) /\ ~Redoing /\ ~Arrived
    BY <1>1, <1>2, <1>3
  <2>2. InFlight.kind \in {"delete", "move"}
    BY <1>2
  <2>3. Backing(path, c, e)
    BY ONLY <2>1, <1>c, <1>e, KnownBack
  <2>. QED  BY <1>2, <2>2, <2>3 DEF Backing
<1>5. DOMAIN InFlight.entries = 1..Len(InFlight.entries)
  BY <1>2, <1>3, Airborne
<1>6. \A i \in 1..Len(InFlight.entries) :
        /\ InFlight.entries[i].id \in DOMAIN World
        /\ before[i] = images[c][InFlight.entries[i].id]
        /\ before[i] \in Positions
  <2>1. SUFFICES ASSUME NEW i \in 1..Len(InFlight.entries)
                 PROVE  /\ InFlight.entries[i].id \in DOMAIN World
                        /\ before[i] = images[c][InFlight.entries[i].id]
                        /\ before[i] \in Positions
    OBVIOUS
  <2>2. InFlight.entries[i].id \in DOMAIN World
    BY <1>2, <1>3, Mentioned
  <2>3. InFlight.entries[i] \in Entries
    BY <1>2, <1>3, Airborne
  <2>. QED  BY <1>4, <1>5, <1>b, <2>2, <2>3 DEF Holds, Entries
<1>z. PICK zero : zero = [i \in DOMAIN InFlight.entries |-> 0]
  OBVIOUS
<1>7. /\ progress = 0 /\ Steps(InFlight) = 1
      /\ \E cmd : /\ Flight(cmd, TRUE) /\ cmd.kind = "move"
                  /\ Len(cmd.entries) = Len(InFlight.entries)
                  /\ \A i \in 1..Len(cmd.entries) :
                       /\ cmd.entries[i].content = zero[i]
                       /\ cmd.entries[i].id = InFlight.entries[i].id
                       /\ cmd.entries[i].source = InFlight.entries[i].source
                       /\ cmd.entries[i].real_index = InFlight.entries[i].real_index
  <2>1. Reworded(zero)
    <3>1. \A i \in DOMAIN commands[Place].entries : zero[i] = 0
      BY <1>4, <1>c, <1>z
    <3>2. [i \in DOMAIN commands[Place].entries |->
             [commands[Place].entries[i] EXCEPT !.content = 0]] =
            [i \in DOMAIN commands[Place].entries |->
               [commands[Place].entries[i] EXCEPT !.content = zero[i]]]
      BY <3>1
    <3>3. commands' = [commands EXCEPT ![Place].entries =
                         [i \in DOMAIN commands[Place].entries |->
                            [commands[Place].entries[i] EXCEPT !.content = 0]]]
      BY <1>2, <1>4, <1>c
    <3>. QED  BY <3>2, <3>3 DEF Reworded
  <2>2. \A i \in 1..Len(InFlight.entries) : zero[i] \in Positions
    <3>1. 0 \in Positions
      BY PoolFits, EditorAssumption DEF Positions
    <3>. QED  BY <1>5, <1>z, <3>1
  <2>. QED  BY <1>2, <1>3, <2>1, <2>2, Rewords, ZenonT(40)
<1>8. PICK cmd : /\ Flight(cmd, TRUE) /\ cmd.kind = "move"
                 /\ Len(cmd.entries) = Len(InFlight.entries)
                 /\ \A i \in 1..Len(cmd.entries) :
                      /\ cmd.entries[i].content = zero[i]
                      /\ cmd.entries[i].id = InFlight.entries[i].id
                      /\ cmd.entries[i].source = InFlight.entries[i].source
                      /\ cmd.entries[i].real_index = InFlight.entries[i].real_index
  BY <1>7
<1>9. /\ EP!IInv' /\ DOMAIN indirectors \subseteq DOMAIN indirectors'
      /\ EP!Whole' = EP!Whole
      /\ DOMAIN World' = DOMAIN World
      /\ \A key \in DOMAIN World :
           World'[key] = IF Mentions(InFlight, key) THEN images[c][key] ELSE World[key]
  <2>1. PICK command, f : command = InFlight /\ f = images[c]
    OBVIOUS
  <2>2. \A i \in DOMAIN command.entries :
          /\ command.entries[i].id \in DOMAIN World
          /\ before[i] = f[command.entries[i].id] /\ before[i] \in Positions
    BY <1>5, <1>6, <2>1
  <2>3. objects' = Replaced(command, before)
    BY <1>2, <2>1
  <2>4. /\ EP!IInv' /\ DOMAIN indirectors \subseteq DOMAIN indirectors'
        /\ EP!Whole' = EP!Whole
        /\ DOMAIN World' = DOMAIN World
        /\ \A key \in DOMAIN World :
             World'[key] = IF \E i \in DOMAIN command.entries : command.entries[i].id = key
                           THEN f[key] ELSE World[key]
    BY <1>2, <2>2, <2>3, ReplaceSeen
  <2>5. \A key : Mentions(InFlight, key) <=>
                   \E i \in DOMAIN command.entries : command.entries[i].id = key
    BY <1>5, <2>1 DEF Mentions
  <2>. QED  BY <2>1, <2>4, <2>5
<1>10. e = 1 /\ e - 1 = 0
  BY <1>7, <1>e
<1>11. path[c][e - 1] = EP!Whole /\ EP!Sound(path[c][e - 1])
  BY <1>2, <1>4 DEF Links
<1>12. Agree(World', images[c])
  <2>1. SUFFICES ASSUME NEW key \in DOMAIN World', key \in DOMAIN images[c]
                 PROVE  World'[key] = images[c][key]
    BY DEF Agree
  <2>2. images[c + 1][key] = IF Mentions(InFlight, key) THEN Moved(images[c][key], InFlight.by)
                             ELSE images[c][key]
    BY <1>2, <1>4, <2>1 DEF Shown
  <2>3. World = images[c + 1]
    BY <1>4, <1>7
  <2>. QED  BY <1>9, <2>1, <2>2, <2>3
<1>13. Links(cmd, e, EP!Whole, EP!Whole, FALSE)
  BY <1>8, <1>11 DEF Links, Creates
<1>14. \A i \in 1..Len(cmd.entries) :
         /\ cmd.entries[i].source = InFlight.entries[i].source
         /\ i # e => /\ cmd.entries[i].id = InFlight.entries[i].id
                     /\ cmd.entries[i].real_index = InFlight.entries[i].real_index
         /\ ~Creates(cmd) => cmd.entries[i].id = InFlight.entries[i].id
         /\ cmd.kind # "move" => cmd.entries[i].content = InFlight.entries[i].content
  BY <1>8
<1>w. PICK a : a = EP!Whole
  OBVIOUS
<1>15. /\ a = path[Place][e - 1] /\ a = path[Place][e] /\ EP!Whole' = a
       /\ Links(cmd, e, a, a, FALSE) /\ Agree(World', images[Place])
       /\ active' => active /\ cmd.kind # "delete"
  BY <1>2, <1>4, <1>8, <1>9, <1>11, <1>12, <1>13, <1>c, <1>w
<1>. QED  BY ONLY <1>1, <1>2, <1>3, <1>8, <1>9, <1>14, <1>15, <1>e, Backward

(* Bringing back what was deleted. *)
LEMMA UndoDeletionKeeps == ASSUME EInv, UndoDeletion PROVE EInv'
<1>1. PICK path, known : OnPath(path, known)
  BY DEF EInv
<1>2. /\ EP!IInv /\ Typed /\ Reserved /\ Progressing /\ Moving /\ Marked
      /\ Undoing /\ InFlight.kind = "delete" /\ Through(Finishes) /\ ~active'
      /\ Entities!UndoFree(InHand.id.indirection_index, InHand.real_index, InHand.content)
      /\ UNCHANGED commands
  BY DEF EInv, UndoDeletion
<1>3. Visible /\ ~Arrived /\ ~Redoing /\ ~Creates(InFlight) /\ InFlight.kind # "move"
  <2>1. Listed
    BY <1>2, Lists
  <2>. QED  BY <1>2, <2>1, Seen DEF Undoing, Redoing, Arrived, Listed, Creates
<1>c. PICK c : c = Place
  OBVIOUS
<1>e. PICK e : e = Steps(InFlight) - progress
  OBVIOUS
<1>f. PICK finishes : finishes = Finishes
  OBVIOUS
<1>y. PICK key, a : key = InHand.id /\ a = path[c][e - 1]
  OBVIOUS
<1>4. /\ c = current_revision /\ c \in 1..Len(commands) /\ InFlight = commands[c]
      /\ Steps(InFlight) \in Nat /\ e \in 1..Steps(InFlight) /\ e - 1 \in 0..Steps(InFlight)
      /\ EP!Whole = path[c][e]
      /\ Links(InFlight, e, path[c][e - 1], EP!Whole, TRUE)
      /\ Fits(InFlight, path[c], Steps(InFlight))
      /\ DOMAIN images[c] = EP!Lives(path[c][0])
      /\ DOMAIN images[c + 1] = EP!Lives(path[c][Steps(InFlight)])
      /\ Holds(InFlight, images[c])
      /\ Agree(World, images[c]) /\ Agree(World, images[c + 1])
  <2>1. Typed /\ Progressing /\ OnPath(path, known) /\ ~Redoing /\ ~Arrived
    BY <1>1, <1>2, <1>3
  <2>2. InFlight.kind \in {"delete", "move"}
    BY <1>2
  <2>3. Backing(path, c, e)
    BY ONLY <2>1, <1>c, <1>e, KnownBack
  <2>. QED  BY <1>2, <2>2, <2>3 DEF Backing
<1>5. /\ e \in 1..Len(InFlight.entries) /\ InHand = InFlight.entries[e]
      /\ Steps(InFlight) = Len(InFlight.entries) /\ InHand \in Entries
  BY <1>2, <1>3, <1>e, Airborne
<1>6. /\ EP!Sound(a) /\ key \in EP!Lives(a) /\ EP!Whole = EP!Freed(a, key.indirection_index)
      /\ InHand.real_index = a.indirectors[key.indirection_index].real_index
  BY <1>2, <1>4, <1>5, <1>y DEF Links
<1>7. key.indirection_index \in DOMAIN indirectors /\ InHand.content \in Positions
      /\ InHand.content = images[c][key]
  BY <1>2, <1>4, <1>5, <1>y DEF Reserved, Holds, Entries
<1>8. /\ EP!IInv' /\ DOMAIN indirectors \subseteq DOMAIN indirectors'
      /\ EP!Whole' = a
      /\ key \notin DOMAIN World
      /\ DOMAIN World' = DOMAIN World \cup {key}
      /\ \A other \in DOMAIN World : World'[other] = World[other]
      /\ World'[key] = images[c][key]
  <2>1. PICK o : o = InHand.content
    OBVIOUS
  <2>2. Entities!UndoFree(key.indirection_index,
                          a.indirectors[key.indirection_index].real_index, o)
    BY <1>2, <1>6, <1>y, <2>1
  <2>3. o \in Positions
    BY <1>7, <2>1
  <2>4. /\ EP!IInv' /\ DOMAIN indirectors \subseteq DOMAIN indirectors'
        /\ EP!Whole' = a
        /\ key \notin DOMAIN World
        /\ DOMAIN World' = DOMAIN World \cup {key}
        /\ \A other \in DOMAIN World : World'[other] = World[other]
        /\ World'[key] = o
    BY <1>2, <1>6, <1>7, <2>2, <2>3, RestoreSeen
  <2>. QED  BY <1>7, <2>1, <2>4
<1>9. Agree(World', images[c])
  BY <1>4, <1>8 DEF Agree
<1>10. Agree(World', images[c + 1])
  <2>1. key \notin DOMAIN images[c + 1]
    <3>1. key \in EP!Keys
      BY <1>6 DEF EP!Lives
    <3>2. Steps(InFlight) \in 0..Steps(InFlight) /\ e \in 1..Steps(InFlight)
      BY <1>4
    <3>3. PICK n, entries, row : n = Steps(InFlight) /\ entries = InFlight.entries /\ row = path[c]
      OBVIOUS
    <3>4. \A f \in 0..n, other \in EP!Keys :
            other \in EP!Lives(row[f]) <=>
              other \in EP!Lives(row[0]) /\ \A i \in 1..f : entries[i].id # other
      BY <1>2, <1>4, <3>3 DEF Fits
    <3>5. entries[e].id = key
      BY <1>5, <1>y, <3>3
    <3>6. DOMAIN images[c + 1] = EP!Lives(row[n])
      BY <1>4, <3>3
    <3>7. n \in 0..n /\ e \in 1..n
      BY <3>2, <3>3
    <3>. QED  BY ONLY <3>1, <3>4, <3>5, <3>6, <3>7
  <2>. QED  BY <1>4, <1>8, <2>1 DEF Agree
<1>g. PICK cmd : cmd = InFlight
  OBVIOUS
<1>11. Flight(cmd, finishes)
  BY <1>2, <1>3, <1>f, <1>g, Keeps
<1>b. PICK b : b = path[c][e]
  OBVIOUS
<1>12. Links(cmd, e, a, b, FALSE)
  <2>1. Links(InFlight, e, a, b, TRUE)
    BY <1>4, <1>b, <1>y
  <2>. QED  BY <1>g, <2>1, <1>2, <1>3 DEF Links
<1>13. /\ a = path[Place][e - 1] /\ b = path[Place][e] /\ Agree(World', images[Place])
       /\ Agree(World', images[Place + 1])
       /\ active' => active /\ cmd.kind # "delete"
  BY <1>2, <1>9, <1>10, <1>b, <1>c, <1>y
<1>14. \A i \in 1..Len(cmd.entries) :
         /\ cmd.entries[i].source = InFlight.entries[i].source
         /\ i # e => /\ cmd.entries[i].id = InFlight.entries[i].id
                     /\ cmd.entries[i].real_index = InFlight.entries[i].real_index
         /\ ~Creates(cmd) => cmd.entries[i].id = InFlight.entries[i].id
         /\ cmd.kind # "move" => cmd.entries[i].content = InFlight.entries[i].content
  BY <1>g
<1>. QED  BY ONLY <1>1, <1>2, <1>3, <1>8, <1>11, <1>12, <1>13, <1>14, <1>e, Backward

(* Taking a creation back, unless there was no room for it.                *)
LEMMA UndoCreationKeeps == ASSUME EInv, UndoCreation PROVE EInv'
<1>1. PICK path, known : OnPath(path, known)
  BY DEF EInv
<1>2. /\ EP!IInv /\ Typed /\ Reserved /\ Progressing /\ Moving /\ Marked
      /\ Undoing /\ Creates(InFlight) /\ Through(Finishes)
      /\ \/ Entities!UndoLastAllocate(InHand.id)
         \/ ~Alive(InHand.id) /\ UNCHANGED pool
      /\ \/ /\ InFlight.kind = "create"
            /\ Remember([InHand EXCEPT !.id = NoId])
            /\ UNCHANGED active
         \/ /\ InFlight.kind = "duplicate"
            /\ active' = FALSE
            /\ UNCHANGED commands
  BY DEF EInv, UndoCreation, Creates
<1>3. Visible /\ ~Arrived /\ ~Redoing /\ InFlight.kind # "move" /\ InFlight.kind # "delete"
  <2>1. Listed
    BY <1>2, Lists
  <2>. QED  BY <1>2, <2>1, Seen DEF Undoing, Redoing, Arrived, Listed, Creates
<1>c. PICK c : c = Place
  OBVIOUS
<1>e. PICK e : e = Steps(InFlight) - progress
  OBVIOUS
<1>f. PICK finishes : finishes = Finishes
  OBVIOUS
<1>y. PICK key, a, b : key = InHand.id /\ a = path[c][e - 1] /\ b = path[c][e]
  OBVIOUS
<1>4. /\ EP!Whole = b
      /\ Links(InFlight, e, a, b, TRUE)
      /\ Agree(World, images[c]) /\ Agree(World, images[c + 1])
  <2>1. Typed /\ Progressing /\ OnPath(path, known) /\ ~Redoing /\ ~Arrived
    BY <1>1, <1>2, <1>3
  <2>2. Backing(path, c, e)
    BY ONLY <2>1, <1>c, <1>e, KnownBack
  <2>. QED  BY <1>3, <1>y, <2>2 DEF Backing
<1>5. /\ e \in 1..Len(InFlight.entries) /\ InHand = InFlight.entries[e] /\ Entering = e
      /\ InHand \in Entries
  BY <1>2, <1>3, <1>e, Airborne
<1>6. /\ EP!IInv' /\ DOMAIN indirectors \subseteq DOMAIN indirectors'
      /\ EP!Whole' = a
      /\ \A other \in DOMAIN World' : other \in DOMAIN World /\ World'[other] = World[other]
  <2>1. CASE Len(a.slots) = MaxSize
    <3>1. b = a /\ key = NoId
      BY <1>2, <1>4, <1>5, <1>y, <2>1 DEF Links
    <3>2. ~Alive(key)
      BY <1>3, <3>1 DEF Visible
    <3>3. UNCHANGED pool
      BY <1>2, <1>y, <3>2 DEF Alive, Entities!UndoLastAllocate
    <3>4. /\ EP!Whole' = EP!Whole /\ World' = World /\ EP!IInv'
          /\ DOMAIN indirectors' = DOMAIN indirectors
      BY <1>2, <3>3, Unseen
    <3>. QED  BY <1>4, <3>1, <3>4
  <2>2. CASE Len(a.slots) # MaxSize
    <3>1. EP!Sound(a) /\ EP!Whole = EP!Allocated(a) /\ key = EP!Newest(EP!Allocated(a))
      BY <1>2, <1>4, <1>5, <1>y, <2>2 DEF Links
    <3>2. Alive(key)
      <4>1. EP!Newest(b) \in EP!Lives(b)
        <5>1. PICK d, command : d = TRUE /\ command = InFlight
          OBVIOUS
        <5>2. Links(command, e, a, b, d) /\ Creates(command)
          BY <1>2, <1>4, <5>1
        <5>. QED  BY <2>2, <5>2, LinksLives
      <4>. QED  BY <1>3, <1>4, <3>1, <4>1 DEF Visible
    <3>3. Entities!UndoLastAllocate(key)
      BY <1>2, <1>y, <3>2
    <3>4. /\ EP!IInv' /\ DOMAIN indirectors \subseteq DOMAIN indirectors'
          /\ EP!Whole' = a
          /\ DOMAIN World' = DOMAIN World \ {key}
          /\ \A other \in DOMAIN World' : World'[other] = World[other]
      BY <1>2, <2>2, <3>1, <3>3, TakeBackSeen
    <3>. QED  BY <3>4
  <2>. QED  BY <2>1, <2>2
<1>7. Agree(World', images[c]) /\ Agree(World', images[c + 1])
  BY <1>4, <1>6 DEF Agree
<1>8. PICK cmd : /\ Flight(cmd, finishes) /\ cmd.kind = InFlight.kind
                 /\ Len(cmd.entries) = Len(InFlight.entries)
                 /\ \A i \in 1..Len(cmd.entries) :
                      /\ cmd.entries[i].source = InFlight.entries[i].source
                      /\ cmd.entries[i].content = InFlight.entries[i].content
                      /\ i # e => cmd.entries[i] = InFlight.entries[i]
                 /\ active' => active
                 /\ cmd.kind = "create" => cmd.entries[e].id = NoId
                 /\ cmd.kind = "duplicate" => cmd = InFlight
  <2>1. CASE InFlight.kind = "create"
    <3>1. PICK entry : entry = [InHand EXCEPT !.id = NoId]
      OBVIOUS
    <3>2. /\ entry \in Entries /\ entry.id = NoId /\ entry.source = InHand.source
          /\ entry.content = InHand.content
      BY <1>5, <3>1 DEF Entries, Ids
    <3>3. Remember(entry) /\ active' = active
      BY <1>2, <2>1, <3>1
    <3>4. PICK cmd : /\ Flight(cmd, finishes) /\ cmd.kind = InFlight.kind
                     /\ Len(cmd.entries) = Len(InFlight.entries)
                     /\ \A i \in 1..Len(cmd.entries) :
                          cmd.entries[i] = IF i = Entering THEN entry ELSE InFlight.entries[i]
      BY <1>2, <1>3, <1>f, <3>2, <3>3, Rewrites
    <3>5. \A i \in 1..Len(cmd.entries) :
            /\ cmd.entries[i].source = InFlight.entries[i].source
            /\ cmd.entries[i].content = InFlight.entries[i].content
            /\ i # e => cmd.entries[i] = InFlight.entries[i]
      BY <1>5, <3>2, <3>4
    <3>6. cmd.entries[e].id = NoId
      BY <1>5, <3>2, <3>4
    <3>. QED  BY <2>1, <3>3, <3>4, <3>5, <3>6
  <2>2. CASE InFlight.kind = "duplicate"
    <3>1. PICK cmd : cmd = InFlight
      OBVIOUS
    <3>2. Flight(cmd, finishes)
      BY <1>2, <1>3, <1>f, <2>2, <3>1, Keeps
    <3>3. ~active'
      BY <1>2, <2>2
    <3>. QED  BY <2>2, <3>1, <3>2, <3>3
  <2>. QED  BY <1>2, <2>1, <2>2 DEF Creates
<1>9. Links(cmd, e, a, b, FALSE)
  <2>1. CASE InFlight.kind = "duplicate"
    BY <1>4, <1>8, <2>1 DEF Links, Creates
  <2>2. CASE InFlight.kind = "create"
    BY <1>4, <1>8, <2>2 DEF Links, Creates
  <2>. QED  BY <1>2, <2>1, <2>2 DEF Creates
<1>10. /\ a = path[Place][e - 1] /\ b = path[Place][e] /\ Agree(World', images[Place])
       /\ Agree(World', images[Place + 1])
       /\ active' => active /\ cmd.kind # "delete"
  BY <1>3, <1>7, <1>8, <1>c, <1>y
<1>11. \A i \in 1..Len(cmd.entries) :
         /\ cmd.entries[i].source = InFlight.entries[i].source
         /\ i # e => /\ cmd.entries[i].id = InFlight.entries[i].id
                     /\ cmd.entries[i].real_index = InFlight.entries[i].real_index
         /\ ~Creates(cmd) => cmd.entries[i].id = InFlight.entries[i].id
         /\ cmd.kind # "move" => cmd.entries[i].content = InFlight.entries[i].content
  BY <1>2, <1>8 DEF Creates
<1>. QED  BY ONLY <1>1, <1>2, <1>3, <1>6, <1>8, <1>9, <1>10, <1>11, <1>e, Backward

-----------------------------------------------------------------------------
(* New commands. *)
LEMMA NewCommand ==
  ASSUME NEW kind \in Kinds, NEW n \in Nat \ {0}, NEW entries \in [1..n -> Entries],
         NEW by \in Positions, NEW has_parent \in BOOLEAN,
         NEW command, command = Command(kind, entries, by, has_parent)
  PROVE  /\ command \in Commands /\ command.kind = kind /\ command.entries = entries
         /\ Len(command.entries) = n
<1>1. entries \in Seq(Entries) /\ Len(entries) = n
  BY EP!FunctionIsSeq
<1>. QED  BY <1>1 DEF Command, Commands

(* An entry of a command that has not been done. *)
LEMMA NewEntry ==
  ASSUME NEW id \in Ids, NEW source \in Ids, NEW content \in Positions
  PROVE  /\ Entry(id, source, content) \in Entries
         /\ Entry(id, source, content).id = id
         /\ Entry(id, source, content).source = source
         /\ Entry(id, source, content).content = content
  BY DEF Entry, Entries

(* What is selected lives, and nothing is selected twice. *)
LEMMA Selected ==
  ASSUME Visible, NEW selected \in Selections
  PROVE  \E n \in Nat \ {0} :
           /\ DOMAIN selected = 1..n
           /\ \A i \in 1..n : /\ selected[i] \in DOMAIN World /\ selected[i] \in Ids
                              /\ Entities!Deref(selected[i]) = World[selected[i]]
                              /\ World[selected[i]] \in Positions
           /\ \A i, j \in 1..n : selected[i] = selected[j] => i = j
<1>1. PICK n \in 1..MaxSelected :
        selected \in {s \in [1..n -> Entities!LiveIds] :
                        \A i, j \in 1..n : s[i] = s[j] => i = j}
  BY DEF Selections
<1>2. n \in Nat \ {0}
  BY <1>1, EditorAssumption
<1>3. \A i \in 1..n : /\ selected[i] \in DOMAIN World /\ selected[i] \in Ids
                      /\ Entities!Deref(selected[i]) = World[selected[i]]
                      /\ World[selected[i]] \in Positions
  BY <1>1 DEF Visible, Ids
<1>. QED  BY <1>1, <1>2, <1>3

(* execute_new() of a command made for the world as it is.                 *)
Apt(command) ==
  /\ command \in Commands /\ Len(command.entries) > 0
  /\ \A e \in 1..Len(command.entries) :
       /\ Creates(command) => command.entries[e].id = NoId
       /\ command.kind = "duplicate" => command.entries[e].source \in DOMAIN World
       /\ command.kind \in {"delete", "move"} => command.entries[e].id \in DOMAIN World
       /\ command.kind = "delete" => command.entries[e].content = World[command.entries[e].id]
  /\ command.kind = "delete" =>
       \A e, f \in 1..Len(command.entries) :
         command.entries[e].id = command.entries[f].id => e = f

(* It keeps the invariant. *)
LEMMA Executes ==
  ASSUME EInv, Arrived, NEW command, Apt(command), ExecuteNew(command)
  PROVE  EInv'
<1>1. PICK path, known : OnPath(path, known)
  BY DEF EInv
<1>2. EP!IInv /\ Typed /\ Reserved /\ Progressing /\ Marked
  BY DEF EInv
<1>3. /\ command \in Commands /\ Len(command.entries) > 0
      /\ \A e \in 1..Len(command.entries) :
           /\ Creates(command) => command.entries[e].id = NoId
           /\ command.kind = "duplicate" => command.entries[e].source \in DOMAIN World
           /\ command.kind \in {"delete", "move"} => command.entries[e].id \in DOMAIN World
           /\ command.kind = "delete" => command.entries[e].content = World[command.entries[e].id]
      /\ command.kind = "delete" =>
           \A e, f \in 1..Len(command.entries) :
             command.entries[e].id = command.entries[f].id => e = f
  BY DEF Apt
<1>. QED  BY <1>1, <1>2, <1>3, ExecutesNew

(* A flavour is dropped, entities are duplicated, deleted or moved.        *)
LEMMA InstantiateKeeps ==
  ASSUME EInv, NEW where \in Positions, Instantiate(where) PROVE EInv'
<1>. DEFINE entries == <<Entry(NoId, NoId, where)>>
<1>. PICK by : by = 0
  OBVIOUS
<1>. PICK has_parent \in BOOLEAN : has_parent = FALSE
  OBVIOUS
<1>1. PICK command : command = Command("create", entries, by, has_parent)
  OBVIOUS
<1>2. ExecuteNew(command) /\ Arrived
  BY <1>1 DEF Instantiate, Quiet
<1>3. NoId \in Ids
  BY DEF Ids
<1>4. by \in Positions /\ "create" \in Kinds 
  BY EditorAssumption DEF Positions, Kinds
<1>5. Entry(NoId, NoId, where) \in Entries /\ Entry(NoId, NoId, where).id = NoId
  BY <1>3, NewEntry
<1>6. PICK one \in Nat \ {0} : one = 1
  OBVIOUS
<1>7. entries \in [1..one -> Entries] /\ entries[1].id = NoId
  BY <1>5, <1>6
<1>. HIDE DEF entries
<1>8. command \in Commands /\ command.kind = "create" /\ command.entries = entries
      /\ Len(command.entries) = one
  BY ONLY <1>1, <1>4, <1>7, NewCommand, has_parent \in BOOLEAN, one \in Nat \ {0}
<1>9. Apt(command)
  BY <1>6, <1>7, <1>8 DEF Apt, Creates
<1>. QED  BY <1>2, <1>9, Executes

(* Duplicates are made of what lives. *)
LEMMA DuplicateKeeps ==
  ASSUME EInv, NEW selected \in Selections, NEW by \in Positions, Duplicate(selected, by)
  PROVE  EInv'
<1>. DEFINE entries == [i \in DOMAIN selected |-> Entry(NoId, selected[i], 0)]
<1>. PICK has_parent \in BOOLEAN : has_parent = FALSE
  OBVIOUS
<1>1. PICK command : command = Command("duplicate", entries, by, has_parent)
  OBVIOUS
<1>2. ExecuteNew(command) /\ Arrived
  BY <1>1 DEF Duplicate, Quiet
<1>3. Visible
  BY Seen DEF EInv
<1>4. PICK n \in Nat \ {0} :
        /\ DOMAIN selected = 1..n
        /\ \A i \in 1..n : selected[i] \in DOMAIN World /\ selected[i] \in Ids
  BY <1>3, Selected
<1>5. 0 \in Positions /\ NoId \in Ids /\ "duplicate" \in Kinds 
  BY EditorAssumption DEF Positions, Kinds, Ids
<1>6. \A i \in 1..n : /\ Entry(NoId, selected[i], 0) \in Entries
                      /\ Entry(NoId, selected[i], 0).id = NoId
                      /\ Entry(NoId, selected[i], 0).source = selected[i]
  <2>. SUFFICES ASSUME NEW i \in 1..n
       PROVE  /\ Entry(NoId, selected[i], 0) \in Entries
              /\ Entry(NoId, selected[i], 0).id = NoId
              /\ Entry(NoId, selected[i], 0).source = selected[i]
    OBVIOUS
  <2>1. PICK source : source = selected[i] /\ source \in Ids
    BY <1>4
  <2>. QED  BY ONLY <2>1, <1>5, NewEntry
<1>7. entries \in [1..n -> Entries]
      /\ \A i \in 1..n : entries[i].id = NoId /\ entries[i].source \in DOMAIN World
  BY <1>4, <1>6
<1>. HIDE DEF entries
<1>8. command \in Commands /\ command.kind = "duplicate" /\ command.entries = entries
      /\ Len(command.entries) = n
  BY ONLY <1>1, <1>5, <1>7, NewCommand, has_parent \in BOOLEAN, n \in Nat \ {0}, by \in Positions
<1>9. Apt(command)
  BY <1>7, <1>8 DEF Apt, Creates
<1>. QED  BY <1>2, <1>9, Executes

(* What is deleted is remembered as it is. *)
LEMMA DeleteKeeps ==
  ASSUME EInv, NEW selected \in Selections, Delete(selected) PROVE EInv'
<1>. DEFINE entries == [i \in DOMAIN selected |->
                          Entry(selected[i], NoId, Entities!Deref(selected[i]))]
<1>. PICK by : by = 0
  OBVIOUS
<1>. PICK has_parent \in BOOLEAN : has_parent = FALSE
  OBVIOUS
<1>1. PICK command : command = Command("delete", entries, by, has_parent)
  OBVIOUS
<1>2. ExecuteNew(command) /\ Arrived
  BY <1>1 DEF Delete, Quiet
<1>3. Visible
  BY Seen DEF EInv
<1>4. PICK n \in Nat \ {0} :
        /\ DOMAIN selected = 1..n
        /\ \A i \in 1..n : /\ selected[i] \in DOMAIN World /\ selected[i] \in Ids
                           /\ Entities!Deref(selected[i]) = World[selected[i]]
                           /\ World[selected[i]] \in Positions
        /\ \A i, j \in 1..n : selected[i] = selected[j] => i = j
  BY <1>3, Selected
<1>5. by \in Positions /\ NoId \in Ids /\ "delete" \in Kinds 
  BY EditorAssumption DEF Positions, Kinds, Ids
<1>6. \A i \in 1..n :
        /\ Entry(selected[i], NoId, Entities!Deref(selected[i])) \in Entries
        /\ Entry(selected[i], NoId, Entities!Deref(selected[i])).id = selected[i]
        /\ Entry(selected[i], NoId, Entities!Deref(selected[i])).content = World[selected[i]]
  <2>. SUFFICES ASSUME NEW i \in 1..n
       PROVE  /\ Entry(selected[i], NoId, Entities!Deref(selected[i])) \in Entries
              /\ Entry(selected[i], NoId, Entities!Deref(selected[i])).id = selected[i]
              /\ Entry(selected[i], NoId, Entities!Deref(selected[i])).content
                   = World[selected[i]]
    OBVIOUS
  <2>1. PICK id, content : /\ id = selected[i] /\ id \in Ids
                           /\ content = Entities!Deref(selected[i])
                           /\ content = World[selected[i]] /\ content \in Positions
    BY <1>4
  <2>. QED  BY ONLY <2>1, <1>5, NewEntry
<1>7. entries \in [1..n -> Entries]
      /\ \A i \in 1..n : entries[i].id = selected[i] /\ entries[i].content = World[selected[i]]
  BY <1>4, <1>6
<1>. HIDE DEF entries
<1>8. command \in Commands /\ command.kind = "delete" /\ command.entries = entries
      /\ Len(command.entries) = n
  BY ONLY <1>1, <1>5, <1>7, NewCommand, has_parent \in BOOLEAN, n \in Nat \ {0}
<1>9. Apt(command)
  BY <1>4, <1>7, <1>8 DEF Apt, Creates
<1>. QED  BY <1>2, <1>9, Executes

(* What is moved lives. *)
LEMMA MoveKeeps ==
  ASSUME EInv, Arrived, NEW n \in Nat \ {0}, NEW selected, DOMAIN selected = 1..n,
         \A i \in 1..n : selected[i] \in DOMAIN World /\ selected[i] \in Ids,
         NEW by \in Positions, NEW has_parent \in BOOLEAN, Move(selected, by, has_parent)
  PROVE  EInv'
<1>. DEFINE entries == [i \in DOMAIN selected |-> Entry(selected[i], NoId, 0)]
<1>1. PICK command : command = Command("move", entries, by, has_parent)
  OBVIOUS
<1>2. ExecuteNew(command)
  BY <1>1 DEF Move
<1>3. 0 \in Positions /\ "move" \in Kinds
  BY EditorAssumption DEF Positions, Kinds
<1>4. \A i \in 1..n : /\ Entry(selected[i], NoId, 0) \in Entries
                      /\ Entry(selected[i], NoId, 0).id = selected[i]
  <2>1. SUFFICES ASSUME NEW i \in 1..n
                 PROVE  /\ Entry(selected[i], NoId, 0) \in Entries
                        /\ Entry(selected[i], NoId, 0).id = selected[i]
    OBVIOUS
  <2>2. PICK id : id = selected[i]
    OBVIOUS
  <2>3. id \in Ids /\ NoId \in Ids
    BY <2>2 DEF Ids
  <2>4. Entry(id, NoId, 0) \in Entries /\ Entry(id, NoId, 0).id = id
    BY ONLY <1>3, <2>3, NewEntry
  <2>. QED  BY <2>2, <2>4
<1>5. entries \in [1..n -> Entries] /\ \A i \in 1..n : entries[i].id \in DOMAIN World
  BY <1>4
<1>. HIDE DEF entries
<1>6. command \in Commands /\ command.kind = "move" /\ command.entries = entries
      /\ Len(command.entries) = n
  BY <1>1, <1>3, <1>5, NewCommand
<1>7. Apt(command)
  BY <1>5, <1>6 DEF Apt, Creates
<1>. QED  BY <1>2, <1>7, Executes

(* A move with the mouse begins. *)
LEMMA StartMovingKeeps ==
  ASSUME EInv, NEW selected \in Selections, StartMoving(selected) PROVE EInv'
<1>1. Visible
  BY Seen DEF EInv
<1>2. PICK n \in Nat \ {0} :
        /\ DOMAIN selected = 1..n
        /\ \A i \in 1..n : selected[i] \in DOMAIN World /\ selected[i] \in Ids
  BY <1>1, Selected
<1>3. 0 \in Positions /\ FALSE \in BOOLEAN
  BY EditorAssumption DEF Positions
<1>4. Move(selected, 0, FALSE) /\ Arrived
  BY DEF StartMoving, Quiet
<1>. QED  BY <1>2, <1>3, <1>4, MoveKeeps

(* The selection is turned or nudged once. *)
LEMMA MoveOnceKeeps ==
  ASSUME EInv, NEW selected \in Selections, NEW by \in Positions, MoveOnce(selected, by)
  PROVE  EInv'
<1>1. Visible
  BY Seen DEF EInv
<1>2. PICK n \in Nat \ {0} :
        /\ DOMAIN selected = 1..n
        /\ \A i \in 1..n : selected[i] \in DOMAIN World /\ selected[i] \in Ids
  BY <1>1, Selected
<1>3. Move(selected, by, FALSE) /\ Arrived /\ FALSE \in BOOLEAN
  BY DEF MoveOnce, Quiet
<1>. QED  BY <1>2, <1>3, MoveKeeps


-----------------------------------------------------------------------------
(* The actions that leave the pool alone.                                  *)
LEMMA MarksStay ==
  ASSUME Marked, UNCHANGED <<pool, marks, images>>, commands' = <<>> => commands = <<>>
  PROVE  Marked'
<1>1. World' = World
  BY Unseen
<1>. QED  BY <1>1 DEF Marked, marks

(* A seek begins or the mover stops. *)
LEMMA TurnsAround ==
  ASSUME EInv, Quiet, UNCHANGED <<pool, commands, current_revision, progress, marks, images>>,
         target_revision' \in 0..Len(commands), active' => active
  PROVE  EInv'
<1>1. PICK path, known : OnPath(path, known)
  BY DEF EInv
<1>2. EP!IInv /\ Typed /\ Reserved /\ Progressing /\ Moving /\ Marked /\ Arrived
  BY DEF EInv, Quiet
<1>3. Marked'
  BY <1>2, MarksStay
<1>4. /\ UNCHANGED <<pool, current_revision, progress, images>>
      /\ commands' \in Seq(Commands) /\ Len(commands') = Len(commands)
      /\ \A c \in 1..Len(commands) :
           /\ commands'[c].kind = commands[c].kind /\ commands'[c].by = commands[c].by
           /\ commands'[c].entries = commands[c].entries
      /\ saved_at_revision' \in Nat \cup {NeverSaved}
  BY <1>2 DEF Typed, marks
<1>. QED  BY <1>1, <1>2, <1>3, <1>4, StaysPut

(* The keys for undo and redo, and a click into the history window. *)
LEMMA SeekKeeps ==
  ASSUME EInv, Undo \/ Redo \/ (\E r \in 0..LastRevision : SeekToRevision(r)) PROVE EInv'
<1>1. Listed
  BY Lists DEF EInv
<1>2. Quiet /\ UNCHANGED <<pool, commands, current_revision, progress, marks, images>>
      /\ active' = active
  BY DEF Undo, Redo, SeekToRevision
<1>3. target_revision' \in 0..Len(commands)
  <2>1. CASE Undo
    BY <1>1, <2>1 DEF Undo, Listed
  <2>2. CASE Redo
    <3>1. PICK r \in current_revision + 1..Len(commands) : target_revision' = r
      BY <2>2 DEF Redo, LastRevision
    <3>. QED  BY <1>1, <3>1 DEF Listed
  <2>3. CASE \E r \in 0..LastRevision : SeekToRevision(r)
    BY <2>3 DEF SeekToRevision, LastRevision
  <2>. QED  BY <2>1, <2>2, <2>3
<1>. QED  BY <1>2, <1>3, TurnsAround

(* A click, or a command that is no move, ends the move of the mouse. *)
LEMMA StopKeeps ==
  ASSUME EInv, StopMoving \/ MousemotionEndsMove PROVE EInv'
<1>1. Listed
  BY Lists DEF EInv
<1>2. /\ Quiet /\ UNCHANGED <<pool, commands, current_revision, progress, marks, images>>
      /\ target_revision' = target_revision /\ active
  BY DEF StopMoving, MousemotionEndsMove, seek
<1>3. target_revision' \in 0..Len(commands)
  BY <1>1, <1>2 DEF Listed
<1>. QED  BY <1>2, <1>3, TurnsAround

(* What is saved is the revision shown. *)
LEMMA SaveKeeps == ASSUME EInv, Save PROVE EInv'
<1>1. PICK path, known : OnPath(path, known)
  BY DEF EInv
<1>2. EP!IInv /\ Typed /\ Reserved /\ Progressing /\ Moving /\ Arrived /\ Listed
  BY Lists DEF EInv, Save, Quiet
<1>3. /\ UNCHANGED pool /\ commands' = commands /\ current_revision' = current_revision
      /\ progress' = progress /\ target_revision' = target_revision /\ images' = images
      /\ saved_at_revision' = current_revision /\ disk' = World /\ active' = active
  BY DEF Save, seek
<1>4. Marked'
  <2>1. World' = World
    BY <1>3, Unseen
  <2>2. current_revision + 1 \in 1..Len(images) /\ World = images[current_revision + 1]
    BY <1>1, <1>2 DEF OnPath, Pictured, Looks, Progressing, Listed
  <2>. QED  BY <1>3, <2>1, <2>2 DEF Marked
<1>5. /\ UNCHANGED <<pool, current_revision, progress, images>>
      /\ commands' \in Seq(Commands) /\ Len(commands') = Len(commands)
      /\ \A c \in 1..Len(commands) :
           /\ commands'[c].kind = commands[c].kind /\ commands'[c].by = commands[c].by
           /\ commands'[c].entries = commands[c].entries
      /\ target_revision' \in 0..Len(commands) /\ (active' => active)
      /\ saved_at_revision' \in Nat \cup {NeverSaved}
  BY <1>2, <1>3 DEF Typed, Listed
<1>. QED  BY <1>1, <1>2, <1>4, <1>5, StaysPut

-----------------------------------------------------------------------------
(* What follows a command follows one that has been done.                  *)
Following == then # "nothing" => target_revision > 0

(* Only a new command has something to follow it. *)
LEMMA StaysFollowing == ASSUME EInv, Following, Next PROVE Following'
<1>1. Listed
  BY Lists DEF EInv
<1>2. ASSUME NEW command, ExecuteNew(command) PROVE Following'
  BY <1>1, <1>2 DEF ExecuteNew, Following, Listed
<1>3. ASSUME NEW finishes, Through(finishes) PROVE Following'
  BY <1>3 DEF Through, Following
<1>4. CASE Continue
  BY <1>4 DEF Continue, Following
<1>5. CASE Quiet /\ then' = then
  BY <1>5 DEF Quiet, Following
<1>. QED  BY <1>2, <1>3, <1>4, <1>5
           DEF Next, Instantiate, Duplicate, Delete, StartMoving, MoveOnce, Move,
               RedoCreation, UndoCreation, RedoDeletion, UndoDeletion, RedoMove, UndoMove,
               Undo, Redo, SeekToRevision, Mousemotion, MousemotionEndsMove, StopMoving, Save

Living == INSTANCE SeqFolds WITH Op <- WithLiving

(* What follows a creation moves those of the created that are alive.      *)
LEMMA LivingIds ==
  ASSUME Visible, NEW entries \in Seq(Entries)
  PROVE  FoldLeft(WithLiving, <<>>, entries) \in Seq(DOMAIN World \cap Ids)
<1>1. PICK live : live = DOMAIN World \cap Ids
  OBVIOUS
<1>. DEFINE T == Seq(live)
<1>2. <<>> \in T
  OBVIOUS
<1>3. ASSUME NEW ids \in T, NEW entry \in Entries
      PROVE  WithLiving(ids, entry) \in T
  <2>1. CASE ~Alive(entry.id)
    BY <2>1 DEF WithLiving
  <2>2. CASE Alive(entry.id)
    <3>1. entry.id \in live
      BY <1>1, <2>2 DEF Visible, Entries, Ids
    <3>2. Append(ids, entry.id) \in T
      BY <3>1, AppendProperties
    <3>. QED  BY <2>2, <3>2 DEF WithLiving
  <2>. QED  BY <2>1, <2>2
<1>4. Living!Fold(<<>>, entries) \in T
  <2>. HIDE DEF T
  <2>. QED  BY <1>2, <1>3, Living!FoldClosed
<1>5. FoldLeft(WithLiving, <<>>, entries) = Living!Fold(<<>>, entries)
  BY DEF Living!Fold, Living!FoldLeft, Living!MapThenFoldSet, Living!Max,
         FoldLeft, MapThenFoldSet, Max
<1>. QED  BY <1>1, <1>4, <1>5

(* The rest of the handler of a key. *)
LEMMA ContinueKeeps == ASSUME EInv, Following, Continue PROVE EInv'
<1>1. PICK path, known : OnPath(path, known)
  BY DEF EInv
<1>2. EP!IInv /\ Typed /\ Reserved /\ Progressing /\ Moving /\ Marked /\ Arrived
      /\ Listed /\ Visible
  BY Lists, Seen DEF EInv, Continue
<1>3. PICK r : r = current_revision
  OBVIOUS
<1>4. r \in 1..Len(commands) /\ LastCommand = commands[r]
  BY <1>2, <1>3 DEF Continue, Following, Arrived, Listed, LastCommand
<1>5. PICK entries : entries = LastCommand.entries
  OBVIOUS
<1>6. PICK ids : ids = FoldLeft(WithLiving, <<>>, entries)
  OBVIOUS
<1>7. PICK child \in BOOLEAN : child = (then = "move_as_child")
  OBVIOUS
<1>8. PICK live : live = DOMAIN World \cap Ids
  OBVIOUS
<1>9. ids \in Seq(live)
  <2>1. entries \in Seq(Entries)
    BY <1>2, <1>4, <1>5 DEF Listed, Commands
  <2>. QED  BY <1>2, <1>6, <1>8, <2>1, LivingIds
<1>10. CASE ids # <<>> /\ Move(ids, 0, child)
  <2>1. PICK n : n = Len(ids)
    OBVIOUS
  <2>2. n \in Nat \ {0} /\ DOMAIN ids = 1..n /\ \A i \in 1..n : ids[i] \in live
    BY <1>9, <1>10, <2>1, EmptySeq, LenProperties, ElementOfSeq
  <2>3. \A i \in 1..n : ids[i] \in DOMAIN World /\ ids[i] \in Ids
    BY <1>8, <2>2
  <2>4. 0 \in Positions
    BY EditorAssumption DEF Positions
  <2>. QED  BY <1>2, <1>10, <2>2, <2>3, <2>4, MoveKeeps
<1>11. CASE /\ UNCHANGED <<pool, seek, active, marks, images>>
            /\ commands' = IF LastCommand.kind = "duplicate"
                           THEN [commands EXCEPT ![current_revision].has_parent = child]
                           ELSE commands
  <2>1. /\ commands' \in Seq(Commands) /\ Len(commands') = Len(commands)
        /\ \A c \in 1..Len(commands) :
             /\ commands'[c].kind = commands[c].kind /\ commands'[c].by = commands[c].by
             /\ commands'[c].entries = commands[c].entries
    <3>1. CASE LastCommand.kind # "duplicate"
      BY <1>2, <1>11, <3>1 DEF Typed
    <3>2. CASE LastCommand.kind = "duplicate"
      <4>1. PICK cmd : cmd = [commands[r] EXCEPT !.has_parent = child]
        OBVIOUS
      <4>2. cmd \in Commands /\ cmd.kind = commands[r].kind /\ cmd.by = commands[r].by
            /\ cmd.entries = commands[r].entries
        BY <1>2, <1>4, <1>7, <4>1 DEF Listed, Commands
      <4>3. commands' = [commands EXCEPT ![r] = cmd]
        <5>1. [commands EXCEPT ![r].has_parent = child]
                = [commands EXCEPT ![r] = [commands[r] EXCEPT !.has_parent = child]]
          OBVIOUS
        <5>. QED  BY <1>3, <1>11, <3>2, <4>1, <5>1
      <4>4. commands' \in Seq(Commands) /\ Len(commands') = Len(commands)
        BY <1>2, <1>4, <4>2, <4>3, ExceptSeq DEF Typed
      <4>5. \A c \in 1..Len(commands) : commands'[c] = IF c = r THEN cmd ELSE commands[c]
        BY <1>2, <4>3 DEF Listed
      <4>. QED  BY <4>2, <4>4, <4>5
    <3>. QED  BY <3>1, <3>2
  <2>2. Marked'
    <3>1. commands # <<>> /\ commands' # <<>>
      BY <1>2, <1>4, <2>1, EmptySeq DEF Listed
    <3>. QED  BY <1>2, <1>11, <3>1, MarksStay
  <2>3. /\ UNCHANGED <<pool, current_revision, progress, images>>
        /\ target_revision' \in 0..Len(commands) /\ (active' => active)
        /\ saved_at_revision' \in Nat \cup {NeverSaved}
    BY <1>2, <1>11 DEF Typed, Listed, seek, marks
  <2>. QED  BY <1>1, <1>2, <2>1, <2>2, <2>3, StaysPut
<1>. QED  BY <1>5, <1>6, <1>7, <1>10, <1>11 DEF Continue

-----------------------------------------------------------------------------
(* do_mousemotion(): the last move, and what it shows, are rewritten.      *)
Rewritten(cmd, now) ==
  /\ commands' = [commands EXCEPT ![current_revision] = cmd]
  /\ images' = Append(SubSeq(images, 1, current_revision), now)

(* Where the move is not, the history is as it was. *)
LEMMA RewrittenShape ==
  ASSUME Typed, Listed, NEW r, r = current_revision, r \in 1..Len(commands),
         r <= Len(images), NEW cmd \in Commands, NEW now \in Tables, Rewritten(cmd, now)
  PROVE  /\ commands' \in Seq(Commands) /\ Len(commands') = Len(commands)
         /\ commands'[r] = cmd
         /\ \A c \in 1..Len(commands) : c # r => commands'[c] = commands[c]
         /\ images' \in Seq(Tables) /\ Len(images') = r + 1 /\ images'[r + 1] = now
         /\ \A c \in 1..r : images'[c] = images[c]
<1>1. commands' \in Seq(Commands) /\ Len(commands') = Len(commands)
  BY ExceptSeq DEF Typed, Rewritten
<1>2. \A c \in 1..Len(commands) : commands'[c] = IF c = r THEN cmd ELSE commands[c]
  BY DEF Listed, Rewritten
<1>3. /\ SubSeq(images, 1, r) \in Seq(Tables) /\ Len(SubSeq(images, 1, r)) = r
      /\ \A c \in 1..r : SubSeq(images, 1, r)[c] = images[c]
  BY SubSeqProperties DEF Listed
<1>4. /\ images' \in Seq(Tables) /\ Len(images') = r + 1 /\ images'[r + 1] = now
      /\ \A c \in 1..r : images'[c] = SubSeq(images, 1, r)[c]
  BY <1>3, AppendProperties DEF Rewritten
<1>. QED  BY <1>1, <1>2, <1>3, <1>4

(* The move under the mouse: done from the picture before it, by any way.  *)
LEMMA LastMove ==
  ASSUME EP!IInv, Typed, Progressing, Arrived, NEW path, NEW known, OnPath(path, known),
         NEW r, r = current_revision, r > 0, NEW cmd, cmd = commands[r], cmd.kind = "move"
  PROVE  /\ r \in 1..Len(commands) /\ r + 1 <= Len(images) /\ progress = 0
         /\ cmd \in Commands /\ DOMAIN cmd.entries = 1..Len(cmd.entries)
         /\ World = images[r + 1] /\ DOMAIN World = DOMAIN images[r]
         /\ images[r] \in Tables
         /\ \A key \in DOMAIN World : ~Mentions(cmd, key) => World[key] = images[r][key]
         /\ \A e \in 1..Len(cmd.entries) :
              /\ cmd.entries[e].id \in DOMAIN World
              /\ cmd.entries[e].content = images[r][cmd.entries[e].id]
              /\ images[r][cmd.entries[e].id] \in Positions
<1>1. Listed /\ Visible /\ progress = 0 /\ ~Redoing
  <2>1. Listed /\ Visible
    BY Lists, Seen
  <2>. QED  BY <2>1 DEF Progressing, Arrived, Redoing, Listed
<1>2. r \in 1..Len(commands) /\ r \in Nat
  BY <1>1 DEF Listed
<1>3. Pictured(path) /\ Chained(path, known) /\ Recording(known) /\ Looks(path)
  BY DEF OnPath
<1>4. r + 1 <= Len(images) /\ r \in 1..Len(images) - 1 /\ r \in 1..Len(images)
      /\ r + 1 \in 1..Len(images)
  BY <1>1, <1>2, <1>3 DEF Pictured, Listed
<1>5. /\ cmd \in Commands /\ DOMAIN cmd.entries = 1..Len(cmd.entries) /\ Steps(cmd) = 1
  BY <1>1, <1>2 DEF Listed, Steps
<1>6. World = images[r + 1] /\ images[r] \in Tables
  BY <1>1, <1>3, <1>4 DEF Looks, Listed
<1>7. Known(known, r) = 1
  BY <1>1, <1>2, <1>3, <1>5, AllKnown
<1>8. path[r][1] = path[r][0] /\ path[r + 1][0] = path[r][1] /\ Fits(cmd, path[r], 1)
  <2>1. Links(cmd, 1, path[r][1 - 1], path[r][1], 1 <= DoneIn(r))
    BY <1>2, <1>3, <1>7 DEF Chained
  <2>2. path[r][1] = path[r][0]
    BY <2>1 DEF Links
  <2>. QED  BY <1>2, <1>3, <1>5, <1>7, <2>2 DEF Chained
<1>9. DOMAIN World = DOMAIN images[r] /\ DOMAIN images[r] = EP!Lives(path[r][0])
  <2>1. \A c \in 1..Len(images) : DOMAIN images[c] = EP!Lives(path[c][0])
    BY <1>3 DEF Pictured
  <2>. QED  BY <1>4, <1>6, <1>8, <2>1
<1>10. \A key \in DOMAIN World : ~Mentions(cmd, key) => World[key] = images[r][key]
  <2>1. Shown(cmd, path[r], images[r], images[r + 1])
    BY <1>3, <1>4 DEF Pictured
  <2>. QED  BY <1>6, <1>9, <2>1 DEF Shown
<1>11. \A e \in 1..Len(cmd.entries) :
         /\ cmd.entries[e].id \in DOMAIN World
         /\ cmd.entries[e].content = images[r][cmd.entries[e].id]
         /\ images[r][cmd.entries[e].id] \in Positions
  <2>1. Holds(cmd, images[r])
    BY <1>2, <1>3 DEF Pictured
  <2>2. \A e \in 1..Len(cmd.entries) : cmd.entries[e].id \in EP!Lives(path[r][0])
    BY <1>8 DEF Fits
  <2>3. \A key \in DOMAIN images[r] : images[r][key] \in Positions
    BY <1>6 DEF Tables
  <2>. QED  BY <1>9, <2>1, <2>2, <2>3 DEF Holds
<1>. QED  BY <1>1, <1>2, <1>4, <1>5, <1>6, <1>9, <1>10, <1>11

(* The cursor drags on what the last command moves. *)
LEMMA MousemotionKeeps ==
  ASSUME EInv, NEW by \in Positions, Mousemotion(by) PROVE EInv'
<1>1. PICK path, known : OnPath(path, known)
  BY DEF EInv
<1>2. PICK r : r = current_revision
  OBVIOUS
<1>3. PICK cmd : cmd = commands[r]
  OBVIOUS
<1>4. PICK after : after = [e \in DOMAIN cmd.entries |-> Moved(cmd.entries[e].content, by)]
  OBVIOUS
<1>5. /\ EP!IInv /\ Typed /\ Reserved /\ Progressing /\ Moving /\ Marked
      /\ Arrived /\ Listed /\ r \in Nat /\ r > 0 /\ ~Redoing /\ active
      /\ cmd.kind = "move" /\ LastCommand = cmd
  <2>1. /\ EP!IInv /\ Typed /\ Reserved /\ Progressing /\ Moving /\ Marked
    BY DEF EInv
  <2>2. Listed
    BY <2>1, Lists
  <2>3. Arrived /\ HasLastCommand /\ LastCommand.kind = "move" /\ active
    BY DEF Mousemotion, Quiet
  <2>. QED  BY <1>2, <1>3, <2>1, <2>2, <2>3
            DEF HasLastCommand, LastCommand, Arrived, Redoing, Listed
<1>6. /\ objects' = Replaced(cmd, after)
      /\ UNCHANGED <<slots, indirectors, free_indirectors>>
      /\ commands' = [commands EXCEPT ![current_revision].by = by]
      /\ current_revision' = r /\ target_revision' = target_revision
      /\ progress' = progress /\ active' = active /\ saved_at_revision' = saved_at_revision
      /\ disk' = disk /\ stale' = (stale \/ saved_at_revision >= current_revision)
      /\ images' = Append(SubSeq(images, 1, current_revision), World')
  BY <1>2, <1>3, <1>4, <1>5 DEF Mousemotion, seek
<1>7. /\ r \in 1..Len(commands) /\ r + 1 <= Len(images) /\ progress = 0
      /\ cmd \in Commands /\ DOMAIN cmd.entries = 1..Len(cmd.entries)
      /\ World = images[r + 1] /\ DOMAIN World = DOMAIN images[r]
      /\ images[r] \in Tables
      /\ \A key \in DOMAIN World : ~Mentions(cmd, key) => World[key] = images[r][key]
      /\ \A e \in 1..Len(cmd.entries) :
           /\ cmd.entries[e].id \in DOMAIN World
           /\ cmd.entries[e].content = images[r][cmd.entries[e].id]
           /\ images[r][cmd.entries[e].id] \in Positions
  <2>1. EP!IInv /\ Typed /\ Progressing /\ Arrived /\ OnPath(path, known)
        /\ r = current_revision /\ r > 0 /\ cmd = commands[r] /\ cmd.kind = "move"
    BY <1>1, <1>2, <1>3, <1>5
  <2>. QED  BY ONLY <2>1, LastMove
<1>8. PICK f : f = [key \in DOMAIN images[r] |-> Moved(images[r][key], by)]
  OBVIOUS
<1>9. /\ EP!IInv' /\ DOMAIN indirectors \subseteq DOMAIN indirectors'
      /\ EP!Whole' = EP!Whole
      /\ DOMAIN World' = DOMAIN World
      /\ \A key \in DOMAIN World :
           World'[key] = IF Mentions(cmd, key) THEN f[key] ELSE World[key]
  <2>1. \A e \in DOMAIN cmd.entries :
          /\ cmd.entries[e].id \in DOMAIN World
          /\ after[e] = f[cmd.entries[e].id] /\ after[e] \in Positions
    <3>1. SUFFICES ASSUME NEW e \in 1..Len(cmd.entries)
                   PROVE  /\ cmd.entries[e].id \in DOMAIN World
                          /\ after[e] = f[cmd.entries[e].id] /\ after[e] \in Positions
      BY <1>7
    <3>2. after[e] = Moved(images[r][cmd.entries[e].id], by)
      BY <1>4, <1>7
    <3>. QED  BY <1>7, <1>8, <3>2, MovedStays
  <2>2. /\ EP!IInv' /\ DOMAIN indirectors \subseteq DOMAIN indirectors'
        /\ EP!Whole' = EP!Whole
        /\ DOMAIN World' = DOMAIN World
        /\ \A key \in DOMAIN World :
             World'[key] = IF \E e \in DOMAIN cmd.entries : cmd.entries[e].id = key
                           THEN f[key] ELSE World[key]
    <3>1. EP!IInv /\ objects' = Replaced(cmd, after)
          /\ UNCHANGED <<slots, indirectors, free_indirectors>>
      BY <1>5, <1>6
    <3>. QED  BY ONLY <2>1, <3>1, ReplaceSeen
  <2>3. \A key : Mentions(cmd, key) <=> \E e \in DOMAIN cmd.entries : cmd.entries[e].id = key
    BY <1>7 DEF Mentions
  <2>. QED  BY <2>2, <2>3
<1>10. Visible'
  BY <1>9, Seen, PTL
<1>11. \A key \in DOMAIN World :
         World'[key] = IF Mentions(cmd, key) THEN Moved(images[r][key], by)
                       ELSE images[r][key]
  BY <1>7, <1>8, <1>9
<1>12. PICK now \in Tables : now = World'
  BY <1>10 DEF Visible
<1>13. PICK cmd2 : cmd2 = [cmd EXCEPT !.by = by]
  OBVIOUS
<1>14. /\ cmd2 \in Commands /\ cmd2.kind = cmd.kind /\ cmd2.by = by
       /\ cmd2.entries = cmd.entries
  BY <1>7, <1>13 DEF Commands
<1>15. /\ commands' \in Seq(Commands) /\ Len(commands') = Len(commands)
       /\ commands'[r] = cmd2
       /\ \A c \in 1..Len(commands) : c # r => commands'[c] = commands[c]
       /\ images' \in Seq(Tables) /\ Len(images') = r + 1 /\ images'[r + 1] = now
       /\ \A c \in 1..r : images'[c] = images[c]
  <2>1. [commands EXCEPT ![r].by = by] = [commands EXCEPT ![r] = [commands[r] EXCEPT !.by = by]]
    OBVIOUS
  <2>2. Rewritten(cmd2, now)
    BY <1>2, <1>3, <1>6, <1>12, <1>13, <2>1 DEF Rewritten
  <2>3. r <= Len(images)
    BY <1>5, <1>7 DEF Listed
  <2>. QED  BY <1>2, <1>5, <1>7, <1>14, <2>2, <2>3, RewrittenShape
<1>16. \A c \in 1..Len(commands) :
         /\ commands'[c].kind = commands[c].kind /\ commands'[c].entries = commands[c].entries
         /\ Steps(commands'[c]) = Steps(commands[c])
  BY <1>3, <1>14, <1>15 DEF Steps
<1>17. Typed' /\ Listed'
  <2>1. Typed'
    BY <1>2, <1>5, <1>6, <1>7, <1>15, <1>16 DEF Typed
  <2>. QED  BY <2>1, Lists, PTL
<1>18. Reserved' /\ Progressing' /\ Moving'
  <2>1. Reserved'
    <3>1. SUFFICES ASSUME NEW c \in 1..Len(commands), commands'[c].kind = "delete",
                          NEW e \in 1..Len(commands'[c].entries)
                   PROVE  commands'[c].entries[e].id.indirection_index \in DOMAIN indirectors'
      BY <1>15 DEF Reserved
    <3>2. commands[c].entries[e].id.indirection_index \in DOMAIN indirectors
      BY <1>5, <1>16, <3>1 DEF Reserved
    <3>. QED  BY <1>9, <1>16, <3>2
  <2>2. Progressing'
    BY <1>2, <1>5, <1>6, <1>7 DEF Progressing, Arrived
  <2>3. Moving'
    BY <1>2, <1>5, <1>6, <1>15, <1>16 DEF Moving, Listed
  <2>. QED  BY <2>1, <2>2, <2>3
<1>19. Marked'
  <2>1. ASSUME saved_at_revision # NeverSaved, ~stale'
        PROVE  saved_at_revision + 1 \in 1..r /\ images[saved_at_revision + 1] = disk
    <3>1. saved_at_revision \in Nat /\ ~stale /\ ~(saved_at_revision >= r)
      BY <1>2, <1>5, <1>6, <2>1 DEF Typed
    <3>2. images[saved_at_revision + 1] = disk
      BY <1>5, <2>1, <3>1 DEF Marked
    <3>. QED  BY <1>5, <3>1, <3>2
  <2>2. commands' # <<>>
    BY <1>7, <1>15, EmptySeq
  <2>. QED  BY <1>5, <1>6, <1>15, <2>1, <2>2 DEF Marked
<1>20. OnPath(path, known)'
  <2>1. Recording(known)'
    <3>1. commands # <<>> /\ Len(commands) \in 1..Len(commands)
      BY <1>5, <1>7, EmptySeq DEF Listed
    <3>2. known \in 0..Steps(commands[Len(commands)])
          /\ ~(known < Steps(commands[Len(commands)]))
      BY <1>1, <1>5, <3>1 DEF Recording, OnPath
    <3>. QED  BY <1>15, <1>16, <3>1, <3>2 DEF Recording
  <2>2. Chained(path, known)'
    <3>1. SUFFICES ASSUME NEW c \in 1..Len(commands)
                   PROVE  /\ \A e \in 1..Known(known, c)' :
                               Links(commands'[c], e, path[c][e - 1], path[c][e], e <= DoneIn(c)')
                          /\ Fits(commands'[c], path[c], Known(known, c)')
                          /\ Known(known, c)' = Steps(commands'[c]) =>
                               path[c + 1][0] = path[c][Steps(commands'[c])]
      BY <1>15 DEF Chained
    <3>2. /\ \A e \in 1..Known(known, c) :
               Links(commands[c], e, path[c][e - 1], path[c][e], e <= DoneIn(c))
          /\ Fits(commands[c], path[c], Known(known, c))
          /\ Known(known, c) = Steps(commands[c]) => path[c + 1][0] = path[c][Steps(commands[c])]
      BY <1>1 DEF OnPath, Chained
    <3>3. Known(known, c)' = Known(known, c)
      BY <1>15, <1>16 DEF Known
    <3>4. commands'[c].kind = commands[c].kind /\ commands'[c].entries = commands[c].entries
          /\ Steps(commands'[c]) = Steps(commands[c])
      BY <1>16
    <3>5. DoneIn(c)' = DoneIn(c)
      <4>1. DoneIn(c) = IF c <= r THEN Steps(commands[c]) ELSE 0
        BY <1>2, <1>5, <1>7, DoneAtRest
      <4>2. DoneIn(c)' = IF c <= r THEN Steps(commands'[c]) ELSE 0
        <5>1. ~Redoing' /\ progress' = 0 /\ Steps(commands'[c]) \in Nat
          BY <1>2, <1>5, <1>6, <1>7, <1>15, <1>17 DEF Redoing, Listed
        <5>. QED  BY <1>5, <1>6, <5>1 DEF DoneIn
      <4>. QED  BY <3>4, <4>1, <4>2
    <3>6. Fits(commands'[c], path[c], Known(known, c))
      BY ONLY <3>2, <3>4 DEF Fits, Creates
    <3>7. \A e \in 1..Known(known, c) :
            Links(commands'[c], e, path[c][e - 1], path[c][e], e <= DoneIn(c)')
      BY ONLY <3>2, <3>4, <3>5 DEF Links, Creates
    <3>. QED  BY <3>2, <3>3, <3>4, <3>6, <3>7
  <2>3. Standing(path)'
    BY <1>1, <1>2, <1>6, <1>7, <1>9 DEF OnPath, Standing
  <2>4. Pictured(path)'
    <3>1. Pictured(path)
      BY <1>1 DEF OnPath
    <3>2. \A c \in 1..r + 1 : DOMAIN images'[c] = EP!Lives(path[c][0])
      <4>1. SUFFICES ASSUME NEW c \in 1..r + 1 PROVE DOMAIN images'[c] = EP!Lives(path[c][0])
        OBVIOUS
      <4>2. c \in 1..Len(images)
        BY <1>5, <1>7 DEF Listed
      <4>3. DOMAIN images[c] = EP!Lives(path[c][0])
        BY <3>1, <4>2 DEF Pictured
      <4>4. CASE c = r + 1
        BY <1>7, <1>9, <1>12, <1>15, <4>3, <4>4
      <4>5. CASE c \in 1..r
        BY <1>15, <4>3, <4>5
      <4>. QED  BY <1>5, <4>4, <4>5
    <3>3. \A c \in 1..r : Shown(commands'[c], path[c], images'[c], images'[c + 1])
      <4>1. SUFFICES ASSUME NEW c \in 1..r
                     PROVE  Shown(commands'[c], path[c], images'[c], images'[c + 1])
        OBVIOUS
      <4>2. CASE c = r
        <5>1. \A key : Mentions(cmd2, key) <=> Mentions(cmd, key)
          BY <1>14 DEF Mentions
        <5>2. cmd2.kind = "move" /\ ~Creates(cmd2) /\ cmd2.by = by
          BY <1>5, <1>14 DEF Creates
        <5>3. Shown(cmd2, path[r], images[r], now)
          BY <1>7, <1>11, <1>12, <5>1, <5>2 DEF Shown
        <5>. QED  BY <1>15, <4>2, <5>3
      <4>3. CASE c # r
        <5>1. c \in 1..Len(commands) /\ c \in 1..Len(images) - 1 /\ c + 1 \in 1..r
          BY <1>5, <1>7, <4>3 DEF Listed
        <5>2. Shown(commands[c], path[c], images[c], images[c + 1])
          BY <3>1, <5>1 DEF Pictured
        <5>. QED  BY <1>15, <4>3, <5>1, <5>2
      <4>. QED  BY <4>2, <4>3
    <3>4. ASSUME NEW c \in 1..Len(commands), commands'[c].kind = "delete"
          PROVE  c <= r + 1 /\ Holds(commands'[c], images'[c])
      <4>1. commands[c].kind = "delete" /\ commands'[c].entries = commands[c].entries
        BY <1>16, <3>4
      <4>2. c \in 1..r
        BY <1>2, <1>5, <4>1 DEF Moving
      <4>3. Holds(commands[c], images[c])
        BY <3>1, <4>1 DEF Pictured
      <4>. QED  BY <1>5, <1>15, <4>1, <4>2, <4>3 DEF Holds
    <3>5. ASSUME NEW c \in 1..r, commands'[c].kind = "move"
          PROVE  Holds(commands'[c], images'[c])
      <4>1. c \in 1..Len(commands) /\ images'[c] = images[c]
        BY <1>5, <1>7, <1>15 DEF Listed
      <4>2. commands[c].kind = "move" /\ commands'[c].entries = commands[c].entries
        BY <1>16, <3>5, <4>1
      <4>3. Holds(commands[c], images[c])
        BY <1>2, <3>1, <4>2 DEF Pictured
      <4>. QED  BY <4>1, <4>2, <4>3 DEF Holds
    <3>6. Len(images') \in r + 1..Len(commands') + 1
      BY <1>5, <1>7, <1>15 DEF Listed
    <3>7. Len(images') = r + 1 /\ Len(images') - 1 = r /\ Len(commands') = Len(commands)
          /\ current_revision' = r
      BY <1>5, <1>6, <1>15
    <3>. QED  BY ONLY <3>2, <3>3, <3>4, <3>5, <3>6, <3>7 DEF Pictured
  <2>5. Looks(path)'
    BY <1>6, <1>7, <1>12, <1>15 DEF Looks
  <2>. QED  BY <2>1, <2>2, <2>3, <2>4, <2>5 DEF OnPath
<1>. QED  BY <1>9, <1>17, <1>18, <1>19, <1>20 DEF EInv

-----------------------------------------------------------------------------
(* The invariant with what follows a command. *)
HInv == EInv /\ Following

(* Every action keeps it. *)
LEMMA NextKeeps == ASSUME HInv, Next PROVE HInv'
<1>1. EInv /\ Following
  BY DEF HInv
<1>2. Following'
  BY <1>1, StaysFollowing
<1>3. EInv'
  <2>1. CASE \E where \in Positions : Instantiate(where)
    BY <1>1, <2>1, InstantiateKeeps
  <2>2. CASE \E selected \in Selections :
               \/ \E by \in Positions : Duplicate(selected, by)
               \/ Delete(selected)
               \/ StartMoving(selected)
               \/ \E by \in Positions \ {0} : MoveOnce(selected, by)
    BY <1>1, <2>2, DuplicateKeeps, DeleteKeeps, StartMovingKeeps, MoveOnceKeeps
  <2>3. CASE Continue
    BY <1>1, <2>3, ContinueKeeps
  <2>4. CASE RedoCreation
    BY <1>1, <2>4, RedoCreationKeeps
  <2>5. CASE UndoCreation
    BY <1>1, <2>5, UndoCreationKeeps
  <2>6. CASE RedoDeletion
    BY <1>1, <2>6, RedoDeletionKeeps
  <2>7. CASE UndoDeletion
    BY <1>1, <2>7, UndoDeletionKeeps
  <2>8. CASE RedoMove
    BY <1>1, <2>8, RedoMoveKeeps
  <2>9. CASE UndoMove
    BY <1>1, <2>9, UndoMoveKeeps
  <2>10. CASE Undo \/ Redo \/ \E r \in 0..LastRevision : SeekToRevision(r)
    BY <1>1, <2>10, SeekKeeps
  <2>11. CASE \E by \in Positions : Mousemotion(by)
    BY <1>1, <2>11, MousemotionKeeps
  <2>12. CASE MousemotionEndsMove \/ StopMoving
    BY <1>1, <2>12, StopKeeps
  <2>13. CASE Save
    BY <1>1, <2>13, SaveKeeps
  <2>. QED  BY <2>1, <2>2, <2>3, <2>4, <2>5, <2>6, <2>7, <2>8, <2>9, <2>10, <2>11, <2>12, <2>13
            DEF Next
<1>. QED  BY <1>2, <1>3 DEF HInv

(* A step that changes nothing keeps it too. *)
LEMMA StutterKeeps == ASSUME HInv, UNCHANGED vars PROVE HInv'
<1>1. PICK path, known : OnPath(path, known)
  BY DEF HInv, EInv
<1>2. UNCHANGED pool /\ UNCHANGED <<commands, current_revision, target_revision, progress, then,
                                     active, saved_at_revision, modified_since_save, disk, stale,
                                     images>>
  BY DEF vars, seek, marks
<1>3. EP!Whole' = EP!Whole /\ World' = World /\ EP!IInv'
      /\ DOMAIN indirectors' = DOMAIN indirectors
  BY <1>2, Unseen DEF HInv, EInv
<1>4. Typed' /\ Reserved' /\ Progressing' /\ Moving' /\ Marked'
  BY <1>2, <1>3 DEF HInv, EInv, Typed, Reserved, Progressing, Moving, Marked,
       Arrived, Redoing, InFlight, LastCommand
<1>5. OnPath(path, known)'
  BY <1>1, <1>2, <1>3 DEF OnPath, Recording, Chained, Standing, Pictured, Looks, Known, DoneIn,
       Arrived, Redoing, Undoing, InFlight, LastCommand
<1>. QED  BY <1>2, <1>3, <1>4, <1>5 DEF HInv, EInv, Following

-----------------------------------------------------------------------------
(* A project that was just opened: its entities are in the pool in order.  *)
LEMMA OpenedPool == Init => EP!IInv
<1>. SUFFICES ASSUME Init PROVE EP!IInv
  OBVIOUS
<1>1. Loaded \in Nat /\ Loaded <= MaxSize /\ MaxSize \in Nat /\ VersionSpan \in Nat
      /\ VersionSpan >= MaxSize + 2 /\ 0 \in Positions
  BY EditorAssumption DEF Positions
<1>2. slots \in Seq(1..MaxSize) /\ Len(slots) = Loaded /\ DOMAIN slots = 1..Loaded
  <2>1. slots \in [1..Loaded -> 1..MaxSize]
    BY <1>1 DEF Init
  <2>. QED  BY <1>1, <2>1, EP!FunctionIsSeq
<1>3. objects \in Seq(Positions) /\ Len(objects) = Loaded
  <2>1. objects \in [1..Loaded -> Positions]
    BY <1>1 DEF Init
  <2>. QED  BY <1>1, <2>1, EP!FunctionIsSeq
<1>4. /\ indirectors \in Seq([real_index : 0..MaxSize, version : EP!Versions])
      /\ Len(indirectors) = Loaded /\ DOMAIN indirectors = 1..Loaded
  <2>. PICK T : T = [real_index : 0..MaxSize, version : EP!Versions]
    OBVIOUS
  <2>1. 1 \in EP!Versions
    BY <1>1, EditorAssumption DEF EP!Versions
  <2>2. indirectors \in [1..Loaded -> T]
    BY <1>1, <2>1 DEF Init
  <2>3. indirectors \in Seq(T) /\ Len(indirectors) = Loaded /\ DOMAIN indirectors = 1..Loaded
    <3>1. PICK n \in Nat : n = Loaded
      BY <1>1
    <3>2. indirectors \in [1..n -> T]
      BY <2>2, <3>1
    <3>3. indirectors \in Seq(T) /\ Len(indirectors) = n /\ DOMAIN indirectors = 1..n
      BY ONLY <3>2, n \in Nat, EP!FunctionIsSeq
    <3>. QED  BY ONLY <3>1, <3>3
  <2>. QED  BY <2>3
<1>5. free_indirectors = <<>>
  BY DEF Init
<1>6. EP!TypeOK
  BY <1>1, <1>2, <1>3, <1>4, <1>5, EmptySeq DEF EP!TypeOK, EP!Capacity
<1>7. EP!PointersPair
  <2>1. \A i \in 1..Loaded : slots[i] = i /\ indirectors[i].real_index = i
    BY DEF Init
  <2>. QED  BY <1>2, <1>3, <1>4, <2>1 DEF EP!PointersPair, EP!Size
<1>8. EP!FreeListExact
  <2>1. DOMAIN free_indirectors = {} /\ Len(free_indirectors) = 0
    BY <1>5
  <2>. QED  BY <1>1, <1>2, <1>4, <2>1 DEF EP!FreeListExact, EP!Size, EP!Capacity
<1>. QED  BY <1>6, <1>7, <1>8 DEF EP!IInv, EP!Consistent

(* Its history is empty, and the path is where the pool is. *)
LEMMA OpenedHistory == Init => HInv
<1>. SUFFICES ASSUME Init PROVE HInv
  OBVIOUS
<1>1. EP!IInv /\ Visible
  BY OpenedPool, Seen
<1>2. /\ commands = <<>> /\ Len(commands) = 0 /\ current_revision = 0 /\ target_revision = 0
      /\ progress = 0 /\ then = "nothing" /\ active = FALSE
      /\ saved_at_revision \in {NeverSaved, 0} /\ images = <<World>> /\ disk = World
  BY DEF Init
<1>3. PICK whole : whole = EP!Whole
  OBVIOUS
<1>4. PICK path : path = [x \in Nat |-> [y \in Nat |-> whole]]
  OBVIOUS
<1>5. Len(images) = 1 /\ images[1] = World /\ images \in Seq(Tables)
  BY <1>1, <1>2 DEF Visible
<1>6. Typed
  BY <1>2, <1>5, EmptySeq DEF Typed
<1>7. Reserved /\ Progressing /\ Moving /\ Marked
  BY <1>2, <1>5 DEF Reserved, Progressing, Moving, Marked, Arrived, NeverSaved
<1>8. path[1][0] = EP!Whole
  BY <1>3, <1>4
<1>9. OnPath(path, 0)
  <2>1. Recording(0) /\ Chained(path, 0)
    BY <1>2 DEF Recording, Chained
  <2>2. Standing(path)
    BY <1>2, <1>8 DEF Standing
  <2>3. Pictured(path)
    BY <1>1, <1>2, <1>5, <1>8 DEF Pictured, Visible
  <2>4. Looks(path)
    BY <1>2, <1>5 DEF Looks
  <2>. QED  BY <2>1, <2>2, <2>3, <2>4 DEF OnPath
<1>. QED  BY <1>1, <1>2, <1>6, <1>7, <1>9 DEF HInv, EInv, Following

(* The history stands on a path of whole pools, and the pictures of its    *)
(* revisions are pictures of that path.                                    *)
THEOREM SpecInvariant == Spec => []HInv
<1>1. Init => HInv
  BY OpenedHistory
<1>2. HInv /\ [Next]_vars => HInv'
  BY NextKeeps, StutterKeeps
<1>. QED  BY <1>1, <1>2, PTL DEF Spec

-----------------------------------------------------------------------------
(* However undo(), redo() and seek_to_revision() walk through the history, *)
(* a revision shows the entities it showed when it was first reached,      *)
(* under the same ids, with undo_last_allocate() and undo_free() in        *)
(* whatever order they come.                                               *)
THEOREM UndoIsExact == Spec => []UndoExact
<1>1. HInv => UndoExact
  <2>1. SUFFICES ASSUME EInv, Arrived PROVE World = images[current_revision + 1]
    BY DEF HInv, UndoExact
  <2>2. PICK path, known : OnPath(path, known)
    BY <2>1 DEF EInv
  <2>. QED  BY <2>1, <2>2 DEF EInv, Progressing, OnPath, Looks
<1>. QED  BY <1>1, SpecInvariant, PTL

(* What the editor takes for saved is what the disk holds, whatever was    *)
(* undone, redone or discarded since, but for the mouse rewriting a        *)
(* command that is part of it.                                             *)
THEOREM SavedIsOnDisk == Spec => []SavedUnlessRewritten
<1>1. HInv => SavedUnlessRewritten
  <2>1. SUFFICES ASSUME EInv, Arrived, AtSavedRevision, ~stale PROVE World = disk
    BY DEF HInv, SavedUnlessRewritten, Quiet
  <2>2. PICK path, known : OnPath(path, known)
    BY <2>1 DEF EInv
  <2>3. World = images[current_revision + 1] /\ Marked
    BY <2>1, <2>2 DEF EInv, Progressing, OnPath, Looks
  <2>4. CASE commands = <<>>
    BY <2>3, <2>4 DEF Marked
  <2>5. CASE saved_at_revision = current_revision
    <3>1. saved_at_revision # NeverSaved
      BY <2>1, <2>5, Lists DEF EInv, Listed, NeverSaved
    <3>. QED  BY <2>1, <2>3, <2>5, <3>1 DEF Marked
  <2>. QED  BY <2>1, <2>4, <2>5 DEF AtSavedRevision
<1>. QED  BY <1>1, SpecInvariant, PTL

(* A command about to be redone meets the world it was made for. *)
LEMMA ReadyToRedo ==
  ASSUME EInv, Redoing
  PROVE  \/ InFlight.kind = "create" /\ InHand.id = NoId
         \/ InFlight.kind = "duplicate" /\ Alive(InHand.source)
         \/ InFlight.kind = "delete" /\ Alive(InHand.id)
         \/ InFlight.kind = "move" /\ AllAlive(InFlight)
<1>1. PICK path, known : OnPath(path, known)
  BY DEF EInv
<1>2. EP!IInv /\ Typed /\ Progressing /\ Listed /\ Visible
  BY Lists, Seen DEF EInv
<1>3. ~Arrived
  BY <1>2 DEF Redoing, Arrived, Listed
<1>c. PICK c : c = Place
  OBVIOUS
<1>4. /\ InFlight = commands[c] /\ InFlight.kind \in Kinds
      /\ DOMAIN InFlight.entries = 1..Len(InFlight.entries)
      /\ progress \in 0..Steps(InFlight) - 1 /\ Steps(InFlight) \in Nat
      /\ InFlight.kind # "move" =>
           /\ progress + 1 \in 1..Len(InFlight.entries)
           /\ InHand = InFlight.entries[progress + 1]
  BY <1>2, <1>3, <1>c, Airborne
<1>5. /\ Known(known, c) \in progress..Steps(commands[c])
      /\ Fits(InFlight, path[c], Known(known, c))
      /\ EP!Whole = path[c][progress]
  BY <1>1, <1>2, <1>4, <1>c, KnownSoFar
<1>6. CASE Creates(InFlight)
  <2>1. /\ DOMAIN images[c] \subseteq DOMAIN World
        /\ InFlight.kind = "duplicate" =>
             InFlight.entries[progress + 1].source \in DOMAIN images[c]
        /\ Len(EP!Whole.slots) = MaxSize \/ InFlight.kind = "create" =>
             InFlight.entries[progress + 1].id = NoId
    BY <1>1, <1>2, <1>6, <1>c, CreationSoFar
  <2>. QED  BY <1>2, <1>4, <1>6, <2>1 DEF Creates, Visible
<1>7. CASE InFlight.kind = "delete"
  <2>1. PICK f, key : f = progress /\ key = InHand.id
    OBVIOUS
  <2>2. /\ f + 1 \in 1..Len(InFlight.entries) /\ f \in 0..Known(known, c) /\ f \in Nat
        /\ key = InFlight.entries[f + 1].id /\ Len(InFlight.entries) \in Nat
    <3>1. Known(known, c) \in f..Steps(InFlight) /\ f \in Nat
      BY <1>4, <1>5, <2>1
    <3>2. f + 1 \in 1..Len(InFlight.entries) /\ key = InFlight.entries[f + 1].id
      BY <1>4, <1>7, <2>1
    <3>3. Steps(InFlight) = Len(InFlight.entries)
      BY <1>7 DEF Steps
    <3>. QED  BY <1>4, <3>1, <3>2, <3>3
  <2>3. /\ \A e \in 1..Len(InFlight.entries) : InFlight.entries[e].id \in EP!Lives(path[c][0])
        /\ \A e, g \in 1..Len(InFlight.entries) :
             InFlight.entries[e].id = InFlight.entries[g].id => e = g
        /\ \A g \in 0..Known(known, c), other \in EP!Keys :
             other \in EP!Lives(path[c][g]) <=>
               other \in EP!Lives(path[c][0])
               /\ \A e \in 1..g : InFlight.entries[e].id # other
    BY ONLY <1>5, <1>7 DEF Fits
  <2>4. \A e \in 1..f : InFlight.entries[e].id # key
    <3>1. SUFFICES ASSUME NEW e \in 1..f, InFlight.entries[e].id = key PROVE FALSE
      OBVIOUS
    <3>2. e \in 1..Len(InFlight.entries) /\ e # f + 1
      BY <2>2
    <3>. QED  BY <2>2, <2>3, <3>1, <3>2
  <2>5. key \in EP!Lives(path[c][0])
    BY <2>2, <2>3
  <2>6. key \in EP!Keys
    <3>1. DOMAIN images[c] = EP!Lives(path[c][0]) /\ c \in 1..Len(images)
      BY <1>1, <1>2, <1>c, KnownSoFar
    <3>2. images[c] \in Tables
      BY <1>2, <3>1 DEF Listed
    <3>3. DOMAIN images[c] \subseteq EP!Keys
      BY <3>2 DEF Tables
    <3>. QED  BY <2>5, <3>1, <3>3
  <2>7. key \in EP!Lives(path[c][f])
    BY <2>2, <2>3, <2>4, <2>5, <2>6
  <2>. QED  BY <1>2, <1>5, <1>7, <2>1, <2>7 DEF Visible
<1>8. CASE InFlight.kind = "move"
  <2>1. EP!Whole = path[c][0]
    BY <1>4, <1>5, <1>8 DEF Steps
  <2>. QED  BY <1>2, <1>4, <1>5, <1>8, <2>1 DEF Fits, Visible, AllAlive
<1>. QED  BY <1>4, <1>6, <1>7, <1>8 DEF Kinds, Creates

(* And so does a command about to be undone. *)
LEMMA ReadyToUndo ==
  ASSUME EInv, Undoing
  PROVE  \/ /\ InFlight.kind \in {"create", "duplicate"}
            /\ Alive(InHand.id) => InHand.id = NewestId
         \/ /\ InFlight.kind = "delete"
            /\ \E p \in DOMAIN free_indirectors :
                 free_indirectors[p] = InHand.id.indirection_index
            /\ InHand.real_index \in 1..Entities!Size + 1
         \/ InFlight.kind = "move" /\ AllAlive(InFlight)
<1>1. PICK path, known : OnPath(path, known)
  BY DEF EInv
<1>2. EP!IInv /\ Typed /\ Reserved /\ Progressing /\ Listed /\ Visible
  BY Lists, Seen DEF EInv
<1>3. ~Arrived /\ ~Redoing
  BY <1>2 DEF Redoing, Undoing, Arrived, Listed
<1>c. PICK c : c = Place
  OBVIOUS
<1>e. PICK e : e = Steps(InFlight) - progress
  OBVIOUS
<1>y. PICK key, a : key = InHand.id /\ a = path[c][e - 1]
  OBVIOUS
<1>4. /\ c \in 1..Len(commands) /\ InFlight = commands[c]
      /\ Steps(InFlight) \in Nat /\ e \in 1..Steps(InFlight)
      /\ EP!Whole = path[c][e]
      /\ Links(InFlight, e, a, EP!Whole, TRUE)
      /\ Fits(InFlight, path[c], Steps(InFlight))
  <2>1. Backing(path, c, e)
    BY <1>1, <1>2, <1>3, <1>c, <1>e, KnownBack
  <2>. QED  BY <1>y, <2>1 DEF Backing
<1>5. /\ InFlight.kind \in Kinds
      /\ DOMAIN InFlight.entries = 1..Len(InFlight.entries)
      /\ InFlight.kind # "move" =>
           e \in 1..Len(InFlight.entries) /\ InHand = InFlight.entries[e]
  BY <1>2, <1>3, <1>e, Airborne
<1>6. CASE Creates(InFlight)
  <2>1. SUFFICES ASSUME Alive(key) PROVE key = NewestId
    BY <1>6, <1>y DEF Creates
  <2>2. key = EP!Newest(EP!Whole)
    <3>1. key # NoId
      BY <1>2, <2>1 DEF Visible
    <3>. QED  BY <1>4, <1>5, <1>6, <1>y, <3>1 DEF Links, Creates
  <2>3. slots # <<>>
    <3>1. indirectors[key.indirection_index].real_index \in DOMAIN slots
      BY <1>2, <2>1 DEF Alive, Entities!Alive, Entities!Unused,
           EP!IInv, EP!Consistent, EP!PointersPair, EP!Unused
    <3>. QED  BY <3>1
  <2>. QED  BY <1>2, <2>2, <2>3, LastSeen DEF LastVisible
<1>7. CASE InFlight.kind = "delete"
  <2>1. InHand = InFlight.entries[e] /\ e \in 1..Len(InFlight.entries)
    BY <1>5, <1>7
  <2>2. /\ EP!Sound(a) /\ key \in EP!Lives(a)
        /\ EP!Whole = EP!Freed(a, key.indirection_index)
        /\ InHand.real_index = a.indirectors[key.indirection_index].real_index
    BY <1>4, <1>7, <1>y, <2>1 DEF Links
  <2>3. key.indirection_index \in DOMAIN indirectors
    BY <1>2, <1>4, <1>7, <1>y, <2>1 DEF Reserved
  <2>4. /\ \E p \in DOMAIN free_indirectors : free_indirectors[p] = key.indirection_index
        /\ a.indirectors[key.indirection_index].real_index \in 1..Entities!Size + 1
    BY <1>2, <2>2, <2>3, CanRestore
  <2>. QED  BY <1>7, <1>y, <2>2, <2>4
<1>8. CASE InFlight.kind = "move"
  <2>1. Steps(InFlight) = 1 /\ e = 1
    BY <1>4, <1>8 DEF Steps
  <2>2. EP!Whole = path[c][0]
    BY <1>4, <1>8, <1>y, <2>1 DEF Links
  <2>. QED  BY <1>2, <1>4, <1>5, <1>8, <2>2 DEF Fits, Visible, AllAlive
<1>. QED  BY <1>5, <1>6, <1>7, <1>8 DEF Kinds, Creates

(* No command in flight meets a world it was not made for: free() and the  *)
(* mover find their entities, undo_last_allocate() takes back the entity   *)
(* made last, and undo_free() finds its indirector on the free stack.      *)
THEOREM AlwaysReplayable == Spec => []Replayable
<1>1. HInv => Replayable
  BY ReadyToRedo, ReadyToUndo DEF HInv, Replayable
<1>. QED  BY <1>1, SpecInvariant, PTL
=============================================================================
