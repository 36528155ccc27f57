--------------------------- MODULE EditorHistory ---------------------------
(***************************************************************************)
(* Undo and redo in the editor (application/setups/editor, augs/templates/ *)
(* history.h): a list of commands on the entities of one pool, the command *)
(* the mouse is still rewriting, and the mark of the revision on disk.     *)
(*                                                                         *)
(* Revision r is the state after the first r commands; the code's          *)
(* current_revision is r - 1. An entity is its position, one of a ring of  *)
(* Places, and a move adds a delta to it. Commands touch several entities  *)
(* one after the other, so a step of this module is one pool operation;    *)
(* while a command or a seek is under way the user does nothing. The       *)
(* project is not being playtested.                                        *)
(***************************************************************************)
EXTENDS Integers, Sequences, SequencesExt

CONSTANTS
  MaxSize,          \* as in Pool
  VersionSpan,      \* as in Pool
  Places,           \* number of positions
  Loaded,           \* number of entities in the project that was opened
  MaxCommands,      \* bound: length of the history
  MaxSelected       \* bound: entities selected at once

ASSUME EditorAssumption ==
  /\ {MaxSize, Places, MaxCommands, MaxSelected} \subseteq Nat \ {0}
  /\ Loaded \in 0..MaxSize
  /\ VersionSpan \in Nat
  /\ VersionSpan >= MaxSize + 2

VARIABLES
  slots, objects, indirectors, free_indirectors,   \* the entity pool
  commands,
  current_revision,
  target_revision,     \* where the seek under way ends
  progress,            \* entries of the command in flight dealt with
  then,                \* what the user's key still does after its command
  active,              \* editor_entity_mover::active
  saved_at_revision,
  modified_since_save,
  images,              \* images[r + 1]: the entities when r was first reached
  disk,                \* the entities last saved
  stale                \* the saved revision was rewritten since

pool    == <<slots, objects, indirectors, free_indirectors>>
seek    == <<current_revision, target_revision, progress>>
marks   == <<saved_at_revision, modified_since_save, disk, stale>>
vars    == <<pool, commands, seek, then, active, marks, images>>

Positions == 0..Places - 1
Entities  == INSTANCE Pool WITH Objects <- Positions, InitialCapacity <- Loaded

NeverSaved == -1
NoId       == [indirection_index |-> 0, version |-> 0]

Alive(id)    == Entities!Alive(id)
Moved(o, by) == (o + by) % Places
World        == Entities!LiveTable

(* One entity of a command: the id it concerns, the one it is cloned from, *)
(* the object to bring back and the position it was freed at.              *)
Entry(id, source, content) ==
  [id |-> id, source |-> source, content |-> content, real_index |-> 0]

Command(kind, entries, by, has_parent) ==
  [kind |-> kind, entries |-> entries, by |-> by, has_parent |-> has_parent]

(* What the user may have selected: some living entities, in any order.    *)
Selections ==
  UNION {{s \in [1..n -> Entities!LiveIds] :
            \A i, j \in 1..n : s[i] = s[j] => i = j} : n \in 1..MaxSelected}

-----------------------------------------------------------------------------
LastRevision    == Len(commands)
HasLastCommand  == current_revision > 0
LastCommand     == commands[current_revision]
Arrived         == target_revision = current_revision
Quiet           == Arrived /\ then = "nothing"

AtSavedRevision ==
  \/ commands = <<>> /\ ~modified_since_save
  \/ saved_at_revision = current_revision

Init ==
  /\ slots = [i \in 1..Loaded |-> i]
  /\ objects = [i \in 1..Loaded |-> 0]
  /\ indirectors = [i \in 1..Loaded |-> [real_index |-> i, version |-> 1]]
  /\ free_indirectors = <<>>
  /\ commands = <<>>
  /\ current_revision = 0
  /\ target_revision = 0
  /\ progress = 0
  /\ then = "nothing"
  /\ active = FALSE
  /\ saved_at_revision \in {NeverSaved, 0}
  /\ modified_since_save = FALSE
  /\ images = <<World>>
  /\ disk = World
  /\ stale = FALSE

-----------------------------------------------------------------------------
(* A slip: the mark is kept although its revision is about to vanish. *)
KeptMark == saved_at_revision

(* discard_later_revisions() invalidates the mark of a discarded revision. *)
MarkAfterDiscard ==
  IF saved_at_revision > current_revision THEN NeverSaved ELSE saved_at_revision

(* execute_new(): what could be redone is gone, the command is appended    *)
(* and then redone, which is the seek to the revision after it.            *)
ExecuteNew(command) ==
  /\ current_revision < MaxCommands
  /\ commands' = Append(SubSeq(commands, 1, current_revision), command)
  /\ target_revision' = current_revision + 1
  /\ saved_at_revision' = MarkAfterDiscard
  /\ modified_since_save' = TRUE
  /\ images' = SubSeq(images, 1, current_revision + 1)
  /\ UNCHANGED <<pool, current_revision, progress, disk, stale>>

(* MaxCommands leaves room for the move the same key starts. *)
RoomForMove == current_revision + 1 < MaxCommands

(* A flavour is dropped into the scene and sticks to the cursor. *)
Instantiate(where) ==
  /\ Quiet
  /\ ExecuteNew(Command("create", <<Entry(NoId, NoId, where)>>, 0, FALSE))
  /\ then' = "move_as_child"
  /\ RoomForMove
  /\ UNCHANGED active

(* mirror_selection(): a duplicate in place sticks to the cursor, a mirror *)
(* image appears where it belongs.                                         *)
Duplicate(selected, by) ==
  /\ Quiet
  /\ ExecuteNew(Command("duplicate",
       [i \in DOMAIN selected |-> Entry(NoId, selected[i], 0)], by, FALSE))
  /\ then' = IF by = 0 THEN "move_as_child" ELSE "nothing"
  /\ then' # "nothing" => RoomForMove
  /\ UNCHANGED active

(* push_entry() takes the content along when the command is made. *)
Delete(selected) ==
  /\ Quiet
  /\ ExecuteNew(Command("delete",
       [i \in DOMAIN selected |->
          Entry(selected[i], NoId, Entities!Deref(selected[i]))], 0, FALSE))
  /\ UNCHANGED <<then, active>>

Move(selected, by, has_parent) ==
  ExecuteNew(Command("move",
    [i \in DOMAIN selected |-> Entry(selected[i], NoId, 0)], by, has_parent))

StartMoving(selected) ==
  /\ Quiet
  /\ Move(selected, 0, FALSE)
  /\ active' = TRUE
  /\ UNCHANGED then

(* rotate_selection_once_by(): a move under way is finished by the turn    *)
(* and a new one starts after it.                                          *)
MoveOnce(selected, by) ==
  /\ Quiet
  /\ Move(selected, by, FALSE)
  /\ then' = IF active /\ HasLastCommand /\ LastCommand.kind = "move"
             THEN "move" ELSE "nothing"
  /\ then' # "nothing" => RoomForMove
  /\ UNCHANGED active

WithLiving(ids, entry) == IF Alive(entry.id) THEN Append(ids, entry.id) ELSE ids

(* The rest of the handler of a key: what was just created, or turned, is  *)
(* selected and starts to move. make_last_command_a_child() marks whatever *)
(* is last: the duplication itself when nothing could be duplicated.       *)
Continue ==
  LET ids   == FoldLeft(WithLiving, <<>>, LastCommand.entries)
      child == then = "move_as_child"
  IN /\ Arrived
     /\ then # "nothing"
     /\ then' = "nothing"
     /\ \/ /\ ids # <<>>
           /\ Move(ids, 0, child)
           /\ active' = TRUE
        \/ /\ ids = <<>>
           /\ commands' = IF LastCommand.kind = "duplicate"
                          THEN [commands EXCEPT ![current_revision].has_parent = child]
                          ELSE commands
           /\ UNCHANGED <<pool, seek, active, marks, images>>

-----------------------------------------------------------------------------
(* One entry of the command in flight. *)
Redoing  == current_revision < target_revision
Undoing  == current_revision > target_revision
InFlight == IF Redoing THEN commands[current_revision + 1] ELSE LastCommand

(* A slip: undoing front to back, as redoing, takes the pool operations    *)
(* back out of order.                                                      *)
EnteringInOrder == progress + 1

(* undo() walks the entries in reverse. *)
Entering == IF Redoing THEN progress + 1 ELSE Len(InFlight.entries) - progress
InHand   == InFlight.entries[Entering]

Finishes == progress + 1 = Len(InFlight.entries)

Through(finishes) ==
  /\ IF finishes
     THEN /\ current_revision' = IF Redoing THEN current_revision + 1
                                            ELSE current_revision - 1
          /\ progress' = 0
     ELSE /\ progress' = progress + 1
          /\ UNCHANGED current_revision
  /\ images' = IF finishes /\ Redoing /\ Len(images) = current_revision + 1
               THEN Append(images, World') ELSE images
  /\ modified_since_save' = TRUE
  /\ UNCHANGED <<target_revision, then, saved_at_revision, disk, stale>>

Remember(entry) ==
  commands' = [commands EXCEPT
    ![IF Redoing THEN current_revision + 1 ELSE current_revision].entries[Entering] = entry]

NewestId ==
  LET k == slots[Len(slots)]
  IN [indirection_index |-> k, version |-> indirectors[k].version]

(* A full pool is caught: that entity is left out. Creating purges the     *)
(* selections, which escapes the mover.                                    *)
RedoCreation ==
  LET created == IF InFlight.kind = "create" THEN InHand.content
                 ELSE Moved(Entities!Deref(InHand.source), InFlight.by)
  IN /\ Redoing
     /\ InFlight.kind \in {"create", "duplicate"}
     /\ \/ /\ Entities!Allocate(created)
           /\ Remember([InHand EXCEPT !.id = NewestId'])
        \/ /\ Entities!Full
           /\ UNCHANGED <<pool, commands>>
     /\ active' = FALSE
     /\ Through(Finishes)

(* Instantiation forgets the id and leaves the mover alone. *)
UndoCreation ==
  /\ Undoing
  /\ InFlight.kind \in {"create", "duplicate"}
  /\ \/ Entities!UndoLastAllocate(InHand.id)
     \/ ~Alive(InHand.id) /\ UNCHANGED pool
  /\ \/ /\ InFlight.kind = "create"
        /\ Remember([InHand EXCEPT !.id = NoId])
        /\ UNCHANGED active
     \/ /\ InFlight.kind = "duplicate"
        /\ active' = FALSE
        /\ UNCHANGED commands
  /\ Through(Finishes)

RedoDeletion ==
  /\ Redoing
  /\ InFlight.kind = "delete"
  /\ Entities!Free(InHand.id)
  /\ Remember([InHand EXCEPT
       !.real_index = indirectors[InHand.id.indirection_index].real_index])
  /\ UNCHANGED active
  /\ Through(Finishes)

(* A slip: the selections are not purged, so a move goes on after it. *)
UndoDeletionStillMoving ==
  /\ Undoing
  /\ InFlight.kind = "delete"
  /\ Entities!UndoFree(InHand.id.indirection_index, InHand.real_index, InHand.content)
  /\ UNCHANGED <<commands, active>>
  /\ Through(Finishes)

UndoDeletion ==
  /\ Undoing
  /\ InFlight.kind = "delete"
  /\ Entities!UndoFree(InHand.id.indirection_index, InHand.real_index, InHand.content)
  /\ active' = FALSE
  /\ UNCHANGED commands
  /\ Through(Finishes)

(* The objects once the command's entities are at the given positions. *)
Replaced(command, new) ==
  [i \in DOMAIN objects |->
     LET mine == {e \in DOMAIN command.entries :
                    indirectors[command.entries[e].id.indirection_index].real_index = i}
     IN IF mine = {} THEN objects[i] ELSE new[CHOOSE e \in mine : TRUE]]

AllAlive(command) == \A e \in DOMAIN command.entries : Alive(command.entries[e].id)

(* Redoing a move stores the transforms before it. *)
RedoMove ==
  LET entries == InFlight.entries
      before  == [e \in DOMAIN entries |-> Entities!Deref(entries[e].id)]
      after   == [e \in DOMAIN entries |-> Moved(before[e], InFlight.by)]
  IN /\ Redoing
     /\ InFlight.kind = "move"
     /\ AllAlive(InFlight)
     /\ objects' = Replaced(InFlight, after)
     /\ commands' = [commands EXCEPT ![current_revision + 1].entries =
                       [e \in DOMAIN @ |-> [@[e] EXCEPT !.content = before[e]]]]
     /\ UNCHANGED <<slots, indirectors, free_indirectors, active>>
     /\ Through(TRUE)

UndoMove ==
  LET before == [e \in DOMAIN InFlight.entries |-> InFlight.entries[e].content]
  IN /\ Undoing
     /\ InFlight.kind = "move"
     /\ AllAlive(InFlight)
     /\ objects' = Replaced(InFlight, before)
     /\ commands' = [commands EXCEPT ![current_revision].entries =
                       [e \in DOMAIN @ |-> [@[e] EXCEPT !.content = 0]]]
     /\ UNCHANGED <<slots, indirectors, free_indirectors, active>>
     /\ Through(TRUE)

-----------------------------------------------------------------------------
HasParent(r) == r \in DOMAIN commands /\ commands[r].has_parent

(* editor_history::undo() and redo(): the nearest revision on that side    *)
(* whose own command is no child, or the end of the history.               *)
Undo ==
  /\ Quiet
  /\ \E r \in 0..current_revision - 1 :
       /\ r # 0 => ~HasParent(r)
       /\ \A s \in r + 1..current_revision - 1 : HasParent(s)
       /\ target_revision' = r
  /\ UNCHANGED <<pool, commands, current_revision, progress, then, active, marks, images>>

Redo ==
  /\ Quiet
  /\ \E r \in current_revision + 1..LastRevision :
       /\ r # LastRevision => ~HasParent(r)
       /\ \A s \in current_revision + 1..r - 1 : HasParent(s)
       /\ target_revision' = r
  /\ UNCHANGED <<pool, commands, current_revision, progress, then, active, marks, images>>

(* A click into the history window. *)
SeekToRevision(r) ==
  /\ Quiet
  /\ r # current_revision
  /\ target_revision' = r
  /\ UNCHANGED <<pool, commands, current_revision, progress, then, active, marks, images>>

(* do_mousemotion(): the last command, if it is a move, is taken back and  *)
(* done anew with the delta of the cursor. The history is told nothing.    *)
Mousemotion(by) ==
  LET after == [e \in DOMAIN LastCommand.entries |->
                  Moved(LastCommand.entries[e].content, by)]
  IN /\ Quiet
     /\ active
     /\ HasLastCommand
     /\ LastCommand.kind = "move"
     /\ objects' = Replaced(LastCommand, after)
     /\ commands' = [commands EXCEPT ![current_revision].by = by]
     /\ UNCHANGED <<slots, indirectors, free_indirectors, seek, then, active,
                    saved_at_revision, modified_since_save, disk>>
     /\ stale' = (stale \/ saved_at_revision >= current_revision)
     /\ images' = Append(SubSeq(images, 1, current_revision), World')

(* Any other command ends the move. With no last command the code reads    *)
(* the element before the first: whatever is found there is taken for no   *)
(* move at all, if the program survives the access.                        *)
MousemotionEndsMove ==
  /\ Quiet
  /\ active
  /\ HasLastCommand => LastCommand.kind # "move"
  /\ active' = FALSE
  /\ UNCHANGED <<pool, commands, seek, then, marks, images>>

(* A click or the escape key. *)
StopMoving ==
  /\ Quiet
  /\ active
  /\ active' = FALSE
  /\ UNCHANGED <<pool, commands, seek, then, marks, images>>

(* save_folder() and mark_as_just_saved(). *)
Save ==
  /\ Quiet
  /\ disk' = World
  /\ saved_at_revision' = current_revision
  /\ modified_since_save' = FALSE
  /\ stale' = FALSE
  /\ UNCHANGED <<pool, commands, seek, then, active, images>>

Next ==
  \/ \E where \in Positions : Instantiate(where)
  \/ \E selected \in Selections :
       \/ \E by \in Positions : Duplicate(selected, by)
       \/ Delete(selected)
       \/ StartMoving(selected)
       \/ \E by \in Positions \ {0} : MoveOnce(selected, by)
  \/ Continue
  \/ RedoCreation \/ UndoCreation
  \/ RedoDeletion \/ UndoDeletion
  \/ RedoMove \/ UndoMove
  \/ Undo \/ Redo
  \/ \E r \in 0..LastRevision : SeekToRevision(r)
  \/ \E by \in Positions : Mousemotion(by)
  \/ MousemotionEndsMove
  \/ StopMoving
  \/ Save

Spec == Init /\ [][Next]_vars

-----------------------------------------------------------------------------
(* However the history is walked, a revision shows the same entities under *)
(* the same ids as when it was first reached: undo restores what redo      *)
(* changed, and redo hands out the ids that the later commands mention.    *)
UndoExact == Arrived => World = images[current_revision + 1]

(* No command in flight meets a world it was not made for: what it names   *)
(* lives, creations are taken back last first, and what is brought back    *)
(* finds its indirector unused. The code asserts, throws or corrupts the   *)
(* pool otherwise.                                                         *)
Replayable ==
  /\ Redoing =>
       \/ InFlight.kind = "create" /\ InHand.id = NoId
       \/ InFlight.kind = "duplicate" /\ Alive(InHand.source)
       \/ InFlight.kind = "delete" /\ Alive(InHand.id)
       \/ InFlight.kind = "move" /\ AllAlive(InFlight)
  /\ Undoing =>
       \/ /\ InFlight.kind \in {"create", "duplicate"}
          /\ Alive(InHand.id) => InHand.id = NewestId
       \/ /\ InFlight.kind = "delete"
          /\ \E p \in DOMAIN free_indirectors :
               free_indirectors[p] = InHand.id.indirection_index
          /\ InHand.real_index \in 1..Entities!Size + 1
       \/ InFlight.kind = "move" /\ AllAlive(InFlight)

(* What the editor takes for saved is what the disk holds, as long as no   *)
(* command the saved state contains is rewritten by the mouse.             *)
SavedUnlessRewritten == Quiet /\ AtSavedRevision /\ ~stale => World = disk

=============================================================================
