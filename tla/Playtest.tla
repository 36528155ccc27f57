------------------------------ MODULE Playtest ------------------------------
(***************************************************************************)
(* Playtesting in the editor: snapshotted_player, editor_player and the    *)
(* part of editor_history that moves through time.                         *)
(*                                                                         *)
(* While a test runs, the player counts steps, records the input of each   *)
(* step, and now and then pushes a snapshot of the world. Commands of the  *)
(* author take place between steps and remember the step they happened at. *)
(* Seeking loads a snapshot and replays inputs and commands from there, so *)
(* that undo, the slider, a rewind and the recovery from a crash all rest  *)
(* on one promise: a world reached through snapshots is the world that     *)
(* playing everything from the start would give.                           *)
(*                                                                         *)
(* A world is what was done to it, in order: the edits of commands, the    *)
(* bots added when a test starts, and one input for each step solved.      *)
(* Revisions count commands, the first revision (-1 in the code) being 0.  *)
(* Frames perform any number of steps: the model takes them one by one.    *)
(***************************************************************************)
EXTENDS Naturals, Sequences, SequencesExt, FiniteSetsExt

CONSTANTS Edits,        \* what a command may do to the world
          PlaytestOnly, \* edits of is_playtest_specific commands
          Inputs,       \* inputs other than the empty one
          Overwrites,   \* settings of the recording options tried
          Interval,     \* snapshot_interval_in_steps
          MaxSteps,     \* bound: steps of a test
          MaxBefore,    \* bound: commands executed outside of tests
          MaxTestCommands   \* bound: commands of the test and of before it

ASSUME PlaytestAssumption ==
  /\ PlaytestOnly \subseteq Edits
  /\ Overwrites \subseteq BOOLEAN
  /\ Interval \in Nat /\ MaxSteps \in Nat /\ MaxBefore \in Nat /\ MaxTestCommands \in Nat

VARIABLES folder,  \* editor_folder: world, history and player
          suspect  \* history variable: see Suspicious
playtest_vars == <<folder, suspect>>

NoInput == "no_input"
Bots    == "bots"
Half    == "half_a_step"
NotStarted == [world |-> <<"not_started">>, commands |-> <<>>, revision |-> 0]

Testing  == folder.before # NotStarted
Fail(f, why) == IF f.failed = "nothing" THEN [f EXCEPT !.failed = why] ELSE f
Fine(f)  == f.failed = "nothing"
Total(f) ==                                  \* get_total_steps
  LET inputs   == DOMAIN f.entropies \cup {0}
      recorded == inputs \cup IF f.mode = "RECORDING" THEN {f.step} ELSE {}
      last     == IF f.commands = <<>> THEN 0 ELSE Last(f.commands).when
  IN  Max(recorded \cup {last})

-----------------------------------------------------------------------------
(* Commands.                                                               *)

RedoNext(f) ==
  [f EXCEPT !.world = Append(@, f.commands[f.revision + 1].edit), !.revision = @ + 1]

\* A command undone in a world it was not done in last leaves it as it is.
UndoLast(f) ==
  [f EXCEPT !.world = IF @ # <<>> /\ Last(@) = f.commands[f.revision].edit
                      THEN Front(@) ELSE @,
            !.revision = @ - 1]

DiscardLater(f) == [f EXCEPT !.commands = SubSeq(@, 1, f.revision)]

ExecuteNow(f, edit) ==
  RedoNext([f EXCEPT !.commands = Append(DiscardLater(f).commands,
                                         [edit |-> edit, when |-> f.step])])

\* The redos at the start of a step, with the assertions of the loop.
RedoIfDue(f, i) ==
  IF ~Fine(f) \/ i # f.revision + 1 \/ f.commands[i].when > f.step THEN f
  ELSE IF f.commands[i].when < f.step THEN Fail(f, "next_command_is_past")
  ELSE RedoNext(f)

RedoDue(f) == FoldLeft(RedoIfDue, f, [i \in 1 .. Len(f.commands) |-> i])

-----------------------------------------------------------------------------
(* Steps and snapshots.                                                    *)

LastSnapshot(f, step) == Max({s \in DOMAIN f.snapshots : s <= step})

PushSnapshotIfNeeded(f, interval) ==
  LET taken  == IF f.step = 0 THEN [world |-> <<>>, revision |-> 0]
                              ELSE [world |-> f.world, revision |-> f.revision]
      pushed == [f EXCEPT !.snapshots = [s \in {f.step} \cup DOMAIN @ |->
                                           IF s = f.step THEN taken ELSE @[s]]]
  IN  IF ~(f.mode = "RECORDING" \/ (f.mode = "REPLAYING" /\ f.step = 0)) THEN f
      ELSE IF DOMAIN f.snapshots = {}
           THEN IF f.step = 0 THEN pushed ELSE Fail(f, "no_snapshot")
      ELSE IF interval > 0 /\ f.step - LastSnapshot(f, f.step) >= interval
           THEN pushed ELSE f

Input(f, step) == IF step \in DOMAIN f.entropies THEN f.entropies[step] ELSE NoInput

\* The entry of a step is overwritten or kept, and erased if it is empty.
RecordEntry(f, input, overwrite) ==
  LET others == DOMAIN f.entropies \ {f.step}
      entry  == IF overwrite THEN input ELSE Input(f, f.step)
  IN  [f EXCEPT !.entropies = [s \in others \cup IF entry = NoInput THEN {} ELSE {f.step}
                                 |-> IF s = f.step THEN entry ELSE @[s]]]

RecordKeepingSnapshots(f, input, overwrite) == RecordEntry(f, input, overwrite)
Record(f, input, overwrite) ==
  [RecordEntry(f, input, overwrite) EXCEPT
     !.snapshots = [s \in {t \in DOMAIN @ : t <= f.step} |-> @[s]]]

\* Everything of advance_single_step that comes before the world moves on.
PrepareStep(f, input, overwrite, interval) ==
  LET pushed == PushSnapshotIfNeeded(f, interval)
  IN  IF ~Fine(pushed) THEN pushed
      ELSE RedoDue(IF f.mode = "RECORDING" THEN Record(pushed, input, overwrite) ELSE pushed)

AdvanceSingleStep(f, input, overwrite, interval) ==
  LET ready == PrepareStep(f, input, overwrite, interval)
  IN  IF ~Fine(ready) THEN ready
      ELSE [ready EXCEPT !.world = Append(@, Input(ready, ready.step)), !.step = @ + 1]

LoadKeepingRevision(f, s) ==
  [f EXCEPT !.world = IF s = 0 THEN Append(f.before.world, Bots) ELSE f.snapshots[s].world,
            !.step  = s]

\* A revision that is no more in the history is forced all the same; whatever
\* asks for the next or the last command then reads past the end.
LoadSnapshot(f, s) ==
  LET loaded == [f EXCEPT
        !.world    = IF s = 0 THEN Append(f.before.world, Bots) ELSE f.snapshots[s].world,
        !.revision = f.snapshots[s].revision,
        !.step     = s]
  IN  IF loaded.revision > Len(f.commands) THEN Fail(loaded, "revision_does_not_exist")
                                           ELSE loaded

\* A step on the way of a seek: its input is empty.
StepOn(f, settings) ==
  IF Fine(f) THEN AdvanceSingleStep(f, NoInput, settings[1], settings[2]) ELSE f

\* Seeking: base::seek_to.
Seek(f, target, overwrite, interval) ==
  LET adjacent == LastSnapshot(f, target)
      from     == IF target < f.step \/ target - adjacent < target - f.step
                  THEN LoadSnapshot(f, adjacent) ELSE f
  IN  IF target = f.step THEN f
      ELSE IF DOMAIN f.snapshots = {} THEN Fail(f, "no_snapshot")
      ELSE FoldLeft(StepOn, from, [i \in 1 .. target - from.step |-> <<overwrite, interval>>])

SeekTrimmed(f, target, overwrite) == Seek(f, Min({target, Total(f)}), overwrite, Interval)

-----------------------------------------------------------------------------
(* Moving through the history: undo, redo and clicks on revisions.         *)

UndoTurn(f, i) == UndoLast(f)
RedoTurn(f, i) == RedoNext(f)

UndoUntil(f, target) == FoldLeft(UndoTurn, f, [i \in 1 .. f.revision - target |-> i])

RedoUntil(f, target) ==
  IF ~Fine(f) THEN f
  ELSE IF f.revision > target THEN Fail(f, "beyond_the_target_revision")
  ELSE FoldLeft(RedoTurn, f, [i \in 1 .. target - f.revision |-> i])

WhenHappened(f, target) == IF target = 0 THEN 0 ELSE f.commands[target].when

SeekThroughTime(f, target) ==
  LET g    == IF f.before # NotStarted /\ f.mode = "RECORDING"
              THEN [f EXCEPT !.mode = "REPLAYING"] ELSE f
      step == WhenHappened(f, target)
  IN  IF target = f.revision THEN f
      ELSE IF f.before = NotStarted
           THEN IF f.revision < target THEN RedoUntil(g, target) ELSE UndoUntil(g, target)
      ELSE IF f.revision < target
           THEN IF f.step > step THEN Fail(g, "redo_goes_back_in_time")
                ELSE RedoUntil(SeekTrimmed(g, step, TRUE), target)
      ELSE IF f.step = step THEN UndoUntil(g, target)
      ELSE IF f.step < step THEN Fail(g, "undo_goes_forth_in_time")
      ELSE RedoUntil(SeekTrimmed(g, step, TRUE), target)

-----------------------------------------------------------------------------
(* A test begins and ends.                                                 *)

InitializeTesting(f) ==
  [f EXCEPT !.before = [world |-> f.world, commands |-> f.commands, revision |-> f.revision],
            !.world = Append(@, Bots), !.commands = <<>>, !.revision = 0]

Begin(f, mode) ==
  LET g == [(IF f.before = NotStarted THEN InitializeTesting(f) ELSE f) EXCEPT !.mode = mode]
  IN  IF mode = "RECORDING" THEN DiscardLater(g) ELSE g

RestoreSavedState(f) ==
  [f EXCEPT !.world = f.before.world, !.commands = f.before.commands,
            !.revision = f.before.revision, !.before = NotStarted,
            !.entropies = <<>>, !.snapshots = <<>>, !.step = 0, !.mode = "PAUSED"]

Reapply(f, command) ==
  IF command.edit \in PlaytestOnly THEN f ELSE ExecuteNow(f, command.edit)

FinishTesting(f, reapply) ==
  IF reapply THEN FoldLeft(Reapply, DiscardLater(RestoreSavedState(f)),
                           SubSeq(f.commands, 1, f.revision))
             ELSE RestoreSavedState(f)

ReloadForgettingRevision(f) ==
  IF f.step = 0 THEN f
  ELSE Seek(Seek([f EXCEPT !.mode = "PAUSED"], f.step - 1, TRUE, 0), f.step, TRUE, 0)

\* A folder is loaded from its autosave: the player is sought anew to where it
\* was, since the world saved may be in the middle of a step.
Reload(f) ==
  LET there == Seek(Seek([f EXCEPT !.mode = "PAUSED"], f.step - 1, TRUE, 0), f.step, TRUE, 0)
  IN  IF f.step = 0 THEN f
      ELSE IF ~Fine(there) THEN there ELSE SeekThroughTime(there, f.revision)

-----------------------------------------------------------------------------
(* The actions. A failed assertion ends the program, and the behaviour.    *)

PlaytestInit ==
  /\ folder = [world |-> <<>>, commands |-> <<>>, revision |-> 0, mode |-> "PAUSED",
               step |-> 0, entropies |-> <<>>, snapshots |-> <<>>,
               before |-> NotStarted, failed |-> "nothing"]
  /\ suspect = FALSE

\* What the snapshots do not learn of: commands that enter the history, or
\* leave it, behind a snapshot. They are left as they are (see README).
Suspicious(f, g) ==
  /\ f.commands # g.commands
  /\ \E s \in DOMAIN f.snapshots :
       \/ f.snapshots[s].revision > f.revision
       \/ s > f.step /\ Len(g.commands) > f.revision

Becomes(g) ==
  /\ Fine(folder)
  /\ folder' = g
  /\ suspect' = (g.before # NotStarted /\ (suspect \/ Suspicious(folder, g)))

Execute(edit) ==
  /\ folder.mode # "REPLAYING"               \* allow_new_commands
  /\ edit \in PlaytestOnly => Testing
  /\ IF Testing THEN Len(folder.commands) + Len(folder.before.commands) < MaxTestCommands
                ELSE Len(folder.commands) < MaxBefore
  /\ Becomes(ExecuteNow(folder, edit))

JumpToRevision(target) ==
  /\ target \in 0 .. Len(folder.commands) /\ target # folder.revision
  /\ Becomes(SeekThroughTime(folder, target))

BeginMode(mode) ==
  /\ folder.mode # mode
  /\ Testing \/ folder.revision # 0          \* refused on the first revision
  /\ Becomes(Begin(folder, mode))

Pause == folder.mode # "PAUSED" /\ Becomes([folder EXCEPT !.mode = "PAUSED"])

\* Time passes, or a paused player was asked for more steps.
Advance(input, overwrite) ==
  /\ Testing /\ folder.step < MaxSteps
  /\ Becomes(AdvanceSingleStep(folder, input, overwrite, Interval))

\* The slider and the Rewind button, which stop a recording first.
SlideTo(target) ==
  /\ Testing /\ target \in 0 .. Total(folder)
  /\ LET f == IF folder.mode = "RECORDING" THEN Begin(folder, "REPLAYING") ELSE folder
     IN  Becomes(SeekTrimmed(f, target, TRUE))

\* The keys, which do not.
SeekBackward(offset, overwrite) ==
  /\ Testing /\ folder.step > 0
  /\ LET target == IF folder.step >= offset THEN folder.step - offset ELSE 0
     IN  Becomes(Seek(folder, target, overwrite, Interval))

Finish(reapply) ==
  Testing /\ folder.mode = "PAUSED" /\ Becomes(FinishTesting(folder, reapply))

\* The program is closed, or an assertion fails, and starts again.
Reopen == Testing /\ folder.step > 0 /\ Becomes(Reload(folder))

\* An assertion fails while a step is solved: ensure_handler() pauses and saves.
\* In the first step there is nothing to seek back to.
CrashInStep(input, overwrite) ==
  LET ready == PrepareStep(folder, input, overwrite, Interval)
      saved == [ready EXCEPT !.mode = "PAUSED", !.world = Append(@, Half)]
  IN  /\ Testing /\ folder.step < MaxSteps /\ Fine(folder) /\ Fine(ready)
      /\ folder' = Reload(saved)
      /\ suspect' = (suspect \/ folder.step = 0)

PlaytestNext ==
  \/ \E edit \in Edits : Execute(edit)
  \/ \E target \in 0 .. MaxTestCommands : JumpToRevision(target)
  \/ \E mode \in {"RECORDING", "REPLAYING"} : BeginMode(mode)
  \/ Pause
  \/ \E input \in Inputs \cup {NoInput}, overwrite \in Overwrites :
       Advance(input, overwrite) \/ CrashInStep(input, overwrite)
  \/ \E target \in 0 .. MaxSteps : SlideTo(target)
  \/ \E offset \in 1 .. MaxSteps, overwrite \in Overwrites : SeekBackward(offset, overwrite)
  \/ \E reapply \in BOOLEAN : Finish(reapply)
  \/ Reopen

PlaytestSpec == PlaytestInit /\ [][PlaytestNext]_playtest_vars

-----------------------------------------------------------------------------
(* Properties.                                                             *)

\* What playing from the start would give: at each step first its commands,
\* up to the revision, then its input.
Edited(commands) == [i \in DOMAIN commands |-> commands[i].edit]
Onto(world, part)  == world \o part

EditsAt(f, step, revision) ==
  FoldLeft(Onto, <<>>, [i \in 1 .. revision |->
    IF f.commands[i].when = step THEN <<f.commands[i].edit>> ELSE <<>>])

Played(f, step, revision) ==
  LET Solved(s) == Append(EditsAt(f, s, revision), Input(f, s))
  IN  FoldLeft(Onto, Append(f.before.world, Bots), [i \in 1 .. step |-> Solved(i - 1)])
        \o EditsAt(f, step, revision)

\* However a step was reached, by playing, seeking, undoing or reopening after a
\* crash, the world is the one that playing from the start would give. Outside of
\* tests it is what the history says: nothing of a test stays after it, neither
\* the bots nor inputs nor commands that were not reapplied.
WorldIsReplay ==
  /\ Testing /\ ~suspect /\ Fine(folder) =>
       folder.world = Played(folder, folder.step, folder.revision)
  /\ ~Testing => folder.world = Edited(SubSeq(folder.commands, 1, folder.revision))

\* What is done happened by now, what can be redone happens from now on: the
\* assertion ensure_leq(current_step, when_happened) of the step holds.
CommandsInOrder == Testing /\ ~suspect =>
  \A i \in DOMAIN folder.commands :
    IF i <= folder.revision THEN folder.commands[i].when <= folder.step
                            ELSE folder.commands[i].when >= folder.step

SnapshotAhead ==
  /\ folder.step \in DOMAIN folder.snapshots
  /\ folder.snapshots[folder.step].revision > folder.revision

\* Reopening a folder leaves the player where it was and the author at the
\* revision he was at, unless a snapshot of this very step has later commands
\* of the step in it: then the player goes back to the last command done.
ReopensInPlace ==
  [][Reopen /\ ~suspect /\ ~SnapshotAhead /\ Fine(folder)' =>
       folder'.step = folder.step /\ folder'.revision = folder.revision]_playtest_vars
=============================================================================
