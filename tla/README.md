# Hypersomnia: a verification project

TLA+ models of the parts of Hypersomnia (a top-down multiplayer shooter with its own engine, server and level
editor) whose correctness depends on *order*: the order of operations on a pool of ids, of commands in an editor's
history, of the steps of several threads, of the phases of a match, of messages between servers, clients and the
masterserver. Every module is checked by TLC on small instances. The safety of the object pool, the editor's history,
the frame loop, the lockstep, the sessions, the server list and the NAT traversal is also proved with TLAPS, for every
value of the constants.

All paths below are relative to the repository (`src/src/` is the C++ source).

## 1. Inventory

| Component | Source | State | Operations | Talks to |
|---|---|---|---|---|
| Object pool | `augs/misc/pool/` | packed objects, the slot of each, indirectors with versions, a stack of free indirectors | allocate, free, both undos, reserve, clear, write and read as Lua | every container of entities; the ids are kept by everybody |
| Editor command history | `augs/templates/history.{h,hpp}`, `application/setups/editor/editor_history.*` | commands, current revision, saved mark | execute_new, undo, redo, seek, save | pool (through the commands), mover |
| Editor commands and mover | `application/setups/editor/commands/`, `gui/editor_entity_mover.cpp` | contents kept by each command, the mover's `active` flag | redo/undo of create, duplicate, delete, move; a drag that rewrites the last command | history, pool |
| Thread pool | `augs/templates/thread_pool.h` | task stacks, two counters, `shall_quit`, two mutexes and condition variables | enqueue, submit, help, wait, resize, quit | game, main and audio threads |
| Frame buffers, audio queue | `application/main/game_frame_buffer.h`, `augs/audio/audio_command_buffers.h` | two frame buffers, two flags; a ring of audio buffers and its thread | wait_swap, swap_buffers; map, submit, finish | thread pool |
| Server and client sessions | `application/setups/server/`, `application/setups/client/` | a state per client slot, players in the mode, avatars, time-outs | connect, settings, admission, initial state, resync, kick, leave | lockstep, game mode, transport |
| Lockstep and prediction | `application/network/simulation_receiver.h` | incoming steps and acknowledgement counts, predicted entropies, two copies of the world | accept a step, verify its hash, repredict, resynchronise | sessions, cosmos |
| Bomb defusal mode | `game/modes/bomb_defusal.*`, `game/detail/hand_fuse_logic.h` | players, sides, phase and clock, score, money, colours, characters, the bomb | join, leave, choose a team, buy, plant, defuse, special commands, migration to another arena | cosmos, sessions |
| Editor playtest and replays | `editor_player.*`, `augs/templates/snapshotted_player.*` | recorded inputs, snapshots, step, the state before the test | begin, pause, seek, end, reopen after a crash | history, cosmos |
| Server list | `application/masterserver/masterserver.*`, the heartbeats of `server_setup.cpp` | entries with the time of the last heartbeat, the serialized list, the dump | heartbeat, goodbye, time-out, dump and load | servers, NAT |
| NAT detection and traversal | `application/nat/`, `server_nat_traversal.cpp` | a session on each side, timers, the port seen by a STUN server | request, STUN, predict, open holes, retry | masterserver |
| Item transfers | `game/detail/inventory/`, `item_system.cpp`, `gun_system.cpp` | slots and what is in them, charges, pending mounts, reloading contexts | transfer, stack, split, mount, reload, pick up, chamber, delete | cosmos |
| Viewables streaming | `view/viewables/streaming/` | futures for atlases and sounds | submit, poll, finalise | thread pool, back ends |

Left aside: vendored code, the simulation of physics and combat (deterministic, sequential, numerical), rendering
and audio back ends, GUI, `reliable_channel` and `jitter_buffer` (included by nothing but their own tests).

### Which behaviours are hard

* **Ids that outlive their objects.** Ids are copied everywhere; the pool moves objects on every removal, versions
  wrap, undo brings ids back to life, a Lua round trip forgets spent versions.
* **A history over moving ids.** Commands of the editor keep ids and positions *inside* the pool. They are valid
  only in the exact state they were made for, so every undo must restore the pool to the last detail.
* **The last command is not final.** While the mouse drags, the last command is rewritten in place. A save, an
  undo, a deletion may come in the middle.
* **Three condition-variable protocols over one frame.** Game, main and audio thread and the workers exchange two
  frame buffers, a task stack and an audio ring with five mutexes, some atomics, and no check that they fit.
* **Server and clients step in lockstep over reliable and unreliable channels,** with players that come and go,
  prediction on top and a recovery when the copies of the world differ.

* **A past that can be rewritten.** A playtest is recorded step by step with commands in between, sought through
  snapshots, undone, recorded over and cut off by a crash; each of these must lead to the one world that playing
  from the start would give.
* **A match of people who come and go.** The solver decides on deaths and bombs, the mode on rounds a step later;
  in between players leave, sides are swapped, a match is restarted.
* **UDP between strangers.** A server list that heartbeats, goodbyes, time-outs and a dump from before a crash all
  write to; two NATs whose next port each side has to guess.
* **Items that are moved by several systems in one step.** A command, a reload that goes on by itself, a mount that
  takes time and a touch all move charges in and out of nested containers.

PROJECT.json lists each hazard at its line, with the properties that cover it or the reason why none does yet.

### What makes each component correct

* Pool: slots and indirectors pair up; no indirector leaks or is handed out twice; an id alive before and after an
  operation denotes the same object; without undos, an id is issued at most once.
* Editor: each revision is always the same world, however it is reached; no command is done or undone in a world
  it was not made for; the tab closes without a question only when the disk holds the world; what belongs together
  is undone together.
* Threads: no task is lost, run twice or counted wrongly; buffers are exchanged while nobody writes to them; the
  pool is empty between frames; every frame ends; the program ends when asked to.
* Bomb defusal: every round ends once and is counted once for the team that won it; phases end in time; who joined
  gets to play; colours and teams keep their limits.
* Playtest: the world at a step is what playing from the start gives, whatever way led there; nothing of a test
  stays in the level but the edits that were asked for.
* Server list: once nothing happens any more, the list is that of the servers that announce themselves.
* NAT traversal: the address handed on is open both ways; an undisturbed attempt succeeds.
* Items: charges are neither lost nor made; nothing is overfilled; reloading and mounting come to rest.
* Sessions: a client that is in game has received a snapshot and every step since; the players of the mode are the
  clients of the slots; a slot is not inherited by a stranger.
* Lockstep: the client's accepted world is the server's after the same number of steps; predicted inputs are
  exactly those sent and not yet accepted.

## 2. Modules

| Module | Models | Extends / instantiates |
|---|---|---|
| `Pool.tla` | `augs::pool` | refines `IdTable` |
| `IdTable.tla` | what a pool promises: a table in which each id is issued at most once | |
| `PoolProofs.tla` | theorems about `Pool` | `Pool`, TLAPS library |
| `EditorHistory.tla` | history, commands and mover of the editor | instantiates `Pool` for the entities |
| `ThreadPool.tla` | `augs::thread_pool`, as operations | |
| `FrameLoop.tla` | the threads of the client around one frame | extends `ThreadPool` |
| `Lockstep.tla` | a server and a client that advance the same world | |
| `Session.tla` | the slots of a server: connections, clients, players | |
| `BombDefusal.tla` | a match: players, sides, rounds, the bomb | |
| `Playtest.tla` | recording, snapshots, seeking and undo during a playtest in the editor | |
| `ServerList.tla` | servers, datagrams, the masterserver and its dump | |
| `NatTraversal.tla` | client, server, masterserver, and the two NATs between them | |
| `ItemTransfers.tla` | slots, stacks, mounts, reloads, pick-ups | |
| `SeqFolds.tla` | theorems about `FoldLeft`, for any operator: the loops of the models | TLAPS library |
| `EditorHistoryProofs.tla` | theorems about `EditorHistory` | `EditorHistory`; instantiates `PoolProofs` |
| `GameThreadProofs.tla` | theorems about `FrameLoop` with `ThreadPool`, and about `Playtest`: what the game thread waits for and what it advances | `FrameLoop`, `Playtest`; instantiates `SeqFolds` |
| `LockstepProofs.tla` | theorems about `Lockstep` | `Lockstep`; instantiates `SeqFolds` |
| `SessionProofs.tla` | theorems about `Session` | `Session`; instantiates `SeqFolds` |
| `BombDefusalProofs.tla` | theorems about `BombDefusal` | `BombDefusal`; instantiates `SeqFolds` |
| `MasterserverProofs.tla` | theorems about `NatTraversal` and `ServerList` | `NatTraversal`, `ServerList`; instantiates `SeqFolds` |
| `MC*.tla`, `*.cfg` | instances for TLC | |

### Pool

`slots`, `objects`, `indirectors`, `free_indirectors` are the fields of the class. Each public operation that
changes them is one action: `Allocate` with the growth of the capacity in it, `Free`, `UndoLastAllocate`,
`UndoFree`, `Reserve`, `Clear`, `ReadLua` (a pool written to a project file and read back). Positions count from 1,
0 stands for -1; versions are modular (`VersionSpan`). Synchronized arrays move in the same statements as the
objects and are part of them. `UndoFree` is enabled for *any* unused indirector and position the code's asserts
admit, which is more than the editor does; the invariants hold nevertheless.

`IdTable` is the promise of `docs/pages/docs/Topics/pool_id.md`: an id denotes one object, ever. `LifetimeSpec` is
the pool without undos (which give ids back by design) up to the wrap of versions; it implements the table with
`live` mapped to the table of living ids and `retired` to the earlier versions of each indirector.

### EditorHistory

The entity pool is an instance of `Pool`. A command keeps what the C++ command keeps (ids, sources, contents,
positions). A command of several entities is several steps, one per pool operation, in the order the code takes
them: forwards when redone, backwards when a deletion or a duplication is undone. `then` is what the handler of the
key still does after its command (a created entity starts to move); `Continue` drops from the selection what no longer
lives (`WithLiving`, as `make_command_from_selections.h` does), one entity after the other. `active` is the mover. `images`, `disk` and
`stale` are history variables: the world when a revision was first reached, the world last saved, and whether the
saved command was rewritten since.

### ThreadPool and FrameLoop

A step is what happens under one lock. The worker's wait takes two steps, because `quit_all_workers()` does not
take the mutex between them; other conditions change under the mutex of their wait and are followed by a
notification, so a wait is a guard. `FrameLoop` composes the pool with the game thread (prepare, enqueue, submit,
help, wait, `wait_swap`), the main thread (render, help, `swap_buffers`, the synchronised part, the shutdown) and the
audio thread (perform, report, help while it holds its mutex). One job stands for those enqueued before the audio
job and one for those after; whether a frame has an audio job follows from the ring.

### Lockstep

The server (`server`), one client (`client`) and the two reliable, ordered channels between them. Each message
handler is an action (`ServerHandles...`, `ClientHandles...`); what either side does in a tick once its messages
are handled is one action (`ServerTick`, `ClientStep`). A world is its arena, whether the player is in it, and a
digest of the steps made, so that two worlds with the same digest went through the same steps up to the span of the
digest. The client's `referential` world solves the steps of the server in batches (`UnpackDeterministicSteps`), its
`predicted` world runs ahead with `predicted_entropies`. The handshake, the squashing of commands that wait too
long, the forced choice of an arena and the resynchronisation are as in the code, including what a handler does
while steps are still queued. A connection that is given up sets `link` to the reason. `history` is for the
properties: whether an update overtook queued steps, whether an arena was loaded under the predictions, and how
many accepted commands a resynchronisation forgot.

The other players appear as what they contribute to a step (`Others`); sessions of several clients, kicks, chat and
avatars are left out. When a step is unpacked without a prediction for it, the code reads past the end of
`predicted_entropies` (`simulation_receiver.h:220`) to decide whether to predict anew; the model has nothing to
predict anew then. The hash is sent with each step, as it is by default.

### Session

A tick of the server over all its slots, in the code's order: the transport reports who came and went (`Connect`,
`Leave`, until `PacketsReceived`), then `Tick` handles these events (`HandleEvent`), a message of each client
(`HandleMessage`), looks after the clients slot by slot (`ProcessClient`) and solves the step, which adds and removes
at most one player. The three loops are folds; a record of the tick in progress passes from turn to turn. `transport` is what yojimbo believes, `clients` what the
server's records say, `pending_events` what the first has not yet told the second. Connections are numbered, which
lets the properties tell whose player a slot holds; the code knows only the slot. Times are ages in ticks. The
sayings of a client are those that matter here: settings, also restated, any other message that is valid in every state
(chat, remote control, an avatar, a request for the state: `"talk"`), a command, an empty command of somebody away
from the keyboard, an offence (any cause of a kick), garbage (any cause of an immediate disconnection). Each valid one
resets `silent`, as `handle_client_message()` ends with `last_valid_message_time` (`server_setup.cpp:1221`). A client says
one thing per tick; of several, the last that matters would do.

`Stalls` is a client that was heard from and gets no further by it. The time limits count from the last valid message, so
one who does this again and again stays in the lobby for ever, or behind the player of its predecessor, who is then not
removed either. `Settles` and `DepartedAreRemoved` leave exactly these clients out (`[]<>` as an alternative, for each
connection of its own), and nobody else: who falls silent, plays, or offends is covered in every order.

`Session` and `Lockstep` meet in the client's state and its initial state: `Session` decides when a client gets it,
`Lockstep` what it is worth.

### BombDefusal

`mode` is the mode with the parts of its cosmos that decide on it: the clock in seconds, the characters and the bomb.
Each method is an operator from one mode to the next, or to the set of those that the random generator may choose
(`Balanced` and `FactionMappings`; the latter also because the code iterates over an unordered map). `Advance` is one
step of the cosmos as `bomb_defusal::advance()` composes it: `ModePreSolve` (one removal or addition, special
commands, the phases), `ExecutePlayerCommands` (knocking oneself out, team choices, purchases), then the solver, of
which `Solve` keeps deaths, the fuse, planting and defusing. `ChooseArena` is a change of the arena with `emigrate()`
and `migrate()`. `history` is for the properties: which team each player is of, which side that team is on and the rounds
it won. `undefined` is set when the last player left, memory was written through the end of the empty map (section 5), and
nothing is known any more; the model takes no step from there. That nothing is written is the other outcome, from which it
goes on. Left out: equipment and how it is carried over, bots, statistics, sounds, spawn points, the money of single
weapons beyond one price, and that a player who is added twice would choose his faction again (the server adds nobody
twice).

### Playtest

`folder` is an `editor_folder` with its world, its history and its `editor_player`. A world is the list of what was done
to it, so that two ways to a step can be compared exactly. `PrepareStep` and `AdvanceSingleStep` are the two halves of
`snapshotted_player::advance_single_step()`; `Seek` loads the snapshot and replays from there; `SeekThroughTime` is the
history's undo and redo through time; `Reopen` is a crash or a close and what `load_folder()` makes of it. Steps come
one by one, while the code makes several in a frame. `suspect` marks states the code reaches by the faults listed in
section 5; properties speak of the others, and `SuspectOnlyEnds` lets a suspect state only be left by ending the test.

### ServerList

`servers` are the game servers (`ServerTick` with its heartbeats), `datagrams` what is on its way, `master` the
masterserver with its list, its serialized copy and its dump. A datagram may be lost, delayed, overtaken and delivered
again; the four copies that the code sends of a first heartbeat and of a goodbye are one such datagram. Losses, delays
over a unit of time, crashes, stops, changes of settings and invalid data are counted in `happened`, bounded by
`MaxHappenings`.
Assumed: the resolution of a name yields one address; invalid data comes only from listed servers. Left out: HTTP,
pings, the browser's window.

### NatTraversal

A client and a game server, each behind a NAT, and the masterserver, which relays what they ask of each other and
counts as a STUN server. Both sides' sessions are translated step by step (`ClientAdvance`, `ClientReceives`;
`HandleStep`, `SendServerStun`, `HandleServerStun`, `Tick`). The NATs are external: `Key` and `PortTo` say which mapping
a packet takes, `LetsIn` is the filter, for the three types that `nat_detection_session` tells apart. `NextAttempt` is
the retry of `work.cpp`: a new session on a new socket. Left out: the detection, name resolution, several clients,
that the server sends one queued packet per frame, and that it sends the result of a STUN request again at most five
times (`server_nat_traversal.cpp:191`), which is more than an attempt of the run asks for.

### ItemTransfers

`world` maps every slot to its items; a stack has charges, a magazine its rounds. `Solve` is one step of the cosmos in
the order of `standard_solve()`: transfers commanded, chambering, reloads, mounts, pick-ups, and in the end
the queued deletions. `PerformTransfer` asks `TransferredCharges` how much may go, then stacks, splits or moves;
`AdvanceReloadingContexts` is the state machine of a reload, which drops an empty magazine, hides an item to free a
hand, unmounts the old source, pulls the new one out of its container and mounts it. `failed` says whether an assertion
of the code failed and over what; `accounted` is a history variable. A commanded transfer asks for one charge or for
all; other quantities are left out, 0 included, which the code asserts not to get (`inventory_utils.cpp:98`). Left out, too: throwing, requests to wield, shots,
cooldowns after a transfer or a pick-up, and two guns chambered one in each hand.

## 3. Runs

| Run | Instance | Shows |
|---|---|---|
| `pool` | 3 objects, limit 3, 5 versions, all operations | type, pairing, free list and stable identity, past the wrap |
| `editor` | 2 entities at most, 2 places, 3 commands, 2 selected | revisions exact, commands replayable, the mark |
| `frame_loop` | 2 workers, resizing, quitting | accounting, exclusion, emptiness, frames end |
| `frame_shutdown` | 1 worker | **violated**: a lost wakeup of a quitting worker |
| `lockstep` | 2 arenas, 2 settings, 2 steps on the way, arena changes | commands conserved, prediction current, orderly messages with one answer for each resync, where desyncs come from |
| `session` | 2 slots, 4 connections, one nameless | records agree, own characters only, everybody who does not stall settles or goes, and players are removed |
| `bomb_match` | 2 players, a match of 2 rounds, special commands at any second | rounds decided once and matches ended in time, score over the swap of sides, freezing, defusal, everybody plays |
| `bomb_teams` | 3 players, teams of 2, 1 colour, 1 change of arena | colours passed on, no team over its limit |
| `playtest` | 4 steps, a snapshot every 2, 3 commands, 1 of them before the test | the world is the replay, commands in order, reopening in place |
| `server_list` | 2 servers, 2 contents, a time-out of 3 heartbeats, 3 events | the served list is current, goodbyes, dump and restart, convergence |
| `nat` | all nine pairs of NATs, 1 extra packet, 2 events, 5 attempts | an undisturbed attempt succeeds, what is handed on is open, retries get through |
| `items` | 2 players, a rifle, a launcher, bags in bags, 6 ids for rockets, 2 events | charges conserved, nothing overfilled, what an assertion may fail over, rest |

**Bounds, and why they suffice.** *Pool*: three slots are the least for which a removal has a hole, a last element
and a bystander; capacities 0, 1, 3 pass through both the doubling and the trimming; five versions are the least
the assumption admits and wrap within a short run. The proofs do not depend on the bounds. *Editor*: a pool of
two that is opened with one entity can be full, empty, and reordered by a deletion; three commands are creation, its
move and one more, which is what groups, discards and jumps need. *Frame loop*: two workers race with each
other, and the game, main and audio threads help too, so that up to five threads take tasks; the ring has the
two buffers the code has; a frame has two or three jobs. Frames are not bounded: counters are reset at each submission.
*Lockstep*: two steps on the way let a message come between two steps of one batch; two predictions
(`MaxPredicted` + 1) let the server accept none, one or both at once; two settings and two arenas make an overtaking
update visible. Commands need no bound of their own, the code closes the connection when too many are unanswered;
neither do the ticks, since digests are finite. The player's settings and the arena change any number of times,
but a second change waits until the first has come back (the code waits a second). `Arenas` is symmetric,
and nothing checked here is a liveness property.

*Session*: two slots compete for the one admission and the one removal of a tick; four connections let both slots be
left and taken again at once. `TimeToEnter` is as long as the admission of all slots takes, as in the code it is
far longer: waiting beyond it then has another cause than the queue. That connections are finite is also what makes
`Settles` fair: with clients that come and go forever in lower slots, the one removal per tick can starve
a kicked client of a higher slot.

*Bomb defusal*: a match of two rounds is the shortest with a half-time; each phase lasts the few seconds in which
something can come before, at and after its end; two players fill both sides or leave one empty. Three players compete
for two places and one colour in `bomb_teams`, which has no bomb and no time to watch, hence its view without the
tick. *Playtest*: four steps hold the snapshots 0, 2 and 4, so that a seek can go to one, between two and past the
last; three commands may lie before the test, at one step, and behind a snapshot. *Server list*: a time-out longer
than two heartbeats, as in the code; three events are, say, a crash of the masterserver, a change and a loss.
*NAT*: ports are predicted one ahead, and the brute force tries one more; five attempts exceed what two events can
spoil; of two symmetric NATs only one event is allowed, since their retries fail for a known reason (section 5).
*Items*: a bag in a bag, a container that runs full (5), and a launcher whose stack must be taken out, split and put
back; six ids leave three free for splitting (a full pool of ids is the code's limit too). Two events let two players act on the same
item, or one act twice; three were checked once too, without another outcome.

**Deadlock** is checked in `editor` and `server_list`. Elsewhere something may rightly
stop: `bomb_*`, after undefined behaviour there is no next step; `frame_*`, the program ends; `lockstep` and `session`, a closed connection takes no step and connections
are used up; `playtest` and `items`, a failed assertion ends the program; `nat`, an attempt is over. `pool` always has
a step.

**Fairness.** `FairSpec` of `FrameLoop` asks weak fairness of each thread's step relation: the operating system runs
every thread that can go on. Nothing else is assumed: no fairness between tasks, none of the arrival of a signal.
Mutexes are held across steps only where a guard says so, so a thread whose lock is taken is simply not enabled. In
`Session` the server keeps ticking and nothing else is assumed: clients need neither speak nor leave, for silence is
what gets them kicked, and those who speak to no purpose for ever are the exception of its properties. In `BombDefusal` and `ItemTransfers` the cosmos goes on stepping, whatever the players do or
leave undone. In `ServerList` the loops of the programs go on, time passes, an address is resolved some day, and a
datagram is not redelivered forever. In `NatTraversal` both sides' loops go on and a packet that was not lost arrives;
losses are bounded by the events, not excluded.

## 4. Proofs

Each `*Proofs.tla` proves what its module's runs check, for every value of the constants that satisfies the assumption
named in that module, and nothing else is assumed. Each follows one pattern: an inductive invariant (`IInv`, `HInv`,
`Protocol`, `Agrees`), a lemma per action that it is kept, and the properties as consequences.

### Pool (`PoolProofs`, from `PoolAssumption`)

`PoolTypeOK`, `PoolConsistent` and `PoolStableIdentity` hold of `Spec`; `PoolImplementsTable` is the refinement:
`LifetimeSpec => Table!Spec`.

The inductive invariant is `IInv`: the type, the pairing of slots and indirectors, the exact free list, and the
capacity between the size and the limit. `Consistent` is not inductive alone: that `Allocate` takes an *unused*
indirector needs the free list to be exact; that the swap in `Free` redirects the right one needs the pairing;
that the capacity suffices needs the count `Len(free_indirectors) + Size = Capacity`. Each action has a lemma; the
counting step of the Lua round trip and the erasure inside the stack have lemmas of their own about sequences. The
refinement adds that versions are at least 1 until they wrap, since a retired id is an earlier version. The abstract
table is checked by its proof alone: `LifetimeSpec` is the pool of a session without undos.

`TakesBackAllocated` and `RestoresFreed` say more than the invariant: an undo gives back the *whole* pool, up to
objects moved by nobody, with every indirector, its version and the order of the free stack. The editor's proofs
stand on these two.

### Editor history (`EditorHistoryProofs`, from `EditorAssumption`)

`UndoIsExact` (`UndoExact`), `AlwaysReplayable` (`Replayable`), `SavedIsOnDisk` (`SavedUnlessRewritten`), and the
invariant they rest on, `SpecInvariant`.

What a revision looks like is not enough for an induction: a creation that is redone gets the id which later commands
mention only if the pool is the same to the last indirector and in the order of its free stack. So the invariant `EInv`
says that there *is* a path of whole pools, one for each entry of each command: each entry leads from
one pool to the next (`Links`), what a command mentions lives where it starts (`Fits`), the end of a command is the start
of the next (`Chained`), and the pool stands on the path where the history stands, in the middle of a command as well
(`Standing`). How far the last command has come is known while it is recorded (`Recording`). A second
layer says what these pools look like: the pictures taken of the revisions are pictures of the path (`Pictured`,
`Looks`), the mark is where the disk was written (`Marked`), and what the mouse rewrites is the last command and its
picture only (`Moving`). `Following` is what the handler of a key still has to do. Since the invariant quantifies over
paths of pools, TLC cannot evaluate it; its consequences are what `editor` checks.

### Frame loop (`GameThreadProofs`, from `ThreadsAssumption` and `FrameAssumption`)

`TasksAccounted` (`Accounting`), `SwapsExclusively` (`SwapExclusive`), `PoolEmptyBetweenFrames` (`EmptyBetweenFrames`),
for any number of workers, and of audio buffers from two.

`Accounting` alone tells the counters from the stacks and the hands, but not who may submit. The invariant adds `InHand`
(who runs a task holds one, and nobody else does), `NothingPosted` (where the game thread has nothing posted, the stack is empty and nobody is busy), `Handshake` (the two flags of the swap tell where game and main thread are in it),
and `GameGone` (once main is past joining the game thread, that thread has quit). That the buffers are swapped while nobody writes follows
from all of them: the game thread waits only after its tasks are completed, and completed means no task in any hand.

### Playtest (`GameThreadProofs`, from `PlaytestAssumption`)

`WorldAlwaysReplay` (`WorldIsReplay`), `CommandsAlwaysInOrder` (`CommandsInOrder`), `AlwaysReopensInPlace`
(`ReopensInPlace`), for any number of steps, commands and inputs and any interval between snapshots.

That the world is what playing from the start gives is not enough for the next seek: it starts from a snapshot and redoes
commands on the way, so it is right only if the snapshots and the order of the commands are. `PlaytestInvariant` says
in a test (`Replayed`) that the commands are sorted by step, that those up to the revision happened by the player's step
and the others from then on (`DoneBy`), and of *each* snapshot what it says of the world and the revision
(`SnapshotIs`): the snapshot holds `Played` up to its step with the commands of its revision, and no other commands
happened before it. All of it is said of tests that are not `suspect`; that the step 0 has a snapshot if any has, that
the revision is one of the history, and that what was saved at the start is a world of its own revision (`Level`), is
said of every test, since a suspect one has to end as well as another. Outside of a test (`Outside`) nothing of one is
left and the world is made of the commands done.

`Played` is a fold over the steps of folds over the commands, and each operation of the player is a loop as well
(`UndoUntil`, `RedoUntil`, `RedoDue`, `Seek`, the commands reapplied at the end): six instances of `SeqFolds`. The
heart are two facts: with later commands and later inputs left out the same is played (`PlayedSame`), and a seek from a
state that is right reaches one that is right, at the step asked for (`SeekReaches`). Undoing and redoing through time is
then a seek and a loop at one step (`SeekThroughTimeKeeps`); each action has a lemma that ends in `Holds`.

### Lockstep (`LockstepProofs`, from `LockstepAssumption`)

`StaysOrderly` (`Orderly`), `ConservesCommands` (`CommandsConserved`), `KeepsPredictionCurrent` (`PredictionCurrent`),
`KeepsAgreeing` (`DesyncOnlyIfOvertaken`).

`Protocol` is inductive: types, the handshake, and two accounts over the channels. Each message has a weight (a command
1, a step the number of commands it accepts; a request for the state 1, its answer 1), and the sum over a channel with
what either end has counted does not change but by what `history` records as forgotten. `PredictionCurrent` is inductive
relative to `Protocol`. That copies agree is the invariant `Agrees`: take all that the client has still to hear, queued
steps and messages under way, and play it to the end in its referential world; this reaches the server's world and every
hash on the way is right. The run is a fold, so a message more at its end is one turn more, and a message taken
from its front one turn less (`FoldAppend`, `FoldTail`). An update that overtakes queued steps breaks exactly this, which
is why the property leaves it out.

### Sessions (`SessionProofs`, from `SessionAssumption`)

`KeepsSlotsAgreed` (`SlotsAgree`), `PlaysItsOwn` (`OwnCharacter`, the first half of `PlaysOwnCharacter`), for any number
of slots, connections and time limits.

A turn of a tick's loops touches one slot; `Good` is what it must leave of it, `InOrder` what holds between two turns: the
transport has the client of before or none, a record is in use exactly if somebody is connected, who receives the game has
its own player or is the one being added, events are only of those disconnected, whose records are empty already.

The second half of `PlaysOwnCharacter`, that who waits too long waits for a predecessor's player, does *not* hold for every
value of the constants: with three slots or more, clients who come and go in two of them can keep the third waiting, since
one is admitted per tick. What does hold is `WaitsATickForEach` (`Patient`): such a client has waited at most a tick for
each connection that was admitted or has gone, because a tick that passes it over admits another, which leaves the set of
those entering for good. `WaitsForPredecessorOnly` draws the conclusion: if `TimeToEnter` leaves a tick for every
connection, `PlaysOwnCharacter` holds entirely. The code's limit is many hundreds of ticks. (The run, with two slots, needs
no such room.)

### Bomb defusal (`BombDefusalProofs`, from `BombAssumption`)

`TeamsKeepTheirScore` (`OwnScoreKept`), `EveryRoundIsAccounted` (`RoundsAccounted`), `FlagIsTrueOfAll`
(`FrozenAsCached`), `ColorsStayApart` (`ColorsShared`), `TeamsStayWithinLimit` (`TeamsWithinLimit`),
`EveryPhaseEndsInTime` (`PhasesEndInTime`), the action property `DefusersWin` (`DefusedBombLoses`), and the invariant
they rest on, `Invariant`; for any number of players, colours, rounds and arenas, any limits, sums of money and lengths
of phases. `BombAssumption` asks of a ruleset that rounds, fuses and what follows a round take some time, and
that the sums a player starts with are at most the largest.

The inductive invariant is `IInv`, one part for each thing that a mode must remember rightly: `TeamsKept` (the
teams), `ColorsKept`, `LimitKept`, `ScoreKept`, `PostureKept` (the flag and the characters), `ClockKept`. Three of the
properties are not inductive alone. `RoundsAccounted` needs to know what a summary can be the summary of: in
`MATCH_SUMMARY` half of the rounds were played and the sides have not changed, or the match is decided. `FrozenAsCached`
needs to know what the flag is as of this second (`FlagAt`), since a character is born frozen or not by the clock, not
by the flag. `PhasesEndInTime` needs that a bomb was planted while the round's clock ran, and that it goes off in time.

A step is one long sequence of operations, and between them little of this holds: once the clock has ticked a phase
may be overdue, its flag a second old, and a latecomer frozen otherwise than the flag says. So the lemmas follow a mode
through the step: `Early` after the tick, `Opened` where a round was just set up, `Awake` from the phase's own doing to
the solver, `Kept` afterwards; `Whole` is what holds throughout. What an operation can disturb is said by relations
between the mode before and after it: `Recast` (characters and money only), `Kin` (players came or went), `Reseated`
(players changed sides). With these each lemma treats the parts that its operation touches and no others.

When the last player leaves with a colour, what follows is undefined in the code; `FreeColorIsAssigned` has this as a case
of its own, and `PlayerIsRemoved` shows that the invariant holds after it in either outcome of the model, there being no
players to wear colours. Nothing is claimed of the program beyond that point.

Colours are the most intricate part. A player who leaves a team passes his colour on to one without (`ColorIsInherited`)
or frees it (`TeamIsLeft`); who joins takes the first free one (`TeamIsJoined`); and a newcomer to another arena is one
more turn of a loop (`PlayersMigrate`, by `SeqFolds`). That auto-assignment needs no limit of its own is
arithmetic: a player whom `TeamChoice` lets in finds fewer than two full teams, so the smaller one has room
(`WeakestHasRoom`). The victims of the bomb fall in any order and number (`ExplosionRecasts`, by `SeqFolds`). For
`DefusersWin` a defused bomb is followed through the step (`Leads`): a restart clears it away; otherwise it stays as it
is and nobody becomes its defuser, so that `process_win_conditions()` finds the defuser, or none.

### Masterserver (`MasterserverProofs`, from `NatAssumption` and `ServerListAssumption`)

`ServesTheList` (`ServedIsCurrent`), `SaysGoodbye` (`GoodbyeIfTold`) and `RestoresTheList` (`RestartKeepsList`) of the
server list. What is served is the list because each way to change the list either makes it anew or changes ages
only (`Serves`, kept by each operation of the masterserver); a server that told the masterserver of itself has resolved
its address and remembers when it did (`ToldIsResolved`); a masterserver that was stopped has dumped what it served
(`StoppedIsDumped`).

`HandsOnAnOpenAddress` (`CompletedIsOpen`) of the NAT traversal, for every pair of NATs, number of packets, losses and
delays. A NAT only grows while the socket lasts, so a packet that arrives through a hole proves that hole for good. The
type includes that it is `Faithful`: whatever left through a port left through the port mapped for its destination.
`Listed` says that a listed server has sent heartbeats, so that its NAT has a port for the masterserver; `Left` that
every packet that tells of success, however late, went through a hole of the server's NAT; `Open` that between the two
NATs there is a way both ways through the port handed on.

`TimesOutOnlyForCause` (`FailsOnlyForCause`), if an attempt may take more than one tick: the code gives it 5 s
(`nat_traversal_settings.h:10`) and 200 ms between two requests. With a single tick the property is false: behind a
symmetric NAT the server's port is asked for one tick before the pings. The invariant `OnTrack` follows an attempt that
nothing disturbed. `Opening` holds what the client knows at each stage, above all that the port behind the one a STUN
server saw is the server's hole already, or the next the NAT will map (`ReadyAt`); `Telling` that the requests under way
name the right ports; `Unasked` that a symmetric server has never sent to where it will be asked to; `Asking` that the
question, its answer or what it waits for is under way; `Told` that the answer is the port before the one the server
sent from; `Traversing` that the ping, or the request for it, is under way and the hole for it open. So there is always
something to do or to receive before time passes, except for the one tick (`TickStaysOnTrack`). For a retry with a conic
client and a strict server, two facts about all attempts are needed (`Dated`, `Foreseen`): sessions and packets are
never of an attempt to come, and the server has never heard of a port the client's NAT has yet to map.

### Folds (`SeqFolds`)

`FoldLeft` of the community modules is a CHOOSE of a function on sets of indices. That this function exists, and that the
fold of a longer sequence is one turn more, is proved by induction on the number of elements (`NatInduct`: induction for
a *set* of numbers, from the well-foundedness of the natural numbers, as the theorems with an operator for a parameter
cannot be used). `FoldConcat`, `FoldAppend`, `FoldTail`, `FoldClosed` and `FoldRelates` are what the other modules cite, as
instances with their own operator; this is how theorems about loops hold for sequences of every length.

### Only model-checked

* Liveness: `FrameCompletes`, `ShutsDown`, both `Settles`, `DepartedAreRemoved`, `EverybodyPlays`, `ListConverges`, `GetsThrough`: the prover treats neither fairness nor ENABLED.
* `ItemTransfers`: what containers in containers carry is a recursive operator, which this prover cannot reason about.

Of `BombDefusal` and `NatTraversal`, chains of IF stand where overlapping arms of a CASE would leave the choice between
them open.

## 5. Findings

A run violates a property over one:

1. `quit_all_workers()` notifies without the mutex; a worker about to sleep misses it and the join hangs
   (`frame_shutdown`, `thread_pool.h:79`).

The others were met while modelling. The models have the behaviour; the properties that hold are stated so as to
leave exactly these cases out, and so do not catch them.

* *Editor.* A drag that goes on after a save changes the world while the editor believes it saved
  (`editor_entity_mover.cpp:317`). `editor_history::undo()` tests the wrong command for a parent, so a group is undone
  in halves (`editor_history.cpp:49`). A save that fails half way leaves a mixture of old and new files
  (`editor_folder.cpp:78`).
* *Frame.* A signal in the first frame leaves the main thread waiting for tasks that will never come (`work.cpp:2838`).
* *Lockstep.* Public settings are assigned on arrival while earlier steps are still queued, against the comment that
  says it cannot desynchronise (`handle_server_payload.hpp:266`). The resynchronisation repairs it.
* *Session.* A newcomer in a slot that was left since the last tick never enters while the predecessor's player is in
  the mode: that one is removed only while nobody is in the slot (`server_setup.cpp:919`). It is kicked when it falls silent;
  but `time_limit_to_enter_game_since_connection` (`server_vars.h:45`) counts from the last valid message and not from
  the connection (`server_client_state.h:45`, `server_setup.cpp:1221`). A client that restates its settings every few seconds keeps its slot
  without ever entering, and the predecessor's player stays in the match.
* *Bomb.* When the last player leaves, his colour is passed on to the best of no players: `maximum_of(players)` of an empty
  map dereferences its end (`bomb_defusal.cpp:477`, `:568`). It takes a match without bots, such as the one of
  `arena_handle.h:174`. A defuser who leaves between the solver's step and the next loses his side the win
  (`bomb_defusal.cpp:1378`); the planter is kept as the id of a player, so a newcomer who is given the id of a planter
  who left gets his award (`:1368`).
* *Playtest.* An edit made while paused behind a snapshot leaves the snapshot ahead in place, and a seek past it loads a
  world without the edit (`editor_player.cpp:254`); undoing to a command whose step has a snapshot with a later command
  fails the assertion of `editor_history.cpp:105`; stepping forward in a paused test before its first step fails
  `snapshotted_player.hpp:193` (cf. `docs/pages/todo/todo_done.md:2197`); the key that steps back while recording
  records empty input over the steps passed; a crash in step 0 is not sought again.
* *NAT.* A STUN request of the server is never repeated (`server_nat_traversal.cpp:64`); two symmetric NATs never match
  in a retry, and an address-sensitive server keeps the mapping, so that a retry misses it; the limit of 30 traversals
  is logged, not enforced (`:171`).
* *Items.* A stack merged whole lives until the step ends and can be merged again by somebody else in the same step
  (`perform_transfer.cpp:255`). A reload does not ask whose hand its old magazine is in (`item_system.cpp:307`), and
  may fail `ensure(item.alive())` of `find_target_slot_for.hpp:86`. A whole stack told into a slot with room for a part
  of it is mounted again and again.

## 6. Not modelled

* *NAT detection*: sequential request and response with retries; what it computes is an input of `NatTraversal`. The
  arithmetic of its port deltas (`std::gcd` forgets the sign) is pure.
* *Viewables streaming*: futures polled once a frame by one thread. Nothing is shared while they run.
* *Reliable channel and jitter buffer*: included by nothing but their own tests.
* *Rendering, audio, physics, the cosmos' other systems*: numerical, deterministic, sequential. What the threads share
  with them is in `FrameLoop`.
* *The client's session beyond `Lockstep`*: chat, avatars, demos, dialogs: no state the server relies on.
* *The server browser*: a download over HTTP and pings, each answered or not; it writes nothing anybody else reads.

## 7. Plan

Done: theorems about `Pool`, `EditorHistory`, `FrameLoop`, `Lockstep`, `Session`, `BombDefusal`, `ServerList`,
`NatTraversal`, `Playtest`. Left:

1. The composition of `Session` with `BombDefusal` (a client's player in the mode) and of `Playtest` with
   `EditorHistory`.
