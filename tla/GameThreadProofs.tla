-------------------------- MODULE GameThreadProofs --------------------------
(***************************************************************************)
(* What the game thread relies on: the other threads around a frame, and   *)
(* the test that it advances in the editor.                                *)
(*                                                                         *)
(* First FrameLoop.tla, for any number of workers and audio buffers. A     *)
(* frame's jobs are accounted for between the stack and the threads, and   *)
(* that account alone tells the game thread that they are over; with the   *)
(* handshake of the swap it keeps every job away from the buffers while    *)
(* the main thread swaps them.                                             *)
(*                                                                         *)
(* Then Playtest.tla, for any number of steps, commands and snapshots: a   *)
(* test is always where playing from the start would have led. That the    *)
(* world is right is not enough to know: a seek trusts the snapshots and   *)
(* the order of the commands. So the invariant says of each snapshot what  *)
(* it says of the world, that the commands of its revision are the ones    *)
(* that happened by its step, and that the history is sorted; all of it    *)
(* only while no command entered or left behind a snapshot.                *)
(***************************************************************************)
EXTENDS FrameLoop, Playtest, SequenceTheorems, FiniteSetTheorems, TLAPS

-----------------------------------------------------------------------------
(* The inductive invariant. *)
WorkerLabels ==
  {"checking", "falling_asleep", "asleep", "running", "registering", "quit", "absent"}

GameLabels ==
  {"begin", "quitting", "joining", "flow", "finishing_audio", "mapping",
   "submitting", "notifying", "helping", "running", "registering",
   "awaiting_completion", "swap", "awaiting_swap", "quit"}

MainLabels ==
  {"rendering", "helping", "running", "registering", "awaiting_waiter",
   "swapping", "syncing", "joining_game", "joining_audio", "quitting",
   "joining_workers", "quit"}

AudioLabels ==
  {"awaiting_commands", "performing", "helping", "running", "registering", "quit"}

PoolTypeOK ==
  /\ workers \in SUBSET Workers
  /\ tasks \in Seq(Tasks)
  /\ cold_tasks \in Seq(Tasks)
  /\ tasks_posted \in Nat
  /\ tasks_completed \in Nat
  /\ shall_quit \in BOOLEAN
  /\ queue_owner \in Workers \cup {Nobody}
  /\ task \in [Threads -> Tasks \cup {Nobody}]

PcTypeOK ==
  /\ pc \in [Threads -> WorkerLabels \cup GameLabels \cup MainLabels \cup AudioLabels]
  /\ \A w \in Workers : pc[w] \in WorkerLabels
  /\ pc[Game] \in GameLabels
  /\ pc[Main] \in MainLabels
  /\ pc[Audio] \in AudioLabels

FrameTypeOK ==
  /\ signal \in BOOLEAN
  /\ should_quit \in BOOLEAN
  /\ quit_flag \in [{1, 2} -> BOOLEAN]
  /\ read_buffer \in {1, 2}
  /\ already_waiting \in BOOLEAN
  /\ swap_complete \in BOOLEAN
  /\ read_index \in 0..NumAudioBuffers - 1
  /\ write_index \in 0..NumAudioBuffers - 1
  /\ audio_quit \in BOOLEAN
  /\ audio_owner \in {Audio, Nobody}

TypeOK == PoolTypeOK /\ PcTypeOK /\ FrameTypeOK

(* A thread has a task in hand exactly from taking to registering it. *)
InHand ==
  \A t \in Threads : task[t] # Nobody <=> pc[t] \in {"running", "registering"}

(* Where the game thread has nothing posted. *)
Idle ==
  {"begin", "quitting", "joining", "flow", "finishing_audio", "mapping",
   "submitting", "swap", "awaiting_swap", "quit"}

NothingPosted == pc[Game] \in Idle => tasks = <<>> /\ Busy = {}

(* The main thread swaps only for a game thread that cannot go on before   *)
(* it is told so.                                                          *)
Handshake ==
  /\ already_waiting => At(Game, "awaiting_swap") /\ ~swap_complete
  /\ At(Main, "swapping") => already_waiting
  /\ At(Main, "syncing") => /\ At(Game, "awaiting_swap")
                            /\ ~swap_complete /\ ~already_waiting

(* The pool is torn down after the game thread. *)
GameGone ==
  pc[Main] \in {"joining_audio", "quitting", "joining_workers", "quit"}
    => At(Game, "quit")

IInv == TypeOK /\ InHand /\ Accounting /\ NothingPosted /\ Handshake /\ GameGone

-----------------------------------------------------------------------------
(* The threads are different from each other and from Nobody. *)
LEMMA Distinct ==
  /\ Game # Main /\ Game # Audio /\ Main # Audio
  /\ {Game, Main, Audio} \cap Workers = {}
  /\ {Game, Main, Audio} \cup Workers = Threads
  /\ Nobody \notin Threads /\ Nobody \notin Tasks
  /\ IsFiniteSet(Threads)
<1>1. \A x, y : IsFiniteSet({x, y}) /\ Cardinality({x, y}) <= 2
  <2>. SUFFICES ASSUME NEW x, NEW y
                PROVE  IsFiniteSet({x, y}) /\ Cardinality({x, y}) <= 2
    OBVIOUS
  <2>1. IsFiniteSet({x}) /\ Cardinality({x}) = 1
    BY FS_Singleton
  <2>2. {x, y} = {x} \cup {y}
    OBVIOUS
  <2>. QED  BY <2>1, <2>2, FS_AddElement
<1>2. Cardinality({Game, Main, Audio}) = 3
  BY FrameAssumption
<1>3. \A x, y : {Game, Main, Audio} # {x, y}
  <2>. SUFFICES ASSUME NEW x, NEW y, {Game, Main, Audio} = {x, y}
                PROVE  FALSE
    OBVIOUS
  <2>1. Cardinality({x, y}) = 3 /\ Cardinality({x, y}) <= 2
    BY <1>1, <1>2
  <2>. QED  BY <2>1
<1>4. Game # Main /\ Game # Audio /\ Main # Audio
  <2>1. Game = Main => {Game, Main, Audio} = {Game, Audio}
    OBVIOUS
  <2>2. Game = Audio => {Game, Main, Audio} = {Game, Main}
    OBVIOUS
  <2>3. Main = Audio => {Game, Main, Audio} = {Game, Main}
    OBVIOUS
  <2>. QED  BY <1>3, <2>1, <2>2, <2>3
<1>5. IsFiniteSet(Threads)
  BY ThreadsAssumption, FS_Union DEF Threads
<1>. QED
  BY <1>4, <1>5, ThreadsAssumption, FrameAssumption DEF Threads, Tasks

(* The threads with a task in hand can be counted. *)
LEMMA BusyCounts ==
  IsFiniteSet(Busy) /\ Cardinality(Busy) \in Nat /\ (Cardinality(Busy) = 0 <=> Busy = {})
<1>1. Busy \in SUBSET Threads
  BY DEF Busy
<1>. QED  BY <1>1, Distinct, FS_Subset, FS_CardinalityType, FS_EmptySet

(* Taking a task off the stack: one more thread is busy. *)
LEMMA BusyTakes ==
  ASSUME NEW t \in Threads, task \in [Threads -> Tasks \cup {Nobody}],
         task[t] = Nobody, NEW x \in Tasks, task' = [task EXCEPT ![t] = x]
  PROVE  Cardinality(Busy') = Cardinality(Busy) + 1
<1>1. Busy' = Busy \cup {t} /\ t \notin Busy
  BY Distinct DEF Busy
<1>. QED  BY <1>1, BusyCounts, FS_AddElement

(* Registering its completion: one thread fewer is. *)
LEMMA BusyRegisters ==
  ASSUME NEW t \in Threads, task \in [Threads -> Tasks \cup {Nobody}],
         task[t] # Nobody, task' = [task EXCEPT ![t] = Nobody]
  PROVE  /\ Busy' = Busy \ {t}
         /\ t \in Busy
         /\ Cardinality(Busy') = Cardinality(Busy) - 1
<1>1. Busy' = Busy \ {t} /\ t \in Busy
  BY DEF Busy
<1>. QED  BY <1>1, BusyCounts, FS_RemoveElement

(* What leaves the pool alone keeps its account. *)
LEMMA PoolKept ==
  ASSUME IInv, UNCHANGED pool_vars
  PROVE  PoolTypeOK' /\ Accounting' /\ Busy' = Busy
BY DEF IInv, TypeOK, PoolTypeOK, Accounting, Busy, pool_vars

(* The index after another of the ring of audio buffers. *)
LEMMA RingStep ==
  ASSUME NEW i \in 0..NumAudioBuffers - 1
  PROVE  /\ NextTo(i) \in 0..NumAudioBuffers - 1
         /\ NextTo(i) = IF i = NumAudioBuffers - 1 THEN 0 ELSE i + 1
<1>1. CASE i = NumAudioBuffers - 1
  BY <1>1, FrameAssumption DEF NextTo
<1>2. CASE i # NumAudioBuffers - 1
  BY <1>2, FrameAssumption DEF NextTo
<1>. QED  BY <1>1, <1>2

(* Nothing of the pool changes while the game thread prepares a frame,     *)
(* waits for the last task and for the swap. That all tasks posted are     *)
(* registered tells it, by the account, that no task is left anywhere.     *)
LEMMA GameWaits ==
  ASSUME IInv, SignalEndsFrame \/ Prepare \/ FinishAudio \/
               AwaitCompletion \/ AnnounceWait \/ SwapAwaited
  PROVE  IInv'
<1>. USE Distinct DEF IInv, TypeOK, PcTypeOK, FrameTypeOK, InHand, NothingPosted,
         Handshake, GameGone, Idle, At, Go, others, swapper_vars, audio_vars
<1>1. ASSUME SignalEndsFrame PROVE IInv'
  <2>1. UNCHANGED pool_vars
    BY <1>1 DEF SignalEndsFrame, RequestQuit
  <2>2. PoolTypeOK' /\ Accounting' /\ Busy' = Busy
    BY <2>1, PoolKept
  <2>3. PcTypeOK'
    BY <1>1 DEF SignalEndsFrame, RequestQuit, WorkerLabels, GameLabels, MainLabels, AudioLabels
  <2>4. FrameTypeOK'
    BY <1>1 DEF SignalEndsFrame, RequestQuit
  <2>5. InHand'
    BY <1>1, <2>1 DEF SignalEndsFrame, RequestQuit, pool_vars
  <2>6. NothingPosted'
    BY <1>1, <2>1, <2>2 DEF SignalEndsFrame, RequestQuit, pool_vars
  <2>7. Handshake' /\ GameGone'
    BY <1>1 DEF SignalEndsFrame, RequestQuit
  <2>. QED  BY <2>2, <2>3, <2>4, <2>5, <2>6, <2>7
<1>2. ASSUME Prepare PROVE IInv'
  <2>1. UNCHANGED pool_vars
    BY <1>2 DEF Prepare, RequestQuit
  <2>2. PoolTypeOK' /\ Accounting' /\ Busy' = Busy
    BY <2>1, PoolKept
  <2>3. PcTypeOK'
    BY <1>2 DEF Prepare, RequestQuit, WorkerLabels, GameLabels, MainLabels, AudioLabels
  <2>4. FrameTypeOK'
    <3>1. CASE RequestQuit
      BY <1>2, <3>1 DEF Prepare, RequestQuit
    <3>2. CASE UNCHANGED <<should_quit, quit_flag>>
      BY <1>2, <3>2 DEF Prepare
    <3>. QED  BY <1>2, <3>1, <3>2 DEF Prepare
  <2>5. InHand'
    BY <1>2, <2>1 DEF Prepare, RequestQuit, pool_vars
  <2>6. NothingPosted'
    BY <1>2, <2>1, <2>2 DEF Prepare, RequestQuit, pool_vars
  <2>7. Handshake' /\ GameGone'
    BY <1>2 DEF Prepare, RequestQuit
  <2>. QED  BY <2>2, <2>3, <2>4, <2>5, <2>6, <2>7
<1>3. ASSUME FinishAudio PROVE IInv'
  <2>1. UNCHANGED pool_vars
    BY <1>3 DEF FinishAudio
  <2>2. PoolTypeOK' /\ Accounting' /\ Busy' = Busy
    BY <2>1, PoolKept
  <2>3. PcTypeOK'
    BY <1>3 DEF FinishAudio, WorkerLabels, GameLabels, MainLabels, AudioLabels
  <2>4. FrameTypeOK'
    BY <1>3 DEF FinishAudio
  <2>5. InHand'
    BY <1>3, <2>1 DEF FinishAudio, pool_vars
  <2>6. NothingPosted'
    BY <1>3, <2>1, <2>2 DEF FinishAudio, pool_vars
  <2>7. Handshake' /\ GameGone'
    BY <1>3 DEF FinishAudio
  <2>. QED  BY <2>2, <2>3, <2>4, <2>5, <2>6, <2>7
<1>4. ASSUME AwaitCompletion PROVE IInv'
  <2>1. UNCHANGED pool_vars
    BY <1>4 DEF AwaitCompletion
  <2>2. PoolTypeOK' /\ Accounting' /\ Busy' = Busy
    BY <2>1, PoolKept
  <2>3. PcTypeOK'
    BY <1>4 DEF AwaitCompletion, WorkerLabels, GameLabels, MainLabels, AudioLabels
  <2>4. FrameTypeOK'
    BY <1>4 DEF AwaitCompletion
  <2>5. InHand'
    BY <1>4, <2>1 DEF AwaitCompletion, pool_vars
  <2>6. NothingPosted'
    <3>1. Len(tasks) + Cardinality(Busy) = 0
      BY <1>4, BusyCounts, LenProperties DEF AwaitCompletion, AllComplete, Accounting, PoolTypeOK
    <3>2. tasks = <<>> /\ Busy = {}
      BY <3>1, BusyCounts, LenProperties, EmptySeq DEF PoolTypeOK
    <3>. QED  BY <2>1, <2>2, <3>2 DEF pool_vars
  <2>7. Handshake' /\ GameGone'
    BY <1>4 DEF AwaitCompletion
  <2>. QED  BY <2>2, <2>3, <2>4, <2>5, <2>6, <2>7
<1>5. ASSUME AnnounceWait PROVE IInv'
  <2>1. UNCHANGED pool_vars
    BY <1>5 DEF AnnounceWait
  <2>2. PoolTypeOK' /\ Accounting' /\ Busy' = Busy
    BY <2>1, PoolKept
  <2>3. PcTypeOK'
    BY <1>5 DEF AnnounceWait, WorkerLabels, GameLabels, MainLabels, AudioLabels
  <2>4. FrameTypeOK'
    BY <1>5 DEF AnnounceWait
  <2>5. InHand'
    BY <1>5, <2>1 DEF AnnounceWait, pool_vars
  <2>6. NothingPosted'
    BY <1>5, <2>1, <2>2 DEF AnnounceWait, pool_vars
  <2>7. Handshake' /\ GameGone'
    BY <1>5 DEF AnnounceWait
  <2>. QED  BY <2>2, <2>3, <2>4, <2>5, <2>6, <2>7
<1>6. ASSUME SwapAwaited PROVE IInv'
  <2>1. UNCHANGED pool_vars
    BY <1>6 DEF SwapAwaited
  <2>2. PoolTypeOK' /\ Accounting' /\ Busy' = Busy
    BY <2>1, PoolKept
  <2>3. PcTypeOK'
    BY <1>6 DEF SwapAwaited, WorkerLabels, GameLabels, MainLabels, AudioLabels
  <2>4. FrameTypeOK'
    BY <1>6 DEF SwapAwaited
  <2>5. InHand'
    BY <1>6, <2>1 DEF SwapAwaited, pool_vars
  <2>6. NothingPosted'
    BY <1>6, <2>1, <2>2 DEF SwapAwaited, pool_vars
  <2>7. Handshake' /\ GameGone'
    BY <1>6 DEF SwapAwaited
  <2>. QED  BY <2>2, <2>3, <2>4, <2>5, <2>6, <2>7
<1>. QED  BY <1>1, <1>2, <1>3, <1>4, <1>5, <1>6

(* Nor while the main thread draws, swaps and joins the threads of the     *)
(* game and the audio.                                                     *)
LEMMA MainSwaps ==
  ASSUME IInv, Render \/ AwaitWaiter \/ SwapBuffers \/ NotifySwap \/
               JoinGame
  PROVE  IInv'
<1>. USE Distinct DEF IInv, TypeOK, PcTypeOK, FrameTypeOK, InHand, NothingPosted,
         Handshake, GameGone, Idle, At, Go, others, swapper_vars, audio_vars
<1>1. ASSUME Render PROVE IInv'
  <2>1. UNCHANGED pool_vars
    BY <1>1 DEF Render
  <2>2. PoolTypeOK' /\ Accounting' /\ Busy' = Busy
    BY <2>1, PoolKept
  <2>3. PcTypeOK'
    BY <1>1 DEF Render, WorkerLabels, GameLabels, MainLabels, AudioLabels
  <2>4. FrameTypeOK'
    BY <1>1 DEF Render
  <2>5. InHand'
    BY <1>1, <2>1 DEF Render, pool_vars
  <2>6. NothingPosted'
    BY <1>1, <2>1, <2>2 DEF Render, pool_vars
  <2>7. Handshake' /\ GameGone'
    BY <1>1 DEF Render
  <2>. QED  BY <2>2, <2>3, <2>4, <2>5, <2>6, <2>7
<1>2. ASSUME AwaitWaiter PROVE IInv'
  <2>1. UNCHANGED pool_vars
    BY <1>2 DEF AwaitWaiter
  <2>2. PoolTypeOK' /\ Accounting' /\ Busy' = Busy
    BY <2>1, PoolKept
  <2>3. PcTypeOK'
    BY <1>2 DEF AwaitWaiter, WorkerLabels, GameLabels, MainLabels, AudioLabels
  <2>4. FrameTypeOK'
    BY <1>2 DEF AwaitWaiter
  <2>5. InHand'
    BY <1>2, <2>1 DEF AwaitWaiter, pool_vars
  <2>6. NothingPosted'
    BY <1>2, <2>1, <2>2 DEF AwaitWaiter, pool_vars
  <2>7. Handshake' /\ GameGone'
    BY <1>2 DEF AwaitWaiter
  <2>. QED  BY <2>2, <2>3, <2>4, <2>5, <2>6, <2>7
<1>3. ASSUME SwapBuffers PROVE IInv'
  <2>1. UNCHANGED pool_vars
    BY <1>3 DEF SwapBuffers
  <2>2. PoolTypeOK' /\ Accounting' /\ Busy' = Busy
    BY <2>1, PoolKept
  <2>3. PcTypeOK'
    BY <1>3 DEF SwapBuffers, WorkerLabels, GameLabels, MainLabels, AudioLabels
  <2>4. FrameTypeOK'
    <3>1. write_buffer \in {1, 2}
      BY DEF write_buffer
    <3>. QED  BY <1>3, <3>1 DEF SwapBuffers
  <2>5. InHand'
    BY <1>3, <2>1 DEF SwapBuffers, pool_vars
  <2>6. NothingPosted'
    BY <1>3, <2>1, <2>2 DEF SwapBuffers, pool_vars
  <2>7. Handshake' /\ GameGone'
    BY <1>3 DEF SwapBuffers
  <2>. QED  BY <2>2, <2>3, <2>4, <2>5, <2>6, <2>7
<1>4. ASSUME NotifySwap PROVE IInv'
  <2>1. UNCHANGED pool_vars
    BY <1>4 DEF NotifySwap
  <2>2. PoolTypeOK' /\ Accounting' /\ Busy' = Busy
    BY <2>1, PoolKept
  <2>3. PcTypeOK'
    BY <1>4 DEF NotifySwap, WorkerLabels, GameLabels, MainLabels, AudioLabels
  <2>4. FrameTypeOK'
    BY <1>4 DEF NotifySwap
  <2>5. InHand'
    BY <1>4, <2>1 DEF NotifySwap, pool_vars
  <2>6. NothingPosted'
    BY <1>4, <2>1, <2>2 DEF NotifySwap, pool_vars
  <2>7. Handshake' /\ GameGone'
    BY <1>4 DEF NotifySwap
  <2>. QED  BY <2>2, <2>3, <2>4, <2>5, <2>6, <2>7
<1>5. ASSUME JoinGame PROVE IInv'
  <2>1. UNCHANGED pool_vars
    BY <1>5 DEF JoinGame
  <2>2. PoolTypeOK' /\ Accounting' /\ Busy' = Busy
    BY <2>1, PoolKept
  <2>3. PcTypeOK'
    BY <1>5 DEF JoinGame, WorkerLabels, GameLabels, MainLabels, AudioLabels
  <2>4. FrameTypeOK'
    BY <1>5 DEF JoinGame
  <2>5. InHand'
    BY <1>5, <2>1 DEF JoinGame, pool_vars
  <2>6. NothingPosted'
    BY <1>5, <2>1, <2>2 DEF JoinGame, pool_vars
  <2>7. Handshake' /\ GameGone'
    BY <1>5 DEF JoinGame
  <2>. QED  BY <2>2, <2>3, <2>4, <2>5, <2>6, <2>7
<1>. QED  BY <1>1, <1>2, <1>3, <1>4, <1>5

(* Nor while the audio thread performs commands, or when a signal arrives. *)
LEMMA AudioPerforms ==
  ASSUME IInv, AudioTakes \/ AudioReports \/ SignalArrives
  PROVE  IInv'
<1>. USE Distinct DEF IInv, TypeOK, PcTypeOK, FrameTypeOK, InHand, NothingPosted,
         Handshake, GameGone, Idle, At, Go, others, swapper_vars, audio_vars
<1>1. ASSUME AudioTakes PROVE IInv'
  <2>1. UNCHANGED pool_vars
    BY <1>1 DEF AudioTakes
  <2>2. PoolTypeOK' /\ Accounting' /\ Busy' = Busy
    BY <2>1, PoolKept
  <2>3. PcTypeOK'
    BY <1>1 DEF AudioTakes, WorkerLabels, GameLabels, MainLabels, AudioLabels
  <2>4. FrameTypeOK'
    BY <1>1 DEF AudioTakes
  <2>5. InHand'
    BY <1>1, <2>1 DEF AudioTakes, pool_vars
  <2>6. NothingPosted'
    BY <1>1, <2>1, <2>2 DEF AudioTakes, pool_vars
  <2>7. Handshake' /\ GameGone'
    BY <1>1 DEF AudioTakes
  <2>. QED  BY <2>2, <2>3, <2>4, <2>5, <2>6, <2>7
<1>2. ASSUME AudioReports PROVE IInv'
  <2>1. UNCHANGED pool_vars
    BY <1>2 DEF AudioReports
  <2>2. PoolTypeOK' /\ Accounting' /\ Busy' = Busy
    BY <2>1, PoolKept
  <2>3. PcTypeOK'
    BY <1>2 DEF AudioReports, WorkerLabels, GameLabels, MainLabels, AudioLabels
  <2>4. FrameTypeOK'
    BY <1>2, RingStep DEF AudioReports
  <2>5. InHand'
    BY <1>2, <2>1 DEF AudioReports, pool_vars
  <2>6. NothingPosted'
    BY <1>2, <2>1, <2>2 DEF AudioReports, pool_vars
  <2>7. Handshake' /\ GameGone'
    BY <1>2 DEF AudioReports
  <2>. QED  BY <2>2, <2>3, <2>4, <2>5, <2>6, <2>7
<1>3. ASSUME SignalArrives PROVE IInv'
  <2>1. UNCHANGED pool_vars
    BY <1>3 DEF SignalArrives
  <2>2. PoolTypeOK' /\ Accounting' /\ Busy' = Busy
    BY <2>1, PoolKept
  <2>3. PcTypeOK'
    BY <1>3 DEF SignalArrives, WorkerLabels, GameLabels, MainLabels, AudioLabels
  <2>4. FrameTypeOK'
    BY <1>3 DEF SignalArrives
  <2>5. InHand'
    BY <1>3, <2>1 DEF SignalArrives, pool_vars
  <2>6. NothingPosted'
    BY <1>3, <2>1, <2>2 DEF SignalArrives, pool_vars
  <2>7. Handshake' /\ GameGone'
    BY <1>3 DEF SignalArrives
  <2>. QED  BY <2>2, <2>3, <2>4, <2>5, <2>6, <2>7
<1>. QED  BY <1>1, <1>2, <1>3

-----------------------------------------------------------------------------
(* The top of the stack, and the stack without it. *)
LEMMA StackTop ==
  ASSUME NEW s \in Seq(Tasks), s # <<>>
  PROVE  /\ s[Len(s)] \in Tasks
         /\ SubSeq(s, 1, Len(s) - 1) \in Seq(Tasks)
         /\ Len(SubSeq(s, 1, Len(s) - 1)) = Len(s) - 1
<1>. DEFINE n    == Len(s) - 1
            rest == SubSeq(s, 1, n)
<1>1. Len(s) \in Nat \ {0} /\ \A i \in 1..Len(s) : s[i] \in Tasks
  BY EmptySeq, ElementOfSeq
<1>2. n \in Nat /\ n = Len(s) - 1 /\ s[Len(s)] \in Tasks /\ \A i \in 1..n : s[i] \in Tasks
  BY <1>1
<1>. HIDE DEF n
<1>3. rest \in Seq(Tasks) /\ Len(rest) = IF 1 <= n THEN n - 1 + 1 ELSE 0
  BY <1>2, SubSeqProperties
<1>. HIDE DEF rest
<1>4. rest \in Seq(Tasks) /\ Len(rest) = n
  BY <1>2, <1>3
<1>. QED  BY <1>2, <1>4 DEF n, rest

(* A task goes from the stack into the hands of the thread that takes it:  *)
(* the sum stays.                                                          *)
LEMMA Takes ==
  ASSUME IInv, NEW t \in Threads, pc[t] \in {"checking", "helping"},
         TakeTask(t), UNCHANGED others
  PROVE  IInv'
<1>. USE Distinct DEF IInv, TypeOK
<1>1. /\ task[t] = Nobody
      /\ tasks[Len(tasks)] \in Tasks
      /\ tasks' = SubSeq(tasks, 1, Len(tasks) - 1)
      /\ tasks' \in Seq(Tasks)
      /\ Len(tasks') = Len(tasks) - 1
      /\ task' = [task EXCEPT ![t] = tasks[Len(tasks)]]
  BY StackTop DEF InHand, TakeTask, PoolTypeOK
<1>2. PoolTypeOK'
  BY <1>1 DEF TakeTask, PoolTypeOK
<1>3. PcTypeOK' /\ FrameTypeOK'
  BY DEF TakeTask, PcTypeOK, FrameTypeOK, Go, WorkerLabels, GameLabels, MainLabels,
         AudioLabels, others, swapper_vars, audio_vars
<1>4. InHand'
  BY <1>1 DEF InHand, TakeTask, Go, PcTypeOK, PoolTypeOK
<1>5. Accounting'
  <2>1. Cardinality(Busy') = Cardinality(Busy) + 1
    BY <1>1, BusyTakes DEF PoolTypeOK
  <2>2. Len(tasks) \in Nat /\ Cardinality(Busy) \in Nat
    BY BusyCounts, LenProperties DEF PoolTypeOK
  <2>3. /\ tasks_posted - tasks_completed = Len(tasks) + Cardinality(Busy)
        /\ UNCHANGED <<tasks_posted, tasks_completed>>
    BY DEF Accounting, TakeTask
  <2>4. Len(tasks') = Len(tasks) - 1
    BY <1>1
  <2>. QED  BY <2>1, <2>2, <2>3, <2>4 DEF Accounting
<1>6. NothingPosted' /\ Handshake' /\ GameGone'
  BY DEF NothingPosted, Handshake, GameGone, Idle, At, TakeTask, Go, PcTypeOK,
         others, swapper_vars
<1>. QED  BY <1>2, <1>3, <1>4, <1>5, <1>6

(* Registering a task lowers both sides of the account. *)
LEMMA Registers ==
  ASSUME IInv, NEW t \in Threads, RegisterCompletion(t), UNCHANGED others
  PROVE  IInv'
<1>. USE Distinct DEF IInv, TypeOK
<1>1. task[t] # Nobody
  BY DEF InHand, RegisterCompletion, At
<1>2. PoolTypeOK'
  BY DEF RegisterCompletion, PoolTypeOK
<1>3. PcTypeOK' /\ FrameTypeOK'
  BY DEF RegisterCompletion, Returns, PcTypeOK, FrameTypeOK, Go, WorkerLabels, GameLabels,
         MainLabels, AudioLabels, others, swapper_vars, audio_vars
<1>4. InHand'
  BY DEF InHand, RegisterCompletion, Returns, Go, PcTypeOK, PoolTypeOK
<1>5. Accounting'
  <2>1. Cardinality(Busy') = Cardinality(Busy) - 1
    BY <1>1, BusyRegisters DEF PoolTypeOK, RegisterCompletion
  <2>2. Len(tasks) \in Nat /\ Cardinality(Busy) \in Nat
    BY BusyCounts, LenProperties DEF PoolTypeOK
  <2>3. /\ tasks_posted - tasks_completed = Len(tasks) + Cardinality(Busy)
        /\ tasks_posted' = tasks_posted /\ tasks' = tasks
        /\ tasks_completed' = tasks_completed + 1
        /\ tasks_posted \in Nat /\ tasks_completed \in Nat
    BY DEF Accounting, RegisterCompletion, PoolTypeOK
  <2>. QED  BY <2>1, <2>2, <2>3 DEF Accounting
<1>6. NothingPosted'
  <2>1. Busy' = Busy \ {t} /\ t \in Busy
    BY <1>1, BusyRegisters DEF PoolTypeOK, RegisterCompletion
  <2>2. pc[Game] \notin Idle
    BY <2>1 DEF NothingPosted
  <2>3. pc'[Game] \notin Idle
    BY <2>2 DEF RegisterCompletion, Returns, Go, PcTypeOK, Idle
  <2>. QED  BY <2>3 DEF NothingPosted
<1>7. Handshake' /\ GameGone'
  BY DEF Handshake, GameGone, At, RegisterCompletion, Returns, Go, PcTypeOK,
         others, swapper_vars
<1>. QED  BY <1>2, <1>3, <1>4, <1>5, <1>6, <1>7

(* The body of a task touches the audio queue and nothing of the pool. *)
LEMMA Runs ==
  ASSUME IInv, NEW t \in Threads, Run(t)
  PROVE  IInv'
<1>. USE Distinct DEF IInv, TypeOK
<1>1. UNCHANGED <<pool_vars, signal, should_quit, swapper_vars>>
  BY DEF Run
<1>2. PoolTypeOK' /\ Accounting' /\ Busy' = Busy
  BY <1>1, PoolKept
<1>3. PcTypeOK'
  BY DEF Run, PcTypeOK, At, Go, WorkerLabels, GameLabels, MainLabels, AudioLabels
<1>4. FrameTypeOK'
  <2>1. write_index' \in 0..NumAudioBuffers - 1
    BY RingStep DEF Run, SubmitWriteBuffer, FrameTypeOK, audio_vars
  <2>. QED  BY <2>1 DEF Run, SubmitWriteBuffer, FrameTypeOK, audio_vars, swapper_vars
<1>5. InHand'
  BY <1>1 DEF InHand, Run, At, Go, PcTypeOK, pool_vars
<1>6. NothingPosted'
  BY <1>1, <1>2 DEF NothingPosted, Run, Go, PcTypeOK, Idle, pool_vars
<1>7. Handshake' /\ GameGone'
  BY <1>1 DEF Handshake, GameGone, At, Run, Go, PcTypeOK, swapper_vars
<1>. QED  BY <1>2, <1>3, <1>4, <1>5, <1>6, <1>7

(* Waking the workers changes no other thread, and none that has a task. *)
LEMMA Wakes ==
  ASSUME IInv, NEW t \in {Game, Main}, NEW next,
         pc' = [NotifyWorkers(pc) EXCEPT ![t] = next]
  PROVE  /\ pc' \in [Threads -> {NotifyWorkers(pc)[u] : u \in Threads} \cup {next}]
         /\ pc'[t] = next
         /\ \A u \in {Game, Main, Audio} \ {t} : pc'[u] = pc[u]
         /\ \A w \in Workers : pc'[w] = IF pc[w] = "asleep" THEN "checking" ELSE pc[w]
BY Distinct DEF IInv, TypeOK, PcTypeOK, NotifyWorkers, GameLabels, MainLabels, AudioLabels

(* What a step that leaves the account and the audio queue alone must keep *)
(* when it moves one of the threads that use the pool.                     *)
LEMMA CallerMoves ==
  ASSUME IInv, UNCHANGED <<tasks, task, tasks_posted, tasks_completed, others>>,
         workers' \in SUBSET Workers, shall_quit' \in BOOLEAN,
         queue_owner' \in Workers \cup {Nobody}, cold_tasks' \in Seq(Tasks),
         PcTypeOK', InHand', NothingPosted', Handshake', GameGone'
  PROVE  IInv'
BY DEF IInv, TypeOK, PoolTypeOK, FrameTypeOK, Accounting, Busy, others, swapper_vars, audio_vars

(* The threads that find the stack empty go on, and the workers sleep. *)
LEMMA StackEmpty ==
  ASSUME IInv, UNCHANGED others,
         \/ GameHelped \/ MainHelped
         \/ \E w \in Workers : (WorkerCheck(w) /\ ~TakeTask(w)) \/ WorkerSleep(w)
  PROVE  IInv'
<1>. USE Distinct DEF IInv, TypeOK, PcTypeOK, InHand, NothingPosted, Handshake, GameGone, Idle, At, Go
<1>1. ASSUME GameHelped \/ MainHelped PROVE IInv'
  <2>1. UNCHANGED pool_vars
    BY <1>1 DEF GameHelped, MainHelped, HelpEnds
  <2>2. PcTypeOK'
    BY <1>1 DEF GameHelped, MainHelped, HelpEnds, GameLabels, MainLabels, WorkerLabels, AudioLabels
  <2>3. InHand' /\ NothingPosted' /\ Handshake' /\ GameGone'
    BY <1>1, <2>1 DEF GameHelped, MainHelped, HelpEnds, others, swapper_vars, pool_vars, Busy
  <2>. QED  BY <2>1, <2>2, <2>3, CallerMoves DEF pool_vars, PoolTypeOK
<1>2. ASSUME NEW w \in Workers, (WorkerCheck(w) /\ ~TakeTask(w)) \/ WorkerSleep(w)
      PROVE  IInv'
  <2>1. /\ UNCHANGED <<workers, tasks, cold_tasks, tasks_posted, tasks_completed, shall_quit, task>>
        /\ queue_owner' \in Workers \cup {Nobody}
        /\ pc[w] \in {"checking", "falling_asleep"}
        /\ \E label \in {"quit", "falling_asleep", "asleep"} : pc' = [pc EXCEPT ![w] = label]
    BY <1>2 DEF WorkerCheck, WorkerSleep, pool_vars, PoolTypeOK
  <2>2. PcTypeOK'
    BY <2>1 DEF WorkerLabels
  <2>3. InHand' /\ NothingPosted' /\ Handshake' /\ GameGone'
    BY <2>1 DEF others, swapper_vars, Busy
  <2>. QED  BY <2>1, <2>2, <2>3, CallerMoves DEF PoolTypeOK
<1>. QED  BY <1>1, <1>2

(* The audio thread lets its mutex go when there is nothing to help with. *)
LEMMA AudioStopsHelping ==
  ASSUME IInv, AudioHelped
  PROVE  IInv'
<1>. USE Distinct DEF IInv, TypeOK, PcTypeOK, InHand, NothingPosted, Handshake, GameGone,
         Idle, At, Go, AudioHelped, HelpEnds
<1>1. PoolTypeOK' /\ Accounting' /\ Busy' = Busy
  BY PoolKept
<1>2. PcTypeOK'
  BY DEF GameLabels, MainLabels, WorkerLabels, AudioLabels
<1>3. FrameTypeOK'
  BY DEF FrameTypeOK, swapper_vars
<1>4. InHand' /\ NothingPosted' /\ Handshake' /\ GameGone'
  BY <1>1 DEF swapper_vars, pool_vars
<1>. QED  BY <1>1, <1>2, <1>3, <1>4

(* Enqueueing touches only what is not posted yet. *)
LEMMA Enqueues ==
  ASSUME IInv, EnqueueJobs
  PROVE  IInv'
<1>. USE Distinct DEF IInv, TypeOK, PcTypeOK, InHand, NothingPosted, Handshake, GameGone,
         Idle, At, Go, EnqueueJobs
<1>1. cold_tasks' \in Seq(Tasks)
  <2>1. <<"job", "job">> \in Seq(Tasks) /\ <<"job", "audio_job", "job">> \in Seq(Tasks)
    BY DEF Tasks
  <2>2. \A new \in Seq(Tasks) : cold_tasks \o new \in Seq(Tasks)
    BY ConcatProperties DEF PoolTypeOK
  <2>. QED  BY <2>1, <2>2 DEF Enqueue
<1>2. PcTypeOK'
  BY DEF GameLabels, MainLabels, WorkerLabels, AudioLabels
<1>3. InHand' /\ NothingPosted' /\ Handshake' /\ GameGone'
  BY DEF others, swapper_vars, Busy
<1>. QED  BY <1>1, <1>2, <1>3, CallerMoves DEF PoolTypeOK

(* A submission finds the pool empty, so the counters it resets and the    *)
(* stack it replaces belong to nobody.                                     *)
LEMMA Submits ==
  ASSUME IInv, SubmitJobs
  PROVE  IInv'
<1>. USE Distinct DEF IInv, TypeOK, SubmitJobs, Submit
<1>1. tasks = <<>> /\ Busy = {} /\ Busy' = {}
  BY DEF NothingPosted, Idle, At, Busy
<1>2. Len(cold_tasks) \in Nat
  BY LenProperties DEF PoolTypeOK
<1>3. PoolTypeOK'
  BY <1>2, EmptySeq DEF PoolTypeOK
<1>4. PcTypeOK' /\ FrameTypeOK'
  BY DEF PcTypeOK, FrameTypeOK, At, Go, WorkerLabels, GameLabels, MainLabels, AudioLabels,
         others, swapper_vars, audio_vars
<1>5. Accounting'
  BY <1>1, <1>2, FS_EmptySet DEF Accounting
<1>6. InHand' /\ NothingPosted' /\ Handshake' /\ GameGone'
  BY DEF InHand, NothingPosted, Handshake, GameGone, Idle, At, Go, PcTypeOK, others, swapper_vars
<1>. QED  BY <1>3, <1>4, <1>5, <1>6

(* The notifications, of a submission and of the end of the pool. *)
LEMMA Notifies ==
  ASSUME IInv, NotifyJobs \/ ResizeNotifies \/ DestroyNotifies
  PROVE  IInv'
<1>. USE Distinct DEF IInv, TypeOK
<1>1. UNCHANGED <<pool_vars, others>>
  BY DEF NotifyJobs, NotifySubmission, ResizeNotifies, DestroyNotifies, QuitNotify
<1>2. PICK t \in {Game, Main}, next \in {"helping", "joining", "joining_workers"} :
        /\ pc' = [NotifyWorkers(pc) EXCEPT ![t] = next]
        /\ \/ t = Game /\ pc[t] = "notifying" /\ next = "helping"
           \/ t = Game /\ pc[t] = "quitting" /\ next = "joining"
           \/ t = Main /\ pc[t] = "quitting" /\ next = "joining_workers"
  BY DEF NotifyJobs, NotifySubmission, ResizeNotifies, DestroyNotifies, QuitNotify, At
<1>3. /\ pc'[t] = next
      /\ \A u \in {Game, Main, Audio} \ {t} : pc'[u] = pc[u]
      /\ \A w \in Workers : pc'[w] = IF pc[w] = "asleep" THEN "checking" ELSE pc[w]
      /\ DOMAIN pc' = Threads
  BY <1>2, Wakes
<1>4. PcTypeOK'
  BY <1>2, <1>3 DEF PcTypeOK, NotifyWorkers, WorkerLabels, GameLabels, MainLabels, AudioLabels
<1>5. InHand'
  BY <1>1, <1>2, <1>3 DEF InHand, pool_vars
<1>6. NothingPosted' /\ Handshake' /\ GameGone'
  BY <1>1, <1>2, <1>3 DEF NothingPosted, Handshake, GameGone, Idle, At, Busy, pool_vars,
                          others, swapper_vars
<1>. QED  BY <1>1, <1>4, <1>5, <1>6, CallerMoves DEF pool_vars, PoolTypeOK

(* A frame begins, perhaps with the workers told to quit; so does the end  *)
(* of the pool.                                                            *)
LEMMA Begins ==
  ASSUME IInv, BeginFrame \/ JoinAudio
  PROVE  IInv'
<1>. USE Distinct DEF IInv, TypeOK, PcTypeOK, InHand, NothingPosted, Handshake, GameGone,
         Idle, At, Go
<1>1. /\ UNCHANGED <<workers, tasks, cold_tasks, tasks_posted, tasks_completed, queue_owner, task, others>>
      /\ shall_quit' \in BOOLEAN
  BY DEF BeginFrame, JoinAudio, QuitStore, pool_vars, PoolTypeOK
<1>2. PcTypeOK'
  BY DEF BeginFrame, JoinAudio, QuitStore, WorkerLabels, GameLabels, MainLabels, AudioLabels
<1>3. InHand'
  BY <1>1 DEF BeginFrame, JoinAudio, QuitStore
<1>4. NothingPosted' /\ Handshake' /\ GameGone'
  BY <1>1 DEF BeginFrame, JoinAudio, QuitStore, Busy, others, swapper_vars
<1>. QED  BY <1>1, <1>2, <1>3, <1>4, CallerMoves DEF PoolTypeOK

(* No worker has a task when the workers are joined. *)
LEMMA Joins ==
  ASSUME IInv, ResizeJoins \/ DestroyJoins
  PROVE  IInv'
<1>. USE Distinct DEF IInv, TypeOK
<1>1. PICK t \in {Game, Main}, hired \in SUBSET Workers, next \in {"flow", "quit"} :
        /\ JoinAndHire(t, hired, next)
        /\ \/ t = Game /\ pc[t] = "joining" /\ next = "flow"
           \/ t = Main /\ pc[t] = "joining_workers" /\ next = "quit"
  BY DEF ResizeJoins, DestroyJoins, At
<1>2. UNCHANGED <<tasks, cold_tasks, tasks_posted, tasks_completed, queue_owner, task, others>>
  BY <1>1 DEF ResizeJoins, DestroyJoins, JoinAndHire
<1>3. /\ pc'[t] = next
      /\ \A u \in {Game, Main, Audio} \ {t} : pc'[u] = pc[u]
      /\ \A w \in Workers : pc'[w] \in {"checking", "absent"}
      /\ DOMAIN pc' = Threads
      /\ pc' = [u \in Threads |-> pc'[u]]
  BY <1>1 DEF JoinAndHire
<1>4. PcTypeOK'
  BY <1>1, <1>3 DEF PcTypeOK, WorkerLabels, GameLabels, MainLabels, AudioLabels
<1>5. Busy = {}
  BY <1>1 DEF NothingPosted, GameGone, Idle, At
<1>6. InHand'
  BY <1>1, <1>2, <1>3, <1>5 DEF InHand, Busy
<1>7. NothingPosted' /\ Handshake' /\ GameGone'
  BY <1>1, <1>2, <1>3 DEF NothingPosted, Handshake, GameGone, Idle, At, Busy,
                          others, swapper_vars
<1>8. workers' \in SUBSET Workers /\ shall_quit' \in BOOLEAN
  BY <1>1 DEF JoinAndHire
<1>. QED  BY <1>2, <1>4, <1>6, <1>7, <1>8, CallerMoves DEF PoolTypeOK

-----------------------------------------------------------------------------
(* Every step of every thread keeps the invariant. *)
LEMMA Inductive == IInv /\ [Next]_vars => IInv'
<1>. SUFFICES ASSUME IInv, [Next]_vars PROVE IInv'
  OBVIOUS
<1>1. ASSUME NEW t \in Threads, Tasking(t) PROVE IInv'
  BY <1>1, Runs, Registers DEF Tasking
<1>2. ASSUME NEW w \in Workers, WorkerStep(w) PROVE IInv'
  BY <1>1, <1>2, Takes, StackEmpty, Distinct DEF WorkerStep, WorkerCheck, At
<1>3. ASSUME NEW t \in {Game, Main, Audio}, Help(t), UNCHANGED others PROVE IInv'
  BY <1>3, Takes, Distinct DEF Help, At
<1>4. CASE GameStep
  <2>1. CASE Tasking(Game)
    BY <1>1, <2>1, Distinct
  <2>2. CASE Help(Game) /\ UNCHANGED others
    BY <1>3, <2>2
  <2>3. CASE BeginFrame \/ ResizeNotifies \/ ResizeJoins
    BY <2>3, Begins, Notifies, Joins
  <2>4. CASE SignalEndsFrame \/ Prepare \/ FinishAudio \/ AwaitCompletion \/ AnnounceWait \/ SwapAwaited
    BY <2>4, GameWaits
  <2>5. CASE EnqueueJobs \/ SubmitJobs \/ NotifyJobs \/ GameHelped
    BY <2>5, Enqueues, Submits, Notifies, StackEmpty DEF GameHelped
  <2>. QED  BY <1>4, <2>1, <2>2, <2>3, <2>4, <2>5 DEF GameStep
<1>5. CASE MainStep
  <2>1. CASE Tasking(Main) \/ (Help(Main) /\ UNCHANGED others)
    BY <1>1, <1>3, <2>1, Distinct
  <2>2. CASE Render \/ AwaitWaiter \/ SwapBuffers \/ NotifySwap \/ JoinGame
    BY <2>2, MainSwaps
  <2>3. CASE MainHelped \/ JoinAudio \/ DestroyNotifies \/ DestroyJoins
    BY <2>3, StackEmpty, Begins, Notifies, Joins DEF MainHelped
  <2>. QED  BY <1>5, <2>1, <2>2, <2>3 DEF MainStep
<1>6. CASE AudioStep
  BY <1>1, <1>3, <1>6, AudioPerforms, AudioStopsHelping, Distinct DEF AudioStep
<1>7. CASE SignalArrives
  BY <1>7, AudioPerforms
<1>8. CASE UNCHANGED vars
  <2>1. UNCHANGED <<pool_vars, pc, others>>
    BY <1>8 DEF vars, others
  <2>2. PoolTypeOK' /\ Accounting' /\ Busy' = Busy
    BY <2>1, PoolKept
  <2>. QED  BY <2>1, <2>2 DEF IInv, TypeOK, PcTypeOK, FrameTypeOK, InHand, NothingPosted,
              Handshake, GameGone, At, pool_vars, others, swapper_vars, audio_vars
<1>. QED  BY <1>2, <1>4, <1>5, <1>6, <1>7, <1>8 DEF Next

(* Before the first frame there is nothing to account for. *)
LEMMA Initially == Init => IInv
<1>. SUFFICES ASSUME Init PROVE IInv
  OBVIOUS
<1>. USE Distinct DEF Init, PoolInit
<1>1. PoolTypeOK
  BY EmptySeq DEF PoolTypeOK
<1>2. PcTypeOK
  BY DEF PcTypeOK, WorkerLabels, GameLabels, MainLabels, AudioLabels
<1>3. FrameTypeOK
  <2>1. 0 \in 0..NumAudioBuffers - 1
    BY FrameAssumption
  <2>. QED  BY <2>1 DEF FrameTypeOK
<1>4. Busy = {}
  BY DEF Busy
<1>5. InHand /\ NothingPosted /\ Handshake /\ GameGone
  BY <1>4 DEF InHand, NothingPosted, Handshake, GameGone, At
<1>6. Accounting
  BY <1>4, EmptySeq, FS_EmptySet DEF Accounting
<1>. QED  BY <1>1, <1>2, <1>3, <1>5, <1>6 DEF IInv, TypeOK

(* All of it, in every reachable state. *)
THEOREM Invariant == Spec => []IInv
BY Initially, Inductive, PTL DEF Spec

(* No task is lost, run twice or miscounted, whatever the number of        *)
(* workers and however often they are joined and hired anew: the counters  *)
(* of thread_pool.h differ by the tasks on the stack and in the hands of   *)
(* the threads.                                                            *)
THEOREM TasksAccounted == Spec => []Accounting
<1>1. IInv => Accounting
  BY DEF IInv
<1>. QED  BY <1>1, Invariant, PTL

(* While swap_buffers() and game_main_thread_synced_op() run, the game     *)
(* thread waits and no task is left that could touch a buffer.             *)
THEOREM SwapsExclusively == Spec => []SwapExclusive
<1>1. IInv => SwapExclusive
  BY DEF IInv, SwapExclusive, Handshake, NothingPosted, Idle, At
<1>. QED  BY <1>1, Invariant, PTL

(* When the game thread resizes the pool or submits, the pool is empty.    *)
THEOREM PoolEmptyBetweenFrames == Spec => []EmptyBetweenFrames
<1>1. IInv => EmptyBetweenFrames
  BY DEF IInv, EmptyBetweenFrames, NothingPosted, Idle
<1>. QED  BY <1>1, Invariant, PTL

-----------------------------------------------------------------------------
(***************************************************************************)
(* Playtests.                                                              *)
(***************************************************************************)

(* The loops of Playtest. *)
Builds  == INSTANCE SeqFolds WITH Op <- Onto
Dues    == INSTANCE SeqFolds WITH Op <- RedoIfDue
Ways    == INSTANCE SeqFolds WITH Op <- StepOn
Undos   == INSTANCE SeqFolds WITH Op <- UndoTurn
Redos   == INSTANCE SeqFolds WITH Op <- RedoTurn
Applied == INSTANCE SeqFolds WITH Op <- Reapply

-----------------------------------------------------------------------------
(* What a folder is made of. *)
Things    == Edits \cup Inputs \cup {NoInput, Bots, Half, "not_started"}
Worlds    == Seq(Things)
Done      == [edit : Edits, when : Nat]
Bounded   == {T \in SUBSET Nat : \E n \in Nat : \A t \in T : t <= n}
Partly(S) == UNION {[T -> S] : T \in Bounded}
Taken     == [world : Worlds, revision : Nat]
Saves     == [world : Worlds, commands : Seq(Done), revision : Nat]
Failures  == {"nothing", "no_snapshot", "next_command_is_past", "revision_does_not_exist",
              "beyond_the_target_revision", "redo_goes_back_in_time", "undo_goes_forth_in_time"}
Folders   ==
  [world : Worlds, commands : Seq(Done), revision : Nat,
   mode : {"PAUSED", "RECORDING", "REPLAYING"}, step : Nat,
   entropies : Partly(Things), snapshots : Partly(Taken),
   before : Saves, failed : Failures]

(* A bounded set of numbers has a greatest one. *)
LEMMA Greatest ==
  ASSUME NEW T \in Bounded, T # {}
  PROVE  Max(T) \in T /\ \A t \in T : t <= Max(T)
<1>. DEFINE HasMax(U) == \E m \in U : \A t \in U : t <= m
            P == {n \in Nat : \A U \in SUBSET Nat :
                    U # {} /\ (\A t \in U : t <= n) => HasMax(U)}
<1>1. 0 \in P
  <2>. SUFFICES ASSUME NEW U \in SUBSET Nat, U # {}, \A t \in U : t <= 0
                PROVE  HasMax(U)
    OBVIOUS
  <2>1. PICK m \in U : TRUE
    OBVIOUS
  <2>2. \A t \in U : t <= m
    OBVIOUS
  <2>. QED  BY <2>1, <2>2
<1>2. ASSUME NEW n \in Nat, n \in P PROVE n + 1 \in P
  <2>. SUFFICES ASSUME NEW U \in SUBSET Nat, U # {}, \A t \in U : t <= n + 1
                PROVE  HasMax(U)
    OBVIOUS
  <2>1. CASE n + 1 \in U
    BY <2>1
  <2>2. CASE n + 1 \notin U
    <3>1. \A t \in U : t <= n
      BY <2>2
    <3>. QED  BY <1>2, <3>1
  <2>. QED  BY <2>1, <2>2
<1>3. \A n \in Nat : n \in P
  <2>. HIDE DEF P
  <2>. QED  BY <1>1, <1>2, Builds!NatInduct
<1>4. PICK n \in Nat : \A t \in T : t <= n
  BY DEF Bounded
<1>5. T \in SUBSET Nat
  BY DEF Bounded
<1>6. PICK m \in T : \A t \in T : t <= m
  BY <1>3, <1>4, <1>5
<1>7. m = Max(T)
  <2>1. \A x \in T : (\A y \in T : x >= y) => x = m
    BY <1>5, <1>6
  <2>. QED  BY <1>5, <1>6, <2>1 DEF Max
<1>. QED  BY <1>6, <1>7

(* The greatest of two sets together is there as well. *)
LEMMA BoundedUnion ==
  ASSUME NEW S \in Bounded, NEW T \in Bounded
  PROVE  S \cup T \in Bounded
<1>1. PICK m \in Nat : \A t \in S : t <= m
  BY DEF Bounded
<1>2. PICK n \in Nat : \A t \in T : t <= n
  BY DEF Bounded
<1>3. \A t \in S \cup T : t <= m + n /\ t \in Nat
  BY <1>1, <1>2 DEF Bounded
<1>4. m + n \in Nat /\ S \cup T \in SUBSET Nat
  BY <1>3
<1>. QED  BY <1>3, <1>4 DEF Bounded

(* Of a bounded set every part is bounded. *)
LEMMA BoundedSubset ==
  ASSUME NEW S \in Bounded, NEW T \in SUBSET S
  PROVE  T \in Bounded
BY DEF Bounded

(* A single number is bounded. *)
LEMMA BoundedSingle ==
  ASSUME NEW n \in Nat
  PROVE  {n} \in Bounded
<1>1. \A t \in {n} : t <= n
  OBVIOUS
<1>. QED  BY <1>1 DEF Bounded

(* What a partial function gives, and what gives a partial function. *)
LEMMA PartlyHas ==
  ASSUME NEW S, NEW g \in Partly(S)
  PROVE  /\ DOMAIN g \in Bounded
         /\ DOMAIN g \subseteq Nat
         /\ \A s \in DOMAIN g : g[s] \in S
BY DEF Partly, Bounded

(* A function on a bounded set is a partial one. *)
LEMMA PartlyIs ==
  ASSUME NEW S, NEW T \in Bounded, NEW g \in [T -> S]
  PROVE  g \in Partly(S)
BY DEF Partly

(* The last of two parts takes what is added. *)
LEMMA ConcatAppend ==
  ASSUME NEW S, NEW a \in Seq(S), NEW b \in Seq(S), NEW c \in S
  PROVE  a \o Append(b, c) = Append(a \o b, c)
<1>1. <<c>> \in Seq(S) /\ a \o b \in Seq(S)
  BY ConcatProperties
<1>2. Append(b, c) = b \o <<c>> /\ Append(a \o b, c) = (a \o b) \o <<c>>
  BY <1>1, AppendIsConcat
<1>3. (a \o b) \o <<c>> = a \o (b \o <<c>>)
  BY <1>1, ConcatAssociative
<1>. QED  BY <1>2, <1>3

(* What is left without the last. *)
LEMMA FrontType ==
  ASSUME NEW S, NEW a \in Seq(S), a # <<>>
  PROVE  Front(a) \in Seq(S)
<1>1. Len(a) \in Nat /\ \A i \in 1..Len(a) - 1 : a[i] \in S
  BY LenProperties, ElementOfSeq
<1>. QED  BY <1>1, SubSeqProperties DEF Front

(* Taking back what was added last. *)
LEMMA FrontAppend ==
  ASSUME NEW S, NEW a \in Seq(S), NEW c \in S
  PROVE  /\ Append(a, c) # <<>>
         /\ Last(Append(a, c)) = c
         /\ Front(Append(a, c)) = a
<1>1. PICK u \in Seq(S) : u = Append(a, c)
  BY AppendProperties
<1>2. /\ u # <<>> /\ Len(a) \in Nat /\ Len(u) = Len(a) + 1 /\ u[Len(u)] = c
      /\ \A i \in 1..Len(a) : u[i] = a[i]
  BY <1>1, AppendProperties, LenProperties
<1>3. PICK v : v = SubSeq(u, 1, Len(u) - 1)
  OBVIOUS
<1>4. \A i \in 1..Len(a) : u[i] \in S
  BY <1>2, ElementOfSeq
<1>5. v \in Seq(S) /\ Len(v) = Len(a) /\ \A i \in 1..Len(a) : v[i] = u[1 + i - 1]
  BY <1>2, <1>3, <1>4, SubSeqProperties
<1>6. \A i \in 1..Len(a) : v[i] = a[i]
  BY <1>2, <1>5
<1>7. v = a
  BY <1>5, <1>6, SeqEqual
<1>. QED  BY <1>1, <1>2, <1>3, <1>7 DEF Front, Last

(* The commands of a folder. *)
LEMMA Commanded ==
  ASSUME NEW f \in Folders
  PROVE  /\ f.commands \in Seq(Done)
         /\ Len(f.commands) \in Nat
         /\ DOMAIN f.commands = 1..Len(f.commands)
         /\ \A i \in 1..Len(f.commands) :
              f.commands[i] \in Done /\ f.commands[i].when \in Nat /\ f.commands[i].edit \in Edits
<1>1. f.commands \in Seq(Done)
  BY DEF Folders
<1>2. Len(f.commands) \in Nat /\ DOMAIN f.commands = 1..Len(f.commands)
  BY <1>1, LenProperties
<1>3. \A i \in 1..Len(f.commands) : f.commands[i] \in Done
  BY <1>1, ElementOfSeq
<1>4. \A c \in Done : c.when \in Nat /\ c.edit \in Edits
  BY DEF Done
<1>. QED  BY <1>1, <1>2, <1>3, <1>4

-----------------------------------------------------------------------------
(* The edits of a step. *)
EditOf(f, step, i) ==
  IF f.commands[i].when = step THEN <<f.commands[i].edit>> ELSE <<>>

(* The fold of the model is the one that the lemmas are about. *)
LEMMA BuildsFold ==
  ASSUME NEW base, NEW seq
  PROVE  FoldLeft(Onto, base, seq) = Builds!Fold(base, seq)
BY DEF Builds!Fold, Builds!FoldLeft, Builds!MapThenFoldSet, Builds!Max, FoldLeft,
       MapThenFoldSet, Max

(* The edits of a step are a fold over the commands. *)
LEMMA EditsAtIs ==
  ASSUME NEW f, NEW step, NEW r
  PROVE  EditsAt(f, step, r) = Builds!Fold(<<>>, [i \in 1..r |-> EditOf(f, step, i)])
BY BuildsFold DEF EditsAt, EditOf

(* The edit of a command is a piece of a world. *)
LEMMA EditOfType ==
  ASSUME NEW f \in Folders, NEW step, NEW i \in 1..Len(f.commands)
  PROVE  EditOf(f, step, i) \in Worlds
<1>1. f.commands[i] \in Done
  BY DEF Folders
<1>2. f.commands[i].edit \in Things
  BY <1>1 DEF Done, Things
<1>. QED  BY <1>2 DEF EditOf, Worlds

(* Without commands nothing was edited. *)
LEMMA EditsAtNone ==
  ASSUME NEW f, NEW step
  PROVE  EditsAt(f, step, 0) = <<>>
<1>1. [i \in 1..0 |-> EditOf(f, step, i)] = <<>>
  OBVIOUS
<1>. QED  BY <1>1, EditsAtIs, Builds!FoldEmpty

(* One more command may add its edit. *)
LEMMA EditsAtNext ==
  ASSUME NEW f \in Folders, NEW step, NEW r \in Nat, r < Len(f.commands)
  PROVE  EditsAt(f, step, r + 1) = EditsAt(f, step, r) \o EditOf(f, step, r + 1)
<1>. DEFINE s(n) == [i \in 1..n |-> EditOf(f, step, i)]
<1>1. Len(f.commands) \in Nat
  BY DEF Folders
<1>2. \A i \in 1..r + 1 : EditOf(f, step, i) \in Worlds
  BY <1>1, EditOfType
<1>3. s(r) \in Seq(Worlds) /\ s(r + 1) \in Seq(Worlds)
  BY <1>2
<1>4. s(r + 1) = Append(s(r), EditOf(f, step, r + 1))
  BY <1>3
<1>5. EditOf(f, step, r + 1) \in Worlds
  BY <1>2
<1>6. EditsAt(f, step, r) = Builds!Fold(<<>>, s(r))
      /\ EditsAt(f, step, r + 1) = Builds!Fold(<<>>, s(r + 1))
  BY EditsAtIs
<1>. HIDE DEF s
<1>7. Builds!Fold(<<>>, Append(s(r), EditOf(f, step, r + 1)))
        = Onto(Builds!Fold(<<>>, s(r)), EditOf(f, step, r + 1))
  BY <1>3, <1>5, Builds!FoldAppend
<1>. QED  BY <1>4, <1>6, <1>7 DEF Onto

(* The edits of a step are a piece of a world. *)
LEMMA EditsAtType ==
  ASSUME NEW f \in Folders, NEW step, NEW r \in 0..Len(f.commands)
  PROVE  EditsAt(f, step, r) \in Worlds
<1>. DEFINE s == [i \in 1..r |-> EditOf(f, step, i)]
<1>1. Len(f.commands) \in Nat
  BY DEF Folders
<1>2. s \in Seq(Worlds)
  BY <1>1, EditOfType
<1>3. <<>> \in Worlds /\ \A x \in Worlds, e \in Worlds : Onto(x, e) \in Worlds
  BY DEF Worlds, Onto
<1>. HIDE DEF s
<1>4. Builds!Fold(<<>>, s) \in Worlds
  BY <1>2, <1>3, Builds!FoldClosed
<1>. QED  BY <1>4, EditsAtIs DEF s

(* A step that no command was given at has no edits. *)
LEMMA EditsAtEmpty ==
  ASSUME NEW f \in Folders, NEW step, NEW r \in 0..Len(f.commands),
         \A i \in 1..r : f.commands[i].when # step
  PROVE  EditsAt(f, step, r) = <<>>
<1>. DEFINE s == [i \in 1..r |-> EditOf(f, step, i)]
<1>1. Len(f.commands) \in Nat
  BY DEF Folders
<1>2. \A i \in 1..r : EditOf(f, step, i) = <<>>
  BY DEF EditOf
<1>3. s \in Seq({<<>>})
  BY <1>1, <1>2
<1>4. \A x \in {<<>>}, e \in {<<>>} : Onto(x, e) \in {<<>>}
  BY DEF Onto
<1>. HIDE DEF s
<1>5. Builds!Fold(<<>>, s) \in {<<>>}
  BY <1>3, <1>4, Builds!FoldClosed
<1>. QED  BY <1>5, EditsAtIs DEF s

(* Only the commands up to the revision matter. *)
LEMMA EditsAtSame ==
  ASSUME NEW f, NEW g, NEW step, NEW r \in Nat,
         \A i \in 1..r : f.commands[i] = g.commands[i]
  PROVE  EditsAt(f, step, r) = EditsAt(g, step, r)
<1>1. [i \in 1..r |-> EditOf(f, step, i)] = [i \in 1..r |-> EditOf(g, step, i)]
  BY DEF EditOf
<1>. QED  BY <1>1, EditsAtIs

(* What playing gives, up to the edits of the last step. *)
Solved(f, step, r) == Append(EditsAt(f, step, r), Input(f, step))
Solves(f, n, r)    == [i \in 1..n |-> Solved(f, i - 1, r)]
Reached(f, n, r)   == Builds!Fold(Append(f.before.world, Bots), Solves(f, n, r))

(* Playing gives all steps solved and then the edits of this one. *)
LEMMA PlayedIs ==
  ASSUME NEW f, NEW step, NEW r
  PROVE  Played(f, step, r) = Reached(f, step, r) \o EditsAt(f, step, r)
BY BuildsFold DEF Played, Reached, Solves, Solved

(* A step has an input, if only the empty one. *)
LEMMA InputType ==
  ASSUME NEW f \in Folders, NEW step
  PROVE  Input(f, step) \in Things
<1>1. f.entropies \in Partly(Things)
  BY DEF Folders
<1>2. \A s \in DOMAIN f.entropies : f.entropies[s] \in Things
  BY <1>1, PartlyHas
<1>. QED  BY <1>2 DEF Input, Things

(* A step solved is a piece of a world. *)
LEMMA SolvedType ==
  ASSUME NEW f \in Folders, NEW step, NEW r \in 0..Len(f.commands)
  PROVE  Solved(f, step, r) \in Worlds
<1>1. EditsAt(f, step, r) \in Seq(Things) /\ Input(f, step) \in Things
  BY EditsAtType, InputType DEF Worlds
<1>. QED  BY <1>1 DEF Solved, Worlds

(* A test starts in a world. *)
LEMMA StartType ==
  ASSUME NEW f \in Folders
  PROVE  Append(f.before.world, Bots) \in Worlds
<1>1. f.before.world \in Seq(Things) /\ Bots \in Things
  BY DEF Folders, Saves, Worlds, Things
<1>. QED  BY <1>1 DEF Worlds

(* All steps solved give a world. *)
LEMMA ReachedType ==
  ASSUME NEW f \in Folders, NEW n \in Nat, NEW r \in 0..Len(f.commands)
  PROVE  Reached(f, n, r) \in Worlds
<1>1. Solves(f, n, r) \in Seq(Worlds)
  <2>1. \A i \in 1..n : Solved(f, i - 1, r) \in Worlds
    BY SolvedType
  <2>. QED  BY <2>1 DEF Solves
<1>2. \A x \in Worlds, e \in Worlds : Onto(x, e) \in Worlds
  BY DEF Worlds, Onto
<1>. QED  BY <1>1, <1>2, StartType, Builds!FoldClosed DEF Reached

(* Playing gives a world. *)
LEMMA PlayedType ==
  ASSUME NEW f \in Folders, NEW n \in Nat, NEW r \in 0..Len(f.commands)
  PROVE  Played(f, n, r) \in Worlds
<1>1. Reached(f, n, r) \in Seq(Things) /\ EditsAt(f, n, r) \in Seq(Things)
  BY ReachedType, EditsAtType DEF Worlds
<1>2. Reached(f, n, r) \o EditsAt(f, n, r) \in Seq(Things)
  BY <1>1, ConcatProperties
<1>. QED  BY <1>2, PlayedIs DEF Worlds

(* One more step is solved. *)
LEMMA ReachedNext ==
  ASSUME NEW f \in Folders, NEW n \in Nat, NEW r \in 0..Len(f.commands)
  PROVE  Reached(f, n + 1, r) = Reached(f, n, r) \o Solved(f, n, r)
<1>1. Solves(f, n, r) \in Seq(Worlds) /\ Solved(f, n, r) \in Worlds
  <2>1. \A i \in 1..n : Solved(f, i - 1, r) \in Worlds
    BY SolvedType
  <2>. QED  BY <2>1, SolvedType DEF Solves
<1>2. Solves(f, n + 1, r) = Append(Solves(f, n, r), Solved(f, n, r))
  BY <1>1 DEF Solves
<1>3. PICK start : start = Append(f.before.world, Bots)
  OBVIOUS
<1>4. Builds!Fold(start, Append(Solves(f, n, r), Solved(f, n, r)))
        = Onto(Builds!Fold(start, Solves(f, n, r)), Solved(f, n, r))
  BY <1>1, Builds!FoldAppend
<1>. QED  BY <1>2, <1>3, <1>4 DEF Reached, Onto

(* A step solved adds its input, if no command of the next one is done.    *)
LEMMA PlayedNext ==
  ASSUME NEW f \in Folders, NEW n \in Nat, NEW r \in 0..Len(f.commands),
         \A i \in 1..r : f.commands[i].when <= n
  PROVE  Played(f, n + 1, r) = Append(Played(f, n, r), Input(f, n))
<1>1. Len(f.commands) \in Nat /\ \A i \in 1..r : f.commands[i].when \in Nat
  BY Commanded
<1>2. EditsAt(f, n + 1, r) = <<>>
  <2>1. \A i \in 1..r : f.commands[i].when # n + 1
    BY <1>1
  <2>. QED  BY <2>1, EditsAtEmpty
<1>3. PICK a : a = Reached(f, n, r) /\ a \in Seq(Things)
  BY ReachedType DEF Worlds
<1>4. PICK b : b = EditsAt(f, n, r) /\ b \in Seq(Things)
  BY EditsAtType DEF Worlds
<1>5. PICK c : c = Input(f, n) /\ c \in Things
  BY InputType
<1>6. Played(f, n, r) = a \o b
  BY <1>3, <1>4, PlayedIs
<1>7. Played(f, n + 1, r) = (a \o Append(b, c)) \o <<>>
  BY <1>2, <1>3, <1>4, <1>5, PlayedIs, ReachedNext DEF Solved
<1>8. a \o Append(b, c) \in Seq(Things)
  BY <1>3, <1>4, <1>5, AppendProperties, ConcatProperties
<1>9. (a \o Append(b, c)) \o <<>> = Append(a \o b, c)
  BY <1>3, <1>4, <1>5, <1>8, ConcatEmptySeq, ConcatAppend
<1>. QED  BY <1>5, <1>6, <1>7, <1>9

(* Before the first step there are only the bots. *)
LEMMA PlayedNothing ==
  ASSUME NEW f \in Folders
  PROVE  Played(f, 0, 0) = Append(f.before.world, Bots)
<1>1. Solves(f, 0, 0) = <<>>
  BY DEF Solves
<1>2. Reached(f, 0, 0) = Append(f.before.world, Bots)
  BY <1>1, Builds!FoldEmpty DEF Reached
<1>3. EditsAt(f, 0, 0) = <<>>
  BY EditsAtNone
<1>4. Append(f.before.world, Bots) \in Seq(Things)
  BY StartType DEF Worlds
<1>. QED  BY <1>2, <1>3, <1>4, PlayedIs

(* A command of this step or of a later one changes no step before.        *)
LEMMA ReachedRedo ==
  ASSUME NEW f \in Folders, NEW n \in Nat, NEW r \in Nat, r < Len(f.commands),
         f.commands[r + 1].when >= n
  PROVE  Reached(f, n, r + 1) = Reached(f, n, r)
<1>1. Len(f.commands) \in Nat /\ f.commands[r + 1].when \in Nat
  BY Commanded
<1>2. ASSUME NEW i \in 1..n PROVE Solved(f, i - 1, r + 1) = Solved(f, i - 1, r)
  <2>1. f.commands[r + 1].when # i - 1
    BY <1>1
  <2>2. EditOf(f, i - 1, r + 1) = <<>>
    BY <2>1 DEF EditOf
  <2>3. EditsAt(f, i - 1, r) \in Seq(Things)
    BY <1>1, EditsAtType DEF Worlds
  <2>4. EditsAt(f, i - 1, r + 1) = EditsAt(f, i - 1, r) \o EditOf(f, i - 1, r + 1)
    BY EditsAtNext
  <2>5. EditsAt(f, i - 1, r + 1) = EditsAt(f, i - 1, r)
    BY <2>2, <2>3, <2>4, ConcatEmptySeq
  <2>. QED  BY <2>5 DEF Solved
<1>3. Solves(f, n, r + 1) = Solves(f, n, r)
  BY <1>2 DEF Solves
<1>. QED  BY <1>3 DEF Reached

(* A command redone at its step adds its edit. *)
LEMMA PlayedRedo ==
  ASSUME NEW f \in Folders, NEW n \in Nat, NEW r \in Nat, r < Len(f.commands),
         f.commands[r + 1].when = n
  PROVE  Played(f, n, r + 1) = Append(Played(f, n, r), f.commands[r + 1].edit)
<1>1. Len(f.commands) \in Nat
  BY DEF Folders
<1>2. f.commands[r + 1] \in Done
  BY <1>1 DEF Folders
<1>3. PICK c : c = f.commands[r + 1].edit /\ c \in Things
  BY <1>2 DEF Done, Things
<1>4. PICK a : a = Reached(f, n, r) /\ a \in Seq(Things)
  BY <1>1, ReachedType DEF Worlds
<1>5. PICK b : b = EditsAt(f, n, r) /\ b \in Seq(Things)
  BY <1>1, EditsAtType DEF Worlds
<1>6. Reached(f, n, r + 1) = a
  BY <1>4, ReachedRedo
<1>7. EditsAt(f, n, r + 1) = b \o <<c>>
  BY <1>3, <1>5, EditsAtNext DEF EditOf
<1>8. a \o (b \o <<c>>) = Append(a \o b, c)
  BY <1>3, <1>4, <1>5, ConcatAppend, AppendIsConcat
<1>. QED  BY <1>3, <1>4, <1>5, <1>6, <1>7, <1>8, PlayedIs

(* Nothing else matters: neither later commands nor later inputs.          *)
LEMMA PlayedSame ==
  ASSUME NEW f, NEW g, NEW n \in Nat, NEW r \in Nat,
         f.before.world = g.before.world,
         \A i \in 1..r : f.commands[i] = g.commands[i],
         \A s \in 0..n - 1 : Input(f, s) = Input(g, s)
  PROVE  Played(f, n, r) = Played(g, n, r)
<1>1. \A s : EditsAt(f, s, r) = EditsAt(g, s, r)
  BY EditsAtSame
<1>2. ASSUME NEW i \in 1..n PROVE Solved(f, i - 1, r) = Solved(g, i - 1, r)
  <2>1. i - 1 \in 0..n - 1
    OBVIOUS
  <2>. QED  BY <1>1, <2>1 DEF Solved
<1>3. Solves(f, n, r) = Solves(g, n, r)
  BY <1>2 DEF Solves
<1>. QED  BY <1>1, <1>3, PlayedIs DEF Reached

-----------------------------------------------------------------------------
(* The invariant of a test. *)

(* The first r commands happened by the step, the others from then on.     *)
DoneBy(f, r, step) ==
  /\ r <= Len(f.commands)
  /\ \A i \in 1..Len(f.commands) :
       IF i <= r THEN f.commands[i].when <= step ELSE f.commands[i].when >= step

Sorted(f) ==
  \A i, j \in 1..Len(f.commands) : i <= j => f.commands[i].when <= f.commands[j].when

SnapshotIs(f, s) ==
  LET taken == f.snapshots[s]
  IN  /\ DoneBy(f, taken.revision, s)
      /\ IF s = 0 THEN taken.revision = 0
                  ELSE taken.world = Played(f, s, taken.revision)

(* What a folder says of the past and of the steps ahead is true.          *)
Sure(f) == Sorted(f) /\ \A s \in DOMAIN f.snapshots : SnapshotIs(f, s)

(* A folder where the player is at a step that it may be at, of any world; *)
(* that it may is known of tests that are not suspect.                     *)
Placed(f, clean) ==
  /\ f \in Folders
  /\ DOMAIN f.snapshots # {} => 0 \in DOMAIN f.snapshots
  /\ Fine(f) => f.revision <= Len(f.commands)
  /\ clean => Sure(f) /\ DoneBy(f, f.revision, f.step)

Right(f) == f.world = Played(f, f.step, f.revision)

Replayed(f, clean) == Placed(f, clean) /\ (clean /\ Fine(f) => Right(f))

(* The test remains the same. *)
SameTest(f, g) == g.before = f.before /\ g.commands = f.commands
SamePast(f, g) == SameTest(f, g) /\ g.entropies = f.entropies /\ g.snapshots = f.snapshots

(* With the same commands and inputs the same is played. *)
LEMMA PlayedAlike ==
  ASSUME NEW f, NEW g, SameTest(f, g), g.entropies = f.entropies
  PROVE  \A n, r : Played(g, n, r) = Played(f, n, r)
<1>1. \A s : Input(g, s) = Input(f, s)
  BY DEF Input
<1>2. \A s, r : EditsAt(g, s, r) = EditsAt(f, s, r)
  BY DEF EditsAt, SameTest
<1>3. \A n, r : Solves(g, n, r) = Solves(f, n, r)
  BY <1>1, <1>2 DEF Solves, Solved
<1>4. \A n, r : Reached(g, n, r) = Reached(f, n, r)
  BY <1>3 DEF Reached, SameTest
<1>. QED  BY <1>2, <1>4, PlayedIs

(* What is true of the past does not depend on where the player is. *)
LEMMA SureAlike ==
  ASSUME NEW f, NEW g, SamePast(f, g), Sure(f)
  PROVE  Sure(g)
<1>1. \A n, r : Played(g, n, r) = Played(f, n, r)
  BY PlayedAlike DEF SamePast
<1>2. Sorted(g)
  BY DEF Sure, Sorted, SamePast, SameTest
<1>3. \A r, s : DoneBy(g, r, s) = DoneBy(f, r, s)
  BY DEF DoneBy, SamePast, SameTest
<1>4. \A s : SnapshotIs(g, s) = SnapshotIs(f, s)
  BY <1>1, <1>3 DEF SnapshotIs, SamePast
<1>. QED  BY <1>2, <1>4 DEF Sure, SamePast

(* One more command is done, or one less. *)
LEMMA DoneNext ==
  ASSUME NEW f \in Folders, NEW r \in Nat, NEW step \in Nat, DoneBy(f, r, step),
         r < Len(f.commands), f.commands[r + 1].when = step
  PROVE  DoneBy(f, r + 1, step)
<1>1. Len(f.commands) \in Nat
  BY Commanded
<1>2. ASSUME NEW i \in 1..Len(f.commands)
      PROVE  IF i <= r + 1 THEN f.commands[i].when <= step ELSE f.commands[i].when >= step
  <2>1. CASE i = r + 1
    BY <2>1
  <2>2. CASE i <= r
    BY <1>1, <2>2 DEF DoneBy
  <2>3. CASE i > r + 1
    BY <1>1, <2>3 DEF DoneBy
  <2>. QED  BY <1>1, <2>1, <2>2, <2>3
<1>. QED  BY <1>1, <1>2 DEF DoneBy

(* A command undone at its step leaves the others done by it. *)
LEMMA DonePrevious ==
  ASSUME NEW f \in Folders, NEW r \in Nat, NEW step \in Nat, DoneBy(f, r + 1, step),
         f.commands[r + 1].when = step
  PROVE  DoneBy(f, r, step)
<1>1. Len(f.commands) \in Nat /\ r + 1 <= Len(f.commands)
  BY Commanded DEF DoneBy
<1>2. ASSUME NEW i \in 1..Len(f.commands)
      PROVE  IF i <= r THEN f.commands[i].when <= step ELSE f.commands[i].when >= step
  <2>1. CASE i = r + 1
    BY <2>1
  <2>2. CASE i <= r
    BY <1>1, <2>2 DEF DoneBy
  <2>3. CASE i > r + 1
    BY <1>1, <2>3 DEF DoneBy
  <2>. QED  BY <1>1, <2>1, <2>2, <2>3
<1>. QED  BY <1>1, <1>2 DEF DoneBy

(* A redo at the step the command was given at. *)
LEMMA RedoNextKeeps ==
  ASSUME NEW f, NEW clean, Replayed(f, clean), Fine(f), f.revision < Len(f.commands),
         clean => f.commands[f.revision + 1].when = f.step
  PROVE  LET g == RedoNext(f)
         IN  /\ Replayed(g, clean) /\ SamePast(f, g) /\ Fine(g)
             /\ g.step = f.step /\ g.mode = f.mode
             /\ g.revision = f.revision + 1
<1>. DEFINE c == f.commands[f.revision + 1]
<1>1. f \in Folders /\ Len(f.commands) \in Nat /\ c \in Done /\ f.revision \in Nat /\ f.step \in Nat
      /\ f.revision + 1 \in Nat
  BY Commanded DEF Replayed, Placed, Folders
<1>2. PICK w \in Worlds : w = Append(f.world, c.edit)
  <2>1. f.world \in Seq(Things) /\ c.edit \in Things
    BY <1>1 DEF Folders, Worlds, Done, Things
  <2>. QED  BY <2>1, AppendProperties DEF Worlds
<1>3. PICK g : g = [f EXCEPT !.world = w, !.revision = f.revision + 1]
  OBVIOUS
<1>4. g = RedoNext(f)
  BY <1>2, <1>3, Zenon DEF RedoNext
<1>5. /\ g \in Folders /\ SamePast(f, g) /\ g.failed = f.failed
      /\ g.step = f.step /\ g.mode = f.mode /\ g.revision = f.revision + 1 /\ g.world = w
  BY <1>1, <1>3 DEF Folders, SamePast, SameTest
<1>6. Fine(g)
  BY <1>5 DEF Fine
<1>7. ASSUME clean PROVE Sure(g) /\ DoneBy(g, g.revision, g.step) /\ Right(g)
  <2>1. Sure(g)
    BY <1>5, <1>7, SureAlike DEF Replayed, Placed
  <2>2. DoneBy(f, f.revision + 1, f.step)
    BY <1>1, <1>7, DoneNext DEF Replayed, Placed
  <2>3. DoneBy(g, g.revision, g.step)
    BY <1>5, <2>2 DEF DoneBy, SamePast, SameTest
  <2>4. Played(f, f.step, f.revision + 1) = Append(Played(f, f.step, f.revision), c.edit)
    BY <1>1, <1>7, PlayedRedo
  <2>5. Played(g, g.step, g.revision) = Played(f, f.step, f.revision + 1)
    BY <1>5, PlayedAlike DEF SamePast
  <2>6. f.world = Played(f, f.step, f.revision)
    BY <1>7 DEF Replayed, Right
  <2>. QED  BY <1>2, <1>5, <2>1, <2>3, <2>4, <2>5, <2>6 DEF Right
<1>8. Replayed(g, clean)
  BY <1>1, <1>5, <1>7 DEF Replayed, Placed, SamePast, SameTest
<1>. QED  BY <1>4, <1>5, <1>6, <1>8

(* An undo at the step the command was given at. *)
LEMMA UndoLastKeeps ==
  ASSUME NEW f, NEW clean, Replayed(f, clean), Fine(f), f.revision # 0,
         clean => f.commands[f.revision].when = f.step
  PROVE  LET g == UndoLast(f)
         IN  /\ Replayed(g, clean) /\ SamePast(f, g) /\ Fine(g)
             /\ g.step = f.step /\ g.mode = f.mode
             /\ g.revision = f.revision - 1
<1>. DEFINE r == f.revision - 1
            c == f.commands[r + 1]
<1>1. /\ f \in Folders /\ Len(f.commands) \in Nat /\ c \in Done /\ r \in Nat /\ f.step \in Nat
      /\ r + 1 = f.revision /\ r < Len(f.commands)
  BY Commanded DEF Replayed, Placed, Folders
<1>2. PICK w \in Worlds : w = IF f.world # <<>> /\ Last(f.world) = c.edit
                              THEN Front(f.world) ELSE f.world
  <2>1. f.world \in Seq(Things)
    BY <1>1 DEF Folders, Worlds
  <2>2. f.world # <<>> => Front(f.world) \in Seq(Things)
    BY <2>1, FrontType
  <2>. QED  BY <2>1, <2>2 DEF Worlds
<1>3. PICK g : g = [f EXCEPT !.world = w, !.revision = r]
  OBVIOUS
<1>4. g = UndoLast(f)
  BY <1>1, <1>2, <1>3 DEF UndoLast
<1>5. /\ g \in Folders /\ SamePast(f, g) /\ g.failed = f.failed
      /\ g.step = f.step /\ g.mode = f.mode /\ g.revision = r /\ g.world = w
  BY <1>1, <1>2, <1>3 DEF Folders, SamePast, SameTest
<1>6. Fine(g)
  BY <1>5 DEF Fine
<1>7. ASSUME clean PROVE Sure(g) /\ DoneBy(g, g.revision, g.step) /\ Right(g)
  <2>1. Sure(g)
    BY <1>5, <1>7, SureAlike DEF Replayed, Placed
  <2>2. DoneBy(f, r + 1, f.step)
    BY <1>1, <1>7 DEF Replayed, Placed
  <2>3. DoneBy(f, r, f.step)
    BY <1>1, <1>7, <2>2, DonePrevious
  <2>4. DoneBy(g, g.revision, g.step)
    BY <1>5, <2>3 DEF DoneBy, SamePast, SameTest
  <2>5. Played(f, f.step, r + 1) = Append(Played(f, f.step, r), c.edit)
    BY <1>1, <1>7, PlayedRedo
  <2>6. f.world = Played(f, f.step, r + 1)
    BY <1>1, <1>7 DEF Replayed, Right
  <2>7. PICK p \in Seq(Things) : p = Played(f, f.step, r)
    <3>1. r \in 0..Len(f.commands)
      BY <1>1
    <3>2. Played(f, f.step, r) \in Worlds
      BY <1>1, <3>1, PlayedType
    <3>. QED  BY <3>2 DEF Worlds
  <2>8. c.edit \in Things
    BY <1>1 DEF Done, Things
  <2>9. w = p
    <3>1. f.world = Append(p, c.edit)
      BY <2>5, <2>6, <2>7
    <3>. QED  BY <1>2, <2>7, <2>8, <3>1, FrontAppend
  <2>10. Played(g, g.step, g.revision) = p
    BY <1>5, <2>7, PlayedAlike DEF SamePast
  <2>. QED  BY <1>5, <2>1, <2>4, <2>9, <2>10 DEF Right
<1>8. Replayed(g, clean)
  BY <1>1, <1>5, <1>7 DEF Replayed, Placed, SamePast, SameTest
<1>. QED  BY <1>4, <1>5, <1>6, <1>8

-----------------------------------------------------------------------------
(* Loops of redos and undos. *)

(* An assertion that fails changes nothing else. *)
LEMMA FailKeeps ==
  ASSUME NEW f, NEW clean, Placed(f, clean), NEW why \in Failures, why # "nothing"
  PROVE  LET g == Fail(f, why)
         IN  /\ Replayed(g, clean) /\ SamePast(f, g) /\ ~Fine(g)
             /\ g.step = f.step /\ g.mode = f.mode /\ g.revision = f.revision
<1>1. f \in Folders
  BY DEF Placed
<1>2. PICK g : g = Fail(f, why)
  OBVIOUS
<1>3. /\ g \in Folders /\ SamePast(f, g) /\ ~Fine(g)
      /\ g.step = f.step /\ g.mode = f.mode /\ g.revision = f.revision
  BY <1>1, <1>2 DEF Fail, Folders, SamePast, SameTest, Fine
<1>4. ASSUME clean PROVE Sure(g) /\ DoneBy(g, g.revision, g.step)
  <2>1. Sure(g)
    BY <1>3, <1>4, SureAlike DEF Placed
  <2>. QED  BY <1>3, <1>4, <2>1 DEF Placed, DoneBy, SamePast, SameTest
<1>5. DOMAIN g.snapshots # {} => 0 \in DOMAIN g.snapshots
  BY <1>3 DEF Placed, SamePast
<1>6. Replayed(g, clean)
  BY <1>3, <1>4, <1>5 DEF Replayed, Placed
<1>. QED  BY <1>2, <1>3, <1>6

(* What turns at one step leave as it is. *)
SameStep(f, g) == SamePast(f, g) /\ g.step = f.step /\ g.mode = f.mode

(* Two such turns make another. *)
LEMMA SameStepAgain ==
  ASSUME NEW f, NEW g, NEW h, SameStep(f, g), SameStep(g, h)
  PROVE  SameStep(f, h)
BY DEF SameStep, SamePast, SameTest

(* The redos are a fold that the lemmas are about. *)
LEMMA RedosFold ==
  ASSUME NEW base, NEW seq
  PROVE  FoldLeft(RedoTurn, base, seq) = Redos!Fold(base, seq)
BY DEF Redos!Fold, Redos!FoldLeft, Redos!MapThenFoldSet, Redos!Max, FoldLeft,
       MapThenFoldSet, Max

(* So are the undos. *)
LEMMA UndosFold ==
  ASSUME NEW base, NEW seq
  PROVE  FoldLeft(UndoTurn, base, seq) = Undos!Fold(base, seq)
BY DEF Undos!Fold, Undos!FoldLeft, Undos!MapThenFoldSet, Undos!Max, FoldLeft,
       MapThenFoldSet, Max

(* So are the redos at the start of a step. *)
LEMMA DuesFold ==
  ASSUME NEW base, NEW seq
  PROVE  FoldLeft(RedoIfDue, base, seq) = Dues!Fold(base, seq)
BY DEF Dues!Fold, Dues!FoldLeft, Dues!MapThenFoldSet, Dues!Max, FoldLeft,
       MapThenFoldSet, Max

(* The commands up to a revision are redone, all of them of this step.     *)
LEMMA RedosKeep ==
  ASSUME NEW f, NEW clean, Replayed(f, clean), Fine(f), NEW n \in Nat,
         f.revision + n <= Len(f.commands),
         clean => \A i \in 1..n : f.commands[f.revision + i].when = f.step,
         NEW s, DOMAIN s = 1..n
  PROVE  LET g == FoldLeft(RedoTurn, f, s)
         IN  /\ Replayed(g, clean) /\ SameStep(f, g) /\ Fine(g)
             /\ g.revision = f.revision + n
<1>1. f.revision \in Nat /\ Len(f.commands) \in Nat
  BY Commanded DEF Replayed, Placed, Folders
<1>2. PICK h : Redos!Unfolds(h, f, s, n) /\ Redos!Fold(f, s) = h[n]
  BY Redos!FoldUnfold
<1>. DEFINE Turned(k) == /\ Replayed(h[k], clean) /\ SameStep(f, h[k]) /\ Fine(h[k])
                         /\ h[k].revision = f.revision + k
            P == {k \in Nat : k <= n => Turned(k)}
<1>3. 0 \in P
  <2>1. h[0] = f /\ f.revision + 0 = f.revision
    BY <1>1, <1>2 DEF Redos!Unfolds
  <2>. QED  BY <2>1 DEF SameStep, SamePast, SameTest
<1>4. ASSUME NEW k \in Nat, k \in P PROVE k + 1 \in P
  <2>. SUFFICES ASSUME k + 1 <= n PROVE Turned(k + 1)
    OBVIOUS
  <2>1. Turned(k) /\ k \in 0..n - 1 /\ k + 1 \in 1..n
    BY <1>4
  <2>2. h[k + 1] = RedoNext(h[k])
    BY <1>2, <2>1 DEF Redos!Unfolds, RedoTurn
  <2>3. h[k].commands = f.commands /\ h[k].step = f.step
    BY <2>1 DEF SameStep, SamePast, SameTest
  <2>4. h[k].revision < Len(f.commands) /\ h[k].revision + 1 = f.revision + (k + 1)
    BY <1>1, <2>1
  <2>5. clean => f.commands[h[k].revision + 1].when = f.step
    BY <2>1, <2>4
  <2>6. /\ Replayed(h[k + 1], clean) /\ SamePast(h[k], h[k + 1]) /\ Fine(h[k + 1])
        /\ h[k + 1].step = h[k].step /\ h[k + 1].mode = h[k].mode
        /\ h[k + 1].revision = h[k].revision + 1
    BY <2>1, <2>2, <2>3, <2>4, <2>5, RedoNextKeeps
  <2>7. SameStep(h[k], h[k + 1])
    BY <2>6 DEF SameStep
  <2>8. SameStep(f, h[k + 1])
    BY <2>1, <2>7, SameStepAgain
  <2>. QED  BY <2>4, <2>6, <2>8
<1>5. n \in P
  <2>. HIDE DEF P
  <2>. QED  BY <1>3, <1>4, Redos!NatInduct
<1>6. Turned(n)
  BY <1>5
<1>. QED  BY <1>2, <1>6, RedosFold

(* The last commands are undone, all of them of this step. *)
LEMMA UndosKeep ==
  ASSUME NEW f, NEW clean, Replayed(f, clean), Fine(f), NEW n \in Nat, n <= f.revision,
         clean => \A i \in 1..n : f.commands[f.revision + 1 - i].when = f.step,
         NEW s, DOMAIN s = 1..n
  PROVE  LET g == FoldLeft(UndoTurn, f, s)
         IN  /\ Replayed(g, clean) /\ SameStep(f, g) /\ Fine(g)
             /\ g.revision = f.revision - n
<1>1. f.revision \in Nat /\ Len(f.commands) \in Nat
  BY Commanded DEF Replayed, Placed, Folders
<1>2. PICK h : Undos!Unfolds(h, f, s, n) /\ Undos!Fold(f, s) = h[n]
  BY Undos!FoldUnfold
<1>. DEFINE Turned(k) == /\ Replayed(h[k], clean) /\ SameStep(f, h[k]) /\ Fine(h[k])
                         /\ h[k].revision = f.revision - k
            P == {k \in Nat : k <= n => Turned(k)}
<1>3. 0 \in P
  <2>1. h[0] = f /\ f.revision - 0 = f.revision
    BY <1>1, <1>2 DEF Undos!Unfolds
  <2>. QED  BY <2>1 DEF SameStep, SamePast, SameTest
<1>4. ASSUME NEW k \in Nat, k \in P PROVE k + 1 \in P
  <2>. SUFFICES ASSUME k + 1 <= n PROVE Turned(k + 1)
    OBVIOUS
  <2>1. Turned(k) /\ k \in 0..n - 1 /\ k + 1 \in 1..n
    BY <1>4
  <2>2. h[k + 1] = UndoLast(h[k])
    BY <1>2, <2>1 DEF Undos!Unfolds, UndoTurn
  <2>3. h[k].commands = f.commands /\ h[k].step = f.step
    BY <2>1 DEF SameStep, SamePast, SameTest
  <2>4. /\ h[k].revision # 0 /\ h[k].revision = f.revision + 1 - (k + 1)
        /\ h[k].revision - 1 = f.revision - (k + 1)
    BY <1>1, <2>1
  <2>5. clean => f.commands[h[k].revision].when = f.step
    BY <2>1, <2>4
  <2>6. /\ Replayed(h[k + 1], clean) /\ SamePast(h[k], h[k + 1]) /\ Fine(h[k + 1])
        /\ h[k + 1].step = h[k].step /\ h[k + 1].mode = h[k].mode
        /\ h[k + 1].revision = h[k].revision - 1
    BY <2>1, <2>2, <2>3, <2>4, <2>5, UndoLastKeeps
  <2>7. SameStep(h[k], h[k + 1])
    BY <2>6 DEF SameStep
  <2>8. SameStep(f, h[k + 1])
    BY <2>1, <2>7, SameStepAgain
  <2>. QED  BY <2>4, <2>6, <2>8
<1>5. n \in P
  <2>. HIDE DEF P
  <2>. QED  BY <1>3, <1>4, Undos!NatInduct
<1>6. Turned(n)
  BY <1>5
<1>. QED  BY <1>2, <1>6, UndosFold

(* Commands from the k-th on are redone that happened at this step; of a   *)
(* test that is not suspect there is none of a step before.                *)
Dued(f, g, k, clean) ==
  /\ Replayed(g, clean) /\ SameStep(f, g)
  /\ clean => Fine(g) /\ (g.revision >= k \/ f.commands[g.revision + 1].when > f.step)

(* One command looked at for whether it is due. *)
LEMMA RedoIfDueKeeps ==
  ASSUME NEW f, NEW g, NEW clean, NEW k \in Nat, k < Len(f.commands), Dued(f, g, k, clean)
  PROVE  Dued(f, RedoIfDue(g, k + 1), k + 1, clean)
<1>1. /\ g.commands = f.commands /\ g.step = f.step
      /\ g.revision \in Nat /\ Len(g.commands) \in Nat
      /\ g.step \in Nat /\ g.commands[k + 1].when \in Nat
  BY Commanded DEF Dued, Replayed, Placed, Folders, SameStep, SamePast, SameTest
<1>2. CASE ~Fine(g) \/ k + 1 # g.revision + 1 \/ g.commands[k + 1].when > g.step
  <2>1. RedoIfDue(g, k + 1) = g
    BY <1>2 DEF RedoIfDue
  <2>2. clean => (g.revision >= k + 1 \/ f.commands[g.revision + 1].when > f.step)
    BY <1>1, <1>2 DEF Dued
  <2>. QED  BY <2>1, <2>2 DEF Dued
<1>3. CASE Fine(g) /\ k + 1 = g.revision + 1 /\ g.commands[k + 1].when < g.step
  <2>1. RedoIfDue(g, k + 1) = Fail(g, "next_command_is_past")
    BY <1>1, <1>3 DEF RedoIfDue
  <2>2. ~clean
    BY <1>1, <1>3 DEF Dued, Replayed, Placed, DoneBy
  <2>3. PICK h : h = Fail(g, "next_command_is_past")
    OBVIOUS
  <2>4. Replayed(h, clean) /\ SamePast(g, h) /\ h.step = g.step /\ h.mode = g.mode
    <3>1. Placed(g, clean)
      BY DEF Dued, Replayed
    <3>. HIDE DEF Dued
    <3>. QED  BY <2>3, <3>1, FailKeeps DEF Failures
  <2>5. SameStep(g, h) /\ SameStep(f, g)
    BY <2>4 DEF SameStep, Dued
  <2>6. SameStep(f, h)
    BY <2>5, SameStepAgain
  <2>. QED  BY <2>1, <2>2, <2>3, <2>4, <2>6 DEF Dued
<1>4. CASE Fine(g) /\ k + 1 = g.revision + 1 /\ g.commands[k + 1].when = g.step
  <2>1. RedoIfDue(g, k + 1) = RedoNext(g)
    BY <1>1, <1>4 DEF RedoIfDue
  <2>2. PICK h : h = RedoNext(g)
    OBVIOUS
  <2>3. g.revision = k /\ g.revision < Len(g.commands)
    BY <1>1, <1>4
  <2>4. /\ Replayed(h, clean) /\ SamePast(g, h) /\ Fine(h) /\ h.step = g.step /\ h.mode = g.mode
        /\ h.revision = g.revision + 1
    BY <1>4, <2>2, <2>3, RedoNextKeeps DEF Dued
  <2>5. SameStep(g, h) /\ SameStep(f, g)
    BY <2>4 DEF SameStep, Dued
  <2>6. SameStep(f, h)
    BY <2>5, SameStepAgain
  <2>7. h.revision >= k + 1
    BY <2>3, <2>4
  <2>. QED  BY <2>1, <2>2, <2>4, <2>6, <2>7 DEF Dued
<1>. QED  BY <1>1, <1>2, <1>3, <1>4

(* After the redos at the start of a step all that is left is of later ones. *)
LEMMA RedoDueKeeps ==
  ASSUME NEW f, NEW clean, Replayed(f, clean), Fine(f)
  PROVE  LET g == RedoDue(f)
         IN  /\ Replayed(g, clean) /\ SameStep(f, g)
             /\ clean => \A i \in 1..Len(f.commands) :
                           i > g.revision => f.commands[i].when > f.step
<1>. DEFINE n == Len(f.commands)
            s == [i \in 1..n |-> i]
<1>1. DOMAIN s = 1..n /\ f.revision \in Nat /\ n \in Nat
  BY Commanded DEF Replayed, Placed, Folders
<1>2. PICK h : Dues!Unfolds(h, f, s, n) /\ Dues!Fold(f, s) = h[n]
  <2>. HIDE DEF s
  <2>. QED  BY <1>1, Dues!FoldUnfold
<1>. DEFINE P == {k \in Nat : k <= n => Dued(f, h[k], k, clean)}
<1>3. 0 \in P
  <2>1. h[0] = f
    BY <1>1, <1>2 DEF Dues!Unfolds
  <2>2. f.revision >= 0
    BY <1>1
  <2>. QED  BY <2>1, <2>2 DEF Dued, SameStep, SamePast, SameTest
<1>4. ASSUME NEW k \in Nat, k \in P PROVE k + 1 \in P
  <2>. SUFFICES ASSUME k + 1 <= n PROVE Dued(f, h[k + 1], k + 1, clean)
    OBVIOUS
  <2>1. Dued(f, h[k], k, clean) /\ k \in 0..n - 1 /\ k + 1 \in 1..n /\ k < n
    BY <1>1, <1>4
  <2>2. h[k + 1] = RedoIfDue(h[k], k + 1)
    BY <1>2, <2>1 DEF Dues!Unfolds
  <2>. QED  BY <2>1, <2>2, RedoIfDueKeeps
<1>5. n \in P
  <2>. HIDE DEF P
  <2>. QED  BY <1>1, <1>3, <1>4, Dues!NatInduct
<1>6. PICK g : g = RedoDue(f)
  OBVIOUS
<1>7. Dued(f, g, n, clean)
  BY <1>2, <1>5, <1>6, DuesFold DEF RedoDue
<1>8. ASSUME clean, NEW i \in 1..n, i > g.revision PROVE f.commands[i].when > f.step
  <2>1. /\ g.revision \in Nat /\ g.revision + 1 \in 1..n /\ g.revision + 1 <= i
        /\ f \in Folders /\ Sorted(f)
    BY <1>1, <1>7, <1>8 DEF Dued, Replayed, Placed, Folders, Sure
  <2>2. f.commands[g.revision + 1].when > f.step
    BY <1>1, <1>7, <1>8 DEF Dued, Replayed, Placed, Folders
  <2>3. f.commands[g.revision + 1].when <= f.commands[i].when
    BY <2>1 DEF Sorted
  <2>4. f.commands[g.revision + 1].when \in Nat /\ f.commands[i].when \in Nat /\ f.step \in Nat
    BY <2>1, Commanded DEF Folders
  <2>. QED  BY <2>2, <2>3, <2>4
<1>. QED  BY <1>6, <1>7, <1>8 DEF Dued

-----------------------------------------------------------------------------
(* One step. *)

(* What a step may do to a test; a paused player records nothing.          *)
Onward(f, g, clean) ==
  /\ Replayed(g, clean) /\ SameTest(f, g) /\ g.mode = f.mode
  /\ f.mode = "PAUSED" => SamePast(f, g)

(* No command done is of the step the player is at. *)
AllBefore(f) == \A i \in 1..f.revision : f.commands[i].when < f.step

(* Two such steps make another. *)
LEMMA OnwardAgain ==
  ASSUME NEW f, NEW g, NEW h, NEW clean, Onward(f, g, clean), Onward(g, h, clean)
  PROVE  Onward(f, h, clean)
BY DEF Onward, SamePast, SameTest

(* A snapshot of the step that the player is at. *)
LEMMA PushedKeeps ==
  ASSUME NEW f, NEW clean, Replayed(f, clean), Fine(f),
         NEW g \in Folders, SameTest(f, g), g.entropies = f.entropies,
         g.world = f.world, g.step = f.step, g.revision = f.revision, Fine(g),
         DOMAIN f.snapshots = {} => f.step = 0,
         DOMAIN g.snapshots = {f.step} \cup DOMAIN f.snapshots,
         \A s \in DOMAIN f.snapshots : s # f.step => g.snapshots[s] = f.snapshots[s],
         f.step = 0 => g.snapshots[f.step].revision = 0,
         f.step # 0 => g.snapshots[f.step] = [world |-> f.world, revision |-> f.revision]
  PROVE  Replayed(g, clean)
<1>1. f \in Folders /\ f.step \in Nat
  BY DEF Replayed, Placed, Folders
<1>2. 0 \in DOMAIN g.snapshots
  BY DEF Replayed, Placed
<1>3. \A n, r : Played(g, n, r) = Played(f, n, r)
  BY PlayedAlike
<1>4. \A r, s : DoneBy(g, r, s) = DoneBy(f, r, s)
  BY DEF DoneBy, SameTest
<1>5. ASSUME clean PROVE Sure(g) /\ DoneBy(g, g.revision, g.step) /\ Right(g)
  <2>1. Sure(f) /\ DoneBy(f, f.revision, f.step) /\ f.world = Played(f, f.step, f.revision)
    BY <1>5 DEF Replayed, Placed, Right
  <2>2. Sorted(g)
    BY <2>1 DEF Sure, Sorted, SameTest
  <2>3. ASSUME NEW s \in DOMAIN g.snapshots PROVE SnapshotIs(g, s)
    <3>1. CASE s # f.step
      <4>1. s \in DOMAIN f.snapshots /\ g.snapshots[s] = f.snapshots[s]
        BY <3>1
      <4>2. SnapshotIs(f, s)
        BY <2>1, <4>1 DEF Sure
      <4>. QED  BY <1>3, <1>4, <4>1, <4>2 DEF SnapshotIs
    <3>2. CASE s = f.step /\ s = 0
      <4>1. g.snapshots[s].revision = 0
        BY <3>2
      <4>2. DoneBy(f, 0, 0)
        BY <1>1, Commanded DEF DoneBy
      <4>. QED  BY <1>4, <3>2, <4>1, <4>2 DEF SnapshotIs
    <3>3. CASE s = f.step /\ s # 0
      <4>1. g.snapshots[s].revision = f.revision /\ g.snapshots[s].world = f.world
        BY <3>3
      <4>. QED  BY <1>3, <1>4, <2>1, <3>3, <4>1 DEF SnapshotIs
    <3>. QED  BY <3>1, <3>2, <3>3
  <2>4. Sure(g)
    BY <2>2, <2>3 DEF Sure
  <2>5. Right(g)
    BY <1>3, <2>1 DEF Right
  <2>. QED  BY <1>4, <2>1, <2>4, <2>5
<1>6. g.revision <= Len(g.commands)
  BY DEF Replayed, Placed, SameTest
<1>. QED  BY <1>2, <1>5, <1>6 DEF Replayed, Placed

(* A snapshot is pushed if it is time. *)
LEMMA PushSnapshotKeeps ==
  ASSUME NEW f, NEW clean, Replayed(f, clean), Fine(f), NEW interval \in Nat
  PROVE  LET g == PushSnapshotIfNeeded(f, interval)
         IN  Onward(f, g, clean) /\ g.step = f.step
<1>1. PICK taken : taken = IF f.step = 0 THEN [world |-> <<>>, revision |-> 0]
                           ELSE [world |-> f.world, revision |-> f.revision]
  OBVIOUS
<1>2. PICK D : D = {f.step} \cup DOMAIN f.snapshots
  OBVIOUS
<1>3. PICK snaps : snaps = [s \in D |-> IF s = f.step THEN taken ELSE f.snapshots[s]]
  OBVIOUS
<1>4. PICK g : g = PushSnapshotIfNeeded(f, interval)
  OBVIOUS
<1>5. \/ g = f \/ g = Fail(f, "no_snapshot")
      \/ /\ g = [f EXCEPT !.snapshots = snaps]
         /\ f.mode # "PAUSED" /\ (DOMAIN f.snapshots = {} => f.step = 0)
  BY <1>1, <1>2, <1>3, <1>4 DEF PushSnapshotIfNeeded
<1>6. CASE g = f
  BY <1>4, <1>6 DEF Onward, SameTest, SamePast
<1>7. CASE g = Fail(f, "no_snapshot")
  <2>1. Placed(f, clean)
    BY DEF Replayed
  <2>2. Replayed(g, clean) /\ SamePast(f, g) /\ g.step = f.step /\ g.mode = f.mode
    BY <1>7, <2>1, FailKeeps DEF Failures
  <2>. QED  BY <1>4, <2>2 DEF Onward, SamePast
<1>8. CASE /\ g = [f EXCEPT !.snapshots = snaps]
           /\ f.mode # "PAUSED" /\ (DOMAIN f.snapshots = {} => f.step = 0)
  <2>1. taken \in Taken
    <3>1. f.world \in Worlds /\ f.revision \in Nat
      BY DEF Replayed, Placed, Folders
    <3>2. <<>> \in Worlds
      BY DEF Worlds
    <3>. QED  BY <1>1, <3>1, <3>2 DEF Taken
  <2>2. f \in Folders /\ f.step \in Nat /\ f.snapshots \in Partly(Taken)
    BY DEF Replayed, Placed, Folders
  <2>3. D \in Bounded
    BY <1>2, <2>2, BoundedSingle, BoundedUnion, PartlyHas
  <2>4. \A s \in DOMAIN f.snapshots : f.snapshots[s] \in Taken
    BY <2>2, PartlyHas
  <2>5. snaps \in [D -> Taken]
    BY <1>2, <1>3, <2>1, <2>4
  <2>6. snaps \in Partly(Taken)
    BY <2>3, <2>5, PartlyIs
  <2>7. /\ g \in Folders /\ SameTest(f, g) /\ g.entropies = f.entropies /\ g.snapshots = snaps
        /\ g.failed = f.failed /\ g.world = f.world
        /\ g.step = f.step /\ g.mode = f.mode /\ g.revision = f.revision
    BY <1>8, <2>2, <2>6 DEF Folders, SameTest
  <2>8. /\ DOMAIN snaps = {f.step} \cup DOMAIN f.snapshots
        /\ \A s \in DOMAIN f.snapshots : s # f.step => snaps[s] = f.snapshots[s]
        /\ snaps[f.step] = taken
    BY <1>2, <1>3
  <2>9. /\ f.step = 0 => taken.revision = 0
        /\ f.step # 0 => taken = [world |-> f.world, revision |-> f.revision]
    BY <1>1
  <2>10. Fine(g)
    BY <2>7 DEF Fine
  <2>. HIDE <1>1, <1>2, <1>3
  <2>11. Replayed(g, clean)
    BY <1>8, <2>7, <2>8, <2>9, <2>10, PushedKeeps
  <2>. QED  BY <1>4, <1>8, <2>7, <2>11 DEF Onward
<1>. QED  BY <1>5, <1>6, <1>7, <1>8

(* What is recorded at a step, and what is dropped ahead of it.            *)
LEMMA RecordedKeeps ==
  ASSUME NEW f, NEW clean, Replayed(f, clean), Fine(f),
         NEW g \in Folders, SameTest(f, g),
         g.world = f.world, g.step = f.step, g.revision = f.revision, Fine(g),
         \A s \in Nat : s # f.step => Input(g, s) = Input(f, s),
         DOMAIN g.snapshots = {s \in DOMAIN f.snapshots : s <= f.step},
         \A s \in DOMAIN g.snapshots : g.snapshots[s] = f.snapshots[s]
  PROVE  Replayed(g, clean)
<1>1. f \in Folders /\ f.step \in Nat /\ f.revision \in Nat /\ g.before.world = f.before.world
  BY DEF Replayed, Placed, Folders, SameTest
<1>2. DOMAIN g.snapshots # {} => 0 \in DOMAIN g.snapshots
  BY <1>1 DEF Replayed, Placed
<1>3. ASSUME NEW n \in Nat, n <= f.step, NEW r \in Nat PROVE Played(g, n, r) = Played(f, n, r)
  <2>1. \A s \in 0..n - 1 : Input(g, s) = Input(f, s)
    BY <1>1, <1>3
  <2>2. \A i \in 1..r : g.commands[i] = f.commands[i]
    BY DEF SameTest
  <2>. QED  BY <1>1, <2>1, <2>2, PlayedSame
<1>4. \A r, s : DoneBy(g, r, s) = DoneBy(f, r, s)
  BY DEF DoneBy, SameTest
<1>5. ASSUME clean PROVE Sure(g) /\ DoneBy(g, g.revision, g.step) /\ Right(g)
  <2>1. Sure(f) /\ DoneBy(f, f.revision, f.step) /\ f.world = Played(f, f.step, f.revision)
    BY <1>5 DEF Replayed, Placed, Right
  <2>2. Sorted(g)
    BY <2>1 DEF Sure, Sorted, SameTest
  <2>3. ASSUME NEW s \in DOMAIN g.snapshots PROVE SnapshotIs(g, s)
    <3>1. s \in DOMAIN f.snapshots /\ s <= f.step /\ g.snapshots[s] = f.snapshots[s]
      OBVIOUS
    <3>2. f.snapshots \in Partly(Taken)
      BY <1>1 DEF Folders
    <3>3. s \in Nat /\ f.snapshots[s].revision \in Nat
      <4>1. f.snapshots[s] \in Taken /\ s \in Nat
        BY <3>1, <3>2, PartlyHas
      <4>. QED  BY <4>1 DEF Taken
    <3>4. Played(g, s, f.snapshots[s].revision) = Played(f, s, f.snapshots[s].revision)
      BY <1>3, <3>1, <3>3
    <3>5. SnapshotIs(f, s)
      BY <2>1, <3>1 DEF Sure
    <3>. QED  BY <1>4, <3>1, <3>4, <3>5 DEF SnapshotIs
  <2>4. Sure(g)
    BY <2>2, <2>3 DEF Sure
  <2>5. Right(g)
    BY <1>1, <1>3, <2>1 DEF Right
  <2>. QED  BY <1>4, <2>1, <2>4, <2>5
<1>6. g.revision <= Len(g.commands)
  BY DEF Replayed, Placed, SameTest
<1>. QED  BY <1>2, <1>5, <1>6 DEF Replayed, Placed

(* The input of this step is recorded. *)
LEMMA RecordKeeps ==
  ASSUME NEW f, NEW clean, Replayed(f, clean), Fine(f), NEW input \in Things,
         NEW overwrite \in BOOLEAN
  PROVE  LET g == Record(f, input, overwrite)
         IN  /\ Replayed(g, clean) /\ SameTest(f, g) /\ Fine(g)
             /\ g.step = f.step /\ g.mode = f.mode
<1>1. /\ f \in Folders /\ f.step \in Nat /\ f.snapshots \in Partly(Taken)
      /\ f.entropies \in Partly(Things)
  BY DEF Replayed, Placed, Folders
<1>2. PICK entry : entry = IF overwrite THEN input ELSE Input(f, f.step)
  OBVIOUS
<1>3. PICK D : D = (DOMAIN f.entropies \ {f.step}) \cup IF entry = NoInput THEN {} ELSE {f.step}
  OBVIOUS
<1>4. PICK inputs : inputs = [s \in D |-> IF s = f.step THEN entry ELSE f.entropies[s]]
  OBVIOUS
<1>5. PICK E : E = {t \in DOMAIN f.snapshots : t <= f.step}
  OBVIOUS
<1>6. PICK snaps : snaps = [s \in E |-> f.snapshots[s]]
  OBVIOUS
<1>7. PICK g : g = [[f EXCEPT !.entropies = inputs] EXCEPT !.snapshots = snaps]
  OBVIOUS
<1>8. g = Record(f, input, overwrite)
  <2>1. PICK h : h = [f EXCEPT !.entropies = inputs]
    OBVIOUS
  <2>2. h = RecordEntry(f, input, overwrite)
    BY <1>2, <1>3, <1>4, <2>1 DEF RecordEntry
  <2>3. h.snapshots = f.snapshots
    BY <1>1, <2>1 DEF Folders
  <2>4. g = [h EXCEPT !.snapshots = snaps]
    BY <1>7, <2>1
  <2>5. snaps = [s \in {t \in DOMAIN h.snapshots : t <= f.step} |-> h.snapshots[s]]
    BY <1>5, <1>6, <2>3
  <2>. QED  BY <2>2, <2>4, <2>5 DEF Record
<1>9. inputs \in Partly(Things)
  <2>1. entry \in Things
    <3>1. Input(f, f.step) \in Things
      BY <1>1, InputType
    <3>. QED  BY <1>2, <3>1
  <2>2. DOMAIN f.entropies \in Bounded /\ \A s \in DOMAIN f.entropies : f.entropies[s] \in Things
    BY <1>1, PartlyHas
  <2>3. DOMAIN f.entropies \ {f.step} \in Bounded
    BY <2>2, BoundedSubset
  <2>4. {f.step} \in Bounded /\ {} \in Bounded
    BY <1>1, BoundedSingle, BoundedSubset
  <2>5. D \in Bounded
    <3>1. CASE entry = NoInput
      BY <1>3, <2>3, <3>1
    <3>2. CASE entry # NoInput
      BY <1>3, <2>3, <2>4, <3>2, BoundedUnion
    <3>. QED  BY <3>1, <3>2
  <2>6. \A s \in D : s # f.step => s \in DOMAIN f.entropies
    BY <1>3
  <2>7. inputs \in [D -> Things]
    BY <1>4, <2>1, <2>2, <2>6
  <2>. QED  BY <2>5, <2>7, PartlyIs
<1>10. snaps \in Partly(Taken)
  <2>1. DOMAIN f.snapshots \in Bounded /\ \A s \in DOMAIN f.snapshots : f.snapshots[s] \in Taken
    BY <1>1, PartlyHas
  <2>2. E \in SUBSET DOMAIN f.snapshots
    BY <1>5
  <2>3. E \in Bounded
    BY <2>1, <2>2, BoundedSubset
  <2>4. snaps \in [E -> Taken]
    BY <1>6, <2>1, <2>2
  <2>. QED  BY <2>3, <2>4, PartlyIs
<1>11. /\ g \in Folders /\ SameTest(f, g) /\ g.entropies = inputs /\ g.snapshots = snaps
       /\ g.failed = f.failed /\ g.world = f.world
       /\ g.step = f.step /\ g.mode = f.mode /\ g.revision = f.revision
  BY <1>1, <1>7, <1>9, <1>10 DEF Folders, SameTest
<1>12. ASSUME NEW s \in Nat, s # f.step PROVE Input(g, s) = Input(f, s)
  <2>1. DOMAIN inputs = D /\ (s \in D <=> s \in DOMAIN f.entropies)
    BY <1>3, <1>4, <1>12
  <2>2. s \in D => inputs[s] = f.entropies[s]
    BY <1>4, <1>12
  <2>. QED  BY <1>11, <2>1, <2>2 DEF Input
<1>13. DOMAIN snaps = E /\ \A s \in E : snaps[s] = f.snapshots[s]
  BY <1>6
<1>14. Fine(g)
  BY <1>11 DEF Fine
<1>15. Replayed(g, clean)
  <2>. HIDE <1>2, <1>3, <1>4, <1>6, <1>7
  <2>. QED  BY <1>5, <1>11, <1>12, <1>13, <1>14, RecordedKeeps
<1>. QED  BY <1>8, <1>11, <1>14, <1>15

(* What comes before the world moves on leaves later commands for later.   *)
LEMMA PrepareKeeps ==
  ASSUME NEW f, NEW clean, Replayed(f, clean), Fine(f), NEW input \in Things,
         NEW overwrite \in BOOLEAN, NEW interval \in Nat
  PROVE  LET g == PrepareStep(f, input, overwrite, interval)
         IN  /\ Onward(f, g, clean) /\ g.step = f.step
             /\ clean /\ Fine(g) => \A i \in 1..Len(f.commands) :
                                      i > g.revision => f.commands[i].when > f.step
<1>1. PICK a : a = PushSnapshotIfNeeded(f, interval)
  OBVIOUS
<1>2. Onward(f, a, clean) /\ a.step = f.step
  BY <1>1, PushSnapshotKeeps
<1>3. CASE ~Fine(a)
  BY <1>1, <1>2, <1>3 DEF PrepareStep
<1>4. CASE Fine(a)
  <2>1. PICK b : b = IF f.mode = "RECORDING" THEN Record(a, input, overwrite) ELSE a
    OBVIOUS
  <2>2. Onward(a, b, clean) /\ b.step = f.step /\ Fine(b)
    <3>1. CASE f.mode # "RECORDING"
      BY <1>2, <1>4, <2>1, <3>1 DEF Onward, SameTest, SamePast
    <3>2. CASE f.mode = "RECORDING"
      <4>1. Replayed(b, clean) /\ SameTest(a, b) /\ Fine(b) /\ b.step = a.step /\ b.mode = a.mode
        BY <1>2, <1>4, <2>1, <3>2, RecordKeeps DEF Onward
      <4>2. a.mode # "PAUSED"
        BY <1>2, <3>2 DEF Onward
      <4>. QED  BY <1>2, <4>1, <4>2 DEF Onward
    <3>. QED  BY <3>1, <3>2
  <2>3. PICK g : g = RedoDue(b)
    OBVIOUS
  <2>4. /\ Replayed(g, clean) /\ SameStep(b, g)
        /\ clean => \A i \in 1..Len(b.commands) : i > g.revision => b.commands[i].when > b.step
    BY <2>2, <2>3, RedoDueKeeps DEF Onward
  <2>5. Onward(b, g, clean) /\ g.step = f.step
    BY <2>2, <2>4 DEF Onward, SameStep, SamePast, SameTest
  <2>6. Onward(f, g, clean)
    BY <1>2, <2>2, <2>5, OnwardAgain
  <2>7. b.commands = f.commands
    BY <1>2, <2>2 DEF Onward, SameTest
  <2>8. g = PrepareStep(f, input, overwrite, interval)
    BY <1>1, <1>4, <2>1, <2>3 DEF PrepareStep
  <2>. QED  BY <2>2, <2>4, <2>5, <2>6, <2>7, <2>8
<1>. QED  BY <1>3, <1>4

(* A step solved. *)
LEMMA AdvanceKeeps ==
  ASSUME NEW f, NEW clean, Replayed(f, clean), Fine(f), NEW input \in Things,
         NEW overwrite \in BOOLEAN, NEW interval \in Nat
  PROVE  LET g == AdvanceSingleStep(f, input, overwrite, interval)
         IN  /\ Onward(f, g, clean)
             /\ Fine(g) => g.step = f.step + 1 /\ (clean => AllBefore(g))
<1>1. PICK a : a = PrepareStep(f, input, overwrite, interval)
  OBVIOUS
<1>2. /\ Onward(f, a, clean) /\ a.step = f.step
      /\ clean /\ Fine(a) => \A i \in 1..Len(f.commands) :
                               i > a.revision => f.commands[i].when > f.step
  BY <1>1, PrepareKeeps
<1>3. CASE ~Fine(a)
  BY <1>1, <1>2, <1>3 DEF AdvanceSingleStep
<1>4. CASE Fine(a)
  <2>1. /\ a \in Folders /\ a.step \in Nat /\ a.step + 1 \in Nat /\ a.revision \in Nat
        /\ Len(a.commands) \in Nat /\ a.revision \in 0..Len(a.commands) /\ a.world \in Seq(Things)
    BY <1>2, <1>4, Commanded DEF Onward, Replayed, Placed, Folders, Worlds
  <2>2. PICK n \in Nat : n = a.step + 1
    BY <2>1
  <2>3. PICK w \in Worlds : w = Append(a.world, Input(a, a.step))
    BY <2>1, InputType, AppendProperties DEF Worlds
  <2>4. PICK g : g = [a EXCEPT !.world = w, !.step = n]
    OBVIOUS
  <2>5. g = AdvanceSingleStep(f, input, overwrite, interval)
    BY <1>1, <1>4, <2>2, <2>3, <2>4 DEF AdvanceSingleStep
  <2>6. /\ g \in Folders /\ SamePast(a, g) /\ g.failed = a.failed /\ g.mode = a.mode
        /\ g.step = n /\ g.revision = a.revision /\ g.world = w
    BY <2>1, <2>4 DEF Folders, SamePast, SameTest
  <2>7. Fine(g)
    BY <1>4, <2>6 DEF Fine
  <2>8. a.commands = f.commands
    BY <1>2 DEF Onward, SameTest
  <2>9. ASSUME clean PROVE Sure(g) /\ DoneBy(g, g.revision, g.step) /\ Right(g) /\ AllBefore(g)
    <3>1. Sure(g)
      BY <1>2, <2>6, <2>9, SureAlike DEF Onward, Replayed, Placed
    <3>2. \A i \in 1..Len(a.commands) : a.commands[i].when \in Nat
      BY <2>1, Commanded
    <3>3. \A i \in 1..a.revision : a.commands[i].when <= a.step
      BY <1>2, <2>1, <2>9 DEF Onward, Replayed, Placed, DoneBy
    <3>4. \A i \in 1..Len(a.commands) : i > a.revision => a.commands[i].when > a.step
      BY <1>2, <1>4, <2>8, <2>9
    <3>5. DoneBy(a, a.revision, n)
      BY <2>1, <2>2, <3>2, <3>3, <3>4 DEF DoneBy
    <3>6. DoneBy(g, g.revision, g.step)
      BY <2>6, <3>5 DEF DoneBy, SamePast, SameTest
    <3>7. AllBefore(g)
      BY <2>1, <2>2, <2>6, <3>2, <3>3 DEF AllBefore, SamePast, SameTest
    <3>8. Played(a, n, a.revision) = Append(Played(a, a.step, a.revision), Input(a, a.step))
      BY <2>1, <2>2, <3>3, PlayedNext
    <3>9. a.world = Played(a, a.step, a.revision)
      BY <1>2, <1>4, <2>9 DEF Onward, Replayed, Right
    <3>10. Played(g, n, a.revision) = Played(a, n, a.revision)
      <4>1. SameTest(a, g) /\ g.entropies = a.entropies
        BY <2>6 DEF SamePast
      <4>. QED  BY <4>1, PlayedAlike
    <3>. QED  BY <2>3, <2>6, <3>1, <3>6, <3>7, <3>8, <3>9, <3>10 DEF Right
  <2>10. /\ DOMAIN g.snapshots # {} => 0 \in DOMAIN g.snapshots
         /\ g.revision <= Len(g.commands)
    BY <1>2, <1>4, <2>6 DEF Onward, Replayed, Placed, SamePast, SameTest
  <2>11. Replayed(g, clean)
    BY <2>6, <2>9, <2>10 DEF Replayed, Placed
  <2>12. Onward(a, g, clean)
    BY <2>6, <2>11 DEF Onward, SamePast
  <2>13. Onward(f, g, clean)
    BY <1>2, <2>12, OnwardAgain
  <2>. QED  BY <1>2, <2>2, <2>5, <2>6, <2>9, <2>13
<1>. QED  BY <1>3, <1>4

-----------------------------------------------------------------------------
(* Seeking. *)

(* A snapshot loaded, into whatever world. *)
LEMMA LoadKeeps ==
  ASSUME NEW f, NEW clean, Placed(f, clean), NEW s \in DOMAIN f.snapshots
  PROVE  LET g == LoadSnapshot(f, s)
         IN  /\ Replayed(g, clean) /\ SamePast(f, g) /\ g.mode = f.mode
             /\ g.step = s /\ g.revision = f.snapshots[s].revision
<1>1. /\ f \in Folders /\ f.snapshots \in Partly(Taken) /\ Len(f.commands) \in Nat
  BY Commanded DEF Placed, Folders
<1>2. s \in Nat /\ f.snapshots[s] \in Taken
  BY <1>1, PartlyHas
<1>3. PICK w \in Worlds : w = IF s = 0 THEN Append(f.before.world, Bots) ELSE f.snapshots[s].world
  <2>1. f.snapshots[s].world \in Worlds
    BY <1>2 DEF Taken
  <2>. QED  BY <1>1, <2>1, StartType
<1>4. PICK r \in Nat : r = f.snapshots[s].revision
  BY <1>2 DEF Taken
<1>5. PICK h : h = [f EXCEPT !.world = w, !.revision = r, !.step = s]
  OBVIOUS
<1>6. /\ h \in Folders /\ SamePast(f, h) /\ h.failed = f.failed /\ h.mode = f.mode
      /\ h.step = s /\ h.revision = r /\ h.world = w
  BY <1>1, <1>2, <1>3, <1>4, <1>5 DEF Folders, SamePast, SameTest
<1>7. PICK g : g = LoadSnapshot(f, s)
  OBVIOUS
<1>8. /\ r > Len(f.commands) => g = Fail(h, "revision_does_not_exist")
      /\ ~(r > Len(f.commands)) => g = h
  BY <1>3, <1>4, <1>5, <1>6, <1>7 DEF LoadSnapshot
<1>9. CASE r > Len(f.commands)
  <2>1. ~clean
    BY <1>1, <1>4, <1>9 DEF Placed, Sure, SnapshotIs, DoneBy
  <2>2. /\ g \in Folders /\ SamePast(f, g) /\ ~Fine(g) /\ g.mode = f.mode
        /\ g.step = s /\ g.revision = r
    BY <1>6, <1>8, <1>9 DEF Fail, Folders, SamePast, SameTest, Fine, Failures
  <2>3. DOMAIN g.snapshots # {} => 0 \in DOMAIN g.snapshots
    BY <2>2 DEF Placed, SamePast
  <2>. QED  BY <1>4, <1>7, <2>1, <2>2, <2>3 DEF Replayed, Placed
<1>10. CASE ~(r > Len(f.commands))
  <2>1. g = h /\ r <= Len(f.commands)
    BY <1>1, <1>8, <1>10
  <2>2. ASSUME clean PROVE Sure(h) /\ DoneBy(h, h.revision, h.step) /\ Right(h)
    <3>1. Sure(h)
      BY <1>6, <2>2, SureAlike DEF Placed
    <3>2. SnapshotIs(f, s)
      BY <2>2 DEF Placed, Sure
    <3>3. DoneBy(h, h.revision, h.step)
      BY <1>4, <1>6, <3>2 DEF DoneBy, SnapshotIs, SamePast, SameTest
    <3>4. w = Played(f, s, r)
      <4>1. CASE s = 0
        <5>1. r = 0
          BY <1>4, <3>2, <4>1 DEF SnapshotIs
        <5>. QED  BY <1>1, <1>3, <4>1, <5>1, PlayedNothing
      <4>2. CASE s # 0
        BY <1>3, <1>4, <3>2, <4>2 DEF SnapshotIs
      <4>. QED  BY <4>1, <4>2
    <3>5. SameTest(f, h) /\ h.entropies = f.entropies
      BY <1>6 DEF SamePast
    <3>6. Played(h, s, r) = Played(f, s, r)
      BY <3>5, PlayedAlike
    <3>. QED  BY <1>6, <3>1, <3>3, <3>4, <3>6 DEF Right
  <2>3. /\ DOMAIN h.snapshots # {} => 0 \in DOMAIN h.snapshots
        /\ h.revision <= Len(h.commands)
    BY <1>6, <2>1 DEF Placed, SamePast, SameTest
  <2>4. Replayed(h, clean)
    BY <1>6, <2>2, <2>3 DEF Replayed, Placed
  <2>. QED  BY <1>4, <1>6, <1>7, <2>1, <2>4
<1>. QED  BY <1>9, <1>10

(* The snapshot that a seek starts at. *)
LEMMA LastSnapshotIs ==
  ASSUME NEW f, NEW clean, Placed(f, clean), DOMAIN f.snapshots # {}, NEW step \in Nat
  PROVE  /\ LastSnapshot(f, step) \in DOMAIN f.snapshots
         /\ LastSnapshot(f, step) \in Nat
         /\ LastSnapshot(f, step) <= step
<1>1. PICK S : S = {s \in DOMAIN f.snapshots : s <= step}
  OBVIOUS
<1>2. f.snapshots \in Partly(Taken) /\ 0 \in DOMAIN f.snapshots
  BY DEF Placed, Folders
<1>3. DOMAIN f.snapshots \in Bounded /\ DOMAIN f.snapshots \subseteq Nat
  BY <1>2, PartlyHas
<1>4. S \in Bounded /\ S # {}
  BY <1>1, <1>2, <1>3, BoundedSubset
<1>5. Max(S) \in S
  BY <1>4, Greatest
<1>. QED  BY <1>1, <1>3, <1>5 DEF LastSnapshot

(* The steps of a seek are a fold that the lemmas are about. *)
LEMMA WaysFold ==
  ASSUME NEW base, NEW seq
  PROVE  FoldLeft(StepOn, base, seq) = Ways!Fold(base, seq)
BY DEF Ways!Fold, Ways!FoldLeft, Ways!MapThenFoldSet, Ways!Max, FoldLeft,
       MapThenFoldSet, Max

(* The steps on the way. *)
LEMMA StepsOnKeep ==
  ASSUME NEW f, NEW clean, Replayed(f, clean), NEW n \in Nat,
         NEW overwrite \in BOOLEAN, NEW interval \in Nat,
         NEW s, DOMAIN s = 1..n, \A k \in 1..n : s[k] = <<overwrite, interval>>
  PROVE  LET g == FoldLeft(StepOn, f, s)
         IN  /\ Onward(f, g, clean)
             /\ Fine(g) => g.step = f.step + n
             /\ n = 0 => g = f
             /\ n > 0 /\ clean /\ Fine(g) => AllBefore(g)
<1>1. f.step \in Nat
  BY DEF Replayed, Placed, Folders
<1>2. PICK h : Ways!Unfolds(h, f, s, n) /\ Ways!Fold(f, s) = h[n]
  BY Ways!FoldUnfold
<1>. DEFINE On(k) == /\ Onward(f, h[k], clean)
                     /\ Fine(h[k]) => h[k].step = f.step + k
                     /\ k > 0 /\ clean /\ Fine(h[k]) => AllBefore(h[k])
            P == {k \in Nat : k <= n => On(k)}
<1>4. h[0] = f
  BY <1>2 DEF Ways!Unfolds
<1>5. 0 \in P
  BY <1>1, <1>4 DEF Onward, SamePast, SameTest
<1>6. ASSUME NEW k \in Nat, k \in P PROVE k + 1 \in P
  <2>. SUFFICES ASSUME k + 1 <= n PROVE On(k + 1)
    OBVIOUS
  <2>1. On(k) /\ k \in 0..n - 1 /\ k + 1 \in 1..n
    BY <1>6
  <2>2. h[k + 1] = StepOn(h[k], <<overwrite, interval>>)
    BY <1>2, <2>1 DEF Ways!Unfolds
  <2>3. CASE ~Fine(h[k])
    BY <2>1, <2>2, <2>3 DEF StepOn
  <2>4. CASE Fine(h[k])
    <3>1. h[k + 1] = AdvanceSingleStep(h[k], NoInput, overwrite, interval)
      BY <2>2, <2>4 DEF StepOn
    <3>2. NoInput \in Things /\ Replayed(h[k], clean)
      BY <2>1 DEF Things, Onward
    <3>3. /\ Onward(h[k], h[k + 1], clean)
          /\ Fine(h[k + 1]) => h[k + 1].step = h[k].step + 1 /\ (clean => AllBefore(h[k + 1]))
      BY <2>4, <3>1, <3>2, AdvanceKeeps
    <3>4. Onward(f, h[k + 1], clean)
      BY <2>1, <3>3, OnwardAgain
    <3>5. Fine(h[k + 1]) => h[k + 1].step = f.step + (k + 1)
      BY <1>1, <2>1, <2>4, <3>3
    <3>. QED  BY <3>3, <3>4, <3>5
  <2>. QED  BY <2>3, <2>4
<1>7. n \in P
  <2>. HIDE DEF P
  <2>. QED  BY <1>5, <1>6, Ways!NatInduct
<1>8. On(n) /\ (n = 0 => h[n] = f)
  BY <1>4, <1>7
<1>. QED  BY <1>2, <1>8, WaysFold

(* What a seek gives: the step, and no command of the step but those that  *)
(* a snapshot of the very step holds.                                      *)
Sought(f, g, target, clean) ==
  /\ Onward(f, g, clean)
  /\ Fine(g) => g.step = target
  /\ Fine(g) /\ clean => \/ g = f /\ target = f.step
                         \/ /\ target \in DOMAIN f.snapshots
                            /\ g.revision = f.snapshots[target].revision
                         \/ AllBefore(g)

(* A world that is not right will do to go back.                           *)
LEMMA SeekReaches ==
  ASSUME NEW f, NEW clean, Placed(f, clean), NEW target \in Nat,
         target < f.step \/ Replayed(f, clean),
         NEW overwrite \in BOOLEAN, NEW interval \in Nat
  PROVE  Sought(f, Seek(f, target, overwrite, interval), target, clean)
<1>1. f.step \in Nat
  BY DEF Placed, Folders
<1>2. CASE target = f.step
  BY <1>1, <1>2 DEF Seek, Sought, Onward, SameTest, SamePast
<1>3. CASE target # f.step /\ DOMAIN f.snapshots = {}
  <2>1. Seek(f, target, overwrite, interval) = Fail(f, "no_snapshot")
    BY <1>3 DEF Seek
  <2>2. PICK g : g = Fail(f, "no_snapshot")
    OBVIOUS
  <2>3. Replayed(g, clean) /\ SamePast(f, g) /\ ~Fine(g) /\ g.mode = f.mode
    BY <2>2, FailKeeps DEF Failures
  <2>. QED  BY <2>1, <2>2, <2>3 DEF Sought, Onward, SamePast
<1>4. CASE target # f.step /\ DOMAIN f.snapshots # {}
  <2>1. PICK a : a = LastSnapshot(f, target)
    OBVIOUS
  <2>2. a \in DOMAIN f.snapshots /\ a \in Nat /\ a <= target
    BY <1>4, <2>1, LastSnapshotIs
  <2>3. PICK from : from = IF target < f.step \/ target - a < target - f.step
                           THEN LoadSnapshot(f, a) ELSE f
    OBVIOUS
  <2>4. PICK n : n = target - from.step
    OBVIOUS
  <2>5. /\ Onward(f, from, clean) /\ n \in Nat /\ from.step + n = target
        /\ \/ from = f /\ n # 0
           \/ from.step = a /\ from.revision = f.snapshots[a].revision
    <3>1. CASE target < f.step \/ target - a < target - f.step
      <4>1. /\ Replayed(from, clean) /\ SamePast(f, from) /\ from.mode = f.mode
            /\ from.step = a /\ from.revision = f.snapshots[a].revision
        BY <2>2, <2>3, <3>1, LoadKeeps
      <4>. QED  BY <2>2, <2>4, <4>1 DEF Onward, SamePast
    <3>2. CASE ~(target < f.step \/ target - a < target - f.step)
      <4>1. from = f /\ ~(target < f.step)
        BY <2>3, <3>2
      <4>. QED  BY <1>1, <1>4, <2>4, <4>1 DEF Onward, SamePast, SameTest
    <3>. QED  BY <3>1, <3>2
  <2>6. PICK s : s = [i \in 1..n |-> <<overwrite, interval>>]
    OBVIOUS
  <2>7. PICK g : g = FoldLeft(StepOn, from, s)
    OBVIOUS
  <2>8. g = Seek(f, target, overwrite, interval)
    <3>1. [i \in 1..target - from.step |-> <<overwrite, interval>>] = s
      BY <2>4, <2>6
    <3>2. Seek(f, target, overwrite, interval)
            = FoldLeft(StepOn, from, [i \in 1..target - from.step |-> <<overwrite, interval>>])
      BY <1>4, <2>1, <2>3, Zenon DEF Seek
    <3>. QED  BY <2>7, <3>1, <3>2
  <2>9. /\ Onward(from, g, clean)
        /\ Fine(g) => g.step = from.step + n
        /\ n = 0 => g = from
        /\ n > 0 /\ clean /\ Fine(g) => AllBefore(g)
    <3>1. Replayed(from, clean) /\ n \in Nat
      BY <2>5 DEF Onward
    <3>2. DOMAIN s = 1..n /\ \A k \in 1..n : s[k] = <<overwrite, interval>>
      BY <2>6
    <3>. QED  BY <2>7, <3>1, <3>2, StepsOnKeep
  <2>10. Onward(f, g, clean)
    BY <2>5, <2>9, OnwardAgain
  <2>11. Fine(g) /\ clean => \/ /\ target \in DOMAIN f.snapshots
                                /\ g.revision = f.snapshots[target].revision
                             \/ AllBefore(g)
    <3>1. CASE n > 0
      BY <2>9, <3>1
    <3>2. CASE n = 0
      <4>1. from.step = a /\ from.revision = f.snapshots[a].revision /\ g = from /\ a = target
        BY <2>2, <2>5, <2>9, <3>2
      <4>. QED  BY <2>2, <4>1
    <3>. QED  BY <2>5, <3>1, <3>2
  <2>. QED  BY <2>5, <2>8, <2>9, <2>10, <2>11 DEF Sought
<1>. QED  BY <1>2, <1>3, <1>4

(* The end of the test is not before the last command. *)
LEMMA TotalIs ==
  ASSUME NEW f \in Folders
  PROVE  /\ Total(f) \in Nat
         /\ f.commands # <<>> => f.commands[Len(f.commands)].when <= Total(f)
<1>1. PICK S : S = DOMAIN f.entropies \cup {0} \cup IF f.mode = "RECORDING" THEN {f.step} ELSE {}
  OBVIOUS
<1>2. PICK last : last = IF f.commands = <<>> THEN 0 ELSE Last(f.commands).when
  OBVIOUS
<1>3. last \in Nat
  <2>1. CASE f.commands = <<>>
    BY <1>2, <2>1
  <2>2. CASE f.commands # <<>>
    <3>1. Len(f.commands) \in 1..Len(f.commands)
      BY <2>2, Commanded, EmptySeq
    <3>. QED  BY <1>2, <2>2, <3>1, Commanded DEF Last
  <2>. QED  BY <2>1, <2>2
<1>4. S \in Bounded
  <2>1. DOMAIN f.entropies \in Bounded /\ f.step \in Nat
    <3>1. f.entropies \in Partly(Things) /\ f.step \in Nat
      BY DEF Folders
    <3>. QED  BY <3>1, PartlyHas
  <2>2. {0} \in Bounded /\ {f.step} \in Bounded /\ {} \in Bounded
    BY <2>1, BoundedSingle, BoundedSubset
  <2>3. DOMAIN f.entropies \cup {0} \in Bounded
    BY <2>1, <2>2, BoundedUnion
  <2>4. (IF f.mode = "RECORDING" THEN {f.step} ELSE {}) \in Bounded
    BY <2>2
  <2>. QED  BY <1>1, <2>3, <2>4, BoundedUnion
<1>5. S \cup {last} \in Bounded
  BY <1>3, <1>4, BoundedSingle, BoundedUnion
<1>6. PICK m : m = Max(S \cup {last})
  OBVIOUS
<1>7. m \in S \cup {last} /\ last <= m
  BY <1>5, <1>6, Greatest
<1>8. Total(f) = m
  BY <1>1, <1>2, <1>6 DEF Total
<1>9. m \in Nat
  BY <1>5, <1>7 DEF Bounded
<1>. QED  BY <1>2, <1>7, <1>8, <1>9 DEF Last

(* The lesser of two numbers. *)
LEMMA Least ==
  ASSUME NEW a \in Nat, NEW b \in Nat
  PROVE  Min({a, b}) \in Nat /\ (a <= b => Min({a, b}) = a)
<1>1. PICK m \in {a, b} : \A y \in {a, b} : m <= y
  OBVIOUS
<1>2. \A x \in {a, b} : (\A y \in {a, b} : x <= y) => x = m
  BY <1>1
<1>3. Min({a, b}) = m
  BY <1>1, <1>2 DEF Min
<1>. QED  BY <1>1, <1>3

(* A seek trimmed to the length of the test. *)
LEMMA SeekTrimmedKeeps ==
  ASSUME NEW f, NEW clean, Replayed(f, clean), NEW target \in Nat
  PROVE  /\ Onward(f, SeekTrimmed(f, target, TRUE), clean)
         /\ target <= Total(f) => Sought(f, SeekTrimmed(f, target, TRUE), target, clean)
<1>1. f \in Folders /\ Placed(f, clean)
  BY DEF Replayed, Placed
<1>2. Total(f) \in Nat
  BY <1>1, TotalIs
<1>3. PICK m \in Nat : m = Min({target, Total(f)}) /\ (target <= Total(f) => m = target)
  BY <1>2, Least
<1>4. Interval \in Nat /\ TRUE \in BOOLEAN
  BY PlaytestAssumption
<1>5. Sought(f, Seek(f, m, TRUE, Interval), m, clean)
  BY <1>1, <1>3, <1>4, SeekReaches
<1>6. SeekTrimmed(f, target, TRUE) = Seek(f, m, TRUE, Interval)
  BY <1>3 DEF SeekTrimmed
<1>. QED  BY <1>3, <1>5, <1>6 DEF Sought

(* The mode says nothing of the past. *)
LEMMA ModeKeeps ==
  ASSUME NEW f, NEW clean, NEW mode \in {"PAUSED", "RECORDING", "REPLAYING"}, Placed(f, clean)
  PROVE  LET g == [f EXCEPT !.mode = mode]
         IN  /\ Placed(g, clean) /\ SamePast(f, g) /\ g.mode = mode /\ g.failed = f.failed
             /\ g.step = f.step /\ g.revision = f.revision /\ g.world = f.world
             /\ Replayed(f, clean) => Replayed(g, clean)
<1>1. f \in Folders
  BY DEF Placed
<1>2. PICK g : g = [f EXCEPT !.mode = mode]
  OBVIOUS
<1>3. /\ g \in Folders /\ SamePast(f, g) /\ g.mode = mode /\ g.failed = f.failed
      /\ g.step = f.step /\ g.revision = f.revision /\ g.world = f.world
  BY <1>1, <1>2 DEF Folders, SamePast, SameTest
<1>4. Fine(g) = Fine(f)
  BY <1>3 DEF Fine
<1>5. clean => Sure(g) /\ DoneBy(g, g.revision, g.step)
  <2>1. clean => Sure(g)
    BY <1>3, SureAlike DEF Placed
  <2>. QED  BY <1>3, <2>1 DEF Placed, DoneBy, SamePast, SameTest
<1>6. Placed(g, clean)
  BY <1>3, <1>4, <1>5 DEF Placed, SamePast, SameTest
<1>7. Played(g, g.step, g.revision) = Played(f, f.step, f.revision)
  <2>1. SameTest(f, g) /\ g.entropies = f.entropies
    BY <1>3 DEF SamePast
  <2>. QED  BY <1>3, <2>1, PlayedAlike
<1>8. Replayed(f, clean) => Replayed(g, clean)
  BY <1>3, <1>4, <1>6, <1>7 DEF Replayed, Right
<1>. QED  BY <1>2, <1>3, <1>6, <1>8

(* Redoing up to a revision, all of it of this step. *)
LEMMA RedoUntilKeeps ==
  ASSUME NEW f, NEW clean, Replayed(f, clean), NEW target \in 0..Len(f.commands),
         clean /\ Fine(f) => \A i \in 1..target : i > f.revision => f.commands[i].when = f.step
  PROVE  LET g == RedoUntil(f, target)
         IN  /\ Replayed(g, clean) /\ SameTest(f, g)
             /\ Fine(g) => Fine(f) /\ g.revision = target /\ g.step = f.step
<1>1. f.revision \in Nat /\ Len(f.commands) \in Nat /\ Placed(f, clean)
  BY Commanded DEF Replayed, Placed, Folders
<1>2. CASE ~Fine(f)
  BY <1>2 DEF RedoUntil, SameTest
<1>3. CASE Fine(f) /\ f.revision > target
  <2>1. PICK g : g = Fail(f, "beyond_the_target_revision")
    OBVIOUS
  <2>2. Replayed(g, clean) /\ SamePast(f, g) /\ ~Fine(g)
    BY <1>1, <2>1, FailKeeps DEF Failures
  <2>. QED  BY <1>3, <2>1, <2>2 DEF RedoUntil, SamePast
<1>4. CASE Fine(f) /\ ~(f.revision > target)
  <2>1. PICK n \in Nat : n = target - f.revision
    BY <1>1, <1>4
  <2>2. PICK s : s = [i \in 1..n |-> i]
    OBVIOUS
  <2>3. PICK g : g = FoldLeft(RedoTurn, f, s)
    OBVIOUS
  <2>4. [i \in 1..target - f.revision |-> i] = s
    BY <2>1, <2>2
  <2>5. g = RedoUntil(f, target)
    BY <1>4, <2>3, <2>4 DEF RedoUntil
  <2>6. f.revision + n = target /\ target <= Len(f.commands)
    BY <1>1, <2>1
  <2>7. clean => \A i \in 1..n : f.commands[f.revision + i].when = f.step
    <3>1. \A i \in 1..n : f.revision + i \in 1..target /\ f.revision + i > f.revision
      BY <1>1, <2>6
    <3>. QED  BY <1>4, <3>1
  <2>8. DOMAIN s = 1..n
    BY <2>2
  <2>9. Replayed(g, clean) /\ SameStep(f, g) /\ Fine(g) /\ g.revision = f.revision + n
    BY <1>4, <2>3, <2>6, <2>7, <2>8, RedosKeep
  <2>. QED  BY <1>4, <2>5, <2>6, <2>9 DEF SameStep, SamePast
<1>. QED  BY <1>2, <1>3, <1>4

(* Undoing down to a revision, all of it of this step. *)
LEMMA UndoUntilKeeps ==
  ASSUME NEW f, NEW clean, Replayed(f, clean), Fine(f), NEW target \in Nat, target <= f.revision,
         clean => \A i \in 1..f.revision : i > target => f.commands[i].when = f.step
  PROVE  LET g == UndoUntil(f, target)
         IN  /\ Replayed(g, clean) /\ SameTest(f, g)
             /\ g.revision = target /\ g.step = f.step
<1>1. f.revision \in Nat
  BY DEF Replayed, Placed, Folders
<1>2. PICK n \in Nat : n = f.revision - target
  BY <1>1
<1>3. PICK s : s = [i \in 1..n |-> i]
  OBVIOUS
<1>4. PICK g : g = FoldLeft(UndoTurn, f, s)
  OBVIOUS
<1>5. [i \in 1..f.revision - target |-> i] = s
  BY <1>2, <1>3
<1>6. g = UndoUntil(f, target)
  BY <1>4, <1>5 DEF UndoUntil
<1>7. f.revision - n = target /\ n <= f.revision
  BY <1>1, <1>2
<1>8. clean => \A i \in 1..n : f.commands[f.revision + 1 - i].when = f.step
  <2>1. \A i \in 1..n : f.revision + 1 - i \in 1..f.revision /\ f.revision + 1 - i > target
    BY <1>1, <1>7
  <2>. QED  BY <2>1
<1>9. DOMAIN s = 1..n
  BY <1>3
<1>10. Replayed(g, clean) /\ SameStep(f, g) /\ g.revision = f.revision - n
  BY <1>4, <1>7, <1>8, <1>9, UndosKeep
<1>. QED  BY <1>6, <1>7, <1>10 DEF SameStep, SamePast

(* A revision of a sorted history happened before the end of the test.     *)
LEMMA WhenIs ==
  ASSUME NEW f \in Folders, NEW target \in 0..Len(f.commands)
  PROVE  /\ WhenHappened(f, target) \in Nat
         /\ Sorted(f) => WhenHappened(f, target) <= Total(f)
<1>1. /\ Len(f.commands) \in Nat /\ Total(f) \in Nat
      /\ \A i \in 1..Len(f.commands) : f.commands[i].when \in Nat
  BY Commanded, TotalIs
<1>2. CASE target = 0
  BY <1>1, <1>2 DEF WhenHappened
<1>3. CASE target # 0
  <2>1. target \in 1..Len(f.commands) /\ Len(f.commands) \in 1..Len(f.commands)
    BY <1>1, <1>3
  <2>2. f.commands # <<>>
    BY <1>1, <2>1, Commanded, EmptySeq
  <2>3. f.commands[Len(f.commands)].when <= Total(f)
    BY <2>2, TotalIs
  <2>4. Sorted(f) => f.commands[target].when <= f.commands[Len(f.commands)].when
    BY <1>1, <2>1 DEF Sorted
  <2>. QED  BY <1>1, <1>3, <2>1, <2>3, <2>4 DEF WhenHappened
<1>. QED  BY <1>2, <1>3

(* Replaying up to the step of a revision, and redoing the rest of it.     *)
LEMMA ReplayTo ==
  ASSUME NEW f, NEW clean, Replayed(f, clean), NEW target \in 0..Len(f.commands)
  PROVE  LET step == WhenHappened(f, target)
             g    == RedoUntil(SeekTrimmed(f, step, TRUE), target)
         IN  /\ Replayed(g, clean) /\ SameTest(f, g)
             /\ Fine(g) => g.revision = target /\ (clean => g.step = step)
<1>1. f \in Folders /\ (clean => Sorted(f))
  BY DEF Replayed, Placed, Sure
<1>2. PICK step \in Nat : step = WhenHappened(f, target)
  BY <1>1, WhenIs
<1>3. clean => step <= Total(f)
  BY <1>1, <1>2, WhenIs
<1>4. PICK h : h = SeekTrimmed(f, step, TRUE)
  OBVIOUS
<1>5. Onward(f, h, clean) /\ (clean => Sought(f, h, step, clean))
  BY <1>3, <1>4, SeekTrimmedKeeps
<1>6. Replayed(h, clean) /\ SameTest(f, h) /\ target \in 0..Len(h.commands)
  BY <1>5 DEF Onward, SameTest
<1>7. ASSUME clean, Fine(h), NEW i \in 1..target, i > h.revision
      PROVE  h.commands[i].when = h.step
  <2>1. h.step = step
    BY <1>5, <1>7 DEF Sought
  <2>2. h.commands = f.commands
    BY <1>6 DEF SameTest
  <2>3. /\ i \in 1..Len(f.commands) /\ target \in 1..Len(f.commands) /\ i <= target
        /\ f.commands[i].when \in Nat /\ f.commands[target].when \in Nat
    BY <1>1, Commanded
  <2>4. f.commands[i].when <= f.commands[target].when
    BY <1>1, <1>7, <2>3 DEF Sorted
  <2>5. f.commands[target].when = step
    BY <1>2, <2>3 DEF WhenHappened
  <2>6. h.revision \in Nat
    BY <1>6 DEF Replayed, Placed, Folders
  <2>7. f.commands[i].when >= step
    BY <1>6, <1>7, <2>1, <2>2, <2>3, <2>6 DEF Replayed, Placed, DoneBy
  <2>. QED  BY <2>1, <2>2, <2>3, <2>4, <2>5, <2>7
<1>8. PICK g : g = RedoUntil(h, target)
  OBVIOUS
<1>9. /\ Replayed(g, clean) /\ SameTest(h, g)
      /\ Fine(g) => Fine(h) /\ g.revision = target /\ g.step = h.step
  BY <1>6, <1>7, <1>8, RedoUntilKeeps
<1>10. SameTest(f, g)
  BY <1>6, <1>9 DEF SameTest
<1>11. Fine(g) /\ clean => g.step = step
  BY <1>5, <1>9 DEF Sought
<1>. QED  BY <1>2, <1>4, <1>8, <1>9, <1>10, <1>11

(* A jump to a revision of a test. *)
LEMMA SeekThroughTimeKeeps ==
  ASSUME NEW f, NEW clean, Replayed(f, clean), Fine(f), f.before # NotStarted,
         NEW target \in 0..Len(f.commands)
  PROVE  LET g == SeekThroughTime(f, target)
         IN  /\ Replayed(g, clean) /\ SameTest(f, g)
             /\ Fine(g) => g.revision = target
             /\ Fine(g) /\ f.revision < target =>
                  /\ f.step <= WhenHappened(f, target)
                  /\ clean => g.step = WhenHappened(f, target)
             /\ target = f.revision => g = f
<1>1. f \in Folders /\ f.revision \in Nat /\ f.step \in Nat /\ Placed(f, clean) /\ target \in Nat
  BY Commanded DEF Replayed, Placed, Folders
<1>2. PICK step \in Nat : step = WhenHappened(f, target)
  BY <1>1, WhenIs
<1>3. PICK h : h = IF f.mode = "RECORDING" THEN [f EXCEPT !.mode = "REPLAYING"] ELSE f
  OBVIOUS
<1>4. /\ Replayed(h, clean) /\ SameTest(f, h) /\ Fine(h)
      /\ h.step = f.step /\ h.revision = f.revision
  <2>1. CASE f.mode = "RECORDING"
    BY <1>1, <1>3, <2>1, ModeKeeps DEF SamePast, Fine
  <2>2. CASE f.mode # "RECORDING"
    BY <1>3, <2>2 DEF SameTest
  <2>. QED  BY <2>1, <2>2
<1>5. target \in 0..Len(h.commands) /\ WhenHappened(h, target) = step
  BY <1>2, <1>4 DEF SameTest, WhenHappened
<1>6. ASSUME NEW why \in Failures, why # "nothing"
      PROVE  Replayed(Fail(h, why), clean) /\ SameTest(h, Fail(h, why)) /\ ~Fine(Fail(h, why))
  BY <1>4, <1>6, FailKeeps DEF Replayed, SamePast
<1>7. PICK g : g = SeekThroughTime(f, target)
  OBVIOUS
<1>. DEFINE AtTarget == /\ Replayed(g, clean) /\ SameTest(f, g)
                        /\ Fine(g) => g.revision = target
                        /\ Fine(g) /\ f.revision < target =>
                             /\ f.step <= WhenHappened(f, target)
                             /\ clean => g.step = WhenHappened(f, target)
                        /\ target = f.revision => g = f
<1>. SUFFICES AtTarget
  BY <1>7, Zenon
<1>8. /\ target = f.revision => g = f
      /\ target # f.revision /\ f.revision < target /\ f.step > step
            => g = Fail(h, "redo_goes_back_in_time")
      /\ target # f.revision /\ f.revision < target /\ ~(f.step > step)
            => g = RedoUntil(SeekTrimmed(h, step, TRUE), target)
      /\ target # f.revision /\ ~(f.revision < target) /\ f.step = step
            => g = UndoUntil(h, target)
      /\ target # f.revision /\ ~(f.revision < target) /\ f.step # step /\ f.step < step
            => g = Fail(h, "undo_goes_forth_in_time")
      /\ target # f.revision /\ ~(f.revision < target) /\ f.step # step /\ ~(f.step < step)
            => g = RedoUntil(SeekTrimmed(h, step, TRUE), target)
  <2>1. h = IF f.before # NotStarted /\ f.mode = "RECORDING"
            THEN [f EXCEPT !.mode = "REPLAYING"] ELSE f
    BY <1>3
  <2>. HIDE <1>3
  <2>. QED  BY <1>2, <1>7, <2>1, ZenonT(30) DEF SeekThroughTime
<1>9. CASE target = f.revision
  <2>1. g = f
    BY <1>9, <1>8
  <2>. QED  BY <1>1, <1>7, <1>9, <2>1 DEF SameTest
<1>10. CASE \/ f.revision < target /\ f.step > step
            \/ f.revision > target /\ f.step < step
  <2>1. g = Fail(h, "redo_goes_back_in_time") \/ g = Fail(h, "undo_goes_forth_in_time")
    BY <1>1, <1>8, <1>10
  <2>2. Replayed(g, clean) /\ SameTest(h, g) /\ ~Fine(g)
    BY <1>6, <2>1 DEF Failures
  <2>3. target # f.revision
    BY <1>1, <1>10
  <2>. QED  BY <1>4, <1>7, <2>2, <2>3 DEF SameTest
<1>11. CASE \/ f.revision < target /\ ~(f.step > step)
            \/ f.revision > target /\ f.step > step
  <2>1. g = RedoUntil(SeekTrimmed(h, step, TRUE), target)
    <3>1. CASE f.revision < target /\ ~(f.step > step)
      <4>1. target # f.revision
        BY <1>1, <3>1
      <4>. QED  BY <1>8, <3>1, <4>1
    <3>2. CASE f.revision > target /\ f.step > step
      <4>1. target # f.revision /\ ~(f.revision < target) /\ f.step # step /\ ~(f.step < step)
        BY <1>1, <1>2, <3>2
      <4>. QED  BY <1>8, <4>1
    <3>. QED  BY <1>11, <3>1, <3>2
  <2>2. /\ Replayed(g, clean) /\ SameTest(h, g)
        /\ Fine(g) => g.revision = target /\ (clean => g.step = step)
    BY <1>4, <1>5, <2>1, ReplayTo
  <2>. QED  BY <1>1, <1>2, <1>4, <1>7, <1>11, <2>2 DEF SameTest
<1>12. CASE f.revision > target /\ f.step = step
  <2>1. g = UndoUntil(h, target)
    BY <1>1, <1>8, <1>12
  <2>2. ASSUME clean, NEW i \in 1..h.revision, i > target PROVE h.commands[i].when = h.step
    <3>1. h.revision <= Len(h.commands) /\ i \in 1..Len(h.commands) /\ h \in Folders
      BY <1>1, <1>4 DEF Replayed, Placed
    <3>2. h.commands[i].when \in Nat
      BY <3>1, Commanded
    <3>3. h.commands[i].when <= h.step
      BY <1>4, <2>2, <3>1 DEF Replayed, Placed, DoneBy
    <3>4. h.commands[i].when >= step
      <4>1. CASE target = 0
        BY <1>2, <3>2, <4>1 DEF WhenHappened
      <4>2. CASE target # 0
        <5>1. target \in 1..Len(h.commands) /\ target <= i
          BY <1>5, <2>2, <4>2
        <5>2. h.commands[target].when = step
          BY <1>5, <4>2 DEF WhenHappened
        <5>3. h.commands[target].when <= h.commands[i].when
          BY <1>4, <2>2, <3>1, <5>1 DEF Replayed, Placed, Sure, Sorted
        <5>. QED  BY <3>2, <5>2, <5>3
      <4>. QED  BY <4>1, <4>2
    <3>. QED  BY <1>2, <1>4, <1>12, <3>2, <3>3, <3>4
  <2>3. target \in Nat /\ target <= h.revision
    BY <1>1, <1>4, <1>12
  <2>4. Replayed(g, clean) /\ SameTest(h, g) /\ g.revision = target /\ g.step = h.step
    BY <1>4, <2>1, <2>2, <2>3, UndoUntilKeeps
  <2>. QED  BY <1>1, <1>4, <1>7, <1>12, <2>4 DEF SameTest
<1>13. \/ target = f.revision
       \/ (f.revision < target /\ f.step > step) \/ (f.revision > target /\ f.step < step)
       \/ (f.revision < target /\ ~(f.step > step)) \/ (f.revision > target /\ f.step > step)
       \/ f.revision > target /\ f.step = step
  BY <1>1, <1>2
<1>. HIDE DEF AtTarget
<1>. QED
  <2>1. CASE target = f.revision
    BY <1>9, <2>1
  <2>2. CASE f.revision < target /\ f.step > step
    BY <1>10, <2>2
  <2>3. CASE f.revision > target /\ f.step < step
    BY <1>10, <2>3
  <2>4. CASE f.revision < target /\ ~(f.step > step)
    BY <1>11, <2>4
  <2>5. CASE f.revision > target /\ f.step > step
    BY <1>11, <2>5
  <2>6. CASE f.revision > target /\ f.step = step
    BY <1>12, <2>6
  <2>. QED  BY <1>13, <2>1, <2>2, <2>3, <2>4, <2>5, <2>6

-----------------------------------------------------------------------------
(* Reopening. *)

(* Going a step back and forth again: of the commands of the step only     *)
(* those are done that a snapshot of the step holds.                       *)
LEMMA BackAndForth ==
  ASSUME NEW f, NEW clean, Placed(f, clean), f.step # 0
  PROVE  LET paused == [f EXCEPT !.mode = "PAUSED"]
             g      == Seek(Seek(paused, f.step - 1, TRUE, 0), f.step, TRUE, 0)
         IN  /\ Replayed(g, clean) /\ SamePast(f, g)
             /\ Fine(g) => g.step = f.step
             /\ Fine(g) /\ clean => \/ /\ f.step \in DOMAIN f.snapshots
                                       /\ g.revision = f.snapshots[f.step].revision
                                    \/ AllBefore(g)
<1>1. f.step \in Nat /\ f.step - 1 \in Nat /\ f.step - 1 < f.step /\ 0 \in Nat /\ TRUE \in BOOLEAN
  BY DEF Placed, Folders
<1>2. PICK a : a = [f EXCEPT !.mode = "PAUSED"]
  OBVIOUS
<1>3. Placed(a, clean) /\ SamePast(f, a) /\ a.mode = "PAUSED" /\ a.step = f.step
  BY <1>2, ModeKeeps
<1>4. PICK b : b = Seek(a, f.step - 1, TRUE, 0)
  OBVIOUS
<1>5. Sought(a, b, f.step - 1, clean)
  BY <1>1, <1>3, <1>4, SeekReaches
<1>6. Replayed(b, clean) /\ Placed(b, clean) /\ SamePast(a, b) /\ b.mode = "PAUSED"
  BY <1>3, <1>5 DEF Sought, Onward, Replayed
<1>7. PICK g : g = Seek(b, f.step, TRUE, 0)
  OBVIOUS
<1>8. Sought(b, g, f.step, clean)
  BY <1>1, <1>6, <1>7, SeekReaches
<1>9. Replayed(g, clean) /\ SamePast(b, g) /\ (Fine(g) => g.step = f.step)
  BY <1>6, <1>8 DEF Sought, Onward
<1>10. SamePast(f, g) /\ b.snapshots = f.snapshots
  BY <1>3, <1>6, <1>9 DEF SamePast, SameTest
<1>11. Fine(g) => ~(g = b /\ f.step = b.step)
  BY <1>1, <1>5 DEF Sought
<1>12. Fine(g) /\ clean => \/ /\ f.step \in DOMAIN f.snapshots
                              /\ g.revision = f.snapshots[f.step].revision
                           \/ AllBefore(g)
  BY <1>8, <1>10, <1>11 DEF Sought
<1>. QED  BY <1>2, <1>4, <1>7, <1>9, <1>10, <1>12

(* A folder reopened is at its revision; and if no snapshot of the step    *)
(* has later commands in it, at its step.                                  *)
LEMMA ReloadKeeps ==
  ASSUME NEW f, NEW clean, Placed(f, clean), Fine(f), f.step # 0, f.before # NotStarted
  PROVE  LET g == Reload(f)
         IN  /\ Replayed(g, clean) /\ SameTest(f, g)
             /\ Fine(g) => g.revision = f.revision
             /\ clean /\ Fine(g)
                /\ ~(f.step \in DOMAIN f.snapshots /\ f.snapshots[f.step].revision > f.revision)
                => g.step = f.step
<1>1. /\ f \in Folders /\ f.step \in Nat /\ f.revision \in Nat /\ Len(f.commands) \in Nat
      /\ f.revision \in 0..Len(f.commands)
      /\ \A i \in 1..Len(f.commands) : f.commands[i].when \in Nat
  BY Commanded DEF Placed, Folders
<1>2. PICK c : c = Seek(Seek([f EXCEPT !.mode = "PAUSED"], f.step - 1, TRUE, 0), f.step, TRUE, 0)
  OBVIOUS
<1>3. /\ Replayed(c, clean) /\ SamePast(f, c)
      /\ Fine(c) => c.step = f.step
      /\ Fine(c) /\ clean => \/ /\ f.step \in DOMAIN f.snapshots
                                /\ c.revision = f.snapshots[f.step].revision
                             \/ AllBefore(c)
  BY <1>2, BackAndForth
<1>4. c.commands = f.commands /\ c.before = f.before
  BY <1>3 DEF SamePast, SameTest
<1>5. PICK g : g = Reload(f)
  OBVIOUS
<1>6. CASE ~Fine(c)
  BY <1>2, <1>3, <1>5, <1>6 DEF Reload, SamePast
<1>7. CASE Fine(c)
  <2>1. g = SeekThroughTime(c, f.revision)
    BY <1>2, <1>5, <1>7 DEF Reload
  <2>2. f.revision \in 0..Len(c.commands)
    BY <1>1, <1>4
  <2>3. /\ Replayed(g, clean) /\ SameTest(c, g)
        /\ Fine(g) => g.revision = f.revision
        /\ Fine(g) /\ c.revision < f.revision =>
             /\ c.step <= WhenHappened(c, f.revision)
             /\ clean => g.step = WhenHappened(c, f.revision)
        /\ f.revision = c.revision => g = c
    BY <1>3, <1>4, <1>7, <2>1, <2>2, SeekThroughTimeKeeps
  <2>4. ASSUME clean, Fine(g),
               ~(f.step \in DOMAIN f.snapshots /\ f.snapshots[f.step].revision > f.revision)
        PROVE  g.step = f.step
    <3>1. c.revision \in Nat /\ c.revision <= Len(f.commands)
      BY <1>3, <1>4, <1>7 DEF Replayed, Placed, Folders
    <3>2. c.revision <= f.revision
      <4>1. CASE f.step \in DOMAIN f.snapshots /\ c.revision = f.snapshots[f.step].revision
        BY <1>1, <2>4, <3>1, <4>1
      <4>2. CASE AllBefore(c)
        <5>. SUFFICES ASSUME c.revision > f.revision PROVE FALSE
          BY <1>1, <3>1
        <5>1. f.revision + 1 \in 1..c.revision /\ f.revision + 1 \in 1..Len(f.commands)
          BY <1>1, <3>1
        <5>2. f.commands[f.revision + 1].when < f.step
          BY <1>3, <1>4, <1>7, <4>2, <5>1 DEF AllBefore
        <5>3. f.commands[f.revision + 1].when >= f.step
          BY <1>1, <2>4, <5>1 DEF Placed, DoneBy
        <5>. QED  BY <1>1, <5>1, <5>2, <5>3
      <4>. QED  BY <1>3, <1>7, <2>4, <4>1, <4>2
    <3>3. CASE c.revision = f.revision
      BY <1>3, <1>7, <2>3, <3>3
    <3>4. CASE c.revision < f.revision
      <4>1. f.revision # 0 /\ f.revision \in 1..Len(f.commands)
        BY <1>1, <3>1, <3>4
      <4>2. WhenHappened(c, f.revision) = f.commands[f.revision].when
        BY <1>4, <4>1 DEF WhenHappened
      <4>3. f.commands[f.revision].when <= f.step
        BY <1>1, <2>4, <4>1 DEF Placed, DoneBy
      <4>. QED  BY <1>1, <1>3, <1>7, <2>3, <2>4, <3>4, <4>1, <4>2, <4>3
    <3>. QED  BY <1>1, <3>1, <3>2, <3>3, <3>4
  <2>5. SameTest(f, g)
    BY <1>4, <2>3 DEF SameTest
  <2>. QED  BY <1>5, <2>3, <2>4, <2>5
<1>. QED  BY <1>6, <1>7

-----------------------------------------------------------------------------
(* Commands that enter and leave the history of a test. *)

(* The first commands are kept, others are given at this step; no snapshot *)
(* tells of those that left, or misses those that came.                    *)
LEMMA RecommandSure ==
  ASSUME NEW f \in Folders, NEW g \in Folders, Sure(f), DoneBy(f, f.revision, f.step),
         g.before = f.before, g.entropies = f.entropies, g.snapshots = f.snapshots,
         f.revision <= Len(g.commands),
         \A i \in 1..f.revision : g.commands[i] = f.commands[i],
         \A i \in 1..Len(g.commands) : i > f.revision => g.commands[i].when = f.step,
         \A s \in DOMAIN f.snapshots : /\ f.snapshots[s].revision <= f.revision
                                       /\ s > f.step => Len(g.commands) <= f.revision
  PROVE  Sure(g)
<1>1. /\ f.revision \in Nat /\ f.step \in Nat /\ Len(f.commands) \in Nat /\ Len(g.commands) \in Nat
      /\ f.revision <= Len(f.commands)
      /\ \A i \in 1..Len(f.commands) : f.commands[i].when \in Nat
      /\ \A i \in 1..Len(g.commands) : g.commands[i].when \in Nat
      /\ f.snapshots \in Partly(Taken)
  BY Commanded DEF Folders, DoneBy
<1>2. Sorted(g)
  <2>. SUFFICES ASSUME NEW i \in 1..Len(g.commands), NEW j \in 1..Len(g.commands), i <= j
                PROVE  g.commands[i].when <= g.commands[j].when
    BY DEF Sorted
  <2>1. CASE j <= f.revision
    <3>1. i \in 1..f.revision /\ j \in 1..f.revision
      BY <1>1, <2>1
    <3>2. i \in 1..Len(f.commands) /\ j \in 1..Len(f.commands)
      BY <1>1, <3>1
    <3>. QED  BY <3>1, <3>2 DEF Sure, Sorted
  <2>2. CASE i <= f.revision /\ j > f.revision
    <3>1. i \in 1..f.revision /\ i \in 1..Len(f.commands)
      BY <1>1, <2>2
    <3>2. g.commands[i].when <= f.step
      BY <2>2, <3>1 DEF DoneBy
    <3>. QED  BY <2>2, <3>2
  <2>3. CASE i > f.revision
    <3>1. j > f.revision
      BY <1>1, <2>3
    <3>2. g.commands[i].when = f.step /\ g.commands[j].when = f.step
      BY <2>3, <3>1
    <3>. QED  BY <1>1, <3>2
  <2>. QED  BY <1>1, <2>1, <2>2, <2>3
<1>3. ASSUME NEW s \in DOMAIN g.snapshots PROVE SnapshotIs(g, s)
  <2>1. PICK r \in Nat : r = f.snapshots[s].revision
    <3>1. f.snapshots[s] \in Taken
      BY <1>1, PartlyHas
    <3>. QED  BY <3>1 DEF Taken
  <2>2. s \in DOMAIN f.snapshots /\ s \in Nat /\ r <= f.revision
    BY <1>1, <2>1, PartlyHas
  <2>3. SnapshotIs(f, s)
    BY <2>2 DEF Sure
  <2>4. DoneBy(f, r, s)
    BY <2>1, <2>3 DEF SnapshotIs
  <2>5. DoneBy(g, r, s)
    <3>1. ASSUME NEW i \in 1..Len(g.commands), i <= f.revision
          PROVE  IF i <= r THEN g.commands[i].when <= s ELSE g.commands[i].when >= s
      <4>1. i \in 1..f.revision /\ i \in 1..Len(f.commands)
        BY <1>1, <3>1
      <4>2. g.commands[i] = f.commands[i]
        BY <4>1
      <4>. QED  BY <2>4, <4>1, <4>2 DEF DoneBy
    <3>2. ASSUME NEW i \in 1..Len(g.commands), i > f.revision
          PROVE  IF i <= r THEN g.commands[i].when <= s ELSE g.commands[i].when >= s
      <4>1. s <= f.step
        BY <1>1, <2>2, <3>2
      <4>2. g.commands[i].when = f.step
        BY <3>2
      <4>. QED  BY <1>1, <2>2, <3>2, <4>1, <4>2
    <3>3. \A i \in 1..Len(g.commands) : i <= f.revision \/ i > f.revision
      BY <1>1
    <3>. QED  BY <1>1, <2>2, <3>1, <3>2, <3>3 DEF DoneBy
  <2>6. Played(g, s, r) = Played(f, s, r)
    <3>1. \A i \in 1..r : f.commands[i] = g.commands[i]
      <4>1. \A i \in 1..r : i \in 1..f.revision
        BY <1>1, <2>2
      <4>. QED  BY <4>1
    <3>2. \A n \in 0..s - 1 : Input(f, n) = Input(g, n)
      BY DEF Input
    <3>. QED  BY <2>2, <3>1, <3>2, PlayedSame
  <2>. QED  BY <2>1, <2>3, <2>5, <2>6 DEF SnapshotIs
<1>. QED  BY <1>2, <1>3 DEF Sure

(* So the test stays as it was unless it becomes suspect. *)
LEMMA Recommand ==
  ASSUME NEW f, NEW clean, Replayed(f, clean), Fine(f), NEW C \in Seq(Done),
         f.revision <= Len(C),
         \A i \in 1..f.revision : C[i] = f.commands[i],
         \A i \in 1..Len(C) : i > f.revision => C[i].when = f.step
  PROVE  LET g == [f EXCEPT !.commands = C]
         IN  /\ Replayed(g, clean /\ ~Suspicious(f, g)) /\ Fine(g)
             /\ g.commands = C /\ g.before = f.before /\ g.snapshots = f.snapshots
             /\ g.revision = f.revision /\ g.step = f.step /\ g.mode = f.mode
             /\ g.entropies = f.entropies /\ g.world = f.world
<1>1. f \in Folders /\ f.revision \in Nat /\ f.step \in Nat /\ Len(C) \in Nat
  BY LenProperties DEF Replayed, Placed, Folders
<1>2. PICK g : g = [f EXCEPT !.commands = C]
  OBVIOUS
<1>3. /\ g \in Folders /\ g.commands = C /\ g.before = f.before /\ g.snapshots = f.snapshots
      /\ g.revision = f.revision /\ g.step = f.step /\ g.mode = f.mode
      /\ g.entropies = f.entropies /\ g.world = f.world /\ g.failed = f.failed
  BY <1>1, <1>2 DEF Folders
<1>4. Fine(g)
  BY <1>3 DEF Fine
<1>5. DOMAIN g.snapshots # {} => 0 \in DOMAIN g.snapshots
  BY <1>3 DEF Replayed, Placed
<1>6. ASSUME clean, ~Suspicious(f, g)
      PROVE  Sure(g) /\ DoneBy(g, g.revision, g.step) /\ Right(g)
  <2>1. Sure(f) /\ DoneBy(f, f.revision, f.step) /\ f.world = Played(f, f.step, f.revision)
    BY <1>6 DEF Replayed, Placed, Right
  <2>2. Sure(g)
    <3>1. CASE f.commands = C
      BY <1>3, <2>1, <3>1, SureAlike DEF SamePast, SameTest
    <3>2. CASE f.commands # C
      <4>1. ASSUME NEW s \in DOMAIN f.snapshots
            PROVE  f.snapshots[s].revision <= f.revision /\ (s > f.step => Len(C) <= f.revision)
        <5>1. f.snapshots \in Partly(Taken)
          BY <1>1 DEF Folders
        <5>2. f.snapshots[s] \in Taken /\ s \in Nat
          BY <5>1, PartlyHas
        <5>3. f.snapshots[s].revision \in Nat
          BY <5>2 DEF Taken
        <5>4. ~(f.snapshots[s].revision > f.revision) /\ ~(s > f.step /\ Len(C) > f.revision)
          BY <1>3, <1>6, <3>2 DEF Suspicious
        <5>. QED  BY <1>1, <5>2, <5>3, <5>4
      <4>. QED  BY <1>1, <1>3, <2>1, <4>1, RecommandSure
    <3>. QED  BY <3>1, <3>2
  <2>3. DoneBy(g, g.revision, g.step)
    <3>1. ASSUME NEW i \in 1..Len(C)
          PROVE  IF i <= f.revision THEN C[i].when <= f.step ELSE C[i].when >= f.step
      <4>1. CASE i <= f.revision
        <5>1. i \in 1..f.revision /\ i \in 1..Len(f.commands)
          BY <1>1, <2>1, <4>1, Commanded DEF DoneBy
        <5>. QED  BY <2>1, <4>1, <5>1 DEF DoneBy
      <4>2. CASE i > f.revision
        BY <1>1, <4>2
      <4>. QED  BY <1>1, <4>1, <4>2
    <3>. QED  BY <1>3, <3>1 DEF DoneBy
  <2>4. Played(g, f.step, f.revision) = Played(f, f.step, f.revision)
    <3>1. \A i \in 1..f.revision : f.commands[i] = g.commands[i]
      BY <1>3
    <3>2. \A n \in 0..f.step - 1 : Input(f, n) = Input(g, n)
      BY <1>3 DEF Input
    <3>3. f.before.world = g.before.world /\ f.step \in Nat /\ f.revision \in Nat
      BY <1>1, <1>3
    <3>. QED  BY <3>1, <3>2, <3>3, PlayedSame
  <2>. QED  BY <1>3, <2>1, <2>2, <2>3, <2>4 DEF Right
<1>7. Replayed(g, clean /\ ~Suspicious(f, g))
  BY <1>3, <1>5, <1>6 DEF Replayed, Placed
<1>. QED  BY <1>2, <1>3, <1>4, <1>7

(* What is left of the history when the later commands are dropped. *)
LEMMA FirstCommands ==
  ASSUME NEW f \in Folders, f.revision <= Len(f.commands)
  PROVE  LET C == SubSeq(f.commands, 1, f.revision)
         IN  /\ C \in Seq(Done) /\ Len(C) = f.revision
             /\ \A i \in 1..f.revision : C[i] = f.commands[i]
<1>1. f.revision \in Nat /\ \A i \in 1..f.revision : f.commands[i] \in Done
  BY Commanded DEF Folders
<1>2. PICK C : C = SubSeq(f.commands, 1, f.revision)
  OBVIOUS
<1>3. C \in Seq(Done) /\ Len(C) = f.revision /\ \A i \in 1..f.revision : C[i] = f.commands[1 + i - 1]
  BY <1>1, <1>2, SubSeqProperties
<1>4. \A i \in 1..f.revision : 1 + i - 1 = i
  OBVIOUS
<1>. QED  BY <1>2, <1>3, <1>4

(* The later commands are dropped. *)
LEMMA DiscardKeeps ==
  ASSUME NEW f, NEW clean, Replayed(f, clean), Fine(f)
  PROVE  LET g == DiscardLater(f)
         IN  Replayed(g, clean /\ ~Suspicious(f, g)) /\ g.before = f.before
<1>1. f \in Folders /\ f.revision \in Nat /\ f.revision <= Len(f.commands)
  BY DEF Replayed, Placed, Folders
<1>2. PICK C : C = SubSeq(f.commands, 1, f.revision)
  OBVIOUS
<1>3. C \in Seq(Done) /\ Len(C) = f.revision /\ \A i \in 1..f.revision : C[i] = f.commands[i]
  BY <1>1, <1>2, FirstCommands
<1>4. /\ f.revision <= Len(C)
      /\ \A i \in 1..Len(C) : i > f.revision => C[i].when = f.step
  BY <1>1, <1>3
<1>5. PICK g : g = [f EXCEPT !.commands = C]
  OBVIOUS
<1>6. Replayed(g, clean /\ ~Suspicious(f, g)) /\ g.before = f.before
  BY <1>3, <1>4, <1>5, Recommand
<1>7. g = DiscardLater(f)
  BY <1>2, <1>5, Zenon DEF DiscardLater
<1>. QED  BY <1>6, <1>7

(* A command of the author during a test. *)
LEMMA ExecuteKeeps ==
  ASSUME NEW f, NEW clean, Replayed(f, clean), Fine(f), NEW edit \in Edits
  PROVE  LET g == ExecuteNow(f, edit)
         IN  Replayed(g, clean /\ ~Suspicious(f, g)) /\ g.before = f.before
<1>1. f \in Folders /\ f.revision \in Nat /\ f.revision <= Len(f.commands) /\ f.step \in Nat
  BY DEF Replayed, Placed, Folders
<1>2. PICK first : first = SubSeq(f.commands, 1, f.revision)
  OBVIOUS
<1>3. /\ first \in Seq(Done) /\ Len(first) = f.revision
      /\ \A i \in 1..f.revision : first[i] = f.commands[i]
  BY <1>1, <1>2, FirstCommands
<1>4. PICK c \in Done : c = [edit |-> edit, when |-> f.step]
  BY <1>1 DEF Done
<1>5. PICK C : C = Append(first, c)
  OBVIOUS
<1>6. /\ C \in Seq(Done) /\ Len(C) = f.revision + 1 /\ C[f.revision + 1] = c
      /\ \A i \in 1..f.revision : C[i] = first[i]
  BY <1>3, <1>4, <1>5, AppendProperties
<1>7. /\ f.revision <= Len(C)
      /\ \A i \in 1..f.revision : C[i] = f.commands[i]
      /\ \A i \in 1..Len(C) : i > f.revision => C[i].when = f.step
  <2>1. \A i \in 1..Len(C) : i > f.revision => i = f.revision + 1
    BY <1>1, <1>6
  <2>2. c.when = f.step
    BY <1>4
  <2>. QED  BY <1>1, <1>3, <1>6, <2>1, <2>2
<1>8. PICK h : h = [f EXCEPT !.commands = C]
  OBVIOUS
<1>9. PICK clean2 : clean2 = (clean /\ ~Suspicious(f, h))
  OBVIOUS
<1>10. /\ Replayed(h, clean2) /\ Fine(h) /\ h.commands = C
       /\ h.before = f.before /\ h.revision = f.revision /\ h.step = f.step
  BY <1>6, <1>7, <1>8, <1>9, Recommand
<1>11. h.revision < Len(h.commands) /\ h.commands[h.revision + 1].when = h.step
  <2>1. c.when = f.step
    BY <1>4
  <2>. QED  BY <1>1, <1>6, <1>10, <2>1
<1>12. PICK g : g = RedoNext(h)
  OBVIOUS
<1>13. Replayed(g, clean2) /\ SamePast(h, g)
  BY <1>10, <1>11, <1>12, RedoNextKeeps
<1>14. g = ExecuteNow(f, edit)
  <2>1. DiscardLater(f).commands = first
    BY <1>1, <1>2 DEF DiscardLater, Folders
  <2>. QED  BY <1>4, <1>5, <1>8, <1>12, <2>1, Zenon DEF ExecuteNow
<1>15. Suspicious(f, g) = Suspicious(f, h)
  BY <1>13 DEF Suspicious, SamePast, SameTest
<1>16. g.before = f.before
  BY <1>10, <1>13 DEF SamePast, SameTest
<1>. QED  BY <1>9, <1>13, <1>14, <1>15, <1>16

-----------------------------------------------------------------------------
(* Outside of tests. *)

(* What the commands up to a revision do to an empty world. *)
Stack(list, r) == [i \in 1..r |-> list[i].edit]

(* What is saved when a test starts is of the revision that it is at.      *)
Level(save) ==
  save.revision <= Len(save.commands) /\ save.world = Stack(save.commands, save.revision)

(* A folder without a test: nothing of one is left. *)
Outside(f) ==
  /\ f \in Folders /\ f.before = NotStarted /\ Fine(f)
  /\ f.entropies = <<>> /\ f.snapshots = <<>> /\ f.step = 0 /\ f.mode = "PAUSED"
  /\ Level(f)

(* What commands do to an empty world is a world. *)
LEMMA StackType ==
  ASSUME NEW C \in Seq(Done), NEW r \in Nat, r <= Len(C)
  PROVE  Stack(C, r) \in Seq(Things) /\ Len(Stack(C, r)) = r
<1>1. ASSUME NEW i \in 1..r PROVE C[i].edit \in Things
  <2>1. i \in 1..Len(C)
    BY LenProperties
  <2>2. C[i] \in Done
    BY <2>1, ElementOfSeq
  <2>. QED  BY <2>2 DEF Done, Things
<1>. QED  BY <1>1 DEF Stack

(* One command more is one edit more. *)
LEMMA StackNext ==
  ASSUME NEW C \in Seq(Done), NEW r \in Nat, r < Len(C)
  PROVE  C[r + 1].edit \in Things /\ Stack(C, r + 1) = Append(Stack(C, r), C[r + 1].edit)
<1>1. Len(C) \in Nat /\ r + 1 \in 1..Len(C)
  BY LenProperties
<1>2. C[r + 1] \in Done
  BY <1>1, ElementOfSeq
<1>3. PICK e : e = C[r + 1].edit /\ e \in Things
  BY <1>2 DEF Done, Things
<1>4. PICK a \in Seq(Things) : a = Stack(C, r) /\ Len(a) = r
  BY <1>1, StackType
<1>5. PICK b \in Seq(Things) : b = Stack(C, r + 1) /\ Len(b) = r + 1
  BY <1>1, StackType
<1>6. PICK u \in Seq(Things) : u = Append(a, e)
  BY <1>3, <1>4, AppendProperties
<1>7. Len(u) = r + 1 /\ u[r + 1] = e /\ \A i \in 1..r : u[i] = a[i]
  BY <1>3, <1>4, <1>6, AppendProperties
<1>8. \A i \in 1..r + 1 : b[i] = C[i].edit
  BY <1>5 DEF Stack
<1>9. \A i \in 1..r : a[i] = C[i].edit
  BY <1>4 DEF Stack
<1>10. \A i \in 1..Len(b) : b[i] = u[i]
  <2>1. \A i \in 1..r + 1 : i = r + 1 \/ i \in 1..r
    OBVIOUS
  <2>. QED  BY <1>3, <1>5, <1>7, <1>8, <1>9, <2>1
<1>11. b = u
  BY <1>5, <1>7, <1>10, SeqEqual
<1>. QED  BY <1>3, <1>4, <1>5, <1>6, <1>11

(* Only the commands up to the revision matter. *)
LEMMA StackSame ==
  ASSUME NEW C, NEW D, NEW r, \A i \in 1..r : C[i] = D[i]
  PROVE  Stack(C, r) = Stack(D, r)
BY DEF Stack

(* It is what the model says. *)
LEMMA EditedIs ==
  ASSUME NEW C \in Seq(Done), NEW r \in Nat, r <= Len(C)
  PROVE  Edited(SubSeq(C, 1, r)) = Stack(C, r)
<1>1. \A i \in 1..r : C[i] \in Done
  <2>1. \A i \in 1..r : i \in 1..Len(C)
    BY LenProperties
  <2>. QED  BY <2>1, ElementOfSeq
<1>2. PICK D : D = SubSeq(C, 1, r)
  OBVIOUS
<1>3. D \in Seq(Done) /\ Len(D) = r /\ \A i \in 1..r : D[i] = C[1 + i - 1]
  BY <1>1, <1>2, SubSeqProperties
<1>4. DOMAIN D = 1..r
  BY <1>3, LenProperties
<1>5. \A i \in 1..r : D[i] = C[i]
  BY <1>3
<1>. QED  BY <1>2, <1>4, <1>5 DEF Edited, Stack

(* Outside of tests commands are done and undone in turn. *)
LEMMA OutsideRedo ==
  ASSUME NEW f, Outside(f), f.revision < Len(f.commands)
  PROVE  LET g == RedoNext(f)
         IN  Outside(g) /\ g.commands = f.commands /\ g.revision = f.revision + 1
<1>1. f \in Folders /\ f.commands \in Seq(Done) /\ f.revision \in Nat /\ f.revision + 1 \in Nat
      /\ Len(f.commands) \in Nat
  BY Commanded DEF Outside, Folders
<1>2. PICK w \in Worlds : w = Append(f.world, f.commands[f.revision + 1].edit)
                          /\ w = Stack(f.commands, f.revision + 1)
  <2>1. Stack(f.commands, f.revision + 1) \in Seq(Things)
    BY <1>1, StackType
  <2>. QED  BY <1>1, <2>1, StackNext DEF Outside, Level, Worlds
<1>3. PICK g : g = [f EXCEPT !.world = w, !.revision = f.revision + 1]
  OBVIOUS
<1>4. g = RedoNext(f)
  BY <1>2, <1>3, Zenon DEF RedoNext
<1>5. /\ g \in Folders /\ g.before = f.before /\ g.failed = f.failed /\ g.commands = f.commands
      /\ g.entropies = f.entropies /\ g.snapshots = f.snapshots
      /\ g.step = f.step /\ g.mode = f.mode /\ g.revision = f.revision + 1 /\ g.world = w
  BY <1>1, <1>3 DEF Folders
<1>6. Level(g)
  BY <1>1, <1>2, <1>5 DEF Level
<1>. QED  BY <1>4, <1>5, <1>6 DEF Outside, Fine

(* The last edit is taken back from the world. *)
LEMMA OutsideUndo ==
  ASSUME NEW f, Outside(f), f.revision # 0
  PROVE  LET g == UndoLast(f)
         IN  Outside(g) /\ g.commands = f.commands /\ g.revision = f.revision - 1
<1>1. f \in Folders /\ f.commands \in Seq(Done) /\ Len(f.commands) \in Nat /\ f.revision \in Nat
  BY Commanded DEF Outside, Folders
<1>2. PICK r \in Nat : r = f.revision - 1 /\ f.revision = r + 1 /\ r < Len(f.commands)
  BY <1>1 DEF Outside, Level
<1>3. PICK e \in Things : e = f.commands[f.revision].edit
  BY <1>1, <1>2, StackNext
<1>4. PICK w \in Seq(Things) : w = Stack(f.commands, r)
  BY <1>1, <1>2, StackType
<1>5. f.world = Append(w, e)
  BY <1>1, <1>2, <1>3, <1>4, StackNext DEF Outside, Level
<1>6. f.world # <<>> /\ Last(f.world) = e /\ Front(f.world) = w
  BY <1>5, FrontAppend
<1>7. PICK g : g = [f EXCEPT !.world = w, !.revision = r]
  OBVIOUS
<1>8. g = UndoLast(f)
  BY <1>1, <1>2, <1>3, <1>6, <1>7 DEF UndoLast
<1>9. /\ g \in Folders /\ g.before = f.before /\ g.failed = f.failed /\ g.commands = f.commands
      /\ g.entropies = f.entropies /\ g.snapshots = f.snapshots
      /\ g.step = f.step /\ g.mode = f.mode /\ g.revision = r /\ g.world = w
  <2>1. w \in Worlds
    BY DEF Worlds
  <2>. QED  BY <1>1, <1>7, <2>1 DEF Folders
<1>10. Level(g)
  <2>1. Stack(g.commands, g.revision) = w
    BY <1>4, <1>9
  <2>2. r <= Len(g.commands)
    BY <1>1, <1>2, <1>9
  <2>. QED  BY <1>9, <2>1, <2>2 DEF Level
<1>11. Outside(g)
  BY <1>9, <1>10 DEF Outside, Fine
<1>. QED  BY <1>2, <1>8, <1>9, <1>11

(* Several redos in turn. *)
LEMMA OutsideRedos ==
  ASSUME NEW f, Outside(f), NEW n \in Nat, f.revision + n <= Len(f.commands),
         NEW s, DOMAIN s = 1..n
  PROVE  Outside(FoldLeft(RedoTurn, f, s))
<1>1. f.revision \in Nat /\ Len(f.commands) \in Nat
  BY Commanded DEF Outside, Folders
<1>2. PICK h : Redos!Unfolds(h, f, s, n) /\ Redos!Fold(f, s) = h[n]
  BY Redos!FoldUnfold
<1>. DEFINE Turned(k) == /\ Outside(h[k]) /\ h[k].commands = f.commands
                         /\ h[k].revision = f.revision + k
            P == {k \in Nat : k <= n => Turned(k)}
<1>3. 0 \in P
  <2>1. h[0] = f /\ f.revision + 0 = f.revision
    BY <1>1, <1>2 DEF Redos!Unfolds
  <2>. QED  BY <2>1
<1>4. ASSUME NEW k \in Nat, k \in P PROVE k + 1 \in P
  <2>. SUFFICES ASSUME k + 1 <= n PROVE Turned(k + 1)
    OBVIOUS
  <2>1. Turned(k) /\ k \in 0..n - 1 /\ k + 1 \in 1..n
    BY <1>4
  <2>2. h[k + 1] = RedoNext(h[k])
    BY <1>2, <2>1 DEF Redos!Unfolds, RedoTurn
  <2>3. h[k].revision < Len(h[k].commands) /\ h[k].revision + 1 = f.revision + (k + 1)
    BY <1>1, <2>1
  <2>. QED  BY <2>1, <2>2, <2>3, OutsideRedo
<1>5. n \in P
  <2>. HIDE DEF P
  <2>. QED  BY <1>3, <1>4, Redos!NatInduct
<1>. QED  BY <1>2, <1>5, RedosFold

(* Several undos in turn. *)
LEMMA OutsideUndos ==
  ASSUME NEW f, Outside(f), NEW n \in Nat, n <= f.revision, NEW s, DOMAIN s = 1..n
  PROVE  Outside(FoldLeft(UndoTurn, f, s))
<1>1. f.revision \in Nat
  BY DEF Outside, Folders
<1>2. PICK h : Undos!Unfolds(h, f, s, n) /\ Undos!Fold(f, s) = h[n]
  BY Undos!FoldUnfold
<1>. DEFINE Turned(k) == Outside(h[k]) /\ h[k].revision = f.revision - k
            P == {k \in Nat : k <= n => Turned(k)}
<1>3. 0 \in P
  <2>1. h[0] = f /\ f.revision - 0 = f.revision
    BY <1>1, <1>2 DEF Undos!Unfolds
  <2>. QED  BY <2>1
<1>4. ASSUME NEW k \in Nat, k \in P PROVE k + 1 \in P
  <2>. SUFFICES ASSUME k + 1 <= n PROVE Turned(k + 1)
    OBVIOUS
  <2>1. Turned(k) /\ k \in 0..n - 1 /\ k + 1 \in 1..n
    BY <1>4
  <2>2. h[k + 1] = UndoLast(h[k])
    BY <1>2, <2>1 DEF Undos!Unfolds, UndoTurn
  <2>3. h[k].revision # 0 /\ h[k].revision - 1 = f.revision - (k + 1)
    BY <1>1, <2>1
  <2>. QED  BY <2>1, <2>2, <2>3, OutsideUndo
<1>5. n \in P
  <2>. HIDE DEF P
  <2>. QED  BY <1>3, <1>4, Undos!NatInduct
<1>. QED  BY <1>2, <1>5, UndosFold

(* A jump to a revision. *)
LEMMA OutsideJump ==
  ASSUME NEW f, Outside(f), NEW target \in 0..Len(f.commands)
  PROVE  Outside(SeekThroughTime(f, target))
<1>1. f.revision \in Nat /\ Len(f.commands) \in Nat /\ target \in Nat
  BY Commanded DEF Outside, Folders
<1>2. f.before = NotStarted /\ Fine(f)
  BY DEF Outside
<1>3. CASE target = f.revision
  BY <1>3 DEF SeekThroughTime
<1>4. CASE f.revision < target
  <2>1. PICK n \in Nat : n = target - f.revision
    BY <1>1, <1>4
  <2>2. PICK s : s = [i \in 1..n |-> i]
    OBVIOUS
  <2>3. [i \in 1..target - f.revision |-> i] = s /\ DOMAIN s = 1..n
    BY <2>1, <2>2
  <2>4. ~(f.revision > target) /\ target # f.revision
    BY <1>1, <1>4
  <2>5. SeekThroughTime(f, target) = RedoUntil(f, target)
    BY <1>2, <1>4, <2>4, Zenon DEF SeekThroughTime
  <2>6. RedoUntil(f, target) = FoldLeft(RedoTurn, f, s)
    BY <1>2, <2>3, <2>4 DEF RedoUntil
  <2>7. f.revision + n <= Len(f.commands)
    BY <1>1, <2>1
  <2>. QED  BY <2>3, <2>5, <2>6, <2>7, OutsideRedos
<1>5. CASE target # f.revision /\ ~(f.revision < target)
  <2>1. PICK n \in Nat : n = f.revision - target
    BY <1>1, <1>5
  <2>2. PICK s : s = [i \in 1..n |-> i]
    OBVIOUS
  <2>3. [i \in 1..f.revision - target |-> i] = s /\ DOMAIN s = 1..n
    BY <2>1, <2>2
  <2>4. SeekThroughTime(f, target) = UndoUntil(f, target)
    BY <1>2, <1>5, Zenon DEF SeekThroughTime
  <2>5. UndoUntil(f, target) = FoldLeft(UndoTurn, f, s)
    BY <2>3 DEF UndoUntil
  <2>6. n <= f.revision
    BY <1>1, <2>1
  <2>. QED  BY <2>3, <2>4, <2>5, <2>6, OutsideUndos
<1>. QED  BY <1>1, <1>3, <1>4, <1>5

(* Later commands may be exchanged. *)
LEMMA OutsideRecommand ==
  ASSUME NEW f, Outside(f), NEW C \in Seq(Done), f.revision <= Len(C),
         \A i \in 1..f.revision : C[i] = f.commands[i]
  PROVE  LET g == [f EXCEPT !.commands = C]
         IN  Outside(g) /\ g.commands = C /\ g.revision = f.revision
<1>1. f \in Folders
  BY DEF Outside
<1>2. PICK g : g = [f EXCEPT !.commands = C]
  OBVIOUS
<1>3. /\ g \in Folders /\ g.before = f.before /\ g.failed = f.failed /\ g.commands = C
      /\ g.entropies = f.entropies /\ g.snapshots = f.snapshots
      /\ g.step = f.step /\ g.mode = f.mode /\ g.revision = f.revision /\ g.world = f.world
  BY <1>1, <1>2 DEF Folders
<1>4. Stack(C, f.revision) = Stack(f.commands, f.revision)
  BY StackSame
<1>5. Level(g)
  BY <1>3, <1>4 DEF Level, Outside
<1>6. Outside(g)
  BY <1>3, <1>5 DEF Outside, Fine
<1>. QED  BY <1>2, <1>3, <1>6

(* Later commands may be dropped. *)
LEMMA OutsideDiscard ==
  ASSUME NEW f, Outside(f)
  PROVE  Outside(DiscardLater(f))
<1>1. f \in Folders /\ f.revision \in Nat /\ f.revision <= Len(f.commands)
  BY DEF Outside, Level, Folders
<1>2. PICK C : C = SubSeq(f.commands, 1, f.revision)
  OBVIOUS
<1>3. C \in Seq(Done) /\ Len(C) = f.revision /\ \A i \in 1..f.revision : C[i] = f.commands[i]
  BY <1>1, <1>2, FirstCommands
<1>4. Outside([f EXCEPT !.commands = C])
  BY <1>1, <1>3, OutsideRecommand
<1>. QED  BY <1>2, <1>4, Zenon DEF DiscardLater

(* A command of the author. *)
LEMMA OutsideExecute ==
  ASSUME NEW f, Outside(f), NEW edit \in Edits
  PROVE  Outside(ExecuteNow(f, edit))
<1>1. f \in Folders /\ f.revision \in Nat /\ f.revision <= Len(f.commands) /\ f.step \in Nat
  BY DEF Outside, Level, Folders
<1>2. PICK first : first = SubSeq(f.commands, 1, f.revision)
  OBVIOUS
<1>3. /\ first \in Seq(Done) /\ Len(first) = f.revision
      /\ \A i \in 1..f.revision : first[i] = f.commands[i]
  BY <1>1, <1>2, FirstCommands
<1>4. PICK c \in Done : c = [edit |-> edit, when |-> f.step]
  BY <1>1 DEF Done
<1>5. PICK C : C = Append(first, c)
  OBVIOUS
<1>6. /\ C \in Seq(Done) /\ Len(C) = f.revision + 1
      /\ \A i \in 1..f.revision : C[i] = f.commands[i]
  BY <1>3, <1>4, <1>5, AppendProperties
<1>7. PICK h : h = [f EXCEPT !.commands = C]
  OBVIOUS
<1>8. Outside(h) /\ h.commands = C /\ h.revision = f.revision
  <2>1. f.revision <= Len(C)
    BY <1>1, <1>6
  <2>. QED  BY <1>6, <1>7, <2>1, OutsideRecommand
<1>9. Outside(RedoNext(h))
  <2>1. h.revision < Len(h.commands)
    BY <1>1, <1>6, <1>8
  <2>. QED  BY <1>8, <2>1, OutsideRedo
<1>10. RedoNext(h) = ExecuteNow(f, edit)
  <2>1. DiscardLater(f).commands = first
    BY <1>1, <1>2 DEF DiscardLater, Folders
  <2>. QED  BY <1>4, <1>5, <1>7, <2>1, Zenon DEF ExecuteNow
<1>. QED  BY <1>9, <1>10

-----------------------------------------------------------------------------
(* A test begins and ends. *)
LEMMA Blank ==
  \A S : <<>> \in Partly(S) /\ DOMAIN <<>> = {}
<1>. SUFFICES ASSUME NEW S PROVE <<>> \in Partly(S) /\ DOMAIN <<>> = {}
  OBVIOUS
<1>1. {} \in Bounded
  BY BoundedSingle, BoundedSubset
<1>2. <<>> = [s \in {} |-> 0]
  OBVIOUS
<1>3. PICK g : g = [s \in {} |-> 0]
  OBVIOUS
<1>4. g \in [{} -> S] /\ DOMAIN g = {}
  BY <1>3
<1>5. g \in Partly(S)
  BY <1>1, <1>4, PartlyIs
<1>. QED  BY <1>2, <1>3, <1>4, <1>5

(* The bots have joined, and there is no command and no snapshot yet. *)
LEMMA InitializeKeeps ==
  ASSUME NEW f, Outside(f), f.revision # 0
  PROVE  LET g == InitializeTesting(f)
         IN  /\ Replayed(g, TRUE) /\ Fine(g) /\ Level(g.before) /\ g.before # NotStarted
             /\ g.snapshots = <<>> /\ g.commands = <<>> /\ g.revision = 0
<1>1. f \in Folders /\ f.world \in Worlds /\ f.commands \in Seq(Done) /\ f.revision \in Nat
  BY DEF Outside, Folders
<1>2. PICK save \in Saves : save = [world |-> f.world, commands |-> f.commands,
                                    revision |-> f.revision]
  BY <1>1 DEF Saves
<1>3. save.world = f.world /\ save.commands = f.commands /\ save.revision = f.revision
  BY <1>2
<1>4. PICK w \in Worlds : w = Append(f.world, Bots)
  <2>1. f.world \in Seq(Things) /\ Bots \in Things
    BY <1>1 DEF Worlds, Things
  <2>. QED  BY <2>1, AppendProperties DEF Worlds
<1>5. PICK g : g = [f EXCEPT !.before = save, !.world = w, !.commands = <<>>, !.revision = 0]
  OBVIOUS
<1>6. g = InitializeTesting(f)
  BY <1>2, <1>4, <1>5, Zenon DEF InitializeTesting
<1>7. /\ g \in Folders /\ g.before = save /\ g.world = w /\ g.commands = <<>> /\ g.revision = 0
      /\ g.failed = f.failed /\ g.entropies = f.entropies /\ g.snapshots = f.snapshots
      /\ g.step = f.step
  <2>1. <<>> \in Seq(Done) /\ 0 \in Nat
    OBVIOUS
  <2>. QED  BY <1>1, <1>5, <2>1 DEF Folders
<1>8. /\ g.snapshots = <<>> /\ g.step = 0 /\ DOMAIN g.snapshots = {} /\ Fine(g)
      /\ Len(g.commands) = 0
  BY <1>7, Blank DEF Outside, Fine
<1>9. Level(g.before) /\ g.before # NotStarted
  <2>1. save.revision # NotStarted.revision
    BY <1>3 DEF NotStarted
  <2>. QED  BY <1>7, <1>3, <2>1 DEF Outside, Level
<1>10. Right(g)
  <2>1. Played(g, 0, 0) = Append(g.before.world, Bots)
    BY <1>7, PlayedNothing
  <2>. QED  BY <1>4, <1>7, <1>8, <1>3, <2>1 DEF Right
<1>11. Sure(g) /\ DoneBy(g, 0, 0)
  BY <1>8 DEF Sure, Sorted, DoneBy
<1>12. Replayed(g, TRUE)
  BY <1>7, <1>8, <1>10, <1>11 DEF Replayed, Placed
<1>. QED  BY <1>6, <1>7, <1>8, <1>9, <1>12

(* A test begins, in either mode. *)
LEMMA BeginTest ==
  ASSUME NEW f, Outside(f), f.revision # 0, NEW mode \in {"RECORDING", "REPLAYING"}
  PROVE  LET g == Begin(f, mode)
         IN  Replayed(g, TRUE) /\ Level(g.before) /\ g.before # NotStarted
<1>1. PICK a : a = InitializeTesting(f)
  OBVIOUS
<1>2. /\ Replayed(a, TRUE) /\ Fine(a) /\ Level(a.before) /\ a.before # NotStarted
      /\ a.snapshots = <<>>
  BY <1>1, InitializeKeeps
<1>3. PICK b : b = [a EXCEPT !.mode = mode]
  OBVIOUS
<1>4. Replayed(b, TRUE) /\ SamePast(a, b) /\ b.failed = a.failed
  <2>1. Placed(a, TRUE) /\ mode \in {"PAUSED", "RECORDING", "REPLAYING"}
    BY <1>2 DEF Replayed
  <2>. QED  BY <1>2, <1>3, <2>1, ModeKeeps
<1>5. Fine(b) /\ b.before = a.before /\ DOMAIN b.snapshots = {}
  BY <1>2, <1>4, Blank DEF Fine, SamePast, SameTest
<1>6. PICK d : d = DiscardLater(b)
  OBVIOUS
<1>7. Replayed(d, TRUE /\ ~Suspicious(b, d)) /\ d.before = b.before
  BY <1>4, <1>5, <1>6, DiscardKeeps
<1>8. ~Suspicious(b, d)
  BY <1>5 DEF Suspicious
<1>9. (TRUE /\ ~Suspicious(b, d)) = TRUE
  BY <1>8
<1>10. Replayed(d, TRUE)
  BY <1>7, <1>9
<1>11. Begin(f, mode) = IF mode = "RECORDING" THEN d ELSE b
  BY <1>1, <1>3, <1>6, Zenon DEF Begin, Outside
<1>. QED  BY <1>2, <1>4, <1>5, <1>7, <1>10, <1>11

(* A test under way is recorded or replayed. *)
LEMMA BeginKeeps ==
  ASSUME NEW f, NEW clean, Replayed(f, clean), Fine(f), f.before # NotStarted,
         NEW mode \in {"RECORDING", "REPLAYING"}
  PROVE  LET g == Begin(f, mode)
         IN  /\ Replayed(g, clean /\ ~Suspicious(f, g)) /\ g.before = f.before
             /\ mode = "REPLAYING" => g = [f EXCEPT !.mode = mode]
<1>1. PICK b : b = [f EXCEPT !.mode = mode]
  OBVIOUS
<1>2. /\ Replayed(b, clean) /\ SamePast(f, b) /\ b.failed = f.failed
      /\ b.step = f.step /\ b.revision = f.revision
  <2>1. Placed(f, clean) /\ mode \in {"PAUSED", "RECORDING", "REPLAYING"}
    BY DEF Replayed
  <2>. QED  BY <1>1, <2>1, ModeKeeps
<1>3. /\ Fine(b) /\ b.before = f.before /\ b.snapshots = f.snapshots /\ b.commands = f.commands
  BY <1>2 DEF Fine, SamePast, SameTest
<1>4. PICK d : d = DiscardLater(b)
  OBVIOUS
<1>5. Replayed(d, clean /\ ~Suspicious(b, d)) /\ d.before = b.before
  BY <1>2, <1>3, <1>4, DiscardKeeps
<1>6. Suspicious(f, d) = Suspicious(b, d)
  BY <1>2, <1>3 DEF Suspicious
<1>7. Begin(f, mode) = IF mode = "RECORDING" THEN d ELSE b
  BY <1>1, <1>4, Zenon DEF Begin
<1>8. CASE mode = "RECORDING"
  BY <1>3, <1>5, <1>6, <1>7, <1>8
<1>9. CASE mode = "REPLAYING"
  <2>1. Begin(f, mode) = b
    BY <1>7, <1>9
  <2>2. Replayed(b, clean /\ ~Suspicious(f, b))
    BY <1>2 DEF Replayed, Placed
  <2>. QED  BY <1>1, <1>3, <1>9, <2>1, <2>2
<1>. QED  BY <1>8, <1>9

(* What was saved when the test started comes back. *)
LEMMA RestoreKeeps ==
  ASSUME NEW f \in Folders, Fine(f), Level(f.before)
  PROVE  Outside(RestoreSavedState(f))
<1>1. f.before \in Saves
  BY DEF Folders
<1>2. /\ f.before.world \in Worlds /\ f.before.commands \in Seq(Done)
      /\ f.before.revision \in Nat
  BY <1>1 DEF Saves
<1>3. NotStarted \in Saves
  <2>1. <<"not_started">> \in Worlds /\ <<>> \in Seq(Done) /\ 0 \in Nat
    BY DEF Worlds, Things
  <2>. QED  BY <2>1 DEF NotStarted, Saves
<1>4. <<>> \in Partly(Things) /\ <<>> \in Partly(Taken)
  BY Blank
<1>5. PICK g : g = RestoreSavedState(f)
  OBVIOUS
<1>6. /\ g \in Folders /\ g.before = NotStarted /\ g.failed = f.failed
      /\ g.commands = f.before.commands /\ g.revision = f.before.revision
      /\ g.world = f.before.world /\ g.entropies = <<>> /\ g.snapshots = <<>>
      /\ g.step = 0 /\ g.mode = "PAUSED"
  BY <1>2, <1>3, <1>4, <1>5 DEF RestoreSavedState, Folders
<1>7. Level(g)
  BY <1>6 DEF Level
<1>8. Fine(g)
  BY <1>6 DEF Fine
<1>. QED  BY <1>5, <1>6, <1>7, <1>8 DEF Outside

(* Applying the edits anew is a fold that the lemmas are about. *)
LEMMA AppliedFold ==
  ASSUME NEW base, NEW seq
  PROVE  FoldLeft(Reapply, base, seq) = Applied!Fold(base, seq)
BY DEF Applied!Fold, Applied!FoldLeft, Applied!MapThenFoldSet, Applied!Max, FoldLeft,
       MapThenFoldSet, Max

(* After a test there is none, whether edits are applied anew or not. *)
LEMMA FinishKeeps ==
  ASSUME NEW f \in Folders, Fine(f), f.revision <= Len(f.commands), Level(f.before),
         NEW reapply \in BOOLEAN
  PROVE  Outside(FinishTesting(f, reapply))
<1>1. Outside(RestoreSavedState(f))
  BY RestoreKeeps
<1>2. CASE ~reapply
  BY <1>1, <1>2 DEF FinishTesting
<1>3. CASE reapply
  <2>1. PICK start : start = DiscardLater(RestoreSavedState(f))
    OBVIOUS
  <2>2. PICK C \in Seq(Done) : C = SubSeq(f.commands, 1, f.revision)
    BY FirstCommands
  <2>3. PICK T : T = {g \in Folders : Outside(g)}
    OBVIOUS
  <2>4. start \in T
    <3>1. Outside(start)
      BY <1>1, <2>1, OutsideDiscard
    <3>. QED  BY <2>3, <3>1 DEF Outside
  <2>5. ASSUME NEW g \in T, NEW c \in Done PROVE Reapply(g, c) \in T
    <3>1. Outside(g) /\ g \in Folders /\ c.edit \in Edits
      BY <2>3 DEF Done
    <3>2. Outside(ExecuteNow(g, c.edit))
      BY <3>1, OutsideExecute
    <3>3. Outside(Reapply(g, c))
      BY <3>1, <3>2 DEF Reapply
    <3>4. Reapply(g, c) \in Folders
      BY <3>3 DEF Outside
    <3>. QED  BY <2>3, <3>3, <3>4
  <2>6. Applied!Fold(start, C) \in T
    BY <2>4, <2>5, Applied!FoldClosed
  <2>7. FinishTesting(f, reapply) = Applied!Fold(start, C)
    BY <1>3, <2>1, <2>2, AppliedFold DEF FinishTesting
  <2>. QED  BY <2>3, <2>6, <2>7
<1>. QED  BY <1>2, <1>3

-----------------------------------------------------------------------------
(* The invariant. *)

(* Of a test that is not suspect everything is known, of a suspect one     *)
(* that its parts fit together, and outside of tests that none is left.    *)
Held(f, doubtful) ==
  IF f.before # NotStarted THEN Replayed(f, ~doubtful) /\ Level(f.before)
                           ELSE Outside(f) /\ ~doubtful

PlaytestInvariant == suspect \in BOOLEAN /\ Held(folder, suspect)

(* At first there is no test and no command. *)
LEMMA PlaytestStarts ==
  PlaytestInit => PlaytestInvariant
<1>. SUFFICES ASSUME PlaytestInit PROVE PlaytestInvariant
  OBVIOUS
<1>1. PICK f : f = folder
  OBVIOUS
<1>2. f = [world |-> <<>>, commands |-> <<>>, revision |-> 0, mode |-> "PAUSED",
           step |-> 0, entropies |-> <<>>, snapshots |-> <<>>,
           before |-> NotStarted, failed |-> "nothing"]
  BY <1>1 DEF PlaytestInit
<1>3. NotStarted \in Saves
  <2>1. <<"not_started">> \in Worlds /\ <<>> \in Seq(Done) /\ 0 \in Nat
    BY DEF Worlds, Things
  <2>. QED  BY <2>1 DEF NotStarted, Saves
<1>4. <<>> \in Partly(Things) /\ <<>> \in Partly(Taken) /\ <<>> \in Worlds /\ <<>> \in Seq(Done)
  BY Blank DEF Worlds
<1>5. f \in Folders
  BY <1>2, <1>3, <1>4 DEF Folders, Failures
<1>6. /\ f.world = <<>> /\ f.commands = <<>> /\ f.revision = 0 /\ f.mode = "PAUSED"
      /\ f.step = 0 /\ f.entropies = <<>> /\ f.snapshots = <<>>
      /\ f.before = NotStarted /\ f.failed = "nothing"
  BY <1>2
<1>7. Level(f)
  <2>1. Stack(<<>>, 0) = <<>> /\ Len(<<>>) = 0
    BY DEF Stack
  <2>. QED  BY <1>6, <2>1 DEF Level
<1>8. Outside(f)
  BY <1>5, <1>6, <1>7 DEF Outside, Fine
<1>. QED  BY <1>1, <1>6, <1>8 DEF PlaytestInvariant, Held, PlaytestInit

(* A step leaves a test as it should be, or no test. *)
LEMMA TestGoesOn ==
  ASSUME PlaytestInvariant, Testing, NEW g, Becomes(g), g.before = folder.before,
         Replayed(g, ~suspect /\ ~Suspicious(folder, g))
  PROVE  PlaytestInvariant'
<1>1. /\ folder' = g /\ suspect \in BOOLEAN /\ Level(g.before) /\ g.before # NotStarted
      /\ suspect' = (suspect \/ Suspicious(folder, g))
  BY DEF Becomes, PlaytestInvariant, Held, Testing
<1>2. Suspicious(folder, g) \in BOOLEAN
  BY DEF Suspicious
<1>3. PICK clean : clean = (~suspect /\ ~Suspicious(folder, g))
  OBVIOUS
<1>4. clean = ~suspect' /\ suspect' \in BOOLEAN
  BY <1>1, <1>2, <1>3
<1>5. Replayed(g, ~suspect')
  BY <1>3, <1>4
<1>. QED  BY <1>1, <1>4, <1>5 DEF PlaytestInvariant, Held

(* A step that leaves the commands alone makes no test suspect. *)
LEMMA SameTestGoesOn ==
  ASSUME PlaytestInvariant, Testing, NEW g, Becomes(g), SameTest(folder, g), Replayed(g, ~suspect)
  PROVE  PlaytestInvariant'
<1>1. ~Suspicious(folder, g) /\ g.before = folder.before /\ suspect \in BOOLEAN
  BY DEF Suspicious, SameTest, PlaytestInvariant
<1>2. (~suspect /\ ~Suspicious(folder, g)) = ~suspect
  BY <1>1
<1>3. Replayed(g, ~suspect /\ ~Suspicious(folder, g))
  BY <1>2
<1>. QED  BY <1>1, <1>3, TestGoesOn

(* A step that leaves no test. *)
LEMMA NoTestAfter ==
  ASSUME NEW g, Becomes(g), Outside(g)
  PROVE  PlaytestInvariant'
<1>1. folder' = g /\ suspect' = FALSE /\ g.before = NotStarted
  BY DEF Becomes, Outside
<1>. QED  BY <1>1 DEF PlaytestInvariant, Held

(* What a folder that a step starts at is. *)
LEMMA TestBefore ==
  ASSUME PlaytestInvariant, Testing, Fine(folder)
  PROVE  /\ folder.before # NotStarted /\ Replayed(folder, ~suspect) /\ Placed(folder, ~suspect)
         /\ folder \in Folders /\ Level(folder.before) /\ suspect \in BOOLEAN
         /\ folder.step \in Nat /\ folder.revision <= Len(folder.commands)
BY DEF PlaytestInvariant, Held, Testing, Replayed, Placed, Folders

(* What a folder without a test is. *)
LEMMA NoTestBefore ==
  ASSUME PlaytestInvariant, ~Testing
  PROVE  Outside(folder) /\ suspect = FALSE
BY DEF PlaytestInvariant, Held, Testing

(* A command of the author. *)
LEMMA ExecuteHolds ==
  ASSUME PlaytestInvariant, NEW edit \in Edits, Execute(edit)
  PROVE  PlaytestInvariant'
<1>1. PICK g : g = ExecuteNow(folder, edit) /\ Becomes(g) /\ Fine(folder)
  BY DEF Execute, Becomes
<1>2. CASE Testing
  <2>1. PICK clean : clean = ~suspect
    OBVIOUS
  <2>2. Replayed(g, clean /\ ~Suspicious(folder, g)) /\ g.before = folder.before
    BY <1>1, <1>2, <2>1, TestBefore, ExecuteKeeps
  <2>. QED  BY <1>1, <1>2, <2>1, <2>2, TestGoesOn
<1>3. CASE ~Testing
  <2>1. Outside(g)
    BY <1>1, <1>3, NoTestBefore, OutsideExecute
  <2>. QED  BY <1>1, <2>1, NoTestAfter
<1>. QED  BY <1>2, <1>3

(* An undo, a redo or a click on a revision. *)
LEMMA JumpHolds ==
  ASSUME PlaytestInvariant, NEW target, JumpToRevision(target)
  PROVE  PlaytestInvariant'
<1>1. PICK g : g = SeekThroughTime(folder, target) /\ Becomes(g) /\ Fine(folder)
  BY DEF JumpToRevision, Becomes
<1>2. target \in 0..Len(folder.commands)
  BY DEF JumpToRevision
<1>3. CASE Testing
  <2>1. Replayed(g, ~suspect) /\ SameTest(folder, g)
    BY <1>1, <1>2, <1>3, TestBefore, SeekThroughTimeKeeps
  <2>. QED  BY <1>1, <1>3, <2>1, SameTestGoesOn
<1>4. CASE ~Testing
  <2>1. Outside(g)
    BY <1>1, <1>2, <1>4, NoTestBefore, OutsideJump
  <2>. QED  BY <1>1, <2>1, NoTestAfter
<1>. QED  BY <1>3, <1>4

(* Recording or replaying begins. *)
LEMMA BeginHolds ==
  ASSUME PlaytestInvariant, NEW mode \in {"RECORDING", "REPLAYING"}, BeginMode(mode)
  PROVE  PlaytestInvariant'
<1>1. PICK g : g = Begin(folder, mode) /\ Becomes(g) /\ Fine(folder)
  BY DEF BeginMode, Becomes
<1>2. CASE Testing
  <2>1. Replayed(g, ~suspect /\ ~Suspicious(folder, g)) /\ g.before = folder.before
    BY <1>1, <1>2, TestBefore, BeginKeeps
  <2>. QED  BY <1>1, <1>2, <2>1, TestGoesOn
<1>3. CASE ~Testing
  <2>1. Outside(folder) /\ suspect = FALSE
    BY <1>3, NoTestBefore
  <2>2. folder.revision # 0
    BY <1>3 DEF BeginMode
  <2>3. Replayed(g, TRUE) /\ Level(g.before) /\ g.before # NotStarted
    BY <1>1, <2>1, <2>2, BeginTest
  <2>4. ~Suspicious(folder, g)
    BY <2>1, Blank DEF Suspicious, Outside
  <2>5. folder' = g /\ suspect' = FALSE
    BY <1>1, <2>1, <2>3, <2>4 DEF Becomes
  <2>6. Replayed(g, ~suspect')
    <3>1. (~suspect') = TRUE
      BY <2>5
    <3>. QED  BY <2>3, <3>1
  <2>. QED  BY <2>3, <2>5, <2>6 DEF PlaytestInvariant, Held
<1>. QED  BY <1>2, <1>3

(* Only a test can be paused. *)
LEMMA PauseHolds ==
  ASSUME PlaytestInvariant, Pause
  PROVE  PlaytestInvariant'
<1>1. PICK g : g = [folder EXCEPT !.mode = "PAUSED"] /\ Becomes(g) /\ Fine(folder)
  BY DEF Pause, Becomes
<1>2. Testing
  BY NoTestBefore DEF Pause, Outside
<1>3. Replayed(folder, ~suspect) /\ Placed(folder, ~suspect)
  BY <1>1, <1>2, TestBefore
<1>4. Replayed(g, ~suspect) /\ SamePast(folder, g)
  BY <1>1, <1>3, ModeKeeps
<1>. QED  BY <1>1, <1>2, <1>4, SameTestGoesOn DEF SamePast

(* What is given to a step. *)
LEMMA Given ==
  ASSUME NEW input \in Inputs \cup {NoInput}, NEW overwrite \in Overwrites
  PROVE  input \in Things /\ overwrite \in BOOLEAN /\ Interval \in Nat
BY PlaytestAssumption DEF Things

(* A step of a test. *)
LEMMA AdvanceHolds ==
  ASSUME PlaytestInvariant, NEW input \in Inputs \cup {NoInput}, NEW overwrite \in Overwrites,
         Advance(input, overwrite)
  PROVE  PlaytestInvariant'
<1>1. PICK g : /\ g = AdvanceSingleStep(folder, input, overwrite, Interval)
               /\ Becomes(g) /\ Fine(folder) /\ Testing
  BY DEF Advance, Becomes
<1>2. Replayed(g, ~suspect) /\ SameTest(folder, g)
  BY <1>1, TestBefore, Given, AdvanceKeeps DEF Onward
<1>. QED  BY <1>1, <1>2, SameTestGoesOn

(* The slider and the Rewind button. *)
LEMMA SlideHolds ==
  ASSUME PlaytestInvariant, NEW target \in Nat, SlideTo(target)
  PROVE  PlaytestInvariant'
<1>1. PICK f : f = IF folder.mode = "RECORDING" THEN Begin(folder, "REPLAYING") ELSE folder
  OBVIOUS
<1>2. PICK g : g = SeekTrimmed(f, target, TRUE) /\ Becomes(g) /\ Fine(folder) /\ Testing
  BY <1>1 DEF SlideTo, Becomes
<1>3. Replayed(folder, ~suspect) /\ folder.before # NotStarted /\ Placed(folder, ~suspect)
  BY <1>2, TestBefore
<1>4. Replayed(f, ~suspect) /\ SameTest(folder, f)
  <2>1. CASE folder.mode = "RECORDING"
    <3>1. f = [folder EXCEPT !.mode = "REPLAYING"]
      BY <1>1, <1>2, <1>3, <2>1, BeginKeeps
    <3>. QED  BY <1>3, <3>1, ModeKeeps DEF SamePast
  <2>2. CASE folder.mode # "RECORDING"
    BY <1>1, <1>3, <2>2 DEF SameTest
  <2>. QED  BY <2>1, <2>2
<1>5. Replayed(g, ~suspect) /\ SameTest(f, g)
  BY <1>2, <1>4, SeekTrimmedKeeps DEF Onward
<1>6. SameTest(folder, g)
  BY <1>4, <1>5 DEF SameTest
<1>. QED  BY <1>2, <1>5, <1>6, SameTestGoesOn

(* The keys. *)
LEMMA SeekBackwardHolds ==
  ASSUME PlaytestInvariant, NEW offset \in Nat, NEW overwrite \in Overwrites,
         SeekBackward(offset, overwrite)
  PROVE  PlaytestInvariant'
<1>1. PICK target : target = IF folder.step >= offset THEN folder.step - offset ELSE 0
  OBVIOUS
<1>2. PICK g : g = Seek(folder, target, overwrite, Interval) /\ Becomes(g) /\ Fine(folder) /\ Testing
  BY <1>1 DEF SeekBackward, Becomes
<1>3. Replayed(folder, ~suspect) /\ Placed(folder, ~suspect) /\ folder.step \in Nat
  BY <1>2, TestBefore
<1>4. target \in Nat
  BY <1>1, <1>3
<1>5. overwrite \in BOOLEAN /\ Interval \in Nat
  BY PlaytestAssumption
<1>6. Sought(folder, g, target, ~suspect)
  BY <1>2, <1>3, <1>4, <1>5, SeekReaches
<1>. QED  BY <1>2, <1>6, SameTestGoesOn DEF Sought, Onward

(* The end of a test. *)
LEMMA FinishHolds ==
  ASSUME PlaytestInvariant, NEW reapply \in BOOLEAN, Finish(reapply)
  PROVE  PlaytestInvariant'
<1>1. PICK g : g = FinishTesting(folder, reapply) /\ Becomes(g) /\ Fine(folder) /\ Testing
  BY DEF Finish, Becomes
<1>2. Outside(g)
  BY <1>1, TestBefore, FinishKeeps
<1>. QED  BY <1>1, <1>2, NoTestAfter

(* The program starts again. *)
LEMMA ReopenHolds ==
  ASSUME PlaytestInvariant, Reopen
  PROVE  PlaytestInvariant'
<1>1. PICK g : g = Reload(folder) /\ Becomes(g) /\ Fine(folder) /\ Testing /\ folder.step > 0
  BY DEF Reopen, Becomes
<1>2. Placed(folder, ~suspect) /\ folder.before # NotStarted /\ folder.step # 0
  BY <1>1, TestBefore
<1>3. Replayed(g, ~suspect) /\ SameTest(folder, g)
  BY <1>1, <1>2, ReloadKeeps
<1>. QED  BY <1>1, <1>3, SameTestGoesOn

(* The world of an assertion that fails in the middle of a step.           *)
LEMMA HalfPlaced ==
  ASSUME NEW f, NEW clean, Placed(f, clean), Fine(f)
  PROVE  LET g == [f EXCEPT !.mode = "PAUSED", !.world = Append(@, Half)]
         IN  Placed(g, clean) /\ SamePast(f, g) /\ Fine(g) /\ g.step = f.step
<1>1. f \in Folders
  BY DEF Placed
<1>2. PICK w \in Worlds : w = Append(f.world, Half)
  <2>1. f.world \in Seq(Things) /\ Half \in Things
    BY <1>1 DEF Folders, Worlds, Things
  <2>. QED  BY <2>1, AppendProperties DEF Worlds
<1>3. PICK g : g = [f EXCEPT !.mode = "PAUSED", !.world = w]
  OBVIOUS
<1>4. g = [f EXCEPT !.mode = "PAUSED", !.world = Append(@, Half)]
  BY <1>1, <1>2, <1>3 DEF Folders
<1>5. /\ g \in Folders /\ SamePast(f, g) /\ g.failed = f.failed
      /\ g.step = f.step /\ g.revision = f.revision
  BY <1>1, <1>3 DEF Folders, SamePast, SameTest
<1>6. Fine(g)
  BY <1>5 DEF Fine
<1>7. clean => Sure(g) /\ DoneBy(g, g.revision, g.step)
  <2>1. clean => Sure(g)
    BY <1>5, SureAlike DEF Placed
  <2>. QED  BY <1>5, <2>1 DEF Placed, DoneBy, SamePast, SameTest
<1>8. Placed(g, clean)
  BY <1>5, <1>7 DEF Placed, SamePast, SameTest
<1>. QED  BY <1>4, <1>5, <1>6, <1>8

(* An assertion fails in a step: in the first one the test is suspect. *)
LEMMA CrashHolds ==
  ASSUME PlaytestInvariant, NEW input \in Inputs \cup {NoInput}, NEW overwrite \in Overwrites,
         CrashInStep(input, overwrite)
  PROVE  PlaytestInvariant'
<1>1. PICK ready : ready = PrepareStep(folder, input, overwrite, Interval)
  OBVIOUS
<1>2. PICK saved : saved = [ready EXCEPT !.mode = "PAUSED", !.world = Append(@, Half)]
  OBVIOUS
<1>3. /\ Testing /\ Fine(folder) /\ Fine(ready) /\ folder' = Reload(saved)
      /\ suspect' = (suspect \/ folder.step = 0)
  BY <1>1, <1>2 DEF CrashInStep
<1>4. /\ folder.before # NotStarted /\ Replayed(folder, ~suspect) /\ Level(folder.before)
      /\ suspect \in BOOLEAN
  BY <1>3, TestBefore
<1>5. Placed(ready, ~suspect) /\ SameTest(folder, ready) /\ ready.step = folder.step
  <2>1. PICK clean : clean = ~suspect
    OBVIOUS
  <2>2. Replayed(folder, clean) /\ Fine(folder) /\ input \in Things /\ overwrite \in BOOLEAN
        /\ Interval \in Nat
    BY <1>3, <1>4, <2>1, Given
  <2>3. Onward(folder, ready, clean) /\ ready.step = folder.step
    BY <1>1, <2>2, PrepareKeeps
  <2>. QED  BY <2>1, <2>3 DEF Onward, Replayed
<1>6. /\ Placed(saved, ~suspect) /\ SameTest(ready, saved) /\ Fine(saved)
      /\ saved.step = folder.step
  BY <1>2, <1>3, <1>5, HalfPlaced DEF SamePast
<1>7. saved.before = folder.before
  BY <1>5, <1>6 DEF SameTest
<1>8. CASE folder.step # 0
  <2>1. PICK g : g = Reload(saved)
    OBVIOUS
  <2>2. Replayed(g, ~suspect) /\ SameTest(saved, g)
    BY <1>4, <1>6, <1>7, <1>8, <2>1, ReloadKeeps
  <2>3. g.before = folder.before
    BY <1>7, <2>2 DEF SameTest
  <2>4. folder' = g /\ suspect' = suspect
    BY <1>3, <1>4, <1>8, <2>1
  <2>. QED  BY <1>4, <2>2, <2>3, <2>4 DEF PlaytestInvariant, Held
<1>9. CASE folder.step = 0
  <2>1. folder' = saved /\ suspect' = TRUE
    BY <1>3, <1>6, <1>9 DEF Reload
  <2>2. Replayed(saved, FALSE)
    BY <1>6 DEF Replayed, Placed
  <2>3. (~suspect') = FALSE
    BY <2>1
  <2>4. Replayed(saved, ~suspect')
    BY <2>2, <2>3
  <2>. QED  BY <1>4, <1>7, <2>1, <2>4 DEF PlaytestInvariant, Held
<1>. QED  BY <1>8, <1>9

(* Every step keeps the invariant. *)
LEMMA PlaytestStep ==
  PlaytestInvariant /\ [PlaytestNext]_playtest_vars => PlaytestInvariant'
<1>. SUFFICES ASSUME PlaytestInvariant, [PlaytestNext]_playtest_vars PROVE PlaytestInvariant'
  OBVIOUS
<1>1. ASSUME NEW edit \in Edits, Execute(edit) PROVE PlaytestInvariant'
  BY <1>1, ExecuteHolds
<1>2. ASSUME NEW target \in 0..MaxTestCommands, JumpToRevision(target) PROVE PlaytestInvariant'
  BY <1>2, JumpHolds
<1>3. ASSUME NEW mode \in {"RECORDING", "REPLAYING"}, BeginMode(mode) PROVE PlaytestInvariant'
  BY <1>3, BeginHolds
<1>4. CASE Pause
  BY <1>4, PauseHolds
<1>5. ASSUME NEW input \in Inputs \cup {NoInput}, NEW overwrite \in Overwrites,
             Advance(input, overwrite)
      PROVE  PlaytestInvariant'
  BY <1>5, AdvanceHolds
<1>6. ASSUME NEW input \in Inputs \cup {NoInput}, NEW overwrite \in Overwrites,
             CrashInStep(input, overwrite)
      PROVE  PlaytestInvariant'
  BY <1>6, CrashHolds
<1>7. ASSUME NEW target \in 0..MaxSteps, SlideTo(target) PROVE PlaytestInvariant'
  BY <1>7, SlideHolds
<1>8. ASSUME NEW offset \in 1..MaxSteps, NEW overwrite \in Overwrites,
             SeekBackward(offset, overwrite)
      PROVE  PlaytestInvariant'
  BY <1>8, SeekBackwardHolds
<1>9. ASSUME NEW reapply \in BOOLEAN, Finish(reapply) PROVE PlaytestInvariant'
  BY <1>9, FinishHolds
<1>10. CASE Reopen
  BY <1>10, ReopenHolds
<1>11. CASE UNCHANGED playtest_vars
  BY <1>11 DEF playtest_vars, PlaytestInvariant
<1>. QED
  BY <1>1, <1>2, <1>3, <1>4, <1>5, <1>6, <1>7, <1>8, <1>9, <1>10, <1>11 DEF PlaytestNext

(* The folder of the editor is one with a test in which all that the       *)
(* player says of the past and of the steps ahead is true unless the test  *)
(* is suspect, or one in which nothing of a test is left.                  *)
THEOREM PlaytestInvariantHolds == PlaytestSpec => []PlaytestInvariant
<1>. QED  BY PlaytestStarts, PlaytestStep, PTL DEF PlaytestSpec

(* However a step of a test is reached, by playing, seeking, undoing,      *)
(* redoing or reopening after a crash (editor_player.hpp, editor_history), *)
(* the world is the one that playing from the start would give; and        *)
(* outside of tests it is what the history says.                           *)
THEOREM WorldAlwaysReplay == PlaytestSpec => []WorldIsReplay
<1>1. PlaytestInvariant => WorldIsReplay
  <2>. SUFFICES ASSUME PlaytestInvariant PROVE WorldIsReplay
    OBVIOUS
  <2>1. ASSUME Testing, ~suspect, Fine(folder)
        PROVE  folder.world = Played(folder, folder.step, folder.revision)
    BY <2>1 DEF PlaytestInvariant, Held, Testing, Replayed, Right
  <2>2. ASSUME ~Testing
        PROVE  folder.world = Edited(SubSeq(folder.commands, 1, folder.revision))
    <3>1. Outside(folder)
      BY <2>2, NoTestBefore
    <3>2. folder.commands \in Seq(Done) /\ folder.revision \in Nat
      BY <3>1 DEF Outside, Folders
    <3>. QED  BY <3>1, <3>2, EditedIs DEF Outside, Level
  <2>. QED  BY <2>1, <2>2 DEF WorldIsReplay
<1>. QED  BY <1>1, PlaytestInvariantHolds, PTL

(* The commands done in a test happened by its step, the ones that can be  *)
(* redone happen from then on: the assertion at the head of a step         *)
(* (editor_player.hpp, ensure_leq(current_step, when_happened)) holds.     *)
THEOREM CommandsAlwaysInOrder == PlaytestSpec => []CommandsInOrder
<1>1. PlaytestInvariant => CommandsInOrder
  <2>. SUFFICES ASSUME PlaytestInvariant, Testing, ~suspect,
                       NEW i \in DOMAIN folder.commands
                PROVE  IF i <= folder.revision THEN folder.commands[i].when <= folder.step
                                               ELSE folder.commands[i].when >= folder.step
    BY DEF CommandsInOrder
  <2>1. folder \in Folders /\ DoneBy(folder, folder.revision, folder.step)
    BY DEF PlaytestInvariant, Held, Testing, Replayed, Placed
  <2>2. i \in 1..Len(folder.commands)
    BY <2>1, Commanded
  <2>. QED  BY <2>1, <2>2 DEF DoneBy
<1>. QED  BY <1>1, PlaytestInvariantHolds, PTL

(* A folder reopened during a test is at the step and at the revision that *)
(* it was left at, unless a snapshot of this step holds later commands     *)
(* (editor_folder.cpp and editor_player.cpp, seeking anew after a load).   *)
THEOREM AlwaysReopensInPlace == PlaytestSpec => ReopensInPlace
<1>1. PlaytestInvariant /\ [PlaytestNext]_playtest_vars =>
        [Reopen /\ ~suspect /\ ~SnapshotAhead /\ Fine(folder)' =>
           folder'.step = folder.step /\ folder'.revision = folder.revision]_playtest_vars
  <2>. SUFFICES ASSUME PlaytestInvariant, Reopen, ~suspect, ~SnapshotAhead, Fine(folder')
                PROVE  folder'.step = folder.step /\ folder'.revision = folder.revision
    OBVIOUS
  <2>1. /\ folder' = Reload(folder) /\ Fine(folder) /\ Testing /\ folder.step > 0
    BY DEF Reopen, Becomes
  <2>2. PICK clean : clean = (~suspect) /\ clean = TRUE
    OBVIOUS
  <2>3. Placed(folder, clean) /\ folder.before # NotStarted /\ folder.step # 0
    BY <2>1, <2>2, TestBefore
  <2>4. ~(folder.step \in DOMAIN folder.snapshots
          /\ folder.snapshots[folder.step].revision > folder.revision)
    BY DEF SnapshotAhead
  <2>5. PICK g : g = Reload(folder)
    OBVIOUS
  <2>6. Fine(g) => g.revision = folder.revision /\ (clean => g.step = folder.step)
    BY <2>1, <2>3, <2>4, <2>5, ReloadKeeps
  <2>. QED  BY <2>1, <2>2, <2>5, <2>6
<1>. QED  BY <1>1, PlaytestInvariantHolds, PTL DEF PlaytestSpec, ReopensInPlace
=============================================================================
