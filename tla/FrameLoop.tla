------------------------------ MODULE FrameLoop ------------------------------
(***************************************************************************)
(* The threads of the client (work.cpp): the game thread prepares a frame  *)
(* and posts its jobs to the thread pool; the main thread draws the        *)
(* previous frame, helps with the jobs and swaps the two frame buffers     *)
(* (game_frame_buffer.h); the audio thread performs the commands of one    *)
(* job per frame (audio_command_buffers.h) and helps as well.              *)
(***************************************************************************)
EXTENDS ThreadPool

CONSTANTS
  Game, Main, Audio,
  NumAudioBuffers,  \* num_audio_buffers_v
  Resizes,          \* may the number of workers be changed in the settings
  EarlySignal       \* may a signal arrive before the first frame is posted

ASSUME FrameAssumption ==
  /\ Callers = {Game, Main, Audio}
  /\ Cardinality(Callers) = 3
  /\ NumAudioBuffers \in Nat \ {0, 1}
  /\ {Resizes, EarlySignal} \subseteq BOOLEAN

VARIABLES
  signal,               \* signal_status
  should_quit,          \* the game thread's copy
  quit_flag,            \* should_quit of each frame buffer
  read_buffer,
  already_waiting, swap_complete,
  read_index, write_index, audio_quit,
  audio_owner           \* who holds the audio queue's mutex across steps

swapper_vars == <<quit_flag, read_buffer, already_waiting, swap_complete>>
audio_vars   == <<read_index, write_index, audio_quit, audio_owner>>
vars == <<pool_vars, pc, signal, should_quit, swapper_vars, audio_vars>>

write_buffer == 3 - read_buffer

Init ==
  /\ PoolInit
  /\ pc = [t \in Threads |-> IF t = Game THEN "begin"
                             ELSE IF t = Main THEN "rendering"
                             ELSE IF t = Audio THEN "awaiting_commands"
                             ELSE "checking"]
  /\ signal = FALSE
  /\ should_quit = FALSE
  /\ quit_flag = [b \in {1, 2} |-> FALSE]
  /\ read_buffer = 1
  /\ already_waiting = FALSE
  /\ swap_complete = FALSE
  /\ read_index = 0
  /\ write_index = 0
  /\ audio_quit = FALSE
  /\ audio_owner = Nobody

-----------------------------------------------------------------------------
(* The queue between the audio job and the audio thread. *)
AudioFree    == audio_owner = Nobody

NextTo(i)    == (i + 1) % NumAudioBuffers
AudioIsFull  == NextTo(write_index) = read_index
AudioHasWork == read_index # write_index

MapsWriteBuffer == ~AudioIsFull

(* submit_write_buffer(): an empty buffer is not passed on. *)
SubmitWriteBuffer ==
  /\ AudioFree
  /\ write_index' \in {write_index, NextTo(write_index)}
  /\ UNCHANGED <<read_index, audio_quit, audio_owner>>

(* The body of a task, for the part the threads share. *)
Run(t) ==
  /\ At(t, "running")
  /\ \/ task[t] = "audio_job" /\ SubmitWriteBuffer
     \/ task[t] = "job" /\ UNCHANGED audio_vars
  /\ Go(t, "registering")
  /\ UNCHANGED <<pool_vars, signal, should_quit, swapper_vars>>

AudioTakes ==
  /\ At(Audio, "awaiting_commands")
  /\ AudioFree
  /\ \/ AudioHasWork /\ Go(Audio, "performing")
     \/ ~AudioHasWork /\ audio_quit /\ Go(Audio, "quit")
  /\ UNCHANGED <<pool_vars, signal, should_quit, swapper_vars, audio_vars>>

(* report_completion() helps the pool while it holds the mutex. *)
AudioReports ==
  /\ At(Audio, "performing")
  /\ AudioFree
  /\ read_index' = NextTo(read_index)
  /\ \/ /\ read_index' = write_index
        /\ audio_owner' = Audio
        /\ Go(Audio, "helping")
     \/ /\ read_index' # write_index
        /\ Go(Audio, "awaiting_commands")
        /\ UNCHANGED audio_owner
  /\ UNCHANGED <<pool_vars, signal, should_quit, swapper_vars, write_index, audio_quit>>

AudioHelped ==
  /\ HelpEnds(Audio, "awaiting_commands")
  /\ audio_owner' = Nobody
  /\ UNCHANGED <<signal, should_quit, swapper_vars, read_index, write_index, audio_quit>>

-----------------------------------------------------------------------------
(* The game thread: prepare_next_game_frame() and finalize_frame_and_swap(). *)
others == <<signal, should_quit, swapper_vars, audio_vars>>

BeginFrame ==
  /\ At(Game, "begin")
  /\ \/ Go(Game, "flow") /\ UNCHANGED pool_vars
     \/ Resizes /\ workers # {} /\ QuitStore(Game, "quitting")
     \/ Resizes /\ workers = {} /\ Go(Game, "joining") /\ UNCHANGED pool_vars
  /\ UNCHANGED others

ResizeNotifies ==
  /\ At(Game, "quitting")
  /\ QuitNotify(Game, "joining")
  /\ UNCHANGED others

ResizeJoins ==
  /\ At(Game, "joining")
  /\ \E hired \in SUBSET Workers :
       /\ Cardinality(hired) # Cardinality(workers)
       /\ JoinAndHire(Game, hired, "flow")
  /\ UNCHANGED others

RequestQuit ==
  /\ should_quit' = TRUE
  /\ quit_flag' = [quit_flag EXCEPT ![write_buffer] = TRUE]

(* A signal ends the frame before anything is posted. *)
SignalEndsFrame ==
  /\ At(Game, "flow")
  /\ signal
  /\ RequestQuit
  /\ Go(Game, "swap")
  /\ UNCHANGED <<pool_vars, signal, read_buffer, already_waiting, swap_complete, audio_vars>>

(* Input may ask to quit; loading may wait for the audio to finish(). *)
Prepare ==
  /\ At(Game, "flow")
  /\ ~signal
  /\ RequestQuit \/ UNCHANGED <<should_quit, quit_flag>>
  /\ Go(Game, "mapping") \/ Go(Game, "finishing_audio")
  /\ UNCHANGED <<pool_vars, signal, read_buffer, already_waiting, swap_complete, audio_vars>>

FinishAudio ==
  /\ At(Game, "finishing_audio")
  /\ AudioFree
  /\ ~AudioHasWork
  /\ Go(Game, "mapping")
  /\ UNCHANGED <<pool_vars, others>>

(* One job stands for those enqueued before the audio job and one for      *)
(* those after it. With no write buffer there is no audio job.             *)
EnqueueJobs ==
  /\ At(Game, "mapping")
  /\ AudioFree
  /\ \/ Enqueue(<<"job", "job">>)
     \/ MapsWriteBuffer /\ Enqueue(<<"job", "audio_job", "job">>)
  /\ Go(Game, "submitting")
  /\ UNCHANGED <<workers, tasks, tasks_posted, tasks_completed, shall_quit,
                 queue_owner, task, others>>

SubmitJobs ==
  /\ At(Game, "submitting")
  /\ Submit(Game, "notifying")
  /\ UNCHANGED others

NotifyJobs ==
  /\ At(Game, "notifying")
  /\ NotifySubmission(Game, "helping")
  /\ UNCHANGED others

GameHelped ==
  /\ HelpEnds(Game, "awaiting_completion")
  /\ UNCHANGED others

(* A slip: the frame is over once the stack is empty. *)
DoesNotAwait ==
  /\ At(Game, "awaiting_completion")
  /\ Go(Game, "swap")
  /\ UNCHANGED <<pool_vars, others>>

AwaitCompletion ==
  /\ At(Game, "awaiting_completion")
  /\ AllComplete
  /\ Go(Game, "swap")
  /\ UNCHANGED <<pool_vars, others>>

(* wait_swap() announces that the game thread is waiting. *)
AnnounceWait ==
  /\ At(Game, "swap")
  /\ swap_complete' = FALSE
  /\ already_waiting' = TRUE
  /\ Go(Game, "awaiting_swap")
  /\ UNCHANGED <<pool_vars, signal, should_quit, quit_flag, read_buffer, audio_vars>>

SwapAwaited ==
  /\ At(Game, "awaiting_swap")
  /\ swap_complete
  /\ Go(Game, IF should_quit THEN "quit" ELSE "begin")
  /\ UNCHANGED <<pool_vars, others>>

-----------------------------------------------------------------------------
(* The main thread draws what it reads and collects the input, then sleeps *)
(* until tasks were posted, in this frame or any before it.                *)
Render ==
  /\ At(Main, "rendering")
  /\ TasksPosted
  /\ Go(Main, "helping")
  /\ UNCHANGED <<pool_vars, others>>

MainHelped ==
  /\ HelpEnds(Main, "awaiting_waiter")
  /\ UNCHANGED others

AwaitWaiter ==
  /\ At(Main, "awaiting_waiter")
  /\ already_waiting
  /\ Go(Main, "swapping")
  /\ UNCHANGED <<pool_vars, others>>

(* A slip: already_waiting stays up, and the next swap does not wait. *)
SwapBuffersKeepingFlag ==
  /\ At(Main, "swapping")
  /\ read_buffer' = write_buffer
  /\ Go(Main, "syncing")
  /\ UNCHANGED <<pool_vars, signal, should_quit, quit_flag, already_waiting,
                 swap_complete, audio_vars>>

SwapBuffers ==
  /\ At(Main, "swapping")
  /\ read_buffer' = write_buffer
  /\ already_waiting' = FALSE
  /\ Go(Main, "syncing")
  /\ UNCHANGED <<pool_vars, signal, should_quit, quit_flag, swap_complete, audio_vars>>

(* game_main_thread_synced_op() is over, the game thread is let go. *)
NotifySwap ==
  /\ At(Main, "syncing")
  /\ swap_complete' = TRUE
  /\ Go(Main, IF quit_flag[read_buffer] THEN "joining_game" ELSE "rendering")
  /\ UNCHANGED <<pool_vars, signal, should_quit, quit_flag, read_buffer,
                 already_waiting, audio_vars>>

(* The end of main: the guards join the game thread, then the audio        *)
(* thread; the pool is destroyed with the other statics.                   *)
JoinGame ==
  /\ At(Main, "joining_game")
  /\ At(Game, "quit")
  /\ AudioFree
  /\ audio_quit' = TRUE
  /\ Go(Main, "joining_audio")
  /\ UNCHANGED <<pool_vars, signal, should_quit, swapper_vars, read_index,
                 write_index, audio_owner>>

JoinAudio ==
  /\ At(Main, "joining_audio")
  /\ At(Audio, "quit")
  /\ \/ workers = {} /\ Go(Main, "quit") /\ UNCHANGED pool_vars
     \/ workers # {} /\ QuitStore(Main, "quitting")
  /\ UNCHANGED others

DestroyNotifies ==
  /\ At(Main, "quitting")
  /\ QuitNotify(Main, "joining_workers")
  /\ UNCHANGED others

DestroyJoins ==
  /\ At(Main, "joining_workers")
  /\ JoinAndHire(Main, {}, "quit")
  /\ UNCHANGED others

SignalArrives ==
  /\ ~signal
  /\ EarlySignal \/ TasksPosted
  /\ signal' = TRUE
  /\ UNCHANGED <<pool_vars, pc, should_quit, swapper_vars, audio_vars>>

-----------------------------------------------------------------------------
Tasking(t) ==
  \/ Run(t)
  \/ RegisterCompletion(t) /\ UNCHANGED others

WorkerStep(w) ==
  \/ Tasking(w)
  \/ (WorkerCheck(w) \/ WorkerSleep(w)) /\ UNCHANGED others

GameStep ==
  \/ Tasking(Game) \/ (Help(Game) /\ UNCHANGED others)
  \/ BeginFrame \/ ResizeNotifies \/ ResizeJoins
  \/ SignalEndsFrame \/ Prepare \/ FinishAudio
  \/ EnqueueJobs \/ SubmitJobs \/ NotifyJobs
  \/ GameHelped \/ AwaitCompletion \/ AnnounceWait \/ SwapAwaited

MainStep ==
  \/ Tasking(Main) \/ (Help(Main) /\ UNCHANGED others)
  \/ Render \/ MainHelped \/ AwaitWaiter \/ SwapBuffers \/ NotifySwap
  \/ JoinGame \/ JoinAudio \/ DestroyNotifies \/ DestroyJoins

AudioStep ==
  \/ Tasking(Audio) \/ (Help(Audio) /\ UNCHANGED others)
  \/ AudioTakes \/ AudioReports \/ AudioHelped

Next ==
  \/ \E w \in Workers : WorkerStep(w)
  \/ GameStep
  \/ MainStep
  \/ AudioStep
  \/ SignalArrives

Spec == Init /\ [][Next]_vars

(* The operating system runs every thread that can go on. *)
Fairness ==
  /\ \A w \in Workers : WF_vars(WorkerStep(w))
  /\ WF_vars(GameStep)
  /\ WF_vars(MainStep)
  /\ WF_vars(AudioStep)

FairSpec == Spec /\ Fairness

-----------------------------------------------------------------------------
(* "The other thread MUST be waiting while in this block": while buffers   *)
(* are swapped and the settings exchanged, the game thread waits and no    *)
(* job it posted is left anywhere that could write to a buffer.            *)
SwapExclusive ==
  pc[Main] \in {"swapping", "syncing"} =>
    /\ At(Game, "awaiting_swap")
    /\ tasks = <<>>
    /\ Busy = {}

(* "The thread pool is always empty of tasks on the beginning of the game  *)
(* frame", and still when the next tasks are submitted, as submit()        *)
(* asserts: otherwise resizing would lose tasks and counters be reset      *)
(* under a running one.                                                    *)
EmptyBetweenFrames ==
  pc[Game] \in {"begin", "quitting", "joining", "flow", "finishing_audio",
                "mapping", "submitting"}
    => tasks = <<>> /\ Busy = {}

(* A frame that got past the resizing of the pool comes to its end.        *)
FrameCompletes == At(Game, "flow") ~> pc[Game] \in {"begin", "quit"}

-----------------------------------------------------------------------------
(* work.cpp logs "Gracefully shutting down." on a signal: the program      *)
(* should then come to its end.                                            *)
ShutsDown == signal ~> At(Main, "quit")
=============================================================================
