----------------------------- MODULE ThreadPool -----------------------------
(***************************************************************************)
(* augs::thread_pool (augs/templates/thread_pool.h): worker threads that   *)
(* take tasks from a shared stack, and callers that post a frame's tasks   *)
(* at once, help with them and wait for the last one. The operations are   *)
(* composed by FrameLoop.                                                  *)
(*                                                                         *)
(* A step is what happens under one lock. The wait of a worker takes two:  *)
(* its condition is evaluated holding queue_mutex and only then does it    *)
(* fall asleep and release the mutex, because shall_quit changes without   *)
(* that mutex. Every other condition changes under the mutex of its wait   *)
(* and is followed by a notification, so waiting for it is a guard.        *)
(* A condition variable is assumed not to wake anybody spuriously.         *)
(***************************************************************************)
EXTENDS Integers, Sequences, FiniteSets

CONSTANTS
  Workers,          \* the threads the pool may hire
  Callers,          \* the threads that use the pool
  Nobody            \* no thread, or no task

ASSUME ThreadsAssumption ==
  /\ IsFiniteSet(Workers) /\ IsFiniteSet(Callers)
  /\ Workers \cap Callers = {}
  /\ Nobody \notin Workers \cup Callers \cup {"job", "audio_job"}

Threads == Workers \cup Callers
Tasks   == {"job", "audio_job"}

VARIABLES
  workers,          \* those hired now
  tasks, cold_tasks,
  tasks_posted, tasks_completed,
  shall_quit,
  queue_owner,      \* the worker that holds queue_mutex across a step
  task,             \* what each thread has taken and not yet completed
  pc

pool_vars == <<workers, tasks, cold_tasks, tasks_posted, tasks_completed,
               shall_quit, queue_owner, task>>

At(t, label) == pc[t] = label
Go(t, label) == pc' = [pc EXCEPT ![t] = label]

QueueFree == queue_owner = Nobody
Busy      == {t \in Threads : task[t] # Nobody}

(* Where a thread looks for its next task. *)
Returns(t) == IF t \in Workers THEN "checking" ELSE "helping"

NotifyWorkers(pcs) ==
  [t \in Threads |-> IF pcs[t] = "asleep" THEN "checking" ELSE pcs[t]]

PoolInit ==
  /\ workers = Workers
  /\ tasks = <<>>
  /\ cold_tasks = <<>>
  /\ tasks_posted = 0
  /\ tasks_completed = 0
  /\ shall_quit = FALSE
  /\ queue_owner = Nobody
  /\ task = [t \in Threads |-> Nobody]

-----------------------------------------------------------------------------
TakeTask(t) ==
  /\ QueueFree
  /\ tasks # <<>>
  /\ task' = [task EXCEPT ![t] = tasks[Len(tasks)]]
  /\ tasks' = SubSeq(tasks, 1, Len(tasks) - 1)
  /\ Go(t, "running")
  /\ UNCHANGED <<workers, cold_tasks, tasks_posted, tasks_completed,
                 shall_quit, queue_owner>>

(* register_completion() wakes whoever waits for the last task. *)
RegisterCompletion(t) ==
  /\ At(t, "registering")
  /\ tasks_completed' = tasks_completed + 1
  /\ task' = [task EXCEPT ![t] = Nobody]
  /\ Go(t, Returns(t))
  /\ UNCHANGED <<workers, tasks, cold_tasks, tasks_posted, shall_quit, queue_owner>>

WorkerCheck(w) ==
  /\ At(w, "checking")
  /\ \/ TakeTask(w)
     \/ /\ QueueFree /\ tasks = <<>> /\ shall_quit
        /\ Go(w, "quit")
        /\ UNCHANGED pool_vars
     \/ /\ QueueFree /\ tasks = <<>> /\ ~shall_quit
        /\ queue_owner' = w
        /\ Go(w, "falling_asleep")
        /\ UNCHANGED <<workers, tasks, cold_tasks, tasks_posted,
                       tasks_completed, shall_quit, task>>

WorkerSleep(w) ==
  /\ At(w, "falling_asleep")
  /\ queue_owner' = Nobody
  /\ Go(w, "asleep")
  /\ UNCHANGED <<workers, tasks, cold_tasks, tasks_posted, tasks_completed,
                 shall_quit, task>>

-----------------------------------------------------------------------------
Enqueue(new) == cold_tasks' = cold_tasks \o new

(* A slip: the counters are left as the last frame made them. *)
SubmitKeepingCounters(t, next) ==
  /\ QueueFree
  /\ tasks' = cold_tasks
  /\ cold_tasks' = <<>>
  /\ tasks_posted' = Len(cold_tasks)
  /\ Go(t, next)
  /\ UNCHANGED <<workers, tasks_completed, shall_quit, queue_owner, task>>

(* submit(): both mutexes are held while the stack and the counters of the *)
(* last frame are replaced.                                                *)
Submit(t, next) ==
  /\ QueueFree
  /\ tasks' = cold_tasks
  /\ cold_tasks' = <<>>
  /\ tasks_posted' = Len(cold_tasks)
  /\ tasks_completed' = 0
  /\ Go(t, next)
  /\ UNCHANGED <<workers, shall_quit, queue_owner, task>>

(* The notifications after a submission. *)
NotifySubmission(t, next) ==
  /\ pc' = [NotifyWorkers(pc) EXCEPT ![t] = next]
  /\ UNCHANGED pool_vars

Help(t) == At(t, "helping") /\ TakeTask(t)

(* help_until_no_tasks() returns. *)
HelpEnds(t, next) ==
  /\ At(t, "helping")
  /\ QueueFree
  /\ tasks = <<>>
  /\ Go(t, next)
  /\ UNCHANGED pool_vars

TasksPosted == tasks_posted > 0
AllComplete == tasks_posted = tasks_completed

-----------------------------------------------------------------------------
(* quit_all_workers(), without queue_mutex: a worker between its condition *)
(* and its sleep misses the notification.                                  *)
QuitStore(t, next) ==
  /\ shall_quit' = TRUE
  /\ Go(t, next)
  /\ UNCHANGED <<workers, tasks, cold_tasks, tasks_posted, tasks_completed,
                 queue_owner, task>>

QuitNotify(t, next) ==
  /\ pc' = [NotifyWorkers(pc) EXCEPT ![t] = next]
  /\ UNCHANGED pool_vars

WorkersQuit == \A w \in workers : At(w, "quit")

(* The workers are joined and others, perhaps none, are hired. *)
JoinAndHire(t, hired, next) ==
  /\ WorkersQuit
  /\ workers' = hired
  /\ shall_quit' = FALSE
  /\ pc' = [[u \in Threads |->
               IF u \in hired THEN "checking"
               ELSE IF u \in Workers THEN "absent" ELSE pc[u]] EXCEPT ![t] = next]
  /\ UNCHANGED <<tasks, cold_tasks, tasks_posted, tasks_completed, queue_owner, task>>

-----------------------------------------------------------------------------
(* Every task posted and not completed waits on the stack or is in the     *)
(* hands of exactly one thread: none is lost, run twice or miscounted.     *)
Accounting == tasks_posted - tasks_completed = Len(tasks) + Cardinality(Busy)
=============================================================================
