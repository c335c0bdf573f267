------------------------------ MODULE ThreadPool ------------------------------
(***************************************************************************)
(* The worker pool of FSW-Payload/src/core/thread_pool.cpp: a FIFO of      *)
(* tasks, a stop flag, and worker threads that sleep on one condition      *)
(* variable.  tasks and stop only change under mtx_, and the predicate of  *)
(* cv_.wait is evaluated under mtx_, so each locked section is one step    *)
(* here.  enqueue and shutdown notify after they release the lock: the     *)
(* notification is a step of its own.                                      *)
(*                                                                         *)
(* The module has no specification of its own: CommandPipeline extends it  *)
(* and drives it from the payload's main thread.                           *)
(***************************************************************************)
EXTENDS Naturals, Sequences, FiniteSets

CONSTANTS Workers,   \* the worker threads (5 in Payload::Payload)
          Cmds,      \* the command instances the ground may send
          NoCmd      \* "no command", the empty std::function

ASSUME PoolAssumption ==
  /\ Workers # {}
  /\ IsFiniteSet(Workers)
  /\ NoCmd \notin Cmds

VARIABLES tasks,         \* the queue of tasks that no worker has taken
          stop,          \* ThreadPool::stop
          worker,        \* where each worker is in worker_thread
          holds,         \* the task a worker has taken
          busy_threads   \* the counter telemetry reports

poolVars == <<tasks, stop, worker, holds, busy_threads>>

WorkerStates == {"loop", "wait", "asleep", "run", "ran", "exited"}

PoolInit ==
  /\ tasks = <<>>
  /\ stop = FALSE
  /\ worker = [w \in Workers |-> "loop"]
  /\ holds = [w \in Workers |-> NoCmd]
  /\ busy_threads = 0

Goto(w, from, to) ==
  /\ worker[w] = from
  /\ worker' = [worker EXCEPT ![w] = to]

Asleep == {w \in Workers : worker[w] = "asleep"}

-----------------------------------------------------------------------------
(* worker_thread *)

\* while (!stop): read without the lock.
WorkerLoop(w) ==
  /\ Goto(w, "loop", IF stop THEN "exited" ELSE "wait")
  /\ UNCHANGED <<tasks, stop, holds, busy_threads>>

\* The predicate holds because of stop: leave the loop.
WorkerStop(w) ==
  /\ stop
  /\ Goto(w, "wait", "exited")
  /\ UNCHANGED <<tasks, stop, holds, busy_threads>>

\* Mutant: tasks.pop() is forgotten.
WorkerTake_NoPop(w) ==
  /\ ~stop
  /\ tasks # <<>>
  /\ Goto(w, "wait", "run")
  /\ holds' = [holds EXCEPT ![w] = Head(tasks)]
  /\ busy_threads' = busy_threads + 1
  /\ UNCHANGED <<tasks, stop>>

\* The predicate holds because there is a task: take the oldest one.
WorkerTake(w) ==
  /\ ~stop
  /\ tasks # <<>>
  /\ Goto(w, "wait", "run")
  /\ holds' = [holds EXCEPT ![w] = Head(tasks)]
  /\ tasks' = Tail(tasks)
  /\ busy_threads' = busy_threads + 1
  /\ UNCHANGED stop

\* The predicate is false: release the lock and block, atomically.
WorkerSleep(w) ==
  /\ ~stop
  /\ tasks = <<>>
  /\ Goto(w, "wait", "asleep")
  /\ UNCHANGED <<tasks, stop, holds, busy_threads>>

\* A condition variable may wake a thread that nobody notified.
WorkerSpuriousWake(w) ==
  /\ Goto(w, "asleep", "wait")
  /\ UNCHANGED <<tasks, stop, holds, busy_threads>>

\* The task returned; the counter goes down outside the lock.
WorkerDone(w) ==
  /\ Goto(w, "ran", "loop")
  /\ holds' = [holds EXCEPT ![w] = NoCmd]
  /\ busy_threads' = busy_threads - 1
  /\ UNCHANGED <<tasks, stop>>

-----------------------------------------------------------------------------
(* Calls of the owner of the pool *)

\* enqueue, under the lock.  It throws when the pool is stopped.
Push(c) ==
  /\ ~stop
  /\ tasks' = Append(tasks, c)
  /\ UNCHANGED <<stop, worker, holds, busy_threads>>

\* Mutant: the notification is forgotten.
NotifyOne_Never ==
  UNCHANGED <<tasks, stop, worker, holds, busy_threads>>

\* enqueue, after the lock: cv_.notify_one().
NotifyOne ==
  /\ \/ \E w \in Asleep : Goto(w, "asleep", "wait")
     \/ Asleep = {} /\ UNCHANGED worker
  /\ UNCHANGED <<tasks, stop, holds, busy_threads>>

\* Mutant: the queue is cleared and the flag is not set.
StopAndDiscard_NoStop ==
  /\ tasks' = <<>>
  /\ UNCHANGED <<stop, worker, holds, busy_threads>>

\* shutdown, under the lock: set the flag and throw the queued tasks away.
StopAndDiscard ==
  /\ stop' = TRUE
  /\ tasks' = <<>>
  /\ UNCHANGED <<worker, holds, busy_threads>>

\* Mutant: notify_one where notify_all is needed.
NotifyAll_One == NotifyOne

\* shutdown, after the lock: cv_.notify_all().
NotifyAll ==
  /\ worker' = [w \in Workers |-> IF worker[w] = "asleep" THEN "wait" ELSE worker[w]]
  /\ UNCHANGED <<tasks, stop, holds, busy_threads>>

\* What join() waits for.
AllJoined == \A w \in Workers : worker[w] = "exited"
=============================================================================
