--------------------------- MODULE CommandPipeline ---------------------------
(***************************************************************************)
(* How a telecommand travels through the payload process:                  *)
(*                                                                         *)
(*   ground -> communication thread -> rx_queue -> main thread             *)
(*          -> thread pool -> handler -> tx_queue -> communication thread  *)
(*                                                                         *)
(* and how the SHUTDOWN command takes all of that down again.  Threads:    *)
(* main (Payload::Run, then ~Payload), communication (UART::RunLoop), the  *)
(* pool's workers, and the service threads that Stop joins.                *)
(*                                                                         *)
(* Abstractions: one element of Cmds is one telecommand on the uplink, a   *)
(* reply is the record of the command it answers, and timestamps are the   *)
(* milliseconds of a clock that ticks at most MaxClock times.              *)
(***************************************************************************)
EXTENDS ThreadPool, Integers

CONSTANTS Shutdowns,     \* the commands with ID SHUTDOWN
          Silent,        \* commands whose handler sends nothing on success
          Detaching,     \* commands whose handler leaves a thread at work: RUN_OD,
                         \* START_CAPTURE_DATASET
          MaxAttempts,   \* MAX_ATTEMPTS of task.hpp
          MaxClock,      \* bound on the ticks of the clock
          LossyLink      \* whether a write to the port may fail

ASSUME PipelineAssumption ==
  /\ Shutdowns \subseteq Cmds
  /\ Silent \subseteq Cmds
  /\ Detaching \subseteq Cmds
  /\ Shutdowns \cap Silent = {}
  /\ MaxAttempts \in Nat \ {0}
  /\ MaxClock \in Nat
  /\ LossyLink \in BOOLEAN

VARIABLES uplink,            \* commands the ground has not sent yet
          clock,             \* timing::GetCurrentTimeMs()
          born,              \* created_at of a command's Task
          rx_queue,          \* tasks waiting in the RX queue
          main,              \* where the main thread is
          main_cmd,          \* the task the main thread has popped
          running_instance,  \* Payload::_running_instance
          services,          \* service threads that are running
          pool_alive,        \* thread_pool is not nullptr
          comms,             \* where the communication thread is
          running_loop,      \* Communication::_running_loop
          port_open,         \* the port's file descriptor is open
          sending,           \* the message GetNextMsg returned
          tx_queue,          \* messages waiting in the TX queue
          sent,              \* messages written to the port
          lost,              \* messages whose write failed
          calls,             \* handler calls made per command
          replies,           \* messages a command's handler has queued
          detached           \* commands whose handler left a thread that still works

rxVars   == <<uplink, clock, born, rx_queue>>
mainVars == <<main, main_cmd, running_instance, services, pool_alive>>
linkVars == <<running_loop, port_open>>
txVars   == <<sending, tx_queue, sent, lost>>
execVars == <<calls, replies, detached>>

vars == <<poolVars, rxVars, mainVars, comms, linkVars, txVars, execVars>>

MainStates ==
  {"boot", "begin", "loop", "presleep", "asleep", "enqueue", "notify",
   "stop_services", "stop_pool", "wake_pool", "join_pool", "ack",
   "destroy", "join_comms", "dead", "hung"}

CommsStates == {"off", "begin", "loop", "receive", "notify", "transmit", "send", "exited"}

\* The threads Stop joins, in the order in which it joins them.
ServiceOrder == <<"telemetry", "camera", "imu">>
Services == {"telemetry", "camera", "imu"}

\* A message of the TX queue: the n-th one of its command, created at a time.
\* All the messages of this module are single packets, of priority 1.
Messages == [cmd : Cmds, n : Nat, at : Nat]
NoMsg == [cmd |-> NoCmd]

Init ==
  /\ PoolInit
  /\ uplink = Cmds
  /\ clock = 0
  /\ born = [c \in Cmds |-> 0]
  /\ rx_queue = {}
  /\ main = "boot"
  /\ main_cmd = NoCmd
  /\ running_instance = FALSE
  /\ services = {}
  /\ pool_alive = TRUE
  /\ comms = "off"
  /\ running_loop = FALSE
  /\ port_open = FALSE
  /\ sending = NoMsg
  /\ tx_queue = {}
  /\ sent = {}
  /\ lost = {}
  /\ calls = [c \in Cmds |-> 0]
  /\ replies = [c \in Cmds |-> 0]
  /\ detached = {}

Tick ==
  /\ clock < MaxClock
  /\ clock' = clock + 1
  /\ UNCHANGED <<poolVars, uplink, born, rx_queue, mainVars, comms, linkVars, txVars, execVars>>

-----------------------------------------------------------------------------
(* The communication thread: UART::RunLoop *)

CommsGoto(from, to) == comms = from /\ comms' = to

CommsBegin ==
  /\ CommsGoto("begin", "loop")
  /\ running_loop' = TRUE
  /\ UNCHANGED <<poolVars, rxVars, mainVars, port_open, txVars, execVars>>

\* while (_running_loop.load() && _connected)
CommsLoop ==
  /\ CommsGoto("loop", IF running_loop THEN "receive" ELSE "exited")
  /\ UNCHANGED <<poolVars, rxVars, mainVars, linkVars, txVars, execVars>>

\* Receive returns false: no bytes, or a read error.
CommsNothing ==
  /\ CommsGoto("receive", "transmit")
  /\ UNCHANGED <<poolVars, rxVars, mainVars, linkVars, txVars, execVars>>

\* AddCommand of a known command ID, up to rx_queue.AddTask.
CommsReceive(c) ==
  /\ CommsGoto("receive", "notify")
  /\ port_open
  /\ c \in uplink
  /\ uplink' = uplink \ {c}
  /\ born' = [born EXCEPT ![c] = clock]
  /\ rx_queue' = rx_queue \cup {c}
  /\ UNCHANGED <<poolVars, clock, mainVars, linkVars, txVars, execVars>>

\* AddCommand of an unknown command ID: logged, nothing queued, but the
\* main thread is notified all the same.
CommsReceiveInvalid ==
  /\ CommsGoto("receive", "notify")
  /\ port_open
  /\ UNCHANGED <<poolVars, rxVars, mainVars, linkVars, txVars, execVars>>

\* Mutant: the notification is forgotten.
CommsNotify_Never ==
  /\ CommsGoto("notify", "transmit")
  /\ UNCHANGED <<poolVars, rxVars, mainVars, linkVars, txVars, execVars>>

\* cv_queue.notify_one(), without holding mtx: it reaches the main thread
\* only if that thread already sleeps.
CommsNotify ==
  /\ CommsGoto("notify", "transmit")
  /\ main' = IF main = "asleep" THEN "loop" ELSE main
  /\ UNCHANGED <<poolVars, rxVars, main_cmd, running_instance, services,
                 pool_alive, linkVars, txVars, execVars>>

\* IsEmpty() and GetNextMsg(): this thread is the queue's only consumer.
CommsNoMessage ==
  /\ CommsGoto("transmit", "loop")
  /\ tx_queue = {}
  /\ UNCHANGED <<poolVars, rxVars, mainVars, linkVars, txVars, execVars>>

Earliest(m) == \A o \in tx_queue : m.at <= o.at

CommsTakeMessage ==
  /\ CommsGoto("transmit", "send")
  /\ \E m \in tx_queue :
       /\ Earliest(m)
       /\ sending' = m
       /\ tx_queue' = tx_queue \ {m}
  /\ UNCHANGED <<poolVars, rxVars, mainVars, linkVars, sent, lost, execVars>>

CommsSend ==
  /\ CommsGoto("send", "loop")
  /\ port_open
  /\ sent' = sent \cup {sending}
  /\ sending' = NoMsg
  /\ UNCHANGED <<poolVars, rxVars, mainVars, linkVars, tx_queue, lost, execVars>>

\* WriteAll gave up, or the descriptor is closed: the message is dropped.
CommsSendFails ==
  /\ CommsGoto("send", "loop")
  /\ LossyLink \/ ~port_open
  /\ lost' = lost \cup {sending}
  /\ sending' = NoMsg
  /\ UNCHANGED <<poolVars, rxVars, mainVars, linkVars, tx_queue, sent, execVars>>

-----------------------------------------------------------------------------
(* The workers: Task::Execute around a command handler *)

\* TransmitMessage of one reply to command c, stamped with the clock.
Transmit(c) ==
  /\ tx_queue' = tx_queue \cup {[cmd |-> c, n |-> replies[c] + 1, at |-> clock]}
  /\ replies' = [replies EXCEPT ![c] = @ + 1]

Called(c) == calls' = [calls EXCEPT ![c] = @ + 1]

\* std::thread(...).detach(): nobody waits for this thread any more.
Detach(c) == detached' = IF c \in Detaching THEN detached \cup {c} ELSE detached

\* Mutant: the loop goes on after a call that did not throw.
HandlerReturns_NoBreak(w) ==
  /\ worker[w] = "run"
  /\ worker' = [worker EXCEPT ![w] = IF calls[holds[w]] + 1 < MaxAttempts THEN "run" ELSE "ran"]
  /\ Called(holds[w])
  /\ Detach(holds[w])
  /\ IF holds[w] \in Silent
       THEN UNCHANGED <<tx_queue, replies>>
       ELSE Transmit(holds[w])
  /\ UNCHANGED <<tasks, stop, holds, busy_threads, rxVars, mainVars, comms,
                 linkVars, sending, sent, lost>>

\* func(data) returns: break out of the retry loop.
HandlerReturns(w) ==
  /\ Goto(w, "run", "ran")
  /\ Called(holds[w])
  /\ Detach(holds[w])
  /\ IF holds[w] \in Silent
       THEN UNCHANGED <<tx_queue, replies>>
       ELSE Transmit(holds[w])
  /\ UNCHANGED <<tasks, stop, holds, busy_threads, rxVars, mainVars, comms,
                 linkVars, sending, sent, lost>>

\* func(data) throws before it has queued a reply, and is called again...
HandlerThrows(w) ==
  /\ worker[w] = "run"
  /\ calls[holds[w]] + 1 < MaxAttempts
  /\ Called(holds[w])
  /\ UNCHANGED <<poolVars, rxVars, mainVars, comms, linkVars, txVars, replies, detached>>

\* ...until the attempts are used up: the task ends without any reply.
HandlerGivesUp(w) ==
  /\ Goto(w, "run", "ran")
  /\ calls[holds[w]] + 1 = MaxAttempts
  /\ Called(holds[w])
  /\ UNCHANGED <<tasks, stop, holds, busy_threads, rxVars, mainVars, comms,
                 linkVars, txVars, replies, detached>>

\* The thread that the handler of c left behind comes to its end.
DetachedEnds(c) ==
  /\ main # "dead"
  /\ c \in detached
  /\ detached' = detached \ {c}
  /\ UNCHANGED <<poolVars, rxVars, mainVars, comms, linkVars, txVars, calls, replies>>

\* The steps of worker_thread itself, which touch nothing but the pool.
WorkerStep(w) ==
  /\ WorkerLoop(w) \/ WorkerStop(w) \/ WorkerTake(w) \/ WorkerSleep(w) \/ WorkerDone(w)
  /\ UNCHANGED <<rxVars, mainVars, comms, linkVars, txVars, execVars>>

WorkerWake(w) ==
  /\ WorkerSpuriousWake(w)
  /\ UNCHANGED <<rxVars, mainVars, comms, linkVars, txVars, execVars>>

-----------------------------------------------------------------------------
(* The main thread: Payload::Run *)

MainGoto(from, to) == main = from /\ main' = to

\* StartCommunicationThread: Connect succeeds, the thread is created.
StartCommunicationThread ==
  /\ MainGoto("boot", "begin")
  /\ port_open' = TRUE
  /\ comms' = "begin"
  /\ UNCHANGED <<poolVars, rxVars, main_cmd, running_instance, services,
                 pool_alive, running_loop, txVars, execVars>>

\* The service threads start, then _running_instance = true.
StartServices ==
  /\ MainGoto("begin", "loop")
  /\ services' = Services
  /\ running_instance' = TRUE
  /\ UNCHANGED <<poolVars, rxVars, main_cmd, pool_alive, comms, linkVars,
                 txVars, execVars>>

\* Under mtx, the predicate of cv_queue.wait is false...
MainFindsNothing ==
  /\ MainGoto("loop", "presleep")
  /\ running_instance
  /\ rx_queue = {}
  /\ UNCHANGED <<poolVars, rxVars, main_cmd, running_instance, services,
                 pool_alive, comms, linkVars, txVars, execVars>>

\* ...and the thread blocks.  Nobody else takes mtx, so a command can be
\* queued and notified between these two steps.
MainSleeps ==
  /\ MainGoto("presleep", "asleep")
  /\ UNCHANGED <<poolVars, rxVars, main_cmd, running_instance, services,
                 pool_alive, comms, linkVars, txVars, execVars>>

MainSpuriousWake ==
  /\ MainGoto("asleep", "loop")
  /\ UNCHANGED <<poolVars, rxVars, main_cmd, running_instance, services,
                 pool_alive, comms, linkVars, txVars, execVars>>

\* Mutant: the comparator is the other way round.
Oldest_Newest(c) == \A d \in rx_queue : born[c] >= born[d]

\* Every command has priority 0: the earliest created_at is on top, and
\* the heap orders the tasks of one millisecond in no particular way.
Oldest(c) == \A d \in rx_queue : born[c] <= born[d]

Pop(c, to) ==
  /\ MainGoto("loop", to)
  /\ running_instance
  /\ c \in rx_queue
  /\ Oldest(c)
  /\ rx_queue' = rx_queue \ {c}
  /\ main_cmd' = c
  /\ UNCHANGED <<uplink, clock, born, services, pool_alive, comms, linkVars, txVars>>

PopForPool(c) ==
  /\ c \notin Shutdowns
  /\ Pop(c, "enqueue")
  /\ UNCHANGED <<poolVars, running_instance, execVars>>

\* SHUTDOWN runs on the main thread: shutdown() calls Stop(), whose first
\* statement clears _running_instance.
PopShutdown(c) ==
  /\ c \in Shutdowns
  /\ Pop(c, "stop_services")
  /\ running_instance' = FALSE
  /\ Called(c)
  /\ UNCHANGED <<poolVars, replies, detached>>

MainEnqueue ==
  /\ MainGoto("enqueue", "notify")
  /\ Push(main_cmd)
  /\ main_cmd' = NoCmd
  /\ UNCHANGED <<rxVars, running_instance, services, pool_alive, comms,
                 linkVars, txVars, execVars>>

MainNotifyOne ==
  /\ MainGoto("notify", "loop")
  /\ NotifyOne
  /\ UNCHANGED <<rxVars, main_cmd, running_instance, services, pool_alive,
                 comms, linkVars, txVars, execVars>>

-----------------------------------------------------------------------------
(* The main thread: shutdown(), return from main, ~Payload *)

\* StopTelemetryService, StopCameraThread, StopIMUThread, one after the other.
JoinsService(i) ==
  /\ main = "stop_services"
  /\ ServiceOrder[i] \in services
  /\ \A j \in 1 .. (i - 1) : ServiceOrder[j] \notin services
  /\ UNCHANGED <<poolVars, rxVars, main_cmd, running_instance, pool_alive,
                 comms, linkVars, txVars, execVars>>

\* Mutant: the IMU thread is not stopped.
StopService_TwoOnly(i) ==
  /\ JoinsService(i)
  /\ services' = services \ {ServiceOrder[i]}
  /\ main' = IF i = 2 THEN "stop_pool" ELSE "stop_services"

\* The flag was seen, and the join returns.
StopService(i) ==
  /\ JoinsService(i)
  /\ services' = services \ {ServiceOrder[i]}
  /\ main' = IF i = 3 THEN "stop_pool" ELSE "stop_services"

\* The flag was not seen, and the join never returns: every RunLoop sets its flag when
\* it starts, over a stop that came before; StopLoops notifies without the mutex and
\* may miss RunLoop; and RunLoop may wait for ever for a capture thread of a camera.
ServiceNeverEnds(i) ==
  /\ JoinsService(i)
  /\ main' = "hung"
  /\ UNCHANGED services

\* StopThreadPool: ThreadPool::shutdown and then thread_pool.reset(nullptr).
StopPool ==
  /\ MainGoto("stop_pool", "wake_pool")
  /\ StopAndDiscard
  /\ UNCHANGED <<rxVars, main_cmd, running_instance, services, pool_alive,
                 comms, linkVars, txVars, execVars>>

WakePool ==
  /\ MainGoto("wake_pool", "join_pool")
  /\ NotifyAll
  /\ UNCHANGED <<rxVars, main_cmd, running_instance, services, pool_alive,
                 comms, linkVars, txVars, execVars>>

\* Mutant: the pool is destroyed without joining its workers.
JoinPool_NoJoin ==
  /\ MainGoto("join_pool", "ack")
  /\ pool_alive' = FALSE
  /\ UNCHANGED <<poolVars, rxVars, main_cmd, running_instance, services,
                 comms, linkVars, txVars, execVars>>

JoinPool ==
  /\ MainGoto("join_pool", "ack")
  /\ AllJoined
  /\ pool_alive' = FALSE
  /\ UNCHANGED <<poolVars, rxVars, main_cmd, running_instance, services,
                 comms, linkVars, txVars, execVars>>

\* TransmitMessage of the SHUTDOWN ACK; then Run and main return.
AckShutdown ==
  /\ MainGoto("ack", "destroy")
  /\ Transmit(main_cmd)
  /\ main_cmd' = NoCmd
  /\ UNCHANGED <<poolVars, rxVars, running_instance, services, pool_alive,
                 comms, linkVars, sending, sent, lost, calls, detached>>

\* ~Payload: Stop() finds everything stopped and no pool; then
\* communication->StopLoop() clears the flag and closes the descriptor.
StopCommunication ==
  /\ MainGoto("destroy", "join_comms")
  /\ running_loop' = FALSE
  /\ port_open' = FALSE
  /\ UNCHANGED <<poolVars, rxVars, main_cmd, running_instance, services,
                 pool_alive, comms, txVars, execVars>>

JoinCommunication ==
  /\ MainGoto("join_comms", "dead")
  /\ comms = "exited"
  /\ UNCHANGED <<poolVars, rxVars, main_cmd, running_instance, services,
                 pool_alive, comms, linkVars, txVars, execVars>>

-----------------------------------------------------------------------------
CommsStep ==
  \/ CommsBegin \/ CommsLoop \/ CommsNothing
  \/ CommsReceiveInvalid \/ (\E c \in Cmds : CommsReceive(c))
  \/ CommsNotify \/ CommsNoMessage \/ CommsTakeMessage
  \/ CommsSend \/ CommsSendFails

HandlerStep(w) == HandlerReturns(w) \/ HandlerThrows(w) \/ HandlerGivesUp(w)

MainStep ==
  \/ StartCommunicationThread \/ StartServices
  \/ MainFindsNothing \/ MainSleeps
  \/ (\E c \in Cmds : PopForPool(c) \/ PopShutdown(c))
  \/ MainEnqueue \/ MainNotifyOne
  \/ (\E i \in 1 .. 3 : StopService(i) \/ ServiceNeverEnds(i))
  \/ StopPool \/ WakePool \/ JoinPool
  \/ AckShutdown \/ StopCommunication \/ JoinCommunication

Next ==
  \/ CommsStep
  \/ MainStep
  \/ MainSpuriousWake
  \/ \E w \in Workers : WorkerStep(w) \/ WorkerWake(w) \/ HandlerStep(w)
  \/ \E c \in Cmds : DetachedEnds(c)
  \/ Tick

Spec == Init /\ [][Next]_vars

\* Threads are scheduled and handlers return; the ground owes nothing, a
\* clock need not tick and no thread wakes by itself.
Fairness ==
  /\ WF_vars(CommsStep)
  /\ WF_vars(MainStep)
  /\ \A w \in Workers : WF_vars(WorkerStep(w)) /\ WF_vars(HandlerStep(w))

FairSpec == Spec /\ Fairness

-----------------------------------------------------------------------------
(* Properties *)

Queued == {tasks[i] : i \in 1 .. Len(tasks)}

Held == {holds[w] : w \in Workers} \ {NoCmd}

\* Commands that a worker, or the main thread for SHUTDOWN, has begun.
Begun == {c \in Cmds : calls[c] > 0} \cup {holds[w] : w \in {v \in Workers : worker[v] = "run"}}

\* The type of every variable.
TypeOK ==
  /\ tasks \in Seq(Cmds)
  /\ stop \in BOOLEAN
  /\ worker \in [Workers -> WorkerStates]
  /\ holds \in [Workers -> Cmds \cup {NoCmd}]
  /\ busy_threads \in Int
  /\ uplink \subseteq Cmds
  /\ clock \in Nat
  /\ born \in [Cmds -> Nat]
  /\ rx_queue \subseteq Cmds
  /\ main \in MainStates
  /\ main_cmd \in Cmds \cup {NoCmd}
  /\ running_instance \in BOOLEAN
  /\ services \subseteq Services
  /\ pool_alive \in BOOLEAN
  /\ comms \in CommsStates
  /\ running_loop \in BOOLEAN
  /\ port_open \in BOOLEAN
  /\ sending \in IF comms = "send" THEN Messages ELSE {NoMsg}
  /\ tx_queue \subseteq Messages
  /\ sent \subseteq Messages
  /\ lost \subseteq Messages
  /\ calls \in [Cmds -> Nat]
  /\ replies \in [Cmds -> Nat]
  /\ detached \subseteq Cmds

\* A command is in one place only: on the uplink, in the RX queue, in the
\* hands of the main thread, in the pool's queue (once) or with one worker.
\* No hand-over between two of the threads duplicates it.
OnePlace ==
  /\ \A i, j \in 1 .. Len(tasks) : i # j => tasks[i] # tasks[j]
  /\ \A v, w \in Workers : v # w => holds[v] # holds[w] \/ holds[v] = NoCmd
  /\ uplink \cap rx_queue = {}
  /\ main_cmd \notin uplink \cup rx_queue \cup Queued \cup Held
  /\ Queued \cap (uplink \cup rx_queue \cup Held) = {}
  /\ Held \cap (uplink \cup rx_queue) = {}

\* Task::Execute retries, yet the ground gets at most one reply to a
\* command, never one before the command ran, and never more than
\* MaxAttempts calls of its handler.
RepliedOnce ==
  \A c \in Cmds :
    /\ calls[c] <= MaxAttempts
    /\ replies[c] <= 1
    /\ replies[c] <= calls[c]
    /\ \A w \in Workers :
         worker[w] = "run" /\ holds[w] = c => replies[c] = 0 /\ calls[c] < MaxAttempts

\* enqueue and worker_thread do not lose a wake-up: when a task is queued
\* and no notification is on its way, some worker is awake to take it.
NoStrandedTask ==
  tasks # <<>> /\ main # "notify" =>
    \E w \in Workers : worker[w] \notin {"asleep", "exited"}

\* The pool object is destroyed only when every worker has left it, the
\* telemetry thread (which reads thread_pool) is joined, and the main
\* thread has nothing to enqueue; and enqueue never finds a stopped pool.
PoolOutlivesUsers ==
  /\ ~pool_alive => AllJoined /\ Queued = {} /\ "telemetry" \notin services
  /\ main \in {"enqueue", "notify"} => pool_alive /\ ~stop

\* Commands on which some thread of the pool, or one left by a handler, has yet to work.
AtWork == Queued \cup Held \cup detached

\* The ACK of SHUTDOWN is queued only when every thread that Stop joins has
\* ended, the workers and the services, and the pool will take no task.  The
\* payload need not be quiet then: Stop knows nothing of the threads that
\* handlers have left behind, and exactly these may still be at work.
AckAfterQuiescence ==
  \A c \in Shutdowns : replies[c] > 0 =>
    AllJoined /\ services = {} /\ stop /\ AtWork \subseteq detached

\* Commands are begun in the order of the milliseconds in which they
\* arrived: what waits in the RX queue is no older than what has left it,
\* and what waits in the pool no older than what a worker has begun.  Only
\* SHUTDOWN, which does not pass through the pool, overtakes the tasks there.
BegunInOrder ==
  /\ \A d \in rx_queue : \A c \in Begun \cup Queued : born[c] <= born[d]
  /\ \A d \in Queued : \A c \in Begun \ Shutdowns : born[c] <= born[d]
  /\ \A i, j \in 1 .. Len(tasks) : i < j => born[tasks[i]] <= born[tasks[j]]

(* The abstract service that the pipeline implements. *)

serviceOpen == ~stop

\* A SHUTDOWN is running from its pop until its ACK is queued.
Status(c) ==
  CASE c \in uplink -> "unsent"
    [] c \in rx_queue \cup Queued -> "accepted"
    [] main_cmd = c -> IF c \in Shutdowns THEN "running" ELSE "accepted"
    [] \E w \in Workers : worker[w] = "run" /\ holds[w] = c -> "running"
    [] OTHER -> IF calls[c] > 0 THEN "settled" ELSE "dropped"

Service == INSTANCE CommandService WITH
  status <- [c \in Cmds |-> Status(c)],
  open <- serviceOpen

\* The threads, queues and notifications implement the abstract service:
\* at most one start per command and none after the pool was stopped.
ImplementsService == Service!Spec

\* Once the main thread has popped a SHUTDOWN the process ends, whatever the
\* workers and the communication thread are doing.  The one thing that can keep
\* it from ending is the join of a service thread that missed its stop: the pool,
\* its wake-ups and the communication thread never do.
ShutdownCompletes ==
  \A c \in Shutdowns : main_cmd = c ~> main \in {"dead", "hung"}

\* A task in the pool's queue is begun, or thrown away by shutdown.
QueuedTasksSettle ==
  \A c \in Cmds : c \in Queued ~> calls[c] > 0 \/ stop

\* The hand-over to the main thread can lose a wake-up, but only until the
\* next one: as long as the ground keeps sending anything at all, every
\* command is popped, or the payload shuts down.
DispatchedIfTraffic ==
  []<><<CommsNotify>>_vars =>
    \A c \in Cmds : c \in rx_queue ~> c \notin rx_queue \/ ~running_instance

\* "done in destructor so we can ACK the command" (payload.cpp, Stop): when
\* the process has ended, the ACK of its SHUTDOWN has gone out.
ShutdownAcked ==
  main = "dead" => \E m \in sent : m.cmd \in Shutdowns
=============================================================================
