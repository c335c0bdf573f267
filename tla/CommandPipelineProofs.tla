------------------------ MODULE CommandPipelineProofs ------------------------
(***************************************************************************)
(* Safety of CommandPipeline, and that it implements CommandService, for    *)
(* any set of commands, any number of workers, any number of attempts and  *)
(* an unbounded clock.                                                     *)
(***************************************************************************)
EXTENDS CommandPipeline, TLAPS

(***************************************************************************)
(* Types.  Every action keeps every variable in its type.                  *)
(***************************************************************************)
\* The initial state is well typed.
LEMMA TypeInit == Init => TypeOK
<1> SUFFICES ASSUME Init PROVE TypeOK
  OBVIOUS
<1>1. tasks \in Seq(Cmds)
  BY DEF Init, PoolInit
<1>2. /\ worker \in [Workers -> WorkerStates]
      /\ holds \in [Workers -> Cmds \cup {NoCmd}]
      /\ busy_threads \in Int
      /\ stop \in BOOLEAN
  <2>1. worker \in [Workers -> WorkerStates]
    BY DEF Init, PoolInit, WorkerStates
  <2>2. holds \in [Workers -> Cmds \cup {NoCmd}]
    <3>1. holds = [w \in Workers |-> NoCmd]
      BY DEF Init, PoolInit
    <3>2. NoCmd \in Cmds \cup {NoCmd}
      OBVIOUS
    <3> QED
      BY <3>1, <3>2
  <2>3. busy_threads \in Int
    BY DEF Init, PoolInit
  <2>4. stop \in BOOLEAN
    BY DEF Init, PoolInit
  <2> QED
    BY <2>1, <2>2, <2>3, <2>4
<1>3. /\ uplink \subseteq Cmds /\ rx_queue \subseteq Cmds /\ services \subseteq Services
      /\ tx_queue \subseteq Messages /\ sent \subseteq Messages /\ lost \subseteq Messages
      /\ detached \subseteq Cmds
  BY DEF Init
<1>4. /\ born \in [Cmds -> Nat] /\ calls \in [Cmds -> Nat] /\ replies \in [Cmds -> Nat]
      /\ clock \in Nat
  BY DEF Init
<1>5. /\ main \in MainStates /\ main_cmd \in Cmds \cup {NoCmd}
      /\ comms \in CommsStates /\ comms # "send" /\ sending = NoMsg
      /\ running_instance \in BOOLEAN /\ pool_alive \in BOOLEAN
      /\ running_loop \in BOOLEAN /\ port_open \in BOOLEAN
  BY DEF Init, MainStates, CommsStates
<1> QED
  BY <1>1, <1>2, <1>3, <1>4, <1>5 DEF TypeOK

\* The thread that some handler left behind ends.
LeftEnds == \E c \in Cmds : DetachedEnds(c)

USE DEF vars, poolVars, rxVars, mainVars, linkVars, txVars, execVars

\* Every step of the communication thread preserves the types.
LEMMA TypeComms == TypeOK /\ CommsStep => TypeOK'
<1> USE DEF CommsGoto, CommsStates, MainStates
<1> SUFFICES ASSUME TypeOK, CommsStep PROVE TypeOK'
  OBVIOUS
<1>1. CASE CommsBegin
  BY <1>1 DEF TypeOK, CommsBegin
<1>2. CASE CommsLoop
  BY <1>2 DEF TypeOK, CommsLoop
<1>3. CASE CommsNothing
  BY <1>3 DEF TypeOK, CommsNothing
<1>4. CASE CommsReceiveInvalid
  BY <1>4 DEF TypeOK, CommsReceiveInvalid
<1>5. ASSUME NEW c \in Cmds, CommsReceive(c) PROVE TypeOK'
  BY <1>5 DEF TypeOK, CommsReceive
<1>6. CASE CommsNotify
  BY <1>6 DEF TypeOK, CommsNotify
<1>7. CASE CommsNoMessage
  BY <1>7 DEF TypeOK, CommsNoMessage
<1>8. CASE CommsTakeMessage
  BY <1>8 DEF TypeOK, CommsTakeMessage
<1>9. CASE CommsSend
  BY <1>9 DEF TypeOK, CommsSend
<1>10. CASE CommsSendFails
  BY <1>10 DEF TypeOK, CommsSendFails
<1> QED
  BY <1>1, <1>2, <1>3, <1>4, <1>5, <1>6, <1>7, <1>8, <1>9, <1>10 DEF CommsStep

\* Transmit adds one well-typed message.
LEMMA TypeTransmit ==
  ASSUME TypeOK, NEW c \in Cmds, Transmit(c)
  PROVE  tx_queue' \subseteq Messages /\ replies' \in [Cmds -> Nat]
<1>1. [cmd |-> c, n |-> replies[c] + 1, at |-> clock] \in Messages
  BY DEF TypeOK, Messages
<1> QED
  BY <1>1 DEF TypeOK, Transmit

\* Every step of a worker and of the handler it runs preserves the types,
\* provided that a running worker holds a command.
LEMMA TypeWorker ==
  ASSUME TypeOK, NEW w \in Workers,
         worker[w] = "run" => holds[w] \in Cmds,
         WorkerStep(w) \/ WorkerWake(w) \/ HandlerStep(w)
  PROVE  TypeOK'
<1> USE DEF Goto, WorkerStates
<1>1. CASE WorkerLoop(w) /\ WorkerStep(w)
  BY <1>1 DEF TypeOK, WorkerLoop, WorkerStep
<1>2. CASE WorkerStop(w) /\ WorkerStep(w)
  BY <1>2 DEF TypeOK, WorkerStop, WorkerStep
<1>3. CASE WorkerTake(w) /\ WorkerStep(w)
  <2>1. Head(tasks) \in Cmds /\ Tail(tasks) \in Seq(Cmds)
    BY <1>3 DEF TypeOK, WorkerTake
  <2>2. tasks' \in Seq(Cmds) /\ holds' \in [Workers -> Cmds \cup {NoCmd}]
        /\ worker' \in [Workers -> WorkerStates] /\ busy_threads' \in Int
    BY <1>3, <2>1 DEF TypeOK, WorkerTake
  <2> QED
    BY <1>3, <2>2 DEF TypeOK, WorkerTake, WorkerStep
<1>4. CASE WorkerSleep(w) /\ WorkerStep(w)
  BY <1>4 DEF TypeOK, WorkerSleep, WorkerStep
<1>5. CASE WorkerDone(w) /\ WorkerStep(w)
  BY <1>5 DEF TypeOK, WorkerDone, WorkerStep
<1>6. CASE WorkerWake(w)
  BY <1>6 DEF TypeOK, WorkerWake, WorkerSpuriousWake
<1>7. CASE HandlerReturns(w)
  <2>1. holds[w] \in Cmds
    BY <1>7 DEF HandlerReturns
  <2>2. tx_queue' \subseteq Messages /\ replies' \in [Cmds -> Nat]
    BY <1>7, <2>1, TypeTransmit DEF HandlerReturns, TypeOK
  <2>3. worker' \in [Workers -> WorkerStates] /\ calls' \in [Cmds -> Nat]
    BY <1>7, <2>1 DEF HandlerReturns, Called, TypeOK
  <2> QED
    BY <1>7, <2>1, <2>2, <2>3 DEF HandlerReturns, Detach, TypeOK
<1>8. CASE HandlerThrows(w)
  BY <1>8 DEF TypeOK, HandlerThrows, Called
<1>9. CASE HandlerGivesUp(w)
  BY <1>9 DEF TypeOK, HandlerGivesUp, Called
<1> QED
  BY <1>1, <1>2, <1>3, <1>4, <1>5, <1>6, <1>7, <1>8, <1>9 DEF WorkerStep, HandlerStep

(***************************************************************************)
(* Control.  Where the main thread is determines what it holds, whether    *)
(* the pool is stopped or gone, and which service threads are joined;      *)
(* where a worker is determines whether it holds a task.                   *)
(***************************************************************************)
Gone == {"ack", "destroy", "join_comms", "dead"}
Stopped == {"wake_pool", "join_pool"} \cup Gone
Closing == {"stop_services", "stop_pool", "wake_pool", "join_pool", "ack", "hung"}

WorkerControl ==
  \A w \in Workers :
    /\ worker[w] \in {"run", "ran"} => holds[w] \in Cmds
    /\ worker[w] \notin {"run", "ran"} => holds[w] = NoCmd
    /\ worker[w] = "exited" => stop

PoolControl ==
  /\ stop <=> main \in Stopped
  /\ stop => tasks = <<>>
  /\ pool_alive <=> main \notin Gone
  /\ main \in Gone => AllJoined

MainControl ==
  /\ main = "boot" => comms = "off"
  /\ main = "enqueue" => main_cmd \in Cmds \ Shutdowns
  /\ main \in Closing => main_cmd \in Shutdowns
  /\ main \notin Closing \cup {"enqueue"} => main_cmd = NoCmd
  /\ main \in {"stop_pool"} \cup Stopped => services = {}

Control == WorkerControl /\ PoolControl /\ MainControl

\* Every step of the main thread preserves the types.
LEMMA TypeMain ==
  ASSUME TypeOK, MainControl, MainStep
  PROVE  TypeOK'
<1> USE PipelineAssumption DEF MainGoto, MainStates
<1>1. CASE StartCommunicationThread
  BY <1>1 DEF TypeOK, StartCommunicationThread, CommsStates, MainControl
<1>2. CASE StartServices
  BY <1>2 DEF TypeOK, StartServices
<1>3. CASE MainFindsNothing
  BY <1>3 DEF TypeOK, MainFindsNothing
<1>4. CASE MainSleeps
  BY <1>4 DEF TypeOK, MainSleeps
<1>5. ASSUME NEW c \in Cmds, PopForPool(c) PROVE TypeOK'
  BY <1>5 DEF TypeOK, PopForPool, Pop
<1>6. ASSUME NEW c \in Cmds, PopShutdown(c) PROVE TypeOK'
  <2>1. calls' \in [Cmds -> Nat]
    BY <1>6 DEF TypeOK, PopShutdown, Called
  <2> QED
    BY <1>6, <2>1 DEF TypeOK, PopShutdown, Pop
<1>7. CASE MainEnqueue
  <2>1. main_cmd \in Cmds
    BY <1>7 DEF MainEnqueue, MainControl
  <2>2. tasks' \in Seq(Cmds)
    BY <1>7, <2>1 DEF TypeOK, MainEnqueue, Push
  <2> QED
    BY <1>7, <2>2 DEF TypeOK, MainEnqueue, Push
<1>8. CASE MainNotifyOne
  BY <1>8 DEF TypeOK, MainNotifyOne, NotifyOne, Goto, WorkerStates, Asleep
<1>9. ASSUME NEW i \in 1 .. 3, StopService(i) \/ ServiceNeverEnds(i) PROVE TypeOK'
  BY <1>9 DEF TypeOK, StopService, ServiceNeverEnds, JoinsService
<1>10. CASE StopPool
  <2>1. tasks' \in Seq(Cmds)
    BY <1>10 DEF StopPool, StopAndDiscard
  <2>2. stop' \in BOOLEAN
    BY <1>10 DEF StopPool, StopAndDiscard
  <2> QED
    BY <1>10, <2>1, <2>2 DEF TypeOK, StopPool, StopAndDiscard
<1>11. CASE WakePool
  BY <1>11 DEF TypeOK, WakePool, NotifyAll, WorkerStates
<1>12. CASE JoinPool
  BY <1>12 DEF TypeOK, JoinPool
<1>13. CASE AckShutdown
  <2>1. main_cmd \in Cmds
    BY <1>13 DEF AckShutdown, MainControl, Closing
  <2>2. tx_queue' \subseteq Messages /\ replies' \in [Cmds -> Nat]
    BY <1>13, <2>1, TypeTransmit DEF AckShutdown
  <2> QED
    BY <1>13, <2>2 DEF TypeOK, AckShutdown
<1>14. CASE StopCommunication
  BY <1>14 DEF TypeOK, StopCommunication
<1>15. CASE JoinCommunication
  BY <1>15 DEF TypeOK, JoinCommunication
<1> QED
  BY <1>1, <1>2, <1>3, <1>4, <1>5, <1>6, <1>7, <1>8, <1>9, <1>10, <1>11,
     <1>12, <1>13, <1>14, <1>15 DEF MainStep

\* The types are an invariant relative to Control.
LEMMA TypeStep ==
  ASSUME TypeOK, WorkerControl, MainControl, [Next]_vars
  PROVE  TypeOK'
<1>1. CASE CommsStep
  BY <1>1, TypeComms
<1>2. CASE MainStep
  BY <1>2, TypeMain
<1>3. CASE MainSpuriousWake
  BY <1>3 DEF TypeOK, MainSpuriousWake, MainGoto, MainStates
<1>4. ASSUME NEW w \in Workers, WorkerStep(w) \/ WorkerWake(w) \/ HandlerStep(w)
      PROVE  TypeOK'
  BY <1>4, TypeWorker DEF WorkerControl
<1>5. CASE Tick \/ LeftEnds
  BY <1>5 DEF TypeOK, Tick, LeftEnds, DetachedEnds
<1>6. CASE UNCHANGED vars
  BY <1>6 DEF TypeOK, Messages
<1> QED
  BY <1>1, <1>2, <1>3, <1>4, <1>5, <1>6 DEF Next, LeftEnds

\* Control holds initially.
LEMMA ControlInit == Init => Control
<1> SUFFICES ASSUME Init PROVE Control
  OBVIOUS
<1>1. WorkerControl
  BY DEF Init, PoolInit, WorkerControl
<1>2. PoolControl
  BY DEF Init, PoolInit, PoolControl, Stopped, Gone
<1>3. MainControl
  BY DEF Init, MainControl, Closing, Stopped, Gone
<1> QED
  BY <1>1, <1>2, <1>3 DEF Control

\* The communication thread touches the main thread only to wake it.
LEMMA ControlComms ==
  ASSUME Control, CommsStep
  PROVE  Control'
<1>1. UNCHANGED <<poolVars, main_cmd, running_instance, services, pool_alive>>
  BY DEF CommsStep, CommsBegin, CommsLoop, CommsNothing, CommsReceiveInvalid,
         CommsReceive, CommsNotify, CommsNoMessage, CommsTakeMessage, CommsSend,
         CommsSendFails
<1>2. main' = main \/ (main = "asleep" /\ main' = "loop")
  BY DEF CommsStep, CommsBegin, CommsLoop, CommsNothing, CommsReceiveInvalid,
         CommsReceive, CommsNotify, CommsNoMessage, CommsTakeMessage, CommsSend,
         CommsSendFails
<1>3. comms # "off"
  BY DEF CommsStep, CommsBegin, CommsLoop, CommsNothing, CommsReceiveInvalid,
         CommsReceive, CommsNotify, CommsNoMessage, CommsTakeMessage, CommsSend,
         CommsSendFails, CommsGoto
<1>4. WorkerControl'
  BY <1>1 DEF Control, WorkerControl
<1>5. PoolControl'
  BY <1>1, <1>2 DEF Control, PoolControl, Stopped, Gone, AllJoined
<1>6. MainControl'
  BY <1>1, <1>2, <1>3 DEF Control, MainControl, Closing, Stopped, Gone
<1> QED
  BY <1>4, <1>5, <1>6 DEF Control

\* A worker moves by itself: it never leaves "exited", and it leaves its
\* loop only when the pool is stopped.
LEMMA ControlWorker ==
  ASSUME TypeOK, Control, NEW w \in Workers,
         WorkerStep(w) \/ WorkerWake(w) \/ HandlerStep(w)
  PROVE  Control'
<1> USE DEF Goto
<1>1. /\ UNCHANGED <<stop, mainVars, comms>>
      /\ worker[w] # "exited"
      /\ tasks' = tasks \/ ~stop
  BY DEF WorkerStep, WorkerWake, HandlerStep, WorkerLoop, WorkerStop, WorkerTake,
         WorkerSleep, WorkerDone, WorkerSpuriousWake, HandlerReturns, HandlerThrows,
         HandlerGivesUp
<1>2. \A v \in Workers \ {w} : worker'[v] = worker[v] /\ holds'[v] = holds[v]
  BY DEF WorkerStep, WorkerWake, HandlerStep, WorkerLoop, WorkerStop, WorkerTake,
         WorkerSleep, WorkerDone, WorkerSpuriousWake, HandlerReturns, HandlerThrows,
         HandlerGivesUp, TypeOK
<1>3. WorkerControl'
  <2>1. /\ worker'[w] \in {"run", "ran"} => holds'[w] \in Cmds
        /\ worker'[w] \notin {"run", "ran"} => holds'[w] = NoCmd
        /\ worker'[w] = "exited" => stop
    <3>1. CASE WorkerTake(w)
      <4>1. Head(tasks) \in Cmds
        BY <3>1 DEF WorkerTake, TypeOK
      <4> QED
        BY <3>1, <4>1 DEF WorkerTake, TypeOK
    <3>2. CASE WorkerLoop(w) \/ WorkerStop(w) \/ WorkerSleep(w) \/ WorkerDone(w)
      BY <3>2 DEF WorkerLoop, WorkerStop, WorkerSleep, WorkerDone, TypeOK,
                  Control, WorkerControl
    <3>3. CASE WorkerWake(w) \/ HandlerStep(w)
      BY <3>3 DEF WorkerWake, WorkerSpuriousWake, HandlerStep, HandlerReturns,
                  HandlerThrows, HandlerGivesUp, TypeOK, Control, WorkerControl
    <3> QED
      BY <3>1, <3>2, <3>3 DEF WorkerStep
  <2> QED
    BY <1>1, <1>2, <2>1 DEF Control, WorkerControl
<1>4. PoolControl'
  <2>1. main \notin Gone
    BY <1>1 DEF Control, PoolControl, AllJoined
  <2> QED
    BY <1>1, <2>1 DEF Control, PoolControl
<1>5. MainControl'
  BY <1>1 DEF Control, MainControl
<1> QED
  BY <1>3, <1>4, <1>5 DEF Control

\* The main thread: one step per action.
LEMMA ControlMain ==
  ASSUME TypeOK, Control, MainStep
  PROVE  Control'
<1> USE PipelineAssumption DEF MainGoto, Closing, Stopped, Gone, Control, MainControl
<1> DEFINE Quiet == UNCHANGED <<poolVars, pool_alive>> /\ main \notin Stopped
                    /\ main' \notin Stopped
<1>0. ASSUME Quiet PROVE WorkerControl' /\ PoolControl'
  BY <1>0 DEF WorkerControl, PoolControl
<1>1. CASE StartCommunicationThread
  BY <1>0, <1>1 DEF StartCommunicationThread
<1>2. CASE StartServices
  BY <1>0, <1>2 DEF StartServices
<1>3. CASE MainFindsNothing
  BY <1>0, <1>3 DEF MainFindsNothing
<1>4. CASE MainSleeps
  BY <1>0, <1>4 DEF MainSleeps
<1>5. ASSUME NEW c \in Cmds, PopForPool(c) PROVE Control'
  BY <1>0, <1>5 DEF PopForPool, Pop
<1>6. ASSUME NEW c \in Cmds, PopShutdown(c) PROVE Control'
  BY <1>0, <1>6 DEF PopShutdown, Pop
<1>7. CASE MainEnqueue
  <2>1. WorkerControl'
    BY <1>7 DEF MainEnqueue, Push, WorkerControl
  <2>2. PoolControl'
    BY <1>7 DEF MainEnqueue, Push, PoolControl
  <2> QED
    BY <1>7, <2>1, <2>2 DEF MainEnqueue
<1>8. CASE MainNotifyOne
  <2>1. WorkerControl'
    BY <1>8 DEF MainNotifyOne, NotifyOne, Asleep, Goto, WorkerControl, TypeOK
  <2>2. PoolControl'
    BY <1>8 DEF MainNotifyOne, NotifyOne, PoolControl
  <2> QED
    BY <1>8, <2>1, <2>2 DEF MainNotifyOne
<1>9. ASSUME NEW i \in 1 .. 3, StopService(i) PROVE Control'
  <2>1. WorkerControl' /\ PoolControl'
    BY <1>0, <1>9 DEF StopService, JoinsService
  <2>2. i = 3 => services' = {}
    <3>1. SUFFICES ASSUME i = 3 PROVE services' = {}
      OBVIOUS
    <3>2. /\ ServiceOrder[1] = "telemetry"
          /\ ServiceOrder[2] = "camera"
          /\ ServiceOrder[3] = "imu"
      BY DEF ServiceOrder
    <3>3. ServiceOrder[1] \notin services /\ ServiceOrder[2] \notin services
      BY <1>9, <3>1 DEF StopService, JoinsService
    <3>4. services' = services \ {"imu"}
      BY <1>9, <3>1, <3>2 DEF StopService, JoinsService
    <3> QED
      BY <3>2, <3>3, <3>4 DEF TypeOK, Services
  <2>3. main' = "stop_services" \/ (main' = "stop_pool" /\ i = 3)
    BY <1>9 DEF StopService, JoinsService
  <2>4. main = "stop_services" /\ main_cmd' = main_cmd
    BY <1>9 DEF StopService, JoinsService
  <2> QED
    BY <2>1, <2>2, <2>3, <2>4
<1>10. CASE StopPool
  <2>1. WorkerControl'
    BY <1>10 DEF StopPool, StopAndDiscard, WorkerControl
  <2>2. PoolControl'
    BY <1>10 DEF StopPool, StopAndDiscard, PoolControl
  <2> QED
    BY <1>10, <2>1, <2>2 DEF StopPool
<1>11. CASE WakePool
  <2>1. WorkerControl'
    BY <1>11 DEF WakePool, NotifyAll, WorkerControl, TypeOK
  <2>2. PoolControl'
    BY <1>11 DEF WakePool, NotifyAll, PoolControl
  <2> QED
    BY <1>11, <2>1, <2>2 DEF WakePool
<1>12. CASE JoinPool
  <2>1. WorkerControl'
    BY <1>12 DEF JoinPool, WorkerControl
  <2>2. PoolControl'
    BY <1>12 DEF JoinPool, PoolControl, AllJoined
  <2> QED
    BY <1>12, <2>1, <2>2 DEF JoinPool
<1>13. CASE AckShutdown
  <2>1. WorkerControl'
    BY <1>13 DEF AckShutdown, WorkerControl
  <2>2. PoolControl'
    BY <1>13 DEF AckShutdown, PoolControl, AllJoined
  <2> QED
    BY <1>13, <2>1, <2>2 DEF AckShutdown
<1>14. CASE StopCommunication
  <2>1. WorkerControl'
    BY <1>14 DEF StopCommunication, WorkerControl
  <2>2. PoolControl'
    BY <1>14 DEF StopCommunication, PoolControl, AllJoined
  <2> QED
    BY <1>14, <2>1, <2>2 DEF StopCommunication
<1>15. CASE JoinCommunication
  <2>1. WorkerControl'
    BY <1>15 DEF JoinCommunication, WorkerControl
  <2>2. PoolControl'
    BY <1>15 DEF JoinCommunication, PoolControl, AllJoined
  <2> QED
    BY <1>15, <2>1, <2>2 DEF JoinCommunication
<1>16. ASSUME NEW i \in 1 .. 3, ServiceNeverEnds(i) PROVE Control'
  BY <1>0, <1>16 DEF ServiceNeverEnds, JoinsService
<1> QED
  BY <1>1, <1>2, <1>3, <1>4, <1>5, <1>6, <1>7, <1>8, <1>9, <1>10, <1>11,
     <1>12, <1>13, <1>14, <1>15, <1>16 DEF MainStep

\* Types and control together are inductive.
LEMMA ControlStep ==
  ASSUME TypeOK, Control, [Next]_vars
  PROVE  TypeOK' /\ Control'
<1>1. TypeOK'
  BY TypeStep DEF Control
<1>2. CASE CommsStep
  BY <1>1, <1>2, ControlComms
<1>3. CASE MainStep
  BY <1>1, <1>3, ControlMain
<1>4. CASE MainSpuriousWake
  BY <1>1, <1>4 DEF MainSpuriousWake, MainGoto, Control, WorkerControl, PoolControl,
     MainControl, Closing, Stopped, Gone
<1>5. ASSUME NEW w \in Workers, WorkerStep(w) \/ WorkerWake(w) \/ HandlerStep(w)
      PROVE  Control'
  BY <1>5, ControlWorker
<1>6. CASE Tick \/ LeftEnds \/ UNCHANGED vars
  BY <1>1, <1>6 DEF Tick, LeftEnds, DetachedEnds, Control, WorkerControl, PoolControl,
     MainControl, AllJoined
<1> QED
  BY <1>1, <1>2, <1>3, <1>4, <1>5, <1>6 DEF Next, LeftEnds

\* Type correctness: in every reachable state every variable has its type.
THEOREM TypeCorrect == Spec => []TypeOK
<1>1. Init => TypeOK /\ Control
  BY TypeInit, ControlInit
<1>2. TypeOK /\ Control /\ [Next]_vars => (TypeOK /\ Control)'
  BY ControlStep
<1> QED
  BY <1>1, <1>2, PTL DEF Spec

(***************************************************************************)
(* One place per command.  Each hand-over moves a command: the proof looks *)
(* at the eight actions that move one, with two facts about the queue.     *)
(***************************************************************************)
\* Append adds one element to the set of queued tasks, at the end.
LEMMA QueuedAppend ==
  ASSUME TypeOK, NEW c \in Cmds, tasks' = Append(tasks, c)
  PROVE  /\ Queued' = Queued \cup {c}
         /\ Len(tasks') = Len(tasks) + 1
         /\ tasks'[Len(tasks) + 1] = c
         /\ \A i \in 1 .. Len(tasks) : tasks'[i] = tasks[i]
<1>1. /\ Len(tasks) \in Nat
      /\ Len(tasks') = Len(tasks) + 1
      /\ tasks'[Len(tasks) + 1] = c
      /\ \A i \in 1 .. Len(tasks) : tasks'[i] = tasks[i]
  BY DEF TypeOK
<1>2. 1 .. (Len(tasks) + 1) = (1 .. Len(tasks)) \cup {Len(tasks) + 1}
  BY <1>1
<1> QED
  BY <1>1, <1>2 DEF Queued

\* Tail moves every task one place forward and drops the head.
LEMMA QueuedTail ==
  ASSUME TypeOK, tasks # <<>>, tasks' = Tail(tasks)
  PROVE  /\ Head(tasks) = tasks[1] /\ 1 \in 1 .. Len(tasks)
         /\ Len(tasks') = Len(tasks) - 1
         /\ \A i \in 1 .. Len(tasks') : tasks'[i] = tasks[i + 1] /\ i + 1 \in 1 .. Len(tasks)
         /\ Queued' \subseteq Queued
         /\ Head(tasks) \in Queued
<1>1. /\ Len(tasks) \in Nat /\ Len(tasks) >= 1
      /\ Head(tasks) = tasks[1]
      /\ Len(tasks') = Len(tasks) - 1
      /\ \A i \in 1 .. Len(tasks') : tasks'[i] = tasks[i + 1]
  BY DEF TypeOK
<1>2. \A i \in 1 .. Len(tasks') : i + 1 \in 1 .. Len(tasks)
  BY <1>1
<1> QED
  BY <1>1, <1>2 DEF Queued

\* Initially every command is on the uplink.
LEMMA OnePlaceInit == Init => OnePlace
<1> SUFFICES ASSUME Init PROVE OnePlace
  OBVIOUS
<1>1. tasks = <<>> /\ rx_queue = {} /\ main_cmd = NoCmd /\ uplink = Cmds
  BY DEF Init, PoolInit
<1>2. \A w \in Workers : holds[w] = NoCmd
  BY DEF Init, PoolInit
<1>3. Queued = {} /\ Held = {}
  BY <1>1, <1>2 DEF Queued, Held
<1> QED
  BY <1>1, <1>2, <1>3, PoolAssumption DEF OnePlace

\* The workers: a task moves from the queue to one worker and disappears.
LEMMA OnePlaceWorker ==
  ASSUME TypeOK, Control, OnePlace, NEW w \in Workers,
         WorkerStep(w) \/ WorkerWake(w) \/ HandlerStep(w)
  PROVE  OnePlace'
<1>1. CASE WorkerTake(w) /\ WorkerStep(w)
  <2> DEFINE c == Head(tasks)
  <2>1. /\ holds' = [holds EXCEPT ![w] = c] /\ tasks' = Tail(tasks) /\ tasks # <<>>
        /\ UNCHANGED <<uplink, rx_queue, main_cmd>>
    BY <1>1 DEF WorkerTake, WorkerStep
  <2>2. holds[w] = NoCmd
    BY <1>1 DEF WorkerTake, Goto, Control, WorkerControl
  <2>3. c \in Queued /\ c \notin Queued' /\ Queued' \subseteq Queued
    BY <2>1, QueuedTail DEF OnePlace, Queued
  <2>4. Held' = Held \cup {c} /\ c \in Cmds
    <3>1. c \in Cmds
      BY <2>1 DEF TypeOK
    <3>2. holds'[w] = c /\ \A v \in Workers \ {w} : holds'[v] = holds[v]
      BY <2>1 DEF TypeOK
    <3> QED
      BY <2>2, <3>1, <3>2, PoolAssumption DEF Held
  <2>5. \A i, j \in 1 .. Len(tasks') : i # j => tasks'[i] # tasks'[j]
    BY <2>1, QueuedTail DEF OnePlace
  <2>6. \A u, v \in Workers : u # v => holds'[u] # holds'[v] \/ holds'[u] = NoCmd
    <3>1. \A v \in Workers : holds[v] # c
      BY <2>3, <2>4, PoolAssumption DEF OnePlace, Held
    <3> QED
      BY <2>1, <3>1 DEF OnePlace, TypeOK
  <2> QED
    BY <2>1, <2>3, <2>4, <2>5, <2>6 DEF OnePlace
<1>2. CASE WorkerDone(w) /\ WorkerStep(w)
  <2>1. /\ holds' = [holds EXCEPT ![w] = NoCmd]
        /\ UNCHANGED <<tasks, uplink, rx_queue, main_cmd>>
    BY <1>2 DEF WorkerDone, WorkerStep
  <2>2. Held' \subseteq Held /\ Queued' = Queued
    BY <2>1 DEF Held, Queued, TypeOK
  <2>3. \A u, v \in Workers : u # v => holds'[u] # holds'[v] \/ holds'[u] = NoCmd
    BY <2>1 DEF OnePlace, TypeOK
  <2> QED
    BY <2>1, <2>2, <2>3 DEF OnePlace
<1>3. ASSUME UNCHANGED <<tasks, holds, uplink, rx_queue, main_cmd>> PROVE OnePlace'
  BY <1>3 DEF OnePlace, Queued, Held
<1>4. CASE (WorkerLoop(w) \/ WorkerStop(w) \/ WorkerSleep(w)) /\ WorkerStep(w)
  BY <1>3, <1>4 DEF WorkerLoop, WorkerStop, WorkerSleep, WorkerStep
<1>5. CASE WorkerWake(w)
  BY <1>3, <1>5 DEF WorkerWake, WorkerSpuriousWake
<1>6. CASE HandlerStep(w)
  BY <1>3, <1>6 DEF HandlerStep, HandlerReturns, HandlerThrows, HandlerGivesUp
<1> QED
  BY <1>1, <1>2, <1>4, <1>5, <1>6 DEF WorkerStep

\* The communication thread: a command moves from the uplink to rx_queue.
LEMMA OnePlaceComms ==
  ASSUME TypeOK, OnePlace, CommsStep
  PROVE  OnePlace'
<1>1. UNCHANGED <<tasks, holds, main_cmd>>
  BY DEF CommsStep, CommsBegin, CommsLoop, CommsNothing, CommsReceiveInvalid,
         CommsReceive, CommsNotify, CommsNoMessage, CommsTakeMessage, CommsSend,
         CommsSendFails
<1>2. Queued' = Queued /\ Held' = Held
  BY <1>1 DEF Queued, Held
<1>3. \/ UNCHANGED <<uplink, rx_queue>>
      \/ \E c \in uplink : uplink' = uplink \ {c} /\ rx_queue' = rx_queue \cup {c}
  BY DEF CommsStep, CommsBegin, CommsLoop, CommsNothing, CommsReceiveInvalid,
         CommsReceive, CommsNotify, CommsNoMessage, CommsTakeMessage, CommsSend,
         CommsSendFails
<1> QED
  BY <1>1, <1>2, <1>3 DEF OnePlace

\* The main thread: a command moves from rx_queue into its hands, and from
\* there to the pool; the ACK and the discarded tasks only remove.
LEMMA OnePlaceMain ==
  ASSUME TypeOK, Control, OnePlace, MainStep
  PROVE  OnePlace'
<1> USE DEF MainGoto
<1>1. ASSUME NEW c \in Cmds, NEW to, Pop(c, to), UNCHANGED poolVars
      PROVE  OnePlace'
  <2>1. /\ c \in rx_queue /\ rx_queue' = rx_queue \ {c} /\ main_cmd' = c
        /\ UNCHANGED <<uplink, tasks, holds>>
    BY <1>1 DEF Pop
  <2>2. Queued' = Queued /\ Held' = Held
    BY <2>1 DEF Queued, Held
  <2> QED
    BY <2>1, <2>2 DEF OnePlace
<1>2. CASE MainEnqueue
  <2>1. /\ main_cmd \in Cmds /\ tasks' = Append(tasks, main_cmd) /\ main_cmd' = NoCmd
        /\ UNCHANGED <<uplink, rx_queue, holds>>
    BY <1>2 DEF MainEnqueue, Push, Control, MainControl
  <2>2. Queued' = Queued \cup {main_cmd} /\ Held' = Held
    BY <2>1, QueuedAppend DEF Held
  <2>3. \A i, j \in 1 .. Len(tasks') : i # j => tasks'[i] # tasks'[j]
    <3>1. Len(tasks) \in Nat
      BY DEF TypeOK
    <3>2. \A i \in 1 .. Len(tasks) : tasks[i] # main_cmd
      BY DEF OnePlace, Queued
    <3> QED
      BY <2>1, <3>1, <3>2, QueuedAppend DEF OnePlace
  <2>4. NoCmd \notin uplink \cup rx_queue \cup Queued' \cup Held
    <3>1. Queued \subseteq Cmds
      BY DEF Queued, TypeOK
    <3> QED
      BY <2>1, <2>2, <3>1, PoolAssumption DEF TypeOK, Held
  <2> QED
    BY <2>1, <2>2, <2>3, <2>4 DEF OnePlace
<1>3. CASE StopPool
  <2>1. tasks' = <<>> /\ UNCHANGED <<uplink, rx_queue, holds, main_cmd>>
    BY <1>3 DEF StopPool, StopAndDiscard
  <2>2. Queued' = {} /\ Held' = Held
    BY <2>1 DEF Queued, Held
  <2> QED
    BY <2>1, <2>2 DEF OnePlace
<1>4. CASE AckShutdown
  <2>1. main_cmd' = NoCmd /\ UNCHANGED <<tasks, uplink, rx_queue, holds>>
    BY <1>4 DEF AckShutdown
  <2>2. Queued' = Queued /\ Held' = Held /\ Queued \subseteq Cmds
    BY <2>1 DEF Queued, Held, TypeOK
  <2> QED
    BY <2>1, <2>2, PoolAssumption DEF OnePlace, TypeOK, Held
<1>5. ASSUME UNCHANGED <<tasks, holds, uplink, rx_queue, main_cmd>> PROVE OnePlace'
  BY <1>5 DEF OnePlace, Queued, Held
<1>6. CASE \E c \in Cmds : PopForPool(c) \/ PopShutdown(c)
  BY <1>1, <1>6 DEF PopForPool, PopShutdown
<1>7. CASE \/ StartCommunicationThread \/ StartServices \/ MainFindsNothing \/ MainSleeps
           \/ MainNotifyOne \/ (\E i \in 1 .. 3 : StopService(i) \/ ServiceNeverEnds(i)) \/ WakePool \/ JoinPool
           \/ StopCommunication \/ JoinCommunication
  BY <1>5, <1>7 DEF StartCommunicationThread, StartServices, MainFindsNothing, MainSleeps,
     MainNotifyOne, NotifyOne, StopService, ServiceNeverEnds, JoinsService, WakePool, NotifyAll, JoinPool,
     StopCommunication, JoinCommunication
<1> QED
  BY <1>2, <1>3, <1>4, <1>6, <1>7 DEF MainStep

\* OnePlace is inductive relative to the types and Control.
LEMMA OnePlaceStep ==
  ASSUME TypeOK, Control, OnePlace, [Next]_vars
  PROVE  OnePlace'
<1>1. CASE MainSpuriousWake \/ Tick \/ LeftEnds \/ UNCHANGED vars
  BY <1>1 DEF MainSpuriousWake, Tick, LeftEnds, DetachedEnds, OnePlace, Queued, Held
<1> QED
  BY <1>1, OnePlaceComms, OnePlaceMain, OnePlaceWorker DEF Next, LeftEnds

\* No hand-over between the threads duplicates a command.
THEOREM OnePlaceHolds == Spec => []OnePlace
<1>1. Init => TypeOK /\ Control /\ OnePlace
  BY TypeInit, ControlInit, OnePlaceInit
<1>2. TypeOK /\ Control /\ OnePlace /\ [Next]_vars => (TypeOK /\ Control /\ OnePlace)'
  BY ControlStep, OnePlaceStep
<1> QED
  BY <1>1, <1>2, PTL DEF Spec

(***************************************************************************)
(* The wake-up protocol of the pool.                                       *)
(***************************************************************************)
\* NoStrandedTask is inductive relative to the types and Control.
LEMMA NoStrandedStep ==
  ASSUME TypeOK, Control, NoStrandedTask, [Next]_vars
  PROVE  NoStrandedTask'
<1> USE DEF NoStrandedTask, Goto
<1>1. ASSUME NEW w \in Workers, WorkerStep(w) \/ WorkerWake(w) \/ HandlerStep(w)
      PROVE  NoStrandedTask'
  <2> SUFFICES ASSUME tasks' # <<>>
               PROVE  worker'[w] \notin {"asleep", "exited"}
    BY <1>1
  <2>1. tasks # <<>>
    BY <1>1 DEF WorkerStep, WorkerWake, HandlerStep, WorkerLoop, WorkerStop, WorkerTake,
       WorkerSleep, WorkerDone, WorkerSpuriousWake, HandlerReturns, HandlerThrows,
       HandlerGivesUp
  <2>2. ~stop
    BY <2>1 DEF Control, PoolControl
  <2> QED
    BY <1>1, <2>1, <2>2 DEF WorkerStep, WorkerWake, HandlerStep, WorkerLoop, WorkerStop,
       WorkerTake, WorkerSleep, WorkerDone, WorkerSpuriousWake, HandlerReturns,
       HandlerThrows, HandlerGivesUp, TypeOK
<1>2. CASE MainNotifyOne
  <2>1. CASE \E w \in Asleep : Goto(w, "asleep", "wait")
    BY <2>1 DEF Asleep, TypeOK
  <2>2. CASE Asleep = {} /\ worker' = worker
    <3>1. \A w \in Workers : worker[w] \notin {"asleep", "exited"}
      BY <1>2, <2>2 DEF Asleep, MainNotifyOne, MainGoto, Control, WorkerControl,
         PoolControl, Stopped, Gone
    <3> QED
      BY <2>2, <3>1, PoolAssumption
  <2> QED
    BY <1>2, <2>1, <2>2 DEF MainNotifyOne, NotifyOne
<1>3. CASE MainEnqueue
  BY <1>3 DEF MainEnqueue, MainGoto
<1>4. CASE StopPool
  BY <1>4 DEF StopPool, StopAndDiscard
<1>5. CASE WakePool
  <2>1. tasks' = <<>>
    BY <1>5 DEF WakePool, NotifyAll, MainGoto, Control, PoolControl, Stopped
  <2> QED
    BY <2>1
<1>6. CASE \/ StartCommunicationThread \/ StartServices \/ MainFindsNothing \/ MainSleeps
           \/ (\E c \in Cmds : PopForPool(c) \/ PopShutdown(c))
           \/ (\E i \in 1 .. 3 : StopService(i) \/ ServiceNeverEnds(i)) \/ JoinPool
           \/ AckShutdown \/ StopCommunication \/ JoinCommunication
  BY <1>6 DEF StartCommunicationThread, StartServices, MainFindsNothing, MainSleeps,
     PopForPool, PopShutdown, Pop, StopService, ServiceNeverEnds, JoinsService, JoinPool, AckShutdown,
     StopCommunication, JoinCommunication, MainGoto
<1>7. CASE CommsStep
  BY <1>7 DEF CommsStep, CommsBegin, CommsLoop, CommsNothing, CommsReceiveInvalid,
     CommsReceive, CommsNotify, CommsNoMessage, CommsTakeMessage, CommsSend, CommsSendFails
<1>8. CASE MainSpuriousWake \/ Tick \/ LeftEnds \/ UNCHANGED vars
  BY <1>8 DEF MainSpuriousWake, MainGoto, Tick, LeftEnds, DetachedEnds
<1> QED
  BY <1>1, <1>2, <1>3, <1>4, <1>5, <1>6, <1>7, <1>8 DEF Next, LeftEnds, MainStep

\* A queued task never waits for a pool that sleeps without a notification.
THEOREM NoStrandedTaskHolds == Spec => []NoStrandedTask
<1>1. Init => TypeOK /\ Control /\ NoStrandedTask
  BY TypeInit, ControlInit DEF Init, PoolInit, NoStrandedTask
<1>2. TypeOK /\ Control /\ NoStrandedTask /\ [Next]_vars
        => (TypeOK /\ Control /\ NoStrandedTask)'
  BY ControlStep, NoStrandedStep
<1> QED
  BY <1>1, <1>2, PTL DEF Spec

\* The pool is destroyed after its last user, and enqueue never throws.
THEOREM PoolOutlivesUsersHolds == Spec => []PoolOutlivesUsers
<1>1. Init => TypeOK /\ Control
  BY TypeInit, ControlInit
<1>2. TypeOK /\ Control /\ [Next]_vars => (TypeOK /\ Control)'
  BY ControlStep
<1>3. Control => PoolOutlivesUsers
  BY DEF Control, PoolControl, MainControl, PoolOutlivesUsers, Queued, Stopped, Gone
<1> QED
  BY <1>1, <1>2, <1>3, PTL DEF Spec

(***************************************************************************)
(* Replies.  A command that waits has not been called, one that runs has   *)
(* not been answered, and a SHUTDOWN never reaches the pool.               *)
(***************************************************************************)
Counted ==
  \A c \in Cmds : calls[c] <= MaxAttempts /\ replies[c] <= 1 /\ replies[c] <= calls[c]

WaitingIsFresh ==
  /\ \A c \in uplink \cup rx_queue \cup Queued : calls[c] = 0
  /\ main = "enqueue" => calls[main_cmd] = 0
  /\ main \in Closing => calls[main_cmd] = 1 /\ replies[main_cmd] = 0

RunningIsOpen ==
  \A w \in Workers :
    worker[w] = "run" => replies[holds[w]] = 0 /\ calls[holds[w]] < MaxAttempts

ShutdownBypassesPool ==
  /\ Queued \cap Shutdowns = {}
  /\ Held \cap Shutdowns = {}
  /\ \A c \in Shutdowns : replies[c] > 0 => main \in Gone

Reply == Counted /\ WaitingIsFresh /\ RunningIsOpen /\ ShutdownBypassesPool

\* Initially nothing has been called or answered.
LEMMA ReplyInit == Init => Reply
<1> SUFFICES ASSUME Init PROVE Reply
  OBVIOUS
<1>1. /\ \A c \in Cmds : calls[c] = 0 /\ replies[c] = 0
      /\ \A w \in Workers : worker[w] = "loop" /\ holds[w] = NoCmd
      /\ tasks = <<>> /\ uplink = Cmds /\ rx_queue = {} /\ main = "boot"
  BY DEF Init, PoolInit
<1>2. Queued = {} /\ Held = {}
  BY <1>1 DEF Queued, Held
<1> QED
  BY <1>1, <1>2, PipelineAssumption
     DEF Reply, Counted, WaitingIsFresh, RunningIsOpen, ShutdownBypassesPool, Closing

\* One call of the handler that worker w runs: only the counters of its
\* command change, and that command waits nowhere.
LEMMA ReplyHandler ==
  ASSUME TypeOK, Control, OnePlace, Reply, NEW w \in Workers, HandlerStep(w)
  PROVE  Reply'
<1> DEFINE c == holds[w]
<1>1. /\ worker[w] = "run" /\ c \in Cmds /\ c \notin Shutdowns
      /\ replies[c] = 0 /\ calls[c] < MaxAttempts
  <2>1. worker[w] = "run"
    BY DEF HandlerStep, HandlerReturns, HandlerThrows, HandlerGivesUp, Goto
  <2>2. c \in Cmds
    BY <2>1 DEF Control, WorkerControl
  <2>3. c \in Held
    BY <2>2, PoolAssumption DEF Held
  <2>4. c \notin Shutdowns
    BY <2>3 DEF Reply, ShutdownBypassesPool
  <2>5. replies[c] = 0 /\ calls[c] < MaxAttempts
    BY <2>1 DEF Reply, RunningIsOpen
  <2> QED
    BY <2>1, <2>2, <2>4, <2>5
<1>2. /\ UNCHANGED <<tasks, holds, uplink, rx_queue, main, main_cmd>>
      /\ calls' = [calls EXCEPT ![c] = @ + 1]
      /\ replies' = replies \/ (replies' = [replies EXCEPT ![c] = @ + 1] /\ worker'[w] = "ran")
      /\ worker'[w] = "ran" \/ (worker' = worker /\ calls[c] + 1 < MaxAttempts)
  BY DEF HandlerStep, HandlerReturns, HandlerThrows, HandlerGivesUp, Goto, Called,
     Transmit, TypeOK
<1>3. \A v \in Workers \ {w} : worker'[v] = worker[v]
  BY DEF HandlerStep, HandlerReturns, HandlerThrows, HandlerGivesUp, Goto, TypeOK
<1>4. Queued' = Queued /\ Held' = Held
  BY <1>2 DEF Queued, Held
<1>5. /\ \A d \in Cmds \ {c} : calls'[d] = calls[d] /\ replies'[d] = replies[d]
      /\ calls'[c] = calls[c] + 1 /\ replies'[c] \in {0, 1}
  BY <1>1, <1>2 DEF TypeOK
<1>6. c \notin uplink \cup rx_queue \cup Queued /\ main_cmd # c
  BY <1>1, PoolAssumption DEF OnePlace, Held
<1>7. Counted'
  <2>1. calls[c] \in Nat /\ MaxAttempts \in Nat
    BY <1>1, PipelineAssumption DEF TypeOK
  <2>2. calls'[c] <= MaxAttempts /\ replies'[c] <= 1 /\ replies'[c] <= calls'[c]
    BY <1>1, <1>5, <2>1
  <2>3. ASSUME NEW d \in Cmds \ {c}
        PROVE  calls'[d] <= MaxAttempts /\ replies'[d] <= 1 /\ replies'[d] <= calls'[d]
    BY <1>5 DEF Reply, Counted
  <2> QED
    BY <2>2, <2>3 DEF Counted
<1>8. WaitingIsFresh'
  <2>1. Queued \subseteq Cmds
    BY DEF Queued, TypeOK
  <2>2. main = "enqueue" \/ main \in Closing => main_cmd \in Cmds
    BY PipelineAssumption DEF Control, MainControl
  <2> QED
    BY <1>2, <1>4, <1>5, <1>6, <2>1, <2>2 DEF Reply, WaitingIsFresh, TypeOK
<1>9. RunningIsOpen'
  <2>1. ASSUME NEW v \in Workers, worker'[v] = "run", v # w
        PROVE  replies'[holds[v]] = 0 /\ calls'[holds[v]] < MaxAttempts
    <3>1. worker[v] = "run" /\ holds[v] \in Cmds /\ holds[v] # c
      BY <1>1, <1>3, <2>1, PoolAssumption DEF OnePlace, Control, WorkerControl
    <3> QED
      BY <1>5, <3>1 DEF Reply, RunningIsOpen
  <2>2. worker'[w] = "run" => replies'[c] = 0 /\ calls'[c] < MaxAttempts
    BY <1>1, <1>2, <1>5
  <2> QED
    BY <1>2, <2>1, <2>2 DEF RunningIsOpen
<1>10. ShutdownBypassesPool'
  BY <1>1, <1>2, <1>4, <1>5, PipelineAssumption DEF Reply, ShutdownBypassesPool
<1> QED
  BY <1>7, <1>8, <1>9, <1>10 DEF Reply

\* Moving tasks between the queue and the workers leaves the counters alone.
LEMMA ReplyWorker ==
  ASSUME TypeOK, Control, OnePlace, Reply, NEW w \in Workers,
         WorkerStep(w) \/ WorkerWake(w)
  PROVE  Reply'
<1> USE DEF Goto
<1>1. UNCHANGED <<calls, replies, uplink, rx_queue, main, main_cmd>>
  BY DEF WorkerStep, WorkerWake
<1>2. Queued' \subseteq Queued /\ Held' \subseteq Held \cup Queued
  <2>1. CASE WorkerTake(w)
    <3>1. /\ Queued' \subseteq Queued /\ Head(tasks) \in Queued
      BY <2>1, QueuedTail DEF WorkerTake
    <3> QED
      BY <2>1, <3>1 DEF WorkerTake, Held, TypeOK
  <2>2. CASE WorkerDone(w)
    BY <2>2 DEF WorkerDone, Queued, Held, TypeOK
  <2>3. CASE UNCHANGED <<tasks, holds>>
    BY <2>3 DEF Queued, Held
  <2> QED
    BY <2>1, <2>2, <2>3 DEF WorkerStep, WorkerWake, WorkerLoop, WorkerStop, WorkerSleep,
       WorkerSpuriousWake
<1>3. RunningIsOpen'
  <2>1. CASE WorkerTake(w)
    <3>1. /\ Head(tasks) \in Queued /\ Head(tasks) \in Cmds
      BY <2>1, QueuedTail DEF WorkerTake, TypeOK
    <3>2. calls[Head(tasks)] = 0 /\ replies[Head(tasks)] = 0
      BY <3>1 DEF Reply, WaitingIsFresh, Counted, TypeOK
    <3> QED
      BY <1>1, <2>1, <3>2, PipelineAssumption DEF WorkerTake, Reply, RunningIsOpen, TypeOK
  <2>2. CASE ~WorkerTake(w)
    <3>1. \A v \in Workers : worker'[v] = "run" => worker[v] = "run" /\ holds'[v] = holds[v]
      BY <2>2 DEF WorkerStep, WorkerWake, WorkerLoop, WorkerStop, WorkerSleep,
         WorkerDone, WorkerSpuriousWake, TypeOK
    <3> QED
      BY <1>1, <3>1 DEF Reply, RunningIsOpen
  <2> QED
    BY <2>1, <2>2
<1>4. Counted'
  BY <1>1 DEF Reply, Counted
<1>5. WaitingIsFresh'
  BY <1>1, <1>2 DEF Reply, WaitingIsFresh
<1>6. ShutdownBypassesPool'
  BY <1>1, <1>2 DEF Reply, ShutdownBypassesPool
<1> QED
  BY <1>3, <1>4, <1>5, <1>6 DEF Reply

\* The communication thread takes a command off the uplink into rx_queue.
LEMMA ReplyComms ==
  ASSUME TypeOK, Reply, CommsStep
  PROVE  Reply'
<1>1. /\ UNCHANGED <<tasks, holds, worker, main_cmd, calls, replies>>
      /\ uplink' \cup rx_queue' \subseteq uplink \cup rx_queue
      /\ main' = main \/ (main = "asleep" /\ main' = "loop")
  BY DEF CommsStep, CommsBegin, CommsLoop, CommsNothing, CommsReceiveInvalid,
         CommsReceive, CommsNotify, CommsNoMessage, CommsTakeMessage, CommsSend,
         CommsSendFails
<1>2. Queued' = Queued /\ Held' = Held
  BY <1>1 DEF Queued, Held
<1> QED
  BY <1>1, <1>2
     DEF Reply, Counted, WaitingIsFresh, RunningIsOpen, ShutdownBypassesPool, Closing, Gone

\* The main thread: it begins a SHUTDOWN when it pops it, answers it once at
\* the end, and gives every other command to the pool as it got it.
LEMMA ReplyMain ==
  ASSUME TypeOK, Control, OnePlace, Reply, MainStep
  PROVE  Reply'
<1> USE DEF MainGoto
<1>1. ASSUME NEW c \in Cmds, PopForPool(c) PROVE Reply'
  <2>1. /\ c \in rx_queue /\ rx_queue' = rx_queue \ {c} /\ main_cmd' = c
        /\ main = "loop" /\ main' = "enqueue"
        /\ UNCHANGED <<uplink, tasks, holds, worker, calls, replies>>
    BY <1>1 DEF PopForPool, Pop
  <2>2. Queued' = Queued /\ Held' = Held
    BY <2>1 DEF Queued, Held
  <2> QED
    BY <2>1, <2>2
       DEF Reply, Counted, WaitingIsFresh, RunningIsOpen, ShutdownBypassesPool, Closing, Gone
<1>2. ASSUME NEW c \in Cmds, PopShutdown(c) PROVE Reply'
  <2>1. /\ c \in rx_queue /\ rx_queue' = rx_queue \ {c} /\ main_cmd' = c
        /\ main = "loop" /\ main' = "stop_services" /\ c \in Shutdowns
        /\ UNCHANGED <<uplink, tasks, holds, worker, replies>>
        /\ calls' = [calls EXCEPT ![c] = @ + 1]
    BY <1>2 DEF PopShutdown, Pop, Called
  <2>2. Queued' = Queued /\ Held' = Held
    BY <2>1 DEF Queued, Held
  <2>3. calls[c] = 0
    BY <2>1 DEF Reply, WaitingIsFresh
  <2>4. replies[c] = 0
    <3>1. replies[c] \in Nat
      BY DEF TypeOK
    <3> QED
      BY <2>3, <3>1 DEF Reply, Counted
  <2>5. calls'[c] = 1 /\ \A d \in Cmds \ {c} : calls'[d] = calls[d]
    BY <2>1, <2>3 DEF TypeOK
  <2>6. Counted'
    <3>1. 1 <= MaxAttempts
      BY PipelineAssumption
    <3>2. calls'[c] <= MaxAttempts /\ replies'[c] <= 1 /\ replies'[c] <= calls'[c]
      BY <2>1, <2>4, <2>5, <3>1
    <3>3. ASSUME NEW d \in Cmds \ {c}
          PROVE  calls'[d] <= MaxAttempts /\ replies'[d] <= 1 /\ replies'[d] <= calls'[d]
      BY <2>1, <2>5 DEF Reply, Counted
    <3> QED
      BY <3>2, <3>3 DEF Counted
  <2>7. WaitingIsFresh'
    <3>1. c \notin uplink \cup Queued
      BY <2>1 DEF OnePlace
    <3>2. uplink \cup rx_queue \cup Queued \subseteq Cmds
      BY DEF Queued, TypeOK
    <3> QED
      BY <2>1, <2>2, <2>4, <2>5, <3>1, <3>2 DEF Reply, WaitingIsFresh
  <2>8. RunningIsOpen'
    <3>1. ASSUME NEW v \in Workers, worker[v] = "run"
          PROVE  holds[v] \in Cmds \ {c}
      <4>1. holds[v] \in Cmds
        BY <3>1 DEF Control, WorkerControl
      <4>2. holds[v] \in Held
        BY <4>1, PoolAssumption DEF Held
      <4>3. holds[v] \notin Shutdowns
        BY <4>2 DEF Reply, ShutdownBypassesPool
      <4> QED
        BY <2>1, <4>1, <4>3
    <3> QED
      BY <2>1, <2>5, <3>1 DEF Reply, RunningIsOpen
  <2>9. ShutdownBypassesPool'
    BY <2>1, <2>2 DEF Reply, ShutdownBypassesPool, Gone
  <2> QED
    BY <2>6, <2>7, <2>8, <2>9 DEF Reply
<1>3. CASE MainEnqueue
  <2>1. /\ main = "enqueue" /\ main' = "notify"
        /\ UNCHANGED <<uplink, rx_queue, holds, worker, calls, replies>>
        /\ tasks' = Append(tasks, main_cmd) /\ main_cmd \in Cmds \ Shutdowns
    BY <1>3 DEF MainEnqueue, Push, Control, MainControl
  <2>2. Queued' = Queued \cup {main_cmd} /\ Held' = Held
    BY <2>1, QueuedAppend DEF Held
  <2> QED
    BY <2>1, <2>2
       DEF Reply, Counted, WaitingIsFresh, RunningIsOpen, ShutdownBypassesPool, Closing, Gone
<1>4. CASE AckShutdown
  <2>1. /\ main = "ack" /\ main' = "destroy" /\ main_cmd \in Shutdowns
        /\ UNCHANGED <<uplink, rx_queue, tasks, holds, worker, calls>>
        /\ replies' = [replies EXCEPT ![main_cmd] = @ + 1]
    BY <1>4 DEF AckShutdown, Transmit, Control, MainControl, Closing
  <2>2. Queued' = Queued /\ Held' = Held
    BY <2>1 DEF Queued, Held
  <2>3. main_cmd \in Cmds /\ calls[main_cmd] = 1 /\ replies[main_cmd] = 0
    BY <2>1, PipelineAssumption DEF Reply, WaitingIsFresh, Closing
  <2>4. replies'[main_cmd] = 1 /\ \A d \in Cmds \ {main_cmd} : replies'[d] = replies[d]
    BY <2>1, <2>3 DEF TypeOK
  <2>5. Counted'
    <3>1. 1 <= MaxAttempts
      BY PipelineAssumption
    <3>2. ASSUME NEW d \in Cmds
          PROVE  calls'[d] <= MaxAttempts /\ replies'[d] <= 1 /\ replies'[d] <= calls'[d]
      BY <2>1, <2>3, <2>4, <3>1 DEF Reply, Counted
    <3> QED
      BY <3>2 DEF Counted
  <2>6. WaitingIsFresh'
    BY <2>1, <2>2 DEF Reply, WaitingIsFresh, Closing
  <2>7. RunningIsOpen'
    <3>1. ASSUME NEW v \in Workers, worker[v] = "run"
          PROVE  holds[v] \in Cmds \ {main_cmd}
      <4>1. holds[v] \in Cmds
        BY <3>1 DEF Control, WorkerControl
      <4>2. holds[v] \in Held
        BY <4>1, PoolAssumption DEF Held
      <4>3. holds[v] \notin Shutdowns
        BY <4>2 DEF Reply, ShutdownBypassesPool
      <4> QED
        BY <2>1, <4>1, <4>3
    <3> QED
      BY <2>1, <2>4, <3>1 DEF Reply, RunningIsOpen
  <2>8. ShutdownBypassesPool'
    BY <2>1, <2>2 DEF Reply, ShutdownBypassesPool, Gone
  <2> QED
    BY <2>5, <2>6, <2>7, <2>8 DEF Reply
<1>5. CASE StopPool
  <2>1. /\ main = "stop_pool" /\ main' = "wake_pool" /\ tasks' = <<>>
        /\ UNCHANGED <<uplink, rx_queue, main_cmd, holds, worker, calls, replies>>
    BY <1>5 DEF StopPool, StopAndDiscard
  <2>2. Queued' = {} /\ Held' = Held
    BY <2>1 DEF Queued, Held
  <2> QED
    BY <2>1, <2>2
       DEF Reply, Counted, WaitingIsFresh, RunningIsOpen, ShutdownBypassesPool, Closing, Gone
<1>6. CASE MainNotifyOne \/ WakePool
  <2>1. /\ UNCHANGED <<uplink, rx_queue, main_cmd, tasks, holds, calls, replies>>
        /\ \A v \in Workers : worker'[v] = "run" => worker[v] = "run"
    BY <1>6 DEF MainNotifyOne, NotifyOne, Goto, WakePool, NotifyAll, TypeOK
  <2>2. Queued' = Queued /\ Held' = Held
    BY <2>1 DEF Queued, Held
  <2>3. \/ main = "notify" /\ main' = "loop"
        \/ main = "wake_pool" /\ main' = "join_pool"
    BY <1>6 DEF MainNotifyOne, WakePool
  <2> QED
    BY <2>1, <2>2, <2>3
       DEF Reply, Counted, WaitingIsFresh, RunningIsOpen, ShutdownBypassesPool, Closing, Gone
<1>7. CASE \/ StartCommunicationThread \/ StartServices \/ MainFindsNothing \/ MainSleeps
           \/ (\E i \in 1 .. 3 : StopService(i) \/ ServiceNeverEnds(i)) \/ JoinPool
           \/ StopCommunication \/ JoinCommunication
  <2>1. UNCHANGED <<uplink, rx_queue, main_cmd, tasks, holds, worker, calls, replies>>
    BY <1>7 DEF StartCommunicationThread, StartServices, MainFindsNothing, MainSleeps,
       StopService, ServiceNeverEnds, JoinsService, JoinPool, StopCommunication, JoinCommunication
  <2>2. Queued' = Queued /\ Held' = Held
    BY <2>1 DEF Queued, Held
  <2>3. /\ main' # "enqueue"
        /\ main' \in Closing => main \in Closing
        /\ main \in Gone => main' \in Gone
    BY <1>7 DEF StartCommunicationThread, StartServices, MainFindsNothing, MainSleeps,
       StopService, ServiceNeverEnds, JoinsService, JoinPool, StopCommunication, JoinCommunication, Closing, Gone
  <2> QED
    BY <2>1, <2>2, <2>3
       DEF Reply, Counted, WaitingIsFresh, RunningIsOpen, ShutdownBypassesPool
<1> QED
  BY <1>1, <1>2, <1>3, <1>4, <1>5, <1>6, <1>7 DEF MainStep

\* Reply is inductive relative to the types, Control and OnePlace.
LEMMA ReplyStep ==
  ASSUME TypeOK, Control, OnePlace, Reply, [Next]_vars
  PROVE  Reply'
<1>1. CASE MainSpuriousWake \/ Tick \/ LeftEnds \/ UNCHANGED vars
  <2>1. /\ UNCHANGED <<uplink, rx_queue, main_cmd, tasks, holds, worker, calls, replies>>
        /\ main' = main \/ (main = "asleep" /\ main' = "loop")
    BY <1>1 DEF MainSpuriousWake, MainGoto, Tick, LeftEnds, DetachedEnds
  <2>2. Queued' = Queued /\ Held' = Held
    BY <2>1 DEF Queued, Held
  <2> QED
    BY <2>1, <2>2
       DEF Reply, Counted, WaitingIsFresh, RunningIsOpen, ShutdownBypassesPool, Closing, Gone
<1> QED
  BY <1>1, ReplyComms, ReplyMain, ReplyWorker, ReplyHandler DEF Next, LeftEnds

\* The whole invariant of the reply argument.
LEMMA ReplyInvariant == Spec => [](TypeOK /\ Control /\ OnePlace /\ Reply)
<1>1. Init => TypeOK /\ Control /\ OnePlace /\ Reply
  BY TypeInit, ControlInit, OnePlaceInit, ReplyInit
<1>2. TypeOK /\ Control /\ OnePlace /\ Reply /\ [Next]_vars
        => (TypeOK /\ Control /\ OnePlace /\ Reply)'
  BY ControlStep, OnePlaceStep, ReplyStep
<1> QED
  BY <1>1, <1>2, PTL DEF Spec

\* A command is answered at most once, however often its handler is retried.
THEOREM RepliedOnceHolds == Spec => []RepliedOnce
<1>1. Reply => RepliedOnce
  BY DEF Reply, Counted, RunningIsOpen, RepliedOnce
<1> QED
  BY <1>1, ReplyInvariant, PTL

\* The ACK of SHUTDOWN is queued after every worker and service has ended: what is
\* still at work then are threads that handlers have left behind.
THEOREM AckAfterQuiescenceHolds == Spec => []AckAfterQuiescence
<1>1. ASSUME Control, Reply PROVE AckAfterQuiescence
  <2>1. SUFFICES ASSUME NEW c \in Shutdowns, replies[c] > 0
                 PROVE  AllJoined /\ services = {} /\ stop /\ AtWork \subseteq detached
    BY DEF AckAfterQuiescence
  <2>2. AllJoined /\ services = {} /\ stop /\ tasks = <<>>
    BY <1>1, <2>1 DEF Control, PoolControl, MainControl, Reply, ShutdownBypassesPool,
       Stopped, Gone
  <2>3. Queued = {}
    BY <2>2 DEF Queued
  <2>4. Held = {}
    BY <1>1, <2>2 DEF Held, AllJoined, Control, WorkerControl
  <2> QED
    BY <2>2, <2>3, <2>4 DEF AtWork
<1> QED
  BY <1>1, ReplyInvariant, PTL
(***************************************************************************)
(* Order.  A command on its way is not younger than what is behind it: the *)
(* RX queue, then the hands of the main thread, then the pool's queue, and *)
(* ahead of all of them what has begun.  The clock is ahead of everything. *)
(***************************************************************************)
Timely == \A c \in Cmds : born[c] <= clock

InHandInOrder ==
  main = "enqueue" =>
    /\ \A d \in rx_queue : born[main_cmd] <= born[d]
    /\ \A c \in Queued \cup (Begun \ Shutdowns) : born[c] <= born[main_cmd]

Order == Timely /\ BegunInOrder /\ InHandInOrder

\* What has begun is a command.
LEMMA BegunAreCommands ==
  ASSUME TypeOK, Control
  PROVE  Begun \subseteq Cmds /\ Queued \subseteq Cmds
  BY DEF Begun, Queued, TypeOK, Control, WorkerControl

\* A step of a handler begins nothing: it runs what has begun.
LEMMA BegunHandler ==
  ASSUME TypeOK, Control, NEW w \in Workers, HandlerStep(w)
  PROVE  Begun' \subseteq Begun
<1> DEFINE c == holds[w]
<1>1. worker[w] = "run" /\ c \in Cmds /\ holds' = holds
  BY DEF HandlerStep, HandlerReturns, HandlerThrows, HandlerGivesUp, Goto, Control,
         WorkerControl
<1>2. c \in Begun
  BY <1>1 DEF Begun
<1>3. calls' = [calls EXCEPT ![c] = @ + 1]
  BY DEF HandlerStep, HandlerReturns, HandlerThrows, HandlerGivesUp, Called
<1>4. \A v \in Workers : worker'[v] = "run" => worker[v] = "run"
  BY DEF HandlerStep, HandlerReturns, HandlerThrows, HandlerGivesUp, Goto, TypeOK
<1>5. \A d \in Cmds : d # c => calls'[d] = calls[d]
  BY <1>3 DEF TypeOK
<1> QED
  BY <1>1, <1>2, <1>4, <1>5 DEF Begun

\* A worker begins the task it takes, and no other.
LEMMA BegunWorker ==
  ASSUME TypeOK, NEW w \in Workers, WorkerStep(w) \/ WorkerWake(w)
  PROVE  \/ Begun' \subseteq Begun /\ tasks' = tasks
         \/ WorkerTake(w) /\ Begun' \subseteq Begun \cup {Head(tasks)}
<1> USE DEF Goto
<1>0. calls' = calls
  BY DEF WorkerStep, WorkerWake
<1>1. CASE WorkerTake(w)
  <2>1. /\ \A v \in Workers \ {w} : worker'[v] = worker[v] /\ holds'[v] = holds[v]
        /\ holds'[w] = Head(tasks)
    BY <1>1 DEF WorkerTake, TypeOK
  <2> QED
    BY <1>0, <1>1, <2>1 DEF Begun
<1>2. CASE ~WorkerTake(w)
  <2>1. \A v \in Workers : worker'[v] = "run" => worker[v] = "run" /\ holds'[v] = holds[v]
    BY <1>2 DEF WorkerStep, WorkerWake, WorkerLoop, WorkerStop, WorkerSleep, WorkerDone,
                WorkerSpuriousWake, TypeOK
  <2>2. tasks' = tasks
    BY <1>2 DEF WorkerStep, WorkerWake, WorkerLoop, WorkerStop, WorkerSleep, WorkerDone,
                WorkerSpuriousWake
  <2> QED
    BY <1>0, <2>1, <2>2 DEF Begun
<1> QED
  BY <1>1, <1>2

\* Where nothing is begun, received or passed on, the order stays.
LEMMA OrderKept ==
  ASSUME TypeOK, Order, born' = born, tasks' = tasks, main_cmd' = main_cmd,
         rx_queue' \subseteq rx_queue, Begun' \subseteq Begun,
         main' = "enqueue" => main = "enqueue", clock' = clock \/ clock' = clock + 1
  PROVE  Order'
<1>1. Queued' = Queued
  BY DEF Queued
<1>2. Timely'
  <2>1. ASSUME NEW c \in Cmds PROVE born[c] <= clock'
    <3>1. born[c] \in Nat /\ clock \in Nat /\ born[c] <= clock
      BY DEF TypeOK, Order, Timely
    <3> QED BY <3>1
  <2> QED BY <2>1 DEF Timely
<1>3. BegunInOrder'
  BY <1>1 DEF Order, BegunInOrder
<1>4. InHandInOrder'
  BY <1>1 DEF Order, InHandInOrder
<1> QED
  BY <1>2, <1>3, <1>4 DEF Order

\* A command that arrives is the youngest.
LEMMA OrderReceive ==
  ASSUME TypeOK, Control, OnePlace, Reply, Order, NEW c \in Cmds, CommsReceive(c)
  PROVE  Order'
<1>1. /\ c \in uplink /\ rx_queue' = rx_queue \cup {c} /\ born' = [born EXCEPT ![c] = clock]
      /\ UNCHANGED <<tasks, worker, holds, clock, main, main_cmd, calls>>
  BY DEF CommsReceive
<1>2. Queued' = Queued /\ Begun' = Begun
  BY <1>1 DEF Queued, Begun
<1>3. c \notin Queued /\ c \notin rx_queue /\ c # main_cmd
  BY <1>1 DEF OnePlace
<1>4. c \notin Begun
  <2>1. ~(calls[c] > 0)
    BY <1>1 DEF Reply, WaitingIsFresh
  <2>2. c \notin Held
    BY <1>1 DEF OnePlace
  <2> QED
    BY <2>1, <2>2, PoolAssumption DEF Begun, Held
<1>5. born'[c] = clock /\ \A d \in Cmds \ {c} : born'[d] = born[d]
  BY <1>1 DEF TypeOK
<1>6. Begun \subseteq Cmds /\ Queued \subseteq Cmds /\ rx_queue \subseteq Cmds
  BY BegunAreCommands DEF TypeOK
<1>7. \A d \in Cmds : born[d] <= clock
  BY DEF Order, Timely
<1>8. Timely'
  BY <1>1, <1>5, <1>7 DEF Timely, TypeOK
<1>9. ASSUME NEW d \in rx_queue', NEW e \in Begun \cup Queued PROVE born'[e] <= born'[d]
  BY <1>1, <1>3, <1>4, <1>5, <1>6, <1>7, <1>9 DEF Order, BegunInOrder
<1>10. ASSUME NEW d \in Queued, NEW e \in Begun \ Shutdowns PROVE born'[e] <= born'[d]
  BY <1>3, <1>4, <1>5, <1>6, <1>10 DEF Order, BegunInOrder
<1>11. ASSUME NEW i \in 1 .. Len(tasks), NEW j \in 1 .. Len(tasks), i < j
       PROVE  born'[tasks[i]] <= born'[tasks[j]]
  <2>1. tasks[i] \in Queued /\ tasks[j] \in Queued
    BY DEF Queued
  <2> QED
    BY <1>3, <1>5, <1>6, <1>11, <2>1 DEF Order, BegunInOrder
<1>12. InHandInOrder'
  <2> SUFFICES ASSUME main = "enqueue" PROVE InHandInOrder'
    BY <1>1 DEF InHandInOrder
  <2>1. main_cmd \in Cmds
    BY DEF Control, MainControl
  <2>2. born'[main_cmd] = born[main_cmd] /\ born[main_cmd] <= clock
    BY <1>3, <1>5, <1>7, <2>1
  <2>3. ASSUME NEW d \in rx_queue' PROVE born'[main_cmd] <= born'[d]
    BY <1>1, <1>3, <1>5, <1>6, <2>2, <2>3 DEF Order, InHandInOrder
  <2>4. ASSUME NEW e \in Queued \cup (Begun \ Shutdowns) PROVE born'[e] <= born'[main_cmd]
    BY <1>3, <1>4, <1>5, <1>6, <2>2, <2>4 DEF Order, InHandInOrder
  <2> QED
    BY <1>1, <1>2, <2>3, <2>4 DEF InHandInOrder
<1>13. BegunInOrder'
  BY <1>1, <1>2, <1>9, <1>10, <1>11 DEF BegunInOrder
<1> QED
  BY <1>8, <1>12, <1>13 DEF Order

\* The worker takes the oldest of the pool's queue.
LEMMA OrderTake ==
  ASSUME TypeOK, Control, Order, NEW w \in Workers, WorkerTake(w), WorkerStep(w)
  PROVE  Order'
<1> DEFINE c == Head(tasks)
<1>1. /\ tasks # <<>> /\ tasks' = Tail(tasks)
      /\ UNCHANGED <<born, rx_queue, clock, main, main_cmd>>
  BY DEF WorkerTake, WorkerStep
<1>2. Begun' \subseteq Begun \cup {c}
  BY <1>1, BegunWorker
<1>3. /\ c = tasks[1] /\ 1 \in 1 .. Len(tasks) /\ Len(tasks') = Len(tasks) - 1
      /\ \A i \in 1 .. Len(tasks') : tasks'[i] = tasks[i + 1] /\ i + 1 \in 1 .. Len(tasks)
      /\ Queued' \subseteq Queued /\ c \in Queued
  BY <1>1, QueuedTail
<1>4. Len(tasks) \in Nat
  BY DEF TypeOK
<1>5. ASSUME NEW i \in 1 .. Len(tasks), NEW j \in 1 .. Len(tasks), i < j
      PROVE  born[tasks[i]] <= born[tasks[j]]
  BY <1>5 DEF Order, BegunInOrder
<1>6. ASSUME NEW d \in Queued' PROVE born[c] <= born[d]
  <2>1. PICK i \in 1 .. Len(tasks') : d = tasks'[i]
    BY <1>6 DEF Queued
  <2>2. d = tasks[i + 1] /\ i + 1 \in 1 .. Len(tasks) /\ 1 < i + 1
    BY <1>3, <1>4, <2>1
  <2> QED
    BY <1>3, <1>5, <2>2
<1>7. ASSUME NEW i \in 1 .. Len(tasks'), NEW j \in 1 .. Len(tasks'), i < j
      PROVE  born[tasks'[i]] <= born[tasks'[j]]
  <2>1. i + 1 \in 1 .. Len(tasks) /\ j + 1 \in 1 .. Len(tasks) /\ i + 1 < j + 1
    BY <1>3, <1>4, <1>7
  <2> QED
    BY <1>3, <1>5, <2>1
<1>8. BegunInOrder'
  <2>1. ASSUME NEW d \in rx_queue, NEW e \in Begun' \cup Queued' PROVE born[e] <= born[d]
    BY <1>2, <1>3, <2>1 DEF Order, BegunInOrder
  <2>2. ASSUME NEW d \in Queued', NEW e \in Begun' \ Shutdowns PROVE born[e] <= born[d]
    BY <1>2, <1>3, <1>6, <2>2 DEF Order, BegunInOrder
  <2> QED
    BY <1>1, <1>7, <2>1, <2>2 DEF BegunInOrder
<1>9. InHandInOrder'
  BY <1>1, <1>2, <1>3 DEF Order, InHandInOrder
<1>10. Timely'
  BY <1>1 DEF Order, Timely
<1> QED
  BY <1>8, <1>9, <1>10 DEF Order

\* The main thread: it pops the oldest command and puts it at the end of the
\* pool's queue.
LEMMA OrderMain ==
  ASSUME TypeOK, Control, Order, MainStep
  PROVE  Order'
<1> USE DEF MainGoto
<1>1. ASSUME NEW c \in Cmds, PopForPool(c) PROVE Order'
  <2>1. /\ c \in rx_queue /\ Oldest(c) /\ rx_queue' = rx_queue \ {c} /\ main_cmd' = c
        /\ UNCHANGED <<born, clock, tasks, worker, holds, calls>>
    BY <1>1 DEF PopForPool, Pop
  <2>2. Queued' = Queued /\ Begun' = Begun
    BY <2>1 DEF Queued, Begun
  <2>3. Timely' /\ BegunInOrder'
    BY <2>1, <2>2 DEF Order, Timely, BegunInOrder
  <2>4. InHandInOrder'
    BY <2>1, <2>2 DEF Order, BegunInOrder, InHandInOrder, Oldest
  <2> QED
    BY <2>3, <2>4 DEF Order
<1>2. ASSUME NEW c \in Cmds, PopShutdown(c) PROVE Order'
  <2>1. /\ c \in Shutdowns /\ c \in rx_queue /\ Oldest(c) /\ rx_queue' = rx_queue \ {c}
        /\ UNCHANGED <<born, clock, tasks, worker, holds>> /\ main' = "stop_services"
        /\ calls' = [calls EXCEPT ![c] = @ + 1]
    BY <1>2 DEF PopShutdown, Pop, Called
  <2>2. Queued' = Queued
    BY <2>1 DEF Queued
  <2>3. Begun' \subseteq Begun \cup {c}
    <3>1. \A d \in Cmds \ {c} : calls'[d] = calls[d]
      BY <2>1 DEF TypeOK
    <3> QED
      BY <2>1, <3>1 DEF Begun
  <2>4. ASSUME NEW d \in rx_queue', NEW e \in Begun' \cup Queued PROVE born[e] <= born[d]
    BY <2>1, <2>3, <2>4 DEF Order, BegunInOrder, Oldest
  <2>5. BegunInOrder'
    BY <2>1, <2>2, <2>3, <2>4 DEF Order, BegunInOrder
  <2> QED
    BY <2>1, <2>5 DEF Order, Timely, InHandInOrder
<1>3. CASE MainEnqueue
  <2>1. /\ main = "enqueue" /\ main' = "notify" /\ main_cmd \in Cmds
        /\ tasks' = Append(tasks, main_cmd)
        /\ UNCHANGED <<born, clock, rx_queue, worker, holds, calls>>
    BY <1>3 DEF MainEnqueue, Push, Control, MainControl
  <2>2. /\ Queued' = Queued \cup {main_cmd} /\ Len(tasks') = Len(tasks) + 1
        /\ tasks'[Len(tasks) + 1] = main_cmd
        /\ \A i \in 1 .. Len(tasks) : tasks'[i] = tasks[i]
    BY <2>1, QueuedAppend
  <2>3. Begun' = Begun /\ Len(tasks) \in Nat
    BY <2>1 DEF Begun, TypeOK
  <2>4. ASSUME NEW i \in 1 .. Len(tasks'), NEW j \in 1 .. Len(tasks'), i < j
        PROVE  born[tasks'[i]] <= born[tasks'[j]]
    <3>1. i \in 1 .. Len(tasks) /\ tasks'[i] = tasks[i]
      BY <2>2, <2>3, <2>4
    <3>2. CASE j \in 1 .. Len(tasks)
      BY <2>2, <2>4, <3>1, <3>2 DEF Order, BegunInOrder
    <3>3. CASE j = Len(tasks) + 1
      <4>1. tasks[i] \in Queued
        BY <3>1 DEF Queued
      <4> QED
        BY <2>1, <2>2, <3>1, <3>3, <4>1 DEF Order, InHandInOrder
    <3> QED
      BY <2>2, <2>3, <3>2, <3>3
  <2>5. BegunInOrder'
    <3>1. ASSUME NEW d \in rx_queue, NEW e \in Begun \cup Queued' PROVE born[e] <= born[d]
      BY <2>1, <2>2, <3>1 DEF Order, BegunInOrder, InHandInOrder
    <3>2. ASSUME NEW d \in Queued', NEW e \in Begun \ Shutdowns PROVE born[e] <= born[d]
      BY <2>1, <2>2, <3>2 DEF Order, BegunInOrder, InHandInOrder
    <3> QED
      BY <2>1, <2>3, <2>4, <3>1, <3>2 DEF BegunInOrder
  <2> QED
    BY <2>1, <2>5 DEF Order, Timely, InHandInOrder
<1>4. CASE StopPool
  <2>1. /\ tasks' = <<>> /\ main' = "wake_pool"
        /\ UNCHANGED <<born, clock, rx_queue, worker, holds, calls>>
    BY <1>4 DEF StopPool, StopAndDiscard
  <2>2. Queued' = {} /\ Begun' = Begun
    BY <2>1 DEF Queued, Begun
  <2> QED
    BY <2>1, <2>2 DEF Order, Timely, BegunInOrder, InHandInOrder
<1>5. CASE MainNotifyOne \/ WakePool
  <2>1. /\ UNCHANGED <<born, clock, rx_queue, main_cmd, tasks, holds, calls>>
        /\ \A v \in Workers : worker'[v] = "run" => worker[v] = "run"
        /\ main' # "enqueue"
    BY <1>5 DEF MainNotifyOne, NotifyOne, Goto, WakePool, NotifyAll, TypeOK
  <2>2. Begun' \subseteq Begun
    BY <2>1 DEF Begun
  <2> QED
    BY <2>1, <2>2, OrderKept
<1>6. CASE AckShutdown
  <2>1. /\ UNCHANGED <<born, clock, rx_queue, tasks, worker, holds, calls>>
        /\ main' = "destroy"
    BY <1>6 DEF AckShutdown
  <2>2. Queued' = Queued /\ Begun' = Begun
    BY <2>1 DEF Queued, Begun
  <2> QED
    BY <2>1, <2>2 DEF Order, Timely, BegunInOrder, InHandInOrder
<1>7. CASE \/ StartCommunicationThread \/ StartServices \/ MainFindsNothing \/ MainSleeps
           \/ (\E i \in 1 .. 3 : StopService(i) \/ ServiceNeverEnds(i)) \/ JoinPool
           \/ StopCommunication \/ JoinCommunication
  <2>1. /\ UNCHANGED <<born, clock, rx_queue, main_cmd, tasks, holds, worker, calls>>
        /\ main' # "enqueue"
    BY <1>7 DEF StartCommunicationThread, StartServices, MainFindsNothing, MainSleeps,
       StopService, ServiceNeverEnds, JoinsService, JoinPool, StopCommunication, JoinCommunication
  <2>2. Begun' = Begun
    BY <2>1 DEF Begun
  <2> QED
    BY <2>1, <2>2, OrderKept
<1> QED
  BY <1>1, <1>2, <1>3, <1>4, <1>5, <1>6, <1>7 DEF MainStep

LEMMA OrderStep ==
  ASSUME TypeOK, Control, OnePlace, Reply, Order, [Next]_vars
  PROVE  Order'
<1>1. CASE CommsStep /\ ~\E c \in Cmds : CommsReceive(c)
  <2>1. /\ UNCHANGED <<born, clock, rx_queue, main_cmd, tasks, holds, worker, calls>>
        /\ main' = main \/ main' = "loop"
    BY <1>1 DEF CommsStep, CommsBegin, CommsLoop, CommsNothing, CommsReceiveInvalid,
       CommsNotify, CommsNoMessage, CommsTakeMessage, CommsSend, CommsSendFails
  <2>2. Begun' = Begun
    BY <2>1 DEF Begun
  <2> QED
    BY <2>1, <2>2, OrderKept
<1>2. CASE MainSpuriousWake \/ Tick \/ LeftEnds \/ UNCHANGED vars
  <2>1. /\ UNCHANGED <<born, rx_queue, main_cmd, tasks, holds, worker, calls>>
        /\ main' = main \/ main' = "loop"
        /\ clock' = clock \/ clock' = clock + 1
    BY <1>2 DEF MainSpuriousWake, MainGoto, Tick, LeftEnds, DetachedEnds
  <2>2. Begun' = Begun
    BY <2>1 DEF Begun
  <2> QED
    BY <2>1, <2>2, OrderKept
<1>3. ASSUME NEW w \in Workers, HandlerStep(w) PROVE Order'
  <2>1. UNCHANGED <<born, clock, rx_queue, main_cmd, tasks, main>>
    BY <1>3 DEF HandlerStep, HandlerReturns, HandlerThrows, HandlerGivesUp
  <2> QED
    BY <1>3, <2>1, BegunHandler, OrderKept
<1>4. ASSUME NEW w \in Workers, WorkerStep(w) \/ WorkerWake(w) PROVE Order'
  <2>1. UNCHANGED <<born, clock, rx_queue, main_cmd, main>>
    BY <1>4 DEF WorkerStep, WorkerWake
  <2>2. CASE Begun' \subseteq Begun /\ tasks' = tasks
    BY <2>1, <2>2, OrderKept
  <2>3. CASE WorkerTake(w)
    <3>1. WorkerStep(w)
      BY <1>4, <2>1, <2>3 DEF WorkerTake, WorkerWake, WorkerSpuriousWake, Goto, WorkerStep
    <3> QED
      BY <2>3, <3>1, OrderTake
  <2> QED
    BY <1>4, <2>2, <2>3, BegunWorker
<1> QED
  BY <1>1, <1>2, <1>3, <1>4, OrderReceive, OrderMain DEF Next, LeftEnds

\* Commands are begun in the order in which they arrived, by the
\* millisecond, for any number of workers and any clock.
THEOREM BegunInOrderHolds == Spec => []BegunInOrder
<1>1. Init => Order
  <2> SUFFICES ASSUME Init PROVE Order
    OBVIOUS
  <2>1. /\ rx_queue = {} /\ tasks = <<>> /\ main = "boot" /\ clock = 0
        /\ \A c \in Cmds : born[c] = 0
    BY DEF Init, PoolInit
  <2>2. Queued = {}
    BY <2>1 DEF Queued
  <2> QED
    BY <2>1, <2>2 DEF Order, Timely, BegunInOrder, InHandInOrder
<1>2. TypeOK /\ Control /\ OnePlace /\ Reply /\ Order /\ [Next]_vars => Order'
  BY OrderStep
<1>3. Order => BegunInOrder
  BY DEF Order
<1> QED
  BY <1>1, <1>2, <1>3, ReplyInvariant, PTL DEF Spec
(***************************************************************************)
(* The refinement.  A command has one place, so exactly one alternative of *)
(* Status applies to it; each step of the pipeline moves at most one       *)
(* command to a place of another status, except the one that stops the     *)
(* pool, which drops all those that the pool's queue holds.                *)
(***************************************************************************)
Runs(c) == \E w \in Workers : worker[w] = "run" /\ holds[w] = c

Placed(c) == c \in uplink \cup rx_queue \cup Queued \/ main_cmd = c \/ Runs(c)

StatusIs(c) ==
  /\ c \in uplink => Status(c) = "unsent"
  /\ c \in rx_queue \cup Queued => Status(c) = "accepted"
  /\ main_cmd = c /\ c \in Shutdowns => Status(c) = "running"
  /\ main_cmd = c /\ c \notin Shutdowns => Status(c) = "accepted"
  /\ Runs(c) => Status(c) = "running"
  /\ ~Placed(c) /\ calls[c] > 0 => Status(c) = "settled"
  /\ ~Placed(c) /\ ~(calls[c] > 0) => Status(c) = "dropped"

\* The places exclude each other.
LEMMA Places ==
  ASSUME OnePlace, NEW c \in Cmds
  PROVE  /\ c \in uplink => c \notin rx_queue \cup Queued /\ main_cmd # c /\ ~Runs(c)
         /\ c \in rx_queue \cup Queued => main_cmd # c /\ ~Runs(c)
         /\ main_cmd = c => ~Runs(c)
<1>1. Runs(c) => c \in Held
  BY PoolAssumption DEF Runs, Held
<1> QED
  BY <1>1 DEF OnePlace

LEMMA PlacesNext ==
  ASSUME OnePlace', NEW c \in Cmds
  PROVE  /\ (c \in uplink => c \notin rx_queue \cup Queued /\ main_cmd # c /\ ~Runs(c))'
         /\ (c \in rx_queue \cup Queued => main_cmd # c /\ ~Runs(c))'
         /\ (main_cmd = c => ~Runs(c))'
<1>1. Runs(c)' => (c \in Held)'
  BY PoolAssumption DEF Runs, Held
<1> QED
  BY <1>1 DEF OnePlace

LEMMA StatusNow == ASSUME OnePlace, NEW c \in Cmds PROVE StatusIs(c)
  BY Places DEF StatusIs, Status, Placed, Runs

LEMMA StatusNext == ASSUME OnePlace', NEW c \in Cmds PROVE StatusIs(c)'
  BY PlacesNext DEF StatusIs, Status, Placed, Runs

\* A command that stays in its place keeps its status.
LEMMA StatusKept ==
  ASSUME OnePlace, OnePlace', NEW c \in Cmds,
         c \in uplink' <=> c \in uplink,
         c \in rx_queue' \cup Queued' <=> c \in rx_queue \cup Queued,
         main_cmd' = c <=> main_cmd = c,
         Runs(c)' <=> Runs(c),
         calls'[c] = calls[c] \/ Placed(c)
  PROVE  Status(c)' = Status(c)
<1>1. StatusIs(c) /\ StatusIs(c)'
  BY StatusNow, StatusNext
<1>2. CASE Placed(c)
  BY <1>1, <1>2 DEF StatusIs, Placed
<1>3. CASE ~Placed(c)
  <2>1. ~Placed(c)' /\ calls'[c] = calls[c]
    BY <1>3 DEF Placed
  <2> QED
    BY <1>1, <1>3, <2>1 DEF StatusIs
<1> QED
  BY <1>2, <1>3
status == [c \in Cmds |-> Status(c)]

\* A step that gives one command another status.
LEMMA OneMoves ==
  ASSUME NEW c \in Cmds, NEW from, NEW to, Status(c) = from, Status(c)' = to,
         \A d \in Cmds \ {c} : Status(d)' = Status(d)
  PROVE  Service!Move(c, from, to)
<1>1. status' = [status EXCEPT ![c] = to]
  BY DEF status
<1>2. status[c] = from
  BY DEF status
<1> QED
  BY <1>1, <1>2 DEF Service!Move, status

NoneMoves == serviceOpen' = serviceOpen /\ \A d \in Cmds : Status(d)' = Status(d)

Sound == TypeOK /\ Control /\ OnePlace /\ Reply

\* A command arrives: Accept.
LEMMA ReceiveAccepts ==
  ASSUME Sound, Sound', NEW c \in Cmds, CommsReceive(c)
  PROVE  Service!Accept(c)
<1> USE DEF Sound
<1>1. /\ c \in uplink /\ uplink' = uplink \ {c} /\ rx_queue' = rx_queue \cup {c}
      /\ UNCHANGED <<tasks, stop, worker, holds, main_cmd, calls>>
  BY DEF CommsReceive
<1>2. Queued' = Queued /\ \A d \in Cmds : Runs(d)' <=> Runs(d)
  BY <1>1 DEF Queued, Runs
<1>3. Status(c) = "unsent" /\ Status(c)' = "accepted"
  BY <1>1, StatusNow, StatusNext DEF StatusIs
<1>4. \A d \in Cmds \ {c} : Status(d)' = Status(d)
  BY <1>1, <1>2, StatusKept
<1> QED
  BY <1>1, <1>3, <1>4, OneMoves DEF Service!Accept, serviceOpen

\* A worker takes a task: Start.
LEMMA TakeStarts ==
  ASSUME Sound, Sound', NEW w \in Workers, WorkerTake(w), WorkerStep(w),
         NEW c \in Cmds, c = Head(tasks)
  PROVE  Service!Start(c)
<1> USE DEF Sound
<1>0. TypeOK /\ tasks \in Seq(Cmds)
  BY DEF TypeOK
<1>1. /\ tasks # <<>> /\ tasks' = Tail(tasks) /\ ~stop /\ worker[w] = "wait"
      /\ UNCHANGED <<stop, uplink, rx_queue, main_cmd, calls>>
  BY DEF WorkerTake, WorkerStep, Goto
<1>2. c \in Queued
  BY <1>0, <1>1, QueuedTail
<1>3. /\ worker'[w] = "run" /\ holds'[w] = c
      /\ \A v \in Workers \ {w} : worker'[v] = worker[v] /\ holds'[v] = holds[v]
  BY DEF WorkerTake, Goto, TypeOK
<1>4. Runs(c)' /\ \A d \in Cmds \ {c} : Runs(d)' <=> Runs(d)
  BY <1>1, <1>3 DEF Runs
<1>5. \A d \in Cmds \ {c} : d \in Queued' <=> d \in Queued
  <2>1. Queued' \subseteq Queued
    BY <1>1, QueuedTail
  <2>2. ASSUME NEW d \in Queued, d # c PROVE d \in Queued'
    <3>1. PICK i \in 1 .. Len(tasks) : d = tasks[i]
      BY <2>2 DEF Queued
    <3>2. i # 1 /\ Len(tasks) \in Nat /\ Len(tasks') = Len(tasks) - 1
      BY <1>0, <1>1, <2>2, <3>1, QueuedTail
    <3>3. i - 1 \in 1 .. Len(tasks') /\ (i - 1) + 1 = i
      BY <3>2
    <3>4. tasks'[i - 1] = tasks[i]
      BY <1>1, <3>3, QueuedTail
    <3> QED
      BY <3>1, <3>3, <3>4 DEF Queued
  <2> QED
    BY <2>1, <2>2
<1>6. Status(c) = "accepted" /\ Status(c)' = "running"
  BY <1>2, <1>4, StatusNow, StatusNext DEF StatusIs
<1>7. \A d \in Cmds \ {c} : Status(d)' = Status(d)
  BY <1>1, <1>4, <1>5, StatusKept
<1> QED
  BY <1>1, <1>2, <1>6, <1>7, OneMoves DEF Service!Start, serviceOpen

\* The handler ends, or fails for the last time: Settle.  Another call of it
\* changes nothing.
LEMMA HandlerSettles ==
  ASSUME Sound, Sound', NEW w \in Workers, HandlerStep(w)
  PROVE  NoneMoves \/ Service!Settle(holds[w])
<1> USE DEF Sound
<1> DEFINE c == holds[w]
<1>1. /\ UNCHANGED <<tasks, stop, uplink, rx_queue, main_cmd, holds>>
      /\ worker[w] = "run" /\ c \in Cmds
      /\ calls' = [calls EXCEPT ![c] = @ + 1]
      /\ worker' = worker \/ worker' = [worker EXCEPT ![w] = "ran"]
  BY DEF HandlerStep, HandlerReturns, HandlerThrows, HandlerGivesUp, Called, Goto, Control,
         WorkerControl
<1>2. /\ Queued' = Queued
      /\ calls'[c] > 0 /\ \A d \in Cmds \ {c} : calls'[d] = calls[d]
  BY <1>1 DEF Queued, TypeOK
<1>3. Runs(c) /\ Placed(c)
  BY <1>1 DEF Runs, Placed
<1>4. CASE worker' = worker
  <2>1. \A d \in Cmds : Runs(d)' <=> Runs(d)
    BY <1>1, <1>4 DEF Runs
  <2>2. \A d \in Cmds : Status(d)' = Status(d)
    BY <1>1, <1>2, <1>3, <2>1, StatusKept
  <2> QED
    BY <1>1, <2>2 DEF NoneMoves, serviceOpen
<1>5. CASE worker' = [worker EXCEPT ![w] = "ran"]
  <2>1. worker'[w] = "ran" /\ \A v \in Workers \ {w} : worker'[v] = worker[v]
    BY <1>5 DEF TypeOK
  <2>2. \A v \in Workers \ {w} : holds[v] # c
    BY <1>1, PoolAssumption DEF OnePlace
  <2>3. ~Runs(c)' /\ \A d \in Cmds \ {c} : Runs(d)' <=> Runs(d)
    BY <1>1, <2>1, <2>2 DEF Runs
  <2>4. ~Placed(c)'
    <3>1. c \notin uplink \cup rx_queue \cup Queued /\ main_cmd # c
      BY <1>3, Places, <1>1
    <3> QED
      BY <1>1, <1>2, <2>3, <3>1 DEF Placed
  <2>5. Status(c) = "running" /\ Status(c)' = "settled"
    BY <1>1, <1>2, <1>3, <2>4, StatusNow, StatusNext DEF StatusIs
  <2>6. \A d \in Cmds \ {c} : Status(d)' = Status(d)
    BY <1>1, <1>2, <2>3, StatusKept
  <2> QED
    BY <1>1, <2>5, <2>6, OneMoves DEF Service!Settle, serviceOpen
<1> QED
  BY <1>1, <1>4, <1>5
\* The steps of a worker around its task.
LEMMA WorkerImplements ==
  ASSUME Sound, Sound', NEW w \in Workers, WorkerStep(w) \/ WorkerWake(w)
  PROVE  NoneMoves \/ \E c \in Cmds : Service!Start(c)
<1> USE DEF Sound
<1>1. CASE WorkerTake(w)
  <2>1. WorkerStep(w)
    BY <1>1 DEF WorkerTake, WorkerWake, WorkerSpuriousWake, Goto, WorkerStep
  <2>2. Head(tasks) \in Cmds
    BY <1>1 DEF WorkerTake, TypeOK
  <2> QED
    BY <1>1, <2>1, <2>2, TakeStarts
<1>2. CASE ~WorkerTake(w)
  <2>1. UNCHANGED <<tasks, stop, uplink, rx_queue, main_cmd, calls>>
    BY <1>2 DEF WorkerStep, WorkerWake, WorkerLoop, WorkerStop, WorkerSleep, WorkerDone,
                WorkerSpuriousWake
  <2>2. \A v \in Workers : /\ worker'[v] = "run" <=> worker[v] = "run"
                           /\ worker[v] = "run" => holds'[v] = holds[v]
    BY <1>2 DEF WorkerStep, WorkerWake, WorkerLoop, WorkerStop, WorkerSleep, WorkerDone,
                WorkerSpuriousWake, Goto, TypeOK
  <2>3. Queued' = Queued /\ \A d \in Cmds : Runs(d)' <=> Runs(d)
    BY <2>1, <2>2 DEF Queued, Runs
  <2>4. \A d \in Cmds : Status(d)' = Status(d)
    BY <2>1, <2>3, StatusKept
  <2> QED
    BY <2>1, <2>4 DEF NoneMoves, serviceOpen
<1> QED
  BY <1>1, <1>2

\* SHUTDOWN is started when it is popped, while the pool is open.
LEMMA PopStarts ==
  ASSUME Sound, Sound', NEW c \in Cmds, PopShutdown(c)
  PROVE  Service!Start(c)
<1> USE DEF Sound
<1>1. /\ c \in rx_queue /\ rx_queue' = rx_queue \ {c} /\ c \in Shutdowns
      /\ main = "loop" /\ main_cmd' = c
      /\ UNCHANGED <<tasks, stop, worker, holds, uplink>>
      /\ calls' = [calls EXCEPT ![c] = @ + 1]
  BY DEF PopShutdown, Pop, MainGoto, Called
<1>2. main_cmd = NoCmd /\ ~stop
  BY <1>1 DEF Control, MainControl, PoolControl, Closing, Stopped, Gone
<1>3. /\ Queued' = Queued /\ \A d \in Cmds : Runs(d)' <=> Runs(d)
      /\ \A d \in Cmds \ {c} : calls'[d] = calls[d]
  BY <1>1 DEF Queued, Runs, TypeOK
<1>4. Status(c) = "accepted" /\ Status(c)' = "running"
  BY <1>1, StatusNow, StatusNext DEF StatusIs
<1>5. \A d \in Cmds \ {c} : Status(d)' = Status(d)
  BY <1>1, <1>2, <1>3, StatusKept, PoolAssumption
<1> QED
  BY <1>1, <1>2, <1>4, <1>5, OneMoves DEF Service!Start, serviceOpen

\* Its ACK settles it.
LEMMA AckSettles ==
  ASSUME Sound, Sound', NEW c \in Cmds, main_cmd = c, AckShutdown
  PROVE  Service!Settle(c)
<1> USE DEF Sound
<1>1. /\ main = "ack" /\ c \in Shutdowns /\ main_cmd' = NoCmd
      /\ UNCHANGED <<tasks, stop, worker, holds, uplink, rx_queue, calls>>
  BY DEF AckShutdown, MainGoto, Control, MainControl, Closing
<1>2. Queued' = Queued /\ \A d \in Cmds : Runs(d)' <=> Runs(d)
  BY <1>1 DEF Queued, Runs
<1>3. calls'[c] > 0
  BY <1>1 DEF Reply, WaitingIsFresh, Closing
<1>4. ~Placed(c)'
  <2>1. c \notin uplink \cup rx_queue \cup Queued /\ ~Runs(c)
    BY Places
  <2> QED
    BY <1>1, <1>2, <2>1, PoolAssumption DEF Placed
<1>5. Status(c) = "running" /\ Status(c)' = "settled"
  BY <1>1, <1>3, <1>4, StatusNow, StatusNext DEF StatusIs
<1>6. \A d \in Cmds \ {c} : Status(d)' = Status(d)
  BY <1>1, <1>2, StatusKept, PoolAssumption
<1> QED
  BY <1>1, <1>5, <1>6, OneMoves DEF Service!Settle, serviceOpen

\* Stopping the pool closes the service and drops what the queue holds.
LEMMA StopCloses ==
  ASSUME Sound, Sound', StopPool
  PROVE  Service!Close
<1> USE DEF Sound
<1>1. /\ main = "stop_pool" /\ tasks' = <<>> /\ stop'
      /\ UNCHANGED <<worker, holds, uplink, rx_queue, main_cmd, calls>>
  BY DEF StopPool, StopAndDiscard, MainGoto
<1>2. ~stop /\ main_cmd \in Shutdowns /\ main_cmd \in Cmds
  BY <1>1, PipelineAssumption DEF Control, PoolControl, MainControl, Stopped, Gone, Closing
<1>3. status[main_cmd] = "running"
  BY <1>2, StatusNow DEF StatusIs, status
<1>4. Queued' = {} /\ \A d \in Cmds : Runs(d)' <=> Runs(d)
  BY <1>1 DEF Queued, Runs
<1>5. ASSUME NEW d \in Cmds, d \in Queued
      PROVE  Status(d) = "accepted" /\ Status(d)' = "dropped"
  <2>1. d \notin uplink \cup rx_queue /\ main_cmd # d /\ ~Runs(d)
    BY <1>5, Places DEF OnePlace
  <2>2. ~Placed(d)'
    BY <1>1, <1>4, <2>1 DEF Placed
  <2>3. ~(calls'[d] > 0)
    BY <1>1, <1>5 DEF Reply, WaitingIsFresh
  <2> QED
    BY <1>5, <2>2, <2>3, StatusNow, StatusNext DEF StatusIs
<1>6. ASSUME NEW d \in Cmds, d \notin Queued PROVE Status(d)' = Status(d)
  BY <1>1, <1>4, <1>6, StatusKept
<1>7. Queued \in SUBSET {c \in Cmds : status[c] = "accepted"}
  <2>1. Queued \subseteq Cmds
    BY BegunAreCommands
  <2> QED
    BY <1>5, <2>1 DEF status
<1>8. status' = [c \in Cmds |-> IF c \in Queued THEN "dropped" ELSE status[c]]
  BY <1>5, <1>6 DEF status
<1>9. serviceOpen' = FALSE
  BY <1>1, Zenon DEF serviceOpen
<1>10. /\ serviceOpen
       /\ \E c \in Shutdowns : status[c] = "running"
       /\ \E D \in SUBSET {c \in Cmds : status[c] = "accepted"} :
           status' = [c \in Cmds |-> IF c \in D THEN "dropped" ELSE status[c]]
  BY <1>2, <1>3, <1>7, <1>8 DEF serviceOpen
<1> QED
  BY <1>9, <1>10 DEF Service!Close, status

\* The main thread: apart from those three steps, it passes commands on
\* within one status.
LEMMA MainImplements ==
  ASSUME Sound, Sound', MainStep
  PROVE  NoneMoves \/ Service!Next
<1> USE DEF Sound
<1>1. ASSUME NEW c \in Cmds, PopForPool(c) PROVE NoneMoves
  <2>1. /\ c \in rx_queue /\ rx_queue' = rx_queue \ {c} /\ c \notin Shutdowns
        /\ main = "loop" /\ main_cmd' = c
        /\ UNCHANGED <<tasks, stop, worker, holds, uplink, calls>>
    BY <1>1 DEF PopForPool, Pop, MainGoto
  <2>2. main_cmd = NoCmd
    BY <2>1 DEF Control, MainControl, Closing
  <2>3. Queued' = Queued /\ \A d \in Cmds : Runs(d)' <=> Runs(d)
    BY <2>1 DEF Queued, Runs
  <2>4. Status(c) = "accepted" /\ Status(c)' = "accepted"
    BY <2>1, StatusNow, StatusNext DEF StatusIs
  <2>5. \A d \in Cmds \ {c} : Status(d)' = Status(d)
    BY <2>1, <2>2, <2>3, StatusKept, PoolAssumption
  <2> QED
    BY <2>1, <2>4, <2>5 DEF NoneMoves, serviceOpen
<1>2. CASE MainEnqueue
  <2>1. PICK c \in Cmds \ Shutdowns : main_cmd = c
    BY <1>2 DEF MainEnqueue, MainGoto, Control, MainControl
  <2>2. /\ main_cmd' = NoCmd /\ tasks' = Append(tasks, c)
        /\ UNCHANGED <<stop, worker, holds, uplink, rx_queue, calls>>
    BY <1>2, <2>1 DEF MainEnqueue, Push
  <2>3. Queued' = Queued \cup {c} /\ \A d \in Cmds : Runs(d)' <=> Runs(d)
    <3>1. TypeOK
      OBVIOUS
    <3>2. Queued' = Queued \cup {c}
      BY <2>2, <3>1, QueuedAppend
    <3> QED
      BY <2>2, <3>2 DEF Runs
  <2>4. Status(c) = "accepted" /\ Status(c)' = "accepted"
    BY <2>1, <2>3, StatusNow, StatusNext DEF StatusIs
  <2>5. \A d \in Cmds \ {c} : Status(d)' = Status(d)
    BY <2>1, <2>2, <2>3, StatusKept, PoolAssumption
  <2> QED
    BY <2>2, <2>4, <2>5 DEF NoneMoves, serviceOpen
<1>3. CASE AckShutdown
  <2>1. main_cmd \in Cmds
    BY <1>3, PipelineAssumption DEF AckShutdown, MainGoto, Control, MainControl, Closing
  <2> QED
    BY <1>3, <2>1, AckSettles DEF Service!Next
<1>4. CASE StopPool
  BY <1>4, StopCloses DEF Service!Next
<1>5. ASSUME NEW c \in Cmds, PopShutdown(c) PROVE Service!Next
  BY <1>5, PopStarts DEF Service!Next
<1>6. CASE \/ StartCommunicationThread \/ StartServices \/ MainFindsNothing \/ MainSleeps
           \/ (\E i \in 1 .. 3 : StopService(i) \/ ServiceNeverEnds(i)) \/ JoinPool
           \/ StopCommunication \/ JoinCommunication \/ MainNotifyOne \/ WakePool
  <2>1. UNCHANGED <<uplink, rx_queue, main_cmd, tasks, stop, holds, calls>>
    BY <1>6 DEF StartCommunicationThread, StartServices, MainFindsNothing, MainSleeps,
       StopService, ServiceNeverEnds, JoinsService, JoinPool, StopCommunication, JoinCommunication, MainNotifyOne, NotifyOne,
       WakePool, NotifyAll
  <2>2. \A v \in Workers : worker'[v] = "run" <=> worker[v] = "run"
    <3>1. CASE MainNotifyOne \/ WakePool
      BY <3>1 DEF MainNotifyOne, NotifyOne, Goto, WakePool, NotifyAll, TypeOK
    <3>2. CASE worker' = worker
      BY <3>2
    <3> QED
      BY <1>6, <3>1, <3>2 DEF StartCommunicationThread, StartServices, MainFindsNothing,
         MainSleeps, StopService, ServiceNeverEnds, JoinsService, JoinPool, StopCommunication, JoinCommunication
  <2>3. Queued' = Queued /\ \A d \in Cmds : Runs(d)' <=> Runs(d)
    BY <2>1, <2>2 DEF Queued, Runs
  <2>4. \A d \in Cmds : Status(d)' = Status(d)
    BY <2>1, <2>3, StatusKept
  <2> QED
    BY <2>1, <2>4 DEF NoneMoves, serviceOpen
<1> QED
  BY <1>1, <1>2, <1>3, <1>4, <1>5, <1>6 DEF MainStep

\* Every step of the pipeline is one of the service, or a stutter.
LEMMA StepImplements ==
  ASSUME Sound, Sound', [Next]_vars
  PROVE  NoneMoves \/ Service!Next
<1>1. CASE \/ CommsStep /\ ~\E c \in Cmds : CommsReceive(c)
           \/ MainSpuriousWake \/ Tick \/ LeftEnds \/ UNCHANGED vars
  <2>1. UNCHANGED <<uplink, rx_queue, main_cmd, tasks, stop, holds, worker, calls>>
    BY <1>1 DEF CommsStep, CommsBegin, CommsLoop, CommsNothing, CommsReceiveInvalid,
       CommsNotify, CommsNoMessage, CommsTakeMessage, CommsSend, CommsSendFails,
       MainSpuriousWake, Tick, LeftEnds, DetachedEnds
  <2>2. Queued' = Queued /\ \A d \in Cmds : Runs(d)' <=> Runs(d)
    BY <2>1 DEF Queued, Runs
  <2>3. \A d \in Cmds : Status(d)' = Status(d)
    BY <2>1, <2>2, StatusKept DEF Sound
  <2> QED
    BY <2>1, <2>3 DEF NoneMoves, serviceOpen
<1>2. ASSUME NEW c \in Cmds, CommsReceive(c) PROVE Service!Next
  BY <1>2, ReceiveAccepts DEF Service!Next
<1>3. ASSUME NEW w \in Workers, WorkerStep(w) \/ WorkerWake(w)
      PROVE  NoneMoves \/ Service!Next
  BY <1>3, WorkerImplements DEF Service!Next
<1>4. ASSUME NEW w \in Workers, HandlerStep(w) PROVE NoneMoves \/ Service!Next
  <2>1. holds[w] \in Cmds
    BY <1>4 DEF HandlerStep, HandlerReturns, HandlerThrows, HandlerGivesUp, Goto, Sound,
       Control, WorkerControl
  <2> QED
    BY <1>4, <2>1, HandlerSettles DEF Service!Next
<1> QED
  BY <1>1, <1>2, <1>3, <1>4, MainImplements DEF Next, LeftEnds

\* The threads, queues and notifications implement the service that accepts
\* a command, starts it at most once, settles it, and closes.
THEOREM ImplementsServiceHolds == Spec => ImplementsService
<1>1. Init => Service!Init
  <2> SUFFICES ASSUME Init PROVE Service!Init
    OBVIOUS
  <2>1. /\ uplink = Cmds /\ rx_queue = {} /\ tasks = <<>> /\ main_cmd = NoCmd /\ stop = FALSE
        /\ \A w \in Workers : worker[w] = "loop"
    BY DEF Init, PoolInit
  <2>2. OnePlace
    BY OnePlaceInit
  <2>3. \A c \in Cmds : Status(c) = "unsent"
    BY <2>1, <2>2, StatusNow DEF StatusIs
  <2>4. serviceOpen = TRUE
    BY <2>1, Zenon DEF serviceOpen
  <2> QED
    BY <2>3, <2>4 DEF Service!Init
<1>2. Sound /\ Sound' /\ [Next]_vars => [Service!Next]_<<[c \in Cmds |-> Status(c)], serviceOpen>>
  <2> SUFFICES ASSUME Sound, Sound', [Next]_vars, NoneMoves
               PROVE  UNCHANGED <<[c \in Cmds |-> Status(c)], serviceOpen>>
    BY StepImplements
  <2>1. status' = status
    BY DEF NoneMoves, status
  <2> QED
    BY <2>1 DEF NoneMoves, status
<1>3. Spec => []Sound
  BY ReplyInvariant DEF Sound
<1> QED
  BY <1>1, <1>2, <1>3, PTL DEF Spec, ImplementsService, Service!Spec
=============================================================================
