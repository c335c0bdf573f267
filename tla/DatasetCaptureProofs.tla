------------------------- MODULE DatasetCaptureProofs -------------------------
(***************************************************************************)
(* Theorems about DatasetCapture, for any number of START and STOP         *)
(* commands on any number of workers, any windows and any clock: the       *)
(* types; that an object outlives its collection thread and every pointer  *)
(* to it; that no thread is joined by two handlers; that no setting of a   *)
(* device is orphaned.  And, for a ground that waits for each reply: that  *)
(* two datasets never collect at once, and that the dataset START          *)
(* acknowledges is the registered one.                                     *)
(*                                                                         *)
(* Inv strengthens these with what they rest on: which handlers may know   *)
(* an object (Unborn, Assigning, Starting), that a running thread is       *)
(* joinable, and that a handler which stops an object took it out of the   *)
(* registry or holds the last pointer.  InOrder and Known are what the     *)
(* waiting ground adds.                                                    *)
(***************************************************************************)
EXTENDS DatasetCapture, TLAPS

-----------------------------------------------------------------------------
(* The invariant *)

Letting == StopSteps \cup {"dtor_join", "drop"}
Stopping(h) == pc[h] \in StopSteps \cup {"dtor_join"}

\* h is at step s, or goes there after it has let go of dm[h].
Toward(h, s) == pc[h] = s \/ (pc[h] \in Letting /\ next[h] = s)

Unborn(h) == pc[h] \in {"idle", "lookup", "running", "erase"} \/ Toward(h, "create")
Assigning(h) == Toward(h, "assign")
Starting(h) == Toward(h, "start") \/ pc[h] = "spawn"

NextInv == next \in [Cmds -> {"create", "assign", "start", "reply", "done"}]

\* A handler that stops or lets go has an object to do that to.
HasObject == \A h \in Cmds : pc[h] \in Letting => dm[h] \in Datasets

\* Nobody knows an object that is yet to be created.
UnbornUnknown ==
  \A d \in Datasets : Unborn(d) =>
    /\ active # d
    /\ \A h \in Cmds : ds[h] # d /\ dm[h] # d
    /\ ~freed[d]

\* Between Create and the assignment to ds, the mutex is held and the new
\* object is the entry.
AssigningHolds ==
  \A h \in Cmds : Assigning(h) => h \in Datasets /\ datasets_mtx = h /\ active = h

StartingHolds == \A h \in Cmds : Starting(h) => ds[h] = h

\* The thread does not exist before Spawn.
Unspawned(d) == Unborn(d) \/ Assigning(d) \/ Starting(d)
UnspawnedQuiet == \A d \in Datasets : Unspawned(d) => thread[d] = "none"

RunningJoinable == \A d \in Datasets : thread[d] \notin {"none", "done"} => joinable[d]

\* What a handler is stopping is not in the registry.
StoppedUnregistered == \A h \in Cmds : Stopping(h) => active # dm[h]

Inv ==
  /\ TypeOK
  /\ NextInv
  /\ HasObject
  /\ UnbornUnknown
  /\ AssigningHolds
  /\ StartingHolds
  /\ UnspawnedQuiet
  /\ RunningJoinable
  /\ StoppedUnregistered
  /\ OneStopper
  /\ ObjectOutlivesThread
  /\ SettingsHaveOwner

USE DEF vars, handlerVars, registryVars, objectVars, deviceVars, camVars

-----------------------------------------------------------------------------
(* What the threads leave alone *)

\* A collection thread changes no pointer; it moves on, once it is there.
LEMMA LoopFrame ==
  ASSUME NEW d \in Datasets, TypeOK, CollectionLoop(d) \/ LoopSpuriousWake(d)
  PROVE  /\ UNCHANGED <<handlerVars, registryVars, capture_start_time, joinable, freed>>
         /\ thread[d] \notin {"none", "done"}
         /\ \E s \in ThreadStates \ {"none"} : thread' = [thread EXCEPT ![d] = s]
<1> USE DEF ThreadGoto, ThreadStates
<1>1. CASE LoopPredicate(d)
  BY <1>1 DEF LoopPredicate
<1>2. CASE LoopSleeps(d) \/ LoopSpuriousWake(d)
  BY <1>2 DEF LoopSleeps, LoopSpuriousWake
<1>3. CASE LoopTimeout(d)
  BY <1>3 DEF LoopTimeout
<1>4. CASE LoopReset(d) \/ LoopPrepare(d) \/ LoopPrepareFails(d)
  BY <1>4 DEF LoopReset, LoopPrepare, LoopPrepareFails
<1>5. CASE LoopConfig(d) \/ LoopMode(d) \/ LoopImu(d)
  BY <1>5 DEF LoopConfig, LoopMode, LoopImu
<1>6. CASE LoopTurn(d) \/ LoopDrain(d) \/ LoopEnds(d)
  BY <1>6 DEF LoopTurn, LoopDrain, LoopEnds
<1>7. CASE EndFlag(d) \/ EndMode(d) \/ EndConfig(d) \/ EndImu(d)
  BY <1>7 DEF EndFlag, EndMode, EndConfig, EndImu
<1> QED
  BY <1>1, <1>2, <1>3, <1>4, <1>5, <1>6, <1>7 DEF CollectionLoop

\* The capture thread touches the camera manager only, and of the settings
\* only the mode, which it clears.
LEMMA CameraFrame ==
  ASSUME CamStep
  PROVE  folder' = folder /\ (mode' = mode \/ mode' = None)
  BY DEF CamStep, CamBegin, CamSave, CamPublish, CamCount, CamCheck, CamFinish, CamDefaults

-----------------------------------------------------------------------------
(* Types *)

\* The initial state is well typed.
LEMMA TypeInit == Init => TypeOK
  BY CaptureAssumption, DatasetAssumption
     DEF Init, CaptureInit, TypeOK, MaybeDataset, HandlerStates, ThreadStates

\* The capture thread keeps the types.
LEMMA TypeCamera == ASSUME TypeOK, CaptureThread PROVE TypeOK'
<1> USE DEF CamGoto, AtMost
<1>1. UNCHANGED <<now, handlerVars, registryVars, objectVars, deviceVars>>
  BY DEF CaptureThread
<1>2. /\ mode' \in MaybeDataset
      /\ folder' \in MaybeDataset
      /\ periodic_frames_captured' \in Nat
      /\ periodic_frames_to_capture' \in Nat
      /\ buffer_frame_ids' \in Seq(MaybeDataset)
      /\ cam' \in {"idle", "save", "count", "check", "finish", "defaults"}
      /\ saved' \in Seq(MaybeDataset)
      /\ turns' \in Nat
  <2>1. CASE CamBegin
    BY <2>1 DEF CamBegin, TypeOK
  <2>2. CASE CamSave
    BY <2>2 DEF CamSave, TypeOK
  <2>3. CASE CamPublish
    BY <2>3 DEF CamPublish, TypeOK
  <2>4. CASE CamCount
    BY <2>4 DEF CamCount, TypeOK
  <2>5. CASE CamCheck
    BY <2>5 DEF CamCheck, TypeOK
  <2>6. CASE CamFinish
    BY <2>6 DEF CamFinish, TypeOK, MaybeDataset
  <2>7. CASE CamDefaults
    BY <2>7, CaptureAssumption DEF CamDefaults, TypeOK
  <2> QED
    BY <2>1, <2>2, <2>3, <2>4, <2>5, <2>6, <2>7 DEF CaptureThread, CamStep
<1> QED
  BY <1>1, <1>2 DEF TypeOK

\* A collection thread keeps the types.
LEMMA TypeLoop ==
  ASSUME TypeOK, NEW d \in Datasets, CollectionLoop(d) \/ LoopSpuriousWake(d)
  PROVE  TypeOK'
<1>1. thread' \in [Datasets -> ThreadStates]
  BY LoopFrame DEF TypeOK
<1>2. /\ UNCHANGED <<handlerVars, registryVars, capture_start_time, joinable, freed>>
  BY LoopFrame
<1> USE DEF TypeOK, MaybeDataset, ThreadGoto
<1>3. CASE \/ LoopPredicate(d) \/ LoopSleeps(d) \/ LoopSpuriousWake(d) \/ LoopTimeout(d)
           \/ LoopTurn(d) \/ LoopEnds(d)
  BY <1>1, <1>3 DEF LoopPredicate, LoopSleeps, LoopSpuriousWake, LoopTimeout, LoopTurn, LoopEnds
<1>4. CASE LoopReset(d)
  BY <1>1, <1>4, CaptureAssumption DEF LoopReset, ResetAndStoreIn, SetStorageFolder
<1>5. CASE LoopPrepare(d) \/ LoopPrepareFails(d)
  BY <1>1, <1>5 DEF LoopPrepare, LoopPrepareFails
<1>6. CASE LoopConfig(d)
  BY <1>1, <1>6, DatasetAssumption DEF LoopConfig, CaptureInto, SetStorageFolder
<1>7. CASE LoopMode(d) \/ EndMode(d)
  BY <1>1, <1>7 DEF LoopMode, EndMode, SetCaptureMode
<1>8. CASE LoopImu(d) \/ EndImu(d)
  BY <1>1, <1>8 DEF LoopImu, EndImu
<1>9. CASE LoopDrain(d)
  <2>1. Drained \subseteq MaybeDataset
    BY DEF Drained
  <2>2. stored_frame_ids' \in [Datasets -> SUBSET MaybeDataset]
    BY <2>1, <1>9 DEF LoopDrain
  <2>3. Len(buffer_frame_ids) \in Nat
    OBVIOUS
  <2>4. /\ progress' \in [Datasets -> Nat]
        /\ \A e \in Datasets : progress'[e] <= TargetFrames[e]
    <3> DEFINE p == AtMost(progress[d] + Len(buffer_frame_ids), TargetFrames[d])
    <3>1. progress' = [progress EXCEPT ![d] = p]
      BY <1>9 DEF LoopDrain
    <3>2. p \in Nat /\ p <= TargetFrames[d]
      <4>1. progress[d] \in Nat /\ TargetFrames[d] \in Nat
        BY DatasetAssumption
      <4> QED
        BY <4>1, <2>3 DEF AtMost
    <3> HIDE DEF p
    <3> QED
      BY <3>1, <3>2
  <2> QED
    BY <1>1, <1>2, <2>2, <2>4, <1>9 DEF LoopDrain, DrainBufferFrameIDs
<1>10. CASE EndFlag(d)
  BY <1>1, <1>10 DEF EndFlag
<1>11. CASE EndConfig(d)
  BY <1>1, <1>11, CaptureAssumption DEF EndConfig, ResetAndStoreIn, SetStorageFolder
<1> QED
  BY <1>3, <1>4, <1>5, <1>6, <1>7, <1>8, <1>9, <1>10, <1>11 DEF CollectionLoop

\* A step of a handler that looks up or stops keeps the types.
LEMMA TypeLookup ==
  ASSUME TypeOK, NEW h \in Cmds,
         \/ Begin(h) \/ LookupStart(h) \/ LookupStop(h) \/ CheckRunning(h) \/ Erase(h)
         \/ StopCollection(h)
  PROVE  TypeOK'
<1> USE DEF TypeOK, MaybeDataset, PcGoto, HandlerStates, StopSteps
<1>1. CASE Begin(h)
  <2>1. capture_start_time' \in [Datasets -> Nat]
    BY <1>1, DatasetAssumption DEF Begin
  <2> QED
    BY <1>1, <2>1 DEF Begin
<1>2. CASE LookupStart(h)
  BY <1>2 DEF LookupStart
<1>3. CASE LookupStop(h)
  BY <1>3 DEF LookupStop, Nack
<1>4. CASE CheckRunning(h)
  BY <1>4 DEF CheckRunning, Nack
<1>5. CASE Erase(h)
  BY <1>5 DEF Erase, AfterStop
<1>6. CASE StopFlag(h)
  BY <1>6 DEF StopFlag
<1>7. CASE StopNotify(h)
  <2>1. thread' \in [Datasets -> ThreadStates]
    BY <1>7 DEF StopNotify, ThreadStates
  <2> QED
    BY <1>7, <2>1 DEF StopNotify
<1>8. CASE StopJoin(h)
  BY <1>8 DEF StopJoin, Join
<1>9. CASE StopMode(h)
  BY <1>9 DEF StopMode, SetCaptureMode
<1>10. CASE StopConfig(h)
  <2>1. /\ periodic_frames_captured' = 0 /\ periodic_frames_to_capture' = DefaultFrames
        /\ buffer_frame_ids' = <<>> /\ folder' \in {folder, None} /\ mask' = None
        /\ UNCHANGED <<now, ds, dm, next, reply, registryVars, objectVars, imu>>
        /\ UNCHANGED <<mode, cam, saved, turns>>
    BY <1>10 DEF StopConfig, ResetAndStoreIn, SetStorageFolder
  <2>2. pc' \in [Cmds -> HandlerStates]
    BY <1>10 DEF StopConfig
  <2>3. DefaultFrames \in Nat /\ buffer_frame_ids' \in Seq(MaybeDataset)
    BY <2>1, CaptureAssumption
  <2> QED BY <2>1, <2>2, <2>3
<1>11. CASE StopImu(h)
  BY <1>11 DEF StopImu
<1> QED
  BY <1>1, <1>2, <1>3, <1>4, <1>5, <1>6, <1>7, <1>8, <1>9, <1>10, <1>11 DEF StopCollection

\* A step of a handler that lets go, creates, starts or replies keeps the types.
LEMMA TypeStart ==
  ASSUME TypeOK, NEW h \in Cmds, Drop(h) \/ StartSteps(h) \/ Ack(h) \/ Return(h)
  PROVE  TypeOK'
<1> USE DEF TypeOK, MaybeDataset, PcGoto, HandlerStates, StopSteps
<1>1. CASE DropShared(h)
  BY <1>1 DEF DropShared, Release
<1>2. CASE DropRunning(h) \/ DropJoinable(h)
  BY <1>2 DEF DropRunning, DropJoinable
<1>3. CASE DtorJoin(h)
  BY <1>3 DEF DtorJoin, Join
<1>4. CASE DropLast(h)
  BY <1>4 DEF DropLast, Release
<1>5. CASE StartSteps(h)
  <2>1. h \in Datasets
    BY <1>5 DEF StartSteps
  <2>2. CASE CreateThrows(h) \/ StartFails(h)
    BY <2>2 DEF CreateThrows, StartFails, Nack
  <2>3. CASE Create(h)
    BY <2>1, <2>3 DEF Create
  <2>4. CASE Assign(h)
    BY <2>1, <2>4 DEF Assign
  <2>5. CASE StartFlag(h)
    BY <2>5 DEF StartFlag
  <2>6. CASE Spawn(h)
    BY <2>6 DEF Spawn, ThreadStates
  <2> QED
    BY <1>5, <2>2, <2>3, <2>4, <2>5, <2>6 DEF StartSteps
<1>6. CASE Ack(h)
  BY <1>6 DEF Ack
<1>7. CASE Return(h)
  BY <1>7 DEF Return
<1> QED
  BY <1>1, <1>2, <1>3, <1>4, <1>5, <1>6, <1>7 DEF Drop

\* TypeOK is inductive by itself.
LEMMA TypeStep == TypeOK /\ [Next]_vars => TypeOK'
<1> SUFFICES ASSUME TypeOK, [Next]_vars PROVE TypeOK'
  OBVIOUS
<1>1. CASE Tick
  BY <1>1 DEF Tick, TypeOK
<1>2. CASE UNCHANGED vars
  BY <1>2 DEF TypeOK
<1> QED
  BY <1>1, <1>2, TypeCamera, TypeLoop, TypeLookup, TypeStart DEF Next, HandlerStep

\* Every variable keeps its type, and no dataset counts more frames than it
\* asked for, whatever the cameras deliver and whoever drains it.
THEOREM TypeCorrect == Spec => []TypeOK
  BY TypeInit, TypeStep, PTL DEF Spec

-----------------------------------------------------------------------------
(* Pointers *)

PlainMoves ==
  {<<"idle", "lookup">>, <<"running", "return">>, <<"running", "erase">>,
   <<"stop_flag", "stop_notify">>, <<"stop_notify", "stop_join">>,
   <<"stop_join", "stop_mode">>, <<"stop_mode", "stop_config">>,
   <<"stop_config", "stop_imu">>, <<"stop_imu", "drop">>, <<"dtor_join", "drop">>,
   <<"create", "return">>, <<"start", "return">>, <<"start", "spawn">>,
   <<"spawn", "reply">>, <<"reply", "return">>}

Destroys(h) == pc[h] = "drop" /\ pc'[h] \in {"stop_flag", "dtor_join"} /\ ~Referenced(h)

\* h moves on and no pointer changes.
PlainMove(h) ==
  /\ pc' = [pc EXCEPT ![h] = pc'[h]]
  /\ UNCHANGED <<ds, dm, next, active, datasets_mtx, freed>>
  /\ <<pc[h], pc'[h]>> \in PlainMoves \/ Destroys(h)

PlainStep(h) ==
  \/ Begin(h) \/ CheckRunning(h) \/ StopCollection(h)
  \/ DropRunning(h) \/ DropJoinable(h) \/ DtorJoin(h)
  \/ (h \in Datasets /\ (CreateThrows(h) \/ StartFails(h) \/ StartFlag(h) \/ Spawn(h)))
  \/ Ack(h)

PointerStep(h) ==
  \/ LookupStart(h) \/ LookupStop(h) \/ Erase(h) \/ DropShared(h) \/ DropLast(h)
  \/ (h \in Datasets /\ (Create(h) \/ Assign(h)))
  \/ Return(h)

\* These are all the steps of a handler.
LEMMA HandlerSteps ==
  ASSUME NEW h \in Cmds, Begin(h) \/ HandlerStep(h)
  PROVE  PlainStep(h) \/ PointerStep(h)
  BY DEF HandlerStep, StartSteps, Drop, PlainStep, PointerStep

LEMMA PlainStepMoves ==
  ASSUME TypeOK, NEW h \in Cmds, PlainStep(h)
  PROVE  PlainMove(h)
<1> USE DEF PcGoto, PlainMove, PlainMoves, TypeOK, Destroys
<1>1. CASE Begin(h)
  BY <1>1 DEF Begin
<1>2. CASE CheckRunning(h)
  BY <1>2 DEF CheckRunning
<1>3. CASE StopFlag(h) \/ StopNotify(h) \/ StopJoin(h)
  BY <1>3 DEF StopFlag, StopNotify, StopJoin
<1>4. CASE StopMode(h) \/ StopConfig(h) \/ StopImu(h)
  BY <1>4 DEF StopMode, StopConfig, StopImu
<1>5. CASE DropRunning(h) \/ DropJoinable(h)
  BY <1>5 DEF DropRunning, DropJoinable
<1>6. CASE DtorJoin(h)
  BY <1>6 DEF DtorJoin
<1>7. CASE CreateThrows(h) \/ StartFails(h)
  BY <1>7 DEF CreateThrows, StartFails
<1>8. CASE StartFlag(h) \/ Spawn(h) \/ Ack(h)
  BY <1>8 DEF StartFlag, Spawn, Ack
<1> QED
  BY <1>1, <1>2, <1>3, <1>4, <1>5, <1>6, <1>7, <1>8 DEF PlainStep, StopCollection

\* The steps that change no pointer: those of the threads, the clock, none.
Elsewhere == UNCHANGED <<handlerVars, registryVars, freed>>

LEMMA OtherSteps ==
  ASSUME TypeOK, [Next]_vars
  PROVE  Elsewhere \/ \E h \in Cmds : PlainStep(h) \/ PointerStep(h)
<1>1. CASE CaptureThread \/ Tick \/ UNCHANGED vars
  BY <1>1 DEF CaptureThread, Tick, Elsewhere
<1> QED
  BY <1>1, LoopFrame, HandlerSteps DEF Next, Elsewhere

USE DEF PcGoto, Release

\* Where a handler goes on after it let go, and that it has an object.
LEMMA ShapeStep ==
  ASSUME TypeOK, NextInv, HasObject, [Next]_vars
  PROVE  NextInv' /\ HasObject'
<1> USE DEF NextInv, HasObject, Letting, StopSteps, TypeOK, MaybeDataset
<1>1. CASE Elsewhere
  BY <1>1 DEF Elsewhere
<1>2. ASSUME NEW h \in Cmds, PlainStep(h)
      PROVE  NextInv' /\ HasObject'
  BY <1>2, PlainStepMoves DEF PlainMove, PlainMoves, Destroys
<1>3. ASSUME NEW h \in Cmds, LookupStart(h) \/ LookupStop(h)
      PROVE  NextInv' /\ HasObject'
  BY <1>3 DEF LookupStart, LookupStop
<1>4. ASSUME NEW h \in Cmds, Erase(h)
      PROVE  NextInv' /\ HasObject'
  BY <1>4 DEF Erase, AfterStop
<1>5. ASSUME NEW h \in Cmds, DropShared(h) \/ DropLast(h)
      PROVE  NextInv' /\ HasObject'
  BY <1>5 DEF DropShared, DropLast
<1>6. ASSUME NEW h \in Cmds, Create(h)
      PROVE  NextInv' /\ HasObject'
  BY <1>6 DEF Create
<1>7. ASSUME NEW h \in Cmds, Assign(h)
      PROVE  NextInv' /\ HasObject'
  BY <1>7 DEF Assign
<1>8. ASSUME NEW h \in Cmds, Return(h)
      PROVE  NextInv' /\ HasObject'
  BY <1>8 DEF Return
<1> QED
  BY <1>1, <1>2, <1>3, <1>4, <1>5, <1>6, <1>7, <1>8, OtherSteps DEF PointerStep

Shape == TypeOK /\ NextInv /\ HasObject

\* Nobody gets hold of an object before it is created.
LEMMA UnbornStep ==
  ASSUME Shape, UnbornUnknown, [Next]_vars
  PROVE  UnbornUnknown'
<1> SUFFICES ASSUME NEW d \in Datasets, Unborn(d)'
             PROVE  /\ active' # d
                    /\ \A g \in Cmds : ds'[g] # d /\ dm'[g] # d
                    /\ ~freed'[d]
  BY DEF UnbornUnknown
<1> USE DEF NextInv, TypeOK, MaybeDataset, Shape
<1>0. d # None /\ d \in Cmds
  BY CaptureAssumption DEF Cmds
<1>k. Unborn(d) => /\ active # d
                   /\ \A g \in Cmds : ds[g] # d /\ dm[g] # d
                   /\ ~freed[d]
  BY DEF UnbornUnknown
<1>1. CASE Elsewhere
  <2>1. Unborn(d)
    BY <1>1 DEF Elsewhere, Unborn, Toward
  <2> QED
    BY <1>1, <1>k, <2>1 DEF Elsewhere
<1>2. ASSUME NEW h \in Cmds, PlainStep(h)
      PROVE  Unborn(d) /\ UNCHANGED <<active, ds, dm, freed>>
  BY <1>0, <1>2, PlainStepMoves
     DEF PlainMove, PlainMoves, Destroys, Unborn, Toward, Letting, StopSteps
<1>3. ASSUME NEW h \in Cmds, PointerStep(h)
      PROVE  /\ Unborn(d)
             /\ active' # d
             /\ \A g \in Cmds : ds'[g] # d /\ dm'[g] # d
             /\ freed'[d] = freed[d]
  <2>1. CASE LookupStart(h) \/ LookupStop(h)
    <3>1. Unborn(d)
      BY <1>0, <2>1 DEF LookupStart, LookupStop, Unborn, Toward
    <3> QED
      BY <2>1, <3>1, <1>k DEF LookupStart, LookupStop
  <2>2. CASE Erase(h)
    <3>1. Unborn(d)
      BY <1>0, <2>2 DEF Erase, AfterStop, Unborn, Toward, Letting, StopSteps
    <3> QED
      BY <1>0, <2>2, <3>1, <1>k DEF Erase
  <2>3. CASE DropShared(h) \/ DropLast(h)
    <3>1. Unborn(d)
      BY <1>0, <2>3 DEF DropShared, DropLast, Unborn, Toward, Letting, StopSteps
    <3>2. dm[h] # d
      BY <3>1, <1>k
    <3> QED
      BY <1>0, <2>3, <3>1, <3>2, <1>k DEF DropShared, DropLast
  <2>4. CASE h \in Datasets /\ Create(h)
    <3>1. h # d /\ Unborn(d)
      BY <1>0, <2>4 DEF Create, Unborn, Toward, Letting, StopSteps
    <3> QED
      BY <2>4, <3>1, <1>k DEF Create
  <2>5. CASE h \in Datasets /\ Assign(h)
    <3>1. h # d /\ Unborn(d)
      BY <1>0, <2>5 DEF Assign, Unborn, Toward, Letting, StopSteps
    <3> QED
      BY <2>5, <3>1, <1>k DEF Assign
  <2>6. CASE Return(h)
    <3>1. Unborn(d)
      BY <1>0, <2>6 DEF Return, Unborn, Toward, Letting, StopSteps
    <3> QED
      BY <1>0, <2>6, <3>1, <1>k DEF Return
  <2> QED
    BY <1>3, <2>1, <2>2, <2>3, <2>4, <2>5, <2>6 DEF PointerStep
<1> QED
  BY <1>0, <1>1, <1>2, <1>3, <1>k, OtherSteps

\* From Create to the assignment of ds the mutex keeps the new object
\* registered; from there to Spawn the handler points to it.
LEMMA AssigningStep ==
  ASSUME Shape, AssigningHolds, StartingHolds, [Next]_vars
  PROVE  AssigningHolds' /\ StartingHolds'
<1> USE DEF NextInv, TypeOK, MaybeDataset, Shape
<1>0. None \notin Cmds /\ Datasets \subseteq Cmds
  BY CaptureAssumption, DatasetAssumption DEF Cmds
<1>1. CASE Elsewhere
  BY <1>1 DEF Elsewhere, AssigningHolds, StartingHolds, Assigning, Starting, Toward
<1>2. SUFFICES ASSUME NEW h \in Cmds, PlainStep(h) \/ PointerStep(h)
               PROVE  AssigningHolds' /\ StartingHolds'
  BY <1>1, OtherSteps
<1>3. ASSUME NEW g \in Cmds, Assigning(g)'
      PROVE  g \in Datasets /\ datasets_mtx' = g /\ active' = g
  <2> USE DEF Assigning, Toward, Letting, StopSteps
  <2>k. Assigning(g) => g \in Datasets /\ datasets_mtx = g /\ active = g
    BY DEF AssigningHolds
  <2>1. CASE PlainStep(h)
    BY <1>3, <2>1, <2>k, PlainStepMoves DEF PlainMove, PlainMoves, Destroys
  <2>2. CASE LookupStart(h) \/ LookupStop(h)
    BY <1>3, <2>2, <2>k DEF LookupStart, LookupStop
  <2>3. CASE Erase(h)
    <3>1. datasets_mtx = None /\ Assigning(g)
      BY <1>3, <2>3 DEF Erase, AfterStop
    <3> QED
      BY <1>0, <3>1, <2>k
  <2>4. CASE DropShared(h) \/ DropLast(h)
    BY <1>3, <2>4, <2>k DEF DropShared, DropLast
  <2>5. CASE h \in Datasets /\ Create(h)
    <3>1. datasets_mtx = None /\ (g = h \/ Assigning(g))
      BY <1>3, <2>5 DEF Create
    <3> QED
      BY <1>0, <3>1, <2>5, <2>k DEF Create
  <2>6. CASE h \in Datasets /\ Assign(h)
    <3>1. Assigning(h) /\ g # h /\ Assigning(g)
      BY <1>3, <2>6 DEF Assign
    <3> QED
      BY <3>1, <2>k DEF AssigningHolds
  <2>7. CASE Return(h)
    BY <1>3, <2>7, <2>k DEF Return
  <2> QED
    BY <1>2, <2>1, <2>2, <2>3, <2>4, <2>5, <2>6, <2>7 DEF PointerStep
<1>4. ASSUME NEW g \in Cmds, Starting(g)'
      PROVE  ds'[g] = g
  <2> USE DEF Starting, Toward, Letting, StopSteps
  <2>k. Starting(g) => ds[g] = g
    BY DEF StartingHolds
  <2>1. CASE PlainStep(h)
    BY <1>4, <2>1, <2>k, PlainStepMoves DEF PlainMove, PlainMoves, Destroys
  <2>2. CASE LookupStart(h) \/ LookupStop(h)
    BY <1>4, <2>2, <2>k DEF LookupStart, LookupStop
  <2>3. CASE Erase(h)
    BY <1>4, <2>3, <2>k DEF Erase, AfterStop
  <2>4. CASE DropShared(h) \/ DropLast(h)
    BY <1>4, <2>4, <2>k DEF DropShared, DropLast
  <2>5. CASE h \in Datasets /\ Create(h)
    BY <1>4, <2>5, <2>k DEF Create
  <2>6. CASE h \in Datasets /\ Assign(h)
    BY <1>4, <2>6, <2>k DEF Assign
  <2>7. CASE Return(h)
    BY <1>4, <2>7, <2>k DEF Return
  <2> QED
    BY <1>2, <2>1, <2>2, <2>3, <2>4, <2>5, <2>6, <2>7 DEF PointerStep
<1> QED
  BY <1>3, <1>4 DEF AssigningHolds, StartingHolds

\* What is being stopped is registered no more, and is stopped by one.
LEMMA StopperStep ==
  ASSUME Shape, UnbornUnknown, StoppedUnregistered, OneStopper, [Next]_vars
  PROVE  StoppedUnregistered' /\ OneStopper'
<1> USE DEF NextInv, TypeOK, MaybeDataset, Shape, Stopping, StopSteps
<1>0. None \notin Datasets /\ Datasets \subseteq Cmds
  BY CaptureAssumption DEF Cmds
<1>1. CASE Elsewhere
  BY <1>1 DEF Elsewhere, StoppedUnregistered, OneStopper
<1>2. SUFFICES ASSUME NEW h \in Cmds, PlainStep(h) \/ PointerStep(h)
               PROVE  StoppedUnregistered' /\ OneStopper'
  BY <1>1, OtherSteps
<1>3. CASE PlainStep(h)
  <2>1. PlainMove(h)
    BY <1>3, PlainStepMoves
  <2>2. CASE Destroys(h)
    <3>1. /\ active # dm[h]
          /\ \A g \in Cmds \ {h} : dm[g] # dm[h]
      BY <2>2 DEF Destroys, Referenced
    <3>2. \A g \in Cmds : Stopping(g)' => g = h \/ Stopping(g)
      BY <2>1 DEF PlainMove
    <3>3. UNCHANGED <<dm, active>>
      BY <2>1 DEF PlainMove
    <3> QED
      BY <3>1, <3>2, <3>3 DEF StoppedUnregistered, OneStopper
  <2>3. CASE <<pc[h], pc'[h]>> \in PlainMoves
    <3>1. \A g \in Cmds : Stopping(g)' => Stopping(g)
      BY <2>1, <2>3 DEF PlainMove, PlainMoves
    <3>2. UNCHANGED <<dm, active>>
      BY <2>1 DEF PlainMove
    <3> QED
      BY <3>1, <3>2 DEF StoppedUnregistered, OneStopper
  <2> QED
    BY <2>1, <2>2, <2>3 DEF PlainMove
<1>4. CASE Erase(h)
  <2>1. CASE active = None
    BY <2>1, <1>4 DEF Erase, AfterStop, StoppedUnregistered, OneStopper
  <2>2. CASE active # None
    <3>1. /\ active' = None
          /\ dm' = [dm EXCEPT ![h] = active]
          /\ pc' = [pc EXCEPT ![h] = "stop_flag"]
      BY <2>2, <1>4 DEF Erase
    <3>2. \A g \in Cmds : Stopping(g)' => dm'[g] \in Datasets
      BY <2>2, <3>1 DEF HasObject, Letting
    <3>3. StoppedUnregistered'
      BY <1>0, <3>1, <3>2 DEF StoppedUnregistered
    <3>4. OneStopper'
      BY <3>1 DEF StoppedUnregistered, OneStopper
    <3> QED
      BY <3>3, <3>4
  <2> QED
    BY <2>1, <2>2
<1>5. CASE h \in Datasets /\ Create(h)
  <2>1. \A g \in Cmds : dm[g] # h
    BY <1>5 DEF Create, UnbornUnknown, Unborn, Toward
  <2>2. \A g \in Cmds : Stopping(g)' => g # h /\ Stopping(g)
    BY <1>5 DEF Create
  <2>3. active' = h /\ \A g \in Cmds \ {h} : dm'[g] = dm[g]
    BY <1>5 DEF Create
  <2> QED
    BY <2>1, <2>2, <2>3 DEF StoppedUnregistered, OneStopper
<1>6. CASE \/ LookupStart(h) \/ LookupStop(h) \/ DropShared(h) \/ DropLast(h)
           \/ (h \in Datasets /\ Assign(h)) \/ Return(h)
  <2>1. \A g \in Cmds : Stopping(g)' => g # h /\ Stopping(g)
    <3>1. CASE DropShared(h) \/ DropLast(h)
      <4>1. pc' = [pc EXCEPT ![h] = next[h]]
        BY <3>1 DEF DropShared, DropLast
      <4>2. next[h] \notin StopSteps \cup {"dtor_join"}
        OBVIOUS
      <4> QED
        BY <4>1, <4>2
    <3>2. CASE LookupStart(h) \/ LookupStop(h)
      BY <3>2 DEF LookupStart, LookupStop
    <3>3. CASE h \in Datasets /\ Assign(h)
      BY <3>3 DEF Assign
    <3>4. CASE Return(h)
      BY <3>4 DEF Return
    <3> QED
      BY <1>6, <3>1, <3>2, <3>3, <3>4
  <2>2. active' = active /\ \A g \in Cmds \ {h} : dm'[g] = dm[g]
    BY <1>6 DEF LookupStart, LookupStop, DropShared, DropLast, Assign, Return
  <2> QED
    BY <2>1, <2>2 DEF StoppedUnregistered, OneStopper
<1> QED
  BY <1>2, <1>3, <1>4, <1>5, <1>6 DEF PointerStep

-----------------------------------------------------------------------------
(* Threads and their objects *)

\* Of the handler's steps, only StopNotify wakes a thread and only Spawn
\* makes one.
LEMMA HandlerThreads ==
  ASSUME TypeOK, NEW h \in Cmds, PlainStep(h) \/ PointerStep(h)
  PROVE  \/ UNCHANGED <<thread, joinable>>
         \/ /\ UNCHANGED joinable
            /\ \E d \in Datasets :
                 /\ thread[d] = "asleep"
                 /\ thread' = [thread EXCEPT ![d] = "begin"]
         \/ /\ UNCHANGED thread
            /\ joinable[dm[h]] => thread[dm[h]] = "done"
            /\ joinable' = [joinable EXCEPT ![dm[h]] = FALSE]
         \/ /\ h \in Datasets
            /\ Spawn(h)
<1> USE DEF TypeOK
<1>1. CASE StopNotify(h)
  BY <1>1 DEF StopNotify
<1>2. CASE StopJoin(h) \/ DtorJoin(h)
  BY <1>2 DEF StopJoin, DtorJoin, Join
<1>3. CASE \/ Begin(h) \/ CheckRunning(h) \/ StopFlag(h) \/ StopMode(h) \/ StopConfig(h)
           \/ StopImu(h) \/ DropRunning(h) \/ DropJoinable(h)
  BY <1>3 DEF Begin, CheckRunning, StopFlag, StopMode, StopConfig, StopImu, DropRunning,
              DropJoinable
<1>4. CASE CreateThrows(h) \/ StartFails(h) \/ StartFlag(h) \/ Ack(h)
  BY <1>4 DEF CreateThrows, StartFails, StartFlag, Ack
<1>5. CASE PointerStep(h)
  BY <1>5 DEF PointerStep, LookupStart, LookupStop, Erase, DropShared, DropLast, Create,
              Assign, Return
<1> QED
  BY <1>1, <1>2, <1>3, <1>4, <1>5 DEF PlainStep, StopCollection

\* A thread that runs is there to be joined.
LEMMA JoinableStep ==
  ASSUME TypeOK, RunningJoinable, [Next]_vars
  PROVE  RunningJoinable'
<1> USE DEF TypeOK, RunningJoinable
<1>1. ASSUME NEW d \in Datasets, CollectionLoop(d) \/ LoopSpuriousWake(d)
      PROVE  RunningJoinable'
  BY <1>1, LoopFrame
<1>2. CASE CaptureThread \/ Tick \/ UNCHANGED vars
  BY <1>2 DEF CaptureThread, Tick
<1>3. ASSUME NEW h \in Cmds, PlainStep(h) \/ PointerStep(h)
      PROVE  RunningJoinable'
  <2>1. CASE h \in Datasets /\ Spawn(h)
    BY <2>1 DEF Spawn
  <2> QED
    BY <1>3, <2>1, HandlerThreads
<1> QED
  BY <1>1, <1>2, <1>3, HandlerSteps DEF Next

\* Before Spawn there is no thread.
LEMMA UnspawnedStep ==
  ASSUME Shape, UnspawnedQuiet, [Next]_vars
  PROVE  UnspawnedQuiet'
<1> SUFFICES ASSUME NEW d \in Datasets, Unspawned(d)'
             PROVE  thread'[d] = "none"
  BY DEF UnspawnedQuiet
<1> USE DEF NextInv, TypeOK, Shape
<1>0. d \in Cmds
  BY DEF Cmds
<1>k. Unspawned(d) => thread[d] = "none"
  BY DEF UnspawnedQuiet
<1>1. CASE CaptureThread \/ Tick \/ UNCHANGED vars
  <2>1. Unspawned(d) /\ thread' = thread
    BY <1>1 DEF CaptureThread, Tick, Unspawned, Unborn, Assigning, Starting, Toward
  <2> QED
    BY <2>1, <1>k
<1>3. ASSUME NEW e \in Datasets, CollectionLoop(e) \/ LoopSpuriousWake(e)
      PROVE  thread'[d] = "none"
  <2>1. Unspawned(d)
    BY <1>3, LoopFrame DEF Unspawned, Unborn, Assigning, Starting, Toward
  <2> QED
    BY <1>3, <2>1, <1>k, LoopFrame
<1>2. ASSUME NEW h \in Cmds, PlainStep(h) \/ PointerStep(h)
      PROVE  thread'[d] = "none"
  <2> USE DEF Unspawned, Unborn, Assigning, Starting, Toward, Letting, StopSteps
  <2>1. Unspawned(d) /\ ~(h = d /\ Spawn(h))
    <3>1. CASE PlainStep(h)
      <4>1. CASE h = d /\ Spawn(h)
        BY <1>0, <4>1 DEF Spawn
      <4> QED
        BY <1>0, <3>1, <4>1, PlainStepMoves DEF PlainMove, PlainMoves, Destroys
    <3>2. CASE LookupStart(h) \/ LookupStop(h)
      BY <1>0, <3>2 DEF LookupStart, LookupStop, Spawn
    <3>3. CASE Erase(h)
      BY <1>0, <3>3 DEF Erase, AfterStop, Spawn
    <3>4. CASE DropShared(h) \/ DropLast(h)
      BY <1>0, <3>4 DEF DropShared, DropLast, Spawn
    <3>5. CASE h \in Datasets /\ (Create(h) \/ Assign(h))
      BY <1>0, <3>5 DEF Create, Assign, Spawn
    <3>6. CASE Return(h)
      BY <1>0, <3>6 DEF Return, Spawn
    <3> QED
      BY <1>2, <3>1, <3>2, <3>3, <3>4, <3>5, <3>6 DEF PointerStep
  <2>2. CASE h \in Datasets /\ Spawn(h)
    BY <2>1, <2>2, <1>k DEF Spawn
  <2> HIDE DEF Unspawned
  <2> QED
    BY <1>2, <2>1, <2>2, <1>k, HandlerThreads
<1> QED
  BY <1>1, <1>2, <1>3, HandlerSteps DEF Next

\* An object is destroyed after its thread and by the last who knew it, and
\* nobody learns of it again.
LEMMA OutlivesStep ==
  ASSUME Shape, UnbornUnknown, AssigningHolds, StartingHolds, RunningJoinable,
         ObjectOutlivesThread, [Next]_vars
  PROVE  ObjectOutlivesThread'
<1> SUFFICES ASSUME NEW d \in Datasets, freed'[d]
             PROVE  /\ thread'[d] \in {"none", "done"}
                    /\ ~joinable'[d]
                    /\ active' # d
                    /\ \A g \in Cmds : ds'[g] # d /\ dm'[g] # d
  BY DEF ObjectOutlivesThread
<1> USE DEF TypeOK, Shape
<1>0. d # None /\ d \in Cmds
  BY CaptureAssumption DEF Cmds
<1>k. freed[d] => /\ thread[d] \in {"none", "done"}
                  /\ ~joinable[d]
                  /\ active # d
                  /\ \A g \in Cmds : ds[g] # d /\ dm[g] # d
  BY DEF ObjectOutlivesThread
<1>1. CASE CaptureThread \/ Tick \/ UNCHANGED vars
  BY <1>1, <1>k DEF CaptureThread, Tick
<1>2. ASSUME NEW e \in Datasets, CollectionLoop(e) \/ LoopSpuriousWake(e)
      PROVE  /\ thread'[d] \in {"none", "done"}
             /\ UNCHANGED <<active, ds, dm, joinable>>
             /\ freed[d]
  BY <1>2, <1>k, LoopFrame
<1>3. ASSUME NEW h \in Cmds, PlainStep(h)
      PROVE  /\ thread'[d] \in {"none", "done"}
             /\ ~joinable'[d]
             /\ UNCHANGED <<active, ds, dm>>
             /\ freed[d]
  <2>1. UNCHANGED <<active, ds, dm>> /\ freed[d]
    BY <1>3, PlainStepMoves DEF PlainMove
  <2>2. ~(h = d /\ Spawn(h))
    BY <2>1, <1>k, <1>0 DEF Spawn, StartingHolds, Starting
  <2>3. CASE h \in Datasets /\ Spawn(h)
    BY <2>1, <2>2, <2>3, <1>k DEF Spawn
  <2> QED
    BY <1>3, <2>1, <2>3, <1>k, HandlerThreads
<1>4. ASSUME NEW h \in Cmds, PointerStep(h)
      PROVE  /\ thread'[d] \in {"none", "done"}
             /\ ~joinable'[d]
             /\ active' # d
             /\ \A g \in Cmds : ds'[g] # d /\ dm'[g] # d
  <2>1. UNCHANGED <<thread, joinable>>
    BY <1>4 DEF PointerStep, LookupStart, LookupStop, Erase, DropShared, DropLast, Create,
                Assign, Return
  <2>2. CASE LookupStart(h) \/ LookupStop(h)
    BY <2>1, <2>2, <1>k DEF LookupStart, LookupStop
  <2>3. CASE Erase(h)
    BY <1>0, <2>1, <2>3, <1>k DEF Erase
  <2>4. CASE DropShared(h)
    BY <1>0, <2>1, <2>4, <1>k DEF DropShared
  <2>5. CASE DropLast(h)
    <3>1. CASE freed[d]
      BY <1>0, <2>1, <2>5, <3>1, <1>k DEF DropLast
    <3>2. CASE ~freed[d]
      <4>1. dm[h] = d
        BY <2>5, <3>2 DEF DropLast
      <4>2. /\ active # d
            /\ ds[h] # d
            /\ \A g \in Cmds \ {h} : ds[g] # d /\ dm[g] # d
        BY <2>5, <4>1 DEF DropLast, Referenced
      <4>3. ~joinable[d] /\ thread[d] \in {"none", "done"}
        BY <2>5, <4>1 DEF DropLast, RunningJoinable
      <4> QED
        BY <1>0, <2>1, <2>5, <4>2, <4>3 DEF DropLast
    <3> QED
      BY <3>1, <3>2
  <2>6. CASE h \in Datasets /\ Create(h)
    <3>1. h # d
      BY <2>6 DEF Create, UnbornUnknown, Unborn, Toward
    <3> QED
      BY <2>1, <2>6, <3>1, <1>k DEF Create
  <2>7. CASE h \in Datasets /\ Assign(h)
    <3>1. h # d
      BY <2>7, <1>k DEF Assign, AssigningHolds, Assigning, Toward
    <3> QED
      BY <2>1, <2>7, <3>1, <1>k DEF Assign
  <2>8. CASE Return(h)
    BY <1>0, <2>1, <2>8, <1>k DEF Return
  <2> QED
    BY <1>4, <2>2, <2>3, <2>4, <2>5, <2>6, <2>7, <2>8 DEF PointerStep
<1> QED
  BY <1>1, <1>2, <1>3, <1>4, <1>k, HandlerSteps DEF Next

-----------------------------------------------------------------------------
(* Settings *)

\* A handler gives a device back, or leaves it alone.
LEMMA HandlerSettings ==
  ASSUME NEW h \in Cmds, PlainStep(h) \/ PointerStep(h)
  PROVE  /\ mode' \in {mode, None} /\ mask' \in {mask, None}
         /\ folder' \in {folder, None} /\ imu' \in {imu, None}
<1>1. CASE StopMode(h) \/ StopConfig(h) \/ StopImu(h)
  BY <1>1 DEF StopMode, SetCaptureMode, StopConfig, ResetAndStoreIn, SetStorageFolder, StopImu
<1>2. CASE \/ StopFlag(h) \/ StopNotify(h) \/ StopJoin(h) \/ Begin(h) \/ CheckRunning(h)
           \/ DropRunning(h) \/ DropJoinable(h) \/ DtorJoin(h)
  BY <1>2 DEF StopFlag, StopNotify, StopJoin, Begin, CheckRunning, DropRunning,
              DropJoinable, DtorJoin
<1>3. CASE CreateThrows(h) \/ StartFails(h) \/ StartFlag(h) \/ Spawn(h) \/ Ack(h)
  BY <1>3 DEF CreateThrows, StartFails, StartFlag, Spawn, Ack
<1>4. CASE PointerStep(h)
  BY <1>4 DEF PointerStep, LookupStart, LookupStop, Erase, DropShared, DropLast, Create,
              Assign, Return
<1> QED
  BY <1>1, <1>2, <1>3, <1>4 DEF PlainStep, StopCollection

\* A setting is made by the thread that undoes it.
LEMMA SettingsStep ==
  ASSUME TypeOK, UnspawnedQuiet, SettingsHaveOwner, [Next]_vars
  PROVE  SettingsHaveOwner'
<1> SUFFICES ASSUME NEW d \in Datasets
    PROVE
    /\ mode' = d => thread'[d] \in {"imu", "end_flag", "end_mode"} \cup InLoop
    /\ mask' = d => thread'[d] \in {"config", "mode", "imu"} \cup InLoop \cup Undoing
    /\ (None \notin Uncreatable /\ folder' = d) =>
         thread'[d] \in {"mode", "imu"} \cup InLoop \cup Undoing
    /\ imu' = d => thread'[d] \in InLoop \cup Ending
  BY DEF SettingsHaveOwner, InLoop, Ending, Undoing
<1> USE DEF TypeOK, InLoop, Ending, Undoing
<1>0. d # None
  BY CaptureAssumption
<1>k. /\ mode = d => thread[d] \in {"imu", "end_flag", "end_mode"} \cup InLoop
      /\ mask = d => thread[d] \in {"config", "mode", "imu"} \cup InLoop \cup Undoing
      /\ (None \notin Uncreatable /\ folder = d) =>
           thread[d] \in {"mode", "imu"} \cup InLoop \cup Undoing
      /\ imu = d => thread[d] \in InLoop \cup Ending
  BY DEF SettingsHaveOwner
<1>1. CASE Tick \/ UNCHANGED vars
  BY <1>1, <1>k DEF Tick
<1>2. CASE CaptureThread
  BY <1>2, <1>0, <1>k, CameraFrame DEF CaptureThread
<1>3. ASSUME NEW h \in Cmds, PlainStep(h) \/ PointerStep(h)
      PROVE
      /\ mode' \in {mode, None} /\ mask' \in {mask, None}
      /\ folder' \in {folder, None} /\ imu' \in {imu, None}
      /\ thread'[d] = thread[d] \/ thread[d] \in {"asleep", "none"}
  <2>1. CASE h \in Datasets /\ Spawn(h)
    <3>1. thread[h] = "none"
      BY <2>1 DEF Spawn, UnspawnedQuiet, Unspawned, Starting
    <3> QED
      BY <2>1, <3>1, HandlerSettings, <1>3 DEF Spawn
  <2> QED
    BY <1>3, <2>1, HandlerSettings, HandlerThreads
<1>4. ASSUME NEW e \in Datasets, CollectionLoop(e) \/ LoopSpuriousWake(e), e # d
      PROVE
      /\ thread'[d] = thread[d]
      /\ mode' \in {mode, None, e} /\ mask' \in {mask, None, e}
      /\ folder' \in {folder, None, e} /\ imu' \in {imu, None, e}
  <2>1. thread'[d] = thread[d]
    BY <1>4, LoopFrame
  <2>2. CASE LoopPredicate(e) \/ LoopSleeps(e) \/ LoopSpuriousWake(e) \/ LoopTimeout(e)
    BY <2>1, <2>2 DEF LoopPredicate, LoopSleeps, LoopSpuriousWake, LoopTimeout
  <2>3. CASE LoopReset(e) \/ LoopPrepare(e) \/ LoopPrepareFails(e)
    BY <2>1, <2>3 DEF LoopReset, ResetAndStoreIn, SetStorageFolder, LoopPrepare, LoopPrepareFails
  <2>4. CASE LoopConfig(e) \/ LoopMode(e) \/ LoopImu(e)
    BY <2>1, <2>4 DEF LoopConfig, CaptureInto, SetStorageFolder, LoopMode, SetCaptureMode, LoopImu
  <2>5. CASE LoopTurn(e) \/ LoopDrain(e) \/ LoopEnds(e) \/ EndFlag(e)
    BY <2>1, <2>5 DEF LoopTurn, LoopDrain, DrainBufferFrameIDs, LoopEnds, EndFlag
  <2>6. CASE EndMode(e) \/ EndConfig(e) \/ EndImu(e)
    BY <2>1, <2>6 DEF EndMode, SetCaptureMode, EndConfig, ResetAndStoreIn, SetStorageFolder, EndImu
  <2> QED
    BY <1>4, <2>2, <2>3, <2>4, <2>5, <2>6 DEF CollectionLoop
<1>5. CASE CollectionLoop(d) \/ LoopSpuriousWake(d)
  <2> USE DEF ThreadGoto
  <2>2. CASE LoopPredicate(d) \/ LoopSleeps(d) \/ LoopSpuriousWake(d) \/ LoopTimeout(d)
    BY <2>2, <1>k DEF LoopPredicate, LoopSleeps, LoopSpuriousWake, LoopTimeout
  <2>3. CASE LoopReset(d)
    BY <2>3, <1>k DEF LoopReset, ResetAndStoreIn, SetStorageFolder
  <2>4. CASE LoopPrepare(d) \/ LoopPrepareFails(d)
    BY <2>4, <1>0, <1>k DEF LoopPrepare, LoopPrepareFails
  <2>5. CASE LoopConfig(d)
    BY <2>5, <1>k DEF LoopConfig, CaptureInto, SetStorageFolder
  <2>6. CASE LoopMode(d) \/ LoopImu(d)
    BY <2>6, <1>k DEF LoopMode, SetCaptureMode, LoopImu
  <2>7. CASE LoopTurn(d) \/ LoopDrain(d) \/ LoopEnds(d) \/ EndFlag(d)
    BY <2>7, <1>k DEF LoopTurn, LoopDrain, DrainBufferFrameIDs, LoopEnds, EndFlag
  <2>8. CASE EndMode(d)
    BY <2>8, <1>0, <1>k DEF EndMode, SetCaptureMode
  <2>9. CASE EndConfig(d)
    BY <2>9, <1>0, <1>k DEF EndConfig, ResetAndStoreIn, SetStorageFolder
  <2>10. CASE EndImu(d)
    BY <2>10, <1>0, <1>k DEF EndImu
  <2> QED
    BY <1>5, <2>2, <2>3, <2>4, <2>5, <2>6, <2>7, <2>8, <2>9, <2>10 DEF CollectionLoop
<1>6. ASSUME NEW h \in Cmds, Begin(h) \/ HandlerStep(h)
      PROVE
      /\ mode' = d => thread'[d] \in {"imu", "end_flag", "end_mode"} \cup InLoop
      /\ mask' = d => thread'[d] \in {"config", "mode", "imu"} \cup InLoop \cup Undoing
      /\ (None \notin Uncreatable /\ folder' = d) =>
         thread'[d] \in {"mode", "imu"} \cup InLoop \cup Undoing
      /\ imu' = d => thread'[d] \in InLoop \cup Ending
  <2>1. /\ mode' \in {mode, None} /\ mask' \in {mask, None}
        /\ folder' \in {folder, None} /\ imu' \in {imu, None}
    BY <1>6, <1>3, HandlerSteps
  <2>2. thread'[d] = thread[d] \/ thread[d] \in {"asleep", "none"}
    BY <1>6, <1>3, HandlerSteps
  <2>3. CASE thread'[d] = thread[d]
    BY <2>1, <2>3, <1>0, <1>k
  <2>4. CASE thread[d] \in {"asleep", "none"}
    <3>1. mode # d /\ mask # d /\ imu # d /\ (None \notin Uncreatable => folder # d)
      BY <2>4, <1>k
    <3> QED
      BY <2>1, <3>1, <1>0
  <2> QED
    BY <2>2, <2>3, <2>4
<1>7. ASSUME NEW e \in Datasets, CollectionLoop(e) \/ LoopSpuriousWake(e)
      PROVE
      /\ mode' = d => thread'[d] \in {"imu", "end_flag", "end_mode"} \cup InLoop
      /\ mask' = d => thread'[d] \in {"config", "mode", "imu"} \cup InLoop \cup Undoing
      /\ (None \notin Uncreatable /\ folder' = d) =>
         thread'[d] \in {"mode", "imu"} \cup InLoop \cup Undoing
      /\ imu' = d => thread'[d] \in InLoop \cup Ending
  <2>1. CASE e = d
    BY <2>1, <1>5, <1>7
  <2>2. CASE e # d
    <3>1. /\ thread'[d] = thread[d]
          /\ mode' \in {mode, None, e} /\ mask' \in {mask, None, e}
          /\ folder' \in {folder, None, e} /\ imu' \in {imu, None, e}
      BY <2>2, <1>4, <1>7
    <3> QED
      BY <2>2, <3>1, <1>0, <1>k
  <2> QED
    BY <2>1, <2>2
<1> QED
  BY <1>1, <1>2, <1>6, <1>7 DEF Next

-----------------------------------------------------------------------------
(* The theorems *)

\* Dataset::OverlapsWith, whose three cases compare end points, says that the
\* windows have an instant in common; so it does not matter which of the two
\* datasets is asked.
THEOREM OverlapIsIntersection ==
  ASSUME NEW aStart \in Nat, NEW aEnd \in Nat, NEW bStart \in Nat, NEW bEnd \in Nat,
         aStart <= aEnd, bStart <= bEnd
  PROVE  Overlaps(aStart, aEnd, bStart, bEnd)
           <=> \E t \in Nat : t \in aStart .. aEnd /\ t \in bStart .. bEnd
<1>1. ASSUME Overlaps(aStart, aEnd, bStart, bEnd)
      PROVE  \E t \in Nat : t \in aStart .. aEnd /\ t \in bStart .. bEnd
  <2>1. CASE aStart >= bStart /\ aStart <= bEnd
    <3>1. aStart \in aStart .. aEnd /\ aStart \in bStart .. bEnd
      BY <2>1
    <3> QED
      BY <3>1
  <2>2. CASE aEnd >= bStart /\ aEnd <= bEnd
    <3>1. aEnd \in aStart .. aEnd /\ aEnd \in bStart .. bEnd
      BY <2>2
    <3> QED
      BY <3>1
  <2>3. CASE aStart <= bStart /\ aEnd >= bEnd
    <3>1. bStart \in aStart .. aEnd /\ bStart \in bStart .. bEnd
      BY <2>3
    <3> QED
      BY <3>1
  <2> QED
    BY <1>1, <2>1, <2>2, <2>3 DEF Overlaps
<1>2. ASSUME NEW t \in Nat, t \in aStart .. aEnd, t \in bStart .. bEnd
      PROVE  Overlaps(aStart, aEnd, bStart, bEnd)
  BY <1>2 DEF Overlaps
<1> QED
  BY <1>1, <1>2

LEMMA InvInit == Init => Inv
<1> SUFFICES ASSUME Init PROVE Inv
  OBVIOUS
<1>0. None \notin Datasets
  BY CaptureAssumption
<1>1. NextInv /\ HasObject
  BY DEF Init, NextInv, HasObject, Letting, StopSteps
<1>2. UnbornUnknown
  BY <1>0 DEF Init, UnbornUnknown, Cmds
<1>3. AssigningHolds /\ StartingHolds
  BY DEF Init, AssigningHolds, StartingHolds, Assigning, Starting, Toward, Letting, StopSteps
<1>4. UnspawnedQuiet /\ RunningJoinable
  BY DEF Init, UnspawnedQuiet, RunningJoinable
<1>5. StoppedUnregistered /\ OneStopper
  BY DEF Init, StoppedUnregistered, OneStopper, Stopping, StopSteps
<1>6. ObjectOutlivesThread
  BY DEF Init, ObjectOutlivesThread
<1>7. SettingsHaveOwner
  BY <1>0 DEF Init, CaptureInit, SettingsHaveOwner
<1> QED
  BY <1>1, <1>2, <1>3, <1>4, <1>5, <1>6, <1>7, TypeInit DEF Inv

\* Inv is an invariant.
LEMMA Invariant == Spec => []Inv
<1>1. Inv /\ [Next]_vars => Inv'
  BY TypeStep, ShapeStep, UnbornStep, AssigningStep, StopperStep, JoinableStep,
     UnspawnedStep, OutlivesStep, SettingsStep DEF Inv, Shape
<1> QED
  BY <1>1, InvInit, PTL DEF Spec

\* No capture mode, mask or IMU collection of a dataset outlives the thread
\* that undoes it, and no folder does while IMAGES_FOLDER can be gone back to.
THEOREM SettingsHaveOwnerHolds == Spec => []SettingsHaveOwner
<1>1. Inv => SettingsHaveOwner
  BY DEF Inv
<1> QED
  BY <1>1, Invariant, PTL

\* A DatasetManager is destroyed after its thread has ended and been joined,
\* and when no handler and no entry points to it.
THEOREM ObjectOutlivesThreadHolds == Spec => []ObjectOutlivesThread
<1>1. Inv => ObjectOutlivesThread
  BY DEF Inv
<1> QED
  BY <1>1, Invariant, PTL

\* No two handlers are ever in StopCollection or in the join of the
\* destructor of the same DatasetManager.
THEOREM OneStopperHolds == Spec => []OneStopper
<1>1. Inv => OneStopper
  BY DEF Inv
<1> QED
  BY <1>1, Invariant, PTL

-----------------------------------------------------------------------------
(* One command after the other                                             *)
(*                                                                         *)
(* Windows are only compared with the registered one, and a dataset that   *)
(* is being stopped has left the registry.  What keeps two datasets from   *)
(* collecting at the same time is a ground that waits for each reply.      *)

Pending(h) == pc[h] # "idle" /\ reply[h] = "none"

\* A handler replies before it returns, and then does not create, stop by
\* command or start any more; there is one at a time that has not replied.
OneAtATime ==
  /\ \A h \in Cmds : reply[h] # "none" <=> (Toward(h, "done") \/ pc[h] = "return")
  /\ \A g, h \in Cmds : Pending(g) /\ Pending(h) => g = h

\* That one empties the entry, and then makes its own.
Emptied ==
  \A h \in Cmds : Toward(h, "create") \/ (pc[h] \in Letting /\ next[h] = "reply") =>
    active = None

Entered ==
  \A h \in Datasets :
    /\ next[h] # "reply"
    /\ Toward(h, "assign") \/ Toward(h, "start") \/ pc[h] \in {"spawn", "reply"} => active = h

InOrder == OneAtATime /\ Emptied /\ Entered

\* How a handler's step replies.
LEMMA ReplyStep ==
  ASSUME TypeOK, NextInv, NEW h \in Cmds, PlainStep(h) \/ PointerStep(h)
  PROVE  /\ pc' = [pc EXCEPT ![h] = pc'[h]]
         /\ \/ pc'[h] # "return" /\ reply' = reply
            \/ /\ pc'[h] = "return"
               /\ \E r \in {"ack", "nack"} : reply' = [reply EXCEPT ![h] = r]
<1> USE DEF TypeOK, NextInv
<1>1. CASE Begin(h)
  BY <1>1 DEF Begin
<1>2. CASE CheckRunning(h)
  BY <1>2 DEF CheckRunning, Nack
<1>3. CASE StopFlag(h) \/ StopNotify(h) \/ StopJoin(h)
  BY <1>3 DEF StopFlag, StopNotify, StopJoin
<1>4. CASE StopMode(h) \/ StopConfig(h) \/ StopImu(h)
  BY <1>4 DEF StopMode, StopConfig, StopImu
<1>5. CASE DropRunning(h) \/ DropJoinable(h) \/ DtorJoin(h)
  BY <1>5 DEF DropRunning, DropJoinable, DtorJoin
<1>6. CASE CreateThrows(h) \/ StartFails(h)
  BY <1>6 DEF CreateThrows, StartFails, Nack
<1>7. CASE StartFlag(h) \/ Spawn(h) \/ Ack(h)
  BY <1>7 DEF StartFlag, Spawn, Ack
<1>8. CASE LookupStart(h) \/ LookupStop(h)
  BY <1>8 DEF LookupStart, LookupStop, Nack
<1>9. CASE Erase(h)
  BY <1>9 DEF Erase, AfterStop
<1>10. CASE DropShared(h) \/ DropLast(h)
  BY <1>10 DEF DropShared, DropLast
<1>11. CASE Create(h) \/ Assign(h) \/ Return(h)
  BY <1>11 DEF Create, Assign, Return
<1> QED
  BY <1>1, <1>2, <1>3, <1>4, <1>5, <1>6, <1>7, <1>8, <1>9, <1>10, <1>11
     DEF PlainStep, PointerStep, StopCollection

\* A command begins when every other one has been replied to.
LEMMA PlainPending ==
  ASSUME TypeOK, GroundWaits, NEW h \in Cmds, PlainStep(h) \/ PointerStep(h), pc[h] = "idle"
  PROVE  \A g \in Cmds : ~Pending(g)
<1>1. Begin(h)
  BY DEF PlainStep, PointerStep, StopCollection, CheckRunning, StopFlag, StopNotify,
         StopJoin, StopMode, StopConfig, StopImu, DropRunning, DropJoinable, DtorJoin,
         CreateThrows, StartFails, StartFlag, Spawn, Ack, LookupStart, LookupStop, Erase,
         DropShared, DropLast, Create, Assign, Return
<1> QED BY <1>1 DEF Begin, Pending

LEMMA OneAtATimeStep ==
  ASSUME Shape, GroundWaits, OneAtATime, [Next]_vars
  PROVE  OneAtATime'
<1> USE DEF Shape, NextInv, TypeOK
<1>1. CASE Elsewhere
  BY <1>1 DEF Elsewhere, OneAtATime, Toward, Pending
<1>2. SUFFICES ASSUME NEW h \in Cmds, PlainStep(h) \/ PointerStep(h)
               PROVE  OneAtATime'
  BY <1>1, OtherSteps
<1>3. \A g \in Cmds \ {h} : pc'[g] = pc[g] /\ reply'[g] = reply[g]
  <2>1. pc' = [pc EXCEPT ![h] = pc'[h]]
    BY <1>2, ReplyStep
  <2>2. reply' = reply \/ \E r \in {"ack", "nack"} : reply' = [reply EXCEPT ![h] = r]
    BY <1>2, ReplyStep
  <2> QED BY <2>1, <2>2
<1>4. \A g \in Cmds \ {h} : next'[g] = next[g]
  <2>1. CASE PlainStep(h)
    BY <2>1, PlainStepMoves DEF PlainMove
  <2>2. CASE PointerStep(h)
    BY <2>2 DEF PointerStep, LookupStart, LookupStop, Erase, DropShared, DropLast, Create,
                Assign, Return
  <2> QED BY <1>2, <2>1, <2>2
<1>5. reply'[h] # "none" <=> (Toward(h, "done")' \/ pc'[h] = "return")
  <2> DEFINE Replied == Toward(h, "done") \/ pc[h] = "return"
  <2>k. reply[h] # "none" <=> Replied
    BY DEF OneAtATime
  <2>1. CASE pc'[h] = "return"
    <3>1. reply'[h] # "none"
      BY <1>2, <2>1, ReplyStep
    <3> QED BY <2>1, <3>1
  <2>2. CASE pc'[h] # "return"
    <3>1. reply' = reply
      BY <1>2, <2>2, ReplyStep
    <3>2. Toward(h, "done")' <=> Replied
      <4> USE DEF Toward, Letting, StopSteps
      <4>1. CASE PlainStep(h)
        BY <2>2, <4>1, PlainStepMoves DEF PlainMove, PlainMoves, Destroys
      <4>2. CASE LookupStart(h) \/ LookupStop(h)
        BY <2>2, <4>2 DEF LookupStart, LookupStop
      <4>3. CASE Erase(h)
        BY <4>3 DEF Erase, AfterStop
      <4>4. CASE DropShared(h) \/ DropLast(h)
        BY <4>4 DEF DropShared, DropLast
      <4>5. CASE Create(h) \/ Assign(h) \/ Return(h)
        BY <4>5 DEF Create, Assign, Return
      <4> QED BY <1>2, <4>1, <4>2, <4>3, <4>4, <4>5 DEF PointerStep
    <3> QED BY <2>2, <2>k, <3>1, <3>2
  <2> QED BY <2>1, <2>2
<1>6. Pending(h)' => Pending(h) \/ \A g \in Cmds : ~Pending(g)
  <2>1. Pending(h)' => reply[h] = "none"
    BY <1>2, ReplyStep DEF Pending
  <2> QED BY <1>2, <2>1, PlainPending DEF Pending
<1>7. \A g \in Cmds \ {h} : Pending(g)' => Pending(g)
  BY <1>3 DEF Pending
<1>8. ASSUME NEW g \in Cmds, NEW i \in Cmds, Pending(g)', Pending(i)' PROVE g = i
  BY <1>6, <1>7, <1>8 DEF OneAtATime
<1>9. ASSUME NEW g \in Cmds
      PROVE  reply'[g] # "none" <=> (Toward(g, "done")' \/ pc'[g] = "return")
  BY <1>3, <1>4, <1>5 DEF OneAtATime, Toward
<1> QED BY <1>8, <1>9 DEF OneAtATime

LEMMA EntryStep ==
  ASSUME Shape, InOrder, [Next]_vars
  PROVE  Emptied' /\ Entered'
<1> USE DEF Shape, NextInv, TypeOK, MaybeDataset, InOrder
<1>0. None \notin Cmds /\ Datasets \subseteq Cmds
  BY CaptureAssumption, DatasetAssumption DEF Cmds
<1>1. CASE Elsewhere
  BY <1>1 DEF Elsewhere, Emptied, Entered, Toward
<1>2. SUFFICES ASSUME NEW h \in Cmds, PlainStep(h) \/ PointerStep(h)
               PROVE  Emptied' /\ Entered'
  BY <1>1, OtherSteps
<1> DEFINE Empties(g) == Toward(g, "create") \/ (pc[g] \in Letting /\ next[g] = "reply")
           Enters(g) == Toward(g, "assign") \/ Toward(g, "start") \/ pc[g] \in {"spawn", "reply"}
<1>k. /\ Empties(h) => active = None
      /\ h \in Datasets => next[h] # "reply" /\ (Enters(h) => active = h)
  BY DEF Emptied, Entered
<1>3. \A g \in Cmds \ {h} : pc'[g] = pc[g] /\ next'[g] = next[g]
  <2>1. CASE PlainStep(h)
    BY <2>1, PlainStepMoves DEF PlainMove
  <2>2. CASE PointerStep(h)
    BY <2>2 DEF PointerStep, LookupStart, LookupStop, Erase, DropShared, DropLast, Create,
                Assign, Return
  <2> QED BY <1>2, <2>1, <2>2
<1>4. \A g \in Cmds \ {h} : (Empties(g)' => Empties(g)) /\ (Enters(g)' => Enters(g))
  BY <1>3 DEF Toward
<1>5. ASSUME pc[h] \in {"erase", "create"}, NEW g \in Cmds, g # h
      PROVE  ~Empties(g) /\ ~Enters(g)
  <2> USE DEF Toward, Letting, StopSteps
  <2>1. Pending(h)
    BY <1>5 DEF Pending, OneAtATime
  <2>2. ~Pending(g)
    BY <1>5, <2>1 DEF OneAtATime
  <2>3. pc[g] = "idle" \/ Toward(g, "done") \/ pc[g] = "return"
    BY <2>2 DEF Pending, OneAtATime
  <2> QED BY <2>3
<1>6. ASSUME /\ Empties(h)' => active' = None
             /\ h \in Datasets => next'[h] # "reply" /\ (Enters(h)' => active' = h),
             active' = active \/ pc[h] \in {"erase", "create"}
      PROVE  Emptied' /\ Entered'
  <2>1. ASSUME NEW g \in Cmds PROVE Empties(g)' => active' = None
    BY <1>4, <1>5, <1>6, <2>1 DEF Emptied
  <2>2. ASSUME NEW g \in Datasets PROVE next'[g] # "reply" /\ (Enters(g)' => active' = g)
    <3>1. CASE g = h
      BY <1>6, <3>1
    <3>2. CASE g # h
      <4>1. next'[g] # "reply"
        BY <1>0, <1>3, <3>2 DEF Entered
      <4>2. Enters(g)' => active' = active /\ active = g
        BY <1>0, <1>4, <1>5, <1>6, <3>2 DEF Entered
      <4> QED BY <4>1, <4>2
    <3> QED BY <3>1, <3>2
  <2> QED BY <2>1, <2>2 DEF Emptied, Entered
<1>7. CASE PlainStep(h)
  <2>1. PlainMove(h)
    BY <1>7, PlainStepMoves
  <2>2. next'[h] = next[h] /\ active' = active
    BY <2>1 DEF PlainMove
  <2>3. (Empties(h)' => Empties(h)) /\ (Enters(h)' => Enters(h))
    <3> USE DEF Toward, Letting, StopSteps
    <3>1. CASE <<pc[h], pc'[h]>> \in PlainMoves
      BY <2>2, <3>1 DEF PlainMoves
    <3>2. CASE Destroys(h)
      BY <2>2, <3>2 DEF Destroys
    <3> QED BY <2>1, <3>1, <3>2 DEF PlainMove
  <2> HIDE DEF Empties, Enters
  <2> QED BY <1>k, <1>6, <2>2, <2>3
<1>8. CASE LookupStart(h) \/ LookupStop(h)
  <2>1. /\ pc'[h] \in {"create", "running", "return", "erase"}
        /\ pc'[h] = "create" => active = None
        /\ next'[h] = next[h] /\ active' = active
    BY <1>8 DEF LookupStart, LookupStop
  <2> QED BY <1>k, <1>6, <2>1 DEF Toward, Letting, StopSteps
<1>9. CASE DropShared(h) \/ DropLast(h)
  <2>1. pc[h] = "drop" /\ pc'[h] = next[h] /\ next'[h] = next[h] /\ active' = active
    BY <1>9 DEF DropShared, DropLast
  <2>2. next[h] \in {"create", "assign", "start", "reply", "done"}
    OBVIOUS
  <2> QED BY <1>k, <1>6, <2>1, <2>2 DEF Toward, Letting, StopSteps
<1>10. CASE h \in Datasets /\ Assign(h)
  <2>1. /\ pc[h] = "assign" /\ pc'[h] \in {"start", "drop"}
        /\ next'[h] = "start" /\ active' = active
    BY <1>10 DEF Assign
  <2> QED BY <1>k, <1>6, <1>10, <2>1 DEF Toward, Letting, StopSteps
<1>11. CASE Return(h)
  <2>1. pc'[h] \in {"done", "drop"} /\ next'[h] = "done" /\ active' = active
    BY <1>11 DEF Return
  <2> QED BY <1>6, <2>1 DEF Toward, Letting, StopSteps
<1>12. CASE Erase(h)
  <2>1. /\ pc[h] = "erase" /\ active' = None
        /\ next'[h] = AfterStop(h) /\ pc'[h] \in {AfterStop(h), "stop_flag"}
    BY <1>12 DEF Erase
  <2>2. CASE h \in Datasets
    BY <1>6, <2>1, <2>2 DEF AfterStop, Toward, Letting, StopSteps
  <2>3. CASE h \notin Datasets
    BY <1>6, <2>1, <2>3 DEF AfterStop, Toward, Letting, StopSteps
  <2> QED BY <2>2, <2>3
<1>13. CASE h \in Datasets /\ Create(h)
  <2>1. pc[h] = "create" /\ active = None
    BY <1>13 DEF Create, Emptied, Toward
  <2>2. active' = h /\ pc'[h] = "assign" /\ next'[h] = "assign"
    BY <1>13, <2>1 DEF Create
  <2> QED BY <1>6, <2>1, <2>2 DEF Toward, Letting, StopSteps
<1> QED
  BY <1>2, <1>7, <1>8, <1>9, <1>10, <1>11, <1>12, <1>13 DEF PointerStep

Alive(d) == thread[d] \notin {"none", "done"}

\* A dataset whose thread is alive is registered, or about to be joined.
Known ==
  \A d \in Datasets : Alive(d) =>
    \/ active = d
    \/ \E h \in Cmds : /\ Pending(h) /\ dm[h] = d
                       /\ pc[h] \in {"stop_flag", "stop_notify", "stop_join"}

LEMMA KnownStep ==
  ASSUME Shape, RunningJoinable, InOrder, Known, [Next]_vars
  PROVE  Known'
<1> USE DEF Shape, NextInv, TypeOK, MaybeDataset, InOrder
<1>0. None \notin Cmds /\ Datasets \subseteq Cmds
  BY CaptureAssumption, DatasetAssumption DEF Cmds
<1>1. CASE Elsewhere /\ \A d \in Datasets : Alive(d)' => Alive(d)
  BY <1>1 DEF Elsewhere, Known, Pending
<1>2. ASSUME NEW d \in Datasets, CollectionLoop(d) \/ LoopSpuriousWake(d)
      PROVE  Elsewhere /\ \A e \in Datasets : Alive(e)' => Alive(e)
  BY <1>2, LoopFrame DEF Elsewhere, Alive
<1>3. CASE CaptureThread \/ Tick \/ UNCHANGED vars
  BY <1>1, <1>3 DEF CaptureThread, Tick, Elsewhere, Alive
<1>4. SUFFICES ASSUME NEW h \in Cmds, PlainStep(h) \/ PointerStep(h)
               PROVE  Known'
  BY <1>1, <1>2, <1>3, HandlerSteps DEF Next
<1> DEFINE ToStop(g, d) == /\ Pending(g) /\ dm[g] = d
                          /\ pc[g] \in {"stop_flag", "stop_notify", "stop_join"}
<1> SUFFICES ASSUME NEW d \in Datasets, Alive(d)'
             PROVE  active' = d \/ \E g \in Cmds : ToStop(g, d)'
  BY DEF Known
<1>5. Alive(d) => active = d \/ \E g \in Cmds : ToStop(g, d)
  BY DEF Known
<1>6. CASE d = h /\ Spawn(h)
  BY <1>6 DEF Spawn, Entered
<1>7. CASE ~(d = h /\ Spawn(h))
  <2>1. Alive(d)
    BY <1>4, <1>7, HandlerThreads DEF Alive, Spawn
  <2>2. CASE PlainStep(h)
    <3>1. PlainMove(h)
      BY <2>2, PlainStepMoves
    <3>2. CASE active = d
      BY <3>1, <3>2 DEF PlainMove
    <3>3. ASSUME NEW g \in Cmds, g # h, ToStop(g, d)
          PROVE  ToStop(g, d)'
      <4>1. reply'[g] = reply[g] /\ pc'[g] = pc[g]
        <5>1. pc' = [pc EXCEPT ![h] = pc'[h]]
          BY <2>2, ReplyStep
        <5>2. reply' = reply \/ \E r \in {"ack", "nack"} : reply' = [reply EXCEPT ![h] = r]
          BY <2>2, ReplyStep
        <5> QED BY <3>3, <5>1, <5>2
      <4> QED BY <3>1, <3>3, <4>1 DEF PlainMove, Pending
    <3>4. CASE ToStop(h, d)
      <4>1. ~StopJoin(h)
        <5> SUFFICES ASSUME StopJoin(h) PROVE FALSE
          OBVIOUS
        <5>1. thread[d] = "done" \/ ~joinable[d]
          BY <3>4 DEF StopJoin, Join
        <5> QED BY <2>1, <5>1 DEF Alive, RunningJoinable
      <4>2. pc'[h] \in {"stop_notify", "stop_join"}
        BY <2>2, <3>4, <4>1 DEF PlainStep, Begin, CheckRunning, StopCollection, StopFlag,
           StopNotify, StopMode, StopConfig, StopImu, DropRunning, DropJoinable, DtorJoin,
           CreateThrows, StartFails, StartFlag, Spawn, Ack
      <4>3. reply' = reply
        BY <2>2, <4>2, ReplyStep
      <4> QED BY <3>1, <3>4, <4>2, <4>3 DEF PlainMove, Pending
    <3> QED BY <1>5, <2>1, <3>2, <3>3, <3>4
  <2>3. CASE PointerStep(h)
    <3>1. pc[h] \notin {"stop_flag", "stop_notify", "stop_join"}
      BY <2>3 DEF PointerStep, LookupStart, LookupStop, Erase, DropShared, DropLast, Create,
                  Assign, Return
    <3>2. ASSUME NEW g \in Cmds, ToStop(g, d)
          PROVE  ToStop(g, d)'
      <4>1. g # h
        BY <3>1, <3>2
      <4>2. reply'[g] = reply[g] /\ pc'[g] = pc[g]
        <5>1. pc' = [pc EXCEPT ![h] = pc'[h]]
          BY <2>3, ReplyStep
        <5>2. reply' = reply \/ \E r \in {"ack", "nack"} : reply' = [reply EXCEPT ![h] = r]
          BY <2>3, ReplyStep
        <5> QED BY <4>1, <5>1, <5>2
      <4>3. dm'[g] = dm[g]
        BY <2>3, <4>1 DEF PointerStep, LookupStart, LookupStop, Erase, DropShared, DropLast,
                          Create, Assign, Return
      <4> QED BY <3>2, <4>2, <4>3 DEF Pending
    <3>3. CASE active = d
      <4>1. CASE Erase(h)
        <5>1. pc[h] = "erase" /\ pc'[h] = "stop_flag" /\ dm'[h] = d /\ reply' = reply
          BY <1>0, <3>3, <4>1 DEF Erase
        <5>2. reply[h] = "none"
          BY <5>1 DEF OneAtATime, Toward, Letting, StopSteps
        <5> QED BY <5>1, <5>2 DEF Pending
      <4>2. CASE Create(h)
        <5>1. active = None
          BY <4>2 DEF Create, Emptied, Toward
        <5> QED BY <1>0, <3>3, <5>1
      <4>3. CASE active' = active
        BY <3>3, <4>3
      <4> QED
        BY <2>3, <4>1, <4>2, <4>3 DEF PointerStep, LookupStart, LookupStop, DropShared,
           DropLast, Assign, Return
    <3> QED BY <1>5, <2>1, <3>2, <3>3
  <2> QED BY <1>4, <2>2, <2>3
<1> QED BY <1>6, <1>7

LEMMA OneAfterTheOther == ASSUME GroundWaits PROVE Spec => [](Inv /\ InOrder /\ Known)
<1>1. Init => InOrder /\ Known
  <2> SUFFICES ASSUME Init PROVE InOrder /\ Known
    OBVIOUS
  <2>1. \A h \in Cmds : pc[h] = "idle" /\ next[h] = "done" /\ reply[h] = "none"
    BY DEF Init
  <2>2. \A h \in Cmds : ~Pending(h) /\ \A s \in HandlerStates : Toward(h, s) <=> s = "idle"
    BY <2>1 DEF Pending, Toward, Letting, StopSteps
  <2>3. OneAtATime
    BY <2>1, <2>2 DEF OneAtATime, HandlerStates
  <2>4. Emptied
    BY <2>1, <2>2 DEF Emptied, HandlerStates, Letting, StopSteps
  <2>5. Entered
    BY <2>1, <2>2 DEF Entered, HandlerStates, Cmds
  <2>6. Known
    BY DEF Init, Known, Alive
  <2> QED BY <2>3, <2>4, <2>5, <2>6 DEF InOrder
<1>2. Inv /\ InOrder /\ Known /\ [Next]_vars => (InOrder /\ Known)'
  BY OneAtATimeStep, EntryStep, KnownStep DEF Inv, Shape, InOrder
<1> QED
  BY <1>1, <1>2, Invariant, PTL DEF Spec

\* A thread that collects is alive, and the dataset of a handler that is
\* about to make its entry, or has only just made it, has no thread: so a
\* ground that waits for each reply never has two datasets collect at the
\* same time, whatever the windows of their commands.
THEOREM OneCollectsHolds == ASSUME GroundWaits PROVE Spec => []OneCollects
<1>1. ASSUME Inv, InOrder, Known,
             NEW d \in Datasets, NEW e \in Datasets, Alive(d), Alive(e)
      PROVE  d = e
  <2> DEFINE ToStop(g, a) == /\ Pending(g) /\ dm[g] = a
                            /\ pc[g] \in {"stop_flag", "stop_notify", "stop_join"}
  <2>1. ASSUME NEW a \in Datasets, Alive(a)
        PROVE  active = a \/ \E g \in Cmds : ToStop(g, a)
    BY <1>1, <2>1 DEF Known
  <2>2. ASSUME NEW a \in Datasets, NEW g \in Cmds, ToStop(g, a), active # None, Alive(active)
        PROVE  FALSE
    <3>0. active \in Datasets
      BY <1>1, <2>2 DEF Inv, TypeOK, MaybeDataset
    <3>1. next[g] \in {"create", "assign", "start", "reply", "done"}
      BY <1>1 DEF Inv, NextInv
    <3>2. pc[g] \in Letting
      BY <2>2 DEF Letting, StopSteps
    <3>3. next[g] \notin {"create", "reply"}
      BY <1>1, <2>2, <3>2 DEF InOrder, Emptied, Toward
    <3>4. next[g] # "done"
      BY <1>1, <2>2, <3>2 DEF InOrder, OneAtATime, Toward, Pending
    <3>5. next[g] # "assign"
      <4> SUFFICES ASSUME next[g] = "assign" PROVE FALSE
        OBVIOUS
      <4>1. Toward(g, "assign")
        BY <3>2 DEF Toward
      <4>2. g \in Datasets /\ active = g
        BY <1>1, <4>1 DEF Inv, AssigningHolds, Assigning
      <4>3. thread[g] = "none"
        BY <1>1, <4>1, <4>2 DEF Inv, UnspawnedQuiet, Unspawned, Assigning
      <4> QED BY <2>2, <4>2, <4>3 DEF Alive
    <3>6. next[g] # "start"
      <4> SUFFICES ASSUME next[g] = "start" PROVE FALSE
        OBVIOUS
      <4>1. Toward(g, "start")
        BY <3>2 DEF Toward
      <4>2. ds[g] = g
        BY <1>1, <4>1 DEF Inv, StartingHolds, Starting
      <4>3. g \in Datasets
        BY <1>1, <4>2, CaptureAssumption, DatasetAssumption
           DEF Inv, TypeOK, MaybeDataset, Cmds
      <4>4. active = g
        BY <1>1, <4>1, <4>3 DEF InOrder, Entered
      <4>5. thread[g] = "none"
        BY <1>1, <4>1, <4>3 DEF Inv, UnspawnedQuiet, Unspawned, Starting
      <4> QED BY <2>2, <4>4, <4>5 DEF Alive
    <3> QED BY <3>1, <3>3, <3>4, <3>5, <3>6
  <2>3. None \notin Datasets
    BY CaptureAssumption
  <2>4. CASE active = d
    BY <1>1, <2>1, <2>2, <2>3, <2>4
  <2>5. CASE active = e
    BY <1>1, <2>1, <2>2, <2>3, <2>5
  <2>6. CASE active # d /\ active # e
    <3>1. PICK g \in Cmds : ToStop(g, d)
      BY <1>1, <2>1, <2>6
    <3>2. PICK h \in Cmds : ToStop(h, e)
      BY <1>1, <2>1, <2>6
    <3>3. g = h
      BY <1>1, <3>1, <3>2 DEF InOrder, OneAtATime
    <3> QED BY <3>1, <3>2, <3>3
  <2> QED BY <2>4, <2>5, <2>6
<1>2. ASSUME NEW d \in Datasets, Collecting(d) PROVE Alive(d)
  BY <1>2 DEF Collecting, Alive, InLoop, Ending, Undoing
<1>3. Inv /\ InOrder /\ Known => OneCollects
  BY <1>1, <1>2 DEF OneCollects
<1> QED
  BY <1>3, OneAfterTheOther, PTL

\* Only Ack replies "ack".
LEMMA AckStep ==
  ASSUME TypeOK, NextInv, NEW h \in Cmds, PlainStep(h) \/ PointerStep(h),
         reply'[h] = "ack", reply[h] = "none"
  PROVE  pc[h] = "reply" /\ active' = active
<1> USE DEF TypeOK, NextInv
<1>1. CASE Ack(h)
  BY <1>1 DEF Ack
<1>2. ~(CheckRunning(h) \/ CreateThrows(h) \/ StartFails(h))
  BY DEF CheckRunning, CreateThrows, StartFails, Nack
<1>3. ~(LookupStart(h) \/ LookupStop(h))
  BY DEF LookupStart, LookupStop, Nack
<1>4. ~(Begin(h) \/ StopCollection(h))
  BY DEF Begin, StopCollection, StopFlag, StopNotify, StopJoin, StopMode, StopConfig, StopImu
<1>5. ~(DropRunning(h) \/ DropJoinable(h) \/ DtorJoin(h) \/ DropShared(h) \/ DropLast(h))
  BY DEF DropRunning, DropJoinable, DtorJoin, DropShared, DropLast
<1>6. ~(StartFlag(h) \/ Spawn(h) \/ Erase(h) \/ Create(h) \/ Assign(h) \/ Return(h))
  BY DEF StartFlag, Spawn, Erase, Create, Assign, Return
<1> QED
  BY <1>1, <1>2, <1>3, <1>4, <1>5, <1>6 DEF PlainStep, PointerStep

\* When START is acknowledged to a ground that waits for each reply, the
\* dataset is the one in the registry.
THEOREM AckedIsRegisteredHolds == ASSUME GroundWaits PROVE Spec => AckedIsRegistered
<1>1. ASSUME Inv, InOrder, [Next]_vars, NEW d \in Datasets,
             reply[d] = "none", reply'[d] = "ack"
      PROVE  active = d
  <2>0. d \in Cmds
    BY DEF Cmds
  <2>1. CASE Elsewhere
    BY <1>1, <2>1 DEF Elsewhere
  <2>2. ASSUME NEW h \in Cmds, PlainStep(h) \/ PointerStep(h)
        PROVE  active = d
    <3>1. reply' = reply \/ \E r \in {"ack", "nack"} : reply' = [reply EXCEPT ![h] = r]
      BY <1>1, <2>2, ReplyStep DEF Inv
    <3>2. h = d
      BY <1>1, <2>0, <3>1 DEF Inv, TypeOK
    <3>3. pc[d] = "reply"
      BY <1>1, <2>2, <3>2, AckStep DEF Inv
    <3> QED BY <1>1, <3>3 DEF InOrder, Entered
  <2> QED BY <1>1, <2>1, <2>2, OtherSteps DEF Inv
<1>2. Inv /\ InOrder /\ [Next]_vars =>
        [\A d \in Datasets : reply[d] = "none" /\ reply'[d] = "ack" => active = d]_vars
  BY <1>1
<1> QED
  BY <1>2, OneAfterTheOther, PTL DEF Spec, AckedIsRegistered
=============================================================================
