---------------------------- MODULE DatasetCapture ----------------------------
(***************************************************************************)
(* Dataset collection: the handlers of START_CAPTURE_DATASET and           *)
(* STOP_CAPTURE_DATASET (commands.cpp), which run on the pool's workers,   *)
(* the registry and the DatasetManager objects they share                  *)
(* (vision/dataset_manager.cpp), one collection thread per dataset, and    *)
(* the capture thread of CaptureLoop.                                      *)
(*                                                                         *)
(* The cameras capture periodically, as every dataset asks.                *)
(*                                                                         *)
(* A START command and the DatasetManager it creates have one name.  The   *)
(* commands use one key, so the registry is one entry.  Shared pointers    *)
(* matter: the object is destroyed by whoever drops the last reference,    *)
(* and the collection thread has none.                                     *)
(***************************************************************************)
EXTENDS CaptureLoop, Integers

CONSTANTS Stops,         \* STOP commands
          RequestedStart, \* capture_start_time of a START command
          MaxPeriod,     \* maximum_period of its dataset
          TargetFrames,  \* target_frame_nb of its dataset
          LastCommand,   \* bound on the time at which a command arrives
          MaxNow,        \* bound on the clock
          GroundWaits    \* the ground waits for a reply before the next command

Cmds == Datasets \cup Stops

ASSUME DatasetAssumption ==
  /\ Datasets \cap Stops = {}
  /\ None \notin Cmds
  /\ RequestedStart \in [Datasets -> Nat]
  /\ MaxPeriod \in [Datasets -> Nat]
  /\ TargetFrames \in [Datasets -> Nat \ {0}]
  /\ MaxNow \in Nat
  /\ LastCommand \in Nat
  /\ GroundWaits \in BOOLEAN

VARIABLES now,                  \* timing::GetCurrentTimeMs()
          active,               \* active_datasets[DATASET_KEY_CMD]
          datasets_mtx,         \* its mutex: the handler that holds it
          pc,                   \* where a handler is
          ds,                   \* a handler's shared pointer
          dm,                   \* the object a handler stops or lets go of
          next,                 \* where the handler goes on after that
          reply,                \* what the handler has queued
          capture_start_time,
          loop_flag,
          thread,               \* where CollectionLoop is
          joinable,             \* collection_thread.joinable()
          freed,                \* ~DatasetManager has run
          progress,             \* progress.current_frames
          stored_frame_ids,     \* the folders of the frames a dataset recorded
          mask,                 \* dataset_camera_mask
          imu                   \* the dataset the IMU collects for

handlerVars == <<pc, ds, dm, next, reply>>
registryVars == <<active, datasets_mtx>>
objectVars == <<capture_start_time, loop_flag, thread, joinable, freed, progress,
                stored_frame_ids>>
deviceVars == <<mask, imu>>

vars == <<now, handlerVars, registryVars, objectVars, deviceVars, camVars>>

StopSteps == {"stop_flag", "stop_notify", "stop_join", "stop_mode", "stop_config",
              "stop_imu"}

HandlerStates == {"idle", "lookup", "running", "erase", "drop", "dtor_join", "create",
                  "assign", "start", "spawn", "reply", "return", "done"} \cup StopSteps

ThreadStates == {"none", "begin", "presleep", "asleep", "reset", "prepare", "config",
                 "mode", "imu", "collect", "drain", "end_flag", "end_mode", "end_config", "end_imu", "done"}

Init ==
  /\ CaptureInit
  /\ now = 0
  /\ active = None
  /\ datasets_mtx = None
  /\ pc = [h \in Cmds |-> "idle"]
  /\ ds = [h \in Cmds |-> None]
  /\ dm = [h \in Cmds |-> None]
  /\ next = [h \in Cmds |-> "done"]
  /\ reply = [h \in Cmds |-> "none"]
  /\ capture_start_time = [d \in Datasets |-> 0]
  /\ loop_flag = [d \in Datasets |-> FALSE]
  /\ thread = [d \in Datasets |-> "none"]
  /\ joinable = [d \in Datasets |-> FALSE]
  /\ freed = [d \in Datasets |-> FALSE]
  /\ progress = [d \in Datasets |-> 0]
  /\ stored_frame_ids = [d \in Datasets |-> {}]
  /\ mask = None
  /\ imu = None

Tick ==
  /\ now < MaxNow
  /\ now' = now + 1
  /\ UNCHANGED <<handlerVars, registryVars, objectVars, deviceVars, camVars>>

-----------------------------------------------------------------------------
(* Dataset::OverlapsWith *)

Overlaps(aStart, aEnd, bStart, bEnd) ==
  \/ aStart >= bStart /\ aStart <= bEnd
  \/ aEnd >= bStart /\ aEnd <= bEnd
  \/ aStart <= bStart /\ aEnd >= bEnd

End(d) == capture_start_time[d] + MaxPeriod[d]

OverlapsWith(d, e) == Overlaps(capture_start_time[d], End(d), capture_start_time[e], End(e))

-----------------------------------------------------------------------------
(* The handlers: looking up *)

PcGoto(h, from, to) ==
  /\ pc[h] = from
  /\ pc' = [pc EXCEPT ![h] = to]

\* The task is given to a worker.
Begin(h) ==
  /\ PcGoto(h, "idle", "lookup")
  /\ now <= LastCommand
  /\ GroundWaits => \A g \in Cmds : pc[g] # "idle" => reply[g] # "none"
  /\ IF h \in Datasets
       THEN capture_start_time' =
              [capture_start_time EXCEPT
                 ![h] = IF RequestedStart[h] < now THEN now ELSE RequestedStart[h]]
       ELSE UNCHANGED capture_start_time
  /\ UNCHANGED <<now, ds, dm, next, reply, registryVars, loop_flag, thread, joinable,
                 freed, progress, stored_frame_ids, deviceVars, camVars>>

Nack(h) == reply' = [reply EXCEPT ![h] = "nack"]

\* GetActiveDatasetManager in START.
LookupStart(h) ==
  /\ h \in Datasets
  /\ datasets_mtx = None
  /\ PcGoto(h, "lookup", IF active = None THEN "create" ELSE "running")
  /\ ds' = [ds EXCEPT ![h] = active]
  /\ UNCHANGED <<now, dm, next, reply, registryVars, objectVars, deviceVars, camVars>>

\* GetActiveDatasetManager in STOP: without an entry, an error reply.
LookupStop(h) ==
  /\ h \in Stops
  /\ datasets_mtx = None
  /\ PcGoto(h, "lookup", IF active = None THEN "return" ELSE "erase")
  /\ ds' = [ds EXCEPT ![h] = active]
  /\ IF active = None THEN Nack(h) ELSE UNCHANGED reply
  /\ UNCHANGED <<now, dm, next, registryVars, objectVars, deviceVars, camVars>>

\* START refuses while the dataset it found is running.
CheckRunning(h) ==
  /\ PcGoto(h, "running", IF loop_flag[ds[h]] THEN "return" ELSE "erase")
  /\ IF loop_flag[ds[h]] THEN Nack(h) ELSE UNCHANGED reply
  /\ UNCHANGED <<now, ds, dm, next, registryVars, objectVars, deviceVars, camVars>>

AfterStop(h) == IF h \in Datasets THEN "create" ELSE "reply"

\* Mutant: the entry is read and not erased.
Erase_Keep(h) ==
  /\ datasets_mtx = None
  /\ PcGoto(h, "erase", IF active = None THEN AfterStop(h) ELSE "stop_flag")
  /\ dm' = [dm EXCEPT ![h] = active]
  /\ next' = [next EXCEPT ![h] = AfterStop(h)]
  /\ UNCHANGED <<now, ds, reply, registryVars, objectVars, deviceVars, camVars>>

\* StopDatasetManager takes what is under the key now out of the registry.
Erase(h) ==
  /\ datasets_mtx = None
  /\ PcGoto(h, "erase", IF active = None THEN AfterStop(h) ELSE "stop_flag")
  /\ dm' = [dm EXCEPT ![h] = active]
  /\ next' = [next EXCEPT ![h] = AfterStop(h)]
  /\ active' = None
  /\ UNCHANGED <<now, ds, reply, datasets_mtx, objectVars, deviceVars, camVars>>

-----------------------------------------------------------------------------
(* The handlers: StopCollection of dm[h], outside any lock *)

StopFlag(h) ==
  /\ PcGoto(h, "stop_flag", "stop_notify")
  /\ loop_flag' = [loop_flag EXCEPT ![dm[h]] = FALSE]
  /\ UNCHANGED <<now, ds, dm, next, reply, registryVars, capture_start_time, thread,
                 joinable, freed, progress, stored_frame_ids, deviceVars, camVars>>

\* loop_cv.notify_all() without loop_mtx: it reaches a thread that sleeps.
StopNotify(h) ==
  /\ PcGoto(h, "stop_notify", "stop_join")
  /\ thread' = [thread EXCEPT ![dm[h]] = IF @ = "asleep" THEN "begin" ELSE @]
  /\ UNCHANGED <<now, ds, dm, next, reply, registryVars, capture_start_time, loop_flag,
                 joinable, freed, progress, stored_frame_ids, deviceVars, camVars>>

Join(h) ==
  /\ joinable[dm[h]] => thread[dm[h]] = "done"
  /\ joinable' = [joinable EXCEPT ![dm[h]] = FALSE]

\* Mutant: StopCollection does not wait for the thread.
StopJoin_Skip(h) ==
  /\ PcGoto(h, "stop_join", "stop_mode")
  /\ UNCHANGED <<now, ds, dm, next, reply, registryVars, objectVars, deviceVars, camVars>>

StopJoin(h) ==
  /\ PcGoto(h, "stop_join", "stop_mode")
  /\ Join(h)
  /\ UNCHANGED <<now, ds, dm, next, reply, registryVars, capture_start_time, loop_flag,
                 thread, freed, progress, stored_frame_ids, deviceVars, camVars>>

StopMode(h) ==
  /\ PcGoto(h, "stop_mode", "stop_config")
  /\ SetCaptureMode(None)
  /\ UNCHANGED <<now, ds, dm, next, reply, registryVars, objectVars, deviceVars>>

\* ResetCaptureState, ClearDatasetCamerasMask, SetStorageFolder(IMAGES_FOLDER).
StopConfig(h) ==
  /\ PcGoto(h, "stop_config", "stop_imu")
  /\ ResetAndStoreIn(None)
  /\ mask' = None
  /\ UNCHANGED <<now, ds, dm, next, reply, registryVars, objectVars, imu>>

\* imuManager.Suspend(); StopCollection returns to the scope that owns dm.
StopImu(h) ==
  /\ PcGoto(h, "stop_imu", "drop")
  /\ imu' = None
  /\ UNCHANGED <<now, ds, dm, next, reply, registryVars, objectVars, mask, camVars>>

StopCollection(h) ==
  StopFlag(h) \/ StopNotify(h) \/ StopJoin(h) \/ StopMode(h) \/ StopConfig(h)
  \/ StopImu(h)

-----------------------------------------------------------------------------
(* The handlers: a shared pointer goes away, ~DatasetManager *)

\* Somebody other than dm[h] refers to the object.
Referenced(h) ==
  \/ active = dm[h]
  \/ ds[h] = dm[h]
  \/ \E g \in Cmds \ {h} : ds[g] = dm[h] \/ dm[g] = dm[h]

Release(h) ==
  /\ PcGoto(h, "drop", next[h])
  /\ dm' = [dm EXCEPT ![h] = None]

DropShared(h) ==
  /\ Release(h)
  /\ Referenced(h)
  /\ UNCHANGED <<now, ds, next, reply, registryVars, objectVars, deviceVars, camVars>>

\* The last reference: the destructor stops a running collection...
DropRunning(h) ==
  /\ PcGoto(h, "drop", "stop_flag")
  /\ ~Referenced(h)
  /\ loop_flag[dm[h]]
  /\ UNCHANGED <<now, ds, dm, next, reply, registryVars, objectVars, deviceVars, camVars>>

\* ...joins a thread that completed by itself...
DropJoinable(h) ==
  /\ PcGoto(h, "drop", "dtor_join")
  /\ ~Referenced(h)
  /\ ~loop_flag[dm[h]]
  /\ joinable[dm[h]]
  /\ UNCHANGED <<now, ds, dm, next, reply, registryVars, objectVars, deviceVars, camVars>>

DtorJoin(h) ==
  /\ PcGoto(h, "dtor_join", "drop")
  /\ Join(h)
  /\ UNCHANGED <<now, ds, dm, next, reply, registryVars, capture_start_time, loop_flag,
                 thread, freed, progress, stored_frame_ids, deviceVars, camVars>>

\* Mutant: the destructor only looks at Running().
DropLast_NoJoin(h) ==
  /\ Release(h)
  /\ ~Referenced(h)
  /\ ~loop_flag[dm[h]]
  /\ freed' = [freed EXCEPT ![dm[h]] = TRUE]
  /\ UNCHANGED <<now, ds, next, reply, registryVars, capture_start_time, loop_flag,
                 thread, joinable, progress, stored_frame_ids, deviceVars, camVars>>

\* ...and the object is gone.
DropLast(h) ==
  /\ Release(h)
  /\ ~Referenced(h)
  /\ ~loop_flag[dm[h]]
  /\ ~joinable[dm[h]]
  /\ freed' = [freed EXCEPT ![dm[h]] = TRUE]
  /\ UNCHANGED <<now, ds, next, reply, registryVars, capture_start_time, loop_flag,
                 thread, joinable, progress, stored_frame_ids, deviceVars, camVars>>

Drop(h) == DropShared(h) \/ DropRunning(h) \/ DropJoinable(h) \/ DtorJoin(h) \/ DropLast(h)
-----------------------------------------------------------------------------
(* The handlers: Create, StartCollection, reply, return *)

\* Create refuses a window that overlaps the registered one: START replies
\* with an error and keeps the pointer it had looked up.
CreateThrows(h) ==
  /\ datasets_mtx = None
  /\ active # None
  /\ OverlapsWith(h, active)
  /\ PcGoto(h, "create", "return")
  /\ Nack(h)
  /\ UNCHANGED <<now, ds, dm, next, registryVars, objectVars, deviceVars, camVars>>

\* Mutant: the new object is not put into the registry.
Create_Unregistered(h) ==
  /\ datasets_mtx = None
  /\ active # None => ~OverlapsWith(h, active)
  /\ PcGoto(h, "create", "assign")
  /\ datasets_mtx' = h
  /\ UNCHANGED <<now, ds, dm, next, reply, active, objectVars, deviceVars, camVars>>

\* Create registers the new object.  An entry it replaces is let go of
\* while datasets_mtx is held.
Create(h) ==
  /\ datasets_mtx = None
  /\ active # None => ~OverlapsWith(h, active)
  /\ PcGoto(h, "create", IF active = None THEN "assign" ELSE "drop")
  /\ dm' = [dm EXCEPT ![h] = active]
  /\ next' = [next EXCEPT ![h] = "assign"]
  /\ active' = h
  /\ datasets_mtx' = h
  /\ UNCHANGED <<now, ds, reply, objectVars, deviceVars, camVars>>

\* ds = Create(...): what ds pointed to before is let go of.
Assign(h) ==
  /\ PcGoto(h, "assign", IF ds[h] = None THEN "start" ELSE "drop")
  /\ datasets_mtx' = None
  /\ dm' = [dm EXCEPT ![h] = ds[h]]
  /\ next' = [next EXCEPT ![h] = "start"]
  /\ ds' = [ds EXCEPT ![h] = h]
  /\ UNCHANGED <<now, reply, active, objectVars, deviceVars, camVars>>

\* StartCollection cannot make the dataset's folder.
StartFails(h) ==
  /\ PcGoto(h, "start", "return")
  /\ Nack(h)
  /\ UNCHANGED <<now, ds, dm, next, registryVars, objectVars, deviceVars, camVars>>

StartFlag(h) ==
  /\ PcGoto(h, "start", "spawn")
  /\ loop_flag' = [loop_flag EXCEPT ![h] = TRUE]
  /\ UNCHANGED <<now, ds, dm, next, reply, registryVars, capture_start_time, thread,
                 joinable, freed, progress, stored_frame_ids, deviceVars, camVars>>

Spawn(h) ==
  /\ PcGoto(h, "spawn", "reply")
  /\ thread' = [thread EXCEPT ![h] = "begin"]
  /\ joinable' = [joinable EXCEPT ![h] = TRUE]
  /\ UNCHANGED <<now, ds, dm, next, reply, registryVars, capture_start_time, loop_flag,
                 freed, progress, stored_frame_ids, deviceVars, camVars>>

Ack(h) ==
  /\ PcGoto(h, "reply", "return")
  /\ reply' = [reply EXCEPT ![h] = "ack"]
  /\ UNCHANGED <<now, ds, dm, next, registryVars, objectVars, deviceVars, camVars>>

\* The handler returns: its shared pointer goes away.
Return(h) ==
  /\ PcGoto(h, "return", IF ds[h] = None THEN "done" ELSE "drop")
  /\ dm' = [dm EXCEPT ![h] = ds[h]]
  /\ ds' = [ds EXCEPT ![h] = None]
  /\ next' = [next EXCEPT ![h] = "done"]
  /\ UNCHANGED <<now, reply, registryVars, objectVars, deviceVars, camVars>>

-----------------------------------------------------------------------------
(* CollectionLoop of dataset d *)

ThreadGoto(d, from, to) ==
  /\ thread[d] = from
  /\ thread' = [thread EXCEPT ![d] = to]

\* The predicate of loop_cv.wait_until, under loop_mtx...
LoopPredicate(d) ==
  /\ ThreadGoto(d, "begin", IF loop_flag[d] THEN "presleep" ELSE "done")
  /\ UNCHANGED <<now, handlerVars, registryVars, capture_start_time, loop_flag, joinable,
                 freed, progress, stored_frame_ids, deviceVars, camVars>>

\* ...and the sleep.  StopCollection does not take loop_mtx.
LoopSleeps(d) ==
  /\ ThreadGoto(d, "presleep", "asleep")
  /\ UNCHANGED <<now, handlerVars, registryVars, capture_start_time, loop_flag, joinable,
                 freed, progress, stored_frame_ids, deviceVars, camVars>>

\* A wake before the deadline; after it, wait_until reports a timeout.
LoopSpuriousWake(d) ==
  /\ now < capture_start_time[d]
  /\ ThreadGoto(d, "asleep", "begin")
  /\ UNCHANGED <<now, handlerVars, registryVars, capture_start_time, loop_flag, joinable,
                 freed, progress, stored_frame_ids, deviceVars, camVars>>

\* The start time has come: look at the flag once more.
LoopTimeout(d) ==
  /\ now >= capture_start_time[d]
  /\ ThreadGoto(d, "asleep", IF loop_flag[d] THEN "reset" ELSE "done")
  /\ UNCHANGED <<now, handlerVars, registryVars, capture_start_time, loop_flag, joinable,
                 freed, progress, stored_frame_ids, deviceVars, camVars>>

LoopReset(d) ==
  /\ ThreadGoto(d, "reset", "prepare")
  /\ ResetAndStoreIn(folder)
  /\ UNCHANGED <<now, handlerVars, registryVars, capture_start_time, loop_flag, joinable,
                 freed, progress, stored_frame_ids, deviceVars>>

\* SetDatasetCamerasMask and PrepareForCapture.
LoopPrepare(d) ==
  /\ ThreadGoto(d, "prepare", "config")
  /\ mask' = d
  /\ UNCHANGED <<now, handlerVars, registryVars, capture_start_time, loop_flag, joinable,
                 freed, progress, stored_frame_ids, imu, camVars>>

\* A camera does not start: clear the flag and the mask, and return.
LoopPrepareFails(d) ==
  /\ ThreadGoto(d, "prepare", "done")
  /\ loop_flag' = [loop_flag EXCEPT ![d] = FALSE]
  /\ mask' = None
  /\ UNCHANGED <<now, handlerVars, registryVars, capture_start_time, joinable, freed,
                 progress, stored_frame_ids, imu, camVars>>

\* The storage folder, and how many frames to capture.
LoopConfig(d) ==
  /\ ThreadGoto(d, "config", "mode")
  /\ CaptureInto(d, TargetFrames[d])
  /\ UNCHANGED <<now, handlerVars, registryVars, capture_start_time, loop_flag, joinable,
                 freed, progress, stored_frame_ids, deviceVars>>

LoopMode(d) ==
  /\ ThreadGoto(d, "mode", "imu")
  /\ SetCaptureMode(d)
  /\ UNCHANGED <<now, handlerVars, registryVars, capture_start_time, loop_flag, joinable,
                 freed, progress, stored_frame_ids, deviceVars>>

\* SetLogFile, SetSampleRate, SetCollectionMode, StartCollection.
LoopImu(d) ==
  /\ ThreadGoto(d, "imu", "collect")
  /\ imu' = d
  /\ UNCHANGED <<now, handlerVars, registryVars, capture_start_time, loop_flag, joinable,
                 freed, progress, stored_frame_ids, mask, camVars>>

\* CheckTermination
Terminated(d) ==
  \/ progress[d] >= TargetFrames[d]
  \/ now > capture_start_time[d] /\ now - capture_start_time[d] > MaxPeriod[d]

\* The condition of the loop; the sleep follows.
LoopTurn(d) ==
  /\ loop_flag[d]
  /\ ~Terminated(d)
  /\ ThreadGoto(d, "collect", "drain")
  /\ UNCHANGED <<now, handlerVars, registryVars, capture_start_time, loop_flag, joinable,
                 freed, progress, stored_frame_ids, deviceVars, camVars>>

Drained == {buffer_frame_ids[i] : i \in DOMAIN buffer_frame_ids}

\* Mutant: the progress does not saturate at the target.
LoopDrain_NoClamp(d) ==
  /\ ThreadGoto(d, "drain", "collect")
  /\ stored_frame_ids' = [stored_frame_ids EXCEPT ![d] = @ \cup Drained]
  /\ progress' = [progress EXCEPT ![d] = @ + Len(buffer_frame_ids)]
  /\ DrainBufferFrameIDs
  /\ UNCHANGED <<now, handlerVars, registryVars, capture_start_time, loop_flag, joinable,
                 freed, deviceVars>>

\* After the sleep, whatever has happened meanwhile: take the frame IDs.
LoopDrain(d) ==
  /\ ThreadGoto(d, "drain", "collect")
  /\ stored_frame_ids' = [stored_frame_ids EXCEPT ![d] = @ \cup Drained]
  /\ progress' = [progress EXCEPT ![d] = AtMost(@ + Len(buffer_frame_ids), TargetFrames[d])]
  /\ DrainBufferFrameIDs
  /\ UNCHANGED <<now, handlerVars, registryVars, capture_start_time, loop_flag, joinable,
                 freed, deviceVars>>

\* The loop ends and the summary is stored.
LoopEnds(d) ==
  /\ ~loop_flag[d] \/ Terminated(d)
  /\ ThreadGoto(d, "collect", "end_flag")
  /\ UNCHANGED <<now, handlerVars, registryVars, capture_start_time, loop_flag, joinable,
                 freed, progress, stored_frame_ids, deviceVars, camVars>>

\* Mutant: the thread joins itself.
EndFlag_SelfJoin(d) ==
  /\ ThreadGoto(d, "end_flag", "end_mode")
  /\ joinable[d] => thread[d] = "done"
  /\ loop_flag' = [loop_flag EXCEPT ![d] = FALSE]
  /\ UNCHANGED <<now, handlerVars, registryVars, capture_start_time, joinable, freed,
                 progress, stored_frame_ids, deviceVars, camVars>>

\* StopCollection called by the thread itself: no join.
EndFlag(d) ==
  /\ ThreadGoto(d, "end_flag", "end_mode")
  /\ loop_flag' = [loop_flag EXCEPT ![d] = FALSE]
  /\ UNCHANGED <<now, handlerVars, registryVars, capture_start_time, joinable, freed,
                 progress, stored_frame_ids, deviceVars, camVars>>

\* Mutant: the thread leaves the capture mode as it is.
EndMode_Keep(d) ==
  /\ ThreadGoto(d, "end_mode", "end_config")
  /\ UNCHANGED <<now, handlerVars, registryVars, capture_start_time, loop_flag, joinable,
                 freed, progress, stored_frame_ids, deviceVars, camVars>>

EndMode(d) ==
  /\ ThreadGoto(d, "end_mode", "end_config")
  /\ SetCaptureMode(None)
  /\ UNCHANGED <<now, handlerVars, registryVars, capture_start_time, loop_flag, joinable,
                 freed, progress, stored_frame_ids, deviceVars>>

EndConfig(d) ==
  /\ ThreadGoto(d, "end_config", "end_imu")
  /\ ResetAndStoreIn(None)
  /\ mask' = None
  /\ UNCHANGED <<now, handlerVars, registryVars, capture_start_time, loop_flag, joinable,
                 freed, progress, stored_frame_ids, imu>>

EndImu(d) ==
  /\ ThreadGoto(d, "end_imu", "done")
  /\ imu' = None
  /\ UNCHANGED <<now, handlerVars, registryVars, capture_start_time, loop_flag, joinable,
                 freed, progress, stored_frame_ids, mask, camVars>>

-----------------------------------------------------------------------------
StartSteps(h) ==
  h \in Datasets /\ (CreateThrows(h) \/ Create(h) \/ Assign(h) \/ StartFails(h)
                     \/ StartFlag(h) \/ Spawn(h))

HandlerStep(h) ==
  \/ LookupStart(h) \/ LookupStop(h) \/ CheckRunning(h) \/ Erase(h)
  \/ StopCollection(h) \/ Drop(h) \/ StartSteps(h) \/ Ack(h) \/ Return(h)

CollectionLoop(d) ==
  \/ LoopPredicate(d) \/ LoopSleeps(d) \/ LoopTimeout(d) \/ LoopReset(d)
  \/ LoopPrepare(d) \/ LoopPrepareFails(d) \/ LoopConfig(d)
  \/ LoopMode(d) \/ LoopImu(d) \/ LoopTurn(d) \/ LoopDrain(d) \/ LoopEnds(d) \/ EndFlag(d)
  \/ EndMode(d) \/ EndConfig(d) \/ EndImu(d)

CaptureThread ==
  /\ CamStep
  /\ UNCHANGED <<now, handlerVars, registryVars, objectVars, deviceVars>>

Next ==
  \/ \E h \in Cmds : Begin(h) \/ HandlerStep(h)
  \/ \E d \in Datasets : CollectionLoop(d) \/ LoopSpuriousWake(d)
  \/ CaptureThread
  \/ Tick

Spec == Init /\ [][Next]_vars

\* Workers and collection threads are scheduled and time passes.  The ground
\* owes nothing, and neither do the cameras.
Fairness ==
  /\ \A h \in Cmds : WF_vars(HandlerStep(h))
  /\ \A d \in Datasets : WF_vars(CollectionLoop(d))
  /\ WF_vars(Tick)

FairSpec == Spec /\ Fairness

-----------------------------------------------------------------------------
(* Properties *)

\* The type of every variable.
TypeOK ==
  /\ now \in Nat
  /\ active \in MaybeDataset
  /\ datasets_mtx \in MaybeDataset
  /\ pc \in [Cmds -> HandlerStates]
  /\ ds \in [Cmds -> MaybeDataset]
  /\ dm \in [Cmds -> MaybeDataset]
  /\ next \in [Cmds -> HandlerStates]
  /\ reply \in [Cmds -> {"none", "ack", "nack"}]
  /\ capture_start_time \in [Datasets -> Nat]
  /\ loop_flag \in [Datasets -> BOOLEAN]
  /\ thread \in [Datasets -> ThreadStates]
  /\ joinable \in [Datasets -> BOOLEAN]
  /\ freed \in [Datasets -> BOOLEAN]
  /\ progress \in [Datasets -> Nat] /\ \A d \in Datasets : progress[d] <= TargetFrames[d]
  /\ stored_frame_ids \in [Datasets -> SUBSET MaybeDataset]
  /\ mask \in MaybeDataset
  /\ imu \in MaybeDataset
  /\ mode \in MaybeDataset
  /\ folder \in MaybeDataset
  /\ periodic_frames_captured \in Nat
  /\ periodic_frames_to_capture \in Nat
  /\ buffer_frame_ids \in Seq(MaybeDataset)
  /\ cam \in {"idle", "save", "count", "check", "finish", "defaults"}
  /\ saved \in Seq(MaybeDataset)
  /\ turns \in Nat

InLoop == {"collect", "drain"}
Undoing == {"end_flag", "end_mode", "end_config"}
Ending == Undoing \cup {"end_imu"}

\* A dataset's setting of a device is there only while its collection
\* thread has yet to undo it: whatever STOP, START, a failing camera and the
\* destructor do, no capture, mask or IMU collection is orphaned; nor is a
\* folder, unless IMAGES_FOLDER, where captures go afterwards, is missing and
\* cannot be made (InitializeDataStorage makes it, and its failure is ignored).
SettingsHaveOwner ==
  \A d \in Datasets :
    /\ mode = d => thread[d] \in {"imu", "end_flag", "end_mode"} \cup InLoop
    /\ mask = d => thread[d] \in {"config", "mode", "imu"} \cup InLoop \cup Undoing
    /\ (None \notin Uncreatable /\ folder = d) =>
         thread[d] \in {"mode", "imu"} \cup InLoop \cup Undoing
    /\ imu = d => thread[d] \in InLoop \cup Ending

\* The collection thread uses its DatasetManager through a plain pointer:
\* the object is destroyed only when no thread runs in it and none is left
\* to be joined, and no handler or registry entry still points to it.
ObjectOutlivesThread ==
  \A d \in Datasets : freed[d] =>
    /\ thread[d] \in {"none", "done"}
    /\ ~joinable[d]
    /\ active # d
    /\ \A h \in Cmds : ds[h] # d /\ dm[h] # d

\* Two handlers never stop, and so never join, the same collection thread
\* at once.
OneStopper ==
  \A g, h \in Cmds :
    /\ pc[g] \in StopSteps \cup {"dtor_join"}
    /\ pc[h] \in StopSteps \cup {"dtor_join"}
    /\ dm[g] = dm[h]
    => g = h

Collecting(d) ==
  thread[d] \in {"reset", "prepare", "config", "mode", "imu"} \cup InLoop \cup Ending

\* "No two datasets should collect at the same time" (dataset_manager.cpp).
OneCollects ==
  \A d, e \in Datasets : Collecting(d) /\ Collecting(e) => d = e

\* When START is acknowledged, the dataset is the one in the registry: a
\* later STOP will find it.
AckedIsRegistered ==
  [][\A d \in Datasets : reply[d] = "none" /\ reply'[d] = "ack" => active = d]_vars

\* "stores the data in the corresponding folder" (dataset_manager.hpp): the
\* frames a dataset lists are in its own folder.
FramesInOwnFolder ==
  \A d \in Datasets : stored_frame_ids[d] \subseteq {d}

\* Every handler comes to its end: joins do not wait for each other, for
\* themselves, or for the mutex of the registry.
HandlersFinish ==
  \A h \in Cmds : pc[h] # "idle" ~> pc[h] = "done"
=============================================================================
