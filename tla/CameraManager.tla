----------------------------- MODULE CameraManager -----------------------------
(***************************************************************************)
(* CameraManager of FSW-Payload/src/vision/camera_manager.cpp: one         *)
(* capture mode, one mask and a set of cameras that RunLoop, the workers   *)
(* that run commands and the collection thread of a dataset all change.    *)
(* The mode is atomic and the mask has a mutex, but what they guard is     *)
(* done in steps between which the others come.                            *)
(*                                                                         *)
(* Enable and Disable of one camera are one step with an outcome: module   *)
(* Camera has their steps.  Counting the cameras is one step too, and the  *)
(* frames of a capture are a number.  CaptureLoop has the steps in which   *)
(* RunLoop publishes and counts frames.                                    *)
(***************************************************************************)
EXTENDS Naturals, FiniteSets

CONSTANTS Cams,       \* camera_configs, in the order of the array
          Enabled,    \* those that the configuration enables
          Broken,     \* cameras whose Enable may fail
          Erring,     \* cameras that may be active with an error
          Workers, Kind,  \* threads that call CameraManager, and what for
          Want,       \* active cameras of the dataset
          Mode,       \* its capture mode
          Target,     \* its number of frames
          InTurn      \* a command starts when no other one is being handled

loop == "RunLoop"
Kinds == {"enable", "disable", "capture", "dataset", "display", "stop_display", "stop"}
Periodic == {"PERIODIC", "PERIODIC_EARTH", "PERIODIC_ROI", "PERIODIC_LDMK"}
Default == Target + 1  \* DEFAULT_PERIODIC_FRAMES_TO_CAPTURE

ManagerAssumption ==
  /\ Cams \subseteq Nat /\ IsFiniteSet(Cams)
  /\ Enabled \subseteq Cams /\ Broken \subseteq Cams /\ Erring \subseteq Cams
  /\ Want \subseteq Cams
  /\ loop \notin Workers
  /\ Kind \in [Workers -> Kinds]
  /\ Mode \in Periodic
  /\ Target \in Nat \ {0}
  /\ InTurn \in BOOLEAN

VARIABLES active,     \* cameras whose status is ACTIVE
          mask,       \* dataset_camera_mask
          capture_mode, loop_flag, display_flag, auto_disable_after_capture,
          to_capture, captured,  \* periodic_frames_to_capture, _captured
          pc,         \* where each worker and RunLoop are
          ret, left,  \* of EnableCameras and its like: return, cameras to go
          before, expected,  \* active_before, expected_count
          lmode, saved,  \* mode and frames of RunLoop
          \* and history:
          complete,   \* the dataset has been served
          late,       \* another request was at work when it set mode and number
          lost        \* the last notification came between predicate and sleep

modes == <<capture_mode, to_capture, captured, complete, late>>
flags == <<loop_flag, display_flag>>
locals == <<before, expected>>
subs == <<pc, ret, left, lost>>
runs == <<lmode, saved>>
vars == <<active, mask, modes, flags, auto_disable_after_capture, subs, locals, runs>>

Threads == Workers \cup {loop}

Init ==
  /\ active = {} /\ mask = Cams
  /\ capture_mode = "IDLE"
  /\ loop_flag = TRUE /\ display_flag = FALSE
  /\ auto_disable_after_capture = FALSE
  /\ to_capture = Default /\ captured = 0
  /\ pc = [p \in Threads |-> IF p = loop THEN "test" ELSE "sent"]
  /\ ret = [p \in Threads |-> "none"]
  /\ left = [p \in Threads |-> {}]
  /\ before = [p \in Workers |-> 0] /\ expected = [p \in Workers |-> 0]
  /\ lmode = "IDLE" /\ saved = 0
  /\ complete = FALSE /\ late = FALSE /\ lost = FALSE

Goto(p, from, to) ==
  /\ pc[p] = from /\ pc' = [pc EXCEPT ![p] = to]
  /\ UNCHANGED <<ret, left, lost>>

\* capture_mode_cv.notify_all, by threads that do not hold capture_mode_mutex.
Notify(p, from, to) ==
  /\ pc[p] = from
  /\ lost' = (pc[loop] = "block")
  /\ pc' = [pc EXCEPT ![p] = to, ![loop] =
              IF p = loop THEN to ELSE IF @ = "asleep" THEN "predicate" ELSE @]
  /\ UNCHANGED <<ret, left>>

-----------------------------------------------------------------------------
(* EnableCameras, DisableCameras, the loop of SetDatasetCamerasMask and of *)
(* StopLoops: cameras one by one                                           *)

Call(p, from, what, cams, to) ==
  /\ pc[p] = from
  /\ pc' = [pc EXCEPT ![p] = IF cams = {} THEN to ELSE what]
  /\ ret' = [ret EXCEPT ![p] = to]
  /\ left' = [left EXCEPT ![p] = cams]
  /\ UNCHANGED lost

\* EnableCameras copies the mask before it starts.
CallEnable(p, from, to) == Call(p, from, "enabling", Enabled \cap mask, to)
CallDisable(p, from, to) == Call(p, from, "disabling", Enabled, to)

First(p) == CHOOSE c \in left[p] : \A d \in left[p] : c <= d
Step(p) ==
  /\ left' = [left EXCEPT ![p] = @ \ {First(p)}]
  /\ pc' = [pc EXCEPT ![p] = IF left[p] = {First(p)} THEN ret[p] ELSE @]
  /\ UNCHANGED <<ret, lost>>

EnableOne(p) ==
  /\ pc[p] = "enabling"
  /\ \/ active' = active \cup {First(p)}
     \/ First(p) \in Broken /\ UNCHANGED active
  /\ Step(p)
  /\ UNCHANGED <<mask, modes, flags, auto_disable_after_capture, locals, runs>>

DisableOne(p) ==
  /\ pc[p] = "disabling"
  /\ active' = active \ {First(p)}
  /\ Step(p)
  /\ UNCHANGED <<mask, modes, flags, auto_disable_after_capture, locals, runs>>

-----------------------------------------------------------------------------
(* PrepareForCapture *)

PrepareCounts(p) ==
  LET count == Cardinality(Enabled \cap mask) IN
  /\ \/ /\ count \in {0, Cardinality(active)}
        /\ auto_disable_after_capture' = FALSE
        /\ Goto(p, "prepare", IF count = 0 THEN "refused" ELSE "ready")
     \/ /\ count \notin {0, Cardinality(active)}
        /\ CallEnable(p, "prepare", "check")
        /\ UNCHANGED auto_disable_after_capture
  /\ before' = [before EXCEPT ![p] = Cardinality(active)]
  /\ expected' = [expected EXCEPT ![p] = count]
  /\ UNCHANGED <<active, mask, modes, flags, runs>>

PrepareChecks(p) ==
  /\ IF Cardinality(active) = expected[p]
       THEN /\ Goto(p, "check", "ready")
            /\ auto_disable_after_capture' = (before[p] = 0)
       ELSE /\ IF active # {} /\ before[p] = 0
                 THEN CallDisable(p, "check", "give_up")
                 ELSE Goto(p, "check", "give_up")
            /\ UNCHANGED auto_disable_after_capture
  /\ UNCHANGED <<active, mask, modes, flags, locals, runs>>

PrepareFails(p) ==
  /\ Goto(p, "give_up", "refused")
  /\ auto_disable_after_capture' = FALSE
  /\ UNCHANGED <<active, mask, modes, flags, locals, runs>>

-----------------------------------------------------------------------------
(* Commands *)

Busy == {p \in Workers : pc[p] \notin {"sent", "collect", "done"}}
Starts(p, kind) == Kind[p] = kind /\ (InTurn => Busy = {})

Enable(p) ==
  /\ Starts(p, "enable")
  /\ CallEnable(p, "sent", "done")
  /\ UNCHANGED <<active, mask, modes, flags, auto_disable_after_capture, locals, runs>>

Disable(p) ==
  /\ Starts(p, "disable")
  /\ CallDisable(p, "sent", "done")
  /\ UNCHANGED <<active, mask, modes, flags, auto_disable_after_capture, locals, runs>>

Capture_Unchecked(p) ==
  /\ Starts(p, "capture")
  /\ Goto(p, "sent", "prepare")
  /\ UNCHANGED <<active, mask, modes, flags, auto_disable_after_capture, locals, runs>>

\* SendCaptureRequest
Capture(p) ==
  /\ Starts(p, "capture")
  /\ Goto(p, "sent", IF capture_mode = "IDLE" THEN "prepare" ELSE "done")
  /\ UNCHANGED <<active, mask, modes, flags, auto_disable_after_capture, locals, runs>>

CaptureRefused(p) ==
  /\ Kind[p] = "capture"
  /\ Goto(p, "refused", "done")
  /\ UNCHANGED <<active, mask, modes, flags, auto_disable_after_capture, locals, runs>>

CaptureSet(p) ==
  /\ Kind[p] = "capture"
  /\ Notify(p, "ready", "done")
  /\ capture_mode' = "CAPTURE_SINGLE"
  /\ UNCHANGED <<active, mask, to_capture, captured, complete, late, flags, auto_disable_after_capture, locals, runs>>

\* debug_display_camera: the worker itself runs RunDisplayLoop.
Display(p) ==
  /\ Starts(p, "display")
  /\ Goto(p, "sent", IF display_flag THEN "done" ELSE "display")
  /\ display_flag' = TRUE
  /\ UNCHANGED <<active, mask, modes, loop_flag, auto_disable_after_capture, locals, runs>>

DisplayEnds(p) ==
  /\ ~display_flag \/ ~loop_flag \/ active = {}
  /\ Goto(p, "display", "done")
  /\ display_flag' = FALSE
  /\ UNCHANGED <<active, mask, modes, loop_flag, auto_disable_after_capture, locals, runs>>

StopDisplay(p) ==
  /\ Starts(p, "stop_display")
  /\ Goto(p, "sent", "done")
  /\ display_flag' = FALSE
  /\ UNCHANGED <<active, mask, modes, loop_flag, auto_disable_after_capture, locals, runs>>

\* StopLoops: the flags, the notification, every camera.
StopLoops(p) ==
  /\ Starts(p, "stop")
  /\ Goto(p, "sent", "notify")
  /\ loop_flag' = FALSE /\ display_flag' = FALSE
  /\ UNCHANGED <<active, mask, modes, auto_disable_after_capture, locals, runs>>

StopNotifies(p) ==
  /\ Kind[p] = "stop"
  /\ Notify(p, "notify", "stop_cameras")
  /\ auto_disable_after_capture' = FALSE
  /\ UNCHANGED <<active, mask, modes, flags, locals, runs>>

StopDisables(p) ==
  /\ Call(p, "stop_cameras", "disabling", Cams, "done")
  /\ UNCHANGED <<active, mask, modes, flags, auto_disable_after_capture, locals, runs>>

-----------------------------------------------------------------------------
(* A dataset: CollectionLoop and StopCollection, as CameraManager sees     *)
(* them.  Datasets come one after the other: OneCollects of DatasetCapture.*)

Ended(p) == pc[p] \in {"sent", "done"}
DatasetResets(p) ==
  /\ Starts(p, "dataset")
  /\ \A q \in Workers \ {p} : Kind[q] = "dataset" => Ended(q)
  /\ Goto(p, "sent", "mask")
  /\ captured' = 0 /\ to_capture' = Default
  /\ UNCHANGED <<active, mask, capture_mode, complete, late, flags, auto_disable_after_capture, locals, runs>>

\* SetDatasetCamerasMask
DatasetMasks(p) ==
  /\ Call(p, "mask", "disabling", Cams \ Want, "prepare")
  /\ mask' = Want
  /\ UNCHANGED <<active, modes, flags, auto_disable_after_capture, locals, runs>>

DatasetRefused(p) ==
  /\ Kind[p] = "dataset"
  /\ Goto(p, "refused", "clear")
  /\ UNCHANGED <<active, mask, modes, flags, auto_disable_after_capture, locals, runs>>

\* Another request is at work: a capture command between its check of the mode and
\* its end, or RunLoop in a turn for the mode of one.
OtherAtWork(p) ==
  \/ \E q \in Workers \ {p} : Kind[q] = "capture" /\ ~Ended(q)
  \/ /\ lmode # "IDLE"
     /\ \/ pc[loop] \in {"save", "infer", "auto_disable", "count", "idle", "defaults"}
        \/ pc[loop] \in {"enabling", "disabling"} /\ ret[loop] # "test"

DatasetConfigures(p) ==
  /\ Kind[p] = "dataset"
  /\ Goto(p, "ready", "settings")
  /\ to_capture' = Target
  /\ late' = OtherAtWork(p)
  /\ UNCHANGED <<active, mask, capture_mode, captured, complete, flags, auto_disable_after_capture, locals, runs>>

DatasetSetsMode(p) ==
  /\ Notify(p, "settings", "collect")
  /\ capture_mode' = Mode
  /\ complete' = FALSE
  /\ late' = (late \/ OtherAtWork(p))
  /\ UNCHANGED <<active, mask, to_capture, captured, flags, auto_disable_after_capture, locals, runs>>

\* The frames are in, the time is over, or a STOP came.
DatasetStops(p) ==
  /\ Notify(p, "collect", "reset")
  /\ capture_mode' = "IDLE"
  /\ UNCHANGED <<active, mask, to_capture, captured, complete, late, flags, auto_disable_after_capture, locals, runs>>

DatasetUndoes(p) ==
  /\ Goto(p, "reset", "clear")
  /\ captured' = 0 /\ to_capture' = Default
  /\ UNCHANGED <<active, mask, capture_mode, complete, late, flags, auto_disable_after_capture, locals, runs>>

\* ClearDatasetCamerasMask
DatasetClears(p) ==
  /\ Goto(p, "clear", "cleared")
  /\ mask' = Cams
  /\ UNCHANGED <<active, modes, flags, auto_disable_after_capture, locals, runs>>

DatasetEnables(p) ==
  /\ CallEnable(p, "cleared", "done")
  /\ UNCHANGED <<active, mask, modes, flags, auto_disable_after_capture, locals, runs>>

-----------------------------------------------------------------------------
(* RunLoop *)

LoopTests ==
  /\ IF loop_flag
       THEN /\ Goto(loop, "test", IF capture_mode = "IDLE" THEN "predicate" ELSE "save")
            /\ lmode' = capture_mode
            /\ UNCHANGED display_flag
       ELSE /\ Goto(loop, "test", "exited")
            /\ display_flag' = FALSE
            /\ UNCHANGED lmode
  /\ UNCHANGED <<active, mask, modes, loop_flag, auto_disable_after_capture, locals, saved>>

LoopPredicate_ModeOnly ==
  /\ Goto(loop, "predicate", IF capture_mode # "IDLE" THEN "health" ELSE "block")
  /\ UNCHANGED <<active, mask, modes, flags, auto_disable_after_capture, locals, runs>>

\* The predicate of the wait, under a mutex that no notifier takes ...
LoopPredicate ==
  /\ Goto(loop, "predicate", IF ~loop_flag \/ capture_mode # "IDLE" THEN "health" ELSE "block")
  /\ UNCHANGED <<active, mask, modes, flags, auto_disable_after_capture, locals, runs>>

\* ... and the wait: what was notified in between is lost.
LoopBlocks ==
  /\ Goto(loop, "block", "asleep")
  /\ UNCHANGED <<active, mask, modes, flags, auto_disable_after_capture, locals, runs>>

\* The periodic capture is not due yet.
LoopSkips ==
  /\ lmode # "CAPTURE_SINGLE"
  /\ Goto(loop, "save", "health")
  /\ UNCHANGED <<active, mask, modes, flags, auto_disable_after_capture, locals, runs>>

Saved == IF lmode = "CAPTURE_SINGLE" THEN "auto_disable" ELSE "count"

\* SaveLatestFrames: an image of each camera that has a new one.  Frames that
\* go through inference are kept until the cameras have been switched off.
LoopSaves ==
  /\ \E n \in 0..Cardinality(active) :
       /\ saved' = n
       /\ IF lmode \in {"PERIODIC_ROI", "PERIODIC_LDMK"} /\ n > 0
            THEN CallDisable(loop, "save", "infer")
            ELSE Goto(loop, "save", Saved)
  /\ UNCHANGED <<active, mask, modes, flags, auto_disable_after_capture, locals, lmode>>

LoopInfers ==
  /\ \E n \in 0..saved : saved' = n
  /\ CallEnable(loop, "infer", Saved)
  /\ UNCHANGED <<active, mask, modes, flags, auto_disable_after_capture, locals, lmode>>

LoopAutoDisables ==
  /\ IF auto_disable_after_capture
       THEN CallDisable(loop, "auto_disable", "idle")
       ELSE Goto(loop, "auto_disable", "idle")
  /\ auto_disable_after_capture' = FALSE
  /\ UNCHANGED <<active, mask, modes, flags, locals, runs>>

LoopCounts ==
  LET total == captured + saved IN
  /\ captured' = IF total < to_capture THEN total ELSE to_capture
  /\ Goto(loop, "count", IF total >= to_capture THEN "idle" ELSE "health")
  /\ complete' = (complete \/ total >= to_capture)
  /\ UNCHANGED <<active, mask, capture_mode, to_capture, late, flags, auto_disable_after_capture, locals, runs>>

LoopIdles_KeepsMode ==
  /\ Goto(loop, "idle", IF lmode = "CAPTURE_SINGLE" THEN "health" ELSE "defaults")
  /\ UNCHANGED <<active, mask, modes, flags, auto_disable_after_capture, locals, runs>>

\* SetCaptureMode(IDLE), whatever the mode is by now.
LoopIdles ==
  /\ Goto(loop, "idle", IF lmode = "CAPTURE_SINGLE" THEN "health" ELSE "defaults")
  /\ capture_mode' = "IDLE"
  /\ UNCHANGED <<active, mask, to_capture, captured, complete, late, flags, auto_disable_after_capture, locals, runs>>

LoopDefaults ==
  /\ Goto(loop, "defaults", "health")
  /\ captured' = 0 /\ to_capture' = Default
  /\ UNCHANGED <<active, mask, capture_mode, complete, late, flags, auto_disable_after_capture, locals, runs>>

\* _PerformCameraHealthCheck: one camera at most is restarted in a turn.
LoopHealthy ==
  /\ Goto(loop, "health", "test")
  /\ UNCHANGED <<active, mask, modes, flags, auto_disable_after_capture, locals, runs>>

LoopRestarts ==
  \E c \in Erring \cap active :
    /\ Call(loop, "health", "enabling", {c}, "test")
    /\ active' = active \ {c}
    /\ UNCHANGED <<mask, modes, flags, auto_disable_after_capture, locals, runs>>

-----------------------------------------------------------------------------

Command(p) ==
  \/ Enable(p) \/ Disable(p) \/ Capture(p) \/ CaptureRefused(p) \/ CaptureSet(p)
  \/ Display(p) \/ DisplayEnds(p) \/ StopDisplay(p)
  \/ StopLoops(p) \/ StopNotifies(p) \/ StopDisables(p)
  \/ DatasetResets(p) \/ DatasetMasks(p) \/ DatasetRefused(p) \/ DatasetConfigures(p)
  \/ DatasetSetsMode(p) \/ DatasetStops(p) \/ DatasetUndoes(p) \/ DatasetClears(p)
  \/ DatasetEnables(p)
  \/ PrepareCounts(p) \/ PrepareChecks(p) \/ PrepareFails(p)
  \/ EnableOne(p) \/ DisableOne(p)

RunLoop ==
  \/ LoopTests \/ LoopPredicate \/ LoopBlocks \/ LoopSkips \/ LoopSaves \/ LoopInfers
  \/ LoopAutoDisables \/ LoopCounts \/ LoopIdles \/ LoopDefaults
  \/ LoopHealthy \/ LoopRestarts
  \/ EnableOne(loop) \/ DisableOne(loop)

Next == (\E p \in Workers : Command(p)) \/ RunLoop

Spec == Init /\ [][Next]_vars

\* Threads are scheduled; commands need not come, and a dataset need not stop.
Proceeds(p) == pc[p] \notin {"sent", "collect"} /\ Command(p)
FairSpec == Spec /\ WF_vars(RunLoop) /\ \A p \in Workers : WF_vars(Proceeds(p))

-----------------------------------------------------------------------------
(* Properties *)

Places ==
  {"sent", "done", "enabling", "disabling", "prepare", "check", "give_up", "ready",
   "refused", "display", "notify", "stop_cameras", "mask", "settings", "collect", "reset",
   "clear", "cleared", "test", "predicate", "block", "asleep", "health", "save", "infer",
   "auto_disable", "count", "idle", "defaults", "exited"}

\* Types; and no camera that the configuration disables is ever active.
TypeOK ==
  /\ active \subseteq Enabled /\ mask \subseteq Cams
  /\ capture_mode \in {"IDLE", "CAPTURE_SINGLE", Mode}
  /\ loop_flag \in BOOLEAN /\ display_flag \in BOOLEAN
  /\ auto_disable_after_capture \in BOOLEAN
  /\ to_capture \in {Target, Default} /\ captured \in 0..Default
  /\ pc \in [Threads -> Places] /\ ret \in [Threads -> Places \cup {"none"}]
  /\ left \in [Threads -> SUBSET Cams]
  /\ before \in [Workers -> 0..Cardinality(Cams)]
  /\ expected \in [Workers -> 0..Cardinality(Cams)]
  /\ lmode \in {"IDLE", "CAPTURE_SINGLE", Mode}
  /\ saved \in 0..Cardinality(Cams)
  /\ complete \in BOOLEAN /\ late \in BOOLEAN /\ lost \in BOOLEAN

\* A dataset keeps the mode and the number that it set until its frames have been
\* captured.  Only a request that was at work when it set them can take them away: a
\* capture command that had found the mode IDLE, or the turn that RunLoop was in, which
\* ends by storing IDLE and the defaults over whatever is there (RunLoop,
\* SendCaptureRequest); nothing that comes later can.
SettingsAreKept ==
  \A p \in Workers : Kind[p] = "dataset" /\ pc[p] = "collect" =>
    (capture_mode = Mode /\ to_capture = Target) \/ complete \/ late

\* RunLoop sleeps through a notification, until the next one.
SleepsThrough == lost /\ pc[loop] \in {"block", "asleep"}

\* An accepted capture is served: the mode does not stay CAPTURE_SINGLE, unless
\* RunLoop missed the notification (SetCaptureMode notifies without the mutex of the
\* wait) and nothing else notifies it.
CaptureIsServed ==
  (capture_mode = "CAPTURE_SINGLE") ~> (capture_mode # "CAPTURE_SINGLE" \/ SleepsThrough)

\* After StopLoops, RunLoop ends, as the join of the camera thread needs, unless it
\* missed that notification: then the join never returns.
LoopEnds == (~loop_flag) ~> (pc[loop] = "exited" \/ SleepsThrough)

=============================================================================
