------------------------------- MODULE MCDevices -------------------------------
(***************************************************************************)
(* Instances of Camera, CameraManager and Imu in one run.  The components  *)
(* share no state, so a behaviour is one of one instance: the others stay  *)
(* in their initial states.                                                *)
(***************************************************************************)
EXTENDS Naturals, Sequences, TLC

CONSTANTS c1, c2, c3,  \* calls of Camera::Enable and Disable
          d, e, NoFile     \* datasets that use the IMU

VARIABLES instance,
          \* Camera
          cam_status, last_error, capture_loop_flag, _new_frame_flag, cap,
          capture_thread, img, stamp, grabs, camera_pc, reader, copy, taken,
          terminated,
          \* CameraManager
          active, mask, capture_mode, loop_flag, display_flag,
          auto_disable_after_capture, to_capture, captured, manager_pc, ret, left,
          before, expected, lmode, saved, complete, late, lost,
          \* Imu
          state, collection_mode, log_file, ofs, i2c_mutex, pointer, io, power,
          imu_pc, failed, samples, mixed, asleep, missed

-----------------------------------------------------------------------------
Calls == {c1, c2, c3}
TwoEnables == c1 :> "Enable" @@ c2 :> "Enable" @@ c3 :> "Disable"
TwoDisables == c1 :> "Enable" @@ c2 :> "Disable" @@ c3 :> "Disable"

\* Calls in any order, each when the one before it has returned and the capture
\* thread has started.
Turns == INSTANCE Camera
  WITH pc <- camera_pc, Callers <- Calls, Op <- TwoEnables, InTurn <- TRUE,
       Settled <- TRUE, MaxGrabs <- 3, MaxTaken <- 3

\* Calls at any time.
Overlap == INSTANCE Camera
  WITH pc <- camera_pc, Callers <- Calls, Op <- TwoEnables, InTurn <- FALSE,
       Settled <- FALSE, MaxGrabs <- 2, MaxTaken <- 2
Joins == INSTANCE Camera
  WITH pc <- camera_pc, Callers <- Calls, Op <- TwoDisables, InTurn <- FALSE,
       Settled <- FALSE, MaxGrabs <- 1, MaxTaken <- 0

-----------------------------------------------------------------------------
KindOf(Workers) ==
  [w \in Workers |-> CASE w = "capture_too" -> "capture"
                       [] w = "dataset_too" -> "dataset"
                       [] OTHER -> w]

\* Single captures, with a camera that may fail, and the display.
Single == INSTANCE CameraManager
  WITH pc <- manager_pc, Cams <- 1..3, Enabled <- 1..2, Want <- {1}, Target <- 2,
       Mode <- "PERIODIC", Broken <- {2}, Erring <- {},
       Workers <- {"capture", "capture_too", "display", "stop_display"},
       Kind <- KindOf({"capture", "capture_too", "display", "stop_display"}),
       InTurn <- FALSE

\* Two datasets, of one frame each, with a capture beside them and a camera that may
\* fail.
Dataset == INSTANCE CameraManager
  WITH pc <- manager_pc, Cams <- 1..2, Enabled <- {1}, Want <- {1}, Target <- 1,
       Mode <- "PERIODIC_ROI", Broken <- {1}, Erring <- {},
       Workers <- {"dataset", "dataset_too", "capture"},
       Kind <- KindOf({"dataset", "dataset_too", "capture"}), InTurn <- FALSE

\* The end of the program, whatever a capture and an enable do.
Ending == INSTANCE CameraManager
  WITH pc <- manager_pc, Cams <- 1..3, Enabled <- 1..2, Want <- {1}, Target <- 2,
       Mode <- "PERIODIC", Broken <- {1}, Erring <- {1},
       Workers <- {"capture", "stop", "enable"},
       Kind <- KindOf({"capture", "stop", "enable"}),
       InTurn <- FALSE

-----------------------------------------------------------------------------
\* Two datasets one after the other and the telemetry thread, without faults.
Serial == INSTANCE Imu
  WITH pc <- imu_pc, Datasets <- {d, e},
       Wanted <- d :> "GYRO_MAG_TEMP" @@ e :> "GYRO_TEMP",
       InTurn <- TRUE, Faults <- FALSE, Telemetry <- TRUE, MaxSamples <- 1

\* The same with faults and a dataset without IMU.
Faulty == INSTANCE Imu
  WITH pc <- imu_pc, Datasets <- {d, e},
       Wanted <- d :> "GYRO_MAG_TEMP" @@ e :> "NONE",
       InTurn <- TRUE, Faults <- TRUE, Telemetry <- FALSE, MaxSamples <- 1

-----------------------------------------------------------------------------
ASSUME CameraInstances ==
  Turns!CameraAssumption /\ Overlap!CameraAssumption /\ Joins!CameraAssumption
ASSUME ManagerInstances ==
  Single!ManagerAssumption /\ Dataset!ManagerAssumption /\ Ending!ManagerAssumption
ASSUME ImuInstances ==
  Serial!ImuAssumption /\ Faulty!ImuAssumption

InitOf(i) ==
  /\ Turns!Init
  /\ IF i = "dataset" THEN Dataset!Init ELSE IF i = "ending" THEN Ending!Init ELSE Single!Init
  /\ Serial!Init
  /\ i \notin {"serial", "faulty"} => missed = {}

Init ==
  \E i \in {"turns", "overlap", "joins", "single", "dataset", "ending", "serial", "faulty"} :
    instance = i /\ InitOf(i)

camera == <<cam_status, last_error, capture_loop_flag, _new_frame_flag, cap,
            capture_thread, img, stamp, grabs, camera_pc, reader, copy, taken,
            terminated>>
manager == <<active, mask, capture_mode, loop_flag, display_flag,
             auto_disable_after_capture, to_capture, captured, manager_pc, ret,
             left, before, expected, lmode, saved, complete, late, lost>>
imu == <<state, collection_mode, log_file, ofs, i2c_mutex, pointer, io, power,
         imu_pc, failed, samples, mixed, asleep, missed>>

Next ==
  /\ \/ instance = "turns" /\ Turns!Next /\ UNCHANGED <<manager, imu>>
     \/ instance = "overlap" /\ Overlap!Next /\ UNCHANGED <<manager, imu>>
     \/ instance = "joins" /\ Joins!Next /\ UNCHANGED <<manager, imu>>
     \/ instance = "single" /\ Single!Next /\ UNCHANGED <<camera, imu>>
     \/ instance = "dataset" /\ Dataset!Next /\ UNCHANGED <<camera, imu>>
     \/ instance = "ending" /\ Ending!Next /\ UNCHANGED <<camera, imu>>
     \/ instance = "serial" /\ Serial!Next /\ UNCHANGED <<camera, manager>>
     \/ instance = "faulty" /\ Faulty!Next /\ UNCHANGED <<camera, manager>>
  /\ UNCHANGED instance

all == <<instance, camera, manager, imu>>

Spec ==
  /\ Init /\ [][Next]_all
  /\ \A w \in {"capture", "capture_too", "display", "stop_display"} :
       WF_manager(instance = "single" /\ Single!Proceeds(w))
  /\ WF_manager(instance = "single" /\ Single!RunLoop)
  /\ \A w \in {"capture", "stop", "enable"} :
       WF_manager(instance = "ending" /\ Ending!Proceeds(w))
  /\ WF_manager(instance = "ending" /\ Ending!RunLoop)

-----------------------------------------------------------------------------
\* The type invariants of the three modules.
TypeOK ==
  /\ Turns!TypeOK
  /\ CASE instance = "dataset" -> Dataset!TypeOK
       [] instance = "ending" -> Ending!TypeOK
       [] OTHER -> Single!TypeOK
  /\ IF instance = "serial" THEN Serial!TypeOK ELSE Faulty!TypeOK

\* FramesAdvance, also for calls that overlap.
FramesAdvance == Turns!FramesAdvance

\* PowerIsWhole for calls one after the other.
PowerIsWhole == instance = "turns" => Turns!PowerIsWhole

\* CaptureIsServed for single captures, which may overlap.
CaptureIsServed ==
  (instance = "single" /\ capture_mode = "CAPTURE_SINGLE")
    ~> (capture_mode # "CAPTURE_SINGLE" \/ Single!SleepsThrough)

\* SettingsAreKept for two datasets with a capture beside them.
SettingsAreKept == instance = "dataset" => Dataset!SettingsAreKept

\* LoopEnds, whatever a capture and an enable do.
LoopEnds ==
  (instance = "ending" /\ ~loop_flag)
    ~> (manager_pc["RunLoop"] = "exited" \/ Ending!SleepsThrough)

\* OnlyTelemetryMixes and NeverReadsAsleep for datasets one after the other, with the
\* telemetry thread beside them.
SamplesAreSound ==
  instance = "serial" => Serial!OnlyTelemetryMixes /\ Serial!NeverReadsAsleep

\* IdleIsLowPower, also with faults.
IdleIsLowPower == Faulty!IdleIsLowPower
=============================================================================
