----------------------------- MODULE DevicesProofs -----------------------------
(***************************************************************************)
(* The theorems about Camera, CameraManager and Imu, applied to the        *)
(* instances of MCDevices.                                                 *)
(***************************************************************************)
EXTENDS MCDevices, TLAPS

\* Turns, Single and Serial; Overlap, Dataset and Faulty; Joins and Ending.
TP == INSTANCE CameraImuProofs
  WITH pc <- camera_pc, Callers <- Calls, Op <- TwoEnables, InTurn <- TRUE,
       Settled <- TRUE, MaxGrabs <- 3, MaxTaken <- 3,
       Cams <- 1..3, Enabled <- 1..2, Want <- {1}, Target <- 2,
       Mode <- "PERIODIC", Broken <- {2}, Erring <- {},
       Workers <- {"capture", "capture_too", "display", "stop_display"},
       Kind <- KindOf({"capture", "capture_too", "display", "stop_display"}),
       CommandsInTurn <- FALSE,
       Datasets <- {d, e}, Wanted <- d :> "GYRO_MAG_TEMP" @@ e :> "GYRO_TEMP",
       DatasetsInTurn <- TRUE, Faults <- FALSE, Telemetry <- TRUE, MaxSamples <- 1

OP == INSTANCE CameraImuProofs
  WITH pc <- camera_pc, Callers <- Calls, Op <- TwoEnables, InTurn <- FALSE,
       Settled <- FALSE, MaxGrabs <- 2, MaxTaken <- 2,
       Cams <- 1..2, Enabled <- {1}, Want <- {1}, Target <- 1,
       Mode <- "PERIODIC_ROI", Broken <- {1}, Erring <- {},
       Workers <- {"dataset", "dataset_too", "capture"},
       Kind <- KindOf({"dataset", "dataset_too", "capture"}),
       CommandsInTurn <- FALSE,
       Datasets <- {d, e}, Wanted <- d :> "GYRO_MAG_TEMP" @@ e :> "NONE",
       DatasetsInTurn <- TRUE, Faults <- TRUE, Telemetry <- FALSE, MaxSamples <- 1

JP == INSTANCE CameraImuProofs
  WITH pc <- camera_pc, Callers <- Calls, Op <- TwoDisables, InTurn <- FALSE,
       Settled <- FALSE, MaxGrabs <- 1, MaxTaken <- 0,
       Cams <- 1..3, Enabled <- 1..2, Want <- {1}, Target <- 2,
       Mode <- "PERIODIC", Broken <- {1}, Erring <- {1},
       Workers <- {"capture", "stop", "enable"},
       Kind <- KindOf({"capture", "stop", "enable"}),
       CommandsInTurn <- FALSE,
       Datasets <- {d, e}, Wanted <- d :> "GYRO_MAG_TEMP" @@ e :> "NONE",
       DatasetsInTurn <- TRUE, Faults <- TRUE, Telemetry <- FALSE, MaxSamples <- 1

-----------------------------------------------------------------------------
(* The modules of the proofs mean the same steps as the instances          *)

LEMMA TurnsNext == Turns!Next <=> TP!Next
  BY DEF
     Turns!Next, Turns!Call, Turns!EnableAlready, Turns!EnableOpens, Turns!WarmUp,
     Turns!Spawn, Turns!EnableFails, Turns!DisableStops, Turns!DisableJoins,
     Turns!DisableInactive, Turns!DisableActive, Turns!DisableJoinsAgain,
     Turns!DisableReleases, Turns!Stop, Turns!Join, Turns!Goto, Turns!InCall,
     Turns!MayCall, Turns!thread, Turns!taking, Turns!RunCaptureLoop, Turns!LoopStarts,
     Turns!LoopTests, Turns!GrabFails, Turns!GrabImage, Turns!GrabStamp, Turns!GrabFlag,
     Turns!At,
     Turns!Take, Turns!TakeStarts, Turns!TakeImage, Turns!TakeStamp, Turns!TakeEnds,
     Turns!Reads, TP!Next, TP!Call, TP!EnableAlready, TP!EnableOpens, TP!WarmUp,
     TP!Spawn, TP!EnableFails, TP!DisableStops, TP!DisableJoins, TP!DisableInactive,
     TP!DisableActive, TP!DisableJoinsAgain, TP!DisableReleases, TP!Stop, TP!Join,
     TP!Goto, TP!InCall, TP!MayCall, TP!thread, TP!taking, TP!RunCaptureLoop,
     TP!LoopStarts, TP!LoopTests, TP!GrabFails, TP!GrabImage, TP!GrabStamp, TP!GrabFlag, TP!At,
     TP!Take, TP!TakeStarts, TP!TakeImage, TP!TakeStamp, TP!TakeEnds, TP!Reads

LEMMA OverlapNext == Overlap!Next <=> OP!Next
  BY DEF
     Overlap!Next, Overlap!Call, Overlap!EnableAlready, Overlap!EnableOpens,
     Overlap!WarmUp, Overlap!Spawn, Overlap!EnableFails, Overlap!DisableStops,
     Overlap!DisableJoins, Overlap!DisableInactive, Overlap!DisableActive,
     Overlap!DisableJoinsAgain, Overlap!DisableReleases, Overlap!Stop, Overlap!Join,
     Overlap!Goto, Overlap!InCall, Overlap!MayCall, Overlap!thread, Overlap!taking,
     Overlap!RunCaptureLoop, Overlap!LoopStarts, Overlap!LoopTests, Overlap!GrabFails,
     Overlap!GrabImage, Overlap!GrabStamp, Overlap!GrabFlag, Overlap!At, Overlap!Take,
     Overlap!TakeStarts,
     Overlap!TakeImage, Overlap!TakeStamp, Overlap!TakeEnds, Overlap!Reads, OP!Next,
     OP!Call, OP!EnableAlready, OP!EnableOpens, OP!WarmUp, OP!Spawn, OP!EnableFails,
     OP!DisableStops, OP!DisableJoins, OP!DisableInactive, OP!DisableActive,
     OP!DisableJoinsAgain, OP!DisableReleases, OP!Stop, OP!Join, OP!Goto, OP!InCall,
     OP!MayCall, OP!thread, OP!taking, OP!RunCaptureLoop, OP!LoopStarts, OP!LoopTests,
     OP!GrabFails, OP!GrabImage, OP!GrabStamp, OP!GrabFlag, OP!At, OP!Take, OP!TakeStarts,
     OP!TakeImage, OP!TakeStamp, OP!TakeEnds, OP!Reads

LEMMA JoinsNext == Joins!Next <=> JP!Next
  BY DEF
     Joins!Next, Joins!Call, Joins!EnableAlready, Joins!EnableOpens, Joins!WarmUp,
     Joins!Spawn, Joins!EnableFails, Joins!DisableStops, Joins!DisableJoins,
     Joins!DisableInactive, Joins!DisableActive, Joins!DisableJoinsAgain,
     Joins!DisableReleases, Joins!Stop, Joins!Join, Joins!Goto, Joins!InCall,
     Joins!MayCall, Joins!thread, Joins!taking, Joins!RunCaptureLoop, Joins!LoopStarts,
     Joins!LoopTests, Joins!GrabFails, Joins!GrabImage, Joins!GrabStamp, Joins!GrabFlag,
     Joins!At,
     Joins!Take, Joins!TakeStarts, Joins!TakeImage, Joins!TakeStamp, Joins!TakeEnds,
     Joins!Reads, JP!Next, JP!Call, JP!EnableAlready, JP!EnableOpens, JP!WarmUp,
     JP!Spawn, JP!EnableFails, JP!DisableStops, JP!DisableJoins, JP!DisableInactive,
     JP!DisableActive, JP!DisableJoinsAgain, JP!DisableReleases, JP!Stop, JP!Join,
     JP!Goto, JP!InCall, JP!MayCall, JP!thread, JP!taking, JP!RunCaptureLoop,
     JP!LoopStarts, JP!LoopTests, JP!GrabFails, JP!GrabImage, JP!GrabStamp, JP!GrabFlag, JP!At,
     JP!Take, JP!TakeStarts, JP!TakeImage, JP!TakeStamp, JP!TakeEnds, JP!Reads

LEMMA SingleNext == Single!Next <=> TP!M!Next
  BY DEF
     Single!Next, Single!Command, Single!Enable, Single!Disable, Single!Capture,
     Single!CaptureRefused, Single!CaptureSet, Single!Display, Single!DisplayEnds,
     Single!StopDisplay, Single!StopLoops, Single!StopNotifies, Single!StopDisables,
     Single!DatasetResets, Single!DatasetMasks, Single!DatasetRefused,
     Single!DatasetConfigures, Single!DatasetSetsMode, Single!DatasetStops,
     Single!DatasetUndoes, Single!DatasetClears, Single!DatasetEnables,
     Single!PrepareCounts, Single!PrepareChecks, Single!PrepareFails, Single!EnableOne,
     Single!DisableOne, Single!RunLoop, Single!LoopTests, Single!LoopPredicate,
     Single!LoopBlocks, Single!LoopSkips, Single!LoopSaves, Single!LoopInfers,
     Single!LoopAutoDisables, Single!LoopCounts, Single!LoopIdles, Single!LoopDefaults,
     Single!LoopHealthy, Single!LoopRestarts, Single!Saved, Single!Goto, Single!Notify,
     Single!Call, Single!CallEnable, Single!CallDisable, Single!First, Single!Step,
     Single!Starts, Single!Ended, Single!OtherAtWork, Single!Busy, Single!Default,
     Single!modes, Single!flags,
     Single!locals, Single!subs, Single!runs, Single!loop, Single!Cardinality,
     TP!M!Next, TP!M!Command, TP!M!Enable, TP!M!Disable, TP!M!Capture,
     TP!M!CaptureRefused, TP!M!CaptureSet, TP!M!Display, TP!M!DisplayEnds,
     TP!M!StopDisplay, TP!M!StopLoops, TP!M!StopNotifies, TP!M!StopDisables,
     TP!M!DatasetResets, TP!M!DatasetMasks, TP!M!DatasetRefused, TP!M!DatasetConfigures,
     TP!M!DatasetSetsMode, TP!M!DatasetStops, TP!M!DatasetUndoes, TP!M!DatasetClears,
     TP!M!DatasetEnables, TP!M!PrepareCounts, TP!M!PrepareChecks, TP!M!PrepareFails,
     TP!M!EnableOne, TP!M!DisableOne, TP!M!RunLoop, TP!M!LoopTests, TP!M!LoopPredicate,
     TP!M!LoopBlocks, TP!M!LoopSkips, TP!M!LoopSaves, TP!M!LoopInfers,
     TP!M!LoopAutoDisables, TP!M!LoopCounts, TP!M!LoopIdles, TP!M!LoopDefaults,
     TP!M!LoopHealthy, TP!M!LoopRestarts, TP!M!Saved, TP!M!Goto, TP!M!Notify, TP!M!Call,
     TP!M!CallEnable, TP!M!CallDisable, TP!M!First, TP!M!Step, TP!M!Starts, TP!M!Ended,
     TP!M!OtherAtWork, TP!M!Busy,
     TP!M!Default, TP!M!modes, TP!M!flags, TP!M!locals, TP!M!subs, TP!M!runs, TP!M!loop,
     TP!M!Cardinality

LEMMA DatasetNext == Dataset!Next <=> OP!M!Next
  BY DEF
     Dataset!Next, Dataset!Command, Dataset!Enable, Dataset!Disable, Dataset!Capture,
     Dataset!CaptureRefused, Dataset!CaptureSet, Dataset!Display, Dataset!DisplayEnds,
     Dataset!StopDisplay, Dataset!StopLoops, Dataset!StopNotifies, Dataset!StopDisables,
     Dataset!DatasetResets, Dataset!DatasetMasks, Dataset!DatasetRefused,
     Dataset!DatasetConfigures, Dataset!DatasetSetsMode, Dataset!DatasetStops,
     Dataset!DatasetUndoes, Dataset!DatasetClears, Dataset!DatasetEnables,
     Dataset!PrepareCounts, Dataset!PrepareChecks, Dataset!PrepareFails,
     Dataset!EnableOne, Dataset!DisableOne, Dataset!RunLoop, Dataset!LoopTests,
     Dataset!LoopPredicate, Dataset!LoopBlocks, Dataset!LoopSkips, Dataset!LoopSaves,
     Dataset!LoopInfers, Dataset!LoopAutoDisables, Dataset!LoopCounts,
     Dataset!LoopIdles, Dataset!LoopDefaults, Dataset!LoopHealthy, Dataset!LoopRestarts,
     Dataset!Saved, Dataset!Goto, Dataset!Notify, Dataset!Call, Dataset!CallEnable,
     Dataset!CallDisable, Dataset!First, Dataset!Step, Dataset!Starts, Dataset!Ended,
     Dataset!OtherAtWork, Dataset!Busy,
     Dataset!Default, Dataset!modes, Dataset!flags, Dataset!locals, Dataset!subs,
     Dataset!runs, Dataset!loop, Dataset!Cardinality, OP!M!Next, OP!M!Command,
     OP!M!Enable, OP!M!Disable, OP!M!Capture, OP!M!CaptureRefused, OP!M!CaptureSet,
     OP!M!Display, OP!M!DisplayEnds, OP!M!StopDisplay, OP!M!StopLoops,
     OP!M!StopNotifies, OP!M!StopDisables, OP!M!DatasetResets, OP!M!DatasetMasks,
     OP!M!DatasetRefused, OP!M!DatasetConfigures, OP!M!DatasetSetsMode,
     OP!M!DatasetStops, OP!M!DatasetUndoes, OP!M!DatasetClears, OP!M!DatasetEnables,
     OP!M!PrepareCounts, OP!M!PrepareChecks, OP!M!PrepareFails, OP!M!EnableOne,
     OP!M!DisableOne, OP!M!RunLoop, OP!M!LoopTests, OP!M!LoopPredicate, OP!M!LoopBlocks,
     OP!M!LoopSkips, OP!M!LoopSaves, OP!M!LoopInfers, OP!M!LoopAutoDisables,
     OP!M!LoopCounts, OP!M!LoopIdles, OP!M!LoopDefaults, OP!M!LoopHealthy,
     OP!M!LoopRestarts, OP!M!Saved, OP!M!Goto, OP!M!Notify, OP!M!Call, OP!M!CallEnable,
     OP!M!CallDisable, OP!M!First, OP!M!Step, OP!M!Starts, OP!M!Ended, OP!M!OtherAtWork,
     OP!M!Busy, OP!M!Default,
     OP!M!modes, OP!M!flags, OP!M!locals, OP!M!subs, OP!M!runs, OP!M!loop,
     OP!M!Cardinality

LEMMA EndingNext == Ending!Next <=> JP!M!Next
  BY DEF
     Ending!Next, Ending!Command, Ending!Enable, Ending!Disable, Ending!Capture,
     Ending!CaptureRefused, Ending!CaptureSet, Ending!Display, Ending!DisplayEnds,
     Ending!StopDisplay, Ending!StopLoops, Ending!StopNotifies, Ending!StopDisables,
     Ending!DatasetResets, Ending!DatasetMasks, Ending!DatasetRefused,
     Ending!DatasetConfigures, Ending!DatasetSetsMode, Ending!DatasetStops,
     Ending!DatasetUndoes, Ending!DatasetClears, Ending!DatasetEnables,
     Ending!PrepareCounts, Ending!PrepareChecks, Ending!PrepareFails, Ending!EnableOne,
     Ending!DisableOne, Ending!RunLoop, Ending!LoopTests, Ending!LoopPredicate,
     Ending!LoopBlocks, Ending!LoopSkips, Ending!LoopSaves, Ending!LoopInfers,
     Ending!LoopAutoDisables, Ending!LoopCounts, Ending!LoopIdles, Ending!LoopDefaults,
     Ending!LoopHealthy, Ending!LoopRestarts, Ending!Saved, Ending!Goto, Ending!Notify,
     Ending!Call, Ending!CallEnable, Ending!CallDisable, Ending!First, Ending!Step,
     Ending!Starts, Ending!Ended, Ending!OtherAtWork, Ending!Busy, Ending!Default,
     Ending!modes, Ending!flags,
     Ending!locals, Ending!subs, Ending!runs, Ending!loop, Ending!Cardinality,
     JP!M!Next, JP!M!Command, JP!M!Enable, JP!M!Disable, JP!M!Capture,
     JP!M!CaptureRefused, JP!M!CaptureSet, JP!M!Display, JP!M!DisplayEnds,
     JP!M!StopDisplay, JP!M!StopLoops, JP!M!StopNotifies, JP!M!StopDisables,
     JP!M!DatasetResets, JP!M!DatasetMasks, JP!M!DatasetRefused, JP!M!DatasetConfigures,
     JP!M!DatasetSetsMode, JP!M!DatasetStops, JP!M!DatasetUndoes, JP!M!DatasetClears,
     JP!M!DatasetEnables, JP!M!PrepareCounts, JP!M!PrepareChecks, JP!M!PrepareFails,
     JP!M!EnableOne, JP!M!DisableOne, JP!M!RunLoop, JP!M!LoopTests, JP!M!LoopPredicate,
     JP!M!LoopBlocks, JP!M!LoopSkips, JP!M!LoopSaves, JP!M!LoopInfers,
     JP!M!LoopAutoDisables, JP!M!LoopCounts, JP!M!LoopIdles, JP!M!LoopDefaults,
     JP!M!LoopHealthy, JP!M!LoopRestarts, JP!M!Saved, JP!M!Goto, JP!M!Notify, JP!M!Call,
     JP!M!CallEnable, JP!M!CallDisable, JP!M!First, JP!M!Step, JP!M!Starts, JP!M!Ended,
     JP!M!OtherAtWork, JP!M!Busy,
     JP!M!Default, JP!M!modes, JP!M!flags, JP!M!locals, JP!M!subs, JP!M!runs, JP!M!loop,
     JP!M!Cardinality

LEMMA SerialNext == Serial!Next <=> TP!I!Next
  BY DEF Serial!Next, Serial!Control, Serial!Configure, Serial!StartRefused, Serial!StartGyro,
     Serial!StartMag, Serial!StartConfigures, Serial!StartOpens, Serial!StartFails,
     Serial!StartCollects, Serial!Back, Serial!SuspendSkips, Serial!SuspendBegins,
     Serial!SuspendLocks, Serial!SuspendGyro, Serial!SuspendMag, Serial!SuspendCloses,
     Serial!SuspendDrains, Serial!Suspend, Serial!LoopSeesCollect, Serial!LoopLocks,
     Serial!NextRead, Serial!Off, Serial!LoopAsks, Serial!LoopReads, Serial!LoopUnlocks,
     Serial!LoopLogs, Serial!LoopSeesError, Serial!LoopReadsError, Serial!Temperature,
     Serial!RunLoop, Serial!Goto, Serial!Ok, Serial!ReadAddresses, Serial!ReadData,
     Serial!Write, Serial!Power, Serial!Threads, Serial!Sensors, Serial!config, Serial!bus,
     Serial!powers,
     Serial!sampling, Serial!loop, Serial!tlm, TP!I!Next, TP!I!Control, TP!I!Configure,
     TP!I!StartRefused, TP!I!StartGyro, TP!I!StartMag, TP!I!StartConfigures, TP!I!StartOpens,
     TP!I!StartFails, TP!I!StartCollects, TP!I!Back, TP!I!SuspendSkips, TP!I!SuspendBegins,
     TP!I!SuspendLocks, TP!I!SuspendGyro, TP!I!SuspendMag, TP!I!SuspendCloses,
     TP!I!SuspendDrains, TP!I!Suspend, TP!I!LoopSeesCollect, TP!I!LoopLocks, TP!I!NextRead,
     TP!I!Off, TP!I!LoopAsks, TP!I!LoopReads, TP!I!LoopUnlocks, TP!I!LoopLogs,
     TP!I!LoopSeesError, TP!I!LoopReadsError, TP!I!Temperature, TP!I!RunLoop, TP!I!Goto,
     TP!I!Ok, TP!I!ReadAddresses, TP!I!ReadData, TP!I!Write, TP!I!Power, TP!I!Threads,
     TP!I!Sensors, TP!I!config, TP!I!bus, TP!I!powers, TP!I!sampling, TP!I!loop, TP!I!tlm

LEMMA FaultyNext == Faulty!Next <=> OP!I!Next
  BY DEF Faulty!Next, Faulty!Control, Faulty!Configure, Faulty!StartRefused, Faulty!StartGyro,
     Faulty!StartMag, Faulty!StartConfigures, Faulty!StartOpens, Faulty!StartFails,
     Faulty!StartCollects, Faulty!Back, Faulty!SuspendSkips, Faulty!SuspendBegins,
     Faulty!SuspendLocks, Faulty!SuspendGyro, Faulty!SuspendMag, Faulty!SuspendCloses,
     Faulty!SuspendDrains, Faulty!Suspend, Faulty!LoopSeesCollect, Faulty!LoopLocks,
     Faulty!NextRead, Faulty!Off, Faulty!LoopAsks, Faulty!LoopReads, Faulty!LoopUnlocks,
     Faulty!LoopLogs, Faulty!LoopSeesError, Faulty!LoopReadsError, Faulty!Temperature,
     Faulty!RunLoop, Faulty!Goto, Faulty!Ok, Faulty!ReadAddresses, Faulty!ReadData,
     Faulty!Write, Faulty!Power, Faulty!Threads, Faulty!Sensors, Faulty!config, Faulty!bus,
     Faulty!powers,
     Faulty!sampling, Faulty!loop, Faulty!tlm, OP!I!Next, OP!I!Control, OP!I!Configure,
     OP!I!StartRefused, OP!I!StartGyro, OP!I!StartMag, OP!I!StartConfigures, OP!I!StartOpens,
     OP!I!StartFails, OP!I!StartCollects, OP!I!Back, OP!I!SuspendSkips, OP!I!SuspendBegins,
     OP!I!SuspendLocks, OP!I!SuspendGyro, OP!I!SuspendMag, OP!I!SuspendCloses,
     OP!I!SuspendDrains, OP!I!Suspend, OP!I!LoopSeesCollect, OP!I!LoopLocks, OP!I!NextRead,
     OP!I!Off, OP!I!LoopAsks, OP!I!LoopReads, OP!I!LoopUnlocks, OP!I!LoopLogs,
     OP!I!LoopSeesError, OP!I!LoopReadsError, OP!I!Temperature, OP!I!RunLoop, OP!I!Goto,
     OP!I!Ok, OP!I!ReadAddresses, OP!I!ReadData, OP!I!Write, OP!I!Power, OP!I!Threads,
     OP!I!Sensors, OP!I!config, OP!I!bus, OP!I!powers, OP!I!sampling, OP!I!loop, OP!I!tlm

-----------------------------------------------------------------------------
(* Camera *)

CameraInv ==
  /\ instance = "turns" => TP!TypeOK /\ TP!Once /\ TP!Orderly
  /\ instance = "overlap" => OP!TypeOK /\ OP!Once
  /\ instance = "joins" => JP!TypeOK /\ JP!Once
  /\ instance \notin {"turns", "overlap", "joins"} => Turns!Init

LEMMA CameraAssumed == TP!CameraAssumption /\ OP!CameraAssumption /\ JP!CameraAssumption
  BY CameraInstances DEF Turns!CameraAssumption, Overlap!CameraAssumption,
     Joins!CameraAssumption, TP!CameraAssumption, OP!CameraAssumption, JP!CameraAssumption

LEMMA CameraInits == Turns!Init => TP!Init /\ OP!Init /\ JP!Init
  BY DEF Turns!Init, Turns!NoCopy, TP!Init, TP!NoCopy, OP!Init, OP!NoCopy, JP!Init, JP!NoCopy

LEMMA CameraBegins == Init => CameraInv
<1> SUFFICES ASSUME Init PROVE CameraInv
  OBVIOUS
<1>1. Turns!Init
  BY DEF Init, InitOf
<1>2. TP!TypeOK /\ OP!TypeOK /\ JP!TypeOK
  BY <1>1, CameraInits, CameraAssumed, TP!TypeInit, OP!TypeInit, JP!TypeInit
<1>3. TP!Once /\ TP!Orderly /\ OP!Once /\ JP!Once
  BY <1>1, CameraInits, TP!OnceInit, OP!OnceInit, JP!OnceInit, TP!OrderlyInit
<1> QED BY <1>1, <1>2, <1>3 DEF CameraInv

LEMMA CameraKept == UNCHANGED camera =>
                      UNCHANGED TP!vars /\ UNCHANGED OP!vars /\ UNCHANGED JP!vars
  BY DEF camera, TP!vars, TP!thread, TP!taking, OP!vars, OP!thread, OP!taking, JP!vars,
     JP!thread, JP!taking

LEMMA CameraSteps ==
  ASSUME [Next]_all
  PROVE /\ instance' = instance
        /\ instance = "turns" => [TP!Next]_(TP!vars)
        /\ instance = "overlap" => [OP!Next]_(OP!vars)
        /\ instance = "joins" => [JP!Next]_(JP!vars)
        /\ instance \notin {"turns", "overlap", "joins"} => UNCHANGED camera
<1>1. CASE Next
  BY <1>1, TurnsNext, OverlapNext, JoinsNext DEF Next
<1>2. CASE UNCHANGED all
  BY <1>2, CameraKept DEF all
<1> QED BY <1>1, <1>2

LEMMA CameraHolds == CameraInv /\ [Next]_all => CameraInv'
<1> SUFFICES ASSUME CameraInv, [Next]_all PROVE CameraInv'
  OBVIOUS
<1>1. instance = "turns" => (TP!TypeOK /\ TP!Once /\ TP!Orderly)'
  BY CameraSteps, CameraAssumed, TP!TypeNext, TP!OnceNext, TP!OrderlyNext DEF CameraInv
<1>2. instance = "overlap" => (OP!TypeOK /\ OP!Once)'
  BY CameraSteps, CameraAssumed, OP!TypeNext, OP!OnceNext DEF CameraInv
<1>3. instance = "joins" => (JP!TypeOK /\ JP!Once)'
  BY CameraSteps, CameraAssumed, JP!TypeNext, JP!OnceNext DEF CameraInv
<1>4. instance \notin {"turns", "overlap", "joins"} => Turns!Init'
  BY CameraSteps DEF CameraInv, camera, Turns!Init, Turns!NoCopy
<1>5. instance' = instance
  BY CameraSteps
<1> QED BY <1>1, <1>2, <1>3, <1>4, <1>5 DEF CameraInv

\* Frames are taken in their order and none three times, in turns and however the calls
\* of Enable and Disable overlap (Camera::CopyBufferFrame, SetOffNewFrameFlag).
THEOREM FramesAdvanceHolds == Spec => []FramesAdvance
<1>1. CameraInv => FramesAdvance
  <2>1. TP!Once \/ OP!Once \/ JP!Once => FramesAdvance
    BY DEF TP!Once, OP!Once, JP!Once, TP!FramesAdvance, OP!FramesAdvance, JP!FramesAdvance,
       FramesAdvance, Turns!FramesAdvance
  <2>2. Turns!Init => TP!Once
    BY CameraInits, TP!OnceInit
  <2> QED BY <2>1, <2>2 DEF CameraInv
<1> QED BY <1>1, CameraBegins, CameraHolds, PTL DEF Spec

\* Calls of Enable and Disable that follow one another leave the camera off, or
\* powered with a thread that fills its buffer.
THEOREM PowerIsWholeHolds == Spec => []PowerIsWhole
<1>1. CameraInv => PowerIsWhole
  <2>1. TP!PowerIsWhole <=> Turns!PowerIsWhole
    BY DEF TP!PowerIsWhole, Turns!PowerIsWhole, TP!InCall, Turns!InCall
  <2> QED BY <2>1, TP!OrderlyPower DEF CameraInv, PowerIsWhole
<1> QED BY <1>1, CameraBegins, CameraHolds, PTL DEF Spec

-----------------------------------------------------------------------------
(* CameraManager *)

ManagerInv ==
  /\ instance = "single" => TP!Control /\ TP!Data /\ TP!Histories
  /\ instance = "dataset" => OP!Control /\ OP!Data /\ OP!Histories /\ OP!Kept
  /\ instance = "ending" => JP!Control /\ JP!Data /\ JP!Histories
  /\ instance \notin {"single", "dataset", "ending"} => Single!Init

LEMMA ManagerAssumed ==
  TP!M!ManagerAssumption /\ OP!M!ManagerAssumption /\ JP!M!ManagerAssumption
  BY ManagerInstances DEF Single!ManagerAssumption, Dataset!ManagerAssumption,
     Ending!ManagerAssumption, TP!M!ManagerAssumption, OP!M!ManagerAssumption,
     JP!M!ManagerAssumption, Single!loop, Dataset!loop, Ending!loop, TP!M!loop, OP!M!loop,
     JP!M!loop, Single!Kinds, Dataset!Kinds, Ending!Kinds, TP!M!Kinds, OP!M!Kinds, JP!M!Kinds,
     Single!Periodic, Dataset!Periodic, Ending!Periodic, TP!M!Periodic, OP!M!Periodic,
     JP!M!Periodic, Single!IsFiniteSet, Dataset!IsFiniteSet, Ending!IsFiniteSet,
     TP!M!IsFiniteSet, OP!M!IsFiniteSet, JP!M!IsFiniteSet

LEMMA ManagerInits ==
  /\ Single!Init <=> TP!M!Init
  /\ Dataset!Init <=> OP!M!Init
  /\ Ending!Init <=> JP!M!Init
  BY DEF Single!Init, Single!Default, Single!Threads, Single!loop, TP!M!Init, TP!M!Default,
     TP!M!Threads, TP!M!loop, Dataset!Init, Dataset!Default, Dataset!Threads, Dataset!loop,
     OP!M!Init, OP!M!Default, OP!M!Threads, OP!M!loop, Ending!Init, Ending!Default,
     Ending!Threads, Ending!loop, JP!M!Init, JP!M!Default, JP!M!Threads, JP!M!loop

LEMMA ManagerBegins == Init => ManagerInv
<1> SUFFICES ASSUME Init PROVE ManagerInv
  OBVIOUS
<1>h. late = FALSE /\ lost = FALSE
  BY DEF Init, InitOf, Single!Init, Dataset!Init, Ending!Init
<1>g. TP!Histories /\ OP!Histories /\ JP!Histories
  BY <1>h DEF TP!Histories, OP!Histories, JP!Histories
<1>1. CASE instance = "dataset"
  <2>1. OP!M!Init
    BY <1>1, ManagerInits DEF Init, InitOf
  <2> QED BY <1>1, <1>g, <2>1, ManagerAssumed, OP!ManagerInit, OP!KeptInit DEF ManagerInv
<1>2. CASE instance = "ending"
  <2>1. JP!M!Init
    BY <1>2, ManagerInits DEF Init, InitOf
  <2> QED BY <1>2, <1>g, <2>1, ManagerAssumed, JP!ManagerInit DEF ManagerInv
<1>3. CASE instance \notin {"dataset", "ending"}
  <2>1. Single!Init
    BY <1>3 DEF Init, InitOf
  <2> QED BY <1>3, <1>g, <2>1, ManagerInits, ManagerAssumed, TP!ManagerInit DEF ManagerInv
<1> QED BY <1>1, <1>2, <1>3

LEMMA ManagerKept == UNCHANGED manager =>
                       UNCHANGED TP!M!vars /\ UNCHANGED OP!M!vars /\ UNCHANGED JP!M!vars
  BY DEF manager, TP!M!vars, TP!M!modes, TP!M!flags, TP!M!locals, TP!M!subs, TP!M!runs,
     OP!M!vars, OP!M!modes, OP!M!flags, OP!M!locals, OP!M!subs, OP!M!runs,
     JP!M!vars, JP!M!modes, JP!M!flags, JP!M!locals, JP!M!subs, JP!M!runs

LEMMA ManagerSteps ==
  ASSUME [Next]_all
  PROVE /\ instance' = instance
        /\ instance = "single" => [TP!M!Next]_(TP!M!vars)
        /\ instance = "dataset" => [OP!M!Next]_(OP!M!vars)
        /\ instance = "ending" => [JP!M!Next]_(JP!M!vars)
        /\ instance \notin {"single", "dataset", "ending"} => UNCHANGED manager
<1>1. CASE Next
  BY <1>1, SingleNext, DatasetNext, EndingNext DEF Next
<1>2. CASE UNCHANGED all
  BY <1>2, ManagerKept DEF all
<1> QED BY <1>1, <1>2

LEMMA ManagerHolds == ManagerInv /\ [Next]_all => ManagerInv'
<1> SUFFICES ASSUME ManagerInv, [Next]_all PROVE ManagerInv'
  OBVIOUS
<1>1. instance = "single" => (TP!Control /\ TP!Data /\ TP!Histories)'
  BY ManagerSteps, ManagerAssumed, TP!ManagerTyped, TP!HistoriesNext DEF ManagerInv
<1>2. instance = "dataset" => (OP!Control /\ OP!Data /\ OP!Histories /\ OP!Kept)'
  BY ManagerSteps, ManagerAssumed, OP!ManagerTyped, OP!HistoriesNext, OP!KeptNext
     DEF ManagerInv
<1>3. instance = "ending" => (JP!Control /\ JP!Data /\ JP!Histories)'
  BY ManagerSteps, ManagerAssumed, JP!ManagerTyped, JP!HistoriesNext DEF ManagerInv
<1>4. instance \notin {"single", "dataset", "ending"} => Single!Init'
  BY ManagerSteps DEF ManagerInv, manager, Single!Init
<1>5. instance' = instance
  BY ManagerSteps
<1> QED BY <1>1, <1>2, <1>3, <1>4, <1>5 DEF ManagerInv

\* A dataset keeps its mode and its number until its frames have been captured, with
\* cameras that fail, unless another request was at work when it set them.
THEOREM SettingsAreKeptHolds == Spec => []SettingsAreKept
<1>1. ManagerInv => SettingsAreKept
  <2>1. OP!Kept => Dataset!SettingsAreKept
    BY DEF OP!Kept, OP!ModeIsKept, Dataset!SettingsAreKept
  <2> QED BY <2>1 DEF ManagerInv, SettingsAreKept
<1> QED BY <1>1, ManagerBegins, ManagerHolds, PTL DEF Spec

-----------------------------------------------------------------------------
(* Imu *)

ImuInv ==
  /\ instance = "serial" => TP!Typed /\ TP!Covered /\ TP!Sound
  /\ instance = "faulty" => OP!Typed /\ OP!Covered
  /\ instance \notin {"serial", "faulty"} => Serial!Init

LEMMA ImuAssumed == TP!Serial /\ OP!I!ImuAssumption
  BY ImuInstances DEF Serial!ImuAssumption, Faulty!ImuAssumption, TP!I!ImuAssumption,
     OP!I!ImuAssumption, TP!Serial, Serial!loop, Serial!tlm, Serial!Modes, Faulty!loop,
     Faulty!tlm, Faulty!Modes, TP!I!loop, TP!I!tlm, TP!I!Modes, OP!I!loop, OP!I!tlm,
     OP!I!Modes

LEMMA ImuInits == Serial!Init => TP!I!Init /\ OP!I!Init
  BY DEF Serial!Init, Serial!Threads, Serial!Sensors, Serial!loop, Serial!tlm, TP!I!Init,
     TP!I!Threads, TP!I!Sensors, TP!I!loop, TP!I!tlm, OP!I!Init, OP!I!Threads, OP!I!Sensors,
     OP!I!loop, OP!I!tlm

LEMMA ImuBegins == Init => ImuInv
<1> SUFFICES ASSUME Init PROVE ImuInv
  OBVIOUS
<1>1. Serial!Init
  BY DEF Init, InitOf
<1>2. TP!Typed /\ TP!Covered /\ TP!Sound
  BY <1>1, ImuInits, ImuAssumed, TP!TypedInit, TP!CoveredInit, TP!SoundInit DEF TP!Serial
<1>3. OP!Typed /\ OP!Covered
  BY <1>1, ImuInits, ImuAssumed, OP!TypedInit, OP!CoveredInit
<1> QED BY <1>1, <1>2, <1>3 DEF ImuInv

LEMMA ImuKept == UNCHANGED imu => UNCHANGED TP!I!vars /\ UNCHANGED OP!I!vars
  BY DEF imu, TP!I!vars, TP!I!config, TP!I!bus, TP!I!powers, TP!I!sampling, OP!I!vars, OP!I!config,
       OP!I!bus, OP!I!powers, OP!I!sampling

LEMMA ImuSteps ==
  ASSUME [Next]_all
  PROVE /\ instance' = instance
        /\ instance = "serial" => [TP!I!Next]_(TP!I!vars)
        /\ instance = "faulty" => [OP!I!Next]_(OP!I!vars)
        /\ instance \notin {"serial", "faulty"} => UNCHANGED imu
<1>1. CASE Next
  BY <1>1, SerialNext, FaultyNext DEF Next
<1>2. CASE UNCHANGED all
  BY <1>2, ImuKept DEF all
<1> QED BY <1>1, <1>2

LEMMA ImuHolds == ImuInv /\ [Next]_all => ImuInv'
<1> SUFFICES ASSUME ImuInv, [Next]_all PROVE ImuInv'
  OBVIOUS
<1>1. instance = "serial" => (TP!Typed /\ TP!Covered /\ TP!Sound)'
  BY ImuSteps, ImuAssumed, TP!TypedNext, TP!CoveredNext, TP!SoundNext DEF ImuInv, TP!Serial
<1>2. instance = "faulty" => (OP!Typed /\ OP!Covered)'
  BY ImuSteps, ImuAssumed, OP!TypedNext, OP!CoveredNext DEF ImuInv
<1>3. instance \notin {"serial", "faulty"} => Serial!Init'
  BY ImuSteps DEF ImuInv, imu, Serial!Init, Serial!Threads, Serial!Sensors
<1>4. instance' = instance
  BY ImuSteps
<1> QED BY <1>1, <1>2, <1>3, <1>4 DEF ImuInv

\* Datasets one after the other read their own registers or the temperature that the
\* telemetry thread asked for, of sensors that are on.
THEOREM SamplesAreSoundHolds == Spec => []SamplesAreSound
<1>1. ImuInv => SamplesAreSound
  BY DEF ImuInv, TP!Sound, TP!OwnAddress, TP!I!OnlyTelemetryMixes, SamplesAreSound,
     Serial!OnlyTelemetryMixes, Serial!NeverReadsAsleep, TP!I!tlm, Serial!tlm
<1> QED BY <1>1, ImuBegins, ImuHolds, PTL DEF Spec

\* IDLE with no call in progress means low power, but for a sensor that missed its last
\* mode, also after faults.
THEOREM IdleIsLowPowerHolds == Spec => []IdleIsLowPower
<1>1. ImuInv => IdleIsLowPower
  <2>1. TP!I!IdleIsLowPower \/ OP!I!IdleIsLowPower => Faulty!IdleIsLowPower
    BY DEF TP!I!IdleIsLowPower, TP!I!NoCall, TP!I!loop, TP!I!Sensors, OP!I!IdleIsLowPower,
       OP!I!NoCall, OP!I!loop, OP!I!Sensors, Faulty!IdleIsLowPower, Faulty!NoCall,
       Faulty!loop, Faulty!Sensors
  <2>2. Serial!Init => OP!Typed /\ OP!Covered
    BY ImuInits, ImuAssumed, OP!TypedInit, OP!CoveredInit
  <2> QED BY <2>1, <2>2, ImuAssumed, TP!CoveredIsLow, OP!CoveredIsLow
          DEF ImuInv, IdleIsLowPower, TP!Serial
<1> QED BY <1>1, ImuBegins, ImuHolds, PTL DEF Spec

-----------------------------------------------------------------------------
(* Types *)

LEMMA MoreFrames ==
  ASSUME NEW S, NEW T, S \subseteq T
  PROVE Seq(S) \subseteq Seq(T)
  OBVIOUS

\* Every variable of the three components keeps its type in every instance.
THEOREM TypeCorrect == Spec => []TypeOK
<1>1. CameraInv => Turns!TypeOK
  <2>1. TP!TypeOK => Turns!TypeOK
    BY DEF TP!TypeOK, Turns!TypeOK
  <2>2. OP!TypeOK => Turns!TypeOK
    <3>1. 0..2 \subseteq 0..3
      OBVIOUS
    <3>2. [img : 0..2, stamp : 0..2] \subseteq [img : 0..3, stamp : 0..3]
      BY <3>1
    <3>3. Seq([img : 0..2, stamp : 0..2]) \subseteq Seq([img : 0..3, stamp : 0..3])
      BY <3>2, MoreFrames
    <3> QED BY <3>1, <3>2, <3>3 DEF OP!TypeOK, Turns!TypeOK
  <2>3. JP!TypeOK => Turns!TypeOK
    <3>1. 0..1 \subseteq 0..3
      OBVIOUS
    <3>2. [img : 0..1, stamp : 0..1] \subseteq [img : 0..3, stamp : 0..3]
      BY <3>1
    <3>3. Seq([img : 0..1, stamp : 0..1]) \subseteq Seq([img : 0..3, stamp : 0..3])
      BY <3>2, MoreFrames
    <3> QED BY <3>1, <3>2, <3>3 DEF JP!TypeOK, Turns!TypeOK
  <2>4. Turns!Init => TP!TypeOK
    BY CameraInits, CameraAssumed, TP!TypeInit
  <2> QED BY <2>1, <2>2, <2>3, <2>4 DEF CameraInv
<1>2. ManagerInv => CASE instance = "dataset" -> Dataset!TypeOK
                      [] instance = "ending" -> Ending!TypeOK
                      [] OTHER -> Single!TypeOK
  <2>1. TP!M!TypeOK <=> Single!TypeOK
    BY DEF TP!M!TypeOK, Single!TypeOK, TP!M!Default, Single!Default, TP!M!Threads,
       Single!Threads, TP!M!loop, Single!loop, TP!M!Places, Single!Places, TP!M!Cardinality,
       Single!Cardinality
  <2>2. OP!M!TypeOK <=> Dataset!TypeOK
    BY DEF OP!M!TypeOK, Dataset!TypeOK, OP!M!Default, Dataset!Default, OP!M!Threads,
       Dataset!Threads, OP!M!loop, Dataset!loop, OP!M!Places, Dataset!Places,
       OP!M!Cardinality, Dataset!Cardinality
  <2>3. JP!M!TypeOK <=> Ending!TypeOK
    BY DEF JP!M!TypeOK, Ending!TypeOK, JP!M!Default, Ending!Default, JP!M!Threads,
       Ending!Threads, JP!M!loop, Ending!loop, JP!M!Places, Ending!Places,
       JP!M!Cardinality, Ending!Cardinality
  <2>4. /\ TP!Control /\ TP!Data /\ TP!Histories => TP!M!TypeOK
        /\ OP!Control /\ OP!Data /\ OP!Histories => OP!M!TypeOK
        /\ JP!Control /\ JP!Data /\ JP!Histories => JP!M!TypeOK
    BY TP!ManagerTypes, OP!ManagerTypes, JP!ManagerTypes DEF TP!Control, OP!Control,
         JP!Control
  <2>5. Single!Init => TP!Control /\ TP!Data /\ TP!Histories
    BY ManagerInits, ManagerAssumed, TP!ManagerInit DEF TP!Histories, Single!Init
  <2>6. CASE instance = "dataset"
    BY <2>6, <2>2, <2>4 DEF ManagerInv
  <2>7. CASE instance = "ending"
    BY <2>7, <2>3, <2>4 DEF ManagerInv
  <2>8. CASE instance \notin {"dataset", "ending"}
    BY <2>8, <2>1, <2>4, <2>5 DEF ManagerInv
  <2> QED BY <2>6, <2>7, <2>8
<1>3. ImuInv => IF instance = "serial" THEN Serial!TypeOK ELSE Faulty!TypeOK
  <2>1. TP!Typed => Serial!TypeOK
    BY DEF TP!Typed, TP!I!TypeOK, TP!I!Registers, Serial!TypeOK, Serial!Registers, TP!I!States, Serial!States, TP!I!Modes,
       Serial!Modes, TP!I!Threads, Serial!Threads, TP!I!Sensors, Serial!Sensors, TP!I!loop,
       Serial!loop, TP!I!tlm, Serial!tlm
  <2>2. OP!Typed => Faulty!TypeOK
    BY DEF OP!Typed, OP!I!TypeOK, OP!I!Registers, Faulty!TypeOK, Faulty!Registers, OP!I!States, Faulty!States, OP!I!Modes,
       Faulty!Modes, OP!I!Threads, Faulty!Threads, OP!I!Sensors, Faulty!Sensors, OP!I!loop,
       Faulty!loop, OP!I!tlm, Faulty!tlm
  <2>3. Serial!Init => OP!Typed
    BY ImuInits, ImuAssumed, OP!TypedInit
  <2> QED BY <2>1, <2>2, <2>3 DEF ImuInv
<1>4. CameraInv /\ ManagerInv /\ ImuInv => TypeOK
  BY <1>1, <1>2, <1>3 DEF TypeOK
<1> QED BY <1>4, CameraBegins, CameraHolds, ManagerBegins, ManagerHolds, ImuBegins, ImuHolds, PTL
        DEF Spec

=============================================================================
