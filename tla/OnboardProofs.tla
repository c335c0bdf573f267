----------------------------- MODULE OnboardProofs -----------------------------
(***************************************************************************)
(* Proofs about Telemetry, for any number of updates before a restart and  *)
(* a tegrastats processor that may die anywhere; and the theorems about    *)
(* Telemetry, FrameProcessing, OrbitDetermination and Downlink, applied to *)
(* the instances of MCOnboard.                                             *)
(***************************************************************************)
EXTENDS MCOnboard, TLAPS

-----------------------------------------------------------------------------
(* Types of Telemetry *)

LEMMA TypeInit == Init => TypeOK
<1> SUFFICES ASSUME Init PROVE TypeOK
  OBVIOUS
<1>1. counter \in 0..MAXIMUM_COUNT_WITHOUT_UPDATE - 1
  BY TelemetryAssumption DEF Init
<1>2. shared \in [head : Readings \cup {Zero}, tail : Readings \cup {Zero}, change_flag : 0..1]
  BY DEF Init
<1>3. tm_frame \in [head : Readings \cup {Zero}, tail : Readings \cup {Zero}, status : BOOLEAN]
  BY DEF Init
<1> QED BY <1>1, <1>2, <1>3 DEF Init, TypeOK

\* The types of what a step of the processor and of the thread may change.
LEMMA ProcessorType ==
  ASSUME TypeOK, TegrastatsProcessor \/ ProcessDies
  PROVE TypeOK'
<1>1. UNCHANGED <<reader, linked, tm_frame, counter>>
  BY DEF TegrastatsProcessor, ConfigureSharedMemory, InitializeSemaphore,
         ParseTegrastatsLine, ProcessLocks, ProcessCopiesHead, ProcessCopiesTail,
         ProcessPosts, ProcessDies, reading
<1>2. buffer' \in Readings \cup {Zero}
  BY DEF TypeOK, TegrastatsProcessor, ConfigureSharedMemory, InitializeSemaphore,
         ParseTegrastatsLine, ProcessLocks, ProcessCopiesHead, ProcessCopiesTail,
         ProcessPosts, ProcessDies
<1>3. shared' \in [head : Readings \cup {Zero}, tail : Readings \cup {Zero}, change_flag : 0..1]
  <2>1. CASE ProcessCopiesHead
    BY <2>1 DEF ProcessCopiesHead, TypeOK
  <2>2. CASE ProcessCopiesTail
    <3>1. shared' = [head |-> shared.head, tail |-> buffer, change_flag |-> 1]
      BY <2>2 DEF ProcessCopiesTail, TypeOK
    <3> QED BY <3>1 DEF TypeOK
  <2>3. CASE UNCHANGED shared
    BY <2>3 DEF TypeOK
  <2> QED
    BY <2>1, <2>2, <2>3
      DEF TegrastatsProcessor, ConfigureSharedMemory, InitializeSemaphore,
          ParseTegrastatsLine, ProcessLocks, ProcessPosts, ProcessDies
<1>4. /\ process' \in {"none", "start", "open_semaphore", "read_line", "wait",
                       "copy_head", "copy_tail", "post"}
      /\ sem' \in {"absent", "free", "held"}
  BY DEF TypeOK, TegrastatsProcessor, ConfigureSharedMemory, InitializeSemaphore,
         ParseTegrastatsLine, ProcessLocks, ProcessCopiesHead, ProcessCopiesTail,
         ProcessPosts, ProcessDies, Process
<1> QED BY <1>1, <1>2, <1>3, <1>4 DEF TypeOK

LEMMA ServiceType ==
  ASSUME TypeOK, RunService
  PROVE TypeOK'
<1> USE DEF RunService, CheckProcess, KillTegraTmProcess, StartProcess,
            LinkToTegraTmProcess, ReaderLocks, ReaderTimesOut, ReaderCrashes,
            ReaderFindsNothing, ReaderPosts
<1>1. buffer' \in {buffer, Zero}
  BY DEF writing, ReaderCopiesHead, ReaderCopiesTail, UpdateMissed
<1>2. shared' \in [head : Readings \cup {Zero}, tail : Readings \cup {Zero}, change_flag : 0..1]
  <2>1. CASE ReaderCopiesTail
    BY <2>1 DEF ReaderCopiesTail, TypeOK
  <2>2. CASE UNCHANGED shared
    BY <2>2 DEF TypeOK
  <2> QED BY <2>1, <2>2 DEF ReaderCopiesHead, UpdateMissed
<1>3. tm_frame' \in [head : Readings \cup {Zero}, tail : Readings \cup {Zero}, status : BOOLEAN]
  <2>1. CASE ReaderCopiesHead
    BY <2>1 DEF ReaderCopiesHead, TypeOK
  <2>2. CASE ReaderCopiesTail
    BY <2>2 DEF ReaderCopiesTail, TypeOK
  <2>3. CASE UpdateMissed
    BY <2>3 DEF UpdateMissed, TypeOK
  <2>4. CASE UNCHANGED tm_frame
    BY <2>4 DEF TypeOK
  <2> QED BY <2>1, <2>2, <2>3, <2>4
<1>4. counter' \in 0..MAXIMUM_COUNT_WITHOUT_UPDATE - 1
  <2>1. CASE UpdateMissed
    BY <2>1, TelemetryAssumption DEF UpdateMissed, TypeOK
  <2>2. CASE UNCHANGED counter
    BY <2>2 DEF TypeOK
  <2> QED BY <2>1, <2>2 DEF ReaderCopiesHead, ReaderCopiesTail
<1>5. linked' \in BOOLEAN
  <2>1. CASE LinkToTegraTmProcess
    BY <2>1
  <2>2. CASE UNCHANGED linked
    BY <2>2 DEF TypeOK
  <2> QED BY <2>1, <2>2 DEF ReaderCopiesHead, ReaderCopiesTail, UpdateMissed
<1>6. /\ process' \in {process, "none", "start"}
      /\ sem' \in {sem, "held", "free"}
      /\ reader' \in {"check_process", "kill", "start", "link", "wait", "test_flag",
                      "copy_tail", "post", "missed", "crashed"}
  BY DEF writing, Reader, ReaderCopiesHead, ReaderCopiesTail, UpdateMissed
<1> HIDE DEF RunService
<1> QED BY <1>1, <1>2, <1>3, <1>4, <1>5, <1>6 DEF TypeOK

LEMMA TypeNext == TypeOK /\ [Next]_vars => TypeOK'
<1>1. TypeOK /\ UNCHANGED vars => TypeOK'
  BY DEF TypeOK, vars, writing, reading
<1> QED BY <1>1, ProcessorType, ServiceType DEF Next

\* Every variable keeps its type, and the telemetry thread never counts further
\* than to the restart of the processor.
THEOREM TelemetryTypeCorrect == Spec => []TypeOK
  BY TypeInit, TypeNext, PTL DEF Spec

-----------------------------------------------------------------------------
(* The shared frame *)

Writes == process \in {"copy_head", "copy_tail", "post"}
Reads == reader \in {"test_flag", "copy_tail", "post"}

\* Who is in its critical section holds the semaphore, which a processor that
\* died there goes on holding.
Exclusion ==
  /\ Writes \/ Reads => sem = "held"
  /\ ~(Writes /\ Reads)

\* Only the semaphore of a writer, alive or not, covers a half written frame.
HalfWritten ==
  /\ shared.head # shared.tail => sem = "held" /\ ~Reads
  /\ process = "copy_tail" => shared.head = buffer
  /\ process = "post" => shared.head = shared.tail

\* The telemetry thread has copied as much as its place says.
HalfRead ==
  IF reader = "copy_tail" THEN tm_frame.head = shared.head
                          ELSE tm_frame.head = tm_frame.tail

Whole == Exclusion /\ HalfWritten /\ HalfRead

LEMMA WholeInit == Init => Whole
  BY DEF Init, Whole, Exclusion, HalfWritten, HalfRead, Writes, Reads

LEMMA WholeNext == TypeOK /\ Whole /\ [Next]_vars => Whole'
<1> SUFFICES ASSUME TypeOK, Whole, [Next]_vars PROVE Whole'
  OBVIOUS
<1> USE DEF Whole, Exclusion, HalfWritten, HalfRead, Writes, Reads
<1>1. CASE TegrastatsProcessor
  <2>1. CASE ConfigureSharedMemory \/ InitializeSemaphore \/ ParseTegrastatsLine
             \/ ProcessLocks \/ ProcessPosts
    BY <2>1 DEF ConfigureSharedMemory, InitializeSemaphore, ParseTegrastatsLine,
                ProcessLocks, ProcessPosts, Process, reading
  <2>2. CASE ProcessCopiesHead
    BY <2>2 DEF ProcessCopiesHead, Process, reading, TypeOK
  <2>3. CASE ProcessCopiesTail
    BY <2>3 DEF ProcessCopiesTail, Process, reading, TypeOK
  <2> QED BY <1>1, <2>1, <2>2, <2>3 DEF TegrastatsProcessor
<1>2. CASE ProcessDies
  BY <1>2 DEF ProcessDies, reading
<1>3. CASE RunService
  <2>1. CASE CheckProcess \/ KillTegraTmProcess \/ StartProcess \/ LinkToTegraTmProcess
    BY <2>1 DEF CheckProcess, KillTegraTmProcess, StartProcess, LinkToTegraTmProcess,
                Reader, writing
  <2>2. CASE ReaderLocks \/ ReaderTimesOut \/ ReaderCrashes \/ ReaderFindsNothing
             \/ ReaderPosts
    BY <2>2 DEF ReaderLocks, ReaderTimesOut, ReaderCrashes, ReaderFindsNothing,
                ReaderPosts, Reader, writing
  <2>3. CASE ReaderCopiesHead
    BY <2>3 DEF ReaderCopiesHead, Reader, writing, TypeOK
  <2>4. CASE ReaderCopiesTail
    BY <2>4 DEF ReaderCopiesTail, Reader, writing, TypeOK
  <2>5. CASE UpdateMissed
    BY <2>5 DEF UpdateMissed, Reader, writing, TypeOK
  <2> QED BY <1>3, <2>1, <2>2, <2>3, <2>4, <2>5 DEF RunService
<1>4. CASE UNCHANGED vars
  BY <1>4 DEF vars, writing, reading
<1> QED BY <1>1, <1>2, <1>3, <1>4 DEF Next

LEMMA WholeHolds == Spec => []Whole
  BY WholeInit, WholeNext, TelemetryTypeCorrect, PTL DEF Spec

\* Whatever the moment at which the processor is killed or dies, and however often
\* it is started again, no frame that is half written is taken over.
THEOREM TegraPartIsWholeHolds == Spec => []TegraPartIsWhole
<1>1. Whole => TegraPartIsWhole
  BY DEF Whole, HalfRead, TegraPartIsWhole
<1> QED BY <1>1, WholeHolds, PTL

\* A processor may also die, or the thread link to it, before it has opened its
\* semaphore.
LEMMA DelayedNext ==
  Delayed!Next => Next \/ Delayed!ProcessDies \/ Delayed!LinkToTegraTmProcess
  BY DEF
    Delayed!Next, Delayed!TegrastatsProcessor, Delayed!RunService,
    Delayed!ConfigureSharedMemory, Delayed!InitializeSemaphore,
    Delayed!ParseTegrastatsLine, Delayed!ProcessLocks, Delayed!ProcessCopiesHead,
    Delayed!ProcessCopiesTail, Delayed!ProcessPosts, Delayed!CheckProcess,
    Delayed!KillTegraTmProcess, Delayed!StartProcess, Delayed!ReaderLocks,
    Delayed!ReaderTimesOut, Delayed!ReaderCrashes, Delayed!ReaderFindsNothing,
    Delayed!ReaderCopiesHead, Delayed!ReaderCopiesTail, Delayed!ReaderPosts,
    Delayed!UpdateMissed, Delayed!Process, Delayed!Reader, Delayed!Readings, Delayed!Zero,
    Delayed!writing, Delayed!reading,
    Next, TegrastatsProcessor, RunService, ConfigureSharedMemory, InitializeSemaphore,
    ParseTegrastatsLine, ProcessLocks, ProcessCopiesHead, ProcessCopiesTail, ProcessPosts,
    CheckProcess, KillTegraTmProcess, StartProcess, ReaderLocks, ReaderTimesOut,
    ReaderCrashes, ReaderFindsNothing, ReaderCopiesHead, ReaderCopiesTail, ReaderPosts,
    UpdateMissed, Process, Reader, Readings, Zero, writing, reading

LEMMA DelayedHolds ==
  ASSUME TypeOK, Whole, Delayed!Next
  PROVE  TypeOK' /\ Whole'
<1>1. CASE Next
  BY <1>1, TypeNext, WholeNext
<1>2. CASE Delayed!ProcessDies
  <2>1. /\ process' = "none" /\ UNCHANGED <<buffer, sem, shared, reader, linked, tm_frame,
             counter>>
    BY <1>2 DEF Delayed!ProcessDies, Delayed!reading
  <2> QED
    BY <2>1 DEF TypeOK, Whole, Exclusion, HalfWritten, HalfRead, Writes, Reads
<1>3. CASE Delayed!LinkToTegraTmProcess
  <2>1. /\ reader = "link" /\ reader' = "wait"
        /\ linked' = (sem # "absent")
        /\ UNCHANGED <<process, buffer, sem, shared, tm_frame, counter>>
    BY <1>3 DEF Delayed!LinkToTegraTmProcess, Delayed!Reader, Delayed!writing
  <2>2. linked' \in BOOLEAN
    BY <2>1
  <2> QED
    BY <2>1, <2>2 DEF TypeOK, Whole, Exclusion, HalfWritten, HalfRead, Writes, Reads
<1> QED BY <1>1, <1>2, <1>3, DelayedNext

LEMMA TelemetryHolds == TypeOK /\ Whole /\ [MCNext]_all => TypeOK' /\ Whole'
<1> SUFFICES ASSUME TypeOK, Whole, [MCNext]_all PROVE TypeOK' /\ Whole'
  OBVIOUS
<1>1. CASE Next
  BY <1>1, TypeNext, WholeNext
<1>2. CASE Delayed!Next
  BY <1>2, DelayedHolds
<1>3. CASE UNCHANGED telemetry
  <2>1. UNCHANGED vars
    BY <1>3 DEF telemetry, vars, writing, reading
  <2> QED BY <2>1, TypeNext, WholeNext
<1> QED BY <1>1, <1>2, <1>3 DEF MCNext, all

\* The same in the instances of the run, of which one has a processor that is slow.
THEOREM TegraPartIsWholeOnboard == MCSpec => []TegraPartIsWhole
<1>1. MCInit => TypeOK /\ Whole
  <2>1. MCInit => Init
    BY DEF MCInit, InitOf
  <2> QED BY <2>1, TypeInit, WholeInit
<1>2. Whole => TegraPartIsWhole
  BY DEF Whole, HalfRead, TegraPartIsWhole
<1> QED BY <1>1, <1>2, TelemetryHolds, PTL DEF MCSpec

-----------------------------------------------------------------------------
(* The price of it *)

\* The semaphore is held by a processor that is gone.
Orphaned == sem = "held" /\ ~Writes /\ ~Reads

TakesNothing == tm_frame'.head = tm_frame.head /\ tm_frame'.tail = tm_frame.tail

LEMMA OrphanedStep == TypeOK /\ Orphaned /\ [Next]_vars => Orphaned' /\ TakesNothing
<1> SUFFICES ASSUME TypeOK, Orphaned, [Next]_vars PROVE Orphaned' /\ TakesNothing
  OBVIOUS
<1> USE DEF Orphaned, Writes, Reads, TakesNothing
<1>1. CASE TegrastatsProcessor
  BY <1>1 DEF TegrastatsProcessor, ConfigureSharedMemory, InitializeSemaphore,
              ParseTegrastatsLine, ProcessLocks, ProcessCopiesHead, ProcessCopiesTail,
              ProcessPosts, Process, reading
<1>2. CASE ProcessDies
  BY <1>2 DEF ProcessDies, reading
<1>3. CASE RunService
  <2>1. CASE CheckProcess \/ KillTegraTmProcess \/ StartProcess \/ LinkToTegraTmProcess
    BY <2>1 DEF CheckProcess, KillTegraTmProcess, StartProcess, LinkToTegraTmProcess,
                Reader, writing
  <2>2. CASE ReaderTimesOut \/ ReaderCrashes
    BY <2>2 DEF ReaderTimesOut, ReaderCrashes, Reader, writing
  <2>3. CASE UpdateMissed
    BY <2>3 DEF UpdateMissed, Reader, writing, TypeOK
  <2>4. ~ (ReaderLocks \/ ReaderFindsNothing \/ ReaderCopiesHead \/ ReaderCopiesTail
           \/ ReaderPosts)
    BY DEF ReaderLocks, ReaderFindsNothing, ReaderCopiesHead, ReaderCopiesTail,
           ReaderPosts, Reader
  <2> QED BY <1>3, <2>1, <2>2, <2>3, <2>4 DEF RunService
<1>4. CASE UNCHANGED vars
  BY <1>4 DEF vars, writing, reading
<1> QED BY <1>1, <1>2, <1>3, <1>4 DEF Next

\* Once a processor has died in its critical section, no restart of it makes the
\* semaphore free again (sem_open with O_CREAT in InitializeSemaphore keeps the
\* value that it finds) ...
THEOREM OrphanedForever == Spec => [](Orphaned => []Orphaned)
  BY OrphanedStep, TelemetryTypeCorrect, PTL DEF Spec

\* ... and the telemetry thread takes over nothing more.
THEOREM OrphanedTakesNothing == Spec => [][Orphaned => TakesNothing]_vars
<1>1. TypeOK /\ [Next]_vars => [Orphaned => TakesNothing]_vars
  BY OrphanedStep
<1> QED BY <1>1, TelemetryTypeCorrect, PTL DEF Spec

-----------------------------------------------------------------------------
(* The instances of MCOnboard *)

\* TwoVersions, Quiet and Different.
P1 == INSTANCE ProcessingProofs
  WITH Stored <- {"i1"}, Regions <- {"r1", "r2"}, NetVersions <- {1, 2},
       Built <- {<<1, "r1">>, <<1, "r2">>, <<2, "r1">>}, Earthless <- {},
       Kinds <- {"reprocess", "collect"}, Targets <- 1..3, MetadataLost <- FALSE,
       active <- od_active, Jobs <- 1, Frames <- 3,
       Marks <- {<<TRUE>>, <<TRUE, TRUE>>, <<FALSE, TRUE>>}, Versions <- {0, 1, 2}, Own <- {},
       OD_MIN_LANDMARK_MEASUREMENTS <- 2, max_od_iterations <- 3,
       Collecting <- FALSE, DiskFull <- FALSE, ThreadFails <- FALSE,
       running <- active, Experiments <- {"e1", "e2"}, Key <- "e1" :> "a" @@ "e2" :> "b",
       Runner <- "e1" :> "images" @@ "e2" :> "od", Shown <- 0,
       Files <- 1, Fragments <- 3, burst_size <- 2, max_stalled_rounds <- 2,
       MaxLosses <- 1, MaxResends <- 1, Repeats <- FALSE

\* TwoImages, Growing and Same.
P2 == INSTANCE ProcessingProofs
  WITH Stored <- {"i1", "i2"}, Regions <- {"r1"}, NetVersions <- {1},
       Built <- {<<1, "r1">>}, Earthless <- {"i2"},
       Kinds <- {"reprocess"}, Targets <- 1..3, MetadataLost <- FALSE,
       active <- od_active, Jobs <- 2, Frames <- 2, Marks <- {<<TRUE, TRUE>>},
       Versions <- {1, 2}, Own <- {2},
       OD_MIN_LANDMARK_MEASUREMENTS <- 1, max_od_iterations <- 2,
       Collecting <- TRUE, DiskFull <- TRUE, ThreadFails <- TRUE,
       running <- active, Experiments <- {"e1", "e2"}, Key <- "e1" :> "a" @@ "e2" :> "a",
       Runner <- "e1" :> "processing" @@ "e2" :> "processing", Shown <- 1,
       Files <- 2, Fragments <- 2, burst_size <- 2, max_stalled_rounds <- 1,
       MaxLosses <- 1, MaxResends <- 1, Repeats <- FALSE

\* Full, Growing and Repeating.
P3 == INSTANCE ProcessingProofs
  WITH Stored <- {"i1"}, Regions <- {"r1"}, NetVersions <- {1, 2},
       Built <- {<<1, "r1">>}, Earthless <- {},
       Kinds <- {"reprocess", "collect"}, Targets <- 1..3, MetadataLost <- TRUE,
       active <- od_active, Jobs <- 2, Frames <- 2, Marks <- {<<TRUE, TRUE>>},
       Versions <- {1, 2}, Own <- {2},
       OD_MIN_LANDMARK_MEASUREMENTS <- 1, max_od_iterations <- 2,
       Collecting <- TRUE, DiskFull <- TRUE, ThreadFails <- TRUE,
       running <- active, Experiments <- {"e1"}, Key <- "e1" :> "a",
       Runner <- "e1" :> "collection", Shown <- 0,
       Files <- 1, Fragments <- 3, burst_size <- 2, max_stalled_rounds <- 2,
       MaxLosses <- 1, MaxResends <- 0, Repeats <- TRUE

-----------------------------------------------------------------------------
(* The instances of FrameProcessing *)

LEMMA TwoVersionsNext == TwoVersions!Next <=> P1!FP!Next
  BY DEF TwoVersions!Next, TwoVersions!Requests, TwoVersions!Processing,
    TwoVersions!ProcessFrame, TwoVersions!Restart, TwoVersions!NotPrefiltered,
    TwoVersions!RCNeted, TwoVersions!StartCollection, TwoVersions!StoreFrameToDisk,
    TwoVersions!AddImage, TwoVersions!Reprocess, TwoVersions!ProcessFrames,
    TwoVersions!Skip, TwoVersions!ReadFails, TwoVersions!Pipeline, TwoVersions!Prefilter,
    TwoVersions!Restore, TwoVersions!StoreTruncates, TwoVersions!StoreWrites,
    TwoVersions!StoreFails, TwoVersions!Ends, TwoVersions!Rests, TwoVersions!Finish,
    TwoVersions!NotInitialized, TwoVersions!EnsureInitialized, TwoVersions!RCLoadFails,
    TwoVersions!RCInferFails, TwoVersions!ExecRCInference, TwoVersions!LDNothing,
    TwoVersions!LDSkips, TwoVersions!LDLoadFails, TwoVersions!LDInferFails,
    TwoVersions!LDInfers, TwoVersions!LDGivesUp, TwoVersions!LDEnds, TwoVersions!NoRun,
    TwoVersions!NoImage, TwoVersions!Fresh, TwoVersions!program, TwoVersions!work,
    TwoVersions!ld, TwoVersions!engines, TwoVersions!None, TwoVersions!request,
    TwoVersions!ShouldReprocess, TwoVersions!Loaded, TwoVersions!Take, TwoVersions!Fail,
    TwoVersions!RunPrefiltering, TwoVersions!ResetProcessing, TwoVersions!Prefiltered,
    TwoVersions!Leave, TwoVersions!Insufficient, TwoVersions!Runtimes, TwoVersions!Gives,
    TwoVersions!LoadLDNetEngineForRegion, TwoVersions!PostprocessOutput,
    TwoVersions!FreeLDNetForRegion, TwoVersions!AllFailed, TwoVersions!LDNeted,
    TwoVersions!Answer, P1!FP!Next, P1!FP!Requests, P1!FP!Processing, P1!FP!ProcessFrame,
    P1!FP!Restart, P1!FP!NotPrefiltered, P1!FP!RCNeted, P1!FP!StartCollection,
    P1!FP!StoreFrameToDisk, P1!FP!AddImage, P1!FP!Reprocess, P1!FP!ProcessFrames,
    P1!FP!Skip, P1!FP!ReadFails, P1!FP!Pipeline, P1!FP!Prefilter, P1!FP!Restore,
    P1!FP!StoreTruncates, P1!FP!StoreWrites, P1!FP!StoreFails, P1!FP!Ends, P1!FP!Rests,
    P1!FP!Finish, P1!FP!NotInitialized, P1!FP!EnsureInitialized, P1!FP!RCLoadFails,
    P1!FP!RCInferFails, P1!FP!ExecRCInference, P1!FP!LDNothing, P1!FP!LDSkips,
    P1!FP!LDLoadFails, P1!FP!LDInferFails, P1!FP!LDInfers, P1!FP!LDGivesUp, P1!FP!LDEnds,
    P1!FP!NoRun, P1!FP!NoImage, P1!FP!Fresh, P1!FP!program, P1!FP!work, P1!FP!ld,
    P1!FP!engines, P1!FP!None, P1!FP!request, P1!FP!ShouldReprocess, P1!FP!Loaded,
    P1!FP!Take, P1!FP!Fail, P1!FP!RunPrefiltering, P1!FP!ResetProcessing,
    P1!FP!Prefiltered, P1!FP!Leave, P1!FP!Insufficient, P1!FP!Runtimes, P1!FP!Gives,
    P1!FP!LoadLDNetEngineForRegion, P1!FP!PostprocessOutput, P1!FP!FreeLDNetForRegion,
    P1!FP!AllFailed, P1!FP!LDNeted, P1!FP!Answer

LEMMA TwoImagesNext == TwoImages!Next <=> P2!FP!Next
  BY DEF TwoImages!Next, TwoImages!Requests, TwoImages!Processing, TwoImages!ProcessFrame,
    TwoImages!Restart, TwoImages!NotPrefiltered, TwoImages!RCNeted,
    TwoImages!StartCollection, TwoImages!StoreFrameToDisk, TwoImages!AddImage,
    TwoImages!Reprocess, TwoImages!ProcessFrames, TwoImages!Skip, TwoImages!ReadFails,
    TwoImages!Pipeline, TwoImages!Prefilter, TwoImages!Restore, TwoImages!StoreTruncates,
    TwoImages!StoreWrites, TwoImages!StoreFails, TwoImages!Ends, TwoImages!Rests,
    TwoImages!Finish, TwoImages!NotInitialized, TwoImages!EnsureInitialized,
    TwoImages!RCLoadFails, TwoImages!RCInferFails, TwoImages!ExecRCInference,
    TwoImages!LDNothing, TwoImages!LDSkips, TwoImages!LDLoadFails, TwoImages!LDInferFails,
    TwoImages!LDInfers, TwoImages!LDGivesUp, TwoImages!LDEnds, TwoImages!NoRun,
    TwoImages!NoImage, TwoImages!Fresh, TwoImages!program, TwoImages!work, TwoImages!ld,
    TwoImages!engines, TwoImages!None, TwoImages!request, TwoImages!ShouldReprocess,
    TwoImages!Loaded, TwoImages!Take, TwoImages!Fail, TwoImages!RunPrefiltering,
    TwoImages!ResetProcessing, TwoImages!Prefiltered, TwoImages!Leave,
    TwoImages!Insufficient, TwoImages!Runtimes, TwoImages!Gives,
    TwoImages!LoadLDNetEngineForRegion, TwoImages!PostprocessOutput,
    TwoImages!FreeLDNetForRegion, TwoImages!AllFailed, TwoImages!LDNeted,
    TwoImages!Answer, P2!FP!Next, P2!FP!Requests, P2!FP!Processing, P2!FP!ProcessFrame,
    P2!FP!Restart, P2!FP!NotPrefiltered, P2!FP!RCNeted, P2!FP!StartCollection,
    P2!FP!StoreFrameToDisk, P2!FP!AddImage, P2!FP!Reprocess, P2!FP!ProcessFrames,
    P2!FP!Skip, P2!FP!ReadFails, P2!FP!Pipeline, P2!FP!Prefilter, P2!FP!Restore,
    P2!FP!StoreTruncates, P2!FP!StoreWrites, P2!FP!StoreFails, P2!FP!Ends, P2!FP!Rests,
    P2!FP!Finish, P2!FP!NotInitialized, P2!FP!EnsureInitialized, P2!FP!RCLoadFails,
    P2!FP!RCInferFails, P2!FP!ExecRCInference, P2!FP!LDNothing, P2!FP!LDSkips,
    P2!FP!LDLoadFails, P2!FP!LDInferFails, P2!FP!LDInfers, P2!FP!LDGivesUp, P2!FP!LDEnds,
    P2!FP!NoRun, P2!FP!NoImage, P2!FP!Fresh, P2!FP!program, P2!FP!work, P2!FP!ld,
    P2!FP!engines, P2!FP!None, P2!FP!request, P2!FP!ShouldReprocess, P2!FP!Loaded,
    P2!FP!Take, P2!FP!Fail, P2!FP!RunPrefiltering, P2!FP!ResetProcessing,
    P2!FP!Prefiltered, P2!FP!Leave, P2!FP!Insufficient, P2!FP!Runtimes, P2!FP!Gives,
    P2!FP!LoadLDNetEngineForRegion, P2!FP!PostprocessOutput, P2!FP!FreeLDNetForRegion,
    P2!FP!AllFailed, P2!FP!LDNeted, P2!FP!Answer

LEMMA FullNext == Full!Next <=> P3!FP!Next
  BY DEF Full!Next, Full!Requests, Full!Processing, Full!ProcessFrame, Full!Restart,
    Full!NotPrefiltered, Full!RCNeted, Full!StartCollection, Full!StoreFrameToDisk,
    Full!AddImage, Full!Reprocess, Full!ProcessFrames, Full!Skip, Full!ReadFails,
    Full!Pipeline, Full!Prefilter, Full!Restore, Full!StoreTruncates, Full!StoreWrites,
    Full!StoreFails, Full!Ends, Full!Rests, Full!Finish, Full!NotInitialized,
    Full!EnsureInitialized, Full!RCLoadFails, Full!RCInferFails, Full!ExecRCInference,
    Full!LDNothing, Full!LDSkips, Full!LDLoadFails, Full!LDInferFails, Full!LDInfers,
    Full!LDGivesUp, Full!LDEnds, Full!NoRun, Full!NoImage, Full!Fresh, Full!program,
    Full!work, Full!ld, Full!engines, Full!None, Full!request, Full!ShouldReprocess,
    Full!Loaded, Full!Take, Full!Fail, Full!RunPrefiltering, Full!ResetProcessing,
    Full!Prefiltered, Full!Leave, Full!Insufficient, Full!Runtimes, Full!Gives,
    Full!LoadLDNetEngineForRegion, Full!PostprocessOutput, Full!FreeLDNetForRegion,
    Full!AllFailed, Full!LDNeted, Full!Answer, P3!FP!Next, P3!FP!Requests,
    P3!FP!Processing, P3!FP!ProcessFrame, P3!FP!Restart, P3!FP!NotPrefiltered,
    P3!FP!RCNeted, P3!FP!StartCollection, P3!FP!StoreFrameToDisk, P3!FP!AddImage,
    P3!FP!Reprocess, P3!FP!ProcessFrames, P3!FP!Skip, P3!FP!ReadFails, P3!FP!Pipeline,
    P3!FP!Prefilter, P3!FP!Restore, P3!FP!StoreTruncates, P3!FP!StoreWrites,
    P3!FP!StoreFails, P3!FP!Ends, P3!FP!Rests, P3!FP!Finish, P3!FP!NotInitialized,
    P3!FP!EnsureInitialized, P3!FP!RCLoadFails, P3!FP!RCInferFails, P3!FP!ExecRCInference,
    P3!FP!LDNothing, P3!FP!LDSkips, P3!FP!LDLoadFails, P3!FP!LDInferFails, P3!FP!LDInfers,
    P3!FP!LDGivesUp, P3!FP!LDEnds, P3!FP!NoRun, P3!FP!NoImage, P3!FP!Fresh, P3!FP!program,
    P3!FP!work, P3!FP!ld, P3!FP!engines, P3!FP!None, P3!FP!request, P3!FP!ShouldReprocess,
    P3!FP!Loaded, P3!FP!Take, P3!FP!Fail, P3!FP!RunPrefiltering, P3!FP!ResetProcessing,
    P3!FP!Prefiltered, P3!FP!Leave, P3!FP!Insufficient, P3!FP!Runtimes, P3!FP!Gives,
    P3!FP!LoadLDNetEngineForRegion, P3!FP!PostprocessOutput, P3!FP!FreeLDNetForRegion,
    P3!FP!AllFailed, P3!FP!LDNeted, P3!FP!Answer

LEMMA ProcessingInits ==
  /\ TwoVersions!Init => P1!FP!Init
  /\ TwoImages!Init => P2!FP!Init
  /\ Full!Init => P3!FP!Init
  BY DEF TwoVersions!Init, TwoVersions!NoRun, TwoVersions!NoImage, TwoVersions!Fresh,
    TwoVersions!LDNeted, TwoVersions!NotPrefiltered, TwoVersions!None, P1!FP!Init,
    P1!FP!NoRun, P1!FP!NoImage, P1!FP!Fresh, P1!FP!LDNeted, P1!FP!NotPrefiltered,
    P1!FP!None, TwoImages!Init, TwoImages!NoRun, TwoImages!NoImage, TwoImages!Fresh,
    TwoImages!LDNeted, TwoImages!NotPrefiltered, TwoImages!None, P2!FP!Init, P2!FP!NoRun,
    P2!FP!NoImage, P2!FP!Fresh, P2!FP!LDNeted, P2!FP!NotPrefiltered, P2!FP!None,
    Full!Init, Full!NoRun, Full!NoImage, Full!Fresh, Full!LDNeted, Full!NotPrefiltered,
    Full!None, P3!FP!Init, P3!FP!NoRun, P3!FP!NoImage, P3!FP!Fresh, P3!FP!LDNeted,
    P3!FP!NotPrefiltered, P3!FP!None

LEMMA ProcessingAssumed ==
  P1!FP!FrameProcessingAssumption /\ P2!FP!FrameProcessingAssumption
    /\ P3!FP!FrameProcessingAssumption
  BY FrameProcessingInstances DEF TwoVersions!FrameProcessingAssumption,
    P1!FP!FrameProcessingAssumption, TwoImages!FrameProcessingAssumption,
    P2!FP!FrameProcessingAssumption, Full!FrameProcessingAssumption,
    P3!FP!FrameProcessingAssumption, TwoVersions!IsFiniteSet, P1!FP!IsFiniteSet,
    TwoImages!IsFiniteSet, P2!FP!IsFiniteSet, Full!IsFiniteSet, P3!FP!IsFiniteSet,
    TwoVersions!None, P1!FP!None, TwoImages!None, P2!FP!None, Full!None, P3!FP!None,
    TwoVersions!Prefiltered, P1!FP!Prefiltered, TwoImages!Prefiltered, P2!FP!Prefiltered,
    Full!Prefiltered, P3!FP!Prefiltered, TwoVersions!LDNeted, P1!FP!LDNeted,
    TwoImages!LDNeted, P2!FP!LDNeted, Full!LDNeted, P3!FP!LDNeted

ProcessingInv ==
  /\ instance = "images" => P2!FP!TypeOK /\ P2!HonestInv /\ P2!CurrentInv
  /\ instance = "full" => P3!FP!TypeOK /\ P3!HonestInv
  /\ instance \notin {"images", "full"} => P1!FP!TypeOK /\ P1!HonestInv /\ P1!CurrentInv

LEMMA ProcessingBegins == MCInit => ProcessingInv
<1> SUFFICES ASSUME MCInit PROVE ProcessingInv
  OBVIOUS
<1>1. /\ instance = "images" => TwoImages!Init
      /\ instance = "full" => Full!Init
      /\ instance \notin {"images", "full"} => TwoVersions!Init
  BY DEF MCInit, InitOf
<1>2. /\ instance = "images" => P2!FP!Init
      /\ instance = "full" => P3!FP!Init
      /\ instance \notin {"images", "full"} => P1!FP!Init
  BY <1>1, ProcessingInits
<1>3. P2!FP!Init => P2!FP!TypeOK /\ P2!HonestInv /\ P2!CurrentInv
  BY ProcessingAssumed, P2!TypeInit, P2!HonestInit, P2!CurrentInit
<1>4. P3!FP!Init => P3!FP!TypeOK /\ P3!HonestInv
  BY ProcessingAssumed, P3!TypeInit, P3!HonestInit
<1>5. P1!FP!Init => P1!FP!TypeOK /\ P1!HonestInv /\ P1!CurrentInv
  BY ProcessingAssumed, P1!TypeInit, P1!HonestInit, P1!CurrentInit
<1> QED BY <1>2, <1>3, <1>4, <1>5 DEF ProcessingInv

LEMMA ProcessingKept == UNCHANGED frameprocessing =>
                          UNCHANGED P1!FP!vars /\ UNCHANGED P2!FP!vars /\ UNCHANGED P3!FP!vars
  BY DEF frameprocessing, P1!FP!vars, P1!FP!program, P1!FP!request, P1!FP!work, P1!FP!ld,
     P1!FP!engines, P2!FP!vars, P2!FP!program, P2!FP!request, P2!FP!work, P2!FP!ld,
     P2!FP!engines, P3!FP!vars, P3!FP!program, P3!FP!request, P3!FP!work, P3!FP!ld,
     P3!FP!engines

LEMMA ProcessingSteps ==
  ASSUME [MCNext]_all
  PROVE /\ instance' = instance
        /\ instance = "images" => [P2!FP!Next]_(P2!FP!vars)
        /\ instance = "full" => [P3!FP!Next]_(P3!FP!vars)
        /\ instance \notin {"images", "full"} => [P1!FP!Next]_(P1!FP!vars)
<1>1. CASE MCNext
  BY <1>1, TwoVersionsNext, TwoImagesNext, FullNext, ProcessingKept DEF MCNext
<1>2. CASE UNCHANGED all
  BY <1>2, ProcessingKept DEF all
<1> QED BY <1>1, <1>2

LEMMA ProcessingHolds == ProcessingInv /\ [MCNext]_all => ProcessingInv'
<1> SUFFICES ASSUME ProcessingInv, [MCNext]_all PROVE ProcessingInv'
  OBVIOUS
<1>1. instance = "images" => (P2!FP!TypeOK /\ P2!HonestInv /\ P2!CurrentInv)'
  BY ProcessingSteps, ProcessingAssumed, P2!TypeNext, P2!HonestNext, P2!CurrentNext
     DEF ProcessingInv
<1>2. instance = "full" => (P3!FP!TypeOK /\ P3!HonestInv)'
  BY ProcessingSteps, ProcessingAssumed, P3!TypeNext, P3!HonestNext DEF ProcessingInv
<1>3. instance \notin {"images", "full"} => (P1!FP!TypeOK /\ P1!HonestInv /\ P1!CurrentInv)'
  BY ProcessingSteps, ProcessingAssumed, P1!TypeNext, P1!HonestNext, P1!CurrentNext
     DEF ProcessingInv
<1>4. instance' = instance
  BY ProcessingSteps
<1> QED BY <1>1, <1>2, <1>3, <1>4 DEF ProcessingInv

\* The metadata on disk says how it came about, in the three instances.
THEOREM MetadataIsHonestHolds == MCSpec => []MetadataIsHonest
<1>1. ProcessingInv => MetadataIsHonest
  <2>1. P2!HonestInv => TwoImages!MetadataIsHonest
    BY DEF P2!HonestInv, P2!FP!MetadataIsHonest, P2!FP!Honest, TwoImages!MetadataIsHonest,
       TwoImages!Honest, P2!FP!RCNeted, P2!FP!LDNeted, P2!FP!None, TwoImages!RCNeted,
       TwoImages!LDNeted, TwoImages!None
  <2>2. P3!HonestInv \/ P1!HonestInv => TwoVersions!MetadataIsHonest
    BY DEF P3!HonestInv, P3!FP!MetadataIsHonest, P3!FP!Honest, P1!HonestInv,
       P1!FP!MetadataIsHonest, P1!FP!Honest, TwoVersions!MetadataIsHonest,
       TwoVersions!Honest, P3!FP!RCNeted, P3!FP!LDNeted, P3!FP!None, P1!FP!RCNeted,
       P1!FP!LDNeted, P1!FP!None, TwoVersions!RCNeted, TwoVersions!LDNeted,
       TwoVersions!None
  <2> QED BY <2>1, <2>2 DEF ProcessingInv, MetadataIsHonest
<1> QED BY <1>1, ProcessingBegins, ProcessingHolds, PTL DEF MCSpec

\* A run with overwrite that ends without an error leaves no image with results of
\* other versions, in the two instances in which the metadata can be written.
THEOREM ReprocessedIsCurrentHolds == MCSpec => []ReprocessedIsCurrent
<1>1. ProcessingInv => ReprocessedIsCurrent
  <2>1. P2!FP!TypeOK /\ P2!CurrentInv => TwoImages!ReprocessedIsCurrent
    <3>1. P2!FP!ReprocessedIsCurrent <=> TwoImages!ReprocessedIsCurrent
      BY DEF P2!FP!ReprocessedIsCurrent, P2!FP!Current, P2!FP!Loaded, P2!FP!RCNeted,
        P2!FP!LDNeted, P2!FP!Fresh, P2!FP!NotPrefiltered, P2!FP!None,
        TwoImages!ReprocessedIsCurrent, TwoImages!Current, TwoImages!Loaded,
        TwoImages!RCNeted, TwoImages!LDNeted, TwoImages!Fresh, TwoImages!NotPrefiltered,
        TwoImages!None
    <3> QED BY <3>1, P2!CurrentIsEnough
  <2>2. P1!FP!TypeOK /\ P1!CurrentInv => TwoVersions!ReprocessedIsCurrent
    <3>1. P1!FP!ReprocessedIsCurrent <=> TwoVersions!ReprocessedIsCurrent
      BY DEF P1!FP!ReprocessedIsCurrent, P1!FP!Current, P1!FP!Loaded, P1!FP!RCNeted,
        P1!FP!LDNeted, P1!FP!Fresh, P1!FP!NotPrefiltered, P1!FP!None,
        TwoVersions!ReprocessedIsCurrent, TwoVersions!Current, TwoVersions!Loaded,
        TwoVersions!RCNeted, TwoVersions!LDNeted, TwoVersions!Fresh,
        TwoVersions!NotPrefiltered, TwoVersions!None
    <3> QED BY <3>1, P1!CurrentIsEnough
  <2> QED BY <2>1, <2>2 DEF ProcessingInv, ReprocessedIsCurrent
<1> QED BY <1>1, ProcessingBegins, ProcessingHolds, PTL DEF MCSpec

-----------------------------------------------------------------------------
(* The instances of OrbitDetermination *)

\* The two names of what Quiet is made of.
LEMMA QuietLists ==
  /\ \A S : Quiet!Cardinality(S) = P1!Cardinality(S) /\ Quiet!Sorted(S) = P1!Sorted(S)
  /\ \A s : Quiet!Starts(s) = P1!Starts(s) /\ Quiet!Groups(s) = P1!Groups(s)
<1>1. \A S : Quiet!Cardinality(S) = P1!Cardinality(S)
  BY DEF Quiet!Cardinality, P1!Cardinality
<1>2. \A S : Quiet!Sorted(S) = P1!Sorted(S)
  BY DEF Quiet!Sorted, P1!Sorted, Quiet!Cardinality, P1!Cardinality
<1>3. \A s : Quiet!Starts(s) = P1!Starts(s)
  BY DEF Quiet!Starts, P1!Starts
<1>4. \A s : Quiet!Groups(s) = P1!Groups(s)
  BY DEF Quiet!Groups, P1!Groups, Quiet!Cardinality, P1!Cardinality
<1> QED BY <1>1, <1>2, <1>3, <1>4

LEMMA QuietRows ==
  /\ \A f : Quiet!RowsOf(f) = P1!RowsOf(f)
  /\ Quiet!NextFile = P1!NextFile
  /\ Quiet!landmark_residuals = P1!landmark_residuals
  /\ \A S : Quiet!Kept(S) = P1!Kept(S)
  /\ \A m, k : Quiet!filter_landmark_measurements(m, k) = P1!filter_landmark_measurements(m, k)
<1>1. \A f : Quiet!RowsOf(f) = P1!RowsOf(f)
  BY QuietLists DEF Quiet!RowsOf, P1!RowsOf, Quiet!Usable, P1!Usable
<1>2. Quiet!NextFile = P1!NextFile
  BY DEF Quiet!NextFile, P1!NextFile, Quiet!Min, P1!Min
<1>3. Quiet!landmark_residuals = P1!landmark_residuals
  BY QuietLists DEF Quiet!landmark_residuals, P1!landmark_residuals, Quiet!n_active,
       P1!n_active
<1>4. \A S : Quiet!Kept(S) = P1!Kept(S)
  BY QuietLists DEF Quiet!Kept, P1!Kept, Quiet!n_active, P1!n_active
<1>5. \A m, k : Quiet!filter_landmark_measurements(m, k) = P1!filter_landmark_measurements(m, k)
  BY QuietLists DEF Quiet!filter_landmark_measurements, P1!filter_landmark_measurements
<1> QED BY <1>1, <1>2, <1>3, <1>4, <1>5

LEMMA QuietNext == Quiet!Next => P1!Next \/ P1!Inspects
<1>1. Quiet!InspectDatasetForOD => P1!Inspects
  BY DEF
    Quiet!InspectDatasetForOD, Quiet!Go, Quiet!dataset, Quiet!control, Quiet!prepared,
    Quiet!rejection, P1!Inspects, P1!dataset, P1!control, P1!prepared, P1!rejection
<1>2. Quiet!Extract <=> P1!Extract
  BY QuietLists, QuietRows DEF
    Quiet!Extract, Quiet!LDNeted, Quiet!Go, Quiet!dataset, Quiet!control,
    Quiet!prepared, Quiet!rejection, P1!Extract, P1!LDNeted, P1!Go, P1!dataset,
    P1!control, P1!prepared, P1!rejection
<1>3. Quiet!WriteCsv <=> P1!WriteCsv
  BY QuietLists DEF
    Quiet!WriteCsv, Quiet!Go, Quiet!dataset, Quiet!control, Quiet!prepared,
    Quiet!rejection, P1!WriteCsv, P1!Go, P1!dataset, P1!control, P1!prepared,
    P1!rejection
<1>4. Quiet!LoadODMeasurementsFromDataset <=> P1!LoadODMeasurementsFromDataset
  BY QuietLists DEF
    Quiet!LoadODMeasurementsFromDataset, Quiet!FailsWith, Quiet!Go, Quiet!dataset,
    Quiet!control, Quiet!prepared, Quiet!rejection, P1!LoadODMeasurementsFromDataset,
    P1!FailsWith, P1!Go, P1!dataset, P1!control, P1!prepared, P1!rejection
<1>5. Quiet!SolverEnds <=> P1!SolverEnds
  BY QuietRows DEF
    Quiet!SolverEnds, Quiet!Valid, Quiet!n_active, Quiet!NaN, Quiet!Go, Quiet!dataset,
    Quiet!control, Quiet!prepared, Quiet!rejection, P1!SolverEnds, P1!Valid,
    P1!n_active, P1!NaN, P1!Go, P1!dataset, P1!control, P1!prepared, P1!rejection
<1>6. Quiet!Reject <=> P1!Reject
  BY QuietRows DEF
    Quiet!Reject, Quiet!Valid, Quiet!n_active, Quiet!Flag, Quiet!dataset, Quiet!control,
    Quiet!prepared, Quiet!rejection, P1!Reject, P1!Valid, P1!n_active, P1!Flag,
    P1!dataset, P1!control, P1!prepared, P1!rejection
<1>7. Quiet!InferVersion <=> P1!InferVersion
  BY QuietRows DEF
    Quiet!InferVersion, Quiet!LDNeted, Quiet!dataset, Quiet!control, Quiet!prepared,
    Quiet!rejection, P1!InferVersion, P1!LDNeted, P1!dataset, P1!control, P1!prepared,
    P1!rejection
<1>8. Quiet!InferRefuses <=> P1!InferRefuses
  BY QuietRows DEF
    Quiet!InferRefuses, Quiet!LDNeted, Quiet!FailsWith, Quiet!dataset, Quiet!control,
    Quiet!prepared, Quiet!rejection, P1!InferRefuses, P1!LDNeted, P1!FailsWith,
    P1!dataset, P1!control, P1!prepared, P1!rejection
<1> QED BY <1>1, <1>2, <1>3, <1>4, <1>5, <1>6, <1>7, <1>8 DEF
    Quiet!Next, Quiet!RunOD, Quiet!RunODWithoutThread, Quiet!Worker,
    Quiet!CollectorOpens, Quiet!CollectorWrites, Quiet!Accept, Quiet!Nothing,
    Quiet!dataset, Quiet!prepared, Quiet!rejection, Quiet!control, Quiet!ReadODConfig,
    Quiet!ListFrames, Quiet!InferEnds, Quiet!ExtractEnds, Quiet!CsvFails,
    Quiet!ParseImu, Quiet!SolverRejects, Quiet!SolverFails, Quiet!WriteBatchODResults,
    Quiet!WorkerThrows, Quiet!Publish, Quiet!Unready, Quiet!Processed, Quiet!Existing,
    Quiet!Go, Quiet!FailsWith, Quiet!EndsWith, Quiet!Valid, Quiet!n_active, Quiet!Empty,
    P1!Next, P1!RunOD, P1!RunODWithoutThread, P1!Worker, P1!CollectorOpens,
    P1!CollectorWrites, P1!Accept, P1!Nothing, P1!dataset, P1!prepared, P1!rejection,
    P1!control, P1!ReadODConfig, P1!ListFrames, P1!InferEnds, P1!ExtractEnds,
    P1!CsvFails, P1!ParseImu, P1!SolverRejects, P1!SolverFails, P1!WriteBatchODResults,
    P1!WorkerThrows, P1!Publish, P1!Unready, P1!Processed, P1!Existing, P1!Go,
    P1!FailsWith, P1!EndsWith, P1!Valid, P1!n_active, P1!Empty

\* The two names of what Growing is made of.
LEMMA GrowingLists ==
  /\ \A S : Growing!Cardinality(S) = P2!Cardinality(S) /\ Growing!Sorted(S) = P2!Sorted(S)
  /\ \A s : Growing!Starts(s) = P2!Starts(s) /\ Growing!Groups(s) = P2!Groups(s)
<1>1. \A S : Growing!Cardinality(S) = P2!Cardinality(S)
  BY DEF Growing!Cardinality, P2!Cardinality
<1>2. \A S : Growing!Sorted(S) = P2!Sorted(S)
  BY DEF Growing!Sorted, P2!Sorted, Growing!Cardinality, P2!Cardinality
<1>3. \A s : Growing!Starts(s) = P2!Starts(s)
  BY DEF Growing!Starts, P2!Starts
<1>4. \A s : Growing!Groups(s) = P2!Groups(s)
  BY DEF Growing!Groups, P2!Groups, Growing!Cardinality, P2!Cardinality
<1> QED BY <1>1, <1>2, <1>3, <1>4

LEMMA GrowingRows ==
  /\ \A f : Growing!RowsOf(f) = P2!RowsOf(f)
  /\ Growing!NextFile = P2!NextFile
  /\ Growing!landmark_residuals = P2!landmark_residuals
  /\ \A S : Growing!Kept(S) = P2!Kept(S)
  /\ \A m, k : Growing!filter_landmark_measurements(m,
       k) = P2!filter_landmark_measurements(m, k)
<1>1. \A f : Growing!RowsOf(f) = P2!RowsOf(f)
  BY GrowingLists DEF Growing!RowsOf, P2!RowsOf, Growing!Usable, P2!Usable
<1>2. Growing!NextFile = P2!NextFile
  BY DEF Growing!NextFile, P2!NextFile, Growing!Min, P2!Min
<1>3. Growing!landmark_residuals = P2!landmark_residuals
  BY GrowingLists DEF Growing!landmark_residuals, P2!landmark_residuals, Growing!n_active,
       P2!n_active
<1>4. \A S : Growing!Kept(S) = P2!Kept(S)
  BY GrowingLists DEF Growing!Kept, P2!Kept, Growing!n_active, P2!n_active
<1>5. \A m, k : Growing!filter_landmark_measurements(m,
        k) = P2!filter_landmark_measurements(m, k)
  BY GrowingLists DEF Growing!filter_landmark_measurements,
       P2!filter_landmark_measurements
<1> QED BY <1>1, <1>2, <1>3, <1>4, <1>5

LEMMA GrowingNext == Growing!Next => P2!Next \/ P2!Inspects
<1>1. Growing!InspectDatasetForOD => P2!Inspects
  BY DEF
    Growing!InspectDatasetForOD, Growing!Go, Growing!dataset, Growing!control,
    Growing!prepared, Growing!rejection, P2!Inspects, P2!dataset, P2!control,
    P2!prepared, P2!rejection
<1>2. Growing!Extract <=> P2!Extract
  BY GrowingLists, GrowingRows DEF
    Growing!Extract, Growing!LDNeted, Growing!Go, Growing!dataset, Growing!control,
    Growing!prepared, Growing!rejection, P2!Extract, P2!LDNeted, P2!Go, P2!dataset,
    P2!control, P2!prepared, P2!rejection
<1>3. Growing!WriteCsv <=> P2!WriteCsv
  BY GrowingLists DEF
    Growing!WriteCsv, Growing!Go, Growing!dataset, Growing!control, Growing!prepared,
    Growing!rejection, P2!WriteCsv, P2!Go, P2!dataset, P2!control, P2!prepared,
    P2!rejection
<1>4. Growing!LoadODMeasurementsFromDataset <=> P2!LoadODMeasurementsFromDataset
  BY GrowingLists DEF
    Growing!LoadODMeasurementsFromDataset, Growing!FailsWith, Growing!Go,
    Growing!dataset, Growing!control, Growing!prepared, Growing!rejection,
    P2!LoadODMeasurementsFromDataset, P2!FailsWith, P2!Go, P2!dataset, P2!control,
    P2!prepared, P2!rejection
<1>5. Growing!SolverEnds <=> P2!SolverEnds
  BY GrowingRows DEF
    Growing!SolverEnds, Growing!Valid, Growing!n_active, Growing!NaN, Growing!Go,
    Growing!dataset, Growing!control, Growing!prepared, Growing!rejection,
    P2!SolverEnds, P2!Valid, P2!n_active, P2!NaN, P2!Go, P2!dataset, P2!control,
    P2!prepared, P2!rejection
<1>6. Growing!Reject <=> P2!Reject
  BY GrowingRows DEF
    Growing!Reject, Growing!Valid, Growing!n_active, Growing!Flag, Growing!dataset,
    Growing!control, Growing!prepared, Growing!rejection, P2!Reject, P2!Valid,
    P2!n_active, P2!Flag, P2!dataset, P2!control, P2!prepared, P2!rejection
<1>7. Growing!InferVersion <=> P2!InferVersion
  BY GrowingRows DEF
    Growing!InferVersion, Growing!LDNeted, Growing!dataset, Growing!control,
    Growing!prepared, Growing!rejection, P2!InferVersion, P2!LDNeted, P2!dataset,
    P2!control, P2!prepared, P2!rejection
<1>8. Growing!InferRefuses <=> P2!InferRefuses
  BY GrowingRows DEF
    Growing!InferRefuses, Growing!LDNeted, Growing!FailsWith, Growing!dataset,
    Growing!control, Growing!prepared, Growing!rejection, P2!InferRefuses, P2!LDNeted,
    P2!FailsWith, P2!dataset, P2!control, P2!prepared, P2!rejection
<1> QED BY <1>1, <1>2, <1>3, <1>4, <1>5, <1>6, <1>7, <1>8 DEF
    Growing!Next, Growing!RunOD, Growing!RunODWithoutThread, Growing!Worker,
    Growing!CollectorOpens, Growing!CollectorWrites, Growing!Accept, Growing!Nothing,
    Growing!dataset, Growing!prepared, Growing!rejection, Growing!control,
    Growing!ReadODConfig, Growing!ListFrames, Growing!InferEnds, Growing!ExtractEnds,
    Growing!CsvFails, Growing!ParseImu, Growing!SolverRejects, Growing!SolverFails,
    Growing!WriteBatchODResults, Growing!WorkerThrows, Growing!Publish, Growing!Unready,
    Growing!Processed, Growing!Existing, Growing!Go, Growing!FailsWith,
    Growing!EndsWith, Growing!Valid, Growing!n_active, Growing!Empty, P2!Next, P2!RunOD,
    P2!RunODWithoutThread, P2!Worker, P2!CollectorOpens, P2!CollectorWrites, P2!Accept,
    P2!Nothing, P2!dataset, P2!prepared, P2!rejection, P2!control, P2!ReadODConfig,
    P2!ListFrames, P2!InferEnds, P2!ExtractEnds, P2!CsvFails, P2!ParseImu,
    P2!SolverRejects, P2!SolverFails, P2!WriteBatchODResults, P2!WorkerThrows,
    P2!Publish, P2!Unready, P2!Processed, P2!Existing, P2!Go, P2!FailsWith, P2!EndsWith,
    P2!Valid, P2!n_active, P2!Empty

LEMMA OrbitInits ==
  /\ Quiet!Init => P1!Init
  /\ Growing!Init => P2!Init
  BY DEF
    Quiet!Init, Quiet!Unready, Quiet!Processed, Quiet!Nothing, Quiet!Empty, P1!Init,
    P1!Unready, P1!Processed, P1!Nothing, P1!Empty, Growing!Init, Growing!Unready,
    Growing!Processed, Growing!Nothing, Growing!Empty, P2!Init, P2!Unready,
    P2!Processed, P2!Nothing, P2!Empty

LEMMA OrbitAssumed == P1!ODAssumption /\ P2!ODAssumption
  BY ODInstances DEF
    Quiet!ODAssumption, P1!ODAssumption, Growing!ODAssumption, P2!ODAssumption

LEMMA OrbitKept == UNCHANGED od => UNCHANGED P1!vars /\ UNCHANGED P2!vars
  BY DEF
    od,
    P1!vars, P1!dataset, P1!control, P1!prepared, P1!rejection, P2!vars, P2!dataset,
    P2!control, P2!prepared, P2!rejection

OrbitInv ==
  /\ instance = "quiet" => P1!OrbitInv
  /\ instance # "quiet" => P2!OrbitInv

LEMMA OrbitBegins == MCInit => OrbitInv
<1> SUFFICES ASSUME MCInit PROVE OrbitInv
  OBVIOUS
<1>1. /\ instance = "quiet" => P1!Init
      /\ instance # "quiet" => P2!Init
  BY OrbitInits DEF MCInit, InitOf
<1>2. P1!Init => P1!OrbitInv
  BY OrbitAssumed, P1!OrbitInitInv
<1>3. P2!Init => P2!OrbitInv
  BY OrbitAssumed, P2!OrbitInitInv
<1> QED BY <1>1, <1>2, <1>3 DEF OrbitInv

LEMMA OrbitSteps ==
  ASSUME [MCNext]_all
  PROVE /\ instance' = instance
        /\ instance = "quiet" => [P1!Next]_(P1!vars) \/ P1!Inspects
        /\ instance # "quiet" => [P2!Next]_(P2!vars) \/ P2!Inspects
<1>1. CASE MCNext
  BY <1>1, QuietNext, GrowingNext, OrbitKept DEF MCNext
<1>2. CASE UNCHANGED all
  BY <1>2, OrbitKept DEF all
<1> QED BY <1>1, <1>2

LEMMA OrbitHolds == OrbitInv /\ [MCNext]_all => OrbitInv'
<1> SUFFICES ASSUME OrbitInv, [MCNext]_all PROVE OrbitInv'
  OBVIOUS
<1>1. instance = "quiet" => P1!OrbitInv'
  BY OrbitSteps, OrbitAssumed, P1!OrbitInvNext DEF OrbitInv
<1>2. instance # "quiet" => P2!OrbitInv'
  BY OrbitSteps, OrbitAssumed, P2!OrbitInvNext DEF OrbitInv
<1>3. instance' = instance
  BY OrbitSteps
<1> QED BY <1>1, <1>2, <1>3 DEF OrbitInv

\* The solver sees the rows of one model, but for frames that were written between
\* the two passes, in both instances.
THEOREM OneModelHolds == MCSpec => []OneModel
<1>1. OrbitInv => OneModel
  <2>1. P1!OneModel \/ P2!OneModel => Quiet!OneModel
    BY DEF P1!OneModel, P2!OneModel, Quiet!OneModel
  <2> QED BY <2>1, OrbitAssumed, P1!OrbitInvImplies, P2!OrbitInvImplies DEF OrbitInv,
       OneModel
<1> QED BY <1>1, OrbitBegins, OrbitHolds, PTL DEF MCSpec

\* Rejection keeps rows, groups and residuals together, in both instances.
THEOREM RejectionKeepsRowsHolds == MCSpec => []RejectionKeepsRows
<1>1. OrbitInv => RejectionKeepsRows
  <2>1. \A s : P2!Groups(s) = Quiet!Groups(s)
    BY DEF P2!Groups, Quiet!Groups, P2!Cardinality, Quiet!Cardinality
  <2>2. P1!RejectionKeepsRows => Quiet!RejectionKeepsRows
    BY QuietLists DEF P1!RejectionKeepsRows, P1!n_active, Quiet!RejectionKeepsRows,
         Quiet!n_active
  <2>3. P2!RejectionKeepsRows => Quiet!RejectionKeepsRows
    BY <2>1 DEF P2!RejectionKeepsRows, P2!n_active, Quiet!RejectionKeepsRows,
         Quiet!n_active
  <2> QED BY <2>2, <2>3, OrbitAssumed, P1!OrbitInvImplies, P2!OrbitInvImplies
             DEF OrbitInv, RejectionKeepsRows
<1> QED BY <1>1, OrbitBegins, OrbitHolds, PTL DEF MCSpec

-----------------------------------------------------------------------------
(* The instances of Downlink *)

LEMMA DownlinkAssumed ==
  P1!DL!DownlinkAssumption /\ P2!DL!DownlinkAssumption /\ P3!DL!DownlinkAssumption
  BY DownlinkInstances DEF
    Different!DownlinkAssumption, P1!DL!DownlinkAssumption, Same!DownlinkAssumption,
    P2!DL!DownlinkAssumption, Repeating!DownlinkAssumption, P3!DL!DownlinkAssumption

\* The two names of one operator.
LEMMA SortedSame == \A S :
  /\ Different!Sorted(S) = P1!DL!Sorted(S)
  /\ Same!Sorted(S) = P2!DL!Sorted(S)
  /\ Repeating!Sorted(S) = P3!DL!Sorted(S)
<1>1. \A S : Different!Sorted(S) = P1!DL!Sorted(S)
  BY DEF Different!Sorted, P1!DL!Sorted, Different!Cardinality, P1!DL!Cardinality
<1>2. \A S : Same!Sorted(S) = P2!DL!Sorted(S)
  BY DEF Same!Sorted, P2!DL!Sorted, Same!Cardinality, P2!DL!Cardinality
<1>3. \A S : Repeating!Sorted(S) = P3!DL!Sorted(S)
  BY DEF Repeating!Sorted, P3!DL!Sorted, Repeating!Cardinality, P3!DL!Cardinality
<1> QED BY <1>1, <1>2, <1>3

LEMMA BurstSame == \A S :
  /\ Different!Burst(S) = P1!DL!Burst(S)
  /\ Same!Burst(S) = P2!DL!Burst(S)
  /\ Repeating!Burst(S) = P3!DL!Burst(S)
<1>1. \A T : Different!Cardinality(T) = P1!DL!Cardinality(T)
  BY DEF Different!Cardinality, P1!DL!Cardinality
<1>2. \A T : Same!Cardinality(T) = P2!DL!Cardinality(T)
  BY DEF Same!Cardinality, P2!DL!Cardinality
<1>3. \A T : Repeating!Cardinality(T) = P3!DL!Cardinality(T)
  BY DEF Repeating!Cardinality, P3!DL!Cardinality
<1> QED
  BY <1>1, <1>2, <1>3, SortedSame
  DEF Different!Burst, P1!DL!Burst, Same!Burst, P2!DL!Burst, Repeating!Burst, P3!DL!Burst

LEMMA DifferentNext == Different!Next <=> P1!DL!Next
<1>1. Different!SatConfirms <=> P1!DL!SatConfirms
  BY BurstSame DEF Different!SatConfirms, Different!Answer, Different!shared,
    Different!events, Different!thread, Different!transaction, Different!thumbnails,
    P1!DL!SatConfirms, P1!DL!Answer, P1!DL!shared, P1!DL!events, P1!DL!thread,
    P1!DL!transaction, P1!DL!thumbnails
<1>2. Different!SendsBurst <=> P1!DL!SendsBurst
  BY BurstSame DEF Different!SendsBurst, Different!Here, Different!Fragment,
    Different!events, Different!thread, Different!thumbnails, Different!mainboard,
    Different!ThisFile, P1!DL!SendsBurst, P1!DL!Here, P1!DL!Fragment, P1!DL!events,
    P1!DL!thread, P1!DL!thumbnails, P1!DL!mainboard, P1!DL!ThisFile
<1>3. Different!RunnerFinishes <=> P1!DL!RunnerFinishes
  BY DEF Different!RunnerFinishes, Different!Ran, Different!Packet,
    Different!_generate_thumbnails, Different!File, Different!thread,
    Different!transaction, Different!events, Different!mainboard, Different!ThisFile,
    Different!Sorted, Different!Cardinality, P1!DL!RunnerFinishes, P1!DL!Ran,
    P1!DL!Packet, P1!DL!_generate_thumbnails, P1!DL!File, P1!DL!thread, P1!DL!transaction,
    P1!DL!events, P1!DL!mainboard, P1!DL!ThisFile, P1!DL!Sorted, P1!DL!Cardinality
<1> QED BY <1>1, <1>2, <1>3 DEF Different!Next, Different!External,
    Different!CommandThread, Different!ExperimentThread, Different!GraceEnds,
    Different!LoseTx, Different!LoseRx, Different!SatReceives, Different!SatRepeats,
    Different!SatCommands, Different!SatTurnsOff, Different!dispatch_ack,
    Different!_handle_experiment, Different!_handle_update_last_batch,
    Different!SetUpdate, Different!_handle_turn_off_payload,
    Different!_drain_tx_then_shutdown, Different!SkipsDuplicate,
    Different!TakesExperiment, Different!UnknownMode, Different!StartsCameras,
    Different!Captures, Different!NoCameras, Different!_downscale_images,
    Different!_run_inference, Different!CallsBinary, Different!BinaryFails,
    Different!ODFindsNothing, Different!Raises, Different!Marks, Different!FileNotFound,
    Different!ClearData, Different!ClearEvent, Different!Sends, Different!Acked,
    Different!SendsAgain, Different!AckTimesOut, Different!Stops, Different!TakesConfirm,
    Different!ConfirmTimesOut, Different!NothingTaken, Different!SendsOn,
    Different!Stalls, Different!Succeeds, Different!line, Different!mainboard,
    Different!shared, Different!events, Different!transaction, Different!thumbnails,
    Different!thread, Different!Closed, Different!Answer, Different!File, Different!None,
    Different!Handling, Different!Taken, Different!_is_duplicate, Different!Ran,
    Different!Stays, Different!Silent, Different!Over, Different!Step, Different!Fails,
    Different!Packet, Different!Here, Different!Await, Different!After,
    Different!Fragment, Different!Left, Different!ThisFile, Different!Confirmed,
    P1!DL!Next, P1!DL!External, P1!DL!CommandThread, P1!DL!ExperimentThread,
    P1!DL!GraceEnds, P1!DL!LoseTx, P1!DL!LoseRx, P1!DL!SatReceives, P1!DL!SatRepeats,
    P1!DL!SatCommands, P1!DL!SatTurnsOff, P1!DL!dispatch_ack, P1!DL!_handle_experiment,
    P1!DL!_handle_update_last_batch, P1!DL!SetUpdate, P1!DL!_handle_turn_off_payload,
    P1!DL!_drain_tx_then_shutdown, P1!DL!SkipsDuplicate, P1!DL!TakesExperiment,
    P1!DL!UnknownMode, P1!DL!StartsCameras, P1!DL!Captures, P1!DL!NoCameras,
    P1!DL!_downscale_images, P1!DL!_run_inference, P1!DL!CallsBinary, P1!DL!BinaryFails,
    P1!DL!ODFindsNothing, P1!DL!Raises, P1!DL!Marks, P1!DL!FileNotFound, P1!DL!ClearData,
    P1!DL!ClearEvent, P1!DL!Sends, P1!DL!Acked, P1!DL!SendsAgain, P1!DL!AckTimesOut,
    P1!DL!Stops, P1!DL!TakesConfirm, P1!DL!ConfirmTimesOut, P1!DL!NothingTaken,
    P1!DL!SendsOn, P1!DL!Stalls, P1!DL!Succeeds, P1!DL!line, P1!DL!mainboard,
    P1!DL!shared, P1!DL!events, P1!DL!transaction, P1!DL!thumbnails, P1!DL!thread,
    P1!DL!Closed, P1!DL!Answer, P1!DL!File, P1!DL!None, P1!DL!Handling, P1!DL!Taken,
    P1!DL!_is_duplicate, P1!DL!Ran, P1!DL!Stays, P1!DL!Silent, P1!DL!Over, P1!DL!Step,
    P1!DL!Fails, P1!DL!Packet, P1!DL!Here, P1!DL!Await, P1!DL!After, P1!DL!Fragment,
    P1!DL!Left, P1!DL!ThisFile, P1!DL!Confirmed

LEMMA SameNext == Same!Next <=> P2!DL!Next
<1>1. Same!SatConfirms <=> P2!DL!SatConfirms
  BY BurstSame DEF Same!SatConfirms, Same!Answer, Same!shared, Same!events, Same!thread,
    Same!transaction, Same!thumbnails, P2!DL!SatConfirms, P2!DL!Answer, P2!DL!shared,
    P2!DL!events, P2!DL!thread, P2!DL!transaction, P2!DL!thumbnails
<1>2. Same!SendsBurst <=> P2!DL!SendsBurst
  BY BurstSame DEF Same!SendsBurst, Same!Here, Same!Fragment, Same!events, Same!thread,
    Same!thumbnails, Same!mainboard, Same!ThisFile, P2!DL!SendsBurst, P2!DL!Here,
    P2!DL!Fragment, P2!DL!events, P2!DL!thread, P2!DL!thumbnails, P2!DL!mainboard,
    P2!DL!ThisFile
<1>3. Same!RunnerFinishes <=> P2!DL!RunnerFinishes
  BY DEF
    Same!RunnerFinishes, Same!Ran, Same!Packet, Same!_generate_thumbnails, Same!File,
    Same!thread, Same!transaction, Same!events, Same!mainboard, Same!ThisFile,
    Same!Sorted, Same!Cardinality, P2!DL!RunnerFinishes, P2!DL!Ran, P2!DL!Packet,
    P2!DL!_generate_thumbnails, P2!DL!File, P2!DL!thread, P2!DL!transaction, P2!DL!events,
    P2!DL!mainboard, P2!DL!ThisFile, P2!DL!Sorted, P2!DL!Cardinality
<1> QED BY <1>1, <1>2, <1>3 DEF Same!Next, Same!External, Same!CommandThread,
    Same!ExperimentThread, Same!GraceEnds, Same!LoseTx, Same!LoseRx, Same!SatReceives,
    Same!SatRepeats, Same!SatCommands, Same!SatTurnsOff, Same!dispatch_ack,
    Same!_handle_experiment, Same!_handle_update_last_batch, Same!SetUpdate,
    Same!_handle_turn_off_payload, Same!_drain_tx_then_shutdown, Same!SkipsDuplicate,
    Same!TakesExperiment, Same!UnknownMode, Same!StartsCameras, Same!Captures,
    Same!NoCameras, Same!_downscale_images, Same!_run_inference, Same!CallsBinary,
    Same!BinaryFails, Same!ODFindsNothing, Same!Raises, Same!Marks, Same!FileNotFound,
    Same!ClearData, Same!ClearEvent, Same!Sends, Same!Acked, Same!SendsAgain,
    Same!AckTimesOut, Same!Stops, Same!TakesConfirm, Same!ConfirmTimesOut,
    Same!NothingTaken, Same!SendsOn, Same!Stalls, Same!Succeeds, Same!line,
    Same!mainboard, Same!shared, Same!events, Same!transaction, Same!thumbnails,
    Same!thread, Same!Closed, Same!Answer, Same!File, Same!None, Same!Handling,
    Same!Taken, Same!_is_duplicate, Same!Ran, Same!Stays, Same!Silent, Same!Over,
    Same!Step, Same!Fails, Same!Packet, Same!Here, Same!Await, Same!After, Same!Fragment,
    Same!Left, Same!ThisFile, Same!Confirmed, P2!DL!Next, P2!DL!External,
    P2!DL!CommandThread, P2!DL!ExperimentThread, P2!DL!GraceEnds, P2!DL!LoseTx,
    P2!DL!LoseRx, P2!DL!SatReceives, P2!DL!SatRepeats, P2!DL!SatCommands,
    P2!DL!SatTurnsOff, P2!DL!dispatch_ack, P2!DL!_handle_experiment,
    P2!DL!_handle_update_last_batch, P2!DL!SetUpdate, P2!DL!_handle_turn_off_payload,
    P2!DL!_drain_tx_then_shutdown, P2!DL!SkipsDuplicate, P2!DL!TakesExperiment,
    P2!DL!UnknownMode, P2!DL!StartsCameras, P2!DL!Captures, P2!DL!NoCameras,
    P2!DL!_downscale_images, P2!DL!_run_inference, P2!DL!CallsBinary, P2!DL!BinaryFails,
    P2!DL!ODFindsNothing, P2!DL!Raises, P2!DL!Marks, P2!DL!FileNotFound, P2!DL!ClearData,
    P2!DL!ClearEvent, P2!DL!Sends, P2!DL!Acked, P2!DL!SendsAgain, P2!DL!AckTimesOut,
    P2!DL!Stops, P2!DL!TakesConfirm, P2!DL!ConfirmTimesOut, P2!DL!NothingTaken,
    P2!DL!SendsOn, P2!DL!Stalls, P2!DL!Succeeds, P2!DL!line, P2!DL!mainboard,
    P2!DL!shared, P2!DL!events, P2!DL!transaction, P2!DL!thumbnails, P2!DL!thread,
    P2!DL!Closed, P2!DL!Answer, P2!DL!File, P2!DL!None, P2!DL!Handling, P2!DL!Taken,
    P2!DL!_is_duplicate, P2!DL!Ran, P2!DL!Stays, P2!DL!Silent, P2!DL!Over, P2!DL!Step,
    P2!DL!Fails, P2!DL!Packet, P2!DL!Here, P2!DL!Await, P2!DL!After, P2!DL!Fragment,
    P2!DL!Left, P2!DL!ThisFile, P2!DL!Confirmed

LEMMA RepeatingNext == Repeating!Next <=> P3!DL!Next
<1>1. Repeating!SatConfirms <=> P3!DL!SatConfirms
  BY BurstSame DEF Repeating!SatConfirms, Repeating!Answer, Repeating!shared,
    Repeating!events, Repeating!thread, Repeating!transaction, Repeating!thumbnails,
    P3!DL!SatConfirms, P3!DL!Answer, P3!DL!shared, P3!DL!events, P3!DL!thread,
    P3!DL!transaction, P3!DL!thumbnails
<1>2. Repeating!SendsBurst <=> P3!DL!SendsBurst
  BY BurstSame DEF Repeating!SendsBurst, Repeating!Here, Repeating!Fragment,
    Repeating!events, Repeating!thread, Repeating!thumbnails, Repeating!mainboard,
    Repeating!ThisFile, P3!DL!SendsBurst, P3!DL!Here, P3!DL!Fragment, P3!DL!events,
    P3!DL!thread, P3!DL!thumbnails, P3!DL!mainboard, P3!DL!ThisFile
<1>3. Repeating!RunnerFinishes <=> P3!DL!RunnerFinishes
  BY DEF Repeating!RunnerFinishes, Repeating!Ran, Repeating!Packet,
    Repeating!_generate_thumbnails, Repeating!File, Repeating!thread,
    Repeating!transaction, Repeating!events, Repeating!mainboard, Repeating!ThisFile,
    Repeating!Sorted, Repeating!Cardinality, P3!DL!RunnerFinishes, P3!DL!Ran,
    P3!DL!Packet, P3!DL!_generate_thumbnails, P3!DL!File, P3!DL!thread, P3!DL!transaction,
    P3!DL!events, P3!DL!mainboard, P3!DL!ThisFile, P3!DL!Sorted, P3!DL!Cardinality
<1> QED BY <1>1, <1>2, <1>3 DEF Repeating!Next, Repeating!External,
    Repeating!CommandThread, Repeating!ExperimentThread, Repeating!GraceEnds,
    Repeating!LoseTx, Repeating!LoseRx, Repeating!SatReceives, Repeating!SatRepeats,
    Repeating!SatCommands, Repeating!SatTurnsOff, Repeating!dispatch_ack,
    Repeating!_handle_experiment, Repeating!_handle_update_last_batch,
    Repeating!SetUpdate, Repeating!_handle_turn_off_payload,
    Repeating!_drain_tx_then_shutdown, Repeating!SkipsDuplicate,
    Repeating!TakesExperiment, Repeating!UnknownMode, Repeating!StartsCameras,
    Repeating!Captures, Repeating!NoCameras, Repeating!_downscale_images,
    Repeating!_run_inference, Repeating!CallsBinary, Repeating!BinaryFails,
    Repeating!ODFindsNothing, Repeating!Raises, Repeating!Marks, Repeating!FileNotFound,
    Repeating!ClearData, Repeating!ClearEvent, Repeating!Sends, Repeating!Acked,
    Repeating!SendsAgain, Repeating!AckTimesOut, Repeating!Stops, Repeating!TakesConfirm,
    Repeating!ConfirmTimesOut, Repeating!NothingTaken, Repeating!SendsOn,
    Repeating!Stalls, Repeating!Succeeds, Repeating!line, Repeating!mainboard,
    Repeating!shared, Repeating!events, Repeating!transaction, Repeating!thumbnails,
    Repeating!thread, Repeating!Closed, Repeating!Answer, Repeating!File, Repeating!None,
    Repeating!Handling, Repeating!Taken, Repeating!_is_duplicate, Repeating!Ran,
    Repeating!Stays, Repeating!Silent, Repeating!Over, Repeating!Step, Repeating!Fails,
    Repeating!Packet, Repeating!Here, Repeating!Await, Repeating!After,
    Repeating!Fragment, Repeating!Left, Repeating!ThisFile, Repeating!Confirmed,
    P3!DL!Next, P3!DL!External, P3!DL!CommandThread, P3!DL!ExperimentThread,
    P3!DL!GraceEnds, P3!DL!LoseTx, P3!DL!LoseRx, P3!DL!SatReceives, P3!DL!SatRepeats,
    P3!DL!SatCommands, P3!DL!SatTurnsOff, P3!DL!dispatch_ack, P3!DL!_handle_experiment,
    P3!DL!_handle_update_last_batch, P3!DL!SetUpdate, P3!DL!_handle_turn_off_payload,
    P3!DL!_drain_tx_then_shutdown, P3!DL!SkipsDuplicate, P3!DL!TakesExperiment,
    P3!DL!UnknownMode, P3!DL!StartsCameras, P3!DL!Captures, P3!DL!NoCameras,
    P3!DL!_downscale_images, P3!DL!_run_inference, P3!DL!CallsBinary, P3!DL!BinaryFails,
    P3!DL!ODFindsNothing, P3!DL!Raises, P3!DL!Marks, P3!DL!FileNotFound, P3!DL!ClearData,
    P3!DL!ClearEvent, P3!DL!Sends, P3!DL!Acked, P3!DL!SendsAgain, P3!DL!AckTimesOut,
    P3!DL!Stops, P3!DL!TakesConfirm, P3!DL!ConfirmTimesOut, P3!DL!NothingTaken,
    P3!DL!SendsOn, P3!DL!Stalls, P3!DL!Succeeds, P3!DL!line, P3!DL!mainboard,
    P3!DL!shared, P3!DL!events, P3!DL!transaction, P3!DL!thumbnails, P3!DL!thread,
    P3!DL!Closed, P3!DL!Answer, P3!DL!File, P3!DL!None, P3!DL!Handling, P3!DL!Taken,
    P3!DL!_is_duplicate, P3!DL!Ran, P3!DL!Stays, P3!DL!Silent, P3!DL!Over, P3!DL!Step,
    P3!DL!Fails, P3!DL!Packet, P3!DL!Here, P3!DL!Await, P3!DL!After, P3!DL!Fragment,
    P3!DL!Left, P3!DL!ThisFile, P3!DL!Confirmed

LEMMA DownlinkInits ==
  /\ Different!Init => P1!DL!Init
  /\ Same!Init => P2!DL!Init
  /\ Repeating!Init => P3!DL!Init
  BY DEF
    Different!Init, Different!Closed, Different!File, Different!None, P1!DL!Init,
    P1!DL!Closed, P1!DL!File, P1!DL!None, Same!Init, Same!Closed, Same!File, Same!None,
    P2!DL!Init, P2!DL!Closed, P2!DL!File, P2!DL!None, Repeating!Init, Repeating!Closed,
    Repeating!File, Repeating!None, P3!DL!Init, P3!DL!Closed, P3!DL!File, P3!DL!None

LEMMA DownlinkKept ==
  UNCHANGED downlink => UNCHANGED P1!DL!vars /\ UNCHANGED P2!DL!vars /\ UNCHANGED P3!DL!vars
  BY DEF
    downlink,
    P1!DL!vars, P1!DL!line, P1!DL!mainboard, P1!DL!shared, P1!DL!events, P1!DL!thread,
    P1!DL!transaction, P1!DL!thumbnails, P2!DL!vars, P2!DL!line, P2!DL!mainboard,
    P2!DL!shared, P2!DL!events, P2!DL!thread, P2!DL!transaction, P2!DL!thumbnails,
    P3!DL!vars, P3!DL!line, P3!DL!mainboard, P3!DL!shared, P3!DL!events, P3!DL!thread,
    P3!DL!transaction, P3!DL!thumbnails

\* Where confirmations are repeated, only what they cannot spoil.
DownlinkInv ==
  /\ instance = "same" => P2!DownlinkInv
  /\ instance = "repeating" => P3!Orderly
  /\ instance \notin {"same", "repeating"} => P1!DownlinkInv

LEMMA DownlinkBegins == MCInit => DownlinkInv
<1> SUFFICES ASSUME MCInit PROVE DownlinkInv
  OBVIOUS
<1>1. /\ instance = "same" => P2!DL!Init
      /\ instance = "repeating" => P3!DL!Init
      /\ instance \notin {"same", "repeating"} => P1!DL!Init
  BY DownlinkInits DEF MCInit, InitOf
<1>2. P2!DL!Init => P2!DownlinkInv
  BY DownlinkAssumed, P2!DownlinkInitInv
<1>3. P1!DL!Init => P1!DownlinkInv
  BY DownlinkAssumed, P1!DownlinkInitInv
<1>4. P3!DL!Init => P3!Orderly
  BY DownlinkAssumed, P3!DownlinkInitInv DEF P3!DownlinkInv
<1> QED BY <1>1, <1>2, <1>3, <1>4 DEF DownlinkInv

LEMMA DownlinkSteps ==
  ASSUME [MCNext]_all
  PROVE /\ instance' = instance
        /\ instance = "same" => [P2!DL!Next]_(P2!DL!vars)
        /\ instance = "repeating" => [P3!DL!Next]_(P3!DL!vars)
        /\ instance \notin {"same", "repeating"} => [P1!DL!Next]_(P1!DL!vars)
<1>1. CASE MCNext
  BY <1>1, DifferentNext, SameNext, RepeatingNext, DownlinkKept DEF MCNext
<1>2. CASE UNCHANGED all
  BY <1>2, DownlinkKept DEF all
<1> QED BY <1>1, <1>2

LEMMA DownlinkHolds == DownlinkInv /\ [MCNext]_all => DownlinkInv'
<1> SUFFICES ASSUME DownlinkInv, [MCNext]_all PROVE DownlinkInv'
  OBVIOUS
<1>1. instance = "same" => P2!DownlinkInv'
  BY DownlinkSteps, DownlinkAssumed, P2!DownlinkInvNext DEF DownlinkInv
<1>2. instance \notin {"same", "repeating"} => P1!DownlinkInv'
  BY DownlinkSteps, DownlinkAssumed, P1!DownlinkInvNext DEF DownlinkInv
<1>3. instance = "repeating" => P3!Orderly'
  BY DownlinkSteps, DownlinkAssumed, P3!OrderlyNext DEF DownlinkInv
<1>4. instance' = instance
  BY DownlinkSteps
<1> QED BY <1>1, <1>2, <1>3, <1>4 DEF DownlinkInv

\* What send_file reports as sent and what the dataset counts as sent is on the
\* mainboard, in every instance but the one that repeats confirmations.
THEOREM SuccessIsReceivedHolds == MCSpec => []SuccessIsReceived
<1>1. DownlinkInv => SuccessIsReceived
  <2>1. P2!DownlinkInv => Same!SuccessIsReceived
    BY P2!DownlinkInvImplies DEF P2!DL!SuccessIsReceived, P2!DL!Complete, P2!DL!File,
      Same!SuccessIsReceived, Same!Complete, Same!File
  <2>2. P1!DownlinkInv => Different!SuccessIsReceived
    BY P1!DownlinkInvImplies DEF
      P1!DL!SuccessIsReceived, P1!DL!Complete, P1!DL!File, Different!SuccessIsReceived,
      Different!Complete, Different!File
  <2> QED BY <2>1, <2>2 DEF DownlinkInv, SuccessIsReceived
<1> QED BY <1>1, DownlinkBegins, DownlinkHolds, PTL DEF MCSpec

-----------------------------------------------------------------------------
(* The types of all *)

\* Each variable of the four modules keeps its type in each instance of the run.
THEOREM AllTypesHold == MCSpec => []AllTypesOK
<1> DEFINE Whatever == TypeOK /\ Whole /\ ProcessingInv /\ OrbitInv /\ DownlinkInv
<1>1. MCInit => Whatever
  <2>1. MCInit => Init
    BY DEF MCInit, InitOf
  <2> QED BY <2>1, TypeInit, WholeInit, ProcessingBegins, OrbitBegins, DownlinkBegins
<1>2. Whatever /\ [MCNext]_all => Whatever'
  BY TelemetryHolds, ProcessingHolds, OrbitHolds, DownlinkHolds
<1>3. Whatever => AllTypesOK
  <2>1. P1!FP!TypeOK => TwoVersions!TypeOK
    BY DEF
      P1!FP!TypeOK, P1!FP!Metadata, P1!FP!Stages, P1!FP!None, P1!FP!NotPrefiltered,
      P1!FP!LDNeted, TwoVersions!TypeOK, TwoVersions!Metadata, TwoVersions!Stages,
      TwoVersions!None, TwoVersions!NotPrefiltered, TwoVersions!LDNeted
  <2>2. P2!FP!TypeOK => TwoImages!TypeOK
    BY DEF
      P2!FP!TypeOK, P2!FP!Metadata, P2!FP!Stages, P2!FP!None, P2!FP!NotPrefiltered,
      P2!FP!LDNeted, TwoImages!TypeOK, TwoImages!Metadata, TwoImages!Stages,
      TwoImages!None, TwoImages!NotPrefiltered, TwoImages!LDNeted
  <2>3. P3!FP!TypeOK => Full!TypeOK
    BY DEF
      P3!FP!TypeOK, P3!FP!Metadata, P3!FP!Stages, P3!FP!None, P3!FP!NotPrefiltered,
      P3!FP!LDNeted, Full!TypeOK, Full!Metadata, Full!Stages, Full!None,
      Full!NotPrefiltered, Full!LDNeted
  <2>4. P1!OrbitInv => Quiet!TypeOK
    <3>1. P1!OrbitInv => P1!TypeOK
      BY OrbitAssumed, P1!OrbitInvImplies
    <3> QED
      BY <3>1 DEF
        P1!TypeOK, P1!Steps, P1!Unready, P1!Processed, P1!Rows, Quiet!TypeOK, Quiet!Steps,
        Quiet!Unready, Quiet!Processed, Quiet!Rows
  <2>5. P2!OrbitInv => Growing!TypeOK
    <3>1. P2!OrbitInv => P2!TypeOK
      BY OrbitAssumed, P2!OrbitInvImplies
    <3> QED
      BY <3>1 DEF
        P2!TypeOK, P2!Steps, P2!Unready, P2!Processed, P2!Rows, Growing!TypeOK,
        Growing!Steps, Growing!Unready, Growing!Processed, Growing!Rows
  <2>6. P1!DownlinkInv => Different!TypeOK
    BY P1!DownlinkInvImplies DEF
      P1!DL!TypeOK, P1!DL!File, P1!DL!Awaits, Different!TypeOK, Different!File,
      Different!Awaits
  <2>7. P2!DownlinkInv => Same!TypeOK
    BY P2!DownlinkInvImplies DEF
      P2!DL!TypeOK, P2!DL!File, P2!DL!Awaits, Same!TypeOK, Same!File, Same!Awaits
  <2>8. P3!Orderly => Repeating!TypeOK
    BY DEF P3!Orderly, P3!DownlinkTyped,
      P3!DL!TypeOK, P3!DL!File, P3!DL!Awaits, Repeating!TypeOK, Repeating!File,
      Repeating!Awaits
  <2> QED
    BY <2>1, <2>2, <2>3, <2>4, <2>5, <2>6, <2>7, <2>8
    DEF AllTypesOK, ProcessingInv, OrbitInv, DownlinkInv
<1> QED BY <1>1, <1>2, <1>3, PTL DEF MCSpec

=============================================================================
