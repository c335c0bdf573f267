------------------------------- MODULE MCOnboard -------------------------------
(***************************************************************************)
(* Telemetry and instances of FrameProcessing, OrbitDetermination and      *)
(* Downlink in one run.  The components run in different processes or at   *)
(* different times, so a behaviour is one of one instance: the others stay *)
(* in their initial states.                                                *)
(***************************************************************************)
EXTENDS Telemetry, Sequences, TLC

VARIABLES instance,
          \* FrameProcessing
          disk, stored, rc_version_, ld_version_, run, todo, result, frame_pc,
          image, frame, rest, landmarks, loads, nets, initialized_, rc_net_,
          loaded,
          \* OrbitDetermination
          jobs, g_od_run_status, g_od_result, frames, csv, step, out, files,
          unread, rewritten, inferred_ld_version, lm_rows, group_starts_vec,
          measurements, od_active,
          active_original_indices, outlier_flags, iteration, residuals,
          \* Downlink
          tx, rx, losses, unsent, sat, received, experiment_queue, stop_event,
          payload_state, ack_event, update_event, update_data, handling, pc, active,
          last_key, in_grace, file, last_file, missing_fragments, batch,
          stalled_rounds, resends, confirm, reported, sent_set, shows

-----------------------------------------------------------------------------
\* "prompt" is Telemetry itself; here a processor may be slow to start, or die.
Delayed == INSTANCE Telemetry WITH Settled <- FALSE

-----------------------------------------------------------------------------
\* One image, two versions of the networks; version 2 has no engine for "r2".
TwoVersions == INSTANCE FrameProcessing
  WITH pc <- frame_pc, Images <- {"i1"}, Regions <- {"r1", "r2"}, Versions <- {1, 2},
       Built <- {<<1, "r1">>, <<1, "r2">>, <<2, "r1">>}, Earthless <- {},
       Kinds <- {"reprocess", "collect"}, Targets <- 1..3, DiskFull <- FALSE

\* Two images, one of which the prefilter rejects.
TwoImages == INSTANCE FrameProcessing
  WITH pc <- frame_pc, Images <- {"i1", "i2"}, Regions <- {"r1"}, Versions <- {1},
       Built <- {<<1, "r1">>}, Earthless <- {"i2"},
       Kinds <- {"reprocess"}, Targets <- 1..3, DiskFull <- FALSE

\* Metadata that cannot be written, and a version without any engine.
Full == INSTANCE FrameProcessing
  WITH pc <- frame_pc, Images <- {"i1"}, Regions <- {"r1"}, Versions <- {1, 2},
       Built <- {<<1, "r1">>}, Earthless <- {},
       Kinds <- {"reprocess", "collect"}, Targets <- 1..3, DiskFull <- TRUE

-----------------------------------------------------------------------------
\* A dataset that is not being collected, of any mixture of models.
Quiet == INSTANCE OrbitDetermination
  WITH active <- od_active, Jobs <- 1, Frames <- 3,
       Marks <- {<<TRUE>>, <<TRUE, TRUE>>, <<FALSE, TRUE>>}, Versions <- {0, 1, 2}, Own <- {},
       OD_MIN_LANDMARK_MEASUREMENTS <- 2, max_od_iterations <- 3,
       Collecting <- FALSE, DiskFull <- FALSE, ThreadFails <- FALSE

\* Two jobs on a dataset that is, with a disk that may be full.
Growing == INSTANCE OrbitDetermination
  WITH active <- od_active, Jobs <- 2, Frames <- 2, Marks <- {<<TRUE, TRUE>>},
       Versions <- {1, 2}, Own <- {2},
       OD_MIN_LANDMARK_MEASUREMENTS <- 1, max_od_iterations <- 2,
       Collecting <- TRUE, DiskFull <- TRUE, ThreadFails <- TRUE

-----------------------------------------------------------------------------
\* Two experiments, of one file each.
Different == INSTANCE Downlink
  WITH Experiments <- {"e1", "e2"}, Key <- "e1" :> "a" @@ "e2" :> "b",
       Runner <- "e1" :> "images" @@ "e2" :> "od", Images <- 0,
       Files <- 1, Fragments <- 3, burst_size <- 2, max_stalled_rounds <- 2,
       MaxLosses <- 1, MaxResends <- 1, Repeats <- FALSE

\* Two experiments on a dataset, repetitions of one command, with thumbnails.
Same == INSTANCE Downlink
  WITH Experiments <- {"e1", "e2"}, Key <- "e1" :> "a" @@ "e2" :> "a",
       Runner <- "e1" :> "processing" @@ "e2" :> "processing", Images <- 1,
       Files <- 2, Fragments <- 2, burst_size <- 2, max_stalled_rounds <- 1,
       MaxLosses <- 1, MaxResends <- 1, Repeats <- FALSE

\* A mainboard that repeats its confirmations.
Repeating == INSTANCE Downlink
  WITH Experiments <- {"e1"}, Key <- "e1" :> "a", Runner <- "e1" :> "collection", Images <- 0,
       Files <- 1, Fragments <- 3, burst_size <- 2, max_stalled_rounds <- 2,
       MaxLosses <- 1, MaxResends <- 0, Repeats <- TRUE

-----------------------------------------------------------------------------
ASSUME FrameProcessingInstances ==
  /\ TwoVersions!FrameProcessingAssumption
  /\ TwoImages!FrameProcessingAssumption
  /\ Full!FrameProcessingAssumption
ASSUME ODInstances == Quiet!ODAssumption /\ Growing!ODAssumption
ASSUME DownlinkInstances ==
  Different!DownlinkAssumption /\ Same!DownlinkAssumption /\ Repeating!DownlinkAssumption

telemetry == <<process, buffer, sem, shared, reader, linked, tm_frame, counter>>
frameprocessing == <<disk, stored, rc_version_, ld_version_, run, todo, result, frame_pc,
                     image, frame, rest, landmarks, loads, nets, initialized_, rc_net_,
                     loaded>>
od == <<jobs, g_od_run_status, g_od_result, frames, csv, step, out, files,
        unread, rewritten, inferred_ld_version, lm_rows, group_starts_vec, measurements, od_active,
        active_original_indices, outlier_flags, iteration, residuals>>
downlink == <<tx, rx, losses, unsent, sat, received, experiment_queue, stop_event,
              payload_state, ack_event, update_event, update_data, handling, pc, active,
              last_key, in_grace, file, last_file, missing_fragments, batch,
              stalled_rounds, resends, confirm, reported, sent_set, shows>>
all == <<instance, telemetry, frameprocessing, od, downlink>>

InitOf(i) ==
  /\ Init
  /\ i \in {"prompt", "delayed"} \/ sem = "absent"
  /\ CASE i = "images" -> TwoImages!Init
       [] i = "full" -> Full!Init
       [] OTHER -> TwoVersions!Init
  /\ i \in {"versions", "images", "full"} \/ (rc_version_ = 1 /\ ld_version_ = 1)
  /\ IF i = "quiet" THEN Quiet!Init ELSE Growing!Init
  /\ i \in {"quiet", "growing"} \/ \A f \in DOMAIN frames: frames[f].text = "none"
  /\ CASE i = "same" -> Same!Init
       [] i = "repeating" -> Repeating!Init
       [] OTHER -> Different!Init

MCInit ==
  \E i \in {"prompt", "delayed", "versions", "images", "full", "quiet", "growing",
            "different", "same", "repeating"} :
    instance = i /\ InitOf(i)

MCNext ==
  /\ \/ instance = "prompt" /\ Next /\ UNCHANGED <<frameprocessing, od, downlink>>
     \/ instance = "delayed" /\ Delayed!Next /\ UNCHANGED <<frameprocessing, od, downlink>>
     \/ instance = "versions" /\ TwoVersions!Next /\ UNCHANGED <<telemetry, od, downlink>>
     \/ instance = "images" /\ TwoImages!Next /\ UNCHANGED <<telemetry, od, downlink>>
     \/ instance = "full" /\ Full!Next /\ UNCHANGED <<telemetry, od, downlink>>
     \/ instance = "quiet" /\ Quiet!Next /\ UNCHANGED <<telemetry, frameprocessing, downlink>>
     \/ instance = "growing" /\ Growing!Next /\ UNCHANGED <<telemetry, frameprocessing, downlink>>
     \/ instance = "different" /\ Different!Next /\ UNCHANGED <<telemetry, frameprocessing, od>>
     \/ instance = "same" /\ Same!Next /\ UNCHANGED <<telemetry, frameprocessing, od>>
     \/ instance = "repeating" /\ Repeating!Next /\ UNCHANGED <<telemetry, frameprocessing, od>>
  /\ UNCHANGED instance

MCSpec ==
  /\ MCInit /\ [][MCNext]_all
  /\ WF_telemetry(instance = "prompt" /\ RunService)
  /\ WF_telemetry(instance = "prompt" /\ Starting)

\* The downlink alone, to a mainboard that repeats its confirmations.
RepeatingSpec == instance = "repeating" /\ InitOf("repeating") /\ [][MCNext]_all

-----------------------------------------------------------------------------
\* The type invariants of the four modules.
AllTypesOK ==
  /\ TypeOK
  /\ CASE instance = "images" -> TwoImages!TypeOK
       [] instance = "full" -> Full!TypeOK
       [] OTHER -> TwoVersions!TypeOK
  /\ IF instance = "quiet" THEN Quiet!TypeOK ELSE Growing!TypeOK
  /\ CASE instance = "same" -> Same!TypeOK
       [] instance = "repeating" -> Repeating!TypeOK
       [] OTHER -> Different!TypeOK

\* ProcessIsRestarted for a processor that lives to open its semaphore.
PromptlyRestarted == (instance = "prompt" /\ process = "none") ~> (process # "none")

\* MetadataIsHonest in the three instances.
MetadataIsHonest ==
  IF instance = "images" THEN TwoImages!MetadataIsHonest ELSE TwoVersions!MetadataIsHonest

\* ReprocessedIsCurrent where the metadata can be written.
ReprocessedIsCurrent ==
  CASE instance = "images" -> TwoImages!ReprocessedIsCurrent
    [] instance = "full" -> TRUE
    [] OTHER -> TwoVersions!ReprocessedIsCurrent

\* OneModel, in finished datasets and in one being collected and reprocessed.
OneModel == Quiet!OneModel

\* RejectionKeepsRows, also for rows lost on a full disk.
RejectionKeepsRows == Quiet!RejectionKeepsRows

\* SuccessIsReceived, with packets lost, sent again and late.
SuccessIsReceived ==
  CASE instance = "same" -> Same!SuccessIsReceived
    [] instance = "repeating" -> TRUE
    [] OTHER -> Different!SuccessIsReceived

\* SuccessIsReceived, when a confirmation may also be repeated.
SuccessDespiteRepeats == instance = "repeating" => Repeating!SuccessIsReceived
=============================================================================
