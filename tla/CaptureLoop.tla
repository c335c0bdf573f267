----------------------------- MODULE CaptureLoop -----------------------------
(***************************************************************************)
(* The capture thread of FSW-Payload/src/vision/camera_manager.cpp and the *)
(* settings that other threads change under it.  One turn of RunLoop reads *)
(* the mode, saves frames (which includes inference and may take seconds), *)
(* publishes their IDs, and counts them; each of these is a step, because  *)
(* every setting can change in between.                                    *)
(*                                                                         *)
(* A frame is known by the folder it was stored in, a mode by the dataset  *)
(* that asked for it.  The module has no specification of its own:         *)
(* DatasetCapture extends it.                                              *)
(***************************************************************************)
EXTENDS Naturals, Sequences

CONSTANTS Datasets,        \* datasets, which are also the START commands
          None,            \* IDLE, IMAGES_FOLDER, the full mask, a null pointer
          DefaultFrames,   \* DEFAULT_PERIODIC_FRAMES_TO_CAPTURE
          NUM_CAMERAS,
          Uncreatable,     \* folders that may be missing, and then cannot be made
          MaxTurns         \* bound on the captures that RunLoop begins

ASSUME CaptureAssumption ==
  /\ None \notin Datasets
  /\ DefaultFrames \in Nat \ {0}
  /\ NUM_CAMERAS \in Nat \ {0}
  /\ Uncreatable \subseteq Datasets \cup {None}
  /\ MaxTurns \in Nat

VARIABLES mode,                         \* capture_mode
          folder,                       \* storage_folder
          periodic_frames_captured,
          periodic_frames_to_capture,
          buffer_frame_ids,             \* IDs that nobody has drained
          cam,                          \* where RunLoop is
          saved,                        \* new_ids of SaveLatestFrames
          turns                         \* captures begun so far

camVars == <<mode, folder, periodic_frames_captured, periodic_frames_to_capture,
             buffer_frame_ids, cam, saved, turns>>

MaybeDataset == Datasets \cup {None}

CaptureInit ==
  /\ mode = None
  /\ folder = None
  /\ periodic_frames_captured = 0
  /\ periodic_frames_to_capture = DefaultFrames
  /\ buffer_frame_ids = <<>>
  /\ cam = "idle"
  /\ saved = <<>>
  /\ turns = 0

CamGoto(from, to) == cam = from /\ cam' = to

-----------------------------------------------------------------------------
(* RunLoop *)

\* The mode that was read is periodic, and a capture is due.
CamBegin ==
  /\ CamGoto("idle", "save")
  /\ mode # None
  /\ turns < MaxTurns
  /\ turns' = turns + 1
  /\ UNCHANGED <<mode, folder, periodic_frames_captured, periodic_frames_to_capture,
                 buffer_frame_ids, saved>>

\* SaveLatestFrames stores the frame of one more camera, in the folder of
\* that moment.
CamSave ==
  /\ cam = "save"
  /\ Len(saved) < NUM_CAMERAS
  /\ saved' = Append(saved, folder)
  /\ UNCHANGED <<mode, folder, periodic_frames_captured, periodic_frames_to_capture,
                 buffer_frame_ids, cam, turns>>

\* No other camera has a new frame that is worth keeping: publish what was
\* stored, under buffer_frame_ids_m.
CamPublish ==
  /\ CamGoto("save", "count")
  /\ buffer_frame_ids' = buffer_frame_ids \o saved
  /\ UNCHANGED <<mode, folder, periodic_frames_captured, periodic_frames_to_capture,
                 saved, turns>>

AtMost(n, bound) == IF n <= bound THEN n ELSE bound

\* The counter saturates at the number of frames to capture.
CamCount ==
  /\ CamGoto("count", "check")
  /\ periodic_frames_captured' =
       AtMost(periodic_frames_captured + Len(saved), periodic_frames_to_capture)
  /\ saved' = <<>>
  /\ UNCHANGED <<mode, folder, periodic_frames_to_capture, buffer_frame_ids, turns>>

CamCheck ==
  /\ CamGoto("check", IF periodic_frames_captured >= periodic_frames_to_capture
                      THEN "finish" ELSE "idle")
  /\ UNCHANGED <<mode, folder, periodic_frames_captured, periodic_frames_to_capture,
                 buffer_frame_ids, saved, turns>>

\* "Periodic capture completed": back to IDLE...
CamFinish ==
  /\ CamGoto("finish", "defaults")
  /\ mode' = None
  /\ UNCHANGED <<folder, periodic_frames_captured, periodic_frames_to_capture,
                 buffer_frame_ids, saved, turns>>

\* ...and, by then perhaps over a new dataset's settings, to the defaults.
CamDefaults ==
  /\ CamGoto("defaults", "idle")
  /\ periodic_frames_captured' = 0
  /\ periodic_frames_to_capture' = DefaultFrames
  /\ UNCHANGED <<mode, folder, buffer_frame_ids, saved, turns>>

CamStep ==
  CamBegin \/ CamSave \/ CamPublish \/ CamCount \/ CamCheck \/ CamFinish \/ CamDefaults

-----------------------------------------------------------------------------
(* What other threads do to the camera manager *)

SetCaptureMode(m) ==
  /\ mode' = m
  /\ UNCHANGED <<folder, periodic_frames_captured, periodic_frames_to_capture,
                 buffer_frame_ids, cam, saved, turns>>

\* A folder that is missing is made first; when that fails the old one stays,
\* and the caller is not told.
SetStorageFolder(f) == folder' = f \/ (f \in Uncreatable /\ folder' = folder)

\* ResetCaptureState and SetStorageFolder(f).
ResetAndStoreIn(f) ==
  /\ periodic_frames_captured' = 0
  /\ periodic_frames_to_capture' = DefaultFrames
  /\ buffer_frame_ids' = <<>>
  /\ SetStorageFolder(f)
  /\ UNCHANGED <<mode, cam, saved, turns>>

\* SetStorageFolder(f) and SetPeriodicFramesToCapture(n).
CaptureInto(f, n) ==
  /\ SetStorageFolder(f)
  /\ periodic_frames_to_capture' = n
  /\ UNCHANGED <<mode, periodic_frames_captured, buffer_frame_ids, cam, saved, turns>>

DrainBufferFrameIDs ==
  /\ buffer_frame_ids' = <<>>
  /\ UNCHANGED <<mode, folder, periodic_frames_captured, periodic_frames_to_capture,
                 cam, saved, turns>>
=============================================================================
