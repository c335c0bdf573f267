-------------------------------- MODULE Camera --------------------------------
(***************************************************************************)
(* One camera: class Camera of FSW-Payload/src/vision/camera.cpp.  Enable  *)
(* and Disable take no lock; workers that run commands, the collection     *)
(* threads of the datasets and the health check of CameraManager call      *)
(* them.  The capture thread of the camera fills buffer_frame, and RunLoop *)
(* of CameraManager takes frames out of it (SaveLatestFrames).             *)
(*                                                                         *)
(* A frame is the number of the grab that its image and its timestamp come *)
(* from.  Frame::Update writes the two in turn, and the copy constructor   *)
(* of Frame reads them in turn.                                            *)
(***************************************************************************)
EXTENDS Naturals, Sequences

CONSTANTS Callers, Op,  \* calls of Enable and Disable
          InTurn,       \* a call starts when the one before it has returned
          Settled,      \* ... and when the capture thread has set its flag
          MaxGrabs,     \* bound on the frames that the sensor delivers
          MaxTaken      \* bound on the frames that the reader takes

CameraAssumption ==
  /\ Op \in [Callers -> {"Enable", "Disable"}]
  /\ InTurn \in BOOLEAN /\ Settled \in BOOLEAN
  /\ MaxGrabs \in Nat /\ MaxTaken \in Nat

VARIABLES cam_status, last_error, capture_loop_flag, _new_frame_flag,
          cap,          \* the capture pipeline is open
          capture_thread,\* where the thread is; "none": not joinable
          img, stamp,   \* buffer_frame
          grabs,        \* frames delivered so far
          pc,           \* of the calls
          reader, copy, \* of SaveLatestFrames, and the frame it builds
          taken,        \* frames it has taken
          terminated    \* std::terminate was called, or a join was undefined

thread == <<capture_thread, img, stamp, grabs, last_error>>
taking == <<reader, copy, taken>>
vars == <<cam_status, capture_loop_flag, _new_frame_flag, cap, thread, pc,
          taking, terminated>>

NoCopy == [img |-> 0, stamp |-> 0]

Init ==
  /\ cam_status = "INACTIVE"
  /\ last_error = "NO_ERROR"
  /\ capture_loop_flag = FALSE
  /\ _new_frame_flag = FALSE
  /\ cap = FALSE
  /\ capture_thread = "none"
  /\ img = 0 /\ stamp = 0 /\ grabs = 0
  /\ pc = [c \in Callers |-> "sent"]
  /\ reader = "idle" /\ copy = NoCopy /\ taken = <<>>
  /\ terminated = FALSE

Goto(c, from, to) == pc[c] = from /\ pc' = [pc EXCEPT ![c] = to]

InCall == {c \in Callers : pc[c] \notin {"sent", "returned"}}
MayCall ==
  /\ ~terminated
  /\ InTurn => InCall = {}
  /\ Settled => capture_thread # "created"

-----------------------------------------------------------------------------
(* Enable *)

EnableAlready(c) ==
  /\ Op[c] = "Enable" /\ MayCall
  /\ cam_status = "ACTIVE"
  /\ Goto(c, "sent", "returned")
  /\ UNCHANGED <<cam_status, capture_loop_flag, _new_frame_flag, cap, thread, taking, terminated>>

\* The pipeline opens, or it does not.
EnableOpens(c) ==
  /\ Op[c] = "Enable" /\ MayCall
  /\ cam_status # "ACTIVE"
  /\ \E ok \in BOOLEAN :
       /\ cap' = ok
       /\ Goto(c, "sent", IF ok THEN "warm_up" ELSE "failed")
  /\ UNCHANGED <<cam_status, capture_loop_flag, _new_frame_flag, thread, taking, terminated>>

\* Five dummy frames: the camera becomes active when one of them is valid.
WarmUp(c) ==
  /\ \/ /\ Goto(c, "warm_up", "spawn")
        /\ cam_status' = "ACTIVE"
     \/ /\ Goto(c, "warm_up", "failed")
        /\ UNCHANGED cam_status
  /\ ~terminated
  /\ UNCHANGED <<capture_loop_flag, _new_frame_flag, cap, thread, taking, terminated>>

\* The assignment of a new thread to one that is joinable ends the program.
Spawn(c) ==
  /\ ~terminated
  /\ Goto(c, "spawn", "returned")
  /\ IF capture_thread = "none"
       THEN capture_thread' = "created" /\ UNCHANGED terminated
       ELSE terminated' = TRUE /\ UNCHANGED capture_thread
  /\ UNCHANGED <<cam_status, last_error, capture_loop_flag, _new_frame_flag, cap, img, stamp, grabs, taking>>

EnableFails_KeepsOpen(c) ==
  /\ ~terminated
  /\ Goto(c, "failed", "returned")
  /\ last_error' = "INITIALIZATION_FAILED"
  /\ cam_status' = "INACTIVE"
  /\ UNCHANGED <<capture_loop_flag, _new_frame_flag, cap, capture_thread, img, stamp, grabs, taking, terminated>>

EnableFails(c) ==
  /\ ~terminated
  /\ Goto(c, "failed", "returned")
  /\ last_error' = "INITIALIZATION_FAILED"
  /\ cam_status' = "INACTIVE"
  /\ cap' = FALSE
  /\ UNCHANGED <<capture_loop_flag, _new_frame_flag, capture_thread, img, stamp, grabs, taking, terminated>>

-----------------------------------------------------------------------------
(* Disable: StopCaptureLoop, once more when the camera is active, release *)

Stop(c, from, to) ==
  /\ ~terminated
  /\ Goto(c, from, to)
  /\ capture_loop_flag' = FALSE
  /\ UNCHANGED <<cam_status, _new_frame_flag, cap, thread, taking, terminated>>

DisableStops(c) ==
  /\ Op[c] = "Disable" /\ MayCall
  /\ Stop(c, "sent", "join")

\* A thread that is joined twice leaves the program undefined.
Join(c, from, to) ==
  /\ ~terminated
  /\ Goto(c, from, to)
  /\ capture_thread \in {"none", "ended"}
  /\ IF capture_thread = "ended" /\ \E d \in Callers \ {c} : pc[d] \in {"join", "join_again"}
       THEN terminated' \in BOOLEAN
       ELSE UNCHANGED terminated
  /\ capture_thread' = "none"
  /\ UNCHANGED <<cam_status, last_error, capture_loop_flag, _new_frame_flag, cap, img, stamp, grabs, taking>>

DisableJoins(c) == Join(c, "join", "switch")

DisableInactive(c) ==
  /\ ~terminated
  /\ cam_status = "INACTIVE"
  /\ Goto(c, "switch", "returned")
  /\ cap' = FALSE
  /\ UNCHANGED <<cam_status, capture_loop_flag, _new_frame_flag, thread, taking, terminated>>

DisableActive(c) ==
  /\ cam_status = "ACTIVE"
  /\ Stop(c, "switch", "join_again")

DisableJoinsAgain(c) == Join(c, "join_again", "release")

DisableReleases(c) ==
  /\ ~terminated
  /\ Goto(c, "release", "returned")
  /\ cap' = FALSE
  /\ cam_status' = "INACTIVE"
  /\ UNCHANGED <<capture_loop_flag, _new_frame_flag, thread, taking, terminated>>

-----------------------------------------------------------------------------
(* RunCaptureLoop *)

At(from, to) == ~terminated /\ capture_thread = from /\ capture_thread' = to

LoopStarts ==
  /\ At("created", "test")
  /\ capture_loop_flag' = TRUE
  /\ UNCHANGED <<cam_status, last_error, _new_frame_flag, cap, img, stamp, grabs, pc, taking, terminated>>

LoopTests ==
  /\ At("test", IF cam_status = "ACTIVE" /\ capture_loop_flag THEN "grab" ELSE "ended")
  /\ UNCHANGED <<cam_status, last_error, capture_loop_flag, _new_frame_flag, cap, img, stamp, grabs, pc, taking, terminated>>

GrabFails ==
  /\ At("grab", "test")
  /\ _new_frame_flag' = FALSE
  /\ last_error' = "CAPTURE_FAILED"
  /\ UNCHANGED <<cam_status, capture_loop_flag, cap, img, stamp, grabs, pc, taking, terminated>>

\* buffer_frame.Update, under frame_mutex: the image ...
GrabImage ==
  /\ cap /\ grabs < MaxGrabs
  /\ At("grab", "update")
  /\ grabs' = grabs + 1
  /\ img' = grabs + 1
  /\ UNCHANGED <<cam_status, last_error, capture_loop_flag, _new_frame_flag, cap, stamp, pc, taking, terminated>>

\* ... and the timestamp ...
GrabStamp ==
  /\ At("update", "flag")
  /\ stamp' = grabs
  /\ UNCHANGED <<cam_status, last_error, capture_loop_flag, _new_frame_flag, cap, img, grabs, pc, taking, terminated>>

\* ... and then, still under the lock, the flag.
GrabFlag ==
  /\ At("flag", "test")
  /\ _new_frame_flag' = TRUE
  /\ last_error' = "NO_ERROR"
  /\ UNCHANGED <<cam_status, capture_loop_flag, cap, img, stamp, grabs, pc, taking, terminated>>

-----------------------------------------------------------------------------
(* SaveLatestFrames on this camera.  GetBufferFrame holds frame_mutex only *)
(* while it forms the reference that it returns: the copy and the clearing *)
(* of the flag come after it.                                              *)

Reads(from, to) == ~terminated /\ reader = from /\ reader' = to

TakeStarts ==
  /\ cam_status = "ACTIVE" /\ _new_frame_flag
  /\ Len(taken) < MaxTaken
  /\ capture_thread \notin {"update", "flag"}
  /\ Reads("idle", "image")
  /\ UNCHANGED <<cam_status, capture_loop_flag, _new_frame_flag, cap, thread, pc, copy, taken, terminated>>

TakeImage ==
  /\ Reads("image", "stamp")
  /\ copy' = [copy EXCEPT !.img = img]
  /\ UNCHANGED <<cam_status, capture_loop_flag, _new_frame_flag, cap, thread, pc, taken, terminated>>

TakeStamp ==
  /\ Reads("stamp", "flag")
  /\ copy' = [copy EXCEPT !.stamp = stamp]
  /\ UNCHANGED <<cam_status, capture_loop_flag, _new_frame_flag, cap, thread, pc, taken, terminated>>

TakeEnds_KeepsFlag ==
  /\ Reads("flag", "idle")
  /\ taken' = Append(taken, copy)
  /\ UNCHANGED <<cam_status, capture_loop_flag, _new_frame_flag, cap, thread, pc, copy, terminated>>

\* SetOffNewFrameFlag comes after the copy.
TakeEnds ==
  /\ Reads("flag", "idle")
  /\ _new_frame_flag' = FALSE
  /\ taken' = Append(taken, copy)
  /\ UNCHANGED <<cam_status, capture_loop_flag, cap, thread, pc, copy, terminated>>

-----------------------------------------------------------------------------

Call(c) ==
  \/ EnableAlready(c) \/ EnableOpens(c) \/ WarmUp(c) \/ Spawn(c) \/ EnableFails(c)
  \/ DisableStops(c) \/ DisableJoins(c) \/ DisableInactive(c) \/ DisableActive(c)
  \/ DisableJoinsAgain(c) \/ DisableReleases(c)

RunCaptureLoop == LoopStarts \/ LoopTests \/ GrabFails \/ GrabImage \/ GrabStamp \/ GrabFlag
Take == TakeStarts \/ TakeImage \/ TakeStamp \/ TakeEnds

Next == (\E c \in Callers : Call(c)) \/ RunCaptureLoop \/ Take

Spec == Init /\ [][Next]_vars

\* Threads are scheduled; no call has to be made, but one that began goes on.
InProgress(c) == pc[c] # "sent" /\ Call(c)
FairSpec ==
  /\ Spec
  /\ \A c \in Callers : WF_vars(InProgress(c))
  /\ WF_vars(RunCaptureLoop)

-----------------------------------------------------------------------------
(* Properties *)

TypeOK ==
  /\ cam_status \in {"INACTIVE", "ACTIVE"}
  /\ last_error \in {"NO_ERROR", "CAPTURE_FAILED", "INITIALIZATION_FAILED"}
  /\ capture_loop_flag \in BOOLEAN /\ _new_frame_flag \in BOOLEAN /\ cap \in BOOLEAN
  /\ capture_thread \in {"none", "created", "test", "grab", "update", "flag", "ended"}
  /\ img \in 0..MaxGrabs /\ stamp \in 0..MaxGrabs /\ grabs \in 0..MaxGrabs
  /\ pc \in [Callers -> {"sent", "warm_up", "spawn", "failed", "join", "switch",
                         "join_again", "release", "returned"}]
  /\ reader \in {"idle", "image", "stamp", "flag"}
  /\ copy \in [img : 0..MaxGrabs, stamp : 0..MaxGrabs]
  /\ taken \in Seq([img : 0..MaxGrabs, stamp : 0..MaxGrabs])
  /\ terminated \in BOOLEAN

\* Between two calls, an active camera has an open pipeline and a thread that
\* fills its buffer, and an inactive one has neither (Enable, Disable): no
\* failed or repeated call leaves the sensor running or a thread behind.
PowerIsWhole ==
  InCall = {} /\ ~terminated =>
    IF cam_status = "ACTIVE"
      THEN cap /\ capture_thread \notin {"none", "ended"}
      ELSE ~cap /\ capture_thread = "none"

\* However the capture thread overtakes the copy, the frames that are taken never
\* go back, and a frame is taken at most twice, the second time at once after the
\* first: when the copy saw the new timestamp before the flag was set, and cleared
\* the flag before that (SaveLatestFrames, SetOffNewFrameFlag, CaptureFrame).  The
\* names of the stored files are made of these timestamps.
FramesAdvance ==
  \A i, j \in DOMAIN taken : i < j =>
    /\ taken[i].stamp <= taken[j].stamp
    /\ taken[i].stamp = taken[j].stamp => j = i + 1

=============================================================================
