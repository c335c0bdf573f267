----------------------------- MODULE CameraImuProofs -----------------------------
(***************************************************************************)
(* Proofs about Camera, for any calls of Enable and Disable and any number *)
(* of frames; about CameraManager, for any cameras, threads and kinds of   *)
(* capture; and about Imu, for any datasets, collection modes and numbers  *)
(* of samples.                                                             *)
(***************************************************************************)
EXTENDS Camera, FiniteSetTheorems, SequenceTheorems, WellFoundedInduction, TLAPS

CONSTANTS Cams, Enabled, Broken, Erring, Workers, Kind, Want, Mode, Target,
          CommandsInTurn

VARIABLES active, mask, capture_mode, loop_flag, display_flag,
          auto_disable_after_capture, to_capture, captured, manager_pc, ret, left,
          before, expected, lmode, saved, complete, late, lost

M == INSTANCE CameraManager WITH pc <- manager_pc, InTurn <- CommandsInTurn

\* Of Imu.
CONSTANTS Datasets, NoFile, Wanted, DatasetsInTurn, Faults, Telemetry, MaxSamples

VARIABLES state, collection_mode, log_file, ofs, i2c_mutex, pointer, io, power, imu_pc,
          failed, samples, mixed, asleep, missed

I == INSTANCE Imu WITH pc <- imu_pc, InTurn <- DatasetsInTurn

-----------------------------------------------------------------------------
(* Types *)

Frames == [img : 0..MaxGrabs, stamp : 0..MaxGrabs]

LEMMA TypeInit == CameraAssumption /\ Init => TypeOK
<1> SUFFICES ASSUME CameraAssumption, Init PROVE TypeOK
  OBVIOUS
<1>1. 0 \in 0..MaxGrabs
  BY DEF CameraAssumption
<1>2. copy \in Frames
  BY <1>1 DEF Init, NoCopy, Frames
<1>3. taken \in Seq(Frames)
  BY DEF Init
<1> QED BY <1>1, <1>2, <1>3 DEF Init, TypeOK, Frames

\* A call moves through its places and touches no frame.
LEMMA CallType ==
  ASSUME TypeOK, NEW c \in Callers, Call(c)
  PROVE TypeOK'
<1> USE DEF TypeOK, Goto
<1>1. UNCHANGED <<img, stamp, grabs, reader, copy, taken>>
  BY DEF Call, EnableAlready, EnableOpens, WarmUp, Spawn, EnableFails, DisableStops,
         DisableJoins, DisableInactive, DisableActive, DisableJoinsAgain,
         DisableReleases, Stop, Join, thread, taking
<1>2. CASE EnableAlready(c) \/ WarmUp(c)
  BY <1>1, <1>2 DEF EnableAlready, WarmUp, thread
<1>7. CASE EnableOpens(c)
  <2>1. cap' \in BOOLEAN
    BY <1>7 DEF EnableOpens
  <2>2. pc' \in [Callers -> {"sent", "warm_up", "spawn", "failed", "join", "switch",
                            "join_again", "release", "returned"}]
    BY <1>7 DEF EnableOpens
  <2> QED BY <1>1, <1>7, <2>1, <2>2 DEF EnableOpens, thread
<1>3. CASE Spawn(c)
  BY <1>1, <1>3 DEF Spawn
<1>8. CASE EnableFails(c)
  BY <1>1, <1>8 DEF EnableFails
<1>4. CASE DisableStops(c) \/ DisableActive(c)
  BY <1>1, <1>4 DEF DisableStops, DisableActive, Stop, thread
<1>5. CASE DisableJoins(c) \/ DisableJoinsAgain(c)
  BY <1>1, <1>5 DEF DisableJoins, DisableJoinsAgain, Join
<1>6. CASE DisableInactive(c) \/ DisableReleases(c)
  BY <1>1, <1>6 DEF DisableInactive, DisableReleases, thread
<1> QED BY <1>2, <1>3, <1>4, <1>5, <1>6, <1>7, <1>8 DEF Call

LEMMA LoopType ==
  ASSUME CameraAssumption, TypeOK, RunCaptureLoop
  PROVE TypeOK'
<1>1. UNCHANGED <<cam_status, cap, pc, reader, copy, taken, terminated>>
  BY DEF RunCaptureLoop, LoopStarts, LoopTests, GrabFails, GrabImage, GrabStamp, GrabFlag,
       taking
<1>2. /\ last_error' \in {"NO_ERROR", "CAPTURE_FAILED", "INITIALIZATION_FAILED"}
      /\ capture_loop_flag' \in BOOLEAN /\ _new_frame_flag' \in BOOLEAN
      /\ capture_thread' \in {"none", "created", "test", "grab", "update", "flag", "ended"}
  BY DEF RunCaptureLoop, LoopStarts, LoopTests, GrabFails, GrabImage, GrabStamp, GrabFlag, At,
       TypeOK
<1>3. img' \in 0..MaxGrabs /\ stamp' \in 0..MaxGrabs /\ grabs' \in 0..MaxGrabs
  BY DEF RunCaptureLoop, LoopStarts, LoopTests, GrabFails, GrabImage, GrabStamp, GrabFlag,
         TypeOK, CameraAssumption
<1> QED BY <1>1, <1>2, <1>3 DEF TypeOK

LEMMA TakeType ==
  ASSUME TypeOK, Take
  PROVE TypeOK'
<1>1. UNCHANGED <<cam_status, capture_loop_flag, cap, last_error, capture_thread, img,
                  stamp, grabs, pc, terminated>>
  BY DEF Take, TakeStarts, TakeImage, TakeStamp, TakeEnds, thread
<1>2. _new_frame_flag' \in BOOLEAN /\ reader' \in {"idle", "image", "stamp", "flag"}
  BY DEF Take, TakeStarts, TakeImage, TakeStamp, TakeEnds, Reads, TypeOK
<1>3. copy' \in Frames
  BY DEF Take, TakeStarts, TakeImage, TakeStamp, TakeEnds, TypeOK, Frames
<1>4. taken' \in Seq(Frames)
  <2>1. taken \in Seq(Frames) /\ copy \in Frames
    BY DEF TypeOK, Frames
  <2>2. taken' = taken \/ taken' = Append(taken, copy)
    BY DEF Take, TakeStarts, TakeImage, TakeStamp, TakeEnds
  <2> QED BY <2>1, <2>2
<1> QED BY <1>1, <1>2, <1>3, <1>4 DEF TypeOK, Frames

LEMMA TypeNext == CameraAssumption /\ TypeOK /\ [Next]_vars => TypeOK'
<1>1. TypeOK /\ UNCHANGED vars => TypeOK'
  BY DEF TypeOK, vars, thread, taking
<1> QED BY <1>1, CallType, LoopType, TakeType DEF Next

\* Every variable keeps its type.
THEOREM TypeCorrect == ASSUME CameraAssumption PROVE Spec => []TypeOK
  BY CameraAssumption, TypeInit, TypeNext, PTL DEF Spec

-----------------------------------------------------------------------------
(* Frames *)

\* The buffer is as old as its timestamp, but for a frame that is being written.
BufferAge == IF capture_thread = "update" THEN stamp < grabs ELSE stamp = grabs

Older(s) == \A i \in DOMAIN taken : taken[i].stamp < s

\* Of the frames taken so far, only the last can have the timestamp s.
OnceAt(s) ==
  \A i \in DOMAIN taken : taken[i].stamp <= s /\ (i < Len(taken) => taken[i].stamp < s)

\* While the flag is up or about to be set, or a frame is being copied, the frame in
\* the buffer was taken at most once; and not at all if the copy began before it came
\* and the flag is not yet set.
Fresh ==
  /\ \A i \in DOMAIN taken : taken[i].stamp <= stamp
  /\ reader = "idle" /\ (_new_frame_flag \/ capture_thread = "flag") => OnceAt(stamp)
  /\ reader \in {"image", "stamp"} => OnceAt(stamp)
  /\ reader # "idle" /\ capture_thread = "flag" => Older(stamp)
  /\ reader = "flag" => copy.stamp <= stamp /\ OnceAt(copy.stamp)

Once == BufferAge /\ Fresh /\ FramesAdvance

LEMMA OnceInit == Init => Once
  BY DEF Init, Once, BufferAge, Fresh, Older, OnceAt, FramesAdvance

\* A call neither writes a frame nor takes one.
LEMMA OnceCall ==
  ASSUME TypeOK, Once, NEW c \in Callers, Call(c)
  PROVE Once'
<1>1. UNCHANGED <<stamp, grabs, reader, copy, taken, _new_frame_flag>>
  BY DEF Call, EnableAlready, EnableOpens, WarmUp, Spawn, EnableFails, DisableStops,
         DisableJoins, DisableInactive, DisableActive, DisableJoinsAgain,
         DisableReleases, Stop, Join, thread, taking
<1>2. \/ capture_thread' = capture_thread
      \/ {capture_thread, capture_thread'} \cap {"update", "flag"} = {}
  BY DEF Call, EnableAlready, EnableOpens, WarmUp, Spawn, EnableFails, DisableStops,
         DisableJoins, DisableInactive, DisableActive, DisableJoinsAgain,
         DisableReleases, Stop, Join, thread
<1> QED BY <1>1, <1>2 DEF Once, BufferAge, Fresh, Older, OnceAt, FramesAdvance

LEMMA OnceLoop ==
  ASSUME CameraAssumption, TypeOK, Once, RunCaptureLoop
  PROVE Once'
<1>1. UNCHANGED <<reader, copy, taken>>
  BY DEF RunCaptureLoop, LoopStarts, LoopTests, GrabFails, GrabImage, GrabStamp, GrabFlag,
       taking
<1>t. /\ stamp \in Nat /\ grabs \in Nat
      /\ \A k \in DOMAIN taken : taken[k].stamp \in Nat
      /\ copy.stamp \in Nat
  <2>1. stamp \in Nat /\ grabs \in Nat /\ copy.stamp \in Nat
    BY DEF TypeOK, CameraAssumption
  <2>2. \A k \in DOMAIN taken : taken[k] \in Frames
    <3>1. taken \in Seq(Frames)
      BY DEF TypeOK, Frames
    <3> QED BY <3>1
  <2> QED BY <2>1, <2>2 DEF Frames
<1>2. FramesAdvance'
  BY <1>1 DEF Once, FramesAdvance
<1>3. CASE GrabStamp
  <2>1. stamp < grabs /\ stamp' = grabs /\ grabs' = grabs /\ capture_thread' = "flag"
    BY <1>3 DEF GrabStamp, At, Once, BufferAge
  <2>2. BufferAge'
    BY <2>1 DEF BufferAge
  <2>3. Older(stamp')
    BY <1>t, <2>1 DEF Once, Fresh, Older
  <2>4. Fresh'
    <3>1. Older(stamp)' /\ OnceAt(stamp)'
      BY <1>1, <1>t, <2>1, <2>3 DEF Older, OnceAt
    <3>2. reader' = "flag" => (copy.stamp <= stamp)' /\ OnceAt(copy.stamp)'
      BY <1>1, <1>t, <2>1 DEF Once, Fresh, OnceAt
    <3> QED BY <3>1, <3>2, <1>1, <1>t, <2>1 DEF Fresh, Older
  <2> QED BY <1>2, <2>2, <2>4 DEF Once
<1>6. CASE GrabFlag
  <2>1. /\ stamp' = stamp /\ grabs' = grabs
        /\ capture_thread = "flag" /\ capture_thread' = "test"
    BY <1>6 DEF GrabFlag, At
  <2>2. BufferAge'
    BY <2>1 DEF Once, BufferAge
  <2>3. Fresh'
    BY <1>1, <2>1 DEF Once, Fresh, OnceAt
  <2> QED BY <1>2, <2>2, <2>3 DEF Once
<1>4. CASE GrabImage
  <2>1. /\ BufferAge' /\ stamp' = stamp /\ _new_frame_flag' = _new_frame_flag
        /\ capture_thread' # "flag"
    BY <1>4, <1>t DEF GrabImage, At, Once, BufferAge
  <2> QED BY <1>1, <1>2, <2>1 DEF Once, Fresh, Older, OnceAt
<1>5. CASE LoopStarts \/ LoopTests \/ GrabFails
  <2>1. BufferAge' /\ stamp' = stamp /\ capture_thread' # "flag"
    BY <1>5 DEF LoopStarts, LoopTests, GrabFails, At, Once, BufferAge
  <2>2. _new_frame_flag' => _new_frame_flag
    BY <1>5 DEF LoopStarts, LoopTests, GrabFails
  <2> QED BY <1>1, <1>2, <2>1, <2>2 DEF Once, Fresh, Older, OnceAt
<1> QED BY <1>3, <1>4, <1>5, <1>6 DEF RunCaptureLoop

LEMMA OnceTake ==
  ASSUME CameraAssumption, TypeOK, Once, Take
  PROVE Once'
<1>1. BufferAge'
  BY DEF Take, TakeStarts, TakeImage, TakeStamp, TakeEnds, thread, Once, BufferAge
<1>t. /\ stamp \in Nat /\ copy.stamp \in Nat
      /\ taken \in Seq(Frames) /\ copy \in Frames
      /\ \A k \in DOMAIN taken : taken[k].stamp \in Nat
  <2>1. taken \in Seq(Frames) /\ copy \in Frames
    BY DEF TypeOK, Frames
  <2>2. \A k \in DOMAIN taken : taken[k] \in Frames
    BY <2>1
  <2> QED BY <2>1, <2>2 DEF TypeOK, CameraAssumption, Frames
<1>2. CASE TakeStarts \/ TakeImage
  BY <1>1, <1>2 DEF TakeStarts, TakeImage, Reads, thread, Once, Fresh, Older, OnceAt,
                    FramesAdvance
<1>3. CASE TakeStamp
  <2>1. /\ copy'.stamp = stamp /\ reader = "stamp" /\ reader' = "flag"
        /\ UNCHANGED <<stamp, capture_thread, taken>>
    BY <1>3 DEF TakeStamp, Reads, thread, TypeOK
  <2>2. Fresh'
    BY <1>t, <2>1 DEF Once, Fresh, Older, OnceAt
  <2> QED BY <1>1, <2>1, <2>2 DEF Once, FramesAdvance
<1>4. CASE TakeEnds
  <2>1. /\ OnceAt(copy.stamp) /\ copy.stamp <= stamp
        /\ reader' = "idle" /\ ~_new_frame_flag'
        /\ UNCHANGED <<stamp, capture_thread, copy>>
        /\ taken' = Append(taken, copy)
        /\ \A i \in DOMAIN taken : taken[i].stamp <= stamp
        /\ capture_thread = "flag" => Older(stamp)
    BY <1>4 DEF TakeEnds, Reads, thread, Once, Fresh
  <2>3. /\ DOMAIN taken' = DOMAIN taken \cup {Len(taken) + 1}
        /\ Len(taken') = Len(taken) + 1 /\ Len(taken) \in Nat
        /\ taken'[Len(taken) + 1] = copy
        /\ \A k \in DOMAIN taken : taken'[k] = taken[k] /\ k < Len(taken) + 1 /\ k \in Nat
    BY <1>t, <2>1
  <2>4. Fresh'
    <3>1. \A i \in DOMAIN taken' : taken'[i].stamp <= stamp'
      BY <2>1, <2>3
    <3>2. ASSUME capture_thread' = "flag" PROVE OnceAt(stamp)'
      BY <1>t, <2>1, <2>3, <3>2 DEF Older, OnceAt
    <3> QED BY <2>1, <3>1, <3>2 DEF Fresh
  <2>5. FramesAdvance'
    <3> SUFFICES ASSUME NEW k \in DOMAIN taken', NEW l \in DOMAIN taken', k < l
                 PROVE /\ taken'[k].stamp <= taken'[l].stamp
                       /\ taken'[k].stamp = taken'[l].stamp => l = k + 1
      BY DEF FramesAdvance
    <3>1. k \in DOMAIN taken
      BY <2>3
    <3>2. CASE l \in DOMAIN taken
      BY <2>3, <3>1, <3>2 DEF Once, FramesAdvance
    <3>3. CASE l = Len(taken) + 1
      <4>1. /\ taken'[k].stamp <= taken'[l].stamp
            /\ k < Len(taken) => taken'[k].stamp < taken'[l].stamp
        BY <2>1, <2>3, <3>1, <3>3 DEF OnceAt
      <4>2. k \in Nat /\ k <= Len(taken) /\ taken'[k].stamp \in Nat /\ taken'[l].stamp \in Nat
        BY <1>t, <2>3, <3>1, <3>3
      <4> QED BY <2>3, <3>3, <4>1, <4>2
    <3> QED BY <2>3, <3>2, <3>3
  <2> QED BY <1>1, <2>4, <2>5 DEF Once
<1> QED BY <1>2, <1>3, <1>4 DEF Take

LEMMA OnceNext == CameraAssumption /\ TypeOK /\ Once /\ [Next]_vars => Once'
<1>1. Once /\ UNCHANGED vars => Once'
  BY DEF vars, thread, taking, Once, BufferAge, Fresh, Older, OnceAt, FramesAdvance
<1> QED BY <1>1, OnceCall, OnceLoop, OnceTake DEF Next

\* However calls overlap and the capture thread overtakes the copy, the timestamps
\* of the frames that are taken never go back, and no frame is taken three times.
THEOREM FramesAdvanceHolds == ASSUME CameraAssumption PROVE Spec => []FramesAdvance
<1>1. Once => FramesAdvance
  BY DEF Once
<1>2. Spec => []Once
  BY CameraAssumption, OnceInit, OnceNext, TypeCorrect, PTL DEF Spec
<1> QED BY <1>1, <1>2, PTL

-----------------------------------------------------------------------------
(* Power *)

Inactive == cam_status = "INACTIVE" /\ capture_thread = "none"
Powered == cam_status = "ACTIVE" /\ cap

\* A thread that runs with its flag set, or is going to set it.
Running ==
  \/ capture_thread = "created"
  \/ capture_thread \in {"test", "grab", "update", "flag"} /\ capture_loop_flag

\* What camera, pipeline and thread are at each place of a call.
Place(c) ==
  /\ pc[c] = "warm_up" => Inactive /\ cap
  /\ pc[c] = "failed" => Inactive
  /\ pc[c] = "spawn" => Powered /\ capture_thread = "none"
  /\ pc[c] = "join" => (Inactive /\ ~cap) \/ (Powered /\ capture_thread # "none")
  /\ pc[c] = "switch" => (Inactive /\ ~cap) \/ (Powered /\ capture_thread = "none")
  /\ pc[c] \in {"join_again", "release"} => Powered /\ capture_thread = "none"

Orderly ==
  /\ ~terminated
  /\ \A c, d \in InCall : c = d
  /\ InCall = {} => (Inactive /\ ~cap) \/ (Powered /\ Running)
  /\ \A c \in Callers : Place(c)

LEMMA OrderlyInit == Init => Orderly
  BY DEF Init, Orderly, InCall, Inactive, Place

\* One call moves; no other is between its begin and its return.
LEMMA OneMoves ==
  ASSUME TypeOK, Orderly, InTurn, NEW c \in Callers, Call(c)
  PROVE /\ pc' = [pc EXCEPT ![c] = pc'[c]]
        /\ \A d \in Callers \ {c} : pc[d] \in {"sent", "returned"} /\ pc'[d] = pc[d]
        /\ pc[c] \in {"sent", "returned"} => InCall = {}
        /\ InCall' = {} <=> pc'[c] \in {"sent", "returned"}
<1>1. \E to : pc' = [pc EXCEPT ![c] = to]
  BY DEF Call, EnableAlready, EnableOpens, WarmUp, Spawn, EnableFails, DisableStops,
         DisableJoins, DisableInactive, DisableActive, DisableJoinsAgain,
         DisableReleases, Stop, Join, Goto
<1>2. pc' = [pc EXCEPT ![c] = pc'[c]] /\ \A d \in Callers \ {c} : pc'[d] = pc[d]
  BY <1>1 DEF TypeOK
<1>3. pc[c] # "sent" \/ MayCall
  BY DEF Call, EnableAlready, EnableOpens, WarmUp, Spawn, EnableFails, DisableStops,
         DisableJoins, DisableInactive, DisableActive, DisableJoinsAgain,
         DisableReleases, Stop, Join, Goto
<1>4. pc[c] # "returned"
  BY DEF Call, EnableAlready, EnableOpens, WarmUp, Spawn, EnableFails, DisableStops,
         DisableJoins, DisableInactive, DisableActive, DisableJoinsAgain,
         DisableReleases, Stop, Join, Goto
<1>5. \A d \in Callers \ {c} : pc[d] \in {"sent", "returned"}
  BY <1>3, <1>4 DEF MayCall, InCall, Orderly
<1> QED BY <1>2, <1>3, <1>4, <1>5 DEF MayCall, InCall

LEMMA OrderlyCall ==
  ASSUME TypeOK, Orderly, InTurn, NEW c \in Callers, Call(c)
  PROVE Orderly'
<1>1. /\ \A d \in Callers \ {c} : pc[d] \in {"sent", "returned"} /\ pc'[d] = pc[d]
      /\ pc[c] = "sent" => InCall = {}
      /\ InCall' = {} <=> pc'[c] \in {"sent", "returned"}
  BY OneMoves
<1>2. \A to : pc' = [pc EXCEPT ![c] = to] => pc'[c] = to
  BY DEF TypeOK
<1>3. \A a, b \in InCall' : a = b
  BY <1>1 DEF InCall
<1>4. \A d \in Callers \ {c} : Place(d)'
  BY <1>1 DEF Place
<1>5. ASSUME ~terminated', Place(c)',
             pc'[c] \in {"sent", "returned"} => (Inactive /\ ~cap)' \/ (Powered /\ Running)'
      PROVE Orderly'
  BY <1>1, <1>3, <1>4, <1>5 DEF Orderly
<1>6. /\ Place(c) /\ ~terminated
      /\ pc[c] = "sent" => (Inactive /\ ~cap) \/ (Powered /\ Running)
  BY <1>1 DEF Orderly
<1> USE <1>2, <1>6 DEF Goto, Place, Inactive, Powered, Running
<1>7. CASE EnableAlready(c)
  BY <1>5, <1>7 DEF EnableAlready, thread
<1>8. CASE EnableOpens(c)
  BY <1>5, <1>8 DEF EnableOpens, thread, TypeOK
<1>9. CASE WarmUp(c)
  BY <1>5, <1>9 DEF WarmUp, thread
<1>10. CASE Spawn(c)
  BY <1>5, <1>10 DEF Spawn
<1>11. CASE EnableFails(c)
  BY <1>5, <1>11 DEF EnableFails
<1>12. CASE DisableStops(c)
  BY <1>5, <1>12 DEF DisableStops, Stop, thread
<1>13. CASE DisableActive(c)
  BY <1>5, <1>13 DEF DisableActive, Stop, thread
<1>14. CASE DisableJoins(c)
  BY <1>1, <1>5, <1>14 DEF DisableJoins, Join
<1>15. CASE DisableJoinsAgain(c)
  BY <1>1, <1>5, <1>15 DEF DisableJoinsAgain, Join
<1>16. CASE DisableInactive(c)
  BY <1>5, <1>16 DEF DisableInactive, thread
<1>17. CASE DisableReleases(c)
  BY <1>5, <1>17 DEF DisableReleases, thread
<1> QED
  BY <1>7, <1>8, <1>9, <1>10, <1>11, <1>12, <1>13, <1>14, <1>15, <1>16, <1>17 DEF Call

LEMMA OrderlyNext == TypeOK /\ Orderly /\ InTurn /\ [Next]_vars => Orderly'
<1> SUFFICES ASSUME TypeOK, Orderly, InTurn, [Next]_vars PROVE Orderly'
  OBVIOUS
<1>1. ASSUME NEW c \in Callers, Call(c) PROVE Orderly'
  BY <1>1, OrderlyCall
<1>2. CASE RunCaptureLoop
  <2>1. UNCHANGED <<cam_status, cap, pc, terminated>>
    BY <1>2 DEF RunCaptureLoop, LoopStarts, LoopTests, GrabFails, GrabImage, GrabStamp, GrabFlag
  <2>2. capture_thread # "none" /\ capture_thread' # "none"
    BY <1>2 DEF RunCaptureLoop, LoopStarts, LoopTests, GrabFails, GrabImage, GrabStamp,
         GrabFlag, At
  <2>3. cam_status = "ACTIVE" /\ Running => Running'
    BY <1>2 DEF RunCaptureLoop, LoopStarts, LoopTests, GrabFails, GrabImage, GrabStamp,
                GrabFlag, At, Running
  <2> QED BY <2>1, <2>2, <2>3 DEF Orderly, InCall, Place, Inactive, Powered
<1>3. CASE Take \/ UNCHANGED vars
  BY <1>3 DEF Take, TakeStarts, TakeImage, TakeStamp, TakeEnds, vars, thread, Orderly,
              InCall, Place, Inactive, Powered, Running
<1> QED BY <1>1, <1>2, <1>3 DEF Next

LEMMA OrderlyHolds == ASSUME CameraAssumption, InTurn PROVE Spec => []Orderly
  BY CameraAssumption, InTurn, OrderlyInit, OrderlyNext, TypeCorrect, PTL DEF Spec

LEMMA OrderlyPower == Orderly => PowerIsWhole
  BY DEF Orderly, PowerIsWhole, Inactive, Powered, Running

\* Calls that follow one another leave the camera either off or with an open
\* pipeline and a thread that fills its buffer, whatever fails.
THEOREM PowerIsWholeHolds ==
  ASSUME CameraAssumption, InTurn PROVE Spec => []PowerIsWhole
  BY OrderlyPower, OrderlyHolds, InTurn, CameraAssumption, PTL

\* Such calls never end the program: no joinable thread is assigned to and no
\* thread is joined twice (camera.cpp has no lock that would prevent it).
THEOREM NeverTerminated ==
  ASSUME CameraAssumption, InTurn PROVE Spec => []~terminated
<1>1. Orderly => ~terminated
  BY DEF Orderly
<1> QED BY <1>1, OrderlyHolds, PTL

-----------------------------------------------------------------------------
(* CameraManager: types *)

Returns == M!Places \ {"enabling", "disabling"}

\* A thread that goes through cameras has one to go, and enables only cameras that
\* the configuration enables.
Control ==
  /\ manager_pc \in [M!Threads -> M!Places]
  /\ ret \in [M!Threads -> M!Places \cup {"none"}]
  /\ left \in [M!Threads -> SUBSET Cams]
  /\ \A p \in M!Threads :
       /\ manager_pc[p] \in {"enabling", "disabling"} => left[p] # {} /\ ret[p] \in Returns
       /\ manager_pc[p] = "enabling" => left[p] \subseteq Enabled

Data ==
  /\ active \subseteq Enabled /\ mask \subseteq Cams
  /\ capture_mode \in {"IDLE", "CAPTURE_SINGLE", Mode}
  /\ loop_flag \in BOOLEAN /\ display_flag \in BOOLEAN
  /\ auto_disable_after_capture \in BOOLEAN
  /\ to_capture \in {Target, M!Default} /\ captured \in 0..M!Default
  /\ before \in [Workers -> 0..M!Cardinality(Cams)]
  /\ expected \in [Workers -> 0..M!Cardinality(Cams)]
  /\ lmode \in {"IDLE", "CAPTURE_SINGLE", Mode}
  /\ saved \in 0..M!Cardinality(Cams)
  /\ complete \in BOOLEAN

Histories == late \in BOOLEAN /\ lost \in BOOLEAN

LEMMA ManagerTypes == M!TypeOK <=> /\ manager_pc \in [M!Threads -> M!Places]
                                 /\ ret \in [M!Threads -> M!Places \cup {"none"}]
                                 /\ left \in [M!Threads -> SUBSET Cams]
                                 /\ Data /\ Histories
  BY DEF M!TypeOK, Data, Histories

LEMMA HistoriesNext == Histories /\ [M!Next]_(M!vars) => Histories'
<1> SUFFICES ASSUME Histories, [M!Next]_(M!vars) PROVE Histories'
  OBVIOUS
<1>1. ASSUME NEW p \in Workers, M!Command(p) PROVE late' \in BOOLEAN
  <2>1. late' = late \/ late' = M!OtherAtWork(p) \/ late' = (late \/ M!OtherAtWork(p))
    BY <1>1 DEF M!Command, M!Enable, M!Disable, M!Capture, M!CaptureRefused, M!CaptureSet,
       M!Display, M!DisplayEnds, M!StopDisplay, M!StopLoops, M!StopNotifies, M!StopDisables,
       M!DatasetResets, M!DatasetMasks, M!DatasetRefused, M!DatasetConfigures,
       M!DatasetSetsMode, M!DatasetStops, M!DatasetUndoes, M!DatasetClears, M!DatasetEnables,
       M!PrepareCounts, M!PrepareChecks, M!PrepareFails, M!EnableOne, M!DisableOne, M!modes
  <2>2. M!OtherAtWork(p) \in BOOLEAN
    BY DEF M!OtherAtWork
  <2> QED BY <2>1, <2>2 DEF Histories
<1>2. ASSUME NEW p, \/ \E from, to : M!Goto(p, from, to) \/ M!Notify(p, from, to)
                   \/ \E from, what, cams, to : M!Call(p, from, what, cams, to)
                   \/ M!Step(p)
      PROVE  lost' \in BOOLEAN
  BY <1>2 DEF M!Goto, M!Notify, M!Call, M!Step, Histories
<1>3. ASSUME NEW p \in Workers, M!Command(p) PROVE lost' \in BOOLEAN
  BY <1>2, <1>3 DEF M!Command, M!Enable, M!Disable, M!Capture, M!CaptureRefused,
     M!CaptureSet, M!Display, M!DisplayEnds, M!StopDisplay, M!StopLoops, M!StopNotifies,
     M!StopDisables, M!DatasetResets, M!DatasetMasks, M!DatasetRefused, M!DatasetConfigures,
     M!DatasetSetsMode, M!DatasetStops, M!DatasetUndoes, M!DatasetClears, M!DatasetEnables,
     M!PrepareCounts, M!PrepareChecks, M!PrepareFails, M!EnableOne, M!DisableOne,
     M!CallEnable, M!CallDisable
<1>4. ASSUME M!RunLoop PROVE late' \in BOOLEAN
  BY <1>4 DEF M!RunLoop, M!LoopTests, M!LoopPredicate, M!LoopBlocks, M!LoopSkips, M!LoopSaves,
     M!LoopInfers, M!LoopAutoDisables, M!LoopCounts, M!LoopIdles, M!LoopDefaults,
     M!LoopHealthy, M!LoopRestarts, M!EnableOne, M!DisableOne, M!modes, Histories
<1>5. ASSUME M!RunLoop PROVE lost' \in BOOLEAN
  BY <1>2, <1>5 DEF M!RunLoop, M!LoopTests, M!LoopPredicate, M!LoopBlocks, M!LoopSkips,
     M!LoopSaves, M!LoopInfers, M!LoopAutoDisables, M!LoopCounts, M!LoopIdles,
     M!LoopDefaults, M!LoopHealthy, M!LoopRestarts, M!EnableOne, M!DisableOne,
     M!CallEnable, M!CallDisable
<1>6. ASSUME UNCHANGED M!vars PROVE Histories'
  BY <1>6 DEF M!vars, M!modes, M!subs, Histories
<1> QED BY <1>1, <1>3, <1>4, <1>5, <1>6 DEF M!Next, Histories

LEMMA Sizes == \A S : M!IsFiniteSet(S) = IsFiniteSet(S) /\ M!Cardinality(S) = Cardinality(S)
  BY DEF M!IsFiniteSet, IsFiniteSet, M!Cardinality, Cardinality

\* A set of camera numbers has a smallest one.
LEMMA FirstIsLeft ==
  ASSUME M!ManagerAssumption, NEW p, left[p] \subseteq Cams, left[p] # {}
  PROVE M!First(p) \in left[p]
<1>1. left[p] \subseteq Nat
  BY DEF M!ManagerAssumption
<1>2. PICK c \in left[p] : \A d \in left[p] : <<d, c>> \notin OpToRel(<, Nat)
  BY <1>1, NatLessThanWellFounded, WFMin
<1>3. \A d \in left[p] : ~(d < c)
  BY <1>1, <1>2, Zenon DEF OpToRel
<1>4. \A d \in left[p] : c <= d
  BY <1>1, <1>3, SMT
<1> QED BY <1>4 DEF M!First

LEMMA ManagerInit == M!ManagerAssumption /\ M!Init => Control /\ Data
<1> SUFFICES ASSUME M!ManagerAssumption, M!Init PROVE Control /\ Data
  OBVIOUS
<1>1. M!Cardinality(Cams) \in Nat
  BY FS_CardinalityType, Sizes DEF M!ManagerAssumption
<1>2. Control
  BY DEF M!Init, M!Places, Control
<1>3. 0 \in 0..M!Cardinality(Cams)
  BY <1>1
<1>4. /\ before \in [Workers -> 0..M!Cardinality(Cams)]
      /\ expected \in [Workers -> 0..M!Cardinality(Cams)]
  BY <1>3 DEF M!Init
<1>5. /\ active \subseteq Enabled /\ mask \subseteq Cams
      /\ to_capture \in {Target, M!Default} /\ captured \in 0..M!Default
  BY DEF M!Init, M!Default, M!ManagerAssumption
<1> QED BY <1>2, <1>3, <1>4, <1>5 DEF M!Init, Data

\* The four ways in which a thread moves.
LEMMA GotoControl ==
  ASSUME Control, NEW p \in M!Threads, NEW from, NEW to \in Returns, M!Goto(p, from, to)
  PROVE Control'
  BY DEF Control, M!Goto, Returns

LEMMA NotifyControl ==
  ASSUME Control, NEW p \in M!Threads, NEW from, NEW to \in Returns, M!Notify(p, from, to)
  PROVE Control'
<1>p. "predicate" \in M!Places
  BY DEF M!Places
<1>1. manager_pc' \in [M!Threads -> M!Places]
  BY <1>p DEF Control, M!Notify, Returns
<1>2. \A q \in M!Threads : manager_pc'[q] \in {"enabling", "disabling"} =>
                             manager_pc'[q] = manager_pc[q]
  BY DEF Control, M!Notify, Returns
<1> QED BY <1>1, <1>2 DEF Control, M!Notify

LEMMA CallControl ==
  ASSUME Control, NEW p \in M!Threads, NEW from, NEW what \in {"enabling", "disabling"},
         NEW cams \in SUBSET Cams, what = "enabling" => cams \subseteq Enabled,
         NEW to \in Returns, M!Call(p, from, what, cams, to)
  PROVE Control'
<1>1. what \in M!Places
  BY DEF M!Places
<1>2. /\ manager_pc' \in [M!Threads -> M!Places]
      /\ ret' \in [M!Threads -> M!Places \cup {"none"}]
      /\ left' \in [M!Threads -> SUBSET Cams]
  BY <1>1 DEF Control, M!Call, Returns
<1>3. ASSUME NEW q \in M!Threads
      PROVE  /\ manager_pc'[q] \in {"enabling", "disabling"} => left'[q] # {} /\ ret'[q] \in Returns
             /\ manager_pc'[q] = "enabling" => left'[q] \subseteq Enabled
  BY DEF Control, M!Call, Returns
<1> QED BY <1>2, <1>3 DEF Control

LEMMA StepControl ==
  ASSUME M!ManagerAssumption, Control, NEW p \in M!Threads,
         manager_pc[p] \in {"enabling", "disabling"}, M!Step(p)
  PROVE Control' /\ M!First(p) \in left[p]
<1>1. M!First(p) \in left[p]
  BY FirstIsLeft DEF Control
<1>2. /\ manager_pc' \in [M!Threads -> M!Places]
      /\ ret' \in [M!Threads -> M!Places \cup {"none"}]
      /\ left' \in [M!Threads -> SUBSET Cams]
  BY DEF Control, M!Step, Returns
<1>3. ASSUME NEW q \in M!Threads
      PROVE  /\ manager_pc'[q] \in {"enabling", "disabling"} => left'[q] # {} /\ ret'[q] \in Returns
             /\ manager_pc'[q] = "enabling" => left'[q] \subseteq Enabled
  BY <1>1 DEF Control, M!Step, Returns
<1> QED BY <1>1, <1>2, <1>3 DEF Control

LEMMA CommandControl ==
  ASSUME M!ManagerAssumption, Control, NEW p \in Workers, M!Command(p)
  PROVE Control'
<1>p. p \in M!Threads
  BY DEF M!Threads
<1>r. {"sent", "done", "prepare", "check", "give_up", "ready", "refused", "display",
       "notify", "stop_cameras", "mask", "settings", "collect", "reset", "clear",
       "cleared"} \subseteq Returns
  BY DEF Returns, M!Places
<1>e. Enabled \subseteq Cams /\ Enabled \cap mask \subseteq Enabled
  BY DEF M!ManagerAssumption
<1>1. CASE \/ M!Capture(p) \/ M!CaptureRefused(p) \/ M!Display(p) \/ M!DisplayEnds(p)
           \/ M!StopDisplay(p) \/ M!StopLoops(p)
  BY <1>1, <1>p, <1>r, GotoControl DEF M!Capture, M!CaptureRefused, M!Display, M!DisplayEnds,
     M!StopDisplay, M!StopLoops
<1>2. CASE \/ M!DatasetResets(p) \/ M!DatasetRefused(p) \/ M!DatasetConfigures(p)
           \/ M!DatasetUndoes(p) \/ M!DatasetClears(p) \/ M!PrepareFails(p)
  BY <1>2, <1>p, <1>r, GotoControl DEF M!DatasetResets, M!DatasetRefused, M!DatasetConfigures,
     M!DatasetUndoes, M!DatasetClears, M!PrepareFails
<1>3. CASE \/ M!CaptureSet(p) \/ M!StopNotifies(p) \/ M!DatasetSetsMode(p)
           \/ M!DatasetStops(p)
  BY <1>3, <1>p, <1>r, NotifyControl DEF M!CaptureSet, M!StopNotifies, M!DatasetSetsMode,
     M!DatasetStops
<1>4. CASE M!Enable(p) \/ M!DatasetEnables(p)
  BY <1>4, <1>p, <1>r, <1>e, CallControl DEF M!Enable, M!DatasetEnables, M!CallEnable
<1>5. CASE M!Disable(p) \/ M!StopDisables(p) \/ M!DatasetMasks(p)
  BY <1>5, <1>p, <1>r, <1>e, CallControl DEF M!Disable, M!StopDisables, M!DatasetMasks,
     M!CallDisable
<1>6. CASE M!PrepareCounts(p)
  <2>1. \/ M!Goto(p, "prepare", "refused") \/ M!Goto(p, "prepare", "ready")
        \/ M!CallEnable(p, "prepare", "check")
    BY <1>6 DEF M!PrepareCounts
  <2> QED BY <2>1, <1>p, <1>r, <1>e, GotoControl, CallControl DEF M!CallEnable
<1>7. CASE M!PrepareChecks(p)
  <2>1. \/ M!Goto(p, "check", "ready") \/ M!Goto(p, "check", "give_up")
        \/ M!CallDisable(p, "check", "give_up")
    BY <1>7 DEF M!PrepareChecks
  <2> QED BY <2>1, <1>p, <1>r, <1>e, GotoControl, CallControl DEF M!CallDisable
<1>8. CASE M!EnableOne(p) \/ M!DisableOne(p)
  BY <1>8, <1>p, StepControl DEF M!EnableOne, M!DisableOne
<1> QED BY <1>1, <1>2, <1>3, <1>4, <1>5, <1>6, <1>7, <1>8 DEF M!Command

LEMMA LoopControl ==
  ASSUME M!ManagerAssumption, Control, Data, M!RunLoop
  PROVE Control'
<1>p. M!loop \in M!Threads
  BY DEF M!Threads
<1>r. {"test", "predicate", "block", "asleep", "health", "save", "infer", "auto_disable",
       "count", "idle", "defaults", "exited"} \subseteq Returns
  BY DEF Returns, M!Places
<1>e. Enabled \subseteq Cams /\ Enabled \cap mask \subseteq Enabled
  BY DEF M!ManagerAssumption
<1>s. M!Saved \in {"auto_disable", "count"}
  BY DEF M!Saved
<1>1. CASE M!LoopTests \/ M!LoopPredicate \/ M!LoopBlocks \/ M!LoopSkips
  BY <1>1, <1>p, <1>r, GotoControl DEF M!LoopTests, M!LoopPredicate, M!LoopBlocks, M!LoopSkips
<1>2. CASE M!LoopCounts \/ M!LoopIdles \/ M!LoopDefaults \/ M!LoopHealthy
  BY <1>2, <1>p, <1>r, GotoControl DEF M!LoopCounts, M!LoopIdles, M!LoopDefaults,
       M!LoopHealthy
<1>3. CASE M!LoopSaves
  <2>1. M!CallDisable(M!loop, "save", "infer") \/ M!Goto(M!loop, "save", M!Saved)
    BY <1>3 DEF M!LoopSaves
  <2> QED BY <2>1, <1>p, <1>r, <1>e, <1>s, GotoControl, CallControl DEF M!CallDisable
<1>4. CASE M!LoopInfers
  <2>1. M!CallEnable(M!loop, "infer", M!Saved)
    BY <1>4 DEF M!LoopInfers
  <2> QED BY <2>1, <1>p, <1>r, <1>e, <1>s, CallControl DEF M!CallEnable
<1>5. CASE M!LoopAutoDisables
  <2>1. M!CallDisable(M!loop, "auto_disable", "idle") \/ M!Goto(M!loop, "auto_disable", "idle")
    BY <1>5 DEF M!LoopAutoDisables
  <2> QED BY <2>1, <1>p, <1>r, <1>e, GotoControl, CallControl DEF M!CallDisable
<1>6. CASE M!LoopRestarts
  <2>1. PICK c \in Erring \cap active : M!Call(M!loop, "health", "enabling", {c}, "test")
    BY <1>6 DEF M!LoopRestarts
  <2>2. {c} \subseteq Enabled /\ {c} \in SUBSET Cams
    BY <2>1, <1>e DEF Data
  <2> QED BY <2>1, <2>2, <1>p, <1>r, CallControl
<1>7. CASE M!EnableOne(M!loop) \/ M!DisableOne(M!loop)
  BY <1>7, <1>p, StepControl DEF M!EnableOne, M!DisableOne
<1> QED BY <1>1, <1>2, <1>3, <1>4, <1>5, <1>6, <1>7 DEF M!RunLoop

LEMMA CommandData ==
  ASSUME M!ManagerAssumption, Control, Data, NEW p \in Workers, M!Command(p)
  PROVE Data'
<1>p. p \in M!Threads
  BY DEF M!Threads
<1>c. /\ M!Cardinality(active) \in 0..M!Cardinality(Cams)
      /\ M!Cardinality(Enabled \cap mask) \in 0..M!Cardinality(Cams)
  <2>1. IsFiniteSet(Cams) /\ active \in SUBSET Cams /\ Enabled \cap mask \in SUBSET Cams
    BY Sizes DEF Data, M!ManagerAssumption
  <2> QED BY <2>1, FS_Subset, FS_CardinalityType, Sizes
<1>1. CASE \/ M!Enable(p) \/ M!Disable(p) \/ M!Capture(p) \/ M!CaptureRefused(p)
           \/ M!CaptureSet(p) \/ M!Display(p) \/ M!DisplayEnds(p) \/ M!StopDisplay(p)
  BY <1>1 DEF M!Enable, M!Disable, M!Capture, M!CaptureRefused, M!CaptureSet, M!Display,
     M!DisplayEnds, M!StopDisplay, M!modes, M!flags, M!locals, M!runs, Data
<1>2. CASE \/ M!StopLoops(p) \/ M!StopNotifies(p) \/ M!StopDisables(p)
           \/ M!DatasetRefused(p) \/ M!DatasetEnables(p) \/ M!PrepareFails(p)
  BY <1>2 DEF M!StopLoops, M!StopNotifies, M!StopDisables, M!DatasetRefused,
     M!DatasetEnables, M!PrepareFails, M!modes, M!flags, M!locals, M!runs, Data
<1>3. CASE \/ M!DatasetMasks(p) \/ M!DatasetSetsMode(p) \/ M!DatasetStops(p)
           \/ M!DatasetClears(p) \/ M!PrepareChecks(p)
  BY <1>3 DEF M!DatasetMasks, M!DatasetSetsMode, M!DatasetStops, M!DatasetClears,
     M!PrepareChecks, M!modes, M!flags, M!locals, M!runs, M!ManagerAssumption, Data
<1>4. CASE M!DatasetResets(p) \/ M!DatasetConfigures(p) \/ M!DatasetUndoes(p)
  <2>1. captured' \in {captured, 0} /\ to_capture' \in {Target, M!Default}
    BY <1>4 DEF M!DatasetResets, M!DatasetConfigures, M!DatasetUndoes
  <2>2. 0 \in 0..M!Default
    BY DEF M!Default, M!ManagerAssumption
  <2> QED BY <1>4, <2>1, <2>2 DEF M!DatasetResets, M!DatasetConfigures, M!DatasetUndoes,
             M!flags, M!locals, M!runs, Data
<1>5. CASE M!PrepareCounts(p)
  BY <1>5, <1>c DEF M!PrepareCounts, M!modes, M!flags, M!runs, Data
<1>6. CASE M!EnableOne(p) \/ M!DisableOne(p)
  <2>1. manager_pc[p] = "enabling" => M!First(p) \in Enabled
    BY <1>6, <1>p, StepControl DEF M!EnableOne, M!DisableOne, Control
  <2> QED BY <1>6, <2>1 DEF M!EnableOne, M!DisableOne, M!modes, M!flags, M!locals, M!runs,
       Data
<1> QED BY <1>1, <1>2, <1>3, <1>4, <1>5, <1>6 DEF M!Command

LEMMA LoopData ==
  ASSUME M!ManagerAssumption, Control, Data, M!RunLoop
  PROVE Data'
<1>p. M!loop \in M!Threads
  BY DEF M!Threads
<1>c. /\ M!Cardinality(active) \in 0..M!Cardinality(Cams)
      /\ M!Cardinality(Cams) \in Nat
  <2>1. IsFiniteSet(Cams) /\ active \in SUBSET Cams
    BY Sizes DEF Data, M!ManagerAssumption
  <2> QED BY <2>1, FS_Subset, FS_CardinalityType, Sizes
<1>1. CASE \/ M!LoopTests \/ M!LoopPredicate \/ M!LoopBlocks \/ M!LoopSkips
           \/ M!LoopAutoDisables \/ M!LoopIdles \/ M!LoopHealthy \/ M!LoopRestarts
  BY <1>1 DEF M!LoopTests, M!LoopPredicate, M!LoopBlocks, M!LoopSkips, M!LoopAutoDisables,
     M!LoopIdles, M!LoopHealthy, M!LoopRestarts, M!modes, M!flags, M!locals, M!runs, Data
<1>2. CASE M!LoopSaves \/ M!LoopInfers
  <2>1. \/ saved' \in 0..M!Cardinality(active)
        \/ saved' \in 0..saved
    BY <1>2 DEF M!LoopSaves, M!LoopInfers
  <2>3. saved \in 0..M!Cardinality(Cams)
    BY DEF Data
  <2>4. saved' \in 0..M!Cardinality(Cams)
    BY <2>1, <2>3, <1>c
  <2> QED BY <1>2, <2>4 DEF M!LoopSaves, M!LoopInfers, M!modes, M!flags, M!locals, Data
<1>3. CASE M!LoopCounts \/ M!LoopDefaults
  <2>1. captured' \in 0..M!Default /\ to_capture' \in {Target, M!Default}
    <3>1. saved \in Nat /\ captured \in Nat
      BY <1>c DEF Data, M!Default
    <3>2. M!Default \in Nat /\ Target \in 0..M!Default
      BY DEF M!Default, M!ManagerAssumption
    <3> QED BY <1>3, <3>1, <3>2 DEF M!LoopCounts, M!LoopDefaults, Data
  <2>2. complete' \in BOOLEAN
    BY <1>3 DEF M!LoopCounts, M!LoopDefaults, Data
  <2> QED BY <1>3, <2>1, <2>2 DEF M!LoopCounts, M!LoopDefaults, M!flags, M!locals, M!runs,
       Data
<1>4. CASE M!EnableOne(M!loop) \/ M!DisableOne(M!loop)
  <2>1. manager_pc[M!loop] = "enabling" => M!First(M!loop) \in Enabled
    BY <1>4, <1>p, StepControl DEF M!EnableOne, M!DisableOne, Control
  <2> QED BY <1>4, <2>1 DEF M!EnableOne, M!DisableOne, M!modes, M!flags, M!locals, M!runs,
       Data
<1> QED BY <1>1, <1>2, <1>3, <1>4 DEF M!RunLoop

LEMMA ManagerTyped ==
  M!ManagerAssumption /\ Control /\ Data /\ [M!Next]_(M!vars) => Control' /\ Data'
<1>1. Control /\ Data /\ UNCHANGED M!vars => Control' /\ Data'
  BY DEF M!vars, M!modes, M!flags, M!subs, M!locals, M!runs, Control, Data
<1> QED BY <1>1, CommandControl, CommandData, LoopControl, LoopData DEF M!Next

\* Every variable of CameraManager keeps its type, and no camera that the
\* configuration disables is ever active, whatever the threads do.
THEOREM ManagerTypeCorrect == ASSUME M!ManagerAssumption PROVE M!Spec => []M!TypeOK
<1>1. Control /\ Data /\ Histories => M!TypeOK
  BY ManagerTypes DEF Control
<1>2. M!Init => Histories
  BY DEF M!Init, Histories
<1> QED BY <1>1, <1>2, M!ManagerAssumption, ManagerInit, ManagerTyped, HistoriesNext, PTL
       DEF M!Spec

-----------------------------------------------------------------------------
(* CameraManager: the settings of a dataset *)

Going(p) == manager_pc[p] \in {"enabling", "disabling"}

\* Who sets and undoes the settings is a dataset.
WorkerAt(p) ==
  /\ manager_pc[p] \in {"settings", "collect", "reset"} => Kind[p] = "dataset"
  /\ Going(p) => ret[p] \notin {"settings", "collect", "reset"}

Alone ==
  \A p, q \in Workers : Kind[p] = "dataset" /\ Kind[q] = "dataset" =>
    p = q \/ M!Ended(p) \/ M!Ended(q)

\* RunLoop is in a turn, for a mode ...
Turn ==
  \/ manager_pc[M!loop] \in {"save", "infer", "auto_disable", "count", "idle", "defaults"}
  \/ Going(M!loop) /\ ret[M!loop] # "test"

\* ... that it knows by its place.
LoopAt ==
  /\ Turn => lmode # "IDLE"
  /\ Going(M!loop) => ret[M!loop] \in {"test", "infer", "count", "auto_disable", "idle"}
  /\ \/ manager_pc[M!loop] \in {"infer", "count", "defaults"}
     \/ Going(M!loop) /\ ret[M!loop] \in {"infer", "count"}
     => lmode = Mode
  /\ \/ manager_pc[M!loop] = "auto_disable"
     \/ Going(M!loop) /\ ret[M!loop] \in {"auto_disable", "idle"}
     => lmode = "CAPTURE_SINGLE"

ModeIsHeld ==
  capture_mode = Mode => \E p \in Workers : Kind[p] = "dataset" /\ manager_pc[p] = "collect"

\* Between its number and its mode, no periodic turn is at work ...
NumberIsKept(p) ==
  manager_pc[p] = "settings" => to_capture = Target /\ (Turn => lmode # Mode)

\* ... and from then on no turn but one for this mode, and no capture command.
ModeIsKept(p) ==
  manager_pc[p] = "collect" /\ ~complete =>
    /\ capture_mode = Mode /\ to_capture = Target
    /\ \A q \in Workers : Kind[q] = "capture" => M!Ended(q)
    /\ Turn => lmode = Mode /\ manager_pc[M!loop] \notin {"idle", "defaults"}

Kept ==
  /\ \A p \in Workers : WorkerAt(p)
  /\ Alone /\ LoopAt /\ ModeIsHeld
  /\ \A p \in Workers : Kind[p] = "dataset" /\ ~late => NumberIsKept(p) /\ ModeIsKept(p)

LEMMA KeptInit == M!ManagerAssumption /\ M!Init => Kept
<1> SUFFICES ASSUME M!ManagerAssumption, M!Init PROVE Kept
  OBVIOUS
<1>1. manager_pc[M!loop] = "test" /\ \A p \in Workers : manager_pc[p] = "sent"
  BY DEF M!ManagerAssumption, M!Init, M!Threads
<1>2. capture_mode # Mode
  BY DEF M!ManagerAssumption, M!Periodic, M!Init
<1> QED BY <1>1, <1>2 DEF Kept, WorkerAt, Alone, M!Ended, LoopAt, Turn, Going, ModeIsHeld,
     NumberIsKept, ModeIsKept

\* A command moves its own thread, and wakes RunLoop at most.
LEMMA CommandMoves ==
  ASSUME M!ManagerAssumption, Control, NEW p \in Workers, M!Command(p)
  PROVE /\ \A q \in Workers \ {p} : manager_pc'[q] = manager_pc[q] /\ ret'[q] = ret[q]
        /\ ret'[M!loop] = ret[M!loop]
        /\ \/ manager_pc'[M!loop] = manager_pc[M!loop]
           \/ manager_pc[M!loop] = "asleep" /\ manager_pc'[M!loop] = "predicate"
        /\ UNCHANGED lmode
<1>p. /\ p \in M!Threads /\ p # M!loop /\ M!loop \in M!Threads
      /\ Workers \subseteq M!Threads /\ M!loop \notin Workers
  BY DEF M!Threads, M!ManagerAssumption
<1>1. ASSUME NEW from, NEW to, NEW what, NEW cams,
             \/ M!Goto(p, from, to) \/ M!Notify(p, from, to)
             \/ M!Call(p, from, what, cams, to) \/ M!Step(p)
      PROVE  /\ \A q \in Workers \ {p} : manager_pc'[q] = manager_pc[q] /\ ret'[q] = ret[q]
             /\ ret'[M!loop] = ret[M!loop]
             /\ \/ manager_pc'[M!loop] = manager_pc[M!loop]
                \/ manager_pc[M!loop] = "asleep" /\ manager_pc'[M!loop] = "predicate"
  <2>1. CASE M!Goto(p, from, to) \/ M!Step(p)
    BY <2>1, <1>p DEF Control, M!Goto, M!Step
  <2>2. CASE M!Call(p, from, what, cams, to)
    BY <2>2, <1>p DEF Control, M!Call
  <2>3. CASE M!Notify(p, from, to)
    BY <2>3, <1>p DEF Control, M!Notify
  <2> QED BY <1>1, <2>1, <2>2, <2>3
<1>2. CASE \/ M!Enable(p) \/ M!Disable(p) \/ M!Capture(p) \/ M!CaptureRefused(p)
           \/ M!CaptureSet(p) \/ M!Display(p) \/ M!DisplayEnds(p) \/ M!StopDisplay(p)
  BY <1>1, <1>2 DEF M!Enable, M!Disable, M!Capture, M!CaptureRefused, M!CaptureSet, M!Display,
     M!DisplayEnds, M!StopDisplay, M!CallEnable, M!CallDisable, M!modes, M!runs
<1>3. CASE \/ M!StopLoops(p) \/ M!StopNotifies(p) \/ M!StopDisables(p)
           \/ M!DatasetRefused(p) \/ M!DatasetEnables(p) \/ M!PrepareFails(p)
  BY <1>1, <1>3 DEF M!StopLoops, M!StopNotifies, M!StopDisables, M!DatasetRefused,
     M!DatasetEnables, M!PrepareFails, M!CallEnable, M!modes, M!runs
<1>4. CASE \/ M!DatasetMasks(p) \/ M!DatasetSetsMode(p) \/ M!DatasetStops(p)
           \/ M!DatasetClears(p) \/ M!DatasetResets(p) \/ M!DatasetConfigures(p)
           \/ M!DatasetUndoes(p)
  BY <1>1, <1>4 DEF M!DatasetMasks, M!DatasetSetsMode, M!DatasetStops, M!DatasetClears,
     M!DatasetResets, M!DatasetConfigures, M!DatasetUndoes, M!modes, M!runs
<1>5. CASE M!PrepareCounts(p) \/ M!PrepareChecks(p)
  BY <1>1, <1>5 DEF M!PrepareCounts, M!PrepareChecks, M!CallEnable, M!CallDisable, M!modes,
       M!runs
<1>6. CASE M!EnableOne(p) \/ M!DisableOne(p)
  BY <1>1, <1>6 DEF M!EnableOne, M!DisableOne, M!modes, M!runs
<1> QED BY <1>2, <1>3, <1>4, <1>5, <1>6 DEF M!Command

Shared == <<capture_mode, to_capture, complete, late>>

\* What a command does to what the threads share; everything but this leaves it alone.
Touches(p) ==
  \/ /\ Kind[p] = "capture" /\ manager_pc[p] = "ready" /\ manager_pc'[p] = "done"
     /\ capture_mode' = "CAPTURE_SINGLE" /\ UNCHANGED <<to_capture, complete, late>>
  \/ /\ Kind[p] = "dataset" /\ manager_pc[p] = "sent" /\ manager_pc'[p] = "mask"
     /\ \A q \in Workers \ {p} : Kind[q] = "dataset" => M!Ended(q)
     /\ UNCHANGED <<capture_mode, complete, late>>
  \/ /\ Kind[p] = "dataset" /\ manager_pc[p] = "ready" /\ manager_pc'[p] = "settings"
     /\ to_capture' = Target /\ late' = M!OtherAtWork(p)
     /\ UNCHANGED <<capture_mode, complete>>
  \/ /\ Kind[p] = "dataset" /\ manager_pc[p] = "settings" /\ manager_pc'[p] = "collect"
     /\ capture_mode' = Mode /\ complete' = FALSE /\ late' = (late \/ M!OtherAtWork(p))
     /\ UNCHANGED to_capture
  \/ /\ Kind[p] = "dataset" /\ manager_pc[p] = "collect" /\ manager_pc'[p] = "reset"
     /\ capture_mode' = "IDLE" /\ UNCHANGED <<to_capture, complete, late>>
  \/ /\ Kind[p] = "dataset" /\ manager_pc[p] = "reset" /\ manager_pc'[p] = "clear"
     /\ UNCHANGED <<capture_mode, complete, late>>

Leaves(p) ==
  /\ UNCHANGED Shared
  /\ ~(manager_pc'[p] \in {"settings", "collect", "reset"})
  /\ M!Ended(p) /\ ~M!Ended(p)' =>
       Kind[p] # "dataset" /\ (Kind[p] = "capture" => capture_mode = "IDLE")
  /\ manager_pc[p] # "collect"

LEMMA CommandSteps ==
  ASSUME M!ManagerAssumption, Control, Kept, NEW p \in Workers, M!Command(p)
  PROVE WorkerAt(p)' /\ (Touches(p) \/ Leaves(p))
<1>p. p \in M!Threads /\ p # M!loop
  BY DEF M!Threads, M!ManagerAssumption
<1>k. WorkerAt(p)
  BY DEF Kept
<1>s. /\ \A from, to : M!Goto(p, from, to) =>
           manager_pc[p] = from /\ manager_pc'[p] = to /\ ret'[p] = ret[p]
      /\ \A from, to : M!Notify(p, from, to) =>
           manager_pc[p] = from /\ manager_pc'[p] = to /\ ret'[p] = ret[p]
      /\ \A from, what, cams, to : M!Call(p, from, what, cams, to) =>
           manager_pc[p] = from /\ manager_pc'[p] \in {what, to} /\ ret'[p] = to
      /\ M!Step(p) => manager_pc'[p] \in {manager_pc[p], ret[p]} /\ ret'[p] = ret[p]
  <2>1. /\ \A from, to : M!Goto(p, from, to) =>
             manager_pc[p] = from /\ manager_pc'[p] = to /\ ret'[p] = ret[p]
        /\ \A from, to : M!Notify(p, from, to) =>
             manager_pc[p] = from /\ manager_pc'[p] = to /\ ret'[p] = ret[p]
    BY <1>p DEF Control, M!Goto, M!Notify
  <2>2. \A from, what, cams, to : M!Call(p, from, what, cams, to) =>
          manager_pc[p] = from /\ manager_pc'[p] \in {what, to} /\ ret'[p] = to
    BY <1>p DEF Control, M!Call
  <2>3. M!Step(p) => manager_pc'[p] \in {manager_pc[p], ret[p]} /\ ret'[p] = ret[p]
    BY <1>p DEF Control, M!Step
  <2> QED BY <2>1, <2>2, <2>3
<1> USE DEF WorkerAt, Going, M!Ended, Shared
<1>1. CASE M!Enable(p) \/ M!Disable(p) \/ M!DatasetEnables(p) \/ M!StopDisables(p)
  BY <1>1, <1>s, <1>k DEF M!Enable, M!Disable, M!DatasetEnables, M!StopDisables, M!Starts,
     M!CallEnable, M!CallDisable, M!modes, Leaves
<1>2. CASE \/ M!Capture(p) \/ M!CaptureRefused(p) \/ M!Display(p)
           \/ M!DisplayEnds(p) \/ M!StopDisplay(p) \/ M!StopLoops(p) \/ M!StopNotifies(p)
  BY <1>2, <1>s, <1>k DEF M!Capture, M!CaptureRefused, M!Display,
     M!DisplayEnds, M!StopDisplay, M!StopLoops, M!StopNotifies, M!Starts, M!modes, Leaves
<1>3. CASE M!CaptureSet(p) \/ M!DatasetResets(p) \/ M!DatasetConfigures(p)
  BY <1>3, <1>s, <1>k DEF M!CaptureSet, M!DatasetResets, M!DatasetConfigures, M!Starts, Touches
<1>4. CASE M!DatasetSetsMode(p) \/ M!DatasetStops(p) \/ M!DatasetUndoes(p)
  BY <1>4, <1>s, <1>k DEF M!DatasetSetsMode, M!DatasetStops, M!DatasetUndoes, Touches
<1>5. CASE \/ M!DatasetMasks(p) \/ M!DatasetRefused(p) \/ M!DatasetClears(p)
           \/ M!PrepareFails(p)
  BY <1>5, <1>s, <1>k DEF M!DatasetMasks, M!DatasetRefused, M!DatasetClears, M!PrepareFails,
     M!modes, Leaves
<1>6. CASE M!PrepareCounts(p) \/ M!PrepareChecks(p)
  BY <1>6, <1>s, <1>k DEF M!PrepareCounts, M!PrepareChecks, M!CallEnable, M!CallDisable,
       M!modes, Leaves
<1>7. CASE M!EnableOne(p) \/ M!DisableOne(p)
  BY <1>7, <1>s, <1>k DEF M!EnableOne, M!DisableOne, M!modes, Leaves
<1> QED BY <1>1, <1>2, <1>3, <1>4, <1>5, <1>6, <1>7 DEF M!Command

LEMMA KeptCommand ==
  ASSUME M!ManagerAssumption, Control, Data, Histories, Kept, NEW p \in Workers, M!Command(p)
  PROVE Kept'
<1>m. Mode \notin {"IDLE", "CAPTURE_SINGLE"}
  BY DEF M!ManagerAssumption, M!Periodic
<1>t. /\ Turn' = Turn /\ lmode' = lmode
      /\ manager_pc'[M!loop] \in {"idle", "defaults"} =>
           manager_pc[M!loop] \in {"idle", "defaults"}
  BY CommandMoves DEF Turn, Going
<1>o. \A q \in Workers \ {p} : manager_pc'[q] = manager_pc[q] /\ M!Ended(q)' = M!Ended(q)
  BY CommandMoves DEF M!Ended
<1>1. \A q \in Workers : WorkerAt(q)'
  BY CommandMoves, CommandSteps DEF Kept, WorkerAt, Going
<1>2. LoopAt'
  BY <1>t, CommandMoves DEF Kept, LoopAt, Going
<1>w. M!OtherAtWork(p) = FALSE => /\ \A q \in Workers : Kind[q] = "capture" /\ q # p => M!Ended(q)
                           /\ ~Turn
  BY DEF M!OtherAtWork, Kept, LoopAt, Turn, Going
<1>3. CASE Leaves(p)
  <2>1. Alone'
    BY <1>3, <1>o DEF Leaves, Kept, Alone
  <2>2. ModeIsHeld'
    BY <1>3, <1>o DEF Leaves, Shared, Kept, ModeIsHeld
  <2>3. ASSUME NEW q \in Workers, Kind[q] = "dataset", ~late'
        PROVE  NumberIsKept(q)' /\ ModeIsKept(q)'
    <3>1. NumberIsKept(q) /\ ModeIsKept(q) /\ ~late /\ UNCHANGED Shared
      BY <1>3, <2>3 DEF Kept, Leaves, Shared
    <3>2. CASE q = p
      BY <1>3, <3>2 DEF Leaves, NumberIsKept, ModeIsKept
    <3>3. CASE q # p
      BY <1>3, <1>m, <1>o, <1>t, <3>1, <3>3 DEF Leaves, Shared, NumberIsKept, ModeIsKept
    <3> QED BY <3>2, <3>3
  <2> QED BY <1>1, <1>2, <2>1, <2>2, <2>3 DEF Kept
<1>4. CASE Touches(p)
  <2>1. Alone'
    BY <1>4, <1>o DEF Touches, Kept, Alone, M!Ended
  <2>2. ModeIsHeld'
    BY <1>4, <1>m, <1>o DEF Touches, Kept, ModeIsHeld
  <2>3. ASSUME NEW q \in Workers, Kind[q] = "dataset", ~late', q # p
        PROVE  NumberIsKept(q)' /\ ModeIsKept(q)'
    <3>1. CASE Kind[p] = "dataset"
      <4>1. M!Ended(q)
        BY <1>4, <2>3, <3>1 DEF Touches, Kept, Alone, M!Ended
      <4> QED BY <1>o, <2>3, <4>1 DEF M!Ended, NumberIsKept, ModeIsKept
    <3>2. CASE Kind[p] # "dataset"
      <4>1. /\ Kind[p] = "capture" /\ ~M!Ended(p)
            /\ UNCHANGED <<to_capture, complete, late>>
        BY <1>4, <3>2 DEF Touches, M!Ended
      <4>2. NumberIsKept(q) /\ ModeIsKept(q)
        BY <2>3, <4>1 DEF Kept
      <4> QED BY <1>o, <1>t, <2>3, <4>1, <4>2 DEF NumberIsKept, ModeIsKept
    <3> QED BY <3>1, <3>2
  <2>4. ASSUME Kind[p] = "dataset", ~late' PROVE NumberIsKept(p)' /\ ModeIsKept(p)'
    <3>1. CASE manager_pc'[p] \notin {"settings", "collect"}
      BY <3>1 DEF NumberIsKept, ModeIsKept
    <3>2. CASE manager_pc'[p] = "settings"
      <4>1. to_capture' = Target /\ M!OtherAtWork(p) = FALSE
        BY <1>4, <2>4, <3>2 DEF Touches, M!OtherAtWork
      <4> QED BY <1>t, <1>w, <3>2, <4>1 DEF NumberIsKept, ModeIsKept
    <3>3. CASE manager_pc'[p] = "collect"
      <4>1. /\ capture_mode' = Mode /\ M!OtherAtWork(p) = FALSE /\ ~late
            /\ to_capture' = to_capture /\ manager_pc[p] = "settings"
        BY <1>4, <2>4, <3>3 DEF Touches, M!OtherAtWork, Histories
      <4>2. to_capture = Target
        BY <2>4, <4>1 DEF Kept, NumberIsKept
      <4> QED BY <1>t, <1>w, <1>o, <2>4, <3>3, <4>1, <4>2 DEF NumberIsKept, ModeIsKept
    <3> QED BY <3>1, <3>2, <3>3
  <2> QED BY <1>1, <1>2, <2>1, <2>2, <2>3, <2>4 DEF Kept
<1> QED BY <1>3, <1>4, CommandSteps

\* RunLoop moves no worker, enters a turn with the mode that it finds, and stores IDLE
\* and the defaults in the last steps of a turn only.
LEMMA LoopMoves ==
  ASSUME M!ManagerAssumption, Control, Data, Kept, M!RunLoop
  PROVE /\ \A q \in Workers : manager_pc'[q] = manager_pc[q] /\ ret'[q] = ret[q]
        /\ LoopAt'
        /\ UNCHANGED late /\ complete \in BOOLEAN /\ (complete => complete')
        /\ \/ lmode' = lmode /\ (Turn' => Turn)
           \/ ~Turn /\ (Turn' => lmode' = capture_mode)
        /\ \/ UNCHANGED <<capture_mode, to_capture>>
           \/ manager_pc[M!loop] = "idle" /\ to_capture' = to_capture /\ capture_mode' = "IDLE"
           \/ manager_pc[M!loop] = "defaults" /\ capture_mode' = capture_mode
        /\ manager_pc'[M!loop] \in {"idle", "defaults"} =>
             \/ lmode = "CAPTURE_SINGLE" /\ Turn
             \/ complete' \/ manager_pc[M!loop] = "idle"
        /\ manager_pc[M!loop] \in {"idle", "defaults"} => Turn
<1>p. /\ M!loop \in M!Threads /\ Workers \subseteq M!Threads /\ M!loop \notin Workers
  BY DEF M!Threads, M!ManagerAssumption
<1>m. Mode \notin {"IDLE", "CAPTURE_SINGLE"}
  BY DEF M!ManagerAssumption, M!Periodic
<1>n. /\ LoopAt /\ complete \in BOOLEAN
      /\ capture_mode \in {"IDLE", "CAPTURE_SINGLE", Mode}
      /\ lmode \in {"IDLE", "CAPTURE_SINGLE", Mode}
  BY DEF Kept, Data
<1>s. /\ \A from, to : M!Goto(M!loop, from, to) =>
           /\ manager_pc[M!loop] = from /\ manager_pc'[M!loop] = to /\ ret' = ret
           /\ \A q \in Workers : manager_pc'[q] = manager_pc[q]
      /\ \A from, what, cams, to : M!Call(M!loop, from, what, cams, to) =>
           /\ manager_pc[M!loop] = from /\ manager_pc'[M!loop] = IF cams = {} THEN to ELSE what
           /\ ret'[M!loop] = to
           /\ \A q \in Workers : manager_pc'[q] = manager_pc[q] /\ ret'[q] = ret[q]
      /\ M!Step(M!loop) =>
           /\ manager_pc'[M!loop] \in {manager_pc[M!loop], ret[M!loop]} /\ ret' = ret
           /\ \A q \in Workers : manager_pc'[q] = manager_pc[q]
  <2>1. \A from, to : M!Goto(M!loop, from, to) =>
          /\ manager_pc[M!loop] = from /\ manager_pc'[M!loop] = to /\ ret' = ret
          /\ \A q \in Workers : manager_pc'[q] = manager_pc[q]
    BY <1>p DEF Control, M!Goto
  <2>2. \A from, what, cams, to : M!Call(M!loop, from, what, cams, to) =>
          /\ manager_pc[M!loop] = from /\ manager_pc'[M!loop] = IF cams = {} THEN to ELSE what
          /\ ret'[M!loop] = to
          /\ \A q \in Workers : manager_pc'[q] = manager_pc[q] /\ ret'[q] = ret[q]
    BY <1>p DEF Control, M!Call
  <2>3. M!Step(M!loop) =>
          /\ manager_pc'[M!loop] \in {manager_pc[M!loop], ret[M!loop]} /\ ret' = ret
          /\ \A q \in Workers : manager_pc'[q] = manager_pc[q]
    BY <1>p DEF Control, M!Step
  <2> QED BY <2>1, <2>2, <2>3
<1> USE DEF LoopAt, Turn, Going
<1>1. CASE M!LoopTests \/ M!LoopPredicate \/ M!LoopBlocks \/ M!LoopSkips
  BY <1>1, <1>s, <1>n DEF M!LoopTests, M!LoopPredicate, M!LoopBlocks, M!LoopSkips, M!modes,
       M!runs
<1>2. CASE M!LoopSaves \/ M!LoopInfers
  <2>1. /\ UNCHANGED <<capture_mode, to_capture, complete, late, lmode>>
        /\ \A q \in Workers : manager_pc'[q] = manager_pc[q] /\ ret'[q] = ret[q]
        /\ manager_pc[M!loop] \in {"save", "infer"} /\ lmode # "IDLE"
        /\ \/ manager_pc'[M!loop] = M!Saved
           \/ Going(M!loop)' /\ ret'[M!loop] = M!Saved
           \/ manager_pc'[M!loop] = "infer" /\ lmode = Mode
           \/ Going(M!loop)' /\ ret'[M!loop] = "infer" /\ lmode = Mode
    BY <1>2, <1>s, <1>n DEF M!LoopSaves, M!LoopInfers, M!CallEnable, M!CallDisable, M!modes
  <2>2. M!Saved = IF lmode = "CAPTURE_SINGLE" THEN "auto_disable" ELSE "count"
    BY DEF M!Saved
  <2> QED BY <2>1, <2>2, <1>n
<1>3. CASE M!LoopAutoDisables
  BY <1>3, <1>s, <1>n DEF M!LoopAutoDisables, M!CallDisable, M!modes, M!runs
<1>4. CASE M!LoopCounts
  <2>1. /\ manager_pc[M!loop] = "count" /\ ret' = ret
        /\ \A q \in Workers : manager_pc'[q] = manager_pc[q]
        /\ UNCHANGED <<capture_mode, to_capture, late, lmode>>
    BY <1>4, <1>s DEF M!LoopCounts, M!runs
  <2>2. CASE captured + saved >= to_capture
    <3>1. (captured + saved >= to_capture) = TRUE
      BY <2>2
    <3>2. complete' = TRUE /\ manager_pc'[M!loop] = "idle"
      BY <1>4, <1>n, <1>s, <3>1 DEF M!LoopCounts
    <3> QED BY <1>n, <2>1, <3>2
  <2>3. CASE ~(captured + saved >= to_capture)
    <3>1. (captured + saved >= to_capture) = FALSE
      BY <2>3
    <3>2. complete' = complete /\ manager_pc'[M!loop] = "health"
      BY <1>4, <1>n, <1>s, <3>1 DEF M!LoopCounts
    <3> QED BY <1>n, <2>1, <3>2
  <2> QED BY <2>2, <2>3
<1>5. CASE M!LoopIdles \/ M!LoopDefaults
  BY <1>5, <1>s, <1>n DEF M!LoopIdles, M!LoopDefaults, M!runs
<1>6. CASE M!LoopHealthy \/ M!LoopRestarts
  <2>1. /\ \/ manager_pc'[M!loop] = "test"
           \/ manager_pc'[M!loop] = "enabling" /\ ret'[M!loop] = "test"
        /\ \A q \in Workers : manager_pc'[q] = manager_pc[q] /\ ret'[q] = ret[q]
        /\ manager_pc[M!loop] = "health"
    <3>1. CASE M!LoopHealthy
      BY <3>1, <1>s DEF M!LoopHealthy
    <3>2. CASE M!LoopRestarts
      <4>1. PICK c \in Erring \cap active : M!Call(M!loop, "health", "enabling", {c}, "test")
        BY <3>2 DEF M!LoopRestarts
      <4> QED BY <4>1, <1>s
    <3> QED BY <1>6, <3>1, <3>2
  <2>2. UNCHANGED <<capture_mode, to_capture, lmode, complete, late>>
    BY <1>6 DEF M!LoopHealthy, M!LoopRestarts, M!modes, M!runs
  <2> QED BY <2>1, <2>2, <1>n
<1>7. CASE M!EnableOne(M!loop) \/ M!DisableOne(M!loop)
  <2>1. /\ UNCHANGED <<capture_mode, to_capture, lmode, complete, late>> /\ Going(M!loop)
        /\ M!Step(M!loop)
    BY <1>7 DEF M!EnableOne, M!DisableOne, M!modes, M!runs
  <2> QED BY <2>1, <1>s, <1>n
<1> QED BY <1>1, <1>2, <1>3, <1>4, <1>5, <1>6, <1>7 DEF M!RunLoop

LEMMA KeptLoop ==
  ASSUME M!ManagerAssumption, Control, Data, Kept, M!RunLoop
  PROVE Kept'
<1>m. Mode \notin {"IDLE", "CAPTURE_SINGLE"}
  BY DEF M!ManagerAssumption, M!Periodic
<1>o. \A q \in Workers : manager_pc'[q] = manager_pc[q] /\ ret'[q] = ret[q]
  BY LoopMoves
<1>1. /\ \A q \in Workers : WorkerAt(q)'
      /\ Alone' /\ LoopAt'
  BY <1>o, LoopMoves DEF Kept, WorkerAt, Going, Alone, M!Ended
<1>2. ModeIsHeld'
  BY <1>m, <1>o, LoopMoves DEF Kept, ModeIsHeld
<1>3. ASSUME NEW q \in Workers, Kind[q] = "dataset", ~late'
      PROVE  NumberIsKept(q)' /\ ModeIsKept(q)'
  <2>1. NumberIsKept(q) /\ ModeIsKept(q) /\ ~late
    BY <1>3, LoopMoves DEF Kept
  <2>2. NumberIsKept(q)'
    <3> SUFFICES ASSUME manager_pc[q] = "settings"
                 PROVE  to_capture' = Target /\ (Turn' => lmode' # Mode)
      BY <1>o DEF NumberIsKept
    <3>1. to_capture = Target /\ (Turn => lmode # Mode)
      BY <2>1 DEF NumberIsKept
    <3>2. capture_mode # Mode
      BY <1>3 DEF Kept, ModeIsHeld, Alone, M!Ended
    <3>3. manager_pc[M!loop] # "defaults"
      BY <3>1 DEF Kept, LoopAt, Turn
    <3> QED BY <3>1, <3>2, <3>3, LoopMoves
  <2>3. ModeIsKept(q)'
    <3> SUFFICES ASSUME manager_pc[q] = "collect", ~complete'
                 PROVE  /\ capture_mode' = Mode /\ to_capture' = Target
                        /\ \A r \in Workers : Kind[r] = "capture" => M!Ended(r)'
                        /\ Turn' => /\ lmode' = Mode
                                    /\ manager_pc'[M!loop] \notin {"idle", "defaults"}
      BY <1>o DEF ModeIsKept
    <3>1. /\ capture_mode = Mode /\ to_capture = Target
          /\ \A r \in Workers : Kind[r] = "capture" => M!Ended(r)
          /\ Turn => lmode = Mode /\ manager_pc[M!loop] \notin {"idle", "defaults"}
      BY <2>1, LoopMoves DEF ModeIsKept
    <3>2. manager_pc[M!loop] \notin {"idle", "defaults"}
      BY <3>1, LoopMoves
    <3>3. capture_mode' = Mode /\ to_capture' = Target /\ (Turn' => lmode' = Mode)
      BY <3>1, <3>2, LoopMoves
    <3>4. ASSUME manager_pc'[M!loop] \in {"idle", "defaults"} PROVE FALSE
      <4>1. lmode = "CAPTURE_SINGLE" /\ Turn /\ Turn'
        BY <3>2, <3>4, LoopMoves DEF Turn
      <4>2. lmode' = lmode
        BY <4>1, LoopMoves
      <4> QED BY <1>m, <3>3, <4>1, <4>2
    <3> QED BY <1>o, <3>1, <3>3, <3>4 DEF M!Ended
  <2> QED BY <2>2, <2>3
<1> QED BY <1>1, <1>2, <1>3 DEF Kept

LEMMA KeptNext ==
  M!ManagerAssumption /\ Control /\ Data /\ Histories /\ Kept /\ [M!Next]_(M!vars) => Kept'
<1>1. Kept /\ UNCHANGED M!vars => Kept'
  BY DEF M!vars, M!modes, M!subs, M!runs, Kept, WorkerAt, Alone, M!Ended, LoopAt, Turn,
     Going, ModeIsHeld, NumberIsKept, ModeIsKept
<1> QED BY <1>1, KeptCommand, KeptLoop DEF M!Next

\* Whatever the threads do, a dataset keeps its mode and its number until its frames
\* have been captured, unless a capture command or a turn of RunLoop was at work when it
\* set them.
THEOREM SettingsAreKeptHolds == ASSUME M!ManagerAssumption PROVE M!Spec => []M!SettingsAreKept
<1>1. Kept => M!SettingsAreKept
  BY DEF Kept, ModeIsKept, M!SettingsAreKept
<1>2. M!Init => Histories
  BY DEF M!Init, Histories
<1> QED BY <1>1, <1>2, M!ManagerAssumption, KeptInit, KeptNext, ManagerInit, ManagerTyped,
       HistoriesNext, PTL DEF M!Spec

-----------------------------------------------------------------------------
(* Imu: where the threads are *)

ImuPlaces == {"sent", "start", "start_mag", "configure", "open", "collect", "collecting",
           "lock_off", "gyro_off", "mag_off", "close", "drain", "done", "test", "lock",
           "gyro", "temp", "mag", "unlock", "log", "error", "suspend"}

\* RunLoop has passed the test of its bound before it locks; the telemetry thread
\* has one place only.
Typed ==
  /\ I!TypeOK
  /\ imu_pc[I!tlm] = "test"
  /\ imu_pc \in [I!Threads -> ImuPlaces]
  /\ imu_pc[I!loop] = "lock" => samples < MaxSamples

-----------------------------------------------------------------------------
(* Imu: types *)

LEMMA ThreadNames ==
  ASSUME I!ImuAssumption
  PROVE /\ I!loop \in I!Threads /\ I!tlm \in I!Threads /\ I!loop # I!tlm
        /\ \A d \in Datasets : d \in I!Threads /\ d # I!loop /\ d # I!tlm
        /\ NoFile \notin Datasets
  BY DEF I!ImuAssumption, I!Threads, I!loop, I!tlm

LEMMA TypedInit == I!ImuAssumption /\ I!Init => Typed
<1> SUFFICES ASSUME I!ImuAssumption, I!Init PROVE Typed
  OBVIOUS
<1>1. imu_pc \in [I!Threads -> ImuPlaces] /\ imu_pc[I!loop] = "test" /\ imu_pc[I!tlm] = "test"
  BY ThreadNames DEF I!Init, ImuPlaces
<1>2. io \in [I!Threads -> {"none", "gyro", "temp", "mag", "STATUS", "ERR_REG"}]
  BY DEF I!Init
<1>3. /\ power \in [I!Sensors -> {"NORMAL", "SUSPEND", "FAST_START_UP"}]
      /\ missed \subseteq I!Sensors /\ pointer \in I!Registers
  BY DEF I!Init, I!Registers
<1>4. samples \in 0..MaxSamples
  BY DEF I!Init, I!ImuAssumption
<1>5. i2c_mutex = (imu_pc[I!loop] \in {"gyro", "temp", "mag", "unlock"})
  <2>1. i2c_mutex = FALSE /\ imu_pc[I!loop] \notin {"gyro", "temp", "mag", "unlock"}
    BY <1>1 DEF I!Init
  <2>2. (imu_pc[I!loop] \in {"gyro", "temp", "mag", "unlock"}) = FALSE
    BY <2>1
  <2> QED BY <2>1, <2>2
<1>6. /\ state \in I!States /\ collection_mode \in I!Modes /\ imu_pc[I!loop] # "lock"
      /\ log_file = NoFile /\ ofs = NoFile
  BY <1>1 DEF I!Init, I!States, I!Modes
<1>7. failed = FALSE /\ mixed = {} /\ asleep = FALSE
  BY DEF I!Init
<1> QED BY <1>1, <1>2, <1>3, <1>4, <1>5, <1>6, <1>7 DEF Typed, I!TypeOK

\* Of the bus and the power.
BusTyped ==
  /\ io \in [I!Threads -> {"none", "gyro", "temp", "mag", "STATUS", "ERR_REG"}]
  /\ pointer \in I!Registers
  /\ mixed \subseteq I!Threads \X I!Registers /\ asleep \in BOOLEAN
  /\ power \in [I!Sensors -> {"NORMAL", "SUSPEND", "FAST_START_UP"}]
  /\ missed \subseteq I!Sensors

LEMMA TypedBus == Typed => BusTyped
  BY DEF Typed, I!TypeOK, BusTyped

\* A step of the driver.
LEMMA BusType ==
  ASSUME BusTyped, NEW p \in I!Threads
  PROVE /\ \A reg \in {"gyro", "temp", "mag", "STATUS", "ERR_REG"}, off \in BOOLEAN :
             (I!ReadAddresses(p, reg) \/ I!ReadData(p, reg, off)) /\ UNCHANGED I!powers
               => BusTyped'
        /\ \A s \in I!Sensors, mode \in {"NORMAL", "SUSPEND", "FAST_START_UP"},
              ok \in BOOLEAN : I!Power(s, mode, ok) => BusTyped'
<1>1. ASSUME NEW reg \in {"gyro", "temp", "mag", "STATUS", "ERR_REG"}, NEW off \in BOOLEAN,
             I!ReadAddresses(p, reg) \/ I!ReadData(p, reg, off), UNCHANGED I!powers
      PROVE  BusTyped'
  BY <1>1 DEF BusTyped, I!ReadAddresses, I!ReadData, I!powers, I!Registers
<1>2. ASSUME NEW s \in I!Sensors, NEW mode \in {"NORMAL", "SUSPEND", "FAST_START_UP"},
             NEW ok \in BOOLEAN, I!Power(s, mode, ok)
      PROVE  BusTyped'
  BY <1>2 DEF BusTyped, I!Power, I!Write, I!bus, I!Registers
<1> QED BY <1>1, <1>2

\* A thread that is not RunLoop leaves the lock of RunLoop alone.
LEMMA ControlTyped ==
  ASSUME I!ImuAssumption, Typed, NEW d \in Datasets, I!Control(d)
  PROVE Typed'
<1>n. /\ d \in I!Threads /\ d # I!loop /\ d # I!tlm
      /\ I!loop \in I!Threads /\ I!tlm \in I!Threads
  BY ThreadNames
<1>s. UNCHANGED I!sampling
  BY DEF I!Control, I!Configure, I!StartRefused, I!StartGyro, I!StartMag,
       I!StartConfigures, I!StartOpens, I!StartFails, I!StartCollects, I!SuspendSkips,
       I!SuspendBegins, I!Suspend, I!SuspendLocks, I!SuspendGyro, I!SuspendMag,
       I!SuspendCloses, I!SuspendDrains
<1>p. imu_pc' = imu_pc \/ \E to \in ImuPlaces : imu_pc' = [imu_pc EXCEPT ![d] = to]
  <2>1. ASSUME NEW from, NEW to \in ImuPlaces, I!Goto(d, from, to)
        PROVE  \E at \in ImuPlaces : imu_pc' = [imu_pc EXCEPT ![d] = at]
    BY <2>1 DEF I!Goto
  <2>2. CASE \/ I!Configure(d) \/ I!StartRefused(d) \/ I!StartGyro(d) \/ I!StartMag(d)
             \/ I!StartConfigures(d) \/ I!StartOpens(d) \/ I!StartFails(d) \/ I!StartCollects(d)
    BY <2>1, <2>2 DEF I!Configure, I!StartRefused, I!StartGyro, I!StartMag,
         I!StartConfigures, I!StartOpens, I!StartFails, I!StartCollects, ImuPlaces
  <2>3. CASE \/ I!SuspendSkips(d, "collecting") \/ I!SuspendBegins(d, "collecting")
             \/ I!Suspend(d)
    BY <1>n, <2>1, <2>3 DEF I!SuspendSkips, I!SuspendBegins, I!Suspend, I!SuspendLocks,
         I!SuspendGyro, I!SuspendMag, I!SuspendCloses, I!SuspendDrains, I!Back, ImuPlaces
  <2> QED BY <2>2, <2>3 DEF I!Control
<1>1. /\ UNCHANGED I!sampling /\ imu_pc' \in [I!Threads -> ImuPlaces]
      /\ imu_pc'[I!loop] = imu_pc[I!loop] /\ imu_pc'[I!tlm] = imu_pc[I!tlm]
  BY <1>n, <1>s, <1>p DEF Typed
<1>2. state' \in I!States /\ collection_mode' \in I!Modes
  <2>1. state' \in {state, "ERROR_DEVICE", "COLLECT", "IDLE"}
    BY DEF I!Control, I!Configure, I!StartRefused, I!StartGyro, I!StartMag, I!StartConfigures,
         I!StartOpens, I!StartFails, I!StartCollects, I!SuspendSkips, I!SuspendBegins,
         I!Suspend, I!SuspendLocks, I!SuspendGyro, I!SuspendMag, I!SuspendCloses,
         I!SuspendDrains
  <2>2. collection_mode' \in {collection_mode, Wanted[d]}
    BY DEF I!Control, I!Configure, I!StartRefused, I!StartGyro, I!StartMag, I!StartConfigures,
         I!StartOpens, I!StartFails, I!StartCollects, I!SuspendSkips, I!SuspendBegins,
         I!Suspend, I!SuspendLocks, I!SuspendGyro, I!SuspendMag, I!SuspendCloses,
         I!SuspendDrains, I!config
  <2> QED BY <2>1, <2>2 DEF Typed, I!TypeOK, I!States, I!ImuAssumption
<1>3. log_file' \in Datasets \cup {NoFile} /\ ofs' \in Datasets \cup {NoFile}
  BY DEF I!Control, I!Configure, I!StartRefused, I!StartGyro, I!StartMag, I!StartConfigures,
       I!StartOpens, I!StartFails, I!StartCollects, I!SuspendSkips, I!SuspendBegins,
       I!Suspend, I!SuspendLocks, I!SuspendGyro, I!SuspendMag, I!SuspendCloses,
       I!SuspendDrains, I!config, Typed, I!TypeOK
<1>b. BusTyped
  BY TypedBus
<1>4. BusTyped'
  <2>1. CASE I!StartGyro(d) \/ I!StartMag(d) \/ I!SuspendGyro(d) \/ I!SuspendMag(d)
    BY <2>1, <1>n, <1>b, BusType
      DEF I!StartGyro, I!StartMag, I!SuspendGyro, I!SuspendMag, I!Sensors, I!Ok
  <2>2. CASE I!SuspendDrains(d)
    BY <2>2, <1>n, <1>b, BusType DEF I!SuspendDrains
  <2>3. CASE I!StartConfigures(d)
    BY <2>3, <1>b DEF I!StartConfigures, I!Write, I!powers, I!Registers, BusTyped
  <2>4. CASE UNCHANGED <<I!bus, I!powers>>
    BY <2>4, <1>b DEF I!bus, I!powers, BusTyped
  <2> QED
    BY <2>1, <2>2, <2>3, <2>4
      DEF I!Control, I!Configure, I!StartRefused, I!StartOpens, I!StartFails, I!StartCollects,
          I!SuspendSkips, I!SuspendBegins, I!Suspend, I!SuspendLocks, I!SuspendCloses
<1> QED BY <1>1, <1>2, <1>3, <1>4 DEF Typed, I!TypeOK, I!sampling, BusTyped

LEMMA LoopTyped ==
  ASSUME I!ImuAssumption, Typed, I!RunLoop
  PROVE Typed'
<1>n. I!loop \in I!Threads /\ I!tlm \in I!Threads /\ I!loop # I!tlm
  BY ThreadNames
<1>1. imu_pc' \in [I!Threads -> ImuPlaces] /\ imu_pc'[I!tlm] = imu_pc[I!tlm]
  BY <1>n DEF I!RunLoop, I!LoopSeesCollect, I!LoopLocks, I!LoopAsks, I!LoopReads,
       I!LoopUnlocks, I!LoopLogs, I!LoopSeesError, I!LoopReadsError, I!SuspendSkips,
       I!SuspendBegins, I!Suspend, I!SuspendLocks, I!SuspendGyro, I!SuspendMag,
       I!SuspendCloses, I!SuspendDrains, I!Goto, I!Back, I!NextRead, Typed, ImuPlaces
<1>2. state' \in I!States /\ UNCHANGED I!config
  BY DEF I!RunLoop, I!LoopSeesCollect, I!LoopLocks, I!LoopAsks, I!LoopReads, I!LoopUnlocks,
       I!LoopLogs, I!LoopSeesError, I!LoopReadsError, I!SuspendSkips, I!SuspendBegins,
       I!Suspend, I!SuspendLocks, I!SuspendGyro, I!SuspendMag, I!SuspendCloses,
       I!SuspendDrains, I!config, Typed, I!TypeOK, I!States
<1>3. ofs' \in Datasets \cup {NoFile}
  BY DEF I!RunLoop, I!LoopSeesCollect, I!LoopLocks, I!LoopAsks, I!LoopReads, I!LoopUnlocks,
       I!LoopLogs, I!LoopSeesError, I!LoopReadsError, I!SuspendSkips, I!SuspendBegins,
       I!Suspend, I!SuspendLocks, I!SuspendGyro, I!SuspendMag, I!SuspendCloses,
       I!SuspendDrains, Typed, I!TypeOK
<1>b. BusTyped
  BY TypedBus
<1>4. BusTyped'
  <2>1. CASE I!SuspendGyro(I!loop) \/ I!SuspendMag(I!loop)
    BY <2>1, <1>n, <1>b, BusType DEF I!SuspendGyro, I!SuspendMag, I!Sensors, I!Ok
  <2>2. CASE I!SuspendDrains(I!loop) \/ I!LoopReadsError
    BY <2>2, <1>n, <1>b, BusType DEF I!SuspendDrains, I!LoopReadsError
  <2>3. CASE I!LoopAsks
    BY <2>3, <1>n, <1>b, BusType DEF I!LoopAsks
  <2>4. CASE I!LoopReads
    BY <2>4, <1>n, <1>b, BusType DEF I!LoopReads, I!Off, I!powers
  <2>5. CASE UNCHANGED <<I!bus, I!powers>>
    BY <2>5, <1>b DEF I!bus, I!powers, BusTyped
  <2> QED
    BY <2>1, <2>2, <2>3, <2>4, <2>5
      DEF I!RunLoop, I!LoopSeesCollect, I!LoopLocks, I!LoopUnlocks, I!LoopLogs,
          I!LoopSeesError, I!SuspendSkips, I!SuspendBegins, I!Suspend, I!SuspendLocks,
          I!SuspendCloses
<1>5. /\ i2c_mutex' = (imu_pc'[I!loop] \in {"gyro", "temp", "mag", "unlock"})
      /\ samples' \in 0..MaxSamples
      /\ imu_pc'[I!loop] = "lock" => samples' < MaxSamples
      /\ failed' \in BOOLEAN
  <2>1. CASE I!LoopLocks
    <3>1. samples' \in 0..MaxSamples /\ imu_pc'[I!loop] # "lock"
      BY <2>1, <1>n DEF I!LoopLocks, I!Goto, I!sampling, Typed, I!TypeOK, I!ImuAssumption
    <3>2. CASE state = "COLLECT"
      <4>1. i2c_mutex' = TRUE /\ failed' = FALSE /\ imu_pc'[I!loop] = "gyro"
        BY <2>1, <3>2, <1>n DEF I!LoopLocks, I!Goto, Typed
      <4> QED BY <3>1, <4>1
    <3>3. CASE state # "COLLECT"
      <4>1. imu_pc[I!loop] = "lock" /\ imu_pc'[I!loop] = "test" /\ UNCHANGED I!sampling
        BY <2>1, <3>3, <1>n DEF I!LoopLocks, I!Goto, Typed
      <4> QED BY <3>1, <4>1 DEF I!sampling, Typed, I!TypeOK
    <3> QED BY <3>2, <3>3
  <2>2. CASE I!LoopReads
    BY <2>2, <1>n DEF I!LoopReads, I!Goto, I!NextRead, I!Ok, Typed, I!TypeOK
  <2>3. CASE I!LoopUnlocks
    <3>1. i2c_mutex' = FALSE /\ imu_pc'[I!loop] \in {"test", "log"}
      BY <2>3, <1>n DEF I!LoopUnlocks, I!Goto, Typed
    <3>2. samples' = samples /\ failed' = failed
      BY <2>3 DEF I!LoopUnlocks
    <3>3. (imu_pc'[I!loop] \in {"gyro", "temp", "mag", "unlock"}) = FALSE
      BY <3>1
    <3> QED BY <3>1, <3>2, <3>3 DEF Typed, I!TypeOK
  <2>4. CASE I!LoopSeesCollect \/ I!LoopAsks
    BY <2>4, <1>n DEF I!LoopSeesCollect, I!LoopAsks, I!Goto, I!sampling, Typed, I!TypeOK
  <2>5. ASSUME UNCHANGED I!sampling,
               imu_pc[I!loop] \in {"test", "log", "error", "suspend", "lock_off", "gyro_off",
                             "mag_off", "close", "drain"},
               imu_pc'[I!loop] \in {"test", "error", "suspend", "lock_off", "gyro_off",
                              "mag_off", "close", "drain"}
        PROVE /\ i2c_mutex' = (imu_pc'[I!loop] \in {"gyro", "temp", "mag", "unlock"})
              /\ samples' \in 0..MaxSamples
              /\ imu_pc'[I!loop] = "lock" => samples' < MaxSamples
              /\ failed' \in BOOLEAN
    BY <2>5 DEF I!sampling, Typed, I!TypeOK
  <2>6. CASE I!LoopLogs \/ I!LoopSeesError \/ I!LoopReadsError
             \/ I!SuspendSkips(I!loop, "suspend") \/ I!SuspendBegins(I!loop, "suspend")
             \/ I!Suspend(I!loop)
    BY <2>5, <2>6, <1>n
      DEF I!LoopLogs, I!LoopSeesError, I!LoopReadsError, I!SuspendSkips, I!SuspendBegins,
          I!Suspend, I!SuspendLocks, I!SuspendGyro, I!SuspendMag, I!SuspendCloses,
          I!SuspendDrains, I!Goto, I!Back, Typed
  <2> QED BY <2>1, <2>2, <2>3, <2>4, <2>6 DEF I!RunLoop
<1> QED BY <1>1, <1>2, <1>3, <1>4, <1>5 DEF Typed, I!TypeOK, I!config, BusTyped

LEMMA TypedNext == I!ImuAssumption /\ Typed /\ [I!Next]_(I!vars) => Typed'
<1>1. I!ImuAssumption /\ Typed /\ I!Temperature => Typed'
  <2> SUFFICES ASSUME I!ImuAssumption, Typed, I!Temperature PROVE Typed'
    OBVIOUS
  <2>1. BusTyped'
    BY BusType, TypedBus, ThreadNames DEF I!Temperature
  <2> QED BY <2>1 DEF I!Temperature, I!config, I!sampling, Typed, I!TypeOK, BusTyped
<1>2. Typed /\ UNCHANGED I!vars => Typed'
  BY DEF I!vars, I!config, I!bus, I!powers, I!sampling, Typed, I!TypeOK
<1> QED BY <1>1, <1>2, ControlTyped, LoopTyped DEF I!Next

LEMMA TypedHolds == ASSUME I!ImuAssumption PROVE I!Spec => []Typed
  BY I!ImuAssumption, TypedInit, TypedNext, PTL DEF I!Spec

\* Every variable keeps its type, and i2c_mutex is held exactly while RunLoop reads.
THEOREM ImuTypeCorrect == ASSUME I!ImuAssumption PROVE I!Spec => []I!TypeOK
<1>1. Typed => I!TypeOK
  BY DEF Typed
<1> QED BY <1>1, TypedHolds, PTL

-----------------------------------------------------------------------------
(* Imu: power *)

\* A sensor that is on while the state is IDLE is being started, or is about to
\* be suspended by who has stored IDLE, or has missed its last mode.
GyroCovered ==
  state = "IDLE" /\ power["GYRO"] = "NORMAL" =>
    \/ "GYRO" \in missed
    \/ \E d \in Datasets : imu_pc[d] \in {"start_mag", "configure", "open", "collect"}
    \/ \E p \in I!Threads : imu_pc[p] = "gyro_off"
MagCovered ==
  state = "IDLE" /\ power["MAG"] = "NORMAL" =>
    \/ "MAG" \in missed
    \/ \E d \in Datasets : imu_pc[d] \in {"configure", "open", "collect"}
    \/ \E p \in I!Threads : imu_pc[p] \in {"gyro_off", "mag_off"}

Covered == GyroCovered /\ MagCovered

LEMMA CoveredInit == I!Init => Covered
  BY DEF I!Init, Covered, GyroCovered, MagCovered, I!Sensors

\* Suspend, whoever calls it.
LEMMA CoveredSuspend ==
  ASSUME Typed, Covered, NEW p \in I!Threads, I!Suspend(p), p = I!loop \/ p \in Datasets
  PROVE Covered'
<1>1. \A q \in I!Threads \ {p} : imu_pc'[q] = imu_pc[q]
  BY DEF I!Suspend, I!SuspendLocks, I!SuspendGyro, I!SuspendMag, I!SuspendCloses,
         I!SuspendDrains, I!Goto, I!Back, Typed
<1>d. \A d \in Datasets : d \in I!Threads
  BY DEF I!Threads
<1>2. CASE I!SuspendLocks(p)
  <2>1. imu_pc'[p] = "gyro_off" /\ UNCHANGED <<power, missed>>
    BY <1>2 DEF I!SuspendLocks, I!Goto, I!powers, Typed
  <2> QED BY <2>1 DEF Covered, GyroCovered, MagCovered
<1>3. CASE I!SuspendGyro(p)
  <2>1. /\ imu_pc[p] = "gyro_off" /\ imu_pc'[p] = "mag_off" /\ state' = state
        /\ power'["GYRO"] # "NORMAL" \/ "GYRO" \in missed'
        /\ power'["MAG"] = power["MAG"] /\ ("MAG" \in missed => "MAG" \in missed')
    BY <1>3 DEF I!SuspendGyro, I!Power, I!Goto, Typed, I!TypeOK, I!Sensors
  <2> QED BY <1>1, <1>d, <2>1 DEF Covered, GyroCovered, MagCovered
<1>4. CASE I!SuspendMag(p)
  <2>1. /\ imu_pc[p] = "mag_off" /\ state' = state
        /\ power'["MAG"] # "NORMAL" \/ "MAG" \in missed'
        /\ power'["GYRO"] = power["GYRO"] /\ ("GYRO" \in missed => "GYRO" \in missed')
    BY <1>4 DEF I!SuspendMag, I!Power, I!Goto, Typed, I!TypeOK, I!Sensors
  <2> QED BY <1>1, <1>d, <2>1 DEF Covered, GyroCovered, MagCovered
<1>5. CASE I!SuspendCloses(p) \/ I!SuspendDrains(p)
  <2>1. imu_pc[p] \in {"close", "drain"} /\ UNCHANGED <<state, power, missed>>
    BY <1>5 DEF I!SuspendCloses, I!SuspendDrains, I!Goto, I!powers
  <2> QED BY <1>1, <1>d, <2>1 DEF Covered, GyroCovered, MagCovered
<1> QED BY <1>2, <1>3, <1>4, <1>5 DEF I!Suspend

\* A step that is neither a switch of power nor the end of a start.
LEMMA CoveredStep ==
  ASSUME Typed, Covered, NEW p \in I!Threads, UNCHANGED I!powers,
         state' \in {state, "COLLECT", "ERROR_DEVICE"},
         \A q \in I!Threads \ {p} : imu_pc'[q] = imu_pc[q],
         \/ state' # "IDLE"
         \/ imu_pc[p] \notin {"start_mag", "configure", "open", "collect", "gyro_off", "mag_off"}
         \/ imu_pc[p] \in {"configure", "open"} /\ imu_pc'[p] \in {"open", "collect"}
  PROVE Covered'
<1>d. \A d \in Datasets : d \in I!Threads
  BY DEF I!Threads
<1>1. CASE state' # "IDLE"
  BY <1>1 DEF Covered, GyroCovered, MagCovered
<1>2. CASE state' = "IDLE"
  <2>1. state = "IDLE"
    BY <1>2
  <2> QED BY <1>2, <2>1, <1>d DEF I!powers, Covered, GyroCovered, MagCovered
<1> QED BY <1>1, <1>2

LEMMA CoveredNext == I!ImuAssumption /\ Typed /\ Covered /\ [I!Next]_(I!vars) => Covered'
<1> SUFFICES ASSUME I!ImuAssumption, Typed, Covered, [I!Next]_(I!vars) PROVE Covered'
  OBVIOUS
<1>n. I!loop \in I!Threads /\ \A d \in Datasets : d \in I!Threads
  BY ThreadNames
<1>1. ASSUME NEW d \in Datasets, I!Control(d) PROVE Covered'
  <2>1. CASE I!StartGyro(d)
    <3>1. /\ imu_pc'[d] = "start_mag" /\ state' = state /\ power'["MAG"] = power["MAG"]
          /\ "MAG" \in missed => "MAG" \in missed'
          /\ imu_pc[d] = "start" /\ \A q \in I!Threads \ {d} : imu_pc'[q] = imu_pc[q]
      BY <2>1, <1>n DEF I!StartGyro, I!Power, I!Goto, Typed, I!TypeOK, I!Sensors
    <3> QED BY <3>1, <1>n DEF Covered, GyroCovered, MagCovered
  <2>2. CASE I!StartMag(d)
    <3>1. /\ imu_pc'[d] = "configure" /\ state' = state
          /\ "GYRO" \in missed => "GYRO" \in missed'
          /\ \A q \in I!Threads \ {d} : imu_pc'[q] = imu_pc[q]
      BY <2>2, <1>n DEF I!StartMag, I!Power, I!Goto, Typed
    <3> QED BY <3>1 DEF Covered, GyroCovered, MagCovered
  <2>3. CASE I!Suspend(d)
    BY <2>3, <1>n, CoveredSuspend
  <2>4. CASE I!StartConfigures(d) \/ I!StartOpens(d)
    <3>1. /\ UNCHANGED I!powers /\ state' = state /\ imu_pc[d] \in {"configure", "open"}
          /\ imu_pc'[d] \in {"open", "collect"} /\ \A q \in I!Threads \ {d} : imu_pc'[q] = imu_pc[q]
      BY <2>4, <1>n DEF I!StartConfigures, I!StartOpens, I!Goto, Typed
    <3> QED BY <3>1, <1>n, CoveredStep
  <2>5. CASE I!StartFails(d) \/ I!StartCollects(d)
    <3>1. /\ UNCHANGED I!powers /\ state' \in {"ERROR_DEVICE", "COLLECT"}
          /\ \A q \in I!Threads \ {d} : imu_pc'[q] = imu_pc[q]
      BY <2>5, <1>n DEF I!StartFails, I!StartCollects, I!Goto, Typed
    <3> QED BY <3>1, <1>n, CoveredStep
  <2>6. CASE I!Configure(d) \/ I!StartRefused(d) \/ I!SuspendSkips(d, "collecting")
             \/ I!SuspendBegins(d, "collecting")
    <3>1. /\ UNCHANGED I!powers /\ state' = state /\ imu_pc[d] \in {"sent", "start", "collecting"}
          /\ \A q \in I!Threads \ {d} : imu_pc'[q] = imu_pc[q]
      BY <2>6, <1>n DEF I!Configure, I!StartRefused, I!SuspendSkips, I!SuspendBegins, I!Goto,
           Typed
    <3> QED BY <3>1, <1>n, CoveredStep
  <2> QED BY <1>1, <2>1, <2>2, <2>3, <2>4, <2>5, <2>6 DEF I!Control
<1>2. CASE I!RunLoop
  <2>1. CASE I!Suspend(I!loop)
    BY <2>1, <1>n, CoveredSuspend
  <2>2. CASE I!LoopSeesCollect \/ I!LoopLocks \/ I!LoopAsks \/ I!LoopReads \/ I!LoopUnlocks
             \/ I!LoopLogs \/ I!LoopSeesError \/ I!LoopReadsError
             \/ I!SuspendSkips(I!loop, "suspend") \/ I!SuspendBegins(I!loop, "suspend")
    <3>1. UNCHANGED I!powers /\ state' \in {state, "ERROR_DEVICE"}
      BY <2>2 DEF I!LoopSeesCollect, I!LoopLocks, I!LoopAsks, I!LoopReads, I!LoopUnlocks,
           I!LoopLogs, I!LoopSeesError, I!LoopReadsError, I!SuspendSkips, I!SuspendBegins
    <3>2. /\ imu_pc[I!loop] \notin {"start_mag", "configure", "open", "collect", "gyro_off",
                              "mag_off"}
          /\ \A q \in I!Threads \ {I!loop} : imu_pc'[q] = imu_pc[q]
      BY <2>2, <1>n DEF I!LoopSeesCollect, I!LoopLocks, I!LoopAsks, I!LoopReads,
           I!LoopUnlocks, I!LoopLogs, I!LoopSeesError, I!LoopReadsError, I!SuspendSkips,
           I!SuspendBegins, I!Goto, Typed
    <3> QED BY <3>1, <3>2, <1>n, CoveredStep
  <2> QED BY <1>2, <2>1, <2>2 DEF I!RunLoop
<1>3. CASE I!Temperature \/ UNCHANGED I!vars
  BY <1>3 DEF I!Temperature, I!vars, I!powers, Covered, GyroCovered, MagCovered
<1> QED BY <1>1, <1>2, <1>3 DEF I!Next

LEMMA CoveredIsLow == I!ImuAssumption /\ Covered /\ Typed => I!IdleIsLowPower
<1> SUFFICES ASSUME I!ImuAssumption, Covered, Typed, I!NoCall, state = "IDLE",
                    imu_pc[I!loop] = "test"
             PROVE \A s \in I!Sensors : power[s] # "NORMAL" \/ s \in missed
  BY DEF I!IdleIsLowPower
<1>1. \A d \in Datasets : imu_pc[d] \in {"sent", "collecting", "done"}
  BY DEF I!NoCall
<1>2. imu_pc[I!tlm] \notin {"gyro_off", "mag_off"}
  BY DEF Typed
<1> QED BY <1>1, <1>2 DEF Covered, GyroCovered, MagCovered, I!Sensors, I!Threads

\* IDLE with no call in progress means low power, but for a sensor that missed its
\* last mode or was found on: for datasets that overlap in any way, with transfers
\* and files that fail.
THEOREM IdleIsLowPowerHolds == ASSUME I!ImuAssumption PROVE I!Spec => []I!IdleIsLowPower
<1>1. I!Spec => []Covered
  BY I!ImuAssumption, CoveredInit, CoveredNext, TypedHolds, PTL DEF I!Spec
<1> QED BY <1>1, I!ImuAssumption, CoveredIsLow, TypedHolds, PTL

-----------------------------------------------------------------------------
(* Imu: samples *)

\* Datasets one after the other, without faults; the telemetry thread reads when it
\* likes.
Serial == I!ImuAssumption /\ DatasetsInTurn /\ ~Faults

Busy(d) == imu_pc[d] \notin {"sent", "done"}

\* One dataset at a time.  The state is COLLECT only while it collects, and at the
\* latest until it stores IDLE.
OneBusy ==
  /\ \A d, e \in Datasets : d # e => ~(Busy(d) /\ Busy(e))
  /\ state \in {"IDLE", "COLLECT"}
  /\ state = "COLLECT" => \E d \in Datasets : imu_pc[d] \in {"collecting", "lock_off"}
  /\ \A d \in Datasets : imu_pc[d] = "lock_off" => state = "COLLECT"

\* RunLoop sees no error, and reads only while the state is COLLECT.
LoopInTurn ==
  /\ imu_pc[I!loop] \in {"test", "lock", "gyro", "temp", "mag", "unlock", "log"}
  /\ i2c_mutex => state = "COLLECT"

SensorsOn ==
  /\ \A d \in Datasets : imu_pc[d] \in {"start_mag", "configure", "open", "collect"} =>
       power["GYRO"] = "NORMAL"
  /\ \A d \in Datasets : imu_pc[d] \in {"configure", "open", "collect"} =>
       power["MAG"] = "NORMAL"
  /\ state = "COLLECT" => power["GYRO"] = "NORMAL" /\ power["MAG"] = "NORMAL"

\* The chip holds the address that a thread is going to read from, or that of the
\* temperature.
OwnAddress ==
  /\ \A p \in I!Threads \ {I!tlm} : io[p] # "none" => pointer \in {io[p], "temp"}
  /\ io[I!loop] # "none" =>
       imu_pc[I!loop] \in {"gyro", "temp", "mag"} /\ io[I!loop] = imu_pc[I!loop]
  /\ \A d \in Datasets : io[d] # "none" => imu_pc[d] = "drain"
  /\ I!OnlyTelemetryMixes /\ ~asleep

Sound == OneBusy /\ LoopInTurn /\ SensorsOn /\ OwnAddress

LEMMA SoundInit == Serial /\ I!Init => Sound
<1> SUFFICES ASSUME Serial, I!Init PROVE Sound
  OBVIOUS
<1>1. /\ \A d \in Datasets : imu_pc[d] = "sent"
      /\ imu_pc[I!loop] = "test" /\ io[I!loop] = "none"
      /\ \A d \in Datasets : io[d] = "none"
  BY ThreadNames DEF I!Init, Serial
<1>2. OneBusy /\ SensorsOn
  BY <1>1 DEF I!Init, OneBusy, SensorsOn, Busy
<1>3. LoopInTurn
  BY <1>1 DEF I!Init, LoopInTurn
<1>4. OwnAddress
  BY <1>1 DEF I!Init, I!OnlyTelemetryMixes, OwnAddress
<1> QED BY <1>2, <1>3, <1>4 DEF Sound

\* While a dataset starts the sensors or switches them off, the bus is its own.
LEMMA BusIsFree ==
  ASSUME Serial, Typed, Sound, NEW d \in Datasets,
         Busy(d), imu_pc[d] \notin {"collecting", "lock_off"}
  PROVE /\ state = "IDLE" /\ ~i2c_mutex
        /\ \A p \in I!Threads \ {d, I!tlm} : io[p] = "none"
        /\ imu_pc[d] # "drain" => io[d] = "none"
        /\ \A e \in Datasets \ {d} : imu_pc[e] \in {"sent", "done"}
<1>1. \A e \in Datasets \ {d} : imu_pc[e] \in {"sent", "done"}
  BY DEF Sound, OneBusy, Busy
<1>2. state = "IDLE"
  BY <1>1 DEF Sound, OneBusy
<1>3. ~i2c_mutex
  BY <1>2 DEF Sound, LoopInTurn
<1>4. io[I!loop] = "none"
  BY <1>3 DEF Sound, OwnAddress, Typed, I!TypeOK
<1>5. \A e \in Datasets \ {d} : io[e] = "none"
  BY <1>1 DEF Sound, OwnAddress
<1> QED
  BY <1>1, <1>2, <1>3, <1>4, <1>5 DEF Sound, OwnAddress, I!Threads

LEMMA SoundControl ==
  ASSUME Serial, Typed, Sound, NEW d \in Datasets, I!Control(d)
  PROVE Sound'
<1>n. /\ d \in I!Threads /\ d # I!loop /\ d # I!tlm
      /\ I!loop \in I!Threads /\ I!tlm \in I!Threads /\ I!loop # I!tlm
      /\ \A e \in Datasets : e \in I!Threads /\ e # I!tlm
  BY ThreadNames DEF Serial
<1>a. \A to : imu_pc' = [imu_pc EXCEPT ![d] = to] =>
        imu_pc'[d] = to /\ \A p \in I!Threads \ {d} : imu_pc'[p] = imu_pc[p]
  BY <1>n DEF Typed
<1>o. /\ \A e \in Datasets \ {d} : Busy(d) => imu_pc[e] \in {"sent", "done"}
      /\ i2c_mutex => state = "COLLECT"
  BY DEF Sound, OneBusy, Busy, LoopInTurn
\* What a step keeps that touches neither power nor bus.
<1>b. ASSUME UNCHANGED <<power, I!bus>>, imu_pc[d] # "drain" PROVE OwnAddress'
  <2>1. \A p \in I!Threads \ {d} : imu_pc'[p] = imu_pc[p]
    BY <1>a, <1>n DEF I!Control, I!Configure, I!StartRefused, I!StartGyro, I!StartMag,
         I!StartConfigures, I!StartOpens, I!StartFails, I!StartCollects, I!SuspendSkips,
         I!SuspendBegins, I!Suspend, I!SuspendLocks, I!SuspendGyro, I!SuspendMag,
         I!SuspendCloses, I!SuspendDrains, I!Goto, Typed
  <2> QED BY <1>b, <1>n, <2>1 DEF I!bus, I!OnlyTelemetryMixes, Sound, OwnAddress
<1>1. CASE I!Configure(d)
  <2>1. /\ imu_pc[d] = "sent" /\ imu_pc'[d] = "start"
        /\ \A p \in I!Threads \ {d} : imu_pc'[p] = imu_pc[p]
        /\ UNCHANGED <<state, power, I!bus, i2c_mutex>>
        /\ \A e \in Datasets \ {d} : imu_pc[e] \in {"sent", "done"}
    BY <1>1, <1>a DEF I!Configure, I!Goto, I!powers, I!sampling, Serial
  <2> QED
    BY <1>b, <1>n, <2>1 DEF Sound, OneBusy, Busy, LoopInTurn, SensorsOn
<1>2. CASE I!StartRefused(d)
  <2>1. /\ imu_pc[d] = "start" /\ imu_pc'[d] = "collecting"
        /\ \A p \in I!Threads \ {d} : imu_pc'[p] = imu_pc[p]
        /\ UNCHANGED <<state, power, I!bus, i2c_mutex>>
    BY <1>2, <1>a DEF I!StartRefused, I!Goto, I!powers, I!sampling
  <2> QED
    BY <1>b, <1>n, <1>o, <2>1 DEF Sound, OneBusy, Busy, LoopInTurn, SensorsOn
<1>3. CASE I!StartGyro(d) \/ I!StartMag(d) \/ I!StartConfigures(d)
           \/ I!SuspendGyro(d) \/ I!SuspendMag(d)
  <2>1. Busy(d) /\ imu_pc[d] \notin {"collecting", "lock_off", "drain"}
    BY <1>3 DEF I!StartGyro, I!StartMag, I!StartConfigures, I!SuspendGyro, I!SuspendMag,
         I!Goto, Busy
  <2>2. /\ state = "IDLE" /\ ~i2c_mutex /\ \A p \in I!Threads \ {I!tlm} : io[p] = "none"
        /\ \A e \in Datasets \ {d} : imu_pc[e] \in {"sent", "done"}
    BY <2>1, BusIsFree
  <2>3. /\ UNCHANGED <<state, io, mixed, asleep, i2c_mutex>>
        /\ \A p \in I!Threads \ {d} : imu_pc'[p] = imu_pc[p]
    BY <1>3, <1>a DEF I!StartGyro, I!StartMag, I!StartConfigures, I!SuspendGyro, I!SuspendMag,
         I!Power, I!Write, I!bus, I!Goto, I!sampling
  <2>t. \A ok \in I!Ok : ok = TRUE
    BY DEF I!Ok, Serial
  <2>4. \/ imu_pc'[d] = "start_mag" /\ power'["GYRO"] = "NORMAL"
        \/ imu_pc'[d] = "configure" /\ power'["GYRO"] = "NORMAL" /\ power'["MAG"] = "NORMAL"
        \/ imu_pc'[d] = "open" /\ power'["GYRO"] = "NORMAL" /\ power'["MAG"] = "NORMAL"
        \/ imu_pc'[d] \in {"mag_off", "close"}
    BY <1>3, <1>a, <2>t DEF I!StartGyro, I!StartMag, I!StartConfigures, I!SuspendGyro,
         I!SuspendMag, I!Power, I!powers, I!Goto, Typed, I!TypeOK, I!Sensors, Sound, SensorsOn
  <2>5. OneBusy' /\ LoopInTurn'
    BY <1>n, <2>2, <2>3, <2>4 DEF Sound, OneBusy, Busy, LoopInTurn
  <2>6. SensorsOn'
    BY <1>n, <2>2, <2>3, <2>4 DEF SensorsOn
  <2>7. OwnAddress'
    BY <1>n, <2>2, <2>3 DEF I!OnlyTelemetryMixes, Sound, OwnAddress
  <2> QED BY <2>5, <2>6, <2>7 DEF Sound
<1>4. CASE I!StartOpens(d)
  <2>1. /\ imu_pc[d] = "open" /\ imu_pc'[d] = "collect"
        /\ \A p \in I!Threads \ {d} : imu_pc'[p] = imu_pc[p]
        /\ UNCHANGED <<state, power, I!bus, i2c_mutex>>
    BY <1>4, <1>a DEF I!StartOpens, I!Goto, I!powers, I!sampling
  <2> QED
    BY <1>b, <1>n, <1>o, <2>1 DEF Sound, OneBusy, Busy, LoopInTurn, SensorsOn
<1>5. CASE I!StartFails(d)
  BY <1>5 DEF I!StartFails, Serial
<1>6. CASE I!StartCollects(d)
  <2>1. /\ imu_pc[d] = "collect" /\ imu_pc'[d] = "collecting" /\ state' = "COLLECT"
        /\ \A p \in I!Threads \ {d} : imu_pc'[p] = imu_pc[p]
        /\ UNCHANGED <<power, I!bus, i2c_mutex>>
    BY <1>6, <1>a DEF I!StartCollects, I!Goto, I!powers, I!sampling
  <2> QED
    BY <1>b, <1>n, <1>o, <2>1 DEF Sound, OneBusy, Busy, LoopInTurn, SensorsOn
<1>7. CASE I!SuspendSkips(d, "collecting") \/ I!SuspendBegins(d, "collecting")
  <2>1. /\ imu_pc[d] = "collecting" /\ UNCHANGED <<state, power, I!bus, i2c_mutex>>
        /\ \A p \in I!Threads \ {d} : imu_pc'[p] = imu_pc[p]
        /\ \/ state = "IDLE" /\ imu_pc'[d] = "done"
           \/ state # "IDLE" /\ imu_pc'[d] = "lock_off"
    BY <1>7, <1>a, <1>n DEF I!SuspendSkips, I!SuspendBegins, I!Back, I!Goto, I!powers,
         I!sampling
  <2> QED
    BY <1>b, <1>n, <1>o, <2>1 DEF Sound, OneBusy, Busy, LoopInTurn, SensorsOn
<1>8. CASE I!SuspendLocks(d)
  <2>1. /\ imu_pc[d] = "lock_off" /\ imu_pc'[d] = "gyro_off" /\ state' = "IDLE" /\ ~i2c_mutex
        /\ \A p \in I!Threads \ {d} : imu_pc'[p] = imu_pc[p]
        /\ UNCHANGED <<power, I!bus, i2c_mutex>>
    BY <1>8, <1>a DEF I!SuspendLocks, I!Goto, I!powers, I!sampling
  <2> QED
    BY <1>b, <1>n, <1>o, <2>1 DEF Sound, OneBusy, Busy, LoopInTurn, SensorsOn
<1>9. CASE I!SuspendCloses(d)
  <2>1. /\ imu_pc[d] = "close" /\ imu_pc'[d] = "drain"
        /\ \A p \in I!Threads \ {d} : imu_pc'[p] = imu_pc[p]
        /\ UNCHANGED <<state, power, I!bus, i2c_mutex>>
    BY <1>9, <1>a DEF I!SuspendCloses, I!Goto, I!powers, I!sampling
  <2> QED
    BY <1>b, <1>n, <1>o, <2>1 DEF Sound, OneBusy, Busy, LoopInTurn, SensorsOn
<1>10. CASE I!SuspendDrains(d)
  <2>1. /\ imu_pc[d] = "drain" /\ imu_pc'[d] \in {"drain", "done"}
        /\ \A p \in I!Threads \ {d} : imu_pc'[p] = imu_pc[p]
        /\ UNCHANGED <<state, power, i2c_mutex>>
    BY <1>10, <1>a, <1>n DEF I!SuspendDrains, I!Back, I!Goto, I!powers, I!sampling
  <2>2. /\ state = "IDLE" /\ ~i2c_mutex
        /\ \A p \in I!Threads \ {d, I!tlm} : io[p] = "none"
        /\ \A e \in Datasets \ {d} : imu_pc[e] \in {"sent", "done"}
    BY <2>1, BusIsFree DEF Busy
  <2>3. /\ \A p \in I!Threads \ {d, I!tlm} : io'[p] = "none"
        /\ io'[d] # "none" => pointer' \in {io'[d], "temp"} /\ imu_pc'[d] = "drain"
        /\ I!OnlyTelemetryMixes' /\ ~asleep'
    <3>1. CASE imu_pc' = imu_pc /\ I!ReadAddresses(d, "STATUS")
      BY <3>1, <1>n, <2>1, <2>2 DEF I!ReadAddresses, I!OnlyTelemetryMixes, Typed, I!TypeOK,
         Sound, OwnAddress
    <3>2. CASE I!ReadData(d, "STATUS", FALSE)
      <4>1. /\ io[d] = "STATUS" /\ io' = [io EXCEPT ![d] = "none"] /\ asleep' = asleep
            /\ mixed' = mixed \cup ({<<d, pointer>>} \ {<<d, "STATUS">>})
        BY <3>2, <1>n DEF I!ReadData, Typed, I!TypeOK
      <4>2. pointer \in {"STATUS", "temp"}
        BY <4>1, <1>n DEF Sound, OwnAddress
      <4> QED BY <4>1, <4>2, <1>n, <2>2 DEF I!OnlyTelemetryMixes, Typed, I!TypeOK, Sound,
           OwnAddress
    <3> QED BY <1>10, <3>1, <3>2 DEF I!SuspendDrains
  <2>4. OneBusy' /\ LoopInTurn' /\ SensorsOn'
    BY <1>n, <2>1, <2>2 DEF Sound, OneBusy, Busy, LoopInTurn, SensorsOn
  <2>5. OwnAddress'
    BY <1>n, <2>3 DEF OwnAddress
  <2> QED BY <2>4, <2>5 DEF Sound
<1> QED
  BY <1>1, <1>2, <1>3, <1>4, <1>5, <1>6, <1>7, <1>8, <1>9, <1>10 DEF I!Control, I!Suspend

LEMMA SoundLoop ==
  ASSUME Serial, Typed, Sound, I!RunLoop
  PROVE Sound'
<1>n. /\ I!loop \in I!Threads /\ I!tlm \in I!Threads /\ I!loop # I!tlm
      /\ \A e \in Datasets : e \in I!Threads /\ e # I!loop
  BY ThreadNames DEF Serial
<1>a. \A to : imu_pc' = [imu_pc EXCEPT ![I!loop] = to] =>
        imu_pc'[I!loop] = to /\ \A d \in Datasets : imu_pc'[d] = imu_pc[d]
  BY <1>n DEF Typed
<1>m. i2c_mutex <=> imu_pc[I!loop] \in {"gyro", "temp", "mag", "unlock"}
  BY DEF Typed, I!TypeOK
\* A step that keeps the state and the power.
<1>b. ASSUME UNCHANGED <<state, power>>, \A d \in Datasets : imu_pc'[d] = imu_pc[d],
             imu_pc'[I!loop] \in {"test", "lock", "gyro", "temp", "mag", "unlock", "log"},
             i2c_mutex' => i2c_mutex \/ state = "COLLECT",
             OwnAddress'
      PROVE Sound'
  BY <1>b DEF Sound, OneBusy, Busy, LoopInTurn, SensorsOn
<1>c. ASSUME UNCHANGED I!bus, imu_pc[I!loop] \notin {"gyro", "temp", "mag"},
             \A d \in Datasets : imu_pc'[d] = imu_pc[d]
      PROVE OwnAddress'
  BY <1>c, <1>n DEF I!bus, I!OnlyTelemetryMixes, Sound, OwnAddress
<1>1. CASE I!LoopSeesCollect
  BY <1>1, <1>a, <1>b, <1>c DEF I!LoopSeesCollect, I!Goto, I!powers, I!sampling
<1>2. CASE I!LoopLocks
  <2>1. /\ UNCHANGED <<state, power, I!bus>> /\ \A d \in Datasets : imu_pc'[d] = imu_pc[d]
        /\ imu_pc[I!loop] = "lock" /\ imu_pc'[I!loop] \in {"gyro", "test"}
        /\ state = "COLLECT" \/ i2c_mutex' = i2c_mutex
    BY <1>2, <1>a DEF I!LoopLocks, I!Goto, I!powers, I!sampling
  <2> QED BY <1>b, <1>c, <2>1
<1>3. CASE I!LoopAsks
  <2>1. /\ UNCHANGED <<state, power, imu_pc, i2c_mutex>>
        /\ imu_pc[I!loop] \in {"gyro", "temp", "mag"}
        /\ I!ReadAddresses(I!loop, imu_pc[I!loop])
    BY <1>3 DEF I!LoopAsks, I!powers, I!sampling
  <2>2. \A p \in I!Threads \ {I!loop, I!tlm} : io[p] = "none"
    <3>1. state = "COLLECT"
      BY <1>m, <2>1 DEF Sound, LoopInTurn
    <3>2. \A d \in Datasets : imu_pc[d] # "drain"
      BY <3>1 DEF Sound, OneBusy, Busy
    <3> QED BY <3>2 DEF Sound, OwnAddress, I!Threads
  <2>3. OwnAddress'
    BY <1>n, <2>1, <2>2 DEF I!ReadAddresses, I!OnlyTelemetryMixes, Typed, I!TypeOK, Sound,
       OwnAddress
  <2> QED BY <1>b, <2>1, <2>3
<1>4. CASE I!LoopReads
  <2>1. PICK at \in {"gyro", "temp", "mag"}, ok \in I!Ok :
          /\ I!Goto(I!loop, at, I!NextRead(at))
          /\ I!ReadData(I!loop, at, I!Off(at))
          /\ state' = IF ~ok /\ at # "gyro" THEN "ERROR_DEVICE" ELSE state
          /\ UNCHANGED <<power, i2c_mutex>>
    BY <1>4 DEF I!LoopReads, I!powers
  <2>2. ok /\ state' = state
    BY <2>1 DEF I!Ok, Serial
  <2>3. /\ imu_pc[I!loop] = at /\ imu_pc'[I!loop] \in {"unlock", "temp", "mag"}
        /\ \A d \in Datasets : imu_pc'[d] = imu_pc[d]
    BY <2>1, <1>a DEF I!Goto, I!NextRead
  <2>4. state = "COLLECT"
    BY <1>m, <2>3 DEF Sound, LoopInTurn
  <2>5. ~I!Off(at)
    BY <2>4 DEF I!Off, Sound, SensorsOn
  <2>6. pointer \in {at, "temp"} /\ io[I!loop] = at
    BY <2>1, <1>n DEF I!ReadData, Sound, OwnAddress
  <2>7. /\ io'[I!loop] = "none" /\ \A p \in I!Threads \ {I!loop} : io'[p] = io[p]
        /\ I!OnlyTelemetryMixes' /\ ~asleep' /\ pointer' = pointer
    <3>1. /\ io' = [io EXCEPT ![I!loop] = "none"] /\ pointer' = pointer
          /\ asleep' = (asleep \/ I!Off(at))
          /\ mixed' = mixed \cup ({<<I!loop, pointer>>} \ {<<I!loop, at>>})
      BY <2>1, <1>n DEF I!ReadData
    <3>2. I!OnlyTelemetryMixes'
      BY <2>6, <3>1 DEF I!OnlyTelemetryMixes, Sound, OwnAddress
    <3> QED BY <2>5, <3>1, <3>2, <1>n DEF Typed, I!TypeOK, Sound, OwnAddress
  <2>8. OwnAddress'
    BY <1>n, <2>3, <2>7 DEF Sound, OwnAddress
  <2> QED BY <1>b, <2>1, <2>2, <2>3, <2>8
<1>5. CASE I!LoopUnlocks
  <2>1. /\ imu_pc[I!loop] = "unlock" /\ imu_pc'[I!loop] \in {"test", "log"}
        /\ \A d \in Datasets : imu_pc'[d] = imu_pc[d]
        /\ UNCHANGED <<state, power, I!bus>> /\ ~i2c_mutex'
    BY <1>5, <1>a DEF I!LoopUnlocks, I!powers, I!Goto
  <2> QED BY <1>b, <1>c, <2>1
<1>6. CASE I!LoopLogs
  <2>1. /\ imu_pc[I!loop] = "log" /\ imu_pc'[I!loop] = "test"
        /\ \A d \in Datasets : imu_pc'[d] = imu_pc[d]
        /\ UNCHANGED <<power, I!bus, i2c_mutex>>
    BY <1>6, <1>a DEF I!LoopLogs, I!Goto, I!powers, I!sampling
  <2>2. state' = state
    BY <1>6 DEF I!LoopLogs, I!Ok, Serial
  <2> QED BY <1>b, <1>c, <2>1, <2>2
<1>7. ~ (I!LoopSeesError \/ I!LoopReadsError \/ I!SuspendSkips(I!loop, "suspend")
         \/ I!SuspendBegins(I!loop, "suspend") \/ I!Suspend(I!loop))
  BY DEF I!LoopSeesError, I!LoopReadsError, I!SuspendSkips, I!SuspendBegins, I!Suspend,
       I!SuspendLocks, I!SuspendGyro, I!SuspendMag, I!SuspendCloses, I!SuspendDrains, I!Goto,
       Sound, OneBusy, LoopInTurn
<1> QED
  BY <1>1, <1>2, <1>3, <1>4, <1>5, <1>6, <1>7 DEF I!RunLoop

LEMMA SoundNext == Serial /\ Typed /\ Sound /\ [I!Next]_(I!vars) => Sound'
<1>1. Serial /\ Typed /\ Sound /\ I!Temperature => Sound'
  <2> SUFFICES ASSUME Serial, Typed, Sound, I!Temperature PROVE Sound'
    OBVIOUS
  <2>n. /\ I!loop \in I!Threads /\ I!tlm \in I!Threads /\ I!loop # I!tlm
        /\ \A d \in Datasets : d \in I!Threads /\ d # I!tlm
    BY ThreadNames DEF Serial
  <2>1. UNCHANGED <<state, power, imu_pc, i2c_mutex>>
    BY DEF I!Temperature, I!powers, I!sampling
  <2>2. /\ \A p \in I!Threads \ {I!tlm} : io'[p] = io[p]
        /\ pointer' \in {pointer, "temp"} /\ asleep' = asleep
        /\ \A m \in mixed' \ mixed : m[1] = I!tlm
    BY <2>n DEF I!Temperature, I!ReadAddresses, I!ReadData, Typed, I!TypeOK
  <2>3. OwnAddress'
    BY <2>n, <2>1, <2>2 DEF I!OnlyTelemetryMixes, Sound, OwnAddress
  <2> QED BY <2>1, <2>3 DEF Sound, OneBusy, Busy, LoopInTurn, SensorsOn
<1>2. Sound /\ UNCHANGED I!vars => Sound'
  BY DEF I!vars, I!bus, I!powers, I!OnlyTelemetryMixes, I!sampling, Sound, OneBusy, Busy,
       LoopInTurn, SensorsOn, OwnAddress
<1> QED BY <1>1, <1>2, SoundControl, SoundLoop DEF I!Next

LEMMA SoundHolds == ASSUME Serial PROVE I!Spec => []Sound
<1>1. I!ImuAssumption
  BY DEF Serial
<1> QED BY <1>1, Serial, SoundInit, SoundNext, TypedHolds, PTL DEF I!Spec

\* Without faults, when datasets follow one another, nobody but the telemetry thread
\* comes between the two transfers of a read ...
THEOREM OnlyTelemetryMixesHolds == ASSUME Serial PROVE I!Spec => []I!OnlyTelemetryMixes
<1>1. Sound => I!OnlyTelemetryMixes
  BY DEF Sound, OwnAddress
<1> QED BY <1>1, SoundHolds, PTL

\* ... nor RunLoop read from a suspended sensor.
THEOREM NeverReadsAsleepHolds == ASSUME Serial PROVE I!Spec => []I!NeverReadsAsleep
<1>1. Sound => I!NeverReadsAsleep
  BY DEF Sound, OwnAddress, I!NeverReadsAsleep
<1> QED BY <1>1, SoundHolds, PTL

=============================================================================
