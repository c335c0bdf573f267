---------------------------- MODULE FrameProcessing ----------------------------
(***************************************************************************)
(* The processing of stored images: prefiltering, region classification    *)
(* (RC) and landmark detection (LD), by Reprocessing::Dataset and ::Image  *)
(* in one program and DatasetManager::ProcessFrames in another, with the   *)
(* engines of InferenceManager and the metadata files that carry the       *)
(* results from one program to the next.                                   *)
(*                                                                         *)
(* What a network answers is a choice: any regions, and for each region    *)
(* landmarks or none.  A landmark is the pair of its region and of the     *)
(* version of the network that found it; a version stands for the number   *)
(* and the LDNetConfig.  A metadata file that is missing and one that      *)
(* cannot be parsed are the same: no metadata.                             *)
(***************************************************************************)
EXTENDS Naturals, FiniteSets

CONSTANTS Images, Regions, Versions,
          Built,      \* <<version, region>>: the LD engines on disk
          Earthless,  \* the images that the prefilter rejects
          Kinds,      \* of runs: "reprocess", "collect"
          Targets,    \* the stages that a run may be asked for
          DiskFull    \* the metadata file may not be writable

NotPrefiltered == 0
Prefiltered == 1
RCNeted == 2
LDNeted == 3
Stages == NotPrefiltered..LDNeted
None == 0  \* no version

FrameProcessingAssumption ==
  /\ IsFiniteSet(Images) /\ Images # {} /\ Earthless \subseteq Images
  /\ IsFiniteSet(Regions)
  /\ Versions \subseteq Nat \ {None}
  /\ Built \subseteq Versions \X Regions
  /\ Kinds \subseteq {"reprocess", "collect"}
  /\ Targets \subseteq Prefiltered..LDNeted
  /\ DiskFull \in BOOLEAN

Metadata ==
  [stage : Stages, prefilter : {"none", "passed", "rejected"},
   rc_version : Versions \cup {None}, regions : SUBSET Regions,
   ld_version : Versions \cup {None}, landmarks : SUBSET (Regions \X Versions)]

VARIABLES disk,    \* the metadata of each image: no element, or one
          stored,  \* the images in the folder
          rc_version_, ld_version_,  \* the configuration of this program
          run,     \* the request being served
          todo,    \* the images it has still to handle
          result,  \* its EC
          pc,      \* where it is
          image, frame,  \* the image being processed and its Frame
          rest,    \* the regions that LD has still to handle
          landmarks, loads, nets,  \* all_landmarks, ld_load_statuses, ld_net_statuses
          initialized_, rc_net_, \* the engines: initialized_, RC loaded,
          loaded         \* and the regions whose LD engine is loaded

program == <<rc_version_, ld_version_>>
request == <<run, todo>>
work == <<image, frame>>
ld == <<rest, landmarks, loads, nets>>
engines == <<initialized_, rc_net_, loaded>>
vars == <<disk, stored, program, request, result, pc, work, ld, engines>>

\* A Frame as it is constructed, and after ResetProcessing.
Fresh == [stage |-> NotPrefiltered, prefilter |-> "none",
          rc_version |-> None, regions |-> {},
          ld_version |-> None, landmarks |-> {}]

NoRun == [kind |-> "none", target |-> LDNeted, overwrite |-> FALSE,
          bypass |-> FALSE, capture_stage |-> NotPrefiltered, images |-> {}]

NoImage == CHOOSE i \in Images : TRUE

Init ==
  /\ disk = [i \in Images |-> {}] /\ stored = {}
  /\ rc_version_ \in Versions /\ ld_version_ \in Versions
  /\ run = NoRun /\ todo = {} /\ result = "OK" /\ pc = "idle"
  /\ image = NoImage /\ frame = Fresh
  /\ rest = {} /\ landmarks = {} /\ loads = {} /\ nets = {}
  /\ initialized_ = FALSE /\ rc_net_ = FALSE /\ loaded = {}

-----------------------------------------------------------------------------
(* The frame *)

Loaded(i) == IF disk[i] = {} THEN Fresh ELSE CHOOSE m \in disk[i] : TRUE

ShouldReprocess_AnyLandmarks(m) ==
  \/ m.stage < run.target
  \/ /\ run.target > Prefiltered
     /\ \/ m.rc_version = None
        \/ run.overwrite /\ m.rc_version # rc_version_

ShouldReprocess(m) ==
  \/ m.stage < run.target
  \/ /\ run.target > Prefiltered
     /\ \/ m.rc_version = None
        \/ /\ run.overwrite
           /\ \/ m.rc_version # rc_version_
              \/ run.target = LDNeted /\ m.ld_version # ld_version_

ResetProcessing_KeepsResults(m) == [m EXCEPT !.stage = NotPrefiltered, !.prefilter = "none"]

ResetProcessing(m) == Fresh

\* prefilter_image, whose answer depends on the image only.
Answer(i) == IF i \in Earthless THEN "rejected" ELSE "passed"

\* It does nothing for a frame that has been prefiltered.
RunPrefiltering(m, i) ==
  IF m.stage # NotPrefiltered THEN m
  ELSE [m EXCEPT !.stage = Prefiltered, !.prefilter = Answer(i)]

-----------------------------------------------------------------------------
(* Requests *)

\* A dataset is collected in one mode, which says what the camera manager does
\* to a frame before it stores it.
StartCollection(capture_stage, target) ==
  /\ pc = "idle" /\ run = NoRun /\ "collect" \in Kinds
  /\ run' = [NoRun EXCEPT !.kind = "collect", !.target = target,
                          !.capture_stage = capture_stage]
  /\ UNCHANGED <<disk, stored, program, todo, result, pc, work, ld, engines>>

StoreFrameToDisk(i, regions) ==
  LET stage == run.capture_stage IN
  /\ pc = "idle" /\ run.kind = "collect"
  /\ i \notin stored /\ (stage # NotPrefiltered => i \notin Earthless)
  /\ stored' = stored \cup {i}
  /\ disk' = [disk EXCEPT ![i] =
       {[stage |-> stage,
         prefilter |-> IF stage = NotPrefiltered THEN "none" ELSE "passed",
         rc_version |-> IF stage = RCNeted THEN rc_version_ ELSE None,
         regions |-> IF stage = RCNeted THEN regions ELSE {},
         ld_version |-> None, landmarks |-> {}]}]
  /\ run' = [run EXCEPT !.images = @ \cup {i}]
  /\ UNCHANGED <<program, todo, result, pc, work, ld, engines>>

\* An image that was put into a folder without metadata.
AddImage(i) ==
  /\ pc = "idle" /\ run = NoRun /\ "reprocess" \in Kinds
  /\ i \notin stored
  /\ stored' = stored \cup {i}
  /\ UNCHANGED <<disk, program, request, result, pc, work, ld, engines>>

\* Reprocessing::Dataset for all images of the folder, ::Image for one.
Reprocess(target, overwrite, bypass, images) ==
  /\ pc = "idle" /\ run = NoRun /\ "reprocess" \in Kinds
  /\ images # {}
  /\ run' = [NoRun EXCEPT !.kind = "reprocess", !.target = target,
                          !.overwrite = overwrite, !.bypass = bypass, !.images = images]
  /\ todo' = images
  /\ result' = "OK" /\ pc' = "next"
  /\ UNCHANGED <<disk, stored, program, work, ld, engines>>

\* ProcessFrames, for the frames of the dataset that it has not seen.
ProcessFrames ==
  /\ pc = "idle" /\ run.kind = "collect"
  /\ run.target > run.capture_stage
  /\ run.images # {}
  /\ run' = [run EXCEPT !.images = {}] /\ todo' = run.images
  /\ result' = "OK" /\ pc' = "next"
  /\ UNCHANGED <<disk, stored, program, work, ld, engines>>

\* The loop over the images.
Take(i) == pc = "next" /\ i \in todo /\ todo' = todo \ {i}

\* Back to the loop: what belongs to one image goes out of scope.
Leave ==
  /\ pc' = "next"
  /\ image' = NoImage /\ frame' = Fresh
  /\ rest' = {} /\ landmarks' = {} /\ loads' = {} /\ nets' = {}

Fail(error) == result' = IF run.kind = "reprocess" THEN error ELSE result

Skip ==
  \E i \in Images :
    /\ run.kind = "reprocess"
    /\ ~ShouldReprocess(Loaded(i))
    /\ Take(i)
    /\ UNCHANGED <<disk, stored, program, run, result, pc, work, ld, engines>>

ReadFails ==
  \E i \in Images :
    /\ run.kind = "reprocess" => ShouldReprocess(Loaded(i))
    /\ Take(i)
    /\ Fail("FILE_NOT_FOUND")
    /\ UNCHANGED <<disk, stored, program, run, pc, work, ld, engines>>

\* RunPipeline up to the inference.
Pipeline ==
  \E i \in Images :
    /\ run.kind = "reprocess" /\ ShouldReprocess(Loaded(i))
    /\ Take(i)
    /\ image' = i
    /\ frame' = RunPrefiltering(ResetProcessing(Loaded(i)), i)
    /\ pc' = IF run.target = Prefiltered \/ (i \in Earthless /\ ~run.bypass)
             THEN "truncate" ELSE "infer"
    /\ UNCHANGED <<disk, stored, program, run, result, ld, engines>>

\* ProcessFrames up to the inference: it prefilters what the camera manager
\* has not, and restores what the camera manager has classified.
Prefilter ==
  \E i \in Images :
    /\ run.kind = "collect" /\ run.capture_stage < Prefiltered
    /\ Take(i)
    /\ IF i \in Earthless
       THEN Leave
       ELSE /\ image' = i
            /\ frame' = RunPrefiltering(Fresh, i)
            /\ pc' = IF run.target = Prefiltered THEN "truncate" ELSE "infer"
            /\ UNCHANGED ld
    /\ UNCHANGED <<disk, stored, program, run, result, engines>>

Restore ==
  \E i \in Images :
    /\ run.kind = "collect" /\ run.capture_stage >= Prefiltered
    /\ Take(i)
    /\ IF run.capture_stage >= RCNeted /\ disk[i] = {}
       THEN Leave
       ELSE /\ image' = i
            /\ frame' = IF run.capture_stage >= RCNeted THEN Loaded(i) ELSE Fresh
            /\ pc' = "infer"
            /\ UNCHANGED ld
    /\ UNCHANGED <<disk, stored, program, run, result, engines>>

\* StoreFrameMetadataToDisk truncates the file and writes it.  It reports
\* nothing when the file cannot be opened.
StoreTruncates ==
  /\ pc = "truncate" /\ pc' = "write"
  /\ disk' = [disk EXCEPT ![image] = {}]
  /\ UNCHANGED <<stored, program, request, result, work, ld, engines>>

StoreWrites ==
  /\ pc = "write"
  /\ disk' = [disk EXCEPT ![image] = {frame}]
  /\ Leave
  /\ UNCHANGED <<stored, program, request, result, engines>>

StoreFails ==
  /\ DiskFull
  /\ pc = "truncate"
  /\ Leave
  /\ UNCHANGED <<disk, stored, program, request, result, engines>>

\* Between the end of a run and the next request.
Ends ==
  /\ pc = "next" /\ todo = {}
  /\ pc' = "ended"
  /\ UNCHANGED <<disk, stored, program, request, result, work, ld, engines>>

Rests ==
  /\ pc = "ended" /\ pc' = "idle"
  /\ run' = IF run.kind = "collect" THEN run ELSE NoRun
  /\ result' = "OK"
  /\ UNCHANGED <<disk, stored, program, todo, work, ld, engines>>

-----------------------------------------------------------------------------
(* InferenceManager *)

Runtimes == {r \in Regions : <<ld_version_, r>> \in Built}

\* After an inference that did not answer OK.
Gives(error) == Leave /\ Fail(error)

\* ProcessFrame is only called for a frame that is not there yet.
\* EnsureInitialized: without an LD engine on disk nothing runs.
NotInitialized ==
  /\ pc = "infer" /\ frame.stage < run.target
  /\ ~initialized_ /\ Runtimes = {}
  /\ Gives("NN_ENGINE_NOT_INITIALIZED")
  /\ UNCHANGED <<disk, stored, program, request, engines>>

\* It loads the RC engine, and goes on without it.
EnsureInitialized ==
  /\ pc = "infer" /\ frame.stage < run.target
  /\ initialized_ \/ Runtimes # {}
  /\ initialized_' = TRUE
  /\ rc_net_' \in IF initialized_ THEN {rc_net_} ELSE BOOLEAN
  /\ rest' = frame.regions /\ landmarks' = {} /\ loads' = {} /\ nets' = {}
  /\ pc' = IF frame.stage < RCNeted THEN "rc" ELSE "ld"
  /\ UNCHANGED <<disk, stored, program, request, result, work, loaded>>

\* ExecRCInference loads the engine if it has to.
RCLoadFails ==
  /\ pc = "rc" /\ ~rc_net_
  /\ Gives("NN_ERROR")
  /\ UNCHANGED <<disk, stored, program, request, engines>>

RCInferFails ==
  /\ pc = "rc"
  /\ rc_net_' = TRUE
  /\ Gives("NN_ERROR")
  /\ UNCHANGED <<disk, stored, program, request, initialized_, loaded>>

ExecRCInference ==
  /\ pc = "rc"
  /\ rc_net_' = TRUE
  /\ \E found \in SUBSET Regions :
       /\ frame' = [frame EXCEPT !.stage = RCNeted, !.rc_version = rc_version_,
                                 !.regions = found]
       /\ rest' = found
  /\ pc' = IF run.target = RCNeted THEN "finish" ELSE "ld"
  /\ UNCHANGED <<disk, stored, program, request, result, image, landmarks, loads, nets,
                 initialized_, loaded>>

\* ExecLDInference without a region, and for a region without an engine.
LDNothing ==
  /\ pc = "ld" /\ frame.regions = {}
  /\ pc' = "finish"
  /\ UNCHANGED <<disk, stored, program, request, result, work, ld, engines>>

LDSkips ==
  \E r \in rest \ Runtimes :
    /\ pc = "ld"
    /\ rest' = rest \ {r}
    /\ UNCHANGED <<disk, stored, program, request, result, pc, work,
                   landmarks, loads, nets, engines>>

\* An engine that is loaded already counts as loaded well.
LoadLDNetEngineForRegion(r, status) ==
  /\ r \in loaded => status = "OK"
  /\ loads' = loads \cup {status}

FreeLDNetForRegion(r) == loaded' = loaded \ {r}

LDLoadFails ==
  \E r \in rest \cap Runtimes :
    /\ pc = "ld"
    /\ rest' = rest \ {r}
    /\ LoadLDNetEngineForRegion(r, "error")
    /\ UNCHANGED <<disk, stored, program, request, result, pc, work, landmarks, nets, engines>>

\* An engine whose inference fails is not freed.
LDInferFails ==
  \E r \in rest \cap Runtimes :
    /\ pc = "ld"
    /\ rest' = rest \ {r}
    /\ LoadLDNetEngineForRegion(r, "OK") /\ nets' = nets \cup {"error"}
    /\ loaded' = loaded \cup {r}
    /\ UNCHANGED <<disk, stored, program, request, result, pc, work, landmarks,
                   initialized_, rc_net_>>

\* The boxes of a network are its landmarks; there may be none.
PostprocessOutput(r) == {{}, {<<r, ld_version_>>}}

LDInfers ==
  \E r \in rest \cap Runtimes : \E found \in PostprocessOutput(r) :
    /\ pc = "ld"
    /\ rest' = rest \ {r}
    /\ LoadLDNetEngineForRegion(r, "OK") /\ nets' = nets \cup {"OK"}
    /\ landmarks' = landmarks \cup found
    /\ FreeLDNetForRegion(r)
    /\ UNCHANGED <<disk, stored, program, request, result, pc, work, initialized_, rc_net_>>

\* It is an error only if every load, or every inference, failed.
AllFailed == (loads # {} /\ "OK" \notin loads) \/ (nets # {} /\ "OK" \notin nets)

LDGivesUp ==
  /\ pc = "ld" /\ frame.regions # {} /\ rest = {}
  /\ AllFailed
  /\ Gives("NN_ERROR")
  /\ UNCHANGED <<disk, stored, program, request, engines>>

LDEnds ==
  /\ pc = "ld" /\ frame.regions # {} /\ rest = {}
  /\ ~AllFailed
  /\ frame' = [frame EXCEPT !.stage = LDNeted, !.ld_version = ld_version_,
                            !.landmarks = landmarks]
  /\ pc' = "finish"
  /\ UNCHANGED <<disk, stored, program, request, result, image, ld, engines>>

\* After ProcessFrame: a collection keeps what has regions, or landmarks.
Insufficient ==
  /\ frame.landmarks = {}
  /\ run.target = RCNeted => frame.regions = {}

Finish ==
  /\ pc = "finish"
  /\ IF run.kind = "collect" /\ Insufficient
     THEN Leave
     ELSE pc' = "truncate" /\ UNCHANGED <<work, ld>>
  /\ UNCHANGED <<disk, stored, program, request, result, engines>>

\* The program ends, wherever it is; the next one may have other versions.
Restart ==
  /\ rc_version_' \in Versions /\ ld_version_' \in Versions
  /\ run' = NoRun /\ todo' = {} /\ result' = "OK" /\ pc' = "idle"
  /\ image' = NoImage /\ frame' = Fresh
  /\ rest' = {} /\ landmarks' = {} /\ loads' = {} /\ nets' = {}
  /\ initialized_' = FALSE /\ rc_net_' = FALSE /\ loaded' = {}
  /\ UNCHANGED <<disk, stored>>

-----------------------------------------------------------------------------

Requests ==
  \/ \E capture_stage \in NotPrefiltered..RCNeted, target \in Targets :
       StartCollection(capture_stage, target)
  \/ \E i \in Images, regions \in SUBSET Regions \ {{}} : StoreFrameToDisk(i, regions)
  \/ \E i \in Images : AddImage(i)
  \/ \E target \in Targets, overwrite, bypass \in BOOLEAN,
        images \in {stored} \cup {{i} : i \in stored} :
       Reprocess(target, overwrite, bypass, images)
  \/ ProcessFrames

Processing ==
  \/ Skip \/ ReadFails \/ Pipeline \/ Prefilter \/ Restore
  \/ StoreTruncates \/ StoreWrites \/ StoreFails \/ Ends \/ Rests
  \/ Finish

ProcessFrame ==
  \/ NotInitialized \/ EnsureInitialized
  \/ RCLoadFails \/ RCInferFails \/ ExecRCInference
  \/ LDNothing \/ LDSkips \/ LDLoadFails \/ LDInferFails \/ LDInfers \/ LDGivesUp \/ LDEnds

Next == Requests \/ Processing \/ ProcessFrame \/ Restart

Spec == Init /\ [][Next]_vars

-----------------------------------------------------------------------------
(* Properties *)

TypeOK ==
  /\ disk \in [Images -> SUBSET Metadata] /\ stored \subseteq Images
  /\ rc_version_ \in Versions /\ ld_version_ \in Versions
  /\ run \in [kind : {"none", "reprocess", "collect"}, target : Stages,
               overwrite : BOOLEAN, bypass : BOOLEAN, capture_stage : Stages,
               images : SUBSET Images]
  /\ run.images \subseteq stored
  /\ todo \subseteq stored
  /\ result \in {"OK", "FILE_NOT_FOUND", "NN_ENGINE_NOT_INITIALIZED", "NN_ERROR"}
  /\ pc \in {"idle", "next", "infer", "rc", "ld", "finish", "truncate", "write", "ended"}
  /\ image \in Images /\ frame \in Metadata
  /\ rest \subseteq Regions /\ landmarks \subseteq Regions \X Versions
  /\ loads \subseteq {"OK", "error"} /\ nets \subseteq {"OK", "error"}
  /\ initialized_ \in BOOLEAN /\ rc_net_ \in BOOLEAN
  /\ loaded \subseteq Regions

\* The metadata on disk says how it came about, through any sequence of runs
\* with any versions, failures and restarts: results belong to the stage that
\* is written with them, landmarks to regions of the same classification and
\* to the version they are stamped with (ExecLDInference, ResetProcessing).
Honest(m) ==
  /\ m.stage < RCNeted => m.rc_version = None /\ m.regions = {}
  /\ m.stage >= RCNeted => m.rc_version # None
  /\ m.stage < LDNeted => m.ld_version = None /\ m.landmarks = {}
  /\ m.stage = LDNeted => m.ld_version # None
  /\ m.landmarks \subseteq m.regions \X {m.ld_version}
MetadataIsHonest == \A i \in Images : \A m \in disk[i] : Honest(m)

\* When a run with overwrite ends without an error, every image has results of
\* the versions it was run with, unless the prefilter rejected it or it has no
\* regions for LD to work on (Reprocessing::Dataset).
Current(m) ==
  \/ m.prefilter = "rejected" /\ ~run.bypass
  \/ /\ m.stage >= run.target \/ (m.stage = RCNeted /\ m.regions = {})
     /\ run.target >= RCNeted => m.rc_version = rc_version_
     /\ m.stage = LDNeted /\ run.target = LDNeted => m.ld_version = ld_version_
ReprocessedIsCurrent ==
  pc = "ended" /\ run.kind = "reprocess" /\ run.overwrite /\ result = "OK" /\ ~DiskFull =>
    \A i \in run.images : Current(Loaded(i))
=============================================================================
