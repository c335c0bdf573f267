---------------------------- MODULE ProcessingProofs ----------------------------
(***************************************************************************)
(* Proofs about what is done with the images of a dataset:                 *)
(*                                                                         *)
(*   FrameProcessing     for any images, regions, versions and engines,    *)
(*                       any sequence of runs, and failures and restarts   *)
(*                       anywhere;                                         *)
(*   OrbitDetermination  for any frames, results of the networks, versions *)
(*                       and choice of outliers;                           *)
(*   Downlink            for any experiments, files, fragments and bursts, *)
(*                       and however many packets are lost, late or sent   *)
(*                       again.                                            *)
(***************************************************************************)
EXTENDS OrbitDetermination, FiniteSetTheorems, WellFoundedInduction, TLAPS

\* Of FrameProcessing.
CONSTANTS Stored, Regions, NetVersions, Built, Earthless, Kinds, Targets, MetadataLost

VARIABLES disk, stored, rc_version_, ld_version_, run, todo, result, frame_pc,
          image, frame, rest, landmarks, loads, nets, initialized_, rc_net_, loaded

FP == INSTANCE FrameProcessing
  WITH Images <- Stored, Versions <- NetVersions, DiskFull <- MetadataLost, pc <- frame_pc

\* Of Downlink.
CONSTANTS Experiments, Key, Runner, Shown, Files, Fragments, burst_size,
          max_stalled_rounds, MaxLosses, MaxResends, Repeats

VARIABLES tx, rx, losses, unsent, sat, received, experiment_queue, stop_event,
          payload_state, ack_event, update_event, update_data, handling, pc, running,
          last_key, in_grace, file, last_file, missing_fragments, batch,
          stalled_rounds, resends, confirm, reported, sent_set, shows

DL == INSTANCE Downlink WITH Images <- Shown, active <- running

-----------------------------------------------------------------------------
(***************************************************************************)
(* FrameProcessing                                                         *)
(***************************************************************************)

-----------------------------------------------------------------------------
(* Metadata *)

LEMMA FreshIsMetadata == FP!Fresh \in FP!Metadata /\ FP!Honest(FP!Fresh)
  BY DEF FP!Fresh, FP!Metadata, FP!Honest, FP!Stages, FP!NotPrefiltered, FP!Prefiltered,
       FP!RCNeted, FP!LDNeted, FP!None

LEMMA NoImageIsImage == Stored # {} => FP!NoImage \in Stored
  BY DEF FP!NoImage

\* What is loaded of a sound folder.
LEMMA LoadedIsMetadata ==
  ASSUME disk \in [Stored -> SUBSET FP!Metadata], NEW i \in Stored
  PROVE  /\ FP!Loaded(i) \in FP!Metadata
         /\ FP!MetadataIsHonest => FP!Honest(FP!Loaded(i))
<1>1. CASE disk[i] = {}
  BY <1>1, FreshIsMetadata DEF FP!Loaded
<1>2. CASE disk[i] # {}
  <2>1. FP!Loaded(i) \in disk[i]
    BY <1>2 DEF FP!Loaded
  <2> QED BY <2>1 DEF FP!MetadataIsHonest
<1> QED BY <1>1, <1>2

\* The prefilter goes on with a frame that has no results.
LEMMA PrefilteredIsMetadata ==
  ASSUME NEW i \in Stored
  PROVE  LET m == FP!RunPrefiltering(FP!Fresh, i) IN
         /\ m \in FP!Metadata /\ FP!Honest(m)
         /\ m.stage = FP!Prefiltered /\ m.regions = {} /\ m.landmarks = {}
         /\ m.prefilter = FP!Answer(i)
<1>1. FP!RunPrefiltering(FP!Fresh, i) =
        [stage |-> FP!Prefiltered, prefilter |-> FP!Answer(i), rc_version |-> FP!None,
         regions |-> {}, ld_version |-> FP!None, landmarks |-> {}]
  BY DEF FP!RunPrefiltering, FP!Fresh
<1>2. FP!Answer(i) \in {"none", "passed", "rejected"}
  BY DEF FP!Answer
<1> QED
  BY <1>1, <1>2
    DEF FP!Metadata, FP!Honest, FP!Stages, FP!NotPrefiltered, FP!Prefiltered, FP!RCNeted,
         FP!LDNeted, FP!None

\* The frames after region classification and after landmark detection.
LEMMA ClassifiedIsMetadata ==
  ASSUME NEW m \in FP!Metadata, NEW version \in NetVersions, NEW found \in SUBSET Regions
  PROVE  [m EXCEPT !.stage = FP!RCNeted, !.rc_version = version,
         !.regions = found] \in FP!Metadata
<1>1. FP!RCNeted \in FP!Stages
  BY DEF FP!RCNeted, FP!Stages, FP!NotPrefiltered, FP!LDNeted
<1> QED BY <1>1 DEF FP!Metadata

LEMMA DetectedIsMetadata ==
  ASSUME NEW m \in FP!Metadata, NEW version \in NetVersions,
         NEW found \in SUBSET (Regions \X NetVersions)
  PROVE  [m EXCEPT !.stage = FP!LDNeted, !.ld_version = version,
         !.landmarks = found] \in FP!Metadata
<1>1. FP!LDNeted \in FP!Stages
  BY DEF FP!Stages, FP!NotPrefiltered, FP!LDNeted
<1> QED BY <1>1 DEF FP!Metadata

-----------------------------------------------------------------------------
(* Types *)

FramesCodes == {"OK", "FILE_NOT_FOUND", "NN_ENGINE_NOT_INITIALIZED", "NN_ERROR"}

Runs == [kind : {"none", "reprocess", "collect"}, target : FP!Stages, overwrite : BOOLEAN,
         bypass : BOOLEAN, capture_stage : FP!Stages, images : SUBSET Stored]

LEMMA NoRunIsRun == FP!NoRun \in Runs
  BY DEF FP!NoRun, Runs, FP!Stages, FP!NotPrefiltered, FP!LDNeted

LEMMA TypeInit == FP!FrameProcessingAssumption /\ FP!Init => FP!TypeOK
<1> SUFFICES ASSUME FP!FrameProcessingAssumption, FP!Init PROVE FP!TypeOK
  OBVIOUS
<1>1. image \in Stored /\ frame \in FP!Metadata
  BY NoImageIsImage, FreshIsMetadata DEF FP!Init, FP!FrameProcessingAssumption
<1>2. disk \in [Stored -> SUBSET FP!Metadata]
  BY DEF FP!Init
<1>3. run \in Runs /\ run.images = {}
  BY NoRunIsRun DEF FP!Init, FP!NoRun
<1>4. /\ stored \subseteq Stored /\ run.images \subseteq stored /\ todo \subseteq stored
      /\ rest \subseteq Regions /\ landmarks \subseteq Regions \X NetVersions
      /\ loads \subseteq {"OK", "error"} /\ nets \subseteq {"OK", "error"}
      /\ loaded \subseteq Regions
  BY <1>3 DEF FP!Init
<1>5. /\ rc_version_ \in NetVersions /\ ld_version_ \in NetVersions
      /\ initialized_ \in BOOLEAN /\ rc_net_ \in BOOLEAN
      /\ frame_pc = "idle" /\ result = "OK"
  BY DEF FP!Init
<1> QED
  BY <1>1, <1>2, <1>3, <1>4, <1>5 DEF FP!TypeOK, Runs

\* Back to the loop, with or without an error.
LEMMA LeaveType ==
  ASSUME FP!TypeOK, FP!Leave
  PROVE  /\ frame_pc' = "next" /\ image' \in Stored /\ frame' \in FP!Metadata
         /\ FP!Honest(frame')
         /\ rest' = {} /\ landmarks' = {} /\ loads' = {} /\ nets' = {}
<1>1. FP!Honest(frame') /\ frame' \in FP!Metadata
  <2>1. frame' = FP!Fresh
    BY DEF FP!Leave
  <2> QED BY <2>1, FreshIsMetadata
<1>2. image' \in Stored
  BY NoImageIsImage DEF FP!TypeOK, FP!Leave
<1> QED BY <1>1, <1>2 DEF FP!Leave

LEMMA FailType ==
  ASSUME FP!TypeOK, NEW error \in FramesCodes, FP!Fail(error)
  PROVE  result' \in FramesCodes
  BY DEF FP!TypeOK, FP!Fail, FramesCodes

\* A request changes images, metadata of new images, and the run.
LEMMA RequestsType ==
  ASSUME FP!FrameProcessingAssumption, FP!TypeOK, FP!Requests
  PROVE  FP!TypeOK'
<1>1. ASSUME NEW capture_stage \in FP!NotPrefiltered..FP!RCNeted, NEW target \in Targets,
             FP!StartCollection(capture_stage, target)
      PROVE  FP!TypeOK'
  <2>1. capture_stage \in FP!Stages /\ target \in FP!Stages
    BY DEF FP!FrameProcessingAssumption, FP!Stages, FP!NotPrefiltered, FP!Prefiltered,
         FP!RCNeted, FP!LDNeted
  <2>2. run' \in Runs /\ run'.images = {}
    BY <1>1, <2>1, NoRunIsRun DEF FP!StartCollection, Runs, FP!NoRun
  <2> QED
    BY <1>1, <2>2 DEF FP!TypeOK, FP!StartCollection, Runs, FP!program, FP!work, FP!ld,
         FP!engines
<1>2. ASSUME NEW i \in Stored, NEW regions \in SUBSET Regions, FP!StoreFrameToDisk(i, regions)
      PROVE  FP!TypeOK'
  <2> DEFINE stage == run.capture_stage
             m == [stage |-> stage,
                   prefilter |-> IF stage = FP!NotPrefiltered THEN "none" ELSE "passed",
                   rc_version |-> IF stage = FP!RCNeted THEN rc_version_ ELSE FP!None,
                   regions |-> IF stage = FP!RCNeted THEN regions ELSE {},
                   ld_version |-> FP!None, landmarks |-> {}]
  <2>1. m \in FP!Metadata
    BY <1>2 DEF FP!TypeOK, FP!Metadata
  <2>2. disk' = [disk EXCEPT ![i] = {m}]
    BY <1>2 DEF FP!StoreFrameToDisk
  <2>3. disk' \in [Stored -> SUBSET FP!Metadata]
    BY <2>1, <2>2 DEF FP!TypeOK
  <2>4. stored' = stored \cup {i} /\ run' = [run EXCEPT !.images = @ \cup {i}]
    BY <1>2 DEF FP!StoreFrameToDisk
  <2>5. run' \in Runs /\ run'.images = run.images \cup {i}
    BY <2>4 DEF FP!TypeOK, Runs
  <2> QED
    BY <1>2, <2>3, <2>4, <2>5
      DEF FP!TypeOK, FP!StoreFrameToDisk, Runs, FP!program, FP!work, FP!ld, FP!engines
<1>3. ASSUME NEW i \in Stored, FP!AddImage(i)
      PROVE  FP!TypeOK'
  BY <1>3 DEF FP!TypeOK, FP!AddImage, FP!program, FP!request, FP!work, FP!ld, FP!engines
<1>4. ASSUME NEW target \in Targets, NEW overwrite \in BOOLEAN, NEW bypass \in BOOLEAN,
             NEW images \in {stored} \cup {{i} : i \in stored},
             FP!Reprocess(target, overwrite, bypass, images)
      PROVE  FP!TypeOK'
  <2>1. target \in FP!Stages
    BY DEF FP!FrameProcessingAssumption, FP!Stages, FP!NotPrefiltered, FP!Prefiltered,
         FP!LDNeted
  <2>2. images \subseteq stored /\ images \in SUBSET Stored
    BY DEF FP!TypeOK
  <2>3. run' \in Runs /\ run'.images = images
    BY <1>4, <2>1, <2>2, NoRunIsRun DEF FP!Reprocess, Runs, FP!NoRun
  <2> QED
    BY <1>4, <2>2, <2>3 DEF FP!TypeOK, FP!Reprocess, Runs, FP!program, FP!work, FP!ld,
         FP!engines
<1>5. CASE FP!ProcessFrames
  <2>1. run' \in Runs /\ run'.images = {}
    BY <1>5 DEF FP!TypeOK, FP!ProcessFrames, Runs
  <2> QED
    BY <1>5, <2>1 DEF FP!TypeOK, FP!ProcessFrames, Runs, FP!program, FP!work, FP!ld,
         FP!engines
<1> QED
  BY <1>1, <1>2, <1>3, <1>4, <1>5 DEF FP!Requests

LEMMA ProcessingType ==
  ASSUME FP!TypeOK, FP!Processing
  PROVE  FP!TypeOK'
<1>1. CASE FP!Skip
  BY <1>1 DEF FP!TypeOK, FP!Skip, FP!Take, FP!program, FP!work, FP!ld, FP!engines
<1>2. CASE FP!ReadFails
  <2>1. result' \in FramesCodes
    BY <1>2 DEF FP!TypeOK, FP!ReadFails, FP!Fail, FramesCodes
  <2> QED BY <1>2, <2>1 DEF FP!TypeOK, FP!ReadFails, FP!Take, FramesCodes, FP!program,
       FP!work, FP!ld, FP!engines
<1>3. CASE FP!Pipeline
  <2>1. image' \in Stored /\ frame' \in FP!Metadata
    BY <1>3, PrefilteredIsMetadata DEF FP!Pipeline, FP!ResetProcessing
  <2>2. frame_pc' \in {"truncate", "infer"}
    BY <1>3 DEF FP!Pipeline
  <2> QED BY <1>3, <2>1, <2>2 DEF FP!TypeOK, FP!Pipeline, FP!Take, FP!program, FP!ld,
       FP!engines
<1>4. CASE FP!Prefilter
  <2>1. PICK i \in Stored : /\ FP!Take(i)
                            /\ \/ FP!Leave
                               \/ /\ image' = i
                                  /\ frame' = FP!RunPrefiltering(FP!Fresh, i)
                                  /\ frame_pc' \in {"truncate", "infer"}
                                  /\ UNCHANGED FP!ld
                            /\ UNCHANGED <<disk, stored, FP!program, run, result, FP!engines>>
    BY <1>4 DEF FP!Prefilter
  <2>2. CASE FP!Leave
    BY <2>1, <2>2, LeaveType DEF FP!TypeOK, FP!Take, FP!program, FP!engines
  <2>3. CASE ~FP!Leave
    BY <2>1, <2>3, PrefilteredIsMetadata DEF FP!TypeOK, FP!Take, FP!program, FP!ld,
         FP!engines
  <2> QED BY <2>2, <2>3
<1>5. CASE FP!Restore
  <2>1. PICK i \in Stored : /\ FP!Take(i)
                            /\ \/ FP!Leave
                               \/ /\ image' = i
                                  /\ frame' \in {FP!Loaded(i), FP!Fresh}
                                  /\ frame_pc' = "infer"
                                  /\ UNCHANGED FP!ld
                            /\ UNCHANGED <<disk, stored, FP!program, run, result, FP!engines>>
    BY <1>5 DEF FP!Restore
  <2>2. CASE FP!Leave
    BY <2>1, <2>2, LeaveType DEF FP!TypeOK, FP!Take, FP!program, FP!engines
  <2>3. CASE ~FP!Leave
    <3>1. frame' \in FP!Metadata
      BY <2>1, <2>3, LoadedIsMetadata, FreshIsMetadata DEF FP!TypeOK
    <3> QED BY <2>1, <2>3, <3>1 DEF FP!TypeOK, FP!Take, FP!program, FP!ld, FP!engines
  <2> QED BY <2>2, <2>3
<1>6. CASE FP!StoreTruncates
  BY <1>6 DEF FP!TypeOK, FP!StoreTruncates, FP!program, FP!request, FP!work, FP!ld,
       FP!engines
<1>7. CASE FP!StoreWrites
  <2>1. disk' \in [Stored -> SUBSET FP!Metadata]
    BY <1>7 DEF FP!TypeOK, FP!StoreWrites
  <2> QED BY <1>7, <2>1, LeaveType DEF FP!TypeOK, FP!StoreWrites, FP!program, FP!request,
       FP!engines
<1>8. CASE FP!StoreFails
  BY <1>8, LeaveType DEF FP!TypeOK, FP!StoreFails, FP!program, FP!request, FP!engines
<1>9. CASE FP!Ends
  BY <1>9 DEF FP!TypeOK, FP!Ends, FP!program, FP!request, FP!work, FP!ld, FP!engines
<1>10. CASE FP!Rests
  <2>1. run' \in Runs /\ run'.images \subseteq stored
    <3>1. run \in Runs /\ run.images \subseteq stored
      BY DEF FP!TypeOK, Runs
    <3>2. FP!NoRun.images = {}
      BY DEF FP!NoRun
    <3> QED BY <1>10, <3>1, <3>2, NoRunIsRun DEF FP!Rests
  <2> QED BY <1>10, <2>1 DEF FP!TypeOK, FP!Rests, Runs, FP!program, FP!work, FP!ld,
       FP!engines
<1>11. CASE FP!Finish
  <2>1. CASE FP!Leave
    BY <1>11, <2>1, LeaveType DEF FP!TypeOK, FP!Finish, FP!program, FP!request, FP!engines
  <2>2. CASE ~FP!Leave
    BY <1>11, <2>2 DEF FP!TypeOK, FP!Finish, FP!program, FP!request, FP!work, FP!ld,
         FP!engines
  <2> QED BY <2>1, <2>2
<1> QED
  BY <1>1, <1>2, <1>3, <1>4, <1>5, <1>6, <1>7, <1>8, <1>9, <1>10, <1>11 DEF FP!Processing

\* Every error leaves the inference in the same way.
LEMMA GivesType ==
  ASSUME FP!TypeOK, NEW error \in FramesCodes, FP!Gives(error),
         UNCHANGED <<disk, stored, FP!program, FP!request>>,
         initialized_' \in BOOLEAN, rc_net_' \in BOOLEAN, loaded' \subseteq Regions
  PROVE  FP!TypeOK'
<1>1. result' \in FramesCodes
  BY FailType DEF FP!Gives
<1> QED BY <1>1, LeaveType DEF FP!TypeOK, FP!Gives, FramesCodes, FP!program, FP!request

LEMMA ProcessFrameType ==
  ASSUME FP!TypeOK, FP!ProcessFrame
  PROVE  FP!TypeOK'
<1> USE DEF FP!program, FP!request, FP!work, FP!ld, FP!engines
<1>1. CASE FP!NotInitialized \/ FP!RCLoadFails \/ FP!RCInferFails \/ FP!LDGivesUp
  <2>1. /\ FP!Gives("NN_ERROR") \/ FP!Gives("NN_ENGINE_NOT_INITIALIZED")
        /\ UNCHANGED <<disk, stored, FP!program, FP!request, initialized_, loaded>>
        /\ rc_net_' \in {rc_net_, TRUE}
    BY <1>1 DEF FP!NotInitialized, FP!RCLoadFails, FP!RCInferFails, FP!LDGivesUp
  <2>2. initialized_' \in BOOLEAN /\ rc_net_' \in BOOLEAN /\ loaded' \subseteq Regions
    BY <2>1 DEF FP!TypeOK
  <2> QED BY <2>1, <2>2, GivesType DEF FramesCodes
<1>2. CASE FP!EnsureInitialized
  <2>1. frame.regions \subseteq Regions
    BY DEF FP!TypeOK, FP!Metadata
  <2>2. rc_net_' \in BOOLEAN
    BY <1>2 DEF FP!TypeOK, FP!EnsureInitialized
  <2> QED BY <1>2, <2>1, <2>2 DEF FP!TypeOK, FP!EnsureInitialized
<1>3. CASE FP!ExecRCInference
  <2>1. PICK found \in SUBSET Regions :
          /\ frame' = [frame EXCEPT !.stage = FP!RCNeted, !.rc_version = rc_version_,
                                    !.regions = found]
          /\ rest' = found
    BY <1>3 DEF FP!ExecRCInference
  <2>2. frame' \in FP!Metadata
    BY <2>1, ClassifiedIsMetadata DEF FP!TypeOK
  <2> QED BY <1>3, <2>1, <2>2 DEF FP!TypeOK, FP!ExecRCInference
<1>4. CASE FP!LDNothing
  BY <1>4 DEF FP!TypeOK, FP!LDNothing
<1>5. CASE FP!LDSkips
  BY <1>5 DEF FP!TypeOK, FP!LDSkips
<1>6. CASE FP!LDLoadFails
  BY <1>6 DEF FP!TypeOK, FP!LDLoadFails, FP!LoadLDNetEngineForRegion
<1>7. CASE FP!LDInferFails
  BY <1>7 DEF FP!TypeOK, FP!LDInferFails, FP!LoadLDNetEngineForRegion
<1>8. CASE FP!LDInfers
  <2>1. PICK r \in rest \cap FP!Runtimes : \E found \in FP!PostprocessOutput(r) :
          /\ rest' = rest \ {r} /\ landmarks' = landmarks \cup found
          /\ loads' = loads \cup {"OK"} /\ nets' = nets \cup {"OK"}
          /\ loaded' = loaded \ {r}
          /\ UNCHANGED <<disk, stored, FP!program, FP!request, result, frame_pc, FP!work,
               initialized_, rc_net_>>
    BY <1>8 DEF FP!LDInfers, FP!LoadLDNetEngineForRegion, FP!FreeLDNetForRegion
  <2>2. \A found \in FP!PostprocessOutput(r) : found \subseteq Regions \X NetVersions
    BY DEF FP!TypeOK, FP!PostprocessOutput
  <2>3. landmarks' \subseteq Regions \X NetVersions
    BY <2>1, <2>2 DEF FP!TypeOK
  <2> QED BY <2>1, <2>3 DEF FP!TypeOK
<1>9. CASE FP!LDEnds
  <2>1. frame' \in FP!Metadata
    BY <1>9, DetectedIsMetadata DEF FP!TypeOK, FP!LDEnds
  <2> QED BY <1>9, <2>1 DEF FP!TypeOK, FP!LDEnds
<1> QED
  BY <1>1, <1>2, <1>3, <1>4, <1>5, <1>6, <1>7, <1>8, <1>9 DEF FP!ProcessFrame

LEMMA RestartType ==
  ASSUME FP!TypeOK, FP!Restart
  PROVE  FP!TypeOK'
<1>1. image' \in Stored /\ frame' \in FP!Metadata
  <2>1. image' = FP!NoImage /\ frame' = FP!Fresh
    BY DEF FP!Restart
  <2> QED BY <2>1, NoImageIsImage, FreshIsMetadata DEF FP!TypeOK
<1>2. run' \in Runs /\ run'.images = {}
  <2>1. run' = FP!NoRun /\ FP!NoRun.images = {}
    BY DEF FP!Restart, FP!NoRun
  <2> QED BY <2>1, NoRunIsRun
<1> QED BY <1>1, <1>2 DEF FP!TypeOK, FP!Restart, Runs

LEMMA TypeNext == FP!FrameProcessingAssumption /\ FP!TypeOK /\ [FP!Next]_(FP!vars) => FP!TypeOK'
<1>1. FP!TypeOK /\ UNCHANGED FP!vars => FP!TypeOK'
  BY DEF FP!TypeOK, FP!vars, FP!program, FP!request, FP!work, FP!ld, FP!engines
<1> QED BY <1>1, RequestsType, ProcessingType, ProcessFrameType, RestartType DEF FP!Next

\* Every variable keeps its type through any sequence of requests, failures and
\* restarts: results are metadata, and a run handles images of the folder only.
THEOREM FramesTypeCorrect == ASSUME FP!FrameProcessingAssumption PROVE FP!Spec => []FP!TypeOK
  BY FP!FrameProcessingAssumption, TypeInit, TypeNext, PTL DEF FP!Spec

-----------------------------------------------------------------------------
(* Honest metadata *)

\* What is on its way to the disk: the frame is as honest as the disk; while RC
\* runs it has no results yet, and what LD collects is of the regions that RC
\* has found and of the version that it is going to be stamped with.
OnTheWay ==
  /\ FP!Honest(frame)
  /\ run.capture_stage < FP!LDNeted
  /\ frame_pc = "rc" => frame.stage < FP!RCNeted /\ landmarks = {}
  /\ frame_pc = "ld" => /\ frame.stage = FP!RCNeted /\ rest \subseteq frame.regions
                  /\ landmarks \subseteq frame.regions \X {ld_version_}

HonestInv == FP!MetadataIsHonest /\ OnTheWay

LEMMA HonestInit == FP!Init => HonestInv
<1> SUFFICES ASSUME FP!Init PROVE HonestInv
  OBVIOUS
<1>1. FP!MetadataIsHonest
  BY DEF FP!Init, FP!MetadataIsHonest
<1>2. FP!Honest(frame)
  <2>1. frame = FP!Fresh
    BY DEF FP!Init
  <2> QED BY <2>1, FreshIsMetadata
<1>3. run.capture_stage < FP!LDNeted
  BY DEF FP!Init, FP!NoRun, FP!NotPrefiltered, FP!LDNeted
<1> QED BY <1>1, <1>2, <1>3 DEF FP!Init, HonestInv, OnTheWay

\* The disk keeps its honesty when it is left alone or gets an honest frame, ...
LEMMA DiskStaysHonest ==
  ASSUME FP!TypeOK, FP!MetadataIsHonest, NEW i \in Stored, NEW m, FP!Honest(m),
         disk' \in {disk, [disk EXCEPT ![i] = {}], [disk EXCEPT ![i] = {m}]}
  PROVE  FP!MetadataIsHonest'
<1>1. ASSUME NEW j \in Stored, NEW n \in disk'[j] PROVE FP!Honest(n)
  BY <1>1 DEF FP!MetadataIsHonest, FP!TypeOK
<1>2. ASSUME NEW n PROVE FP!Honest(n)' <=> FP!Honest(n)
  BY DEF FP!Honest
<1> QED BY <1>1, <1>2 DEF FP!MetadataIsHonest, FP!Honest

\* ... and leaving an image forgets what was on its way.
LEMMA LeaveIsHonest ==
  ASSUME FP!TypeOK, OnTheWay, FP!Leave, run' = run
  PROVE  OnTheWay'
  BY LeaveType DEF OnTheWay, FP!Honest

LEMMA RequestsHonest ==
  ASSUME FP!FrameProcessingAssumption, FP!TypeOK, HonestInv, FP!Requests
  PROVE  HonestInv'
<1>1. /\ UNCHANGED <<frame, rest, landmarks, ld_version_>>
      /\ frame_pc' \in {"idle", "next"}
  BY DEF FP!Requests, FP!StartCollection, FP!StoreFrameToDisk, FP!AddImage, FP!Reprocess,
         FP!ProcessFrames, FP!program, FP!work, FP!ld, FP!engines
<1>2. run'.capture_stage < FP!LDNeted
  <2>1. ASSUME NEW capture_stage \in FP!NotPrefiltered..FP!RCNeted, NEW target \in Targets,
               FP!StartCollection(capture_stage, target)
        PROVE  run'.capture_stage < FP!LDNeted
    <3>1. run'.capture_stage = capture_stage
      BY <2>1 DEF FP!StartCollection, FP!NoRun
    <3> QED BY <3>1 DEF FP!NotPrefiltered, FP!RCNeted, FP!LDNeted
  <2>2. ASSUME NEW i \in Stored, NEW regions \in SUBSET Regions, FP!StoreFrameToDisk(i, regions)
        PROVE  run'.capture_stage = run.capture_stage
    BY <2>2 DEF FP!StoreFrameToDisk, FP!TypeOK
  <2>3. ASSUME NEW target \in Targets, NEW overwrite \in BOOLEAN, NEW bypass \in BOOLEAN,
               NEW images, FP!Reprocess(target, overwrite, bypass, images)
        PROVE  run'.capture_stage = FP!NotPrefiltered
    BY <2>3 DEF FP!Reprocess, FP!NoRun
  <2>4. CASE FP!ProcessFrames
    BY <2>4 DEF FP!ProcessFrames, FP!TypeOK, HonestInv, OnTheWay
  <2>5. ASSUME NEW i \in Stored, FP!AddImage(i) PROVE run' = run
    BY <2>5 DEF FP!AddImage, FP!request
  <2>6. FP!NotPrefiltered < FP!LDNeted
    BY DEF FP!NotPrefiltered, FP!LDNeted
  <2> QED
    BY <2>1, <2>2, <2>3, <2>4, <2>5, <2>6 DEF FP!Requests, HonestInv, OnTheWay
<1>3. OnTheWay'
  BY <1>1, <1>2 DEF HonestInv, OnTheWay, FP!Honest
<1>4. FP!MetadataIsHonest'
  <2>1. ASSUME NEW i \in Stored, NEW regions \in SUBSET Regions, FP!StoreFrameToDisk(i, regions)
        PROVE  FP!MetadataIsHonest'
    <3> DEFINE stage == run.capture_stage
               m == [stage |-> stage,
                     prefilter |-> IF stage = FP!NotPrefiltered THEN "none" ELSE "passed",
                     rc_version |-> IF stage = FP!RCNeted THEN rc_version_ ELSE FP!None,
                     regions |-> IF stage = FP!RCNeted THEN regions ELSE {},
                     ld_version |-> FP!None, landmarks |-> {}]
    <3>1. stage \in FP!NotPrefiltered..FP!RCNeted /\ rc_version_ # FP!None
      BY DEF FP!TypeOK, HonestInv, OnTheWay, FP!FrameProcessingAssumption, FP!Stages,
             FP!NotPrefiltered, FP!RCNeted, FP!LDNeted
    <3>2. FP!Honest(m)
      BY <3>1 DEF FP!Honest, FP!NotPrefiltered, FP!RCNeted, FP!LDNeted
    <3>3. disk' = [disk EXCEPT ![i] = {m}]
      BY <2>1 DEF FP!StoreFrameToDisk
    <3> QED BY <3>2, <3>3, DiskStaysHonest DEF HonestInv
  <2>2. CASE UNCHANGED disk
    BY <2>2 DEF HonestInv, FP!MetadataIsHonest, FP!Honest
  <2> QED
    BY <2>1, <2>2 DEF FP!Requests, FP!StartCollection, FP!AddImage, FP!Reprocess,
         FP!ProcessFrames
<1> QED BY <1>3, <1>4 DEF HonestInv

LEMMA ProcessingHonest ==
  ASSUME FP!FrameProcessingAssumption, FP!TypeOK, HonestInv, FP!Processing
  PROVE  HonestInv'
<1>1. FP!MetadataIsHonest'
  <2>1. disk' \in {disk, [disk EXCEPT ![image] = {}], [disk EXCEPT ![image] = {frame}]}
    BY DEF FP!Processing, FP!Skip, FP!ReadFails, FP!Pipeline, FP!Prefilter, FP!Restore,
           FP!StoreTruncates, FP!StoreWrites, FP!StoreFails, FP!Ends, FP!Rests, FP!Finish
  <2> QED BY <2>1, DiskStaysHonest DEF HonestInv, OnTheWay, FP!TypeOK
<1>2. OnTheWay'
  <2>1. CASE FP!Pipeline \/ FP!Prefilter \/ FP!Restore
    <3>1. \/ FP!Leave
          \/ frame_pc' \in {"truncate", "infer"} /\ \E i \in Stored :
               frame' \in {FP!RunPrefiltering(FP!Fresh, i), FP!Loaded(i), FP!Fresh}
      BY <2>1 DEF FP!Pipeline, FP!Prefilter, FP!Restore, FP!ResetProcessing
    <3>2. FP!Leave \/ (frame_pc' \in {"truncate", "infer"} /\ FP!Honest(frame'))
      BY <3>1, PrefilteredIsMetadata, LoadedIsMetadata, FreshIsMetadata DEF FP!TypeOK,
           HonestInv
    <3>3. run' = run
      BY <2>1 DEF FP!Pipeline, FP!Prefilter, FP!Restore
    <3> QED BY <3>2, <3>3, LeaveIsHonest DEF HonestInv, OnTheWay, FP!Honest
  <2>2. CASE FP!Skip \/ FP!ReadFails \/ FP!StoreTruncates \/ FP!Ends
    BY <2>2 DEF FP!Skip, FP!ReadFails, FP!StoreTruncates, FP!Ends, FP!Take, HonestInv,
                OnTheWay, FP!Honest, FP!request, FP!program, FP!work, FP!ld
  <2>3. CASE FP!StoreWrites \/ FP!StoreFails
    BY <2>3, LeaveIsHonest DEF FP!StoreWrites, FP!StoreFails, FP!request, HonestInv
  <2>4. CASE FP!Finish
    <3>1. FP!Leave \/ (frame_pc' = "truncate" /\ frame' = frame)
      BY <2>4 DEF FP!Finish, FP!work
    <3>2. run' = run
      BY <2>4 DEF FP!Finish, FP!request
    <3> QED BY <3>1, <3>2, LeaveIsHonest DEF HonestInv, OnTheWay, FP!Honest
  <2>5. CASE FP!Rests
    <3>1. run'.capture_stage < FP!LDNeted
      <4>1. FP!NoRun.capture_stage < FP!LDNeted
        BY DEF FP!NoRun, FP!NotPrefiltered, FP!LDNeted
      <4> QED BY <2>5, <4>1 DEF FP!Rests, HonestInv, OnTheWay
    <3> QED BY <2>5, <3>1 DEF FP!Rests, HonestInv, OnTheWay, FP!Honest, FP!work
  <2> QED BY <2>1, <2>2, <2>3, <2>4, <2>5 DEF FP!Processing
<1> QED BY <1>1, <1>2 DEF HonestInv

\* The inference does not touch the disk.
LEMMA ProcessFrameHonest ==
  ASSUME FP!FrameProcessingAssumption, FP!TypeOK, HonestInv, FP!ProcessFrame
  PROVE  HonestInv'
<1>1. disk' = disk /\ run' = run /\ UNCHANGED FP!program
  BY DEF FP!ProcessFrame, FP!NotInitialized, FP!EnsureInitialized, FP!RCLoadFails,
         FP!RCInferFails, FP!ExecRCInference, FP!LDNothing, FP!LDSkips, FP!LDLoadFails,
         FP!LDInferFails, FP!LDInfers, FP!LDGivesUp, FP!LDEnds, FP!request
<1>2. FP!MetadataIsHonest'
  BY <1>1 DEF HonestInv, FP!MetadataIsHonest, FP!Honest
<1>3. frame \in FP!Metadata /\ run.target \in FP!Stages /\ frame.stage \in FP!Stages
  BY DEF FP!TypeOK, FP!Metadata
<1>4. rc_version_ \in NetVersions /\ rc_version_ # FP!None /\ ld_version_ \in NetVersions
        /\ ld_version_ # FP!None
  BY DEF FP!TypeOK, FP!FrameProcessingAssumption
<1>5. OnTheWay'
  <2>1. CASE FP!NotInitialized \/ FP!RCLoadFails \/ FP!RCInferFails \/ FP!LDGivesUp
    <3>1. FP!Leave
      BY <2>1 DEF FP!NotInitialized, FP!RCLoadFails, FP!RCInferFails, FP!LDGivesUp,
           FP!Gives
    <3> QED BY <1>1, <3>1, LeaveIsHonest DEF HonestInv
  <2>2. CASE FP!EnsureInitialized
    <3>1. frame' = frame /\ rest' = frame.regions /\ landmarks' = {}
      BY <2>2 DEF FP!EnsureInitialized, FP!work
    <3>2. /\ frame_pc' = "rc" => frame.stage < FP!RCNeted
          /\ frame_pc' = "ld" => frame.stage = FP!RCNeted
      BY <2>2, <1>3
        DEF FP!EnsureInitialized, FP!Stages, FP!NotPrefiltered, FP!RCNeted, FP!LDNeted
    <3> QED BY <1>1, <3>1, <3>2 DEF HonestInv, OnTheWay, FP!Honest
  <2>3. CASE FP!ExecRCInference
    <3>1. PICK found \in SUBSET Regions :
            /\ frame' = [frame EXCEPT !.stage = FP!RCNeted, !.rc_version = rc_version_,
                                      !.regions = found]
            /\ rest' = found
      BY <2>3 DEF FP!ExecRCInference
    <3>2. /\ frame'.stage = FP!RCNeted /\ frame'.rc_version = rc_version_
          /\ frame'.regions = found /\ frame'.ld_version = frame.ld_version
          /\ frame'.landmarks = frame.landmarks
      BY <1>3, <3>1 DEF FP!Metadata
    <3>3. frame.ld_version = FP!None /\ frame.landmarks = {}
      BY <2>3, <1>3 DEF FP!ExecRCInference, HonestInv, OnTheWay, FP!Honest, FP!Stages,
                        FP!NotPrefiltered, FP!RCNeted, FP!LDNeted
    <3>4. FP!Honest(frame')
      BY <1>4, <3>2, <3>3 DEF FP!Honest, FP!RCNeted, FP!LDNeted
    <3>5. landmarks' = {} /\ frame_pc' \in {"finish", "ld"}
      BY <2>3 DEF FP!ExecRCInference, HonestInv, OnTheWay
    <3> QED BY <1>1, <3>1, <3>2, <3>4, <3>5 DEF HonestInv, OnTheWay, FP!Honest
  <2>4. CASE FP!LDNothing
    BY <1>1, <2>4 DEF FP!LDNothing, HonestInv, OnTheWay, FP!Honest, FP!work
  <2>5. CASE FP!LDSkips \/ FP!LDLoadFails \/ FP!LDInferFails
    <3>1. /\ UNCHANGED <<frame_pc, frame, landmarks>> /\ rest' \subseteq rest
      BY <2>5 DEF FP!LDSkips, FP!LDLoadFails, FP!LDInferFails, FP!work
    <3> QED BY <1>1, <3>1 DEF HonestInv, OnTheWay, FP!Honest, FP!program
  <2>6. CASE FP!LDInfers
    <3>1. PICK r \in rest \cap FP!Runtimes : \E found \in FP!PostprocessOutput(r) :
            /\ frame_pc = "ld" /\ rest' = rest \ {r} /\ landmarks' = landmarks \cup found
            /\ frame_pc' = frame_pc /\ frame' = frame
      BY <2>6 DEF FP!LDInfers, FP!work
    <3>2. r \in frame.regions
      BY <3>1 DEF HonestInv, OnTheWay
    <3>3. landmarks' \subseteq frame.regions \X {ld_version_}
      BY <3>1, <3>2 DEF HonestInv, OnTheWay, FP!PostprocessOutput
    <3> QED BY <1>1, <3>1, <3>3 DEF HonestInv, OnTheWay, FP!Honest, FP!program
  <2>7. CASE FP!LDEnds
    <3>1. frame' = [frame EXCEPT !.stage = FP!LDNeted, !.ld_version = ld_version_,
                                 !.landmarks = landmarks]
      BY <2>7 DEF FP!LDEnds
    <3>2. /\ frame'.stage = FP!LDNeted /\ frame'.ld_version = ld_version_
          /\ frame'.landmarks = landmarks /\ frame'.rc_version = frame.rc_version
          /\ frame'.regions = frame.regions
      BY <1>3, <3>1 DEF FP!Metadata
    <3>3. frame.stage = FP!RCNeted /\ landmarks \subseteq frame.regions \X {ld_version_}
      BY <2>7 DEF FP!LDEnds, HonestInv, OnTheWay
    <3>4. FP!Honest(frame')
      BY <1>4, <3>2, <3>3 DEF HonestInv, OnTheWay, FP!Honest, FP!RCNeted, FP!LDNeted
    <3> QED BY <1>1, <2>7, <3>4 DEF FP!LDEnds, HonestInv, OnTheWay, FP!Honest
  <2> QED BY <2>1, <2>2, <2>3, <2>4, <2>5, <2>6, <2>7 DEF FP!ProcessFrame
<1> QED BY <1>2, <1>5 DEF HonestInv

LEMMA HonestNext ==
  FP!FrameProcessingAssumption /\ FP!TypeOK /\ HonestInv /\ [FP!Next]_(FP!vars) => HonestInv'
<1> SUFFICES ASSUME FP!FrameProcessingAssumption, FP!TypeOK, HonestInv, [FP!Next]_(FP!vars)
             PROVE  HonestInv'
  OBVIOUS
<1>1. CASE FP!Restart
  <2>1. FP!Honest(frame') /\ run'.capture_stage < FP!LDNeted
    <3>1. frame' = FP!Fresh /\ run' = FP!NoRun
      BY <1>1 DEF FP!Restart
    <3>2. FP!NoRun.capture_stage < FP!LDNeted
      BY DEF FP!NoRun, FP!NotPrefiltered, FP!LDNeted
    <3> QED BY <3>1, <3>2, FreshIsMetadata
  <2>2. disk' = disk /\ frame_pc' = "idle"
    BY <1>1 DEF FP!Restart
  <2> QED BY <2>1, <2>2 DEF HonestInv, OnTheWay, FP!MetadataIsHonest, FP!Honest
<1>2. CASE UNCHANGED FP!vars
  BY <1>2 DEF FP!vars, FP!program, FP!request, FP!work, FP!ld, HonestInv, OnTheWay,
       FP!MetadataIsHonest, FP!Honest
<1> QED
  BY <1>1, <1>2, RequestsHonest, ProcessingHonest, ProcessFrameHonest DEF FP!Next

\* The metadata on disk says how it came about, through any sequence of runs with
\* any versions of the networks, failures and restarts (ExecRCInference,
\* ExecLDInference, ResetProcessing, StoreFrameMetadataToDisk).
THEOREM MetadataIsHonestHolds ==
  ASSUME FP!FrameProcessingAssumption PROVE FP!Spec => []FP!MetadataIsHonest
<1>1. HonestInv => FP!MetadataIsHonest
  BY DEF HonestInv
<1> QED BY <1>1, FP!FrameProcessingAssumption, HonestInit, HonestNext, FramesTypeCorrect,
      PTL DEF FP!Spec

-----------------------------------------------------------------------------
(* Current results *)

Working == frame_pc \in {"infer", "rc", "ld", "finish", "truncate", "write"}

\* The image being reprocessed starts again from its prefiltered frame, and the
\* frame that is to be written has what the run was asked for.
Restarted ==
  /\ run.target >= FP!Prefiltered
  /\ frame_pc \in {"infer", "rc"} => frame.stage = FP!Prefiltered /\ run.target > FP!Prefiltered
  /\ frame_pc = "ld" => /\ run.target = FP!LDNeted
                  /\ frame.stage = FP!RCNeted /\ frame.rc_version = rc_version_
  /\ frame_pc \in {"finish", "truncate", "write"} => FP!Current(frame)

\* Without an error so far, an image that is neither to come nor at work is done.
Done(i) == i \in todo \/ (Working /\ image = i) \/ FP!Current(FP!Loaded(i))
NoneForgotten ==
  run.overwrite /\ result = "OK" /\ ~MetadataLost => \A i \in run.images : Done(i)

CurrentInv ==
  run.kind = "reprocess" => /\ Restarted /\ NoneForgotten
                            /\ frame_pc = "ended" => todo = {}

LEMMA CurrentInit == FP!Init => CurrentInv
  BY DEF FP!Init, FP!NoRun, CurrentInv

LEMMA CurrentRequests ==
  ASSUME FP!FrameProcessingAssumption, FP!TypeOK, CurrentInv, FP!Requests
  PROVE  CurrentInv'
<1>1. ASSUME NEW target \in Targets, NEW overwrite \in BOOLEAN, NEW bypass \in BOOLEAN,
             NEW images, FP!Reprocess(target, overwrite, bypass, images)
      PROVE  CurrentInv'
  <2>1. run'.target = target /\ run'.images = images /\ todo' = images /\ frame_pc' = "next"
    BY <1>1 DEF FP!Reprocess, FP!NoRun
  <2>2. target >= FP!Prefiltered
    BY DEF FP!FrameProcessingAssumption, FP!Prefiltered, FP!LDNeted
  <2> QED BY <2>1, <2>2 DEF CurrentInv, Restarted, NoneForgotten, Done
<1>2. CASE \/ \E capture_stage \in FP!NotPrefiltered..FP!RCNeted, target \in Targets :
                FP!StartCollection(capture_stage, target)
           \/ \E i \in Stored, regions \in SUBSET Regions \ {{}} :
                FP!StoreFrameToDisk(i, regions)
           \/ FP!ProcessFrames
  <2>1. run'.kind = "collect"
    BY <1>2 DEF FP!StartCollection, FP!StoreFrameToDisk, FP!ProcessFrames, FP!NoRun,
         FP!TypeOK
  <2> QED BY <2>1 DEF CurrentInv
<1>3. CASE \E i \in Stored : FP!AddImage(i)
  <2>1. run' = FP!NoRun
    BY <1>3 DEF FP!AddImage, FP!request
  <2> QED BY <2>1 DEF CurrentInv, FP!NoRun
<1> QED BY <1>1, <1>2, <1>3 DEF FP!Requests

\* An image with the results that the run asks for is left alone only if they
\* are of the versions of this program.
LEMMA SkippedIsCurrent ==
  ASSUME FP!TypeOK, NEW m \in FP!Metadata, run.overwrite, ~FP!ShouldReprocess(m),
         run.target >= FP!Prefiltered
  PROVE  FP!Current(m)
<1>1. m.stage \in 0..3 /\ run.target \in 0..3
  BY DEF FP!TypeOK, FP!Metadata, FP!Stages, FP!NotPrefiltered, FP!LDNeted
<1> QED
  BY <1>1 DEF FP!ShouldReprocess, FP!Current, FP!NotPrefiltered, FP!Prefiltered,
       FP!RCNeted, FP!LDNeted

\* Done speaks of the run, its versions, what is to come and what is at work.
LEMMA StaysDone ==
  ASSUME FP!TypeOK, NEW i \in Stored, Done(i), run' = run, UNCHANGED FP!program,
         i \in todo => i \in todo' \/ (Working' /\ image' = i) \/ FP!Current(FP!Loaded(i))',
         Working /\ image = i => (Working' /\ image' = i) \/ FP!Current(FP!Loaded(i))',
         ~(Working /\ image = i) => disk'[i] = disk[i]
  PROVE  Done(i)'
<1>1. ~(Working /\ image = i) => FP!Loaded(i)' = FP!Loaded(i)
  BY DEF FP!Loaded
<1>2. FP!Current(FP!Loaded(i)) /\ FP!Loaded(i)' = FP!Loaded(i) => FP!Current(FP!Loaded(i))'
  BY DEF FP!Current, FP!program
<1> QED BY <1>1, <1>2 DEF Done

LEMMA CurrentProcessing ==
  ASSUME FP!TypeOK, CurrentInv, FP!Processing
  PROVE  CurrentInv'
<1>1. CASE FP!Rests
  <2>1. run'.kind # "reprocess"
    BY <1>1 DEF FP!Rests, FP!NoRun
  <2> QED BY <2>1 DEF CurrentInv
<1>2. CASE ~FP!Rests
  <2>1. run' = run /\ UNCHANGED FP!program
    BY <1>2 DEF FP!Processing, FP!Skip, FP!ReadFails, FP!Pipeline, FP!Prefilter,
                FP!Restore, FP!StoreTruncates, FP!StoreWrites, FP!StoreFails, FP!Ends,
                FP!Finish, FP!request
  <2> SUFFICES ASSUME run.kind = "reprocess" PROVE CurrentInv'
    BY <2>1 DEF CurrentInv
  <2>2. Restarted /\ NoneForgotten /\ (frame_pc = "ended" => todo = {})
    BY DEF CurrentInv
  <2> SUFFICES Restarted' /\ NoneForgotten' /\ (frame_pc' = "ended" => todo' = {})
    BY DEF CurrentInv
  <2>3. ~FP!Prefilter /\ ~FP!Restore
    BY DEF FP!Prefilter, FP!Restore
  <2>4. CASE FP!Skip
    <3>1. PICK i \in Stored : ~FP!ShouldReprocess(FP!Loaded(i)) /\ FP!Take(i)
      BY <2>4 DEF FP!Skip
    <3>2. UNCHANGED <<disk, result, frame_pc, image, frame>>
      BY <2>4 DEF FP!Skip, FP!work
    <3>3. run.overwrite => FP!Current(FP!Loaded(i)) /\ FP!Loaded(i)' = FP!Loaded(i)
      BY <2>2, <3>1, <3>2, LoadedIsMetadata, SkippedIsCurrent DEF FP!TypeOK, Restarted,
           FP!Loaded
    <3>4. NoneForgotten'
      <4> SUFFICES ASSUME run.overwrite, result = "OK", ~MetadataLost, NEW j \in run.images
                   PROVE  Done(j)'
        BY <2>1, <3>2 DEF NoneForgotten
      <4>1. j \in Stored /\ Done(j)
        BY <2>2 DEF NoneForgotten, FP!TypeOK
      <4>2. CASE j = i
        <5>1. FP!Current(FP!Loaded(i))'
          BY <2>1, <3>3 DEF FP!Current, FP!program
        <5> QED BY <4>2, <5>1 DEF Done
      <4>3. CASE j # i
        <5>1. j \in todo => j \in todo'
          BY <3>1, <4>3 DEF FP!Take
        <5> QED BY <2>1, <3>2, <4>1, <5>1, StaysDone DEF Working
      <4> QED BY <4>2, <4>3
    <3>5. Restarted' /\ frame_pc' # "ended"
      BY <2>1, <2>2, <3>1, <3>2 DEF Restarted, FP!Current, FP!program, FP!Take
    <3> QED BY <3>4, <3>5
  <2>5. CASE FP!ReadFails
    <3>1. result' = "FILE_NOT_FOUND" /\ frame_pc = "next" /\ frame_pc' = frame_pc
      BY <2>5 DEF FP!ReadFails, FP!Fail, FP!Take
    <3> QED BY <2>1, <2>2, <3>1 DEF Restarted, NoneForgotten
  <2>6. CASE FP!Pipeline
    <3>1. PICK i \in Stored :
            /\ FP!Take(i) /\ image' = i /\ frame' = FP!RunPrefiltering(FP!Fresh, i)
            /\ frame_pc' = IF run.target = FP!Prefiltered \/ (i \in Earthless /\ ~run.bypass)
                     THEN "truncate" ELSE "infer"
      BY <2>6 DEF FP!Pipeline, FP!ResetProcessing
    <3>2. UNCHANGED <<disk, result>>
      BY <2>6 DEF FP!Pipeline
    <3>3. frame'.stage = FP!Prefiltered /\ frame'.prefilter = FP!Answer(i)
      BY <3>1, PrefilteredIsMetadata
    <3>4. frame_pc' = "infer" => run.target > FP!Prefiltered
      <4>1. run.target \in Nat
        BY DEF FP!TypeOK, FP!Stages, FP!NotPrefiltered, FP!LDNeted
      <4> QED BY <2>2, <3>1, <4>1 DEF Restarted, FP!Prefiltered
    <3>5. frame_pc' = "truncate" => FP!Current(frame)'
      <4>1. CASE run.target = FP!Prefiltered
        BY <2>1, <3>3, <4>1 DEF FP!Current, FP!Prefiltered, FP!RCNeted, FP!LDNeted
      <4>2. CASE i \in Earthless /\ ~run.bypass
        BY <2>1, <3>3, <4>2 DEF FP!Current, FP!Answer
      <4> QED BY <3>1, <4>1, <4>2
    <3>6. NoneForgotten'
      <4> SUFFICES ASSUME run.overwrite, result = "OK", ~MetadataLost, NEW j \in run.images
                   PROVE  Done(j)'
        BY <2>1, <3>2 DEF NoneForgotten
      <4>1. j \in Stored /\ Done(j)
        BY <2>2 DEF NoneForgotten, FP!TypeOK
      <4>2. ~Working /\ Working'
        BY <3>1 DEF Working, FP!Take
      <4>3. j \in todo => j \in todo' \/ image' = j
        BY <3>1 DEF FP!Take
      <4> QED BY <2>1, <3>2, <4>1, <4>2, <4>3, StaysDone
    <3>7. frame_pc' \in {"truncate", "infer"}
      BY <3>1
    <3> QED BY <2>1, <2>2, <3>3, <3>4, <3>5, <3>6, <3>7 DEF Restarted
  <2>7. CASE FP!StoreTruncates
    <3>1. /\ frame_pc = "truncate" /\ frame_pc' = "write"
          /\ UNCHANGED <<result, todo, image, frame>>
          /\ disk' = [disk EXCEPT ![image] = {}]
      BY <2>7 DEF FP!StoreTruncates, FP!request, FP!work
    <3>2. NoneForgotten'
      <4> SUFFICES ASSUME run.overwrite, result = "OK", ~MetadataLost, NEW j \in run.images
                   PROVE  Done(j)'
        BY <2>1, <3>1 DEF NoneForgotten
      <4>1. j \in Stored /\ Done(j)
        BY <2>2 DEF NoneForgotten, FP!TypeOK
      <4>2. Working /\ Working'
        BY <3>1 DEF Working
      <4>3. image # j => disk'[j] = disk[j]
        BY <3>1, <4>1 DEF FP!TypeOK
      <4> QED BY <2>1, <3>1, <4>1, <4>2, <4>3, StaysDone
    <3> QED BY <2>1, <2>2, <3>1, <3>2 DEF Restarted, FP!Current, FP!program
  <2>8. CASE FP!StoreWrites
    <3>1. /\ frame_pc = "write" /\ frame_pc' = "next" /\ UNCHANGED <<result, todo>>
          /\ disk' = [disk EXCEPT ![image] = {frame}]
      BY <2>8 DEF FP!StoreWrites, FP!Leave, FP!request
    <3>2. NoneForgotten'
      <4> SUFFICES ASSUME run.overwrite, result = "OK", ~MetadataLost, NEW j \in run.images
                   PROVE  Done(j)'
        BY <2>1, <3>1 DEF NoneForgotten
      <4>1. j \in Stored /\ Done(j) /\ image \in Stored
        BY <2>2 DEF NoneForgotten, FP!TypeOK
      <4>2. image = j => FP!Current(FP!Loaded(j))'
        <5> SUFFICES ASSUME image = j PROVE FP!Current(FP!Loaded(j))'
          OBVIOUS
        <5>1. disk'[j] = {frame}
          BY <3>1, <4>1 DEF FP!TypeOK
        <5>2. FP!Loaded(j)' = frame
          BY <5>1 DEF FP!Loaded
        <5> QED BY <2>1, <2>2, <3>1, <5>2 DEF Restarted, FP!Current, FP!program
      <4>3. image # j => disk'[j] = disk[j]
        BY <3>1, <4>1 DEF FP!TypeOK
      <4>4. Working
        BY <3>1 DEF Working
      <4> QED BY <2>1, <3>1, <4>1, <4>2, <4>3, <4>4, StaysDone
    <3> QED BY <2>1, <2>2, <3>1, <3>2 DEF Restarted
  <2>9. CASE FP!StoreFails
    <3>1. MetadataLost /\ frame_pc' = "next"
      BY <2>9 DEF FP!StoreFails, FP!Leave
    <3> QED BY <2>1, <2>2, <3>1 DEF Restarted, NoneForgotten
  <2>10. CASE FP!Ends
    <3>1. frame_pc = "next" /\ frame_pc' = "ended" /\ todo = {}
            /\ UNCHANGED <<disk, todo, result>>
      BY <2>10 DEF FP!Ends, FP!request
    <3>2. NoneForgotten'
      <4> SUFFICES ASSUME run.overwrite, result = "OK", ~MetadataLost, NEW j \in run.images
                   PROVE  Done(j)'
        BY <2>1, <3>1 DEF NoneForgotten
      <4>1. j \in Stored /\ Done(j) /\ ~Working
        BY <2>2, <3>1 DEF NoneForgotten, FP!TypeOK, Working
      <4> QED BY <2>1, <3>1, <4>1, StaysDone
    <3> QED BY <2>1, <2>2, <3>1, <3>2 DEF Restarted
  <2>11. CASE FP!Finish
    <3>1. /\ frame_pc = "finish" /\ frame_pc' = "truncate"
          /\ UNCHANGED <<disk, todo, result, image, frame>>
      BY <2>11 DEF FP!Finish, FP!request, FP!work
    <3>2. NoneForgotten'
      <4> SUFFICES ASSUME run.overwrite, result = "OK", ~MetadataLost, NEW j \in run.images
                   PROVE  Done(j)'
        BY <2>1, <3>1 DEF NoneForgotten
      <4>1. j \in Stored /\ Done(j) /\ Working /\ Working'
        BY <2>2, <3>1 DEF NoneForgotten, FP!TypeOK, Working
      <4> QED BY <2>1, <3>1, <4>1, StaysDone
    <3> QED BY <2>1, <2>2, <3>1, <3>2 DEF Restarted, FP!Current, FP!program
  <2> QED
    BY <1>2, <2>3, <2>4, <2>5, <2>6, <2>7, <2>8, <2>9, <2>10, <2>11 DEF FP!Processing
<1> QED BY <1>1, <1>2

LEMMA CurrentProcessFrame ==
  ASSUME FP!TypeOK, CurrentInv, FP!ProcessFrame
  PROVE  CurrentInv'
<1>1. UNCHANGED <<disk, FP!program, run, todo>>
  BY DEF FP!ProcessFrame, FP!NotInitialized, FP!EnsureInitialized, FP!RCLoadFails,
         FP!RCInferFails, FP!ExecRCInference, FP!LDNothing, FP!LDSkips, FP!LDLoadFails,
         FP!LDInferFails, FP!LDInfers, FP!LDGivesUp, FP!LDEnds, FP!request
<1> SUFFICES ASSUME run.kind = "reprocess" PROVE CurrentInv'
  BY <1>1 DEF CurrentInv
<1>2. Restarted /\ NoneForgotten
  BY DEF CurrentInv
<1>3. CASE FP!NotInitialized \/ FP!RCLoadFails \/ FP!RCInferFails \/ FP!LDGivesUp
  <2>1. frame_pc' = "next" /\ result' # "OK"
    BY <1>3 DEF FP!NotInitialized, FP!RCLoadFails, FP!RCInferFails, FP!LDGivesUp,
         FP!Gives, FP!Leave, FP!Fail
  <2> QED BY <1>1, <1>2, <2>1 DEF CurrentInv, Restarted, NoneForgotten
<1>4. CASE ~(FP!NotInitialized \/ FP!RCLoadFails \/ FP!RCInferFails \/ FP!LDGivesUp)
  <2>1. /\ Working /\ Working' /\ UNCHANGED <<result, image>>
        /\ frame_pc' \in {"rc", "ld", "finish"}
    BY <1>4 DEF FP!ProcessFrame, FP!EnsureInitialized, FP!ExecRCInference, FP!LDNothing,
                FP!LDSkips, FP!LDLoadFails, FP!LDInferFails, FP!LDInfers, FP!LDEnds,
                Working, FP!work
  <2>2. NoneForgotten'
    <3> SUFFICES ASSUME run.overwrite, result = "OK", ~MetadataLost, NEW j \in run.images
                 PROVE  Done(j)'
      BY <1>1, <2>1 DEF NoneForgotten
    <3>1. j \in Stored /\ Done(j)
      BY <1>2, <2>1 DEF NoneForgotten, FP!TypeOK
    <3> QED BY <1>1, <2>1, <3>1, StaysDone
  <2>3. frame \in FP!Metadata /\ run.target \in 0..3
    BY DEF FP!TypeOK, FP!Stages, FP!NotPrefiltered, FP!LDNeted
  <2>4. Restarted'
    <3>1. CASE FP!EnsureInitialized
      <4>1. frame_pc = "infer" /\ frame' = frame
        BY <3>1 DEF FP!EnsureInitialized, FP!work
      <4>2. frame_pc' = "rc"
        BY <1>2, <3>1, <4>1 DEF FP!EnsureInitialized, Restarted, FP!Prefiltered,
             FP!RCNeted
      <4> QED BY <1>1, <1>2, <4>1, <4>2 DEF Restarted
    <3>2. CASE FP!ExecRCInference
      <4>1. PICK found \in SUBSET Regions :
              frame' = [frame EXCEPT !.stage = FP!RCNeted, !.rc_version = rc_version_,
                                     !.regions = found]
        BY <3>2 DEF FP!ExecRCInference
      <4>2. frame'.stage = FP!RCNeted /\ frame'.rc_version = rc_version_
        BY <2>3, <4>1 DEF FP!Metadata
      <4>3. run.target \in {FP!RCNeted, FP!LDNeted}
        BY <1>2, <2>3, <3>2 DEF FP!ExecRCInference, Restarted, FP!Prefiltered, FP!RCNeted,
             FP!LDNeted
      <4>4. frame_pc' = "finish" => FP!Current(frame)'
        BY <1>1, <3>2, <4>2 DEF FP!ExecRCInference, FP!Current, FP!program, FP!RCNeted,
             FP!LDNeted
      <4>5. frame_pc' \in {"ld", "finish"} /\ (frame_pc' = "ld" => run.target = FP!LDNeted)
        BY <3>2, <4>3 DEF FP!ExecRCInference
      <4> QED BY <1>1, <1>2, <4>2, <4>4, <4>5 DEF Restarted, FP!program
    <3>3. CASE FP!LDNothing
      <4>1. frame_pc = "ld" /\ frame_pc' = "finish" /\ frame.regions = {} /\ frame' = frame
        BY <3>3 DEF FP!LDNothing, FP!work
      <4> QED BY <1>1, <1>2, <4>1 DEF Restarted, FP!Current, FP!program, FP!RCNeted,
           FP!LDNeted
    <3>4. CASE FP!LDSkips \/ FP!LDLoadFails \/ FP!LDInferFails \/ FP!LDInfers
      <4>1. frame_pc = "ld" /\ frame_pc' = frame_pc /\ frame' = frame
        BY <3>4 DEF FP!LDSkips, FP!LDLoadFails, FP!LDInferFails, FP!LDInfers, FP!work
      <4> QED BY <1>1, <1>2, <4>1 DEF Restarted, FP!program
    <3>5. CASE FP!LDEnds
      <4>1. /\ frame_pc = "ld" /\ frame_pc' = "finish"
            /\ frame' = [frame EXCEPT !.stage = FP!LDNeted, !.ld_version = ld_version_,
                                      !.landmarks = landmarks]
        BY <3>5 DEF FP!LDEnds
      <4>2. /\ frame'.stage = FP!LDNeted /\ frame'.ld_version = ld_version_
            /\ frame'.rc_version = frame.rc_version
        BY <2>3, <4>1 DEF FP!Metadata
      <4>3. FP!Current(frame)'
        BY <1>1, <1>2, <2>3, <4>1, <4>2 DEF Restarted, FP!Current, FP!program, FP!RCNeted,
             FP!LDNeted
      <4> QED BY <1>1, <1>2, <4>1, <4>3 DEF Restarted
    <3> QED BY <1>4, <3>1, <3>2, <3>3, <3>4, <3>5 DEF FP!ProcessFrame
  <2>5. frame_pc' # "ended"
    BY <2>1
  <2> QED BY <2>2, <2>4, <2>5 DEF CurrentInv
<1> QED BY <1>3, <1>4

LEMMA CurrentNext ==
  FP!FrameProcessingAssumption /\ FP!TypeOK /\ CurrentInv /\ [FP!Next]_(FP!vars) => CurrentInv'
<1> SUFFICES ASSUME FP!FrameProcessingAssumption, FP!TypeOK, CurrentInv, [FP!Next]_(FP!vars)
             PROVE  CurrentInv'
  OBVIOUS
<1>1. CASE FP!Restart
  <2>1. run'.kind # "reprocess"
    BY <1>1 DEF FP!Restart, FP!NoRun
  <2> QED BY <2>1 DEF CurrentInv
<1>2. CASE UNCHANGED FP!vars
  BY <1>2 DEF FP!vars, FP!program, FP!request, FP!work, CurrentInv, Restarted,
              NoneForgotten, Done, Working, FP!Current, FP!Loaded
<1> QED
  BY <1>1, <1>2, CurrentRequests, CurrentProcessing, CurrentProcessFrame DEF FP!Next

LEMMA CurrentIsEnough == CurrentInv => FP!ReprocessedIsCurrent
<1> SUFFICES ASSUME CurrentInv, frame_pc = "ended", run.kind = "reprocess", run.overwrite,
                    result = "OK", ~MetadataLost, NEW i \in run.images
             PROVE  FP!Current(FP!Loaded(i))
  BY DEF FP!ReprocessedIsCurrent
<1>1. Done(i) /\ todo = {} /\ ~Working
  BY DEF CurrentInv, NoneForgotten, Working
<1> QED BY <1>1 DEF Done

\* When a run with overwrite ends without an error, every image has results of the
\* versions it was run with, whatever the disk held before, unless the prefilter
\* rejected it or it has no regions (Reprocessing::Dataset, ShouldReprocess).
THEOREM ReprocessedIsCurrentHolds ==
  ASSUME FP!FrameProcessingAssumption PROVE FP!Spec => []FP!ReprocessedIsCurrent
  BY FP!FrameProcessingAssumption, CurrentIsEnough, CurrentInit, CurrentNext,
    FramesTypeCorrect, PTL
     DEF FP!Spec

-----------------------------------------------------------------------------
(***************************************************************************)
(* OrbitDetermination                                                      *)
(***************************************************************************)

-----------------------------------------------------------------------------
(* The invariant *)

Texts == {Unready(t) : t \in {"none", "torn", "unprocessed"}}
  \cup UNION {Processed(v) : v \in Versions}
OrbitCodes == {"OK", "CONFIG", "ODMEAS_NOT_VALID", "FILE_NOT_AVAILABLE", "FILE_DOES_NOT_EXIST",
          "BATCH_OPT_BUILD_FAILED", "BATCH_OPT_NO_CONVERGENCE", "BATCH_OPT_INVALID_OUTPUT"}
Stages == {"DATASET_NOT_AVAILABLE", "DATASET_NOT_PROCESSED", "DATASET_PROCESSED",
           "MEASUREMENTS_READY", "OD_COMPLETED", "FAILED"}
Results == [code : OrbitCodes, stage : Stages, job : Nat]

OrbitTyped ==
  /\ TypeOK
  /\ frames \in [1..Frames -> Texts]
  /\ out \in Results /\ out.job \in 0..jobs /\ g_od_result \in Results

\* Rows of one frame stand together, in the order of the frames.
OrbitInOrder(rows) == \A i, j \in DOMAIN rows : i < j => rows[i].frame <= rows[j].frame

\* A group starts with the first row of a frame.
Grouped(m) ==
  /\ DOMAIN m.starts = DOMAIN m.rows /\ OrbitInOrder(m.rows)
  /\ \A i \in DOMAIN m.rows :
       m.starts[i] <=> i = 1 \/ m.rows[i - 1].frame # m.rows[i].frame

\* Rows in order, and numbers for their groups.
Numbered(rows, group) ==
  /\ DOMAIN group = DOMAIN rows /\ OrbitInOrder(rows)
  /\ \A i, j \in DOMAIN rows : group[i] = group[j] <=> rows[i].frame = rows[j].frame

\* A row is of the model inferred, or of a frame that was written with its model
\* while the files were read.
OfModel(rows) ==
  \A i \in DOMAIN rows :
    \/ rows[i].version = inferred_ld_version
    \/ <<rows[i].frame, rows[i].version>> \in rewritten

\* So are the frames that the first pass has read.
Known(F) ==
  \A f \in F : f \in LDNeted(files) =>
    \/ frames[f].version = inferred_ld_version /\ inferred_ld_version # 0
    \/ <<f, frames[f].version>> \in rewritten

CsvRows == [i \in DOMAIN csv |-> csv[i].row]
CsvGroups == [i \in DOMAIN csv |-> csv[i].group]

\* What the first pass has found out stays true of what the second reads.
Inferred ==
  /\ step = "infer" => Known(files \ unread)
  /\ step = "extract" => Known(files) /\ OfModel(lm_rows)
  /\ step = "csv" => OfModel(lm_rows)
  /\ step \in {"imu", "load"} => OfModel(CsvRows)
  /\ step = "solve" => OfModel(active.rows)

\* Groups are frames, as vectors of starts and as numbers in the file.
GroupsAreFrames ==
  /\ step = "infer" => lm_rows = <<>> /\ group_starts_vec = <<>>
  /\ step = "extract" => \A i \in DOMAIN lm_rows : \A f \in unread : lm_rows[i].frame < f
  /\ step \in {"extract", "csv"} => Grouped([rows |-> lm_rows, starts |-> group_starts_vec])
  /\ step \in {"imu", "load"} => Numbered(CsvRows, CsvGroups)
  /\ step \in {"solve", "results"} => Grouped(active)

\* Indices name different rows, the active ones; all others are flagged.
Indexed ==
  step \in {"solve", "results"} =>
    /\ DOMAIN active_original_indices = DOMAIN active.rows
    /\ DOMAIN outlier_flags = DOMAIN measurements.rows
    /\ \A k \in DOMAIN active.rows :
         /\ active_original_indices[k] \in DOMAIN measurements.rows
         /\ active.rows[k] = measurements.rows[active_original_indices[k]]
    /\ \A j, k \in DOMAIN active.rows :
         active_original_indices[j] = active_original_indices[k] => j = k
    /\ \A i \in DOMAIN measurements.rows :
         outlier_flags[i] = 0
           <=> \E k \in DOMAIN active.rows : active_original_indices[k] = i
    /\ residuals # <<>> => residuals = measurements.rows

OrbitInv == OrbitTyped /\ Inferred /\ GroupsAreFrames /\ Indexed

\* A set of numbers has a smallest one: what holds at 0 and is kept by each step has no
\* smallest number at which it fails, and so holds throughout.
LEMMA Smallest ==
  ASSUME NEW T \in SUBSET Nat, T # {}
  PROVE  \E n \in T : \A m \in T : n <= m
<1>1. PICK n \in T : \A m \in T : <<m, n>> \notin OpToRel(<, Nat)
  BY NatLessThanWellFounded, WFMin
<1>2. \A m \in T : ~(m < n)
  BY <1>1, Zenon DEF OpToRel
<1>3. \A m \in T : n <= m
  BY <1>2, SMT
<1> QED BY <1>3

LEMMA SortedInterval ==
  ASSUME NEW n \in Nat
  PROVE  Sorted(1..n) = [k \in 1..n |-> k]
<1> DEFINE Below(x) == {y \in 1..n : y < x}
<1>1. ASSUME NEW x \in 1..n PROVE Cardinality(Below(x)) = x - 1
  <2>1. Below(x) = 1..(x - 1)
    OBVIOUS
  <2>2. Cardinality(1..(x - 1)) = x - 1
    BY FS_Interval
  <2> QED BY <2>1, <2>2
<1>2. Cardinality(1..n) = n
  BY FS_Interval
<1> HIDE DEF Below
<1>3. ASSUME NEW k \in 1..n
      PROVE  (CHOOSE x \in 1..n : Cardinality(Below(x)) = k - 1) = k
  <2>1. \A x \in 1..n : Cardinality(Below(x)) = k - 1 <=> x = k
    BY <1>1
  <2> QED BY <2>1
<1>4. Sorted(1..n) = [k \in 1..n |-> CHOOSE x \in 1..n : Cardinality(Below(x)) = k - 1]
  BY <1>2 DEF Sorted, Below
<1> QED BY <1>3, <1>4


\* Sorted(S) lists S, each number once, in increasing order.
LEMMA OrbitSortedLists ==
  ASSUME NEW m \in Nat, NEW S \in SUBSET (1..m)
  PROVE  /\ Cardinality(S) \in Nat
         /\ Sorted(S) \in Seq(S) /\ Len(Sorted(S)) = Cardinality(S)
         /\ \A j, k \in DOMAIN Sorted(S) : j < k => Sorted(S)[j] < Sorted(S)[k]
         /\ \A x \in S : \E k \in DOMAIN Sorted(S) : Sorted(S)[k] = x
<1> DEFINE Below(x) == {y \in S : y < x}
           rank == [x \in S |-> Cardinality(Below(x)) + 1]
           n == Cardinality(S)
           at(k) == CHOOSE y \in S : Cardinality(Below(y)) = k - 1
<1>1. IsFiniteSet(S) /\ n \in Nat
  <2>1. IsFiniteSet(1..m)
    BY FS_Interval
  <2>2. IsFiniteSet(S)
    BY <2>1, FS_Subset
  <2> QED BY <2>2, FS_CardinalityType
<1>2. ASSUME NEW x \in S PROVE rank[x] \in 1..n
  <2>1. Below(x) \in SUBSET S /\ Below(x) # S
    OBVIOUS
  <2>2. Cardinality(Below(x)) <= n /\ Cardinality(Below(x)) # n /\ Cardinality(Below(x)) \in Nat
    <3>1. IsFiniteSet(Below(x)) /\ Cardinality(Below(x)) <= n /\ Cardinality(Below(x)) # n
      <4>1. Below(x) \in SUBSET S /\ Below(x) # S
        BY <2>1
      <4> HIDE DEF Below
      <4> QED BY <1>1, <4>1, FS_Subset
    <3> HIDE DEF Below, n
    <3> QED BY <3>1, FS_CardinalityType
  <2> HIDE DEF Below, n
  <2> QED BY <1>1, <2>2 DEF rank
<1>3. ASSUME NEW x \in S, NEW y \in S, x < y PROVE rank[x] < rank[y]
  <2>1. Below(x) \in SUBSET Below(y) /\ Below(x) # Below(y)
    <3>1. x \in Int /\ y \in Int /\ S \subseteq Int
      OBVIOUS
    <3>2. x \in Below(y) /\ x \notin Below(x)
      BY <1>3, <3>1
    <3>3. \A z \in Below(x) : z \in Below(y)
      BY <1>3, <3>1
    <3> HIDE DEF Below
    <3> QED BY <3>2, <3>3
  <2>2. Below(y) \in SUBSET S
    OBVIOUS
  <2>3. IsFiniteSet(Below(y)) /\ Cardinality(Below(y)) \in Nat
    <3> HIDE DEF Below
    <3> QED BY <1>1, <2>2, FS_Subset, FS_CardinalityType
  <2>4. /\ Cardinality(Below(x)) # Cardinality(Below(y)) /\ Cardinality(Below(x)) \in Nat
        /\ Cardinality(Below(x)) <= Cardinality(Below(y))
    <3> HIDE DEF Below
    <3> QED BY <2>1, <2>3, FS_Subset, FS_CardinalityType
  <2> HIDE DEF Below
  <2> QED BY <2>3, <2>4 DEF rank
<1>4. rank \in Injection(S, 1..n)
  <2>1. ASSUME NEW x \in S, NEW y \in S, x # y PROVE rank[x] # rank[y]
    <3>1. x < y \/ y < x
      BY <2>1
    <3>2. rank[x] \in 1..n /\ rank[y] \in 1..n
      BY <1>2
    <3> HIDE DEF rank, n
    <3> QED BY <1>1, <1>3, <3>1, <3>2
  <2>2. rank \in [S -> 1..n]
    <3>1. DOMAIN rank = S /\ rank = [x \in S |-> rank[x]]
      BY Zenon
    <3> HIDE DEF rank, n
    <3> QED BY <1>2, <3>1
  <2> HIDE DEF rank, n
  <2> QED BY <2>1, <2>2 DEF Injection, IsInjective
<1>5. rank \in Surjection(S, 1..n)
  <2>1. IsFiniteSet(1..n) /\ Cardinality(1..n) = n
    BY <1>1, FS_Interval
  <2> QED BY <1>4, <2>1, FS_Injection
<1>6. ASSUME NEW k \in 1..n PROVE at(k) \in S /\ rank[at(k)] = k
  <2>1. PICK x \in S : rank[x] = k
    BY <1>5 DEF Surjection
  <2>2. Cardinality(Below(x)) = k - 1
    <3>1. Below(x) \in SUBSET S
      OBVIOUS
    <3> HIDE DEF Below
    <3>2. Cardinality(Below(x)) \in Nat
      BY <1>1, <3>1, FS_Subset, FS_CardinalityType
    <3> QED BY <2>1, <3>2 DEF rank
  <2>3. at(k) \in S /\ Cardinality(Below(at(k))) = k - 1
    BY <2>2
  <2> HIDE DEF at, Below, n
  <2>4. rank[at(k)] = (k - 1) + 1
    BY <2>3, Zenon DEF rank
  <2>5. (k - 1) + 1 = k
    BY <1>1
  <2> QED BY <2>3, <2>4, <2>5
<1>7. Sorted(S) = [k \in 1..n |-> at(k)]
  BY DEF Sorted
<1> HIDE DEF n, at, rank, Below
<1>8. Sorted(S) \in [1..n -> S]
  BY <1>6, <1>7
<1>9. Sorted(S) \in Seq(S) /\ Len(Sorted(S)) = n /\ DOMAIN Sorted(S) = 1..n
  BY <1>1, <1>8
<1>10. ASSUME NEW j \in 1..n, NEW k \in 1..n, j < k PROVE Sorted(S)[j] < Sorted(S)[k]
  <2>1. PICK x \in S : x = at(j) /\ rank[x] = j
    BY <1>6
  <2>2. PICK y \in S : y = at(k) /\ rank[y] = k
    BY <1>6
  <2>3. x < y
    <3>1. y < x => k < j
      BY <1>3, <2>1, <2>2
    <3>2. x # y
      BY <1>10, <2>1, <2>2
    <3> QED BY <1>1, <1>10, <3>1, <3>2
  <2> QED BY <1>7, <2>1, <2>2, <2>3
<1>11. ASSUME NEW x \in S PROVE \E k \in 1..n : Sorted(S)[k] = x
  <2>1. rank[x] \in 1..n
    BY <1>2
  <2>2. at(rank[x]) = x
    BY <1>4, <1>6, <2>1 DEF Injection, IsInjective
  <2> QED BY <1>7, <2>1, <2>2
<1> QED BY <1>1, <1>9, <1>10, <1>11 DEF n
-----------------------------------------------------------------------------
(* Groups *)

\* Two places have the same number exactly if no group starts between them.
LEMMA GroupNumbers ==
  ASSUME NEW starts \in Seq(BOOLEAN), NEW i \in 1..Len(starts), NEW j \in 1..Len(starts), i <= j
  PROVE  /\ Groups(starts)[i] \in Int
         /\ starts[1] => Groups(starts)[i] \in Nat
         /\ Groups(starts)[i] = Groups(starts)[j] <=> \A k \in (i + 1)..j : ~starts[k]
<1> DEFINE Until(k) == {x \in 1..k : starts[x]}
<1>1. ASSUME NEW k \in 1..Len(starts)
      PROVE  /\ IsFiniteSet(Until(k)) /\ Cardinality(Until(k)) \in Nat
             /\ Groups(starts)[k] = Cardinality(Until(k)) - 1
  <2>1. IsFiniteSet(1..k) /\ Until(k) \in SUBSET (1..k)
    BY FS_Interval
  <2>2. Groups(starts)[k] = Cardinality(Until(k)) - 1
    BY DEF Groups
  <2> HIDE DEF Until
  <2> QED BY <2>1, <2>2, FS_Subset, FS_CardinalityType
<1>2. starts[1] => Cardinality(Until(i)) # 0
  <2>1. starts[1] => 1 \in Until(i)
    OBVIOUS
  <2> HIDE DEF Until
  <2> QED BY <1>1, <2>1, FS_EmptySet
<1>3. Until(i) \in SUBSET Until(j)
  OBVIOUS
<1>4. Until(i) = Until(j) <=> \A k \in (i + 1)..j : ~starts[k]
  <2>1. ASSUME NEW k \in (i + 1)..j, starts[k] PROVE Until(i) # Until(j)
    <3>1. k \in Until(j) /\ k \notin Until(i)
      BY <2>1
    <3> QED BY <3>1
  <2>2. ASSUME NEW x \in Until(j), x \notin Until(i) PROVE x \in (i + 1)..j /\ starts[x]
    BY <2>2
  <2> HIDE DEF Until
  <2> QED BY <1>3, <2>1, <2>2
<1>5. Cardinality(Until(i)) = Cardinality(Until(j)) <=> Until(i) = Until(j)
  <2> HIDE DEF Until
  <2> QED BY <1>1, <1>3, FS_Subset
<1> HIDE DEF Until
<1> QED BY <1>1, <1>2, <1>4, <1>5

\* The groups of rows that are grouped are the frames of the rows.
LEMMA GroupsOfFrames ==
  ASSUME NEW m, Grouped(m), m.rows \in Seq(Rows), m.starts \in Seq(BOOLEAN)
  PROVE  /\ Numbered(m.rows, Groups(m.starts))
         /\ \A i \in DOMAIN m.rows : Groups(m.starts)[i] \in Nat
<1> DEFINE n == Len(m.rows)
           frameOf(i) == m.rows[i].frame
<1>1. /\ n \in Nat /\ DOMAIN m.rows = 1..n /\ DOMAIN m.starts = 1..n /\ Len(m.starts) = n
      /\ \A i \in 1..n : frameOf(i) \in Int
  <2>1. n \in Nat /\ DOMAIN m.rows = 1..n /\ DOMAIN m.starts = 1..n
    BY DEF Grouped
  <2>2. Len(m.starts) = n
    BY <2>1
  <2>3. ASSUME NEW i \in 1..n PROVE frameOf(i) \in Int
    <3>1. m.rows[i] \in Rows
      BY <2>1
    <3> QED BY <3>1 DEF Rows
  <2> QED BY <2>1, <2>2, <2>3
<1>2. \A i, j \in 1..n : i < j => frameOf(i) <= frameOf(j)
  BY <1>1 DEF Grouped, OrbitInOrder
<1>3. \A i \in 1..n : m.starts[i] <=> i = 1 \/ frameOf(i - 1) # frameOf(i)
  BY <1>1 DEF Grouped
<1> HIDE DEF n, frameOf
<1>4. ASSUME NEW i \in 1..n, NEW j \in 1..n, i <= j
      PROVE  frameOf(i) = frameOf(j) <=> \A k \in (i + 1)..j : ~m.starts[k]
  <2>1. ASSUME frameOf(i) = frameOf(j), NEW k \in (i + 1)..j PROVE ~m.starts[k]
    <3>1. k \in 1..n /\ k - 1 \in 1..n /\ k # 1
      BY <1>1
    <3>2. frameOf(i) <= frameOf(k - 1) /\ frameOf(k - 1) <= frameOf(k)
            /\ frameOf(k) <= frameOf(j)
      <4>1. (i < k - 1 \/ i = k - 1) /\ k - 1 < k /\ (k < j \/ k = j)
        BY <1>1, <3>1
      <4> QED BY <1>1, <1>2, <3>1, <4>1
    <3>3. frameOf(k - 1) \in Int /\ frameOf(k) \in Int /\ frameOf(i) \in Int
      BY <1>1, <3>1
    <3>4. frameOf(k - 1) = frameOf(k)
      BY <2>1, <3>2, <3>3
    <3> QED BY <1>3, <3>1, <3>4
  <2>2. ASSUME \A k \in (i + 1)..j : ~m.starts[k] PROVE frameOf(i) = frameOf(j)
    <3> DEFINE Other == {k \in i..j : frameOf(k) # frameOf(i)}
    <3>1. ASSUME NEW k \in Other, \A x \in Other : k <= x PROVE FALSE
      <4>1. k \in (i + 1)..j /\ k - 1 \in i..j
        BY <1>1
      <4>2. k - 1 \notin Other
        <5> HIDE DEF Other
        <5> QED BY <3>1, <4>1
      <4>3. frameOf(k - 1) = frameOf(i)
        BY <4>1, <4>2
      <4>4. k \in 1..n /\ ~m.starts[k]
        BY <1>1, <2>2, <4>1
      <4>5. frameOf(k - 1) = frameOf(k)
        BY <1>3, <4>4
      <4> QED BY <4>3, <4>5
    <3>2. Other \in SUBSET Nat
      BY <1>1
    <3>3. Other = {}
      <4> HIDE DEF Other
      <4> QED BY <3>1, <3>2, Smallest
    <3>4. j \in i..j
      BY <1>1, <1>4
    <3> QED BY <3>3, <3>4
  <2> QED BY <2>1, <2>2
<1>5. ASSUME NEW i \in 1..n, NEW j \in 1..n, i <= j
      PROVE  /\ Groups(m.starts)[i] \in Nat
             /\ Groups(m.starts)[i] = Groups(m.starts)[j] <=> frameOf(i) = frameOf(j)
  <2>1. m.starts[1]
    BY <1>1, <1>3
  <2>2. i \in 1..Len(m.starts) /\ j \in 1..Len(m.starts)
    BY <1>1
  <2> QED BY <1>4, <1>5, <2>1, <2>2, GroupNumbers
<1>6. \A i, j \in 1..n : Groups(m.starts)[i] = Groups(m.starts)[j] <=> frameOf(i) = frameOf(j)
  <2>1. \A i, j \in 1..n : i <= j \/ j <= i
    BY <1>1
  <2> QED BY <1>5, <2>1
<1>7. \A i \in 1..n : Groups(m.starts)[i] \in Nat
  <2>1. \A i \in 1..n : i <= i
    BY <1>1
  <2> QED BY <1>5, <2>1
<1>8. DOMAIN Groups(m.starts) = 1..n
  BY <1>1 DEF Groups
<1> QED BY <1>1, <1>6, <1>7, <1>8 DEF Numbered, Grouped, frameOf

\* Groups that are frames still are when they are written as starts again.
LEMMA StartsOfFrames ==
  ASSUME NEW rows \in Seq(Rows), NEW group, Numbered(rows, group),
         \A i \in DOMAIN rows : group[i] \in Nat
  PROVE  Grouped([rows |-> rows, starts |-> Starts(group)]) /\ Starts(group) \in Seq(BOOLEAN)
<1> DEFINE n == Len(rows)
<1>1. n \in Nat /\ DOMAIN rows = 1..n /\ DOMAIN group = 1..n
  BY DEF Numbered
<1> HIDE DEF n
<1>2. Starts(group) = [i \in 1..n |-> group[i] # IF i = 1 THEN -1 ELSE group[i - 1]]
  BY <1>1 DEF Starts
<1>3. ASSUME NEW i \in 1..n
      PROVE  Starts(group)[i] <=> i = 1 \/ rows[i - 1].frame # rows[i].frame
  <2>1. Starts(group)[i] <=> group[i] # IF i = 1 THEN -1 ELSE group[i - 1]
    BY <1>2
  <2>2. group[i] # -1
    <3>1. group[i] \in Nat
      BY <1>1
    <3> QED BY <3>1
  <2>3. ASSUME i # 1 PROVE group[i] # group[i - 1] <=> rows[i - 1].frame # rows[i].frame
    <3>1. i - 1 \in 1..n
      BY <1>1, <2>3
    <3> QED BY <1>1, <3>1 DEF Numbered
  <2> QED BY <2>1, <2>2, <2>3
<1>4. Starts(group) \in Seq(BOOLEAN)
  <2>1. Starts(group) \in [1..n -> BOOLEAN]
    BY <1>2
  <2> QED BY <1>1, <2>1
<1>5. DOMAIN Starts(group) = 1..n
  BY <1>2
<1> QED BY <1>1, <1>3, <1>4, <1>5 DEF Grouped, Numbered

-----------------------------------------------------------------------------
(* Rows *)

\* The elements of two sequences, one after the other.
LEMMA Concatenated ==
  ASSUME NEW T, NEW a \in Seq(T), NEW b \in Seq(T)
  PROVE  /\ a \o b \in Seq(T) /\ Len(a \o b) = Len(a) + Len(b)
         /\ DOMAIN (a \o b) = 1..(Len(a) + Len(b))
         /\ \A i \in 1..(Len(a) + Len(b)) :
              (a \o b)[i] = IF i <= Len(a) THEN a[i] ELSE b[i - Len(a)]
OBVIOUS

\* Marks for the rows of one frame.
LEMMA FirstOnly ==
  ASSUME NEW T, NEW a \in Seq(T)
  PROVE  /\ [i \in DOMAIN a |-> i = 1] \in Seq(BOOLEAN)
         /\ Len([i \in DOMAIN a |-> i = 1]) = Len(a)
<1>1. DOMAIN a = 1..Len(a) /\ Len(a) \in Nat
  OBVIOUS
<1>2. [i \in DOMAIN a |-> i = 1] \in [1..Len(a) -> BOOLEAN]
  BY <1>1, Zenon
<1> QED BY <1>1, <1>2

\* The rows of a later frame are a group of their own.
LEMMA NextFrame ==
  ASSUME NEW rows \in Seq(Rows), NEW starts \in Seq(BOOLEAN), NEW more \in Seq(Rows),
         NEW f \in Nat,
         Grouped([rows |-> rows, starts |-> starts]),
         \A i \in DOMAIN rows : rows[i].frame < f,
         \A i \in DOMAIN more : more[i].frame = f
  PROVE  Grouped([rows |-> rows \o more, starts |-> starts \o [i \in DOMAIN more |-> i = 1]])
<1> DEFINE first == [i \in DOMAIN more |-> i = 1]
           n == Len(rows)
           k == Len(more)
           all == rows \o more
           marks == starts \o first
<1>1. /\ n \in Nat /\ k \in Nat /\ DOMAIN rows = 1..n /\ DOMAIN more = 1..k
      /\ DOMAIN starts = 1..n /\ Len(starts) = n
  BY DEF Grouped
<1>2. first \in Seq(BOOLEAN) /\ Len(first) = k
  BY FirstOnly
<1>3. /\ DOMAIN all = 1..(n + k) /\ DOMAIN marks = 1..(n + k)
      /\ \A i \in 1..(n + k) : all[i] = IF i <= n THEN rows[i] ELSE more[i - n]
      /\ \A i \in 1..(n + k) : marks[i] = IF i <= n THEN starts[i] ELSE first[i - n]
  <2> HIDE DEF first
  <2>1. Len(rows) = n /\ Len(more) = k
    OBVIOUS
  <2> HIDE DEF n, k
  <2>2. /\ DOMAIN all = 1..(n + k)
        /\ \A i \in 1..(n + k) : all[i] = IF i <= n THEN rows[i] ELSE more[i - n]
    BY <2>1, Concatenated, Zenon
  <2>3. /\ DOMAIN marks = 1..(n + k)
        /\ \A i \in 1..(n + k) : marks[i] = IF i <= n THEN starts[i] ELSE first[i - n]
    BY <1>1, <1>2, Concatenated, Zenon
  <2> QED BY <2>2, <2>3
<1>4. \A i \in 1..k : first[i] <=> i = 1
  BY <1>1
<1> HIDE DEF n, k, first, all, marks
<1>5. ASSUME NEW i \in 1..(n + k), i > n PROVE i - n \in 1..k /\ all[i].frame = f
  <2>1. i - n \in 1..k /\ ~(i <= n)
    BY <1>1, <1>5
  <2>2. all[i] = more[i - n]
    BY <1>3, <2>1
  <2> QED BY <1>1, <2>1, <2>2
<1>6. \A i \in 1..n : all[i].frame = rows[i].frame /\ all[i].frame \in Int /\ all[i].frame < f
  <2>1. \A i \in 1..n : rows[i].frame \in Int
    <3>1. \A i \in 1..n : rows[i] \in Rows
      BY <1>1
    <3> QED BY <3>1 DEF Rows
  <2>2. \A i \in 1..n : i \in 1..(n + k) /\ i <= n
    BY <1>1
  <2>3. \A i \in 1..n : all[i] = rows[i]
    BY <1>3, <2>2
  <2> QED BY <1>1, <2>1, <2>3
<1>7. ASSUME NEW i \in 1..(n + k), NEW j \in 1..(n + k), i < j
               PROVE all[i].frame <= all[j].frame
  <2>1. CASE j <= n
    <3>1. i \in 1..n /\ j \in 1..n
      BY <1>1, <1>7, <2>1
    <3> QED BY <1>1, <1>6, <1>7, <3>1 DEF Grouped, OrbitInOrder
  <2>2. CASE ~(j <= n)
    <3>1. all[j].frame = f
      BY <1>1, <1>5, <2>2
    <3>2. i \in 1..n \/ i > n
      BY <1>1
    <3> QED BY <1>5, <1>6, <3>1, <3>2
  <2> QED BY <2>1, <2>2
<1>8. ASSUME NEW i \in 1..(n + k)
      PROVE  marks[i] <=> i = 1 \/ all[i - 1].frame # all[i].frame
  <2>1. CASE i <= n
    <3>1. i \in 1..n /\ marks[i] = starts[i]
      BY <1>1, <1>3, <2>1
    <3>2. starts[i] <=> i = 1 \/ rows[i - 1].frame # rows[i].frame
      BY <1>1, <3>1 DEF Grouped
    <3>3. i # 1 => i - 1 \in 1..n
      BY <1>1, <3>1
    <3> QED BY <1>6, <3>1, <3>2, <3>3
  <2>2. CASE i = n + 1
    <3>1. i - n = 1 /\ ~(i <= n) /\ 1 \in 1..k
      BY <1>1, <2>2
    <3>2. marks[i]
      BY <1>3, <1>4, <3>1
    <3>3. i # 1 => i - 1 \in 1..n
      BY <1>1, <2>2
    <3>4. all[i].frame = f
      BY <1>1, <1>5, <2>2
    <3> QED BY <1>6, <3>2, <3>3, <3>4
  <2>3. CASE i > n + 1
    <3>1. i - n \in 1..k /\ i - n # 1 /\ ~(i <= n) /\ i - 1 \in 1..(n + k) /\ i - 1 > n
            /\ i > n /\ i # 1
      BY <1>1, <2>3
    <3>2. ~marks[i]
      BY <1>3, <1>4, <3>1
    <3>3. all[i].frame = f /\ all[i - 1].frame = f
      BY <1>5, <3>1
    <3> QED BY <3>1, <3>2, <3>3
  <2> QED BY <1>1, <2>1, <2>2, <2>3
<1> QED BY <1>3, <1>7, <1>8 DEF Grouped, OrbitInOrder, all, marks, first

\* What is left of the rows without those rejected.
LEMMA RowsKept ==
  ASSUME NEW m, m.rows \in Seq(Rows), m.starts \in Seq(BOOLEAN), Grouped(m),
         NEW keep \in Seq(DOMAIN m.rows), \A j, k \in DOMAIN keep : j < k => keep[j] < keep[k]
  PROVE  LET left == filter_landmark_measurements(m, keep)
         IN  /\ left.rows \in Seq(Rows) /\ left.starts \in Seq(BOOLEAN) /\ Grouped(left)
             /\ DOMAIN left.rows = DOMAIN keep
             /\ \A j \in DOMAIN keep : left.rows[j] = m.rows[keep[j]]
<1> DEFINE n == Len(keep)
           rows == [j \in DOMAIN keep |-> m.rows[keep[j]]]
           group == [j \in DOMAIN keep |-> Groups(m.starts)[keep[j]]]
           left == filter_landmark_measurements(m, keep)
<1>1. n \in Nat /\ DOMAIN keep = 1..n /\ \A j \in 1..n : keep[j] \in DOMAIN m.rows
  OBVIOUS
<1> HIDE DEF n
<1>2. /\ \A i \in DOMAIN m.rows : m.rows[i] \in Rows /\ i \in Int
      /\ \A i, j \in DOMAIN m.rows : i < j => m.rows[i].frame <= m.rows[j].frame
  <2>1. DOMAIN m.rows = 1..Len(m.rows) /\ \A i \in DOMAIN m.rows : m.rows[i] \in Rows
    OBVIOUS
  <2>2. \A i \in 1..Len(m.rows) : i \in Int
    OBVIOUS
  <2> QED BY <2>1, <2>2 DEF Grouped, OrbitInOrder
<1>3. /\ \A i, j \in DOMAIN m.rows :
           Groups(m.starts)[i] = Groups(m.starts)[j] <=> m.rows[i].frame = m.rows[j].frame
      /\ \A i \in DOMAIN m.rows : Groups(m.starts)[i] \in Nat
  BY GroupsOfFrames DEF Numbered
<1>4. rows \in Seq(Rows) /\ DOMAIN rows = 1..n
  <2>1. rows \in [1..n -> Rows]
    BY <1>1, <1>2
  <2> HIDE DEF rows
  <2> QED BY <1>1, <2>1
<1>5. DOMAIN group = 1..n /\ \A j \in 1..n : group[j] \in Nat
  BY <1>1, <1>3
<1>6. Numbered(rows, group)
  <2>1. ASSUME NEW j \in 1..n, NEW k \in 1..n, j < k PROVE rows[j].frame <= rows[k].frame
    BY <1>1, <1>2, <2>1
  <2>2. \A j, k \in 1..n : group[j] = group[k] <=> rows[j].frame = rows[k].frame
    BY <1>1, <1>3
  <2> HIDE DEF rows, group
  <2> QED BY <1>4, <1>5, <2>1, <2>2 DEF Numbered, OrbitInOrder
<1>7. left = [rows |-> rows, starts |-> Starts(group)]
  BY DEF filter_landmark_measurements
<1>8. \A j \in DOMAIN keep : rows[j] = m.rows[keep[j]]
  OBVIOUS
<1> HIDE DEF rows, group, left
<1>9. Grouped([rows |-> rows, starts |-> Starts(group)]) /\ Starts(group) \in Seq(BOOLEAN)
  BY <1>4, <1>5, <1>6, StartsOfFrames
<1>10. left.rows = rows /\ left.starts = Starts(group) /\ Grouped(left)
  BY <1>7, <1>9
<1> QED BY <1>1, <1>4, <1>8, <1>9, <1>10 DEF left

\* The rows of one frame, if it has any.
LEMMA RowsOfFrame ==
  ASSUME ODAssumption, frames \in [1..Frames -> Texts], NEW f \in LDNeted(1..Frames)
  PROVE  /\ RowsOf(f) \in Seq(Rows)
         /\ \A i \in DOMAIN RowsOf(f) :
              RowsOf(f)[i].frame = f /\ RowsOf(f)[i].version = frames[f].version
<1> DEFINE usable == Sorted({k \in DOMAIN frames[f].marks : Usable(f, k)})
<1>1. f \in 1..Frames /\ frames[f].marks \in Seq(BOOLEAN) /\ frames[f].version \in Versions
  <2>1. f \in 1..Frames /\ frames[f].text = "LDNeted" /\ frames[f] \in Texts
    BY DEF LDNeted
  <2>2. PICK v \in Versions : frames[f] \in Processed(v)
    BY <2>1 DEF Texts, Unready
  <2> QED BY <2>1, <2>2 DEF Processed, ODAssumption
<1>2. usable \in Seq(Nat)
  <2>1. /\ Len(frames[f].marks) \in Nat
        /\ {k \in DOMAIN frames[f].marks : Usable(f, k)} \in SUBSET (1..Len(frames[f].marks))
    BY <1>1
  <2>2. usable \in Seq({k \in DOMAIN frames[f].marks : Usable(f, k)})
    BY <2>1, OrbitSortedLists
  <2>3. {k \in DOMAIN frames[f].marks : Usable(f, k)} \subseteq Nat
    BY <2>1
  <2> HIDE DEF usable
  <2> QED BY <2>2, <2>3
<1>3. RowsOf(f) = [i \in DOMAIN usable |->
                     [frame |-> f, mark |-> usable[i], version |-> frames[f].version]]
  BY DEF RowsOf
<1> HIDE DEF usable
<1>4. RowsOf(f) \in [1..Len(usable) -> Rows] /\ Len(usable) \in Nat
  BY <1>1, <1>2, <1>3 DEF Rows
<1> QED BY <1>3, <1>4

-----------------------------------------------------------------------------
(* The steps *)

LEMMA OrbitInitInv ==
  ASSUME ODAssumption, Init
  PROVE  OrbitInv
<1>1. frames \in [1..Frames -> Texts]
  <2>1. {Unready("none"), Unready("unprocessed")} \subseteq Texts
    BY DEF Texts
  <2>2. {Unready("none"), Unready("unprocessed")}
          \cup UNION {Processed(v) : v \in Versions} \subseteq Texts
    BY DEF Texts
  <2> QED BY <2>1, <2>2 DEF Init
<1>2. Nothing \in Results /\ Nothing.job = 0
  BY DEF Nothing, Results, OrbitCodes, Stages
<1>3. OrbitTyped
  <2>1. Empty.rows \in Seq(Rows) /\ Empty.starts \in Seq(BOOLEAN)
    BY DEF Empty
  <2>2. max_od_iterations \in Nat /\ Jobs \in Nat
    BY DEF ODAssumption
  <2> QED BY <1>1, <1>2, <2>1, <2>2 DEF Init, OrbitTyped, TypeOK, Steps, Texts
<1>4. Inferred /\ GroupsAreFrames /\ Indexed
  BY DEF Init, Inferred, GroupsAreFrames, Indexed
<1> QED BY <1>3, <1>4 DEF OrbitInv

\* Steps that change at most the commands, the result and the place.
LEMMA DataKept ==
  ASSUME ODAssumption, OrbitInv, UNCHANGED <<dataset, csv, prepared, measurements, rejection>>,
         \/ step' \in {"idle", "inspect", "config", "list", "publish"}
         \/ step' = step
         \/ step = "imu" /\ step' = "load"
         \/ step = "extract" /\ step' = "csv"
         \/ step = "solve" /\ step' = "results",
         jobs' \in 0..Jobs,
         g_od_run_status' \in {"NOT_STARTED", "RUNNING", "COMPLETED", "FAILED"},
         g_od_result' \in Results, g_od_result'.job \in 0..jobs',
         out' \in Results, out'.job \in 0..jobs'
  PROVE  OrbitInv'
<1>1. step' \in Steps
  BY DEF OrbitInv, OrbitTyped, TypeOK, Steps
<1>2. OrbitTyped'
  BY <1>1, Zenon DEF OrbitInv, OrbitTyped, TypeOK, dataset, prepared, rejection, Texts
<1>3. Inferred'
  <2>1. step' = "extract" => step = "extract"
    OBVIOUS
  <2> QED BY <2>1 DEF OrbitInv, Inferred, OfModel, Known, CsvRows, LDNeted, dataset, prepared,
         rejection
<1>4. GroupsAreFrames'
  BY DEF OrbitInv, GroupsAreFrames, CsvRows, CsvGroups, prepared, rejection
<1>5. Indexed'
  BY DEF OrbitInv, Indexed, rejection
<1> QED BY <1>2, <1>3, <1>4, <1>5 DEF OrbitInv

LEMMA CommandsInv ==
  ASSUME ODAssumption, OrbitInv, RunOD \/ RunODWithoutThread
  PROVE  OrbitInv'
<1>1. /\ jobs \in Nat /\ Jobs \in Nat /\ jobs' = jobs + 1 /\ jobs' \in 0..Jobs
      /\ g_od_run_status' = "RUNNING" /\ g_od_result' = [Nothing EXCEPT !.job = jobs + 1]
  <2>1. jobs \in 0..Jobs /\ Jobs \in Nat
    BY DEF OrbitInv, OrbitTyped, TypeOK, ODAssumption
  <2>2. Accept
    BY DEF RunOD, RunODWithoutThread
  <2> QED BY <2>1, <2>2 DEF Accept
<1>2. [Nothing EXCEPT !.job = jobs + 1] \in Results
        /\ [Nothing EXCEPT !.job = jobs + 1].job = jobs + 1
  BY <1>1 DEF Nothing, Results, OrbitCodes, Stages
<1>3. out' \in Results /\ out'.job \in 0..jobs'
  <2>1. CASE RunOD
    BY <1>1, <1>2, <2>1 DEF RunOD
  <2>2. CASE RunODWithoutThread
    <3>1. out \in Results /\ out.job \in 0..jobs /\ out' = out
      BY <2>2 DEF RunODWithoutThread, OrbitInv, OrbitTyped
    <3> QED BY <1>1, <3>1
  <2> QED BY <2>1, <2>2
<1>4. /\ UNCHANGED <<dataset, csv, prepared, measurements, rejection>>
      /\ step' = "inspect" \/ step' = step
  BY DEF RunOD, RunODWithoutThread
<1>5. jobs' \in 0..jobs'
  BY <1>1
<1> QED BY <1>1, <1>2, <1>3, <1>4, <1>5, DataKept

\* InspectDatasetForOD, however many measurements it counts.
Inspects ==
  /\ step = "inspect"
  /\ \/ /\ out' = [out EXCEPT !.code = "ODMEAS_NOT_VALID", !.stage = "DATASET_NOT_PROCESSED"]
        /\ step' = "publish"
     \/ out' = [out EXCEPT !.stage = "DATASET_PROCESSED"] /\ step' = "config"
  /\ UNCHANGED <<control, dataset, csv, prepared, measurements, rejection>>

\* The steps of the worker that only decide how it goes on.
LEMMA DecisionsInv ==
  ASSUME ODAssumption, OrbitInv,
         \/ Inspects \/ ReadODConfig \/ InferRefuses \/ ExtractEnds \/ CsvFails \/ ParseImu
         \/ SolverRejects \/ SolverFails \/ WriteBatchODResults \/ WorkerThrows
  PROVE  OrbitInv'
<1>1. /\ jobs \in 0..Jobs /\ g_od_result \in Results /\ g_od_result.job \in 0..jobs
      /\ g_od_run_status \in {"NOT_STARTED", "RUNNING", "COMPLETED", "FAILED"}
      /\ out \in Results /\ out.job \in 0..jobs
  BY DEF OrbitInv, OrbitTyped, TypeOK
<1>2. /\ UNCHANGED <<control, dataset, csv, prepared, measurements, rejection>>
      /\ \/ step' \in {"publish", "config", "list"}
         \/ step = "extract" /\ step' = "csv"
         \/ step = "imu" /\ step' = "load"
         \/ step = "solve" /\ step' = "results"
      /\ out' \in Results /\ out'.job = out.job
  <2>1. CASE Inspects
    BY <1>1, <2>1 DEF Inspects, Results, OrbitCodes, Stages
  <2>2. CASE ReadODConfig
    BY <1>1, <2>2 DEF ReadODConfig, Go, FailsWith, Results, OrbitCodes, Stages
  <2>3. CASE CsvFails
    BY <1>1, <2>3 DEF CsvFails, FailsWith, Results, OrbitCodes, Stages
  <2>4. CASE ParseImu
    BY <1>1, <2>4 DEF ParseImu, Go, FailsWith, Results, OrbitCodes, Stages
  <2>5. CASE SolverRejects
    BY <1>1, <2>5 DEF SolverRejects, EndsWith, Go, Results, OrbitCodes, Stages
  <2>6. CASE SolverFails
    BY <1>1, <2>6 DEF SolverFails, EndsWith, Go, Results, OrbitCodes, Stages
  <2>7. CASE WriteBatchODResults
    BY <1>1, <2>7 DEF WriteBatchODResults, Go, FailsWith, Results, OrbitCodes, Stages
  <2>8. CASE WorkerThrows
    BY <1>1, <2>8 DEF WorkerThrows, Go, Results, OrbitCodes, Stages
  <2>9. CASE InferRefuses
    BY <1>1, <2>9 DEF InferRefuses, FailsWith, Results, OrbitCodes, Stages
  <2>10. CASE ExtractEnds
    BY <1>1, <2>10 DEF ExtractEnds, Go, FailsWith, Results, OrbitCodes, Stages
  <2> QED BY <2>1, <2>2, <2>3, <2>4, <2>5, <2>6, <2>7, <2>8, <2>9, <2>10
<1>3. jobs' = jobs /\ g_od_run_status' = g_od_run_status /\ g_od_result' = g_od_result
  BY <1>2 DEF control
<1> QED BY <1>1, <1>2, <1>3, DataKept

\* A frame is opened, or written with a model that is then on record.
LEMMA CollectorInv ==
  ASSUME ODAssumption, OrbitInv, NEW f \in 1..Frames, CollectorOpens(f) \/ CollectorWrites(f)
  PROVE  OrbitInv'
<1>1. frames \in [1..Frames -> Texts] /\ files \subseteq 1..Frames
        /\ rewritten \subseteq (1..Frames) \X Own
  BY DEF OrbitInv, OrbitTyped, TypeOK
<1>2. PICK json \in Texts :
        /\ frames' = [frames EXCEPT ![f] = json]
        /\ rewritten \subseteq rewritten' /\ rewritten' \subseteq (1..Frames) \X Own
        /\ json.text = "LDNeted" /\ step \in {"infer", "extract"} =>
             <<f, json.version>> \in rewritten'
  <2>1. CASE CollectorOpens(f)
    <3>1. Unready("torn") \in Texts /\ Unready("torn").text # "LDNeted"
      BY DEF Texts, Unready
    <3> QED BY <1>1, <2>1, <3>1 DEF CollectorOpens
  <2>2. CASE CollectorWrites(f)
    <3>1. PICK v \in Own : \E json \in Processed(v) :
            /\ frames' = [frames EXCEPT ![f] = json]
            /\ rewritten' = IF step \in {"infer", "extract"} THEN rewritten \cup {<<f, v>>}
                                                           ELSE rewritten
      BY <2>2 DEF CollectorWrites
    <3>2. PICK json \in Processed(v) : frames' = [frames EXCEPT ![f] = json]
      BY <3>1
    <3>3. json \in Texts /\ json.version = v
      <4>1. v \in Versions
        BY DEF ODAssumption
      <4>2. json \in UNION {Processed(w) : w \in Versions}
        BY <3>2, <4>1
      <4>3. json.version = v
        BY <3>2 DEF Processed
      <4> QED BY <4>2, <4>3, Zenon DEF Texts
    <3>4. rewritten' \subseteq (1..Frames) \X Own /\ rewritten \subseteq rewritten'
      <4>1. <<f, v>> \in (1..Frames) \X Own
        OBVIOUS
      <4> QED BY <1>1, <3>1, <4>1
    <3>5. step \in {"infer", "extract"} => <<f, json.version>> \in rewritten'
      BY <3>1, <3>3
    <3> QED BY <3>2, <3>3, <3>4, <3>5
  <2> QED BY <2>1, <2>2
<1>3. UNCHANGED <<control, csv, step, out, prepared, measurements, rejection>>
  BY DEF CollectorOpens, CollectorWrites
<1>4. frames' \in [1..Frames -> Texts]
  BY <1>1, <1>2
<1>5. OrbitTyped'
  BY <1>2, <1>3, <1>4, Zenon DEF OrbitInv, OrbitTyped, TypeOK, Texts, control, prepared,
       rejection
<1>6. \A g \in 1..Frames : frames'[g] = IF g = f THEN json ELSE frames[g]
  BY <1>1, <1>2
<1>7. step' = step /\ files' = files /\ unread' = unread
        /\ inferred_ld_version' = inferred_ld_version
  BY <1>3 DEF prepared
<1>8. ASSUME NEW F \in SUBSET files, Known(F), step \in {"infer", "extract"} PROVE Known(F)'
  <2> SUFFICES ASSUME NEW g \in F, g \in LDNeted(files)'
               PROVE  \/ frames'[g].version = inferred_ld_version' /\ inferred_ld_version' # 0
                      \/ <<g, frames'[g].version>> \in rewritten'
    BY DEF Known
  <2>1. g \in 1..Frames /\ g \in files /\ frames'[g].text = "LDNeted" /\ frames'[g].marks # <<>>
    BY <1>1, <1>7 DEF LDNeted
  <2>2. CASE g = f
    BY <1>2, <1>6, <1>8, <2>1, <2>2
  <2>3. CASE g # f
    <3>1. frames'[g] = frames[g] /\ g \in LDNeted(files)
      BY <1>6, <2>1, <2>3 DEF LDNeted
    <3> QED BY <1>2, <1>7, <1>8, <3>1 DEF Known
  <2> QED BY <2>2, <2>3
<1>9. Inferred'
  <2>1. ASSUME NEW rows, OfModel(rows)
        PROVE  \A i \in DOMAIN rows : \/ rows[i].version = inferred_ld_version'
                                       \/ <<rows[i].frame, rows[i].version>> \in rewritten'
    BY <1>2, <1>7, <2>1 DEF OfModel
  <2>2. lm_rows' = lm_rows /\ CsvRows' = CsvRows /\ active' = active
    BY <1>3 DEF prepared, rejection, CsvRows
  <2>3. step = "infer" => Known(files \ unread)'
    BY <1>7, <1>8 DEF OrbitInv, Inferred, Known
  <2>4. step = "extract" => Known(files)'
    BY <1>7, <1>8 DEF OrbitInv, Inferred, Known
  <2>5. /\ step \in {"extract", "csv"} => OfModel(lm_rows)'
        /\ step \in {"imu", "load"} => OfModel(CsvRows)'
        /\ step = "solve" => OfModel(active.rows)'
    BY <2>1, <2>2 DEF OrbitInv, Inferred, OfModel
  <2> QED BY <1>7, <2>3, <2>4, <2>5 DEF Inferred
<1>10. GroupsAreFrames' /\ Indexed'
  BY <1>3 DEF OrbitInv, GroupsAreFrames, Indexed, CsvRows, CsvGroups, prepared, rejection
<1> QED BY <1>5, <1>9, <1>10 DEF OrbitInv

LEMMA ResultKept ==
  ASSUME ODAssumption, OrbitInv
  PROVE  /\ jobs \in 0..Jobs /\ g_od_result \in Results /\ g_od_result.job \in 0..jobs
         /\ g_od_run_status \in {"NOT_STARTED", "RUNNING", "COMPLETED", "FAILED"}
         /\ out \in Results /\ out.job \in 0..jobs
         /\ \A c \in OrbitCodes : LET failed == [out EXCEPT !.code = c, !.stage = "FAILED"]
                             IN  failed \in Results /\ failed.job \in 0..jobs
BY DEF OrbitInv, OrbitTyped, TypeOK, Results, OrbitCodes, Stages

\* The files are listed, and the local variables of the passes set.
LEMMA ListFramesInv ==
  ASSUME ODAssumption, OrbitInv, ListFrames
  PROVE  OrbitInv'
<1>1. /\ files' = Existing /\ unread' = Existing /\ rewritten' = {} /\ step' = "infer"
      /\ inferred_ld_version' = 0 /\ lm_rows' = <<>> /\ group_starts_vec' = <<>>
      /\ UNCHANGED <<control, frames, csv, out, measurements, rejection>>
  BY DEF ListFrames, Go
<1>2. Existing \subseteq 1..Frames /\ Existing \subseteq Existing
  BY DEF Existing
<1>3. lm_rows' \in Seq(Rows) /\ group_starts_vec' \in Seq(BOOLEAN)
  BY <1>1
<1>4. OrbitTyped'
  BY <1>1, <1>2, <1>3, Zenon DEF OrbitInv, OrbitTyped, TypeOK, Texts, Steps, control, rejection
<1>5. Inferred' /\ GroupsAreFrames' /\ Indexed'
  BY <1>1 DEF Inferred, Known, GroupsAreFrames, Indexed
<1> QED BY <1>4, <1>5 DEF OrbitInv

\* The next file is one of those not read, and comes before the others.
LEMMA NextFileIsFirst ==
  ASSUME ODAssumption, OrbitInv, unread # {}
  PROVE  /\ NextFile \in unread /\ NextFile \in files /\ NextFile \in 1..Frames
         /\ \A g \in unread : g \in Nat /\ NextFile <= g
<1>1. unread \subseteq files /\ files \subseteq 1..Frames /\ Frames \in Nat
  BY DEF OrbitInv, OrbitTyped, TypeOK, ODAssumption
<1>2. unread \in SUBSET Nat
  BY <1>1
<1>3. \E n \in unread : \A m \in unread : n <= m
  BY <1>2, Smallest
<1>4. NextFile \in unread /\ \A m \in unread : NextFile <= m
  BY <1>3 DEF NextFile, Min
<1> QED BY <1>1, <1>2, <1>4

LEMMA ProcessedFrame ==
  ASSUME ODAssumption, OrbitInv, NEW f \in LDNeted(files)
  PROVE  f \in 1..Frames /\ frames[f].version \in Versions
<1>1. f \in 1..Frames /\ frames[f].text = "LDNeted" /\ frames[f] \in Texts
  BY DEF LDNeted, OrbitInv, OrbitTyped, TypeOK
<1>2. PICK v \in Versions : frames[f] \in Processed(v)
  BY <1>1 DEF Texts, Unready
<1> QED BY <1>1, <1>2 DEF Processed

\* One more file has landmarks of the model inferred, or has none.
LEMMA InferVersionInv ==
  ASSUME ODAssumption, OrbitInv, InferVersion
  PROVE  OrbitInv'
<1> DEFINE f == NextFile
           v == frames[NextFile].version
<1>1. /\ step = "infer" /\ step' = "infer" /\ unread # {} /\ unread' = unread \ {f}
      /\ f \in LDNeted(files) => v # 0 /\ inferred_ld_version \in {0, v}
      /\ inferred_ld_version' = IF f \in LDNeted(files) THEN v ELSE inferred_ld_version
      /\ UNCHANGED <<control, dataset, csv, out, files, lm_rows, group_starts_vec,
                     measurements, rejection>>
  BY DEF InferVersion
<1>2. f \in unread
  BY <1>1, NextFileIsFirst
<1>3. inferred_ld_version' \in Versions \cup {0}
  <2>1. inferred_ld_version \in Versions \cup {0}
    BY DEF OrbitInv, OrbitTyped, TypeOK
  <2>2. f \in LDNeted(files) => v \in Versions
    BY ProcessedFrame
  <2> QED BY <1>1, <2>1, <2>2
<1> HIDE DEF f
<1>4. unread' \subseteq files'
  BY <1>1 DEF OrbitInv, OrbitTyped, TypeOK
<1>5. OrbitTyped'
  BY <1>1, <1>3, <1>4, Zenon DEF OrbitInv, OrbitTyped, TypeOK, Texts, control, dataset,
       rejection
<1>6. Known(files \ unread)'
  <2> SUFFICES ASSUME NEW g \in files \ (unread \ {f}), g \in LDNeted(files)
               PROVE  \/ frames[g].version = inferred_ld_version' /\ inferred_ld_version' # 0
                      \/ <<g, frames[g].version>> \in rewritten
    BY <1>1 DEF Known, LDNeted, dataset
  <2>1. CASE g = f
    BY <1>1, <2>1 DEF f
  <2>2. CASE g # f
    <3>1. g \in files \ unread
      BY <2>2
    <3>2. \/ frames[g].version = inferred_ld_version /\ inferred_ld_version # 0
          \/ <<g, frames[g].version>> \in rewritten
      BY <1>1, <3>1 DEF OrbitInv, Inferred, Known
    <3>3. inferred_ld_version # 0 => inferred_ld_version' = inferred_ld_version
      BY <1>1
    <3> QED BY <3>2, <3>3
  <2> QED BY <2>1, <2>2
<1>7. Inferred'
  BY <1>1, <1>6 DEF Inferred
<1>8. GroupsAreFrames' /\ Indexed'
  BY <1>1 DEF OrbitInv, GroupsAreFrames, Indexed
<1> QED BY <1>5, <1>7, <1>8 DEF OrbitInv

\* The second pass starts with what the first has found.
LEMMA InferEndsInv ==
  ASSUME ODAssumption, OrbitInv, InferEnds
  PROVE  OrbitInv'
<1>1. /\ step = "infer" /\ unread = {}
      /\ UNCHANGED <<control, dataset, csv, files, inferred_ld_version, lm_rows,
                     group_starts_vec, measurements, rejection>>
  BY DEF InferEnds
<1>2. jobs' = jobs /\ g_od_run_status' = g_od_run_status /\ g_od_result' = g_od_result
  BY <1>1 DEF control
<1>3. CASE inferred_ld_version = 0
  <2>1. /\ unread' = unread /\ step' = "publish"
        /\ out' = [out EXCEPT !.code = "ODMEAS_NOT_VALID", !.stage = "FAILED"]
    BY <1>3 DEF InferEnds, FailsWith
  <2>2. out' \in Results /\ out'.job \in 0..jobs
    BY <2>1, ResultKept DEF OrbitCodes
  <2>3. UNCHANGED prepared
    BY <1>1, <2>1 DEF prepared
  <2> QED BY <1>1, <1>2, <2>1, <2>2, <2>3, ResultKept, DataKept
<1>4. CASE inferred_ld_version # 0
  <2>1. unread' = files /\ step' = "extract" /\ out' = out
    BY <1>4 DEF InferEnds, Go
  <2>2. unread' \subseteq files'
    BY <1>1, <2>1
  <2>3. OrbitTyped'
    BY <1>1, <2>1, <2>2, Zenon DEF OrbitInv, OrbitTyped, TypeOK, Texts, Steps, control,
         dataset, rejection
  <2>4. Known(files)'
    <3>1. files \ unread = files
      BY <1>1
    <3>2. Known(files)
      BY <1>1, <3>1 DEF OrbitInv, Inferred
    <3> QED BY <1>1, <3>2 DEF Known, LDNeted, dataset
  <2>5. lm_rows' = <<>> /\ group_starts_vec' = <<>>
    BY <1>1 DEF OrbitInv, GroupsAreFrames
  <2>6. Inferred'
    BY <2>1, <2>4, <2>5 DEF Inferred, OfModel
  <2>7. GroupsAreFrames' /\ Indexed'
    BY <2>1, <2>5 DEF GroupsAreFrames, Grouped, OrbitInOrder, Indexed
  <2> QED BY <2>3, <2>6, <2>7 DEF OrbitInv
<1> QED BY <1>3, <1>4

\* One more file gives rows that are a group of their own, of a model that is known.
LEMMA ExtractInv ==
  ASSUME ODAssumption, OrbitInv, Extract
  PROVE  OrbitInv'
<1> DEFINE f == NextFile
           rows == IF f \in LDNeted(files) THEN RowsOf(f) ELSE <<>>
<1>1. /\ step = "extract" /\ step' = "extract" /\ unread # {} /\ unread' = unread \ {f}
      /\ lm_rows' = lm_rows \o rows
      /\ group_starts_vec' = group_starts_vec \o [i \in DOMAIN rows |-> i = 1]
      /\ UNCHANGED <<control, dataset, csv, out, files, inferred_ld_version,
                     measurements, rejection>>
  BY DEF Extract
<1>2. /\ f \in unread /\ f \in files /\ f \in 1..Frames /\ f \in Nat
      /\ \A g \in unread : g \in Nat /\ f <= g
  BY <1>1, NextFileIsFirst
<1>3. lm_rows \in Seq(Rows) /\ group_starts_vec \in Seq(BOOLEAN)
        /\ frames \in [1..Frames -> Texts]
  BY DEF OrbitInv, OrbitTyped, TypeOK
<1>4. /\ rows \in Seq(Rows)
      /\ \A i \in DOMAIN rows : /\ f \in LDNeted(files) /\ rows[i].frame = f
                                /\ rows[i].version = frames[f].version
  <2>1. CASE f \in LDNeted(files)
    <3>1. f \in LDNeted(1..Frames)
      BY <1>2, <2>1 DEF LDNeted
    <3> QED BY <1>3, <2>1, <3>1, RowsOfFrame
  <2>2. CASE f \notin LDNeted(files)
    BY <2>2
  <2> QED BY <2>1, <2>2
<1> HIDE DEF f, rows
<1>5. /\ lm_rows' \in Seq(Rows) /\ DOMAIN lm_rows' = 1..(Len(lm_rows) + Len(rows))
      /\ \A i \in DOMAIN lm_rows' :
           \/ i \in DOMAIN lm_rows /\ lm_rows'[i] = lm_rows[i]
           \/ \E j \in DOMAIN rows : lm_rows'[i] = rows[j]
  <2>1. /\ lm_rows' \in Seq(Rows) /\ DOMAIN lm_rows' = 1..(Len(lm_rows) + Len(rows))
        /\ \A i \in 1..(Len(lm_rows) + Len(rows)) :
             lm_rows'[i] = IF i <= Len(lm_rows) THEN lm_rows[i] ELSE rows[i - Len(lm_rows)]
    BY <1>1, <1>3, <1>4, Concatenated
  <2>2. /\ DOMAIN lm_rows = 1..Len(lm_rows) /\ DOMAIN rows = 1..Len(rows)
        /\ Len(lm_rows) \in Nat /\ Len(rows) \in Nat
    BY <1>3, <1>4
  <2>3. ASSUME NEW i \in DOMAIN lm_rows'
        PROVE  \/ i \in DOMAIN lm_rows /\ lm_rows'[i] = lm_rows[i]
               \/ \E j \in DOMAIN rows : lm_rows'[i] = rows[j]
    <3>1. CASE i <= Len(lm_rows)
      BY <2>1, <2>2, <2>3, <3>1
    <3>2. CASE ~(i <= Len(lm_rows))
      <4>1. i - Len(lm_rows) \in DOMAIN rows
        BY <2>1, <2>2, <2>3, <3>2
      <4> QED BY <2>1, <2>3, <3>2, <4>1
    <3> QED BY <3>1, <3>2
  <2> QED BY <2>1, <2>3
<1>6. group_starts_vec' \in Seq(BOOLEAN)
  <2>1. [i \in DOMAIN rows |-> i = 1] \in Seq(BOOLEAN)
    BY <1>4, FirstOnly
  <2> QED BY <1>1, <1>3, <2>1, Concatenated
<1>7. OrbitTyped'
  <2>1. unread' \subseteq files'
    BY <1>1 DEF OrbitInv, OrbitTyped, TypeOK
  <2> QED BY <1>1, <1>5, <1>6, <2>1, Zenon DEF OrbitInv, OrbitTyped, TypeOK, Texts, Steps,
       control, dataset, rejection
<1>8. Known(files)'
  BY <1>1 DEF OrbitInv, Inferred, Known, LDNeted, dataset
<1>9. OfModel(lm_rows)'
  <2> SUFFICES ASSUME NEW i \in DOMAIN lm_rows'
               PROVE  \/ lm_rows'[i].version = inferred_ld_version
                      \/ <<lm_rows'[i].frame, lm_rows'[i].version>> \in rewritten
    BY <1>1 DEF OfModel, dataset
  <2>1. CASE i \in DOMAIN lm_rows /\ lm_rows'[i] = lm_rows[i]
    BY <1>1, <2>1 DEF OrbitInv, Inferred, OfModel
  <2>2. ASSUME NEW j \in DOMAIN rows, lm_rows'[i] = rows[j]
        PROVE  \/ lm_rows'[i].version = inferred_ld_version
               \/ <<lm_rows'[i].frame, lm_rows'[i].version>> \in rewritten
    BY <1>1, <1>2, <1>4, <2>2 DEF OrbitInv, Inferred, Known
  <2> QED BY <1>5, <2>1, <2>2
<1>10. Inferred'
  BY <1>1, <1>8, <1>9 DEF Inferred
<1>11. GroupsAreFrames'
  <2>1. \A i \in DOMAIN lm_rows : lm_rows[i].frame < f
    BY <1>1, <1>2 DEF OrbitInv, GroupsAreFrames
  <2>2. Grouped([rows |-> lm_rows', starts |-> group_starts_vec'])
    <3>1. Grouped([rows |-> lm_rows, starts |-> group_starts_vec])
      BY <1>1 DEF OrbitInv, GroupsAreFrames
    <3> QED BY <1>1, <1>2, <1>3, <1>4, <2>1, <3>1, NextFrame
  <2>3. ASSUME NEW i \in DOMAIN lm_rows', NEW g \in unread' PROVE lm_rows'[i].frame < g
    <3>1. g \in unread /\ g # f /\ g \in Nat /\ f <= g
      BY <1>1, <1>2, <2>3
    <3>2. CASE i \in DOMAIN lm_rows /\ lm_rows'[i] = lm_rows[i]
      BY <1>1, <3>1, <3>2 DEF OrbitInv, GroupsAreFrames
    <3>3. ASSUME NEW j \in DOMAIN rows, lm_rows'[i] = rows[j] PROVE lm_rows'[i].frame < g
      BY <1>2, <1>4, <3>1, <3>3
    <3> QED BY <1>5, <2>3, <3>2, <3>3
  <2> QED BY <1>1, <2>2, <2>3 DEF GroupsAreFrames
<1>12. Indexed'
  BY <1>1 DEF Indexed
<1> QED BY <1>7, <1>10, <1>11, <1>12 DEF OrbitInv

LEMMA Prefix ==
  ASSUME NEW T, NEW a \in Seq(T), NEW n \in 0..Len(a)
  PROVE  /\ SubSeq(a, 1, n) \in Seq(T) /\ DOMAIN SubSeq(a, 1, n) = 1..n
         /\ \A i \in 1..n : SubSeq(a, 1, n)[i] = a[i]
OBVIOUS

LEMMA IsSeq ==
  ASSUME NEW T, NEW k \in Nat, NEW a \in [1..k -> T]
  PROVE  a \in Seq(T) /\ Len(a) = k
OBVIOUS

\* The file has rows, with the numbers of their groups: all, or the first ones.
LEMMA WriteCsvInv ==
  ASSUME ODAssumption, OrbitInv, WriteCsv
  PROVE  OrbitInv'
<1> DEFINE all == [i \in DOMAIN lm_rows |->
                     [row |-> lm_rows[i], group |-> Groups(group_starts_vec)[i]]]
           m == [rows |-> lm_rows, starts |-> group_starts_vec]
           k == Len(lm_rows)
<1>1. UNCHANGED <<control, dataset, out, prepared, measurements, rejection>> /\ step = "csv"
      /\ step' = "imu"
  BY DEF WriteCsv, Go
<1>2. m.rows \in Seq(Rows) /\ m.starts \in Seq(BOOLEAN) /\ Grouped(m)
  BY <1>1 DEF OrbitInv, OrbitTyped, TypeOK, GroupsAreFrames
<1>3. k \in Nat /\ DOMAIN lm_rows = 1..k /\ \A i \in 1..k : lm_rows[i] \in Rows
  BY <1>2
<1>4. Numbered(lm_rows, Groups(group_starts_vec))
      /\ \A i \in 1..k : Groups(group_starts_vec)[i] \in Nat
  <2> HIDE DEF m
  <2>1. Numbered(m.rows, Groups(m.starts))
          /\ \A i \in DOMAIN m.rows : Groups(m.starts)[i] \in Nat
    BY <1>2, GroupsOfFrames
  <2> QED BY <1>3, <2>1 DEF m
<1>5. all \in Seq([row : Rows, group : Nat]) /\ Len(all) = k
  <2>1. all \in [1..k -> [row : Rows, group : Nat]]
    BY <1>3, <1>4
  <2> HIDE DEF all, k
  <2> QED BY <1>3, <2>1, IsSeq
<1>6. \A i \in 1..k : all[i].row = lm_rows[i] /\ all[i].group = Groups(group_starts_vec)[i]
  BY <1>3
<1> HIDE DEF all, m, k
<1>7. PICK n \in 0..k : csv' = SubSeq(all, 1, n)
  <2>1. PICK n \in IF DiskFull THEN 0..Len(all) ELSE {Len(all)} : csv' = SubSeq(all, 1, n)
    BY DEF WriteCsv, all
  <2>2. n \in 0..k
    BY <1>3, <1>5, <2>1
  <2> QED BY <2>1, <2>2
<1>8. /\ csv' \in Seq([row : Rows, group : Nat]) /\ DOMAIN csv' = 1..n
      /\ \A i \in 1..n : csv'[i] = all[i] /\ i \in 1..k
  <2>1. n \in 0..Len(all) /\ \A i \in 1..n : i \in 1..k
    BY <1>3, <1>5
  <2> QED BY <1>5, <1>7, <2>1, Prefix
<1>9. /\ DOMAIN CsvRows' = 1..n /\ DOMAIN CsvGroups' = 1..n
      /\ \A i \in 1..n : CsvRows'[i] = lm_rows[i] /\ CsvGroups'[i] = Groups(group_starts_vec)[i]
  BY <1>6, <1>8 DEF CsvRows, CsvGroups
<1>10. OrbitTyped'
  BY <1>1, <1>8, Zenon DEF OrbitInv, OrbitTyped, TypeOK, Texts, Steps, control, dataset, prepared,
       rejection
<1>12. Inferred'
  <2>1. OfModel(lm_rows)
    BY <1>1 DEF OrbitInv, Inferred
  <2>2. \A i \in 1..n : \/ CsvRows'[i].version = inferred_ld_version
                         \/ <<CsvRows'[i].frame, CsvRows'[i].version>> \in rewritten
    BY <1>3, <1>8, <1>9, <2>1 DEF OfModel
  <2>3. inferred_ld_version' = inferred_ld_version /\ rewritten' = rewritten
    BY <1>1 DEF dataset, prepared
  <2> QED BY <1>1, <1>9, <2>2, <2>3 DEF Inferred, OfModel
<1>13. GroupsAreFrames'
  <2>1. Numbered(CsvRows', CsvGroups')
    <3>1. \A i, j \in 1..n : i < j => CsvRows'[i].frame <= CsvRows'[j].frame
      BY <1>3, <1>4, <1>8, <1>9 DEF Numbered, OrbitInOrder
    <3>2. \A i,
            j \in 1..n : CsvGroups'[i] = CsvGroups'[j] <=> CsvRows'[i].frame = CsvRows'[j].frame
      <4>1. \A i, j \in 1..k : Groups(group_starts_vec)[i] = Groups(group_starts_vec)[j]
                                <=> lm_rows[i].frame = lm_rows[j].frame
        BY <1>3, <1>4 DEF Numbered
      <4> QED BY <1>8, <1>9, <4>1
    <3> QED BY <1>9, <3>1, <3>2 DEF Numbered, OrbitInOrder
  <2> QED BY <1>1, <2>1 DEF GroupsAreFrames
<1>14. Indexed'
  BY <1>1 DEF Indexed
<1> QED BY <1>10, <1>12, <1>13, <1>14 DEF OrbitInv

\* What is loaded has the groups of the file, and every row is active.
LEMMA LoadInv ==
  ASSUME ODAssumption, OrbitInv, LoadODMeasurementsFromDataset
  PROVE  OrbitInv'
<1>1. UNCHANGED <<control, dataset, csv, prepared>> /\ step = "load"
  BY DEF LoadODMeasurementsFromDataset
<1>2. CASE csv = <<>>
  <2>1. /\ UNCHANGED <<measurements, rejection>> /\ step' = "publish"
        /\ out' = [out EXCEPT !.code = "ODMEAS_NOT_VALID", !.stage = "FAILED"]
    BY <1>2 DEF LoadODMeasurementsFromDataset, FailsWith
  <2>2. out' \in Results /\ out'.job \in 0..jobs
    BY <2>1, ResultKept DEF OrbitCodes
  <2>3. jobs' = jobs /\ g_od_run_status' = g_od_run_status /\ g_od_result' = g_od_result
    BY <1>1 DEF control
  <2> QED BY <1>1, <2>1, <2>2, <2>3, ResultKept, DataKept
<1>3. CASE csv # <<>>
  <2> DEFINE n == Len(csv)
             read == [rows |-> CsvRows, starts |-> Starts(CsvGroups)]
  <2>1. /\ measurements' = read /\ active' = read
        /\ active_original_indices' = [i \in DOMAIN csv |-> i]
        /\ outlier_flags' = [i \in DOMAIN csv |-> 0]
        /\ iteration' = 0 /\ residuals' = <<>> /\ step' = "solve" /\ out' = out
    <3>1. measurements' = [rows |-> [i \in DOMAIN csv |-> csv[i].row],
                           starts |-> Starts([i \in DOMAIN csv |-> csv[i].group])]
      BY <1>3 DEF LoadODMeasurementsFromDataset
    <3>2. measurements' = read
      BY <3>1 DEF CsvRows, CsvGroups
    <3> QED BY <1>3, <3>2 DEF LoadODMeasurementsFromDataset, Go
  <2>2. n \in Nat /\ DOMAIN csv = 1..n /\ \A i \in 1..n : csv[i] \in [row : Rows, group : Nat]
    <3>1. csv \in Seq([row : Rows, group : Nat])
      BY DEF OrbitInv, OrbitTyped, TypeOK
    <3> DEFINE T == [row : Rows, group : Nat]
    <3> HIDE DEF T
    <3>2. csv \in Seq(T)
      BY <3>1 DEF T
    <3>3. n \in Nat /\ DOMAIN csv = 1..n /\ \A i \in 1..n : csv[i] \in T
      BY <3>2
    <3> QED BY <3>3 DEF T
  <2> HIDE DEF n
  <2>3. CsvRows \in Seq(Rows) /\ DOMAIN CsvRows = 1..n /\ \A i \in 1..n : CsvGroups[i] \in Nat
    <3>1. CsvRows \in [1..n -> Rows]
      BY <2>2 DEF CsvRows
    <3>2. \A i \in 1..n : CsvGroups[i] \in Nat
      BY <2>2 DEF CsvGroups
    <3> QED BY <2>2, <3>1, <3>2, IsSeq
  <2>4. Grouped(read) /\ Starts(CsvGroups) \in Seq(BOOLEAN)
    <3>1. Numbered(CsvRows, CsvGroups)
      BY <1>1 DEF OrbitInv, GroupsAreFrames
    <3> QED BY <2>3, <3>1, StartsOfFrames
  <2>5. read.rows = CsvRows /\ read.starts = Starts(CsvGroups)
    OBVIOUS
  <2> HIDE DEF read
  <2>6. active_original_indices' \in Seq(Nat) /\ outlier_flags' \in Seq({0, 1})
    <3>1. active_original_indices' \in [1..n -> Nat] /\ outlier_flags' \in [1..n -> {0, 1}]
      BY <2>1, <2>2
    <3> QED BY <2>2, <3>1, IsSeq
  <2>7. OrbitTyped'
    <3>1. 0 \in 0..max_od_iterations
      BY DEF ODAssumption
    <3>2. /\ read.rows \in Seq(Rows) /\ read.starts \in Seq(BOOLEAN)
      BY <2>3, <2>4, <2>5
    <3>3. \A m \in {measurements, active}' : m.rows \in Seq(Rows) /\ m.starts \in Seq(BOOLEAN)
      BY <2>1, <3>2
    <3> QED BY <1>1, <2>1, <2>6, <3>1, <3>3, Zenon DEF OrbitInv, OrbitTyped, TypeOK,
         Texts, Steps, control, dataset, prepared
  <2>9. Inferred'
    <3>1. OfModel(CsvRows) /\ rewritten' = rewritten
            /\ inferred_ld_version' = inferred_ld_version
      BY <1>1 DEF OrbitInv, Inferred, dataset, prepared
    <3> QED BY <2>1, <2>5, <3>1 DEF Inferred, OfModel
  <2>10. GroupsAreFrames'
    BY <2>1, <2>4 DEF GroupsAreFrames
  <2>11. Indexed'
    <3>1. /\ DOMAIN measurements'.rows = 1..n /\ DOMAIN active'.rows = 1..n
          /\ active'.rows = measurements'.rows
          /\ DOMAIN active_original_indices' = 1..n /\ DOMAIN outlier_flags' = 1..n
      BY <2>1, <2>2, <2>3, <2>5
    <3>2. \A i \in 1..n : active_original_indices'[i] = i /\ outlier_flags'[i] = 0
      BY <2>1, <2>2
    <3> QED BY <2>1, <3>1, <3>2 DEF Indexed
  <2> QED BY <2>7, <2>9, <2>10, <2>11 DEF OrbitInv
<1> QED BY <1>2, <1>3

\* The residuals are of the rows they are stored for.
LEMMA SolverEndsInv ==
  ASSUME ODAssumption, OrbitInv, SolverEnds
  PROVE  OrbitInv'
<1> DEFINE n == Len(active.rows)
<1>1. /\ UNCHANGED <<control, dataset, csv, out, prepared, measurements, active,
                     active_original_indices, outlier_flags, iteration>>
      /\ step = "solve" /\ step' = "results" /\ active.starts[1]
  BY DEF SolverEnds, Go, Valid
<1>2. n \in Nat /\ DOMAIN active.rows = 1..n
  BY DEF OrbitInv, OrbitTyped, TypeOK
<1>3. landmark_residuals = [k \in 1..n |-> k]
  <2>1. {k \in 1..n : \E j \in 1..k : active.starts[j]} = 1..n
    <3>1. \A k \in 1..n : 1 \in 1..k
      BY <1>2
    <3> QED BY <1>1, <3>1
  <2> QED BY <1>2, <2>1, SortedInterval DEF landmark_residuals, n_active
<1>4. residuals' = [i \in DOMAIN measurements.rows |->
        IF \E k \in 1..n : active_original_indices[k] = i
        THEN active.rows[landmark_residuals[CHOOSE k \in 1..n : active_original_indices[k] = i]]
        ELSE IF outlier_flags[i] = 1 THEN measurements.rows[i] ELSE NaN]
  BY DEF SolverEnds, n_active
<1> HIDE DEF n
<1>5. ASSUME NEW i \in DOMAIN measurements.rows PROVE residuals'[i] = measurements.rows[i]
  <2>1. CASE \E k \in 1..n : active_original_indices[k] = i
    <3> DEFINE k == CHOOSE k \in 1..n : active_original_indices[k] = i
    <3>1. k \in 1..n /\ active_original_indices[k] = i
      BY <2>1
    <3>2. residuals'[i] = active.rows[landmark_residuals[k]]
      BY <1>4, <2>1
    <3> HIDE DEF k
    <3>3. landmark_residuals[k] = k
      BY <1>3, <3>1
    <3>4. active.rows[k] = measurements.rows[i]
      BY <1>1, <1>2, <3>1 DEF OrbitInv, Indexed
    <3> QED BY <3>2, <3>3, <3>4
  <2>2. CASE ~ \E k \in 1..n : active_original_indices[k] = i
    <3>1. outlier_flags[i] # 0 /\ i \in DOMAIN outlier_flags
      BY <1>1, <1>2, <2>2 DEF OrbitInv, Indexed
    <3>2. outlier_flags[i] = 1
      BY <3>1 DEF OrbitInv, OrbitTyped, TypeOK
    <3> QED BY <1>4, <2>2, <3>2
  <2> QED BY <2>1, <2>2
<1>6. residuals' = measurements.rows
  <2>1. DOMAIN residuals' = DOMAIN measurements.rows
    BY <1>4
  <2>2. residuals' = [i \in DOMAIN residuals' |-> residuals'[i]]
    BY <1>4
  <2>3. measurements.rows = [i \in DOMAIN measurements.rows |-> measurements.rows[i]]
    BY DEF OrbitInv, OrbitTyped, TypeOK
  <2> HIDE <1>4
  <2> QED BY <1>5, <2>1, <2>2, <2>3
<1>7. OrbitTyped'
  BY <1>1, Zenon DEF OrbitInv, OrbitTyped, TypeOK, Texts, Steps, control, dataset, prepared
<1>9. Inferred' /\ GroupsAreFrames'
  BY <1>1 DEF Inferred, GroupsAreFrames, OrbitInv
<1>10. Indexed'
  BY <1>1, <1>6 DEF OrbitInv, Indexed
<1> QED BY <1>7, <1>9, <1>10 DEF OrbitInv

\* A rejected row is flagged, and each row kept goes on under the index it had.
LEMMA RejectInv ==
  ASSUME ODAssumption, OrbitInv, Reject
  PROVE  OrbitInv'
<1> DEFINE n == Len(active.rows)
<1>1. PICK rejected \in SUBSET (1..n) :
        /\ outlier_flags' = Flag(rejected)
        /\ active_original_indices' =
             [j \in DOMAIN Kept(rejected) |-> active_original_indices[Kept(rejected)[j]]]
        /\ active' = filter_landmark_measurements(active, Kept(rejected))
  BY DEF Reject, n_active
<1>2. /\ step = "solve" /\ step' = "solve"
      /\ UNCHANGED <<control, dataset, csv, out, prepared, measurements, residuals>>
      /\ iteration' = iteration + 1 /\ iteration < max_od_iterations - 1
  BY DEF Reject
<1>3. n \in Nat /\ DOMAIN active.rows = 1..n
  BY DEF OrbitInv, OrbitTyped, TypeOK
<1> DEFINE keep == Kept(rejected)
<1>4. /\ keep \in Seq((1..n) \ rejected)
      /\ \A j, k \in DOMAIN keep : j < k => keep[j] < keep[k]
      /\ \A x \in (1..n) \ rejected : \E j \in DOMAIN keep : keep[j] = x
  <2>1. (1..n) \ rejected \in SUBSET (1..n) /\ keep = Sorted((1..n) \ rejected)
    BY DEF Kept, n_active
  <2> HIDE DEF n, keep
  <2> QED BY <1>3, <2>1, OrbitSortedLists
<1> HIDE DEF n, keep
<1>5. DOMAIN keep = 1..Len(keep) /\ Len(keep) \in Nat
        /\ \A j \in DOMAIN keep : keep[j] \in (1..n) \ rejected
  BY <1>4
<1>6. /\ active'.rows \in Seq(Rows) /\ active'.starts \in Seq(BOOLEAN) /\ Grouped(active')
      /\ DOMAIN active'.rows = DOMAIN keep
      /\ \A j \in DOMAIN keep : active'.rows[j] = active.rows[keep[j]]
  <2>1. keep \in Seq(DOMAIN active.rows)
    BY <1>3, <1>4
  <2>2. active.rows \in Seq(Rows) /\ active.starts \in Seq(BOOLEAN) /\ Grouped(active)
    BY <1>2 DEF OrbitInv, OrbitTyped, TypeOK, GroupsAreFrames
  <2> DEFINE left == filter_landmark_measurements(active, keep)
  <2>3. active' = left
    BY <1>1 DEF keep
  <2>4. /\ left.rows \in Seq(Rows) /\ left.starts \in Seq(BOOLEAN) /\ Grouped(left)
        /\ DOMAIN left.rows = DOMAIN keep
        /\ \A j \in DOMAIN keep : left.rows[j] = active.rows[keep[j]]
    BY <1>4, <2>1, <2>2, RowsKept
  <2> HIDE DEF left
  <2> QED BY <2>3, <2>4
<1>7. /\ DOMAIN active_original_indices' = DOMAIN keep
      /\ \A j \in DOMAIN keep : active_original_indices'[j] = active_original_indices[keep[j]]
  BY <1>1 DEF keep
<1>8. /\ DOMAIN outlier_flags' = DOMAIN outlier_flags
      /\ \A i \in DOMAIN outlier_flags : outlier_flags'[i] =
           IF \E k \in rejected : active_original_indices[k] = i THEN 1 ELSE outlier_flags[i]
  BY <1>1 DEF Flag
<1>9. /\ DOMAIN active_original_indices = 1..n
      /\ DOMAIN outlier_flags = DOMAIN measurements.rows
      /\ \A k \in 1..n :
           /\ active_original_indices[k] \in DOMAIN measurements.rows
           /\ active.rows[k] = measurements.rows[active_original_indices[k]]
      /\ \A j, k \in 1..n : active_original_indices[j] = active_original_indices[k] => j = k
      /\ \A i \in DOMAIN measurements.rows :
           outlier_flags[i] = 0 <=> \E k \in 1..n : active_original_indices[k] = i
      /\ residuals # <<>> => residuals = measurements.rows
  BY <1>2, <1>3 DEF OrbitInv, Indexed
<1>10. OrbitTyped'
  <2>1. active_original_indices' \in Seq(Nat)
    <3>1. \A k \in 1..n : active_original_indices[k] \in Nat
      BY <1>9 DEF OrbitInv, OrbitTyped, TypeOK
    <3>2. active_original_indices' \in [1..Len(keep) -> Nat]
      <4>1. active_original_indices' = [j \in DOMAIN keep |-> active_original_indices[keep[j]]]
        BY <1>1 DEF keep
      <4> QED BY <1>5, <3>1, <4>1
    <3> QED BY <1>5, <3>2, IsSeq
  <2>2. outlier_flags' \in Seq({0, 1})
    <3>1. outlier_flags \in Seq({0, 1})
      BY DEF OrbitInv, OrbitTyped, TypeOK
    <3>2. DOMAIN outlier_flags = 1..Len(outlier_flags) /\ Len(outlier_flags) \in Nat
          /\ \A i \in 1..Len(outlier_flags) : outlier_flags[i] \in {0, 1}
      BY <3>1
    <3>3. outlier_flags' \in [1..Len(outlier_flags) -> {0, 1}]
      <4>1. outlier_flags' = [i \in 1..Len(outlier_flags) |->
              IF \E k \in rejected : active_original_indices[k] = i THEN 1 ELSE outlier_flags[i]]
        BY <1>1, <3>2 DEF Flag
      <4> QED BY <3>2, <4>1
    <3> QED BY <3>2, <3>3, IsSeq
  <2>3. iteration' \in 0..max_od_iterations
    BY <1>2 DEF OrbitInv, OrbitTyped, TypeOK, ODAssumption
  <2>4. \A m \in {measurements, active}' : m.rows \in Seq(Rows) /\ m.starts \in Seq(BOOLEAN)
    BY <1>2, <1>6 DEF OrbitInv, OrbitTyped, TypeOK
  <2> QED BY <1>2, <2>1, <2>2, <2>3, <2>4, Zenon
            DEF OrbitInv, OrbitTyped, TypeOK, Texts, Steps, control, dataset, prepared
<1>12. Inferred'
  <2>1. \A j \in DOMAIN keep :
          \/ active'.rows[j].version = inferred_ld_version
          \/ <<active'.rows[j].frame, active'.rows[j].version>> \in rewritten
    BY <1>2, <1>3, <1>5, <1>6 DEF OrbitInv, Inferred, OfModel
  <2>2. inferred_ld_version' = inferred_ld_version /\ rewritten' = rewritten
    BY <1>2 DEF dataset, prepared
  <2> QED BY <1>2, <1>6, <2>1, <2>2 DEF Inferred, OfModel
<1>13. GroupsAreFrames'
  BY <1>2, <1>6 DEF GroupsAreFrames
<1>14. Indexed'
  <2>1. \A j \in DOMAIN keep :
          /\ active_original_indices'[j] \in DOMAIN measurements.rows
          /\ active'.rows[j] = measurements.rows[active_original_indices'[j]]
    BY <1>5, <1>6, <1>7, <1>9
  <2>2. ASSUME NEW j \in DOMAIN keep, NEW k \in DOMAIN keep,
               active_original_indices'[j] = active_original_indices'[k]
        PROVE  j = k
    <3>1. keep[j] = keep[k]
      BY <1>5, <1>7, <1>9, <2>2
    <3>2. j \in Int /\ k \in Int /\ keep[j] \in Int
      BY <1>3, <1>5
    <3>3. ~(j < k) /\ ~(k < j)
      BY <1>4, <3>1, <3>2
    <3> QED BY <3>2, <3>3
  <2>3. ASSUME NEW i \in DOMAIN measurements.rows
        PROVE  outlier_flags'[i] = 0 <=> \E j \in DOMAIN keep : active_original_indices'[j] = i
    <3>1. CASE \E k \in rejected : active_original_indices[k] = i
      <4>1. PICK k \in rejected : active_original_indices[k] = i
        BY <3>1
      <4>2. k \in 1..n /\ outlier_flags'[i] = 1
        BY <1>8, <1>9, <3>1
      <4>3. \A j \in DOMAIN keep : keep[j] \in 1..n /\ keep[j] # k
        BY <1>5
      <4> QED BY <1>7, <1>9, <4>1, <4>2, <4>3
    <3>2. CASE ~ \E k \in rejected : active_original_indices[k] = i
      <4>1. outlier_flags'[i] = outlier_flags[i]
        BY <1>8, <1>9, <3>2
      <4>2. ASSUME NEW k \in 1..n, active_original_indices[k] = i
            PROVE  \E j \in DOMAIN keep : active_original_indices'[j] = i
        <5>1. k \in (1..n) \ rejected
          BY <3>2, <4>2
        <5>2. PICK j \in DOMAIN keep : keep[j] = k
          BY <1>4, <5>1
        <5> QED BY <1>7, <4>2, <5>2
      <4>3. ASSUME NEW j \in DOMAIN keep, active_original_indices'[j] = i
            PROVE  \E k \in 1..n : active_original_indices[k] = i
        BY <1>5, <1>7, <4>3
      <4> QED BY <1>9, <4>1, <4>2, <4>3
    <3> QED BY <3>1, <3>2
  <2>4. measurements' = measurements /\ residuals' = residuals
    BY <1>2
  <2> QED BY <1>6, <1>7, <1>8, <1>9, <2>1, <2>2, <2>3, <2>4 DEF Indexed
<1> QED BY <1>10, <1>12, <1>13, <1>14 DEF OrbitInv

LEMMA PublishInv ==
  ASSUME ODAssumption, OrbitInv, Publish
  PROVE  OrbitInv'
<1>1. /\ step' = "idle" /\ out' = Nothing /\ g_od_result' = out
      /\ g_od_run_status' \in {"COMPLETED", "FAILED"}
      /\ files' = {} /\ unread' = {} /\ rewritten' = {}
      /\ inferred_ld_version' = 0 /\ lm_rows' = <<>> /\ group_starts_vec' = <<>>
      /\ measurements' = Empty /\ active' = Empty
      /\ active_original_indices' = <<>> /\ outlier_flags' = <<>>
      /\ iteration' = 0 /\ residuals' = <<>> /\ UNCHANGED <<jobs, frames, csv>>
  BY DEF Publish
<1>2. Nothing \in Results /\ Nothing.job \in 0..jobs
  <2>1. jobs \in Nat
    BY DEF OrbitInv, OrbitTyped, TypeOK, ODAssumption
  <2> QED BY <2>1 DEF Nothing, Results, OrbitCodes, Stages
<1>3. OrbitTyped'
  <2>1. Empty.rows \in Seq(Rows) /\ Empty.starts \in Seq(BOOLEAN)
    BY DEF Empty
  <2>2. \A m \in {measurements, active}' : m.rows \in Seq(Rows) /\ m.starts \in Seq(BOOLEAN)
    BY <1>1, <2>1
  <2>3. /\ 0 \in 0..max_od_iterations /\ {} \subseteq 1..Frames /\ {} \subseteq {}
        /\ {} \subseteq (1..Frames) \X Own /\ 0 \in Versions \cup {0}
        /\ "idle" \in Steps
    BY DEF ODAssumption, Steps
  <2>4. /\ lm_rows' \in Seq(Rows) /\ group_starts_vec' \in Seq(BOOLEAN)
        /\ active_original_indices' \in Seq(Nat) /\ outlier_flags' \in Seq({0, 1})
    BY <1>1
  <2>5. g_od_run_status' \in {"NOT_STARTED", "RUNNING", "COMPLETED", "FAILED"}
    BY <1>1
  <2> QED BY <1>1, <1>2, <2>2, <2>3, <2>4, <2>5, ResultKept, Zenon DEF OrbitInv,
       OrbitTyped, TypeOK, Texts
<1>4. Inferred' /\ GroupsAreFrames' /\ Indexed'
  BY <1>1 DEF Inferred, GroupsAreFrames, Indexed
<1> QED BY <1>3, <1>4 DEF OrbitInv

\* Every step of commands, worker and collection keeps the invariant.
LEMMA OrbitInvNext ==
  ASSUME ODAssumption, OrbitInv, [Next]_vars \/ Inspects
  PROVE  OrbitInv'
<1>1. CASE RunOD \/ RunODWithoutThread
  BY <1>1, CommandsInv
<1>2. CASE \/ Inspects \/ ReadODConfig \/ InferRefuses \/ ExtractEnds \/ CsvFails \/ ParseImu
           \/ SolverRejects \/ SolverFails \/ WriteBatchODResults \/ WorkerThrows
  BY <1>2, DecisionsInv
<1>3. CASE ListFrames \/ InferVersion \/ InferEnds
  BY <1>3, ListFramesInv, InferVersionInv, InferEndsInv
<1>4. CASE Extract
  BY <1>4, ExtractInv
<1>5. CASE WriteCsv
  BY <1>5, WriteCsvInv
<1>6. CASE LoadODMeasurementsFromDataset
  BY <1>6, LoadInv
<1>7. CASE SolverEnds
  BY <1>7, SolverEndsInv
<1>8. CASE Reject
  BY <1>8, RejectInv
<1>9. CASE Publish
  BY <1>9, PublishInv
<1>10. CASE \E f \in 1..Frames : CollectorOpens(f) \/ CollectorWrites(f)
  BY <1>10, CollectorInv
<1>11. CASE UNCHANGED vars
  <2>1. UNCHANGED <<control, dataset, csv, step, out, prepared, measurements, rejection>>
    BY <1>11 DEF vars
  <2>2. /\ jobs' = jobs /\ g_od_run_status' = g_od_run_status /\ g_od_result' = g_od_result
        /\ step' = step /\ out' = out
    BY <2>1 DEF control
  <2> QED BY <2>1, <2>2, ResultKept, DataKept
<1>12. InspectDatasetForOD => Inspects
  BY DEF InspectDatasetForOD, Inspects, Go
<1> QED BY <1>1, <1>2, <1>3, <1>4, <1>5, <1>6, <1>7, <1>8, <1>9, <1>10, <1>11, <1>12
  DEF Next, Worker

LEMMA OrbitInvImplies ==
  ASSUME ODAssumption, OrbitInv
  PROVE  TypeOK /\ OneModel /\ RejectionKeepsRows
<1>1. TypeOK
  BY DEF OrbitInv, OrbitTyped
<1>2. OneModel
  BY DEF OrbitInv, Inferred, OfModel, OneModel
<1>3. RejectionKeepsRows
  <2> SUFFICES ASSUME step \in {"solve", "results"}
               PROVE  /\ Len(active_original_indices) = n_active
                      /\ \A k \in 1..n_active :
                           active.rows[k] = measurements.rows[active_original_indices[k]]
                      /\ \A i \in DOMAIN measurements.rows :
                           outlier_flags[i] = 0
                             <=> \E k \in 1..n_active : active_original_indices[k] = i
                      /\ \A j, k \in 1..n_active :
                           Groups(active.starts)[j] = Groups(active.starts)[k]
                             <=> active.rows[j].frame = active.rows[k].frame
                      /\ residuals # <<>> => residuals = measurements.rows
    BY DEF RejectionKeepsRows
  <2>1. /\ active.rows \in Seq(Rows) /\ active.starts \in Seq(BOOLEAN)
        /\ active_original_indices \in Seq(Nat)
    BY DEF OrbitInv, OrbitTyped, TypeOK
  <2>2. DOMAIN active.rows = 1..n_active /\ n_active \in Nat
    BY <2>1 DEF n_active
  <2>3. DOMAIN active_original_indices = DOMAIN active.rows
    BY DEF OrbitInv, Indexed
  <2>4. Len(active_original_indices) = n_active
    BY <2>1, <2>2, <2>3
  <2>5. Grouped(active)
    BY DEF OrbitInv, GroupsAreFrames
  <2>6. Numbered(active.rows, Groups(active.starts))
    BY <2>1, <2>5, GroupsOfFrames
  <2> QED BY <2>2, <2>4, <2>6 DEF OrbitInv, Indexed, Numbered
<1> QED BY <1>1, <1>2, <1>3

LEMMA OrbitInvariance == ASSUME ODAssumption PROVE Spec => []OrbitInv
<1>1. Init => OrbitInv
  BY OrbitInitInv
<1>2. OrbitInv /\ [Next]_vars => OrbitInv'
  BY OrbitInvNext
<1> QED BY <1>1, <1>2, PTL DEF Spec

-----------------------------------------------------------------------------
\* The variables of the orbit determination job stay in their types.
THEOREM OrbitTypeCorrect == ASSUME ODAssumption PROVE Spec => []TypeOK
<1>1. OrbitInv => TypeOK
  BY OrbitInvImplies
<1> QED BY <1>1, OrbitInvariance, PTL

\* The solver sees rows of the one model that was inferred; a row of another comes
\* only from a frame that was written with that model between the start of the first
\* pass over the files and the end of the second, which does not check the model again
\* (infer_od_ld_version and extract_landmark_csv_for_od in od_alg.cpp).
THEOREM OneModelHolds == ASSUME ODAssumption PROVE Spec => []OneModel
<1>1. OrbitInv => OneModel
  BY OrbitInvImplies
<1> QED BY <1>1, OrbitInvariance, PTL

\* Whatever is rejected in whatever iteration, rows keep their index, their group and
\* their residual (solve_batch_opt_with_outlier_rejection in batch_optimization.cpp).
THEOREM RejectionKeepsRowsHolds == ASSUME ODAssumption PROVE Spec => []RejectionKeepsRows
<1>1. OrbitInv => RejectionKeepsRows
  BY OrbitInvImplies
<1> QED BY <1>1, OrbitInvariance, PTL

-----------------------------------------------------------------------------
(***************************************************************************)
(* Downlink                                                                *)
(***************************************************************************)

-----------------------------------------------------------------------------
(* Packets *)

Elems(s) == {s[i] : i \in DOMAIN s}
NoTx(kinds) == \A p \in Elems(tx) : p.kind \notin kinds
NoRx(kinds) == \A p \in Elems(rx) : p.kind \notin kinds

-----------------------------------------------------------------------------
(* The invariant *)

Running == {"run", "cameras", "capture", "downscale", "infer", "call"}
Clearing == {"send", "clear", "CREATE"}
Opened == {"INIT", "await_INIT", "burst", "await_confirm", "confirm"}
Sending == Clearing \cup Opened \cup {"await_CREATE"}
Fresh == {"clear", "CREATE", "await_CREATE", "INIT", "await_INIT"}

Names == (Experiments \cup {"none"}) \X (0..Files)
Packets ==
  [kind : {"EXPERIMENT_FINISHED", "CREATE", "INIT", "FRAGMENT", "DOWNLOAD_FINISH"},
   file : Names, fragment : 0..Fragments]
Answers ==
  [kind : {"CREATE", "INIT", "CONFIRM", "EXPERIMENT", "OFF"},
   bits : SUBSET Nat, experiment : Experiments \cup {"none"}]

\* Types; and where ExperimentThread is has an experiment, and a file of it.
DownlinkTyped ==
  /\ DL!TypeOK
  /\ tx \in Seq(Packets) /\ rx \in Seq(Answers)
  /\ sat \in [file : Names, missing : SUBSET (1..Fragments), got : SUBSET (1..Fragments),
              due : BOOLEAN, last : SUBSET Nat]
  /\ stop_event \in BOOLEAN
  /\ ack_event \in [{"CREATE", "INIT"} -> BOOLEAN]
  /\ update_event \in BOOLEAN /\ update_data \in SUBSET Nat /\ confirm \in SUBSET Nat
  /\ batch \in Seq(1..Fragments)
  /\ last_file \in 0..Files
  /\ pc \in Running \cup Sending \cup {"mark"} => running \in Experiments
  /\ pc \in Sending \cup {"mark"} => file \in 1..last_file
  /\ \A p \in Elems(rx) : p.kind = "EXPERIMENT" => p.experiment \in Experiments
  /\ \A p \in Elems(tx) : p.kind = "FRAGMENT" => p.fragment # 0

\* A file is opened when nothing of another is on the line.
Before ==
  /\ pc \in Clearing =>
       /\ NoTx({"CREATE", "INIT", "FRAGMENT"}) /\ NoRx({"CREATE", "INIT", "CONFIRM"})
       /\ ~sat.due /\ handling # "update"
  /\ pc \in {"await_CREATE", "INIT", "await_INIT", "burst"} =>
       /\ NoTx({"FRAGMENT"}) /\ NoRx({"CONFIRM"})
       /\ ~sat.due /\ handling # "update" /\ ~update_event
  /\ pc \in {"clear", "CREATE", "await_CREATE", "INIT", "await_INIT", "burst"} =>
       update_data = DL!None
  /\ pc = "CREATE" => ~update_event
  /\ pc \in Fresh => missing_fragments = 1..Fragments

\* An acknowledged CREATE_TRANS is that of this file, and so is all that follows.
Created ==
  \/ pc \in Opened
  \/ pc = "await_CREATE" /\ (ack_event["CREATE"] \/ ~NoRx({"CREATE"}))
OwnFile ==
  /\ pc \in Opened \cup {"await_CREATE"} =>
       /\ \A p \in Elems(tx) : p.kind \in {"CREATE", "FRAGMENT"} => p.file = DL!ThisFile
       /\ missing_fragments = 1..Fragments \/ NoTx({"INIT"})
  /\ Created => sat.file = DL!ThisFile
  /\ Created /\ pc \notin {"await_confirm", "confirm"} =>
       sat.got = {} /\ sat.missing \in {missing_fragments, {}}

\* A confirmation names positions of the burst whose fragments have arrived, and the
\* mainboard misses from then on what the payload will.
InBurst(bits) == {batch[i] : i \in bits \cap DOMAIN batch}
Truthful(bits) ==
  /\ 0 \notin bits
  /\ InBurst(bits) \subseteq received[DL!ThisFile]
  /\ sat.missing \in {missing_fragments \ InBurst(bits), {}}

\* At most one confirmation is on its way, and nothing else then.
DownlinkInOrder(s) ==
  \A i, j \in DOMAIN s :
    s[i].kind = "CONFIRM" /\ i < j => s[j].kind \notin {"CREATE", "INIT", "CONFIRM"}
Alone(bits) == NoRx({"CREATE", "INIT", "CONFIRM"}) /\ Truthful(bits)
Confirming == handling = "update" \/ update_data # DL!None \/ ~NoRx({"CONFIRM"})
Waiting ==
  pc = "await_confirm" =>
    /\ batch = DL!Burst(missing_fragments)
    /\ \A p \in Elems(tx) : p.kind = "FRAGMENT" => p.fragment \in Elems(batch)
    /\ sat.got \subseteq Elems(batch) \cap received[DL!ThisFile]
    /\ tx # <<>> \/ sat.due => ~Confirming /\ sat.missing \in {missing_fragments, {}}
    /\ Confirming => sat.got = {}
    /\ DownlinkInOrder(rx)
    /\ ~NoRx({"CONFIRM"}) => handling # "update" /\ update_data = DL!None
    /\ \A p \in Elems(rx) : p.kind = "CONFIRM" => Truthful(p.bits)
    /\ handling = "update" \/ update_data # DL!None => Alone(update_data)
    /\ update_event => handling # "update" /\ update_data # DL!None

Taking ==
  pc = "confirm" =>
    /\ tx = <<>> /\ ~sat.due /\ sat.got = {}
    /\ handling # "update" /\ update_data = DL!None
    /\ confirm # DL!None /\ Alone(confirm)

\* What is no longer missing has arrived, and so has what was reported.
Had == pc \in Fresh \cup Opened
  => 1..Fragments \ missing_fragments \subseteq received[DL!ThisFile]
Arrived == \A f \in reported : DL!Complete(f)

Protocol == Before /\ OwnFile /\ Waiting /\ Taking /\ Had

\* An experiment is in one place, and has reported nothing before it is run.
OnceIn(s, P, f) ==
  \A i, j \in DOMAIN s : s[i] \in P /\ s[j] \in P /\ f[s[i]] = f[s[j]] => i = j
Commands == {p \in Answers : p.kind = "EXPERIMENT"}
Once ==
  /\ \A e \in unsent :
       /\ \A p \in Elems(rx) : p.kind = "EXPERIMENT" => p.experiment # e
       /\ e \notin Elems(experiment_queue) /\ e # running
  /\ OnceIn(rx, Commands, [p \in Answers |-> p.experiment])
  /\ \A p \in Elems(rx) : p.kind = "EXPERIMENT" =>
       p.experiment \notin Elems(experiment_queue) /\ p.experiment # running
  /\ OnceIn(experiment_queue, Experiments, [e \in Experiments |-> e])
  /\ running \notin Elems(experiment_queue)
  /\ \A f \in reported :
       /\ f[1] \notin unsent /\ f[1] \notin Elems(experiment_queue)
       /\ \A p \in Elems(rx) : p.kind = "EXPERIMENT" => p.experiment # f[1]
       /\ pc \in Running => f[1] # running

\* The files before this one are reported, and each after the first shows an image.
Thumbnails ==
  /\ pc \in Sending => \A k \in 1..file - 1 : <<running, k>> \in reported
  /\ pc = "mark" => \A k \in 1..last_file : <<running, k>> \in reported
  /\ pc \in Sending \cup {"mark"} /\ Runner[running] = "processing" =>
       \A k \in 2..last_file : shows[<<running, k>>] \in 1..Shown
  /\ pc = "mark" => Runner[running] = "processing"
  /\ \A i \in sent_set : \E f \in reported : shows[f] = i

\* What holds whatever is confirmed, and what needs true confirmations.
Orderly == DownlinkTyped /\ Once /\ Thumbnails
DownlinkInv == Orderly /\ Protocol /\ Arrived

-----------------------------------------------------------------------------
(* Sequences, and sets of numbers in order *)

\* A sequence is a function, and of a larger set too.
LEMMA ListOf ==
  ASSUME NEW S, NEW s \in Seq(S), NEW T, S \subseteq T
  PROVE  /\ Len(s) \in Nat /\ DOMAIN s = 1..Len(s) /\ \A i \in 1..Len(s) : s[i] \in S
         /\ s \in Seq(T)
<1>1. Len(s) \in Nat /\ s \in [1..Len(s) -> S]
  OBVIOUS
<1>2. s \in [1..Len(s) -> T]
  BY <1>1
<1> QED BY <1>1, <1>2

\* The elements of a sequence when one is added or taken.
LEMMA ElemsOf ==
  ASSUME NEW S, NEW s \in Seq(S)
  PROVE  /\ Elems(s) \subseteq S
         /\ \A e \in S : Append(s, e) \in Seq(S) /\ Elems(Append(s, e)) = Elems(s) \cup {e}
         /\ s # <<>> =>
              /\ Head(s) \in Elems(s) /\ Tail(s) \in Seq(S)
              /\ Elems(Tail(s)) \subseteq Elems(s)
<1>1. Elems(s) \subseteq S
  BY DEF Elems
<1>2. ASSUME NEW e \in S
      PROVE  Append(s, e) \in Seq(S) /\ Elems(Append(s, e)) = Elems(s) \cup {e}
  <2>1. /\ Append(s, e) \in Seq(S) /\ Len(Append(s, e)) = Len(s) + 1
        /\ \A i \in 1..Len(s) : Append(s, e)[i] = s[i]
        /\ Append(s, e)[Len(s) + 1] = e
    OBVIOUS
  <2>2. DOMAIN s = 1..Len(s) /\ DOMAIN Append(s, e) = 1..(Len(s) + 1) /\ Len(s) \in Nat
    BY <2>1
  <2>3. 1..(Len(s) + 1) = (1..Len(s)) \cup {Len(s) + 1}
    BY <2>2
  <2> QED BY <2>1, <2>2, <2>3 DEF Elems
<1>3. ASSUME s # <<>>
      PROVE  /\ Head(s) \in Elems(s) /\ Tail(s) \in Seq(S)
             /\ Elems(Tail(s)) \subseteq Elems(s)
  <2>1. /\ Tail(s) \in Seq(S) /\ Len(s) \in Nat \ {0} /\ Len(Tail(s)) = Len(s) - 1
        /\ \A i \in 1..Len(s) - 1 : Tail(s)[i] = s[i + 1]
        /\ Head(s) = s[1]
    BY <1>3
  <2>2. DOMAIN s = 1..Len(s) /\ DOMAIN Tail(s) = 1..Len(s) - 1
    BY <2>1
  <2> QED BY <2>1, <2>2 DEF Elems
<1> QED BY <1>1, <1>2, <1>3

\* The same for two sequences one after the other.
LEMMA ElemsOfBoth ==
  ASSUME NEW S, NEW s \in Seq(S), NEW t \in Seq(S)
  PROVE  s \o t \in Seq(S) /\ Elems(s \o t) = Elems(s) \cup Elems(t)
<1>1. /\ s \o t \in Seq(S) /\ Len(s \o t) = Len(s) + Len(t)
      /\ Len(s) \in Nat /\ Len(t) \in Nat
      /\ \A i \in 1..Len(s) + Len(t) :
           (s \o t)[i] = IF i <= Len(s) THEN s[i] ELSE t[i - Len(s)]
  OBVIOUS
<1>2. DOMAIN s = 1..Len(s) /\ DOMAIN t = 1..Len(t) /\ DOMAIN (s \o t) = 1..Len(s) + Len(t)
  BY <1>1
<1>3. ASSUME NEW i \in 1..Len(t) PROVE i + Len(s) \in 1..Len(s) + Len(t)
               /\ (s \o t)[i + Len(s)] = t[i]
  BY <1>1
<1>4. ASSUME NEW i \in 1..Len(s) PROVE i \in 1..Len(s) + Len(t) /\ (s \o t)[i] = s[i]
  BY <1>1
<1>5. ASSUME NEW i \in 1..Len(s) + Len(t)
      PROVE  (s \o t)[i] \in Elems(s) \cup Elems(t)
  BY <1>1, <1>2 DEF Elems
<1>6. Elems(s) \subseteq Elems(s \o t)
  BY <1>2, <1>4 DEF Elems
<1>7. Elems(t) \subseteq Elems(s \o t)
  BY <1>2, <1>3 DEF Elems
<1>8. Elems(s \o t) \subseteq Elems(s) \cup Elems(t)
  BY <1>2, <1>5 DEF Elems
<1> QED BY <1>1, <1>6, <1>7, <1>8

\* The two names of what Downlink and OrbitDetermination use.
LEMMA SameSorted == \A S : DL!Cardinality(S) = Cardinality(S) /\ DL!Sorted(S) = Sorted(S)
<1>1. \A S : DL!Cardinality(S) = Cardinality(S)
  BY DEF DL!Cardinality, Cardinality
<1>2. \A S : DL!Sorted(S) = Sorted(S)
  BY DEF DL!Sorted, Sorted, DL!Cardinality, Cardinality
<1> QED BY <1>1, <1>2

LEMMA DownlinkSortedLists ==
  ASSUME NEW m \in Nat, NEW S \in SUBSET (1..m)
  PROVE  /\ DL!Cardinality(S) \in Nat
         /\ DL!Sorted(S) \in Seq(S) /\ Len(DL!Sorted(S)) = DL!Cardinality(S)
  BY SameSorted, OrbitSortedLists

\* A burst is of fragments that are missing, and empty only if none is.
LEMMA BurstLists ==
  ASSUME DL!DownlinkAssumption, NEW missing \in SUBSET (1..Fragments)
  PROVE  DL!Burst(missing) \in Seq(missing) /\ (missing = {} => DL!Burst(missing) = <<>>)
<1>1. /\ DL!Cardinality(missing) \in Nat
      /\ DL!Sorted(missing) \in Seq(missing)
      /\ Len(DL!Sorted(missing)) = DL!Cardinality(missing)
  BY DownlinkSortedLists DEF DL!DownlinkAssumption
<1> DEFINE n == IF DL!Cardinality(missing) < burst_size THEN DL!Cardinality(missing) ELSE burst_size
<1>2. n \in 0..Len(DL!Sorted(missing)) /\ burst_size \in Nat \ {0}
  BY <1>1 DEF DL!DownlinkAssumption
<1>3. SubSeq(DL!Sorted(missing), 1, n) \in Seq(missing)
  BY <1>1, <1>2
<1>4. missing = {} => SubSeq(DL!Sorted(missing), 1, n) = <<>>
  BY <1>1, <1>2, SameSorted, FS_EmptySet
<1> QED BY <1>3, <1>4 DEF DL!Burst

\* The order of a sequence of answers when one is added or taken.
LEMMA InOrderOf ==
  ASSUME NEW s \in Seq(Answers)
  PROVE  /\ (\A p \in Elems(s) : p.kind # "CONFIRM") => DownlinkInOrder(s)
         /\ DownlinkInOrder(s) =>
              /\ \A e \in Answers :
                   \/ e.kind \notin {"CREATE", "INIT", "CONFIRM"}
                   \/ \A p \in Elems(s) : p.kind # "CONFIRM"
                   => DownlinkInOrder(Append(s, e))
              /\ s # <<>> =>
                   /\ DownlinkInOrder(Tail(s))
                   /\ Head(s).kind = "CONFIRM" =>
                        \A p \in Elems(Tail(s)) : p.kind \notin {"CREATE", "INIT", "CONFIRM"}
<1>1. (\A p \in Elems(s) : p.kind # "CONFIRM") => DownlinkInOrder(s)
  BY DEF Elems, DownlinkInOrder
<1>2. ASSUME DownlinkInOrder(s), NEW e \in Answers,
             \/ e.kind \notin {"CREATE", "INIT", "CONFIRM"}
             \/ \A p \in Elems(s) : p.kind # "CONFIRM"
      PROVE  DownlinkInOrder(Append(s, e))
  <2>1. /\ Append(s, e) \in Seq(Answers) /\ Len(s) \in Nat /\ DOMAIN s = 1..Len(s)
        /\ DOMAIN Append(s, e) = 1..(Len(s) + 1)
        /\ \A i \in 1..Len(s) : Append(s, e)[i] = s[i]
        /\ Append(s, e)[Len(s) + 1] = e
    OBVIOUS
  <2> SUFFICES ASSUME NEW i \in 1..(Len(s) + 1), NEW j \in 1..(Len(s) + 1),
                      Append(s, e)[i].kind = "CONFIRM", i < j
               PROVE  Append(s, e)[j].kind \notin {"CREATE", "INIT", "CONFIRM"}
    BY <2>1 DEF DownlinkInOrder
  <2>2. i \in 1..Len(s) /\ s[i].kind = "CONFIRM"
    BY <2>1
  <2>3. CASE j \in 1..Len(s)
    BY <2>1, <2>2, <2>3, <1>2 DEF DownlinkInOrder
  <2>4. CASE j = Len(s) + 1
    BY <2>1, <2>2, <2>4, <1>2 DEF Elems
  <2> QED BY <2>1, <2>3, <2>4
<1>3. ASSUME DownlinkInOrder(s), s # <<>>
      PROVE  /\ DownlinkInOrder(Tail(s))
             /\ Head(s).kind = "CONFIRM" =>
                  \A p \in Elems(Tail(s)) : p.kind \notin {"CREATE", "INIT", "CONFIRM"}
  <2>1. /\ Len(s) \in Nat \ {0} /\ DOMAIN s = 1..Len(s) /\ DOMAIN Tail(s) = 1..Len(s) - 1
        /\ \A i \in 1..Len(s) - 1 : Tail(s)[i] = s[i + 1]
        /\ Head(s) = s[1]
    BY <1>3
  <2>2. ASSUME NEW i \in 1..Len(s) - 1 PROVE i + 1 \in 1..Len(s) /\ 1 \in 1..Len(s) /\ 1 < i + 1
    BY <2>1
  <2>3. DownlinkInOrder(Tail(s))
    BY <1>3, <2>1, <2>2 DEF DownlinkInOrder
  <2> QED BY <1>3, <2>1, <2>2, <2>3 DEF DownlinkInOrder, Elems
<1> QED BY <1>1, <1>2, <1>3

\* Commands that occur once in a sequence: when one is added or taken.
LEMMA OnceOf ==
  ASSUME NEW S, NEW s \in Seq(S), NEW P, NEW f, OnceIn(s, P, f)
  PROVE  /\ \A e \in S :
              e \notin P \/ (\A x \in Elems(s) : x \in P => f[x] # f[e])
                => OnceIn(Append(s, e), P, f)
         /\ s # <<>> =>
              /\ OnceIn(Tail(s), P, f)
              /\ Head(s) \in P => \A x \in Elems(Tail(s)) : x \in P => f[x] # f[Head(s)]
<1>1. ASSUME NEW e \in S, e \notin P \/ \A x \in Elems(s) : x \in P => f[x] # f[e]
      PROVE  OnceIn(Append(s, e), P, f)
  <2>1. /\ Len(s) \in Nat /\ DOMAIN s = 1..Len(s) /\ DOMAIN Append(s, e) = 1..(Len(s) + 1)
        /\ \A k \in 1..Len(s) : Append(s, e)[k] = s[k]
        /\ Append(s, e)[Len(s) + 1] = e
    OBVIOUS
  <2>2. \A k \in 1..Len(s) : s[k] \in Elems(s)
    BY <2>1 DEF Elems
  <2>3. ASSUME NEW i \in DOMAIN Append(s, e), NEW j \in DOMAIN Append(s, e),
               Append(s, e)[i] \in P, Append(s, e)[j] \in P,
               f[Append(s, e)[i]] = f[Append(s, e)[j]]
        PROVE  i = j
    <3>1. i \in 1..Len(s) \/ i = Len(s) + 1
      BY <2>1
    <3>2. j \in 1..Len(s) \/ j = Len(s) + 1
      BY <2>1
    <3> QED BY <1>1, <2>1, <2>2, <2>3, <3>1, <3>2 DEF OnceIn
  <2> QED BY <2>3 DEF OnceIn
<1>2. ASSUME s # <<>>
      PROVE  /\ OnceIn(Tail(s), P, f)
             /\ Head(s) \in P => \A x \in Elems(Tail(s)) : x \in P => f[x] # f[Head(s)]
  <2>1. /\ Len(s) \in Nat \ {0} /\ DOMAIN s = 1..Len(s) /\ DOMAIN Tail(s) = 1..Len(s) - 1
        /\ \A i \in 1..Len(s) - 1 : Tail(s)[i] = s[i + 1]
        /\ Head(s) = s[1]
    BY <1>2
  <2>2. ASSUME NEW i \in 1..Len(s) - 1 PROVE i + 1 \in 1..Len(s) /\ 1 \in 1..Len(s) /\ 1 # i + 1
    BY <2>1
  <2>3. ASSUME NEW i \in 1..Len(s) - 1, NEW j \in 1..Len(s) - 1, i + 1 = j + 1 PROVE i = j
    BY <2>1, <2>3
  <2> QED BY <2>1, <2>2, <2>3 DEF Elems, OnceIn
<1> QED BY <1>1, <1>2

-----------------------------------------------------------------------------
(* Types *)

\* What the payload and the mainboard put on the line.
LEMMA LineTypes ==
  ASSUME DL!DownlinkAssumption, DownlinkTyped
  PROVE  /\ \A kind \in {"EXPERIMENT_FINISHED", "CREATE", "INIT", "DOWNLOAD_FINISH"} :
              DL!Packet(kind) \in Packets
         /\ \A n \in 1..Fragments : DL!Fragment(n) \in Packets
         /\ \A kind \in {"CREATE", "INIT", "CONFIRM", "OFF"} : DL!Answer(kind) \in Answers
         /\ \A bits \in SUBSET Nat : [DL!Answer("CONFIRM") EXCEPT !.bits = bits] \in Answers
         /\ \A e \in Experiments : [DL!Answer("EXPERIMENT") EXCEPT !.experiment = e] \in Answers
<1>1. DL!ThisFile \in Names
  BY DEF DownlinkTyped, DL!TypeOK, DL!ThisFile, Names
<1>2. /\ \A kind \in {"EXPERIMENT_FINISHED", "CREATE", "INIT", "DOWNLOAD_FINISH"} :
           DL!Packet(kind) \in Packets
      /\ \A n \in 1..Fragments : DL!Fragment(n) \in Packets
  BY <1>1 DEF DL!DownlinkAssumption, DL!Packet, DL!Fragment, Packets
<1>3. \A kind \in {"CREATE", "INIT", "CONFIRM", "OFF"} : DL!Answer(kind) \in Answers
  BY DEF DL!Answer, Answers
<1>4. /\ \A bits \in SUBSET Nat : [DL!Answer("CONFIRM") EXCEPT !.bits = bits] \in Answers
      /\ \A e \in Experiments : [DL!Answer("EXPERIMENT") EXCEPT !.experiment = e] \in Answers
  BY DEF DL!Answer, Answers
<1> QED BY <1>2, <1>3, <1>4

\* The line and the mainboard.
LEMMA ExternalTyped ==
  ASSUME DL!DownlinkAssumption, DownlinkTyped, DL!External
  PROVE  DownlinkTyped'
<1>1. UNCHANGED <<stop_event, experiment_queue, payload_state, ack_event, update_event,
        update_data,
                  handling, pc, running, last_key, in_grace, file, last_file,
                  missing_fragments, batch, stalled_rounds, resends, confirm, reported,
                  sent_set, shows>>
  BY DEF DL!External, DL!LoseTx, DL!LoseRx, DL!SatReceives, DL!SatConfirms, DL!SatRepeats,
         DL!SatCommands, DL!SatTurnsOff, DL!shared, DL!events, DL!thread, DL!transaction,
         DL!thumbnails
<1>2. losses' \in 0..MaxLosses
  <2>1. CASE DL!SatReceives
    BY <2>1 DEF DL!SatReceives, DownlinkTyped, DL!TypeOK
  <2>2. CASE DL!LoseTx \/ DL!LoseRx
    <3>1. losses \in 0..MaxLosses /\ MaxLosses \in Nat
      BY DEF DownlinkTyped, DL!TypeOK, DL!DownlinkAssumption
    <3>2. losses < MaxLosses /\ losses' = losses + 1
      BY <2>2 DEF DL!LoseTx, DL!LoseRx
    <3> QED BY <3>1, <3>2
  <2>3. CASE DL!SatConfirms \/ DL!SatRepeats \/ DL!SatCommands \/ DL!SatTurnsOff
    BY <2>3 DEF DL!SatConfirms, DL!SatRepeats, DL!SatCommands, DL!SatTurnsOff,
         DownlinkTyped, DL!TypeOK
  <2> QED BY <2>1, <2>2, <2>3 DEF DL!External
<1>3. tx' \in Seq(Packets) /\ Elems(tx') \subseteq Elems(tx)
  <2>1. tx # <<>> => Tail(tx) \in Seq(Packets) /\ Elems(Tail(tx)) \subseteq Elems(tx)
    BY ElemsOf DEF DownlinkTyped
  <2>2. CASE DL!SatReceives
    BY <2>1, <2>2 DEF DL!SatReceives
  <2>3. CASE DL!LoseTx \/ DL!LoseRx
    BY <2>1, <2>3 DEF DL!LoseTx, DL!LoseRx, DownlinkTyped
  <2>4. CASE DL!SatConfirms \/ DL!SatRepeats \/ DL!SatCommands \/ DL!SatTurnsOff
    BY <2>4 DEF DL!SatConfirms, DL!SatRepeats, DL!SatCommands, DL!SatTurnsOff,
         DownlinkTyped
  <2> QED BY <2>2, <2>3, <2>4 DEF DL!External
<1>4. /\ unsent' \subseteq Experiments /\ received' \in [DL!File -> SUBSET (1..Fragments)]
      /\ sat' \in [file : Names, missing : SUBSET (1..Fragments), got : SUBSET (1..Fragments),
                   due : BOOLEAN, last : SUBSET Nat]
      /\ rx' \in Seq(Answers)
      /\ \A p \in Elems(rx)' : p.kind = "EXPERIMENT" => p.experiment \in Experiments
  <2> USE DEF DownlinkTyped, DL!TypeOK
  <2>a. \A a \in Answers : Append(rx, a) \in Seq(Answers)
          /\ Elems(Append(rx, a)) = Elems(rx) \cup {a}
    BY ElemsOf
  <2>b. rx # <<>> => Tail(rx) \in Seq(Answers) /\ Elems(Tail(rx)) \subseteq Elems(rx)
    BY ElemsOf
  <2>1. CASE DL!LoseTx
    BY <2>1 DEF DL!LoseTx
  <2>2. CASE DL!LoseRx
    BY <2>2, <2>b DEF DL!LoseRx, DL!mainboard
  <2>3. CASE DL!SatReceives
    <3>1. Head(tx) \in Packets
      BY <2>3, ElemsOf DEF DL!SatReceives
    <3>2. unsent' = unsent
      BY <2>3 DEF DL!SatReceives
    <3>3. CASE Head(tx).kind = "CREATE"
      <4>1. sat' = [DL!Closed EXCEPT !.file = Head(tx).file]
              /\ rx' = Append(rx, DL!Answer("CREATE"))
            /\ received' = received
        BY <2>3, <3>3 DEF DL!SatReceives
      <4>2. DL!Answer("CREATE") \in Answers /\ DL!Answer("CREATE").kind = "CREATE"
        BY LineTypes DEF DL!Answer
      <4>3. Head(tx).file \in Names /\ DL!None \in SUBSET Nat
        BY <3>1 DEF Packets, DL!None
      <4>4. sat' = [file |-> Head(tx).file, missing |-> {}, got |-> {}, due |-> FALSE,
              last |-> DL!None]
        BY <4>1 DEF DL!Closed
      <4>5. rx' \in Seq(Answers) /\ \A p \in Elems(rx') : p \in Elems(rx) \/ p.kind = "CREATE"
        BY <4>1, <4>2, <2>a
      <4>6. sat' \in [file : Names, missing : SUBSET (1..Fragments),
                     got : SUBSET (1..Fragments), due : BOOLEAN, last : SUBSET Nat]
        BY <4>3, <4>4
      <4> QED BY <4>1, <4>5, <4>6, <3>2
    <3>4. CASE Head(tx).kind = "INIT"
      <4>1. sat' = [sat EXCEPT !.missing = 1..Fragments, !.got = {}]
            /\ rx' = Append(rx, DL!Answer("INIT")) /\ received' = received
        BY <2>3, <3>4 DEF DL!SatReceives
      <4>2. DL!Answer("INIT") \in Answers /\ DL!Answer("INIT").kind = "INIT"
        BY LineTypes DEF DL!Answer
      <4>3. rx' \in Seq(Answers) /\ \A p \in Elems(rx') : p \in Elems(rx) \/ p.kind = "INIT"
        BY <4>1, <4>2, <2>a
      <4>4. /\ sat' \in [file : Names, missing : SUBSET (1..Fragments),
                        got : SUBSET (1..Fragments), due : BOOLEAN, last : SUBSET Nat]
        BY <4>1
      <4> QED BY <4>1, <4>3, <4>4, <3>2
    <3>5. CASE Head(tx).kind = "FRAGMENT" /\ sat.file \in DL!File
      <4>1. /\ sat' = [sat EXCEPT !.got = @ \cup {Head(tx).fragment}, !.due = TRUE]
            /\ received' = [received EXCEPT ![sat.file] =
                              IF sat.file = Head(tx).file THEN @
                                \cup {Head(tx).fragment} ELSE @]
            /\ rx' = rx
        BY <2>3, <3>5 DEF DL!SatReceives
      <4>2. Head(tx).fragment \in 1..Fragments
        <5>1. Head(tx) \in Elems(tx) /\ Fragments \in Nat
          BY <2>3, ElemsOf DEF DL!SatReceives, DL!DownlinkAssumption
        <5> QED BY <3>1, <3>5, <5>1 DEF Packets
      <4> QED BY <4>1, <4>2, <3>2
    <3>6. CASE /\ Head(tx).kind \notin {"CREATE", "INIT"}
               /\ ~(Head(tx).kind = "FRAGMENT" /\ sat.file \in DL!File)
      BY <2>3, <3>6, <3>2 DEF DL!SatReceives
    <3> QED BY <3>3, <3>4, <3>5, <3>6
  <2>4. CASE DL!SatConfirms
    <3> DEFINE bits == {i \in DOMAIN DL!Burst(sat.missing) : DL!Burst(sat.missing)[i] \in sat.got}
    <3>1. bits \in SUBSET Nat
      <4>1. sat.missing \in SUBSET (1..Fragments)
        OBVIOUS
      <4>2. DL!Burst(sat.missing) \in Seq(sat.missing)
        BY <4>1, BurstLists
      <4>3. DOMAIN DL!Burst(sat.missing) = 1..Len(DL!Burst(sat.missing))
              /\ Len(DL!Burst(sat.missing)) \in Nat
        BY <4>2
      <4> QED BY <4>3
    <3>2. /\ rx' = Append(rx, [DL!Answer("CONFIRM") EXCEPT !.bits = bits])
          /\ sat' = [sat EXCEPT !.missing = @ \ sat.got, !.got = {}, !.due = FALSE,
               !.last = bits]
          /\ UNCHANGED <<unsent, received>>
      BY <2>4 DEF DL!SatConfirms
    <3> HIDE DEF bits
    <3>3. /\ [DL!Answer("CONFIRM") EXCEPT !.bits = bits] \in Answers
          /\ [DL!Answer("CONFIRM") EXCEPT !.bits = bits].kind = "CONFIRM"
      BY <3>1, LineTypes DEF DL!Answer
    <3> QED BY <3>1, <3>2, <3>3, <2>a
  <2>5. CASE DL!SatRepeats
    <3>1. /\ rx' = Append(rx, [DL!Answer("CONFIRM") EXCEPT !.bits = sat.last])
          /\ sat' = [sat EXCEPT !.last = DL!None] /\ UNCHANGED <<unsent, received>>
      BY <2>5 DEF DL!SatRepeats
    <3>2. /\ [DL!Answer("CONFIRM") EXCEPT !.bits = sat.last] \in Answers
          /\ [DL!Answer("CONFIRM") EXCEPT !.bits = sat.last].kind = "CONFIRM"
      BY LineTypes DEF DL!Answer
    <3>3. DL!None \in SUBSET Nat
      BY DEF DL!None
    <3> QED BY <3>1, <3>2, <3>3, <2>a
  <2>6. CASE DL!SatCommands
    <3>1. PICK e \in unsent : /\ unsent' = unsent \ {e}
                              /\ rx' = Append(rx,
                                   [DL!Answer("EXPERIMENT") EXCEPT !.experiment = e])
      BY <2>6 DEF DL!SatCommands
    <3>2. /\ [DL!Answer("EXPERIMENT") EXCEPT !.experiment = e] \in Answers
          /\ [DL!Answer("EXPERIMENT") EXCEPT !.experiment = e].experiment = e
      BY LineTypes DEF DL!Answer
    <3> QED BY <2>6, <3>1, <3>2, <2>a DEF DL!SatCommands
  <2>7. CASE DL!SatTurnsOff
    <3>1. rx' = Append(rx, DL!Answer("OFF")) /\ UNCHANGED <<unsent, received, sat>>
      BY <2>7 DEF DL!SatTurnsOff, DL!mainboard
    <3>2. DL!Answer("OFF") \in Answers /\ DL!Answer("OFF").kind = "OFF"
      BY LineTypes DEF DL!Answer
    <3> QED BY <3>1, <3>2, <2>a
  <2> QED BY <2>1, <2>2, <2>3, <2>4, <2>5, <2>6, <2>7 DEF DL!External
<1>5. \A p \in Elems(tx') : p.kind = "FRAGMENT" => p.fragment # 0
  BY <1>3 DEF DownlinkTyped
<1>6. DL!TypeOK'
  BY <1>1, <1>2, <1>4 DEF DownlinkTyped, DL!TypeOK
<1> QED BY <1>1, <1>3, <1>4, <1>5, <1>6 DEF DownlinkTyped, Elems

\* CommandThread.
LEMMA CommandTyped ==
  ASSUME DL!DownlinkAssumption, DownlinkTyped, DL!CommandThread
  PROVE  DownlinkTyped'
<1>1. UNCHANGED <<tx, losses, unsent, sat, received, pc, running, last_key, in_grace, file,
                  last_file, missing_fragments, batch, stalled_rounds, resends, confirm,
                  reported, sent_set, shows>>
  BY DEF DL!CommandThread, DL!dispatch_ack, DL!_handle_experiment,
         DL!_handle_update_last_batch, DL!SetUpdate, DL!_handle_turn_off_payload,
         DL!_drain_tx_then_shutdown, DL!Taken, DL!line, DL!mainboard, DL!thread,
         DL!transaction, DL!thumbnails
<1>2. rx' = rx \/ (rx # <<>> /\ rx' = Tail(rx))
  <2>1. CASE DL!dispatch_ack \/ DL!_handle_experiment
    BY <2>1 DEF DL!dispatch_ack, DL!_handle_experiment, DL!Taken, DL!Handling
  <2>2. CASE DL!_handle_update_last_batch \/ DL!_handle_turn_off_payload
    BY <2>2 DEF DL!_handle_update_last_batch, DL!_handle_turn_off_payload, DL!Taken,
         DL!Handling
  <2>3. CASE DL!SetUpdate \/ DL!_drain_tx_then_shutdown
    BY <2>3 DEF DL!SetUpdate, DL!_drain_tx_then_shutdown, DL!line
  <2> QED BY <2>1, <2>2, <2>3 DEF DL!CommandThread
<1>3. rx' \in Seq(Answers) /\ Elems(rx') \subseteq Elems(rx)
  <2>1. rx # <<>> => Tail(rx) \in Seq(Answers) /\ Elems(Tail(rx)) \subseteq Elems(rx)
    BY ElemsOf DEF DownlinkTyped
  <2>2. rx \in Seq(Answers)
    BY DEF DownlinkTyped
  <2> QED BY <1>2, <2>1, <2>2
<1>4. rx # <<>> => Head(rx) \in Elems(rx) /\ Head(rx) \in Answers
  BY ElemsOf DEF DownlinkTyped
<1> USE DEF DL!CommandThread, DL!dispatch_ack, DL!_handle_experiment,
            DL!_handle_update_last_batch, DL!SetUpdate, DL!_handle_turn_off_payload,
            DL!_drain_tx_then_shutdown, DL!Handling, DL!Taken
<1>5. experiment_queue' \in Seq(Experiments)
  <2>1. CASE DL!_handle_experiment
    <3>1. Head(rx).experiment \in Experiments
      BY <2>1, <1>4 DEF DownlinkTyped
    <3> QED BY <2>1, <3>1, ElemsOf DEF DownlinkTyped, DL!TypeOK
  <2>2. CASE ~DL!_handle_experiment
    BY <2>2 DEF DL!shared, DownlinkTyped, DL!TypeOK
  <2> QED BY <2>1, <2>2
<1>6. update_data' \in SUBSET Nat
  <2>1. update_data' = update_data \/ (rx # <<>> /\ update_data' = Head(rx).bits)
    BY DEF DL!events
  <2> QED BY <2>1, <1>4 DEF DownlinkTyped, Answers
<1>7. ack_event' \in [{"CREATE", "INIT"} -> BOOLEAN]
  BY DEF DownlinkTyped, DL!events
<1>8. update_event' \in BOOLEAN /\ stop_event' \in BOOLEAN
  BY DEF DownlinkTyped, DL!events, DL!shared
<1>9. /\ handling' \in {"none", "update", "drain"}
      /\ payload_state' \in {"IDLE", "TURNING_ON", "CAPTURING", "DOWNSCALING", "INFERENCE",
                       "DOWNLOAD", "FAIL", "OFF"}
  BY DEF DownlinkTyped, DL!TypeOK, DL!events, DL!shared
<1> QED BY <1>1, <1>3, <1>5, <1>6, <1>7, <1>8, <1>9 DEF DownlinkTyped, DL!TypeOK, Elems

\* ExperimentThread when an experiment is over.
LEMMA OverTyped ==
  ASSUME DL!DownlinkAssumption, DownlinkTyped, NEW next \in {"idle", "dead"}, DL!Over(next),
         UNCHANGED <<unsent, sat, received, rx, losses, experiment_queue, stop_event,
                     handling, ack_event, shows>>,
         tx' = tx \/ \E kind \in {"EXPERIMENT_FINISHED", "DOWNLOAD_FINISH"} :
                       tx' = Append(tx, DL!Packet(kind)),
         payload_state' \in {payload_state, "IDLE", "FAIL"},
         update_event' \in BOOLEAN, update_data' = update_data,
         reported' \subseteq DL!File, sent_set' \subseteq 1..Shown
  PROVE  DownlinkTyped'
<1>1. tx' \in Seq(Packets) /\ \A p \in Elems(tx') : p.kind = "FRAGMENT" => p.fragment # 0
  <2>1. ASSUME NEW kind \in {"EXPERIMENT_FINISHED", "DOWNLOAD_FINISH"},
               tx' = Append(tx, DL!Packet(kind))
        PROVE  tx' \in Seq(Packets) /\ Elems(tx') = Elems(tx) \cup {DL!Packet(kind)}
    BY <2>1, ElemsOf, LineTypes DEF DownlinkTyped
  <2>2. \A kind : DL!Packet(kind).kind = kind
    BY DEF DL!Packet
  <2>3. CASE tx' = tx
    BY <2>3 DEF DownlinkTyped
  <2> QED BY <2>1, <2>2, <2>3 DEF DownlinkTyped
<1>2. /\ running' = "none" /\ file' = 0 /\ last_file' = 0 /\ pc' \in {"idle", "dead"}
      /\ missing_fragments' = {} /\ batch' = <<>> /\ stalled_rounds' = 0 /\ resends' = 0
      /\ confirm' = DL!None
  BY DEF DL!Over
<1>3. /\ batch' \in Seq(1..Fragments) /\ confirm' \in SUBSET Nat
      /\ file' \in 0..Files /\ last_file' \in 0..Files
      /\ stalled_rounds' \in 0..max_stalled_rounds
      /\ missing_fragments' \subseteq 1..Fragments /\ running' \in Experiments \cup {"none"}
  BY <1>2 DEF DL!None, DL!DownlinkAssumption
<1>4. payload_state' \in {"IDLE", "TURNING_ON", "CAPTURING", "DOWNSCALING", "INFERENCE",
                          "DOWNLOAD", "FAIL", "OFF"}
  BY DEF DownlinkTyped, DL!TypeOK
<1>5. DL!TypeOK'
  BY <1>2, <1>3, <1>4 DEF DownlinkTyped, DL!TypeOK
<1>6. \A p \in Elems(rx') : p.kind = "EXPERIMENT" => p.experiment \in Experiments
  BY DEF DownlinkTyped
<1>7. /\ pc' \notin Running \cup Sending \cup {"mark"}
  BY <1>2 DEF Running, Sending, Clearing, Opened
<1> QED BY <1>1, <1>2, <1>3, <1>5, <1>6, <1>7 DEF DownlinkTyped, Elems

LEMMA InitTyped == ASSUME DL!DownlinkAssumption, DL!Init PROVE DownlinkTyped
<1>1. DL!TypeOK
  BY DEF DL!Init, DL!TypeOK, DL!DownlinkAssumption, DL!Awaits
<1>2. sat \in [file : Names, missing : SUBSET (1..Fragments), got : SUBSET (1..Fragments),
               due : BOOLEAN, last : SUBSET Nat]
  BY DEF DL!Init, DL!Closed, DL!None, Names, DL!DownlinkAssumption
<1>3. /\ tx \in Seq(Packets) /\ rx \in Seq(Answers) /\ Elems(tx) = {} /\ Elems(rx) = {}
      /\ batch \in Seq(1..Fragments)
  BY DEF DL!Init, Elems
<1>4. pc \notin Running \cup Sending \cup {"mark"}
  BY DEF DL!Init, Running, Sending, Clearing, Opened
<1>5. /\ stop_event \in BOOLEAN /\ update_event \in BOOLEAN
      /\ ack_event \in [{"CREATE", "INIT"} -> BOOLEAN]
  BY DEF DL!Init
<1>6. update_data \in SUBSET Nat /\ confirm \in SUBSET Nat
  BY DEF DL!Init, DL!None
<1>7. last_file \in 0..Files
  BY DEF DL!Init, DL!DownlinkAssumption
<1> QED BY <1>1, <1>2, <1>3, <1>4, <1>5, <1>6, <1>7 DEF DownlinkTyped

\* ... and when it fails or ends in another way.
LEMMA EndsTyped ==
  ASSUME DL!DownlinkAssumption, DownlinkTyped, Thumbnails,
         \/ DL!UnknownMode \/ DL!NoCameras \/ DL!BinaryFails \/ DL!ODFindsNothing
              \/ DL!Raises \/ DL!Marks
         \/ DL!FileNotFound \/ DL!Stops \/ DL!ConfirmTimesOut \/ DL!Stalls
         \/ \E kind \in {"CREATE", "INIT"} : DL!AckTimesOut(kind)
  PROVE  DownlinkTyped'
<1>t. update_event \in BOOLEAN /\ reported \subseteq DL!File /\ sent_set \subseteq 1..Shown
  BY DEF DownlinkTyped, DL!TypeOK
<1>1. CASE DL!UnknownMode \/ DL!NoCameras
  BY <1>1, <1>t, OverTyped DEF DL!UnknownMode, DL!NoCameras, DL!Ran, DL!Stays, DL!Silent,
       DL!events, DL!mainboard
<1>2. CASE DL!BinaryFails \/ DL!ODFindsNothing
  BY <1>2, <1>t, OverTyped DEF DL!BinaryFails, DL!ODFindsNothing, DL!Fails, DL!Ran,
       DL!Silent, DL!events, DL!mainboard
<1>3. CASE DL!Raises
  BY <1>3, <1>t, OverTyped DEF DL!Raises, DL!Fails, DL!Ran, DL!Stays, DL!Silent,
       DL!events, DL!mainboard
<1>4. CASE DL!Marks
  <2>1. DL!Over("idle") /\ UNCHANGED <<DL!line, DL!mainboard, DL!shared, DL!events,
          handling, reported, shows>>
    BY <1>4 DEF DL!Marks
  <2>2. sent_set' \subseteq 1..Shown
    <3>1. \A k \in 2..last_file : shows[<<running, k>>] \in 1..Shown
      BY <1>4 DEF DL!Marks, Thumbnails
    <3> DEFINE new == {shows[<<running, k>>] : k \in 2..last_file}
    <3>2. new \subseteq 1..Shown
      BY <3>1
    <3>3. sent_set' \in {sent_set \cup new, new, sent_set, {}}
      BY <1>4 DEF DL!Marks
    <3> HIDE DEF new
    <3> QED BY <1>t, <3>2, <3>3
  <2> QED BY <2>1, <2>2, <1>t, OverTyped DEF DL!line, DL!mainboard, DL!shared, DL!events
<1>5. CASE DL!FileNotFound \/ DL!Stops \/ DL!ConfirmTimesOut
  BY <1>5, <1>t, OverTyped
    DEF DL!FileNotFound, DL!Stops, DL!ConfirmTimesOut, DL!Fails, DL!Here, DL!line,
         DL!events, DL!mainboard, DL!thumbnails
<1>6. CASE DL!Stalls
  BY <1>6, <1>t, OverTyped DEF DL!Stalls, DL!Fails, DL!Here, DL!line, DL!events,
       DL!mainboard, DL!thumbnails
<1>7. CASE \E kind \in {"CREATE", "INIT"} : DL!AckTimesOut(kind)
  BY <1>7, <1>t, OverTyped DEF DL!AckTimesOut, DL!Fails, DL!Here, DL!line, DL!events,
       DL!mainboard, DL!thumbnails
<1> QED BY <1>1, <1>2, <1>3, <1>4, <1>5, <1>6, <1>7

\* ... while it takes and runs an experiment.
LEMMA RunsTyped ==
  ASSUME DL!DownlinkAssumption, DownlinkTyped,
         \/ DL!SkipsDuplicate \/ DL!TakesExperiment
         \/ DL!StartsCameras \/ DL!Captures \/ DL!_downscale_images \/ DL!_run_inference
              \/ DL!CallsBinary
  PROVE  DownlinkTyped'
<1>1. CASE DL!SkipsDuplicate \/ DL!TakesExperiment
  <2>1. /\ UNCHANGED <<tx, rx, losses, unsent, sat, received, stop_event, payload_state,
                       ack_event, update_event, update_data, handling, file, last_file,
                       missing_fragments, batch, stalled_rounds, resends, confirm, reported,
                       sent_set, shows>>
        /\ experiment_queue # <<>> /\ experiment_queue' = Tail(experiment_queue)
    BY <1>1 DEF DL!SkipsDuplicate, DL!TakesExperiment, DL!line, DL!mainboard, DL!events,
         DL!transaction, DL!thumbnails
  <2>2. \/ running' = running /\ pc' = pc
        \/ running' = Head(experiment_queue) /\ pc' = "run"
    BY <1>1 DEF DL!SkipsDuplicate, DL!TakesExperiment, DL!thread
  <2>3. /\ Head(experiment_queue) \in Experiments
        /\ Tail(experiment_queue) \in Seq(Experiments)
    BY <2>1 DEF DownlinkTyped, DL!TypeOK
  <2>4. "run" \notin Sending \cup {"mark"}
    BY DEF Sending, Clearing, Opened
  <2>5. DL!TypeOK'
    BY <2>1, <2>2, <2>3 DEF DownlinkTyped, DL!TypeOK
  <2> QED BY <2>1, <2>2, <2>3, <2>4, <2>5 DEF DownlinkTyped, Elems
<1>2. CASE DL!StartsCameras \/ DL!Captures \/ DL!_downscale_images \/ DL!_run_inference
             \/ DL!CallsBinary
  <2>1. UNCHANGED <<tx, rx, losses, unsent, sat, received, stop_event, experiment_queue,
                       ack_event, update_event, update_data, handling, running, file, last_file,
                       missing_fragments, batch, stalled_rounds, resends, confirm, reported,
                       sent_set, shows>>
    BY <1>2 DEF DL!StartsCameras, DL!Captures, DL!_downscale_images, DL!_run_inference,
                DL!CallsBinary, DL!Step, DL!Ran, DL!events, DL!mainboard, DL!thread,
                DL!transaction
  <2>2. pc \in Running /\ pc' \in Running
    BY <1>2 DEF DL!StartsCameras, DL!Captures, DL!_downscale_images, DL!_run_inference,
                DL!CallsBinary, DL!Step, DL!Ran, Running
  <2>3. payload_state' \in {"TURNING_ON", "CAPTURING", "DOWNSCALING", "INFERENCE"}
    BY <1>2 DEF DL!StartsCameras, DL!Captures, DL!_downscale_images, DL!_run_inference,
         DL!CallsBinary, DL!Step
  <2>4. \A p \in Running : p \notin Sending \cup {"mark"}
    BY DEF Running, Sending, Clearing, Opened
  <2>5. DL!TypeOK'
    BY <2>1, <2>2, <2>3 DEF DownlinkTyped, DL!TypeOK, Running
  <2> QED BY <2>1, <2>2, <2>4, <2>5 DEF DownlinkTyped, Elems
<1> QED BY <1>1, <1>2

\* The images of thumbnails, which are as many as there are files after the first.
LEMMA ThumbnailLists ==
  ASSUME DL!DownlinkAssumption, DownlinkTyped, NEW thumbs \in DL!_generate_thumbnails
  PROVE  /\ thumbs \in Seq(1..Shown) /\ Len(thumbs) \in 0..Files - 1
         /\ Runner[running] # "processing" => thumbs = <<>>
<1>1. CASE Runner[running] # "processing"
  <2>1. thumbs = <<>>
    BY <1>1 DEF DL!_generate_thumbnails
  <2> QED BY <1>1, <2>1 DEF DL!DownlinkAssumption
<1>2. CASE Runner[running] = "processing"
  <2>1. PICK chosen \in SUBSET (1..Shown \ sent_set) :
               DL!Cardinality(chosen) < Files /\ thumbs = DL!Sorted(chosen)
    BY <1>2 DEF DL!_generate_thumbnails
  <2>2. /\ DL!Cardinality(chosen) \in Nat
        /\ DL!Sorted(chosen) \in Seq(chosen) /\ Len(DL!Sorted(chosen)) = DL!Cardinality(chosen)
    BY DownlinkSortedLists DEF DL!DownlinkAssumption
  <2>3. thumbs \in Seq(1..Shown)
    <3>1. thumbs \in Seq(chosen) /\ chosen \subseteq 1..Shown
      BY <2>1, <2>2
    <3> QED BY <3>1, ListOf
  <2>4. Len(thumbs) \in 0..Files - 1
    BY <2>1, <2>2 DEF DL!DownlinkAssumption
  <2> QED BY <1>2, <2>3, <2>4
<1> QED BY <1>1, <1>2

LEMMA FinishesTyped ==
  ASSUME DL!DownlinkAssumption, DownlinkTyped, DL!RunnerFinishes
  PROVE  DownlinkTyped'
<1>1. /\ UNCHANGED <<rx, losses, unsent, sat, received, stop_event, experiment_queue,
                     ack_event, update_event, update_data, handling, running,
                     missing_fragments, batch, stalled_rounds, resends, confirm, reported,
                     sent_set>>
      /\ tx' = <<DL!Packet("EXPERIMENT_FINISHED")>> /\ payload_state' = "DOWNLOAD"
      /\ file' = 1 /\ pc' = "send" /\ pc \in Running
  BY DEF DL!RunnerFinishes, DL!Ran, DL!events, DL!mainboard, DL!thread, DL!transaction,
       Running
<1>2. tx' \in Seq(Packets) /\ \A p \in Elems(tx') : p.kind # "FRAGMENT"
  <2>1. DL!Packet("EXPERIMENT_FINISHED") \in Packets
          /\ DL!Packet("EXPERIMENT_FINISHED").kind # "FRAGMENT"
    BY LineTypes DEF DL!Packet
  <2> QED BY <1>1, <2>1 DEF Elems
<1>3. PICK thumbs \in DL!_generate_thumbnails :
        /\ shows' = [f \in DL!File |-> IF f[1] = running /\ f[2] - 1 \in DOMAIN thumbs
                                    THEN thumbs[f[2] - 1] ELSE shows[f]]
        /\ last_file' \in IF Runner[running] = "processing" THEN {1 + Len(thumbs)} ELSE 1..Files
  BY DEF DL!RunnerFinishes
<1>4. thumbs \in Seq(1..Shown) /\ Len(thumbs) \in 0..Files - 1
  BY ThumbnailLists
<1>5. last_file' \in 1..Files
  BY <1>3, <1>4 DEF DL!DownlinkAssumption
<1>6. shows' \in [DL!File -> 0..Shown]
  <2>1. shows \in [DL!File -> 0..Shown] /\ 1..Shown \subseteq 0..Shown
    BY DEF DownlinkTyped, DL!TypeOK, DL!DownlinkAssumption
  <2>2. \A n \in DOMAIN thumbs : thumbs[n] \in 0..Shown
    <3>1. DOMAIN thumbs = 1..Len(thumbs) /\ \A n \in 1..Len(thumbs) : thumbs[n] \in 1..Shown
      BY <1>4, ListOf
    <3> QED BY <2>1, <3>1
  <2> QED BY <1>3, <2>1, <2>2
<1>7. running \in Experiments /\ 1 \in 1..last_file' /\ 1 \in 0..Files
  BY <1>1, <1>5 DEF DownlinkTyped, DL!DownlinkAssumption
<1>8. DL!TypeOK'
  BY <1>1, <1>6, <1>7 DEF DownlinkTyped, DL!TypeOK
<1> QED BY <1>1, <1>2, <1>5, <1>7, <1>8 DEF DownlinkTyped, Elems, DL!DownlinkAssumption

\* ... and while it sends a file.
LEMMA SendsTyped ==
  ASSUME DL!DownlinkAssumption, DownlinkTyped,
         \/ DL!ClearData \/ DL!ClearEvent \/ DL!SendsBurst \/ DL!TakesConfirm
              \/ DL!NothingTaken \/ DL!SendsOn
         \/ \E kind \in {"CREATE", "INIT"} : DL!Sends(kind) \/ DL!Acked(kind)
              \/ DL!SendsAgain(kind)
  PROVE  DownlinkTyped'
<1>1. /\ UNCHANGED <<rx, losses, unsent, sat, received, stop_event, experiment_queue,
                     payload_state, handling, running, file, last_file, reported, sent_set,
                       shows>>
      /\ pc \in Sending /\ pc' \in Sending
  <2>1. CASE DL!ClearData \/ DL!ClearEvent \/ DL!SendsBurst \/ DL!TakesConfirm
               \/ DL!NothingTaken \/ DL!SendsOn
    BY <2>1 DEF DL!ClearData, DL!ClearEvent, DL!SendsBurst, DL!TakesConfirm,
                DL!NothingTaken, DL!SendsOn, DL!Here, DL!line, DL!mainboard, DL!thread,
                DL!thumbnails, Sending, Clearing, Opened
  <2>2. CASE \E kind \in {"CREATE", "INIT"} : DL!Sends(kind) \/ DL!Acked(kind)
               \/ DL!SendsAgain(kind)
    BY <2>2 DEF DL!Sends, DL!Acked, DL!SendsAgain, DL!Await, DL!After, DL!Here,
                DL!line, DL!mainboard, DL!thread, DL!thumbnails, Sending, Clearing, Opened
  <2> QED BY <2>1, <2>2
<1>2. tx' \in Seq(Packets) /\ \A p \in Elems(tx') : p.kind = "FRAGMENT" => p.fragment # 0
  <2>0. tx \in Seq(Packets) /\ \A p \in Elems(tx) : p.kind = "FRAGMENT" => p.fragment # 0
    BY DEF DownlinkTyped
  <2>1. CASE DL!ClearData \/ DL!ClearEvent \/ DL!TakesConfirm \/ DL!NothingTaken \/ DL!SendsOn
             \/ \E kind \in {"CREATE", "INIT"} : DL!Acked(kind)
    BY <2>0, <2>1 DEF DL!ClearData, DL!ClearEvent, DL!TakesConfirm, DL!NothingTaken,
         DL!SendsOn, DL!Acked, DL!line
  <2>2. ASSUME NEW kind \in {"CREATE", "INIT"}, DL!Sends(kind) \/ DL!SendsAgain(kind)
        PROVE  tx' \in Seq(Packets) /\ \A p \in Elems(tx') : p.kind = "FRAGMENT"
               => p.fragment # 0
    <3>1. tx' = Append(tx, DL!Packet(kind)) /\ DL!Packet(kind) \in Packets
            /\ DL!Packet(kind).kind = kind
      BY <2>2, LineTypes DEF DL!Sends, DL!SendsAgain, DL!Packet
    <3> QED BY <2>0, <3>1, ElemsOf
  <2>3. CASE DL!SendsBurst
    <3> DEFINE fragments == [i \in DOMAIN batch' |-> DL!Fragment(batch'[i])]
    <3>1. tx' = tx \o fragments /\ batch' = DL!Burst(missing_fragments)
      BY <2>3 DEF DL!SendsBurst
    <3>2. batch' \in Seq(missing_fragments) /\ missing_fragments \subseteq 1..Fragments
      BY <3>1, BurstLists DEF DownlinkTyped, DL!TypeOK
    <3>3. /\ Len(batch') \in Nat /\ DOMAIN batch' = 1..Len(batch')
          /\ \A i \in 1..Len(batch') : batch'[i] \in 1..Fragments
      BY <3>2, ListOf
    <3>4. \A i \in 1..Len(batch') : fragments[i] \in Packets /\ fragments[i].fragment # 0
      BY <3>3, LineTypes DEF DL!Fragment
    <3>5. fragments \in Seq(Packets)
      BY <3>3, <3>4
    <3>6. \A p \in Elems(fragments) : p.fragment # 0
      BY <3>3, <3>4 DEF Elems
    <3> HIDE DEF fragments
    <3>7. tx' \in Seq(Packets) /\ Elems(tx') = Elems(tx) \cup Elems(fragments)
      BY <2>0, <3>1, <3>5, ElemsOfBoth
    <3> QED BY <2>0, <3>6, <3>7
  <2> QED BY <2>1, <2>2, <2>3
<1>3. missing_fragments' \subseteq 1..Fragments /\ stalled_rounds' \in 0..max_stalled_rounds
  <2>1. missing_fragments \subseteq 1..Fragments /\ stalled_rounds \in 0..max_stalled_rounds
        /\ max_stalled_rounds \in Nat \ {0}
    BY DEF DownlinkTyped, DL!TypeOK, DL!DownlinkAssumption
  <2>2. CASE DL!ClearData
    BY <2>1, <2>2 DEF DL!ClearData
  <2>3. CASE DL!SendsOn
    <3>1. missing_fragments' = missing_fragments \ DL!Confirmed
          /\ stalled_rounds' \in {stalled_rounds + 1, 0} /\ stalled_rounds' < max_stalled_rounds
      BY <2>3 DEF DL!SendsOn, DL!Left
    <3>2. stalled_rounds \in Nat /\ stalled_rounds' \in 0..max_stalled_rounds
      BY <2>1, <3>1
    <3> QED BY <2>1, <3>1, <3>2
  <2>4. CASE ~DL!ClearData /\ ~DL!SendsOn
    BY <2>1, <2>4 DEF DL!ClearEvent, DL!SendsBurst, DL!TakesConfirm, DL!NothingTaken,
                      DL!Sends, DL!Acked, DL!SendsAgain, DL!transaction
  <2> QED BY <2>2, <2>3, <2>4
<1>4. batch' \in Seq(1..Fragments)
  <2>1. CASE DL!SendsBurst
    <3>1. batch' \in Seq(missing_fragments) /\ missing_fragments \subseteq 1..Fragments
      BY <2>1, BurstLists DEF DL!SendsBurst, DownlinkTyped, DL!TypeOK
    <3> QED BY <3>1, ListOf
  <2>2. CASE ~DL!SendsBurst
    <3>1. batch' = batch \/ batch' = <<>>
      BY <2>2 DEF DL!ClearData, DL!ClearEvent, DL!TakesConfirm, DL!NothingTaken,
                  DL!SendsOn, DL!Sends, DL!Acked, DL!SendsAgain, DL!transaction
    <3>2. batch \in Seq(1..Fragments)
      BY DEF DownlinkTyped
    <3>3. <<>> \in Seq(1..Fragments)
      OBVIOUS
    <3> QED BY <3>1, <3>2, <3>3
  <2> QED BY <2>1, <2>2
<1>5. confirm' \in SUBSET Nat /\ update_data' \in SUBSET Nat
  <2>1. DL!None \in SUBSET Nat /\ confirm \in SUBSET Nat /\ update_data \in SUBSET Nat
    BY DEF DL!None, DownlinkTyped
  <2> QED BY <2>1 DEF DL!ClearData, DL!ClearEvent, DL!SendsBurst, DL!TakesConfirm,
                DL!NothingTaken, DL!SendsOn, DL!Sends, DL!Acked, DL!SendsAgain,
                DL!transaction, DL!events
<1>6. update_event' \in BOOLEAN
  BY DEF DL!ClearData, DL!ClearEvent, DL!SendsBurst, DL!TakesConfirm, DL!NothingTaken,
         DL!SendsOn, DL!Sends, DL!Acked, DL!SendsAgain, DL!events, DownlinkTyped
<1>7. ack_event' \in [{"CREATE", "INIT"} -> BOOLEAN]
  BY DEF DL!ClearData, DL!ClearEvent, DL!SendsBurst, DL!TakesConfirm, DL!NothingTaken,
         DL!SendsOn, DL!Sends, DL!Acked, DL!SendsAgain, DL!events, DownlinkTyped
<1>8. DL!TypeOK'
  <2>1. pc' \in {"send", "clear", "CREATE", "INIT", "burst", "confirm"} \cup DL!Awaits
    BY <1>1 DEF Sending, Clearing, Opened, DL!Awaits
  <2> QED BY <1>1, <1>3, <2>1 DEF DownlinkTyped, DL!TypeOK
<1>9. "mark" \notin Sending /\ \A p \in Running : p \notin Sending
  BY DEF Running, Sending, Clearing, Opened
<1> QED BY <1>1, <1>2, <1>4, <1>5, <1>6, <1>7, <1>8, <1>9 DEF DownlinkTyped, Elems

LEMMA SucceedsTyped ==
  ASSUME DL!DownlinkAssumption, DownlinkTyped, DL!Succeeds
  PROVE  DownlinkTyped'
<1>1. /\ UNCHANGED <<rx, losses, unsent, sat, received, stop_event, experiment_queue,
                     ack_event, update_data, handling, sent_set, shows>>
      /\ pc = "confirm" /\ update_event' = FALSE /\ reported' = reported \cup {DL!ThisFile}
  BY DEF DL!Succeeds, DL!Here, DL!mainboard, DL!thumbnails
<1>2. running \in Experiments /\ file \in 1..last_file /\ last_file \in 0..Files
        /\ Files \in Nat
  BY <1>1 DEF DownlinkTyped, Sending, Opened, DL!DownlinkAssumption
<1>3. reported' \subseteq DL!File
  BY <1>1, <1>2 DEF DownlinkTyped, DL!TypeOK, DL!File, DL!ThisFile
<1>4. CASE file < last_file /\ file' = file + 1 /\ pc' = "send"
           /\ missing_fragments' = {} /\ batch' = <<>> /\ stalled_rounds' = 0 /\ resends' = 0
           /\ confirm' = DL!None /\ UNCHANGED <<tx, DL!thread, last_file, payload_state>>
  <2>1. file' \in 1..last_file /\ file' \in 0..Files
          /\ stalled_rounds' \in 0..max_stalled_rounds
        /\ batch' \in Seq(1..Fragments) /\ confirm' \in SUBSET Nat
    BY <1>2, <1>4 DEF DL!None, DL!DownlinkAssumption
  <2>2. DL!TypeOK'
    BY <1>1, <1>3, <1>4, <2>1 DEF DownlinkTyped, DL!TypeOK, DL!thread
  <2> QED BY <1>1, <1>2, <1>4, <2>1, <2>2 DEF DownlinkTyped, Elems, DL!thread
<1>5. CASE /\ tx' = Append(tx, DL!Packet("DOWNLOAD_FINISH"))
           /\ payload_state' \in {payload_state, "FAIL"}
           /\ pc' = "mark" /\ UNCHANGED <<DL!thread, file, last_file, DL!transaction>>
  <2>1. tx' \in Seq(Packets) /\ \A p \in Elems(tx') : p.kind = "FRAGMENT" => p.fragment # 0
    <3>1. /\ DL!Packet("DOWNLOAD_FINISH") \in Packets
          /\ DL!Packet("DOWNLOAD_FINISH").kind = "DOWNLOAD_FINISH"
      BY LineTypes DEF DL!Packet
    <3> QED BY <1>5, <3>1, ElemsOf DEF DownlinkTyped
  <2>2. DL!TypeOK'
    BY <1>1, <1>3, <1>5 DEF DownlinkTyped, DL!TypeOK, DL!thread, DL!transaction
  <2> QED BY <1>1, <1>2, <1>5, <2>1, <2>2 DEF DownlinkTyped, Elems, DL!thread,
       DL!transaction
<1>6. CASE /\ tx' = Append(tx, DL!Packet("DOWNLOAD_FINISH"))
           /\ payload_state' \in {payload_state, "FAIL"}
           /\ DL!Over("idle")
  BY <1>1, <1>3, <1>6, OverTyped DEF DownlinkTyped, DL!TypeOK
<1> QED BY <1>4, <1>5, <1>6 DEF DL!Succeeds

LEMMA TypedNext ==
  ASSUME DL!DownlinkAssumption, DownlinkTyped, Thumbnails, [DL!Next]_(DL!vars)
  PROVE  DownlinkTyped'
<1>1. CASE DL!ExperimentThread
  BY <1>1, EndsTyped, RunsTyped, FinishesTyped, SendsTyped, SucceedsTyped
    DEF DL!ExperimentThread
<1>2. CASE DL!GraceEnds \/ UNCHANGED DL!vars
  <2>1. UNCHANGED <<tx, rx, losses, unsent, sat, received, stop_event, experiment_queue,
                    payload_state, ack_event, update_event, update_data, handling, pc, running,
                    file, last_file, missing_fragments, batch, stalled_rounds, resends, confirm,
                    reported, sent_set, shows>>
    BY <1>2 DEF DL!GraceEnds, DL!vars, DL!line, DL!mainboard, DL!shared, DL!events,
         DL!thread, DL!transaction, DL!thumbnails
  <2> QED BY <2>1 DEF DownlinkTyped, DL!TypeOK, Elems
<1> QED BY <1>1, <1>2, ExternalTyped, CommandTyped DEF DL!Next

-----------------------------------------------------------------------------
(* The protocol *)

LEMMA RxTail ==
  ASSUME DownlinkTyped, rx # <<>>, rx' = Tail(rx)
  PROVE  /\ Head(rx) \in Elems(rx) /\ Head(rx) \in Answers
         /\ Elems(rx') \subseteq Elems(rx)
         /\ \A kinds : NoRx(kinds) => NoRx(kinds)'
         /\ DownlinkInOrder(rx) => DownlinkInOrder(rx')
         /\ DownlinkInOrder(rx) /\ Head(rx).kind = "CONFIRM"
              => NoRx({"CREATE", "INIT", "CONFIRM"})'
<1>1. rx \in Seq(Answers)
  BY DEF DownlinkTyped
<1>2. /\ Head(rx) \in Elems(rx) /\ Elems(rx) \subseteq Answers
      /\ Elems(rx') \subseteq Elems(rx)
  BY <1>1, ElemsOf
<1>3. /\ DownlinkInOrder(rx) => DownlinkInOrder(rx')
      /\ DownlinkInOrder(rx) /\ Head(rx).kind = "CONFIRM" =>
           \A p \in Elems(rx') : p.kind \notin {"CREATE", "INIT", "CONFIRM"}
  BY <1>1, InOrderOf
<1> QED BY <1>2, <1>3 DEF NoRx

LEMMA RxAppend ==
  ASSUME DownlinkTyped, NEW a \in Answers, rx' = Append(rx, a)
  PROVE  /\ Elems(rx') = Elems(rx) \cup {a}
         /\ \A kinds : NoRx(kinds)' <=> NoRx(kinds) /\ a.kind \notin kinds
         /\ DownlinkInOrder(rx) /\ a.kind \notin {"CREATE", "INIT", "CONFIRM"}
              => DownlinkInOrder(rx')
         /\ DownlinkInOrder(rx) /\ NoRx({"CONFIRM"}) => DownlinkInOrder(rx')
<1>1. rx \in Seq(Answers)
  BY DEF DownlinkTyped
<1>2. Elems(rx') = Elems(rx) \cup {a}
  BY <1>1, ElemsOf
<1>3. /\ DownlinkInOrder(rx) /\ a.kind \notin {"CREATE", "INIT", "CONFIRM"}
           => DownlinkInOrder(rx')
      /\ DownlinkInOrder(rx) /\ NoRx({"CONFIRM"}) => DownlinkInOrder(rx')
  BY <1>1, InOrderOf DEF NoRx
<1> QED BY <1>2, <1>3 DEF NoRx

LEMMA TxTail ==
  ASSUME DownlinkTyped, tx # <<>>, tx' = Tail(tx)
  PROVE  /\ Head(tx) \in Elems(tx) /\ Head(tx) \in Packets
         /\ Elems(tx') \subseteq Elems(tx)
         /\ \A kinds : NoTx(kinds) => NoTx(kinds)'
         /\ \A kinds : NoTx(kinds) => Head(tx).kind \notin kinds
<1>1. tx \in Seq(Packets)
  BY DEF DownlinkTyped
<1>2. /\ Head(tx) \in Elems(tx) /\ Elems(tx) \subseteq Packets
      /\ Elems(tx') \subseteq Elems(tx)
  BY <1>1, ElemsOf
<1> QED BY <1>2 DEF NoTx

LEMMA TxAppend ==
  ASSUME DownlinkTyped, NEW p \in Packets, tx' = Append(tx, p)
  PROVE  /\ Elems(tx') = Elems(tx) \cup {p}
         /\ \A kinds : NoTx(kinds)' <=> NoTx(kinds) /\ p.kind \notin kinds
<1>1. tx \in Seq(Packets)
  BY DEF DownlinkTyped
<1>2. Elems(tx') = Elems(tx) \cup {p}
  BY <1>1, ElemsOf
<1> QED BY <1>2 DEF NoTx

\* Nothing is said of a thread that does not send.
LEMMA Aside ==
  ASSUME pc' \notin Sending
  PROVE  Protocol'
<1>1. /\ pc' \notin Clearing \cup Opened \cup Fresh /\ pc' # "await_CREATE" /\ pc' # "burst"
      /\ pc' # "await_confirm" /\ pc' # "confirm" /\ pc' # "CREATE"
  BY DEF Sending, Clearing, Opened, Fresh
<1>2. Before'
  BY <1>1 DEF Before, Clearing, Opened, Fresh
<1>3. OwnFile'
  BY <1>1 DEF OwnFile, Created
<1>4. Waiting' /\ Taking' /\ Had'
  BY <1>1 DEF Waiting, Taking, Had
<1> QED BY <1>2, <1>3, <1>4 DEF Protocol

\* What a confirmation says does not change while nothing arrives or is confirmed.
LEMMA TruthKept ==
  ASSUME UNCHANGED <<batch, running, file, missing_fragments, received>>,
         sat'.missing = sat.missing
  PROVE  \A bits : Truthful(bits)' <=> Truthful(bits)
  BY DEF Truthful, InBurst, DL!ThisFile

LEMMA LosesTx ==
  ASSUME DL!DownlinkAssumption, DownlinkTyped, Protocol, DL!LoseTx
  PROVE  Protocol'
<1>1. /\ tx # <<>> /\ tx' = Tail(tx)
      /\ sat' = [sat EXCEPT !.due = @ \/ Head(tx).kind = "FRAGMENT"]
      /\ UNCHANGED <<rx, received, ack_event, update_event, update_data, handling, pc,
           running, file,
                     missing_fragments, batch, confirm>>
  BY DEF DL!LoseTx, DL!events, DL!thread, DL!transaction
<1>2. /\ sat'.file = sat.file /\ sat'.missing = sat.missing /\ sat'.got = sat.got
      /\ sat'.due => sat.due \/ Head(tx).kind = "FRAGMENT"
  BY <1>1 DEF DownlinkTyped
<1>3. \A bits : Truthful(bits)' <=> Truthful(bits)
  BY <1>1, <1>2, TruthKept
<1>4. \A kinds : NoRx(kinds)' <=> NoRx(kinds)
  BY <1>1 DEF NoRx, Elems
<1>5. Before'
  BY <1>1, <1>2, <1>4, TxTail DEF Protocol, Before, Clearing, Fresh
<1>6. OwnFile'
  BY <1>1, <1>2, <1>4, TxTail DEF Protocol, OwnFile, Created, DL!ThisFile
<1>7. Waiting'
  BY <1>1, <1>2, <1>3, <1>4, TxTail DEF Protocol, Waiting, Confirming, Alone,
       DownlinkInOrder, DL!ThisFile
<1>8. Taking'
  BY <1>1, <1>2, <1>3, <1>4 DEF Protocol, Taking, Alone
<1>9. Had'
  BY <1>1 DEF Protocol, Had, DL!ThisFile
<1> QED BY <1>5, <1>6, <1>7, <1>8, <1>9 DEF Protocol

LEMMA LosesRx ==
  ASSUME DL!DownlinkAssumption, DownlinkTyped, Protocol, DL!LoseRx
  PROVE  Protocol'
<1>1. /\ rx # <<>> /\ rx' = Tail(rx)
      /\ UNCHANGED <<tx, sat, received, ack_event, update_event, update_data, handling, pc,
                     running, file, missing_fragments, batch, confirm>>
  BY DEF DL!LoseRx, DL!mainboard, DL!events, DL!thread, DL!transaction
<1>2. \A bits : Truthful(bits)' <=> Truthful(bits)
  BY <1>1, TruthKept
<1>3. \A kinds : NoTx(kinds)' <=> NoTx(kinds)
  BY <1>1 DEF NoTx, Elems
<1>4. Before'
  BY <1>1, <1>3, RxTail DEF Protocol, Before
<1>5. OwnFile'
  BY <1>1, <1>3, RxTail DEF Protocol, OwnFile, Created, DL!ThisFile
<1>6. Waiting'
  BY <1>1, <1>2, <1>3, RxTail DEF Protocol, Waiting, Confirming, Alone, DL!ThisFile
<1>7. Taking'
  BY <1>1, <1>2, RxTail DEF Protocol, Taking, Alone
<1>8. Had'
  BY <1>1 DEF Protocol, Had, DL!ThisFile
<1> QED BY <1>4, <1>5, <1>6, <1>7, <1>8 DEF Protocol

\* The mainboard's other commands do not concern the transaction.
LEMMA CommandsComes ==
  ASSUME DL!DownlinkAssumption, DownlinkTyped, Protocol, DL!SatCommands \/ DL!SatTurnsOff
  PROVE  Protocol'
<1>1. /\ UNCHANGED <<tx, sat, received, ack_event, update_event, update_data, handling, pc,
                     running, file, missing_fragments, batch, confirm>>
      /\ \E a \in Answers : a.kind \in {"EXPERIMENT", "OFF"} /\ rx' = Append(rx, a)
  <2>1. CASE DL!SatCommands
    <3>1. PICK e \in unsent : rx' = Append(rx,
            [DL!Answer("EXPERIMENT") EXCEPT !.experiment = e])
      BY <2>1 DEF DL!SatCommands
    <3>2. /\ [DL!Answer("EXPERIMENT") EXCEPT !.experiment = e] \in Answers
          /\ [DL!Answer("EXPERIMENT") EXCEPT !.experiment = e].kind = "EXPERIMENT"
      BY LineTypes DEF DL!Answer, DownlinkTyped, DL!TypeOK
    <3> QED BY <2>1, <3>1, <3>2 DEF DL!SatCommands, DL!events, DL!thread, DL!transaction
  <2>2. CASE DL!SatTurnsOff
    <3>1. DL!Answer("OFF") \in Answers /\ DL!Answer("OFF").kind = "OFF"
      BY LineTypes DEF DL!Answer
    <3> QED BY <2>2, <3>1 DEF DL!SatTurnsOff, DL!mainboard, DL!events, DL!thread,
         DL!transaction
  <2> QED BY <2>1, <2>2
<1>2. PICK a \in Answers : a.kind \in {"EXPERIMENT", "OFF"} /\ rx' = Append(rx, a)
  BY <1>1
<1>3. \A bits : Truthful(bits)' <=> Truthful(bits)
  BY <1>1, TruthKept
<1>4. \A kinds : NoTx(kinds)' <=> NoTx(kinds)
  BY <1>1 DEF NoTx, Elems
<1>5. /\ Elems(rx') = Elems(rx) \cup {a}
      /\ \A kinds \in {{"CREATE"}, {"CONFIRM"}, {"CREATE", "INIT", "CONFIRM"}} :
           NoRx(kinds)' <=> NoRx(kinds)
      /\ DownlinkInOrder(rx) => DownlinkInOrder(rx')
  BY <1>2, RxAppend
<1>6. Before'
  BY <1>1, <1>4, <1>5 DEF Protocol, Before
<1>7. OwnFile'
  BY <1>1, <1>4, <1>5 DEF Protocol, OwnFile, Created, DL!ThisFile
<1>8. Waiting'
  BY <1>1, <1>2, <1>3, <1>4, <1>5 DEF Protocol, Waiting, Confirming, Alone, DL!ThisFile
<1>9. Taking'
  BY <1>1, <1>3, <1>5 DEF Protocol, Taking, Alone
<1>10. Had'
  BY <1>1 DEF Protocol, Had, DL!ThisFile
<1> QED BY <1>6, <1>7, <1>8, <1>9, <1>10 DEF Protocol

\* What a confirmation is about: the burst, whose fragments have all left.
LEMMA Confirms ==
  ASSUME DL!DownlinkAssumption, DownlinkTyped, Protocol, DL!SatConfirms
  PROVE  Protocol'
<1> DEFINE expected == DL!Burst(sat.missing)
           bits == {i \in DOMAIN expected : expected[i] \in sat.got}
           answer == [DL!Answer("CONFIRM") EXCEPT !.bits = bits]
<1>1. /\ tx = <<>> /\ sat.due
      /\ rx' = Append(rx, answer)
      /\ sat' = [sat EXCEPT !.missing = @ \ sat.got, !.got = {}, !.due = FALSE, !.last = bits]
      /\ UNCHANGED <<tx, received, ack_event, update_event, update_data, handling, pc,
                     running, file, missing_fragments, batch, confirm>>
  BY DEF DL!SatConfirms, DL!events, DL!thread, DL!transaction
<1>2. CASE pc # "await_confirm"
  <2>1. pc \notin Sending
    BY <1>1, <1>2 DEF Protocol, Before, Taking, Sending, Clearing, Opened
  <2> QED BY <1>1, <2>1, Aside
<1>3. CASE pc = "await_confirm"
  <2>1. /\ sat'.file = sat.file /\ sat'.missing = sat.missing \ sat.got /\ sat'.got = {}
        /\ sat'.due = FALSE
    BY <1>1 DEF DownlinkTyped
  <2>2. /\ batch = DL!Burst(missing_fragments) /\ ~Confirming
        /\ sat.missing \in {missing_fragments, {}}
        /\ sat.got \subseteq Elems(batch) \cap received[DL!ThisFile]
        /\ DownlinkInOrder(rx)
    BY <1>1, <1>3 DEF Protocol, Waiting
  <2>3. Len(batch) \in Nat /\ DOMAIN batch = 1..Len(batch)
    BY ListOf DEF DownlinkTyped
  <2>4. bits \in SUBSET Nat /\ 0 \notin bits /\ InBurst(bits) \subseteq received[DL!ThisFile]
        /\ sat'.missing \in {missing_fragments \ InBurst(bits), {}}
    <3>1. CASE sat.missing = missing_fragments
      <4>1. expected = batch
        BY <2>2, <3>1
      <4> HIDE DEF expected
      <4>2. InBurst(bits) = sat.got
        BY <2>2, <4>1 DEF InBurst, Elems
      <4>3. bits \subseteq 1..Len(batch)
        BY <2>3, <4>1
      <4> HIDE DEF bits
      <4> QED BY <2>1, <2>2, <2>3, <3>1, <4>2, <4>3
    <3>2. CASE sat.missing = {}
      <4>1. expected = <<>>
        BY <3>2, BurstLists
      <4> HIDE DEF expected
      <4>2. bits = {}
        BY <4>1
      <4> HIDE DEF bits
      <4> QED BY <2>1, <3>2, <4>2 DEF InBurst
    <3> QED BY <2>2, <3>1, <3>2
  <2> HIDE DEF bits
  <2>5. PICK b \in SUBSET Nat : b = bits
    BY <2>4
  <2>6. PICK a \in Answers : a = answer /\ a.kind = "CONFIRM" /\ a.bits = b
    BY <2>4, <2>5, LineTypes DEF DL!Answer
  <2> HIDE DEF answer, expected
  <2>7. /\ Elems(rx') = Elems(rx) \cup {a} /\ DownlinkInOrder(rx')
        /\ \A q \in Elems(rx') : q.kind = "CONFIRM" => q = a
    BY <1>1, <2>2, <2>6, RxAppend DEF Confirming, NoRx
  <2>8. \A kinds : NoTx(kinds)' <=> NoTx(kinds)
    BY <1>1 DEF NoTx, Elems
  <2>13. Truthful(b)'
    BY <1>1, <2>4, <2>5 DEF Truthful, InBurst, DL!ThisFile
  <2>14. UNCHANGED <<tx, batch, missing_fragments, handling, update_data, update_event,
           received>>
         /\ DL!ThisFile' = DL!ThisFile
    BY <1>1 DEF DL!ThisFile
  <2>9. Waiting'
    BY <1>1, <2>1, <2>2, <2>6, <2>7, <2>13, <2>14
      DEF Protocol, Waiting, Confirming, Elems, NoRx
  <2>10. OwnFile'
    BY <1>1, <1>3, <2>1, <2>8 DEF Protocol, OwnFile, Created, DL!ThisFile, Opened
  <2>11. Before' /\ Taking'
    BY <1>1, <1>3 DEF Before, Taking, Clearing, Fresh
  <2>12. Had'
    BY <1>1 DEF Protocol, Had, DL!ThisFile
  <2> QED BY <2>9, <2>10, <2>11, <2>12 DEF Protocol
<1> QED BY <1>2, <1>3

\* A file that is being sent is one.
LEMMA IsFile ==
  ASSUME DL!DownlinkAssumption, DownlinkTyped, pc \in Sending \cup {"mark"}
  PROVE  DL!ThisFile \in DL!File /\ running \in Experiments
<1>1. running \in Experiments /\ file \in 1..last_file /\ last_file \in 0..Files
        /\ Files \in Nat
  BY DEF DownlinkTyped, DL!DownlinkAssumption
<1> QED BY <1>1 DEF DL!ThisFile, DL!File

\* Where a packet can arrive that opens, begins or continues a transaction.
LEMMA Receives ==
  ASSUME DL!DownlinkAssumption, DownlinkTyped, Protocol, DL!SatReceives
  PROVE  Protocol'
<1>1. /\ tx # <<>> /\ tx' = Tail(tx)
      /\ UNCHANGED <<ack_event, update_event, update_data, handling, pc, running, file,
                     missing_fragments, batch, confirm>>
  BY DEF DL!SatReceives, DL!events, DL!thread, DL!transaction
<1>2. /\ Head(tx) \in Elems(tx) /\ Head(tx) \in Packets /\ Elems(tx') \subseteq Elems(tx)
      /\ \A kinds : NoTx(kinds) => NoTx(kinds)'
      /\ \A kinds : NoTx(kinds) => Head(tx).kind \notin kinds
  BY <1>1, TxTail
<1>3. CASE pc \notin Sending
  BY <1>1, <1>3, Aside
<1>4. CASE pc \in Sending /\ Head(tx).kind = "CREATE"
  <2>1. /\ sat' = [DL!Closed EXCEPT !.file = Head(tx).file]
        /\ rx' = Append(rx, DL!Answer("CREATE")) /\ received' = received
    BY <1>4 DEF DL!SatReceives
  <2>2. sat' = [file |-> Head(tx).file, missing |-> {}, got |-> {}, due |-> FALSE,
          last |-> DL!None]
    BY <2>1 DEF DL!Closed
  <2>3. DL!Answer("CREATE") \in Answers /\ DL!Answer("CREATE").kind = "CREATE"
    BY LineTypes DEF DL!Answer
  <2>4. pc \in (Opened \cup {"await_CREATE"}) \ {"confirm"}
    BY <1>1, <1>2, <1>4 DEF Protocol, Before, Taking, Sending, Clearing, Opened
  <2>5. Head(tx).file = DL!ThisFile
    BY <1>2, <1>4, <2>4 DEF Protocol, OwnFile
  <2>6. sat'.file = DL!ThisFile /\ sat'.missing = {} /\ sat'.got = {} /\ sat'.due = FALSE
    BY <2>2, <2>5
  <2>7. /\ Elems(rx') = Elems(rx) \cup {DL!Answer("CREATE")}
        /\ NoRx({"CONFIRM"})' <=> NoRx({"CONFIRM"})
        /\ DownlinkInOrder(rx) /\ NoRx({"CONFIRM"}) => DownlinkInOrder(rx')
    BY <2>1, <2>3, RxAppend
  <2>8. Before'
    BY <1>1, <1>2, <2>4, <2>6, <2>7 DEF Protocol, Before, Clearing, Opened
  <2>9. OwnFile'
    BY <1>1, <1>2, <2>4, <2>6 DEF Protocol, OwnFile, Created, DL!ThisFile, Opened
  <2>10. Waiting'
    BY <1>1, <1>2, <2>1, <2>3, <2>6, <2>7 DEF Protocol, Waiting, Confirming, NoRx,
         DL!ThisFile
  <2>11. Taking' /\ Had'
    BY <1>1, <2>1, <2>4 DEF Protocol, Taking, Had, DL!ThisFile
  <2> QED BY <2>8, <2>9, <2>10, <2>11 DEF Protocol
<1>5. CASE pc \in Sending /\ Head(tx).kind = "INIT"
  <2>1. /\ sat' = [sat EXCEPT !.missing = 1..Fragments, !.got = {}]
        /\ rx' = Append(rx, DL!Answer("INIT")) /\ received' = received
    BY <1>5 DEF DL!SatReceives
  <2>2. sat'.file = sat.file /\ sat'.missing = 1..Fragments /\ sat'.got = {}
          /\ sat'.due = sat.due
    BY <2>1 DEF DownlinkTyped
  <2>3. DL!Answer("INIT") \in Answers /\ DL!Answer("INIT").kind = "INIT"
    BY LineTypes DEF DL!Answer
  <2>4. pc \in (Opened \cup {"await_CREATE"}) \ {"confirm"}
    BY <1>1, <1>2, <1>5 DEF Protocol, Before, Taking, Sending, Clearing, Opened
  <2>5. missing_fragments = 1..Fragments
    BY <1>2, <1>5, <2>4 DEF Protocol, OwnFile
  <2>6. /\ Elems(rx') = Elems(rx) \cup {DL!Answer("INIT")}
        /\ NoRx({"CONFIRM"})' <=> NoRx({"CONFIRM"})
        /\ NoRx({"CREATE"})' <=> NoRx({"CREATE"})
        /\ DownlinkInOrder(rx) /\ NoRx({"CONFIRM"}) => DownlinkInOrder(rx')
    BY <2>1, <2>3, RxAppend
  <2>7. Before'
    BY <1>1, <1>2, <2>2, <2>4, <2>6 DEF Protocol, Before, Clearing, Opened
  <2>8. OwnFile'
    BY <1>1, <1>2, <2>2, <2>4, <2>5, <2>6 DEF Protocol, OwnFile, Created, DL!ThisFile,
         Opened
  <2>9. Waiting'
    BY <1>1, <1>2, <2>1, <2>2, <2>3, <2>5, <2>6
      DEF Protocol, Waiting, Confirming, NoRx, DL!ThisFile
  <2>10. Taking' /\ Had'
    BY <1>1, <2>1, <2>4 DEF Protocol, Taking, Had, DL!ThisFile
  <2> QED BY <2>7, <2>8, <2>9, <2>10 DEF Protocol
<1>6. CASE pc \in Sending /\ Head(tx).kind = "FRAGMENT"
  <2>1. pc = "await_confirm"
    BY <1>1, <1>2, <1>6 DEF Protocol, Before, Taking, Sending, Clearing, Opened
  <2>2. Head(tx).file = DL!ThisFile /\ sat.file = DL!ThisFile
    BY <1>2, <1>6, <2>1 DEF Protocol, OwnFile, Created, Opened
  <2>3. sat.file \in DL!File
    BY <2>1, <2>2, IsFile DEF Sending, Opened
  <2>4. /\ sat' = [sat EXCEPT !.got = @ \cup {Head(tx).fragment}, !.due = TRUE]
        /\ received' = [received EXCEPT ![sat.file] =
                          IF sat.file = Head(tx).file THEN @ \cup {Head(tx).fragment} ELSE @]
        /\ rx' = rx
    BY <1>6, <2>3 DEF DL!SatReceives
  <2>5. /\ sat'.file = sat.file /\ sat'.missing = sat.missing
        /\ sat'.got = sat.got \cup {Head(tx).fragment} /\ sat'.due = TRUE
    BY <2>4 DEF DownlinkTyped
  <2>6. DL!ThisFile' = DL!ThisFile /\ received'[DL!ThisFile] = received[DL!ThisFile]
          \cup {Head(tx).fragment}
    BY <1>1, <2>2, <2>3, <2>4 DEF DownlinkTyped, DL!TypeOK, DL!ThisFile
  <2>7. Head(tx).fragment \in Elems(batch) /\ ~Confirming /\ DownlinkInOrder(rx)
        /\ sat.missing \in {missing_fragments, {}}
    BY <1>1, <1>2, <1>6, <2>1 DEF Protocol, Waiting
  <2>8. ~Confirming' /\ DownlinkInOrder(rx)' /\ Elems(batch)' = Elems(batch)
        /\ \A kinds : NoRx(kinds)' <=> NoRx(kinds)
    BY <1>1, <2>4, <2>7 DEF Confirming, NoRx, DownlinkInOrder, Elems
  <2>9. Before' /\ Taking'
    BY <1>1, <2>1 DEF Before, Taking, Clearing, Fresh
  <2>10. OwnFile'
    BY <1>1, <1>2, <2>1, <2>2, <2>5, <2>6 DEF Protocol, OwnFile, Created, Opened
  <2>11. Waiting'
    BY <1>1, <1>2, <2>1, <2>4, <2>5, <2>6, <2>7, <2>8 DEF Protocol, Waiting, Confirming,
         NoRx
  <2>12. Had'
    BY <1>1, <2>6 DEF Protocol, Had
  <2> QED BY <2>9, <2>10, <2>11, <2>12 DEF Protocol
<1>7. CASE pc \in Sending /\ Head(tx).kind \notin {"CREATE", "INIT", "FRAGMENT"}
  <2>1. UNCHANGED <<sat, received, rx>>
    BY <1>7 DEF DL!SatReceives
  <2>2. \A bits : Truthful(bits)' <=> Truthful(bits)
    BY <1>1, <2>1, TruthKept
  <2>3. \A kinds : NoRx(kinds)' <=> NoRx(kinds)
    BY <2>1 DEF NoRx, Elems
  <2>4. Before'
    BY <1>1, <1>2, <2>1, <2>3 DEF Protocol, Before, Clearing, Fresh
  <2>5. OwnFile'
    BY <1>1, <1>2, <2>1, <2>3 DEF Protocol, OwnFile, Created, DL!ThisFile
  <2>6. Waiting'
    BY <1>1, <1>2, <2>1, <2>2, <2>3 DEF Protocol, Waiting, Confirming, Alone,
         DownlinkInOrder, DL!ThisFile
  <2>7. Taking' /\ Had'
    BY <1>1, <2>1 DEF Protocol, Taking, Had, DL!ThisFile
  <2> QED BY <2>4, <2>5, <2>6, <2>7 DEF Protocol
<1> QED BY <1>3, <1>4, <1>5, <1>6, <1>7

LEMMA ExternalProtocol ==
  ASSUME DL!DownlinkAssumption, ~Repeats, DownlinkTyped, Protocol, DL!External
  PROVE  Protocol'
  BY LosesTx, LosesRx, Receives, Confirms, CommandsComes DEF DL!External, DL!SatRepeats

\* CommandThread hands over an acknowledgement or a command.
LEMMA HandsOver ==
  ASSUME DL!DownlinkAssumption, DownlinkTyped, Protocol,
         DL!dispatch_ack \/ DL!_handle_experiment \/ DL!_handle_turn_off_payload
  PROVE  Protocol'
<1>1. /\ rx # <<>> /\ rx' = Tail(rx) /\ handling = "none" /\ handling' \in {"none", "drain"}
      /\ UNCHANGED <<tx, sat, received, update_event, update_data, pc,
                     running, file, missing_fragments, batch, confirm>>
  BY DEF DL!dispatch_ack, DL!_handle_experiment, DL!_handle_turn_off_payload, DL!Handling,
         DL!Taken, DL!mainboard, DL!events, DL!thread, DL!transaction
<1>2. ack_event' = ack_event
        \/ Head(rx).kind = "CREATE" \/ ack_event'["CREATE"] = ack_event["CREATE"]
  <2>1. CASE DL!dispatch_ack
    BY <2>1 DEF DL!dispatch_ack, DL!Handling, DownlinkTyped
  <2> QED BY <2>1 DEF DL!_handle_experiment, DL!_handle_turn_off_payload, DL!events
<1>3. \A bits : Truthful(bits)' <=> Truthful(bits)
  BY <1>1, TruthKept
<1>4. \A kinds : NoTx(kinds)' <=> NoTx(kinds)
  BY <1>1 DEF NoTx, Elems
<1>5. Created' => Created
  BY <1>1, <1>2, RxTail DEF Created, NoRx
<1>6. Before'
  BY <1>1, <1>4, RxTail DEF Protocol, Before
<1>7. OwnFile'
  BY <1>1, <1>4, <1>5 DEF Protocol, OwnFile, DL!ThisFile
<1>8. Waiting'
  BY <1>1, <1>3, <1>4, RxTail DEF Protocol, Waiting, Confirming, Alone, DL!ThisFile
<1>9. Taking'
  BY <1>1, <1>3, RxTail DEF Protocol, Taking, Alone
<1>10. Had'
  BY <1>1 DEF Protocol, Had, DL!ThisFile
<1> QED BY <1>6, <1>7, <1>8, <1>9, <1>10 DEF Protocol

\* ... or a confirmation, which is for the burst, and before that its data.
LEMMA HandsConfirm ==
  ASSUME DL!DownlinkAssumption, DownlinkTyped, Protocol, DL!_handle_update_last_batch
  PROVE  Protocol'
<1>1. /\ rx # <<>> /\ rx' = Tail(rx) /\ Head(rx).kind = "CONFIRM"
      /\ handling = "none" /\ handling' = "update" /\ update_data' = Head(rx).bits
      /\ UNCHANGED <<tx, sat, received, ack_event, update_event, pc,
                     running, file, missing_fragments, batch, confirm>>
  BY DEF DL!_handle_update_last_batch, DL!Handling, DL!Taken, DL!mainboard, DL!events,
       DL!thread, DL!transaction
<1>2. Head(rx) \in Elems(rx) /\ Elems(rx') \subseteq Elems(rx)
  BY <1>1, RxTail
<1>3. ~NoRx({"CONFIRM"}) /\ ~NoRx({"CREATE", "INIT", "CONFIRM"})
  BY <1>1, <1>2 DEF NoRx
<1>4. CASE pc # "await_confirm"
  <2>1. pc \notin Sending
    BY <1>3, <1>4 DEF Protocol, Before, Taking, Alone, Sending, Clearing, Opened
  <2> QED BY <1>1, <2>1, Aside
<1>5. CASE pc = "await_confirm"
  <2>1. /\ batch = DL!Burst(missing_fragments)
        /\ tx = <<>> /\ ~sat.due /\ sat.got = {} /\ DownlinkInOrder(rx)
        /\ update_data = DL!None /\ ~update_event
        /\ Truthful(Head(rx).bits)
    BY <1>1, <1>2, <1>3, <1>5 DEF Protocol, Waiting, Confirming
  <2>2. DownlinkInOrder(rx') /\ NoRx({"CREATE", "INIT", "CONFIRM"})'
    BY <1>1, <2>1, RxTail
  <2>3. NoRx({"CONFIRM"})'
    BY <2>2 DEF NoRx
  <2>4. \A bits : Truthful(bits)' <=> Truthful(bits)
    BY <1>1, TruthKept
  <2>5. Truthful(update_data)'
    <3>1. PICK b : b = Head(rx).bits
      OBVIOUS
    <3>2. Truthful(b)' /\ update_data' = b
      BY <1>1, <2>1, <2>4, <3>1
    <3> QED BY <3>2 DEF Truthful, InBurst
  <2>6. \A kinds : NoTx(kinds)' <=> NoTx(kinds)
    BY <1>1 DEF NoTx, Elems
  <2>7. Waiting'
    BY <1>1, <1>5, <2>1, <2>2, <2>3, <2>5 DEF Waiting, Confirming, Alone, NoRx,
         DL!ThisFile, Elems
  <2>8. Before' /\ Taking'
    BY <1>1, <1>5 DEF Before, Taking, Clearing, Fresh
  <2>9. OwnFile'
    BY <1>1, <1>5, <2>6 DEF Protocol, OwnFile, Created, DL!ThisFile, Opened
  <2>10. Had'
    BY <1>1 DEF Protocol, Had, DL!ThisFile
  <2> QED BY <2>7, <2>8, <2>9, <2>10 DEF Protocol
<1> QED BY <1>4, <1>5

LEMMA SetsUpdate ==
  ASSUME DL!DownlinkAssumption, DownlinkTyped, Protocol, DL!SetUpdate
  PROVE  Protocol'
<1>1. /\ handling = "update" /\ handling' = "none" /\ update_event' = TRUE
      /\ UNCHANGED <<tx, rx, sat, received, ack_event, update_data, pc,
                     running, file, missing_fragments, batch, confirm>>
  BY DEF DL!SetUpdate, DL!line, DL!mainboard, DL!events, DL!thread, DL!transaction
<1>2. CASE pc # "await_confirm"
  <2>1. pc \notin Sending
    BY <1>1, <1>2 DEF Protocol, Before, Taking, Sending, Clearing, Opened
  <2> QED BY <1>1, <2>1, Aside
<1>3. CASE pc = "await_confirm"
  <2>1. /\ Alone(update_data) /\ update_data # DL!None
        /\ tx = <<>> /\ ~sat.due /\ NoRx({"CONFIRM"})
    BY <1>1, <1>3 DEF Protocol, Waiting, Confirming, Alone, Truthful, DL!None
  <2>2. \A bits : Truthful(bits)' <=> Truthful(bits)
    BY <1>1, TruthKept
  <2>3. /\ \A kinds : NoTx(kinds)' <=> NoTx(kinds)
        /\ \A kinds : NoRx(kinds)' <=> NoRx(kinds)
    BY <1>1 DEF NoTx, NoRx, Elems
  <2>4. Alone(update_data)'
    BY <1>1, <2>1, <2>3 DEF Alone, Truthful, InBurst, DL!ThisFile
  <2>5. Waiting'
    BY <1>1, <1>3, <2>1, <2>2, <2>3, <2>4
      DEF Protocol, Waiting, Confirming, DownlinkInOrder, DL!ThisFile, Elems
  <2>6. Before' /\ Taking'
    BY <1>1, <1>3 DEF Before, Taking, Clearing, Fresh
  <2>7. OwnFile'
    BY <1>1, <1>3, <2>3 DEF Protocol, OwnFile, Created, DL!ThisFile, Opened
  <2>8. Had'
    BY <1>1 DEF Protocol, Had, DL!ThisFile
  <2> QED BY <2>5, <2>6, <2>7, <2>8 DEF Protocol
<1> QED BY <1>2, <1>3

\* Nothing changes that the protocol depends on.
LEMMA Unconcerned ==
  ASSUME Protocol, handling' # "update" \/ handling' = handling, handling = "update"
         => handling' = "update",
         UNCHANGED <<tx, rx, sat, received, ack_event, update_event, update_data, pc,
                     running, file, missing_fragments, batch, confirm>>
  PROVE  Protocol'
<1>1. /\ \A kinds : NoTx(kinds)' <=> NoTx(kinds)
      /\ \A kinds : NoRx(kinds)' <=> NoRx(kinds)
  BY DEF NoTx, NoRx, Elems
<1>2. \A bits : Truthful(bits)' <=> Truthful(bits)
  BY TruthKept
<1>3. Before' /\ Had'
  BY <1>1 DEF Protocol, Before, Had, DL!ThisFile
<1>4. OwnFile'
  BY <1>1 DEF Protocol, OwnFile, Created, DL!ThisFile
<1>5. Waiting'
  BY <1>1, <1>2 DEF Protocol, Waiting, Confirming, Alone, DownlinkInOrder, DL!ThisFile,
       Elems
<1>6. Taking'
  BY <1>1, <1>2 DEF Protocol, Taking, Alone
<1> QED BY <1>3, <1>4, <1>5, <1>6 DEF Protocol

LEMMA CommandProtocol ==
  ASSUME DL!DownlinkAssumption, DownlinkTyped, Protocol, DL!CommandThread
  PROVE  Protocol'
<1>1. CASE DL!_drain_tx_then_shutdown
  BY <1>1, Unconcerned
    DEF DL!_drain_tx_then_shutdown, DL!line, DL!mainboard, DL!events, DL!thread,
         DL!transaction
<1> QED BY <1>1, HandsOver, HandsConfirm, SetsUpdate DEF DL!CommandThread

\* A file is about to be opened.
LEMMA Opens ==
  ASSUME pc' \in Clearing, Before', Had'
  PROVE  Protocol'
<1>1. pc' \notin Opened \cup {"await_CREATE"} /\ pc' \notin {"await_confirm", "confirm"}
  BY DEF Clearing, Opened
<1> QED BY <1>1 DEF Protocol, OwnFile, Created, Waiting, Taking

LEMMA OpeningProtocol ==
  ASSUME DL!DownlinkAssumption, DownlinkTyped, Protocol, DL!RunnerFinishes \/ DL!ClearData
         \/ DL!ClearEvent
  PROVE  Protocol'
<1>1. CASE DL!RunnerFinishes
  <2>1. /\ rx = <<>> /\ rx' = rx /\ ~sat.due /\ sat' = sat /\ handling = "none"
        /\ handling' = handling
        /\ tx' = <<DL!Packet("EXPERIMENT_FINISHED")>> /\ pc' = "send"
    BY <1>1 DEF DL!RunnerFinishes, DL!Ran, DL!mainboard
  <2>2. DL!Packet("EXPERIMENT_FINISHED").kind = "EXPERIMENT_FINISHED"
    BY DEF DL!Packet
  <2>3. NoTx({"CREATE", "INIT", "FRAGMENT"})' /\ NoRx({"CREATE", "INIT", "CONFIRM"})'
    BY <2>1, <2>2 DEF NoTx, NoRx, Elems
  <2>4. Before'
    BY <2>1, <2>3 DEF Before, Clearing, Fresh
  <2>5. Had'
    BY <2>1 DEF Had, Fresh, Opened
  <2> QED BY <2>1, <2>4, <2>5, Opens DEF Clearing
<1>2. CASE DL!ClearData \/ DL!ClearEvent
  <2>1. /\ UNCHANGED <<tx, rx, sat, received, handling, running, file>>
        /\ \/ pc = "send" /\ pc' = "clear" /\ missing_fragments' = 1..Fragments
                /\ update_data' = DL!None
           \/ /\ pc = "clear" /\ pc' = "CREATE" /\ ~update_event'
              /\ UNCHANGED <<missing_fragments, update_data>>
    BY <1>2 DEF DL!ClearData, DL!ClearEvent, DL!Here, DL!line, DL!mainboard, DL!thread,
         DL!transaction
  <2>2. /\ \A kinds : NoTx(kinds)' <=> NoTx(kinds)
        /\ \A kinds : NoRx(kinds)' <=> NoRx(kinds)
    BY <2>1 DEF NoTx, NoRx, Elems
  <2>3. Before'
    BY <2>1, <2>2 DEF Protocol, Before, Clearing, Fresh
  <2>4. missing_fragments' = 1..Fragments
    BY <2>1 DEF Protocol, Before, Fresh
  <2>5. Had'
    BY <2>4 DEF Had
  <2> QED BY <2>1, <2>3, <2>5, Opens DEF Clearing
<1> QED BY <1>1, <1>2

\* CREATE_TRANS and INIT_TRANS are sent while nothing of another file is under way ...
LEMMA RequestProtocol ==
  ASSUME DL!DownlinkAssumption, DownlinkTyped, Protocol, NEW kind \in {"CREATE", "INIT"},
         DL!Sends(kind) \/ DL!SendsAgain(kind)
  PROVE  Protocol'
<1>1. /\ UNCHANGED <<rx, sat, received, update_event, update_data, handling, running, file,
                     missing_fragments, batch, confirm>>
      /\ tx' = Append(tx, DL!Packet(kind)) /\ pc' = DL!Await[kind]
      /\ pc \in {kind, DL!Await[kind]}
      /\ \/ ack_event' = ack_event /\ pc = DL!Await[kind]
         \/ ack_event' = [ack_event EXCEPT ![kind] = FALSE] /\ pc = kind
  BY DEF DL!Sends, DL!SendsAgain, DL!Here, DL!mainboard, DL!events, DL!thread
<1>2. /\ kind = "CREATE" => pc' = "await_CREATE" /\ pc \in {"CREATE", "await_CREATE"}
      /\ kind = "INIT" => pc' = "await_INIT" /\ pc \in {"INIT", "await_INIT"}
  BY <1>1 DEF DL!Await
<1>3. DL!Packet(kind) \in Packets /\ DL!Packet(kind).kind = kind
        /\ DL!Packet(kind).file = DL!ThisFile
  BY LineTypes DEF DL!Packet
<1>4. /\ Elems(tx') = Elems(tx) \cup {DL!Packet(kind)}
      /\ \A kinds : NoTx(kinds)' <=> NoTx(kinds) /\ kind \notin kinds
  BY <1>1, <1>3, TxAppend
<1>5. \A kinds : NoRx(kinds)' <=> NoRx(kinds)
  BY <1>1 DEF NoRx, Elems
<1>6. DL!ThisFile' = DL!ThisFile
  BY <1>1 DEF DL!ThisFile
<1>7. missing_fragments = 1..Fragments
  BY <1>2 DEF Protocol, Before, Fresh
<1>8. Before'
  <2>1. /\ NoTx({"FRAGMENT"}) /\ NoRx({"CONFIRM"}) /\ ~sat.due /\ handling # "update"
        /\ ~update_event /\ update_data = DL!None
    BY <1>2 DEF Protocol, Before, Clearing, NoTx, NoRx
  <2>2. NoTx({"FRAGMENT"})'
    BY <1>4, <2>1
  <2>3. pc' \notin Clearing
    BY <1>2 DEF Clearing
  <2> QED BY <1>1, <1>2, <1>5, <1>7, <2>1, <2>2, <2>3 DEF Before, Clearing
<1>9. Created' => Created
  <2>1. CASE kind = "CREATE" /\ pc = "CREATE"
    <3>1. ~ack_event'["CREATE"]
      BY <1>1, <1>2, <2>1 DEF DownlinkTyped, DL!Await
    <3>2. NoRx({"CREATE"})
      BY <2>1 DEF Protocol, Before, Clearing, NoRx
    <3> QED BY <1>2, <1>5, <2>1, <3>1, <3>2 DEF Created, Opened
  <2>2. CASE kind = "CREATE" /\ pc = "await_CREATE"
    BY <1>1, <1>2, <1>5, <2>2 DEF Created, Opened
  <2>3. CASE kind = "INIT"
    BY <1>2, <2>3 DEF Created, Opened
  <2> QED BY <1>2, <2>1, <2>2, <2>3
<1>10. OwnFile'
  <2>1. \A p \in Elems(tx) : p.kind \in {"CREATE", "FRAGMENT"} => p.file = DL!ThisFile
    BY <1>2 DEF Protocol, Before, OwnFile, Clearing, Opened, NoTx
  <2>2. \A p \in Elems(tx') : p.kind \in {"CREATE", "FRAGMENT"} => p.file = DL!ThisFile
    BY <1>3, <1>4, <2>1
  <2> QED BY <1>1, <1>2, <1>6, <1>7, <1>9, <2>2 DEF Protocol, OwnFile
<1>11. Waiting' /\ Taking'
  BY <1>2 DEF Waiting, Taking
<1>12. Had'
  BY <1>1, <1>7 DEF Had
<1> QED BY <1>8, <1>10, <1>11, <1>12 DEF Protocol

\* ... so that their acknowledgements are for this one.
LEMMA AckedProtocol ==
  ASSUME DL!DownlinkAssumption, DownlinkTyped, Protocol, NEW kind \in {"CREATE", "INIT"},
         DL!Acked(kind)
  PROVE  Protocol'
<1>1. /\ UNCHANGED <<tx, rx, sat, received, ack_event, update_event, update_data, handling,
           running,
                     file, missing_fragments, batch, confirm>>
      /\ ack_event[kind]
      /\ \/ kind = "CREATE" /\ pc = "await_CREATE" /\ pc' = "INIT"
         \/ kind = "INIT" /\ pc = "await_INIT" /\ pc' = "burst"
  BY DEF DL!Acked, DL!Here, DL!line, DL!mainboard, DL!events, DL!thread, DL!transaction,
       DL!Await, DL!After
<1>2. /\ \A kinds : NoTx(kinds)' <=> NoTx(kinds)
      /\ \A kinds : NoRx(kinds)' <=> NoRx(kinds)
  BY <1>1 DEF NoTx, NoRx, Elems
<1>3. DL!ThisFile' = DL!ThisFile
  BY <1>1 DEF DL!ThisFile
<1>4. Before'
  BY <1>1, <1>2 DEF Protocol, Before, Clearing, Fresh
<1>5. Created /\ pc \notin {"await_confirm", "confirm"}
  BY <1>1 DEF Created, Opened
<1>6. OwnFile'
  BY <1>1, <1>2, <1>3, <1>5 DEF Protocol, OwnFile, Opened
<1>7. Waiting' /\ Taking'
  BY <1>1 DEF Waiting, Taking
<1>8. Had'
  BY <1>1, <1>3 DEF Protocol, Had, Fresh, Opened
<1> QED BY <1>4, <1>6, <1>7, <1>8 DEF Protocol

\* A burst is of fragments of the file, and nothing is confirmed before they have left.
LEMMA BurstProtocol ==
  ASSUME DL!DownlinkAssumption, DownlinkTyped, Protocol, DL!SendsBurst
  PROVE  Protocol'
<1> DEFINE fragments == [i \in DOMAIN batch' |-> DL!Fragment(batch'[i])]
<1>1. /\ UNCHANGED <<rx, sat, received, ack_event, update_event, update_data, handling,
           running, file,
                     missing_fragments, confirm>>
      /\ batch' = DL!Burst(missing_fragments) /\ tx' = tx \o fragments
      /\ pc = "burst" /\ pc' = "await_confirm"
  BY DEF DL!SendsBurst, DL!Here, DL!mainboard, DL!events, DL!thread
<1>2. DL!ThisFile' = DL!ThisFile
  BY <1>1 DEF DL!ThisFile
<1>3. /\ Elems(tx') = Elems(tx) \cup Elems(fragments)
      /\ \A p \in Elems(fragments) :
           p.kind = "FRAGMENT" /\ p.file = DL!ThisFile /\ p.fragment \in Elems(batch')
  <2>1. batch' \in Seq(missing_fragments) /\ missing_fragments \subseteq 1..Fragments
    BY <1>1, BurstLists DEF DownlinkTyped, DL!TypeOK
  <2>2. /\ Len(batch') \in Nat /\ DOMAIN batch' = 1..Len(batch')
        /\ \A i \in 1..Len(batch') : batch'[i] \in 1..Fragments
    BY <2>1, ListOf
  <2>3. \A i \in 1..Len(batch') : fragments[i] \in Packets
    BY <2>2, LineTypes
  <2>4. fragments \in Seq(Packets)
    BY <2>2, <2>3
  <2>5. \A p \in Elems(fragments) :
           p.kind = "FRAGMENT" /\ p.file = DL!ThisFile /\ p.fragment \in Elems(batch')
    BY <2>2 DEF Elems, DL!Fragment
  <2> HIDE DEF fragments
  <2> QED BY <1>1, <2>4, <2>5, ElemsOfBoth DEF DownlinkTyped
<1> HIDE DEF fragments
<1>4. /\ NoTx({"FRAGMENT"}) /\ NoRx({"CONFIRM"}) /\ ~sat.due /\ handling # "update"
      /\ ~update_event /\ update_data = DL!None
      /\ sat.file = DL!ThisFile /\ sat.got = {} /\ sat.missing \in {missing_fragments, {}}
  BY <1>1 DEF Protocol, Before, OwnFile, Created, Opened
<1>5. /\ \A kinds : NoRx(kinds)' <=> NoRx(kinds)
      /\ \A p \in Elems(rx) : p.kind # "CONFIRM"
      /\ DownlinkInOrder(rx)' <=> DownlinkInOrder(rx)
  BY <1>1, <1>4 DEF NoRx, Elems, DownlinkInOrder
<1>6. DownlinkInOrder(rx)'
  BY <1>5, InOrderOf DEF DownlinkTyped
<1>7. Before' /\ Taking'
  BY <1>1 DEF Before, Taking, Clearing, Fresh
<1>8. OwnFile'
  <2>1. \A p \in Elems(tx') : p.kind \in {"CREATE", "FRAGMENT"} => p.file = DL!ThisFile
    BY <1>1, <1>3 DEF Protocol, OwnFile, Opened
  <2>2. NoTx({"INIT"}) => NoTx({"INIT"})'
    BY <1>3 DEF NoTx
  <2>3. missing_fragments = 1..Fragments \/ NoTx({"INIT"})
    BY <1>1 DEF Protocol, OwnFile, Opened
  <2> QED BY <1>1, <1>2, <1>4, <2>1, <2>2, <2>3 DEF OwnFile
<1>9. ~Confirming'
  BY <1>1, <1>4, <1>5 DEF Confirming
<1>10. \A p \in Elems(tx') : p.kind = "FRAGMENT" => p.fragment \in Elems(batch')
  BY <1>3, <1>4 DEF NoTx
<1>11. Waiting'
  BY <1>1, <1>4, <1>5, <1>6, <1>9, <1>10 DEF Waiting, Confirming, NoRx, Elems
<1>12. Had'
  BY <1>1, <1>2 DEF Protocol, Had, Opened
<1> QED BY <1>7, <1>8, <1>11, <1>12 DEF Protocol

\* The confirmation that is taken is that of the burst ...
LEMMA TakesProtocol ==
  ASSUME DL!DownlinkAssumption, DownlinkTyped, Protocol, DL!TakesConfirm
  PROVE  Protocol'
<1>1. /\ UNCHANGED <<tx, rx, sat, received, ack_event, update_event, handling, running, file,
                     missing_fragments, batch>>
      /\ update_event /\ confirm' = update_data /\ update_data' = DL!None
      /\ pc = "await_confirm" /\ pc' = "confirm"
  BY DEF DL!TakesConfirm, DL!Here, DL!line, DL!mainboard, DL!thread
<1>2. /\ handling # "update" /\ update_data # DL!None /\ Alone(update_data)
      /\ tx = <<>> /\ ~sat.due /\ sat.got = {}
  BY <1>1 DEF Protocol, Waiting, Confirming
<1>3. \A bits : Truthful(bits)' <=> Truthful(bits)
  BY <1>1, TruthKept
<1>4. /\ \A kinds : NoTx(kinds)' <=> NoTx(kinds)
      /\ \A kinds : NoRx(kinds)' <=> NoRx(kinds)
  BY <1>1 DEF NoTx, NoRx, Elems
<1>5. Alone(confirm)'
  BY <1>1, <1>2, <1>4 DEF Alone, Truthful, InBurst, DL!ThisFile
<1>6. Before' /\ Waiting'
  BY <1>1 DEF Before, Waiting, Clearing, Fresh
<1>7. OwnFile'
  BY <1>1, <1>4 DEF Protocol, OwnFile, Created, DL!ThisFile, Opened
<1>8. Taking'
  BY <1>1, <1>2, <1>5 DEF Taking, DL!None
<1>9. Had'
  BY <1>1 DEF Protocol, Had, DL!ThisFile, Opened
<1> QED BY <1>6, <1>7, <1>8, <1>9 DEF Protocol

\* ... and what it names is no longer missing.
LEMMA SendsOnProtocol ==
  ASSUME DL!DownlinkAssumption, DownlinkTyped, Protocol, DL!NothingTaken \/ DL!SendsOn
  PROVE  Protocol'
<1>1. /\ UNCHANGED <<tx, rx, sat, received, ack_event, update_data, handling, running,
           file, batch>>
      /\ update_event' = FALSE /\ confirm # DL!None
      /\ missing_fragments' = missing_fragments \ InBurst(confirm)
      /\ pc = "confirm" /\ pc' = "burst"
  BY DEF DL!NothingTaken, DL!SendsOn, DL!Here, DL!line, DL!mainboard, DL!thread, DL!Left,
         DL!Confirmed, InBurst, Protocol, Taking
<1>2. /\ tx = <<>> /\ ~sat.due /\ sat.got = {} /\ handling # "update" /\ update_data = DL!None
      /\ NoRx({"CREATE", "INIT", "CONFIRM"})
      /\ InBurst(confirm) \subseteq received[DL!ThisFile]
      /\ sat.missing \in {missing_fragments \ InBurst(confirm), {}}
  BY <1>1 DEF Protocol, Taking, Alone, Truthful
<1>3. NoRx({"CONFIRM"})' /\ Elems(tx') = {}
  BY <1>1, <1>2 DEF NoRx, Elems
<1>4. Before'
  BY <1>1, <1>2, <1>3 DEF Before, NoTx, Clearing, Fresh
<1>5. OwnFile'
  BY <1>1, <1>2, <1>3 DEF Protocol, OwnFile, Created, NoTx, DL!ThisFile, Opened
<1>6. Waiting' /\ Taking'
  BY <1>1 DEF Waiting, Taking
<1>7. Had'
  BY <1>1, <1>2 DEF Protocol, Had, DL!ThisFile, Opened
<1> QED BY <1>4, <1>5, <1>6, <1>7 DEF Protocol

\* Nothing is missing: then the file has arrived, and nothing of it is on the line.
LEMMA SucceedsProtocol ==
  ASSUME DL!DownlinkAssumption, DownlinkTyped, Protocol, DL!Succeeds
  PROVE  Protocol' /\ DL!Complete(DL!ThisFile)
<1>1. /\ UNCHANGED <<rx, sat, received, handling>>
      /\ pc = "confirm" /\ confirm # DL!None /\ DL!Left = {}
      /\ pc' \notin Sending \/ (pc' = "send" /\ tx' = tx)
  BY DEF DL!Succeeds, DL!Here, DL!mainboard, DL!Over, Sending, Clearing, Opened
<1>2. /\ tx = <<>> /\ ~sat.due /\ handling # "update"
      /\ NoRx({"CREATE", "INIT", "CONFIRM"})
      /\ InBurst(confirm) \subseteq received[DL!ThisFile]
  BY <1>1 DEF Protocol, Taking, Alone, Truthful
<1>3. DL!Complete(DL!ThisFile)
  <2>1. missing_fragments \subseteq InBurst(confirm)
    BY <1>1 DEF DL!Left, DL!Confirmed, InBurst
  <2>2. 1..Fragments \ missing_fragments \subseteq received[DL!ThisFile]
    BY <1>1 DEF Protocol, Had, Opened
  <2>3. received[DL!ThisFile] \subseteq 1..Fragments
    BY <1>1, IsFile DEF DownlinkTyped, DL!TypeOK, Sending, Opened
  <2> QED BY <1>2, <2>1, <2>2, <2>3 DEF DL!Complete
<1>4. CASE pc' \notin Sending
  BY <1>3, <1>4, Aside
<1>5. CASE pc' = "send" /\ tx' = tx
  <2>1. NoTx({"CREATE", "INIT", "FRAGMENT"})' /\ NoRx({"CREATE", "INIT", "CONFIRM"})'
    BY <1>1, <1>2, <1>5 DEF NoTx, NoRx, Elems
  <2>2. Before' /\ Had'
    BY <1>1, <1>2, <1>5, <2>1 DEF Before, Had, Clearing, Fresh, Opened
  <2> QED BY <1>3, <1>5, <2>2, Opens DEF Clearing
<1> QED BY <1>1, <1>4, <1>5

\* Elsewhere, ExperimentThread sends nothing.
LEMMA OthersAside ==
  ASSUME \/ DL!SkipsDuplicate \/ DL!TakesExperiment \/ DL!UnknownMode
         \/ DL!StartsCameras \/ DL!Captures \/ DL!NoCameras \/ DL!_downscale_images
              \/ DL!_run_inference
         \/ DL!CallsBinary \/ DL!BinaryFails \/ DL!ODFindsNothing \/ DL!Raises \/ DL!Marks
         \/ DL!FileNotFound \/ DL!Stops \/ DL!ConfirmTimesOut \/ DL!Stalls
         \/ \E kind \in {"CREATE", "INIT"} : DL!AckTimesOut(kind)
  PROVE  Protocol'
<1>1. pc' \in {"idle", "run", "cameras", "capture", "downscale", "infer", "call", "dead"}
  BY DEF DL!SkipsDuplicate, DL!TakesExperiment, DL!UnknownMode, DL!StartsCameras,
         DL!Captures, DL!NoCameras, DL!_downscale_images, DL!_run_inference,
         DL!CallsBinary, DL!BinaryFails, DL!ODFindsNothing, DL!Raises, DL!Marks,
         DL!FileNotFound, DL!Stops, DL!ConfirmTimesOut, DL!Stalls, DL!AckTimesOut,
         DL!Step, DL!Ran, DL!Fails, DL!Over
<1>2. pc' \notin Sending
  BY <1>1 DEF Sending, Clearing, Opened
<1> QED BY <1>2, Aside

LEMMA ProtocolNext ==
  ASSUME DL!DownlinkAssumption, ~Repeats, DownlinkTyped, Protocol, [DL!Next]_(DL!vars)
  PROVE  Protocol'
<1>1. CASE DL!ExperimentThread
  BY <1>1, OpeningProtocol, RequestProtocol, AckedProtocol, BurstProtocol, TakesProtocol,
     SendsOnProtocol, SucceedsProtocol, OthersAside DEF DL!ExperimentThread
<1>2. CASE DL!GraceEnds \/ UNCHANGED DL!vars
  BY <1>2, Unconcerned
    DEF DL!GraceEnds, DL!vars, DL!line, DL!mainboard, DL!shared, DL!events, DL!thread,
         DL!transaction
<1> QED BY <1>1, <1>2, ExternalProtocol, CommandProtocol DEF DL!Next

LEMMA InitProtocol == ASSUME DL!Init PROVE Protocol
<1>1. pc = "idle"
  BY DEF DL!Init
<1> QED BY <1>1 DEF Protocol, Before, OwnFile, Created, Waiting, Taking, Had, Clearing,
     Opened, Fresh

-----------------------------------------------------------------------------
(* What has arrived, what is done once, and the thumbnails *)

\* What is the mainboard's, the threads leave alone, and it keeps what it has.
LEMMA ThreadsKeep ==
  ASSUME DL!CommandThread \/ DL!ExperimentThread \/ DL!GraceEnds \/ UNCHANGED DL!vars
  PROVE  UNCHANGED <<unsent, sat, received>>
<1>1. CASE DL!CommandThread
  BY <1>1 DEF DL!CommandThread, DL!dispatch_ack, DL!_handle_experiment,
              DL!_handle_update_last_batch, DL!SetUpdate, DL!_handle_turn_off_payload,
              DL!_drain_tx_then_shutdown, DL!mainboard
<1>2. CASE \/ DL!SkipsDuplicate \/ DL!TakesExperiment \/ DL!UnknownMode
           \/ DL!StartsCameras \/ DL!Captures \/ DL!NoCameras \/ DL!_downscale_images
                \/ DL!_run_inference
           \/ DL!CallsBinary \/ DL!BinaryFails \/ DL!ODFindsNothing \/ DL!Raises
                \/ DL!RunnerFinishes \/ DL!Marks
  BY <1>2 DEF DL!SkipsDuplicate, DL!TakesExperiment, DL!UnknownMode, DL!StartsCameras,
    DL!Captures, DL!NoCameras, DL!_downscale_images, DL!_run_inference, DL!CallsBinary,
    DL!BinaryFails, DL!ODFindsNothing, DL!Raises, DL!RunnerFinishes, DL!Marks, DL!Step,
    DL!Ran, DL!mainboard
<1>3. CASE \/ DL!FileNotFound \/ DL!ClearData \/ DL!ClearEvent
           \/ \E kind \in {"CREATE", "INIT"} :
                DL!Sends(kind) \/ DL!Acked(kind) \/ DL!SendsAgain(kind) \/ DL!AckTimesOut(kind)
           \/ DL!SendsBurst \/ DL!Stops \/ DL!TakesConfirm \/ DL!ConfirmTimesOut
           \/ DL!NothingTaken \/ DL!SendsOn \/ DL!Stalls \/ DL!Succeeds
  BY <1>3 DEF DL!FileNotFound, DL!ClearData, DL!ClearEvent, DL!Sends, DL!Acked,
    DL!SendsAgain, DL!AckTimesOut, DL!SendsBurst, DL!Stops, DL!TakesConfirm,
    DL!ConfirmTimesOut, DL!NothingTaken, DL!SendsOn, DL!Stalls, DL!Succeeds, DL!Here,
    DL!mainboard
<1>4. CASE DL!GraceEnds \/ UNCHANGED DL!vars
  BY <1>4 DEF DL!GraceEnds, DL!vars, DL!mainboard
<1> QED BY <1>1, <1>2, <1>3, <1>4 DEF DL!ExperimentThread

LEMMA ReceivedKept ==
  ASSUME DL!DownlinkAssumption, DownlinkTyped, DownlinkTyped', [DL!Next]_(DL!vars),
         NEW f \in DL!File, DL!Complete(f)
  PROVE  DL!Complete(f)'
<1>1. CASE DL!SatReceives
  <2>1. \/ received' = received
        \/ \E n : received' = [received EXCEPT ![sat.file] =
                                 IF sat.file = Head(tx).file THEN @ \cup {n} ELSE @]
    BY <1>1 DEF DL!SatReceives
  <2>2. received \in [DL!File -> SUBSET (1..Fragments)] /\ received'[f] \subseteq 1..Fragments
    BY DEF DownlinkTyped, DL!TypeOK
  <2>3. received[f] \subseteq received'[f]
    BY <2>1, <2>2
  <2> QED BY <2>2, <2>3 DEF DL!Complete
<1>2. CASE DL!LoseTx \/ DL!LoseRx \/ DL!SatConfirms \/ DL!SatRepeats \/ DL!SatCommands
             \/ DL!SatTurnsOff
  <2>1. received' = received
    BY <1>2 DEF DL!LoseTx, DL!LoseRx, DL!SatConfirms, DL!SatRepeats, DL!SatCommands,
         DL!SatTurnsOff, DL!mainboard
  <2> QED BY <2>1 DEF DL!Complete
<1>3. CASE DL!CommandThread \/ DL!ExperimentThread \/ DL!GraceEnds \/ UNCHANGED DL!vars
  <2>1. received' = received
    BY <1>3, ThreadsKeep
  <2> QED BY <2>1 DEF DL!Complete
<1> QED BY <1>1, <1>2, <1>3 DEF DL!Next, DL!External

\* What ExperimentThread reports: the file that it is sending.
LEMMA Reports ==
  ASSUME [DL!Next]_(DL!vars)
  PROVE  reported' = reported \/ (DL!Succeeds /\ reported' = reported \cup {DL!ThisFile})
<1>1. CASE DL!External
  BY <1>1 DEF DL!External, DL!LoseTx, DL!LoseRx, DL!SatReceives, DL!SatConfirms,
              DL!SatRepeats, DL!SatCommands, DL!SatTurnsOff
<1>2. CASE DL!CommandThread
  BY <1>2 DEF DL!CommandThread, DL!dispatch_ack, DL!_handle_experiment,
              DL!_handle_update_last_batch, DL!SetUpdate, DL!_handle_turn_off_payload,
              DL!_drain_tx_then_shutdown
<1>3. CASE \/ DL!SkipsDuplicate \/ DL!TakesExperiment \/ DL!UnknownMode
           \/ DL!StartsCameras \/ DL!Captures \/ DL!NoCameras \/ DL!_downscale_images
                \/ DL!_run_inference
           \/ DL!CallsBinary \/ DL!BinaryFails \/ DL!ODFindsNothing \/ DL!Raises
                \/ DL!RunnerFinishes \/ DL!Marks
  BY <1>3 DEF DL!SkipsDuplicate, DL!TakesExperiment, DL!UnknownMode, DL!StartsCameras,
    DL!Captures, DL!NoCameras, DL!_downscale_images, DL!_run_inference, DL!CallsBinary,
    DL!BinaryFails, DL!ODFindsNothing, DL!Raises, DL!RunnerFinishes, DL!Marks, DL!Step,
    DL!Ran
<1>4. CASE \/ DL!FileNotFound \/ DL!ClearData \/ DL!ClearEvent
           \/ \E kind \in {"CREATE", "INIT"} :
                DL!Sends(kind) \/ DL!Acked(kind) \/ DL!SendsAgain(kind) \/ DL!AckTimesOut(kind)
           \/ DL!SendsBurst \/ DL!Stops \/ DL!TakesConfirm \/ DL!ConfirmTimesOut
           \/ DL!NothingTaken \/ DL!SendsOn \/ DL!Stalls
  BY <1>4 DEF DL!FileNotFound, DL!ClearData, DL!ClearEvent, DL!Sends, DL!Acked,
    DL!SendsAgain, DL!AckTimesOut, DL!SendsBurst, DL!Stops, DL!TakesConfirm,
    DL!ConfirmTimesOut, DL!NothingTaken, DL!SendsOn, DL!Stalls
<1>5. CASE DL!Succeeds
  BY <1>5 DEF DL!Succeeds
<1>6. CASE DL!GraceEnds \/ UNCHANGED DL!vars
  BY <1>6 DEF DL!GraceEnds, DL!vars
<1> QED BY <1>1, <1>2, <1>3, <1>4, <1>5, <1>6 DEF DL!Next, DL!ExperimentThread

LEMMA ArrivedNext ==
  ASSUME DL!DownlinkAssumption, DownlinkTyped, DownlinkTyped', Protocol, Arrived,
         [DL!Next]_(DL!vars)
  PROVE  Arrived'
<1>1. \A f \in reported : DL!Complete(f) /\ f \in DL!File
  BY DEF Arrived, DownlinkTyped, DL!TypeOK
<1>2. \A f \in reported : DL!Complete(f)'
  BY <1>1, ReceivedKept
<1>3. CASE reported' = reported
  BY <1>2, <1>3 DEF Arrived, DL!Complete
<1>4. CASE DL!Succeeds /\ reported' = reported \cup {DL!ThisFile}
  <2>1. DL!Complete(DL!ThisFile)
    BY <1>4, SucceedsProtocol
  <2>2. received' = received
    BY <1>4, ThreadsKeep DEF DL!ExperimentThread
  <2> QED BY <1>1, <1>4, <2>1, <2>2 DEF Arrived, DL!Complete
<1> QED BY <1>3, <1>4, Reports

\* An experiment goes nowhere twice ...
LEMMA OnceStays ==
  ASSUME DL!DownlinkAssumption, DownlinkTyped, Once,
         unsent' = unsent, experiment_queue' = experiment_queue,
         \/ rx' = rx
         \/ rx # <<>> /\ rx' = Tail(rx)
         \/ \E a \in Answers : a.kind # "EXPERIMENT" /\ rx' = Append(rx, a),
         running' \in {running, "none"},
         pc' \in Running => pc \in Running /\ running' = running,
         \/ reported' = reported
         \/ reported' = reported \cup {DL!ThisFile} /\ pc \in Sending
  PROVE  Once'
<1> DEFINE name == [p \in Answers |-> p.experiment]
<1>1. rx \in Seq(Answers) /\ Elems(rx) \subseteq Answers
      /\ experiment_queue \in Seq(Experiments) /\ Elems(experiment_queue) \subseteq Experiments
  BY ElemsOf DEF DownlinkTyped, DL!TypeOK
<1>2. "none" \notin Experiments /\ unsent \subseteq Experiments
      /\ \A p \in Elems(rx) : p.kind = "EXPERIMENT" => p.experiment \in Experiments
  BY DEF DL!DownlinkAssumption, DownlinkTyped, DL!TypeOK
<1>3. OnceIn(rx, Commands, name)
  BY DEF Once
<1>4. /\ OnceIn(rx', Commands, name)
      /\ \A p \in Elems(rx') : p.kind = "EXPERIMENT" => p \in Elems(rx)
  <2> HIDE DEF name
  <2>1. CASE rx' = rx
    BY <1>3, <2>1
  <2>2. CASE rx # <<>> /\ rx' = Tail(rx)
    BY <1>1, <1>3, <2>2, OnceOf, ElemsOf
  <2>3. ASSUME NEW a \in Answers, a.kind # "EXPERIMENT", rx' = Append(rx, a)
        PROVE  /\ OnceIn(rx', Commands, name)
               /\ \A p \in Elems(rx') : p.kind = "EXPERIMENT" => p \in Elems(rx)
    <3>1. a \notin Commands
      BY <2>3 DEF Commands
    <3> QED BY <1>1, <1>3, <2>3, <3>1, OnceOf, ElemsOf
  <2> QED BY <2>1, <2>2, <2>3
<1>5. /\ running' \notin Elems(experiment_queue)
      /\ \A e \in unsent : e # running'
      /\ \A p \in Elems(rx) : p.kind = "EXPERIMENT" => p.experiment # running'
  BY <1>1, <1>2 DEF Once
<1>6. ASSUME NEW f \in reported'
      PROVE  /\ f[1] \notin unsent /\ f[1] \notin Elems(experiment_queue)
             /\ \A p \in Elems(rx) : p.kind = "EXPERIMENT" => p.experiment # f[1]
             /\ pc' \in Running => f[1] # running'
  <2>1. CASE f \in reported
    BY <2>1 DEF Once
  <2>2. CASE reported' = reported \cup {DL!ThisFile} /\ pc \in Sending /\ f = DL!ThisFile
    <3>1. f[1] = running /\ pc \notin Running
      BY <2>2 DEF DL!ThisFile, Sending, Clearing, Opened, Running
    <3> QED BY <3>1 DEF Once
  <2> QED BY <2>1, <2>2
<1> HIDE DEF name
<1>7. OnceIn(rx, Commands, name)'
  BY <1>4 DEF OnceIn, name
<1>8. \A e \in unsent' :
        /\ \A p \in Elems(rx') : p.kind = "EXPERIMENT" => p.experiment # e
        /\ e \notin Elems(experiment_queue') /\ e # running'
  BY <1>4, <1>5 DEF Once
<1>9. /\ \A p \in Elems(rx') : p.kind = "EXPERIMENT" =>
           p.experiment \notin Elems(experiment_queue') /\ p.experiment # running'
      /\ OnceIn(experiment_queue', Experiments, [e \in Experiments |-> e])
      /\ running' \notin Elems(experiment_queue')
  BY <1>4, <1>5 DEF Once
<1>10. \A f \in reported' :
         /\ f[1] \notin unsent' /\ f[1] \notin Elems(experiment_queue')
         /\ \A p \in Elems(rx') : p.kind = "EXPERIMENT" => p.experiment # f[1]
         /\ pc' \in Running => f[1] # running'
  BY <1>4, <1>6
<1> QED BY <1>7, <1>8, <1>9, <1>10 DEF Once, Elems, OnceIn, name

\* ... but from the mainboard to the line,
LEMMA OnceSent ==
  ASSUME DL!DownlinkAssumption, DownlinkTyped, Once, DL!SatCommands
  PROVE  Once'
<1> DEFINE name == [p \in Answers |-> p.experiment]
<1>1. UNCHANGED <<experiment_queue, running, pc, reported>>
  BY DEF DL!SatCommands, DL!shared, DL!thread
<1>2. PICK e \in unsent :
        unsent' = unsent \ {e} /\ rx' = Append(rx,
          [DL!Answer("EXPERIMENT") EXCEPT !.experiment = e])
  BY DEF DL!SatCommands
<1>3. PICK a \in Answers : a.kind = "EXPERIMENT" /\ a.experiment = e /\ rx' = Append(rx, a)
  <2>1. e \in Experiments
    BY DEF DownlinkTyped, DL!TypeOK
  <2>2. /\ [DL!Answer("EXPERIMENT") EXCEPT !.experiment = e].kind = "EXPERIMENT"
        /\ [DL!Answer("EXPERIMENT") EXCEPT !.experiment = e].experiment = e
    BY DEF DL!Answer
  <2> QED BY <1>2, <2>1, <2>2, LineTypes
<1>4. rx \in Seq(Answers) /\ Elems(rx) \subseteq Answers /\ Elems(rx') = Elems(rx) \cup {a}
  BY <1>3, ElemsOf DEF DownlinkTyped
<1>5. OnceIn(rx', Commands, name)
  <2>1. OnceIn(rx, Commands, name)
    BY DEF Once
  <2>2. \A p \in Elems(rx) : p \in Commands => name[p] # name[a]
    <3>1. \A p \in Elems(rx) : p \in Commands => p.experiment # e
      BY DEF Once, Commands
    <3> QED BY <1>3, <1>4, <3>1
  <2> HIDE DEF name
  <2> QED BY <1>3, <1>4, <2>1, <2>2, OnceOf
<1>6. e \notin Elems(experiment_queue) /\ e # running /\ \A f \in reported : f[1] # e
  BY DEF Once
<1>7. \A x \in unsent' :
        /\ \A p \in Elems(rx') : p.kind = "EXPERIMENT" => p.experiment # x
        /\ x \notin Elems(experiment_queue) /\ x # running
  BY <1>2, <1>3, <1>4 DEF Once
<1>8. \A p \in Elems(rx') : p.kind = "EXPERIMENT" =>
        p.experiment \notin Elems(experiment_queue) /\ p.experiment # running
  BY <1>3, <1>4, <1>6 DEF Once
<1>9. \A f \in reported :
         /\ f[1] \notin unsent' /\ f[1] \notin Elems(experiment_queue)
         /\ \A p \in Elems(rx') : p.kind = "EXPERIMENT" => p.experiment # f[1]
         /\ pc \in Running => f[1] # running
  BY <1>2, <1>3, <1>4, <1>6 DEF Once
<1>10. /\ OnceIn(experiment_queue, Experiments, [x \in Experiments |-> x])
       /\ running \notin Elems(experiment_queue)
  BY DEF Once
<1> QED BY <1>1, <1>5, <1>7, <1>8, <1>9, <1>10 DEF Once, Elems, OnceIn

\* from there to the queue,
LEMMA OnceQueued ==
  ASSUME DL!DownlinkAssumption, DownlinkTyped, Once, DL!_handle_experiment
  PROVE  Once'
<1> DEFINE name == [p \in Answers |-> p.experiment]
           self == [x \in Experiments |-> x]
<1>1. /\ UNCHANGED <<unsent, running, pc, reported>>
      /\ rx # <<>> /\ rx' = Tail(rx) /\ Head(rx).kind = "EXPERIMENT"
      /\ experiment_queue' = Append(experiment_queue, Head(rx).experiment)
  BY DEF DL!_handle_experiment, DL!Handling, DL!Taken, DL!mainboard, DL!thread
<1>2. /\ rx \in Seq(Answers) /\ Elems(rx) \subseteq Answers
      /\ Head(rx) \in Elems(rx) /\ Elems(rx') \subseteq Elems(rx)
  BY <1>1, ElemsOf DEF DownlinkTyped
<1>3. PICK e \in Experiments : e = Head(rx).experiment
  BY <1>1, <1>2 DEF DownlinkTyped
<1>4. /\ experiment_queue \in Seq(Experiments) /\ Elems(experiment_queue) \subseteq Experiments
      /\ Elems(experiment_queue') = Elems(experiment_queue) \cup {e}
  BY <1>1, <1>3, ElemsOf DEF DownlinkTyped, DL!TypeOK
<1>5. /\ OnceIn(rx', Commands, name)
      /\ \A p \in Elems(rx') : p.kind = "EXPERIMENT" => p.experiment # e
  <2>1. OnceIn(rx, Commands, name)
    BY DEF Once
  <2>2. Head(rx) \in Commands
    BY <1>1, <1>2 DEF Commands
  <2>3. /\ OnceIn(Tail(rx), Commands, name)
        /\ \A p \in Elems(Tail(rx)) : p \in Commands => name[p] # name[Head(rx)]
    <3> HIDE DEF name
    <3> QED BY <1>1, <1>2, <2>1, <2>2, OnceOf
  <2> QED BY <1>1, <1>2, <1>3, <2>3 DEF Commands
<1>6. /\ e \notin unsent /\ e \notin Elems(experiment_queue) /\ e # running
      /\ \A f \in reported : f[1] # e
  BY <1>1, <1>2, <1>3 DEF Once
<1>7. OnceIn(experiment_queue', Experiments, self)
  <2>1. OnceIn(experiment_queue, Experiments, self)
    BY DEF Once
  <2>2. \A x \in Elems(experiment_queue) : x \in Experiments => self[x] # self[e]
    BY <1>3, <1>6
  <2> HIDE DEF self
  <2> QED BY <1>1, <1>3, <1>4, <2>1, <2>2, OnceOf
<1>8. \A x \in unsent :
        /\ \A p \in Elems(rx') : p.kind = "EXPERIMENT" => p.experiment # x
        /\ x \notin Elems(experiment_queue') /\ x # running
  BY <1>2, <1>4, <1>6 DEF Once
<1>9. /\ \A p \in Elems(rx') : p.kind = "EXPERIMENT" =>
           p.experiment \notin Elems(experiment_queue') /\ p.experiment # running
      /\ running \notin Elems(experiment_queue')
  BY <1>2, <1>4, <1>5, <1>6 DEF Once
<1>10. \A f \in reported :
         /\ f[1] \notin unsent /\ f[1] \notin Elems(experiment_queue')
         /\ \A p \in Elems(rx') : p.kind = "EXPERIMENT" => p.experiment # f[1]
         /\ pc \in Running => f[1] # running
  BY <1>2, <1>4, <1>6 DEF Once
<1> QED BY <1>1, <1>5, <1>7, <1>8, <1>9, <1>10 DEF Once, Elems, OnceIn

\* and from there to ExperimentThread.
LEMMA OnceTaken ==
  ASSUME DL!DownlinkAssumption, DownlinkTyped, Once, DL!SkipsDuplicate \/ DL!TakesExperiment
  PROVE  Once'
<1> DEFINE self == [x \in Experiments |-> x]
<1>1. /\ UNCHANGED <<unsent, rx, reported>> /\ pc = "idle"
      /\ experiment_queue # <<>> /\ experiment_queue' = Tail(experiment_queue)
      /\ \/ running' = running /\ pc' = pc
         \/ running' = Head(experiment_queue)
  BY DEF DL!SkipsDuplicate, DL!TakesExperiment, DL!line, DL!mainboard, DL!thread
<1>2. /\ experiment_queue \in Seq(Experiments)
      /\ Head(experiment_queue) \in Elems(experiment_queue)
      /\ Elems(experiment_queue) \subseteq Experiments
      /\ Elems(experiment_queue') \subseteq Elems(experiment_queue)
  BY <1>1, ElemsOf DEF DownlinkTyped, DL!TypeOK
<1>3. /\ OnceIn(experiment_queue', Experiments, self)
      /\ Head(experiment_queue) \notin Elems(experiment_queue')
  <2>1. OnceIn(experiment_queue, Experiments, self)
    BY DEF Once
  <2>2. /\ OnceIn(Tail(experiment_queue), Experiments, self)
        /\ \A x \in Elems(Tail(experiment_queue)) :
             x \in Experiments => self[x] # self[Head(experiment_queue)]
    <3> HIDE DEF self
    <3> QED BY <1>1, <1>2, <2>1, OnceOf
  <2> QED BY <1>1, <1>2, <2>2
<1>4. /\ \A p \in Elems(rx) : p.kind = "EXPERIMENT" => p.experiment # running'
      /\ running' \notin Elems(experiment_queue')
      /\ \A e \in unsent : e # running'
  BY <1>1, <1>2, <1>3 DEF Once
<1>5. "idle" \notin Running
  BY DEF Running
<1>6. \A f \in reported : pc' \in Running => f[1] # running'
  BY <1>1, <1>2, <1>5 DEF Once
<1>7. \A x \in unsent :
        /\ \A p \in Elems(rx) : p.kind = "EXPERIMENT" => p.experiment # x
        /\ x \notin Elems(experiment_queue') /\ x # running'
  BY <1>2, <1>4 DEF Once
<1>8. \A p \in Elems(rx) : p.kind = "EXPERIMENT" =>
        p.experiment \notin Elems(experiment_queue') /\ p.experiment # running'
  BY <1>2, <1>4 DEF Once
<1>9. \A f \in reported :
         /\ f[1] \notin unsent /\ f[1] \notin Elems(experiment_queue')
         /\ \A p \in Elems(rx) : p.kind = "EXPERIMENT" => p.experiment # f[1]
  BY <1>2 DEF Once
<1>10. OnceIn(rx, Commands, [p \in Answers |-> p.experiment])
  BY DEF Once
<1> QED BY <1>1, <1>3, <1>4, <1>6, <1>7, <1>8, <1>9, <1>10 DEF Once, Elems, OnceIn

LEMMA OnceNext ==
  ASSUME DL!DownlinkAssumption, DownlinkTyped, Once, [DL!Next]_(DL!vars)
  PROVE  Once'
<1>1. CASE DL!LoseTx \/ DL!LoseRx \/ DL!SatReceives \/ DL!SatConfirms \/ DL!SatRepeats
             \/ DL!SatTurnsOff
  <2>1. UNCHANGED <<unsent, experiment_queue, running, pc, reported>>
    BY <1>1 DEF DL!LoseTx, DL!LoseRx, DL!SatReceives, DL!SatConfirms, DL!SatRepeats,
                DL!SatTurnsOff, DL!mainboard, DL!shared, DL!thread
  <2>2. \/ rx' = rx
        \/ rx # <<>> /\ rx' = Tail(rx)
        \/ \E a \in Answers : a.kind # "EXPERIMENT" /\ rx' = Append(rx, a)
    <3>1. CASE DL!LoseTx \/ DL!LoseRx
      BY <3>1 DEF DL!LoseTx, DL!LoseRx
    <3>2. CASE DL!SatReceives
      <4>1. DL!Answer("CREATE") \in Answers /\ DL!Answer("CREATE").kind # "EXPERIMENT"
            /\ DL!Answer("INIT") \in Answers /\ DL!Answer("INIT").kind # "EXPERIMENT"
        BY LineTypes DEF DL!Answer
      <4>2. rx' \in {rx, Append(rx, DL!Answer("CREATE")), Append(rx, DL!Answer("INIT"))}
        BY <3>2 DEF DL!SatReceives
      <4> QED BY <4>1, <4>2
    <3>3. CASE DL!SatConfirms \/ DL!SatRepeats
      <4>1. PICK bits \in SUBSET Nat : rx' = Append(rx,
              [DL!Answer("CONFIRM") EXCEPT !.bits = bits])
        <5>1. CASE DL!SatConfirms
          <6> DEFINE bits == {i \in DOMAIN DL!Burst(sat.missing) : DL!Burst(sat.missing)[i] \in sat.got}
          <6>1. bits \in SUBSET Nat
            <7>1. DL!Burst(sat.missing) \in Seq(sat.missing)
              BY BurstLists DEF DownlinkTyped
            <7> QED BY <7>1, ListOf
          <6>2. rx' = Append(rx, [DL!Answer("CONFIRM") EXCEPT !.bits = bits])
            BY <5>1 DEF DL!SatConfirms
          <6> QED BY <6>1, <6>2
        <5>2. CASE DL!SatRepeats
          BY <5>2 DEF DL!SatRepeats, DownlinkTyped
        <5> QED BY <3>3, <5>1, <5>2
      <4>2. /\ [DL!Answer("CONFIRM") EXCEPT !.bits = bits] \in Answers
            /\ [DL!Answer("CONFIRM") EXCEPT !.bits = bits].kind # "EXPERIMENT"
        BY LineTypes DEF DL!Answer
      <4> QED BY <4>1, <4>2
    <3>4. CASE DL!SatTurnsOff
      <4>1. DL!Answer("OFF") \in Answers /\ DL!Answer("OFF").kind # "EXPERIMENT"
        BY LineTypes DEF DL!Answer
      <4> QED BY <3>4, <4>1 DEF DL!SatTurnsOff
    <3> QED BY <1>1, <3>1, <3>2, <3>3, <3>4
  <2> QED BY <2>1, <2>2, OnceStays
<1>2. CASE DL!dispatch_ack \/ DL!_handle_update_last_batch \/ DL!SetUpdate
             \/ DL!_handle_turn_off_payload
           \/ DL!_drain_tx_then_shutdown
  <2>1. UNCHANGED <<unsent, experiment_queue, running, pc, reported>>
        /\ (rx' = rx \/ (rx # <<>> /\ rx' = Tail(rx)))
    BY <1>2 DEF DL!dispatch_ack, DL!_handle_update_last_batch, DL!SetUpdate,
      DL!_handle_turn_off_payload, DL!_drain_tx_then_shutdown, DL!Handling, DL!Taken,
      DL!line, DL!mainboard, DL!shared, DL!thread
  <2> QED BY <2>1, OnceStays
<1>3. CASE \/ DL!UnknownMode \/ DL!StartsCameras \/ DL!Captures \/ DL!NoCameras
                \/ DL!_downscale_images
           \/ DL!_run_inference \/ DL!CallsBinary \/ DL!BinaryFails \/ DL!ODFindsNothing
                \/ DL!Raises
           \/ DL!RunnerFinishes \/ DL!Marks
  <2>1. /\ UNCHANGED <<unsent, experiment_queue, rx, reported>>
        /\ running' \in {running, "none"}
    BY <1>3 DEF DL!UnknownMode, DL!StartsCameras, DL!Captures, DL!NoCameras,
      DL!_downscale_images, DL!Marks, DL!_run_inference, DL!CallsBinary, DL!BinaryFails,
      DL!ODFindsNothing, DL!Raises, DL!RunnerFinishes, DL!Step, DL!Ran, DL!Fails, DL!Over,
      DL!line, DL!mainboard, DL!shared, DL!thread
  <2>2. pc' \in Running => pc \in Running /\ running' = running
    BY <1>3 DEF DL!UnknownMode, DL!StartsCameras, DL!Captures, DL!NoCameras,
      DL!_downscale_images, DL!Marks, DL!_run_inference, DL!CallsBinary, DL!BinaryFails,
      DL!ODFindsNothing, DL!Raises, DL!RunnerFinishes, DL!Step, DL!Ran, DL!Fails, DL!Over,
      DL!thread, Running
  <2> QED BY <2>1, <2>2, OnceStays
<1>4. CASE \/ DL!FileNotFound \/ DL!ClearData \/ DL!ClearEvent
           \/ \E kind \in {"CREATE", "INIT"} :
                DL!Sends(kind) \/ DL!Acked(kind) \/ DL!SendsAgain(kind) \/ DL!AckTimesOut(kind)
           \/ DL!SendsBurst \/ DL!Stops \/ DL!TakesConfirm \/ DL!ConfirmTimesOut
           \/ DL!NothingTaken \/ DL!SendsOn \/ DL!Stalls \/ DL!Succeeds
  <2>1. /\ UNCHANGED <<unsent, experiment_queue, rx>>
        /\ running' \in {running, "none"}
    BY <1>4 DEF DL!FileNotFound, DL!ClearData, DL!ClearEvent, DL!Sends, DL!Acked,
      DL!SendsAgain, DL!AckTimesOut, DL!SendsBurst, DL!Stops, DL!TakesConfirm,
      DL!ConfirmTimesOut, DL!NothingTaken, DL!SendsOn, DL!Stalls, DL!Succeeds, DL!Here,
      DL!Fails, DL!Over, DL!line, DL!mainboard, DL!thread
  <2>2. pc' \notin Running
    BY <1>4 DEF DL!FileNotFound, DL!ClearData, DL!ClearEvent, DL!Sends, DL!Acked,
      DL!SendsAgain, DL!AckTimesOut, DL!SendsBurst, DL!Stops, DL!TakesConfirm,
      DL!ConfirmTimesOut, DL!NothingTaken, DL!SendsOn, DL!Stalls, DL!Succeeds, DL!Here,
      DL!Fails, DL!Over, DL!Await, DL!After, Running
  <2>3. reported' = reported \/ (reported' = reported \cup {DL!ThisFile} /\ pc \in Sending)
    BY <1>4, Reports DEF DL!Succeeds, DL!Here, Sending, Opened
  <2> QED BY <2>1, <2>2, <2>3, OnceStays
<1>5. CASE DL!GraceEnds \/ UNCHANGED DL!vars
  <2>1. UNCHANGED <<unsent, experiment_queue, rx, running, pc, reported>>
    BY <1>5 DEF DL!GraceEnds, DL!vars, DL!line, DL!mainboard, DL!shared, DL!thread
  <2> QED BY <2>1, OnceStays
<1> QED BY <1>1, <1>2, <1>3, <1>4, <1>5, OnceSent, OnceQueued, OnceTaken
        DEF DL!Next, DL!External, DL!CommandThread, DL!ExperimentThread

\* The files that are sent, in order, and what they show.
LEMMA ThumbnailsStay ==
  ASSUME Thumbnails, reported \subseteq reported', UNCHANGED <<sent_set, shows>>,
         \/ pc' \notin Sending \cup {"mark"}
         \/ UNCHANGED <<running, file, last_file, pc>>
         \/ UNCHANGED <<running, file, last_file>> /\ pc \in Sending /\ pc' \in Sending
  PROVE  Thumbnails'
<1>1. "mark" \notin Sending
  BY DEF Sending, Clearing, Opened
<1>2. \A i \in sent_set' : \E f \in reported' : shows'[f] = i
  BY DEF Thumbnails
<1> QED BY <1>1, <1>2 DEF Thumbnails

LEMMA ThumbnailsNext ==
  ASSUME DL!DownlinkAssumption, DownlinkTyped, Once, Thumbnails, [DL!Next]_(DL!vars)
  PROVE  Thumbnails'
<1>0. reported \subseteq reported'
  BY Reports
<1>1. CASE DL!External \/ DL!CommandThread \/ DL!GraceEnds \/ UNCHANGED DL!vars
  <2>1. CASE DL!External
    BY <1>0, <2>1, ThumbnailsStay DEF DL!External, DL!LoseTx, DL!LoseRx, DL!SatReceives,
      DL!SatConfirms, DL!SatRepeats, DL!SatCommands, DL!SatTurnsOff, DL!thread,
      DL!thumbnails
  <2>2. CASE DL!CommandThread
    BY <1>0, <2>2, ThumbnailsStay DEF DL!CommandThread, DL!dispatch_ack,
      DL!_handle_experiment, DL!_handle_update_last_batch, DL!SetUpdate,
      DL!_handle_turn_off_payload, DL!_drain_tx_then_shutdown, DL!thread, DL!thumbnails
  <2>3. CASE DL!GraceEnds \/ UNCHANGED DL!vars
    BY <1>0, <2>3, ThumbnailsStay DEF DL!GraceEnds, DL!vars, DL!thread, DL!thumbnails
  <2> QED BY <1>1, <2>1, <2>2, <2>3
<1>2. CASE \/ DL!SkipsDuplicate \/ DL!TakesExperiment \/ DL!UnknownMode
           \/ DL!StartsCameras \/ DL!Captures \/ DL!NoCameras \/ DL!_downscale_images
                \/ DL!_run_inference
           \/ DL!CallsBinary \/ DL!BinaryFails \/ DL!ODFindsNothing \/ DL!Raises
           \/ DL!FileNotFound \/ DL!Stops \/ DL!ConfirmTimesOut \/ DL!Stalls
           \/ \E kind \in {"CREATE", "INIT"} : DL!AckTimesOut(kind)
  <2>1. UNCHANGED <<sent_set, shows>>
    BY <1>2 DEF DL!SkipsDuplicate, DL!TakesExperiment, DL!UnknownMode, DL!StartsCameras,
      DL!Captures, DL!NoCameras, DL!_downscale_images, DL!_run_inference, DL!CallsBinary,
      DL!BinaryFails, DL!ODFindsNothing, DL!Raises, DL!FileNotFound, DL!Stops,
      DL!ConfirmTimesOut, DL!Stalls, DL!AckTimesOut, DL!Step, DL!Ran, DL!Silent,
      DL!thumbnails
  <2>2. pc' \in {"idle", "run", "cameras", "capture", "downscale", "infer", "call", "dead"}
    BY <1>2 DEF DL!SkipsDuplicate, DL!TakesExperiment, DL!UnknownMode, DL!StartsCameras,
      DL!Captures, DL!NoCameras, DL!_downscale_images, DL!_run_inference, DL!CallsBinary,
      DL!BinaryFails, DL!ODFindsNothing, DL!Raises, DL!FileNotFound, DL!Stops,
      DL!ConfirmTimesOut, DL!Stalls, DL!AckTimesOut, DL!Step, DL!Ran, DL!Fails, DL!Over
  <2>3. pc' \notin Sending \cup {"mark"}
    BY <2>2 DEF Sending, Clearing, Opened
  <2> QED BY <1>0, <2>1, <2>3, ThumbnailsStay
<1>3. CASE \/ DL!ClearData \/ DL!ClearEvent \/ DL!SendsBurst \/ DL!TakesConfirm
                \/ DL!NothingTaken \/ DL!SendsOn
           \/ \E kind \in {"CREATE", "INIT"} : DL!Sends(kind) \/ DL!Acked(kind)
                \/ DL!SendsAgain(kind)
  <2>1. UNCHANGED <<sent_set, shows, running, file, last_file>>
    BY <1>3 DEF DL!ClearData, DL!ClearEvent, DL!SendsBurst, DL!TakesConfirm,
      DL!NothingTaken, DL!SendsOn, DL!Sends, DL!Acked, DL!SendsAgain, DL!thread,
      DL!thumbnails
  <2>2. pc \in Sending /\ pc' \in Sending
    BY <1>3 DEF DL!ClearData, DL!ClearEvent, DL!SendsBurst, DL!TakesConfirm,
      DL!NothingTaken, DL!SendsOn, DL!Sends, DL!Acked, DL!SendsAgain, DL!Here, DL!Await,
      DL!After, Sending, Clearing, Opened
  <2> QED BY <1>0, <2>1, <2>2, ThumbnailsStay
<1>4. CASE DL!RunnerFinishes
  <2>1. /\ UNCHANGED <<running, reported, sent_set>> /\ file' = 1 /\ pc' = "send"
        /\ pc \in Running
    BY <1>4 DEF DL!RunnerFinishes, DL!Ran, DL!thread, Running
  <2>2. PICK thumbs \in DL!_generate_thumbnails :
          /\ shows' = [f \in DL!File |-> IF f[1] = running /\ f[2] - 1 \in DOMAIN thumbs
                                      THEN thumbs[f[2] - 1] ELSE shows[f]]
          /\ last_file' \in IF Runner[running] = "processing" THEN {1 + Len(thumbs)} ELSE 1..Files
    BY <1>4 DEF DL!RunnerFinishes
  <2>3. thumbs \in Seq(1..Shown) /\ Len(thumbs) \in 0..Files - 1 /\ Files \in Nat
    BY ThumbnailLists DEF DL!DownlinkAssumption
  <2>4. DOMAIN thumbs = 1..Len(thumbs) /\ \A n \in 1..Len(thumbs) : thumbs[n] \in 1..Shown
    BY <2>3, ListOf
  <2>5. running \in Experiments
    BY <2>1 DEF DownlinkTyped
  <2>6. Runner[running] = "processing" => \A k \in 2..last_file' : shows'[<<running,
          k>>] \in 1..Shown
    <3> SUFFICES ASSUME Runner[running] = "processing", NEW k \in 2..last_file'
                 PROVE  shows'[<<running, k>>] \in 1..Shown
      OBVIOUS
    <3>1. k \in 1..Files /\ k - 1 \in 1..Len(thumbs)
      BY <2>2, <2>3
    <3>2. <<running, k>> \in DL!File /\ <<running, k>>[1] = running /\ <<running, k>>[2] = k
      BY <2>5, <3>1 DEF DL!File
    <3>3. shows'[<<running, k>>] = thumbs[k - 1]
      BY <2>2, <2>4, <3>1, <3>2
    <3> QED BY <2>4, <3>1, <3>3
  <2>7. \A f \in reported : f \in DL!File /\ shows'[f] = shows[f]
    BY <2>1, <2>2 DEF Once, DownlinkTyped, DL!TypeOK
  <2>8. \A i \in sent_set' : \E f \in reported' : shows'[f] = i
    BY <2>1, <2>7 DEF Thumbnails
  <2> QED BY <2>1, <2>6, <2>8 DEF Thumbnails
<1>5. CASE DL!Succeeds
  <2>1. /\ UNCHANGED <<sent_set, shows>> /\ reported' = reported \cup {DL!ThisFile}
        /\ pc = "confirm"
    BY <1>5 DEF DL!Succeeds, DL!Here, DL!thumbnails
  <2>2. file \in 1..last_file /\ last_file \in Nat
    BY <2>1 DEF DownlinkTyped, Sending, Opened, DL!DownlinkAssumption
  <2>3. \A k \in 1..file : <<running, k>> \in reported'
    BY <2>1, <2>2 DEF Thumbnails, DL!ThisFile, Sending, Opened
  <2>4. \A i \in sent_set' : \E f \in reported' : shows'[f] = i
    BY <2>1 DEF Thumbnails
  <2>5. Runner[running] = "processing" => \A k \in 2..last_file : shows[<<running,
          k>>] \in 1..Shown
    BY <2>1 DEF Thumbnails, Sending, Opened
  <2>6. CASE file' = file + 1 /\ pc' = "send" /\ UNCHANGED <<DL!thread, last_file>>
    BY <2>1, <2>2, <2>3, <2>4, <2>5, <2>6 DEF Thumbnails, DL!thread
  <2>7. CASE /\ file = last_file /\ Runner[running] = "processing"
             /\ pc' = "mark" /\ UNCHANGED <<DL!thread, file, last_file>>
    <3>1. "mark" \notin Sending
      BY DEF Sending, Clearing, Opened
    <3> QED BY <2>1, <2>2, <2>3, <2>4, <2>5, <2>7, <3>1 DEF Thumbnails, DL!thread
  <2>8. CASE DL!Over("idle")
    <3>1. pc' \notin Sending \cup {"mark"}
      BY <2>8 DEF DL!Over, Sending, Clearing, Opened
    <3> QED BY <1>0, <2>1, <3>1, ThumbnailsStay
  <2> QED BY <1>5, <2>6, <2>7, <2>8 DEF DL!Succeeds
<1>6. CASE DL!Marks
  <2> DEFINE new == {shows[<<running, k>>] : k \in 2..last_file}
  <2>1. /\ UNCHANGED <<reported, shows>> /\ sent_set' \in {sent_set \cup new, new, sent_set, {}}
        /\ pc = "mark" /\ pc' = "idle"
    BY <1>6 DEF DL!Marks, DL!Over
  <2>2. \A k \in 2..last_file : <<running, k>> \in reported
    BY <2>1 DEF Thumbnails, DownlinkTyped, DL!TypeOK
  <2>3. \A i \in new : \E f \in reported : shows[f] = i
    BY <2>2
  <2> HIDE DEF new
  <2>4. \A i \in sent_set' : \E f \in reported' : shows'[f] = i
    BY <2>1, <2>3 DEF Thumbnails
  <2>5. pc' \notin Sending \cup {"mark"}
    BY <2>1 DEF Sending, Clearing, Opened
  <2> QED BY <2>4, <2>5 DEF Thumbnails
<1> QED BY <1>1, <1>2, <1>3, <1>4, <1>5, <1>6 DEF DL!Next, DL!ExperimentThread

-----------------------------------------------------------------------------
(* The theorems *)

LEMMA DownlinkInitInv == ASSUME DL!DownlinkAssumption, DL!Init PROVE DownlinkInv
<1>1. DownlinkTyped /\ Protocol
  BY InitTyped, InitProtocol
<1>2. Arrived
  BY DEF DL!Init, Arrived
<1>3. Elems(rx) = {} /\ Elems(experiment_queue) = {} /\ reported = {} /\ sent_set = {}
  BY DEF DL!Init, Elems
<1>4. Once
  <2>1. \A e \in unsent : e # running
    BY DEF DL!Init, DL!DownlinkAssumption
  <2> QED BY <1>3, <2>1 DEF DL!Init, Once, OnceIn
<1>5. Thumbnails
  <2>1. pc \notin Sending \cup {"mark"}
    BY DEF DL!Init, Sending, Clearing, Opened
  <2> QED BY <1>3, <2>1 DEF Thumbnails
<1> QED BY <1>1, <1>2, <1>4, <1>5 DEF DownlinkInv, Orderly

LEMMA OrderlyNext ==
  ASSUME DL!DownlinkAssumption, Orderly, [DL!Next]_(DL!vars)
  PROVE  Orderly'
<1>1. DownlinkTyped'
  BY TypedNext DEF Orderly
<1> QED BY <1>1, OnceNext, ThumbnailsNext DEF Orderly

LEMMA DownlinkInvNext ==
  ASSUME DL!DownlinkAssumption, ~Repeats, DownlinkInv, [DL!Next]_(DL!vars)
  PROVE  DownlinkInv'
<1>1. Orderly'
  BY OrderlyNext DEF DownlinkInv
<1> QED BY <1>1, ProtocolNext, ArrivedNext DEF DownlinkInv, Orderly

LEMMA DownlinkInvImplies == ASSUME DownlinkInv PROVE DL!TypeOK /\ DL!SuccessIsReceived
<1>1. DL!TypeOK
  BY DEF DownlinkInv, Orderly, DownlinkTyped
<1>2. \A f \in reported : DL!Complete(f) /\ f \in DL!File
  BY DEF DownlinkInv, Orderly, Arrived, DownlinkTyped, DL!TypeOK
<1>3. \A i \in sent_set : \E f \in reported : shows[f] = i
  BY DEF DownlinkInv, Orderly, Thumbnails
<1> QED BY <1>1, <1>2, <1>3 DEF DL!SuccessIsReceived

LEMMA DownlinkInvariance == ASSUME DL!DownlinkAssumption, ~Repeats PROVE DL!Spec
  => []DownlinkInv
<1>1. DL!Init => DownlinkInv
  BY DownlinkInitInv
<1>2. DownlinkInv /\ [DL!Next]_(DL!vars) => DownlinkInv'
  BY DownlinkInvNext
<1> QED BY <1>1, <1>2, PTL DEF DL!Spec

-----------------------------------------------------------------------------
(* Theorems *)

\* Each variable keeps its type, whatever the files, fragments, losses and resends,
\* and however often the mainboard confirms.
THEOREM DownlinkTypeCorrect == ASSUME DL!DownlinkAssumption PROVE DL!Spec => []DL!TypeOK
<1>1. DL!Init => Orderly
  BY DownlinkInitInv DEF DownlinkInv
<1>2. Orderly /\ [DL!Next]_(DL!vars) => Orderly'
  BY OrderlyNext
<1>3. Orderly => DL!TypeOK
  BY DEF Orderly, DownlinkTyped
<1> QED BY <1>1, <1>2, <1>3, PTL DEF DL!Spec

\* A file that the payload reports as delivered is whole on the mainboard and is
\* stored there as that file, and so is a thumbnail that it marks as sent
\* (_send_file and _run_downlink in downlink.py), unless the mainboard repeats a
\* confirmation.
THEOREM SuccessIsReceivedHolds ==
  ASSUME DL!DownlinkAssumption, ~Repeats PROVE DL!Spec => []DL!SuccessIsReceived
<1>1. DownlinkInv => DL!SuccessIsReceived
  BY DownlinkInvImplies
<1> QED BY <1>1, DownlinkInvariance, PTL

=============================================================================
