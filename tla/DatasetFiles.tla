----------------------------- MODULE DatasetFiles -----------------------------
(***************************************************************************)
(* A Dataset and the files of its folder: dataset_config.toml, which       *)
(* InitializeOnDisk writes, dataset.json, written at the end of a          *)
(* collection, and the two ways back into memory                           *)
(* (FSW-Payload/src/vision/dataset.cpp and the dataset part of             *)
(* src/core/data_handling.cpp).                                            *)
(*                                                                         *)
(* Of parameters that are treated alike one is modelled: target_frame_nb   *)
(* also for image_capture_rate, dataset_capture_mode also for the IMU mode *)
(* and the stage, maximum_period also for the IMU rate.  A folder is named *)
(* by a start time.  The statistics in dataset.json are left out.          *)
(***************************************************************************)
EXTENDS Integers, Sequences

CONSTANTS Configs,     \* arguments of the constructor
          Uploads,     \* configuration files that may be there from the start
          Edited,      \* the same for dataset.json
          Frames,      \* frame IDs
          Times,       \* start times that folders are named by
          Word,        \* 2^64: capture_start_time is a uint64_t
          MAX_SAMPLES, \* 255, the largest uint8_t
          ABSOLUTE_MINIMUM_PERIOD, ABSOLUTE_MAXIMUM_PERIOD,
          PERIODIC, PERIODIC_LDMK,  \* the first and the last valid capture mode
          Defaults,    \* of DatasetConfig
          WholeFiles   \* a file that was written is on the disk to its last line

\* In the order in which the writer of TOML sorts them; 4 cameras are 2 here.
Lines == <<"active_cameras", "capture_start_time", "dataset_capture_mode", "maximum_period",
           "target_frame_nb">>
Parameters == {Lines[n] : n \in 2..Len(Lines)}
NUM_CAMERAS == 2
OnOff == [1..NUM_CAMERAS -> {"on", "off"}]

\* Zero is no capture mode, and the defaults are valid.  A file that the payload has not
\* written is of no dataset; it may say anything that parses.
DatasetFilesAssumption ==
  /\ {Word, MAX_SAMPLES, PERIODIC} \subseteq Nat \ {0}
  /\ MAX_SAMPLES < Word /\ Times \subseteq 0..Word - 1
  /\ ABSOLUTE_MINIMUM_PERIOD \in 1..ABSOLUTE_MAXIMUM_PERIOD
  /\ PERIODIC <= PERIODIC_LDMK
  /\ \A c \in Configs :
       /\ c.parameters \in [Parameters -> Int]
       /\ c.parameters["capture_start_time"] \in 0..Word - 1
       /\ c.parameters["target_frame_nb"] \in 0..MAX_SAMPLES
       /\ c.cameras \in OnOff
  /\ Defaults["maximum_period"] \in ABSOLUTE_MINIMUM_PERIOD..ABSOLUTE_MAXIMUM_PERIOD
  /\ Defaults["target_frame_nb"] \in 1..MAX_SAMPLES
  /\ Defaults["dataset_capture_mode"] \in PERIODIC..PERIODIC_LDMK
  /\ WholeFiles \in BOOLEAN
  /\ \A x \in Uploads \cup Edited :
       /\ x.there /\ ~x.of.there
       /\ \A k \in DOMAIN x.values : x.values[k].num => x.values[k].v \in Int
  /\ \A toml \in Uploads : toml.cameras \in Seq({"on", "off", "other"})
  /\ \A json \in Edited :
       json.folder \in 0..Word - 1 /\ json.ids \in Seq(Frames) /\ json.proper \in BOOLEAN

VARIABLES dataset,   \* the Dataset in memory, if there is one
          disk,      \* the files of each folder
          origin     \* the dataset whose file the one in memory was read from, and which file

vars == <<dataset, disk, origin>>

None == [there |-> FALSE]

\* One folder may have files that the payload has not written.
Init ==
  /\ dataset = None
  /\ \E f \in Times, toml \in Uploads \cup {None}, json \in Edited \cup {None} :
       disk = [t \in Times |->
                 IF t = f /\ toml # None THEN [made |-> TRUE, toml |-> toml, json |-> json]
                 ELSE [made |-> FALSE, toml |-> None, json |-> None]]
  /\ origin = None

-----------------------------------------------------------------------------
(* Validation *)

validateRawParams(p) ==
  /\ p["maximum_period"] \in ABSOLUTE_MINIMUM_PERIOD..ABSOLUTE_MAXIMUM_PERIOD
  /\ p["target_frame_nb"] \in 1..MAX_SAMPLES
  /\ p["dataset_capture_mode"] \in PERIODIC..PERIODIC_LDMK

\* The same for values that have the types of the members.
isValidConfiguration(p) ==
  /\ p["maximum_period"] \in ABSOLUTE_MINIMUM_PERIOD..ABSOLUTE_MAXIMUM_PERIOD
  /\ p["target_frame_nb"] # 0
  /\ p["dataset_capture_mode"] \in PERIODIC..PERIODIC_LDMK

\* A value in a file can be taken for a parameter: most are unsigned.
Reads(x, signed) == x.num /\ (signed \/ x.v >= 0)

\* What a configuration file does not say is as in DatasetConfig.
WithDefaults(toml) ==
  [k \in Parameters |-> IF k \in DOMAIN toml.values THEN toml.values[k].v ELSE Defaults[k]]

\* The start time is an int64_t here.
isValidConfigurationFile(toml) ==
  /\ \A k \in DOMAIN toml.values :
       Reads(toml.values[k], k \in {"maximum_period", "capture_start_time"})
  /\ toml.cameras # <<>> => Len(toml.cameras) = NUM_CAMERAS
  /\ validateRawParams(WithDefaults(toml))

\* The conversions to the types of the members.
Cast(p) ==
  [p EXCEPT !["capture_start_time"] = @ % Word, !["target_frame_nb"] = @ % (MAX_SAMPLES + 1)]

-----------------------------------------------------------------------------
(* A dataset in memory *)

\* Dataset(const DatasetConfig&), which throws for an invalid configuration.
Create(c) ==
  /\ isValidConfiguration(c.parameters)
  /\ dataset' = [there |-> TRUE, folder |-> c.parameters["capture_start_time"],
                 parameters |-> c.parameters, cameras |-> c.cameras, ids |-> <<>>]
  /\ origin' = None
  /\ UNCHANGED disk

AddStoredFrameID(f) ==
  /\ dataset.there
  /\ \A n \in DOMAIN dataset.ids : dataset.ids[n] # f
  /\ dataset' = [dataset EXCEPT !.ids = Append(@, f)]
  /\ UNCHANGED <<disk, origin>>

Crash ==
  /\ dataset' = None
  /\ origin' = None
  /\ UNCHANGED disk

-----------------------------------------------------------------------------
(* The files *)

Numbers(p) == [k \in DOMAIN p |-> [num |-> TRUE, v |-> p[k]]]
Signed(t) == IF t < Word \div 2 THEN t ELSE t - Word

\* The first n lines of dataset_config.toml; a uint64_t is written as an int64_t.
CreateConfigurationFile(d, n) ==
  LET written == {Lines[k] : k \in 1..n}
      signed == [d.parameters EXCEPT !["capture_start_time"] = Signed(@)]
  IN [there |-> TRUE,
      of |-> [there |-> TRUE, whole |-> n = Len(Lines),
              parameters |-> d.parameters, cameras |-> d.cameras],
      values |-> Numbers([k \in Parameters \cap written |-> signed[k]]),
      cameras |-> IF "active_cameras" \in written THEN d.cameras ELSE <<>>]

\* The folder exists, or is made; if that fails nothing can be written into it.
InitializeOnDisk ==
  LET f == dataset.folder IN
  /\ dataset.there
  /\ f \in Times
  /\ \E n \in 0..Len(Lines) :
       /\ n = Len(Lines) \/ ~WholeFiles
       /\ disk' = [disk EXCEPT ![f].made = TRUE,
                               ![f].toml = CreateConfigurationFile(dataset, n)]
  /\ UNCHANGED <<dataset, origin>>

toJson(d) ==
  [there |-> TRUE,
   of |-> [there |-> TRUE, folder |-> d.folder, parameters |-> d.parameters, ids |-> d.ids],
   folder |-> d.folder, values |-> Numbers(d.parameters), ids |-> d.ids, proper |-> TRUE]

\* The path follows from the start time, whatever folder the dataset was read from.  A
\* cut file cannot be parsed and is no better than none.
StoreDatasetToDisk ==
  LET f == dataset.parameters["capture_start_time"] IN
  /\ dataset.there
  /\ f \in Times
  /\ disk[f].made
  /\ \/ disk' = [disk EXCEPT ![f].json = toJson(dataset)]
     \/ ~WholeFiles /\ disk' = [disk EXCEPT ![f].json = None]
  /\ UNCHANGED <<dataset, origin>>

-----------------------------------------------------------------------------
(* Reading back *)

ReadFolder_Now(f, now) ==
  LET toml == disk[f].toml
      p == [WithDefaults(toml) EXCEPT !["capture_start_time"] = now]
  IN /\ toml.there
     /\ isValidConfigurationFile(toml)
     /\ dataset' = [there |-> TRUE, folder |-> f, parameters |-> Cast(p), ids |-> <<>>,
                    cameras |-> [k \in 1..NUM_CAMERAS |->
                                   IF toml.cameras = <<>> \/ toml.cameras[k] = "other"
                                   THEN "on" ELSE toml.cameras[k]]]
     /\ origin' = [there |-> TRUE, of |-> toml.of, by |-> "toml"]
     /\ UNCHANGED disk

\* Dataset(folder): the start time is now, all cameras are on, unless the file says more.
ReadFolder(f, now) ==
  LET toml == disk[f].toml
      p == IF "capture_start_time" \in DOMAIN toml.values THEN WithDefaults(toml)
           ELSE [WithDefaults(toml) EXCEPT !["capture_start_time"] = now]
  IN /\ toml.there
     /\ isValidConfigurationFile(toml)
     /\ dataset' = [there |-> TRUE, folder |-> f, parameters |-> Cast(p), ids |-> <<>>,
                    cameras |-> [k \in 1..NUM_CAMERAS |->
                                   IF toml.cameras = <<>> \/ toml.cameras[k] = "other"
                                   THEN "on" ELSE toml.cameras[k]]]
     /\ origin' = [there |-> TRUE, of |-> toml.of, by |-> "toml"]
     /\ UNCHANGED disk

\* fromJson: every parameter has to be there, the cameras are not read.  A list with
\* entries that are not frame IDs throws when the other members have been assigned.
readDatasetFromDisk(f) ==
  LET json == disk[f].json
      p == [k \in Parameters |-> json.values[k].v]
  IN /\ dataset.there
     /\ json.there
     /\ Parameters \subseteq DOMAIN json.values
     /\ \A k \in Parameters : Reads(json.values[k], k = "maximum_period")
     /\ validateRawParams(p)
     /\ dataset' = [dataset EXCEPT !.folder = json.folder, !.parameters = Cast(p),
                                   !.ids = IF json.proper THEN json.ids ELSE @]
     /\ origin' = [there |-> TRUE, of |-> json.of, by |-> "json"]
     /\ UNCHANGED disk

Next ==
  \/ \E c \in Configs : Create(c)
  \/ \E f \in Frames : AddStoredFrameID(f)
  \/ Crash \/ InitializeOnDisk \/ StoreDatasetToDisk
  \/ \E f \in Times :
       \/ \E now \in Times : ReadFolder(f, now)
       \/ readDatasetFromDisk(f)

Spec == Init /\ [][Next]_vars

-----------------------------------------------------------------------------
\* The dataset in memory is valid.
ValidDataset ==
  /\ isValidConfiguration(dataset.parameters)
  /\ dataset.parameters["target_frame_nb"] \in 0..MAX_SAMPLES
  /\ dataset.parameters["capture_start_time"] \in 0..Word - 1
  /\ dataset.cameras \in OnOff

\* Every variable has its type.
TypeOK ==
  /\ dataset.there =>
       dataset.folder \in 0..Word - 1 /\ ValidDataset /\ dataset.ids \in Seq(Frames)
  /\ DOMAIN disk = Times
  /\ \A f \in Times : disk[f].toml.there \/ disk[f].json.there => disk[f].made
  /\ origin.there => dataset.there /\ origin.by \in {"toml", "json"}

\* A dataset in memory is valid, however it came there and whatever the files said; and one
\* that was read back from a file that the payload has written whole has the parameters
\* of the dataset it was written for, from dataset_config.toml also its cameras and from
\* dataset.json its folder and frames, with any crashes between (isValidConfigurationFile,
\* Dataset, CreateConfigurationFile, StoreDatasetToDisk, fromJson).
ReadBackIsStored ==
  dataset.there =>
    /\ ValidDataset
    /\ origin.there /\ origin.of.there =>
         CASE origin.by = "toml" ->
                origin.of.whole =>
                  /\ dataset.parameters = origin.of.parameters
                  /\ dataset.cameras = origin.of.cameras
           [] origin.by = "json" ->
                /\ dataset.parameters = origin.of.parameters
                /\ dataset.folder = origin.of.folder
                /\ SubSeq(dataset.ids, 1, Len(origin.of.ids)) = origin.of.ids
=============================================================================
