------------------------------- MODULE MCStorage -------------------------------
(***************************************************************************)
(* Two instances of FileTransfer, which share its variables, and instances *)
(* of RadioFile and DatasetFiles in one run.  A behaviour is one of one    *)
(* instance: the other modules stay in their initial states.               *)
(*                                                                         *)
(*   "different"  two images and two batches;                              *)
(*   "repeated"   one image requested twice, a batch that starts at zero   *)
(*                and a long one;                                          *)
(*   "packets"    packet files of images and texts;                        *)
(*   "folders"    two datasets and their folders;                          *)
(*   "spoilt"     files of a dataset that have been edited or cut.         *)
(***************************************************************************)
EXTENDS FileTransfer, Integers, TLC

CONSTANTS img1, img2, bat1, bat2, file1, file2

VARIABLES instance,
          encoder, loaded, bin, out,   \* RadioFile
          dataset, disk, origin        \* DatasetFiles

MCImages == {img1, img2}
MCBatches == {bat1, bat2}
MCFiles == {file1, file2}

-----------------------------------------------------------------------------
\* Two images; the second file fills the range of packet numbers.
MCFileOf == img1 :> file1 @@ img2 :> file2
MCRecords == file1 :> 2 @@ file2 :> 3
\* Less than the magic.
MCFlushed == {3}
\* Past the end of file1; past the end of file2 and of the range.
MCStart == bat1 :> 2 @@ bat2 :> 3
MCCount == bat1 :> 2 @@ bat2 :> 2

\* One file for both images; the first batch is refused, the second runs past the end.
RepeatedFileOf == img1 :> file2 @@ img2 :> file2
RepeatedStart == bat1 :> 0 @@ bat2 :> 2
RepeatedCount == bat1 :> 1 @@ bat2 :> 3
\* Less than the magic, and one record with a part of the next.
RepeatedFlushed == {3, 300}

Repeated == INSTANCE FileTransfer
  WITH FileOf <- RepeatedFileOf, Start <- RepeatedStart, Count <- RepeatedCount,
       Flushed <- RepeatedFlushed, MaxClock <- 0, MaxLost <- 0

ASSUME RepeatedInstance ==
  /\ RepeatedFileOf \in [Images -> Files]
  /\ RepeatedStart \in [Batches -> 0..Modulus - 1]
  /\ RepeatedCount \in [Batches -> Nat]
  /\ RepeatedFlushed \subseteq Nat

-----------------------------------------------------------------------------
\* One and two tiles, of one to three fragments; texts of up to three records.
Packets == INSTANCE RadioFile
  WITH Images <- {<<3>>, <<4, 1>>, <<2, 5>>},
       Texts <- {[size |-> s, bom |-> b] : s \in {3, 4, 9}, b \in BOOLEAN}
                  \cup {[size |-> 0, bom |-> FALSE]},
       DH_FILE_HEADER_SIZE <- 2, DH_PACKET_HEADER_SIZE <- 2, DH_MAX_PAYLOAD_SIZE <- 4,
       PACKET_HEADER_SIZE <- 2, MAX_PAYLOAD_PER_PACKET <- 2, FragRange <- 3,
       DiskFull <- TRUE

-----------------------------------------------------------------------------
Parameters(t, m, n, c) ==
  "capture_start_time" :> t @@ "maximum_period" :> m @@ "target_frame_nb" :> n
    @@ "dataset_capture_mode" :> c
Number(x) == [num |-> TRUE, v |-> x]

\* A start time that is negative as an int64_t.
Early == [parameters |-> Parameters(1, 1, 3, 1), cameras |-> <<"on", "off">>]
Late == [parameters |-> Parameters(6, 2, 1, 2), cameras |-> <<"off", "on">>]
Invalid == [parameters |-> Parameters(6, 3, 0, 2), cameras |-> <<"off", "on">>]

Toml(values, cameras) ==
  [there |-> TRUE, of |-> [there |-> FALSE], values |-> values, cameras |-> cameras]
Empty == Toml(<<>>, <<>>)

\* A number that is zero as a uint8_t, a negative time, a wrong type, a value that is out
\* of range, and a wrong number of cameras.
Uploads ==
  {Empty, Toml("target_frame_nb" :> Number(4), <<>>),
   Toml("capture_start_time" :> Number(-3), <<"off", "other">>),
   Toml("dataset_capture_mode" :> [num |-> FALSE, v |-> 1], <<>>),
   Toml("maximum_period" :> Number(-1), <<>>),
   Toml("dataset_capture_mode" :> Number(2), <<"off">>)}

Json(values, proper) ==
  [there |-> TRUE, of |-> [there |-> FALSE], folder |-> 6, ids |-> <<"a">>,
   values |-> values, proper |-> proper]
Numbers(values) == [k \in DOMAIN values |-> Number(values[k])]

\* Frame IDs that cannot be read, a value out of range, a key that is missing.
Edited ==
  {Json(Numbers(Parameters(1, 2, 2, 2)), FALSE), Json(Numbers(Parameters(1, 2, 4, 2)), TRUE),
   Json("maximum_period" :> Number(1), TRUE)}

Folders == INSTANCE DatasetFiles
  WITH Configs <- {Early, Late, Invalid}, Uploads <- {Empty}, Edited <- {},
       Frames <- {"a"}, Times <- {1, 6}, Word <- 8, MAX_SAMPLES <- 3,
       ABSOLUTE_MINIMUM_PERIOD <- 1, ABSOLUTE_MAXIMUM_PERIOD <- 2,
       PERIODIC <- 1, PERIODIC_LDMK <- 2,
       Defaults <- Parameters(0, 2, 3, 1), WholeFiles <- TRUE

Spoilt == INSTANCE DatasetFiles
  WITH Configs <- {Early}, Uploads <- Uploads, Edited <- Edited,
       Frames <- {"a", "b"}, Times <- {1}, Word <- 8, MAX_SAMPLES <- 3,
       ABSOLUTE_MINIMUM_PERIOD <- 1, ABSOLUTE_MAXIMUM_PERIOD <- 2,
       PERIODIC <- 1, PERIODIC_LDMK <- 2,
       Defaults <- Parameters(0, 2, 3, 1), WholeFiles <- FALSE

ASSUME PacketInstance == Packets!RadioFileAssumption
ASSUME DatasetInstances ==
  Folders!DatasetFilesAssumption /\ Spoilt!DatasetFilesAssumption

-----------------------------------------------------------------------------
packets == <<encoder, loaded, bin, out>>
datasets == <<dataset, disk, origin>>
all == <<vars, instance, packets, datasets>>

MCInit ==
  /\ instance \in {"different", "repeated", "packets", "folders", "spoilt"}
  /\ Init
  /\ Packets!Init
  /\ IF instance = "spoilt" THEN Spoilt!Init ELSE Folders!Init
  /\ instance \in {"folders", "spoilt"} \/ \A t \in DOMAIN disk : ~disk[t].made

MCNext ==
  /\ \/ instance = "different" /\ Next /\ UNCHANGED <<packets, datasets>>
     \/ instance = "repeated" /\ Repeated!Next /\ UNCHANGED <<packets, datasets>>
     \/ instance = "packets" /\ Packets!Next /\ UNCHANGED <<vars, datasets>>
     \/ instance = "folders" /\ Folders!Next /\ UNCHANGED <<vars, packets>>
     \/ instance = "spoilt" /\ Spoilt!Next /\ UNCHANGED <<vars, packets>>
  /\ UNCHANGED instance

MCSpec ==
  /\ MCInit /\ [][MCNext]_all
  /\ \A b \in MCBatches : WF_vars(instance = "different" /\ BatchStep(b))
  /\ WF_vars(instance = "different" /\ (Send \/ SendFails))

-----------------------------------------------------------------------------
\* The type invariants of the three modules.
AllTypesOK ==
  /\ TypeOK
  /\ Packets!TypeOK
  /\ IF instance = "spoilt" THEN Spoilt!TypeOK ELSE Folders!TypeOK

\* A batch that found a file ready is answered, when the ground waits for it,
\* unless one of its own messages was lost on the way out: no other failure, and
\* no other request, leaves it without an answer.
RequestsAnswered ==
  \A b \in MCBatches :
    (instance = "different" /\ ground_waits /\ pc[b] = "total")
      ~> Answered(b) \/ \E m \in lost : m.cmd = b

\* ReadBackIsOriginal, for files that may lose any part of their end.
ReadBackIsOriginal == Packets!ReadBackIsOriginal

\* ReadBackIsStored, with two folders, and with files that were edited or cut.
ReadBackIsStored ==
  IF instance = "spoilt" THEN Spoilt!ReadBackIsStored ELSE Folders!ReadBackIsStored
=============================================================================
