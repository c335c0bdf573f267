--------------------------- MODULE OrbitDetermination ---------------------------
(***************************************************************************)
(* The orbit determination job: RUN_OD starts one detached worker, which   *)
(* inspects the dataset, extracts the landmark rows of its frames into     *)
(* landmark_measurements.csv, loads them back, and solves, rejecting the   *)
(* rows whose residual is too large, until none is, the limit of           *)
(* iterations is reached or the solver fails.                              *)
(*                                                                         *)
(* A row is named by the frame and the mark it comes from.  The solver     *)
(* (IPOPT) is external: it fails, or gives a residual for every row, each  *)
(* small or large.  The folder is read twice, file by file, while a        *)
(* collection may add frames to it and a reprocessing of the dataset,      *)
(* which is a process of its own, write them anew.                         *)
(***************************************************************************)
EXTENDS Integers, Sequences, FiniteSets, SequencesExt, NumberLists

CONSTANTS
  Jobs,                         \* bound: RUN_OD commands
  Frames,                       \* frames of the dataset, in the order of their names
  Marks,                        \* what a frame's landmarks may be: TRUE is usable
  Versions,                     \* ldnet versions a frame may have been processed with
  Own,                          \* the versions that frames are written with meanwhile
  OD_MIN_LANDMARK_MEASUREMENTS,
  max_od_iterations,
  Collecting,                   \* the dataset is being collected or reprocessed
  DiskFull,                     \* writing the csv may stop early, unnoticed
  ThreadFails                   \* the thread of the worker may fail to start

ODAssumption ==
  /\ Jobs \in Nat
  /\ Frames \in Nat \ {0}
  /\ Marks \subseteq Seq(BOOLEAN)
  /\ Versions \subseteq Nat \* 0: missing or invalid
  /\ Own \subseteq Versions \ {0}
  /\ OD_MIN_LANDMARK_MEASUREMENTS \in Nat \ {0}
  /\ max_od_iterations \in Nat \ {0}
  /\ {Collecting, DiskFull, ThreadFails} \subseteq BOOLEAN

VARIABLES
  jobs,              \* RUN_OD commands accepted
  g_od_run_status,
  g_od_result,
  frames,            \* frames[f]: the frame's json file
  csv,               \* landmark_measurements.csv
  step,              \* where the worker is
  out,               \* the worker's result
  files, inferred_ld_version, lm_rows, group_starts_vec,
  unread,            \* the files that the pass over them has before it
  rewritten,         \* history: <<frame, version>> written during the two passes
  measurements,      \* what was loaded
  active, active_original_indices, outlier_flags, iteration,
  residuals          \* landmark_residuals of the result, by original row

dataset == <<frames, rewritten>>
control == <<jobs, g_od_run_status, g_od_result>>
prepared == <<files, unread, inferred_ld_version, lm_rows, group_starts_vec>>
rejection == <<active, active_original_indices, outlier_flags, iteration, residuals>>
vars == <<control, dataset, csv, step, out, prepared, measurements, rejection>>

-----------------------------------------------------------------------------
Processed(v) == [text: {"LDNeted"}, version: {v}, marks: Marks]
Unready(t) == [text |-> t, version |-> 0, marks |-> <<>>]
NaN == [frame |-> 0, mark |-> 0, version |-> 0]
Empty == [rows |-> <<>>, starts |-> <<>>]
Nothing == [code |-> "OK", stage |-> "DATASET_NOT_AVAILABLE", job |-> 0]

\* A dataset holds any mixture of frames: it may have been reprocessed with
\* other models, and not to its end.
Init ==
  /\ frames \in [1..Frames ->
       {Unready("none"), Unready("unprocessed")} \cup UNION {Processed(v): v \in Versions}]
  /\ jobs = 0 /\ g_od_run_status = "NOT_STARTED" /\ g_od_result = Nothing
  /\ csv = <<>> /\ step = "idle" /\ out = Nothing
  /\ files = {} /\ unread = {} /\ rewritten = {}
  /\ inferred_ld_version = 0 /\ lm_rows = <<>> /\ group_starts_vec = <<>>
  /\ measurements = Empty
  /\ active = Empty /\ active_original_indices = <<>> /\ outlier_flags = <<>>
  /\ iteration = 0 /\ residuals = <<>>

MarksIn(F) == FoldSeq(+, 0, [f \in 1..Frames |-> IF f \in F THEN Len(frames[f].marks) ELSE 0])
LDNeted(F) == {f \in F: frames[f].text = "LDNeted" /\ frames[f].marks # <<>>}
Existing == {f \in 1..Frames: frames[f].text # "none"}

-----------------------------------------------------------------------------
(* The dataset being collected, or reprocessed. *)

\* ofstream: the file exists before its text is complete.
CollectorOpens(f) ==
  /\ Collecting /\ frames[f].text # "torn"
  /\ frames' = [frames EXCEPT ![f] = Unready("torn")]
  /\ UNCHANGED <<control, rewritten, csv, step, out, prepared, measurements, rejection>>

CollectorWrites(f) ==
  /\ frames[f].text = "torn"
  /\ \E v \in Own: \E json \in Processed(v):
       /\ frames' = [frames EXCEPT ![f] = json]
       /\ rewritten' = IF step \in {"infer", "extract"} THEN rewritten \cup {<<f, v>>}
                                                      ELSE rewritten
  /\ UNCHANGED <<control, csv, step, out, prepared, measurements, rejection>>

-----------------------------------------------------------------------------
(* The commands. *)

\* start_od_job; the result is reset under the lock.
Accept ==
  /\ jobs < Jobs
  /\ g_od_run_status # "RUNNING"
  /\ jobs' = jobs + 1
  /\ g_od_run_status' = "RUNNING"
  /\ g_od_result' = [Nothing EXCEPT !.job = jobs + 1]

RunOD ==
  /\ Accept
  /\ step' = "inspect" /\ out' = [Nothing EXCEPT !.job = jobs + 1]
  /\ UNCHANGED <<dataset, csv, prepared, measurements, rejection>>

\* std::thread throws: RUN_OD is refused, but the status stays RUNNING.
RunODWithoutThread ==
  /\ ThreadFails
  /\ Accept
  /\ UNCHANGED <<dataset, csv, step, out, prepared, measurements, rejection>>

-----------------------------------------------------------------------------
(* RunODOnDataset. *)

Go(next) == step' = next
FailsWith(code) == out' = [out EXCEPT !.code = code, !.stage = "FAILED"] /\ step' = "publish"

InspectDatasetForOD ==
  /\ step = "inspect"
  /\ IF MarksIn(LDNeted(Existing)) < OD_MIN_LANDMARK_MEASUREMENTS
     THEN out' = [out EXCEPT !.code = "ODMEAS_NOT_VALID", !.stage = "DATASET_NOT_PROCESSED"]
          /\ Go("publish")
     ELSE out' = [out EXCEPT !.stage = "DATASET_PROCESSED"] /\ Go("config")
  /\ UNCHANGED <<control, dataset, csv, prepared, measurements, rejection>>

ReadODConfig ==
  /\ step = "config"
  /\ (Go("list") /\ UNCHANGED out) \/ FailsWith("CONFIG")
  /\ UNCHANGED <<control, dataset, csv, prepared, measurements, rejection>>

ListFrames ==
  /\ step = "list"
  /\ files' = Existing /\ unread' = Existing /\ rewritten' = {}
  /\ inferred_ld_version' = 0 /\ lm_rows' = <<>> /\ group_starts_vec' = <<>>
  /\ Go("infer")
  /\ UNCHANGED <<control, frames, csv, out, measurements, rejection>>

NextFile == Min(unread)

InferVersion_First ==
  /\ step = "infer" /\ unread # {}
  /\ unread' = unread \ {NextFile}
  /\ inferred_ld_version' =
       IF NextFile \in LDNeted(files) THEN frames[NextFile].version ELSE inferred_ld_version
  /\ UNCHANGED <<control, dataset, csv, step, out, files, lm_rows, group_starts_vec,
                 measurements, rejection>>

\* The first pass: the model of the first frame that has landmarks ...
InferVersion ==
  /\ step = "infer" /\ unread # {}
  /\ NextFile \in LDNeted(files) =>
       frames[NextFile].version # 0 /\ inferred_ld_version \in {0, frames[NextFile].version}
  /\ unread' = unread \ {NextFile}
  /\ inferred_ld_version' =
       IF NextFile \in LDNeted(files) THEN frames[NextFile].version ELSE inferred_ld_version
  /\ UNCHANGED <<control, dataset, csv, step, out, files, lm_rows, group_starts_vec,
                 measurements, rejection>>

\* ... is that of all of them, and valid.
InferRefuses ==
  /\ step = "infer" /\ unread # {} /\ NextFile \in LDNeted(files)
  /\ frames[NextFile].version = 0 \/ inferred_ld_version \notin {0, frames[NextFile].version}
  /\ FailsWith("ODMEAS_NOT_VALID")
  /\ UNCHANGED <<control, dataset, csv, prepared, measurements, rejection>>

InferEnds ==
  /\ step = "infer" /\ unread = {}
  /\ IF inferred_ld_version = 0 THEN FailsWith("ODMEAS_NOT_VALID") /\ UNCHANGED unread
                               ELSE Go("extract") /\ unread' = files /\ UNCHANGED out
  /\ UNCHANGED <<control, dataset, csv, files, inferred_ld_version, lm_rows,
                 group_starts_vec, measurements, rejection>>

\* A mark is usable if the bounding boxes of its region, in the inferred version,
\* can be loaded and name its class.
Usable(f, k) == frames[f].marks[k]

\* A mark that is not usable is left out; first_in_group is cleared by the first
\* row kept.  The version of the frame is not looked at again.
RowsOf(f) ==
  LET usable == Sorted({k \in DOMAIN frames[f].marks: Usable(f, k)})
  IN  [i \in DOMAIN usable |-> [frame |-> f, mark |-> usable[i], version |-> frames[f].version]]

\* The second pass over the same files.
Extract ==
  /\ step = "extract" /\ unread # {}
  /\ LET rows == IF NextFile \in LDNeted(files) THEN RowsOf(NextFile) ELSE <<>>
     IN  /\ lm_rows' = lm_rows \o rows
         /\ group_starts_vec' = group_starts_vec \o [i \in DOMAIN rows |-> i = 1]
  /\ unread' = unread \ {NextFile}
  /\ UNCHANGED <<control, dataset, csv, step, out, files, inferred_ld_version,
                 measurements, rejection>>

ExtractEnds ==
  /\ step = "extract" /\ unread = {}
  /\ IF lm_rows = <<>> THEN FailsWith("ODMEAS_NOT_VALID") ELSE Go("csv") /\ UNCHANGED out
  /\ UNCHANGED <<control, dataset, csv, prepared, measurements, rejection>>

\* Numbers the groups of a sequence of starts: 0, 0, 1, ...
Groups(starts) ==
  [i \in DOMAIN starts |-> Cardinality({j \in 1..i: starts[j]}) - 1]

\* Opening the file is checked, writing it is not.
WriteCsv ==
  /\ step = "csv"
  /\ LET all == [i \in DOMAIN lm_rows |->
                   [row |-> lm_rows[i], group |-> Groups(group_starts_vec)[i]]]
     IN  \E n \in IF DiskFull THEN 0..Len(all) ELSE {Len(all)}: csv' = SubSeq(all, 1, n)
  /\ Go("imu")
  /\ UNCHANGED <<control, dataset, out, prepared, measurements, rejection>>

CsvFails ==
  /\ step = "csv"
  /\ FailsWith("FILE_NOT_AVAILABLE")
  /\ UNCHANGED <<control, dataset, csv, prepared, measurements, rejection>>

\* imu_data.csv is missing, or has no row that parses.
ParseImu ==
  /\ step = "imu"
  /\ \/ out' = [out EXCEPT !.stage = "MEASUREMENTS_READY"] /\ Go("load")
     \/ FailsWith("FILE_DOES_NOT_EXIST")
     \/ FailsWith("ODMEAS_NOT_VALID")
  /\ UNCHANGED <<control, dataset, csv, prepared, measurements, rejection>>

\* A new group starts where the group's number differs from the row before.
Starts(group) == [i \in DOMAIN group |-> group[i] # IF i = 1 THEN -1 ELSE group[i - 1]]

LoadODMeasurementsFromDataset ==
  /\ step = "load"
  /\ IF csv = <<>>
     THEN FailsWith("ODMEAS_NOT_VALID") /\ UNCHANGED <<measurements, rejection>>
     ELSE /\ measurements' = [rows |-> [i \in DOMAIN csv |-> csv[i].row],
                              starts |-> Starts([i \in DOMAIN csv |-> csv[i].group])]
          /\ active' = measurements'
          /\ active_original_indices' = [i \in DOMAIN csv |-> i]
          /\ outlier_flags' = [i \in DOMAIN csv |-> 0]
          /\ iteration' = 0 /\ residuals' = <<>>
          /\ Go("solve") /\ UNCHANGED out
  /\ UNCHANGED <<control, dataset, csv, prepared>>

-----------------------------------------------------------------------------
(* solve_batch_opt_with_outlier_rejection. *)

n_active == Len(active.rows)

\* What ODMeasurements::Validate checks of the rows; its other checks may fail too.
Valid == n_active >= OD_MIN_LANDMARK_MEASUREMENTS /\ active.starts[1]

EndsWith(code) ==
  /\ step = "solve"
  /\ out' = [out EXCEPT !.code = code]
  /\ Go("results")
  /\ UNCHANGED <<control, dataset, csv, prepared, measurements, rejection>>

\* Before the problem is built: measurements or a bias mode that cannot be used.
SolverRejects ==
  \/ EndsWith("ODMEAS_NOT_VALID")
  \/ Valid /\ EndsWith("BATCH_OPT_BUILD_FAILED")

\* IPOPT throws, or its solution is not finite or has no unit quaternions.
SolverFails ==
  /\ Valid
  /\ EndsWith("BATCH_OPT_NO_CONVERGENCE") \/ EndsWith("BATCH_OPT_INVALID_OUTPUT")

\* One residual for each row from the first start on, in their order: the k-th is
\* that of the row it is computed from.
landmark_residuals ==
  Sorted({k \in 1..n_active: \E j \in 1..k: active.starts[j]})

\* No residual too large, or no iteration left: residuals of the rows that are
\* active go to their original places, those of the outliers are evaluated again.
SolverEnds ==
  /\ step = "solve" /\ Valid
  /\ residuals' = [i \in DOMAIN measurements.rows |->
       IF \E k \in 1..n_active: active_original_indices[k] = i
       THEN active.rows[landmark_residuals[
              CHOOSE k \in 1..n_active: active_original_indices[k] = i]]
       ELSE IF outlier_flags[i] = 1 THEN measurements.rows[i] ELSE NaN]
  /\ Go("results")
  /\ UNCHANGED <<control, dataset, csv, out, prepared, measurements, active,
                 active_original_indices, outlier_flags, iteration>>

\* 1, 2, ... of the rows kept.
Kept(rejected) == Sorted((1..n_active) \ rejected)

Flag(rejected) ==
  [i \in DOMAIN outlier_flags |->
     IF \E k \in rejected: active_original_indices[k] = i THEN 1 ELSE outlier_flags[i]]

filter_landmark_measurements_Copies(meas, keep) ==
  [rows |-> [j \in DOMAIN keep |-> meas.rows[keep[j]]],
   starts |-> [j \in DOMAIN keep |-> meas.starts[keep[j]]]]

filter_landmark_measurements(meas, keep) ==
  [rows |-> [j \in DOMAIN keep |-> meas.rows[keep[j]]],
   starts |-> Starts([j \in DOMAIN keep |-> Groups(meas.starts)[keep[j]]])]

Reject ==
  /\ step = "solve" /\ Valid
  /\ iteration < max_od_iterations - 1
  /\ \E rejected \in SUBSET (1..n_active) \ {{}}:
       /\ outlier_flags' = Flag(rejected)
       /\ active_original_indices' =
            [j \in DOMAIN Kept(rejected) |-> active_original_indices[Kept(rejected)[j]]]
       /\ active' = filter_landmark_measurements(active, Kept(rejected))
  /\ iteration' = iteration + 1
  /\ UNCHANGED <<control, dataset, csv, step, out, prepared, measurements, residuals>>

-----------------------------------------------------------------------------
\* The code of a failed solve is kept, and its results are written too.
WriteBatchODResults ==
  /\ step = "results"
  /\ \/ /\ out' = [out EXCEPT !.stage = IF out.code = "OK" THEN "OD_COMPLETED" ELSE "FAILED"]
        /\ Go("publish")
     \/ FailsWith("BATCH_OPT_INVALID_OUTPUT")
  /\ UNCHANGED <<control, dataset, csv, prepared, measurements, rejection>>

WorkerThrows ==
  /\ step \notin {"idle", "publish"}
  /\ out' = [out EXCEPT !.code = "BATCH_OPT_BUILD_FAILED", !.stage = "FAILED"]
  /\ Go("publish")
  /\ UNCHANGED <<control, dataset, csv, prepared, measurements, rejection>>

\* The local state of the worker ends with it.
Publish ==
  /\ step = "publish"
  /\ g_od_result' = out
  /\ g_od_run_status' = IF out.code = "OK" THEN "COMPLETED" ELSE "FAILED"
  /\ step' = "idle" /\ out' = Nothing
  /\ files' = {} /\ unread' = {} /\ rewritten' = {}
  /\ inferred_ld_version' = 0 /\ lm_rows' = <<>> /\ group_starts_vec' = <<>>
  /\ measurements' = Empty
  /\ active' = Empty /\ active_original_indices' = <<>> /\ outlier_flags' = <<>>
  /\ iteration' = 0 /\ residuals' = <<>>
  /\ UNCHANGED <<jobs, frames, csv>>

Worker ==
  \/ InspectDatasetForOD \/ ReadODConfig
  \/ ListFrames \/ InferVersion \/ InferRefuses \/ InferEnds
  \/ Extract \/ ExtractEnds \/ WriteCsv \/ CsvFails \/ ParseImu
  \/ LoadODMeasurementsFromDataset
  \/ SolverRejects \/ SolverFails \/ SolverEnds \/ Reject
  \/ WriteBatchODResults \/ WorkerThrows \/ Publish

Next ==
  \/ RunOD \/ RunODWithoutThread \/ Worker
  \/ \E f \in 1..Frames: CollectorOpens(f) \/ CollectorWrites(f)

Spec == Init /\ [][Next]_vars

-----------------------------------------------------------------------------
Steps == {"idle", "inspect", "config", "list", "infer", "extract", "csv", "imu", "load",
          "solve", "results", "publish"}
Rows == [frame: 1..Frames, mark: Nat, version: Versions]

TypeOK ==
  /\ jobs \in 0..Jobs /\ step \in Steps
  /\ g_od_run_status \in {"NOT_STARTED", "RUNNING", "COMPLETED", "FAILED"}
  /\ g_od_result.job \in 0..jobs
  /\ \A f \in 1..Frames: frames[f] \in {Unready(t): t \in {"none", "torn", "unprocessed"}}
                              \cup UNION {Processed(v): v \in Versions}
  /\ files \subseteq 1..Frames /\ unread \subseteq files
  /\ rewritten \subseteq (1..Frames) \X Own /\ inferred_ld_version \in Versions \cup {0}
  /\ lm_rows \in Seq(Rows) /\ group_starts_vec \in Seq(BOOLEAN)
  /\ csv \in Seq([row: Rows, group: Nat])
  /\ \A m \in {measurements, active}: m.rows \in Seq(Rows) /\ m.starts \in Seq(BOOLEAN)
  /\ active_original_indices \in Seq(Nat) /\ outlier_flags \in Seq({0, 1})
  /\ iteration \in 0..max_od_iterations

\* The solver sees rows of the one model that was inferred (od_alg.cpp:166-201),
\* although the second pass over the files (:253-344) does not check the model
\* again: a row of another comes only from a frame that was written with that
\* model while the two passes went on.
OneModel ==
  step = "solve" =>
    \A i \in DOMAIN active.rows: LET row == active.rows[i] IN
      row.version = inferred_ld_version \/ <<row.frame, row.version>> \in rewritten

\* Whatever was rejected in whatever iteration: each row loaded is either flagged or
\* active at the index that names it; active rows share a group exactly when they
\* are of one frame (a group is one state of the trajectory); and at the end each
\* row has its own residual (batch_optimization.cpp:961-985 and :1031-1096).
RejectionKeepsRows ==
  step \in {"solve", "results"} =>
    /\ Len(active_original_indices) = n_active
    /\ \A k \in 1..n_active: active.rows[k] = measurements.rows[active_original_indices[k]]
    /\ \A i \in DOMAIN measurements.rows:
         outlier_flags[i] = 0 <=> \E k \in 1..n_active: active_original_indices[k] = i
    /\ \A j, k \in 1..n_active:
         Groups(active.starts)[j] = Groups(active.starts)[k]
           <=> active.rows[j].frame = active.rows[k].frame
    /\ residuals # <<>> => residuals = measurements.rows

=============================================================================
