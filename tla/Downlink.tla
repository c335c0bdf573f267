-------------------------------- MODULE Downlink --------------------------------
(***************************************************************************)
(* The Python payload: ExperimentThread takes experiments from a queue,    *)
(* runs them and downlinks their files with FileDownlinkManager;           *)
(* CommandThread handles what comes from the mainboard.                    *)
(*                                                                         *)
(* A file is a number of fragments, sent in bursts.  The mainboard and     *)
(* splat, the library of the link, are external: the mainboard             *)
(* acknowledges CREATE_TRANS and INIT_TRANS, and answers each burst with   *)
(* one CONFIRM_LAST_BATCH, the positions in the burst of what it got.      *)
(* Packets may be lost, and arrive in order.  Acknowledgements of the      *)
(* commands of the mainboard, and the telemetry thread, are left out.      *)
(***************************************************************************)
EXTENDS Integers, Sequences, FiniteSets, NumberLists

CONSTANTS
  Experiments,        \* the commands the mainboard sends
  Key,                \* Key[e]: name and arguments
  Runner,             \* Runner[e]: how it is run
  Images,             \* bound: images that a dataset has thumbnails of
  Files,              \* bound: files of an experiment
  Fragments,          \* fragments of a file
  burst_size,
  max_stalled_rounds,
  MaxLosses,          \* bound: packets lost
  MaxResends,         \* bound: CREATE_TRANS and INIT_TRANS sent again
  Repeats             \* the mainboard may send a CONFIRM_LAST_BATCH again

DownlinkAssumption ==
  /\ "none" \notin Experiments
  /\ Key \in [Experiments -> STRING]
  /\ Runner \in [Experiments -> {"images", "collection", "processing", "od"}]
  /\ Images \in Nat
  /\ {Files, Fragments, burst_size, max_stalled_rounds} \subseteq Nat \ {0}
  /\ {MaxLosses, MaxResends} \subseteq Nat
  /\ Repeats \in BOOLEAN

VARIABLES
  tx, rx,            \* the packets queued or on the line, per direction
  losses,
  \* the mainboard
  unsent,            \* experiments not sent yet
  sat,               \* its transaction
  received,          \* received[f]: fragments of file f that it has
  \* shared by the threads
  experiment_queue, stop_event, payload_state,
  ack_event,         \* create_transaction_ack_event, init_transaction_ack_event
  update_event,      \* update_last_batch_event
  update_data,       \* update_last_batch_shared["data"]
  handling,          \* where CommandThread is
  \* ExperimentThread
  pc, active,        \* the experiment being run
  last_key, in_grace,
  file, last_file,   \* the file being sent, and the number of files
  missing_fragments, batch, stalled_rounds, resends, confirm,
  reported,          \* files that send_file has reported as sent
  sent_set,          \* downlinked_thumbnails.json of the dataset
  shows              \* shows[f]: the image that file f is a thumbnail of, or 0

line == <<tx, rx, losses>>
mainboard == <<unsent, sat, received>>
events == <<ack_event, update_event, update_data>>
thread == <<active, last_key, in_grace>>
transaction == <<missing_fragments, batch, stalled_rounds, resends, confirm>>
shared == <<experiment_queue, stop_event, payload_state>>
thumbnails == <<sent_set, shows>>
vars == <<line, mainboard, shared, events, handling, pc, thread, file, last_file,
          transaction, reported, thumbnails>>

-----------------------------------------------------------------------------
File == Experiments \X (1..Files)
ThisFile == <<active, file>>
None == {0}  \* no data: 0 is no position in a burst
Closed == [file |-> <<"none", 0>>, missing |-> {}, got |-> {}, due |-> FALSE, last |-> None]

Init ==
  /\ tx = <<>> /\ rx = <<>> /\ losses = 0
  /\ unsent = Experiments /\ sat = Closed
  /\ received = [f \in File |-> {}]
  /\ experiment_queue = <<>> /\ stop_event = FALSE /\ payload_state = "IDLE"
  /\ ack_event = [kind \in {"CREATE", "INIT"} |-> FALSE]
  /\ update_event = FALSE /\ update_data = None
  /\ handling = "none"
  /\ pc = "idle" /\ active = "none" /\ last_key = "none" /\ in_grace = FALSE
  /\ file = 0 /\ last_file = 0
  /\ missing_fragments = {} /\ batch = <<>> /\ stalled_rounds = 0
  /\ resends = 0 /\ confirm = None
  /\ reported = {}
  /\ sent_set = {} /\ shows = [f \in File |-> 0]

\* The first missing fragments.
Burst(missing) ==
  LET n == Cardinality(missing)
  IN  SubSeq(Sorted(missing), 1, IF n < burst_size THEN n ELSE burst_size)

Packet(kind) == [kind |-> kind, file |-> ThisFile, fragment |-> 0]
Fragment(n) == [kind |-> "FRAGMENT", file |-> ThisFile, fragment |-> n]
Answer(kind) == [kind |-> kind, bits |-> {}, experiment |-> "none"]

-----------------------------------------------------------------------------
(* The line and the mainboard, which are external. *)

\* A burst that does not arrive at all is answered like one that does.
LoseTx ==
  /\ tx # <<>> /\ losses < MaxLosses
  /\ tx' = Tail(tx) /\ losses' = losses + 1
  /\ sat' = [sat EXCEPT !.due = @ \/ Head(tx).kind = "FRAGMENT"]
  /\ UNCHANGED <<rx, unsent, received, shared, events, handling, pc, thread, file, last_file,
                 transaction, reported, thumbnails>>

LoseRx ==
  /\ rx # <<>> /\ losses < MaxLosses
  /\ rx' = Tail(rx) /\ losses' = losses + 1
  /\ UNCHANGED <<tx, mainboard, shared, events, handling, pc, thread, file, last_file,
                 transaction, reported, thumbnails>>

\* INIT_TRANS and the fragments name the transaction by its tid, always 0: they are
\* taken for whatever file the mainboard has open.
SatReceives ==
  /\ tx # <<>> /\ ~stop_event
  /\ tx' = Tail(tx)
  /\ LET p == Head(tx) IN
       CASE p.kind = "CREATE" ->
              sat' = [Closed EXCEPT !.file = p.file] /\ rx' = Append(rx, Answer("CREATE"))
              /\ UNCHANGED received
         [] p.kind = "INIT" ->
              sat' = [sat EXCEPT !.missing = 1..Fragments, !.got = {}]
              /\ rx' = Append(rx, Answer("INIT")) /\ UNCHANGED received
         [] p.kind = "FRAGMENT" /\ sat.file \in File ->
              /\ sat' = [sat EXCEPT !.got = @ \cup {p.fragment}, !.due = TRUE]
              /\ received' = [received EXCEPT ![sat.file] =
                                IF sat.file = p.file THEN @ \cup {p.fragment} ELSE @]
              /\ UNCHANGED rx
         [] OTHER -> UNCHANGED <<sat, received, rx>>
  /\ UNCHANGED <<losses, unsent, shared, events, handling, pc, thread, file, last_file,
                 transaction, reported, thumbnails>>

\* The burst is over: positions received, in the burst the mainboard expected.
SatConfirms ==
  /\ tx = <<>> /\ sat.due /\ ~stop_event
  /\ LET expected == Burst(sat.missing)
         bits == {i \in DOMAIN expected: expected[i] \in sat.got}
     IN  /\ rx' = Append(rx, [Answer("CONFIRM") EXCEPT !.bits = bits])
         /\ sat' = [sat EXCEPT !.missing = @ \ sat.got, !.got = {}, !.due = FALSE,
                               !.last = bits]
  /\ UNCHANGED <<tx, losses, unsent, received, shared, events, handling, pc, thread, file,
                 last_file, transaction, reported, thumbnails>>

\* As the mainboard does for a command whose acknowledgement it has not seen.
SatRepeats ==
  /\ Repeats /\ sat.last # None /\ ~stop_event
  /\ rx' = Append(rx, [Answer("CONFIRM") EXCEPT !.bits = sat.last])
  /\ sat' = [sat EXCEPT !.last = None]
  /\ UNCHANGED <<tx, losses, unsent, received, shared, events, handling, pc, thread, file,
                 last_file, transaction, reported, thumbnails>>

SatCommands ==
  /\ \E e \in unsent:
       /\ unsent' = unsent \ {e}
       /\ rx' = Append(rx, [Answer("EXPERIMENT") EXCEPT !.experiment = e])
  /\ UNCHANGED <<tx, losses, sat, received, shared, events, handling, pc, thread, file,
                 last_file, transaction, reported, thumbnails>>

SatTurnsOff ==
  /\ unsent = {} /\ ~stop_event /\ handling = "none"
  /\ \A i \in DOMAIN rx: rx[i].kind # "OFF"
  /\ rx' = Append(rx, Answer("OFF"))
  /\ UNCHANGED <<tx, losses, mainboard, shared, events, handling, pc, thread, file,
                 last_file, transaction, reported, thumbnails>>

-----------------------------------------------------------------------------
(* CommandThread. *)

Handling(kind) == ~stop_event /\ handling = "none" /\ rx # <<>> /\ Head(rx).kind = kind
Taken == rx' = Tail(rx) /\ UNCHANGED <<tx, losses>>

dispatch_ack ==
  \E kind \in {"CREATE", "INIT"}:
    /\ Handling(kind) /\ Taken
    /\ ack_event' = [ack_event EXCEPT ![kind] = TRUE]
    /\ UNCHANGED <<mainboard, shared, update_event, update_data, handling, pc, thread, file,
                   last_file, transaction, reported, thumbnails>>

_handle_experiment ==
  /\ Handling("EXPERIMENT") /\ Taken
  /\ experiment_queue' = Append(experiment_queue, Head(rx).experiment)
  /\ UNCHANGED <<mainboard, stop_event, payload_state, events, handling, pc, thread, file,
                 last_file, transaction, reported, thumbnails>>

\* The data under the lock, then the event; data not consumed yet is overwritten.
_handle_update_last_batch ==
  /\ Handling("CONFIRM") /\ Taken
  /\ update_data' = Head(rx).bits
  /\ handling' = "update"
  /\ UNCHANGED <<mainboard, shared, ack_event, update_event, pc, thread, file, last_file,
                 transaction, reported, thumbnails>>

SetUpdate ==
  /\ handling = "update"
  /\ update_event' = TRUE /\ handling' = "none"
  /\ UNCHANGED <<line, mainboard, shared, ack_event, update_data, pc, thread, file,
                 last_file, transaction, reported, thumbnails>>

_handle_turn_off_payload ==
  /\ Handling("OFF") /\ Taken
  /\ handling' = "drain"
  /\ UNCHANGED <<mainboard, shared, events, pc, thread, file, last_file, transaction,
                 reported, thumbnails>>

\* The queue is empty, or five seconds are over.
_drain_tx_then_shutdown ==
  /\ handling = "drain"
  /\ payload_state' = "OFF" /\ stop_event' = TRUE /\ handling' = "none"
  /\ UNCHANGED <<line, mainboard, experiment_queue, events, pc, thread, file, last_file,
                 transaction, reported, thumbnails>>

-----------------------------------------------------------------------------
(* ExperimentThread. *)

_is_duplicate(e) == Key[e] = last_key /\ in_grace

SkipsDuplicate ==
  /\ pc = "idle" /\ ~stop_event /\ experiment_queue # <<>>
  /\ _is_duplicate(Head(experiment_queue))
  /\ experiment_queue' = Tail(experiment_queue)
  /\ UNCHANGED <<line, mainboard, stop_event, payload_state, events, handling, pc, thread,
                 file, last_file, transaction, reported, thumbnails>>

TakesExperiment ==
  /\ pc = "idle" /\ ~stop_event /\ experiment_queue # <<>>
  /\ ~_is_duplicate(Head(experiment_queue))
  /\ experiment_queue' = Tail(experiment_queue)
  /\ active' = Head(experiment_queue)
  /\ pc' = "run"
  /\ UNCHANGED <<line, mainboard, stop_event, payload_state, events, handling, last_key,
                 in_grace, file, last_file, transaction, reported, thumbnails>>

GraceEnds ==
  /\ in_grace /\ in_grace' = FALSE
  /\ UNCHANGED <<line, mainboard, shared, events, handling, pc, active, last_key, file,
                 last_file, transaction, reported, thumbnails>>

\* The finally of run: what was run is remembered, however it ended.
Over(next) ==
  /\ active' = "none" /\ last_key' = Key[active] /\ in_grace' = TRUE
  /\ file' = 0 /\ last_file' = 0
  /\ missing_fragments' = {} /\ batch' = <<>> /\ stalled_rounds' = 0 /\ resends' = 0
  /\ confirm' = None
  /\ pc' = next

\* send_results: a file that fails ends the list.
Fails ==
  /\ payload_state' = "FAIL"
  /\ Over("idle")

-----------------------------------------------------------------------------
(* The runners. *)

Ran(kinds, from) ==
  /\ pc \in from /\ Runner[active] \in kinds
  /\ UNCHANGED <<experiment_queue, stop_event, handling, events, rx, losses, mainboard,
                 reported, sent_set>>
Step(kinds, from, to, state) ==
  /\ Ran(kinds, from)
  /\ pc' = to /\ payload_state' = state
  /\ UNCHANGED <<tx, thread, file, last_file, transaction, shows>>
Stays == payload_state' = payload_state
Silent == UNCHANGED <<tx, shows>>

UnknownMode == Ran({"images", "collection"}, {"run"}) /\ Stays /\ Silent /\ Over("idle")

StartsCameras == Step({"images"}, {"run"}, "cameras", "TURNING_ON")
Captures == Step({"images"}, {"cameras"}, "capture", "CAPTURING")
NoCameras == Ran({"images"}, {"cameras"}) /\ payload_state' = "IDLE" /\ Silent /\ Over("idle")
_downscale_images == Step({"images"}, {"capture"}, "downscale", "DOWNSCALING")
_run_inference == Step({"images"}, {"capture", "downscale"}, "infer", "INFERENCE")

\* run_dataset, reprocess_dataset or RUN_OD_ON_DATASET.
CallsBinary == Step({"collection", "processing", "od"}, {"run"}, "call", "CAPTURING")

\* Its return code, or the path that it should have written.
BinaryFails == Ran({"collection", "processing"}, {"call"}) /\ Silent /\ Fails

\* DatasetODRunner without any result.
ODFindsNothing ==
  /\ Ran({"od"}, {"call"})
  /\ tx' = Append(tx, Packet("EXPERIMENT_FINISHED")) /\ UNCHANGED shows
  /\ Fails

\* An exception.  ExperimentRunner catches it, the other two let it through, and
\* the thread ends.
Raises ==
  /\ Ran({"images", "collection", "processing", "od"},
         {"cameras", "capture", "downscale", "infer", "call"})
  /\ Silent
  /\ IF Runner[active] \in {"images", "collection"} THEN Fails ELSE Stays /\ Over("dead")

\* The best images that have not been sent, but for those that cannot be read or
\* stay too large.
_generate_thumbnails ==
  IF Runner[active] # "processing" THEN {<<>>}
  ELSE {Sorted(chosen) :
          chosen \in {c \in SUBSET (1..Images \ sent_set) : Cardinality(c) < Files}}

\* The experiment takes seconds to minutes: the mainboard has answered the bursts of
\* an earlier one, and its answers have been handled.
RunnerFinishes ==
  /\ Ran({"images", "collection", "processing", "od"},
         {"capture", "downscale", "infer", "call"})
  /\ tx = <<>> /\ rx = <<>> /\ ~sat.due /\ handling = "none"
  /\ tx' = <<Packet("EXPERIMENT_FINISHED")>>
  /\ payload_state' = "DOWNLOAD"
  /\ \E thumbs \in _generate_thumbnails :
       /\ shows' = [f \in File |-> IF f[1] = active /\ f[2] - 1 \in DOMAIN thumbs
                                   THEN thumbs[f[2] - 1] ELSE shows[f]]
       /\ last_file' \in IF Runner[active] = "processing" THEN {1 + Len(thumbs)} ELSE 1..Files
  /\ file' = 1
  /\ pc' = "send"
  /\ UNCHANGED <<thread, transaction>>

\* _mark_thumbnails_sent: reading the list may fail, and writing the new one.
Marks ==
  LET new == {shows[<<active, k>>] : k \in 2..last_file} IN
  /\ pc = "mark"
  /\ sent_set' \in {sent_set \cup new, new, sent_set, {}}
  /\ Over("idle")
  /\ UNCHANGED <<line, mainboard, shared, events, handling, reported, shows>>

-----------------------------------------------------------------------------
(* FileDownlinkManager. *)

Here(p) == pc = p /\ UNCHANGED <<experiment_queue, stop_event, handling, mainboard>>

FileNotFound ==
  /\ Here("send")
  /\ Fails
  /\ UNCHANGED <<line, events, reported, thumbnails>>

\* _clear_confirm_shared: the data under the lock, then the event.
ClearData ==
  /\ Here("send")
  /\ missing_fragments' = 1..Fragments /\ stalled_rounds' = 0 /\ batch' = <<>>
  /\ update_data' = None
  /\ pc' = "clear"
  /\ UNCHANGED <<line, ack_event, update_event, payload_state, thread, file, last_file,
                 resends, confirm, reported, thumbnails>>

ClearEvent ==
  /\ Here("clear")
  /\ update_event' = FALSE
  /\ pc' = "CREATE"
  /\ UNCHANGED <<line, ack_event, update_data, payload_state, thread, file, last_file,
                 transaction, reported, thumbnails>>

\* _send_with_ack, for CREATE_TRANS and then INIT_TRANS.
Await == [CREATE |-> "await_CREATE", INIT |-> "await_INIT"]
After == [CREATE |-> "INIT", INIT |-> "burst"]

Sends_KeepsEvent(kind) ==
  /\ Here(kind)
  /\ tx' = Append(tx, Packet(kind))
  /\ resends' = 0
  /\ pc' = Await[kind]
  /\ UNCHANGED <<rx, losses, events, payload_state, thread, file, last_file,
                 missing_fragments, batch, stalled_rounds, confirm, reported, thumbnails>>

Sends(kind) ==
  /\ Here(kind)
  /\ ack_event' = [ack_event EXCEPT ![kind] = FALSE]
  /\ tx' = Append(tx, Packet(kind))
  /\ resends' = 0
  /\ pc' = Await[kind]
  /\ UNCHANGED <<rx, losses, update_event, update_data, payload_state, thread, file,
                 last_file, missing_fragments, batch, stalled_rounds, confirm, reported, thumbnails>>

Acked(kind) ==
  /\ Here(Await[kind])
  /\ ack_event[kind]
  /\ pc' = After[kind]
  /\ UNCHANGED <<line, events, payload_state, thread, file, last_file, transaction, reported, thumbnails>>

SendsAgain(kind) ==
  /\ Here(Await[kind]) /\ resends < MaxResends
  /\ tx' = Append(tx, Packet(kind)) /\ resends' = resends + 1
  /\ UNCHANGED <<rx, losses, events, payload_state, pc, thread, file, last_file,
                 missing_fragments, batch, stalled_rounds, confirm, reported, thumbnails>>

\* No answer in time, or a stop.
AckTimesOut(kind) ==
  /\ Here(Await[kind])
  /\ Fails
  /\ UNCHANGED <<line, events, reported, thumbnails>>

SendsBurst ==
  /\ Here("burst") /\ ~stop_event
  /\ batch' = Burst(missing_fragments)
  /\ tx' = tx \o [i \in DOMAIN batch' |-> Fragment(batch'[i])]
  /\ pc' = "await_confirm"
  /\ UNCHANGED <<rx, losses, events, payload_state, thread, file, last_file,
                 missing_fragments, stalled_rounds, resends, confirm, reported, thumbnails>>

Stops ==
  /\ Here("burst") /\ stop_event
  /\ Fails
  /\ UNCHANGED <<line, events, reported, thumbnails>>

\* _wait_confirm_last_batch: the data is taken under the lock, the event cleared after.
TakesConfirm ==
  /\ Here("await_confirm")
  /\ update_event
  /\ confirm' = update_data /\ update_data' = None
  /\ pc' = "confirm"
  /\ UNCHANGED <<line, ack_event, update_event, payload_state, thread, file, last_file,
                 missing_fragments, batch, stalled_rounds, resends, reported, thumbnails>>

\* No confirmation in time, or a stop.
ConfirmTimesOut ==
  /\ Here("await_confirm")
  /\ Fails
  /\ UNCHANGED <<line, events, reported, thumbnails>>

\* confirm_last_batch
Confirmed == {batch[i]: i \in confirm \cap DOMAIN batch}
Left == missing_fragments \ Confirmed

NothingTaken ==
  /\ Here("confirm") /\ confirm = None
  /\ update_event' = FALSE
  /\ pc' = "await_confirm"
  /\ UNCHANGED <<line, ack_event, update_data, payload_state, thread, file, last_file,
                 transaction, reported, thumbnails>>

SendsOn ==
  /\ Here("confirm") /\ confirm # None
  /\ update_event' = FALSE
  /\ Left # {}
  /\ stalled_rounds' = IF Left = missing_fragments THEN stalled_rounds + 1 ELSE 0
  /\ stalled_rounds' < max_stalled_rounds
  /\ missing_fragments' = Left /\ confirm' = None
  /\ pc' = "burst"
  /\ UNCHANGED <<line, ack_event, update_data, payload_state, thread, file, last_file,
                 batch, resends, reported, thumbnails>>

Stalls ==
  /\ Here("confirm") /\ confirm # None
  /\ update_event' = FALSE
  /\ Left = missing_fragments /\ stalled_rounds + 1 >= max_stalled_rounds
  /\ Fails
  /\ UNCHANGED <<line, ack_event, update_data, reported, thumbnails>>

\* The next file, or the completion command after the last.  A partial result of
\* DatasetODRunner counts as a failure.
Succeeds ==
  /\ Here("confirm") /\ confirm # None
  /\ update_event' = FALSE
  /\ Left = {}
  /\ reported' = reported \cup {ThisFile}
  /\ \/ /\ file < last_file
        /\ file' = file + 1 /\ pc' = "send"
        /\ missing_fragments' = {} /\ batch' = <<>> /\ stalled_rounds' = 0 /\ resends' = 0
        /\ confirm' = None
        /\ UNCHANGED <<tx, thread, last_file, payload_state>>
     \/ /\ file = last_file
        /\ tx' = Append(tx, Packet("DOWNLOAD_FINISH"))
        /\ payload_state' \in {payload_state}
             \cup (IF Runner[active] = "od" /\ last_file = 1 THEN {"FAIL"} ELSE {})
        /\ IF Runner[active] = "processing" /\ last_file > 1
           THEN pc' = "mark" /\ UNCHANGED <<thread, file, last_file, transaction>>
           ELSE Over("idle")
  /\ UNCHANGED <<rx, losses, ack_event, update_data, thumbnails>>

-----------------------------------------------------------------------------
External == LoseTx \/ LoseRx \/ SatReceives \/ SatConfirms \/ SatRepeats \/ SatCommands
            \/ SatTurnsOff

CommandThread ==
  \/ dispatch_ack \/ _handle_experiment \/ _handle_update_last_batch \/ SetUpdate
  \/ _handle_turn_off_payload \/ _drain_tx_then_shutdown

ExperimentThread ==
  \/ SkipsDuplicate \/ TakesExperiment \/ UnknownMode
  \/ StartsCameras \/ Captures \/ NoCameras \/ _downscale_images \/ _run_inference
  \/ CallsBinary \/ BinaryFails \/ ODFindsNothing \/ Raises
  \/ RunnerFinishes \/ Marks
  \/ FileNotFound \/ ClearData \/ ClearEvent
  \/ \E kind \in {"CREATE", "INIT"}:
       Sends(kind) \/ Acked(kind) \/ SendsAgain(kind) \/ AckTimesOut(kind)
  \/ SendsBurst \/ Stops \/ TakesConfirm \/ ConfirmTimesOut
  \/ NothingTaken \/ SendsOn \/ Stalls \/ Succeeds

Next == External \/ CommandThread \/ ExperimentThread \/ GraceEnds

Spec == Init /\ [][Next]_vars

-----------------------------------------------------------------------------
Awaits == {"await_CREATE", "await_INIT", "await_confirm"}

TypeOK ==
  /\ losses \in 0..MaxLosses /\ unsent \subseteq Experiments
  /\ received \in [File -> SUBSET (1..Fragments)]
  /\ experiment_queue \in Seq(Experiments)
  /\ payload_state \in {"IDLE", "TURNING_ON", "CAPTURING", "DOWNSCALING", "INFERENCE",
                       "DOWNLOAD", "FAIL", "OFF"}
  /\ handling \in {"none", "update", "drain"}
  /\ pc \in {"idle", "run", "cameras", "capture", "downscale", "infer", "call", "dead",
             "send", "clear", "CREATE", "INIT", "burst", "confirm", "mark"} \cup Awaits
  /\ active \in Experiments \cup {"none"} /\ file \in 0..Files
  /\ missing_fragments \subseteq 1..Fragments
  /\ stalled_rounds \in 0..max_stalled_rounds
  /\ reported \subseteq File
  /\ sent_set \subseteq 1..Images /\ shows \in [File -> 0..Images]

\* A file that send_file reports as sent is on the mainboard, every fragment of it:
\* no acknowledgement or confirmation of an earlier file or burst that comes late is
\* taken for one of this (file_downlink_manager.py:70-198).  So is a thumbnail of each
\* image that the dataset will not send again (orbit_determination_runner.py:59-68).
Complete(f) == received[f] = 1..Fragments
SuccessIsReceived ==
  /\ \A f \in reported: Complete(f)
  /\ \A i \in sent_set: \E f \in File: shows[f] = i /\ Complete(f)

=============================================================================
