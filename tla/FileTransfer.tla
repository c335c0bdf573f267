----------------------------- MODULE FileTransfer -----------------------------
(***************************************************************************)
(* The transfer of an image to the ground: FileTransferManager of          *)
(* FSW-Payload/include/communication/comms.hpp, one static object that the *)
(* handlers request_image, request_next_file_packet and                    *)
(* request_next_file_packets of src/commands.cpp share, each on a worker   *)
(* thread of its own, and the order in which TX_Queue lets their packets   *)
(* leave.                                                                  *)
(*                                                                         *)
(* Of a file the model has the size: 5 bytes of magic and the records of   *)
(* 242 bytes are there from the front, as far as the size reaches, unless  *)
(* two requests write the file at once.  A file that is being written is   *)
(* seen with any of the sizes that its stream may have flushed.  A request *)
(* for one packet is a batch of one.                                       *)
(***************************************************************************)
EXTENDS Integers, FiniteSets

CONSTANTS Images,      \* request_image commands
          Batches,     \* request_next_file_packet(s) commands
          Files, NoFile,
          FileOf,      \* the file that a request_image encodes
          Records,     \* records of a file when it is whole
          Flushed,     \* sizes that a file may have on the disk while it is written
          Start, Count,\* arguments of a batch
          Modulus,     \* 2^16: packet numbers are uint16_t
          MaxClock,    \* bound on the milliseconds that pass
          MaxLost      \* bound on the messages whose write fails

ASSUME TransferAssumption ==
  /\ Images \cap Batches = {}
  /\ NoFile \notin Files
  /\ FileOf \in [Images -> Files]
  /\ Modulus \in Nat \ {0, 1}
  /\ Records \in [Files -> 1..Modulus - 1]
  /\ Start \in [Batches -> 0..Modulus - 1]
  /\ Count \in [Batches -> Nat]
  /\ Flushed \subseteq Nat
  /\ MaxClock \in Nat
  /\ MaxLost \in Nat

VARIABLES _active_transfer, _total_seq_count, _file_path,  \* FileTransferManager
          size,       \* bytes of each file on the disk
          patchy,     \* files whose front may not be written yet, two writers being at work
          pc,         \* where the handler of a command is
          seen,       \* file_size of PopulateMetadata, total_packets of a batch
          i,          \* the loop variable of a batch
          tx_queue,   \* messages in TX_Queue
          sent,       \* messages that have left
          lost,       \* messages whose write to the port failed
          clock,      \* timing::GetCurrentTimeMs
          ground_waits,\* whether the ground has one kind of request open at a time
          crossed,    \* an image was requested again while a request for it was executed
          disturbed   \* batches during which the file to be sent was being written

manager == <<_active_transfer, _total_seq_count, _file_path>>
files == <<size, patchy>>
link == <<sent, lost>>
histories == <<crossed, disturbed>>
vars == <<manager, files, pc, seen, i, tx_queue, link, clock, ground_waits, histories>>

Commands == Images \cup Batches

\* "DATA" carries a record of the file, "OTHER" bytes that are not the record asked for.
PacketCodes == {"DATA", "OTHER"}
Codes == PacketCodes \cup {"OK", "FILE_NOT_AVAILABLE", "INVALID_COMMAND_ARGUMENTS",
                    "NO_FILE_READY", "NO_MORE_PACKET_FOR_FILE", "FAILED_TO_GRAB_FILE_CHUNK"}
Messages == [cmd: Commands, seq: 0..Modulus - 1, code: Codes,
             file: Files \cup {NoFile}, born: 0..MaxClock]

Init ==
  /\ _active_transfer = FALSE
  /\ _total_seq_count = 0
  /\ _file_path = NoFile
  /\ size = [f \in Files |-> 0]
  /\ patchy = {}
  /\ pc = [c \in Commands |-> "sent"]
  /\ seen = [c \in Commands |-> 0]
  /\ i = [b \in Batches |-> 0]
  /\ tx_queue = {}
  /\ sent = {}
  /\ lost = {}
  /\ clock = 0
  /\ ground_waits \in BOOLEAN
  /\ crossed = FALSE
  /\ disturbed = {}

Goto(c, from, to) == pc[c] = from /\ pc' = [pc EXCEPT ![c] = to]

Transmit(c, seq, code, file) ==
  tx_queue' = tx_queue \cup
    {[cmd |-> c, seq |-> seq, code |-> code, file |-> file, born |-> clock]}

\* A message with one status byte; its seq_count is the default, 1.
Ack(c, code) == Transmit(c, 1, code, NoFile)

\* A handler that says nothing in this step.
Quiet == UNCHANGED <<tx_queue, link, clock>>

\* _mtx is held from the check of the magic to the end of GrabFileChunk.
Locked == \E b \in Batches : pc[b] \in {"dh", "raw"}

-----------------------------------------------------------------------------
(* request_image *)

\* What the ground has received answers command c: a status, or all packets.
Answered(c) ==
  \/ \E m \in sent : m.cmd = c /\ m.code \notin PacketCodes
  \/ /\ c \in Batches
     /\ \A k \in 0..Count[c] - 1 :
          \E m \in sent : m.cmd = c /\ m.seq = (Start[c] + k) % Modulus

\* A ground that waits has no image open, and batches only with other batches.
MayStart(c) ==
  ground_waits =>
    \A o \in Commands \ {c} :
      pc[o] = "sent" \/ Answered(o) \/ {c, o} \subseteq Batches

\* No image is stored, it has no file, or it cannot be encoded or written.
ImageFails(c) ==
  /\ Goto(c, "sent", "done")
  /\ MayStart(c)
  /\ Ack(c, "FILE_NOT_AVAILABLE")
  /\ UNCHANGED <<manager, files, seen, i, link, clock>>

Whole(f) == 5 + 242 * Records[f]

Writers(f) == {c \in Images : pc[c] = "write" /\ FileOf[c] = f}

\* WriteFixedPacketFile opens the file, which truncates it, even under another writer ...
ImageOpen(c) ==
  /\ Goto(c, "sent", "write")
  /\ MayStart(c)
  /\ size' = [size EXCEPT ![FileOf[c]] = 0]
  /\ patchy' = IF Writers(FileOf[c]) = {} THEN patchy ELSE patchy \cup {FileOf[c]}
  /\ UNCHANGED <<manager, seen, i>> /\ Quiet

\* ... its stream flushes when its buffer is full ...
ImageFlush(c) ==
  /\ pc[c] = "write"
  /\ \E n \in Flushed :
       /\ size[FileOf[c]] < n /\ n < Whole(FileOf[c])
       /\ size' = [size EXCEPT ![FileOf[c]] = n]
  /\ UNCHANGED <<manager, patchy, pc, seen, i>> /\ Quiet

\* ... and at the end.
ImageWrite(c) ==
  /\ Goto(c, "write", "deactivate")
  /\ size' = [size EXCEPT ![FileOf[c]] = Whole(FileOf[c])]
  /\ patchy' = IF Writers(FileOf[c]) = {c} THEN patchy \ {FileOf[c]} ELSE patchy
  /\ UNCHANGED <<manager, seen, i>> /\ Quiet

\* FileTransferManager::Reset, an atomic store and a locked one.
ResetActive(c) ==
  /\ Goto(c, "deactivate", "reset")
  /\ _active_transfer' = FALSE
  /\ UNCHANGED <<_total_seq_count, _file_path, files, seen, i>> /\ Quiet

ResetTotal(c) ==
  /\ Goto(c, "reset", "stat")
  /\ ~Locked
  /\ _total_seq_count' = 0
  /\ UNCHANGED <<_active_transfer, _file_path, files, seen, i>> /\ Quiet

\* PopulateMetadata takes the size of the file before it takes the lock.
Stat(c) ==
  /\ Goto(c, "stat", "populate")
  /\ seen' = [seen EXCEPT ![c] = size[FileOf[c]]]
  /\ UNCHANGED <<manager, files, i>> /\ Quiet

\* Whether a reader of the file finds the magic.
Magic(f, is_dh) == IF is_dh THEN size[f] >= 5 ELSE size[f] < 5 \/ f \in patchy

Slices_Unbounded(n) == (n + 239) \div 240

\* Packets of a file of n bytes without magic: slices of 240 bytes, as a uint16_t.
Slices(n) == ((n + 239) \div 240) % Modulus

PacketCount(n, is_dh) == IF is_dh THEN ((n - 5) \div 242) % Modulus ELSE Slices(n)

Populate_TrustsReset(c) ==
  /\ Goto(c, "populate", "done")
  /\ ~Locked
  /\ \E is_dh \in BOOLEAN :
       /\ Magic(FileOf[c], is_dh) /\ (is_dh => seen[c] >= 5)
       /\ _total_seq_count' = IF _total_seq_count = 0 THEN PacketCount(seen[c], is_dh)
                              ELSE _total_seq_count
  /\ _file_path' = FileOf[c]
  /\ _active_transfer' = TRUE
  /\ Ack(c, "OK")
  /\ UNCHANGED <<files, seen, i, link, clock>>

\* The rest of PopulateMetadata, under the lock: the magic is read later than the size.
Populate(c) ==
  /\ Goto(c, "populate", "done")
  /\ ~Locked
  /\ \E is_dh \in BOOLEAN :
       /\ Magic(FileOf[c], is_dh) /\ (is_dh => seen[c] >= 5)
       /\ _total_seq_count' = PacketCount(seen[c], is_dh)
  /\ _file_path' = FileOf[c]
  /\ _active_transfer' = TRUE
  /\ Ack(c, "OK")
  /\ UNCHANGED <<files, seen, i, link, clock>>

\* The file has its magic by now, but was too small for it when it was sized.
PopulateTooSmall(c) ==
  /\ Goto(c, "populate", "done")
  /\ ~Locked
  /\ Magic(FileOf[c], TRUE) /\ seen[c] < 5
  /\ _file_path' = FileOf[c]
  /\ Ack(c, "FILE_NOT_AVAILABLE")
  /\ UNCHANGED <<_active_transfer, _total_seq_count, files, seen, i, link, clock>>

-----------------------------------------------------------------------------
(* request_next_file_packet and request_next_file_packets *)

\* Refused: the number is zero, or no file is ready.
BatchRefused(b) ==
  /\ Goto(b, "sent", "done")
  /\ MayStart(b)
  /\ \/ Start[b] = 0 /\ Ack(b, "INVALID_COMMAND_ARGUMENTS")
     \/ Start[b] # 0 /\ ~_active_transfer /\ Ack(b, "NO_FILE_READY")
  /\ UNCHANGED <<manager, files, seen, i, link, clock>>

BatchAccepted(b) ==
  /\ Goto(b, "sent", "total")
  /\ MayStart(b)
  /\ Start[b] # 0 /\ _active_transfer
  /\ UNCHANGED <<manager, files, seen, i>> /\ Quiet

BatchReadsTotal(b) ==
  /\ Goto(b, "total", "loop")
  /\ ~Locked
  /\ seen' = [seen EXCEPT ![b] = _total_seq_count]
  /\ UNCHANGED <<manager, files, i>> /\ Quiet

CurrentPacket(b) == (Start[b] + i[b]) % Modulus

BatchReachesEnd_OffByOne(b) ==
  /\ Goto(b, "loop", "done") /\ i[b] < Count[b]
  /\ CurrentPacket(b) >= seen[b]
  /\ Ack(b, "NO_MORE_PACKET_FOR_FILE")
  /\ UNCHANGED <<manager, files, seen, i, link, clock>>

BatchReachesEnd_Silent(b) ==
  /\ Goto(b, "loop", "done") /\ i[b] < Count[b]
  /\ CurrentPacket(b) > seen[b]
  /\ UNCHANGED <<manager, files, seen, i>> /\ Quiet

BatchReachesEnd(b) ==
  /\ Goto(b, "loop", "done") /\ i[b] < Count[b]
  /\ CurrentPacket(b) > seen[b]
  /\ Ack(b, "NO_MORE_PACKET_FOR_FILE")
  /\ UNCHANGED <<manager, files, seen, i, link, clock>>

\* GrabFileChunk takes the lock.  The total may be another one by now ...
BatchPastTotal(b) ==
  /\ Goto(b, "loop", "done") /\ i[b] < Count[b]
  /\ CurrentPacket(b) <= seen[b]
  /\ ~Locked
  /\ CurrentPacket(b) > _total_seq_count
  /\ Ack(b, "NO_MORE_PACKET_FOR_FILE")
  /\ UNCHANGED <<manager, files, seen, i, link, clock>>

\* ... and if not, the file is opened to look for its magic ...
BatchChecks(b) ==
  /\ pc[b] = "loop" /\ i[b] < Count[b]
  /\ CurrentPacket(b) <= seen[b]
  /\ ~Locked
  /\ CurrentPacket(b) <= _total_seq_count
  /\ \E is_dh \in BOOLEAN :
       /\ Magic(_file_path, is_dh)
       /\ pc' = [pc EXCEPT ![b] = IF is_dh THEN "dh" ELSE "raw"]
  /\ UNCHANGED <<manager, files, seen, i>> /\ Quiet

GrabFileChunk_ZeroIsFirst(seq, kind) ==
  IF kind = "dh"
    THEN IF 5 + 242 * seq > size[_file_path] THEN {"FAILED_TO_GRAB_FILE_CHUNK"}
         ELSE IF _file_path \in patchy THEN PacketCodes ELSE {"DATA"}
    ELSE IF 240 * (seq - 1) >= size[_file_path] /\ (seq # 0 \/ size[_file_path] = 0)
         THEN {"FAILED_TO_GRAB_FILE_CHUNK"} ELSE {"OTHER"}

\* ... and opened again for the chunk: the whole record, where there is no record before
\* the first, or a slice of 240 bytes, where the slice 0 is the first one, too.
GrabFileChunk(seq, kind) ==
  IF kind = "dh"
    THEN IF seq = 0 \/ 5 + 242 * seq > size[_file_path] THEN {"FAILED_TO_GRAB_FILE_CHUNK"}
         ELSE IF _file_path \in patchy THEN PacketCodes ELSE {"DATA"}
    ELSE IF 240 * (seq - 1) >= size[_file_path] /\ (seq # 0 \/ size[_file_path] = 0)
         THEN {"FAILED_TO_GRAB_FILE_CHUNK"} ELSE {"OTHER"}

BatchSendsPacket(b) ==
  /\ pc[b] \in {"dh", "raw"}
  /\ pc' = [pc EXCEPT ![b] = "loop"]
  /\ \E code \in PacketCodes \cap GrabFileChunk(CurrentPacket(b), pc[b]) :
       Transmit(b, CurrentPacket(b), code, _file_path)
  /\ i' = [i EXCEPT ![b] = @ + 1]
  /\ UNCHANGED <<manager, files, seen, link, clock>>

BatchGrabFails(b) ==
  /\ pc[b] \in {"dh", "raw"}
  /\ pc' = [pc EXCEPT ![b] = "done"]
  /\ "FAILED_TO_GRAB_FILE_CHUNK" \in GrabFileChunk(CurrentPacket(b), pc[b])
  /\ Ack(b, "FAILED_TO_GRAB_FILE_CHUNK")
  /\ UNCHANGED <<manager, files, seen, i, link, clock>>

BatchComplete(b) ==
  /\ Goto(b, "loop", "done") /\ i[b] = Count[b]
  /\ UNCHANGED <<manager, files, seen, i>> /\ Quiet

-----------------------------------------------------------------------------
(* TX_Queue *)

Priority_Uniform(m) == 1

Priority(m) == IF m.seq > 1 THEN 2 ELSE 1

Precedes(m, n) ==
  Priority(m) > Priority(n) \/ (Priority(m) = Priority(n) /\ m.born < n.born)

\* The communication thread takes the top of the heap; equals in any order.
Top(m) == m \in tx_queue /\ \A n \in tx_queue : ~Precedes(n, m)

Send ==
  \E m \in tx_queue :
    /\ Top(m)
    /\ tx_queue' = tx_queue \ {m}
    /\ sent' = sent \cup {m}
    /\ UNCHANGED <<manager, files, pc, seen, i, lost, clock, ground_waits, histories>>

\* The message has left the queue when the write fails, and is not sent again.
SendFails ==
  \E m \in tx_queue :
    /\ Cardinality(lost) < MaxLost
    /\ Top(m)
    /\ tx_queue' = tx_queue \ {m}
    /\ lost' = lost \cup {m}
    /\ UNCHANGED <<manager, files, pc, seen, i, sent, clock, ground_waits, histories>>

Tick ==
  /\ clock < MaxClock
  /\ clock' = clock + 1
  /\ UNCHANGED <<manager, files, pc, seen, i, tx_queue, link, ground_waits, histories>>

InProgress(c) == pc[c] \notin {"sent", "done"}

\* No image is requested again while a request for it is being executed.
ImagesApart ==
  \A c, d \in Images :
    c # d /\ InProgress(c) /\ InProgress(d) => FileOf[c] # FileOf[d]

\* A batch that has packets to send.
Sending(b) == pc[b] \in {"total", "loop", "dh", "raw"} /\ i[b] < Count[b]

\* What the properties remember of a step of a handler.
Watch ==
  /\ UNCHANGED ground_waits
  /\ crossed' = (crossed \/ ~ImagesApart')
  /\ disturbed' = disturbed \cup {b \in Batches : Sending(b)' /\ Writers(_file_path)' # {}}

ImageStep(c) ==
  /\ \/ ImageFails(c) \/ ImageOpen(c) \/ ImageFlush(c) \/ ImageWrite(c)
     \/ ResetActive(c) \/ ResetTotal(c) \/ Stat(c) \/ Populate(c) \/ PopulateTooSmall(c)
  /\ Watch

BatchStep(b) ==
  /\ \/ BatchRefused(b) \/ BatchAccepted(b) \/ BatchReadsTotal(b) \/ BatchReachesEnd(b)
     \/ BatchPastTotal(b) \/ BatchChecks(b) \/ BatchSendsPacket(b) \/ BatchGrabFails(b)
     \/ BatchComplete(b)
  /\ Watch

Next ==
  \/ \E c \in Images : ImageStep(c)
  \/ \E b \in Batches : BatchStep(b)
  \/ Send \/ SendFails \/ Tick

Spec == Init /\ [][Next]_vars

\* A worker that runs a handler goes on, and so does the communication thread.
FairSpec ==
  /\ Spec
  /\ \A c \in Images : WF_vars(ImageStep(c))
  /\ \A b \in Batches : WF_vars(BatchStep(b))
  /\ WF_vars(Send \/ SendFails)
-----------------------------------------------------------------------------
(* Properties *)

TypeOK ==
  /\ _active_transfer \in BOOLEAN
  /\ _total_seq_count \in 0..Modulus - 1
  /\ _file_path \in Files \cup {NoFile}
  /\ size \in [Files -> Nat]
  /\ patchy \subseteq Files
  /\ pc \in [Commands -> {"sent", "write", "deactivate", "reset", "stat",
                          "populate", "total", "loop", "dh", "raw", "done"}]
  /\ seen \in [Commands -> Nat]
  /\ i \in [Batches -> Nat]
  /\ tx_queue \subseteq Messages
  /\ sent \subseteq Messages
  /\ lost \subseteq Messages
  /\ clock \in 0..MaxClock
  /\ ground_waits \in BOOLEAN
  /\ crossed \in BOOLEAN
  /\ disturbed \subseteq Batches

Produced == tx_queue \cup sent \cup lost

\* A transfer that is active, and that no request_image is about to replace,
\* announces as many packets as its file has: path and count, which Reset and
\* PopulateMetadata store in separate critical sections, never come from two
\* different images.  It holds as long as no image is requested again while a
\* request for it is executed: such a request can be sized while the other one
\* writes the file, and store its too small count last.
MetadataMatchesFile ==
  ~crossed /\ _active_transfer /\ (\A c \in Images : ~InProgress(c)) =>
    _file_path \in Files /\ _total_seq_count = Records[_file_path]

\* A data packet carries a record of a file under that record's number, although
\* the number was checked against the total of a file that may have been
\* replaced since, and although it is computed in 16 bits.  Bytes that are not the
\* record asked for (the magic was not seen, and the file cut into raw slices; or a
\* record had not been written yet) only go to a batch during which some
\* request_image was writing the very file, and never to a ground that waits.
DataIsReal ==
  \A m \in Produced :
    /\ m.code = "DATA" => m.file \in Files /\ m.seq \in 1..Records[m.file]
    /\ m.code = "OTHER" => m.cmd \in disturbed /\ ~ground_waits

\* "check if requested seq number is valid -> NO_MORE_PACKET_FOR_FILE": to a
\* ground that waits, a batch that ends with this code has given the last record
\* of the file.
EndIsTheEnd ==
  ground_waits =>
    \A m, n \in Produced :
      m.code = "NO_MORE_PACKET_FOR_FILE" /\ n.code = "DATA" /\ m.cmd = n.cmd =>
        \E last \in Produced :
          last.cmd = m.cmd /\ last.code = "DATA" /\ last.seq = Records[n.file]

\* The status that ends a batch leaves after the packets 2, 3, ... of the batch,
\* whatever other messages were queued in between.  (Packet 1, or a slice 0, has
\* the priority of a status and may leave after it.)
EndMarkerLast ==
  [][\A m \in sent' \ sent, n \in tx_queue' :
       m.cmd = n.cmd /\ m.cmd \in Batches /\ m.code \notin PacketCodes => n.seq <= 1]_vars

=============================================================================
