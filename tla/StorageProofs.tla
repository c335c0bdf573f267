---------------------------- MODULE StorageProofs ----------------------------
(***************************************************************************)
(* Proofs about FileTransfer, for every set of commands, files and numbers *)
(* of records, every way in which a stream flushes, every range of packet  *)
(* numbers and any bounds; and about the instances of MCStorage, by the    *)
(* theorems of StoredFilesProofs.                                          *)
(***************************************************************************)
EXTENDS MCStorage, TLAPS

-----------------------------------------------------------------------------
(* Types *)

\* The number of slices is a packet number: it is cut to the width of one.
LEMMA SlicesType == \A n \in Nat : Slices(n) \in 0..Modulus - 1
  BY TransferAssumption DEF Slices

\* So is the number of records.
LEMMA PacketCountType ==
  ASSUME NEW n \in Nat, NEW is_dh \in BOOLEAN, is_dh => n >= 5
  PROVE PacketCount(n, is_dh) \in 0..Modulus - 1
<1>1. CASE is_dh
  <2>1. (n - 5) \div 242 \in Int
    BY <1>1
  <2> QED BY <1>1, <2>1, TransferAssumption DEF PacketCount
<1>2. CASE ~is_dh
  BY <1>2, SlicesType DEF PacketCount
<1> QED BY <1>1, <1>2

LEMMA WholeType == \A f \in Files : Whole(f) \in Nat /\ Whole(f) >= 247
  BY TransferAssumption DEF Whole

\* A status that is sent is a message.
LEMMA AckType ==
  ASSUME TypeOK, NEW c \in Commands, NEW code \in Codes, Ack(c, code)
  PROVE tx_queue' \subseteq Messages
  BY TransferAssumption DEF TypeOK, Ack, Transmit, Messages

\* A packet of a batch has a number within the range.
LEMMA CurrentPacketType ==
  ASSUME TypeOK, NEW b \in Batches
  PROVE CurrentPacket(b) \in 0..Modulus - 1
<1>1. Start[b] + i[b] \in Nat
  BY TransferAssumption DEF TypeOK
<1> QED BY <1>1, TransferAssumption DEF CurrentPacket

\* The histories keep their types.
LEMMA WatchType ==
  ASSUME TypeOK, Watch
  PROVE ground_waits' \in BOOLEAN /\ crossed' \in BOOLEAN /\ disturbed' \subseteq Batches
  BY DEF TypeOK, Watch, ImagesApart

\* Every step of request_image keeps the types.
LEMMA ImageStepType ==
  ASSUME TypeOK, NEW c \in Images, ImageStep(c)
  PROVE TypeOK'
<1>g. ground_waits' \in BOOLEAN /\ crossed' \in BOOLEAN /\ disturbed' \subseteq Batches
  BY WatchType DEF ImageStep
<1> USE DEF TypeOK, files, link, Quiet
<1>c. c \in Commands /\ FileOf[c] \in Files /\ Whole(FileOf[c]) \in Nat
  BY TransferAssumption, WholeType DEF Commands
<1>1. CASE ImageFails(c)
  <2>1. tx_queue' \subseteq Messages
    BY <1>1, <1>c, AckType DEF ImageFails, Codes
  <2> QED BY <1>1, <1>c, <1>g, <2>1 DEF ImageFails, Goto, manager
<1>2. CASE ImageOpen(c)
  BY <1>2, <1>c, <1>g, TransferAssumption DEF ImageOpen, Goto, manager
<1>f. CASE ImageFlush(c)
  BY <1>f, <1>c, <1>g, TransferAssumption DEF ImageFlush, manager
<1>3. CASE ImageWrite(c)
  BY <1>3, <1>c, <1>g, TransferAssumption DEF ImageWrite, Goto, manager
<1>4. CASE ResetActive(c)
  BY <1>4, <1>c, <1>g DEF ResetActive, Goto
<1>5. CASE ResetTotal(c)
  BY <1>5, <1>c, <1>g, TransferAssumption DEF ResetTotal, Goto
<1>6. CASE Stat(c)
  BY <1>6, <1>c, <1>g DEF Stat, Goto, manager
<1>7. CASE Populate(c)
  <2>1. tx_queue' \subseteq Messages
    BY <1>7, <1>c, AckType DEF Populate, Codes
  <2>2. _total_seq_count' \in 0..Modulus - 1
    BY <1>7, <1>c, PacketCountType DEF Populate
  <2> QED BY <1>7, <1>c, <1>g, <2>1, <2>2 DEF Populate, Goto
<1>8. CASE PopulateTooSmall(c)
  <2>1. tx_queue' \subseteq Messages
    BY <1>8, <1>c, AckType DEF PopulateTooSmall, Codes
  <2> QED BY <1>8, <1>c, <1>g, <2>1 DEF PopulateTooSmall, Goto
<1> QED
  BY <1>1, <1>2, <1>f, <1>3, <1>4, <1>5, <1>6, <1>7, <1>8 DEF ImageStep

\* So does every step of request_next_file_packet(s).
LEMMA BatchStepType ==
  ASSUME TypeOK, NEW b \in Batches, BatchStep(b)
  PROVE TypeOK'
<1>g. ground_waits' \in BOOLEAN /\ crossed' \in BOOLEAN /\ disturbed' \subseteq Batches
  BY WatchType DEF BatchStep
<1> USE DEF TypeOK, files, link, Quiet
<1>c. b \in Commands
  BY DEF Commands
<1>1. CASE BatchRefused(b)
  <2>1. tx_queue' \subseteq Messages
    BY <1>1, <1>c, AckType DEF BatchRefused, Codes
  <2> QED BY <1>1, <1>c, <1>g, <2>1 DEF BatchRefused, Goto, manager
<1>2. CASE BatchAccepted(b)
  BY <1>2, <1>c, <1>g DEF BatchAccepted, Goto, manager
<1>3. CASE BatchReadsTotal(b)
  BY <1>3, <1>c, <1>g DEF BatchReadsTotal, Goto, manager
<1>4. CASE BatchSendsPacket(b)
  <2>1. PICK code \in PacketCodes : Transmit(b, CurrentPacket(b), code, _file_path)
    BY <1>4 DEF BatchSendsPacket
  <2>2. tx_queue' \subseteq Messages
    BY <1>c, <2>1, CurrentPacketType DEF Transmit, Messages, Codes
  <2>3. i' \in [Batches -> Nat]
    BY <1>4 DEF BatchSendsPacket
  <2> QED BY <1>4, <1>g, <2>2, <2>3 DEF BatchSendsPacket, manager
<1>5. CASE BatchReachesEnd(b)
  <2>1. tx_queue' \subseteq Messages
    BY <1>5, <1>c, AckType DEF BatchReachesEnd, Codes
  <2> QED BY <1>5, <1>c, <1>g, <2>1 DEF BatchReachesEnd, Goto, manager
<1>6. CASE BatchPastTotal(b)
  <2>1. tx_queue' \subseteq Messages
    BY <1>6, <1>c, AckType DEF BatchPastTotal, Codes
  <2> QED BY <1>6, <1>c, <1>g, <2>1 DEF BatchPastTotal, Goto, manager
<1>7. CASE BatchChecks(b)
  BY <1>7, <1>c, <1>g DEF BatchChecks, manager
<1>8. CASE BatchGrabFails(b)
  <2>1. tx_queue' \subseteq Messages
    BY <1>8, <1>c, AckType DEF BatchGrabFails, Codes
  <2> QED BY <1>8, <1>c, <1>g, <2>1 DEF BatchGrabFails, manager
<1>9. CASE BatchComplete(b)
  BY <1>9, <1>c, <1>g DEF BatchComplete, Goto, manager
<1> QED
  BY <1>1, <1>2, <1>3, <1>4, <1>5, <1>6, <1>7, <1>8, <1>9 DEF BatchStep

LEMMA TypeInit == Init => TypeOK
<1> SUFFICES ASSUME Init PROVE TypeOK
  OBVIOUS
<1> USE TransferAssumption DEF Init
<1>1. 0 \in 0..Modulus - 1 /\ clock \in 0..MaxClock
  OBVIOUS
<1>2. size \in [Files -> Nat] /\ seen \in [Commands -> Nat] /\ i \in [Batches -> Nat]
  OBVIOUS
<1> QED BY <1>1, <1>2 DEF TypeOK

LEMMA TypeNext == TypeOK /\ [Next]_vars => TypeOK'
<1> SUFFICES ASSUME TypeOK, [Next]_vars PROVE TypeOK'
  OBVIOUS
<1>1. ASSUME NEW c \in Images, ImageStep(c) PROVE TypeOK'
  BY <1>1, ImageStepType
<1>2. ASSUME NEW b \in Batches, BatchStep(b) PROVE TypeOK'
  BY <1>2, BatchStepType
<1>3. CASE Send
  BY <1>3 DEF Send, Top, TypeOK, manager, files, histories
<1>4. CASE SendFails
  BY <1>4 DEF SendFails, Top, TypeOK, manager, files, histories
<1>5. CASE Tick
  BY <1>5, TransferAssumption DEF Tick, TypeOK, manager, files, link, histories
<1>6. CASE UNCHANGED vars
  BY <1>6 DEF vars, manager, files, link, histories, TypeOK
<1> QED
  BY <1>1, <1>2, <1>3, <1>4, <1>5, <1>6 DEF Next

\* Every variable keeps its type; packet numbers stay within their 16 bits.
THEOREM TypeCorrect == Spec => []TypeOK
  BY TypeInit, TypeNext, PTL DEF Spec

-----------------------------------------------------------------------------
(* Packets carry records *)

Executing == {"deactivate", "reset", "stat", "populate"}

\* A file is whole, or a request is writing it.
Sound(f) == size[f] = Whole(f) \/ Writers(f) # {}

\* So is a file that a request has written, and the file that is being sent; and
\* the front of a file is only missing while some request writes it.
FilesSound ==
  /\ \A f \in Files : size[f] <= Whole(f) /\ (f \in patchy => Writers(f) # {})
  /\ \A c \in Images : pc[c] \in Executing => Sound(FileOf[c])
  /\ _file_path \in Files => Sound(_file_path)

\* A transfer that is active has a file, and so has one that a batch has once
\* seen active: no path is ever taken back.
PathKnown ==
  /\ _active_transfer => _file_path \in Files
  /\ \A b \in Batches : pc[b] \in {"total", "loop", "dh", "raw"} => _file_path \in Files

\* A batch that cuts the file into raw slices, or that looks at it while it is
\* written, is one of the disturbed ones.
Disturbance ==
  \A b \in Batches :
    /\ pc[b] \in {"dh", "raw"} => i[b] < Count[b]
    /\ pc[b] = "raw" => b \in disturbed
    /\ Sending(b) /\ Writers(_file_path) # {} => b \in disturbed

\* What is not a packet of the file has the number of a status.
StatusNumber == \A m \in Produced : m.code \notin PacketCodes => m.seq = 1

PacketsReal ==
  \A m \in Produced :
    /\ m.code = "DATA" => m.file \in Files /\ m.seq \in 1..Records[m.file]
    /\ m.code = "OTHER" => m.cmd \in disturbed

Real == FilesSound /\ PathKnown /\ Disturbance /\ StatusNumber /\ PacketsReal

\* What is not a step of a handler only moves messages and the clock.
LEMMA Elsewhere ==
  ASSUME Send \/ SendFails \/ Tick \/ UNCHANGED vars
  PROVE /\ Produced' = Produced
        /\ UNCHANGED <<manager, files, pc, seen, i, ground_waits, histories>>
  BY DEF Send, SendFails, Top, Tick, vars, link, Produced

\* A status changes neither what is known of packets nor of statuses.
LEMMA AckReal ==
  ASSUME Real, NEW c \in Commands, NEW code \in Codes \ PacketCodes, Ack(c, code),
         UNCHANGED link, disturbed \subseteq disturbed'
  PROVE StatusNumber' /\ PacketsReal'
<1> DEFINE m0 == [cmd |-> c, seq |-> 1, code |-> code, file |-> NoFile, born |-> clock]
<1>1. Produced' = Produced \cup {m0}
  BY DEF Ack, Transmit, Produced, link
<1>2. m0.code \notin PacketCodes /\ m0.seq = 1
  OBVIOUS
<1> HIDE DEF m0
<1> QED BY <1>1, <1>2 DEF Real, StatusNumber, PacketsReal, PacketCodes

LEMMA QuietReal ==
  ASSUME Real, Quiet, disturbed \subseteq disturbed'
  PROVE StatusNumber' /\ PacketsReal'
  BY DEF Quiet, link, Real, StatusNumber, PacketsReal, Produced

\* The batches that a step of a handler disturbs.
LEMMA WatchDisturbs ==
  ASSUME Watch
  PROVE /\ disturbed \subseteq disturbed'
        /\ \A b \in Batches : (Sending(b) /\ Writers(_file_path) # {})' => b \in disturbed'
  BY DEF Watch

LEMMA RealImage ==
  ASSUME TypeOK, Real, NEW c \in Images, ImageStep(c)
  PROVE Real'
<1>c. c \in Commands /\ c \notin Batches /\ FileOf[c] \in Files
  BY TransferAssumption DEF Commands
<1>w. /\ disturbed \subseteq disturbed'
      /\ \A b \in Batches : (Sending(b) /\ Writers(_file_path) # {})' => b \in disturbed'
  BY WatchDisturbs DEF ImageStep
<1>1. ASSUME NEW code \in Codes \ PacketCodes, Ack(c, code), UNCHANGED link
      PROVE StatusNumber' /\ PacketsReal'
  BY <1>1, <1>c, <1>w, AckReal
<1>2. ASSUME Quiet PROVE StatusNumber' /\ PacketsReal'
  BY <1>2, <1>w, QuietReal
<1>p. ASSUME NEW to, pc' = [pc EXCEPT ![c] = to]
      PROVE /\ pc'[c] = to /\ \A o \in Commands \ {c} : pc'[o] = pc[o]
            /\ \A b \in Batches : pc'[b] = pc[b]
  BY <1>p, <1>c DEF TypeOK, Commands
<1>i. i' = i /\ \A b \in Batches : pc'[b] = pc[b]
  BY <1>p DEF ImageStep, Goto, ImageFails, ImageOpen, ImageFlush, ImageWrite, ResetActive,
         ResetTotal, Stat, Populate, PopulateTooSmall
<1>d. Disturbance'
  BY <1>i, <1>w DEF Disturbance, Real
\* A step that neither touches the files nor begins or ends to write one.
<1>k. ASSUME UNCHANGED files, pc[c] # "write", NEW to, to # "write",
             to \in Executing => pc[c] \in Executing, pc' = [pc EXCEPT ![c] = to],
             _file_path' \in {_file_path, FileOf[c]},
             _file_path' # _file_path => pc[c] = "populate"
      PROVE FilesSound'
  <2>1. \A f \in Files : Writers(f)' = Writers(f)
    BY <1>k, <1>p, <1>c DEF Writers, Commands
  <2>2. \A f \in Files : Sound(f)' = Sound(f)
    BY <1>k, <2>1 DEF Sound, files, Whole
  <2>3. \A d \in Images : pc'[d] \in Executing => pc[d] \in Executing
    BY <1>k, <1>p DEF Commands
  <2>4. FileOf \in [Images -> Files] /\ "populate" \in Executing
    BY TransferAssumption DEF Executing
  <2> QED BY <1>k, <1>c, <2>1, <2>2, <2>3, <2>4 DEF FilesSound, Real, files, Whole
\* A step that changes a file that is being written.
<1>f. ASSUME UNCHANGED _file_path, NEW n \in Nat, n <= Whole(FileOf[c]),
             size' = [size EXCEPT ![FileOf[c]] = n],
             patchy' \subseteq patchy \cup {FileOf[c]},
             FileOf[c] \in patchy' => Writers(FileOf[c])' # {},
             n = Whole(FileOf[c]) \/ Writers(FileOf[c])' # {},
             \A d \in Images \ {c} : pc'[d] = pc[d]
      PROVE FilesSound'
  <2>1. \A f \in Files \ {FileOf[c]} :
          size'[f] = size[f] /\ Writers(f)' = Writers(f) /\ (f \in patchy' => f \in patchy)
    BY <1>f DEF TypeOK, Writers
  <2>2. size'[FileOf[c]] = n
    BY <1>f, <1>c DEF TypeOK
  <2>3. Sound(FileOf[c])'
    BY <1>f, <2>2 DEF Sound, Whole
  <2>4. \A f \in Files \ {FileOf[c]} : Sound(f) => Sound(f)'
    BY <2>1 DEF Sound, Whole
  <2>5. \A d \in Images : pc'[d] \in Executing => Sound(FileOf[d])'
    BY <1>f, <2>3, <2>4, TransferAssumption DEF Real, FilesSound
  <2>6. \A f \in Files : size'[f] <= Whole(f)' /\ (f \in patchy' => Writers(f)' # {})
    BY <1>f, <2>1, <2>2 DEF Real, FilesSound, Whole
  <2> QED BY <1>f, <2>3, <2>4, <2>5, <2>6 DEF Real, FilesSound
<1>3. CASE ImageFails(c)
  <2>1. FilesSound'
    BY <1>3, <1>k DEF ImageFails, Goto, manager, Executing
  <2> QED
    BY <1>3, <1>1, <1>i, <1>d, <2>1 DEF ImageFails, manager, Codes, PacketCodes, Real,
       PathKnown
<1>4. CASE ImageOpen(c)
  <2>1. pc'[c] = "write" /\ \A d \in Images \ {c} : pc'[d] = pc[d]
    BY <1>4, <1>p DEF ImageOpen, Goto, Commands
  <2>2. c \in Writers(FileOf[c])'
    BY <2>1 DEF Writers
  <2>3. FilesSound'
    <3>1. /\ UNCHANGED _file_path /\ 0 \in Nat /\ 0 <= Whole(FileOf[c])
          /\ size' = [size EXCEPT ![FileOf[c]] = 0]
          /\ patchy' \subseteq patchy \cup {FileOf[c]}
      BY <1>4, <1>c, WholeType DEF ImageOpen, manager
    <3> QED BY <1>f, <2>1, <2>2, <3>1
  <2> QED
    BY <1>4, <1>2, <1>i, <1>d, <2>3 DEF ImageOpen, manager, Real, PathKnown
<1>5. CASE ImageFlush(c)
  <2>1. PICK n \in Flushed : n < Whole(FileOf[c]) /\ size' = [size EXCEPT ![FileOf[c]] = n]
    BY <1>5 DEF ImageFlush
  <2>2. c \in Writers(FileOf[c])' /\ pc' = pc
    BY <1>5 DEF ImageFlush, Writers
  <2>3. n \in Nat /\ n <= Whole(FileOf[c])
    BY <2>1, <1>c, WholeType, TransferAssumption
  <2>4. FilesSound'
    BY <1>5, <1>f, <2>1, <2>2, <2>3 DEF ImageFlush, manager
  <2> QED
    BY <1>5, <1>2, <1>i, <1>d, <2>4 DEF ImageFlush, manager, Real, PathKnown
<1>6. CASE ImageWrite(c)
  <2>1. pc'[c] = "deactivate" /\ \A d \in Images \ {c} : pc'[d] = pc[d]
    BY <1>6, <1>p DEF ImageWrite, Goto, Commands
  <2>2. Writers(FileOf[c])' = Writers(FileOf[c]) \ {c} /\ c \in Writers(FileOf[c])
    BY <1>6, <2>1 DEF Writers, ImageWrite, Goto
  <2>3. FileOf[c] \in patchy' => Writers(FileOf[c])' # {}
    BY <1>6, <2>2 DEF ImageWrite
  <2>4. FilesSound'
    <3>1. /\ UNCHANGED _file_path /\ Whole(FileOf[c]) \in Nat
          /\ Whole(FileOf[c]) <= Whole(FileOf[c])
          /\ size' = [size EXCEPT ![FileOf[c]] = Whole(FileOf[c])]
          /\ patchy' \subseteq patchy \cup {FileOf[c]}
      BY <1>6, <1>c, WholeType DEF ImageWrite, manager
    <3> QED BY <1>f, <2>1, <2>3, <3>1
  <2> QED
    BY <1>6, <1>2, <1>i, <1>d, <2>4 DEF ImageWrite, manager, Real, PathKnown
<1>7. CASE ResetActive(c) \/ ResetTotal(c) \/ Stat(c)
  <2>1. FilesSound'
    BY <1>7, <1>k DEF ResetActive, ResetTotal, Stat, Goto, manager, Executing
  <2> QED
    BY <1>7, <1>2, <1>i, <1>d, <2>1 DEF ResetActive, ResetTotal, Stat, manager, Real,
       PathKnown
<1>8. CASE Populate(c) \/ PopulateTooSmall(c)
  <2>1. FilesSound'
    BY <1>8, <1>k DEF Populate, PopulateTooSmall, Goto, Executing
  <2> QED
    BY <1>8, <1>c, <1>1, <1>i, <1>d, <2>1 DEF Populate, PopulateTooSmall, Codes,
       PacketCodes, Real, PathKnown
<1> QED
  BY <1>3, <1>4, <1>5, <1>6, <1>7, <1>8 DEF ImageStep

\* What is found in the file under the number of a packet.
LEMMA ChunkIsReal ==
  ASSUME TypeOK, Real, NEW b \in Batches, pc[b] \in {"dh", "raw"},
         NEW code \in PacketCodes \cap GrabFileChunk(CurrentPacket(b), pc[b])
  PROVE /\ _file_path \in Files
        /\ code = "DATA" => CurrentPacket(b) \in 1..Records[_file_path]
        /\ code = "OTHER" => b \in disturbed
<1>1. _file_path \in Files
  BY DEF Real, PathKnown
<1>2. CASE pc[b] = "raw"
  BY <1>1, <1>2 DEF GrabFileChunk, PacketCodes, Real, Disturbance
<1>3. CASE pc[b] = "dh"
  <2>1. /\ CurrentPacket(b) \in Nat \ {0} /\ 5 + 242 * CurrentPacket(b) <= size[_file_path]
        /\ code = "OTHER" => _file_path \in patchy
    BY <1>1, <1>3, CurrentPacketType, TransferAssumption
      DEF GrabFileChunk, PacketCodes, TypeOK
  <2>2. size[_file_path] \in Nat /\ size[_file_path] <= 5 + 242 * Records[_file_path]
        /\ Records[_file_path] \in Nat
    BY <1>1, TransferAssumption DEF TypeOK, Real, FilesSound, Whole
  <2>3. CurrentPacket(b) \in 1..Records[_file_path]
    BY <2>1, <2>2
  <2>4. code = "OTHER" => b \in disturbed
    BY <1>1, <1>3, <2>1 DEF Real, FilesSound, Disturbance, Sending
  <2> QED BY <1>1, <2>3, <2>4
<1> QED BY <1>2, <1>3

\* No step of a batch touches the files, the manager or a request for an image.
LEMMA BatchFrame ==
  ASSUME TypeOK, NEW b \in Batches, BatchStep(b)
  PROVE /\ UNCHANGED <<manager, files, link, clock, ground_waits>>
        /\ \A c \in Commands \ {b} : pc'[c] = pc[c] /\ seen'[c] = seen[c]
        /\ \A o \in Batches \ {b} : i'[o] = i[o]
        /\ \A f \in Files : Writers(f)' = Writers(f)
<1>c. b \in Commands
  BY DEF Commands
<1>g. UNCHANGED ground_waits
  BY DEF BatchStep, Watch
<1>4. /\ UNCHANGED <<manager, files, link, clock, ground_waits>>
      /\ \A c \in Commands \ {b} : pc'[c] = pc[c] /\ seen'[c] = seen[c]
      /\ \A o \in Batches \ {b} : i'[o] = i[o]
  <2>1. CASE BatchSendsPacket(b)
    BY <2>1, <1>g DEF BatchSendsPacket, TypeOK
  <2>2. CASE BatchReadsTotal(b)
    BY <2>2, <1>c, <1>g DEF BatchReadsTotal, Goto, TypeOK, Quiet
  <2>3. CASE BatchRefused(b) \/ BatchAccepted(b) \/ BatchReachesEnd(b) \/ BatchPastTotal(b)
             \/ BatchChecks(b) \/ BatchGrabFails(b) \/ BatchComplete(b)
    BY <2>3, <1>c, <1>g
      DEF BatchRefused, BatchAccepted, BatchReachesEnd, BatchPastTotal, BatchChecks,
          BatchGrabFails, BatchComplete, Goto, TypeOK, Quiet
  <2> QED BY <2>1, <2>2, <2>3 DEF BatchStep
<1>5. \A f \in Files : Writers(f)' = Writers(f)
  BY <1>4, TransferAssumption DEF Writers, Commands
<1> QED BY <1>4, <1>5

\* How the program counter of a batch moves.
LEMMA BatchMoves ==
  ASSUME TypeOK, NEW b \in Batches, BatchStep(b)
  PROVE /\ pc'[b] \in {"total", "loop", "dh", "raw"} =>
             _active_transfer \/ pc[b] \in {"total", "loop", "dh", "raw"}
        /\ pc'[b] \in {"dh", "raw"} => BatchChecks(b)
<1>c. b \in Commands
  BY DEF Commands
<1>1. CASE BatchAccepted(b)
  BY <1>1, <1>c DEF BatchAccepted, Goto, TypeOK
<1>2. CASE BatchReadsTotal(b) \/ BatchSendsPacket(b)
  BY <1>2, <1>c DEF BatchReadsTotal, BatchSendsPacket, Goto, TypeOK
<1>3. CASE BatchChecks(b)
  BY <1>3 DEF BatchChecks
<1>4. CASE BatchRefused(b) \/ BatchReachesEnd(b) \/ BatchPastTotal(b)
           \/ BatchGrabFails(b) \/ BatchComplete(b)
  BY <1>4, <1>c
    DEF BatchRefused, BatchReachesEnd, BatchPastTotal, BatchGrabFails, BatchComplete,
        Goto, TypeOK
<1> QED BY <1>1, <1>2, <1>3, <1>4 DEF BatchStep

LEMMA RealBatch ==
  ASSUME TypeOK, Real, NEW b \in Batches, BatchStep(b)
  PROVE Real'
<1>c. b \in Commands
  BY DEF Commands
<1>f. /\ UNCHANGED <<manager, files, link, clock, ground_waits>>
      /\ \A c \in Commands \ {b} : pc'[c] = pc[c] /\ seen'[c] = seen[c]
      /\ \A o \in Batches \ {b} : i'[o] = i[o]
      /\ \A f \in Files : Writers(f)' = Writers(f)
  BY BatchFrame
<1>w. /\ disturbed \subseteq disturbed'
      /\ \A o \in Batches : (Sending(o) /\ Writers(_file_path) # {})' => o \in disturbed'
  BY WatchDisturbs DEF BatchStep
<1>m. /\ pc'[b] \in {"total", "loop", "dh", "raw"} =>
           _active_transfer \/ pc[b] \in {"total", "loop", "dh", "raw"}
      /\ pc'[b] \in {"dh", "raw"} => BatchChecks(b)
  BY BatchMoves
<1>s. FilesSound'
  <2>1. \A f \in Files : Sound(f)' = Sound(f)
    BY <1>f DEF Sound, files, Whole
  <2>2. \A c \in Images : pc'[c] = pc[c]
    BY <1>f, TransferAssumption DEF Commands
  <2> QED
    BY <1>f, <2>1, <2>2, TransferAssumption DEF FilesSound, Real, files, manager, Whole
<1>k. PathKnown'
  BY <1>f, <1>m DEF manager, Real, PathKnown, Commands
<1>d. Disturbance'
  <2>1. ASSUME NEW o \in Batches \ {b}
        PROVE /\ pc'[o] \in {"dh", "raw"} => i'[o] < Count[o]
              /\ pc'[o] = "raw" => o \in disturbed'
    BY <1>f, <1>w DEF Real, Disturbance, Commands
  <2>2. ASSUME pc'[b] \in {"dh", "raw"} PROVE i'[b] < Count[b]
    BY <1>m, <2>2 DEF BatchChecks
  <2>3. ASSUME pc'[b] = "raw" PROVE b \in disturbed'
    <3>1. BatchChecks(b) /\ Magic(_file_path, FALSE)
      BY <1>c, <1>m, <2>3 DEF BatchChecks, TypeOK
    <3>2. _file_path \in Files
      BY <3>1 DEF BatchChecks, Real, PathKnown
    <3>3. Writers(_file_path) # {}
      BY <3>1, <3>2, WholeType DEF Magic, Real, FilesSound, Sound, TypeOK
    <3>4. Sending(b)
      BY <3>1 DEF Sending, BatchChecks
    <3> QED BY <1>w, <3>3, <3>4 DEF Real, Disturbance
  <2> QED BY <1>w, <2>1, <2>2, <2>3 DEF Disturbance
<1>1. ASSUME NEW code \in Codes \ PacketCodes, Ack(b, code)
      PROVE Real'
  BY <1>1, <1>c, <1>f, <1>w, <1>s, <1>k, <1>d, AckReal DEF Real
<1>2. CASE BatchSendsPacket(b)
  <2>1. PICK code \in PacketCodes \cap GrabFileChunk(CurrentPacket(b), pc[b]) :
          Transmit(b, CurrentPacket(b), code, _file_path)
    BY <1>2 DEF BatchSendsPacket
  <2> DEFINE m0 == [cmd |-> b, seq |-> CurrentPacket(b), code |-> code,
                    file |-> _file_path, born |-> clock]
  <2>2. Produced' = Produced \cup {m0}
    BY <1>f, <2>1 DEF Transmit, Produced, link
  <2>3. /\ _file_path \in Files
        /\ code = "DATA" => CurrentPacket(b) \in 1..Records[_file_path]
        /\ code = "OTHER" => b \in disturbed
    BY <1>2, ChunkIsReal DEF BatchSendsPacket
  <2>4. /\ m0.code = code /\ m0.cmd = b /\ m0.file = _file_path
        /\ m0.seq = CurrentPacket(b) /\ m0.code \in PacketCodes
    OBVIOUS
  <2> HIDE DEF m0
  <2>5. StatusNumber'
    BY <2>2, <2>4 DEF Real, StatusNumber
  <2>6. PacketsReal'
    BY <1>w, <2>2, <2>3, <2>4 DEF Real, PacketsReal
  <2> QED BY <2>5, <2>6, <1>s, <1>k, <1>d DEF Real
<1>3. CASE BatchRefused(b) \/ BatchReachesEnd(b) \/ BatchPastTotal(b) \/ BatchGrabFails(b)
  BY <1>3, <1>1 DEF BatchRefused, BatchReachesEnd, BatchPastTotal, BatchGrabFails, Codes,
     PacketCodes
<1>4. CASE BatchAccepted(b) \/ BatchReadsTotal(b) \/ BatchChecks(b) \/ BatchComplete(b)
  <2>1. Quiet
    BY <1>4 DEF BatchAccepted, BatchReadsTotal, BatchChecks, BatchComplete
  <2> QED BY <2>1, <1>w, <1>s, <1>k, <1>d, QuietReal DEF Real
<1> QED
  BY <1>2, <1>3, <1>4 DEF BatchStep

LEMMA RealInit == Init => Real
  BY TransferAssumption, WholeType
    DEF Init, Real, FilesSound, Executing, PathKnown, Disturbance, Sending, StatusNumber,
        PacketsReal, Produced, Commands

LEMMA RealNext == TypeOK /\ Real /\ [Next]_vars => Real'
<1> SUFFICES ASSUME TypeOK, Real, [Next]_vars PROVE Real'
  OBVIOUS
<1>1. ASSUME NEW c \in Images, ImageStep(c) PROVE Real'
  BY <1>1, RealImage
<1>2. ASSUME NEW b \in Batches, BatchStep(b) PROVE Real'
  BY <1>2, RealBatch
<1>3. CASE Send \/ SendFails \/ Tick \/ UNCHANGED vars
  <2>1. /\ Produced' = Produced
        /\ UNCHANGED <<manager, files, pc, seen, i, ground_waits, histories>>
    BY <1>3, Elsewhere
  <2>2. \A f : Writers(f)' = Writers(f)
    BY <2>1 DEF Writers
  <2>3. FilesSound' /\ PathKnown' /\ Disturbance'
    BY <2>1, <2>2
      DEF manager, files, histories, Real, FilesSound, Sound, Whole, PathKnown,
          Disturbance, Sending
  <2>4. StatusNumber' /\ PacketsReal'
    BY <2>1 DEF histories, Real, StatusNumber, PacketsReal
  <2> QED BY <2>3, <2>4 DEF Real
<1> QED
  BY <1>1, <1>2, <1>3 DEF Next

LEMMA RealHolds == Spec => []Real
  BY RealInit, RealNext, TypeCorrect, PTL DEF Spec

-----------------------------------------------------------------------------
(* The end marker *)

\* A status never overtakes a packet 2, 3, ... of its batch.
LEMMA MarkerStep ==
  ASSUME TypeOK, Real, [Next]_vars
  PROVE \A m \in sent' \ sent, n \in tx_queue' :
          m.cmd = n.cmd /\ m.cmd \in Batches /\ m.code \notin PacketCodes => n.seq <= 1
<1> SUFFICES ASSUME NEW m \in sent' \ sent, NEW n \in tx_queue',
                    m.code \notin PacketCodes
             PROVE n.seq <= 1
  OBVIOUS
<1>1. ASSUME NEW b \in Batches, BatchStep(b) PROVE FALSE
  BY <1>1, BatchFrame DEF link
<1>2. ASSUME NEW c \in Images, ImageStep(c) PROVE FALSE
  BY <1>2 DEF ImageStep, ImageFails, ImageOpen, ImageFlush, ImageWrite, ResetActive,
     ResetTotal, Stat, Populate, PopulateTooSmall, Quiet, link
<1>3. Send
  BY <1>1, <1>2 DEF Next, vars, link, Tick, SendFails
<1>4. m \in tx_queue /\ n \in tx_queue /\ ~Precedes(n, m)
  BY <1>3 DEF Send, Top
<1>5. m.seq = 1
  BY <1>4 DEF Real, StatusNumber, Produced
<1>6. n.seq \in Nat
  BY <1>4, TransferAssumption DEF TypeOK, Messages
<1> QED
  BY <1>4, <1>5, <1>6 DEF Precedes, Priority

\* The status that ends a batch leaves after the packets 2, 3, ... of the batch.
THEOREM EndMarkerLastHolds == Spec => EndMarkerLast
<1>1. TypeOK /\ Real /\ [Next]_vars =>
        [\A m \in sent' \ sent, n \in tx_queue' :
           m.cmd = n.cmd /\ m.cmd \in Batches /\ m.code \notin PacketCodes => n.seq <= 1]_vars
  BY MarkerStep
<1> QED BY <1>1, TypeCorrect, RealHolds, PTL DEF Spec, EndMarkerLast

-----------------------------------------------------------------------------
(* The path and the count of the file *)

\* While requests for images are for different files, a file that is written is
\* whole when it is sized, and the size is that of the whole file.
ImageFileWhole ==
  \A c \in Images :
    /\ pc[c] \in Executing => size[FileOf[c]] = Whole(FileOf[c])
    /\ pc[c] = "populate" => seen[c] = Whole(FileOf[c])

\* Path and count belong together, unless a request that has begun to replace
\* them is going to store both.
CountOfPath ==
  \/ ~_active_transfer
  \/ \E c \in Images : pc[c] \in {"stat", "populate"}
  \/ _file_path \in Files /\ _total_seq_count = Records[_file_path]

Matches == ImagesApart /\ ImageFileWhole /\ CountOfPath

\* A whole file has as many packets as records.
LEMMA WholeCount ==
  ASSUME NEW f \in Files
  PROVE PacketCount(Whole(f), TRUE) = Records[f]
<1>1. Records[f] \in Nat /\ Records[f] < Modulus /\ Modulus \in Nat
  BY TransferAssumption
<1>2. (Whole(f) - 5) \div 242 = Records[f]
  BY <1>1 DEF Whole
<1>3. Records[f] % Modulus = Records[f]
  BY <1>1
<1> QED BY <1>2, <1>3 DEF PacketCount

LEMMA MatchesImage ==
  ASSUME TypeOK, Real, Matches, ImagesApart', NEW c \in Images, ImageStep(c)
  PROVE Matches'
<1> SUFFICES ImageFileWhole' /\ CountOfPath'
  BY DEF Matches
<1>c. /\ c \in Commands /\ FileOf[c] \in Files
      /\ Records[FileOf[c]] \in Nat \ {0}
  BY TransferAssumption DEF Commands
<1>p. \A to : pc' = [pc EXCEPT ![c] = to] =>
        pc'[c] = to /\ \A d \in Images \ {c} : pc'[d] = pc[d]
  BY <1>c DEF TypeOK, Commands
<1>h. ImageFileWhole /\ CountOfPath
  BY DEF Matches
<1>r. "write" \notin Executing /\ "sent" \notin Executing /\ "done" \notin Executing
  BY DEF Executing
<1>o. \A d \in Images \ {c} : InProgress(d) /\ pc[c] = "write" => FileOf[d] # FileOf[c]
  BY DEF Matches, ImagesApart, InProgress
<1>x. \A d \in Images : pc[d] \in Executing => InProgress(d)
  BY DEF Executing, InProgress
<1>w. \A d \in Images : Whole(FileOf[d])' = Whole(FileOf[d])
  BY DEF Whole
<1>1. CASE ImageFails(c)
  BY <1>1, <1>h, <1>p, <1>r, <1>w DEF ImageFails, Goto, manager, files, ImageFileWhole,
     CountOfPath
<1>2. CASE ImageOpen(c)
  <2>1. \A d \in Images \ {c} : pc[d] \in Executing => FileOf[d] # FileOf[c]
    BY <1>2, <1>p, <1>x DEF ImageOpen, Goto, ImagesApart, InProgress
  <2>2. \A d \in Images : FileOf[d] # FileOf[c] => size'[FileOf[d]] = size[FileOf[d]]
    BY <1>2, TransferAssumption DEF ImageOpen, TypeOK
  <2>3. ImageFileWhole'
    BY <1>2, <1>h, <1>p, <1>r, <1>w, <2>1, <2>2 DEF ImageOpen, Goto, ImageFileWhole
  <2>4. CountOfPath'
    BY <1>2, <1>h, <1>p DEF ImageOpen, Goto, manager, CountOfPath
  <2> QED BY <2>3, <2>4
<1>3. CASE ImageFlush(c)
  <2>1. \A d \in Images : pc[d] \in Executing => FileOf[d] # FileOf[c]
    BY <1>3, <1>o, <1>r, <1>x DEF ImageFlush
  <2>2. \A d \in Images : FileOf[d] # FileOf[c] => size'[FileOf[d]] = size[FileOf[d]]
    BY <1>3, TransferAssumption DEF ImageFlush, TypeOK
  <2>3. ImageFileWhole'
    BY <1>3, <1>h, <1>w, <2>1, <2>2 DEF ImageFlush, ImageFileWhole
  <2>4. CountOfPath'
    BY <1>3, <1>h DEF ImageFlush, manager, CountOfPath
  <2> QED BY <2>3, <2>4
<1>4. CASE ImageWrite(c)
  <2>1. size'[FileOf[c]] = Whole(FileOf[c])
    BY <1>4, <1>c DEF ImageWrite, TypeOK
  <2>2. \A d \in Images : FileOf[d] # FileOf[c] => size'[FileOf[d]] = size[FileOf[d]]
    BY <1>4, TransferAssumption DEF ImageWrite, TypeOK
  <2>3. ImageFileWhole'
    BY <1>4, <1>h, <1>p, <1>w, <2>1, <2>2 DEF ImageWrite, Goto, ImageFileWhole
  <2>4. CountOfPath'
    BY <1>4, <1>h, <1>p DEF ImageWrite, Goto, manager, CountOfPath
  <2> QED BY <2>3, <2>4
<1>5. CASE ResetActive(c)
  BY <1>5, <1>h, <1>p, <1>w DEF ResetActive, Goto, files, ImageFileWhole, CountOfPath,
       Executing
<1>6. CASE ResetTotal(c)
  BY <1>6, <1>h, <1>p, <1>w DEF ResetTotal, Goto, files, ImageFileWhole, CountOfPath,
       Executing
<1>7. CASE Stat(c)
  <2>1. seen'[c] = Whole(FileOf[c]) /\ \A d \in Images \ {c} : seen'[d] = seen[d]
    BY <1>7, <1>c, <1>h DEF Stat, Goto, TypeOK, Commands, ImageFileWhole, Executing
  <2>2. ImageFileWhole'
    BY <1>7, <1>h, <1>p, <1>w, <2>1 DEF Stat, Goto, files, ImageFileWhole, Executing
  <2>3. CountOfPath'
    BY <1>7, <1>p DEF Stat, Goto, CountOfPath
  <2> QED BY <2>2, <2>3
<1>8. CASE Populate(c)
  <2>1. size[FileOf[c]] = Whole(FileOf[c]) /\ seen[c] = Whole(FileOf[c])
    BY <1>8, <1>h DEF Populate, Goto, ImageFileWhole, Executing
  <2>2. FileOf[c] \notin patchy
    <3>1. ASSUME NEW d \in Writers(FileOf[c]) PROVE FALSE
      <4>1. d \in Images /\ pc[d] = "write" /\ FileOf[d] = FileOf[c] /\ pc[c] = "populate"
        BY <1>8, <3>1 DEF Writers, Populate, Goto
      <4> QED BY <4>1 DEF Matches, ImagesApart, InProgress
    <3> QED BY <1>c, <3>1 DEF Real, FilesSound
  <2>3. ~Magic(FileOf[c], FALSE)
    BY <1>c, <2>1, <2>2, WholeType DEF Magic
  <2>4. _total_seq_count' = Records[FileOf[c]]
    BY <1>8, <1>c, <2>1, <2>3, WholeCount DEF Populate
  <2>5. ImageFileWhole'
    BY <1>8, <1>h, <1>p, <1>r, <1>w DEF Populate, Goto, files, ImageFileWhole
  <2> QED BY <1>8, <1>c, <2>4, <2>5 DEF Populate, CountOfPath
<1>9. CASE PopulateTooSmall(c)
  <2>1. seen[c] = Whole(FileOf[c])
    BY <1>9, <1>h DEF PopulateTooSmall, Goto, ImageFileWhole
  <2> QED BY <1>9, <1>c, <2>1, WholeType DEF PopulateTooSmall
<1> QED
  BY <1>1, <1>2, <1>3, <1>4, <1>5, <1>6, <1>7, <1>8, <1>9 DEF ImageStep

LEMMA MatchesInit == Init => Matches
  BY TransferAssumption
    DEF Init, Matches, ImagesApart, InProgress, ImageFileWhole, CountOfPath, Commands,
        Executing

LEMMA MatchesNext ==
  TypeOK /\ Real /\ (~crossed => Matches) /\ [Next]_vars => (~crossed => Matches)'
<1> SUFFICES ASSUME TypeOK, Real, ~crossed => Matches, [Next]_vars, ~crossed'
             PROVE Matches'
  OBVIOUS
<1>w. Watch => ~crossed /\ ImagesApart'
  BY DEF Watch
<1>1. ASSUME NEW c \in Images, ImageStep(c) PROVE Matches'
  BY <1>w, <1>1, MatchesImage DEF ImageStep
<1>2. ASSUME NEW b \in Batches, BatchStep(b) PROVE Matches'
  <2>1. UNCHANGED <<manager, files>>
    BY <1>2, BatchFrame
  <2>2. \A c \in Images : pc'[c] = pc[c] /\ seen'[c] = seen[c]
    BY <1>2, BatchFrame, TransferAssumption DEF Commands
  <2>3. Matches /\ ImagesApart'
    BY <1>w, <1>2 DEF BatchStep
  <2> QED BY <2>1, <2>2, <2>3 DEF manager, files, Matches, ImageFileWhole, CountOfPath,
       Whole
<1>3. CASE Send \/ SendFails \/ Tick \/ UNCHANGED vars
  BY <1>3, Elsewhere DEF manager, files, histories, Matches, ImagesApart, InProgress,
     ImageFileWhole, CountOfPath, Whole
<1> QED
  BY <1>1, <1>2, <1>3 DEF Next

LEMMA MatchesHolds == Spec => [](~crossed => Matches)
  BY MatchesInit, MatchesNext, TypeCorrect, RealHolds, PTL DEF Spec

\* As long as no image is requested again while a request for it is executed,
\* an active transfer announces as many packets as its file has, although Reset
\* and PopulateMetadata of several requests interleave with each other and with
\* the streams that write the files.
THEOREM MetadataMatchesFileHolds == Spec => []MetadataMatchesFile
<1>1. (~crossed => Matches) => MetadataMatchesFile
  BY DEF Matches, CountOfPath, MetadataMatchesFile, InProgress
<1> QED BY <1>1, MatchesHolds, PTL

\* Requests for images that are stored in files of their own never cross.
COROLLARY DistinctFilesMatch ==
  ASSUME \A c, d \in Images : c # d => FileOf[c] # FileOf[d]
  PROVE  Spec => [](~crossed /\ MetadataMatchesFile)
<1>1. Init => ~crossed
  BY DEF Init
<1>2. ~crossed /\ [Next]_vars => ~crossed'
  <2>1. ImagesApart'
    BY DEF ImagesApart
  <2> QED
    BY <2>1, Elsewhere DEF Next, ImageStep, BatchStep, Watch, histories
<1> QED BY <1>1, <1>2, MetadataMatchesFileHolds, PTL DEF Spec

-----------------------------------------------------------------------------
(* A ground that waits *)

\* A request for an image is answered once, by a status, when it is done.
ImageAnswer ==
  \A m \in Produced : m.cmd \in Images =>
    pc[m.cmd] = "done" /\ m.code \notin PacketCodes \cup {"NO_MORE_PACKET_FOR_FILE"}

\* A batch that has sent a status is done.
StatusEndsBatch ==
  \A m \in Produced : m.cmd \in Batches /\ m.code \notin PacketCodes => pc[m.cmd] = "done"

\* Where a batch stands.  Its packet numbers have not wrapped so far: a number
\* past the end of the range is zero, and there is no record before the first.
BatchPosition ==
  \A b \in Batches :
    /\ i[b] <= Count[b]
    /\ pc[b] \in {"sent", "total"} => i[b] = 0
    /\ pc[b] \in {"total", "loop", "dh", "raw"} => Start[b] # 0
    /\ i[b] > 0 => /\ Start[b] # 0
                   /\ Start[b] + i[b] <= Modulus
                   /\ \E last \in Produced :
                        /\ last.cmd = b /\ last.code = "DATA"
                        /\ last.seq = Start[b] + i[b] - 1

\* The packets of a batch are the ones up to its position.
DataInBatch ==
  \A n \in Produced : n.code = "DATA" =>
    /\ n.cmd \in Batches
    /\ n.seq \in Start[n.cmd]..Start[n.cmd] + i[n.cmd] - 1

\* As long as no batch has been disturbed, every packet is a record.
Course ==
  /\ ImageAnswer
  /\ StatusEndsBatch
  /\ disturbed = {} => BatchPosition /\ DataInBatch

\* For a ground that waits, requests for images exclude one another and batches
\* that have packets to send, which see one file, with its count.
OneAtATime ==
  /\ \A c, d \in Images : c # d /\ InProgress(c) => ~InProgress(d)
  /\ \A b \in Batches : Sending(b) =>
       /\ _active_transfer
       /\ \A c \in Images : ~InProgress(c)
       /\ pc[b] \in {"loop", "dh", "raw"} => seen[b] = _total_seq_count

\* All packets of a batch are of one file.
OneFile ==
  /\ \A n \in Produced : n.code = "DATA" /\ Sending(n.cmd) => n.file = _file_path
  /\ \A m, n \in Produced :
       m.code = "DATA" /\ n.code = "DATA" /\ m.cmd = n.cmd => m.file = n.file

Waiting == ground_waits => disturbed = {} /\ OneAtATime /\ OneFile

LEMMA ProducedType ==
  ASSUME TypeOK
  PROVE \A m \in Produced : m.cmd \in Commands /\ m.code \in Codes /\ m.seq \in Nat
  BY TransferAssumption DEF TypeOK, Produced, Messages

\* A command that ends with a status.
LEMMA CourseAck ==
  ASSUME TypeOK, Course, NEW c \in Commands, NEW code \in Codes \ PacketCodes,
         Ack(c, code), UNCHANGED link, pc[c] # "done",
         pc' = [pc EXCEPT ![c] = "done"], i' = i, disturbed \subseteq disturbed',
         c \in Images => code # "NO_MORE_PACKET_FOR_FILE"
  PROVE Course'
<1> DEFINE m0 == [cmd |-> c, seq |-> 1, code |-> code, file |-> NoFile, born |-> clock]
<1>1. Produced' = Produced \cup {m0}
  BY DEF Ack, Transmit, Produced, link
<1>2. m0.code = code /\ m0.cmd = c /\ m0.code # "DATA"
  BY DEF PacketCodes
<1> HIDE DEF m0
<1>3. pc'[c] = "done" /\ \A o \in Commands \ {c} : pc'[o] = pc[o]
  BY DEF TypeOK
<1>4. \A b \in Batches : b \in Commands
  BY DEF Commands
<1>5. ImageAnswer' /\ StatusEndsBatch'
  BY <1>1, <1>2, <1>3, ProducedType, TransferAssumption
    DEF Course, ImageAnswer, StatusEndsBatch, Commands
<1>6. ASSUME disturbed' = {} PROVE BatchPosition /\ DataInBatch
  BY <1>6 DEF Course
<1>7. disturbed' = {} => BatchPosition'
  BY <1>1, <1>3, <1>4, <1>6 DEF BatchPosition
<1>8. disturbed' = {} => DataInBatch'
  BY <1>1, <1>2, <1>6 DEF DataInBatch
<1> QED BY <1>5, <1>7, <1>8 DEF Course

\* A command that goes on.
LEMMA CourseMove ==
  ASSUME TypeOK, Course, NEW c \in Commands, NEW to, Quiet,
         i' = i, pc[c] # "done", pc' = [pc EXCEPT ![c] = to],
         disturbed \subseteq disturbed',
         c \in Batches =>
           \/ pc[c] = "sent" /\ to = "total" /\ Start[c] # 0
           \/ pc[c] \in {"total", "loop", "dh", "raw"} /\ to \in {"loop", "dh", "raw"}
           \/ to = "done"
  PROVE Course'
<1>1. Produced' = Produced
  BY DEF Produced, Quiet, link
<1>2. pc'[c] = to /\ \A o \in Commands \ {c} : pc'[o] = pc[o]
  BY DEF TypeOK
<1>3. \A m \in Produced : m.cmd # c \/ m.code \in PacketCodes
  BY ProducedType DEF Course, ImageAnswer, StatusEndsBatch, Commands
<1>4. ImageAnswer' /\ StatusEndsBatch'
  BY <1>1, <1>2, <1>3, ProducedType DEF Course, ImageAnswer, StatusEndsBatch
<1>5. ASSUME disturbed' = {} PROVE BatchPosition /\ DataInBatch
  BY <1>5 DEF Course
<1>6. disturbed' = {} => BatchPosition'
  BY <1>1, <1>2, <1>5 DEF BatchPosition, Commands
<1>7. disturbed' = {} => DataInBatch'
  BY <1>1, <1>5 DEF DataInBatch
<1> QED BY <1>4, <1>6, <1>7 DEF Course

\* A command that stays where it is: the stream of an image.
LEMMA CourseStays ==
  ASSUME Course, Produced' = Produced, UNCHANGED <<pc, i>>, disturbed \subseteq disturbed'
  PROVE Course'
<1>1. ImageAnswer' /\ StatusEndsBatch'
  BY DEF Course, ImageAnswer, StatusEndsBatch
<1>2. disturbed' = {} => BatchPosition' /\ DataInBatch'
  <2>1. ASSUME disturbed' = {} PROVE BatchPosition /\ DataInBatch
    BY <2>1 DEF Course
  <2> QED BY <2>1 DEF BatchPosition, DataInBatch
<1> QED BY <1>1, <1>2 DEF Course

\* The packet that a batch sends next has a number that did not wrap.
LEMMA NextPacket ==
  ASSUME TypeOK, BatchPosition, NEW b \in Batches, pc[b] \in {"loop", "dh", "raw"},
         CurrentPacket(b) > 0
  PROVE CurrentPacket(b) = Start[b] + i[b] /\ Start[b] + i[b] < Modulus
<1>1. /\ Start[b] \in 0..Modulus - 1 /\ i[b] \in Nat /\ Modulus \in Nat \ {0, 1}
      /\ Start[b] # 0 /\ (i[b] > 0 => Start[b] + i[b] <= Modulus)
  BY TransferAssumption DEF TypeOK, BatchPosition
<1>2. Modulus % Modulus = 0
  BY <1>1
<1>3. Start[b] + i[b] < Modulus
  BY <1>1, <1>2 DEF CurrentPacket
<1> QED BY <1>1, <1>3 DEF CurrentPacket

LEMMA CourseSends ==
  ASSUME TypeOK, Real, Course, NEW b \in Batches, BatchSendsPacket(b),
         disturbed \subseteq disturbed'
  PROVE Course'
<1>p. PICK code \in PacketCodes \cap GrabFileChunk(CurrentPacket(b), pc[b]) :
        Transmit(b, CurrentPacket(b), code, _file_path)
  BY DEF BatchSendsPacket
<1> DEFINE m0 == [cmd |-> b, seq |-> CurrentPacket(b), code |-> code,
                  file |-> _file_path, born |-> clock]
<1>1. Produced' = Produced \cup {m0}
  BY <1>p DEF BatchSendsPacket, Transmit, Produced, link
<1>2. m0.cmd = b /\ m0.code = code /\ m0.seq = CurrentPacket(b) /\ m0.code \in PacketCodes
  OBVIOUS
<1> HIDE DEF m0
<1>b. b \notin Images /\ b \in Commands
  BY TransferAssumption DEF Commands
<1>q. pc'[b] = "loop" /\ \A o \in Commands \ {b} : pc'[o] = pc[o]
  BY <1>b DEF BatchSendsPacket, TypeOK
<1>3. ImageAnswer' /\ StatusEndsBatch'
  <2>1. \A m \in Produced : m.cmd \in Commands /\ (m.cmd = b => m.code \in PacketCodes)
    BY ProducedType DEF BatchSendsPacket, Course, StatusEndsBatch
  <2> QED
    BY <1>1, <1>2, <1>b, <1>q, <2>1 DEF Course, ImageAnswer, StatusEndsBatch
<1>4. ASSUME disturbed' = {} PROVE BatchPosition' /\ DataInBatch'
  <2>1. BatchPosition /\ DataInBatch
    BY <1>4 DEF Course
  <2>2. code = "DATA" /\ CurrentPacket(b) > 0
    <3>1. /\ code = "DATA" => _file_path \in Files
                              /\ CurrentPacket(b) \in 1..Records[_file_path]
          /\ code = "OTHER" => b \in disturbed
      BY ChunkIsReal DEF BatchSendsPacket
    <3> QED BY <1>4, <3>1, CurrentPacketType, TransferAssumption DEF PacketCodes
  <2>3. CurrentPacket(b) = Start[b] + i[b] /\ Start[b] + i[b] < Modulus
    BY <2>1, <2>2, NextPacket DEF BatchSendsPacket
  <2>4. i'[b] = i[b] + 1 /\ \A o \in Batches \ {b} : i'[o] = i[o]
    BY DEF BatchSendsPacket, TypeOK
  <2>5. Start[b] \in Nat /\ i[b] \in Nat /\ Count[b] \in Nat /\ Modulus \in Nat
    BY TransferAssumption DEF TypeOK
  <2>6. BatchPosition'
    <3>1. ASSUME NEW o \in Batches \ {b}
          PROVE /\ i'[o] <= Count[o]
                /\ pc'[o] \in {"sent", "total"} => i'[o] = 0
                /\ pc'[o] \in {"total", "loop", "dh", "raw"} => Start[o] # 0
                /\ i'[o] > 0 => /\ Start[o] # 0
                                /\ Start[o] + i'[o] <= Modulus
                                /\ \E last \in Produced' :
                                     /\ last.cmd = o /\ last.code = "DATA"
                                     /\ last.seq = Start[o] + i'[o] - 1
      BY <3>1, <1>1, <1>q, <2>1, <2>4 DEF BatchPosition, Commands
    <3>2. /\ i'[b] <= Count[b] /\ Start[b] # 0 /\ Start[b] + i'[b] <= Modulus
      <4>1. i[b] < Count[b]
        BY DEF BatchSendsPacket, Real, Disturbance
      <4> QED BY <2>1, <2>3, <2>4, <2>5, <4>1 DEF BatchSendsPacket, BatchPosition
    <3>3. m0 \in Produced' /\ m0.code = "DATA" /\ m0.seq = Start[b] + i'[b] - 1
      BY <1>1, <1>2, <2>2, <2>3, <2>4, <2>5
    <3> QED BY <3>1, <3>2, <3>3, <1>2, <1>q DEF BatchPosition
  <2>7. DataInBatch'
    <3>1. ASSUME NEW n \in Produced, n.code = "DATA"
          PROVE n.cmd \in Batches /\ n.seq \in Start[n.cmd]..Start[n.cmd] + i'[n.cmd] - 1
      <4>1. n.cmd \in Batches /\ n.seq \in Start[n.cmd]..Start[n.cmd] + i[n.cmd] - 1
        BY <2>1, <3>1 DEF DataInBatch
      <4>2. CASE n.cmd = b
        BY <4>1, <4>2, <2>4, <2>5
      <4> QED BY <4>1, <4>2, <2>4
    <3>2. m0.cmd \in Batches /\ m0.seq \in Start[b]..Start[b] + i'[b] - 1
      BY <1>2, <2>3, <2>4, <2>5
    <3> QED BY <3>1, <3>2, <1>1, <1>2 DEF DataInBatch
  <2> QED BY <2>6, <2>7
<1> QED BY <1>3, <1>4 DEF Course

LEMMA CourseInit == Init => Course
  BY TransferAssumption DEF Init, Course, ImageAnswer, StatusEndsBatch, BatchPosition,
         DataInBatch, Produced, Commands

LEMMA CourseNext == TypeOK /\ Real /\ Course /\ [Next]_vars => Course'
<1> SUFFICES ASSUME TypeOK, Real, Course, [Next]_vars PROVE Course'
  OBVIOUS
<1>1. ASSUME NEW c \in Images, ImageStep(c) PROVE Course'
  <2>c. c \in Commands /\ c \notin Batches /\ disturbed \subseteq disturbed'
    BY <1>1, WatchDisturbs, TransferAssumption DEF Commands, ImageStep
  <2>1. CASE ImageFails(c) \/ Populate(c) \/ PopulateTooSmall(c)
    BY <2>1, <2>c, CourseAck
      DEF ImageFails, Populate, PopulateTooSmall, Goto, Codes, PacketCodes
  <2>2. CASE ImageOpen(c) \/ ImageWrite(c) \/ ResetActive(c) \/ ResetTotal(c) \/ Stat(c)
    BY <2>2, <2>c, CourseMove
      DEF ImageOpen, ImageWrite, ResetActive, ResetTotal, Stat, Goto
  <2>3. CASE ImageFlush(c)
    BY <2>3, <2>c, CourseStays DEF ImageFlush, Quiet, link, Produced
  <2> QED BY <1>1, <2>1, <2>2, <2>3 DEF ImageStep
<1>2. ASSUME NEW b \in Batches, BatchStep(b) PROVE Course'
  <2>c. b \in Commands /\ b \notin Images /\ disturbed \subseteq disturbed'
    BY <1>2, WatchDisturbs, TransferAssumption DEF Commands, BatchStep
  <2>1. CASE BatchRefused(b) \/ BatchReachesEnd(b) \/ BatchPastTotal(b) \/ BatchGrabFails(b)
    BY <2>1, <2>c, CourseAck
      DEF BatchRefused, BatchReachesEnd, BatchPastTotal, BatchGrabFails, Goto, Codes,
          PacketCodes
  <2>2. CASE BatchAccepted(b) \/ BatchReadsTotal(b) \/ BatchComplete(b)
    BY <2>2, <2>c, CourseMove
      DEF BatchAccepted, BatchReadsTotal, BatchComplete, Goto
  <2>3. CASE BatchChecks(b)
    <3>1. PICK is_dh \in BOOLEAN : pc' = [pc EXCEPT ![b] = IF is_dh THEN "dh" ELSE "raw"]
      BY <2>3 DEF BatchChecks
    <3> QED BY <2>3, <2>c, <3>1, CourseMove DEF BatchChecks
  <2>4. CASE BatchSendsPacket(b)
    BY <2>c, <2>4, CourseSends
  <2> QED BY <1>2, <2>1, <2>2, <2>3, <2>4 DEF BatchStep
<1>3. CASE Send \/ SendFails \/ Tick \/ UNCHANGED vars
  BY <1>3, Elsewhere, CourseStays DEF histories
<1> QED BY <1>1, <1>2, <1>3 DEF Next

LEMMA CourseHolds == Spec => []Course
  BY CourseInit, CourseNext, TypeCorrect, RealHolds, PTL DEF Spec

\* Only a batch that has no packet to send counts as answered before it is done.
LEMMA AnsweredBatch ==
  ASSUME TypeOK, Real, Course, disturbed = {}, NEW b \in Batches, Answered(b)
  PROVE ~Sending(b)
<1> SUFFICES ASSUME pc[b] \in {"total", "loop", "dh", "raw"}, i[b] < Count[b] PROVE FALSE
  BY DEF Sending
<1>1. \A m \in Produced : m.cmd = b => m.code = "DATA"
  BY DEF Course, StatusEndsBatch, Real, PacketsReal, PacketCodes
<1>h. BatchPosition /\ DataInBatch
  BY DEF Course
<1>2. /\ Start[b] \in 1..Modulus - 1 /\ i[b] \in Nat /\ Modulus \in Nat \ {0, 1}
      /\ (i[b] > 0 => Start[b] + i[b] <= Modulus) /\ Count[b] \in Nat
  BY <1>h, TransferAssumption DEF TypeOK, BatchPosition
<1>3. PICK m \in Produced : m.cmd = b /\ m.seq = (Start[b] + i[b]) % Modulus
  BY <1>1, <1>2 DEF Answered, Produced, PacketCodes
<1>4. m.seq \in Start[b]..Start[b] + i[b] - 1
  BY <1>1, <1>3, <1>h DEF DataInBatch
<1>5. Start[b] + i[b] <= Modulus
  BY <1>2
<1>6. CASE Start[b] + i[b] = Modulus
  <2>1. m.seq = 0
    BY <1>2, <1>3, <1>6
  <2> QED BY <2>1, <1>2, <1>4
<1>7. CASE Start[b] + i[b] < Modulus
  <2>1. m.seq = Start[b] + i[b]
    BY <1>2, <1>3, <1>7
  <2> QED BY <2>1, <1>2, <1>4
<1> QED BY <1>2, <1>5, <1>6, <1>7

\* An image that is answered is done.
LEMMA AnsweredImage ==
  ASSUME Course, NEW c \in Images, Answered(c)
  PROVE pc[c] = "done"
  BY TransferAssumption DEF Course, ImageAnswer, Answered, Produced

\* A request for an image has the transfer for itself.
LEMMA ImageAlone ==
  ASSUME TypeOK, Real, Course, Waiting, ground_waits, NEW c \in Images,
         InProgress(c) \/ MayStart(c)
  PROVE /\ \A d \in Images \ {c} : ~InProgress(d)
        /\ \A b \in Batches : ~Sending(b)
<1>1. CASE InProgress(c)
  BY <1>1 DEF Waiting, OneAtATime
<1>2. CASE MayStart(c)
  <2>1. \A o \in Commands \ {c} : pc[o] = "sent" \/ Answered(o)
    BY <1>2, TransferAssumption DEF MayStart
  <2>2. \A d \in Images \ {c} : ~InProgress(d)
    BY <2>1, AnsweredImage DEF InProgress, Commands
  <2>3. \A b \in Batches : ~Sending(b)
    BY <2>1, AnsweredBatch, TransferAssumption DEF Waiting, Sending, Commands
  <2> QED BY <2>2, <2>3
<1> QED BY <1>1, <1>2

\* Nobody writes the file of a batch that has packets to send.
LEMMA NobodyDisturbs ==
  ASSUME Watch, disturbed = {}, OneAtATime'
  PROVE disturbed' = {}
<1>1. \A b \in Batches : Sending(b)' => Writers(_file_path)' = {}
  BY DEF OneAtATime, Writers, InProgress
<1> QED BY <1>1 DEF Watch

LEMMA WaitingImage ==
  ASSUME TypeOK, Real, Course, Waiting, NEW c \in Images, ImageStep(c)
  PROVE Waiting'
<1>g. ground_waits' = ground_waits /\ Watch
  BY DEF ImageStep, Watch
<1> SUFFICES ASSUME ground_waits PROVE OneAtATime' /\ OneFile'
  BY <1>g, NobodyDisturbs DEF Waiting
<1>1. InProgress(c) \/ MayStart(c)
  BY DEF ImageStep, InProgress, Goto, ImageFails, ImageOpen, ImageFlush, ImageWrite,
         ResetActive, ResetTotal, Stat, Populate, PopulateTooSmall
<1>2. /\ \A d \in Images \ {c} : ~InProgress(d)
      /\ \A b \in Batches : ~Sending(b)
  BY <1>1, ImageAlone
<1>3. \A o \in Commands \ {c} : pc'[o] = pc[o]
  BY DEF ImageStep, Goto, ImageFails, ImageOpen, ImageFlush, ImageWrite, ResetActive,
         ResetTotal, Stat, Populate, PopulateTooSmall, TypeOK
<1>4. i' = i
  BY DEF ImageStep, ImageFails, ImageOpen, ImageFlush, ImageWrite, ResetActive,
         ResetTotal, Stat, Populate, PopulateTooSmall
<1>5. \A b \in Batches : ~Sending(b)'
  BY <1>2, <1>3, <1>4, TransferAssumption DEF Sending, Commands
<1>6. \A d \in Images \ {c} : ~InProgress(d)'
  BY <1>2, <1>3 DEF InProgress, Commands
<1>7. \A n \in Produced' : n.code = "DATA" => n \in Produced
  <2>1. ASSUME NEW code, code # "DATA", Ack(c, code), UNCHANGED link
        PROVE \A n \in Produced' : n.code = "DATA" => n \in Produced
    BY <2>1 DEF Ack, Transmit, link, Produced
  <2>2. CASE Quiet
    BY <2>2 DEF Quiet, link, Produced
  <2>3. CASE ImageFails(c) \/ Populate(c) \/ PopulateTooSmall(c)
    BY <2>1, <2>3 DEF ImageFails, Populate, PopulateTooSmall
  <2>4. CASE ImageOpen(c) \/ ImageFlush(c) \/ ImageWrite(c) \/ ResetActive(c)
             \/ ResetTotal(c) \/ Stat(c)
    BY <2>2, <2>4 DEF ImageOpen, ImageFlush, ImageWrite, ResetActive, ResetTotal, Stat
  <2> QED BY <2>3, <2>4 DEF ImageStep
<1>8. \A n \in Produced : n.code = "DATA" => n.cmd \in Batches
  BY DEF Waiting, Course, DataInBatch
<1>9. OneAtATime'
  BY <1>5, <1>6 DEF OneAtATime
<1>10. OneFile'
  BY <1>5, <1>7, <1>8 DEF Waiting, OneFile
<1> QED BY <1>9, <1>10

LEMMA WaitingBatch ==
  ASSUME TypeOK, Real, Course, Waiting, NEW b \in Batches, BatchStep(b)
  PROVE Waiting'
<1>f. /\ UNCHANGED <<manager, files, link, clock, ground_waits>>
      /\ \A c \in Commands \ {b} : pc'[c] = pc[c] /\ seen'[c] = seen[c]
      /\ \A o \in Batches \ {b} : i'[o] = i[o]
  BY BatchFrame
<1>g. Watch
  BY DEF BatchStep
<1> SUFFICES ASSUME ground_waits PROVE OneAtATime' /\ OneFile'
  BY <1>f, <1>g, NobodyDisturbs DEF Waiting
<1>h. OneAtATime /\ OneFile /\ BatchPosition /\ DataInBatch
  BY DEF Waiting, Course
<1>c. b \in Commands
  BY DEF Commands
<1>d. \A n \in Produced : n.code = "DATA" => n.cmd \in Batches
  BY <1>h DEF DataInBatch
\* The other commands are where they were.
<1>1. /\ \A c \in Images : InProgress(c)' = InProgress(c)
      /\ \A o \in Batches \ {b} : Sending(o)' = Sending(o) /\ pc'[o] = pc[o]
                                  /\ seen'[o] = seen[o]
  BY <1>f, TransferAssumption DEF InProgress, Sending, Commands
<1>2. ASSUME Sending(b)' => /\ _active_transfer
                            /\ \A c \in Images : ~InProgress(c)
                            /\ pc'[b] \in {"loop", "dh", "raw"} => seen'[b] = _total_seq_count
      PROVE OneAtATime'
  BY <1>1, <1>2, <1>f, <1>h DEF OneAtATime, manager
<1>3. ASSUME Sending(b)' => Sending(b) \/ pc[b] = "sent",
             \A n \in Produced' : n.code = "DATA" => n \in Produced
      PROVE OneFile'
  <2>1. pc[b] = "sent" => \A n \in Produced : n.code = "DATA" => n.cmd # b
    BY <1>h, TransferAssumption DEF DataInBatch, BatchPosition, TypeOK
  <2> QED BY <1>1, <1>3, <1>d, <1>f, <1>h, <2>1 DEF OneFile, manager
<1>4. CASE BatchAccepted(b)
  <2>1. \A c \in Images : ~InProgress(c)
    BY <1>4, AnsweredImage, TransferAssumption
      DEF BatchAccepted, MayStart, InProgress, Commands
  <2>2. OneAtATime'
    BY <1>2, <1>4, <2>1, <1>c DEF BatchAccepted, Goto, TypeOK
  <2>3. OneFile'
    BY <1>3, <1>4 DEF BatchAccepted, Goto, Quiet, link, Produced
  <2> QED BY <2>2, <2>3
<1>5. CASE BatchReadsTotal(b)
  <2>1. Sending(b)' => Sending(b)
    BY <1>5 DEF BatchReadsTotal, Goto, Sending
  <2>2. seen'[b] = _total_seq_count
    BY <1>5, <1>c DEF BatchReadsTotal, TypeOK
  <2>3. OneAtATime'
    BY <1>2, <1>h, <2>1, <2>2 DEF OneAtATime
  <2>4. OneFile'
    BY <1>3, <1>5, <2>1 DEF BatchReadsTotal, Quiet, link, Produced
  <2> QED BY <2>3, <2>4
<1>8. CASE BatchChecks(b)
  <2>1. Sending(b) /\ pc[b] = "loop" /\ seen' = seen
    BY <1>8 DEF BatchChecks, Sending
  <2>2. OneAtATime'
    BY <1>2, <1>h, <2>1 DEF OneAtATime
  <2>3. OneFile'
    BY <1>3, <1>8, <2>1 DEF BatchChecks, Quiet, link, Produced
  <2> QED BY <2>2, <2>3
<1>6. CASE BatchSendsPacket(b)
  <2>p. PICK code \in PacketCodes : Transmit(b, CurrentPacket(b), code, _file_path)
    BY <1>6 DEF BatchSendsPacket
  <2> DEFINE m0 == [cmd |-> b, seq |-> CurrentPacket(b), code |-> code,
                    file |-> _file_path, born |-> clock]
  <2>1. Produced' = Produced \cup {m0}
    BY <1>f, <2>p DEF Transmit, Produced, link
  <2>2. m0.cmd = b /\ m0.file = _file_path
    OBVIOUS
  <2> HIDE DEF m0
  <2>3. Sending(b)
    BY <1>6 DEF BatchSendsPacket, Sending, Real, Disturbance
  <2>4. OneAtATime'
    BY <1>2, <1>6, <1>h, <2>3 DEF OneAtATime, BatchSendsPacket
  <2>5. \A n \in Produced : n.code = "DATA" /\ n.cmd = b => n.file = _file_path
    BY <1>h, <2>3 DEF OneFile
  <2>6. OneFile'
    BY <1>1, <1>d, <1>f, <1>h, <2>1, <2>2, <2>5 DEF OneFile, manager
  <2> QED BY <2>4, <2>6
<1>7. CASE BatchRefused(b) \/ BatchReachesEnd(b) \/ BatchPastTotal(b) \/ BatchGrabFails(b)
           \/ BatchComplete(b)
  <2>1. ~Sending(b)'
    BY <1>7, <1>c
      DEF BatchRefused, BatchReachesEnd, BatchPastTotal, BatchGrabFails, BatchComplete,
           Goto, Sending, TypeOK
  <2>2. \A n \in Produced' : n.code = "DATA" => n \in Produced
    BY <1>7 DEF BatchRefused, BatchReachesEnd, BatchPastTotal, BatchGrabFails,
                BatchComplete, Ack, Transmit, Quiet, link, Produced
  <2> QED BY <1>2, <1>3, <2>1, <2>2
<1> QED BY <1>4, <1>5, <1>6, <1>7, <1>8 DEF BatchStep

LEMMA WaitingInit == Init => Waiting
  BY DEF Init, Waiting, OneAtATime, OneFile, InProgress, Sending, Produced, Commands

LEMMA WaitingNext ==
  TypeOK /\ Real /\ Course /\ Waiting /\ [Next]_vars => Waiting'
<1> SUFFICES ASSUME TypeOK, Real, Course, Waiting, [Next]_vars PROVE Waiting'
  OBVIOUS
<1>1. ASSUME NEW c \in Images, ImageStep(c) PROVE Waiting'
  BY <1>1, WaitingImage
<1>2. ASSUME NEW b \in Batches, BatchStep(b) PROVE Waiting'
  BY <1>2, WaitingBatch
<1>3. CASE Send \/ SendFails \/ Tick \/ UNCHANGED vars
  <2>1. /\ Produced' = Produced
        /\ UNCHANGED <<manager, pc, seen, i, ground_waits, histories>>
    BY <1>3, Elsewhere
  <2>2. OneAtATime => OneAtATime'
    BY <2>1 DEF OneAtATime, InProgress, Sending, manager
  <2>3. OneFile => OneFile'
    BY <2>1 DEF OneFile, Sending, manager
  <2> QED BY <2>1, <2>2, <2>3 DEF Waiting, histories
<1> QED BY <1>1, <1>2, <1>3 DEF Next

LEMMA WaitingHolds == Spec => []Waiting
  BY WaitingInit, WaitingNext, TypeCorrect, RealHolds, CourseHolds, PTL DEF Spec

\* A data packet carries a record of a file under that record's number, for any
\* interleaving of requests and any wrap of the packet number; other bytes only
\* reach a batch during which the file was being written, and no ground that
\* waits.
THEOREM DataIsRealHolds == Spec => []DataIsReal
<1>1. Real /\ Waiting => DataIsReal
  BY DEF Real, PacketsReal, Waiting, DataIsReal
<1> QED BY <1>1, RealHolds, WaitingHolds, PTL

\* The requests for images of a ground that waits never cross.
LEMMA WaitingApart == Spec => [](ground_waits => ~crossed)
<1>1. Init => (ground_waits => ~crossed)
  BY DEF Init
<1>2. Waiting' /\ (ground_waits => ~crossed) /\ [Next]_vars => (ground_waits => ~crossed)'
  <2>1. Waiting' /\ ground_waits' => ImagesApart'
    BY DEF Waiting, OneAtATime, ImagesApart, InProgress
  <2> QED
    BY <2>1, Elsewhere DEF Next, ImageStep, BatchStep, Watch, histories
<1> QED BY <1>1, <1>2, WaitingHolds, PTL DEF Spec

LEMMA WaitingMatches == Spec => [](ground_waits => Matches)
  BY WaitingApart, MatchesHolds, PTL

\* To a ground that waits, an active transfer announces as many packets as its
\* file has, whatever is requested twice.
THEOREM WaitingMatchesFile == Spec => [](ground_waits => ~crossed /\ MetadataMatchesFile)
  BY WaitingApart, MetadataMatchesFileHolds, PTL

-----------------------------------------------------------------------------
(* The end of a file *)

\* Where a batch that has given packets meets the end, it has just given the
\* last packet of their file.
LEMMA LastGiven ==
  ASSUME TypeOK, Real, Course, Waiting, ground_waits => Matches, ground_waits,
         NEW b \in Batches, BatchReachesEnd(b),
         NEW n \in Produced, n.code = "DATA", n.cmd = b
  PROVE \E last \in Produced :
          last.cmd = b /\ last.code = "DATA" /\ last.seq = Records[n.file]
<1>h. BatchPosition /\ DataInBatch
  BY DEF Waiting, Course
<1>1. Sending(b) /\ pc[b] = "loop"
  BY DEF BatchReachesEnd, Goto, Sending
<1>2. /\ _file_path \in Files /\ seen[b] = Records[_file_path]
      /\ \A m \in Produced : m.code = "DATA" /\ m.cmd = b => m.file = _file_path
  <2>1. _active_transfer /\ seen[b] = _total_seq_count /\ \A c \in Images : ~InProgress(c)
    BY <1>1 DEF Waiting, OneAtATime
  <2> QED
    BY <1>1, <2>1 DEF Waiting, OneFile, Matches, CountOfPath, InProgress
<1>3. Start[b] \in Nat /\ i[b] \in Nat /\ seen[b] \in Nat
  BY TransferAssumption DEF TypeOK, Commands
<1>4. i[b] > 0
  <2>1. n.seq \in Start[b]..Start[b] + i[b] - 1
    BY <1>h DEF DataInBatch
  <2> QED BY <1>3, <2>1
<1>5. PICK last \in Produced :
        last.cmd = b /\ last.code = "DATA" /\ last.seq = Start[b] + i[b] - 1
  BY <1>4, <1>h DEF BatchPosition
<1>6. last.seq <= Records[_file_path]
  BY <1>2, <1>5, TransferAssumption DEF Real, PacketsReal
<1>7. CurrentPacket(b) > seen[b]
  BY DEF BatchReachesEnd
<1>8. CurrentPacket(b) = Start[b] + i[b]
  <2>1. CurrentPacket(b) > 0
    BY <1>3, <1>7, CurrentPacketType, TransferAssumption
  <2> QED BY <1>1, <1>h, <2>1, NextPacket
<1>9. last.seq = Records[_file_path]
  BY <1>2, <1>3, <1>5, <1>6, <1>7, <1>8, TransferAssumption
<1> QED BY <1>2, <1>5, <1>9

\* The total that a batch read is still the one that GrabFileChunk compares with.
LEMMA GrabKnowsEnd ==
  ASSUME TypeOK, Waiting, ground_waits, NEW b \in Batches
  PROVE ~BatchPastTotal(b)
<1> SUFFICES ASSUME BatchPastTotal(b) PROVE FALSE
  OBVIOUS
<1>1. Sending(b) /\ pc[b] = "loop" /\ CurrentPacket(b) <= seen[b]
        /\ CurrentPacket(b) > _total_seq_count
  BY DEF BatchPastTotal, Goto, Sending
<1>2. seen[b] = _total_seq_count
  BY <1>1 DEF Waiting, OneAtATime
<1> QED
  BY <1>1, <1>2, CurrentPacketType, TransferAssumption DEF TypeOK

\* Who says that a file has ended.
LEMMA WhoEnds ==
  ASSUME [Next]_vars, NEW m \in Produced' \ Produced, m.code = "NO_MORE_PACKET_FOR_FILE"
  PROVE \E b \in Batches :
          /\ m.cmd = b /\ Produced' = Produced \cup {m}
          /\ BatchReachesEnd(b) \/ BatchPastTotal(b)
<1>1. ASSUME NEW c \in Commands, NEW code, Ack(c, code), UNCHANGED link
      PROVE m.cmd = c /\ m.code = code /\ Produced' = Produced \cup {m}
  BY <1>1 DEF Ack, Transmit, Produced, link
<1>q. ~Quiet
  BY DEF Quiet, link, Produced
<1>2. ASSUME NEW c \in Images, ImageStep(c) PROVE FALSE
  <2>1. c \in Commands
    BY DEF Commands
  <2>2. CASE ImageFails(c) \/ Populate(c) \/ PopulateTooSmall(c)
    <3>1. PICK code \in {"FILE_NOT_AVAILABLE", "OK"} : Ack(c, code) /\ UNCHANGED link
      BY <2>2 DEF ImageFails, Populate, PopulateTooSmall
    <3> QED BY <2>1, <3>1, <1>1
  <2>3. CASE ImageOpen(c) \/ ImageFlush(c) \/ ImageWrite(c) \/ ResetActive(c)
             \/ ResetTotal(c) \/ Stat(c)
    BY <2>3, <1>q DEF ImageOpen, ImageFlush, ImageWrite, ResetActive, ResetTotal, Stat
  <2> QED BY <1>2, <2>2, <2>3 DEF ImageStep
<1>3. ASSUME NEW b \in Batches, BatchStep(b)
      PROVE /\ m.cmd = b /\ Produced' = Produced \cup {m}
            /\ BatchReachesEnd(b) \/ BatchPastTotal(b)
  <2>1. b \in Commands
    BY DEF Commands
  <2>2. CASE BatchReachesEnd(b) \/ BatchPastTotal(b)
    BY <2>1, <2>2, <1>1 DEF BatchReachesEnd, BatchPastTotal
  <2>3. CASE BatchGrabFails(b)
    BY <2>1, <2>3, <1>1 DEF BatchGrabFails
  <2>4. CASE BatchRefused(b)
    BY <2>1, <2>4, <1>1 DEF BatchRefused
  <2>5. CASE BatchSendsPacket(b)
    BY <2>5 DEF BatchSendsPacket, Transmit, Produced, link, PacketCodes
  <2>6. CASE BatchAccepted(b) \/ BatchReadsTotal(b) \/ BatchChecks(b) \/ BatchComplete(b)
    BY <2>6, <1>q DEF BatchAccepted, BatchReadsTotal, BatchChecks, BatchComplete
  <2> QED BY <1>3, <2>2, <2>3, <2>4, <2>5, <2>6 DEF BatchStep
<1>4. CASE Send \/ SendFails \/ Tick \/ UNCHANGED vars
  BY <1>4, Elsewhere
<1> QED BY <1>2, <1>3, <1>4 DEF Next

\* No message is taken back.
LEMMA ProducedGrows == [Next]_vars => Produced \subseteq Produced'
<1>1. ASSUME NEW c \in Images, ImageStep(c) PROVE Produced \subseteq Produced'
  BY <1>1 DEF ImageStep, ImageFails, ImageOpen, ImageFlush, ImageWrite, ResetActive,
     ResetTotal, Stat, Populate, PopulateTooSmall, Ack, Transmit, Quiet, link, Produced
<1>2. ASSUME NEW b \in Batches, BatchStep(b) PROVE Produced \subseteq Produced'
  BY <1>2 DEF BatchStep, BatchRefused, BatchAccepted, BatchReadsTotal, BatchReachesEnd,
     BatchPastTotal, BatchChecks, BatchSendsPacket, BatchGrabFails, BatchComplete, Ack,
     Transmit, Quiet, link, Produced
<1> QED BY <1>1, <1>2, Elsewhere DEF Next

LEMMA EndNext ==
  ASSUME TypeOK, Real, Course, Waiting, ground_waits => Matches, EndIsTheEnd, [Next]_vars
  PROVE EndIsTheEnd'
<1>g. ground_waits' = ground_waits
  BY Elsewhere DEF Next, ImageStep, BatchStep, Watch
<1> SUFFICES ASSUME ground_waits,
                    NEW m \in Produced', NEW n \in Produced',
                    m.code = "NO_MORE_PACKET_FOR_FILE", n.code = "DATA", m.cmd = n.cmd
             PROVE \E last \in Produced' :
                     last.cmd = m.cmd /\ last.code = "DATA" /\ last.seq = Records[n.file]
  BY <1>g DEF EndIsTheEnd
<1>1. CASE m \in Produced /\ n \in Produced
  BY <1>1, ProducedGrows DEF EndIsTheEnd
<1>2. CASE m \notin Produced
  <2>1. PICK b \in Batches :
          /\ m.cmd = b /\ Produced' = Produced \cup {m}
          /\ BatchReachesEnd(b) \/ BatchPastTotal(b)
    BY <1>2, WhoEnds
  <2>2. BatchReachesEnd(b) /\ n \in Produced /\ n.cmd = b
    BY <2>1, GrabKnowsEnd
  <2>3. \E last \in Produced :
          last.cmd = b /\ last.code = "DATA" /\ last.seq = Records[n.file]
    BY <2>2, LastGiven
  <2> QED BY <2>1, <2>3
<1>3. CASE m \in Produced /\ n \notin Produced
  <2>q. ~Quiet
    BY <1>3 DEF Quiet, link, Produced
  <2>a. ASSUME NEW c \in Commands, NEW code \in Codes \ PacketCodes, Ack(c, code),
               UNCHANGED link
        PROVE FALSE
    BY <1>3, <2>a DEF Ack, Transmit, Produced, link, PacketCodes
  <2>1. ASSUME NEW c \in Images, ImageStep(c) PROVE FALSE
    <3>c. c \in Commands
      BY DEF Commands
    <3>1. ~ (ImageFails(c) \/ Populate(c) \/ PopulateTooSmall(c))
      BY <2>a, <3>c DEF ImageFails, Populate, PopulateTooSmall, Codes, PacketCodes
    <3>2. ~ (ImageOpen(c) \/ ImageFlush(c) \/ ImageWrite(c) \/ ResetActive(c)
             \/ ResetTotal(c) \/ Stat(c))
      BY <2>q DEF ImageOpen, ImageFlush, ImageWrite, ResetActive, ResetTotal, Stat
    <3> QED BY <2>1, <3>1, <3>2 DEF ImageStep
  <2>2. PICK b \in Batches : BatchStep(b)
    BY <1>3, <2>1, Elsewhere DEF Next
  <2>c. b \in Commands
    BY DEF Commands
  <2>3. BatchSendsPacket(b)
    <3>1. ~ (BatchRefused(b) \/ BatchReachesEnd(b) \/ BatchPastTotal(b) \/ BatchGrabFails(b))
      BY <2>a, <2>c
        DEF BatchRefused, BatchReachesEnd, BatchPastTotal, BatchGrabFails, Codes,
             PacketCodes
    <3>2. ~ (BatchAccepted(b) \/ BatchReadsTotal(b) \/ BatchChecks(b) \/ BatchComplete(b))
      BY <2>q DEF BatchAccepted, BatchReadsTotal, BatchChecks, BatchComplete
    <3> QED BY <2>2, <3>1, <3>2 DEF BatchStep
  <2>4. n.cmd = b /\ pc[b] \in {"dh", "raw"}
    BY <1>3, <2>3 DEF BatchSendsPacket, Transmit, Produced, link
  <2> QED BY <1>3, <2>4 DEF Course, StatusEndsBatch, PacketCodes
<1> QED BY <1>1, <1>2, <1>3

\* To a ground that waits, a batch that ends with NO_MORE_PACKET_FOR_FILE has
\* given the last record of the file.
THEOREM EndIsTheEndHolds == Spec => []EndIsTheEnd
<1>1. Init => EndIsTheEnd
  BY DEF Init, EndIsTheEnd, Produced
<1>2. TypeOK /\ Real /\ Course /\ Waiting /\ (ground_waits => Matches) /\ EndIsTheEnd
        /\ [Next]_vars => EndIsTheEnd'
  BY EndNext
<1> QED
  BY <1>1, <1>2, TypeCorrect, RealHolds, CourseHolds, WaitingHolds, WaitingMatches, PTL
    DEF Spec

-----------------------------------------------------------------------------
(* The instances of RadioFile and DatasetFiles *)

\* Packets and Folders.
S1 == INSTANCE StoredFilesProofs
  WITH Images <- {<<3>>, <<4, 1>>, <<2, 5>>},
       Texts <- {[size |-> s, bom |-> b] : s \in {3, 4, 9}, b \in BOOLEAN}
                  \cup {[size |-> 0, bom |-> FALSE]},
       DH_FILE_HEADER_SIZE <- 2, DH_PACKET_HEADER_SIZE <- 2, DH_MAX_PAYLOAD_SIZE <- 4,
       PACKET_HEADER_SIZE <- 2, MAX_PAYLOAD_PER_PACKET <- 2, FragRange <- 3,
       DiskFull <- TRUE,
       Configs <- {Early, Late, Invalid}, Uploads <- {Empty}, Edited <- {},
       Frames <- {"a"}, Times <- {1, 6}, Word <- 8, MAX_SAMPLES <- 3,
       ABSOLUTE_MINIMUM_PERIOD <- 1, ABSOLUTE_MAXIMUM_PERIOD <- 2,
       PERIODIC <- 1, PERIODIC_LDMK <- 2,
       Defaults <- Parameters(0, 2, 3, 1), WholeFiles <- TRUE

\* Packets and Spoilt.
S2 == INSTANCE StoredFilesProofs
  WITH Images <- {<<3>>, <<4, 1>>, <<2, 5>>},
       Texts <- {[size |-> s, bom |-> b] : s \in {3, 4, 9}, b \in BOOLEAN}
                  \cup {[size |-> 0, bom |-> FALSE]},
       DH_FILE_HEADER_SIZE <- 2, DH_PACKET_HEADER_SIZE <- 2, DH_MAX_PAYLOAD_SIZE <- 4,
       PACKET_HEADER_SIZE <- 2, MAX_PAYLOAD_PER_PACKET <- 2, FragRange <- 3,
       DiskFull <- TRUE,
       Configs <- {Early}, Uploads <- Uploads, Edited <- Edited,
       Frames <- {"a", "b"}, Times <- {1}, Word <- 8, MAX_SAMPLES <- 3,
       ABSOLUTE_MINIMUM_PERIOD <- 1, ABSOLUTE_MAXIMUM_PERIOD <- 2,
       PERIODIC <- 1, PERIODIC_LDMK <- 2,
       Defaults <- Parameters(0, 2, 3, 1), WholeFiles <- FALSE

LEMMA PacketLists ==
  /\ \A s : Packets!FlattenSeq(s) = S1!FlattenSeq(s)
  /\ \A t, n : Packets!packetize_tile(t, n) = S1!packetize_tile(t, n)
<1>1. \A s : Packets!FlattenSeq(s) = S1!FlattenSeq(s)
  BY DEF Packets!FlattenSeq, S1!FlattenSeq
<1>2. \A t, n : Packets!packetize_tile(t, n) = S1!packetize_tile(t, n)
  BY DEF
    Packets!packetize_tile, Packets!Pieces, Packets!Least, S1!packetize_tile, S1!Pieces,
    S1!Least
<1> QED BY <1>1, <1>2

LEMMA PacketTiles == \A x : Packets!packetize_tiles(x) = S1!packetize_tiles(x)
BY PacketLists DEF Packets!packetize_tiles, S1!packetize_tiles

LEMMA PacketWriter == \A x, t, p :
  Packets!WriteFixedPacketFile(x, t, p) <=> S1!WriteFixedPacketFile(x, t, p)
BY DEF
    Packets!WriteFixedPacketFile, Packets!Length, Packets!FileSize, Packets!Unread,
    Packets!DH_FIXED_PACKET_SIZE, Packets!None, Packets!SelectInSeq, Packets!Min,
    S1!WriteFixedPacketFile, S1!Length, S1!FileSize, S1!Unread, S1!DH_FIXED_PACKET_SIZE,
    S1!None, S1!SelectInSeq, S1!Min

LEMMA PacketReader == \A f : Packets!ReadFixedPacketFile(f) = S1!ReadFixedPacketFile(f)
BY DEF
    Packets!ReadFixedPacketFile, Packets!DH_FIXED_PACKET_SIZE, Packets!Length,
    Packets!Magic, S1!ReadFixedPacketFile, S1!DH_FIXED_PACKET_SIZE, S1!Length, S1!Magic

LEMMA PacketsNext == Packets!Next => S1!Next
<1>1. \A x : Packets!load_image(x) <=> S1!load_image(x)
  BY PacketTiles DEF Packets!load_image, S1!load_image
<1>2. Packets!write_radio_file <=> S1!write_radio_file
  BY PacketWriter DEF
    Packets!write_radio_file, Packets!NoText, S1!write_radio_file, S1!NoText
<1>3. \A t : Packets!PacketizeJsonFile(t) <=> S1!PacketizeJsonFile(t)
  BY PacketWriter DEF
    Packets!PacketizeJsonFile, Packets!BOM, Packets!Pieces, Packets!None, Packets!Least,
    S1!PacketizeJsonFile, S1!BOM, S1!Pieces, S1!None, S1!Least
<1>4. Packets!ReadPacketsFromDataHandlerFile <=> S1!ReadPacketsFromDataHandlerFile
  BY PacketReader DEF
    Packets!ReadPacketsFromDataHandlerFile, Packets!None, Packets!Length,
    S1!ReadPacketsFromDataHandlerFile, S1!None, S1!Length
<1>5. Packets!DepacketizeJsonFile <=> S1!DepacketizeJsonFile
  BY PacketReader DEF
    Packets!DepacketizeJsonFile, Packets!NoText, S1!DepacketizeJsonFile, S1!NoText
<1>6. Packets!ImageUnread <=> S1!ImageUnread
  BY DEF Packets!ImageUnread, S1!ImageUnread
<1>7. \A x : Packets!TileFails(x) <=> S1!TileFails(x)
  BY DEF Packets!TileFails, S1!TileFails
<1>8. Packets!PowerFails <=> S1!PowerFails
  BY DEF
    Packets!PowerFails, Packets!None, Packets!Unread, S1!PowerFails, S1!None, S1!Unread
<1> SUFFICES ASSUME Packets!Next PROVE S1!Next
  OBVIOUS
<1>9. CASE \E image \in {<<3>>, <<4, 1>>, <<2, 5>>} :
             Packets!TileFails(image) \/ Packets!load_image(image)
  BY <1>1, <1>7, <1>9 DEF S1!Next
<1>10. CASE \E text \in {[size |-> s, bom |-> b] : s \in {3, 4, 9}, b \in BOOLEAN}
                        \cup {[size |-> 0, bom |-> FALSE]} :
              Packets!PacketizeJsonFile(text)
  BY <1>3, <1>10 DEF S1!Next
<1>11. CASE Packets!ImageUnread \/ Packets!write_radio_file \/ Packets!PowerFails
  BY <1>2, <1>6, <1>8, <1>11 DEF S1!Next
<1>12. CASE Packets!ReadPacketsFromDataHandlerFile \/ Packets!DepacketizeJsonFile
  BY <1>4, <1>5, <1>12 DEF S1!Next
<1> QED BY <1>9, <1>10, <1>11, <1>12 DEF Packets!Next

LEMMA PacketsInit == Packets!Init => S1!Init
BY DEF
    Packets!Init, Packets!None, Packets!NoText, Packets!Unread, S1!Init, S1!None,
    S1!NoText, S1!Unread

LEMMA PacketsAssumed == S1!RadioFileAssumption
BY PacketInstance DEF
    Packets!RadioFileAssumption, Packets!BOM, S1!RadioFileAssumption, S1!BOM

LEMMA PacketsHold == S1!RadioInv /\ [MCNext]_all => S1!RadioInv'
<1> SUFFICES ASSUME S1!RadioInv, [MCNext]_all PROVE S1!RadioInv'
  OBVIOUS
<1>1. CASE Packets!Next
  BY <1>1, PacketsNext, PacketsAssumed, S1!RadioInvNext
<1>2. CASE UNCHANGED packets
  <2>1. UNCHANGED S1!vars
    BY <1>2 DEF packets, S1!vars
  <2> QED BY <2>1, PacketsAssumed, S1!RadioInvNext
<1> QED BY <1>1, <1>2 DEF MCNext, all

LEMMA PacketsBegin == MCInit => S1!RadioInv
BY PacketsInit, PacketsAssumed, S1!RadioInitInv DEF MCInit

\* What is read back of a packet file is the beginning of the original, in the
\* instance of the run.
THEOREM ReadBackIsOriginalHolds == MCSpec => []ReadBackIsOriginal
<1>1. S1!ReadBackIsOriginal => ReadBackIsOriginal
  <2>1. \A s, t : Packets!IsPrefix(s, t) <=> S1!IsPrefix(s, t)
    BY DEF Packets!IsPrefix, S1!IsPrefix
  <2>2. \A s : Packets!Bytes(s) = S1!Bytes(s)
    BY PacketLists DEF Packets!Bytes, S1!Bytes
  <2>3. Packets!Original = S1!Original
    BY PacketLists DEF Packets!Original, S1!Original, Packets!None, S1!None, Packets!BOM,
         S1!BOM
  <2> QED BY <2>1, <2>2, <2>3 DEF ReadBackIsOriginal,
      Packets!ReadBackIsOriginal, Packets!NoText, Packets!FileSize,
      Packets!DH_FIXED_PACKET_SIZE, S1!ReadBackIsOriginal, S1!NoText, S1!FileSize,
      S1!DH_FIXED_PACKET_SIZE
<1>2. S1!RadioInv => S1!ReadBackIsOriginal
  BY PacketsAssumed, S1!ReadBackImplied
<1> QED BY <1>1, <1>2, PacketsBegin, PacketsHold, PTL DEF MCSpec

LEMMA FoldersNext == Folders!Next <=> S1!DF!Next
<1>1. \A x : Folders!Create(x) <=> S1!DF!Create(x)
  BY DEF
    Folders!Create, Folders!isValidConfiguration, Folders!None, S1!DF!Create,
    S1!DF!isValidConfiguration, S1!DF!None
<1>2. \A x : Folders!AddStoredFrameID(x) <=> S1!DF!AddStoredFrameID(x)
  BY DEF
    Folders!AddStoredFrameID, S1!DF!AddStoredFrameID
<1>3. Folders!InitializeOnDisk <=> S1!DF!InitializeOnDisk
  BY DEF
    Folders!InitializeOnDisk, Folders!Lines, Folders!CreateConfigurationFile,
    Folders!Signed, Folders!Numbers, Folders!Parameters, S1!DF!InitializeOnDisk,
    S1!DF!Lines, S1!DF!CreateConfigurationFile, S1!DF!Signed, S1!DF!Numbers,
    S1!DF!Parameters
<1>4. Folders!StoreDatasetToDisk <=> S1!DF!StoreDatasetToDisk
  BY DEF
    Folders!StoreDatasetToDisk, Folders!toJson, Folders!None, Folders!Numbers,
    S1!DF!StoreDatasetToDisk, S1!DF!toJson, S1!DF!None, S1!DF!Numbers
<1>5. \A x, y : Folders!ReadFolder(x, y) <=> S1!DF!ReadFolder(x, y)
  BY DEF
    Folders!ReadFolder, Folders!WithDefaults, Folders!isValidConfigurationFile,
    Folders!Cast, Folders!NUM_CAMERAS, Folders!Parameters, Folders!Reads,
    Folders!validateRawParams, Folders!Lines, S1!DF!ReadFolder, S1!DF!WithDefaults,
    S1!DF!isValidConfigurationFile, S1!DF!Cast, S1!DF!NUM_CAMERAS, S1!DF!Parameters,
    S1!DF!Reads, S1!DF!validateRawParams, S1!DF!Lines
<1>6. \A x : Folders!readDatasetFromDisk(x) <=> S1!DF!readDatasetFromDisk(x)
  BY DEF
    Folders!readDatasetFromDisk, Folders!Parameters, Folders!Reads,
    Folders!validateRawParams, Folders!Cast, Folders!Lines, S1!DF!readDatasetFromDisk,
    S1!DF!Parameters, S1!DF!Reads, S1!DF!validateRawParams, S1!DF!Cast, S1!DF!Lines
<1> QED BY <1>1, <1>2, <1>3, <1>4, <1>5, <1>6 DEF
    Folders!Next, Folders!Crash, Folders!None, S1!DF!Next, S1!DF!Crash, S1!DF!None

LEMMA FoldersInit == Folders!Init => S1!DF!Init
BY DEF
    Folders!Init, Folders!None, S1!DF!Init, S1!DF!None

LEMMA SpoiltNext == Spoilt!Next <=> S2!DF!Next
<1>1. \A x : Spoilt!Create(x) <=> S2!DF!Create(x)
  BY DEF
    Spoilt!Create, Spoilt!isValidConfiguration, Spoilt!None, S2!DF!Create,
    S2!DF!isValidConfiguration, S2!DF!None
<1>2. \A x : Spoilt!AddStoredFrameID(x) <=> S2!DF!AddStoredFrameID(x)
  BY DEF
    Spoilt!AddStoredFrameID, S2!DF!AddStoredFrameID
<1>3. Spoilt!InitializeOnDisk <=> S2!DF!InitializeOnDisk
  BY DEF
    Spoilt!InitializeOnDisk, Spoilt!Lines, Spoilt!CreateConfigurationFile,
    Spoilt!Signed, Spoilt!Numbers, Spoilt!Parameters, S2!DF!InitializeOnDisk,
    S2!DF!Lines, S2!DF!CreateConfigurationFile, S2!DF!Signed, S2!DF!Numbers,
    S2!DF!Parameters
<1>4. Spoilt!StoreDatasetToDisk <=> S2!DF!StoreDatasetToDisk
  BY DEF
    Spoilt!StoreDatasetToDisk, Spoilt!toJson, Spoilt!None, Spoilt!Numbers,
    S2!DF!StoreDatasetToDisk, S2!DF!toJson, S2!DF!None, S2!DF!Numbers
<1>5. \A x, y : Spoilt!ReadFolder(x, y) <=> S2!DF!ReadFolder(x, y)
  BY DEF
    Spoilt!ReadFolder, Spoilt!WithDefaults, Spoilt!isValidConfigurationFile,
    Spoilt!Cast, Spoilt!NUM_CAMERAS, Spoilt!Parameters, Spoilt!Reads,
    Spoilt!validateRawParams, Spoilt!Lines, S2!DF!ReadFolder, S2!DF!WithDefaults,
    S2!DF!isValidConfigurationFile, S2!DF!Cast, S2!DF!NUM_CAMERAS, S2!DF!Parameters,
    S2!DF!Reads, S2!DF!validateRawParams, S2!DF!Lines
<1>6. \A x : Spoilt!readDatasetFromDisk(x) <=> S2!DF!readDatasetFromDisk(x)
  BY DEF
    Spoilt!readDatasetFromDisk, Spoilt!Parameters, Spoilt!Reads,
    Spoilt!validateRawParams, Spoilt!Cast, Spoilt!Lines, S2!DF!readDatasetFromDisk,
    S2!DF!Parameters, S2!DF!Reads, S2!DF!validateRawParams, S2!DF!Cast, S2!DF!Lines
<1> QED BY <1>1, <1>2, <1>3, <1>4, <1>5, <1>6 DEF
    Spoilt!Next, Spoilt!Crash, Spoilt!None, S2!DF!Next, S2!DF!Crash, S2!DF!None

LEMMA SpoiltInit == Spoilt!Init => S2!DF!Init
BY DEF
    Spoilt!Init, Spoilt!None, S2!DF!Init, S2!DF!None

LEMMA DatasetsAssumed == S1!DF!DatasetFilesAssumption /\ S2!DF!DatasetFilesAssumption
<1>1. S1!DF!DatasetFilesAssumption
  BY DatasetInstances DEF
    Folders!DatasetFilesAssumption, Folders!Parameters, Folders!OnOff, Folders!Lines,
    Folders!NUM_CAMERAS, S1!DF!DatasetFilesAssumption, S1!DF!Parameters, S1!DF!OnOff,
    S1!DF!Lines, S1!DF!NUM_CAMERAS
<1>2. S2!DF!DatasetFilesAssumption
  BY DatasetInstances DEF
    Spoilt!DatasetFilesAssumption, Spoilt!Parameters, Spoilt!OnOff, Spoilt!Lines,
    Spoilt!NUM_CAMERAS, S2!DF!DatasetFilesAssumption, S2!DF!Parameters, S2!DF!OnOff,
    S2!DF!Lines, S2!DF!NUM_CAMERAS
<1> QED BY <1>1, <1>2

DatasetsInv ==
  /\ instance = "spoilt" => S2!DatasetInv
  /\ instance # "spoilt" => S1!DatasetInv

LEMMA DatasetsBegin == MCInit => DatasetsInv
<1>1. S1!DF!Init => S1!DatasetInv
  BY DatasetsAssumed, S1!DatasetInitInv
<1>2. S2!DF!Init => S2!DatasetInv
  BY DatasetsAssumed, S2!DatasetInitInv
<1> QED BY <1>1, <1>2, FoldersInit, SpoiltInit DEF MCInit, DatasetsInv

LEMMA DatasetsHold == DatasetsInv /\ [MCNext]_all => DatasetsInv'
<1> SUFFICES ASSUME DatasetsInv, [MCNext]_all PROVE DatasetsInv'
  OBVIOUS
<1>1. UNCHANGED datasets => UNCHANGED S1!DF!vars /\ UNCHANGED S2!DF!vars
  BY DEF datasets, S1!DF!vars, S2!DF!vars
<1>2. /\ instance' = instance
      /\ instance = "spoilt" => [S2!DF!Next]_(S2!DF!vars)
      /\ instance # "spoilt" => [S1!DF!Next]_(S1!DF!vars)
  BY <1>1, FoldersNext, SpoiltNext DEF MCNext, all
<1>3. instance = "spoilt" => S2!DatasetInv'
  BY <1>2, DatasetsAssumed, S2!DatasetInvNext DEF DatasetsInv
<1>4. instance # "spoilt" => S1!DatasetInv'
  BY <1>2, DatasetsAssumed, S1!DatasetInvNext DEF DatasetsInv
<1> QED BY <1>2, <1>3, <1>4 DEF DatasetsInv

LEMMA DatasetsImply ==
  DatasetsInv => /\ ReadBackIsStored
                 /\ IF instance = "spoilt" THEN Spoilt!TypeOK ELSE Folders!TypeOK
<1>1. S1!DatasetInv => Folders!TypeOK /\ Folders!ReadBackIsStored
  <2>1. S1!DatasetInv => S1!DF!TypeOK /\ S1!DF!ReadBackIsStored
    BY DatasetsAssumed, S1!DatasetInvImplies
  <2>2. S1!DF!TypeOK <=> Folders!TypeOK
    BY DEF
      S1!DF!TypeOK, S1!DF!ValidDataset, S1!DF!isValidConfiguration, S1!DF!OnOff,
      S1!DF!NUM_CAMERAS, Folders!TypeOK, Folders!ValidDataset,
      Folders!isValidConfiguration, Folders!OnOff, Folders!NUM_CAMERAS
  <2>3. S1!DF!ReadBackIsStored <=> Folders!ReadBackIsStored
    BY DEF
      S1!DF!ReadBackIsStored, S1!DF!ValidDataset, S1!DF!isValidConfiguration, S1!DF!OnOff,
      S1!DF!NUM_CAMERAS, Folders!ReadBackIsStored, Folders!ValidDataset,
      Folders!isValidConfiguration, Folders!OnOff, Folders!NUM_CAMERAS
  <2> QED BY <2>1, <2>2, <2>3
<1>2. S2!DatasetInv => Spoilt!TypeOK /\ Spoilt!ReadBackIsStored
  <2>1. S2!DatasetInv => S2!DF!TypeOK /\ S2!DF!ReadBackIsStored
    BY DatasetsAssumed, S2!DatasetInvImplies
  <2>2. S2!DF!TypeOK <=> Spoilt!TypeOK
    BY DEF
      S2!DF!TypeOK, S2!DF!ValidDataset, S2!DF!isValidConfiguration, S2!DF!OnOff,
      S2!DF!NUM_CAMERAS, Spoilt!TypeOK, Spoilt!ValidDataset, Spoilt!isValidConfiguration,
      Spoilt!OnOff, Spoilt!NUM_CAMERAS
  <2>3. S2!DF!ReadBackIsStored <=> Spoilt!ReadBackIsStored
    BY DEF
      S2!DF!ReadBackIsStored, S2!DF!ValidDataset, S2!DF!isValidConfiguration, S2!DF!OnOff,
      S2!DF!NUM_CAMERAS, Spoilt!ReadBackIsStored, Spoilt!ValidDataset,
      Spoilt!isValidConfiguration, Spoilt!OnOff, Spoilt!NUM_CAMERAS
  <2> QED BY <2>1, <2>2, <2>3
<1> QED BY <1>1, <1>2 DEF DatasetsInv, ReadBackIsStored

\* A dataset that is read back is the one that was stored, in two folders and in one
\* whose files have been edited or cut.
THEOREM ReadBackIsStoredHolds == MCSpec => []ReadBackIsStored
<1>1. DatasetsInv => ReadBackIsStored
  BY DatasetsImply
<1> QED BY <1>1, DatasetsBegin, DatasetsHold, PTL DEF MCSpec

-----------------------------------------------------------------------------
(* Types in the instance of the run *)

\* A file requested twice and batches at the ends of the range change no type.
LEMMA RepeatedCounts ==
  ASSUME TypeOK
  PROVE /\ \A n \in Nat, is_dh \in BOOLEAN : (is_dh => n >= 5) =>
             Repeated!PacketCount(n, is_dh) \in 0..Modulus - 1
        /\ \A b \in Batches : Repeated!CurrentPacket(b) \in 0..Modulus - 1
        /\ \A c \in Images : Repeated!Whole(RepeatedFileOf[c]) \in Nat
<1>1. ASSUME NEW n \in Nat, NEW is_dh \in BOOLEAN, is_dh => n >= 5
      PROVE Repeated!PacketCount(n, is_dh) = PacketCount(n, is_dh)
  BY DEF Repeated!PacketCount, Repeated!Slices, PacketCount, Slices
<1>2. \A n \in Nat, is_dh \in BOOLEAN : (is_dh => n >= 5) =>
        Repeated!PacketCount(n, is_dh) \in 0..Modulus - 1
  BY <1>1, PacketCountType
<1>3. ASSUME NEW b \in Batches PROVE Repeated!CurrentPacket(b) \in 0..Modulus - 1
  <2>1. RepeatedStart[b] + i[b] \in Nat
    BY TransferAssumption, RepeatedInstance DEF TypeOK
  <2> QED BY <2>1, TransferAssumption DEF Repeated!CurrentPacket
<1>4. \A c \in Images : Repeated!Whole(RepeatedFileOf[c]) \in Nat
  BY TransferAssumption, RepeatedInstance DEF Repeated!Whole
<1> QED BY <1>2, <1>3, <1>4

LEMMA RepeatedAck ==
  ASSUME TypeOK, NEW c \in Commands, NEW code \in Codes, Repeated!Ack(c, code)
  PROVE tx_queue' \subseteq Messages
BY TransferAssumption DEF TypeOK, Repeated!Ack, Repeated!Transmit, Messages

LEMMA RepeatedWatch ==
  ASSUME TypeOK, Repeated!Watch
  PROVE ground_waits' \in BOOLEAN /\ crossed' \in BOOLEAN /\ disturbed' \subseteq Batches
  BY DEF TypeOK, Repeated!Watch, Repeated!ImagesApart

LEMMA RepeatedImageType ==
  ASSUME TypeOK, NEW c \in Images, Repeated!ImageStep(c)
  PROVE TypeOK'
<1>g. ground_waits' \in BOOLEAN /\ crossed' \in BOOLEAN /\ disturbed' \subseteq Batches
  BY RepeatedWatch DEF Repeated!ImageStep
<1> USE DEF TypeOK, Repeated!files, Repeated!link, Repeated!Quiet
<1>c. c \in Commands /\ RepeatedFileOf[c] \in Files
        /\ Repeated!Whole(RepeatedFileOf[c]) \in Nat
  BY TransferAssumption, RepeatedInstance, RepeatedCounts DEF Commands
<1>1. CASE Repeated!ImageFails(c)
  <2>1. tx_queue' \subseteq Messages
    BY <1>1, <1>c, RepeatedAck DEF Repeated!ImageFails, Codes
  <2> QED BY <1>1, <1>c, <1>g, <2>1 DEF Repeated!ImageFails, Repeated!Goto,
       Repeated!manager
<1>2. CASE Repeated!ImageOpen(c)
  BY <1>2, <1>c, <1>g, TransferAssumption, RepeatedInstance DEF Repeated!ImageOpen,
       Repeated!Goto, Repeated!manager
<1>f. CASE Repeated!ImageFlush(c)
  BY <1>f, <1>c, <1>g, TransferAssumption, RepeatedInstance DEF Repeated!ImageFlush,
       Repeated!manager
<1>3. CASE Repeated!ImageWrite(c)
  BY <1>3, <1>c, <1>g, TransferAssumption, RepeatedInstance DEF Repeated!ImageWrite,
       Repeated!Goto, Repeated!manager
<1>4. CASE Repeated!ResetActive(c)
  BY <1>4, <1>c, <1>g DEF Repeated!ResetActive, Repeated!Goto
<1>5. CASE Repeated!ResetTotal(c)
  BY <1>5, <1>c, <1>g, TransferAssumption, RepeatedInstance DEF Repeated!ResetTotal,
       Repeated!Goto
<1>6. CASE Repeated!Stat(c)
  BY <1>6, <1>c, <1>g DEF Repeated!Stat, Repeated!Goto, Repeated!manager
<1>7. CASE Repeated!Populate(c)
  <2>1. tx_queue' \subseteq Messages
    BY <1>7, <1>c, RepeatedAck DEF Repeated!Populate, Codes
  <2>2. _total_seq_count' \in 0..Modulus - 1
    BY <1>7, <1>c, RepeatedCounts DEF Repeated!Populate
  <2> QED BY <1>7, <1>c, <1>g, <2>1, <2>2 DEF Repeated!Populate, Repeated!Goto
<1>8. CASE Repeated!PopulateTooSmall(c)
  <2>1. tx_queue' \subseteq Messages
    BY <1>8, <1>c, RepeatedAck DEF Repeated!PopulateTooSmall, Codes
  <2> QED BY <1>8, <1>c, <1>g, <2>1 DEF Repeated!PopulateTooSmall, Repeated!Goto
<1> QED
  BY <1>1, <1>2, <1>f, <1>3, <1>4, <1>5, <1>6, <1>7, <1>8 DEF Repeated!ImageStep

LEMMA RepeatedBatchType ==
  ASSUME TypeOK, NEW b \in Batches, Repeated!BatchStep(b)
  PROVE TypeOK'
<1>g. ground_waits' \in BOOLEAN /\ crossed' \in BOOLEAN /\ disturbed' \subseteq Batches
  BY RepeatedWatch DEF Repeated!BatchStep
<1> USE DEF TypeOK, Repeated!files, Repeated!link, Repeated!Quiet
<1>c. b \in Commands
  BY DEF Commands
<1>1. CASE Repeated!BatchRefused(b)
  <2>1. tx_queue' \subseteq Messages
    BY <1>1, <1>c, RepeatedAck DEF Repeated!BatchRefused, Codes
  <2> QED BY <1>1, <1>c, <1>g, <2>1 DEF Repeated!BatchRefused, Repeated!Goto,
       Repeated!manager
<1>2. CASE Repeated!BatchAccepted(b)
  BY <1>2, <1>c, <1>g DEF Repeated!BatchAccepted, Repeated!Goto, Repeated!manager
<1>3. CASE Repeated!BatchReadsTotal(b)
  BY <1>3, <1>c, <1>g DEF Repeated!BatchReadsTotal, Repeated!Goto, Repeated!manager
<1>4. CASE Repeated!BatchSendsPacket(b)
  <2>1. PICK code \in Repeated!PacketCodes :
          Repeated!Transmit(b, Repeated!CurrentPacket(b), code, _file_path)
    BY <1>4 DEF Repeated!BatchSendsPacket
  <2>2. tx_queue' \subseteq Messages
    BY <1>c, <2>1, RepeatedCounts
      DEF Repeated!Transmit, Repeated!PacketCodes, PacketCodes, Messages, Codes
  <2>3. i' \in [Batches -> Nat]
    BY <1>4 DEF Repeated!BatchSendsPacket
  <2> QED BY <1>4, <1>g, <2>2, <2>3 DEF Repeated!BatchSendsPacket, Repeated!manager
<1>5. CASE Repeated!BatchReachesEnd(b)
  <2>1. tx_queue' \subseteq Messages
    BY <1>5, <1>c, RepeatedAck DEF Repeated!BatchReachesEnd, Codes
  <2> QED BY <1>5, <1>c, <1>g, <2>1 DEF Repeated!BatchReachesEnd, Repeated!Goto,
       Repeated!manager
<1>6. CASE Repeated!BatchPastTotal(b)
  <2>1. tx_queue' \subseteq Messages
    BY <1>6, <1>c, RepeatedAck DEF Repeated!BatchPastTotal, Codes
  <2> QED BY <1>6, <1>c, <1>g, <2>1 DEF Repeated!BatchPastTotal, Repeated!Goto,
       Repeated!manager
<1>7. CASE Repeated!BatchChecks(b)
  BY <1>7, <1>c, <1>g DEF Repeated!BatchChecks, Repeated!manager
<1>8. CASE Repeated!BatchGrabFails(b)
  <2>1. tx_queue' \subseteq Messages
    BY <1>8, <1>c, RepeatedAck DEF Repeated!BatchGrabFails, Codes
  <2> QED BY <1>8, <1>c, <1>g, <2>1 DEF Repeated!BatchGrabFails, Repeated!manager
<1>9. CASE Repeated!BatchComplete(b)
  BY <1>9, <1>c, <1>g DEF Repeated!BatchComplete, Repeated!Goto, Repeated!manager
<1> QED
  BY <1>1, <1>2, <1>3, <1>4, <1>5, <1>6, <1>7, <1>8, <1>9 DEF Repeated!BatchStep

LEMMA RepeatedNext == TypeOK /\ Repeated!Next => TypeOK'
<1> SUFFICES ASSUME TypeOK, Repeated!Next PROVE TypeOK'
  OBVIOUS
<1>1. ASSUME NEW c \in Images, Repeated!ImageStep(c) PROVE TypeOK'
  BY <1>1, RepeatedImageType
<1>2. ASSUME NEW b \in Batches, Repeated!BatchStep(b) PROVE TypeOK'
  BY <1>2, RepeatedBatchType
<1>3. CASE Repeated!Send
  BY <1>3 DEF Repeated!Send, Repeated!Top, TypeOK, Repeated!manager, Repeated!files,
     Repeated!histories
<1>4. CASE Repeated!SendFails
  BY <1>4 DEF Repeated!SendFails, Repeated!Top, TypeOK, Repeated!manager, Repeated!files,
     Repeated!histories
<1>5. CASE Repeated!Tick
  BY <1>5, TransferAssumption DEF Repeated!Tick, TypeOK
<1> QED
  BY <1>1, <1>2, <1>3, <1>4, <1>5 DEF Repeated!Next

LEMMA TransfersHold == TypeOK /\ [MCNext]_all => TypeOK'
<1> SUFFICES ASSUME TypeOK, [MCNext]_all PROVE TypeOK'
  OBVIOUS
<1>1. CASE Next \/ UNCHANGED vars
  BY <1>1, TypeNext
<1>2. CASE Repeated!Next
  BY <1>2, RepeatedNext
<1> QED BY <1>1, <1>2 DEF MCNext, all

LEMMA PacketTypes == S1!RadioInv => Packets!TypeOK
<1>1. S1!RadioInv => S1!TypeOK
  BY PacketsAssumed, S1!TypesImplied
<1>2. S1!TypeOK <=> Packets!TypeOK
  BY DEF
    Packets!TypeOK, Packets!None, Packets!Payloads, Packets!NoText, S1!TypeOK, S1!None,
    S1!Payloads, S1!NoText
<1> QED BY <1>1, <1>2

\* Each variable of the three modules keeps its type in each instance of the run.
THEOREM AllTypesHold == MCSpec => []AllTypesOK
<1>1. TypeOK /\ S1!RadioInv /\ DatasetsInv => AllTypesOK
  BY PacketTypes, DatasetsImply DEF AllTypesOK
<1>2. MCInit => TypeOK
  BY TypeInit DEF MCInit
<1> QED
  BY <1>1, <1>2, TransfersHold, PacketsBegin, PacketsHold, DatasetsBegin, DatasetsHold,
     PTL DEF MCSpec
=============================================================================
