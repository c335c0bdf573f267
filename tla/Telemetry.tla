------------------------------- MODULE Telemetry -------------------------------
(***************************************************************************)
(* The telemetry thread (FSW-Payload/src/telemetry/telemetry.cpp) and the  *)
(* tegrastats processor (tegra.cpp, tegra_processor.cpp), a process of its *)
(* own that the thread starts, kills and starts again.  They share a frame *)
(* in shared memory under a named semaphore; both outlive the processes.   *)
(*                                                                         *)
(* A frame has two halves, as a copy of it may stop between two fields,    *)
(* and a flag.  It is not a line of tegrastats: parsing changes the fields *)
(* that it finds, in a line or in the part of one that fits in the buffer  *)
(* of fgets, and leaves the others.  What it then holds is one of two      *)
(* values, or what it held before.  What the system part of telemetry      *)
(* reads is left out, and so are the replies to REQUEST_TELEMETRY, which   *)
(* copy tm_frame under a lock that the telemetry thread does not take.     *)
(***************************************************************************)
EXTENDS Naturals

CONSTANTS MAXIMUM_COUNT_WITHOUT_UPDATE,
          Settled  \* a process that was started lives to open its semaphore,
                   \* and does so within the 300 ms before the thread links to it

Readings == {"cool", "hot"}
Zero == "zero"

ASSUME TelemetryAssumption ==
  MAXIMUM_COUNT_WITHOUT_UPDATE \in Nat \ {0} /\ Settled \in BOOLEAN

VARIABLES process,   \* where the tegrastats processor is; "none": not running
          buffer,    \* the frame that it parses into, "frame" of its loop
          sem,       \* the named semaphore: its value is 1 if "free", 0 if "held"
          shared,    \* the shared frame
          reader,    \* where the telemetry thread is
          linked,    \* sem_shared_mem is not null
          tm_frame,  \* the halves it has copied, and TEGRASTATS_PROCESS_STATUS
          counter    \* _counter_before_tegra_restart

writing == <<process, buffer>>
reading == <<reader, linked, tm_frame, counter>>
vars == <<writing, sem, shared, reading>>

\* A former program may have left the semaphore and the frame, its processor
\* running, or the two as a processor that was killed left them.
Init ==
  /\ \E head, tail \in Readings \cup {Zero}, flag \in 0..1 :
       shared = [head |-> head, tail |-> tail, change_flag |-> flag]
  /\ \/ /\ sem = "absent" /\ process = "none"
        /\ shared.head = Zero /\ shared.tail = Zero /\ shared.change_flag = 0
     \/ sem = "free" /\ process \in {"none", "read_line"} /\ shared.head = shared.tail
     \/ sem = "held" /\ process = "none"
  /\ buffer \in IF process = "none" THEN {Zero} ELSE Readings \cup {Zero}
  /\ reader = "check_process"
  /\ linked = FALSE
  /\ tm_frame = [head |-> Zero, tail |-> Zero, status |-> FALSE]
  /\ counter = 0

-----------------------------------------------------------------------------
(* The tegrastats processor *)

Process(from, to) == process = from /\ process' = to

ConfigureSharedMemory ==
  /\ Process("start", "open_semaphore")
  /\ UNCHANGED <<buffer, sem, shared, reading>>

InitializeSemaphore_Resets ==
  /\ Process("open_semaphore", "read_line")
  /\ sem' = "free"
  /\ UNCHANGED <<buffer, shared, reading>>

\* sem_open with O_CREAT: the initial value counts for a new semaphore only.
InitializeSemaphore ==
  /\ Process("open_semaphore", "read_line")
  /\ sem' = IF sem = "absent" THEN "free" ELSE sem
  /\ UNCHANGED <<buffer, shared, reading>>

\* A line, or the first 255 characters of one, or the rest of it.
ParseTegrastatsLine ==
  /\ Process("read_line", "wait")
  /\ buffer' \in Readings \cup {buffer}
  /\ UNCHANGED <<sem, shared, reading>>

ProcessLocks ==
  /\ Process("wait", "copy_head")
  /\ sem = "free" /\ sem' = "held"
  /\ UNCHANGED <<buffer, shared, reading>>

ProcessCopiesHead ==
  /\ Process("copy_head", "copy_tail")
  /\ shared' = [shared EXCEPT !.head = buffer]
  /\ UNCHANGED <<buffer, sem, reading>>

ProcessCopiesTail ==
  /\ Process("copy_tail", "post")
  /\ shared' = [shared EXCEPT !.tail = buffer, !.change_flag = 1]
  /\ UNCHANGED <<buffer, sem, reading>>

ProcessPosts ==
  /\ Process("post", "read_line")
  /\ sem' = "free"
  /\ UNCHANGED <<buffer, shared, reading>>

\* tegrastats ends, or the process is killed from outside, wherever it is.
ProcessDies ==
  /\ process # "none"
  /\ Settled => process \notin {"start", "open_semaphore"}
  /\ process' = "none"
  /\ UNCHANGED <<buffer, sem, shared, reading>>

-----------------------------------------------------------------------------
(* The telemetry thread *)

Reader(from, to) == reader = from /\ reader' = to

\* The constructor starts the process unless there is one.
CheckProcess ==
  /\ Reader("check_process", IF process = "none" THEN "start" ELSE "link")
  /\ UNCHANGED <<writing, sem, shared, linked, tm_frame, counter>>

KillTegraTmProcess_First ==
  /\ Reader("kill", IF process = "none" THEN "link" ELSE "start")
  /\ process' = "none"
  /\ UNCHANGED <<buffer, sem, shared, linked, tm_frame, counter>>

\* RestartTegrastatsProcessor: pkill, whose result is ignored, ...
KillTegraTmProcess ==
  /\ Reader("kill", "start")
  /\ process' = "none"
  /\ UNCHANGED <<buffer, sem, shared, linked, tm_frame, counter>>

\* ... and the start in the background, which succeeds as soon as the shell
\* has forked.  The new process has a frame of zeros.
StartProcess ==
  /\ Reader("start", "link")
  /\ process' = "start"
  /\ buffer' = Zero
  /\ UNCHANGED <<sem, shared, linked, tm_frame, counter>>

LinkToTegraTmProcess ==
  /\ Settled => process \notin {"start", "open_semaphore"}
  /\ Reader("link", "wait")
  /\ linked' = (sem # "absent")
  /\ UNCHANGED <<writing, sem, shared, tm_frame, counter>>

\* sem_timedwait, on a semaphore that may be a null pointer.
ReaderLocks ==
  /\ linked /\ sem = "free"
  /\ Reader("wait", "test_flag")
  /\ sem' = "held"
  /\ UNCHANGED <<writing, shared, linked, tm_frame, counter>>

ReaderTimesOut ==
  /\ linked /\ sem = "held"
  /\ Reader("wait", "missed")
  /\ UNCHANGED <<writing, sem, shared, linked, tm_frame, counter>>

ReaderCrashes ==
  /\ ~linked
  /\ Reader("wait", "crashed")
  /\ UNCHANGED <<writing, sem, shared, linked, tm_frame, counter>>

ReaderFindsNothing ==
  /\ shared.change_flag = 0
  /\ Reader("test_flag", "missed")
  /\ sem' = "free"
  /\ UNCHANGED <<writing, shared, linked, tm_frame, counter>>

ReaderCopiesHead ==
  /\ shared.change_flag # 0
  /\ Reader("test_flag", "copy_tail")
  /\ tm_frame' = [tm_frame EXCEPT !.head = shared.head, !.status = TRUE]
  /\ UNCHANGED <<writing, sem, shared, linked, counter>>

ReaderCopiesTail ==
  /\ Reader("copy_tail", "post")
  /\ tm_frame' = [tm_frame EXCEPT !.tail = shared.tail]
  /\ shared' = [shared EXCEPT !.change_flag = 0]
  /\ UNCHANGED <<writing, sem, linked, counter>>

\* A success leaves the counter as it is.
ReaderPosts ==
  /\ Reader("post", "wait")
  /\ sem' = "free"
  /\ UNCHANGED <<writing, shared, linked, tm_frame, counter>>

UpdateMissed_NeverResets ==
  LET restart == counter + 1 >= MAXIMUM_COUNT_WITHOUT_UPDATE IN
  /\ Reader("missed", IF restart THEN "kill" ELSE "wait")
  /\ tm_frame' = [tm_frame EXCEPT !.status = FALSE]
  /\ counter' = counter + 1
  /\ UNCHANGED <<writing, sem, shared, linked>>

\* UpdateFrame after a failure; the third of them restarts the process.
UpdateMissed ==
  LET restart == counter + 1 >= MAXIMUM_COUNT_WITHOUT_UPDATE IN
  /\ Reader("missed", IF restart THEN "kill" ELSE "wait")
  /\ tm_frame' = [tm_frame EXCEPT !.status = FALSE]
  /\ counter' = IF restart THEN 0 ELSE counter + 1
  /\ UNCHANGED <<writing, sem, shared, linked>>

-----------------------------------------------------------------------------

TegrastatsProcessor ==
  \/ ConfigureSharedMemory \/ InitializeSemaphore \/ ParseTegrastatsLine
  \/ ProcessLocks \/ ProcessCopiesHead \/ ProcessCopiesTail \/ ProcessPosts

RunService ==
  \/ CheckProcess \/ KillTegraTmProcess \/ StartProcess \/ LinkToTegraTmProcess
  \/ ReaderLocks \/ ReaderTimesOut \/ ReaderCrashes
  \/ ReaderFindsNothing \/ ReaderCopiesHead \/ ReaderCopiesTail \/ ReaderPosts
  \/ UpdateMissed

Next == TegrastatsProcessor \/ ProcessDies \/ RunService

Spec == Init /\ [][Next]_vars

\* Both are scheduled; only tegrastats need not deliver lines.
Starting == ConfigureSharedMemory \/ InitializeSemaphore
FairSpec == Spec /\ WF_vars(RunService) /\ WF_vars(Starting)

-----------------------------------------------------------------------------
(* Properties *)

TypeOK ==
  /\ process \in {"none", "start", "open_semaphore", "read_line", "wait",
                  "copy_head", "copy_tail", "post"}
  /\ buffer \in Readings \cup {Zero}
  /\ sem \in {"absent", "free", "held"}
  /\ shared \in [head : Readings \cup {Zero}, tail : Readings \cup {Zero}, change_flag : 0..1]
  /\ reader \in {"check_process", "kill", "start", "link", "wait", "test_flag",
                 "copy_tail", "post", "missed", "crashed"}
  /\ linked \in BOOLEAN
  /\ tm_frame \in [head : Readings \cup {Zero}, tail : Readings \cup {Zero}, status : BOOLEAN]
  /\ counter \in 0..MAXIMUM_COUNT_WITHOUT_UPDATE - 1

\* Whatever the moment at which the process is killed or dies, the telemetry
\* thread never takes over a frame that is half written: its halves are those
\* of one frame of the processor, though the fields of that one may come from
\* several lines of tegrastats (sem_timedwait, InitializeSemaphore).
TegraPartIsWhole == reader # "copy_tail" => tm_frame.head = tm_frame.tail

\* A process that is dead is started again (UpdateFrame).
ProcessIsRestarted == (process = "none") ~> (process # "none")
=============================================================================
