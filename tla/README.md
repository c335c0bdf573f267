# A verification development for the Argus payload software

This directory holds TLA+ modules that model the flight software of the Argus
payload (`FSW-Payload`), configurations that model-check them with TLC, and
proofs checked by TLAPS.

The repository is a collection of trees. The program that flies is
`FSW-Payload`: about fifteen thousand lines of C++ (`src/`, `include/`), a second
payload program in Python (`src/python_payload`) and the ground-side interface
(`py_interface`). `VINSat`, `Vision_Payload`, `argus-agentic-gnc` and
`argus-localization` are research, training and simulation code that does not
run on the payload, and are not modelled. Paths below are relative to
`FSW-Payload/`.

## 1. Inventory

### Command dispatch (`src/payload.cpp`, `src/queues.cpp`, `src/core/thread_pool.cpp`, `src/core/task.cpp`)

State: the RX queue (a heap of tasks ordered by priority and creation time),
the TX queue (a heap of messages), `_running_instance`, the pool's FIFO `tasks`,
its `stop` flag, the counter `busy_threads`, and where each thread is.

Operations: `AddCommand` (called by the communication thread) queues a task and
notifies `cv_queue`; `Run` (main thread) pops tasks and hands them to the pool,
but runs SHUTDOWN itself; `worker_thread` takes tasks; `Task::Execute` calls the
handler up to `MAX_ATTEMPTS` times until it does not throw; handlers call
`TransmitMessage`; `Stop` joins the services and destroys the pool; the
destructor stops the communication thread.

Hard: three kinds of threads and two condition variables, one of which is
notified without the mutex its waiter holds; retries around handlers that send
replies; a pool that is destroyed by a command.

Correct when: a command is in one place at a time and is started at most once;
a reply is sent at most once; no task waits while all workers sleep; the pool is
destroyed after its last user; SHUTDOWN is acknowledged when pool and services are
quiet, and the process ends.

### UART link (`src/communication/uart.cpp`) and named pipe (`src/communication/named_pipe.cpp`)

State: `_running_loop`, `_connected`, the descriptor. `RunLoop` alternates
`Receive` (one command at most) and `Send` (one message at most); a failed write
drops the message. The named pipe is the development link; it keeps a line
buffer between reads. Hard: the descriptor is closed by another thread.
Correct when: what is popped from the TX queue is sent whole or dropped whole.

### File transfer (`include/communication/comms.hpp`, handlers in `src/commands.cpp`)

State: one `FileTransferManager` for all handlers: path, `active_transfer`,
`total_seq_count` (16 bits). `request_image` and `request_od_result` replace the
file; `request_next_file_packet(s)` read chunks by number. Hard: several workers
between `Reset`, `PopulateMetadata` and `GrabFileChunk`; 16-bit packet numbers;
the TX queue's order of the packets of a batch. Correct when: the packets the
ground gets under one metadata reply come from one file, numbers stay in
`1..total`, and the batch contains each packet once.

### Dataset managers (`src/vision/dataset_manager.cpp`, `src/vision/dataset.cpp`)

State: the registry `active_datasets` under `datasets_mtx`, per dataset the
collection thread, `loop_flag` and progress. Operations: `Create`,
`StartCollection`, `StopCollection`, `StopDatasetManager`, `CollectionLoop`,
called from workers. Hard: check-then-act across critical sections, joins from
two callers, a notification without its mutex. Correct when: at most one dataset
collects; a stopped dataset no longer changes camera or IMU state; a running one
keeps the configuration it set.

### IMU manager (`src/imu/imu_manager.cpp`)

State: `state` (IDLE, COLLECT, error), the sensor's power mode, the log file.
`RunLoop` polls; `StartCollection` and `Suspend` change the power mode from
other threads; telemetry reads the temperature. Correct when: `RunLoop` never
reads a suspended sensor, and the state agrees with the sensor.

### Cameras (`src/vision/camera.cpp`, `src/vision/camera_manager.cpp`)

State: per camera its status, capture thread and `capture_loop_flag`; in the
manager the capture mode, the camera mask and the buffered frame IDs. Hard:
flags set by the started thread itself, a notification without its mutex, a mode
written back after it was read. Correct when: `Disable` and `StopLoops`
terminate, and a request is carried out or refused exactly once.

### Telemetry (`src/telemetry/`)

State: `tm_frame`, a shared-memory segment and semaphore, the counter of failed
updates; a second process (`tegra_processor`) writes the segment and is
restarted. Hard: two processes, a killed semaphore owner. Correct when: the
processor is restarted after consecutive failures and telemetry goes on.

### Orbit determination (`src/commands.cpp`, `src/navigation/`)

State: one detached worker, `g_od_run_status` and `g_od_result` under a mutex, the
files of the dataset (`frame_*.json`, `imu_data.csv`, `landmark_measurements.csv`).
RUN_OD starts the worker, which inspects, extracts, loads and solves, and solves
again without the landmarks whose residual is too large. Hard: the dataset is read
twice while it may grow or be rewritten; rows are renumbered in every iteration. Correct when: rows
of two models are not mixed, and a flag, a group or a residual belongs to its row.
The estimation itself is floating-point and sequential.

### Inference, frames, reprocessing (`src/inference/`, `src/vision/frame.cpp`, `src/vision/reprocessing.cpp`)

State: which engines are loaded; the stage, versions and results of a frame, in
memory and in its metadata file. Runs of several programs, with other versions,
follow each other on one folder; a run may end anywhere. Correct when: what is on
disk says how it came about, and a frame that is skipped is up to date.

### Storage, packet files, error log (`src/core/`, `src/communication/tilepack.cpp`)

Fixed-size records in files; a ring of errors. Pure algorithms.

### Image sender (`src/image_sender.cpp`)

Stop-and-wait over the serial line: header, chunks, acknowledgements with a
timeout. Correct when: an acknowledgement is taken for the chunk it is about.

### Python payload (`src/python_payload/`)

Threads for UART, commands, telemetry and experiments around `thread_shared`.
`file_downlink_manager.py` sends a file as a transaction with retries and batch
confirmations; `experiment_thread.py` recognises repeated commands;
`command_thread.py` lets the ACK of SHUTDOWN drain before it sets the shutdown
event. Hard: a lossy link in both directions, events shared between threads,
acknowledgements without an identifier. Correct when: a file reported as sent
has arrived, a command retransmitted by the mainboard is carried out once.

### How they interact

```
 mainboard -> UART::RunLoop -> AddCommand -> rx_queue -> Payload::Run -> ThreadPool
     ^             |                                                        |
     |             +<---------------- tx_queue <---- TransmitMessage <--- handlers
     |                                                                      |
     +-- packets <--- FileTransferManager <--- request_* -------------------+
                      DatasetManager -> CameraManager, ImuManager <---------+
                      Telemetry (own thread) reads the pool, IMU, tegra
```

## 2. Plan

| order | modules | composes | specification above it | proofs, and what they say |
|---|---|---|---|---|
| 1 | `ThreadPool`, `CommandPipeline` | pool within pipeline | `CommandService` | `CommandPipelineProofs`: types, single place, single reply, no stranded task, pool lifetime, the ACK after workers and services, order, the refinement |
| 2 | `CaptureLoop`, `DatasetCapture` | handlers, registry and collection threads over the capture thread | - | `DatasetCaptureProofs`: types, settings have an owner, object lifetime, one stopper, one collects, registration, overlap lemma |
| 3 | `FileTransfer` | handlers over one manager, TX order | - | `StorageProofs`: types, records, metadata, end of a batch |
| 4 | `Camera`, `CameraManager`, `Imu` | threads of callers, capture threads, run loops | - | `CameraImuProofs`, applied in `DevicesProofs`: power, frames, settings, samples |
| 5 | `Telemetry` | two processes and a semaphore | - | `OnboardProofs`: whole frames, the orphaned semaphore |
| 6 | `FrameProcessing`, `OrbitDetermination` | engines within runs; worker, solver, collector | - | `ProcessingProofs`, applied in `OnboardProofs`: honest metadata, current results, one model, rows that stay together |
| 7 | `Downlink` | experiment, command threads, lossy link, mainboard | - | `ProcessingProofs`, applied in `OnboardProofs`: what is reported has arrived |
| 8 | `RadioFile`, `DatasetFiles` | encoder, writer, reader; a dataset and its folder | - | `StoredFilesProofs`, applied in `StorageProofs`: what is read back is what was stored |

None of the modules declares a RECURSIVE operator. `NumberLists` has the one operator
that two modules share: the elements of a set of numbers, in order. Nothing of the plan is
open but liveness, which TLC checks, see section 11.

TLC checks the modules in twelve runs. Components that share no state share a run:
`MCDevices`, `MCOnboard` and `MCStorage` instantiate them side by side, and a
behaviour is one of one instance, the others stay in their initial states. A
variable `instance` says which. Assumptions on the constants of an instance are
ASSUMEd there.

## 3. The command pipeline

`ThreadPool` has the pool's state and one action per locked section of
`worker_thread`, `enqueue` and `shutdown`; notifications happen after the lock is
released and are actions of their own. `CommandPipeline` extends it with the
other threads. Variables carry the names of the fields.

| variable | code |
|---|---|
| `tasks`, `stop`, `busy_threads` | members of `ThreadPool` |
| `worker`, `holds` | program counter and local `task` of `worker_thread` |
| `rx_queue`, `born`, `clock` | RX heap, `Task::created_at`, `timing::GetCurrentTimeMs` |
| `main`, `main_cmd` | program counter of `Run`, then `~Payload`; the popped task |
| `running_instance`, `services`, `pool_alive` | `_running_instance`, the joinable service threads, `thread_pool != nullptr` |
| `comms`, `running_loop`, `port_open`, `sending` | program counter of `UART::RunLoop`, its flag, the descriptor, the popped message |
| `tx_queue`, `sent`, `lost` | TX heap; what was written; what a failed write dropped |
| `calls`, `replies` | handler calls and queued replies per command |
| `detached` | commands whose handler left a thread that is still at work |
| `uplink` | commands the mainboard has not sent yet |

Both heaps are sets from which any minimal element is taken: `std::priority_queue`
leaves the order of equal elements open, and two tasks may carry the same
millisecond. Every command has the default priority because no caller of
`AddCommand` gives another one.

Steps are as small as the interleaving needs. The main thread's wait is two
steps, `MainFindsNothing` and `MainSleeps`: `AddCommand` calls `notify_one` without
holding the mutex of the wait, so the notification can fall between the two and be
lost. The pool's wait is one step, since `enqueue` changes the queue under the
lock that the predicate is evaluated under. A handler is one call that returns
(with a reply, or without one for commands in `Silent`), or throws. It may leave a
thread behind (commands in `Detaching`): RUN_OD detaches its worker
(`commands.cpp:91-113`), and START_CAPTURE_DATASET leaves a collection thread.
`Payload::Stop` joins neither, so they go on while and after it stops the rest.

`Stop` joins three service threads. The join of one returns (`StopService`), or it
never does (`ServiceNeverEnds`), and main is then `hung`: the thread's RunLoop can set
its flag over a stop that came before, StopLoops notifies without the mutex and RunLoop
can miss it (`camera_manager.cpp:365-369`), and RunLoop can wait for the capture thread
of a camera (`camera.cpp:324`). Modules `Camera` and `CameraManager` have the steps that
lead there.

Abstractions: the clock does not run backwards, although the code reads
`CLOCK_REALTIME`; a handler that throws has not queued its reply; replies have
one packet; joining a service thread is one step with two outcomes; a write sends a
message whole or drops it.

`CommandService` is the abstract specification: each command is unsent, accepted,
running, settled or dropped, is started at most once and never after the service
closed. `ImplementsService` maps the pipeline to it through `Status`.

### Runs

`pipeline` (`Pipeline.cfg`): two ordinary commands, one of them silent, and a
SHUTDOWN; one handler leaves a thread behind; two workers; two attempts; one clock tick;
a lossy link. Two workers and
two tasks are the least for two workers to compete, for a worker to sleep while
another runs, and for a task to be discarded while another executes; the tick
gives commands equal and different timestamps; two attempts give a retry and a
giving-up. 863,228 distinct states. It checks:

- `OnePlace`: a command is never in two queues or threads at once.
- `RepliedOnce`: retries do not lead to a second reply or to more calls than
  allowed.
- `NoStrandedTask`: with a task queued and no notification on its way, a worker
  is awake.
- `PoolOutlivesUsers`: the pool object goes away after workers, telemetry and main
  thread have finished with it.
- `AckAfterQuiescence`: when the ACK of SHUTDOWN is queued the pool is stopped, every
  worker has exited and every service is joined. What may still be at work, and
  write files, is exactly what handlers have left behind.
- `BegunInOrder`: commands begin in the order of their arrival milliseconds,
  except that SHUTDOWN overtakes the tasks in the pool.
- `ImplementsService`: the refinement.

All seven are proved as well, and so is the type invariant, which no run of this module
repeats (section 11).

`pipeline_liveness` (`PipelineLive.cfg`): the same instance without a tick, under
`FairSpec`. It checks that a popped SHUTDOWN ends the process, or waits for a service
thread that missed its stop (`ShutdownCompletes`: no wake-up of the pool, no worker
and no communication thread hangs it), that queued tasks are begun or thrown away
(`QueuedTasksSettle`), and
`DispatchedIfTraffic`: a command whose notification was lost is dispatched as long
as other notifications follow. Without that hypothesis dispatch is not
guaranteed: the main thread can sleep with a command in its queue.

`shutdown_ack` (`ShutdownAck.cfg`): only a SHUTDOWN, a link that never fails. The
comment in `Stop` says that the communication thread is stopped in the destructor
so that the command can be acknowledged. TLC finds a run in which the process ends
with the ACK unsent: nothing waits for the TX queue to drain. This is a finding.

Deadlock is not checked since the payload stops after a SHUTDOWN.

Fairness: weak fairness of the communication thread, of the main thread, and of
each worker and its handler, which is what a fair scheduler and handlers that
return give. The ground need not send, the clock need not tick, and no spurious
wake-up is required.

## 4. Dataset collection

`DatasetCapture` models the handlers of START_CAPTURE_DATASET and
STOP_CAPTURE_DATASET as processes on the workers of the pool, the registry, the
`DatasetManager` objects and one collection thread for each. It extends
`CaptureLoop`, the capture thread of `CameraManager`.

| variable | code |
|---|---|
| `active`, `datasets_mtx` | `active_datasets[DATASET_KEY_CMD]`, and the handler that holds its mutex between steps |
| `pc`, `ds`, `dm`, `next` | where a handler is; its `shared_ptr` `ds`; the object it is stopping or letting go of; where it goes on afterwards |
| `reply` | the ACK or error ACK of the command |
| `thread`, `joinable`, `loop_flag`, `progress`, `stored_frame_ids`, `capture_start_time` | members of `DatasetManager` and of its `Dataset` |
| `freed` | the destructor has run |
| `mode`, `folder`, `mask`, `imu` | the settings of cameras and IMU, by the dataset that made them; `None` is the default |
| `cam`, `saved`, `buffer_frame_ids`, `periodic_*`, `turns` | a turn of `CameraManager::RunLoop`; a frame is known by the folder it lies in |

A START command and the object it creates share a name, so that an object is
created once. Shared pointers are modelled because they decide who runs the
destructor: the collection thread holds none. Whatever drops a pointer goes
through `drop`, which frees the object if the pointer is the last one, after
stopping a running collection and joining a finished thread. This happens at the
end of a handler, at the assignment to `ds`, and inside `Create`, where the
mutex is held. `StopCollection` has a step for the flag, the notification, the
join and each device, since another dataset may be starting meanwhile; the wait
of the collection thread has a step for the predicate and one for the sleep,
since `StopCollection` does not take `loop_mtx`.

Abstractions: the three setters of `StopConfig`, and the setters of `LoopConfig`,
are one step each (in between, the capture thread can do nothing that it cannot
do before or after them while no capture is due); `StartCollection`'s assignment
to `collection_thread` is one step, and a concurrent `joinable()` sees the value
before or after it; parameters of a command are valid; capture is periodic, as
all datasets ask for. What drained frames are processed into is left out.

`SetStorageFolder` makes a folder that is missing; if that fails the old one stays and
nobody is told (`camera_manager.cpp:432-439`). `Uncreatable` has the folders for which it
may fail. Frames of a dataset whose folder could not be made go where the last
ones went.

### Runs

`capture_serial` (`CaptureSerial.cfg`): two START and one STOP command; each is
sent when the one before has been answered (`GroundWaits`), in any order, at two
instants; the windows overlap or do not, according to when the first is received;
two cameras; one capture, which suffices for a count beyond the target and
for completion; any folder may fail to be made. 1,226,525 states. It checks that one
dataset collects at a time (`OneCollects`), and that an acknowledged dataset is the registered one, so that
STOP will find it (`AckedIsRegistered`).

`capture_racing` (`CaptureRacing.cfg`): the same commands, on three workers at once
and for overlapping windows. The pool does run them at once. The clock and the
cameras are left out, since the properties are about pointers and owners. The two
datasets are alike, so TLC explores the states up to exchanging them:
1,063,279 states. The folder of either dataset may fail to be made. `SettingsHaveOwner`,
`ObjectOutlivesThread` and `OneStopper` hold under every interleaving; the clause of
`SettingsHaveOwner` about the folder supposes that the general folder, which
`StopCollection` goes back to, is there or can be made. All invariants of these two runs are also proved.

`capture_replace` (`CaptureReplace.cfg`): two START commands at once for different
instants, under `FairSpec`. Each can replace, stop or destroy the other's dataset,
also under `datasets_mtx`; the clock goes on past the end of both windows.
120,190 states. `HandlersFinish`: no join waits for ever. A STOP, or a
START that takes an object that is registered and not yet started for one that
can be replaced, may nevertheless wait for that dataset's whole period, because
`StartCollection` sets the flag again that `StopCollection` cleared.

Fairness: weak fairness of each handler and each collection thread, and of the
clock until its bound. Nothing is asked of the ground or of the cameras: a
dataset without frames ends when its period is over.

`capture_own_folder` (`CaptureOwnFolder.cfg`) ends in a violation, of what the
repository says: the IDs of frames saved for one dataset are published after the
next one has reset the list, also when commands come one by one; the next dataset
records frames that lie in another folder.

Two limits that the model shows and no run states. Without `GroundWaits`, two START
commands on two workers can both find no dataset and both create one
(`commands.cpp:360`); the second entry replaces the first, and both collect. STOP's
notification can fall between the predicate and the sleep of the collection thread
(`dataset_manager.cpp:200`), which then sleeps until the start time, and STOP with
it; `HandlersFinish` asks for an end, not for a prompt one.

Deadlock is not checked: after the last command everything comes to rest.

## 5. File transfer, packet files and dataset folders

### File transfer

`FileTransfer` models `request_image` and `request_next_file_packet(s)` as processes on
workers that share one `FileTransferManager`, and `TX_Queue`.

| variable | code |
|---|---|
| `_active_transfer`, `_total_seq_count`, `_file_path` | the manager; the first atomic, the others under `_mtx` |
| `size`, `patchy` | bytes of each output file on the disk; the files that two requests write at once, whose front may be missing |
| `pc`, `seen`, `i` | where a handler is, the size or total it has read, its loop variable |
| `tx_queue`, `sent`, `lost` | a message is its command, packet number, code, file and millisecond; `lost` are those whose write failed |
| `crossed`, `disturbed` | histories: an image was requested again while a request for it ran; batches during which their file was being written |

A file has 5 bytes of magic and records of 242 bytes. `ImageOpen` truncates it, `ImageFlush`
brings a part of it to the disk when the stream's buffer is full, `ImageWrite` the rest:
`WriteFixedPacketFile` takes no lock (`data_handling.cpp:791-821`). Whoever sizes or reads the
file meanwhile sees one of these sizes. `Reset` is two steps (an atomic store and a locked
one), `PopulateMetadata` two (the size is taken before the lock). A batch has one step for
the test of `active_transfer`, one for the total, and for each packet one for the test of the
number and the first open of the file, which looks for the magic (`BatchChecks`), and one
for the second open, which reads the chunk: a record, or a slice of 240 bytes if the magic
was not seen (`comms.hpp:129-169`). The lock is held from the one to the other, but not by the
writers. `CurrentPacket` and the counts are computed modulo `Modulus`, as the code does in
16 bits. `SendFails` drops a message that has been popped (`uart.cpp:326`).

In the run `storage` (`Storage.cfg`, `MCStorage`) two instances are of this module, with
two images, two batches and `Modulus = 4`, so that numbers wrap; the second file has
the largest number of records that can be counted. "different" requests two images; a file
may be seen empty, or with less than its magic; the clock ticks once and one message may be
lost (`MaxLost`). "repeated" requests one image twice, with a batch that starts at packet 0
and one past the end; its file may also be seen with one record and a part of the next
(`Flushed`). In either the ground
sends its commands at any time or waits for its answers: `ground_waits` is chosen in
the initial state and never changes. A ground that waits has no image open, and batches only
with other batches. `AllTypesOK` holds the type invariants of the three modules of the run.

- `MetadataMatchesFile`: when no request is under way, path and count belong
  together, in a behaviour that has not been `crossed`. If an image is requested again while a
  request for it runs, the second writer truncates what the first is about to size, and a too
  small count can be stored last, and stay; `PopulateMetadata` also stores the path of a
  file before it rejects the file as too small (`comms.hpp:76`, `:91`). A ground that
  waits never crosses requests, which is proved (`WaitingMatchesFile`).
- `DataIsReal`: a packet carries the record that its number says, although number,
  total and record are read in three critical sections and the file is opened twice. Other
  bytes (a raw slice of a file that is being written again, a record that is not there yet)
  do reach a ground; only in a batch during which the very file was being written, and
  never if the ground waits.
- `EndIsTheEnd`: with a ground that waits, NO_MORE_PACKET_FOR_FILE comes after the last
  record. Without `ground_waits` it does not hold: a request on another worker sets
  the total to 0 in the middle of a batch (`comms.hpp:120`).
- `EndMarkerLast`: the end marker leaves after packets 2, 3, ... of its batch. Packet
  1 has the marker's priority and may leave after it (`messages.cpp:14`).
- `RequestsAnswered`: a batch that was accepted is answered, by its packets or a
  status, unless one of its own messages was lost, under weak fairness of its handler and of
  the sending thread, for a ground that waits and batches
  of one packet or more: `Answered` is vacuous for a batch of none, which gets no
  reply at all.

Left out: a stream that fails after the file has been opened (it is in `RadioFile`), and
`request_od_result`, which prepares its text by the same `Reset` and `PopulateMetadata`.
Deadlock is not checked in this run and the ones
below: behaviours end when the bounded supply of commands is used up.

### Packet files

`RadioFile` follows the bytes of an image or a JSON text into a file of records and
back. Only sizes and places are modelled: a payload is a piece of a tile, or of the
text, and its header.

| variable | code |
|---|---|
| `encoder` | a `TilepackEncoder`: its image, `tiles_`, `packets_` |
| `loaded` | what `load_image` has returned; `request_image` writes only after it |
| `bin` | a file: its payloads, and how many of its bytes are on the disk |
| `out` | what a reader has made of the file as it is now |

The actions are `load_image` with its two ways to fail, the writers
(`write_radio_file`, `PacketizeJsonFile`, both through `WriteFixedPacketFile`),
`PowerFails`, and the readers (`ReadPacketsFromDataHandlerFile`,
`DepacketizeJsonFile`, both through `ReadFixedPacketFile`). Instance "packets": one and two tiles of
one to three fragments, texts of up to three records, and a disk that may keep any
beginning of what was written. Fragments are two bytes, headers two, which is enough for
a record to be cut before, in and after its header, and for a last fragment that is
full, or is not.

- `ReadBackIsOriginal`: what is read without an error is the beginning of the image or
  text, byte for byte, whatever end the file has lost, and all of it if nothing is lost;
  every fragment tells its place in its tile.

Known limits of the code: a text of which only a part of the magic number is on the disk
is read as a raw file that holds that part, without an error; a stream that fails while
writing is not noticed; a payload that is too large ends the writing and leaves the
records before it; an empty payload cannot be read back; a text of nothing but a byte
order mark gives a file without records, which `DepacketizeJsonFile` refuses; the page
of every image is 1.

### Dataset folders

`DatasetFiles` is a `Dataset` in memory, the folders named by start times, and the two
ways back from a folder into memory.

| variable | code |
|---|---|
| `dataset` | the object: its folder, the parameters, the cameras, `stored_frame_ids` |
| `disk` | per folder, whether it has been made, `dataset_config.toml` and `dataset.json` |
| `origin` | history: which dataset the file was written for that `dataset` was read from |

Parameters that the code treats alike are one here, and two cameras stand for four.
Conversions keep their widths: a start time is written as an `int64_t` and taken
back as a `uint64_t` (`Signed`, `Cast`), a count of frames is a `uint8_t`. Instance
"folders" has two valid datasets, one of them with a start time that is negative in the
file, an invalid one, two folders, and an empty file that was uploaded. "spoilt" has one folder whose files
have been edited (wrong types, values out of range, missing keys, IDs that cannot be
read) or end at any line.

- `ReadBackIsStored`: a dataset in memory is valid whatever the files said, and one read
  from a file that was written whole has the parameters, and the cameras or the frames,
  it was written with, with any crashes between.

Known limits of the code: a `dataset_config.toml` that was cut at the end of a line
parses, and what is missing takes its default without a word; `dataset.json` lists the
active cameras and `fromJson` does not read them; a malformed list of frame IDs throws
after the other members have been assigned, although the comment says that errors come
before; `StoreDatasetToDisk` writes to the folder of the start time, not to the one the
dataset was read from; a directory or file that cannot be made is ignored. Left out:
`processing.json`, and the statistics in `dataset.json`.

## 6. Cameras, camera manager and IMU

`Camera` is one camera with its capture thread: `Enable` and `Disable` take no lock
and are as many steps as they have accesses to shared fields; a frame is the number
of the grab that its image and its timestamp come from. `Frame::Update` and the setting
of the new-frame flag are three steps (`GrabImage`, `GrabStamp`, `GrabFlag`); the copy of
image and timestamp and the clearing of the flag are three more, which hold no lock.
`CameraManager` is RunLoop with the capture mode, the mask,
the automatic switch-off, inference with cameras off, the health check, and the
handlers that change them while it runs. Enabling one camera is a step with an
outcome there. RunLoop's wait is a step for the predicate and one for the sleep;
`SetCaptureMode` and `StopLoops` notify without the mutex, and `lost` remembers that the
last notification came between the two. `Imu` is the power state machine of the IMU with the
two-step register reads of the driver: a read returns the register that was addressed last,
whoever addressed it. A power mode that a sensor did not take is remembered in `missed`;
`Suspend` does not look at the result (`imu_manager.cpp:244-246`) and stores IDLE all the
same.

The run `devices` (`Devices.cfg`, `MCDevices`) has eight instances:

| instance | what it adds | properties |
|---|---|---|
| `turns` | two Enables and a Disable, each after the other (`InTurn`), when the capture thread has set its flag (`Settled`); three grabs | `PowerIsWhole`, `FramesAdvance` |
| `overlap`, `joins` | calls at any time | `FramesAdvance` |
| `single` | overlapping single captures with a camera that may fail, and the display | `CaptureIsServed` |
| `dataset` | two datasets one after the other and a single capture at any time, on a camera that may fail | `SettingsAreKept` |
| `ending` | StopLoops against a capture and an enable | `LoopEnds` |
| `serial` | two datasets one after the other (`InTurn`), the telemetry thread | `SamplesAreSound` |
| `faulty` | the same with transfers, power modes and files that fail, and a dataset without IMU | `IdleIsLowPower` |

- `PowerIsWhole`: between calls that come in turn, status, capture loop and device of a camera
  agree.
- `FramesAdvance`: the frames that are taken never go back, and one comes at most twice, the
  second time at once after the first. It does come twice: the copy sees a new timestamp
  and clears the flag before the capture thread sets it (`camera.cpp:205-206`,
  `camera_manager.cpp:73-74`), although a comment says that this should never happen.
- `SettingsAreKept`: a dataset keeps the mode and the number it set until its frames are in,
  unless a request was at work when it set them: a turn of RunLoop, which ends with IDLE and
  the defaults over whatever is there (`camera_manager.cpp:225`, `:249`), or a capture
  command that had found the mode IDLE. Such a dataset does lose its settings, in the model
  as in the code. What the property adds is that nothing that begins later can take them.
- `CaptureIsServed`, `LoopEnds`: an accepted single capture is served, and RunLoop ends after
  StopLoops, unless the notification is lost, which happens in the model too
  (`SleepsThrough`): then the capture stays pending, or the join of the camera thread
  does not return.
- `SamplesAreSound`: no sensor is read while it is suspended, and what a read returns comes
  from the register it addressed, or is the temperature: the telemetry thread reads that
  without `i2c_mutex` (`telemetry.cpp:296`) and does get between the two transfers of a
  sample.
- `IdleIsLowPower`: with the IMU idle and no call in progress each sensor is in low power,
  unless it did not take its last power mode or was on when the program started; the
  constructor's `Suspend` returns at once (`imu_manager.cpp:19`), so that `Init` has
  sensors in either state.

All but the two liveness properties are proved too, and with them the types of the three
modules, which no run repeats.

The constants that restrict an instance say where a property ends:

- Without `Settled` an early `Disable` joins a thread whose flag nobody clears any
  more (`camera.cpp:324`). Without `InTurn` two Enables assign a joinable thread
  (`camera.cpp:119`), which ends the program.
- The frame that `SaveLatestFrames` copies can have the image of one grab and the
  timestamp of another (`camera.cpp:279`), and after Disable and Enable the first
  frame can be one from before, since `_new_frame_flag` is not cleared.
- EnableCameras works on a copy of the mask and
  can switch a camera on that has been masked since (`:555`).
  ClearDatasetCamerasMask is followed by EnableCameras for all configured cameras,
  those included that were off before the dataset.
- Datasets come one after the other in `CameraManager`, as `OneCollects` of
  `DatasetCapture` has it for a ground that waits.
- StopLoops can come before RunLoop has begun, which then sets `loop_flag` over it. Here the
  services run when they are stopped; in `CommandPipeline` it is one of the reasons of
  `ServiceNeverEnds`.
- With faults, or without `InTurn`, a sensor can be read while it sleeps. LogSensorData can
  open the file again after Suspend has closed it (`imu_manager.cpp:364`), and a Suspend by
  RunLoop can end a collection that has just begun (`:121`).

`imu_overlap` (`ImuOverlap.cfg`) states one of these as a finding: without
`InTurn`, a start overlaps the suspension before it, and RunLoop samples sensors that
are suspended, the "key invariant" of a test.

Fairness: weak fairness of RunLoop and of each handler under way. Bounds: at most three
cameras of which two are configured, a target of one or two frames, `Default = Target + 1` in place of 100, at most one restart in a
health check, two IMU datasets, one sample in each
instance; two calls that can overlap, and at most three grabs, which a copy needs to be
overtaken and to meet the next frame. Left out: `cam_status` of the
manager (a cache), the accelerometer, values and scales, and a device that is not
found; the drain loop of `Suspend` is one read.

## 7. Telemetry

`Telemetry` models two processes: the tegrastats processor, which parses a line into its
frame (`buffer`) and copies that into shared memory under a named semaphore, and the telemetry thread, which
takes it over, counts failures, and kills and starts the processor. The copy is two
halves in both; the processor may die at any step and leave the semaphore locked, as
may a former program, which may also have left a frame. A line is not a reading: the parser
changes the fields that match and keeps the others (`tegra.cpp:67-160`), and `fgets` may give
it a part of a line (`:225-230`), so a frame of the processor can have figures of
several lines. In the model parsing gives the frame a new value or leaves the old one.

In the run `onboard`, the instance `delayed` lets the processor die anywhere and the
thread link to a semaphore that does not exist yet; `prompt` (`Settled`) lets a
started processor live to open its semaphore within the 300 ms that the thread waits.

- `TegraPartIsWhole`: what the thread has copied is one frame of the processor, never the
  halves of two.
- `PromptlyRestarted`: a dead processor is started again, under weak fairness of the
  thread and of the start (tegrastats need not deliver).

Known limits of the code, in the model and in no property: a processor killed with
the semaphore leaves it at 0 for ever, since `sem_open` with O_CREAT does not set the
value of an existing one (`telemetry.cpp:331`); a successful update does not reset the
counter (`:237`), so that three separated failures restart a sound processor; the
semaphore pointer may be null when the processor has not created it. REQUEST_TELEMETRY
copies `tm_frame` under a lock that the thread does not take (`:284`): not modelled.

## 8. Processing of frames

`FrameProcessing` follows a folder of images through any sequence of runs:
Reprocessing::Dataset and ::Image, and the processing at the end of a collection; each
with a target stage, the overwrite and bypass flags, and versions of the networks that
a restart may change. InferenceManager's engines are loaded on demand and freed or
not, per error path. A network answers with any regions, or landmarks of a region.

| variable | code |
|---|---|
| `disk`, `stored` | metadata and images in the folder; a truncated file has no metadata |
| `run`, `todo`, `result` | the request, the images still to visit, the code returned |
| `frame`, `image`, `pc` | the Frame in work |
| `rest`, `landmarks`, `loads`, `nets` | the loop of ExecLDInference and its status vectors |
| `initialized_`, `rc_net_`, `loaded` | the engines |

Instances in `onboard`: `versions` (two versions, one without an engine for a region),
`images` (two images, one rejected by the prefilter), `full` (metadata that cannot be
written).

- `MetadataIsHonest`: results on disk belong to the stage, regions and version
  written with them, after any failures and restarts.
- `ReprocessedIsCurrent`: a run with overwrite that reports success leaves every
  image at the target with the versions of the run, unless the prefilter rejected it
  or it has no regions. Not in `full`: StoreFrameMetadataToDisk fails silently.

Known limits of the code: a region whose inference failed keeps its engine in memory;
regions that could not be loaded are missing from a result that counts as complete and
is not tried again; versions set after the first ProcessFrame stamp the results of the
old engines with the new version, and the model sets them only at the start; images
without regions or with a rejected prefilter are processed again every time, although
`reprocessing.hpp:16` says that stored results are always reused; a run without bypass
after one with it drops RC results. A cv::Exception ends the program, which is
`Restart`. `processing.json` is left out, and `dataset.json` is in `DatasetFiles`.

## 9. Orbit determination

`OrbitDetermination` is RUN_OD: `start_od_job` and its worker, from the inspection of
the dataset to the rejection of outliers, and the collection that may be adding frames.
A row is named by the frame and mark it comes from, so that a row in the wrong place
can be seen. The solver is external: it rejects, fails, or gives residuals of which
any set is too large. The files are listed once and read twice, one by one (`unread`):
first to infer the model, with a check of every file (`od_alg.cpp:166-201`), then for the rows,
without one (`:253-339`). Meanwhile frames may be added or rewritten, by the collection or by a
reprocessing run, with the models in `Own`; `rewritten` remembers which during the two passes.

Instances: `quiet` (three frames of any versions, also invalid ones; marks with and
without a known class; three iterations; nobody writes), `growing` (two jobs while frames of
two models are added, and rewritten with one of them; a disk that is full, a thread that
does not start).

- `OneModel`: the solver gets rows of the model that was inferred. A row of another is
  possible, since the second pass does not look: only from a frame that was written with that
  model during the two passes.
- `RejectionKeepsRows`: after any rejections each row is flagged or active under the
  index that names it, rows share a group exactly when they are of one frame, and at
  the end every row has its own residual.

`max_od_iterations = 0` is excluded. If the thread cannot be created the status stays
RUNNING for ever (`commands.cpp:91`). Rows too far off in the last iteration are not
flagged. Left out: the replies of request_od_result, covariance, the dynamics;
RunODPipeline has no caller in the payload. There is no liveness property: the worker
ends because its passes are finite.

## 10. Downlink of the Python payload

`Downlink` has ExperimentThread with its four runners, CommandThread, and the two
directions of the link. The mainboard is external and does what the protocol says of
it. A file is a number of fragments; a confirmation is the positions within a burst.
Events and data are set and cleared in the code's order, in separate steps, since
`_wait_confirm_last_batch` and the handler interleave there. A dataset's thumbnails
are remembered in `sent_set` once their files are reported as sent.

Instances: `different` (two experiments of an image file and an OD result, three
fragments in bursts of two), `same` (one command repeated, a dataset with a
thumbnail), `repeating`. One packet is lost and one request sent again in each
(`MaxLosses`, `MaxResends`), which is enough for a late acknowledgement to meet the
next transaction.

- `SuccessIsReceived`: a file reported as sent has arrived with every fragment, and
  an image marked as sent has a thumbnail on the ground.
- `downlink_repeat` (`DownlinkRepeat.cfg`, `Repeats`): if the mainboard sends a
  confirmation again, as it does with commands whose ACK it has not seen, the second
  copy is taken for the next burst's, and a file is reported that has not arrived:
  a finding, since confirmations name a transaction that is always 0.

An assumption: an experiment takes long enough for the answers to the last downlink to
have come (`RunnerFinishes`); without it a late confirmation is taken for the next
file's. An exception in the dataset runners ends ExperimentThread (`dead`), and no
experiment runs after it. Only the last command is remembered as a duplicate: A, B, A
runs A twice. A failure can overwrite the state OFF. Thumbnails may be sent twice when
the list cannot be read. Left out: ACKs to the mainboard, telemetry, the camera driver.

The run `onboard` (`Onboard.cfg`, `MCOnboard`) has the ten instances of sections 7 to
10.

## 11. Proofs

Eight modules hold theorems. A theorem about a component is for all values of its
constants; `DevicesProofs`, `OnboardProofs` and `StorageProofs` also apply such theorems
to the instances of a run, so that a property of a run is proved of the specification that
TLC checks. Every invariant and action property of the passing runs is stated by a theorem;
what the proofs assume of the constants are the ASSUMEs that TLC evaluates for the
instances. A module of proofs about several components has one of them in its own names
and the others as instances (`FP!`, `DL!`, `DF!`).

### The command pipeline

`CommandPipelineProofs`, for every set of commands, every finite non-empty set of
workers, every number of attempts and every bound of the clock (`PoolAssumption`,
`PipelineAssumption`):

| theorem | what it says |
|---|---|
| `TypeCorrect` | every variable keeps its type |
| `OnePlaceHolds` | a command is in one place |
| `NoStrandedTaskHolds` | no lost wake-up in the pool |
| `PoolOutlivesUsersHolds` | the pool is destroyed last |
| `RepliedOnceHolds` | one reply, bounded calls |
| `AckAfterQuiescenceHolds` | the ACK comes after workers and services; only what handlers left behind may work |
| `BegunInOrderHolds` | commands begin in the order of their milliseconds |
| `ImplementsServiceHolds` | the pipeline implements `CommandService` |

None of these is inductive alone. `Control` ties the program counters to the
data: a running worker holds a task, an exited one has seen `stop`; the main
thread's position determines `stop`, `pool_alive`, which services are left and
whether `main_cmd` is a SHUTDOWN. With it types and pool lifetime are inductive.
`Reply` says that a command still waiting has been called and answered zero times,
that one being executed has not been answered, and that a SHUTDOWN never enters
the pool; relative to types, `Control` and `OnePlace` it is inductive and gives
single replies and the quiescent ACK. `OnePlace` is preserved one hand-over at a time,
with two lemmas on what `Append` and `Tail` do to the set of queued commands.

`Order` adds to `BegunInOrder` that the clock is ahead of every command (`Timely`), and
that the command in the main thread's hands is not younger than the RX queue and not
older than what the pool has (`InHandInOrder`): a command is on its way from one to the
other when neither queue holds it.

The refinement rests on `StatusIs`: by `OnePlace` exactly one alternative of `Status`
applies to a command, in the state before a step and after it. `StatusKept` says that a
command whose place does not change keeps its status, so each action has to account for
the one command it moves, and the step that stops the pool for those it drops.

### Dataset collection

`DatasetCaptureProofs`, for every number of START and STOP commands, any requested
windows and any bounds (`CaptureAssumption`, `DatasetAssumption`):

| theorem | what it says |
|---|---|
| `TypeCorrect` | types; the progress of a dataset stays within its target |
| `SettingsHaveOwnerHolds` | no setting of a device is orphaned |
| `ObjectOutlivesThreadHolds` | an object dies after its thread and its last pointer |
| `OneStopperHolds` | a thread is stopped and joined by one handler |
| `OneCollectsHolds` | if the ground waits, one dataset collects |
| `AckedIsRegisteredHolds` | if the ground waits, an acknowledged dataset is registered |
| `OverlapIsIntersection` | `OverlapsWith` is the intersection of the windows |

The invariant `Inv` adds what the first ones rest on. `UnbornUnknown`: an object is not
known to anybody before `Create`, so `Create` puts a fresh one into the registry.
`AssigningHolds` and `StartingHolds`: from there to the creation of the thread the
handler's own pointer, or the entry under the mutex, keeps the object alive.
`StoppedUnregistered`: whoever stops an object has taken it out of the registry,
or holds the last pointer; so nobody else can come to stop it.
`RunningJoinable` and `UnspawnedQuiet` relate the thread to `joinable` and to its
creator. The lemmas `LoopFrame`, `PlainStepMoves` and `HandlerThreads` reduce the
forty-odd actions to the few that move pointers or threads.

`GroundWaits` is the hypothesis of two theorems, and the one that the run
`capture_serial` makes; without it they are false. Under it `InOrder` says that
one handler has not replied yet, that it empties the registry before it creates, and
that what it creates stays registered up to its reply; `Known` that a dataset whose
thread is alive is registered or is being joined by that handler.

### File transfer

`StorageProofs`, for all images, batches, files, sizes, also while they are written, widths of
the packet number and bounds of the clock and of losses (`TransferAssumption`):

| theorem | what it says |
|---|---|
| `TypeCorrect` | types; every number stays within the width |
| `DataIsRealHolds` | a packet carries the record of its number, or its batch was disturbed |
| `EndMarkerLastHolds` | the status of a batch leaves after its packets 2, 3, ... |
| `MetadataMatchesFileHolds` | path and count belong together, unless requests were crossed |
| `WaitingMatchesFile` | a ground that waits never crosses them, whatever it requests twice |
| `EndIsTheEndHolds` | if the ground waits, the end comes after the last record |

`Real` has what a read can meet: a file is whole or being written (`FilesSound`), the path is
never taken back (`PathKnown`), and a batch that finds its file without magic, or looks at it
while it is written, is one of the disturbed ones (`Disturbance`). `Matches` follows the
size from the stat to the store; it needs that nobody rewrites the file in between,
which holds as long as requests under way are for different images (`ImagesApart`). For the
end of a file `Course` says where a batch stands: the packets sent
are those up to its position and the numbers have not wrapped, since the number after
the largest is zero, which no file has. `Waiting` says of a ground that waits that a request
for an image and a batch exclude each other, that no batch is disturbed, and that a batch
with packets left sees one file and its count.

### Cameras and IMU

`CameraImuProofs` is about `Camera` and, by instances, `CameraManager` and `Imu`.

| theorem | what it says | under |
|---|---|---|
| `TypeCorrect`, `ManagerTypeCorrect`, `ImuTypeCorrect` | types of the three modules | the assumptions on constants |
| `FramesAdvanceHolds` | frames come in order, and at most twice | - |
| `PowerIsWholeHolds` | status, thread and device agree between calls | `InTurn` |
| `NeverTerminated` | no joinable thread is assigned or joined twice | `InTurn` |
| `SettingsAreKeptHolds` | only a request at work when they were set can take a dataset's settings | - |
| `IdleIsLowPowerHolds` | an idle sensor is in low power, or missed its last mode | - |
| `OnlyTelemetryMixesHolds`, `NeverReadsAsleepHolds` | samples come from the register addressed or are the temperature, of a sensor that is awake | `Serial` |

The hypotheses are the constants of the instances of section 6, which says what happens
without them. `Serial` is one dataset after the other, without faults; the telemetry thread
may read. `Once` relates the timestamp of the buffer to those of the frames taken, at
each place of the reader and the capture thread: while the flag is up, or about to be set, or
a frame is being copied, the frame in the buffer was taken at most once. `Orderly` lists what
camera, device and thread are at each place of a call; the proof of `PowerIsWhole` shows that
`Settled` is not needed for it, as `Running` counts a thread that has not yet set its flag.
`Kept` says of a dataset that set its mode with nobody else at work (`~late`) that the turns
of RunLoop from then on are for its own mode, and that no capture command is under way; `LoopAt`
knows from RunLoop's place what mode its turn is for. `Covered` names, for a sensor that is on
while the state is IDLE, the thread that is going to suspend it or to start the collection,
or finds it in `missed`. `Sound` says who holds the bus, and that the chip holds the address
that its next reader has written, or that of the temperature.

`DevicesProofs` instantiates these modules with the constants of the eight instances, shows that
their steps are those of the run, and concludes the five safety properties of
`devices`, and the types.

### Telemetry and processing

`OnboardProofs` first proves, for any restart limit:

| theorem | what it says |
|---|---|
| `TelemetryTypeCorrect` | types; the counter stays below the limit |
| `TegraPartIsWholeHolds`, `TegraPartIsWholeOnboard` | what is copied is one frame of the processor; also in the two instances of the run |
| `OrphanedForever` | a semaphore left locked stays locked |
| `OrphanedTakesNothing` | and nothing more is taken from the segment |

`Whole` says who is in its critical section, and that a half written frame is covered by a
held semaphore while nobody reads. The last two theorems state a limit of the
code as it is (section 7): no execution recovers from it.

`ProcessingProofs`, for all images, regions, versions and engines
(`FrameProcessingAssumption`), proves types, `MetadataIsHonestHolds` and
`ReprocessedIsCurrentHolds`; `OnboardProofs` applies them to the three instances.
`OnTheWay` says what the frame in work may hold between classification, landmarks and
the write; `NoneForgotten` that without an error an image is to come, at work or done,
and `Restarted` what the frame at work has been reset to.

### Orbit determination

`ProcessingProofs` again, for any number of jobs and frames, any results and versions of
the networks, any outliers and limit of iterations (`ODAssumption`):

| theorem | what it says |
|---|---|
| `OrbitTypeCorrect` | types |
| `OneModelHolds` | the solver sees rows of the model that was inferred, or of frames rewritten meanwhile |
| `RejectionKeepsRowsHolds` | rows, indices, flags, groups and residuals stay together |

`OnboardProofs` applies them to the two instances. `OrbitInv` has three parts beside the
types. `Inferred` carries the model through the two passes, the file, and the solver: what
the first pass has read is of the model inferred or was written since, and so is what the
second reads. `GroupsAreFrames` says at each stage that rows stand in
the order of their frames and that a group is a frame, whether groups are kept as starts
(in memory) or as numbers (in the file). `Indexed` says that the indices name different
rows, those that are active, and that all others are flagged. The lemmas below it are about
lists: what the rows of one more file add to those before (`ExtractInv`), and what a list
of numbers picks out of rows and groups.

Such facts are inductions over data, for which the library's theorems are out of reach.
They are proved here by the smallest counterexample instead: the numbers at which a fact
fails have a least element (`Smallest`, by `WFMin` and `NatLessThanWellFounded`), which is
neither 0 nor the successor of a number at which the fact holds. Selections of rows are
written with `Sorted` of `NumberLists`, which has a definition without a fold.

### The downlink

`ProcessingProofs`, for any experiments, images, files, fragments, burst sizes and bounds of
losses and resends (`DownlinkAssumption`); the second theorem under `~Repeats`: the
mainboard may send anything late, but no confirmation a second time. Without this
hypothesis it is false, as `downlink_repeat` shows (section 10).

| theorem | what it says |
|---|---|
| `DownlinkTypeCorrect` | types, also if confirmations are repeated |
| `SuccessIsReceivedHolds` | a file reported as sent has arrived, and a thumbnail counted as sent is one |

`OnboardProofs` applies them to the instances of the run, the types also to the one that
repeats. The invariant has five parts, of which the types need `Typed`, `Once` and
`Thumbnails` only (`Orderly`).
`Typed` gives packets, answers and places their types. `Protocol` follows the confirmation
of a burst: a file is opened when nothing of another is on the line (`Before`); an
acknowledged CREATE_TRANS is that of the file being sent, and so is the mainboard's
transaction from then on (`Own`); while ExperimentThread waits at most one confirmation
exists, on the line, in the hands of CommandThread or stored, and it tells what the
mainboard has of this burst (`Waiting`, `Taking`); what is no longer missing has arrived
(`Had`). `Arrived` keeps the reported files whole. `Once` says that an experiment is in
one place and has reported nothing before it runs, so that its thumbnails replace no
reported one; `Thumbnails` relates the images counted as sent to the files reported.

### Files that are read back

`StoredFilesProofs`, for any images and texts, sizes of headers and payloads, range of
fragment numbers (`RadioFileAssumption`), and for any datasets, uploads, edited files and
limits (`DatasetFilesAssumption`):

| theorem | what it says |
|---|---|
| `RadioTypeCorrect`, `DatasetTypeCorrect` | types |
| `ReadBackIsOriginalHolds` | what is read of a packet file is the beginning of the original |
| `ReadBackIsStoredHolds` | a dataset in memory is valid, and what was read of a whole file is what was stored |

`RadioInv` says what the encoder, the file and the reader hold: an encoder that has loaded
an image has its packets (`EncoderOK`), a file has the payloads of what it was written for
and a size that is no larger (`BinOK`), and what was read is what the file has now
(`OutOK`). What is left is about lists. `PiecesOf`: the pieces of n bytes follow each other
without a gap. `BytesOfPieces`: payloads that are such pieces have the bytes 1 to n.
`FlattenJoin` and `BytesJoin`: bytes go through concatenation, so that the bytes of a file
that was cut are the first bytes of the original (`BytesOfFirst`). `OneTile`, `OneImage`
and `OneText` apply them to the writers.

`DatasetInv` collects what can be on a disk (`Tomls`, `Jsons`: nothing, an upload or an
edit, or what was written for a valid dataset, cut at any line), and says that a dataset
that was read is still what its file was written for, but for frames that were stored since
(`Faithful`). `CastIsValid` and `SignedIsReduced` say that a valid start time comes back
through `int64_t` and `uint64_t`, and that parameters that were accepted before the cast to
their widths are valid after it; `WholeToml` that a file with all its lines gives back every parameter.
The assumption says of files that the payload has not written only that they parse.

`StorageProofs` applies both to the instances of the run. Its `AllTypesHold`, like that of
`OnboardProofs`, covers every variable of every instance, `repeated` of `FileTransfer`
included.

### What stays with TLC

Liveness: `ShutdownCompletes`, `QueuedTasksSettle`, `DispatchedIfTraffic`,
`HandlersFinish`, `RequestsAnswered`, `CaptureIsServed`, `LoopEnds`,
`PromptlyRestarted`. Fairness and ENABLED are out of the prover's reach.

## 12. Not modelled

- Numerics: orbit and attitude estimation (`navigation/`, `python_od/`), networks and
  their pre- and postprocessing, image coding, prefiltering of pixels. They
  are sequential computations on floating-point or image data; their outcome is a
  choice in the modules that use them.
- The named pipe (the UART's loop over a FIFO) and `py_interface` are for development;
  the latter still expects packets without the 5-byte header of the current files.
  The image sender is not reached from a command.
- The error log: one mutex around a ring, and nothing reads it to decide anything.
- Parsing of commands and of other configurations than a dataset's, CSV formatting, register-level
  scaling in the IMU driver.
- The Python telemetry thread and camera driver: they read devices and share nothing
  with the downlink but the outgoing queue.
- The research and simulation trees of the repository do not run on the payload.

