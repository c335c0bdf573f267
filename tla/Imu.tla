---------------------------------- MODULE Imu ----------------------------------
(***************************************************************************)
(* IMUManager (FSW-Payload/src/imu/imu_manager.cpp) on its driver, BMI160  *)
(* and BMI160_I2C (src/imu/bmx160.cpp).  RunLoop samples the sensors, the  *)
(* threads of the datasets start a collection and suspend it, and the      *)
(* telemetry thread reads the temperature.                                 *)
(*                                                                         *)
(* A register is read with two system calls: one writes its address to the *)
(* chip, the next reads from the address that the chip holds by then.  A   *)
(* sample is the dataset in whose collection it was taken; the values and  *)
(* their scales are left out, and so is the accelerometer, which is only   *)
(* ever suspended.                                                         *)
(***************************************************************************)
EXTENDS Naturals, Sequences

CONSTANTS Datasets, NoFile,
          Wanted,       \* collection mode of each dataset
          InTurn,       \* a dataset starts when the one before it is done
          Faults,       \* transfers and files may fail
          Telemetry,    \* the telemetry thread reads the temperature
          MaxSamples    \* bound on the samples taken

loop == "RunLoop"
tlm == "telemetry"
Threads == Datasets \cup {loop, tlm}
Modes == {"NONE", "GYRO_ONLY", "GYRO_TEMP", "GYRO_MAG_TEMP"}
Sensors == {"GYRO", "MAG"}
Registers == {"CHIP_ID", "CMD", "CONF", "STATUS", "ERR_REG", "gyro", "temp", "mag"}

ImuAssumption ==
  /\ {loop, tlm, NoFile} \cap Datasets = {}
  /\ Wanted \in [Datasets -> Modes]
  /\ InTurn \in BOOLEAN /\ Faults \in BOOLEAN /\ Telemetry \in BOOLEAN
  /\ MaxSamples \in Nat

VARIABLES state, collection_mode,
          log_file,     \* named after its dataset
          ofs,          \* the file that is open
          i2c_mutex,    \* held by RunLoop
          pointer,      \* the register address that the chip holds
          io,           \* the register that a thread has asked for
          power,        \* of each sensor
          pc,
          failed,       \* ret of ReadSensorData is an error
          samples,
          \* and history:
          mixed,        \* <<p, reg>>: what p read came from reg, not from its own
          asleep,       \* a suspended sensor was read
          missed        \* sensors that did not take their last power mode

config == <<collection_mode, log_file>>
bus == <<pointer, io, mixed, asleep>>
powers == <<power, missed>>
sampling == <<failed, samples, i2c_mutex>>
vars == <<state, config, ofs, bus, powers, pc, sampling>>

\* The constructor leaves the sensors as it finds them: Suspend returns at once in
\* IDLE.
Init ==
  /\ state = "IDLE"
  /\ collection_mode = "GYRO_ONLY"
  /\ log_file = NoFile /\ ofs = NoFile
  /\ i2c_mutex = FALSE
  /\ pointer = "CHIP_ID"
  /\ io = [p \in Threads |-> "none"]
  /\ power \in [Sensors -> {"NORMAL", "SUSPEND"}]
  /\ missed = {s \in Sensors : power[s] = "NORMAL"}
  /\ pc = [p \in Threads |-> IF p \in Datasets THEN "sent" ELSE "test"]
  /\ failed = FALSE /\ samples = 0
  /\ mixed = {} /\ asleep = FALSE

Goto(p, from, to) == pc[p] = from /\ pc' = [pc EXCEPT ![p] = to]
Ok == IF Faults THEN BOOLEAN ELSE {TRUE}

-----------------------------------------------------------------------------
(* The driver: readRegister, readBlock and writeRegister *)

ReadAddresses(p, reg) ==
  /\ io[p] = "none"
  /\ io' = [io EXCEPT ![p] = reg]
  /\ pointer' = reg
  /\ UNCHANGED <<mixed, asleep>>

ReadData(p, reg, off) ==
  /\ io[p] = reg
  /\ io' = [io EXCEPT ![p] = "none"]
  /\ mixed' = mixed \cup ({<<p, pointer>>} \ {<<p, reg>>})
  /\ asleep' = (asleep \/ off)
  /\ UNCHANGED pointer

Write(reg) == pointer' = reg /\ UNCHANGED <<io, mixed, asleep>>

\* setSensorPowerMode.  A transfer that fails may have set the address.
Power(s, mode, ok) ==
  /\ Write("CMD") \/ (~ok /\ UNCHANGED bus)
  /\ power' = IF ok THEN [power EXCEPT ![s] = mode] ELSE power
  /\ missed' = IF ok THEN missed \ {s} ELSE missed \cup {s}

-----------------------------------------------------------------------------
(* A dataset sets the log file and the mode, starts, collects, suspends *)

Configure(d) ==
  /\ InTurn => \A e \in Datasets \ {d} : pc[e] \in {"sent", "done"}
  /\ Goto(d, "sent", "start")
  /\ log_file' = d
  /\ collection_mode' = IF state = "IDLE" THEN Wanted[d] ELSE collection_mode
  /\ UNCHANGED <<state, ofs, bus, powers, sampling>>

StartRefused(d) ==
  /\ state = "COLLECT" \/ collection_mode = "NONE"
  /\ Goto(d, "start", "collecting")
  /\ UNCHANGED <<state, config, ofs, bus, powers, sampling>>

StartGyro(d) ==
  /\ state # "COLLECT" /\ collection_mode # "NONE"
  /\ Goto(d, "start", "start_mag")
  /\ Power("GYRO", "NORMAL", TRUE)
  /\ UNCHANGED <<state, config, ofs, sampling>>

\* Nobody looks at the result for the magnetometer ...
StartMag(d) ==
  /\ Goto(d, "start_mag", "configure")
  /\ \E ok \in Ok : Power("MAG", "NORMAL", ok)
  /\ UNCHANGED <<state, config, ofs, sampling>>

StartConfigures(d) ==
  /\ Goto(d, "configure", "open")
  /\ Write("CONF")
  /\ UNCHANGED <<state, config, ofs, powers, sampling>>

StartOpens(d) ==
  /\ Goto(d, "open", "collect")
  /\ ofs' = log_file
  /\ UNCHANGED <<state, config, bus, powers, sampling>>

\* A transfer to the gyroscope or the opening of the file fails.
StartFails(d) ==
  /\ Faults
  /\ \E at \in {"start", "configure", "open"} : Goto(d, at, "collecting")
  /\ pc[d] = "start" => state # "COLLECT" /\ collection_mode # "NONE"
  /\ state' = "ERROR_DEVICE"
  /\ ofs' = IF pc[d] = "open" THEN NoFile ELSE ofs
  /\ UNCHANGED <<config, bus, powers, sampling>>

StartCollects(d) ==
  /\ Goto(d, "collect", "collecting")
  /\ state' = "COLLECT"
  /\ UNCHANGED <<config, ofs, bus, powers, sampling>>

-----------------------------------------------------------------------------
(* Suspend, called by a dataset or by RunLoop *)

Back(p) == IF p = loop THEN "test" ELSE "done"

SuspendSkips(p, from) ==
  /\ state = "IDLE"
  /\ Goto(p, from, Back(p))
  /\ UNCHANGED <<state, config, ofs, bus, powers, sampling>>

SuspendBegins(p, from) ==
  /\ state # "IDLE"
  /\ Goto(p, from, "lock_off")
  /\ UNCHANGED <<state, config, ofs, bus, powers, sampling>>

SuspendLocks(p) ==
  /\ Goto(p, "lock_off", "gyro_off")
  /\ ~i2c_mutex
  /\ state' = "IDLE"
  /\ UNCHANGED <<config, ofs, bus, powers, sampling>>

\* ... nor at those of the two that are switched off.
SuspendGyro(p) ==
  /\ Goto(p, "gyro_off", "mag_off")
  /\ \E ok \in Ok : Power("GYRO", "FAST_START_UP", ok)
  /\ UNCHANGED <<state, config, ofs, sampling>>

SuspendMag_Skipped(p) ==
  /\ Goto(p, "mag_off", "close")
  /\ Write("CMD")
  /\ UNCHANGED <<state, config, ofs, powers, sampling>>

SuspendMag(p) ==
  /\ Goto(p, "mag_off", "close")
  /\ \E ok \in Ok : Power("MAG", "SUSPEND", ok)
  /\ UNCHANGED <<state, config, ofs, sampling>>

SuspendCloses(p) ==
  /\ Goto(p, "close", "drain")
  /\ ofs' = NoFile
  /\ UNCHANGED <<state, config, bus, powers, sampling>>

\* The status is read, and what is latched is drained: one read stands for
\* up to three rounds.
SuspendDrains(p) ==
  /\ \/ /\ pc[p] = "drain"
        /\ ReadAddresses(p, "STATUS")
        /\ UNCHANGED pc
     \/ /\ Goto(p, "drain", Back(p))
        /\ ReadData(p, "STATUS", FALSE)
  /\ UNCHANGED <<state, config, ofs, powers, sampling>>

Suspend(p) ==
  \/ SuspendLocks(p) \/ SuspendGyro(p) \/ SuspendMag(p) \/ SuspendCloses(p)
  \/ SuspendDrains(p)

-----------------------------------------------------------------------------
(* RunLoop *)

LoopSeesCollect ==
  /\ state = "COLLECT" /\ samples < MaxSamples
  /\ Goto(loop, "test", "lock")
  /\ UNCHANGED <<state, config, ofs, bus, powers, sampling>>

LoopLocks_Trusts ==
  /\ Goto(loop, "lock", "gyro")
  /\ i2c_mutex' = TRUE
  /\ samples' = samples + 1
  /\ failed' = FALSE
  /\ UNCHANGED <<state, config, ofs, bus, powers>>

\* The state is tested again under the lock.
LoopLocks ==
  /\ IF state = "COLLECT"
       THEN /\ Goto(loop, "lock", "gyro")
            /\ i2c_mutex' = TRUE
            /\ samples' = samples + 1
            /\ failed' = FALSE
       ELSE /\ Goto(loop, "lock", "test")
            /\ UNCHANGED sampling
  /\ UNCHANGED <<state, config, ofs, bus, powers>>

NextRead(at) ==
  CASE at = "gyro" -> IF collection_mode = "GYRO_ONLY" THEN "unlock" ELSE "temp"
    [] at = "temp" -> IF collection_mode = "GYRO_MAG_TEMP" THEN "mag" ELSE "unlock"
    [] at = "mag" -> "unlock"

Off(at) ==
  \/ at = "gyro" /\ power["GYRO"] # "NORMAL"
  \/ at = "mag" /\ power["MAG"] # "NORMAL"

LoopAsks ==
  /\ pc[loop] \in {"gyro", "temp", "mag"}
  /\ ReadAddresses(loop, pc[loop])
  /\ UNCHANGED <<state, config, ofs, powers, pc, sampling>>

\* A temperature or a magnetometer that cannot be read is an error of the
\* device; a gyroscope that cannot be read only loses the sample.
LoopReads ==
  \E at \in {"gyro", "temp", "mag"}, ok \in Ok :
    /\ Goto(loop, at, NextRead(at))
    /\ ReadData(loop, at, Off(at))
    /\ failed' = (failed \/ ~ok)
    /\ state' = IF ~ok /\ at # "gyro" THEN "ERROR_DEVICE" ELSE state
    /\ UNCHANGED <<config, ofs, powers, samples, i2c_mutex>>

LoopUnlocks ==
  /\ Goto(loop, "unlock", IF failed THEN "test" ELSE "log")
  /\ i2c_mutex' = FALSE
  /\ UNCHANGED <<state, config, ofs, bus, powers, failed, samples>>

\* LogSensorData opens the file again when it finds it closed.
LoopLogs ==
  /\ Goto(loop, "log", "test")
  /\ \E ok \in Ok :
       IF ofs # NoFile \/ ok
         THEN ofs' = (IF ofs = NoFile THEN log_file ELSE ofs) /\ UNCHANGED state
         ELSE state' = "ERROR_DEVICE" /\ UNCHANGED ofs
  /\ UNCHANGED <<config, bus, powers, sampling>>

LoopSeesError ==
  /\ state = "ERROR_DEVICE"
  /\ Goto(loop, "test", "error")
  /\ UNCHANGED <<state, config, ofs, bus, powers, sampling>>

LoopReadsError ==
  /\ \/ /\ pc[loop] = "error"
        /\ ReadAddresses(loop, "ERR_REG")
        /\ UNCHANGED pc
     \/ /\ Goto(loop, "error", "suspend")
        /\ ReadData(loop, "ERR_REG", FALSE)
  /\ UNCHANGED <<state, config, ofs, powers, sampling>>

-----------------------------------------------------------------------------
(* The telemetry thread: getTemperature *)

Temperature ==
  /\ Telemetry
  /\ \/ ReadAddresses(tlm, "temp")
     \/ ReadData(tlm, "temp", FALSE)
  /\ UNCHANGED <<state, config, ofs, powers, pc, sampling>>

-----------------------------------------------------------------------------

Control(d) ==
  \/ Configure(d)
  \/ StartRefused(d) \/ StartGyro(d) \/ StartMag(d) \/ StartConfigures(d)
  \/ StartOpens(d) \/ StartFails(d) \/ StartCollects(d)
  \/ SuspendSkips(d, "collecting") \/ SuspendBegins(d, "collecting") \/ Suspend(d)

RunLoop ==
  \/ LoopSeesCollect \/ LoopLocks \/ LoopAsks \/ LoopReads
  \/ LoopUnlocks \/ LoopLogs \/ LoopSeesError \/ LoopReadsError
  \/ SuspendSkips(loop, "suspend") \/ SuspendBegins(loop, "suspend") \/ Suspend(loop)

Next == (\E d \in Datasets : Control(d)) \/ RunLoop \/ Temperature

Spec == Init /\ [][Next]_vars
FairSpec == Spec /\ WF_vars(RunLoop)

-----------------------------------------------------------------------------
(* Properties *)

States == {"IDLE", "COLLECT", "ERROR_DEVICE"}

\* Types; and i2c_mutex is held exactly while RunLoop reads.
TypeOK ==
  /\ state \in States /\ collection_mode \in Modes
  /\ log_file \in Datasets \cup {NoFile} /\ ofs \in Datasets \cup {NoFile}
  /\ i2c_mutex = (pc[loop] \in {"gyro", "temp", "mag", "unlock"})
  /\ io \in [Threads -> {"none", "gyro", "temp", "mag", "STATUS", "ERR_REG"}]
  /\ power \in [Sensors -> {"NORMAL", "SUSPEND", "FAST_START_UP"}]
  /\ missed \subseteq Sensors
  /\ pointer \in Registers
  /\ failed \in BOOLEAN /\ samples \in 0..MaxSamples
  /\ mixed \subseteq Threads \X Registers /\ asleep \in BOOLEAN

\* Nobody but the telemetry thread gets between the two transfers of a read
\* (BMI160_I2C): what RunLoop or a Suspend reads comes from the register that it
\* addressed, or is the temperature.
OnlyTelemetryMixes == \A m \in mixed : m[1] = tlm \/ m[2] = "temp"

\* RunLoop never reads from a suspended sensor (i2c_mutex).
NeverReadsAsleep == ~asleep

NoCall == \A d \in Datasets : pc[d] \in {"sent", "collecting", "done"}

\* Idle, with no call in progress, means that a sensor is in low power, after any
\* failure of a start, unless it did not take its last power mode or was found on
\* when the program started: Suspend and the constructor do not notice either, and
\* only the next collection that is suspended puts it right.
IdleIsLowPower ==
  NoCall /\ state = "IDLE" /\ pc[loop] = "test" =>
    \A s \in Sensors : power[s] # "NORMAL" \/ s \in missed

=============================================================================
