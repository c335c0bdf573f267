--------------------------------- MODULE MCImu ---------------------------------
(* Instances of Imu for TLC. *)
EXTENDS Imu, TLC

CONSTANTS d, e
MCDatasets == {d, e}
MCFull == [x \in Datasets |-> "GYRO_MAG_TEMP"]
=============================================================================
