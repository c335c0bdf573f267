-------------------------- MODULE MCCommandPipeline --------------------------
(* Instances of CommandPipeline for TLC. *)
EXTENDS CommandPipeline

CONSTANTS w1, w2, ping, capture, shut

MCWorkers == {w1, w2}
MCShutdowns == {shut}

\* Safety and liveness: two commands and the SHUTDOWN.
MCCmds == {ping, capture, shut}
MCSilent == {capture}
MCDetaching == {ping}

\* The disagreement about the ACK needs nothing but the SHUTDOWN.
MCShutdownOnly == {shut}
MCNone == {}
=============================================================================
