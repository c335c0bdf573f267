---------------------------- MODULE CommandService ----------------------------
(***************************************************************************)
(* What the payload promises about telecommands, without threads, queues   *)
(* or notifications: a command is accepted, carried out at most once and   *)
(* settled, and once the service closes no further command is started.     *)
(* Commands that were accepted and not started are then dropped, or stay   *)
(* accepted for ever; the SHUTDOWN command is the one that closes.         *)
(***************************************************************************)
CONSTANTS Cmds,        \* command instances
          Shutdowns    \* those that close the service

VARIABLES status,      \* what became of each command
          open         \* the service still starts commands

Statuses == {"unsent", "accepted", "running", "settled", "dropped"}

Init ==
  /\ status = [c \in Cmds |-> "unsent"]
  /\ open = TRUE

Move(c, from, to) ==
  /\ status[c] = from
  /\ status' = [status EXCEPT ![c] = to]

Accept(c) == Move(c, "unsent", "accepted") /\ UNCHANGED open

Start(c) ==
  /\ open
  /\ Move(c, "accepted", "running")
  /\ UNCHANGED open

Settle(c) == Move(c, "running", "settled") /\ UNCHANGED open

\* Closing drops, at once, some of the commands that wait.
Close ==
  /\ open
  /\ \E c \in Shutdowns : status[c] = "running"
  /\ open' = FALSE
  /\ \E D \in SUBSET {c \in Cmds : status[c] = "accepted"} :
       status' = [c \in Cmds |-> IF c \in D THEN "dropped" ELSE status[c]]

Next == Close \/ \E c \in Cmds : Accept(c) \/ Start(c) \/ Settle(c)

Spec == Init /\ [][Next]_<<status, open>>
=============================================================================
