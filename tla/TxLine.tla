------------------------------- MODULE TxLine -------------------------------
(***************************************************************************)
(* What the module promises about its transmit line: one transfer at a     *)
(* time, and none of the data path while the line is kept quiet for the    *)
(* answers to a configuration tool.                                        *)
(***************************************************************************)
CONSTANTS
  CmdOwners,   \* transfers that answer a command
  DataOwners   \* transfers that carry radar results

VARIABLES
  line,        \* the transfer on the line, or "free"
  quiet        \* the line is reserved for answers

TypeOK ==
  /\ line \in CmdOwners \cup DataOwners \cup {"free"}
  /\ quiet \in BOOLEAN

Init ==
  /\ line = "free"
  /\ quiet = FALSE

Answer(owner) ==
  /\ line = "free"
  /\ line' = owner
  /\ UNCHANGED quiet

Report(owner) ==
  /\ line = "free"
  /\ ~quiet
  /\ line' = owner
  /\ UNCHANGED quiet

Finish ==
  /\ line # "free"
  /\ line' = "free"
  /\ UNCHANGED quiet

\* The line becomes quiet only when no result is on it.
Hush ==
  /\ line \notin DataOwners
  /\ quiet' = TRUE
  /\ UNCHANGED line

Release ==
  /\ quiet
  /\ quiet' = FALSE
  /\ UNCHANGED line

Next ==
  \/ \E owner \in CmdOwners : Answer(owner)
  \/ \E owner \in DataOwners : Report(owner)
  \/ Finish
  \/ Hush
  \/ Release

Spec == Init /\ [][Next]_<<line, quiet>>
=============================================================================
