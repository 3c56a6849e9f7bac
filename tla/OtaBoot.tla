------------------------------ MODULE OtaBoot ------------------------------
(***************************************************************************)
(* What an update over the air promises: the module goes on starting the   *)
(* program it has until the one it was last asked for is there as a whole, *)
(* and then starts that one.  Whatever fails on the way, and wherever the  *)
(* supply fails, there is no third outcome.                                *)
(***************************************************************************)
CONSTANTS
  Images,   \* the programs a server may offer
  Good      \* the ones whose head carries the digest of what follows

VARIABLES
  boots,    \* the program the next start runs
  wanted    \* the program the last accepted request asked for, or "none"

Init == boots = "old" /\ wanted = "none"

Ask ==
  /\ wanted' \in Images
  /\ UNCHANGED boots

Switch ==
  /\ boots = "old"
  /\ wanted \in Good
  /\ boots' = wanted
  /\ UNCHANGED wanted

Next == Ask \/ Switch

Spec == Init /\ [][Next]_<<boots, wanted>>
=============================================================================
