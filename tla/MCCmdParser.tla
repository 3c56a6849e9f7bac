---------------------------- MODULE MCCmdParser ----------------------------
(***************************************************************************)
(* Three commands: the shortest, one as long as the rest of a frame that   *)
(* follows a break-off (so that the tail of one command can end another),  *)
(* and the longest.  The second one has the last byte of a head and a zero *)
(* in it, which alone mislead nobody.                                      *)
(***************************************************************************)
EXTENDS CmdParser

MCBodies == {<<0, 0>>, <<255, 0, 250, 0, 4, 3, 2, 1>>, [i \in 1 .. 14 |-> i]}
MCNoise  == {253, 7}

ASSUME NothingMisleads == NoZeroLength /\ NoHeadInside
=============================================================================
