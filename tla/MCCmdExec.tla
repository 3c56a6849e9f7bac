----------------------------- MODULE MCCmdExec -----------------------------
(***************************************************************************)
(* The counts lie on both sides of the limits: 25 registers fill the       *)
(* answer in the newer versions, 12 parameters are the most the host asks  *)
(* for, 14 and 20 are refused.                                             *)
(***************************************************************************)
EXTENDS CmdExec

MCVersions   == {NoWord, 0, 1, 2}
MCRegCounts  == {NoWord, 0, 1, 25}
MCParaCounts == {0, 1, 12, 14, 20}
=============================================================================
