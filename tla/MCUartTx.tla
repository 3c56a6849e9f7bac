------------------------------ MODULE MCUartTx ------------------------------
(***************************************************************************)
(* UartTx with a host that follows the protocol, on a module whose factory *)
(* test result is stored.                                                  *)
(***************************************************************************)
EXTENDS UartTx

MCInSession == Kinds \ {"amps"}
MCOutSession == {"start", "amps", "debug", "unknown"}

\* The assumption of the theorems of UartTxProofs holds in this instance.
ASSUME MCHostFollowsProtocol == HostFollowsProtocol
=============================================================================
