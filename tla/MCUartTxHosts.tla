--------------------------- MODULE MCUartTxHosts ---------------------------
(***************************************************************************)
(* UartTx with a host the code answers although its waits do not cover it: *)
(* one that asks for something that is acknowledged outside a session.     *)
(***************************************************************************)
EXTENDS UartTx

MCInSession == Kinds \ {"amps"}
MCOutSessionAcked == {"start", "always"}
=============================================================================
