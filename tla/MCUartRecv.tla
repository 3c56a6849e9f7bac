----------------------------- MODULE MCUartRecv -----------------------------
(***************************************************************************)
(* UartRecv with buffers of four bytes: commands that fill the buffer      *)
(* exactly (handed over by the interrupt) and shorter ones (handed over by *)
(* the polling task), in any order and in any cut into chunks.             *)
(***************************************************************************)
EXTENDS UartRecv

MCFrameLens == {2, 4}
=============================================================================
