---------------------------- MODULE MCRadarCycle ----------------------------
(***************************************************************************)
(* RadarCycle with frames of four chirps: even as in the code, so that the *)
(* two halves of the DMA buffer stay paired from frame to frame, and long  *)
(* enough to open the SPI in the middle of one.                            *)
(***************************************************************************)
EXTENDS RadarCycle
=============================================================================
