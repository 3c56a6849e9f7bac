--------------------------- MODULE MCFrameParser ---------------------------
(***************************************************************************)
(* A body without a head byte, and one with a byte of each kind in it, so  *)
(* that a chirp can seem to begin in the middle of another and end there   *)
(* too.  The host may switch between a type with an index and the one      *)
(* without.                                                                *)
(***************************************************************************)
EXTENDS FrameParser

MCBodies == {<<1, 2, 3, 4>>, <<DATA_TAIL, DATA_HEAD, FFT0_ID, 8>>}
MCTypes == {"FFT", "DFFT_PEAK"}
=============================================================================
