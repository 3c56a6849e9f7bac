----------------------------- MODULE MCNvConfig -----------------------------
(* A list of four entries: one fixed head entry that comes again at the   *)
(* end, as 0x40 does, and a stored head of two.                            *)
EXTENDS NvConfig

MCRegAddr    == <<"r40", "r42", "r06", "r40">>
MCRegDefault == <<1, 0, 0, 0>>
MCAddrs      == {"r40", "r42", "r06", "rff"}
MCVals       == 0 .. 1
=============================================================================
