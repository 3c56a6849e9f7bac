------------------------------ MODULE OtaHttp ------------------------------
(***************************************************************************)
(* ai_parse_http_response: the header of the answer to an update request,  *)
(* found in reads that may end anywhere.  Whatever is not understood yet   *)
(* is forgotten but for its last HEADER_BAK_LEN bytes, which are put in    *)
(* front of the next read.  So the buffer is always a window lo .. hi of   *)
(* the stream the server sends, and a header is no more than the places in *)
(* that stream where something is.                                         *)
(***************************************************************************)
EXTENDS Integers, FiniteSetsExt

CONSTANTS
  Headers,    \* the headers a server may send
  HeaderBak   \* HEADER_BAK_LEN, 32 bytes

(***************************************************************************)
(* A header: ok, the status is 200; code, the place of the second space,   *)
(* which ends the status; crs, the carriage returns that end its lines;    *)
(* length, where the line Content-Length begins, or 0; end, the last byte  *)
(* of the blank line; empty, the length it names is 0.                     *)
(*                                                                         *)
(* A Content-Length line with its carriage return has less than            *)
(* HEADER_BAK_LEN - 1 bytes: "Content-Length: 1048576" has 24 of 32.  With *)
(* the status line it has more: 17 + 19 of 32 at least.                    *)
(***************************************************************************)
Header == [ok : BOOLEAN, code : Nat, crs : SUBSET Nat, length : Nat,
           end : Nat, empty : BOOLEAN]

ASSUME HttpAssumption ==
  /\ HeaderBak \in Nat /\ HeaderBak > 4
  /\ Headers \subseteq Header /\ Headers # {}
  /\ \A h \in Headers :
       /\ h.code > 0 /\ h.end - 3 \in h.crs
       /\ \A q \in h.crs : h.code < q /\ q <= h.end - 3
       /\ h.length # 0 =>
            /\ h.length - 2 \in h.crs
            /\ \E q \in h.crs :
                 /\ q > h.length /\ q - h.length < HeaderBak - 2
                 /\ \A r \in h.crs : r < q => r <= h.length - 2
            /\ \A q \in h.crs : q > h.length => q + 1 > HeaderBak

-----------------------------------------------------------------------------
\* The line ends seen in the window: both of their bytes are in it.
LineEnds(h, lo, hi) == {q \in h.crs : lo <= q /\ q + 1 <= hi}

\* Where the parser takes the line that ends at q to begin: p.  The variant
\* begins it with the line feed of the line before.
Before(h, lo, q) == {r \in h.crs : lo <= r /\ r < q}
LineStartEarly(h, lo, q) ==
  IF Before(h, lo, q) = {} THEN lo ELSE Max(Before(h, lo, q)) + 1
LineStart(h, lo, q) ==
  IF Before(h, lo, q) = {} THEN lo ELSE Max(Before(h, lo, q)) + 2

SeesLength(h, lo, hi) ==
  h.length # 0 /\ \E q \in LineEnds(h, lo, hi) : LineStart(h, lo, q) = h.length

SeesEnd(h, lo, hi) == lo <= h.end - 3 /\ h.end <= hi

\* The first part of the function: the status code, -1 when it is not there.
StatusLine(h, hi) == IF h.ok /\ h.code <= hi THEN 1 ELSE -1

(***************************************************************************)
(* parse_status behind the function, -1 for an error: 1 the status has     *)
(* been seen, 3 the length too, 4 the blank line too.                      *)
(***************************************************************************)
Scan(h, status, lo, hi) ==
  LET length == status = 3 \/ SeesLength(h, lo, hi) IN
  IF SeesEnd(h, lo, hi) THEN IF length THEN 4 ELSE -1
  ELSE IF length THEN 3 ELSE 1

ai_parse_http_response(h, status, lo, hi) ==
  IF status = 0 /\ StatusLine(h, hi) = -1 THEN -1
  ELSE Scan(h, status, lo, hi)

(***************************************************************************)
(* A first read of less than HEADER_BAK_LEN bytes: header_bak is filled    *)
(* from before the buffer.  Four of those bytes may look like a blank line *)
(* and end the header before there is a length; that they look like a line *)
(* Content-Length is left out.                                             *)
(***************************************************************************)
MayEndFalsely(status, lo) == status = 1 /\ lo + 3 <= 0

\* header_bak, the window the next read is added to.
BakStart(hi) == hi - HeaderBak + 1
=============================================================================
