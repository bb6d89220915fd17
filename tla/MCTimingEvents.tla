--------------------------- MODULE MCTimingEvents ---------------------------
(***************************************************************************)
(* TimingEvents with two callers, three calls and two blocks with room    *)
(* for one event each: the first or the second may be full when a loop     *)
(* comes to it, and a caller may begin after another has been answered.    *)
(***************************************************************************)
EXTENDS TimingEvents

CONSTANTS r1, r2

MCBlocks == {r1, r2}
MCOrder  == <<r1, r2>>
=============================================================================
