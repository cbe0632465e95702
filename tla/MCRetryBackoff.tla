--------------------------- MODULE MCRetryBackoff ---------------------------
(* Values for RetryBackoff: durations of eight bits, so that 2^7 is too      *)
(* large, most intervals that fit in them, and some that wrap round to zero, *)
(* to a negative or to a short positive duration.                            *)
EXTENDS RetryBackoff

MCIntervals == 0..60 \cup {64, 78, 100, 127, 128, 130}
MCLimits == {-1, 0, 2, 5}
=============================================================================
