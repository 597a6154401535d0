----------------------------- MODULE MCVibrator -----------------------------
(* Two writers for TLC: off, without a limit, and for a time. *)
EXTENDS Vibrator

CONSTANTS a, b

Writers == {a, b}
Values == {-1, 0, 1}
=============================================================================
