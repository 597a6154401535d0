---------------------------- MODULE MCTimedOutput ----------------------------
(* The vibrator, whose module may be loaded twice, one more driver, and two *)
(* users for TLC.                                                           *)
EXTENDS TimedOutput

CONSTANTS vibrator, reloaded, other, a, b

Drivers == {vibrator, reloaded, other}
Motors == {vibrator, reloaded}
Users == {a, b}
=============================================================================
