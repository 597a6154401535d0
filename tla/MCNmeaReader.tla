---------------------------- MODULE MCNmeaReader ----------------------------
(* For TLC: a buffer of three bytes and a terminator, lines of up to five bytes. *)
EXTENDS NmeaReader
=============================================================================
