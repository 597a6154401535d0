------------------------------ MODULE NmeaLines ------------------------------
(***************************************************************************)
(* Which lines of the serial stream become sentences: what the framing of  *)
(* nmea_reader_addc promises, told line by line, without its buffer.       *)
(***************************************************************************)
EXTENDS Naturals

CONSTANTS
  NMEA_MAX_SIZE,  \* bytes of the longest line that is kept, newline included
  MinSize,        \* bytes of the shortest line that is looked at
  LineCap         \* bound of the model: no line is longer than this

VARIABLES
  count,   \* bytes of the current line so far
  skip,    \* the current line is lost because of the one before it
  fate     \* what became of the last complete line

vars == <<count, skip, fate>>

Init ==
  /\ count = 0
  /\ skip = FALSE
  /\ fate = "none"

Byte ==
  /\ count < LineCap
  /\ count' = count + 1
  /\ UNCHANGED <<skip, fate>>

(* A line that is one byte too long takes the next one with it: its newline
   is the byte that found the buffer full. *)
EndOfLine ==
  /\ fate' = IF skip \/ count >= NMEA_MAX_SIZE THEN "dropped"
             ELSE IF count + 1 < MinSize THEN "short"
             ELSE "parsed"
  /\ skip' = (~skip /\ count = NMEA_MAX_SIZE)
  /\ count' = 0

(* The gps thread ends and another one begins with an empty buffer. *)
Reset == count' = 0 /\ skip' = FALSE /\ fate' = "none"

Next == Byte \/ EndOfLine \/ Reset

Spec == Init /\ [][Next]_vars
=============================================================================
