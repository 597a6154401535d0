----------------------------- MODULE NmeaReader -----------------------------
(***************************************************************************)
(* The framing of the NMEA stream: nmea_reader_addc cuts what the serial   *)
(* line delivers, byte by byte, into sentences for nmea_reader_parse.      *)
(*                                                                         *)
(* A byte that is not a newline is told apart only by its place in the     *)
(* line it was sent in: buf holds those places, so that buf = <<1, 2, 3>>  *)
(* says that the buffer holds the first three bytes of one line.  The line *)
(* itself may lose bytes before they reach the reader (a tty overrun, the  *)
(* tcflush of gps_state_init), newlines among them.                        *)
(***************************************************************************)
EXTENDS Naturals, Sequences

CONSTANTS
  NMEA_MAX_SIZE,  \* bytes the buffer in holds, its terminator aside
  MinSize,        \* nmea_reader_parse discards shorter sentences
  LineCap         \* bound of the model: bytes of the longest line, sent or
                  \* received, before its newline

ASSUME ReaderAssumption ==
  /\ NMEA_MAX_SIZE \in Nat \ {0}
  /\ MinSize \in Nat
  /\ LineCap \in Nat

VARIABLES
  (* NmeaReader *)
  buf,        \* the bytes in[0] to in[pos-1]
  overflow,
  sentence,  \* the bytes nmea_reader_parse was last called with
  (* history: the stream as it was sent and as it was received *)
  off,       \* bytes of the current line that have been sent
  broken,    \* has the reader missed a byte of this line, or its beginning?
  count,     \* bytes received since the last newline received
  skip,      \* the last line received filled the buffer to the last byte
  fate,      \* what became of the last line received
  intact     \* was that line received as it was sent?

rvars == <<buf, overflow, sentence>>
hvars == <<off, broken, count, skip, fate, intact>>
vars  == <<rvars, hvars>>

Byte == {"other", "newline"}

pos == Len(buf)

TypeOK ==
  /\ buf \in Seq(Nat \ {0})
  /\ overflow \in BOOLEAN
  /\ sentence \in Seq(Nat \ {0})
  /\ off \in 0 .. LineCap
  /\ broken \in BOOLEAN
  /\ count \in Nat
  /\ skip \in BOOLEAN
  /\ fate \in {"none", "dropped", "short", "parsed"}
  /\ intact \in BOOLEAN

(* The thread may start while a line is being sent. *)
Init ==
  /\ buf = <<>> /\ overflow = FALSE /\ sentence = <<>>
  /\ off \in 0 .. LineCap
  /\ broken = (off # 0)
  /\ count = 0 /\ skip = FALSE /\ fate = "none" /\ intact = FALSE

-----------------------------------------------------------------------------
(* Each branch of nmea_reader_addc says what it does with the byte c, and
   what has become of the line if c ended it. *)

(* The early return of nmea_reader_parse. *)
nmea_reader_parse(s) == fate' = IF Len(s) < MinSize THEN "short" ELSE "parsed"

Discard(c) ==
  /\ overflow
  /\ overflow' = (c # "newline")
  /\ fate' = IF c = "newline" THEN "dropped" ELSE fate
  /\ UNCHANGED <<buf, sentence>>

(* Overflow without overflow = 1; one byte too early. *)
OverflowRestarts(c) ==
  /\ ~overflow
  /\ pos >= NMEA_MAX_SIZE
  /\ buf' = <<>>
  /\ fate' = IF c = "newline" THEN "dropped" ELSE fate
  /\ UNCHANGED <<overflow, sentence>>

OverflowEarly(c) ==
  /\ ~overflow
  /\ pos >= NMEA_MAX_SIZE - 1
  /\ overflow' = TRUE
  /\ buf' = <<>>
  /\ fate' = IF c = "newline" THEN "dropped" ELSE fate
  /\ UNCHANGED sentence

(* The byte that finds the buffer full is dropped, whatever it is. *)
Overflow(c) ==
  /\ ~overflow
  /\ pos >= NMEA_MAX_SIZE
  /\ overflow' = TRUE
  /\ buf' = <<>>
  /\ fate' = IF c = "newline" THEN "dropped" ELSE fate
  /\ UNCHANGED sentence

(* Store without the pos = 0 after the call of nmea_reader_parse. *)
StoreGoesOn(c) ==
  /\ ~overflow
  /\ pos < NMEA_MAX_SIZE
  /\ buf' = Append(buf, off + 1)
  /\ IF c = "newline"
     THEN sentence' = buf' /\ nmea_reader_parse(buf')
     ELSE UNCHANGED <<sentence, fate>>
  /\ UNCHANGED overflow

Store(c) ==
  /\ ~overflow
  /\ pos < NMEA_MAX_SIZE
  /\ LET stored == Append(buf, off + 1)
     IN  IF c = "newline"
         THEN /\ sentence' = stored
              /\ nmea_reader_parse(stored)
              /\ buf' = <<>>
         ELSE /\ buf' = stored
              /\ UNCHANGED <<sentence, fate>>
  /\ UNCHANGED overflow

nmea_reader_addc(c) == Discard(c) \/ Overflow(c) \/ Store(c)

-----------------------------------------------------------------------------
(* The stream *)

Receive(c) ==
  /\ (off < LineCap /\ count < LineCap) \/ c = "newline"
  /\ nmea_reader_addc(c)
  /\ IF c = "newline"
     THEN /\ off' = 0 /\ count' = 0
          /\ broken' = FALSE
          /\ intact' = ~broken
          /\ skip' = (~skip /\ count = NMEA_MAX_SIZE)
     ELSE /\ off' = off + 1 /\ count' = count + 1
          /\ UNCHANGED <<broken, intact, skip>>

(* Two lines whose newline is lost look like one to the reader. *)
Lose(c) ==
  /\ off < LineCap \/ c = "newline"
  /\ broken' = TRUE
  /\ off' = IF c = "newline" THEN 0 ELSE off + 1
  /\ UNCHANGED <<rvars, count, skip, fate, intact>>

(* qemu_gps_cleanup and qemu_gps_init in a row: a new thread, whose reader
   begins where the stream happens to be. *)
nmea_reader_init ==
  /\ buf' = <<>> /\ overflow' = FALSE /\ sentence' = <<>>
  /\ broken' = (off # 0)
  /\ count' = 0 /\ skip' = FALSE /\ fate' = "none" /\ intact' = FALSE
  /\ UNCHANGED off

Next ==
  \/ \E c \in Byte : Receive(c) \/ Lose(c)
  \/ nmea_reader_init

Spec == Init /\ [][Next]_vars

-----------------------------------------------------------------------------
(* The buffer never holds more than it has room for, and what it holds is
   the beginning of the current line as far as the reader has seen it, and
   never anything of an earlier line: neither overflow nor the recovery from
   it leaves bytes behind. *)
BufferIsPrefix ==
  /\ pos <= NMEA_MAX_SIZE
  /\ ~overflow => pos = count
  /\ overflow => pos = 0
  /\ ~overflow /\ ~broken => \A i \in 1 .. pos : buf[i] = i

(* A line received as it was sent reaches nmea_reader_parse whole or not at
   all: no sentence is a piece of a line, or a piece of one and a piece of
   another, when the stream lost nothing of it. *)
SentenceIsLine ==
  intact /\ fate \in {"short", "parsed"} =>
    \A i \in 1 .. Len(sentence) : sentence[i] = i

(* Damage stays where it happened: a line that is received as it was sent
   and fits the buffer is parsed, whatever happened to the lines before it,
   unless the line before it was exactly one byte too long (815-819). *)
DamageIsLocal ==
  [][(Receive("newline") /\ ~broken /\ ~skip /\ off + 1 \in MinSize .. NMEA_MAX_SIZE)
       => fate' = "parsed" /\ Len(sentence') = off + 1]_vars

(* Which lines are parsed and which are dropped is what NmeaLines says. *)
Lines == INSTANCE NmeaLines
LineByLine == Lines!Spec
=============================================================================
