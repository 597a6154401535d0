------------------------------ MODULE GpsSvLines ------------------------------
(***************************************************************************)
(* GpsSv with the sentences spelt out: what the receiver sends is a        *)
(* sequence of characters, which nmea_reader_parse takes to pieces with    *)
(* nmea_tokenizer_init and reads with str2int and str2float.  All numbers  *)
(* have one digit.                                                         *)
(***************************************************************************)
EXTENDS GpsSv

ASSUME DigitAssumption == Views \subseteq Digit

VARIABLE line  \* the sentence received and not yet parsed, if any

vars == <<svvars, line>>

Init == SvInit /\ line = <<>>

-----------------------------------------------------------------------------
(* Field i of a GSA read as a number, and of a GSV, whose signal strengths
   are read with strtod. *)
GSANumbers(received) ==
  LET tzer == nmea_tokenizer_init(received)
  IN  [i \in 1 .. LastField |-> str2int(Text(received, nmea_tokenizer_get(tzer, i)))]

GSVNumbers(received) ==
  LET tzer == nmea_tokenizer_init(received)
      text(i) == Text(received, nmea_tokenizer_get(tzer, i))
  IN  [i \in 1 .. LastField |->
         IF i > 4 /\ i % 4 = 3 THEN str2float(text(i)) ELSE str2int(text(i))]

(* The fix status is looked at by its first character: of an empty field that
   is the comma behind it, which is neither '1' nor the end. *)
Fixed(received) ==
  FirstCharacter(received, nmea_tokenizer_get(nmea_tokenizer_init(received), 2)) \notin {-1, 1}

-----------------------------------------------------------------------------
(* The receiver *)

(* A sentence of the given fields. *)
Line(fields) ==
  <<DOLLAR, LETTER, LETTER, LETTER, LETTER, LETTER>>
    \o FlattenSeq([i \in 1 .. Len(fields) |-> <<COMMA>> \o fields[i]])
    \o <<STAR, 0, 0, CR, NL>>

(* No status, none fixed, fixed in three dimensions. *)
FixStatus == {<<>>, <<1>>, <<3>>}

(* The satellites 1 to u are used, twelve at most. *)
GSALine(fixStatus, u) ==
  Line(<<<<LETTER>>, fixStatus>>
       \o [i \in 1 .. 12 |-> IF i <= u THEN <<i>> ELSE <<>>]
       \o <<<<1>>, <<1>>, <<1>>>>)

(* GSV sentence s; a satellite that is not tracked has no signal strength. *)
GSVLine(s) ==
  LET place(k) == <<<<k>>, <<0>>, <<0>>, IF Tracked(k) THEN <<Snr>> ELSE <<>>>>
      last == IF s * PerSentence < view THEN s * PerSentence ELSE view
      count == last - (s - 1) * PerSentence
  IN  Line([i \in 1 .. 3 + 4 * count |->
              IF i <= 3 THEN <<<<Sentences, s, view>>[i]>>
              ELSE place((s - 1) * PerSentence + i \div 4)[(i % 4) + 1]])

(* A sentence that loses its end, but for the newline.  What is shorter than
   nine characters nmea_reader_parse ignores: it is as good as lost. *)
CutShort(sentence) ==
  {SubSeq(sentence, 1, n) \o <<NL>> : n \in 8 .. Len(sentence) - 2}
Sound(received) == received[Len(received) - 1] = CR

SendGSA ==
  /\ line = <<>> /\ next = 0
  /\ \E fixStatus \in FixStatus, u \in {0, view} :
       \E sentence \in {GSALine(fixStatus, u)} : line' \in {sentence} \cup CutShort(sentence)
  /\ UNCHANGED svvars

SendGSV ==
  /\ line = <<>> /\ next \in 1 .. Sentences
  /\ \E sentence \in {GSVLine(next)} : line' \in {sentence} \cup CutShort(sentence)
  /\ UNCHANGED svvars

(* The gps thread parses it; the first one of a cycle is the GSA. *)
Parse ==
  /\ line # <<>> /\ line' = <<>>
  /\ \/ ArrivesGSA(Fixed(line), GSANumbers(line), Sound(line))
     \/ next > 0 /\ \E number \in {GSVNumbers(line)} : ArrivesGSV(number, Sound(line))

Lose == line = <<>> /\ LoseSentence /\ UNCHANGED line

NewCycle == line = <<>> /\ BeginCycle /\ UNCHANGED line

Next == SendGSA \/ SendGSV \/ Parse \/ Lose \/ NewCycle

Spec == Init /\ [][Next]_vars

-----------------------------------------------------------------------------
(* Whatever its length and however it was cut, token i of a sentence is its
   field i, up to MAX_NMEA_TOKENS, and there is no token of what the sentence
   lacks: the separators, the checksum and the newline are in none of them
   (90-150).  A sentence that was cut inside its checksum keeps the rest of
   that in its last token. *)
TokensAreFields ==
  LET tzer == nmea_tokenizer_init(line)
      cut == \E k \in 1 .. Len(line) : line[k] = STAR /\ line[Len(line) - 1] # CR
  IN  ~cut => \A i \in 0 .. MAX_NMEA_TOKENS :
                Text(line, nmea_tokenizer_get(tzer, i))
                  = IF i < MAX_NMEA_TOKENS THEN Field(line, i) ELSE <<>>

(* A sentence of characters does what a sentence of numbers would: what is
   read of it are its fields, up to where it was cut. *)
ReadsItsFields == SvSpec
=============================================================================
