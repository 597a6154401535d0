---------------------------- MODULE NmeaTokenizer ----------------------------
(***************************************************************************)
(* How a sentence is cut into tokens and how a token is read as a number.  *)
(*                                                                         *)
(* A sentence is a sequence of characters: the digits 0 .. 9, the          *)
(* separators below, and letters, which are not told apart.  A token is a  *)
(* pair of positions, as in the code: its text are the characters from p   *)
(* up to, and not including, end.                                          *)
(***************************************************************************)
EXTENDS Integers, Sequences, SequencesExt

CONSTANT MAX_NMEA_TOKENS  \* tokens of a sentence that are kept

ASSUME TokenizerAssumption == MAX_NMEA_TOKENS \in Nat

DOLLAR == 10
COMMA == 11
STAR == 12
CR == 13
NL == 14
LETTER == 15

Digit == 0 .. 9
Character == 0 .. 15

(* The position of the first comma from p on, or end if there is none. *)
memchr(s, p, end) ==
  LET q == SelectInSubSeq(s, p, end - 1, LAMBDA c : c = COMMA)
  IN  IF q = 0 THEN end ELSE q

(* Where the first token begins: the initial '$' is optional. *)
Begin(s) == IF s # <<>> /\ s[1] = DOLLAR THEN 2 ELSE 1

(* Where the line ends: before the newline and the CR in front of it.
   (First, without a look at the CR.) *)
LineEndBeforeCR(s) == IF Len(s) >= Begin(s) /\ Last(s) = NL THEN Len(s) ELSE Len(s) + 1

LineEnd(s) ==
  IF ~(Len(s) >= Begin(s) /\ Last(s) = NL) THEN Len(s) + 1
  ELSE IF Len(s) > Begin(s) /\ s[Len(s) - 1] = CR THEN Len(s) - 1
  ELSE Len(s)

(* Where the last token ends: before the checksum, if there is one. *)
End(s) ==
  LET end == LineEnd(s)
  IN  IF end >= Begin(s) + 3 /\ s[end - 3] = STAR THEN end - 3 ELSE end

(* The loop: one token up to each comma and one for what follows the last,
   unless nothing follows it.  (First, without the tokens of empty fields.)
   Tokens beyond the limit are counted out. *)
TokensSkipEmpty(s, begin, end) ==
  LET tokens[p \in begin .. end + 1] ==
        IF p >= end THEN <<>>
        ELSE LET q == memchr(s, p, end)
             IN  (IF q > p THEN <<[p |-> p, end |-> q]>> ELSE <<>>) \o tokens[q + 1]
  IN  tokens[begin]

Tokens(s, begin, end) ==
  LET tokens[p \in begin .. end + 1] ==
        IF p >= end THEN <<>>
        ELSE LET q == memchr(s, p, end)
             IN  <<[p |-> p, end |-> q]>> \o tokens[q + 1]
  IN  tokens[begin]

nmea_tokenizer_init(s) ==
  LET tokens == Tokens(s, Begin(s), End(s))
  IN  SubSeq(tokens, 1, IF Len(tokens) < MAX_NMEA_TOKENS THEN Len(tokens) ELSE MAX_NMEA_TOKENS)

(* Token i, counted from 0; the empty string "" at position 0 if there is
   no such token. *)
nmea_tokenizer_get(tzer, i) ==
  IF i < 0 \/ i >= Len(tzer) THEN [p |-> 0, end |-> 0] ELSE tzer[i + 1]

Text(s, token) == SubSeq(s, token.p, token.end - 1)

(* tok.p[0]: for an empty token the character behind it; for the token that
   is not there the terminating zero (-1, as 0 is the digit). *)
FirstCharacter(s, token) == IF token.p = 0 THEN -1 ELSE s[token.p]

(* The value of a decimal number, -1 if there is anything but digits. *)
str2int(text) ==
  LET result[n \in 0 .. Len(text)] == IF n = 0 THEN 0 ELSE result[n - 1] * 10 + text[n]
  IN  IF \E i \in 1 .. Len(text) : text[i] \notin Digit THEN -1 ELSE result[Len(text)]

(* The digits at the beginning of a text, as strtod takes them; sixteen
   characters or more are 0, however they begin. *)
str2float(text) ==
  LET n == SelectInSeq(text, LAMBDA c : c \notin Digit)
  IN  IF Len(text) >= 16 THEN 0
      ELSE str2int(IF n = 0 THEN text ELSE SubSeq(text, 1, n - 1))

(* What the tokens are meant to be.  The fields of a sentence are what stands
   between '$' and the checksum, in the order of the commas in front. *)
IsPayload(s, k) ==
  /\ s[k] \notin {DOLLAR, CR, NL, COMMA}
  /\ \A j \in 1 .. k : s[j] # STAR

CommasBefore(s, k) == Cardinality({j \in 1 .. k - 1 : s[j] = COMMA})

Field(s, i) ==
  LET places == {k \in 1 .. Len(s) : IsPayload(s, k) /\ CommasBefore(s, k) = i}
  IN  IF places = {} THEN <<>> ELSE SubSeq(s, Min(places), Max(places))
=============================================================================
