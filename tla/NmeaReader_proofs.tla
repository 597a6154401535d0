-------------------------- MODULE NmeaReader_proofs --------------------------
(***************************************************************************)
(* Proofs about NmeaReader, for every size of the buffer and every length  *)
(* of line.                                                                *)
(***************************************************************************)
EXTENDS NmeaReader, TLAPS

(* How the flags follow the stream: the reader discards exactly while the
   line at hand has outgrown the buffer, or follows one that just did. *)
Discarding ==
  /\ overflow <=> skip \/ count > NMEA_MAX_SIZE
  /\ ~broken => count = off

Inv == TypeOK /\ BufferIsPrefix /\ Discarding /\ SentenceIsLine

(* What Append does to a sequence of places. *)
LEMMA AppendFacts ==
  ASSUME NEW s \in Seq(Nat \ {0}), NEW e \in Nat \ {0}
  PROVE  /\ Append(s, e) \in Seq(Nat \ {0})
         /\ Len(Append(s, e)) = Len(s) + 1
         /\ Len(s) \in Nat
         /\ \A i \in 1 .. Len(s) : Append(s, e)[i] = s[i]
         /\ Append(s, e)[Len(s) + 1] = e
  OBVIOUS

(* The empty sequence is one. *)
LEMMA EmptyFacts == <<>> \in Seq(Nat \ {0}) /\ Len(<<>>) = 0
  OBVIOUS

(* The invariant holds at first. *)
LEMMA InitInv == Init => Inv
<1> SUFFICES ASSUME Init PROVE Inv
  OBVIOUS
<1> USE ReaderAssumption, EmptyFacts DEF ReaderAssumption
<1>1. off \in 0 .. LineCap /\ broken \in BOOLEAN /\ (~broken => off = 0)
  BY DEF Init
<1>2. TypeOK
  BY <1>1 DEF Init, TypeOK
<1>3. BufferIsPrefix
  BY DEF Init, BufferIsPrefix, pos
<1>4. Discarding
  BY <1>1 DEF Init, Discarding
<1>5. SentenceIsLine
  BY DEF Init, SentenceIsLine
<1> QED BY <1>2, <1>3, <1>4, <1>5 DEF Inv

(* What a received byte does to the record of the stream. *)
LEMMA HistoryFacts ==
  ASSUME Inv, NEW c \in Byte, Receive(c)
  PROVE  /\ c = "newline" =>
              /\ off' = 0 /\ count' = 0
              /\ broken' \in BOOLEAN /\ ~broken'
              /\ intact' \in BOOLEAN /\ (intact' => ~broken)
              /\ skip' \in BOOLEAN /\ (skip' <=> ~skip /\ count = NMEA_MAX_SIZE)
         /\ c # "newline" =>
              /\ off' = off + 1 /\ count' = count + 1 /\ off < LineCap
              /\ broken' = broken /\ intact' = intact /\ skip' = skip
<1>1. broken \in BOOLEAN /\ skip \in BOOLEAN
  BY DEF Inv, TypeOK
<1>2. ASSUME c = "newline"
      PROVE  /\ off' = 0 /\ count' = 0 /\ broken' = FALSE /\ intact' = ~broken
             /\ skip' = (~skip /\ count = NMEA_MAX_SIZE)
  BY <1>2 DEF Receive
<1>3. ASSUME c # "newline"
      PROVE  /\ off' = off + 1 /\ count' = count + 1 /\ off < LineCap
             /\ broken' = broken /\ intact' = intact /\ skip' = skip
  BY <1>3 DEF Receive
<1> QED BY <1>1, <1>2, <1>3, Zenon

(* The history variables keep their types. *)
LEMMA HistoryType ==
  ASSUME Inv, NEW c \in Byte, Receive(c)
  PROVE  /\ off' \in 0 .. LineCap /\ count' \in Nat
         /\ broken' \in BOOLEAN /\ intact' \in BOOLEAN /\ skip' \in BOOLEAN
<1> USE ReaderAssumption DEF ReaderAssumption
<1>1. /\ off \in 0 .. LineCap /\ count \in Nat
      /\ broken \in BOOLEAN /\ intact \in BOOLEAN /\ skip \in BOOLEAN
  BY DEF Inv, TypeOK
<1>2. CASE c = "newline"
  BY <1>2, HistoryFacts
<1>3. CASE c # "newline"
  <2>1. /\ off' = off + 1 /\ count' = count + 1 /\ off < LineCap
        /\ broken' = broken /\ intact' = intact /\ skip' = skip
    BY <1>3, HistoryFacts
  <2>2. off' \in 0 .. LineCap /\ count' \in Nat
    BY <1>1, <2>1
  <2>3. broken' \in BOOLEAN /\ intact' \in BOOLEAN /\ skip' \in BOOLEAN
    BY <1>1, <2>1
  <2> QED BY <2>2, <2>3
<1> QED BY <1>2, <1>3

(* What it does to the buffer, in each branch of addc. *)
LEMMA ReceiveInv == ASSUME Inv, NEW c \in Byte, Receive(c) PROVE Inv'
<1> USE ReaderAssumption DEF ReaderAssumption, Inv, pos
<1>0. /\ buf \in Seq(Nat \ {0}) /\ Len(buf) \in Nat /\ off \in Nat /\ count \in Nat
      /\ off + 1 \in Nat
  BY DEF TypeOK
<1>1. CASE Discard(c)
  <2>1. /\ overflow /\ buf' = buf /\ sentence' = sentence
        /\ c = "newline" => fate' = "dropped" /\ overflow' = FALSE
        /\ c # "newline" => fate' = fate /\ overflow' = TRUE
    BY <1>1 DEF Discard
  <2>2. TypeOK'
    BY <2>1, HistoryType, Zenon DEF TypeOK
  <2>3. BufferIsPrefix'
    BY <1>0, <2>1, HistoryFacts DEF BufferIsPrefix
  <2>4. Discarding'
    BY <1>0, <2>1, HistoryFacts DEF Discarding
  <2>5. SentenceIsLine'
    BY <1>0, <2>1, HistoryFacts DEF SentenceIsLine
  <2> QED BY <2>2, <2>3, <2>4, <2>5
<1>2. CASE Overflow(c)
  <2>1. /\ ~overflow /\ Len(buf) >= NMEA_MAX_SIZE
        /\ buf' = <<>> /\ sentence' = sentence /\ overflow' = TRUE
        /\ c = "newline" => fate' = "dropped"
        /\ c # "newline" => fate' = fate
    BY <1>2 DEF Overflow
  <2>2. TypeOK'
    BY <1>0, <2>1, HistoryFacts, EmptyFacts DEF TypeOK
  <2>3. BufferIsPrefix'
    BY <1>0, <2>1, HistoryFacts, EmptyFacts DEF BufferIsPrefix
  <2>4. count = NMEA_MAX_SIZE /\ ~skip
    BY <1>0, <2>1 DEF BufferIsPrefix, Discarding
  <2>5. Discarding'
    BY <1>0, <2>1, <2>4, HistoryFacts DEF Discarding
  <2>6. SentenceIsLine'
    BY <1>0, <2>1, HistoryFacts DEF SentenceIsLine
  <2> QED BY <2>2, <2>3, <2>5, <2>6
<1>3. CASE Store(c)
  <2> DEFINE s == Append(buf, off + 1)
  <2>1. /\ s \in Seq(Nat \ {0})
        /\ Len(s) = Len(buf) + 1
        /\ \A i \in 1 .. Len(buf) : s[i] = buf[i]
        /\ s[Len(buf) + 1] = off + 1
    BY <1>0, AppendFacts
  <2>2. ~overflow /\ Len(buf) = count /\ count < NMEA_MAX_SIZE /\ ~skip
    BY <1>0, <1>3 DEF Store, BufferIsPrefix, Discarding
  <2>3. ~broken => \A i \in 1 .. Len(s) : s[i] = i
    BY <1>0, <2>1, <2>2 DEF BufferIsPrefix, Discarding
  <2>4. CASE c = "newline"
    <3>1. /\ buf' = <<>> /\ sentence' = s /\ overflow' = FALSE
          /\ fate' \in {"short", "parsed"}
      BY <1>3, <2>2, <2>4 DEF Store, nmea_reader_parse
    <3>2. TypeOK'
      BY <2>1, <3>1, HistoryType, EmptyFacts, Zenon DEF TypeOK
    <3>3. BufferIsPrefix' /\ Discarding'
      BY <1>0, <2>2, <2>4, <3>1, HistoryFacts, EmptyFacts DEF BufferIsPrefix, Discarding
    <3>4. SentenceIsLine'
      BY <2>3, <2>4, <3>1, HistoryFacts DEF SentenceIsLine
    <3> QED BY <3>2, <3>3, <3>4
  <2>5. CASE c # "newline"
    <3>1. buf' = s /\ sentence' = sentence /\ overflow' = FALSE /\ fate' = fate
      BY <1>3, <2>2, <2>5 DEF Store
    <3>2. TypeOK'
      BY <2>1, <3>1, HistoryType, Zenon DEF TypeOK
    <3>3. BufferIsPrefix'
      BY <1>0, <2>1, <2>2, <2>3, <2>5, <3>1, HistoryFacts DEF BufferIsPrefix
    <3>4. Discarding'
      BY <1>0, <2>2, <2>5, <3>1, HistoryFacts DEF Discarding
    <3>5. SentenceIsLine'
      BY <2>5, <3>1, HistoryFacts DEF SentenceIsLine
    <3> QED BY <3>2, <3>3, <3>4, <3>5
  <2> QED BY <2>4, <2>5
<1> QED BY <1>1, <1>2, <1>3 DEF Receive, nmea_reader_addc

(* Every step keeps the invariant. *)
LEMMA NextInv == Inv /\ [Next]_vars => Inv'
<1> SUFFICES ASSUME Inv, [Next]_vars PROVE Inv'
  OBVIOUS
<1> USE ReaderAssumption DEF ReaderAssumption
<1>1. ASSUME NEW c \in Byte, Receive(c) PROVE Inv'
  BY <1>1, ReceiveInv
<1>2. ASSUME NEW c \in Byte, Lose(c) PROVE Inv'
  <2>1. /\ UNCHANGED <<buf, overflow, sentence, count, skip, fate, intact>>
        /\ broken' = TRUE /\ off' \in 0 .. LineCap
    BY <1>2 DEF Lose, rvars, Inv, TypeOK, Byte
  <2> QED BY <2>1 DEF Inv, TypeOK, BufferIsPrefix, Discarding, SentenceIsLine, pos
<1>3. CASE nmea_reader_init
  <2>1. /\ buf' = <<>> /\ overflow' = FALSE /\ sentence' = <<>>
        /\ broken' \in BOOLEAN /\ (~broken' => off = 0)
        /\ count' = 0 /\ skip' = FALSE /\ fate' = "none" /\ intact' = FALSE
        /\ off' = off /\ off \in 0 .. LineCap
    BY <1>3 DEF nmea_reader_init, Inv, TypeOK
  <2>2. TypeOK'
    BY <2>1, EmptyFacts DEF TypeOK
  <2>3. BufferIsPrefix' /\ Discarding' /\ SentenceIsLine'
    BY <2>1, EmptyFacts DEF BufferIsPrefix, Discarding, SentenceIsLine, pos
  <2> QED BY <2>2, <2>3 DEF Inv
<1>4. CASE UNCHANGED vars
  BY <1>4 DEF vars, rvars, hvars, Inv, TypeOK, BufferIsPrefix, Discarding,
              SentenceIsLine, pos
<1> QED BY <1>1, <1>2, <1>3, <1>4 DEF Next

(* The inductive invariant behind the theorems below. *)
THEOREM Invariant == Spec => []Inv
  BY InitInv, NextInv, PTL DEF Spec

(* Every variable of the reader and of the record of the stream keeps its
   type. *)
THEOREM TypeCorrect == Spec => []TypeOK
<1>1. Inv => TypeOK
  BY DEF Inv
<1> QED BY <1>1, Invariant, PTL

(* The buffer stays within its bounds and its content is the beginning of
   the line at hand (nmea_reader_addc, 807-828), for every buffer size. *)
THEOREM BufferSound == Spec => []BufferIsPrefix
<1>1. Inv => BufferIsPrefix
  BY DEF Inv
<1> QED BY <1>1, Invariant, PTL

(* No sentence is cut or glued together from lines received as sent. *)
THEOREM SentencesWhole == Spec => []SentenceIsLine
<1>1. Inv => SentenceIsLine
  BY DEF Inv
<1> QED BY <1>1, Invariant, PTL

(* The reader recovers at the next newline from whatever the line lost,
   except behind a line that is one byte too long. *)
THEOREM DamageContained == Spec => DamageIsLocal
<1> DEFINE Whole == (Receive("newline") /\ ~broken /\ ~skip
                       /\ off + 1 \in MinSize .. NMEA_MAX_SIZE)
                      => fate' = "parsed" /\ Len(sentence') = off + 1
<1>1. Inv /\ [Next]_vars => [Whole]_vars
  <2> SUFFICES ASSUME Inv, Receive("newline"), ~broken, ~skip,
                      off + 1 \in MinSize .. NMEA_MAX_SIZE
               PROVE  fate' = "parsed" /\ Len(sentence') = off + 1
    OBVIOUS
  <2>1. /\ buf \in Seq(Nat \ {0}) /\ off \in Nat /\ count = off /\ ~overflow
        /\ Len(buf) = off /\ off < NMEA_MAX_SIZE
    BY ReaderAssumption DEF ReaderAssumption, Inv, TypeOK, BufferIsPrefix, Discarding, pos
  <2>2. Store("newline")
    BY <2>1, ReaderAssumption DEF ReaderAssumption, Receive, nmea_reader_addc, Discard, Overflow, pos
  <2>3. Len(Append(buf, off + 1)) = off + 1
    BY <2>1, AppendFacts
  <2> QED BY <2>1, <2>2, <2>3, ReaderAssumption DEF ReaderAssumption, Store, nmea_reader_parse
<1>2. [][Inv /\ [Next]_vars => [Whole]_vars]_vars
  BY <1>1, PTL
<1> QED BY <1>1, Invariant, PTL DEF Spec, DamageIsLocal

(* nmea_reader_addc implements NmeaLines: the lines that become sentences
   are the ones NmeaLines names, and no others. *)
THEOREM ImplementsLines == Spec => LineByLine
<1> USE ReaderAssumption DEF ReaderAssumption
<1>1. Init => Lines!Init
  BY DEF Init, Lines!Init
<1>2. Inv /\ [Next]_vars => [Lines!Next]_Lines!vars
  <2> SUFFICES ASSUME Inv, [Next]_vars PROVE [Lines!Next]_Lines!vars
    OBVIOUS
  <2>0. count \in Nat /\ off \in Nat /\ buf \in Seq(Nat \ {0}) /\ Len(buf) \in Nat
    BY DEF Inv, TypeOK
  <2>1. ASSUME NEW c \in Byte, Receive(c) PROVE Lines!Next
    <3>1. CASE c # "newline"
      <4>1. fate' = fate
        BY <2>1, <3>1 DEF Receive, nmea_reader_addc, Discard, Overflow, Store
      <4>2. Lines!Byte
        BY <2>1, <3>1, <4>1 DEF Receive, Lines!Byte
      <4> QED BY <4>2 DEF Lines!Next
    <3>2. CASE c = "newline"
      <4>1. skip' = (~skip /\ count = NMEA_MAX_SIZE) /\ count' = 0
        BY <2>1, <3>2 DEF Receive
      <4>2. CASE skip \/ count >= NMEA_MAX_SIZE
        <5>1. Discard(c) \/ Overflow(c)
          BY <2>0, <2>1, <4>2
             DEF Inv, Receive, nmea_reader_addc, Store, BufferIsPrefix, Discarding, pos
        <5>2. fate' = "dropped"
          BY <3>2, <5>1 DEF Discard, Overflow
        <5> QED BY <4>1, <4>2, <5>2 DEF Lines!EndOfLine, Lines!Next
      <4>3. CASE ~(skip \/ count >= NMEA_MAX_SIZE)
        <5>1. Store(c) /\ Len(buf) = count
          BY <2>0, <2>1, <4>3
             DEF Inv, Receive, nmea_reader_addc, Discard, Overflow, BufferIsPrefix,
                 Discarding, pos
        <5>2. Len(Append(buf, off + 1)) = count + 1
          BY <2>0, <5>1, AppendFacts
        <5>3. fate' = IF count + 1 < MinSize THEN "short" ELSE "parsed"
          BY <3>2, <5>1, <5>2 DEF Store, nmea_reader_parse
        <5> QED BY <4>1, <4>3, <5>3 DEF Lines!EndOfLine, Lines!Next
      <4> QED BY <4>2, <4>3
    <3> QED BY <3>1, <3>2
  <2>2. ASSUME NEW c \in Byte, Lose(c) PROVE UNCHANGED Lines!vars
    BY <2>2 DEF Lose, Lines!vars
  <2>3. CASE nmea_reader_init
    BY <2>3 DEF nmea_reader_init, Lines!Reset, Lines!Next
  <2>4. CASE UNCHANGED vars
    BY <2>4 DEF vars, hvars, Lines!vars
  <2> QED BY <2>1, <2>2, <2>3, <2>4 DEF Next
<1> QED BY <1>1, <1>2, Invariant, PTL DEF Spec, LineByLine, Lines!Spec
=============================================================================
