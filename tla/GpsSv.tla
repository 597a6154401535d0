-------------------------------- MODULE GpsSv --------------------------------
(***************************************************************************)
(* From GSA and GSV sentences to the satellite status: how                 *)
(* nmea_reader_parse collects the satellites in view over the sentences of *)
(* one cycle of the receiver, and when it reports them.                    *)
(*                                                                         *)
(* In each cycle the receiver sends one GSA, which names the satellites it *)
(* uses, and then numbered GSVs, which describe the satellites in view,    *)
(* four to a sentence.  Any sentence may be lost, or lose its end.         *)
(* Satellite k of a cycle has number (PRN) k; an entry of the list         *)
(* remembers the cycle it was sent in.                                     *)
(*                                                                         *)
(* A sentence is here what its fields say as numbers, field i at i.        *)
(* GpsSvLines has the characters, and the tokens they are read from.       *)
(***************************************************************************)
EXTENDS NmeaTokenizer

CONSTANTS
  GPS_MAX_SVS,      \* entries of sv_list
  Views,            \* how many satellites the receiver may see at once
  LastCycle         \* bound of the model

(* More satellites in view than sv_list has room for would be written past
   its end: the receiver must not announce them. *)
ASSUME SvAssumption ==
  /\ GPS_MAX_SVS \in Nat
  /\ Views \subseteq 0 .. GPS_MAX_SVS
  /\ LastCycle \in Nat \ {0}

PerSentence == 4
Snr == 4  \* signal strength of a satellite that is tracked
Tracked(k) == k % 2 = 1

VARIABLES
  (* NmeaReader.sv_status *)
  sv_list,            \* its first num_svs entries
  ephemeris_mask,     \* and almanac_mask, which always gets the same bits
  used_in_fix_mask,
  sv_status_changed,
  report,             \* the status handed to sv_status_cb in this step
  (* the receiver *)
  cycle, view,        \* satellites it sees in this cycle
  next,               \* the sentence it sends next, 0 for the GSA
  (* history of this cycle so far *)
  first,              \* was GSV 1 received?
  whole, uncut        \* was every sentence received whole?  all that were received?

svars == <<sv_list, ephemeris_mask, used_in_fix_mask, sv_status_changed>>
hvars == <<cycle, view, next, first, whole, uncut>>
svvars == <<svars, report, hvars>>

num_svs == Len(sv_list)

(* prn 0 is what str2int makes of a token that is not there. *)
Entry == [prn : 0 .. GPS_MAX_SVS, snr : {0, Snr}, cycle : 1 .. LastCycle]

NoReport == [list |-> <<>>, used |-> {}]

TypeOK ==
  /\ sv_list \in Seq(Entry)
  /\ ephemeris_mask \subseteq 1 .. GPS_MAX_SVS + 1
  /\ used_in_fix_mask \subseteq 1 .. GPS_MAX_SVS
  /\ sv_status_changed \in BOOLEAN
  /\ report \in [list : Seq(Entry), used : SUBSET (1 .. GPS_MAX_SVS)]
  /\ cycle \in 1 .. LastCycle
  /\ view \in Views
  /\ next \in Nat
  /\ first \in BOOLEAN /\ whole \in BOOLEAN /\ uncut \in BOOLEAN

SvInit ==
  /\ sv_list = <<>> /\ ephemeris_mask = {} /\ used_in_fix_mask = {}
  /\ sv_status_changed = FALSE
  /\ report = NoReport
  /\ cycle = 1 /\ view \in Views /\ next = 0
  /\ first = FALSE /\ whole = TRUE /\ uncut = TRUE

(* GSV sentences of a cycle: one even if there is nothing to describe. *)
Sentences == IF view = 0 THEN 1 ELSE (view + PerSentence - 1) \div PerSentence

-----------------------------------------------------------------------------
(* nmea_reader_parse, given the numbers it reads in the fields. *)

(* Place i of a GSV sentence, i from 0. *)
Place(number, i) ==
  [prn |-> number[i * 4 + 4], snr |-> number[i * 4 + 7], cycle |-> cycle]

(* The loop over the places stops when the list is as long as the number of
   satellites the sentence announces; without that test it takes all four. *)
RoomUnbounded(list, noSatellites) == PerSentence
Room(list, noSatellites) ==
  IF noSatellites - Len(list) < PerSentence THEN noSatellites - Len(list) ELSE PerSentence

Collect(list, number, noSatellites) ==
  IF Len(list) < noSatellites
  THEN list \o [i \in 1 .. Room(list, noSatellites) |-> Place(number, i - 1)]
  ELSE list

(* Bits of the mask for the satellites from place m on.  The shift by prn - 1
   is undefined for prn 0: it may set the top bit (GPS_MAX_SVS + 1), or none. *)
Bits(list, m, top) ==
  {list[i].prn : i \in {j \in m .. Len(list) : list[j].prn > 0}}
    \cup {GPS_MAX_SVS + 1 : i \in {j \in m .. Len(list) : list[j].prn = 0 /\ top}}

(* The first sentence of a cycle empties the list and the masks, the last one
   is where a report is due.  (Below: forgetting one or the other, and a
   report after the first sentence.) *)
ListKept(sentence) == sv_list
MaskKept(sentence) == ephemeris_mask
DueAtFirst(sentence, totalSentences) == sentence = 1 /\ sv_status_changed

OldList(sentence) == IF sentence = 1 THEN <<>> ELSE sv_list
OldMask(sentence) == IF sentence = 1 THEN {} ELSE ephemeris_mask
Due(sentence, totalSentences) == sentence = totalSentences /\ sv_status_changed

GSV(number) ==
  LET noSatellites == number[3]
      totalSentences == number[1]
      sentence == number[2]
      old == OldList(sentence)
      due == Due(sentence, totalSentences)
  IN  IF noSatellites <= 0
      THEN /\ UNCHANGED svars
           /\ report' = NoReport
      ELSE /\ sv_list' = Collect(old, number, noSatellites)
           /\ \E top \in BOOLEAN :
                ephemeris_mask' = OldMask(sentence) \cup Bits(sv_list', Len(old) + 1, top)
           /\ report' = IF due THEN [list |-> sv_list', used |-> used_in_fix_mask]
                        ELSE NoReport
           /\ sv_status_changed' = (sv_status_changed /\ ~due)
           /\ UNCHANGED used_in_fix_mask

(* The satellites used: what the places 3 to 14 name. *)
Used(number) == {prn \in {number[i] : i \in 3 .. 14} : prn > 0}

(* fixed: the fix status begins with a character that is neither '1' nor the
   end of the sentence. *)
GSA(fixed, number) ==
  /\ IF fixed
     THEN /\ used_in_fix_mask' = Used(number)
          /\ sv_status_changed' = (sv_status_changed \/ Used(number) # {})
     ELSE UNCHANGED <<used_in_fix_mask, sv_status_changed>>
  /\ report' = NoReport
  /\ UNCHANGED <<sv_list, ephemeris_mask>>

-----------------------------------------------------------------------------
(* The sentences of the receiver, and what is left of them. *)

LastField == 19

(* The satellites 1 to u are used, twelve at most. *)
GSAFields(u) ==
  [i \in 1 .. LastField |-> IF i \in 3 .. 14 /\ i - 2 <= u THEN i - 2 ELSE 0]

(* GSV sentence s; a satellite that is not tracked has no signal strength. *)
GSVFields(s) ==
  LET satellite(i) == (s - 1) * PerSentence + i \div 4
  IN  [i \in 1 .. LastField |->
         IF i <= 3 THEN <<Sentences, s, view>>[i]
         ELSE IF satellite(i) > view THEN 0
         ELSE IF i % 4 = 0 THEN satellite(i)
         ELSE IF i % 4 = 3 /\ Tracked(satellite(i)) THEN Snr
         ELSE 0]

(* What is read of a sentence that was cut after its field n, or, if part
   holds, after the first digit of the next one: fields that are not there,
   or beyond the tokens that are kept, are read as 0. *)
Read(fields, n, part) ==
  [i \in 1 .. LastField |->
     IF i >= MAX_NMEA_TOKENS THEN 0
     ELSE IF i <= n THEN fields[i]
     ELSE IF i = n + 1 /\ part THEN fields[i] \div 10
     ELSE 0]

(* The handling of a sentence; sound: it was received whole. *)
ArrivesGSA(fixed, number, sound) ==
  /\ next = 0 /\ next' = 1
  /\ GSA(fixed, number)
  /\ whole' = (whole /\ sound) /\ uncut' = (uncut /\ sound)
  /\ UNCHANGED <<cycle, view, first>>

ArrivesGSV(number, sound) ==
  /\ next \in 1 .. Sentences /\ next' = next + 1
  /\ GSV(number)
  /\ first' = (first \/ (next = 1 /\ number[3] > 0))
  /\ whole' = (whole /\ sound) /\ uncut' = (uncut /\ sound)
  /\ UNCHANGED <<cycle, view>>

SomeGSA ==
  \E fixed, sound, part \in BOOLEAN, u \in 0 .. view, n \in 0 .. LastField :
    /\ sound => n = LastField
    /\ ArrivesGSA(fixed, Read(GSAFields(u), n, part), sound)

SomeGSV ==
  \E sound, part \in BOOLEAN, n \in 0 .. LastField :
    /\ sound => n = LastField
    /\ ArrivesGSV(Read(GSVFields(next), n, part), sound)

LoseSentence ==
  /\ next <= Sentences
  /\ next' = next + 1
  /\ whole' = (whole /\ next = 0)
  /\ report' = NoReport
  /\ UNCHANGED <<svars, cycle, view, first, uncut>>

BeginCycle ==
  /\ next > Sentences
  /\ cycle < LastCycle
  /\ cycle' = cycle + 1
  /\ view' \in Views
  /\ next' = 0
  /\ first' = FALSE /\ whole' = TRUE /\ uncut' = TRUE
  /\ report' = NoReport
  /\ UNCHANGED svars

SvNext == SomeGSA \/ SomeGSV \/ LoseSentence \/ BeginCycle

SvSpec == SvInit /\ [][SvNext]_svvars

-----------------------------------------------------------------------------
(* However many sentences are lost or lists run together, sv_list never
   outgrows what a receiver can announce: nothing is written past its end. *)
ListFits == num_svs <= GPS_MAX_SVS

(* Once the first GSV of a cycle has been received, everything in the list
   was sent in this cycle: what the cycle before left behind is gone
   (596-603).  No satellite is in it twice, unless a number lost a digit. *)
ListIsOfThisCycle ==
  first =>
    /\ num_svs <= view
    /\ \A i \in 1 .. num_svs : sv_list[i].cycle = cycle
    /\ uncut => \A i, j \in 1 .. num_svs :
         sv_list[i].prn = sv_list[j].prn /\ sv_list[i].prn > 0 => i = j

(* A status reported in a cycle that lost nothing lists every satellite in
   view in its place, with its signal, apart from those in the last place of a sentence. *)
CompleteReport ==
  report.list # <<>> /\ whole =>
    /\ Len(report.list) = view
    /\ \A k \in 1 .. view : k % PerSentence # 0 =>
         /\ report.list[k].prn = k
         /\ report.list[k].snr = IF Tracked(k) THEN Snr ELSE 0

(* The masks name the satellites of the list and no others, the undefined
   bit aside: neither keeps anything the other has dropped. *)
MaskMatchesList ==
  ephemeris_mask \ {GPS_MAX_SVS + 1} = {sv_list[i].prn : i \in 1 .. num_svs} \ {0}
=============================================================================
