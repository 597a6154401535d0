----------------------------- MODULE GpsSv_proofs -----------------------------
(***************************************************************************)
(* Proofs about modules NmeaTokenizer, GpsSv and GpsSvLines.               *)
(*                                                                         *)
(* First the satellite status, given the numbers of the sentences; then    *)
(* the tokens of any sentence; then what is read of the sentences of the   *)
(* receiver, whole or cut; last that the model with characters implements  *)
(* the one with numbers.                                                   *)
(***************************************************************************)
EXTENDS GpsSvLines, SequenceTheorems, FiniteSetTheorems, WellFoundedInduction, TLAPS

(* What a place of the list tells of the satellite k. *)
Described(entry, k) == entry.prn = k /\ entry.snr = IF Tracked(k) THEN Snr ELSE 0

(* Once GSV 1 was received, the list holds satellites of the sentences that
   have been sent. *)
ThisCycle ==
  first =>
    /\ next >= 2
    /\ num_svs <= view
    /\ \A i \in 1 .. num_svs : sv_list[i].cycle = cycle
    /\ uncut => \A i \in 1 .. num_svs : sv_list[i].prn <= (next - 1) * PerSentence
    /\ uncut => \A i, j \in 1 .. num_svs :
         sv_list[i].prn = sv_list[j].prn /\ sv_list[i].prn > 0 => i = j

(* In a cycle that lost nothing, it is as long as it can be by now, and
   every satellite is in its place. *)
SoFar == IF (next - 1) * PerSentence < view THEN (next - 1) * PerSentence ELSE view
WholeList ==
  whole /\ next >= 2 /\ view > 0 /\ MAX_NMEA_TOKENS >= 16 =>
    /\ num_svs = SoFar
    /\ \A k \in 1 .. num_svs : k % PerSentence # 0 => Described(sv_list[k], k)

(* A report stands until the next sentence is handled, and is of this list. *)
Reported ==
  report.list # <<>> /\ whole =>
    /\ next >= 2 /\ next > Sentences /\ view > 0
    /\ report.list = sv_list

(* The inductive invariant. *)
SvInv ==
  /\ TypeOK
  /\ ListFits
  /\ MaskMatchesList
  /\ ThisCycle
  /\ WholeList
  /\ Reported

-----------------------------------------------------------------------------
(* Arithmetic of the sentences of a cycle. *)
LEMMA SentencesFacts ==
  ASSUME TypeOK
  PROVE  /\ view \in Nat /\ view <= GPS_MAX_SVS
         /\ Sentences \in Nat /\ Sentences >= 1
         /\ view <= Sentences * 4
         /\ view > 0 => (Sentences - 1) * 4 < view
<1>1. view \in Nat /\ view <= GPS_MAX_SVS /\ GPS_MAX_SVS \in Nat
  BY SvAssumption DEF SvAssumption, TypeOK
<1>2. CASE view = 0
  BY <1>1, <1>2 DEF Sentences
<1>3. CASE view > 0
  <2>1. Sentences = (view + 3) \div 4
    BY <1>1, <1>3 DEF Sentences, PerSentence
  <2> QED BY <1>1, <1>3, <2>1
<1> QED BY <1>1, <1>2, <1>3

(* What is read of a GSV sentence, however it was cut. *)
LEMMA GSVReading ==
  ASSUME TypeOK, next \in 1 .. Sentences,
         NEW n \in 0 .. LastField, NEW part \in BOOLEAN, NEW number,
         number = Read(GSVFields(next), n, part)
  PROVE  /\ number[3] \in 0 .. view
         /\ number[3] > 0 => number[1] = Sentences /\ number[2] = next
         /\ \A i \in 0 .. 3 :
              LET k == (next - 1) * 4 + i + 1
              IN  /\ number[i * 4 + 4] \in 0 .. k
                  /\ number[i * 4 + 4] \in 0 .. view
                  /\ number[i * 4 + 7] \in {0, Snr}
                  /\ n = LastField => number[i * 4 + 4] \in {0, k}
                  /\ n = LastField /\ MAX_NMEA_TOKENS >= 16 /\ i < 3 /\ k <= view =>
                       /\ number[i * 4 + 4] = k
                       /\ number[i * 4 + 7] = IF Tracked(k) THEN Snr ELSE 0
         /\ n = LastField /\ MAX_NMEA_TOKENS > 3 => number[3] = view
<1> DEFINE F == GSVFields(next)
<1>1. view \in Nat /\ Sentences \in Nat /\ next \in Nat /\ next >= 1 /\ MAX_NMEA_TOKENS \in Nat
  BY SentencesFacts, TokenizerAssumption DEF TokenizerAssumption
<1>2. ASSUME NEW j \in 1 .. LastField
      PROVE  F[j] = LET k == (next - 1) * 4 + j \div 4
                    IN  IF j <= 3 THEN <<Sentences, next, view>>[j]
                        ELSE IF k > view THEN 0
                        ELSE IF j % 4 = 0 THEN k
                        ELSE IF j % 4 = 3 /\ Tracked(k) THEN Snr
                        ELSE 0
  BY DEF GSVFields, PerSentence
<1>3. F[1] = Sentences /\ F[2] = next /\ F[3] = view
  BY <1>1, <1>2 DEF LastField
<1>4. ASSUME NEW i \in 0 .. 3
      PROVE  LET k == (next - 1) * 4 + i + 1
             IN  /\ F[i * 4 + 4] = IF k <= view THEN k ELSE 0
                 /\ F[i * 4 + 7] = IF k <= view THEN IF Tracked(k) THEN Snr ELSE 0 ELSE 0
  <2> DEFINE k == (next - 1) * 4 + i + 1
  <2>1. /\ i * 4 + 4 \in 1 .. LastField /\ (i * 4 + 4) % 4 = 0 /\ (i * 4 + 4) \div 4 = i + 1
        /\ i * 4 + 7 \in 1 .. LastField /\ (i * 4 + 7) % 4 = 3 /\ (i * 4 + 7) \div 4 = i + 1
    BY DEF LastField
  <2>2. k \in Nat /\ k = (next - 1) * 4 + (i + 1)
    BY <1>1
  <2> HIDE DEF k
  <2>3. F[i * 4 + 4] = IF k <= view THEN k ELSE 0
    BY <1>1, <1>2, <2>1, <2>2
  <2>4. F[i * 4 + 7] = IF k <= view THEN IF Tracked(k) THEN Snr ELSE 0 ELSE 0
    BY <1>1, <1>2, <2>1, <2>2 DEF Tracked
  <2> QED BY <2>3, <2>4 DEF k
<1>5. ASSUME NEW j \in 1 .. LastField
      PROVE  number[j] = IF j >= MAX_NMEA_TOKENS THEN 0
                         ELSE IF j <= n THEN F[j]
                         ELSE IF j = n + 1 /\ part THEN F[j] \div 10
                         ELSE 0
  BY DEF Read
<1>6. n \in Nat /\ n <= 19 /\ LastField = 19
  BY DEF LastField
<1>7. number[1] \in Nat /\ number[2] \in Nat /\ number[3] \in 0 .. view
  BY <1>1, <1>3, <1>5, <1>6
<1>8. number[3] > 0 => number[1] = Sentences /\ number[2] = next
  BY <1>1, <1>3, <1>5, <1>6
<1>9. n = LastField /\ MAX_NMEA_TOKENS > 3 => number[3] = view
  BY <1>1, <1>3, <1>5, <1>6
<1>10. ASSUME NEW i \in 0 .. 3
       PROVE  LET k == (next - 1) * 4 + i + 1
              IN  /\ number[i * 4 + 4] \in 0 .. k
                  /\ number[i * 4 + 4] \in 0 .. view
                  /\ number[i * 4 + 7] \in {0, Snr}
                  /\ n = LastField => number[i * 4 + 4] \in {0, k}
                  /\ n = LastField /\ MAX_NMEA_TOKENS >= 16 /\ i < 3 /\ k <= view =>
                       /\ number[i * 4 + 4] = k
                       /\ number[i * 4 + 7] = IF Tracked(k) THEN Snr ELSE 0
  <2> DEFINE k == (next - 1) * 4 + i + 1
             tracked == IF Tracked(k) THEN Snr ELSE 0
             a == i * 4 + 4
             b == i * 4 + 7
  <2>1. k \in Nat /\ tracked \in {0, 4} /\ a \in 1 .. 16 /\ b \in 1 .. 19 /\ (i < 3 => b < 16 /\ a < 16)
    BY <1>1 DEF Snr
  <2>2. F[a] = (IF k <= view THEN k ELSE 0) /\ F[b] = (IF k <= view THEN tracked ELSE 0)
    BY <1>4
  <2> HIDE DEF k, tracked, a, b
  <2>3. /\ number[a] \in 0 .. k /\ number[a] \in 0 .. view
        /\ n = LastField => number[a] \in {0, k}
        /\ n = LastField /\ MAX_NMEA_TOKENS >= 16 /\ i < 3 /\ k <= view => number[a] = k
    BY <1>1, <1>5, <1>6, <2>1, <2>2
  <2>4. /\ number[b] \in {0, 4}
        /\ n = LastField /\ MAX_NMEA_TOKENS >= 16 /\ i < 3 /\ k <= view => number[b] = tracked
    BY <1>1, <1>5, <1>6, <2>1, <2>2
  <2> QED BY <2>3, <2>4 DEF k, tracked, a, b, Snr
<1> HIDE DEF F
<1> QED BY <1>7, <1>8, <1>9, <1>10

-----------------------------------------------------------------------------
(* What is read of a GSA sentence. *)
LEMMA GSAReading ==
  ASSUME TypeOK, NEW u \in 0 .. view,
         NEW n \in 0 .. LastField, NEW part \in BOOLEAN
  PROVE  Used(Read(GSAFields(u), n, part)) \subseteq 1 .. GPS_MAX_SVS
<1> DEFINE number == Read(GSAFields(u), n, part)
<1>1. u \in Nat /\ u <= GPS_MAX_SVS /\ GPS_MAX_SVS \in Nat /\ MAX_NMEA_TOKENS \in Nat
  BY SentencesFacts, SvAssumption, TokenizerAssumption DEF SvAssumption, TokenizerAssumption
<1>2. ASSUME NEW i \in 3 .. 14
      PROVE  number[i] \in 0 .. GPS_MAX_SVS
  <2> DEFINE f == GSAFields(u)[i]
  <2>1. f = IF i - 2 <= u THEN i - 2 ELSE 0
    BY DEF GSAFields, LastField
  <2>2. f \in 0 .. GPS_MAX_SVS
    BY <1>1, <2>1
  <2> HIDE DEF f
  <2>3. number[i] \in {0, f, f \div 10}
    BY DEF Read, LastField, f
  <2> QED BY <1>1, <2>2, <2>3
<1> HIDE DEF number
<1>3. Used(number) \subseteq 1 .. GPS_MAX_SVS
  BY <1>1, <1>2 DEF Used
<1> QED BY <1>3 DEF number

-----------------------------------------------------------------------------
(* A sentence has four places, the last one as many as are missing. *)
LEMMA RoomFacts ==
  ASSUME NEW list \in Seq(Entry), NEW N \in Nat, Len(list) < N
  PROVE  /\ Room(list, N) \in 1 .. 4
         /\ N - Len(list) < 4 => Room(list, N) = N - Len(list)
         /\ N - Len(list) >= 4 => Room(list, N) = 4
BY DEF Room, PerSentence

(* What the loop over the places of a sentence makes of a list. *)
Places(number) ==
  \A i \in 0 .. 3 : /\ number[i * 4 + 4] \in 0 .. GPS_MAX_SVS
                    /\ number[i * 4 + 7] \in {0, Snr}

(* The loop appends up to N satellites and touches none that it finds. *)
LEMMA CollectFacts ==
  ASSUME NEW list \in Seq(Entry), NEW number, NEW N \in 0 .. GPS_MAX_SVS,
         cycle \in 1 .. LastCycle,
         Places(number),
         NEW c, c = Collect(list, number, N)
  PROVE  /\ c \in Seq(Entry)
         /\ Len(list) >= N => Len(c) = Len(list)
         /\ Len(list) < N /\ N - Len(list) < 4 => Len(c) = N
         /\ N - Len(list) >= 4 => Len(c) = Len(list) + 4
         /\ \A i \in 1 .. Len(list) : c[i] = list[i]
         /\ \A i \in Len(list) + 1 .. Len(c) :
              /\ i - Len(list) - 1 \in 0 .. 3
              /\ c[i] = Place(number, i - Len(list) - 1)
<1>1. GPS_MAX_SVS \in Nat /\ N \in Nat /\ Len(list) \in Nat
  BY SvAssumption DEF SvAssumption
<1>2. CASE Len(list) >= N
  <2>1. c = list
    BY <1>1, <1>2 DEF Collect
  <2> QED BY <1>1, <1>2, <2>1
<1>3. CASE Len(list) < N
  <2> DEFINE room == Room(list, N)
             added == [i \in 1 .. room |-> Place(number, i - 1)]
  <2>1. /\ room \in 1 .. 4
        /\ N - Len(list) < 4 => room = N - Len(list)
        /\ N - Len(list) >= 4 => room = 4
    BY <1>1, <1>3, RoomFacts
  <2> HIDE DEF room
  <2>2. ASSUME NEW i \in 1 .. room
        PROVE  i - 1 \in 0 .. 3 /\ Place(number, i - 1) \in Entry
    <3>1. i - 1 \in 0 .. 3
      BY <2>1
    <3>2. number[(i - 1) * 4 + 4] \in 0 .. GPS_MAX_SVS /\ number[(i - 1) * 4 + 7] \in {0, Snr}
      BY <3>1 DEF Places
    <3> QED BY <3>1, <3>2 DEF Place, Entry
  <2>3. added \in Seq(Entry) /\ Len(added) = room /\ \A i \in 1 .. room : added[i] = Place(number, i - 1)
    <3>1. added \in [1 .. room -> Entry]
      BY <2>2
    <3> QED BY <2>1, <3>1, SeqDef, LenProperties
  <2>4. c = list \o added
    BY <1>3 DEF Collect, room
  <2> HIDE DEF added
  <2>5. /\ c \in Seq(Entry) /\ Len(c) = Len(list) + room
        /\ \A i \in 1 .. Len(c) : c[i] = IF i <= Len(list) THEN list[i] ELSE added[i - Len(list)]
    BY <2>3, <2>4, ConcatProperties
  <2>6. \A i \in 1 .. Len(list) : c[i] = list[i]
    BY <1>1, <2>1, <2>5
  <2>7. ASSUME NEW i \in Len(list) + 1 .. Len(c)
        PROVE  i - Len(list) - 1 \in 0 .. 3 /\ c[i] = Place(number, i - Len(list) - 1)
    <3> DEFINE j == i - Len(list)
    <3>1. j \in 1 .. room /\ j - 1 \in 0 .. 3 /\ i \in 1 .. Len(c) /\ ~ (i <= Len(list))
      BY <1>1, <2>1, <2>5
    <3>2. c[i] = added[j]
      BY <2>5, <3>1
    <3> QED BY <2>3, <3>1, <3>2
  <2>8. /\ N - Len(list) < 4 => Len(c) = N
        /\ N - Len(list) >= 4 => Len(c) = Len(list) + 4
    BY <1>1, <1>3, <2>1, <2>5
  <2> QED BY <1>1, <1>3, <2>5, <2>6, <2>7, <2>8
<1> QED BY <1>1, <1>2, <1>3

(* What the mask gets of a list of places. *)
LEMMA BitsFacts ==
  ASSUME NEW list \in Seq(Entry), NEW m \in 1 .. Len(list) + 1, NEW top \in BOOLEAN
  PROVE  /\ Bits(list, m, top) \subseteq 1 .. GPS_MAX_SVS + 1
         /\ Bits(list, m, top) \ {GPS_MAX_SVS + 1} = {list[i].prn : i \in m .. Len(list)} \ {0}
<1>1. ASSUME NEW i \in m .. Len(list)
      PROVE  list[i].prn \in 0 .. GPS_MAX_SVS
  <2>1. i \in 1 .. Len(list)
    OBVIOUS
  <2>2. list[i] \in Entry
    BY <2>1, ElementOfSeq
  <2> QED BY <2>2 DEF Entry
<1>2. GPS_MAX_SVS \in Nat
  BY SvAssumption DEF SvAssumption
<1>3. Bits(list, m, top) \subseteq 1 .. GPS_MAX_SVS + 1
  BY <1>1, <1>2 DEF Bits
<1>4. Bits(list, m, top) \ {GPS_MAX_SVS + 1} \subseteq {list[i].prn : i \in m .. Len(list)} \ {0}
  BY <1>1, <1>2 DEF Bits
<1>5. ASSUME NEW i \in m .. Len(list), list[i].prn # 0
      PROVE  list[i].prn \in Bits(list, m, top) \ {GPS_MAX_SVS + 1}
  BY <1>1, <1>2, <1>5 DEF Bits
<1> QED BY <1>3, <1>4, <1>5

-----------------------------------------------------------------------------
(* A status that was never reported lists nothing. *)
LEMMA NoReportFacts ==
  /\ NoReport \in [list : Seq(Entry), used : SUBSET (1 .. GPS_MAX_SVS)]
  /\ NoReport.list = <<>>
BY EmptySeq DEF NoReport

(* The entries of the list are entries. *)
LEMMA EntryFacts ==
  ASSUME TypeOK, NEW i \in 1 .. num_svs
  PROVE  sv_list[i] \in Entry /\ sv_list[i].prn \in Nat
<1>1. sv_list[i] \in Entry
  BY ElementOfSeq DEF TypeOK, num_svs
<1> QED BY <1>1 DEF Entry

(* The list is empty at first. *)
LEMMA InvInit == SvInit => SvInv
<1> SUFFICES ASSUME SvInit PROVE SvInv
  OBVIOUS
<1> USE SvAssumption DEF SvAssumption, SvInit
<1>1. sv_list = <<>> /\ Len(sv_list) = 0 /\ report.list = <<>> /\ sv_list \in Seq(Entry)
  BY EmptySeq, NoReportFacts
<1>2. TypeOK
  <2>1. cycle \in 1 .. LastCycle /\ next \in Nat
    OBVIOUS
  <2>2. ephemeris_mask \subseteq 1 .. GPS_MAX_SVS + 1 /\ used_in_fix_mask \subseteq 1 .. GPS_MAX_SVS
    OBVIOUS
  <2>3. report \in [list : Seq(Entry), used : SUBSET (1 .. GPS_MAX_SVS)]
    BY NoReportFacts
  <2> QED BY <1>1, <2>1, <2>2, <2>3 DEF TypeOK
<1>3. ListFits /\ MaskMatchesList
  BY <1>1 DEF ListFits, MaskMatchesList, num_svs
<1>4. ThisCycle /\ WholeList /\ Reported
  BY <1>1 DEF ThisCycle, WholeList, Reported
<1> QED BY <1>2, <1>3, <1>4 DEF SvInv

(* A lost sentence leaves the list alone, and the next cycle begins with
   nothing to be said about it. *)
LEMMA InvLose == SvInv /\ LoseSentence => SvInv'
<1> SUFFICES ASSUME SvInv, LoseSentence PROVE SvInv'
  OBVIOUS
<1> USE DEF LoseSentence, svars
<1>1. next \in Nat /\ report' = NoReport /\ NoReport.list = <<>>
  BY DEF SvInv, TypeOK, NoReport
<1>2. TypeOK'
  BY <1>1, NoReportFacts DEF SvInv, TypeOK
<1>3. ListFits' /\ MaskMatchesList'
  BY DEF SvInv, ListFits, MaskMatchesList, num_svs
<1>4. ThisCycle'
  <2>1. /\ next' - 1 = next /\ (first' => first) /\ (uncut' => uncut)
        /\ UNCHANGED <<sv_list, view, cycle>> /\ num_svs' = num_svs
    BY <1>1 DEF num_svs
  <2>2. ASSUME first, uncut, NEW i \in 1 .. num_svs
        PROVE  sv_list[i].prn <= next * PerSentence
    <3>1. sv_list[i].prn \in Nat /\ sv_list[i].prn <= (next - 1) * PerSentence
      BY <2>2, EntryFacts DEF SvInv, ThisCycle
    <3> QED BY <1>1, <3>1 DEF PerSentence
  <2>3. first => next' >= 2
    BY <1>1 DEF SvInv, ThisCycle
  <2> QED BY <2>1, <2>2, <2>3 DEF SvInv, ThisCycle
<1>5. ~ (whole' /\ next' >= 2)
  <2>1. CASE next = 0
    BY <2>1
  <2>2. CASE next # 0
    BY <2>2
  <2> QED BY <2>1, <2>2
<1>6. WholeList' /\ Reported'
  BY <1>1, <1>5 DEF WholeList, Reported
<1> QED BY <1>2, <1>3, <1>4, <1>6 DEF SvInv

(* A new cycle keeps the invariant: it knows nothing of the list. *)
LEMMA InvBegin == SvInv /\ BeginCycle => SvInv'
<1> SUFFICES ASSUME SvInv, BeginCycle PROVE SvInv'
  OBVIOUS
<1> USE DEF BeginCycle, svars
<1>1. report' = NoReport /\ NoReport.list = <<>>
  BY DEF NoReport
<1>2. TypeOK'
  <2>1. cycle' \in 1 .. LastCycle
    BY SvAssumption DEF SvInv, TypeOK, SvAssumption
  <2> QED BY <1>1, <2>1, NoReportFacts DEF SvInv, TypeOK
<1>3. ListFits' /\ MaskMatchesList'
  BY DEF SvInv, ListFits, MaskMatchesList, num_svs
<1>4. ThisCycle' /\ WholeList' /\ Reported'
  BY <1>1 DEF ThisCycle, WholeList, Reported
<1> QED BY <1>2, <1>3, <1>4 DEF SvInv

(* A GSA keeps the invariant, whole or cut. *)
LEMMA InvGSA == SvInv /\ SomeGSA => SvInv'
<1> SUFFICES ASSUME SvInv, SomeGSA PROVE SvInv'
  OBVIOUS
<1>1. PICK fixed, sound, part \in BOOLEAN, u \in 0 .. view, n \in 0 .. LastField :
        ArrivesGSA(fixed, Read(GSAFields(u), n, part), sound)
  BY DEF SomeGSA
<1> DEFINE number == Read(GSAFields(u), n, part)
<1>2. Used(number) \subseteq 1 .. GPS_MAX_SVS
  BY GSAReading DEF SvInv
<1> HIDE DEF number
<1>3. /\ report' = NoReport /\ NoReport.list = <<>>
      /\ next = 0 /\ next' = 1 /\ ~ (next' >= 2)
      /\ UNCHANGED <<sv_list, ephemeris_mask, cycle, view, first>>
      /\ used_in_fix_mask' \in {used_in_fix_mask, Used(number)}
      /\ sv_status_changed' \in {sv_status_changed, sv_status_changed \/ Used(number) # {}}
      /\ whole' \in BOOLEAN /\ uncut' \in BOOLEAN
  BY <1>1 DEF ArrivesGSA, GSA, NoReport, number, SvInv, TypeOK
<1>4. TypeOK'
  <2>1. used_in_fix_mask' \subseteq 1 .. GPS_MAX_SVS
    BY <1>2, <1>3 DEF SvInv, TypeOK
  <2>2. sv_status_changed' \in BOOLEAN
    BY <1>3 DEF SvInv, TypeOK
  <2> QED BY <1>3, <2>1, <2>2, NoReportFacts DEF SvInv, TypeOK
<1>5. ListFits' /\ MaskMatchesList'
  BY <1>3 DEF SvInv, ListFits, MaskMatchesList, num_svs
<1>6. ~first
  BY <1>3 DEF SvInv, ThisCycle
<1>7. ThisCycle' /\ WholeList' /\ Reported'
  BY <1>3, <1>6 DEF ThisCycle, WholeList, Reported
<1> QED BY <1>4, <1>5, <1>7 DEF SvInv

(* A GSV sentence.  If it announces nothing, or has lost what it announced,
   nothing happens; otherwise its places follow those of the sentences before
   it, or come first. *)
LEMMA InvGSV == SvInv /\ SomeGSV => SvInv'
<1> SUFFICES ASSUME SvInv, SomeGSV PROVE SvInv'
  OBVIOUS
<1>1. PICK sound, part \in BOOLEAN, n \in 0 .. LastField :
        /\ sound => n = LastField
        /\ ArrivesGSV(Read(GSVFields(next), n, part), sound)
  BY DEF SomeGSV
<1> DEFINE number == Read(GSVFields(next), n, part)
           place(i) == (next - 1) * 4 + i + 1
           N == number[3]
<1>2. next \in 1 .. Sentences
  BY <1>1 DEF ArrivesGSV
<1>3. /\ N \in 0 .. view
      /\ N > 0 => number[1] = Sentences /\ number[2] = next
      /\ n = LastField /\ MAX_NMEA_TOKENS > 3 => N = view
  BY <1>2, GSVReading DEF SvInv
<1>4. ASSUME NEW i \in 0 .. 3
      PROVE  /\ number[i * 4 + 4] \in 0 .. place(i)
             /\ number[i * 4 + 4] \in 0 .. view
             /\ number[i * 4 + 7] \in {0, Snr}
             /\ n = LastField => number[i * 4 + 4] \in {0, place(i)}
             /\ n = LastField /\ MAX_NMEA_TOKENS >= 16 /\ i < 3 /\ place(i) <= view =>
                  /\ number[i * 4 + 4] = place(i)
                  /\ number[i * 4 + 7] = IF Tracked(place(i)) THEN Snr ELSE 0
  BY <1>2, GSVReading DEF SvInv
<1>5. /\ GSV(number) /\ next' = next + 1
      /\ first' = (first \/ (next = 1 /\ N > 0))
      /\ whole' = (whole /\ sound) /\ uncut' = (uncut /\ sound)
      /\ UNCHANGED <<cycle, view>>
  BY <1>1 DEF ArrivesGSV
<1> HIDE DEF number
<1>6. /\ view \in Nat /\ view <= GPS_MAX_SVS /\ GPS_MAX_SVS \in Nat
      /\ Sentences \in Nat /\ next \in Nat /\ next >= 1 /\ next <= Sentences
      /\ next' \in Nat /\ next' - 1 = next
  BY <1>2, <1>5, SentencesFacts, SvAssumption DEF SvInv, SvAssumption
<1>7. /\ whole' \in BOOLEAN /\ uncut' \in BOOLEAN /\ first' \in BOOLEAN
      /\ whole' => whole /\ n = LastField
      /\ uncut' => uncut /\ n = LastField
  BY <1>1, <1>5 DEF SvInv, TypeOK
<1>8. CASE N <= 0
  <2>1. UNCHANGED svars /\ report' = NoReport /\ N = 0
    BY <1>3, <1>5, <1>6, <1>8 DEF GSV
  <2>2. TypeOK'
    BY <1>5, <1>6, <1>7, <2>1, NoReportFacts DEF SvInv, TypeOK, svars
  <2>3. ListFits' /\ MaskMatchesList'
    BY <2>1 DEF SvInv, ListFits, MaskMatchesList, num_svs, svars
  <2>4. /\ (first' => first) /\ UNCHANGED <<sv_list, view, cycle>> /\ num_svs' = num_svs
    <3>1. ~ (next = 1 /\ N > 0)
      BY <1>3, <1>6, <1>8
    <3>2. first' => first
      BY <1>5, <3>1
    <3> QED BY <1>5, <2>1, <3>2 DEF num_svs, svars
  <2>5. ThisCycle'
    <3>1. ASSUME first, uncut, NEW i \in 1 .. num_svs
          PROVE  sv_list[i].prn <= next * PerSentence
      <4>1. sv_list[i].prn \in Nat /\ sv_list[i].prn <= (next - 1) * PerSentence
        BY <3>1, EntryFacts DEF SvInv, ThisCycle
      <4> QED BY <1>6, <4>1 DEF PerSentence
    <3>2. first => next' >= 2
      BY <1>5, <1>6 DEF SvInv, ThisCycle
    <3> QED BY <1>6, <1>7, <2>4, <3>1, <3>2 DEF SvInv, ThisCycle
  <2>6. ~ (whole' /\ view' > 0 /\ MAX_NMEA_TOKENS >= 16)
    BY <1>3, <1>5, <1>6, <1>7, <2>1, TokenizerAssumption DEF TokenizerAssumption
  <2>7. WholeList' /\ Reported'
    BY <2>1, <2>6, NoReportFacts DEF WholeList, Reported
  <2> QED BY <2>2, <2>3, <2>5, <2>7 DEF SvInv
<1>9. CASE N > 0
  <2> DEFINE old == OldList(next)
             due == Due(next, Sentences)
  <2>1. number[1] = Sentences /\ number[2] = next /\ N \in 1 .. view /\ N \in 0 .. GPS_MAX_SVS
    BY <1>3, <1>6, <1>9
  <2>2. /\ sv_list' = Collect(old, number, N)
        /\ UNCHANGED used_in_fix_mask
        /\ report' = IF due THEN [list |-> sv_list', used |-> used_in_fix_mask] ELSE NoReport
        /\ sv_status_changed' = (sv_status_changed /\ ~due)
    BY <1>5, <1>9, <2>1 DEF GSV
  <2>3. PICK top \in BOOLEAN :
          ephemeris_mask' = OldMask(next) \cup Bits(sv_list', Len(old) + 1, top)
    BY <1>5, <1>9, <2>1 DEF GSV
  <2>4. /\ old \in Seq(Entry) /\ Len(old) \in Nat /\ Len(old) <= GPS_MAX_SVS
        /\ next = 1 => Len(old) = 0
        /\ next # 1 => old = sv_list
        /\ OldMask(next) \subseteq 1 .. GPS_MAX_SVS + 1
        /\ OldMask(next) \ {GPS_MAX_SVS + 1} = {old[i].prn : i \in 1 .. Len(old)} \ {0}
    <3>1. CASE next = 1
      BY <1>6, <3>1, EmptySeq DEF OldList, OldMask
    <3>2. CASE next # 1
      BY <3>2 DEF OldList, OldMask, SvInv, TypeOK, ListFits, MaskMatchesList, num_svs
    <3> QED BY <3>1, <3>2
  <2>5. Places(number)
    <3>1. ASSUME NEW i \in 0 .. 3
          PROVE  number[i * 4 + 4] \in 0 .. GPS_MAX_SVS /\ number[i * 4 + 7] \in {0, Snr}
      <4>1. number[i * 4 + 4] \in 0 .. view /\ number[i * 4 + 7] \in {0, Snr}
        BY <1>4
      <4> QED BY <1>6, <4>1
    <3> QED BY <3>1 DEF Places
  <2>6. cycle \in 1 .. LastCycle
    BY DEF SvInv, TypeOK
  <2> HIDE DEF old, N
  <2>7. /\ sv_list' \in Seq(Entry) /\ Len(sv_list') \in Nat
        /\ Len(old) >= N => Len(sv_list') = Len(old)
        /\ Len(old) < N /\ N - Len(old) < 4 => Len(sv_list') = N
        /\ N - Len(old) >= 4 => Len(sv_list') = Len(old) + 4
        /\ \A i \in 1 .. Len(old) : sv_list'[i] = old[i]
        /\ \A i \in Len(old) + 1 .. Len(sv_list') :
             /\ i - Len(old) - 1 \in 0 .. 3
             /\ sv_list'[i] = Place(number, i - Len(old) - 1)
    BY <2>1, <2>2, <2>4, <2>5, <2>6, CollectFacts
  <2>8. /\ Len(old) \in Nat /\ Len(sv_list') \in Nat
        /\ Len(old) <= Len(sv_list')
        /\ Len(sv_list') <= GPS_MAX_SVS
        /\ Len(old) <= view => Len(sv_list') <= view
    BY <1>6, <2>1, <2>4, <2>7
  <2>9. ListFits'
    BY <2>8 DEF ListFits, num_svs
  <2>10. /\ Bits(sv_list', Len(old) + 1, top) \subseteq 1 .. GPS_MAX_SVS + 1
         /\ Bits(sv_list', Len(old) + 1, top) \ {GPS_MAX_SVS + 1}
              = {sv_list'[i].prn : i \in Len(old) + 1 .. Len(sv_list')} \ {0}
    <3>1. Len(old) + 1 \in 1 .. Len(sv_list') + 1
      BY <2>4, <2>7, <2>8
    <3> QED BY <2>7, <3>1, BitsFacts
  <2>11. MaskMatchesList'
    <3>1. {sv_list'[i].prn : i \in 1 .. Len(sv_list')}
            = {old[i].prn : i \in 1 .. Len(old)}
                \cup {sv_list'[i].prn : i \in Len(old) + 1 .. Len(sv_list')}
      <4>1. 1 .. Len(sv_list') = (1 .. Len(old)) \cup (Len(old) + 1 .. Len(sv_list'))
        BY <2>8
      <4>2. \A i \in 1 .. Len(old) : sv_list'[i].prn = old[i].prn
        BY <2>7
      <4> QED BY <4>1, <4>2
    <3> QED BY <2>3, <2>4, <2>10, <3>1 DEF MaskMatchesList, num_svs
  <2>12. TypeOK'
    <3>1. report' \in [list : Seq(Entry), used : SUBSET (1 .. GPS_MAX_SVS)]
      <4>1. [list |-> sv_list', used |-> used_in_fix_mask]
              \in [list : Seq(Entry), used : SUBSET (1 .. GPS_MAX_SVS)]
        BY <2>7 DEF SvInv, TypeOK
      <4> QED BY <2>2, <4>1, NoReportFacts
    <3>2. sv_status_changed' \in BOOLEAN
      BY <2>2 DEF SvInv, TypeOK
    <3>3. ephemeris_mask' \subseteq 1 .. GPS_MAX_SVS + 1
      BY <2>3, <2>4, <2>10
    <3> QED BY <1>5, <1>6, <1>7, <2>2, <2>7, <3>1, <3>2, <3>3 DEF SvInv, TypeOK
  <2>13. ASSUME NEW i \in Len(old) + 1 .. Len(sv_list')
         PROVE  LET j == i - Len(old) - 1
                IN  /\ j \in 0 .. 3
                    /\ sv_list'[i].prn = number[j * 4 + 4]
                    /\ sv_list'[i].snr = number[j * 4 + 7]
                    /\ sv_list'[i].cycle = cycle
    <3> DEFINE j == i - Len(old) - 1
    <3>1. j \in 0 .. 3 /\ sv_list'[i] = Place(number, j)
      BY <2>7
    <3> HIDE DEF j
    <3>2. /\ sv_list'[i].prn = number[j * 4 + 4] /\ sv_list'[i].snr = number[j * 4 + 7]
          /\ sv_list'[i].cycle = cycle
      BY <3>1 DEF Place
    <3> QED BY <3>1, <3>2 DEF j
  <2>14. ThisCycle'
    <3> SUFFICES ASSUME first' PROVE ThisCycle'
      BY DEF ThisCycle
    <3>1. /\ Len(old) <= view
          /\ \A i \in 1 .. Len(old) : old[i].cycle = cycle
          /\ uncut => \A i \in 1 .. Len(old) : old[i].prn <= (next - 1) * 4
          /\ uncut => \A i, j \in 1 .. Len(old) :
               old[i].prn = old[j].prn /\ old[i].prn > 0 => i = j
      <4>1. CASE next = 1
        BY <1>6, <2>4, <4>1
      <4>2. CASE next # 1
        BY <1>5, <2>4, <4>2 DEF SvInv, ThisCycle, num_svs, PerSentence
      <4> QED BY <4>1, <4>2
    <3>2. ASSUME NEW i \in 1 .. Len(old)
          PROVE  sv_list'[i] = old[i] /\ old[i].prn \in Nat
      <4>1. old[i] \in Entry
        BY <2>4, ElementOfSeq
      <4> QED BY <2>7, <4>1 DEF Entry
    <3>3. ASSUME NEW i \in Len(old) + 1 .. Len(sv_list')
          PROVE  /\ sv_list'[i].cycle = cycle
                 /\ sv_list'[i].prn \in Nat
                 /\ sv_list'[i].prn <= next * 4
                 /\ uncut' => sv_list'[i].prn \in {0, (next - 1) * 4 + i - Len(old)}
      <4> DEFINE j == i - Len(old) - 1
      <4>1. j \in 0 .. 3 /\ sv_list'[i].prn = number[j * 4 + 4] /\ sv_list'[i].cycle = cycle
        BY <2>13
      <4>2. /\ number[j * 4 + 4] \in 0 .. place(j)
            /\ n = LastField => number[j * 4 + 4] \in {0, place(j)}
        BY <1>4, <4>1
      <4>3. place(j) = (next - 1) * 4 + i - Len(old) /\ place(j) <= next * 4
        <5>1. next \in Nat
          BY <1>6
        <5>2. i \in Int /\ Len(old) \in Nat /\ j \in 0 .. 3 /\ i - Len(old) = j + 1
          BY <2>8, <4>1
        <5> HIDE DEF j
        <5> QED BY <5>1, <5>2
      <4> HIDE DEF place, j
      <4>4. sv_list'[i].prn \in Nat /\ sv_list'[i].prn <= next * 4
        BY <1>6, <4>1, <4>2, <4>3
      <4> QED BY <1>7, <4>1, <4>2, <4>3, <4>4
    <3>4. next' >= 2 /\ Len(sv_list') <= view'
      BY <1>5, <1>6, <2>8, <3>1
    <3>5. ASSUME NEW i \in 1 .. Len(sv_list')
          PROVE  /\ sv_list'[i].cycle = cycle
                 /\ uncut' => sv_list'[i].prn <= next * 4
      <4>1. CASE i <= Len(old)
        <5>1. i \in 1 .. Len(old)
          BY <2>4, <4>1
        <5>2. uncut => old[i].prn <= (next - 1) * 4
          BY <3>1, <5>1
        <5> QED BY <1>6, <1>7, <3>1, <3>2, <5>1, <5>2
      <4>2. CASE i > Len(old)
        <5>1. i \in Len(old) + 1 .. Len(sv_list')
          BY <2>4, <2>7, <4>2
        <5> QED BY <3>3, <5>1
      <4> QED BY <2>4, <4>1, <4>2
    <3>6. ASSUME uncut', NEW i \in 1 .. Len(sv_list'), NEW j \in 1 .. Len(sv_list'),
                 sv_list'[i].prn = sv_list'[j].prn, sv_list'[i].prn > 0, i < j
          PROVE  FALSE
      <4>1. CASE j <= Len(old)
        <5>1. i \in 1 .. Len(old) /\ j \in 1 .. Len(old) /\ i # j
          BY <2>4, <3>6, <4>1
        <5> QED BY <1>7, <3>1, <3>2, <3>6, <5>1
      <4>2. CASE i > Len(old)
        <5>1. i \in Len(old) + 1 .. Len(sv_list') /\ j \in Len(old) + 1 .. Len(sv_list')
          BY <2>4, <2>7, <3>6, <4>2
        <5>2. /\ sv_list'[i].prn = (next - 1) * 4 + i - Len(old)
              /\ sv_list'[j].prn = (next - 1) * 4 + j - Len(old)
          BY <3>3, <3>6, <5>1
        <5>3. (next - 1) * 4 + i - Len(old) # (next - 1) * 4 + j - Len(old)
          <6>1. next \in Nat /\ i \in Int /\ j \in Int /\ Len(old) \in Nat
            BY <1>6, <2>8
          <6> QED BY <3>6, <6>1
        <5> QED BY <3>6, <5>2, <5>3
      <4>3. CASE i <= Len(old) /\ j > Len(old)
        <5>1. i \in 1 .. Len(old) /\ j \in Len(old) + 1 .. Len(sv_list')
          BY <2>4, <2>7, <4>3
        <5>2. sv_list'[j].prn = (next - 1) * 4 + j - Len(old)
          BY <3>3, <3>6, <5>1
        <5>3. sv_list'[i].prn \in Nat /\ sv_list'[i].prn <= (next - 1) * 4
          BY <1>7, <3>1, <3>2, <3>6, <5>1
        <5> QED BY <1>6, <2>8, <3>6, <4>3, <5>2, <5>3
      <4> QED BY <2>4, <4>1, <4>2, <4>3
    <3>7. ASSUME uncut', NEW i \in 1 .. Len(sv_list'), NEW j \in 1 .. Len(sv_list'),
                 sv_list'[i].prn = sv_list'[j].prn, sv_list'[i].prn > 0
          PROVE  i = j
      <4>1. ~ (i < j)
        BY <3>6, <3>7
      <4>2. ~ (j < i)
        BY <3>6, <3>7
      <4> QED BY <2>8, <4>1, <4>2
    <3> QED BY <1>5, <1>6, <3>4, <3>5, <3>7 DEF ThisCycle, num_svs, PerSentence
  <2>15. WholeList'
    <3> SUFFICES ASSUME whole', view' > 0, MAX_NMEA_TOKENS >= 16
                 PROVE  /\ Len(sv_list') = SoFar'
                        /\ \A k \in 1 .. Len(sv_list') : k % PerSentence # 0 => Described(sv_list[k], k)'
      BY DEF WholeList, num_svs
    <3>1. whole /\ n = LastField /\ N = view /\ view > 0
      BY <1>3, <1>5, <1>7, TokenizerAssumption DEF TokenizerAssumption
    <3>2. (next - 1) * 4 < view
      BY <1>6, <3>1, SentencesFacts DEF SvInv
    <3>3. /\ Len(old) = (next - 1) * 4
          /\ \A k \in 1 .. Len(old) : k % 4 # 0 => Described(old[k], k)
      <4>1. CASE next = 1
        BY <1>6, <2>4, <4>1
      <4>2. CASE next # 1
        BY <1>6, <2>4, <3>1, <3>2, <4>2 DEF SvInv, WholeList, SoFar, num_svs, PerSentence
      <4> QED BY <4>1, <4>2
    <3>4. Len(sv_list') = SoFar'
      BY <1>5, <1>6, <2>7, <3>1, <3>2, <3>3 DEF SoFar, PerSentence
    <3>5. ASSUME NEW k \in 1 .. Len(sv_list'), k % 4 # 0
          PROVE  Described(sv_list'[k], k)
      <4>1. CASE k <= Len(old)
        BY <2>4, <2>7, <3>3, <3>5, <4>1
      <4>2. CASE k > Len(old)
        <5> DEFINE j == k - Len(old) - 1
        <5>1. k \in Len(old) + 1 .. Len(sv_list')
          BY <2>4, <2>7, <4>2
        <5>2. /\ j \in 0 .. 3
              /\ sv_list'[k].prn = number[j * 4 + 4] /\ sv_list'[k].snr = number[j * 4 + 7]
          BY <2>13, <5>1
        <5>3. place(j) = k /\ j < 3 /\ k <= view
          <6>1. /\ Len(old) = (next - 1) * 4 /\ Len(old) <= view
                /\ Len(sv_list') <= view
            BY <1>6, <2>8, <3>1, <3>2, <3>3
          <6>2. place(j) = k /\ k <= view
            BY <1>6, <2>8, <5>1, <6>1
          <6>3. j # 3
            BY <1>6, <2>8, <3>5, <5>1, <6>1
          <6> QED BY <5>2, <6>2, <6>3
        <5>4. number[j * 4 + 4] = k /\ number[j * 4 + 7] = IF Tracked(k) THEN Snr ELSE 0
          BY <1>4, <3>1, <5>2, <5>3
        <5> QED BY <5>2, <5>4 DEF Described
      <4> QED BY <2>4, <4>1, <4>2
    <3> QED BY <3>4, <3>5 DEF PerSentence, Described
  <2>16. Reported'
    <3> SUFFICES ASSUME report'.list # <<>>
                 PROVE  next' >= 2 /\ next' > Sentences' /\ view' > 0 /\ report'.list = sv_list'
      BY DEF Reported
    <3>1. due /\ report' = [list |-> sv_list', used |-> used_in_fix_mask]
      BY <2>2, NoReportFacts
    <3>2. next = Sentences /\ Sentences' = Sentences
      BY <1>5, <3>1 DEF Due, Sentences
    <3> QED BY <1>5, <1>6, <2>1, <3>1, <3>2
  <2> QED BY <2>9, <2>11, <2>12, <2>14, <2>15, <2>16 DEF SvInv
<1> QED BY <1>3, <1>6, <1>8, <1>9

-----------------------------------------------------------------------------
(* The satellite status keeps its inductive invariant. *)
THEOREM Invariance == SvSpec => []SvInv
<1>1. SvInv /\ [SvNext]_svvars => SvInv'
  <2> SUFFICES ASSUME SvInv, [SvNext]_svvars PROVE SvInv'
    OBVIOUS
  <2>1. CASE SvNext
    BY <2>1, InvGSA, InvGSV, InvLose, InvBegin DEF SvNext
  <2>2. CASE UNCHANGED svvars
    BY <2>2 DEF svvars, svars, hvars, SvInv, TypeOK, ListFits, MaskMatchesList, ThisCycle,
                WholeList, SoFar, Reported, Sentences, Described, num_svs
  <2> QED BY <2>1, <2>2
<1> QED BY <1>1, InvInit, PTL DEF SvSpec

(* Every variable keeps its type, for any number of satellites and however
   the sentences are cut (537-661). *)
THEOREM TypeCorrect == SvSpec => []TypeOK
<1>1. SvInv => TypeOK
  BY DEF SvInv
<1> QED BY <1>1, Invariance, PTL

(* The list of satellites never outgrows what a receiver may announce: no
   sentence that is lost or cut leads past the end of sv_list (606-612). *)
THEOREM ListInBounds == SvSpec => []ListFits
<1>1. SvInv => ListFits
  BY DEF SvInv
<1> QED BY <1>1, Invariance, PTL

(* The masks name the satellites of the list and no others (594-617). *)
THEOREM MasksAgree == SvSpec => []MaskMatchesList
<1>1. SvInv => MaskMatchesList
  BY DEF SvInv
<1> QED BY <1>1, Invariance, PTL

(* From the first GSV of a cycle on, the list is of this cycle, and names no
   satellite twice unless a number lost a digit (594-625). *)
THEOREM ListCurrent == SvSpec => []ListIsOfThisCycle
<1>1. SvInv => ListIsOfThisCycle
  BY DEF SvInv, ThisCycle, ListIsOfThisCycle
<1> QED BY <1>1, Invariance, PTL

(* With room for the tokens the code keeps (80), what is reported in a cycle
   that lost nothing lists all satellites in view in their places, but for
   the last of each sentence (602-655). *)
THEOREM ReportComplete ==
  ASSUME MAX_NMEA_TOKENS >= 16
  PROVE  SvSpec => []CompleteReport
<1>1. SvInv => CompleteReport
  <2> SUFFICES ASSUME SvInv, report.list # <<>>, whole
               PROVE  /\ Len(report.list) = view
                      /\ \A k \in 1 .. view : k % PerSentence # 0 => Described(report.list[k], k)
    BY DEF CompleteReport, Described
  <2>1. /\ next >= 2 /\ next > Sentences /\ view > 0 /\ report.list = sv_list
        /\ Len(sv_list) = SoFar
        /\ \A k \in 1 .. Len(sv_list) : k % PerSentence # 0 => Described(sv_list[k], k)
    BY DEF SvInv, Reported, WholeList, num_svs
  <2>2. /\ Sentences \in Nat /\ view \in Nat /\ next \in Nat /\ view <= Sentences * 4
    BY SentencesFacts DEF SvInv, TypeOK
  <2>3. SoFar = view
    BY <2>1, <2>2 DEF SoFar, PerSentence
  <2> QED BY <2>1, <2>3
<1> QED BY <1>1, Invariance, PTL

-----------------------------------------------------------------------------
(* Induction: every set of numbers has a least element, ... *)
LEMMA Least ==
  ASSUME NEW T, T \subseteq Nat, T # {}
  PROVE  \E x \in T : \A y \in T : x <= y
<1> DEFINE R == OpToRel(<, Nat)
<1>1. IsWellFoundedOn(R, Nat)
  BY NatLessThanWellFounded
<1>a. \A x, y \in Nat : y < x => <<y, x>> \in R
  BY DEF OpToRel
<1> HIDE DEF R
<1>2. \E x \in T : \A y \in T : ~ (<<y, x>> \in R)
  BY <1>1, WFMin
<1>3. PICK x \in T : \A y \in T : ~ (<<y, x>> \in R)
  BY <1>2
<1>4. \A y \in T : x <= y
  <2>1. TAKE y \in T
  <2>2. x \in Nat /\ y \in Nat
    BY <1>3
  <2>3. ~(y < x)
    BY <1>3, <1>a, <2>2
  <2> QED BY <2>2, <2>3
<1> QED BY <1>3, <1>4

(* ... so a set with 0 that is closed under + 1 has them all. *)
LEMMA SetInduction ==
  ASSUME NEW S, 0 \in S, \A n \in Nat : n \in S => n + 1 \in S
  PROVE  Nat \subseteq S
<1> SUFFICES ASSUME Nat \ S # {} PROVE FALSE
  OBVIOUS
<1>1. PICK x \in Nat \ S : \A y \in Nat \ S : x <= y
  BY Least
<1>2. x # 0
  BY <1>1
<1>3. x - 1 \in Nat /\ x - 1 \in S
  BY <1>1, <1>2
<1>4. (x - 1) + 1 \in S
  BY <1>3
<1> QED BY <1>1, <1>4

(* The ends of an interval. *)
LEMMA MinMaxOf ==
  ASSUME NEW a \in Int, NEW b \in Int, a <= b
  PROVE  Min(a .. b) = a /\ Max(a .. b) = b
<1>1. \A x \in a .. b : (\A y \in a .. b : x <= y) => x = a
  OBVIOUS
<1>2. a \in a .. b /\ \A y \in a .. b : a <= y
  OBVIOUS
<1>3. \A x \in a .. b : (\A y \in a .. b : x >= y) => x = b
  OBVIOUS
<1>4. b \in a .. b /\ \A y \in a .. b : b >= y
  OBVIOUS
<1>5. Min(a .. b) = a
  BY <1>1, <1>2, Zenon DEF Min
<1>6. Max(a .. b) = b
  BY <1>3, <1>4, Zenon DEF Max
<1> QED BY <1>5, <1>6

(* memchr finds the first comma. *)
LEMMA Memchr ==
  ASSUME NEW s, NEW p \in Nat \ {0}, NEW end \in Nat, p < end
  PROVE  LET q == memchr(s, p, end)
         IN  /\ q \in p .. end
             /\ \A k \in p .. q - 1 : s[k] # COMMA
             /\ q # end => s[q] = COMMA
<1> DEFINE I == {i \in p .. end - 1 : s[i] = COMMA}
           q == memchr(s, p, end)
<1>1. q = IF (IF I # {} THEN Min(I) ELSE 0) = 0 THEN end ELSE IF I # {} THEN Min(I) ELSE 0
  BY DEF memchr, SelectInSubSeq
<1>2. CASE I = {}
  <2>1. q = end
    BY <1>1, <1>2
  <2> QED BY <1>2, <2>1
<1>3. CASE I # {}
  <2>0. I \subseteq Nat
    OBVIOUS
  <2> HIDE DEF I
  <2>1. \E x \in I : \A y \in I : x <= y
    BY <1>3, <2>0, Least
  <2>2. Min(I) \in I /\ \A y \in I : Min(I) <= y
    BY <2>1, Zenon DEF Min
  <2> USE DEF I
  <2> HIDE DEF q
  <2>3. q = Min(I)
    <3>1. Min(I) # 0
      BY <2>2
    <3> QED BY <1>1, <1>3, <3>1, Zenon
  <2>4. q \in I /\ \A y \in I : q <= y
    BY <2>2, <2>3, Zenon
  <2>5. q \in p .. end - 1 /\ s[q] = COMMA
    BY <2>4
  <2>6. \A k \in p .. q - 1 : k \in p .. end - 1 /\ ~ (q <= k)
    BY <2>5
  <2> QED BY <2>4, <2>5, <2>6 DEF q
<1> QED BY <1>2, <1>3

-----------------------------------------------------------------------------
(* Tokens, unfolded: what is cut off at the front, and the rest. *)
Token == [p : Nat, end : Nat]
Rest(s, p, end, r) ==
  IF p >= end THEN <<>>
  ELSE LET q == memchr(s, p, end) IN <<[p |-> p, end |-> q]>> \o r[q + 1]

(* Tokens is a recursive function: it satisfies its own definition. *)
LEMMA TokensUnfold ==
  ASSUME NEW s, NEW begin \in Nat \ {0}, NEW end \in Nat, begin <= end + 1
  PROVE  \E r : /\ Tokens(s, begin, end) = r[begin]
                /\ \A p \in begin .. end + 1 : r[p] = Rest(s, p, end, r)
<1> DEFINE D(n) == {p \in begin .. end + 1 : p >= end + 1 - n}
           S == {n \in Nat : \E r : /\ r = [p \in D(n) |-> r[p]]
                                   /\ \A p \in D(n) : r[p] = Rest(s, p, end, r)}
<1>1. ASSUME NEW p \in begin .. end + 1, p < end
      PROVE  memchr(s, p, end) + 1 \in p + 1 .. end + 1
  <2>1. p \in Nat \ {0}
    BY <1>1
  <2>2. memchr(s, p, end) \in p .. end
    BY <1>1, <2>1, Memchr
  <2> QED BY <1>1, <2>2
<1>2. 0 \in S
  <2> DEFINE r == [p \in D(0) |-> <<>>]
  <2>1. \A p \in D(0) : r[p] = <<>> /\ p >= end
    OBVIOUS
  <2>2. \A p \in D(0) : r[p] = Rest(s, p, end, r)
    BY <2>1 DEF Rest
  <2>3. r = [p \in D(0) |-> r[p]]
    OBVIOUS
  <2> HIDE DEF r, D
  <2> QED BY <2>2, <2>3
<1>3. ASSUME NEW n \in Nat, n \in S
      PROVE  n + 1 \in S
  <2>1. PICK r : /\ r = [p \in D(n) |-> r[p]]
                 /\ \A p \in D(n) : r[p] = Rest(s, p, end, r)
    BY <1>3
  <2> DEFINE r2 == [p \in D(n + 1) |-> Rest(s, p, end, r)]
  <2>2. \A p \in D(n) : p \in D(n + 1)
    OBVIOUS
  <2>3. \A p \in D(n) : r2[p] = r[p]
    BY <2>1, <2>2
  <2>4. \A p \in D(n + 1) : p < end => memchr(s, p, end) + 1 \in D(n)
    BY <1>1
  <2>5. ASSUME NEW p \in D(n + 1)
        PROVE  r2[p] = Rest(s, p, end, r2)
    <3>1. r2[p] = Rest(s, p, end, r)
      OBVIOUS
    <3>2. p < end => r2[memchr(s, p, end) + 1] = r[memchr(s, p, end) + 1]
      BY <2>3, <2>4
    <3>3. p \in Int /\ end \in Int
      OBVIOUS
    <3> HIDE DEF r2, D
    <3> QED BY <3>1, <3>2, <3>3 DEF Rest
  <2>6. r2 = [p \in D(n + 1) |-> r2[p]]
    OBVIOUS
  <2> HIDE DEF r2, D
  <2> QED BY <2>5, <2>6
<1>4. end + 1 \in S
  <2> HIDE DEF S
  <2> QED BY <1>2, <1>3, SetInduction
<1>5. D(end + 1) = begin .. end + 1
  OBVIOUS
<1> DEFINE F(r) == [p \in begin .. end + 1 |-> Rest(s, p, end, r)]
           t == CHOOSE r : r = F(r)
<1>6. \E r : r = F(r)
  <2>1. PICK r : /\ r = [p \in D(end + 1) |-> r[p]]
                 /\ \A p \in D(end + 1) : r[p] = Rest(s, p, end, r)
    BY <1>4
  <2> QED BY <1>5, <2>1
<1>7. t = F(t)
  BY <1>6
<1>8. Tokens(s, begin, end) = t[begin]
  BY DEF Tokens, Rest
<1> HIDE DEF t
<1>9. \A p \in begin .. end + 1 : t[p] = Rest(s, p, end, t)
  BY <1>7
<1> QED BY <1>8, <1>9

(* The tokens of s from p to end: they touch, and none holds a comma. *)
Chain(T, s, p, end) ==
  /\ T \in Seq(Token)
  /\ p >= end => T = <<>>
  /\ p < end => Len(T) >= 1 /\ T[1].p = p /\ T[Len(T)].end + 1 >= end
  /\ \A i \in 1 .. Len(T) :
       /\ T[i].p \in p .. end - 1 /\ T[i].end \in T[i].p .. end
       /\ \A k \in T[i].p .. T[i].end - 1 : s[k] # COMMA
       /\ T[i].end # end => s[T[i].end] = COMMA
  /\ \A i \in 1 .. Len(T) - 1 : T[i + 1].p = T[i].end + 1

(* One token more in front. *)
LEMMA ChainLonger ==
  ASSUME NEW s, NEW p \in Nat \ {0}, NEW end \in Nat, p < end, NEW R,
         Chain(R, s, memchr(s, p, end) + 1, end)
  PROVE  Chain(<<[p |-> p, end |-> memchr(s, p, end)]>> \o R, s, p, end)
<1> DEFINE q == memchr(s, p, end)
           token == [p |-> p, end |-> q]
           T == <<token>> \o R
<1>1. /\ q \in p .. end
      /\ \A k \in p .. q - 1 : s[k] # COMMA
      /\ q # end => s[q] = COMMA
  BY Memchr
<1> HIDE DEF q
<1>2. token \in Token /\ <<token>> \in Seq(Token) /\ Len(<<token>>) = 1 /\ <<token>>[1] = token
  BY <1>1 DEF Token
<1>3. R \in Seq(Token) /\ Len(R) \in Nat
  BY DEF Chain
<1> HIDE DEF token
<1>4. /\ T \in Seq(Token) /\ Len(T) = 1 + Len(R)
      /\ T[1] = token
      /\ \A i \in 2 .. Len(T) : T[i] = R[i - 1]
  <2>1. /\ T \in Seq(Token) /\ Len(T) = Len(<<token>>) + Len(R)
        /\ \A i \in 1 .. Len(<<token>>) + Len(R) :
             T[i] = IF i <= Len(<<token>>) THEN <<token>>[i] ELSE R[i - Len(<<token>>)]
    BY <1>2, <1>3, ConcatProperties, Zenon
  <2> HIDE DEF T
  <2> QED BY <1>2, <1>3, <2>1
<1> HIDE DEF T
<1>5. token.p = p /\ token.end = q
  BY DEF token
<1>6. ASSUME NEW i \in 1 .. Len(T)
      PROVE  /\ T[i].p \in p .. end - 1 /\ T[i].end \in T[i].p .. end
             /\ \A k \in T[i].p .. T[i].end - 1 : s[k] # COMMA
             /\ T[i].end # end => s[T[i].end] = COMMA
  <2>1. CASE i = 1
    BY <1>1, <1>4, <1>5, <2>1
  <2>2. CASE i # 1
    <3>1. i - 1 \in 1 .. Len(R) /\ T[i] = R[i - 1]
      BY <1>3, <1>4, <2>2
    <3>2. /\ R[i - 1].p \in q + 1 .. end - 1 /\ R[i - 1].end \in R[i - 1].p .. end
          /\ \A k \in R[i - 1].p .. R[i - 1].end - 1 : s[k] # COMMA
          /\ R[i - 1].end # end => s[R[i - 1].end] = COMMA
      BY <3>1 DEF Chain, q
    <3>3. R[i - 1].p \in p .. end - 1
      BY <1>1, <3>2
    <3> QED BY <3>1, <3>2, <3>3
  <2> QED BY <2>1, <2>2
<1>7. ASSUME NEW i \in 1 .. Len(T) - 1
      PROVE  T[i + 1].p = T[i].end + 1
  <2>1. T[i + 1] = R[i]
    BY <1>3, <1>4
  <2>2. CASE i = 1
    <3>1. R # <<>> /\ q + 1 \in Int
      BY <1>1, <1>3, <1>4, EmptySeq
    <3>2. R[1].p = q + 1
      BY <3>1 DEF Chain, q
    <3> QED BY <1>4, <1>5, <2>1, <2>2, <3>2
  <2>3. CASE i # 1
    <3>1. i - 1 \in 1 .. Len(R) - 1 /\ T[i] = R[i - 1] /\ (i - 1) + 1 = i
      BY <1>3, <1>4, <2>3
    <3>2. R[(i - 1) + 1].p = R[i - 1].end + 1
      BY <3>1 DEF Chain
    <3> QED BY <2>1, <3>1, <3>2
  <2> QED BY <2>2, <2>3
<1>8. T[Len(T)].end + 1 >= end
  <2>1. CASE q + 1 >= end
    <3>1. R = <<>>
      BY <2>1 DEF Chain, q
    <3> QED BY <1>1, <1>4, <1>5, <2>1, <3>1
  <2>2. CASE q + 1 < end
    <3>1. Len(R) >= 1 /\ R[Len(R)].end + 1 >= end
      BY <2>2 DEF Chain, q
    <3> QED BY <1>3, <1>4, <3>1
  <2> QED BY <1>1, <2>1, <2>2
<1> QED BY <1>3, <1>4, <1>5, <1>6, <1>7, <1>8 DEF Chain, T, token, q

(* The loop of nmea_tokenizer_init makes such tokens, whatever the sentence. *)
LEMMA TokensChain ==
  ASSUME NEW s, NEW begin \in Nat \ {0}, NEW end \in Nat, begin <= end + 1
  PROVE  Chain(Tokens(s, begin, end), s, begin, end)
<1>1. PICK r : /\ Tokens(s, begin, end) = r[begin]
               /\ \A p \in begin .. end + 1 : r[p] = Rest(s, p, end, r)
  BY TokensUnfold
<1> DEFINE S == {n \in Nat : \A p \in begin .. end + 1 : p >= end + 1 - n => Chain(r[p], s, p, end)}
<1>2. ASSUME NEW p \in begin .. end + 1, p >= end
      PROVE  Chain(r[p], s, p, end)
  <2>1. r[p] = <<>>
    BY <1>1, <1>2 DEF Rest
  <2>2. r[p] \in Seq(Token) /\ Len(r[p]) = 0
    BY <2>1
  <2>3. ~ (p < end)
    BY <1>2
  <2> QED BY <2>1, <2>2, <2>3 DEF Chain
<1>3. 0 \in S
  BY <1>2
<1>4. ASSUME NEW n \in Nat, n \in S
      PROVE  n + 1 \in S
  <2> SUFFICES ASSUME NEW p \in begin .. end + 1, p >= end + 1 - (n + 1), p < end
               PROVE  Chain(r[p], s, p, end)
    BY <1>2
  <2> DEFINE q == memchr(s, p, end)
  <2>1. p \in Nat \ {0}
    OBVIOUS
  <2>2. q \in p .. end
    BY <2>1, Memchr
  <2>3. q + 1 \in begin .. end + 1 /\ q + 1 >= end + 1 - n
    BY <2>2
  <2>4. Chain(r[q + 1], s, q + 1, end)
    BY <1>4, <2>3
  <2>5. r[p] = <<[p |-> p, end |-> q]>> \o r[q + 1]
    <3>1. r[p] = Rest(s, p, end, r) /\ ~ (p >= end)
      BY <1>1
    <3> QED BY <3>1, Zenon DEF Rest
  <2> QED BY <2>1, <2>4, <2>5, ChainLonger
<1>5. end + 1 \in S
  <2> HIDE DEF S
  <2> QED BY <1>3, <1>4, SetInduction
<1>6. begin \in begin .. end + 1 /\ begin >= end + 1 - (end + 1)
  OBVIOUS
<1>7. Chain(r[begin], s, begin, end)
  BY <1>5, <1>6
<1> QED BY <1>1, <1>7

-----------------------------------------------------------------------------
(* Every character between the commas is in a token, ... *)
LEMMA InSomeToken ==
  ASSUME NEW s, NEW b \in Nat \ {0}, NEW e \in Nat, NEW T, Chain(T, s, b, e),
         NEW k \in b .. e - 1, s[k] # COMMA
  PROVE  \E i \in 1 .. Len(T) : k \in T[i].p .. T[i].end - 1
<1> DEFINE I == {i \in 1 .. Len(T) : k < T[i].end}
<1>1. T \in Seq(Token) /\ Len(T) \in Nat
  BY DEF Chain
<1>2. /\ b < e /\ Len(T) >= 1
      /\ T[1].p = b
      /\ T[Len(T)].end + 1 >= e
  BY DEF Chain
<1>3. ASSUME NEW i \in 1 .. Len(T)
      PROVE  /\ T[i].p \in b .. e - 1 /\ T[i].end \in T[i].p .. e
             /\ T[i].end # e => s[T[i].end] = COMMA
  BY DEF Chain
<1>4. Len(T) \in I
  <2>1. Len(T) \in 1 .. Len(T)
    BY <1>1, <1>2
  <2>2. T[Len(T)].end \in Int /\ T[Len(T)].end # k
    BY <1>3, <2>1
  <2> QED BY <1>2, <2>1, <2>2
<1>5. I \subseteq Nat /\ I # {}
  BY <1>4
<1>6. PICK i \in I : \A j \in I : i <= j
  BY <1>5, Least
<1>7. i \in 1 .. Len(T) /\ k < T[i].end
  BY <1>6
<1>8. T[i].p <= k
  <2>1. CASE i = 1
    BY <1>2, <2>1
  <2>2. CASE i # 1
    <3>1. i - 1 \in 1 .. Len(T) - 1 /\ i - 1 \in 1 .. Len(T) /\ (i - 1) + 1 = i /\ ~ (i <= i - 1)
      BY <1>1, <1>7, <2>2
    <3>2. ~ (k < T[i - 1].end)
      BY <1>6, <3>1
    <3>3. T[i].p = T[i - 1].end + 1
      <4>1. T[(i - 1) + 1].p = T[i - 1].end + 1
        BY <3>1 DEF Chain
      <4> QED BY <3>1, <4>1
    <3>4. T[i - 1].end \in Int /\ T[i - 1].end # k
      BY <1>3, <3>1
    <3> QED BY <3>2, <3>3, <3>4
  <2> QED BY <2>1, <2>2
<1> QED BY <1>3, <1>7, <1>8

(* ... and the number of commas in front of it is that of its token. *)
LEMMA CommasOfToken ==
  ASSUME NEW s, NEW b \in Nat \ {0}, NEW e \in Nat, NEW T, Chain(T, s, b, e),
         \A k \in 1 .. b - 1 : s[k] # COMMA
  PROVE  \A i \in 1 .. Len(T) : \A k \in T[i].p .. T[i].end : CommasBefore(s, k) = i - 1
<1> DEFINE C(k) == {j \in 1 .. k - 1 : s[j] = COMMA}
           S == {n \in Nat : n + 1 <= Len(T) =>
                   \A k \in T[n + 1].p .. T[n + 1].end : Cardinality(C(k)) = n}
<1>1. T \in Seq(Token) /\ Len(T) \in Nat
  BY DEF Chain
<1>2. ASSUME NEW i \in 1 .. Len(T)
      PROVE  /\ T[i].p \in b .. e - 1 /\ T[i].end \in T[i].p .. e
             /\ \A k \in T[i].p .. T[i].end - 1 : s[k] # COMMA
             /\ T[i].end # e => s[T[i].end] = COMMA
  BY DEF Chain
<1>3. ASSUME NEW k \in Nat PROVE IsFiniteSet(C(k))
  <2>1. IsFiniteSet(1 .. k - 1)
    BY FS_Interval
  <2> QED BY <2>1, FS_Subset
<1>4. 0 \in S
  <2> SUFFICES ASSUME 1 <= Len(T), NEW k \in T[1].p .. T[1].end PROVE Cardinality(C(k)) = 0
    OBVIOUS
  <2>1. 1 \in 1 .. Len(T)
    BY <1>1
  <2>2. T[1].p = b
    <3>1. T # <<>>
      BY <2>1
    <3> QED BY <3>1 DEF Chain
  <2>3. ASSUME NEW j \in 1 .. k - 1 PROVE s[j] # COMMA
    <3>1. T[1].end \in Int /\ k \in Int /\ k <= T[1].end
      BY <1>2, <2>1, <2>2
    <3>2. CASE j < b
      BY <3>2
    <3>3. CASE j >= b
      <4>1. j \in T[1].p .. T[1].end - 1
        BY <2>2, <3>1, <3>3
      <4> QED BY <1>2, <2>1, <4>1
    <3> QED BY <3>2, <3>3
  <2>4. C(k) = {}
    BY <2>3
  <2> QED BY <2>4, FS_EmptySet
<1>5. ASSUME NEW n \in Nat, n \in S
      PROVE  n + 1 \in S
  <2> SUFFICES ASSUME n + 2 <= Len(T), NEW k \in T[n + 2].p .. T[n + 2].end
               PROVE  Cardinality(C(k)) = n + 1
    OBVIOUS
  <2> DEFINE m == T[n + 1].end
  <2>1. n + 1 \in 1 .. Len(T) /\ n + 2 \in 1 .. Len(T) /\ n + 1 \in 1 .. Len(T) - 1 /\ (n + 1) + 1 = n + 2
    BY <1>1
  <2>2. T[n + 2].p = m + 1
    <3>1. T[(n + 1) + 1].p = T[n + 1].end + 1
      BY <2>1 DEF Chain
    <3> QED BY <2>1, <3>1
  <2>3. m \in Nat /\ m \in T[n + 1].p .. T[n + 1].end /\ m >= 1
    BY <1>2, <2>1
  <2>4. s[m] = COMMA
    <3>1. m # e
      BY <1>2, <2>1, <2>2, <2>3
    <3> QED BY <1>2, <2>1, <3>1
  <2>5. Cardinality(C(m)) = n
    BY <1>5, <2>1, <2>3
  <2>6. k \in Int /\ k >= m + 1 /\ \A j \in m + 1 .. k - 1 : s[j] # COMMA
    <3> DEFINE p == T[n + 2].p
               end == T[n + 2].end
    <3>1. p \in Int /\ end \in Int /\ k \in p .. end /\ \A j \in p .. end - 1 : s[j] # COMMA
      BY <1>2, <2>1
    <3>2. p = m + 1
      BY <2>2
    <3> HIDE DEF p, end, m
    <3>3. k \in Int /\ k >= p /\ \A j \in p .. k - 1 : s[j] # COMMA
      BY <3>1
    <3> QED BY <3>2, <3>3
  <2> HIDE DEF m
  <2>7. C(k) = C(m) \cup {m}
    BY <2>3, <2>4, <2>6
  <2>8. m \notin C(m)
    BY <2>3
  <2> HIDE DEF C
  <2>9. Cardinality(C(m) \cup {m}) = Cardinality(C(m)) + 1
    BY <1>3, <2>3, <2>8, FS_AddElement
  <2> QED BY <2>5, <2>7, <2>9
<1>6. Nat \subseteq S
  <2> HIDE DEF S
  <2> QED BY <1>4, <1>5, SetInduction
<1>7. ASSUME NEW i \in 1 .. Len(T), NEW k \in T[i].p .. T[i].end
      PROVE  CommasBefore(s, k) = i - 1
  <2>1. i - 1 \in Nat /\ (i - 1) + 1 = i /\ i <= Len(T)
    BY <1>1
  <2>2. i - 1 \in S
    BY <1>6, <2>1
  <2>3. Cardinality(C(k)) = i - 1
    BY <2>1, <2>2
  <2> QED BY <2>3 DEF CommasBefore
<1> QED BY <1>7

-----------------------------------------------------------------------------
(* A sentence whose separators stand where they belong. *)
WellFormed(s) ==
  \A k \in Begin(s) .. Len(s) :
    IF k < End(s) THEN s[k] = COMMA \/ IsPayload(s, k) ELSE ~ IsPayload(s, k)

(* The ends of a sentence are positions in it, or just behind it. *)
LEMMA BeginEnd ==
  ASSUME NEW s \in Seq(Character)
  PROVE  /\ Len(s) \in Nat
         /\ Begin(s) \in 1 .. 2 /\ Begin(s) <= Len(s) + 1
         /\ \A k \in 1 .. Begin(s) - 1 : s[k] = DOLLAR
         /\ LineEnd(s) \in Begin(s) .. Len(s) + 1
         /\ End(s) \in Begin(s) .. Len(s) + 1
<1>1. Len(s) \in Nat /\ (s # <<>> => Len(s) >= 1)
  BY EmptySeq
<1>2. /\ Begin(s) \in 1 .. 2 /\ Begin(s) <= Len(s) + 1
      /\ \A k \in 1 .. Begin(s) - 1 : s[k] = DOLLAR
  BY <1>1 DEF Begin
<1>3. LineEnd(s) \in Begin(s) .. Len(s) + 1
  BY <1>1, <1>2 DEF LineEnd
<1>4. End(s) \in Begin(s) .. Len(s) + 1
  BY <1>1, <1>2, <1>3 DEF End
<1> QED BY <1>1, <1>2, <1>3, <1>4

(* Field i of such a sentence is the text of its token i, if there is one. *)
LEMMA FieldOfToken ==
  ASSUME NEW s \in Seq(Character), WellFormed(s), NEW i \in Nat
  PROVE  LET T == Tokens(s, Begin(s), End(s))
         IN  Field(s, i) = IF i < Len(T) THEN SubSeq(s, T[i + 1].p, T[i + 1].end - 1) ELSE <<>>
<1> DEFINE b == Begin(s)
           e == End(s)
           T == Tokens(s, b, e)
           places == {k \in 1 .. Len(s) : IsPayload(s, k) /\ CommasBefore(s, k) = i}
<1>1. /\ Len(s) \in Nat /\ b \in Nat \ {0} /\ e \in Nat /\ b <= e /\ e <= Len(s) + 1
      /\ \A k \in 1 .. b - 1 : s[k] = DOLLAR
  BY BeginEnd
<1>2. \A k \in 1 .. b - 1 : s[k] # COMMA /\ ~ IsPayload(s, k)
  BY <1>1 DEF IsPayload, DOLLAR, COMMA
<1>3. \A k \in b .. Len(s) :
        IF k < e THEN s[k] = COMMA \/ IsPayload(s, k) ELSE ~ IsPayload(s, k)
  BY DEF WellFormed
<1>4. \A k \in 1 .. Len(s) : IsPayload(s, k) => s[k] # COMMA
  BY DEF IsPayload
<1> HIDE DEF b, e
<1>5. Chain(T, s, b, e)
  BY <1>1, TokensChain
<1> HIDE DEF T
<1>6. \A j \in 1 .. Len(T) : \A k \in T[j].p .. T[j].end : CommasBefore(s, k) = j - 1
  BY <1>1, <1>2, <1>5, CommasOfToken
<1>7. ASSUME NEW k \in places
      PROVE  i < Len(T) /\ k \in T[i + 1].p .. T[i + 1].end - 1
  <2>1. k \in b .. e - 1 /\ s[k] # COMMA
    BY <1>1, <1>2, <1>3, <1>4
  <2>2. PICK j \in 1 .. Len(T) : k \in T[j].p .. T[j].end - 1
    BY <1>1, <1>5, <2>1, InSomeToken
  <2>3. T[j].p \in Int /\ T[j].end \in Int
    BY <1>5 DEF Chain
  <2>4. CommasBefore(s, k) = j - 1
    BY <1>6, <2>2, <2>3
  <2>5. j = i + 1
    BY <2>4
  <2> QED BY <2>2, <2>5
<1>8. CASE i < Len(T)
  <2>1. i + 1 \in 1 .. Len(T)
    BY <1>8, <1>5 DEF Chain
  <2>2. /\ T[i + 1].p \in b .. e - 1 /\ T[i + 1].end \in T[i + 1].p .. e
        /\ \A k \in T[i + 1].p .. T[i + 1].end - 1 : s[k] # COMMA
    BY <1>5, <2>1 DEF Chain
  <2>3. ASSUME NEW k \in T[i + 1].p .. T[i + 1].end - 1
        PROVE  k \in places
    <3>1. k \in 1 .. Len(s) /\ k \in b .. e - 1
      BY <1>1, <2>2
    <3>2. IsPayload(s, k)
      BY <1>1, <1>3, <2>2, <3>1
    <3>3. CommasBefore(s, k) = (i + 1) - 1
      BY <1>6, <2>1, <2>2
    <3> QED BY <3>1, <3>2, <3>3
  <2>4. places = T[i + 1].p .. T[i + 1].end - 1
    BY <1>7, <2>3
  <2>5. CASE T[i + 1].p <= T[i + 1].end - 1
    <3>1. /\ Min(T[i + 1].p .. T[i + 1].end - 1) = T[i + 1].p
          /\ Max(T[i + 1].p .. T[i + 1].end - 1) = T[i + 1].end - 1
      BY <2>2, <2>5, MinMaxOf
    <3>2. places # {}
      BY <2>2, <2>4, <2>5
    <3>3. Field(s, i) = SubSeq(s, Min(places), Max(places))
      BY <3>2, Zenon DEF Field
    <3> QED BY <1>8, <2>4, <3>1, <3>3 DEF T, b, e
  <2>6. CASE ~ (T[i + 1].p <= T[i + 1].end - 1)
    <3>1. places = {}
      BY <2>2, <2>4, <2>6
    <3>2. Field(s, i) = <<>>
      BY <3>1, Zenon DEF Field
    <3>3. SubSeq(s, T[i + 1].p, T[i + 1].end - 1) = <<>>
      BY <2>2, <2>6, SubSeqEmpty
    <3> QED BY <1>8, <3>2, <3>3 DEF T, b, e
  <2> QED BY <2>5, <2>6
<1>9. CASE ~ (i < Len(T))
  <2>1. places = {}
    BY <1>7, <1>9
  <2>2. Field(s, i) = <<>>
    BY <2>1, Zenon DEF Field
  <2> QED BY <1>9, <2>2 DEF T, b, e
<1> QED BY <1>8, <1>9

(* What nmea_tokenizer_get finds: the token, while it is kept. *)
LEMMA GetToken ==
  ASSUME NEW s \in Seq(Character), NEW i \in Nat
  PROVE  LET T == Tokens(s, Begin(s), End(s))
             token == nmea_tokenizer_get(nmea_tokenizer_init(s), i)
         IN  token = IF i < MAX_NMEA_TOKENS /\ i < Len(T) THEN T[i + 1] ELSE [p |-> 0, end |-> 0]
<1> DEFINE T == Tokens(s, Begin(s), End(s))
           n == IF Len(T) < MAX_NMEA_TOKENS THEN Len(T) ELSE MAX_NMEA_TOKENS
           kept == SubSeq(T, 1, n)
<1>1. T \in Seq(Token) /\ Len(T) \in Nat /\ MAX_NMEA_TOKENS \in Nat
  <2>1. Chain(T, s, Begin(s), End(s))
    <3>1. Begin(s) \in Nat \ {0} /\ End(s) \in Nat /\ Begin(s) <= End(s) + 1
      BY BeginEnd
    <3> QED BY <3>1, TokensChain
  <2> QED BY <2>1, TokenizerAssumption DEF Chain, TokenizerAssumption
<1>2. kept = nmea_tokenizer_init(s)
  BY DEF nmea_tokenizer_init
<1> HIDE DEF T
<1>3. n \in 0 .. Len(T)
  BY <1>1
<1>4. /\ Len(kept) = n
      /\ \A j \in 1 .. n : kept[j] = T[j]
  <2>1. \A j \in 1 .. n : T[j] \in Token
    BY <1>1, <1>3, ElementOfSeq
  <2>2. /\ Len(kept) = IF 1 <= n THEN n - 1 + 1 ELSE 0
        /\ \A j \in 1 .. n - 1 + 1 : kept[j] = T[1 + j - 1]
    BY <1>3, <2>1, SubSeqProperties
  <2> QED BY <1>3, <2>2
<1> HIDE DEF kept
<1>5. nmea_tokenizer_get(kept, i) = IF i < n THEN T[i + 1] ELSE [p |-> 0, end |-> 0]
  BY <1>3, <1>4 DEF nmea_tokenizer_get
<1>6. i < n <=> i < MAX_NMEA_TOKENS /\ i < Len(T)
  BY <1>1
<1> QED BY <1>2, <1>5, <1>6 DEF T

(* Whatever the sentence, if its separators stand where they belong, token
   i is field i and nothing else, for every i that is kept, and the empty
   string for every other (90-150). *)
THEOREM FieldsAreTokens ==
  ASSUME NEW s \in Seq(Character), WellFormed(s), NEW i \in Nat
  PROVE  Text(s, nmea_tokenizer_get(nmea_tokenizer_init(s), i))
           = IF i < MAX_NMEA_TOKENS THEN Field(s, i) ELSE <<>>
<1> DEFINE T == Tokens(s, Begin(s), End(s))
           token == nmea_tokenizer_get(nmea_tokenizer_init(s), i)
<1>1. token = IF i < MAX_NMEA_TOKENS /\ i < Len(T) THEN T[i + 1] ELSE [p |-> 0, end |-> 0]
  BY GetToken
<1>2. Field(s, i) = IF i < Len(T) THEN SubSeq(s, T[i + 1].p, T[i + 1].end - 1) ELSE <<>>
  BY FieldOfToken
<1>3. SubSeq(s, 0, 0 - 1) = <<>>
  BY SubSeqEmpty
<1>4. Text(s, token) = SubSeq(s, token.p, token.end - 1)
  BY Zenon DEF Text
<1> HIDE DEF T, token
<1>5. CASE i < MAX_NMEA_TOKENS /\ i < Len(T)
  BY <1>1, <1>2, <1>4, <1>5 DEF token
<1>6. CASE ~ (i < MAX_NMEA_TOKENS /\ i < Len(T))
  <2>1. token.p = 0 /\ token.end = 0
    BY <1>1, <1>6
  <2>2. Text(s, token) = <<>>
    BY <1>3, <1>4, <2>1
  <2>3. (IF i < MAX_NMEA_TOKENS THEN Field(s, i) ELSE <<>>) = <<>>
    BY <1>2, <1>6
  <2> QED BY <2>2, <2>3 DEF token
<1> QED BY <1>5, <1>6

-----------------------------------------------------------------------------
(* Sentences: where their fields are. *)

Plain == Digit \cup {LETTER}
Payload == Plain \cup {COMMA}
Parts(fields) == [i \in 1 .. Len(fields) |-> <<COMMA>> \o fields[i]]

(* A field and the comma in front of it. *)
PartOf(part, field) ==
  /\ part \in Seq(Payload) /\ Len(field) \in Nat /\ Len(part) = 1 + Len(field)
  /\ part[1] = COMMA
  /\ \A j \in 1 .. Len(field) : part[1 + j] = field[j]

(* at[i]: how long the first i fields are, with their commas. *)
Laid(chars, fields, n, at) ==
  /\ chars \in Seq(Payload) /\ Len(chars) = at[n]
  /\ at \in [0 .. n -> Nat] /\ at[0] = 0
  /\ \A i \in 1 .. n :
       /\ at[i] = at[i - 1] + 1 + Len(fields[i])
       /\ at[i] <= at[n]
       /\ Len(fields[i]) \in Nat
       /\ chars[at[i - 1] + 1] = COMMA
       /\ \A j \in 1 .. Len(fields[i]) : chars[at[i - 1] + 1 + j] = fields[i][j]

(* What a field is with its comma. *)
LEMMA PartFacts ==
  ASSUME NEW fields \in Seq(Seq(Plain)), NEW i \in 1 .. Len(fields)
  PROVE  PartOf(Parts(fields)[i], fields[i])
<1> DEFINE field == fields[i]
<1>1. Plain \subseteq Payload /\ COMMA \in Payload
  BY DEF Payload
<1>2. field \in Seq(Plain)
  BY ElementOfSeq
<1> HIDE DEF field
<1>3. field \in Seq(Payload) /\ Len(field) \in Nat
  BY <1>1, <1>2, SeqMonotonic, LenProperties
<1>4. <<COMMA>> \in Seq(Payload) /\ Len(<<COMMA>>) = 1 /\ <<COMMA>>[1] = COMMA
  BY <1>1
<1> DEFINE part == <<COMMA>> \o field
<1>5. /\ part \in Seq(Payload)
      /\ Len(part) = Len(<<COMMA>>) + Len(field)
      /\ \A j \in 1 .. Len(<<COMMA>>) + Len(field) :
           part[j] = IF j <= Len(<<COMMA>>) THEN <<COMMA>>[j] ELSE field[j - Len(<<COMMA>>)]
  BY <1>3, <1>4, ConcatProperties, Zenon
<1> HIDE DEF part
<1>6. /\ Len(part) = 1 + Len(field) /\ part[1] = COMMA
      /\ \A j \in 1 .. Len(field) : part[1 + j] = field[j]
  BY <1>3, <1>4, <1>5
<1>7. Parts(fields)[i] = part
  BY DEF Parts, part, field
<1> QED BY <1>3, <1>5, <1>6, <1>7 DEF field, PartOf

(* FlattenSeq joins the sequences one after the other. *)
LEMMA FlattenUnfold ==
  ASSUME NEW seqs, NEW m \in Nat \ {0}, Len(seqs) = m
  PROVE  \E f : /\ FlattenSeq(seqs) = f[m]
                /\ \A i \in 1 .. m : f[i] = IF i = 1 THEN seqs[i] ELSE f[i - 1] \o seqs[i]
<1> DEFINE G(f, i) == IF i = 1 THEN seqs[i] ELSE f[i - 1] \o seqs[i]
           F(f) == [i \in 1 .. m |-> G(f, i)]
           t == CHOOSE f : f = F(f)
           S == {n \in Nat : \E f : f = [i \in 1 .. n |-> G(f, i)]}
<1>1. 0 \in S
  <2> DEFINE f == [i \in 1 .. 0 |-> 0]
  <2>1. f = [i \in 1 .. 0 |-> G(f, i)]
    OBVIOUS
  <2> QED BY <2>1
<1>2. ASSUME NEW n \in Nat, n \in S
      PROVE  n + 1 \in S
  <2>1. PICK f : f = [i \in 1 .. n |-> G(f, i)]
    BY <1>2
  <2> DEFINE f2 == [i \in 1 .. n + 1 |-> G(f, i)]
  <2>2. \A i \in 1 .. n : f2[i] = f[i]
    <3>1. \A i \in 1 .. n : i \in 1 .. n + 1
      OBVIOUS
    <3>2. \A i \in 1 .. n : f[i] = G(f, i)
      BY <2>1
    <3>3. \A i \in 1 .. n + 1 : f2[i] = G(f, i)
      OBVIOUS
    <3> HIDE DEF f2, G
    <3> QED BY <3>1, <3>2, <3>3, Zenon
  <2>3. \A i \in 1 .. n + 1 : G(f2, i) = G(f, i)
    <3> HIDE DEF f2
    <3>1. ASSUME NEW i \in 1 .. n + 1, i # 1 PROVE f2[i - 1] = f[i - 1]
      <4>1. i - 1 \in 1 .. n
        BY <3>1
      <4> QED BY <2>2, <4>1
    <3> QED BY <3>1
  <2>4. f2 = [i \in 1 .. n + 1 |-> G(f2, i)]
    <3>1. \A h : (\A i \in 1 .. n + 1 : G(h, i) = G(f, i)) => [i \in 1 .. n + 1 |-> G(h, i)] = [i \in 1 .. n + 1 |-> G(f, i)]
      <4> HIDE DEF G
      <4> QED OBVIOUS
    <3> HIDE DEF G
    <3> QED BY <2>3, <3>1, Zenon
  <2> HIDE DEF f2, G
  <2>5. n + 1 \in Nat
    OBVIOUS
  <2> QED BY <2>4, <2>5, Zenon
<1>3. m \in S
  <2> HIDE DEF S
  <2> QED BY <1>1, <1>2, SetInduction
<1>4. t = F(t)
  <2>1. \E f : f = F(f)
    BY <1>3
  <2> QED BY <2>1
<1>5. FlattenSeq(seqs) = t[m]
  BY DEF FlattenSeq
<1> HIDE DEF t
<1>6. \A i \in 1 .. m : t[i] = G(t, i)
  BY <1>4
<1> QED BY <1>5, <1>6

(* What a concatenation is made of. *)
LEMMA Joined ==
  ASSUME NEW S, NEW t, NEW u, t \in Seq(S), u \in Seq(S)
  PROVE  /\ t \o u \in Seq(S)
         /\ Len(t \o u) = Len(t) + Len(u)
         /\ \A j \in 1 .. Len(t) : (t \o u)[j] = t[j]
         /\ \A j \in 1 .. Len(u) : (t \o u)[Len(t) + j] = u[j]
<1> DEFINE tu == t \o u
           a == Len(t)
           b == Len(u)
<1>1. /\ tu \in Seq(S) /\ Len(tu) = a + b
      /\ \A j \in 1 .. a + b : tu[j] = IF j <= a THEN t[j] ELSE u[j - a]
  BY ConcatProperties
<1>2. a \in Nat /\ b \in Nat
  BY LenProperties
<1> HIDE DEF tu, a, b
<1>3. \A j \in 1 .. b : tu[a + j] = u[j]
  <2> SUFFICES ASSUME NEW j \in 1 .. b PROVE tu[a + j] = u[j]
    OBVIOUS
  <2>1. a + j \in 1 .. a + b /\ ~ (a + j <= a) /\ (a + j) - a = j
    BY <1>2
  <2> QED BY <1>1, <2>1, Zenon
<1>4. \A j \in 1 .. a : j \in 1 .. a + b /\ j <= a
  BY <1>2
<1>5. \A j \in 1 .. a : tu[j] = t[j]
  BY <1>1, <1>4, Zenon
<1> QED BY <1>1, <1>3, <1>5, Zenon DEF tu, a, b

(* One field more behind those that are joined. *)
LEMMA LongerPlaces ==
  ASSUME NEW fields, NEW n \in Nat, NEW at, NEW front, Laid(front, fields, n, at),
         NEW back, PartOf(back, fields[n + 1])
  PROVE  \E at2 : Laid(front \o back, fields, n + 1, at2)
<1> DEFINE both == front \o back
           field == fields[n + 1]
           at2 == [i \in 0 .. n + 1 |-> IF i = n + 1 THEN at[n] + 1 + Len(field) ELSE at[i]]
<1>1. front \in Seq(Payload) /\ Len(front) = at[n] /\ at \in [0 .. n -> Nat] /\ at[0] = 0
  BY DEF Laid
<1>2. at[n] \in Nat /\ \A i \in 0 .. n : at[i] \in Nat
  BY <1>1
<1>b. /\ back \in Seq(Payload) /\ Len(field) \in Nat /\ Len(back) = 1 + Len(field)
      /\ back[1] = COMMA
  BY DEF PartOf
<1>c. \A j \in 1 .. Len(field) : back[1 + j] = field[j]
  BY DEF PartOf
<1>d. field = fields[n + 1]
  OBVIOUS
<1> HIDE DEF field
<1>3. 1 + Len(field) \in Nat
  BY <1>b
<1>4. /\ both \in Seq(Payload) /\ Len(both) = at[n] + (1 + Len(field))
      /\ \A j \in 1 .. at[n] : both[j] = front[j]
      /\ \A j \in 1 .. 1 + Len(field) : both[at[n] + j] = back[j]
  <2>1. /\ front \o back \in Seq(Payload)
        /\ Len(front \o back) = Len(front) + Len(back)
        /\ \A j \in 1 .. Len(front) : (front \o back)[j] = front[j]
        /\ \A j \in 1 .. Len(back) : (front \o back)[Len(front) + j] = back[j]
    <3>1. front \in Seq(Payload)
      BY <1>1
    <3>2. back \in Seq(Payload)
      BY <1>b
    <3> QED BY <3>1, <3>2, Joined
  <2>2. Len(front) = at[n] /\ Len(back) = 1 + Len(field)
    BY <1>1, <1>b
  <2> QED BY <2>1, <2>2, Zenon
<1> HIDE DEF both
<1>5. /\ at2 \in [0 .. n + 1 -> Nat]
      /\ at2[n + 1] = at[n] + 1 + Len(field)
      /\ \A i \in 0 .. n : at2[i] = at[i]
  BY <1>1, <1>2, <1>b
<1> HIDE DEF at2
<1>6. ASSUME NEW i \in 1 .. n
      PROVE  /\ at2[i] = at2[i - 1] + 1 + Len(fields[i])
             /\ at2[i] <= at2[n + 1]
             /\ Len(fields[i]) \in Nat
             /\ both[at2[i - 1] + 1] = COMMA
             /\ \A j \in 1 .. Len(fields[i]) : both[at2[i - 1] + 1 + j] = fields[i][j]
  <2>1. /\ at[i] = at[i - 1] + 1 + Len(fields[i]) /\ at[i] <= at[n]
        /\ front[at[i - 1] + 1] = COMMA
        /\ \A j \in 1 .. Len(fields[i]) : front[at[i - 1] + 1 + j] = fields[i][j]
    BY DEF Laid
  <2>2. i \in 0 .. n /\ i - 1 \in 0 .. n
    OBVIOUS
  <2>3. at2[i] = at[i] /\ at2[i - 1] = at[i - 1] /\ at[i] \in Nat /\ at[i - 1] \in Nat
    BY <1>2, <1>5, <2>2
  <2>4. at[i] <= at2[n + 1]
    BY <1>2, <1>5, <1>b, <2>1, <2>3
  <2>5. Len(fields[i]) \in Nat
    BY DEF Laid
  <2>6. QED
    <3>0. at[n] \in Nat /\ at[i - 1] + 1 + Len(fields[i]) <= at[n]
      BY <1>2, <2>1, Zenon
    <3>1. at[i - 1] + 1 \in 1 .. at[n]
      BY <2>3, <2>5, <3>0
    <3>2. \A j \in 1 .. Len(fields[i]) : at[i - 1] + 1 + j \in 1 .. at[n]
      <4> DEFINE a == at[i - 1]
                 l == Len(fields[i])
                 d == at[n]
      <4>1. a \in Nat /\ l \in Nat /\ d \in Nat /\ a + 1 + l <= d
        BY <2>3, <2>5, <3>0, Zenon
      <4> HIDE DEF a, l, d
      <4>2. \A j \in 1 .. l : a + 1 + j \in 1 .. d
        BY <4>1
      <4> QED BY <4>2 DEF a, l, d
    <3> QED BY <1>4, <2>1, <2>3, <2>4, <2>5, <3>1, <3>2
<1>7. /\ both[at[n] + 1] = COMMA
      /\ \A j \in 1 .. Len(field) : both[at[n] + 1 + j] = field[j]
  <2>1. 1 \in 1 .. 1 + Len(field)
    BY <1>b
  <2>2. ASSUME NEW j \in 1 .. Len(field)
        PROVE  both[at[n] + 1 + j] = field[j]
    <3>0. at[n] \in Nat
      BY <1>2
    <3>1. 1 + j \in 1 .. 1 + Len(field) /\ at[n] + (1 + j) = at[n] + 1 + j
      BY <1>b, <3>0
    <3>2. both[at[n] + (1 + j)] = back[1 + j]
      BY <1>4, <3>1
    <3> QED BY <1>c, <3>1, <3>2
  <2> QED BY <1>b, <1>4, <2>1, <2>2
<1>8. ASSUME NEW i \in 1 .. n + 1
      PROVE  /\ at2[i] = at2[i - 1] + 1 + Len(fields[i])
             /\ at2[i] <= at2[n + 1]
             /\ Len(fields[i]) \in Nat
             /\ both[at2[i - 1] + 1] = COMMA
             /\ \A j \in 1 .. Len(fields[i]) : both[at2[i - 1] + 1 + j] = fields[i][j]
  <2>1. CASE i = n + 1
    <3>1. i - 1 = n /\ n \in 0 .. n /\ at2[i - 1] = at[n] /\ at2[i] = at[n] + 1 + Len(field) /\ fields[i] = field
      BY <1>5, <1>d, <2>1
    <3>2. at2[n + 1] <= at2[n + 1]
      BY <1>2, <1>b, <1>5
    <3> QED BY <1>b, <1>7, <2>1, <3>1, <3>2
  <2>2. CASE i # n + 1
    <3>1. i \in 1 .. n
      BY <2>2
    <3> QED BY <1>6, <3>1, Zenon
  <2> QED BY <2>1, <2>2
<1>9. at2[0] = 0 /\ Len(both) = at2[n + 1]
  BY <1>1, <1>2, <1>b, <1>4, <1>5
<1>10. Laid(both, fields, n + 1, at2)
  BY <1>4, <1>5, <1>8, <1>9 DEF Laid
<1> QED BY <1>10 DEF both

(* Where each field stands once all are joined. *)
LEMMA FlattenPlaces ==
  ASSUME NEW fields \in Seq(Seq(Plain)), fields # <<>>
  PROVE  \E at : Laid(FlattenSeq(Parts(fields)), fields, Len(fields), at)
<1> DEFINE m == Len(fields)
           seqs == Parts(fields)
<1>1. m \in Nat \ {0}
  BY EmptySeq
<1>2. Len(seqs) = m
  BY <1>1 DEF Parts
<1>3. \A i \in 1 .. m : PartOf(seqs[i], fields[i])
  BY PartFacts
<1> HIDE DEF m, seqs
<1>4. PICK f : /\ FlattenSeq(seqs) = f[m]
               /\ \A i \in 1 .. m : f[i] = IF i = 1 THEN seqs[i] ELSE f[i - 1] \o seqs[i]
  BY <1>1, <1>2, FlattenUnfold
<1> DEFINE S == {n \in Nat : n \in 1 .. m => \E at : Laid(f[n], fields, n, at)}
<1>5. 0 \in S
  OBVIOUS
<1>6. ASSUME NEW n \in Nat, n \in S, n + 1 \in 1 .. m
      PROVE  \E at : Laid(f[n + 1], fields, n + 1, at)
  <2>1. PartOf(seqs[n + 1], fields[n + 1])
    BY <1>3, <1>6
  <2>2. CASE n = 0
    <3> DEFINE at == [i \in 0 .. 0 |-> 0]
    <3>1. Laid(<<>>, fields, 0, at)
      BY DEF Laid
    <3>2. f[n + 1] = seqs[n + 1] /\ n + 1 = 0 + 1
      BY <1>4, <1>6, <2>2
    <3>3. <<>> \o seqs[n + 1] = seqs[n + 1]
      BY <2>1, ConcatEmptySeq DEF PartOf
    <3> HIDE DEF at
    <3>4. \E at2 : Laid(<<>> \o seqs[n + 1], fields, 0 + 1, at2)
      <4>1. PartOf(seqs[n + 1], fields[0 + 1])
        BY <2>1, <2>2
      <4> QED BY <3>1, <4>1, LongerPlaces
    <3> QED BY <3>2, <3>3, <3>4
  <2>3. CASE n # 0
    <3>1. n \in 1 .. m /\ n + 1 # 1 /\ (n + 1) - 1 = n
      BY <1>1, <1>6, <2>3
    <3>2. PICK at : Laid(f[n], fields, n, at)
      BY <1>6, <3>1
    <3>3. f[n + 1] = f[n] \o seqs[n + 1]
      BY <1>4, <1>6, <3>1
    <3>4. \E at2 : Laid(f[n] \o seqs[n + 1], fields, n + 1, at2)
      BY <2>1, <3>2, LongerPlaces
    <3> QED BY <3>3, <3>4
  <2> QED BY <2>2, <2>3
<1>7. m \in S
  <2>1. ASSUME NEW n \in Nat, n \in S PROVE n + 1 \in S
    <3>1. CASE n + 1 \in 1 .. m
      <4>1. \E at : Laid(f[n + 1], fields, n + 1, at)
        BY <1>6, <2>1, <3>1
      <4> QED BY <4>1
    <3> QED BY <3>1
  <2> HIDE DEF S
  <2> QED BY <1>1, <1>5, <2>1, SetInduction
<1>8. \E at : Laid(f[m], fields, m, at)
  BY <1>1, <1>7
<1> QED BY <1>4, <1>8 DEF m, seqs

(* c[i]: the place of the comma in front of field i; c[m + 1]: that of the star. *)
Columns(s, fields, m, c) ==
  /\ m = Len(fields) /\ m \in Nat \ {0}
  /\ c \in [1 .. m + 1 -> Nat] /\ c[1] = 7
  /\ \A i \in 1 .. m :
       /\ Len(fields[i]) \in Nat
       /\ c[i + 1] = c[i] + 1 + Len(fields[i])
       /\ s[c[i]] = COMMA
       /\ \A j \in 1 .. Len(fields[i]) : s[c[i] + j] = fields[i][j] /\ fields[i][j] \in Plain
  /\ s \in Seq(Character) /\ Len(s) = c[m + 1] + 4
  /\ s[1] = DOLLAR
  /\ \A k \in 2 .. 6 : s[k] = LETTER
  /\ \A k \in 7 .. c[m + 1] - 1 : s[k] \in Payload
  /\ s[c[m + 1]] = STAR /\ s[c[m + 1] + 1] = 0 /\ s[c[m + 1] + 2] = 0
  /\ s[c[m + 1] + 3] = CR /\ s[c[m + 1] + 4] = NL

PlainFields(fields) == fields \in Seq(Seq(Plain)) /\ fields # <<>>

(* Every sentence has its fields in columns. *)
LEMMA LineColumns ==
  ASSUME NEW fields, PlainFields(fields)
  PROVE  \E c : Columns(Line(fields), fields, Len(fields), c)
<1> DEFINE m == Len(fields)
           F == FlattenSeq(Parts(fields))
           A == <<DOLLAR, LETTER, LETTER, LETTER, LETTER, LETTER>>
           B == <<STAR, 0, 0, CR, NL>>
           AF == A \o F
           s == AF \o B
<1>1. m \in Nat \ {0}
  BY EmptySeq DEF PlainFields
<1>2. PICK at : Laid(F, fields, m, at)
  BY FlattenPlaces DEF PlainFields
<1>3. /\ A \in Seq(Character) /\ Len(A) = 6 /\ A[1] = DOLLAR /\ \A k \in 2 .. 6 : A[k] = LETTER
  BY DEF Character, DOLLAR, LETTER
<1>4. /\ B \in Seq(Character) /\ Len(B) = 5
      /\ B[1] = STAR /\ B[2] = 0 /\ B[3] = 0 /\ B[4] = CR /\ B[5] = NL
  BY DEF Character, STAR, CR, NL
<1>5. Payload \subseteq Character
  BY DEF Payload, Plain, Digit, LETTER, COMMA, Character
<1>6. F \in Seq(Payload) /\ Len(F) = at[m] /\ at \in [0 .. m -> Nat] /\ at[0] = 0
  BY <1>2 DEF Laid
<1>7. F \in Seq(Character)
  BY <1>5, <1>6, SeqMonotonic
<1>8. Line(fields) = s
  BY DEF Line, Parts
<1> HIDE DEF m, F, A, B, AF, s
<1>9. /\ AF \in Seq(Character) /\ Len(AF) = Len(A) + Len(F)
      /\ \A j \in 1 .. Len(A) : AF[j] = A[j]
      /\ \A j \in 1 .. Len(F) : AF[Len(A) + j] = F[j]
  <2>1. A \in Seq(Character)
    BY <1>3
  <2> QED BY <1>7, <2>1, Joined DEF AF
<1>10. /\ s \in Seq(Character) /\ Len(s) = Len(AF) + Len(B)
       /\ \A j \in 1 .. Len(AF) : s[j] = AF[j]
       /\ \A j \in 1 .. Len(B) : s[Len(AF) + j] = B[j]
  <2>1. B \in Seq(Character) /\ AF \in Seq(Character)
    BY <1>4, <1>9
  <2> QED BY <2>1, Joined DEF s
<1>11. at[m] \in Nat
  BY <1>1, <1>6
<1>12. Len(AF) = 6 + at[m] /\ Len(A) = 6 /\ Len(F) = at[m] /\ Len(B) = 5
  BY <1>3, <1>4, <1>6, <1>9
<1>13. /\ \A j \in 1 .. 6 : AF[j] = A[j]
       /\ \A j \in 1 .. at[m] : AF[6 + j] = F[j]
  BY <1>9, <1>12, Zenon
<1>14. /\ \A j \in 1 .. 6 + at[m] : s[j] = AF[j]
       /\ \A j \in 1 .. 5 : s[6 + at[m] + j] = B[j]
  BY <1>10, <1>12, Zenon
<1>15. \A k \in 1 .. at[m] : s[6 + k] = F[k]
  <2> SUFFICES ASSUME NEW k \in 1 .. at[m] PROVE s[6 + k] = F[k]
    OBVIOUS
  <2>1. 6 + k \in 1 .. 6 + at[m]
    BY <1>11
  <2> QED BY <1>13, <1>14, <2>1
<1>16. s[1] = DOLLAR /\ \A k \in 2 .. 6 : s[k] = LETTER
  <2>1. \A k \in 1 .. 6 : s[k] = A[k]
    <3>1. \A k \in 1 .. 6 : k \in 1 .. 6 + at[m]
      BY <1>11
    <3> QED BY <1>13, <1>14, <3>1, Zenon
  <2>2. 1 \in 1 .. 6 /\ \A k \in 2 .. 6 : k \in 1 .. 6
    OBVIOUS
  <2> QED BY <1>3, <2>1, <2>2, Zenon
<1> DEFINE c == [i \in 1 .. m + 1 |-> 7 + at[i - 1]]
<1>17. \A i \in 0 .. m : at[i] \in Nat
  BY <1>6
<1>18. c \in [1 .. m + 1 -> Nat] /\ \A i \in 1 .. m + 1 : c[i] = 7 + at[i - 1]
  <2>1. \A i \in 1 .. m + 1 : i - 1 \in 0 .. m
    BY <1>1
  <2> QED BY <1>17, <2>1
<1> HIDE DEF c
<1>19. c[1] = 7 /\ c[m + 1] = 7 + at[m]
  <2>1. 1 \in 1 .. m + 1 /\ m + 1 \in 1 .. m + 1 /\ 1 - 1 = 0 /\ (m + 1) - 1 = m
    BY <1>1
  <2>2. c[1] = 7 + at[0] /\ c[m + 1] = 7 + at[m]
    BY <1>18, <2>1
  <2> QED BY <1>6, <2>2
<1>20. ASSUME NEW i \in 1 .. m
       PROVE  /\ Len(fields[i]) \in Nat
              /\ c[i + 1] = c[i] + 1 + Len(fields[i])
              /\ s[c[i]] = COMMA
              /\ \A j \in 1 .. Len(fields[i]) : s[c[i] + j] = fields[i][j] /\ fields[i][j] \in Plain
  <2>1. /\ at[i] = at[i - 1] + 1 + Len(fields[i]) /\ at[i] <= at[m]
        /\ Len(fields[i]) \in Nat
        /\ F[at[i - 1] + 1] = COMMA
        /\ \A j \in 1 .. Len(fields[i]) : F[at[i - 1] + 1 + j] = fields[i][j]
    BY <1>2 DEF Laid
  <2>2. i \in 0 .. m /\ i - 1 \in 0 .. m /\ i \in 1 .. m + 1 /\ i + 1 \in 1 .. m + 1 /\ (i + 1) - 1 = i
    BY <1>1
  <2>3. at[i] \in Nat /\ at[i - 1] \in Nat
    BY <1>17, <2>2
  <2>4. c[i] = 7 + at[i - 1] /\ c[i + 1] = 7 + at[i]
    BY <1>18, <2>2
  <2>a. /\ at[m] \in Nat /\ at[i - 1] \in Nat /\ Len(fields[i]) \in Nat
        /\ at[i - 1] + 1 + Len(fields[i]) <= at[m] /\ c[i] = 7 + at[i - 1]
    BY <1>11, <2>1, <2>3, <2>4, Zenon
  <2>5. s[c[i]] = COMMA
    <3>1. at[i - 1] + 1 \in 1 .. at[m] /\ 6 + (at[i - 1] + 1) = c[i]
      BY <2>a
    <3> QED BY <1>15, <2>1, <3>1
  <2>6. ASSUME NEW j \in 1 .. Len(fields[i]) PROVE s[c[i] + j] = fields[i][j]
    <3>1. at[i - 1] + 1 + j \in 1 .. at[m] /\ 6 + (at[i - 1] + 1 + j) = c[i] + j
      <4> DEFINE a == at[i - 1]
                 l == Len(fields[i])
      <4>1. a \in Nat /\ l \in Nat /\ at[m] \in Nat /\ a + 1 + l <= at[m] /\ j \in 1 .. l /\ c[i] = 7 + a
        BY <2>a, Zenon
      <4> HIDE DEF a, l
      <4>2. a + 1 + j \in 1 .. at[m]
        BY <4>1
      <4>3. 6 + (a + 1 + j) = c[i] + j
        BY <4>1
      <4> QED BY <4>2, <4>3 DEF a
    <3> QED BY <1>15, <2>1, <3>1
  <2>7. \A j \in 1 .. Len(fields[i]) : fields[i][j] \in Plain
    <3>1. fields[i] \in Seq(Plain)
      BY ElementOfSeq DEF PlainFields, m
    <3> QED BY <3>1, ElementOfSeq
  <2>8. c[i + 1] = c[i] + 1 + Len(fields[i])
    <3> DEFINE a == at[i - 1]
               l == Len(fields[i])
    <3>1. a \in Nat /\ l \in Nat /\ c[i] = 7 + a /\ c[i + 1] = 7 + (a + 1 + l)
      BY <2>a, <2>1, <2>4, Zenon
    <3> HIDE DEF a, l
    <3>2. c[i + 1] = c[i] + 1 + l
      BY <3>1
    <3> QED BY <3>2 DEF l
  <2>9. Len(fields[i]) \in Nat
    BY <2>1
  <2>10. \A j \in 1 .. Len(fields[i]) : s[c[i] + j] = fields[i][j] /\ fields[i][j] \in Plain
    BY <2>6, <2>7, Zenon
  <2> QED BY <2>5, <2>8, <2>9, <2>10, Zenon
<1>21. \A k \in 7 .. c[m + 1] - 1 : s[k] \in Payload
  <2> SUFFICES ASSUME NEW k \in 7 .. c[m + 1] - 1 PROVE s[k] \in Payload
    OBVIOUS
  <2>1. k - 6 \in 1 .. at[m] /\ 6 + (k - 6) = k
    BY <1>11, <1>19
  <2>2. s[k] = F[k - 6]
    <3>1. s[6 + (k - 6)] = F[k - 6]
      BY <1>15, <2>1
    <3> QED BY <2>1, <3>1
  <2>3. F[k - 6] \in Payload
    BY <1>6, <2>1, ElementOfSeq
  <2> QED BY <2>2, <2>3
<1>22. /\ s[c[m + 1]] = STAR /\ s[c[m + 1] + 1] = 0 /\ s[c[m + 1] + 2] = 0
       /\ s[c[m + 1] + 3] = CR /\ s[c[m + 1] + 4] = NL
       /\ Len(s) = c[m + 1] + 4
  <2>1. /\ 6 + at[m] + 1 = c[m + 1] /\ 6 + at[m] + 2 = c[m + 1] + 1
        /\ 6 + at[m] + 3 = c[m + 1] + 2 /\ 6 + at[m] + 4 = c[m + 1] + 3
        /\ 6 + at[m] + 5 = c[m + 1] + 4
    BY <1>11, <1>19
  <2>2. 1 \in 1 .. 5 /\ 2 \in 1 .. 5 /\ 3 \in 1 .. 5 /\ 4 \in 1 .. 5 /\ 5 \in 1 .. 5
    OBVIOUS
  <2>3. \A j \in 1 .. 5 : s[6 + at[m] + j] = B[j]
    BY <1>14
  <2>4. /\ s[6 + at[m] + 1] = B[1] /\ s[6 + at[m] + 2] = B[2] /\ s[6 + at[m] + 3] = B[3]
        /\ s[6 + at[m] + 4] = B[4] /\ s[6 + at[m] + 5] = B[5]
    BY <2>2, <2>3, Zenon
  <2>5. Len(s) = 6 + at[m] + 5
    BY <1>10, <1>12
  <2> QED BY <1>4, <2>1, <2>4, <2>5
<1>23. m = Len(fields)
  BY DEF m
<1>24. s \in Seq(Character)
  BY <1>10
<1>25. Columns(s, fields, m, c)
  BY <1>1, <1>16, <1>18, <1>19, <1>20, <1>21, <1>22, <1>23, <1>24 DEF Columns
<1> QED BY <1>8, <1>23, <1>25

(* The commas stand in the order of the fields. *)
LEMMA ColumnsRise ==
  ASSUME NEW s, NEW fields, NEW m, NEW c, Columns(s, fields, m, c)
  PROVE  /\ \A i \in 1 .. m + 1 : c[i] \in Nat /\ c[i] >= 6 + i
         /\ \A i, j \in 1 .. m + 1 : i <= j => c[i] <= c[j]
<1>1. m \in Nat \ {0} /\ c[1] = 7
  BY DEF Columns
<1>2. \A i \in 1 .. m + 1 : c[i] \in Nat
  BY DEF Columns
<1>3. ASSUME NEW i \in 1 .. m PROVE c[i + 1] >= c[i] + 1
  <2>1. c[i + 1] = c[i] + 1 + Len(fields[i]) /\ Len(fields[i]) \in Nat
    BY DEF Columns
  <2>2. i \in 1 .. m + 1
    BY <1>1
  <2> QED BY <1>2, <2>1, <2>2
<1> DEFINE S == {d \in Nat : \A i \in 1 .. m + 1 : i + d <= m + 1 => c[i + d] >= c[i] + d}
<1>4. 0 \in S
  BY <1>2
<1>5. ASSUME NEW d \in Nat, d \in S
      PROVE  d + 1 \in S
  <2> SUFFICES ASSUME NEW i \in 1 .. m + 1, i + (d + 1) <= m + 1
               PROVE  c[i + (d + 1)] >= c[i] + (d + 1)
    OBVIOUS
  <2>1. i + d \in 1 .. m /\ i + d <= m + 1 /\ (i + d) + 1 = i + (d + 1)
    BY <1>1
  <2>2. c[i + d] >= c[i] + d
    BY <1>5, <2>1
  <2>3. c[(i + d) + 1] >= c[i + d] + 1
    BY <1>3, <2>1
  <2>4. c[i] \in Nat /\ c[i + d] \in Nat /\ c[i + (d + 1)] \in Nat
    <3>1. i + d \in 1 .. m + 1 /\ i + (d + 1) \in 1 .. m + 1
      BY <1>1, <2>1
    <3> QED BY <1>2, <3>1
  <2>5. c[i + (d + 1)] >= c[i + d] + 1
    BY <2>1, <2>3
  <2> QED BY <2>2, <2>4, <2>5
<1>6. Nat \subseteq S
  <2> HIDE DEF S
  <2> QED BY <1>4, <1>5, SetInduction
<1>7. ASSUME NEW i \in 1 .. m + 1, NEW j \in 1 .. m + 1, i <= j
      PROVE  c[j] >= c[i] + (j - i)
  <2>1. j - i \in Nat /\ i + (j - i) = j /\ j <= m + 1
    BY <1>1, <1>7
  <2>2. j - i \in S
    BY <1>6, <2>1
  <2>3. c[i + (j - i)] >= c[i] + (j - i)
    BY <2>1, <2>2
  <2> QED BY <2>1, <2>3
<1>8. ASSUME NEW i \in 1 .. m + 1 PROVE c[i] >= 6 + i
  <2>1. 1 \in 1 .. m + 1 /\ 1 <= i
    BY <1>1
  <2>2. c[i] >= c[1] + (i - 1)
    BY <1>7, <2>1
  <2> QED BY <1>1, <1>2, <2>2
<1>9. ASSUME NEW i \in 1 .. m + 1, NEW j \in 1 .. m + 1, i <= j PROVE c[i] <= c[j]
  <2>1. c[j] >= c[i] + (j - i) /\ c[i] \in Nat /\ c[j] \in Nat /\ i \in Int /\ j \in Int
    BY <1>1, <1>2, <1>7, <1>9
  <2> QED BY <1>9, <2>1
<1> QED BY <1>2, <1>8, <1>9

(* Which character a place of the sentence holds. *)
LEMMA LineCharacters ==
  ASSUME NEW s, NEW fields, NEW m, NEW c, Columns(s, fields, m, c)
  PROVE  LET star == c[m + 1]
         IN  /\ star \in Nat /\ star >= 7 + m /\ m \in Nat \ {0}
             /\ Len(s) = star + 4
             /\ s[1] = DOLLAR
             /\ \A k \in 2 .. star - 1 : s[k] \in Payload
             /\ s[star] = STAR
             /\ \A k \in 2 .. star + 2 : s[k] \notin {DOLLAR, CR, NL} /\ (s[k] = STAR => k = star)
             /\ s[star + 3] = CR /\ s[star + 4] = NL
             /\ \A i \in 1 .. m : \A k \in c[i] + 1 .. c[i + 1] - 1 : s[k] \in Plain
             /\ \A k \in star .. star + 4 : s[k] # COMMA
<1> DEFINE star == c[m + 1]
<1>1. m \in Nat \ {0}
  BY DEF Columns
<1>2. star \in Nat /\ star >= 7 + m
  <2>1. m + 1 \in 1 .. m + 1
    BY <1>1
  <2>2. c[m + 1] \in Nat /\ c[m + 1] >= 6 + (m + 1)
    BY <2>1, ColumnsRise
  <2> QED BY <1>1, <2>2
<1>3. /\ s[1] = DOLLAR /\ Len(s) = star + 4
      /\ \A k \in 2 .. 6 : s[k] = LETTER
      /\ \A k \in 7 .. star - 1 : s[k] \in Payload
      /\ s[star] = STAR /\ s[star + 1] = 0 /\ s[star + 2] = 0
      /\ s[star + 3] = CR /\ s[star + 4] = NL
  BY DEF Columns
<1> HIDE DEF star
<1>4. /\ LETTER \in Payload /\ DOLLAR \notin Payload /\ CR \notin Payload /\ NL \notin Payload
      /\ STAR \notin Payload /\ 0 \in Payload
      /\ STAR \notin {DOLLAR, CR, NL} /\ COMMA \notin {STAR, 0, CR, NL}
  BY DEF Payload, Plain, Digit, LETTER, DOLLAR, CR, NL, STAR, COMMA
<1>5. \A k \in 2 .. star - 1 : s[k] \in Payload
  <2> SUFFICES ASSUME NEW k \in 2 .. star - 1 PROVE s[k] \in Payload
    OBVIOUS
  <2>1. k \in 2 .. 6 \/ k \in 7 .. star - 1
    BY <1>2
  <2> QED BY <1>3, <1>4, <2>1, Zenon
<1>6. ASSUME NEW k \in 2 .. star + 2
      PROVE  s[k] \notin {DOLLAR, CR, NL} /\ (s[k] = STAR => k = star)
  <2>1. k \in 2 .. star - 1 \/ k = star \/ k = star + 1 \/ k = star + 2
    BY <1>2
  <2>2. CASE k = star
    BY <1>3, <1>4, <2>2
  <2>3. CASE k # star
    <3>1. s[k] \in Payload
      BY <1>3, <1>4, <1>5, <2>1, <2>3
    <3> QED BY <1>4, <3>1
  <2> QED BY <2>2, <2>3
<1>7. ASSUME NEW i \in 1 .. m, NEW k \in c[i] + 1 .. c[i + 1] - 1
      PROVE  s[k] \in Plain
  <2>1. /\ Len(fields[i]) \in Nat /\ c[i + 1] = c[i] + 1 + Len(fields[i])
        /\ \A j \in 1 .. Len(fields[i]) : s[c[i] + j] = fields[i][j] /\ fields[i][j] \in Plain
    BY DEF Columns
  <2>2. c[i] \in Nat
    <3>1. i \in 1 .. m + 1
      BY <1>1
    <3> QED BY <3>1, ColumnsRise
  <2>3. k - c[i] \in 1 .. Len(fields[i]) /\ c[i] + (k - c[i]) = k
    BY <2>1, <2>2
  <2>4. s[c[i] + (k - c[i])] \in Plain
    BY <2>1, <2>3
  <2> QED BY <2>3, <2>4
<1>8. ASSUME NEW k \in star .. star + 4 PROVE s[k] # COMMA
  <2>1. k = star \/ k = star + 1 \/ k = star + 2 \/ k = star + 3 \/ k = star + 4
    BY <1>2
  <2> QED BY <1>3, <1>4, <2>1
<1> QED BY <1>1, <1>2, <1>3, <1>5, <1>6, <1>7, <1>8 DEF star

-----------------------------------------------------------------------------
(* What is left of a sentence that may have been cut: the characters up to
   End are its own. *)
LEMMA ReceivedFacts ==
  ASSUME NEW L, NEW fields, NEW m, NEW c, Columns(L, fields, m, c), m >= 2,
         NEW s, s \in {L} \cup CutShort(L)
  PROVE  LET star == c[m + 1]
             e == End(s)
         IN  /\ s \in Seq(Character) /\ Begin(s) = 2
             /\ e \in 9 .. star + 2 /\ \A k \in 1 .. e - 1 : s[k] = L[k]
             /\ Sound(s) <=> s = L
             /\ s = L => e = star
             /\ e > star => ~ Sound(s) /\ \E k \in 1 .. Len(s) : s[k] = STAR
             /\ e <= star => WellFormed(s)
<1> DEFINE star == c[m + 1]
           e == End(s)
<1>1. /\ star \in Nat /\ star >= 9 /\ m \in Nat /\ Len(L) = star + 4
      /\ L[1] = DOLLAR
      /\ \A k \in 2 .. star - 1 : L[k] \in Payload
      /\ L[star] = STAR
      /\ \A k \in 2 .. star + 2 : L[k] \notin {DOLLAR, CR, NL} /\ (L[k] = STAR => k = star)
      /\ L[star + 3] = CR /\ L[star + 4] = NL
  <2>1. m \in Nat /\ star \in Nat /\ star >= 7 + m
    BY LineCharacters
  <2> HIDE DEF star
  <2>2. star >= 9
    BY <2>1
  <2>3. /\ Len(L) = star + 4
        /\ L[1] = DOLLAR
        /\ \A k \in 2 .. star - 1 : L[k] \in Payload
        /\ L[star] = STAR
        /\ \A k \in 2 .. star + 2 : L[k] \notin {DOLLAR, CR, NL} /\ (L[k] = STAR => k = star)
        /\ L[star + 3] = CR /\ L[star + 4] = NL
    BY LineCharacters DEF star
  <2> QED BY <2>1, <2>2, <2>3, Zenon
<1>2. L \in Seq(Character)
  BY DEF Columns
<1> HIDE DEF star
<1>3. \A t, k : IsPayload(t, k) <=> t[k] \notin {DOLLAR, CR, NL, COMMA} /\ \A j \in 1 .. k : t[j] # STAR
  BY DEF IsPayload
<1>4. /\ \A x \in Payload : x = COMMA \/ x \notin {DOLLAR, CR, NL, COMMA}
      /\ STAR \notin Payload /\ STAR # DOLLAR /\ CR # NL
  BY DEF Payload, Plain, Digit, LETTER, DOLLAR, CR, NL, STAR, COMMA
<1>5. ASSUME e \in 9 .. star, Begin(s) = 2, \A k \in 1 .. e - 1 : s[k] = L[k], Len(s) \in Nat, e <= Len(s),
             s[e] \in {STAR, NL}, s[e] = NL => e = Len(s)
      PROVE  WellFormed(s)
  <2> HIDE DEF e
  <2>1. ASSUME NEW k \in 2 .. Len(s), k < e PROVE s[k] = COMMA \/ IsPayload(s, k)
    <3>1. s[k] = L[k] /\ L[k] \in Payload
      <4>1. k \in 1 .. e - 1 /\ k \in 2 .. star - 1
        BY <1>1, <1>5, <2>1
      <4> QED BY <1>1, <1>5, <4>1
    <3>2. ASSUME NEW j \in 1 .. k PROVE s[j] # STAR
      <4>1. j \in 1 .. e - 1 /\ (j = 1 \/ j \in 2 .. star - 1)
        BY <1>1, <1>5, <2>1
      <4>2. s[j] = L[j]
        BY <1>5, <4>1
      <4> QED BY <1>1, <1>4, <4>1, <4>2
    <3> QED BY <1>3, <1>4, <3>1, <3>2
  <2>2. ASSUME NEW k \in 2 .. Len(s), ~ (k < e) PROVE ~ IsPayload(s, k)
    <3>1. e \in 1 .. k
      BY <1>1, <1>5, <2>2
    <3>2. CASE s[e] = STAR
      BY <1>3, <3>1, <3>2
    <3>3. CASE s[e] = NL
      <4>1. k = e
        BY <1>1, <1>5, <2>2, <3>3
      <4> QED BY <1>3, <3>3, <4>1
    <3> QED BY <1>5, <3>2, <3>3
  <2> QED BY <1>5, <2>1, <2>2 DEF WellFormed, e
<1>6. CASE s = L
  <2>1. s # <<>> /\ Begin(s) = 2 /\ Len(s) = star + 4 /\ Last(s) = NL
    <3>1. s # <<>>
      BY <1>1, <1>6
    <3> QED BY <1>1, <1>6, <3>1 DEF Begin, Last
  <2>2. LineEnd(s) = star + 3
    <3>1. s[Len(s) - 1] = CR
      BY <1>1, <1>6, <2>1
    <3> QED BY <1>1, <2>1, <3>1 DEF LineEnd
  <2>3. e = star
    BY <1>1, <1>6, <2>1, <2>2 DEF End
  <2>4. Sound(s)
    BY <1>1, <1>6, <2>1 DEF Sound
  <2>5. WellFormed(s)
    <3>1. e \in 9 .. star /\ (\A k \in 1 .. e - 1 : s[k] = L[k]) /\ Len(s) \in Nat /\ e <= Len(s)
      BY <1>1, <1>6, <2>1, <2>3
    <3>2. s[e] = STAR /\ s[e] # NL
      <4>1. STAR # NL
        BY DEF STAR, NL
      <4> QED BY <1>1, <1>6, <2>3, <4>1
    <3> QED BY <1>5, <2>1, <3>1, <3>2
  <2> HIDE DEF e
  <2>6. e \in 9 .. star + 2 /\ ~ (e > star) /\ \A k \in 1 .. e - 1 : s[k] = L[k]
    BY <1>1, <1>6, <2>3
  <2> QED BY <1>2, <1>6, <2>1, <2>3, <2>4, <2>5, <2>6 DEF e, star
<1>7. CASE s \in CutShort(L)
  <2>1. PICK n \in 8 .. star + 2 : s = SubSeq(L, 1, n) \o <<NL>>
    BY <1>1, <1>7 DEF CutShort
  <2> DEFINE front == SubSeq(L, 1, n)
  <2>2. /\ front \in Seq(Character) /\ Len(front) = n
        /\ \A k \in 1 .. n : front[k] = L[k]
    <3>1. \A k \in 1 .. n : L[k] \in Character
      <4>1. \A k \in 1 .. n : k \in 1 .. Len(L)
        BY <1>1
      <4> QED BY <1>2, <4>1, ElementOfSeq
    <3>2. /\ front \in Seq(Character) /\ Len(front) = IF 1 <= n THEN n - 1 + 1 ELSE 0
          /\ \A k \in 1 .. n - 1 + 1 : front[k] = L[1 + k - 1]
      BY <3>1, SubSeqProperties
    <3> HIDE DEF front
    <3> QED BY <1>1, <3>2
  <2>3. <<NL>> \in Seq(Character) /\ Len(<<NL>>) = 1 /\ <<NL>>[1] = NL
    BY DEF NL, Character
  <2> HIDE DEF front
  <2>4. /\ s \in Seq(Character) /\ Len(s) = Len(front) + Len(<<NL>>)
        /\ \A k \in 1 .. Len(front) : s[k] = front[k]
        /\ \A k \in 1 .. Len(<<NL>>) : s[Len(front) + k] = <<NL>>[k]
    <3>1. front \in Seq(Character) /\ <<NL>> \in Seq(Character)
      BY <2>2, <2>3
    <3> QED BY <2>1, <3>1, Joined DEF front
  <2>5. Len(s) = n + 1 /\ s[n + 1] = NL /\ \A k \in 1 .. n : s[k] = L[k]
    BY <2>2, <2>3, <2>4
  <2>6. s # <<>> /\ Begin(s) = 2 /\ Last(s) = NL
    <3>1. s # <<>>
      BY <2>5
    <3>2. s[1] = DOLLAR
      BY <1>1, <2>5
    <3> QED BY <2>5, <3>1, <3>2 DEF Begin, Last
  <2>7. s[n] \notin {CR, NL}
    <3>1. n \in 2 .. star + 2 /\ n \in 1 .. n
      BY <1>1
    <3> QED BY <1>1, <2>5, <3>1
  <2>8. ~ Sound(s) /\ s # L
    <3>1. Len(s) - 1 = n
      BY <2>5
    <3>2. ~ Sound(s)
      BY <2>7, <3>1 DEF Sound
    <3>3. CASE s = L
      <4>1. n = star + 3
        BY <1>1, <2>5, <3>3
      <4> QED BY <1>1, <4>1
    <3> QED BY <3>2, <3>3
  <2>9. LineEnd(s) = n + 1
    <3>1. Len(s) - 1 = n /\ Len(s) >= 2
      BY <2>5
    <3> QED BY <2>5, <2>6, <2>7, <3>1 DEF LineEnd
  <2>10. n - 2 \in 1 .. n /\ n - 2 \in 2 .. star + 2
    BY <1>1
  <2>11. e = IF n - 2 = star THEN star ELSE n + 1
    <3>1. s[n - 2] = STAR <=> n - 2 = star
      BY <1>1, <2>5, <2>10
    <3>2. e = IF s[n - 2] = STAR THEN n - 2 ELSE n + 1
      <4>1. n + 1 >= 2 + 3 /\ (n + 1) - 3 = n - 2
        OBVIOUS
      <4> QED BY <2>6, <2>9, <4>1 DEF End
    <3> QED BY <3>1, <3>2
  <2> HIDE DEF e
  <2>12. e \in 9 .. star + 2
    BY <1>1, <2>11
  <2>13. \A k \in 1 .. e - 1 : s[k] = L[k]
    <3>1. \A k \in 1 .. e - 1 : k \in 1 .. n
      BY <1>1, <2>11
    <3> QED BY <2>5, <3>1
  <2>14. ASSUME e > star PROVE \E k \in 1 .. Len(s) : s[k] = STAR
    <3>1. star \in 1 .. n /\ star \in 1 .. Len(s)
      BY <1>1, <2>5, <2>11, <2>14
    <3> QED BY <1>1, <2>5, <3>1
  <2>15. ASSUME e <= star PROVE WellFormed(s)
    <3>1. e \in 9 .. star /\ Len(s) \in Nat /\ e <= Len(s)
      BY <1>1, <2>5, <2>11, <2>12, <2>15
    <3>2. s[e] \in {STAR, NL} /\ (s[e] = NL => e = Len(s))
      <4>1. CASE n - 2 = star
        <5>1. e \in 1 .. n /\ s[e] = STAR
          BY <1>1, <2>5, <2>11, <4>1
        <5>2. STAR # NL
          BY DEF STAR, NL
        <5> QED BY <5>1, <5>2
      <4>2. CASE n - 2 # star
        BY <2>5, <2>11, <4>2
      <4> QED BY <4>1, <4>2
    <3> QED BY <1>5, <2>6, <2>13, <3>1, <3>2 DEF e
  <2>16. s \in Seq(Character)
    BY <2>4
  <2> QED BY <2>6, <2>8, <2>12, <2>13, <2>14, <2>15, <2>16 DEF e, star
<1> QED BY <1>6, <1>7

-----------------------------------------------------------------------------
(* A token ends at the next comma, and the next token begins behind it. *)
LEMMA ChainStep ==
  ASSUME NEW s, NEW b \in Nat \ {0}, NEW e \in Nat, NEW T, Chain(T, s, b, e),
         NEW i \in 1 .. Len(T), NEW q \in T[i].p .. e,
         \A k \in T[i].p .. q - 1 : s[k] # COMMA, q = e \/ s[q] = COMMA
  PROVE  /\ T[i].end = q
         /\ q + 1 < e => i + 1 \in 1 .. Len(T) /\ T[i + 1].p = q + 1
         /\ q + 1 >= e => Len(T) = i
<1>1. /\ T[i].p \in b .. e - 1 /\ T[i].end \in T[i].p .. e
      /\ \A k \in T[i].p .. T[i].end - 1 : s[k] # COMMA
      /\ T[i].end # e => s[T[i].end] = COMMA
  BY DEF Chain
<1>2. Len(T) \in Nat
  BY DEF Chain
<1>3. T[i].end = q
  <2> DEFINE p == T[i].p
             end == T[i].end
  <2>1. /\ p \in b .. e - 1 /\ end \in p .. e /\ q \in p .. e
        /\ \A k \in p .. end - 1 : s[k] # COMMA
        /\ \A k \in p .. q - 1 : s[k] # COMMA
        /\ end # e => s[end] = COMMA
        /\ q # e => s[q] = COMMA
    BY <1>1
  <2> HIDE DEF p, end
  <2>2. ~ (end < q)
    BY <2>1
  <2>3. ~ (q < end)
    BY <2>1
  <2>4. end = q
    BY <2>1, <2>2, <2>3
  <2> QED BY <2>4 DEF end
<1>4. b < e /\ T[Len(T)].end + 1 >= e
  <2>1. T # <<>>
    BY <1>2
  <2> QED BY <2>1 DEF Chain
<1>5. i < Len(T) => i + 1 \in 1 .. Len(T) /\ T[i + 1].p = q + 1 /\ T[i + 1].p \in b .. e - 1
  <2> SUFFICES ASSUME i < Len(T)
               PROVE  i + 1 \in 1 .. Len(T) /\ T[i + 1].p = q + 1 /\ T[i + 1].p \in b .. e - 1
    OBVIOUS
  <2>1. i + 1 \in 1 .. Len(T) /\ i \in 1 .. Len(T) - 1
    BY <1>2
  <2>2. T[i + 1].p = T[i].end + 1
    BY <2>1 DEF Chain
  <2>3. T[i + 1].p \in b .. e - 1
    BY <2>1 DEF Chain
  <2> QED BY <1>3, <2>1, <2>2, <2>3
<1>6. i = Len(T) => q + 1 >= e
  BY <1>3, <1>4
<1>7. i < Len(T) \/ i = Len(T)
  BY <1>2
<1>8. ASSUME q + 1 < e PROVE i + 1 \in 1 .. Len(T) /\ T[i + 1].p = q + 1
  <2>1. ~ (q + 1 >= e)
    BY <1>8, <1>1
  <2> QED BY <1>5, <1>6, <1>7, <2>1
<1>9. ASSUME q + 1 >= e PROVE Len(T) = i
  <2>1. ~ (i < Len(T))
    BY <1>5, <1>9
  <2> QED BY <1>7, <2>1
<1> QED BY <1>3, <1>8, <1>9

(* Where token i of what arrives of a sentence ends. *)
EndOfField(c, m, e, i) == IF i < m /\ c[i + 1] < e THEN c[i + 1] ELSE e

(* What is left of a sentence: e is the first place of it that is lost. *)
Left(s, L, fields, m, c, e) ==
  /\ Columns(L, fields, m, c)
  /\ e \in 9 .. c[m + 1] + 2
  /\ \A k \in 1 .. e - 1 : s[k] = L[k]

(* What is left of field i has no comma in it, and ends at one or at the
   end of what is left. *)
LEMMA FieldEnds ==
  ASSUME NEW s, NEW L, NEW fields, NEW m, NEW c, NEW e, Left(s, L, fields, m, c, e),
         NEW i \in 1 .. m, c[i] + 1 < e
  PROVE  LET q == EndOfField(c, m, e, i)
         IN  /\ q \in c[i] + 1 .. e
             /\ \A k \in c[i] + 1 .. q - 1 : s[k] # COMMA
             /\ q = e \/ s[q] = COMMA
<1> DEFINE q == EndOfField(c, m, e, i)
           star == c[m + 1]
<1>0. Columns(L, fields, m, c) /\ e \in 9 .. star + 2 /\ \A k \in 1 .. e - 1 : s[k] = L[k]
  BY DEF Left
<1>1. /\ star \in Nat /\ star >= 7 + m /\ m \in Nat
      /\ \A j \in 1 .. m : \A k \in c[j] + 1 .. c[j + 1] - 1 : L[k] \in Plain
      /\ \A k \in star .. star + 4 : L[k] # COMMA
  BY <1>0, LineCharacters
<1>2. c[i] \in Nat /\ c[i + 1] \in Nat /\ c[i] >= 7
  <2>1. i \in 1 .. m + 1 /\ i + 1 \in 1 .. m + 1
    BY <1>1
  <2>2. c[i] \in Nat /\ c[i] >= 6 + i /\ c[i + 1] \in Nat
    BY <1>0, <2>1, ColumnsRise
  <2> QED BY <2>2
<1>3. c[i + 1] >= c[i] + 1
  <2>1. c[i + 1] = c[i] + 1 + Len(fields[i]) /\ Len(fields[i]) \in Nat
    BY <1>0 DEF Columns
  <2> QED BY <1>2, <2>1
<1>4. i < m => i + 1 \in 1 .. m
  BY <1>1
<1>5. \A j \in 1 .. m : L[c[j]] = COMMA
  BY <1>0 DEF Columns
<1>6. \A x \in Plain : x # COMMA
  BY DEF Plain, Digit, LETTER, COMMA
<1>7. q = IF i < m /\ c[i + 1] < e THEN c[i + 1] ELSE e
  BY DEF EndOfField
<1> HIDE DEF q
<1>8. q \in c[i] + 1 .. e
  BY <1>0, <1>1, <1>2, <1>3, <1>7
<1>9. q = e \/ s[q] = COMMA
  <2> SUFFICES ASSUME q # e PROVE s[q] = COMMA
    OBVIOUS
  <2>0. q = c[i + 1] /\ i < m
    BY <1>7
  <2>1. q = c[i + 1] /\ i + 1 \in 1 .. m /\ q \in 1 .. e - 1
    <3> DEFINE a == c[i]
    <3>1. a \in Nat /\ q \in a + 1 .. e /\ q # e /\ e \in 9 .. star + 2
      BY <1>0, <1>2, <1>8, Zenon
    <3>2. star \in Nat
      BY <1>1
    <3> HIDE DEF a, star
    <3>3. q \in 1 .. e - 1
      BY <3>1, <3>2
    <3> QED BY <1>4, <2>0, <3>3
  <2>2. L[c[i + 1]] = COMMA
    BY <1>5, <2>1
  <2> QED BY <1>0, <2>1, <2>2
<1>10. ASSUME NEW k \in c[i] + 1 .. q - 1 PROVE s[k] # COMMA
  <2>1. k \in 1 .. e - 1
    BY <1>0, <1>1, <1>2, <1>8
  <2>2. s[k] = L[k]
    BY <1>0, <2>1
  <2>3. CASE k < c[i + 1]
    <3>1. k \in c[i] + 1 .. c[i + 1] - 1
      BY <1>2, <2>3
    <3> QED BY <1>1, <1>6, <2>2, <3>1
  <2>4. CASE ~ (k < c[i + 1])
    <3>1. i = m
      BY <1>0, <1>1, <1>2, <1>7, <2>4
    <3>2. k \in star .. star + 4
      BY <1>0, <1>1, <1>2, <2>1, <2>4, <3>1
    <3> QED BY <1>1, <2>2, <3>2
  <2> QED BY <2>3, <2>4
<1> QED BY <1>8, <1>9, <1>10 DEF q
(* A token that begins where field i does ends where what is left of the
   field does, and the next begins behind. *)
LEMMA AtField ==
  ASSUME NEW s, NEW L, NEW fields, NEW m, NEW c, NEW e, Left(s, L, fields, m, c, e),
         NEW T, Chain(T, s, 2, e),
         NEW i \in 1 .. m, c[i] + 1 < e, i + 1 \in 1 .. Len(T), T[i + 1].p = c[i] + 1
  PROVE  LET q == EndOfField(c, m, e, i)
         IN  /\ T[i + 1].end = q
             /\ q + 1 < e => (i + 1) + 1 \in 1 .. Len(T) /\ T[(i + 1) + 1].p = q + 1
             /\ q + 1 >= e => Len(T) = i + 1
<1> DEFINE q == EndOfField(c, m, e, i)
<1>1. /\ q \in c[i] + 1 .. e
      /\ \A k \in c[i] + 1 .. q - 1 : s[k] # COMMA
      /\ q = e \/ s[q] = COMMA
  BY FieldEnds
<1>2. e \in Nat
  <2>1. e \in 9 .. c[m + 1] + 2 /\ Columns(L, fields, m, c)
    BY DEF Left
  <2>2. c[m + 1] \in Nat
    BY <2>1, LineCharacters
  <2> QED BY <2>1, <2>2
<1>3. 2 \in Nat \ {0}
  OBVIOUS
<1> HIDE DEF q
<1>4. q \in T[i + 1].p .. e /\ \A k \in T[i + 1].p .. q - 1 : s[k] # COMMA
  BY <1>1
<1>5. q = e \/ s[q] = COMMA
  BY <1>1
<1> DEFINE j == i + 1
<1>6. j \in 1 .. Len(T) /\ q \in T[j].p .. e /\ \A k \in T[j].p .. q - 1 : s[k] # COMMA
  BY <1>4
<1> HIDE DEF j
<1>7. /\ T[j].end = q
      /\ q + 1 < e => j + 1 \in 1 .. Len(T) /\ T[j + 1].p = q + 1
      /\ q + 1 >= e => Len(T) = j
  BY <1>2, <1>3, <1>5, <1>6, ChainStep
<1> QED BY <1>7 DEF q, j

(* Token i begins where field i does, if that is left, and there is none
   if it is not. *)
LEMMA TokenOfField ==
  ASSUME NEW s, NEW L, NEW fields, NEW m, NEW c, NEW e, Left(s, L, fields, m, c, e),
         NEW T, Chain(T, s, 2, e)
  PROVE  /\ Len(T) \in 0 .. m + 1
         /\ \A i \in 1 .. m :
              IF c[i] + 1 < e
              THEN /\ i + 1 \in 1 .. Len(T)
                   /\ T[i + 1].p = c[i] + 1 /\ T[i + 1].end = EndOfField(c, m, e, i)
              ELSE Len(T) <= i
<1> DEFINE Found(i) ==
             IF c[i] + 1 < e
             THEN /\ i + 1 \in 1 .. Len(T)
                  /\ T[i + 1].p = c[i] + 1 /\ T[i + 1].end = EndOfField(c, m, e, i)
             ELSE Len(T) <= i
           S == {n \in Nat : n + 1 \in 1 .. m => Found(n + 1)}
<1>1. Columns(L, fields, m, c) /\ e \in 9 .. c[m + 1] + 2 /\ \A k \in 1 .. e - 1 : s[k] = L[k]
  BY DEF Left
<1>2. c[m + 1] \in Nat /\ m \in Nat \ {0}
  BY <1>1, LineCharacters
<1>3. e \in Nat /\ e >= 9
  BY <1>1, <1>2
<1>4. Len(T) \in Nat
  BY DEF Chain
<1>5. ASSUME NEW i \in 1 .. m, c[i] + 1 < e, i + 1 \in 1 .. Len(T), T[i + 1].p = c[i] + 1
      PROVE  Found(i)
  <2>1. T[i + 1].end = EndOfField(c, m, e, i)
    BY <1>5, AtField
  <2> QED BY <1>5, <2>1
<1>6. 1 \in 1 .. m /\ c[1] = 7 /\ L[7] = COMMA /\ \A k \in 2 .. 6 : L[k] = LETTER
  <2>1. 1 \in 1 .. m
    BY <1>2
  <2>2. c[1] = 7 /\ L[c[1]] = COMMA /\ \A k \in 2 .. 6 : L[k] = LETTER
    BY <1>1, <2>1, Zenon DEF Columns
  <2> QED BY <2>1, <2>2
<1>7. c[1] + 1 < e /\ 1 + 1 \in 1 .. Len(T) /\ T[1 + 1].p = c[1] + 1
  <2>1. T # <<>> /\ T[1].p = 2 /\ 1 \in 1 .. Len(T)
    <3>1. 2 < e
      BY <1>3
    <3> QED BY <1>4, <3>1 DEF Chain
  <2>2. \A k \in 2 .. 6 : s[k] # COMMA
    <3>1. \A k \in 2 .. 6 : k \in 1 .. e - 1
      BY <1>3
    <3>2. LETTER # COMMA
      BY DEF LETTER, COMMA
    <3> QED BY <1>1, <1>6, <3>1, <3>2
  <2>3. s[7] = COMMA /\ 7 \in T[1].p .. e /\ \A k \in T[1].p .. 7 - 1 : s[k] # COMMA
    <3>1. 7 \in 1 .. e - 1
      BY <1>3
    <3>2. s[7] = COMMA
      BY <1>1, <1>6, <3>1
    <3> QED BY <1>3, <2>1, <2>2, <3>2
  <2>4. 7 + 1 < e => 1 + 1 \in 1 .. Len(T) /\ T[1 + 1].p = 7 + 1
    <3>1. 2 \in Nat \ {0} /\ e \in Nat
      BY <1>3
    <3> DEFINE q == 7
               one == 1
    <3>2. /\ one \in 1 .. Len(T) /\ q \in T[one].p .. e
          /\ \A k \in T[one].p .. q - 1 : s[k] # COMMA
      BY <2>1, <2>3
    <3>3. q = e \/ s[q] = COMMA
      BY <2>3
    <3> HIDE DEF Found, q, one
    <3>4. q + 1 < e => one + 1 \in 1 .. Len(T) /\ T[one + 1].p = q + 1
      BY <3>1, <3>2, <3>3, ChainStep
    <3> QED BY <3>4 DEF q, one
  <2> QED BY <1>3, <1>6, <2>4
<1>8. Found(1)
  BY <1>5, <1>6, <1>7
<1> HIDE DEF Found
<1>9. 0 \in S
  BY <1>8
<1>10. ASSUME NEW n \in Nat, n \in S, (n + 1) + 1 \in 1 .. m
       PROVE  Found((n + 1) + 1)
  <2> DEFINE i == n + 1
             q == EndOfField(c, m, e, i)
  <2>1. i \in 1 .. m /\ i < m /\ i + 1 \in 1 .. m
    BY <1>2, <1>10
  <2>2. Found(i)
    BY <1>10, <2>1
  <2>3. c[i] \in Nat /\ c[i + 1] \in Nat /\ c[i + 1] >= c[i] + 1
    <3>1. c[i + 1] = c[i] + 1 + Len(fields[i]) /\ Len(fields[i]) \in Nat
      BY <1>1, <2>1 DEF Columns
    <3>2. i \in 1 .. m + 1 /\ i + 1 \in 1 .. m + 1
      BY <1>2, <2>1
    <3>3. c[i] \in Nat /\ c[i + 1] \in Nat
      BY <1>1, <3>2, ColumnsRise
    <3> HIDE DEF i
    <3> QED BY <3>1, <3>3
  <2>4. i \in Int /\ i + 1 = (n + 1) + 1
    OBVIOUS
  <2> HIDE DEF i, q
  <2>5. CASE c[i] + 1 < e
    <3>1. /\ i + 1 \in 1 .. Len(T) /\ T[i + 1].p = c[i] + 1
      BY <2>2, <2>5 DEF Found
    <3>2. /\ q + 1 < e => (i + 1) + 1 \in 1 .. Len(T) /\ T[(i + 1) + 1].p = q + 1
          /\ q + 1 >= e => Len(T) = i + 1
      BY <2>1, <2>5, <3>1, AtField DEF q
    <3>3. q = IF c[i + 1] < e THEN c[i + 1] ELSE e
      BY <2>1 DEF q, EndOfField
    <3>4. CASE c[i + 1] + 1 < e
      <4>1. q = c[i + 1]
        BY <1>3, <2>3, <3>3, <3>4
      <4>2. Found(i + 1)
        BY <1>5, <2>1, <3>2, <3>4, <4>1
      <4> QED BY <2>4, <4>2
    <3>5. CASE ~ (c[i + 1] + 1 < e)
      <4>1. q + 1 >= e
        BY <1>3, <2>3, <3>3, <3>5
      <4>2. Len(T) <= i + 1
        BY <2>4, <3>2, <4>1
      <4>3. Found(i + 1)
        BY <3>5, <4>2 DEF Found
      <4> QED BY <2>4, <4>3
    <3> QED BY <3>4, <3>5
  <2>6. CASE ~ (c[i] + 1 < e)
    <3>1. Len(T) <= i
      BY <2>2, <2>6 DEF Found
    <3>2. Len(T) <= i + 1 /\ ~ (c[i + 1] + 1 < e)
      BY <1>3, <1>4, <2>3, <2>4, <2>6, <3>1
    <3>3. Found(i + 1)
      BY <3>2 DEF Found
    <3> QED BY <2>4, <3>3
  <2> QED BY <2>5, <2>6
<1>11. Nat \subseteq S
  <2>1. ASSUME NEW n \in Nat, n \in S PROVE n + 1 \in S
    BY <1>10, <2>1
  <2> HIDE DEF S
  <2> QED BY <1>9, <2>1, SetInduction
<1>12. \A i \in 1 .. m : Found(i)
  <2> SUFFICES ASSUME NEW i \in 1 .. m PROVE Found(i)
    OBVIOUS
  <2>1. i - 1 \in Nat /\ (i - 1) + 1 = i
    BY <1>2
  <2>2. i - 1 \in S
    BY <1>11, <2>1
  <2> QED BY <2>1, <2>2
<1>13. Len(T) \in 0 .. m + 1
  <2>1. m \in 1 .. m /\ Found(m) /\ m \in Nat
    BY <1>2, <1>12
  <2>2. CASE c[m] + 1 < e
    <3>1. m + 1 \in 1 .. Len(T) /\ T[m + 1].p = c[m] + 1
      BY <2>1, <2>2 DEF Found
    <3>2. EndOfField(c, m, e, m) = e
      BY <2>1 DEF EndOfField
    <3>3. e + 1 >= e => Len(T) = m + 1
      BY <2>1, <2>2, <3>1, <3>2, AtField
    <3> QED BY <1>2, <1>3, <3>3
  <2>3. CASE ~ (c[m] + 1 < e)
    <3>1. Len(T) <= m
      BY <2>1, <2>3 DEF Found
    <3> QED BY <1>2, <1>4, <3>1
  <2> QED BY <2>2, <2>3
<1> QED BY <1>12, <1>13 DEF Found

OneCharacter(fields) == \A i \in 1 .. Len(fields) : Len(fields[i]) <= 1

(* A field that runs into the checksum. *)
Garbled(text, field) ==
  /\ Len(text) \in Len(field) + 1 .. Len(field) + 2
  /\ text[Len(field) + 1] = STAR
  /\ \A j \in 1 .. Len(field) : text[j] = field[j]

(* The characters of a token. *)
LEMMA Piece ==
  ASSUME NEW s \in Seq(Character), NEW b \in Nat \ {0}, NEW e \in Nat, b <= e, e <= Len(s) + 1
  PROVE  LET t == SubSeq(s, b, e - 1)
         IN  /\ t \in Seq(Character) /\ Len(t) = e - b
             /\ \A j \in 1 .. e - b : t[j] = s[(b - 1) + j]
<1>0. Len(s) \in Nat
  OBVIOUS
<1>1. \A k \in b .. e - 1 : s[k] \in Character
  <2>1. \A k \in b .. e - 1 : k \in 1 .. Len(s)
    BY <1>0
  <2> QED BY <2>1, ElementOfSeq
<1> DEFINE t == SubSeq(s, b, e - 1)
           last == e - 1
<1>a. last \in Int /\ last = e - 1
  OBVIOUS
<1>2. /\ t \in Seq(Character)
      /\ Len(t) = IF b <= last THEN last - b + 1 ELSE 0
      /\ \A j \in 1 .. last - b + 1 : t[j] = s[b + j - 1]
  <2> b \in Int
    OBVIOUS
  <2> \A k \in b .. last : s[k] \in Character
    BY <1>1
  <2> HIDE DEF last
  <2> QED BY <1>a, SubSeqProperties
<1> HIDE DEF t, last
<1>3. Len(t) = e - b
  BY <1>2, <1>a
<1>4. ASSUME NEW j \in 1 .. e - b PROVE t[j] = s[(b - 1) + j]
  <2>1. j \in 1 .. last - b + 1 /\ b + j - 1 = (b - 1) + j
    BY <1>a
  <2> QED BY <1>2, <2>1
<1> QED BY <1>2, <1>3, <1>4 DEF t

(* The text of a token is its field, unless it runs into the checksum. *)
LEMMA FieldText ==
  ASSUME NEW s \in Seq(Character), NEW L, NEW fields, PlainFields(fields), OneCharacter(fields),
         NEW m, NEW c, NEW e, Left(s, L, fields, m, c, e), e <= Len(s) + 1,
         NEW i \in 1 .. m, c[i] + 1 < e
  PROVE  LET t == SubSeq(s, c[i] + 1, EndOfField(c, m, e, i) - 1)
         IN  \/ t = fields[i]
             \/ i = m /\ e > c[m + 1] /\ Garbled(t, fields[i])
<1> DEFINE q == EndOfField(c, m, e, i)
           star == c[m + 1]
           t == SubSeq(s, c[i] + 1, q - 1)
           field == fields[i]
           b == c[i]
           n == Len(field)
<1>1. /\ Columns(L, fields, m, c) /\ e \in 9 .. star + 2 /\ \A k \in 1 .. e - 1 : s[k] = L[k]
  BY DEF Left
<1>2. m \in Nat \ {0} /\ star \in Nat /\ m = Len(fields) /\ L[star] = STAR
  <2>1. m \in Nat \ {0} /\ star \in Nat /\ L[star] = STAR
    BY <1>1, LineCharacters
  <2>2. m = Len(fields)
    BY <1>1, Zenon DEF Columns
  <2> QED BY <2>1, <2>2
<1>3. b \in Nat /\ b >= 7 /\ c[i + 1] \in Nat
  <2>1. i \in 1 .. m + 1 /\ i + 1 \in 1 .. m + 1
    BY <1>2
  <2>2. c[i] \in Nat /\ c[i] >= 6 + i /\ c[i + 1] \in Nat
    BY <1>1, <2>1, ColumnsRise
  <2> QED BY <2>2
<1>4. n \in 0 .. 1 /\ c[i + 1] = b + 1 + n
  <2>1. n \in Nat /\ c[i + 1] = b + 1 + n
    BY <1>1, Zenon DEF Columns
  <2>2. n <= 1
    BY <1>2 DEF OneCharacter
  <2> HIDE DEF n, b
  <2> QED BY <2>1, <2>2
<1>5. \A j \in 1 .. n : L[b + j] = field[j]
  BY <1>1 DEF Columns
<1>6. field \in Seq(Character)
  <2>1. field \in Seq(Plain)
    BY <1>2, ElementOfSeq DEF PlainFields
  <2>2. Plain \subseteq Character
    BY DEF Plain, Digit, LETTER, Character
  <2> HIDE DEF field
  <2> QED BY <2>1, <2>2, SeqMonotonic
<1>7. q = IF i < m /\ c[i + 1] < e THEN c[i + 1] ELSE e
  BY DEF EndOfField
<1>8. q \in b + 1 .. e
  BY FieldEnds
<1>9. i < m \/ (i = m /\ c[i + 1] = star)
  BY <1>2
<1>10. b + 1 < e
  OBVIOUS
<1> HIDE DEF q, star, field, b, n
<1>11. /\ t \in Seq(Character) /\ Len(t) = q - (b + 1)
       /\ \A j \in 1 .. q - (b + 1) : t[j] = s[b + j]
  <2> DEFINE start == b + 1
  <2>1. start \in Nat \ {0} /\ q \in Nat /\ start <= q /\ q <= Len(s) + 1 /\ start - 1 = b
    BY <1>1, <1>2, <1>3, <1>8
  <2> HIDE DEF start
  <2>2. LET u == SubSeq(s, start, q - 1)
        IN  /\ u \in Seq(Character) /\ Len(u) = q - start
            /\ \A j \in 1 .. q - start : u[j] = s[(start - 1) + j]
    BY <2>1, Piece
  <2>3. t = SubSeq(s, start, q - 1)
    BY DEF start, t, b
  <2> HIDE DEF t
  <2> QED BY <2>1, <2>2, <2>3 DEF start
<1> HIDE DEF t
<1>12. \A j \in 1 .. q - (b + 1) : t[j] = L[b + j]
  <2> SUFFICES ASSUME NEW j \in 1 .. q - (b + 1) PROVE t[j] = L[b + j]
    OBVIOUS
  <2>1. b + j \in 1 .. e - 1
    BY <1>1, <1>2, <1>3, <1>8
  <2> QED BY <1>1, <1>11, <2>1
<1>13. CASE q = c[i + 1]
  <2>1. q - (b + 1) = n
    BY <1>3, <1>4, <1>13
  <2>2. Len(t) = Len(field) /\ \A j \in 1 .. Len(t) : t[j] = field[j]
    <3>1. Len(t) = n /\ n = Len(field)
      BY <1>11, <2>1 DEF n
    <3> QED BY <1>5, <1>12, <2>1, <3>1
  <2>3. t = field
    BY <1>6, <1>11, <2>2, SeqEqual
  <2> QED BY <2>3 DEF t, field, q
<1>14. CASE q # c[i + 1]
  <2>1. i = m /\ q = e /\ c[i + 1] = star /\ e > star
    BY <1>1, <1>2, <1>3, <1>4, <1>7, <1>9, <1>10, <1>14
  <2>2. q - (b + 1) \in n + 1 .. n + 2 /\ n + 1 \in 1 .. q - (b + 1) /\ b + (n + 1) = star
    BY <1>1, <1>2, <1>3, <1>4, <2>1
  <2>3. t[n + 1] = STAR
    BY <1>2, <1>12, <2>2
  <2>4. ASSUME NEW j \in 1 .. n PROVE t[j] = field[j]
    <3>1. j \in 1 .. q - (b + 1)
      BY <1>4, <2>2
    <3> QED BY <1>5, <1>12, <3>1
  <2>5. Garbled(t, field)
    BY <1>11, <2>2, <2>3, <2>4 DEF Garbled, n
  <2> QED BY <2>1, <2>5 DEF t, field, q, star
<1> QED BY <1>13, <1>14

TextOf(s, i) == Text(s, nmea_tokenizer_get(nmea_tokenizer_init(s), i))

(* What is read as field i of a sentence whose first n fields are left. *)
TextIs(s, fields, n, i) ==
  IF i > n \/ i >= MAX_NMEA_TOKENS THEN TextOf(s, i) = <<>>
  ELSE \/ TextOf(s, i) = fields[i]
       \/ i = Len(fields) /\ ~ Sound(s) /\ Garbled(TextOf(s, i), fields[i])

(* What is left of a sentence are its first n fields, for some n. *)
LEMMA FieldsLeft ==
  ASSUME NEW c, NEW m \in Nat \ {0}, NEW e \in Nat, \A i \in 1 .. m + 1 : c[i] \in Nat,
         \A i, j \in 1 .. m + 1 : i <= j => c[i] <= c[j]
  PROVE  \E n \in 0 .. m : \A i \in 1 .. m : c[i] + 1 < e <=> i <= n
<1> DEFINE I == {i \in 1 .. m : ~ (c[i] + 1 < e)}
<1>1. CASE I = {}
  <2>1. m \in 0 .. m /\ \A i \in 1 .. m : c[i] + 1 < e <=> i <= m
    BY <1>1
  <2> QED BY <2>1
<1>2. CASE I # {}
  <2>1. I \subseteq Nat
    OBVIOUS
  <2>2. PICK x \in I : \A y \in I : x <= y
    <3> HIDE DEF I
    <3> QED BY <1>2, <2>1, Least
  <2>3. x \in 1 .. m /\ ~ (c[x] + 1 < e)
    OBVIOUS
  <2>4. ASSUME NEW i \in 1 .. m PROVE c[i] + 1 < e <=> i <= x - 1
    <3>1. CASE x <= i
      <4>1. c[x] <= c[i] /\ c[x] \in Nat /\ c[i] \in Nat
        BY <2>3, <3>1
      <4>2. ~ (c[i] + 1 < e)
        <5> DEFINE a == c[x]
                   b == c[i]
        <5>1. a \in Nat /\ b \in Nat /\ a <= b /\ ~ (a + 1 < e)
          BY <2>3, <4>1
        <5> HIDE DEF a, b
        <5>2. ~ (b + 1 < e)
          BY <5>1
        <5> QED BY <5>2 DEF b
      <4> QED BY <2>3, <3>1, <4>2
    <3>2. CASE ~ (x <= i)
      <4>1. i \notin I
        BY <2>2, <3>2
      <4>2. c[i] + 1 < e
        BY <4>1
      <4> QED BY <2>3, <3>2, <4>2
    <3> QED BY <3>1, <3>2
  <2>5. x - 1 \in 0 .. m
    BY <2>3
  <2> HIDE DEF I
  <2> QED BY <2>4, <2>5
<1> QED BY <1>1, <1>2

(* What is read of a sentence, whole or cut: its first n fields, the
   last of which may run into the checksum, and nothing behind them. *)
LEMMA ReadTexts ==
  ASSUME NEW fields, PlainFields(fields), OneCharacter(fields), Len(fields) >= 2,
         NEW s \in {Line(fields)} \cup CutShort(Line(fields))
  PROVE  \E n \in 0 .. Len(fields) :
           /\ Sound(s) => n = Len(fields)
           /\ \A i \in Nat \ {0} : TextIs(s, fields, n, i)
<1> DEFINE m == Len(fields)
           L == Line(fields)
           e == End(s)
           T == Tokens(s, Begin(s), e)
<1>1. PICK c : Columns(L, fields, m, c)
  BY LineColumns
<1> DEFINE star == c[m + 1]
<1>2. m \in Nat /\ m >= 2 /\ star \in Nat /\ star >= 7 + m
  BY <1>1, LineCharacters
<1>3. /\ s \in Seq(Character) /\ Begin(s) = 2
      /\ e \in 9 .. star + 2 /\ \A k \in 1 .. e - 1 : s[k] = L[k]
      /\ Sound(s) <=> s = L
      /\ s = L => e = star
      /\ e > star => ~ Sound(s)
  BY <1>1, <1>2, ReceivedFacts
<1>4. e <= Len(s) + 1 /\ e \in Nat
  BY <1>2, <1>3, BeginEnd
<1>5. Left(s, L, fields, m, c, e)
  BY <1>1, <1>3 DEF Left
<1>6. Chain(T, s, 2, e)
  <2>1. 2 \in Nat \ {0} /\ e \in Nat /\ 2 <= e + 1
    BY <1>2, <1>3
  <2>2. Chain(Tokens(s, 2, e), s, 2, e)
    <3> HIDE DEF e
    <3> QED BY <2>1, TokensChain
  <2> QED BY <1>3, <2>2
<1>7. \A i \in Nat : nmea_tokenizer_get(nmea_tokenizer_init(s), i)
                       = IF i < MAX_NMEA_TOKENS /\ i < Len(T) THEN T[i + 1] ELSE [p |-> 0, end |-> 0]
  BY <1>3, GetToken
<1> HIDE DEF m, L, e, T, star
<1>8. /\ Len(T) \in 0 .. m + 1
      /\ \A i \in 1 .. m :
           IF c[i] + 1 < e
           THEN /\ i + 1 \in 1 .. Len(T)
                /\ T[i + 1].p = c[i] + 1 /\ T[i + 1].end = EndOfField(c, m, e, i)
           ELSE Len(T) <= i
  BY <1>5, <1>6, TokenOfField
<1>9. /\ \A i \in 1 .. m + 1 : c[i] \in Nat
      /\ \A i, j \in 1 .. m + 1 : i <= j => c[i] <= c[j]
  BY <1>1, ColumnsRise
<1>10. PICK k \in 0 .. m : \A i \in 1 .. m : c[i] + 1 < e <=> i <= k
  <2>1. m \in Nat \ {0}
    BY <1>2
  <2> QED BY <1>4, <1>9, <2>1, FieldsLeft
<1>11. SubSeq(s, 0, 0 - 1) = <<>>
  BY SubSeqEmpty
<1>12. ASSUME NEW i \in Nat \ {0}
       PROVE  /\ i > k \/ i >= MAX_NMEA_TOKENS => TextOf(s, i) = <<>>
              /\ i <= k /\ i < MAX_NMEA_TOKENS =>
                   \/ TextOf(s, i) = fields[i]
                   \/ i = m /\ e > star /\ Garbled(TextOf(s, i), fields[i])
  <2> DEFINE token == nmea_tokenizer_get(nmea_tokenizer_init(s), i)
  <2>1. /\ token = IF i < MAX_NMEA_TOKENS /\ i < Len(T) THEN T[i + 1] ELSE [p |-> 0, end |-> 0]
        /\ TextOf(s, i) = SubSeq(s, token.p, token.end - 1)
    <3>1. i \in Nat
      OBVIOUS
    <3> QED BY <1>7, <3>1, Zenon DEF TextOf, Text
  <2> HIDE DEF token
  <2>2. CASE i > k \/ i >= MAX_NMEA_TOKENS
    <3>1. ~ (i < MAX_NMEA_TOKENS /\ i < Len(T))
      <4>1. CASE i >= MAX_NMEA_TOKENS
        BY <4>1, TokenizerAssumption DEF TokenizerAssumption
      <4>2. CASE i > k /\ i <= m
        <5>1. i \in 1 .. m /\ ~ (i <= k)
          BY <1>2, <4>2
        <5>2. Len(T) <= i
          BY <1>8, <1>10, <5>1
        <5> QED BY <1>2, <1>8, <5>2
      <4>3. CASE i > k /\ ~ (i <= m)
        BY <1>2, <1>8, <4>3
      <4> QED BY <2>2, <4>1, <4>2, <4>3
    <3>2. token.p = 0 /\ token.end = 0
      BY <2>1, <3>1
    <3>3. TextOf(s, i) = <<>>
      BY <1>11, <2>1, <3>2
    <3>4. ~ (i <= k /\ i < MAX_NMEA_TOKENS)
      BY <2>2, TokenizerAssumption DEF TokenizerAssumption
    <3> QED BY <3>3, <3>4
  <2>3. CASE ~ (i > k \/ i >= MAX_NMEA_TOKENS)
    <3>1. i \in 1 .. m /\ i <= k /\ i < MAX_NMEA_TOKENS
      BY <1>2, <2>3, TokenizerAssumption DEF TokenizerAssumption
    <3>2. c[i] + 1 < e
      BY <1>10, <3>1
    <3>3. /\ i + 1 \in 1 .. Len(T)
          /\ T[i + 1].p = c[i] + 1 /\ T[i + 1].end = EndOfField(c, m, e, i)
      BY <1>8, <3>1, <3>2
    <3>4. i < Len(T)
      BY <1>2, <1>8, <3>3
    <3>5. TextOf(s, i) = SubSeq(s, c[i] + 1, EndOfField(c, m, e, i) - 1)
      BY <2>1, <3>1, <3>3, <3>4
    <3>6. s \in Seq(Character) /\ e <= Len(s) + 1
      BY <1>3, <1>4
    <3>7. LET t == SubSeq(s, c[i] + 1, EndOfField(c, m, e, i) - 1)
          IN  \/ t = fields[i]
              \/ i = m /\ e > c[m + 1] /\ Garbled(t, fields[i])
      BY <1>5, <3>1, <3>2, <3>6, FieldText
    <3>8. \/ TextOf(s, i) = fields[i]
          \/ i = m /\ e > star /\ Garbled(TextOf(s, i), fields[i])
      BY <3>5, <3>7, Zenon DEF star
    <3> QED BY <2>3, <3>8
  <2> QED BY <2>2, <2>3
<1>13. CASE ~ Sound(s)
  <2>1. ASSUME NEW i \in Nat \ {0} PROVE TextIs(s, fields, k, i)
    <3>1. CASE i > k \/ i >= MAX_NMEA_TOKENS
      BY <1>12, <3>1 DEF TextIs
    <3>2. CASE ~ (i > k \/ i >= MAX_NMEA_TOKENS)
      <4>1. i <= k /\ i < MAX_NMEA_TOKENS
        BY <1>2, <3>2, TokenizerAssumption DEF TokenizerAssumption
      <4>2. \/ TextOf(s, i) = fields[i]
            \/ i = m /\ e > star /\ Garbled(TextOf(s, i), fields[i])
        BY <1>12, <4>1
      <4> QED BY <1>13, <3>2, <4>2, Zenon DEF TextIs, m
    <3> QED BY <3>1, <3>2
  <2> QED BY <1>13, <2>1 DEF m
<1>14. CASE Sound(s)
  <2>1. e = star
    BY <1>3, <1>14 DEF star
  <2>2. ASSUME NEW i \in 1 .. m, ~ (i <= k) PROVE fields[i] = <<>>
    <3>1. Len(fields[i]) \in Nat /\ c[i + 1] = c[i] + 1 + Len(fields[i])
      BY <1>1, Zenon DEF Columns, m
    <3>2. i \in 1 .. m + 1 /\ i + 1 \in 1 .. m + 1 /\ m + 1 \in 1 .. m + 1 /\ i + 1 <= m + 1
      BY <1>2
    <3>3. c[i] \in Nat /\ c[i + 1] \in Nat /\ c[i + 1] <= c[m + 1] /\ c[m + 1] \in Nat
      BY <1>9, <3>2
    <3>4. ~ (c[i] + 1 < c[m + 1])
      BY <1>10, <2>1, <2>2 DEF star
    <3>5. Len(fields[i]) = 0
      <4> DEFINE a == c[i]
                 l == Len(fields[i])
                 b == c[i + 1]
                 d == c[m + 1]
      <4>1. a \in Nat /\ l \in Nat /\ b = a + 1 + l /\ b <= d /\ d \in Nat /\ ~ (a + 1 < d)
        BY <3>1, <3>3, <3>4, Zenon
      <4> HIDE DEF a, l, b, d
      <4>2. l = 0
        BY <4>1
      <4> QED BY <4>2 DEF l
    <3>6. fields[i] \in Seq(Plain)
      BY ElementOfSeq DEF PlainFields, m
    <3> QED BY <3>5, <3>6, EmptySeq
  <2>3. ASSUME NEW i \in Nat \ {0} PROVE TextIs(s, fields, m, i)
    <3>1. CASE i > m \/ i >= MAX_NMEA_TOKENS
      <4>1. i > k \/ i >= MAX_NMEA_TOKENS
        BY <1>2, <3>1
      <4> QED BY <1>12, <3>1, <4>1 DEF TextIs
    <3>2. CASE ~ (i > m \/ i >= MAX_NMEA_TOKENS)
      <4>1. i \in 1 .. m /\ i < MAX_NMEA_TOKENS
        BY <1>2, <3>2, TokenizerAssumption DEF TokenizerAssumption
      <4>2. CASE i <= k
        <5>1. \/ TextOf(s, i) = fields[i]
              \/ i = m /\ e > star /\ Garbled(TextOf(s, i), fields[i])
          BY <1>12, <4>1, <4>2
        <5>2. ~ (e > star)
          BY <1>2, <2>1
        <5> QED BY <3>2, <5>1, <5>2, Zenon DEF TextIs
      <4>3. CASE ~ (i <= k)
        <5>1. fields[i] = <<>>
          BY <2>2, <4>1, <4>3
        <5>2. i > k
          BY <4>1, <4>3
        <5>3. TextOf(s, i) = <<>>
          BY <1>12, <5>2
        <5> QED BY <3>2, <5>1, <5>3, Zenon DEF TextIs
      <4> QED BY <4>2, <4>3
    <3> QED BY <3>1, <3>2
  <2>4. m \in 0 .. m
    BY <1>2
  <2> QED BY <2>3, <2>4 DEF m
<1> QED BY <1>13, <1>14

(* The value of the empty field is 0, that of a digit is the digit, and
   that of anything else is -1. *)
LEMMA ValueOfNothing == str2int(<<>>) = 0
<1> DEFINE t == <<>>
           F(r) == [n \in 0 .. Len(t) |-> IF n = 0 THEN 0 ELSE r[n - 1] * 10 + t[n]]
           f0 == [n \in 0 .. 0 |-> 0]
           f == CHOOSE r : r = F(r)
<1>0. Len(t) = 0
  OBVIOUS
<1>1. f0 = F(f0)
  BY <1>0
<1>2. f = F(f)
  BY <1>1
<1>3. str2int(t) = f[Len(t)]
  BY <1>0 DEF str2int
<1> HIDE DEF f
<1>4. f[0] = F(f)[0]
  BY <1>2
<1>5. f[0] = 0
  BY <1>0, <1>4
<1> QED BY <1>0, <1>3, <1>5

(* A digit stands for itself. *)
LEMMA ValueOfDigit ==
  ASSUME NEW d \in Digit
  PROVE  str2int(<<d>>) = d
<1> DEFINE t == <<d>>
           F(r) == [n \in 0 .. Len(t) |-> IF n = 0 THEN 0 ELSE r[n - 1] * 10 + t[n]]
           f0 == [n \in 0 .. 1 |-> IF n = 0 THEN 0 ELSE d]
           f == CHOOSE r : r = F(r)
<1>0. Len(t) = 1 /\ t[1] = d /\ d \in Nat
  BY DEF Digit
<1>1. f0 = F(f0)
  BY <1>0
<1>2. f = F(f)
  BY <1>1
<1>a. ~ \E i \in 1 .. Len(t) : t[i] \notin Digit
  BY <1>0
<1>3. str2int(t) = f[Len(t)]
  <2> HIDE DEF t
  <2> QED BY <1>a, Zenon DEF str2int
<1> HIDE DEF f
<1>4. f[0] = F(f)[0]
  BY <1>2
<1>5. f[1] = F(f)[1]
  BY <1>2
<1>6. f[0] = 0
  BY <1>4, <1>0
<1>7. f[1] = d
  BY <1>0, <1>5, <1>6
<1> QED BY <1>0, <1>3, <1>7

(* What has anything but digits is -1. *)
LEMMA ValueOfOther ==
  ASSUME NEW t, NEW i \in 1 .. Len(t), t[i] \notin Digit
  PROVE  str2int(t) = -1
BY Zenon DEF str2int

(* Empty, or one digit. *)
Numeral(field) == field = <<>> \/ \E d \in Digit : field = <<d>>

(* A numeral has one digit at most. *)
LEMMA NumeralLength ==
  ASSUME NEW x, Numeral(x)
  PROVE  Len(x) \in 0 .. 1
<1>1. x = <<>> \/ \E d : x = <<d>>
  BY Zenon DEF Numeral
<1>2. Len(<<>>) \in 0 .. 1 /\ \A d : Len(<<d>>) \in 0 .. 1
  OBVIOUS
<1> QED BY <1>1, <1>2

(* A numeral is the same read as an integer or as a float, ... *)
LEMMA FloatOfNumeral ==
  ASSUME NEW field, Numeral(field)
  PROVE  str2float(field) = str2int(field)
<1>1. Len(field) \in 0 .. 1 /\ \A i \in 1 .. Len(field) : field[i] \in Digit
  BY DEF Numeral
<1>2. ~ (Len(field) >= 16)
  BY <1>1
<1>3. SelectInSeq(field, LAMBDA c : c \notin Digit) = 0
  BY <1>1 DEF SelectInSeq, SelectInSubSeq
<1> QED BY <1>2, <1>3 DEF str2float

(* ... and as a float it is the same even with the checksum behind it. *)
LEMMA FloatOfGarbled ==
  ASSUME NEW text, NEW field, Numeral(field), Garbled(text, field)
  PROVE  str2float(text) = str2int(field)
<1> DEFINE l == Len(field)
           n == SelectInSeq(text, LAMBDA c : c \notin Digit)
           I == {i \in 1 .. Len(text) : text[i] \notin Digit}
<1>1. l \in 0 .. 1 /\ \A i \in 1 .. l : field[i] \in Digit
  BY DEF Numeral
<1>2. Len(text) \in l + 1 .. l + 2 /\ text[l + 1] = STAR /\ \A j \in 1 .. l : text[j] = field[j]
  BY DEF Garbled
<1> HIDE DEF l
<1>3. l + 1 \in I
  BY <1>1, <1>2 DEF STAR, Digit
<1>4. \A i \in I : i >= l + 1
  BY <1>1, <1>2
<1>5. Min(I) = l + 1
  <2>1. \A i \in I : i \in Int
    OBVIOUS
  <2> HIDE DEF I
  <2>2. \A x \in I : (\A y \in I : x <= y) => x = l + 1
    BY <1>1, <1>3, <1>4, <2>1
  <2>3. \A y \in I : l + 1 <= y
    BY <1>1, <1>4, <2>1
  <2> QED BY <1>3, <2>2, <2>3, Zenon DEF Min
<1>6. n = IF I # {} THEN Min(I) ELSE 0
  BY DEF SelectInSeq, SelectInSubSeq
<1> HIDE DEF I, n
<1>7. n = l + 1 /\ n # 0 /\ n - 1 = l
  BY <1>1, <1>3, <1>5, <1>6
<1>8. SubSeq(text, 1, l) = field
  <2>1. CASE field = <<>>
    <3>1. l = 0
      BY <2>1 DEF l
    <3>2. SubSeq(text, 1, l) = <<>>
      BY <3>1, SubSeqEmpty
    <3> QED BY <2>1, <3>2
  <2>2. CASE field # <<>>
    <3>1. PICK d \in Digit : field = <<d>>
      BY <2>2 DEF Numeral
    <3>2. l = 1 /\ text[1] = d
      BY <1>2, <3>1 DEF l
    <3>3. SubSeq(text, 1, 1) \in Seq(Digit) /\ Len(SubSeq(text, 1, 1)) = 1 /\ SubSeq(text, 1, 1)[1] = text[1]
      <4>1. \A i \in 1 .. 1 : text[i] \in Digit
        BY <3>2
      <4> DEFINE t == SubSeq(text, 1, 1)
      <4>2. /\ t \in Seq(Digit) /\ Len(t) = IF 1 <= 1 THEN 1 - 1 + 1 ELSE 0
            /\ \A i \in 1 .. 1 - 1 + 1 : t[i] = text[1 + i - 1]
        BY <4>1, SubSeqProperties
      <4> HIDE DEF t
      <4> QED BY <4>2 DEF t
    <3> DEFINE t == SubSeq(text, 1, 1)
    <3>4. t \in Seq(Digit) /\ field \in Seq(Digit) /\ Len(t) = Len(field) /\ \A i \in 1 .. Len(t) : t[i] = field[i]
      BY <3>1, <3>2, <3>3
    <3>5. t = field
      <4> HIDE DEF t
      <4> QED BY <3>4, SeqEqual
    <3> QED BY <3>2, <3>5
  <2> QED BY <2>1, <2>2
<1>9. ~ (Len(text) >= 16)
  BY <1>1, <1>2
<1>10. str2float(text) = str2int(IF n = 0 THEN text ELSE SubSeq(text, 1, n - 1))
  BY <1>9 DEF str2float, n
<1>11. (IF n = 0 THEN text ELSE SubSeq(text, 1, n - 1)) = field
  BY <1>7, <1>8
<1> QED BY <1>10, <1>11

SomeFields(F, m) == PlainFields(F) /\ OneCharacter(F) /\ Len(F) = m

(* Numerals and single letters make fields. *)
LEMMA FieldsMade ==
  ASSUME NEW F, NEW m \in Nat \ {0}, F \in Seq(Seq(Plain)), Len(F) = m,
         \A i \in 1 .. m : Numeral(F[i]) \/ F[i] = <<LETTER>>
  PROVE  SomeFields(F, m)
<1>1. \A i \in 1 .. m : Len(F[i]) <= 1
  <2> SUFFICES ASSUME NEW i \in 1 .. m PROVE Len(F[i]) <= 1
    OBVIOUS
  <2>1. CASE F[i] = <<LETTER>>
    BY <2>1
  <2>2. CASE Numeral(F[i])
    <3>1. Len(F[i]) \in 0 .. 1
      BY <2>2, NumeralLength, Zenon
    <3> DEFINE l == Len(F[i])
    <3>2. l \in 0 .. 1
      BY <3>1
    <3> HIDE DEF l
    <3>3. l <= 1
      BY <3>2
    <3> QED BY <3>3 DEF l
  <2> QED BY <2>1, <2>2
<1>2. F # <<>>
  OBVIOUS
<1> QED BY <1>1, <1>2 DEF SomeFields, PlainFields, OneCharacter

(* A numeral has no separator in it. *)
LEMMA PlainNumeral ==
  ASSUME NEW x, Numeral(x)
  PROVE  x \in Seq(Plain)
<1>1. CASE x = <<>>
  BY <1>1, EmptySeq
<1>2. CASE x # <<>>
  <2>1. PICK d \in Digit : x = <<d>>
    BY <1>2 DEF Numeral
  <2>2. d \in Plain
    BY DEF Plain
  <2> QED BY <2>1, <2>2
<1> QED BY <1>1, <1>2

(* The value of a numeral. *)
LEMMA ValueOfNumeral ==
  ASSUME NEW x, Numeral(x)
  PROVE  str2int(x) = IF x = <<>> THEN 0 ELSE x[1]
<1>1. CASE x = <<>>
  BY <1>1, ValueOfNothing
<1>2. CASE x # <<>>
  <2>1. PICK d \in Digit : x = <<d>>
    BY <1>2 DEF Numeral
  <2>2. str2int(x) = d
    BY <2>1, ValueOfDigit
  <2> QED BY <1>2, <2>1, <2>2
<1> QED BY <1>1, <1>2

(* The fields of a GSA say the numbers of GSAFields. *)
LEMMA GSAFieldsSent ==
  ASSUME NEW fixStatus \in FixStatus, NEW u \in 0 .. 9
  PROVE  \E F : /\ SomeFields(F, 17)
                /\ GSALine(fixStatus, u) = Line(F)
                /\ \A i \in 3 .. 14 : Numeral(F[i]) /\ str2int(F[i]) = GSAFields(u)[i]
<1> DEFINE A == <<<<LETTER>>, fixStatus>>
           B == [i \in 1 .. 12 |-> IF i <= u THEN <<i>> ELSE <<>>]
           C == <<<<1>>, <<1>>, <<1>>>>
           AB == A \o B
           F == AB \o C
           S == Seq(Plain)
<1>0. /\ Numeral(fixStatus) /\ Numeral(<<1>>)
      /\ \A i \in 1 .. 12 : Numeral(IF i <= u THEN <<i>> ELSE <<>>)
  <2>1. 1 \in Digit /\ 3 \in Digit
    BY DEF Digit
  <2>2. Numeral(<<>>) /\ \A d \in Digit : Numeral(<<d>>)
    BY DEF Numeral
  <2>3. \A i \in 1 .. 12 : i <= u => i \in Digit
    BY DEF Digit
  <2>4. Numeral(fixStatus)
    BY <2>1, <2>2 DEF FixStatus
  <2>5. Numeral(<<1>>)
    BY <2>1, <2>2
  <2>6. \A i \in 1 .. 12 : Numeral(IF i <= u THEN <<i>> ELSE <<>>)
    BY <2>2, <2>3
  <2> QED BY <2>4, <2>5, <2>6
<1>1. fixStatus \in S /\ <<1>> \in S /\ <<LETTER>> \in S
  <2>1. fixStatus \in Seq(Plain) /\ <<1>> \in Seq(Plain)
    BY <1>0, PlainNumeral
  <2>2. LETTER \in Plain
    BY DEF Plain
  <2>3. <<LETTER>> \in Seq(Plain)
    BY <2>2
  <2> QED BY <2>1, <2>3
<1>2. \A i \in 1 .. 12 : (IF i <= u THEN <<i>> ELSE <<>>) \in S
  <2> SUFFICES ASSUME NEW i \in 1 .. 12 PROVE (IF i <= u THEN <<i>> ELSE <<>>) \in Seq(Plain)
    OBVIOUS
  <2> DEFINE x == IF i <= u THEN <<i>> ELSE <<>>
  <2>1. Numeral(x)
    BY <1>0
  <2> HIDE DEF x
  <2>2. x \in Seq(Plain)
    BY <2>1, PlainNumeral
  <2> QED BY <2>2 DEF x
<1>3. GSALine(fixStatus, u) = Line(F)
  BY DEF GSALine
<1> HIDE DEF S
<1>4. A \in Seq(S) /\ Len(A) = 2 /\ A[1] = <<LETTER>> /\ A[2] = fixStatus
  BY <1>1
<1>5. B \in Seq(S) /\ Len(B) = 12 /\ \A i \in 1 .. 12 : B[i] = IF i <= u THEN <<i>> ELSE <<>>
  BY <1>2
<1>6. C \in Seq(S) /\ Len(C) = 3 /\ \A i \in 1 .. 3 : C[i] = <<1>>
  BY <1>1
<1> HIDE DEF A, B, C, AB, F
<1>7. /\ AB \in Seq(S) /\ Len(AB) = Len(A) + Len(B)
      /\ \A j \in 1 .. Len(A) : AB[j] = A[j]
      /\ \A j \in 1 .. Len(B) : AB[Len(A) + j] = B[j]
  <2>1. A \in Seq(S) /\ B \in Seq(S)
    BY <1>4, <1>5
  <2> QED BY <2>1, Joined DEF AB
<1>8. /\ F \in Seq(S) /\ Len(F) = Len(AB) + Len(C)
      /\ \A j \in 1 .. Len(AB) : F[j] = AB[j]
      /\ \A j \in 1 .. Len(C) : F[Len(AB) + j] = C[j]
  <2>1. AB \in Seq(S) /\ C \in Seq(S)
    BY <1>6, <1>7
  <2> QED BY <2>1, Joined DEF F
<1>9. /\ Len(F) = 17
      /\ \A j \in 1 .. 14 : F[j] = AB[j]
      /\ \A j \in 1 .. 2 : AB[j] = A[j]
      /\ \A j \in 1 .. 12 : AB[2 + j] = B[j]
      /\ \A j \in 1 .. 3 : F[14 + j] = C[j]
  BY <1>4, <1>5, <1>6, <1>7, <1>8
<1>10. ASSUME NEW i \in 3 .. 14 PROVE F[i] = IF i - 2 <= u THEN <<i - 2>> ELSE <<>>
  <2>1. i \in 1 .. 14 /\ i - 2 \in 1 .. 12 /\ 2 + (i - 2) = i
    OBVIOUS
  <2>2. F[i] = AB[i] /\ AB[2 + (i - 2)] = B[i - 2]
    BY <1>9, <2>1
  <2> QED BY <1>5, <2>1, <2>2
<1>11. ASSUME NEW i \in 1 .. 17 PROVE Numeral(F[i]) \/ F[i] = <<LETTER>>
  <2>1. CASE i = 1
    BY <1>4, <1>9, <2>1
  <2>2. CASE i = 2
    BY <1>0, <1>4, <1>9, <2>2
  <2>3. CASE i \in 3 .. 14
    <3>1. i - 2 \in 1 .. 12
      BY <2>3
    <3> QED BY <1>0, <1>10, <2>3, <3>1
  <2>4. CASE i \in 15 .. 17
    <3>1. i - 14 \in 1 .. 3 /\ 14 + (i - 14) = i
      BY <2>4
    <3>2. F[14 + (i - 14)] = C[i - 14]
      BY <1>9, <3>1
    <3> QED BY <1>0, <1>6, <3>1, <3>2
  <2> QED BY <2>1, <2>2, <2>3, <2>4
<1>12. SomeFields(F, 17)
  <2>1. F \in Seq(Seq(Plain)) /\ Len(F) = 17
    BY <1>8, <1>9, Zenon DEF S
  <2>2. 17 \in Nat \ {0}
    OBVIOUS
  <2> QED BY <1>11, <2>1, <2>2, FieldsMade
<1>13. ASSUME NEW i \in 3 .. 14 PROVE Numeral(F[i]) /\ str2int(F[i]) = GSAFields(u)[i]
  <2>1. F[i] = IF i - 2 <= u THEN <<i - 2>> ELSE <<>>
    BY <1>10
  <2>2. Numeral(F[i])
    <3>1. i - 2 \in 1 .. 12
      OBVIOUS
    <3> QED BY <1>0, <2>1, <3>1
  <2>3. str2int(F[i]) = IF F[i] = <<>> THEN 0 ELSE F[i][1]
    BY <2>2, ValueOfNumeral
  <2>4. F[i] = <<>> <=> ~ (i - 2 <= u)
    BY <2>1
  <2>5. i - 2 <= u => F[i][1] = i - 2
    BY <2>1
  <2>6. GSAFields(u)[i] = IF i - 2 <= u THEN i - 2 ELSE 0
    BY DEF GSAFields, LastField
  <2> QED BY <2>2, <2>3, <2>4, <2>5, <2>6
<1> QED BY <1>3, <1>12, <1>13

(* Which satellites a GSV describes. *)
LEMMA SentenceNumbers ==
  ASSUME view \in 0 .. 9, NEW s \in 1 .. Sentences
  PROVE  /\ Sentences \in 1 .. 3 /\ s \in 1 .. 3
         /\ LET last == IF s * PerSentence < view THEN s * PerSentence ELSE view
                count == last - (s - 1) * PerSentence
            IN  /\ count \in 0 .. 4 /\ (view # 0 => count >= 1)
                /\ \A i \in 4 .. LastField :
                     LET satellite == (s - 1) * PerSentence + i \div 4
                     IN  /\ satellite \in Nat \ {0}
                         /\ i <= 3 + 4 * count => satellite <= view
                         /\ ~ (i <= 3 + 4 * count) => satellite > view
<1>1. Sentences = IF view = 0 THEN 1 ELSE (view + 3) \div 4
  BY DEF Sentences, PerSentence
<1>2. Sentences \in 1 .. 3 /\ (view # 0 => 4 * (Sentences - 1) < view)
  BY <1>1
<1>3. s \in 1 .. 3 /\ (view # 0 => 4 * (s - 1) < view) /\ (view = 0 => s = 1)
  BY <1>1, <1>2
<1> DEFINE last == IF s * 4 < view THEN s * 4 ELSE view
           count == last - (s - 1) * 4
<1>4. count \in 0 .. 4 /\ (view # 0 => count >= 1)
  BY <1>3
<1>5. ASSUME NEW i \in 4 .. 19
      PROVE  LET satellite == (s - 1) * 4 + i \div 4
             IN  /\ satellite \in Nat \ {0}
                 /\ i <= 3 + 4 * count => satellite <= view
                 /\ ~ (i <= 3 + 4 * count) => satellite > view
  <2>1. i \div 4 \in 1 .. 4 /\ 4 * (i \div 4) <= i /\ i < 4 * (i \div 4) + 4
    OBVIOUS
  <2> DEFINE d == i \div 4
  <2> HIDE DEF d
  <2>2. (s - 1) * 4 + d \in Nat \ {0}
    BY <1>3, <2>1 DEF d
  <2>3. ASSUME i <= 3 + 4 * count PROVE (s - 1) * 4 + d <= view
    <3>1. d <= count
      BY <1>4, <2>1, <2>3 DEF d
    <3>2. (s - 1) * 4 + count <= view
      BY <1>3
    <3> QED BY <1>3, <1>4, <2>1, <3>1, <3>2 DEF d
  <2>4. ASSUME ~ (i <= 3 + 4 * count) PROVE (s - 1) * 4 + d > view
    <3>1. d > count
      BY <1>4, <2>1, <2>4 DEF d
    <3>2. count < 4
      BY <2>1, <3>1, <1>4 DEF d
    <3>3. (s - 1) * 4 + count = view
      BY <1>3, <3>2
    <3> QED BY <1>3, <1>4, <2>1, <3>1, <3>3 DEF d
  <2> QED BY <2>2, <2>3, <2>4 DEF d
<1>6. PerSentence = 4 /\ LastField = 19
  BY DEF PerSentence, LastField
<1> HIDE DEF last, count
<1>7. /\ last = IF s * PerSentence < view THEN s * PerSentence ELSE view
      /\ count = last - (s - 1) * PerSentence
  BY <1>6 DEF last, count
<1>8. \A i \in 4 .. LastField :
        LET satellite == (s - 1) * PerSentence + i \div 4
        IN  /\ satellite \in Nat \ {0}
            /\ i <= 3 + 4 * count => satellite <= view
            /\ ~ (i <= 3 + 4 * count) => satellite > view
  BY <1>5, <1>6
<1> QED BY <1>2, <1>3, <1>4, <1>7, <1>8, Zenon

(* The fields of a GSV say the numbers of GSVFields. *)
LEMMA GSVFieldsSent ==
  ASSUME view \in 0 .. 9, NEW s \in 1 .. Sentences
  PROVE  \E F, m : /\ SomeFields(F, m) /\ m \in 3 .. LastField /\ m % 4 = 3 /\ (view # 0 => m > 4)
                   /\ GSVLine(s) = Line(F)
                   /\ \A i \in 1 .. m : Numeral(F[i]) /\ str2int(F[i]) = GSVFields(s)[i]
                   /\ \A i \in m + 1 .. LastField : GSVFields(s)[i] = 0
<1> DEFINE last == IF s * PerSentence < view THEN s * PerSentence ELSE view
           count == last - (s - 1) * PerSentence
           m == 3 + 4 * count
           satellite(i) == (s - 1) * PerSentence + i \div 4
           place(k) == <<<<k>>, <<0>>, <<0>>, IF Tracked(k) THEN <<Snr>> ELSE <<>>>>
           field(i) == IF i <= 3 THEN <<<<Sentences, s, view>>[i]>> ELSE place(satellite(i))[(i % 4) + 1]
           F == [i \in 1 .. m |-> field(i)]
<1>1. /\ Sentences \in 1 .. 3 /\ s \in 1 .. 3
      /\ count \in 0 .. 4 /\ (view # 0 => count >= 1)
      /\ \A i \in 4 .. LastField :
           /\ satellite(i) \in Nat \ {0}
           /\ i <= 3 + 4 * count => satellite(i) <= view
           /\ ~ (i <= 3 + 4 * count) => satellite(i) > view
  BY SentenceNumbers
<1>2. GSVLine(s) = Line(F)
  BY DEF GSVLine
<1> HIDE DEF last, count
<1>3. m \in 3 .. 19 /\ m % 4 = 3 /\ (view # 0 => m > 4)
  BY <1>1
<1>a. m \in 3 .. LastField
  BY <1>3 DEF LastField
<1>4. \A i \in 4 .. LastField :
        /\ satellite(i) \in Nat \ {0}
        /\ i <= m => satellite(i) <= view
        /\ ~ (i <= m) => satellite(i) > view
  BY <1>1
<1> DEFINE number(i) == IF i <= 3 THEN <<Sentences, s, view>>[i]
                        ELSE IF satellite(i) > view THEN 0
                        ELSE IF i % 4 = 0 THEN satellite(i)
                        ELSE IF i % 4 = 3 /\ Tracked(satellite(i)) THEN Snr
                        ELSE 0
<1>5. \A i \in 1 .. LastField : GSVFields(s)[i] = number(i)
  BY DEF GSVFields
<1>6. /\ 0 \in Digit /\ Snr \in Digit /\ Numeral(<<>>) /\ str2int(<<>>) = 0
      /\ \A d \in Digit : Numeral(<<d>>) /\ str2int(<<d>>) = d
  BY ValueOfNothing, ValueOfDigit DEF Numeral, Digit, Snr
<1> HIDE DEF m, satellite
<1>7. ASSUME NEW i \in 1 .. m
      PROVE  Numeral(field(i)) /\ str2int(field(i)) = number(i)
  <2>1. CASE i <= 3
    <3>1. i \in 1 .. 3
      BY <1>3, <2>1
    <3>2. <<Sentences, s, view>>[i] \in Digit
      BY <1>1, <3>1 DEF Digit
    <3> QED BY <1>6, <2>1, <3>2
  <2>2. CASE ~ (i <= 3)
    <3> DEFINE k == satellite(i)
               r == i % 4
    <3>1. i \in 4 .. LastField /\ i <= m
      BY <1>3, <2>2 DEF LastField
    <3>2. k \in 1 .. view /\ ~ (k > view)
      <4>1. k \in Nat \ {0} /\ k <= view
        BY <1>4, <3>1
      <4> QED BY <4>1
    <3>3. k \in Digit
      BY <3>2 DEF Digit
    <3>4. r \in 0 .. 3
      BY <3>1 DEF LastField
    <3>5. /\ field(i) = place(k)[r + 1]
          /\ number(i) = IF r = 0 THEN k ELSE IF r = 3 /\ Tracked(k) THEN Snr ELSE 0
      BY <2>2, <3>2
    <3> HIDE DEF k, r, field, number
    <3>6. CASE r = 0
      BY <1>6, <3>3, <3>5, <3>6
    <3>7. CASE r = 1
      BY <1>6, <3>5, <3>7
    <3>8. CASE r = 2
      BY <1>6, <3>5, <3>8
    <3>9. CASE r = 3
      <4>1. field(i) = IF Tracked(k) THEN <<Snr>> ELSE <<>>
        BY <3>5, <3>9
      <4> QED BY <1>6, <3>5, <3>9, <4>1
    <3> QED BY <3>4, <3>6, <3>7, <3>8, <3>9
  <2> QED BY <2>1, <2>2
<1>8. ASSUME NEW i \in m + 1 .. LastField PROVE GSVFields(s)[i] = 0
  <2>1. i \in 4 .. LastField /\ ~ (i <= m) /\ ~ (i <= 3) /\ i \in 1 .. LastField
    BY <1>3
  <2>2. satellite(i) > view
    BY <1>4, <2>1
  <2> QED BY <1>5, <2>1, <2>2
<1> HIDE DEF field, number
<1>9. SomeFields(F, m)
  <2>1. \A i \in 1 .. m : field(i) \in Seq(Plain)
    BY <1>7, PlainNumeral
  <2>2. m \in Nat \ {0}
    BY <1>3
  <2>3. F \in Seq(Seq(Plain)) /\ Len(F) = m
    BY <2>1, <2>2
  <2>4. \A i \in 1 .. m : Numeral(F[i]) \/ F[i] = <<LETTER>>
    BY <1>7
  <2> HIDE DEF F
  <2> QED BY <2>2, <2>3, <2>4, FieldsMade
<1>10. ASSUME NEW i \in 1 .. m PROVE Numeral(F[i]) /\ str2int(F[i]) = GSVFields(s)[i]
  <2>1. F[i] = field(i)
    OBVIOUS
  <2>2. i \in 1 .. LastField
    BY <1>3 DEF LastField
  <2> QED BY <1>5, <1>7, <2>1, <2>2
<1> HIDE DEF F
<1> QED BY <1>2, <1>3, <1>a, <1>8, <1>9, <1>10

(* What arrives of a sentence. *)
Arriving(sentence) == {sentence} \cup CutShort(sentence)

(* The numbers read of a GSA, whole or cut, are those of its first n fields. *)
LEMMA GSANumbersRead ==
  ASSUME NEW fixStatus \in FixStatus, NEW u \in 0 .. 9, NEW s \in Arriving(GSALine(fixStatus, u))
  PROVE  \E n \in 0 .. LastField :
           /\ Sound(s) => n = LastField
           /\ \A i \in 3 .. 14 : GSANumbers(s)[i] = Read(GSAFields(u), n, FALSE)[i]
<1>1. PICK F : /\ SomeFields(F, 17)
               /\ GSALine(fixStatus, u) = Line(F)
               /\ \A i \in 3 .. 14 : Numeral(F[i]) /\ str2int(F[i]) = GSAFields(u)[i]
  BY GSAFieldsSent
<1>2. s \in {Line(F)} \cup CutShort(Line(F))
  BY <1>1 DEF Arriving
<1>3. PlainFields(F) /\ OneCharacter(F) /\ Len(F) = 17 /\ Len(F) >= 2
  BY <1>1 DEF SomeFields
<1>4. PICK k \in 0 .. Len(F) : /\ Sound(s) => k = Len(F)
                               /\ \A i \in Nat \ {0} : TextIs(s, F, k, i)
  BY <1>2, <1>3, ReadTexts
<1> DEFINE n == IF k = 17 THEN LastField ELSE k
<1>5. n \in 0 .. LastField /\ (Sound(s) => n = LastField) /\ \A i \in 3 .. 14 : i <= n <=> i <= k
  BY <1>3, <1>4 DEF LastField
<1> HIDE DEF n
<1>6. ASSUME NEW i \in 3 .. 14 PROVE GSANumbers(s)[i] = Read(GSAFields(u), n, FALSE)[i]
  <2>1. i \in 1 .. LastField /\ i \in Nat \ {0} /\ i # 17 /\ i \in Int
    BY DEF LastField
  <2>2. GSANumbers(s)[i] = str2int(TextOf(s, i))
    BY <2>1 DEF GSANumbers, TextOf
  <2>3. TextIs(s, F, k, i)
    BY <1>4, <2>1
  <2>4. Read(GSAFields(u), n, FALSE)[i]
          = IF i >= MAX_NMEA_TOKENS THEN 0 ELSE IF i <= n THEN GSAFields(u)[i] ELSE 0
    BY <2>1, Zenon DEF Read
  <2>5. k \in Int /\ (i > k <=> ~ (i <= n))
    BY <1>3, <1>4, <1>5
  <2>6. CASE i > k \/ i >= MAX_NMEA_TOKENS
    <3>1. TextOf(s, i) = <<>>
      BY <2>3, <2>6, Zenon DEF TextIs
    <3>2. GSANumbers(s)[i] = 0
      BY <2>2, <3>1, ValueOfNothing
    <3> QED BY <2>4, <2>5, <2>6, <3>2
  <2>7. CASE ~ (i > k \/ i >= MAX_NMEA_TOKENS)
    <3>1. TextOf(s, i) = F[i]
      BY <1>3, <2>1, <2>3, <2>7, Zenon DEF TextIs
    <3>2. str2int(F[i]) = GSAFields(u)[i]
      BY <1>1
    <3> QED BY <2>2, <2>4, <2>5, <2>7, <3>1, <3>2
  <2> QED BY <2>6, <2>7
<1> QED BY <1>5, <1>6

(* The numbers read of a GSV, whole or cut, are those of its first n
   fields.  The 0 satellites of a receiver that sees none may be cut in the
   checksum and read as -1: neither is a satellite. *)
LEMMA GSVNumbersRead ==
  ASSUME view \in 0 .. 9, NEW j \in 1 .. Sentences, NEW s \in Arriving(GSVLine(j))
  PROVE  \E n \in 0 .. LastField :
           /\ Sound(s) => n = LastField
           /\ view # 0 => GSVNumbers(s) = Read(GSVFields(j), n, FALSE)
           /\ view = 0 => GSVNumbers(s)[3] \in -1 .. 0 /\ Read(GSVFields(j), n, FALSE)[3] = 0
<1>1. PICK F, m : /\ SomeFields(F, m) /\ m \in 3 .. LastField /\ m % 4 = 3 /\ (view # 0 => m > 4)
                  /\ GSVLine(j) = Line(F)
                  /\ \A i \in 1 .. m : Numeral(F[i]) /\ str2int(F[i]) = GSVFields(j)[i]
                  /\ \A i \in m + 1 .. LastField : GSVFields(j)[i] = 0
  BY GSVFieldsSent
<1>2. s \in {Line(F)} \cup CutShort(Line(F))
  BY <1>1 DEF Arriving
<1>3. PlainFields(F) /\ OneCharacter(F) /\ Len(F) = m /\ Len(F) >= 2
  BY <1>1 DEF SomeFields, LastField
<1>4. PICK k \in 0 .. Len(F) : /\ Sound(s) => k = Len(F)
                               /\ \A i \in Nat \ {0} : TextIs(s, F, k, i)
  BY <1>2, <1>3, ReadTexts
<1> DEFINE n == IF k = m THEN LastField ELSE k
           value(i) == IF i > 4 /\ i % 4 = 3 THEN str2float(TextOf(s, i)) ELSE str2int(TextOf(s, i))
<1>5. m \in 3 .. 19 /\ k \in 0 .. m /\ LastField = 19
  BY <1>1, <1>3, <1>4 DEF LastField
<1>6. n \in 0 .. LastField /\ (Sound(s) => n = LastField) /\ \A i \in 1 .. m : i <= n <=> i <= k
  BY <1>3, <1>4, <1>5
<1>7. /\ GSVNumbers(s) = [i \in 1 .. LastField |-> value(i)]
      /\ Read(GSVFields(j), n, FALSE)
           = [i \in 1 .. LastField |-> IF i >= MAX_NMEA_TOKENS THEN 0 ELSE IF i <= n THEN GSVFields(j)[i] ELSE 0]
  BY Zenon DEF GSVNumbers, Read, TextOf
<1>a. n = IF k = m THEN LastField ELSE k
  OBVIOUS
<1> HIDE DEF n
<1>8. Numeral(<<>>) /\ str2int(<<>>) = 0 /\ str2float(<<>>) = 0
  <2>1. Numeral(<<>>)
    BY DEF Numeral
  <2> QED BY <2>1, ValueOfNothing, FloatOfNumeral
<1>9. ASSUME NEW i \in 1 .. LastField
      PROVE  \/ value(i) = IF i >= MAX_NMEA_TOKENS THEN 0 ELSE IF i <= n THEN GSVFields(j)[i] ELSE 0
             \/ i = 3 /\ m = 3 /\ value(i) = -1
  <2>1. TextIs(s, F, k, i) /\ i \in Nat \ {0}
    BY <1>4
  <2>2. CASE i > k \/ i >= MAX_NMEA_TOKENS
    <3>1. TextOf(s, i) = <<>>
      BY <2>1, <2>2, Zenon DEF TextIs
    <3>2. value(i) = 0
      BY <1>8, <3>1
    <3>3. i > k => ~ (i <= n) \/ GSVFields(j)[i] = 0
      <4>1. CASE i \in 1 .. m
        BY <1>5, <1>6, <4>1
      <4>2. CASE i \notin 1 .. m
        <5>1. i \in m + 1 .. LastField
          BY <1>5, <4>2
        <5> QED BY <1>1, <5>1
      <4> QED BY <4>1, <4>2
    <3> QED BY <2>2, <3>2, <3>3
  <2>3. CASE ~ (i > k \/ i >= MAX_NMEA_TOKENS)
    <3>1. i \in 1 .. m /\ i <= n
      BY <1>5, <1>6, <2>3
    <3>2. Numeral(F[i]) /\ str2int(F[i]) = GSVFields(j)[i]
      BY <1>1, <3>1
    <3>3. \/ TextOf(s, i) = F[i]
          \/ i = m /\ Garbled(TextOf(s, i), F[i])
      BY <1>3, <2>1, <2>3, Zenon DEF TextIs
    <3>4. CASE TextOf(s, i) = F[i]
      <4>1. value(i) = GSVFields(j)[i]
        BY <3>2, <3>4, FloatOfNumeral
      <4> QED BY <2>3, <3>1, <4>1
    <3>5. CASE i = m /\ Garbled(TextOf(s, i), F[i])
      <4>1. CASE m > 4
        <5>1. value(i) = str2float(TextOf(s, i))
          BY <1>1, <3>5, <4>1
        <5>2. str2float(TextOf(s, i)) = str2int(F[i])
          BY <3>2, <3>5, FloatOfGarbled
        <5> QED BY <2>3, <3>1, <3>2, <5>1, <5>2
      <4>2. CASE ~ (m > 4)
        <5>1. m = 3
          BY <1>1, <1>5, <4>2
        <5>2. value(i) = str2int(TextOf(s, i))
          BY <3>5, <5>1
        <5>3. Len(F[i]) \in Nat /\ Len(F[i]) + 1 \in 1 .. Len(TextOf(s, i)) /\ TextOf(s, i)[Len(F[i]) + 1] = STAR
          <6>1. Len(F[i]) \in 0 .. 1
            BY <3>2, NumeralLength
          <6>2. Len(TextOf(s, i)) \in Len(F[i]) + 1 .. Len(F[i]) + 2 /\ TextOf(s, i)[Len(F[i]) + 1] = STAR
            BY <3>5, Zenon DEF Garbled
          <6> QED BY <6>1, <6>2
        <5>4. STAR \notin Digit
          BY DEF STAR, Digit
        <5>5. str2int(TextOf(s, i)) = -1
          <6> DEFINE t == TextOf(s, i)
                     p == Len(F[i]) + 1
          <6>1. p \in 1 .. Len(t) /\ t[p] \notin Digit
            BY <5>3, <5>4
          <6> HIDE DEF t, p
          <6>2. str2int(t) = -1
            BY <6>1, ValueOfOther
          <6> QED BY <6>2 DEF t
        <5> QED BY <3>5, <5>1, <5>2, <5>5
      <4> QED BY <4>1, <4>2
    <3> QED BY <3>3, <3>4, <3>5
  <2> QED BY <2>2, <2>3
<1> HIDE DEF value
<1>10. ASSUME view # 0 PROVE GSVNumbers(s) = Read(GSVFields(j), n, FALSE)
  <2>0. m # 3
    BY <1>1, <1>5, <1>10
  <2>1. \A i \in 1 .. LastField :
          value(i) = IF i >= MAX_NMEA_TOKENS THEN 0 ELSE IF i <= n THEN GSVFields(j)[i] ELSE 0
    BY <1>9, <2>0
  <2> QED BY <1>7, <2>1
<1>11. ASSUME view = 0 PROVE GSVNumbers(s)[3] \in -1 .. 0 /\ Read(GSVFields(j), n, FALSE)[3] = 0
  <2>1. 3 \in 1 .. LastField
    BY <1>5
  <2>2. GSVFields(j)[3] = 0
    <3>1. GSVFields(j)[3] = <<Sentences, j, view>>[3]
      BY <2>1 DEF GSVFields
    <3> QED BY <1>11, <3>1
  <2>3. /\ GSVNumbers(s)[3] = value(3)
        /\ Read(GSVFields(j), n, FALSE)[3]
             = IF 3 >= MAX_NMEA_TOKENS THEN 0 ELSE IF 3 <= n THEN GSVFields(j)[3] ELSE 0
    BY <1>7, <2>1
  <2>4. value(3) = 0 \/ value(3) = -1
    BY <1>9, <2>1, <2>2
  <2>5. GSVNumbers(s)[3] \in -1 .. 0
    BY <2>3, <2>4
  <2>6. Read(GSVFields(j), n, FALSE)[3] = 0
    BY <2>2, <2>3, Zenon
  <2> QED BY <2>5, <2>6
<1> QED BY <1>6, <1>10, <1>11

-----------------------------------------------------------------------------
(* What has been received and not yet parsed is a sentence of the receiver, or what is left of one. *)
LineOK ==
  line # <<>> =>
    \/ next = 0 /\ \E fixStatus \in FixStatus, u \in 0 .. view :
                     line \in Arriving(GSALine(fixStatus, u))
    \/ next \in 1 .. Sentences /\ line \in Arriving(GSVLine(next))

LineInv == view \in Views /\ LineOK

(* The receiver sees at most nine satellites. *)
LEMMA ViewIsDigit == ASSUME view \in Views PROVE view \in 0 .. 9
BY DigitAssumption DEF DigitAssumption, Digit

(* Initially there is nothing to parse. *)
LEMMA LineInvInit == Init => LineInv
BY DEF Init, SvInit, LineInv, LineOK

(* No step spoils what is to be parsed. *)
LEMMA LineInvStep == LineInv /\ [Next]_vars => LineInv'
<1> SUFFICES ASSUME LineInv, [Next]_vars PROVE LineInv'
  OBVIOUS
<1>0. view \in 0 .. 9
  BY ViewIsDigit DEF LineInv
<1>1. CASE SendGSA
  <2>1. PICK fixStatus \in FixStatus, u \in {0, view} :
          line' \in Arriving(GSALine(fixStatus, u))
    BY <1>1, Zenon DEF SendGSA, Arriving
  <2>2. u \in 0 .. view
    BY <1>0
  <2>3. next = 0 /\ next' = next /\ view' = view
    BY <1>1 DEF SendGSA, svvars, hvars
  <2> QED BY <2>1, <2>2, <2>3, Zenon DEF LineInv, LineOK, Arriving, GSALine
<1>2. CASE SendGSV
  <2>1. line' \in Arriving(GSVLine(next)) /\ next \in 1 .. Sentences
    BY <1>2, Zenon DEF SendGSV, Arriving
  <2>2. next' = next /\ view' = view
    BY <1>2 DEF SendGSV, svvars, hvars
  <2>3. Sentences' = Sentences /\ GSVLine(next)' = GSVLine(next)
    BY <2>2 DEF Sentences, GSVLine
  <2> QED BY <2>1, <2>2, <2>3, Zenon DEF LineInv, LineOK, Arriving
<1>3. CASE Parse
  BY <1>3 DEF Parse, ArrivesGSA, ArrivesGSV, LineInv, LineOK
<1>4. CASE Lose
  BY <1>4 DEF Lose, LoseSentence, LineInv, LineOK
<1>5. CASE NewCycle
  BY <1>5 DEF NewCycle, BeginCycle, LineInv, LineOK
<1>6. CASE UNCHANGED vars
  <2>1. line' = line /\ next' = next /\ view' = view
    BY <1>6 DEF vars, svvars, hvars
  <2>2. Sentences' = Sentences /\ GSVLine(next)' = GSVLine(next)
    BY <2>1 DEF Sentences, GSVLine
  <2> QED BY <2>1, <2>2, Zenon DEF LineInv, LineOK, Arriving, GSALine
<1> QED BY <1>1, <1>2, <1>3, <1>4, <1>5, <1>6 DEF Next

(* Parsing a GSA does what its numbers say. *)
LEMMA ParseGSA ==
  ASSUME LineInv, line # <<>>, ArrivesGSA(Fixed(line), GSANumbers(line), Sound(line))
  PROVE  SomeGSA
<1>0. view \in 0 .. 9
  BY ViewIsDigit DEF LineInv
<1>1. next = 0
  BY DEF ArrivesGSA
<1>2. PICK fixStatus \in FixStatus, u \in 0 .. view : line \in Arriving(GSALine(fixStatus, u))
  BY <1>1 DEF LineInv, LineOK
<1>3. u \in 0 .. 9
  BY <1>0
<1>4. PICK n \in 0 .. LastField :
        /\ Sound(line) => n = LastField
        /\ \A i \in 3 .. 14 : GSANumbers(line)[i] = Read(GSAFields(u), n, FALSE)[i]
  BY <1>2, <1>3, GSANumbersRead
<1> DEFINE number == Read(GSAFields(u), n, FALSE)
<1>5. Used(GSANumbers(line)) = Used(number)
  BY <1>4, Zenon DEF Used
<1> HIDE DEF number
<1>6. ArrivesGSA(Fixed(line), number, Sound(line))
  BY <1>5, Zenon DEF ArrivesGSA, GSA
<1>7. Fixed(line) \in BOOLEAN /\ Sound(line) \in BOOLEAN /\ FALSE \in BOOLEAN
  BY DEF Fixed, Sound
<1> QED BY <1>4, <1>6, <1>7, Zenon DEF SomeGSA, number

(* Parsing a GSV does what its numbers say. *)
LEMMA ParseGSV ==
  ASSUME LineInv, line # <<>>, next > 0, ArrivesGSV(GSVNumbers(line), Sound(line))
  PROVE  SomeGSV
<1>0. view \in 0 .. 9
  BY ViewIsDigit DEF LineInv
<1>1. next \in 1 .. Sentences /\ next # 0
  BY DEF ArrivesGSV
<1>2. line \in Arriving(GSVLine(next))
  BY <1>1 DEF LineInv, LineOK
<1>3. PICK n \in 0 .. LastField :
        /\ Sound(line) => n = LastField
        /\ view # 0 => GSVNumbers(line) = Read(GSVFields(next), n, FALSE)
        /\ view = 0 => GSVNumbers(line)[3] \in -1 .. 0 /\ Read(GSVFields(next), n, FALSE)[3] = 0
  BY <1>0, <1>1, <1>2, GSVNumbersRead
<1> DEFINE number == Read(GSVFields(next), n, FALSE)
           received == GSVNumbers(line)
<1>4. ArrivesGSV(number, Sound(line))
  <2>1. CASE view # 0
    BY <1>3, <2>1
  <2>2. CASE view = 0
    <3>1. received[3] \in -1 .. 0 /\ number[3] = 0
      BY <1>3, <2>2
    <3>2. ArrivesGSV(received, Sound(line))
      OBVIOUS
    <3> HIDE DEF number, received
    <3>3. received[3] <= 0 /\ number[3] <= 0 /\ ~ (received[3] > 0) /\ ~ (number[3] > 0)
      BY <3>1
    <3> QED BY <3>2, <3>3, Zenon DEF ArrivesGSV, GSV
  <2> QED BY <2>1, <2>2
<1>5. Sound(line) \in BOOLEAN /\ FALSE \in BOOLEAN
  BY DEF Sound
<1> HIDE DEF number
<1> QED BY <1>3, <1>4, <1>5, Zenon DEF SomeGSV, number

(* A step with sentences of characters is one with sentences of numbers, or none. *)
LEMMA StepRefines == LineInv /\ [Next]_vars => [SvNext]_svvars
<1> SUFFICES ASSUME LineInv, [Next]_vars PROVE SvNext \/ UNCHANGED svvars
  BY Zenon
<1>1. CASE SendGSA
  BY <1>1 DEF SendGSA
<1>2. CASE SendGSV
  BY <1>2 DEF SendGSV
<1>3. CASE Parse
  <2>1. CASE ArrivesGSA(Fixed(line), GSANumbers(line), Sound(line))
    BY <1>3, <2>1, ParseGSA DEF Parse, SvNext
  <2>2. CASE next > 0 /\ ArrivesGSV(GSVNumbers(line), Sound(line))
    BY <1>3, <2>2, ParseGSV DEF Parse, SvNext
  <2> QED BY <1>3, <2>1, <2>2, Zenon DEF Parse
<1>4. CASE Lose
  BY <1>4, Zenon DEF Lose, SvNext
<1>5. CASE NewCycle
  BY <1>5, Zenon DEF NewCycle, SvNext
<1>6. CASE UNCHANGED vars
  BY <1>6 DEF vars
<1> QED BY <1>1, <1>2, <1>3, <1>4, <1>5, <1>6, Zenon DEF Next

(* The tokens of what is to be parsed are its fields. *)
LEMMA LineTokens == LineInv => TokensAreFields
<1> SUFFICES ASSUME LineInv,
                    ~ \E k \in 1 .. Len(line) : line[k] = STAR /\ line[Len(line) - 1] # CR,
                    NEW i \in 0 .. MAX_NMEA_TOKENS
             PROVE  Text(line, nmea_tokenizer_get(nmea_tokenizer_init(line), i))
                      = IF i < MAX_NMEA_TOKENS THEN Field(line, i) ELSE <<>>
  BY Zenon DEF TokensAreFields
<1>0. i \in Nat
  BY TokenizerAssumption DEF TokenizerAssumption
<1>1. view \in 0 .. 9
  BY ViewIsDigit DEF LineInv
<1>2. CASE line = <<>>
  <2>1. line \in Seq(Character) /\ Len(line) = 0
    BY <1>2, EmptySeq
  <2>2. WellFormed(line)
    BY <1>2, <2>1 DEF WellFormed, Begin
  <2> QED BY <1>0, <2>1, <2>2, FieldsAreTokens
<1>3. ASSUME NEW F, NEW m, SomeFields(F, m), m >= 2, line \in Arriving(Line(F))
      PROVE  line \in Seq(Character) /\ WellFormed(line)
  <2>1. PlainFields(F) /\ Len(F) = m
    BY <1>3 DEF SomeFields
  <2>2. PICK c : Columns(Line(F), F, m, c)
    BY <2>1, LineColumns
  <2>3. line \in {Line(F)} \cup CutShort(Line(F))
    BY <1>3 DEF Arriving
  <2> DEFINE star == c[m + 1]
             e == End(line)
  <2>4. /\ line \in Seq(Character) /\ e \in 9 .. star + 2
        /\ e > star => ~ Sound(line) /\ \E k \in 1 .. Len(line) : line[k] = STAR
        /\ e <= star => WellFormed(line)
    BY <1>3, <2>2, <2>3, ReceivedFacts
  <2>5. star \in Nat
    BY <2>2, LineCharacters
  <2>6. e <= star
    <3>1. ~ (e > star)
      BY <2>4 DEF Sound
    <3> HIDE DEF e, star
    <3> QED BY <2>4, <2>5, <3>1
  <2> QED BY <2>4, <2>6
<1>4. CASE line # <<>> /\ next = 0
  <2>1. PICK fixStatus \in FixStatus, u \in 0 .. view : line \in Arriving(GSALine(fixStatus, u))
    BY <1>4 DEF LineInv, LineOK
  <2>2. u \in 0 .. 9
    BY <1>1
  <2>3. PICK F : SomeFields(F, 17) /\ GSALine(fixStatus, u) = Line(F)
    BY <2>2, GSAFieldsSent
  <2>4. 17 >= 2
    OBVIOUS
  <2>5. line \in Seq(Character) /\ WellFormed(line)
    BY <1>3, <2>1, <2>3, <2>4
  <2> QED BY <1>0, <2>5, FieldsAreTokens
<1>5. CASE line # <<>> /\ next # 0
  <2>1. next \in 1 .. Sentences /\ line \in Arriving(GSVLine(next))
    BY <1>5 DEF LineInv, LineOK
  <2>2. PICK F, m : SomeFields(F, m) /\ m \in 3 .. LastField /\ GSVLine(next) = Line(F)
    BY <1>1, <2>1, GSVFieldsSent
  <2>3. m >= 2
    BY <2>2 DEF LastField
  <2>4. line \in Seq(Character) /\ WellFormed(line)
    BY <1>3, <2>1, <2>2, <2>3
  <2> QED BY <1>0, <2>4, FieldsAreTokens
<1> QED BY <1>2, <1>4, <1>5

(* What is received and not yet parsed is always a sentence of the
   receiver, or one that lost its end. *)
THEOREM LineInvariance == Spec => []LineInv
BY LineInvInit, LineInvStep, PTL DEF Spec

(* Every token is the field it should be, in everything the receiver can send
   and however it is cut (90-150). *)
THEOREM TokensCorrect == Spec => []TokensAreFields
BY LineInvariance, LineTokens, PTL

(* What the parser makes of the characters is what the fields say as numbers:
   the sentences of GpsSvLines implement those of GpsSv (90-191, 537-661). *)
THEOREM CharactersRefineNumbers == Spec => ReadsItsFields
<1>1. Init => SvInit
  BY DEF Init
<1> QED BY <1>1, StepRefines, LineInvariance, PTL DEF Spec, SvSpec, ReadsItsFields

(* So all that is proved of the numbers holds of the characters: the types,
   the bounds of the list, its masks and the cycle it belongs to (537-661), ... *)
THEOREM LinesInvariance ==
  Spec => [](TypeOK /\ ListFits /\ MaskMatchesList /\ ListIsOfThisCycle)
BY CharactersRefineNumbers, TypeCorrect, ListInBounds, MasksAgree, ListCurrent, PTL DEF ReadsItsFields

(* ... and what is reported, with the sixteen tokens of the code (80). *)
THEOREM LinesReport ==
  ASSUME MAX_NMEA_TOKENS >= 16
  PROVE  Spec => []CompleteReport
<1>1. SvSpec => []CompleteReport
  BY ReportComplete
<1> QED BY <1>1, CharactersRefineNumbers, PTL DEF ReadsItsFields
=============================================================================
