----------------------------- MODULE GpsFix_proofs -----------------------------
(***************************************************************************)
(* Proofs about module GpsFix, for any receiver, any length of the day,    *)
(* any time zone and any host's clock.                                     *)
(***************************************************************************)
EXTENDS GpsFix, TLAPS

(* What holds of the part of NmeaReader that a sentence changes: its type,  *)
(* both coordinates from one sentence, no time or date ahead, and the time *)
(* of day of the position when nothing has been missing.                   *)
RState == [flags : SUBSET Flag, fix : [Value -> {0} \cup Epoch], timestamp : Int,
           utc_day : {-1} \cup Nat]

Typed(r)  == r \in RState /\ r.timestamp >= -EpochsPerDay
Paired(r) == r.fix["latitude"] = r.fix["longitude"]
NotAhead(r) ==
  ClockNotAhead /\ SameYear => r.timestamp <= now /\ r.utc_day <= Day(now)
Timed(r) ==
  complete /\ "LAT_LONG" \in r.flags => TimeOfDay(r.timestamp) = TimeOfDay(r.fix["latitude"])

DiffOK ==
  /\ utc_diff \in {Zone, Zone - EpochsPerDay, Zone + EpochsPerDay}
  /\ SameYear => utc_diff = Zone

(* The inductive invariant. *)
Inv ==
  /\ TypeOK /\ DiffOK
  /\ Typed(Reader) /\ Paired(Reader) /\ NotAhead(Reader) /\ Timed(Reader)
  /\ TimeIsThatOfPosition

-----------------------------------------------------------------------------
(* Days and times of day *)

(* An epoch is a day and a time of day. *)
LEMMA DayFacts ==
  ASSUME NEW n \in Int
  PROVE  /\ Day(n) \in Int
         /\ TimeOfDay(n) \in 0 .. EpochsPerDay - 1
         /\ n = Day(n) * EpochsPerDay + TimeOfDay(n)
<1>1. EpochsPerDay \in Nat /\ EpochsPerDay > 0
  BY FixAssumption DEF FixAssumption
<1> QED BY <1>1 DEF Day, TimeOfDay

(* Days do not overlap. *)
LEMMA Multiples ==
  ASSUME NEW d \in Int, NEW e \in Int, d < e
  PROVE  d * EpochsPerDay + EpochsPerDay <= e * EpochsPerDay
<1>1. EpochsPerDay \in Nat
  BY FixAssumption DEF FixAssumption
<1>2. PICK k \in Nat : e = d + 1 + k
  <2>1. e - d - 1 \in Nat /\ e = d + 1 + (e - d - 1)
    OBVIOUS
  <2> QED BY <2>1
<1>3. e * EpochsPerDay = d * EpochsPerDay + EpochsPerDay + k * EpochsPerDay
  BY <1>1, <1>2
<1>4. k * EpochsPerDay >= 0
  BY <1>1
<1> QED BY <1>1, <1>3, <1>4

(* A day and a time of day are those of one epoch. *)
LEMMA DayUnique ==
  ASSUME NEW d \in Int, NEW t \in 0 .. EpochsPerDay - 1
  PROVE  Day(d * EpochsPerDay + t) = d /\ TimeOfDay(d * EpochsPerDay + t) = t
<1> DEFINE n == d * EpochsPerDay + t
<1>1. EpochsPerDay \in Nat /\ EpochsPerDay > 0
  BY FixAssumption DEF FixAssumption
<1>2. n \in Int /\ t \in Int /\ 0 <= t /\ t < EpochsPerDay
  BY <1>1
<1>3. /\ Day(n) \in Int /\ TimeOfDay(n) \in 0 .. EpochsPerDay - 1
      /\ n = Day(n) * EpochsPerDay + TimeOfDay(n)
  BY <1>2, DayFacts
<1>4. d * EpochsPerDay \in Int /\ Day(n) * EpochsPerDay \in Int
  BY <1>1, <1>3
<1>5. ~(Day(n) < d)
  <2> SUFFICES ASSUME Day(n) < d PROVE FALSE
    OBVIOUS
  <2>1. Day(n) * EpochsPerDay + EpochsPerDay <= d * EpochsPerDay
    BY <1>3, Multiples
  <2> QED BY <1>1, <1>2, <1>3, <1>4, <2>1
<1>6. ~(d < Day(n))
  <2> SUFFICES ASSUME d < Day(n) PROVE FALSE
    OBVIOUS
  <2>1. d * EpochsPerDay + EpochsPerDay <= Day(n) * EpochsPerDay
    BY <1>3, Multiples
  <2> QED BY <1>1, <1>2, <1>3, <1>4, <2>1
<1>7. Day(n) = d
  BY <1>3, <1>5, <1>6
<1> QED BY <1>2, <1>3, <1>4, <1>7

(* Seconds counts the epochs from another day on, and one day more before  *)
(* the new year, because the old one is a leap year.                       *)
LEMMA SecondsFacts ==
  ASSUME NEW n \in Int
  PROVE  Seconds(n) = n + 365 * EpochsPerDay - NewYear * EpochsPerDay
                        + (IF tm_year(n) = 0 THEN EpochsPerDay ELSE 0)
<1> DEFINE P == Day(n) * EpochsPerDay
           Q == NewYear * EpochsPerDay
           R == 365 * EpochsPerDay
           T == TimeOfDay(n)
<1>1. EpochsPerDay \in Nat /\ NewYear \in Nat
  BY FixAssumption DEF FixAssumption
<1>2. Day(n) \in Int /\ T \in Int /\ n = P + T
  BY <1>1, DayFacts
<1>3. P \in Int /\ Q \in Int /\ R \in Int
  BY <1>1, <1>2
<1>4. CASE Day(n) < NewYear
  <2>1. Seconds(n) = (Day(n) - NewYear + 366) * EpochsPerDay + T
    BY <1>1, <1>2, <1>4 DEF Seconds, tm_yday, tm_year
  <2>2. (Day(n) - NewYear + 366) * EpochsPerDay = P - Q + R + EpochsPerDay
    BY <1>1, <1>2
  <2>3. tm_year(n) = 0
    BY <1>4 DEF tm_year
  <2> HIDE DEF P, Q, R, T
  <2>4. Seconds(n) = n + R - Q + EpochsPerDay
    BY <1>1, <1>2, <1>3, <2>1, <2>2
  <2> QED BY <2>3, <2>4 DEF Q, R
<1>5. CASE ~(Day(n) < NewYear)
  <2>1. Seconds(n) = (Day(n) - NewYear + 365) * EpochsPerDay + T
    BY <1>1, <1>2, <1>5 DEF Seconds, tm_yday, tm_year
  <2>2. (Day(n) - NewYear + 365) * EpochsPerDay = P - Q + R
    BY <1>1, <1>2
  <2>3. tm_year(n) = 1
    BY <1>5 DEF tm_year
  <2> HIDE DEF P, Q, R, T
  <2>4. Seconds(n) = n + R - Q + 0 /\ n + R - Q \in Int
    BY <1>1, <1>2, <1>3, <2>1, <2>2
  <2> QED BY <2>3, <2>4 DEF Q, R
<1> QED BY <1>4, <1>5

(* The difference the reader works out is the time zone's, or a day off at *)
(* the turn of the year.                                                   *)
LEMMA DiffFacts ==
  ASSUME NEW clock \in HostClock
  PROVE  /\ nmea_reader_update_utc_diff(clock)
               \in {Zone, Zone - EpochsPerDay, Zone + EpochsPerDay}
         /\ tm_year(clock) = tm_year(clock + Zone) => nmea_reader_update_utc_diff(clock) = Zone
<1>1. /\ EpochsPerDay \in Nat /\ NewYear \in Nat /\ Zone \in Int
      /\ clock \in Int /\ clock + Zone \in Int
  BY FixAssumption DEF FixAssumption
<1>2. tm_year(clock) \in {0, 1} /\ tm_year(clock + Zone) \in {0, 1}
  BY DEF tm_year
<1>3. 365 * EpochsPerDay \in Int /\ NewYear * EpochsPerDay \in Int
  BY <1>1
<1>4. /\ Seconds(clock) = clock + 365 * EpochsPerDay - NewYear * EpochsPerDay
                            + (IF tm_year(clock) = 0 THEN EpochsPerDay ELSE 0)
      /\ Seconds(clock + Zone) = clock + Zone + 365 * EpochsPerDay - NewYear * EpochsPerDay
                            + (IF tm_year(clock + Zone) = 0 THEN EpochsPerDay ELSE 0)
  BY <1>1, SecondsFacts
<1> QED BY <1>1, <1>2, <1>3, <1>4 DEF nmea_reader_update_utc_diff

-----------------------------------------------------------------------------
(* What the update functions do to the reader *)

(* The date a time is combined with is not ahead either. *)
HostDayOK(day) == day \in Nat /\ (ClockNotAhead /\ SameYear => day <= Day(now))

(* Only the time may have changed from r to q. *)
SameFix(r, q) == q.flags = r.flags /\ q.fix = r.fix

(* nmea_reader_update_time: the time of the sentence on the date kept. *)
LEMMA TimeUpdate ==
  ASSUME DiffOK, now \in Epoch, NEW r, Typed(r), NotAhead(r), NEW s,
         NEW hostDay, HostDayOK(hostDay)
  PROVE  LET q == nmea_reader_update_time(r, s, hostDay)
         IN  /\ Typed(q) /\ NotAhead(q) /\ SameFix(r, q)
             /\ s.time => /\ TimeOfDay(q.timestamp) = TimeOfDay(now)
                          /\ SameYear /\ r.utc_day = Day(now) => q.timestamp = now
<1> DEFINE q == nmea_reader_update_time(r, s, hostDay)
           day == IF r.utc_day < 0 THEN hostDay ELSE r.utc_day
           D == day * EpochsPerDay
           T == TimeOfDay(now)
           k == IF utc_diff = Zone THEN 0 ELSE IF utc_diff = Zone - EpochsPerDay THEN -1 ELSE 1
<1>1. /\ EpochsPerDay \in Nat /\ EpochsPerDay > 0 /\ Zone \in Int /\ now \in Int
      /\ LastEpoch \in Nat
  BY FixAssumption DEF FixAssumption, Epoch
<1>2. Day(now) \in Int /\ T \in 0 .. EpochsPerDay - 1 /\ now = Day(now) * EpochsPerDay + T
  BY <1>1, DayFacts
<1>3. r \in [flags : SUBSET Flag, fix : [Value -> {0} \cup Epoch], timestamp : Int,
             utc_day : {-1} \cup Nat]
  BY DEF Typed, RState
<1>4. day \in Nat
  BY <1>3 DEF HostDayOK
<1>5. D \in Nat
  BY <1>1, <1>4
<1>6. CASE ~s.time
  <2>1. q = r
    BY <1>6 DEF nmea_reader_update_time
  <2> QED BY <1>6, <2>1 DEF SameFix
<1>7. CASE s.time
  <2>1. q = [r EXCEPT !.utc_day = day, !.timestamp = D + T - Zone + utc_diff]
    BY <1>7 DEF nmea_reader_update_time, mktime
  <2> HIDE DEF q, day, D, T
  <2>2. utc_diff \in Int /\ utc_diff - Zone \in {0, -EpochsPerDay, EpochsPerDay}
    BY <1>1 DEF DiffOK
  <2>3. D + T - Zone + utc_diff \in Int /\ D + T - Zone + utc_diff >= -EpochsPerDay
    BY <1>1, <1>2, <1>5, <2>2
  <2>4. /\ q.flags = r.flags /\ q.fix = r.fix /\ q.utc_day = day
        /\ q.timestamp = D + T - Zone + utc_diff
    BY <1>3, <2>1
  <2>5. q \in RState
    BY <1>3, <1>4, <2>1, <2>3 DEF RState
  <2>6. Typed(q) /\ SameFix(r, q)
    BY <2>3, <2>4, <2>5 DEF Typed, SameFix
  <2>7. SameYear => q.timestamp = D + T
    BY <1>1, <1>2, <1>5, <2>4 DEF DiffOK
  <2>8. NotAhead(q)
    <3> SUFFICES ASSUME ClockNotAhead, SameYear
                 PROVE  q.timestamp <= now /\ q.utc_day <= Day(now)
      BY DEF NotAhead
    <3>1. day <= Day(now)
      BY <1>3 DEF HostDayOK, NotAhead, day
    <3>2. D <= Day(now) * EpochsPerDay
      <4>1. CASE day = Day(now)
        BY <1>1, <1>2, <4>1 DEF D
      <4>2. CASE day < Day(now)
        <5>1. D + EpochsPerDay <= Day(now) * EpochsPerDay
          BY <1>2, <1>4, <4>2, Multiples DEF D
        <5>2. Day(now) * EpochsPerDay \in Int
          BY <1>1, <1>2
        <5> QED BY <1>1, <1>5, <5>1, <5>2
      <4> QED BY <1>2, <1>4, <3>1, <4>1, <4>2
    <3>3. Day(now) * EpochsPerDay \in Int
      BY <1>1, <1>2
    <3> QED BY <1>1, <1>2, <1>5, <2>4, <2>7, <3>1, <3>2, <3>3
  <2>9. TimeOfDay(q.timestamp) = T
    <3>1. D + T - Zone + utc_diff = (day + k) * EpochsPerDay + T
      <4>1. k \in Int /\ utc_diff - Zone = k * EpochsPerDay
        BY <1>1 DEF DiffOK
      <4>2. (day + k) * EpochsPerDay = D + k * EpochsPerDay
        BY <1>1, <1>4, <4>1 DEF D
      <4>3. k * EpochsPerDay \in Int
        BY <1>1, <4>1
      <4> HIDE DEF k
      <4> QED BY <1>1, <1>2, <1>5, <2>2, <4>1, <4>2, <4>3
    <3>2. day + k \in Int
      BY <1>4
    <3> HIDE DEF k
    <3> QED BY <1>2, <2>4, <3>1, <3>2, DayUnique
  <2>10. SameYear /\ r.utc_day = Day(now) => q.timestamp = now
    <3> SUFFICES ASSUME SameYear, r.utc_day = Day(now) PROVE q.timestamp = now
      OBVIOUS
    <3>1. now >= EpochsPerDay
      BY <1>1 DEF Epoch
    <3>2. ~(Day(now) < 0)
      <4> SUFFICES ASSUME Day(now) < 0 PROVE FALSE
        OBVIOUS
      <4>1. Day(now) * EpochsPerDay + EpochsPerDay <= 0 * EpochsPerDay
        BY <1>2, Multiples
      <4>2. Day(now) * EpochsPerDay \in Int /\ 0 * EpochsPerDay = 0
        BY <1>1, <1>2
      <4> QED BY <1>1, <1>2, <3>1, <4>1, <4>2
    <3>3. day = Day(now)
      BY <3>2 DEF day
    <3> QED BY <1>2, <2>7, <3>3 DEF D
  <2> QED BY <2>6, <2>8, <2>9, <2>10 DEF q, T
<1> QED BY <1>6, <1>7

(* nmea_reader_update_date: the date first, then the time on it. *)
LEMMA DateUpdate ==
  ASSUME DiffOK, now \in Epoch, NEW r, Typed(r), NotAhead(r), NEW s,
         s.date \in {"good", "refused", "bad_year"}, NEW hostDay, HostDayOK(hostDay)
  PROVE  LET q == nmea_reader_update_date(r, s, hostDay)
         IN  /\ Typed(q) /\ NotAhead(q) /\ SameFix(r, q)
             /\ s.date = "good" /\ s.time =>
                  /\ TimeOfDay(q.timestamp) = TimeOfDay(now)
                  /\ SameYear => q.timestamp = now
<1> DEFINE q == nmea_reader_update_date(r, s, hostDay)
           dated(d) == [r EXCEPT !.utc_day = d]
<1>1. Day(now) \in Nat
  <2>1. /\ EpochsPerDay \in Nat /\ EpochsPerDay > 0 /\ LastEpoch \in Nat /\ now \in Int
        /\ now >= EpochsPerDay
    BY FixAssumption DEF FixAssumption, Epoch
  <2> QED BY <2>1 DEF Day
<1>2. ASSUME NEW d \in Nat, d <= Day(now)
      PROVE  Typed(dated(d)) /\ NotAhead(dated(d)) /\ SameFix(r, dated(d)) /\ dated(d).utc_day = d
  BY <1>1, <1>2 DEF Typed, RState, NotAhead, SameFix
<1>3. CASE s.date = "refused"
  <2>1. q = r
    BY <1>3 DEF nmea_reader_update_date
  <2> QED BY <1>3, <2>1 DEF SameFix
<1>4. CASE s.date = "bad_year"
  <2>1. q = nmea_reader_update_time(dated(0), s, hostDay)
    BY <1>4 DEF nmea_reader_update_date
  <2>2. Typed(dated(0)) /\ NotAhead(dated(0)) /\ SameFix(r, dated(0))
    BY <1>1, <1>2
  <2> HIDE DEF q, dated
  <2>3. Typed(q) /\ NotAhead(q) /\ SameFix(dated(0), q)
    BY <2>1, <2>2, TimeUpdate
  <2> QED BY <1>4, <2>2, <2>3 DEF SameFix, q
<1>5. CASE s.date = "good"
  <2>1. q = nmea_reader_update_time(dated(Day(now)), s, hostDay)
    BY <1>5 DEF nmea_reader_update_date
  <2>2. /\ Typed(dated(Day(now))) /\ NotAhead(dated(Day(now))) /\ SameFix(r, dated(Day(now)))
        /\ dated(Day(now)).utc_day = Day(now)
    BY <1>1, <1>2
  <2> HIDE DEF q, dated
  <2>3. /\ Typed(q) /\ NotAhead(q) /\ SameFix(dated(Day(now)), q)
        /\ s.time => /\ TimeOfDay(q.timestamp) = TimeOfDay(now)
                     /\ SameYear => q.timestamp = now
    BY <2>1, <2>2, TimeUpdate
  <2> QED BY <1>5, <2>2, <2>3 DEF SameFix, q
<1> QED BY <1>3, <1>4, <1>5

(* The time and the date are those of r. *)
SameTime(r, q) == q.timestamp = r.timestamp /\ q.utc_day = r.utc_day

(* nmea_reader_update_latlong: both coordinates or none. *)
LEMMA PositionUpdate ==
  ASSUME now \in Epoch, NEW r, Typed(r), Paired(r), NEW s
  PROVE  LET q == nmea_reader_update_latlong(r, s)
         IN  /\ Typed(q) /\ Paired(q) /\ SameTime(r, q)
             /\ s.latitude /\ s.longitude => q.fix["latitude"] = now
             /\ ~(s.latitude /\ s.longitude) => q = r
<1> DEFINE q == nmea_reader_update_latlong(r, s)
<1>1. CASE ~(s.latitude /\ s.longitude)
  <2>1. q = r
    BY <1>1 DEF nmea_reader_update_latlong
  <2> QED BY <1>1, <2>1 DEF SameTime
<1>2. CASE s.latitude /\ s.longitude
  <2> DEFINE f == [r.fix EXCEPT !["latitude"] = now, !["longitude"] = now]
  <2>1. r \in [flags : SUBSET Flag, fix : [Value -> {0} \cup Epoch], timestamp : Int,
               utc_day : {-1} \cup Nat]
    BY DEF Typed, RState
  <2>2. q = [r EXCEPT !.flags = @ \cup {"LAT_LONG"}, !.fix = f]
    BY <1>2, <2>1 DEF nmea_reader_update_latlong
  <2>3. /\ f \in [Value -> {0} \cup Epoch] /\ f["latitude"] = now /\ f["longitude"] = now
        /\ \A v \in Value \ {"latitude", "longitude"} : f[v] = r.fix[v]
    BY <2>1 DEF Value
  <2> HIDE DEF q, f
  <2>4. /\ q.flags = r.flags \cup {"LAT_LONG"} /\ q.fix = f /\ SameTime(r, q) /\ q \in RState
    BY <2>1, <2>2, <2>3 DEF SameTime, RState, Flag
  <2> QED BY <1>2, <2>3, <2>4 DEF Typed, Paired, SameTime, q
<1> QED BY <1>1, <1>2

(* A value that is not a coordinate leaves the rest. *)
LEMMA ValueUpdate ==
  ASSUME now \in Epoch, NEW r, Typed(r), Paired(r),
         NEW v \in Value \ {"latitude", "longitude"}, NEW q,
         \/ q = r
         \/ q = [r EXCEPT !.flags = @ \cup {FlagOf[v]}, !.fix = [r.fix EXCEPT ![v] = now]]
  PROVE  /\ Typed(q) /\ Paired(q) /\ SameTime(r, q)
         /\ q.fix["latitude"] = r.fix["latitude"]
         /\ "LAT_LONG" \in q.flags <=> "LAT_LONG" \in r.flags
<1> DEFINE f == [r.fix EXCEPT ![v] = now]
<1>1. r \in [flags : SUBSET Flag, fix : [Value -> {0} \cup Epoch], timestamp : Int,
             utc_day : {-1} \cup Nat]
  BY DEF Typed, RState
<1>2. /\ f \in [Value -> {0} \cup Epoch] /\ f[v] = now
      /\ \A u \in Value \ {v} : f[u] = r.fix[u]
      /\ f["latitude"] = r.fix["latitude"] /\ f["longitude"] = r.fix["longitude"]
  BY <1>1 DEF Value
<1>3. FlagOf[v] \in Flag \ {"LAT_LONG"}
  BY DEF FlagOf, Value, Flag
<1>4. CASE q = r
  BY <1>4 DEF SameTime
<1>6. CASE q = [r EXCEPT !.flags = @ \cup {FlagOf[v]}, !.fix = f]
  <2> HIDE DEF f
  <2>1. /\ q.flags = r.flags \cup {FlagOf[v]} /\ q.fix = f /\ SameTime(r, q)
        /\ q \in RState
    BY <1>1, <1>2, <1>3, <1>6 DEF SameTime, RState
  <2> QED BY <1>2, <1>3, <2>1 DEF Typed, Paired, SameTime
<1> QED BY <1>4, <1>6

-----------------------------------------------------------------------------
(* Steps *)

(* The invariant holds at first. *)
THEOREM InitInv == Init => Inv
<1> SUFFICES ASSUME Init PROVE Inv
  OBVIOUS
<1>1. /\ EpochsPerDay \in Nat /\ EpochsPerDay > 0 /\ LastEpoch \in Nat
      /\ EpochsPerDay <= LastEpoch /\ HostClock \subseteq Nat /\ HasLocation \in BOOLEAN
      /\ Zone \in Int
  BY FixAssumption DEF FixAssumption
<1>2. now \in Epoch /\ now \in Nat /\ Day(now) \in Nat
  BY <1>1 DEF Init, Epoch, Day
<1>3. DiffOK
  BY DiffFacts DEF Init, DiffOK, SameYear
<1>4. utc_diff \in Int
  BY <1>1, <1>3 DEF DiffOK
<1>5. fix \in [Value -> {0} \cup Epoch] /\ fix["latitude"] = fix["longitude"]
  BY DEF Init, Value
<1>6. /\ location_cb \in BOOLEAN /\ started \in BOOLEAN /\ complete \in BOOLEAN
  BY Zenon DEF Init
<1>7. TypeOK
  BY <1>1, <1>2, <1>4, <1>5, <1>6 DEF Init, TypeOK, NoReport, NoNews, StatusValue
<1>8. Typed(Reader) /\ Paired(Reader) /\ NotAhead(Reader) /\ Timed(Reader)
  BY <1>1, <1>2, <1>5 DEF Init, Reader, Typed, RState, Paired, NotAhead, Timed
<1> QED BY <1>1, <1>2, <1>3, <1>7, <1>8 DEF Inv, Init, TimeIsThatOfPosition, NoReport

(* The fields a sentence of each kind has. *)
LEMMA SentenceFacts ==
  ASSUME NEW s \in Sentence
  PROVE  s.id = "RMC" => s.date \in {"good", "refused", "bad_year"}
BY FixAssumption DEF FixAssumption, AnySentence

(* The host that dates a time without a date is not ahead. *)
LEMMA HostDayFacts ==
  ASSUME Inv, NEW day \in (IF utc_day < 0 THEN HostDays ELSE {utc_day})
  PROVE  HostDayOK(day)
<1>1. /\ EpochsPerDay \in Nat /\ EpochsPerDay > 0 /\ LastEpoch \in Nat
      /\ HostDays \subseteq Nat
  BY FixAssumption DEF FixAssumption
<1>2. now \in Int /\ now >= EpochsPerDay /\ utc_day \in {-1} \cup Nat
  BY <1>1 DEF Inv, TypeOK, Epoch
<1>3. Day(now) \in Int /\ Day(now) >= 1
  BY <1>1, <1>2 DEF Day
<1>4. CASE utc_day < 0
  BY <1>1, <1>3, <1>4 DEF HostDayOK, ClockNotAhead
<1>5. CASE ~(utc_day < 0)
  BY <1>2, <1>5 DEF HostDayOK, Inv, NotAhead, Reader
<1> QED BY <1>4, <1>5

(* What a sentence leaves of the reader; and what makes a time right. *)
Sound(q) == Typed(q) /\ Paired(q) /\ NotAhead(q)
TimedLike(q, timed) ==
  timed /\ "LAT_LONG" \in q.flags => TimeOfDay(q.timestamp) = TimeOfDay(q.fix["latitude"])

(* A sentence that is not reported. *)
LEMMA KeepInv ==
  ASSUME Inv, NEW q, Sound(q), Keep(q), complete' \in BOOLEAN, TimedLike(q, complete'),
         report' = NoReport, UNCHANGED <<now, utc_diff, bornAt, started>>,
         news' \in [Value -> {0} \cup Epoch],
         location_cb' \in BOOLEAN, shown' \in StatusValue \cup {"garbage"}
  PROVE  Inv'
<1>1. q \in [flags : SUBSET Flag, fix : [Value -> {0} \cup Epoch], timestamp : Int,
             utc_day : {-1} \cup Nat]
      /\ q.timestamp >= -EpochsPerDay
  BY DEF Sound, Typed, RState
<1>2. /\ flags' = q.flags /\ fix' = q.fix /\ timestamp' = q.timestamp /\ utc_day' = q.utc_day
  BY DEF Keep
<1>3. Reader' = q
  BY <1>1, <1>2 DEF Reader
<1>4. NoReport \in [source : {"none", "RMC", "START"}, flags : SUBSET Flag,
                   fix : [Value -> {0} \cup Epoch], timestamp : Int,
                   news : [Value -> {0} \cup Epoch]]
  BY DEF NoReport, NoNews
<1>5. TypeOK'
  BY <1>1, <1>2, <1>4 DEF Inv, TypeOK
<1>6. DiffOK'
  BY DEF Inv, DiffOK, SameYear, tm_year, Day
<1>7. (Typed(Reader) /\ Paired(Reader) /\ NotAhead(Reader) /\ Timed(Reader))'
  <2>1. Typed(q)' /\ Paired(q)' /\ NotAhead(q)'
    BY DEF Sound, Typed, Paired, NotAhead, SameYear, tm_year, Day
  <2> QED BY <1>3, <2>1 DEF Typed, Paired, NotAhead, Timed, TimedLike
<1>8. TimeIsThatOfPosition'
  BY DEF TimeIsThatOfPosition, NoReport
<1> QED BY <1>5, <1>6, <1>7, <1>8 DEF Inv

(* A value that is not a coordinate changes neither time nor position. *)
Moved(r, q) ==
  /\ Typed(q) /\ Paired(q) /\ SameTime(r, q)
  /\ q.fix["latitude"] = r.fix["latitude"]
  /\ "LAT_LONG" \in q.flags <=> "LAT_LONG" \in r.flags

(* Altitude, bearing, speed and accuracy leave the position alone. *)
LEMMA OtherUpdates ==
  ASSUME now \in Epoch, NEW r, Typed(r), Paired(r), NEW s
  PROVE  /\ Moved(r, nmea_reader_update_altitude(r, s))
         /\ Moved(r, nmea_reader_update_bearing(r, s))
         /\ Moved(r, nmea_reader_update_speed(r, s))
         /\ Moved(r, nmea_reader_update_accuracy(r, s))
<1>1. r \in [flags : SUBSET Flag, fix : [Value -> {0} \cup Epoch], timestamp : Int,
             utc_day : {-1} \cup Nat]
  BY DEF Typed, RState
<1>2. /\ FlagOf["altitude"] = "ALTITUDE" /\ FlagOf["bearing"] = "BEARING"
      /\ FlagOf["speed"] = "SPEED" /\ FlagOf["accuracy"] = "ACCURACY"
  BY DEF FlagOf
<1>3. {"altitude", "bearing", "speed", "accuracy"} \subseteq Value \ {"latitude", "longitude"}
  BY DEF Value
<1>4. ASSUME NEW v \in Value \ {"latitude", "longitude"}, NEW q,
             \/ q = r
             \/ q = [r EXCEPT !.flags = @ \cup {FlagOf[v]}, !.fix = [r.fix EXCEPT ![v] = now]]
      PROVE  Moved(r, q)
  BY <1>4, ValueUpdate DEF Moved
<1>5. Moved(r, nmea_reader_update_altitude(r, s))
  <2>1. \/ nmea_reader_update_altitude(r, s) = r
        \/ nmea_reader_update_altitude(r, s)
             = [r EXCEPT !.flags = @ \cup {FlagOf["altitude"]},
                         !.fix = [r.fix EXCEPT !["altitude"] = now]]
    BY <1>1, <1>2 DEF nmea_reader_update_altitude
  <2> QED BY <1>3, <1>4, <2>1
<1>6. Moved(r, nmea_reader_update_bearing(r, s))
  <2>1. \/ nmea_reader_update_bearing(r, s) = r
        \/ nmea_reader_update_bearing(r, s)
             = [r EXCEPT !.flags = @ \cup {FlagOf["bearing"]},
                         !.fix = [r.fix EXCEPT !["bearing"] = now]]
    BY <1>1, <1>2 DEF nmea_reader_update_bearing
  <2> QED BY <1>3, <1>4, <2>1
<1>7. Moved(r, nmea_reader_update_speed(r, s))
  <2>1. \/ nmea_reader_update_speed(r, s) = r
        \/ nmea_reader_update_speed(r, s)
             = [r EXCEPT !.flags = @ \cup {FlagOf["speed"]},
                         !.fix = [r.fix EXCEPT !["speed"] = now]]
    BY <1>1, <1>2 DEF nmea_reader_update_speed
  <2> QED BY <1>3, <1>4, <2>1
<1>8. Moved(r, nmea_reader_update_accuracy(r, s))
  <2>1. \/ nmea_reader_update_accuracy(r, s) = r
        \/ nmea_reader_update_accuracy(r, s)
             = [r EXCEPT !.flags = @ \cup {FlagOf["accuracy"]},
                         !.fix = [r.fix EXCEPT !["accuracy"] = now]]
    BY <1>1, <1>2 DEF nmea_reader_update_accuracy
  <2> QED BY <1>3, <1>4, <2>1
<1> QED BY <1>5, <1>6, <1>7, <1>8

(* What the invariant says of the state before a sentence. *)
LEMMA KeptState ==
  ASSUME Inv
  PROVE  /\ now \in Epoch /\ DiffOK /\ news \in [Value -> {0} \cup Epoch]
         /\ Sound(Reader) /\ TimedLike(Reader, complete)
         /\ location_cb \in BOOLEAN /\ shown \in StatusValue \cup {"garbage"}
         /\ complete \in BOOLEAN /\ started \in BOOLEAN
<1>1. /\ location_cb \in BOOLEAN /\ complete \in BOOLEAN /\ started \in BOOLEAN
  BY Zenon DEF Inv, TypeOK
<1> QED BY <1>1 DEF Inv, TypeOK, Sound, TimedLike, Timed

(* What is news stays well typed. *)
LEMMA BroughtType ==
  ASSUME now \in Epoch, news \in [Value -> {0} \cup Epoch], NEW s
  PROVE  Brought(s) \in [Value -> {0} \cup Epoch]
BY DEF Brought

(* GGA keeps the invariant. *)
LEMMA GGAInv ==
  ASSUME Inv, NEW s \in Sentence, NEW hostDay, HostDayOK(hostDay), GGA(s, hostDay),
         complete' = (complete /\ Complete(s))
  PROVE  Inv'
<1> DEFINE q1 == nmea_reader_update_time(Reader, s, hostDay)
           q2 == nmea_reader_update_latlong(q1, s)
           q3 == nmea_reader_update_altitude(q2, s)
<1>1. /\ now \in Epoch /\ DiffOK
      /\ Typed(Reader) /\ Paired(Reader) /\ NotAhead(Reader)
  BY KeptState DEF Sound
<1>2. /\ Typed(q1) /\ NotAhead(q1) /\ SameFix(Reader, q1)
      /\ s.time => TimeOfDay(q1.timestamp) = TimeOfDay(now)
  BY <1>1, TimeUpdate
<1>3. Paired(q1)
  BY <1>1, <1>2 DEF SameFix, Paired
<1>4. /\ Typed(q2) /\ Paired(q2) /\ SameTime(q1, q2)
      /\ s.latitude /\ s.longitude => q2.fix["latitude"] = now
  BY <1>1, <1>2, <1>3, PositionUpdate
<1>5. Moved(q2, q3)
  BY <1>1, <1>4, OtherUpdates
<1>6. Keep(q3)
  BY DEF GGA
<1> HIDE DEF q1, q2, q3
<1>7. Sound(q3)
  BY <1>2, <1>4, <1>5 DEF Sound, Moved, SameTime, NotAhead
<1>8. TimedLike(q3, complete')
  BY <1>2, <1>4, <1>5 DEF TimedLike, Moved, SameTime, Complete, GGA
<1>9. location_cb' \in BOOLEAN /\ complete' \in BOOLEAN
  BY KeptState, Zenon DEF GGA
<1> QED BY <1>6, <1>7, <1>8, <1>9, KeptState, BroughtType, KeepInv DEF GGA

(* GLL keeps the invariant. *)
LEMMA GLLInv ==
  ASSUME Inv, NEW s \in Sentence, NEW hostDay, HostDayOK(hostDay), GLL(s, hostDay),
         complete' = (complete /\ Complete(s))
  PROVE  Inv'
<1> DEFINE q1 == nmea_reader_update_time(Reader, s, hostDay)
           q2 == nmea_reader_update_latlong(q1, s)
<1>1. /\ now \in Epoch /\ DiffOK
      /\ Typed(Reader) /\ Paired(Reader) /\ NotAhead(Reader)
  BY KeptState DEF Sound
<1>2. /\ Typed(q1) /\ NotAhead(q1) /\ SameFix(Reader, q1)
      /\ s.time => TimeOfDay(q1.timestamp) = TimeOfDay(now)
  BY <1>1, TimeUpdate
<1>3. Paired(q1)
  BY <1>1, <1>2 DEF SameFix, Paired
<1>4. /\ Typed(q2) /\ Paired(q2) /\ SameTime(q1, q2)
      /\ s.latitude /\ s.longitude => q2.fix["latitude"] = now
  BY <1>1, <1>2, <1>3, PositionUpdate
<1>5. Keep(q2)
  BY DEF GLL
<1> HIDE DEF q1, q2
<1>6. Sound(q2)
  BY <1>2, <1>4 DEF Sound, SameTime, NotAhead
<1>7. TimedLike(q2, complete')
  BY <1>2, <1>4 DEF TimedLike, SameTime, Complete, GLL
<1>8. location_cb' \in BOOLEAN /\ complete' \in BOOLEAN
  BY KeptState, Zenon DEF GLL
<1> QED BY <1>5, <1>6, <1>7, <1>8, KeptState, BroughtType, KeepInv DEF GLL

(* GSA keeps the invariant. *)
LEMMA GSAInv ==
  ASSUME Inv, NEW s \in Sentence, GSA(s), complete' = (complete /\ Complete(s))
  PROVE  Inv'
<1> DEFINE q == nmea_reader_update_accuracy(Reader, s)
<1>1. /\ now \in Epoch
      /\ Typed(Reader) /\ Paired(Reader) /\ NotAhead(Reader)
  BY KeptState DEF Sound
<1>3. Moved(Reader, q)
  BY <1>1, OtherUpdates
<1>4. Keep(q)
  BY DEF GSA
<1> HIDE DEF q
<1>5. Sound(q)
  BY <1>1, <1>3 DEF Sound, Moved, SameTime, NotAhead
<1>6. TimedLike(q, complete')
  BY <1>3, KeptState DEF TimedLike, Moved, SameTime
<1>7. location_cb' \in BOOLEAN /\ complete' \in BOOLEAN
  BY KeptState, Zenon DEF GSA
<1> QED BY <1>4, <1>5, <1>6, <1>7, KeptState, BroughtType, KeepInv DEF GSA

(* The reader RMC reports. *)
Reported(s, hostDay) ==
  nmea_reader_update_speed(
    nmea_reader_update_bearing(
      nmea_reader_update_latlong(
        nmea_reader_update_date(Reader, s, hostDay), s), s), s)

(* What an RMC reports. *)
LEMMA ReportedFacts ==
  ASSUME Inv, NEW s, s.date \in {"good", "refused", "bad_year"},
         NEW hostDay, HostDayOK(hostDay)
  PROVE  LET q == Reported(s, hostDay)
         IN  /\ Sound(q)
             /\ s.date = "good" /\ s.time /\ s.latitude /\ s.longitude =>
                  /\ TimeOfDay(q.timestamp) = TimeOfDay(now) /\ q.fix["latitude"] = now
                  /\ SameYear => q.timestamp = now
<1> DEFINE q1 == nmea_reader_update_date(Reader, s, hostDay)
           q2 == nmea_reader_update_latlong(q1, s)
           q3 == nmea_reader_update_bearing(q2, s)
           q4 == nmea_reader_update_speed(q3, s)
<1>1. /\ now \in Epoch /\ DiffOK
      /\ Typed(Reader) /\ Paired(Reader) /\ NotAhead(Reader)
  BY KeptState DEF Sound
<1>2. /\ Typed(q1) /\ NotAhead(q1) /\ SameFix(Reader, q1)
      /\ s.date = "good" /\ s.time =>
           /\ TimeOfDay(q1.timestamp) = TimeOfDay(now)
           /\ SameYear => q1.timestamp = now
  BY <1>1, DateUpdate
<1>3. Paired(q1)
  BY <1>1, <1>2 DEF SameFix, Paired
<1>4. /\ Typed(q2) /\ Paired(q2) /\ SameTime(q1, q2)
      /\ s.latitude /\ s.longitude => q2.fix["latitude"] = now
  BY <1>1, <1>2, <1>3, PositionUpdate
<1>5. Moved(q2, q3)
  BY <1>1, <1>4, OtherUpdates
<1>6. Typed(q3) /\ Paired(q3)
  BY <1>5 DEF Moved
<1>7. Moved(q3, q4)
  BY <1>1, <1>6, OtherUpdates
<1>8. q4 = Reported(s, hostDay)
  BY DEF Reported
<1> HIDE DEF q1, q2, q3, q4
<1>9. q4.timestamp = q1.timestamp /\ q4.utc_day = q1.utc_day /\ q4.fix["latitude"] = q2.fix["latitude"]
  BY <1>4, <1>5, <1>7 DEF Moved, SameTime
<1>10. Sound(q4)
  BY <1>2, <1>7, <1>9 DEF Sound, Moved, NotAhead
<1>11. s.date = "good" /\ s.time /\ s.latitude /\ s.longitude =>
         /\ TimeOfDay(q4.timestamp) = TimeOfDay(now) /\ q4.fix["latitude"] = now
         /\ SameYear => q4.timestamp = now
  BY <1>2, <1>4, <1>9
<1> QED BY <1>8, <1>10, <1>11

(* RMC keeps the invariant. *)
LEMMA RMCInv ==
  ASSUME Inv, NEW s \in Sentence, NEW hostDay, HostDayOK(hostDay), RMC(s, hostDay),
         complete' = (complete /\ Complete(s))
  PROVE  Inv'
<1> DEFINE q == Reported(s, hostDay)
           bare == [q EXCEPT !.flags = {}]
<1>1. s.id = "RMC" /\ s.date \in {"good", "refused", "bad_year"}
  BY SentenceFacts DEF RMC
<1>2. /\ Sound(q)
      /\ s.date = "good" /\ s.time /\ s.latitude /\ s.longitude =>
           /\ TimeOfDay(q.timestamp) = TimeOfDay(now) /\ q.fix["latitude"] = now
           /\ SameYear => q.timestamp = now
  BY <1>1, ReportedFacts
<1>3. location_cb' \in BOOLEAN /\ complete' \in BOOLEAN /\ shown' \in StatusValue \cup {"garbage"}
  <2>1. location_cb' \in BOOLEAN
    BY FixAssumption, Zenon DEF RMC, FixAssumption
  <2>2. complete' \in BOOLEAN
    BY KeptState, Zenon
  <2> QED BY <2>1, <2>2 DEF RMC
<1>4. complete' => complete /\ s.date = "good" /\ s.time /\ s.latitude /\ s.longitude
  BY <1>1 DEF Complete
<1>5. UNCHANGED <<started, now, utc_diff, bornAt>>
  BY DEF RMC
<1>6. CASE ~HasLocation
  <2>1. Keep(q) /\ report' = NoReport /\ news' = Brought(s)
    BY <1>6 DEF RMC, Reported
  <2> HIDE DEF q
  <2>2. TimedLike(q, complete')
    BY <1>2, <1>4 DEF TimedLike
  <2> QED BY <1>2, <1>3, <1>5, <2>1, <2>2, KeptState, BroughtType, KeepInv
<1>7. CASE HasLocation
  <2>1. Keep(bare) /\ report' = Location(q, "RMC", Brought(s)) /\ news' = NoNews
    BY <1>7 DEF RMC, Reported
  <2>2. /\ q \in [flags : SUBSET Flag, fix : [Value -> {0} \cup Epoch], timestamp : Int,
                 utc_day : {-1} \cup Nat]
        /\ q.timestamp >= -EpochsPerDay
    BY <1>2 DEF Sound, Typed, RState
  <2> HIDE DEF q
  <2>3. /\ bare \in RState /\ bare.flags = {} /\ bare.fix = q.fix
        /\ bare.timestamp = q.timestamp /\ bare.utc_day = q.utc_day
    BY <2>2 DEF RState
  <2> HIDE DEF bare
  <2>4. /\ flags' = {} /\ fix' = q.fix /\ timestamp' = q.timestamp /\ utc_day' = q.utc_day
    BY <2>1, <2>3 DEF Keep
  <2>5. Reader' = bare
    <3>1. Reader' = [flags |-> bare.flags, fix |-> bare.fix, timestamp |-> bare.timestamp,
                     utc_day |-> bare.utc_day]
      BY <2>3, <2>4 DEF Reader
    <3> QED BY <2>3, <3>1 DEF RState
  <2>6. now \in Int
    BY KeptState, FixAssumption DEF Epoch, FixAssumption
  <2>7. report' \in [source : {"none", "RMC", "START"}, flags : SUBSET Flag,
                    fix : [Value -> {0} \cup Epoch], timestamp : Int,
                    news : [Value -> {0} \cup Epoch]]
    BY <2>1, <2>2, KeptState, BroughtType DEF Location
  <2>8. started' \in BOOLEAN
    BY <1>5, KeptState, Zenon
  <2>9. TypeOK'
    BY <1>3, <1>5, <2>1, <2>2, <2>4, <2>7, <2>8 DEF Inv, TypeOK, NoNews
  <2>10. DiffOK'
    BY <1>5 DEF Inv, DiffOK, SameYear, tm_year, Day
  <2>11. (Typed(Reader) /\ Paired(Reader) /\ NotAhead(Reader) /\ Timed(Reader))'
    <3>1. Typed(bare) /\ Paired(bare)
      BY <1>2, <2>3 DEF Sound, Typed, Paired
    <3>2. (ClockNotAhead /\ SameYear)' => bare.timestamp <= now' /\ bare.utc_day <= Day(now)'
      <4>1. ClockNotAhead /\ SameYear => q.timestamp <= now /\ q.utc_day <= Day(now)
        BY <1>2 DEF Sound, NotAhead
      <4>2. (ClockNotAhead' <=> ClockNotAhead) /\ (SameYear' <=> SameYear) /\ Day(now)' = Day(now)
        BY <1>5 DEF ClockNotAhead, SameYear, tm_year, Day
      <4> QED BY <1>5, <2>3, <4>1, <4>2
    <3> QED BY <2>3, <2>5, <3>1, <3>2 DEF Typed, Paired, NotAhead, Timed
  <2>12. TimeIsThatOfPosition'
    <3> SUFFICES ASSUME complete'
                 PROVE  /\ SameYear' => report'.timestamp = report'.fix.latitude
                        /\ TimeOfDay(report'.timestamp) = TimeOfDay(report'.fix.latitude)
      BY <1>5 DEF TimeIsThatOfPosition, TimeOfDay
    <3>1. report'.timestamp = q.timestamp /\ report'.fix.latitude = q.fix["latitude"]
      BY <2>1 DEF Location
    <3>2. SameYear' <=> SameYear
      BY <1>5 DEF SameYear
    <3> QED BY <1>2, <1>4, <3>1, <3>2
  <2> QED BY <1>5, <2>1, <2>6, <2>9, <2>10, <2>11, <2>12 DEF Inv
<1> QED BY <1>6, <1>7

(* CMD_START, CMD_STOP, and anything else that leaves the reader alone. *)
LEMMA StartInv ==
  ASSUME Inv, Start
  PROVE  Inv'
<1>1. /\ UNCHANGED <<rvars, now, news, complete, utc_diff, bornAt>>
      /\ report' = IF HasLocation /\ flags # {} THEN Location(Reader, "START", news) ELSE NoReport
  BY DEF Start
<1>2. started' \in BOOLEAN /\ location_cb' \in BOOLEAN /\ complete' \in BOOLEAN
  <2>1. location_cb' \in BOOLEAN
    BY FixAssumption, Zenon DEF Start, FixAssumption
  <2>2. complete' \in BOOLEAN
    BY KeptState, <1>1, Zenon
  <2>3. started' \in BOOLEAN
    BY Zenon DEF Start
  <2> QED BY <2>1, <2>2, <2>3
<1>3. report' \in [source : {"none", "RMC", "START"}, flags : SUBSET Flag,
                  fix : [Value -> {0} \cup Epoch], timestamp : Int,
                    news : [Value -> {0} \cup Epoch]]
  BY <1>1 DEF Inv, TypeOK, Location, NoReport, NoNews, Reader
<1>4. TypeOK'
  BY <1>1, <1>2, <1>3 DEF Inv, TypeOK, Start, StatusValue, rvars
<1>5. DiffOK'
  BY <1>1 DEF Inv, DiffOK, SameYear, tm_year, Day
<1>6. (Typed(Reader) /\ Paired(Reader) /\ NotAhead(Reader) /\ Timed(Reader))'
  BY <1>1 DEF Inv, Typed, Paired, NotAhead, Timed, Reader, SameYear, rvars
<1>7. TimeIsThatOfPosition'
  <2>1. CASE report' = NoReport
    BY <2>1 DEF TimeIsThatOfPosition, NoReport
  <2>2. CASE report' = Location(Reader, "START", news)
    <3>1. /\ report'.source = "START" /\ report'.flags = flags
          /\ report'.timestamp = timestamp /\ report'.fix.latitude = fix["latitude"]
      BY <2>2 DEF Location, Reader
    <3>2. complete /\ "LAT_LONG" \in flags => TimeOfDay(timestamp) = TimeOfDay(fix["latitude"])
      BY DEF Inv, Timed, Reader
    <3> QED BY <1>1, <3>1, <3>2 DEF TimeIsThatOfPosition
  <2> QED BY <1>1, <2>1, <2>2
<1> QED BY <1>1, <1>4, <1>5, <1>6, <1>7 DEF Inv

(* The end of a session keeps the invariant. *)
LEMMA StopInv ==
  ASSUME Inv, Stop
  PROVE  Inv'
<1>1. report' = NoReport /\ UNCHANGED <<now, news, complete, utc_diff, bornAt>>
  BY DEF Stop
<1>2. started' \in BOOLEAN /\ location_cb' \in BOOLEAN
  BY Zenon DEF Stop
<1>3. UNCHANGED rvars
  BY DEF Stop
<1>4. complete' \in BOOLEAN
  BY <1>1, KeptState, Zenon
<1>5. TypeOK'
  BY <1>1, <1>2, <1>3, <1>4 DEF Inv, TypeOK, Stop, StatusValue, rvars, NoReport, NoNews
<1>6. DiffOK'
  BY <1>1 DEF Inv, DiffOK, SameYear, tm_year, Day
<1>7. (Typed(Reader) /\ Paired(Reader) /\ NotAhead(Reader) /\ Timed(Reader))'
  BY <1>1, <1>3 DEF Inv, Typed, Paired, NotAhead, Timed, Reader, SameYear, rvars
<1>8. TimeIsThatOfPosition'
  BY <1>1 DEF TimeIsThatOfPosition, NoReport
<1> QED BY <1>1, <1>5, <1>6, <1>7, <1>8 DEF Inv

(* A new gps thread keeps the invariant. *)
LEMMA InitReaderInv ==
  ASSUME Inv, nmea_reader_init
  PROVE  Inv'
<1>1. /\ EpochsPerDay \in Nat /\ EpochsPerDay > 0 /\ LastEpoch \in Nat
      /\ HostClock \subseteq Nat /\ Zone \in Int
  BY FixAssumption DEF FixAssumption
<1>2. now \in Epoch /\ now \in Nat /\ Day(now) \in Nat
  BY <1>1 DEF Inv, TypeOK, Epoch, Day
<1>3. /\ flags' = {} /\ fix' = [v \in Value |-> 0] /\ timestamp' = 0 /\ utc_day' = -1
      /\ report' = NoReport /\ news' = NoNews /\ UNCHANGED <<now, complete>>
  BY DEF nmea_reader_init
<1>4. DiffOK'
  BY DiffFacts DEF nmea_reader_init, DiffOK, SameYear
<1>5. utc_diff' \in Int
  BY <1>1, <1>4 DEF DiffOK
<1>6. fix' \in [Value -> {0} \cup Epoch] /\ fix'["latitude"] = fix'["longitude"]
  BY <1>3 DEF Value
<1>7. location_cb' \in BOOLEAN /\ started' \in BOOLEAN
  BY Zenon DEF nmea_reader_init
<1>8. complete' \in BOOLEAN
  BY <1>3, KeptState, Zenon
<1>9. TypeOK'
  BY <1>1, <1>3, <1>5, <1>6, <1>7, <1>8
     DEF Inv, TypeOK, nmea_reader_init, NoReport, NoNews, StatusValue
<1>10. (Typed(Reader) /\ Paired(Reader) /\ NotAhead(Reader) /\ Timed(Reader))'
  <2>1. now' \in Nat /\ Day(now)' \in Nat
    BY <1>2, <1>3 DEF Day
  <2> QED BY <1>1, <1>3, <1>6, <2>1 DEF Reader, Typed, RState, Paired, NotAhead, Timed
<1>11. TimeIsThatOfPosition'
  BY <1>3 DEF TimeIsThatOfPosition, NoReport
<1> QED BY <1>3, <1>4, <1>9, <1>10, <1>11 DEF Inv

(* Tick keeps the invariant. *)
LEMMA TickInv ==
  ASSUME Inv, Tick
  PROVE  Inv'
<1>1. EpochsPerDay \in Nat /\ EpochsPerDay > 0 /\ LastEpoch \in Nat
  BY FixAssumption DEF FixAssumption
<1>2. /\ now \in Int /\ now' = now + 1 /\ now' \in Epoch
  BY <1>1 DEF Inv, TypeOK, Epoch, Tick
<1>3. /\ UNCHANGED <<flags, fix, timestamp, utc_day, news, complete, utc_diff, bornAt,
                      location_cb, started, shown>>
      /\ report' = NoReport
  BY DEF Tick, rvars
<1>4. Day(now) \in Int /\ Day(now)' \in Int /\ Day(now) <= Day(now)'
  <2>1. /\ Day(now) \in Int /\ TimeOfDay(now) \in 0 .. EpochsPerDay - 1
        /\ now = Day(now) * EpochsPerDay + TimeOfDay(now)
    BY <1>2, DayFacts
  <2>2. /\ Day(now + 1) \in Int /\ TimeOfDay(now + 1) \in 0 .. EpochsPerDay - 1
        /\ now + 1 = Day(now + 1) * EpochsPerDay + TimeOfDay(now + 1)
    BY <1>2, DayFacts
  <2>3. Day(now)' = Day(now + 1)
    BY <1>2 DEF Day
  <2>4. ~(Day(now + 1) < Day(now))
    <3> SUFFICES ASSUME Day(now + 1) < Day(now) PROVE FALSE
      OBVIOUS
    <3>1. Day(now + 1) * EpochsPerDay + EpochsPerDay <= Day(now) * EpochsPerDay
      BY <2>1, <2>2, Multiples
    <3>2. Day(now + 1) * EpochsPerDay \in Int /\ Day(now) * EpochsPerDay \in Int
      BY <1>1, <2>1, <2>2
    <3> QED BY <1>1, <1>2, <2>1, <2>2, <3>1, <3>2
  <2> QED BY <2>1, <2>2, <2>3, <2>4
<1>5. NoReport \in [source : {"none", "RMC", "START"}, flags : SUBSET Flag,
                   fix : [Value -> {0} \cup Epoch], timestamp : Int,
                   news : [Value -> {0} \cup Epoch]]
  BY DEF NoReport, NoNews
<1>6. location_cb' \in BOOLEAN /\ started' \in BOOLEAN /\ complete' \in BOOLEAN
  BY <1>3, KeptState, Zenon
<1>7. TypeOK'
  BY <1>2, <1>3, <1>5, <1>6 DEF Inv, TypeOK
<1>8. DiffOK'
  BY <1>3 DEF Inv, DiffOK, SameYear, tm_year, Day
<1>9. (Typed(Reader) /\ Paired(Reader) /\ Timed(Reader))'
  BY <1>3 DEF Inv, Typed, Paired, Timed, Reader
<1>10. NotAhead(Reader)'
  <2> SUFFICES ASSUME ClockNotAhead, SameYear'
               PROVE  timestamp <= now + 1 /\ utc_day <= Day(now)'
    BY <1>2, <1>3 DEF NotAhead, Reader, ClockNotAhead
  <2>1. SameYear
    BY <1>3 DEF SameYear
  <2>2. timestamp <= now /\ utc_day <= Day(now)
    BY <2>1 DEF Inv, NotAhead, Reader
  <2>3. timestamp \in Int /\ utc_day \in Int
    BY DEF Inv, TypeOK
  <2> QED BY <1>2, <1>4, <2>2, <2>3
<1>11. TimeIsThatOfPosition'
  BY <1>3 DEF TimeIsThatOfPosition, NoReport
<1> QED BY <1>2, <1>3, <1>7, <1>8, <1>9, <1>10, <1>11 DEF Inv

(* Every step keeps the invariant. *)
THEOREM NextInv == Inv /\ [Next]_vars => Inv'
<1> SUFFICES ASSUME Inv, [Next]_vars PROVE Inv'
  OBVIOUS
<1>1. ASSUME NEW s \in Sentence, nmea_reader_parse(s) PROVE Inv'
  <2>1. PICK hostDay \in IF utc_day < 0 THEN HostDays ELSE {utc_day} :
          GGA(s, hostDay) \/ GLL(s, hostDay) \/ GSA(s) \/ RMC(s, hostDay)
    BY <1>1 DEF nmea_reader_parse
  <2>2. complete' = (complete /\ Complete(s))
    BY <1>1 DEF nmea_reader_parse
  <2>3. HostDayOK(hostDay)
    BY <2>1, HostDayFacts
  <2> QED BY <2>1, <2>2, <2>3, GGAInv, GLLInv, GSAInv, RMCInv
<1>2. CASE UNCHANGED vars
  BY <1>2 DEF vars, rvars, Inv, TypeOK, DiffOK, Typed, Paired, NotAhead, Timed, Reader,
              ClockNotAhead, SameYear, TimeIsThatOfPosition
<1> QED BY <1>1, <1>2, StartInv, StopInv, InitReaderInv, TickInv DEF Next

(* The inductive invariant holds always. *)
LEMMA Invariance == Spec => []Inv
<1> QED BY InitInv, NextInv, PTL DEF Spec

-----------------------------------------------------------------------------
(* Type correctness. *)
THEOREM TypeCorrect == Spec => []TypeOK
<1>1. Inv => TypeOK
  BY DEF Inv
<1> QED BY <1>1, Invariance, PTL

(* The two coordinates of the fix are always those of one sentence          *)
(* (nmea_reader_update_latlong, 370-402).                                  *)
THEOREM CoordinatesPaired == Spec => []CoordinatesTogether
<1>1. Inv => CoordinatesTogether
  BY DEF Inv, Paired, Reader, CoordinatesTogether
<1> QED BY <1>1, Invariance, PTL

(* No host that is not ahead itself, in whatever time zone, makes the      *)
(* reader work out a time that is (nmea_reader_update_time, 289-336).      *)
THEOREM TimeBounded == Spec => []TimeNotAhead
<1>1. Inv => TimeNotAhead
  BY DEF Inv, NotAhead, Reader, TimeNotAhead
<1> QED BY <1>1, Invariance, PTL

(* The time told with a position is the time of that position, as long as  *)
(* sentences may be lost but are not damaged (nmea_reader_parse, 545-610). *)
THEOREM TimeMatches == Spec => []TimeIsThatOfPosition
<1>1. Inv => TimeIsThatOfPosition
  BY DEF Inv
<1> QED BY <1>1, Invariance, PTL

-----------------------------------------------------------------------------
(* What is vouched for is news *)

(* What the reader vouches for the line has brought since an RMC was reported. *)
Current == \A v \in Value : FlagOf[v] \in flags => news[v] # 0 /\ fix[v] = news[v]

(* From r to q the values in c are set to what is measured now; the others,
   and their flags, are left alone. *)
Sets(r, q, c) ==
  \A v \in Value :
    /\ v \in c => q.fix[v] = now
    /\ v \notin c => q.fix[v] = r.fix[v] /\ (FlagOf[v] \in q.flags => FlagOf[v] \in r.flags)

(* Two updates in a row. *)
LEMMA SetsTwice ==
  ASSUME NEW r, NEW q, NEW p, NEW c, NEW d, Sets(r, q, c), Sets(q, p, d)
  PROVE  Sets(r, p, c \cup d)
BY DEF Sets

(* Each update of the reader sets what its field of the sentence brings. *)
LEMMA UpdateSets ==
  ASSUME NEW r, Typed(r), NEW s
  PROVE  /\ Sets(r, nmea_reader_update_latlong(r, s), Position(s))
         /\ Sets(r, nmea_reader_update_altitude(r, s), {v \in {"altitude"} : s.altitude})
         /\ Sets(r, nmea_reader_update_bearing(r, s), {v \in {"bearing"} : s.bearing})
         /\ Sets(r, nmea_reader_update_speed(r, s), {v \in {"speed"} : s.speed})
         /\ Sets(r, nmea_reader_update_accuracy(r, s), {v \in {"accuracy"} : s.accuracy})
<1>1. r \in [flags : SUBSET Flag, fix : [Value -> {0} \cup Epoch], timestamp : Int,
             utc_day : {-1} \cup Nat]
  BY DEF Typed, RState
<1>2. Sets(r, nmea_reader_update_latlong(r, s), Position(s))
  <2> DEFINE q == nmea_reader_update_latlong(r, s)
             f == [r.fix EXCEPT !["latitude"] = now, !["longitude"] = now]
  <2>1. CASE ~(s.latitude /\ s.longitude)
    BY <2>1 DEF nmea_reader_update_latlong, Position, Sets
  <2>2. CASE s.latitude /\ s.longitude
    <3>1. q = [r EXCEPT !.flags = @ \cup {"LAT_LONG"}, !.fix = f]
      BY <1>1, <2>2 DEF nmea_reader_update_latlong
    <3>2. /\ f["latitude"] = now /\ f["longitude"] = now
          /\ \A v \in Value \ {"latitude", "longitude"} : f[v] = r.fix[v]
      BY <1>1 DEF Value
    <3> HIDE DEF f, q
    <3>3. q.flags = r.flags \cup {"LAT_LONG"} /\ q.fix = f
      BY <1>1, <3>1
    <3>4. Sets(r, q, {"latitude", "longitude"})
      BY <3>2, <3>3 DEF Sets, FlagOf, Value
    <3> QED BY <2>2, <3>4 DEF Position, q
  <2> QED BY <2>1, <2>2
<1>3. Sets(r, nmea_reader_update_altitude(r, s), {v \in {"altitude"} : s.altitude})
  BY <1>1 DEF nmea_reader_update_altitude, Sets, FlagOf, Value
<1>4. Sets(r, nmea_reader_update_bearing(r, s), {v \in {"bearing"} : s.bearing})
  BY <1>1 DEF nmea_reader_update_bearing, Sets, FlagOf, Value
<1>5. Sets(r, nmea_reader_update_speed(r, s), {v \in {"speed"} : s.speed})
  BY <1>1 DEF nmea_reader_update_speed, Sets, FlagOf, Value
<1>6. Sets(r, nmea_reader_update_accuracy(r, s), {v \in {"accuracy"} : s.accuracy})
  BY <1>1 DEF nmea_reader_update_accuracy, Sets, FlagOf, Value
<1> QED BY <1>2, <1>3, <1>4, <1>5, <1>6

(* What a sentence sets, and nothing else, is news afterwards. *)
LEMMA SetsNews ==
  ASSUME Inv, Current, NEW s, NEW q, Sets(Reader, q, Carried(s))
  PROVE  \A v \in Value : FlagOf[v] \in q.flags =>
           Brought(s)[v] # 0 /\ q.fix[v] = Brought(s)[v]
<1>1. EpochsPerDay \in Nat /\ EpochsPerDay > 0
  BY FixAssumption DEF FixAssumption
<1>2. now # 0
  BY <1>1, KeptState DEF Epoch
<1> SUFFICES ASSUME NEW v \in Value, FlagOf[v] \in q.flags
             PROVE  Brought(s)[v] # 0 /\ q.fix[v] = Brought(s)[v]
  OBVIOUS
<1>3. CASE v \in Carried(s)
  BY <1>2, <1>3 DEF Brought, Sets
<1>4. CASE v \notin Carried(s)
  BY <1>4 DEF Brought, Sets, Current, Reader
<1> QED BY <1>3, <1>4

(* A sentence sets what it carries. *)
LEMMA SentenceSets ==
  ASSUME Inv, NEW s \in Sentence, NEW hostDay, HostDayOK(hostDay)
  PROVE  /\ s.id = "GGA" =>
              Sets(Reader, nmea_reader_update_altitude(nmea_reader_update_latlong(
                     nmea_reader_update_time(Reader, s, hostDay), s), s), Carried(s))
         /\ s.id = "GLL" =>
              Sets(Reader, nmea_reader_update_latlong(
                     nmea_reader_update_time(Reader, s, hostDay), s), Carried(s))
         /\ s.id = "GSA" => Sets(Reader, nmea_reader_update_accuracy(Reader, s), Carried(s))
         /\ s.id = "RMC" => Sets(Reader, Reported(s, hostDay), Carried(s))
<1>1. now \in Epoch /\ DiffOK /\ Typed(Reader) /\ Paired(Reader) /\ NotAhead(Reader)
  BY KeptState DEF Sound
<1>2. ASSUME NEW q, SameFix(Reader, q) PROVE Sets(Reader, q, {})
  BY <1>2 DEF SameFix, Sets
<1>3. ASSUME NEW q, Typed(q), Paired(q)
      PROVE  /\ Typed(nmea_reader_update_latlong(q, s))
             /\ Paired(nmea_reader_update_latlong(q, s))
  BY <1>1, <1>3, PositionUpdate
<1>4. ASSUME NEW q, Typed(q), Paired(q)
      PROVE  /\ Typed(nmea_reader_update_bearing(q, s))
             /\ Paired(nmea_reader_update_bearing(q, s))
  BY <1>1, <1>4, OtherUpdates DEF Moved
<1> DEFINE t == nmea_reader_update_time(Reader, s, hostDay)
<1>5. Typed(t) /\ Paired(t) /\ Sets(Reader, t, {})
  <2>1. Typed(t) /\ SameFix(Reader, t)
    BY <1>1, TimeUpdate
  <2> QED BY <1>1, <1>2, <2>1 DEF SameFix, Paired
<1> HIDE DEF t
<1> DEFINE l == nmea_reader_update_latlong(t, s)
<1>6. Typed(l) /\ Sets(Reader, l, Position(s))
  <2>1. Sets(t, l, Position(s))
    BY <1>5, UpdateSets
  <2>2. Sets(Reader, l, {} \cup Position(s))
    BY <1>5, <2>1, SetsTwice
  <2> QED BY <1>3, <1>5, <2>2
<1> HIDE DEF l
<1>7. CASE s.id = "GGA"
  <2>1. Sets(l, nmea_reader_update_altitude(l, s), {v \in {"altitude"} : s.altitude})
    BY <1>6, UpdateSets
  <2>2. Carried(s) = Position(s) \cup {v \in {"altitude"} : s.altitude}
    BY <1>7 DEF Carried
  <2> QED BY <1>6, <1>7, <2>1, <2>2, SetsTwice DEF l, t
<1>8. CASE s.id = "GLL"
  <2>1. Carried(s) = Position(s)
    BY <1>8 DEF Carried
  <2> QED BY <1>6, <1>8, <2>1 DEF l, t
<1>9. CASE s.id = "GSA"
  <2>1. Carried(s) = {v \in {"accuracy"} : s.accuracy}
    BY <1>9 DEF Carried
  <2>2. Sets(Reader, nmea_reader_update_accuracy(Reader, s), {v \in {"accuracy"} : s.accuracy})
    BY <1>1, UpdateSets
  <2> QED BY <1>9, <2>1, <2>2
<1>10. CASE s.id = "RMC"
  <2> DEFINE q1 == nmea_reader_update_date(Reader, s, hostDay)
             q2 == nmea_reader_update_latlong(q1, s)
             q3 == nmea_reader_update_bearing(q2, s)
             q4 == nmea_reader_update_speed(q3, s)
             b  == {v \in {"bearing"} : s.bearing}
             c  == {v \in {"speed"} : s.speed}
  <2>1. Typed(q1) /\ Paired(q1) /\ Sets(Reader, q1, {})
    <3>1. s.date \in {"good", "refused", "bad_year"}
      BY <1>10, SentenceFacts
    <3>2. Typed(q1) /\ SameFix(Reader, q1)
      BY <1>1, <3>1, DateUpdate
    <3> QED BY <1>1, <1>2, <3>2 DEF SameFix, Paired
  <2>2. q4 = Reported(s, hostDay)
    BY DEF Reported
  <2>3. Typed(q2) /\ Paired(q2) /\ Sets(q1, q2, Position(s))
    BY <1>3, <2>1, UpdateSets
  <2>4. Typed(q3) /\ Sets(q2, q3, b)
    BY <1>4, <2>3, UpdateSets
  <2>5. Sets(q3, q4, c)
    BY <2>4, UpdateSets
  <2>6. Carried(s) = ((({} \cup Position(s)) \cup b) \cup c)
    BY <1>10 DEF Carried
  <2> HIDE DEF q1, q2, q3, q4, b, c
  <2>7. Sets(Reader, q4, ((({} \cup Position(s)) \cup b) \cup c))
    <3>1. Sets(Reader, q2, {} \cup Position(s))
      BY <2>1, <2>3, SetsTwice
    <3>2. Sets(Reader, q3, ({} \cup Position(s)) \cup b)
      BY <2>4, <3>1, SetsTwice
    <3> QED BY <2>5, <3>2, SetsTwice
  <2> QED BY <1>10, <2>2, <2>6, <2>7
<1> QED BY <1>7, <1>8, <1>9, <1>10

(* Every step keeps what is vouched for current. *)
LEMMA NextCurrent ==
  ASSUME Inv, Inv', Current, OnlyNewsAfterRMC, [Next]_vars
  PROVE  Current' /\ OnlyNewsAfterRMC'
<1>1. ASSUME report' = NoReport PROVE OnlyNewsAfterRMC'
  BY <1>1 DEF OnlyNewsAfterRMC, NoReport
<1>2. ASSUME NEW s \in Sentence, nmea_reader_parse(s) PROVE Current' /\ OnlyNewsAfterRMC'
  <2>1. PICK hostDay \in IF utc_day < 0 THEN HostDays ELSE {utc_day} :
          GGA(s, hostDay) \/ GLL(s, hostDay) \/ GSA(s) \/ RMC(s, hostDay)
    BY <1>2 DEF nmea_reader_parse
  <2>2. HostDayOK(hostDay)
    BY <2>1, HostDayFacts
  <2>3. ASSUME NEW q, Sets(Reader, q, Carried(s)), Keep(q), news' = Brought(s)
        PROVE  Current'
    BY <2>3, SetsNews DEF Current, Keep
  <2>4. CASE GGA(s, hostDay)
    BY <1>1, <2>2, <2>3, <2>4, SentenceSets DEF GGA
  <2>5. CASE GLL(s, hostDay)
    BY <1>1, <2>2, <2>3, <2>5, SentenceSets DEF GLL
  <2>6. CASE GSA(s)
    BY <1>1, <2>2, <2>3, <2>6, SentenceSets DEF GSA
  <2>7. CASE RMC(s, hostDay)
    <3> DEFINE q == Reported(s, hostDay)
    <3>1. Sets(Reader, q, Carried(s))
      BY <2>2, <2>7, SentenceSets DEF RMC
    <3>2. CASE ~HasLocation
      <4>1. Keep(q) /\ report' = NoReport /\ news' = Brought(s)
        BY <2>7, <3>2 DEF RMC, Reported
      <4> QED BY <1>1, <2>3, <3>1, <4>1
    <3>3. CASE HasLocation
      <4>1. Keep([q EXCEPT !.flags = {}]) /\ report' = Location(q, "RMC", Brought(s))
        BY <2>7, <3>3 DEF RMC, Reported
      <4>2. Sound(q)
        BY <2>2, <2>7, SentenceFacts, ReportedFacts DEF RMC
      <4>3. flags' = {}
        BY <4>1, <4>2 DEF Keep, Sound, Typed, RState
      <4>4. \A v \in Value : FlagOf[v] \in q.flags =>
              Brought(s)[v] # 0 /\ q.fix[v] = Brought(s)[v]
        BY <3>1, SetsNews
      <4>5. report'.flags = q.flags /\ report'.fix = q.fix /\ report'.news = Brought(s)
        BY <4>1 DEF Location
      <4> QED BY <4>3, <4>4, <4>5 DEF Current, OnlyNewsAfterRMC
    <3> QED BY <3>2, <3>3
  <2> QED BY <2>1, <2>4, <2>5, <2>6, <2>7
<1>3. CASE Start
  <2>1. UNCHANGED <<flags, fix, news>>
    BY <1>3 DEF Start, rvars
  <2>2. CASE report' = NoReport
    BY <1>1, <2>1, <2>2 DEF Current
  <2>3. CASE report' = Location(Reader, "START", news)
    BY <2>1, <2>3 DEF Current, OnlyNewsAfterRMC, Location, Reader
  <2> QED BY <1>3, <2>2, <2>3 DEF Start
<1>4. CASE Stop \/ Tick
  BY <1>1, <1>4 DEF Stop, Tick, rvars, Current
<1>5. CASE nmea_reader_init
  BY <1>1, <1>5 DEF nmea_reader_init, Current
<1>6. CASE UNCHANGED vars
  BY <1>6 DEF vars, rvars, Current, OnlyNewsAfterRMC
<1> QED BY <1>2, <1>3, <1>4, <1>5, <1>6 DEF Next

(* Whatever is lost, damaged or interrupted, a location vouches only for what
   the line brought since the last location reported by RMC (732-740): what an
   RMC has told is not told again before it is measured or sent anew. *)
THEOREM NewsOnly == Spec => []OnlyNewsAfterRMC
<1>1. Init => Current /\ OnlyNewsAfterRMC
  BY DEF Init, Current, OnlyNewsAfterRMC, NoReport
<1>2. Inv /\ Inv' /\ Current /\ OnlyNewsAfterRMC /\ [Next]_vars
        => Current' /\ OnlyNewsAfterRMC'
  BY NextCurrent
<1> QED BY <1>1, <1>2, Invariance, PTL DEF Spec
=============================================================================
