------------------------------- MODULE GpsFix -------------------------------
(***************************************************************************)
(* From sentences to locations: what nmea_reader_parse keeps of the        *)
(* sentences that carry a position (GGA, GLL, RMC, and the accuracy of     *)
(* GSA), and what the gps thread tells the framework of it, in a session   *)
(* and outside one.                                                        *)
(*                                                                         *)
(* The receiver measures once per epoch.  A value is represented by the    *)
(* epoch it was measured in; a time of day is the epoch within its day.    *)
(* Sentences may be sent in any order, repeated, lost or lack any of their *)
(* fields.  The gps thread handles one command or one sentence at a time.  *)
(***************************************************************************)
EXTENDS Integers

CONSTANTS
  Sentence,    \* the sentences the receiver may send, see below
  EpochsPerDay,
  LastEpoch,   \* bound of the model
  HostDays,    \* the dates the host's own clock may show
  HostClock,   \* what it may show when a gps thread begins, in epochs
  Zone,        \* how far its local time is ahead, in epochs
  NewYear,     \* the day a year begins; the year before is a leap year
  HasLocation  \* is callbacks.location_cb registered?

Epoch == EpochsPerDay .. LastEpoch   \* day 1 and later; day 0 is in 1999

AnySentence ==
  [id : {"GGA"}, time : BOOLEAN, latitude : BOOLEAN, longitude : BOOLEAN,
   altitude : BOOLEAN]
  \cup
  [id : {"GLL"}, valid : BOOLEAN, time : BOOLEAN, latitude : BOOLEAN,
   longitude : BOOLEAN]
  \cup
  [id : {"RMC"}, valid : BOOLEAN, date : {"good", "refused", "bad_year"},
   time : BOOLEAN, latitude : BOOLEAN, longitude : BOOLEAN,
   bearing : BOOLEAN, speed : BOOLEAN]
  \cup
  [id : {"GSA"}, fixStatus : {"absent", "empty", "no_fix", "fix"},
   accuracy : BOOLEAN]

ASSUME FixAssumption ==
  /\ Sentence \subseteq AnySentence
  /\ EpochsPerDay \in Nat \ {0}
  /\ LastEpoch \in Nat
  /\ EpochsPerDay <= LastEpoch
  /\ HostDays \subseteq Nat /\ HostClock \subseteq Nat
  /\ Zone \in Int /\ -EpochsPerDay < Zone /\ Zone < EpochsPerDay
  /\ NewYear \in Nat
  /\ HasLocation \in BOOLEAN

Flag == {"LAT_LONG", "ALTITUDE", "BEARING", "SPEED", "ACCURACY"}

(* The status values of gps.h; "garbage" is a number that nobody chose. *)
StatusValue == {"NONE", "SESSION_BEGIN", "SESSION_END", "ENGINE_ON", "ENGINE_OFF"}

VARIABLES
  (* NmeaReader *)
  flags, fix,   \* fix.flags, and the epochs of the values in fix
  timestamp,    \* fix.timestamp, in epochs
  utc_day,      \* utc_year, utc_mon and utc_day; -1 while there is none
  utc_diff,     \* local time minus UTC, as the reader has worked it out
  location_cb,  \* is callback.location_cb set?
  (* gps_state_thread *)
  started,
  (* the framework *)
  shown,        \* the status it was told last
  report,       \* the location it is told in this step, if any
  (* the receiver *)
  now,          \* the epoch of the sentences it sends
  (* history *)
  news,         \* of each value, the epoch in which the line last brought it to
                \* this reader since an RMC was reported; 0 if it did not
  complete,     \* did all sentences so far have all their fields?
  bornAt        \* what the host's clock showed when the gps thread began

rvars == <<flags, fix, timestamp, utc_day>>
vars  == <<rvars, utc_diff, bornAt, location_cb, started, shown, report, now,
           news, complete>>

(* The values of a location, and the flag that vouches for each of them. *)
FlagOf == [latitude |-> "LAT_LONG", longitude |-> "LAT_LONG",
           altitude |-> "ALTITUDE", bearing |-> "BEARING",
           speed |-> "SPEED", accuracy |-> "ACCURACY"]
Value == {"latitude", "longitude", "altitude", "bearing", "speed", "accuracy"}

NoNews == [v \in Value |-> 0]
NoReport == [source |-> "none", flags |-> {}, fix |-> [v \in Value |-> 0],
             timestamp |-> 0, news |-> NoNews]

TypeOK ==
  /\ flags \subseteq Flag
  /\ fix \in [Value -> {0} \cup Epoch]
  /\ timestamp \in Int /\ timestamp >= -EpochsPerDay
  /\ utc_day \in {-1} \cup Nat
  /\ location_cb \in BOOLEAN
  /\ started \in BOOLEAN
  /\ shown \in StatusValue \cup {"garbage"}
  /\ report \in [source : {"none", "RMC", "START"}, flags : SUBSET Flag,
                  fix : [Value -> {0} \cup Epoch], timestamp : Int,
                  news : [Value -> {0} \cup Epoch]]
  /\ now \in Epoch
  /\ news \in [Value -> {0} \cup Epoch]
  /\ complete \in BOOLEAN
  /\ utc_diff \in Int
  /\ bornAt \in HostClock

Day(epoch) == epoch \div EpochsPerDay
TimeOfDay(epoch) == epoch % EpochsPerDay

-----------------------------------------------------------------------------
(* The time zone *)

tm_year(epoch) == IF Day(epoch) < NewYear THEN 0 ELSE 1
tm_yday(epoch) == IF Day(epoch) < NewYear THEN Day(epoch) - NewYear + 366
                  ELSE Day(epoch) - NewYear

(* Every year counts 365 days, the leap year too. *)
Seconds(epoch) ==
  (tm_yday(epoch) + 365 * tm_year(epoch)) * EpochsPerDay + TimeOfDay(epoch)

(* A mutant: the difference the other way round. *)
UtcDiffSwapped(clock) == Seconds(clock) - Seconds(clock + Zone)

nmea_reader_update_utc_diff(clock) == Seconds(clock + Zone) - Seconds(clock)

(* mktime takes a time of UTC for one of the local time. *)
mktime(day, timeOfDay) == day * EpochsPerDay + timeOfDay - Zone

Init ==
  /\ bornAt \in HostClock
  /\ utc_diff = nmea_reader_update_utc_diff(bornAt)
  /\ flags = {}
  /\ fix = [v \in Value |-> 0]
  /\ timestamp = 0
  /\ utc_day = -1
  /\ location_cb = FALSE
  /\ started = FALSE
  /\ shown = "ENGINE_ON"
  /\ report = NoReport
  /\ now = EpochsPerDay
  /\ news = NoNews
  /\ complete = TRUE

-----------------------------------------------------------------------------
(* The fields of a sentence.  A record of Sentence says of each field of the
   sentence whether it is there: s.time, s.position (both coordinates, or
   one of them cut short), s.altitude and so on; what a field says is what
   the receiver measures now.  The record r is the part of NmeaReader that
   a sentence changes. *)

Reader == [flags |-> flags, fix |-> fix, timestamp |-> timestamp, utc_day |-> utc_day]

(* update_time with a month (here: a day) that starts to count at one. *)
UpdateTimeOffByOne(r, s, hostDay) ==
  IF ~s.time THEN r
  ELSE LET day == IF r.utc_day < 0 THEN hostDay ELSE r.utc_day
       IN  [r EXCEPT !.utc_day = day,
                     !.timestamp = mktime(day + 1, TimeOfDay(now)) + utc_diff]

(* Before the first date the host's clock supplies one. *)
nmea_reader_update_time(r, s, hostDay) ==
  IF ~s.time THEN r
  ELSE LET day == IF r.utc_day < 0 THEN hostDay ELSE r.utc_day
       IN  [r EXCEPT !.utc_day = day,
                     !.timestamp = mktime(day, TimeOfDay(now)) + utc_diff]

(* update_date that works the time out before it stores the date. *)
UpdateDateLate(r, s, hostDay) ==
  LET timed == nmea_reader_update_time(r, s, hostDay)
  IN  CASE s.date = "refused"  -> r
        [] s.date = "bad_year" -> [timed EXCEPT !.utc_day = 0]
        [] s.date = "good"     -> [timed EXCEPT !.utc_day = Day(now)]

(* A date of the wrong length or with a letter in its day or month is
   refused, and the time with it.  A letter in the year makes str2int return
   -1, which 2000 is added to before the test for a negative number. *)
nmea_reader_update_date(r, s, hostDay) ==
  CASE s.date = "refused" -> r
    [] s.date = "bad_year" ->
         nmea_reader_update_time([r EXCEPT !.utc_day = 0], s, hostDay)
    [] s.date = "good" ->
         nmea_reader_update_time([r EXCEPT !.utc_day = Day(now)], s, hostDay)

(* update_latlong that stores the latitude before it looks at the longitude. *)
UpdateLatitudeFirst(r, s) ==
  LET half == IF s.latitude THEN [r EXCEPT !.fix.latitude = now] ELSE r
  IN  IF s.latitude /\ s.longitude
      THEN [half EXCEPT !.flags = @ \cup {"LAT_LONG"}, !.fix.longitude = now]
      ELSE half

nmea_reader_update_latlong(r, s) ==
  IF s.latitude /\ s.longitude
  THEN [r EXCEPT !.flags = @ \cup {"LAT_LONG"},
                 !.fix.latitude = now, !.fix.longitude = now]
  ELSE r

nmea_reader_update_altitude(r, s) ==
  IF s.altitude
  THEN [r EXCEPT !.flags = @ \cup {"ALTITUDE"}, !.fix.altitude = now]
  ELSE r

nmea_reader_update_bearing(r, s) ==
  IF s.bearing
  THEN [r EXCEPT !.flags = @ \cup {"BEARING"}, !.fix.bearing = now]
  ELSE r

nmea_reader_update_speed(r, s) ==
  IF s.speed
  THEN [r EXCEPT !.flags = @ \cup {"SPEED"}, !.fix.speed = now]
  ELSE r

(* 99.99, the receiver's way to say unknown, is flagged like any other value:
   the float it was stored in never equals the double it is compared with. *)
nmea_reader_update_accuracy(r, s) ==
  IF s.accuracy
  THEN [r EXCEPT !.flags = @ \cup {"ACCURACY"}, !.fix.accuracy = now]
  ELSE r

-----------------------------------------------------------------------------
(* nmea_reader_parse *)

Keep(r) ==
  /\ flags' = r.flags /\ fix' = r.fix
  /\ timestamp' = r.timestamp /\ utc_day' = r.utc_day

(* What location_cb(&fix) hands to the framework, and what was news then. *)
Location(r, source, since) ==
  [source |-> source, flags |-> r.flags, fix |-> r.fix, timestamp |-> r.timestamp,
   news |-> since]

(* The values that s brings, whatever the reader makes of them. *)
Position(s) == IF s.latitude /\ s.longitude THEN {"latitude", "longitude"} ELSE {}
Carried(s) ==
  CASE s.id = "GGA" -> Position(s) \cup {v \in {"altitude"} : s.altitude}
    [] s.id = "GLL" -> Position(s)
    [] s.id = "RMC" -> Position(s) \cup {v \in {"bearing", "speed"} : s[v]}
    [] s.id = "GSA" -> {v \in {"accuracy"} : s.accuracy}

Brought(s) == [v \in Value |-> IF v \in Carried(s) THEN now ELSE news[v]]

GGA(s, hostDay) ==
  /\ s.id = "GGA"
  /\ Keep(nmea_reader_update_altitude(
            nmea_reader_update_latlong(
              nmea_reader_update_time(Reader, s, hostDay), s), s))
  /\ report' = NoReport
  /\ news' = Brought(s)
  /\ UNCHANGED <<location_cb, started, shown, now, utc_diff, bornAt>>

GLL(s, hostDay) ==
  /\ s.id = "GLL"
  /\ s.valid
  /\ Keep(nmea_reader_update_latlong(
            nmea_reader_update_time(Reader, s, hostDay), s))
  /\ report' = NoReport
  /\ news' = Brought(s)
  /\ UNCHANGED <<location_cb, started, shown, now, utc_diff, bornAt>>

(* The test for an absent fix status looks at the first character of the
   token: that of an empty one is the comma behind it, which passes. *)
GSA(s) ==
  /\ s.id = "GSA"
  /\ s.fixStatus \in {"fix", "empty"}
  /\ Keep(nmea_reader_update_accuracy(Reader, s))
  /\ report' = NoReport
  /\ news' = Brought(s)
  /\ UNCHANGED <<location_cb, started, shown, now, utc_diff, bornAt>>

(* RMC without the r->fix.flags = 0 after the call. *)
RMCKeepsFlags(s, hostDay) ==
  /\ s.id = "RMC"
  /\ s.valid
  /\ LET r == nmea_reader_update_speed(
                nmea_reader_update_bearing(
                  nmea_reader_update_latlong(
                    nmea_reader_update_date(Reader, s, hostDay), s), s), s)
     IN  /\ Keep(r)
         /\ report' = IF HasLocation THEN Location(r, "RMC", Brought(s)) ELSE NoReport
         /\ news' = IF HasLocation THEN NoNews ELSE Brought(s)
  /\ location_cb' = HasLocation
  /\ shown' = "garbage"
  /\ UNCHANGED <<started, now, utc_diff, bornAt>>

(* A valid RMC installs the framework's callbacks anew, session or not, and
   reports.  status_cb gets the address of fix.flags, which is not that of a
   GpsStatus: the status it finds there is what lies behind the flags. *)
RMC(s, hostDay) ==
  /\ s.id = "RMC"
  /\ s.valid
  /\ LET r == nmea_reader_update_speed(
                nmea_reader_update_bearing(
                  nmea_reader_update_latlong(
                    nmea_reader_update_date(Reader, s, hostDay), s), s), s)
     IN  IF HasLocation
         THEN /\ Keep([r EXCEPT !.flags = {}])
              /\ report' = Location(r, "RMC", Brought(s))
              /\ news' = NoNews
         ELSE /\ Keep(r)
              /\ report' = NoReport
              /\ news' = Brought(s)
  /\ location_cb' = HasLocation
  /\ shown' = "garbage"
  /\ UNCHANGED <<started, now, utc_diff, bornAt>>

(* Nothing is missing in s. *)
Complete(s) ==
  CASE s.id = "GGA" -> s.time /\ s.latitude /\ s.longitude /\ s.altitude
    [] s.id = "GLL" -> s.time /\ s.latitude /\ s.longitude
    [] s.id = "RMC" -> /\ s.date = "good" /\ s.time /\ s.latitude /\ s.longitude
                       /\ s.bearing /\ s.speed
    [] s.id = "GSA" -> s.fixStatus = "fix" /\ s.accuracy

nmea_reader_parse(s) ==
  /\ complete' = (complete /\ Complete(s))
  /\ \E hostDay \in IF utc_day < 0 THEN HostDays ELSE {utc_day} :
       GGA(s, hostDay) \/ GLL(s, hostDay) \/ GSA(s) \/ RMC(s, hostDay)

-----------------------------------------------------------------------------
(* CMD_START and CMD_STOP.  nmea_reader_set_callback hands the latest fix to
   a new callback and leaves its flags as they are. *)

Start ==
  /\ ~started
  /\ started' = TRUE
  /\ shown' = "SESSION_BEGIN"
  /\ location_cb' = HasLocation
  /\ report' = IF HasLocation /\ flags # {} THEN Location(Reader, "START", news) ELSE NoReport
  /\ UNCHANGED <<rvars, now, news, complete, utc_diff, bornAt>>

Stop ==
  /\ started
  /\ started' = FALSE
  /\ shown' = "SESSION_END"
  /\ location_cb' = FALSE
  /\ report' = NoReport
  /\ UNCHANGED <<rvars, now, news, complete, utc_diff, bornAt>>

(* qemu_gps_cleanup and qemu_gps_init in a row: a new thread with a new
   reader. *)
nmea_reader_init ==
  /\ flags' = {} /\ fix' = [v \in Value |-> 0] /\ timestamp' = 0
  /\ utc_day' = -1
  /\ bornAt' \in HostClock
  /\ utc_diff' = nmea_reader_update_utc_diff(bornAt')
  /\ location_cb' = FALSE /\ started' = FALSE /\ shown' = "ENGINE_ON"
  /\ report' = NoReport /\ news' = NoNews
  /\ UNCHANGED <<now, complete>>

(* The receiver goes on to its next measurement. *)
Tick ==
  /\ now < LastEpoch
  /\ now' = now + 1
  /\ report' = NoReport
  /\ UNCHANGED <<rvars, location_cb, started, shown, news, complete, utc_diff, bornAt>>

Next ==
  \/ \E s \in Sentence : nmea_reader_parse(s)
  \/ Start \/ Stop \/ nmea_reader_init \/ Tick

Spec == Init /\ [][Next]_vars

-----------------------------------------------------------------------------
(* The two coordinates always come from the same sentence, whichever of them
   a damaged sentence lacks (370-402). *)
CoordinatesTogether == fix.latitude = fix.longitude

(* What a location vouches for the line has brought since the last location
   that an RMC sentence reported (732-740), and it is the latest it brought:
   nothing that an RMC told is told once more, neither by the next RMC nor at
   the START of a later session, until a sentence brings it anew, although
   sentences are lost or damaged and sessions interrupted in between.  What a
   START hands over is another matter: its flags stay set (284-291), so the
   next START or RMC tells it again. *)
OnlyNewsAfterRMC ==
  \A v \in Value : FlagOf[v] \in report.flags =>
    report.news[v] # 0 /\ report.fix[v] = report.news[v]

(* The gps thread did not begin while it was already, or still, another year
   in the host's time zone than in UTC, one of the two being a leap year. *)
SameYear == tm_year(bornAt) = tm_year(bornAt + Zone)

(* When the host's clock is not ahead, no time the reader works out is: a
   date is never combined with the time of day of an earlier one. *)
ClockNotAhead == \A day \in HostDays : day <= 1
TimeNotAhead == ClockNotAhead /\ SameYear => timestamp <= now

(* As long as sentences lack nothing, though they may be lost, a location
   reported by RMC has the time of its position, unless the thread began on
   such a New Year's Eve, and one handed over at START has the right time of
   day, if perhaps not yet the right day. *)
TimeIsThatOfPosition ==
  complete /\ "LAT_LONG" \in report.flags =>
    /\ report.source = "RMC" /\ SameYear => report.timestamp = report.fix.latitude
    /\ TimeOfDay(report.timestamp) = TimeOfDay(report.fix.latitude)

(* "when started, messages [...] must be parsed to be converted into GPS
   fixes sent to the framework" (927-930). *)
LocationOnlyInSession == report # NoReport => started
=============================================================================
