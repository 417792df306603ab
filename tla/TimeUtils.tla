------------------------------ MODULE TimeUtils ------------------------------
(***************************************************************************)
(* RELTIME and TIME strings: read by ParseRelTime and ParseAbsTime, written*)
(* by the ToString of RelativeTime and AbsoluteTime, and read again.  The  *)
(* strings are records of the fields the readers cut them into.            *)
(***************************************************************************)
EXTENDS CxxIntegers, Sequences

CONSTANTS
    RelTexts,      \* the RELTIME strings that may be read
    MinuteCounts,  \* the integers RelTimeFromMinutes may be given
    AbsTexts,      \* the TIME strings that may be read
    Years,         \* where gmtime finds its years
    MaxDays,       \* bound: how far from 1970 a TIME is computed to the end
    None           \* nothing yet

(* The characters of a fraction: digits, a minus sign and any other.       *)
Minus == 10
Digits == 0..9
Chars == 0..11

(* [-]h:mm:ss[.f].  hours may carry a second sign.  malformed says that a  *)
(* field is missing, is no number or is not of two characters.             *)
RelText == [malformed : BOOLEAN, negative : BOOLEAN, hours : Int,
            minutes : Int, seconds : Int, fraction : Seq(Chars),
            point : BOOLEAN]

(* A TIME has fields of two characters, which may be a sign and a digit.   *)
TwoChars == (-9)..99

(* Its time zone; Z, none and anything else behind the seconds are +00:00. *)
Zone == [negative : BOOLEAN, hours : TwoChars, minutes : TwoChars]

AbsText == [malformed : BOOLEAN, year : Int, month : Int, day : Int,
            hour : TwoChars, minute : TwoChars, second : TwoChars,
            fraction : Seq(Digits), zone : Zone]

(* The years that days within the bound can be in, and the days that hours *)
(* of up to 99 add to them.                                                *)
YearsNear ==
    LET years == (MaxDays + 371) \div 365
    IN  (1970 - years)..(1970 + years)

(* Fractions of more than nine digits are those too large for an int.  A   *)
(* string may also have a day below 1, for which the unsigned arithmetic of*)
(* civil_days wraps, or a month outside 1..12: these dates are left out.   *)
ASSUME TimeAssumption ==
    /\ RelTexts \subseteq RelText
    /\ MinuteCounts \subseteq Int
    /\ AbsTexts \subseteq AbsText
    /\ \A text \in AbsTexts :
           /\ Len(text.fraction) > 9 => text.fraction[1] > 2
           /\ text.month \in 1..12 /\ text.day \in 1..99
    /\ MaxDays \in Nat
    /\ YearsNear \subseteq Years /\ Years \subseteq Int

VARIABLES
    text,     \* the string read, or the number of minutes
    days,     \* its date as ParseAbsTime counts it
    time,     \* the RelativeTime or AbsoluteTime it is
    written,  \* the string that time is written as
    reread,   \* the time read from that string, None if it is refused
    pc        \* what was done last, and to which kind of time

vars == <<text, days, time, written, reread, pc>>

Init ==
    /\ text = None /\ days = None /\ time = None
    /\ written = None /\ reread = None
    /\ pc = "start"

-----------------------------------------------------------------------------
(* The first three characters, as thousandths.                             *)
Char(fraction, i) ==
    IF i > Len(fraction) \/ fraction[i] = Minus THEN 0 ELSE fraction[i]

Thousandths(fraction) ==
    100 * Char(fraction, 1) + 10 * Char(fraction, 2) + Char(fraction, 3)

(* What from_chars takes for an integer in the first three characters.     *)
IsFraction(fraction) ==
    LET n == IF Len(fraction) < 3 THEN Len(fraction) ELSE 3
    IN  \/ n > 0 /\ \A i \in 1..n : fraction[i] \in Digits
        \/ n > 1 /\ fraction[1] = Minus /\ \A i \in 2..n : fraction[i] \in Digits

RelTimeParses(t) ==
    /\ ~t.malformed
    /\ t.minutes \in 0..59
    /\ t.seconds \in 0..59
    /\ t.point => IsFraction(t.fraction)

ParseRelTime(t) ==
    LET frac_ms == IF ~t.point THEN 0
                   ELSE IF t.fraction[1] = Minus THEN -Thousandths(t.fraction)
                   ELSE Thousandths(t.fraction)
        total_ms == (t.hours * 3600 + t.minutes * 60 + t.seconds) * 1000
                    + frac_ms
    IN  IF t.negative THEN -total_ms ELSE total_ms

RelTimeFromMinutes(minutes) == minutes * 60 * 1000

ThreeDigits(n) == <<n \div 100, (n \div 10) % 10, n % 10>>

(* A slip: the sign goes with the hours, and is lost when there are none.  *)
SignOfRelHours(ms) == ms <= -3600 * 1000

IsNegative(ms) == ms < 0

RelTimeToString(ms) ==
    LET n == Magnitude(ms)
        total_seconds == n \div 1000
    IN  [malformed |-> FALSE,
         negative  |-> IsNegative(ms),
         hours     |-> total_seconds \div 3600,
         minutes   |-> (total_seconds % 3600) \div 60,
         seconds   |-> total_seconds % 60,
         fraction  |-> ThreeDigits(n % 1000),
         point     |-> n % 1000 > 0]

-----------------------------------------------------------------------------
(* A slip: the years of a century are not told apart.                      *)
JulianDaysOfEra(yoe, doy) == yoe * 365 + yoe \div 4 + doy

DaysOfEra(yoe, doy) == yoe * 365 + yoe \div 4 - yoe \div 100 + doy

CivilDays(y0, m, d) ==
    LET y   == IF m <= 2 THEN y0 - 1 ELSE y0
        era == Quotient(IF y >= 0 THEN y ELSE y - 399, 400)
        yoe == y - era * 400
        doy == (153 * (IF m > 2 THEN m - 3 ELSE m + 9) + 2) \div 5 + d - 1
    IN  era * 146097 + DaysOfEra(yoe, doy) - 719468

(* A slip: the sign of a time zone is given to its hours only.             *)
SignOfHours(zone) ==
    (IF zone.negative THEN -zone.hours ELSE zone.hours) * 60 + zone.minutes

Offset(zone) ==
    LET minutes == zone.hours * 60 + zone.minutes
    IN  IF zone.negative THEN -minutes ELSE minutes

(* The fraction is taken as an int before it is cut to thousandths.        *)
AbsTimeParses(t) == ~t.malformed /\ Len(t.fraction) <= 9

(* Neither the date nor the time of day is checked for its range.          *)
ParseAbsTime(t) ==
    LET offset    == Offset(t.zone)
        epoch_sec == CivilDays(t.year, t.month, t.day) * 86400
                     + t.hour * 3600 + t.minute * 60 + t.second
                     - offset * 60
    IN  [epoch_ms |-> epoch_sec * 1000 + Thousandths(t.fraction),
         tz_offset_minutes |-> offset]

(* The calendar, for gmtime and as the measure of CivilDays: the days of a *)
(* date since 1970-01-01, counted in years, leap days, months and days.    *)
IsLeap(y) == y % 4 = 0 /\ (y % 100 # 0 \/ y % 400 = 0)

DaysIn(y, m) ==
    IF m = 2 THEN IF IsLeap(y) THEN 29 ELSE 28
    ELSE IF m \in {4, 6, 9, 11} THEN 30 ELSE 31

LeapsUpTo(y) == y \div 4 - y \div 100 + y \div 400

DayNumber(y, m, d) ==
    LET before == <<0, 31, 59, 90, 120, 151, 181, 212, 243, 273, 304, 334>>
    IN  365 * (y - 1970) + LeapsUpTo(y - 1) - LeapsUpTo(1969)
        + before[m] + (IF m > 2 /\ IsLeap(y) THEN 1 ELSE 0) + d - 1

Gmtime(day) ==
    CHOOSE date \in Years \X (1..12) \X (1..31) :
        /\ date[3] <= DaysIn(date[1], date[2])
        /\ DayNumber(date[1], date[2], date[3]) = day

(* "%+03d:%02d": the sign is that of the hours.  Of three digits of hours  *)
(* a reader takes two, and no minutes.                                     *)
WrittenZone(tz_offset_minutes) ==
    LET tz_h == Quotient(tz_offset_minutes, 60)
        tz_m == Magnitude(Remainder(tz_offset_minutes, 60))
    IN  [negative |-> tz_h < 0,
         hours    |-> IF Magnitude(tz_h) < 100 THEN Magnitude(tz_h)
                      ELSE Magnitude(tz_h) \div 10,
         minutes  |-> IF Magnitude(tz_h) < 100 THEN tz_m ELSE 0]

(* A slip: seconds are cut toward zero, as if no time were before 1970.    *)
SplitTowardZero(adjusted_ms) ==
    [sec     |-> Quotient(adjusted_ms, 1000),
     frac_ms |-> Magnitude(Remainder(adjusted_ms, 1000))]

(* Seconds and thousandths of which the latter are not negative.           *)
Split(adjusted_ms) ==
    LET sec     == Quotient(adjusted_ms, 1000)
        frac_ms == Remainder(adjusted_ms, 1000)
    IN  IF frac_ms < 0 THEN [sec |-> sec - 1, frac_ms |-> frac_ms + 1000]
        ELSE [sec |-> sec, frac_ms |-> frac_ms]

(* "%04d": other years take more than the four characters a reader takes.  *)
FourChars == (-999)..9999

AbsTimeToString(t) ==
    LET split  == Split(t.epoch_ms + t.tz_offset_minutes * 60 * 1000)
        date   == Gmtime(split.sec \div 86400)
        second == split.sec % 86400
    IN  [malformed |-> date[1] \notin FourChars,
         year      |-> date[1],
         month     |-> date[2],
         day       |-> date[3],
         hour      |-> second \div 3600,
         minute    |-> (second % 3600) \div 60,
         second    |-> second % 60,
         fraction  |-> IF split.frac_ms > 0 THEN ThreeDigits(split.frac_ms)
                       ELSE <<>>,
         zone      |-> WrittenZone(t.tz_offset_minutes)]

-----------------------------------------------------------------------------
ReadRelTime(t) ==
    /\ pc = "start"
    /\ text' = t
    /\ IF RelTimeParses(t) THEN pc' = "rel" /\ time' = ParseRelTime(t)
                           ELSE pc' = "refused" /\ UNCHANGED time
    /\ UNCHANGED <<days, written, reread>>

ReadMinutes(minutes) ==
    /\ pc = "start"
    /\ text' = minutes
    /\ pc' = "rel"
    /\ time' = RelTimeFromMinutes(minutes)
    /\ UNCHANGED <<days, written, reread>>

WriteRelTime ==
    /\ pc = "rel"
    /\ written' = RelTimeToString(time)
    /\ pc' = "rel written"
    /\ UNCHANGED <<text, days, time, reread>>

RereadRelTime ==
    /\ pc = "rel written"
    /\ IF RelTimeParses(written) THEN reread' = ParseRelTime(written)
                                 ELSE UNCHANGED reread
    /\ pc' = "rel reread"
    /\ UNCHANGED <<text, days, time, written>>

(* ParseAbsTime up to the days of its date,                                *)
ReadDate(t) ==
    /\ pc = "start"
    /\ text' = t
    /\ IF AbsTimeParses(t)
       THEN pc' = "date" /\ days' = CivilDays(t.year, t.month, t.day)
       ELSE pc' = "refused" /\ UNCHANGED days
    /\ UNCHANGED <<time, written, reread>>

(* and from there on, for dates in the bound.                              *)
ReadAbsTime ==
    /\ pc = "date"
    /\ days \in (-MaxDays)..MaxDays
    /\ time' = ParseAbsTime(text)
    /\ pc' = "abs"
    /\ UNCHANGED <<text, days, written, reread>>

WriteAbsTime ==
    /\ pc = "abs"
    /\ written' = AbsTimeToString(time)
    /\ pc' = "abs written"
    /\ UNCHANGED <<text, days, time, reread>>

RereadAbsTime ==
    /\ pc = "abs written"
    /\ IF AbsTimeParses(written)
       THEN pc' = "abs reread" /\ reread' = ParseAbsTime(written)
       ELSE pc' = "abs lost" /\ UNCHANGED reread
    /\ UNCHANGED <<text, days, time, written>>

Next ==
    \/ \E t \in RelTexts : ReadRelTime(t)
    \/ \E minutes \in MinuteCounts : ReadMinutes(minutes)
    \/ WriteRelTime
    \/ RereadRelTime
    \/ \E t \in AbsTexts : ReadDate(t)
    \/ ReadAbsTime
    \/ WriteAbsTime
    \/ RereadAbsTime

Spec == Init /\ [][Next]_vars

-----------------------------------------------------------------------------
(* The days of a date are those the calendar counts, for years before and  *)
(* after 1970 and through every kind of leap year; a day past the end of   *)
(* its month, which ParseAbsTime accepts, counts on into the next.  Days   *)
(* below 1 and months outside 1..12, which it accepts too, are no dates of *)
(* the calendar, and TimeAssumption leaves them out.                       *)
CalendarIsGregorian ==
    pc = "date" =>
        days = DayNumber(text.year, text.month, 1) + text.day - 1

(* A relative time read from any string or integer, and written, is read   *)
(* again as the same number of milliseconds: signs without hours, borrowed *)
(* second signs and short or long fractions included.                      *)
RelTimesRoundTrip == pc = "rel reread" => reread = time

(* Offsets that lie between -59 and -1 minutes, or take three digits.      *)
Unwritable(offset) == offset \in (-59)..(-1) \/ Magnitude(offset) >= 6000

(* The offset of a time zone survives writing and reading exactly when it  *)
(* can be written: ToString takes the sign from the hours alone, and the   *)
(* hours from two digits.                                                  *)
OffsetsRoundTrip ==
    pc = "abs reread" =>
        (reread.tz_offset_minutes = time.tz_offset_minutes
             <=> ~Unwritable(time.tz_offset_minutes))

(* With such an offset the instant survives too, on either side of 1970,   *)
(* across midnight and from fields out of their range; without one it is   *)
(* off by the error of the offset, and never by anything else.  What is    *)
(* written can be read but for years of more than four characters.         *)
AbsTimesRoundTrip ==
    /\ pc = "abs reread" =>
           time.epoch_ms - reread.epoch_ms =
               (reread.tz_offset_minutes - time.tz_offset_minutes) * 60 * 1000
    /\ pc = "abs lost" => written.year \notin FourChars

(* include/ccsparser/types.h:95 "Original timezone offset in minutes for   *)
(* faithful round-trip."  ToString prints -00:30 as +00:30.                *)
RoundTripIsFaithful ==
    pc = "abs reread" => reread.tz_offset_minutes = time.tz_offset_minutes

=============================================================================
