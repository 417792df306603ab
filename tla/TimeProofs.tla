----------------------------- MODULE TimeProofs -----------------------------
(***************************************************************************)
(* Proofs about TimeUtils, for every string and every time: what is written*)
(* of a relative time is read again as that time, the offsets that survive *)
(* are exactly the writable ones, and civil_days counts the calendar.      *)
(***************************************************************************)
EXTENDS TimeUtils, WellFoundedInduction, TLAPS

(* A fraction of three digits, read as n thousandths.                      *)
ReadAs(fraction, n) ==
    /\ Len(fraction) = 3
    /\ \A i \in 1..3 : fraction[i] \in Digits
    /\ Thousandths(fraction) = n

(* The three digits ToString prints of a fraction are read as that number. *)
LEMMA ThreeDigitsAreRead ==
    ASSUME NEW n \in Nat, n < 1000
    PROVE  ReadAs(ThreeDigits(n), n)
<1> DEFINE a == n \div 100
           b == (n \div 10) % 10
           c == n % 10
<1>1. a \in 0..9 /\ b \in 0..9 /\ c \in 0..9
  OBVIOUS
<1>2. 100 * a + 10 * b + c = n
  OBVIOUS
<1>3. ThreeDigits(n) = <<a, b, c>>
  BY DEF ThreeDigits
<1> HIDE DEF a, b, c
<1>4. Char(<<a, b, c>>, 1) = a /\ Char(<<a, b, c>>, 2) = b
      /\ Char(<<a, b, c>>, 3) = c
  BY <1>1 DEF Char, Minus
<1>5. Thousandths(<<a, b, c>>) = n
  BY <1>1, <1>2, <1>4 DEF Thousandths
<1> QED
  BY <1>1, <1>3, <1>5 DEF ReadAs, Digits

(* A number of milliseconds is the sum of its hours, minutes, seconds and  *)
(* thousandths.                                                            *)
LEMMA FieldsOfMilliseconds ==
    ASSUME NEW n \in Nat
    PROVE  LET s == n \div 1000
           IN  /\ s \in Nat
               /\ s \div 3600 \in Nat
               /\ (s % 3600) \div 60 \in 0..59
               /\ s % 60 \in 0..59
               /\ n % 1000 \in Nat /\ n % 1000 < 1000
               /\ ((s \div 3600) * 3600 + ((s % 3600) \div 60) * 60
                    + (s % 60)) * 1000 + (n % 1000) = n
<1> DEFINE s == n \div 1000
           h == s \div 3600
           r == s % 3600
<1>1. s \in Nat /\ n % 1000 \in Nat /\ n % 1000 < 1000 /\ s * 1000 + (n % 1000) = n
  OBVIOUS
<1> HIDE DEF s
<1>2. h \in Nat /\ r \in 0..3599 /\ h * 3600 + r = s
  BY <1>1
<1>3. s % 60 = r % 60
  BY <1>1, <1>2
<1> HIDE DEF h, r
<1>4. r \div 60 \in 0..59 /\ r % 60 \in 0..59 /\ (r \div 60) * 60 + (r % 60) = r
  BY <1>2
<1> QED
  BY <1>1, <1>2, <1>3, <1>4 DEF s, h, r

(* The record of RelTimeToString.                                          *)
RelRecord(negative, hours, minutes, seconds, fraction, f) ==
    [malformed |-> FALSE, negative |-> negative, hours |-> hours,
     minutes |-> minutes, seconds |-> seconds, fraction |-> fraction,
     point |-> f > 0]

(* It has a point when it has thousandths.                                 *)
LEMMA PointOfRecord ==
    ASSUME NEW negative, NEW hours, NEW minutes, NEW seconds, NEW fraction,
           NEW f \in Int
    PROVE  RelRecord(negative, hours, minutes, seconds, fraction, f).point
               <=> f > 0
BY DEF RelRecord

(* ParseRelTime undoes RelativeTime::ToString.                             *)
LEMMA ParseUndoesToString ==
    ASSUME NEW ms \in Int
    PROVE  /\ RelTimeParses(RelTimeToString(ms))
           /\ ParseRelTime(RelTimeToString(ms)) = ms
<1> DEFINE n == Magnitude(ms)
           t == RelTimeToString(ms)
<1>1. n \in Nat /\ ms = IF ms < 0 THEN -n ELSE n
  BY DEF Magnitude
<1>2. n % 1000 \in Nat /\ n % 1000 < 1000
  BY <1>1, FieldsOfMilliseconds
<1>3. /\ t.malformed = FALSE
      /\ t.negative <=> ms < 0
      /\ t.hours = (n \div 1000) \div 3600
      /\ t.minutes = ((n \div 1000) % 3600) \div 60
      /\ t.seconds = (n \div 1000) % 60
      /\ t.fraction = ThreeDigits(n % 1000)
      /\ t.point <=> n % 1000 > 0
  <2>1. t.malformed = FALSE
    BY DEF RelTimeToString
  <2>2. t.negative <=> ms < 0
    <3>1. t.negative = IsNegative(ms)
      BY DEF RelTimeToString
    <3> HIDE DEF n, t
    <3> QED
      BY <3>1 DEF IsNegative
  <2>3. t.hours = (n \div 1000) \div 3600
    BY DEF RelTimeToString
  <2>4. t.minutes = ((n \div 1000) % 3600) \div 60
    BY DEF RelTimeToString
  <2>5. t.seconds = (n \div 1000) % 60
    BY DEF RelTimeToString
  <2>6. t.fraction = ThreeDigits(n % 1000)
    BY DEF RelTimeToString
  <2>7. t.point <=> n % 1000 > 0
    <3>1. n % 1000 \in Int
      BY <1>2
    <3>2. t = RelRecord(IsNegative(ms), (n \div 1000) \div 3600,
                        ((n \div 1000) % 3600) \div 60, (n \div 1000) % 60,
                        ThreeDigits(n % 1000), n % 1000)
      BY DEF RelTimeToString, RelRecord
    <3> HIDE DEF n, t
    <3> QED
      BY <3>1, <3>2, PointOfRecord
  <2> QED
    BY <2>1, <2>2, <2>3, <2>4, <2>5, <2>6, <2>7
<1> HIDE DEF n, t
<1>4. /\ t.hours \in Nat /\ t.minutes \in 0..59 /\ t.seconds \in 0..59
      /\ (t.hours * 3600 + t.minutes * 60 + t.seconds) * 1000 + (n % 1000) = n
  <2> DEFINE h == (n \div 1000) \div 3600
             m == ((n \div 1000) % 3600) \div 60
             sec == (n \div 1000) % 60
  <2>1. /\ h \in Nat /\ m \in 0..59 /\ sec \in 0..59
        /\ (h * 3600 + m * 60 + sec) * 1000 + (n % 1000) = n
    BY <1>1, FieldsOfMilliseconds
  <2>2. t.hours = h /\ t.minutes = m /\ t.seconds = sec
    BY <1>3
  <2> HIDE DEF h, m, sec
  <2> QED
    BY <2>1, <2>2
<1>5. /\ Len(t.fraction) = 3
      /\ \A i \in 1..3 : t.fraction[i] \in Digits
      /\ Thousandths(t.fraction) = n % 1000
  <2> DEFINE f == n % 1000
  <2>1. f \in Nat /\ f < 1000
    BY <1>2
  <2>2. t.fraction = ThreeDigits(f)
    BY <1>3
  <2> HIDE DEF f
  <2>3. ReadAs(ThreeDigits(f), f)
    BY <2>1, ThreeDigitsAreRead
  <2>4. ReadAs(t.fraction, n % 1000)
    BY <2>2, <2>3 DEF f
  <2> QED
    BY <2>4, Zenon DEF ReadAs
<1>6. IsFraction(t.fraction)
  BY <1>5 DEF IsFraction
<1>7. RelTimeParses(t)
  BY <1>3, <1>4, <1>6 DEF RelTimeParses
<1>8. t.fraction[1] # Minus
  BY <1>5 DEF Digits, Minus
<1> DEFINE frac_ms == IF ~t.point THEN 0
                      ELSE IF t.fraction[1] = Minus THEN -Thousandths(t.fraction)
                      ELSE Thousandths(t.fraction)
<1>9. frac_ms = n % 1000
  <2>1. CASE n % 1000 > 0
    <3>1. t.point
      BY <1>3, <2>1
    <3> QED
      BY <1>5, <1>8, <3>1
  <2>2. CASE ~(n % 1000 > 0)
    <3>1. ~t.point
      BY <1>3, <2>2
    <3>2. n % 1000 = 0
      BY <1>2, <2>2
    <3> QED
      BY <3>1, <3>2
  <2> QED
    BY <2>1, <2>2
<1>10. ParseRelTime(t) =
          IF t.negative
          THEN -((t.hours * 3600 + t.minutes * 60 + t.seconds) * 1000 + frac_ms)
          ELSE (t.hours * 3600 + t.minutes * 60 + t.seconds) * 1000 + frac_ms
  BY DEF ParseRelTime
<1> HIDE DEF frac_ms
<1>11. CASE ms < 0
  <2>1. t.negative
    BY <1>3, <1>11
  <2>2. ParseRelTime(t) = -n
    BY <1>4, <1>9, <1>10, <2>1
  <2> QED
    BY <1>1, <1>7, <1>11, <2>2 DEF t
<1>12. CASE ~(ms < 0)
  <2>1. ~t.negative
    BY <1>3, <1>12
  <2>2. ParseRelTime(t) = n
    BY <1>4, <1>9, <1>10, <2>1
  <2> QED
    BY <1>1, <1>7, <1>12, <2>2 DEF t
<1> QED
  BY <1>11, <1>12

-----------------------------------------------------------------------------
(* The offsets two digits of hours and two of minutes can have.            *)
IsOffset(o) == o \in Int /\ -6039 <= o /\ o <= 6039

(* Hours and minutes of an offset, both cut toward zero.                   *)
LEMMA HoursOfOffset ==
    ASSUME NEW o, IsOffset(o)
    PROVE  LET h == Quotient(o, 60)
               m == Magnitude(Remainder(o, 60))
           IN  /\ h \in Int /\ -100 <= h /\ h <= 100 /\ m \in 0..59
               /\ o >= 0 => h >= 0 /\ o = h * 60 + m
               /\ o < 0 => h <= 0 /\ o = h * 60 - m
<1> USE DEF IsOffset
<1>1. CASE o >= 0
  <2>1. Quotient(o, 60) = o \div 60 /\ Magnitude(Remainder(o, 60)) = o % 60
    BY <1>1 DEF Quotient, Remainder, Magnitude
  <2> QED
    BY <1>1, <2>1
<1>2. CASE o < 0
  <2> DEFINE p == -o
  <2>1. p \in 1..6039
    BY <1>2
  <2>2. Quotient(o, 60) = -(p \div 60) /\ Remainder(o, 60) = -(p % 60)
    BY <1>2 DEF Quotient, Remainder
  <2>3. p \div 60 \in 0..100 /\ p % 60 \in 0..59
        /\ p = (p \div 60) * 60 + (p % 60)
    BY <2>1
  <2>4. o = -p
    BY <1>2
  <2> HIDE DEF p
  <2>5. Magnitude(Remainder(o, 60)) = p % 60
    BY <2>2, <2>3 DEF Magnitude
  <2> QED
    BY <2>1, <2>2, <2>3, <2>4, <2>5
<1> QED
  BY <1>1, <1>2

(* The record of WrittenZone.                                              *)
SignedZone(tz_h, hours, minutes) ==
    [negative |-> tz_h < 0, hours |-> hours, minutes |-> minutes]

(* Its sign is that of its hours.                                          *)
LEMMA SignOfZone ==
    ASSUME NEW tz_h \in Int, NEW hours, NEW minutes
    PROVE  SignedZone(tz_h, hours, minutes).negative <=> tz_h < 0
BY DEF SignedZone

(* Two digits of hours hold any offset but those of three digits, and the  *)
(* sign of the hours is that of the offset but for -59 to -1.              *)
LEMMA OffsetIsReread ==
    ASSUME NEW o, IsOffset(o)
    PROVE  /\ Offset(WrittenZone(o)) \in Int
           /\ Offset(WrittenZone(o)) = o <=> ~Unwritable(o)
<1> DEFINE h == Quotient(o, 60)
           m == Magnitude(Remainder(o, 60))
           zone == WrittenZone(o)
<1>1. /\ h \in Int /\ -100 <= h /\ h <= 100 /\ m \in 0..59
      /\ o >= 0 => h >= 0 /\ o = h * 60 + m
      /\ o < 0 => h <= 0 /\ o = h * 60 - m
  BY HoursOfOffset
<1> USE DEF IsOffset
<1>2. /\ zone.negative <=> h < 0
      /\ zone.hours = IF Magnitude(h) < 100 THEN Magnitude(h)
                      ELSE Magnitude(h) \div 10
      /\ zone.minutes = IF Magnitude(h) < 100 THEN m ELSE 0
  <2>1. zone.negative <=> h < 0
    <3>1. h \in Int
      BY <1>1
    <3>2. zone = SignedZone(h, IF Magnitude(h) < 100 THEN Magnitude(h)
                               ELSE Magnitude(h) \div 10,
                            IF Magnitude(h) < 100 THEN m ELSE 0)
      BY DEF WrittenZone, SignedZone
    <3> HIDE DEF h, m, zone
    <3> QED
      BY <3>1, <3>2, SignOfZone
  <2>2. zone.hours = IF Magnitude(h) < 100 THEN Magnitude(h)
                     ELSE Magnitude(h) \div 10
    BY DEF WrittenZone
  <2>3. zone.minutes = IF Magnitude(h) < 100 THEN m ELSE 0
    BY DEF WrittenZone
  <2> HIDE DEF h, m, zone
  <2> QED
    BY <2>1, <2>2, <2>3
<1> HIDE DEF h, m, zone
<1> SUFFICES /\ Offset(zone) \in Int
             /\ Offset(zone) = o <=> ~Unwritable(o)
  BY DEF zone
<1>3. CASE h < 0
  <2>1. zone.negative
    BY <1>2, <1>3
  <2>2. Offset(zone) = -(zone.hours * 60 + zone.minutes)
    BY <2>1 DEF Offset
  <2>3. o < 0 /\ o = h * 60 - m /\ Magnitude(h) = -h /\ Magnitude(o) = -o
    BY <1>1, <1>3 DEF Magnitude
  <2>4. CASE h > -100
    <3>1. zone.hours = -h /\ zone.minutes = m
      BY <1>1, <1>2, <2>3, <2>4
    <3> QED
      BY <1>1, <1>3, <2>2, <2>3, <2>4, <3>1 DEF Unwritable
  <2>5. CASE h = -100
    <3>1. zone.hours = 10 /\ zone.minutes = 0
      BY <1>2, <2>3, <2>5
    <3> QED
      BY <1>1, <2>2, <2>3, <2>5, <3>1 DEF Unwritable
  <2> QED
    BY <1>1, <1>3, <2>4, <2>5
<1>4. CASE h > 0
  <2>1. ~zone.negative
    BY <1>1, <1>2, <1>4
  <2>2. Offset(zone) = zone.hours * 60 + zone.minutes
    BY <2>1 DEF Offset
  <2>3. o >= 0 /\ o = h * 60 + m /\ Magnitude(h) = h /\ Magnitude(o) = o
    BY <1>1, <1>4 DEF Magnitude
  <2>4. CASE h < 100
    <3>1. zone.hours = h /\ zone.minutes = m
      BY <1>1, <1>2, <2>3, <2>4
    <3> QED
      BY <1>1, <1>4, <2>2, <2>3, <2>4, <3>1 DEF Unwritable
  <2>5. CASE h = 100
    <3>1. zone.hours = 10 /\ zone.minutes = 0
      BY <1>2, <2>3, <2>5
    <3> QED
      BY <1>1, <2>2, <2>3, <2>5, <3>1 DEF Unwritable
  <2> QED
    BY <1>1, <1>4, <2>4, <2>5
<1>5. CASE h = 0
  <2>1. ~zone.negative /\ Magnitude(h) = 0
    BY <1>2, <1>5 DEF Magnitude
  <2>2. zone.hours = 0 /\ zone.minutes = m
    BY <1>2, <2>1
  <2>3. Offset(zone) = m
    BY <1>1, <2>1, <2>2 DEF Offset
  <2>4. -59 <= o /\ o <= 59 /\ m = Magnitude(o)
    BY <1>1, <1>5 DEF Magnitude
  <2> QED
    BY <1>1, <2>3, <2>4 DEF Unwritable, Magnitude
<1> QED
  BY <1>1, <1>3, <1>4, <1>5

(* The offset of any zone is one of these offsets.                         *)
LEMMA OffsetInRange ==
    ASSUME NEW zone \in Zone
    PROVE  IsOffset(Offset(zone))
<1>1. /\ zone.hours \in Int /\ -9 <= zone.hours /\ zone.hours <= 99
      /\ zone.minutes \in Int /\ -9 <= zone.minutes /\ zone.minutes <= 99
  BY DEF Zone, TwoChars
<1>2. LET minutes == zone.hours * 60 + zone.minutes
      IN  minutes \in Int /\ -6039 <= minutes /\ minutes <= 6039
  BY <1>1
<1> QED
  BY <1>2 DEF Offset, IsOffset

-----------------------------------------------------------------------------
(* The era of a year before 0 is floored, as that of a year after it.      *)
LEMMA EraIsFloored ==
    ASSUME NEW y \in Int
    PROVE  Quotient(IF y >= 0 THEN y ELSE y - 399, 400) = y \div 400
BY DEF Quotient

(* The year yoe of an era, and the leap days up to it.                     *)
InEra(y, era, yoe) == era \in Int /\ yoe \in 0..399 /\ y = 400 * era + yoe

LeapsWithin(era, yoe) == 97 * era + yoe \div 4 - yoe \div 100

(* The leap days up to a year are those of the eras before it and those of *)
(* its own.                                                                *)
LEMMA LeapsOfEra ==
    ASSUME NEW y \in Int, NEW era, NEW yoe, InEra(y, era, yoe)
    PROVE  LeapsUpTo(y) = LeapsWithin(era, yoe)
<1> USE DEF InEra
<1>1. y \div 4 = 100 * era + yoe \div 4
  OBVIOUS
<1>2. y \div 100 = 4 * era + yoe \div 100
  OBVIOUS
<1>3. y \div 400 = era
  OBVIOUS
<1>4. yoe \div 4 \in Int /\ yoe \div 100 \in Int
  OBVIOUS
<1> QED
  BY <1>1, <1>2, <1>3, <1>4 DEF LeapsUpTo, LeapsWithin

(* A leap year has one leap day.                                           *)
LEMMA LeapStep ==
    ASSUME NEW y \in Int
    PROVE  LeapsUpTo(y) = LeapsUpTo(y - 1) + IF IsLeap(y) THEN 1 ELSE 0
<1>1. y \div 4 = (y - 1) \div 4 + IF y % 4 = 0 THEN 1 ELSE 0
  OBVIOUS
<1>2. y \div 100 = (y - 1) \div 100 + IF y % 100 = 0 THEN 1 ELSE 0
  OBVIOUS
<1>3. y \div 400 = (y - 1) \div 400 + IF y % 400 = 0 THEN 1 ELSE 0
  OBVIOUS
<1>4. (y % 100 = 0 => y % 4 = 0) /\ (y % 400 = 0 => y % 100 = 0)
  OBVIOUS
<1> QED
  BY <1>1, <1>2, <1>3, <1>4 DEF LeapsUpTo, IsLeap

(* civil_days of a date is the number of days the calendar counts to the   *)
(* first of its month, and its day on from there.                          *)
LEMMA CivilDaysCountTheCalendar ==
    ASSUME NEW y \in Int, NEW m \in 1..12, NEW d \in Int
    PROVE  CivilDays(y, m, d) = DayNumber(y, m, 1) + d - 1
<1> DEFINE Y   == IF m <= 2 THEN y - 1 ELSE y
           era == Y \div 400
           yoe == Y - era * 400
           March == (153 * (IF m > 2 THEN m - 3 ELSE m + 9) + 2) \div 5
           before == <<0, 31, 59, 90, 120, 151, 181, 212, 243, 273, 304, 334>>
           leap == IF m > 2 /\ IsLeap(y) THEN 1 ELSE 0
<1>1. Y \in Int
  OBVIOUS
<1>2. Quotient(IF Y >= 0 THEN Y ELSE Y - 399, 400) = era
  <2> HIDE DEF Y
  <2> QED
    BY <1>1, EraIsFloored
<1>3. CivilDays(y, m, d) =
          era * 146097 + DaysOfEra(yoe, March + d - 1) - 719468
  BY <1>2 DEF CivilDays
<1>4. era \in Int /\ yoe \in 0..399 /\ Y = 400 * era + yoe
  BY <1>1
<1>5. LeapsUpTo(Y) = LeapsWithin(era, yoe)
  <2> HIDE DEF Y, era, yoe
  <2>1. InEra(Y, era, yoe)
    BY <1>4 DEF InEra
  <2> QED
    BY <1>1, <2>1, LeapsOfEra
<1>6. March \in Int
  OBVIOUS
<1>7. CivilDays(y, m, d) = 365 * Y + LeapsUpTo(Y) + March + d - 1 - 719468
  <2> HIDE DEF Y, era, yoe, March
  <2> DEFINE q == yoe \div 4
             c == yoe \div 100
  <2>1. q \in Int /\ c \in Int
    BY <1>4
  <2>2. DaysOfEra(yoe, March + d - 1) = yoe * 365 + q - c + (March + d - 1)
    BY DEF DaysOfEra
  <2> HIDE DEF q, c
  <2>3. LeapsUpTo(Y) = 97 * era + q - c
    BY <1>5 DEF q, c, LeapsWithin
  <2> QED
    BY <1>3, <1>4, <1>6, <2>1, <2>2, <2>3
<1>8. LeapsUpTo(1969) = 477
  BY DEF LeapsUpTo
<1>9. LeapsUpTo(y) \in Int /\ LeapsUpTo(y - 1) \in Int
  BY DEF LeapsUpTo
<1>10. DayNumber(y, m, 1) =
          365 * (y - 1970) + LeapsUpTo(y - 1) - 477 + before[m] + leap
  <2>1. DayNumber(y, m, 1) =
            365 * (y - 1970) + LeapsUpTo(y - 1) - LeapsUpTo(1969)
                + before[m] + leap + 1 - 1
    BY DEF DayNumber
  <2>2. before[m] \in Int /\ leap \in Int
    OBVIOUS
  <2> HIDE DEF before, leap
  <2> QED
    BY <1>8, <1>9, <2>1, <2>2
<1>11. CASE m > 2
  <2>1. Y = y
    BY <1>11
  <2>2. LeapsUpTo(y - 1) + leap = LeapsUpTo(y)
    BY <1>9, <1>11, LeapStep
  <2>3. March = before[m] - 59
    BY <1>11
  <2>4. before[m] \in Int /\ leap \in Int
    OBVIOUS
  <2> HIDE DEF Y, March, before, leap
  <2> QED
    BY <1>6, <1>7, <1>9, <1>10, <2>1, <2>2, <2>3, <2>4
<1>12. CASE m <= 2
  <2>1. Y = y - 1 /\ leap = 0
    BY <1>12
  <2>2. March = before[m] + 306
    BY <1>12
  <2>3. before[m] \in Int
    OBVIOUS
  <2> HIDE DEF Y, March, before, leap
  <2> QED
    BY <1>6, <1>7, <1>9, <1>10, <2>1, <2>2, <2>3
<1> QED
  BY <1>11, <1>12

-----------------------------------------------------------------------------
(* Every day is in a year, and every day of a year in a month              *)

FirstDay(y) == DayNumber(y, 1, 1)

(* A year is as long as it is.                                             *)
LEMMA YearLength ==
    ASSUME NEW y \in Int
    PROVE  /\ FirstDay(y) \in Int
           /\ FirstDay(y) = 365 * (y - 1970) + LeapsUpTo(y - 1) - 477
           /\ FirstDay(y + 1) = FirstDay(y) + 365 + IF IsLeap(y) THEN 1 ELSE 0
<1>1. LeapsUpTo(1969) = 477
  BY DEF LeapsUpTo
<1>2. \A x \in Int : LeapsUpTo(x) \in Int
  BY DEF LeapsUpTo
<1>3. ASSUME NEW x \in Int
      PROVE  FirstDay(x) = 365 * (x - 1970) + LeapsUpTo(x - 1) - 477
  <2>1. FirstDay(x) = 365 * (x - 1970) + LeapsUpTo(x - 1) - LeapsUpTo(1969)
                          + 0 + 0 + 1 - 1
    BY DEF FirstDay, DayNumber
  <2> QED
    BY <1>1, <1>2, <2>1
<1>4. LeapsUpTo(y + 1 - 1) = LeapsUpTo(y) /\ LeapsUpTo(y - 1) \in Int
  BY <1>2
<1>5. LeapsUpTo(y) = LeapsUpTo(y - 1) + IF IsLeap(y) THEN 1 ELSE 0
  BY LeapStep
<1>6. FirstDay(y) = 365 * (y - 1970) + LeapsUpTo(y - 1) - 477
  BY <1>3
<1>7. FirstDay(y + 1) = 365 * (y + 1 - 1970) + LeapsUpTo(y + 1 - 1) - 477
  BY <1>3
<1> QED
  BY <1>4, <1>5, <1>6, <1>7

(* Leap days only add to the distance from 1970.                           *)
LEMMA YearsAreLong ==
    ASSUME NEW k \in Nat
    PROVE  FirstDay(1970 + k) >= 365 * k /\ FirstDay(1970 - k) <= -365 * k
<1>1. \A x \in Int : LeapsUpTo(x) \in Int
  BY DEF LeapsUpTo
<1>2. ASSUME NEW y \in Int
      PROVE  /\ y >= 1969 => LeapsUpTo(y) >= 477
             /\ y <= 1969 => LeapsUpTo(y) <= 477
  <2> DEFINE e == y \div 400
             r == y % 400
  <2>1. e \in Int /\ r \in 0..399 /\ y = 400 * e + r
    OBVIOUS
  <2> HIDE DEF e, r
  <2>2. LeapsUpTo(y) = 97 * e + r \div 4 - r \div 100
    <3>1. InEra(y, e, r)
      BY <2>1 DEF InEra
    <3>2. LeapsUpTo(y) = LeapsWithin(e, r)
      BY <3>1, LeapsOfEra
    <3> QED
      BY <3>2 DEF LeapsWithin
  <2> DEFINE within == r \div 4 - r \div 100
  <2>3. within \in 0..96 /\ (r >= 369 => within >= 89)
        /\ (r <= 369 => within <= 89)
    BY <2>1
  <2>4. LeapsUpTo(y) = 97 * e + within
    BY <2>1, <2>2
  <2> HIDE DEF within
  <2> QED
    BY <2>1, <2>3, <2>4
<1>3. FirstDay(1970 + k) = 365 * (1970 + k - 1970) + LeapsUpTo(1970 + k - 1) - 477
      /\ LeapsUpTo(1970 + k - 1) \in Int /\ LeapsUpTo(1970 + k - 1) >= 477
  BY <1>1, <1>2, YearLength
<1>4. FirstDay(1970 - k) = 365 * (1970 - k - 1970) + LeapsUpTo(1970 - k - 1) - 477
      /\ LeapsUpTo(1970 - k - 1) \in Int /\ LeapsUpTo(1970 - k - 1) <= 477
  BY <1>1, <1>2, YearLength
<1> QED
  BY <1>3, <1>4

LEMMA HasFirst ==
    ASSUME NEW S \in SUBSET Nat, S # {}
    PROVE  \E i \in S : \A j \in S : i <= j
<1> DEFINE Less == {p \in Nat \X Nat : p[1] < p[2]}
<1>1. Less = OpToRel(<, Nat)
  BY DEF OpToRel
<1>2. IsWellFoundedOn(Less, Nat)
  BY <1>1, NatLessThanWellFounded, Zenon
<1>3. PICK i \in S : \A j \in S : ~(<<j, i>> \in Less)
  <2> HIDE DEF Less
  <2> QED
    BY <1>2, WFMin
<1>4. ASSUME NEW j \in S
      PROVE  i <= j
  <2>1. <<j, i>> \in Nat \X Nat /\ <<j, i>>[1] = j /\ <<j, i>>[2] = i
    OBVIOUS
  <2>2. ~(j < i)
    BY <1>3, <2>1
  <2> QED
    BY <2>2
<1> QED
  BY <1>4

(* A day lies between the first days of its year and the next.             *)
LEMMA YearOfDay ==
    ASSUME NEW k \in Nat, NEW day \in Int, -365 * k <= day,
           day < 365 * (k + 1)
    PROVE  \E y \in (1970 - k)..(1970 + k) :
               FirstDay(y) <= day /\ day < FirstDay(y + 1)
<1> DEFINE Later == {n \in Nat : day < FirstDay(1970 - k + n)}
<1>1. 2 * k + 1 \in Later
  <2>1. FirstDay(1970 + (k + 1)) >= 365 * (k + 1)
        /\ FirstDay(1970 + (k + 1)) \in Int
    <3>1. PICK j \in Nat : j = k + 1
      OBVIOUS
    <3>2. FirstDay(1970 + j) >= 365 * j
      BY YearsAreLong
    <3>3. 1970 + j \in Int
      OBVIOUS
    <3>4. FirstDay(1970 + j) \in Int
      BY <3>3, YearLength
    <3> HIDE DEF Later
    <3> QED
      BY <3>1, <3>2, <3>4
  <2>2. 1970 - k + (2 * k + 1) = 1970 + (k + 1)
    OBVIOUS
  <2> QED
    BY <2>1, <2>2
<1>2. 0 \notin Later
  <2>1. FirstDay(1970 - k) <= -365 * k /\ FirstDay(1970 - k) \in Int
    <3>1. FirstDay(1970 - k) <= -365 * k
      BY YearsAreLong
    <3>2. 1970 - k \in Int
      OBVIOUS
    <3>3. FirstDay(1970 - k) \in Int
      BY <3>2, YearLength
    <3> QED
      BY <3>1, <3>3
  <2>2. 1970 - k + 0 = 1970 - k
    OBVIOUS
  <2> QED
    BY <2>1, <2>2
<1>3. PICK n \in Later : \A j \in Later : n <= j
  <2>1. Later \in SUBSET Nat
    OBVIOUS
  <2>2. Later # {}
    <3> HIDE DEF Later
    <3> QED
      BY <1>1
  <2> HIDE DEF Later
  <2> QED
    BY <2>1, <2>2, HasFirst
<1>4. n \in 1..(2 * k + 1) /\ n - 1 \notin Later
  <2>1. n \in Nat /\ n # 0
    BY <1>2
  <2>2. n <= 2 * k + 1
    <3> HIDE DEF Later
    <3> QED
      BY <1>1, <1>3
  <2>3. ASSUME n - 1 \in Later
        PROVE  FALSE
    <3>1. n <= n - 1
      <4> HIDE DEF Later
      <4> QED
        BY <1>3, <2>3
    <3> QED
      BY <2>1, <3>1
  <2> QED
    BY <2>1, <2>2, <2>3
<1> DEFINE y == 1970 - k + (n - 1)
<1>5. y \in (1970 - k)..(1970 + k) /\ y + 1 = 1970 - k + n
  BY <1>4
<1>6. FirstDay(y) \in Int /\ FirstDay(y + 1) \in Int
  BY <1>5, YearLength
<1>7. FirstDay(y) <= day
  BY <1>4, <1>6
<1>8. day < FirstDay(y + 1)
  BY <1>5
<1> QED
  BY <1>5, <1>7, <1>8

(* The days of a year before its months.                                   *)
DaysBefore(y, m) ==
    LET before == <<0, 31, 59, 90, 120, 151, 181, 212, 243, 273, 304, 334>>
    IN  before[m] + IF m > 2 /\ IsLeap(y) THEN 1 ELSE 0

LEMMA DayInMonth ==
    ASSUME NEW y \in Int, NEW m \in 1..12, NEW d \in Int
    PROVE  /\ DaysBefore(y, m) \in Nat
           /\ DayNumber(y, m, d) = FirstDay(y) + DaysBefore(y, m) + d - 1
<1> DEFINE before == <<0, 31, 59, 90, 120, 151, 181, 212, 243, 273, 304, 334>>
           leap == IF m > 2 /\ IsLeap(y) THEN 1 ELSE 0
           year == 365 * (y - 1970) + LeapsUpTo(y - 1) - LeapsUpTo(1969)
<1>1. before[m] \in Nat /\ before[1] = 0 /\ leap \in {0, 1}
  OBVIOUS
<1>2. year \in Int
  BY DEF LeapsUpTo
<1>3. DaysBefore(y, m) = before[m] + leap
  BY DEF DaysBefore
<1>4. DayNumber(y, m, d) = year + before[m] + leap + d - 1
  BY DEF DayNumber
<1>5. FirstDay(y) = year + before[1] + 0 + 1 - 1
  BY DEF FirstDay, DayNumber
<1> HIDE DEF before, leap, year
<1> QED
  BY <1>1, <1>2, <1>3, <1>4, <1>5

LEMMA MonthOfDay ==
    ASSUME NEW y \in Int, NEW n \in Nat,
           n < 365 + IF IsLeap(y) THEN 1 ELSE 0
    PROVE  \E m \in 1..12 : /\ DaysBefore(y, m) <= n
                            /\ n < DaysBefore(y, m) + DaysIn(y, m)
<1> DEFINE leap == IF IsLeap(y) THEN 1 ELSE 0
<1>1. leap \in {0, 1}
  OBVIOUS
<1>2.
      /\ DaysBefore(y, 1) = 0
      /\ DaysBefore(y, 2) = 31
      /\ DaysBefore(y, 3) = 59 + leap
      /\ DaysBefore(y, 4) = 90 + leap
      /\ DaysBefore(y, 5) = 120 + leap
      /\ DaysBefore(y, 6) = 151 + leap
      /\ DaysBefore(y, 7) = 181 + leap
      /\ DaysBefore(y, 8) = 212 + leap
      /\ DaysBefore(y, 9) = 243 + leap
      /\ DaysBefore(y, 10) = 273 + leap
      /\ DaysBefore(y, 11) = 304 + leap
      /\ DaysBefore(y, 12) = 334 + leap
  BY DEF DaysBefore
<1>3.
      /\ DaysIn(y, 1) = 31
      /\ DaysIn(y, 2) = 28 + leap
      /\ DaysIn(y, 3) = 31
      /\ DaysIn(y, 4) = 30
      /\ DaysIn(y, 5) = 31
      /\ DaysIn(y, 6) = 30
      /\ DaysIn(y, 7) = 31
      /\ DaysIn(y, 8) = 31
      /\ DaysIn(y, 9) = 30
      /\ DaysIn(y, 10) = 31
      /\ DaysIn(y, 11) = 30
      /\ DaysIn(y, 12) = 31
  BY DEF DaysIn
<1>4. n < 365 + leap
  OBVIOUS
<1> HIDE DEF leap
<1>5. CASE 0 <= n /\ n < 31
  BY <1>1, <1>2, <1>3, <1>4, <1>5, 1 \in 1..12
<1>6. CASE 31 <= n /\ n < 59 + leap
  BY <1>1, <1>2, <1>3, <1>4, <1>6, 2 \in 1..12
<1>7. CASE 59 + leap <= n /\ n < 90 + leap
  BY <1>1, <1>2, <1>3, <1>4, <1>7, 3 \in 1..12
<1>8. CASE 90 + leap <= n /\ n < 120 + leap
  BY <1>1, <1>2, <1>3, <1>4, <1>8, 4 \in 1..12
<1>9. CASE 120 + leap <= n /\ n < 151 + leap
  BY <1>1, <1>2, <1>3, <1>4, <1>9, 5 \in 1..12
<1>10. CASE 151 + leap <= n /\ n < 181 + leap
  BY <1>1, <1>2, <1>3, <1>4, <1>10, 6 \in 1..12
<1>11. CASE 181 + leap <= n /\ n < 212 + leap
  BY <1>1, <1>2, <1>3, <1>4, <1>11, 7 \in 1..12
<1>12. CASE 212 + leap <= n /\ n < 243 + leap
  BY <1>1, <1>2, <1>3, <1>4, <1>12, 8 \in 1..12
<1>13. CASE 243 + leap <= n /\ n < 273 + leap
  BY <1>1, <1>2, <1>3, <1>4, <1>13, 9 \in 1..12
<1>14. CASE 273 + leap <= n /\ n < 304 + leap
  BY <1>1, <1>2, <1>3, <1>4, <1>14, 10 \in 1..12
<1>15. CASE 304 + leap <= n /\ n < 334 + leap
  BY <1>1, <1>2, <1>3, <1>4, <1>15, 11 \in 1..12
<1>16. CASE 334 + leap <= n /\ n < 365 + leap
  BY <1>1, <1>2, <1>3, <1>4, <1>16, 12 \in 1..12
<1> QED
  BY <1>1, <1>4, <1>5, <1>6, <1>7, <1>8, <1>9, <1>10,
     <1>11, <1>12, <1>13, <1>14, <1>15, <1>16

(* gmtime finds the date of every day that days within the bound and hours *)
(* of a clock add up to.                                                   *)
LEMMA GmtimeIsADate ==
    ASSUME NEW day \in (-(MaxDays + 7))..(MaxDays + 7)
    PROVE  /\ Gmtime(day)[1] \in Int
           /\ Gmtime(day)[2] \in 1..12
           /\ Gmtime(day)[3] \in 1..31
           /\ DayNumber(Gmtime(day)[1], Gmtime(day)[2], Gmtime(day)[3]) = day
<1> DEFINE k == (MaxDays + 371) \div 365
           Dates == Years \X (1..12) \X (1..31)
           Found(date) == /\ date[3] <= DaysIn(date[1], date[2])
                          /\ DayNumber(date[1], date[2], date[3]) = day
<1>1. /\ MaxDays \in Nat /\ day \in Int
      /\ (1970 - k)..(1970 + k) \subseteq Years /\ Years \subseteq Int
  BY TimeAssumption DEF YearsNear
<1>2. k \in Nat /\ -365 * k <= day /\ day < 365 * (k + 1)
  BY <1>1
<1> HIDE DEF k
<1>3. PICK y \in Int : /\ y \in Years
                      /\ FirstDay(y) <= day /\ day < FirstDay(y + 1)
  <2>1. PICK y \in (1970 - k)..(1970 + k) :
            FirstDay(y) <= day /\ day < FirstDay(y + 1)
    BY <1>1, <1>2, YearOfDay
  <2>2. y \in Years /\ y \in Int
    BY <1>1, <2>1
  <2> QED
    BY <2>1, <2>2
<1>4. /\ y \in Years /\ y \in Int /\ FirstDay(y) \in Int
      /\ FirstDay(y + 1) = FirstDay(y) + 365 + IF IsLeap(y) THEN 1 ELSE 0
  BY <1>1, <1>3, YearLength
<1>5. PICK n \in Nat : n = day - FirstDay(y)
  BY <1>1, <1>3, <1>4
<1>6. n < 365 + IF IsLeap(y) THEN 1 ELSE 0
  BY <1>1, <1>3, <1>4, <1>5
<1>7. PICK m \in 1..12 : /\ DaysBefore(y, m) <= n
                         /\ n < DaysBefore(y, m) + DaysIn(y, m)
  BY <1>4, <1>6, MonthOfDay
<1>8. \A e \in Int : /\ DaysBefore(y, m) \in Nat
                     /\ DayNumber(y, m, e) = FirstDay(y) + DaysBefore(y, m) + e - 1
  <2> SUFFICES ASSUME NEW e \in Int
               PROVE  /\ DaysBefore(y, m) \in Nat
                      /\ DayNumber(y, m, e) =
                             FirstDay(y) + DaysBefore(y, m) + e - 1
    OBVIOUS
  <2>1. y \in Int /\ m \in 1..12
    BY <1>4, <1>7
  <2> QED
    BY <2>1, DayInMonth
<1> DEFINE d == n - DaysBefore(y, m) + 1
<1>9. d \in 1..31 /\ d <= DaysIn(y, m)
  <2>1. DaysIn(y, m) \in 28..31
    BY DEF DaysIn
  <2>2. DaysBefore(y, m) \in Nat
    BY <1>8
  <2> QED
    BY <1>7, <2>1, <2>2
<1> d \in Int
  BY <1>9
<1>10. DayNumber(y, m, d) = day
  <2>1. /\ DaysBefore(y, m) \in Nat
        /\ DayNumber(y, m, d) = FirstDay(y) + DaysBefore(y, m) + d - 1
    <3> HIDE DEF d, Dates, Found
    <3> QED
      BY <1>8
  <2> QED
    BY <1>1, <1>4, <1>5, <2>1
<1>11. \E date \in Dates : Found(date)
  <2>1. <<y, m, d>> \in Dates
    BY <1>4, <1>9
  <2>2. Found(<<y, m, d>>)
    BY <1>9, <1>10
  <2> HIDE DEF Dates, Found
  <2> QED
    BY <2>1, <2>2
<1>12. Gmtime(day) = CHOOSE date \in Dates : Found(date)
  BY DEF Gmtime
<1>13. Gmtime(day) \in Dates /\ Found(Gmtime(day))
  <2> HIDE DEF Dates, Found
  <2> QED
    BY <1>11, <1>12
<1> DEFINE date == Gmtime(day)
<1>14. date[1] \in Years /\ date[2] \in 1..12 /\ date[3] \in 1..31
  <2>1. date \in Years \X (1..12) \X (1..31)
    BY <1>13
  <2> HIDE DEF date
  <2> QED
    BY <2>1
<1>15. DayNumber(date[1], date[2], date[3]) = day
  BY <1>13
<1> HIDE DEF date, Dates, Found
<1>16. date[1] \in Int
  <2>1. Years \subseteq Int
    BY <1>1
  <2>2. date[1] \in Years
    BY <1>14
  <2> QED
    BY <2>1, <2>2
<1> QED
  BY <1>14, <1>15, <1>16 DEF date

(* civil_days of a date with a day of its month is its number.             *)
LEMMA CivilDaysOfDate ==
    ASSUME NEW y \in Int, NEW m \in 1..12, NEW d \in Int
    PROVE  CivilDays(y, m, d) = DayNumber(y, m, d)
<1>1. /\ DaysBefore(y, m) \in Nat /\ FirstDay(y) \in Int
      /\ DayNumber(y, m, 1) = FirstDay(y) + DaysBefore(y, m) + 1 - 1
      /\ DayNumber(y, m, d) = FirstDay(y) + DaysBefore(y, m) + d - 1
  <2>1. DayNumber(y, m, 1) = FirstDay(y) + DaysBefore(y, m) + 1 - 1
    BY 1 \in Int, DayInMonth
  <2>2. /\ DaysBefore(y, m) \in Nat
        /\ DayNumber(y, m, d) = FirstDay(y) + DaysBefore(y, m) + d - 1
    BY DayInMonth
  <2>3. FirstDay(y) \in Int
    BY YearLength
  <2> QED
    BY <2>1, <2>2, <2>3
<1>2. CivilDays(y, m, d) = DayNumber(y, m, 1) + d - 1
  BY CivilDaysCountTheCalendar
<1> QED
  BY <1>1, <1>2

-----------------------------------------------------------------------------
(* An instant is written and read                                          *)

(* A negative time has the thousandths that are missing to the next second.*)
LEMMA SplitIs ==
    ASSUME NEW ms \in Int
    PROVE  Split(ms).sec = ms \div 1000 /\ Split(ms).frac_ms = ms % 1000
<1>1. CASE ms >= 0
  BY <1>1 DEF Split, Quotient, Remainder
<1>2. CASE ms < 0
  <2> DEFINE q == (-ms) \div 1000
             r == (-ms) % 1000
  <2>1. Quotient(ms, 1000) = -q /\ Remainder(ms, 1000) = -r
    BY <1>2 DEF Quotient, Remainder
  <2>2. q \in Nat /\ r \in 0..999 /\ ms = -(1000 * q + r)
    BY <1>2
  <2> HIDE DEF q, r
  <2>3. CASE r = 0
    <3>1. Split(ms).sec = -q /\ Split(ms).frac_ms = 0
      BY <2>1, <2>3 DEF Split
    <3> QED
      BY <2>2, <2>3, <3>1
  <2>4. CASE r > 0
    <3>1. Split(ms).sec = -q - 1 /\ Split(ms).frac_ms = -r + 1000
      BY <2>1, <2>2, <2>4 DEF Split
    <3> QED
      BY <2>2, <2>4, <3>1
  <2> QED
    BY <2>2, <2>3, <2>4
<1> QED
  BY <1>1, <1>2

(* The thousandths, left out when there are none, are read again.          *)
LEMMA FractionIsRead ==
    ASSUME NEW n, n \in 0..999, NEW chars,
           n > 0 => chars = ThreeDigits(n), n = 0 => chars = <<>>
    PROVE  Thousandths(chars) = n
<1>1. CASE n > 0
  BY <1>1, ThreeDigitsAreRead DEF ReadAs
<1>2. CASE n = 0
  BY <1>2 DEF Thousandths, Char
<1> QED
  BY <1>1, <1>2

(* A time of day, in the hours, minutes and seconds that are printed.      *)
LEMMA FieldsOfSecond ==
    ASSUME NEW s \in Nat, s < 86400
    PROVE  /\ s \div 3600 \in Int /\ (s % 3600) \div 60 \in Int /\ s % 60 \in Int
           /\ (s \div 3600) * 3600 + ((s % 3600) \div 60) * 60 + (s % 60) = s
<1> DEFINE h == s \div 3600
           r == s % 3600
<1>1. h \in Nat /\ r \in Nat /\ r < 3600 /\ s = h * 3600 + r
  OBVIOUS
<1> HIDE DEF h, r
<1>2. s % 60 = r % 60
  BY <1>1
<1>3. r \div 60 \in Int /\ r % 60 \in Int /\ (r \div 60) * 60 + (r % 60) = r
  BY <1>1
<1> QED
  BY <1>1, <1>2, <1>3 DEF h, r

(* Whole parts and rests, of milliseconds and of seconds.                  *)
LEMMA DaysOf ==
    ASSUME NEW sec \in Int
    PROVE  /\ sec \div 86400 \in Int /\ sec % 86400 \in Nat
           /\ sec % 86400 < 86400
           /\ sec = (sec \div 86400) * 86400 + (sec % 86400)
OBVIOUS

LEMMA WholeThousands ==
    ASSUME NEW u \in Int, NEW f \in 0..999
    PROVE  (u * 1000 + f) \div 1000 = u
OBVIOUS

LEMMA WholeDays ==
    ASSUME NEW day \in Int, NEW x \in Int, -86400 <= x, x < 432000
    PROVE  (day * 86400 + x) \div 86400 \in (day - 1)..(day + 4)
<1> DEFINE q == x \div 86400
           r == x % 86400
<1>1. q \in (-1)..4 /\ r \in Nat /\ r < 86400 /\ x = q * 86400 + r
  OBVIOUS
<1> HIDE DEF q, r
<1> DEFINE a == day + q
<1>2. a \in (day - 1)..(day + 4) /\ a \in Int /\ day * 86400 + x = a * 86400 + r
  BY <1>1
<1> HIDE DEF a
<1>3. (a * 86400 + r) \div 86400 = a
  BY <1>1, <1>2
<1> QED
  BY <1>2, <1>3

(* The instant of a string, from what its fields come to.                  *)
LEMMA InstantIs ==
    ASSUME NEW t, NEW h \in Int, NEW m \in Int, NEW s \in Int,
           t.hour = h, t.minute = m, t.second = s,
           NEW day \in Int, CivilDays(t.year, t.month, t.day) = day,
           NEW o \in Int, Offset(t.zone) = o,
           NEW f \in Int, Thousandths(t.fraction) = f
    PROVE  /\ ParseAbsTime(t).tz_offset_minutes = o
           /\ ParseAbsTime(t).epoch_ms =
                  (day * 86400 + (h * 3600 + m * 60 + s) - o * 60) * 1000 + f
<1>1. ParseAbsTime(t) =
          [epoch_ms |-> (day * 86400 + h * 3600 + m * 60 + s - o * 60) * 1000 + f,
           tz_offset_minutes |-> o]
  BY DEF ParseAbsTime
<1>2. day * 86400 + h * 3600 + m * 60 + s - o * 60 =
          day * 86400 + (h * 3600 + m * 60 + s) - o * 60
  OBVIOUS
<1> QED
  BY <1>1, <1>2

(* The clock of a time's own zone, in milliseconds since 1970, and its day.*)
Clock(t) == t.epoch_ms + t.tz_offset_minutes * 60 * 1000

DayOf(ms) == (ms \div 1000) \div 86400

Near(t) ==
    /\ t.epoch_ms \in Int
    /\ IsOffset(t.tz_offset_minutes)
    /\ DayOf(Clock(t)) \in (-(MaxDays + 7))..(MaxDays + 7)

(* How far two times are apart is how far their offsets are.               *)
OffByOffset(t, r) ==
    t.epoch_ms - r.epoch_ms =
        (r.tz_offset_minutes - t.tz_offset_minutes) * 60 * 1000

(* What is written of a time is read again unless its year is too long;    *)
(* its zone is read as WrittenZone has it, and the instant is off by what  *)
(* the zone is off.                                                        *)
LEMMA AbsTimeIsReread ==
    ASSUME NEW t, Near(t)
    PROVE  LET w == AbsTimeToString(t)
               o == Offset(WrittenZone(t.tz_offset_minutes))
           IN  /\ AbsTimeParses(w) <=> w.year \in FourChars
               /\ ParseAbsTime(w).tz_offset_minutes = o
               /\ OffByOffset(t, ParseAbsTime(w))
<1> DEFINE w   == AbsTimeToString(t)
           o   == Offset(WrittenZone(t.tz_offset_minutes))
           ms  == Clock(t)
           sec == ms \div 1000
           f   == ms % 1000
           day == DayOf(ms)
           s   == sec % 86400
           date == Gmtime(day)
           h   == s \div 3600
           m   == (s % 3600) \div 60
<1>1. t.epoch_ms \in Int /\ IsOffset(t.tz_offset_minutes)
      /\ t.tz_offset_minutes \in Int
      /\ day \in (-(MaxDays + 7))..(MaxDays + 7)
  BY DEF Near, IsOffset
<1>2. ms \in Int /\ ms = t.epoch_ms + t.tz_offset_minutes * 60 * 1000
  BY <1>1 DEF Clock
<1> HIDE DEF ms
<1>3. /\ Split(ms).sec = sec /\ Split(ms).frac_ms = f
      /\ sec \in Int /\ f \in 0..999 /\ ms = sec * 1000 + f
  <2>1. Split(ms).sec = sec /\ Split(ms).frac_ms = f
    BY <1>2, SplitIs
  <2>2. sec \in Int /\ f \in 0..999 /\ ms = sec * 1000 + f
    <3>1. sec = ms \div 1000 /\ f = ms % 1000
      OBVIOUS
    <3> HIDE DEF sec, f
    <3>2. ms \in Int
      BY <1>2
    <3>3. sec \in Int /\ f \in Int
      BY <3>1, <3>2
    <3>4. 0 <= f /\ f <= 999
      BY <3>1, <3>2
    <3>5. ms = sec * 1000 + f
      BY <3>1, <3>2
    <3> QED
      BY <3>3, <3>4, <3>5
  <2> QED
    BY <2>1, <2>2
<1>4. day = sec \div 86400
  BY DEF DayOf
<1> HIDE DEF day, sec, f
<1>5. day \in Int /\ s \in Nat /\ s < 86400 /\ sec = day * 86400 + s
  BY <1>3, <1>4, DaysOf
<1>6. w = [malformed |-> date[1] \notin FourChars,
           year |-> date[1], month |-> date[2], day |-> date[3],
           hour |-> h, minute |-> m, second |-> s % 60,
           fraction |-> IF f > 0 THEN ThreeDigits(f) ELSE <<>>,
           zone |-> WrittenZone(t.tz_offset_minutes)]
  <2>1. Split(t.epoch_ms + t.tz_offset_minutes * 60 * 1000).sec = sec
        /\ Split(t.epoch_ms + t.tz_offset_minutes * 60 * 1000).frac_ms = f
    BY <1>2, <1>3
  <2> QED
    BY <1>4, <2>1 DEF AbsTimeToString
<1>7. h \in Int /\ m \in Int /\ s % 60 \in Int /\ h * 3600 + m * 60 + (s % 60) = s
  <2> HIDE DEF s
  <2> QED
    BY <1>5, FieldsOfSecond
<1> HIDE DEF s, h, m
<1>8. /\ date[1] \in Int /\ date[2] \in 1..12 /\ date[3] \in 1..31
      /\ DayNumber(date[1], date[2], date[3]) = day
  BY <1>1, GmtimeIsADate
<1> HIDE DEF date
<1>9. CivilDays(date[1], date[2], date[3]) = day
  <2>1. date[3] \in Int
    BY <1>8
  <2> QED
    BY <1>8, <2>1, CivilDaysOfDate
<1>10. /\ w.malformed = (date[1] \notin FourChars) /\ w.year = date[1]
       /\ w.month = date[2] /\ w.day = date[3]
       /\ w.hour = h /\ w.minute = m /\ w.second = s % 60
       /\ w.fraction = IF f > 0 THEN ThreeDigits(f) ELSE <<>>
       /\ w.zone = WrittenZone(t.tz_offset_minutes)
  BY <1>6
<1> HIDE DEF w
<1>11. AbsTimeParses(w) <=> w.year \in FourChars
  <2>1. Len(w.fraction) <= 9
    BY <1>10 DEF ThreeDigits
  <2> QED
    BY <1>10, <2>1 DEF AbsTimeParses
<1>12. Thousandths(w.fraction) = f
  <2>1. f \in 0..999
    BY <1>3
  <2> DEFINE chars == w.fraction
  <2>2. (f > 0 => chars = ThreeDigits(f)) /\ (f = 0 => chars = <<>>)
    BY <1>10, <2>1
  <2> HIDE DEF chars
  <2>3. Thousandths(chars) = f
    BY <2>1, <2>2, FractionIsRead
  <2> QED
    BY <2>3 DEF chars
<1>13. o \in Int /\ Offset(w.zone) = o
  BY <1>1, <1>10, OffsetIsReread
<1> HIDE DEF o
<1>14. CivilDays(w.year, w.month, w.day) = day
  BY <1>9, <1>10
<1>15. /\ ParseAbsTime(w).tz_offset_minutes = o
       /\ ParseAbsTime(w).epoch_ms =
              (day * 86400 + (h * 3600 + m * 60 + (s % 60)) - o * 60) * 1000 + f
  <2> DEFINE second == s % 60
  <2>1. f \in Int /\ day \in Int /\ h \in Int /\ m \in Int /\ second \in Int
    BY <1>3, <1>5, <1>7
  <2>2. w.hour = h /\ w.minute = m /\ w.second = second
    BY <1>10
  <2> HIDE DEF second
  <2>3. /\ ParseAbsTime(w).tz_offset_minutes = o
        /\ ParseAbsTime(w).epoch_ms =
               (day * 86400 + (h * 3600 + m * 60 + second) - o * 60) * 1000 + f
    BY <1>12, <1>13, <1>14, <2>1, <2>2, InstantIs
  <2> QED
    BY <2>3 DEF second
<1>16. ParseAbsTime(w).epoch_ms = (sec - o * 60) * 1000 + f
  <2> DEFINE c == h * 3600 + m * 60 + (s % 60)
  <2>1. sec = day * 86400 + c
    BY <1>5, <1>7
  <2>2. day \in Int /\ c \in Int /\ o \in Int
    BY <1>5, <1>7, <1>13
  <2>3. ParseAbsTime(w).epoch_ms = (day * 86400 + c - o * 60) * 1000 + f
    BY <1>15
  <2> HIDE DEF c
  <2>4. day * 86400 + c - o * 60 = sec - o * 60
    BY <2>1, <2>2
  <2> QED
    BY <2>3, <2>4
<1>17. OffByOffset(t, ParseAbsTime(w))
  <2>1. t.epoch_ms - ParseAbsTime(w).epoch_ms =
            (o - t.tz_offset_minutes) * 60 * 1000
    BY <1>1, <1>2, <1>3, <1>13, <1>16
  <2> QED
    BY <1>15, <2>1 DEF OffByOffset
<1> QED
  BY <1>11, <1>15, <1>17 DEF w, o

(* Two characters of hours, minutes and seconds are less than five days.   *)
LEMMA ClockIsShort ==
    ASSUME NEW h \in TwoChars, NEW m \in TwoChars, NEW s \in TwoChars
    PROVE  /\ h \in Int /\ m \in Int /\ s \in Int
           /\ h * 3600 + m * 60 + s \in Int
           /\ -86400 <= h * 3600 + m * 60 + s
           /\ h * 3600 + m * 60 + s < 432000
<1>1. /\ h \in Int /\ -9 <= h /\ h <= 99
      /\ m \in Int /\ -9 <= m /\ m <= 99
      /\ s \in Int /\ -9 <= s /\ s <= 99
  BY DEF TwoChars
<1> QED
  BY <1>1

(* A TIME with a date within the bound is a time near 1970.                *)
LEMMA ParsedIsNear ==
    ASSUME NEW t \in AbsTexts,
           CivilDays(t.year, t.month, t.day) \in (-MaxDays)..MaxDays
    PROVE  Near(ParseAbsTime(t))
<1> DEFINE o == Offset(t.zone)
           day == CivilDays(t.year, t.month, t.day)
           x == t.hour * 3600 + t.minute * 60 + t.second
           f == Thousandths(t.fraction)
           time0 == ParseAbsTime(t)
           u == day * 86400 + x
<1>1. /\ t \in AbsText /\ MaxDays \in Nat
  BY TimeAssumption
<1>2. /\ t.zone \in Zone /\ t.fraction \in Seq(Digits)
      /\ t.hour \in TwoChars /\ t.minute \in TwoChars /\ t.second \in TwoChars
  BY <1>1 DEF AbsText
<1>3. IsOffset(o) /\ o \in Int
  BY <1>2, OffsetInRange DEF IsOffset
<1>4. f \in 0..999
  <2>1. ASSUME NEW i \in {1, 2, 3} PROVE Char(t.fraction, i) \in 0..9
    BY <1>2 DEF Char, Digits
  <2> DEFINE a == Char(t.fraction, 1)
             b == Char(t.fraction, 2)
             c == Char(t.fraction, 3)
  <2>2. a \in 0..9 /\ b \in 0..9 /\ c \in 0..9
    BY <2>1
  <2>3. f = 100 * a + 10 * b + c
    BY DEF Thousandths
  <2> HIDE DEF a, b, c, f
  <2> QED
    BY <2>2, <2>3
<1>5. /\ t.hour \in Int /\ t.minute \in Int /\ t.second \in Int
      /\ x \in Int /\ -86400 <= x /\ x < 432000
  <2> DEFINE h == t.hour
             m == t.minute
             s == t.second
  <2>1. h \in TwoChars /\ m \in TwoChars /\ s \in TwoChars
    BY <1>2
  <2>2. x = h * 3600 + m * 60 + s
    OBVIOUS
  <2> HIDE DEF h, m, s, x
  <2>3. /\ h \in Int /\ m \in Int /\ s \in Int
        /\ h * 3600 + m * 60 + s \in Int
        /\ -86400 <= h * 3600 + m * 60 + s
        /\ h * 3600 + m * 60 + s < 432000
    BY <2>1, ClockIsShort
  <2> QED
    BY <2>2, <2>3 DEF h, m, s
<1>6. day \in Int /\ -MaxDays <= day /\ day <= MaxDays
  BY <1>1
<1>7. /\ time0.tz_offset_minutes = o
      /\ time0.epoch_ms = (day * 86400 + x - o * 60) * 1000 + f
  <2>1. f \in Int /\ o \in Int /\ day \in Int
    BY <1>3, <1>4, <1>6
  <2>2. /\ CivilDays(t.year, t.month, t.day) = day /\ Offset(t.zone) = o
        /\ Thousandths(t.fraction) = f
    OBVIOUS
  <2>3. x = t.hour * 3600 + t.minute * 60 + t.second
    OBVIOUS
  <2>4. time0 = ParseAbsTime(t)
    OBVIOUS
  <2> HIDE DEF o, day, f, time0, x
  <2> DEFINE h == t.hour
             m == t.minute
             s == t.second
  <2>5. /\ h \in Int /\ m \in Int /\ s \in Int
        /\ t.hour = h /\ t.minute = m /\ t.second = s
    BY <1>5
  <2>6. x = h * 3600 + m * 60 + s
    BY <2>3
  <2> HIDE DEF h, m, s
  <2>7. /\ ParseAbsTime(t).tz_offset_minutes = o
        /\ ParseAbsTime(t).epoch_ms =
               (day * 86400 + (h * 3600 + m * 60 + s) - o * 60) * 1000 + f
    BY <2>1, <2>2, <2>5, InstantIs
  <2> QED
    BY <2>4, <2>6, <2>7
<1> HIDE DEF o, day, x, f, time0
<1>8. u \in Int /\ day * 86400 + x - o * 60 = u - o * 60
  BY <1>3, <1>5, <1>6
<1>9. time0.epoch_ms \in Int /\ Clock(time0) = u * 1000 + f
  <2> HIDE DEF u
  <2> QED
    BY <1>3, <1>4, <1>7, <1>8 DEF Clock
<1>10. Clock(time0) \div 1000 = u
  <2> HIDE DEF u
  <2> QED
    BY <1>4, <1>8, <1>9, WholeThousands
<1>11. u \div 86400 \in (day - 1)..(day + 4)
  BY <1>5, <1>6, WholeDays
<1>12. DayOf(Clock(time0)) \in (-(MaxDays + 7))..(MaxDays + 7)
  <2>1. DayOf(Clock(time0)) \in (day - 1)..(day + 4)
    <3> HIDE DEF u
    <3> QED
      BY <1>10, <1>11 DEF DayOf
  <2> QED
    BY <1>1, <1>6, <2>1
<1> QED
  BY <1>3, <1>7, <1>9, <1>12 DEF Near, time0

-----------------------------------------------------------------------------
(* The inductive invariant: what each stage has made of the stage before.  *)
DateInv == pc = "date" => /\ text \in AbsTexts
                          /\ days = CivilDays(text.year, text.month, text.day)

RelInv ==
    /\ pc \in {"rel", "rel written"} => time \in Int
    /\ pc = "rel written" => written = RelTimeToString(time)
    /\ pc = "rel reread" => reread = time

AbsInv ==
    /\ pc \in {"abs", "abs written", "abs reread"} => Near(time)
    /\ pc = "abs written" => written = AbsTimeToString(time)
    /\ pc = "abs reread" =>
           reread.tz_offset_minutes =
               Offset(WrittenZone(time.tz_offset_minutes))
    /\ pc = "abs reread" => OffByOffset(time, reread)
    /\ pc = "abs lost" => written.year \notin FourChars

IInv == DateInv /\ RelInv /\ AbsInv

(* Nothing has been read at first.                                         *)
LEMMA InitIInv == Init => IInv
BY DEF Init, IInv, DateInv, RelInv, AbsInv

(* A RELTIME that parses is a number of milliseconds.                      *)
LEMMA ParsedRelTimeIsInt ==
    ASSUME NEW t \in RelTexts, RelTimeParses(t)
    PROVE  ParseRelTime(t) \in Int
<1>1. t \in RelText
  BY TimeAssumption
<1>2. /\ t.hours \in Int /\ t.minutes \in Int /\ t.seconds \in Int
      /\ t.fraction \in Seq(Chars)
  BY <1>1 DEF RelText
<1>3. ASSUME NEW i \in {1, 2, 3} PROVE Char(t.fraction, i) \in Int
  BY <1>2 DEF Char, Chars
<1>4. Thousandths(t.fraction) \in Int
  BY <1>3 DEF Thousandths
<1> DEFINE frac_ms == IF ~t.point THEN 0
                      ELSE IF t.fraction[1] = Minus THEN -Thousandths(t.fraction)
                      ELSE Thousandths(t.fraction)
           total_ms == (t.hours * 3600 + t.minutes * 60 + t.seconds) * 1000
                       + frac_ms
<1>5. frac_ms \in Int
  BY <1>4
<1> HIDE DEF frac_ms
<1>6. total_ms \in Int
  <2> DEFINE sec == t.hours * 3600 + t.minutes * 60 + t.seconds
  <2>1. sec \in Int
    BY <1>2
  <2> HIDE DEF sec
  <2>2. sec * 1000 + frac_ms \in Int
    BY <1>5, <2>1
  <2> QED
    BY <2>2 DEF sec
<1>7. ParseRelTime(t) = IF t.negative THEN -total_ms ELSE total_ms
  BY DEF ParseRelTime, frac_ms
<1> HIDE DEF total_ms
<1> QED
  BY <1>6, <1>7

(* Every step keeps the invariant: the relative times by ParseUndoesToString*)
(* and the absolute ones by AbsTimeIsReread.                                *)
LEMMA NextIInv == IInv /\ [Next]_vars => IInv'
<1> SUFFICES ASSUME IInv, [Next]_vars
             PROVE  IInv'
  OBVIOUS
<1> USE DEF IInv, DateInv, RelInv, AbsInv
<1>1. ASSUME NEW t \in RelTexts, ReadRelTime(t)
      PROVE  IInv'
  <2>1. CASE RelTimeParses(t)
    <3>1. pc' = "rel" /\ time' = ParseRelTime(t)
      BY <1>1, <2>1 DEF ReadRelTime
    <3>2. time' \in Int
      BY <2>1, <3>1, ParsedRelTimeIsInt
    <3> QED
      BY <3>1, <3>2
  <2>2. CASE ~RelTimeParses(t)
    BY <1>1, <2>2 DEF ReadRelTime
  <2> QED
    BY <2>1, <2>2
<1>2. ASSUME NEW minutes \in MinuteCounts, ReadMinutes(minutes)
      PROVE  IInv'
  <2>1. minutes \in Int
    BY TimeAssumption
  <2>2. time' \in Int /\ pc' = "rel"
    BY <1>2, <2>1 DEF ReadMinutes, RelTimeFromMinutes
  <2> QED
    BY <2>2
<1>3. CASE WriteRelTime
  BY <1>3 DEF WriteRelTime
<1>4. CASE RereadRelTime
  <2>1. time \in Int /\ written = RelTimeToString(time) /\ pc' = "rel reread"
    BY <1>4 DEF RereadRelTime
  <2>2. RelTimeParses(written) /\ ParseRelTime(written) = time
    BY <2>1, ParseUndoesToString
  <2>3. reread' = time'
    BY <1>4, <2>2 DEF RereadRelTime
  <2> QED
    BY <2>1, <2>3
<1>5. ASSUME NEW t \in AbsTexts, ReadDate(t)
      PROVE  IInv'
  BY <1>5 DEF ReadDate
<1>6. CASE ReadAbsTime
  <2>1. text \in AbsTexts
        /\ CivilDays(text.year, text.month, text.day) \in (-MaxDays)..MaxDays
    BY <1>6 DEF ReadAbsTime
  <2>2. Near(ParseAbsTime(text))
    BY <2>1, ParsedIsNear
  <2>3. time' = ParseAbsTime(text) /\ pc' = "abs"
    BY <1>6 DEF ReadAbsTime
  <2>4. Near(time')
    BY <2>2, <2>3
  <2> QED
    BY <2>3, <2>4
<1>7. CASE WriteAbsTime
  BY <1>7 DEF WriteAbsTime
<1>8. CASE RereadAbsTime
  <2>1. Near(time) /\ written = AbsTimeToString(time)
        /\ time' = time /\ written' = written
    BY <1>8 DEF RereadAbsTime
  <2>2. /\ AbsTimeParses(written) <=> written.year \in FourChars
        /\ ParseAbsTime(written).tz_offset_minutes =
               Offset(WrittenZone(time.tz_offset_minutes))
        /\ OffByOffset(time, ParseAbsTime(written))
    BY <2>1, AbsTimeIsReread
  <2>3. CASE AbsTimeParses(written)
    <3>1. reread' = ParseAbsTime(written) /\ pc' = "abs reread"
      BY <1>8, <2>3 DEF RereadAbsTime
    <3> QED
      BY <2>1, <2>2, <3>1
  <2>4. CASE ~AbsTimeParses(written)
    <3>1. pc' = "abs lost"
      BY <1>8, <2>4 DEF RereadAbsTime
    <3> QED
      BY <2>1, <2>2, <2>4, <3>1
  <2> QED
    BY <2>3, <2>4
<1>9. CASE UNCHANGED vars
  BY <1>9 DEF vars
<1> QED
  BY <1>1, <1>2, <1>3, <1>4, <1>5, <1>6, <1>7, <1>8, <1>9 DEF Next

(* It holds throughout.                                                    *)
LEMMA Inductive == Spec => []IInv
BY InitIInv, NextIInv, PTL DEF Spec

(* Every relative time survives being written and read, whatever its sign  *)
(* and size.                                                               *)
THEOREM RelTimesSurvive == Spec => []RelTimesRoundTrip
<1>1. IInv => RelTimesRoundTrip
  BY DEF IInv, RelInv, RelTimesRoundTrip
<1> QED
  BY <1>1, Inductive, PTL

(* The offsets that survive are those outside -59 to -1 and below a        *)
(* hundred hours, whatever the time they belong to.                        *)
THEOREM OffsetsSurviveIfWritable == Spec => []OffsetsRoundTrip
<1>1. IInv => OffsetsRoundTrip
  <2> SUFFICES ASSUME IInv, pc = "abs reread"
               PROVE  reread.tz_offset_minutes = time.tz_offset_minutes
                          <=> ~Unwritable(time.tz_offset_minutes)
    BY DEF OffsetsRoundTrip
  <2> DEFINE o == time.tz_offset_minutes
  <2>1. IsOffset(o)
    BY DEF IInv, AbsInv, Near
  <2>2. reread.tz_offset_minutes = Offset(WrittenZone(o))
    BY DEF IInv, AbsInv
  <2> HIDE DEF o
  <2>3. Offset(WrittenZone(o)) = o <=> ~Unwritable(o)
    BY <2>1, OffsetIsReread
  <2> QED
    BY <2>2, <2>3 DEF o
<1> QED
  BY <1>1, Inductive, PTL

(* The instant survives too, or is off by what the offset is off, for every*)
(* date within any bound and every zone; and nothing written is unreadable *)
(* but a year of more than four characters.                                *)
THEOREM InstantsSurvive == Spec => []AbsTimesRoundTrip
<1>1. IInv => AbsTimesRoundTrip
  <2> SUFFICES ASSUME AbsInv PROVE AbsTimesRoundTrip
    BY DEF IInv
  <2>1. pc = "abs reread" => OffByOffset(time, reread)
    BY DEF AbsInv
  <2>2. pc = "abs reread" =>
            time.epoch_ms - reread.epoch_ms =
                (reread.tz_offset_minutes - time.tz_offset_minutes) * 60 * 1000
    BY <2>1, Zenon DEF OffByOffset
  <2>3. pc = "abs lost" => written.year \notin FourChars
    BY DEF AbsInv
  <2> QED
    BY <2>2, <2>3, Zenon DEF AbsTimesRoundTrip
<1> QED
  BY <1>1, Inductive, PTL

(* civil_days counts the Gregorian calendar in every year, before the year *)
(* 0 too, for months 1 to 12 and days 1 to 99.  Of the other months and    *)
(* days a string can have this says nothing: it does not hold for them.    *)
THEOREM DaysAreTheCalendars == Spec => []CalendarIsGregorian
<1>1. IInv => CalendarIsGregorian
  <2> SUFFICES ASSUME IInv, pc = "date"
               PROVE  days = DayNumber(text.year, text.month, 1)
                             + text.day - 1
    BY DEF CalendarIsGregorian
  <2>1. text \in AbsTexts
        /\ days = CivilDays(text.year, text.month, text.day)
    BY DEF IInv, DateInv
  <2>2. text.year \in Int /\ text.month \in 1..12 /\ text.day \in Int
    BY <2>1, TimeAssumption DEF AbsText
  <2> QED
    BY <2>1, <2>2, CivilDaysCountTheCalendar
<1> QED
  BY <1>1, Inductive, PTL

=============================================================================
