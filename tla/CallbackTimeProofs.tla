------------------------- MODULE CallbackTimeProofs -------------------------
(***************************************************************************)
(* Theorems about CallbackTime, for all office hours, closed days, notices *)
(* and horizons, everything customers write and every instant they write   *)
(* it at.                                                                  *)
(***************************************************************************)
EXTENDS CallbackTime, WellFoundedInduction, TLAPS

(***************************************************************************)
(* Arithmetic.                                                             *)
(***************************************************************************)
\* A set of natural numbers has a least one.
LEMMA SmallestNumber ==
  ASSUME NEW T \in SUBSET Nat, T # {}
  PROVE  \E x \in T : \A y \in T : x <= y
<1> DEFINE R == OpToRel(<, Nat)
<1>1. \E x \in T : \A y \in T : ~ (<<y, x>> \in R)
  <2> HIDE DEF R
  <2>1. IsWellFoundedOn(R, Nat)
    BY NatLessThanWellFounded DEF R
  <2> QED
    BY <2>1, WFMin
<1>2. \A x, y \in Nat : <<y, x>> \in R <=> y < x
  BY DEF OpToRel
<1>3. PICK x \in T : \A y \in T : ~ (<<y, x>> \in R)
  BY <1>1
<1> HIDE DEF R
<1>4. ASSUME NEW y \in T PROVE x <= y
  <2>1. x \in Nat /\ y \in Nat /\ ~ (y < x)
    BY <1>2, <1>3
  <2> QED
    BY <2>1
<1> QED
  BY <1>4

\* A time of day and a day make an instant, and are found again in it.
LEMMA DayAndTime ==
  ASSUME NEW day \in Int, NEW time \in 0..Day - 1
  PROVE  /\ day * Day + time \in Int
         /\ DayOf(day * Day + time) = day /\ TimeOf(day * Day + time) = time
BY DEF Day, Minute, DayOf, TimeOf

LEMMA InstantParts ==
  ASSUME NEW t \in Int
  PROVE  DayOf(t) \in Int /\ TimeOf(t) \in 0..Day - 1 /\ t = DayOf(t) * Day + TimeOf(t)
BY DEF Day, Minute, DayOf, TimeOf

\* From any day on there is a workday within a week, and NextWorkday is the first.
LEMMA NextWorkdayFound ==
  ASSUME NEW day \in Int
  PROVE  /\ NextWorkday(day) \in day..day + 6
         /\ NextWorkday(day) \in Int
         /\ Workday(NextWorkday(day))
         /\ \A e \in day..NextWorkday(day) - 1 : ~Workday(e)
<1>1. PICK w \in 0..6 : w \notin ClosedDays
  BY HoursAssumption
<1>2. PICK d \in day..day + 6 : (d + 6) % 7 = w
  <2>1. day + ((w - (day + 6)) % 7) \in day..day + 6
    OBVIOUS
  <2>2. (day + ((w - (day + 6)) % 7) + 6) % 7 = w
    OBVIOUS
  <2> QED
    BY <2>1, <2>2
<1> DEFINE T == {n \in Nat : n <= 6 /\ Workday(day + n)}
<1>3. T # {}
  <2>1. d - day \in Nat /\ d - day <= 6 /\ day + (d - day) = d
    BY <1>2
  <2>2. Workday(d)
    BY <1>1, <1>2 DEF Workday, Weekday
  <2>3. d - day \in T
    BY <2>1, <2>2
  <2> QED
    BY <2>3
<1>4. PICK n \in T : \A k \in T : n <= k
  <2>1. T \in SUBSET Nat
    OBVIOUS
  <2> HIDE DEF T
  <2> QED
    BY <1>3, <2>1, SmallestNumber
<1>5. day + n \in day..day + 6 /\ Workday(day + n)
  BY <1>4
<1>6. \A e \in day..(day + n) - 1 : ~Workday(e)
  <2> SUFFICES ASSUME NEW e \in day..(day + n) - 1, Workday(e) PROVE FALSE
    OBVIOUS
  <2>1. e - day \in Nat /\ e - day < n /\ day + (e - day) = e /\ n <= 6 /\ n \in Nat
    BY <1>4
  <2>2. e - day \in T
    BY <2>1
  <2> QED
    BY <1>4, <2>1, <2>2
<1>7. \E c \in day..day + 6 : Workday(c) /\ \A e \in day..c - 1 : ~Workday(e)
  BY <1>5, <1>6
<1>8. /\ NextWorkday(day) \in day..day + 6
      /\ Workday(NextWorkday(day))
      /\ \A e \in day..NextWorkday(day) - 1 : ~Workday(e)
  BY <1>7 DEF NextWorkday
<1> QED
  BY <1>8

(***************************************************************************)
(* The calendar.                                                           *)
(***************************************************************************)
\* The days before a year, counted from year 1.
DaysToYear(y) == 365 * (y - 1) + (y - 1) \div 4 - (y - 1) \div 100 + (y - 1) \div 400

\* A year has 365 days, one more if it is a leap year.
LEMMA YearLength ==
  ASSUME NEW y \in Nat \ {0}
  PROVE  /\ DaysToYear(y) \in Nat
         /\ DaysToYear(y + 1) = DaysToYear(y) + (IF Leap(y) THEN 366 ELSE 365)
         /\ 365 * (y - 1) <= DaysToYear(y) /\ DaysToYear(y) <= 366 * (y - 1)
<1>1. DaysToYear(y) \in Nat /\ 365 * (y - 1) <= DaysToYear(y) /\ DaysToYear(y) <= 366 * (y - 1)
  BY DEF DaysToYear
<1>2. /\ y \div 4 = (y - 1) \div 4 + (IF y % 4 = 0 THEN 1 ELSE 0)
      /\ y \div 100 = (y - 1) \div 100 + (IF y % 100 = 0 THEN 1 ELSE 0)
      /\ y \div 400 = (y - 1) \div 400 + (IF y % 400 = 0 THEN 1 ELSE 0)
      /\ (y % 400 = 0 => y % 100 = 0) /\ (y % 100 = 0 => y % 4 = 0)
  OBVIOUS
<1>3. DaysToYear(y + 1) = 365 * y + y \div 4 - y \div 100 + y \div 400
  BY DEF DaysToYear
<1> QED
  BY <1>1, <1>2, <1>3 DEF DaysToYear, Leap

\* The first and the last day of a year.
LEMMA YearEnds ==
  ASSUME NEW y \in Nat \ {0}
  PROVE  /\ Date(y, 1, 1) = DaysToYear(y) + 1
         /\ Date(y, 12, 31) = DaysToYear(y) + (IF Leap(y) THEN 366 ELSE 365)
<1>1. MonthDays(y, 1) = 31 /\ MonthDays(y, 12) = 31
  BY DEF MonthDays
<1>2. DaysBefore[1] = 0 /\ DaysBefore[12] = 334
  BY DEF DaysBefore
<1> DEFINE before == 365 * (y - 1) + (y - 1) \div 4 - (y - 1) \div 100 + (y - 1) \div 400
<1>3. 1 \in 1..12 /\ 12 \in 1..12 /\ 1 \in 1..MonthDays(y, 1) /\ 31 \in 1..MonthDays(y, 12)
  BY <1>1
<1>4. /\ Date(y, 1, 1) = before + DaysBefore[1] + (IF 1 > 2 /\ Leap(y) THEN 1 ELSE 0) + 1
      /\ Date(y, 12, 31) = before + DaysBefore[12] + (IF 12 > 2 /\ Leap(y) THEN 1 ELSE 0) + 31
  BY <1>3 DEF Date
<1>5. before \in Int
  OBVIOUS
<1> HIDE DEF before
<1>6. /\ Date(y, 1, 1) = before + 1
      /\ Date(y, 12, 31) = before + (IF Leap(y) THEN 366 ELSE 365)
  BY <1>2, <1>4, <1>5
<1> QED
  BY <1>6 DEF DaysToYear, before

\* Every day is in a year, and YearOf finds it.
LEMMA YearFound ==
  ASSUME NEW day \in Nat \ {0}
  PROVE  YearOf(day) \in Nat \ {0}
<1> DEFINE T == {y \in Nat : y # 0 /\ DaysToYear(y + 1) >= day}
<1>1. T # {}
  <2>1. DaysToYear(day + 1) >= 365 * day
    BY YearLength
  <2>2. day \in T
    BY <2>1, YearLength
  <2> QED
    BY <2>2
<1>2. PICK y \in T : \A k \in T : y <= k
  <2>1. T \in SUBSET Nat
    OBVIOUS
  <2> HIDE DEF T
  <2> QED
    BY <1>1, <2>1, SmallestNumber
<1>3. y \in Nat \ {0} /\ day <= DaysToYear(y + 1)
  BY <1>2
<1>4. DaysToYear(y) < day
  <2>1. CASE y = 1
    BY <2>1 DEF DaysToYear
  <2>2. CASE y # 1
    <3>1. y - 1 \in Nat \ {0} /\ y - 1 \notin T /\ (y - 1) + 1 = y
      BY <1>2, <1>3, <2>2
    <3>2. ~ (DaysToYear(y) >= day)
      BY <3>1
    <3>3. DaysToYear(y) \in Nat
      BY <1>3, YearLength
    <3> QED
      BY <3>2, <3>3
  <2> QED
    BY <2>1, <2>2
<1>5. Date(y, 1, 1) <= day /\ day <= Date(y, 12, 31)
  <2>1. DaysToYear(y) \in Nat /\ DaysToYear(y + 1) = DaysToYear(y) + (IF Leap(y) THEN 366 ELSE 365)
    BY <1>3, YearLength, SMTT(30)
  <2>2. Date(y, 1, 1) = DaysToYear(y) + 1
        /\ Date(y, 12, 31) = DaysToYear(y) + (IF Leap(y) THEN 366 ELSE 365)
    BY <1>3, YearEnds
  <2> QED
    BY <1>3, <1>4, <2>1, <2>2
<1>6. y \in (day - 1) \div 366 + 1..day \div 365 + 1
  <2>1. 365 * (y - 1) < day
    BY <1>3, <1>4, YearLength
  <2>2. day <= 366 * y
    <3>1. DaysToYear(y + 1) <= 366 * y
      BY <1>3, YearLength
    <3> QED
      BY <1>3, <3>1, YearLength
  <2> QED
    BY <1>3, <2>1, <2>2
<1>7. PICK z : z = YearOf(day)
  OBVIOUS
<1>8. z \in (day - 1) \div 366 + 1..day \div 365 + 1
  BY <1>5, <1>6, <1>7 DEF YearOf
<1> QED
  BY <1>7, <1>8

\* A date is a number of days, or none.
LEMMA DateCounted ==
  ASSUME NEW y \in Nat \ {0}, NEW m \in Nat, NEW d \in Nat
  PROVE  Date(y, m, d) \in Nat
<1>1. CASE m \in 1..12 /\ d \in 1..MonthDays(y, m)
  <2>1. DaysBefore[m] \in Nat
    BY <1>1 DEF DaysBefore
  <2>2. DaysToYear(y) \in Nat
    BY YearLength
  <2>3. Date(y, m, d) = DaysToYear(y) + DaysBefore[m] + (IF m > 2 /\ Leap(y) THEN 1 ELSE 0) + d
    BY <1>1 DEF Date, DaysToYear
  <2> QED
    BY <2>1, <2>2, <2>3
<1>2. CASE ~ (m \in 1..12 /\ d \in 1..MonthDays(y, m))
  BY <1>2 DEF Date, NoDate
<1> QED
  BY <1>1, <1>2

\* So is what any form of date comes to.
LEMMA ResolvedCounted ==
  ASSUME NEW f, f.d \in Nat, f.m \in Nat, f.y \in Nat, NEW today \in Nat \ {0}
  PROVE  Resolve(f, today) \in Nat
<1>1. YearOf(today) \in Nat \ {0} /\ YearOf(today) + 1 \in Nat \ {0}
  BY YearFound
<1>2. Yearless(f.m, f.d, today) \in Nat
  BY <1>1, DateCounted DEF Yearless
<1>3. FromNumericDate(f, today) \in Nat
  <2>1. CASE f.y = 0
    BY <1>2, <2>1 DEF FromNumericDate
  <2>2. CASE f.y # 0
    <3>1. PICK y \in Nat \ {0} : y = IF f.y < 100 THEN f.y + 2000 ELSE f.y
      BY <2>2
    <3>2. FromNumericDate(f, today) = Date(y, f.m, f.d)
      BY <2>2, <3>1 DEF FromNumericDate
    <3>3. Date(y, f.m, f.d) \in Nat
      BY DateCounted
    <3> QED
      BY <3>2, <3>3
  <2> QED
    BY <2>1, <2>2
<1>4. NextWeekday(today, f.d) \in Nat
  BY DEF NextWeekday, Weekday
<1>5. today + 2 \in Nat /\ today + 1 \in Nat /\ today \in Nat
  OBVIOUS
<1>6. \/ Resolve(f, today) \in {today + 2, today + 1, today}
      \/ Resolve(f, today) = FromNumericDate(f, today)
      \/ Resolve(f, today) = Yearless(f.m, f.d, today)
      \/ Resolve(f, today) = NextWeekday(today, f.d)
  BY DEF Resolve
<1> QED
  BY <1>2, <1>3, <1>4, <1>5, <1>6

\* Of some forms, all of them known to the parser, it finds the first.
LEMMA FirstFound ==
  ASSUME NEW order, NEW n \in Nat, DOMAIN order = 1..n, NEW forms, forms # {},
         \A f \in forms : f.form \in ToSet(order)
  PROVE  First(order, forms) \in forms
<1>1. ASSUME NEW f \in forms PROVE Rank(order, f) \in Nat
  <2>1. \E i \in 1..n : order[i] = f.form
    BY DEF ToSet
  <2>2. Rank(order, f) \in 1..n
    BY <2>1 DEF Rank
  <2> QED
    BY <2>2
<1> DEFINE T == {Rank(order, f) : f \in forms}
<1>2. PICK m \in T : \A k \in T : m <= k
  <2>1. T \in SUBSET Nat /\ T # {}
    BY <1>1
  <2> HIDE DEF T
  <2> QED
    BY <2>1, SmallestNumber
<1>3. \E f \in forms : \A g \in forms : Rank(order, f) <= Rank(order, g)
  <2>1. PICK f \in forms : m = Rank(order, f)
    BY <1>2
  <2>2. \A g \in forms : Rank(order, f) <= Rank(order, g)
    BY <1>2, <2>1
  <2> QED
    BY <2>2
<1> QED
  BY <1>3 DEF First

\* A text names a day, or none.
LEMMA DateNamed ==
  ASSUME NEW text \in Texts, NEW today \in Nat \ {0}
  PROVE  ParseDate(text, today) \in Nat /\ (text.dates = {} => ParseDate(text, today) = NoDate)
<1> DEFINE real == {f \in text.dates : Resolve(f, today) # NoDate}
<1>1. CASE real = {}
  BY <1>1 DEF ParseDate, NoDate
<1>2. CASE real # {}
  <2>1. \A f \in real : f.form \in ToSet(DateForms) /\ f.d \in Nat /\ f.m \in Nat /\ f.y \in Nat
    BY TextsAssumption
  <2>2. DOMAIN DateForms = 1..6
    BY DEF DateForms
  <2> HIDE DEF real
  <2>3. First(DateForms, real) \in real
    BY <1>2, <2>1, <2>2, FirstFound
  <2>4. Resolve(First(DateForms, real), today) \in Nat
    BY <2>1, <2>3, ResolvedCounted
  <2> QED
    BY <1>2, <2>4 DEF ParseDate, real
<1> QED
  BY <1>1, <1>2

\* A text names a time of day, or none.
LEMMA TimeNamed ==
  ASSUME NEW text \in Texts
  PROVE  ParseTime(text) \in (0..Day - 1) \cup {NoTime}
<1> DEFINE Timed == (0..Day - 1) \cup {NoTime}
<1> SUFFICES ParseTime(text) \in Timed
  OBVIOUS
<1>1. \A h : Hour(h) \in Timed
  BY DEF Hour, At, Day, Minute
<1>2. \A h : DisambiguateHour(h) \in Timed
  <2> HIDE DEF Timed
  <2> QED
    BY <1>1 DEF DisambiguateHour
<1>3. CASE text.times = {}
  BY <1>3 DEF ParseTime
<1>4. CASE text.times # {}
  <2>1. \A f \in text.times : f.form \in ToSet(TimeForms) /\ f.h \in Nat /\ f.mi \in Nat
    BY TextsAssumption
  <2>2. DOMAIN TimeForms = 1..12
    BY DEF TimeForms
  <2>3. PICK f \in text.times : f = First(TimeForms, text.times)
    BY <1>4, <2>1, <2>2, FirstFound
  <2>4. ParseTime(text) =
           IF f.form = "clock"
           THEN IF f.mi <= 59 /\ ApplyMeridiem(f.h, f.mer) \in 0..23
                THEN At(ApplyMeridiem(f.h, f.mer), f.mi) ELSE NoTime
           ELSE IF f.form = "meridiem" THEN Hour(ApplyMeridiem(f.h, f.mer))
           ELSE IF f.form \in {"oclock", "bare", "lone"} THEN DisambiguateHour(f.h)
           ELSE WordTime[f.form]
    BY <1>4, <2>3 DEF ParseTime
  <2>5. \A h \in 0..23 : f.mi <= 59 => At(h, f.mi) \in Timed
    BY <2>1 DEF At, Day, Minute
  <2>6. f.form \in {"morning", "noon", "midday", "lunch", "afternoon", "evening", "night"}
          => WordTime[f.form] \in Timed
    <3>1. /\ At(11, 30) \in Timed /\ At(12, 0) \in Timed /\ At(13, 0) \in Timed /\ At(14, 0) \in Timed
          /\ At(17, 30) \in Timed /\ At(18, 30) \in Timed
      BY DEF At, Day, Minute
    <3> HIDE DEF Timed
    <3> QED
      BY <3>1 DEF WordTime
  <2>7. f.form \in {TimeForms[i] : i \in 1..12}
    BY <2>1, <2>2 DEF ToSet
  <2>8. f.form \in {"clock", "meridiem", "oclock", "morning", "noon", "midday", "lunch", "afternoon",
                    "evening", "night", "bare", "lone"}
    BY <2>7 DEF TimeForms
  <2>9. NoTime \in Timed
    OBVIOUS
  <2> HIDE DEF Timed
  <2>10. CASE f.form = "clock"
    BY <2>4, <2>5, <2>9, <2>10
  <2>11. CASE f.form \in {"meridiem", "oclock", "bare", "lone"}
    BY <1>1, <1>2, <2>4, <2>11
  <2>12. CASE f.form \in {"morning", "noon", "midday", "lunch", "afternoon", "evening", "night"}
    BY <2>4, <2>6, <2>12
  <2> QED
    BY <2>8, <2>10, <2>11, <2>12
<1> QED
  BY <1>3, <1>4

(***************************************************************************)
(* Slots.                                                                  *)
(***************************************************************************)
\* Hours an office keeps, which the settings do not enforce and the defaults (11:00 to 19:00, half
\* an hour's notice, a month ahead) meet: opening on the half hour, a notice that is over at
\* opening time for who asks on the day before, all preferred times in office hours, and a horizon
\* beyond the third next workday.
UsualHours ==
    /\ Open % HalfHour = 0 /\ MinLead <= Open
    /\ \A i \in 1..Len(Preferred) : InHours(Preferred[i])
    /\ MinLead + HalfHour + 29 * Day <= MaxDaysAhead * Day

\* Rounding goes to the next half hour, but loses up to a half minute's second.
LEMMA RoundedUp ==
  ASSUME NEW t \in Nat
  PROVE  /\ RoundUpHalfHour(t) \in Nat
         /\ RoundUpHalfHour(t) >= t - (Minute - 1) /\ RoundUpHalfHour(t) <= t + HalfHour
         /\ \A at \in Int : at >= t /\ at % HalfHour = 0 => at >= RoundUpHalfHour(t)
BY DEF RoundUpHalfHour, HalfHour, Minute

\* The next open slot is in office hours of a workday, and no more than a week and a day from the
\* notice.
LEMMA OpenSlot ==
  ASSUME NEW t \in Nat
  PROVE  /\ NextOpenSlot(t) \in Int
         /\ Workday(DayOf(NextOpenSlot(t))) /\ InHours(TimeOf(NextOpenSlot(t)))
         /\ NextOpenSlot(t) >= t + MinLead - (Minute - 1)
         /\ DayOf(NextOpenSlot(t)) * Day <= t + MinLead + HalfHour + 7 * Day
<1>1. MinLead \in Nat /\ Open \in 0..Day - 1 /\ Close \in 0..Day - 1 /\ Open <= Close
  BY HoursAssumption
<1>2. PICK cursor \in Nat : /\ cursor = RoundUpHalfHour(t + MinLead)
                            /\ cursor >= t + MinLead - (Minute - 1)
                            /\ cursor <= t + MinLead + HalfHour
  <2>1. PICK m \in Nat : m = t + MinLead
    BY <1>1
  <2>2. /\ RoundUpHalfHour(m) \in Nat
        /\ RoundUpHalfHour(m) >= m - (Minute - 1) /\ RoundUpHalfHour(m) <= m + HalfHour
    BY RoundedUp
  <2>3. /\ RoundUpHalfHour(m) >= t + MinLead - (Minute - 1)
        /\ RoundUpHalfHour(m) <= t + MinLead + HalfHour
    BY <1>1, <2>1, <2>2 DEF Minute, HalfHour
  <2> QED
    BY <2>1, <2>2, <2>3
<1>3. PICK day \in Int, time \in 0..Day - 1 :
         DayOf(cursor) = day /\ TimeOf(cursor) = time /\ cursor = day * Day + time
  BY InstantParts
<1>4. PICK next \in Int : next = NextWorkday(day + 1) /\ next >= day + 1 /\ next <= day + 7 /\ Workday(next)
  <2>1. day + 1 \in Int
    OBVIOUS
  <2>2. NextWorkday(day + 1) \in (day + 1)..(day + 1) + 6 /\ Workday(NextWorkday(day + 1))
    BY <2>1, NextWorkdayFound
  <2> QED
    BY <2>2
<1>5. PICK slot : slot = NextOpenSlot(t)
  OBVIOUS
<1>6. slot = IF ~Workday(day) \/ time > Close THEN next * Day + Open
             ELSE IF time < Open THEN day * Day + Open ELSE cursor
  BY <1>2, <1>3, <1>4, <1>5 DEF NextOpenSlot
<1>7. PICK to \in Int, at \in 0..Day - 1 :
         /\ slot = to * Day + at /\ slot >= cursor /\ Workday(to) /\ InHours(at)
         /\ to * Day <= cursor + 7 * Day
  <2>1. CASE ~Workday(day) \/ time > Close
    <3>1. next * Day + Open >= cursor /\ next * Day <= cursor + 7 * Day
      <4>1. next >= day + 1 /\ next <= day + 7 /\ time >= 0 /\ time < Day /\ Open >= 0
        BY <1>1, <1>3, <1>4 DEF Day, Minute
      <4>2. next * Day >= (day + 1) * Day /\ next * Day <= (day + 7) * Day
        BY <1>4, <4>1 DEF Day, Minute
      <4>3. Open \in Int
        BY <1>1 DEF Day, Minute
      <4> QED
        BY <1>3, <1>4, <4>1, <4>2, <4>3 DEF Day, Minute
    <3>2. InHours(Open)
      BY <1>1 DEF InHours, Day, Minute
    <3> QED
      BY <1>1, <1>4, <1>6, <2>1, <3>1, <3>2
  <2>2. CASE Workday(day) /\ ~ (time > Close) /\ time < Open
    <3>1. day * Day + Open >= cursor /\ day * Day <= cursor + 7 * Day
      BY <1>1, <1>3, <2>2 DEF Day, Minute
    <3>2. InHours(Open)
      BY <1>1 DEF InHours, Day, Minute
    <3> QED
      BY <1>1, <1>6, <2>2, <3>1, <3>2
  <2>3. CASE Workday(day) /\ ~ (time > Close) /\ ~ (time < Open)
    <3>1. cursor >= cursor /\ day * Day <= cursor + 7 * Day
      BY <1>3 DEF Day, Minute
    <3>2. time \in Int /\ Close \in Int /\ Open \in Int
      BY <1>1, <1>3 DEF Day, Minute
    <3>3. InHours(time)
      BY <2>3, <3>2 DEF InHours
    <3> QED
      BY <1>3, <1>6, <2>3, <3>1, <3>3
  <2> QED
    BY <2>1, <2>2, <2>3
<1>8. slot \in Int /\ DayOf(slot) = to /\ TimeOf(slot) = at
  BY <1>7, DayAndTime
<1>9. slot >= t + MinLead - (Minute - 1)
  BY <1>1, <1>2, <1>7, <1>8 DEF Minute
<1>10. to * Day <= t + MinLead + HalfHour + 7 * Day
  BY <1>1, <1>2, <1>7 DEF Day, HalfHour, Minute
<1> QED
  BY <1>5, <1>7, <1>8, <1>9, <1>10

\* "asap" misses no slot: what could be promised on a half hour or at opening time is not before it.
LEMMA OpenSlotIsEarliest ==
  ASSUME Open % HalfHour = 0, NEW t \in Nat,
         NEW day \in Int, NEW time \in Nat, time < Day, time % HalfHour = 0,
         Bookable(day * Day + time, t)
  PROVE  day * Day + time >= NextOpenSlot(t)
<1>1. MinLead \in Nat /\ Open \in 0..Day - 1 /\ Close \in 0..Day - 1 /\ Open <= Close
  BY HoursAssumption
<1>2. Workday(day) /\ Open <= time /\ time <= Close /\ day * Day + time >= t + MinLead
  <2>1. time \in 0..Day - 1
    BY DEF Day, Minute
  <2>2. DayOf(day * Day + time) = day /\ TimeOf(day * Day + time) = time
    BY <2>1, DayAndTime
  <2> QED
    BY <2>2 DEF Bookable, InHours
<1>3. PICK cursor \in Nat : cursor = RoundUpHalfHour(t + MinLead) /\ day * Day + time >= cursor
  <2>1. t + MinLead \in Nat
    BY <1>1
  <2>2. day * Day + time \in Int /\ (day * Day + time) % HalfHour = 0
    BY DEF Day, HalfHour, Minute
  <2> QED
    BY <1>2, <2>1, <2>2, RoundedUp
<1>4. PICK start \in Int, clock \in 0..Day - 1 :
         DayOf(cursor) = start /\ TimeOf(cursor) = clock /\ cursor = start * Day + clock
  BY InstantParts
<1>5. PICK next \in Int : /\ next = NextWorkday(start + 1)
                          /\ \A e \in start + 1..next - 1 : ~Workday(e)
  <2>1. start + 1 \in Int
    OBVIOUS
  <2> QED
    BY <2>1, NextWorkdayFound
<1>6. NextOpenSlot(t) = IF ~Workday(start) \/ clock > Close THEN next * Day + Open
                        ELSE IF clock < Open THEN start * Day + Open ELSE cursor
  BY <1>3, <1>4, <1>5 DEF NextOpenSlot
<1>7. day >= start /\ (day = start => time >= clock)
  BY <1>3, <1>4 DEF Day, Minute
<1>8. CASE ~Workday(start) \/ clock > Close
  <2>1. day # start
    <3>1. time \in Int /\ clock \in Int /\ Close \in Int
      BY <1>1, <1>4 DEF Day, Minute
    <3> QED
      BY <1>2, <1>7, <1>8, <3>1
  <2>2. day >= next
    <3>1. ~ (day \in start + 1..next - 1)
      BY <1>2, <1>5
    <3> QED
      BY <1>5, <1>7, <2>1, <3>1
  <2>3. day * Day + time >= next * Day + Open
    BY <1>1, <1>2, <2>2 DEF Day, Minute
  <2> QED
    BY <1>6, <1>8, <2>3
<1>9. CASE Workday(start) /\ ~ (clock > Close) /\ clock < Open
  <2>1. day * Day + time >= start * Day + Open
    BY <1>1, <1>2, <1>7 DEF Day, Minute
  <2> QED
    BY <1>6, <1>9, <2>1
<1>10. CASE Workday(start) /\ ~ (clock > Close) /\ ~ (clock < Open)
  BY <1>3, <1>6, <1>10
<1> QED
  BY <1>8, <1>9, <1>10

\* Preferred times are times of day.
LEMMA PreferredTimes ==
  ASSUME NEW i \in 1..Len(Preferred)
  PROVE  1 \in 1..Len(Preferred) /\ Preferred[i] \in 0..Day - 1 /\ Preferred[1] \in 0..Day - 1
BY DEF Preferred, At, Day, Minute

\* The times suggested after a refusal can be promised.
LEMMA TipsBookable ==
  ASSUME UsualHours, NEW t \in Nat, NEW tip \in SuggestSlots(t)
  PROVE  Bookable(tip, t)
<1> DEFINE free(day) == {at \in {day * Day + Preferred[i] : i \in 1..Len(Preferred)} : at >= t + MinLead}
<1>1. MinLead \in Nat /\ MaxDaysAhead \in Nat
  BY HoursAssumption
<1>2. PICK slot \in Int, from \in Int :
         /\ slot = NextOpenSlot(t) /\ from = DayOf(slot) /\ Workday(from)
         /\ slot < (from + 1) * Day /\ slot >= t + MinLead - 1
         /\ from * Day <= t + MinLead + HalfHour + 7 * Day
  <2>1. PICK slot \in Int : slot = NextOpenSlot(t)
    BY OpenSlot
  <2>2. PICK from \in Int, time \in 0..Day - 1 : from = DayOf(slot) /\ slot = from * Day + time
    BY InstantParts
  <2>3. slot < (from + 1) * Day
    BY <2>2, SMTT(30) DEF Day, Minute
  <2>4. Workday(from) /\ slot >= t + MinLead - 1 /\ from * Day <= t + MinLead + HalfHour + 7 * Day
    <3>1. /\ Workday(DayOf(slot)) /\ slot >= t + MinLead - (Minute - 1)
          /\ DayOf(slot) * Day <= t + MinLead + HalfHour + 7 * Day
      BY <2>1, OpenSlot
    <3>2. slot >= t + MinLead - 1
      BY <1>1, <3>1 DEF Minute
    <3> QED
      BY <2>2, <3>1, <3>2
  <2> QED
    BY <2>1, <2>2, <2>3, <2>4
\* On a workday no later than three weeks on, what is free can be promised.
<1>3. ASSUME NEW day \in Int, Workday(day), day <= from + 21, free(day) # {}
      PROVE  Bookable(Min(free(day)), t)
  <2>1. \A at \in free(day) : at \in Int /\ at >= t /\ at \in Nat
    <3> SUFFICES ASSUME NEW at \in free(day) PROVE at \in Int /\ at >= t /\ at \in Nat
      OBVIOUS
    <3>1. PICK i \in 1..Len(Preferred) : at = day * Day + Preferred[i] /\ at >= t + MinLead
      OBVIOUS
    <3>2. PICK tm \in 0..Day - 1 : tm = Preferred[i]
      BY PreferredTimes
    <3>3. at \in Int
      BY <3>1, <3>2, DayAndTime
    <3> QED
      BY <1>1, <3>1, <3>3
  <2>2. PICK at \in free(day) : \A b \in free(day) : at <= b
    <3>1. free(day) \in SUBSET Nat
      BY <2>1
    <3> HIDE DEF free
    <3> QED
      BY <1>3, <3>1, SmallestNumber
  <2>3. Min(free(day)) \in free(day)
    <3> HIDE DEF free
    <3> QED
      BY <2>2 DEF Min
  <2>4. PICK i \in 1..Len(Preferred), tm \in 0..Day - 1 :
           /\ Min(free(day)) = day * Day + tm /\ tm = Preferred[i]
           /\ day * Day + tm >= t + MinLead
    BY <2>3, PreferredTimes
  <2>5. DayOf(day * Day + tm) = day /\ TimeOf(day * Day + tm) = tm
    BY DayAndTime
  <2>6. InHours(tm)
    BY <2>4 DEF UsualHours
  <2>7. day * Day + tm <= t + MaxDaysAhead * Day
    <3>1. day * Day <= (from + 21) * Day
      BY <1>3 DEF Day, Minute
    <3>2. day * Day + tm <= t + MinLead + HalfHour + 29 * Day
      <4>1. tm < Day /\ tm \in Int
        BY DEF Day, Minute
      <4>2. (from + 21) * Day = from * Day + 21 * Day
        BY DEF Day, Minute
      <4> QED
        BY <1>1, <1>2, <3>1, <4>1, <4>2, SMTT(30) DEF Day, HalfHour, Minute
    <3> QED
      BY <1>1, <3>2 DEF UsualHours, Day, HalfHour, Minute
  <2> QED
    BY <1>3, <2>4, <2>5, <2>6, <2>7 DEF Bookable
\* Every day after the slot's has a preferred time that is free.
<1>4. ASSUME NEW day \in Int, day >= from + 1 PROVE free(day) # {}
  <2>1. day * Day >= (from + 1) * Day
    BY <1>4 DEF Day, Minute
  <2>2. Preferred[1] \in Int /\ Preferred[1] >= 0 /\ 1 \in 1..Len(Preferred)
    BY DEF Preferred, At, Minute
  <2>3. day * Day + Preferred[1] >= t + MinLead
    BY <1>1, <1>2, <2>1, <2>2, SMTT(30) DEF Day, Minute
  <2>4. day * Day + Preferred[1] \in free(day)
    BY <2>2, <2>3
  <2> QED
    BY <2>4
<1>5. NextWorkday(from) = from
  <2>1. NextWorkday(from) \in from..from + 6 /\ \A e \in from..NextWorkday(from) - 1 : ~Workday(e)
    BY NextWorkdayFound
  <2>2. ~ (from \in from..NextWorkday(from) - 1)
    BY <1>2, <2>1
  <2> QED
    BY <2>1, <2>2
<1>6. ASSUME NEW day \in Int
      PROVE  /\ NextWorkday(day + 1) \in Int /\ Workday(NextWorkday(day + 1))
             /\ NextWorkday(day + 1) >= day + 1 /\ NextWorkday(day + 1) <= day + 7
  <2>1. day + 1 \in Int
    OBVIOUS
  <2>2. NextWorkday(day + 1) \in (day + 1)..(day + 1) + 6 /\ Workday(NextWorkday(day + 1))
    BY <2>1, NextWorkdayFound
  <2> QED
    BY <2>2
<1>7. PICK one \in Int : /\ one = IF free(from) # {} THEN from ELSE NextWorkday(from + 1)
                         /\ Workday(one) /\ one >= from /\ one <= from + 7 /\ free(one) # {}
  <2> HIDE DEF free
  <2> QED
    BY <1>2, <1>4, <1>6
<1>8. PICK two \in Int : /\ two = NextWorkday(one + 1)
                         /\ Workday(two) /\ two >= from + 1 /\ two <= from + 14
  BY <1>6, <1>7
<1>9. PICK three \in Int : /\ three = NextWorkday(two + 1)
                           /\ Workday(three) /\ three >= from + 1 /\ three <= from + 21
  BY <1>6, <1>8
<1>10. tip \in {Min(free(one)), Min(free(two)), Min(free(three))}
  <2>1. NextWorkday(DayOf(NextOpenSlot(t))) = from
    BY <1>2, <1>5
  <2>2. SuggestSlots(t) = {Min(free(one)), Min(free(two)), Min(free(three))}
    BY <1>7, <1>8, <1>9, <2>1 DEF SuggestSlots
  <2> QED
    BY <2>2
<1>11. /\ Bookable(Min(free(one)), t) /\ Bookable(Min(free(two)), t) /\ Bookable(Min(free(three)), t)
  <2> HIDE DEF free
  <2>1. free(two) # {} /\ free(three) # {}
    BY <1>4, <1>8, <1>9
  <2>2. one <= from + 21 /\ two <= from + 21
    BY <1>7, <1>8
  <2> QED
    BY <1>3, <1>7, <1>8, <1>9, <2>1, <2>2
<1> QED
  BY <1>10, <1>11

(***************************************************************************)
(* What is made of a text.                                                 *)
(***************************************************************************)
\* A validated instant is taken as it is, and then it can be promised; or it is refused.
LEMMA Validated ==
  ASSUME NEW t \in Nat, NEW at \in Int
  PROVE  /\ DOMAIN Validate(at, t) = {"at", "reason", "named", "tips"}
         /\ Validate(at, t).reason \in Results \ {"NOT_UNDERSTOOD", "MISSING_TIME"}
         /\ Validate(at, t).reason = "OK" <=> at >= t /\ Bookable(at, t)
         /\ Validate(at, t).reason = "OK" => Validate(at, t).at = at
         /\ Validate(at, t).tips \subseteq SuggestSlots(t)
<1>1. MinLead \in Nat /\ MaxDaysAhead * Day \in Nat
  BY HoursAssumption DEF Day, Minute
<1>2. /\ DOMAIN Accepted(at) = {"at", "reason", "named", "tips"}
      /\ Accepted(at).reason = "OK" /\ Accepted(at).at = at /\ Accepted(at).tips = {}
  BY DEF Accepted
<1>3. \A reason : /\ DOMAIN Reject(reason, t) = {"at", "reason", "named", "tips"}
                  /\ Reject(reason, t).reason = reason /\ Reject(reason, t).tips = SuggestSlots(t)
  BY DEF Reject
<1>4. CASE at >= t /\ Bookable(at, t)
  <2>1. Validate(at, t) = Accepted(at)
    BY <1>1, <1>4 DEF Validate, Bookable
  <2> QED
    BY <1>2, <1>4, <2>1 DEF Results
<1>5. CASE ~ (at >= t /\ Bookable(at, t))
  <2>1. \E reason \in {"IN_PAST", "TOO_SOON", "TOO_FAR", "CLOSED_DAY", "OUTSIDE_HOURS"} :
           Validate(at, t) = Reject(reason, t)
    BY <1>1, <1>5 DEF Validate, Bookable
  <2> QED
    BY <1>3, <1>5, <2>1 DEF Results
<1> QED
  BY <1>4, <1>5

\* A text is empty, or asks for the next slot, or names no time, or a time on the day it names, the
\* day named before if that is not over, or the first day it can be taken for.
LEMMA ParseFacts ==
  ASSUME NEW text \in Texts, NEW t \in Nat, NEW assumed \in Nat, t >= Day,
         NEW res, res = Parse(text, t, assumed),
         NEW named, named = ParseDate(text, DayOf(t)),
         NEW time, time = ParseTime(text)
  PROVE  \/ /\ text.empty
            /\ res.reason = "NOT_UNDERSTOOD" /\ res.named = NoDate /\ res.tips = SuggestSlots(t)
         \/ /\ ~text.empty /\ text.asap
            /\ res.reason = "OK" /\ res.at = NextOpenSlot(t) /\ res.tips = {}
         \/ /\ ~text.empty /\ ~text.asap /\ time = NoTime
            /\ res.reason = (IF named # NoDate THEN "MISSING_TIME" ELSE "NOT_UNDERSTOOD")
            /\ res.named = named /\ res.tips = SuggestSlots(t)
         \/ /\ ~text.empty /\ ~text.asap /\ time # NoTime
            /\ \E date \in Nat, day \in Int :
                  /\ date = IF named # NoDate THEN named
                            ELSE IF assumed # NoDate /\ assumed >= DayOf(t) THEN assumed
                            ELSE NoDate
                  /\ day = IF date # NoDate THEN date ELSE ResolveImplicitDate(time, t)
                  /\ res.at = Validate(day * Day + time, t).at
                  /\ res.reason = Validate(day * Day + time, t).reason
                  /\ res.tips = Validate(day * Day + time, t).tips
                  /\ res.named = date
<1>1. DayOf(t) \in Nat \ {0}
  BY DEF DayOf, Day, Minute
<1>2. named \in Nat
  BY <1>1, DateNamed
<1>3. time \in (0..Day - 1) \cup {NoTime}
  BY TimeNamed
<1>4. \A reason : /\ DOMAIN Reject(reason, t) = {"at", "reason", "named", "tips"}
                  /\ Reject(reason, t).reason = reason /\ Reject(reason, t).tips = SuggestSlots(t)
                  /\ Reject(reason, t).named = NoDate
  BY DEF Reject
<1>5. CASE text.empty
  BY <1>4, <1>5 DEF Parse
<1>6. CASE ~text.empty /\ text.asap
  <2>1. res = Accepted(NextOpenSlot(t))
    BY <1>6 DEF Parse
  <2> QED
    BY <1>6, <2>1 DEF Accepted
<1>7. CASE ~text.empty /\ ~text.asap /\ time = NoTime
  <2>1. PICK refusal : refusal = Reject(IF named # NoDate THEN "MISSING_TIME" ELSE "NOT_UNDERSTOOD", t)
    OBVIOUS
  <2>2. res = [refusal EXCEPT !.named = named]
    BY <1>7, <2>1 DEF Parse
  <2>3. /\ DOMAIN refusal = {"at", "reason", "named", "tips"}
        /\ refusal.reason = (IF named # NoDate THEN "MISSING_TIME" ELSE "NOT_UNDERSTOOD")
        /\ refusal.tips = SuggestSlots(t)
    BY <1>4, <2>1
  <2> QED
    BY <1>7, <2>2, <2>3
<1>8. CASE ~text.empty /\ ~text.asap /\ time # NoTime
  <2>1. PICK date \in Nat : date = IF named # NoDate THEN named
                                   ELSE IF assumed # NoDate /\ assumed >= DayOf(t) THEN assumed
                                   ELSE NoDate
    BY <1>2 DEF NoDate
  <2>2. ResolveImplicitDate(time, t) \in Int
    <3>1. DayOf(t) + 1 \in Int
      BY <1>1
    <3>2. NextWorkday(DayOf(t) + 1) \in Int
      BY <3>1, NextWorkdayFound
    <3> QED
      BY <1>1, <3>2 DEF ResolveImplicitDate
  <2>3. PICK day \in Int : day = IF date # NoDate THEN date ELSE ResolveImplicitDate(time, t)
    BY <2>1, <2>2
  <2>4. PICK valid : valid = Validate(day * Day + time, t)
    OBVIOUS
  <2>5. res = [valid EXCEPT !.named = date]
    BY <1>8, <2>1, <2>3, <2>4 DEF Parse
  <2>6. DOMAIN valid = {"at", "reason", "named", "tips"}
    <3>1. time \in 0..Day - 1
      BY <1>3, <1>8
    <3>2. day * Day + time \in Int
      BY <3>1, DayAndTime
    <3> QED
      BY <2>4, <3>2, Validated
  <2>7. res.at = valid.at /\ res.reason = valid.reason /\ res.tips = valid.tips /\ res.named = date
    BY <2>5, <2>6
  <2> QED
    BY <1>8, <2>1, <2>3, <2>4, <2>7
<1> QED
  BY <1>5, <1>6, <1>7, <1>8

\* A time of day is a number, and no time is none.
LEMMA TimeGiven ==
  ASSUME NEW text \in Texts, NEW time, time = ParseTime(text), time # NoTime
  PROVE  time \in 0..Day - 1
BY TimeNamed

\* Told apart only by what is taken or suggested.
LEMMA Judged ==
  ASSUME NEW text \in Texts, NEW t \in Nat, NEW assumed \in Nat, t >= Day,
         NEW res, res = Parse(text, t, assumed)
  PROVE  \/ res.reason \in {"NOT_UNDERSTOOD", "MISSING_TIME"} /\ res.tips = SuggestSlots(t)
         \/ text.asap /\ res.reason = "OK" /\ res.at = NextOpenSlot(t) /\ res.tips = {}
         \/ ~text.asap /\ \E at \in Int : /\ res.at = Validate(at, t).at
                                          /\ res.reason = Validate(at, t).reason
                                          /\ res.tips = Validate(at, t).tips
<1>1. PICK named, time : named = ParseDate(text, DayOf(t)) /\ time = ParseTime(text)
  OBVIOUS
<1> DEFINE Timed(date, day) ==
         /\ date = IF named # NoDate THEN named
                   ELSE IF assumed # NoDate /\ assumed >= DayOf(t) THEN assumed
                   ELSE NoDate
         /\ day = IF date # NoDate THEN date ELSE ResolveImplicitDate(time, t)
         /\ res.at = Validate(day * Day + time, t).at
         /\ res.reason = Validate(day * Day + time, t).reason
         /\ res.tips = Validate(day * Day + time, t).tips
         /\ res.named = date
<1>2. \/ res.reason \in {"NOT_UNDERSTOOD", "MISSING_TIME"} /\ res.tips = SuggestSlots(t)
      \/ text.asap /\ res.reason = "OK" /\ res.at = NextOpenSlot(t) /\ res.tips = {}
      \/ ~text.asap /\ time # NoTime /\ \E date \in Nat, day \in Int : Timed(date, day)
  BY <1>1, ParseFacts
<1>3. ASSUME time # NoTime, NEW date \in Nat, NEW day \in Int, Timed(date, day)
      PROVE  \E at \in Int : /\ res.at = Validate(at, t).at
                             /\ res.reason = Validate(at, t).reason
                             /\ res.tips = Validate(at, t).tips
  <2>1. time \in 0..Day - 1
    BY <1>1, <1>3, TimeGiven
  <2>2. day * Day + time \in Int
    BY <2>1, DayAndTime
  <2> QED
    BY <1>3, <2>2
<1> HIDE DEF Timed
<1> QED
  BY <1>2, <1>3

(***************************************************************************)
(* The question over the attempts of a conversation.                       *)
(***************************************************************************)
\* The date kept is the date spoken of, and what was made of the last answer is what the parser
\* makes of it, given that date.
LastParsed ==
    \/ last = Unasked
    \/ /\ last.text \in Texts /\ last.now \in Clock /\ last.spoken \in Nat
       /\ last.result = Parse(last.text, last.now, last.spoken)

AskInv ==
    /\ now \in Clock
    /\ pendingDate \in Nat /\ spoken = pendingDate
    /\ LastParsed

\* After a refusal the date kept is the one named in the answer, or else the one kept before.
LEMMA RefusalKeepsDate ==
  ASSUME NEW text \in Texts, NEW t \in Nat, NEW assumed \in Nat, t >= Day,
         NEW res, res = Parse(text, t, assumed), res.reason # "OK",
         NEW named, named = ParseDate(text, DayOf(t))
  PROVE  (IF res.named # NoDate THEN res.named ELSE assumed) = (IF named # NoDate THEN named ELSE assumed)
<1>1. PICK time : time = ParseTime(text)
  OBVIOUS
<1>2. text.empty => named = NoDate
  <2>1. DayOf(t) \in Nat \ {0}
    BY DEF DayOf, Day, Minute
  <2> QED
    BY <2>1, DateNamed, TextsAssumption
<1>3. \/ /\ text.empty /\ res.named = NoDate
      \/ res.named = named
      \/ /\ res.named = IF named # NoDate THEN named
                        ELSE IF assumed # NoDate /\ assumed >= DayOf(t) THEN assumed
                        ELSE NoDate
  BY <1>1, ParseFacts
<1> QED
  BY <1>2, <1>3

LEMMA AskInvInductive == Spec => []AskInv
<1>1. Init => AskInv
  BY DEF Init, AskInv, LastParsed, NoDate
<1>2. AskInv /\ [Next]_callbackVars => AskInv'
  <2> SUFFICES ASSUME AskInv, [Next]_callbackVars PROVE AskInv'
    OBVIOUS
  <2>1. now \in Nat /\ now >= Day /\ now \in Clock
    BY HoursAssumption DEF AskInv
  <2>2. ASSUME NEW text \in Texts, Say(text) PROVE AskInv'
    <3>1. PICK t, assumed, res, named :
             /\ t \in Nat /\ assumed \in Nat /\ t = now /\ t >= Day /\ t \in Clock /\ assumed = pendingDate /\ assumed = spoken
             /\ res = Parse(text, t, assumed) /\ named = ParseDate(text, DayOf(t))
      BY <2>1 DEF AskInv
    <3>2. /\ last' = [text |-> text, now |-> t, spoken |-> assumed, result |-> res]
          /\ now' = t
          /\ IF res.reason = "OK"
             THEN pendingDate' = NoDate /\ spoken' = NoDate
             ELSE /\ pendingDate' = IF res.named # NoDate THEN res.named ELSE assumed
                  /\ spoken' = IF named # NoDate THEN named ELSE assumed
      BY <2>2, <3>1 DEF Say
    <3>3. LastParsed'
      BY <3>1, <3>2 DEF LastParsed
    <3>4. DayOf(t) \in Nat \ {0}
      BY <3>1 DEF DayOf, Day, Minute
    <3>5. named \in Nat
      BY <3>1, <3>4, DateNamed
    <3>6. res.reason # "OK" => (IF res.named # NoDate THEN res.named ELSE assumed)
                                 = (IF named # NoDate THEN named ELSE assumed)
      BY <3>1, RefusalKeepsDate
    <3>7. pendingDate' \in Nat /\ spoken' = pendingDate'
      BY <3>1, <3>2, <3>5, <3>6 DEF NoDate
    <3> QED
      BY <3>1, <3>2, <3>3, <3>7 DEF AskInv
  <2>3. CASE Move
    BY <2>3 DEF Move, AskInv, LastParsed, NoDate
  <2>4. CASE Tick
    BY <2>4 DEF Tick, AskInv, LastParsed
  <2>5. CASE UNCHANGED callbackVars
    BY <2>5 DEF callbackVars, AskInv, LastParsed
  <2> QED
    BY <2>2, <2>3, <2>4, <2>5 DEF Next
<1> QED
  BY <1>1, <1>2, PTL DEF Spec

\* What the last answer says, once there is one.
LEMMA LastAnswer ==
  ASSUME AskInv, last # Unasked
  PROVE  \E text, t, assumed, res, named, time :
            /\ text \in Texts /\ t \in Nat /\ assumed \in Nat
            /\ text = last.text /\ t = last.now /\ t >= Day /\ assumed = last.spoken
            /\ res = last.result /\ res = Parse(text, t, assumed)
            /\ named = ParseDate(text, DayOf(t)) /\ time = ParseTime(text)
            /\ DayOf(t) \in Nat \ {0}
<1>1. /\ last.text \in Texts /\ last.now \in Nat /\ last.now >= Day /\ last.spoken \in Nat
      /\ last.result = Parse(last.text, last.now, last.spoken)
  BY HoursAssumption DEF AskInv, LastParsed
<1>2. DayOf(last.now) \in Nat \ {0}
  BY <1>1 DEF DayOf, Day, Minute
<1> QED
  BY <1>1, <1>2

\* Instants, dates and reasons are what they should be, whatever is written and whenever.
THEOREM TypeCorrect == Spec => []TypeOK
<1>1. AskInv => TypeOK
  <2> SUFFICES ASSUME AskInv PROVE TypeOK
    OBVIOUS
  <2>1. CASE last = Unasked
    BY <2>1 DEF AskInv, TypeOK, Unasked, Accepted, Results
  <2>2. CASE last # Unasked
    <3>1. PICK text, t, assumed, res, named, time :
             /\ text \in Texts /\ t \in Nat /\ assumed \in Nat
             /\ text = last.text /\ t = last.now /\ t >= Day /\ assumed = last.spoken
             /\ res = last.result /\ res = Parse(text, t, assumed)
             /\ named = ParseDate(text, DayOf(t)) /\ time = ParseTime(text)
             /\ DayOf(t) \in Nat \ {0}
      BY <2>2, LastAnswer
    <3>2. \/ res.reason \in {"NOT_UNDERSTOOD", "MISSING_TIME", "OK"}
          \/ \E at \in Int : res.reason = Validate(at, t).reason
      BY <3>1, Judged
    <3>3. \A at \in Int : Validate(at, t).reason \in Results
      BY <3>1, Validated
    <3>4. res.reason \in Results
      BY <3>2, <3>3 DEF Results
    <3> QED
      BY <3>1, <3>4 DEF AskInv, TypeOK
  <2> QED
    BY <2>1, <2>2
<1> QED
  BY <1>1, AskInvInductive, PTL

\* With usual hours, every time taken or suggested is one the office can promise: on an open day,
\* in office hours, not too soon and not beyond the horizon.
THEOREM OnlyPromisableTimes ==
  ASSUME UsualHours
  PROVE  Spec => []SlotsBookable
<1>1. AskInv => SlotsBookable
  <2> SUFFICES ASSUME AskInv PROVE SlotsBookable
    OBVIOUS
  <2>1. CASE last = Unasked
    BY <2>1 DEF SlotsBookable, Heard, Unasked, Accepted
  <2>2. CASE last # Unasked
    <3>1. PICK text, t, assumed, res, named, time :
             /\ text \in Texts /\ t \in Nat /\ assumed \in Nat
             /\ text = last.text /\ t = last.now /\ t >= Day /\ assumed = last.spoken
             /\ res = last.result /\ res = Parse(text, t, assumed)
             /\ named = ParseDate(text, DayOf(t)) /\ time = ParseTime(text)
             /\ DayOf(t) \in Nat \ {0}
      BY <2>2, LastAnswer
    <3> SUFFICES /\ res.reason = "OK" => Bookable(res.at, t - IF text.asap THEN Minute - 1 ELSE 0)
                 /\ \A tip \in res.tips : Bookable(tip, t)
      BY <3>1 DEF SlotsBookable, Heard
    <3>2. \A tip \in SuggestSlots(t) : Bookable(tip, t)
      BY <3>1, TipsBookable
    <3>3. CASE res.reason \in {"NOT_UNDERSTOOD", "MISSING_TIME"} /\ res.tips = SuggestSlots(t)
      BY <3>2, <3>3
    <3>4. CASE text.asap /\ res.reason = "OK" /\ res.at = NextOpenSlot(t) /\ res.tips = {}
      <4>1. PICK slot \in Int : slot = NextOpenSlot(t)
        BY <3>1, OpenSlot
      <4>2. PICK day \in Int, clock \in 0..Day - 1 : day = DayOf(slot) /\ slot = day * Day + clock
        BY InstantParts
      <4>3. /\ Workday(day) /\ InHours(TimeOf(slot)) /\ slot >= t + MinLead - (Minute - 1)
            /\ day * Day <= t + MinLead + HalfHour + 7 * Day
        BY <3>1, <4>1, <4>2, OpenSlot
      <4>4. MinLead \in Nat /\ MaxDaysAhead \in Nat
        BY HoursAssumption
      <4>5. slot <= t - (Minute - 1) + MaxDaysAhead * Day
        <5>1. slot <= t + MinLead + HalfHour + 8 * Day - 1
          <6>1. clock <= Day - 1 /\ clock \in Int
            BY DEF Day, Minute
          <6> QED
            BY <3>1, <4>2, <4>3, <4>4, <6>1 DEF HalfHour, Minute, Day
        <5>2. MinLead + HalfHour + 29 * Day <= MaxDaysAhead * Day
          BY DEF UsualHours
        <5> QED
          BY <3>1, <4>4, <5>1, <5>2 DEF Minute, HalfHour, Day
      <4>6. slot >= t - (Minute - 1) + MinLead
        BY <3>1, <4>3, <4>4 DEF Minute
      <4>7. Bookable(slot, t - (Minute - 1))
        BY <4>2, <4>3, <4>5, <4>6 DEF Bookable
      <4> QED
        BY <3>4, <4>1, <4>7
    <3>5. CASE ~text.asap /\ \E at \in Int : /\ res.at = Validate(at, t).at
                                             /\ res.reason = Validate(at, t).reason
                                             /\ res.tips = Validate(at, t).tips
      <4>1. PICK at \in Int : /\ res.at = Validate(at, t).at
                              /\ res.reason = Validate(at, t).reason
                              /\ res.tips = Validate(at, t).tips
        BY <3>5
      <4>2. res.tips \subseteq SuggestSlots(t) /\ (res.reason = "OK" => res.at = at /\ Bookable(at, t))
        BY <3>1, <4>1, Validated
      <4>3. t - 0 = t
        BY <3>1
      <4> QED
        BY <3>2, <3>5, <4>2, <4>3
    <3> QED
      BY <3>1, <3>3, <3>4, <3>5, Judged
  <2> QED
    BY <2>1, <2>2
<1> QED
  BY <1>1, AskInvInductive, PTL

\* "asap" gets the first slot there is.
LEMMA AsapFirst == ASSUME UsualHours, AskInv PROVE AsapIsEarliest
<1> SUFFICES ASSUME Heard({"OK"}), last.text.asap,
                    NEW day \in DayOf(last.now)..DayOf(last.result.at),
                    NEW clock \in {n * HalfHour : n \in 0..47} \cup {Open},
                    day * Day + clock < last.result.at, Bookable(day * Day + clock, last.now)
             PROVE  FALSE
  BY DEF AsapIsEarliest
<1>1. PICK text, t, assumed, res, named, time :
           /\ text \in Texts /\ t \in Nat /\ assumed \in Nat
           /\ text = last.text /\ t = last.now /\ t >= Day /\ assumed = last.spoken
           /\ res = last.result /\ res = Parse(text, t, assumed)
           /\ named = ParseDate(text, DayOf(t)) /\ time = ParseTime(text)
           /\ DayOf(t) \in Nat \ {0}
  BY LastAnswer DEF Heard
<1>2. res.reason = "OK" /\ text.asap
  BY <1>1 DEF Heard
<1>3. res.at = NextOpenSlot(t)
  BY <1>1, <1>2, Judged
<1>4. day \in Int
  OBVIOUS
<1>5. clock \in Nat /\ clock < Day /\ clock % HalfHour = 0
  <2>1. CASE clock = Open
    BY <2>1, HoursAssumption DEF UsualHours, Day, Minute
  <2>2. CASE clock \in {n * HalfHour : n \in 0..47}
    <3>1. PICK n \in 0..47 : clock = n * HalfHour
      BY <2>2
    <3> QED
      BY <3>1 DEF HalfHour, Minute, Day
  <2> QED
    BY <2>1, <2>2
<1>6. Open % HalfHour = 0
  BY DEF UsualHours
<1>7. Bookable(day * Day + clock, t)
  BY <1>1
<1>8. day * Day + clock >= NextOpenSlot(t)
  BY <1>1, <1>4, <1>5, <1>6, <1>7, OpenSlotIsEarliest
<1>9. day * Day + clock \in Int /\ NextOpenSlot(t) \in Int
  BY <1>1, <1>4, <1>5, OpenSlot DEF Day, Minute
<1> QED
  BY <1>1, <1>3, <1>8, <1>9

\* Without a day, a time in office hours is taken for the first day it can be promised.
LEMMA ImplicitDateFirst ==
  ASSUME UsualHours, NEW t \in Nat, t >= Day, NEW time \in 0..Day - 1, InHours(time)
  PROVE  /\ ResolveImplicitDate(time, t) \in Int
         /\ ResolveImplicitDate(time, t) * Day + time >= t
         /\ Bookable(ResolveImplicitDate(time, t) * Day + time, t)
         /\ \A day \in DayOf(t)..ResolveImplicitDate(time, t) - 1 : ~Bookable(day * Day + time, t)
<1>1. /\ MinLead \in Nat /\ MaxDaysAhead \in Nat /\ MinLead <= time /\ time < Day /\ time \in Nat
      /\ MinLead + HalfHour + 29 * Day <= MaxDaysAhead * Day
  BY HoursAssumption DEF UsualHours, InHours, Day, Minute
<1>2. PICK today \in Int, clock \in 0..Day - 1 : today = DayOf(t) /\ t = today * Day + clock
  BY InstantParts
<1>3. clock \in Nat /\ clock < Day
  BY DEF Day, Minute
<1>4. PICK next \in Int : /\ next = NextWorkday(today + 1) /\ Workday(next)
                          /\ next >= today + 1 /\ next <= today + 7
                          /\ \A e \in today + 1..next - 1 : ~Workday(e)
  <2>1. today + 1 \in Int
    OBVIOUS
  <2>2. /\ NextWorkday(today + 1) \in (today + 1)..(today + 1) + 6 /\ Workday(NextWorkday(today + 1))
        /\ \A e \in today + 1..NextWorkday(today + 1) - 1 : ~Workday(e)
    BY <2>1, NextWorkdayFound
  <2> QED
    BY <2>2
<1>5. ASSUME NEW day \in Int, day >= today, day <= today + 7, Workday(day), day * Day + time >= t + MinLead
      PROVE  day * Day + time >= t /\ Bookable(day * Day + time, t)
  <2>1. DayOf(day * Day + time) = day /\ TimeOf(day * Day + time) = time
    BY DayAndTime
  <2>2. day * Day + time <= t + MaxDaysAhead * Day
    <3>1. day * Day <= (today + 7) * Day
      BY <1>5 DEF Day, Minute
    <3> QED
      BY <1>1, <1>2, <1>3, <3>1 DEF Day, HalfHour, Minute
  <2>3. day * Day + time >= t
    BY <1>1, <1>5 DEF Day, Minute
  <2> QED
    BY <1>5, <2>1, <2>2, <2>3 DEF Bookable
<1>6. ASSUME NEW day \in Int, Bookable(day * Day + time, t)
      PROVE  Workday(day) /\ day * Day + time >= t + MinLead
  <2>1. DayOf(day * Day + time) = day
    BY DayAndTime
  <2> QED
    BY <1>6, <2>1 DEF Bookable
<1>7. CASE today * Day + time >= t + MinLead /\ Workday(today)
  <2>1. ResolveImplicitDate(time, t) = today
    BY <1>2, <1>7 DEF ResolveImplicitDate
  <2>2. today * Day + time >= t /\ Bookable(today * Day + time, t)
    BY <1>5, <1>7
  <2> QED
    BY <1>2, <2>1, <2>2
<1>8. CASE ~ (today * Day + time >= t + MinLead /\ Workday(today))
  <2>1. ResolveImplicitDate(time, t) = next
    BY <1>2, <1>4, <1>8 DEF ResolveImplicitDate
  <2>2. next * Day + time >= t /\ Bookable(next * Day + time, t)
    <3>1. next * Day >= (today + 1) * Day
      BY <1>4 DEF Day, Minute
    <3>2. next * Day + time >= t + MinLead
      BY <1>1, <1>2, <1>3, <3>1 DEF Day, Minute
    <3> QED
      BY <1>4, <1>5, <3>2
  <2>3. \A day \in today..next - 1 : ~Bookable(day * Day + time, t)
    <3> SUFFICES ASSUME NEW day \in today..next - 1, Bookable(day * Day + time, t) PROVE FALSE
      OBVIOUS
    <3>1. Workday(day) /\ day * Day + time >= t + MinLead
      BY <1>6
    <3>2. CASE day = today
      BY <1>8, <3>1, <3>2
    <3>3. CASE day # today
      <4>1. day \in today + 1..next - 1
        BY <3>3
      <4> QED
        BY <1>4, <3>1, <4>1
    <3> QED
      BY <3>2, <3>3
  <2> QED
    BY <1>2, <2>1, <2>2, <2>3
<1> QED
  BY <1>7, <1>8

\* A text with a time that names no day and is not "asap", after a day named before or none.
LEMMA UndatedParsed ==
  ASSUME NEW text \in Texts, NEW t \in Nat, NEW assumed \in Nat, t >= Day,
         NEW res, res = Parse(text, t, assumed),
         NEW time, time = ParseTime(text),
         ~text.asap, ParseDate(text, DayOf(t)) = NoDate
  PROVE  \/ (text.empty \/ time = NoTime) /\ res.reason = "NOT_UNDERSTOOD"
         \/ /\ ~text.empty /\ time # NoTime /\ time \in 0..Day - 1
            /\ \E day \in Int :
                  /\ day = IF assumed >= DayOf(t) THEN assumed ELSE ResolveImplicitDate(time, t)
                  /\ res.at = Validate(day * Day + time, t).at
                  /\ res.reason = Validate(day * Day + time, t).reason
                  /\ assumed >= DayOf(t) => res.named = assumed
<1>1. DayOf(t) \in Nat \ {0}
  BY DEF DayOf, Day, Minute
<1>2. PICK named : named = ParseDate(text, DayOf(t)) /\ named = NoDate
  OBVIOUS
<1> DEFINE Timed(date, day) ==
         /\ date = IF named # NoDate THEN named
                   ELSE IF assumed # NoDate /\ assumed >= DayOf(t) THEN assumed
                   ELSE NoDate
         /\ day = IF date # NoDate THEN date ELSE ResolveImplicitDate(time, t)
         /\ res.at = Validate(day * Day + time, t).at
         /\ res.reason = Validate(day * Day + time, t).reason
         /\ res.tips = Validate(day * Day + time, t).tips
         /\ res.named = date
<1>3. \/ text.empty /\ res.reason = "NOT_UNDERSTOOD"
      \/ ~text.empty /\ time = NoTime /\ res.reason = "NOT_UNDERSTOOD"
      \/ ~text.empty /\ time # NoTime /\ \E date \in Nat, day \in Int : Timed(date, day)
  BY <1>2, ParseFacts, SMTT(30)
<1>4. ASSUME NEW date \in Nat, NEW day \in Int, Timed(date, day)
      PROVE  /\ day = IF assumed >= DayOf(t) THEN assumed ELSE ResolveImplicitDate(time, t)
             /\ res.at = Validate(day * Day + time, t).at
             /\ res.reason = Validate(day * Day + time, t).reason
             /\ assumed >= DayOf(t) => res.named = assumed
  <2>1. date = IF assumed >= DayOf(t) THEN assumed ELSE NoDate
    BY <1>1, <1>2, <1>4 DEF NoDate
  <2> QED
    BY <1>1, <1>4, <2>1 DEF NoDate
<1>5. time # NoTime => time \in 0..Day - 1
  BY TimeGiven
<1> HIDE DEF Timed
<1> QED
  BY <1>3, <1>4, <1>5

LEMMA TimeOnlyFirst == ASSUME UsualHours, AskInv PROVE TimeOnlyIsSoonest
<1> SUFFICES ASSUME last # Unasked, ~last.text.empty, ~last.text.asap,
                    ParseDate(last.text, DayOf(last.now)) = NoDate,
                    last.spoken < DayOf(last.now),
                    ParseTime(last.text) # NoTime, InHours(ParseTime(last.text))
             PROVE  /\ last.result.reason = "OK"
                    /\ TimeOf(last.result.at) = ParseTime(last.text)
                    /\ \A day \in DayOf(last.now)..DayOf(last.result.at) - 1 :
                          ~Bookable(day * Day + ParseTime(last.text), last.now)
  BY DEF TimeOnlyIsSoonest
<1>1. PICK text, t, assumed, res, named, time :
           /\ text \in Texts /\ t \in Nat /\ assumed \in Nat
           /\ text = last.text /\ t = last.now /\ t >= Day /\ assumed = last.spoken
           /\ res = last.result /\ res = Parse(text, t, assumed)
           /\ named = ParseDate(text, DayOf(t)) /\ time = ParseTime(text)
           /\ DayOf(t) \in Nat \ {0}
  BY LastAnswer
<1>2. /\ ~text.empty /\ ~text.asap /\ ParseDate(text, DayOf(t)) = NoDate
      /\ ~ (assumed >= DayOf(t)) /\ time # NoTime /\ InHours(time)
  BY <1>1
<1>3. time \in 0..Day - 1
  BY <1>1, <1>2, TimeGiven
<1>4. PICK day \in Int : /\ day = ResolveImplicitDate(time, t)
                         /\ res.at = Validate(day * Day + time, t).at
                         /\ res.reason = Validate(day * Day + time, t).reason
  BY <1>1, <1>2, UndatedParsed
<1>5. /\ day * Day + time >= t /\ Bookable(day * Day + time, t)
      /\ \A e \in DayOf(t)..day - 1 : ~Bookable(e * Day + time, t)
  BY <1>1, <1>2, <1>3, <1>4, ImplicitDateFirst
<1>6. /\ day * Day + time \in Int
      /\ DayOf(day * Day + time) = day /\ TimeOf(day * Day + time) = time
  BY <1>3, DayAndTime
<1>7. res.reason = "OK" /\ res.at = day * Day + time
  BY <1>1, <1>4, <1>5, <1>6, Validated
<1> QED
  BY <1>1, <1>5, <1>6, <1>7

LEMMA DateIsKept == ASSUME AskInv PROVE DateKept
<1> SUFFICES ASSUME Heard({"OK", "CLOSED_DAY", "OUTSIDE_HOURS"}), ~last.text.asap,
                    last.spoken >= DayOf(last.now),
                    ParseDate(last.text, DayOf(last.now)) = NoDate
             PROVE  IF last.result.reason = "OK" THEN DayOf(last.result.at) = last.spoken
                    ELSE last.result.named = last.spoken
  BY DEF DateKept
<1>1. PICK text, t, assumed, res, named, time :
           /\ text \in Texts /\ t \in Nat /\ assumed \in Nat
           /\ text = last.text /\ t = last.now /\ t >= Day /\ assumed = last.spoken
           /\ res = last.result /\ res = Parse(text, t, assumed)
           /\ named = ParseDate(text, DayOf(t)) /\ time = ParseTime(text)
           /\ DayOf(t) \in Nat \ {0}
  BY LastAnswer DEF Heard
<1>2. /\ ~text.asap /\ ParseDate(text, DayOf(t)) = NoDate /\ assumed >= DayOf(t)
      /\ res.reason # "NOT_UNDERSTOOD"
  BY <1>1 DEF Heard
<1>3. /\ time \in 0..Day - 1 /\ assumed \in Int
      /\ res.at = Validate(assumed * Day + time, t).at
      /\ res.reason = Validate(assumed * Day + time, t).reason
      /\ res.named = assumed
  BY <1>1, <1>2, UndatedParsed
<1>4. assumed * Day + time \in Int /\ DayOf(assumed * Day + time) = assumed
  BY <1>3, DayAndTime
<1>5. res.reason = "OK" => res.at = assumed * Day + time
  BY <1>1, <1>3, <1>4, Validated
<1> QED
  BY <1>1, <1>3, <1>4, <1>5

\* With usual hours, a text without a day is taken for what the customer can only mean: "asap" for
\* the first slot the office can promise, a time for the first day it can be promised, and after a
\* day named before and refused for that day, however many refusals lie between.
THEOREM UndatedTextsAreTakenRight ==
  ASSUME UsualHours
  PROVE  Spec => []UndatedTime
<1>1. AskInv => UndatedTime
  BY AsapFirst, TimeOnlyFirst, DateIsKept DEF UndatedTime
<1> QED
  BY <1>1, AskInvInductive, PTL
=============================================================================
