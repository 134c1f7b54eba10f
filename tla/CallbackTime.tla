---------------------------- MODULE CallbackTime ----------------------------
(***************************************************************************)
(* When the office calls back: CallbackTimeValidator of                    *)
(* app/services/scheduling/callback_time.py, and the question of           *)
(* handle_ask_callback_time that keeps the date of a refused answer.       *)
(*                                                                         *)
(* A text is the set of dates and the set of times the expressions of the  *)
(* parser find in it; the parser's order decides between them.  Instants   *)
(* are counted in half minutes, so that seconds, which the rounding drops, *)
(* are there; days are Python's ordinals.                                  *)
(***************************************************************************)
EXTENDS Integers, Sequences, FiniteSetsExt, SequencesExt

Minute == 2
HalfHour == 30 * Minute
Day == 1440 * Minute
At(h, m) == (60 * h + m) * Minute

CONSTANTS Open, Close,     \* office hours, as times of day
          ClosedDays,      \* weekdays without calls, Monday = 0
          MinLead,         \* shortest notice
          MaxDaysAhead,    \* the horizon
          Texts,           \* what customers write
          Clock            \* the instants they write at

ASSUME HoursAssumption ==
    /\ Open \in 0..Day - 1 /\ Close \in 0..Day - 1 /\ Open <= Close
    /\ ClosedDays \subseteq 0..6 /\ ClosedDays # 0..6
    /\ MinLead \in Nat /\ MaxDaysAhead \in Nat
    /\ Clock \subseteq {t \in Nat : t >= Day}

-----------------------------------------------------------------------------
(* The calendar. *)

Leap(y) == y % 4 = 0 /\ (y % 100 # 0 \/ y % 400 = 0)
MonthDays(y, m) == IF m = 2 THEN (IF Leap(y) THEN 29 ELSE 28)
                   ELSE IF m \in {4, 6, 9, 11} THEN 30 ELSE 31
DaysBefore == <<0, 31, 59, 90, 120, 151, 181, 212, 243, 273, 304, 334>>
NoDate == 0
Date(y, m, d) ==
    IF m \in 1..12 /\ d \in 1..MonthDays(y, m)
    THEN 365 * (y - 1) + (y - 1) \div 4 - (y - 1) \div 100 + (y - 1) \div 400
         + DaysBefore[m] + (IF m > 2 /\ Leap(y) THEN 1 ELSE 0) + d
    ELSE NoDate
YearOf(day) == CHOOSE y \in (day - 1) \div 366 + 1..day \div 365 + 1 :
                   Date(y, 1, 1) <= day /\ day <= Date(y, 12, 31)
Weekday(day) == (day + 6) % 7
DayOf(t) == t \div Day
TimeOf(t) == t % Day
Workday(day) == Weekday(day) \notin ClosedDays
NextWorkday(day) == CHOOSE d \in day..day + 6 : Workday(d) /\ \A e \in day..d - 1 : ~Workday(e)

-----------------------------------------------------------------------------
(* The date a text names.  force_next changes nothing: every delta it      *)
(* could change is already the coming week's.                              *)

NextWeekday(today, day) ==
    LET delta == (day - Weekday(today)) % 7
    IN  today + (IF delta = 0 THEN 7 ELSE delta)

\* Without a year, a day that is over means next year's.
Yearless(m, d, today) ==
    LET this == Date(YearOf(today), m, d)
    IN  IF this # NoDate /\ this < today THEN Date(YearOf(today) + 1, m, d) ELSE this

FromNumericDate(f, today) ==
    IF f.y = 0 THEN Yearless(f.m, f.d, today)
    ELSE Date(IF f.y < 100 THEN f.y + 2000 ELSE f.y, f.m, f.d)

DateForms == <<"day after tomorrow", "tomorrow", "today", "numeric", "named", "weekday">>
Resolve(f, today) ==
    IF f.form = "day after tomorrow" THEN today + 2
    ELSE IF f.form = "tomorrow" THEN today + 1
    ELSE IF f.form = "today" THEN today
    ELSE IF f.form = "numeric" THEN FromNumericDate(f, today)
    ELSE IF f.form = "named" THEN Yearless(f.m, f.d, today)
    ELSE NextWeekday(today, f.d)

Rank(order, f) == CHOOSE i \in 1..Len(order) : order[i] = f.form
First(order, forms) == CHOOSE f \in forms : \A g \in forms : Rank(order, f) <= Rank(order, g)

\* A form that is no real day leaves the text to the next one.
ParseDate(text, today) ==
    LET real == {f \in text.dates : Resolve(f, today) # NoDate}
    IN  IF real = {} THEN NoDate ELSE Resolve(First(DateForms, real), today)

-----------------------------------------------------------------------------
(* The time a text names. *)

NoTime == -1
WordTime == [morning |-> At(11, 30), noon |-> At(12, 0), midday |-> At(12, 0), lunch |-> At(13, 0),
             afternoon |-> At(14, 0), evening |-> At(17, 30), night |-> At(18, 30)]
\* Words are looked for inside words, in this order.
TimeForms == <<"clock", "meridiem", "oclock",
               "morning", "noon", "midday", "lunch", "afternoon", "evening", "night",
               "bare", "lone">>

ApplyMeridiem(h, mer) ==
    IF mer = "pm" /\ h < 12 THEN h + 12 ELSE IF mer = "am" /\ h = 12 THEN 0 ELSE h

Hour(h) == IF h \in 0..23 THEN At(h, 0) ELSE NoTime
InHours(time) == Open <= time /\ time <= Close

\* "at 4": the reading the office is open at, else as it stands.
DisambiguateHour(h) ==
    LET readings == IF h > 12 THEN <<h>> ELSE <<h, h + 12>>
        good == {i \in 1..Len(readings) : readings[i] <= 23 /\ InHours(At(readings[i], 0))}
    IN  IF good = {} \/ h \notin 0..23 THEN Hour(h) ELSE Hour(readings[Min(good)])

ParseTime(text) ==
    IF text.times = {} THEN NoTime
    ELSE LET f == First(TimeForms, text.times)
         IN  IF f.form = "clock"
             THEN LET h == ApplyMeridiem(f.h, f.mer)
                  IN  IF f.mi <= 59 /\ h \in 0..23 THEN At(h, f.mi) ELSE NoTime
             ELSE IF f.form = "meridiem" THEN Hour(ApplyMeridiem(f.h, f.mer))
             ELSE IF f.form \in {"oclock", "bare", "lone"} THEN DisambiguateHour(f.h)
             ELSE WordTime[f.form]

\* What the expressions find: forms with the numbers in them, and nothing in nothing.
ASSUME TextsAssumption ==
    \A text \in Texts :
        /\ \A f \in text.dates : f.form \in ToSet(DateForms) /\ f.d \in Nat /\ f.m \in Nat /\ f.y \in Nat
        /\ \A f \in text.times : f.form \in ToSet(TimeForms) /\ f.h \in Nat /\ f.mi \in Nat
        /\ text.empty => text.dates = {}

-----------------------------------------------------------------------------
(* Slots. *)

\* Seconds are dropped, not rounded up.
RoundUpHalfHour(t) ==
    LET whole == t - (t % Minute)
    IN  IF whole % HalfHour = 0 THEN whole ELSE whole - (whole % HalfHour) + HalfHour

NextOpenSlot(now) ==
    LET cursor == RoundUpHalfHour(now + MinLead)
        day == DayOf(cursor)
    IN  IF ~Workday(day) \/ TimeOf(cursor) > Close THEN NextWorkday(day + 1) * Day + Open
        ELSE IF TimeOf(cursor) < Open THEN day * Day + Open
        ELSE cursor

Preferred == <<At(11, 30), At(14, 0), At(17, 0)>>
\* The first preferred time still free, on each of the next three days that have one.
SuggestSlots(now) ==
    LET free(day) == {t \in {day * Day + Preferred[i] : i \in 1..Len(Preferred)} : t >= now + MinLead}
        first == NextWorkday(DayOf(NextOpenSlot(now)))
        one == IF free(first) # {} THEN first ELSE NextWorkday(first + 1)
        two == NextWorkday(one + 1)
        three == NextWorkday(two + 1)
    IN  {Min(free(one)), Min(free(two)), Min(free(three))}

Accepted(at) == [at |-> at, reason |-> "OK", named |-> NoDate, tips |-> {}]
Reject(reason, now) ==
    [at |-> NoTime, reason |-> reason, named |-> NoDate, tips |-> SuggestSlots(now)]

\* Mutant: the notice is not looked at.
ValidateHasty(at, now) ==
    IF at < now THEN Reject("IN_PAST", now)
    ELSE IF at > now + MaxDaysAhead * Day THEN Reject("TOO_FAR", now)
    ELSE IF ~Workday(DayOf(at)) THEN Reject("CLOSED_DAY", now)
    ELSE IF ~InHours(TimeOf(at)) THEN Reject("OUTSIDE_HOURS", now)
    ELSE Accepted(at)

Validate(at, now) ==
    IF at < now THEN Reject("IN_PAST", now)
    ELSE IF at < now + MinLead THEN Reject("TOO_SOON", now)
    ELSE IF at > now + MaxDaysAhead * Day THEN Reject("TOO_FAR", now)
    ELSE IF ~Workday(DayOf(at)) THEN Reject("CLOSED_DAY", now)
    ELSE IF ~InHours(TimeOf(at)) THEN Reject("OUTSIDE_HOURS", now)
    ELSE Accepted(at)

ResolveImplicitDate(time, now) ==
    LET today == DayOf(now)
    IN  IF today * Day + time >= now + MinLead /\ Workday(today) /\ InHours(time)
        THEN today ELSE NextWorkday(today + 1)

\* Mutant: only an answer without a time leaves its date behind.
ParseForgetful(text, now, assumed) ==
    LET named == ParseDate(text, DayOf(now))
        time == ParseTime(text)
        date == IF named # NoDate THEN named
                ELSE IF assumed # NoDate /\ assumed >= DayOf(now) THEN assumed
                ELSE NoDate
        day == IF date # NoDate THEN date ELSE ResolveImplicitDate(time, now)
    IN  IF text.empty THEN Reject("NOT_UNDERSTOOD", now)
        ELSE IF text.asap THEN Accepted(NextOpenSlot(now))
        ELSE IF time = NoTime
        THEN [Reject(IF named # NoDate THEN "MISSING_TIME" ELSE "NOT_UNDERSTOOD", now)
                EXCEPT !.named = named]
        ELSE Validate(day * Day + time, now)

Parse(text, now, assumed) ==
    LET named == ParseDate(text, DayOf(now))
        time == ParseTime(text)
        date == IF named # NoDate THEN named
                ELSE IF assumed # NoDate /\ assumed >= DayOf(now) THEN assumed
                ELSE NoDate
        day == IF date # NoDate THEN date ELSE ResolveImplicitDate(time, now)
    IN  IF text.empty THEN Reject("NOT_UNDERSTOOD", now)
        ELSE IF text.asap THEN Accepted(NextOpenSlot(now))
        ELSE IF time = NoTime
        THEN [Reject(IF named # NoDate THEN "MISSING_TIME" ELSE "NOT_UNDERSTOOD", now)
                EXCEPT !.named = named]
        ELSE [Validate(day * Day + time, now) EXCEPT !.named = date]

-----------------------------------------------------------------------------
(* The question, over the attempts of one conversation.  The form around   *)
(* it, which carries the time taken to the booking, is BotFlow's.          *)

VARIABLES
    now,
    pendingDate,  \* CTX_PENDING_DATE
    spoken,       \* history: the date last named and not settled yet
    last          \* history: the answer just taken, when it came and what was made of it

callbackVars == <<now, pendingDate, spoken, last>>

Unasked == [text |-> [empty |-> TRUE], now |-> 0, spoken |-> NoDate, result |-> Accepted(NoTime)]

Init ==
    /\ now \in Clock
    /\ pendingDate = NoDate /\ spoken = NoDate
    /\ last = Unasked

\* handle_ask_callback_time: a time taken settles the question, a refusal keeps the date.
Say(text) ==
    LET result == Parse(text, now, pendingDate)
        named == ParseDate(text, DayOf(now))
    IN  /\ last' = [text |-> text, now |-> now, spoken |-> spoken, result |-> result]
        /\ IF result.reason = "OK"
           THEN pendingDate' = NoDate /\ spoken' = NoDate
           ELSE /\ pendingDate' = IF result.named # NoDate THEN result.named ELSE pendingDate
                /\ spoken' = IF named # NoDate THEN named ELSE spoken
        /\ UNCHANGED now

\* _ask_for_the_new_time: a booking is moved, from scratch.
Move ==
    /\ pendingDate # NoDate
    /\ pendingDate' = NoDate /\ spoken' = NoDate
    /\ last' = Unasked
    /\ UNCHANGED now

Tick ==
    /\ now' \in {t \in Clock : t > now}
    /\ last' = Unasked
    /\ UNCHANGED <<pendingDate, spoken>>

Next ==
    \/ \E text \in Texts : Say(text)
    \/ Move
    \/ Tick

Spec == Init /\ [][Next]_callbackVars

-----------------------------------------------------------------------------
(* Properties. *)

Results == {"OK", "NOT_UNDERSTOOD", "MISSING_TIME", "IN_PAST", "TOO_SOON", "TOO_FAR",
            "CLOSED_DAY", "OUTSIDE_HOURS"}

\* Instants, dates and reasons are what they should be.
TypeOK ==
    /\ now \in Clock
    /\ pendingDate \in Nat /\ spoken \in Nat
    /\ last.result.reason \in Results

\* What the office can promise at an instant: open, not too soon, not too far.
Bookable(at, from) ==
    /\ Workday(DayOf(at)) /\ InHours(TimeOf(at))
    /\ at >= from + MinLead
    /\ at <= from + MaxDaysAhead * Day

Heard(reasons) == last # Unasked /\ last.result.reason \in reasons

\* Every time taken, and every time suggested after a refusal, is one the office can promise
\* when it is taken or suggested; "asap" may be up to a minute early, its seconds being dropped.
SlotsBookable ==
    /\ Heard({"OK"}) => Bookable(last.result.at, last.now - IF last.text.asap THEN Minute - 1 ELSE 0)
    /\ \A tip \in last.result.tips : Bookable(tip, last.now)

\* 1. "asap" gets the first half hour or opening time the office can promise, not a later one.
AsapIsEarliest ==
    Heard({"OK"}) /\ last.text.asap =>
        \A day \in DayOf(last.now)..DayOf(last.result.at) :
            \A time \in {n * HalfHour : n \in 0..47} \cup {Open} :
                day * Day + time < last.result.at => ~Bookable(day * Day + time, last.now)

\* 2. A time in office hours without a day, and no day to go on with, is always taken, on the
\* first day it can be promised.
TimeOnlyIsSoonest ==
    LET time == ParseTime(last.text)
        today == DayOf(last.now)
    IN  (/\ last # Unasked /\ ~last.text.empty /\ ~last.text.asap
         /\ ParseDate(last.text, today) = NoDate
         /\ last.spoken < today
         /\ time # NoTime /\ InHours(time))
        => /\ last.result.reason = "OK"
           /\ TimeOf(last.result.at) = time
           /\ \A day \in today..DayOf(last.result.at) - 1 : ~Bookable(day * Day + time, last.now)

\* 3. "10 August at 4:30 am" and then "4:30 pm": the second answer is about the day named in the
\* first, however many refusals lie between, unless that day is over.
DateKept ==
    LET today == DayOf(last.now)
    IN  (/\ Heard({"OK", "CLOSED_DAY", "OUTSIDE_HOURS"}) /\ ~last.text.asap
         /\ last.spoken >= today
         /\ ParseDate(last.text, today) = NoDate)
        => IF last.result.reason = "OK" THEN DayOf(last.result.at) = last.spoken
           ELSE last.result.named = last.spoken

\* What a text without a day is taken for: as soon as can be, or the day the customer has named
\* before (1 to 3 above).
UndatedTime == AsapIsEarliest /\ TimeOnlyIsSoonest /\ DateKept
=============================================================================
