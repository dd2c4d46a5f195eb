------------------------------- MODULE Dates --------------------------------
(* class Date of date/date.cpp.  A date is [year, month, day], with the      *)
(* months from 0 on.                                                         *)
EXTENDS Integers, SequencesExt

CONSTANT NoReturn     \* operator - calls itself for ever

ASSUME NoReturnAssumption == NoReturn \notin Int

\* year_ is a uint16_t; IsValid checks nothing, so that any month has 31 days.
LastYear == 65535
AnyDate == [year : 0..LastYear, month : 0..11, day : 1..31]

kDaysInMonth == <<31, 28, 31, 30, 31, 30, 31, 31, 30, 31, 30, 31>>

\* Variant of CheckLeapYear: centuries are leap years.
EveryFourthYear(year) == year % 4 = 0

CheckLeapYear(year) == year % 400 = 0 \/ (year % 100 # 0 /\ year % 4 = 0)

DaysInYear(year) == IF CheckLeapYear(year) THEN 366 ELSE 365

DaysInMonth(date, month) ==
  kDaysInMonth[month + 1] + IF month = 1 /\ CheckLeapYear(date.year) THEN 1 ELSE 0

ElapsedDays(date) ==
  FoldLeft(LAMBDA days, m : days + DaysInMonth(date, m - 1), date.day, [m \in 1..date.month |-> m])

RemainingDays(date) == DaysInYear(date.year) - ElapsedDays(date)

\* operator >: the month counts even when the years differ, and the day even
\* when the months do.
Later(a, b) == a.year > b.year \/ a.month > b.month \/ a.day > b.day

\* The end of operator -, with the earlier year first: the days of the years
\* between, the rest of the first and the beginning of the last.
MinusLaterYear(a, b) ==
  -(FoldLeft(LAMBDA days, y : days + DaysInYear(a.year + y), 0, [y \in 1..(b.year - a.year - 1) |-> y])
      + RemainingDays(a) + ElapsedDays(b))

\* operator -: with a > b it is called the other way round, and when b > a is
\* true as well, round again.
Minus(a, b) ==
  IF a = b THEN 0
  ELSE IF a.year = b.year THEN ElapsedDays(a) - ElapsedDays(b)
  ELSE IF ~Later(a, b) THEN MinusLaterYear(a, b)
  ELSE IF ~Later(b, a) THEN -MinusLaterYear(b, a)
  ELSE NoReturn
-----------------------------------------------------------------------------
(* What a difference is meant to be *)

\* The days from the beginning of the year 1, by the count of leap years.
LeapYearsUpTo(year) == year \div 4 - year \div 100 + year \div 400
DayNumber(date) ==
  LET before == date.year - 1
      leap == LeapYearsUpTo(date.year) - LeapYearsUpTo(before)
  IN 365 * before + LeapYearsUpTo(before) + date.day
       + <<0, 31, 59, 90, 120, 151, 181, 212, 243, 273, 304, 334>>[date.month + 1]
       + IF date.month > 1 THEN leap ELSE 0

\* Whenever a difference comes back it is the days from one date to the other,
\* over months and leap years; and it comes back unless each date counts as
\* later than the other.
IsDifference(a, b) ==
  IF Minus(a, b) = NoReturn THEN a.year # b.year /\ Later(a, b) /\ Later(b, a)
                            ELSE Minus(a, b) = DayNumber(a) - DayNumber(b)
=============================================================================
