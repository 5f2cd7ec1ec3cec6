------------------------------- MODULE Datetime -------------------------------
(***************************************************************************)
(* Dates (datetime.rs): the rounding of NumericDates and the conversion of  *)
(* civil dates to Unix seconds.  A NumericDate is a number of half seconds, *)
(* so that its fraction decides a rounding; a tdate is its fields.          *)
(***************************************************************************)
EXTENDS DecodedValues, Sequences, FiniteSets

RoundSeconds(half, rounding) ==
  IF rounding = "Up" THEN -((-half) \div 2) ELSE half \div 2

\* round_numeric_date_seconds: Garbage for what no i64 holds.
RoundNumericDate(half, rounding) ==
  LET s == RoundSeconds(half, rounding)
  IN  IF s \in (-MaxI64 - 1)..MaxI64 THEN s ELSE Garbage

\* An optional NumericDate: Absent, Garbage or seconds.
NumericDate(claim, rounding) ==
  IF IsValue(claim) THEN RoundNumericDate(claim, rounding) ELSE claim

IsLeapYear(year) == year % 4 = 0 /\ (year % 100 # 0 \/ year % 400 = 0)
DaysInMonth(year, month) ==
  CASE month \in {1, 3, 5, 7, 8, 10, 12} -> 31
    [] month \in {4, 6, 9, 11} -> 30
    [] month = 2 -> IF IsLeapYear(year) THEN 29 ELSE 28

\* The days since 1970-01-01, in eras of 400 years that begin in March.
DaysFromCivil(year, month, day) ==
  LET y   == IF month <= 2 THEN year - 1 ELSE year
      era == y \div 400
      yoe == y - era * 400
      doy == (153 * (IF month > 2 THEN month - 3 ELSE month + 9) + 2) \div 5 + day - 1
      doe == yoe * 365 + yoe \div 4 - yoe \div 100 + doy
  IN  era * 146097 + doe - 719468

\* A leap second is second 60.
IsCivil(d) == /\ d.month \in 1..12 /\ d.hour \in 0..23 /\ d.minute \in 0..59 /\ d.second \in 0..60
              /\ d.day \in 1..DaysInMonth(d.year, d.month)

\* parse_rfc3339_utc of a text whose fields have their widths; a fraction of the second is dropped.
ParseRfc3339(d) ==
  IF ~IsValue(d) \/ ~IsCivil(d) THEN Garbage
  ELSE DaysFromCivil(d.year, d.month, d.day) * 86400 + d.hour * 3600 + d.minute * 60 + d.second

(* Reference: days counted year by year, forward or back, and month by month. *)
YearDays(from, to) == 365 * (to - from) + Cardinality({y \in from..(to - 1) : IsLeapYear(y)})
CountedDays(year, month, day) ==
  LET Months[m \in 1..month] == IF m = 1 THEN 0 ELSE Months[m - 1] + DaysInMonth(year, m - 1)
      NewYear == IF year >= 1970 THEN YearDays(1970, year) ELSE -YearDays(year, 1970)
  IN  NewYear + Months[month] + day - 1
==============================================================================
