------------------------------- MODULE DateText -------------------------------
(***************************************************************************)
(* models/date_value.py: strict parsing of YYYY-MM-DD.  A date is the      *)
(* triple <<year, month, day>>; the calendar is that of datetime.date.     *)
(***************************************************************************)
EXTENDS MoneyText

Leap(year) == year % 4 = 0 /\ (year % 100 = 0 => year % 400 = 0)

DaysInMonth(year, month) ==
  IF month = 2 THEN (IF Leap(year) THEN 29 ELSE 28)
  ELSE IF month \in {4, 6, 9, 11} THEN 30
  ELSE 31

\* datetime.date(year, month, day) exists
RealDate(d) == d[1] \in 1..9999 /\ d[2] \in 1..12 /\ d[3] \in 1..DaysInMonth(d[1], d[2])

DigitPositions == (1..10) \ {5, 8}

\* Fault: the length is not looked at (DateIsAsWritten).
ShapeOfAnyLength(s) ==
  /\ Len(s) >= 10 /\ s[5] = "-" /\ s[8] = "-"
  /\ \A k \in DigitPositions : IsDigit(s[k])

\* The tests on the text: where the hyphens are, and isdigit() of the rest.
HasDateShape(s) ==
  /\ Len(s) = 10 /\ s[5] = "-" /\ s[8] = "-"
  /\ \A k \in DigitPositions : IsDigit(s[k])

\* int() raises a plain ValueError, which is not a DateParseError.
DateRaises(s) == HasDateShape(s) /\ \E k \in DigitPositions : ~IsDecimal(s[k])

DateParts(s) == <<NumberAt(s, 1, 4), NumberAt(s, 6, 7), NumberAt(s, 9, 10)>>

\* Date.parse returns DateParts(s); otherwise it raises DateParseError.
DateParses(s) == HasDateShape(s) /\ ~DateRaises(s) /\ RealDate(DateParts(s))

\* date.isoformat
DateToString(d) == Digits(d[1], 4) \o <<"-">> \o Digits(d[2], 2) \o <<"-">> \o Digits(d[3], 2)
=============================================================================
