------------------------------ MODULE MoneyText ------------------------------
(***************************************************************************)
(* models/money.py: reading a decimal text into cents and writing cents as *)
(* a decimal text; and the digits of Python's str that both this and       *)
(* models/date_value.py rely on.                                           *)
(*                                                                         *)
(* Two digits outside 0-9 stand for their kinds: "sup2", a superscript two *)
(* (U+00B2, a digit to isdigit() and none to int()), and "arabic2", an     *)
(* Arabic-Indic two (U+0662, a digit to both).                             *)
(***************************************************************************)
EXTENDS Integers, Sequences, SequencesExt

AsciiDigits == <<"0", "1", "2", "3", "4", "5", "6", "7", "8", "9">>

IsAscii(c) == Contains(AsciiDigits, c)

\* str.isdigit of one character
IsDigit(c) == IsAscii(c) \/ c \in {"sup2", "arabic2"}

\* What int() accepts, and the number it takes it for.
IsDecimal(c) == IsAscii(c) \/ c = "arabic2"

AsciiValue(c) == CHOOSE n \in 0..9 : AsciiDigits[n + 1] = c

DecimalValue(c) == IF c = "arabic2" THEN 2 ELSE AsciiValue(c)

\* ord(c) - ord("0")
OrdMinusZero(c) ==
  IF c = "sup2" THEN 178 - 48 ELSE IF c = "arabic2" THEN 1634 - 48 ELSE AsciiValue(c)

\* n without its last k digits
Leading(n, k) ==
  LET Rest[j \in 0..k] == IF j = 0 THEN n ELSE Rest[j - 1] \div 10 IN Rest[k]

\* n in as many digits.
Digits(n, width) == [k \in 1..width |-> AsciiDigits[(Leading(n, width - k) % 10) + 1]]

\* str(n), for n >= 0
Decimal(n) ==
  Digits(n, CHOOSE w \in 1..(n + 1) : Leading(n, w) = 0 /\ (w > 1 => Leading(n, w - 1) # 0))

-----------------------------------------------------------------------------
(* from_decimal_string *)

\* The locals of the loop; malformed is where it raises ValueError.
StartOfLoop ==
  [malformed |-> FALSE, whole_part |-> 0, frac_part |-> 0,
   saw_digit |-> FALSE, saw_dot |-> FALSE, frac_digits |-> 0]

\* One character, neither of the first two branches having raised.
TakeDigit(m, digit) ==
  IF ~m.saw_dot
  THEN [m EXCEPT !.saw_digit = TRUE, !.whole_part = 10 * m.whole_part + digit]
  ELSE IF m.frac_digits < 2
  THEN [m EXCEPT !.saw_digit = TRUE, !.frac_part = 10 * m.frac_part + digit,
                 !.frac_digits = m.frac_digits + 1]
  ELSE [m EXCEPT !.saw_digit = TRUE]

Read(m, c) ==
  IF c = "." THEN [m EXCEPT !.saw_dot = TRUE, !.malformed = m.malformed \/ m.saw_dot]
  ELSE IF ~IsDigit(c) THEN [m EXCEPT !.malformed = TRUE]
  ELSE TakeDigit(m, OrdMinusZero(c))

Unsigned(s) == IF s # <<>> /\ s[1] \in {"-", "+"} THEN Tail(s) ELSE s

EndOfLoop(s) == FoldLeft(Read, StartOfLoop, Unsigned(s))

\* from_decimal_string returns
MoneyParses(s) == ~EndOfLoop(s).malformed /\ EndOfLoop(s).saw_digit

\* Fault: one decimal place is taken for cents (AmountIsAsWritten).
CentsUnscaled(m) == m.whole_part * 100 + m.frac_part

\* The second loop scales a fraction of fewer than two digits.
CentsOfParts(m) == m.whole_part * 100 + m.frac_part * 10 ^ (2 - m.frac_digits)

\* ... the number of cents it returns
FromDecimalString(s) ==
  LET cents == CentsOfParts(EndOfLoop(s)) IN IF s[1] = "-" THEN -cents ELSE cents

\* Money.to_string
MoneyToString(cents) ==
  LET c == IF cents < 0 THEN -cents ELSE cents
  IN (IF cents < 0 THEN <<"-">> ELSE <<>>) \o Decimal(c \div 100) \o <<".">> \o Digits(c % 100, 2)

-----------------------------------------------------------------------------
(* What a decimal text denotes, without a loop. *)

\* The number the digits at positions S of s make up; every position after
\* the last one in S is a power of ten less.
NumberAt(s, lo, hi) ==
  LET Upto[k \in (lo - 1)..hi] ==
        IF k < lo THEN 0 ELSE 10 * Upto[k - 1] + DecimalValue(s[k])
  IN IF hi < lo THEN 0 ELSE Upto[hi]

\* An optional sign, digits with at most one point among them, at least one
\* digit: the texts that denote a number.
IsNumber(s) ==
  LET u == Unsigned(s) IN
  /\ \A k \in DOMAIN u : u[k] = "." \/ IsDecimal(u[k])
  /\ \E k \in DOMAIN u : IsDecimal(u[k])
  /\ \A k, l \in DOMAIN u : u[k] = "." /\ u[l] = "." => k = l

\* Its cents, what lies below a cent cut off.
CentsDenoted(s) ==
  LET u == Unsigned(s)
      point == IF Contains(u, ".") THEN SelectInSeq(u, LAMBDA c : c = ".") ELSE Len(u) + 1
      u00 == SubSeq(u, 1, point - 1) \o SubSeq(u, point + 1, Len(u)) \o <<"0", "0">>
      cents == NumberAt(u00, 1, point + 1)
  IN IF s[1] = "-" THEN -cents ELSE cents
=============================================================================
