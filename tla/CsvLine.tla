------------------------------- MODULE CsvLine -------------------------------
(***************************************************************************)
(* ingestion/csv_parser.py: split_line, the hand-written scanner that cuts *)
(* a line of a CSV file into its fields, one action per branch of its      *)
(* loop.                                                                   *)
(*                                                                         *)
(* A text is the sequence of its characters, a character a string of its   *)
(* own.  Positions count from 1.                                           *)
(*                                                                         *)
(* A definition whose comment says "Fault:" is not part of the model, see  *)
(* Ingestion.                                                              *)
(***************************************************************************)
EXTENDS Integers, Sequences, FiniteSets

CONSTANTS
  Character,  \* the characters there are
  Lines       \* the lines a file may hold, their line breaks stripped

Quote == "\""
Comma == ","

Text == Seq(Character)

ASSUME LinesAssumption == {Quote, Comma} \subseteq Character /\ Lines \subseteq Text

VARIABLES
  line,       \* the argument
  i,          \* the next character to look at
  in_quotes,
  current,    \* the field being read
  fields,     \* the fields completed so far
  pc          \* "scan" while the loop runs

scan_vars == <<line, i, in_quotes, current, fields, pc>>

ScanInit ==
  /\ line \in Lines
  /\ i = 1 /\ in_quotes = FALSE /\ current = <<>> /\ fields = <<>>
  /\ pc = "scan"

At(c) == pc = "scan" /\ i <= Len(line) /\ line[i] = c

\* A doubled quote follows: the text goes on.
Doubled == i < Len(line) /\ line[i + 1] = Quote

Skip(n) == i' = i + n /\ UNCHANGED <<line, pc>>

\* Fault: the second quote of a doubled one is looked at again
\* (SplitSoFar).
EscapedQuoteTakesOne ==
  /\ in_quotes /\ At(Quote) /\ Doubled
  /\ current' = Append(current, Quote)
  /\ Skip(1)
  /\ UNCHANGED <<in_quotes, fields>>

EscapedQuote ==
  /\ in_quotes /\ At(Quote) /\ Doubled
  /\ current' = Append(current, Quote)
  /\ Skip(2)
  /\ UNCHANGED <<in_quotes, fields>>

\* Fault: the branch goes on with the loop before it has consumed the quote
\* (EveryRowSettles).
CloseQuoteStays ==
  /\ in_quotes /\ At(Quote) /\ ~Doubled
  /\ Skip(0)
  /\ UNCHANGED <<in_quotes, current, fields>>

CloseQuote ==
  /\ in_quotes /\ At(Quote) /\ ~Doubled
  /\ in_quotes' = FALSE
  /\ Skip(1)
  /\ UNCHANGED <<current, fields>>

\* Anything goes between quotes, a comma too.
QuotedCharacter ==
  /\ in_quotes /\ pc = "scan" /\ i <= Len(line) /\ line[i] # Quote
  /\ current' = Append(current, line[i])
  /\ Skip(1)
  /\ UNCHANGED <<in_quotes, fields>>

\* Fault: a quote opens a quoted text at the start of a field only
\* (InQuotesIsParity).
OpenQuoteAtStart ==
  /\ ~in_quotes /\ At(Quote)
  /\ in_quotes' = (current = <<>>)
  /\ Skip(1)
  /\ UNCHANGED <<current, fields>>

\* A quote may open in the middle of a field, too.
OpenQuote ==
  /\ ~in_quotes /\ At(Quote)
  /\ in_quotes' = TRUE
  /\ Skip(1)
  /\ UNCHANGED <<current, fields>>

EndField ==
  /\ ~in_quotes /\ At(Comma)
  /\ fields' = Append(fields, current)
  /\ current' = <<>>
  /\ Skip(1)
  /\ UNCHANGED in_quotes

PlainCharacter ==
  /\ ~in_quotes /\ pc = "scan" /\ i <= Len(line) /\ line[i] \notin {Quote, Comma}
  /\ current' = Append(current, line[i])
  /\ Skip(1)
  /\ UNCHANGED <<in_quotes, fields>>

\* The loop is over, an open quote or not: what is left is the last field.
EndLine ==
  /\ pc = "scan" /\ i > Len(line)
  /\ fields' = Append(fields, current)
  /\ pc' = "validate"
  /\ UNCHANGED <<line, i, in_quotes, current>>

ScanStep ==
  \/ EscapedQuote \/ CloseQuote \/ QuotedCharacter
  \/ OpenQuote \/ EndField \/ PlainCharacter \/ EndLine

-----------------------------------------------------------------------------
(* What a line says, without a scanner. *)

Quotes(s) == {k \in DOMAIN s : s[k] = Quote}

\* Position k of s lies outside quotes: an even number of quotes precedes it.
Outside(s, k) == Cardinality({q \in Quotes(s) : q < k}) % 2 = 0

Separates(s, k) == s[k] = Comma /\ Outside(s, k)

\* A quote is kept when it is the second of a doubled one.
Keeps(s, k) ==
  IF s[k] = Quote
  THEN k > 1 /\ s[k - 1] = Quote /\ Outside(s, k)
  ELSE ~Separates(s, k)

\* The m-th of the positions S.
Nth(S, m) == CHOOSE k \in {j \in S : Cardinality({l \in S : l < j}) = m - 1} : TRUE

\* The characters of s at positions S.
Picked(s, S) == [m \in 1..Cardinality(S) |-> s[Nth(S, m)]]

\* The fields of s: what is kept of the text between two separators.
FieldsOf(s) ==
  LET separators == {k \in DOMAIN s : Separates(s, k)}
      kept == {k \in DOMAIN s : Keeps(s, k)}
      Before(k) == Cardinality({c \in separators : c < k})
  IN [n \in 1..(Cardinality(separators) + 1) |-> Picked(s, {k \in kept : Before(k) = n - 1})]

ScanTypeOK ==
  /\ line \in Text /\ current \in Text /\ fields \in Seq(Text)
  /\ i \in 1..(Len(line) + 1)
  /\ in_quotes \in BOOLEAN

\* The scanner is inside quotes exactly after an odd number of quotes: a
\* doubled quote, a quote in the middle of a field and one that is never
\* closed do not put it out of step (csv_parser.split_line).
InQuotesIsParity == pc = "scan" => (in_quotes <=> ~Outside(line, i))

\* The loop's invariant: the fields completed and the one being read are what
\* the part of the line behind the scanner says -- at the end, the whole line
\* (csv_parser.py:4-6, "quoted fields containing commas, and doubled-quote
\* escaping inside a quoted field").
SplitSoFar ==
  IF pc = "scan"
  THEN Append(fields, current) = FieldsOf(SubSeq(line, 1, i - 1))
  ELSE fields = FieldsOf(line)

=============================================================================
