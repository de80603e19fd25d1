----------------------------- MODULE RowPipeline -----------------------------
(***************************************************************************)
(* The way of one row: a line of a CSV file is split, validated, stored by *)
(* either insert path of TransactionRepository, read back by find_all and  *)
(* written into the report (row_validator.py, transaction_repository.py,   *)
(* csv_report_writer.py).  Ingestion takes from here what can become of a  *)
(* line; this module is about what the row says at each stage.             *)
(***************************************************************************)
EXTENDS CsvLine, DateText

CONSTANTS
  SupportedCurrencies,  \* of RowValidator
  BigIntMax,            \* the largest value of a BIGINT column
  NoRow

ASSUME PipelineAssumption ==
  /\ Range(AsciiDigits) \subseteq Character
  /\ {"-", ".", "\t", "\\", "\n", "t", "n", "MISSING_EXTERNAL"} \subseteq Character
  /\ BigIntMax \in Nat

VARIABLES
  outcome,  \* what validate_row made of the row: "valid", an error, "raising"
  row,      \* the Transaction it built
  stored,   \* the row of the transactions table
  loaded,   \* the Transaction that find_all makes of it
  report    \* its line in the report

row_vars == <<outcome, row, stored, loaded, report>>
vars == <<scan_vars, row_vars>>

Tab == "\t"
Backslash == "\\"
NewLine == "\n"

Init ==
  /\ ScanInit
  /\ outcome = "none" /\ row = NoRow /\ stored = NoRow /\ loaded = NoRow /\ report = <<>>

Split == ScanStep /\ UNCHANGED row_vars

-----------------------------------------------------------------------------
(* RowValidator.validate_row *)

\* Fault: a negative amount passes (TypeOK).
NothingIsNegative(cents) == FALSE

Negative(cents) == cents < 0

\* validate_row: the first check that fails decides.
Verdict(f) ==
  IF Len(f) # 7 THEN "wrong number of columns"
  ELSE IF f[1] = <<>> THEN "missing transaction_id"
  ELSE IF f[2] = <<>> THEN "missing invoice_number"
  ELSE IF f[3] = <<>> THEN "missing vendor_id"
  ELSE IF DateRaises(f[4]) THEN "raising"
  ELSE IF ~DateParses(f[4]) THEN "invalid transaction_date"
  ELSE IF ~MoneyParses(f[5]) THEN "malformed amount"
  ELSE IF Negative(FromDecimalString(f[5])) THEN "negative amount"
  ELSE IF ~MoneyParses(f[6]) THEN "malformed tax_amount"
  ELSE IF Negative(FromDecimalString(f[6])) THEN "negative tax_amount"
  ELSE IF Len(f[7]) # 1 \/ f[7][1] \notin SupportedCurrencies THEN "unsupported currency"
  ELSE "valid"

TransactionOf(f) ==
  [transaction_id |-> f[1], invoice_number |-> f[2], vendor_id |-> f[3],
   transaction_date |-> DateParts(f[4]), amount |-> FromDecimalString(f[5]),
   tax_amount |-> FromDecimalString(f[6]), currency |-> f[7]]

ValidateRow ==
  /\ pc = "validate"
  /\ outcome' = Verdict(fields)
  /\ row' = IF outcome' = "valid" THEN TransactionOf(fields) ELSE NoRow
  /\ pc' = IF outcome' = "valid" THEN "store" ELSE "done"
  /\ UNCHANGED <<line, i, in_quotes, current, fields, stored, loaded, report>>

-----------------------------------------------------------------------------
(* TransactionRepository.  A row is the list of its columns, less its id,  *)
(* batch and row number, which are Ingestion's.                            *)

\* s with every character c replaced by the text t.
Replace(s, c, t) == FlattenSeq([k \in DOMAIN s |-> IF s[k] = c THEN t ELSE <<s[k]>>])

\* sep.join(texts)
Join(sep, texts) ==
  texts[1] \o FlattenSeq([k \in 1..(Len(texts) - 1) |-> <<sep>> \o texts[k + 1]])

\* PostgreSQL refuses a NUL character, what a BIGINT cannot hold and a
\* negative tax.
Storable(t) ==
  /\ t.amount <= BigIntMax /\ t.tax_amount \in 0..BigIntMax
  /\ \A text \in {t.transaction_id, t.invoice_number, t.vendor_id} : ~Contains(text, "nul")

\* The values handed to the driver.
ToColumns(t) ==
  <<t.transaction_id, t.invoice_number, t.vendor_id, DateToString(t.transaction_date),
    t.amount, t.tax_amount, t.currency>>

\* PostgreSQL keeps a DATE, not its text.
AsStored(columns) == [columns EXCEPT ![4] = DateParts(columns[4])]

Store(columns) ==
  IF Storable(row)
  THEN pc' = "load" /\ stored' = AsStored(columns)
  ELSE pc' = "done" /\ UNCHANGED stored

InsertBatch ==
  /\ pc = "store"
  /\ Store(ToColumns(row))
  /\ UNCHANGED <<line, i, in_quotes, current, fields, outcome, row, loaded, report>>

\* Fault: the backslash is escaped last, and with it the escapes of the
\* others (StoredIsReadBack).
EscapeBackslashLast(f) ==
  Replace(Replace(Replace(f, Tab, <<Backslash, "t">>), NewLine, <<Backslash, "n">>),
          Backslash, <<Backslash, Backslash>>)

\* f.replace("\\", "\\\\").replace("\t", "\\t").replace("\n", "\\n")
Escape(f) ==
  Replace(Replace(Replace(f, Backslash, <<Backslash, Backslash>>), Tab, <<Backslash, "t">>),
          NewLine, <<Backslash, "n">>)

\* The line bulk_insert_via_copy writes into its buffer.
CopyLine(t) ==
  LET texts == [ToColumns(t) EXCEPT ![5] = Decimal(t.amount), ![6] = Decimal(t.tax_amount)]
  IN Join(Tab, [k \in DOMAIN texts |-> Escape(texts[k])])

\* COPY ... FROM STDIN (FORMAT text) of one character: a tab ends a column,
\* a backslash gives the next character another meaning.
CopyRead(m, c) ==
  IF m.escaped
  THEN [m EXCEPT !.escaped = FALSE,
                 !.column = Append(m.column, IF c = "t" THEN Tab ELSE IF c = "n" THEN NewLine ELSE c)]
  ELSE IF c = Backslash THEN [m EXCEPT !.escaped = TRUE]
  ELSE IF c = Tab THEN [m EXCEPT !.columns = Append(m.columns, m.column), !.column = <<>>]
  ELSE [m EXCEPT !.column = Append(m.column, c)]

CopiedColumns(s) ==
  LET end == FoldLeft(CopyRead, [columns |-> <<>>, column |-> <<>>, escaped |-> FALSE], s)
      texts == Append(end.columns, end.column)
  IN [texts EXCEPT ![5] = NumberAt(texts[5], 1, Len(texts[5])),
                   ![6] = NumberAt(texts[6], 1, Len(texts[6]))]

BulkInsertViaCopy ==
  /\ pc = "store"
  /\ Store(CopiedColumns(CopyLine(row)))
  /\ UNCHANGED <<line, i, in_quotes, current, fields, outcome, row, loaded, report>>

\* find_all turns the date into its text and parses it again.
FindAll ==
  /\ pc = "load"
  /\ loaded' = [transaction_id |-> stored[1], invoice_number |-> stored[2], vendor_id |-> stored[3],
                transaction_date |-> DateParts(DateToString(stored[4])),
                amount |-> stored[5], tax_amount |-> stored[6], currency |-> stored[7]]
  /\ pc' = "report"
  /\ UNCHANGED <<line, i, in_quotes, current, fields, outcome, row, stored, report>>

-----------------------------------------------------------------------------
(* CsvReportWriter.write *)

NeedsQuoting(field) == \E k \in DOMAIN field : field[k] \in {Comma, Quote, NewLine}

\* Fault: quotes inside the field are not doubled (ReportReadsBack).
EscapeUndoubled(field) ==
  IF NeedsQuoting(field) THEN <<Quote>> \o field \o <<Quote>> ELSE field

\* _csv_escape
CsvEscape(field) ==
  IF NeedsQuoting(field)
  THEN <<Quote>> \o Replace(field, Quote, <<Quote, Quote>>) \o <<Quote>>
  ELSE field

\* The line of a run's result for this row alone; a status is never taken
\* apart.
WriteReport ==
  /\ pc = "report"
  /\ report' = Join(Comma, <<CsvEscape(loaded.transaction_id), <<"MISSING_EXTERNAL">>,
                             MoneyToString(loaded.amount), <<>>, Decimal(loaded.amount)>>)
  /\ pc' = "done"
  /\ UNCHANGED <<line, i, in_quotes, current, fields, outcome, row, stored, loaded>>

Terminated == pc = "done" /\ UNCHANGED vars

Step == Split \/ ValidateRow \/ InsertBatch \/ BulkInsertViaCopy \/ FindAll \/ WriteReport

Next == Step \/ Terminated

Spec == Init /\ [][Next]_vars

\* One thread that keeps executing.
FairSpec == Spec /\ WF_vars(Step)

-----------------------------------------------------------------------------
(* Properties. *)

Date == (1..9999) \X (1..12) \X (1..31)

Outcome ==
  {"none", "valid", "raising", "wrong number of columns", "missing transaction_id",
   "missing invoice_number", "missing vendor_id", "invalid transaction_date",
   "malformed amount", "negative amount", "malformed tax_amount", "negative tax_amount",
   "unsupported currency"}

Transaction ==
  [transaction_id : Text, invoice_number : Text, vendor_id : Text, transaction_date : Date,
   amount : Nat, tax_amount : Nat, currency : Text]

\* Every variable stays within its type; no negative amount is kept.
TypeOK ==
  /\ ScanTypeOK
  /\ pc \in {"scan", "validate", "store", "load", "report", "done"}
  /\ outcome \in Outcome
  /\ row # NoRow => row \in Transaction
  /\ stored # NoRow => stored \in Text \X Text \X Text \X Date \X Nat \X Nat \X Text
  /\ loaded # NoRow => loaded \in Transaction
  /\ report \in Text

AsciiOnly(s) == \A k \in DOMAIN s : s[k] \notin {"sup2", "arabic2"}

\* In ASCII, an accepted amount or tax is the number its text denotes, to the
\* cent, and a text turned away as malformed denotes none
\* (Money.from_decimal_string).
AmountIsAsWritten ==
  /\ outcome = "valid" =>
       /\ AsciiOnly(fields[5]) => row.amount = CentsDenoted(fields[5])
       /\ AsciiOnly(fields[6]) => row.tax_amount = CentsDenoted(fields[6])
  /\ outcome = "malformed amount" => ~IsNumber(fields[5])
  /\ outcome = "malformed tax_amount" => ~IsNumber(fields[6])

\* The spellings of the days of some years: leap and not, first and last.
DaysWritten ==
  {DateToString(d) : d \in {d \in {1, 1900, 2000, 2023, 2024, 9999} \X (1..12) \X (1..31) :
                              RealDate(d)}}

\* In ASCII, an accepted date is a real one and prints as it was written, and
\* a text turned away is no day's spelling (date_value.py:10-14, 'A silently
\* "fixed" date would corrupt the audit trail').
DateIsAsWritten ==
  /\ outcome = "valid" =>
       RealDate(row.transaction_date)
         /\ (AsciiOnly(fields[4]) => DateToString(row.transaction_date) = fields[4])
  /\ outcome = "invalid transaction_date" => fields[4] \notin DaysWritten

\* By either insert path, what find_all returns is what the validator
\* accepted: no column is shifted, no character lost or gained, no date moved
\* (transaction_repository.py:101-118).
StoredIsReadBack == loaded # NoRow => loaded = row

\* A line of the report splits back into its fields, however the transaction
\* id is made up, and its amount parses back to the cents stored
\* (csv_report_writer.py:4-8).
ReportReadsBack ==
  report # <<>> =>
    LET f == FieldsOf(report) IN
    /\ Len(f) = 5 /\ f[1] = row.transaction_id
    /\ MoneyParses(f[3]) /\ FromDecimalString(f[3]) = row.amount

\* Every row is settled: no line keeps the scanner in its loop.
EveryRowSettles == <>(pc = "done")

\* money.py:35-37: from_decimal_string "raises ValueError on malformed input
\* rather than silently truncating or guessing".  The amount of an accepted
\* row is the number its text denotes.
MoneyIsNotGuessed ==
  outcome = "valid" => IsNumber(fields[5]) /\ row.amount = CentsDenoted(fields[5])
=============================================================================
