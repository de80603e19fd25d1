-------------------------------- MODULE MCRow --------------------------------
(***************************************************************************)
(* Small instances of RowPipeline for TLC: every short line over a quote,  *)
(* a comma and a letter, and lines of seven fields that vary one or two    *)
(* fields of a good row.                                                   *)
(***************************************************************************)
EXTENDS RowPipeline

MCCharacter ==
  Range(AsciiDigits)
    \union {Quote, Comma, Tab, Backslash, NewLine, "-", "+", ".", "/", "t", "n", "T", "V", "nul",
            "sup2", "arabic2", "INR", "USD", "XXX", "MISSING_EXTERNAL"}

ShortLines == UNION {[1..n -> {Quote, Comma, "T"}] : n \in 0..5}

\* Raw transaction ids: quoted, with a comma, with a doubled quote, empty,
\* with a stray quote, and with characters that COPY treats specially.
Ids ==
  {<<"T">>, <<>>, <<Quote, "T", Comma, Quote>>, <<Quote, "T", Quote, Quote, Quote>>,
   <<Quote, Quote, Quote, Quote>>, <<Quote, Quote>>, <<"T", Quote>>,
   <<"T", Quote, Quote, Comma, "T">>, <<"T", Backslash>>, <<Tab, "T">>, <<Backslash, "t">>,
   <<Backslash, Tab>>, <<Backslash, Backslash, "n">>, <<"nul">>}

OtherIds == {<<>>, <<"V", Backslash>>, <<Quote, Comma, Quote>>, <<"nul">>}

Leap29 == <<"2", "0", "2", "4", "-", "0", "2", "-", "2", "9">>

\* Date fields: real days, days that do not exist, other shapes, digits of
\* other scripts.
Dates ==
  {Leap29, [Leap29 EXCEPT ![4] = "3"], [Leap29 EXCEPT ![3] = "0", ![4] = "0"],
   [Leap29 EXCEPT ![1] = "1", ![2] = "9", ![3] = "0", ![4] = "0"],
   [Leap29 EXCEPT ![7] = "4", ![9] = "3", ![10] = "1"],
   [Leap29 EXCEPT ![7] = "4", ![9] = "3", ![10] = "0"],
   [Leap29 EXCEPT ![6] = "1", ![9] = "3", ![10] = "1"],
   [Leap29 EXCEPT ![6] = "1", ![7] = "3"], [Leap29 EXCEPT ![7] = "0"],
   [Leap29 EXCEPT ![9] = "0", ![10] = "0"],
   <<"0", "0", "0", "1", "-", "0", "1", "-", "0", "1">>,
   <<"0", "0", "0", "0", "-", "0", "1", "-", "0", "1">>,
   <<"9", "9", "9", "9", "-", "1", "2", "-", "3", "1">>,
   [Leap29 EXCEPT ![5] = "/"], [Leap29 EXCEPT ![8] = "2"], [Leap29 EXCEPT ![10] = "T"],
   Leap29 \o <<"0">>, SubSeq(Leap29, 1, 9), <<>>,
   <<"2", "0", "2", "4", "-", "2", "-", "0", "2", "9">>,
   [Leap29 EXCEPT ![7] = "sup2"], [Leap29 EXCEPT ![7] = "arabic2"]}

\* Decimal fields: fewer and more than two places, signs, points without
\* digits, the largest BIGINT and one cent more.
Amounts ==
  {<<"0">>, <<"1", ".", "5">>, <<"1", ".", "0", "5">>, <<"1", ".", "5", "0", "9">>, <<".", "5">>,
   <<"7", ".">>, <<".">>, <<>>, <<"-", "1">>, <<"-", "0">>, <<"-", ".", "0", "0", "1">>, <<"-">>,
   <<"+", "2">>, <<"+", "-", "2">>, <<"1", ".", ".", "2">>, <<"1", "T">>, <<"1", "-">>,
   <<"9", "9", "9", ".", "9", "9">>, <<"1", "0", "0", "0">>, <<Quote, "1", Quote>>,
   <<Quote, "1", Comma, "5", Quote>>}

ForeignAmounts == {<<"1", "sup2">>, <<"arabic2">>, <<"0", ".", "arabic2">>}

Taxes == {<<"0", ".", "5">>, <<>>, <<"-", "1">>, <<"1", "0", "0", "0">>}

Good == <<<<"T">>, <<"1">>, <<"V">>, Leap29, <<"1", ".", "5", "0">>, <<"0">>, <<"INR">>>>

Rows ==
  {[Good EXCEPT ![1] = id] : id \in Ids}
    \union {[Good EXCEPT ![k] = id] : k \in {2, 3}, id \in OtherIds}
    \union {[Good EXCEPT ![4] = date] : date \in Dates}
    \union {[Good EXCEPT ![5] = amount, ![6] = tax] : amount \in Amounts, tax \in Taxes}
    \union {[Good EXCEPT ![5] = amount] : amount \in ForeignAmounts}
    \union {[Good EXCEPT ![6] = tax] : tax \in Amounts \union ForeignAmounts}
    \union {[Good EXCEPT ![7] = currency] : currency \in {<<"XXX">>, <<>>, <<"INR", "T">>}}
    \union {[Good EXCEPT ![5] = <<"1", ".">>, ![4] = date] :
              date \in {<<>>, [Leap29 EXCEPT ![7] = "sup2"]}}

RowLines == {Join(Comma, r) : r \in Rows}

MCLines == ShortLines \union RowLines
=============================================================================
