------------------------------ MODULE RowProofs ------------------------------
(***************************************************************************)
(* Proofs about RowPipeline, for every set of lines: the scanner stays in  *)
(* step with the quotes and splits a line into the fields it says; a date  *)
(* that is accepted is the one written and no day is turned away, an       *)
(* amount is the number its text denotes; what either insert path stores   *)
(* is read back unchanged, and the report about it splits and reads back.  *)
(*                                                                         *)
(* What is true of every text is proved as TextProofs does, by the least *)
(* position (EveryText).                                                   *)
(***************************************************************************)
EXTENDS TextProofs

-----------------------------------------------------------------------------
(* The scanner and the quotes. *)

\* The quotes of s before position k.
QuotesBefore(s, k) == {q \in Quotes(s) : q < k}

\* There are finitely many quotes before a position.
LEMMA QuotesFinite ==
  ASSUME NEW s \in Text, NEW k \in Int
  PROVE  IsFiniteSet(QuotesBefore(s, k)) /\ Cardinality(QuotesBefore(s, k)) \in Nat
<1>1. Len(s) \in Nat /\ DOMAIN s = 1..Len(s)
  BY DEF Text
<1>2. QuotesBefore(s, k) \subseteq 1..Len(s)
  BY <1>1 DEF QuotesBefore, Quotes
<1>3. IsFiniteSet(1..Len(s))
  BY <1>1, FS_Interval
<1> QED
  BY <1>2, <1>3, FS_Subset, FS_CardinalityType

\* No quote precedes the first position.
LEMMA FirstIsOutside ==
  ASSUME NEW s \in Text
  PROVE  Outside(s, 1)
<1>1. DOMAIN s = 1..Len(s) /\ Len(s) \in Nat
  BY DEF Text
<1>2. {q \in Quotes(s) : q < 1} = {}
  BY <1>1 DEF Quotes
<1>3. Cardinality({}) = 0
  BY FS_EmptySet
<1> QED
  BY <1>2, <1>3 DEF Outside

\* One quote on, the parity changes; any other character on, it does not.
LEMMA ParityStep ==
  ASSUME NEW s \in Text, NEW k \in 1..Len(s)
  PROVE  Outside(s, k + 1) <=> (IF s[k] = Quote THEN ~Outside(s, k) ELSE Outside(s, k))
<1> DEFINE S == QuotesBefore(s, k)
           T == QuotesBefore(s, k + 1)
<1>1. DOMAIN s = 1..Len(s) /\ Len(s) \in Nat /\ k \in Int
  BY DEF Text
<1>2. IsFiniteSet(S) /\ Cardinality(S) \in Nat
  BY <1>1, QuotesFinite
<1>3. CASE s[k] = Quote
  <2>1. T = S \union {k} /\ k \notin S
    BY <1>1, <1>3 DEF QuotesBefore, Quotes
  <2>2. Cardinality(T) = Cardinality(S) + 1
    BY <2>1, <1>2, FS_AddElement
  <2>3. Cardinality(T) % 2 = 0 <=> ~(Cardinality(S) % 2 = 0)
    <3> HIDE DEF S, T
    <3> QED
      BY <2>2, <1>2
  <2> QED
    BY <2>3, <1>3 DEF Outside, QuotesBefore
<1>4. CASE s[k] # Quote
  <2>1. T = S
    BY <1>1, <1>4 DEF QuotesBefore, Quotes
  <2> QED
    BY <2>1, <1>4 DEF Outside, QuotesBefore
<1> QED
  BY <1>3, <1>4

\* What the scanner's loop preserves: where it is and the parity of the quotes
\* behind it.
ScanInv ==
  /\ line \in Text /\ i \in 1..(Len(line) + 1)
  /\ in_quotes \in BOOLEAN
  /\ InQuotesIsParity

\* The scanner starts before the first character, outside quotes.
LEMMA ScanStarts ==
  Init => ScanInv
<1> SUFFICES ASSUME Init PROVE ScanInv
  OBVIOUS
<1>1. line \in Text /\ Len(line) \in Nat
  BY LinesAssumption DEF Init, ScanInit, Text
<1>2. i = 1 /\ in_quotes = FALSE
  BY DEF Init, ScanInit
<1>3. InQuotesIsParity
  BY <1>1, <1>2, FirstIsOutside DEF InQuotesIsParity
<1>4. i \in 1..(Len(line) + 1)
  BY <1>1, <1>2
<1>5. in_quotes \in BOOLEAN
  BY <1>2
<1> QED
  BY <1>1, <1>3, <1>4, <1>5 DEF ScanInv

\* A step of the loop that consumes one character keeps the parity if it
\* turns in_quotes over exactly at a quote.
LEMMA OneCharacter ==
  ASSUME ScanInv, pc = "scan", i \in 1..Len(line), Skip(1), in_quotes' \in BOOLEAN,
         in_quotes' <=> (IF line[i] = Quote THEN ~in_quotes ELSE in_quotes)
  PROVE  ScanInv'
<1>1. line \in Text /\ Len(line) \in Nat /\ in_quotes \in BOOLEAN
  BY DEF ScanInv, Text
<1>2. i' = i + 1 /\ line' = line
  BY DEF Skip
<1>3. in_quotes <=> ~Outside(line, i)
  BY DEF ScanInv, InQuotesIsParity
<1>4. Outside(line, i + 1) <=> (IF line[i] = Quote THEN ~Outside(line, i) ELSE Outside(line, i))
  BY <1>1, ParityStep
<1>5. in_quotes' <=> ~Outside(line, i + 1)
  BY <1>3, <1>4
<1> QED
  BY <1>1, <1>2, <1>5 DEF ScanInv, InQuotesIsParity

\* Every branch of the loop preserves the invariant.
LEMMA ScanStepInv ==
  ASSUME ScanInv, ScanStep
  PROVE  ScanInv'
<1>1. /\ line \in Text /\ Len(line) \in Nat
      /\ i \in 1..(Len(line) + 1) /\ in_quotes \in BOOLEAN
  BY DEF ScanInv, Text
<1>2. CASE EscapedQuote
  <2>1. /\ pc = "scan" /\ i \in 1..Len(line) /\ line[i] = Quote /\ in_quotes
        /\ i + 1 \in 1..Len(line) /\ line[i + 1] = Quote
    BY <1>1, <1>2 DEF EscapedQuote, At, Doubled
  <2>2. line' = line /\ pc' = pc /\ i' = i + 2 /\ in_quotes' = in_quotes
    BY <1>2 DEF EscapedQuote, Skip
  <2>3. Outside(line, i + 1) <=> ~Outside(line, i)
    BY <1>1, <2>1, ParityStep
  <2>4. Outside(line, (i + 1) + 1) <=> ~Outside(line, i + 1)
    BY <1>1, <2>1, ParityStep
  <2>5. (i + 1) + 1 = i + 2 /\ i + 2 \in 1..(Len(line) + 1)
    BY <1>1, <2>1
  <2>6. in_quotes <=> ~Outside(line, i)
    BY <2>1 DEF ScanInv, InQuotesIsParity
  <2>7. InQuotesIsParity'
    BY <2>2, <2>3, <2>4, <2>5, <2>6 DEF InQuotesIsParity
  <2> QED
    BY <1>1, <2>2, <2>5, <2>7 DEF ScanInv
<1>3. CASE CloseQuote
  <2>1. pc = "scan" /\ i \in 1..Len(line) /\ line[i] = Quote /\ in_quotes
    BY <1>1, <1>3 DEF CloseQuote, At
  <2>2. Skip(1) /\ ~in_quotes' /\ in_quotes' \in BOOLEAN
    BY <1>3 DEF CloseQuote
  <2> QED
    BY <2>1, <2>2, OneCharacter
<1>4. CASE QuotedCharacter
  <2>1. pc = "scan" /\ i \in 1..Len(line) /\ line[i] # Quote /\ Skip(1) /\ in_quotes' = in_quotes
    BY <1>1, <1>4 DEF QuotedCharacter
  <2> QED
    BY <1>1, <2>1, OneCharacter
<1>5. CASE OpenQuote
  <2>1. pc = "scan" /\ i \in 1..Len(line) /\ line[i] = Quote /\ ~in_quotes
    BY <1>1, <1>5 DEF OpenQuote, At
  <2>2. Skip(1) /\ in_quotes' = TRUE
    BY <1>5 DEF OpenQuote
  <2> QED
    BY <2>1, <2>2, OneCharacter
<1>6. CASE EndField
  <2>1. pc = "scan" /\ i \in 1..Len(line) /\ line[i] = Comma /\ Skip(1) /\ in_quotes' = in_quotes
    BY <1>1, <1>6 DEF EndField, At
  <2>2. line[i] # Quote
    BY <2>1 DEF Comma, Quote
  <2> QED
    BY <1>1, <2>1, <2>2, OneCharacter
<1>7. CASE PlainCharacter
  <2>1. pc = "scan" /\ i \in 1..Len(line) /\ line[i] # Quote /\ Skip(1) /\ in_quotes' = in_quotes
    BY <1>1, <1>7 DEF PlainCharacter
  <2> QED
    BY <1>1, <2>1, OneCharacter
<1>8. CASE EndLine
  BY <1>1, <1>8 DEF EndLine, ScanInv, InQuotesIsParity
<1> QED
  BY <1>2, <1>3, <1>4, <1>5, <1>6, <1>7, <1>8 DEF ScanStep

\* What comes after the scanner leaves its variables alone and does not start
\* it again.
LEMMA NextInv ==
  ASSUME ScanInv, [Next]_vars
  PROVE  ScanInv'
<1>1. CASE Split
  BY <1>1, ScanStepInv DEF Split
<1>2. ASSUME UNCHANGED <<line, i, in_quotes, current, fields>>, pc' # "scan"
      PROVE  ScanInv'
  BY <1>2 DEF ScanInv, InQuotesIsParity
<1>3. CASE ValidateRow
  BY <1>2, <1>3 DEF ValidateRow
<1>4. CASE InsertBatch
  BY <1>2, <1>4 DEF InsertBatch, Store
<1>5. CASE BulkInsertViaCopy
  BY <1>2, <1>5 DEF BulkInsertViaCopy, Store
<1>6. CASE FindAll
  BY <1>2, <1>6 DEF FindAll
<1>7. CASE WriteReport
  BY <1>2, <1>7 DEF WriteReport
<1>8. CASE UNCHANGED vars
  BY <1>8 DEF ScanInv, InQuotesIsParity, vars, scan_vars
<1> QED
  BY <1>1, <1>3, <1>4, <1>5, <1>6, <1>7, <1>8 DEF Next, Step, Terminated

\* On every line, whatever its quotes, split_line is inside quotes exactly
\* after an odd number of quotes (csv_parser.py:30-53).
THEOREM QuotesStayInStep == Spec => []InQuotesIsParity
<1>1. ScanInv => InQuotesIsParity
  BY DEF ScanInv
<1> QED
  BY ScanStarts, NextInv, <1>1, PTL DEF Spec

-----------------------------------------------------------------------------
(* What bulk_insert_via_copy writes and COPY reads. *)

\* What escape makes of one character.
Escaped(x) ==
  IF x = Backslash THEN <<Backslash, Backslash>>
  ELSE IF x = Tab THEN <<Backslash, "t">>
  ELSE IF x = NewLine THEN <<Backslash, "n">>
  ELSE <<x>>

\* escape of a single character: three replacements one after the other, of
\* which no later one touches what an earlier one has put in.
LEMMA EscapeOfOne ==
  ASSUME NEW x \in Character
  PROVE  Escape(<<x>>) = Escaped(x) /\ Escaped(x) \in Text
<1> DEFINE bb == <<Backslash, Backslash>>
           bt == <<Backslash, "t">>
           bn == <<Backslash, "n">>
<1>1. bb \in Text /\ bt \in Text /\ bn \in Text
  BY SpecialCharacters DEF Text
<1>2. Escaped(x) \in Text
  BY SpecialCharacters DEF Escaped, Text
<1> HIDE DEF bb, bt, bn
<1>3. Escape(<<x>>) = Replace(Replace(Replace(<<x>>, Backslash, bb), Tab, bt), NewLine, bn)
  BY DEF Escape, bb, bt, bn
<1>4. \A y \in Character : \A c : \A t \in Text : Replace(<<y>>, c, t) = Piece(y, c, t)
  BY ReplaceOfOne
<1>5. CASE x = Backslash
  <2>1. Replace(<<x>>, Backslash, bb) = <<Backslash, Backslash>>
    BY <1>1, <1>4, <1>5 DEF Piece, bb
  <2>2. Replace(<<Backslash, Backslash>>, Tab, bt) = <<Backslash, Backslash>>
    BY <1>1, SpecialCharacters, ReplaceKeepsPair
  <2>3. Replace(<<Backslash, Backslash>>, NewLine, bn) = <<Backslash, Backslash>>
    BY <1>1, SpecialCharacters, ReplaceKeepsPair
  <2>4. Escaped(x) = <<Backslash, Backslash>>
    BY <1>5 DEF Escaped
  <2> QED BY <1>2, <1>3, <2>1, <2>2, <2>3, <2>4
<1>6. CASE x # Backslash /\ x = Tab
  <2>1. Replace(<<x>>, Backslash, bb) = <<x>>
    BY <1>1, <1>4, <1>6 DEF Piece
  <2>2. Replace(<<x>>, Tab, bt) = <<Backslash, "t">>
    BY <1>1, <1>4, <1>6 DEF Piece, bt
  <2>3. Replace(<<Backslash, "t">>, NewLine, bn) = <<Backslash, "t">>
    BY <1>1, SpecialCharacters, ReplaceKeepsPair
  <2>4. Escaped(x) = <<Backslash, "t">>
    BY <1>6 DEF Escaped
  <2> QED BY <1>2, <1>3, <2>1, <2>2, <2>3, <2>4
<1>7. CASE x # Backslash /\ x # Tab
  <2>1. Replace(<<x>>, Backslash, bb) = <<x>> /\ Replace(<<x>>, Tab, bt) = <<x>>
    BY <1>1, <1>4, <1>7 DEF Piece
  <2>2. Replace(<<x>>, NewLine, bn) = IF x = NewLine THEN <<Backslash, "n">> ELSE <<x>>
    BY <1>1, <1>4, <1>7 DEF Piece, bn
  <2>3. Escaped(x) = IF x = NewLine THEN <<Backslash, "n">> ELSE <<x>>
    BY <1>7 DEF Escaped
  <2> QED BY <1>2, <1>3, <2>1, <2>2, <2>3
<1> QED BY <1>5, <1>6, <1>7

\* A text is escaped character by character.
LEMMA EscapeStep ==
  ASSUME NEW s \in Text, NEW x \in Character
  PROVE  Escape(s) \in Text /\ Escape(Append(s, x)) = Cat(Escape(s), Escaped(x))
<1> DEFINE bb == <<Backslash, Backslash>>
           bt == <<Backslash, "t">>
           bn == <<Backslash, "n">>
<1>1. bb \in Text /\ bt \in Text /\ bn \in Text
  BY SpecialCharacters DEF Text
<1> HIDE DEF bb, bt, bn
<1>2. \A u : Escape(u) = Replace(Replace(Replace(u, Backslash, bb), Tab, bt), NewLine, bn)
  BY DEF Escape, bb, bt, bn
<1> DEFINE y == <<x>>
           s1 == Replace(s, Backslash, bb)
           y1 == Replace(y, Backslash, bb)
           s2 == Replace(s1, Tab, bt)
           y2 == Replace(y1, Tab, bt)
<1>5. y \in Text /\ Append(s, x) = Cat(s, y)
  BY CatOne
<1>6. Escape(y) = Escaped(x)
  BY EscapeOfOne
<1> HIDE DEF y
<1>7. s1 \in Text /\ y1 \in Text /\ Replace(Cat(s, y), Backslash, bb) = Cat(s1, y1)
  BY <1>1, ReplaceText, ReplaceCat, <1>5
<1> HIDE DEF s1, y1
<1>8. s2 \in Text /\ y2 \in Text /\ Replace(Cat(s1, y1), Tab, bt) = Cat(s2, y2)
  BY <1>1, ReplaceText, ReplaceCat, <1>7
<1> HIDE DEF s2, y2
<1>9. /\ Replace(s2, NewLine, bn) \in Text
      /\ Replace(Cat(s2, y2), NewLine, bn) = Cat(Replace(s2, NewLine, bn), Replace(y2, NewLine, bn))
  BY <1>1, ReplaceText, ReplaceCat, <1>8
<1>10. Escape(s) = Replace(s2, NewLine, bn) /\ Escape(y) = Replace(y2, NewLine, bn)
  BY <1>2 DEF s1, s2, y1, y2
<1>11. Escape(Cat(s, y)) = Replace(Cat(s2, y2), NewLine, bn)
  BY <1>2, <1>7, <1>8
<1> QED BY <1>5, <1>6, <1>9, <1>10, <1>11

\* Nothing to escape.
LEMMA EscapeOfNone == Escape(<<>>) = <<>>
BY ReplaceOfNone DEF Escape

\* Escaping makes a text.
LEMMA EscapeText ==
  ASSUME NEW s \in Text
  PROVE  Escape(s) \in Text
BY SpecialCharacters, EscapeStep

\* The state COPY starts in.
StartOfCopy == [columns |-> <<>>, column |-> <<>>, escaped |-> FALSE]

\* What has been read of a text.
Copied(s) == FoldLeft(CopyRead, StartOfCopy, s)

\* f is what FoldLeft builds of CopyRead over the first n characters of u.
FoldsCopy(f, u, n) ==
  f = [S \in SUBSET (1..n) |->
        IF S = {} THEN StartOfCopy ELSE CopyRead(f[S \ {Max(S)}], u[Max(S)])]

\* The fold over some positions exists: the least number of them for which it would not.
LEMMA CopyFold ==
  ASSUME NEW u, NEW n \in Nat
  PROVE  \E f : FoldsCopy(f, u, n)
<1> DEFINE T == {m \in Nat : ~\E f : FoldsCopy(f, u, m)}
<1>1. SUFFICES ASSUME T # {} PROVE FALSE
  OBVIOUS
<1>2. PICK m \in T : \A k \in T : m <= k
  <2> HIDE DEF T
  <2>1. T \subseteq Nat
    BY DEF T
  <2> QED BY <1>1, <2>1, LeastNumber
<1>3. m \in Nat
  OBVIOUS
<1>4. CASE m = 0
  <2> DEFINE f == [S \in SUBSET (1..m) |-> StartOfCopy]
  <2>1. \A S \in SUBSET (1..m) : S = {}
    BY <1>4
  <2>2. FoldsCopy(f, u, m)
    BY <2>1 DEF FoldsCopy
  <2> QED BY <2>2
<1>5. CASE m # 0
  <2>1. m - 1 \in Nat /\ m - 1 \notin T
    BY <1>2, <1>3, <1>5
  <2>2. PICK h : FoldsCopy(h, u, m - 1)
    BY <2>1
  <2> DEFINE f == [S \in SUBSET (1..m) |-> IF m \in S THEN CopyRead(h[S \ {m}], u[m]) ELSE h[S]]
  <2>3. \A S \in SUBSET (1..(m - 1)) :
          h[S] = IF S = {} THEN StartOfCopy ELSE CopyRead(h[S \ {Max(S)}], u[Max(S)])
    BY <2>2 DEF FoldsCopy
  <2>4. ASSUME NEW S \in SUBSET (1..m)
        PROVE  f[S] = IF S = {} THEN StartOfCopy ELSE CopyRead(f[S \ {Max(S)}], u[Max(S)])
    <3>1. CASE m \in S
      <4>1. Max(S) = m
        <5>1. S \subseteq Nat /\ \A k \in S : k <= m
          BY <1>3
        <5> HIDE DEF T
        <5> QED BY <3>1, <5>1, MaxIs
      <4>2. S \ {m} \in SUBSET (1..m) /\ f[S \ {m}] = h[S \ {m}]
        OBVIOUS
      <4>3. f[S] = CopyRead(h[S \ {m}], u[m])
        BY <3>1
      <4> HIDE DEF f
      <4> QED BY <3>1, <4>1, <4>2, <4>3
    <3>2. CASE m \notin S
      <4>1. S \in SUBSET (1..(m - 1))
        BY <1>3, <3>2
      <4>2. f[S] = h[S]
        BY <3>2
      <4>3. S \ {Max(S)} \in SUBSET (1..m) /\ f[S \ {Max(S)}] = h[S \ {Max(S)}]
        BY <3>2
      <4> HIDE DEF f
      <4> QED BY <2>3, <4>1, <4>2, <4>3
    <3> QED BY <3>1, <3>2
  <2>5. f = [S \in SUBSET (1..m) |-> f[S]]
    OBVIOUS
  <2> HIDE DEF f
  <2>6. FoldsCopy(f, u, m)
    BY <2>4, <2>5 DEF FoldsCopy
  <2> QED BY <2>6
<1> QED BY <1>4, <1>5

\* g[k] is what has been read after k characters of u.
IsCopy(g, u) ==
  /\ g[0] = StartOfCopy
  /\ \A k \in 1..Len(u) : g[k] = CopyRead(g[k - 1], u[k])

\* COPY reads a line character by character.
LEMMA FoldIsCopy ==
  ASSUME NEW u \in Text
  PROVE  \E g : IsCopy(g, u) /\ FoldLeft(CopyRead, StartOfCopy, u) = g[Len(u)]
<1> DEFINE n == Len(u)
           f == CHOOSE h : FoldsCopy(h, u, n)
           g == [k \in 0..n |-> f[1..k]]
<1>1. n \in Nat /\ DOMAIN u = 1..n
  OBVIOUS
<1>2. FoldsCopy(f, u, n)
  <2>1. \E h : FoldsCopy(h, u, n)
    BY <1>1, CopyFold
  <2> HIDE DEF n
  <2> QED BY <2>1
<1>3. FoldLeft(CopyRead, StartOfCopy, u) = f[1..n]
  BY <1>1 DEF FoldLeft, MapThenFoldSet, FoldsCopy
<1> HIDE DEF f
<1>4. \A S \in SUBSET (1..n) :
        f[S] = IF S = {} THEN StartOfCopy ELSE CopyRead(f[S \ {Max(S)}], u[Max(S)])
  BY <1>2 DEF FoldsCopy
<1> HIDE DEF n
<1>5. ASSUME NEW k \in 1..n
      PROVE  g[k] = CopyRead(g[k - 1], u[k])
  <2>1. Max(1..k) = k
    <3>1. 1..k \subseteq Nat /\ k \in 1..k /\ \A l \in 1..k : l <= k
      BY <1>1
    <3> DEFINE S == 1..k
    <3> HIDE DEF S
    <3>2. Max(S) = k
      BY <3>1, MaxIs DEF S
    <3> QED BY <3>2 DEF S
  <2>2. (1..k) \ {k} = 1..(k - 1) /\ 1..k # {} /\ 1..k \in SUBSET (1..n)
    BY <1>1
  <2>3. g[k] = f[1..k] /\ g[k - 1] = f[1..(k - 1)]
    BY <1>1
  <2> HIDE DEF g
  <2> QED BY <1>4, <2>1, <2>2, <2>3
<1>6. g[0] = StartOfCopy
  <2>1. 1..0 = {} /\ {} \in SUBSET (1..n) /\ g[0] = f[1..0]
    BY <1>1
  <2> HIDE DEF g
  <2> QED BY <1>4, <2>1
<1>7. g[n] = f[1..n]
  BY <1>1
<1> HIDE DEF g
<1> QED BY <1>3, <1>5, <1>6, <1>7 DEF IsCopy, n

\* Before the first character.
LEMMA CopiedOfNone == Copied(<<>>) = StartOfCopy
<1>1. <<>> \in Text /\ Len(<<>>) = 0
  BY DEF Text
<1>2. PICK g : IsCopy(g, <<>>) /\ FoldLeft(CopyRead, StartOfCopy, <<>>) = g[Len(<<>>)]
  BY <1>1, FoldIsCopy
<1> QED BY <1>1, <1>2 DEF IsCopy, Copied

\* One character more.
LEMMA CopiedStep ==
  ASSUME NEW s \in Text, NEW c \in Character
  PROVE  Copied(Append(s, c)) = CopyRead(Copied(s), c)
<1> DEFINE u == Append(s, c)
           n == Len(s)
<1>1. /\ u \in Text /\ Len(u) = n + 1 /\ u[n + 1] = c /\ n \in Nat
      /\ \A k \in 1..n : u[k] = s[k]
  BY AppendProperties DEF Text
<1> HIDE DEF u
<1>2. PICK g : IsCopy(g, s) /\ FoldLeft(CopyRead, StartOfCopy, s) = g[Len(s)]
  BY FoldIsCopy
<1>3. PICK h : IsCopy(h, u) /\ FoldLeft(CopyRead, StartOfCopy, u) = h[Len(u)]
  BY <1>1, FoldIsCopy
<1>4. g[0] = StartOfCopy /\ \A k \in 1..n : g[k] = CopyRead(g[k - 1], s[k])
  BY <1>2 DEF IsCopy
<1>5. h[0] = StartOfCopy /\ \A k \in 1..(n + 1) : h[k] = CopyRead(h[k - 1], u[k])
  BY <1>1, <1>3 DEF IsCopy
<1> DEFINE T == {k \in 0..n : g[k] = h[k]}
<1> HIDE DEF n
<1>6. 0 \in T
  BY <1>1, <1>4, <1>5
<1>7. ASSUME NEW k \in 1..n, k - 1 \in T
      PROVE  k \in T
  <2>1. k \in 1..(n + 1) /\ k \in 0..n
    BY <1>1
  <2>2. g[k] = CopyRead(g[k - 1], s[k]) /\ h[k] = CopyRead(h[k - 1], u[k]) /\ u[k] = s[k]
    BY <1>1, <1>4, <1>5, <2>1
  <2>3. g[k - 1] = h[k - 1]
    BY <1>7
  <2> QED BY <2>1, <2>2, <2>3
<1> HIDE DEF T
<1>8. \A k \in 0..n : k \in T
  BY <1>1, <1>6, <1>7, EveryStep
<1>9. g[n] = h[n]
  BY <1>1, <1>8 DEF T
<1>10. h[n + 1] = CopyRead(h[n], c)
  <2>1. n + 1 \in 1..(n + 1) /\ (n + 1) - 1 = n
    BY <1>1
  <2>2. h[n + 1] = CopyRead(h[(n + 1) - 1], u[n + 1])
    BY <1>5, <2>1
  <2> QED BY <1>1, <2>1, <2>2
<1>11. Copied(s) = g[n] /\ Copied(u) = h[n + 1]
  BY <1>1, <1>2, <1>3 DEF Copied, n
<1> QED BY <1>9, <1>10, <1>11 DEF u

\* In the middle of a column, p read of it.
Reading(cs, p) == [columns |-> cs, column |-> p, escaped |-> FALSE]

\* COPY reads an escaped character as the character.
LEMMA CopiedEscaped ==
  ASSUME NEW a \in Text, NEW cs, NEW p \in Text, Copied(a) = Reading(cs, p), NEW x \in Character
  PROVE  Copied(Cat(a, Escaped(x))) = Reading(cs, Append(p, x))
<1>1. ASSUME NEW y \in Character
      PROVE  /\ Cat(a, <<Backslash, y>>) = Append(Append(a, Backslash), y)
             /\ Cat(a, <<y>>) = Append(a, y)
             /\ Append(a, Backslash) \in Text
  BY SpecialCharacters, CatOne, CatTwo
<1>2. Copied(Append(a, Backslash)) = [columns |-> cs, column |-> p, escaped |-> TRUE]
  <2>1. Copied(Append(a, Backslash)) = CopyRead(Reading(cs, p), Backslash)
    BY CopiedStep, SpecialCharacters
  <2> QED BY <2>1 DEF CopyRead, Reading
<1>3. ASSUME NEW y \in Character
      PROVE  Copied(Cat(a, <<Backslash, y>>))
               = Reading(cs, Append(p, IF y = "t" THEN Tab ELSE IF y = "n" THEN NewLine ELSE y))
  <2> DEFINE b == Append(a, Backslash)
             m == [columns |-> cs, column |-> p, escaped |-> TRUE]
             z == IF y = "t" THEN Tab ELSE IF y = "n" THEN NewLine ELSE y
  <2>1. Cat(a, <<Backslash, y>>) = Append(b, y) /\ b \in Text /\ Copied(b) = m
    BY <1>1, <1>2
  <2>2. CopyRead(m, y) = Reading(cs, Append(p, z))
    BY DEF CopyRead, Reading
  <2> HIDE DEF b, m, z
  <2>3. Copied(Append(b, y)) = CopyRead(m, y)
    BY <2>1, CopiedStep
  <2>4. Copied(Cat(a, <<Backslash, y>>)) = Reading(cs, Append(p, z))
    BY <2>1, <2>2, <2>3
  <2> QED BY <2>4 DEF z
<1>4. CASE x = Backslash
  BY <1>3, <1>4, SpecialCharacters DEF Escaped
<1>5. CASE x # Backslash /\ x = Tab
  BY <1>3, <1>5, SpecialCharacters DEF Escaped
<1>6. CASE x # Backslash /\ x # Tab /\ x = NewLine
  BY <1>3, <1>6, SpecialCharacters DEF Escaped
<1>7. CASE x # Backslash /\ x # Tab /\ x # NewLine
  <2>1. Copied(Append(a, x)) = CopyRead(Reading(cs, p), x)
    BY CopiedStep
  <2>2. CopyRead(Reading(cs, p), x) = Reading(cs, Append(p, x))
    BY <1>7 DEF CopyRead, Reading
  <2>3. Escaped(x) = <<x>>
    BY <1>7 DEF Escaped
  <2> QED BY <1>1, <2>1, <2>2, <2>3
<1> QED BY <1>4, <1>5, <1>6, <1>7

\* COPY reads an escaped text as the text.
LEMMA CopiedEscape ==
  ASSUME NEW a \in Text, NEW cs, Copied(a) = Reading(cs, <<>>)
  PROVE  \A s \in Text : Copied(Cat(a, Escape(s))) = Reading(cs, s)
<1> DEFINE P == {s \in Text : Copied(Cat(a, Escape(s))) = Reading(cs, s)}
<1>1. <<>> \in P
  <2>1. Cat(a, <<>>) = a /\ <<>> \in Text
    BY CatEmpty
  <2> QED BY <2>1, EscapeOfNone
<1>2. ASSUME NEW s \in Text, NEW x \in Character, s \in P
      PROVE  Append(s, x) \in P
  <2>1. Copied(Cat(a, Escape(s))) = Reading(cs, s)
    BY <1>2
  <2>2. Append(s, x) \in Text
    BY AppendProperties DEF Text
  <2>3. Escape(s) \in Text /\ Escape(Append(s, x)) = Cat(Escape(s), Escaped(x))
    BY EscapeStep
  <2>4. Escaped(x) \in Text
    BY EscapeOfOne
  <2>5. Cat(a, Escape(s)) \in Text
    BY <2>3, CatText
  <2>6. Cat(Cat(a, Escape(s)), Escaped(x)) = Cat(a, Cat(Escape(s), Escaped(x)))
    BY <2>3, <2>4, CatAssociates
  <2>7. Copied(Cat(Cat(a, Escape(s)), Escaped(x))) = Reading(cs, Append(s, x))
    BY <2>1, <2>5, CopiedEscaped
  <2>8. Copied(Cat(a, Escape(Append(s, x)))) = Reading(cs, Append(s, x))
    BY <2>3, <2>6, <2>7
  <2> QED BY <2>2, <2>8
<1> HIDE DEF P
<1>3. \A s \in Text : s \in P
  BY <1>1, <1>2, EveryText DEF Text
<1> QED BY <1>3 DEF P

\* The texts of a line, escaped.
Escapes(ts) == [k \in DOMAIN ts |-> Escape(ts[k])]

\* One column more to be escaped.
LEMMA EscapesStep ==
  ASSUME NEW ts \in Seq(Text), NEW x \in Text
  PROVE  /\ Escapes(ts) \in Seq(Text) /\ Len(Escapes(ts)) = Len(ts)
         /\ Escapes(Append(ts, x)) = Append(Escapes(ts), Escape(x))
<1>1. ASSUME NEW us \in Seq(Text)
      PROVE  /\ Escapes(us) \in Seq(Text) /\ Len(Escapes(us)) = Len(us)
             /\ \A k \in 1..Len(us) : Escapes(us)[k] = Escape(us[k])
  <2>1. DOMAIN us = 1..Len(us) /\ Len(us) \in Nat /\ \A k \in 1..Len(us) : us[k] \in Text
    OBVIOUS
  <2>2. Escapes(us) = [k \in 1..Len(us) |-> Escape(us[k])]
    BY <2>1 DEF Escapes
  <2>3. \A k \in 1..Len(us) : Escape(us[k]) \in Text
    BY <2>1, EscapeText
  <2>4. Escapes(us) \in [1..Len(us) -> Text]
    BY <2>2, <2>3
  <2>5. Escapes(us) \in Seq(Text) /\ Len(Escapes(us)) = Len(us)
    BY <2>1, <2>4, FunctionIsSeq
  <2> QED BY <2>2, <2>5
<1> DEFINE us == Append(ts, x)
           n == Len(ts)
           F == Escapes(ts)
           G == Escapes(us)
           H == Append(F, Escape(x))
<1>2. /\ us \in Seq(Text) /\ Len(us) = n + 1 /\ us[n + 1] = x /\ n \in Nat
      /\ \A k \in 1..n : us[k] = ts[k]
  BY AppendProperties
<1> HIDE DEF us
<1>3. F \in Seq(Text) /\ Len(F) = n /\ \A k \in 1..n : F[k] = Escape(ts[k])
  BY <1>1
<1>4. G \in Seq(Text) /\ Len(G) = n + 1 /\ \A k \in 1..(n + 1) : G[k] = Escape(us[k])
  BY <1>1, <1>2
<1> HIDE DEF n, F, G
<1>5. /\ H \in Seq(Text) /\ Len(H) = n + 1 /\ H[n + 1] = Escape(x)
      /\ \A k \in 1..n : H[k] = F[k]
  <2>1. Escape(x) \in Text
    BY EscapeText
  <2>2. /\ H \in Seq(Text) /\ Len(H) = Len(F) + 1 /\ H[Len(F) + 1] = Escape(x)
        /\ \A k \in 1..Len(F) : H[k] = F[k]
    BY <1>3, <2>1, AppendProperties
  <2> HIDE DEF H
  <2> QED BY <1>3, <2>2
<1> HIDE DEF H
<1>6. ASSUME NEW k \in 1..(n + 1)
      PROVE  G[k] = H[k]
  <2>1. G[k] = Escape(us[k])
    BY <1>4
  <2>2. CASE k = n + 1
    BY <1>2, <1>5, <2>1, <2>2
  <2>3. CASE k # n + 1
    <3>1. k \in 1..n
      BY <1>2, <2>3
    <3> QED BY <1>2, <1>3, <1>5, <2>1, <3>1
  <2> QED BY <2>2, <2>3
<1>7. G = H
  BY <1>4, <1>5, <1>6, SeqEqual
<1> QED BY <1>3, <1>7 DEF us, F, G, H, n

\* COPY reads a line of escaped texts as the texts.
LineIsRead(ts) ==
  LET s == Join(Tab, Escapes(ts)) IN
  s \in Text /\ \E cs \in Seq(Text), p \in Text : Copied(s) = Reading(cs, p) /\ Append(cs, p) = ts

\* COPY reads back any list of texts: the tabs that end columns are told from
\* those in the texts.
LEMMA CopiedLine ==
  \A ts \in Seq(Text) : ts # <<>> => LineIsRead(ts)
<1> DEFINE P == {ts \in Seq(Text) : ts # <<>> => LineIsRead(ts)}
<1>1. <<>> \in P
  OBVIOUS
<1>2. ASSUME NEW ts \in Seq(Text), NEW x \in Text, ts \in P
      PROVE  Append(ts, x) \in P
  <2> DEFINE us == Append(ts, x)
             e == Escape(x)
  <2>1. us \in Seq(Text)
    OBVIOUS
  <2>2. e \in Text
    BY EscapeText
  <2>3. Escapes(us) = Append(Escapes(ts), e) /\ Escapes(ts) \in Seq(Text)
        /\ Len(Escapes(ts)) = Len(ts)
    BY EscapesStep
  <2>4. Tab \in Character
    BY SpecialCharacters
  <2>5. CASE ts = <<>>
    <3>1. us = <<x>> /\ Escapes(ts) = <<>>
      BY <2>3, <2>5 DEF Escapes
    <3>2. Escapes(us) = <<e>>
      <4> HIDE DEF e, us
      <4> QED BY <2>3, <3>1
    <3>3. Join(Tab, Escapes(us)) = e
      <4> HIDE DEF e, us
      <4> QED BY <2>2, <3>2, JoinOfOne
    <3>4. Copied(e) = Reading(<<>>, x)
      <4>1. Copied(<<>>) = Reading(<<>>, <<>>)
        BY CopiedOfNone DEF StartOfCopy, Reading
      <4>2. <<>> \in Text /\ Cat(<<>>, e) = e
        BY <2>2, CatEmpty
      <4> QED BY <4>1, <4>2, CopiedEscape
    <3>5. Append(<<>>, x) = us
      BY <2>5
    <3>6. <<>> \in Seq(Text)
      OBVIOUS
    <3>7. LineIsRead(us)
      <4> HIDE DEF e, us
      <4> QED BY <2>2, <3>3, <3>4, <3>5, <3>6 DEF LineIsRead
    <3> QED BY <2>1, <3>7
  <2>6. CASE ts # <<>>
    <3> DEFINE s == Join(Tab, Escapes(ts))
               st == Cat(s, <<Tab>>)
    <3>1. LineIsRead(ts)
      BY <1>2, <2>6
    <3>2. PICK cs \in Seq(Text), p \in Text : Copied(s) = Reading(cs, p) /\ Append(cs, p) = ts
      BY <3>1 DEF LineIsRead
    <3>3. Escapes(ts) # <<>>
      BY <2>3, <2>6, EmptySeq
    <3>4. s \in Text /\ Join(Tab, Escapes(us)) = Cat(s, Cat(<<Tab>>, e))
      <4> HIDE DEF e, us
      <4> QED BY <2>2, <2>3, <2>4, <3>3, JoinStep
    <3> HIDE DEF s
    <3>5. Append(s, Tab) = st /\ st \in Text /\ <<Tab>> \in Text
      BY <2>4, <3>4, CatOne
    <3>6. Cat(st, e) = Cat(s, Cat(<<Tab>>, e))
      BY <2>2, <3>4, <3>5, CatAssociates
    <3>7. Copied(st) = CopyRead(Reading(cs, p), Tab)
      BY <2>4, <3>2, <3>4, <3>5, CopiedStep
    <3>8. CopyRead(Reading(cs, p), Tab) = Reading(ts, <<>>)
      BY <3>2, SpecialCharacters DEF CopyRead, Reading
    <3>9. Copied(Cat(st, e)) = Reading(ts, x)
      <4>1. Copied(st) = Reading(ts, <<>>)
        BY <3>7, <3>8
      <4> HIDE DEF st
      <4> QED BY <3>5, <4>1, CopiedEscape
    <3>10. Cat(st, e) \in Text
      BY <2>2, <3>5, CatText
    <3>11. LineIsRead(us)
      <4> HIDE DEF e, st
      <4> QED BY <3>4, <3>6, <3>9, <3>10 DEF LineIsRead, us
    <3> QED BY <2>1, <3>11
  <2> QED BY <2>5, <2>6
<1> HIDE DEF P
<1>3. \A ts \in Seq(Text) : ts \in P
  BY <1>1, <1>2, EveryText
<1> QED BY <1>3 DEF P

\* What validation lets through.
AcceptedRow ==
  [transaction_id : Text, invoice_number : Text, vendor_id : Text,
   transaction_date : {d \in Nat \X Nat \X Nat : RealDate(d)},
   amount : Nat, tax_amount : Nat, currency : Text]

\* The columns of t as bulk_insert_via_copy writes them.
Texts(t) == [ToColumns(t) EXCEPT ![5] = Decimal(t.amount), ![6] = Decimal(t.tax_amount)]

\* They are texts.
LEMMA TextsTyped ==
  ASSUME NEW t \in AcceptedRow
  PROVE  /\ Texts(t) = <<t.transaction_id, t.invoice_number, t.vendor_id,
            DateToString(t.transaction_date),
                         Decimal(t.amount), Decimal(t.tax_amount), t.currency>>
         /\ Texts(t) \in Seq(Text) /\ Texts(t) # <<>>
<1> DEFINE d == DateToString(t.transaction_date)
           a == Decimal(t.amount)
           x == Decimal(t.tax_amount)
<1>1. d \in Text
  <2>1. t.transaction_date \in Nat \X Nat \X Nat
    BY DEF AcceptedRow
  <2> QED BY <2>1, DateTextIs DEF Text
<1>2. a \in Text /\ x \in Text
  <2>1. t.amount \in Nat /\ t.tax_amount \in Nat
    BY DEF AcceptedRow
  <2> QED BY <2>1, DecimalReadsBack
<1>3. t.transaction_id \in Text /\ t.invoice_number \in Text /\ t.vendor_id \in Text
      /\ t.currency \in Text
  BY DEF AcceptedRow
<1>4. Texts(t) = <<t.transaction_id, t.invoice_number, t.vendor_id, d, a, x, t.currency>>
  BY DEF Texts, ToColumns
<1> HIDE DEF d, a, x
<1>5. <<t.transaction_id, t.invoice_number, t.vendor_id, d, a, x, t.currency>> \in Seq(Text)
  BY <1>1, <1>2, <1>3
<1>6. <<t.transaction_id, t.invoice_number, t.vendor_id, d, a, x, t.currency>> # <<>>
  OBVIOUS
<1> QED BY <1>4, <1>5, <1>6 DEF d, a, x

\* COPY reads the columns that were written.
LEMMA CopyReadsBack ==
  ASSUME NEW t \in AcceptedRow
  PROVE  CopiedColumns(CopyLine(t)) = ToColumns(t)
<1> DEFINE ts == Texts(t)
           s == CopyLine(t)
<1>1. s = Join(Tab, Escapes(ts))
  BY DEF CopyLine, Texts, Escapes
<1>2. ts \in Seq(Text) /\ ts # <<>>
  BY TextsTyped
<1>3. PICK cs \in Seq(Text), p \in Text : Copied(s) = Reading(cs, p) /\ Append(cs, p) = ts
  <2>1. LineIsRead(ts)
    BY <1>2, CopiedLine
  <2> HIDE DEF ts, s
  <2> QED BY <1>1, <2>1 DEF LineIsRead
<1>4. CopiedColumns(s) = [ts EXCEPT ![5] = NumberAt(ts[5], 1, Len(ts[5])),
                                    ![6] = NumberAt(ts[6], 1, Len(ts[6]))]
  <2> DEFINE end == Copied(s)
  <2>1. CopiedColumns(s) = LET texts == Append(end.columns, end.column)
                           IN [texts EXCEPT ![5] = NumberAt(texts[5], 1, Len(texts[5])),
                                            ![6] = NumberAt(texts[6], 1, Len(texts[6]))]
    BY DEF CopiedColumns, Copied, StartOfCopy
  <2>2. end.columns = cs /\ end.column = p
    BY <1>3 DEF Reading
  <2>3. Append(end.columns, end.column) = ts
    BY <1>3, <2>2
  <2> HIDE DEF ts, s, end
  <2> QED BY <2>1, <2>3
<1>5. ts = <<t.transaction_id, t.invoice_number, t.vendor_id, DateToString(t.transaction_date),
             Decimal(t.amount), Decimal(t.tax_amount), t.currency>>
  BY TextsTyped
<1>6. /\ NumberAt(Decimal(t.amount), 1, Len(Decimal(t.amount))) = t.amount
      /\ NumberAt(Decimal(t.tax_amount), 1, Len(Decimal(t.tax_amount))) = t.tax_amount
  <2>1. t.amount \in Nat /\ t.tax_amount \in Nat
    BY DEF AcceptedRow
  <2> QED BY <2>1, DecimalReadsBack
<1> HIDE DEF ts, s
<1>7. ts[5] = Decimal(t.amount) /\ ts[6] = Decimal(t.tax_amount)
  BY <1>5
<1>8. CopiedColumns(s) = [ts EXCEPT ![5] = t.amount, ![6] = t.tax_amount]
  BY <1>4, <1>6, <1>7
<1>9. CopiedColumns(s) = ToColumns(t)
  BY <1>5, <1>8 DEF ToColumns
<1> QED BY <1>9 DEF s

-----------------------------------------------------------------------------
(* The characters at a set of positions. *)

\* Two sequences with the same elements.
LEMMA SameElements ==
  ASSUME NEW S, NEW n \in Nat, NEW g, NEW r \in Seq(S), Len(r) = n, DOMAIN g = 1..n,
         g = [k \in 1..n |-> g[k]], \A k \in 1..n : g[k] = r[k]
  PROVE  g = r
<1>1. r = [k \in 1..n |-> r[k]]
  <2>1. DOMAIN r = 1..n
    OBVIOUS
  <2>2. r = [k \in DOMAIN r |-> r[k]]
    OBVIOUS
  <2> QED BY <2>1, <2>2
<1> QED BY <1>1

\* Those of the positions S before k.
Smaller(S, k) == {l \in S : l < k}

\* The positions of S with m - 1 others before them: one.
Ranked(S, m) == {j \in S : Cardinality(Smaller(S, j)) = m - 1}

\* n is the number of elements of S, positions up to b.
Counts(S, n, b) == b \in Nat /\ S \subseteq 1..b /\ IsFiniteSet(S) /\ n = Cardinality(S)
                   /\ n \in Nat

\* Positions can be counted.
LEMMA PositionsCounted ==
  ASSUME NEW b \in Nat, NEW S, S \subseteq 1..b
  PROVE  Counts(S, Cardinality(S), b)
<1>1. IsFiniteSet(1..b)
  BY FS_Interval
<1>2. IsFiniteSet(S)
  BY <1>1, FS_Subset
<1> QED BY <1>2, FS_CardinalityType DEF Counts

\* What Nth chooses.
LEMMA NthIs ==
  ASSUME NEW S, NEW m
  PROVE  Nth(S, m) = CHOOSE k \in Ranked(S, m) : TRUE
BY DEF Nth, Ranked, Smaller

\* A position behind all the others leaves their ranks alone and is the last.
LEMMA RanksGrow ==
  ASSUME NEW S, NEW b, NEW n, Counts(S, n, b)
  PROVE  /\ \A m \in 1..n : Ranked(S \union {b + 1}, m) = Ranked(S, m)
         /\ Ranked(S \union {b + 1}, n + 1) = {b + 1}
         /\ Cardinality(S \union {b + 1}) = n + 1
<1> DEFINE k == b + 1
           T == S \union {k}
<1>1. b \in Nat /\ S \subseteq 1..b /\ IsFiniteSet(S) /\ n = Cardinality(S) /\ n \in Nat
  BY DEF Counts
<1>2. k \notin S /\ \A x \in S : x < k /\ x \in Nat
  BY <1>1
<1>3. Cardinality(T) = n + 1
  BY <1>1, <1>2, FS_AddElement
<1>4. Smaller(T, k) = S
  <2>1. k \in Nat /\ ~(k < k)
    BY <1>1
  <2>2. \A l : l \in T /\ l < k <=> l \in S
    <3> HIDE DEF k
    <3> QED BY <1>2, <2>1
  <2> HIDE DEF k, T
  <2> QED BY <2>2 DEF Smaller
<1>5. ASSUME NEW x \in S
      PROVE  Smaller(T, x) = Smaller(S, x) /\ Cardinality(Smaller(S, x)) \in 0..(n - 1)
  <2>1. Smaller(T, x) = Smaller(S, x)
    BY <1>1, <1>2 DEF Smaller
  <2>2. Smaller(S, x) \subseteq S /\ x \notin Smaller(S, x)
    BY <1>2 DEF Smaller
  <2>3. Smaller(S, x) # S
    BY <2>2
  <2>4. Cardinality(Smaller(S, x)) <= n /\ Cardinality(Smaller(S, x)) # n
    BY <1>1, <2>2, <2>3, FS_Subset
  <2>5. Cardinality(Smaller(S, x)) \in Nat
    BY <1>1, <2>2, FS_Subset, FS_CardinalityType
  <2> QED BY <1>1, <2>1, <2>4, <2>5
<1> HIDE DEF k
<1>6. ASSUME NEW m \in 1..n
      PROVE  Ranked(T, m) = Ranked(S, m)
  <2>1. Cardinality(Smaller(T, k)) # m - 1
    BY <1>1, <1>4
  <2> QED BY <1>5, <2>1 DEF Ranked
<1>7. Ranked(T, n + 1) = {k}
  <2>1. Cardinality(Smaller(T, k)) = (n + 1) - 1
    BY <1>1, <1>4
  <2>2. ASSUME NEW x \in S PROVE Cardinality(Smaller(T, x)) # (n + 1) - 1
    <3>1. Smaller(T, x) = Smaller(S, x) /\ Cardinality(Smaller(S, x)) \in 0..(n - 1)
      BY <1>5
    <3> QED BY <1>1, <3>1
  <2> QED BY <2>1, <2>2 DEF Ranked
<1> QED BY <1>3, <1>6, <1>7 DEF k

\* No positions, no characters.
LEMMA PickedOfNone ==
  ASSUME NEW s
  PROVE  Picked(s, {}) = <<>>
<1>1. Cardinality({}) = 0
  BY FS_EmptySet
<1>2. 1..Cardinality({}) = {}
  BY <1>1
<1> QED BY <1>2 DEF Picked

\* The m-th of the positions is one of them.
LEMMA NthIn ==
  \A b \in Nat : \A S \in SUBSET (1..b) : \A m \in 1..Cardinality(S) : Nth(S, m) \in S
<1> DEFINE T == {b \in Nat :
                   \A S \in SUBSET (1..b) : \A m \in 1..Cardinality(S) : Ranked(S, m) # {}}
<1> DEFINE B == {b \in Nat : b \notin T}
<1>1. ASSUME NEW b \in Nat, b = 0 \/ b - 1 \in T
      PROVE  b \in T
  <2> SUFFICES ASSUME NEW S \in SUBSET (1..b), NEW m \in 1..Cardinality(S)
               PROVE  Ranked(S, m) # {}
    OBVIOUS
  <2>1. CASE b = 0
    <3>1. S = {}
      BY <2>1
    <3>2. Cardinality(S) = 0
      BY <3>1, FS_EmptySet
    <3> QED BY <3>2
  <2>2. CASE b # 0
    <3> DEFINE R == S \ {b}
    <3>1. b - 1 \in Nat /\ b - 1 \in T /\ (b - 1) + 1 = b
      BY <1>1, <2>2
    <3>2. R \subseteq 1..(b - 1)
      BY <2>2
    <3>3. \A l \in 1..Cardinality(R) : Ranked(R, l) # {}
      BY <3>1, <3>2
    <3> HIDE DEF T, B
    <3>4. CASE b \notin S
      <4>1. R = S
        BY <3>4
      <4> QED BY <3>3, <4>1
    <3>5. CASE b \in S
      <4> DEFINE n == Cardinality(R)
      <4>1. S = R \union {b}
        BY <3>5
      <4> HIDE DEF R
      <4>2. Counts(R, n, b - 1)
        BY <3>1, <3>2, PositionsCounted
      <4>3. n \in Nat
        BY <4>2 DEF Counts
      <4> HIDE DEF n
      <4>4. /\ \A l \in 1..n : Ranked(R \union {(b - 1) + 1}, l) = Ranked(R, l)
            /\ Ranked(R \union {(b - 1) + 1}, n + 1) = {(b - 1) + 1}
            /\ Cardinality(R \union {(b - 1) + 1}) = n + 1
        BY <4>2, RanksGrow
      <4>5. /\ \A l \in 1..n : Ranked(S, l) = Ranked(R, l)
            /\ Ranked(S, n + 1) = {b}
            /\ Cardinality(S) = n + 1
        BY <3>1, <4>1, <4>4
      <4>6. m \in 1..n \/ m = n + 1
        BY <4>3, <4>5
      <4> QED BY <3>3, <4>5, <4>6 DEF n
    <3> QED BY <3>4, <3>5
  <2> QED BY <2>1, <2>2
<1>2. B = {}
  <2> SUFFICES ASSUME B # {} PROVE FALSE
    OBVIOUS
  <2>1. PICK k \in B : \A l \in B : k <= l
    <3>1. B \subseteq Nat
      OBVIOUS
    <3> HIDE DEF B
    <3> QED BY <3>1, LeastNumber
  <2>2. k \in Nat /\ k \notin T
    OBVIOUS
  <2>3. k = 0 \/ k - 1 \in T
    <3>1. k # 0 => k - 1 \in Nat /\ ~(k <= k - 1)
      BY <2>2
    <3> HIDE DEF T
    <3> QED BY <2>1, <3>1
  <2> QED BY <1>1, <2>2, <2>3
<1>3. \A b \in Nat : b \in T
  BY <1>2
<1> SUFFICES ASSUME NEW b \in Nat, NEW S \in SUBSET (1..b), NEW m \in 1..Cardinality(S)
             PROVE  Nth(S, m) \in S
  OBVIOUS
<1>4. Ranked(S, m) # {}
  BY <1>3
<1>5. Ranked(S, m) \subseteq S
  BY DEF Ranked
<1> QED BY <1>4, <1>5, NthIs

\* One position more, behind the others: one character more.
LEMMA PickedGrows ==
  ASSUME NEW s \in Text, NEW x \in Character, NEW S, S \subseteq 1..Len(s)
  PROVE  /\ Picked(s, S) \in Text
         /\ Picked(Append(s, x), S) = Picked(s, S)
         /\ Picked(Append(s, x), S \union {Len(s) + 1}) = Append(Picked(s, S), x)
<1> DEFINE b == Len(s)
           t == Append(s, x)
           n == Cardinality(S)
           p == Picked(s, S)
           T == S \union {b + 1}
           q == Picked(t, T)
<1>1. /\ b \in Nat /\ t[b + 1] = x /\ \A k \in 1..b : t[k] = s[k] /\ s[k] \in Character
  BY AppendProperties DEF Text
<1> HIDE DEF t
<1>2. Counts(S, n, b)
  BY <1>1, PositionsCounted
<1>3. n \in Nat
  BY <1>2 DEF Counts
<1>4. \A m \in 1..n : Nth(S, m) \in 1..b
  BY <1>1, NthIn
<1>5. p = [m \in 1..n |-> s[Nth(S, m)]]
  BY DEF Picked
<1> HIDE DEF n, b
<1>6. p \in [1..n -> Character]
  BY <1>1, <1>4, <1>5
<1> HIDE DEF p
<1>7. p \in Seq(Character) /\ Len(p) = n
  BY <1>3, <1>6, FunctionIsSeq
<1>8. Picked(t, S) = p
  <2>1. Picked(t, S) = [m \in 1..n |-> t[Nth(S, m)]]
    BY DEF Picked, n
  <2> QED BY <1>1, <1>4, <1>5, <2>1
<1>9. /\ \A m \in 1..n : Ranked(T, m) = Ranked(S, m)
      /\ Ranked(T, n + 1) = {b + 1} /\ Cardinality(T) = n + 1
  BY <1>2, RanksGrow
<1>10. /\ \A m \in 1..n : Nth(T, m) = Nth(S, m)
       /\ Nth(T, n + 1) = b + 1
  BY <1>9, NthIs
<1> HIDE DEF T
<1>11. q = [m \in 1..(n + 1) |-> t[Nth(T, m)]]
  BY <1>9 DEF Picked
<1> HIDE DEF q
<1> DEFINE r == Append(p, x)
<1>12. /\ r \in Seq(Character) /\ Len(r) = n + 1 /\ r[n + 1] = x
       /\ \A m \in 1..n : r[m] = p[m]
  BY <1>7, AppendProperties
<1> HIDE DEF r
<1>13. ASSUME NEW m \in 1..(n + 1)
       PROVE  q[m] = r[m]
  <2>1. q[m] = t[Nth(T, m)]
    BY <1>11
  <2>2. CASE m = n + 1
    BY <1>1, <1>10, <1>12, <2>1, <2>2
  <2>3. CASE m # n + 1
    <3>1. m \in 1..n
      BY <1>3, <2>3
    <3>2. q[m] = s[Nth(S, m)]
      BY <1>1, <1>4, <1>10, <2>1, <3>1
    <3> QED BY <1>5, <1>12, <3>1, <3>2
  <2> QED BY <2>2, <2>3
<1>14. q = r
  <2>1. r = [m \in 1..(n + 1) |-> r[m]]
    <3>1. DOMAIN r = 1..(n + 1)
      BY <1>12
    <3>2. r = [m \in DOMAIN r |-> r[m]]
      BY <1>12
    <3> QED BY <3>1, <3>2
  <2> QED BY <1>11, <1>13, <2>1
<1> QED BY <1>7, <1>8, <1>14 DEF p, q, r, t, T, b, Text

-----------------------------------------------------------------------------
(* The fields of a text, one character after the other. *)

\* The separators of s, how many precede k, and the positions of the n-th field.
Seps(s) == {k \in DOMAIN s : Separates(s, k)}

Before(s, k) == Cardinality(Smaller(Seps(s), k))

Part(s, n) == {k \in DOMAIN s : Keeps(s, k) /\ Before(s, k) = n - 1}

\* FieldsOf in these words.
LEMMA FieldsAre ==
  ASSUME NEW s
  PROVE  FieldsOf(s) = [n \in 1..(Cardinality(Seps(s)) + 1) |-> Picked(s, Part(s, n))]
<1> DEFINE separators == {k \in DOMAIN s : Separates(s, k)}
           kept == {k \in DOMAIN s : Keeps(s, k)}
           B(k) == Cardinality({c \in separators : c < k})
<1>1. \A n : {k \in kept : B(k) = n - 1} = Part(s, n)
  BY DEF Part, Before, Seps, Smaller
<1>2. FieldsOf(s) = [n \in 1..(Cardinality(separators) + 1) |->
                      Picked(s, {k \in kept : B(k) = n - 1})]
  BY DEF FieldsOf
<1>3. separators = Seps(s)
  BY DEF Seps
<1> HIDE DEF separators, kept, B
<1> QED BY <1>1, <1>2, <1>3

\* x separates behind s, or is kept.
EndsField(s, x) == x = Comma /\ Outside(s, Len(s) + 1)

\* x is kept behind s.
IsKept(s, x) ==
  IF x = Quote THEN Len(s) >= 1 /\ s[Len(s)] = Quote /\ Outside(s, Len(s) + 1)
  ELSE ~EndsField(s, x)

\* What stands before a character decides about it.
LEMMA PrefixStays ==
  ASSUME NEW s \in Text, NEW x \in Character
  PROVE  LET t == Append(s, x)
             n == Len(s)
         IN /\ \A k \in 1..(n + 1) : Outside(t, k) <=> Outside(s, k)
            /\ \A k \in 1..n :
                 (Separates(t, k) <=> Separates(s, k)) /\ (Keeps(t, k) <=> Keeps(s, k))
            /\ Separates(t, n + 1) <=> EndsField(s, x)
            /\ Keeps(t, n + 1) <=> IsKept(s, x)
<1> DEFINE t == Append(s, x)
           n == Len(s)
<1>1. /\ n \in Nat /\ DOMAIN s = 1..n /\ DOMAIN t = 1..(n + 1)
      /\ t[n + 1] = x /\ \A k \in 1..n : t[k] = s[k]
  BY AppendProperties DEF Text
<1> HIDE DEF t
<1>2. ASSUME NEW k \in 1..(n + 1)
      PROVE  Outside(t, k) <=> Outside(s, k)
  <2>1. {q \in Quotes(t) : q < k} = {q \in Quotes(s) : q < k}
    <3> HIDE DEF n
    <3> QED BY <1>1 DEF Quotes
  <2> QED BY <2>1 DEF Outside
<1>3. ASSUME NEW k \in 1..n
      PROVE  (Separates(t, k) <=> Separates(s, k)) /\ (Keeps(t, k) <=> Keeps(s, k))
  <2>1. k \in 1..(n + 1) /\ t[k] = s[k]
    BY <1>1
  <2>2. k > 1 => t[k - 1] = s[k - 1]
    <3>1. k > 1 => k - 1 \in 1..n
      BY <1>1
    <3> QED BY <1>1, <3>1
  <2>3. Outside(t, k) <=> Outside(s, k)
    BY <1>2, <2>1
  <2>4. Separates(t, k) <=> Separates(s, k)
    BY <2>1, <2>3 DEF Separates
  <2> QED BY <2>1, <2>2, <2>3, <2>4 DEF Keeps
<1>4. n + 1 \in 1..(n + 1) /\ (n + 1) - 1 = n
  BY <1>1
<1>5. Outside(t, n + 1) <=> Outside(s, n + 1)
  BY <1>2, <1>4
<1>6. Separates(t, n + 1) <=> EndsField(s, x)
  BY <1>1, <1>5 DEF Separates, EndsField
<1>7. Keeps(t, n + 1) <=> IsKept(s, x)
  <2>1. CASE x = Quote
    <3>1. n + 1 > 1 <=> n >= 1
      BY <1>1
    <3>2. n >= 1 => t[(n + 1) - 1] = s[n]
      BY <1>1, <1>4
    <3> QED BY <1>1, <1>5, <2>1, <3>1, <3>2 DEF Keeps, IsKept
  <2>2. CASE x # Quote
    BY <1>1, <1>6, <2>2 DEF Keeps, IsKept
  <2> QED BY <2>1, <2>2
<1> QED BY <1>2, <1>3, <1>6, <1>7 DEF t

\* The separators can be counted.
LEMMA SepsCounted ==
  ASSUME NEW s \in Text
  PROVE  /\ Counts(Seps(s), Cardinality(Seps(s)), Len(s))
         /\ \A k : Before(s, k) \in 0..Cardinality(Seps(s))
<1>1. Len(s) \in Nat /\ DOMAIN s = 1..Len(s)
  BY DEF Text
<1>2. Seps(s) \subseteq 1..Len(s)
  BY <1>1 DEF Seps
<1>3. Counts(Seps(s), Cardinality(Seps(s)), Len(s))
  BY <1>1, <1>2, PositionsCounted
<1>4. ASSUME NEW k
      PROVE  Before(s, k) \in 0..Cardinality(Seps(s))
  <2>1. Smaller(Seps(s), k) \subseteq Seps(s)
    BY DEF Smaller
  <2>2. IsFiniteSet(Seps(s)) /\ Cardinality(Seps(s)) \in Nat
    BY <1>3 DEF Counts
  <2>3. /\ Cardinality(Smaller(Seps(s), k)) <= Cardinality(Seps(s))
        /\ Cardinality(Smaller(Seps(s), k)) \in Nat
    BY <2>1, <2>2, FS_Subset, FS_CardinalityType
  <2> QED BY <2>2, <2>3 DEF Before
<1> QED BY <1>3, <1>4

\* What becomes of the separators and of the parts.
LEMMA PartsGrow ==
  ASSUME NEW s \in Text, NEW x \in Character, NEW N, N = Cardinality(Seps(s)) + 1
  PROVE  LET t == Append(s, x)
             b == Len(s) + 1
         IN /\ N \in Nat
            /\ Cardinality(Seps(t)) + 1 = (IF EndsField(s, x) THEN N + 1 ELSE N)
            /\ \A n \in 1..N :
                 Part(t, n) = IF IsKept(s, x) /\ n = N THEN Part(s, n) \union {b} ELSE Part(s, n)
            /\ EndsField(s, x) => Part(t, N + 1) = {}
            /\ \A n \in Nat : Part(s, n) \subseteq 1..Len(s)
<1> DEFINE t == Append(s, x)
           b == Len(s) + 1
           S == Seps(s)
           T == Seps(t)
<1>1. /\ Len(s) \in Nat /\ DOMAIN s = 1..Len(s) /\ DOMAIN t = 1..b /\ t \in Text
  BY AppendProperties DEF Text
<1>2. /\ \A k \in 1..Len(s) : (Separates(t, k) <=> Separates(s, k)) /\ (Keeps(t, k) <=> Keeps(s, k))
      /\ Separates(t, b) <=> EndsField(s, x)
      /\ Keeps(t, b) <=> IsKept(s, x)
  BY PrefixStays
<1> HIDE DEF t
<1>3. b \in Nat /\ b \in 1..b /\ b \notin 1..Len(s) /\ \A k \in 1..b : k = b \/ k \in 1..Len(s)
  BY <1>1
<1>4. T = IF EndsField(s, x) THEN S \union {b} ELSE S
  <2>1. \A k : k \in T <=> k \in S \/ (k = b /\ EndsField(s, x))
    <3> HIDE DEF b
    <3> QED BY <1>1, <1>2, <1>3 DEF Seps
  <2> HIDE DEF S, T
  <2> QED BY <2>1
<1>5. IsFiniteSet(S) /\ Cardinality(S) \in Nat /\ S \subseteq 1..Len(s)
      /\ \A k : Before(s, k) \in 0..Cardinality(S)
  BY SepsCounted DEF Counts
<1>6. N \in Nat /\ Cardinality(T) + 1 = (IF EndsField(s, x) THEN N + 1 ELSE N)
  <2>1. Cardinality(S \union {b}) = Cardinality(S) + 1
    <3>1. b \notin S
      BY <1>3, <1>5
    <3> HIDE DEF S, b
    <3> QED BY <1>5, <3>1, FS_AddElement
  <2> HIDE DEF T
  <2> QED BY <1>4, <1>5, <2>1
<1>7. ASSUME NEW k \in 1..b
      PROVE  Before(t, k) = Cardinality(Smaller(S, k)) /\ Before(t, k) = Before(s, k)
  <2>1. k \in Nat /\ ~(b < k)
    BY <1>1, <1>3
  <2>2. Smaller(T, k) = Smaller(S, k)
    <3> HIDE DEF S, T, b
    <3> QED BY <1>4, <2>1 DEF Smaller
  <2> QED BY <2>2 DEF Before
<1>8. Before(t, b) = Cardinality(S)
  <2>1. Smaller(S, b) = S
    <3>1. \A k \in S : k < b
      BY <1>1, <1>5
    <3> HIDE DEF S
    <3> QED BY <3>1 DEF Smaller
  <2> QED BY <1>3, <1>7, <2>1
<1>9. ASSUME NEW n \in Nat
      PROVE  \A k : k \in Part(t, n) <=> k \in Part(s, n) \/ (k = b /\ IsKept(s, x) /\ n = N)
  <2>1. ASSUME NEW k \in 1..Len(s)
        PROVE  k \in Part(t, n) <=> k \in Part(s, n)
    <3>1. k \in 1..b /\ Before(t, k) = Before(s, k)
      BY <1>1, <1>7
    <3> QED BY <1>1, <1>2, <3>1 DEF Part
  <2>2. b \in Part(t, n) <=> IsKept(s, x) /\ n = N
    <3>1. Cardinality(S) = n - 1 <=> n = N
      BY <1>5
    <3> HIDE DEF S, b
    <3> QED BY <1>1, <1>2, <1>3, <1>8, <3>1 DEF Part
  <2>3. \A k : k \in Part(t, n) => k \in 1..b
    BY <1>1 DEF Part
  <2>4. \A k : k \in Part(s, n) => k \in 1..Len(s)
    BY <1>1 DEF Part
  <2> HIDE DEF b
  <2> QED BY <1>3, <2>1, <2>2, <2>3, <2>4
<1>10. ASSUME NEW n \in 1..N
       PROVE  Part(t, n) = IF IsKept(s, x) /\ n = N THEN Part(s, n) \union {b} ELSE Part(s, n)
  <2>1. \A k : k \in Part(t, n) <=> k \in Part(s, n) \/ (k = b /\ IsKept(s, x) /\ n = N)
    BY <1>6, <1>9
  <2> QED BY <2>1
<1>11. EndsField(s, x) => Part(t, N + 1) = {}
  <2>1. ~(N + 1 = N) /\ N + 1 \in Nat
    BY <1>6
  <2>2. \A k : k \in Part(t, N + 1) <=> k \in Part(s, N + 1)
    BY <1>9, <2>1
  <2>3. \A k : Before(s, k) # (N + 1) - 1
    <3> SUFFICES ASSUME NEW k PROVE Before(s, k) # (N + 1) - 1
      OBVIOUS
    <3>1. Before(s, k) \in 0..Cardinality(S)
      BY <1>5
    <3> QED BY <1>5, <3>1
  <2>4. \A k : k \notin Part(s, N + 1)
    BY <2>3 DEF Part
  <2> QED BY <2>2, <2>4
<1>12. \A n \in Nat : Part(s, n) \subseteq 1..Len(s)
  BY <1>1 DEF Part
<1> QED BY <1>6, <1>10, <1>11, <1>12 DEF t

\* The n-th field of s.
Field(s, n) == Picked(s, Part(s, n))

\* What one character more does to every field.
LEMMA FieldsGrowBy ==
  ASSUME NEW s \in Text, NEW x \in Character, NEW N, N = Cardinality(Seps(s)) + 1
  PROVE  LET t == Append(s, x)
         IN /\ N \in Nat \ {0} /\ \A n \in 1..N : Field(s, n) \in Text
            /\ FieldsOf(s) = [n \in 1..N |-> Field(s, n)]
            /\ FieldsOf(t) = [n \in 1..(IF EndsField(s, x) THEN N + 1 ELSE N) |-> Field(t, n)]
            /\ \A n \in 1..N :
                 Field(t, n) = IF IsKept(s, x) /\ n = N THEN Append(Field(s, n), x) ELSE Field(s, n)
            /\ EndsField(s, x) => Field(t, N + 1) = <<>>
<1> DEFINE t == Append(s, x)
<1>1. /\ N \in Nat
      /\ Cardinality(Seps(t)) + 1 = (IF EndsField(s, x) THEN N + 1 ELSE N)
      /\ \A n \in 1..N :
           Part(t, n) = IF IsKept(s, x) /\ n = N THEN Part(s, n) \union {Len(s) + 1} ELSE Part(s, n)
      /\ EndsField(s, x) => Part(t, N + 1) = {}
      /\ \A n \in Nat : Part(s, n) \subseteq 1..Len(s)
  BY PartsGrow
<1>2. N \in Nat \ {0}
  <2>1. Cardinality(Seps(s)) \in Nat
    BY SepsCounted DEF Counts
  <2> QED BY <2>1
<1>3. FieldsOf(s) = [n \in 1..N |-> Field(s, n)]
  BY FieldsAre DEF Field
<1>4. FieldsOf(t) = [n \in 1..(IF EndsField(s, x) THEN N + 1 ELSE N) |-> Field(t, n)]
  <2> HIDE DEF t
  <2> QED BY <1>1, FieldsAre DEF Field
<1>5. ASSUME NEW n \in 1..N
      PROVE  /\ Field(s, n) \in Text
             /\ Field(t, n) = IF IsKept(s, x) /\ n = N THEN Append(Field(s, n), x) ELSE Field(s, n)
  <2> DEFINE P == Part(s, n)
  <2>1. P \subseteq 1..Len(s)
    BY <1>1
  <2>2. Part(t, n) = IF IsKept(s, x) /\ n = N THEN P \union {Len(s) + 1} ELSE P
    BY <1>1
  <2> HIDE DEF P, t
  <2>3. /\ Picked(s, P) \in Text
        /\ Picked(Append(s, x), P) = Picked(s, P)
        /\ Picked(Append(s, x), P \union {Len(s) + 1}) = Append(Picked(s, P), x)
    BY <2>1, PickedGrows
  <2> QED BY <2>2, <2>3 DEF P, t, Field
<1>6. EndsField(s, x) => Field(t, N + 1) = <<>>
  <2> HIDE DEF t
  <2> QED BY <1>1, PickedOfNone DEF Field
<1> QED BY <1>2, <1>3, <1>4, <1>5, <1>6

\* One character more: a field ends, or the last one grows, or nothing.
LEMMA FieldsStep ==
  ASSUME NEW s \in Text, NEW x \in Character, NEW fs \in Seq(Text), NEW p \in Text,
         FieldsOf(s) = Append(fs, p)
  PROVE  LET t == Append(s, x)
         IN /\ EndsField(s, x) => FieldsOf(t) = Append(Append(fs, p), <<>>)
            /\ IsKept(s, x) => FieldsOf(t) = Append(fs, Append(p, x))
            /\ ~EndsField(s, x) /\ ~IsKept(s, x) => FieldsOf(t) = Append(fs, p)
<1> DEFINE t == Append(s, x)
           N == Cardinality(Seps(s)) + 1
           F == FieldsOf(s)
           G == FieldsOf(t)
<1>1. /\ N \in Nat \ {0} /\ \A n \in 1..N : Field(s, n) \in Text
      /\ F = [n \in 1..N |-> Field(s, n)]
      /\ G = [n \in 1..(IF EndsField(s, x) THEN N + 1 ELSE N) |-> Field(t, n)]
      /\ \A n \in 1..N :
           Field(t, n) = IF IsKept(s, x) /\ n = N THEN Append(Field(s, n), x) ELSE Field(s, n)
      /\ EndsField(s, x) => Field(t, N + 1) = <<>>
  BY FieldsGrowBy
<1>2. F = Append(fs, p) /\ F \in Seq(Text) /\ Len(F) = Len(fs) + 1 /\ Len(fs) \in Nat
  BY AppendProperties
<1> HIDE DEF N, F, G, t
<1>3. Len(F) = N
  <2>1. F \in [1..N -> Text]
    BY <1>1
  <2> QED BY <1>1, <2>1, FunctionIsSeq
<1>4. \A n \in 1..N : F[n] = Field(s, n)
  BY <1>1
<1>5. N \in 1..N /\ N + 1 \notin 1..N
  BY <1>1
<1>6. ~(EndsField(s, x) /\ IsKept(s, x))
  BY DEF EndsField, IsKept, Comma, Quote
<1>7. CASE EndsField(s, x)
  <2> DEFINE r == Append(F, <<>>)
  <2>1. /\ r \in Seq(Text) /\ Len(r) = N + 1 /\ r[N + 1] = <<>>
        /\ \A n \in 1..N : r[n] = F[n]
    <3>1. <<>> \in Text
      BY DEF Text
    <3> HIDE DEF F
    <3> QED BY <1>2, <1>3, <3>1, AppendProperties
  <2> HIDE DEF r
  <2>2. G = [n \in 1..(N + 1) |-> Field(t, n)]
    BY <1>1, <1>7
  <2>3. ASSUME NEW n \in 1..(N + 1) PROVE G[n] = r[n]
    <3>1. G[n] = Field(t, n)
      BY <2>2
    <3>2. CASE n = N + 1
      BY <1>1, <1>7, <2>1, <3>1, <3>2
    <3>3. CASE n # N + 1
      <4>1. n \in 1..N
        BY <1>1, <3>3
      <4> QED BY <1>1, <1>4, <1>6, <1>7, <2>1, <3>1, <4>1
    <3> QED BY <3>2, <3>3
  <2>4. DOMAIN G = 1..(N + 1) /\ G = [k \in 1..(N + 1) |-> G[k]] /\ N + 1 \in Nat
    BY <1>1, <2>2
  <2>5. G = r
    BY <2>1, <2>3, <2>4, SameElements
  <2> QED BY <1>2, <1>6, <1>7, <2>5 DEF r, G, t
<1>8. CASE ~EndsField(s, x)
  <2>1. G = [n \in 1..N |-> Field(t, n)]
    BY <1>1, <1>8
  <2>2. DOMAIN G = 1..N /\ G = [k \in 1..N |-> G[k]] /\ N \in Nat
    BY <1>1, <2>1
  <2>3. CASE IsKept(s, x)
    <3> DEFINE q == Append(p, x)
               r == Append(fs, q)
    <3>1. q \in Text
      BY AppendProperties DEF Text
    <3>2. F[N] = p /\ \A n \in 1..N : n # N => F[n] = fs[n]
      <4>1. Append(fs, p)[Len(fs) + 1] = p /\ \A n \in 1..Len(fs) : Append(fs, p)[n] = fs[n]
        BY AppendProperties
      <4>2. \A n \in 1..N : n # N => n \in 1..Len(fs)
        BY <1>2, <1>3
      <4> QED BY <1>2, <1>3, <4>1, <4>2
    <3>3. /\ r \in Seq(Text) /\ Len(r) = N /\ r[N] = q
          /\ \A n \in 1..N : n # N => r[n] = fs[n]
      <4> HIDE DEF q
      <4>1. /\ r \in Seq(Text) /\ Len(r) = Len(fs) + 1 /\ r[Len(fs) + 1] = q
            /\ \A n \in 1..Len(fs) : r[n] = fs[n]
        BY <3>1, AppendProperties
      <4>2. \A n \in 1..N : n # N => n \in 1..Len(fs)
        BY <1>2, <1>3
      <4> QED BY <1>2, <1>3, <4>1, <4>2
    <3> HIDE DEF r
    <3>4. ASSUME NEW n \in 1..N PROVE G[n] = r[n]
      <4>1. G[n] = Field(t, n)
        BY <2>1
      <4>2. CASE n = N
        <5>1. G[n] = Append(Field(s, N), x)
          BY <1>1, <1>5, <2>3, <4>1, <4>2
        <5>2. Field(s, N) = p
          BY <1>4, <1>5, <3>2
        <5> QED BY <3>3, <4>2, <5>1, <5>2
      <4>3. CASE n # N
        BY <1>1, <1>4, <3>2, <3>3, <4>1, <4>3
      <4> QED BY <4>2, <4>3
    <3>5. G = r
      BY <2>2, <3>3, <3>4, SameElements
    <3> QED BY <1>8, <2>3, <3>5 DEF r, G, t
  <2>4. CASE ~IsKept(s, x)
    <3>1. \A n \in 1..N : G[n] = F[n]
      BY <1>1, <1>4, <2>1, <2>4
    <3>2. G = F
      <4>1. F \in Seq(Text) /\ Len(F) = N
        BY <1>2, <1>3
      <4> HIDE DEF F, G
      <4> QED BY <2>2, <3>1, <4>1, SameElements
    <3> QED BY <1>2, <1>8, <2>4, <3>2 DEF G, t
  <2> QED BY <2>3, <2>4
<1> QED BY <1>7, <1>8

\* The empty text has one field, the empty one.
LEMMA FieldsOfNone ==
  FieldsOf(<<>>) = Append(<<>>, <<>>)
<1>1. Seps(<<>>) = {} /\ \A n : Part(<<>>, n) = {}
  BY DEF Seps, Part
<1>2. Cardinality(Seps(<<>>)) + 1 = 1
  BY <1>1, FS_EmptySet
<1>3. FieldsOf(<<>>) = [n \in 1..1 |-> <<>>]
  BY <1>1, <1>2, FieldsAre, PickedOfNone
<1>4. [n \in 1..1 |-> <<>>] = Append(<<>>, <<>>)
  <2>1. <<>> \in Seq({<<>>}) /\ Len(<<>>) = 0
    OBVIOUS
  <2> DEFINE g == [n \in 1..1 |-> <<>>]
             r == Append(<<>>, <<>>)
  <2>2. r \in Seq({<<>>}) /\ Len(r) = 1 /\ r[1] = <<>>
    OBVIOUS
  <2>3. DOMAIN g = 1..1 /\ g = [k \in 1..1 |-> g[k]] /\ \A k \in 1..1 : g[k] = r[k]
    BY <2>2
  <2> HIDE DEF g, r
  <2> QED BY <2>2, <2>3, SameElements DEF g, r
<1> QED BY <1>3, <1>4

-----------------------------------------------------------------------------
(* The scanner and the fields. *)

\* The part of s before position k.
Behind(s, k) == SubSeq(s, 1, k - 1)

\* The scanner's next character is appended to what lies behind it.
LEMMA BehindStep ==
  ASSUME NEW s \in Text, NEW k \in 1..Len(s)
  PROVE  /\ k \in Nat /\ s[k] \in Character
         /\ Behind(s, k) \in Text /\ Len(Behind(s, k)) = k - 1
         /\ \A j \in 1..(k - 1) : Behind(s, k)[j] = s[j]
         /\ Behind(s, k + 1) = Append(Behind(s, k), s[k])
<1> DEFINE b == Behind(s, k)
           c == Behind(s, k + 1)
           r == Append(b, s[k])
<1>1. Len(s) \in Nat /\ k \in Nat /\ k - 1 \in Nat /\ k <= Len(s) /\ s[k] \in Character
  BY DEF Text
<1>2. b = [j \in 1..(k - 1) |-> s[j]]
  BY <1>1 DEF Behind
<1>3. c = [j \in 1..k |-> s[j]]
  BY <1>1 DEF Behind
<1>4. \A j \in 1..k : s[j] \in Character
  BY <1>1 DEF Text
<1> HIDE DEF b, c
<1>5. b \in Seq(Character) /\ Len(b) = k - 1
  <2>1. \A j \in 1..(k - 1) : j \in 1..k
    BY <1>1
  <2>2. b \in [1..(k - 1) -> Character]
    BY <1>2, <1>4, <2>1
  <2> QED BY <1>1, <2>2, FunctionIsSeq
<1>6. /\ r \in Seq(Character) /\ Len(r) = (k - 1) + 1 /\ r[(k - 1) + 1] = s[k]
      /\ \A j \in 1..(k - 1) : r[j] = b[j]
  BY <1>1, <1>5, AppendProperties
<1> HIDE DEF r
<1>7. c = r
  <2>1. Len(r) = k /\ r[k] = s[k]
    BY <1>1, <1>6
  <2>2. ASSUME NEW j \in 1..k PROVE c[j] = r[j]
    <3>1. c[j] = s[j]
      BY <1>3
    <3>2. j = k \/ j \in 1..(k - 1)
      BY <1>1
    <3> QED BY <1>2, <1>6, <2>1, <3>1, <3>2
  <2>3. DOMAIN c = 1..k /\ c = [j \in 1..k |-> c[j]]
    BY <1>3
  <2>4. r \in Seq(Character)
    BY <1>6
  <2> HIDE DEF c, r
  <2> QED BY <1>1, <2>1, <2>2, <2>3, <2>4, SameElements
<1>8. \A j \in 1..(k - 1) : b[j] = s[j]
  BY <1>2
<1> QED BY <1>1, <1>5, <1>7, <1>8 DEF b, c, r, Text

\* What precedes a position decides whether it lies outside quotes.
LEMMA BehindOutside ==
  ASSUME NEW s \in Text, NEW k \in 1..Len(s)
  PROVE  Outside(Behind(s, k), k) <=> Outside(s, k)
<1> DEFINE b == Behind(s, k)
<1>1. /\ k \in Nat /\ b \in Text /\ Len(b) = k - 1 /\ \A j \in 1..(k - 1) : b[j] = s[j]
  BY BehindStep
<1> HIDE DEF b
<1>2. DOMAIN b = 1..(k - 1) /\ DOMAIN s = 1..Len(s) /\ Len(s) \in Nat
  BY <1>1 DEF Text
<1>3. {q \in Quotes(b) : q < k} = {q \in Quotes(s) : q < k}
  <2>1. \A q : q \in 1..(k - 1) <=> q \in 1..Len(s) /\ q < k
    BY <1>1, <1>2
  <2> QED BY <1>1, <1>2, <2>1 DEF Quotes
<1> QED BY <1>3 DEF Outside, b

\* What one character does to the fields.
LEMMA FieldsBehind ==
  ASSUME NEW s \in Text, NEW k \in 1..Len(s), NEW fs \in Seq(Text), NEW p \in Text,
         FieldsOf(Behind(s, k)) = Append(fs, p)
  PROVE  LET G == FieldsOf(Behind(s, k + 1))
         IN /\ s[k] = Comma /\ Outside(s, k) => G = Append(Append(fs, p), <<>>)
            /\ s[k] # Quote /\ ~(s[k] = Comma /\ Outside(s, k)) => G = Append(fs, Append(p, s[k]))
            /\ s[k] = Quote /\ k > 1 /\ s[k - 1] = Quote /\ Outside(s, k)
                 => G = Append(fs, Append(p, s[k]))
            /\ s[k] = Quote /\ ~(k > 1 /\ s[k - 1] = Quote /\ Outside(s, k)) => G = Append(fs, p)
<1> DEFINE b == Behind(s, k)
           x == s[k]
<1>1. /\ k \in Nat /\ x \in Character /\ b \in Text /\ Len(b) = k - 1
      /\ \A j \in 1..(k - 1) : b[j] = s[j]
      /\ Behind(s, k + 1) = Append(b, x)
  BY BehindStep
<1>2. Outside(b, k) <=> Outside(s, k)
  BY BehindOutside
<1>3. FieldsOf(b) = Append(fs, p)
  OBVIOUS
<1> HIDE DEF b, x
<1>4. /\ EndsField(b, x) => FieldsOf(Append(b, x)) = Append(Append(fs, p), <<>>)
      /\ IsKept(b, x) => FieldsOf(Append(b, x)) = Append(fs, Append(p, x))
      /\ ~EndsField(b, x) /\ ~IsKept(b, x) => FieldsOf(Append(b, x)) = Append(fs, p)
  BY <1>1, <1>3, FieldsStep
<1>5. (k - 1) + 1 = k /\ k >= 1
  BY <1>1
<1>6. EndsField(b, x) <=> x = Comma /\ Outside(s, k)
  BY <1>1, <1>2, <1>5 DEF EndsField
<1>7. IsKept(b, x) <=> IF x = Quote
                        THEN k > 1 /\ s[k - 1] = Quote /\ Outside(s, k)
                        ELSE ~EndsField(b, x)
  <2>1. k - 1 >= 1 <=> k > 1
    BY <1>1
  <2>2. k > 1 => b[k - 1] = s[k - 1]
    BY <1>1
  <2> QED BY <1>1, <1>2, <1>5, <2>1, <2>2 DEF IsKept
<1>8. Comma # Quote
  BY DEF Comma, Quote
<1> QED BY <1>1, <1>4, <1>6, <1>7, <1>8 DEF x

\* No quote stands behind a closing one: it would have been taken with it.
NoQuoteBehindQuote ==
  pc = "scan" /\ ~in_quotes /\ i > 1 /\ i <= Len(line) /\ line[i - 1] = Quote => line[i] # Quote

\* The loop invariant of the scanner.
SplitInv == SplitSoFar /\ NoQuoteBehindQuote

\* At first, nothing has been split.
LEMMA SplitStarts ==
  Init => SplitInv
<1> SUFFICES ASSUME Init PROVE SplitInv
  OBVIOUS
<1>1. /\ i = 1 /\ current = <<>> /\ fields = <<>> /\ pc = "scan" /\ line \in Text
  BY LinesAssumption DEF Init, ScanInit
<1>2. SubSeq(line, 1, i - 1) = <<>>
  BY <1>1 DEF Text
<1>3. FieldsOf(SubSeq(line, 1, i - 1)) = Append(<<>>, <<>>)
  BY <1>2, FieldsOfNone
<1>4. SplitSoFar
  BY <1>1, <1>3 DEF SplitSoFar
<1>5. NoQuoteBehindQuote
  BY <1>1 DEF NoQuoteBehindQuote
<1> QED BY <1>4, <1>5 DEF SplitInv

\* The fields are texts.
FieldsAreTexts == current \in Seq(Character) /\ fields \in Seq(Seq(Character))

\* At first there is no field.
LEMMA FieldsStartEmpty ==
  Init => FieldsAreTexts
BY DEF Init, ScanInit, FieldsAreTexts

\* Every branch of split_line makes texts out of texts.
LEMMA FieldsGrow ==
  ASSUME FieldsAreTexts, line \in Text, i \in 1..(Len(line) + 1), ScanStep
  PROVE  FieldsAreTexts'
<1>1. Quote \in Character
  BY LinesAssumption
<1>2. i <= Len(line) => line[i] \in Character
  BY DEF Text
<1>3. CASE EscapedQuote
  BY <1>1, <1>3 DEF EscapedQuote, FieldsAreTexts
<1>4. CASE CloseQuote
  BY <1>4 DEF CloseQuote, FieldsAreTexts
<1>5. CASE QuotedCharacter
  BY <1>2, <1>5 DEF QuotedCharacter, FieldsAreTexts
<1>6. CASE OpenQuote
  BY <1>6 DEF OpenQuote, FieldsAreTexts
<1>7. CASE EndField
  BY <1>7 DEF EndField, FieldsAreTexts
<1>8. CASE PlainCharacter
  BY <1>2, <1>8 DEF PlainCharacter, FieldsAreTexts
<1>9. CASE EndLine
  BY <1>9 DEF EndLine, FieldsAreTexts
<1> QED BY <1>3, <1>4, <1>5, <1>6, <1>7, <1>8, <1>9 DEF ScanStep

\* Every branch of the loop does to fields and current what the character does to
\* the fields of the text behind it; the branch of a doubled quote takes two.
LEMMA SplitGoesOn ==
  ASSUME ScanInv, FieldsAreTexts, SplitInv, ScanStep
  PROVE  SplitInv'
<1>1. /\ line \in Text /\ Len(line) \in Nat /\ i \in 1..(Len(line) + 1) /\ i \in Nat
      /\ in_quotes \in BOOLEAN /\ current \in Text /\ fields \in Seq(Text)
  BY DEF ScanInv, FieldsAreTexts, Text
<1>2. pc = "scan" /\ line' = line
  BY DEF ScanStep, EscapedQuote, CloseQuote, QuotedCharacter, OpenQuote, EndField, PlainCharacter,
         EndLine, At, Skip
<1>3. FieldsOf(Behind(line, i)) = Append(fields, current)
  BY <1>2 DEF SplitInv, SplitSoFar, Behind
<1>4. in_quotes <=> ~Outside(line, i)
  BY <1>2 DEF ScanInv, InQuotesIsParity
<1>5. i <= Len(line) => i \in 1..Len(line)
  BY <1>1
<1> DEFINE G == FieldsOf(Behind(line, i + 1))
<1>6. ASSUME i \in 1..Len(line)
      PROVE  /\ line[i] = Comma /\ Outside(line, i) => G = Append(Append(fields, current), <<>>)
             /\ line[i] # Quote /\ ~(line[i] = Comma /\ Outside(line, i))
                  => G = Append(fields, Append(current, line[i]))
             /\ line[i] = Quote /\ i > 1 /\ line[i - 1] = Quote /\ Outside(line, i)
                  => G = Append(fields, Append(current, line[i]))
             /\ line[i] = Quote /\ ~(i > 1 /\ line[i - 1] = Quote /\ Outside(line, i))
                  => G = Append(fields, current)
  BY <1>1, <1>3, <1>6, FieldsBehind
<1> HIDE DEF G
<1>7. ASSUME i \in 1..Len(line), Skip(1), pc' = "scan", Append(fields', current') = G,
             in_quotes' \/ line[i] # Quote \/ ~Doubled
      PROVE  SplitInv'
  <2>1. i' = i + 1 /\ (i + 1) - 1 = i /\ line' = line
    BY <1>1, <1>7 DEF Skip
  <2>2. SplitSoFar'
    BY <1>7, <2>1 DEF SplitSoFar, Behind, G
  <2>3. NoQuoteBehindQuote'
    <3>1. i + 1 <= Len(line) <=> i < Len(line)
      BY <1>1
    <3> QED BY <1>7, <2>1, <3>1 DEF NoQuoteBehindQuote, Doubled
  <2> QED BY <2>2, <2>3 DEF SplitInv
<1>8. CASE EscapedQuote
  <2>1. /\ i \in 1..Len(line) /\ line[i] = Quote /\ in_quotes /\ Doubled
        /\ i' = i + 2 /\ pc' = pc /\ in_quotes' = in_quotes /\ fields' = fields
        /\ current' = Append(current, Quote)
    BY <1>5, <1>8 DEF EscapedQuote, At, Skip
  <2>2. i + 1 \in 1..Len(line) /\ line[i + 1] = Quote /\ i + 1 > 1 /\ (i + 1) - 1 = i
        /\ (i + 1) + 1 = i + 2
    BY <1>1, <2>1 DEF Doubled
  <2>3. G = Append(fields, current)
    BY <1>4, <1>6, <2>1
  <2>4. Outside(line, i + 1)
    BY <1>1, <1>4, <2>1, ParityStep
  <2>5. FieldsOf(Behind(line, i + 2)) = Append(fields, Append(current, Quote))
    <3> DEFINE j == i + 1
    <3>1. j \in 1..Len(line) /\ j > 1 /\ line[j] = Quote /\ line[j - 1] = Quote /\ Outside(line, j)
      BY <2>1, <2>2, <2>4
    <3>2. FieldsOf(Behind(line, j)) = Append(fields, current)
      BY <2>3 DEF G
    <3>3. j + 1 = i + 2
      BY <2>2
    <3> HIDE DEF j
    <3>4. FieldsOf(Behind(line, j + 1)) = Append(fields, Append(current, line[j]))
      BY <1>1, <3>1, <3>2, FieldsBehind
    <3> QED BY <3>1, <3>3, <3>4
  <2>6. (i + 2) - 1 = i' - 1
    BY <2>1
  <2>7. SplitSoFar'
    BY <1>2, <2>1, <2>5, <2>6 DEF SplitSoFar, Behind
  <2>8. NoQuoteBehindQuote'
    BY <2>1 DEF NoQuoteBehindQuote
  <2> QED BY <2>7, <2>8 DEF SplitInv
<1>9. CASE CloseQuote
  <2>1. /\ i \in 1..Len(line) /\ line[i] = Quote /\ in_quotes /\ ~Doubled /\ Skip(1)
        /\ fields' = fields /\ current' = current
    BY <1>5, <1>9 DEF CloseQuote, At
  <2>2. G = Append(fields, current)
    BY <1>4, <1>6, <2>1
  <2> QED BY <1>2, <1>7, <2>1, <2>2 DEF Skip
<1>10. CASE QuotedCharacter
  <2>1. /\ i \in 1..Len(line) /\ line[i] # Quote /\ in_quotes /\ Skip(1)
        /\ fields' = fields /\ current' = Append(current, line[i])
    BY <1>5, <1>10 DEF QuotedCharacter
  <2>2. G = Append(fields, Append(current, line[i]))
    BY <1>4, <1>6, <2>1
  <2> QED BY <1>2, <1>7, <2>1, <2>2 DEF Skip
<1>11. CASE OpenQuote
  <2>1. /\ i \in 1..Len(line) /\ line[i] = Quote /\ ~in_quotes /\ Skip(1)
        /\ fields' = fields /\ current' = current /\ in_quotes' = TRUE /\ i <= Len(line)
    BY <1>5, <1>11 DEF OpenQuote, At
  <2>2. ~(i > 1 /\ line[i - 1] = Quote)
    BY <1>2, <2>1 DEF SplitInv, NoQuoteBehindQuote
  <2>3. G = Append(fields, current)
    BY <1>6, <2>1, <2>2
  <2> QED BY <1>2, <1>7, <2>1, <2>3 DEF Skip
<1>12. CASE EndField
  <2>1. /\ i \in 1..Len(line) /\ line[i] = Comma /\ ~in_quotes /\ Skip(1)
        /\ fields' = Append(fields, current) /\ current' = <<>>
    BY <1>5, <1>12 DEF EndField, At
  <2>2. line[i] # Quote
    BY <2>1 DEF Comma, Quote
  <2>3. G = Append(Append(fields, current), <<>>)
    BY <1>4, <1>6, <2>1
  <2> QED BY <1>2, <1>7, <2>1, <2>2, <2>3 DEF Skip
<1>13. CASE PlainCharacter
  <2>1. /\ i \in 1..Len(line) /\ line[i] # Quote /\ line[i] # Comma /\ Skip(1)
        /\ fields' = fields /\ current' = Append(current, line[i])
    BY <1>5, <1>13 DEF PlainCharacter
  <2>2. G = Append(fields, Append(current, line[i]))
    BY <1>6, <2>1
  <2> QED BY <1>2, <1>7, <2>1, <2>2 DEF Skip
<1>14. CASE EndLine
  <2>1. i > Len(line) /\ fields' = Append(fields, current) /\ pc' = "validate"
    BY <1>14 DEF EndLine
  <2>2. i - 1 = Len(line)
    BY <1>1, <2>1
  <2>3. Behind(line, i) = line
    BY <1>1, <2>2 DEF Behind, Text
  <2>4. SplitSoFar'
    BY <1>2, <1>3, <2>1, <2>3 DEF SplitSoFar
  <2>5. NoQuoteBehindQuote'
    BY <2>1 DEF NoQuoteBehindQuote
  <2> QED BY <2>4, <2>5 DEF SplitInv
<1> QED
  BY <1>8, <1>9, <1>10, <1>11, <1>12, <1>13, <1>14 DEF ScanStep

-----------------------------------------------------------------------------
(* A line of the report, split again. *)

\* What follows s lies outside quotes.
OutsideAfter(s) == Outside(s, Len(s) + 1)

\* The text s is split into the fields fs and p, the last one.
Says(s, fs, p) == s \in Text /\ fs \in Seq(Text) /\ p \in Text /\ FieldsOf(s) = Append(fs, p)

\* A quote turns it over.
LEMMA OutsideChanges ==
  ASSUME NEW s \in Text, NEW x \in Character
  PROVE  OutsideAfter(Append(s, x)) <=> (IF x = Quote THEN ~OutsideAfter(s) ELSE OutsideAfter(s))
<1> DEFINE t == Append(s, x)
           n == Len(s)
<1>1. /\ n \in Nat /\ t \in Text /\ Len(t) = n + 1 /\ t[n + 1] = x
  BY AppendProperties DEF Text
<1>2. \A k \in 1..(n + 1) : Outside(t, k) <=> Outside(s, k)
  BY PrefixStays
<1> HIDE DEF t, n
<1>3. n + 1 \in 1..(n + 1) /\ n + 1 \in 1..Len(t)
  BY <1>1
<1>4. Outside(t, (n + 1) + 1) <=>
        (IF t[n + 1] = Quote THEN ~Outside(t, n + 1) ELSE Outside(t, n + 1))
  BY <1>1, <1>3, ParityStep
<1>5. Outside(t, n + 1) <=> Outside(s, n + 1)
  BY <1>2, <1>3
<1> QED BY <1>1, <1>4, <1>5 DEF OutsideAfter, t, n

\* A character that is neither a quote nor a separator goes on with the field.
LEMMA SaysCharacter ==
  ASSUME NEW s, NEW fs, NEW p, Says(s, fs, p), NEW x \in Character, x # Quote,
         ~(x = Comma /\ OutsideAfter(s))
  PROVE  Says(Append(s, x), fs, Append(p, x)) /\ (OutsideAfter(Append(s, x)) <=> OutsideAfter(s))
<1>1. s \in Text /\ fs \in Seq(Text) /\ p \in Text /\ FieldsOf(s) = Append(fs, p)
  BY DEF Says
<1>2. IsKept(s, x)
  BY DEF IsKept, EndsField, OutsideAfter
<1>3. FieldsOf(Append(s, x)) = Append(fs, Append(p, x))
  BY <1>1, <1>2, FieldsStep
<1>4. Append(s, x) \in Text /\ Append(p, x) \in Text
  BY <1>1, CatOne
<1>5. OutsideAfter(Append(s, x)) <=> OutsideAfter(s)
  BY <1>1, OutsideChanges
<1> QED BY <1>1, <1>3, <1>4, <1>5 DEF Says

\* A separator ends it.
LEMMA SaysSeparator ==
  ASSUME NEW s, NEW fs, NEW p, Says(s, fs, p), OutsideAfter(s)
  PROVE  Says(Append(s, Comma), Append(fs, p), <<>>) /\ OutsideAfter(Append(s, Comma))
<1>1. s \in Text /\ fs \in Seq(Text) /\ p \in Text /\ FieldsOf(s) = Append(fs, p)
  BY DEF Says
<1>2. Comma \in Character /\ Comma # Quote
  BY LinesAssumption DEF Comma, Quote
<1>3. EndsField(s, Comma)
  BY DEF EndsField, OutsideAfter
<1>4. FieldsOf(Append(s, Comma)) = Append(Append(fs, p), <<>>)
  BY <1>1, <1>2, <1>3, FieldsStep
<1>5. Append(s, Comma) \in Text /\ Append(fs, p) \in Seq(Text) /\ <<>> \in Text
  <2>1. Append(fs, p) \in Seq(Text)
    BY <1>1
  <2> QED BY <1>1, <1>2, <2>1, CatOne, CatEmpty
<1>6. OutsideAfter(Append(s, Comma)) <=> OutsideAfter(s)
  BY <1>1, <1>2, OutsideChanges
<1> QED BY <1>4, <1>5, <1>6 DEF Says

\* A quote inside quotes closes them, and another one behind it is kept and
\* opens them again.
LEMMA SaysQuotes ==
  ASSUME NEW s, NEW fs, NEW p, Says(s, fs, p), ~OutsideAfter(s)
  PROVE  LET t == Append(s, Quote)
         IN /\ Says(t, fs, p) /\ OutsideAfter(t)
            /\ Says(Append(t, Quote), fs, Append(p, Quote)) /\ ~OutsideAfter(Append(t, Quote))
<1> DEFINE t == Append(s, Quote)
<1>1. s \in Text /\ fs \in Seq(Text) /\ p \in Text /\ FieldsOf(s) = Append(fs, p)
  BY DEF Says
<1>2. Quote \in Character /\ Quote # Comma
  BY LinesAssumption DEF Comma, Quote
<1>3. ~IsKept(s, Quote) /\ ~EndsField(s, Quote)
  BY <1>2 DEF IsKept, EndsField, OutsideAfter
<1>4. FieldsOf(t) = Append(fs, p)
  BY <1>1, <1>2, <1>3, FieldsStep
<1>5. t \in Text /\ Append(p, Quote) \in Text
  BY <1>1, <1>2, CatOne
<1>6. OutsideAfter(t)
  BY <1>1, <1>2, OutsideChanges
<1>7. Len(t) >= 1 /\ t[Len(t)] = Quote
  <2>1. Len(s) \in Nat /\ Len(t) = Len(s) + 1 /\ t[Len(s) + 1] = Quote
    BY <1>1, <1>2, AppendProperties DEF Text
  <2> HIDE DEF t
  <2> QED BY <2>1
<1> HIDE DEF t
<1>8. IsKept(t, Quote)
  BY <1>6, <1>7 DEF IsKept, OutsideAfter
<1>9. FieldsOf(Append(t, Quote)) = Append(fs, Append(p, Quote))
  BY <1>1, <1>2, <1>4, <1>5, <1>8, FieldsStep
<1>10. Append(t, Quote) \in Text /\ ~OutsideAfter(Append(t, Quote))
  BY <1>2, <1>5, <1>6, CatOne, OutsideChanges
<1> QED BY <1>1, <1>4, <1>5, <1>6, <1>9, <1>10 DEF Says, t

\* A text without quotes and commas goes on with the field.
LEMMA SaysPlain ==
  ASSUME NEW s, NEW fs, NEW p, Says(s, fs, p), OutsideAfter(s)
  PROVE  \A u \in Text : Plain(u) => Says(Cat(s, u), fs, Cat(p, u)) /\ OutsideAfter(Cat(s, u))
<1> DEFINE Goes(u) == Plain(u) => Says(Cat(s, u), fs, Cat(p, u)) /\ OutsideAfter(Cat(s, u))
           P == {u \in Text : Goes(u)}
<1>1. s \in Text /\ p \in Text
  BY DEF Says
<1>2. <<>> \in P
  <2>1. Cat(s, <<>>) = s /\ Cat(p, <<>>) = p /\ <<>> \in Text
    BY <1>1, CatEmpty
  <2> QED BY <2>1
<1>3. ASSUME NEW u \in Text, NEW x \in Character, u \in P
      PROVE  Append(u, x) \in P
  <2>1. Append(u, x) = Cat(u, <<x>>) /\ Append(u, x) \in Text /\ <<x>> \in Text
    BY CatOne
  <2>2. ASSUME Plain(Append(u, x))
        PROVE  Plain(u) /\ x # Quote /\ x # Comma
    <3> DEFINE v == Append(u, x)
    <3>1. /\ Len(u) \in Nat /\ Len(v) = Len(u) + 1 /\ v[Len(u) + 1] = x
          /\ \A k \in 1..Len(u) : v[k] = u[k]
      BY AppendProperties DEF Text
    <3>2. \A k \in 1..Len(v) : v[k] # Quote /\ v[k] # Comma
      BY <2>2 DEF Plain
    <3> HIDE DEF v
    <3>3. Len(u) + 1 \in 1..Len(v) /\ \A k \in 1..Len(u) : k \in 1..Len(v)
      BY <3>1
    <3> QED BY <3>1, <3>2, <3>3 DEF Plain
  <2>3. ASSUME Says(Cat(s, u), fs, Cat(p, u)), OutsideAfter(Cat(s, u)), x # Quote, x # Comma
        PROVE  /\ Says(Append(Cat(s, u), x), fs, Append(Cat(p, u), x))
               /\ OutsideAfter(Append(Cat(s, u), x))
    BY <2>3, SaysCharacter
  <2>4. Append(Cat(s, u), x) = Cat(s, Append(u, x)) /\ Append(Cat(p, u), x) = Cat(p, Append(u, x))
    <3>1. Cat(s, u) \in Text /\ Cat(p, u) \in Text
      BY <1>1, CatText
    <3>2. Append(Cat(s, u), x) = Cat(Cat(s, u), <<x>>)
          /\ Append(Cat(p, u), x) = Cat(Cat(p, u), <<x>>)
      BY <3>1, CatOne
    <3> QED BY <1>1, <2>1, <3>2, CatAssociates
  <2>5. Goes(u)
    BY <1>3
  <2>6. Goes(Append(u, x))
    BY <2>2, <2>3, <2>4, <2>5
  <2> HIDE DEF Goes
  <2> QED BY <2>1, <2>6
<1> HIDE DEF P
<1>4. \A u \in Text : u \in P
  BY <1>2, <1>3, EveryText DEF Text
<1> QED BY <1>4 DEF P

\* The text with its quotes doubled.
Doubling(u) == Replace(u, Quote, <<Quote, Quote>>)

\* Between quotes, a text with its quotes doubled goes on with the field.
LEMMA SaysQuoted ==
  ASSUME NEW s, NEW fs, NEW p, Says(s, fs, p), ~OutsideAfter(s)
  PROVE  \A u \in Text : /\ Says(Cat(s, Doubling(u)), fs, Cat(p, u))
                         /\ ~OutsideAfter(Cat(s, Doubling(u)))
<1> DEFINE Goes(u) == Says(Cat(s, Doubling(u)), fs, Cat(p, u)) /\ ~OutsideAfter(Cat(s, Doubling(u)))
           P == {u \in Text : Goes(u)}
<1>1. s \in Text /\ p \in Text
  BY DEF Says
<1>2. <<>> \in P
  <2>1. Cat(s, <<>>) = s /\ Cat(p, <<>>) = p /\ <<>> \in Text
    BY <1>1, CatEmpty
  <2>2. Doubling(<<>>) = <<>>
    BY ReplaceOfNone DEF Doubling
  <2>3. Goes(<<>>)
    BY <2>1, <2>2
  <2> HIDE DEF Goes
  <2> QED BY <2>1, <2>3
<1>3. Quote \in Character
  BY LinesAssumption
<1>4. <<Quote, Quote>> \in Text /\ <<>> \in Text
  <2>1. <<>> \in Text
    BY DEF Text
  <2> QED BY <1>3, <2>1, CatTwo
<1>5. ASSUME NEW u \in Text, NEW x \in Character, u \in P
      PROVE  Append(u, x) \in P
  <2> DEFINE d == Doubling(u)
             e == Cat(s, d)
             q == Cat(p, u)
             piece == Piece(x, Quote, <<Quote, Quote>>)
  <2>1. Append(u, x) = Cat(u, <<x>>) /\ Append(u, x) \in Text /\ <<x>> \in Text
    BY CatOne
  <2>2. Says(e, fs, q) /\ ~OutsideAfter(e)
    BY <1>5
  <2>3. d \in Text /\ Doubling(Append(u, x)) = Cat(d, piece)
    BY <1>4, ReplaceStep DEF Doubling, Cat
  <2>4. piece \in Text
    BY <1>4, <2>1 DEF Piece
  <2> HIDE DEF d, e, q, piece
  <2>5. e \in Text /\ q \in Text
    BY <2>2 DEF Says
  <2>6. Cat(s, Doubling(Append(u, x))) = Cat(e, piece)
    BY <1>1, <2>3, <2>4, CatAssociates DEF e
  <2>7. Append(q, x) = Cat(p, Append(u, x))
    <3>1. Append(q, x) = Cat(q, <<x>>)
      BY <2>5, CatOne
    <3> QED BY <1>1, <2>1, <3>1, CatAssociates DEF q
  <2>8. CASE x = Quote
    <3>1. piece = <<Quote, Quote>>
      BY <2>8 DEF piece, Piece
    <3>2. Cat(e, piece) = Append(Append(e, Quote), Quote)
      BY <1>3, <2>5, <3>1, CatTwo
    <3>3. Says(Append(Append(e, Quote), Quote), fs, Append(q, Quote))
          /\ ~OutsideAfter(Append(Append(e, Quote), Quote))
      BY <2>2, SaysQuotes
    <3>4. Goes(Append(u, x))
      BY <2>6, <2>7, <2>8, <3>2, <3>3
    <3> HIDE DEF Goes
    <3> QED BY <2>1, <3>4
  <2>9. CASE x # Quote
    <3>1. piece = <<x>>
      BY <2>9 DEF piece, Piece
    <3>2. Cat(e, piece) = Append(e, x)
      BY <2>5, <3>1, CatOne
    <3>3. Says(Append(e, x), fs, Append(q, x)) /\ ~OutsideAfter(Append(e, x))
      BY <2>2, <2>9, SaysCharacter
    <3>4. Goes(Append(u, x))
      BY <2>6, <2>7, <3>2, <3>3
    <3> HIDE DEF Goes
    <3> QED BY <2>1, <3>4
  <2> QED BY <2>8, <2>9
<1> HIDE DEF P
<1>6. \A u \in Text : u \in P
  BY <1>2, <1>5, EveryText DEF Text
<1> QED BY <1>6 DEF P

\* The first field of a report line, quoted or not.
LEMMA SaysEscaped ==
  ASSUME NEW u \in Text
  PROVE  Says(CsvEscape(u), <<>>, u) /\ OutsideAfter(CsvEscape(u))
<1> DEFINE o == <<Quote>>
           d == Doubling(u)
<1>1. Quote \in Character /\ <<>> \in Text /\ <<>> \in Seq(Text)
  BY LinesAssumption DEF Text
<1>2. Says(<<>>, <<>>, <<>>) /\ OutsideAfter(<<>>)
  <2>1. Outside(<<>>, 1)
    BY <1>1, FirstIsOutside
  <2>2. Len(<<>>) + 1 = 1
    OBVIOUS
  <2> QED BY <1>1, <2>1, <2>2, FieldsOfNone DEF Says, OutsideAfter
<1>3. CASE NeedsQuoting(u)
  <2>1. o = Append(<<>>, Quote)
    OBVIOUS
  <2>2. o \in Text
    BY <1>1, <2>1, CatOne
  <2>3. ~IsKept(<<>>, Quote) /\ ~EndsField(<<>>, Quote)
    BY DEF IsKept, EndsField, Comma, Quote
  <2>4. Says(o, <<>>, <<>>)
    <3>1. FieldsOf(<<>>) = Append(<<>>, <<>>)
      BY <1>2 DEF Says
    <3> HIDE DEF o
    <3>2. FieldsOf(Append(<<>>, Quote)) = Append(<<>>, <<>>)
      BY <1>1, <2>3, <3>1, FieldsStep
    <3>3. FieldsOf(o) = Append(<<>>, <<>>)
      BY <2>1, <3>2
    <3> QED BY <1>1, <2>2, <3>3 DEF Says
  <2>5. ~OutsideAfter(o)
    <3> HIDE DEF o
    <3> QED BY <1>1, <1>2, <2>1, OutsideChanges
  <2>6. <<Quote, Quote>> \in Text
    BY <1>1, CatTwo
  <2>7. d \in Text
    BY <2>6, ReplaceText DEF Doubling
  <2> HIDE DEF o, d
  <2>8. Says(Cat(o, d), <<>>, Cat(<<>>, u)) /\ ~OutsideAfter(Cat(o, d))
    BY <2>4, <2>5, SaysQuoted DEF d
  <2>9. Cat(<<>>, u) = u
    BY CatEmpty
  <2>10. Says(Append(Cat(o, d), Quote), <<>>, u) /\ OutsideAfter(Append(Cat(o, d), Quote))
    BY <2>8, <2>9, SaysQuotes
  <2>11. CsvEscape(u) = Cat(Cat(o, d), o)
    BY <1>3 DEF CsvEscape, Cat, o, d, Doubling
  <2>12. Append(Cat(o, d), Quote) = Cat(Cat(o, d), o)
    <3>1. Cat(o, d) \in Text
      BY <2>2, <2>7, CatText
    <3> QED BY <1>1, <3>1, CatOne DEF o
  <2> QED BY <2>10, <2>11, <2>12
<1>4. CASE ~NeedsQuoting(u)
  <2>1. CsvEscape(u) = u
    BY <1>4 DEF CsvEscape
  <2>2. Plain(u)
    BY <1>4 DEF NeedsQuoting, Plain, Text
  <2>3. Says(Cat(<<>>, u), <<>>, Cat(<<>>, u)) /\ OutsideAfter(Cat(<<>>, u))
    BY <1>2, <2>2, SaysPlain
  <2>4. Cat(<<>>, u) = u
    BY CatEmpty
  <2> QED BY <2>1, <2>3, <2>4
<1> QED BY <1>3, <1>4

\* One more plain field.
LEMMA SaysField ==
  ASSUME NEW s, NEW fs, NEW p, Says(s, fs, p), OutsideAfter(s), NEW u \in Text, Plain(u)
  PROVE  /\ Says(Cat(s, Cat(<<Comma>>, u)), Append(fs, p), u)
         /\ OutsideAfter(Cat(s, Cat(<<Comma>>, u)))
<1> DEFINE t == Append(s, Comma)
           c == <<Comma>>
<1>1. s \in Text /\ Comma \in Character
  BY LinesAssumption DEF Says
<1>2. Says(t, Append(fs, p), <<>>) /\ OutsideAfter(t)
  BY SaysSeparator
<1>3. t = Cat(s, c) /\ c \in Text
  BY <1>1, CatOne
<1> HIDE DEF t, c
<1>4. Says(Cat(t, u), Append(fs, p), Cat(<<>>, u)) /\ OutsideAfter(Cat(t, u))
  BY <1>2, SaysPlain
<1>5. Cat(t, u) = Cat(s, Cat(c, u))
  BY <1>1, <1>3, CatAssociates
<1>6. Cat(<<>>, u) = u
  BY CatEmpty
<1> QED BY <1>4, <1>5, <1>6 DEF c

\* Numbers and amounts are written as texts.
LEMMA DecimalText ==
  ASSUME NEW n \in Nat
  PROVE  Decimal(n) \in Text /\ MoneyToString(n) \in Text
<1>1. Decimal(n) \in Text
  BY DecimalReadsBack
<1> DEFINE whole == Decimal(n \div 100)
           frac == Digits(n % 100, 2)
           point == <<".">>
<1>2. whole \in Text
  <2>1. n \div 100 \in Nat
    OBVIOUS
  <2> QED BY <2>1, DecimalReadsBack
<1>3. frac \in Text
  <2>1. n % 100 \in Nat
    OBVIOUS
  <2> QED BY <2>1, DigitsText
<1>4. point \in Text /\ <<>> \in Text
  <2>1. "." \in Character /\ <<>> \in Text
    BY PipelineAssumption DEF Text
  <2> QED BY <2>1, CatOne
<1>5. MoneyToString(n) = ((<<>> \o whole) \o point) \o frac
  BY DEF MoneyToString
<1> HIDE DEF whole, frac, point
<1>6. MoneyToString(n) = Cat(Cat(Cat(<<>>, whole), point), frac)
  BY <1>5 DEF Cat
<1>7. Cat(Cat(Cat(<<>>, whole), point), frac) \in Text
  BY <1>2, <1>3, <1>4, CatText
<1> QED BY <1>1, <1>6, <1>7

\* _csv_escape makes a text.
LEMMA CsvEscapeText ==
  ASSUME NEW s \in Text
  PROVE  CsvEscape(s) \in Text
<1>1. Quote \in Character /\ <<>> \in Text
  BY LinesAssumption DEF Text
<1>2. <<Quote>> \in Text /\ <<Quote, Quote>> \in Text
  BY <1>1, CatOne, CatTwo
<1> DEFINE q == <<Quote>>
           r == Replace(s, Quote, <<Quote, Quote>>)
<1>3. r \in Text
  BY <1>2, ReplaceText
<1>4. CsvEscape(s) = IF NeedsQuoting(s) THEN (q \o r) \o q ELSE s
  BY DEF CsvEscape
<1> HIDE DEF q, r
<1>5. q \in Text
  BY <1>2 DEF q
<1>6. Cat(Cat(q, r), q) \in Text
  BY <1>3, <1>5, CatText
<1> QED BY <1>4, <1>6 DEF Cat

\* The line of the report about t.
ReportLine(t) ==
  Join(Comma, <<CsvEscape(t.transaction_id), <<"MISSING_EXTERNAL">>,
                MoneyToString(t.amount), <<>>, Decimal(t.amount)>>)

\* The line is a text.
LEMMA ReportLineText ==
  ASSUME NEW t \in AcceptedRow
  PROVE  ReportLine(t) \in Text
<1> DEFINE a == CsvEscape(t.transaction_id)
           b == <<"MISSING_EXTERNAL">>
           c == MoneyToString(t.amount)
           d == Decimal(t.amount)
<1>1. a \in Text
  <2>1. t.transaction_id \in Text
    BY DEF AcceptedRow
  <2> QED BY <2>1, CsvEscapeText
<1>2. b \in Text /\ <<>> \in Text
  <2>1. "MISSING_EXTERNAL" \in Character /\ <<>> \in Text
    BY PipelineAssumption DEF Text
  <2> QED BY <2>1, CatOne
<1>3. c \in Text /\ d \in Text
  <2>1. t.amount \in Nat
    BY DEF AcceptedRow
  <2> QED BY <2>1, DecimalText
<1>4. ReportLine(t) = Join(Comma, <<a, b, c, <<>>, d>>)
  BY DEF ReportLine
<1> HIDE DEF a, b, c, d
<1>5. <<a, b, c, <<>>, d>> \in Seq(Text) /\ <<a, b, c, <<>>, d>> # <<>>
  BY <1>1, <1>2, <1>3
<1>6. Comma \in Character
  BY LinesAssumption
<1> HIDE DEF Comma
<1> QED BY <1>4, <1>5, <1>6, JoinText

\* What a sequence and one more element are.
LEMMA AppendIs ==
  ASSUME NEW S, NEW o \in Seq(S), NEW p \in Seq(S), NEW y \in S,
         Len(p) = Len(o) + 1, p[Len(o) + 1] = y, \A k \in 1..Len(o) : p[k] = o[k]
  PROVE  Append(o, y) = p
<1> DEFINE q == Append(o, y)
<1>1. /\ q \in Seq(S) /\ Len(q) = Len(o) + 1 /\ q[Len(o) + 1] = y
      /\ \A k \in 1..Len(o) : q[k] = o[k]
  BY AppendProperties
<1> HIDE DEF q
<1>2. ASSUME NEW k \in 1..Len(q) PROVE q[k] = p[k]
  <2>1. k = Len(o) + 1 \/ k \in 1..Len(o)
    BY <1>1
  <2> QED BY <1>1, <2>1
<1>3. q = p
  BY <1>1, <1>2, SeqEqual
<1> QED BY <1>3 DEF q

\* A sequence of two is its first with the second appended.
LEMMA RowOfTwo ==
  ASSUME NEW S, NEW a \in S, NEW b \in S
  PROVE  Append(<<a>>, b) = <<a, b>> /\ <<a>> \in Seq(S) /\ <<a>> # <<>>
<1> DEFINE o == <<a>>
           p == <<a, b>>
<1>1. o \in Seq(S) /\ p \in Seq(S) /\ o # <<>>
  OBVIOUS
<1>2. Len(o) = 1 /\ Len(p) = 2 /\ p[2] = b /\ p[1] = o[1]
  OBVIOUS
<1> HIDE DEF o, p
<1>3. Append(o, b) = p
  <2>1. Len(p) = Len(o) + 1 /\ p[Len(o) + 1] = b
    BY <1>2
  <2>2. \A k \in 1..Len(o) : p[k] = o[k]
    BY <1>2
  <2> QED BY <1>1, <2>1, <2>2, AppendIs
<1> QED BY <1>1, <1>3 DEF o, p

\* The same of three.
LEMMA RowOfThree ==
  ASSUME NEW S, NEW a \in S, NEW b \in S, NEW c \in S
  PROVE  Append(<<a, b>>, c) = <<a, b, c>> /\ <<a, b>> \in Seq(S) /\ <<a, b>> # <<>>
<1> DEFINE o == <<a, b>>
           p == <<a, b, c>>
<1>1. o \in Seq(S) /\ p \in Seq(S) /\ o # <<>>
  OBVIOUS
<1>2. Len(o) = 2 /\ Len(p) = 3 /\ p[3] = c /\ p[1] = o[1] /\ p[2] = o[2]
  OBVIOUS
<1> HIDE DEF o, p
<1>3. Append(o, c) = p
  <2>1. Len(p) = Len(o) + 1 /\ p[Len(o) + 1] = c
    BY <1>2
  <2>2. \A k \in 1..Len(o) : p[k] = o[k]
    BY <1>2
  <2> QED BY <1>1, <2>1, <2>2, AppendIs
<1> QED BY <1>1, <1>3 DEF o, p

\* The same of four.
LEMMA RowOfFour ==
  ASSUME NEW S, NEW a \in S, NEW b \in S, NEW c \in S, NEW d \in S
  PROVE  Append(<<a, b, c>>, d) = <<a, b, c, d>> /\ <<a, b, c>> \in Seq(S) /\ <<a, b, c>> # <<>>
<1> DEFINE o == <<a, b, c>>
           p == <<a, b, c, d>>
<1>1. o \in Seq(S) /\ p \in Seq(S) /\ o # <<>>
  OBVIOUS
<1>2. Len(o) = 3 /\ Len(p) = 4 /\ p[4] = d /\ p[1] = o[1] /\ p[2] = o[2] /\ p[3] = o[3]
  OBVIOUS
<1> HIDE DEF o, p
<1>3. Append(o, d) = p
  <2>1. Len(p) = Len(o) + 1 /\ p[Len(o) + 1] = d
    BY <1>2
  <2>2. \A k \in 1..Len(o) : p[k] = o[k]
    BY <1>2
  <2> QED BY <1>1, <2>1, <2>2, AppendIs
<1> QED BY <1>1, <1>3 DEF o, p

\* The same of five.
LEMMA RowOfFive ==
  ASSUME NEW S, NEW a \in S, NEW b \in S, NEW c \in S, NEW d \in S, NEW e \in S
  PROVE  Append(<<a, b, c, d>>, e) = <<a, b, c, d, e>> /\ <<a, b, c, d>> \in Seq(S)
         /\ <<a, b, c, d>> # <<>>
<1> DEFINE o == <<a, b, c, d>>
           p == <<a, b, c, d, e>>
<1>1. o \in Seq(S) /\ p \in Seq(S) /\ o # <<>>
  OBVIOUS
<1>2. /\ Len(o) = 4 /\ Len(p) = 5 /\ p[5] = e
      /\ p[1] = o[1] /\ p[2] = o[2] /\ p[3] = o[3] /\ p[4] = o[4]
  OBVIOUS
<1> HIDE DEF o, p
<1>3. Append(o, e) = p
  <2>1. Len(p) = Len(o) + 1 /\ p[Len(o) + 1] = e
    BY <1>2
  <2>2. \A k \in 1..Len(o) : p[k] = o[k]
    BY <1>2
  <2> QED BY <1>1, <2>1, <2>2, AppendIs
<1> QED BY <1>1, <1>3 DEF o, p

\* The report line of t splits back into its five fields.
LEMMA ReportSplits ==
  ASSUME NEW t \in AcceptedRow
  PROVE  LET n == t.amount IN
         FieldsOf(ReportLine(t)) =
           <<t.transaction_id, <<"MISSING_EXTERNAL">>, MoneyToString(n), <<>>, Decimal(n)>>
<1> DEFINE a == t.transaction_id
           n == t.amount
           b == <<"MISSING_EXTERNAL">>
           c == MoneyToString(n)
           d == Decimal(n)
           x == CsvEscape(a)
           Further(u) == Cat(<<Comma>>, u)
           x2 == Cat(x, Further(b))
           x3 == Cat(x2, Further(c))
           x4 == Cat(x3, Further(<<>>))
           x5 == Cat(x4, Further(d))
<1>1. a \in Text /\ n \in Nat
  BY DEF AcceptedRow
<1>2. b \in Text /\ c \in Text /\ d \in Text /\ x \in Text /\ <<>> \in Text
  <2>1. "MISSING_EXTERNAL" \in Character /\ <<>> \in Text
    BY PipelineAssumption DEF Text
  <2> QED BY <1>1, <2>1, CatOne, DecimalText, CsvEscapeText
<1>3. Plain(b) /\ Plain(c) /\ Plain(<<>>) /\ Plain(d)
  <2>1. Plain(b)
    <3>1. "MISSING_EXTERNAL" # Quote /\ "MISSING_EXTERNAL" # Comma
      BY DEF Quote, Comma
    <3>2. Len(b) = 1 /\ b[1] = "MISSING_EXTERNAL"
      OBVIOUS
    <3> HIDE DEF b
    <3> QED BY <3>1, <3>2 DEF Plain
  <2>2. Plain(<<>>)
    BY DEF Plain
  <2>3. Plain(c)
    BY <1>1, MoneyReadsBack
  <2>4. Plain(d)
    <3>1. \A k \in 1..Len(d) : Written(d[k])
      BY <1>1, DecimalWritten
    <3> HIDE DEF d
    <3> QED BY <3>1, WrittenIs DEF Plain
  <2> QED BY <2>1, <2>2, <2>3, <2>4
<1> HIDE DEF n
<1>4. ReportLine(t) = Join(Comma, <<x, b, c, <<>>, d>>)
  BY DEF ReportLine, n
<1> HIDE DEF a, b, c, d, x, x2, x3, x4, x5, Further
<1>5. Says(x, <<>>, a) /\ OutsideAfter(x)
  BY <1>1, SaysEscaped DEF x
<1>6. ReportLine(t) = x5
  <2>1. Comma \in Character
    BY LinesAssumption
  <2>2. Join(Comma, <<x>>) = x
    BY <1>2, JoinOfOne
  <2>3. ASSUME NEW ts \in Seq(Text), ts # <<>>, NEW u \in Text
        PROVE  Join(Comma, Append(ts, u)) = Cat(Join(Comma, ts), Further(u))
    <3> HIDE DEF Comma
    <3> QED BY <2>1, <2>3, JoinStep DEF Further
  <2>4. <<x>> \in Seq(Text) /\ <<x>> # <<>> /\ Append(<<x>>, b) = <<x, b>>
    BY <1>2, RowOfTwo
  <2>5. Join(Comma, <<x, b>>) = x2
    BY <1>2, <2>2, <2>3, <2>4 DEF x2
  <2>6. <<x, b>> \in Seq(Text) /\ <<x, b>> # <<>> /\ Append(<<x, b>>, c) = <<x, b, c>>
    BY <1>2, RowOfThree
  <2>7. Join(Comma, <<x, b, c>>) = x3
    BY <1>2, <2>3, <2>5, <2>6 DEF x3
  <2>8. <<x, b, c>> \in Seq(Text) /\ <<x, b, c>> # <<>>
        /\ Append(<<x, b, c>>, <<>>) = <<x, b, c, <<>>>>
    BY <1>2, RowOfFour
  <2>9. Join(Comma, <<x, b, c, <<>>>>) = x4
    BY <1>2, <2>3, <2>7, <2>8 DEF x4
  <2>10. /\ <<x, b, c, <<>>>> \in Seq(Text) /\ <<x, b, c, <<>>>> # <<>>
         /\ Append(<<x, b, c, <<>>>>, d) = <<x, b, c, <<>>, d>>
    BY <1>2, RowOfFive
  <2>11. Join(Comma, <<x, b, c, <<>>, d>>) = x5
    BY <1>2, <2>3, <2>9, <2>10 DEF x5
  <2> QED BY <1>4, <2>11
<1>7. ASSUME NEW s, NEW fs, NEW p, Says(s, fs, p), OutsideAfter(s), NEW u \in Text, Plain(u)
      PROVE  Says(Cat(s, Further(u)), Append(fs, p), u) /\ OutsideAfter(Cat(s, Further(u)))
  BY <1>7, SaysField DEF Further
<1>8. Says(x2, Append(<<>>, a), b) /\ OutsideAfter(x2)
  BY <1>2, <1>3, <1>5, <1>7 DEF x2
<1>9. Says(x3, Append(Append(<<>>, a), b), c) /\ OutsideAfter(x3)
  BY <1>2, <1>3, <1>7, <1>8 DEF x3
<1>10. Says(x4, Append(Append(Append(<<>>, a), b), c), <<>>) /\ OutsideAfter(x4)
  BY <1>2, <1>3, <1>7, <1>9 DEF x4
<1>11. Says(x5, Append(Append(Append(Append(<<>>, a), b), c), <<>>), d)
  BY <1>2, <1>3, <1>7, <1>10 DEF x5
<1>12. FieldsOf(x5) = Append(Append(Append(Append(Append(<<>>, a), b), c), <<>>), d)
  BY <1>11 DEF Says
<1>13. Append(<<>>, a) = <<a>>
  OBVIOUS
<1>16. Append(<<a>>, b) = <<a, b>> /\ Append(<<a, b>>, c) = <<a, b, c>>
  BY <1>1, <1>2, RowOfTwo, RowOfThree
<1>14. /\ Append(<<a, b, c>>, <<>>) = <<a, b, c, <<>>>>
       /\ Append(<<a, b, c, <<>>>>, d) = <<a, b, c, <<>>, d>>
  BY <1>1, <1>2, RowOfFour, RowOfFive
<1>15. FieldsOf(x5) = <<a, b, c, <<>>, d>>
  BY <1>12, <1>13, <1>14, <1>16
<1> QED BY <1>6, <1>15 DEF a, b, c, d, n

-----------------------------------------------------------------------------
(* What validate_row makes of the fields. *)

\* What validate_row made of the row follows from its fields, and stays.
Judged ==
  /\ pc \in {"scan", "validate"} => outcome = "none"
  /\ pc \notin {"scan", "validate"} => outcome = Verdict(fields)
  /\ outcome = "valid" => row = TransactionOf(fields)

\* What the steps up to the validator keep of the scanner, the fields and the row.
RowInv == ScanInv /\ FieldsAreTexts /\ Judged

\* At first there is no verdict.
LEMMA JudgedStarts ==
  Init => Judged
BY DEF Init, ScanInit, Judged

\* validate_row gives the verdict, and no step after it takes it back.
LEMMA JudgedStays ==
  ASSUME Judged, [Next]_vars
  PROVE  Judged'
<1>1. CASE Split
  <2>1. pc = "scan" /\ outcome' = outcome
    BY <1>1 DEF Split, ScanStep, EscapedQuote, CloseQuote, QuotedCharacter, OpenQuote, EndField,
                PlainCharacter, EndLine, At, row_vars
  <2>2. pc' \in {"scan", "validate"}
    BY <1>1, <2>1 DEF Split, ScanStep, EscapedQuote, CloseQuote, QuotedCharacter, OpenQuote,
      EndField,
                PlainCharacter, EndLine, Skip
  <2> QED BY <2>1, <2>2 DEF Judged
<1>2. CASE ValidateRow
  <2>1. /\ outcome' = Verdict(fields) /\ fields' = fields
        /\ outcome' = "valid" => row' = TransactionOf(fields)
        /\ pc' \in {"store", "done"}
    BY <1>2 DEF ValidateRow
  <2>2. Verdict(fields)' = Verdict(fields) /\ TransactionOf(fields)' = TransactionOf(fields)
    BY <2>1
  <2> QED BY <2>1, <2>2 DEF Judged
<1>3. ASSUME UNCHANGED <<fields, outcome, row>>, pc \notin {"scan", "validate"},
             pc' \notin {"scan", "validate"}
      PROVE  Judged'
  BY <1>3 DEF Judged
<1>4. CASE InsertBatch
  BY <1>3, <1>4 DEF InsertBatch, Store
<1>5. CASE BulkInsertViaCopy
  BY <1>3, <1>5 DEF BulkInsertViaCopy, Store
<1>6. CASE FindAll
  BY <1>3, <1>6 DEF FindAll
<1>7. CASE WriteReport
  BY <1>3, <1>7 DEF WriteReport
<1>8. CASE UNCHANGED vars
  BY <1>8 DEF Judged, vars, scan_vars, row_vars
<1> QED
  BY <1>1, <1>2, <1>4, <1>5, <1>6, <1>7, <1>8 DEF Next, Step, Terminated

\* What the verdicts say about the date.
LEMMA VerdictOnDate ==
  ASSUME NEW f
  PROVE  /\ Verdict(f) = "valid" => Len(f) = 7 /\ DateParses(f[4])
         /\ Verdict(f) = "invalid transaction_date" => Len(f) = 7 /\ ~DateParses(f[4])
BY DEF Verdict

\* A day that date.fromisoformat knows, in any year from 1 to 9999.
Days == {d \in Nat \X Nat \X Nat : RealDate(d)}

\* No spelling of a day is turned away.
EveryDayAccepted ==
  outcome = "invalid transaction_date" => \A d \in Days : fields[4] # DateToString(d)

\* The days the runs try.
TriedDays == {1, 1900, 2000, 2023, 2024, 9999} \X (1..12) \X (1..31)

\* They are triples of numbers.
LEMMA TriedAreTriples ==
  ASSUME NEW d \in TriedDays
  PROVE  d \in Nat \X Nat \X Nat
BY DEF TriedDays

\* The spellings tried are those of days.
LEMMA TriedOnly ==
  ASSUME NEW t \in DaysWritten
  PROVE  \E d \in TriedDays : RealDate(d) /\ t = DateToString(d)
BY DEF DaysWritten, TriedDays

\* What the verdict says about the date field.
LEMMA DatesFollow ==
  ASSUME FieldsAreTexts, Judged
  PROVE  DateIsAsWritten /\ EveryDayAccepted
<1>1. ASSUME outcome = "valid"
      PROVE  /\ RealDate(row.transaction_date)
             /\ AsciiOnly(fields[4]) => DateToString(row.transaction_date) = fields[4]
  <2>1. Verdict(fields) = "valid" /\ row = TransactionOf(fields)
    BY <1>1 DEF Judged
  <2>2. Len(fields) = 7 /\ DateParses(fields[4])
    BY <2>1, VerdictOnDate
  <2>3. row.transaction_date = DateParts(fields[4])
    BY <2>1 DEF TransactionOf
  <2>4. fields[4] \in Seq(Character)
    <3>1. fields \in Seq(Seq(Character)) /\ 4 \in 1..Len(fields)
      BY <2>2 DEF FieldsAreTexts
    <3> QED BY <3>1, ElementOfSeq
  <2> QED BY <2>2, <2>3, <2>4, ParsedDatePrints DEF DateParses
<1>2. EveryDayAccepted
  <2> SUFFICES ASSUME outcome = "invalid transaction_date", NEW d \in Days,
                      fields[4] = DateToString(d)
               PROVE  FALSE
    BY DEF EveryDayAccepted
  <2>1. ~DateParses(fields[4])
    BY VerdictOnDate DEF Judged
  <2> QED BY <2>1, PrintedDateParses DEF Days
<1>3. outcome = "invalid transaction_date" => fields[4] \notin DaysWritten
  <2> SUFFICES ASSUME outcome = "invalid transaction_date", fields[4] \in DaysWritten
               PROVE  FALSE
    OBVIOUS
  <2>1. PICK d \in TriedDays : RealDate(d) /\ fields[4] = DateToString(d)
    BY TriedOnly
  <2>2. d \in Nat \X Nat \X Nat
    BY TriedAreTriples
  <2> QED BY <1>2, <2>1, <2>2 DEF EveryDayAccepted, Days
<1> QED BY <1>1, <1>2, <1>3 DEF DateIsAsWritten

\* What the verdicts say about the amounts.
LEMMA VerdictOnAmounts ==
  ASSUME NEW f
  PROVE  /\ Verdict(f) = "valid" => Len(f) = 7 /\ MoneyParses(f[5]) /\ MoneyParses(f[6])
         /\ Verdict(f) = "malformed amount" => Len(f) = 7 /\ ~MoneyParses(f[5])
         /\ Verdict(f) = "malformed tax_amount" => Len(f) = 7 /\ ~MoneyParses(f[6])
BY DEF Verdict

\* The amounts of a row that was validated are as their fields say.
LEMMA AmountsFollow ==
  ASSUME FieldsAreTexts, Judged
  PROVE  AmountIsAsWritten
<1>1. ASSUME Len(fields) = 7
      PROVE  fields[5] \in Seq(Character) /\ fields[6] \in Seq(Character)
  <2>1. fields \in Seq(Seq(Character)) /\ 5 \in 1..Len(fields) /\ 6 \in 1..Len(fields)
    BY <1>1 DEF FieldsAreTexts
  <2> QED BY <2>1, ElementOfSeq
<1>2. outcome # "none" => outcome = Verdict(fields)
  BY DEF Judged
<1>3. ASSUME outcome = "valid"
      PROVE  /\ AsciiOnly(fields[5]) => row.amount = CentsDenoted(fields[5])
             /\ AsciiOnly(fields[6]) => row.tax_amount = CentsDenoted(fields[6])
  <2>1. Verdict(fields) = "valid" /\ row = TransactionOf(fields)
    BY <1>2, <1>3 DEF Judged
  <2>2. Len(fields) = 7 /\ MoneyParses(fields[5]) /\ MoneyParses(fields[6])
    BY <2>1, VerdictOnAmounts
  <2>3. /\ row.amount = FromDecimalString(fields[5])
        /\ row.tax_amount = FromDecimalString(fields[6])
    BY <2>1 DEF TransactionOf
  <2> QED BY <1>1, <2>2, <2>3, AcceptedIsDenoted
<1>4. outcome = "malformed amount" => ~IsNumber(fields[5])
  <2> SUFFICES ASSUME outcome = "malformed amount", IsNumber(fields[5]) PROVE FALSE
    OBVIOUS
  <2>1. Verdict(fields) = "malformed amount"
    BY <1>2
  <2>2. Len(fields) = 7 /\ ~MoneyParses(fields[5])
    BY <2>1, VerdictOnAmounts
  <2> QED BY <1>1, <2>2, NumberIsAccepted
<1>5. outcome = "malformed tax_amount" => ~IsNumber(fields[6])
  <2> SUFFICES ASSUME outcome = "malformed tax_amount", IsNumber(fields[6]) PROVE FALSE
    OBVIOUS
  <2>1. Verdict(fields) = "malformed tax_amount"
    BY <1>2
  <2>2. Len(fields) = 7 /\ ~MoneyParses(fields[6])
    BY <2>1, VerdictOnAmounts
  <2> QED BY <1>1, <2>2, NumberIsAccepted
<1> QED BY <1>3, <1>4, <1>5 DEF AmountIsAsWritten

\* What the loop leaves to validation, and validation to the other steps.
LEMMA RowStarts ==
  Init => RowInv
BY ScanStarts, FieldsStartEmpty, JudgedStarts DEF RowInv

\* Every step keeps it.
LEMMA RowStays ==
  ASSUME RowInv, [Next]_vars
  PROVE  RowInv'
<1>1. ScanInv' /\ Judged'
  BY NextInv, JudgedStays DEF RowInv
<1>2. FieldsAreTexts'
  <2>1. CASE Split
    BY <2>1, FieldsGrow DEF Split, RowInv, ScanInv
  <2>2. ASSUME UNCHANGED <<current, fields>>
        PROVE  FieldsAreTexts'
    BY <2>2 DEF RowInv, FieldsAreTexts
  <2>3. CASE ValidateRow
    BY <2>2, <2>3 DEF ValidateRow
  <2>4. CASE InsertBatch
    BY <2>2, <2>4 DEF InsertBatch
  <2>5. CASE BulkInsertViaCopy
    BY <2>2, <2>5 DEF BulkInsertViaCopy
  <2>6. CASE FindAll
    BY <2>2, <2>6 DEF FindAll
  <2>7. CASE WriteReport
    BY <2>2, <2>7 DEF WriteReport
  <2>8. CASE UNCHANGED vars
    BY <2>2, <2>8 DEF vars, scan_vars
  <2> QED
    BY <2>1, <2>3, <2>4, <2>5, <2>6, <2>7, <2>8 DEF Next, Step, Terminated
<1> QED
  BY <1>1, <1>2 DEF RowInv

\* The other steps leave the fields alone.
LEMMA SplitStays ==
  ASSUME RowInv, SplitInv, [Next]_vars
  PROVE  SplitInv'
<1>1. CASE Split
  BY <1>1, SplitGoesOn DEF Split, RowInv
<1>2. ASSUME pc # "scan", pc' # "scan", UNCHANGED <<line, fields>>
      PROVE  SplitInv'
  BY <1>2 DEF SplitInv, SplitSoFar, NoQuoteBehindQuote
<1>3. CASE ValidateRow
  BY <1>2, <1>3 DEF ValidateRow
<1>4. CASE InsertBatch
  BY <1>2, <1>4 DEF InsertBatch, Store
<1>5. CASE BulkInsertViaCopy
  BY <1>2, <1>5 DEF BulkInsertViaCopy, Store
<1>6. CASE FindAll
  BY <1>2, <1>6 DEF FindAll
<1>7. CASE WriteReport
  BY <1>2, <1>7 DEF WriteReport
<1>8. CASE UNCHANGED vars
  <2>1. UNCHANGED <<line, i, in_quotes, current, fields, pc>>
    BY <1>8 DEF vars, scan_vars
  <2> QED BY <2>1 DEF SplitInv, SplitSoFar, NoQuoteBehindQuote
<1> QED
  BY <1>1, <1>3, <1>4, <1>5, <1>6, <1>7, <1>8 DEF Next, Step, Terminated

-----------------------------------------------------------------------------
(* What was validated is what is stored, and what is stored is read back. *)

\* What a valid row has been checked for.
LEMMA VerdictIsValid ==
  ASSUME NEW f, Verdict(f) = "valid"
  PROVE  /\ Len(f) = 7 /\ ~DateRaises(f[4]) /\ DateParses(f[4])
         /\ ~Negative(FromDecimalString(f[5])) /\ ~Negative(FromDecimalString(f[6]))
BY DEF Verdict

\* The Transaction built of the fields of a valid row is of the right types, its
\* date a real one, its amounts not negative.
LEMMA ValidatedIsAccepted ==
  ASSUME NEW f \in Seq(Text), Verdict(f) = "valid"
  PROVE  TransactionOf(f) \in AcceptedRow
<1>1. /\ Len(f) = 7 /\ ~DateRaises(f[4]) /\ DateParses(f[4])
      /\ ~Negative(FromDecimalString(f[5])) /\ ~Negative(FromDecimalString(f[6]))
  BY VerdictIsValid
<1>2. f[1] \in Text /\ f[2] \in Text /\ f[3] \in Text /\ f[4] \in Text /\ f[5] \in Text
      /\ f[6] \in Text /\ f[7] \in Text
  <2>1. ASSUME NEW k \in 1..7 PROVE f[k] \in Text
    <3>1. k \in 1..Len(f)
      BY <1>1
    <3> QED BY <3>1, ElementOfSeq
  <2> QED BY <2>1
<1>3. FromDecimalString(f[5]) \in Nat /\ FromDecimalString(f[6]) \in Nat
  BY <1>1, <1>2, AmountIsNatural
<1>4. RealDate(DateParts(f[4])) /\ DateParts(f[4]) \in Nat \X Nat \X Nat
  <2>1. RealDate(DateParts(f[4])) /\ HasDateShape(f[4])
    BY <1>1 DEF DateParses
  <2>2. \A k \in DigitPositions : IsDecimal(f[4][k])
    BY <1>1, <2>1 DEF DateRaises
  <2> QED BY <2>1, <2>2, PartsOfDate
<1> QED BY <1>2, <1>3, <1>4 DEF TransactionOf, AcceptedRow

\* The columns of the row of the table that keeps t.
AsColumns(t) ==
  <<t.transaction_id, t.invoice_number, t.vendor_id, t.transaction_date,
    t.amount, t.tax_amount, t.currency>>

\* The table keeps the columns handed over: a date printed and parsed again is the date.
LEMMA ColumnsAreStored ==
  ASSUME NEW t \in AcceptedRow
  PROVE  AsStored(ToColumns(t)) = AsColumns(t)
<1>1. DateParts(DateToString(t.transaction_date)) = t.transaction_date
  <2>1. t.transaction_date \in Nat \X Nat \X Nat /\ RealDate(t.transaction_date)
    BY DEF AcceptedRow
  <2> QED BY <2>1, PrintedDateParses
<1>2. ToColumns(t)[4] = DateToString(t.transaction_date)
  BY DEF ToColumns
<1>3. AsStored(ToColumns(t)) = [ToColumns(t) EXCEPT ![4] = t.transaction_date]
  BY <1>1, <1>2 DEF AsStored
<1> QED BY <1>3 DEF ToColumns, AsColumns

\* From the verdict to the report.
Kept ==
  /\ pc \in {"store", "load", "report"} => outcome = "valid"
  /\ outcome # "valid" => row = NoRow
  /\ pc \in {"scan", "validate", "store"} => stored = NoRow
  /\ pc \in {"scan", "validate", "store", "load"} => loaded = NoRow
  /\ pc \in {"load", "report"} => stored = AsColumns(row)
  /\ pc = "report" => loaded = row
  /\ stored # NoRow => outcome = "valid" /\ stored = AsColumns(row)
  /\ loaded # NoRow => outcome = "valid" /\ loaded = row

\* Nothing is kept at first.
LEMMA KeptStarts ==
  Init => Kept
BY DEF Init, ScanInit, Kept

\* A valid row is what the validator lets through.
LEMMA RowIsAccepted ==
  ASSUME RowInv, outcome = "valid"
  PROVE  row \in AcceptedRow
<1>1. Verdict(fields) = "valid" /\ row = TransactionOf(fields) /\ fields \in Seq(Text)
  BY DEF RowInv, Judged, FieldsAreTexts, Text
<1> QED BY <1>1, ValidatedIsAccepted

\* Every step keeps it; either insert path stores the columns of the row.
LEMMA KeptStays ==
  ASSUME RowInv, Kept, [Next]_vars
  PROVE  Kept'
<1>1. CASE Split
  <2>1. /\ pc = "scan" /\ pc' \in {"scan", "validate"}
        /\ UNCHANGED <<outcome, row, stored, loaded>>
    BY <1>1 DEF Split, ScanStep, EscapedQuote, CloseQuote, QuotedCharacter, OpenQuote, EndField,
                PlainCharacter, EndLine, At, Skip, row_vars
  <2> QED BY <2>1 DEF Kept
<1>2. CASE ValidateRow
  <2>1. /\ pc = "validate" /\ pc' \in {"store", "done"} /\ UNCHANGED <<stored, loaded>>
        /\ pc' = "store" => outcome' = "valid"
        /\ outcome' # "valid" => row' = NoRow
    BY <1>2 DEF ValidateRow
  <2> QED BY <2>1 DEF Kept
<1>3. ASSUME pc = "store", NEW columns, AsStored(columns) = AsColumns(row), Store(columns),
             UNCHANGED <<outcome, row, loaded>>
      PROVE  Kept'
  <2>1. /\ outcome' = outcome /\ row' = row /\ loaded' = loaded
        /\ \/ pc' = "load" /\ stored' = AsColumns(row)
           \/ pc' = "done" /\ stored' = stored
    BY <1>3 DEF Store
  <2>2. outcome = "valid" /\ stored = NoRow /\ loaded = NoRow
    BY <1>3 DEF Kept
  <2>3. AsColumns(row)' = AsColumns(row)
    BY <2>1 DEF AsColumns
  <2> QED BY <2>1, <2>2, <2>3 DEF Kept
<1>4. CASE InsertBatch
  <2>1. /\ pc = "store" /\ Store(ToColumns(row)) /\ UNCHANGED <<outcome, row, loaded>>
    BY <1>4 DEF InsertBatch
  <2>2. row \in AcceptedRow
    BY <2>1, RowIsAccepted DEF Kept
  <2> QED BY <1>3, <2>1, <2>2, ColumnsAreStored
<1>5. CASE BulkInsertViaCopy
  <2>1. /\ pc = "store" /\ Store(CopiedColumns(CopyLine(row))) /\ UNCHANGED <<outcome, row, loaded>>
    BY <1>5 DEF BulkInsertViaCopy
  <2>2. row \in AcceptedRow
    BY <2>1, RowIsAccepted DEF Kept
  <2>3. CopiedColumns(CopyLine(row)) = ToColumns(row)
    BY <2>2, CopyReadsBack
  <2>4. AsStored(CopiedColumns(CopyLine(row))) = AsColumns(row)
    BY <2>2, <2>3, ColumnsAreStored
  <2> QED BY <1>3, <2>1, <2>4
<1>6. CASE FindAll
  <2>1. /\ pc = "load" /\ pc' = "report" /\ UNCHANGED <<outcome, row, stored>>
        /\ loaded' = [transaction_id |-> stored[1], invoice_number |-> stored[2],
           vendor_id |-> stored[3],
                      transaction_date |-> DateParts(DateToString(stored[4])),
                      amount |-> stored[5], tax_amount |-> stored[6], currency |-> stored[7]]
    BY <1>6 DEF FindAll
  <2>2. outcome = "valid" /\ stored = AsColumns(row)
    BY <2>1 DEF Kept
  <2>3. row \in AcceptedRow
    BY <2>2, RowIsAccepted
  <2>4. DateParts(DateToString(row.transaction_date)) = row.transaction_date
    <3>1. row.transaction_date \in Nat \X Nat \X Nat /\ RealDate(row.transaction_date)
      BY <2>3 DEF AcceptedRow
    <3> QED BY <3>1, PrintedDateParses
  <2>5. /\ stored[1] = row.transaction_id /\ stored[2] = row.invoice_number
        /\ stored[3] = row.vendor_id /\ stored[4] = row.transaction_date
        /\ stored[5] = row.amount /\ stored[6] = row.tax_amount /\ stored[7] = row.currency
    BY <2>2 DEF AsColumns
  <2>6. row = [transaction_id |-> row.transaction_id, invoice_number |-> row.invoice_number,
               vendor_id |-> row.vendor_id, transaction_date |-> row.transaction_date,
               amount |-> row.amount, tax_amount |-> row.tax_amount, currency |-> row.currency]
    BY <2>3 DEF AcceptedRow
  <2>7. loaded' = row
    BY <2>1, <2>4, <2>5, <2>6
  <2>8. AsColumns(row)' = AsColumns(row) /\ row' = row /\ outcome' = outcome /\ stored' = stored
    BY <2>1 DEF AsColumns
  <2> QED BY <2>1, <2>2, <2>7, <2>8 DEF Kept
<1>7. CASE WriteReport
  <2>1. pc = "report" /\ pc' = "done" /\ UNCHANGED <<outcome, row, stored, loaded>>
    BY <1>7 DEF WriteReport
  <2>2. AsColumns(row)' = AsColumns(row)
    BY <2>1 DEF AsColumns
  <2> QED BY <2>1, <2>2 DEF Kept
<1>8. CASE UNCHANGED vars
  <2>1. UNCHANGED <<pc, outcome, row, stored, loaded>>
    BY <1>8 DEF vars, scan_vars, row_vars
  <2>2. AsColumns(row)' = AsColumns(row)
    BY <2>1 DEF AsColumns
  <2> QED BY <2>1, <2>2 DEF Kept
<1> QED
  BY <1>1, <1>2, <1>4, <1>5, <1>6, <1>7, <1>8 DEF Next, Step, Terminated

-----------------------------------------------------------------------------
(* The report and the types. *)

\* The report is empty or that of the row.
Reported ==
  /\ pc # "done" => report = <<>>
  /\ report # <<>> => outcome = "valid" /\ report = ReportLine(row)

\* What may become of a row.
Outcomes ==
  /\ pc \in {"scan", "validate", "store", "load", "report", "done"}
  /\ outcome \in Outcome

\* At first.
LEMMA TypesStart ==
  Init => Reported /\ Outcomes
BY DEF Init, ScanInit, Reported, Outcomes, Outcome

\* Every step keeps both.
LEMMA TypesStay ==
  ASSUME Kept, Reported, Outcomes, [Next]_vars
  PROVE  Reported' /\ Outcomes'
<1>0. ASSUME row' = row PROVE ReportLine(row)' = ReportLine(row)
  BY <1>0 DEF ReportLine
<1>1. CASE Split
  <2>1. /\ pc = "scan" /\ pc' \in {"scan", "validate"}
        /\ UNCHANGED <<outcome, row, report>>
    BY <1>1 DEF Split, ScanStep, EscapedQuote, CloseQuote, QuotedCharacter, OpenQuote, EndField,
                PlainCharacter, EndLine, At, Skip, row_vars
  <2> QED BY <2>1 DEF Reported, Outcomes
<1>2. CASE ValidateRow
  <2>1. /\ pc = "validate" /\ pc' \in {"store", "done"} /\ report' = report
        /\ outcome' = Verdict(fields)
    BY <1>2 DEF ValidateRow
  <2>2. Verdict(fields) \in Outcome
    BY DEF Verdict, Outcome
  <2> QED BY <2>1, <2>2 DEF Reported, Outcomes
<1>3. ASSUME pc # "done", pc' \in {"load", "report", "done"}, UNCHANGED <<outcome, row, report>>
      PROVE  Reported' /\ Outcomes'
  <2>1. report' = <<>>
    BY <1>3 DEF Reported
  <2> QED BY <1>3, <2>1 DEF Reported, Outcomes
<1>4. CASE InsertBatch
  BY <1>3, <1>4 DEF InsertBatch, Store
<1>5. CASE BulkInsertViaCopy
  BY <1>3, <1>5 DEF BulkInsertViaCopy, Store
<1>6. CASE FindAll
  BY <1>3, <1>6 DEF FindAll
<1>7. CASE WriteReport
  <2>1. /\ pc = "report" /\ pc' = "done" /\ UNCHANGED <<outcome, row>>
        /\ report' = ReportLine(loaded)
    BY <1>7 DEF WriteReport, ReportLine
  <2>2. loaded = row /\ outcome = "valid"
    BY <2>1 DEF Kept
  <2> QED BY <1>0, <2>1, <2>2 DEF Reported, Outcomes
<1>8. CASE UNCHANGED vars
  <2>1. UNCHANGED <<pc, outcome, row, report>>
    BY <1>8 DEF vars, scan_vars, row_vars
  <2> QED BY <1>0, <2>1 DEF Reported, Outcomes
<1> QED
  BY <1>1, <1>2, <1>4, <1>5, <1>6, <1>7, <1>8 DEF Next, Step, Terminated

\* The members of a product of three sets.
LEMMA Triple ==
  ASSUME NEW A, NEW B, NEW C, NEW y \in A, NEW m \in B, NEW n \in C
  PROVE  <<y, m, n>> \in A \X B \X C
OBVIOUS

\* A row of the types the validator lets through is a Transaction, its columns
\* are those of the table.
LEMMA AcceptedIsTransaction ==
  ASSUME NEW t \in AcceptedRow
  PROVE  /\ t \in Transaction
         /\ AsColumns(t) \in Text \X Text \X Text \X Date \X Nat \X Nat \X Text
<1>1. t.transaction_date \in Date
  <2>1. PICK y \in Nat, m \in Nat, n \in Nat : t.transaction_date = <<y, m, n>>
    BY DEF AcceptedRow
  <2>2. RealDate(<<y, m, n>>)
    BY <2>1 DEF AcceptedRow
  <2>3. DaysInMonth(y, m) \in {28, 29, 30, 31}
    BY DEF DaysInMonth
  <2>4. y \in 1..9999 /\ m \in 1..12 /\ n \in 1..DaysInMonth(y, m)
    BY <2>2 DEF RealDate
  <2>5. n \in 1..31
    BY <2>3, <2>4
  <2> DEFINE years == 1..9999
             months == 1..12
             days == 1..31
  <2>6. y \in years /\ m \in months /\ n \in days
    BY <2>4, <2>5
  <2>7. Date = years \X months \X days
    BY DEF Date
  <2> HIDE DEF years, months, days
  <2>8. <<y, m, n>> \in Date
    BY <2>6, <2>7, Triple
  <2> QED BY <2>1, <2>8
<1> HIDE DEF Date
<1>2. t \in Transaction
  BY <1>1 DEF AcceptedRow, Transaction
<1>3. /\ t.transaction_id \in Text /\ t.invoice_number \in Text /\ t.vendor_id \in Text
      /\ t.currency \in Text /\ t.amount \in Nat /\ t.tax_amount \in Nat
  BY DEF AcceptedRow
<1>4. AsColumns(t) \in Text \X Text \X Text \X Date \X Nat \X Nat \X Text
  BY <1>1, <1>3 DEF AsColumns
<1> QED BY <1>2, <1>4

\* The types of the row, what is stored and what is loaded follow.
LEMMA TypesFollow ==
  ASSUME RowInv, Kept, Reported, Outcomes
  PROVE  TypeOK
<1>1. ASSUME outcome = "valid" PROVE row \in AcceptedRow
  BY <1>1, RowIsAccepted
<1>2. row # NoRow => row \in Transaction
  BY <1>1, AcceptedIsTransaction DEF Kept
<1>3. stored # NoRow => stored \in Text \X Text \X Text \X Date \X Nat \X Nat \X Text
  BY <1>1, AcceptedIsTransaction DEF Kept
<1>4. loaded # NoRow => loaded \in Transaction
  BY <1>1, AcceptedIsTransaction DEF Kept
<1>5. report \in Text
  <2>1. <<>> \in Text
    BY CatEmpty DEF Text
  <2> QED BY <1>1, <2>1, ReportLineText DEF Reported
<1>6. ScanTypeOK
  BY DEF RowInv, ScanInv, FieldsAreTexts, ScanTypeOK, Text
<1> QED BY <1>2, <1>3, <1>4, <1>5, <1>6 DEF TypeOK, Outcomes

-----------------------------------------------------------------------------
(* The theorems. *)

\* What every step keeps: the scanner's position and fields, the verdict on
\* them, what was stored and loaded of the row, the report.
IInv == RowInv /\ SplitInv /\ Kept /\ Reported /\ Outcomes

\* Whatever the lines hold, split_line is in step with the quotes and has split
\* what it has passed, the verdict is that of validate_row on its fields
\* (row_validator.py:47-102), and what either insert path stores, find_all
\* loads and the report says is the row it built.
THEOREM Invariance == Spec => []IInv
<1>1. Init => IInv
  BY RowStarts, SplitStarts, KeptStarts, TypesStart DEF IInv
<1>2. IInv /\ [Next]_vars => IInv'
  BY RowStays, SplitStays, KeptStays, TypesStay DEF IInv
<1> QED
  BY <1>1, <1>2, PTL DEF Spec

\* On a line of any characters, however its quotes are placed and whether they
\* are closed or not, split_line's loop has split what it has passed, and at
\* the end the whole line, into the fields it says (csv_parser.py:23-56).
THEOREM SplitIsTheLine == Spec => []SplitSoFar
<1>1. IInv => SplitSoFar
  BY DEF IInv, SplitInv
<1> QED
  BY Invariance, <1>1, PTL

\* Whatever a date field holds, Date.parse accepts real dates only, prints an
\* ASCII one as it was written, and turns no day's spelling away
\* (date_value.py:38-57).
THEOREM DatesAreAsWritten == Spec => []DateIsAsWritten
<1>1. IInv => DateIsAsWritten
  BY DatesFollow DEF IInv, RowInv
<1> QED
  BY Invariance, <1>1, PTL

\* The same of every day from 0001-01-01 to 9999-12-31, which no instance
\* tries: none is turned away.
THEOREM EveryDayIsAccepted == Spec => []EveryDayAccepted
<1>1. IInv => EveryDayAccepted
  BY DatesFollow DEF IInv, RowInv
<1> QED
  BY Invariance, <1>1, PTL

\* Whatever an amount field holds, however long: from_decimal_string takes an
\* ASCII text that it accepts for the number denoted, cut to the cent, and
\* turns no number away (money.py:32-90).
THEOREM AmountsAreAsWritten == Spec => []AmountIsAsWritten
<1>1. IInv => AmountIsAsWritten
  BY AmountsFollow DEF IInv, RowInv
<1> QED
  BY Invariance, <1>1, PTL

\* Whatever the texts of an accepted row hold -- tabs, line breaks, backslashes --
\* find_all returns it as validate_row built it, inserted row by row or by COPY
\* (transaction_repository.py:67-198).
THEOREM ReadBack == Spec => []StoredIsReadBack
<1>1. IInv => StoredIsReadBack
  BY DEF IInv, Kept, StoredIsReadBack
<1> QED
  BY Invariance, <1>1, PTL

\* Whatever the transaction id of the row holds -- commas, quotes, line breaks --
\* split_line's rules split its line of the report back into five fields, and
\* from_decimal_string reads the amount back to the cents stored
\* (csv_report_writer.py:20-91, money.py:32-120).
THEOREM ReportIsReadBack == Spec => []ReportReadsBack
<1>1. IInv => ReportReadsBack
  <2> SUFFICES ASSUME RowInv, Reported, report # <<>> PROVE ReportReadsBack
    BY DEF IInv, ReportReadsBack
  <2>1. outcome = "valid" /\ report = ReportLine(row)
    BY DEF Reported
  <2>2. row \in AcceptedRow
    BY <2>1, RowIsAccepted
  <2>3. FieldsOf(report) =
          <<row.transaction_id, <<"MISSING_EXTERNAL">>, MoneyToString(row.amount), <<>>,
            Decimal(row.amount)>>
    BY <2>1, <2>2, ReportSplits
  <2>4. row.amount \in Nat
    BY <2>2 DEF AcceptedRow
  <2>5. /\ MoneyParses(MoneyToString(row.amount))
        /\ FromDecimalString(MoneyToString(row.amount)) = row.amount
    BY <2>4, MoneyReadsBack
  <2> QED BY <2>3, <2>5 DEF ReportReadsBack
<1> QED
  BY Invariance, <1>1, PTL

\* For every set of lines, every variable stays within its type, and no row with
\* a negative amount is kept (row_validator.py:84-95).
THEOREM TypeCorrect == Spec => []TypeOK
<1>1. IInv => TypeOK
  BY TypesFollow DEF IInv
<1> QED
  BY Invariance, <1>1, PTL
=============================================================================
