SPECIFICATION FairSpec
CONSTANTS
  Character <- MCCharacter
  Lines <- MCLines
  SupportedCurrencies = {"INR", "USD"}
  BigIntMax = 99999
  NoRow = NoRow
INVARIANTS
  TypeOK
  InQuotesIsParity
  SplitSoFar
  AmountIsAsWritten
  DateIsAsWritten
  StoredIsReadBack
  ReportReadsBack
PROPERTIES
  EveryRowSettles
