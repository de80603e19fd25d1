SPECIFICATION Spec
CONSTANTS
  Character <- MCCharacter
  Lines <- MCLines
  SupportedCurrencies = {"INR", "USD"}
  BigIntMax = 99999
  NoRow = NoRow
INVARIANT
  MoneyIsNotGuessed
