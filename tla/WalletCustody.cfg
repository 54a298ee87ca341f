SPECIFICATION CustodySpec
CONSTANTS
  c1 = c1
  c2 = c2
  t1 = t1
  t2 = t2
  LegacyKey = LegacyKey
  NoKey = NoKey
  NoToken = NoToken
  Calls <- TwoCalls
  Tokens <- TwoTokens
  MaxRestarts = 1
SYMMETRY CustodySymmetry
INVARIANTS
  VerifiedOnce
  AddressesKept
  AnswersHold
CHECK_DEADLOCK FALSE
