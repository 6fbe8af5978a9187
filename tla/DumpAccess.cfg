SPECIFICATION Spec
CONSTANTS
  k1 = k1
  k2 = k2
  NSectors = 2
  KeyValues = {k1, k2}
  NoKey = NoKey
  MaxLines = 2
  Malformed = Malformed
  Missing = Missing
  TrailerBits <- TwoBits
  Lines <- FileLines
INVARIANT AccessIfAvailable
CHECK_DEADLOCK FALSE
