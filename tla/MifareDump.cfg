SPECIFICATION BothSpec
CONSTANTS
  k1 = k1
  k2 = k2
  k3 = k3
  k4 = k4
  NSectors = 2
  KeyValues = {k1, k2, k3, k4}
  CardKeys = {k1, k2}
  NoKey = NoKey
  MaxLines = 2
  Malformed = Malformed
  Missing = Missing
  TrailerBits <- TwoBits
  Lines <- FileLines
  KEYS <- ThreeKeys
INVARIANTS TypeOK ShownWithItsKey AccessOfSector AllShown TableIsRead
PROPERTY BothEnd
CHECK_DEADLOCK FALSE
