SPECIFICATION BothSpec
CONSTANTS
  r1 = r1
  r2 = r2
  Readers = {r1, r2}
  NameOf <- Names
  NUL = "0"
  Contexts = {x1, x2}
  Handles = {h1, h2}
  None = None
  Examples = {1, 2, 3, 4}
INVARIANTS TypeOK OwnsContext CleanAfterFatal CallsHaveContext NothingLeft
PROPERTIES ListIsSnapshot BothWaitsEnd
