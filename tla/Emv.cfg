SPECIFICATION FairSpec
CONSTANTS
  a1 = a1
  a2 = a2
  Aids = {a1, a2}
  KnownAids <- BothKnown
  Directories <- SmallDirectories
  NoPse = NoPse
  BadRecord = BadRecord
  FileLists <- SmallLists
  Behind <- SmallMemory
  BYTE = 4
  MAX_RECORDS = 2
  NoApp = NoApp
INVARIANTS TypeOK ShownIsWhole OwnCommands FromDirectory
PROPERTY Ends
CHECK_DEADLOCK FALSE
