SPECIFICATION FairSpec
CONSTANTS
  BYTE = 256
  POS = 65536
  MAX_TAG = 3
  MAX_LENGTH = 4
  MAX_CHILDREN = 12
  Encodings <- SampleEncodings
  Lists <- SampleLists
  Cards <- SampleCards
  Junk = Junk
INVARIANTS TypeOK TreeIsWritten ShownIsWritten ReportsTheCard
PROPERTY Ends
CHECK_DEADLOCK FALSE
