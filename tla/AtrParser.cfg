SPECIFICATION Spec
CONSTANTS
  Atrs <- SomeAtrs
  SIZES = 65536
  RID <- PcscRid
INVARIANTS TypeOK Decomposed Verdict AnswerOfCard
PROPERTY AskingIsReading
