SPECIFICATION FairSpec
CONSTANTS
  Apps = {a1}
  Commands = {read}
  MaxData = 7
  BYTE = 3
PROPERTY JustStatus
