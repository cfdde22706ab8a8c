SPECIFICATION FairSpec
CONSTANTS
  BufferSize = 3
  MailLines = {0, 1, 2, 3}
  FirstParts = {1, 2, 3}
  PipeCap = 3
  MaxOutput = 3
INVARIANTS
  TypeOK
  FilterGetsTheMail
  ReplyIsWhole
PROPERTY
  TransformationEnds
CHECK_DEADLOCK FALSE
