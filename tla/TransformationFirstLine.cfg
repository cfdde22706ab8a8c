SPECIFICATION FairSpec
CONSTANTS
  BufferSize = 3
  MailLines = {1}
  FirstParts = {0}
  PipeCap = 3
  MaxOutput = 1
PROPERTY
  TransformationEnds
CHECK_DEADLOCK FALSE
