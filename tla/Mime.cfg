SPECIFICATION MimeSpec
CONSTANTS
  Octets <- Lexemes
  MaxLength = 400
  AnyLength = 7
  MaxValue = 16
  Shapes = {"single", "flat", "message", "trailed", "fatal"}
INVARIANTS
  EndIsReal
  EndIsFound
  Unstuffs
  MimeTypeOK
  DiesOnlyOf
  WritesTheMail
  WritesItWhole
  StackFollowsNesting
CHECK_DEADLOCK FALSE
