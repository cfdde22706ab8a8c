SPECIFICATION MimeSpec
CONSTANTS
  Octets <- Lexemes
  MaxLength = 400
  AnyLength = 0
  MaxValue = 16
  Shapes = {"nested"}
INVARIANT
  PicturesAreKept
CHECK_DEADLOCK FALSE
