SPECIFICATION MimeSpec
CONSTANTS
  Octets <- Lexemes
  MaxLength = 400
  AnyLength = 0
  MaxValue = 16
  Shapes = {"trailed"}
INVARIANT
  OpenDelimitersStay
CHECK_DEADLOCK FALSE
