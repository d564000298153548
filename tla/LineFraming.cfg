SPECIFICATION FramingSpec
CONSTANTS
  NL = NL
  CR = CR
  Data = {x}
  kReadBufSize = 4
  kMaxLineBytes = 4
  MaxBytes = 9
INVARIANTS
  DeliveredAreLines
CHECK_DEADLOCK FALSE
