CONSTANTS
  ULLONG_MAX = 25
  MaxPort = 80
  Range16 = 16
  Streams <- MCStreams
  Encode <- MCEncode
  Reads = {1, 2, 3, 8, 13}
SPECIFICATION Spec
INVARIANTS
  ParsedExactly
  UrlParts
  BoundariesClean
CHECK_DEADLOCK FALSE
