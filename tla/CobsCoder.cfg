SPECIFICATION Spec
CONSTANTS
  BYTE = 8
  MaxInput = 9
  MaxChunk = 5
  Inputs <- MCInputs
  Chunks <- MCChunks
INVARIANTS EncodedFits DelimiterIsOnlyZero RoundTrip DecodedFits
CHECK_DEADLOCK FALSE
