\* Inputs as long as the longest run, and longer.
SPECIFICATION Spec
CONSTANTS
  BYTE = 8
  MaxInput = 9
  MaxChunk = 5
  Inputs <- MCInputs
  Chunks <- MCChunks
INVARIANT AnyInputFits
CHECK_DEADLOCK FALSE
