\* A C node, a C node that may restart and a Python node.
SPECIFICATION MSpec
CONSTANTS
  ARC_RELIABLE_PENDING_MAX = 1
  ARC_RELIABLE_SEEN_MAX = 2
  ARC_RELIABLE_SOURCES_MAX = 1
  BYTE = 2
  HALF_CLOCK = 1
  timeout_ms = 0
  max_retries = 1
  Free = Free
  Nodes = {1, 2, 3}
  PyNodes = {3}
  Sessions = {1, 2}
  FirstSessions = {1}
  FirstSeqs = {3}
  Calls <- Mixed
  CanReboot = {2}
  MaxReboots = 1
  MaxDraws = 3
INVARIANTS MTypeOK AckedUnlessCrashed OncePerIncarnation
PROPERTY ImplementsService
