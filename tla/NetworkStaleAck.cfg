\* The sender restarts with the same first_seq and another session.
SPECIFICATION NSpec
CONSTANTS
  ARC_RELIABLE_PENDING_MAX = 2
  ARC_RELIABLE_SEEN_MAX = 2
  ARC_RELIABLE_SOURCES_MAX = 1
  BYTE = 2
  HALF_CLOCK = 1
  timeout_ms = 0
  max_retries = 1
  Free = Free
  Nodes = {1, 2}
  Sessions = {1, 2}
  FirstSessions = {1, 2}
  FirstSeqs = {3}
  Calls <- OneWay
  CanReboot = {1}
  MaxReboots = 1
  MaxDraws = 4
INVARIANT AckedImpliesDelivered
