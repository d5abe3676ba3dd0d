\* The receiving side: one of two peers restarts.
SPECIFICATION Spec
CONSTANTS
  ARC_RELIABLE_PENDING_MAX = 1
  ARC_RELIABLE_SEEN_MAX = 2
  ARC_RELIABLE_SOURCES_MAX = 2
  BYTE = 2
  HALF_CLOCK = 2
  timeout_ms = 0
  max_retries = 0
  Free = Free
  Addrs = {1, 2, 3}
  Sessions = {1, 2}
  my_addr = 1
  session = 1
  first_seq = 0
  Dsts = {}
  CallIds = {}
  Inbound <- OneRestartInbound
  TICK_PERIOD = 1
INVARIANT SeenInFifoOrder
