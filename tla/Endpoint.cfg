\* Sending: two slots, three calls, a clock of six values.  Receiving: one peer
\* restarts, one does not, one is not tracked.
SPECIFICATION OneSideSpec
CONSTANTS
  ARC_RELIABLE_PENDING_MAX = 2
  ARC_RELIABLE_SEEN_MAX = 3
  ARC_RELIABLE_SOURCES_MAX = 2
  BYTE = 2
  HALF_CLOCK = 3
  timeout_ms = 1
  max_retries = 1
  Free = Free
  Addrs = {1, 2, 3, 4}
  Sessions = {1, 2}
  my_addr = 1
  session = 1
  first_seq = 3
  Dsts = {2}
  CallIds = {c1, c2, c3}
  Inbound <- BothInbound
  TICK_PERIOD = 2
INVARIANTS TypeOK ParkedInOneSlot DueWhenExpired RetriedInTime FailedAfterAllRetries
INVARIANTS TablesHaveNoDuplicates TrackedSessions WindowHolds
PROPERTIES OutcomeIsFinal EverySendSettles
