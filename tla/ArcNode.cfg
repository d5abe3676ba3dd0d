SPECIFICATION Spec
CONSTANTS
  Free = Free
  me = me
  peer = peer
  far = far
  ARC_RELIABLE_PENDING_MAX = 2
  ARC_RELIABLE_SEEN_MAX = 2
  ARC_RELIABLE_SOURCES_MAX = 2
  BYTE = 4
  HALF_CLOCK = 8
  timeout_ms = 1
  max_retries = 1
  Addrs = {me, peer, far}
  my_addr = me
  session = 0
  first_seq = 4
  ARC_ROUTER_MAX_LINKS = 2
  ARC_ROUTER_MAX_ROUTES = 2
  links <- MCLinks
  routes <- MCRoutes
  default_link_idx <- MCDefault
  Calls <- MCCalls
  Inbound <- MCInbound
  MaxArrivals = 2
  MaxClock = 2
  PollingLinks = TRUE
INVARIANTS SlotsKeepTheirFrames NewFramesWait LoopbackSettles FramesKeepTheirPayload
CHECK_DEADLOCK FALSE
