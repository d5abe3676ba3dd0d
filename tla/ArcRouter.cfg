\* Two links and three destinations besides the node, for two route slots.
SPECIFICATION RSpec
CONSTANTS
  Free = Free
  ARC_ROUTER_MAX_LINKS = 2
  ARC_ROUTER_MAX_ROUTES = 2
  Dsts = {1, 2, 3, 4}
  my_addr = 1
INVARIANTS RTypeOK OneRoutePerDst NoDanglingLink
PROPERTY ImplementsRouteMap
