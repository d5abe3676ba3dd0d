\* Both sides of the Python endpoint: two calls, ACKs, data of two peers.
SPECIFICATION FairSpec
CONSTANTS
  BYTE = 2
  timeout_s = 2
  max_retries = 2
  me = me
  peer = peer
  other = other
  my_addr = me
  session = 1
  first_seq = 3
  Calls <- MCCalls
  Inbound <- MCInbound
  MaxDraws = 4
INVARIANTS PendingMatchesCalls AckedIsDelivered DeliveredOnce
PROPERTIES OutcomeIsFinal EverySendSettles
