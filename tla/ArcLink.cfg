SPECIFICATION Spec
CONSTANTS
  BITS = 5
  BYTE = 32
  CRC_POLY = 563
  Sent <- MCSent
  FragileAt <- MCFragileAt
  FlagsSet = {1, 8}
  MaxSetFlag = 1
INVARIANTS CleanFrameArrives DamageIsDetected AckFindsItsWayBack
CHECK_DEADLOCK FALSE
