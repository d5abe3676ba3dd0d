SPECIFICATION Spec
CONSTANTS
  BYTE = 16
  ARC_MAX_PAYLOAD_SIZE = 7
  ARC_FC_VIDEO_STATUS_MAX_SLOTS = 2
  ARC_FC_VIDEO_STATUS_MAX_SENDERS = 1
  ARC_FC_VIDEO_MAX_LAYOUTS = 2
  ARC_FC_VIDEO_LAYOUT_NAME_CAP = 3
  ARC_POWER_MAX_CHANNELS = 1
  ARC_VIDEO_NAME_CAP = 3
  TextCap = 5
  Payloads <- MCPayloads
  MaxDecodes = 2
INVARIANTS PayloadComesBack MessageComesBack StaysEncodable WritesWithinCapacity
CHECK_DEADLOCK FALSE
