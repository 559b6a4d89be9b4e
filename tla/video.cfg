\* Payloads of 5 bytes and a receiver that takes NALs of up to 8.
SPECIFICATION MCSpec
CONSTANTS
  Stream <- MCStream
  PAYLOAD = 5
  MAX_NAL_SIZE = 8
  FIRST_SEQ = 65530
INVARIANTS
  VideoInv
  GapBeforeIsFlagged
PROPERTIES
  ChannelRefinement
  DeliveredIfComplete
