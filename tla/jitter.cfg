\* The default 60 / 120 ms buffer and a stream of nine packets that crosses
\* the wrap: one more than the slots, so that a full turn of the array occurs.
SPECIFICATION Spec
CONSTANTS
  TARGET_FRAMES = 3
  MAX_FRAMES = 6
  MAX_TIME = 9
  FIRST_SEQ = 65533
  STREAM = 9
  NoPayload = NoPayload
  Empty = Empty
  Packets <- MCPackets
INVARIANTS
  JitterInv
  LatencyBounded
  RebufferingBounded
PROPERTIES
  BufferRefinement
