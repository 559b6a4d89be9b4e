\* A receiver of 40 / 60 ms and five captures of a sender that may pause.
SPECIFICATION MCSpec
CONSTANTS
  TARGET_FRAMES = 2
  MAX_FRAMES = 3
  MAX_TIME = 11
  FIRST_SEQ = 65534
  MAX_CAPTURES = 5
  NoPayload = NoPayload
  Empty = Empty
  Packets <- MCPackets
INVARIANTS
  NeverMalformed
  ConcealmentBounded
PROPERTIES
  OvertakenForever
  PlayedInOrder
