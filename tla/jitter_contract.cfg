\* The startup contract of the README against a sender that jumps ahead.
SPECIFICATION Spec
CONSTANTS
  TARGET_FRAMES = 2
  MAX_FRAMES = 3
  MAX_TIME = 7
  FIRST_SEQ = 65533
  STREAM = 6
  NoPayload = NoPayload
  Empty = Empty
  Packets <- MCPackets
PROPERTIES
  OneCallbackPerTick
