\* Three decoders: one deleted, one created while a stop is under way and one
\* after the restart.
SPECIFICATION BridgeSpec
CONSTANTS
  Codecs = {c1, c2, c3}
  Null = Null
INVARIANTS
  QuietBeforeStop
  EncoderInUse
  StartedOrReleased
  DecoderSound
PROPERTIES
  LostOnlyByRetry
CHECK_DEADLOCK FALSE
