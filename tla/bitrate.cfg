\* The default range, 16 to 48 kbit/s, from a bitrate that will be rounded.
SPECIFICATION MCSpec
CONSTANTS
  MIN_BITRATE = 16000
  INITIAL_BITRATE = 24500
  MAX_BITRATE = 48000
  Reports <- MCReports
PROPERTIES
  LossNeverRaises
  IncreaseAfterThreeClean
  CleanConverges
  HeavyLossDescends
