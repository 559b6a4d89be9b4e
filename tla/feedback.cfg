\* Everything the network and the encoder may do; the loss control may fail.
SPECIFICATION FairFeedbackSpec
CONSTANTS
  MIN_BITRATE = 16000
  INITIAL_BITRATE = 24000
  MAX_BITRATE = 48000
  Reports <- MCReports
  LOCAL_SSRC = 1
  TIMEOUT = 1
  FailingCtls = {"loss"}
  Nothing = Nothing
  MAX_TIME = 4
INVARIANTS
  EncoderAsReported
PROPERTIES
  ReportsInOrder
  BackoffAfterSilence
  OneBackoffPerSilence
  SilenceBacksOff
