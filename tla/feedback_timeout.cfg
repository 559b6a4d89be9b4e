\* The timeout of the README against a report that arrives during the check.
SPECIFICATION FeedbackSpec
CONSTANTS
  MIN_BITRATE = 16000
  INITIAL_BITRATE = 24000
  MAX_BITRATE = 48000
  Reports <- MCReports
  LOCAL_SSRC = 1
  TIMEOUT = 1
  FailingCtls = {}
  Nothing = Nothing
  MAX_TIME = 4
PROPERTIES
  BackoffOnlyAfterTimeout
