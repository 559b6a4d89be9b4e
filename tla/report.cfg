SPECIFICATION MCSpec
CONSTANTS
  Arrivals <- MCArrivals
  INTERVAL = 1
  MAX_TIME = 3
  Takers = {capture, rendering}
  REMOTE_SSRC = 1
INVARIANTS
  ReportInv
  LatestCounts
PROPERTIES
  LossIsReal

