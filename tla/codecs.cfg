\* A ring of two frames with blocks as long as fit, and requests that cross
\* the wrap of the sequence numbers.
SPECIFICATION MCSpec
CONSTANTS
  RING_SAMPLES = 4
  FRAME_SAMPLES = 2
  MAX_BLOCK = 3
  Voice = {1, 2}
  MAX_STARTS = 2
  PERIOD = 8
  FIRST_SEQ = 65530
  Nacks <- MCNacks
  Srs <- MCSrs
  Rrs <- MCRrs
  Plis <- MCPlis
  Foreign <- MCForeign
  Capacities <- MCCapacities
  Lengths <- MCLengths
INVARIANTS
  RequestSurvives
  ReadsWhatItHolds
PROPERTIES
  CaptureContinuous
  RingIsQueue
