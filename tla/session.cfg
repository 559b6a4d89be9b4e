\* Descriptions that agree, differ, lack types or do not parse.  Closed
\* sessions do nothing, so the system may stop.
SPECIFICATION SessionSpec
CONSTANTS
  a = a
  b = b
  None = None
  Ends <- MCEnds
  Offers <- MCOffers
  Texts <- MCTexts
INVARIANTS
  SessionTypeOK
  EndsHear
CHECK_DEADLOCK FALSE
