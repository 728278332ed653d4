\* Two endpoints, two requests, and servers that start up or down and change
\* once, to any of the six conditions; the context of one request may end.
CONSTANTS
  Requests = {r1, r2}
  Impatient = {r1}
  NumEndpoints = 2
  AtFirst <- UpOrDown
  MaxChanges = 1
SPECIFICATION FairSpec
INVARIANT SkippedForCause
INVARIANT MarkedDownForCause
PROPERTY RecheckDemotesOnlyInRace
PROPERTY RequestsEnd
PROPERTY ComesBack
