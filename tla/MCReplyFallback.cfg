\* Two messages, no review, replies of one part: enough for a counterexample.
CONSTANTS
  N = 2
  MaxParts = 1
  Reviewed = {}
SPECIFICATION FairSpec
INVARIANT FallbackIsSent
CHECK_DEADLOCK FALSE
