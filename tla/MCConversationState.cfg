\* Two messages, both reviewed, a pause that reaches over the second one, two
\* workers, so that the reviews may overlap.
CONSTANTS
  N = 2
  Pause = 2
  LockTurns = {2}
  Workers = 2
  FirstUpdate = 9
  MaxFaults = 1
  Reviewed <- AllMessages
SPECIFICATION Spec
INVARIANT StopIsKept
INVARIANT SkippedForLaterOrUnsaved
PROPERTY UrgentReviewRestates
PROPERTY ReviewsYieldToNewer
\* Every message may have been handled and reviewed: nothing is left to do then.
CHECK_DEADLOCK FALSE
