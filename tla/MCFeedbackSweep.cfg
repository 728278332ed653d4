\* Three proactive messages over three starts, with two failures or crashes.
CONSTANTS
  Window = 3
  MaxLog = 6
  MaxRows = 3
  MaxStarts = 3
  MaxFaults = 2
SPECIFICATION Spec
INVARIANT RewardedOnce
INVARIANT MarkedIsCredited
INVARIANT CreditedToItsMessage
\* The conversation may be over.
CHECK_DEADLOCK FALSE
