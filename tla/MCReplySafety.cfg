\* Two messages of any kind, a review of the older one, replies of up to two parts.
CONSTANTS
  N = 2
  MaxParts = 2
  Reviewed <- OldestMessage
SPECIFICATION FairSpec
INVARIANT TypeOK
INVARIANT HandleHasOwner
INVARIANT NoRestartAfterFirstPart
INVARIANT AtMostOneLatePart
INVARIANT SilentOnlyWithRival
PROPERTY ImplementsFloor
PROPERTY EveryHandlerEnds
\* Every message may have been handled: nothing is left to do then.
CHECK_DEADLOCK FALSE
