\* Two messages and their reviews, one slot set by hand, one failure or crash.
CONSTANTS
  Slots = {name, job}
  Name = name
  Values = {v1, v2}
  Nobody = Nobody
  Evidence = {0, 2}
  N = 2
  ReviewInterval = 1
  MaxForced = 1
  MaxChanges = 1
  MaxDecisions = 2
  MaxFaults = 1
SYMMETRY AnyValues
SPECIFICATION Spec
PROPERTY ConfirmedIsWritten
PROPERTY NamesInOrder
\* Every message may have been handled and every task may have ended.
CHECK_DEADLOCK FALSE
