\* Three analyses of three topics, of which one may be active and one watched.
CONSTANTS
  Topics = {a, b, c}
  Messages <- SomeMessages
  Limit = 1
  SnapshotLimit = 2
  Remarks <- SomeRemarks
  MaxNamed = 2
SYMMETRY AnyTopics
SPECIFICATION Spec
INVARIANT LimitsKept
INVARIANT HiddenOnlyOnce
PROPERTY PushedOutByBetter
PROPERTY RowsMoveForward
\* Every task may have ended.
CHECK_DEADLOCK FALSE
