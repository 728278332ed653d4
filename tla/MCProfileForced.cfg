\* Two messages after a forced review: enough for a counterexample.
CONSTANTS
  Slots = {name, job}
  Name = name
  Values = {v1, v2}
  Nobody = Nobody
  Evidence = {0, 2}
  N = 2
  ReviewInterval = 1
  MaxForced = 1
  MaxChanges = 0
  MaxDecisions = 2
  MaxFaults = 0
SPECIFICATION Spec
PROPERTY OnlyStaleSkipped
CHECK_DEADLOCK FALSE
