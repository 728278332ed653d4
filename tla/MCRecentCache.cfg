\* Two messages, a late reply part, a command and a reset; lists of two turns.
CONSTANTS
  Messages = {m1, m2}
  Senders = {p1}
  Viewers = {v1}
  Resets = {x1}
  NoOne = NoOne
  Limit = 2
  MaxSessions = 2
  MaxExpiries = 1
  MaxFaults = 1
SPECIFICATION Spec
INVARIANT TypeOK
INVARIANT ListInOrder
INVARIANT NoTurnLost
INVARIANT NothingFromBeforeReset
INVARIANT ResidueOnlyFromInFlight
\* Every operation ends: nothing is left to do then.
CHECK_DEADLOCK FALSE
