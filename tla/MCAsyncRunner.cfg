\* Three tasks, two keys, a channel of one and the single worker that every
\* analytic task shares.
CONSTANTS
  Tasks = {t1, t2, t3}
  Keys = {k1, k2}
  Versions <- SomeVersions
  Workers = {w1}
  QueueSize = 1
  Idle = Idle
SPECIFICATION FairSpec
PROPERTY ImplementsBoard
PROPERTY EveryTaskEnds
\* Every task may have ended: the workers then wait for more.
CHECK_DEADLOCK FALSE
