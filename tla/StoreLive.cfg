SPECIFICATION FairSpec
CONSTANTS
  Event = {e1, e2}
  Task = {t1, t2}
  Team = {m1, m2}
  NoTask = NoTask
  NoTeam = NoTeam
  NoEvent = NoEvent
  Worker = {w1, w2}
  Extractions <- TwoTasks
  MaxTime = 1
  WatchTimeout = 1
  MaxGen = 0
  MaxRestarts = 1
  SlowClaims = 2
  t1 = t1
  t2 = t2
  m1 = m1
  m2 = m2
INVARIANTS TypeOK OneOwner
PROPERTIES ImplementsMonitor JobsSettle WatchesDecided
CHECK_DEADLOCK FALSE
