SPECIFICATION Spec
CONSTANTS
  Event = {e1, e2}
  Task = {t1}
  Team = {m1, m2}
  NoTask = NoTask
  NoTeam = NoTeam
  NoEvent = NoEvent
  Worker = {w1}
  Extractions <- OneTask
  MaxTime = 1
  WatchTimeout = 1
  MaxGen = 1
  MaxRestarts = 0
  SlowClaims = 1
  t1 = t1
  t2 = t2
  m1 = m1
  m2 = m2
SYMMETRY Interchangeable
INVARIANTS EvidenceTrail OutboxTracksWatch ObsoleteWorkCancelled
PROPERTIES NoPrematureAbsence TerminalHolds ObsoleteFrozen
CHECK_DEADLOCK FALSE
