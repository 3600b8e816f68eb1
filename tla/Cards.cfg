SPECIFICATION FairSpec
CONSTANTS
  None = None
  NoCard = NoCard
  NoView = NoView
  Closed = Closed
  Task = task
  crew = crew
  channel = channel
  Event = {1, 2, 3, 4, 5}
  TimeOf <- Times
  SourceOf <- Sources
  Device = {"radio"}
  NoReading = {2}
  Readings <- Heard
  LinkWindow = 2
  ReplyWindow = 1
  MaxTime = 1
  MaxAsks = 2
  MaxFaults = 1
INVARIANTS SupportedByExchange RevisionTells CardsInScope
PROPERTIES InOrderExtends PageCatchesUp
CHECK_DEADLOCK FALSE
