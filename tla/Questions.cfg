SPECIFICATION FairSpec
CONSTANTS
  e1 = e1
  Event = {e1}
  TimeOf <- Times
  NoReading = {}
  Key = {k1}
  NoKey = NoKey
  Worker = {w1, w2}
  Answers <- Replies
  MaxTime = 1
  MaxGen = 1
  SlowClaims = 2
INVARIANTS AnswersGrounded
PROPERTIES RevisionsTell ImplementsDesk QuestionsSettle
CHECK_DEADLOCK FALSE
