SPECIFICATION Spec
CONSTANTS
  Task = {t1}
  Event = {e1, e2, e3}
  Unread = {e3}
  None = None
  MaxGen = 1
  MaxRows = 3
  MaxInvocations = 3
  MaxOperator = 1
INVARIANTS TypeOK OneIncident NotesInOrder SentIsShown NoOvertaking
PROPERTIES NeverReplayed OperatorStatusKept
CHECK_DEADLOCK FALSE
