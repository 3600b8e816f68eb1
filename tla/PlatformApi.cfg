SPECIFICATION Spec
CONSTANTS
  Request = {q1, q2, q3}
  Incident0 = i0
  Dashboard0 = b0
  d1 = d1
  Device = {d1}
  None = None
  Ops <- Operations
  MaxFaults = 1
SYMMETRY Interchangeable
INVARIANTS LostOnlyInOverlap SubscriberMissesNothing IngestAnswers
CHECK_DEADLOCK FALSE
