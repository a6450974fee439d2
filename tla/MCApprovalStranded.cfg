CONSTANTS
  None = None
  Roots = {r1}
  Ids = {q1, q2}
  MaxRevision = 2
SPECIFICATION ApprovalPolledSpec
PROPERTY ExplicitMayAskAgain
CHECK_DEADLOCK FALSE
