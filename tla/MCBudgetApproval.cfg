\* One root (the roots are independent of each other), three revisions and three ids.
CONSTANTS
  None = None
  Roots = {r1}
  Ids = {q1, q2, q3}
  MaxRevision = 3
SPECIFICATION ApprovalSpec
INVARIANT ApprovalTypeOK
INVARIANT OneLiveProposal
INVARIANT GrantNeedsHuman
INVARIANT AutomaticNeverReopens
PROPERTY DecisionSticks
CHECK_DEADLOCK FALSE
