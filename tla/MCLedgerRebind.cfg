CONSTANTS
  None = None
  NoTurn = NoTurn
  p = p
  c = c
  t1 = t1
  t2 = t2
  r0 = r0
  r1 = r1
  r2 = r2
  k = k
  Sessions = {p, c}
  Turns = {t1, t2}
  Roots = {r0, r1, r2, k}
  TaskRoots = {k}
  Requests = {q1}
  Outputs = {1}
  Ids = {}
  MaxRevision = 1
  FinishTokens = 1
  ParentOf <- MCParentOf
  NativeRoot <- MCNativeRoot
  Limits <- MCLimits
  Increment <- MCIncrement
SYMMETRY MCSymmetry
SPECIFICATION Spec
PROPERTY ContinuingTurnStaysSpent
CHECK_DEADLOCK FALSE
