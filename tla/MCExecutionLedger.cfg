CONSTANTS
  None = None
  NoTurn = NoTurn
  p = p
  c = c
  t1 = t1
  t2 = t2
  r0 = r0
  r1 = r1
  r2 = r2
  k = k
  Sessions = {p, c}
  Turns = {t1}
  Roots = {r0, r1}
  TaskRoots = {}
  Requests = {q1, q2, q3}
  Outputs = {0, 2}
  Ids = {x1}
  MaxRevision = 1
  FinishTokens = 1
  ParentOf <- MCParentOf
  NativeRoot <- MCNativeRoot
  Limits <- MCLimits
  Increment <- MCIncrement
SYMMETRY MCSymmetry
SPECIFICATION Spec
INVARIANT LedgerTypeOK
INVARIANT CallsMatchRequests
INVARIANT ReservationsMatchCharges
INVARIANT CallBudget
INVARIANT CompletionReserveKept
PROPERTY AccountKept
CHECK_DEADLOCK FALSE
