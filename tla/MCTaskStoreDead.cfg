CONSTANTS
  s1 = s1
  Tasks = {t1, t2, t3}
  Sessions <- MCSessions
  SessionOf <- MCSessionOf
  Paths = {p1}
SYMMETRY MCSymmetry
SPECIFICATION Spec
INVARIANT NoWaitOnDeadDependency
