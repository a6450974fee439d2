CONSTANTS
  None = None
  s1 = s1
  Tasks = {t1, t2}
  Sessions <- MCSessions
  SessionOf <- MCSessionOf
  Paths = {}
  Handlers = {h1, h2}
  MaxRestarts = 0
SYMMETRY MCSymmetry
SPECIFICATION RuntimeSpec
INVARIANT PromptsSerialized
