CONSTANTS
  None = None
  s1 = s1
  Tasks = {t1}
  Sessions <- MCSessions
  SessionOf <- MCSessionOf
  Paths = {}
  Handlers = {h1, h2}
  MaxRestarts = 2
SPECIFICATION RuntimeSpec
PROPERTY RecoveringResolves
