CONSTANTS
  None = None
  s1 = s1
  Tasks = {t1, t2}
  Sessions <- MCSessions
  SessionOf <- MCSessionOf
  Paths = {}
  Handlers = {h1}
  MaxRestarts = 1
SYMMETRY MCSymmetry
SPECIFICATION RuntimeSpec
INVARIANT RuntimeTypeOK
INVARIANT OneFinalizer
PROPERTY NoRecoveryWhileFinalizing
PROPERTY FinishedSticks
 
PROPERTY EntryExclusive
PROPERTY PauseSurvivesMonitor
PROPERTY VerdictFromVerifying
