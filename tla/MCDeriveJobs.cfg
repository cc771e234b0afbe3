CONSTANTS
  i1 = i1
  i2 = i2
  None = None
  Instances = {i1, i2}
  MaxSession = 2
  Version = 2
  LastStep = 3
  Since <- StepsSince
  IndexSteps = {1}
  BodyReading = {3}
  Folding = {2}
  SkillStep = 3
  BatchSize = 2
  RetryCap = 1
  SkipCap = 1
  Poison <- PoisonTurns
  MaxSpent = 1
SPECIFICATION Spec
SYMMETRY Symmetry
INVARIANT TypeOK
INVARIANT PassedIsDerived
INVARIANT StampIsEarned
INVARIANT IndexIsValid
PROPERTY NeverBack
