CONSTANTS
  Sessions = {s1, s2}
  MaxCalls = 3
  MaxOverlap = 3
  Exclusive = {s1}
  MaxActive = 2
  Nil = Nil
SPECIFICATION Spec
CHECK_DEADLOCK FALSE
INVARIANT EarlierSensitiveDecided
