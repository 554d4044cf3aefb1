\* Two tracked keys for three clients, so that evictions happen; the window is
\* shorter than the cleanup interval as in the code (1 and 5 minutes).
SPECIFICATION Spec
CONSTANTS
  Keys = {k1, k2, k3}
  Limit = 2
  Window = 2
  MaxKeys = 2
  CleanupInterval = 3
  MaxTime = 6
  MaxHits = 6
SYMMETRY Symmetry
INVARIANTS
  TypeOK
  KeysBounded
  WindowQuota
  RefusalEarned
  NothingStaleSurvivesCleanup
CHECK_DEADLOCK FALSE
