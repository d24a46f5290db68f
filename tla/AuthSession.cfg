SPECIFICATION FairSpec
CONSTANTS
  Users = {a, b}
  Tokens = {t1, t2, t3}
  None = None
  MaxOps = 3
INVARIANTS AuthTypeOK OneSession
PROPERTIES LoadingEnds RoutesSettle
CHECK_DEADLOCK FALSE
