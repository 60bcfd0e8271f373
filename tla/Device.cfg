\* Two calls of a device at a time.
SPECIFICATION FairSpec
CONSTANTS
  Call = {c1, c2}
  Refresher = Refresher
  Token = {t1, t2, t3}
  None = None
INVARIANTS
  ConcurrencyKeepsSession
  StoreMatchesSession
PROPERTIES
  CallsEnd
\* The tokens run out.
CHECK_DEADLOCK FALSE
