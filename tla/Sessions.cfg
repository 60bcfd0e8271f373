\* One account, two requests at a time.
SPECIFICATION FairSpec
CONSTANTS
  Request = {r1, r2}
  Token = {t1, t2, t3}
  Reset = {x1}
  Mortal = {t1}
  Nothing = Nothing
  MaxVersion = 2
INVARIANTS
  NoCircularWait
  AnsweredEndIsComplete
  ResetChangesOnce
PROPERTIES
  ImplementsFamilies
  RequestsEnd
CHECK_DEADLOCK FALSE
