\* Two clients where there is room for one.
SPECIFICATION Spec
CONSTANTS
  Client = {c1, c2}
  Limit <- SmallLimit
  Window <- SmallWindow
  MaxEntries = 1
INVARIANTS
  AtMostTwiceTheLimit
PROPERTIES
  SweptWhenLarge
  NobodyIsLockedOut
