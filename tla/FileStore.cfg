\* Two requests over a file whose writes may fail, and a process that dies.
SPECIFICATION FairSpec
CONSTANTS
  Request = {r1, r2}
  Base = Base
  MaxLinks = 3
INVARIANTS
  ShownIsDurable
  FileInv
PROPERTIES
  ImplementsDurableStore
  EveryRequestIsAnswered
  SavedUnlessBroken
\* The system may stop: every request may have been answered.
CHECK_DEADLOCK FALSE
