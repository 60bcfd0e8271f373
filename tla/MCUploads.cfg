\* Both routes and evidence for one key, in every configuration.
SPECIFICATION Spec
CONSTANTS
  u1 = u1
  u2 = u2
  j1 = j1
  t1 = t1
  t2 = t2
  User = {u1, u2}
  Request = {r1, r2}
  Key = {k1}
  Job = {j1}
  Type = {t1, t2}
  Objects <- SomeObjects
  Provider <- FirstUser
  MaxBytes = 2
  NoType = NoType
  Absent = Absent
  Content = Content
  Envelope = Envelope
SYMMETRY Symmetry
INVARIANTS
  AnsweredIsStored
  EvidenceIsBacked
  IntentIsConsumed
  RecordedIsVerified
  NoSilentOrphan
  LateRetryIsAnswered
  UploadInv
PROPERTIES
  OnlyLiveIntentsAreSpent
  EvidenceWhileInProgress
\* The system may stop: keys run out, and jobs are delivered.
CHECK_DEADLOCK FALSE
