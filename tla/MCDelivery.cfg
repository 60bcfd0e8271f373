\* One job, one offer, three workers, two keys: what late and duplicate workers do.
SPECIFICATION FairSpec
CONSTANTS
  olga = olga
  paul = paul
  pia = pia
  j1 = j1
  j2 = j2
  o1 = o1
  o2 = o2
  o3 = o3
  w1 = w1
  w2 = w2
  w3 = w3
  Job = {j1}
  User <- Users
  Offer = {o1}
  OwnerOf <- OlgaOwns
  OfferJob <- RivalJob
  OfferBy <- RivalBy
  OfferPrice <- RivalPrice
  Key = {k1, k2}
  NoUser = NoUser
  NoOffer = NoOffer
  NoKey = NoKey
  NoRef = NoRef
  NoEvent = NoEvent
  Worker = {w1, w2, w3}
  MaxAttempts = 2
INVARIANTS
  JobPaymentAgree
  PendingHoldIsQueued
  DoneMeansBooked
  ProviderActsOnce
  AuditExactlyOnce
  MoneyFollowsWork
  SettlementInv
PROPERTIES
  ImplementsEscrow
  HoldIsDecided
  ReleaseIsDecided
\* The system may stop: a settled job has nothing left to do.
CHECK_DEADLOCK FALSE
