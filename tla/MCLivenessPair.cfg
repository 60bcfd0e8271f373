\* Two jobs and one worker, which must not attend to one of them for ever.
SPECIFICATION FairSpec
CONSTANTS
  olga = olga
  paul = paul
  pia = pia
  j1 = j1
  j2 = j2
  o1 = o1
  o2 = o2
  o3 = o3
  w1 = w1
  w2 = w2
  w3 = w3
  Job = {j1, j2}
  User <- Users
  Offer = {o1, o2}
  OwnerOf <- OlgaOwns
  OfferJob <- PairJob
  OfferBy <- PairBy
  OfferPrice <- PairPrice
  Key = {}
  NoUser = NoUser
  NoOffer = NoOffer
  NoKey = NoKey
  NoRef = NoRef
  NoEvent = NoEvent
  Worker = {w1}
  MaxAttempts = 2
PROPERTIES
  HoldIsDecided
\* The system may stop: a settled job has nothing left to do.
CHECK_DEADLOCK FALSE
