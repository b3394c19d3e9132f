SPECIFICATION FairSpec
CONSTANTS
  o1 = o1
  o2 = o2
  f1 = f1
  f2 = f2
  Orders = {o1, o2}
  Offers = {f1}
  NoOffer = NoOffer
  Price <- Prices
  Deployed = TRUE
  MaxDeliveries = 2
  Redelivered = {2}
  MaxAttempts = 3
  Faults = {"crash", "touch", "lostReply"}
  MaxEvents = 2
INVARIANTS
  TypeOK
  BalanceMatchesLedger
  OneEntryPerDelivery
PROPERTIES
  
  CancellationRefunded
CHECK_DEADLOCK FALSE
