SPECIFICATION MarketFairSpec
CONSTANTS
  d1 = d1
  d2 = d2
  o1 = o1
  f1 = f1
  f2 = f2
  Devices = {d1}
  Orders = {o1}
  Offers = {f1, f2}
  OrderOf <- OneOrder
  NoOrder = NoOrder
  NoOffer = NoOffer
  Faults = {"kill", "lostResult"}
  MaxQueue = 2
  MaxCharges = 2
  Price <- MixedPrices
  Deployed = TRUE
  MaxDeliveries = 1
  MaxAttempts = 3
INVARIANTS
  RefundWithinPayment
  RefundedIsCancelled
PROPERTIES
  CancelledIsFinal
  ImplementsLifecycle
  ChosenIsRefunded
CHECK_DEADLOCK FALSE
