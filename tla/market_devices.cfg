SPECIFICATION MarketSpec
CONSTANTS
  d1 = d1
  d2 = d2
  o1 = o1
  f1 = f1
  f2 = f2
  Devices = {d1, d2}
  Orders = {o1}
  Offers = {f1}
  OrderOf <- OneOrder
  NoOrder = NoOrder
  NoOffer = NoOffer
  Faults = {}
  MaxQueue = 1
  MaxCharges = 2
  Price <- MixedPrices
  Deployed = TRUE
  MaxDeliveries = 1
  MaxAttempts = 3
SYMMETRY Symmetry
INVARIANTS
  RefundsAreCharged
CHECK_DEADLOCK FALSE
