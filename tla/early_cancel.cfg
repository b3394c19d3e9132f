SPECIFICATION MarketFairSpec
CONSTANTS
  d1 = d1
  d2 = d2
  o1 = o1
  f1 = f1
  f2 = f2
  Devices = {d1}
  Orders = {o1}
  Offers = {f1}
  OrderOf <- OneOrder
  NoOrder = NoOrder
  NoOffer = NoOffer
  Faults = {}
  MaxQueue = 2
  MaxCharges = 1
  Price <- WholePrices
  Deployed = TRUE
  MaxDeliveries = 1
  MaxAttempts = 3
PROPERTIES
  PaidIsReturned
CHECK_DEADLOCK FALSE
