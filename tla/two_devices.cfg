SPECIFICATION Spec
CONSTANTS
  d1 = d1
  d2 = d2
  o1 = o1
  f1 = f1
  f2 = f2
  Devices = {d1, d2}
  Orders = {o1}
  Offers = {f1, f2}
  OrderOf <- OneOrder
  NoOrder = NoOrder
  NoOffer = NoOffer
  Faults = {"kill", "reject", "lostResult"}
  MaxQueue = 1
  MaxCharges = 1
SYMMETRY Symmetry
INVARIANTS
  TypeOK
  PendingWorkIsSound
  AcceptedOfferMeansStarted
  ChosenOfferBelongs
  ElectronicPaidFirst
