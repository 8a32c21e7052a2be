SPECIFICATION DispatchSpec
CONSTANTS
  bolt = bolt
  glovo = glovo
  d1 = d1
  d2 = d2
  d3 = d3
  NoCarrier = NoCarrier
  NoDelivery = NoDelivery
  Carriers = {bolt, glovo}
  Loops = {"loop"}
  Endpoints = {"post"}
  Deliveries = {d1, d2, d3}
  Batch = 2
  Serves <- Exclusive
  Price <- Prices
  Rejects <- BoltRejects
  MaxFaults = 1
INVARIANT DispatchTypeOK
PROPERTIES ImplementsDispatchOnce OrdersAreAdopted PendingIsDispatched
