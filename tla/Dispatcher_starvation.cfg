SPECIFICATION DispatchSpec
CONSTANTS
  bolt = bolt
  glovo = glovo
  d1 = d1
  d2 = d2
  d3 = d3
  NoCarrier = NoCarrier
  NoDelivery = NoDelivery
  Carriers = {bolt, glovo}
  Loops = {"loop"}
  Endpoints = {}
  Deliveries = {d1, d2}
  Batch = 1
  Serves <- Competing
  Price <- Prices
  Rejects = {}
  MaxFaults = 0
PROPERTY PendingIsDispatched
