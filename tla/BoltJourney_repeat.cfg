SPECIFICATION RetrySpec
CONSTANTS
  h1 = h1
  d1 = d1
  Bolt = Bolt
  NoEvent = NoEvent
  NoShipment = NoShipment
  NoJob = NoJob
  Recorders = {h1}
  Deliveries = {d1}
  Carriers = {Bolt}
  Requests <- JourneyRequests
  WebhookKinds = {"RiderAssigned", "DeliveryFailed"}
  Store = "postgres"
  MaxEvents = 4
  MaxReports = 0
  MaxTries = 2
  MaxFaults = 1
PROPERTY RepeatsMoveNothing
CHECK_DEADLOCK FALSE
