SPECIFICATION RetrySpec
CONSTANTS
  h1 = h1
  d1 = d1
  Bolt = Bolt
  NoEvent = NoEvent
  NoShipment = NoShipment
  NoJob = NoJob
  Recorders = {h1}
  Deliveries = {d1}
  Carriers = {Bolt}
  Requests <- JourneyRequests
  WebhookKinds = {"RiderAssigned", "PackageDelivered", "DeliveryFailed", "ShipmentCancelled"}
  Store = "postgres"
  MaxEvents = 11
  MaxReports = 3
  MaxTries = 2
  MaxFaults = 2
INVARIANTS JourneyTypeOK NeverAhead
PROPERTIES RecordedUnlessLost ShownUnlessLost ImplementsLifecycle
CHECK_DEADLOCK FALSE
