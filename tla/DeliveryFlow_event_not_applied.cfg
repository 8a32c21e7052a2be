SPECIFICATION SerialSpec
CONSTANTS
  h1 = h1
  h2 = h2
  d1 = d1
  d2 = d2
  bolt = bolt
  glovo = glovo
  NoEvent = NoEvent
  NoShipment = NoShipment
  NoJob = NoJob
  Recorders = {h1}
  Deliveries = {d1}
  Carriers = {bolt}
  Requests <- FromCarriers
  WebhookKinds = {"PackagePickedUp", "PackageDelivered"}
  Store = "postgres"
  MaxEvents = 4
INVARIANT EventsAreApplied
