SPECIFICATION FlowSpec
CONSTANTS
  h1 = h1
  h2 = h2
  d1 = d1
  d2 = d2
  bolt = bolt
  glovo = glovo
  NoEvent = NoEvent
  NoShipment = NoShipment
  NoJob = NoJob
  Recorders = {h1, h2}
  Deliveries = {d1}
  Carriers = {bolt}
  Requests <- RacingRequests
  WebhookKinds = {"RiderAssigned", "PackageDelivered", "ShipmentCancelled"}
  Store = "postgres"
  MaxEvents = 4
INVARIANTS FlowTypeOK StateHasEvidence RowsCoherent ShipmentBacked ChainVerifies
SYMMETRY Symmetry
