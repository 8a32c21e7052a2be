SPECIFICATION RoutingSpec
CONSTANTS
  bolt = bolt
  glovo = glovo
  lockers = lockers
  Carriers = {bolt, glovo, lockers}
  Capabilities <- SomeCapabilities
  Shipments <- SomeShipments
  Estimates <- SomeEstimates
  Strategies = {"cheapest", "fastest", "weighted"}
  Weights <- SomeWeights
INVARIANTS RoutingTypeOK ChosenCanServe ChosenIsBest GivesUpOnlyWhenItMust
