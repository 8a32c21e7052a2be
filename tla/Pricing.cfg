SPECIFICATION PricingSpec
CONSTANTS
  Distances = {0, 2, 3, 7, 999, 1000, 2600}
  Weights = {1, 5, 6}
  Slots = {17, 18, 21, 22}
  Codes = {"", "WELCOME", "FIRST_FREE", "SPRING"}
  BaseFare = 200
  PerKm = 200
  OversizeFlat = 300
  OversizeWeight = 5
  SlotPremium = 200
  EveningStart = 18
  EveningEnd = 22
  NoSlot = NoSlot
INVARIANTS PricingTypeOK TotalWithinSubtotal NeverCheaperForMore
CHECK_DEADLOCK FALSE
