SPECIFICATION BookingSpec
CONSTANTS
  r1 = r1
  r2 = r2
  r3 = r3
  NoRow = NoRow
  Requests = {r1, r2, r3}
  Customers = {"ana", "ion"}
  Trips <- GoodAndBad
  Price <- Prices
  MaxTime = 1
  MaxFaults = 2
  MaxMoves = 1
INVARIANTS BookingTypeOK LegsHaveParcels AnsweredIsBooked
PROPERTY ImplementsAtomicBooking
CHECK_DEADLOCK FALSE
