SPECIFICATION Spec
CONSTANTS
  Cap = 30000
  Ceiling = 20000
  MaxLength = 4
  MaxMade = 4
  Creations <- SmallCreations
  Requests <- SmallRequests
INVARIANTS ReservationExact
PROPERTIES ReservationStands Kept
