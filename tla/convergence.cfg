SPECIFICATION Spec
CONSTANTS
  full = full
  bare = bare
  zero = zero
  Absent = Absent
  Foreign = Foreign
  Specs <- AllSpecs
  Served <- ServedSpecs
  Suspended <- SuspendedSpecs
  MaxEdits = 2
  MaxDrifts = 1
  MaxFaults = 1
INVARIANTS TypeOK
PROPERTIES Converges PhaseSettles GatewayLossShows
