\* Requests below, at and above what the bucket holds, and gaps that overfill it.
CONSTANTS
  Max = 5
  Rate = 2
  Milli = 2
  Requests = {0, 1, 3, 5, 6}
  Reservers = {r1, r2}
  Horizon = 4
SPECIFICATION Spec
SYMMETRY ReserverSymmetry
INVARIANTS
  TypeOK
  WithinRate
PROPERTIES
  IdealSpec
