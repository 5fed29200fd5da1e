\* A wait that is a whole number of milliseconds: rounding plays no part.
CONSTANTS
  Max = 2
  Rate = 1
  Milli = 1
  Requests = {2, 3}
  Reservers = {r1}
  Horizon = 3
SPECIFICATION SinceNewSpec
INVARIANT ReserveWithinRate
