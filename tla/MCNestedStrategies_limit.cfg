CONSTANTS
  Goroutines = {c1, c2}
  MaxConcurrent = 1
  MaxStrays = 0
SPECIFICATION NestedSpec
SYMMETRY CallSymmetry
INVARIANT ExecutionsLimited
