\* One slot, two calls: one in it, one that waits for it or is given up.
CONSTANTS
  Goroutines = {c1, c2}
  MaxConcurrent = 1
  MaxStrays = 0
SPECIFICATION NestedSpec
INVARIANTS
  TimeoutOutsideLimits
  ResultGenuine
PROPERTIES
  AllComesBack
  SlotsComeBack
  CallerReturns
