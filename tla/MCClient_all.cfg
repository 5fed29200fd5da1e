\* Two closers and a checker, or a closer and two checkers, at once.
CONSTANTS
  Procs = {p1, p2, p3}
  Timeouts <- SomeTimeouts
  MaxLeft = 2
  MaxCalls = 3
SPECIFICATION Spec
SYMMETRY ProcSymmetry
CHECK_DEADLOCK FALSE
INVARIANTS
  TypeOK
  ClosedOnce
  HealthWasTrue
