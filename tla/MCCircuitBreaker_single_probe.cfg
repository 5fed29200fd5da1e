CONSTANTS
  Callers = {c1, c2}
  Threshold = 2
  Cooldown = 1
  MayPanic = FALSE
SPECIFICATION Spec
SYMMETRY CallerSymmetry
INVARIANT SingleProbe
