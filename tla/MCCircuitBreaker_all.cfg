\* Three goroutines: a late closed call, a late probe and a current one at once.
CONSTANTS
  Callers = {c1, c2, c3}
  Threshold = 2
  Cooldown = 2
  MayPanic = TRUE
SPECIFICATION FairSpec
INVARIANTS
  TypeOK
  OneProbePerPeriod
PROPERTIES
  SlotLostByPanicOnly
  NoEarlyReadmission
  OpensForCause
  GateSpec
  Recovers
