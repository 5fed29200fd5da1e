\* Two slots, one unpaired Release, and up to three waiters behind the slots.
CONSTANTS
  Goroutines = {g1, g2, g3, g4, g5}
  MaxConcurrent = 2
  MaxStrays = 1
SPECIFICATION FairSpec
INVARIANTS
  TypeOK
  SlotsAccounted
  NoLostWakeup
PROPERTIES
  FirstComeFirstServed
  SlotsSpec
  AcquireEnds
