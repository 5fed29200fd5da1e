\* Three processes: two that record what the third, a final one, needs.
CONSTANTS
  g1 = g1
  g2 = g2
  accept = accept
  certify = certify
  Procs = {p1, p2, p3}
  Goals = {g1, g2}
  Prerequisites = {accept, certify}
  Final = Final
  Torn = Torn
  OldLedgers <- FoundLedgers
SPECIFICATION Spec
SYMMETRY ProcSymmetry
INVARIANTS
  TypeOK
  PackJustified
  FinalHasPack
  EvidenceKept
PROPERTIES
  RegisterSpec
