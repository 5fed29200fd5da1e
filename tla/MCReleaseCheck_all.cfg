\* Any two of: an edit, a further run after a failure or a kill, another make evidence.
CONSTANTS
  Trees <- SomeTrees
  EvidenceModes = {"enforce", "observe"}
  MaxEvents = 2
SPECIFICATION Spec
CHECK_DEADLOCK FALSE
INVARIANTS
  TypeOK
  ReleaseIsOfHead
  SignedIsVerified
  DebtFreeRelease
