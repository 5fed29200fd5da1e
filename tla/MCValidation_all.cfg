\* Every file two lines away from one that passes.
CONSTANTS
  Required <- RequiredPaths
  AllowedOwners = {"standard", "leader"}
  Expected = {"local_write", "release_verify"}
  Absolute = {"/etc/", "/release/"}
  PathFields = {"manifest"}
  Files <- StartFiles
  Lines <- SomeLines
  MaxEdits = 2
SPECIFICATION Spec
CHECK_DEADLOCK FALSE
INVARIANTS
  ReadAsWritten
  PassedIsSafe
