\* Two benchmark jobs, two scans, a crash and a rollback.
\* It ends with the clock.
SPECIFICATION Spec
CONSTANTS
  Jobs = {j1, j2}
  Scanners = {s1, s2}
  NoFile = NoFile
  Window = 2
  MaxNow = 4
  MaxCrashes = 1
  MaxRollbacks = 1
SYMMETRY Symmetric
CHECK_DEADLOCK FALSE
INVARIANTS
  NoDrift
PROPERTIES
  SeenIsKept
  RollbackRestores
