CONSTANTS
  Absent = absent
  absent = absent
  Execs <- MCExecs
  Versions <- MCVersions
  MaxRuns = 3
SPECIFICATION Spec
INVARIANTS StagedIsFresh SInv
