CONSTANTS
  p1 = p1
  p2 = p2
  n1 = n1
  f1 = f1
  f2 = f2
  Absent = Absent
  Callers <- MCCallersOne
  Names <- MCNames
  Fields <- MCFields
  Kinds <- MCKindsEdgeRouter
  MaxCalls = 2
SPECIFICATION Spec
INVARIANT CreateReturnsId
