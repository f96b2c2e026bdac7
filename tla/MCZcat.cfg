CONSTANTS
  Networks <- MCNetworks
  MaxBytes = 2
SPECIFICATION Spec
INVARIANTS ZTypeOK OutputComplete ZRInv
PROPERTIES ZcatExits ZcatAbstractSpec
