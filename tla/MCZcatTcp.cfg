CONSTANTS
  Networks <- MCNetworksTcp
  MaxBytes = 2
SPECIFICATION Spec
PROPERTY ZcatExits
