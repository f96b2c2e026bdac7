CONSTANTS
  p1 = p1
  p2 = p2
  c1 = c1
  c2 = c2
  c3 = c3
  NoCaller = NoCaller
  Callers <- MCCallers
  Ctrls <- MCCtrls
SPECIFICATION Spec
INVARIANTS CTypeOK OnceOnly WinnerGetsClient CInv
PROPERTIES LoginsFinish PoolGrows PoolSpec
