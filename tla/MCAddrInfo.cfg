CONSTANTS
  Chars <- MCChars
  MaxLen = 4
  Protocols <- MCProtocols
  Hostnames <- MCHostnames
  SourceAddrs <- MCSourceAddrs
SPECIFICATION Spec
INVARIANT SplitCorrect
