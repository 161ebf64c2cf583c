CONSTANTS
  InlineCap = 6
  BeginSize = 8
  MaxSize = 31
  MaxDepth = 3
  MaxFields = 4
  MaxRecursion = 1
  Handles = {a, b}
  Blocks = {1, 2, 3, 4}
  StructSize = 9
  MaxLen = 10
  NULL = NULL
  MaxDigits = 2
  Canonical113 = 128
  Bias = 3
  MaxExponent = 2
  FewZeros = 2
  FarBelow = 6
  MaxUnsigned = 7
  SmallAlloc = 2
  FirstRoom = 2
  MaxSigned = 127
  StringTexts <- MCStringTexts
  Utf8Bytes <- MCBytes
  CodePoints <- MCCodePoints
  Received = {}
  Values = {}
  Foci = {"scopes"}
SPECIFICATION Spec
INVARIANT ValidatedIsSound
CHECK_DEADLOCK FALSE
