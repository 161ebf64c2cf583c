CONSTANTS
  InlineCap = 6
  BeginSize = 8
  MaxSize = 31
  MaxDepth = 3
  MaxFields = 4
  MaxRecursion = 1
  Handles = {a, b}
  Blocks = {1, 2, 3}
  StructSize = 9
  MaxLen = 10
  NULL = NULL
  MaxDigits = 2
  Canonical113 = 128
  Bias = 3
  MaxExponent = 2
  FewZeros = 2
  FarBelow = 6
  MaxUnsigned = 7
  SmallAlloc = 2
  FirstRoom = 2
  MaxSigned = 127
  StringTexts <- MCStringTexts
  Utf8Bytes <- MCBytes
  CodePoints <- MCCodePoints
  Received <- MCReceived
  Values <- MCValues
  Foci = {"few", "types", "walks", "keys", "strings", "heap", "scopes", "base64", "decimals", "integers", "buffer"}
SPECIFICATION Spec
INVARIANTS
  DocEncodes
  IterAgrees
  WalkInside
  ValidateAgrees
  JsonTruncates
  MemoryHeld
  Utf8Sound
  ConversionsExact
CHECK_DEADLOCK FALSE
