SPECIFICATION Spec
CONSTANTS
  WordMod = 32
  Mod64 = 64
  PageSize = 4
  Requests <- MCRequests
  Images <- MCImages
  Biases = {8, 16}
  OtherLines = {4, 30}
  MaxReplaced = 2
INVARIANTS
  ImageBaseTypeOK
  ImageBaseInv
  HookIsRight
  OtherFileRefused
CHECK_DEADLOCK FALSE
