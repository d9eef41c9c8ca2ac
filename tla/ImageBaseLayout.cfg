SPECIFICATION Spec
CONSTANTS
  WordMod = 32
  Mod64 = 64
  PageSize = 4
  Requests = {7}
  Images <- MCUnaligned
  Biases = {8, 16}
  OtherLines = {4, 30}
  MaxReplaced = 0
INVARIANT VirtualAddressIsEnough
CHECK_DEADLOCK FALSE
