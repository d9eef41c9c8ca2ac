SPECIFICATION FairSpec
CONSTANTS
  LastAddr = 5
  AddrMod = 10
  WordSize = 2
  Insn <- MCInsn
  Succ <- StraightSucc
  Exits = {4}
  Entry = 1
  OwnTraps = {0}
  Stores = {2, 4}
  Hooks = {0, 3, 4, 5}
  PIE = TRUE
  KillMayFail = FALSE
  MaxSignals = 1
  MaxKills = 1
PROPERTY EventuallyEnds
