SPECIFICATION Spec
CONSTANTS
  LastAddr = 5
  AddrMod = 10
  WordSize = 2
  Insn <- MCInsn
  Succ <- StraightSucc
  Exits = {4}
  Entry = 1
  OwnTraps = {}
  Stores = {}
  Hooks = {0, 3}
  PIE = FALSE
  KillMayFail = FALSE
  MaxSignals = 1
  MaxKills = 0
INVARIANT StoppedAfterExecve
