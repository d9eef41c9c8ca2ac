SPECIFICATION Spec
CONSTANTS
  LastAddr = 5
  AddrMod = 10
  WordSize = 2
  Insn <- MCInsn
  Succ <- LoopSucc
  Exits = {4}
  Entry = 1
  OwnTraps = {}
  Stores = {2, 4}
  Hooks = {0, 3, 4}
  PIE = FALSE
  KillMayFail = FALSE
  MaxSignals = 0
  MaxKills = 2
INVARIANTS
  SnapshotAtBreakpoint
  QuietInv
