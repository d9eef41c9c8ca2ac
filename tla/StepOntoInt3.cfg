SPECIFICATION Spec
CONSTANTS
  LastAddr = 5
  AddrMod = 10
  WordSize = 2
  Insn <- MCInsn
  Succ <- StraightSucc
  Exits = {4}
  Entry = 1
  OwnTraps = {}
  Stores = {}
  Hooks = {1}
  PIE = TRUE
  KillMayFail = FALSE
  MaxSignals = 0
  MaxKills = 0
INVARIANT StepsPastBreakpoint
