SPECIFICATION Spec
CONSTANTS
  LastAddr = 5
  AddrMod = 10
  WordSize = 2
  Insn <- MCInsn
  Succ <- LoopSucc
  Exits = {4}
  Entry = 1
  OwnTraps = {0}
  Stores = {2, 4}
  Hooks = {0, 1, 2, 3, 4, 5}
  PIE = FALSE
  KillMayFail = TRUE
  MaxSignals = 2
  MaxKills = 2
INVARIANTS
  TypeOK
  MemoryFaithful
  ResumesAtHook
  OrphanIsClean
  SuccessIsAccounted
  DamageIsConfined
  IInv
PROPERTIES
  BreakpointNotMissed
  KeepsPromise
CHECK_DEADLOCK FALSE
