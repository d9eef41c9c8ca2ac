SPECIFICATION FairDumpSpec
CONSTANTS
  LastPage = 4
  BUFFER_SIZE = 2
  BatchSize = 2
  Layouts <- MCLayouts
  StateSize = 2
  EntrySize = 2
  MaxChanges = 2
INVARIANTS
  DumpTypeOK
  NoForeignContent
  NothingUnreadable
  WellFormed
  StableMappingsDumped
  DumpInv
PROPERTY DumpEnds
CHECK_DEADLOCK FALSE
