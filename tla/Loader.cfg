SPECIFICATION Spec
CONSTANTS
  LastPage = 4
  BUFFER_SIZE = 2
  BatchSize = 2
  Layouts <- MCLayouts
  StateSize = 2
  EntrySize = 2
  MaxChanges = 1
  Threads <- MCThreads
  PB_GDT_PAGE = 5
  PB_TRAMPOLINE_PAGE = 4
  HostPages = {2, 6}
INVARIANTS
  LoaderTypeOK
  LoaderInv
  EndToEnd
  NoPartialMapping
  NoScaffoldingLeft
  CpuRestored
  SegmentsRestored
PROPERTY NothingOverwritten
CHECK_DEADLOCK FALSE
