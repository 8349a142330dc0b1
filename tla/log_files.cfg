\* The files of a log through three runs, with any system call failing.
SPECIFICATION Spec
CONSTANTS
  Bases <- MCBases
  DirLen = 250
  MaxPath = 256
  MaxFds = 7
  Failing = {"setup", "opendir", "stat", "open", "ftruncate", "mmap", "find", "write", "append",
             "msync", "floor"}
  MaxOpens = 3
INVARIANTS
  TypeOK
  HeldAccountedFor
  ClosedHoldsNothing
  FoundAgain
CHECK_DEADLOCK FALSE
