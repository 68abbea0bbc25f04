SPECIFICATION FairSpec
CONSTANTS
  exe = exe
  lib = lib
  extra = extra
  added = added
  File = {exe, lib, extra, added}
  Exe = exe
  Installed <- OldTree
  Release <- NewTree
  Fault = {"lock", "start", "crash", "registry"}
  MaxFaults = 3
  MaxRuns = 1
INVARIANTS
  IInv
  LastCopyKept
  Restored
  Runnable
PROPERTIES
  Atomic
  Settles
\* The behaviour ends when the update is over.
CHECK_DEADLOCK FALSE
