SPECIFICATION Spec
CONSTANTS
  exe = exe
  lib = lib
  extra = extra
  added = added
  File = {exe, lib, extra, added}
  Exe = exe
  Installed <- OldTree
  Release <- NewTree
  Fault = {"lock", "save", "start", "journal", "reinstall", "crash", "torn", "discard", "rescue", "registry"}
  MaxFaults = 3
  MaxRuns = 2
PROPERTIES
  ReinstallKept
\* The behaviour ends when the update is over.
CHECK_DEADLOCK FALSE
