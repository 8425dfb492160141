\* Two config writes of up to four options each over IPC$ and two names.
CONSTANTS
  ipc = ipc
  n1 = n1
  n2 = n2
  NULL = NULL
  IPC = ipc
  Names = {ipc, n1, n2}
  MaxStores = 2
  MaxOptions = 4
  u1 = u1
  u2 = u2
  Logins = {u1, u2}
  MaxUserStores = 1
  MaxStrs = 7
  AllocCanFail = TRUE

SPECIFICATION Spec
CHECK_DEADLOCK FALSE
 
INVARIANT UniqueNames
INVARIANT NumSharesCounted
INVARIANT OwnedStringsLive
PROPERTY VetoFilesCompileGlobs
