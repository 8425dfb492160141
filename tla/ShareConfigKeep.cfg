\* Violation: a failed write removes a share listed before it.
CONSTANTS
  ipc = ipc
  n1 = n1
  n2 = n2
  NULL = NULL
  IPC = ipc
  Names = {ipc, n1, n2}
  MaxStores = 2
  MaxOptions = 4
  u1 = u1
  u2 = u2
  Logins = {u1}
  MaxUserStores = 0
  MaxStrs = 3
  AllocCanFail = FALSE

SPECIFICATION Spec
CHECK_DEADLOCK FALSE
INVARIANT StoreKeepsShares
