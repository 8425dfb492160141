\* Three connection threads (one with a one-character account), one tree
\* connect each, over a share that admits by host and sets write access by
\* lists, one that denies and checks users, and IPC$.
CONSTANTS
  t1 = t1
  t2 = t2
  t3 = t3
  s1 = s1
  s2 = s2
  s3 = s3
  h1 = h1
  h2 = h2
  h3 = h3
  u1 = u1
  u2 = u2
  a = a
  NoList = NoList
  Threads = {t1, t2, t3}
  Shares = {s1, s2, s3}
  Short <- MCShort
  Peer <- MCPeer
  Account <- MCAccount
  Conf <- ConfMixed
  Writeable <- WriteableMixed
  GuestOk <- GuestOkNone
  IsIPC <- IsIPCMixed
  MaxConnects = 1
  Serial = FALSE

SPECIFICATION Spec
CHECK_DEADLOCK FALSE
INVARIANT TypeOK
INVARIANT NoAdmitOutsideLists
INVARIANT NoWriteBeyondConfig
PROPERTY ConnectsReturn
