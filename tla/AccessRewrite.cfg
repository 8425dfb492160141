\* One thread connects to a share with "valid users = u1, u2" while one
\* config write sets that list again.
CONSTANTS
  t1 = t1
  t2 = t2
  s1 = s1
  s2 = s2
  s3 = s3
  h1 = h1
  h2 = h2
  h3 = h3
  u1 = u1
  u2 = u2
  a = a
  NoList = NoList
  Threads = {t1}
  Shares = {s1}
  Short <- MCShort
  Peer <- MCPeer
  Account <- MCAccount
  Conf <- ConfValid
  Writeable <- OneShareFalse
  GuestOk <- OneShareFalse
  IsIPC <- OneShareFalse
  MaxConnects = 1
  Serial = FALSE
  MaxRewrites = 1

SPECIFICATION SpecRW
CHECK_DEADLOCK FALSE
INVARIANT NoSearchOfFreedString
