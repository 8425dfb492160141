\* "deny hosts = h1, h2": t1 (peer h1) connects, then t2 (peer h2);
\* the connects do not overlap.
CONSTANTS
  t1 = t1
  t2 = t2
  t3 = t3
  s1 = s1
  s2 = s2
  s3 = s3
  h1 = h1
  h2 = h2
  h3 = h3
  u1 = u1
  u2 = u2
  a = a
  NoList = NoList
  Threads = {t1, t2}
  Shares = {s1}
  Short <- MCShort
  Peer <- MCPeer
  Account <- MCAccount
  Conf <- ConfDenyBoth
  Writeable <- OneShareFalse
  GuestOk <- OneShareFalse
  IsIPC <- OneShareFalse
  MaxConnects = 1
  Serial = TRUE

SPECIFICATION Spec
CHECK_DEADLOCK FALSE
INVARIANT DeniedHostsRefused
