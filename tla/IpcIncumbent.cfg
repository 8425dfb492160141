\* A second daemon starts while a responsive one is registered; two ida
\* ids so the heartbeat always gets one, and no allocation ever fails.
CONSTANTS
  c1 = c1
  c2 = c2
  d1 = d1
  d2 = d2
  NL = NL
  NULL = NULL
  NoPid = NoPid
  Callers = {c1}
  Daemons = {d1, d2}
  Responsive = {d1}
  Handles = {1, 2}
  PipeHandles <- MCPipeHandles
  WaitedTypes <- MCWaitedTypes
  OneWayTypes <- MCOneWayTypes
  MaxRequests = 3
  MaxDup = 1
  AllocCanFail = FALSE

SPECIFICATION Spec


CHECK_DEADLOCK FALSE
PROPERTY IncumbentKept
