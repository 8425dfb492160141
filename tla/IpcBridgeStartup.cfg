\* One kernel thread, a second daemon starting while the first is
\* registered, and duplicated responses.
CONSTANTS
  c1 = c1
  c2 = c2
  d1 = d1
  d2 = d2
  NL = NL
  NULL = NULL
  NoPid = NoPid
  Callers = {c1}
  Daemons = {d1, d2}
  Responsive = {d1}
  Handles <- MCHandles
  PipeHandles <- MCPipeHandles
  WaitedTypes <- MCOneType
  OneWayTypes <- MCNoOneWay
  MaxRequests = 3
  MaxDup = 1
  AllocCanFail = TRUE

SPECIFICATION Spec

INVARIANT TypeOK
INVARIANT EntriesOnLiveStacks
INVARIANT InUseHandlesAllocated
 

CHECK_DEADLOCK FALSE
