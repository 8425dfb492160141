\* Two kernel threads against one slow daemon: requests on ida ids and on
\* the pipe id interleave, time out, get late answers and reuse the id.
CONSTANTS
  c1 = c1
  c2 = c2
  d1 = d1
  d2 = d2
  NL = NL
  NULL = NULL
  NoPid = NoPid
  Callers = {c1, c2}
  Daemons = {d1}
  Responsive = {}
  Handles <- MCHandles
  PipeHandles <- MCPipeHandles
  WaitedTypes <- MCWaitedTypes
  OneWayTypes <- MCOneWayTypes
  MaxRequests = 3
  MaxDup = 0
  AllocCanFail = TRUE

SPECIFICATION Spec

INVARIANT TypeOK
INVARIANT EntriesOnLiveStacks
INVARIANT InUseHandlesAllocated
 
PROPERTY CallsRefined

CHECK_DEADLOCK FALSE
