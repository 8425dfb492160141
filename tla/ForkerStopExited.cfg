\* kthread_stop() of a forker that exited on its own.
CONSTANTS
  MaxForkers = 2
  MaxConns = 1
  DaemonCanDie = TRUE
  NULL = NULL
SPECIFICATION Spec
INVARIANT NoStopOfExitedForker
\* The system may stop once the bounded create calls are spent.
CHECK_DEADLOCK FALSE
