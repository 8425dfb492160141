\* Three create calls, closes and terminates, one connection, and a daemon
\* that exits and restarts: every kthread_stop() of a running forker returns.
CONSTANTS
  MaxForkers = 3
  MaxConns = 1
  DaemonCanDie = TRUE
  NULL = NULL
SPECIFICATION Spec
INVARIANTS TypeOK
PROPERTIES StopRequestHonoured
\* The system may stop once the bounded create calls are spent.
CHECK_DEADLOCK FALSE
