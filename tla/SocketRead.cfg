\* Iovecs of up to three segments of up to two bytes (empty segments
\* included), a connection with no open files: kvec_array_init() agrees with
\* its reference, the buffer is filled once, and a read from a dead or
\* closed peer returns.
CONSTANTS
  MaxSegLen = 2
  MaxSegs = 3
  OpenFiles = {0}
SPECIFICATION Spec
INVARIANTS TypeOK  ReadFillsBuffer
PROPERTIES DeadPeerReadEnds
\* One call is modelled: it stops once it has returned.
CHECK_DEADLOCK FALSE
