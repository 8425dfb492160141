------------------------------ MODULE SocketRead ------------------------------
(***************************************************************************)
(* One call of cifsd_readv_from_socket() (connect.c) by a connection       *)
(* thread: read to_read bytes into the iovec iov_orig, one kernel_recvmsg()*)
(* per loop iteration, with kvec_array_init() computing the segments still *)
(* to fill from the bytes read so far.  The loop gives up when             *)
(* conn_unresponsive() holds, when tcp_status is Exiting or NeedReconnect, *)
(* or when recvmsg returns 0 or a hard error; it retries on -EAGAIN,       *)
(* -EINTR and -ERESTARTSYS.                                                *)
(*                                                                         *)
(* The iovec is a sequence of segment lengths; bytes are positions         *)
(* 1..Orig of the flattened iovec and written[p] counts writes to byte p.  *)
(* The peer, time, and the threads that change tcp_status are the          *)
(* environment.  open_files_count and last_active only change between      *)
(* reads, in the same connection thread, so they are fixed during a call.  *)
(***************************************************************************)
EXTENDS Integers, SequencesExt

CONSTANTS
  MaxSegLen,  \* bound: the length of one iovec segment
  MaxSegs,    \* bound: nr_segs
  OpenFiles   \* values of conn->stats.open_files_count

ASSUME MaxSegLen \in Nat /\ MaxSegs \in Nat \ {0} /\ OpenFiles \subseteq Nat

\* Iovecs with at least one byte; segments may be empty.
Iovs == {s \in SeqOf(0..MaxSegLen, MaxSegs) : s # <<>> /\ SumFunction(s) > 0}

\* The errno values the loop returns or reacts to (negated, as returned).
EAGAIN == -11
ENOMEM == -12
ESHUTDOWN == -108
Errors == {EAGAIN, ENOMEM, ESHUTDOWN}

VARIABLES
  iov,       \* iov_orig, fixed for the call
  toRead,    \* to_read: bytes still to read
  total,     \* total_read
  written,   \* written[p]: times byte p of iov_orig was written
  rpc,       \* "start", "top", "recv", "done"
  result,    \* the return value once rpc = "done"
  status,    \* conn->tcp_status: "Good", "NeedReconnect", "Exiting"
  openFiles, \* conn->stats.open_files_count
  peer,      \* "up", "dead" (gone without a FIN), "closed"
  expired    \* time_after(jiffies, last_active + 2 * SMB_ECHO_INTERVAL)

vars == <<iov, toRead, total, written, rpc, result, status, openFiles, peer,
          expired>>

Orig == SumFunction(iov)

\* Sum of the first j segments.
Upto(s, j) == SumFunction(SubSeq(s, 1, j))

(***************************************************************************)
(* kvec_array_init(new, iov, nr_segs, bytes)                               *)
(***************************************************************************)

\* Mutant: "while (bytes)": empty segments at the split point are kept.
RECURSIVE KvecLoopNoSkip(_, _, _, _)
KvecLoopNoSkip(s, i, bytes, base) ==
  IF bytes # 0
  THEN LET copy == IF bytes < s[i] THEN bytes ELSE s[i] IN
       IF s[i] = base + copy THEN KvecLoopNoSkip(s, i + 1, bytes - copy, 0)
                             ELSE KvecLoopNoSkip(s, i, bytes - copy, base + copy)
  ELSE <<i, base>>

RECURSIVE KvecLoop(_, _, _, _)
KvecLoop(s, i, bytes, base) ==
  IF bytes # 0 \/ s[i] = 0
  THEN LET copy == IF bytes < s[i] THEN bytes ELSE s[i] IN
       IF s[i] = base + copy THEN KvecLoop(s, i + 1, bytes - copy, 0)
                             ELSE KvecLoop(s, i, bytes - copy, base + copy)
  ELSE <<i, base>>

\* memcpy() of the segments left, the first one advanced by base.
KvecArrayInit(s, bytes) ==
  LET r == KvecLoop(s, 1, bytes, 0) IN
  [SubSeq(s, r[1], Len(s)) EXCEPT ![1] = @ - r[2]]

\* Reference: the segments from the one holding byte bytes + 1 on, the
\* first one cut to the part after that byte.
KvecReference(s, bytes) ==
  LET j == CHOOSE j \in 1..Len(s) :
             Upto(s, j) > bytes /\ \A k \in 1..(j - 1) : Upto(s, k) <= bytes
  IN  [SubSeq(s, j, Len(s)) EXCEPT ![1] = Upto(s, j) - bytes]

(***************************************************************************)
(* The read loop                                                           *)
(***************************************************************************)

\* Mutant: conn_unresponsive() built without CONFIG_CIFS_SMB2_SERVER.
UnresponsiveNever == FALSE

\* conn_unresponsive() as built with CONFIG_CIFS_SMB2_SERVER, the build the
\* server needs: no open files and no request for 120 s.  The #else branch
\* returns false.
Unresponsive == openFiles = 0 /\ expired

\* get_conn_iovec() reuses conn->iov or kmalloc()s a bigger one, which may
\* fail: return -ENOMEM.
Start ==
  /\ rpc = "start"
  /\ \/ rpc' = "done" /\ result' = ENOMEM
     \/ rpc' = "top" /\ UNCHANGED result
  /\ UNCHANGED <<iov, toRead, total, written, status, openFiles, peer, expired>>

\* Mutant: "break" on an unresponsive peer without total_read = -EAGAIN.
TopPartial ==
  /\ rpc = "top"
  /\ IF toRead = 0 \/ Unresponsive
     THEN rpc' = "done" /\ result' = total
     ELSE rpc' = "recv" /\ UNCHANGED result
  /\ UNCHANGED <<iov, toRead, total, written, status, openFiles, peer, expired>>

\* The loop head: "for (...; to_read; ...)" returns total_read when all is
\* read; conn_unresponsive() breaks with -EAGAIN.
Top ==
  /\ rpc = "top"
  /\ CASE toRead = 0    -> rpc' = "done" /\ result' = total
       [] Unresponsive  -> rpc' = "done" /\ result' = EAGAIN
       [] OTHER         -> rpc' = "recv" /\ UNCHANGED result
  /\ UNCHANGED <<iov, toRead, total, written, status, openFiles, peer, expired>>

\* What kernel_recvmsg() may return: data (1..to_read bytes) or -EAGAIN
\* after the 7 s sk_rcvtimeo from a live peer, only -EAGAIN from a peer
\* that vanished, 0 from a closed peer or a socket shut down by
\* cifsd_stop_tcp_sess().
Outcomes ==
  CASE status = "Exiting" \/ peer = "closed" -> {0}
    [] peer = "dead"                         -> {EAGAIN}
    [] OTHER                                 -> (1..toRead) \cup {EAGAIN}

\* The bytes a recvmsg of len bytes writes: into the segments
\* kvec_array_init(iov, total_read) left, i.e. after the ones before them.
Fill(len) ==
  LET start == Orig - SumFunction(KvecArrayInit(iov, total)) IN
  [p \in DOMAIN written |->
     IF start < p /\ p <= start + len THEN written[p] + 1 ELSE written[p]]

\* Mutant: the retry path without "length = 0", so the for-loop step adds
\* the negative error to total_read and subtracts it from to_read.
RecvNoReset(len) ==
  /\ rpc = "recv"
  /\ written' = IF len > 0 THEN Fill(len) ELSE written
  /\ CASE status = "Exiting"       -> /\ rpc' = "done" /\ result' = ESHUTDOWN
                                      /\ UNCHANGED <<toRead, total>>
       [] status = "NeedReconnect" -> /\ rpc' = "done" /\ result' = EAGAIN
                                      /\ UNCHANGED <<toRead, total>>
       [] len <= 0 /\ len # 0      -> /\ rpc' = "top"
                                      /\ total' = total + len
                                      /\ toRead' = toRead - len
                                      /\ UNCHANGED result
       [] len = 0                  -> /\ rpc' = "done" /\ result' = EAGAIN
                                      /\ UNCHANGED <<toRead, total>>
       [] OTHER                    -> /\ rpc' = "top"
                                      /\ total' = total + len
                                      /\ toRead' = toRead - len
                                      /\ UNCHANGED result
  /\ UNCHANGED <<iov, status, openFiles, peer, expired>>

\* kernel_recvmsg() of the segments left, then the tcp_status checks, the
\* retry on -EAGAIN/-EINTR/-ERESTARTSYS (length = 0) and the break on
\* length <= 0; otherwise the for-loop step counts the bytes.
Recv(len) ==
  /\ rpc = "recv"
  /\ written' = IF len > 0 THEN Fill(len) ELSE written
  /\ CASE status = "Exiting"       -> /\ rpc' = "done" /\ result' = ESHUTDOWN
                                      /\ UNCHANGED <<toRead, total>>
       [] status = "NeedReconnect" -> /\ rpc' = "done" /\ result' = EAGAIN
                                      /\ UNCHANGED <<toRead, total>>
       [] len = EAGAIN           -> /\ rpc' = "top"
                                      /\ UNCHANGED <<toRead, total, result>>
       [] len = 0                  -> /\ rpc' = "done" /\ result' = EAGAIN
                                      /\ UNCHANGED <<toRead, total>>
       [] OTHER                    -> /\ rpc' = "top"
                                      /\ total' = total + len
                                      /\ toRead' = toRead - len
                                      /\ UNCHANGED result
  /\ UNCHANGED <<iov, status, openFiles, peer, expired>>

(***************************************************************************)
(* Environment                                                             *)
(***************************************************************************)

\* The peer vanishes without a FIN, or closes the connection.
PeerDies ==
  /\ peer = "up" /\ peer' = "dead"
  /\ UNCHANGED <<iov, toRead, total, written, rpc, result, status, openFiles,
                 expired>>

PeerCloses ==
  /\ peer = "up" /\ peer' = "closed"
  /\ UNCHANGED <<iov, toRead, total, written, rpc, result, status, openFiles,
                 expired>>

\* 120 s pass without a request.
Expire ==
  /\ ~expired /\ expired' = TRUE
  /\ UNCHANGED <<iov, toRead, total, written, rpc, result, status, openFiles,
                 peer>>

\* cifsd_stop_tcp_sess() marks the connection Exiting and shuts its socket
\* down; the session code marks it NeedReconnect.
SetStatus ==
  /\ status = "Good"
  /\ \E s \in {"NeedReconnect", "Exiting"} : status' = s
  /\ UNCHANGED <<iov, toRead, total, written, rpc, result, openFiles, peer,
                 expired>>

(***************************************************************************)
(* Specification                                                           *)
(***************************************************************************)

\* cifsd_read_from_socket() passes one segment of to_read bytes; other
\* callers pass nr_segs segments summing to to_read.
Init ==
  /\ iov \in Iovs
  /\ toRead = Orig /\ total = 0
  /\ written = [p \in 1..Orig |-> 0]
  /\ rpc = "start" /\ result = 0
  /\ status = "Good" /\ openFiles \in OpenFiles
  /\ peer = "up" /\ expired = FALSE

Next ==
  \/ Start \/ Top \/ \E len \in Outcomes : Recv(len)
  \/ PeerDies \/ PeerCloses \/ Expire \/ SetStatus

\* The connection thread is scheduled and recvmsg returns within its 7 s
\* timeout; time passes.  The peer and tcp_status need not change.
Spec ==
  /\ Init /\ [][Next]_vars
  /\ WF_vars(Start) /\ WF_vars(Top) /\ WF_vars(\E len \in Outcomes : Recv(len))
  /\ WF_vars(Expire)

(***************************************************************************)
(* Properties                                                              *)
(***************************************************************************)

\* Every variable stays in its domain: total_read and to_read always split
\* the request, so to_read (unsigned) never wraps.
TypeOK ==
  /\ iov \in Iovs
  /\ total \in 0..Orig /\ toRead \in 0..Orig /\ total + toRead = Orig
  /\ written \in [1..Orig -> Nat]
  /\ rpc \in {"start", "top", "recv", "done"}
  /\ result \in Errors \cup (0..Orig)
  /\ status \in {"Good", "NeedReconnect", "Exiting"}
  /\ peer \in {"up", "dead", "closed"}

ReadFillsBuffer ==
  /\ \A p \in DOMAIN written : written[p] <= 1
  /\ rpc = "done" /\ result >= 0 =>
       result = Orig /\ \A p \in DOMAIN written : written[p] = 1

\* A read from a peer that vanished or closed the connection returns.
DeadPeerReadEnds == peer # "up" ~> rpc = "done"

================================================================================
