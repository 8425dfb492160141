-------------------------------- MODULE Forker --------------------------------
(***************************************************************************)
(* The listener of connect.c.  cifsd_create_socket() binds port 445 and    *)
(* starts the forker thread kcifsd/0 (cifsd_do_fork), which loops: stop if *)
(* kthread_should_stop(), spin while deny_new_conn is set, leave when the  *)
(* cifsd daemon whose pid it was given is gone, otherwise accept one       *)
(* connection (or sleep 100 ms) and start a session thread for it.  On     *)
(* leaving it releases the socket and sets cifsd_forkerd = NULL.           *)
(* cifsd_close_socket() sets deny_new_conn, stops the sessions and, if     *)
(* that worked, stops the forker; terminate_old_forker_thread() stops it   *)
(* unconditionally.  A single controller issues these calls one at a time; *)
(* the forker threads run concurrently with it.                            *)
(*                                                                         *)
(* Forker threads are numbered by the cifsd_create_socket() call that      *)
(* started them.  Each daemon instance has its own pid: daemon instance g  *)
(* is alive iff alive /\ gen = g.                                          *)
(***************************************************************************)
EXTENDS Integers, FiniteSets

CONSTANTS
  MaxForkers,    \* bound: cifsd_create_socket() calls
  MaxConns,      \* bound: connections accepted
  DaemonCanDie,  \* the cifsd daemon may exit (and a new one start)
  NULL

ASSUME MaxForkers \in Nat /\ MaxConns \in Nat /\ DaemonCanDie \in BOOLEAN

Forkers == 1..MaxForkers

VARIABLES
  forkerd,    \* cifsd_forkerd: a forker number or NULL
  denyNewConn,\* deny_new_conn
  fpc,        \* fpc[f]: where forker f is; "none" before it is started
  stopReq,    \* stopReq[f]: kthread_should_stop() for forker f
  pidOf,      \* pidOf[f]: the daemon instance whose pid forker f checks
  port,       \* the forker whose socket listens on port 445, or NULL
  sessions,   \* session threads alive
  accepted,   \* connections accepted so far
  alive,      \* the current daemon instance is alive
  gen,        \* the current daemon instance
  ctl,        \* the controller's program counter
  target,     \* the forker the controller read from cifsd_forkerd
  created     \* cifsd_create_socket() calls so far

vars == <<forkerd, denyNewConn, fpc, stopReq, pidOf, port, sessions, accepted,
          alive, gen, ctl, target, created>>

Running(f) == fpc[f] \notin {"none", "exited"}


(***************************************************************************)
(* The controller                                                          *)
(***************************************************************************)

\* kernel_bind() of port 445 succeeds only if no socket listens on it.
PortFree == port = NULL

\* cifsd_create_socket(pid).  A failure of sock_create(), setsockopt(),
\* bind() (always, while a socket listens on 445), listen() or the kmalloc()
\* of the pid info releases the socket and changes nothing else.
\* cifsd_start_forker_thread() clears deny_new_conn before kthread_run(),
\* sets cifsd_forkerd = NULL when it fails, and otherwise stores the new
\* task in cifsd_forkerd only after the thread is running (ctl = "assign").
CreateSocket ==
  LET f == created + 1 IN
  /\ ctl = "idle" /\ created < MaxForkers
  /\ created' = f
  /\ \/ UNCHANGED <<forkerd, denyNewConn, fpc, pidOf, port, ctl>>
     \/ /\ PortFree
        /\ denyNewConn' = FALSE /\ forkerd' = NULL
        /\ UNCHANGED <<fpc, pidOf, port, ctl>>
     \/ /\ PortFree
        /\ denyNewConn' = FALSE
        /\ fpc' = [fpc EXCEPT ![f] = "top"]
        /\ pidOf' = [pidOf EXCEPT ![f] = gen]
        /\ port' = f
        /\ ctl' = "assign"
        /\ UNCHANGED forkerd
  /\ UNCHANGED <<stopReq, sessions, accepted, alive, gen, target>>

\* cifsd_forkerd = kthread_run(...) returns the new task.
Assign ==
  /\ ctl = "assign"
  /\ forkerd' = created
  /\ ctl' = "idle"
  /\ UNCHANGED <<denyNewConn, fpc, stopReq, pidOf, port, sessions, accepted,
                 alive, gen, target, created>>

\* cifsd_close_socket(): deny_new_conn = 1 ...
CloseSocket ==
  /\ ctl = "idle"
  /\ denyNewConn' = TRUE
  /\ ctl' = "stopsess"
  /\ UNCHANGED <<forkerd, fpc, stopReq, pidOf, port, sessions, accepted, alive,
                 gen, target, created>>

\* ... cifsd_stop_tcp_sess() stops every session, or fails; only when it
\* returns 0 is cifsd_stop_forker_thread() called.
StopSessions ==
  /\ ctl = "stopsess"
  /\ \/ sessions' = 0 /\ ctl' = "check"
     \/ ctl' = "idle" /\ UNCHANGED sessions
  /\ UNCHANGED <<forkerd, denyNewConn, fpc, stopReq, pidOf, port, accepted,
                 alive, gen, target, created>>

\* terminate_old_forker_thread(): "if (cifsd_forkerd)"
\* cifsd_stop_forker_thread().
TerminateOld ==
  /\ ctl = "idle" /\ forkerd # NULL
  /\ ctl' = "check"
  /\ UNCHANGED <<forkerd, denyNewConn, fpc, stopReq, pidOf, port, sessions,
                 accepted, alive, gen, target, created>>

\* Mutant: kthread_stop(cifsd_forkerd) without the NULL test.
StopCheckNoNull ==
  /\ ctl = "check"
  /\ ctl' = "stop" /\ target' = forkerd
  /\ UNCHANGED <<forkerd, denyNewConn, fpc, stopReq, pidOf, port, sessions,
                 accepted, alive, gen, created>>

\* cifsd_stop_forker_thread(): "if (cifsd_forkerd)" reads the pointer ...
StopCheck ==
  /\ ctl = "check"
  /\ IF forkerd = NULL
     THEN ctl' = "clear" /\ UNCHANGED target
     ELSE ctl' = "stop" /\ target' = forkerd
  /\ UNCHANGED <<forkerd, denyNewConn, fpc, stopReq, pidOf, port, sessions,
                 accepted, alive, gen, created>>

\* ... and kthread_stop(cifsd_forkerd) sets kthread_should_stop() and waits
\* for the thread to exit.  On a thread that has already exited by itself
\* the task_struct is gone: a use after free ("oops").
KthreadStop ==
  /\ ctl = "stop"
  /\ IF fpc[target] = "exited"
     THEN ctl' = "oops" /\ UNCHANGED stopReq
     ELSE ctl' = "wait" /\ stopReq' = [stopReq EXCEPT ![target] = TRUE]
  /\ UNCHANGED <<forkerd, denyNewConn, fpc, pidOf, port, sessions, accepted,
                 alive, gen, target, created>>

\* kthread_stop() returns once the thread has exited.
StopReturns ==
  /\ ctl = "wait" /\ fpc[target] = "exited"
  /\ ctl' = "clear"
  /\ UNCHANGED <<forkerd, denyNewConn, fpc, stopReq, pidOf, port, sessions,
                 accepted, alive, gen, target, created>>

\* cifsd_forkerd = NULL, and return (to cifsd_close_socket() or the caller
\* of terminate_old_forker_thread()).
StopClear ==
  /\ ctl = "clear"
  /\ forkerd' = NULL
  /\ ctl' = "idle"
  /\ UNCHANGED <<denyNewConn, fpc, stopReq, pidOf, port, sessions, accepted,
                 alive, gen, target, created>>

(***************************************************************************)
(* The forker thread cifsd_do_fork()                                       *)
(***************************************************************************)

\* Mutant: "if (deny_new_conn) continue;" tested before kthread_should_stop().
FTopDenyFirst(f) ==
  /\ fpc[f] = "top" /\ ~denyNewConn
  /\ fpc' = [fpc EXCEPT ![f] = IF stopReq[f] THEN "release" ELSE "alive"]
  /\ UNCHANGED <<forkerd, denyNewConn, stopReq, pidOf, port, sessions,
                 accepted, alive, gen, ctl, target, created>>

\* The loop head: "while (!kthread_should_stop()) { if (deny_new_conn)
\* continue; ...".  While deny_new_conn is set and no stop is asked the
\* thread spins without changing anything, which is stuttering here.
FTop(f) ==
  /\ fpc[f] = "top" /\ (stopReq[f] \/ ~denyNewConn)
  /\ fpc' = [fpc EXCEPT ![f] = IF stopReq[f] THEN "release" ELSE "alive"]
  /\ UNCHANGED <<forkerd, denyNewConn, stopReq, pidOf, port, sessions,
                 accepted, alive, gen, ctl, target, created>>

\* pid_task(find_vpid(cifsd_pid)) with comm "cifsd": go on to accept, or
\* break out of the loop when the daemon is gone.
FAlive(f) ==
  /\ fpc[f] = "alive"
  /\ fpc' = [fpc EXCEPT ![f] = IF alive /\ gen = pidOf[f] THEN "accept"
                                                          ELSE "release"]
  /\ UNCHANGED <<forkerd, denyNewConn, stopReq, pidOf, port, sessions,
                 accepted, alive, gen, ctl, target, created>>

\* kernel_accept(O_NONBLOCK): -EAGAIN sleeps 100 ms; a new socket is handed
\* to connect_tcp_sess(), which starts its session thread.
FAccept(f) ==
  /\ fpc[f] = "accept"
  /\ fpc' = [fpc EXCEPT ![f] = "top"]
  /\ \/ UNCHANGED <<sessions, accepted>>
     \/ /\ accepted < MaxConns
        /\ sessions' = sessions + 1 /\ accepted' = accepted + 1
  /\ UNCHANGED <<forkerd, denyNewConn, stopReq, pidOf, port, alive, gen, ctl,
                 target, created>>

\* After the loop: kernel_sock_shutdown(), sock_release(), kfree(pid info).
FRelease(f) ==
  /\ fpc[f] = "release"
  /\ fpc' = [fpc EXCEPT ![f] = "clear"]
  /\ port' = NULL
  /\ UNCHANGED <<forkerd, denyNewConn, stopReq, pidOf, sessions, accepted,
                 alive, gen, ctl, target, created>>

\* cifsd_forkerd = NULL; return 0, and the thread exits.
FClear(f) ==
  /\ fpc[f] = "clear"
  /\ fpc' = [fpc EXCEPT ![f] = "exited"]
  /\ forkerd' = NULL
  /\ UNCHANGED <<denyNewConn, stopReq, pidOf, port, sessions, accepted,
                 alive, gen, ctl, target, created>>

(***************************************************************************)
(* Environment                                                             *)
(***************************************************************************)

\* The cifsd daemon exits; a new one (a new pid) may start later.
DaemonExit ==
  /\ DaemonCanDie /\ alive
  /\ alive' = FALSE
  /\ UNCHANGED <<forkerd, denyNewConn, fpc, stopReq, pidOf, port, sessions,
                 accepted, gen, ctl, target, created>>

DaemonStart ==
  /\ ~alive /\ gen < MaxForkers
  /\ alive' = TRUE /\ gen' = gen + 1
  /\ UNCHANGED <<forkerd, denyNewConn, fpc, stopReq, pidOf, port, sessions,
                 accepted, ctl, target, created>>

\* A session thread ends when its peer goes away.
SessionEnds ==
  /\ sessions > 0
  /\ sessions' = sessions - 1
  /\ UNCHANGED <<forkerd, denyNewConn, fpc, stopReq, pidOf, port, accepted,
                 alive, gen, ctl, target, created>>

(***************************************************************************)
(* Specification                                                           *)
(***************************************************************************)

\* Module load: deny_new_conn and cifsd_forkerd are zero, the daemon runs.
Init ==
  /\ forkerd = NULL /\ denyNewConn = FALSE
  /\ fpc = [f \in Forkers |-> "none"]
  /\ stopReq = [f \in Forkers |-> FALSE]
  /\ pidOf = [f \in Forkers |-> 0]
  /\ port = NULL /\ sessions = 0 /\ accepted = 0
  /\ alive = TRUE /\ gen = 1
  /\ ctl = "idle" /\ target = NULL /\ created = 0

Controller ==
  \/ CreateSocket \/ Assign \/ CloseSocket \/ StopSessions \/ TerminateOld
  \/ StopCheck \/ KthreadStop \/ StopReturns \/ StopClear

ForkerStep(f) ==
  FTop(f) \/ FAlive(f) \/ FAccept(f) \/ FRelease(f) \/ FClear(f)

Next ==
  \/ Controller
  \/ \E f \in Forkers : ForkerStep(f)
  \/ DaemonExit \/ DaemonStart \/ SessionEnds

\* The scheduler runs every kernel thread and the 100 ms sleep ends: weak
\* fairness on each forker thread and on the controller once it is inside
\* a call.  Calls themselves (create, close, terminate) and the daemon are
\* the environment and need not happen.
Spec ==
  /\ Init /\ [][Next]_vars
  /\ \A f \in Forkers : WF_vars(ForkerStep(f))
  /\ WF_vars(Assign \/ StopSessions \/ StopCheck \/ KthreadStop
             \/ StopReturns \/ StopClear)

(***************************************************************************)
(* Properties                                                              *)
(***************************************************************************)

\* Every variable stays in its domain; in particular kthread_stop() is only
\* reached with a task read from cifsd_forkerd, never with NULL.
TypeOK ==
  /\ forkerd \in Forkers \cup {NULL}
  /\ denyNewConn \in BOOLEAN
  /\ fpc \in [Forkers -> {"none", "top", "alive", "accept", "release",
                          "clear", "exited"}]
  /\ port \in Forkers \cup {NULL}
  /\ sessions \in 0..MaxConns
  /\ ctl \in {"idle", "assign", "stopsess", "check", "stop", "wait", "clear",
              "oops"}
  /\ ctl \in {"stop", "wait"} => target \in Forkers

\* kthread_stop() is never called on a forker thread that has already
\* exited by itself (its task_struct is freed).
NoStopOfExitedForker == ctl # "oops"

\* A forker asked to stop by kthread_stop() exits: kthread_stop() returns.
StopRequestHonoured ==
  \A f \in Forkers : stopReq[f] ~> fpc[f] = "exited"

================================================================================
