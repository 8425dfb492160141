------------------------------- MODULE IpcBridge -------------------------------
(***************************************************************************)
(* The control-plane bridge of transport_ipc.c: kernel threads send typed  *)
(* requests to the user-space daemon over generic netlink and wait, with   *)
(* the 2 s IPC_WAIT_TIMEOUT, for the response that handle_response() puts  *)
(* into their correlation entry; the daemon registers itself with          *)
(* STARTING_UP, and a second STARTING_UP probes the incumbent with a       *)
(* heartbeat.                                                              *)
(*                                                                         *)
(* Owners of a correlation entry are the Callers (threads in the          *)
(* cifsd_ipc_ and cifsd_rpc_ wrappers) and NL, the netlink reception      *)
(* context while it runs handle_startup_event.  All doit handlers of the   *)
(* cifsd family run under the genetlink mutex (the family in               *)
(* cifsd_genl_family does not set parallel_ops), so at most one handler    *)
(* runs at a time: a response is received only while NL is idle.           *)
(*                                                                         *)
(* Time is abstract: a waiter may time out at any moment, except that a    *)
(* Responsive daemon answers within the timeout, so a waiter whose answer  *)
(* is still being produced by a Responsive daemon, or is ready to be       *)
(* received, does not time out.                                            *)
(***************************************************************************)
EXTENDS Integers, Sequences, SequencesExt, FiniteSets

CONSTANTS
  Callers,      \* kernel threads issuing IPC requests
  NL,           \* the netlink reception context running handle_startup_event
  Daemons,      \* user-space daemon processes (distinct netlink portids)
  Responsive,   \* daemons that always answer within IPC_WAIT_TIMEOUT
  Handles,      \* ids that cifds_acquire_id may hand out
  PipeHandles,  \* ids held by open RPC pipes, used by cifsd_rpc_read/write/...
  WaitedTypes,  \* request types sent with ipc_msg_send_request and an ida id
  OneWayTypes,  \* request types sent with ipc_msg_send only
  MaxRequests,  \* bound: number of requests issued in a behaviour
  MaxDup,       \* bound: number of responses the daemon side duplicates
  AllocCanFail, \* kmalloc/genlmsg_new/kstrdup may return NULL (ENOMEM)
  NULL,         \* a NULL pointer
  NoPid         \* cifsd_tools_pid == 0

\* Generic-netlink command numbers (cifsd_genl_ops): a response type is the
\* request type + 1.
HEARTBEAT_REQUEST       == 1
STARTING_UP             == 3
LOGIN_REQUEST           == 5
SHARE_CONFIG_REQUEST    == 7
TREE_CONNECT_REQUEST    == 9
TREE_DISCONNECT_REQUEST == 11
LOGOUT_REQUEST          == 12
RPC_REQUEST             == 13

ASSUME /\ NL \notin Callers
       /\ Responsive \subseteq Daemons
       /\ Handles \cap PipeHandles = {}
       /\ WaitedTypes \subseteq {HEARTBEAT_REQUEST, LOGIN_REQUEST,
                                 SHARE_CONFIG_REQUEST, TREE_CONNECT_REQUEST,
                                 RPC_REQUEST}
       /\ OneWayTypes \subseteq {TREE_DISCONNECT_REQUEST, LOGOUT_REQUEST}
       /\ MaxRequests \in Nat /\ MaxDup \in Nat /\ AllocCanFail \in BOOLEAN

Owners == Callers \cup {NL}

VARIABLES
  pc,        \* pc[o]: "idle", "send" (entry inserted), "wait", "out"
  req,       \* req[o]: the request o issued last (rid is a ghost request id)
  table,     \* ipc_msg_table: entries, most recently hash_add'ed first
  ida,       \* ids currently allocated in the ida
  inbox,     \* inbox[d]: messages unicast to daemon d, not yet handled
  chan,      \* responses sent by daemons, waiting for the genetlink mutex
  toolsPid,  \* cifsd_tools_pid
  alive,     \* daemons whose process is alive
  started,   \* daemons that have sent STARTING_UP
  joining,   \* daemon whose STARTING_UP NL is handling
  running,   \* cifsd_server_set_running() was called
  result,    \* result[o]: the response o returned last, or NULL
  answered,  \* ghost: <<rid, handle>> of every response a daemon sent
  nextRid,   \* ghost: next request id
  dups       \* ghost: responses duplicated so far

vars == <<pc, req, table, ida, inbox, chan, toolsPid, alive, started, joining,
          running, result, answered, nextRid, dups>>

Msg(rid, type, handle) == [rid |-> rid, type |-> type, handle |-> handle,
                           dup |-> FALSE]

\* Index of the entry o owns, 0 when it has none.
EntryOf(o) == SelectInSeq(table, LAMBDA e : e.owner = o)

\* Mutant: handle_response() takes the first entry of the bucket without
\* comparing its handle.
FirstWithHandleAny(h) == IF table = <<>> THEN 0 ELSE 1

\* hash_for_each_possible() stops at the first entry with the handle, and
\* hash_add() puts new entries in front of older ones.
FirstWithHandle(h) == SelectInSeq(table, LAMBDA e : e.handle = h)

\* ipc_msg_send(): unicast to cifsd_tools_pid; fails when no daemon is
\* registered or the registered portid no longer exists.
Unicast(m) ==
  /\ toolsPid # NoPid
  /\ alive[toolsPid]
  /\ inbox' = [inbox EXCEPT ![toolsPid] = @ \cup {m}]

\* A Responsive daemon still holds the request, or its response can be
\* received now: the 2 s timeout cannot expire first.
AnswerOnTheWay(o) ==
  \/ \E d \in Responsive : alive[d] /\ \E m \in inbox[d] : m.rid = req[o].rid
  \/ pc[NL] = "idle" /\ \E m \in chan : m.rid = req[o].rid

\* ipc_msg_send() returns an error: no daemon registered, the portid is
\* gone (genlmsg_unicast fails), or genlmsg_new() fails.
SendFails == ~(toolsPid # NoPid /\ alive[toolsPid]) \/ AllocCanFail

(***************************************************************************)
(* Callers                                                                 *)
(***************************************************************************)

\* Mutant: ipc_msg_send_request() without its (int)handle < 0 check, so an
\* exhausted ida's error code is inserted and sent as a handle.
StartRequestNoIdCheck(c, t) ==
  /\ pc[c] = "idle" /\ nextRid <= MaxRequests
  /\ nextRid' = nextRid + 1
  /\ \/ /\ AllocCanFail
        /\ req' = [req EXCEPT ![c] = [rid |-> nextRid, type |-> t,
                                     handle |-> -1, owned |-> FALSE]]
        /\ result' = [result EXCEPT ![c] = NULL]
        /\ UNCHANGED <<pc, table, ida>>
     \/ \E h \in IF Handles \ ida = {} THEN {-1} ELSE Handles \ ida :
          /\ ida' = ida \cup ({h} \cap Handles)
          /\ req' = [req EXCEPT ![c] = [rid |-> nextRid, type |-> t,
                                       handle |-> h, owned |-> h # -1]]
          /\ table' = Cons([owner |-> c, handle |-> h, type |-> t,
                            rid |-> nextRid, resp |-> NULL], table)
          /\ pc' = [pc EXCEPT ![c] = "send"]
          /\ UNCHANGED result
  /\ UNCHANGED <<inbox, chan, toolsPid, alive, started, joining, running,
                 answered, dups>>

\* cifsd_ipc_login/share_config/tree_connect/heartbeat_request, cifsd_rpc_rap:
\* take an ida id, then ipc_msg_send_request() inserts the stack entry.
\* NULL is returned at once when ipc_msg_alloc() fails or, with the ida
\* exhausted, the id is negative.
StartRequest(c, t) ==
  /\ pc[c] = "idle" /\ nextRid <= MaxRequests
  /\ nextRid' = nextRid + 1
  /\ \/ /\ AllocCanFail \/ Handles \ ida = {}
        /\ req' = [req EXCEPT ![c] = [rid |-> nextRid, type |-> t,
                                     handle |-> -1, owned |-> FALSE]]
        /\ result' = [result EXCEPT ![c] = NULL]
        /\ UNCHANGED <<pc, table, ida>>
     \/ \E h \in Handles \ ida :
          /\ ida' = ida \cup {h}
          /\ req' = [req EXCEPT ![c] = [rid |-> nextRid, type |-> t,
                                       handle |-> h, owned |-> TRUE]]
          /\ table' = Cons([owner |-> c, handle |-> h, type |-> t,
                            rid |-> nextRid, resp |-> NULL], table)
          /\ pc' = [pc EXCEPT ![c] = "send"]
          /\ UNCHANGED result
  /\ UNCHANGED <<inbox, chan, toolsPid, alive, started, joining, running,
                 answered, dups>>

\* cifsd_rpc_open/close/read/write/ioctl: the id is the pipe's own handle,
\* not taken from the ida and not released afterwards.  NULL is returned at
\* once when ipc_msg_alloc() fails.
StartRpc(c, p) ==
  /\ pc[c] = "idle" /\ nextRid <= MaxRequests
  /\ nextRid' = nextRid + 1
  /\ req' = [req EXCEPT ![c] = [rid |-> nextRid, type |-> RPC_REQUEST,
                               handle |-> p, owned |-> FALSE]]
  /\ \/ /\ AllocCanFail
        /\ result' = [result EXCEPT ![c] = NULL]
        /\ UNCHANGED <<pc, table>>
     \/ /\ table' = Cons([owner |-> c, handle |-> p, type |-> RPC_REQUEST,
                          rid |-> nextRid, resp |-> NULL], table)
        /\ pc' = [pc EXCEPT ![c] = "send"]
        /\ UNCHANGED result
  /\ UNCHANGED <<ida, inbox, chan, toolsPid, alive, started, joining, running,
                 answered, dups>>

\* cifsd_ipc_tree_disconnect_request, cifsd_ipc_logout_request: fire and
\* forget, no handle and no waiter.
SendOneWay(c, t) ==
  /\ pc[c] = "idle" /\ nextRid <= MaxRequests
  /\ nextRid' = nextRid + 1
  /\ \/ Unicast(Msg(nextRid, t, -1))
     \/ SendFails /\ UNCHANGED inbox
  /\ UNCHANGED <<pc, req, table, ida, chan, toolsPid, alive, started, joining,
                 running, result, answered, dups>>

\* ipc_msg_send() inside ipc_msg_send_request(): on failure, goto out.
Send(o) ==
  /\ pc[o] = "send"
  /\ \/ /\ Unicast(Msg(req[o].rid, req[o].type, req[o].handle))
        /\ pc' = [pc EXCEPT ![o] = "wait"]
     \/ /\ SendFails
        /\ pc' = [pc EXCEPT ![o] = "out"]
        /\ UNCHANGED inbox
  /\ UNCHANGED <<req, table, ida, chan, toolsPid, alive, started, joining,
                 running, result, answered, nextRid, dups>>

\* wait_event_interruptible_timeout(): woken with entry.response != NULL.
Wake(o) ==
  /\ pc[o] = "wait"
  /\ EntryOf(o) # 0 /\ table[EntryOf(o)].resp # NULL
  /\ pc' = [pc EXCEPT ![o] = "out"]
  /\ UNCHANGED <<req, table, ida, inbox, chan, toolsPid, alive, started,
                 joining, running, result, answered, nextRid, dups>>

Timeout(o) ==
  /\ pc[o] = "wait"
  /\ ~AnswerOnTheWay(o)
  /\ pc' = [pc EXCEPT ![o] = "out"]
  /\ UNCHANGED <<req, table, ida, inbox, chan, toolsPid, alive, started,
                 joining, running, result, answered, nextRid, dups>>

\* Mutant: the entry is never hash_del'ed before the stack frame is left.
UnlinkMissing(o) == table

\* out: hash_del() under the write lock; the entry's response is what
\* ipc_msg_send_request() returns.
Unlink(o) == RemoveAt(table, EntryOf(o))

\* Mutant: the cifsd_rpc_ wrappers also call ipc_msg_handle_free() on the
\* pipe's id.
ReleaseHandleAlways(o) == ida \ {req[o].handle}

\* ipc_msg_handle_free() in the wrappers that took an ida id.
ReleaseHandle(o) == IF req[o].owned THEN ida \ {req[o].handle} ELSE ida

\* Return of ipc_msg_send_request() and of its wrapper, for a Caller.
Complete(c) ==
  /\ pc[c] = "out"
  /\ LET resp == table[EntryOf(c)].resp IN
       result' = [result EXCEPT ![c] = resp]
  /\ table' = Unlink(c)
  /\ ida' = ReleaseHandle(c)
  /\ pc' = [pc EXCEPT ![c] = "idle"]
  /\ UNCHANGED <<req, inbox, chan, toolsPid, alive, started, joining, running,
                 answered, nextRid, dups>>

(***************************************************************************)
(* The daemon side (opaque policy): it answers a waited request with       *)
(* type + 1 and the same handle, consumes one-way messages, may answer     *)
(* late, may have a response duplicated, and may die.                      *)
(***************************************************************************)

DaemonReply(d, m) ==
  /\ alive[d] /\ m \in inbox[d]
  /\ m.type \in WaitedTypes \cup {RPC_REQUEST, HEARTBEAT_REQUEST}
  /\ inbox' = [inbox EXCEPT ![d] = @ \ {m}]
  /\ chan' = chan \cup {Msg(m.rid, m.type + 1, m.handle)}
  /\ answered' = answered \cup {<<m.rid, m.handle>>}
  /\ UNCHANGED <<pc, req, table, ida, toolsPid, alive, started, joining,
                 running, result, nextRid, dups>>

DaemonConsume(d, m) ==
  /\ alive[d] /\ m \in inbox[d]
  /\ m.type \in OneWayTypes
  /\ inbox' = [inbox EXCEPT ![d] = @ \ {m}]
  /\ UNCHANGED <<pc, req, table, ida, chan, toolsPid, alive, started, joining,
                 running, result, answered, nextRid, dups>>

DuplicateResponse(m) ==
  /\ m \in chan /\ ~m.dup /\ dups < MaxDup
  /\ chan' = chan \cup {[m EXCEPT !.dup = TRUE]}
  /\ dups' = dups + 1
  /\ UNCHANGED <<pc, req, table, ida, inbox, toolsPid, alive, started, joining,
                 running, result, answered, nextRid>>

\* The process exits: its portid disappears with the undelivered messages.
DaemonDies(d) ==
  /\ alive[d]
  /\ alive' = [alive EXCEPT ![d] = FALSE]
  /\ inbox' = [inbox EXCEPT ![d] = {}]
  /\ UNCHANGED <<pc, req, table, ida, chan, toolsPid, started, joining,
                 running, result, answered, nextRid, dups>>

(***************************************************************************)
(* The netlink reception context                                           *)
(***************************************************************************)

\* handle_generic_event() -> handle_response(): the first entry with the
\* handle gets response = NULL, then a fresh copy of the payload, unless
\* cifsd_alloc() fails.  A type other than entry->type + 1 is only logged.
Receive(m) ==
  /\ pc[NL] = "idle" /\ m \in chan
  /\ chan' = chan \ {m}
  /\ LET i == FirstWithHandle(m.handle) IN
       IF i = 0
       THEN UNCHANGED table
       ELSE \/ table' = [table EXCEPT ![i].resp = m]
            \/ AllocCanFail /\ table' = [table EXCEPT ![i].resp = NULL]
  /\ UNCHANGED <<pc, req, ida, inbox, toolsPid, alive, started, joining,
                 running, result, answered, nextRid, dups>>

\* handle_startup_event().  With no daemon registered the startup request
\* configures the server (cifsd_set_netbios_name() etc. may fail with
\* ENOMEM, then -EINVAL) and registers the sender.  With a daemon
\* registered, NL itself calls cifsd_ipc_heartbeat_request() and blocks
\* in ipc_msg_send_request(); ipc_msg_alloc() failing or an exhausted ida
\* mean a NULL beat at once.
Startup(d) ==
  /\ pc[NL] = "idle" /\ alive[d] /\ d \notin started
  /\ started' = started \cup {d}
  /\ \/ /\ toolsPid = NoPid \/ AllocCanFail \/ Handles \ ida = {}
        /\ \/ toolsPid' = d /\ running' = TRUE
           \/ toolsPid = NoPid /\ AllocCanFail /\ UNCHANGED <<toolsPid, running>>
        /\ UNCHANGED <<pc, req, table, ida, joining, nextRid>>
     \/ toolsPid # NoPid /\ \E h \in Handles \ ida :
          /\ nextRid <= MaxRequests
          /\ nextRid' = nextRid + 1
          /\ ida' = ida \cup {h}
          /\ req' = [req EXCEPT ![NL] = [rid |-> nextRid,
                       type |-> HEARTBEAT_REQUEST, handle |-> h,
                       owned |-> TRUE]]
          /\ table' = Cons([owner |-> NL, handle |-> h,
                            type |-> HEARTBEAT_REQUEST, rid |-> nextRid,
                            resp |-> NULL], table)
          /\ pc' = [pc EXCEPT ![NL] = "send"]
          /\ joining' = d
          /\ UNCHANGED <<toolsPid, running>>
  /\ UNCHANGED <<inbox, chan, alive, result, answered, dups>>

\* The heartbeat returns: a beat means the incumbent is alive and the new
\* daemon is refused (-EINVAL); NULL means "Reconnect to a new user space
\* daemon": cifsd_tools_pid takes the sender's portid.
StartupDone ==
  /\ pc[NL] = "out"
  /\ LET beat == table[EntryOf(NL)].resp IN
       /\ result' = [result EXCEPT ![NL] = beat]
       /\ IF beat = NULL
          THEN toolsPid' = joining /\ running' = TRUE
          ELSE UNCHANGED <<toolsPid, running>>
  /\ table' = Unlink(NL)
  /\ ida' = ReleaseHandle(NL)
  /\ pc' = [pc EXCEPT ![NL] = "idle"]
  /\ UNCHANGED <<req, inbox, chan, alive, started, joining, answered, nextRid,
                 dups>>

(***************************************************************************)
(* Specification                                                           *)
(***************************************************************************)

NoReq == [rid |-> 0, type |-> 0, handle |-> -1, owned |-> FALSE]

\* After cifsd_ipc_init(): empty table, the ida holding the ids of the
\* pipes that are open, no daemon registered yet.
Init ==
  /\ pc = [o \in Owners |-> "idle"]
  /\ req = [o \in Owners |-> NoReq]
  /\ table = <<>>
  /\ ida = PipeHandles
  /\ inbox = [d \in Daemons |-> {}]
  /\ chan = {}
  /\ toolsPid = NoPid
  /\ alive = [d \in Daemons |-> TRUE]
  /\ started = {}
  /\ joining = NoPid
  /\ running = FALSE
  /\ result = [o \in Owners |-> NULL]
  /\ answered = {}
  /\ nextRid = 1
  /\ dups = 0

Next ==
  \/ \E c \in Callers, t \in WaitedTypes : StartRequest(c, t)
  \/ \E c \in Callers, p \in PipeHandles : StartRpc(c, p)
  \/ \E c \in Callers, t \in OneWayTypes : SendOneWay(c, t)
  \/ \E o \in Owners : Send(o) \/ Wake(o) \/ Timeout(o)
  \/ \E c \in Callers : Complete(c)
  \/ StartupDone
  \/ \E d \in Daemons : \E m \in inbox[d] : DaemonReply(d, m) \/ DaemonConsume(d, m)
  \/ \E m \in chan : DuplicateResponse(m) \/ Receive(m)
  \/ \E d \in Daemons : DaemonDies(d) \/ Startup(d)

\* Kernel threads are scheduled, the wait timer fires, the genetlink
\* mutex is released and a Responsive daemon handles what it receives.
Fairness ==
  /\ \A o \in Owners : WF_vars(Send(o)) /\ WF_vars(Wake(o)) /\ WF_vars(Timeout(o))
  /\ \A c \in Callers : WF_vars(Complete(c))
  /\ WF_vars(StartupDone)
  /\ WF_vars(\E m \in chan : Receive(m))
  /\ \A d \in Responsive : WF_vars(\E m \in inbox[d] : DaemonReply(d, m))

Spec == Init /\ [][Next]_vars /\ Fairness

(***************************************************************************)
(* Properties                                                              *)
(***************************************************************************)

\* Every variable stays in its domain; in particular only ids the ida or an
\* open pipe hands out are ever hash_add'ed (ipc_msg_send_request rejects a
\* negative cifds_acquire_id result).
TypeOK ==
  /\ pc \in [Owners -> {"idle", "send", "wait", "out"}]
  /\ \A i \in DOMAIN table : table[i].owner \in Owners
                             /\ table[i].handle \in Handles \cup PipeHandles
  /\ ida \subseteq Handles \cup PipeHandles
  /\ toolsPid \in Daemons \cup {NoPid}
  /\ alive \in [Daemons -> BOOLEAN]
  /\ started \subseteq Daemons
  /\ \A o \in Owners : result[o] = NULL \/ result[o].rid \in 1..MaxRequests + 1
  /\ nextRid \in 1..MaxRequests + 2
  /\ dups \in 0..MaxDup

\* The correlation entry lives on the waiter's stack (ipc_msg_send_request):
\* every entry handle_response() can reach belongs to an owner that is
\* still inside ipc_msg_send_request() for that very request, and each owner
\* has at most one entry.  Otherwise the response is written into a dead
\* stack frame.
EntriesOnLiveStacks ==
  \A i \in DOMAIN table :
    /\ pc[table[i].owner] # "idle"
    /\ req[table[i].owner].rid = table[i].rid
    /\ \A j \in DOMAIN table : j # i => table[j].owner # table[i].owner

\* Every id a request is using, and every id an open pipe holds, is
\* allocated in the ida: the ida can never hand it to a second request
\* while the first one may still be answered.
InUseHandlesAllocated ==
  /\ PipeHandles \subseteq ida
  /\ \A i \in DOMAIN table : table[i].handle \in ida

NoCrossTalk ==
  \A o \in Owners : pc[o] = "idle" /\ result[o] # NULL => result[o].rid = req[o].rid

\* If the registered daemon answers heartbeats in time, a new STARTING_UP
\* does not replace it (spec 4.C, daemon identity).
IncumbentKept ==
  [][(toolsPid \in Responsive /\ alive[toolsPid]) => toolsPid' = toolsPid]_vars

(***************************************************************************)
(* Refinement: IpcBridge implements IpcCalls.  An owner is inside a call   *)
(* from the moment its entry is built until it is idle again; a returned   *)
(* response is seen as its <<rid, handle>>.                                *)
(***************************************************************************)

NotInCall == -2

Returned(o) == IF result[o] = NULL THEN NULL
               ELSE <<result[o].rid, result[o].handle>>

Calls == INSTANCE IpcCalls WITH
           Ids <- Handles \cup PipeHandles,
           Rids <- 1..MaxRequests + 1,
           None <- NotInCall,
           hold <- [o \in Owners |-> IF pc[o] = "idle" THEN NotInCall
                                     ELSE req[o].handle],
           ret <- [o \in Owners |-> Returned(o)],
           sent <- answered

\* Every call into ipc_msg_send_request() returns (the wait is bounded by
\* IPC_WAIT_TIMEOUT) with NULL or with a response that handle_response()
\* matched to the call's own handle, and only responses a daemon really
\* sent are returned.
CallsRefined == Calls!Spec

================================================================================
