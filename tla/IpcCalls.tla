------------------------------- MODULE IpcCalls -------------------------------
(***************************************************************************)
(* What the IPC layer of transport_ipc.c promises to the code that calls   *)
(* it (the cifsd_ipc_ and cifsd_rpc_ wrappers and handle_startup_event):   *)
(* a call is made on an id, and it returns, always, either with nothing    *)
(* (NULL) or with a response the daemon sent for that same id.  Nothing    *)
(* more: the layer correlates by id only, so the response is not promised *)
(* to answer this very request (see NoCrossTalk in IpcBridge).  IpcBridge  *)
(* is shown to implement this specification by CallsRefined.               *)
(***************************************************************************)
CONSTANTS
  Owners,   \* the threads that call into the IPC layer
  Ids,      \* the ids a call may be made on
  Rids,     \* request identities
  NULL,     \* the call returned no response
  None      \* the owner is not inside a call

VARIABLES
  hold,     \* hold[o]: the id of the call o is inside, or None
  ret,      \* ret[o]: what o's last call returned: <<rid, id>> or NULL
  sent      \* <<rid, id>> of every response the daemon has sent

vars == <<hold, ret, sent>>

Init ==
  /\ hold = [o \in Owners |-> None]
  /\ ret = [o \in Owners |-> NULL]
  /\ sent = {}

\* A call is made on an id.
Call(o) ==
  /\ hold[o] = None
  /\ \E i \in Ids : hold' = [hold EXCEPT ![o] = i]
  /\ UNCHANGED <<ret, sent>>

\* A call that fails before anything is sent returns NULL at once.
Refuse(o) ==
  /\ hold[o] = None
  /\ ret' = [ret EXCEPT ![o] = NULL]
  /\ UNCHANGED <<hold, sent>>

\* The daemon sends a response carrying an id.
Answer ==
  /\ \E r \in Rids, i \in Ids : sent' = sent \cup {<<r, i>>}
  /\ UNCHANGED <<hold, ret>>

\* The call returns NULL or one of the responses sent for its id.
Return(o) ==
  /\ hold[o] # None
  /\ \E v \in {NULL} \cup {s \in sent : s[2] = hold[o]} :
       ret' = [ret EXCEPT ![o] = v]
  /\ hold' = [hold EXCEPT ![o] = None]
  /\ UNCHANGED sent

Next == Answer \/ \E o \in Owners : Call(o) \/ Refuse(o) \/ Return(o)

\* Every call returns.
Spec == Init /\ [][Next]_vars /\ \A o \in Owners : WF_vars(Return(o))
================================================================================
