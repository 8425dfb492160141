----------------------------- MODULE MC_IpcBridge -----------------------------
(* Instantiates IpcBridge for TLC.  One ida id, so that ids are exhausted *)
(* and reused, and one open RPC pipe.  The sets of threads and daemons    *)
(* are chosen per run in the .cfg files.                                   *)
EXTENDS IpcBridge, TLC

CONSTANTS c1, c2, d1, d2

MCHandles     == {1}
MCPipeHandles == {7}
MCWaitedTypes == {LOGIN_REQUEST, TREE_CONNECT_REQUEST}
MCOneWayTypes == {LOGOUT_REQUEST}
MCOneType     == {LOGIN_REQUEST}
MCNoOneWay    == {}
================================================================================
