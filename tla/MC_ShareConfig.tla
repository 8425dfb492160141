---------------------------- MODULE MC_ShareConfig ----------------------------
(* Instantiates ShareConfig for TLC: IPC$ and two other share names.       *)
EXTENDS ShareConfig, TLC

CONSTANTS ipc, n1, n2, u1, u2
================================================================================
