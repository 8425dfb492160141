---------------------------- MODULE MC_ShareAccess ----------------------------
(* Instantiates ShareAccess for TLC.  Hosts h1..h3 and accounts u1, u2 are *)
(* names of several characters; account a is one character long.  The     *)
(* share configurations below are picked per run in the .cfg files.       *)
EXTENDS ShareAccess, TLC

CONSTANTS t1, t2, t3, s1, s2, s3, h1, h2, h3, u1, u2, a

NoLists == [l \in Lists |-> NoList]

MCShort   == {a}
MCPeer    == (t1 :> h1) @@ (t2 :> h2) @@ (t3 :> h3)
MCAccount == (t1 :> u1) @@ (t2 :> u2) @@ (t3 :> a)

\* s1 admits by host and has read and write lists, s2 denies by host and
\* checks invalid and valid users, s3 is IPC$.
ConfMixed ==
  (s1 :> [NoLists EXCEPT !["allow"] = <<h1, h3>>, !["read"] = <<a, u1, u2>>,
                         !["write"] = <<u2>>]) @@
  (s2 :> [NoLists EXCEPT !["deny"] = <<h3, h2>>, !["invalid"] = <<u2, a>>,
                         !["valid"] = <<a, u1>>]) @@
  (s3 :> NoLists)
WriteableMixed == (s1 :> FALSE) @@ (s2 :> TRUE) @@ (s3 :> FALSE)
GuestOkNone    == (s1 :> FALSE) @@ (s2 :> FALSE) @@ (s3 :> FALSE)
IsIPCMixed     == (s1 :> FALSE) @@ (s2 :> FALSE) @@ (s3 :> TRUE)

\* A share that denies both peers: "deny hosts = h1, h2".
ConfDenyBoth == (s1 :> [NoLists EXCEPT !["deny"] = <<h1, h2>>])
OneShareFalse == (s1 :> FALSE)
================================================================================
