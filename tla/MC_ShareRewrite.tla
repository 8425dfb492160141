---------------------------- MODULE MC_ShareRewrite ----------------------------
(* Instantiates ShareRewrite for TLC with the shares of MC_ShareAccess.     *)
EXTENDS ShareRewrite, TLC

CONSTANTS t1, t2, s1, s2, s3, h1, h2, h3, u1, u2, a

NoLists == [l \in Lists |-> NoList]
MCShort   == {a}
MCPeer    == (t1 :> h1) @@ (t2 :> h2)
MCAccount == (t1 :> u1) @@ (t2 :> u2)
\* "valid users = u1, u2" on a share that checks users.
ConfValid == (s1 :> [NoLists EXCEPT !["valid"] = <<u1, u2>>])
OneShareFalse == (s1 :> FALSE)
================================================================================
