------------------------------ MODULE ShareRewrite ------------------------------
(***************************************************************************)
(* The share configuration writer and the tree-connect threads together.  *)
(* A config write that names a listed share again (check_share() returns  *)
(* it) and sets one of its host or user lists runs cifsd_get_config_str(), *)
(* which kfree's the old string and stores a fresh copy, with no lock      *)
(* against connection threads that are inside conflist_search() on the     *)
(* old string.  The writer's step is taken as atomic; the fresh copy has   *)
(* the same text and no '\0' cuts.  stale holds the threads whose current *)
(* list check runs on a string that was freed under them.                 *)
(***************************************************************************)
EXTENDS ShareAccess

CONSTANTS
  MaxRewrites   \* bound: list options written to listed shares

ASSUME MaxRewrites \in Nat

VARIABLES
  rewrites,  \* list options written so far
  stale      \* <<t, l>>: thread t still holds the kfree'd string of list l

allVars == <<vars, rewrites, stale>>

\* validate_host() loads allow_hosts and deny_hosts on entry and
\* validate_user() its four list pointers; each then checks its lists in
\* this order.
Order == [allow |-> 1, deny |-> 2, invalid |-> 1, read |-> 2, write |-> 3,
          valid |-> 4]

\* A thread at check p has loaded, and may still search, the pointer of
\* list l.
Holds(p, l) == /\ p \in Lists
               /\ (p \in HostLists) = (l \in HostLists)
               /\ Order[p] <= Order[l]

\* Opt_allowhost/hosts allow, Opt_denyhost/hosts deny, Opt_validusers,
\* Opt_invalidusers (and the read and write lists) on a listed share:
\* cifsd_get_config_str() kfree's *config, then *config = match_strdup().
Rewrite(s, l) ==
  /\ rewrites < MaxRewrites /\ Conf[s][l] # NoList
  /\ rewrites' = rewrites + 1
  /\ cut' = [cut EXCEPT ![s][l] = {}]
  /\ stale' = stale \cup {<<t, l>> : t \in {u \in Threads : share[u] = s
                                                /\ Holds(pc[u], l)}}
  /\ UNCHANGED <<pc, share, ph, pos, canWrite, out, connects>>

\* A thread step of ShareAccess; a thread drops a pointer when it leaves
\* the function that loaded it.
ThreadStep ==
  /\ Next
  /\ stale' = {x \in stale : Holds(pc'[x[1]], x[2])}
  /\ UNCHANGED rewrites

InitRW == Init /\ rewrites = 0 /\ stale = {}

NextRW == ThreadStep \/ \E s \in Shares, l \in Lists : Rewrite(s, l)

SpecRW == InitRW /\ [][NextRW]_allVars

\* No connection thread searches a config string after it was kfree'd: a
\* config write to a listed share does not free a list under the
\* conflist_search() of a concurrent tree connect.
NoSearchOfFreedString == \A x \in stale : pc[x[1]] # x[2]

================================================================================
