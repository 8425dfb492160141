------------------------------ MODULE ShareAccess ------------------------------
(***************************************************************************)
(* Tree-connect access checks of export.c: get_cifsd_share() finds the     *)
(* share, validate_host() checks the peer against "allow hosts" and "deny  *)
(* hosts", validate_user() checks the account against "invalid users",     *)
(* "read list", "write list" and "valid users".  Every list check is a     *)
(* conflist_search() over the share's config string, which the search      *)
(* edits in place: it writes '\0' over the delimiter after the token it    *)
(* compares and puts the delimiter back only when the token differs.       *)
(* Connection threads run these checks concurrently and without a lock.    *)
(*                                                                         *)
(* A config string is a sequence of tokens (host addresses or account      *)
(* names, as model values); a name of a single character is in Short.     *)
(* cut[s][l] is the set of token positions whose following delimiter is    *)
(* currently '\0'.  One iteration of the conflist_search() loop is one     *)
(* step; the strpbrk() scan inside it is taken as atomic, which is sound   *)
(* because the only concurrent writes are to delimiter bytes.              *)
(***************************************************************************)
EXTENDS Integers, Sequences, SequencesExt, FiniteSets

CONSTANTS
  Threads,      \* connection threads handling TREE_CONNECT
  Shares,       \* entries of cifsd_share_list
  Short,        \* names one character long
  Peer,         \* Peer[t]: conn->peeraddr of thread t
  Account,      \* Account[t]: user_name(sess->user) of thread t
  Conf,         \* Conf[s][l]: tokens of list l of share s, or NoList
  Writeable,    \* Writeable[s]: share->writeable == 1
  GuestOk,      \* GuestOk[s]: get_attr_guestok(&share->config.attr)
  IsIPC,        \* IsIPC[s]: share->path == NULL (the IPC$ share)
  MaxConnects,  \* bound: tree connects per thread
  Serial,       \* TRUE: only behaviours where tree connects do not overlap
  NoList        \* the config pointer is NULL

\* Lists in the order validate_host() and validate_user() consult them.
Lists == {"allow", "deny", "invalid", "read", "write", "valid"}
HostLists == {"allow", "deny"}

ASSUME MaxConnects \in Nat /\ Serial \in BOOLEAN

VARIABLES
  pc,        \* pc[t]: "idle" or the list whose check thread t is in
  share,     \* share[t]: the share thread t is connecting to
  ph,        \* ph[t]: "scan" (top of the loop) or "cmp" ('\0' written)
  pos,       \* pos[t]: index of the token at begin
  cut,       \* cut[s][l]: token positions followed by '\0' instead of ','
  canWrite,  \* canWrite[t]: the *can_write output of validate_user()
  out,       \* out[t]: "none", "admit" or "refuse" for t's last connect
  connects   \* connects[t]: tree connects thread t has started

vars == <<pc, share, ph, pos, cut, canWrite, out, connects>>

List(t) == Conf[share[t]][pc[t]]
Token(t) == List(t)[pos[t]]
Key(t) == IF pc[t] \in HostLists THEN Peer[t] ELSE Account[t]

\* What smb.conf says list l of share s contains.
Members(s, l) == IF Conf[s][l] = NoList THEN {} ELSE ToSet(Conf[s][l])

\* strpbrk() from the token at i stops at the first '\0' at or after it:
\* the index of the last token it can see.
EndFrom(s, l, i) == Min({j \in cut[s][l] : j >= i} \cup {Len(Conf[s][l])})

(***************************************************************************)
(* Control flow of validate_host() and validate_user()                     *)
(***************************************************************************)

\* Leave the checks with a verdict: get_cifsd_share() returns the share or
\* ERR_PTR(-EACCES).
Stop(t, verdict, cw) ==
  /\ pc' = [pc EXCEPT ![t] = "idle"]
  /\ out' = [out EXCEPT ![t] = verdict]
  /\ canWrite' = [canWrite EXCEPT ![t] = cw]

\* Go on with the check of list l, from the start of the string.
Goto(t, l, cw) ==
  /\ pc' = [pc EXCEPT ![t] = l]
  /\ canWrite' = [canWrite EXCEPT ![t] = cw]
  /\ UNCHANGED out

\* validate_user(): IPC$ and guest-ok shares admit without a list check.
UserStart(t, cw) ==
  IF IsIPC[share[t]] \/ GuestOk[share[t]]
  THEN Stop(t, "admit", cw)
  ELSE Goto(t, "invalid", cw)

\* Mutant: validate_host() without "return -EACCES" when the peer is not in
\* "allow hosts".
RefusesNoAllow(l, r) ==
  \/ l \in {"deny", "invalid"} /\ r = "found"
  \/ l = "valid" /\ r = "missing"

\* The list check of pc[t] ended with r: "absent" (the list pointer is
\* NULL), "found" (conflist_search returned 0) or "missing" (-ENOENT).
Refuses(l, r) ==
  \/ l = "allow" /\ r = "missing"
  \/ l \in {"deny", "invalid"} /\ r = "found"
  \/ l = "valid" /\ r = "missing"

\* Mutant: a "read list" match sets *can_write = true (swapped branches).
AdvanceReadGrants(t, r) ==
  LET l == pc[t]
      cw == canWrite[t]
  IN /\ pos' = [pos EXCEPT ![t] = 1]
     /\ ph' = [ph EXCEPT ![t] = "scan"]
     /\ CASE Refuses(l, r)              -> Stop(t, "refuse", cw)
          [] l = "allow" /\ r = "absent" -> Goto(t, "deny", cw)
          [] l \in HostLists             -> UserStart(t, cw)
          [] l = "invalid"               -> Goto(t, "read", Writeable[share[t]])
          [] l = "read"                  -> Goto(t, "write", cw \/ r = "found")
          [] l = "write"                 -> Goto(t, "valid", cw \/ r = "found")
          [] l = "valid"                 -> Stop(t, "admit", cw)

Advance(t, r) ==
  LET l == pc[t]
      cw == canWrite[t]
  IN /\ pos' = [pos EXCEPT ![t] = 1]
     /\ ph' = [ph EXCEPT ![t] = "scan"]
     /\ CASE Refuses(l, r)              -> Stop(t, "refuse", cw)
          [] l = "allow" /\ r = "absent" -> Goto(t, "deny", cw)
          [] l \in HostLists             -> UserStart(t, cw)
          [] l = "invalid"               -> Goto(t, "read", Writeable[share[t]])
          [] l = "read"                  -> Goto(t, "write", cw /\ r # "found")
          [] l = "write"                 -> Goto(t, "valid", cw \/ r = "found")
          [] l = "valid"                 -> Stop(t, "admit", cw)

(***************************************************************************)
(* Actions                                                                 *)
(***************************************************************************)

\* get_cifsd_share(): the share of that name is found; validate_host()
\* starts.  The caller's can_write starts false.
TreeConnect(t, s) ==
  /\ pc[t] = "idle" /\ connects[t] < MaxConnects
  /\ Serial => \A u \in Threads : pc[u] = "idle"
  /\ connects' = [connects EXCEPT ![t] = @ + 1]
  /\ share' = [share EXCEPT ![t] = s]
  /\ pc' = [pc EXCEPT ![t] = "allow"]
  /\ canWrite' = [canWrite EXCEPT ![t] = FALSE]
  /\ out' = [out EXCEPT ![t] = "none"]
  /\ UNCHANGED <<ph, pos, cut>>

\* A list the share does not have: "if (list && ...)" is false, or
\* "if (!vlist) return 0", or "if (!allow_list && !deny_list) return 0".
SkipAbsent(t) ==
  /\ pc[t] \in Lists /\ List(t) = NoList
  /\ Advance(t, "absent")
  /\ UNCHANGED <<share, cut, connects>>

\* Mutant: a one-character last token is stepped over as if a delimiter
\* followed it (the loop condition off by one).
ScanPastEnd(t) ==
  LET s == share[t]
      l == pc[t]
      i == pos[t]
  IN
  /\ pc[t] \in Lists /\ List(t) # NoList /\ ph[t] = "scan"
  /\ \/ /\ i <= EndFrom(s, l, i) /\ Token(t) \in Short
        /\ pos' = [pos EXCEPT ![t] = i + 1]
        /\ UNCHANGED <<pc, ph, cut, canWrite, out>>
     \/ /\ i < EndFrom(s, l, i) /\ Token(t) \notin Short
        /\ cut' = [cut EXCEPT ![s][l] = @ \cup {i}]
        /\ ph' = [ph EXCEPT ![t] = "cmp"]
        /\ UNCHANGED <<pc, pos, canWrite, out>>
     \/ /\ i = EndFrom(s, l, i) /\ Token(t) \notin Short
        /\ Advance(t, IF i = EndFrom(s, l, 1) /\ Token(t) = Key(t)
                      THEN "found" ELSE "missing")
        /\ UNCHANGED cut
  /\ UNCHANGED <<share, connects>>

\* Top of the conflist_search() loop with begin at token pos[t].  While
\* strpbrk() finds a delimiter, a one-character token is stepped over
\* (end - begin < 2); a longer one gets '\0' written over its delimiter.
\* Without a delimiter, the rest is the last token: strim_conflist_entry()
\* against list + strlen(list) - 1, which refuses a one-character token
\* and any token past the first '\0' of the string, then strcmp().
Scan(t) ==
  LET s == share[t]
      l == pc[t]
      i == pos[t]
  IN
  /\ pc[t] \in Lists /\ List(t) # NoList /\ ph[t] = "scan"
  /\ \/ /\ i < EndFrom(s, l, i) /\ Token(t) \in Short
        /\ pos' = [pos EXCEPT ![t] = i + 1]
        /\ UNCHANGED <<pc, ph, cut, canWrite, out>>
     \/ /\ i < EndFrom(s, l, i) /\ Token(t) \notin Short
        /\ cut' = [cut EXCEPT ![s][l] = @ \cup {i}]
        /\ ph' = [ph EXCEPT ![t] = "cmp"]
        /\ UNCHANGED <<pc, pos, canWrite, out>>
     \/ /\ i = EndFrom(s, l, i)
        /\ Advance(t, IF /\ i = EndFrom(s, l, 1)
                         /\ Token(t) \notin Short
                         /\ Token(t) = Key(t)
                      THEN "found" ELSE "missing")
        /\ UNCHANGED cut
  /\ UNCHANGED <<share, connects>>

\* Mutant: after a mismatch the delimiter is restored but begin is left on
\* the token (begin = end + 1 dropped).
CmpNoAdvance(t) ==
  LET s == share[t]
      l == pc[t]
  IN
  /\ pc[t] \in Lists /\ ph[t] = "cmp"
  /\ \/ /\ Token(t) = Key(t)
        /\ Advance(t, "found")
        /\ UNCHANGED cut
     \/ /\ Token(t) # Key(t)
        /\ cut' = [cut EXCEPT ![s][l] = @ \ {pos[t]}]
        /\ ph' = [ph EXCEPT ![t] = "scan"]
        /\ UNCHANGED <<pc, pos, canWrite, out>>
  /\ UNCHANGED <<share, connects>>

\* strcmp() of the '\0'-terminated token: a match returns 0 at once and
\* leaves the '\0' in the config string; otherwise *end = e restores the
\* delimiter and the loop goes on after it.
Cmp(t) ==
  LET s == share[t]
      l == pc[t]
  IN
  /\ pc[t] \in Lists /\ ph[t] = "cmp"
  /\ \/ /\ Token(t) = Key(t)
        /\ Advance(t, "found")
        /\ UNCHANGED cut
     \/ /\ Token(t) # Key(t)
        /\ cut' = [cut EXCEPT ![s][l] = @ \ {pos[t]}]
        /\ pos' = [pos EXCEPT ![t] = @ + 1]
        /\ ph' = [ph EXCEPT ![t] = "scan"]
        /\ UNCHANGED <<pc, canWrite, out>>
  /\ UNCHANGED <<share, connects>>

(***************************************************************************)
(* Specification                                                           *)
(***************************************************************************)

\* Config strings as cifsd_parse_share_options() stored them.
Init ==
  /\ pc = [t \in Threads |-> "idle"]
  /\ share = [t \in Threads |-> CHOOSE s \in Shares : TRUE]
  /\ ph = [t \in Threads |-> "scan"]
  /\ pos = [t \in Threads |-> 1]
  /\ cut = [s \in Shares |-> [l \in Lists |-> {}]]
  /\ canWrite = [t \in Threads |-> FALSE]
  /\ out = [t \in Threads |-> "none"]
  /\ connects = [t \in Threads |-> 0]

Next ==
  \/ \E t \in Threads, s \in Shares : TreeConnect(t, s)
  \/ \E t \in Threads : SkipAbsent(t) \/ Scan(t) \/ Cmp(t)

\* Each thread runs its checks to the end once it has started them.
Spec == Init /\ [][Next]_vars /\ \A t \in Threads : WF_vars(SkipAbsent(t) \/ Scan(t) \/ Cmp(t))

(***************************************************************************)
(* Properties                                                              *)
(***************************************************************************)

\* Thread t's last tree connect is over and was admitted.
Admitted(t) == pc[t] = "idle" /\ out[t] = "admit"

\* Every variable stays in its domain; a search never steps past the last
\* token of the string it searches.
TypeOK ==
  /\ pc \in [Threads -> {"idle"} \cup Lists]
  /\ share \in [Threads -> Shares]
  /\ ph \in [Threads -> {"scan", "cmp"}]
  /\ \A t \in Threads : pc[t] \in Lists /\ List(t) # NoList => pos[t] \in 1..Len(List(t))
  /\ \A s \in Shares, l \in Lists :
       cut[s][l] \subseteq IF Conf[s][l] = NoList THEN {} ELSE DOMAIN Conf[s][l]
  /\ canWrite \in [Threads -> BOOLEAN]
  /\ out \in [Threads -> {"none", "admit", "refuse"}]
  /\ connects \in [Threads -> 0..MaxConnects]

\* Lists that admit ("allow hosts", "valid users") fail closed: whatever
\* conflist_search() has done to the config strings, concurrently or in
\* earlier calls, get_cifsd_share() admits only a peer the share's "allow
\* hosts" names and, on a share that checks users, only an account its
\* "valid users" names.
NoAdmitOutsideLists ==
  \A t \in Threads :
    LET s == share[t] IN
    Admitted(t) =>
      /\ Conf[s]["allow"] # NoList => Peer[t] \in Members(s, "allow")
      /\ (~IsIPC[s] /\ ~GuestOk[s] /\ Conf[s]["valid"] # NoList)
            => Account[t] \in Members(s, "valid")

\* validate_user() grants write access only on a writeable share or to an
\* account the share's "write list" names.
NoWriteBeyondConfig ==
  \A t \in Threads :
    Admitted(t) /\ canWrite[t] =>
      Writeable[share[t]] \/ Account[t] \in Members(share[t], "write")

\* Every tree connect gets its verdict: the conflist_search() loops of
\* validate_host() and validate_user() end although other threads keep
\* writing '\0' into, and restoring, the strings they scan.
ConnectsReturn == \A t \in Threads : pc[t] # "idle" ~> pc[t] = "idle"

\* A peer named in "deny hosts" (with no "allow hosts") is refused.
DeniedHostsRefused ==
  \A t \in Threads :
    LET s == share[t] IN
    Admitted(t) /\ Conf[s]["allow"] = NoList /\ Conf[s]["deny"] # NoList
      => Peer[t] \notin Members(s, "deny")

================================================================================
