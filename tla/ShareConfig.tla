------------------------------ MODULE ShareConfig ------------------------------
(***************************************************************************)
(* Share configuration of export.c: each write to the config sysfs file    *)
(* runs cifsd_parse_share_options() over a '<'-separated list of options.  *)
(* A "share name" option selects the share to configure (check_share()     *)
(* returns the listed share of that name or allocates a new one and sets  *)
(* new_share), "path" adds a new share to cifsd_share_list (__add_share()),*)
(* and an error jumps to config_err, which calls cleanup_bad_share() on    *)
(* the current share when new_share is set.                                *)
(*                                                                         *)
(* One option is one step.  Option values are abstracted to what the      *)
(* parser does with them: a value that parses or not, a path kern_path()   *)
(* resolves or not, a veto string varify_veto_file() accepts or not.       *)
(* Share objects are numbered in allocation order.                         *)
(*                                                                         *)
(* A "global" section runs cifsd_parse_global_options() over the rest of  *)
(* the write; its "guest account" option adds a user to the same user     *)
(* list that writes to the user sysfs file (cifsd_user_store) fill.  Each *)
(* user write is one step: its only shared effect is um_add_new_user(),   *)
(* which runs under the user list's own lock.  The strings these paths    *)
(* allocate are numbered too, and heap holds the ones not yet kfree'd.    *)
(***************************************************************************)
EXTENDS Integers, Sequences, SequencesExt, FiniteSets, VetoFiles

CONSTANTS
  Names,       \* share names in config writes (compared case-insensitively)
  IPC,         \* "IPC$", the share cifsd_export_init() adds with no path
  MaxStores,   \* bound: config writes
  MaxOptions,  \* bound: options per config write
  Logins,      \* user names in user writes and in "guest account"
  MaxUserStores, \* bound: writes to the user, user-delete, debug and
                 \* caseless sysfs files
  MaxStrs,     \* bound: strings allocated by global options and user writes
  AllocCanFail, \* kmalloc/kstrdup/match_strdup may return NULL
  NULL

ASSUME /\ IPC \in Names /\ MaxStores \in Nat /\ MaxOptions \in Nat
       /\ MaxUserStores \in Nat /\ MaxStrs \in Nat /\ AllocCanFail \in BOOLEAN

VARIABLES
  lnext,     \* lnext[x]: the list.next pointer of the list head or
             \* of share object x
  lprev,     \* lprev[x]: its list.prev pointer
  num,       \* cifsd_num_shares
  name,      \* name[o]: share->sharename of object o
  freed,     \* objects kfree'd
  nobjs,     \* objects allocated so far (1..nobjs)
  pc,        \* config writer: "idle", "parse", "global", "oops" (a fault in
             \* the writer), "hung" (a walk that never ends), "exited" or
             \* "exit_oops" (cifsd_export_exit ran, or faulted)
  share,     \* the parser's local share pointer, or NULL
  newShare,  \* the parser's local new_share flag
  left,      \* options left in this config write
  stores,    \* config writes so far
  before,    \* ghost: objects listed when this config write started
  users,     \* the user list: [login, name, pass, guest] records
  heap,      \* strings of the global options and users that are allocated
  nstrs,     \* strings allocated so far (1..nstrs)
  guestName, \* guestAccountName
  server,    \* server_string (stands for workgroup and netbios_name too)
  ustores,   \* writes to the user, user-delete, debug and caseless files
  uoops,     \* a user write dereferenced NULL
  debug,     \* cifsd_debug_enable
  caseless   \* cifsd_caseless_search

links == <<lnext, lprev>>

\* cifsd_export_exit() has run.
Exiting == pc \in {"exited", "exit_oops"}

strs == <<users, heap, nstrs, guestName, server, ustores, uoops, debug,
          caseless>>

vars == <<links, num, name, freed, nobjs, pc, share, newShare, left,
          stores, before, strs>>

MaxObjs == 1 + MaxStores * MaxOptions
Objs == 1..MaxObjs

\* &cifsd_share_list, the list head; the poison values list_del() leaves in
\* an entry (addresses that are no share).
ListHead == 0
POISON1 == -1
POISON2 == -2
Nodes == {ListHead} \cup Objs

\* Bound on the steps of a walk: more than twice round every entry and it
\* is going round a cycle that misses the head.
Steps == 2 * MaxObjs + 2

RECURSIVE Chain(_, _)
\* The entries a walk from x visits, up to the head, a pointer that is not
\* an entry, or the first entry it would visit a second time.
Chain(x, seen) ==
  IF x \in Objs \ seen THEN <<x>> \o Chain(lnext[x], seen \cup {x}) ELSE <<>>

\* The shares on cifsd_share_list, in the order a walk visits them.
list == Chain(lnext[ListHead], {})
Listed == ToSet(list)

\* A walk of cifsd_share_list gets back to the head.
WalkEnds == lnext[IF list = <<>> THEN ListHead ELSE Last(list)] = ListHead

(***************************************************************************)
(* Helpers                                                                 *)
(***************************************************************************)

\* The list state a walk that unlinks entries works on: the pointers, the
\* shares kfree'd in the walk, the number of list_del()s, and how it ended.
ListState == [nx |-> lnext, pv |-> lprev, fr |-> freed, dn |-> 0, st |-> "run"]

ListDel(c, e) ==
  [c EXCEPT !.pv = [@ EXCEPT ![c.nx[e]] = c.pv[e], ![e] = POISON2],
            !.nx = [@ EXCEPT ![c.pv[e]] = c.nx[e], ![e] = POISON1],
            !.dn = @ + 1]

RECURSIVE ListForEachSafe(_, _, _, _, _)
\* list_for_each_safe() from tmp, reading t = tmp->next before the body; the
\* body list_del()s every entry of dels, and kfree's it too when frees.  It
\* ends "done" at the head, "oops" on dereferencing a poisoned pointer or a
\* freed share, "hung" going round a cycle that misses the head.
ListForEachSafe(dels, frees, tmp, c, k) ==
  CASE tmp = ListHead -> [c EXCEPT !.st = "done"]
    [] tmp \notin Objs \/ tmp \in c.fr -> [c EXCEPT !.st = "oops"]
    [] k > Steps -> [c EXCEPT !.st = "hung"]
    [] tmp \notin dels -> ListForEachSafe(dels, frees, c.nx[tmp], c, k + 1)
    [] {c.nx[tmp], c.pv[tmp]} \subseteq Nodes ->
         ListForEachSafe(dels, frees, c.nx[tmp],
           [ListDel(c, tmp) EXCEPT !.fr = IF frees THEN @ \cup {tmp} ELSE @],
           k + 1)
    [] OTHER -> [c EXCEPT !.st = "oops"]

\* Mutant: cifsd_num_shares-- once, whether or not the bad share was ever
\* added.
CleanupCountAlways(r) == num - 1

\* cleanup_bad_share(): one cifsd_num_shares-- per list_del() of the walk r.
CleanupCount(r) == num - r.dn

\* cleanup_bad_share(o): unlink every entry that is o, then free it.
CleanupBadShare(o) == ListForEachSafe({o}, FALSE, lnext[ListHead], ListState, 0)

\* __add_share() once kern_path() and vfs_getattr() succeeded:
\* INIT_LIST_HEAD(&share->list), list_add() after the head (next->prev,
\* new->next, new->prev, head->next, in that order) and cifsd_num_shares++.
\* For a listed share the re-init leaves its old neighbours pointing at it.
AddShare(o) ==
  LET nx == lnext[ListHead] IN
  /\ lprev' = [lprev EXCEPT ![o] = o, ![nx] = o, ![o] = ListHead]
  /\ lnext' = [lnext EXCEPT ![o] = nx, ![ListHead] = o]
  /\ num' = num + 1

\* config_err: return 1, after cleanup_bad_share(share) if new_share is set.
\* A walk that faults or never ends stops the writer there.
ConfigErr ==
  /\ IF newShare /\ share # NULL
     THEN LET r == CleanupBadShare(share) IN
          /\ pc' = IF r.st = "done" THEN "idle" ELSE r.st
          /\ lnext' = r.nx /\ lprev' = r.pv
          /\ num' = CleanupCount(r)
          /\ freed' = IF r.st = "done" THEN freed \cup {share} ELSE freed
     ELSE /\ pc' = "idle"
          /\ UNCHANGED <<links, num, freed>>
  /\ UNCHANGED <<name, nobjs, share, newShare>>

RECURSIVE Find(_, _, _)
\* list_for_each() from x looking for the share named n: "found" with that
\* share, "none" back at the head, "hung" back at an entry it visited,
\* "oops" on a pointer that is not a live share.
Find(n, x, seen) ==
  CASE x = ListHead -> [st |-> "none", at |-> x]
    [] x \notin Objs \/ x \in freed -> [st |-> "oops", at |-> x]
    [] x \in seen -> [st |-> "hung", at |-> x]
    [] name[x] = n -> [st |-> "found", at |-> x]
    [] OTHER -> Find(n, lnext[x], seen \cup {x})

\* Mutant: check_share() that never finds a listed share.
FindListedNone(n) == [st |-> "none", at |-> ListHead]

\* check_share(): the first listed share whose name equals n.
FindListed(n) == Find(n, lnext[ListHead], {})

(***************************************************************************)
(* Actions                                                                 *)
(***************************************************************************)

\* cifsd_config_store() -> cifsd_parse_share_options(): share = NULL,
\* new_share = 0; a failed kstrndup() of the input fails the write at once.
ConfigStore ==
  /\ pc = "idle" /\ stores < MaxStores
  /\ pc' \in IF AllocCanFail THEN {"parse", "idle"} ELSE {"parse"}
  /\ stores' = stores + 1
  /\ share' = NULL /\ newShare' = FALSE /\ left' = MaxOptions
  /\ before' = Listed
  /\ UNCHANGED <<links, num, name, freed, nobjs, strs>>

\* Opt_sharename with a name other than "global": share = check_share();
\* a new share sets new_share, an existing one leaves it as it was.  A
\* failed match_strdup() of the name goes to out_nomem with the current
\* share; a failed kzalloc() in check_share() sets share = NULL first.
ShareName(n) ==
  /\ pc = "parse" /\ left > 0
  /\ left' = left - 1
  /\ \/ /\ FindListed(n).st = "found"
        /\ share' = FindListed(n).at
        /\ UNCHANGED <<links, num, freed, pc, newShare, nobjs, name>>
     \/ /\ FindListed(n).st \in {"oops", "hung"}
        /\ pc' = FindListed(n).st
        /\ UNCHANGED <<links, num, freed, share, newShare, nobjs, name>>
     \/ /\ FindListed(n).st = "none" /\ nobjs < MaxObjs
        /\ nobjs' = nobjs + 1
        /\ name' = [name EXCEPT ![nobjs + 1] = n]
        /\ share' = nobjs + 1
        /\ newShare' = TRUE
        /\ UNCHANGED <<links, num, freed, pc>>
     \/ AllocCanFail /\ ConfigErr
     \/ /\ AllocCanFail /\ FindListed(n).st = "none"
        /\ share' = NULL /\ pc' = "idle"
        /\ UNCHANGED <<links, num, freed, newShare, nobjs, name>>
  /\ UNCHANGED <<stores, before, strs>>

\* Opt_sharename "global" (any name that starts with "global", by the
\* strncmp): cifsd_parse_global_options() runs over the rest of the string.
\* When it was the last option, strsep() has set options to NULL, which
\* the global parser refuses (return 1), and the share parser goes to
\* config_err.
Global ==
  /\ pc = "parse" /\ left > 0
  /\ left' = left - 1
  /\ \/ /\ pc' = "global"
        /\ UNCHANGED <<links, num, freed>>
     \/ ConfigErr
  /\ UNCHANGED <<name, nobjs, share, newShare, stores, before, strs>>

\* Its loop ends: return 0, then options = end ends the share loop too.
GlobalEnd ==
  /\ pc = "global"
  /\ pc' = "idle"
  /\ UNCHANGED <<links, num, name, freed, nobjs, share, newShare, left,
                 stores, before, strs>>

\* Ids of the next j strings allocated.
Fresh(j) == nstrs + 1..nstrs + j

\* Allocations that may be made: all of k, or, when allocation can fail,
\* a first failure after j < k of them.
Made(k) == IF AllocCanFail THEN 0..k ELSE {k}

\* Mutant: the user gets guestAccountName itself instead of a copy.
GuestAccountShared(l) ==
  /\ pc = "global" /\ left > 0 /\ nstrs + 2 <= MaxStrs
  /\ left' = left - 1
  /\ \E j \in Made(1) :
       /\ nstrs' = nstrs + j
       /\ guestName' = IF j = 0 THEN NULL ELSE nstrs + 1
       /\ IF j = 0 \/ \E u \in users : u.login = l
          THEN /\ heap' = heap \ {guestName}
               /\ ConfigErr /\ UNCHANGED users
          ELSE /\ heap' = (heap \ {guestName}) \cup Fresh(1)
               /\ users' = users \cup {[login |-> l, name |-> nstrs + 1,
                                        pass |-> NULL, guest |-> TRUE]}
               /\ UNCHANGED <<pc, links, num, freed>>
  /\ UNCHANGED <<name, nobjs, share, newShare, stores, before, server,
                 ustores, uoops, debug, caseless>>

\* Opt_guest: cifsd_get_config_str() kfree's guestAccountName and stores a
\* match_strdup() copy (out_nomem when it fails), kstrdup() makes the
\* user's own copy (out_nomem), um_add_new_user(user_name, NULL, 9999)
\* fails for an existing login, which kfree's user_name and goes to
\* config_err; otherwise um_user_search() finds the user and
\* set_user_guest() marks it.  Every failure returns 1, and the share
\* parser goes to config_err.
GuestAccount(l) ==
  /\ pc = "global" /\ left > 0 /\ nstrs + 2 <= MaxStrs
  /\ left' = left - 1
  /\ \E j \in Made(2) :
       /\ nstrs' = nstrs + j
       /\ guestName' = IF j = 0 THEN NULL ELSE nstrs + 1
       /\ IF j < 2 \/ \E u \in users : u.login = l
          THEN /\ heap' = (heap \ {guestName}) \cup Fresh(Min({j, 1}))
               /\ ConfigErr /\ UNCHANGED users
          ELSE /\ heap' = (heap \ {guestName}) \cup Fresh(2)
               /\ users' = users \cup {[login |-> l, name |-> nstrs + 2,
                                        pass |-> NULL, guest |-> TRUE]}
               /\ UNCHANGED <<pc, links, num, freed>>
  /\ UNCHANGED <<name, nobjs, share, newShare, stores, before, server,
                 ustores, uoops, debug, caseless>>

\* Opt_servern, Opt_domain, Opt_netbiosname: cifsd_get_config_str()
\* kfree's the old string and stores the new copy, or NULL and out_nomem.
GlobalString ==
  /\ pc = "global" /\ left > 0 /\ nstrs + 1 <= MaxStrs
  /\ left' = left - 1
  /\ \E j \in Made(1) :
       /\ nstrs' = nstrs + j
       /\ server' = IF j = 0 THEN NULL ELSE nstrs + 1
       /\ heap' = (heap \ {server}) \cup Fresh(j)
       /\ IF j = 0 THEN ConfigErr ELSE UNCHANGED <<pc, links, num, freed>>
  /\ UNCHANGED <<name, nobjs, share, newShare, stores, before, users,
                 guestName, ustores, uoops, debug, caseless>>

\* Values of boolean and enum options as cifsd_get_config_val() tells them
\* apart (strcasecmp(), so one spelling stands for all cases).
ConfigValues == {"yes", "true", "enable", "Bad User", "1", "no", "false",
                 "disable", "Never", "0", "auto", "mandatory", "other"}

\* cifsd_get_config_val(): the value match_strdup() copied, or -EINVAL.
ConfigVal(v) ==
  CASE v \in {"yes", "true", "enable", "Bad User", "1"} -> "ENABLE"
    [] v \in {"no", "false", "disable", "Never", "0"}   -> "DISABLE"
    [] v = "auto"                                      -> "AUTO"
    [] v = "mandatory"                                 -> "MANDATORY"
    [] OTHER                                           -> "EINVAL"

\* Whether a value option succeeds: its value is one cifsd_get_config_val()
\* knows and match_strdup() did not fail.
ValueOk == {ConfigVal(v) # "EINVAL" : v \in ConfigValues}
           \cup (IF AllocCanFail THEN {FALSE} ELSE {})

\* Opt_signing, Opt_maptoguest (cifsd_get_config_val(): ENOMEM or a value
\* it does not know), Opt_server_min/max_protocol (match_strdup() fails;
\* an unknown dialect falls back to the default), other options (ignored).
GlobalValue(ok) ==
  /\ pc = "global" /\ left > 0
  /\ left' = left - 1
  /\ IF ok THEN UNCHANGED <<pc, links, num, freed>> ELSE ConfigErr
  /\ UNCHANGED <<name, nobjs, share, newShare, stores, before, strs>>

\* Options that need a share and a valid value: "if (!share ||
\* cifsd_get_config_val(...)) goto config_err".  String options jump to
\* out_nomem, which falls into config_err, when there is no share.
Value(ok) ==
  /\ pc = "parse" /\ left > 0
  /\ left' = left - 1
  /\ IF share = NULL \/ ~ok THEN ConfigErr ELSE UNCHANGED <<pc, links, num, freed>>
  /\ UNCHANGED <<name, nobjs, share, newShare, stores, before, strs>>

\* Mutant: cifsd_num_shares++ before the kern_path()/vfs_getattr() checks
\* of __add_share().
PathCountsFailed(ok) ==
  /\ pc = "parse" /\ left > 0
  /\ left' = left - 1
  /\ \/ (share = NULL \/ AllocCanFail) /\ ConfigErr
     \/ /\ share # NULL
        /\ CASE newShare /\ ok -> AddShare(share)
             [] newShare       -> num' = num + 1 /\ UNCHANGED links
             [] OTHER          -> UNCHANGED <<links, num>>
        /\ UNCHANGED <<pc, freed>>
  /\ UNCHANGED <<name, nobjs, share, newShare, stores, before, strs>>

\* Opt_path: the path string is stored, then __add_share() runs when
\* new_share is set; it list_add()s the share and counts it unless
\* kern_path()/vfs_getattr() fail, which is only logged.  With no share,
\* or when cifsd_get_config_str() fails, it goes to out_nomem.
Path(ok) ==
  /\ pc = "parse" /\ left > 0
  /\ left' = left - 1
  /\ \/ (share = NULL \/ AllocCanFail) /\ ConfigErr
     \/ /\ share # NULL
        /\ IF newShare /\ ok THEN AddShare(share) ELSE UNCHANGED <<links, num>>
        /\ UNCHANGED <<pc, freed>>
  /\ UNCHANGED <<name, nobjs, share, newShare, stores, before, strs>>

\* Veto values of the config writes: one that compiles to a filter, one that
\* compiles to none, and one varify_veto_file() refuses.
VetoInputs == {<<"/", "*", ".", "a", "/">>, <<"/", "/">>, <<"*", ".", "a">>}

\* Opt_veto_files: a string varify_veto_file() refuses returns -EINVAL at
\* once, with no cleanup; otherwise add_filter_share(share, ...) touches the
\* share pointer, NULL when no share name came first, only to list_add a
\* filter, which a failed kzalloc() of the filter may drop.  A failed
\* match_strdup() goes to out_nomem.  The filter list is not state here:
\* no property of this module reads it, and VetoFiles checks what it holds.
Veto(s) ==
  /\ pc = "parse" /\ left > 0
  /\ left' = left - 1
  /\ \/ AllocCanFail /\ ConfigErr
     \/ /\ pc' \in CASE ~VarifyVetoFile(s) -> {"idle"}
                    [] share = NULL /\ AddFilterShare(s) # <<>>
                          -> IF AllocCanFail THEN {"oops", "parse"} ELSE {"oops"}
                    [] OTHER -> {"parse"}
        /\ UNCHANGED <<links, num, name, freed, nobjs, share, newShare>>
  /\ UNCHANGED <<stores, before, strs>>

\* strsep() returns NULL: kfree(configdata_copy), return 0.
EndOfData ==
  /\ pc = "parse"
  /\ pc' = "idle"
  /\ UNCHANGED <<links, num, name, freed, nobjs, share, newShare,
                 left, stores, before, strs>>

(***************************************************************************)
(* The user sysfs file and module exit                                     *)
(***************************************************************************)

\* parse_user_strings(): up to exp_num ':'-separated fields of an input
\* of f fields, each kmalloc'ed, stopping at the first failed kmalloc.
ParsedFields(f) == Made(Min({f, 4}))

\* um_add_new_user() keeps the name and password pointers of a new login
\* (the comment in cifsd_user_store) and returns -EEXIST for a login that
\* is listed; with allocation failures it may also fail with -ENOMEM.
AddUserOutcomes(l) ==
  IF \E u \in users : u.login = l THEN {"EEXIST"}
  ELSE IF AllocCanFail THEN {"ok", "ENOMEM"} ELSE {"ok"}

\* Mutant: the out: path kfree's all four conf[] strings, success or not.
KeptUserStrings(c, ret) == {}

\* out: kfree(conf[GID]), kfree(conf[UID]); conf[PASSWD] and conf[USER]
\* only when ret != len.
KeepsUserStrings(c, ret) == IF ret = "len" THEN {c[1], c[2]} ELSE {}

\* cifsd_user_store(buf, len) for an input of f fields naming login l, whose
\* uid and gid fields parse as numbers or not (nums).  With three fields
\* kstrtouint() is handed conf[CONF_GID], which is NULL.
UserStore(l, f, nums) ==
  /\ ~Exiting /\ ustores < MaxUserStores /\ nstrs + 4 <= MaxStrs
  /\ ustores' = ustores + 1
  /\ \E n \in ParsedFields(f) :
       LET c == [i \in 1..4 |-> IF i <= n THEN nstrs + i ELSE NULL]
           conf == Fresh(n)
       IN /\ nstrs' = nstrs + n
          /\ CASE n < 2 \/ (n = 4 /\ ~nums) \/ (n = 3 /\ ~nums) ->
                    UNCHANGED <<heap, users, uoops>>
               [] n = 3 ->
                    heap' = heap \cup conf /\ uoops' = TRUE
                    /\ UNCHANGED users
               [] OTHER ->
                    \E r \in AddUserOutcomes(l) :
                      LET ret == IF r \in {"ok", "EEXIST"} THEN "len" ELSE r
                      IN /\ heap' = heap \cup KeepsUserStrings(c, ret)
                         /\ users' = IF r = "ok"
                                     THEN users \cup {[login |-> l,
                                            name |-> c[1], pass |-> c[2],
                                            guest |-> FALSE]}
                                     ELSE users
                         /\ UNCHANGED uoops
  /\ UNCHANGED <<links, num, name, freed, nobjs, pc, share, newShare, left,
                 stores, before, guestName, server, debug, caseless>>

\* cifsadmin_user_del() -> um_delete_user(): the user of that login is
\* unlisted and put, which kfree's its name and password; -EINVAL, and no
\* change, when no user has the login.
UserDel(l) ==
  /\ ~Exiting /\ ustores < MaxUserStores
  /\ ustores' = ustores + 1
  /\ LET gone == {u \in users : u.login = l} IN
       /\ users' = users \ gone
       /\ heap' = heap \ ({u.name : u \in gone} \cup {u.pass : u \in gone})
  /\ UNCHANGED <<links, num, name, freed, nobjs, pc, share, newShare, left,
                 stores, before, nstrs, guestName, server, uoops, debug,
                 caseless>>

\* The values written to the debug and caseless files: kstrtol() fails
\* (parses = FALSE) or gives a negative, zero or positive number.
Longs == {-1, 0, 2}

\* cifsd_debug_store(): a positive value is stored, 0 clears the flag, a
\* negative one or a parse error (-EINVAL) leaves it.
DebugStore(parses, v) ==
  /\ ~Exiting /\ ustores < MaxUserStores
  /\ ustores' = ustores + 1
  /\ debug' = IF parses /\ v >= 0 THEN v ELSE debug
  /\ UNCHANGED <<links, num, name, freed, nobjs, pc, share, newShare, left,
                 stores, before, users, heap, nstrs, guestName, server, uoops,
                 caseless>>

\* cifsd_caseless_search_store(): a positive value sets the flag to 1, 0
\* clears it, a negative one or a parse error leaves it.
CaselessStore(parses, v) ==
  /\ ~Exiting /\ ustores < MaxUserStores
  /\ ustores' = ustores + 1
  /\ caseless' = CASE ~parses \/ v < 0 -> caseless
                    [] v > 0           -> 1
                    [] OTHER           -> 0
  /\ UNCHANGED <<links, num, name, freed, nobjs, pc, share, newShare, left,
                 stores, before, users, heap, nstrs, guestName, server, uoops,
                 debug>>

\* cifsd_free_global_params(): kfree server_string, workgroup,
\* guestAccountName and netbios_name.
FreeGlobalParams(h) == h \ {guestName, server}

\* um_cleanup_users(): every user is dropped with its name and password.
CleanupUsers(h) == h \ ({u.name : u \in users} \cup {u.pass : u \in users})

\* cifsd_share_free(): list_del, count down and free every entry the walk
\* visits.  A walk that comes back to an entry finds it freed.
ShareFree ==
  LET r == ListForEachSafe(Objs, TRUE, lnext[ListHead], ListState, 0) IN
  /\ lnext' = r.nx /\ lprev' = r.pv
  /\ num' = num - r.dn
  /\ freed' = r.fr
  /\ pc' = IF r.st = "done" THEN "exited" ELSE "exit_oops"

\* cifsd_export_exit(), once no sysfs write is running.
ExportExit ==
  /\ pc = "idle"
  /\ heap' = CleanupUsers(FreeGlobalParams(heap))
  /\ users' = {}
  /\ ShareFree
  /\ UNCHANGED <<name, nobjs, share, newShare, left, stores, before, nstrs,
                 guestName, server, ustores, uoops, debug, caseless>>

(***************************************************************************)
(* Specification                                                           *)
(***************************************************************************)

\* cifsd_add_IPC_share() -> add_share("IPC$", NULL): IPC$ is object 1,
\* added with no path, so __add_share() cannot fail for it; the entries
\* not yet allocated hold NULL.
InitShares ==
  /\ lnext = [x \in Nodes |-> IF x \in {ListHead, 1} THEN 1 - x ELSE NULL]
  /\ lprev = lnext
  /\ num = 1
  /\ name = [o \in Objs |-> IF o = 1 THEN IPC ELSE NULL]
  /\ freed = {}
  /\ nobjs = 1

\* cifsd_init_global_params(): server_string, workgroup and netbios_name
\* get their default strings (string 1 stands for them); no guest account.
InitGlobals ==
  /\ heap = {1}
  /\ nstrs = 1
  /\ server = 1
  /\ guestName = NULL

\* After cifsd_export_init() succeeded, before any sysfs write.
Init ==
  /\ InitShares
  /\ InitGlobals
  /\ pc = "idle"
  /\ share = NULL
  /\ newShare = FALSE
  /\ left = 0
  /\ stores = 0
  /\ before = {1}
  /\ users = {}
  /\ ustores = 0
  /\ uoops = FALSE
  /\ debug = 0
  /\ caseless = 0

Next ==
  \/ ConfigStore
  \/ \E n \in Names : ShareName(n)
  \/ \E ok \in BOOLEAN : Path(ok)
  \/ \E s \in VetoInputs : Veto(s)
  \/ \E ok \in ValueOk : Value(ok) \/ GlobalValue(ok)
  \/ EndOfData
  \/ Global \/ GlobalEnd \/ GlobalString
  \/ \E l \in Logins : GuestAccount(l)
  \/ \E l \in Logins, f \in 1..4, nums \in BOOLEAN : UserStore(l, f, nums)
  \/ \E l \in Logins : UserDel(l)
  \/ \E parses \in BOOLEAN, v \in Longs : DebugStore(parses, v) \/ CaselessStore(parses, v)
  \/ ExportExit

Spec == Init /\ [][Next]_vars

(***************************************************************************)
(* Properties                                                              *)
(***************************************************************************)

\* Every variable stays in its domain; cifsd_num_shares never goes below
\* zero.
TypeOK ==
  /\ lnext \in [Nodes -> Nodes \cup {POISON1, NULL}]
  /\ lprev \in [Nodes -> Nodes \cup {POISON2, NULL}]
  /\ num \in 0..MaxObjs
  /\ name \in [Objs -> Names \cup {NULL}]
  /\ freed \subseteq Objs
  /\ pc \in {"idle", "parse", "global", "oops", "hung", "exited", "exit_oops"}
  /\ heap \subseteq 1..nstrs /\ nstrs \in 1..MaxStrs
  /\ \A u \in users : u.login \in Logins
  /\ debug \in {0} \cup Longs /\ caseless \in {0, 1}
  /\ share \in Objs \cup {NULL}
  /\ newShare \in BOOLEAN

\* check_share() makes the share names of cifsd_share_list unique:
\* get_cifsd_share() and check_share() take the first share of a name, so
\* a second one would be unreachable.
UniqueNames ==
  \A i, j \in DOMAIN list : name[list[i]] = name[list[j]] => list[i] = list[j]

\* cifsd_num_shares counts the shares on cifsd_share_list: __add_share()
\* counts a share only when it links it, cleanup_bad_share() counts down
\* once per entry it unlinks, whichever share a failed config write left
\* in share and new_share.  Stated while the list is well formed.
NumSharesCounted == WalkEnds => num = Len(list)

\* A failed config write removes only shares it created itself: until
\* cifsd_export_exit() runs, every share listed before the write is still
\* listed.
StoreKeepsShares == ~Exiting => before \subseteq Listed

\* Strings of the global options and of the user list have one owner
\* each and are allocated while owned: guestAccountName, server_string
\* and every listed user's name and password point to live strings, and
\* no two of them share one.  The guest user gets its own kstrdup copy,
\* so a later "guest account" that kfree's guestAccountName, or a failed
\* one, leaves the user intact; cifsd_user_store keeps conf[CONF_USER] and
\* conf[CONF_PASSWD] exactly when the user took them.
Holders ==
  {<<NULL, 1, guestName>>, <<NULL, 2, server>>}
  \cup {<<u.login, 1, u.name>> : u \in users}
  \cup {<<u.login, 2, u.pass>> : u \in users}

OwnedStringsLive ==
  ~Exiting =>
    \A h \in Holders : h[3] # NULL =>
      /\ h[3] \in heap
      /\ \A k \in Holders : k[3] = h[3] => k = h

\* Every veto option a config write can take is compiled as the design
\* says: a value that varify_veto_file() accepts and that is made of "*.ext",
\* "*X...*" and literal globs gets, from add_filter_share() and
\* parse_veto_file(), one filter per glob with the glob's type and text
\* (VetoFiles!CompilesGlobs, over every value of up to MaxVetoLen
\* characters).  Stated of every step of the writer, since the parser keeps
\* no state between options.
VetoFilesCompileGlobs == [][CompilesGlobs]_vars

================================================================================
