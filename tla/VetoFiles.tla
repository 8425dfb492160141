------------------------------- MODULE VetoFiles -------------------------------
(***************************************************************************)
(* The "veto files" option of export.c as pure operators: the check of    *)
(* varify_veto_file(), the '/'-splitting of add_filter_share() and the     *)
(* filter parse_veto_file() compiles from each field.  A C string is a    *)
(* sequence of one-character strings; reading past its end gives NUL.      *)
(*                                                                         *)
(* The filter list add_filter_share() builds is checked here against the  *)
(* glob forms the design gives for veto files, over every string of up to *)
(* MaxVetoLen characters of VetoAlphabet.  Allocation failures of a       *)
(* filter only drop it; they are left out of these operators.             *)
(***************************************************************************)
EXTENDS Integers, Sequences, SequencesExt

FILTER_NON_TYPE       == "non"
FILTER_WILDCARD       == "wildcard"
FILTER_FILE_EXTENSION == "extension"

\* parse_veto_file() returned NULL: textsearch_prepare() failed.
NoFilter == [type |-> "none", pattern |-> <<>>]

\* The terminating NUL character of a C string.
NUL == "NUL"

\* string[i] of a C string (0-based), the terminating NUL past its end.
CharAt(s, i) == IF i < Len(s) THEN s[i + 1] ELSE NUL

\* varify_veto_file(): the value starts with '/' and strchr() finds
\* another '/' after it.
VarifyVetoFile(s) ==
  /\ CharAt(s, 0) = "/"
  /\ \E i \in 2..Len(s) : s[i] = "/"

\* Positions of the '/' characters of s, in order.
SlashesAt(s) == SelectSeq([i \in 1..Len(s) |-> i], LAMBDA i : s[i] = "/")

\* The fields strsep(&parse_str, "/") returns, in order, before it
\* returns NULL: the text up to each '/', then what follows the last one.
Strsep(s) ==
  LET b == <<0>> \o SlashesAt(s) \o <<Len(s) + 1>> IN
  [k \in 1..Len(b) - 1 |-> SubSeq(s, b[k] + 1, b[k + 1] - 1)]

\* Mutant: the extension filter compiled with strlen(pattern) - 1, as the
\* wildcard one is.
ParseVetoFileExtShort(str) ==
  LET wild    == CharAt(str, 0) = "*"
      ext     == wild /\ CharAt(str, 1) = "."
      pattern == IF wild THEN Tail(str) ELSE str
      len     == Len(pattern) - 1
  IN IF len > 0
     THEN [type |-> CASE ext  -> FILTER_FILE_EXTENSION
                      [] wild -> FILTER_WILDCARD
                      [] OTHER -> FILTER_NON_TYPE,
           pattern |-> SubSeq(pattern, 1, len)]
     ELSE NoFilter

\* parse_veto_file(): "*." starts an extension, pattern from the '.';
\* another leading '*' a wildcard, pattern from after the '*' with its last
\* character cut; anything else a literal.  textsearch_prepare("kmp",
\* pattern, len) keeps the first len characters; it refuses len = 0, and
\* the len of -1 that "*" alone gives becomes 2^32 - 1 as an unsigned int,
\* for which kmp_init() asks an allocation of about 8 GiB that fails.
ParseVetoFile(str) ==
  LET wild    == CharAt(str, 0) = "*"
      ext     == wild /\ CharAt(str, 1) = "."
      pattern == IF wild THEN Tail(str) ELSE str
      len     == IF wild /\ ~ext THEN Len(pattern) - 1 ELSE Len(pattern)
  IN IF len > 0
     THEN [type |-> CASE ext  -> FILTER_FILE_EXTENSION
                      [] wild -> FILTER_WILDCARD
                      [] OTHER -> FILTER_NON_TYPE,
           pattern |-> SubSeq(pattern, 1, len)]
     ELSE NoFilter

\* add_filter_share(): the field before the first '/' is skipped, every
\* other field is compiled, and each filter is list_add'ed at the head of
\* share->config.filter_list.
AddFilterShare(s) ==
  LET fields == Tail(Strsep(s))
      cfs    == [i \in 1..Len(fields) |-> ParseVetoFile(fields[i])]
  IN Reverse(SelectSeq(cfs, LAMBDA cf : cf # NoFilter))

(***************************************************************************)
(* Reference: the veto-file globs of the design.  A value is "/g1/g2/.../" *)
(* and each non-empty g is "*.ext" (an extension), "*X...*" (a wildcard    *)
(* for the text between the stars) or a literal without '*'.              *)
(***************************************************************************)

VetoAlphabet == {"/", "*", ".", "a"}
MaxVetoLen   == 7

NoStar(g) == \A i \in 1..Len(g) : g[i] # "*"

\* The filter the design gives a glob, NoFilter for text that is not one.
GlobFilter(g) ==
  CASE Len(g) >= 3 /\ g[1] = "*" /\ g[2] = "." /\ NoStar(Tail(g))
         -> [type |-> FILTER_FILE_EXTENSION, pattern |-> Tail(g)]
    []  Len(g) >= 3 /\ g[1] = "*" /\ g[2] # "." /\ g[Len(g)] = "*"
          /\ NoStar(SubSeq(g, 2, Len(g) - 1))
         -> [type |-> FILTER_WILDCARD, pattern |-> SubSeq(g, 2, Len(g) - 1)]
    []  Len(g) >= 1 /\ NoStar(g)
         -> [type |-> FILTER_NON_TYPE, pattern |-> g]
    []  OTHER -> NoFilter

\* The globs of a value, split at every '/' and with empty ones dropped.
Globs(s) == SelectSeq(Strsep(s), LAMBDA g : g # <<>>)

\* Every glob of the value is one of the design's forms.
WellFormed(s) == \A i \in 1..Len(Globs(s)) : GlobFilter(Globs(s)[i]) # NoFilter

\* A veto value that varify_veto_file() accepts and that is made of the
\* design's glob forms gets exactly one filter per glob, of the glob's
\* type and matching the glob's text.  A constant: ShareConfig checks it
\* as VetoFilesCompileGlobs.
CompilesGlobs ==
  \A s \in BoundedSeq(VetoAlphabet, MaxVetoLen) :
    VarifyVetoFile(s) /\ WellFormed(s) =>
      /\ Len(AddFilterShare(s)) = Len(Globs(s))
      /\ ToSet(AddFilterShare(s)) = {GlobFilter(Globs(s)[i]) : i \in 1..Len(Globs(s))}
================================================================================
