------------------------------ MODULE Listing ------------------------------
(***************************************************************************)
(* The listing of node.py: Node.latest_version_list with and without a     *)
(* delimiter, and the string bounds strnextling / strprevling it scans     *)
(* between.                                                                *)
(*                                                                         *)
(* A string is a sequence of code points in 0..MaxChar. MaxChar stands for *)
(* 0xffff, the largest character the code assumes. `rows` is the set of    *)
(* paths the listing query selects at this moment: the current versions   *)
(* of the children of `parent`, outside the excepted cluster, that pass    *)
(* the filters.  Other requests change that set at any time (Write).  One  *)
(* execute() reads a snapshot: under sqlite's default locking, a writer    *)
(* cannot commit while the statement is open, and the statement is reset   *)
(* by the next execute().                                                  *)
(***************************************************************************)
EXTENDS Integers, Sequences, SequencesExt

CONSTANTS
    MaxChar,      \* the code point 0xffff
    Universe,     \* the paths that may exist under `parent`
    PrefixArgs,   \* the `prefix` arguments callers pass
    StartArgs,       \* the `start` arguments callers pass
    DelimiterArgs,   \* the `delimiter` arguments (<<>> is None)
    LimitArgs        \* the `limit` arguments

Str == Seq(0..MaxChar)

\* RuntimeError, raised by strnextling: not a string over 0..MaxChar.
ERROR == <<-1>>

(* Python's ordering of unicode strings: code point by code point, and a  *)
(* proper prefix before the longer string.                                 *)
RECURSIVE StrLess(_, _)
StrLess(s, t) ==
    IF s = <<>> THEN t # <<>>
    ELSE IF t = <<>> THEN FALSE
    ELSE IF Head(s) # Head(t) THEN Head(s) < Head(t)
    ELSE StrLess(Tail(s), Tail(t))

StrnextlingNoLimit(prefix) ==
    IF prefix = <<>> THEN <<MaxChar>>
    ELSE Front(prefix) \o <<Last(prefix) + 1>>

strnextling(prefix) ==
    IF prefix = <<>> THEN <<MaxChar>>
    ELSE IF Last(prefix) >= MaxChar THEN ERROR
    ELSE Front(prefix) \o <<Last(prefix) + 1>>

strprevling(prefix) ==
    IF prefix = <<>> THEN prefix
    ELSE IF Last(prefix) > 0 THEN Front(prefix) \o <<Last(prefix) - 1, MaxChar>>
    ELSE Front(prefix)

FindFromZero(path, d, from) ==
    LET At == {i \in 0..(Len(path) - Len(d)) :
                  SubSeq(path, i + 1, i + Len(d)) = d}
    IN  IF At = {} THEN -1 ELSE Min(At)

(* path.find(delimiter, pfz): the 0-based index of the first occurrence   *)
(* of d at or after index `from`, or -1.                                    *)
Find(path, d, from) ==
    LET At == {i \in from..(Len(path) - Len(d)) :
                  SubSeq(path, i + 1, i + Len(d)) = d}
    IN  IF At = {} THEN -1 ELSE Min(At)

\* A finite set of strings in increasing order.
RECURSIVE Sorted(_)
Sorted(P) ==
    IF P = {} THEN <<>>
    ELSE LET m == CHOOSE x \in P : \A y \in P \ {x} : StrLess(x, y)
         IN  <<m>> \o Sorted(P \ {m})

(* The query: the selected paths strictly between start and nextling,     *)
(* ordered by path ("order by n.path").                                    *)
Query(r, start, nextling) ==
    Sorted({p \in r : StrLess(start, p) /\ StrLess(p, nextling)})

VARIABLES
    rows,      \* paths the query selects now
    lpc,       \* "idle", "scan", "exhausted", "limited", "error"
    arg,       \* [prefix, start, delim, limit] of the current call
    qargs,     \* args[3], args[4]: the scan bounds [start, nextling]
    cursor,    \* rows of the open statement not fetched yet
    matches,   \* the `matches` list
    prefixes,  \* the `prefixes` list
    count,     \* the `count` local
    last,      \* ghost: the last path fetched
    stable     \* ghost: the rows present since the call began

vars == <<rows, lpc, arg, qargs, cursor, matches, prefixes, count, last, stable>>

Done == {"exhausted", "limited"}

Init ==
    /\ rows \in SUBSET Universe
    /\ lpc = "idle"
    /\ arg = [prefix |-> <<>>, start |-> <<>>, delim |-> <<>>, limit |-> 0]
    /\ qargs = [start |-> <<>>, nextling |-> <<>>]
    /\ cursor = <<>>
    /\ matches = <<>>
    /\ prefixes = <<>>
    /\ count = 0
    /\ last = <<>>
    /\ stable = rows

(* latest_version_list up to the first execute(). `start` is replaced by   *)
(* strprevling(prefix) when empty or below the prefix. Without a           *)
(* delimiter the call ends here with `limit` rows (fetchall). With one,    *)
(* the statement is opened.                                                *)
Begin(prefix, start, delim, limit) ==
    LET s0 == IF start = <<>> \/ StrLess(start, prefix)
              THEN strprevling(prefix) ELSE start
        nx == strnextling(prefix)
        q  == Query(rows, s0, nx)
    IN
    /\ lpc # "scan"
    /\ nx # ERROR
    /\ arg' = [prefix |-> prefix, start |-> start, delim |-> delim, limit |-> limit]
    /\ qargs' = [start |-> s0, nextling |-> nx]
    /\ count' = 0
    /\ prefixes' = <<>>
    /\ stable' = rows
    /\ IF delim = <<>>
       THEN /\ matches' = SubSeq(q, 1, IF limit < Len(q) THEN limit ELSE Len(q))
            /\ lpc' = IF limit < Len(q) THEN "limited" ELSE "exhausted"
            /\ last' = IF limit < Len(q) /\ limit > 0 THEN q[limit] ELSE <<>>
            /\ cursor' = <<>>
       ELSE /\ matches' = <<>>
            /\ lpc' = "scan"
            /\ last' = <<>>
            /\ cursor' = q
    /\ UNCHANGED rows

(* strnextling(prefix) raises RuntimeError: the call fails before any     *)
(* query.                                                                  *)
BeginError(prefix) ==
    /\ lpc # "scan"
    /\ strnextling(prefix) = ERROR
    /\ lpc' = "error"
    /\ UNCHANGED <<rows, arg, qargs, cursor, matches, prefixes, count, last, stable>>

(* Mutant: the loop does not break when fetchone() returns None.          *)
ExhaustNoBreak ==
    /\ lpc = "scan"
    /\ cursor = <<>>
    /\ UNCHANGED vars

(* fetchone() returns None: the loop ends.                                 *)
Exhaust ==
    /\ lpc = "scan"
    /\ cursor = <<>>
    /\ lpc' = "exhausted"
    /\ UNCHANGED <<rows, arg, qargs, cursor, matches, prefixes, count, last, stable>>

(* Mutant: the scan restarts at the common prefix itself.                 *)
NewStartAtPrefix(pf) == pf

\* args[3] = strnextling(pf): the first string after the virtual directory.
NewStart(pf) == strnextling(pf)

(* One turn of the loop on the fetched row `path`: a direct match, a      *)
(* match that ends in the delimiter (no limit check, "get one more"), or  *)
(* a new common prefix, after which the query is re-executed from         *)
(* strnextling(pf) unless count has reached the limit.                    *)
FetchRow ==
    LET path == Head(cursor)
        dz   == Len(arg.delim)
        idx  == Find(path, arg.delim, Len(arg.prefix))
        pf   == SubSeq(path, 1, idx + dz)
    IN
    /\ lpc = "scan"
    /\ cursor # <<>>
    /\ last' = path
    /\ \/ /\ idx < 0
          /\ matches' = Append(matches, path)
          /\ count' = count + 1
          /\ lpc' = IF count + 1 >= arg.limit THEN "limited" ELSE "scan"
          /\ cursor' = Tail(cursor)
          /\ UNCHANGED <<prefixes, qargs>>
       \/ /\ idx >= 0
          /\ idx + dz = Len(path)
          /\ matches' = Append(matches, path)
          /\ count' = count + 1
          /\ cursor' = Tail(cursor)
          /\ UNCHANGED <<prefixes, qargs, lpc>>
       \/ /\ idx >= 0
          /\ idx + dz # Len(path)
          /\ prefixes' = Append(prefixes, pf)
          /\ IF count >= arg.limit
             THEN /\ lpc' = "limited"
                  /\ UNCHANGED <<qargs, cursor>>
             ELSE /\ qargs' = [qargs EXCEPT !.start = NewStart(pf)]
                  /\ cursor' = Query(rows, NewStart(pf), qargs.nextling)
                  /\ UNCHANGED lpc
          /\ UNCHANGED <<matches, count>>
    /\ UNCHANGED <<rows, arg, stable>>

(* Another request creates or removes a version, or a node, and so adds   *)
(* or removes a selected path. It commits between two statements. Writes *)
(* between calls are covered by Init, which starts from any set of rows.   *)
Write(p) ==
    /\ lpc = "scan"
    /\ rows' = IF p \in rows THEN rows \ {p} ELSE rows \cup {p}
    /\ stable' = stable \cap rows'
    /\ UNCHANGED <<lpc, arg, qargs, cursor, matches, prefixes, count, last>>

Next ==
    \/ \E pr \in PrefixArgs, st \in StartArgs, d \in DelimiterArgs, l \in LimitArgs :
           Begin(pr, st, d, l)
    \/ \E pr \in PrefixArgs : BeginError(pr)
    \/ Exhaust
    \/ FetchRow
    \/ \E p \in Universe : Write(p)

Spec == Init /\ [][Next]_vars

(* The request process runs its loop without waiting on other requests    *)
(* (spec section 5: no operation blocks indefinitely): a fetch that can    *)
(* happen eventually happens, whatever the writers do.                     *)
FairSpec == Spec /\ WF_vars(Exhaust \/ FetchRow)
-----------------------------------------------------------------------------
(* What the listing promises, from the docstring of latest_version_list   *)
(* and section 4.5 of the spec.                                            *)

\* The 0-based index of the first delimiter at or after the prefix's end.
DelimAt(p) ==
    LET At == {i \in Len(arg.prefix)..(Len(p) - Len(arg.delim)) :
                  \A j \in 1..Len(arg.delim) : p[i + j] = arg.delim[j]}
    IN  IF At = {} THEN -1 ELSE Min(At)

\* Condition f: no delimiter after the prefix, or only at the end.
DirectEntry(p) ==
    \/ arg.delim = <<>>
    \/ DelimAt(p) < 0
    \/ DelimAt(p) + Len(arg.delim) = Len(p)

\* The virtual directory a non-direct path belongs to.
DirOf(p) == SubSeq(p, 1, DelimAt(p) + Len(arg.delim))

\* Conditions b and c: after start, and starting with the prefix.
Eligible(p) == IsPrefix(arg.prefix, p) /\ StrLess(arg.start, p)

\* A path is reported as a match, or through its common prefix.
Reported(p) ==
    IF DirectEntry(p) THEN p \in ToSet(matches) ELSE DirOf(p) \in ToSet(prefixes)

TypeOK ==
    /\ rows \subseteq Universe
    /\ stable \subseteq rows
    /\ lpc \in {"idle", "scan", "exhausted", "limited", "error"}
    /\ qargs.start \in Str /\ qargs.nextling \in Str
    /\ cursor \in Seq(Universe)
    /\ matches \in Seq(Universe)
    /\ prefixes \in Seq(Str)
    /\ count \in 0..Cardinality(Universe)

(* Soundness of a finished listing: every match satisfies conditions b, c *)
(* and f and the matches come in strictly increasing path order; every   *)
(* common prefix is the virtual directory of an eligible path and is      *)
(* reported once. Relies on strprevling/strnextling bounding the scan to  *)
(* the prefix's namespace, and on the re-seed past each directory.        *)
ListingSound ==
    lpc \in Done =>
        /\ \A i \in 1..Len(matches) :
               /\ Eligible(matches[i]) /\ DirectEntry(matches[i])
               /\ i > 1 => StrLess(matches[i - 1], matches[i])
        /\ \A i \in 1..Len(prefixes) :
               \E p \in Universe :
                   Eligible(p) /\ ~DirectEntry(p) /\ DirOf(p) = prefixes[i]
        /\ IsInjective(prefixes)

(* Completeness of a finished listing under concurrent writers: a path    *)
(* selected from the call's start to its end, up to the last row the      *)
(* loop fetched (or any path, if the scan ran out), is reported. Writes   *)
(* between the re-scans may be seen or missed (spec section 5); rows that *)
(* never change may not.                                                  *)
ListingComplete ==
    lpc \in Done =>
        \A p \in stable :
            (Eligible(p) /\ (lpc = "exhausted" \/ ~StrLess(last, p))) => Reported(p)

(* The loop ends: every listing with a delimiter reaches the end of its   *)
(* scan or its limit, however often writers commit in between. Each       *)
(* re-scan starts past the virtual directory it found.                    *)
ListingTerminates == [](lpc = "scan" => <>(lpc \in Done))

(* The limit: "Limit applies to the first list of tuples returned", and   *)
(* the spec: "stop accumulating matches once limit is reached".           *)
ListingWithinLimit ==
    lpc \in Done => Len(matches) <= arg.limit
=============================================================================
