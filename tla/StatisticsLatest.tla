-------------------------- MODULE StatisticsLatest --------------------------
(***************************************************************************)
(* Node.statistics_latest: the population and size of the latest versions *)
(* under a node, computed from the versions table (not from the           *)
(* statistics rows) by three queries.  The subtree is found by the stored *)
(* path: "path like <path>%".  Paths are sequences of characters here, so *)
(* that LIKE with a trailing % is a prefix test.                           *)
(***************************************************************************)
EXTENDS VersionTree, SequencesExt

CONSTANT StatPaths   \* the paths of the nodes statistics_latest is asked about

(* "serial = (select max(serial) from versions where node = ? and mtime < *)
(* ?) and cluster != ?": the latest version of m before `before`, if it   *)
(* is outside the excepted cluster.                                        *)
LatestOf(m, before, except_cluster) ==
    LET S == {s \in SerialsAt(m) : versions[s].mtime < before}
    IN  IF S = {} THEN NONE
        ELSE IF versions[Max(S)].cluster = except_cluster THEN NONE
        ELSE Max(S)

RECURSIVE SizeSum(_)
SizeSum(S) ==
    IF S = {} THEN 0
    ELSE LET s == CHOOSE x \in S : TRUE IN versions[s].size + SizeSum(S \ {s})

\* The latest versions of the nodes in M.
LatestIn(M, before, except_cluster) ==
    {LatestOf(m, before, except_cluster) : m \in M} \ {NONE}

(* None for a missing node, or when the node's own latest version is      *)
(* missing or excepted. Then the count over the direct children; zero     *)
(* ends the call. Then the sum over every node whose path starts with the *)
(* node's path, less the node's own latest size.                           *)
statistics_latest(node, before, except_cluster) ==
    LET own    == LatestOf(node, before, except_cluster)
        first  == LatestIn({m \in LiveNodes : nodes[m].parent = node}, before, except_cluster)
        like   == LatestIn({m \in LiveNodes : IsPrefix(nodes[node].path, nodes[m].path)},
                           before, except_cluster)
    IN  IF nodes[node] = NONE \/ own = NONE THEN NONE
        ELSE IF first = {} THEN [population |-> 0, size |-> 0]
        ELSE [population |-> Cardinality(first),
              size |-> SizeSum(like) - versions[own].size]

-----------------------------------------------------------------------------
(* "Return population, total size and last mtime for all latest versions  *)
(* under node that do not belong to the cluster": the size is the sum     *)
(* over the latest versions of the nodes strictly below the node in the   *)
(* tree, whatever their paths, at every time bound and excepted cluster.  *)
StatisticsLatestSize ==
    \A n \in NodeOf(StatPaths), b \in Befores, ec \in Clusters :
        LET r == statistics_latest(n, b, ec)
        IN  r # NONE =>
                r.size = SizeSum(LatestIn({m \in LiveNodes : IsBelow(m, n)}, b, ec))
=============================================================================
