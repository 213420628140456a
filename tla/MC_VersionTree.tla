--------------------------- MODULE MC_VersionTree ---------------------------
(***************************************************************************)
(* Namespaces for checking VersionTree.  Paths are strings as in the      *)
(* nodes table; ParentPath says which node a caller passes as the parent.  *)
(***************************************************************************)
EXTENDS VersionTree

\* A chain three levels deep under the root, with a sibling leaf: the
\* ancestor walk takes up to three hops.
DeepPaths == {"a", "a/b", "a/b/c"}
DeepParent == [p \in DeepPaths |-> CASE p = "a" -> ""
                                     [] p = "a/b" -> "a"
                                     [] p = "a/b/c" -> "a/b"]

\* account / container / objects, the pithos layout: objects are leaves.
AccountPaths == {"a", "a/c", "a/c/x", "a/c/y"}
AccountParent == [p \in AccountPaths |-> CASE p = "a" -> ""
                                           [] p = "a/c" -> "a"
                                           [] OTHER -> "a/c"]
Objects == {"a/c/x", "a/c/y"}
Containers == {"a/c"}

\* node_purge_children takes populations below zero without end (see the
\* purge_population run), which would make the state space infinite.  The
\* runs that let it happen stop exploring once a population passes -2.
PopulationFloor == -2
PopulationBounded ==
    \A k \in DOMAIN statistics :
        statistics[k] = NONE \/ statistics[k].population >= PopulationFloor
=============================================================================
