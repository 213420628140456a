---------------------------- MODULE VersionTree ----------------------------
(***************************************************************************)
(* The node/version/statistics store of pithos/backends/lib/sqlite/node.py *)
(* (class Node), with every mutating method as one atomic step: the        *)
(* database row changes, the statistics walk and the foreign-key cascades  *)
(* of one call happen together.                                            *)
(*                                                                         *)
(* Tables: nodes(node, parent, path), versions(serial, node, size, mtime,  *)
(* cluster), statistics(node, cluster -> population, size).  The hash,     *)
(* source and muser columns of versions and the mtime column of statistics *)
(* take no part in any guard or update and are left out.                   *)
(***************************************************************************)
EXTENDS Naturals, Integers, FiniteSets, FiniteSetsExt

CONSTANTS
    Paths,          \* paths of the nodes callers create (the root's is RootPath)
    RootPath,       \* '' : the path column's default, held by the root row
    ParentPath,     \* ParentPath[p]: path of the node callers pass as parent of p
    Clusters,       \* cluster tags
    Sizes,          \* version sizes
    MaxNodeId,      \* bound on node ids handed out
    MaxSerial,      \* bound on version serials handed out
    MaxTime,        \* bound on the clock
    PurgeNodeAt,    \* paths on which callers call node_purge
    PurgeChildrenOf,\* paths whose children callers purge with node_purge_children
    NONE            \* an absent row

ASSUME RootPath \notin Paths
ASSUME ParentPath \in [Paths -> Paths \cup {RootPath}]
ASSUME PurgeNodeAt \subseteq Paths /\ PurgeChildrenOf \subseteq Paths \cup {RootPath}

ROOTNODE == 0
NodeIds  == 0..MaxNodeId
Serials  == 1..MaxSerial
Times    == 0..MaxTime
Inf      == MaxTime + 1      \* float('inf'): later than every mtime
Befores  == Times \cup {Inf}

NodeRow    == [parent : NodeIds, path : Paths \cup {RootPath}]
VersionRow == [node : NodeIds, size : Sizes, mtime : Times, cluster : Clusters]
StatRow    == [population : Int, size : Int]

VARIABLES
    nodes,       \* nodes[n]: the row of node n, or NONE
    versions,    \* versions[s]: the row of serial s, or NONE
    statistics,  \* statistics[<<n, c>>]: the row of (n, c), or NONE
    now          \* the value time() returns

vars == <<nodes, versions, statistics, now>>

LiveNodes   == {n \in NodeIds : nodes[n] # NONE}
LiveSerials == {s \in Serials : versions[s] # NONE}

(* "integer primary key" without AUTOINCREMENT: one more than the largest  *)
(* rowid in the table, so the id of a deleted last row is handed out again.*)
NewRowId(ids) == Max(ids \cup {0}) + 1

node_lookup(path) ==
    IF \E n \in LiveNodes : nodes[n].path = path
    THEN CHOOSE n \in LiveNodes : nodes[n].path = path
    ELSE NONE

node_count_children(n) ==
    Cardinality({m \in LiveNodes : nodes[m].parent = n /\ m # 0})

(* m lies strictly below n in the tree.  Parents always have smaller ids.  *)
RECURSIVE IsBelow(_, _)
IsBelow(m, n) ==
    /\ m # ROOTNODE
    /\ nodes[m] # NONE
    /\ \/ nodes[m].parent = n
       \/ IsBelow(nodes[m].parent, n)

(* The nodes a delete of the nodes D removes: D and everything below them *)
(* (nodes.parent ON DELETE CASCADE).  Their versions and statistics rows   *)
(* go with them (versions.node, statistics.node ON DELETE CASCADE).        *)
Cascade(D) == D \cup {m \in LiveNodes : \E d \in D : IsBelow(m, d)}

(* Mutant: foreign keys off, so deleting a node leaves its versions.      *)
DeleteNodesNoCascade(D, vs, st) ==
    /\ nodes' = [n \in NodeIds |-> IF n \in D THEN NONE ELSE nodes[n]]
    /\ versions' = vs
    /\ statistics' = st

DeleteNodes(D, vs, st) ==
    LET gone == Cascade(D)
    IN  /\ nodes' = [n \in NodeIds |-> IF n \in gone THEN NONE ELSE nodes[n]]
        /\ versions' = [s \in Serials |->
                          IF vs[s] # NONE /\ vs[s].node \in gone THEN NONE ELSE vs[s]]
        /\ statistics' = [k \in DOMAIN st |-> IF k[1] \in gone THEN NONE ELSE st[k]]

StatGet(st, n, c) ==
    IF st[<<n, c>>] = NONE THEN [population |-> 0, size |-> 0] ELSE st[<<n, c>>]

statistics_update(st, n, population, size, c) ==
    [st EXCEPT ![<<n, c>>] =
        [population |-> StatGet(st, n, c).population + population,
         size       |-> StatGet(st, n, c).size + size]]

(* Mutant: the walk stops after the parent.                               *)
WalkOneHop(st, n, population, size, c) ==
    IF n = ROOTNODE \/ nodes[n] = NONE THEN st
    ELSE statistics_update(st, nodes[n].parent, population, size, c)

(* Mutant: the population is not zeroed after the first hop.              *)
RECURSIVE WalkKeepPopulation(_, _, _, _, _)
WalkKeepPopulation(st, n, population, size, c) ==
    IF n = ROOTNODE \/ nodes[n] = NONE THEN st
    ELSE WalkKeepPopulation(statistics_update(st, nodes[n].parent, population, size, c),
                            nodes[n].parent, population, size, c)

(* Walk from n's parent up to the root; population only on the first hop. *)
RECURSIVE statistics_update_ancestors(_, _, _, _, _)
statistics_update_ancestors(st, n, population, size, c) ==
    IF n = ROOTNODE \/ nodes[n] = NONE THEN st
    ELSE LET parent == nodes[n].parent
         IN  statistics_update_ancestors(
                 statistics_update(st, parent, population, size, c),
                 parent, 0, size, c)

SerialsAt(n) == {s \in LiveSerials : versions[s].node = n}

(* The row of the greatest serial at n with mtime < before, if it is in   *)
(* cluster c; NONE otherwise (also when that serial is in another cluster).*)
version_lookup(n, before, c) ==
    LET cands == {s \in SerialsAt(n) : versions[s].mtime < before}
        s     == Max(cands)
    IN  IF cands # {} /\ versions[s].cluster = c THEN s ELSE NONE
RECURSIVE SizeOf(_)
SizeOf(S) ==
    IF S = {} THEN 0
    ELSE LET s == CHOOSE x \in S : TRUE IN versions[s].size + SizeOf(S \ {s})
InClusterBefore(S, c, before) ==
    {s \in S : versions[s].cluster = c /\ versions[s].mtime <= before}

-----------------------------------------------------------------------------
Init ==
    /\ nodes = [n \in NodeIds |->
                  IF n = ROOTNODE THEN [parent |-> ROOTNODE, path |-> RootPath]
                  ELSE NONE]
    /\ versions = [s \in Serials |-> NONE]
    /\ statistics = [k \in NodeIds \X Clusters |-> NONE]
    /\ now = 0

(* insert into nodes (parent, path): fails on a duplicate path (unique    *)
(* index) or a missing parent (foreign key).                              *)
node_create(path) ==
    LET parent == node_lookup(ParentPath[path])
        id     == NewRowId(LiveNodes)
    IN  /\ node_lookup(path) = NONE
        /\ parent # NONE
        /\ id <= MaxNodeId
        /\ nodes' = [nodes EXCEPT ![id] = [parent |-> parent, path |-> path]]
        /\ UNCHANGED <<versions, statistics, now>>

(* Returns False (no change) when the node has children.                  *)
node_remove(n) ==
    /\ node_count_children(n) = 0
    /\ LET cs == {versions[s].cluster : s \in SerialsAt(n)}
           Drop(c, st) ==
               LET vs == {s \in SerialsAt(n) : versions[s].cluster = c}
               IN  statistics_update_ancestors(st, n, -Cardinality(vs), -SizeOf(vs), c)
       IN  /\ DeleteNodes({n}, versions, FoldSet(Drop, statistics, cs))
           /\ UNCHANGED now

(* Mutant: parent's own statistics row is not updated, only its ancestors.*)
PurgeChildrenAncestorsOnly(parent, before, c) ==
    LET vs   == InClusterBefore({s \in LiveSerials :
                                   nodes[versions[s].node].parent = parent}, c, before)
        rest == [s \in Serials |-> IF s \in vs THEN NONE ELSE versions[s]]
        empty == {n \in LiveNodes : nodes[n].parent = parent /\
                                    \A s \in Serials : rest[s] # NONE => rest[s].node # n}
    IN  /\ vs # {}
        /\ DeleteNodes(empty, rest, statistics_update_ancestors(
                statistics, parent, -Cardinality(vs), -SizeOf(vs), c))
        /\ UNCHANGED now

(* Deletes the versions of cluster c, with mtime <= before, at every      *)
(* child of parent; then every child of parent left with no version at all *)
(* (the root too when parent is the root, which is its own parent).        *)
node_purge_children(parent, before, c) ==
    LET vs   == InClusterBefore({s \in LiveSerials :
                                   nodes[versions[s].node].parent = parent}, c, before)
        nr   == Cardinality(vs)
        size == SizeOf(vs)
        st   == statistics_update_ancestors(
                    statistics_update(statistics, parent, -nr, -size, c),
                    parent, -nr, -size, c)
        rest == [s \in Serials |-> IF s \in vs THEN NONE ELSE versions[s]]
        empty == {n \in LiveNodes : nodes[n].parent = parent /\
                                    \A s \in Serials : rest[s] # NONE => rest[s].node # n}
    IN  /\ nr > 0
        /\ DeleteNodes(empty, rest, st)
        /\ UNCHANGED now

(* Deletes the versions of cluster c, with mtime <= before, at node n;     *)
(* then n itself if it is left with no version at all.                    *)
node_purge(n, before, c) ==
    LET vs   == InClusterBefore(SerialsAt(n), c, before)
        nr   == Cardinality(vs)
        st   == statistics_update_ancestors(statistics, n, -nr, -SizeOf(vs), c)
        rest == [s \in Serials |-> IF s \in vs THEN NONE ELSE versions[s]]
        empty == IF \E s \in Serials : rest[s] # NONE /\ rest[s].node = n
                 THEN {} ELSE {n}
    IN  /\ nr > 0
        /\ DeleteNodes(empty, rest, st)
        /\ UNCHANGED now

version_create(n, size, c) ==
    LET serial == NewRowId(LiveSerials)
    IN  /\ serial <= MaxSerial
        /\ versions' = [versions EXCEPT ![serial] =
                          [node |-> n, size |-> size, mtime |-> now, cluster |-> c]]
        /\ statistics' = statistics_update_ancestors(statistics, n, 1, size, c)
        /\ UNCHANGED <<nodes, now>>

(* No change when the serial is gone or already in cluster c.             *)
version_recluster(serial, c) ==
    LET v == versions[serial]
    IN  /\ c # v.cluster
        /\ statistics' = statistics_update_ancestors(
                             statistics_update_ancestors(statistics, v.node, -1, -v.size, v.cluster),
                             v.node, 1, v.size, c)
        /\ versions' = [versions EXCEPT ![serial].cluster = c]
        /\ UNCHANGED <<nodes, now>>

version_remove(serial) ==
    LET v == versions[serial]
    IN  /\ statistics' = statistics_update_ancestors(statistics, v.node, -1, -v.size, v.cluster)
        /\ versions' = [versions EXCEPT ![serial] = NONE]
        /\ UNCHANGED <<nodes, now>>

(* The clock time() reads moves on.                                       *)
Tick ==
    /\ now < MaxTime
    /\ now' = now + 1
    /\ UNCHANGED <<nodes, versions, statistics>>

NodeOf(paths) == {node_lookup(p) : p \in paths} \ {NONE}

Next ==
    \/ \E p \in Paths : node_create(p)
    \/ \E n \in LiveNodes \ {ROOTNODE} : node_remove(n)
    \/ \E n \in NodeOf(PurgeChildrenOf), b \in Befores, c \in Clusters :
           node_purge_children(n, b, c)
    \/ \E n \in NodeOf(PurgeNodeAt), b \in Befores, c \in Clusters : node_purge(n, b, c)
    \/ \E n \in LiveNodes \ {ROOTNODE}, z \in Sizes, c \in Clusters : version_create(n, z, c)
    \/ \E s \in LiveSerials, c \in Clusters : version_recluster(s, c)
    \/ \E s \in LiveSerials : version_remove(s)
    \/ Tick

Spec == Init /\ [][Next]_vars

-----------------------------------------------------------------------------
(* Rows have their column types, and no row points at a missing row: the  *)
(* schema's foreign keys with ON DELETE CASCADE under "pragma foreign_keys *)
(* = on".                                                                 *)
TypeOK ==
    /\ nodes \in [NodeIds -> NodeRow \cup {NONE}]
    /\ versions \in [Serials -> VersionRow \cup {NONE}]
    /\ statistics \in [NodeIds \X Clusters -> StatRow \cup {NONE}]
    /\ now \in Times
    /\ \A n \in LiveNodes : nodes[n].parent \in LiveNodes
    /\ \A s \in LiveSerials : versions[s].node \in LiveNodes
    /\ \A k \in DOMAIN statistics : statistics[k] # NONE => k[1] \in LiveNodes

(* Spec 8: the size kept in statistics(n, c) is the total size of the     *)
(* versions of cluster c below n, as kept up to date by the walk of        *)
(* statistics_update_ancestors in every mutating method of Node.          *)
StatisticsSize ==
    \A n \in LiveNodes, c \in Clusters :
        StatGet(statistics, n, c).size =
            SizeOf({s \in LiveSerials : versions[s].cluster = c /\ IsBelow(versions[s].node, n)})

(* Spec 8: the population kept in statistics(n, c) counts the versions of *)
(* cluster c at n's direct children only; the ancestor walk zeroes it     *)
(* after the first hop.                                                   *)
StatisticsPopulation ==
    \A n \in LiveNodes, c \in Clusters :
        StatGet(statistics, n, c).population =
            Cardinality({s \in LiveSerials : versions[s].cluster = c /\
                                             versions[s].node # n /\
                                             nodes[versions[s].node].parent = n})

(* Spec 4.2 and 8: lookupCurrentVersion(node, before, cluster) is the     *)
(* version with the greatest serial among those of node in that cluster   *)
(* with mtime < before, as version_lookup is used for "current version".  *)
LookupIsLatestInCluster ==
    \A n \in LiveNodes \ {ROOTNODE}, b \in Befores, c \in Clusters :
        LET inC == {s \in SerialsAt(n) : versions[s].cluster = c /\ versions[s].mtime < b}
        IN  version_lookup(n, b, c) = IF inC = {} THEN NONE ELSE Max(inC)

(* The root row (0, 0, '') that Node.__init__ inserts is never deleted:   *)
(* every node hangs below it and node_create needs it as a parent.        *)
RootNodePresent == nodes[ROOTNODE] # NONE
=============================================================================
