--------------------------- MODULE VersionTreeTxn ---------------------------
(***************************************************************************)
(* The methods of node.py's Node split into the SQL statements they issue,*)
(* run by several request processes on one sqlite file.                    *)
(*                                                                         *)
(* Each process has its own connection. A statement that writes takes the *)
(* file's write lock (RESERVED) and keeps it until the transaction ends;   *)
(* the caller commits after the method returns, or rolls back when it     *)
(* raises. Until then other connections read the committed file: writes   *)
(* of the holder are visible only to the holder.                          *)
(*                                                                         *)
(* Where the transaction begins is the caller's choice, outside node.py:  *)
(* with LockAtBegin the caller opens it before the call (BEGIN IMMEDIATE);*)
(* without, pysqlite opens it implicitly before the first insert, update  *)
(* or delete, so the reads that come before run outside it.               *)
(*                                                                         *)
(* The atomic VersionTree is the abstract specification: the committed    *)
(* file, mapped to VersionTree's tables, must change by its steps only.   *)
(***************************************************************************)
EXTENDS Naturals, Integers, FiniteSets, FiniteSetsExt

CONSTANTS
    Paths, RootPath, ParentPath, Clusters, Sizes, MaxNodeId, MaxSerial,
    MaxTime, PurgeNodeAt, PurgeChildrenOf, NONE,
    Procs,          \* request processes, each with its own connection
    LockAtBegin     \* the caller takes the write lock before the call

VARIABLES
    committed,  \* the tables as the file holds them: [nodes, versions, statistics]
    db,         \* the tables as the lock holder's connection sees them
    lock,       \* the process holding the write lock, or NONE
    clock,      \* the value time() returns
    pc,         \* pc[p]: the statement process p executes next
    f,          \* f[p]: the arguments and locals of p's current call
    lastNow     \* history: the time() value of the latest version_create

tvars == <<committed, db, lock, clock, pc, f, lastNow>>

VT == INSTANCE VersionTree WITH
        nodes <- committed.nodes, versions <- committed.versions,
        statistics <- committed.statistics, now <- lastNow

ROOTNODE == VT!ROOTNODE
Serials  == VT!Serials
NodeIds  == VT!NodeIds

\* A call's locals: unused ones are NONE.
Idle == [m |-> "none", path |-> NONE, node |-> NONE, serial |-> NONE,
         size |-> NONE, cluster |-> NONE, old |-> NONE, mtime |-> NONE,
         cur |-> NONE, pop |-> NONE, sz |-> NONE, wc |-> NONE, pre |-> NONE,
         phase |-> NONE]

\* What p's statements read: its own writes while it holds the lock.
View(p) == IF lock = p THEN db ELSE committed

Live(t)    == {n \in NodeIds : t.nodes[n] # NONE}
LiveSer(t) == {s \in Serials : t.versions[s] # NONE}

\* "select node from nodes where path = ?"
PathNode(t, path) ==
    IF \E n \in Live(t) : t.nodes[n].path = path
    THEN CHOOSE n \in Live(t) : t.nodes[n].path = path
    ELSE NONE

\* A writing statement waits for the lock unless p holds it.
CanWrite(p) == lock \in {NONE, p}

\* The calls callers make: a node id or serial they hold from a lookup.
Calls(p) ==
    LET t == View(p) IN
    {[Idle EXCEPT !.m = "node_create", !.path = x] : x \in Paths}
    \cup {[Idle EXCEPT !.m = "version_create", !.node = n, !.size = z, !.cluster = c] :
            n \in Live(t) \ {ROOTNODE}, z \in Sizes, c \in Clusters}
    \cup {[Idle EXCEPT !.m = "version_remove", !.serial = s] : s \in LiveSer(t)}
    \cup {[Idle EXCEPT !.m = "version_recluster", !.serial = s, !.cluster = c] :
            s \in LiveSer(t), c \in Clusters}

FirstStep == [m \in {"node_create", "version_create", "version_remove", "version_recluster"} |->
                CASE m = "node_create"    -> "insert_node"
                  [] m = "version_create" -> "time"
                  [] OTHER                -> "props"]

Init ==
    /\ committed = [nodes |-> [n \in NodeIds |->
                                 IF n = ROOTNODE THEN [parent |-> ROOTNODE, path |-> RootPath]
                                 ELSE NONE],
                    versions |-> [s \in Serials |-> NONE],
                    statistics |-> [k \in NodeIds \X Clusters |-> NONE]]
    /\ db = committed
    /\ lock = NONE
    /\ clock = 0
    /\ pc = [p \in Procs |-> "idle"]
    /\ f = [p \in Procs |-> Idle]
    /\ lastNow = 0

(* A request calls a method of Node; with LockAtBegin its transaction     *)
(* takes the write lock first.                                            *)
Call(p) ==
    /\ pc[p] = "idle"
    /\ LockAtBegin => lock = NONE
    /\ \E call \in Calls(p) :
          /\ f' = [f EXCEPT ![p] = call]
          /\ pc' = [pc EXCEPT ![p] = FirstStep[call.m]]
    /\ lock' = IF LockAtBegin THEN p ELSE lock
    /\ UNCHANGED <<committed, db, clock, lastNow>>

-----------------------------------------------------------------------------
\* p's statement changes the tables: it takes the lock and writes db.
Write(p, t) == /\ CanWrite(p) /\ lock' = p /\ db' = t

(* node_create: "insert into nodes (parent, path)"; the caller passed the *)
(* parent it looked up.  A duplicate path or missing parent fails the     *)
(* insert: the caller rolls back.                                         *)
InsertNode(p) ==
    LET t      == View(p)
        path   == f[p].path
        parent == PathNode(t, ParentPath[path])
        id     == VT!NewRowId(Live(t))
    IN  /\ pc[p] = "insert_node"
        /\ id <= MaxNodeId
        /\ IF PathNode(t, path) = NONE /\ parent # NONE
           THEN /\ Write(p, [t EXCEPT !.nodes[id] = [parent |-> parent, path |-> path]])
                /\ pc' = [pc EXCEPT ![p] = "commit"]
           ELSE /\ CanWrite(p)
                /\ db' = committed /\ lock' = NONE
                /\ pc' = [pc EXCEPT ![p] = "idle"]
        /\ UNCHANGED <<committed, clock, f, lastNow>>

(* version_create: mtime = time(), read before the insert.                *)
TimeRead(p) ==
    /\ pc[p] = "time"
    /\ f' = [f EXCEPT ![p].mtime = clock]
    /\ lastNow' = clock
    /\ pc' = [pc EXCEPT ![p] = "insert"]
    /\ UNCHANGED <<committed, db, lock, clock>>

(* "insert into versions ...": the serial is lastrowid; then the walk     *)
(* statistics_update_ancestors(node, 1, size, mtime, cluster).            *)
InsertVersion(p) ==
    LET t      == View(p)
        serial == VT!NewRowId(LiveSer(t))
        fr     == f[p]
    IN  /\ pc[p] = "insert"
        /\ serial <= MaxSerial
        /\ Write(p, [t EXCEPT !.versions[serial] =
                       [node |-> fr.node, size |-> fr.size, mtime |-> fr.mtime,
                        cluster |-> fr.cluster]])
        /\ f' = [f EXCEPT ![p] = [fr EXCEPT !.serial = serial, !.cur = fr.node,
                                   !.pop = 1, !.sz = fr.size, !.wc = fr.cluster]]
        /\ pc' = [pc EXCEPT ![p] = "hop"]
        /\ UNCHANGED <<committed, clock, lastNow>>

(* version_remove and version_recluster: version_get_properties(serial);  *)
(* return when it is gone, or, for recluster, already in the cluster.     *)
(* Otherwise the first walk takes the version's count and size off its    *)
(* cluster.                                                               *)
Props(p) ==
    LET v  == View(p).versions[f[p].serial]
        fr == f[p]
    IN  /\ pc[p] = "props"
        /\ IF v = NONE \/ (fr.m = "version_recluster" /\ v.cluster = fr.cluster)
           THEN /\ pc' = [pc EXCEPT ![p] = "commit"]
                /\ UNCHANGED f
           ELSE /\ f' = [f EXCEPT ![p] = [fr EXCEPT !.node = v.node, !.size = v.size,
                                            !.old = v.cluster, !.cur = v.node,
                                            !.pop = -1, !.sz = -v.size, !.wc = v.cluster,
                                            !.phase = 1]]
                /\ pc' = [pc EXCEPT ![p] = "hop"]
        /\ UNCHANGED <<committed, db, lock, clock, lastNow>>

-----------------------------------------------------------------------------
(* statistics_update_ancestors, one loop turn: node_get_properties(node), *)
(* then statistics_update's "select population, size from statistics".    *)
Hop(p) ==
    LET t  == View(p)
        fr == f[p]
    IN  /\ pc[p] = "hop"
        /\ fr.cur # ROOTNODE
        /\ t.nodes[fr.cur] # NONE
        /\ f' = [f EXCEPT ![p].pre = VT!StatGet(t.statistics, t.nodes[fr.cur].parent, fr.wc),
                          ![p].cur = t.nodes[fr.cur].parent]
        /\ pc' = [pc EXCEPT ![p] = "swrite"]
        /\ UNCHANGED <<committed, db, lock, clock, lastNow>>

(* Mutant: the walk keeps the population after the first hop.             *)
StatWriteKeepPopulation(p) ==
    LET fr == f[p] IN
    /\ pc[p] = "swrite"
    /\ Write(p, [View(p) EXCEPT !.statistics[<<fr.cur, fr.wc>>] =
                   [population |-> fr.pre.population + fr.pop, size |-> fr.pre.size + fr.sz]])
    /\ UNCHANGED f
    /\ pc' = [pc EXCEPT ![p] = "hop"]
    /\ UNCHANGED <<committed, clock, lastNow>>

(* statistics_update's "insert or replace into statistics" of the values  *)
(* read plus the deltas; the walk moves to the parent, population 0.      *)
StatWrite(p) ==
    LET fr == f[p] IN
    /\ pc[p] = "swrite"
    /\ Write(p, [View(p) EXCEPT !.statistics[<<fr.cur, fr.wc>>] =
                   [population |-> fr.pre.population + fr.pop, size |-> fr.pre.size + fr.sz]])
    /\ f' = [f EXCEPT ![p].pop = 0]
    /\ pc' = [pc EXCEPT ![p] = "hop"]
    /\ UNCHANGED <<committed, clock, lastNow>>

(* The loop breaks at the root (or a missing node). version_recluster     *)
(* then walks again, adding to the new cluster; the others go on to their *)
(* row statement.                                                         *)
WalkDone(p) ==
    LET t  == View(p)
        fr == f[p]
    IN  /\ pc[p] = "hop"
        /\ fr.cur = ROOTNODE \/ t.nodes[fr.cur] = NONE
        /\ IF fr.m = "version_recluster" /\ fr.phase = 1
           THEN /\ f' = [f EXCEPT ![p] = [fr EXCEPT !.cur = fr.node, !.pop = 1,
                                            !.sz = fr.size, !.wc = fr.cluster, !.phase = 2]]
                /\ pc' = [pc EXCEPT ![p] = "hop"]
           ELSE /\ pc' = [pc EXCEPT ![p] = CASE fr.m = "version_create" -> "commit"
                                              [] fr.m = "version_remove" -> "delete"
                                              [] OTHER                   -> "update"]
                /\ UNCHANGED f
        /\ UNCHANGED <<committed, db, lock, clock, lastNow>>

(* version_remove: "delete from versions where serial = ?".               *)
Delete(p) ==
    /\ pc[p] = "delete"
    /\ Write(p, [View(p) EXCEPT !.versions[f[p].serial] = NONE])
    /\ pc' = [pc EXCEPT ![p] = "commit"]
    /\ UNCHANGED <<committed, clock, f, lastNow>>

(* version_recluster: "update versions set cluster = ? where serial = ?"; *)
(* no row changes when the serial is gone.                                *)
Update(p) ==
    LET t == View(p)
        s == f[p].serial
    IN  /\ pc[p] = "update"
        /\ Write(p, IF t.versions[s] = NONE THEN t
                    ELSE [t EXCEPT !.versions[s].cluster = f[p].cluster])
        /\ pc' = [pc EXCEPT ![p] = "commit"]
        /\ UNCHANGED <<committed, clock, f, lastNow>>

(* The method returns and the caller commits: the holder's tables become  *)
(* the file's, and the lock is released.                                  *)
Commit(p) ==
    /\ pc[p] = "commit"
    /\ IF lock = p
       THEN /\ committed' = db /\ lock' = NONE
       ELSE UNCHANGED <<committed, lock>>
    /\ pc' = [pc EXCEPT ![p] = "idle"]
    /\ f' = [f EXCEPT ![p] = Idle]
    /\ UNCHANGED <<db, clock, lastNow>>

(* The request dies, or a statement raises, between two statements: the   *)
(* transaction rolls back and the lock is released.                       *)
Crash(p) ==
    /\ pc[p] # "idle"
    /\ IF lock = p THEN lock' = NONE /\ db' = committed
       ELSE UNCHANGED <<db, lock>>
    /\ pc' = [pc EXCEPT ![p] = "idle"]
    /\ f' = [f EXCEPT ![p] = Idle]
    /\ UNCHANGED <<committed, clock, lastNow>>

Tick ==
    /\ clock < MaxTime
    /\ clock' = clock + 1
    /\ UNCHANGED <<committed, db, lock, pc, f, lastNow>>

Next ==
    \/ \E p \in Procs :
          \/ Call(p) \/ InsertNode(p) \/ TimeRead(p) \/ InsertVersion(p) \/ Props(p)
          \/ Hop(p) \/ StatWrite(p) \/ WalkDone(p) \/ Delete(p) \/ Update(p)
          \/ Commit(p) \/ Crash(p)
    \/ Tick

Spec == Init /\ [][Next]_tvars

-----------------------------------------------------------------------------
Tables == [nodes : [NodeIds -> VT!NodeRow \cup {NONE}],
           versions : [Serials -> VT!VersionRow \cup {NONE}],
           statistics : [NodeIds \X Clusters -> VT!StatRow \cup {NONE}]]

(* Outside a transaction a connection sees the file as committed.         *)
TxnTypeOK ==
    /\ committed \in Tables /\ db \in Tables
    /\ lock \in Procs \cup {NONE}
    /\ clock \in 0..MaxTime /\ lastNow \in 0..MaxTime
    /\ lock = NONE => db = committed

(* Spec section 5: every mutating method is one atomic transaction, the   *)
(* row change together with its statistics walk. The committed file      *)
(* changes only by steps of the atomic VersionTree, whatever the          *)
(* interleaving of the processes' statements and their crashes.           *)
Refines == VT!Spec
=============================================================================
