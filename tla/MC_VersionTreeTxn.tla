-------------------------- MODULE MC_VersionTreeTxn --------------------------
(* Two request processes on a node with one child: the statistics walk of *)
(* a version at the child takes two hops, and both processes can write    *)
(* the same statistics rows.                                              *)
EXTENDS VersionTreeTxn

CONSTANTS p1, p2

TxnProcs == {p1, p2}
TxnPaths == {"a", "a/b"}
TxnParent == [x \in TxnPaths |-> IF x = "a" THEN "" ELSE "a"]
=============================================================================
