--------------------------- MODULE MC_Attributes ----------------------------
(* A node with one child, one attribute key and one policy key: enough    *)
(* for ids to be reused under rows that carry attributes and policy.       *)
EXTENDS Attributes, MC_VersionTree

ChainPaths == {"a", "a/b"}
ChainParent == [p \in ChainPaths |-> IF p = "a" THEN "" ELSE "a"]

\* Terms as _regexfilter captures them from "color==red" and "!archived".
red == 1
ColorIsRed == [neg |-> FALSE, key |-> "color", op |-> "==", value |-> red]
NotArchived == [neg |-> TRUE, key |-> "archived", op |-> NOOP, value |-> EMPTYVALUE]
SpecScenario == {<<ColorIsRed, NotArchived>>}

=============================================================================
