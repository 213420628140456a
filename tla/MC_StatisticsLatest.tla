------------------------ MODULE MC_StatisticsLatest -------------------------
(* Paths as sequences of characters a, c, d, x and '/'.                   *)
EXTENDS StatisticsLatest

a == 1
c == 2
d == 3
x == 4
S == 5   \* '/'

\* account a, container a/c, objects a/c/x and a/c/xx
Acct == <<a>>
Cont == <<a, S, c>>
Obj1 == <<a, S, c, S, x>>
Obj2 == <<a, S, c, S, x, x>>
\* a second container whose name extends the first: a/cd
Cont2 == <<a, S, c, d>>

LayoutPaths == {Acct, Cont, Obj1, Obj2}
LayoutParent == [p \in LayoutPaths |-> CASE p = Acct -> <<>>
                                         [] p = Cont -> Acct
                                         [] OTHER -> Cont]

SiblingPaths == {Acct, Cont, Cont2, Obj1}
SiblingParent == [p \in SiblingPaths |-> CASE p = Acct -> <<>>
                                           [] p = Obj1 -> Cont
                                           [] OTHER -> Acct]

EmptyPath == <<>>
Containers == {Cont}
Accounts == {Acct}
=============================================================================
