----------------------------- MODULE MC_Listing -----------------------------
(* Strings over a, b and the delimiter '/', coded so that '/' is the      *)
(* largest character a path uses and MaxChar (0xffff) is one above it.    *)
EXTENDS Listing

a == 1
b == 2
S == 3    \* '/'
X == 4    \* the character after '/', used by listing_skip

MC_MaxChar == 4

\* a, ab, a/, a/a, b, b/a
MC_Universe == {<<a>>, <<a, b>>, <<a, S>>, <<a, S, a>>, <<b>>, <<b, S, a>>}

\* '', 'a', 'a/', and a prefix ending in 0xffff
MC_Prefixes == {<<>>, <<a>>, <<a, S>>, <<MC_MaxChar>>}
MC_Starts == {<<>>, <<a, S>>}
MC_Delimiters == {<<>>, <<S>>}
MC_Limits == {1, 2}

\* listing_terminates: two directories and a direct path.
Term_Universe == {<<a>>, <<a, S, a>>, <<a, S, b>>, <<b, S, a>>}
Term_Delimiters == {<<S>>}

\* listing_skip: a0 (the successor of the directory a/) is a path.
Skip_MaxChar == 5
Skip_Universe == {<<a, S, a>>, <<a, X>>, <<b>>}
Skip_Prefixes == {<<>>}

\* listing_maxchar: a path a<0xffff>a lies between strprevling('b') and 'c'.
Max_Universe == {<<a, MC_MaxChar, a>>, <<b>>}
Max_Prefixes == {<<b>>}
=============================================================================
