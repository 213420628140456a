------------------------- MODULE MC_ChunkedTransfer -------------------------
EXTENDS ChunkedTransfer

\* A success, a status of ERROR_CODES, and every body of up to two characters.
MC_Statuses == {201, 404}
MC_Bodies == {<<>>, <<"c">>, <<"\n">>, <<"c", "\n">>, <<"\n", "\n">>, <<"c", "c">>, <<"\n", "c">>}
=============================================================================
