------------------------------- MODULE MCServer -------------------------------
(* Two sockets and code of the process, one head and one finalized head.  *)
EXTENDS Server

CONSTANTS s1, s2, h1, f1

MCMessages == {<<>>, <<"rejected">>, <<"null">>, <<"subscribe">>, <<"unsubscribe">>,
               <<"subscribe", "query">>, <<"query", "query", "query">>}
=============================================================================
