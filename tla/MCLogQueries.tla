---------------------------- MODULE MCLogQueries -----------------------------
(* LogQueries on a chain g - x1 - x2 with a sibling y1 of x1.  MCSpec has  *)
(* log filters, block filters or calls of eth_getLogs, which share the     *)
(* query cache only, and one other call of _getBlockHash waiting at a time *)
(* (with block filters none: they do not read what it keeps).              *)
EXTENDS LogQueries

CONSTANTS g, x1, x2, y1

MCBlock == {g, x1, x2, y1}
MCNumber == [b \in MCBlock |-> CASE b = g -> 0 [] b = x2 -> 2 [] OTHER -> 1]
MCAncestors ==
  [b \in MCBlock |-> CASE b = g -> {g} [] b = x1 -> {g, x1}
                       [] b = y1 -> {g, y1} [] b = x2 -> {g, x1, x2}]
MCRanges == {<<0, 2>>, <<1, 1>>}
MCFilterRanges == {<<0, 2>>}

VARIABLE use        \* what clients do

MCInit == Init /\ use \in {"logs", "blocks", "calls"}

MCNext ==
  /\ Next
  /\ Cardinality(replies') <= IF use = "blocks" THEN 0 ELSE 1
  /\ \A f \in Filter : filter'[f].kind \in {"none", use}
  /\ use = "calls" \/ \A q \in Query : query'[q].of # Client
  /\ UNCHANGED use

MCSpec == MCInit /\ [][MCNext]_<<vars, use>>
=============================================================================
