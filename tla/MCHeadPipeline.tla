---------------------------- MODULE MCHeadPipeline ----------------------------
(* HeadPipeline on a chain g - x1 - x2 with a sibling y1 of x1.            *)
(* Under MCSpec at most MaxRetried tasks begin their last attempt.         *)
EXTENDS HeadPipeline

CONSTANTS g, x1, x2, y1, t1, t2, MaxRetried

MCBlock == {g, x1, x2, y1}
MCNumber == [b \in MCBlock |-> CASE b = g -> 0 [] b = x2 -> 2 [] OTHER -> 1]
MCAncestors ==
  [b \in MCBlock |-> CASE b = g -> {g} [] b = x1 -> {g, x1}
                       [] b = y1 -> {g, y1} [] b = x2 -> {g, x1, x2}]
MCTxsIn == [b \in MCBlock |-> CASE b = x1 -> {t1} [] b = x2 -> {t2} [] OTHER -> {}]

MCNext ==
  /\ Next
  /\ Cardinality({i \in DOMAIN tasks' : tasks'[i].left = 0}) <= MaxRetried

MCSpec == Init /\ [][MCNext]_vars
=============================================================================
