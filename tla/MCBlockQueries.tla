---------------------------- MODULE MCBlockQueries ----------------------------
(* The queries about a block, one of the two at a time, on forks of length *)
(* two from the genesis block g.  They share nothing but the node and the   *)
(* view of it.  Bound: block data is asked for on the chain without y2.    *)
EXTENDS BlockTags, BlockData

CONSTANTS g, x1, x2, y1, y2

MCBlock == {g, x1, x2, y1, y2}
MCNumber == [b \in MCBlock |-> CASE b = g -> 0 [] b \in {x1, y1} -> 1 [] OTHER -> 2]
MCAncestors ==
  [b \in MCBlock |-> CASE b = g -> {g} [] b = x1 -> {g, x1} [] b = y1 -> {g, y1}
                       [] b = x2 -> {g, x1, x2} [] b = y2 -> {g, y1, y2}]

VARIABLE asked      \* which query

MCInit == Init /\ DataInit /\ asked \in {"tags", "data"}

MCNext ==
  /\ \/ asked = "tags" /\ Next /\ UNCHANGED <<indexedTo, dataCache, call, uncovered>>
     \/ asked = "data" /\ DataNext /\ bestHead' # y2 /\ UNCHANGED <<queryCache, query>>
  /\ UNCHANGED asked

MCSpec == MCInit /\ [][MCNext]_<<vars, dataVars, asked>>
=============================================================================
