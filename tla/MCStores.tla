------------------------------- MODULE MCStores -------------------------------
(* The two bounded stores, one at a time, for they share nothing: the set  *)
(* on more hashes than its bound, so that every hash is evicted and added  *)
(* again; the cache on five blocks, with transactions on two forks.        *)
EXTENDS MaxSizeSet, BlockCache

CONSTANTS a, b, c, d, e, t1, t2, t3

MCBlock == {a, b, c, d, e}
MCTx == {t1, t2, t3}

(* Blocks a and b are siblings of two forks that both include t1, and c is *)
(* a child of b that includes the transaction t2 the fork had taken first. *)
Forks == [k \in MCBlock |-> CASE k = a -> {t1, t2} [] k = b -> {t1} [] k = c -> {t2}
                             [] k = d -> {t3} [] OTHER -> {}]

VARIABLE store      \* the one that is used

MCInit ==
  /\ SetInit /\ Init
  /\ store \in {"set", "cache"}
  /\ store = "cache" => maxSize = MaxCachedBlocks

MCNext ==
  /\ \/ store = "set" /\ SetNext /\ UNCHANGED vars
     \/ store = "cache" /\ Next /\ UNCHANGED setVars
  /\ UNCHANGED store

MCSpec == MCInit /\ [][MCNext]_<<setVars, vars, store>>
=============================================================================
