------------------------------- MODULE HeadView -------------------------------
(***************************************************************************)
(* What the head pipeline shows to the rest of the provider, and all that  *)
(* the queries may rely on: the finalized stream, the latest block, and    *)
(* which blocks have their receipts cached.  Heads are cached late, out of *)
(* order, or never; cached blocks may go at any time.                      *)
(*                                                                         *)
(* HeadPipeline implements this module; the query modules extend it.       *)
(***************************************************************************)
EXTENDS Chain

CONSTANT WithTxs            \* the blocks that have EVM transactions

VARIABLES finalized,        \* the last value of finalized$
          finalHashes,      \* the members of finalizedBlockHashes
          lastCachedBlock,
          cached            \* those of them in the block cache

viewVars == <<finalized, finalHashes, lastCachedBlock, cached>>

ViewTypeOK ==
  /\ ChainTypeOK
  /\ {finalized, lastCachedBlock} \subseteq known \cup {NoBlock}
  /\ finalHashes \subseteq known
  /\ cached \subseteq known

ViewInit ==
  /\ ChainInit
  /\ finalized = NoBlock
  /\ finalHashes = {}
  /\ lastCachedBlock = NoBlock
  /\ cached = {}

Announced(b) ==
  /\ finalized' = b
  /\ finalHashes' \in SUBSET (finalHashes \cup {b})
  /\ UNCHANGED <<lastCachedBlock, cached>>

Latest(b) ==
  /\ lastCachedBlock' = b
  /\ cached' \in SUBSET (cached \cup ({b} \cap WithTxs))
  /\ UNCHANGED <<finalized, finalHashes>>

HeadImported(b) == NewBest(b) /\ UNCHANGED viewVars

BlockFinalized(b) ==
  /\ Finalize(b)
  /\ Announced(b) \/ UNCHANGED viewVars

(* The announcement reaches the provider later, or once more. *)
FinalAnnounced == Announced(finalizedHead) /\ UNCHANGED chainVars

HeadCached(b) == b \in known /\ Latest(b) /\ UNCHANGED chainVars

ViewNext ==
  \/ \E b \in Block : HeadImported(b) \/ BlockFinalized(b) \/ HeadCached(b)
  \/ FinalAnnounced

ViewSpec == ViewInit /\ [][ViewNext]_<<chainVars, viewVars>>

-----------------------------------------------------------------------------
(* The getters of the provider, once both streams have a value. *)
BestBlockHash == lastCachedBlock
BestBlockNumber == Number[lastCachedBlock]

FinalizedBlockHash ==
  IF Number[finalized] <= BestBlockNumber THEN finalized ELSE BestBlockHash

FinalizedBlockNumber ==
  IF Number[finalized] <= BestBlockNumber THEN Number[finalized] ELSE BestBlockNumber

(* Both getters throw or wait before that. *)
ViewReady == finalized # NoBlock /\ lastCachedBlock # NoBlock
=============================================================================
