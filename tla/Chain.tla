-------------------------------- MODULE Chain --------------------------------
(***************************************************************************)
(* The Substrate node the provider is connected to, which is not part of   *)
(* the repository: a tree of blocks, the best block, and the last          *)
(* finalized block.  It is modelled from what the provider relies on: new  *)
(* heads may switch forks above the finalized block, and finality only     *)
(* grows along one chain.                                                  *)
(*                                                                         *)
(* The tree is given by Ancestors so that nothing here is recursive.       *)
(***************************************************************************)
EXTENDS Naturals

CONSTANTS Block,        \* the block hashes of every fork
          Genesis,
          NoBlock,
          Number,       \* the height of a block
          Ancestors     \* the chain a block ends, itself included

ASSUME TreeAssumption ==
  /\ Genesis \in Block
  /\ NoBlock \notin Block
  /\ Number \in [Block -> Nat]
  /\ Number[Genesis] = 0
  /\ Ancestors \in [Block -> SUBSET Block]
  /\ \A b \in Block :
       /\ b \in Ancestors[b]
       /\ Genesis \in Ancestors[b]
       /\ \A p \in Ancestors[b] :
            /\ Ancestors[p] \subseteq Ancestors[b]
            /\ p # b => Number[p] < Number[b]
            /\ \A q \in Ancestors[b] : Number[p] <= Number[q] => p \in Ancestors[q]

VARIABLES known,          \* the blocks the node has
          bestHead,       \* its best block
          finalizedHead   \* its last finalized block

chainVars == <<known, bestHead, finalizedHead>>

ChainTypeOK ==
  /\ known \subseteq Block
  /\ Ancestors[bestHead] \subseteq known
  /\ bestHead \in Block
  /\ finalizedHead \in Block
  /\ finalizedHead \in Ancestors[bestHead]

ChainInit == known = {Genesis} /\ bestHead = Genesis /\ finalizedHead = Genesis

(* A block is imported as the new best block, and so announced, once: it   *)
(* is on the finalized chain and not lower than the best block it          *)
(* replaces, which it may abandon.  Blocks below it may have been imported *)
(* before it without ever being best.                                      *)
NewBest(b) ==
  /\ b \notin known
  /\ known' = known \cup Ancestors[b]
  /\ finalizedHead \in Ancestors[b]
  /\ Number[b] >= Number[bestHead]
  /\ bestHead' = b
  /\ UNCHANGED finalizedHead

(* A block of the best chain is finalized, with every block below it. *)
Finalize(b) ==
  /\ b \in Ancestors[bestHead]
  /\ Number[b] > Number[finalizedHead]
  /\ finalizedHead' = b
  /\ UNCHANGED <<known, bestHead>>

IsFinal(b) == b \in Ancestors[finalizedHead]
=============================================================================
