----------------------------- MODULE HeadViewProofs -----------------------------
(* What every query may rely on while the chain and the view of it move:   *)
(* final blocks stay final, what the provider calls finalized is final,    *)
(* and a height that is final has one block for good.                      *)
EXTENDS HeadView, TLAPS

(* Facts about the block tree, and what no step of the node undoes.        *)
LEMMA AncestorsOfBlock ==
  ASSUME NEW b \in Block
  PROVE  /\ b \in Ancestors[b]
         /\ Ancestors[b] \subseteq Block
         /\ Number[b] \in Nat
         /\ \A p \in Ancestors[b] : Number[p] \in Nat /\ Number[p] <= Number[b]
         /\ \A p \in Ancestors[b] : Ancestors[p] \subseteq Ancestors[b]
  BY TreeAssumption

LEMMA OneChain ==
  ASSUME NEW b \in Block, NEW p \in Ancestors[b], NEW q \in Ancestors[b],
         Number[p] <= Number[q]
  PROVE  p \in Ancestors[q]
  BY TreeAssumption

(* Two blocks of one chain at one height are the same. *)
LEMMA OneBlockPerHeight ==
  ASSUME NEW b \in Block, NEW p \in Ancestors[b], NEW q \in Ancestors[b],
         Number[p] = Number[q]
  PROVE  p = q
<1>1. p \in Block /\ q \in Block /\ Number[p] \in Nat
  BY AncestorsOfBlock
<1>2. p \in Ancestors[q]
  BY <1>1, OneChain
<1>3. QED
  BY <1>1, <1>2, TreeAssumption

(* Finality only grows, and the finalized block stays on the best chain. *)
LEMMA FinalizeStep ==
  ASSUME ChainTypeOK, NEW b \in Block, Finalize(b)
  PROVE  /\ ChainTypeOK'
         /\ known' = known
         /\ b \in known
         /\ finalizedHead' = b
         /\ b \notin Ancestors[finalizedHead]
         /\ Ancestors[finalizedHead] \subseteq Ancestors[finalizedHead']
<1>1. bestHead \in Block /\ finalizedHead \in Ancestors[bestHead] /\ b \in Ancestors[bestHead]
  BY DEF Finalize, ChainTypeOK
<1>2. Number[finalizedHead] \in Nat /\ Number[b] \in Nat /\ Number[finalizedHead] < Number[b]
  BY <1>1, AncestorsOfBlock DEF Finalize
<1>3. finalizedHead \in Ancestors[b]
  BY <1>1, <1>2, OneChain
<1>4. b \notin Ancestors[finalizedHead]
  BY <1>2, AncestorsOfBlock DEF ChainTypeOK
<1>5. QED
  BY <1>1, <1>3, <1>4, AncestorsOfBlock DEF Finalize, ChainTypeOK

LEMMA NewBestStep ==
  ASSUME ChainTypeOK, NEW b \in Block, NewBest(b)
  PROVE  /\ ChainTypeOK'
         /\ known \subseteq known'
         /\ b \in known' /\ b \notin known
         /\ bestHead' = b
         /\ Number[bestHead] <= Number[b]
         /\ finalizedHead' = finalizedHead
  BY AncestorsOfBlock DEF NewBest, ChainTypeOK

(* What the node calls best and finalized it has. *)
LEMMA HeadsKnown ==
  ASSUME ChainTypeOK
  PROVE  /\ bestHead \in known /\ finalizedHead \in known
         /\ known \subseteq Block
         /\ IsFinal(finalizedHead)
  BY AncestorsOfBlock DEF ChainTypeOK, IsFinal

-----------------------------------------------------------------------------
(* The hash at a height of the best chain: the answer of the node. *)
At(n, b) == b \in Ancestors[bestHead] /\ Number[b] = n

(* The invariant of the view: all it calls finalized is final. *)
ViewInv ==
  /\ ViewTypeOK
  /\ finalized # NoBlock => IsFinal(finalized)
  /\ \A b \in finalHashes : IsFinal(b)

LEMMA ViewInvInit == ViewInit => ViewInv
  BY TreeAssumption DEF ViewInit, ChainInit, ViewInv, ViewTypeOK, ChainTypeOK, IsFinal

(* Finality only grows. *)
LEMMA FinalStays ==
  ASSUME ViewInv, [ViewNext]_<<chainVars, viewVars>>
  PROVE  Ancestors[finalizedHead] \subseteq Ancestors[finalizedHead']
<1>1. ASSUME NEW b \in Block, Finalize(b)
      PROVE  Ancestors[finalizedHead] \subseteq Ancestors[finalizedHead']
  BY <1>1, FinalizeStep DEF ViewInv, ViewTypeOK
<1>2. ASSUME NEW b \in Block, NewBest(b) PROVE finalizedHead' = finalizedHead
  BY <1>2 DEF NewBest
<1>3. CASE UNCHANGED chainVars
  BY <1>3 DEF chainVars
<1>4. QED
  BY <1>1, <1>2, <1>3
  DEF ViewNext, HeadImported, BlockFinalized, HeadCached, FinalAnnounced

LEMMA ChainTypeStays ==
  ASSUME ViewInv, [ViewNext]_<<chainVars, viewVars>>
  PROVE  ChainTypeOK' /\ known \subseteq known'
<1>1. ASSUME NEW b \in Block, Finalize(b) PROVE ChainTypeOK' /\ known \subseteq known'
  BY <1>1, FinalizeStep DEF ViewInv, ViewTypeOK
<1>2. ASSUME NEW b \in Block, NewBest(b) PROVE ChainTypeOK' /\ known \subseteq known'
  BY <1>2, NewBestStep DEF ViewInv, ViewTypeOK
<1>3. CASE UNCHANGED chainVars
  BY <1>3 DEF chainVars, ViewInv, ViewTypeOK, ChainTypeOK
<1>4. QED
  BY <1>1, <1>2, <1>3
  DEF ViewNext, HeadImported, BlockFinalized, HeadCached, FinalAnnounced

LEMMA ViewInvStays ==
  ASSUME ViewInv, [ViewNext]_<<chainVars, viewVars>>
  PROVE  ViewInv'
<1>1. ChainTypeOK' /\ known \subseteq known'
  BY ChainTypeStays
<1>2. \A b : IsFinal(b) => IsFinal(b)'
  BY FinalStays DEF IsFinal
<1>3. CASE UNCHANGED viewVars
  BY <1>1, <1>2, <1>3 DEF viewVars, ViewInv, ViewTypeOK
<1>4. CASE Announced(finalizedHead')
  <2>1. IsFinal(finalizedHead)' /\ finalizedHead' \in known'
    BY <1>1, AncestorsOfBlock DEF IsFinal, ChainTypeOK
  <2>2. /\ finalized' = finalizedHead'
        /\ finalHashes' \subseteq finalHashes \cup {finalizedHead'}
        /\ UNCHANGED <<lastCachedBlock, cached>>
    BY <1>4 DEF Announced
  <2>3. ViewTypeOK'
    BY <1>1, <2>1, <2>2 DEF ViewInv, ViewTypeOK
  <2>4. QED
    BY <1>2, <2>1, <2>2, <2>3 DEF ViewInv
<1>5. ASSUME NEW b \in Block, HeadCached(b) PROVE ViewInv'
  <2>1. /\ UNCHANGED <<finalized, finalHashes>>
        /\ lastCachedBlock' = b /\ b \in known'
        /\ cached' \subseteq cached \cup {b}
    BY <1>1, <1>5 DEF HeadCached, Latest
  <2>2. ViewTypeOK'
    BY <1>1, <2>1 DEF ViewInv, ViewTypeOK
  <2>3. QED
    BY <1>2, <2>1, <2>2 DEF ViewInv
<1>6. QED
  <2>1. ASSUME NEW b \in Block, BlockFinalized(b)
        PROVE  Announced(finalizedHead') \/ UNCHANGED viewVars
    BY <2>1 DEF BlockFinalized, Finalize
  <2>2. ASSUME FinalAnnounced PROVE Announced(finalizedHead')
    BY <2>2 DEF FinalAnnounced, chainVars
  <2>3. QED
    BY <1>3, <1>4, <1>5, <2>1, <2>2 DEF ViewNext, HeadImported

(* The finalized number of the provider is never ahead of the chain's. *)
LEMMA FinalizedNumberIsFinal ==
  ASSUME ViewInv, ViewReady
  PROVE  /\ FinalizedBlockNumber \in Nat
         /\ FinalizedBlockNumber <= Number[finalizedHead]
         /\ FinalizedBlockHash \in Block
         /\ Number[FinalizedBlockHash] = FinalizedBlockNumber
<1>1. /\ finalizedHead \in Block /\ lastCachedBlock \in Block
      /\ finalized \in Ancestors[finalizedHead]
  BY DEF ViewInv, ViewTypeOK, ChainTypeOK, ViewReady, IsFinal
<1>2. /\ Number[finalized] \in Nat /\ Number[finalized] <= Number[finalizedHead]
      /\ Number[lastCachedBlock] \in Nat /\ Number[finalizedHead] \in Nat
      /\ finalized \in Block
  BY <1>1, AncestorsOfBlock
<1>3. QED
  BY <1>1, <1>2 DEF FinalizedBlockNumber, FinalizedBlockHash, BestBlockNumber, BestBlockHash

(* What the best chain has at a final height is final. *)
LEMMA FinalHeight ==
  ASSUME ViewInv, NEW n \in Nat, n <= Number[finalizedHead], NEW b, At(n, b)
  PROVE  IsFinal(b)
<1>1. /\ bestHead \in Block /\ finalizedHead \in Ancestors[bestHead]
      /\ b \in Ancestors[bestHead] /\ Number[b] <= Number[finalizedHead]
  BY DEF ViewInv, ViewTypeOK, ChainTypeOK, At
<1>2. QED
  BY <1>1, OneChain DEF IsFinal

(* The two streams never lose their value again. *)
LEMMA ReadyStays ==
  ASSUME ViewInv, ViewReady, [ViewNext]_<<chainVars, viewVars>>
  PROVE  ViewReady'
<1>1. finalizedHead' \in Block /\ NoBlock \notin Block
  BY ChainTypeStays, TreeAssumption DEF ChainTypeOK
<1>2. finalized' \in {finalized, finalizedHead'}
  BY DEF ViewNext, HeadImported, BlockFinalized, HeadCached, FinalAnnounced, Finalize,
         Announced, Latest, viewVars, chainVars
<1>3. lastCachedBlock' = lastCachedBlock \/ lastCachedBlock' \in Block
  BY DEF ViewNext, HeadImported, BlockFinalized, HeadCached, FinalAnnounced,
         Announced, Latest, viewVars
<1>4. QED
  BY <1>1, <1>2, <1>3 DEF ViewReady

(* What is final only grows, and not below where it was. *)
LEMMA FinalFacts ==
  ASSUME ViewInv, [ViewNext]_<<chainVars, viewVars>>
  PROVE  /\ ViewInv'
         /\ Ancestors[finalizedHead] \in SUBSET Block
         /\ Ancestors[finalizedHead'] \in SUBSET Block
         /\ Ancestors[finalizedHead] \subseteq Ancestors[finalizedHead']
         /\ Number[finalizedHead] \in Nat /\ Number[finalizedHead'] \in Nat
         /\ Number[finalizedHead] <= Number[finalizedHead']
         /\ \A b \in Ancestors[finalizedHead'] :
              Number[b] <= Number[finalizedHead] => b \in Ancestors[finalizedHead]
<1>1. ViewInv' /\ Ancestors[finalizedHead] \subseteq Ancestors[finalizedHead']
  BY ViewInvStays, FinalStays
<1>2. finalizedHead \in Block /\ finalizedHead' \in Block
  BY <1>1 DEF ViewInv, ViewTypeOK, ChainTypeOK
<1>3. finalizedHead \in Ancestors[finalizedHead']
  BY <1>1, <1>2, AncestorsOfBlock
<1>4. QED
  BY <1>1, <1>2, <1>3, AncestorsOfBlock, OneChain
=============================================================================
