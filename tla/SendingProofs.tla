----------------------------- MODULE SendingProofs -----------------------------
(* What a receipt, a wait and a polling wait promise, for every block tree, *)
(* every set of blocks with the transaction and every order of the answers. *)
EXTENDS Sending, HeadViewProofs

(* A block that safe mode may answer from. *)
SafeBlock(b) == b \in {NoBlock, firstLatest} \/ IsFinal(b)

(* The calls that the guard of safe mode checks, and the block it judges.  *)
Guarded == {"receiptAt", "receiptIndex", "state"}
JudgedBy(c) == IF c.op = "txFinal" THEN c.entry ELSE c.at

(* What holds of a call c that al has been canonical for. *)
GoodCall(c, al) ==
  /\ c \in CallState
  /\ {c.entry, c.answer} \subseteq Includes \cup {NoBlock}
  /\ c.pc = "canon" => c.entry \in Includes
  /\ c.pc \in {"header", "final"} =>
       \/ c.op = "txFinal" /\ c.entry \in Includes
       \/ c.op \in Guarded /\ c.at \in Block /\ c.count = 0
  /\ c.pc = "final" => Number[JudgedBy(c)] <= Number[finalizedHead]
  /\ c.pc = "account" => c.op = "state"
  /\ c.pc = "value" => c.op \in {"count", "state"}
  /\ c.pc = "done" \/ c.answer = NoBlock
  /\ c.answer # NoBlock => c.answer \in al /\ (c.op = "txFinal" => IsFinal(c.answer))
  /\ c.pc \in {"account", "value"} => c.at \in Block /\ c.count <= 1
  /\ safeMode => /\ SafeBlock(c.entry) /\ SafeBlock(c.answer)
                 /\ c.pc \in {"account", "value"} => SafeBlock(c.at)
                 /\ \A b \in c.reads : SafeBlock(b)

(* What the calls find in the cache: in safe mode only what is final.      *)
CacheInv ==
  /\ byHash \in Includes \cup {NoBlock}
  /\ firstLatest \in Block \cup {NoBlock}
  /\ safeMode => /\ lastCachedBlock = NoBlock => firstLatest = NoBlock
                 /\ SafeBlock(lastCachedBlock)
                 /\ byHash # NoBlock => IsFinal(byHash)
                 /\ \A b \in cached : IsFinal(b)

CallInv ==
  /\ ViewInv /\ CacheInv
  /\ indexedTo \in Nat /\ along \subseteq Includes
  /\ GoodCall(call, along)
  /\ call.pc # "idle" => ViewReady /\ Includes \cap Ancestors[bestHead] \subseteq along

-----------------------------------------------------------------------------
(* The chain and the view of it, as calls and clients meet them. *)

LEMMA WorldIsView ==
  ASSUME World
  PROVE  [ViewNext]_<<chainVars, viewVars>>
<1>1. ASSUME NEW b \in Block, Import(b) PROVE ViewNext
  BY <1>1 DEF Import, ViewNext
<1>2. ASSUME NEW b \in Block, CacheHead(b) PROVE ViewNext
  BY <1>2 DEF CacheHead, ViewNext
<1>3. CASE Finality
  BY <1>3 DEF Finality, ViewNext
<1>4. CASE Index \/ Elsewhere
  BY <1>4 DEF Index, Elsewhere
<1>5. QED
  BY <1>1, <1>2, <1>3, <1>4 DEF World

(* The node's answer lies on the best chain, at the height asked for. *)
LEMMA CanonicalAt ==
  ASSUME NEW n, CanonicalHash(n) # NoBlock
  PROVE  At(n, CanonicalHash(n))
<1>1. \E b \in Ancestors[bestHead] : Number[b] = n
  BY DEF CanonicalHash
<1>2. CanonicalHash(n) = CHOOSE b \in Ancestors[bestHead] : Number[b] = n
  BY <1>1 DEF CanonicalHash
<1>3. QED
  BY <1>1, <1>2 DEF At

(* An includer that is final is on the best chain. *)
LEMMA FinalIsBest ==
  ASSUME ViewInv, NEW b, IsFinal(b)
  PROVE  b \in Ancestors[bestHead]
  BY AncestorsOfBlock DEF ViewInv, ViewTypeOK, ChainTypeOK, IsFinal

(* A block the finality check says yes to is final. *)
LEMMA YesIsTrue ==
  ASSUME ViewInv, NEW b \in Block,
         \/ b \in finalHashes
         \/ Number[b] <= Number[finalizedHead] /\ CanonicalHash(Number[b]) = b
  PROVE  IsFinal(b)
<1>1. Number[b] \in Nat /\ b # NoBlock
  BY TreeAssumption
<1>2. CASE b \in finalHashes
  BY <1>2 DEF ViewInv
<1>3. CASE Number[b] <= Number[finalizedHead] /\ CanonicalHash(Number[b]) = b
  BY <1>1, <1>3, CanonicalAt, FinalHeight
<1>4. QED
  BY <1>2, <1>3

(* Not above the finalized number is not above the finalized head. *)
LEMMA HeightIsFinal ==
  ASSUME ViewInv, ViewReady, NEW b \in Block, ~(Number[b] > FinalizedBlockNumber)
  PROVE  Number[b] <= Number[finalizedHead]
<1>1. Number[b] \in Nat /\ Number[finalizedHead] \in Nat
  BY TreeAssumption DEF ViewInv, ViewTypeOK, ChainTypeOK
<1>2. QED
  BY <1>1, FinalizedNumberIsFinal

(* The block that safe mode reads for 'latest'. *)
LEMMA FinalizedIsSafe ==
  ASSUME CallInv, ViewReady
  PROVE  /\ FinalizedBlockHash \in Block /\ BestBlockHash \in Block
         /\ safeMode => SafeBlock(FinalizedBlockHash)
<1>1. FinalizedBlockHash \in {finalized, lastCachedBlock}
  BY DEF FinalizedBlockHash, BestBlockHash
<1>2. IsFinal(finalized) /\ finalized \in Block /\ lastCachedBlock \in Block
  BY DEF ViewReady, CallInv, ViewInv, ViewTypeOK, ChainTypeOK
<1>3. QED
  BY <1>1, <1>2 DEF SafeBlock, CallInv, CacheInv, BestBlockHash

-----------------------------------------------------------------------------
(* Steps of the world. *)

LEMMA SafeStays ==
  ASSUME CallInv, World, NEW b, SafeBlock(b), b # firstLatest \/ firstLatest # NoBlock
  PROVE  SafeBlock(b)'
<1>1. IsFinal(b) => IsFinal(b)'
  BY WorldIsView, FinalStays DEF CallInv, IsFinal
<1>2. firstLatest # NoBlock => firstLatest' = firstLatest
  BY DEF World
<1>3. QED
  BY <1>1, <1>2 DEF SafeBlock

LEMMA CacheStep ==
  ASSUME CallInv, World
  PROVE  CacheInv' /\ safeMode' = safeMode /\ indexedTo' \in Nat
<1>1. ViewInv /\ ViewInv' /\ CacheInv
  BY WorldIsView, ViewInvStays DEF CallInv
<1>2. \A b : IsFinal(b) => IsFinal(b)'
  BY WorldIsView, FinalStays DEF CallInv, IsFinal
<1>3. /\ safeMode' = safeMode
      /\ firstLatest' = IF safeMode /\ firstLatest = NoBlock THEN lastCachedBlock'
                        ELSE firstLatest
  BY DEF World, Import, CacheHead, Finality, Index, Elsewhere, sources
<1>4. lastCachedBlock' \in Block \cup {NoBlock}
  BY <1>1 DEF ViewInv, ViewTypeOK, ChainTypeOK
<1>5. firstLatest' \in Block \cup {NoBlock}
  BY <1>1, <1>3, <1>4 DEF CacheInv
<1>6. indexedTo' \in Nat
  <2>1. indexedTo' \in {indexedTo, indexedTo + 1}
    BY DEF World, Import, CacheHead, Finality, Index, Elsewhere, sources
  <2>2. QED
    BY <2>1 DEF CallInv
<1>7. CASE UNCHANGED <<lastCachedBlock, cached, byHash>>
  BY <1>1, <1>2, <1>3, <1>5, <1>6, <1>7 DEF CacheInv, SafeBlock
<1>8. ASSUME NEW b \in Block, CacheHead(b) PROVE CacheInv'
  <2>1. /\ lastCachedBlock' = b
        /\ cached' \subseteq cached \cup {b}
        /\ safeMode => IsFinal(b) \/ (lastCachedBlock = NoBlock /\ cached' = cached)
    BY <1>8 DEF CacheHead, HeadCached, Latest
  <2>2. byHash' \in {NoBlock, byHash} \/ (byHash' = b /\ b \in Includes \cap cached')
    <3>1. ASSUME ({b} \cap cached') \cap Includes # {}
          PROVE  (CHOOSE c \in {b} \cap cached' : TRUE) = b /\ b \in Includes \cap cached'
      BY <3>1
    <3>2. QED
      BY <1>8, <3>1 DEF CacheHead, ByHashFollows
  <2>3. safeMode => \A c \in cached' : IsFinal(c)'
    BY <1>1, <1>2, <2>1 DEF CacheInv
  <2>4. safeMode => SafeBlock(lastCachedBlock)'
    BY <1>1, <1>2, <1>3, <2>1 DEF CacheInv, SafeBlock
  <2>5. b # NoBlock
    BY TreeAssumption
  <2>6. safeMode => (byHash' # NoBlock => IsFinal(byHash)')
    BY <1>1, <1>2, <2>2, <2>3 DEF CacheInv
  <2>7. byHash' \in Includes \cup {NoBlock}
    BY <1>1, <2>2 DEF CacheInv
  <2>8. QED
    BY <1>3, <1>5, <2>1, <2>3, <2>4, <2>5, <2>6, <2>7 DEF CacheInv
<1>9. QED
  <2>1. ASSUME NEW b \in Block, Import(b) \/ Finality \/ Index \/ Elsewhere
        PROVE  UNCHANGED <<lastCachedBlock, cached, byHash>>
    BY <2>1 DEF Import, HeadImported, Finality, BlockFinalized, FinalAnnounced, Announced,
                Index, Elsewhere, viewVars, sources
  <2>2. Genesis \in Block
    BY TreeAssumption
  <2>3. QED
    BY <1>3, <1>6, <1>7, <1>8, <2>1, <2>2 DEF World

(* A call keeps what it has while the world moves. *)
LEMMA WorldKeepsCall ==
  ASSUME CallInv, World
  PROVE  CallInv'
<1>1. ViewInv' /\ CacheInv' /\ safeMode' = safeMode /\ indexedTo' \in Nat
  BY CacheStep, WorldIsView, ViewInvStays DEF CallInv
<1>2. call' = call /\ along \subseteq along' /\ along' \subseteq Includes
  BY DEF World, CallInv
<1>3. /\ \A b : IsFinal(b) => IsFinal(b)'
      /\ Number[finalizedHead] \in Nat /\ Number[finalizedHead'] \in Nat
      /\ Number[finalizedHead] <= Number[finalizedHead']
  BY WorldIsView, FinalFacts DEF CallInv, IsFinal
<1>4. ASSUME NEW b, SafeBlock(b) PROVE SafeBlock(b)'
  BY <1>4, SafeStays DEF SafeBlock
<1>5. GoodCall(call, along)'
  <2>1. call.pc = "final" => Number[JudgedBy(call)] \in Nat
    BY ReceiptsAssumption, TreeAssumption DEF CallInv, GoodCall, JudgedBy, Guarded
  <2>2. call.pc = "final" => Number[JudgedBy(call)] <= Number[finalizedHead']
    BY <1>3, <2>1 DEF CallInv, GoodCall
  <2>3. QED
    BY <1>1, <1>2, <1>3, <1>4, <2>2 DEF CallInv, GoodCall, JudgedBy
<1>6. call'.pc # "idle" => ViewReady' /\ Includes \cap Ancestors[bestHead'] \subseteq along'
  BY <1>2, WorldIsView, ReadyStays DEF CallInv, World
<1>7. QED
  BY <1>1, <1>2, <1>5, <1>6 DEF CallInv

-----------------------------------------------------------------------------
(* Steps of a call. *)

(* What a step of a call leaves as it is, and what it must have made good. *)
LEMMA CallMade ==
  ASSUME CallInv, UNCHANGED <<chainVars, viewVars, sources, shared, firstLatest>>,
         GoodCall(call', along'), along' \subseteq Includes,
         call'.pc # "idle" => ViewReady /\ Includes \cap Ancestors[bestHead] \subseteq along'
  PROVE  CallInv'
<1>1. ViewInv' /\ (ViewReady <=> ViewReady')
  <2>1. ViewInv'
    BY ViewInvStays DEF CallInv
  <2>2. QED
    BY <2>1 DEF viewVars, ViewReady
<1>2. \A b : (IsFinal(b) <=> IsFinal(b)') /\ (SafeBlock(b) <=> SafeBlock(b)')
  BY DEF chainVars, IsFinal, SafeBlock
<1>3. CacheInv'
  BY <1>2 DEF CallInv, CacheInv, viewVars, sources
<1>4. GoodCall(call, along)'
  BY <1>2 DEF GoodCall, chainVars, sources
<1>5. QED
  BY <1>1, <1>3, <1>4 DEF CallInv, chainVars, sources

LEMMA NothingAsked ==
  /\ NoCall \in CallState
  /\ NoCall.pc = "idle" /\ NoCall.entry = NoBlock /\ NoCall.answer = NoBlock
  /\ NoCall.at = NoBlock /\ NoCall.reads = {} /\ NoCall.count = 0
  /\ \A al : GoodCall(NoCall, al)
<1>1. /\ NoCall \in CallState
      /\ NoCall.pc = "idle" /\ NoCall.entry = NoBlock /\ NoCall.answer = NoBlock
      /\ NoCall.at = NoBlock /\ NoCall.reads = {} /\ NoCall.count = 0
  BY ReceiptsAssumption DEF CallState, NoCall
<1>2. QED
  BY <1>1 DEF GoodCall, SafeBlock

LEMMA StepMade ==
  ASSUME CallInv, NEW pc, pc # "idle", NEW r, Step(pc, r), r = NoCall \/ GoodCall(r, along)
  PROVE  CallInv'
<1>1. CASE r = NoCall
  BY <1>1, CallMade, NothingAsked DEF Step, NoCall
<1>2. CASE r # NoCall
  BY <1>2, CallMade DEF Step, CallInv
<1>3. QED
  BY <1>1, <1>2

LEMMA StartMade ==
  ASSUME CallInv, NEW r, StartAs(r), GoodCall(r, Includes \cap Ancestors[bestHead])
  PROVE  CallInv'
  BY CallMade DEF StartAs, MayAsk

(* A receipt that is canonical now is a good one to go on with. *)
LEMMA FoundIsGood ==
  ASSUME NEW al, NEW c, GoodCall(c, al), c.pc # "done", NEW b \in Includes \cap al,
         safeMode => SafeBlock(b)
  PROVE  GoodCall(Found(c, b), al)
<1>1. c \in CallState /\ b \in Block /\ c.answer = NoBlock /\ SafeBlock(NoBlock)
  BY ReceiptsAssumption DEF GoodCall, SafeBlock
<1>2. ASSUME NEW d, d = [c EXCEPT !.pc = "header", !.entry = b], c.op = "txFinal"
      PROVE  GoodCall(d, al)
  <2>1. /\ d \in CallState /\ d.reads = c.reads /\ d.op = c.op
        /\ d.pc = "header" /\ d.entry = b /\ d.answer = NoBlock
    BY <1>1, <1>2 DEF CallState
  <2>2. QED
    BY <1>1, <1>2, <2>1 DEF GoodCall
<1>3. ASSUME NEW a \in {b, NoBlock}, NEW d, d = [c EXCEPT !.pc = "done", !.answer = a],
             c.op # "txFinal"
      PROVE  GoodCall(d, al)
  <2>1. /\ d \in CallState /\ d.reads = c.reads /\ d.op = c.op
        /\ d.pc = "done" /\ d.entry = c.entry /\ d.answer = a
    BY <1>1, <1>3 DEF CallState
  <2>2. QED
    BY <1>1, <1>3, <2>1 DEF GoodCall
<1>4. CASE c.op = "txFinal"
  BY <1>2, <1>4 DEF Found
<1>5. CASE c.op = "receiptAt"
  BY <1>3, <1>5 DEF Found
<1>6. CASE c.op \notin {"txFinal", "receiptAt"}
  BY <1>3, <1>6 DEF Found
<1>7. QED
  BY <1>4, <1>5, <1>6

(* A call that goes on to ask the indexer, or for a block's canonical hash. *)
LEMMA AsksIndexer ==
  ASSUME NEW al, NEW c, GoodCall(c, al), c.pc # "done"
  PROVE  GoodCall([c EXCEPT !.pc = "indexer"], al)
<1>1. ASSUME NEW d, d = [c EXCEPT !.pc = "indexer"] PROVE GoodCall(d, al)
  <2>1. /\ d \in CallState /\ d.reads = c.reads /\ d.op = c.op
        /\ d.pc = "indexer" /\ d.entry = c.entry /\ d.answer = NoBlock
    BY <1>1 DEF GoodCall, CallState
  <2>2. QED
    BY <1>1, <2>1 DEF GoodCall
<1>2. QED
  BY <1>1

LEMMA AsksCanon ==
  ASSUME NEW al, NEW c, GoodCall(c, al), c.pc # "done",
         NEW b \in Includes, safeMode => SafeBlock(b)
  PROVE  GoodCall([c EXCEPT !.pc = "canon", !.entry = b], al)
<1>1. b \in Block
  BY ReceiptsAssumption
<1>2. ASSUME NEW d, d = [c EXCEPT !.pc = "canon", !.entry = b] PROVE GoodCall(d, al)
  <2>1. /\ d \in CallState /\ d.reads = c.reads /\ d.op = c.op
        /\ d.pc = "canon" /\ d.entry = b /\ d.answer = NoBlock
    BY <1>1, <1>2 DEF GoodCall, CallState
  <2>2. QED
    BY <1>2, <2>1 DEF GoodCall
<1>3. QED
  BY <1>2

(* The cache's entry: taken at once when final, checked otherwise.         *)
LEMMA GetReceiptIsGood ==
  ASSUME CallInv, NEW al, Includes \cap Ancestors[bestHead] \subseteq al,
         NEW c, GoodCall(c, al), c.pc # "done"
  PROVE  GoodCall(GetReceipt(c), al)
<1>1. CASE byHash = NoBlock
  <2>1. byHash \notin finalHashes
    BY <1>1, TreeAssumption DEF CallInv, ViewInv, ViewTypeOK, ChainTypeOK
  <2>2. GetReceipt(c) = [c EXCEPT !.pc = "indexer"]
    BY <1>1, <2>1 DEF GetReceipt
  <2>3. QED
    BY <2>2, AsksIndexer
<1>2. byHash # NoBlock => byHash \in Includes /\ (safeMode => SafeBlock(byHash))
  BY DEF CallInv, CacheInv, SafeBlock
<1>3. CASE byHash # NoBlock /\ byHash \in finalHashes
  <2>1. byHash \in Includes \cap al
    BY <1>2, <1>3, FinalIsBest DEF CallInv, ViewInv
  <2>2. GetReceipt(c) = Found(c, byHash)
    BY <1>3 DEF GetReceipt
  <2>3. QED
    BY <1>2, <1>3, <2>1, <2>2, FoundIsGood
<1>4. CASE byHash # NoBlock /\ byHash \notin finalHashes
  BY <1>2, <1>4, AsksCanon DEF GetReceipt
<1>5. QED
  BY <1>1, <1>3, <1>4

LEMMA GetReceiptByIndexIsGood ==
  ASSUME CallInv, NEW al, Includes \cap Ancestors[bestHead] \subseteq al,
         NEW c, GoodCall(c, al), c.pc # "done"
  PROVE  GoodCall(GetReceiptByIndex(c), al)
<1>1. CASE c.at \notin cached \cap Includes
  BY <1>1, AsksIndexer DEF GetReceiptByIndex
<1>2. c.at \in cached \cap Includes /\ safeMode => SafeBlock(c.at)
  BY DEF CallInv, CacheInv, SafeBlock
<1>3. CASE c.at \in cached \cap Includes /\ c.at \in finalHashes
  <2>1. c.at \in Includes \cap al
    BY <1>3, FinalIsBest DEF CallInv, ViewInv
  <2>2. GetReceiptByIndex(c) = Found(c, c.at)
    BY <1>3 DEF GetReceiptByIndex
  <2>3. QED
    BY <1>2, <1>3, <2>1, <2>2, FoundIsGood
<1>4. CASE c.at \in cached \cap Includes /\ c.at \notin finalHashes
  BY <1>2, <1>4, AsksCanon DEF GetReceiptByIndex
<1>5. QED
  BY <1>1, <1>3, <1>4

(* What a call starts from. *)
LEMMA BlankIsGood ==
  ASSUME NEW c \in CallState, NEW al, c.pc \in {"idle", "pool"},
         c.entry = NoBlock, c.answer = NoBlock, c.reads = {}
  PROVE  GoodCall(c, al)
  BY DEF GoodCall, SafeBlock

LEMMA MayTry == 0 \in 0 .. MaxTries /\ 1 \in 0 .. MaxTries
  BY ReceiptsAssumption

LEMMA FreshIsGood ==
  ASSUME NEW op \in Ops, NEW b \in Block, NEW al
  PROVE  /\ GoodCall([NoCall EXCEPT !.op = op, !.tries = 1], al)
         /\ [NoCall EXCEPT !.op = op, !.tries = 1].pc = "idle"
         /\ GoodCall([NoCall EXCEPT !.op = op, !.at = b, !.tries = 1], al)
         /\ [NoCall EXCEPT !.op = op, !.at = b, !.tries = 1].pc = "idle"
         /\ GoodCall([[NoCall EXCEPT !.op = op, !.tries = 1] EXCEPT !.pc = "pool"], al)
         /\ GoodCall([NoCall EXCEPT !.op = op, !.pc = "pool"], al)
<1>1. ASSUME NEW n \in 0 .. MaxTries, NEW d, d = [NoCall EXCEPT !.op = op, !.tries = n]
      PROVE  GoodCall(d, al) /\ d.pc = "idle"
  <2>1. /\ d \in CallState
        /\ d.pc = "idle" /\ d.entry = NoBlock /\ d.answer = NoBlock /\ d.reads = {}
    BY <1>1, NothingAsked DEF CallState
  <2>2. QED
    BY <2>1, BlankIsGood
<1>2. ASSUME NEW n \in 0 .. MaxTries, NEW d, d = [NoCall EXCEPT !.op = op, !.at = b, !.tries = n]
      PROVE  GoodCall(d, al) /\ d.pc = "idle"
  <2>1. /\ d \in CallState
        /\ d.pc = "idle" /\ d.entry = NoBlock /\ d.answer = NoBlock /\ d.reads = {}
    BY <1>2, NothingAsked DEF CallState
  <2>2. QED
    BY <2>1, BlankIsGood
<1>3. ASSUME NEW n \in 0 .. MaxTries, NEW d, d = [NoCall EXCEPT !.op = op, !.pc = "pool"]
      PROVE  GoodCall(d, al) /\ d.pc = "pool"
  <2>1. /\ d \in CallState
        /\ d.pc = "pool" /\ d.entry = NoBlock /\ d.answer = NoBlock /\ d.reads = {}
    BY <1>3, NothingAsked DEF CallState
  <2>2. QED
    BY <2>1, BlankIsGood
<1>4. ASSUME NEW n \in 0 .. MaxTries, NEW d, d = [[NoCall EXCEPT !.op = op, !.tries = n] EXCEPT !.pc = "pool"]
      PROVE  GoodCall(d, al) /\ d.pc = "pool"
  <2>1. /\ d \in CallState
        /\ d.pc = "pool" /\ d.entry = NoBlock /\ d.answer = NoBlock /\ d.reads = {}
    BY <1>4, NothingAsked DEF CallState
  <2>2. QED
    BY <2>1, BlankIsGood
<1>5. QED
  BY <1>1, <1>2, <1>3, <1>4, MayTry

(* The guard lets a call through whose block is final. *)
LEMMA BehindGuardIsGood ==
  ASSUME CallInv, NEW al, Includes \cap Ancestors[bestHead] \subseteq al,
         NEW c, GoodCall(c, al), c.pc # "done",
         c.op \in Guarded, c.at \in Block, c.count = 0, safeMode => SafeBlock(c.at)
  PROVE  GoodCall(BehindGuard(c), al)
<1>1. CASE c.op = "receiptAt"
  BY <1>1, GetReceiptIsGood DEF BehindGuard
<1>2. CASE c.op = "receiptIndex"
  BY <1>2, GetReceiptByIndexIsGood DEF BehindGuard
<1>3. ASSUME NEW d, d = [c EXCEPT !.pc = "account"], c.op = "state" PROVE GoodCall(d, al)
  <2>1. /\ d \in CallState /\ d.pc = "account" /\ d.op = "state" /\ d.at = c.at
        /\ d.entry = c.entry /\ d.answer = c.answer /\ d.reads = c.reads /\ d.count = 0
    BY <1>3 DEF GoodCall, CallState
  <2>2. QED
    BY <1>3, <2>1 DEF GoodCall
<1>4. QED
  BY <1>1, <1>2, <1>3 DEF BehindGuard, Guarded

LEMMA GuardIsGood ==
  ASSUME CallInv, NEW al, Includes \cap Ancestors[bestHead] \subseteq al,
         NEW c, GoodCall(c, al), c.pc = "idle",
         c.op \in Guarded, c.at \in Block, c.count = 0
  PROVE  GoodCall(EnsureSafeModeBlockTagFinalization(c), al)
<1>1. CASE ~safeMode
  BY <1>1, BehindGuardIsGood DEF EnsureSafeModeBlockTagFinalization
<1>2. ASSUME NEW d, d = [c EXCEPT !.pc = "header"] PROVE GoodCall(d, al)
  <2>1. /\ d \in CallState /\ d.pc = "header" /\ d.op = c.op /\ d.at = c.at
        /\ d.entry = c.entry /\ d.answer = c.answer /\ d.reads = c.reads /\ d.count = 0
    BY <1>2 DEF GoodCall, CallState
  <2>2. QED
    BY <1>2, <2>1 DEF GoodCall
<1>3. QED
  BY <1>1, <1>2 DEF EnsureSafeModeBlockTagFinalization

LEMMA AskReceiptStep ==
  ASSUME CallInv, NEW op, AskReceipt(op)
  PROVE  CallInv'
<1> DEFINE al == Includes \cap Ancestors[bestHead]
           c == [NoCall EXCEPT !.op = op, !.tries = 1]
<1>1. op \in Ops /\ StartAs(GetReceipt(c))
  BY DEF AskReceipt, Ops
<1>2. GoodCall(c, al) /\ c.pc = "idle"
  BY <1>1, FreshIsGood, TreeAssumption
<1>3. QED
  <2> HIDE DEF c
  <2>1. GoodCall(GetReceipt(c), al)
    BY <1>2, GetReceiptIsGood
  <2>2. QED
    BY <1>1, <2>1, StartMade

LEMMA AskReceiptAtStep ==
  ASSUME CallInv, NEW op, NEW b \in Block, AskReceiptAt(op, b)
  PROVE  CallInv'
<1> DEFINE al == Includes \cap Ancestors[bestHead]
           c == [NoCall EXCEPT !.op = op, !.at = b, !.tries = 1]
<1>1. op \in Guarded /\ StartAs(EnsureSafeModeBlockTagFinalization(c))
  BY DEF AskReceiptAt, Guarded
<1>2. ASSUME NEW d, d = c
      PROVE  GoodCall(d, al) /\ d.pc = "idle" /\ d.op = op /\ d.at = b /\ d.count = 0
  <2>1. /\ d \in CallState /\ d.op = op /\ d.at = b /\ d.count = 0
        /\ d.pc = "idle" /\ d.entry = NoBlock /\ d.answer = NoBlock /\ d.reads = {}
    BY <1>1, <1>2, NothingAsked, MayTry DEF CallState, Ops, Guarded
  <2>2. QED
    BY <2>1 DEF GoodCall, SafeBlock
<1> HIDE DEF c
<1>3. GoodCall(EnsureSafeModeBlockTagFinalization(c), al)
  BY <1>1, <1>2, GuardIsGood
<1>4. QED
  BY <1>1, <1>3, StartMade

LEMMA AskTransactionStep ==
  ASSUME CallInv, AskTransaction
  PROVE  CallInv'
<1> DEFINE al == Includes \cap Ancestors[bestHead]
           c == [NoCall EXCEPT !.op = "byTx", !.tries = 1]
           d == [c EXCEPT !.pc = "pool"]
<1>1. StartAs(GetReceipt(c)) \/ StartAs(d)
  BY DEF AskTransaction
<1>2. GoodCall(c, al) /\ c.pc = "idle" /\ GoodCall(d, al)
  BY FreshIsGood, TreeAssumption DEF Ops
<1>3. QED
  <2> HIDE DEF c, d
  <2>1. GoodCall(GetReceipt(c), al)
    BY <1>2, GetReceiptIsGood
  <2>2. QED
    BY <1>1, <1>2, <2>1, StartMade

LEMMA AskCountStep ==
  ASSUME CallInv, AskCount
  PROVE  CallInv'
  BY FreshIsGood, StartMade, TreeAssumption DEF AskCount, Ops

LEMMA AskStateStep ==
  ASSUME CallInv, AskState
  PROVE  CallInv'
<1> DEFINE at == IF safeMode THEN FinalizedBlockHash ELSE BestBlockHash
           r == [NoCall EXCEPT !.op = "state", !.at = at, !.pc = "account"]
<1>1. ViewReady /\ ViewInv /\ StartAs(r)
  BY DEF AskState, StartAs, MayAsk, CallInv
<1>2. at \in Block /\ (safeMode => SafeBlock(at))
  BY <1>1, FinalizedIsSafe
<1>3. ASSUME NEW al, NEW d, d = r PROVE GoodCall(d, al)
  <2> HIDE DEF at
  <2>1. "state" \in Ops
    BY DEF Ops
  <2>2. /\ d \in CallState /\ d.op = "state" /\ d.at = at
        /\ d.pc = "account" /\ d.entry = NoBlock /\ d.answer = NoBlock /\ d.reads = {}
        /\ d.count = 0
    BY <1>2, <1>3, <2>1, NothingAsked DEF CallState
  <2>3. QED
    BY <1>2, <2>2 DEF GoodCall, SafeBlock
<1>4. QED
  BY <1>1, <1>3, StartMade

LEMMA AskStateAtStep ==
  ASSUME CallInv, NEW b \in Block, AskStateAt(b)
  PROVE  CallInv'
<1> DEFINE al == Includes \cap Ancestors[bestHead]
           c == [NoCall EXCEPT !.op = "state", !.at = b]
<1>1. StartAs(EnsureSafeModeBlockTagFinalization(c))
  BY DEF AskStateAt
<1>2. "state" \in Guarded
  BY DEF Guarded
<1>3. ASSUME NEW d, d = c
      PROVE  GoodCall(d, al) /\ d.pc = "idle" /\ d.op = "state" /\ d.at = b /\ d.count = 0
  <2>1. /\ d \in CallState /\ d.op = "state" /\ d.at = b /\ d.count = 0
        /\ d.pc = "idle" /\ d.entry = NoBlock /\ d.answer = NoBlock /\ d.reads = {}
    BY <1>2, <1>3, NothingAsked, MayTry DEF CallState, Ops, Guarded
  <2>2. QED
    BY <2>1 DEF GoodCall, SafeBlock
<1> HIDE DEF c
<1>4. GoodCall(EnsureSafeModeBlockTagFinalization(c), al)
  BY <1>2, <1>3, GuardIsGood
<1>5. QED
  BY <1>1, <1>4, StartMade

(* An answer of the pool, and two of storage. *)
LEMMA PoolStep ==
  ASSUME CallInv, PoolAnswers
  PROVE  CallInv'
<1>1. /\ call.pc = "pool" /\ GoodCall(call, along) /\ ViewReady
      /\ Includes \cap Ancestors[bestHead] \subseteq along
      /\ call \in CallState
  BY DEF PoolAnswers, Step, CallInv, GoodCall
<1>2. CASE call.op = "count"
  <2> DEFINE at == IF safeMode THEN FinalizedBlockHash ELSE BestBlockHash
             r == [call EXCEPT !.count = Pending, !.pc = "value", !.at = at]
  <2>1. Step("pool", r)
    BY <1>2 DEF PoolAnswers
  <2>2. at \in Block /\ (safeMode => SafeBlock(at))
    BY <1>1, FinalizedIsSafe
  <2>3. Pending \in 0 .. 2 /\ Pending <= 1
    BY DEF Pending
  <2> HIDE DEF at
  <2>4. /\ r \in CallState /\ r.reads = call.reads /\ r.op = call.op /\ r.at = at
        /\ r.pc = "value" /\ r.entry = call.entry /\ r.answer = call.answer
        /\ r.count = Pending
    BY <1>1, <2>2, <2>3 DEF CallState
  <2> HIDE DEF r
  <2>5. GoodCall(r, along)
    BY <1>1, <1>2, <2>2, <2>3, <2>4 DEF GoodCall
  <2>6. QED
    BY <2>1, <2>5, StepMade
<1>3. CASE call.op = "byTx"
  <2> DEFINE r == [call EXCEPT !.pc = "done", !.count = 1]
  <2>1. Step("pool", r) \/ Step("pool", GetReceipt(call))
    BY <1>3 DEF PoolAnswers
  <2>2. GoodCall(GetReceipt(call), along)
    BY <1>1, GetReceiptIsGood
  <2>3. /\ r \in CallState /\ r.reads = call.reads /\ r.op = call.op
        /\ r.pc = "done" /\ r.entry = call.entry /\ r.answer = call.answer
    <3>1. 1 \in 0 .. 2
      OBVIOUS
    <3>2. QED
      BY <1>1, <3>1 DEF CallState
  <2> HIDE DEF r
  <2>4. GoodCall(r, along)
    BY <1>1, <2>3 DEF GoodCall
  <2>5. QED
    BY <2>1, <2>2, <2>4, StepMade
<1>4. QED
  BY <1>2, <1>3 DEF PoolAnswers

LEMMA AccountStep ==
  ASSUME CallInv, AccountAnswers
  PROVE  CallInv'
<1> DEFINE r == [call EXCEPT !.pc = "value", !.reads = {call.at}]
<1>1. Step("account", r)
  BY DEF AccountAnswers
<1>2. call.pc = "account" /\ GoodCall(call, along) /\ call \in CallState
  BY <1>1 DEF Step, CallInv, GoodCall
<1>3. /\ call.at \in Block /\ (safeMode => SafeBlock(call.at)) /\ call.answer = NoBlock
      /\ call.count <= 1
  BY <1>2 DEF GoodCall
<1>4. /\ r \in CallState /\ r.reads = {call.at} /\ r.op = call.op /\ r.at = call.at
      /\ r.pc = "value" /\ r.entry = call.entry /\ r.answer = NoBlock /\ r.count = call.count
  BY <1>2, <1>3 DEF CallState
<1>5. QED
  <2> HIDE DEF r
  <2>1. GoodCall(r, along)
    BY <1>2, <1>3, <1>4 DEF GoodCall
  <2>2. QED
    BY <1>1, <2>1, StepMade

LEMMA ValueStep ==
  ASSUME CallInv, ValueAnswers
  PROVE  CallInv'
<1> DEFINE n == IF call.op # "count" THEN 0
                ELSE call.count + (IF Mined(call.at) THEN 1 ELSE 0)
           r == [call EXCEPT !.pc = "done", !.reads = @ \cup {call.at}, !.count = n]
<1>1. Step("value", r)
  BY DEF ValueAnswers
<1>2. call.pc = "value" /\ GoodCall(call, along) /\ call \in CallState
  BY <1>1 DEF Step, CallInv, GoodCall
<1>3. /\ call.at \in Block /\ (safeMode => SafeBlock(call.at)) /\ call.answer = NoBlock
      /\ call.count \in 0 .. 2 /\ call.count <= 1 /\ call.reads \in SUBSET Block
  BY <1>2 DEF GoodCall, CallState
<1>4. n \in 0 .. 2
  BY <1>3
<1>5. call.reads \cup {call.at} \in SUBSET Block
  BY <1>3
<1> HIDE DEF n
<1>6. /\ r \in CallState /\ r.reads = call.reads \cup {call.at} /\ r.op = call.op
      /\ r.pc = "done" /\ r.entry = call.entry /\ r.answer = NoBlock
  BY <1>2, <1>3, <1>4, <1>5 DEF CallState
<1>7. QED
  <2> HIDE DEF r
  <2>1. GoodCall(r, along)
    BY <1>2, <1>3, <1>6 DEF GoodCall
  <2>2. QED
    BY <1>1, <2>1, StepMade

(* The answers about hashes: what goes on is canonical at this moment. *)
LEMMA CanonStep ==
  ASSUME CallInv, CanonAnswers
  PROVE  CallInv'
<1> DEFINE reply == CanonicalHash(Number[call.entry])
           d == [call EXCEPT !.pc = "indexer", !.entry = NoBlock]
           r == IF reply = NoBlock THEN Throw
                ELSE IF reply = call.entry THEN Found(call, call.entry) ELSE d
<1>1. Step("canon", r)
  BY DEF CanonAnswers
<1>2. /\ call.pc = "canon" /\ GoodCall(call, along) /\ call \in CallState
      /\ Includes \cap Ancestors[bestHead] \subseteq along
      /\ call.entry \in Includes /\ call.answer = NoBlock
      /\ safeMode => SafeBlock(call.entry)
  BY <1>1 DEF Step, CallInv, GoodCall
<1>3. CASE reply = NoBlock
  <2>1. r = NoCall
    BY <1>3 DEF Throw
  <2> HIDE DEF r
  <2>2. QED
    BY <1>1, <2>1, StepMade
<1>4. CASE reply = call.entry /\ reply # NoBlock
  <2>1. r = Found(call, call.entry)
    BY <1>4
  <2>2. call.entry \in Includes \cap along
    BY <1>2, <1>4, CanonicalAt DEF At
  <2>3. GoodCall(Found(call, call.entry), along)
    BY <1>2, <2>2, FoundIsGood
  <2> HIDE DEF r
  <2>4. QED
    BY <1>1, <2>1, <2>3, StepMade
<1>5. CASE reply # call.entry /\ reply # NoBlock
  <2>1. r = d
    BY <1>5
  <2>2. /\ d \in CallState /\ d.reads = call.reads /\ d.op = call.op
        /\ d.pc = "indexer" /\ d.entry = NoBlock /\ d.answer = NoBlock
    BY <1>2 DEF CallState
  <2> HIDE DEF d, r
  <2>3. GoodCall(d, along)
    BY <1>2, <2>2 DEF GoodCall, SafeBlock
  <2>4. QED
    BY <1>1, <2>1, <2>3, StepMade
<1>6. QED
  BY <1>3, <1>4, <1>5

(* A call that ends without an answer, or with a final one. *)
LEMMA EndsWithNone ==
  ASSUME NEW al, NEW c, GoodCall(c, al), c.pc # "done"
  PROVE  GoodCall([c EXCEPT !.pc = "done"], al)
<1>1. ASSUME NEW d, d = [c EXCEPT !.pc = "done"] PROVE GoodCall(d, al)
  <2>1. /\ d \in CallState /\ d.reads = c.reads /\ d.op = c.op
        /\ d.pc = "done" /\ d.entry = c.entry /\ d.answer = NoBlock
    BY <1>1 DEF GoodCall, CallState
  <2>2. QED
    BY <2>1 DEF GoodCall
<1>2. QED
  BY <1>1

LEMMA EndsWithFinal ==
  ASSUME NEW al, NEW c, GoodCall(c, al), c.pc # "done",
         NEW b \in Includes \cap al, IsFinal(b)
  PROVE  GoodCall([c EXCEPT !.pc = "done", !.answer = b], al)
<1>1. b \in Block
  BY ReceiptsAssumption
<1>2. ASSUME NEW d, d = [c EXCEPT !.pc = "done", !.answer = b] PROVE GoodCall(d, al)
  <2>1. /\ d \in CallState /\ d.reads = c.reads /\ d.op = c.op
        /\ d.pc = "done" /\ d.entry = c.entry /\ d.answer = b
    BY <1>1, <1>2 DEF GoodCall, CallState
  <2>2. QED
    BY <2>1 DEF GoodCall, SafeBlock
<1>3. QED
  BY <1>2

LEMMA IndexerStep ==
  ASSUME CallInv, IndexerAnswers
  PROVE  CallInv'
<1> DEFINE again == localMode /\ call.op # "receiptIndex" /\ call.tries < MaxTries
           c == [call EXCEPT !.tries = @ + 1]
           r == IF Indexed # {} THEN Found(call, CHOOSE b \in Indexed : TRUE)
                ELSE IF again THEN GetReceipt(c) ELSE [call EXCEPT !.pc = "done"]
<1>1. Step("indexer", r)
  BY DEF IndexerAnswers
<1>2. /\ call.pc = "indexer" /\ GoodCall(call, along) /\ call \in CallState /\ ViewInv
      /\ Includes \cap Ancestors[bestHead] \subseteq along
  BY <1>1 DEF Step, CallInv, GoodCall
<1>3. CASE Indexed # {}
  <2> DEFINE b == CHOOSE x \in Indexed : TRUE
  <2>1. b \in Includes /\ IsFinal(b)
    <3>1. b \in Indexed
      BY <1>3
    <3>2. QED
      BY <3>1 DEF Indexed
  <2>2. r = Found(call, b)
    BY <1>3
  <2> HIDE DEF b, r
  <2>3. b \in Includes \cap along
    BY <1>2, <2>1, FinalIsBest
  <2>4. GoodCall(Found(call, b), along)
    BY <1>2, <2>1, <2>3, FoundIsGood DEF SafeBlock
  <2>5. QED
    BY <1>1, <2>2, <2>4, StepMade
<1>4. CASE Indexed = {} /\ again
  <2>1. r = GetReceipt(c)
    BY <1>4
  <2>2. call.tries \in 0 .. MaxTries
    BY <1>2 DEF CallState
  <2>3. call.tries + 1 \in 0 .. MaxTries
    BY <1>4, <2>2, ReceiptsAssumption
  <2> HIDE DEF again
  <2>4. /\ c \in CallState /\ c.reads = call.reads /\ c.op = call.op /\ c.pc = call.pc
        /\ c.entry = call.entry /\ c.answer = call.answer
    BY <1>2, <2>3 DEF CallState
  <2> HIDE DEF c, r
  <2>5. GoodCall(c, along)
    BY <1>2, <2>4 DEF GoodCall
  <2>6. GoodCall(GetReceipt(c), along)
    BY <1>2, <2>4, <2>5, GetReceiptIsGood
  <2>7. QED
    BY <1>1, <2>1, <2>6, StepMade
<1>5. CASE Indexed = {} /\ ~again
  <2>1. r = [call EXCEPT !.pc = "done"]
    BY <1>5
  <2> HIDE DEF r
  <2>2. QED
    BY <1>1, <1>2, <2>1, EndsWithNone, StepMade
<1>6. QED
  BY <1>3, <1>4, <1>5

(* The verdict: a yes is for a final block. *)
LEMMA VerdictIsGood ==
  ASSUME CallInv, call.pc \in {"header", "final"}, NEW yes \in BOOLEAN,
         yes => IsFinal(JudgedBy(call))
  PROVE  Verdict(yes) = NoCall \/ GoodCall(Verdict(yes), along)
<1>1. /\ GoodCall(call, along) /\ call \in CallState /\ call.answer = NoBlock /\ ViewInv
      /\ Includes \cap Ancestors[bestHead] \subseteq along
  BY DEF CallInv, GoodCall
<1>2. CASE call.op = "txFinal" /\ yes
  <2> DEFINE b == call.entry
  <2>1. b \in Includes \cap along /\ IsFinal(b)
    BY <1>1, <1>2, FinalIsBest DEF GoodCall, Guarded, JudgedBy
  <2>2. Verdict(yes) = [call EXCEPT !.pc = "done", !.answer = b]
    BY <1>2 DEF Verdict
  <2> HIDE DEF b
  <2>3. GoodCall([call EXCEPT !.pc = "done", !.answer = b], along)
    BY <1>1, <2>1, EndsWithFinal
  <2>4. QED
    BY <2>2, <2>3
<1>3. CASE call.op = "txFinal" /\ ~yes
  <2>1. [call EXCEPT !.pc = "done"] = [call EXCEPT !.pc = "done", !.answer = NoBlock]
    BY <1>1 DEF CallState
  <2>2. Verdict(yes) = [call EXCEPT !.pc = "done"]
    BY <1>3, <2>1 DEF Verdict
  <2>3. GoodCall([call EXCEPT !.pc = "done"], along)
    BY <1>1, EndsWithNone
  <2>4. QED
    BY <2>2, <2>3
<1>4. CASE call.op # "txFinal" /\ yes
  <2>1. call.op \in Guarded /\ call.at \in Block /\ call.count = 0 /\ SafeBlock(call.at)
    BY <1>1, <1>4 DEF GoodCall, JudgedBy, SafeBlock
  <2>2. Verdict(yes) = BehindGuard(call)
    BY <1>4 DEF Verdict
  <2>3. QED
    BY <1>1, <2>1, <2>2, BehindGuardIsGood
<1>5. CASE call.op # "txFinal" /\ ~yes
  BY <1>5 DEF Verdict, Throw
<1>6. QED
  BY <1>2, <1>3, <1>4, <1>5

LEMMA JudgedBlock ==
  ASSUME CallInv, call.pc \in {"header", "final"}
  PROVE  Judged = JudgedBy(call) /\ Judged \in Block
  BY ReceiptsAssumption DEF CallInv, GoodCall, Guarded, Judged, JudgedBy

(* Finality: not above the finalized number, and a final hash or the       *)
(* canonical one.                                                          *)
LEMMA HeaderStep ==
  ASSUME CallInv, HeaderAnswers
  PROVE  CallInv'
<1> DEFINE ask == [call EXCEPT !.pc = "final"]
           r == IF Number[Judged] > FinalizedBlockNumber THEN Verdict(FALSE)
                ELSE IF Judged \in finalHashes THEN Verdict(TRUE) ELSE ask
<1>1. Step("header", r)
  BY DEF HeaderAnswers
<1>2. /\ call.pc = "header" /\ GoodCall(call, along) /\ call \in CallState
      /\ ViewInv /\ ViewReady
  BY <1>1 DEF Step, CallInv, GoodCall
<1>3. Judged = JudgedBy(call) /\ Judged \in Block
  BY <1>2, JudgedBlock
<1>4. Verdict(FALSE) = NoCall \/ GoodCall(Verdict(FALSE), along)
  BY <1>2, VerdictIsGood
<1>5. Judged \in finalHashes => Verdict(TRUE) = NoCall \/ GoodCall(Verdict(TRUE), along)
  BY <1>2, <1>3, YesIsTrue, VerdictIsGood
<1>6. ~(Number[Judged] > FinalizedBlockNumber) => GoodCall(ask, along)
  <2>1. /\ ask \in CallState /\ ask.reads = call.reads /\ ask.op = call.op
        /\ ask.pc = "final" /\ ask.entry = call.entry /\ ask.answer = call.answer
        /\ ask.at = call.at /\ ask.count = call.count
    BY <1>2 DEF CallState
  <2>2. ~(Number[Judged] > FinalizedBlockNumber)
           => Number[JudgedBy(call)] <= Number[finalizedHead]
    BY <1>2, <1>3, HeightIsFinal
  <2> HIDE DEF ask
  <2>3. QED
    BY <1>2, <2>1, <2>2 DEF GoodCall, JudgedBy
<1>7. r = NoCall \/ GoodCall(r, along)
  <2> HIDE DEF ask
  <2>1. QED
    BY <1>4, <1>5, <1>6
<1>8. QED
  <2> HIDE DEF r
  <2>1. QED
    BY <1>1, <1>7, StepMade

LEMMA FinalStep ==
  ASSUME CallInv, FinalAnswers
  PROVE  CallInv'
<1> DEFINE reply == CanonicalHash(Number[Judged])
           yes == reply = Judged
<1>1. Step("final", IF reply = NoBlock THEN Throw ELSE Verdict(yes))
  BY DEF FinalAnswers
<1>2. call.pc = "final" /\ GoodCall(call, along) /\ ViewInv
  BY <1>1 DEF Step, CallInv
<1>3. Judged = JudgedBy(call) /\ Judged \in Block
  BY <1>2, JudgedBlock
<1>4. yes => IsFinal(JudgedBy(call))
  BY <1>2, <1>3, YesIsTrue DEF GoodCall
<1>5. yes \in BOOLEAN
  OBVIOUS
<1> HIDE DEF reply, yes
<1>6. Verdict(yes) = NoCall \/ GoodCall(Verdict(yes), along)
  BY <1>2, <1>4, <1>5, VerdictIsGood
<1>7. QED
  BY <1>1, <1>6, StepMade DEF Throw

LEMMA CallKept ==
  ASSUME CallInv, CallStep
  PROVE  CallInv'
<1>1. CASE Fails \/ Returns
  BY <1>1, StepMade DEF Fails, Returns, Throw
<1>2. QED
  BY <1>1, AskReceiptStep, AskReceiptAtStep, AskTransactionStep, AskCountStep, AskStateStep,
     AskStateAtStep, PoolStep, CanonStep, IndexerStep, HeaderStep, FinalStep, AccountStep, ValueStep
  DEF CallStep

-----------------------------------------------------------------------------
(* Steps of those who send. *)

Sent == {"sendTransaction", "signer"}

(* A response is for a block of success, and so is whoever waits with it.  *)
SendInv ==
  /\ sending \in SendingState
  /\ sending.via \in Sent => ViewReady
  /\ sending.via \in Sent /\ sending.pc \in {"header", "timestamp", "responded"}
       => sending.status \in Includes \ FailsIn

(* How high the best chain is stays true of it: forks are never lower.     *)
WaitInv ==
  /\ wait \in WaitState
  /\ wait.pc # "idle" => sending.via \in Sent /\ sending.pc = "responded"
  /\ wait.pc \in {"confirmed", "checking", "resolved"} /\ sending.via = "sendTransaction" =>
       Number[bestHead] >= Number[sending.status] + wait.confirms - 1
  /\ wait.pc = "checking" => Number[sending.status] <= Number[finalizedHead]
  /\ wait.pc = "resolved" /\ safeMode => IsFinal(sending.status)

PollInv ==
  /\ poll \in PollState
  /\ poll.listening => poll.pc = "polling"

Inv == CallInv /\ SendInv /\ WaitInv /\ PollInv

LEMMA InvInit == Init => Inv
<1> SUFFICES ASSUME Init PROVE Inv
  OBVIOUS
<1>1. ViewInv
  BY ViewInvInit DEF Init, ReceiptsInit
<1>2. CacheInv
  BY DEF Init, ReceiptsInit, ViewInit, CacheInv, SafeBlock
<1>3. CallInv
  BY <1>1, <1>2, NothingAsked DEF Init, ReceiptsInit, CallInv
<1>4. SendInv /\ WaitInv
  BY SendingAssumption DEF Init, SendInv, WaitInv, SendingState, WaitState, Sent
<1>5. PollInv
  BY SendingAssumption DEF Init, PollInv, PollState
<1>6. QED
  BY <1>3, <1>4, <1>5 DEF Inv

(* What the other side of the system keeps for those who send and wait.    *)
LEMMA WorldSideways ==
  ASSUME CallInv, \/ World
                  \/ UNCHANGED <<chainVars, viewVars, safeMode>>
  PROVE  /\ safeMode' = safeMode
         /\ ViewReady => ViewReady'
         /\ \A b : IsFinal(b) => IsFinal(b)'
         /\ Number[bestHead] \in Nat /\ Number[bestHead'] \in Nat
         /\ Number[bestHead] <= Number[bestHead']
         /\ Number[finalizedHead] \in Nat /\ Number[finalizedHead'] \in Nat
         /\ Number[finalizedHead] <= Number[finalizedHead']
<1>1. Number[bestHead] \in Nat
  BY TreeAssumption DEF CallInv, ViewInv, ViewTypeOK, ChainTypeOK
<1>2. CASE World
  <2>1. /\ safeMode' = safeMode
        /\ ViewReady => ViewReady'
        /\ \A b : IsFinal(b) => IsFinal(b)'
    BY <1>2, CacheStep, WorldIsView, ReadyStays, FinalStays DEF CallInv, IsFinal
  <2>2. \/ bestHead' = bestHead
        \/ \E b \in Block : bestHead' = b /\ Number[b] >= Number[bestHead]
    BY <1>2 DEF World, Import, HeadImported, NewBest, CacheHead, HeadCached, Finality,
                BlockFinalized, Finalize, FinalAnnounced, Index, Elsewhere, chainVars
  <2>3. Number[bestHead'] \in Nat /\ Number[bestHead] <= Number[bestHead']
    BY <1>1, <2>2, TreeAssumption
  <2>4. /\ Number[finalizedHead] \in Nat /\ Number[finalizedHead'] \in Nat
        /\ Number[finalizedHead] <= Number[finalizedHead']
    BY <1>2, WorldIsView, FinalFacts DEF CallInv
  <2>5. QED
    BY <1>1, <2>1, <2>3, <2>4
<1>3. CASE UNCHANGED <<chainVars, viewVars, safeMode>>
  <2>1. Number[finalizedHead] \in Nat
    BY TreeAssumption DEF CallInv, ViewInv, ViewTypeOK, ChainTypeOK
  <2>2. QED
    BY <1>1, <1>3, <2>1 DEF chainVars, viewVars, ViewReady, IsFinal
<1>4. QED
  BY <1>2, <1>3

LEMMA ReportedFacts ==
  ASSUME SendInv
  PROVE  /\ Reported(sending) \in SendingState
         /\ Reported(sending).via = sending.via /\ Reported(sending).pc = sending.pc
         /\ sending.pc # "sent" => Reported(sending) = sending
<1> DEFINE on == Includes \cap Ancestors[bestHead']
<1>1. sending \in SendingState
  BY DEF SendInv
<1>2. CASE Reported(sending) = sending
  BY <1>1, <1>2
<1>3. ASSUME NEW b \in Includes, NEW d, d = [sending EXCEPT !.status = b]
      PROVE  d \in SendingState /\ d.via = sending.via /\ d.pc = sending.pc
  BY <1>1, <1>3 DEF SendingState
<1>4. ASSUME NEW l \in BOOLEAN, NEW d, d = [sending EXCEPT !.lost = l]
      PROVE  d \in SendingState /\ d.via = sending.via /\ d.pc = sending.pc
  BY <1>1, <1>4 DEF SendingState
<1>5. CASE sending.pc = "sent" /\ sending.status = NoBlock /\ ~sending.lost /\ on # {}
  <2>1. (CHOOSE b \in on : TRUE) \in Includes
    BY <1>5
  <2>2. Reported(sending) = [sending EXCEPT !.status = CHOOSE b \in on : TRUE]
    BY <1>5 DEF Reported
  <2>3. QED
    BY <1>3, <1>5, <2>1, <2>2
<1>6. CASE sending.pc = "sent" /\ sending.status = NoBlock /\ ~sending.lost /\ on = {}
  <2>1. Reported(sending) = [sending EXCEPT !.lost = (pooled /\ ~pooled')]
    BY <1>6 DEF Reported
  <2>2. (pooled /\ ~pooled') \in BOOLEAN
    OBVIOUS
  <2>3. QED
    BY <1>4, <1>6, <2>1, <2>2
<1>7. CASE sending.pc # "sent" \/ sending.status # NoBlock \/ sending.lost
  <2>1. Reported(sending) = sending
    BY <1>7 DEF Reported
  <2>2. QED
    BY <1>2, <2>1
<1>8. QED
  BY <1>5, <1>6, <1>7

(* A step that leaves a wait and those who sent for it alone keeps both.   *)
LEMMA Undisturbed ==
  ASSUME Inv, CallInv',
         World \/ UNCHANGED <<chainVars, viewVars, safeMode>>
  PROVE  /\ sending' = sending => SendInv'
         /\ wait' = wait /\ (wait.pc # "idle" => sending' = sending) => WaitInv'
         /\ poll' = poll => PollInv'
<1>1. /\ safeMode' = safeMode
      /\ ViewReady => ViewReady'
      /\ \A b : IsFinal(b) => IsFinal(b)'
      /\ Number[bestHead] \in Nat /\ Number[bestHead'] \in Nat
      /\ Number[bestHead] <= Number[bestHead']
      /\ Number[finalizedHead] \in Nat /\ Number[finalizedHead'] \in Nat
      /\ Number[finalizedHead] <= Number[finalizedHead']
  BY WorldSideways DEF Inv
<1>2. sending' = sending => SendInv'
  BY <1>1 DEF Inv, SendInv
<1>3. wait' = wait /\ (wait.pc # "idle" => sending' = sending) => WaitInv'
  <2> SUFFICES ASSUME wait' = wait, wait.pc # "idle" => sending' = sending PROVE WaitInv'
    OBVIOUS
  <2>1. CASE wait.pc = "idle"
    BY <2>1 DEF Inv, WaitInv
  <2>2. CASE wait.pc # "idle"
    <3>1. /\ sending' = sending /\ wait.confirms \in Nat
          /\ Number[sending.status] \in Nat
      BY <2>2, SendingAssumption, ReceiptsAssumption, TreeAssumption
      DEF Inv, WaitInv, SendInv, WaitState
    <3>2. /\ wait.pc \in {"confirmed", "checking", "resolved"}
               /\ sending.via = "sendTransaction" =>
             Number[bestHead'] >= Number[sending.status] + wait.confirms - 1
          /\ wait.pc = "checking" => Number[sending.status] <= Number[finalizedHead']
      BY <1>1, <3>1 DEF Inv, WaitInv
    <3>3. QED
      BY <1>1, <3>1, <3>2 DEF Inv, WaitInv
  <2>3. QED
    BY <2>1, <2>2
<1>4. poll' = poll => PollInv'
  BY DEF Inv, PollInv
<1>5. QED
  BY <1>2, <1>3, <1>4

LEMMA CallUntouched ==
  ASSUME CallInv,
         UNCHANGED <<chainVars, viewVars, safeMode, byHash, indexedTo, call, history>>
  PROVE  CallInv'
<1>1. ViewInv' /\ (ViewReady <=> ViewReady')
  <2>1. ViewInv'
    BY ViewInvStays DEF CallInv
  <2>2. QED
    BY <2>1 DEF viewVars, ViewReady
<1>2. \A b : (IsFinal(b) <=> IsFinal(b)') /\ (SafeBlock(b) <=> SafeBlock(b)')
  BY DEF chainVars, history, IsFinal, SafeBlock
<1>3. CacheInv'
  BY <1>2 DEF CallInv, CacheInv, viewVars, history
<1>4. GoodCall(call, along)'
  BY <1>2 DEF CallInv, GoodCall, chainVars, history
<1>5. QED
  BY <1>1, <1>3, <1>4 DEF CallInv, chainVars, history

LEMMA WorldStepKeeps ==
  ASSUME Inv, WorldStep
  PROVE  Inv'
<1>1. World /\ sending' = Reported(sending) /\ UNCHANGED <<wait, poll>>
  BY DEF WorldStep
<1>2. CallInv'
  BY <1>1, WorldKeepsCall DEF Inv
<1>3. /\ Reported(sending) \in SendingState
      /\ Reported(sending).via = sending.via /\ Reported(sending).pc = sending.pc
      /\ sending.pc # "sent" => Reported(sending) = sending
  BY ReportedFacts DEF Inv
<1>4. WaitInv' /\ PollInv'
  BY <1>1, <1>2, <1>3, Undisturbed DEF Inv, WaitInv
<1>5. SendInv'
  <2>1. ViewReady => ViewReady'
    BY <1>1, WorldSideways DEF Inv
  <2>2. QED
    BY <1>1, <1>3, <2>1 DEF Inv, SendInv
<1>6. QED
  BY <1>2, <1>4, <1>5 DEF Inv

LEMMA CallStepKeeps ==
  ASSUME Inv, CallStep, UNCHANGED sendVars
  PROVE  Inv'
<1>1. CallInv'
  BY CallKept DEF Inv
<1>2. UNCHANGED <<chainVars, viewVars, safeMode>>
  BY DEF CallStep, AskReceipt, AskReceiptAt, AskTransaction, AskCount, AskState, AskStateAt,
         StartAs, PoolAnswers, CanonAnswers, IndexerAnswers, HeaderAnswers, FinalAnswers,
         AccountAnswers, ValueAnswers, Fails, Returns, Step, sources
<1>3. QED
  BY <1>1, <1>2, Undisturbed DEF Inv, sendVars

(* A step in the way of an extrinsic that is not answered yet.             *)
LEMMA SendStepKeeps ==
  ASSUME Inv, sending.pc # "responded", sending' \in SendingState,
         UNCHANGED <<chainVars, viewVars, safeMode, byHash, indexedTo, call, history,
                     wait, poll>>,
         sending'.via \in Sent => ViewReady,
         sending'.via \in Sent /\ sending'.pc \in {"header", "timestamp", "responded"}
           => sending'.status \in Includes \ FailsIn
  PROVE  Inv'
<1>1. CallInv'
  BY CallUntouched DEF Inv
<1>2. WaitInv' /\ PollInv'
  BY <1>1, Undisturbed DEF Inv, WaitInv
<1>3. SendInv'
  BY DEF SendInv, viewVars, ViewReady
<1>4. QED
  BY <1>1, <1>2, <1>3 DEF Inv

LEMMA BeginKeeps ==
  ASSUME Inv, \/ \E via \in {"sendTransaction", "sendRawTransaction"} : Prepare(via)
              \/ PrepareSigned \/ ClaimEvmAccount \/ ClaimDefaultAccount
  PROVE  Inv'
<1>1. PICK via \in {"sendTransaction", "sendRawTransaction", "signer", "claim"},
           pc \in {"preparing", "responded"} :
        /\ Begin(via, pc) /\ (pc = "responded" => via = "claim")
        /\ via # "claim" => ViewReady
  BY DEF Prepare, PrepareSigned, ClaimEvmAccount, ClaimDefaultAccount
<1>2. /\ sending.pc = "idle" /\ sending' = [sending EXCEPT !.via = via, !.pc = pc]
      /\ UNCHANGED <<chainVars, viewVars, safeMode, byHash, indexedTo, call, history,
                     wait, poll>>
  BY <1>1 DEF Begin, SendStep, world, sources
<1>3. sending' \in SendingState /\ sending'.via = via /\ sending'.pc = pc
  BY <1>2 DEF Inv, SendInv, SendingState
<1>4. QED
  BY <1>1, <1>2, <1>3, SendStepKeeps DEF Sent

LEMMA SendKeeps ==
  ASSUME Inv, Send
  PROVE  Inv'
<1>1. PICK pc \in {"responded", "sent"} :
        /\ sending' = [sending EXCEPT !.pc = pc]
        /\ pc = "responded" => sending.via = "sendRawTransaction"
  BY DEF Send
<1>2. /\ sending.pc = "preparing"
      /\ UNCHANGED <<chainVars, viewVars, safeMode, byHash, indexedTo, call, history,
                     wait, poll>>
  BY DEF Send
<1>3. sending' \in SendingState /\ sending'.via = sending.via /\ sending'.pc = pc
  BY <1>1 DEF Inv, SendInv, SendingState
<1>4. QED
  BY <1>1, <1>2, <1>3, SendStepKeeps DEF Sent, Inv, SendInv

LEMMA SettleKeeps ==
  ASSUME Inv, HandleTxResponse
  PROVE  Inv'
<1>1. PICK pc \in {"failed", "header", "responded"} :
        /\ sending' = [sending EXCEPT !.pc = pc]
        /\ pc # "failed" => sending.via = "claim" \/ sending.status \notin FailsIn
  BY DEF HandleTxResponse, Settle
<1>2. /\ sending.pc = "sent" /\ sending.status # NoBlock
      /\ UNCHANGED <<chainVars, viewVars, safeMode, byHash, indexedTo, call, history,
                     wait, poll>>
  BY DEF HandleTxResponse, world, sources
<1>3. /\ sending' \in SendingState /\ sending'.via = sending.via /\ sending'.pc = pc
      /\ sending'.status = sending.status /\ sending.status \in Includes \cup {NoBlock}
  BY <1>1 DEF Inv, SendInv, SendingState
<1>4. QED
  BY <1>1, <1>2, <1>3, SendStepKeeps DEF Sent, Inv, SendInv

(* The rest of the way: to the answer, or to its failure.                  *)
LEMMA OnwardKeeps ==
  ASSUME Inv, Rejected \/ HeaderRead \/ WrapTransaction \/ SendFails
  PROVE  Inv'
<1>1. PICK pc \in {"failed", "timestamp", "responded"} :
        /\ sending' = [sending EXCEPT !.pc = pc]
        /\ pc # "failed" => sending.pc \in {"header", "timestamp"}
  BY DEF Rejected, HeaderRead, WrapTransaction, SendFails, SendStep
<1>2. /\ sending.pc # "responded"
      /\ UNCHANGED <<chainVars, viewVars, safeMode, byHash, indexedTo, call, history,
                     wait, poll>>
  BY DEF Rejected, HeaderRead, WrapTransaction, SendFails, SendStep, world, sources
<1>3. /\ sending' \in SendingState /\ sending'.via = sending.via /\ sending'.pc = pc
      /\ sending'.status = sending.status
  BY <1>1 DEF Inv, SendInv, SendingState
<1>4. QED
  BY <1>1, <1>2, <1>3, SendStepKeeps DEF Inv, SendInv

-----------------------------------------------------------------------------
(* Steps of those who wait. *)

LEMMA WaitStepKeeps ==
  ASSUME Inv, NEW from, NEW r, WaitStep(from, r), r \in WaitState,
         sending.via \in Sent /\ sending.pc = "responded",
         r.pc \in {"confirmed", "checking", "resolved"} /\ sending.via = "sendTransaction" =>
           Number[bestHead] >= Number[sending.status] + r.confirms - 1,
         r.pc = "checking" => Number[sending.status] <= Number[finalizedHead],
         r.pc = "resolved" /\ safeMode => IsFinal(sending.status)
  PROVE  Inv'
<1>1. /\ wait' = r
      /\ UNCHANGED <<chainVars, viewVars, safeMode, byHash, indexedTo, call, history,
                     sending, poll>>
  BY DEF WaitStep, world, sources
<1>2. CallInv'
  BY <1>1, CallUntouched DEF Inv
<1>3. SendInv' /\ PollInv'
  BY <1>1, <1>2, Undisturbed
<1>4. WaitInv'
  BY <1>1 DEF WaitInv, IsFinal, chainVars
<1>5. QED
  BY <1>2, <1>3, <1>4 DEF Inv

LEMMA WaitKeeps ==
  ASSUME Inv, NEW n \in 0 .. MaxConfirms, NEW timed \in BOOLEAN, Wait(n, timed)
  PROVE  Inv'
<1> DEFINE r == [wait EXCEPT !.confirms = n, !.timed = timed, !.pc = "waiting"]
<1>1. WaitStep("idle", r) /\ sending.via \in Sent /\ sending.pc = "responded"
  BY DEF Wait, Sent
<1>2. r \in WaitState /\ r.pc = "waiting"
  BY DEF Inv, WaitInv, WaitState
<1> HIDE DEF r
<1>3. QED
  BY <1>1, <1>2, WaitStepKeeps

LEMMA WaitSignedKeeps ==
  ASSUME Inv, NEW n \in 0 .. MaxConfirms, WaitSigned(n)
  PROVE  Inv'
<1> DEFINE r == [wait EXCEPT !.confirms = n, !.pc = "confirmed"]
<1>1. WaitStep("idle", r) /\ sending.via = "signer" /\ sending.pc = "responded"
  BY DEF WaitSigned
<1>2. r \in WaitState /\ r.pc = "confirmed"
  BY DEF Inv, WaitInv, WaitState
<1> HIDE DEF r
<1>3. QED
  BY <1>1, <1>2, WaitStepKeeps DEF Sent

LEMMA HeadComesKeeps ==
  ASSUME Inv, HeadComes
  PROVE  Inv'
<1>1. PICK pc \in {"waiting", "confirmed"} :
        /\ WaitStep("waiting", [wait EXCEPT !.heard = TRUE, !.pc = pc])
        /\ pc = "confirmed" => Confirmed(bestHead)
  <2>1. CASE Confirmed(bestHead)
    BY <2>1 DEF HeadComes
  <2>2. CASE ~Confirmed(bestHead)
    <3>1. WaitStep("waiting", [wait EXCEPT !.heard = TRUE, !.pc = @])
      BY <2>2 DEF HeadComes
    <3>2. wait.pc = "waiting"
      BY DEF HeadComes
    <3>3. QED
      BY <3>1, <3>2
  <2>3. QED
    BY <2>1, <2>2
<1> DEFINE r == [wait EXCEPT !.heard = TRUE, !.pc = pc]
<1>2. /\ wait.pc = "waiting" /\ wait \in WaitState
      /\ sending.via \in Sent /\ sending.pc = "responded"
  BY DEF HeadComes, Inv, WaitInv
<1>3. r \in WaitState /\ r.pc = pc /\ r.confirms = wait.confirms
  BY <1>2 DEF WaitState
<1>4. /\ Number[bestHead] \in Nat /\ Number[sending.status] \in Nat /\ wait.confirms \in Nat
  BY <1>2, ReceiptsAssumption, TreeAssumption
  DEF Inv, CallInv, ViewInv, ViewTypeOK, ChainTypeOK, SendInv, WaitState
<1>5. pc = "confirmed" => Number[bestHead] >= Number[sending.status] + wait.confirms - 1
  BY <1>1, <1>4 DEF Confirmed
<1> HIDE DEF r
<1>6. QED
  BY <1>1, <1>2, <1>3, <1>5, WaitStepKeeps DEF r

LEMMA TimeoutKeeps ==
  ASSUME Inv, TimeoutFirst
  PROVE  Inv'
<1> DEFINE r == [wait EXCEPT !.pc = "timedOut"]
<1>1. WaitStep("waiting", r) /\ wait.pc = "waiting" /\ wait \in WaitState
  BY DEF TimeoutFirst, WaitStep, Inv, WaitInv
<1>2. r \in WaitState /\ r.pc = "timedOut" /\ sending.via \in Sent /\ sending.pc = "responded"
  BY <1>1 DEF Inv, WaitInv, WaitState
<1> HIDE DEF r
<1>3. QED
  BY <1>1, <1>2, WaitStepKeeps

LEMMA ReceiptFromChainKeeps ==
  ASSUME Inv, ReceiptFromChain
  PROVE  Inv'
<1> DEFINE b == sending.status
           to(pc) == [wait EXCEPT !.pc = pc]
<1>1. PICK from \in {"confirmed", "checking"}, pc \in {"checking", "resolved", "failed"} :
        /\ WaitStep(from, to(pc))
        /\ pc = "checking" => ~(Number[b] > FinalizedBlockNumber)
        /\ pc = "resolved" => \/ ~safeMode
                              \/ b \in finalHashes
                              \/ from = "checking" /\ CanonicalHash(Number[b]) = b
  <2> DEFINE high == Number[b] > FinalizedBlockNumber
             hash == b \in finalHashes
             same == CanonicalHash(Number[b]) = b
  <2>1. \/ WaitStep("confirmed", to(CASE ~safeMode \/ (Number[b] <= FinalizedBlockNumber /\ hash)
                                          -> "resolved"
                                     [] safeMode /\ high -> "failed"
                                     [] OTHER -> "checking"))
        \/ WaitStep("checking", to(IF same THEN "resolved" ELSE "failed"))
    BY DEF ReceiptFromChain
  <2> HIDE DEF to
  <2>2. \/ WaitStep("confirmed", to("resolved")) /\ (~safeMode \/ hash)
        \/ WaitStep("confirmed", to("failed"))
        \/ WaitStep("confirmed", to("checking")) /\ ~high
        \/ WaitStep("checking", to("resolved")) /\ same
        \/ WaitStep("checking", to("failed"))
    <3> HIDE DEF high, hash, same
    <3>1. CASE ~safeMode
      BY <2>1, <3>1
    <3>2. CASE safeMode /\ high
      BY <2>1, <3>2
    <3>3. CASE safeMode /\ ~high
      BY <2>1, <3>3
    <3>4. QED
      BY <3>1, <3>2, <3>3
  <2> HIDE DEF b, high, hash, same
  <2>3. CASE WaitStep("confirmed", to("resolved")) /\ (~safeMode \/ hash)
    BY <2>3 DEF hash
  <2>4. CASE WaitStep("confirmed", to("failed"))
    BY <2>4
  <2>5. CASE WaitStep("confirmed", to("checking")) /\ ~high
    BY <2>5 DEF high
  <2>6. CASE WaitStep("checking", to("resolved")) /\ same
    BY <2>6 DEF same
  <2>7. CASE WaitStep("checking", to("failed"))
    BY <2>7
  <2>8. QED
    BY <2>2, <2>3, <2>4, <2>5, <2>6, <2>7
<1> DEFINE r == to(pc)
<1>2. /\ wait.pc = from /\ wait \in WaitState
      /\ sending.via \in Sent /\ sending.pc = "responded"
  BY <1>1 DEF WaitStep, Inv, WaitInv
<1>3. r \in WaitState /\ r.pc = pc /\ r.confirms = wait.confirms
  BY <1>2 DEF WaitState
<1>4. ViewInv /\ ViewReady /\ b \in Block
  BY <1>2, ReceiptsAssumption DEF Inv, CallInv, SendInv
<1>5. pc = "checking" => Number[b] <= Number[finalizedHead]
  BY <1>1, <1>4, HeightIsFinal
<1>6. pc = "resolved" /\ safeMode => IsFinal(b)
  <2>1. from = "checking" => Number[b] <= Number[finalizedHead]
    BY <1>2 DEF Inv, WaitInv
  <2>2. QED
    BY <1>1, <1>4, <2>1, YesIsTrue
<1>7. sending.via = "sendTransaction" => Number[bestHead] >= Number[b] + wait.confirms - 1
  BY <1>2 DEF Inv, WaitInv
<1> HIDE DEF r
<1>8. QED
  BY <1>1, <1>2, <1>3, <1>5, <1>6, <1>7, WaitStepKeeps DEF r

-----------------------------------------------------------------------------
(* Steps of those who poll. *)

LEMMA PollStepKeeps ==
  ASSUME Inv, NEW from, NEW r, PollStep(from, r), r \in PollState,
         r.listening => r.pc = "polling"
  PROVE  Inv'
<1>1. /\ poll' = r
      /\ UNCHANGED <<chainVars, viewVars, safeMode, byHash, indexedTo, call, history,
                     sending, wait>>
  BY DEF PollStep, world, sources
<1>2. CallInv'
  BY <1>1, CallUntouched DEF Inv
<1>3. SendInv' /\ WaitInv'
  BY <1>1, <1>2, Undisturbed
<1>4. PollInv'
  BY <1>1 DEF PollInv
<1>5. QED
  BY <1>2, <1>3, <1>4 DEF Inv

(* What each step of a poll does to it, and that it keeps its promise.     *)
PollAction ==
  \/ \E n \in 0 .. MaxConfirms, timed \in BOOLEAN : WaitForTransaction(n, timed)
  \/ ReceiptAlreadyGood \/ PollFinds \/ MinedHandler \/ Timer

LEMMA PollActionKeeps ==
  ASSUME Inv, PollAction
  PROVE  /\ Inv'
         /\ poll.pc \in {"resolved", "timedOut"} => poll'.pc = poll.pc /\ ~poll'.listening
<1>1. poll \in PollState /\ (poll.listening => poll.pc = "polling")
  BY DEF Inv, PollInv
<1>2. ASSUME NEW n \in 0 .. MaxConfirms, NEW timed \in BOOLEAN, WaitForTransaction(n, timed)
      PROVE  Inv' /\ poll.pc = "idle"
  <2> DEFINE r == [poll EXCEPT !.pc = "asked", !.confirms = n, !.timed = timed]
  <2>1. PollStep("idle", r) /\ poll.pc = "idle"
    BY <1>2 DEF WaitForTransaction, PollStep
  <2>2. r \in PollState /\ r.listening = poll.listening
    BY <1>1 DEF PollState
  <2> HIDE DEF r
  <2>3. QED
    BY <1>1, <2>1, <2>2, PollStepKeeps
<1>3. CASE ReceiptAlreadyGood
  <2> DEFINE good == [poll EXCEPT !.pc = "resolved"]
             more == [poll EXCEPT !.pc = "polling", !.listening = TRUE]
  <2>1. PollStep("asked", good) \/ PollStep("asked", more)
    BY <1>3 DEF ReceiptAlreadyGood
  <2>2. poll.pc = "asked"
    BY <2>1 DEF PollStep
  <2>3. /\ good \in PollState /\ good.listening = poll.listening
        /\ more \in PollState /\ more.pc = "polling"
    BY <1>1 DEF PollState
  <2> HIDE DEF good, more
  <2>4. QED
    BY <1>1, <2>1, <2>2, <2>3, PollStepKeeps
<1>4. CASE PollFinds
  <2> DEFINE r == [poll EXCEPT !.due = ServedReceipt]
  <2>1. PollStep("polling", r) /\ poll.pc = "polling"
    BY <1>4 DEF PollFinds, PollStep
  <2>2. ServedReceipt \in Includes \cup {NoBlock}
    BY DEF ServedReceipt, Inv, CallInv, CacheInv
  <2>3. r \in PollState /\ r.pc = poll.pc
    BY <1>1, <2>2 DEF PollState
  <2> HIDE DEF r
  <2>4. QED
    BY <2>1, <2>3, PollStepKeeps
<1>5. CASE MinedHandler
  <2> DEFINE now == [poll EXCEPT !.due = NoBlock, !.pc = "resolved", !.listening = FALSE]
             late == [poll EXCEPT !.due = NoBlock]
  <2>1. \/ PollStep(poll.pc, now) /\ poll.pc = "polling"
        \/ PollStep(poll.pc, late)
    BY <1>5 DEF MinedHandler
  <2>2. /\ now \in PollState /\ ~now.listening
        /\ late \in PollState /\ late.pc = poll.pc /\ late.listening = poll.listening
    BY <1>1 DEF PollState
  <2> HIDE DEF now, late
  <2>3. poll' \in {now, late} /\ (poll' = now => poll.pc = "polling" \/ now = late)
    BY <2>1 DEF PollStep
  <2>4. QED
    BY <1>1, <2>1, <2>2, <2>3, PollStepKeeps
<1>6. CASE Timer
  <2> DEFINE r == [poll EXCEPT !.pc = "timedOut", !.listening = FALSE]
  <2>1. PollStep("polling", r) /\ poll.pc = "polling"
    BY <1>6 DEF Timer, PollStep
  <2>2. r \in PollState /\ ~r.listening
    BY <1>1 DEF PollState
  <2> HIDE DEF r
  <2>3. QED
    BY <2>1, <2>2, PollStepKeeps
<1>7. QED
  BY <1>2, <1>3, <1>4, <1>5, <1>6 DEF PollAction

LEMMA ClaimedKeeps ==
  ASSUME Inv, ClaimedElsewhere
  PROVE  Inv'
<1>1. UNCHANGED <<chainVars, viewVars, safeMode, byHash, indexedTo, call, history,
                  sending, wait, poll>>
  BY DEF ClaimedElsewhere, world, sources
<1>2. CallInv'
  BY <1>1, CallUntouched DEF Inv
<1>3. QED
  BY <1>1, <1>2, Undisturbed DEF Inv

-----------------------------------------------------------------------------
(* Every step that is not of a poll leaves it alone. *)
LEMMA NextKeeps ==
  ASSUME Inv, [Next]_vars
  PROVE  /\ Inv'
         /\ poll.pc \in {"resolved", "timedOut"} =>
              poll'.pc = poll.pc /\ ~poll.listening /\ ~poll'.listening
<1>1. poll.pc \in {"resolved", "timedOut"} => ~poll.listening
  BY DEF Inv, PollInv
<1>2. CASE PollAction
  BY <1>1, <1>2, PollActionKeeps
<1>3. CASE WorldStep
  BY <1>1, <1>3, WorldStepKeeps DEF WorldStep
<1>4. CASE CallStep /\ UNCHANGED <<use, sendVars>>
  BY <1>1, <1>4, CallStepKeeps DEF sendVars
<1>5. CASE UNCHANGED vars
  <2>1. UNCHANGED <<chainVars, viewVars, safeMode, byHash, indexedTo, call, history,
                    sending, wait, poll>>
    BY <1>5 DEF vars, sources, sendVars
  <2>2. QED
    BY <1>1, <2>1, CallUntouched, Undisturbed DEF Inv
<1>6. CASE \/ \E via \in {"sendTransaction", "sendRawTransaction"} : Prepare(via)
           \/ PrepareSigned \/ ClaimEvmAccount \/ ClaimDefaultAccount
  BY <1>1, <1>6, BeginKeeps
  DEF Prepare, PrepareSigned, ClaimEvmAccount, ClaimDefaultAccount, Begin, SendStep
<1>7. CASE Send
  BY <1>1, <1>7, SendKeeps DEF Send
<1>8. CASE HandleTxResponse
  BY <1>1, <1>8, SettleKeeps DEF HandleTxResponse
<1>9. CASE Rejected \/ HeaderRead \/ WrapTransaction \/ SendFails
  BY <1>1, <1>9, OnwardKeeps DEF Rejected, HeaderRead, WrapTransaction, SendFails, SendStep
<1>10. CASE ClaimedElsewhere
  BY <1>1, <1>10, ClaimedKeeps DEF ClaimedElsewhere
<1>11. CASE \/ \E n \in 0 .. MaxConfirms, timed \in BOOLEAN : Wait(n, timed)
            \/ \E n \in 0 .. MaxConfirms : WaitSigned(n)
            \/ HeadComes \/ TimeoutFirst \/ ReceiptFromChain
  BY <1>1, <1>11, WaitKeeps, WaitSignedKeeps, HeadComesKeeps, TimeoutKeeps,
     ReceiptFromChainKeeps
  DEF Wait, WaitSigned, HeadComes, TimeoutFirst, ReceiptFromChain, WaitStep
<1>12. QED
  <2>1. Next => \/ WorldStep
                \/ CallStep /\ UNCHANGED <<use, sendVars>>
                \/ ClientStep
    BY ZenonT(60) DEF Next
  <2>2. ClientStep =>
          \/ PollAction
          \/ \E via \in {"sendTransaction", "sendRawTransaction"} : Prepare(via)
          \/ PrepareSigned \/ ClaimEvmAccount \/ ClaimDefaultAccount
          \/ Send \/ HandleTxResponse
          \/ Rejected \/ HeaderRead \/ WrapTransaction \/ SendFails
          \/ ClaimedElsewhere
          \/ \E n \in 0 .. MaxConfirms, timed \in BOOLEAN : Wait(n, timed)
          \/ \E n \in 0 .. MaxConfirms : WaitSigned(n)
          \/ HeadComes \/ TimeoutFirst \/ ReceiptFromChain
    BY DEF ClientStep, PollAction
  <2>3. QED
    BY <1>2, <1>3, <1>4, <1>5, <1>6, <1>7, <1>8, <1>9, <1>10, <1>11, <2>1, <2>2

LEMMA Invariant == Spec => []Inv
<1>1. Init => Inv
  BY InvInit
<1>2. Inv /\ [Next]_vars => Inv'
  BY NextKeeps
<1>3. QED
  BY <1>1, <1>2, PTL DEF Spec

(* Every receipt that a query answers was that of a canonical block during *)
(* the call, and a transaction said to be final is final.                  *)
THEOREM AnswersWereCanonical == Spec => []AnswerWasCanonical
<1>1. Inv => AnswerWasCanonical
  BY DEF Inv, CallInv, GoodCall, AnswerWasCanonical
<1>2. QED
  BY <1>1, Invariant, PTL

(* In safe mode nothing is answered from a block that may be abandoned,    *)
(* the first latest block apart.                                           *)
THEOREM SafeModeIsSafe == Spec => []SafeModeAnswersFinal
<1>1. Inv => SafeModeAnswersFinal
  BY DEF Inv, CallInv, GoodCall, SafeBlock, SafeModeAnswersFinal
<1>2. QED
  BY <1>1, Invariant, PTL

(* A wait that resolves has a confirmed receipt of a success: the best     *)
(* chain never becomes lower than it was when the head came.               *)
THEOREM WaitsAreConfirmed == Spec => []ResolvedIsConfirmed
<1>1. Inv => ResolvedIsConfirmed
  <2> SUFFICES ASSUME Inv, wait.pc = "resolved" PROVE ResolvedIsConfirmed
    BY DEF ResolvedIsConfirmed
  <2>1. /\ sending.via \in Sent /\ sending.pc = "responded"
        /\ sending.via = "sendTransaction" =>
             Number[bestHead] >= Number[sending.status] + wait.confirms - 1
        /\ safeMode => IsFinal(sending.status)
    BY DEF Inv, WaitInv
  <2>2. QED
    BY <2>1 DEF Inv, SendInv, ResolvedIsConfirmed
<1>2. QED
  BY <1>1, Invariant, PTL

(* The polling wait settles once: its timer and the handler that is queued *)
(* cannot both decide.                                                     *)
THEOREM PollsSettleOnce == Spec => PollSettlesOnce
<1>1. Inv /\ [Next]_vars =>
        [poll.pc \in {"resolved", "timedOut"} =>
           poll'.pc = poll.pc /\ ~poll.listening /\ ~poll'.listening]_vars
  BY NextKeeps
<1>2. QED
  BY <1>1, Invariant, PTL DEF Spec, PollSettlesOnce

-----------------------------------------------------------------------------
(* Nothing is lost, and nothing counted twice: what a call knows of pool,   *)
(* cache and indexer as long as nothing has moved since it was made.       *)

(* The transaction is not to be found on the best chain.                   *)
NotCached == \A b \in Includes \cap Ancestors[bestHead] : b \notin cached
NotIndexed == \A b \in Includes : ~(IsFinal(b) /\ Number[b] <= indexedTo)

Knows(c) ==
  /\ c.pc \in {"canon", "indexer"} => c.op # "count"
  /\ c.op = "count" /\ c.pc = "value" => c.count = Pending
  /\ c.op = "count" /\ c.pc = "done" =>
       c.count = Pending + (IF Mined(c.at) THEN 1 ELSE 0)
  /\ c.op \in {"receipt", "byTx"} =>
       /\ c.pc = "canon" => c.entry = byHash /\ byHash # NoBlock
       /\ c.pc = "indexer" /\ ~shared => NotCached
       /\ c.pc = "done" /\ c.answer = NoBlock /\ c.count = 0 /\ ~shared =>
            NotCached /\ NotIndexed
       /\ /\ c.op = "byTx" /\ ~localMode
          /\ c.pc \in {"canon", "indexer"} \/ (c.pc = "done" /\ c.count = 0)
          => ~pooled

KnownInv ==
  /\ sending.pc # "idle" => use = "sending"
  /\ use = "sending" => call.pc = "idle"
  /\ pooled => ~Mined(bestHead)
  /\ ~shared => \A b \in cached \cap Includes : byHash = b
  /\ ~moved => Knows(call)

LEMMA KnowsOthers ==
  ASSUME NEW c, c.op \notin {"count", "receipt", "byTx"} \/ c.pc \in {"idle", "pool"}
  PROVE  Knows(c)
  BY DEF Knows

(* As far as the world is concerned. *)
LEMMA KnownInWorld ==
  ASSUME Inv, KnownInv, WorldStep
  PROVE  KnownInv'
<1>1. /\ World /\ sending' = Reported(sending) /\ use' = use /\ call' = call
  BY DEF WorldStep, World
<1>2. sending'.pc = sending.pc
  BY <1>1, ReportedFacts DEF Inv
<1>3. pooled' => ~Mined(bestHead)'
  <2>1. CASE PoolFollows
    BY <2>1 DEF PoolFollows, Mined
  <2>2. ASSUME bestHead' = bestHead, pooled' = pooled PROVE pooled' => ~Mined(bestHead)'
    BY <2>2 DEF KnownInv, Mined
  <2>3. CASE Elsewhere
    BY <2>3 DEF Elsewhere, Submitted, Dropped, chainVars, Mined
  <2>4. CASE Finality \/ Index \/ \E b \in Block : CacheHead(b)
    BY <2>2, <2>4 DEF Finality, BlockFinalized, Finalize, FinalAnnounced, Index, CacheHead,
                      HeadCached, sources, chainVars
  <2>5. QED
    BY <1>1, <2>1, <2>3, <2>4 DEF World, Import
<1>4. ~shared' => \A b \in cached' \cap Includes : byHash' = b
  <2> SUFFICES ASSUME ~shared', NEW b \in cached' \cap Includes PROVE byHash' = b
    OBVIOUS
  <2>1. ~shared /\ \A c, d \in (cached \cup cached') \cap Includes : c = d
    BY <1>1 DEF World
  <2>2. CASE UNCHANGED <<cached, byHash>>
    BY <2>1, <2>2 DEF KnownInv
  <2>3. ASSUME NEW h \in Block, CacheHead(h) PROVE byHash' = b
    <3> DEFINE new == {h} \cap cached'
    <3>1. ByHashFollows(new) /\ cached' \subseteq cached \cup {h}
      BY <2>3 DEF CacheHead, HeadCached, Latest
    <3>2. ((cached \cup new) \cap Includes) \ cached' = {}
      BY <2>1
    <3>3. CASE new \cap Includes # {}
      <4>1. byHash' = CHOOSE c \in new : TRUE
        BY <3>1, <3>2, <3>3 DEF ByHashFollows
      <4>2. byHash' = h /\ h \in cached' \cap Includes
        BY <3>3, <4>1
      <4>3. QED
        BY <2>1, <4>2
    <3>4. CASE new \cap Includes = {}
      <4>1. byHash' = byHash
        BY <3>1, <3>2, <3>4 DEF ByHashFollows
      <4>2. b \in cached
        BY <3>1, <3>4
      <4>3. QED
        BY <2>1, <4>1, <4>2 DEF KnownInv
    <3>5. QED
      BY <3>3, <3>4
  <2>4. CASE (\E h \in Block : Import(h)) \/ Finality \/ Index \/ Elsewhere
    <3>1. UNCHANGED <<cached, byHash>>
      BY <2>4 DEF Import, HeadImported, Finality, BlockFinalized, FinalAnnounced, Announced,
                  Index, Elsewhere, viewVars, sources
    <3>2. QED
      BY <2>2, <3>1
  <2>5. QED
    BY <1>1, <2>3, <2>4 DEF World
<1>5. ~moved' => Knows(call)'
  <2>1. ~moved' => call'.pc = "idle"
    BY <1>1 DEF World
  <2>2. QED
    BY <2>1 DEF Knows
<1>6. QED
  BY <1>1, <1>2, <1>3, <1>4, <1>5 DEF KnownInv

(* As far as calls are concerned. *)
LEMMA KnownMade ==
  ASSUME KnownInv, use = "queries", UNCHANGED <<use, sending>>,
         UNCHANGED <<chainVars, viewVars, sources, shared, firstLatest>>,
         ~moved' => Knows(call')
  PROVE  KnownInv'
<1>1. ~moved' => Knows(call)'
  <2>1. /\ Pending' = Pending /\ NotCached' = NotCached /\ NotIndexed' = NotIndexed
        /\ \A b : Mined(b)' = Mined(b)
    BY DEF Pending, NotCached, NotIndexed, Mined, IsFinal, chainVars, viewVars, sources
  <2>2. QED
    BY <2>1 DEF Knows, sources
<1>2. QED
  BY <1>1 DEF KnownInv, Mined, chainVars, viewVars, sources

LEMMA StartKnown ==
  ASSUME KnownInv, use = "queries", UNCHANGED <<use, sending>>, NEW r, StartAs(r), Knows(r)
  PROVE  KnownInv'
  BY KnownMade DEF StartAs

LEMMA StepKnown ==
  ASSUME KnownInv, use = "queries", UNCHANGED <<use, sending>>,
         NEW pc, NEW r, Step(pc, r), r = NoCall \/ (Knows(call) => Knows(r))
  PROVE  KnownInv'
<1>1. ~moved' => Knows(call')
  <2>1. CASE r = NoCall
    BY <2>1, NothingAsked, KnowsOthers DEF Step
  <2>2. CASE r # NoCall
    BY <2>2 DEF Step, KnownInv
  <2>3. QED
    BY <2>1, <2>2
<1>2. QED
  BY <1>1, KnownMade DEF Step

(* A receipt that is found leaves nothing to know. *)
LEMMA FoundKnows ==
  ASSUME NEW c \in CallState, c.op # "count", NEW b \in Block,
         c.op = "byTx" /\ ~localMode => ~pooled
  PROVE  Knows(Found(c, b))
<1>1. b # NoBlock
  BY TreeAssumption
<1>2. CASE c.op \in {"receipt", "byTx"}
  <2>1. Found(c, b) = [c EXCEPT !.pc = "done", !.answer = b]
    BY <1>2 DEF Found
  <2>2. ASSUME NEW d, d = [c EXCEPT !.pc = "done", !.answer = b] PROVE Knows(d)
    <3>1. d.op = c.op /\ d.pc = "done" /\ d.answer = b
      BY <2>2 DEF CallState
    <3>2. QED
      BY <1>1, <3>1 DEF Knows
  <2>3. QED
    BY <2>1, <2>2
<1>3. CASE c.op \notin {"receipt", "byTx"}
  <2>1. Found(c, b).op = c.op
    <3>1. CASE c.op = "txFinal"
      BY <3>1 DEF Found, CallState
    <3>2. CASE c.op = "receiptAt"
      BY <3>2 DEF Found, CallState
    <3>3. CASE c.op \notin {"txFinal", "receiptAt"}
      BY <3>3 DEF Found, CallState
    <3>4. QED
      BY <3>1, <3>2, <3>3
  <2>2. QED
    BY <1>3, <2>1, KnowsOthers
<1>4. QED
  BY <1>2, <1>3

(* The entry of the cache is the one includer that is cached: without one  *)
(* the indexer is left, with one its place on the best chain is in doubt.  *)
LEMMA GetReceiptKnows ==
  ASSUME CallInv, KnownInv, NEW c \in CallState, c.op # "count",
         c.op = "byTx" /\ ~localMode => ~pooled
  PROVE  Knows(GetReceipt(c))
<1>1. byHash # NoBlock => byHash \in Block
  BY ReceiptsAssumption DEF CallInv, CacheInv
<1>2. CASE byHash \in finalHashes
  <2>1. GetReceipt(c) = Found(c, byHash) /\ byHash \in Block
    BY <1>2 DEF GetReceipt, CallInv, ViewInv, ViewTypeOK, ChainTypeOK
  <2>2. QED
    BY <2>1, FoundKnows
<1>3. CASE byHash \notin finalHashes \cup {NoBlock}
  <2>1. ASSUME NEW d, d = [c EXCEPT !.pc = "canon", !.entry = byHash] PROVE Knows(d)
    <3>1. d.op = c.op /\ d.pc = "canon" /\ d.entry = byHash
      BY <2>1 DEF CallState
    <3>2. QED
      BY <1>3, <3>1 DEF Knows
  <2>2. GetReceipt(c) = [c EXCEPT !.pc = "canon", !.entry = byHash]
    BY <1>3 DEF GetReceipt
  <2>3. QED
    BY <2>1, <2>2
<1>4. CASE byHash = NoBlock /\ byHash \notin finalHashes
  <2>1. ~shared => NotCached
    <3>1. NoBlock \notin Includes
      BY ReceiptsAssumption, TreeAssumption
    <3>2. QED
      BY <1>4, <3>1 DEF KnownInv, NotCached
  <2>2. ASSUME NEW d, d = [c EXCEPT !.pc = "indexer"] PROVE Knows(d)
    <3>1. d.op = c.op /\ d.pc = "indexer"
      BY <2>2 DEF CallState
    <3>2. QED
      BY <2>1, <3>1 DEF Knows
  <2>3. GetReceipt(c) = [c EXCEPT !.pc = "indexer"]
    BY <1>4 DEF GetReceipt
  <2>4. QED
    BY <2>2, <2>3
<1>5. QED
  BY <1>2, <1>3, <1>4

LEMMA GetReceiptByIndexOp ==
  ASSUME NEW c \in CallState, c.op = "receiptIndex"
  PROVE  GetReceiptByIndex(c).op = "receiptIndex"
<1>1. \/ GetReceiptByIndex(c) = [c EXCEPT !.pc = "done", !.answer = c.at]
      \/ GetReceiptByIndex(c) = [c EXCEPT !.pc = "canon", !.entry = c.at]
      \/ GetReceiptByIndex(c) = [c EXCEPT !.pc = "indexer"]
  BY DEF GetReceiptByIndex, Found
<1>2. QED
  <2>1. ASSUME NEW d, d = [c EXCEPT !.pc = "done", !.answer = c.at] PROVE d.op = "receiptIndex"
    BY <2>1 DEF CallState
  <2>2. ASSUME NEW d, d = [c EXCEPT !.pc = "canon", !.entry = c.at] PROVE d.op = "receiptIndex"
    BY <2>2 DEF CallState
  <2>3. ASSUME NEW d, d = [c EXCEPT !.pc = "indexer"] PROVE d.op = "receiptIndex"
    BY <2>3 DEF CallState
  <2>4. QED
    BY <1>1, <2>1, <2>2, <2>3

LEMMA FreshCall ==
  ASSUME NEW op \in Ops, NEW b \in Block
  PROVE  /\ [NoCall EXCEPT !.op = op, !.tries = 1] \in CallState
         /\ [NoCall EXCEPT !.op = op, !.tries = 1].op = op
         /\ [NoCall EXCEPT !.op = op, !.at = b, !.tries = 1] \in CallState
         /\ [NoCall EXCEPT !.op = op, !.at = b, !.tries = 1].op = op
<1>1. ASSUME NEW n \in 0 .. MaxTries
      PROVE  /\ [NoCall EXCEPT !.op = op, !.tries = n] \in CallState
             /\ [NoCall EXCEPT !.op = op, !.tries = n].op = op
  BY NothingAsked DEF CallState
<1>2. ASSUME NEW n \in 0 .. MaxTries
      PROVE  /\ [NoCall EXCEPT !.op = op, !.at = b, !.tries = n] \in CallState
             /\ [NoCall EXCEPT !.op = op, !.at = b, !.tries = n].op = op
  BY NothingAsked DEF CallState
<1>3. QED
  BY <1>1, <1>2, MayTry

(* Behind the guard there is nothing to know either. *)
LEMMA BehindGuardKnows ==
  ASSUME CallInv, KnownInv, NEW c \in CallState, c.op \in Guarded
  PROVE  Knows(BehindGuard(c))
<1>1. CASE c.op = "receiptAt"
  BY <1>1, GetReceiptKnows DEF BehindGuard
<1>2. CASE c.op = "receiptIndex"
  BY <1>2, GetReceiptByIndexOp, KnowsOthers DEF BehindGuard
<1>3. ASSUME NEW d, d = [c EXCEPT !.pc = "account"], c.op = "state" PROVE Knows(d)
  <2>1. d.op = "state"
    BY <1>3 DEF CallState
  <2>2. QED
    BY <2>1, KnowsOthers
<1>4. QED
  BY <1>1, <1>2, <1>3 DEF BehindGuard, Guarded

LEMMA GuardKnows ==
  ASSUME CallInv, KnownInv, NEW c \in CallState, c.op \in Guarded
  PROVE  Knows(EnsureSafeModeBlockTagFinalization(c))
<1>1. ASSUME NEW d, d = [c EXCEPT !.pc = "header"] PROVE Knows(d)
  <2>1. d.op = c.op
    BY <1>1 DEF CallState
  <2>2. QED
    BY <2>1, KnowsOthers DEF Guarded
<1>2. QED
  BY <1>1, BehindGuardKnows DEF EnsureSafeModeBlockTagFinalization

(* A call is made. *)
LEMMA AskKnown ==
  ASSUME CallInv, KnownInv, use = "queries", UNCHANGED <<use, sending>>,
         \/ \E op \in Ops : AskReceipt(op) \/ \E b \in Block : AskReceiptAt(op, b)
         \/ AskTransaction \/ AskCount \/ AskState \/ \E b \in Block : AskStateAt(b)
  PROVE  KnownInv'
<1>1. ASSUME NEW op \in Ops, AskReceipt(op) PROVE KnownInv'
  <2> DEFINE c == [NoCall EXCEPT !.op = op, !.tries = 1]
  <2>1. StartAs(GetReceipt(c)) /\ op \in {"receipt", "txFinal"}
    BY <1>1 DEF AskReceipt
  <2>2. c \in CallState /\ c.op = op
    BY FreshCall, TreeAssumption
  <2> HIDE DEF c
  <2>3. Knows(GetReceipt(c))
    BY <2>1, <2>2, GetReceiptKnows
  <2>4. QED
    BY <2>1, <2>3, StartKnown
<1>2. ASSUME NEW op \in Ops, NEW b \in Block, AskReceiptAt(op, b) PROVE KnownInv'
  <2> DEFINE c == [NoCall EXCEPT !.op = op, !.at = b, !.tries = 1]
  <2>1. op \in Guarded /\ StartAs(EnsureSafeModeBlockTagFinalization(c))
    BY <1>2 DEF AskReceiptAt, Guarded
  <2>2. c \in CallState /\ c.op = op
    BY FreshCall
  <2> HIDE DEF c
  <2>3. Knows(EnsureSafeModeBlockTagFinalization(c))
    BY <2>1, <2>2, GuardKnows
  <2>4. QED
    BY <2>1, <2>3, StartKnown
<1>3. CASE AskTransaction
  <2> DEFINE c == [NoCall EXCEPT !.op = "byTx", !.tries = 1]
             d == [c EXCEPT !.pc = "pool"]
  <2>1. (localMode /\ StartAs(GetReceipt(c))) \/ StartAs(d)
    BY <1>3 DEF AskTransaction
  <2>2. c \in CallState /\ c.op = "byTx"
    BY FreshCall, TreeAssumption DEF Ops
  <2>3. d.pc = "pool"
    BY <2>2 DEF CallState
  <2> HIDE DEF c, d
  <2>4. (localMode => Knows(GetReceipt(c))) /\ Knows(d)
    BY <2>2, <2>3, GetReceiptKnows, KnowsOthers
  <2>5. QED
    BY <2>1, <2>4, StartKnown
<1>4. CASE AskCount
  <2> DEFINE c == [NoCall EXCEPT !.op = "count", !.pc = "pool"]
  <2>1. StartAs(c) /\ c.pc = "pool"
    BY <1>4, NothingAsked DEF AskCount, CallState
  <2> HIDE DEF c
  <2>2. QED
    BY <2>1, KnowsOthers, StartKnown
<1>5. CASE AskState
  <2>1. PICK at : StartAs([NoCall EXCEPT !.op = "state", !.at = at, !.pc = "account"])
    BY <1>5 DEF AskState
  <2> DEFINE c == [NoCall EXCEPT !.op = "state", !.at = at, !.pc = "account"]
  <2>2. c.op = "state"
    BY NothingAsked DEF CallState
  <2> HIDE DEF c
  <2>3. QED
    BY <2>1, <2>2, KnowsOthers, StartKnown DEF c
<1>6. ASSUME NEW b \in Block, AskStateAt(b) PROVE KnownInv'
  <2> DEFINE c == [NoCall EXCEPT !.op = "state", !.at = b]
  <2>1. StartAs(EnsureSafeModeBlockTagFinalization(c))
    BY <1>6 DEF AskStateAt
  <2>2. c \in CallState /\ c.op \in Guarded
    BY NothingAsked DEF CallState, Ops, Guarded
  <2> HIDE DEF c
  <2>3. QED
    BY <2>1, <2>2, GuardKnows, StartKnown
<1>7. QED
  BY <1>1, <1>2, <1>3, <1>4, <1>5, <1>6

(* A block of the best chain is the node's answer for its height. *)
LEMMA BestIsCanonical ==
  ASSUME ViewInv, NEW b \in Ancestors[bestHead]
  PROVE  CanonicalHash(Number[b]) = b
<1>1. bestHead \in Block /\ b # NoBlock
  BY AncestorsOfBlock, TreeAssumption DEF ViewInv, ViewTypeOK, ChainTypeOK
<1> DEFINE c == CHOOSE p \in Ancestors[bestHead] : Number[p] = Number[b]
<1>2. CanonicalHash(Number[b]) = c
  BY DEF CanonicalHash
<1>3. c \in Ancestors[bestHead] /\ Number[c] = Number[b]
  OBVIOUS
<1>4. QED
  BY <1>1, <1>2, <1>3, OneBlockPerHeight

(* An answer comes: nothing is on the best chain that neither the cache nor *)
(* the indexer would have given.                                           *)
LEMMA CanonKnown ==
  ASSUME CallInv, KnownInv, use = "queries", UNCHANGED <<use, sending>>, CanonAnswers
  PROVE  KnownInv'
<1> DEFINE reply == CanonicalHash(Number[call.entry])
           d == [call EXCEPT !.pc = "indexer", !.entry = NoBlock]
           r == IF reply = NoBlock THEN Throw
                ELSE IF reply = call.entry THEN Found(call, call.entry) ELSE d
<1>1. Step("canon", r)
  BY DEF CanonAnswers
<1>2. /\ call.pc = "canon" /\ call \in CallState /\ ViewInv
      /\ call.entry \in Includes \cap Block
  BY <1>1, ReceiptsAssumption DEF Step, CallInv, GoodCall
<1>3. d.pc = "indexer" /\ d.op = call.op
  BY <1>2 DEF CallState
<1>4. r = NoCall \/ (Knows(call) => Knows(r))
  <2>1. CASE reply = NoBlock
    BY <2>1 DEF Throw
  <2>2. CASE reply # NoBlock /\ reply = call.entry
    <3>1. r = Found(call, call.entry)
      BY <2>2
    <3> HIDE DEF r
    <3>2. Knows(call) => call.op # "count" /\ (call.op = "byTx" /\ ~localMode => ~pooled)
      BY <1>2 DEF Knows
    <3>3. QED
      BY <1>2, <3>1, <3>2, FoundKnows
  <2>3. CASE reply # NoBlock /\ reply # call.entry
    <3>1. r = d
      BY <2>3
    <3>2. call.entry \notin Ancestors[bestHead]
      BY <1>2, <2>3, BestIsCanonical
    <3> HIDE DEF d, r
    <3>3. call.op \in {"receipt", "byTx"} /\ Knows(call) /\ ~shared => NotCached
      BY <1>2, <3>2 DEF Knows, KnownInv, NotCached
    <3>4. QED
      BY <1>2, <1>3, <3>1, <3>3 DEF Knows
  <2>4. QED
    BY <2>1, <2>2, <2>3
<1>5. QED
  <2> HIDE DEF r
  <2>1. QED
    BY <1>1, <1>4, StepKnown

LEMMA IndexerKnown ==
  ASSUME CallInv, KnownInv, use = "queries", UNCHANGED <<use, sending>>, IndexerAnswers
  PROVE  KnownInv'
<1> DEFINE again == localMode /\ call.op # "receiptIndex" /\ call.tries < MaxTries
           c == [call EXCEPT !.tries = @ + 1]
           d == [call EXCEPT !.pc = "done"]
           r == IF Indexed # {} THEN Found(call, CHOOSE b \in Indexed : TRUE)
                ELSE IF again THEN GetReceipt(c) ELSE d
<1>1. Step("indexer", r)
  BY DEF IndexerAnswers
<1>2. call.pc = "indexer" /\ call \in CallState
  BY <1>1 DEF Step, CallInv, GoodCall
<1>3. Knows(call) => call.op # "count" /\ (call.op = "byTx" /\ ~localMode => ~pooled)
  BY <1>2 DEF Knows
<1>4. Knows(call) => Knows(r)
  <2>1. CASE Indexed # {}
    <3> DEFINE b == CHOOSE x \in Indexed : TRUE
    <3>1. b \in Indexed /\ r = Found(call, b)
      BY <2>1
    <3>2. b \in Block
      BY <3>1, ReceiptsAssumption DEF Indexed
    <3> HIDE DEF b, r
    <3>3. QED
      BY <1>2, <1>3, <3>1, <3>2, FoundKnows
  <2>2. CASE Indexed = {} /\ again
    <3>1. r = GetReceipt(c)
      BY <2>2
    <3>2. call.tries \in 0 .. MaxTries
      BY <1>2 DEF CallState
    <3>3. call.tries + 1 \in 0 .. MaxTries
      BY <2>2, <3>2, ReceiptsAssumption
    <3> HIDE DEF again
    <3>4. c \in CallState /\ c.op = call.op
      BY <1>2, <3>3 DEF CallState
    <3> HIDE DEF c, r
    <3>5. QED
      BY <1>3, <3>1, <3>4, GetReceiptKnows
  <2>3. CASE Indexed = {} /\ ~again
    <3>1. r = d
      BY <2>3
    <3>2. /\ d.pc = "done" /\ d.op = call.op /\ d.count = call.count
          /\ d.answer = call.answer
      BY <1>2 DEF CallState
    <3>3. call.op \in {"receipt", "byTx"} => NotIndexed
      BY <2>3 DEF Indexed, NotIndexed
    <3> HIDE DEF d, r
    <3>4. QED
      BY <1>2, <3>1, <3>2, <3>3 DEF Knows
  <2>4. QED
    BY <2>1, <2>2, <2>3
<1>5. QED
  <2> HIDE DEF r
  <2>1. QED
    BY <1>1, <1>4, StepKnown

LEMMA PoolKnown ==
  ASSUME CallInv, KnownInv, use = "queries", UNCHANGED <<use, sending>>, PoolAnswers
  PROVE  KnownInv'
<1>1. call.pc = "pool" /\ call \in CallState
  BY DEF PoolAnswers, Step, CallInv, GoodCall
<1>2. CASE call.op = "count"
  <2> DEFINE at == IF safeMode THEN FinalizedBlockHash ELSE BestBlockHash
             r == [call EXCEPT !.count = Pending, !.pc = "value", !.at = at]
  <2>1. Step("pool", r)
    BY <1>2 DEF PoolAnswers
  <2> HIDE DEF at
  <2>2. r.pc = "value" /\ r.op = "count" /\ r.count = Pending
    BY <1>1, <1>2 DEF CallState
  <2> HIDE DEF r
  <2>3. Knows(r)
    BY <2>2 DEF Knows
  <2>4. QED
    BY <2>1, <2>3, StepKnown
<1>3. CASE call.op = "byTx" /\ pooled
  <2> DEFINE r == [call EXCEPT !.pc = "done", !.count = 1]
  <2>1. Step("pool", r)
    BY <1>3 DEF PoolAnswers
  <2>2. r.pc = "done" /\ r.op = "byTx" /\ r.count = 1
    BY <1>1, <1>3 DEF CallState
  <2> HIDE DEF r
  <2>3. Knows(r)
    BY <2>2 DEF Knows
  <2>4. QED
    BY <2>1, <2>3, StepKnown
<1>4. CASE call.op = "byTx" /\ ~pooled
  <2>1. Step("pool", GetReceipt(call))
    BY <1>4 DEF PoolAnswers
  <2>2. Knows(GetReceipt(call))
    BY <1>1, <1>4, GetReceiptKnows
  <2>3. QED
    BY <2>1, <2>2, StepKnown
<1>5. QED
  BY <1>2, <1>3, <1>4 DEF PoolAnswers

(* Finality and state are not the question here; a count gets its second   *)
(* part.                                                                   *)
LEMMA StorageKnown ==
  ASSUME CallInv, KnownInv, use = "queries", UNCHANGED <<use, sending>>,
         HeaderAnswers \/ FinalAnswers \/ AccountAnswers \/ ValueAnswers
  PROVE  KnownInv'
<1>1. /\ call \in CallState
      /\ call.pc \in {"header", "final"} => call.op \in Guarded \cup {"txFinal"}
      /\ call.pc = "account" => call.op = "state"
      /\ call.pc = "value" => call.op \in {"count", "state"}
  BY DEF CallInv, GoodCall
<1>2. CASE HeaderAnswers \/ FinalAnswers
  <2> DEFINE ask == [call EXCEPT !.pc = "final"]
  <2> DEFINE Told(r) == r \in {NoCall, ask, Verdict(TRUE), Verdict(FALSE)}
  <2>1. \E pc \in {"header", "final"} : \E r : Step(pc, r) /\ Told(r)
    <3>1. CASE HeaderAnswers
      <4> DEFINE v == IF Number[Judged] > FinalizedBlockNumber THEN Verdict(FALSE)
                      ELSE IF Judged \in finalHashes THEN Verdict(TRUE) ELSE ask
      <4>1. Step("header", v)
        BY <3>1 DEF HeaderAnswers
      <4>2. Told(v)
        OBVIOUS
      <4>3. QED
        BY <4>1, <4>2
    <3>2. CASE FinalAnswers
      <4> DEFINE yes == CanonicalHash(Number[Judged]) = Judged
      <4>1. yes \in BOOLEAN
        OBVIOUS
      <4>2. Step("final", NoCall) \/ Step("final", Verdict(yes))
        BY <3>2 DEF FinalAnswers, Throw
      <4> HIDE DEF yes
      <4>3. Told(NoCall) /\ Told(Verdict(yes))
        BY <4>1
      <4> HIDE DEF Told
      <4>4. \E r : Step("final", r) /\ Told(r)
        BY <4>2, <4>3
      <4>5. QED
        BY <4>4
    <3>3. QED
      BY <1>2, <3>1, <3>2
  <2>2. PICK pc, r : pc \in {"header", "final"} /\ Step(pc, r) /\ Told(r)
    BY <2>1
  <2>3. call.op \in Guarded \cup {"txFinal"} /\ call.pc = pc
    BY <1>1, <2>2 DEF Step
  <2>4. ask.op = call.op
    BY <1>1 DEF CallState
  <2>5. Knows(ask)
    BY <2>3, <2>4, KnowsOthers DEF Guarded
  <2>6. ASSUME NEW yes \in BOOLEAN PROVE Verdict(yes) = NoCall \/ Knows(Verdict(yes))
    <3>1. CASE call.op = "txFinal"
      <4>1. ASSUME NEW b, NEW d, d = [call EXCEPT !.pc = "done", !.answer = b]
            PROVE  d.op = "txFinal"
        BY <1>1, <3>1, <4>1 DEF CallState
      <4>2. PICK b : Verdict(yes) = [call EXCEPT !.pc = "done", !.answer = b]
        BY <3>1 DEF Verdict
      <4>3. QED
        BY <4>1, <4>2, KnowsOthers
    <3>2. CASE call.op # "txFinal" /\ yes
      <4>1. Knows(BehindGuard(call))
        BY <1>1, <2>3, <3>2, BehindGuardKnows
      <4>2. QED
        BY <3>2, <4>1 DEF Verdict
    <3>3. CASE call.op # "txFinal" /\ ~yes
      BY <3>3 DEF Verdict, Throw
    <3>4. QED
      BY <3>1, <3>2, <3>3
  <2> HIDE DEF ask
  <2>7. r = NoCall \/ Knows(r)
    <3>1. r = NoCall \/ r = ask \/ r = Verdict(TRUE) \/ r = Verdict(FALSE)
      BY <2>2, Zenon
    <3>2. /\ Verdict(TRUE) = NoCall \/ Knows(Verdict(TRUE))
          /\ Verdict(FALSE) = NoCall \/ Knows(Verdict(FALSE))
      BY <2>6, Zenon
    <3>3. CASE r = ask
      BY <2>5, <3>3
    <3>4. CASE r = Verdict(TRUE)
      BY <3>2, <3>4
    <3>5. CASE r = Verdict(FALSE)
      BY <3>2, <3>5
    <3>6. QED
      BY <3>1, <3>3, <3>4, <3>5
  <2>8. QED
    BY <2>2, <2>7, StepKnown
<1>3. CASE AccountAnswers
  <2> DEFINE r == [call EXCEPT !.pc = "value", !.reads = {call.at}]
  <2>1. Step("account", r) /\ call.pc = "account"
    BY <1>3 DEF AccountAnswers, Step
  <2>2. r.op = "state"
    BY <1>1, <2>1 DEF CallState
  <2> HIDE DEF r
  <2>3. QED
    BY <2>1, <2>2, KnowsOthers, StepKnown
<1>4. CASE ValueAnswers
  <2> DEFINE n == IF call.op # "count" THEN 0
                  ELSE call.count + (IF Mined(call.at) THEN 1 ELSE 0)
             r == [call EXCEPT !.pc = "done", !.reads = @ \cup {call.at}, !.count = n]
  <2>1. Step("value", r) /\ call.pc = "value"
    BY <1>4 DEF ValueAnswers, Step
  <2>2. call.op = "count" => n = call.count + (IF Mined(call.at) THEN 1 ELSE 0)
    OBVIOUS
  <2> HIDE DEF n
  <2>3. r.pc = "done" /\ r.op = call.op /\ r.at = call.at /\ r.count = n
    BY <1>1 DEF CallState
  <2> HIDE DEF r
  <2>4. CASE call.op = "count"
    BY <2>1, <2>2, <2>3, <2>4, StepKnown DEF Knows
  <2>5. CASE call.op # "count"
    BY <1>1, <2>1, <2>3, <2>5, KnowsOthers, StepKnown
  <2>6. QED
    BY <2>4, <2>5
<1>5. QED
  BY <1>2, <1>3, <1>4

LEMMA CallKnown ==
  ASSUME CallInv, KnownInv, use = "queries", UNCHANGED <<use, sending>>, CallStep
  PROVE  KnownInv'
<1>1. CASE Fails \/ Returns
  BY <1>1, StepKnown DEF Fails, Returns, Throw
<1>2. QED
  BY <1>1, AskKnown, CanonKnown, IndexerKnown, PoolKnown, StorageKnown DEF CallStep

(* Those who send do not query, and what is in a block is not sent again.  *)
LEMMA ClientKnown ==
  ASSUME Inv, KnownInv, ClientStep
  PROVE  KnownInv'
<1>1. /\ UNCHANGED <<chainVars, viewVars, safeMode, localMode, byHash, indexedTo, call,
                     history, use>>
      /\ pooled' = pooled \/ (Send /\ pooled')
  BY DEF ClientStep, Prepare, PrepareSigned, ClaimEvmAccount, ClaimDefaultAccount, Begin,
         SendStep, Send, HandleTxResponse, Rejected, HeaderRead, WrapTransaction, SendFails,
         ClaimedElsewhere, Wait, WaitForTransaction, WaitSigned, HeadComes, TimeoutFirst,
         ReceiptFromChain, WaitStep, ReceiptAlreadyGood, PollFinds, MinedHandler, Timer,
         PollStep, world, sources
<1>2. sending'.pc # "idle" => use = "sending"
  <2>1. sending' = sending \/ use = "sending"
    <3>1. sending.pc # "idle" => use = "sending"
      BY DEF KnownInv
    <3>2. QED
      BY <3>1
      DEF ClientStep, Prepare, PrepareSigned, ClaimEvmAccount, ClaimDefaultAccount, Begin,
          SendStep, Send, HandleTxResponse, Rejected, HeaderRead, WrapTransaction, SendFails,
          ClaimedElsewhere, Wait, WaitForTransaction, WaitSigned, HeadComes, TimeoutFirst,
          ReceiptFromChain, WaitStep, ReceiptAlreadyGood, PollFinds, MinedHandler, Timer,
          PollStep
  <2>2. QED
    BY <2>1 DEF KnownInv
<1>3. pooled' => ~Mined(bestHead)'
  BY <1>1 DEF KnownInv, Send, Mined, chainVars
<1>4. ~moved' => Knows(call)'
  <2>1. CASE call.pc = "idle"
    BY <1>1, <2>1 DEF Knows
  <2>2. CASE pooled' = pooled
    <3>1. /\ Pending' = Pending /\ NotCached' = NotCached /\ NotIndexed' = NotIndexed
          /\ \A b : Mined(b)' = Mined(b)
      BY <1>1, <2>2 DEF Pending, NotCached, NotIndexed, Mined, IsFinal, chainVars, viewVars
    <3>2. QED
      BY <1>1, <2>2, <3>1 DEF Knows, KnownInv, history
  <2>3. CASE Send
    <3>1. call.pc = "idle"
      BY <2>3 DEF Send, KnownInv
    <3>2. QED
      BY <2>1, <3>1
  <2>4. QED
    BY <1>1, <2>2, <2>3
<1>5. QED
  BY <1>1, <1>2, <1>3, <1>4 DEF KnownInv, viewVars, history

LEMMA Known == Spec => [](Inv /\ KnownInv)
<1>1. Init => Inv /\ KnownInv
  <2> SUFFICES ASSUME Init PROVE KnownInv
    BY InvInit
  <2>1. call = NoCall /\ pooled = FALSE /\ cached = {} /\ sending.pc = "idle"
    BY DEF Init, ReceiptsInit, ViewInit
  <2>2. call.pc = "idle" /\ Knows(call)
    BY <2>1, NothingAsked, KnowsOthers
  <2>3. QED
    BY <2>1, <2>2 DEF KnownInv
<1>2. Inv /\ KnownInv /\ [Next]_vars => Inv' /\ KnownInv'
  <2> SUFFICES ASSUME Inv, KnownInv, [Next]_vars PROVE KnownInv'
    BY NextKeeps
  <2>1. CASE WorldStep
    BY <2>1, KnownInWorld
  <2>2. CASE use = "queries" /\ CallStep /\ UNCHANGED <<use, sendVars>>
    <3>1. UNCHANGED <<use, sending>>
      BY <2>2 DEF sendVars
    <3>2. QED
      BY <2>2, <3>1, CallKnown DEF Inv
  <2>3. CASE ClientStep
    BY <2>3, ClientKnown
  <2>4. CASE UNCHANGED vars
    <3>1. Knows(call)' = Knows(call)
      BY <2>4 DEF Knows, Pending, NotCached, NotIndexed, Mined, IsFinal, vars, chainVars,
                  viewVars, sources, history
    <3>2. QED
      BY <2>4, <3>1 DEF KnownInv, Mined, vars, chainVars, viewVars, sources, history, sendVars
  <2>5. QED
    BY <2>1, <2>2, <2>3, <2>4 DEF Next
<1>3. QED
  BY <1>1, <1>2, PTL DEF Spec

(* A transaction is not lost between pool, cache and indexer unless two of *)
(* its includers were cached at once: the entry of the cache is then that  *)
(* of the one includer that is cached.                                     *)
THEOREM TransactionsAreFound == Spec => []FoundUnlessShared
<1>1. Inv /\ KnownInv => FoundUnlessShared
  BY DEF KnownInv, Knows, FoundUnlessShared, NotCached, NotIndexed
<1>2. QED
  BY <1>1, Known, PTL

(* The pending nonce counts no transaction twice, for what is in a block   *)
(* of the best chain is not in the pool.                                   *)
THEOREM NoncesAreExact == Spec => []PendingNonceExact
<1>1. Inv /\ KnownInv => PendingNonceExact
  <2> SUFFICES ASSUME Inv, KnownInv, call.pc = "done", call.op = "count", ~moved,
                      call.at \in Ancestors[bestHead]
               PROVE  /\ call.count <= 1
                      /\ call.at = bestHead =>
                           call.count = IF pooled \/ Mined(bestHead) THEN 1 ELSE 0
    BY DEF PendingNonceExact
  <2>1. call.count = Pending + (IF Mined(call.at) THEN 1 ELSE 0)
    BY DEF KnownInv, Knows
  <2>2. Mined(call.at) => Mined(bestHead)
    BY AncestorsOfBlock DEF Mined, Inv, CallInv, ViewInv, ViewTypeOK, ChainTypeOK
  <2>3. pooled => ~Mined(bestHead)
    BY DEF KnownInv
  <2>4. QED
    BY <2>1, <2>2, <2>3 DEF Pending
<1>2. QED
  BY <1>1, Known, PTL
=============================================================================
