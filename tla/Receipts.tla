------------------------------- MODULE Receipts -------------------------------
(***************************************************************************)
(* What base-provider.ts answers about a transaction, an account and a     *)
(* block's state: getReceipt over the by-hash table of the block cache,    *)
(* the canonicality check and the indexer; getReceiptAtBlock,              *)
(* getTransactionByHash with the pending pool, _isTransactionFinalized,    *)
(* getTransactionCount, and the state queries behind the guard of safe     *)
(* mode.                                                                   *)
(*                                                                         *)
(* There is one transaction, which several forks may include, and one call *)
(* at a time: calls share nothing that they write but the caches BlockTags *)
(* is about.  A receipt is the block it belongs to.                        *)
(***************************************************************************)
EXTENDS HeadView

CONSTANTS Includes,     \* the blocks that include the transaction
          AskedFor,     \* the blocks that calls name by hash
          MaxTries      \* runWithRetries gives up after as many

ASSUME ReceiptsAssumption == Includes \subseteq WithTxs \cap Block /\ MaxTries \in Nat \ {0}

VARIABLES safeMode, localMode,  \* options of the provider
          byHash,               \* the cache's entry of the transaction
          indexedTo,            \* the indexer's last processed height
          pooled,               \* the node has the transaction in its pool
          call,
          along,                \* history: the includers that were canonical
                                \* at some moment of the call
          moved,                \* history: a head, an announcement or the
                                \* cache moved since the call was made
          shared,               \* history: two includers were cached at once
          firstLatest           \* history: in safe mode, the latest block before
                                \* any finalized head was cached

sources == <<safeMode, localMode, byHash, indexedTo, pooled>>
history == <<along, moved, shared, firstLatest>>

Ops == {"receipt", "receiptAt", "receiptIndex", "byTx", "txFinal", "count", "state"}

(* pc: the answer the call is waiting for.  "pool": the pending            *)
(* extrinsics; "canon": the hash at the height of the entry; "indexer":    *)
(* the indexer's receipt; "header", "final": whether a block is final, the *)
(* receipt's or the one that is named; "account", "value": storage at a    *)
(* block; "done".                                                          *)
CallState == [op     : Ops \cup {"none"},
              pc     : {"idle", "pool", "canon", "indexer", "header", "final",
                         "account", "value", "done"},
              at     : Block \cup {NoBlock},   \* the block the tag stood for
              entry  : Block \cup {NoBlock},   \* the receipt in hand
              answer : Block \cup {NoBlock},   \* the receipt answered
              count  : 0 .. 2,
              tries  : 0 .. MaxTries,
              reads  : SUBSET Block]           \* blocks whose state was read

NoCall == [op |-> "none", pc |-> "idle", at |-> NoBlock, entry |-> NoBlock,
           answer |-> NoBlock, count |-> 0, tries |-> 0, reads |-> {}]

ReceiptsTypeOK ==
  /\ ViewTypeOK
  /\ {safeMode, localMode, pooled, moved, shared} \subseteq BOOLEAN
  /\ firstLatest \in Block \cup {NoBlock}
  /\ byHash \in Includes \cup {NoBlock}
  /\ indexedTo \in Nat
  /\ call \in CallState
  /\ along \subseteq Includes

ReceiptsInit ==
  /\ ViewInit
  /\ safeMode \in BOOLEAN
  /\ localMode \in {FALSE, ~safeMode}     \* one is of production, the other of tests
  /\ byHash = NoBlock
  /\ indexedTo = 0
  /\ pooled = FALSE
  /\ call = NoCall
  /\ along = {} /\ moved = FALSE /\ shared = FALSE /\ firstLatest = NoBlock

Mined(b) == Includes \cap Ancestors[b] # {}

(* chain_getBlockHash(n) at the node. *)
CanonicalHash(n) ==
  IF \E b \in Ancestors[bestHead] : Number[b] = n
  THEN CHOOSE b \in Ancestors[bestHead] : Number[b] = n ELSE NoBlock

-----------------------------------------------------------------------------
(* The world the calls look at. *)

(* The by-hash table goes with the window: the newest block written wins,  *)
(* and an includer that leaves takes the entry along, whose-ever it is.    *)
ByHashFollows(new) ==
  byHash' = IF ((cached \cup new) \cap Includes) \ cached' # {} THEN NoBlock
            ELSE IF new \cap Includes # {} THEN CHOOSE b \in new : TRUE
            ELSE byHash

(* The pool holds a transaction from its submission until a block of the   *)
(* best chain includes it, and again when that chain is abandoned.         *)
PoolFollows == pooled' = (/\ Includes \cap Ancestors[bestHead'] = {}
                          /\ pooled \/ Mined(bestHead))

Import(b) ==
  /\ HeadImported(b)
  /\ PoolFollows
  /\ UNCHANGED <<safeMode, localMode, byHash, indexedTo>>

(* In safe mode the head tasks are those of finalized heads; only the      *)
(* first latest block may be another.                                      *)
CacheHead(b) ==
  /\ safeMode => IsFinal(b) \/ (lastCachedBlock = NoBlock /\ cached' = cached)
  /\ HeadCached(b)
  /\ ByHashFollows({b} \cap cached')
  /\ UNCHANGED <<safeMode, localMode, indexedTo, pooled>>

(* A bound on the view: the set of final hashes forgets all or nothing.    *)
Finality ==
  /\ (\E b \in Block : BlockFinalized(b)) \/ FinalAnnounced
  /\ finalHashes' \in {{}, (finalHashes \cup {finalized'}) \ {NoBlock}}
  /\ UNCHANGED sources

(* The indexer follows the finalized chain. *)
Index ==
  /\ indexedTo < Number[finalizedHead]
  /\ indexedTo' = indexedTo + 1
  /\ UNCHANGED <<chainVars, viewVars, safeMode, localMode, byHash, pooled>>

(* The transaction reaches the pool; the pool may also drop it. *)
Submitted == ~pooled /\ ~Mined(bestHead) /\ pooled' = TRUE
Dropped == pooled /\ pooled' = FALSE

Elsewhere ==
  /\ Submitted \/ Dropped
  /\ UNCHANGED <<chainVars, viewVars, safeMode, localMode, byHash, indexedTo>>

(* An answer goes to its caller at once: the world waits for that.         *)
World ==
  /\ call.pc # "done"
  /\ (\E b \in Block : Import(b) \/ CacheHead(b)) \/ Finality \/ Index \/ Elsewhere
  /\ along' = IF call.pc = "idle" THEN along
              ELSE along \cup (Includes \cap Ancestors[bestHead'])
  /\ moved' = (call.pc # "idle")
  /\ shared' = (shared \/ \E b, d \in (cached \cup cached') \cap Includes : b # d)
  /\ firstLatest' = IF safeMode /\ firstLatest = NoBlock THEN lastCachedBlock' ELSE firstLatest
  /\ UNCHANGED call

-----------------------------------------------------------------------------
MayAsk == call.pc = "idle" /\ ViewReady

StartAs(r) ==
  /\ MayAsk
  /\ call' = r
  /\ along' = Includes \cap Ancestors[bestHead]
  /\ moved' = FALSE
  /\ UNCHANGED <<chainVars, viewVars, sources, shared, firstLatest>>

Step(pc, r) ==
  /\ call.pc = pc
  /\ call' = r
  /\ along' = IF r = NoCall THEN {} ELSE along
  /\ moved' = (r # NoCall /\ moved)
  /\ UNCHANGED <<chainVars, viewVars, sources, shared, firstLatest>>

Throw == NoCall

(* What becomes of the receipt looked for: each operation's end. *)
Found(c, b) ==
  CASE c.op = "txFinal"   -> [c EXCEPT !.pc = "header", !.entry = b]
    [] c.op = "receiptAt" ->
         [c EXCEPT !.pc = "done", !.answer = IF b = c.at THEN b ELSE NoBlock]
    [] OTHER              -> [c EXCEPT !.pc = "done", !.answer = b]

(* A slip: what the cache has is answered unchecked. *)
GetReceiptUnchecked(c) ==
  IF byHash # NoBlock THEN Found(c, byHash) ELSE [c EXCEPT !.pc = "indexer"]

(* _getReceipt up to its first await: a final hash is canonical at once.   *)
GetReceipt(c) ==
  CASE byHash \in finalHashes -> Found(c, byHash)
    [] byHash \notin finalHashes \cup {NoBlock} -> [c EXCEPT !.pc = "canon", !.entry = byHash]
    [] OTHER -> [c EXCEPT !.pc = "indexer"]

(* _getReceiptAtBlockByIndex: the transaction is the one asked for by its  *)
(* index, so its place in the block's own list is all that counts.         *)
GetReceiptByIndex(c) ==
  LET has == cached \cap Includes
  IN CASE c.at \in has \cap finalHashes -> Found(c, c.at)
       [] c.at \in has \ finalHashes -> [c EXCEPT !.pc = "canon", !.entry = c.at]
       [] OTHER -> [c EXCEPT !.pc = "indexer"]

(* What a call goes on with behind the guard of safe mode. *)
BehindGuard(c) ==
  CASE c.op = "receiptAt"    -> GetReceipt(c)
    [] c.op = "receiptIndex" -> GetReceiptByIndex(c)
    [] OTHER                 -> [c EXCEPT !.pc = "account"]

(* A slip: finality is not asked for. *)
SafeModeAllows(c) == BehindGuard(c)

(* _ensureSafeModeBlockTagFinalization of a block's hash: in safe mode it  *)
(* waits for the answers to _isBlockFinalized.                             *)
EnsureSafeModeBlockTagFinalization(c) ==
  IF safeMode THEN [c EXCEPT !.pc = "header"] ELSE BehindGuard(c)

AskReceipt(op) ==
  op \in {"receipt", "txFinal"} /\ StartAs(GetReceipt([NoCall EXCEPT !.op = op, !.tries = 1]))

AskReceiptAt(op, b) ==
  /\ MayAsk
  /\ op \in {"receiptAt", "receiptIndex"}
  /\ b \in known \cap AskedFor
  /\ StartAs(EnsureSafeModeBlockTagFinalization([NoCall EXCEPT !.op = op, !.at = b, !.tries = 1]))

(* getTransactionByHash: the pool first, but not in local mode. *)
AskTransaction ==
  LET c == [NoCall EXCEPT !.op = "byTx", !.tries = 1]
  IN StartAs(IF localMode THEN GetReceipt(c) ELSE [c EXCEPT !.pc = "pool"])

(* getTransactionCount of 'pending' asks the pool first. *)
AskCount == StartAs([NoCall EXCEPT !.op = "count", !.pc = "pool"])

(* getBalance, getCode, getStorageAt, call: one hash for all their reads,  *)
(* that of 'latest' or one that is named.                                  *)
AskState ==
  LET at == IF safeMode THEN FinalizedBlockHash ELSE BestBlockHash
  IN StartAs([NoCall EXCEPT !.op = "state", !.at = at, !.pc = "account"])

AskStateAt(b) ==
  /\ MayAsk
  /\ b \in known \cap AskedFor
  /\ StartAs(EnsureSafeModeBlockTagFinalization([NoCall EXCEPT !.op = "state", !.at = b]))

(* A slip: the mined transaction is still counted as pending. *)
PendingOrMined == IF pooled \/ Mined(bestHead) THEN 1 ELSE 0

(* The pool's extrinsics of the account. *)
Pending == IF pooled THEN 1 ELSE 0

(* The pending extrinsics have come: found there, a transaction is         *)
(* answered as pending, from no block.                                     *)
PoolAnswers ==
  \/ /\ call.op = "count"
     /\ Step("pool", [call EXCEPT !.count = Pending, !.pc = "value",
                        !.at = IF safeMode THEN FinalizedBlockHash ELSE BestBlockHash])
  \/ /\ call.op = "byTx"
     /\ Step("pool", IF pooled THEN [call EXCEPT !.pc = "done", !.count = 1]
                      ELSE GetReceipt(call))

(* A slip: a receipt of another fork is all there is. *)
CanonAnswersOnly ==
  Step("canon", LET reply == CanonicalHash(Number[call.entry])
                IN IF reply = NoBlock THEN Throw
                   ELSE IF reply = call.entry THEN Found(call, call.entry)
                   ELSE [call EXCEPT !.pc = "done", !.entry = NoBlock])

(* The canonical hash has come, and decides between entry and indexer. *)
CanonAnswers ==
  Step("canon", LET reply == CanonicalHash(Number[call.entry])
                IN IF reply = NoBlock THEN Throw
                   ELSE IF reply = call.entry THEN Found(call, call.entry)
                   ELSE [call EXCEPT !.pc = "indexer", !.entry = NoBlock])

Indexed ==
  {b \in Includes : /\ IsFinal(b) /\ Number[b] <= indexedTo
                    /\ call.op = "receiptIndex" => b = call.at}

(* The indexer's answer.  In local mode an empty one is asked for again,   *)
(* from the cache on, by everything that calls getReceipt.                 *)
IndexerAnswers ==
  Step("indexer",
    IF Indexed # {} THEN Found(call, CHOOSE b \in Indexed : TRUE)
    ELSE IF localMode /\ call.op # "receiptIndex" /\ call.tries < MaxTries
         THEN GetReceipt([call EXCEPT !.tries = @ + 1])
    ELSE [call EXCEPT !.pc = "done"])

(* The block whose finality is asked for: the receipt's, or the one named. *)
Judged == IF call.op = "txFinal" THEN call.entry ELSE call.at

(* _isBlockFinalized has its answer: it is that of the call, or the guard  *)
(* lets the call through or throws.                                        *)
Verdict(final) ==
  CASE call.op = "txFinal" ->
         [call EXCEPT !.pc = "done", !.answer = IF final THEN call.entry ELSE NoBlock]
    [] call.op # "txFinal" /\ final -> BehindGuard(call)
    [] OTHER -> Throw

(* Its header has come: not final by its height, final by its hash, or the *)
(* node is asked whether it is canonical.                                  *)
HeaderAnswers ==
  Step("header", IF Number[Judged] > FinalizedBlockNumber THEN Verdict(FALSE)
                 ELSE IF Judged \in finalHashes THEN Verdict(TRUE)
                 ELSE [call EXCEPT !.pc = "final"])

FinalAnswers ==
  Step("final", LET reply == CanonicalHash(Number[Judged])
                IN IF reply = NoBlock THEN Throw ELSE Verdict(reply = Judged))

(* getSubstrateAddress, queryEvmAccountInfo: the first storage read. *)
AccountAnswers ==
  Step("account", [call EXCEPT !.pc = "value", !.reads = {call.at}])

(* The second read, and with it the answer: the mined nonce is added to    *)
(* what the pool held before.                                              *)
ValueAnswers ==
  Step("value", [call EXCEPT !.pc = "done", !.reads = @ \cup {call.at},
                   !.count = IF call.op # "count" THEN 0
                             ELSE @ + (IF Mined(call.at) THEN 1 ELSE 0)])

(* A question to the node or the indexer fails, and the call with it. *)
Fails ==
  /\ call.pc \notin {"idle", "done"}
  /\ Step(call.pc, Throw)

Returns == Step("done", NoCall)

CallStep ==
  \/ \E op \in Ops : AskReceipt(op) \/ \E b \in Block : AskReceiptAt(op, b)
  \/ AskTransaction \/ AskCount
  \/ AskState \/ \E b \in Block : AskStateAt(b)
  \/ PoolAnswers \/ CanonAnswers \/ IndexerAnswers
  \/ HeaderAnswers \/ FinalAnswers \/ AccountAnswers \/ ValueAnswers
  \/ Fails \/ Returns

-----------------------------------------------------------------------------
(* getReceipt checks the cache's receipt against the node, never the       *)
(* indexer's: a receipt that any query answers was that of a canonical     *)
(* block at some moment of the call, and a transaction said to be final    *)
(* (eth_isTransactionFinalized) is final.                                  *)
AnswerWasCanonical ==
  call.pc = "done" /\ call.answer # NoBlock =>
    /\ call.answer \in along
    /\ call.op = "txFinal" => IsFinal(call.answer)

(* A transaction is not lost between pool, cache and indexer: as long as   *)
(* its includers were never cached side by side, "not found" means that    *)
(* neither the cache nor the indexer has it on the best chain, and for     *)
(* getTransactionByHash that the pool has it neither.                      *)
FoundUnlessShared ==
  /\ call.pc = "done" /\ call.op \in {"receipt", "byTx"}
  /\ call.answer = NoBlock /\ call.count = 0
  /\ ~moved /\ ~shared
  => /\ \A b \in Includes \cap Ancestors[bestHead] :
            b \notin cached /\ ~(IsFinal(b) /\ Number[b] <= indexedTo)
     /\ call.op = "byTx" /\ ~localMode => ~pooled

(* getTransactionCount of 'pending' adds what is pending to what is mined: *)
(* no transaction is counted twice, unless a head moved between the two    *)
(* readings or the provider's latest block is on an abandoned fork; and    *)
(* none is missed unless the provider is behind the node.                  *)
PendingNonceExact ==
  /\ call.pc = "done" /\ call.op = "count"
  /\ ~moved /\ call.at \in Ancestors[bestHead]
  => /\ call.count <= 1
     /\ call.at = bestHead => call.count = IF pooled \/ Mined(bestHead) THEN 1 ELSE 0

(* In safe mode no query answers from a block that may be abandoned, the   *)
(* first latest block apart, which no finalized head has replaced yet.     *)
SafeModeAnswersFinal ==
  safeMode /\ call.pc = "done" =>
    \A b \in (call.reads \cup {call.answer}) \ {NoBlock, firstLatest} : IsFinal(b)
=============================================================================
