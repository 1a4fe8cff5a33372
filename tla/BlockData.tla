------------------------------- MODULE BlockData -------------------------------
(***************************************************************************)
(* getBlockDataForHeader() of base-provider.ts: the data of a block is put *)
(* together from several RPCs, the indexer and the block cache, and kept   *)
(* for good in the query cache once the block's height is final.  Every    *)
(* block query and every notification goes through it.                     *)
(*                                                                         *)
(* Of the data only the transactions matter here: "full", or "empty" when  *)
(* the block has some and neither the indexer nor the cache had them.      *)
(***************************************************************************)
EXTENDS HeadView

CONSTANTS Call            \* the calls in progress at once

ASSUME DataAssumption == WithTxs \subseteq Block

VARIABLES indexedTo,      \* the indexer's last processed height
          dataCache,      \* the entries `block-hash`
          call,
          uncovered       \* history: the blocks whose entry a call kept that
                          \* could not rely on anyone having the receipts

dataVars == <<chainVars, viewVars, indexedTo, dataCache, call, uncovered>>

(* pc: "idle"; "asked" when the questions are out; "told" when the indexer *)
(* has answered and others have not.  covered is a history: the indexer    *)
(* had the block when the call was made, or the cache has had it ever      *)
(* since.                                                                  *)
CallState == [pc      : {"idle", "asked", "told"},
              block   : Block \cup {NoBlock},
              found   : BOOLEAN,          \* the indexer had receipts
              covered : {"indexed", "cached", "no"}]

Data == {"absent", "empty", "full"}

DataTypeOK ==
  /\ ViewTypeOK
  /\ indexedTo \in Nat
  /\ dataCache \in [Block -> Data]
  /\ call \in [Call -> CallState]
  /\ uncovered \subseteq Block

NoCall == [pc |-> "idle", block |-> NoBlock, found |-> FALSE, covered |-> "no"]

DataInit ==
  /\ ViewInit
  /\ indexedTo = 0
  /\ dataCache = [b \in Block |-> "absent"]
  /\ call = [c \in Call |-> NoCall]
  /\ uncovered = {}

(* The indexer (packages/evm-subql) follows the finalized chain. *)
Indexed(b) == IsFinal(b) /\ Number[b] <= indexedTo

Index ==
  /\ indexedTo < Number[finalizedHead]
  /\ indexedTo' = indexedTo + 1
  /\ UNCHANGED <<chainVars, viewVars, dataCache, call, uncovered>>

(* A call for a block the cache knows ends at once and changes nothing.    *)
Ask(c, b) ==
  /\ call[c].pc = "idle"
  /\ ViewReady
  /\ b \in known
  /\ dataCache[b] = "absent"
  /\ call' = [call EXCEPT ![c] = [pc |-> "asked", block |-> b, found |-> FALSE,
                                  covered |-> IF Indexed(b) THEN "indexed"
                                              ELSE IF b \in cached THEN "cached" ELSE "no"]]
  /\ UNCHANGED <<chainVars, viewVars, indexedTo, dataCache, uncovered>>

IndexerTells(c) ==
  /\ call[c].pc = "asked"
  /\ call' = [call EXCEPT ![c].pc = "told",
                          ![c].found = Indexed(call[c].block) /\ call[c].block \in WithTxs]
  /\ UNCHANGED <<chainVars, viewVars, indexedTo, dataCache, uncovered>>

(* The block cache is asked when the indexer had nothing. *)
Receipts(c) ==
  LET b == call[c].block
  IN IF b \in WithTxs /\ ~call[c].found /\ b \notin cached THEN "empty" ELSE "full"

(* The history that goes with the data of a call. *)
Covers(c) ==
  uncovered' = IF call[c].covered = "no" THEN uncovered \cup {call[c].block}
               ELSE uncovered \ {call[c].block}

(* A slip: the block cache is never asked. *)
AnswerFromIndexer(c) ==
  /\ call[c].pc = "told"
  /\ LET b == call[c].block
     IN dataCache' =
          IF Number[b] <= FinalizedBlockNumber
          THEN [dataCache EXCEPT ![b] = IF b \in WithTxs /\ ~call[c].found
                                         THEN "empty" ELSE "full"]
          ELSE dataCache
  /\ Covers(c)
  /\ call' = [call EXCEPT ![c] = NoCall]
  /\ UNCHANGED <<chainVars, viewVars, indexedTo>>

(* The other answers are in: the data is put together and, if the height   *)
(* is final by now, kept.                                                  *)
AnswerCall(c) ==
  /\ call[c].pc = "told"
  /\ IF Number[call[c].block] <= FinalizedBlockNumber
     THEN dataCache' = [dataCache EXCEPT ![call[c].block] = Receipts(c)] /\ Covers(c)
     ELSE UNCHANGED <<dataCache, uncovered>>
  /\ call' = [call EXCEPT ![c] = NoCall]
  /\ UNCHANGED <<chainVars, viewVars, indexedTo>>

(* One of the RPCs failed. *)
Fail(c) ==
  /\ call[c].pc # "idle"
  /\ call' = [call EXCEPT ![c] = NoCall]
  /\ UNCHANGED <<chainVars, viewVars, indexedTo, dataCache, uncovered>>

(* The LRU cache, which block numbers share, drops an entry. *)
ForgetData(b) ==
  /\ dataCache[b] # "absent"
  /\ dataCache' = [dataCache EXCEPT ![b] = "absent"]
  /\ UNCHANGED <<chainVars, viewVars, indexedTo, call, uncovered>>

(* The cache may let go of a block that a call waits for. *)
ViewStep ==
  /\ ViewNext
  /\ call' = [c \in Call |->
                IF call[c].covered = "cached" /\ call[c].block \notin cached'
                THEN [call[c] EXCEPT !.covered = "no"] ELSE call[c]]
  /\ UNCHANGED <<indexedTo, dataCache, uncovered>>

DataNext ==
  \/ ViewStep
  \/ Index
  \/ \E c \in Call, b \in Block : Ask(c, b)
  \/ \E c \in Call : IndexerTells(c) \/ AnswerCall(c) \/ Fail(c)
  \/ \E b \in Block : ForgetData(b)

DataSpec == DataInit /\ [][DataNext]_dataVars

-----------------------------------------------------------------------------
(* Data is kept for good without the block's transactions only by a call   *)
(* that nobody could help: made before the indexer had reached the block,  *)
(* and while the cache was without it or until it let go of it.  An        *)
(* indexer that lags is no harm as long as the block stays cached during   *)
(* the call, and the cache may do what it likes with an indexed block.     *)
(* (The comment at base-provider.ts:637, "either no tx exists in this      *)
(* block, or the block not finalized", leaves the uncovered call out.)     *)
CoveredDataIsFull ==
  \A b \in WithTxs : dataCache[b] = "empty" => b \in uncovered
=============================================================================
