------------------------------ MODULE BlockCache ------------------------------
(***************************************************************************)
(* utils/BlockCache.ts: the receipts of the last MaxCachedBlocks blocks,   *)
(* by block and by transaction, and the block the provider calls latest.   *)
(*                                                                         *)
(* A receipt is <<transaction, block>>; the receipts of a block are a      *)
(* function of its hash (they are read from the chain at that hash), so a  *)
(* receipt list is the set TxsIn[b] and a receipt found by transaction is  *)
(* the block it belongs to.  The order of a block's receipts is left out.  *)
(***************************************************************************)
EXTENDS Naturals, Sequences, FiniteSets

CONSTANTS Block,            \* block hashes, of every fork
          Tx,               \* transaction hashes
          TxsIn,            \* the EVM transactions of each block
          MaxCachedBlocks,
          MaxAdds,          \* bound: how many times blocks are added
          NoBlock           \* `null`, and a key that is absent

ASSUME TxsAssumption == TxsIn \in [Block -> SUBSET Tx]
ASSUME MaxAssumption == MaxCachedBlocks \in Nat
ASSUME AddsAssumption == MaxAdds \in Nat
ASSUME NoBlockAssumption == NoBlock \notin Block

VARIABLES cachedBlockHashes,    \* the window, oldest first
          blockHashToReceipts,  \* a function from the cached blocks
          txHashToReceipt,      \* NoBlock for an absent key
          lastCachedBlock,
          added                 \* history: every block added, in order

vars == <<cachedBlockHashes, blockHashToReceipts, txHashToReceipt, lastCachedBlock,
          added>>

TypeOK ==
  /\ cachedBlockHashes \in Seq(Block)
  /\ DOMAIN blockHashToReceipts \subseteq Block
  /\ blockHashToReceipts \in [DOMAIN blockHashToReceipts -> SUBSET Tx]
  /\ txHashToReceipt \in [Tx -> Block \cup {NoBlock}]
  /\ lastCachedBlock \in Block \cup {NoBlock}
  /\ added \in Seq(Block)

Init ==
  /\ cachedBlockHashes = << >>
  /\ blockHashToReceipts = [b \in {} |-> {}]
  /\ txHashToReceipt = [t \in Tx |-> NoBlock]
  /\ lastCachedBlock = NoBlock
  /\ added = << >>

(* getAllReceiptsAtBlock(): the empty list for a block that is not cached. *)
GetAllReceiptsAtBlock(b) ==
  IF b \in DOMAIN blockHashToReceipts THEN blockHashToReceipts[b] ELSE {}

(* getReceiptByHash(): the block of the receipt found, if any. *)
GetReceiptByHash(t) == txHashToReceipt[t]

(* getReceiptAtBlock() *)
GetReceiptAtBlock(t, b) == IF t \in GetAllReceiptsAtBlock(b) THEN b ELSE NoBlock

(* The two tables after the receipts of b are written. *)
ByBlockWith(b) ==
  [k \in DOMAIN blockHashToReceipts \cup {b} |->
     IF k = b THEN TxsIn[b] ELSE blockHashToReceipts[k]]

ByTxWith(b) ==
  [t \in Tx |-> IF t \in TxsIn[b] THEN b ELSE txHashToReceipt[t]]

(* A slip: room for one more than the window holds. *)
AddToWindowLate(b) ==
  /\ cachedBlockHashes' = Append(cachedBlockHashes, b)
  /\ blockHashToReceipts' = ByBlockWith(b)
  /\ txHashToReceipt' = ByTxWith(b)

(* addReceipts() while the window has room. *)
AddToWindow(b) ==
  /\ Len(cachedBlockHashes) + 1 <= MaxCachedBlocks
  /\ cachedBlockHashes' = Append(cachedBlockHashes, b)
  /\ blockHashToReceipts' = ByBlockWith(b)
  /\ txHashToReceipt' = ByTxWith(b)

(* A slip: the transactions of the block that leaves stay findable. *)
AddAndForgetTxs(b) ==
  /\ Len(cachedBlockHashes) + 1 > MaxCachedBlocks
  /\ LET pushed == Append(cachedBlockHashes, b)
         out    == Head(pushed)
     IN /\ cachedBlockHashes' = Tail(pushed)
        /\ blockHashToReceipts' =
             [k \in DOMAIN ByBlockWith(b) \ {out} |-> ByBlockWith(b)[k]]
        /\ txHashToReceipt' = ByTxWith(b)

(* A slip: the transactions of the new block are forgotten, not those of  *)
(* the one that leaves.                                                    *)
AddAndForgetNew(b) ==
  /\ Len(cachedBlockHashes) + 1 > MaxCachedBlocks
  /\ LET out == cachedBlockHashes[1]
     IN /\ cachedBlockHashes' = Tail(Append(cachedBlockHashes, b))
        /\ txHashToReceipt' =
             [t \in Tx |-> IF t \in TxsIn[b] THEN NoBlock ELSE txHashToReceipt[t]]
        /\ blockHashToReceipts' =
             [k \in DOMAIN ByBlockWith(b) \ {out} |-> ByBlockWith(b)[k]]

(* addReceipts() at the bound: the oldest entry of the window leaves, with *)
(* the receipts its hash still has in the table.  The entry that leaves    *)
(* may be another copy of b, and a transaction that leaves may since have  *)
(* been found in another block.                                            *)
AddAndEvict(b) ==
  /\ Len(cachedBlockHashes) + 1 > MaxCachedBlocks
  /\ LET pushed   == Append(cachedBlockHashes, b)
         out      == Head(pushed)
         byBlock  == ByBlockWith(b)
         removing == IF out \in DOMAIN byBlock THEN byBlock[out] ELSE {}
     IN /\ cachedBlockHashes' = Tail(pushed)
        /\ txHashToReceipt' =
             [t \in Tx |-> IF t \in removing THEN NoBlock ELSE ByTxWith(b)[t]]
        /\ blockHashToReceipts' = [k \in DOMAIN byBlock \ {out} |-> byBlock[k]]

(* addReceipts(); leaves lastCachedBlock alone. *)
AddReceipts(b) == AddToWindow(b) \/ AddAndEvict(b)

(* setlastCachedBlock(); leaves the window alone. *)
SetlastCachedBlock(b) == lastCachedBlock' = b

(* _onNewHead makes both calls at once. *)
Cache(b) == AddReceipts(b) /\ SetlastCachedBlock(b)

(* startSubscriptions names the first head the latest before any receipts  *)
(* are there.                                                              *)
First(b) ==
  /\ lastCachedBlock = NoBlock
  /\ SetlastCachedBlock(b)
  /\ UNCHANGED <<cachedBlockHashes, blockHashToReceipts, txHashToReceipt>>

WindowBlocks == {cachedBlockHashes[i] : i \in DOMAIN cachedBlockHashes}

(* Every history of calls: a retried head adds its block again, and blocks *)
(* of several forks are added in any order.                                *)
Next ==
  \/ \E b \in Block : First(b) /\ UNCHANGED added
  \/ \E b \in Block : /\ Len(added) < MaxAdds
                      /\ Cache(b)
                      /\ added' = Append(added, b)

Spec == Init /\ [][Next]_vars

-----------------------------------------------------------------------------
(* The memory bound: no history of calls makes either table outgrow the    *)
(* window, and nothing is kept for a block that is not in it.              *)
Bounded ==
  /\ Len(cachedBlockHashes) <= MaxCachedBlocks
  /\ DOMAIN blockHashToReceipts \subseteq WindowBlocks
  /\ Cardinality(DOMAIN blockHashToReceipts) <= MaxCachedBlocks

(* A receipt found by transaction hash belongs to a block whose receipts   *)
(* are still cached and list it: eviction never leaves one table pointing  *)
(* at what it dropped from the other, whatever was added twice.            *)
NoDanglingReceipt ==
  \A t \in Tx : txHashToReceipt[t] # NoBlock =>
    t \in GetAllReceiptsAtBlock(txHashToReceipt[t])

(* The last addition of one of the blocks bs. *)
LastAdded(bs, j) ==
  /\ j \in DOMAIN added /\ added[j] \in bs
  /\ \A i \in DOMAIN added : added[i] \in bs => i <= j

(* No copy of the blocks bs left the window at the j-th addition or since: *)
(* the i-th addition leaves with the one MaxCachedBlocks later.            *)
NoneLeftSince(bs, j) ==
  \A i \in DOMAIN added :
    added[i] \in bs /\ i + MaxCachedBlocks <= Len(added) => i + MaxCachedBlocks < j

Including(t) == {b \in Block : t \in TxsIn[b]}

(* A block is served, with all its receipts, exactly from its last         *)
(* addition until some copy of it leaves the window.  addReceipts() looks  *)
(* at no copy but the one it shifts out, so for a block added again this   *)
(* may be long before the younger copy leaves, and even at once.           *)
ServedSinceAdded ==
  \A b \in Block :
    GetAllReceiptsAtBlock(b) =
      IF \E j \in DOMAIN added : LastAdded({b}, j) /\ NoneLeftSince({b}, j)
      THEN TxsIn[b] ELSE {}

(* A transaction that several forks include is found in the block with it  *)
(* that was added last, or nowhere; and it is found unless a block with it *)
(* has left the window since, of whatever fork.                            *)
FoundSinceAdded ==
  \A t \in Tx :
    /\ GetReceiptByHash(t) # NoBlock =>
         \E j \in DOMAIN added : /\ LastAdded(Including(t), j)
                                 /\ GetReceiptByHash(t) = added[j]
    /\ \A j \in DOMAIN added :
         LastAdded(Including(t), j) /\ NoneLeftSince(Including(t), j) =>
           GetReceiptByHash(t) = added[j]

(* The block just made the latest is served, unless the copy that leaves   *)
(* in that same call is its own, or the window has no room at all.         *)
LatestServed ==
  LET n == Len(added)
      dropped == n > MaxCachedBlocks /\ added[n - MaxCachedBlocks] = added[n]
  IN n > 0 /\ ~dropped =>
       GetAllReceiptsAtBlock(lastCachedBlock) = TxsIn[lastCachedBlock]

(* "automatically preserve a sliding window of ${maxCachedBlocks} blocks": *)
(* what was added in the last MaxCachedBlocks calls is served.  It is not, *)
(* when a block was added twice.                                           *)
WindowPreserved ==
  \A i \in DOMAIN added :
    i + MaxCachedBlocks > Len(added) =>
      GetAllReceiptsAtBlock(added[i]) = TxsIn[added[i]]
=============================================================================
