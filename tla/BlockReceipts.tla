----------------------------- MODULE BlockReceipts -----------------------------
(***************************************************************************)
(* The receipts of a block (eth-providers/src/utils/parseBlock.ts and      *)
(* receiptHelper.ts), which the head pipeline caches, getReceiptAtBlock    *)
(* looks a transaction up in and the indexer stores (evm-subql).           *)
(*                                                                         *)
(* A block is its extrinsics, each with its events in order, and the       *)
(* events outside of any extrinsic.  An event of the EVM carries logs.     *)
(***************************************************************************)
EXTENDS GasCodec, SequencesExt

(* A log is named by where it is: the place of its extrinsic in the block  *)
(* (0 for an event outside of any), of its event, and its own.             *)
EventRecord == [method : STRING, target : STRING, gas : Nat, storage : Int,
                logs : Seq(Nat \X Nat \X Nat)]
ExtrinsicRecord == [hash : {"extrinsic"} \X Nat, call : STRING, fee : Nat,
                    events : Seq(EventRecord)]
BlockRecord == [extrinsics : Seq(ExtrinsicRecord), events : Seq(EventRecord)]

(* The places of P in order, and the items that s has there: what filter() *)
(* leaves of an array.                                                     *)
Nth(P, k) == CHOOSE i \in P : Cardinality({j \in P : j <= i}) = k
Pick(s, P) == [k \in 1 .. Cardinality(P) |-> s[Nth(P, k)]]

EvmMethods == {"Created", "Executed", "CreatedFailed", "ExecutedFailed"}

IsEvmEvent(e) == e.method \in EvmMethods
EvmPlaces(events) == {i \in DOMAIN events : IsEvmEvent(events[i])}
EvmEvents(events) == Pick(events, EvmPlaces(events))

Has(x, method) == \E i \in DOMAIN x.events : x.events[i].method = method

(* An interrupted batch has no event that says it was one. *)
IsBatch(x) == Has(x, "BatchCompleted") \/ Has(x, "BatchCompletedWithErrors")

SucceededEvm(x) == EvmPlaces(x.events) # {} /\ ~Has(x, "ExtrinsicFailed")

FirstEvmEvent(events) == Head(EvmEvents(events))       \* a slip

(* findEvmEvent: the first one; if it is Executed, it gets the logs of all *)
(* that are.                                                               *)
FindEvmEvent(events) ==
  LET first == Head(EvmEvents(events))
      executed == Pick(events, {i \in DOMAIN events : events[i].method = "Executed"})
  IN  IF first.method = "Executed"
      THEN [first EXCEPT !.logs = FlattenSeq([k \in DOMAIN executed |-> executed[k].logs])]
      ELSE first

(* getEffectiveGasPrice: what the fee and the storage deposit come to per  *)
(* gas used.                                                               *)
EffectiveGasPrice(fee, usedGas, usedStorage) ==
  IF usedGas = 0 THEN OneHundredGwei
  ELSE (fee + Larger(usedStorage, 0) * StorageByteDeposit) \div usedGas

PartialReceipt(e, hash, index, price) ==
  [status |-> IF e.method \in {"Created", "Executed"} THEN 1 ELSE 0,
   to     |-> IF e.method \in {"Executed", "ExecutedFailed"} THEN e.target ELSE "none",
   gas    |-> e.gas,
   logs   |-> [i \in DOMAIN e.logs |-> [logIndex |-> i - 1, log |-> e.logs[i]]],
   transactionHash |-> hash, transactionIndex |-> index, price |-> price]

ExtrinsicReceipt(x, index) ==
  LET e == FindEvmEvent(x.events)
  IN  PartialReceipt(e, x.hash, index,
                     IF x.call = "setValidationData" THEN 0
                     ELSE EffectiveGasPrice(x.fee, e.gas, e.storage))

(* The hash of a receipt without an extrinsic is made of its place. *)
OrphanReceipts(events, offset) ==
  [i \in DOMAIN events |->
     PartialReceipt(events[i], <<"orphan", i - 1>>, offset + i - 1, 0)]

(* parseReceiptsFromBlockData; target is NoTarget or the hash of the       *)
(* transaction that is looked for.  The events of a batch count as orphans.*)
NoTarget == <<"any">>

Normal(block, target) ==
  {i \in DOMAIN block.extrinsics :
     LET x == block.extrinsics[i]
     IN  SucceededEvm(x) /\ ~IsBatch(x) /\ (target # NoTarget => x.hash = target)}

Batches(block) ==
  {i \in DOMAIN block.extrinsics :
     SucceededEvm(block.extrinsics[i]) /\ IsBatch(block.extrinsics[i])}

OrphanEvents(block) ==
  LET batches == Pick(block.extrinsics, Batches(block))
  IN  EvmEvents(block.events)
        \o EvmEvents(FlattenSeq([k \in DOMAIN batches |-> batches[k].events]))

ParseReceipts(block, target) ==
  LET normal == Pick(block.extrinsics, Normal(block, target))
      receipts == [k \in DOMAIN normal |-> ExtrinsicReceipt(normal[k], k - 1)]
                    \o OrphanReceipts(OrphanEvents(block), Len(normal))
  IN  IF target = NoTarget THEN receipts
      ELSE Pick(receipts, {i \in DOMAIN receipts : receipts[i].transactionHash = target})

(***************************************************************************)
(* receiptToTransaction: the rest of a transaction is read from the        *)
(* extrinsic of that hash, as far as it is one of the EVM's.               *)
(***************************************************************************)
ParseExtrinsic(x) ==
  IF x.call = "evm" THEN [input |-> "args", nonce |-> "signer's"]
  ELSE [input |-> "0x", nonce |-> "signer's"]

ReceiptToTransaction(r, block) ==
  LET found == {i \in DOMAIN block.extrinsics : block.extrinsics[i].hash = r.transactionHash}
      extra == IF found = {} THEN [input |-> "0x", nonce |-> "zero"]
               ELSE ParseExtrinsic(block.extrinsics[Nth(found, 1)])
  IN  [hash |-> r.transactionHash, index |-> r.transactionIndex, to |-> r.to,
       input |-> extra.input, nonce |-> extra.nonce]

(***************************************************************************)
(* handleBlock of the indexer: one entity per receipt and per log, named   *)
(* by the height, the place in the list and the log's index.               *)
(***************************************************************************)
EntitiesOf(r, k) ==
  [i \in DOMAIN r.logs |-> [id |-> <<k - 1, r.logs[i].logIndex>>, log |-> r.logs[i].log]]

LogEntities(block) ==
  LET rs == ParseReceipts(block, NoTarget)
  IN  FlattenSeq([k \in DOMAIN rs |-> EntitiesOf(rs[k], k)])
=============================================================================
