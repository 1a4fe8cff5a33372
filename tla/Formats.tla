-------------------------------- MODULE Formats --------------------------------
(***************************************************************************)
(* The stateless parts of the system, one piece of work at a time: a gas   *)
(* limit is estimated and packed, a transaction serialized and parsed, a   *)
(* block read, logs filtered, a request answered.                          *)
(***************************************************************************)
EXTENDS Estimate, TxFormat, BlockReceipts, LogFilters, Requests

CONSTANTS GasJobs,      \* [gas, storage, raw, transfer, price]
          NativeGasJobs,        \* [gas, storage, validUntil]
          TxJobs,       \* [tx, signed]
          Blocks,
          LogJobs,      \* [log, filter]
          RequestJobs   \* [method, params, socket, known, fails]

(* The lifetime is a height of 32 bits, which ten gwei exceed; storage has  *)
(* its limit in each encoding, as a block's has.                           *)
ASSUME GasJobsAssumption ==
  /\ 200 < TenGwei /\ 200 <= MaxValidUntil
  /\ \A in \in GasJobs :
       /\ in.gas \in Nat /\ in.raw \in Nat /\ in.transfer \in BOOLEAN /\ in.tip \in Nat
       /\ in.storage \in 0 .. 2^MaxGasLimitCC
       /\ in.validUntil \in 0 .. Smaller(TenGwei - 1, MaxValidUntil)
  /\ \A in \in NativeGasJobs :
       /\ in.gas \in Nat /\ in.validUntil \in Nat
       /\ in.storage \in 0 .. 64 * (EntryRange - 1)

(* A signed extrinsic has its nonce in its hash, and there is one of each   *)
(* inherent, so no two extrinsics of a block have the same.  A log is given *)
(* its place for a name: what else is in it, nothing here looks at.         *)
NamedBy(events, n) ==
  \A i \in DOMAIN events : \A k \in DOMAIN events[i].logs : events[i].logs[k] = <<n, i, k>>

ASSUME BlocksAssumption ==
  \A block \in Blocks :
    /\ block \in BlockRecord
    /\ \A i, j \in DOMAIN block.extrinsics :
         block.extrinsics[i].hash = block.extrinsics[j].hash => i = j
    /\ NamedBy(block.events, 0)
    /\ \A i \in DOMAIN block.extrinsics : NamedBy(block.extrinsics[i].events, i)

ASSUME LogJobsAssumption ==
  \A in \in LogJobs :
    /\ in.log \in LogRecord /\ in.filter \in FilterRecord
    /\ in.filter.address.kind # "list" =>
         (in.filter.address.list = <<>> <=> in.filter.address.kind = "none")

ASSUME TxJobsAssumption == TxJobs \subseteq [tx : TxRecord, signed : BOOLEAN]

ASSUME RequestJobsAssumption ==
  \A in \in RequestJobs :
    /\ in.params \in Seq(Shapes) /\ in.socket \in BOOLEAN /\ in.known \in BOOLEAN
    /\ in.fails \in MayFail(in.method)

VARIABLE job

vars == <<cost, est, job>>

NoJob == [kind |-> "none"]

Init == EstimateInit /\ job = NoJob

Start(kind, inputs) ==
  /\ job = NoJob /\ est.pc = "idle"
  /\ \E in \in inputs : job' = [kind |-> kind, in |-> in]
  /\ UNCHANGED <<cost, est>>

Finish ==
  /\ job # NoJob
  /\ job' = NoJob
  /\ UNCHANGED <<cost, est>>

Estimating == job = NoJob /\ EstimateNext /\ UNCHANGED job

Next ==
  \/ Start("gas", GasJobs) \/ Start("native", NativeGasJobs)
  \/ Start("tx", TxJobs) \/ Start("block", Blocks)
  \/ Start("log", LogJobs) \/ Start("request", RequestJobs)
  \/ Finish
  \/ Estimating

Spec == Init /\ [][Next]_vars

FormatsTypeOK ==
  /\ cost \in Costs \cup {NoCost}
  /\ est \in EstimateState
  /\ job.kind \in {"none", "gas", "native", "tx", "block", "log", "request"}

(***************************************************************************)
(* Gas.                                                                    *)
(***************************************************************************)
(* What estimateGas answers covers what was estimated: gas, storage and    *)
(* lifetime come back from the encoded limit and price no smaller, tips as *)
(* they were given, and a wallet that raises a token transfer's limit by   *)
(* half gives it no less.  The exact bounds are those of the three digits  *)
(* for gas: from 999 chunks on (29,670,000 for a transfer) the limit spills*)
(* over and less is decoded.                                               *)
(*                                                                         *)
(* A price is taken for this encoding if it is below TxFeePerGas or if the *)
(* limit does not pay for the storage entries the price seems to stand     *)
(* for.  Tips of ten tenths reach TxFeePerGas: from there on the           *)
(* transaction is read as the first encoding whenever the limit happens to *)
(* pay, and its tip is lost.                                               *)
TakenForSecond(price, limit) ==
  price < TxFeePerGas \/ limit < EntryDeposit * (price % EntryRange)

Covers(gas, storage, d) == d.gasLimit >= gas /\ d.storageLimit >= storage

EncodingCovers(raw, gas, storage, transfer, tip, validUntil) ==
  LET limit == EncodeGasLimit(raw, gas, storage, transfer)
      price == OneHundredGwei + tip * TenGwei + validUntil
      d == GetSubstrateGasParams([type |-> 0, price |-> price, limit |-> limit])
      chunks == EncodedChunks(gas, transfer)
  IN  /\ limit + GasMask > raw
      /\ d.v2 <=> TakenForSecond(price, limit)
      /\ ~d.v2 => d.tip = 0
      /\ d.v2 =>
           /\ d.tip = tip /\ d.validUntil = validUntil
           /\ d.storageLimit >= storage /\ d.storageLimit < 2 * Larger(storage, 1)
           /\ d.gasLimit >= gas <=> chunks < 1000
           /\ chunks < 1000 => d.gasLimit <= gas + (IF transfer THEN 11 ELSE 1) * GasLimitChunk
      /\ transfer /\ chunks <= 333 =>
           Covers(gas, storage, DecodeEthGas(price, (limit * 3) \div 2))

(* So does the first encoding, of _getEthGas: the gas exactly, storage and *)
(* lifetime rounded up by less than an entry and a period; and it is not   *)
(* taken for the second one.                                               *)
NativeCovers(gas, storage, validUntil) ==
  LET p == CalcEthereumTransactionParams(gas, storage, validUntil)
      d == GetSubstrateGasParams([type |-> 0, price |-> p.price, limit |-> p.limit])
  IN  /\ ~d.v2 /\ d.gasLimit = gas
      /\ d.storageLimit \in storage .. storage + 63
      /\ d.validUntil \in validUntil .. validUntil + 29

CodecCovers ==
  /\ job.kind = "gas" =>
       EncodingCovers(job.in.raw, job.in.gas, job.in.storage, job.in.transfer,
                      job.in.tip, job.in.validUntil)
  /\ job.kind = "native" => NativeCovers(job.in.gas, job.in.storage, job.in.validUntil)
  /\ est.pc = "done" =>
       \A transfer \in BOOLEAN : EncodingCovers(0, est.limit, SafeStorage, transfer, 0, 200)

(* An estimate that is answered was tried and worked; made at one block it *)
(* is what the transaction needs there, and not much more: three times     *)
(* what is used, or an eighth more than is needed, at the most, however    *)
(* the search went and wherever its early end cut it off.                  *)
GasFound ==
  est.pc = "done" =>
    /\ est.limit \in est.worked
    /\ ~est.moved =>
         LET enough == Larger(cost.need, MinGasLimit)
         IN  /\ est.limit >= cost.need
             /\ est.limit <= Larger(3 * cost.used, enough + enough \div 8 + 2)

(***************************************************************************)
(* Transactions.                                                           *)
(***************************************************************************)
ActionAgrees(tx) == tx.action \in {Absent, IF tx.to \in Falsy THEN "Create" ELSE "Call"}

SenderKept(tx, signed) ==
  LET sig == SignTransaction("alice", tx)
      raw == SerializeTransaction(tx, IF signed THEN sig ELSE NoSignature)
      parsed == ParseTransaction(raw)
  IN  sig # Throws /\ raw # Throws =>
        IF tx.type # "96"
        THEN /\ CheckSignatureType(raw) = "unsupported" <=> tx.type = "2"
             /\ signed => parsed.from = "alice"
        ELSE IF tx.chainId = BigZero THEN parsed = Throws <=> signed
        ELSE /\ parsed # Throws
             /\ SerializeTransaction(parsed, raw.sig) = raw
             /\ CreateTransactionPayload(parsed) = CreateTransactionPayload(tx) <=> ActionAgrees(tx)
             /\ signed =>
                  /\ parsed.from = "alice" <=> ActionAgrees(tx)
                  /\ parsed.hash = TransactionHash(tx) <=> ActionAgrees(tx)

(* Whoever signed a transaction is recovered from its serialized form,     *)
(* whichever fields were left out or given as some form of zero: the       *)
(* defaults of signing, serializing and parsing agree, and what is parsed  *)
(* serializes to the same bytes.  An EIP-712 transaction whose "action"    *)
(* contradicts its address is the exception, since the serialized form     *)
(* has none; one whose chain is a big zero is signed and serialized, and   *)
(* fails to parse; a type 2 transaction is parsed and refused afterwards.  *)
SenderRecovered ==
  job.kind = "tx" => SenderKept(job.in.tx, job.in.signed)

(***************************************************************************)
(* Blocks.                                                                 *)
(***************************************************************************)
LogsAt(events, places) == UNION {ToSet(events[i].logs) : i \in places}

(* The logs that should be in some receipt of the block: all of an         *)
(* extrinsic that did not fail and of no extrinsic, but for those of an    *)
(* extrinsic outside of a batch with several events that are not merged.   *)
IsFirst(i, places) == i \in places /\ \A j \in places : i <= j

Merged(x) ==
  {i \in EvmPlaces(x.events) :
     \/ IsBatch(x)
     \/ IsFirst(i, EvmPlaces(x.events))
     \/ /\ x.events[i].method = "Executed"
        /\ \E j \in DOMAIN x.events :
             IsFirst(j, EvmPlaces(x.events)) /\ x.events[j].method = "Executed"}

ExpectedLogs(block) ==
  LogsAt(block.events, EvmPlaces(block.events)) \cup
  UNION {LogsAt(block.extrinsics[i].events, Merged(block.extrinsics[i])) :
           i \in {i \in DOMAIN block.extrinsics : SucceededEvm(block.extrinsics[i])}}

Numbered(rs) ==
  /\ \A i \in DOMAIN rs : rs[i].transactionIndex = i - 1
  /\ \A i, j \in DOMAIN rs : rs[i].transactionHash = rs[j].transactionHash => i = j

Stored(entities, logs) ==
  /\ {entities[i].log : i \in DOMAIN entities} = logs
  /\ \A i, j \in DOMAIN entities :
       entities[i].id = entities[j].id \/ entities[i].log = entities[j].log => i = j

WithoutIndex(r) == [r EXCEPT !.transactionIndex = 0]

FoundByHash(r, block) ==
  LET found == ParseReceipts(block, r.transactionHash)
  IN  /\ Len(found) = 1 /\ WithoutIndex(found[1]) = WithoutIndex(r)
      /\ r.transactionHash[1] = "orphan" =>
           ReceiptToTransaction(r, block).nonce = "zero" /\ r.price = 0

PaidFor(r, x) ==
  \E j \in DOMAIN x.events :
    /\ IsFirst(j, EvmPlaces(x.events)) /\ r.gas = x.events[j].gas
    /\ r.price * r.gas <= x.fee + Larger(x.events[j].storage, 0) * StorageByteDeposit

(* A block's receipts have one place and one hash each, every log is in    *)
(* one of them and in one entity of the indexer, under an id of its own,   *)
(* and no sender is charged more than was paid.  Parsing a block for one   *)
(* transaction gives its receipt, but for the place in the block, which is *)
(* counted among what is left.                                             *)
BlockParsed(block) ==
  LET rs == ParseReceipts(block, NoTarget)
  IN  /\ Numbered(rs)
      /\ Stored(LogEntities(block), ExpectedLogs(block))
      /\ \A i \in DOMAIN rs : FoundByHash(rs[i], block)
      /\ \A i \in DOMAIN rs, k \in DOMAIN block.extrinsics :
           rs[i].transactionHash = block.extrinsics[k].hash => PaidFor(rs[i], block.extrinsics[k])

EveryLogOnce == job.kind = "block" => BlockParsed(job.in)

(***************************************************************************)
(* Logs.                                                                   *)
(***************************************************************************)
(* A subscription, the cached blocks and the indexer let the same logs     *)
(* through, those an Ethereum filter stands for, except that the indexer   *)
(* takes an empty list of addresses for no address.                        *)
SameHex(a, b) == a.id = b.id

Stands(log, filter) ==
  /\ filter.address.list = <<>> \/ \E i \in DOMAIN filter.address.list :
       SameHex(filter.address.list[i], log.address)
  /\ \A p \in 1 .. 4 :
       p \notin DOMAIN filter.topics \/ filter.topics[p].list = <<>> \/
       \E i \in DOMAIN filter.topics[p].list, q \in DOMAIN log.topics :
         q = p /\ SameHex(filter.topics[p].list[i], log.topics[q])

FiltersAgree ==
  job.kind = "log" =>
    LET log == job.in.log
        f == job.in.filter
        stands == Stands(log, f)
        inRange == log.number \in f.from .. f.to
    IN  /\ FilterLog(log, f) = stands
        /\ CacheLets(log, f) = (inRange /\ stands)
        /\ GetLogsLets(log, f) =
             (inRange /\ stands /\ (f.address.kind = "list" => f.address.list # <<>>))

(***************************************************************************)
(* Requests.                                                               *)
(***************************************************************************)
(* The arguments the methods' comments and the standards they follow ask   *)
(* for; numbers are taken for blocks besides.                              *)
WellFormed(type, v) ==
  CASE type \in {"block", "block?"} ->
         \/ v \in Tags \cup {"hexNumber", "zero", "number", "{blockNumber}", "{blockHash}"}
         \/ type = "block?" /\ v \in {"null", "undefined"}
    [] type \in {"blockHash", "trasactionHash"} -> v = "hexHash"
    [] type = "address"             -> v = "hexAddress"
    [] type = "hexNumber"           -> v \in {"hexNumber", "hexBig"}
    [] type = "position"            -> v \in Hex \ {"hexTx"}
    [] type = "transactionData"     -> v = "hexTx"
    [] type = "flag"                -> v \in {"true", "false"}
    [] type = "message"             -> v \in Strings
    [] type = "eventName"           -> v = "newHeads"
    [] type = "object"              -> v \in Objects
    [] type = "object?"             -> v \in Objects \cup {"null", "undefined"}
    [] type = "substrateGasParams?" -> v \in {"{}", "{gas}", "null", "undefined"}
    [] type = "transaction"         -> v \in Objects

(* Where the code departs from that.  It takes more: false values for an   *)
(* optional argument that is missing; a block above 32 bits, for methods   *)
(* that do not look at it; "0x" for the position zero; anything for a      *)
(* transaction, an empty one if it has no properties.                      *)
FalseTaken(m, i, v) == m.schema[i] \in Optional /\ v \in {"false", "zero"}
NotLookedAt(m, i, v) ==
  /\ m.tag = "ignored" /\ m.schema[i] = "block"
  /\ v \in {"hexBig", "negative", "fraction", "{blockNumber, text}"}
EmptyPosition(m, i, v) == m.schema[i] = "position" /\ v = "0x"
AnyTransaction(m, i, v) == m.schema[i] = "transaction" /\ v \notin Objects \cup {"undefined"}

(* It fails on what has passed validation, with an error of no code: a     *)
(* number that is none, for a block or an index; a null transaction, and   *)
(* null for gas parameters that may be missing.                            *)
NoNumber(m, i, v) ==
  m.tag # "ignored" /\ m.schema[i] \in {"block", "block?"} /\ v \in {"negative", "fraction"}
BadIndex(m, i, v) == m.tag = "parsed" /\ m.schema[i] = "hexNumber" /\ v = "hexBig"
NullTaken(m, i, v) == m.schema[i] \in {"transaction", "substrateGasParams?"} /\ v = "null"
NoCode(m, i, v) == NoNumber(m, i, v) \/ BadIndex(m, i, v) \/ NullTaken(m, i, v)

(* So it may on raw data that are hex and no transaction.                  *)
NoTransaction(m, i, v) == m.schema[i] = "transactionData" /\ v \in Hex \ {"hexTx"}

(* An EIP-1898 object passes and is not unwrapped, for methods that take   *)
(* the block as it is: a valid request is answered as an invalid one.  So  *)
(* is one for the logs of a block whose hash is no hash, which is right.   *)
NotUnwrapped(m, i, v) ==
  m.tag = "raw" /\ m.schema[i] \in {"block", "block?"} /\ v \in {"{blockNumber}", "{blockHash}"}
NoHash(m, i, v) == m.tag = "logs" /\ v = "{blockNumber, text}"

(* A position that is too long is found out after the block.               *)
LongPosition(m, i, v) == m.schema[i] = "position" /\ v = "hexTx"

Accepted(m, i, v) ==
  \/ WellFormed(m.schema[i], v) /\ ~NoHash(m, i, v)
  \/ FalseTaken(m, i, v) \/ NotLookedAt(m, i, v) \/ EmptyPosition(m, i, v)
  \/ AnyTransaction(m, i, v) \/ NoNumber(m, i, v)

(* A request is answered if its arguments are what the method asks for and *)
(* what it names is there, and as one with invalid parameters if they are  *)
(* not; validation and provider disagree exactly where said above, whatever*)
(* the other arguments are.  An argument that is refused by the provider   *)
(* only may be outrun by the failure of another one.  A call that fails in *)
(* the EVM, or a transaction that the pool refuses, has an error of its    *)
(* own, and only when nothing is wrong with the request.                   *)
RequestUnderstood(method, params, socket, known, fails) ==
  LET m == Methods[method]
      answers == Respond(method, params, socket, known, fails)
      AnyArg(P(_, _, _)) == \E i \in DOMAIN params \cap DOMAIN m.schema : P(m, i, params[i])
      accepted == /\ Len(params) <= Len(m.schema)
                  /\ \A i \in DOMAIN m.schema :
                       IF i \in DOMAIN params THEN Accepted(m, i, params[i])
                       ELSE m.schema[i] \in Optional
      missing == /\ ~known
                 /\ m.tag = "filter" \/ Named(m, params) \cap {"hexNumber", "number", "hexHash"} # {}
  IN  m.tag # "signer" /\ (m.tag = "socket" => socket) =>
        IF ~accepted
        THEN /\ answers # {} /\ answers \subseteq {InvalidParams, OtherError}
             /\ OtherError \in answers => AnyArg(NoCode) \/ AnyArg(NoTransaction) \/ ~known
             /\ InvalidParams \notin answers => AnyArg(LongPosition)
        ELSE IF AnyArg(NotUnwrapped) THEN answers = {InvalidParams}
        ELSE IF AnyArg(NoCode) THEN answers = {OtherError}
        ELSE IF missing THEN answers \in {{OtherError}, {"null"}}
        ELSE IF fails \in {"evm", "pool"} THEN answers = {InternalError}
        ELSE answers = {IF fails = "no" THEN "answer" ELSE OtherError}

RequestsUnderstood ==
  job.kind = "request" /\ job.in.method \in DOMAIN Methods =>
    RequestUnderstood(job.in.method, job.in.params, job.in.socket, job.in.known, job.in.fails)
=============================================================================
