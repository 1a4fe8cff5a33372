# A verification development of bodhi.js

bodhi.js lets Ethereum clients talk to an EVM that runs inside a Substrate
chain (Acala, Karura, Mandala). This directory holds TLA+ modules for the parts
of it that keep state, the TLC configurations that model-check them on small
instances, and TLAPS proofs of what matters most. Names follow the source:
`_onNewHead` is spelled out where an operation keeps its name, and each
definition's source lines are in `PROJECT.json` under `map`.

## 1. The system

| part | source | state | operations |
|---|---|---|---|
| Finalized block set | `eth-providers/src/utils/MaxSizeSet.ts` | key table, linked list with `head` and `tail`, `size` | `add`, `has`, `toString` |
| Block cache | `eth-providers/src/utils/BlockCache.ts` | window of block hashes, receipts by block, receipt by transaction, latest block | `addReceipts`, `setlastCachedBlock`, getters |
| Head pipeline | `eth-providers/src/base-provider.ts:393-516,556-575` | last values of `best$` and `finalized$`, two maps of scheduled tasks, attempts of each task | two subscriptions, `_onNewHead`, `_onNewFinalizedHead`, `_notifySubscribers`, `disconnect` |
| Head and finality getters | `base-provider.ts:366-387` | none of their own | `bestBlockHash`, `finalizedBlockHash`, ... |
| Block tags and finality | `base-provider.ts:1475-1606` | hashes by number in `queryCache` | `_getBlockHash`, `_getBlockNumber`, `_isBlockCanonical`, `_isBlockFinalized` |
| Block data | `base-provider.ts:605-685` | data by block in `queryCache` | `getBlockDataForHeader` |
| Receipts and transactions | `base-provider.ts:1608-1744`, `utils/receiptHelper.ts`, `utils/parseBlock.ts` | reads the block cache | `getReceipt`, `getReceiptAtBlock`, `getTransactionByHash`, `_isTransactionFinalized` |
| Accounts, storage, calls | `base-provider.ts:696-935` | reads the node at one block | `getBalance`, `getTransactionCount`, `getCode`, `getStorageAt`, `call` |
| Logs and poll filters | `base-provider.ts:1746-1846,1989-2102`, `utils/logs.ts`, `utils/subqlProvider.ts` | poll position of each filter | `getLogs`, `addPollFilter`, `poll`, `removePollFilter` |
| Event listeners | `base-provider.ts:1951-1987` | three arrays of callbacks | `addEventListener`, `removeEventListener` |
| Gas estimate and codec | `base-provider.ts:936-1294`, `utils/transactionHelper.ts` | none | `estimateResources`, `_getSubstrateGasParams`, encoders |
| Sending | `base-provider.ts:1304-1473`, `utils/sendTx.ts`, `utils/handleTxResponse.ts` | one waiter per response | `prepareTransaction`, `sendTransaction`, `_wrapTransaction`, `wait` |
| Polling JSON-RPC provider | `eth-providers/src/json-rpc-provider.ts` | listeners and timer of a wait | `sendTransaction`, `_waitForTransaction` |
| Signers | `bodhi/src/*.ts` | the claim of an account, at the node | `sendTransaction`, `claimEvmAccount`, `claimDefaultAccount` |
| Acala transaction format | `eth-transactions/src/*.ts` | none | sign, serialize, parse, verify |
| RPC server | `eth-rpc-adapter/src/server.ts`, `router.ts`, `eip1193-bridge.ts`, `index.ts` | clients, their `isAlive` flags, calls in progress | HTTP and WebSocket handlers, heartbeat, subscriptions, start and exit |
| Request validation | `eth-rpc-adapter/src/validate.ts`, `errors.ts`, `router.ts` | none | `validate`, the bridge's method table, the codes of errors |
| Health checks | `eth-providers/src/utils/utils.ts` (`getHealthResult`) | none | `net_health` |
| Indexer | `evm-subql/src/mappings/mappingHandlers.ts` | receipts and logs of finalized blocks | `handleBlock` |
| Substrate node | not in the repository | block tree, best block, finalized block, pool | announces heads, answers `chain_getBlockHash`, reports on extrinsics |

How they interact. The node announces best and finalized heads. The head
pipeline schedules a task for each; a head task fetches the block's receipts,
puts them in the block cache, makes the block the latest one and calls the
listeners; a finalized task calls the listeners for finalized heads. Every
query of the RPC server starts from the latest block (`lastCachedBlock`), the
finalized stream, the finalized block set and the block cache, asks the node or
the indexer for the rest, and may keep the answer in `queryCache`. A client
subscribes over a WebSocket, which puts a callback in a listener array; it
sends a transaction, which the node's pool, a block, the block cache and the
indexer hold one after the other, and waits for it on the stream of heads, or
by polling from another process.

What is hard. JavaScript runs one turn at a time, so nothing is torn, but every
`await` lets all other tasks, the chain and the clients move: receipts of two
heads are fetched at once and come back in any order; a task fails, is
scheduled again a second later, and shares its map entry with whatever was
announced meanwhile; a reorganisation falls between a question to the node and
the use of its answer; finality is read after the answer it is to qualify; the
indexer lags behind; a callback removes its neighbour from the array that is
being walked; a socket fails, falls silent, closes, in any order; a timer fires
with the answer already queued. And the same thing is often computed twice, by
two pieces of code that must agree: a receipt by provider and indexer, a
filter by three readers, a block argument by validation and provider, defaults
by signing, serializing and parsing. `PROJECT.json` lists these hazards line by
line with the properties that would catch each of them going wrong.

What makes each part correct:

* the stores' tables agree, and what they answer follows from what was added last
  and what has left since;
* the pipeline notifies every head once unless a listener throws, caches
  before it notifies, never moves the latest block back unless a slow answer
  overtakes, and can be shut down;
* the queries never call a block final that is not, answer receipts of canonical
  blocks only, lose no transaction between pool, cache and indexer, and keep nothing for good
  that is incomplete unless nobody could have known better;
* logs and blocks reach a polling client once each, heads reach every listener
  once, no listener outlives its socket, dead sockets are closed;
* a wait is answered once, from a confirmed receipt, or times out;
* a gas value survives its encoding, an estimate works and is not wasteful, a
  sender is recovered, every log is in one receipt, a request is understood.

## 2. The modules

```
 SlidingWindow  <-- implemented by --  MaxSizeSet
       |  (instances)
       +---- BlockCache ----+
                            |
 Chain  <-- EXTENDS --  HeadPipeline
   |                       | implements
   +------ EXTENDS ---- HeadView  <-- EXTENDS --  BlockTags, BlockData, LogQueries,
                                                  Receipts <-- Sending

 Listeners  <-- EXTENDS --  Server

 GasCodec <-- Estimate ---+
 TxFormat, BlockReceipts -+--  <-- EXTENDS --  Formats
 LogFilters, Requests ----+
```

* **`SlidingWindow`** is the abstract promise of the finalized block set: the last
  `limit` distinct items, oldest first. (The block cache does not keep it: its
  window holds a block as often as it was added.)
* **`MaxSizeSet`** is the linked list as written: `items`, `size`, `head`,
  `tail`, the `next` field of every node. `AddToFree`, `AddToFull` and
  `AddThrows` are the three ways through `add`. `maxSize` is a variable chosen
  at the start so that one run covers several sizes, zero and one included.
* **`BlockCache`** has the three tables and `lastCachedBlock`. The receipts of
  a block are a constant `TxsIn` (they are read from the chain at its hash).
  `AddToWindow` and `AddAndEvict` are the two ways through `addReceipts`; `Cache`
  is the pair of calls `_onNewHead` makes in one turn. `added` is the history of
  all additions, from which the properties say what the tables must answer.
* **`Chain`** is the node: a block tree given by `Ancestors`, a best block that
  may change forks above the finalized block, finality that only grows. This is
  external code, modelled from what the provider relies on.
* **`HeadPipeline`** is the code from `startSubscriptions` to `disconnect`. An
  action is the code between two awaits. `tasks` is every task made, in order;
  `taskMap` is `#headTasks` and `#finalizedHeadTasks`; a task is `scheduled`
  (its timer runs), `fetching` (receipts asked for), `notifying` (block data
  asked for), and ends `done`, `gaveUp` or `cancelled`. `Retry` and `Finish` are
  the two ends of an attempt with all their effects on the map: a map entry may
  name another task of the same block, which `unsubscribe()` cancels only if its
  timer is still running. `disconnect` may come while `startSubscriptions` is still
  waiting (phase `leaving`): the start goes on as if nothing had happened, and
  `disconnect` waits for it before it ends the subscriptions. The stores are instances of `BlockCache`
  and `SlidingWindow`.
* **`HeadView`** is what queries may rely on: heads are cached late, out of
  order or never, cached blocks may go at any time. `HeadPipeline` implements it
  (`ImplementsView`), so that a query module checked over `HeadView` holds over
  the pipeline. It has the four getters.
* **`BlockTags`** is one call of `eth_isBlockFinalized` per query slot: tag to
  hash and number, finality by height, then canonicality. What the node
  answers and the moment the answer is used are two steps.
* **`BlockData`** is `getBlockDataForHeader`: questions out, the indexer's
  answer, then the block cache, then the finality that decides whether the data
  is kept. Only whether the transactions are there (`full`, `empty`) matters. Of a
  call, `covered` is a history of whom it could rely on: the indexer, which had the
  block when the call was made, the cache, as long as it holds it, or nobody.
* **`LogQueries`** is `getLogs` with an indexer and the poll filters above it. A
  call is a set of questions not yet answered (`waits`): the indexer's half, the
  last processed height, then the cache's half, for which the hash of each missed
  height comes from `queryCache` if it is there and else from the node. Other calls
  of `_getBlockHash` fill `queryCache` (`NodeHashes`, `HashKnown`), with the finality
  read after the answer has come. `PollLogs` is `_pollLogs` up to
  its first question, with the position moved; `PollBlocks` is `_pollBlocks`.
  `handed` is a history of how often a filter was given a height, or `Excused`
  once it may have missed it or had it twice, with the reasons in the actions that
  give them. `safeMode` is chosen at the start.
* **`Receipts`** is what the provider answers about one transaction, its account
  and a block's state, one call at a time: the by-hash entry of the cache, which
  follows the window as `BlockCache` has it, the canonicality check, the
  indexer, the pool. The guard of safe mode (`BehindGuard`) is itself a call in
  turns: header, finality, canonicality. A receipt is the block it belongs to. `Step` ends each turn
  of a call; `moved`, `along` and `shared` are histories of what the world did
  meanwhile, for the properties to speak of.
* **`Sending`** adds the client that sends instead: the extrinsic's way through
  `prepareTransaction`, `sendTx` and `handleTxResponse`, for `sendTransaction`,
  `sendRawTransaction`, the signer's `sendTransaction` and the claims of an
  account; `wait()` on the heads; and the polling wait of
  `AcalaJsonRpcProvider`, whose handler ethers queues (`due`) and runs later.
* **`Listeners`** is the three arrays and `forEach` over them, one call per
  step (`walk`), while the callback called may remove listeners, or throw, which ends
  the walk and has the task tried again. A task of a
  head holds on to the arrays it had when it began to wait (`detached`, when
  `disconnect` has given the provider new ones).
* **`Server`** composes it with the connections, the heartbeat, messages and
  batches, `eth_subscribe`, start and exit. A message is a sequence of calls of
  four sorts; what matters of a call is whether it has to wait for the provider; an element of a
  batch that is `null` makes the handler of the whole message reject (`Broken`).
  `handlers` is whose handlers a socket has, for the server removes all of them.
* **`GasCodec`**, **`TxFormat`**, **`BlockReceipts`**, **`LogFilters`** and
  **`Requests`** are the code without state, as operators: numbers keep their
  digits and their rounding, a field of a transaction is absent, empty, some
  form of zero, or there, a log is a name, a JSON value a shape. `Requests` goes as far as what is thrown: by validation, by
  the provider for an argument that passed, for a block or filter that is not there,
  for a call that fails in the EVM, a transaction that the pool refuses. **`Estimate`** is
  `estimateResources`, one node call per step, while the head's costs may
  change. **`Formats`** takes one piece of work at a time and states the reference
  definitions: what each operator should have answered.
* **`MC...`** modules give the constants their values, and where a run is about two
  parts that share nothing, or next to nothing, choose at the start which of them
  moves; **`...Proofs`** modules
  hold the theorems.

Definitions commented as a slip are mutated forms of the definition after them:
what a plausible bug would have made of the code. `PROJECT.json` pairs each
property with one that must violate it.

## 3. The runs

| run | states | shows |
|---|---|---|
| `Stores` | 99k | `MaxSizeSet`: list and table agree and implement the window for sizes 2 and 3; sizes 0 and 1 throw, and stay stuck after it. `BlockCache`: under every history of seven adds, repeats and forks included, tables agree; a block is served exactly from its last addition until some copy of it leaves; a transaction is found in the block added last that has it, unless one that has it left since |
| `Stores_repeats` | violation | a block added twice is no longer served when its older copy leaves, though the younger stays |
| `HeadPipeline_heads` | 676k | tasks, a retry, throwing listeners and shutdown in every order; implements `HeadView` |
| `HeadPipeline_safe` | 122k | safe mode caches final blocks only |
| `HeadPipeline_live` | 198k | every head is handled, `disconnect` ends |
| `BlockQueries` | 874k | `BlockTags`: finality answers are right under reorganisations, whatever hash was kept. `BlockData`: data is kept without its transactions only by a call that neither indexer nor cache could help |
| `BlockQueries_kept` | violation | the hash kept for a height is not that of its final block, when the chain moves between the node's answer and its use |
| `LogQueries` | 1.5M | a log filter gets each final block's logs once, or misses them, or has them twice, for one of five named reasons; heights of a block filter once; answers of `getLogs` are final but for a hash kept before of an abandoned block; what is indexed, or cached all along, is answered once |
| `LogQueries_torn` | violation | logs are in neither half when the indexer moves between them |
| `Sending` | 838k | receipts, nonces and states are answered right over pool, cache, node and indexer; sent transactions and waits settle, once, and with a confirmed receipt |
| `Server` | 1.1M | heads reach every listener once; no listener outlives its socket; whoever listens has its identifier, or gets it with the reply in work; silent sockets are terminated |
| `Formats` | 279k | gas codec and estimate, Acala transactions, receipts and logs of a block, filters and requests against their reference definitions |

Bounds, and why they are enough:

* `Stores` has one of the two at a time, for they share nothing. Of the set, five
  hashes and sizes 0 to 3: every hash is evicted and added again, from every
  position. Of the cache, a window of three over five blocks, two of them siblings
  that share a transaction: a block can be in the window twice, once, or not, and a
  transaction can move between blocks before either leaves. `MaxAdds` 7: the window
  turns over twice. Deadlock is not checked: after the last add nothing is left to
  do.
* `HeadPipeline`: a chain of two blocks above genesis and a sibling of the
  first; `MaxTasks` 3 (two heads can overtake one another with a finalized head
  beside them), `Attempts` 2 instead of 5 (one retry, then giving up),
  `DrainRounds` 1 instead of 5. In `HeadPipeline_heads` one task is tried again
  among others that succeed, fail or wait (`MaxRetried` 1, in `MCSpec`); in
  `HeadPipeline_live` all may be, and the proofs bound neither. `MaxReannounced` is 1 in the run about
  liveness, where a reconnect may overwrite the entry of a running task, and 0
  elsewhere; the properties about named tasks hold only without it, and say so.
  `MaxFinal` bounds how far finality goes. Deadlock is not checked: after
  `disconnect` the pipeline is over.
* `BlockQueries` has one of the two queries at a time, and one call. Of the hash and
  finality of a block, two forks of length two: calls share nothing but `queryCache`,
  whose entries of any age a call finds through `Forget` and `AskCached`. Of its
  data, two heights and a fork: the cache may let go of any block at any time, and
  the indexer may lag however far.
* `LogQueries`: two heights and a fork, one filter and one call at a time: polls
  share only the filter's position, which is read and written in one turn. The
  range of a call ends below the latest block, or does not. There is a log filter, a
  block filter or calls without one (`use`), for they share only the query cache,
  which block filters do not read in the model, and one other call of `_getBlockHash`
  waiting for the node at a time. Of the query cache, `Memo` keeps the
  height where the fork is: what it has forgotten is asked of the node, as for the
  other height. Nothing is assumed of the block cache; in `LogQueries_torn` it
  outlasts the indexer's lag, so that nothing but the tear is to blame.
* `Sending`: a chain of two blocks above genesis and a sibling of the first, the
  transaction in the last block of each fork (`Includes`), where it succeeds in
  one and fails in the other (`FailsIn`), so that it can be pooled, included,
  abandoned, pooled and included again. `MaxTries` 2 for the retries of local
  mode, `MaxConfirms` 2: a wait for the block of inclusion itself and for one on
  top of it. A client queries or sends, not both, for the two share nothing.
  Deadlock is not checked: a settled client on a chain that is full has nothing
  left to do.
* `Server`: two sockets, so that one can be behind the other in a heartbeat
  round; one head with logs and one finalized head; two listeners, so that one can
  stand next to another; batches of up to two calls and one of three, which is
  too large. `use` tells runs about connections from runs about messages, which
  meet in the closing of a socket, in both. Deadlock is not checked: the process
  may exit.
* `Formats`: inputs on both sides of every threshold in the code (the tenth
  gas digit, powers of two of storage, 999 and 1000 chunks, the tip's ten steps),
  every combination of present, absent and zero fields of a transaction,
  blocks of up to two extrinsics, with up to two events of the EVM each, and an orphan event, every method with any two of
  its arguments replaced by every shape of JSON value, what they name known or not,
  and every failure of its own. Prices are scaled, for TLC's integers
  have 32 bits: `TenGwei` is 1000 instead of 10^10, `EntryRange` 16 instead of
  2^16, the runtime's fee in proportion, and the deposit such that of the prices at
  or above the fee, those of tips of ten tenths and more, some are read as the
  first encoding and some as the second. Each is a digit position that
  the rest of the price must not reach, and the inputs go up to it. Gas, storage
  and the thresholds on them have their real sizes.

Fairness. `HeadPipeline_live`: a timer fires, an RPC is answered or fails, the
node answers a subscription, and the loop of `disconnect` comes round (weak
fairness of each task's steps and of `FirstHead`, `FirstFinalized`, `Ready`,
`DrainWait`, `Close`). `Sending`: the node's answers come, queued handlers run,
`head$` gives its value to who subscribed, the timer of a polling wait fires.
`Server`: the interval of the heartbeat goes on, and a connection that is being
closed or was terminated closes. JavaScript's event loop runs every ready callback, the
API rejects the calls of a lost connection, and the WebSocket library closes
what it was told to, which is all that this asks. Nothing is assumed of
the chain, of clients, or of what the poll finds.

## 4. What the runs say of the code

Three runs end in a violation of what the repository says of itself:

* `Stores_repeats`: `addReceipts` pushes a block's hash each time it is called
  with the block, and deletes the block's receipts when the first of its copies is
  shifted out. A task tried again after a listener threw, or a head announced again
  after a reconnect, adds a block twice. `ServedSinceAdded`, in a passing run, says
  what is served instead.
* `BlockQueries_kept`: `_getBlockHash` keeps a hash because its height is final now,
  though the node was asked before; a reorganisation and its finalization in between
  make it that of an abandoned block.
* `LogQueries_torn`: `getLogs` reads the indexer's progress twice. A block indexed in
  between is answered twice or not at all; `SettledOnce` says that this is so for no
  other, but for what the block cache has lost or a kept hash hides.

Other departures from what one would expect are stated as what remains true, in
the passing runs and theorems:

* `BlockCache.addReceipts` deletes by transaction hash what it wrote by
  transaction hash, without looking whether the entry still belongs to the block
  that leaves. After a fork, a transaction of a cached block may not be found
  (`FoundSinceAdded`, and for the queries above it `FoundUnlessShared`).
* A hash kept for an abandoned block has further effect: `getLogs` answers the logs
  of the abandoned block for the height, or misses those of the final one
  (`OnlyFinalLogs` and `LogsOnce` name this case, and what it takes).
* `getBlockDataForHeader` keeps a final block without its transactions when neither
  the cache nor the indexer has them, for instance after a restart, though the comment
  above it (line 637) knows only blocks without transactions and blocks not
  finalized. `CoveredDataIsFull` says of which calls this is true.
* `finalizedBlockHash` falls back to the latest cached block while that is
  lower than the finalized height; in safe mode, until the first finalized head
  is cached, that is the first head, final or not (`SafeModeAnswersFinal`).
* A task that gives up leaves its entry in the map and counts as pending ever
  after, so that `disconnect` waits its five seconds (`PendingIsLiveOrGivenUp`:
  nothing else lingers).
* A log filter loses for good, outside safe mode, the logs of every block polled
  before it is final (`LogsOnce` names the reasons).
* The nonce of `pending` counts twice a transaction that moves from the pool to the
  latest block between the two readings, or that is on an abandoned fork that the
  latest block is still on (`PendingNonceExact`).
* A wait for confirmations counts heads of any fork; outside safe mode the receipt
  it resolves with may be of an abandoned block (`ResolvedIsConfirmed`). Its
  timeout ends with the first head (`PromisesSettle` promises no more). A claim
  that loses against another is rejected, although the signer means to accept it:
  the message it compares with is never given alone.
* A heartbeat round ends at the first silent socket, and every round ends at a
  socket that had an error and that the library, its handler removed, never
  forgets: dead sockets behind it are never terminated (`DeadSocketsReaped`).
* A subscription made in a batch hears of heads before its identifier is sent, as
  long as the batch waits for its other calls; no property denies it.
  `IdentifiersAreGiven` says that the identifier is sent in the end, whatever
  becomes of those calls. A listener removed by a callback hides its neighbour for
  one head (`HeadsReachListeners`).
* From 1000 chunks of gas on, the encoded limit carries into the next digit and
  decodes to less. A tip of ten tenths or more makes the price as high as one of the
  first encoding: if the limit pays for the storage entries such a price stands for,
  the transaction is read as that, and its tip is lost (`CodecCovers`,
  `TakenForSecond`). The search for a limit may answer up to three times what is used
  (`GasFound`).
* The receipt of an extrinsic outside a batch keeps the logs of its first event
  and of the `Executed` events merged with it (`EveryLogOnce`); the indexer takes an
  empty list of addresses for none (`FiltersAgree`); an EIP-712 transaction whose
  action contradicts its address recovers another sender, and one whose chain id
  is a big-number zero is signed but does not parse (`SenderRecovered`).
* Some arguments pass the validation and make the provider throw, so that the
  request ends in an error without a code: `null` for a transaction or for the
  parameters of `eth_getEthGas`, among others (`NoTransaction`, `NoCode` in
  `Formats`). EIP-1898 objects pass too but are not unwrapped by every method
  (`NotUnwrapped`). An unknown filter is an error without a code, an unknown block
  that or `null`, by the method (`RequestsUnderstood`).

## 5. The proofs

For every value of the constants, with `tlapm`:

* **`StoreProofs`**. `MaxSizeSet`: type correctness, no throw from two items on, a throw
  is for ever, the agreement of list and table (`ListAgrees`) and the refinement
  (`ImplementsWindow`). The invariant `Linked` says that some sequence `q` of
  distinct hashes draws the list: its range is `items`, it starts at `tail`, ends at
  `head`, and `next` leads along it; from it the tail of a full list of two or
  more is never null. The walk `ToString` is a recursive function; that it is
  defined, and that it walks along whatever draws the list, is shown by
  well-founded induction over the numbers, with its operator written out.
  `BlockCache`: type correctness, the three properties that `Stores` checks and two more, for
  every size of the window, every sharing of transactions among blocks and every
  history of adds, repeats included. No block outside the window is in the by-block
  table (`Within`), and each by-hash entry is in the list of its block (`Found`):
  eviction keeps this because what it deletes by hash is the very list it deletes by
  block. `WindowIsEnd` says that the window is the end of the history of additions,
  so that what leaves was added a known number of additions before; `KeptInv`, that
  a table has an entry for what was added last and of which no copy has left since.
  One lemma (`AddedKept`) moves that along by an addition for a single block and for
  all the blocks that include a transaction alike.
* **`HeadViewProofs`**: lemmas about the tree (`OneChain`, `OneBlockPerHeight`),
  about the node's steps and about the view: what is final stays final, and the
  finalized stream lags behind the node's finality but never leaves its chain.
  `BlockQueriesProofs`, `LogQueriesProofs` and `SendingProofs` rest on them.
* **`HeadPipelineProofs`**: type correctness, all safety properties of the
  pipeline, and `ImplementsView`, for every tree and every bound. Six invariants
  carry them, each with one step per action. `Origin`:
  what the streams and the tasks hold was announced by the node, in safe mode by
  finality, and nothing else enters the cache. `NameInv`: a map entry names a
  task that is not over and, while no head is announced again, each such task is
  named by exactly one entry; this is why the two deletions of `_onNewHead` never
  drop another's entry. `ToldInv`: what a task has sent and cached by its state.
  `OrderInv`: the tasks of a stream have the order of its announcements, so that
  what is cached last is announced last unless something overtook it. `EntryFits`:
  a map entry is of the kind and block of its task, so that a task is cancelled
  only by another of its own block; with it nothing but live tasks and those
  that gave up lingers. `BestInv`: a head once replaced never comes back, so the
  tasks of the best block are the last ones; until the latest block is that one,
  some task of it is still to cache it or has given up (`BestPursued`), and a
  task that notifies has cached the latest block and nobody older is at work
  (`NotifyingLatest`): its end takes nothing away.
* **`BlockQueriesProofs`**. Of `BlockTags`: type correctness, `YesIsFinal`
  and `VerdictIsTruth`, for every block tree, any number of
  calls and every set of heights. The invariant `TagsInv` says what each waiting
  state of a call knows: from the moment a height is known to be final, the only
  block of that height the node can name is the final one, so that an answer in
  hand cannot be made wrong by any later head. That a hash kept may be of an abandoned block
  does not matter to it: the verdict on a block compares it with the node's answer. Of
  `BlockData`: `CoveredDataIsFull`, with nothing assumed of cache or indexer. A call
  made when the indexer had the block will be told of it (`IndexedStays`); one whose
  block has been cached since it was made finds it there (`CoverOK`).
* **`LogQueriesProofs`**: the four properties of the run, for every tree, any
  number of filters and calls and whatever the two caches forget. `CallFits` says
  what each half of a call holds, given how far the indexer was when it was read, and
  which blocks the cache's half has by a hash that was kept (`memo`); `FitsLater` is
  why chain, finality and indexer may move on without disturbing it: a block that is
  final stays so, and one that is abandoned too (`Abandoned`). `GivenInv` adds the
  filters: of every height that is not excused, beyond the position nothing has
  been given and no call is out; below it at most one call is out, and then
  nothing has been given yet, and otherwise what was there has been given once.
  Polls move the position before they ask, which is why two that overlap never
  share a height.
* **`SendingProofs`**: all six safety and action properties of the run, for
  every block tree, every set of blocks that include the transaction, and
  any number of retries and confirmations. `CallInv` says what a call holds at
  each of its turns: its entry is a block that has the transaction, what it has
  answered was canonical at some moment of the call, and in safe mode every block
  it has read is final (`CacheInv`: so is everything cached). `SendInv` and
  `WaitInv` follow an extrinsic and its wait, where a block once reported stays
  below the best chain's height; `PollInv` says that a settled wait listens no
  more. `KnownInv` is the half about loss: while nothing has moved since the
  call was made, what a call has passed over is not there (`Knows`), and the
  by-hash entry is that of every cached block which has the transaction, unless
  two such blocks have shared the window.
  The guard of safe mode asks as any other query does: from the moment the height of
  its block is known to be final, the node's answer decides (`VerdictIsGood`).

* **`ServerProofs`**: type correctness and the three safety properties of the
  run, for any number of sockets, listeners, heads and batches. The invariant has
  five parts: an identifier belongs to one socket at most and is in use or is not
  (`IdsKept`); each table holds listeners of its own sort whose sockets carry the
  handlers that will remove them (`TablesKept`); a walk, of the provider's tables
  or of those a task held on to, is at a place from which those called and those
  still standing can be told apart (`WalksKept`); a reply is queued for each
  identifier that has none yet (`RepliesKept`); and what a socket's book says is
  what the tables have (`BooksKept`). The hard step is a callback that removes a
  neighbour while the table is walked: positions shift, and the one who loses its
  turn is named in the property.
* **`FormatsProofs`**: the estimate, the gas codec, Acala transactions, the log
  filters, the receipts of a block and the requests, for every input.
  `EstimateInv` has the search between a limit that failed, or the least one, and
  the least that worked; the bound on what is wasted follows from
  the place where the search may end early. `CodecIsCovered` rests on the unique
  digits of a quotient and a remainder: `DigitsOfLimit` and `DigitsRaised` read
  a limit that was written, or written and raised by half; `LogFits` is the
  logarithm, `PriceReads` and `CheapIsSecond` tell the two encodings apart, `DearIsFirst` and `WhichReads` with them for every price and limit;
  `StorageWithinBlock` is why an estimate's storage has room in two digits. Of the
  inputs it assumes what the source says of them (`GasJobsAssumption`: lifetimes
  are numbers of 32 bits that ten gwei exceed, storage fits its digits;
  `EstimateAssumption`: nothing uses more storage than a block has). Three readers
  of a filter agree because each compares the same digits (`FiltersSame`).

  `SenderIsKept` goes through the fields of `TxRecord`, every form of each: a
  number is written and parsed to itself (`NumberKept`), so what is parsed has the
  payload that was signed. `RequestIsUnderstood` is about any sequence of
  arguments: by themselves (`ArgumentJudged`, `BlockFound`), then together, where
  it matters that no method takes two blocks (`DeclaredOnce`).

  `EveryLogIsOnce` is about blocks of any number of extrinsics and events. A
  filter keeps places of a list, so `Picked` comes from a bijection between them
  and their ranks (`Ranked`, by cardinality); `flat()` is a recursion, which
  `Flattened` leads by an induction written out as the library states it for
  sets, giving each item a row and a column. With these, the events that count as
  orphans are those of the batches and of no extrinsic, each once
  (`OrphansPlaced`), and what `findEvmEvent` finds has the logs of the events that
  are merged, each once (`FoundEvent`). `LogsApart` puts them together: a log of a
  normal extrinsic, of a batch and of no extrinsic is in one receipt of the block.
  `ReceiptsFound` and `ReceiptsPaidFor` are the lookup by hash and the price.
  `BlocksAssumption` says of blocks that no two extrinsics have the same hash, for
  a nonce goes into it, and gives each log its place for a name, so that
  two logs which look the same are told apart.

Three properties turned out, on the way to a proof, to have claimed too much or
not to say what they meant, and the model one thing. `CodecCovers`: the chunks of a token transfer are rounded up
to tens after one was added, so that gas on a boundary (270,000, now among the
inputs of `Formats`) is given eleven chunks more, not ten.
`EveryLogOnce` took the logs of all of an extrinsic's events, where the receipts
have those of the EVM's only, and the first event of any kind, where the code
takes the EVM's first; the blocks of `Formats` now begin their extrinsics with an
event that is none of the EVM's, and `BlockReceipts` filters by places, as the proof
reads it. `RequestsUnderstood` spoke of one wrong argument at a time; it is now about all
of them, and `Formats` replaces two. With that the answer to several faults at
once was seen to depend on which promise is rejected first, so that `Respond`
gives the set of what may be answered.

Proved without a run of their own, for TLC says little about them: the type
invariants, `NoThrowFromTwo` and `ThrowIsForever` (`MaxSizeSet`), `MemoryBounded`
and `LatestIsServed` (`BlockCache`), `MapsNameEveryTask` and
`CachesBeforeNotifying` (`HeadPipeline`).

Only model-checked: the liveness properties `EveryHeadHandled`, `DisconnectEnds`,
`PromisesSettle` and `DeadSocketsReaped`, which are out of reach of the prover, and
the three violations. Every invariant and every action property that a run checks is a
theorem.

## 6. Not modelled, and the plan

Left out for good:

* health checks (`net_health`): a comparison of heights and times with fixed
  thresholds, without state;
* `getLogs` of a provider without an indexer: it answers from what the cache
  happens to hold, and promises nothing about its gaps;
* the fee that `estimateGas` divides by the gas used: it is the node's answer;
* the hand-over of `SubstrateSigner` and `MultiSigner` to a wallet;
* byte layouts (RLP, SCALE, signatures, addresses): fields and who signed them
  are modelled, their encoding is not;
* generated GraphQL types, vendored releases, examples and end-to-end tests.

Nothing of the plan is left. Four hazards have no property that a run checks;
`PROJECT.json` says of each why.
