------------------------------ MODULE LogQueries ------------------------------
(***************************************************************************)
(* getLogs() of base-provider.ts on a provider with an indexer, and the    *)
(* poll filters above it: addPollFilter, poll, removePollFilter.           *)
(*                                                                         *)
(* An answer has two halves asked for at once: the logs the indexer has,   *)
(* and those of the final blocks it has not reached, from the block cache. *)
(* Each half has its own reading of how far the indexer is.                *)
(*                                                                         *)
(* The logs of a block stand or fall together, so a log is the block it is *)
(* in, and the filters by address and topic are left out.                  *)
(***************************************************************************)
EXTENDS HeadView, Integers, FiniteSetsExt

CONSTANTS Query,          \* the calls in progress at once
          Filter,         \* the ids of poll filters
          Client,         \* not a filter: a call of eth_getLogs is for it
          NoOne,          \* nor this: a slot without a call is
          MaxHeight,      \* no filter or call asks for more
          Ranges,         \* the ranges filters ask for
          CallRanges,     \* the ranges calls of eth_getLogs ask for
          Memo,           \* the heights whose hash the query cache can hold:
                          \* it has forgotten the others at once
          CacheOutlasts   \* TRUE: receipts stay cached until indexed

ASSUME LogsAssumption ==
  /\ CacheOutlasts \in BOOLEAN
  /\ WithTxs \subseteq Block
  /\ Client # NoOne /\ {Client, NoOne} \cap Filter = {}
  /\ MaxHeight \in Nat
  /\ Ranges \cup CallRanges \subseteq (0 .. MaxHeight) \X (0 .. MaxHeight)
  /\ Memo \subseteq 0 .. MaxHeight
  /\ \A b \in Block : Number[b] <= MaxHeight

VARIABLES safeMode,       \* an option of the provider
          indexedTo,      \* the indexer's last processed height
          queryCache,     \* the entries `blockHash-n`
          replies,        \* hashes the node has given to other calls of
                          \* _getBlockHash, which these have yet to use
          filter,         \* pollFilters
          query,
          handed          \* history: how often a filter was given a height,
                          \* or Excused when it may have missed it

hashVars == <<queryCache, replies>>

vars == <<chainVars, viewVars, hashVars, safeMode, indexedTo, filter, query, handed>>

Excused == 3

Height == 0 .. MaxHeight

FilterState == [kind     : {"none", "logs", "blocks"},
                live     : BOOLEAN,  \* made, and not removed
                from     : Height,   \* 'latest' as fromBlock filters nothing: 0,
                to       : Height,   \* and as toBlock neither
                since    : Height,   \* the position it was made at
                position : Height]   \* lastPollBlockNumber

(* waits: the questions of this call that are not answered.                *)
QueryState == [of        : {Client, NoOne} \cup Filter,
               waits     : SUBSET {"indexer", "height", "cache", "hashes"},
               from      : 0 .. MaxHeight + 1,
               to        : Height,
               target    : Height,          \* targetBlock of the missed logs
               start     : Height,          \* history: the indexer, when called
               seen      : Height,          \* the indexer, at its half
               height    : Height,          \* lastProcessedHeight
               memo      : SUBSET Block,    \* hashes from the query cache
               byIndexer : SUBSET Block,
               byCache   : SUBSET Block,
               gap       : SUBSET Height]   \* history: not in the cache

NoCall == [of |-> NoOne, waits |-> {}, from |-> 0, to |-> 0, target |-> 0,
           start |-> 0, seen |-> 0, height |-> 0, memo |-> {},
           byIndexer |-> {}, byCache |-> {}, gap |-> {}]

TypeOK ==
  /\ ViewTypeOK
  /\ safeMode \in BOOLEAN
  /\ indexedTo \in Height
  /\ queryCache \in [Memo -> Block \cup {NoBlock}]
  /\ replies \subseteq Block
  /\ filter \in [Filter -> FilterState]
  /\ query \in [Query -> QueryState]
  /\ handed \in [Filter -> [Height -> {0, 1, 2, Excused}]]

NoFilter == [kind |-> "none", live |-> FALSE,
             from |-> 0, to |-> 0, since |-> 0, position |-> 0]

Init ==
  /\ ViewInit
  /\ safeMode \in BOOLEAN
  /\ indexedTo = 0
  /\ queryCache = [n \in Memo |-> NoBlock]
  /\ replies = {}
  /\ filter = [f \in Filter |-> NoFilter]
  /\ query = [q \in Query |-> NoCall]
  /\ handed = [f \in Filter |-> [n \in Height |-> 0]]

(* A slip: the hash is taken for the number. *)
GetBlockHash == IF safeMode THEN FinalizedBlockHash ELSE BestBlockHash

GetBlockNumber == IF safeMode THEN FinalizedBlockNumber ELSE BestBlockNumber

(* The indexer (packages/evm-subql) follows the finalized chain. *)
Index ==
  /\ indexedTo < Number[finalizedHead]
  /\ indexedTo' = indexedTo + 1
  /\ UNCHANGED <<chainVars, viewVars, hashVars, safeMode, filter, query, handed>>

-----------------------------------------------------------------------------
(* _getBlockHash as all other calls use it, the polls of block filters     *)
(* among them: the node answers, and later the answer is used, and kept if *)
(* by then its height is final (BlockTags has the calls one by one).  Any  *)
(* number of calls may have an answer in hand.                             *)

(* chain_getBlockHash(n) at the node: empty above its best block. *)
CanonicalHash(n) ==
  IF \E b \in Ancestors[bestHead] : Number[b] = n
  THEN CHOOSE b \in Ancestors[bestHead] : Number[b] = n ELSE NoBlock

NodeHashes(n) ==
  /\ queryCache[n] = NoBlock
  /\ replies' = replies \cup ({CanonicalHash(n)} \ {NoBlock})
  /\ UNCHANGED <<chainVars, viewVars, queryCache, safeMode, indexedTo, filter, query, handed>>

HashKnown(b) ==
  /\ ViewReady
  /\ b \in replies
  /\ Number[b] \in Memo /\ Number[b] <= FinalizedBlockNumber
  /\ queryCache' = [queryCache EXCEPT ![Number[b]] = b]
  /\ UNCHANGED <<chainVars, viewVars, replies, safeMode, indexedTo, filter, query, handed>>

(* The LRU cache drops an entry. *)
Forget(n) ==
  /\ queryCache[n] # NoBlock
  /\ queryCache' = [queryCache EXCEPT ![n] = NoBlock]
  /\ UNCHANGED <<chainVars, viewVars, replies, safeMode, indexedTo, filter, query, handed>>

-----------------------------------------------------------------------------
(* The life of a filter. *)
AddPollFilter(f, kind, from, to) ==
  /\ filter[f].kind = "none"
  /\ ViewReady
  /\ filter' = [filter EXCEPT ![f] =
                  [kind |-> kind, live |-> TRUE, from |-> from, to |-> to,
                   since |-> GetBlockNumber, position |-> GetBlockNumber]]
  /\ UNCHANGED <<chainVars, viewVars, hashVars, safeMode, indexedTo, query, handed>>

RemovePollFilter(f) ==
  /\ filter[f].live
  /\ filter' = [filter EXCEPT ![f] = [NoFilter EXCEPT !.kind = filter[f].kind]]
  /\ handed' = [handed EXCEPT ![f] = [n \in Height |-> 0]]
  /\ UNCHANGED <<chainVars, viewVars, hashVars, safeMode, indexedTo, query>>

-----------------------------------------------------------------------------
(* getLogs *)

(* A slip: the rest is asked for up to the end of the range. *)
TargetOfRange(to) == to

(* "subql upperbound is finalizedBlockNumber": so is that of the rest. *)
TargetBlock(to) == Min({to, FinalizedBlockNumber})

Asked(of, from, to, waits) ==
  [of |-> of, waits |-> waits, from |-> from, to |-> to,
   target |-> TargetBlock(to), start |-> indexedTo, seen |-> 0, height |-> 0, memo |-> {},
   byIndexer |-> {}, byCache |-> {}, gap |-> {}]

Call(q, r) == query[q].of = NoOne /\ query' = [query EXCEPT ![q] = r]

GetLogs(q, from, to) ==
  /\ ViewReady
  /\ Call(q, Asked(Client, from, to, {"indexer", "height"}))
  /\ UNCHANGED <<chainVars, viewVars, hashVars, safeMode, indexedTo, filter, handed>>

Within(b, from, to) == from <= Number[b] /\ Number[b] <= to

(* subql.getFilteredLogs: the blocks of the range the indexer has. *)
IndexerLogs(q) ==
  /\ "indexer" \in query[q].waits
  /\ query' = [query EXCEPT
       ![q].waits = @ \ {"indexer"},
       ![q].seen = indexedTo,
       ![q].byIndexer = {b \in WithTxs : /\ IsFinal(b)
                                         /\ Number[b] <= indexedTo
                                         /\ Within(b, query[q].from, query[q].to)}]
  /\ UNCHANGED <<chainVars, viewVars, hashVars, safeMode, indexedTo, filter, handed>>

(* A slip: the last processed height is taken for missed. *)
FirstMissedOffByOne(n) == n

FirstMissedHeight(n) == n + 1

(* The heights from the first missed one on are looked up in the query     *)
(* cache in the same turn.                                                 *)
LastProcessedHeight(q) ==
  /\ "height" \in query[q].waits
  /\ query' = [query EXCEPT
       ![q].waits = (@ \ {"height"}) \cup {"cache"},
       ![q].height = indexedTo,
       ![q].memo = {queryCache[n] : n \in Memo \cap (FirstMissedHeight(indexedTo) .. query[q].target)}
                     \ {NoBlock}]
  /\ UNCHANGED <<chainVars, viewVars, hashVars, safeMode, indexedTo, filter, handed>>

(* The missed heights whose hash the query cache did not have. *)
AskedFor(q) ==
  {n \in FirstMissedHeight(query[q].height) .. query[q].target :
     \A b \in query[q].memo : Number[b] # n}

(* The node's answers have come and are kept, and the block cache is read  *)
(* in one turn.  The heights are final, so that it does not matter when    *)
(* which answer came.                                                      *)
LogsFromCache(q) ==
  /\ "cache" \in query[q].waits
  /\ LET missed == query[q].memo \cup {CanonicalHash(n) : n \in AskedFor(q)}
     IN query' = [query EXCEPT
          ![q].waits = @ \ {"cache"},
          ![q].byCache = {b \in missed \cap cached : Within(b, query[q].from, query[q].to)},
          ![q].gap = {Number[b] : b \in {d \in WithTxs \ cached :
                        IsFinal(d) /\ Within(d, query[q].height + 1, query[q].target)}}]
  /\ queryCache' = [n \in Memo |->
        IF n \in AskedFor(q) /\ n <= FinalizedBlockNumber
        THEN CanonicalHash(n) ELSE queryCache[n]]
  /\ UNCHANGED <<chainVars, viewVars, replies, safeMode, indexedTo, filter, handed>>

-----------------------------------------------------------------------------
(* poll *)

(* What a poll may miss, from now on. *)
Excuse(f, lost) ==
  handed' = [handed EXCEPT ![f] = [n \in Height |-> IF n \in lost THEN Excused ELSE @[n]]]

(* A slip: the last polled height is polled again. *)
EffectiveFromAgain(f) == Max({filter[f].from, filter[f].position})

EffectiveFrom(f) == Max({filter[f].from, filter[f].position + 1})
EffectiveTo(f) == Min({filter[f].to, GetBlockNumber})

(* The position moves to the current block before anything is asked, and   *)
(* in safe mode only is everything up to there final.                      *)
PollLogs(q, f) ==
  /\ filter[f].live /\ filter[f].kind = "logs"
  /\ ViewReady
  /\ EffectiveFrom(f) <= EffectiveTo(f)
  /\ filter' = [filter EXCEPT ![f].position = GetBlockNumber]
  /\ Call(q, Asked(f, EffectiveFrom(f), EffectiveTo(f), {"indexer", "height"}))
  /\ Excuse(f, FinalizedBlockNumber + 1 .. GetBlockNumber)
  /\ UNCHANGED <<chainVars, viewVars, hashVars, safeMode, indexedTo>>

FirstNewBlockAgain(f) == filter[f].position
FirstNewBlock(f) == filter[f].position + 1

(* The position follows the latest block, back too. *)
PollBlocks(q, f) ==
  /\ filter[f].live /\ filter[f].kind = "blocks"
  /\ ViewReady
  /\ filter' = [filter EXCEPT ![f].position = GetBlockNumber]
  /\ Call(q, Asked(f, FirstNewBlock(f), GetBlockNumber, {"hashes"}))
  /\ Excuse(f, IF GetBlockNumber < filter[f].position THEN Height ELSE {})
  /\ UNCHANGED <<chainVars, viewVars, hashVars, safeMode, indexedTo>>

BlockHashes(q) ==
  /\ "hashes" \in query[q].waits
  /\ query' = [query EXCEPT ![q].waits = {}]
  /\ UNCHANGED <<chainVars, viewVars, hashVars, safeMode, indexedTo, filter, handed>>

-----------------------------------------------------------------------------
Complete(q) == query[q].of # NoOne /\ query[q].waits = {}

(* The two halves are joined: the logs of a height may be in both. *)
In(half, n) == IF \E b \in half : Number[b] = n THEN 1 ELSE 0

Copies(q, n) == In(query[q].byIndexer, n) + In(query[q].byCache, n)

(* The indexer moved past this height between the two readings. *)
Torn(q, n) ==
  \/ query[q].seen < n /\ n <= query[q].height
  \/ query[q].height < n /\ n <= query[q].seen

ForLogs(q) == query[q].of \in Filter => filter[query[q].of].kind = "logs"

InRange(q) == query[q].from .. query[q].to

(* How often an answer gives a filter the logs, or the hash, of a height. *)
Given(q, n) ==
  IF ForLogs(q) THEN Copies(q, n) ELSE IF n \in InRange(q) THEN 1 ELSE 0

ForFilter(q) == query[q].of \in Filter /\ filter[query[q].of].live

(* The query cache had the hash of an abandoned block for these heights. *)
Misled(q) == {Number[b] : b \in {d \in query[q].memo : ~IsFinal(d)}}

Lost(q, n) == n \in query[q].gap \cup Misled(q) \/ Torn(q, n)

Answer(q) ==
  /\ Complete(q)
  /\ query' = [query EXCEPT ![q] = NoCall]
  /\ IF ForFilter(q)
     THEN handed' = [handed EXCEPT ![query[q].of] =
            [n \in Height |->
               IF @[n] = Excused \/ (n \in InRange(q) /\ Lost(q, n)) THEN Excused
               ELSE Min({2, @[n] + Given(q, n)})]]
     ELSE UNCHANGED handed
  /\ UNCHANGED <<chainVars, viewVars, hashVars, safeMode, indexedTo, filter>>

(* The node or the indexer does not answer: Promise.all rejects, and the   *)
(* range is not polled again.                                              *)
Fail(q) ==
  /\ query[q].waits # {}
  /\ query' = [query EXCEPT ![q] = NoCall]
  /\ IF ForFilter(q) THEN Excuse(query[q].of, InRange(q)) ELSE UNCHANGED handed
  /\ UNCHANGED <<chainVars, viewVars, hashVars, safeMode, indexedTo, filter>>

(* What CacheOutlasts assumes of the sizes: a final block is in the cache  *)
(* or indexed, and stays cached for a call that counts on it.              *)
NoGap ==
  \A b \in WithTxs : IsFinal(b) =>
    \/ b \in cached
    \/ /\ Number[b] <= indexedTo
       /\ \A q \in Query : "cache" \in query[q].waits => Number[b] <= query[q].height

(* Nothing here reads finalizedBlockHashes, so its members are left out. *)
ViewStep ==
  /\ ViewNext /\ finalHashes' = {}
  /\ UNCHANGED <<hashVars, safeMode, indexedTo, filter, query, handed>>

Next ==
  /\ \/ ViewStep
     \/ Index
     \/ \E n \in Memo : NodeHashes(n) \/ Forget(n)
     \/ \E b \in Block : HashKnown(b)
     \/ \E f \in Filter :
          \/ \E r \in Ranges : AddPollFilter(f, "logs", r[1], r[2])
          \/ AddPollFilter(f, "blocks", 0, 0)
          \/ RemovePollFilter(f)
          \/ \E q \in Query : PollLogs(q, f) \/ PollBlocks(q, f)
     \/ \E q \in Query :
          \/ \E r \in CallRanges : GetLogs(q, r[1], r[2])
          \/ IndexerLogs(q) \/ LastProcessedHeight(q) \/ LogsFromCache(q)
          \/ BlockHashes(q) \/ Answer(q) \/ Fail(q)
  /\ CacheOutlasts => NoGap'

Spec == Init /\ [][Next]_vars

-----------------------------------------------------------------------------
Calling(f, n) ==
  \E q \in Query : /\ query[q].of = f
                  /\ n \in InRange(q)

(* A log filter gets the logs of every final block its polls went past,    *)
(* once each, whatever polls overlap.  What it may miss or get twice are   *)
(* the heights of a poll that failed, of blocks not yet final when they    *)
(* were polled, of blocks the block cache had lost before they were        *)
(* indexed, those the indexer reached between its two readings, and those  *)
(* for which the query cache had the hash of an abandoned block.           *)
LogsOnce ==
  \A f \in Filter : filter[f].live /\ filter[f].kind = "logs" =>
    \A b \in WithTxs :
      LET n == Number[b]
      IN /\ IsFinal(b)
         /\ n > filter[f].since
         /\ Within(b, filter[f].from, Min({filter[f].to, filter[f].position}))
         /\ handed[f][n] # Excused
         /\ ~Calling(f, n)
         => handed[f][n] = 1

(* No answer holds a log of a block that may still be abandoned ("subql    *)
(* upperbound is finalizedBlockNumber", base-provider.ts:1783), nor of one *)
(* that has been, unless the query cache took it for the final block of    *)
(* its height before the call came to look.                                *)
OnlyFinalLogs ==
  \A q \in Query :
    \A b \in query[q].byIndexer \cup query[q].byCache :
      \/ IsFinal(b)
      \/ b \in query[q].memo /\ Number[b] <= Number[finalizedHead]

(* Only a height that the indexer reaches during the call can be in both   *)
(* halves of the answer or in neither: a final block that was indexed when *)
(* the call was made is answered once, whatever the two caches hold, and   *)
(* so is one that still is not, if the block cache had it and the query    *)
(* cache no other hash for it.                                             *)
SettledOnce ==
  \A q \in Query : Complete(q) /\ ForLogs(q) =>
    \A b \in WithTxs :
      /\ IsFinal(b) /\ Within(b, query[q].from, query[q].target)
      /\ \/ Number[b] <= query[q].start
         \/ Number[b] > indexedTo /\ Number[b] \notin query[q].gap \cup Misled(q)
      => Copies(q, Number[b]) = 1

(* "should return latest logs as soon as it's finalized"                   *)
(* (eth_getLogs.test.ts:281): with receipts cached until they are indexed, *)
(* an answer has every log that was final when the call was made, once.    *)
FinalLogsAnswered ==
  \A q \in Query : Complete(q) /\ query[q].of = Client =>
    \A b \in WithTxs :
      IsFinal(b) /\ Within(b, query[q].from, query[q].target) =>
        Copies(q, Number[b]) = 1

(* A block filter gets a hash for every height, once each, unless a poll   *)
(* failed or found the latest block below the position.                    *)
BlocksOnce ==
  \A f \in Filter : filter[f].live /\ filter[f].kind = "blocks" =>
    \A n \in Height :
      /\ filter[f].since < n /\ n <= filter[f].position
      /\ handed[f][n] # Excused
      /\ ~Calling(f, n)
      => handed[f][n] = 1
=============================================================================
