---------------------------- MODULE LogQueriesProofs ---------------------------
(* What an answer of getLogs holds, for every chain, every indexer and any *)
(* number of calls and filters: logs of final blocks, and of blocks that   *)
(* the query cache took for one; each once at the heights that the indexer *)
(* does not reach during the call.  And what the filters are given: every  *)
(* height they have passed, once.                                          *)
EXTENDS LogQueries, HeadViewProofs

(* What holds of one call, given the final chain and its height, the       *)
(* indexer's height, and the kinds of filters.                             *)
ForLogsOf(r, flt) == r.of \in Filter => flt[r.of].kind = "logs"

(* The heights of a call's kept hashes that are not those of final blocks. *)
Abandoned(r, final) == {Number[d] : d \in r.memo \ final}

Halves(r, final) ==
  /\ "indexer" \notin r.waits =>
       /\ r.start <= r.seen
       /\ \A b \in WithTxs \cap final :
            Within(b, r.from, r.to) /\ Number[b] <= r.seen => b \in r.byIndexer
  /\ r.waits \cap {"height", "cache"} = {} =>
       /\ r.start <= r.height
       /\ \A b \in WithTxs \cap final :
            /\ Within(b, r.from, r.target) /\ r.height < Number[b]
            /\ Number[b] \notin r.gap \cup Abandoned(r, final)
            => b \in r.byCache
  /\ "cache" \in r.waits => r.start <= r.height

CallFits(r, final, top, idx, flt) ==
  /\ r \in QueryState
  /\ r.target <= top /\ r.target <= r.to
  /\ r.start <= idx /\ r.seen <= idx /\ r.height <= idx
  /\ r.of = NoOne => r.waits = {}
  /\ r.of \in Filter => flt[r.of].kind # "none"
  /\ "hashes" \in r.waits => r.of \in Filter /\ flt[r.of].kind = "blocks"
  /\ "indexer" \in r.waits => r.byIndexer = {}
  /\ r.waits \cap {"height", "cache"} # {} => r.byCache = {}
  /\ ~({"height", "cache"} \subseteq r.waits)
  /\ \A b \in r.byIndexer : b \in final /\ Number[b] <= r.seen
  /\ \A b \in r.memo : r.height < Number[b] /\ Number[b] <= r.target
  /\ \A b \in r.byCache : b \in final \cup r.memo /\ r.height < Number[b]
  /\ r.of # NoOne /\ ForLogsOf(r, flt) => Halves(r, final)

CallOK(q) ==
  CallFits(query[q], Ancestors[finalizedHead], Number[finalizedHead], indexedTo, filter)

(* The query cache and the hashes on their way there. *)
HashesFit ==
  /\ queryCache \in [Memo -> Block \cup {NoBlock}]
  /\ replies \subseteq Block
  /\ \A n \in Memo : queryCache[n] # NoBlock => Number[queryCache[n]] = n

LogsInv ==
  /\ ViewInv
  /\ TypeOK
  /\ HashesFit
  /\ indexedTo <= Number[finalizedHead]
  /\ \A q \in Query : CallOK(q)

-----------------------------------------------------------------------------
LEMMA MinOfTwo ==
  ASSUME NEW m \in Int, NEW n \in Int
  PROVE  Min({m, n}) \in {m, n} /\ Min({m, n}) <= m /\ Min({m, n}) <= n
<1>1. \E x \in {m, n} : \A y \in {m, n} : x <= y
  BY SMT
<1>2. QED
  BY <1>1 DEF Min

LEMMA MaxOfTwo ==
  ASSUME NEW m \in Int, NEW n \in Int
  PROVE  Max({m, n}) \in {m, n} /\ Max({m, n}) >= m /\ Max({m, n}) >= n
<1>1. \E x \in {m, n} : \A y \in {m, n} : x >= y
  BY SMT
<1>2. QED
  BY <1>1 DEF Max

LEMMA BlockHeights ==
  /\ MaxHeight \in Nat
  /\ \A b \in Block : Number[b] \in Height
<1>1. MaxHeight \in Nat /\ \A b \in Block : Number[b] <= MaxHeight
  BY LogsAssumption, Zenon
<1>2. \A b \in Block : Number[b] \in Nat
  BY TreeAssumption
<1>3. QED
  BY <1>1, <1>2 DEF Height

(* Every height the code computes with is one. *)
LEMMA HeightsOfView ==
  ASSUME ViewInv
  PROVE  /\ finalizedHead \in Block /\ Number[finalizedHead] \in Height
         /\ ViewReady => /\ BestBlockNumber \in Height
                         /\ FinalizedBlockNumber \in Height
                         /\ FinalizedBlockNumber <= Number[finalizedHead]
                         /\ GetBlockNumber \in Height
<1>1. \A b \in Block : Number[b] \in Height
  BY BlockHeights
<1>2. finalizedHead \in Block
  BY DEF ViewInv, ViewTypeOK, ChainTypeOK
<1>3. ViewReady => lastCachedBlock \in Block /\ FinalizedBlockHash \in Block
  BY FinalizedNumberIsFinal DEF ViewReady, ViewInv, ViewTypeOK, ChainTypeOK
<1>4. ViewReady => BestBlockNumber \in Height
  BY <1>1, <1>3 DEF BestBlockNumber
<1>5. ViewReady => FinalizedBlockNumber \in Height /\ FinalizedBlockNumber <= Number[finalizedHead]
  <2>1. ViewReady => FinalizedBlockNumber = Number[FinalizedBlockHash]
    BY FinalizedNumberIsFinal
  <2>2. QED
    BY <1>1, <1>3, <2>1, FinalizedNumberIsFinal
<1>6. QED
  BY <1>1, <1>2, <1>4, <1>5 DEF GetBlockNumber

(* A call keeps what it knows while the chain and the indexer go on: what  *)
(* becomes final later is above the heights it has asked about.            *)
LEMMA FitsLater ==
  ASSUME NEW final \in SUBSET Block, NEW final2 \in SUBSET Block, final \subseteq final2,
         NEW top \in Nat, NEW top2 \in Nat, top <= top2,
         NEW idx \in Nat, NEW idx2 \in Nat, idx <= idx2, idx <= top,
         \A b \in final2 : Number[b] <= top => b \in final,
         NEW flt, NEW flt2,
         \A f \in Filter : flt[f].kind # "none" => flt2[f].kind = flt[f].kind,
         NEW r, CallFits(r, final, top, idx, flt)
  PROVE  CallFits(r, final2, top2, idx2, flt2)
<1>1. /\ r \in QueryState /\ r.target \in Nat /\ r.seen \in Nat /\ r.height \in Nat
      /\ r.to \in Nat /\ r.from \in Nat /\ r.start \in Nat
  BY BlockHeights DEF CallFits, QueryState, Height
<1>2. r.target <= top2 /\ r.seen <= idx2 /\ r.height <= idx2 /\ r.start <= idx2
  BY <1>1 DEF CallFits
<1>3. \A b \in WithTxs \cap final2 : Number[b] \in Nat
  BY TreeAssumption
<1>4. \A b \in WithTxs \cap final2 : Within(b, r.from, r.target) => b \in final
  BY <1>1, <1>3 DEF CallFits, Within
<1>5. \A b \in WithTxs \cap final2 : Number[b] <= r.seen => b \in final
  BY <1>1, <1>3 DEF CallFits
<1>6. Halves(r, final) => Halves(r, final2)
  <2>1. \A d \in r.memo : d \in final2 => d \in final
    <3>1. \A d \in r.memo : d \in Block /\ Number[d] \in Nat /\ Number[d] <= r.target
      BY <1>1, TreeAssumption DEF CallFits, QueryState
    <3>2. r.target <= top
      BY DEF CallFits
    <3>3. QED
      BY <1>1, <3>1, <3>2
  <2>2. Abandoned(r, final2) = Abandoned(r, final)
    BY <2>1 DEF Abandoned
  <2>3. QED
    BY <1>4, <1>5, <2>2 DEF Halves
<1>7. r.of \in Filter => flt2[r.of].kind = flt[r.of].kind
  BY DEF CallFits
<1>8. ForLogsOf(r, flt2) => ForLogsOf(r, flt)
  BY <1>7 DEF ForLogsOf
<1>9. QED
  BY <1>1, <1>2, <1>6, <1>7, <1>8 DEF CallFits

-----------------------------------------------------------------------------
LEMMA NoCallFits ==
  ASSUME NEW final, NEW top \in Nat, NEW idx \in Nat, NEW flt
  PROVE  CallFits(NoCall, final, top, idx, flt)
<1>1. NoCall \in QueryState
  BY BlockHeights DEF NoCall, QueryState, Height
<1>2. NoOne \notin Filter
  BY LogsAssumption, Zenon
<1>3. QED
  BY <1>1, <1>2 DEF CallFits, NoCall

LEMMA LogsInit == Init => LogsInv
<1>1. SUFFICES ASSUME Init PROVE LogsInv
  OBVIOUS
<1>2. ViewInv
  BY <1>1, ViewInvInit DEF Init
<1>3. 0 \in Height /\ Number[finalizedHead] \in Nat /\ 0 <= Number[finalizedHead]
  BY <1>2, BlockHeights, HeightsOfView DEF Height
<1>4. NoCall \in QueryState
  BY BlockHeights DEF NoCall, QueryState, Height
<1>5. TypeOK /\ HashesFit
  BY <1>1, <1>2, <1>3, <1>4
  DEF Init, TypeOK, HashesFit, NoFilter, FilterState, ViewInv, Excused
<1>6. \A q \in Query : CallOK(q)
  BY <1>1, <1>3, NoCallFits DEF Init, CallOK
<1>7. QED
  BY <1>1, <1>2, <1>3, <1>5, <1>6 DEF LogsInv, Init

(* Filters change and calls go on. *)
KindsKept ==
  /\ filter' \in [Filter -> FilterState]
  /\ \A f \in Filter : filter[f].kind # "none" => filter'[f].kind = filter[f].kind

HandedType == handed \in [Filter -> [Height -> {0, 1, 2, Excused}]]

LEMMA OthersFit ==
  ASSUME LogsInv, KindsKept, UNCHANGED <<chainVars, viewVars, indexedTo>>, NEW q \in Query,
         query'[q] = query[q]
  PROVE  CallOK(q)'
<1>1. /\ Ancestors[finalizedHead] \in SUBSET Block /\ Number[finalizedHead] \in Nat
      /\ indexedTo \in Nat /\ indexedTo <= Number[finalizedHead]
  BY HeightsOfView, AncestorsOfBlock, BlockHeights DEF LogsInv, TypeOK, Height
<1>2. CallFits(query[q], Ancestors[finalizedHead], Number[finalizedHead], indexedTo, filter')
  BY <1>1, FitsLater DEF LogsInv, CallOK, KindsKept
<1>3. QED
  BY <1>2 DEF CallOK, chainVars

LEMMA SameHashes ==
  ASSUME LogsInv, UNCHANGED hashVars
  PROVE  HashesFit'
  BY DEF LogsInv, HashesFit, hashVars

LEMMA OneCall ==
  ASSUME LogsInv, KindsKept, HandedType', HashesFit',
         UNCHANGED <<chainVars, viewVars, safeMode, indexedTo>>,
         NEW q \in Query, NEW r, query' = [query EXCEPT ![q] = r],
         CallFits(r, Ancestors[finalizedHead], Number[finalizedHead], indexedTo, filter')
  PROVE  LogsInv'
<1>1. query \in [Query -> QueryState] /\ r \in QueryState
  BY DEF LogsInv, TypeOK, CallFits
<1>2. ViewInv'
  BY DEF LogsInv, ViewInv, ViewTypeOK, ChainTypeOK, IsFinal, chainVars, viewVars
<1>3. TypeOK'
  BY <1>1, <1>2 DEF LogsInv, TypeOK, ViewInv, KindsKept, HandedType, HashesFit
<1>4. ASSUME NEW p \in Query PROVE CallOK(p)'
  <2>1. CASE p = q
    BY <1>1, <2>1 DEF CallOK, chainVars
  <2>2. CASE p # q
    BY <1>1, <2>2, OthersFit
  <2>3. QED
    BY <2>1, <2>2
<1>5. QED
  BY <1>2, <1>3, <1>4 DEF LogsInv, chainVars

LEMMA FiltersChange ==
  ASSUME LogsInv, KindsKept, HandedType', HashesFit',
         UNCHANGED <<chainVars, viewVars, safeMode, indexedTo, query>>
  PROVE  LogsInv'
<1>1. ViewInv'
  BY DEF LogsInv, ViewInv, ViewTypeOK, ChainTypeOK, IsFinal, chainVars, viewVars
<1>2. TypeOK'
  BY <1>1 DEF LogsInv, TypeOK, ViewInv, KindsKept, HandedType, HashesFit
<1>3. QED
  BY <1>1, <1>2, OthersFit DEF LogsInv, chainVars

LEMMA Excusing ==
  ASSUME LogsInv, NEW f \in Filter, NEW lost, Excuse(f, lost)
  PROVE  HandedType'
  BY DEF LogsInv, TypeOK, HandedType, Excuse

-----------------------------------------------------------------------------
LEMMA AskedFits ==
  ASSUME LogsInv, ViewReady, NEW of \in Filter \cup {Client},
         NEW from \in 0 .. MaxHeight + 1, NEW to \in Height,
         NEW waits \in SUBSET {"indexer", "height", "cache", "hashes"},
         NEW flt, of \in Filter => flt[of].kind # "none",
         \/ waits = {"indexer", "height"}
         \/ waits = {"hashes"} /\ of \in Filter /\ flt[of].kind = "blocks"
  PROVE  CallFits(Asked(of, from, to, waits), Ancestors[finalizedHead],
                  Number[finalizedHead], indexedTo, flt)
<1> DEFINE r == Asked(of, from, to, waits)
<1>1. /\ FinalizedBlockNumber \in Height /\ Number[finalizedHead] \in Height
      /\ FinalizedBlockNumber <= Number[finalizedHead]
  BY HeightsOfView DEF LogsInv
<1>2. /\ TargetBlock(to) \in Height
      /\ TargetBlock(to) <= to /\ TargetBlock(to) <= Number[finalizedHead]
  <2>1. to \in Int /\ FinalizedBlockNumber \in Int
    BY <1>1, BlockHeights DEF Height
  <2>2. /\ TargetBlock(to) \in {to, FinalizedBlockNumber}
        /\ TargetBlock(to) <= to /\ TargetBlock(to) <= FinalizedBlockNumber
    BY <2>1, MinOfTwo, Zenon DEF TargetBlock
  <2>3. TargetBlock(to) \in Height
    BY <1>1, <2>2
  <2>4. QED
    BY <1>1, <2>2, <2>3, BlockHeights DEF Height
<1>3. 0 \in Height /\ indexedTo \in Nat /\ indexedTo \in Height
  BY BlockHeights DEF Height, LogsInv, TypeOK
<1>4. r \in QueryState
  BY <1>2, <1>3 DEF Asked, QueryState
<1>5. of # NoOne
  BY LogsAssumption, Zenon
<1>6. r.of # NoOne /\ ForLogsOf(r, flt) => Halves(r, Ancestors[finalizedHead])
  BY DEF Asked, ForLogsOf, Halves
<1>7. QED
  BY <1>2, <1>3, <1>4, <1>5, <1>6 DEF CallFits, Asked

LEMMA MadeAndRemoved ==
  ASSUME LogsInv, NEW f \in Filter,
         \/ \E r \in Ranges : AddPollFilter(f, "logs", r[1], r[2])
         \/ AddPollFilter(f, "blocks", 0, 0)
         \/ RemovePollFilter(f)
  PROVE  LogsInv'
<1>1. 0 \in Height /\ filter \in [Filter -> FilterState] /\ HandedType
  BY BlockHeights DEF Height, LogsInv, TypeOK, HandedType
<1>2. ASSUME NEW kind \in {"logs", "blocks"}, NEW from \in Height, NEW to \in Height,
             AddPollFilter(f, kind, from, to)
      PROVE  LogsInv'
  <2>1. GetBlockNumber \in Height
    BY <1>2, HeightsOfView DEF LogsInv, AddPollFilter
  <2>2. KindsKept
    BY <1>1, <1>2, <2>1 DEF AddPollFilter, KindsKept, FilterState
  <2>3. HandedType'
    BY <1>1, <1>2 DEF AddPollFilter, HandedType
  <2>4. QED
    BY <1>2, <2>2, <2>3, FiltersChange, SameHashes DEF AddPollFilter
<1>3. CASE RemovePollFilter(f)
  <2>1. KindsKept
    BY <1>1, <1>3 DEF RemovePollFilter, KindsKept, FilterState, NoFilter
  <2>2. HandedType'
    BY <1>1, <1>3 DEF RemovePollFilter, HandedType
  <2>3. QED
    BY <1>3, <2>1, <2>2, FiltersChange, SameHashes DEF RemovePollFilter
<1>4. ASSUME NEW r \in Ranges PROVE r[1] \in Height /\ r[2] \in Height
  <2>1. r \in (0 .. MaxHeight) \X (0 .. MaxHeight)
    BY LogsAssumption
  <2>2. QED
    BY <2>1 DEF Height
<1>5. QED
  BY <1>1, <1>2, <1>3, <1>4

LEMMA Unmoved ==
  ASSUME LogsInv, UNCHANGED filter
  PROVE  KindsKept
  BY DEF LogsInv, TypeOK, KindsKept

LEMMA Calls ==
  ASSUME LogsInv, NEW q \in Query,
         \/ \E r \in CallRanges : GetLogs(q, r[1], r[2])
         \/ \E f \in Filter : PollLogs(q, f) \/ PollBlocks(q, f)
  PROVE  LogsInv'
<1>1. filter \in [Filter -> FilterState] /\ HandedType
  BY DEF LogsInv, TypeOK, HandedType
<1>2. ASSUME NEW r \in CallRanges, GetLogs(q, r[1], r[2]) PROVE LogsInv'
  <2>1. r \in (0 .. MaxHeight) \X (0 .. MaxHeight)
    BY LogsAssumption
  <2>2. r[1] \in 0 .. MaxHeight + 1 /\ r[2] \in Height
    BY <2>1, BlockHeights DEF Height
  <2>3. Client \notin Filter
    BY LogsAssumption, Zenon
  <2>4. CallFits(Asked(Client, r[1], r[2], {"indexer", "height"}), Ancestors[finalizedHead],
                 Number[finalizedHead], indexedTo, filter')
    BY <1>2, <2>2, <2>3, AskedFits DEF GetLogs
  <2>5. QED
    BY <1>1, <1>2, <2>4, Unmoved, OneCall, SameHashes DEF GetLogs, Call, HandedType
<1>3. ASSUME NEW f \in Filter, PollLogs(q, f) PROVE LogsInv'
  <2>1. GetBlockNumber \in Height /\ ViewReady
    BY <1>3, HeightsOfView DEF LogsInv, PollLogs
  <2>2. filter[f].from \in Height /\ filter[f].to \in Height /\ filter[f].position \in Height
    BY <1>1 DEF FilterState
  <2>3. EffectiveFrom(f) \in 0 .. MaxHeight + 1
    <3>1. filter[f].from \in Int /\ filter[f].position + 1 \in Int
      BY <2>2, BlockHeights DEF Height
    <3>2. EffectiveFrom(f) \in {filter[f].from, filter[f].position + 1}
      BY <3>1, MaxOfTwo, Zenon DEF EffectiveFrom
    <3>3. QED
      BY <2>2, <3>2, BlockHeights DEF Height
  <2>4. EffectiveTo(f) \in Height
    <3>1. filter[f].to \in Int /\ GetBlockNumber \in Int
      BY <2>1, <2>2, BlockHeights DEF Height
    <3>2. EffectiveTo(f) \in {filter[f].to, GetBlockNumber}
      BY <3>1, MinOfTwo, Zenon DEF EffectiveTo
    <3>3. QED
      BY <2>1, <2>2, <3>2
  <2>5. KindsKept /\ filter'[f].kind = "logs"
    BY <1>1, <1>3, <2>1 DEF PollLogs, KindsKept, FilterState
  <2>6. CallFits(Asked(f, EffectiveFrom(f), EffectiveTo(f), {"indexer", "height"}),
                 Ancestors[finalizedHead], Number[finalizedHead], indexedTo, filter')
    BY <2>1, <2>3, <2>4, <2>5, AskedFits
  <2>7. HandedType'
    BY <1>3, Excusing DEF PollLogs
  <2>8. QED
    BY <1>3, <2>5, <2>6, <2>7, OneCall, SameHashes DEF PollLogs, Call
<1>4. ASSUME NEW f \in Filter, PollBlocks(q, f) PROVE LogsInv'
  <2>1. GetBlockNumber \in Height /\ ViewReady
    BY <1>4, HeightsOfView DEF LogsInv, PollBlocks
  <2>2. FirstNewBlock(f) \in 0 .. MaxHeight + 1
    BY <1>1, BlockHeights DEF FilterState, FirstNewBlock, Height
  <2>3. KindsKept /\ filter'[f].kind = "blocks"
    BY <1>1, <1>4, <2>1 DEF PollBlocks, KindsKept, FilterState
  <2>4. CallFits(Asked(f, FirstNewBlock(f), GetBlockNumber, {"hashes"}),
                 Ancestors[finalizedHead], Number[finalizedHead], indexedTo, filter')
    BY <2>1, <2>2, <2>3, AskedFits
  <2>5. HandedType'
    BY <1>4, Excusing DEF PollBlocks
  <2>6. QED
    BY <1>4, <2>3, <2>4, <2>5, OneCall, SameHashes DEF PollBlocks, Call
<1>5. QED
  BY <1>2, <1>3, <1>4

-----------------------------------------------------------------------------
(* The first half: what the indexer has of the range. *)
LEMMA IndexerHalf ==
  ASSUME LogsInv, NEW q \in Query, IndexerLogs(q)
  PROVE  LogsInv'
<1> DEFINE has == {b \in WithTxs : IsFinal(b) /\ Number[b] <= indexedTo
                                    /\ Within(b, query[q].from, query[q].to)}
           r == [query[q] EXCEPT !.waits = query[q].waits \ {"indexer"},
                                 !.seen = indexedTo, !.byIndexer = has]
<1>1. /\ query \in [Query -> QueryState] /\ query[q] \in QueryState
      /\ indexedTo \in Height /\ HandedType
      /\ CallFits(query[q], Ancestors[finalizedHead], Number[finalizedHead], indexedTo, filter)
  BY DEF LogsInv, TypeOK, CallOK, HandedType
<1>2. query' = [query EXCEPT ![q] = r]
  BY <1>1 DEF IndexerLogs, QueryState
<1>3. has \subseteq Block
  <2>1. WithTxs \subseteq Block
    BY LogsAssumption, Zenon
  <2>2. QED
    BY <2>1
<1>4. r \in QueryState
  BY <1>1, <1>3 DEF QueryState
<1>5. query[q].of # NoOne
  BY <1>1 DEF IndexerLogs, CallFits
<1>6. \A b \in WithTxs \cap Ancestors[finalizedHead] :
        Within(b, r.from, r.to) /\ Number[b] <= r.seen => b \in r.byIndexer
  BY <1>1 DEF QueryState, IsFinal
<1>7. /\ r.of = query[q].of /\ r.target = query[q].target /\ r.to = query[q].to
      /\ r.from = query[q].from /\ r.height = query[q].height
      /\ r.byCache = query[q].byCache /\ r.gap = query[q].gap
      /\ r.start = query[q].start /\ r.memo = query[q].memo
      /\ r.seen = indexedTo /\ r.byIndexer = has
      /\ r.waits = query[q].waits \ {"indexer"}
  BY <1>1 DEF QueryState
<1>8. ForLogsOf(r, filter) /\ r.of # NoOne => Halves(r, Ancestors[finalizedHead])
  <2>1. ForLogsOf(r, filter) /\ r.of # NoOne => Halves(query[q], Ancestors[finalizedHead])
    BY <1>1, <1>7 DEF CallFits, ForLogsOf
  <2>2. r.waits \cap {"height", "cache"} = query[q].waits \cap {"height", "cache"}
    BY <1>7
  <2>3. Abandoned(r, Ancestors[finalizedHead]) = Abandoned(query[q], Ancestors[finalizedHead])
    BY <1>7 DEF Abandoned
  <2>4. r.start <= r.seen /\ ("cache" \in r.waits <=> "cache" \in query[q].waits)
    BY <1>1, <1>7 DEF CallFits
  <2>5. QED
    BY <1>6, <1>7, <2>1, <2>2, <2>3, <2>4 DEF Halves
<1>9. CallFits(r, Ancestors[finalizedHead], Number[finalizedHead], indexedTo, filter)
  <2>1. r.seen <= indexedTo
    BY <1>1, <1>7, BlockHeights DEF Height
  <2>2. \A b \in r.byIndexer : b \in Ancestors[finalizedHead] /\ Number[b] <= r.seen
    BY <1>7 DEF IsFinal
  <2>3. r.waits \cap {"height", "cache"} = query[q].waits \cap {"height", "cache"}
    BY <1>7
  <2>4. "indexer" \notin r.waits /\ r.waits \subseteq query[q].waits
    BY <1>7
  <2>5. QED
    BY <1>1, <1>4, <1>5, <1>7, <1>8, <2>1, <2>2, <2>3, <2>4 DEF CallFits
<1>10. QED
  BY <1>1, <1>2, <1>9, Unmoved, OneCall, SameHashes DEF IndexerLogs, HandedType

LEMMA HeightRead ==
  ASSUME LogsInv, NEW q \in Query, LastProcessedHeight(q)
  PROVE  LogsInv'
<1> DEFINE m == {queryCache[n] : n \in Memo \cap (FirstMissedHeight(indexedTo) .. query[q].target)}
                  \ {NoBlock}
           r == [query[q] EXCEPT !.waits = (query[q].waits \ {"height"}) \cup {"cache"},
                                 !.height = indexedTo, !.memo = m]
<1>1. /\ query \in [Query -> QueryState] /\ query[q] \in QueryState
      /\ indexedTo \in Height /\ HandedType
      /\ CallFits(query[q], Ancestors[finalizedHead], Number[finalizedHead], indexedTo, filter)
  BY DEF LogsInv, TypeOK, CallOK, HandedType
<1>2. query' = [query EXCEPT ![q] = r]
  BY <1>1 DEF LastProcessedHeight, QueryState
<1>3. /\ m \subseteq Block /\ indexedTo \in Nat /\ query[q].target \in Nat
      /\ \A b \in m : indexedTo < Number[b] /\ Number[b] <= query[q].target
  <2>1. indexedTo \in Nat /\ query[q].target \in Nat
    BY <1>1, BlockHeights DEF QueryState, Height
  <2>2. ASSUME NEW n \in Memo \cap (FirstMissedHeight(indexedTo) .. query[q].target),
               queryCache[n] # NoBlock
        PROVE  /\ queryCache[n] \in Block
               /\ indexedTo < Number[queryCache[n]] /\ Number[queryCache[n]] <= query[q].target
    BY <2>1, <2>2 DEF LogsInv, HashesFit, FirstMissedHeight
  <2>3. QED
    BY <2>1, <2>2
<1> HIDE DEF m
<1>4. r \in QueryState
  BY <1>1, <1>3 DEF QueryState
<1>5. /\ r.start = query[q].start /\ r.memo = m
      /\ r.of = query[q].of /\ r.target = query[q].target /\ r.to = query[q].to
      /\ r.from = query[q].from /\ r.seen = query[q].seen
      /\ r.byCache = query[q].byCache /\ r.byIndexer = query[q].byIndexer
      /\ r.height = indexedTo /\ r.gap = query[q].gap
      /\ r.waits = (query[q].waits \ {"height"}) \cup {"cache"}
  BY <1>1 DEF QueryState
<1>6. /\ "cache" \in r.waits
      /\ "indexer" \in r.waits <=> "indexer" \in query[q].waits
      /\ "hashes" \in r.waits <=> "hashes" \in query[q].waits
      /\ r.byCache = {} /\ query[q].of # NoOne
  BY <1>1, <1>5 DEF LastProcessedHeight, CallFits
<1>7. ForLogsOf(r, filter) /\ r.of # NoOne => Halves(r, Ancestors[finalizedHead])
  <2>1. ForLogsOf(r, filter) /\ r.of # NoOne => Halves(query[q], Ancestors[finalizedHead])
    BY <1>1, <1>5 DEF CallFits, ForLogsOf
  <2>2. r.waits \cap {"height", "cache"} # {}
    BY <1>6
  <2>3. r.start <= r.height
    BY <1>1, <1>5 DEF CallFits
  <2>4. QED
    BY <1>5, <1>6, <2>1, <2>2, <2>3 DEF Halves
<1>8. CallFits(r, Ancestors[finalizedHead], Number[finalizedHead], indexedTo, filter)
  <2>1. r.height <= indexedTo
    BY <1>1, <1>5, BlockHeights DEF Height
  <2>2. QED
    BY <1>1, <1>3, <1>4, <1>5, <1>6, <1>7, <2>1 DEF CallFits
<1>9. QED
  BY <1>1, <1>2, <1>8, Unmoved, OneCall, SameHashes DEF LastProcessedHeight, HandedType

(* The second half: what the cache has of the heights the indexer has not  *)
(* reached.  They are final, so the hashes the node gives for them are     *)
(* those of final blocks.                                                  *)
LEMMA NodeTells ==
  ASSUME LogsInv, NEW n \in Nat, n <= Number[finalizedHead], CanonicalHash(n) # NoBlock
  PROVE  /\ CanonicalHash(n) \in Ancestors[finalizedHead] /\ CanonicalHash(n) \in Block
         /\ Number[CanonicalHash(n)] = n
<1>1. At(n, CanonicalHash(n)) /\ ViewInv
  BY DEF CanonicalHash, At, LogsInv
<1>2. IsFinal(CanonicalHash(n))
  BY <1>1, FinalHeight
<1>3. QED
  BY <1>1, <1>2, HeightsOfView, AncestorsOfBlock DEF IsFinal, At

LEMMA NodeTellsFinal ==
  ASSUME LogsInv, NEW b \in Ancestors[finalizedHead]
  PROVE  CanonicalHash(Number[b]) = b
<1>1. ViewInv /\ finalizedHead \in Block /\ bestHead \in Block /\ finalizedHead \in Ancestors[bestHead]
  BY DEF LogsInv, ViewInv, ViewTypeOK, ChainTypeOK
<1>2. b \in Ancestors[bestHead]
  BY <1>1, AncestorsOfBlock
<1>3. CanonicalHash(Number[b]) \in Ancestors[bestHead]
      /\ Number[CanonicalHash(Number[b])] = Number[b]
  BY <1>2 DEF CanonicalHash
<1>4. QED
  BY <1>1, <1>2, <1>3, OneBlockPerHeight

LEMMA CacheHalf ==
  ASSUME LogsInv, NEW q \in Query, LogsFromCache(q)
  PROVE  LogsInv'
<1> DEFINE missed == query[q].memo \cup {CanonicalHash(n) : n \in AskedFor(q)}
           has == {b \in missed \cap cached : Within(b, query[q].from, query[q].to)}
           lost == {Number[b] : b \in {d \in WithTxs \ cached :
                      IsFinal(d) /\ Within(d, query[q].height + 1, query[q].target)}}
           r == [query[q] EXCEPT !.waits = query[q].waits \ {"cache"},
                                 !.byCache = has, !.gap = lost]
<1>1. /\ query \in [Query -> QueryState] /\ query[q] \in QueryState /\ HandedType
      /\ CallFits(query[q], Ancestors[finalizedHead], Number[finalizedHead], indexedTo, filter)
      /\ ViewInv /\ HashesFit
  BY DEF LogsInv, TypeOK, CallOK, HandedType
<1>2. query' = [query EXCEPT ![q] = r]
  BY <1>1 DEF LogsFromCache, QueryState
<1>3. /\ query[q].height \in Nat /\ query[q].target \in Nat /\ query[q].to \in Nat
      /\ query[q].from \in Nat /\ query[q].target <= Number[finalizedHead]
      /\ query[q].target <= query[q].to /\ Number[finalizedHead] \in Nat
  BY <1>1, HeightsOfView, BlockHeights DEF QueryState, Height, CallFits
<1>4. ASSUME NEW n \in AskedFor(q)
       PROVE  /\ n \in Nat /\ query[q].height < n /\ n <= Number[finalizedHead]
              /\ CanonicalHash(n) # NoBlock =>
                   /\ CanonicalHash(n) \in Ancestors[finalizedHead]
                   /\ CanonicalHash(n) \in Block /\ Number[CanonicalHash(n)] = n
  <2>1. n \in Nat /\ query[q].height < n /\ n <= Number[finalizedHead]
    BY <1>3, <1>4 DEF AskedFor, FirstMissedHeight
  <2>2. QED
    BY <2>1, NodeTells
<1>5. ASSUME NEW b \in missed \cap cached
      PROVE  b \in Ancestors[finalizedHead] \cup query[q].memo /\ query[q].height < Number[b]
  <2>1. CASE b \in query[q].memo
    BY <1>1, <2>1 DEF CallFits
  <2>2. CASE b \notin query[q].memo
    <3>1. PICK n \in AskedFor(q) : b = CanonicalHash(n)
      BY <1>5, <2>2
    <3>2. b # NoBlock
      BY <1>1, <1>5, TreeAssumption DEF ViewInv, ViewTypeOK, ChainTypeOK
    <3>3. QED
      BY <1>4, <3>1, <3>2
  <2>3. QED
    BY <2>1, <2>2
<1>6. ASSUME NEW b \in WithTxs \cap Ancestors[finalizedHead],
             Within(b, query[q].from, query[q].target), query[q].height < Number[b],
             Number[b] \notin lost \cup Abandoned(query[q], Ancestors[finalizedHead])
      PROVE  b \in has
  <2>1. b \in Block /\ Number[b] \in Nat
    BY HeightsOfView, AncestorsOfBlock, <1>1
  <2>2. Within(b, query[q].height + 1, query[q].target)
    BY <1>3, <1>6, <2>1 DEF Within
  <2>3. b \in cached
    BY <1>6, <2>2 DEF IsFinal
  <2>4. b \in missed
    <3>1. CASE \E d \in query[q].memo : Number[d] = Number[b]
      <4>1. PICK d \in query[q].memo : Number[d] = Number[b]
        BY <3>1
      <4>2. d \in Ancestors[finalizedHead]
        BY <1>6, <4>1 DEF Abandoned
      <4>3. d = b
        BY <1>1, <4>1, <4>2, HeightsOfView, OneBlockPerHeight
      <4>4. QED
        BY <4>1, <4>3
    <3>2. CASE ~\E d \in query[q].memo : Number[d] = Number[b]
      <4>1. Number[b] \in AskedFor(q)
        BY <1>3, <1>6, <2>1, <3>2 DEF AskedFor, FirstMissedHeight, Within
      <4>2. CanonicalHash(Number[b]) = b
        BY NodeTellsFinal
      <4>3. QED
        BY <4>1, <4>2
    <3>3. QED
      BY <3>1, <3>2
  <2>5. Within(b, query[q].from, query[q].to)
    BY <1>3, <1>6, <2>1 DEF Within
  <2>6. QED
    BY <2>3, <2>4, <2>5
<1>7. has \subseteq Block /\ lost \subseteq Height
  <2>1. WithTxs \subseteq Block
    BY LogsAssumption, Zenon
  <2>2. cached \subseteq Block
    BY <1>1 DEF ViewInv, ViewTypeOK, ChainTypeOK
  <2>3. QED
    BY <2>1, <2>2, BlockHeights
<1>8. r \in QueryState
  BY <1>1, <1>7 DEF QueryState
<1>9. /\ r.of = query[q].of /\ r.target = query[q].target /\ r.to = query[q].to
      /\ r.from = query[q].from /\ r.seen = query[q].seen /\ r.height = query[q].height
      /\ r.start = query[q].start /\ r.memo = query[q].memo
      /\ r.byCache = has /\ r.byIndexer = query[q].byIndexer /\ r.gap = lost
      /\ r.waits = query[q].waits \ {"cache"}
  BY <1>1 DEF QueryState
<1> HIDE DEF r, has, lost
<1>10. /\ "indexer" \in r.waits <=> "indexer" \in query[q].waits
      /\ "hashes" \in r.waits <=> "hashes" \in query[q].waits
      /\ query[q].of # NoOne /\ "cache" \in query[q].waits /\ "cache" \notin r.waits
  BY <1>1, <1>9 DEF LogsFromCache, CallFits
<1>11. ForLogsOf(r, filter) /\ r.of # NoOne => Halves(r, Ancestors[finalizedHead])
  <2>1. ForLogsOf(r, filter) /\ r.of # NoOne => Halves(query[q], Ancestors[finalizedHead])
    BY <1>1, <1>9 DEF CallFits, ForLogsOf
  <2>2. Abandoned(r, Ancestors[finalizedHead]) = Abandoned(query[q], Ancestors[finalizedHead])
    BY <1>9 DEF Abandoned
  <2>3. QED
    BY <1>6, <1>9, <1>10, <2>1, <2>2 DEF Halves
<1>12. r.waits \cap {"height", "cache"} # {} => r.byCache = {}
  BY <1>9, <1>1 DEF LogsFromCache, CallFits
<1>13. CallFits(r, Ancestors[finalizedHead], Number[finalizedHead], indexedTo, filter)
  <2>1. \A b \in r.byCache : b \in Ancestors[finalizedHead] \cup r.memo /\ r.height < Number[b]
    BY <1>5, <1>9 DEF has
  <2>2. QED
    BY <1>1, <1>8, <1>9, <1>10, <1>11, <1>12, <2>1 DEF CallFits
<1>14. HashesFit'
  <2>1. replies' = replies
        /\ queryCache' = [n \in Memo |->
             IF n \in AskedFor(q) /\ n <= FinalizedBlockNumber
             THEN CanonicalHash(n) ELSE queryCache[n]]
    BY DEF LogsFromCache
  <2>2. \A n \in Memo : queryCache'[n] \in Block \cup {NoBlock}
                        /\ (queryCache'[n] # NoBlock => Number[queryCache'[n]] = n)
    BY <1>1, <1>4, <2>1 DEF HashesFit
  <2>3. QED
    BY <1>1, <2>1, <2>2 DEF HashesFit
<1>15. QED
  BY <1>1, <1>2, <1>13, <1>14, Unmoved, OneCall DEF LogsFromCache, HandedType

(* Other calls ask for hashes and use them, and the query cache forgets.   *)
LEMMA HashesMove ==
  ASSUME LogsInv,
         (\E n \in Memo : NodeHashes(n) \/ Forget(n)) \/ \E b \in Block : HashKnown(b)
  PROVE  LogsInv'
<1>1. UNCHANGED <<chainVars, viewVars, safeMode, indexedTo, filter, query, handed>> /\ HandedType
  BY DEF NodeHashes, Forget, HashKnown, LogsInv, TypeOK, HandedType
<1>2. HashesFit /\ bestHead \in Block
  BY DEF LogsInv, ViewInv, ViewTypeOK, ChainTypeOK
<1>3. HashesFit'
  <2>1. ASSUME NEW n \in Memo, NodeHashes(n) PROVE HashesFit'
    <3>1. CanonicalHash(n) # NoBlock => CanonicalHash(n) \in Block
      BY <1>2, AncestorsOfBlock DEF CanonicalHash
    <3>2. QED
      BY <1>2, <2>1, <3>1 DEF NodeHashes, HashesFit
  <2>2. ASSUME NEW n \in Memo, Forget(n) PROVE HashesFit'
    BY <1>2, <2>2 DEF Forget, HashesFit
  <2>3. ASSUME NEW b \in Block, HashKnown(b) PROVE HashesFit'
    BY <1>2, <2>3 DEF HashKnown, HashesFit
  <2>4. QED
    BY <2>1, <2>2, <2>3
<1>4. QED
  BY <1>1, <1>3, Unmoved, FiltersChange DEF HandedType

LEMMA HashesCome ==
  ASSUME LogsInv, NEW q \in Query, BlockHashes(q)
  PROVE  LogsInv'
<1> DEFINE r == [query[q] EXCEPT !.waits = {}]
<1>1. /\ query \in [Query -> QueryState] /\ query[q] \in QueryState /\ HandedType
      /\ CallFits(query[q], Ancestors[finalizedHead], Number[finalizedHead], indexedTo, filter)
  BY DEF LogsInv, TypeOK, CallOK, HandedType
<1>2. query' = [query EXCEPT ![q] = r]
  BY <1>1 DEF BlockHashes, QueryState
<1>3. r \in QueryState
  BY <1>1 DEF QueryState
<1>4. /\ r.of = query[q].of /\ r.target = query[q].target /\ r.to = query[q].to
      /\ r.from = query[q].from /\ r.seen = query[q].seen /\ r.height = query[q].height
      /\ r.byCache = query[q].byCache /\ r.byIndexer = query[q].byIndexer
      /\ r.start = query[q].start /\ r.memo = query[q].memo
      /\ r.waits = {}
  BY <1>1 DEF QueryState
<1>5. ~ForLogsOf(r, filter)
  BY <1>1, <1>4 DEF BlockHashes, CallFits, ForLogsOf
<1>6. CallFits(r, Ancestors[finalizedHead], Number[finalizedHead], indexedTo, filter)
  BY <1>1, <1>3, <1>4, <1>5 DEF CallFits
<1>7. QED
  BY <1>1, <1>2, <1>6, Unmoved, OneCall, SameHashes DEF BlockHashes, HandedType

LEMMA Ends ==
  ASSUME LogsInv, NEW q \in Query, Answer(q) \/ Fail(q)
  PROVE  LogsInv'
<1>1. HandedType /\ indexedTo \in Nat /\ Number[finalizedHead] \in Nat
  BY HeightsOfView, BlockHeights DEF LogsInv, TypeOK, HandedType, Height
<1>2. CallFits(NoCall, Ancestors[finalizedHead], Number[finalizedHead], indexedTo, filter')
  BY <1>1, NoCallFits
<1>3. UNCHANGED <<chainVars, viewVars, hashVars, safeMode, indexedTo, filter>>
      /\ query' = [query EXCEPT ![q] = NoCall]
  BY DEF Answer, Fail
<1>4. CASE Fail(q)
  <2>1. HandedType'
    BY <1>1, <1>4, Excusing DEF Fail, ForFilter, HandedType
  <2>2. QED
    BY <1>2, <1>3, <2>1, Unmoved, OneCall, SameHashes
<1>5. CASE Answer(q)
  <2>1. \A n \in Height : Given(q, n) \in {0, 1, 2}
    BY DEF Given, Copies, In
  <2>2. \A n \in Height, k \in {0, 1, 2} : Min({2, k + Given(q, n)}) \in {0, 1, 2}
    <3>1. SUFFICES ASSUME NEW n \in Height, NEW k \in {0, 1, 2}
                   PROVE  Min({2, k + Given(q, n)}) \in {0, 1, 2}
      OBVIOUS
    <3>2. k + Given(q, n) \in {0, 1, 2, 3, 4} /\ k + Given(q, n) \in Int /\ 2 \in Int
      BY <2>1
    <3>3. /\ Min({2, k + Given(q, n)}) \in {2, k + Given(q, n)}
          /\ Min({2, k + Given(q, n)}) <= 2
      BY <3>2, MinOfTwo, Zenon
    <3>4. QED
      BY <3>2, <3>3
  <2>3. CASE ForFilter(q)
    <3> DEFINE f == query[q].of
               new == [n \in Height |->
                  IF handed[f][n] = Excused \/ (n \in InRange(q) /\ Lost(q, n)) THEN Excused
                  ELSE Min({2, handed[f][n] + Given(q, n)})]
    <3>1. f \in Filter /\ handed' = [handed EXCEPT ![f] = new]
      BY <1>5, <2>3 DEF Answer, ForFilter
    <3>2. \A n \in Height : handed[f][n] = Excused \/ handed[f][n] \in {0, 1, 2}
      BY <1>1, <3>1 DEF HandedType
    <3>3. \A n \in Height : new[n] \in {0, 1, 2, Excused}
      BY <2>2, <3>2
    <3>4. QED
      BY <1>1, <1>2, <1>3, <3>1, <3>3, Unmoved, OneCall, SameHashes DEF HandedType
  <2>4. CASE ~ForFilter(q)
    BY <1>1, <1>2, <1>3, <1>5, <2>4, Unmoved, OneCall, SameHashes DEF HandedType, Answer
  <2>5. QED
    BY <2>3, <2>4
<1>6. QED
  BY <1>4, <1>5

-----------------------------------------------------------------------------
LEMMA ChainMoves ==
  ASSUME LogsInv, Index \/ ViewStep
  PROVE  LogsInv'
<1>1. /\ UNCHANGED <<hashVars, safeMode, filter, query, handed>>
      /\ [ViewNext]_<<chainVars, viewVars>>
  BY DEF Index, ViewStep, chainVars, viewVars
<1>2. KindsKept
  BY <1>1, Unmoved
<1>3. /\ ViewInv' /\ Number[finalizedHead] <= Number[finalizedHead']
      /\ Number[finalizedHead] \in Nat /\ Number[finalizedHead'] \in Height
  <2>1. /\ ViewInv' /\ Number[finalizedHead] <= Number[finalizedHead']
        /\ Number[finalizedHead] \in Nat
    BY <1>1, FinalFacts DEF LogsInv
  <2>2. finalizedHead' \in Block
    BY <2>1 DEF ViewInv, ViewTypeOK, ChainTypeOK
  <2>3. QED
    BY <2>1, <2>2, BlockHeights
<1>4. /\ indexedTo \in Nat /\ indexedTo' \in Nat /\ indexedTo <= indexedTo'
      /\ indexedTo <= Number[finalizedHead] /\ indexedTo' <= Number[finalizedHead']
  BY <1>3, BlockHeights DEF Index, ViewStep, LogsInv, TypeOK, Height, chainVars
<1>5. indexedTo' \in Height
  BY <1>3, <1>4, BlockHeights DEF Height
<1>6. TypeOK' /\ HashesFit'
  BY <1>1, <1>3, <1>5, SameHashes DEF LogsInv, TypeOK, ViewInv, hashVars
<1>7. ASSUME NEW q \in Query PROVE CallOK(q)'
  <2>1. CallFits(query[q], Ancestors[finalizedHead'], Number[finalizedHead'], indexedTo', filter')
    BY <1>1, <1>2, <1>4, FinalFacts, FitsLater DEF LogsInv, CallOK, KindsKept
  <2>2. QED
    BY <1>1, <2>1 DEF CallOK
<1>8. QED
  BY <1>3, <1>4, <1>6, <1>7 DEF LogsInv

(* Whatever chain, indexer and cache do between its steps, each half of a  *)
(* call holds what CallFits says (getLogs and the polls).                  *)
THEOREM LogsInvariant == Spec => []LogsInv
<1>1. Init => LogsInv
  BY LogsInit
<1>2. LogsInv /\ [Next]_vars => LogsInv'
  <2>1. SUFFICES ASSUME LogsInv, [Next]_vars PROVE LogsInv'
    OBVIOUS
  <2>2. CASE UNCHANGED vars
    <3>1. KindsKept /\ HandedType'
      BY <2>1, <2>2, Unmoved DEF LogsInv, TypeOK, HandedType, vars
    <3>2. QED
      BY <2>1, <2>2, <3>1, FiltersChange, SameHashes DEF vars
  <2>3. CASE Next
    BY <2>1, <2>3, ChainMoves, MadeAndRemoved, Calls, IndexerHalf, HeightRead, CacheHalf,
       HashesMove, HashesCome, Ends
    DEF Next
  <2>4. QED
    BY <2>1, <2>2, <2>3
<1>3. QED
  BY <1>1, <1>2, PTL DEF Spec

(* The types of the filters, the calls and the history. *)
THEOREM TypeCorrect == Spec => []TypeOK
<1>1. LogsInv => TypeOK
  BY DEF LogsInv
<1>2. QED
  BY <1>1, LogsInvariant, PTL

(* No answer in the making holds a log of a block that may still be        *)
(* abandoned, nor of an abandoned one that the query cache did not name.   *)
THEOREM AnswersAreFinal == Spec => []OnlyFinalLogs
<1>1. LogsInv => OnlyFinalLogs
  <2> SUFFICES ASSUME LogsInv, NEW q \in Query,
                      NEW b \in query[q].byIndexer \cup query[q].byCache, ~IsFinal(b)
               PROVE  b \in query[q].memo /\ Number[b] <= Number[finalizedHead]
    BY DEF OnlyFinalLogs
  <2>1. CallFits(query[q], Ancestors[finalizedHead], Number[finalizedHead], indexedTo, filter)
    BY DEF LogsInv, CallOK
  <2>2. b \in query[q].memo /\ Number[b] <= query[q].target
        /\ query[q].target <= Number[finalizedHead]
    BY <2>1 DEF CallFits, IsFinal
  <2>3. b \in Block /\ query[q].target \in Nat /\ Number[finalizedHead] \in Nat
    BY <2>1, <2>2, HeightsOfView, BlockHeights DEF LogsInv, CallFits, QueryState, Height
  <2>4. QED
    BY <2>2, <2>3, TreeAssumption
<1>2. QED
  BY <1>1, LogsInvariant, PTL

(* What each half of a complete answer has of a final block.               *)
LEMMA Complements ==
  ASSUME LogsInv, NEW q \in Query, Complete(q), NEW b \in WithTxs, ForLogs(q),
         IsFinal(b), Within(b, query[q].from, query[q].target)
  PROVE  /\ {Number[b], query[q].start, query[q].seen, query[q].height} \subseteq Nat
         /\ query[q].start <= query[q].seen /\ query[q].start <= query[q].height
         /\ query[q].seen <= indexedTo /\ query[q].height <= indexedTo
         /\ In(query[q].byIndexer, Number[b]) = IF Number[b] <= query[q].seen THEN 1 ELSE 0
         /\ Number[b] <= query[q].height => In(query[q].byCache, Number[b]) = 0
         /\ query[q].height < Number[b] /\ Number[b] \notin query[q].gap \cup Misled(q) =>
              In(query[q].byCache, Number[b]) = 1
<1> DEFINE r == query[q]
<1>1. CallFits(r, Ancestors[finalizedHead], Number[finalizedHead], indexedTo, filter)
  BY DEF LogsInv, CallOK
<1>2. /\ r \in QueryState /\ finalizedHead \in Block /\ b \in Ancestors[finalizedHead]
      /\ r.waits = {} /\ r.of # NoOne
  BY <1>1, HeightsOfView DEF LogsInv, CallFits, IsFinal, Complete
<1>3. /\ Number[b] \in Nat /\ r.seen \in Nat /\ r.height \in Nat /\ r.from \in Nat
      /\ r.target \in Nat /\ r.to \in Nat /\ r.target <= r.to /\ r.start \in Nat
      /\ r.seen <= indexedTo /\ r.height <= indexedTo
  BY <1>1, <1>2, AncestorsOfBlock, BlockHeights DEF QueryState, Height, CallFits
<1>4. Halves(r, Ancestors[finalizedHead])
  BY <1>1, <1>2 DEF CallFits, ForLogs, ForLogsOf
<1>5. Within(b, r.from, r.to)
  BY <1>3 DEF Within
<1>6. In(r.byIndexer, Number[b]) = IF Number[b] <= r.seen THEN 1 ELSE 0
  BY <1>1, <1>2, <1>3, <1>4, <1>5 DEF CallFits, Halves, In
<1>7. \A d \in r.byCache : d \in Block /\ Number[d] \in Nat /\ r.height < Number[d]
  BY <1>1, <1>2, TreeAssumption DEF CallFits, QueryState
<1>8. Number[b] <= r.height => In(r.byCache, Number[b]) = 0
  BY <1>3, <1>7 DEF In
<1>9. Misled(q) = Abandoned(r, Ancestors[finalizedHead])
  BY DEF Misled, Abandoned, IsFinal
<1>10. r.height < Number[b] /\ Number[b] \notin r.gap \cup Misled(q) => b \in r.byCache
  BY <1>2, <1>4, <1>9 DEF Halves
<1>11. QED
  BY <1>2, <1>3, <1>4, <1>6, <1>8, <1>10 DEF Halves, In

LEMMA MeetsOnce ==
  ASSUME LogsInv, NEW q \in Query, Complete(q), NEW b \in WithTxs, ForLogs(q),
         IsFinal(b), Within(b, query[q].from, query[q].target), ~Lost(q, Number[b])
  PROVE  Copies(q, Number[b]) = 1
<1> Number[b] \notin query[q].gap \cup Misled(q) /\ ~Torn(q, Number[b])
  BY DEF Lost
<1> HIDE DEF Misled, In
<1>1. QED
  BY Complements DEF Copies, Torn

(* A final block that was indexed when the call was made is answered once, *)
(* whatever happens during the call; one that is not yet is too, if the    *)
(* block cache has it and the query cache no other hash for its height.    *)
THEOREM SettledIsOnce == Spec => []SettledOnce
<1>1. LogsInv => SettledOnce
  <2> SUFFICES ASSUME LogsInv, NEW q \in Query, Complete(q), ForLogs(q), NEW b \in WithTxs,
                      IsFinal(b), Within(b, query[q].from, query[q].target),
                      \/ Number[b] <= query[q].start
                      \/ /\ Number[b] > indexedTo
                         /\ Number[b] \notin query[q].gap \cup Misled(q)
               PROVE  Copies(q, Number[b]) = 1
    BY DEF SettledOnce
  <2>1. indexedTo \in Nat
    BY BlockHeights DEF LogsInv, TypeOK, Height
  <2>2. QED
    BY <2>1, Complements DEF Copies
<1>2. QED
  BY <1>1, LogsInvariant, PTL

-----------------------------------------------------------------------------
(* What the filters have been given.  As long as a height is not excused:  *)
(* beyond the position nobody has asked for it, at most one call is out    *)
(* for it and it has not been given yet, and every other one has been.     *)
CalledFor(q, f, n) == query[q].of = f /\ n \in InRange(q)

Ahead(f, n) ==
  n > filter[f].position => handed[f][n] = 0 /\ ~Calling(f, n)

OneCaller(f, n) ==
  \A q \in Query : CalledFor(q, f, n) =>
    /\ handed[f][n] = 0
    /\ filter[f].kind = "logs" => n <= query[q].target
    /\ \A p \in Query : CalledFor(p, f, n) => p = q

BlockGiven(f, n) ==
  /\ filter[f].kind = "blocks"
  /\ filter[f].since < n /\ n <= filter[f].position /\ ~Calling(f, n)
  => handed[f][n] = 1

(* A height that was polled was final then.                                *)
LogsGiven(f, n) ==
  /\ filter[f].kind = "logs"
  /\ filter[f].since < n /\ n <= filter[f].position
  /\ filter[f].from <= n /\ n <= filter[f].to
  => /\ n <= Number[finalizedHead]
     /\ \A b \in WithTxs : IsFinal(b) /\ Number[b] = n /\ ~Calling(f, n) => handed[f][n] = 1

Fits(f, n) == Ahead(f, n) /\ OneCaller(f, n) /\ BlockGiven(f, n) /\ LogsGiven(f, n)

NoneGiven == [n \in Height |-> 0]

FilterFits(f) ==
  /\ filter[f].kind = "none" => ~filter[f].live /\ handed[f] = NoneGiven
  /\ filter[f].live => \A n \in Height : handed[f][n] # Excused => Fits(f, n)

HalvesInRange(q) ==
  \A b \in query[q].byIndexer \cup query[q].byCache : Number[b] \in InRange(q)

GivenInv ==
  /\ \A f \in Filter : FilterFits(f)
  /\ \A q \in Query : HalvesInRange(q)

LEMMA GivenInit == Init => GivenInv
  BY DEF Init, GivenInv, FilterFits, HalvesInRange, NoneGiven, NoFilter, NoCall

(* Whoever calls still does, and for the same.                             *)
SameCalls(f) ==
  \A q \in Query :
    /\ query'[q].of = f <=> query[q].of = f
    /\ query[q].of = f => /\ query'[q].from = query[q].from /\ query'[q].to = query[q].to
                          /\ query'[q].target = query[q].target

LEMMA SameCallsMean ==
  ASSUME NEW f, SameCalls(f)
  PROVE  \A n : /\ Calling(f, n)' <=> Calling(f, n)
                /\ \A q \in Query : CalledFor(q, f, n)' <=> CalledFor(q, f, n)
  BY DEF SameCalls, Calling, CalledFor, InRange

(* Chain and indexer go on, and calls with them: what becomes final is     *)
(* above the heights that were final when they were polled.                *)
LEMMA StillFits ==
  ASSUME LogsInv, NEW f \in Filter, FilterFits(f), SameCalls(f),
         filter'[f] = filter[f], handed'[f] = handed[f],
         Number[finalizedHead] <= Number[finalizedHead'], finalizedHead' \in Block,
         \A b \in Ancestors[finalizedHead'] :
           Number[b] <= Number[finalizedHead] => b \in Ancestors[finalizedHead]
  PROVE  FilterFits(f)'
<1> SUFFICES ASSUME filter[f].live, NEW n \in Height, handed[f][n] # Excused PROVE Fits(f, n)'
  BY DEF FilterFits
<1>1. Fits(f, n)
  BY DEF FilterFits
<1>2. Calling(f, n)' <=> Calling(f, n)
  BY SameCallsMean
<1>3. \A q \in Query : CalledFor(q, f, n)' <=> CalledFor(q, f, n)
  BY SameCallsMean
<1>4. Ahead(f, n)' /\ BlockGiven(f, n)'
  BY <1>1, <1>2 DEF Fits, Ahead, BlockGiven
<1>5. OneCaller(f, n)'
  BY <1>1, <1>3 DEF Fits, OneCaller, SameCalls, CalledFor
<1>6. LogsGiven(f, n)'
  <2> SUFFICES ASSUME filter[f].kind = "logs", filter[f].since < n, n <= filter[f].position,
                      filter[f].from <= n, n <= filter[f].to
               PROVE  /\ n <= Number[finalizedHead']
                      /\ \A b \in WithTxs : IsFinal(b)' /\ Number[b] = n /\ ~Calling(f, n)'
                           => handed[f][n] = 1
    BY DEF LogsGiven
  <2>1. n <= Number[finalizedHead] /\ n \in Nat
    BY <1>1, BlockHeights DEF Fits, LogsGiven, Height
  <2>2. Number[finalizedHead] \in Nat /\ Number[finalizedHead'] \in Nat
    BY HeightsOfView, BlockHeights DEF LogsInv, Height
  <2>3. \A b \in WithTxs : IsFinal(b)' /\ Number[b] = n => IsFinal(b)
    BY <2>1 DEF IsFinal
  <2>4. QED
    BY <1>1, <1>2, <2>1, <2>2, <2>3 DEF Fits, LogsGiven
<1>7. QED
  BY <1>4, <1>5, <1>6 DEF Fits

LEMMA UnmovedChain ==
  ASSUME LogsInv, UNCHANGED chainVars
  PROVE  /\ Number[finalizedHead] <= Number[finalizedHead'] /\ finalizedHead' \in Block
         /\ \A b \in Ancestors[finalizedHead'] :
              Number[b] <= Number[finalizedHead] => b \in Ancestors[finalizedHead]
  BY HeightsOfView, BlockHeights DEF LogsInv, chainVars, Height

LEMMA GivenWhenChainMoves ==
  ASSUME LogsInv, GivenInv, Index \/ ViewStep
  PROVE  GivenInv'
<1>1. UNCHANGED <<filter, query, handed>> /\ [ViewNext]_<<chainVars, viewVars>>
  BY DEF Index, ViewStep, chainVars, viewVars
<1>2. /\ Number[finalizedHead] <= Number[finalizedHead'] /\ finalizedHead' \in Block
      /\ \A b \in Ancestors[finalizedHead'] :
           Number[b] <= Number[finalizedHead] => b \in Ancestors[finalizedHead]
  BY <1>1, FinalFacts DEF LogsInv, ViewInv, ViewTypeOK, ChainTypeOK
<1>3. ASSUME NEW f \in Filter PROVE FilterFits(f)'
  BY <1>1, <1>2, StillFits DEF GivenInv, SameCalls
<1>4. ASSUME NEW q \in Query PROVE HalvesInRange(q)'
  BY <1>1 DEF GivenInv, HalvesInRange, InRange
<1>5. QED
  BY <1>3, <1>4 DEF GivenInv

LEMMA GivenWhenHashesMove ==
  ASSUME LogsInv, GivenInv,
         (\E n \in Memo : NodeHashes(n) \/ Forget(n)) \/ \E b \in Block : HashKnown(b)
  PROVE  GivenInv'
<1>1. UNCHANGED <<chainVars, filter, query, handed>>
  BY DEF NodeHashes, Forget, HashKnown
<1>2. ASSUME NEW f \in Filter PROVE FilterFits(f)'
  BY <1>1, UnmovedChain, StillFits DEF GivenInv, SameCalls
<1>3. QED
  BY <1>1, <1>2 DEF GivenInv, HalvesInRange, InRange

(* The turns of a call between its start and its end.                      *)
LEMMA GivenWhileCalling ==
  ASSUME LogsInv, LogsInv', GivenInv, NEW q \in Query,
         IndexerLogs(q) \/ LastProcessedHeight(q) \/ LogsFromCache(q) \/ BlockHashes(q)
  PROVE  GivenInv'
<1>1. UNCHANGED <<chainVars, filter, handed>> /\ query \in [Query -> QueryState]
  BY DEF IndexerLogs, LastProcessedHeight, LogsFromCache, BlockHashes, LogsInv, TypeOK
<1>2. \A p \in Query : /\ query'[p].of = query[p].of /\ query'[p].from = query[p].from
                       /\ query'[p].to = query[p].to /\ query'[p].target = query[p].target
  <2>1. CASE IndexerLogs(q)
    BY <1>1, <2>1 DEF IndexerLogs, QueryState
  <2>2. CASE LastProcessedHeight(q)
    BY <1>1, <2>2 DEF LastProcessedHeight, QueryState
  <2>3. CASE LogsFromCache(q)
    BY <1>1, <2>3 DEF LogsFromCache, QueryState
  <2>4. CASE BlockHashes(q)
    BY <1>1, <2>4 DEF BlockHashes, QueryState
  <2>5. QED
    BY <2>1, <2>2, <2>3, <2>4
<1>3. ASSUME NEW f \in Filter PROVE FilterFits(f)'
  BY <1>1, <1>2, UnmovedChain, StillFits DEF GivenInv, SameCalls
<1>4. ASSUME NEW p \in Query, NEW b \in query'[p].byIndexer \cup query'[p].byCache
      PROVE  Number[b] \in query[p].from .. query[p].to
  <2>1. query[p] \in QueryState /\ query'[p] \in QueryState
    BY DEF LogsInv, TypeOK
  <2>2. CASE b \in query[p].byIndexer \cup query[p].byCache
    BY <2>2 DEF GivenInv, HalvesInRange, InRange
  <2>3. CASE b \notin query[p].byIndexer \cup query[p].byCache
    <3>1. Within(b, query[p].from, query[p].to)
      <4>1. CASE IndexerLogs(q)
        BY <1>1, <1>4, <2>3, <4>1 DEF IndexerLogs, QueryState
      <4>2. CASE LastProcessedHeight(q)
        BY <1>1, <1>4, <2>3, <4>2 DEF LastProcessedHeight, QueryState
      <4>3. CASE LogsFromCache(q)
        BY <1>1, <1>4, <2>3, <4>3 DEF LogsFromCache, QueryState
      <4>4. CASE BlockHashes(q)
        BY <1>1, <1>4, <2>3, <4>4 DEF BlockHashes, QueryState
      <4>5. QED
        BY <4>1, <4>2, <4>3, <4>4
    <3>2. Number[b] \in Height
      BY <1>4, <2>1, BlockHeights DEF QueryState
    <3>3. QED
      BY <2>1, <3>1, <3>2, BlockHeights DEF Within, QueryState, Height
  <2>4. QED
    BY <2>2, <2>3
<1>5. QED
  BY <1>2, <1>3, <1>4 DEF GivenInv, HalvesInRange, InRange

(* Filters that come and go are nobody's callers.                          *)
LEMMA OtherFilters ==
  ASSUME LogsInv, GivenInv, NEW f \in Filter, UNCHANGED <<chainVars, query>>,
         \A g \in Filter \ {f} : filter'[g] = filter[g] /\ handed'[g] = handed[g],
         FilterFits(f)'
  PROVE  GivenInv'
<1>1. ASSUME NEW g \in Filter PROVE FilterFits(g)'
  BY <1>1, UnmovedChain, StillFits DEF GivenInv, SameCalls
<1>2. QED
  BY <1>1 DEF GivenInv, HalvesInRange, InRange

LEMMA GivenAtFirst ==
  ASSUME LogsInv, GivenInv, NEW f \in Filter, NEW kind \in {"logs", "blocks"}, NEW from, NEW to,
         AddPollFilter(f, kind, from, to)
  PROVE  GivenInv'
<1>1. /\ UNCHANGED <<chainVars, query, handed>> /\ filter \in [Filter -> FilterState]
      /\ handed[f] = NoneGiven /\ GetBlockNumber \in Height
  BY HeightsOfView DEF AddPollFilter, GivenInv, FilterFits, LogsInv, TypeOK
<1>2. /\ filter'[f].kind = kind /\ filter'[f].since = GetBlockNumber
      /\ filter'[f].position = GetBlockNumber
      /\ \A g \in Filter \ {f} : filter'[g] = filter[g]
  BY <1>1 DEF AddPollFilter
<1>3. \A n : ~Calling(f, n) /\ \A q \in Query : ~CalledFor(q, f, n)
  BY DEF LogsInv, CallOK, CallFits, AddPollFilter, Calling, CalledFor
<1>4. \A n : ~Calling(f, n)' /\ \A q \in Query : ~CalledFor(q, f, n)'
  BY <1>1, <1>3 DEF Calling, CalledFor, InRange
<1>5. ASSUME NEW n \in Height PROVE Fits(f, n)'
  <2>1. handed'[f][n] = 0 /\ ~(filter'[f].since < n /\ n <= filter'[f].position)
    BY <1>1, <1>2, BlockHeights DEF NoneGiven, Height
  <2>2. QED
    BY <1>4, <2>1 DEF Fits, Ahead, OneCaller, BlockGiven, LogsGiven
<1>6. FilterFits(f)'
  BY <1>2, <1>5 DEF FilterFits
<1>7. QED
  BY <1>1, <1>2, <1>6, OtherFilters

LEMMA GivenAfterRemoval ==
  ASSUME LogsInv, GivenInv, NEW f \in Filter, RemovePollFilter(f)
  PROVE  GivenInv'
<1>1. /\ UNCHANGED <<chainVars, query>> /\ filter \in [Filter -> FilterState]
      /\ handed \in [Filter -> [Height -> {0, 1, 2, Excused}]]
  BY DEF RemovePollFilter, LogsInv, TypeOK
<1>2. /\ ~filter'[f].live /\ handed'[f] = NoneGiven
      /\ \A g \in Filter \ {f} : filter'[g] = filter[g] /\ handed'[g] = handed[g]
  BY <1>1 DEF RemovePollFilter, NoFilter, NoneGiven
<1>3. FilterFits(f)'
  BY <1>2 DEF FilterFits, NoneGiven
<1>4. QED
  BY <1>1, <1>2, <1>3, OtherFilters

-----------------------------------------------------------------------------
(* Calls of others start and end without a filter's noticing.              *)
LEMMA OtherCallers ==
  ASSUME LogsInv, GivenInv, NEW q \in Query, NEW r, query' = [query EXCEPT ![q] = r],
         UNCHANGED chainVars, \A b \in r.byIndexer \cup r.byCache : Number[b] \in r.from .. r.to,
         NEW f, f \notin Filter \/ FilterFits(f)',
         query[q].of \in Filter => query[q].of = f,
         r.of \in Filter => r.of = f,
         \A g \in Filter \ {f} : filter'[g] = filter[g] /\ handed'[g] = handed[g]
  PROVE  GivenInv'
<1>1. query \in [Query -> QueryState]
  BY DEF LogsInv, TypeOK
<1>2. query'[q] = r /\ \A p \in Query \ {q} : query'[p] = query[p]
  BY <1>1
<1>3. ASSUME NEW g \in Filter PROVE FilterFits(g)'
  <2>1. CASE g = f
    BY <1>3, <2>1
  <2>2. CASE g # f
    <3>1. SameCalls(g)
      BY <1>2, <2>2 DEF SameCalls
    <3>2. QED
      BY <2>2, <3>1, UnmovedChain, StillFits DEF GivenInv
  <2>3. QED
    BY <2>1, <2>2
<1>4. ASSUME NEW p \in Query PROVE HalvesInRange(p)'
  <2>1. CASE p = q
    BY <1>2, <2>1 DEF HalvesInRange, InRange
  <2>2. CASE p # q
    BY <1>2, <2>2 DEF HalvesInRange, InRange, GivenInv
  <2>3. QED
    BY <2>1, <2>2
<1>5. QED
  BY <1>3, <1>4 DEF GivenInv

LEMMA GivenWhenClientAsks ==
  ASSUME LogsInv, GivenInv, NEW q \in Query, NEW from, NEW to, GetLogs(q, from, to)
  PROVE  GivenInv'
<1>1. Client \notin Filter /\ NoOne \notin Filter
  BY LogsAssumption, Zenon
<1>2. query' = [query EXCEPT ![q] = Asked(Client, from, to, {"indexer", "height"})]
      /\ query[q].of = NoOne /\ UNCHANGED <<chainVars, filter, handed>>
  BY DEF GetLogs, Call
<1> DEFINE r == Asked(Client, from, to, {"indexer", "height"})
<1>3. r.of = Client /\ r.byIndexer = {} /\ r.byCache = {}
  BY DEF Asked
<1> HIDE DEF r
<1>4. query' = [query EXCEPT ![q] = r]
  BY <1>2 DEF r
<1>5. QED
  BY <1>1, <1>2, <1>3, <1>4, OtherCallers

(* What a poll finds of its filter: its range begins above the position.   *)
LEMMA AfterPoll ==
  ASSUME LogsInv, GivenInv, NEW f \in Filter, NEW q \in Query, NEW r,
         query[q].of = NoOne, r.of = f, query' = [query EXCEPT ![q] = r],
         \A n \in Height : n \in r.from .. r.to => n > filter[f].position
  PROVE  \A n \in Height :
           /\ CalledFor(q, f, n)' <=> n \in r.from .. r.to
           /\ \A p \in Query \ {q} : CalledFor(p, f, n)' <=> CalledFor(p, f, n)
           /\ Calling(f, n)' <=> Calling(f, n) \/ n \in r.from .. r.to
<1>1. query \in [Query -> QueryState] /\ NoOne # f
  BY LogsAssumption DEF LogsInv, TypeOK
<1>2. query'[q] = r /\ \A p \in Query \ {q} : query'[p] = query[p]
  BY <1>1
<1>3. \A n : ~CalledFor(q, f, n)
  BY <1>1 DEF CalledFor
<1>4. QED
  BY <1>1, <1>2, <1>3 DEF CalledFor, Calling, InRange

LEMMA GivenWhenLogsPolled ==
  ASSUME LogsInv, GivenInv, NEW f \in Filter, NEW q \in Query, PollLogs(q, f)
  PROVE  GivenInv'
<1> DEFINE from == EffectiveFrom(f)
           to == EffectiveTo(f)
           r == Asked(f, from, to, {"indexer", "height"})
<1>1. /\ query[q].of = NoOne /\ query' = [query EXCEPT ![q] = r]
      /\ filter' = [filter EXCEPT ![f].position = GetBlockNumber]
      /\ Excuse(f, FinalizedBlockNumber + 1 .. GetBlockNumber)
      /\ UNCHANGED <<chainVars, viewVars, safeMode>>
      /\ filter[f].live /\ filter[f].kind = "logs" /\ from <= to
  BY DEF PollLogs, Call
<1>2. /\ filter \in [Filter -> FilterState] /\ NoOne \notin Filter
      /\ handed \in [Filter -> [Height -> {0, 1, 2, Excused}]]
  BY LogsAssumption, Zenon DEF LogsInv, TypeOK
<1>3. /\ r.of = f /\ r.from = from /\ r.to = to /\ r.target = TargetBlock(to)
      /\ r.byIndexer = {} /\ r.byCache = {}
  BY DEF Asked
<1>4. /\ FinalizedBlockNumber \in Nat /\ GetBlockNumber \in Nat /\ Number[finalizedHead] \in Nat
      /\ FinalizedBlockNumber <= Number[finalizedHead]
      /\ filter[f].position \in Nat /\ filter[f].from \in Nat /\ filter[f].to \in Nat
      /\ filter[f].since \in Nat
  BY <1>2, HeightsOfView, BlockHeights DEF LogsInv, PollLogs, FilterState, Height
<1>5. /\ from >= filter[f].from /\ from >= filter[f].position + 1
      /\ from \in {filter[f].from, filter[f].position + 1}
  <2>1. filter[f].from \in Int /\ filter[f].position + 1 \in Int
    BY <1>4
  <2>2. QED
    BY <2>1, MaxOfTwo, Zenon DEF EffectiveFrom
<1>6. to <= filter[f].to /\ to <= GetBlockNumber /\ to \in {filter[f].to, GetBlockNumber}
  <2>1. filter[f].to \in Int /\ GetBlockNumber \in Int
    BY <1>4
  <2>2. QED
    BY <2>1, MinOfTwo, Zenon DEF EffectiveTo
<1>7. /\ from \in Nat /\ to \in Nat /\ filter[f].position < GetBlockNumber
      /\ TargetBlock(to) \in {to, FinalizedBlockNumber}
  <2>1. to \in Nat
    BY <1>4, <1>6
  <2>2. from \in Nat /\ filter[f].position < GetBlockNumber
    BY <1>1, <1>4, <1>5, <1>6, <2>1
  <2>3. to \in Int /\ FinalizedBlockNumber \in Int
    BY <1>4, <2>1
  <2>4. TargetBlock(to) \in {to, FinalizedBlockNumber}
    BY <2>3, MinOfTwo, Zenon DEF TargetBlock
  <2>5. QED
    BY <2>1, <2>2, <2>4
<1>8. /\ filter'[f].position = GetBlockNumber /\ filter'[f].live /\ filter'[f].kind = "logs"
      /\ filter'[f].from = filter[f].from /\ filter'[f].to = filter[f].to
      /\ filter'[f].since = filter[f].since
      /\ \A g \in Filter \ {f} : filter'[g] = filter[g] /\ handed'[g] = handed[g]
  BY <1>1, <1>2 DEF FilterState, Excuse
<1> HIDE DEF r, from, to
<1>9. ASSUME NEW n \in Height, handed'[f][n] # Excused
      PROVE  /\ handed[f][n] # Excused /\ handed'[f][n] = handed[f][n] /\ n \in Nat
             /\ n <= FinalizedBlockNumber \/ n > GetBlockNumber
             /\ Fits(f, n)
  <2>1. n \in Nat
    BY BlockHeights DEF Height
  <2>2. /\ handed'[f][n] = handed[f][n] /\ n \notin FinalizedBlockNumber + 1 .. GetBlockNumber
    BY <1>1, <1>2, <1>9 DEF Excuse
  <2>3. QED
    BY <1>1, <1>4, <1>9, <2>1, <2>2 DEF GivenInv, FilterFits
<1>10. \A n \in Height :
         /\ CalledFor(q, f, n)' <=> n \in from .. to
         /\ \A p \in Query \ {q} : CalledFor(p, f, n)' <=> CalledFor(p, f, n)
         /\ Calling(f, n)' <=> Calling(f, n) \/ n \in from .. to
  <2>1. \A n \in Height : n \in r.from .. r.to => n > filter[f].position
    BY <1>3, <1>4, <1>5, <1>6, BlockHeights DEF Height
  <2>2. QED
    BY <1>1, <1>3, <2>1, AfterPoll
<1>11. ASSUME NEW n \in Height, handed'[f][n] # Excused PROVE Fits(f, n)'
  <2>1. n \in from .. to => n > filter[f].position /\ n <= FinalizedBlockNumber
    BY <1>4, <1>5, <1>6, <1>9, <1>11
  <2>2. Ahead(f, n)'
    <3>1. n > GetBlockNumber => n > filter[f].position /\ n \notin from .. to
      BY <1>4, <1>6, <1>7, <1>9, <1>11
    <3>2. QED
      BY <1>8, <1>9, <1>10, <1>11, <3>1 DEF Fits, Ahead
  <2>3. OneCaller(f, n)'
    <3>1. query'[q].target = TargetBlock(to) /\ \A p \in Query \ {q} : query'[p] = query[p]
      BY <1>1, <1>3 DEF LogsInv, TypeOK
    <3>2. n \in from .. to => n <= TargetBlock(to)
      BY <1>4, <1>6, <1>7, <1>9, <1>11, <2>1
    <3>3. n \in from .. to => handed[f][n] = 0 /\ \A p \in Query : ~CalledFor(p, f, n)
      BY <1>9, <1>11, <2>1 DEF Fits, Ahead, Calling, CalledFor
    <3>4. QED
      BY <1>1, <1>9, <1>10, <1>11, <3>1, <3>2, <3>3 DEF Fits, OneCaller
  <2>4. BlockGiven(f, n)'
    BY <1>8 DEF BlockGiven
  <2>5. LogsGiven(f, n)'
    <3> SUFFICES ASSUME filter[f].since < n, n <= GetBlockNumber,
                        filter[f].from <= n, n <= filter[f].to
                 PROVE  /\ n <= Number[finalizedHead]
                        /\ \A b \in WithTxs : IsFinal(b) /\ Number[b] = n /\ ~Calling(f, n)'
                             => handed[f][n] = 1
      BY <1>1, <1>8, <1>9, <1>11 DEF LogsGiven, chainVars, IsFinal
    <3>1. n <= Number[finalizedHead]
      BY <1>4, <1>9, <1>11
    <3>2. CASE n <= filter[f].position
      BY <1>1, <1>9, <1>10, <1>11, <3>1, <3>2 DEF Fits, LogsGiven
    <3>3. CASE n > filter[f].position
      <4>1. n \in from .. to
        BY <1>4, <1>5, <1>6, <1>9, <1>11, <3>3
      <4>2. QED
        BY <1>10, <3>1, <4>1
    <3>4. QED
      BY <1>4, <1>9, <1>11, <3>2, <3>3
  <2>6. QED
    BY <2>2, <2>3, <2>4, <2>5 DEF Fits
<1>12. FilterFits(f)'
  BY <1>8, <1>11 DEF FilterFits
<1>13. QED
  BY <1>1, <1>2, <1>3, <1>8, <1>12, OtherCallers

(* A block filter's position that goes back excuses every height.          *)
LEMMA GivenWhenBlocksPolled ==
  ASSUME LogsInv, GivenInv, NEW f \in Filter, NEW q \in Query, PollBlocks(q, f)
  PROVE  GivenInv'
<1> DEFINE from == FirstNewBlock(f)
           to == GetBlockNumber
           r == Asked(f, from, to, {"hashes"})
<1>1. /\ query[q].of = NoOne /\ query' = [query EXCEPT ![q] = r]
      /\ filter' = [filter EXCEPT ![f].position = to]
      /\ Excuse(f, IF to < filter[f].position THEN Height ELSE {})
      /\ UNCHANGED <<chainVars, viewVars, safeMode>>
      /\ filter[f].live /\ filter[f].kind = "blocks"
  BY DEF PollBlocks, Call
<1>2. /\ filter \in [Filter -> FilterState] /\ NoOne \notin Filter
      /\ handed \in [Filter -> [Height -> {0, 1, 2, Excused}]]
  BY LogsAssumption, Zenon DEF LogsInv, TypeOK
<1>3. r.of = f /\ r.from = from /\ r.to = to /\ r.byIndexer = {} /\ r.byCache = {}
  BY DEF Asked
<1>4. /\ to \in Nat /\ filter[f].position \in Nat /\ from = filter[f].position + 1
  BY <1>2, HeightsOfView, BlockHeights DEF LogsInv, PollBlocks, FilterState, Height, FirstNewBlock
<1>5. /\ filter'[f].position = to /\ filter'[f].live /\ filter'[f].kind = "blocks"
      /\ filter'[f].since = filter[f].since
      /\ \A g \in Filter \ {f} : filter'[g] = filter[g] /\ handed'[g] = handed[g]
  BY <1>1, <1>2 DEF FilterState, Excuse
<1> HIDE DEF r, from, to
<1>6. ASSUME NEW n \in Height, handed'[f][n] # Excused
      PROVE  /\ handed[f][n] # Excused /\ handed'[f][n] = handed[f][n] /\ n \in Nat
             /\ filter[f].position <= to
             /\ Fits(f, n)
  <2>1. n \in Nat
    BY BlockHeights DEF Height
  <2>2. handed'[f][n] = handed[f][n] /\ ~(to < filter[f].position)
    BY <1>1, <1>2, <1>6 DEF Excuse
  <2>3. QED
    BY <1>1, <1>4, <1>6, <2>1, <2>2 DEF GivenInv, FilterFits
<1>7. \A n \in Height :
         /\ CalledFor(q, f, n)' <=> n \in from .. to
         /\ \A p \in Query \ {q} : CalledFor(p, f, n)' <=> CalledFor(p, f, n)
         /\ Calling(f, n)' <=> Calling(f, n) \/ n \in from .. to
  <2>1. \A n \in Height : n \in r.from .. r.to => n > filter[f].position
    BY <1>3, <1>4, BlockHeights DEF Height
  <2>2. QED
    BY <1>1, <1>3, <2>1, AfterPoll
<1>8. ASSUME NEW n \in Height, handed'[f][n] # Excused PROVE Fits(f, n)'
  <2>1. n \in from .. to <=> n > filter[f].position /\ n <= to
    BY <1>4, <1>6, <1>8
  <2>2. n > to => n > filter[f].position
    BY <1>4, <1>6, <1>8
  <2>3. Ahead(f, n)'
    BY <1>4, <1>5, <1>6, <1>7, <1>8, <2>1, <2>2 DEF Fits, Ahead
  <2>4. OneCaller(f, n)'
    <3>1. n \in from .. to => handed[f][n] = 0 /\ \A p \in Query : ~CalledFor(p, f, n)
      BY <1>6, <1>8, <2>1 DEF Fits, Ahead, Calling, CalledFor
    <3>2. QED
      BY <1>5, <1>6, <1>7, <1>8, <3>1 DEF Fits, OneCaller
  <2>5. BlockGiven(f, n)'
    <3>1. n <= to /\ ~Calling(f, n)' => n <= filter[f].position /\ ~Calling(f, n)
      BY <1>4, <1>6, <1>7, <1>8, <2>1
    <3>2. QED
      BY <1>1, <1>5, <1>6, <1>8, <3>1 DEF Fits, BlockGiven
  <2>6. LogsGiven(f, n)'
    BY <1>5 DEF LogsGiven
  <2>7. QED
    BY <2>3, <2>4, <2>5, <2>6 DEF Fits
<1>9. FilterFits(f)'
  BY <1>5, <1>8 DEF FilterFits
<1>10. QED
  BY <1>1, <1>2, <1>3, <1>5, <1>9, OtherCallers

(* What is left of the calls for a filter when one has ended.              *)
LEMMA AfterCall ==
  ASSUME LogsInv, NEW f \in Filter, NEW q \in Query, query' = [query EXCEPT ![q] = NoCall]
  PROVE  /\ \A p \in Query \ {q} : query'[p] = query[p]
         /\ \A n : /\ ~CalledFor(q, f, n)'
                   /\ \A p \in Query \ {q} : CalledFor(p, f, n)' <=> CalledFor(p, f, n)
                   /\ Calling(f, n) <=> Calling(f, n)' \/ CalledFor(q, f, n)
<1>1. query \in [Query -> QueryState] /\ NoOne # f
  BY LogsAssumption, Zenon DEF LogsInv, TypeOK
<1>2. query'[q] = NoCall /\ \A p \in Query \ {q} : query'[p] = query[p]
  BY <1>1
<1>3. NoCall.of = NoOne
  BY DEF NoCall
<1>4. \A n : ~CalledFor(q, f, n)'
  BY <1>1, <1>2, <1>3 DEF CalledFor
<1>5. \A n : \A p \in Query \ {q} : CalledFor(p, f, n)' <=> CalledFor(p, f, n)
  BY <1>2 DEF CalledFor, InRange
<1>6. \A n : /\ Calling(f, n) <=> \E p \in Query : CalledFor(p, f, n)
             /\ Calling(f, n)' <=> \E p \in Query : CalledFor(p, f, n)'
  BY DEF Calling, CalledFor
<1>7. QED
  BY <1>2, <1>4, <1>5, <1>6

(* A filter fits when what the ended call gave it makes up for the call.   *)
LEMMA GivenByCall ==
  ASSUME LogsInv, GivenInv, NEW f \in Filter, NEW q \in Query,
         query' = [query EXCEPT ![q] = NoCall], UNCHANGED <<chainVars, filter>>,
         filter[f].live,
         \A n \in Height : handed'[f][n] # Excused =>
           /\ handed[f][n] # Excused
           /\ ~CalledFor(q, f, n) => handed'[f][n] = handed[f][n]
           /\ CalledFor(q, f, n) /\ handed[f][n] = 0 =>
                /\ filter[f].kind = "blocks" => handed'[f][n] = 1
                /\ filter[f].kind = "logs" /\ n <= query[q].target =>
                     \A b \in WithTxs : IsFinal(b) /\ Number[b] = n => handed'[f][n] = 1
  PROVE  FilterFits(f)'
<1>1. ASSUME NEW n \in Height, handed'[f][n] # Excused PROVE Fits(f, n)'
  <2>1. Fits(f, n) /\ handed[f][n] # Excused
    BY <1>1 DEF GivenInv, FilterFits
  <2>2. /\ ~CalledFor(q, f, n)'
        /\ \A p \in Query \ {q} : /\ query'[p] = query[p]
                                  /\ CalledFor(p, f, n)' <=> CalledFor(p, f, n)
        /\ Calling(f, n) <=> Calling(f, n)' \/ CalledFor(q, f, n)
    BY AfterCall
  <2>3. CalledFor(q, f, n) =>
          /\ handed[f][n] = 0 /\ Calling(f, n)
          /\ filter[f].kind = "logs" => n <= query[q].target
          /\ \A p \in Query : CalledFor(p, f, n) => p = q
    BY <2>1, <2>2 DEF Fits, OneCaller
  <2>4. Ahead(f, n)'
    BY <1>1, <2>1, <2>2, <2>3 DEF Fits, Ahead
  <2>5. OneCaller(f, n)'
    <3> SUFFICES ASSUME NEW p \in Query, CalledFor(p, f, n)'
                 PROVE  /\ handed'[f][n] = 0
                        /\ filter[f].kind = "logs" => n <= query'[p].target
                        /\ \A o \in Query : CalledFor(o, f, n)' => o = p
      BY DEF OneCaller
    <3>1. p # q /\ CalledFor(p, f, n) /\ query'[p] = query[p]
      BY <2>2
    <3>2. ~CalledFor(q, f, n)
      BY <2>3, <3>1
    <3>3. /\ handed[f][n] = 0
          /\ filter[f].kind = "logs" => n <= query[p].target
          /\ \A o \in Query : CalledFor(o, f, n) => o = p
      BY <2>1, <3>1 DEF Fits, OneCaller
    <3>4. QED
      BY <1>1, <2>2, <3>1, <3>2, <3>3
  <2>6. BlockGiven(f, n)'
    BY <1>1, <2>1, <2>2, <2>3 DEF Fits, BlockGiven
  <2>7. LogsGiven(f, n)'
    <3> SUFFICES ASSUME filter[f].kind = "logs", filter[f].since < n, n <= filter[f].position,
                        filter[f].from <= n, n <= filter[f].to
                 PROVE  /\ n <= Number[finalizedHead]
                        /\ \A b \in WithTxs : IsFinal(b) /\ Number[b] = n /\ ~Calling(f, n)'
                             => handed'[f][n] = 1
      BY DEF LogsGiven, chainVars, IsFinal
    <3>1. QED
      BY <1>1, <2>1, <2>2, <2>3 DEF Fits, LogsGiven
  <2>8. QED
    BY <2>4, <2>5, <2>6, <2>7 DEF Fits
<1>2. QED
  BY <1>1 DEF FilterFits, GivenInv

LEMMA NoCallHasNothing ==
  NoCall.of = NoOne /\ NoCall.byIndexer = {} /\ NoCall.byCache = {}
  BY DEF NoCall

(* An ended call of nobody's, or of a filter that was removed.             *)
LEMMA GivenForNobody ==
  ASSUME LogsInv, GivenInv, NEW q \in Query, ~ForFilter(q),
         query' = [query EXCEPT ![q] = NoCall], UNCHANGED <<chainVars, filter, handed>>
  PROVE  GivenInv'
<1> PICK f : f = query[q].of
  OBVIOUS
<1>1. NoOne \notin Filter
  BY LogsAssumption, Zenon
<1>2. f \in Filter => FilterFits(f)'
  <2>1. f \in Filter => ~filter'[f].live
    BY DEF ForFilter
  <2>2. QED
    BY <2>1 DEF GivenInv, FilterFits, NoneGiven
<1>3. QED
  BY <1>1, <1>2, NoCallHasNothing, OtherCallers

LEMMA GivenWhenFailed ==
  ASSUME LogsInv, GivenInv, NEW q \in Query, Fail(q)
  PROVE  GivenInv'
<1>1. query' = [query EXCEPT ![q] = NoCall] /\ UNCHANGED <<chainVars, filter>> /\ NoOne \notin Filter
  BY LogsAssumption, Zenon DEF Fail
<1>2. CASE ForFilter(q)
  <2> PICK f : f = query[q].of
    OBVIOUS
  <2>1. /\ f \in Filter /\ filter[f].live /\ Excuse(f, InRange(q))
        /\ handed \in [Filter -> [Height -> {0, 1, 2, Excused}]]
    BY <1>2 DEF Fail, ForFilter, LogsInv, TypeOK
  <2>2. \A g \in Filter \ {f} : handed'[g] = handed[g]
    BY <2>1 DEF Excuse
  <2>3. \A n \in Height : handed'[f][n] # Excused =>
          /\ handed[f][n] # Excused /\ handed'[f][n] = handed[f][n]
          /\ ~CalledFor(q, f, n)
    BY <2>1 DEF Excuse, CalledFor
  <2>4. FilterFits(f)'
    BY <1>1, <2>1, <2>3, GivenByCall
  <2>5. QED
    BY <1>1, <2>2, <2>4, NoCallHasNothing, OtherCallers
<1>3. CASE ~ForFilter(q)
  BY <1>1, <1>3, GivenForNobody DEF Fail
<1>4. QED
  BY <1>2, <1>3

(* The logs, or hashes, of its range are all that an answer gives.         *)
LEMMA GivenInRange ==
  ASSUME LogsInv, GivenInv, NEW q \in Query, NEW n \in Height, n \notin InRange(q)
  PROVE  Given(q, n) = 0
<1>1. \A b \in query[q].byIndexer \cup query[q].byCache : Number[b] # n
  BY DEF GivenInv, HalvesInRange
<1>2. In(query[q].byIndexer, n) = 0 /\ In(query[q].byCache, n) = 0
  BY <1>1 DEF In
<1>3. QED
  BY <1>2 DEF Given, Copies

LEMMA GivenWhenAnswered ==
  ASSUME LogsInv, GivenInv, NEW q \in Query, Answer(q)
  PROVE  GivenInv'
<1>1. /\ query' = [query EXCEPT ![q] = NoCall] /\ UNCHANGED <<chainVars, filter>>
      /\ NoOne \notin Filter /\ Complete(q)
  BY LogsAssumption, Zenon DEF Answer
<1>2. CASE ForFilter(q)
  <2> PICK f : f = query[q].of
    OBVIOUS
  <2> DEFINE new == [n \in Height |->
                IF handed[f][n] = Excused \/ (n \in InRange(q) /\ Lost(q, n)) THEN Excused
                ELSE Min({2, handed[f][n] + Given(q, n)})]
  <2>1. /\ f \in Filter /\ filter[f].live /\ handed' = [handed EXCEPT ![f] = new]
        /\ handed \in [Filter -> [Height -> {0, 1, 2, Excused}]]
    BY <1>2 DEF Answer, ForFilter, LogsInv, TypeOK
  <2>2. handed'[f] = new /\ \A g \in Filter \ {f} : handed'[g] = handed[g]
    BY <2>1
  <2>3. ASSUME NEW n \in Height, handed'[f][n] # Excused
        PROVE  /\ handed[f][n] # Excused /\ handed[f][n] \in {0, 1, 2}
               /\ ~(n \in InRange(q) /\ Lost(q, n))
               /\ handed'[f][n] = Min({2, handed[f][n] + Given(q, n)})
    BY <2>1, <2>2, <2>3
  <2> HIDE DEF new
  <2>4. ASSUME NEW k \in {0, 1, 2} PROVE Min({2, k}) = k
    <3>1. k \in Int /\ 2 \in Int
      OBVIOUS
    <3>2. Min({2, k}) \in {2, k} /\ Min({2, k}) <= 2 /\ Min({2, k}) <= k
      BY <3>1, MinOfTwo, Zenon
    <3>3. QED
      BY <3>2
  <2>5. ASSUME NEW n \in Height, handed'[f][n] # Excused, ~CalledFor(q, f, n)
        PROVE  handed'[f][n] = handed[f][n]
    <3>1. Given(q, n) = 0
      BY <2>5, GivenInRange DEF CalledFor
    <3>2. /\ handed[f][n] \in {0, 1, 2}
          /\ handed'[f][n] = Min({2, handed[f][n] + Given(q, n)})
      BY <2>3, <2>5
    <3>3. handed[f][n] + Given(q, n) = handed[f][n]
      BY <3>1, <3>2
    <3>4. QED
      BY <2>4, <3>2, <3>3
  <2>6. ASSUME NEW n \in Height, handed'[f][n] # Excused, CalledFor(q, f, n),
               handed[f][n] = 0, Given(q, n) = 1
        PROVE  handed'[f][n] = 1
    <3>1. handed[f][n] + Given(q, n) = 1
      BY <2>6
    <3>2. QED
      BY <2>3, <2>4, <2>6, <3>1
  <2>7. ASSUME NEW n \in Height, CalledFor(q, f, n), filter[f].kind = "blocks"
        PROVE  Given(q, n) = 1
    BY <2>1, <2>7 DEF Given, ForLogs, CalledFor
  <2>8. ASSUME NEW n \in Height, handed'[f][n] # Excused, CalledFor(q, f, n),
               filter[f].kind = "logs", n <= query[q].target,
               NEW b \in WithTxs, IsFinal(b), Number[b] = n
        PROVE  Given(q, n) = 1
    <3>1. ForLogs(q)
      BY <2>8 DEF ForLogs, CalledFor
    <3>2. query[q] \in QueryState
      BY DEF LogsInv, TypeOK
    <3>3. Within(b, query[q].from, query[q].target)
      BY <2>8, <3>2, BlockHeights DEF CalledFor, InRange, Within, QueryState, Height
    <3>4. ~Lost(q, Number[b])
      BY <2>3, <2>8 DEF CalledFor
    <3>5. QED
      BY <1>1, <2>8, <3>1, <3>3, <3>4, MeetsOnce DEF Given
  <2>9. FilterFits(f)'
    BY <1>1, <2>1, <2>3, <2>5, <2>6, <2>7, <2>8, GivenByCall
  <2>10. QED
    BY <1>1, <2>2, <2>9, NoCallHasNothing, OtherCallers
<1>3. CASE ~ForFilter(q)
  BY <1>1, <1>3, GivenForNobody DEF Answer
<1>4. QED
  BY <1>2, <1>3

LEMMA GivenStays ==
  ASSUME LogsInv, LogsInv', GivenInv, [Next]_vars
  PROVE  GivenInv'
<1>1. CASE UNCHANGED vars
  <2>1. UNCHANGED <<chainVars, filter, query, handed>>
    BY <1>1 DEF vars
  <2>2. \A f \in Filter : FilterFits(f)'
    BY <2>1, UnmovedChain, StillFits DEF GivenInv, SameCalls
  <2>3. QED
    BY <2>1, <2>2 DEF GivenInv, HalvesInRange, InRange
<1>2. CASE Next
  <2>1. ASSUME NEW f \in Filter, NEW r \in Ranges, AddPollFilter(f, "logs", r[1], r[2])
        PROVE  GivenInv'
    BY <2>1, GivenAtFirst
  <2>2. ASSUME NEW f \in Filter, AddPollFilter(f, "blocks", 0, 0) PROVE GivenInv'
    BY <2>2, GivenAtFirst
  <2>3. ASSUME NEW q \in Query, NEW r \in CallRanges, GetLogs(q, r[1], r[2]) PROVE GivenInv'
    BY <2>3, GivenWhenClientAsks
  <2>4. QED
    BY <1>2, <2>1, <2>2, <2>3, GivenWhenChainMoves, GivenWhenHashesMove, GivenAfterRemoval, GivenWhenLogsPolled,
       GivenWhenBlocksPolled, GivenWhileCalling, GivenWhenAnswered, GivenWhenFailed
    DEF Next
<1>3. QED
  BY <1>1, <1>2

LEMMA GivenInvariant == Spec => [](LogsInv /\ GivenInv)
<1>1. Init => GivenInv
  BY GivenInit
<1>2. LogsInv /\ LogsInv' /\ GivenInv /\ [Next]_vars => GivenInv'
  BY GivenStays
<1>3. QED
  BY <1>1, <1>2, LogsInvariant, PTL DEF Spec

(* A log filter gets the logs of each final block that its polls passed    *)
(* exactly once, or not for one of the five reasons that LogsOnce names.    *)
THEOREM LogsComeOnce == Spec => []LogsOnce
<1>1. LogsInv /\ GivenInv => LogsOnce
  <2> SUFFICES ASSUME LogsInv, GivenInv, NEW f \in Filter, filter[f].live,
                      filter[f].kind = "logs", NEW b \in WithTxs, IsFinal(b),
                      Number[b] > filter[f].since,
                      Within(b, filter[f].from, Min({filter[f].to, filter[f].position})),
                      handed[f][Number[b]] # Excused, ~Calling(f, Number[b])
               PROVE  handed[f][Number[b]] = 1
    BY DEF LogsOnce
  <2>1. /\ Number[b] \in Height /\ Number[b] \in Nat
        /\ filter[f].to \in Nat /\ filter[f].position \in Nat /\ filter[f].since \in Nat
    <3>1. WithTxs \subseteq Block
      BY LogsAssumption, Zenon
    <3>2. filter[f] \in FilterState
      BY DEF LogsInv, TypeOK
    <3>3. QED
      BY <3>1, <3>2, BlockHeights DEF FilterState, Height
  <2>2. /\ Min({filter[f].to, filter[f].position}) \in {filter[f].to, filter[f].position}
        /\ Min({filter[f].to, filter[f].position}) <= filter[f].to
        /\ Min({filter[f].to, filter[f].position}) <= filter[f].position
    <3>1. filter[f].to \in Int /\ filter[f].position \in Int
      BY <2>1
    <3>2. QED
      BY <3>1, MinOfTwo, Zenon
  <2>3. /\ filter[f].from <= Number[b] /\ Number[b] <= filter[f].to
        /\ Number[b] <= filter[f].position
    BY <2>1, <2>2 DEF Within
  <2>4. LogsGiven(f, Number[b])
    BY <2>1 DEF GivenInv, FilterFits, Fits
  <2>5. QED
    BY <2>1, <2>3, <2>4 DEF LogsGiven
<1>2. QED
  BY <1>1, GivenInvariant, PTL

(* A block filter gets each height that the latest block has passed once.  *)
THEOREM BlocksComeOnce == Spec => []BlocksOnce
<1>1. LogsInv /\ GivenInv => BlocksOnce
  BY DEF BlocksOnce, GivenInv, FilterFits, Fits, BlockGiven
<1>2. QED
  BY <1>1, GivenInvariant, PTL
=============================================================================
