-------------------------- MODULE BlockQueriesProofs --------------------------
(* The two queries whose answers are kept in the query cache.              *)
(*                                                                         *)
(* BlockTags: that a yes of _isBlockFinalized is true, for every chain and *)
(* every number of calls, although finality, chain and hash are read in    *)
(* turns between which the chain moves.                                    *)
(*                                                                         *)
(* BlockData: what getBlockDataForHeader keeps for good has the block's    *)
(* transactions, for every chain and any number of calls, when the indexer *)
(* had the block before the call or the cache has it throughout.           *)
EXTENDS BlockTags, BlockData, HeadViewProofs

(* What holds of one call. *)
CallOK(r) ==
  /\ r \in QueryState
  /\ r.pc # "idle" => ViewReady
  /\ r.pc = "hashed" /\ r.reply # NoBlock => Number[r.reply] = r.number
  /\ r.pc \in {"resolved", "canonical", "checked", "done"} =>
       r.hash \in Block /\ Number[r.hash] = r.number
  /\ r.pc \in {"canonical", "checked"} => r.number <= Number[finalizedHead]
  /\ r.pc = "checked" /\ r.reply # NoBlock =>
       IsFinal(r.reply) /\ Number[r.reply] = r.number
  /\ r.pc = "done" /\ r.answer => IsFinal(r.hash)

(* What holds of one entry of the query cache. *)
EntryOK(n) == queryCache[n] # NoBlock => Number[queryCache[n]] = n

TagsInv ==
  /\ ViewInv
  /\ TypeOK
  /\ \A q \in Query : CallOK(query[q])
  /\ \A n \in Heights : EntryOK(n)

-----------------------------------------------------------------------------
(* The node answers with the block of the best chain at the height. *)
LEMMA CanonicalHashType ==
  ASSUME ViewInv, NEW n \in Nat
  PROVE  CanonicalHash(n) \in Block \cup {NoBlock}
<1>1. bestHead \in Block /\ Ancestors[bestHead] \subseteq Block
  BY AncestorsOfBlock DEF ViewInv, ViewTypeOK, ChainTypeOK
<1>2. QED
  BY <1>1 DEF CanonicalHash

LEMMA CanonicalHashIsAt ==
  ASSUME NEW n \in Nat, CanonicalHash(n) # NoBlock
  PROVE  At(n, CanonicalHash(n))
  BY DEF CanonicalHash, At

(* Nothing that holds of a call is lost when the chain moves. *)
LEMMA ChainMoves ==
  ASSUME TagsInv, ViewNext, UNCHANGED <<queryCache, query>>
  PROVE  TagsInv'
<1>1. ViewInv'
  BY ViewInvStays DEF TagsInv
<1>2. \A b : IsFinal(b) => IsFinal(b)'
  BY FinalStays DEF TagsInv, IsFinal
<1>3. Number[finalizedHead] <= Number[finalizedHead'] /\ Number[finalizedHead] \in Nat
      /\ Number[finalizedHead'] \in Nat
  <2>1. finalizedHead \in Block /\ finalizedHead' \in Block
    BY <1>1 DEF TagsInv, ViewInv, ViewTypeOK, ChainTypeOK
  <2>2. finalizedHead \in Ancestors[finalizedHead']
    BY <2>1, <1>2, AncestorsOfBlock DEF IsFinal
  <2>3. QED
    BY <2>1, <2>2, AncestorsOfBlock
<1>4. TypeOK'
  BY <1>1 DEF TagsInv, TypeOK, ViewInv
<1>5. ASSUME NEW q \in Query PROVE CallOK(query[q])'
  <2>1. CallOK(query[q]) /\ query[q].number \in Nat
    BY DEF TagsInv, CallOK, QueryState
  <2>2. query[q].pc # "idle" => ViewReady'
    BY <2>1, ReadyStays DEF TagsInv, CallOK
  <2>3. QED
    BY <1>2, <1>3, <2>1, <2>2 DEF CallOK
<1>6. ASSUME NEW n \in Heights PROVE EntryOK(n)'
  BY <1>2 DEF TagsInv, EntryOK
<1>7. QED
  BY <1>1, <1>4, <1>5, <1>6 DEF TagsInv

(* A step of one call leaves the others alone. *)
LEMMA OneCall ==
  ASSUME TagsInv, NEW q \in Query, NEW r, CallOK(r), Set(q, r),
         UNCHANGED <<chainVars, viewVars, queryCache>>
  PROVE  TagsInv'
<1>1. ViewInv'
  BY DEF TagsInv, ViewInv, ViewTypeOK, ChainTypeOK, IsFinal, chainVars, viewVars
<1>2. query' = [query EXCEPT ![q] = r] /\ query \in [Query -> QueryState] /\ r \in QueryState
  BY DEF Set, TagsInv, TypeOK, CallOK
<1>3. TypeOK'
  BY <1>1, <1>2 DEF TagsInv, TypeOK, ViewInv
<1>4. ASSUME NEW p \in Query PROVE CallOK(query[p])'
  <2>1. CallOK(query'[p])
    BY <1>2 DEF TagsInv
  <2>2. QED
    BY <2>1 DEF CallOK, IsFinal, ViewReady, chainVars, viewVars
<1>5. ASSUME NEW n \in Heights PROVE EntryOK(n)'
  BY DEF TagsInv, EntryOK, IsFinal, chainVars
<1>6. QED
  BY <1>1, <1>3, <1>4, <1>5 DEF TagsInv

(* Resolving a tag: the hash and its height go together. *)
LEMMA ResolvedOK ==
  ASSUME ViewReady, NEW q \in Query, query[q] \in QueryState, NEW h \in Block, NEW n \in Nat,
         Number[h] = n
  PROVE  CallOK([query[q] EXCEPT !.pc = "resolved", !.hash = h, !.number = n])
  BY DEF CallOK, QueryState

LEMMA IdleOK == CallOK(Idle)
  BY DEF CallOK, Idle, QueryState

LEMMA Asked ==
  ASSUME TagsInv, NEW q \in Query, AskStep(q)
  PROVE  TagsInv'
<1>1. query[q] \in QueryState /\ ViewInv
  BY DEF TagsInv, TypeOK
<1>2. CASE AskLatest(q)
  <2>1. BestBlockHash \in Block /\ BestBlockNumber \in Nat
        /\ Number[BestBlockHash] = BestBlockNumber
    BY <1>1, <1>2, AncestorsOfBlock
    DEF AskLatest, ViewReady, BestBlockHash, BestBlockNumber, ViewInv, ViewTypeOK, ChainTypeOK
  <2>2. QED
    BY <1>1, <1>2, <2>1, ResolvedOK, OneCall DEF AskLatest, Resolved
<1>3. CASE AskFinalized(q)
  <2>1. /\ FinalizedBlockHash \in Block /\ FinalizedBlockNumber \in Nat
        /\ Number[FinalizedBlockHash] = FinalizedBlockNumber
    BY <1>1, <1>3, FinalizedNumberIsFinal DEF AskFinalized
  <2>2. QED
    BY <1>1, <1>3, <2>1, ResolvedOK, OneCall DEF AskFinalized, Resolved
<1>4. ASSUME NEW b \in Block, AskHash(q, b) PROVE TagsInv'
  BY <1>1, <1>4, AncestorsOfBlock, ResolvedOK, OneCall DEF AskHash, Resolved
<1>5. ASSUME NEW n \in Heights, AskCached(q, n) PROVE TagsInv'
  <2>1. queryCache[n] \in Block /\ n \in Nat /\ Number[queryCache[n]] = n
    BY <1>5, TagsAssumption DEF AskCached, TagsInv, TypeOK, EntryOK
  <2>2. QED
    BY <1>1, <1>5, <2>1, ResolvedOK, OneCall DEF AskCached, Resolved
<1>6. ASSUME NEW n \in Heights, AskNumber(q, n) PROVE TagsInv'
  <2>1. CallOK([query[q] EXCEPT !.pc = "lookup", !.number = n])
    BY <1>1, <1>6, TagsAssumption DEF AskNumber, CallOK, QueryState
  <2>2. QED
    BY <1>6, <2>1, OneCall DEF AskNumber
<1>7. QED
  BY <1>2, <1>3, <1>4, <1>5, <1>6 DEF AskStep

LEMMA Answered ==
  ASSUME TagsInv, NEW q \in Query, NodeHashes(q) \/ NodeChecks(q)
  PROVE  TagsInv'
<1> DEFINE n == query[q].number
           c == CanonicalHash(n)
<1>1. query[q] \in QueryState /\ CallOK(query[q]) /\ n \in Nat /\ ViewInv
  BY DEF TagsInv, TypeOK, QueryState
<1>2. c \in Block \cup {NoBlock} /\ (c # NoBlock => At(n, c))
  BY <1>1, CanonicalHashType, CanonicalHashIsAt
<1>3. CASE NodeHashes(q)
  <2>1. ViewReady /\ (c # NoBlock => Number[c] = n)
    BY <1>1, <1>2, <1>3 DEF NodeHashes, Replied, CallOK, At
  <2> HIDE DEF c
  <2>2. CallOK([query[q] EXCEPT !.pc = "hashed", !.reply = c])
    BY <1>1, <1>2, <2>1 DEF CallOK, QueryState
  <2>3. QED
    BY <1>3, <2>2, OneCall DEF NodeHashes, Replied, c
<1>4. CASE NodeChecks(q)
  <2>1. query[q].pc = "canonical" /\ ViewReady /\ n <= Number[finalizedHead]
        /\ query[q].hash \in Block /\ Number[query[q].hash] = n
    BY <1>1, <1>4 DEF NodeChecks, Replied, CallOK
  <2>2. c # NoBlock => IsFinal(c) /\ Number[c] = n
    BY <1>1, <1>2, <2>1, FinalHeight DEF At
  <2> HIDE DEF c
  <2>3. CallOK([query[q] EXCEPT !.pc = "checked", !.reply = c])
    BY <1>1, <1>2, <2>1, <2>2 DEF CallOK, QueryState
  <2>4. QED
    BY <1>4, <2>3, OneCall DEF NodeChecks, Replied, c
<1>5. QED
  BY <1>3, <1>4

(* The hash of a height is kept: it is a hash of that height. *)
LEMMA Kept ==
  ASSUME TagsInv, NEW q \in Query, HashKnown(q)
  PROVE  TagsInv'
<1> DEFINE n == query[q].number
           h == query[q].reply
           r == [query[q] EXCEPT !.pc = "resolved", !.hash = h, !.number = n]
<1>1. /\ query[q] \in QueryState /\ n \in Nat /\ ViewInv
      /\ h \in Block /\ Number[h] = n
  BY DEF TagsInv, TypeOK, QueryState, CallOK, HashKnown
<1> ViewReady
  BY <1>1 DEF TagsInv, CallOK, HashKnown
<1>2. CallOK(r) /\ r \in QueryState
  BY <1>1, ResolvedOK DEF CallOK
<1>3. UNCHANGED <<chainVars, viewVars>> /\ query' = [query EXCEPT ![q] = r]
  BY DEF HashKnown, Resolved, Set
<1> HIDE DEF r
<1>4. ViewInv'
  BY <1>1, <1>3 DEF ViewInv, ViewTypeOK, ChainTypeOK, IsFinal, chainVars, viewVars
<1>5. queryCache' = queryCache \/ queryCache' = [queryCache EXCEPT ![n] = h]
  BY DEF HashKnown
<1>6. TypeOK'
  BY <1>1, <1>2, <1>3, <1>4, <1>5 DEF TagsInv, TypeOK, ViewInv
<1>7. ASSUME NEW p \in Query PROVE CallOK(query[p])'
  <2>1. CallOK(query'[p])
    BY <1>2, <1>3 DEF TagsInv, TypeOK
  <2>2. QED
    BY <1>3, <2>1 DEF CallOK, IsFinal, ViewReady, chainVars, viewVars
<1>8. ASSUME NEW m \in Heights PROVE EntryOK(m)'
  BY <1>1, <1>5 DEF TagsInv, TypeOK, EntryOK
<1>9. QED
  BY <1>4, <1>6, <1>7, <1>8 DEF TagsInv

(* The verdict: by height, by hash, or by the node's answer. *)
LEMMA Judged ==
  ASSUME TagsInv, NEW q \in Query, Judge(q) \/ Conclude(q) \/ NotFound(q) \/ Return(q)
  PROVE  TagsInv'
<1>1. query[q] \in QueryState /\ CallOK(query[q]) /\ ViewInv
  BY DEF TagsInv, TypeOK
<1> query[q].pc # "idle" => ViewReady
  BY <1>1 DEF CallOK
<1>2. CASE NotFound(q) \/ Return(q)
  BY <1>2, IdleOK, OneCall DEF NotFound, Return
<1>3. CASE Judge(q)
  <2>1. /\ query[q].pc = "resolved" /\ ViewReady
        /\ query[q].hash \in Block /\ Number[query[q].hash] = query[q].number
        /\ query[q].number \in Nat
    BY <1>1, <1>3 DEF Judge, CallOK, QueryState
  <2>2. query[q].hash \in finalHashes => IsFinal(query[q].hash)
    BY <1>1 DEF ViewInv
  <2>3. CallOK([query[q] EXCEPT !.pc = "done", !.answer = FALSE])
    BY <1>1, <2>1 DEF CallOK, QueryState
  <2>4. query[q].hash \in finalHashes =>
          CallOK([query[q] EXCEPT !.pc = "done", !.answer = TRUE])
    BY <1>1, <2>1, <2>2 DEF CallOK, QueryState
  <2>5. query[q].number <= FinalizedBlockNumber =>
          CallOK([query[q] EXCEPT !.pc = "canonical"])
    <3>1. query[q].number <= FinalizedBlockNumber => query[q].number <= Number[finalizedHead]
      BY <1>1, <2>1, FinalizedNumberIsFinal, AncestorsOfBlock
      DEF ViewInv, ViewTypeOK, ChainTypeOK
    <3>2. QED
      BY <1>1, <2>1, <3>1 DEF CallOK, QueryState
  <2>6. ~(query[q].number > FinalizedBlockNumber) => query[q].number <= FinalizedBlockNumber
    BY <1>1, <2>1, FinalizedNumberIsFinal
  <2>7. QED
    BY <1>3, <2>3, <2>4, <2>5, <2>6, OneCall DEF Judge, Answer
<1>4. CASE Conclude(q)
  <2>1. /\ query[q].pc = "checked" /\ ViewReady
        /\ query[q].hash \in Block /\ Number[query[q].hash] = query[q].number
        /\ query[q].reply # NoBlock => IsFinal(query[q].reply)
    BY <1>1, <1>4 DEF Conclude, CallOK
  <2>2. query[q].reply # NoBlock =>
          CallOK([query[q] EXCEPT !.pc = "done", !.answer = (query[q].reply = query[q].hash)])
    BY <1>1, <2>1 DEF CallOK, QueryState
  <2>3. QED
    BY <1>4, <2>2, IdleOK, OneCall DEF Conclude, Answer
<1>5. QED
  BY <1>2, <1>3, <1>4

(* An entry dropped from the cache leaves nothing to hold. *)
LEMMA Dropped ==
  ASSUME TagsInv, NEW n \in Heights, Forget(n)
  PROVE  TagsInv'
<1>1. /\ UNCHANGED <<chainVars, viewVars, query>>
      /\ queryCache' = [queryCache EXCEPT ![n] = NoBlock]
  BY DEF Forget
<1>2. ViewInv'
  BY <1>1 DEF TagsInv, ViewInv, ViewTypeOK, ChainTypeOK, IsFinal, chainVars, viewVars
<1>3. TypeOK'
  BY <1>1, <1>2 DEF TagsInv, TypeOK, ViewInv
<1>4. ASSUME NEW p \in Query PROVE CallOK(query[p])'
  <2>1. CallOK(query[p])
    BY DEF TagsInv
  <2>2. QED
    BY <1>1, <2>1 DEF CallOK, IsFinal, ViewReady, chainVars, viewVars
<1>5. ASSUME NEW m \in Heights PROVE EntryOK(m)'
  BY <1>1 DEF TagsInv, TypeOK, EntryOK, IsFinal, chainVars
<1>6. QED
  BY <1>2, <1>3, <1>4, <1>5 DEF TagsInv

LEMMA TagsInvariant == Spec => []TagsInv
<1>1. Init => TagsInv
  <2> SUFFICES ASSUME Init PROVE TagsInv
    OBVIOUS
  <2>1. ViewInv
    BY ViewInvInit DEF Init
  <2>2. \A q \in Query : CallOK(query[q]) /\ query[q] \in QueryState
    BY IdleOK DEF Init, CallOK
  <2>3. TypeOK
    BY <2>1, <2>2 DEF Init, TypeOK, ViewInv
  <2>4. QED
    BY <2>1, <2>2, <2>3 DEF TagsInv, EntryOK, Init
<1>2. TagsInv /\ [Next]_vars => TagsInv'
  <2> SUFFICES ASSUME TagsInv, [Next]_vars PROVE TagsInv'
    OBVIOUS
  <2>1. CASE UNCHANGED vars
    BY <2>1 DEF vars, TagsInv, TypeOK, ViewInv, ViewTypeOK, ChainTypeOK, CallOK, EntryOK,
                IsFinal, ViewReady, chainVars, viewVars
  <2>2. CASE ViewNext /\ UNCHANGED <<queryCache, query>>
    BY <2>2, ChainMoves
  <2>3. ASSUME NEW q \in Query,
               AskStep(q) \/ NodeHashes(q) \/ NodeChecks(q) \/ UseStep(q) \/ Return(q)
        PROVE  TagsInv'
    BY <2>3, Asked, Answered, Kept, Judged DEF UseStep
  <2>4. ASSUME NEW n \in Heights, Forget(n) PROVE TagsInv'
    BY <2>4, Dropped
  <2>5. QED
    BY <2>1, <2>2, <2>3, <2>4 DEF Next
<1>3. QED
  BY <1>1, <1>2, PTL DEF Spec

-----------------------------------------------------------------------------
(* Every call keeps the types. *)
THEOREM TypeCorrect == Spec => []TypeOK
<1>1. TagsInv => TypeOK
  BY DEF TagsInv
<1>2. QED
  BY <1>1, TagsInvariant, PTL

(* A yes is given only for a block that is final, however the chain moves  *)
(* during the call.                                                        *)
THEOREM YesMeansFinal == Spec => []YesIsFinal
<1>1. TagsInv => YesIsFinal
  BY DEF TagsInv, CallOK, YesIsFinal
<1>2. QED
  BY <1>1, TagsInvariant, PTL

(* The node's answer decides the question either way. *)
THEOREM VerdictDecides == Spec => []VerdictIsTruth
<1>1. TagsInv => VerdictIsTruth
  <2> SUFFICES ASSUME TagsInv, NEW q \in Query,
                      query[q].pc = "checked", query[q].reply # NoBlock
               PROVE  (query[q].reply = query[q].hash) = IsFinal(query[q].hash)
    BY DEF VerdictIsTruth
  <2>1. /\ IsFinal(query[q].reply)
        /\ Number[query[q].reply] = query[q].number
        /\ Number[query[q].hash] = query[q].number
        /\ finalizedHead \in Block
    BY DEF TagsInv, CallOK, ViewInv, ViewTypeOK, ChainTypeOK
  <2>2. IsFinal(query[q].hash) => query[q].reply = query[q].hash
    BY <2>1, OneBlockPerHeight DEF IsFinal
  <2>3. QED
    BY <2>1, <2>2 DEF IsFinal
<1>2. QED
  BY <1>1, TagsInvariant, PTL

-----------------------------------------------------------------------------
(* BlockData. *)

(* What a call relies on: the indexer had the block before it was asked,   *)
(* or the cache has it all along.                                          *)
CoverOK(r) ==
  /\ r.covered = "indexed" => Indexed(r.block)
  /\ r.covered = "indexed" /\ r.pc = "told" /\ r.block \in WithTxs => r.found
  /\ r.covered = "cached" => r.block \in cached

DataInv ==
  /\ ViewInv
  /\ DataTypeOK
  /\ \A c \in Call : call[c].pc # "idle" => ViewReady /\ call[c].block \in Block
  /\ \A c \in Call : CoverOK(call[c])
  /\ CoveredDataIsFull

-----------------------------------------------------------------------------
LEMMA DataInvInit == DataInit => DataInv
<1>1. SUFFICES ASSUME DataInit PROVE DataInv
  OBVIOUS
<1>2. ViewInv
  BY <1>1, ViewInvInit DEF DataInit
<1>3. DataTypeOK
  BY <1>1, <1>2 DEF DataInit, DataTypeOK, ViewInv, CallState, NoCall, Data
<1>4. \A c \in Call : call[c].pc = "idle" /\ CoverOK(call[c])
  BY <1>1 DEF DataInit, NoCall, CoverOK
<1>5. CoveredDataIsFull
  BY <1>1, DataAssumption DEF DataInit, CoveredDataIsFull
<1>6. QED
  BY <1>2, <1>3, <1>4, <1>5 DEF DataInv

(* What the indexer has it keeps. *)
LEMMA IndexedStays ==
  ASSUME DataInv, [ViewNext]_<<chainVars, viewVars>>, indexedTo' >= indexedTo,
         indexedTo' \in Nat, NEW b, Indexed(b)
  PROVE  b \in Ancestors[finalizedHead'] /\ Number[b] <= indexedTo'
<1>1. ViewInv /\ indexedTo \in Nat
  BY DEF DataInv, DataTypeOK
<1>2. finalizedHead \in Block
  BY <1>1 DEF ViewInv, ViewTypeOK, ChainTypeOK
<1>3. IsFinal(b) /\ b \in Block /\ Number[b] \in Nat
  BY <1>2, AncestorsOfBlock DEF Indexed, IsFinal
<1>4. b \in Ancestors[finalizedHead']
  BY <1>1, <1>3, FinalStays DEF IsFinal, chainVars, viewVars
<1>5. QED
  BY <1>1, <1>3, <1>4 DEF Indexed, IsFinal

(* Steps of the chain, the indexer and the cache eviction. *)
LEMMA Around ==
  ASSUME DataInv, ViewStep \/ Index \/ \E b \in Block : ForgetData(b)
  PROVE  DataInv'
<1>1. [ViewNext]_<<chainVars, viewVars>> /\ uncovered' = uncovered
  BY DEF ViewStep, Index, ForgetData, chainVars, viewVars
<1>2. ViewInv' /\ (ViewReady => ViewReady')
  BY <1>1, FinalFacts, ReadyStays DEF DataInv
<1>3. /\ dataCache' \in [Block -> Data]
      /\ \A b \in Block : dataCache'[b] \in {"absent", dataCache[b]}
      /\ indexedTo' \in Nat /\ indexedTo' >= indexedTo
  <2>1. dataCache \in [Block -> Data] /\ indexedTo \in Nat
    BY DEF DataInv, DataTypeOK
  <2>2. QED
    BY <2>1 DEF ViewStep, Index, ForgetData, Data
<1>4. call \in [Call -> CallState]
  BY DEF DataInv, DataTypeOK
<1>5. \A c \in Call :
        \/ call'[c] = call[c] /\ (call[c].covered = "cached" => call[c].block \in cached')
        \/ call'[c] = [call[c] EXCEPT !.covered = "no"]
  <2>1. CASE ViewStep
    BY <1>4, <2>1 DEF ViewStep
  <2>2. CASE call' = call /\ cached' = cached
    BY <1>4, <2>2 DEF DataInv, CoverOK
  <2>3. QED
    BY <2>1, <2>2 DEF Index, ForgetData, viewVars
<1>6. call' \in [Call -> CallState]
  <2>1. CASE ViewStep
    BY <1>4, <2>1 DEF ViewStep, CallState
  <2>2. CASE call' = call
    BY <1>4, <2>2
  <2>3. QED
    BY <2>1, <2>2 DEF Index, ForgetData
<1>7. DataTypeOK'
  BY <1>1, <1>2, <1>3, <1>6 DEF DataInv, DataTypeOK, ViewInv
<1>8. ASSUME NEW c \in Call
      PROVE  /\ call'[c].pc # "idle" => ViewReady' /\ call'[c].block \in Block
             /\ CoverOK(call[c])'
  <2>1. call[c] \in CallState /\ CoverOK(call[c])
        /\ (call[c].pc # "idle" => ViewReady /\ call[c].block \in Block)
    BY <1>4 DEF DataInv
  <2>2. CASE call'[c] = call[c] /\ (call[c].covered = "cached" => call[c].block \in cached')
    <3>1. call[c].covered = "indexed" => Indexed(call[c].block)'
      <4>1. ASSUME call[c].covered = "indexed" PROVE Indexed(call[c].block)'
        <5> DEFINE b == call[c].block
        <5>1. Indexed(b)
          BY <2>1, <4>1 DEF CoverOK
        <5>2. b \in Ancestors[finalizedHead'] /\ Number[b] <= indexedTo'
          BY <1>1, <1>3, <5>1, IndexedStays
        <5>3. QED
          BY <2>2, <5>2 DEF Indexed, IsFinal
      <4>2. QED
        BY <4>1
    <3>2. QED
      BY <1>2, <2>1, <2>2, <3>1 DEF CoverOK
  <2>3. CASE call'[c] = [call[c] EXCEPT !.covered = "no"]
    BY <1>2, <2>1, <2>3 DEF CoverOK, CallState
  <2>4. QED
    BY <1>5, <2>2, <2>3
<1>9. CoveredDataIsFull'
  BY <1>1, <1>3, DataAssumption DEF DataInv, CoveredDataIsFull
<1>10. QED
  BY <1>2, <1>7, <1>8, <1>9 DEF DataInv

(* Steps of a call that keep nothing. *)
LEMMA Asking ==
  ASSUME DataInv, NEW c \in Call,
         (\E b \in Block : Ask(c, b)) \/ IndexerTells(c) \/ Fail(c)
  PROVE  DataInv'
<1>1. UNCHANGED <<chainVars, viewVars, indexedTo, dataCache, uncovered>>
  BY DEF Ask, IndexerTells, Fail
<1>2. call \in [Call -> CallState]
  BY DEF DataInv, DataTypeOK
<1>3. \E r \in CallState :
        /\ call' = [call EXCEPT ![c] = r]
        /\ r.pc # "idle" => ViewReady /\ r.block \in Block
        /\ CoverOK(r)
  <2>1. CASE \E b \in Block : Ask(c, b)
    <3>1. PICK b \in Block : Ask(c, b)
      BY <2>1
    <3> DEFINE v == IF Indexed(b) THEN "indexed" ELSE IF b \in cached THEN "cached" ELSE "no"
               r == [pc |-> "asked", block |-> b, found |-> FALSE, covered |-> v]
    <3>2. v \in {"indexed", "cached", "no"} /\ (v = "indexed" => Indexed(b))
          /\ (v = "cached" => b \in cached)
      OBVIOUS
    <3>3. call' = [call EXCEPT ![c] = r] /\ ViewReady
      BY <3>1 DEF Ask
    <3> HIDE DEF v
    <3>4. r \in CallState /\ CoverOK(r)
      BY <3>2 DEF CallState, CoverOK
    <3>5. QED
      BY <3>3, <3>4
  <2>2. CASE IndexerTells(c)
    <3> DEFINE has == Indexed(call[c].block) /\ call[c].block \in WithTxs
               r == [call[c] EXCEPT !.pc = "told", !.found = has]
    <3>1. has \in BOOLEAN
      BY Zenon DEF Indexed, IsFinal
    <3>2. call' = [call EXCEPT ![c] = r] /\ call[c].pc = "asked"
      BY <1>2, <2>2 DEF IndexerTells, CallState
    <3>3. CoverOK(call[c]) /\ ViewReady /\ call[c].block \in Block
      BY <3>2 DEF DataInv
    <3>4. call[c].covered = "indexed" /\ call[c].block \in WithTxs => has
      BY <3>3 DEF CoverOK
    <3> HIDE DEF has
    <3>5. r \in CallState /\ CoverOK(r)
      BY <1>2, <3>1, <3>3, <3>4 DEF CallState, CoverOK
    <3>6. QED
      BY <1>2, <3>2, <3>3, <3>5 DEF CallState
  <2>3. CASE Fail(c)
    <3>1. NoCall \in CallState /\ CoverOK(NoCall) /\ NoCall.pc = "idle"
      BY DEF NoCall, CallState, CoverOK
    <3>2. QED
      BY <2>3, <3>1 DEF Fail
  <2>4. QED
    BY <2>1, <2>2, <2>3
<1>4. ViewInv' /\ (ViewReady => ViewReady')
  BY <1>1 DEF DataInv, ViewInv, ViewTypeOK, ChainTypeOK, IsFinal, ViewReady, chainVars, viewVars
<1>5. call' \in [Call -> CallState]
  BY <1>2, <1>3
<1>6. DataTypeOK'
  BY <1>1, <1>4, <1>5 DEF DataInv, DataTypeOK, ViewInv
<1>7. ASSUME NEW d \in Call
      PROVE  (call'[d].pc # "idle" => ViewReady' /\ call'[d].block \in Block) /\ CoverOK(call[d])'
  <2>1. CoverOK(call'[d]) /\ (call'[d].pc # "idle" => ViewReady /\ call'[d].block \in Block)
    BY <1>2, <1>3 DEF DataInv
  <2>2. QED
    BY <1>1, <1>4, <2>1 DEF CoverOK, Indexed, IsFinal, chainVars, viewVars
<1>8. QED
  BY <1>1, <1>4, <1>6, <1>7 DEF DataInv, CoveredDataIsFull

(* Data is kept: of a block that the indexer or the cache has, all of it. *)
LEMMA Keeping ==
  ASSUME DataInv, NEW c \in Call, AnswerCall(c)
  PROVE  DataInv'
<1> DEFINE b == call[c].block
<1>1. /\ UNCHANGED <<chainVars, viewVars, indexedTo>>
      /\ call[c].pc = "told" /\ b \in Block /\ call[c] \in CallState
      /\ call \in [Call -> CallState] /\ dataCache \in [Block -> Data] /\ uncovered \subseteq Block
      /\ call' = [call EXCEPT ![c] = NoCall]
  BY DEF AnswerCall, DataInv, DataTypeOK
<1>2. NoCall \in CallState /\ CoverOK(NoCall) /\ NoCall.pc = "idle"
  BY DEF NoCall, CallState, CoverOK
<1>3. ViewInv' /\ (ViewReady => ViewReady')
  BY <1>1 DEF DataInv, ViewInv, ViewTypeOK, ChainTypeOK, IsFinal, ViewReady, chainVars, viewVars
<1>4. Receipts(c) \in Data
  BY DEF Receipts, Data
<1>5. \/ dataCache' = dataCache /\ uncovered' = uncovered
      \/ /\ dataCache' = [dataCache EXCEPT ![b] = Receipts(c)]
         /\ uncovered' = IF call[c].covered = "no" THEN uncovered \cup {b}
                         ELSE uncovered \ {b}
  BY DEF AnswerCall, Covers
<1>6. DataTypeOK'
  BY <1>1, <1>2, <1>3, <1>4, <1>5 DEF DataInv, DataTypeOK, ViewInv
<1>7. ASSUME NEW d \in Call
      PROVE  (call'[d].pc # "idle" => ViewReady' /\ call'[d].block \in Block) /\ CoverOK(call[d])'
  <2>1. CoverOK(call'[d]) /\ (call'[d].pc # "idle" => ViewReady /\ call'[d].block \in Block)
    BY <1>1, <1>2 DEF DataInv
  <2>2. QED
    BY <1>1, <1>3, <2>1 DEF CoverOK, Indexed, IsFinal, chainVars, viewVars
<1>8. call[c].covered # "no" /\ b \in WithTxs => Receipts(c) = "full"
  <2>1. CoverOK(call[c]) /\ call[c].covered \in {"indexed", "cached", "no"}
    BY <1>1 DEF DataInv, CallState
  <2>2. QED
    BY <1>1, <2>1 DEF CoverOK, Receipts
<1>9. CoveredDataIsFull'
  <2> SUFFICES ASSUME NEW d \in WithTxs, dataCache'[d] = "empty" PROVE d \in uncovered'
    BY DEF CoveredDataIsFull
  <2>1. dataCache[d] = "empty" => d \in uncovered
    BY DEF DataInv, CoveredDataIsFull
  <2>2. QED
    BY <1>1, <1>5, <1>8, <2>1, DataAssumption
<1>10. QED
  BY <1>3, <1>6, <1>7, <1>9 DEF DataInv

LEMMA DataInvStays ==
  ASSUME DataInv, [DataNext]_dataVars
  PROVE  DataInv'
<1>1. CASE UNCHANGED dataVars
  <2>1. UNCHANGED <<chainVars, viewVars, indexedTo, dataCache, call, uncovered>>
    BY <1>1 DEF dataVars
  <2>2. ViewInv' /\ (ViewReady => ViewReady')
    BY <2>1 DEF DataInv, ViewInv, ViewTypeOK, ChainTypeOK, IsFinal, ViewReady, chainVars, viewVars
  <2>3. QED
    BY <2>1, <2>2 DEF DataInv, DataTypeOK, ViewInv, CoverOK, Indexed, CoveredDataIsFull, IsFinal,
                      chainVars, viewVars
<1>2. CASE DataNext
  BY <1>2, Around, Asking, Keeping DEF DataNext
<1>3. QED
  BY <1>1, <1>2

-----------------------------------------------------------------------------
LEMMA DataInvariant == DataSpec => []DataInv
<1>1. DataInit => DataInv
  BY DataInvInit
<1>2. DataInv /\ [DataNext]_dataVars => DataInv'
  BY DataInvStays
<1>3. QED
  BY <1>1, <1>2, PTL DEF DataSpec

(* The types of the caches and the calls. *)
THEOREM DataTypeCorrect == DataSpec => []DataTypeOK
<1>1. DataInv => DataTypeOK
  BY DEF DataInv
<1>2. QED
  BY <1>1, DataInvariant, PTL

(* What is kept lacks the block's transactions only when the indexer had   *)
(* not reached the block before the call and the cache was without it at   *)
(* some moment of the call, whatever the chain, the indexer and the caches *)
(* do while the answers come in.                                           *)
THEOREM KeptIsFull == DataSpec => []CoveredDataIsFull
<1>1. DataInv => CoveredDataIsFull
  BY DEF DataInv
<1>2. QED
  BY <1>1, DataInvariant, PTL
=============================================================================
