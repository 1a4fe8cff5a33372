------------------------------- MODULE BlockTags -------------------------------
(***************************************************************************)
(* How base-provider.ts turns a block tag into a hash and decides whether  *)
(* a block is final: _getBlockHash with its cache of hashes by number,     *)
(* _getBlockNumber, _isBlockCanonical and _isBlockFinalized, running while *)
(* the chain and the view of it (HeadView) move on.                        *)
(*                                                                         *)
(* A query is the code of one call of eth_isBlockFinalized, from its tag   *)
(* to its answer; the part up to the hash is also every other use of a     *)
(* block number.  Each question to the node is two steps, what the node    *)
(* answers and the moment the answer is used, for the chain may move in    *)
(* between.                                                                *)
(***************************************************************************)
EXTENDS HeadView

CONSTANTS Query,            \* the calls in progress at once
          Heights           \* the block numbers asked for

ASSUME TagsAssumption == Heights \subseteq Nat

VARIABLES queryCache,       \* the entries `blockHash-n`
          query             \* the state of each call

vars == <<chainVars, viewVars, queryCache, query>>

(* pc: "idle" before the call; "lookup" while the node is asked for the    *)
(* hash of a height, "hashed" with its answer; "resolved" when hash and    *)
(* number are known; "canonical" while it is asked again for the hash at   *)
(* that number, "checked" with its answer; "done" with the answer.         *)
QueryState == [pc     : {"idle", "lookup", "hashed", "resolved", "canonical",
                         "checked", "done"},
               hash   : Block \cup {NoBlock},
               number : Nat,
               reply  : Block \cup {NoBlock},    \* the node's last answer
               answer : BOOLEAN]

TypeOK ==
  /\ ViewTypeOK
  /\ queryCache \in [Heights -> Block \cup {NoBlock}]
  /\ query \in [Query -> QueryState]

Idle == [pc |-> "idle", hash |-> NoBlock, number |-> 0,
         reply |-> NoBlock, answer |-> FALSE]

Init ==
  /\ ViewInit
  /\ queryCache = [n \in Heights |-> NoBlock]
  /\ query = [q \in Query |-> Idle]

(* chain_getBlockHash(n) at the node: empty above its best block. *)
CanonicalHash(n) ==
  IF \E b \in Ancestors[bestHead] : Number[b] = n
  THEN CHOOSE b \in Ancestors[bestHead] : Number[b] = n ELSE NoBlock

Set(q, r) == query' = [query EXCEPT ![q] = r]

Resolved(q, h, n) ==
  Set(q, [query[q] EXCEPT !.pc = "resolved", !.hash = h, !.number = n])

(* 'latest': the two getters are read in one turn. *)
AskLatest(q) ==
  /\ query[q].pc = "idle"
  /\ ViewReady
  /\ Resolved(q, BestBlockHash, BestBlockNumber)
  /\ UNCHANGED <<chainVars, viewVars, queryCache>>

(* 'finalized' and 'safe': both getters wait for the same finalized$.      *)
AskFinalized(q) ==
  /\ query[q].pc = "idle"
  /\ ViewReady
  /\ Resolved(q, FinalizedBlockHash, FinalizedBlockNumber)
  /\ UNCHANGED <<chainVars, viewVars, queryCache>>

(* A hash stands for itself; its number is read from its header. *)
AskHash(q, b) ==
  /\ query[q].pc = "idle"
  /\ ViewReady
  /\ b \in known
  /\ Resolved(q, b, Number[b])
  /\ UNCHANGED <<chainVars, viewVars, queryCache>>

(* A number found in the query cache. *)
AskCached(q, n) ==
  /\ query[q].pc = "idle"
  /\ ViewReady
  /\ queryCache[n] # NoBlock
  /\ Resolved(q, queryCache[n], n)
  /\ UNCHANGED <<chainVars, viewVars, queryCache>>

(* A number that is not: the node is asked. *)
AskNumber(q, n) ==
  /\ query[q].pc = "idle"
  /\ ViewReady
  /\ queryCache[n] = NoBlock
  /\ Set(q, [query[q] EXCEPT !.pc = "lookup", !.number = n])
  /\ UNCHANGED <<chainVars, viewVars, queryCache>>

(* An answer from the node to either question. *)
Replied(q, from, to) ==
  /\ query[q].pc = from
  /\ Set(q, [query[q] EXCEPT !.pc = to, !.reply = CanonicalHash(query[q].number)])
  /\ UNCHANGED <<chainVars, viewVars, queryCache>>

NodeHashes(q) == Replied(q, "lookup", "hashed")
NodeChecks(q) == Replied(q, "canonical", "checked")

(* The height is above the chain: 'header not found'. *)
NotFound(q) ==
  /\ query[q].pc = "hashed"
  /\ query[q].reply = NoBlock
  /\ Set(q, Idle)
  /\ UNCHANGED <<chainVars, viewVars, queryCache>>

(* The answer is used: it is kept if by now its height is final. *)
HashKnown(q) ==
  /\ query[q].pc = "hashed"
  /\ query[q].reply # NoBlock
  /\ queryCache' = IF query[q].number <= FinalizedBlockNumber
                   THEN [queryCache EXCEPT ![query[q].number] = query[q].reply]
                   ELSE queryCache
  /\ Resolved(q, query[q].reply, query[q].number)
  /\ UNCHANGED <<chainVars, viewVars>>

Answer(q, yes) == Set(q, [query[q] EXCEPT !.pc = "done", !.answer = yes])

(* Slips: a final height makes every block at it final; the node is asked  *)
(* whatever the height.                                                    *)
JudgeHeightOnly(q) ==
  /\ query[q].pc = "resolved"
  /\ Answer(q, query[q].number <= FinalizedBlockNumber)
  /\ UNCHANGED <<chainVars, viewVars, queryCache>>

JudgeChainOnly(q) ==
  /\ query[q].pc = "resolved"
  /\ IF query[q].hash \in finalHashes THEN Answer(q, TRUE)
     ELSE Set(q, [query[q] EXCEPT !.pc = "canonical"])
  /\ UNCHANGED <<chainVars, viewVars, queryCache>>

(* _isBlockFinalized: not final by its height; final by its hash; or the   *)
(* node is asked whether it is on the best chain.                          *)
Judge(q) ==
  /\ query[q].pc = "resolved"
  /\ IF query[q].number > FinalizedBlockNumber THEN Answer(q, FALSE)
     ELSE IF query[q].hash \in finalHashes THEN Answer(q, TRUE)
     ELSE Set(q, [query[q] EXCEPT !.pc = "canonical"])
  /\ UNCHANGED <<chainVars, viewVars, queryCache>>

(* An empty answer is an error, any other is compared with the hash.       *)
Conclude(q) ==
  /\ query[q].pc = "checked"
  /\ IF query[q].reply = NoBlock THEN Set(q, Idle)
     ELSE Answer(q, query[q].reply = query[q].hash)
  /\ UNCHANGED <<chainVars, viewVars, queryCache>>

(* The caller is gone; the slot serves another call. *)
Return(q) ==
  /\ query[q].pc = "done"
  /\ Set(q, Idle)
  /\ UNCHANGED <<chainVars, viewVars, queryCache>>

(* The LRU cache drops an entry. *)
Forget(n) ==
  /\ queryCache[n] # NoBlock
  /\ queryCache' = [queryCache EXCEPT ![n] = NoBlock]
  /\ UNCHANGED <<chainVars, viewVars, query>>

AskStep(q) ==
  \/ AskLatest(q)
  \/ AskFinalized(q)
  \/ \E b \in Block : AskHash(q, b)
  \/ \E n \in Heights : AskCached(q, n) \/ AskNumber(q, n)

UseStep(q) == NotFound(q) \/ HashKnown(q) \/ Judge(q) \/ Conclude(q)

Next ==
  \/ ViewNext /\ UNCHANGED <<queryCache, query>>
  \/ \E q \in Query : \/ AskStep(q)
                       \/ NodeHashes(q)
                       \/ NodeChecks(q)
                       \/ UseStep(q)
                       \/ Return(q)
  \/ \E n \in Heights : Forget(n)

Spec == Init /\ [][Next]_vars

-----------------------------------------------------------------------------
(* eth_isBlockFinalized, "check if a block is finalized": a yes is given   *)
(* only for a block that is final, however the chain moved during the      *)
(* call: finality is read before the node is asked for the chain.          *)
YesIsFinal ==
  \A q \in Query : query[q].pc = "done" /\ query[q].answer => IsFinal(query[q].hash)

(* When the height is known to be final the node's answer decides it       *)
(* exactly: no later head can make the answer in hand wrong, either way.   *)
VerdictIsTruth ==
  \A q \in Query :
    query[q].pc = "checked" /\ query[q].reply # NoBlock =>
      (query[q].reply = query[q].hash) = IsFinal(query[q].hash)

(* "no need to check for canonicality here since this blockHash is just    *)
(* queried from rpc": a hash kept for a block number is the one that       *)
(* number ends up with.  It is not, when the chain leaves the block and    *)
(* another of its height becomes final after the node has answered and     *)
(* before finality is read.                                                *)
KeptHashIsFinal ==
  \A n \in Heights : queryCache[n] # NoBlock =>
    IsFinal(queryCache[n]) /\ Number[queryCache[n]] = n
=============================================================================
