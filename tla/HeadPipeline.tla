---------------------------- MODULE HeadPipeline ----------------------------
(***************************************************************************)
(* The head pipeline of eth-providers/src/base-provider.ts: the two chain  *)
(* subscriptions, the task scheduled for every head (_onNewHead) and for   *)
(* every finalized head (_onNewFinalizedHead), their retries, the block    *)
(* cache they fill, the notifications they send, and disconnect().         *)
(*                                                                         *)
(* JavaScript runs to completion between two awaits, so an action is the   *)
(* code from one await to the next; what is awaited (an RPC reply, a       *)
(* timer) may come at any later time, in any order between tasks.          *)
(***************************************************************************)
EXTENDS Chain, Sequences, FiniteSets

CONSTANTS Tx, TxsIn,          \* of BlockCache
          MaxCachedBlocks,
          Attempts,           \* how often a task is tried (5 in the code)
          DrainRounds,        \* how often disconnect() looks (5 in the code)
          SafeMode,           \* TRUE when tasks follow finalized heads
          MaxTasks,           \* bound: head tasks and finalized tasks made
          MaxFinal,           \* bound: the highest block finalized
          MaxReannounced      \* bound: heads announced again on a reconnect

(* Below two the set of finalized blocks breaks: see MaxSizeSet. *)
ASSUME PipelineAssumption ==
  /\ TxsIn \in [Block -> SUBSET Tx]
  /\ MaxCachedBlocks \in Nat /\ MaxCachedBlocks >= 2
  /\ Attempts \in Nat \ {0}
  /\ DrainRounds \in Nat \ {0}
  /\ SafeMode \in BOOLEAN
  /\ MaxTasks \in Nat
  /\ MaxFinal \in Nat
  /\ MaxReannounced \in Nat

VARIABLES
  phase,               \* "starting", "leaving", "running", "draining", "closed"
  firstBlock,          \* the first head of startSubscriptions
  best, finalized,     \* the last values of best$ and finalized$
  finalizedBlockHashes,
  cachedBlockHashes, blockHashToReceipts, txHashToReceipt, lastCachedBlock,
  tasks,               \* every task made, in order
  taskMap,             \* #headTasks and #finalizedHeadTasks: 0 is no entry
  listening,           \* a newHeads, a newFinalizedHeads, a logs listener
  drain,               \* rounds disconnect() has left
  reannounced,
  overtaken            \* history: a head was cached before an older one

cacheVars == <<cachedBlockHashes, blockHashToReceipts, txHashToReceipt, lastCachedBlock>>
streamVars == <<firstBlock, best, finalized, finalizedBlockHashes, reannounced>>
vars == <<chainVars, phase, streamVars, cacheVars, tasks, taskMap, listening, drain, overtaken>>

BC == INSTANCE BlockCache WITH added <- << >>, MaxAdds <- 0
Finals == INSTANCE SlidingWindow
            WITH Item <- Block, limit <- MaxCachedBlocks,
                 window <- finalizedBlockHashes

Kind == {"head", "final"}
State == {"scheduled", "fetching", "notifying", "done", "gaveUp", "cancelled"}

Task == [kind  : Kind,
         block : Block,
         left  : 0..Attempts,   \* attempts not yet begun
         st    : State,
         heard : BOOLEAN,       \* found listeners when it came to notify
         sent  : Nat,           \* history: times the listeners were called
         threw : Nat]           \* history: times a listener then threw

TaskId == DOMAIN tasks
HeadTask == {i \in TaskId : tasks[i].kind = "head"}

(* A task that still has something to do. *)
Live(i) == tasks[i].st \in {"scheduled", "fetching", "notifying"}

TypeOK ==
  /\ ChainTypeOK
  /\ phase \in {"starting", "leaving", "running", "draining", "closed"}
  /\ {firstBlock, best, finalized, lastCachedBlock} \subseteq Block \cup {NoBlock}
  /\ finalizedBlockHashes \in Seq(Block)
  /\ BC!TypeOK
  /\ tasks \in Seq(Task)
  /\ taskMap \in [Kind -> [Block -> Nat]]
  /\ \A k \in Kind, b \in Block : taskMap[k][b] \in TaskId \cup {0}
  /\ listening \in BOOLEAN
  /\ drain \in 0..DrainRounds
  /\ reannounced \in Nat
  /\ overtaken \in BOOLEAN

Init ==
  /\ ChainInit
  /\ phase = "starting"
  /\ firstBlock = NoBlock
  /\ best = NoBlock
  /\ finalized = NoBlock
  /\ finalizedBlockHashes = << >>
  /\ BC!Init
  /\ tasks = << >>
  /\ taskMap = [k \in Kind |-> [b \in Block |-> 0]]
  /\ listening = FALSE
  /\ drain = DrainRounds
  /\ reannounced = 0
  /\ overtaken = FALSE

-----------------------------------------------------------------------------
NewTask(k, b) ==
  [kind |-> k, block |-> b, left |-> Attempts, st |-> "scheduled",
   heard |-> FALSE, sent |-> 0, threw |-> 0]

(* A task for block b, unless there is no such block or it is the genesis  *)
(* block, and the map entry that names it: the entry of a block that is    *)
(* announced again is overwritten and the task it named left alone.        *)
Wanted(b) == b # NoBlock /\ Number[b] > 0
Made(ts, k, b) == IF Wanted(b) THEN Append(ts, NewTask(k, b)) ELSE ts
Entered(m, k, b, id) == IF Wanted(b) THEN [m EXCEPT ![k][b] = id] ELSE m

(* The task subscribers of startSubscriptions(): a head task for block h,  *)
(* a finalized task for block f.                                           *)
Schedule(h, f) ==
  LET one == Made(tasks, "head", h)
      two == Made(one, "final", f)
  IN /\ Len(two) <= MaxTasks
     /\ tasks' = two
     /\ taskMap' = Entered(Entered(taskMap, "head", h, Len(one)), "final", f, Len(two))

(* Slips: safe mode is forgotten; finalized heads drive both modes.        *)
SafeHeadUnsafe(h, f) == h
SafeHeadFinal(h, f) == IF f # NoBlock THEN f ELSE h

(* safeHead$: the stream that head tasks follow. *)
SafeHead(h, f) == IF SafeMode THEN f ELSE h

(* The two subscribers of startSubscriptions(). *)
OnBest(b) == best' = b
OnFinalized(b) ==
  /\ finalized' = b
  /\ IF b \in {finalizedBlockHashes[n] : n \in DOMAIN finalizedBlockHashes}
     THEN UNCHANGED finalizedBlockHashes
     ELSE finalizedBlockHashes' = Finals!Keep(Append(finalizedBlockHashes, b))

(* startSubscriptions() has not returned; a disconnect() called meanwhile  *)
(* waits for it.                                                           *)
Starting == phase \in {"starting", "leaving"}
Subscribed == Starting \/ phase = "running"

(* The node's answer to the subscription: its current best block. *)
FirstHead ==
  /\ Starting
  /\ best = NoBlock
  /\ OnBest(bestHead)
  /\ firstBlock' = bestHead
  /\ UNCHANGED <<chainVars, phase, finalized, finalizedBlockHashes, reannounced,
                 cacheVars, tasks, taskMap, listening, drain, overtaken>>

(* The node's answer to the other one: its last finalized block. *)
FirstFinalized ==
  /\ Starting
  /\ finalized = NoBlock
  /\ OnFinalized(finalizedHead)
  /\ UNCHANGED <<chainVars, phase, firstBlock, best, reannounced,
                 cacheVars, tasks, taskMap, listening, drain, overtaken>>

(* A slip: the tasks start from the first head instead of the latest. *)
ReadyFromFirst ==
  /\ Starting
  /\ best # NoBlock
  /\ finalized # NoBlock
  /\ phase' = IF phase = "leaving" THEN "draining" ELSE "running"
  /\ Schedule(SafeHead(firstBlock, finalized), finalized)
  /\ BC!SetlastCachedBlock(firstBlock)
  /\ UNCHANGED <<chainVars, streamVars, cachedBlockHashes, blockHashToReceipts,
                 txHashToReceipt, listening, drain, overtaken>>

(* startSubscriptions() after its two awaits: the task subscriptions       *)
(* replay the latest value of each stream, and the first head, which may   *)
(* be older by now, becomes the latest block before it is cached.  A       *)
(* disconnect() that waits goes on in the same turn and unsubscribes.      *)
Ready ==
  /\ Starting
  /\ best # NoBlock
  /\ finalized # NoBlock
  /\ phase' = IF phase = "leaving" THEN "draining" ELSE "running"
  /\ Schedule(SafeHead(best, finalized), finalized)
  /\ BC!SetlastCachedBlock(firstBlock)
  /\ UNCHANGED <<chainVars, streamVars, cachedBlockHashes, blockHashToReceipts,
                 txHashToReceipt, listening, drain, overtaken>>

(* A new best block at the node, announced once the subscription is there. *)
(* (After disconnect() the pipeline sees no more of the chain.)            *)
NewHead(b) ==
  /\ Subscribed
  /\ NewBest(b)
  /\ IF best # NoBlock THEN OnBest(b) ELSE UNCHANGED best
  /\ IF phase = "running" THEN Schedule(SafeHead(b, NoBlock), NoBlock)
     ELSE UNCHANGED <<tasks, taskMap>>
  /\ UNCHANGED <<phase, firstBlock, finalized, finalizedBlockHashes, reannounced,
                 cacheVars, listening, drain, overtaken>>

(* A block finalized at the node, announced likewise. *)
NewFinalizedHead(b) ==
  /\ Subscribed
  /\ Number[b] <= MaxFinal
  /\ Finalize(b)
  /\ IF finalized # NoBlock THEN OnFinalized(b)
     ELSE UNCHANGED <<finalized, finalizedBlockHashes>>
  /\ IF phase = "running" THEN Schedule(SafeHead(NoBlock, b), b)
     ELSE UNCHANGED <<tasks, taskMap>>
  /\ UNCHANGED <<phase, firstBlock, best, reannounced,
                 cacheVars, listening, drain, overtaken>>

(* The connection comes back and both subscriptions are made anew: the     *)
(* node answers with the heads it has, announced before or not.            *)
Reconnect ==
  /\ phase = "running"
  /\ reannounced < MaxReannounced
  /\ reannounced' = reannounced + 1
  /\ OnBest(bestHead)
  /\ OnFinalized(finalizedHead)
  /\ Schedule(SafeHead(bestHead, finalizedHead), finalizedHead)
  /\ UNCHANGED <<chainVars, phase, firstBlock, cacheVars, listening, drain, overtaken>>

-----------------------------------------------------------------------------
(* Unsubscribing the task of map entry j: a task that is already running   *)
(* goes on, one that waits for its timer never runs again.                 *)
Unsubscribe(ts, j) ==
  IF j # 0 /\ ts[j].st = "scheduled" THEN [ts EXCEPT ![j].st = "cancelled"] ELSE ts

(* A slip: the entry stays. *)
FinishNamed(i, ts) ==
  LET t == ts[i]
  IN /\ tasks' = Unsubscribe([ts EXCEPT ![i].st = "done"], taskMap[t.kind][t.block])
     /\ UNCHANGED taskMap

(* The end of a task that succeeded: the entry of its block goes, with     *)
(* whatever other task it names.                                           *)
Finish(i, ts) ==
  LET t == ts[i]
  IN /\ tasks' = Unsubscribe([ts EXCEPT ![i].st = "done"], taskMap[t.kind][t.block])
     /\ taskMap' = [taskMap EXCEPT ![t.kind][t.block] = 0]

(* A slip: the task just scheduled is the one unsubscribed. *)
RetrySetFirst(i, ts) ==
  LET t == ts[i]
  IN IF t.left > 0
     THEN /\ tasks' = Unsubscribe([ts EXCEPT ![i].st = "scheduled"], i)
          /\ taskMap' = [taskMap EXCEPT ![t.kind][t.block] = i]
     ELSE /\ tasks' = [ts EXCEPT ![i].st = "gaveUp"]
          /\ UNCHANGED taskMap

(* The catch block: tried again in a second, or given up with the map      *)
(* entry left as it is.                                                    *)
Retry(i, ts) ==
  LET t == ts[i]
      j == taskMap[t.kind][t.block]
  IN IF t.left > 0
     THEN /\ tasks' = [(IF j = i THEN ts ELSE Unsubscribe(ts, j))
                         EXCEPT ![i].st = "scheduled"]
          /\ taskMap' = [taskMap EXCEPT ![t.kind][t.block] = i]
     ELSE /\ tasks' = [ts EXCEPT ![i].st = "gaveUp"]
          /\ UNCHANGED taskMap

(* The timer of task i: the attempt begins with its first RPC. *)
Start(i) ==
  /\ tasks[i].st = "scheduled"
  /\ tasks' = [tasks EXCEPT ![i].left = @ - 1,
                            ![i].st = IF tasks[i].kind = "head" THEN "fetching"
                                      ELSE "notifying"]
  /\ UNCHANGED <<chainVars, phase, streamVars, cacheVars, taskMap, listening, drain, overtaken>>

(* A slip: the latest block is the head announced last, not the one cached. *)
FetchedNamesBest(i) ==
  /\ tasks[i].st = "fetching"
  /\ phase # "closed"
  /\ BC!AddReceipts(tasks[i].block)
  /\ BC!SetlastCachedBlock(best)
  /\ overtaken' = (overtaken \/ \E j \in HeadTask : j < i /\ Live(j))
  /\ IF listening
     THEN /\ tasks' = [tasks EXCEPT ![i].st = "notifying", ![i].heard = TRUE]
          /\ UNCHANGED taskMap
     ELSE Finish(i, [tasks EXCEPT ![i].heard = FALSE])
  /\ UNCHANGED <<chainVars, phase, streamVars, listening, drain>>

(* getAllReceiptsAtBlock() answered: the block is cached and becomes the   *)
(* latest, before _notifySubscribers() looks for listeners.  Without any   *)
(* the task is over.                                                       *)
Fetched(i) ==
  /\ tasks[i].st = "fetching"
  /\ phase # "closed"
  /\ BC!Cache(tasks[i].block)
  /\ overtaken' = (overtaken \/ \E j \in HeadTask : j < i /\ Live(j))
  /\ IF listening
     THEN /\ tasks' = [tasks EXCEPT ![i].st = "notifying", ![i].heard = TRUE]
          /\ UNCHANGED taskMap
     ELSE Finish(i, [tasks EXCEPT ![i].heard = FALSE])
  /\ UNCHANGED <<chainVars, phase, streamVars, listening, drain>>

FetchFailed(i) ==
  /\ tasks[i].st = "fetching"
  /\ Retry(i, tasks)
  /\ UNCHANGED <<chainVars, phase, streamVars, cacheVars, listening, drain, overtaken>>

(* getBlockDataForHeader() answered: the listeners are called, those a     *)
(* head task found before it asked, those a finalized task finds now.      *)
Called(i) ==
  IF tasks[i].kind = "head" \/ listening
  THEN [tasks EXCEPT ![i].sent = @ + 1] ELSE tasks

(* A slip: the task is scheduled again although it succeeded. *)
NotifiedAgain(i) ==
  /\ tasks[i].st = "notifying"
  /\ phase # "closed"
  /\ Retry(i, Called(i))
  /\ UNCHANGED <<chainVars, phase, streamVars, cacheVars, listening, drain, overtaken>>

Notified(i) ==
  /\ tasks[i].st = "notifying"
  /\ phase # "closed"
  /\ Finish(i, Called(i))
  /\ UNCHANGED <<chainVars, phase, streamVars, cacheVars, listening, drain, overtaken>>

(* getBlockDataForHeader() failed: no listener has been called. *)
NotifyFailed(i) ==
  /\ tasks[i].st = "notifying"
  /\ Retry(i, tasks)
  /\ UNCHANGED <<chainVars, phase, streamVars, cacheVars, listening, drain, overtaken>>

(* A listener, or the log filter after the newHeads listeners, threw. *)
ListenerThrew(i) ==
  /\ tasks[i].st = "notifying"
  /\ phase # "closed"
  /\ tasks[i].kind = "head" \/ listening
  /\ Retry(i, [Called(i) EXCEPT ![i].threw = @ + 1])
  /\ UNCHANGED <<chainVars, phase, streamVars, cacheVars, listening, drain, overtaken>>

(* addEventListener() for every kind of event at once. *)
Listen ==
  /\ phase \in {"starting", "running"}
  /\ ~listening
  /\ listening' = TRUE
  /\ UNCHANGED <<chainVars, phase, streamVars, cacheVars, tasks, taskMap, drain, overtaken>>

-----------------------------------------------------------------------------
(* A slip: the finalized tasks are not waited for. *)
PendingHeads == {kb \in {"head"} \X Block : taskMap[kb[1]][kb[2]] # 0}

(* The entries whose number disconnect() calls pendingTasks. *)
Pending == {kb \in Kind \X Block : taskMap[kb[1]][kb[2]] # 0}

(* disconnect(): no listener is left and, now or once they are there, no   *)
(* subscription.                                                           *)
Disconnect ==
  /\ phase \in {"starting", "running"}
  /\ phase' = IF phase = "starting" THEN "leaving" ELSE "draining"
  /\ listening' = FALSE
  /\ UNCHANGED <<chainVars, streamVars, cacheVars, tasks, taskMap, drain, overtaken>>

(* A slip: the rounds are not counted. *)
DrainForever ==
  /\ phase = "draining"
  /\ drain > 0
  /\ Pending # {}
  /\ UNCHANGED vars

(* One round of its loop: tasks are pending, look again in a second. *)
DrainWait ==
  /\ phase = "draining"
  /\ drain > 0
  /\ Pending # {}
  /\ drain' = drain - 1
  /\ UNCHANGED <<chainVars, phase, streamVars, cacheVars, tasks, taskMap, listening, overtaken>>

(* Nothing is pending, or it has looked often enough: api.disconnect(). *)
Close ==
  /\ phase = "draining"
  /\ drain = 0 \/ Pending = {}
  /\ phase' = "closed"
  /\ UNCHANGED <<chainVars, streamVars, cacheVars, tasks, taskMap, listening, drain, overtaken>>

TaskStep(i) ==
  \/ Start(i)
  \/ Fetched(i)
  \/ FetchFailed(i)
  \/ Notified(i)
  \/ NotifyFailed(i)
  \/ ListenerThrew(i)

Next ==
  \/ FirstHead
  \/ FirstFinalized
  \/ Ready
  \/ \E b \in Block : NewHead(b) \/ NewFinalizedHead(b)
  \/ Reconnect
  \/ Listen
  \/ \E i \in TaskId : TaskStep(i)
  \/ Disconnect
  \/ DrainWait
  \/ Close

Spec == Init /\ [][Next]_vars

(* A timer fires, an RPC is answered or fails, the node answers a          *)
(* subscription, the loop of disconnect() comes round.  Nothing makes the  *)
(* chain move or the client connect, listen or leave.                      *)
Fairness ==
  /\ WF_vars(FirstHead)
  /\ WF_vars(FirstFinalized)
  /\ WF_vars(Ready)
  /\ \A i \in 1..MaxTasks : WF_vars(i \in TaskId /\ TaskStep(i))
  /\ WF_vars(DrainWait)
  /\ WF_vars(Close)

FairSpec == Spec /\ Fairness

-----------------------------------------------------------------------------
(* disconnect() waits for what the maps name (base-provider.ts:583-596),   *)
(* so that is all it can wait for: as long as no head is announced twice,  *)
(* every task that still has something to do is named by the entry of its  *)
(* block, through all its retries.                                         *)
EveryTaskNamed ==
  reannounced = 0 =>
    \A i \in TaskId : Live(i) => taskMap[tasks[i].kind][tasks[i].block] = i

(* When disconnect() closes the connection without having run out of       *)
(* rounds, no task is left to run into the closed connection.              *)
DrainedWhenClosed ==
  reannounced = 0 /\ phase = "closed" /\ drain > 0 =>
    \A i \in TaskId : ~Live(i)

(* The listeners found by a task are called once for its head, plus once   *)
(* for every time one of them threw: no other failure, retry or second     *)
(* announcement makes a task notify again.                                 *)
NotifiedOnce ==
  \A i \in TaskId :
    /\ tasks[i].sent <= tasks[i].threw + 1
    /\ tasks[i].st = "done" /\ tasks[i].heard => tasks[i].sent = tasks[i].threw + 1

(* "this should happen *before* notifying subscribers about the new        *)
(* block": a listener told of a head finds its receipts in the cache, or   *)
(* the window has moved past them.                                         *)
CachedBeforeNotified ==
  \A i \in HeadTask : tasks[i].sent > 0 =>
    \/ tasks[i].block \in DOMAIN blockHashToReceipts
    \/ Len(cachedBlockHashes) = MaxCachedBlocks

(* In safe mode "TX and logs can only be found after they are finalized"   *)
(* (eth-rpc-adapter/README.md:49): nothing else ever enters the cache.     *)
SafeModeCachesFinal ==
  SafeMode =>
    /\ \A b \in DOMAIN blockHashToReceipts : IsFinal(b)
    /\ \A t \in Tx : txHashToReceipt[t] # NoBlock => IsFinal(txHashToReceipt[t])

(* The latest block is what eth_blockNumber answers.  It goes down, or     *)
(* sideways to an older announcement, only when a head was cached while an *)
(* older one was still being worked on.                                    *)
LatestNeverRegresses ==
  [][~SafeMode /\ lastCachedBlock # NoBlock /\ ~overtaken' =>
       Number[lastCachedBlock'] >= Number[lastCachedBlock]]_vars

(* When every head task has succeeded and none was overtaken, the latest   *)
(* block is the head announced last.                                       *)
SettledOnBest ==
  /\ phase = "running" /\ ~SafeMode /\ ~overtaken
  /\ HeadTask # {}
  /\ \A i \in HeadTask : tasks[i].st \in {"done", "cancelled"}
  => lastCachedBlock = best

(* Every task ends by itself, done or given up, or is cancelled because    *)
(* another task of the same block has taken over, and then that one ends.  *)
Over(i) ==
  /\ i \in TaskId
  /\ \/ tasks[i].st \in {"done", "gaveUp"}
     \/ /\ tasks[i].st = "cancelled"
        /\ \E j \in TaskId \ {i} : /\ tasks[j].kind = tasks[i].kind
                                  /\ tasks[j].block = tasks[i].block
                                  /\ tasks[j].st \in {"done", "gaveUp"}
EveryHeadHandled == \A i \in 1..MaxTasks : i \in TaskId ~> Over(i)

(* disconnect() comes to an end whatever the tasks do, also when it is     *)
(* called before the subscriptions are there.                              *)
DisconnectEnds == phase \in {"leaving", "draining"} ~> phase = "closed"

(* disconnect() waits while anything is pending: that is a task with       *)
(* something left to do, or one that gave up and left its entry behind,    *)
(* for which it waits in vain.  Nothing else lingers in the maps.          *)
PendingIsLiveOrGivenUp ==
  \A kb \in Pending :
    LET i == taskMap[kb[1]][kb[2]] IN Live(i) \/ tasks[i].st = "gaveUp"

(* All of this looks to the queries like the abstract view. *)
View == INSTANCE HeadView
          WITH finalHashes <- {finalizedBlockHashes[n] : n \in DOMAIN finalizedBlockHashes},
               WithTxs <- {b \in Block : TxsIn[b] # {}},
               cached <- {b \in DOMAIN blockHashToReceipts : TxsIn[b] # {}}
ImplementsView == View!ViewSpec
=============================================================================
