------------------------------- MODULE Listeners -------------------------------
(***************************************************************************)
(* The event listeners of base-provider.ts: three arrays that              *)
(* addEventListener pushes to and removeEventListener splices, and the     *)
(* tasks of new heads that walk along them.                                *)
(*                                                                         *)
(* A task of a new head takes hold of its arrays before it waits for the   *)
(* block's data, a task of a finalized head after.  A walk is a forEach    *)
(* of JavaScript: nothing else runs in between, but what is called may     *)
(* change the array under it.  What a task does besides is HeadPipeline.   *)
(***************************************************************************)
EXTENDS Naturals, FiniteSets, SequencesExt

CONSTANTS Socket,         \* connections that subscribe
          App,            \* code in the provider's own process
          BestTask, FinalTask,   \* the heads' tasks
          WithLogs,       \* heads whose receipts have logs
          MaxListeners    \* no run adds more listeners

ASSUME ListenersAssumption ==
  /\ App \notin Socket /\ BestTask \cap FinalTask = {}
  /\ WithLogs \subseteq BestTask /\ MaxListeners \in Nat

VARIABLES eventListeners, \* the three arrays, of identifiers
          owner,          \* whose the listeners added so far are
          left,           \* the listeners that were removed
          cut,            \* history: those that disconnect removed
          task,
          detached,       \* what a task holds that disconnect replaced: none or one
          walk            \* the forEach that is running

listenerVars == <<eventListeners, owner, left, cut, task, detached, walk>>

Task == BestTask \cup FinalTask
Kind == {"newHeads", "newFinalizedHeads", "logs"}
Listener == 1 .. MaxListeners
Arrays == [Kind -> Seq(Listener)]
NoArrays == [k \in Kind |-> <<>>]

(* due: who was in the array when the walk began; skipped: who moved to a  *)
(* place that the walk has passed; stale: somebody was called who had left.*)
NoWalk == [task |-> "none", kinds |-> <<>>, at |-> 0, len |-> 0, calls |-> <<>>,
           due |-> {}, skipped |-> {}, stale |-> FALSE]

WalkState == [task : Task, kinds : Seq(Kind), at : Nat, len : Nat, calls : Seq(Listener),
              due : SUBSET Listener, skipped : SUBSET Listener, stale : BOOLEAN]

ListenersTypeOK ==
  /\ eventListeners \in Arrays
  /\ owner \in Seq(Socket \cup {App}) /\ Len(owner) <= MaxListeners
  /\ left \subseteq DOMAIN owner /\ cut \subseteq left
  /\ task \in [Task -> {"idle", "waiting", "done"}]
  /\ detached \in [Task -> SUBSET Arrays]
  /\ \A t \in Task : Cardinality(detached[t]) <= 1
  /\ walk \in WalkState \cup {NoWalk}

ListenersInit ==
  /\ eventListeners = NoArrays
  /\ owner = <<>> /\ left = {} /\ cut = {}
  /\ task = [t \in Task |-> "idle"]
  /\ detached = [t \in Task |-> {}]
  /\ walk = NoWalk

Walking == walk # NoWalk

(* addEventListener; identifiers are random and never come twice. *)
AddEventListener(k, o) ==
  /\ ~Walking /\ Len(owner) < MaxListeners
  /\ owner' = Append(owner, o)
  /\ eventListeners' = [eventListeners EXCEPT ![k] = Append(@, Len(owner) + 1)]
  /\ UNCHANGED <<left, cut, task, detached, walk>>

(* What splices at the places of some identifiers leave of an array, each  *)
(* entry as many places further down as there were removals before it.     *)
Without(array, ids) ==
  LET kept == {i \in DOMAIN array : array[i] \notin ids}
      place(i) == Cardinality({j \in kept : j <= i})
  IN [n \in 1 .. Cardinality(kept) |-> array[CHOOSE i \in kept : place(i) = n]]

(* removeEventListener of each of some identifiers. *)
RemoveEventListeners(ids) ==
  /\ eventListeners' = [k \in Kind |-> Without(eventListeners[k], ids)]
  /\ left' = left \cup ids
  /\ UNCHANGED cut

OwnedBy(o) == {l \in DOMAIN owner \ left : owner[l] = o}

-----------------------------------------------------------------------------
(* A slip: the task keeps copies of the arrays. *)
NotifyCopies(t) ==
  /\ t \in BestTask /\ ~Walking /\ task[t] = "idle"
  /\ task' = [task EXCEPT ![t] = IF eventListeners["newHeads"] = <<>> /\ eventListeners["logs"] = <<>>
                                 THEN "done" ELSE "waiting"]
  /\ detached' = [detached EXCEPT ![t] = {eventListeners}]
  /\ UNCHANGED <<eventListeners, owner, left, cut, walk>>

(* _notifySubscribers up to its await: without a listener it is over.      *)
NotifySubscribers(t) ==
  /\ t \in BestTask /\ ~Walking /\ task[t] = "idle"
  /\ task' = [task EXCEPT ![t] = IF eventListeners["newHeads"] = <<>> /\ eventListeners["logs"] = <<>>
                                 THEN "done" ELSE "waiting"]
  /\ detached' = [detached EXCEPT ![t] = {}]
  /\ UNCHANGED <<eventListeners, owner, left, cut, walk>>

(* _onNewFinalizedHead holds no array while it waits. *)
OnNewFinalizedHead(t) ==
  /\ t \in FinalTask /\ ~Walking /\ task[t] = "idle"
  /\ task' = [task EXCEPT ![t] = "waiting"]
  /\ UNCHANGED <<eventListeners, owner, left, cut, detached, walk>>

(* The block's data do not come: the task is scheduled again.              *)
TaskFails(t) ==
  /\ ~Walking /\ task[t] = "waiting"
  /\ task' = [task EXCEPT ![t] = "idle"]
  /\ UNCHANGED <<eventListeners, owner, left, cut, detached, walk>>

ArrayOf(t, k) ==
  IF detached[t] = {} THEN eventListeners[k] ELSE (CHOOSE old \in detached[t] : TRUE)[k]

WalkFrom(t, kinds) ==
  IF kinds = <<>> THEN NoWalk
  ELSE [NoWalk EXCEPT !.task = t, !.kinds = kinds,
          !.len = Len(ArrayOf(t, Head(kinds))), !.due = ToSet(ArrayOf(t, Head(kinds)))]

(* The block's data have come: the listeners are called one by one, those  *)
(* of logs after those of heads.                                           *)
StartWalk(t) ==
  /\ ~Walking /\ task[t] = "waiting"
  /\ task' = [task EXCEPT ![t] = "done"]
  /\ walk' = WalkFrom(t, IF t \in FinalTask THEN <<"newFinalizedHeads">>
                         ELSE IF t \in WithLogs THEN <<"newHeads", "logs">>
                         ELSE <<"newHeads">>)
  /\ UNCHANGED <<eventListeners, owner, left, cut, detached>>

(* What the listener called does: a reply over a socket removes nothing,   *)
(* code of the same process may remove any listener of its own.            *)
Callback(l) ==
  \/ UNCHANGED <<eventListeners, left, cut>>
  \/ owner[l] = App /\ \E gone \in OwnedBy(App) : RemoveEventListeners({gone})

(* forEach: as many places as there were at first, each read when it is    *)
(* its turn.  A removal at or before the place moves the next one past it. *)
WalkOn ==
  /\ Walking /\ walk.at < walk.len
  /\ LET here == ArrayOf(walk.task, Head(walk.kinds))
         n == walk.at + 1
     IN IF n > Len(here)
        THEN walk' = [walk EXCEPT !.at = n] /\ UNCHANGED <<eventListeners, left, cut>>
        ELSE /\ Callback(here[n])
             /\ walk' = [walk EXCEPT !.at = n, !.calls = Append(@, here[n]),
                           !.stale = @ \/ here[n] \in left \ cut,
                           !.skipped = @ \cup
                             IF detached[walk.task] = {} /\ n < Len(here)
                                /\ \E i \in 1 .. n : here[i] \in left' \ left
                             THEN {here[n + 1]} ELSE {}]
  /\ UNCHANGED <<owner, task, detached>>

(* Code of the same process throws: the forEach ends where it is, and the  *)
(* task is scheduled again, to begin from the first listener.              *)
CallbackThrows ==
  /\ Walking /\ walk.at < walk.len
  /\ LET here == ArrayOf(walk.task, Head(walk.kinds))
     IN walk.at < Len(here) /\ owner[here[walk.at + 1]] = App
  /\ walk' = NoWalk
  /\ task' = [task EXCEPT ![walk.task] = "idle"]
  /\ UNCHANGED <<eventListeners, owner, left, cut, detached>>

WalkEnds ==
  /\ Walking /\ walk.at = walk.len
  /\ walk' = WalkFrom(walk.task, Tail(walk.kinds))
  /\ UNCHANGED <<eventListeners, owner, left, cut, task, detached>>

(* disconnect gives the provider new arrays; a task that waits with the    *)
(* old ones in hand will call who is in them.                              *)
Disconnect ==
  /\ ~Walking /\ eventListeners # NoArrays
  /\ eventListeners' = NoArrays
  /\ left' = DOMAIN owner
  /\ cut' = cut \cup (DOMAIN owner \ left)
  /\ detached' = [t \in Task |-> IF t \in BestTask /\ task[t] = "waiting" /\ detached[t] = {}
                                 THEN {eventListeners} ELSE detached[t]]
  /\ UNCHANGED <<owner, task, walk>>

ListenerStep ==
  \/ \E t \in Task : \/ NotifySubscribers(t) \/ OnNewFinalizedHead(t)
                     \/ TaskFails(t) \/ StartWalk(t)
  \/ WalkOn \/ CallbackThrows \/ WalkEnds \/ Disconnect

-----------------------------------------------------------------------------
(* Every listener that is there when a head's block has come is called     *)
(* once in the walk, although listeners come and go while the block is     *)
(* waited for and while they are called; missed is only who stood next to  *)
(* one that was removed by a callback, or behind one that threw, until the *)
(* task's next walk, which calls those before it again.  Nobody is called  *)
(* who has left, but by a task that was waiting when the provider          *)
(* disconnected.                                                           *)
HeadsReachListeners ==
  Walking =>
    /\ IsInjective(walk.calls)
    /\ walk.at = walk.len => walk.due \ (walk.skipped \cup left) \subseteq ToSet(walk.calls)
    /\ ~walk.stale
=============================================================================
