-------------------------- MODULE HeadPipelineProofs --------------------------
(* What the head pipeline keeps, for every block tree, every number of     *)
(* attempts and every order in which the answers come back.                *)
EXTENDS HeadPipeline, TLAPS

(* Facts about the block tree, as in HeadViewProofs: these proofs are of   *)
(* the pipeline's own variables, not of the view they implement.           *)
LEMMA AncestorsOfBlock ==
  ASSUME NEW b \in Block
  PROVE  /\ b \in Ancestors[b]
         /\ Ancestors[b] \subseteq Block
         /\ Number[b] \in Nat
         /\ \A p \in Ancestors[b] : Number[p] \in Nat /\ Number[p] <= Number[b]
         /\ \A p \in Ancestors[b] : Ancestors[p] \subseteq Ancestors[b]
  BY TreeAssumption

LEMMA OneChain ==
  ASSUME NEW b \in Block, NEW p \in Ancestors[b], NEW q \in Ancestors[b],
         Number[p] <= Number[q]
  PROVE  p \in Ancestors[q]
  BY TreeAssumption

(* Finality only grows, and the finalized block stays on the best chain. *)
LEMMA FinalizeStep ==
  ASSUME ChainTypeOK, NEW b \in Block, Finalize(b)
  PROVE  /\ ChainTypeOK'
         /\ known' = known
         /\ b \in known
         /\ finalizedHead' = b
         /\ b \notin Ancestors[finalizedHead]
         /\ Ancestors[finalizedHead] \subseteq Ancestors[finalizedHead']
<1>1. bestHead \in Block /\ finalizedHead \in Ancestors[bestHead] /\ b \in Ancestors[bestHead]
  BY DEF Finalize, ChainTypeOK
<1>2. Number[finalizedHead] \in Nat /\ Number[b] \in Nat /\ Number[finalizedHead] < Number[b]
  BY <1>1, AncestorsOfBlock DEF Finalize
<1>3. finalizedHead \in Ancestors[b]
  BY <1>1, <1>2, OneChain
<1>4. b \notin Ancestors[finalizedHead]
  BY <1>2, AncestorsOfBlock DEF ChainTypeOK
<1>5. QED
  BY <1>1, <1>3, <1>4, AncestorsOfBlock DEF Finalize, ChainTypeOK

LEMMA NewBestStep ==
  ASSUME ChainTypeOK, NEW b \in Block, NewBest(b)
  PROVE  /\ ChainTypeOK'
         /\ known \subseteq known'
         /\ b \in known' /\ b \notin known
         /\ bestHead' = b
         /\ Number[bestHead] <= Number[b]
         /\ finalizedHead' = finalizedHead
  BY AncestorsOfBlock DEF NewBest, ChainTypeOK

(* What the node calls best and finalized it has. *)
LEMMA HeadsKnown ==
  ASSUME ChainTypeOK
  PROVE  /\ bestHead \in known /\ finalizedHead \in known
         /\ known \subseteq Block
         /\ IsFinal(finalizedHead)
  BY AncestorsOfBlock DEF ChainTypeOK, IsFinal

-----------------------------------------------------------------------------
LEMMA TaskFields ==
  ASSUME NEW t \in Task
  PROVE  /\ t.kind \in Kind /\ t.block \in Block /\ t.left \in 0..Attempts
         /\ t.st \in State /\ t.heard \in BOOLEAN /\ t.sent \in Nat /\ t.threw \in Nat
         /\ \A st \in State :
              /\ [t EXCEPT !.st = st] \in Task
              /\ [t EXCEPT !.st = st].st = st
  BY DEF Task

(* A change of one element leaves a sequence a sequence. *)
LEMMA Replaced ==
  ASSUME NEW S, NEW s \in Seq(S), NEW i \in DOMAIN s, NEW v \in S
  PROVE  /\ [s EXCEPT ![i] = v] \in Seq(S)
         /\ DOMAIN [s EXCEPT ![i] = v] = DOMAIN s
         /\ Len([s EXCEPT ![i] = v]) = Len(s)
         /\ \A k \in DOMAIN s : [s EXCEPT ![i] = v][k] = IF k = i THEN v ELSE s[k]
  OBVIOUS

LEMMA Appended ==
  ASSUME NEW S, NEW s \in Seq(S), NEW v \in S
  PROVE  /\ Append(s, v) \in Seq(S)
         /\ Len(Append(s, v)) = Len(s) + 1
         /\ DOMAIN Append(s, v) = DOMAIN s \cup {Len(s) + 1}
         /\ Len(s) + 1 \notin DOMAIN s
         /\ Len(s) + 1 # 0
         /\ Append(s, v)[Len(s) + 1] = v
         /\ \A k \in DOMAIN s : Append(s, v)[k] = s[k]
  OBVIOUS

(* The parts of the type that tasks and their map have. *)
MapType(m, ts) ==
  /\ m \in [Kind -> [Block -> Nat]]
  /\ \A k \in Kind, b \in Block : m[k][b] \in DOMAIN ts \cup {0}

(* The three ways an attempt changes the tasks, one task at a time. *)
LEMMA Unsubscribed ==
  ASSUME NEW ts \in Seq(Task), NEW j \in DOMAIN ts \cup {0}
  PROVE  /\ Unsubscribe(ts, j) \in Seq(Task)
         /\ DOMAIN Unsubscribe(ts, j) = DOMAIN ts
         /\ \A k \in DOMAIN ts :
              Unsubscribe(ts, j)[k] =
                IF k = j /\ ts[k].st = "scheduled"
                THEN [ts[k] EXCEPT !.st = "cancelled"] ELSE ts[k]
<1>1. CASE j # 0 /\ ts[j].st = "scheduled"
  <2>1. ts[j] \in Task /\ j \in DOMAIN ts
    BY <1>1
  <2>2. [ts[j] EXCEPT !.st = "cancelled"] \in Task
    BY <2>1, TaskFields DEF State
  <2>3. Unsubscribe(ts, j) = [ts EXCEPT ![j] = [ts[j] EXCEPT !.st = "cancelled"]]
    BY <1>1 DEF Unsubscribe
  <2>4. QED
    BY <1>1, <2>1, <2>2, <2>3, Replaced
<1>2. CASE ~(j # 0 /\ ts[j].st = "scheduled")
  <2>1. 0 \notin DOMAIN ts
    OBVIOUS
  <2>2. QED
    BY <1>2, <2>1 DEF Unsubscribe
<1>3. QED
  BY <1>1, <1>2

LEMMA Finished ==
  ASSUME NEW ts \in Seq(Task), MapType(taskMap, ts), NEW i \in DOMAIN ts, Finish(i, ts),
         NEW j, j = taskMap[ts[i].kind][ts[i].block]
  PROVE  /\ tasks' \in Seq(Task)
         /\ DOMAIN tasks' = DOMAIN ts
         /\ tasks'[i] = [ts[i] EXCEPT !.st = "done"]
         /\ \A k \in DOMAIN ts \ {i} :
              tasks'[k] = IF k = j /\ ts[k].st = "scheduled"
                          THEN [ts[k] EXCEPT !.st = "cancelled"] ELSE ts[k]
         /\ MapType(taskMap', ts)
         /\ \A c \in Kind, b \in Block :
              taskMap'[c][b] = IF c = ts[i].kind /\ b = ts[i].block THEN 0
                               ELSE taskMap[c][b]
<1> DEFINE done == [ts EXCEPT ![i] = [ts[i] EXCEPT !.st = "done"]]
<1>0. ts[i] \in Task
  OBVIOUS
<1>1. ts[i] \in Task /\ ts[i].kind \in Kind /\ ts[i].block \in Block
  BY <1>0, TaskFields
<1>2. j \in DOMAIN ts \cup {0}
  BY <1>1 DEF MapType
<1>3. /\ [ts[i] EXCEPT !.st = "done"] \in Task
      /\ [ts[i] EXCEPT !.st = "done"].st = "done"
  BY <1>1, TaskFields DEF State
<1>4. /\ done \in Seq(Task) /\ DOMAIN done = DOMAIN ts
      /\ \A k \in DOMAIN ts : done[k] = IF k = i THEN [ts[i] EXCEPT !.st = "done"] ELSE ts[k]
  BY <1>3, Replaced
<1>5. done[i].st # "scheduled"
  BY <1>3, <1>4
<1>6. tasks' = Unsubscribe(done, j) /\ taskMap' = [taskMap EXCEPT ![ts[i].kind][ts[i].block] = 0]
  BY DEF Finish
<1> HIDE DEF done
<1>7. /\ Unsubscribe(done, j) \in Seq(Task)
      /\ DOMAIN Unsubscribe(done, j) = DOMAIN done
      /\ \A k \in DOMAIN done :
              Unsubscribe(done, j)[k] =
                IF k = j /\ done[k].st = "scheduled"
                THEN [done[k] EXCEPT !.st = "cancelled"] ELSE done[k]
  <2>1. done \in Seq(Task) /\ j \in DOMAIN done \cup {0}
    BY <1>2, <1>4
  <2>2. QED
    BY <2>1, Unsubscribed
<1>8. \A c \in Kind, b \in Block :
        taskMap'[c][b] = IF c = ts[i].kind /\ b = ts[i].block THEN 0 ELSE taskMap[c][b]
  BY <1>1, <1>6 DEF MapType
<1>9. MapType(taskMap', ts)
  BY <1>1, <1>6, <1>8 DEF MapType
<1>10. QED
  BY <1>4, <1>5, <1>6, <1>7, <1>8, <1>9

LEMMA Retried ==
  ASSUME NEW ts \in Seq(Task), MapType(taskMap, ts), NEW i \in DOMAIN ts, Retry(i, ts),
         ts[i].left > 0, NEW j, j = taskMap[ts[i].kind][ts[i].block]
  PROVE  /\ tasks' \in Seq(Task)
         /\ DOMAIN tasks' = DOMAIN ts
         /\ tasks'[i] = [ts[i] EXCEPT !.st = "scheduled"]
         /\ \A k \in DOMAIN ts \ {i} :
              tasks'[k] = IF k = j /\ ts[k].st = "scheduled"
                          THEN [ts[k] EXCEPT !.st = "cancelled"] ELSE ts[k]
         /\ MapType(taskMap', ts)
         /\ \A c \in Kind, b \in Block :
              taskMap'[c][b] = IF c = ts[i].kind /\ b = ts[i].block THEN i
                               ELSE taskMap[c][b]
<1> DEFINE old == IF j = i THEN ts ELSE Unsubscribe(ts, j)
<1>0. ts[i] \in Task
  OBVIOUS
<1>1. ts[i] \in Task /\ ts[i].kind \in Kind /\ ts[i].block \in Block
  BY <1>0, TaskFields
<1>2. j \in DOMAIN ts \cup {0}
  BY <1>1 DEF MapType
<1>3. [ts[i] EXCEPT !.st = "scheduled"] \in Task
  BY <1>1, TaskFields DEF State
<1>4. /\ old \in Seq(Task) /\ DOMAIN old = DOMAIN ts
      /\ old[i] = ts[i]
      /\ \A k \in DOMAIN ts \ {i} :
           old[k] = IF k = j /\ ts[k].st = "scheduled"
                    THEN [ts[k] EXCEPT !.st = "cancelled"] ELSE ts[k]
  BY <1>2, Unsubscribed
<1>5. /\ tasks' = [old EXCEPT ![i] = [old[i] EXCEPT !.st = "scheduled"]]
      /\ taskMap' = [taskMap EXCEPT ![ts[i].kind][ts[i].block] = i]
  BY DEF Retry
<1> HIDE DEF old
<1>6. /\ tasks' \in Seq(Task) /\ DOMAIN tasks' = DOMAIN ts
      /\ \A k \in DOMAIN ts : tasks'[k] = IF k = i THEN [ts[i] EXCEPT !.st = "scheduled"] ELSE old[k]
  BY <1>3, <1>4, <1>5, Replaced
<1>7. \A c \in Kind, b \in Block :
        taskMap'[c][b] = IF c = ts[i].kind /\ b = ts[i].block THEN i ELSE taskMap[c][b]
  BY <1>1, <1>5 DEF MapType
<1>8. i \in Nat
  OBVIOUS
<1>9. MapType(taskMap', ts)
  BY <1>1, <1>5, <1>7, <1>8 DEF MapType
<1>10. QED
  BY <1>4, <1>6, <1>7, <1>9

LEMMA GivenUp ==
  ASSUME NEW ts \in Seq(Task), NEW i \in DOMAIN ts, Retry(i, ts), ~(ts[i].left > 0)
  PROVE  /\ tasks' \in Seq(Task)
         /\ DOMAIN tasks' = DOMAIN ts
         /\ tasks'[i] = [ts[i] EXCEPT !.st = "gaveUp"]
         /\ \A k \in DOMAIN ts \ {i} : tasks'[k] = ts[k]
         /\ taskMap' = taskMap
<1>0. ts[i] \in Task
  OBVIOUS
<1>1. [ts[i] EXCEPT !.st = "gaveUp"] \in Task
  BY <1>0, TaskFields DEF State
<1>2. tasks' = [ts EXCEPT ![i] = [ts[i] EXCEPT !.st = "gaveUp"]] /\ taskMap' = taskMap
  BY DEF Retry
<1>3. QED
  BY <1>1, <1>2, Replaced

-----------------------------------------------------------------------------
(* What holds of every task by itself: a task that has something to do is  *)
(* even, one call of the listeners for every throw, and a task that is     *)
(* done has made one call more if it found listeners.                      *)
TaskOK(t) ==
  /\ t.st = "scheduled" => t.left > 0
  /\ t.st # "done" => t.sent = t.threw
  /\ t.st = "done" => t.sent <= t.threw + 1
  /\ t.st = "done" /\ t.heard => t.sent = t.threw + 1
  /\ t.kind = "final" => ~t.heard
  /\ t.st = "fetching" => t.kind = "head"

(* The task sequence before Finish or Retry acts on it: only task i has    *)
(* changed, and of it only what it has heard, sent and met.                *)
Adjusted(ts, i) ==
  /\ ts \in Seq(Task)
  /\ DOMAIN ts = TaskId
  /\ \A k \in TaskId \ {i} : ts[k] = tasks[k]
  /\ ts[i].kind = tasks[i].kind
  /\ ts[i].block = tasks[i].block
  /\ ts[i].left = tasks[i].left
  /\ ts[i].st = tasks[i].st

(* What an attempt may do to the other tasks, and to the map.              *)
OthersStay(i) == \A k \in TaskId \ {i} : tasks'[k] = tasks[k]

OthersCancelled(i) ==
  \A k \in TaskId \ {i} :
    \/ tasks'[k] = tasks[k]
    \/ /\ taskMap[tasks[i].kind][tasks[i].block] = k
       /\ tasks[k].st = "scheduled"
       /\ tasks'[k] = [tasks[k] EXCEPT !.st = "cancelled"]

EntryIs(i, id) ==
  \A c \in Kind, b \in Block :
    taskMap'[c][b] = IF c = tasks[i].kind /\ b = tasks[i].block THEN id ELSE taskMap[c][b]

Shape(i) ==
  /\ tasks' \in Seq(Task)
  /\ DOMAIN tasks' = TaskId
  /\ MapType(taskMap', tasks)
  /\ Live(i)
  /\ tasks'[i].kind = tasks[i].kind
  /\ tasks'[i].block = tasks[i].block
  /\ TaskOK(tasks'[i])
  /\ \/ /\ tasks'[i].st \in {"fetching", "notifying", "gaveUp"}
        /\ taskMap' = taskMap /\ OthersStay(i)
     \/ tasks'[i].st = "done" /\ OthersCancelled(i) /\ EntryIs(i, 0)
     \/ tasks'[i].st = "scheduled" /\ OthersCancelled(i) /\ EntryIs(i, i)

(* TypeOK, as far as the steps of a task need it. *)
TasksType == tasks \in Seq(Task) /\ MapType(taskMap, tasks)

LEMMA StatusOnly ==
  ASSUME NEW t \in Task, NEW st \in State
  PROVE  LET u == [t EXCEPT !.st = st]
         IN /\ u \in Task /\ u.st = st
            /\ u.kind = t.kind /\ u.block = t.block /\ u.left = t.left
            /\ u.heard = t.heard /\ u.sent = t.sent /\ u.threw = t.threw
  BY DEF Task

LEMMA FinishShape ==
  ASSUME TasksType, NEW i \in TaskId, Live(i), NEW ts, Adjusted(ts, i), Finish(i, ts),
         ts[i].sent <= ts[i].threw + 1,
         ts[i].heard => ts[i].sent = ts[i].threw + 1,
         ts[i].kind = "final" => ~ts[i].heard
  PROVE  Shape(i) /\ tasks'[i].st = "done"
<1>1. ts \in Seq(Task) /\ MapType(taskMap, ts) /\ i \in DOMAIN ts /\ ts[i] \in Task
  BY DEF Adjusted, TasksType, MapType, TaskId
<1> DEFINE j == taskMap[ts[i].kind][ts[i].block]
<1>2. /\ tasks' \in Seq(Task)
      /\ DOMAIN tasks' = DOMAIN ts
      /\ tasks'[i] = [ts[i] EXCEPT !.st = "done"]
      /\ \A k \in DOMAIN ts \ {i} :
           tasks'[k] = IF k = j /\ ts[k].st = "scheduled"
                       THEN [ts[k] EXCEPT !.st = "cancelled"] ELSE ts[k]
      /\ MapType(taskMap', ts)
      /\ \A c \in Kind, b \in Block :
           taskMap'[c][b] = IF c = ts[i].kind /\ b = ts[i].block THEN 0
                            ELSE taskMap[c][b]
  BY <1>1, Finished
<1>3. "done" \in State
  BY DEF State
<1>4. /\ tasks'[i].st = "done" /\ tasks'[i].kind = ts[i].kind /\ tasks'[i].block = ts[i].block
      /\ tasks'[i].heard = ts[i].heard /\ tasks'[i].sent = ts[i].sent
      /\ tasks'[i].threw = ts[i].threw
  BY <1>1, <1>2, <1>3, StatusOnly
<1>5. TaskOK(tasks'[i])
  BY <1>4 DEF TaskOK
<1>6. OthersCancelled(i) /\ EntryIs(i, 0)
  BY <1>2 DEF Adjusted, OthersCancelled, EntryIs, TaskId
<1>7. MapType(taskMap', tasks)
  BY <1>2 DEF MapType, Adjusted, TaskId
<1>8. QED
  BY <1>2, <1>4, <1>5, <1>6, <1>7 DEF Shape, Adjusted

LEMMA RetryShape ==
  ASSUME TasksType, NEW i \in TaskId, Live(i), NEW ts, Adjusted(ts, i), Retry(i, ts),
         ts[i].sent = ts[i].threw,
         ts[i].kind = "final" => ~ts[i].heard
  PROVE  Shape(i) /\ tasks'[i].st \in {"scheduled", "gaveUp"}
<1>1. ts \in Seq(Task) /\ MapType(taskMap, ts) /\ i \in DOMAIN ts /\ ts[i] \in Task
  BY DEF Adjusted, TasksType, MapType, TaskId
<1>2. "scheduled" \in State /\ "gaveUp" \in State
  BY DEF State
<1>3. CASE ts[i].left > 0
  <2> DEFINE j == taskMap[ts[i].kind][ts[i].block]
  <2>1. /\ tasks' \in Seq(Task)
        /\ DOMAIN tasks' = DOMAIN ts
        /\ tasks'[i] = [ts[i] EXCEPT !.st = "scheduled"]
        /\ \A k \in DOMAIN ts \ {i} :
             tasks'[k] = IF k = j /\ ts[k].st = "scheduled"
                         THEN [ts[k] EXCEPT !.st = "cancelled"] ELSE ts[k]
        /\ MapType(taskMap', ts)
        /\ \A c \in Kind, b \in Block :
             taskMap'[c][b] = IF c = ts[i].kind /\ b = ts[i].block THEN i
                              ELSE taskMap[c][b]
    BY <1>1, <1>3, Retried
  <2>2. /\ tasks'[i].st = "scheduled" /\ tasks'[i].kind = ts[i].kind
        /\ tasks'[i].block = ts[i].block /\ tasks'[i].left = ts[i].left
        /\ tasks'[i].heard = ts[i].heard /\ tasks'[i].sent = ts[i].sent
        /\ tasks'[i].threw = ts[i].threw
    BY <1>1, <2>1, <1>2, StatusOnly
  <2>3. TaskOK(tasks'[i])
    BY <1>3, <2>2 DEF TaskOK
  <2>4. OthersCancelled(i) /\ EntryIs(i, i)
    BY <2>1 DEF Adjusted, OthersCancelled, EntryIs, TaskId
  <2>5. MapType(taskMap', tasks)
    BY <2>1 DEF MapType, Adjusted, TaskId
  <2>6. QED
    BY <2>1, <2>2, <2>3, <2>4, <2>5 DEF Shape, Adjusted
<1>4. CASE ~(ts[i].left > 0)
  <2>1. /\ tasks' \in Seq(Task)
        /\ DOMAIN tasks' = DOMAIN ts
        /\ tasks'[i] = [ts[i] EXCEPT !.st = "gaveUp"]
        /\ \A k \in DOMAIN ts \ {i} : tasks'[k] = ts[k]
        /\ taskMap' = taskMap
    BY <1>1, <1>4, GivenUp
  <2>2. /\ tasks'[i].st = "gaveUp" /\ tasks'[i].kind = ts[i].kind
        /\ tasks'[i].block = ts[i].block
        /\ tasks'[i].heard = ts[i].heard /\ tasks'[i].sent = ts[i].sent
        /\ tasks'[i].threw = ts[i].threw
    BY <1>1, <2>1, <1>2, StatusOnly
  <2>3. TaskOK(tasks'[i])
    BY <2>2 DEF TaskOK
  <2>4. OthersStay(i)
    BY <2>1 DEF Adjusted, OthersStay, TaskId
  <2>5. MapType(taskMap', tasks)
    BY <2>1 DEF MapType, TasksType
  <2>6. QED
    BY <2>1, <2>2, <2>3, <2>4, <2>5 DEF Shape, Adjusted
<1>5. QED
  BY <1>3, <1>4

LEMMA SentOnly ==
  ASSUME NEW t \in Task, NEW n \in Nat, NEW u, u = [t EXCEPT !.sent = n]
  PROVE  /\ u \in Task
         /\ u.kind = t.kind /\ u.block = t.block /\ u.left = t.left /\ u.st = t.st
         /\ u.heard = t.heard /\ u.threw = t.threw /\ u.sent = n
  BY DEF Task

LEMMA ThrewOnly ==
  ASSUME NEW t \in Task, NEW n \in Nat, NEW u, u = [t EXCEPT !.threw = n]
  PROVE  /\ u \in Task
         /\ u.kind = t.kind /\ u.block = t.block /\ u.left = t.left /\ u.st = t.st
         /\ u.heard = t.heard /\ u.sent = t.sent /\ u.threw = n
  BY DEF Task

(* Task i replaced by a version that only differs in its history. *)
LEMMA AdjustedIs ==
  ASSUME TasksType, NEW i \in TaskId, NEW t \in Task,
         t.kind = tasks[i].kind, t.block = tasks[i].block,
         t.left = tasks[i].left, t.st = tasks[i].st
  PROVE  /\ Adjusted([tasks EXCEPT ![i] = t], i)
         /\ [tasks EXCEPT ![i] = t][i] = t
  BY Replaced DEF TasksType, TaskId, Adjusted

LEMMA CalledIs ==
  ASSUME TasksType, NEW i \in TaskId
  PROVE  /\ Adjusted(Called(i), i)
         /\ Called(i)[i].heard = tasks[i].heard
         /\ Called(i)[i].threw = tasks[i].threw
         /\ Called(i)[i].sent =
              IF tasks[i].kind = "head" \/ listening THEN tasks[i].sent + 1 ELSE tasks[i].sent
<1>1. tasks[i] \in Task /\ tasks \in Seq(Task)
  BY DEF TasksType, TaskId
<1>2. CASE tasks[i].kind = "head" \/ listening
  <2> DEFINE t == [tasks[i] EXCEPT !.sent = tasks[i].sent + 1]
  <2>1. /\ t \in Task /\ t.kind = tasks[i].kind /\ t.block = tasks[i].block
        /\ t.left = tasks[i].left /\ t.st = tasks[i].st
        /\ t.heard = tasks[i].heard /\ t.threw = tasks[i].threw
        /\ t.sent = tasks[i].sent + 1
    <3>1. tasks[i].sent + 1 \in Nat
      BY <1>1, TaskFields
    <3>2. QED
      BY <1>1, <3>1, SentOnly
  <2>2. Called(i) = [tasks EXCEPT ![i] = t]
    BY <1>2 DEF Called
  <2> HIDE DEF t
  <2>3. QED
    BY <1>2, <2>1, <2>2, AdjustedIs
<1>3. CASE ~(tasks[i].kind = "head" \/ listening)
  BY <1>1, <1>3 DEF Called, Adjusted, TaskId
<1>4. QED
  BY <1>2, <1>3

LEMMA StartShape ==
  ASSUME TasksType, NEW i \in TaskId, TaskOK(tasks[i]), Start(i)
  PROVE  Shape(i) /\ (tasks[i].kind = "head" => tasks'[i].st = "fetching")
<1> DEFINE t == [tasks[i] EXCEPT !.left = tasks[i].left - 1,
                                 !.st = IF tasks[i].kind = "head" THEN "fetching"
                                        ELSE "notifying"]
<1>1. tasks[i] \in Task /\ tasks \in Seq(Task)
  BY DEF TasksType, TaskId
<1>2. tasks[i].left > 0 /\ tasks[i].st = "scheduled"
  BY DEF TaskOK, Start
<1>3. tasks[i].left - 1 \in 0..Attempts
  <2>1. tasks[i].left \in 0..Attempts
    BY <1>1, TaskFields
  <2>2. QED
    BY <1>2, <2>1, PipelineAssumption
<1>4. /\ t \in Task /\ t.kind = tasks[i].kind /\ t.block = tasks[i].block
      /\ t.heard = tasks[i].heard /\ t.sent = tasks[i].sent /\ t.threw = tasks[i].threw
      /\ t.st = IF tasks[i].kind = "head" THEN "fetching" ELSE "notifying"
  BY <1>1, <1>3 DEF Task, State
<1>5. tasks' = [tasks EXCEPT ![i] = t] /\ taskMap' = taskMap
  BY DEF Start
<1> HIDE DEF t
<1>6. tasks' \in Seq(Task) /\ DOMAIN tasks' = TaskId /\ tasks'[i] = t /\ OthersStay(i)
  BY <1>1, <1>4, <1>5, Replaced DEF TaskId, OthersStay
<1>7. TaskOK(t)
  BY <1>2, <1>4 DEF TaskOK
<1>8. MapType(taskMap', tasks)
  BY <1>5 DEF TasksType
<1>9. QED
  BY <1>2, <1>4, <1>5, <1>6, <1>7, <1>8 DEF Shape, Live

LEMMA FetchedShape ==
  ASSUME TasksType, NEW i \in TaskId, TaskOK(tasks[i]), Fetched(i)
  PROVE  Shape(i) /\ tasks'[i].st \in {"notifying", "done"}
<1>1. /\ tasks[i] \in Task /\ tasks \in Seq(Task)
      /\ tasks[i].st = "fetching" /\ tasks[i].kind = "head"
      /\ tasks[i].sent = tasks[i].threw /\ Live(i)
  BY DEF TasksType, TaskId, TaskOK, Fetched, Live
<1>2. CASE listening
  <2> DEFINE t == [tasks[i] EXCEPT !.st = "notifying", !.heard = TRUE]
  <2>1. /\ t \in Task /\ t.kind = tasks[i].kind /\ t.block = tasks[i].block
        /\ t.sent = tasks[i].sent /\ t.threw = tasks[i].threw
        /\ t.st = "notifying"
    BY <1>1 DEF Task, State
  <2>2. tasks' = [tasks EXCEPT ![i] = t] /\ taskMap' = taskMap
    BY <1>2 DEF Fetched
  <2> HIDE DEF t
  <2>3. tasks' \in Seq(Task) /\ DOMAIN tasks' = TaskId /\ tasks'[i] = t /\ OthersStay(i)
    BY <1>1, <2>1, <2>2, Replaced DEF TaskId, OthersStay
  <2>4. TaskOK(t)
    BY <1>1, <2>1 DEF TaskOK
  <2>5. MapType(taskMap', tasks)
    BY <2>2 DEF TasksType
  <2>6. QED
    BY <1>1, <2>1, <2>2, <2>3, <2>4, <2>5 DEF Shape
<1>3. CASE ~listening
  <2> DEFINE t == [tasks[i] EXCEPT !.heard = FALSE]
  <2>1. /\ t \in Task /\ t.kind = tasks[i].kind /\ t.block = tasks[i].block
        /\ t.left = tasks[i].left /\ t.st = tasks[i].st
        /\ t.heard = FALSE /\ t.threw = tasks[i].threw
        /\ t.sent = tasks[i].sent
    BY <1>1 DEF Task
  <2>2. Finish(i, [tasks EXCEPT ![i] = t])
    BY <1>3 DEF Fetched
  <2>3. t.sent <= t.threw + 1
    BY <1>1, <2>1, TaskFields
  <2> HIDE DEF t
  <2>4. QED
    BY <1>1, <2>1, <2>2, <2>3, AdjustedIs, FinishShape
<1>4. QED
  BY <1>2, <1>3

LEMMA FailedShape ==
  ASSUME TasksType, NEW i \in TaskId, TaskOK(tasks[i]), FetchFailed(i) \/ NotifyFailed(i)
  PROVE  Shape(i) /\ tasks'[i].st \in {"scheduled", "gaveUp"}
<1>1. Live(i) /\ tasks[i].st # "done" /\ Retry(i, tasks)
  BY DEF FetchFailed, NotifyFailed, Live
<1>2. Adjusted(tasks, i)
  BY DEF Adjusted, TasksType, TaskId
<1>3. QED
  BY <1>1, <1>2, RetryShape DEF TaskOK

LEMMA NotifiedShape ==
  ASSUME TasksType, NEW i \in TaskId, TaskOK(tasks[i]), Notified(i)
  PROVE  Shape(i) /\ tasks'[i].st = "done"
<1>1. Live(i) /\ tasks[i].st # "done" /\ Finish(i, Called(i))
  BY DEF Notified, Live
<1>2. tasks[i] \in Task /\ tasks[i].sent = tasks[i].threw
  BY <1>1 DEF TasksType, TaskId, TaskOK
<1>3. tasks[i].kind \in {"head", "final"} /\ tasks[i].sent \in Nat
  BY <1>2, TaskFields DEF Kind
<1>4. /\ Called(i)[i].sent <= Called(i)[i].threw + 1
      /\ Called(i)[i].heard => Called(i)[i].sent = Called(i)[i].threw + 1
      /\ Called(i)[i].kind = "final" => ~Called(i)[i].heard
  BY <1>2, <1>3, CalledIs DEF TaskOK, Adjusted
<1>5. QED
  BY <1>1, <1>4, CalledIs, FinishShape

LEMMA ThrewShape ==
  ASSUME TasksType, NEW i \in TaskId, TaskOK(tasks[i]), ListenerThrew(i)
  PROVE  Shape(i) /\ tasks'[i].st \in {"scheduled", "gaveUp"}
<1>1. Live(i) /\ tasks[i].st # "done" /\ (tasks[i].kind = "head" \/ listening)
  BY DEF ListenerThrew, Live
<1>2. tasks[i] \in Task /\ tasks[i].sent = tasks[i].threw
  BY <1>1 DEF TasksType, TaskId, TaskOK
<1> DEFINE t == [tasks[i] EXCEPT !.sent = tasks[i].sent + 1, !.threw = tasks[i].threw + 1]
<1>3. /\ t \in Task /\ t.kind = tasks[i].kind /\ t.block = tasks[i].block
      /\ t.left = tasks[i].left /\ t.st = tasks[i].st
      /\ t.heard = tasks[i].heard /\ t.threw = tasks[i].threw + 1
      /\ t.sent = tasks[i].sent + 1
  <2>1. tasks[i].sent + 1 \in Nat /\ tasks[i].threw + 1 \in Nat
    BY <1>2, TaskFields
  <2>2. tasks[i] \in Task
    BY <1>2
  <2>3. QED
    <3> DEFINE u == [tasks[i] EXCEPT !.sent = tasks[i].sent + 1]
    <3>1. t = [u EXCEPT !.threw = tasks[i].threw + 1]
      BY <2>2 DEF Task
    <3>2. /\ u \in Task /\ u.kind = tasks[i].kind /\ u.block = tasks[i].block
          /\ u.left = tasks[i].left /\ u.st = tasks[i].st
          /\ u.heard = tasks[i].heard /\ u.sent = tasks[i].sent + 1
      BY <2>1, <2>2, SentOnly
    <3> HIDE DEF t, u
    <3>3. QED
      BY <2>1, <3>1, <3>2, ThrewOnly
<1>4. [Called(i) EXCEPT ![i].threw = @ + 1] = [tasks EXCEPT ![i] = t]
  BY <1>1 DEF Called, TasksType, TaskId
<1>5. Retry(i, [tasks EXCEPT ![i] = t])
  BY <1>4 DEF ListenerThrew
<1>6. t.kind = "final" => ~t.heard
  BY <1>3 DEF TaskOK
<1>7. t.sent = t.threw
  BY <1>2, <1>3
<1> HIDE DEF t
<1>8. QED
  BY <1>1, <1>3, <1>5, <1>6, <1>7, AdjustedIs, RetryShape

LEMMA StepShape ==
  ASSUME TasksType, NEW i \in TaskId, TaskOK(tasks[i]), TaskStep(i)
  PROVE  Shape(i)
  BY StartShape, FetchedShape, FailedShape, NotifiedShape, ThrewShape DEF TaskStep

-----------------------------------------------------------------------------
(* A block scheduled, or none: what Made and Entered do together.          *)
OneMade(ts, m, c, b, ts2, m2) ==
  /\ ts2 \in Seq(Task)
  /\ MapType(m2, ts2)
  /\ DOMAIN ts \subseteq DOMAIN ts2
  /\ Len(ts2) \in Nat
  /\ \A k \in DOMAIN ts : ts2[k] = ts[k]
  /\ \A k \in DOMAIN ts2 \ DOMAIN ts : Wanted(b) /\ k = Len(ts2) /\ ts2[k] = NewTask(c, b)
  /\ Wanted(b) => Len(ts2) \in DOMAIN ts2 \ DOMAIN ts
  /\ \A d \in Kind, e \in Block :
       m2[d][e] = IF Wanted(b) /\ d = c /\ e = b THEN Len(ts2) ELSE m[d][e]

LEMMA MadeOne ==
  ASSUME NEW ts \in Seq(Task), NEW m, MapType(m, ts), NEW c \in Kind,
         NEW b \in Block \cup {NoBlock},
         NEW ts2, ts2 = Made(ts, c, b), NEW m2, m2 = Entered(m, c, b, Len(ts2))
  PROVE  OneMade(ts, m, c, b, ts2, m2)
<1>1. CASE Wanted(b)
  <2>1. b \in Block
    BY <1>1 DEF Wanted
  <2>2. NewTask(c, b) \in Task
    BY <2>1, PipelineAssumption DEF NewTask, Task, State
  <2>3. ts2 = Append(ts, NewTask(c, b)) /\ m2 = [m EXCEPT ![c][b] = Len(ts2)]
    BY <1>1 DEF Made, Entered
  <2>4. /\ ts2 \in Seq(Task)
        /\ Len(ts2) = Len(ts) + 1
        /\ DOMAIN ts2 = DOMAIN ts \cup {Len(ts2)}
        /\ Len(ts2) \notin DOMAIN ts
        /\ ts2[Len(ts2)] = NewTask(c, b)
        /\ \A k \in DOMAIN ts : ts2[k] = ts[k]
    BY <2>2, <2>3, Appended
  <2>5. Len(ts2) \in Nat
    BY <2>4
  <2>6. \A d \in Kind, e \in Block :
          m2[d][e] = IF d = c /\ e = b THEN Len(ts2) ELSE m[d][e]
    BY <2>1, <2>3 DEF MapType
  <2>7. MapType(m2, ts2)
    <3>1. m \in [Kind -> [Block -> Nat]]
      BY DEF MapType
    <3>2. [m[c] EXCEPT ![b] = Len(ts2)] \in [Block -> Nat]
      BY <2>5, <3>1
    <3>3. m2 = [m EXCEPT ![c] = [m[c] EXCEPT ![b] = Len(ts2)]]
      BY <2>3
    <3>4. m2 \in [Kind -> [Block -> Nat]]
      BY <3>1, <3>2, <3>3
    <3>5. \A k \in Kind, e \in Block : m2[k][e] \in DOMAIN ts2 \cup {0}
      BY <2>4, <2>6 DEF MapType
    <3>6. QED
      BY <3>4, <3>5 DEF MapType
  <2>8. QED
    BY <1>1, <2>4, <2>5, <2>6, <2>7 DEF OneMade
<1>2. CASE ~Wanted(b)
  <2>1. ts2 = ts /\ m2 = m
    BY <1>2 DEF Made, Entered
  <2>2. QED
    BY <1>2, <2>1 DEF OneMade
<1>3. QED
  BY <1>1, <1>2

(* What the subscribers of startSubscriptions() do to tasks and map: each  *)
(* new task is the last of its kind, and the entry of its block names it.  *)
New(k, h, f) ==
  \/ Wanted(h) /\ tasks'[k] = NewTask("head", h) /\ taskMap'["head"][h] = k
  \/ Wanted(f) /\ tasks'[k] = NewTask("final", f) /\ taskMap'["final"][f] = k

(* A new task is there, and the entry of its block names it.               *)
Entry(c, b) ==
  /\ taskMap'[c][b] \in TaskId' \ TaskId
  /\ tasks'[taskMap'[c][b]] = NewTask(c, b)

LEMMA Scheduled ==
  ASSUME TasksType, NEW h \in Block \cup {NoBlock}, NEW f \in Block \cup {NoBlock},
         Schedule(h, f)
  PROVE  /\ TasksType'
         /\ TaskId \subseteq TaskId'
         /\ \A k \in TaskId : tasks'[k] = tasks[k]
         /\ \A k \in TaskId' \ TaskId : New(k, h, f)
         /\ \A i, k \in TaskId' \ TaskId : i # k => tasks'[i].kind # tasks'[k].kind
         /\ \A b \in Block :
              /\ ~(Wanted(h) /\ b = h) => taskMap'["head"][b] = taskMap["head"][b]
              /\ ~(Wanted(f) /\ b = f) => taskMap'["final"][b] = taskMap["final"][b]
         /\ Wanted(h) => Entry("head", h)
         /\ Wanted(f) => Entry("final", f)
<1> DEFINE one == Made(tasks, "head", h)
           m1  == Entered(taskMap, "head", h, Len(one))
<1>1. "head" \in Kind /\ "final" \in Kind /\ "head" # "final"
  BY DEF Kind
<1>2. /\ one \in Seq(Task)
      /\ MapType(m1, one)
      /\ TaskId \subseteq DOMAIN one
      /\ \A k \in TaskId : one[k] = tasks[k]
      /\ \A k \in DOMAIN one \ TaskId :
           Wanted(h) /\ k = Len(one) /\ one[k] = NewTask("head", h)
      /\ Wanted(h) => Len(one) \in DOMAIN one \ TaskId
      /\ \A d \in Kind, e \in Block :
           m1[d][e] = IF Wanted(h) /\ d = "head" /\ e = h THEN Len(one) ELSE taskMap[d][e]
  <2>1. tasks \in Seq(Task) /\ MapType(taskMap, tasks)
    BY DEF TasksType
  <2> HIDE DEF one, m1
  <2>2. one = Made(tasks, "head", h) /\ m1 = Entered(taskMap, "head", h, Len(one))
    BY DEF one, m1
  <2>3. OneMade(tasks, taskMap, "head", h, one, m1)
    BY <1>1, <2>1, <2>2, MadeOne
  <2>4. QED
    BY <2>3 DEF OneMade, TaskId
<1>3. /\ tasks' = Made(one, "final", f)
      /\ taskMap' = Entered(m1, "final", f, Len(tasks'))
  BY DEF Schedule
<1> HIDE DEF one, m1
<1>4. /\ tasks' \in Seq(Task)
      /\ MapType(taskMap', tasks')
      /\ DOMAIN one \subseteq DOMAIN tasks'
      /\ \A k \in DOMAIN one : tasks'[k] = one[k]
      /\ \A k \in DOMAIN tasks' \ DOMAIN one :
           Wanted(f) /\ k = Len(tasks') /\ tasks'[k] = NewTask("final", f)
      /\ Wanted(f) => Len(tasks') \in DOMAIN tasks' \ DOMAIN one
      /\ \A d \in Kind, e \in Block :
           taskMap'[d][e] = IF Wanted(f) /\ d = "final" /\ e = f THEN Len(tasks')
                            ELSE m1[d][e]
  <2>1. OneMade(one, m1, "final", f, tasks', taskMap')
    BY <1>1, <1>2, <1>3, MadeOne
  <2>2. QED
    BY <2>1 DEF OneMade
<1>5. TasksType' /\ TaskId \subseteq TaskId' /\ \A k \in TaskId : tasks'[k] = tasks[k]
  BY <1>2, <1>4 DEF TasksType, TaskId
<1>6. ASSUME NEW k \in TaskId' \ TaskId PROVE New(k, h, f)
  <2>1. CASE k \in DOMAIN one
    <3>1. Wanted(h) /\ k = Len(one) /\ tasks'[k] = NewTask("head", h)
      BY <1>2, <1>4, <1>6, <2>1
    <3>2. h \in Block
      BY <3>1 DEF Wanted
    <3>3. QED
      BY <1>1, <1>2, <1>4, <3>1, <3>2 DEF New
  <2>2. CASE k \notin DOMAIN one
    <3>1. Wanted(f) /\ k = Len(tasks') /\ tasks'[k] = NewTask("final", f)
      BY <1>4, <1>6, <2>2 DEF TaskId
    <3>2. f \in Block
      BY <3>1 DEF Wanted
    <3>3. QED
      BY <1>1, <1>4, <3>1, <3>2 DEF New
  <2>3. QED
    BY <2>1, <2>2
<1>7. ASSUME NEW i \in TaskId' \ TaskId, NEW k \in TaskId' \ TaskId, i # k
      PROVE  tasks'[i].kind # tasks'[k].kind
  <2>1. \A n \in TaskId' \ TaskId :
          \/ n = Len(one) /\ tasks'[n].kind = "head"
          \/ n = Len(tasks') /\ tasks'[n].kind = "final"
    BY <1>2, <1>4 DEF TaskId, NewTask
  <2>2. QED
    BY <1>1, <1>7, <2>1
<1>8. ASSUME NEW b \in Block
      PROVE  /\ ~(Wanted(h) /\ b = h) => taskMap'["head"][b] = taskMap["head"][b]
             /\ ~(Wanted(f) /\ b = f) => taskMap'["final"][b] = taskMap["final"][b]
  BY <1>1, <1>2, <1>4
<1>9. ASSUME Wanted(h) PROVE Entry("head", h)
  <2>1. h \in Block /\ Len(one) \in DOMAIN one \ TaskId
    BY <1>2, <1>9 DEF Wanted
  <2>2. taskMap'["head"][h] = Len(one) /\ tasks'[Len(one)] = NewTask("head", h)
    BY <1>1, <1>2, <1>4, <1>9, <2>1
  <2>3. QED
    BY <1>4, <2>1, <2>2 DEF Entry, TaskId
<1>10. ASSUME Wanted(f) PROVE Entry("final", f)
  <2>1. f \in Block /\ Len(tasks') \in DOMAIN tasks' \ DOMAIN one
    BY <1>4, <1>10 DEF Wanted
  <2>2. taskMap'["final"][f] = Len(tasks') /\ tasks'[Len(tasks')] = NewTask("final", f)
    BY <1>1, <1>4, <1>10, <2>1
  <2>3. QED
    BY <1>2, <2>1, <2>2 DEF Entry, TaskId
<1>11. QED
  BY <1>5, <1>6, <1>7, <1>8, <1>9, <1>10

-----------------------------------------------------------------------------
(* The stores keep their types. *)
LEMMA CacheType ==
  ASSUME BC!TypeOK, NEW b \in Block, BC!Cache(b)
  PROVE  BC!TypeOK'
<1>1. /\ cachedBlockHashes \in Seq(Block)
      /\ DOMAIN blockHashToReceipts \subseteq Block
      /\ \A k \in DOMAIN blockHashToReceipts : blockHashToReceipts[k] \in SUBSET Tx
      /\ txHashToReceipt \in [Tx -> Block \cup {NoBlock}]
  BY DEF BC!TypeOK
<1>2. TxsIn[b] \in SUBSET Tx
  BY PipelineAssumption
<1>3. BC!ByTxWith(b) \in [Tx -> Block \cup {NoBlock}]
  BY <1>1 DEF BC!ByTxWith
<1>4. /\ DOMAIN BC!ByBlockWith(b) \subseteq Block
      /\ \A k \in DOMAIN BC!ByBlockWith(b) : BC!ByBlockWith(b)[k] \in SUBSET Tx
  BY <1>1, <1>2 DEF BC!ByBlockWith
<1>5. Append(cachedBlockHashes, b) \in Seq(Block) /\ Append(cachedBlockHashes, b) # << >>
  BY <1>1
<1>6. CASE BC!AddToWindow(b)
  <2>1. /\ cachedBlockHashes' = Append(cachedBlockHashes, b)
        /\ blockHashToReceipts' = BC!ByBlockWith(b)
        /\ txHashToReceipt' = BC!ByTxWith(b)
        /\ lastCachedBlock' = b
    BY <1>6 DEF BC!AddToWindow, BC!Cache, BC!SetlastCachedBlock
  <2>2. blockHashToReceipts' \in [DOMAIN blockHashToReceipts' -> SUBSET Tx]
    BY <1>4, <2>1 DEF BC!ByBlockWith
  <2>3. QED
    BY <1>3, <1>4, <1>5, <2>1, <2>2 DEF BC!TypeOK
<1>7. CASE BC!AddAndEvict(b)
  <2> DEFINE pushed  == Append(cachedBlockHashes, b)
             byBlock == BC!ByBlockWith(b)
             removing == IF Head(pushed) \in DOMAIN byBlock THEN byBlock[Head(pushed)] ELSE {}
  <2>1. /\ cachedBlockHashes' = Tail(pushed)
        /\ txHashToReceipt' =
             [t \in Tx |-> IF t \in removing THEN NoBlock ELSE BC!ByTxWith(b)[t]]
        /\ blockHashToReceipts' = [k \in DOMAIN byBlock \ {Head(pushed)} |-> byBlock[k]]
        /\ lastCachedBlock' = b
    BY <1>7 DEF BC!AddAndEvict, BC!Cache, BC!SetlastCachedBlock
  <2>2. Tail(pushed) \in Seq(Block)
    BY <1>5
  <2> HIDE DEF removing, byBlock, pushed
  <2>3. txHashToReceipt' \in [Tx -> Block \cup {NoBlock}]
    BY <1>3, <2>1
  <2>4. /\ DOMAIN blockHashToReceipts' = DOMAIN byBlock \ {Head(pushed)}
        /\ \A k \in DOMAIN blockHashToReceipts' : blockHashToReceipts'[k] = byBlock[k]
        /\ blockHashToReceipts' = [k \in DOMAIN blockHashToReceipts' |-> byBlock[k]]
    BY <2>1
  <2>5. /\ DOMAIN blockHashToReceipts' \subseteq Block
        /\ blockHashToReceipts' \in [DOMAIN blockHashToReceipts' -> SUBSET Tx]
    BY <1>4, <2>4 DEF byBlock
  <2>6. QED
    BY <2>1, <2>2, <2>3, <2>5 DEF BC!TypeOK
<1>8. QED
  BY <1>6, <1>7 DEF BC!Cache, BC!AddReceipts

LEMMA FinalsType ==
  ASSUME finalizedBlockHashes \in Seq(Block), NEW b \in Block, OnFinalized(b)
  PROVE  finalizedBlockHashes' \in Seq(Block) /\ finalized' = b
<1>1. Append(finalizedBlockHashes, b) \in Seq(Block) /\ Append(finalizedBlockHashes, b) # << >>
  BY Appended
<1>2. Tail(Append(finalizedBlockHashes, b)) \in Seq(Block)
  BY <1>1
<1>3. QED
  BY <1>1, <1>2 DEF OnFinalized, Finals!Keep

(* Every task is new at first. *)
LEMMA NewTaskOK ==
  ASSUME NEW k, NEW h, NEW f, New(k, h, f)
  PROVE  TaskOK(tasks'[k])
  BY PipelineAssumption DEF New, NewTask, TaskOK

LEMMA ScheduledOK ==
  ASSUME TasksType, \A i \in TaskId : TaskOK(tasks[i]),
         NEW h \in Block \cup {NoBlock}, NEW f \in Block \cup {NoBlock}, Schedule(h, f)
  PROVE  TasksType' /\ \A i \in TaskId' : TaskOK(tasks'[i])
  BY Scheduled, NewTaskOK

(* A step of a task leaves every task in order. *)
LEMMA ShapeOK ==
  ASSUME TasksType, \A k \in TaskId : TaskOK(tasks[k]), NEW i \in TaskId, Shape(i)
  PROVE  TasksType' /\ TaskId' = TaskId /\ \A k \in TaskId : TaskOK(tasks'[k])
<1>1. TasksType' /\ TaskId' = TaskId
  BY DEF Shape, TasksType, TaskId, MapType
<1>2. ASSUME NEW k \in TaskId, tasks[k].st = "scheduled",
             tasks'[k] = [tasks[k] EXCEPT !.st = "cancelled"]
      PROVE  TaskOK(tasks'[k])
  <2>1. tasks[k] \in Task /\ "cancelled" \in State
    BY DEF TasksType, TaskId, State
  <2>2. /\ tasks'[k].st = "cancelled" /\ tasks'[k].sent = tasks[k].sent
        /\ tasks'[k].threw = tasks[k].threw /\ tasks'[k].kind = tasks[k].kind
        /\ tasks'[k].heard = tasks[k].heard
    BY <1>2, <2>1, StatusOnly
  <2>3. QED
    BY <1>2, <2>2 DEF TaskOK
<1>3. QED
  BY <1>1, <1>2 DEF Shape, OthersStay, OthersCancelled

-----------------------------------------------------------------------------
(* Type correctness in the parts that an action may disturb. *)
USE DEF Starting

StreamType ==
  /\ {firstBlock, best, finalized} \subseteq Block \cup {NoBlock}
  /\ finalizedBlockHashes \in Seq(Block)
  /\ reannounced \in Nat

ControlType ==
  /\ phase \in {"starting", "leaving", "running", "draining", "closed"}
  /\ listening \in BOOLEAN
  /\ drain \in 0..DrainRounds
  /\ overtaken \in BOOLEAN

TaskType == TasksType /\ \A i \in TaskId : TaskOK(tasks[i])

TypeInv == ChainTypeOK /\ StreamType /\ BC!TypeOK /\ TaskType /\ ControlType

LEMMA TypeParts ==
  TypeInv <=> TypeOK /\ \A i \in TaskId : TaskOK(tasks[i])
  BY DEF TypeInv, TypeOK, StreamType, TaskType, TasksType, MapType, TaskId, ControlType, BC!TypeOK

LEMMA TypeInvInit == Init => TypeInv
<1> SUFFICES ASSUME Init PROVE TypeInv
  OBVIOUS
<1>1. ChainTypeOK
  BY TreeAssumption DEF Init, ChainInit, ChainTypeOK
<1>2. BC!TypeOK
  BY DEF Init, BC!Init, BC!TypeOK
<1>3. TaskId = {} /\ << >> \in Seq(Task) /\ << >> \in Seq(Block)
  BY DEF Init, TaskId
<1>4. taskMap \in [Kind -> [Block -> Nat]] /\ \A k \in Kind, b \in Block : taskMap[k][b] = 0
  BY DEF Init
<1>5. /\ tasks \in Seq(Task) /\ finalizedBlockHashes \in Seq(Block)
      /\ \A i \in TaskId : TaskOK(tasks[i])
  BY <1>3 DEF Init
<1>6. drain \in 0..DrainRounds
  BY PipelineAssumption DEF Init
<1>7. {firstBlock, best, finalized, lastCachedBlock} \subseteq Block \cup {NoBlock}
  BY DEF Init, BC!Init
<1>8. QED
  BY <1>1, <1>2, <1>4, <1>5, <1>6, <1>7, TypeParts DEF Init, TypeOK

LEMMA StartingType ==
  ASSUME TypeInv, FirstHead \/ FirstFinalized \/ Ready
  PROVE  TypeInv'
<1>1. ChainTypeOK /\ StreamType /\ BC!TypeOK /\ TaskType /\ ControlType
  BY DEF TypeInv
<1>2. ChainTypeOK'
  BY <1>1 DEF FirstHead, FirstFinalized, Ready, chainVars, ChainTypeOK
<1>3. StreamType'
  <2>1. CASE FirstHead
    BY <1>1, <2>1 DEF FirstHead, OnBest, StreamType, ChainTypeOK
  <2>2. CASE FirstFinalized
    BY <1>1, <2>2, FinalsType DEF FirstFinalized, StreamType, ChainTypeOK
  <2>3. CASE Ready
    BY <1>1, <2>3 DEF Ready, streamVars, StreamType
  <2>4. QED
    BY <2>1, <2>2, <2>3
<1>4. BC!TypeOK'
  BY <1>1 DEF FirstHead, FirstFinalized, Ready, cacheVars, BC!TypeOK, StreamType,
              BC!SetlastCachedBlock
<1>5. TaskType'
  <2>1. CASE FirstHead \/ FirstFinalized
    BY <1>1, <2>1 DEF FirstHead, FirstFinalized, TaskType, TasksType, TaskId, MapType
  <2>2. CASE Ready
    <3>1. SafeHead(best, finalized) \in Block \cup {NoBlock} /\ finalized \in Block \cup {NoBlock}
      BY <1>1 DEF StreamType, SafeHead
    <3>2. QED
      BY <1>1, <2>2, <3>1, ScheduledOK DEF Ready, TaskType
  <2>3. QED
    BY <2>1, <2>2
<1>6. ControlType'
  BY <1>1 DEF FirstHead, FirstFinalized, Ready, ControlType
<1>7. QED
  BY <1>2, <1>3, <1>4, <1>5, <1>6 DEF TypeInv

LEMMA ChainMovesType ==
  ASSUME TypeInv, NEW b \in Block, NewHead(b) \/ NewFinalizedHead(b)
  PROVE  TypeInv'
<1>1. ChainTypeOK /\ StreamType /\ BC!TypeOK /\ TaskType /\ ControlType
  BY DEF TypeInv
<1>2. ChainTypeOK'
  BY <1>1, NewBestStep, FinalizeStep DEF NewHead, NewFinalizedHead
<1>3. StreamType'
  <2>1. CASE NewHead(b)
    BY <1>1, <2>1 DEF NewHead, OnBest, StreamType
  <2>2. CASE NewFinalizedHead(b)
    BY <1>1, <2>2, FinalsType DEF NewFinalizedHead, StreamType
  <2>3. QED
    BY <2>1, <2>2
<1>4. BC!TypeOK'
  BY <1>1 DEF NewHead, NewFinalizedHead, cacheVars, BC!TypeOK
<1>5. TaskType'
  <2>1. CASE UNCHANGED <<tasks, taskMap>>
    BY <1>1, <2>1 DEF TaskType, TasksType, TaskId, MapType
  <2>2. ASSUME NEW h \in Block \cup {NoBlock}, NEW f \in Block \cup {NoBlock}, Schedule(h, f)
        PROVE  TaskType'
    BY <1>1, <2>2, ScheduledOK DEF TaskType
  <2>3. /\ SafeHead(b, NoBlock) \in Block \cup {NoBlock}
        /\ SafeHead(NoBlock, b) \in Block \cup {NoBlock}
    BY DEF SafeHead
  <2>4. QED
    BY <2>1, <2>2, <2>3 DEF NewHead, NewFinalizedHead
<1>6. ControlType'
  BY <1>1 DEF NewHead, NewFinalizedHead, ControlType
<1>7. QED
  BY <1>2, <1>3, <1>4, <1>5, <1>6 DEF TypeInv

LEMMA ReconnectType ==
  ASSUME TypeInv, Reconnect
  PROVE  TypeInv'
<1>1. ChainTypeOK /\ StreamType /\ BC!TypeOK /\ TaskType /\ ControlType
  BY DEF TypeInv
<1>2. bestHead \in Block /\ finalizedHead \in Block
  BY <1>1 DEF ChainTypeOK
<1>3. ChainTypeOK' /\ BC!TypeOK' /\ ControlType'
  BY <1>1 DEF Reconnect, chainVars, cacheVars, ChainTypeOK, BC!TypeOK, ControlType
<1>4. StreamType'
  BY <1>1, <1>2, FinalsType DEF Reconnect, OnBest, StreamType
<1>5. TaskType'
  <2>1. SafeHead(bestHead, finalizedHead) \in Block \cup {NoBlock}
    BY <1>2 DEF SafeHead
  <2>2. QED
    BY <1>1, <1>2, <2>1, ScheduledOK DEF Reconnect, TaskType
<1>6. QED
  BY <1>3, <1>4, <1>5 DEF TypeInv

(* What a task step leaves alone, whichever it is. *)
LEMMA TaskStepFrame ==
  ASSUME NEW i \in TaskId, TaskStep(i)
  PROVE  /\ UNCHANGED <<chainVars, phase, streamVars, listening, drain>>
         /\ \/ Fetched(i)
            \/ UNCHANGED <<cacheVars, overtaken>>
  BY DEF TaskStep, Start, Fetched, FetchFailed, Notified, NotifyFailed, ListenerThrew

LEMMA TaskStepType ==
  ASSUME TypeInv, NEW i \in TaskId, TaskStep(i)
  PROVE  TypeInv' /\ TaskId' = TaskId
<1>1. ChainTypeOK /\ StreamType /\ BC!TypeOK /\ TaskType /\ ControlType
  BY DEF TypeInv
<1>2. ChainTypeOK' /\ StreamType'
  BY <1>1, TaskStepFrame DEF chainVars, streamVars, ChainTypeOK, StreamType
<1>3. TaskType' /\ TaskId' = TaskId
  BY <1>1, StepShape, ShapeOK DEF TaskType
<1>4. CASE Fetched(i)
  <2>1. tasks[i].block \in Block
    BY <1>1, TaskFields DEF TaskType, TasksType, TaskId
  <2>2. BC!TypeOK'
    BY <1>1, <1>4, <2>1, CacheType DEF Fetched
  <2>3. overtaken' \in BOOLEAN
    BY <1>1, <1>4 DEF Fetched, ControlType
  <2>4. ControlType'
    BY <1>1, <2>3, TaskStepFrame DEF ControlType
  <2>5. QED
    BY <1>2, <1>3, <2>2, <2>4 DEF TypeInv
<1>5. CASE UNCHANGED <<cacheVars, overtaken>>
  <2>1. BC!TypeOK' /\ ControlType'
    BY <1>1, <1>5, TaskStepFrame DEF cacheVars, BC!TypeOK, ControlType
  <2>2. QED
    BY <1>2, <1>3, <2>1 DEF TypeInv
<1>6. QED
  BY <1>4, <1>5, TaskStepFrame

(* The steps that leave tasks, cache, streams and chain alone. *)
Idle == UNCHANGED <<chainVars, streamVars, cacheVars, tasks, taskMap, overtaken>>

LEMMA ControlSteps ==
  ASSUME Listen \/ Disconnect \/ DrainWait \/ Close \/ UNCHANGED vars
  PROVE  Idle
  BY DEF Listen, Disconnect, DrainWait, Close, vars, Idle

LEMMA ControlStepType ==
  ASSUME TypeInv, Listen \/ Disconnect \/ DrainWait \/ Close \/ UNCHANGED vars
  PROVE  TypeInv'
<1>1. ChainTypeOK /\ StreamType /\ BC!TypeOK /\ TaskType /\ ControlType
  BY DEF TypeInv
<1>2. ChainTypeOK' /\ StreamType' /\ BC!TypeOK' /\ TaskType'
  BY <1>1, ControlSteps
  DEF Idle, chainVars, streamVars, cacheVars, ChainTypeOK, StreamType, BC!TypeOK, TaskType,
      TasksType, TaskId, MapType
<1>3. ControlType'
  <2>1. CASE Listen \/ Disconnect \/ Close
    BY <1>1, <2>1 DEF Listen, Disconnect, Close, ControlType
  <2>2. CASE DrainWait
    BY <1>1, <2>2, PipelineAssumption DEF DrainWait, ControlType
  <2>3. CASE UNCHANGED vars
    BY <1>1, <2>3 DEF vars, ControlType
  <2>4. QED
    BY <2>1, <2>2, <2>3
<1>4. QED
  BY <1>2, <1>3 DEF TypeInv

LEMMA TypeInvariant == Spec => []TypeInv
<1>1. TypeInv /\ [Next]_vars => TypeInv'
  BY StartingType, ChainMovesType, ReconnectType, TaskStepType, ControlStepType DEF Next
<1>2. QED
  BY <1>1, TypeInvInit, PTL DEF Spec

(* TypeOK: the state is well formed; in particular every map entry names a *)
(* task, and no task is tried more often than it has attempts.             *)
THEOREM TypeCorrect == Spec => []TypeOK
<1>1. TypeInv => TypeOK
  BY TypeParts
<1>2. QED
  BY <1>1, TypeInvariant, PTL

(* NotifiedOnce: whatever fails, is retried or is announced again, a task  *)
(* calls the listeners once, plus once for every time one of them threw    *)
(* (_onNewHead, _onNewFinalizedHead, _notifySubscribers).                  *)
THEOREM NotifiesOnce == Spec => []NotifiedOnce
<1>1. TypeInv => NotifiedOnce
  <2> SUFFICES ASSUME TypeInv, NEW i \in TaskId
               PROVE  /\ tasks[i].sent <= tasks[i].threw + 1
                      /\ tasks[i].st = "done" /\ tasks[i].heard =>
                           tasks[i].sent = tasks[i].threw + 1
    BY DEF NotifiedOnce
  <2>1. tasks[i] \in Task /\ TaskOK(tasks[i])
    BY DEF TypeInv, TaskType, TasksType, TaskId
  <2>2. tasks[i].sent \in Nat /\ tasks[i].threw \in Nat
    BY <2>1, TaskFields
  <2>3. QED
    BY <2>1, <2>2 DEF TaskOK
<1>2. QED
  BY <1>1, TypeInvariant, PTL
-----------------------------------------------------------------------------
(* Where tasks, streams and the cache come from: every block in them is    *)
(* one the node has, and what follows finalized heads is final.            *)
StreamsOK ==
  /\ Starting => TaskId = {} /\ reannounced = 0
  /\ {firstBlock, best, finalized} \subseteq known \cup {NoBlock}
  /\ best # NoBlock => firstBlock # NoBlock
  /\ ~Starting => best # NoBlock
  /\ finalized # NoBlock => IsFinal(finalized)

TasksOK ==
  \A i \in TaskId :
    /\ tasks[i].block \in known
    /\ tasks[i].kind = "final" \/ SafeMode => IsFinal(tasks[i].block)

CacheOK ==
  SafeMode =>
    /\ \A b \in DOMAIN blockHashToReceipts : IsFinal(b)
    /\ \A t \in Tx : txHashToReceipt[t] # NoBlock => IsFinal(txHashToReceipt[t])

Origin == StreamsOK /\ TasksOK /\ CacheOK

LEMMA OriginInit == Init => Origin
  BY DEF Init, BC!Init, Origin, StreamsOK, TasksOK, CacheOK, TaskId

(* The chain only grows, and so does what is final. *)
Grows ==
  /\ known \subseteq known'
  /\ Ancestors[finalizedHead] \subseteq Ancestors[finalizedHead']

LEMMA ChainGrows ==
  ASSUME TypeInv, [Next]_vars
  PROVE  Grows
<1>1. ChainTypeOK
  BY DEF TypeInv
<1>2. ASSUME NEW b \in Block, NewHead(b) PROVE Grows
  BY <1>1, <1>2, NewBestStep DEF NewHead, Grows
<1>3. ASSUME NEW b \in Block, NewFinalizedHead(b) PROVE Grows
  BY <1>1, <1>3, FinalizeStep DEF NewFinalizedHead, Grows
<1>4. CASE UNCHANGED chainVars
  BY <1>4 DEF chainVars, Grows
<1>5. ASSUME NEW i \in TaskId, TaskStep(i) PROVE UNCHANGED chainVars
  BY <1>5, TaskStepFrame
<1>6. ASSUME FirstHead \/ FirstFinalized \/ Ready \/ Reconnect PROVE UNCHANGED chainVars
  BY <1>6 DEF FirstHead, FirstFinalized, Ready, Reconnect
<1>7. ASSUME Listen \/ Disconnect \/ DrainWait \/ Close \/ UNCHANGED vars
      PROVE  UNCHANGED chainVars
  BY <1>7, ControlSteps DEF Idle
<1>8. QED
  BY <1>2, <1>3, <1>4, <1>5, <1>6, <1>7 DEF Next

(* The new tasks are for known blocks, and for final ones where they must. *)
LEMMA ScheduledTasksOK ==
  ASSUME TasksType, TasksOK, Grows,
         NEW h \in known' \cup {NoBlock}, NEW f \in known' \cup {NoBlock},
         known' \subseteq Block, Schedule(h, f),
         SafeMode /\ h # NoBlock => h \in Ancestors[finalizedHead'],
         f # NoBlock => f \in Ancestors[finalizedHead']
  PROVE  TasksOK'
<1>1. h \in Block \cup {NoBlock} /\ f \in Block \cup {NoBlock}
  OBVIOUS
<1>2. \A k \in TaskId : tasks'[k] = tasks[k]
  BY <1>1, Scheduled
<1>3. \A k \in TaskId' \ TaskId : New(k, h, f)
  BY <1>1, Scheduled
<1>4. ASSUME NEW k \in TaskId' \ TaskId
      PROVE  /\ tasks'[k].block \in known'
             /\ tasks'[k].kind = "final" \/ SafeMode =>
                  tasks'[k].block \in Ancestors[finalizedHead']
  BY <1>3, <1>4 DEF New, NewTask, Wanted
<1>5. ASSUME NEW k \in TaskId
      PROVE  /\ tasks'[k].block \in known'
             /\ tasks'[k].kind = "final" \/ SafeMode =>
                  tasks'[k].block \in Ancestors[finalizedHead']
  BY <1>2, <1>5 DEF TasksOK, Grows, IsFinal
<1>6. QED
  BY <1>4, <1>5 DEF TasksOK, IsFinal

LEMMA OnFinalizedIs ==
  ASSUME NEW b, OnFinalized(b)
  PROVE  finalized' = b
  BY DEF OnFinalized

LEMMA StartingOrigin ==
  ASSUME TypeInv, Origin, FirstHead \/ FirstFinalized \/ Ready
  PROVE  Origin'
<1>1. /\ ChainTypeOK /\ StreamType /\ TasksType /\ UNCHANGED chainVars
      /\ Starting /\ NoBlock \notin Block
  BY TreeAssumption DEF TypeInv, TaskType, FirstHead, FirstFinalized, Ready
<1>2. /\ bestHead \in known /\ finalizedHead \in known /\ known \subseteq Block
      /\ IsFinal(finalizedHead)
  BY <1>1, HeadsKnown
<1>3. Grows
  BY <1>1 DEF Grows, chainVars
<1>4. CASE FirstHead \/ FirstFinalized
  <2>1. UNCHANGED <<phase, cacheVars, tasks, reannounced>>
    BY <1>4 DEF FirstHead, FirstFinalized
  <2>2. TasksOK' /\ CacheOK'
    BY <1>1, <2>1 DEF Origin, TasksOK, CacheOK, cacheVars, chainVars, IsFinal, TaskId
  <2>3. CASE FirstHead
    <3>1. best' = bestHead /\ firstBlock' = bestHead /\ finalized' = finalized
      BY <2>3 DEF FirstHead, OnBest
    <3>2. StreamsOK'
      BY <1>1, <1>2, <2>1, <3>1 DEF Origin, StreamsOK, chainVars, IsFinal, TaskId
    <3>3. QED
      BY <2>2, <3>2 DEF Origin
  <2>4. CASE FirstFinalized
    <3>1. best' = best /\ firstBlock' = firstBlock /\ finalized' = finalizedHead
      BY <2>4, OnFinalizedIs DEF FirstFinalized
    <3>2. StreamsOK'
      BY <1>1, <1>2, <2>1, <3>1 DEF Origin, StreamsOK, chainVars, IsFinal, TaskId
    <3>3. QED
      BY <2>2, <3>2 DEF Origin
  <2>5. QED
    BY <1>4, <2>3, <2>4
<1>5. CASE Ready
  <2>1. /\ UNCHANGED <<streamVars, blockHashToReceipts, txHashToReceipt>>
        /\ ~Starting'
        /\ best # NoBlock /\ finalized # NoBlock
        /\ Schedule(SafeHead(best, finalized), finalized)
    BY <1>5 DEF Ready
  <2>2. StreamsOK' /\ CacheOK'
    BY <1>1, <2>1 DEF Origin, StreamsOK, CacheOK, streamVars, chainVars, IsFinal
  <2>3. /\ SafeHead(best, finalized) \in known' \cup {NoBlock}
        /\ finalized \in known' \cup {NoBlock}
        /\ known' \subseteq Block
        /\ finalized \in Ancestors[finalizedHead']
        /\ SafeMode => SafeHead(best, finalized) = finalized
    BY <1>1, <1>2, <2>1 DEF Origin, StreamsOK, SafeHead, chainVars, IsFinal
  <2>4. TasksOK'
    BY <1>1, <1>3, <2>1, <2>3, ScheduledTasksOK DEF Origin
  <2>5. QED
    BY <2>2, <2>4 DEF Origin
<1>6. QED
  BY <1>4, <1>5

LEMMA ChainMovesOrigin ==
  ASSUME TypeInv, Origin, NEW b \in Block, NewHead(b) \/ NewFinalizedHead(b)
  PROVE  Origin'
<1>1. ChainTypeOK /\ TasksType /\ Grows /\ NoBlock \notin Block
  BY ChainGrows, TreeAssumption DEF TypeInv, TaskType, Next
<1>2. /\ known' \subseteq Block /\ b \in known'
      /\ NewFinalizedHead(b) => b \in Ancestors[finalizedHead']
  BY <1>1, NewBestStep, FinalizeStep, TreeAssumption DEF NewHead, NewFinalizedHead, ChainTypeOK
<1>3. UNCHANGED <<phase, firstBlock, reannounced, cacheVars>>
  BY DEF NewHead, NewFinalizedHead
<1>4. CacheOK'
  BY <1>1, <1>3 DEF Origin, CacheOK, cacheVars, Grows, IsFinal
<1>5. TasksOK'
  <2>1. CASE UNCHANGED <<tasks, taskMap>>
    BY <1>1, <2>1 DEF Origin, TasksOK, Grows, IsFinal, TaskId
  <2>2. CASE NewHead(b) /\ Schedule(SafeHead(b, NoBlock), NoBlock)
    <3>1. /\ SafeHead(b, NoBlock) \in known' \cup {NoBlock}
          /\ SafeMode => SafeHead(b, NoBlock) = NoBlock
      BY <1>2 DEF SafeHead
    <3>2. QED
      BY <1>1, <1>2, <2>2, <3>1, ScheduledTasksOK DEF Origin
  <2>3. CASE NewFinalizedHead(b) /\ Schedule(SafeHead(NoBlock, b), b)
    <3>1. /\ SafeHead(NoBlock, b) \in known' \cup {NoBlock}
          /\ SafeMode => SafeHead(NoBlock, b) = b
      BY <1>2 DEF SafeHead
    <3>2. QED
      BY <1>1, <1>2, <2>3, <3>1, ScheduledTasksOK DEF Origin
  <2>4. QED
    BY <2>1, <2>2, <2>3 DEF NewHead, NewFinalizedHead
<1>6. Starting' => TaskId' = {} /\ reannounced' = 0
  BY <1>3 DEF Origin, StreamsOK, NewHead, NewFinalizedHead, TaskId
<1>7. CASE NewHead(b)
  <2>1. finalized' = finalized /\ (best' = best \/ (best # NoBlock /\ best' = b))
    BY <1>7 DEF NewHead, OnBest
  <2>2. QED
    BY <1>1, <1>2, <1>3, <1>4, <1>5, <1>6, <2>1 DEF Origin, StreamsOK, Grows, IsFinal
<1>8. CASE NewFinalizedHead(b)
  <2>1. best' = best /\ finalized' \in {finalized, b}
    BY <1>8, OnFinalizedIs DEF NewFinalizedHead
  <2>2. QED
    BY <1>1, <1>2, <1>3, <1>4, <1>5, <1>6, <1>8, <2>1 DEF Origin, StreamsOK, Grows, IsFinal
<1>9. QED
  BY <1>7, <1>8

LEMMA ReconnectOrigin ==
  ASSUME TypeInv, Origin, Reconnect
  PROVE  Origin'
<1>1. /\ ChainTypeOK /\ TasksType /\ UNCHANGED chainVars /\ phase = "running"
      /\ NoBlock \notin Block
  BY TreeAssumption DEF TypeInv, TaskType, Reconnect
<1>2. /\ bestHead \in known /\ finalizedHead \in known /\ known \subseteq Block
      /\ IsFinal(finalizedHead)
  BY <1>1, HeadsKnown
<1>3. /\ best' = bestHead /\ finalized' = finalizedHead
      /\ UNCHANGED <<phase, firstBlock, cacheVars>>
      /\ Schedule(SafeHead(bestHead, finalizedHead), finalizedHead)
  BY OnFinalizedIs DEF Reconnect, OnBest
<1>4. Grows
  BY <1>1 DEF Grows, chainVars
<1>5. CacheOK'
  BY <1>1, <1>3 DEF Origin, CacheOK, cacheVars, chainVars, IsFinal
<1>6. TasksOK'
  <2>1. /\ SafeHead(bestHead, finalizedHead) \in known' \cup {NoBlock}
        /\ finalizedHead \in known' \cup {NoBlock}
        /\ finalizedHead \in Ancestors[finalizedHead']
        /\ SafeMode => SafeHead(bestHead, finalizedHead) = finalizedHead
        /\ known' \subseteq Block
    BY <1>1, <1>2 DEF SafeHead, chainVars, IsFinal
  <2>2. QED
    BY <1>1, <1>3, <1>4, <2>1, ScheduledTasksOK DEF Origin
<1>7. StreamsOK'
  BY <1>1, <1>2, <1>3 DEF Origin, StreamsOK, chainVars, IsFinal
<1>8. QED
  BY <1>5, <1>6, <1>7 DEF Origin

(* What one block adds to the two tables of the cache. *)
LEMMA CacheGains ==
  ASSUME NEW b, BC!Cache(b), BC!TypeOK
  PROVE  /\ DOMAIN blockHashToReceipts' \subseteq DOMAIN blockHashToReceipts \cup {b}
         /\ \A t \in Tx : txHashToReceipt'[t] \in {txHashToReceipt[t], b, NoBlock}
         /\ lastCachedBlock' = b
<1>1. CASE BC!AddToWindow(b)
  BY <1>1 DEF BC!Cache, BC!SetlastCachedBlock, BC!AddToWindow, BC!ByBlockWith, BC!ByTxWith
<1>2. CASE BC!AddAndEvict(b)
  BY <1>2 DEF BC!Cache, BC!SetlastCachedBlock, BC!AddAndEvict, BC!ByBlockWith, BC!ByTxWith
<1>3. QED
  BY <1>1, <1>2 DEF BC!Cache, BC!AddReceipts

(* A task step keeps kind and block of every task. *)
LEMMA ShapeKeeps ==
  ASSUME TasksType, NEW i \in TaskId, Shape(i), NEW k \in TaskId
  PROVE  tasks'[k].kind = tasks[k].kind /\ tasks'[k].block = tasks[k].block
<1>1. tasks[k] \in Task /\ "cancelled" \in State
  BY DEF TasksType, TaskId, State
<1>2. [tasks[k] EXCEPT !.st = "cancelled"].kind = tasks[k].kind
      /\ [tasks[k] EXCEPT !.st = "cancelled"].block = tasks[k].block
  BY <1>1, StatusOnly
<1>3. QED
  BY <1>2 DEF Shape, OthersStay, OthersCancelled

LEMMA TaskStepOrigin ==
  ASSUME TypeInv, Origin, NEW i \in TaskId, TaskStep(i)
  PROVE  Origin'
<1>1. TasksType /\ BC!TypeOK /\ TaskOK(tasks[i])
  BY DEF TypeInv, TaskType
<1>2. Shape(i)
  BY <1>1, StepShape
<1>3. TaskId' = TaskId /\ \A k \in TaskId : tasks'[k].kind = tasks[k].kind
                                         /\ tasks'[k].block = tasks[k].block
  BY <1>1, <1>2, ShapeKeeps, TaskStepType
<1>4. UNCHANGED <<chainVars, phase, streamVars>>
  BY TaskStepFrame
<1>5. TasksOK' /\ StreamsOK'
  BY <1>3, <1>4 DEF Origin, TasksOK, StreamsOK, chainVars, streamVars, IsFinal
<1>6. CASE Fetched(i)
  <2>1. BC!Cache(tasks[i].block)
    BY <1>6 DEF Fetched
  <2>2. SafeMode => IsFinal(tasks[i].block)
    BY DEF Origin, TasksOK
  <2>3. CacheOK'
    BY <1>1, <1>4, <2>1, <2>2, CacheGains DEF Origin, CacheOK, chainVars, IsFinal
  <2>4. QED
    BY <1>5, <2>3 DEF Origin
<1>7. CASE UNCHANGED <<cacheVars, overtaken>>
  BY <1>4, <1>5, <1>7 DEF Origin, CacheOK, cacheVars, chainVars, IsFinal
<1>8. QED
  BY <1>6, <1>7, TaskStepFrame

LEMMA ControlOrigin ==
  ASSUME TypeInv, Origin, Listen \/ Disconnect \/ DrainWait \/ Close \/ UNCHANGED vars
  PROVE  Origin'
<1>1. Idle
  BY ControlSteps
<1>2. Starting' <=> Starting
  BY DEF Listen, Disconnect, DrainWait, Close, vars
<1>3. QED
  BY <1>1, <1>2 DEF Idle, chainVars, streamVars, cacheVars, Origin, StreamsOK, TasksOK,
                    CacheOK, IsFinal, TaskId

LEMMA OriginInvariant == Spec => [](TypeInv /\ Origin)
<1>1. TypeInv /\ Origin /\ [Next]_vars => Origin'
  BY StartingOrigin, ChainMovesOrigin, ReconnectOrigin, TaskStepOrigin, ControlOrigin DEF Next
<1>2. TypeInv /\ [Next]_vars => TypeInv'
  BY StartingType, ChainMovesType, ReconnectType, TaskStepType, ControlStepType DEF Next
<1>3. QED
  BY <1>1, <1>2, OriginInit, TypeInvInit, PTL DEF Spec

(* SafeModeCachesFinal: in safe mode nothing but final blocks and their    *)
(* transactions ever enters the cache, whatever is announced again, fails  *)
(* or comes late (safeHead$ and _onNewHead).                               *)
THEOREM SafeModeIsFinal == Spec => []SafeModeCachesFinal
<1>1. Origin => SafeModeCachesFinal
  BY DEF Origin, CacheOK, SafeModeCachesFinal
<1>2. QED
  BY <1>1, OriginInvariant, PTL
-----------------------------------------------------------------------------
(* Why disconnect() may wait for what the maps name.  A block is announced *)
(* once, so no two tasks of a kind have the same block, and nothing but    *)
(* the end of a task takes its map entry away.                             *)
Named == \A i \in TaskId : Live(i) => taskMap[tasks[i].kind][tasks[i].block] = i

Unique ==
  \A i, k \in TaskId :
    tasks[i].kind = tasks[k].kind /\ tasks[i].block = tasks[k].block => i = k

NameInv == reannounced = 0 => Named /\ Unique

(* No task of this kind has this block. *)
Fresh(k, b) == \A i \in TaskId : ~(tasks[i].kind = k /\ tasks[i].block = b)

LEMMA ScheduledNames ==
  ASSUME TasksType, Named, Unique,
         NEW h \in Block \cup {NoBlock}, NEW f \in Block \cup {NoBlock}, Schedule(h, f),
         Wanted(h) => Fresh("head", h),
         Wanted(f) => Fresh("final", f)
  PROVE  Named' /\ Unique'
<1>1. /\ TaskId \subseteq TaskId'
      /\ \A k \in TaskId : tasks'[k] = tasks[k]
      /\ \A k \in TaskId' \ TaskId : New(k, h, f)
      /\ \A i, k \in TaskId' \ TaskId : i # k => tasks'[i].kind # tasks'[k].kind
      /\ \A b \in Block :
           /\ ~(Wanted(h) /\ b = h) => taskMap'["head"][b] = taskMap["head"][b]
           /\ ~(Wanted(f) /\ b = f) => taskMap'["final"][b] = taskMap["final"][b]
  BY Scheduled
<1>2. ASSUME NEW k \in TaskId' \ TaskId
      PROVE  /\ taskMap'[tasks'[k].kind][tasks'[k].block] = k
             /\ Fresh(tasks'[k].kind, tasks'[k].block)
  BY <1>1, <1>2 DEF New, NewTask
<1>3. ASSUME NEW k \in TaskId, Live(k)
      PROVE  taskMap'[tasks[k].kind][tasks[k].block] = k
  <2>1. tasks[k] \in Task
    BY DEF TasksType, TaskId
  <2>2. tasks[k].kind \in {"head", "final"} /\ tasks[k].block \in Block
    BY <2>1, TaskFields DEF Kind
  <2>3. taskMap[tasks[k].kind][tasks[k].block] = k
    BY <1>3 DEF Named
  <2>4. /\ tasks[k].kind = "head" => ~(Wanted(h) /\ tasks[k].block = h)
        /\ tasks[k].kind = "final" => ~(Wanted(f) /\ tasks[k].block = f)
    BY DEF Fresh
  <2>5. QED
    BY <1>1, <2>2, <2>3, <2>4
<1>4. Named'
  BY <1>1, <1>2, <1>3 DEF Named, Live
<1>5. Unique'
  BY <1>1, <1>2 DEF Unique, Fresh
<1>6. QED
  BY <1>4, <1>5

LEMMA ShapeNames ==
  ASSUME TasksType, Named, Unique, NEW i \in TaskId, Shape(i)
  PROVE  Named' /\ Unique'
<1>1. TaskId' = TaskId /\ \A k \in TaskId : tasks'[k].kind = tasks[k].kind
                                         /\ tasks'[k].block = tasks[k].block
  BY ShapeKeeps DEF Shape, TaskId
<1>2. Unique'
  BY <1>1 DEF Unique
<1>3. \A k \in TaskId : tasks[k].kind \in Kind /\ tasks[k].block \in Block
  <2>1. \A k \in TaskId : tasks[k] \in Task
    BY DEF TasksType, TaskId
  <2>2. QED
    BY <2>1, TaskFields
<1>4. ASSUME NEW k \in TaskId \ {i}, tasks'[k].st \in {"scheduled", "fetching", "notifying"}
      PROVE  tasks'[k] = tasks[k] /\ Live(k)
  <2>1. tasks[k] \in Task /\ "cancelled" \in State
    BY DEF TasksType, TaskId, State
  <2>2. [tasks[k] EXCEPT !.st = "cancelled"].st = "cancelled"
    BY <2>1, StatusOnly
  <2>3. tasks'[k] = tasks[k]
    BY <1>4, <2>2 DEF Shape, OthersStay, OthersCancelled
  <2>4. QED
    BY <1>4, <2>3 DEF Live
<1>5. ASSUME NEW k \in TaskId, tasks'[k].st \in {"scheduled", "fetching", "notifying"}
      PROVE  taskMap'[tasks'[k].kind][tasks'[k].block] = k
  <2>1. CASE taskMap' = taskMap
    BY <1>1, <1>4, <1>5, <2>1 DEF Named, Shape
  <2>2. ASSUME NEW id, EntryIs(i, id), k # i PROVE taskMap'[tasks'[k].kind][tasks'[k].block] = k
    <3>1. ~(tasks[k].kind = tasks[i].kind /\ tasks[k].block = tasks[i].block)
      BY <2>2 DEF Unique
    <3>2. taskMap[tasks[k].kind][tasks[k].block] = k
      BY <1>4, <1>5, <2>2 DEF Named
    <3>3. QED
      BY <1>1, <1>3, <2>2, <3>1, <3>2 DEF EntryIs
  <2>3. CASE k = i /\ EntryIs(i, i)
    BY <1>1, <1>3, <2>3 DEF EntryIs
  <2>4. QED
    BY <1>5, <2>1, <2>2, <2>3 DEF Shape
<1>6. Named'
  BY <1>1, <1>5 DEF Named, Live
<1>7. QED
  BY <1>2, <1>6

(* The head just imported and the block just finalized are new. *)
LEMMA ChainMovesNames ==
  ASSUME TypeInv, Origin, NameInv, NEW b \in Block, NewHead(b) \/ NewFinalizedHead(b)
  PROVE  NameInv'
<1> SUFFICES ASSUME reannounced' = 0 PROVE Named' /\ Unique'
  BY DEF NameInv
<1>1. TasksType /\ ChainTypeOK /\ Named /\ Unique
  BY DEF TypeInv, TaskType, NameInv, NewHead, NewFinalizedHead
<1>2. CASE UNCHANGED <<tasks, taskMap>>
  BY <1>1, <1>2 DEF Named, Unique, Live, TaskId
<1>3. CASE NewHead(b) /\ Schedule(SafeHead(b, NoBlock), NoBlock)
  <2>1. b \notin known
    BY <1>3 DEF NewHead, NewBest
  <2>2. Fresh("head", b)
    BY <2>1 DEF Fresh, Origin, TasksOK
  <2>3. /\ SafeHead(b, NoBlock) \in {b, NoBlock}
        /\ ~Wanted(NoBlock)
    BY DEF SafeHead, Wanted
  <2>4. QED
    BY <1>1, <1>3, <2>2, <2>3, ScheduledNames
<1>4. CASE NewFinalizedHead(b) /\ Schedule(SafeHead(NoBlock, b), b)
  <2>1. ~IsFinal(b)
    BY <1>1, <1>4, FinalizeStep DEF NewFinalizedHead, IsFinal
  <2>2. Fresh("final", b) /\ (SafeMode => Fresh("head", b))
    BY <2>1 DEF Fresh, Origin, TasksOK
  <2>3. /\ SafeHead(NoBlock, b) = IF SafeMode THEN b ELSE NoBlock
        /\ ~Wanted(NoBlock)
    BY DEF SafeHead, Wanted
  <2>4. QED
    BY <1>1, <1>4, <2>2, <2>3, ScheduledNames
<1>5. QED
  BY <1>2, <1>3, <1>4 DEF NewHead, NewFinalizedHead

LEMMA NameInvStays ==
  ASSUME TypeInv, Origin, NameInv, [Next]_vars
  PROVE  NameInv'
<1>1. CASE Reconnect
  BY <1>1 DEF Reconnect, NameInv, TypeInv, StreamType
<1>2. CASE Ready
  <2>1. TasksType /\ TaskId = {} /\ StreamType
    BY <1>2 DEF TypeInv, TaskType, Origin, StreamsOK, Ready
  <2>2. /\ Named /\ Unique /\ Fresh("final", finalized)
        /\ Fresh("head", SafeHead(best, finalized))
    BY <2>1 DEF Named, Unique, Fresh
  <2>3. /\ SafeHead(best, finalized) \in Block \cup {NoBlock}
        /\ finalized \in Block \cup {NoBlock}
        /\ Schedule(SafeHead(best, finalized), finalized)
    BY <1>2, <2>1 DEF Ready, StreamType, SafeHead
  <2>4. QED
    BY <2>1, <2>2, <2>3, ScheduledNames DEF NameInv
<1>3. ASSUME NEW i \in TaskId, TaskStep(i) PROVE NameInv'
  <2>1. TasksType /\ Shape(i) /\ reannounced' = reannounced
    BY <1>3, StepShape, TaskStepFrame DEF TypeInv, TaskType, streamVars
  <2>2. QED
    BY <2>1, ShapeNames DEF NameInv
<1>4. CASE FirstHead \/ FirstFinalized
  BY <1>4 DEF FirstHead, FirstFinalized, NameInv, Named, Unique, Live, TaskId
<1>5. CASE Listen \/ Disconnect \/ DrainWait \/ Close \/ UNCHANGED vars
  BY <1>5, ControlSteps DEF Idle, streamVars, NameInv, Named, Unique, Live, TaskId
<1>6. QED
  BY <1>1, <1>2, <1>3, <1>4, <1>5, ChainMovesNames DEF Next

LEMMA NameInvariant == Spec => [](TypeInv /\ Origin /\ NameInv)
<1>1. Init => NameInv
  BY DEF Init, NameInv, Named, Unique, TaskId
<1>2. TypeInv /\ Origin /\ NameInv /\ [Next]_vars => NameInv'
  BY NameInvStays
<1>3. QED
  BY <1>1, <1>2, OriginInvariant, PTL DEF Spec

(* EveryTaskNamed: while no head is announced twice, the maps whose size   *)
(* disconnect() waits for name every task that has something left to do    *)
(* (_onNewHead, _onNewFinalizedHead and their retries).                    *)
THEOREM MapsNameEveryTask == Spec => []EveryTaskNamed
<1>1. NameInv => EveryTaskNamed
  BY DEF NameInv, Named, EveryTaskNamed
<1>2. QED
  BY <1>1, NameInvariant, PTL
LEMMA DrainedStays ==
  ASSUME TypeInv, NameInv, DrainedWhenClosed, [Next]_vars
  PROVE  DrainedWhenClosed'
<1>1. CASE Close
  <2> SUFFICES ASSUME reannounced' = 0, drain' > 0, NEW i \in TaskId', Live(i)'
               PROVE  FALSE
    BY DEF DrainedWhenClosed
  <2>1. UNCHANGED <<tasks, taskMap, reannounced, drain>> /\ Pending = {}
    BY <1>1 DEF Close, streamVars, TypeInv, ControlType
  <2>2. i \in TaskId /\ Live(i)
    BY <2>1 DEF Live, TaskId
  <2>3. tasks[i] \in Task /\ taskMap[tasks[i].kind][tasks[i].block] = i /\ i # 0
    BY <2>1, <2>2 DEF TypeInv, TaskType, TasksType, TaskId, NameInv, Named
  <2>4. <<tasks[i].kind, tasks[i].block>> \in Pending
    BY <2>3, TaskFields DEF Pending
  <2>5. QED
    BY <2>1, <2>4
<1>2. ASSUME NEW i \in TaskId, TaskStep(i) PROVE DrainedWhenClosed'
  <2>1. Shape(i) /\ Live(i) /\ UNCHANGED <<phase, reannounced, drain>>
    BY <1>2, StepShape, TaskStepFrame DEF TypeInv, TaskType, Shape, streamVars
  <2>2. ~(reannounced = 0 /\ phase = "closed" /\ drain > 0)
    BY <2>1 DEF DrainedWhenClosed
  <2>3. QED
    BY <2>1, <2>2 DEF DrainedWhenClosed
<1>3. CASE UNCHANGED vars
  BY <1>3 DEF vars, streamVars, DrainedWhenClosed, Live, TaskId
<1>4. ASSUME phase' # "closed" PROVE DrainedWhenClosed'
  BY <1>4 DEF DrainedWhenClosed
<1>5. ASSUME \/ FirstHead \/ FirstFinalized \/ Ready \/ Reconnect \/ Listen
             \/ Disconnect \/ DrainWait
             \/ \E b \in Block : NewHead(b) \/ NewFinalizedHead(b)
      PROVE  phase' # "closed"
  BY <1>5 DEF FirstHead, FirstFinalized, Ready, Reconnect, Listen, Disconnect, DrainWait,
              NewHead, NewFinalizedHead, Subscribed
<1>6. QED
  BY <1>1, <1>2, <1>3, <1>4, <1>5 DEF Next

(* DrainedWhenClosed: when disconnect() closes the connection with rounds  *)
(* to spare, no task is left to run into it (base-provider.ts:583-596).    *)
THEOREM ClosesDrained == Spec => []DrainedWhenClosed
<1>1. Init => DrainedWhenClosed
  BY DEF Init, DrainedWhenClosed
<1>2. QED
  BY <1>1, DrainedStays, NameInvariant, PTL DEF Spec

-----------------------------------------------------------------------------
(* The detailed pipeline is one way to run the abstract view: each of its  *)
(* steps is a step of the view or changes nothing the view shows.          *)
FinalHashes == {finalizedBlockHashes[n] : n \in DOMAIN finalizedBlockHashes}

LEMMA ViewInitMaps == Init => View!ViewInit
  BY DEF Init, BC!Init, View!ViewInit, View!ChainInit, ChainInit

(* Only members of the window and the new block are in the next window. *)
LEMMA WindowGains ==
  ASSUME finalizedBlockHashes \in Seq(Block), NEW b \in Block, OnFinalized(b)
  PROVE  FinalHashes' \subseteq FinalHashes \cup {b}
<1> DEFINE pushed == Append(finalizedBlockHashes, b)
<1>1. /\ pushed \in Seq(Block) /\ pushed # << >>
      /\ \A n \in DOMAIN pushed : pushed[n] \in FinalHashes \cup {b}
  BY Appended DEF FinalHashes
<1>2. /\ Len(Tail(pushed)) = Len(pushed) - 1
      /\ \A n \in DOMAIN Tail(pushed) : Tail(pushed)[n] = pushed[n + 1] /\ n + 1 \in DOMAIN pushed
  BY <1>1
<1> HIDE DEF pushed
<1>3. finalizedBlockHashes' \in {finalizedBlockHashes, pushed, Tail(pushed)}
  BY DEF OnFinalized, Finals!Keep, pushed
<1>4. \A n \in DOMAIN finalizedBlockHashes' : finalizedBlockHashes'[n] \in FinalHashes \cup {b}
  BY <1>1, <1>2, <1>3 DEF FinalHashes
<1>5. QED
  BY <1>4 DEF FinalHashes

LEMMA AnnouncedMaps ==
  ASSUME finalizedBlockHashes \in Seq(Block), NEW b \in Block, OnFinalized(b),
         UNCHANGED cacheVars
  PROVE  View!Announced(b)
  BY WindowGains, OnFinalizedIs DEF FinalHashes, View!Announced, cacheVars

(* The parts of the state the view is made of. *)
Unseen == UNCHANGED <<finalized, finalizedBlockHashes, lastCachedBlock, blockHashToReceipts>>

LEMMA UnseenMaps == Unseen => UNCHANGED View!viewVars
  BY DEF Unseen, View!viewVars

LEMMA LatestMaps ==
  ASSUME NEW b \in Block, BC!TypeOK, BC!Cache(b),
         UNCHANGED <<finalized, finalizedBlockHashes>>
  PROVE  View!Latest(b)
  BY CacheGains DEF View!Latest

LEMMA StepMaps ==
  ASSUME TypeInv, Origin, [Next]_vars
  PROVE  [View!ViewNext]_<<View!chainVars, View!viewVars>>
<1>1. ChainTypeOK /\ StreamType /\ BC!TypeOK
  BY DEF TypeInv
<1>2. bestHead \in Block /\ finalizedHead \in Block
  BY <1>1 DEF ChainTypeOK
<1>3. ASSUME NEW b \in Block, NewHead(b) PROVE View!ViewNext
  BY <1>3, UnseenMaps DEF NewHead, Unseen, cacheVars, View!ViewNext, View!HeadImported, View!NewBest, NewBest
<1>4. ASSUME NEW b \in Block, NewFinalizedHead(b) PROVE View!ViewNext
  <2>1. View!Finalize(b)
    BY <1>4 DEF NewFinalizedHead, Finalize, View!Finalize
  <2>2. CASE OnFinalized(b)
    BY <1>1, <1>4, <2>1, <2>2, AnnouncedMaps
    DEF NewFinalizedHead, StreamType, View!ViewNext, View!BlockFinalized
  <2>3. CASE UNCHANGED <<finalized, finalizedBlockHashes>>
    BY <1>4, <2>1, <2>3, UnseenMaps
    DEF NewFinalizedHead, Unseen, cacheVars, View!ViewNext, View!BlockFinalized
  <2>4. QED
    BY <1>4, <2>2, <2>3 DEF NewFinalizedHead
<1>5. ASSUME FirstFinalized \/ Reconnect PROVE View!ViewNext
  <2>1. OnFinalized(finalizedHead) /\ UNCHANGED <<chainVars, cacheVars>>
    BY <1>5 DEF FirstFinalized, Reconnect
  <2>2. View!Announced(finalizedHead)
    BY <1>1, <1>2, <2>1, AnnouncedMaps DEF StreamType, View!Announced
  <2>3. QED
    BY <2>1, <2>2 DEF chainVars, View!chainVars, View!ViewNext, View!FinalAnnounced
<1>6. ASSUME Ready PROVE View!ViewNext
  <2>1. firstBlock \in known /\ firstBlock \in Block
    BY <1>1, <1>6 DEF Ready, Origin, StreamsOK, ChainTypeOK, StreamType
  <2>2. View!Latest(firstBlock) /\ UNCHANGED chainVars
    BY <1>6 DEF Ready, streamVars, BC!SetlastCachedBlock, View!Latest
  <2>3. QED
    BY <2>1, <2>2
    DEF chainVars, View!chainVars, View!ViewNext, View!HeadCached, View!Latest
<1>7. ASSUME NEW i \in TaskId, TaskStep(i)
      PROVE  View!ViewNext \/ UNCHANGED <<View!chainVars, View!viewVars>>
  <2>1. UNCHANGED <<chainVars, streamVars>>
    BY <1>7, TaskStepFrame
  <2>2. CASE Fetched(i)
    <3>1. tasks[i].block \in known /\ tasks[i].block \in Block
      BY <1>1 DEF Origin, TasksOK, ChainTypeOK
    <3>2. View!Latest(tasks[i].block)
      BY <1>1, <2>1, <2>2, <3>1, LatestMaps DEF Fetched, streamVars, View!Latest
    <3>3. QED
      BY <2>1, <3>1, <3>2
      DEF chainVars, View!chainVars, View!ViewNext, View!HeadCached, View!Latest
  <2>3. CASE UNCHANGED cacheVars
    BY <2>1, <2>3, UnseenMaps DEF chainVars, streamVars, cacheVars, Unseen, View!chainVars
  <2>4. QED
    BY <1>7, <2>2, <2>3, TaskStepFrame
<1>8. ASSUME FirstHead \/ Listen \/ Disconnect \/ DrainWait \/ Close \/ UNCHANGED vars
      PROVE  UNCHANGED <<View!chainVars, View!viewVars>>
  <2>1. UNCHANGED chainVars /\ Unseen
    BY <1>8, ControlSteps DEF FirstHead, Idle, streamVars, cacheVars, Unseen
  <2>2. QED
    BY <2>1, UnseenMaps DEF chainVars, View!chainVars
<1>9. QED
  BY <1>3, <1>4, <1>5, <1>6, <1>7, <1>8 DEF Next

(* ImplementsView: whatever order tasks, retries, answers and reconnects   *)
(* come in, the queries see no more than HeadView allows: blocks cached    *)
(* late, out of order or never, and finality announced late or twice.      *)
THEOREM PipelineImplementsView == Spec => ImplementsView
<1>1. Spec => [](TypeInv /\ Origin)
  BY OriginInvariant
<1>2. QED
  BY <1>1, ViewInitMaps, StepMaps, PTL DEF Spec, ImplementsView, View!ViewSpec
-----------------------------------------------------------------------------
(* A head task has been told of, or is about to be, only when its block is *)
(* in the cache, or the window is full and may have moved past it.         *)
Cached(b) == b \in DOMAIN blockHashToReceipts \/ Len(cachedBlockHashes) = MaxCachedBlocks

CachedNext(b) ==
  b \in DOMAIN blockHashToReceipts' \/ Len(cachedBlockHashes') = MaxCachedBlocks

ToldInv ==
  /\ Len(cachedBlockHashes) <= MaxCachedBlocks
  /\ \A i \in HeadTask :
       tasks[i].sent > 0 \/ tasks[i].st = "notifying" => Cached(tasks[i].block)

(* Until the window is full nothing leaves it, and once full it stays so. *)
LEMMA CacheKeeps ==
  ASSUME BC!TypeOK, NEW b, b \in Block, BC!Cache(b), Len(cachedBlockHashes) <= MaxCachedBlocks
  PROVE  /\ Len(cachedBlockHashes') <= MaxCachedBlocks
         /\ \/ Len(cachedBlockHashes') = MaxCachedBlocks
            \/ /\ Len(cachedBlockHashes) # MaxCachedBlocks
               /\ DOMAIN blockHashToReceipts \cup {b} \subseteq DOMAIN blockHashToReceipts'
<1>1. /\ cachedBlockHashes \in Seq(Block) /\ Append(cachedBlockHashes, b) \in Seq(Block)
      /\ Len(Append(cachedBlockHashes, b)) = Len(cachedBlockHashes) + 1
      /\ MaxCachedBlocks \in Nat /\ Len(cachedBlockHashes) \in Nat
  BY Appended, PipelineAssumption DEF BC!TypeOK
<1>2. CASE BC!AddToWindow(b)
  BY <1>1, <1>2 DEF BC!AddToWindow, BC!ByBlockWith
<1>3. CASE BC!AddAndEvict(b)
  <2>1. cachedBlockHashes' = Tail(Append(cachedBlockHashes, b))
    BY <1>3 DEF BC!AddAndEvict
  <2>2. Len(Tail(Append(cachedBlockHashes, b))) = Len(Append(cachedBlockHashes, b)) - 1
    BY <1>1
  <2>3. Len(cachedBlockHashes) + 1 > MaxCachedBlocks
    BY <1>3 DEF BC!AddAndEvict
  <2>4. QED
    BY <1>1, <2>1, <2>2, <2>3
<1>4. QED
  BY <1>2, <1>3 DEF BC!Cache, BC!AddReceipts

(* The listeners are called after the block has been fetched. *)
LEMMA FetchedFirst ==
  ASSUME TasksType, NEW i \in TaskId, TaskStep(i),
         tasks'[i].sent > 0 \/ tasks'[i].st = "notifying"
  PROVE  \/ tasks[i].kind = "final" \/ Fetched(i)
         \/ tasks[i].sent > 0 \/ tasks[i].st = "notifying"
<1>1. tasks[i] \in Task /\ tasks \in Seq(Task)
  BY DEF TasksType, TaskId
<1>2. tasks[i].kind \in {"head", "final"}
  BY <1>1, TaskFields DEF Kind
<1>3. CASE Start(i) /\ tasks[i].kind = "head"
  <2>1. tasks'[i] = [tasks[i] EXCEPT !.left = tasks[i].left - 1, !.st = "fetching"]
    BY <1>1, <1>3 DEF Start, TaskId
  <2>2. tasks'[i].st = "fetching" /\ tasks'[i].sent = tasks[i].sent
    BY <1>1, <2>1 DEF Task
  <2>3. QED
    BY <2>2
<1>4. CASE FetchFailed(i)
  <2>1. PICK st \in {"scheduled", "gaveUp"} : tasks'[i] = [tasks[i] EXCEPT !.st = st]
    <3>1. MapType(taskMap, tasks) /\ i \in DOMAIN tasks /\ Retry(i, tasks)
      BY <1>4 DEF FetchFailed, TasksType, TaskId
    <3>2. QED
      BY <1>1, <3>1, Retried, GivenUp
  <2>2. tasks'[i].st = st /\ tasks'[i].sent = tasks[i].sent
    BY <1>1, <2>1, StatusOnly DEF State
  <2>3. QED
    BY <2>2
<1>5. CASE Notified(i) \/ NotifyFailed(i) \/ ListenerThrew(i)
  BY <1>5 DEF Notified, NotifyFailed, ListenerThrew
<1>6. QED
  BY <1>2, <1>3, <1>4, <1>5 DEF TaskStep

(* Cancelling another task tells it nothing. *)
LEMMA OthersUntold ==
  ASSUME TasksType, NEW i \in TaskId, Shape(i), NEW k \in TaskId \ {i}
  PROVE  /\ tasks'[k].sent = tasks[k].sent
         /\ tasks'[k].st \in {tasks[k].st, "cancelled"}
<1>1. tasks[k] \in Task /\ "cancelled" \in State
  BY DEF TasksType, TaskId, State
<1>2. /\ [tasks[k] EXCEPT !.st = "cancelled"].sent = tasks[k].sent
      /\ [tasks[k] EXCEPT !.st = "cancelled"].st = "cancelled"
  BY <1>1, StatusOnly
<1>3. QED
  BY <1>2 DEF Shape, OthersStay, OthersCancelled

LEMMA TaskStepTold ==
  ASSUME TypeInv, ToldInv, NEW i \in TaskId, TaskStep(i)
  PROVE  ToldInv'
<1>1. TasksType /\ BC!TypeOK /\ Shape(i) /\ tasks[i] \in Task
  BY StepShape DEF TypeInv, TaskType, TasksType, TaskId
<1>2. /\ TaskId' = TaskId
      /\ \A k \in TaskId : tasks'[k].kind = tasks[k].kind /\ tasks'[k].block = tasks[k].block
  BY <1>1, ShapeKeeps, TaskStepType
<1>3. /\ Len(cachedBlockHashes') <= MaxCachedBlocks
      /\ \A b : Cached(b) => CachedNext(b)
      /\ Fetched(i) => CachedNext(tasks[i].block)
  <2>1. CASE Fetched(i)
    <3>1. BC!Cache(tasks[i].block) /\ tasks[i].block \in Block
      BY <1>1, <2>1, TaskFields DEF Fetched
    <3>2. QED
      BY <1>1, <3>1, CacheKeeps DEF ToldInv, Cached, CachedNext
  <2>2. CASE ~Fetched(i)
    BY <2>2, TaskStepFrame DEF cacheVars, ToldInv, Cached, CachedNext
  <2>3. QED
    BY <2>1, <2>2
<1>4. ASSUME NEW k \in HeadTask, tasks'[k].sent > 0 \/ tasks'[k].st = "notifying"
      PROVE  CachedNext(tasks[k].block)
  <2>1. CASE k = i
    <3>1. i \in TaskId /\ tasks[i].kind = "head"
      BY <2>1 DEF HeadTask
    <3>2. Fetched(i) \/ tasks[i].sent > 0 \/ tasks[i].st = "notifying"
      BY <1>1, <1>4, <2>1, <3>1, FetchedFirst
    <3>3. QED
      BY <1>3, <2>1, <3>2 DEF ToldInv
  <2>2. CASE k # i
    <3>1. k \in TaskId \ {i}
      BY <2>2 DEF HeadTask
    <3>2. tasks[k].sent > 0 \/ tasks[k].st = "notifying"
      BY <1>1, <1>4, <3>1, OthersUntold
    <3>3. QED
      BY <1>3, <3>2 DEF ToldInv
  <2>3. QED
    BY <2>1, <2>2
<1>5. QED
  BY <1>2, <1>3, <1>4 DEF ToldInv, HeadTask, Cached, CachedNext

LEMMA ScheduledTold ==
  ASSUME ToldInv, TasksType, UNCHANGED <<cachedBlockHashes, blockHashToReceipts>>,
         NEW h \in Block \cup {NoBlock}, NEW f \in Block \cup {NoBlock}, Schedule(h, f)
  PROVE  ToldInv'
<1>1. /\ \A k \in TaskId : tasks'[k] = tasks[k]
      /\ \A k \in TaskId' \ TaskId : New(k, h, f)
  BY Scheduled
<1>2. \A k \in TaskId' \ TaskId : tasks'[k].sent = 0 /\ tasks'[k].st = "scheduled"
  BY <1>1 DEF New, NewTask
<1>3. QED
  BY <1>1, <1>2 DEF ToldInv, HeadTask, Cached

LEMMA ToldInvStays ==
  ASSUME TypeInv, ToldInv, [Next]_vars
  PROVE  ToldInv'
<1>1. TasksType /\ StreamType /\ ChainTypeOK
  BY DEF TypeInv, TaskType
<1>2. CASE UNCHANGED <<cacheVars, tasks>>
  BY <1>2 DEF cacheVars, ToldInv, HeadTask, TaskId, Cached
<1>3. CASE Ready
  BY <1>1, <1>3, ScheduledTold DEF Ready, SafeHead, StreamType
<1>4. CASE Reconnect
  BY <1>1, <1>4, ScheduledTold DEF Reconnect, SafeHead, ChainTypeOK, cacheVars
<1>5. ASSUME NEW b \in Block, NewHead(b) PROVE ToldInv'
  BY <1>1, <1>2, <1>5, ScheduledTold DEF NewHead, SafeHead, cacheVars
<1>6. ASSUME NEW b \in Block, NewFinalizedHead(b) PROVE ToldInv'
  BY <1>1, <1>2, <1>6, ScheduledTold DEF NewFinalizedHead, SafeHead, cacheVars
<1>7. ASSUME FirstHead \/ FirstFinalized PROVE ToldInv'
  BY <1>2, <1>7 DEF FirstHead, FirstFinalized
<1>8. CASE Listen \/ Disconnect \/ DrainWait \/ Close \/ UNCHANGED vars
  BY <1>2, <1>8, ControlSteps DEF Idle
<1>9. QED
  BY <1>3, <1>4, <1>5, <1>6, <1>7, <1>8, TaskStepTold DEF Next

(* CachedBeforeNotified: a listener told of a head finds its receipts in   *)
(* the cache, or the window is full and has moved on, however often the    *)
(* head was retried ("this should happen *before* notifying subscribers    *)
(* about the new block", _onNewHead).                                      *)
THEOREM CachesBeforeNotifying == Spec => []CachedBeforeNotified
<1>1. Init => ToldInv
  BY PipelineAssumption DEF Init, BC!Init, ToldInv, HeadTask, TaskId
<1>2. TypeInv /\ ToldInv /\ [Next]_vars => ToldInv'
  BY ToldInvStays
<1>3. ToldInv => CachedBeforeNotified
  BY DEF ToldInv, CachedBeforeNotified, Cached
<1>4. QED
  BY <1>1, <1>2, <1>3, TypeInvariant, PTL DEF Spec
-----------------------------------------------------------------------------
(* Why the latest block only falls back when a head is overtaken: heads    *)
(* are announced in the order of their heights, and the latest block is    *)
(* never above a head that is still being worked on.                       *)
StreamsCurrent ==
  /\ best # NoBlock => best = bestHead /\ Number[firstBlock] <= Number[bestHead]
  /\ Starting => lastCachedBlock = NoBlock

HeadsOrdered ==
  /\ \A i \in HeadTask : Number[tasks[i].block] <= Number[bestHead]
  /\ \A i, k \in HeadTask : i <= k => Number[tasks[i].block] <= Number[tasks[k].block]

LatestBehind ==
  lastCachedBlock # NoBlock =>
    /\ Number[lastCachedBlock] <= Number[bestHead]
    /\ ~overtaken => \A i \in HeadTask : Live(i) =>
                       Number[lastCachedBlock] <= Number[tasks[i].block]

OrderInv == StreamsCurrent /\ (~SafeMode => HeadsOrdered /\ LatestBehind)

LEMMA Heights ==
  ASSUME TypeInv
  PROVE  /\ Number[bestHead] \in Nat
         /\ \A i \in TaskId : tasks[i].block \in Block /\ Number[tasks[i].block] \in Nat
         /\ lastCachedBlock # NoBlock => Number[lastCachedBlock] \in Nat
         /\ TaskId \subseteq Nat
<1>1. /\ bestHead \in Block /\ lastCachedBlock \in Block \cup {NoBlock}
      /\ TaskId \subseteq Nat /\ \A i \in TaskId : tasks[i] \in Task
  BY DEF TypeInv, ChainTypeOK, BC!TypeOK, TaskType, TasksType, TaskId
<1>2. QED
  BY <1>1, TaskFields, TreeAssumption

(* A head announced now is the best block, and the highest so far. *)
LEMMA ScheduledOrder ==
  ASSUME TypeInv, TypeInv', HeadsOrdered, LatestBehind,
         UNCHANGED <<lastCachedBlock, overtaken>>,
         Number[bestHead] <= Number[bestHead'],
         NEW h \in {bestHead', NoBlock}, NEW f \in Block \cup {NoBlock}, Schedule(h, f)
  PROVE  HeadsOrdered' /\ LatestBehind'
<1>1. h \in Block \cup {NoBlock} /\ TasksType
  BY DEF TypeInv, ChainTypeOK, TaskType
<1>2. /\ TaskId \subseteq TaskId'
      /\ \A k \in TaskId : tasks'[k] = tasks[k]
      /\ \A k \in TaskId' \ TaskId : New(k, h, f)
      /\ \A i, k \in TaskId' \ TaskId : i # k => tasks'[i].kind # tasks'[k].kind
  BY <1>1, Scheduled
<1>3. \A k \in HeadTask' : k \in HeadTask \/ k \in TaskId' \ TaskId
  BY <1>2 DEF HeadTask
<1>4. \A k \in TaskId' \ TaskId : tasks'[k].kind = "head" => tasks'[k].block = bestHead'
  BY <1>2 DEF New, NewTask, Wanted
<1>5. \A i \in TaskId, k \in TaskId' \ TaskId : i < k
  BY <1>2 DEF TypeInv, TaskType, TasksType, TaskId
<1>6. /\ Number[bestHead] \in Nat /\ Number[bestHead'] \in Nat
      /\ \A i \in TaskId : Number[tasks[i].block] \in Nat
      /\ lastCachedBlock # NoBlock => Number[lastCachedBlock] \in Nat
      /\ TaskId' \subseteq Nat /\ TaskId \subseteq Nat
  <2>1. bestHead' \in Block /\ TaskId' \subseteq Nat
    BY DEF TypeInv, ChainTypeOK, TaskType, TasksType, TaskId
  <2>2. QED
    BY <2>1, Heights, TreeAssumption
<1>7. \A i \in HeadTask' : \/ i \in HeadTask /\ tasks'[i] = tasks[i]
                           \/ i \in TaskId' \ TaskId /\ tasks'[i].block = bestHead'
  BY <1>2, <1>3, <1>4 DEF HeadTask
<1>8. HeadTask \subseteq TaskId
  BY DEF HeadTask
<1>9. ASSUME NEW i \in HeadTask' PROVE Number[tasks'[i].block] <= Number[bestHead']
  <2>1. CASE i \in HeadTask /\ tasks'[i] = tasks[i]
    <3>1. Number[tasks[i].block] <= Number[bestHead] /\ Number[tasks[i].block] \in Nat
      BY <1>6, <1>8, <2>1 DEF HeadsOrdered
    <3>2. QED
      BY <1>6, <2>1, <3>1
  <2>2. CASE tasks'[i].block = bestHead'
    BY <1>6, <2>2
  <2>3. QED
    BY <1>7, <2>1, <2>2
<1>10. ASSUME NEW i \in HeadTask', NEW k \in HeadTask', i <= k
       PROVE  Number[tasks'[i].block] <= Number[tasks'[k].block]
  <2>1. CASE k \in HeadTask /\ tasks'[k] = tasks[k]
    <3>1. i \in HeadTask /\ tasks'[i] = tasks[i]
      <4>1. i \in Nat /\ k \in Nat /\ k \in TaskId
        BY <1>6, <1>8, <2>1 DEF HeadTask
      <4>2. i \notin TaskId' \ TaskId
        BY <1>5, <1>10, <4>1
      <4>3. QED
        BY <1>7, <4>2
    <3>2. QED
      BY <1>10, <2>1, <3>1 DEF HeadsOrdered
  <2>2. CASE tasks'[k].block = bestHead'
    BY <1>9, <2>2
  <2>3. QED
    BY <1>7, <2>1, <2>2
<1>11. LatestBehind'
  <2> SUFFICES ASSUME lastCachedBlock' # NoBlock
               PROVE  /\ Number[lastCachedBlock'] <= Number[bestHead']
                      /\ ~overtaken' => \A i \in HeadTask' : Live(i)' =>
                           Number[lastCachedBlock'] <= Number[tasks'[i].block]
    BY DEF LatestBehind
  <2>1. Number[lastCachedBlock'] <= Number[bestHead']
    BY <1>6 DEF LatestBehind
  <2>2. ASSUME ~overtaken', NEW i \in HeadTask', Live(i)'
        PROVE  Number[lastCachedBlock'] <= Number[tasks'[i].block]
    <3>1. CASE i \in HeadTask /\ tasks'[i] = tasks[i]
      BY <2>2, <3>1 DEF LatestBehind, Live
    <3>2. CASE tasks'[i].block = bestHead'
      BY <2>1, <3>2
    <3>3. QED
      BY <1>7, <3>1, <3>2
  <2>3. QED
    BY <2>1, <2>2
<1>12. QED
  BY <1>9, <1>10, <1>11 DEF HeadsOrdered

(* A task step makes no other task live. *)
LEMMA StillLive ==
  ASSUME TasksType, NEW i \in TaskId, Shape(i), NEW k \in TaskId, Live(k)'
  PROVE  Live(k)
<1>1. CASE k = i
  BY <1>1 DEF Shape
<1>2. CASE k # i
  BY <1>2, OthersUntold DEF Live
<1>3. QED
  BY <1>1, <1>2

(* When a head is cached before no older one, it is no lower than the      *)
(* latest block and no higher than any head still to come.                 *)
LEMMA FetchedOrder ==
  ASSUME TypeInv, OrderInv, ~SafeMode, NEW i \in TaskId, Fetched(i), ~overtaken'
  PROVE  /\ i \in HeadTask /\ Live(i) /\ ~overtaken
         /\ lastCachedBlock' = tasks[i].block
         /\ \A k \in HeadTask : Live(k) /\ k # i => i < k
         /\ lastCachedBlock # NoBlock => Number[lastCachedBlock] <= Number[tasks[i].block]
<1>1. i \in HeadTask /\ Live(i) /\ ~overtaken /\ lastCachedBlock' = tasks[i].block
  BY DEF TypeInv, TaskType, TaskOK, Fetched, HeadTask, Live, BC!Cache, BC!SetlastCachedBlock
<1>2. ~ \E j \in HeadTask : j < i /\ Live(j)
  BY DEF Fetched
<1>3. HeadTask \subseteq Nat
  BY Heights DEF HeadTask
<1>4. QED
  BY <1>1, <1>2, <1>3 DEF OrderInv, LatestBehind

LEMMA TaskStepOrder ==
  ASSUME TypeInv, Origin, OrderInv, NEW i \in TaskId, TaskStep(i)
  PROVE  OrderInv'
<1>1. TasksType /\ Shape(i) /\ UNCHANGED <<chainVars, phase, streamVars>>
  BY StepShape, TaskStepFrame DEF TypeInv, TaskType
<1>2. /\ TaskId' = TaskId
      /\ \A k \in TaskId : tasks'[k].kind = tasks[k].kind /\ tasks'[k].block = tasks[k].block
  BY <1>1, ShapeKeeps, TaskStepType
<1>3. HeadTask' = HeadTask /\ HeadTask \subseteq TaskId
  BY <1>2 DEF HeadTask
<1>4. ~Starting
  BY DEF Origin, StreamsOK
<1>5. StreamsCurrent'
  BY <1>1, <1>4 DEF OrderInv, StreamsCurrent, chainVars, streamVars
<1> SUFFICES ASSUME ~SafeMode PROVE HeadsOrdered' /\ LatestBehind'
  BY <1>5 DEF OrderInv
<1>6. HeadsOrdered'
  BY <1>1, <1>2, <1>3 DEF OrderInv, HeadsOrdered, chainVars
<1>7. CASE Fetched(i)
  <2>1. /\ lastCachedBlock' = tasks[i].block
        /\ tasks[i].kind = "head"
    BY <1>7 DEF TypeInv, TaskType, TaskOK, Fetched, BC!Cache, BC!SetlastCachedBlock
  <2>2. Number[lastCachedBlock'] <= Number[bestHead']
    BY <1>1, <2>1 DEF OrderInv, HeadsOrdered, HeadTask, chainVars
  <2>3. ASSUME ~overtaken', NEW k \in HeadTask, Live(k)'
        PROVE  Number[lastCachedBlock'] <= Number[tasks'[k].block]
    <3>1. Live(k) /\ i \in HeadTask /\ (k # i => i < k) /\ i \in Nat
      BY <1>1, <1>3, <1>7, <2>3, StillLive, FetchedOrder, Heights
    <3>2. i <= k
      <4>1. k \in Nat
        BY <1>3, Heights
      <4>2. QED
        BY <3>1, <4>1
    <3>3. Number[tasks[i].block] <= Number[tasks[k].block]
      BY <3>1, <3>2 DEF OrderInv, HeadsOrdered
    <3>4. QED
      BY <1>2, <1>3, <2>1, <3>3
  <2>4. LatestBehind'
    BY <1>3, <2>2, <2>3 DEF LatestBehind
  <2>5. QED
    BY <1>6, <2>4
<1>8. CASE UNCHANGED <<cacheVars, overtaken>>
  <2>1. ASSUME NEW k \in HeadTask, Live(k)' PROVE Live(k) /\ tasks'[k].block = tasks[k].block
    BY <1>1, <1>2, <1>3, <2>1, StillLive
  <2>2. LatestBehind'
    BY <1>1, <1>3, <1>8, <2>1 DEF OrderInv, LatestBehind, cacheVars, chainVars
  <2>3. QED
    BY <1>6, <2>2
<1>9. QED
  BY <1>7, <1>8, TaskStepFrame

LEMMA OrderInvStays ==
  ASSUME TypeInv, TypeInv', Origin, OrderInv, [Next]_vars
  PROVE  OrderInv'
<1>1. ChainTypeOK /\ StreamType /\ NoBlock \notin Block /\ Number[bestHead] \in Nat
  BY Heights, TreeAssumption DEF TypeInv
<1>2. CASE FirstHead \/ FirstFinalized
  <2>1. /\ UNCHANGED <<chainVars, phase, cacheVars, tasks, overtaken>>
        /\ \/ best' = bestHead /\ firstBlock' = bestHead
           \/ UNCHANGED <<best, firstBlock>>
    BY <1>2 DEF FirstHead, FirstFinalized, OnBest
  <2>2. StreamsCurrent'
    BY <1>1, <2>1 DEF OrderInv, StreamsCurrent, chainVars, cacheVars
  <2>3. ~SafeMode => HeadsOrdered' /\ LatestBehind'
    BY <2>1 DEF OrderInv, HeadsOrdered, LatestBehind, HeadTask, TaskId, Live, chainVars, cacheVars
  <2>4. QED
    BY <2>2, <2>3 DEF OrderInv
<1>3. CASE Ready
  <2>1. /\ UNCHANGED <<chainVars, streamVars, overtaken>> /\ ~Starting'
        /\ lastCachedBlock' = firstBlock /\ best # NoBlock
        /\ Schedule(SafeHead(best, finalized), finalized) /\ TaskId = {} /\ Starting
    BY <1>3 DEF Ready, Origin, StreamsOK, BC!SetlastCachedBlock
  <2>2. StreamsCurrent'
    BY <2>1 DEF OrderInv, StreamsCurrent, chainVars, streamVars
  <2> SUFFICES ASSUME ~SafeMode PROVE HeadsOrdered' /\ LatestBehind'
    BY <2>2 DEF OrderInv
  <2>3. /\ SafeHead(best, finalized) = bestHead /\ bestHead' = bestHead
        /\ Number[firstBlock] <= Number[bestHead]
    BY <2>1 DEF SafeHead, OrderInv, StreamsCurrent, chainVars
  <2>4. \A k \in TaskId' : New(k, bestHead, finalized)
    <3>1. TasksType /\ bestHead \in Block \cup {NoBlock} /\ finalized \in Block \cup {NoBlock}
      BY <1>1 DEF TypeInv, TaskType, ChainTypeOK, StreamType
    <3>2. QED
      BY <2>1, <2>3, <3>1, Scheduled
  <2>5. \A k \in HeadTask' : tasks'[k].block = bestHead
    BY <2>4 DEF New, NewTask, HeadTask
  <2>6. QED
    BY <1>1, <2>1, <2>3, <2>5 DEF HeadsOrdered, LatestBehind
<1>4. ASSUME NEW b \in Block, NewHead(b) PROVE OrderInv'
  <2>1. /\ bestHead' = b /\ Number[bestHead] <= Number[b] /\ Number[b] \in Nat
        /\ UNCHANGED <<phase, firstBlock, cacheVars, overtaken>>
    BY <1>1, <1>4, NewBestStep, TreeAssumption DEF NewHead
  <2>2. best' = IF best # NoBlock THEN b ELSE NoBlock
    BY <1>4 DEF NewHead, OnBest
  <2>3. best # NoBlock => Number[firstBlock] \in Nat
    BY <1>1, TreeAssumption DEF Origin, StreamsOK, StreamType
  <2>4. StreamsCurrent'
    BY <1>1, <2>1, <2>2, <2>3 DEF OrderInv, StreamsCurrent, cacheVars
  <2> SUFFICES ASSUME ~SafeMode PROVE HeadsOrdered' /\ LatestBehind'
    BY <2>4 DEF OrderInv
  <2>5. CASE UNCHANGED <<tasks, taskMap>>
    <3>1. HeadTask' = HeadTask /\ \A i \in HeadTask : tasks'[i] = tasks[i] /\ i \in TaskId
      BY <2>5 DEF HeadTask, TaskId
    <3>2. QED
      BY <1>1, <2>1, <2>5, <3>1, Heights
      DEF OrderInv, HeadsOrdered, LatestBehind, Live, cacheVars
  <2>6. CASE Schedule(SafeHead(b, NoBlock), NoBlock)
    <3>1. SafeHead(b, NoBlock) = bestHead'
      BY <2>1 DEF SafeHead
    <3>2. QED
      BY <2>1, <2>6, <3>1, ScheduledOrder DEF OrderInv, cacheVars
  <2>7. QED
    BY <1>4, <2>5, <2>6 DEF NewHead
<1>5. ASSUME NEW b \in Block, NewFinalizedHead(b) PROVE OrderInv'
  <2>1. bestHead' = bestHead /\ UNCHANGED <<phase, firstBlock, best, cacheVars, overtaken>>
    BY <1>5 DEF NewFinalizedHead, Finalize
  <2>2. StreamsCurrent'
    BY <2>1 DEF OrderInv, StreamsCurrent, cacheVars
  <2> SUFFICES ASSUME ~SafeMode PROVE HeadsOrdered' /\ LatestBehind'
    BY <2>2 DEF OrderInv
  <2>3. CASE UNCHANGED <<tasks, taskMap>>
    BY <2>1, <2>3 DEF OrderInv, HeadsOrdered, LatestBehind, HeadTask, TaskId, Live, cacheVars
  <2>4. CASE Schedule(SafeHead(NoBlock, b), b)
    <3>1. SafeHead(NoBlock, b) = NoBlock
      BY DEF SafeHead
    <3>2. QED
      BY <1>1, <2>1, <2>4, <3>1, ScheduledOrder DEF OrderInv, cacheVars
  <2>5. QED
    BY <1>5, <2>3, <2>4 DEF NewFinalizedHead
<1>6. CASE Reconnect
  <2>1. /\ bestHead' = bestHead /\ best' = bestHead /\ best # NoBlock
        /\ UNCHANGED <<phase, firstBlock, cacheVars, overtaken>>
        /\ Schedule(SafeHead(bestHead, finalizedHead), finalizedHead) /\ finalizedHead \in Block
    BY <1>1, <1>6 DEF Reconnect, OnBest, chainVars, Origin, StreamsOK, ChainTypeOK
  <2>2. StreamsCurrent'
    BY <2>1 DEF OrderInv, StreamsCurrent, cacheVars
  <2> SUFFICES ASSUME ~SafeMode PROVE HeadsOrdered' /\ LatestBehind'
    BY <2>2 DEF OrderInv
  <2>3. SafeHead(bestHead, finalizedHead) = bestHead'
    BY <2>1 DEF SafeHead
  <2>4. QED
    BY <1>1, <2>1, <2>3, ScheduledOrder DEF OrderInv, cacheVars
<1>7. CASE Listen \/ Disconnect \/ DrainWait \/ Close \/ UNCHANGED vars
  <2>1. Idle /\ (Starting' <=> Starting)
    BY <1>7, ControlSteps DEF Listen, Disconnect, DrainWait, Close, vars
  <2>2. QED
    BY <2>1 DEF Idle, chainVars, streamVars, cacheVars, OrderInv, StreamsCurrent, HeadsOrdered,
                LatestBehind, HeadTask, TaskId, Live
<1>8. QED
  BY <1>2, <1>3, <1>4, <1>5, <1>6, <1>7, TaskStepOrder DEF Next

(* What a step may do to the latest block. *)
LEMMA LatestStep ==
  ASSUME TypeInv, Origin, OrderInv, [Next]_vars
  PROVE  ~SafeMode /\ lastCachedBlock # NoBlock /\ ~overtaken' =>
           Number[lastCachedBlock'] >= Number[lastCachedBlock]
<1> SUFFICES ASSUME ~SafeMode, lastCachedBlock # NoBlock, ~overtaken'
             PROVE  Number[lastCachedBlock'] >= Number[lastCachedBlock]
  OBVIOUS
<1>1. Number[lastCachedBlock] \in Nat
  BY Heights
<1>2. CASE lastCachedBlock' = lastCachedBlock
  BY <1>1, <1>2
<1>3. ASSUME NEW i \in TaskId, Fetched(i)
      PROVE  Number[lastCachedBlock'] >= Number[lastCachedBlock]
  BY <1>1, <1>3, FetchedOrder, Heights
<1>4. ASSUME NEW i \in TaskId, TaskStep(i), ~Fetched(i)
      PROVE  lastCachedBlock' = lastCachedBlock
  BY <1>4, TaskStepFrame DEF cacheVars
<1>5. ~Ready
  BY DEF Ready, OrderInv, StreamsCurrent
<1>6. ASSUME \/ FirstHead \/ FirstFinalized \/ Reconnect
             \/ \E b \in Block : NewHead(b) \/ NewFinalizedHead(b)
      PROVE  lastCachedBlock' = lastCachedBlock
  BY <1>6 DEF FirstHead, FirstFinalized, Reconnect, NewHead, NewFinalizedHead, cacheVars
<1>7. ASSUME Listen \/ Disconnect \/ DrainWait \/ Close \/ UNCHANGED vars
      PROVE  lastCachedBlock' = lastCachedBlock
  BY <1>7, ControlSteps DEF Idle, cacheVars
<1>8. QED
  BY <1>2, <1>3, <1>4, <1>5, <1>6, <1>7 DEF Next

(* LatestNeverRegresses: what eth_blockNumber answers goes down only when  *)
(* a head was cached while an older one was still being worked on          *)
(* (setlastCachedBlock in _onNewHead).                                     *)
THEOREM LatestOnlyRises == Spec => LatestNeverRegresses
<1>1. Init => OrderInv
  BY DEF Init, BC!Init, OrderInv, StreamsCurrent, HeadsOrdered, LatestBehind, HeadTask, TaskId
<1>2. TypeInv /\ Origin /\ OrderInv /\ TypeInv' /\ [Next]_vars => OrderInv'
  BY OrderInvStays
<1>3. TypeInv /\ Origin /\ OrderInv /\ [Next]_vars =>
        [~SafeMode /\ lastCachedBlock # NoBlock /\ ~overtaken' =>
           Number[lastCachedBlock'] >= Number[lastCachedBlock]]_vars
  BY LatestStep
<1>4. QED
  BY <1>1, <1>2, <1>3, OriginInvariant, PTL DEF Spec, LatestNeverRegresses
-----------------------------------------------------------------------------
(* What a map entry names: a task of its own kind and block, which has     *)
(* something left to do or has given up.  Whatever ends such a task        *)
(* otherwise takes the entry of its block away.                            *)
Lasting(t) == t.st \in {"scheduled", "fetching", "notifying", "gaveUp"}

EntryFits ==
  \A c \in Kind, b \in Block : taskMap[c][b] # 0 =>
    /\ tasks[taskMap[c][b]].kind = c
    /\ tasks[taskMap[c][b]].block = b
    /\ Lasting(tasks[taskMap[c][b]])

LEMMA ScheduledFits ==
  ASSUME TasksType, EntryFits,
         NEW h \in Block \cup {NoBlock}, NEW f \in Block \cup {NoBlock}, Schedule(h, f)
  PROVE  EntryFits'
<1>1. /\ \A k \in TaskId : tasks'[k] = tasks[k]
      /\ \A b \in Block :
           /\ ~(Wanted(h) /\ b = h) => taskMap'["head"][b] = taskMap["head"][b]
           /\ ~(Wanted(f) /\ b = f) => taskMap'["final"][b] = taskMap["final"][b]
      /\ Wanted(h) => Entry("head", h)
      /\ Wanted(f) => Entry("final", f)
  BY Scheduled
<1> SUFFICES ASSUME NEW c \in Kind, NEW b \in Block, taskMap'[c][b] # 0
             PROVE  /\ tasks'[taskMap'[c][b]].kind = c
                    /\ tasks'[taskMap'[c][b]].block = b
                    /\ Lasting(tasks'[taskMap'[c][b]])
  BY DEF EntryFits, Lasting
<1>2. CASE Entry(c, b)
  BY <1>2 DEF Entry, NewTask, Lasting
<1>3. CASE taskMap'[c][b] = taskMap[c][b]
  <2>1. taskMap[c][b] \in TaskId
    BY <1>3 DEF TasksType, MapType, TaskId
  <2>2. QED
    BY <1>1, <1>3, <2>1 DEF EntryFits
<1>4. QED
  BY <1>1, <1>2, <1>3 DEF Kind

(* Only a task of the same kind and block is cancelled by another one.     *)
LEMMA OnlyTwins ==
  ASSUME TasksType, EntryFits, NEW i \in TaskId, Shape(i), NEW k \in TaskId \ {i},
         ~(tasks[k].kind = tasks[i].kind /\ tasks[k].block = tasks[i].block)
  PROVE  tasks'[k] = tasks[k]
<1>1. tasks[i] \in Task /\ k # 0
  BY DEF TasksType, TaskId
<1>2. tasks[i].kind \in Kind /\ tasks[i].block \in Block
  BY <1>1, TaskFields
<1>3. taskMap[tasks[i].kind][tasks[i].block] # k
  BY <1>1, <1>2 DEF EntryFits
<1>4. QED
  BY <1>3 DEF Shape, OthersStay, OthersCancelled

LEMMA TaskStepFits ==
  ASSUME TasksType, EntryFits, NEW i \in TaskId, Shape(i)
  PROVE  EntryFits'
<1> SUFFICES ASSUME NEW c \in Kind, NEW b \in Block, taskMap'[c][b] # 0
             PROVE  /\ tasks'[taskMap'[c][b]].kind = c
                    /\ tasks'[taskMap'[c][b]].block = b
                    /\ Lasting(tasks'[taskMap'[c][b]])
  BY DEF EntryFits, Lasting
<1>1. /\ tasks'[i].kind = tasks[i].kind /\ tasks'[i].block = tasks[i].block
  BY DEF Shape
<1>2. CASE taskMap' = taskMap /\ OthersStay(i) /\ tasks'[i].st \in {"fetching", "notifying", "gaveUp"}
  <2>1. taskMap[c][b] \in TaskId
    BY <1>2 DEF TasksType, MapType, TaskId
  <2>2. CASE taskMap[c][b] = i
    BY <1>1, <1>2, <2>2 DEF EntryFits, Lasting
  <2>3. CASE taskMap[c][b] # i
    BY <1>2, <2>1, <2>3 DEF EntryFits, OthersStay
  <2>4. QED
    BY <2>2, <2>3
<1>3. ASSUME NEW id, EntryIs(i, id), ~(c = tasks[i].kind /\ b = tasks[i].block)
      PROVE  /\ tasks'[taskMap'[c][b]].kind = c
             /\ tasks'[taskMap'[c][b]].block = b
             /\ Lasting(tasks'[taskMap'[c][b]])
  <2>1. taskMap'[c][b] = taskMap[c][b]
    BY <1>3 DEF EntryIs
  <2>2. /\ taskMap[c][b] \in TaskId
        /\ tasks[taskMap[c][b]].kind = c /\ tasks[taskMap[c][b]].block = b
        /\ Lasting(tasks[taskMap[c][b]])
    BY <2>1 DEF TasksType, MapType, TaskId, EntryFits
  <2>3. tasks'[taskMap[c][b]] = tasks[taskMap[c][b]]
    BY <1>3, <2>2, OnlyTwins
  <2>4. QED
    BY <2>1, <2>2, <2>3
<1>4. CASE EntryIs(i, 0)
  BY <1>3, <1>4 DEF EntryIs
<1>5. CASE EntryIs(i, i) /\ tasks'[i].st = "scheduled"
  BY <1>1, <1>3, <1>5 DEF EntryIs, Lasting
<1>6. QED
  BY <1>2, <1>4, <1>5 DEF Shape

LEMMA EntryFitsStays ==
  ASSUME TypeInv, EntryFits, [Next]_vars
  PROVE  EntryFits'
<1>1. TasksType /\ StreamType /\ ChainTypeOK
  BY DEF TypeInv, TaskType
<1>2. CASE UNCHANGED <<tasks, taskMap>>
  BY <1>2 DEF EntryFits, Lasting
<1>3. CASE Ready
  BY <1>1, <1>3, ScheduledFits DEF Ready, SafeHead, StreamType
<1>4. CASE Reconnect
  BY <1>1, <1>4, ScheduledFits DEF Reconnect, SafeHead, ChainTypeOK
<1>5. ASSUME NEW b \in Block, NewHead(b) PROVE EntryFits'
  BY <1>1, <1>2, <1>5, ScheduledFits DEF NewHead, SafeHead
<1>6. ASSUME NEW b \in Block, NewFinalizedHead(b) PROVE EntryFits'
  BY <1>1, <1>2, <1>6, ScheduledFits DEF NewFinalizedHead, SafeHead
<1>7. ASSUME NEW i \in TaskId, TaskStep(i) PROVE EntryFits'
  BY <1>7, StepShape, TaskStepFits DEF TypeInv, TaskType
<1>8. CASE FirstHead \/ FirstFinalized
  BY <1>2, <1>8 DEF FirstHead, FirstFinalized
<1>9. CASE Listen \/ Disconnect \/ DrainWait \/ Close \/ UNCHANGED vars
  BY <1>2, <1>9, ControlSteps DEF Idle
<1>10. QED
  BY <1>3, <1>4, <1>5, <1>6, <1>7, <1>8, <1>9 DEF Next

LEMMA FitsInvariant == Spec => [](TypeInv /\ EntryFits)
<1>1. Init => EntryFits
  BY DEF Init, EntryFits
<1>2. TypeInv /\ EntryFits /\ [Next]_vars => EntryFits'
  BY EntryFitsStays
<1>3. QED
  BY <1>1, <1>2, TypeInvariant, PTL DEF Spec

(* PendingIsLiveOrGivenUp: what disconnect() waits for is a task with      *)
(* something left to do, or one that gave up and left its entry behind,    *)
(* whatever was announced again (_onNewHead, base-provider.ts:583-596).    *)
THEOREM PendingLasts == Spec => []PendingIsLiveOrGivenUp
<1>1. TypeInv /\ EntryFits => PendingIsLiveOrGivenUp
  <2> SUFFICES ASSUME EntryFits, NEW kb \in Pending
               PROVE  LET i == taskMap[kb[1]][kb[2]] IN Live(i) \/ tasks[i].st = "gaveUp"
    BY DEF PendingIsLiveOrGivenUp
  <2>1. kb[1] \in Kind /\ kb[2] \in Block /\ taskMap[kb[1]][kb[2]] # 0
    BY DEF Pending
  <2>2. QED
    BY <2>1 DEF EntryFits, Lasting, Live
<1>2. QED
  BY <1>1, FitsInvariant, PTL
-----------------------------------------------------------------------------
(* Why the latest block is the best one when all is quiet.  A head that    *)
(* was replaced is never announced again, so that the tasks of the best    *)
(* block are the last ones.  Until one of them has cached it, one is       *)
(* there that will, or that has given up; and a task that is notifying     *)
(* has cached the latest block, or it has been overtaken.                  *)
NeverBack ==
  \A i, k \in HeadTask : i <= k /\ tasks[i].block = best => tasks[k].block = best

AboveGenesis == HeadTask # {} => Wanted(best)

NotifyingLatest ==
  \A i \in HeadTask : tasks[i].st = "notifying" =>
    /\ lastCachedBlock = tasks[i].block
    /\ \A k \in HeadTask : k < i => ~Live(k)

OldOnesOver ==
  lastCachedBlock = best => \A k \in HeadTask : Live(k) => tasks[k].block = best

BestPursued ==
  HeadTask # {} =>
    \/ lastCachedBlock = best
    \/ \E i \in HeadTask : tasks[i].block = best /\ Lasting(tasks[i])

Heading ==
  /\ NeverBack /\ AboveGenesis
  /\ ~overtaken => NotifyingLatest /\ OldOnesOver /\ BestPursued

BestInv ==
  /\ lastCachedBlock \in known \cup {NoBlock}
  /\ ~SafeMode => Heading

LEMMA NoHeadsYet ==
  ASSUME HeadTask' = {}
  PROVE  Heading'
  BY DEF Heading, NeverBack, AboveGenesis, NotifyingLatest, OldOnesOver, BestPursued

LEMMA HeadsSame ==
  ASSUME Heading, HeadTask' = HeadTask, \A k \in HeadTask : tasks'[k] = tasks[k],
         UNCHANGED <<best, lastCachedBlock, overtaken>>
  PROVE  Heading'
<1>1. NeverBack' /\ AboveGenesis'
  BY DEF Heading, NeverBack, AboveGenesis
<1>2. ASSUME ~overtaken' PROVE NotifyingLatest' /\ OldOnesOver' /\ BestPursued'
  BY <1>2 DEF Heading, NotifyingLatest, OldOnesOver, BestPursued, Live, Lasting
<1>3. QED
  BY <1>1, <1>2 DEF Heading

(* The head tasks when a head, or none, has been announced.                *)
LEMMA ScheduledHeads ==
  ASSUME TasksType, NEW h \in Block \cup {NoBlock}, NEW f \in Block \cup {NoBlock},
         Schedule(h, f)
  PROVE  /\ HeadTask \subseteq HeadTask'
         /\ \A k \in HeadTask : tasks'[k] = tasks[k]
         /\ \A k \in HeadTask' \ HeadTask :
              Wanted(h) /\ tasks'[k] = NewTask("head", h)
         /\ \A i \in HeadTask, k \in HeadTask' \ HeadTask : i < k
         /\ Wanted(h) => \E k \in HeadTask' : tasks'[k] = NewTask("head", h)
         /\ HeadTask' \subseteq Nat
<1>1. /\ TasksType'
      /\ TaskId \subseteq TaskId'
      /\ \A k \in TaskId : tasks'[k] = tasks[k]
      /\ \A k \in TaskId' \ TaskId : New(k, h, f)
      /\ Wanted(h) => Entry("head", h)
  BY Scheduled
<1>2. \A i \in TaskId, k \in TaskId' \ TaskId : i < k
  BY <1>1 DEF TasksType, TaskId
<1>3. HeadTask \subseteq HeadTask' /\ \A k \in HeadTask' \ HeadTask : k \in TaskId' \ TaskId
  BY <1>1 DEF HeadTask
<1>4. ASSUME NEW k \in HeadTask' \ HeadTask
      PROVE  Wanted(h) /\ tasks'[k] = NewTask("head", h)
  <2>1. k \in TaskId' \ TaskId /\ tasks'[k].kind = "head"
    BY <1>3, <1>4 DEF HeadTask
  <2>2. New(k, h, f)
    BY <1>1, <2>1
  <2>3. NewTask("final", f).kind = "final"
    BY DEF NewTask
  <2>4. QED
    BY <2>1, <2>2, <2>3 DEF New
<1>5. Wanted(h) => \E k \in HeadTask' : tasks'[k] = NewTask("head", h)
  <2> SUFFICES ASSUME Wanted(h) PROVE \E k \in HeadTask' : tasks'[k] = NewTask("head", h)
    OBVIOUS
  <2> DEFINE k == taskMap'["head"][h]
  <2>1. k \in TaskId' /\ tasks'[k] = NewTask("head", h)
    BY <1>1 DEF Entry
  <2>2. k \in HeadTask'
    BY <2>1 DEF HeadTask, NewTask
  <2>3. QED
    BY <2>1, <2>2
<1>6. HeadTask' \subseteq Nat
  BY <1>1 DEF HeadTask, TasksType, TaskId
<1>7. QED
  BY <1>1, <1>2, <1>3, <1>4, <1>5, <1>6 DEF HeadTask

LEMMA NewIsLive ==
  ASSUME NEW b
  PROVE  /\ NewTask("head", b).st = "scheduled" /\ NewTask("head", b).block = b
         /\ Lasting(NewTask("head", b))
  BY DEF NewTask, Lasting

(* The best block is announced: a new one, or the same once more.          *)
LEMMA BestAnnounced ==
  ASSUME TasksType, Heading, UNCHANGED <<lastCachedBlock, overtaken>>,
         best' \in Block, NEW f \in Block \cup {NoBlock}, Schedule(best', f),
         Wanted(best) => Wanted(best'),
         \/ best' = best
         \/ lastCachedBlock # best' /\ \A k \in HeadTask : tasks[k].block # best'
  PROVE  Heading'
<1>1. /\ HeadTask \subseteq HeadTask'
      /\ \A k \in HeadTask : tasks'[k] = tasks[k]
      /\ \A k \in HeadTask' \ HeadTask :
           Wanted(best') /\ tasks'[k] = NewTask("head", best')
      /\ \A i \in HeadTask, k \in HeadTask' \ HeadTask : i < k
      /\ Wanted(best') => \E k \in HeadTask' : tasks'[k] = NewTask("head", best')
      /\ HeadTask' \subseteq Nat
  BY ScheduledHeads
<1>2. \A k \in HeadTask' \ HeadTask :
        tasks'[k].block = best' /\ tasks'[k].st = "scheduled"
  BY <1>1, NewIsLive
<1>3. NeverBack'
  <2> SUFFICES ASSUME NEW i \in HeadTask', NEW k \in HeadTask', i <= k, tasks'[i].block = best'
               PROVE  tasks'[k].block = best'
    BY DEF NeverBack
  <2>1. CASE k \in HeadTask
    <3>1. i \in HeadTask
      BY <1>1, <2>1
    <3>2. best' = best /\ tasks[i].block = best
      BY <1>1, <3>1
    <3>3. QED
      BY <1>1, <2>1, <3>1, <3>2 DEF Heading, NeverBack
  <2>2. CASE k \notin HeadTask
    BY <1>2, <2>2
  <2>3. QED
    BY <2>1, <2>2
<1>4. AboveGenesis'
  <2>1. HeadTask' # {} => Wanted(best')
    BY <1>1 DEF Heading, AboveGenesis
  <2>2. QED
    BY <2>1 DEF AboveGenesis, Wanted
<1>5. ASSUME ~overtaken' PROVE NotifyingLatest' /\ OldOnesOver' /\ BestPursued'
  <2>1. NotifyingLatest /\ OldOnesOver /\ ~overtaken
    BY <1>5 DEF Heading
  <2>2. ASSUME NEW i \in HeadTask', tasks'[i].st = "notifying"
        PROVE  /\ lastCachedBlock' = tasks'[i].block
               /\ \A k \in HeadTask' : k < i => ~Live(k)'
    <3>1. i \in HeadTask
      BY <1>2, <2>2
    <3>2. \A k \in HeadTask' : k < i => k \in HeadTask
      BY <1>1, <3>1
    <3>3. QED
      BY <1>1, <2>1, <2>2, <3>1, <3>2 DEF NotifyingLatest, Live
  <2>3. ASSUME lastCachedBlock' = best', NEW k \in HeadTask', Live(k)'
        PROVE  tasks'[k].block = best'
    <3>1. best' = best
      BY <2>3
    <3>2. CASE k \in HeadTask
      BY <1>1, <2>1, <2>3, <3>1, <3>2 DEF OldOnesOver, Live
    <3>3. CASE k \notin HeadTask
      BY <1>2, <3>3
    <3>4. QED
      BY <3>2, <3>3
  <2>4. BestPursued'
    <3>1. HeadTask' # {} => \E k \in HeadTask' : tasks'[k] = NewTask("head", best')
      BY <1>1, <1>4 DEF AboveGenesis, Wanted
    <3>2. HeadTask' # {} =>
            \E k \in HeadTask' : tasks'[k].block = best' /\ Lasting(tasks'[k])
      BY <3>1, NewIsLive
    <3>3. QED
      BY <3>2 DEF BestPursued, Lasting
  <2>5. QED
    BY <2>2, <2>3, <2>4 DEF NotifyingLatest, OldOnesOver
<1>6. QED
  BY <1>3, <1>4, <1>5 DEF Heading

(* When the subscribers are first called, the best block is the only head. *)
LEMMA ReadyHeads ==
  ASSUME TypeInv, Origin, ~SafeMode, Ready
  PROVE  Heading'
<1>1. /\ TasksType /\ TaskId = {} /\ best' = best /\ best \in Block
      /\ finalized \in Block \cup {NoBlock} /\ Schedule(best, finalized)
  BY DEF TypeInv, TaskType, StreamType, Origin, StreamsOK, Ready, SafeHead, streamVars
<1>2. HeadTask = {}
  BY <1>1 DEF HeadTask
<1>3. /\ \A k \in HeadTask' : Wanted(best) /\ tasks'[k] = NewTask("head", best)
  BY <1>1, <1>2, ScheduledHeads
<1>4. \A k \in HeadTask' :
        /\ Wanted(best)
        /\ tasks'[k].block = best' /\ tasks'[k].st = "scheduled" /\ Lasting(tasks'[k])
  BY <1>1, <1>3, NewIsLive
<1>5. QED
  BY <1>1, <1>4 DEF Heading, NeverBack, AboveGenesis, Wanted, NotifyingLatest, OldOnesOver,
                    BestPursued, Lasting

(* The steps of a head task, by what they leave it to do.                  *)
LEMMA HeadStep ==
  ASSUME TasksType, NEW i \in TaskId, TaskOK(tasks[i]), TaskStep(i), tasks[i].kind = "head"
  PROVE  \/ Fetched(i) /\ tasks'[i].st \in {"notifying", "done"}
         \/ tasks[i].st = "notifying" /\ tasks'[i].st = "done"
         \/ tasks'[i].st \in {"scheduled", "fetching", "gaveUp"}
<1>1. CASE Start(i)
  BY <1>1, StartShape
<1>2. CASE Fetched(i)
  BY <1>2, FetchedShape
<1>3. CASE FetchFailed(i) \/ NotifyFailed(i)
  BY <1>3, FailedShape
<1>4. CASE Notified(i)
  BY <1>4, NotifiedShape DEF Notified
<1>5. CASE ListenerThrew(i)
  BY <1>5, ThrewShape
<1>6. QED
  BY <1>1, <1>2, <1>3, <1>4, <1>5 DEF TaskStep

LEMMA HeadTaskSteps ==
  ASSUME TypeInv, OrderInv, EntryFits, Heading, ~SafeMode,
         NEW i \in HeadTask, TaskStep(i)
  PROVE  Heading'
<1>1. /\ i \in TaskId /\ TasksType /\ Shape(i) /\ TaskOK(tasks[i]) /\ tasks[i].kind = "head"
      /\ best' = best
  BY StepShape, TaskStepFrame DEF TypeInv, TaskType, HeadTask, streamVars
<1>2. /\ TaskId' = TaskId
      /\ \A k \in TaskId : tasks'[k].kind = tasks[k].kind /\ tasks'[k].block = tasks[k].block
  BY <1>1, ShapeKeeps, TaskStepType
<1>3. HeadTask' = HeadTask /\ HeadTask \subseteq TaskId /\ HeadTask \subseteq Nat
  BY <1>2, Heights DEF HeadTask
<1>4. NeverBack' /\ AboveGenesis'
  BY <1>1, <1>2, <1>3 DEF Heading, NeverBack, AboveGenesis
<1> SUFFICES ASSUME ~overtaken' PROVE NotifyingLatest' /\ OldOnesOver' /\ BestPursued'
  BY <1>4 DEF Heading
<1>5. Fetched(i) \/ UNCHANGED <<lastCachedBlock, overtaken>>
  BY <1>1, TaskStepFrame DEF cacheVars
<1>6. Fetched(i) => /\ lastCachedBlock' = tasks[i].block /\ ~overtaken
                    /\ \A k \in HeadTask : Live(k) /\ k # i => i < k
  BY <1>1, FetchedOrder
<1>7. ~overtaken /\ NotifyingLatest /\ OldOnesOver /\ BestPursued /\ Live(i)
  BY <1>1, <1>5, <1>6 DEF Heading, Shape
<1>8. \A k \in HeadTask : Live(k)' => Live(k)
  BY <1>1, <1>3, StillLive
<1>9. ASSUME NEW m \in HeadTask, tasks'[m].st = "notifying"
      PROVE  /\ lastCachedBlock' = tasks[m].block
             /\ \A k \in HeadTask : k < m => ~Live(k)'
  <2>1. CASE m = i
    <3>1. Fetched(i)
      BY <1>1, <1>9, <2>1, HeadStep
    <3>2. \A k \in HeadTask : k < i => ~Live(k)
      BY <1>3, <1>6, <3>1
    <3>3. QED
      BY <1>6, <1>8, <2>1, <3>1, <3>2
  <2>2. CASE m # i
    <3>1. tasks[m].st = "notifying"
      <4>1. tasks'[m].st \in {tasks[m].st, "cancelled"}
        BY <1>1, <1>3, <2>2, OthersUntold
      <4>2. QED
        BY <1>9, <4>1
    <3>2. /\ lastCachedBlock = tasks[m].block
          /\ \A k \in HeadTask : k < m => ~Live(k)
      BY <1>7, <3>1 DEF NotifyingLatest
    <3>3. ~Fetched(i)
      BY <1>6, <1>7, <2>2, <3>1, <3>2 DEF Live
    <3>4. QED
      BY <1>5, <1>8, <3>2, <3>3
  <2>3. QED
    BY <2>1, <2>2
<1>10. ASSUME lastCachedBlock' = best, NEW k \in HeadTask, Live(k)'
       PROVE  tasks[k].block = best
  <2>1. CASE Fetched(i)
    <3>1. tasks[i].block = best /\ Live(k) /\ (k # i => i < k)
      BY <1>6, <1>8, <1>10, <2>1
    <3>2. i <= k
      BY <1>3, <3>1
    <3>3. QED
      BY <3>1, <3>2 DEF Heading, NeverBack
  <2>2. CASE lastCachedBlock' = lastCachedBlock
    BY <1>7, <1>8, <1>10, <2>2 DEF OldOnesOver
  <2>3. QED
    BY <1>5, <2>1, <2>2
<1>11. \/ lastCachedBlock' = best
       \/ \E k \in HeadTask : tasks[k].block = best /\ Lasting(tasks'[k])
  <2>1. CASE tasks[i].block = best
    <3>1. CASE Fetched(i)
      BY <1>6, <2>1, <3>1
    <3>2. CASE tasks[i].st = "notifying" /\ ~Fetched(i)
      BY <1>5, <1>7, <2>1, <3>2 DEF NotifyingLatest
    <3>3. CASE tasks'[i].st \in {"scheduled", "fetching", "gaveUp"}
      BY <2>1, <3>3 DEF Lasting
    <3>4. QED
      BY <1>1, <3>1, <3>2, <3>3, HeadStep
  <2>2. CASE tasks[i].block # best
    <3>1. CASE lastCachedBlock = best
      <4>1. ~Fetched(i)
        BY <1>7, <2>2, <3>1 DEF OldOnesOver
      <4>2. QED
        BY <1>5, <3>1, <4>1
    <3>2. CASE lastCachedBlock # best
      <4>1. PICK w \in HeadTask : tasks[w].block = best /\ Lasting(tasks[w])
        BY <1>7, <3>2 DEF BestPursued
      <4>2. w \in TaskId \ {i}
        BY <1>3, <2>2, <4>1
      <4>3. tasks'[w] = tasks[w]
        BY <1>1, <2>2, <4>1, <4>2, OnlyTwins
      <4>4. QED
        BY <4>1, <4>3
    <3>3. QED
      BY <3>1, <3>2
  <2>3. QED
    BY <2>1, <2>2
<1>12. NotifyingLatest'
  BY <1>2, <1>3, <1>9 DEF NotifyingLatest, Live
<1>13. OldOnesOver'
  BY <1>1, <1>2, <1>3, <1>10 DEF OldOnesOver, Live
<1>14. BestPursued'
  BY <1>1, <1>2, <1>3, <1>11 DEF BestPursued, Lasting
<1>15. QED
  BY <1>12, <1>13, <1>14

(* A finalized task leaves the head tasks alone.                           *)
LEMMA FinalTaskSteps ==
  ASSUME TypeInv, EntryFits, Heading, NEW i \in TaskId \ HeadTask, TaskStep(i)
  PROVE  Heading'
<1>1. /\ TasksType /\ Shape(i) /\ TaskOK(tasks[i]) /\ tasks[i].kind # "head" /\ best' = best
  BY StepShape, TaskStepFrame DEF TypeInv, TaskType, HeadTask, streamVars
<1>2. /\ TaskId' = TaskId
      /\ \A k \in TaskId : tasks'[k].kind = tasks[k].kind
  BY <1>1, ShapeKeeps, TaskStepType
<1>3. HeadTask' = HeadTask /\ HeadTask \subseteq TaskId \ {i}
  BY <1>1, <1>2 DEF HeadTask
<1>4. \A k \in HeadTask : tasks'[k] = tasks[k]
  BY <1>1, <1>3, OnlyTwins DEF HeadTask
<1>5. UNCHANGED <<lastCachedBlock, overtaken>>
  BY <1>1, TaskStepFrame DEF Fetched, TaskOK, cacheVars
<1>6. QED
  BY <1>1, <1>3, <1>4, <1>5, HeadsSame

LEMMA LatestKnown ==
  ASSUME TypeInv, Origin, BestInv, [Next]_vars
  PROVE  lastCachedBlock' \in known' \cup {NoBlock}
<1>1. Grows
  BY ChainGrows
<1>2. CASE UNCHANGED lastCachedBlock
  BY <1>1, <1>2 DEF BestInv, Grows
<1>3. CASE Ready
  BY <1>1, <1>3 DEF Ready, BC!SetlastCachedBlock, Origin, StreamsOK, Grows
<1>4. ASSUME NEW i \in TaskId, Fetched(i) PROVE lastCachedBlock' \in known'
  BY <1>1, <1>4 DEF Fetched, BC!Cache, BC!SetlastCachedBlock, Origin, TasksOK, Grows
<1>5. ASSUME NEW i \in TaskId, TaskStep(i), ~Fetched(i) PROVE UNCHANGED lastCachedBlock
  BY <1>5, TaskStepFrame DEF cacheVars
<1>6. ASSUME \/ FirstHead \/ FirstFinalized \/ Reconnect
             \/ \E b \in Block : NewHead(b) \/ NewFinalizedHead(b)
      PROVE  UNCHANGED lastCachedBlock
  BY <1>6 DEF FirstHead, FirstFinalized, Reconnect, NewHead, NewFinalizedHead, cacheVars
<1>7. ASSUME Listen \/ Disconnect \/ DrainWait \/ Close \/ UNCHANGED vars
      PROVE  UNCHANGED lastCachedBlock
  BY <1>7, ControlSteps DEF Idle, cacheVars
<1>8. QED
  BY <1>2, <1>3, <1>4, <1>5, <1>6, <1>7 DEF Next

LEMMA ChainMovesHeading ==
  ASSUME TypeInv, Origin, OrderInv, BestInv, ~SafeMode,
         NEW b \in Block, NewHead(b) \/ NewFinalizedHead(b)
  PROVE  Heading'
<1>1. /\ Heading /\ TasksType /\ ChainTypeOK /\ UNCHANGED <<lastCachedBlock, overtaken>>
      /\ NoBlock \notin Block
  BY TreeAssumption DEF BestInv, TypeInv, TaskType, NewHead, NewFinalizedHead, cacheVars
<1>2. CASE Starting
  <2>1. TaskId' = {}
    BY <1>2 DEF Origin, StreamsOK, NewHead, NewFinalizedHead, TaskId
  <2>2. QED
    BY <2>1, NoHeadsYet DEF HeadTask
<1>3. CASE phase = "running" /\ NewHead(b)
  <2>1. best' = b /\ Schedule(b, NoBlock) /\ best = bestHead
    BY <1>3 DEF NewHead, SafeHead, OnBest, Origin, StreamsOK, OrderInv, StreamsCurrent
  <2>2. b \notin known /\ Number[bestHead] <= Number[b]
    BY <1>1, <1>3, NewBestStep DEF NewHead
  <2>3. Wanted(best) => Wanted(b)
    BY <1>1, <2>1, <2>2, TreeAssumption DEF Wanted, ChainTypeOK
  <2>4. lastCachedBlock # b /\ \A k \in HeadTask : tasks[k].block # b
    BY <1>1, <2>2 DEF BestInv, Origin, TasksOK, HeadTask
  <2>5. QED
    BY <1>1, <2>1, <2>3, <2>4, BestAnnounced
<1>4. CASE phase = "running" /\ NewFinalizedHead(b)
  <2>1. best' = best /\ Schedule(NoBlock, b)
    BY <1>4 DEF NewFinalizedHead, SafeHead
  <2>2. HeadTask' = HeadTask /\ \A k \in HeadTask : tasks'[k] = tasks[k]
    BY <1>1, <2>1, ScheduledHeads DEF Wanted
  <2>3. QED
    BY <1>1, <2>1, <2>2, HeadsSame
<1>5. QED
  BY <1>2, <1>3, <1>4 DEF NewHead, NewFinalizedHead, Subscribed

LEMMA BestInvStays ==
  ASSUME TypeInv, Origin, OrderInv, EntryFits, BestInv, [Next]_vars
  PROVE  BestInv'
<1>1. lastCachedBlock' \in known' \cup {NoBlock}
  BY LatestKnown
<1> SUFFICES ASSUME ~SafeMode PROVE Heading'
  BY <1>1 DEF BestInv
<1>2. Heading /\ TasksType /\ ChainTypeOK
  BY DEF BestInv, TypeInv, TaskType
<1>3. CASE FirstHead \/ FirstFinalized
  <2>1. TaskId' = {}
    BY <1>3 DEF FirstHead, FirstFinalized, Origin, StreamsOK, TaskId
  <2>2. QED
    BY <2>1, NoHeadsYet DEF HeadTask
<1>4. CASE Reconnect
  <2>1. /\ best' = bestHead /\ best = bestHead /\ bestHead \in Block /\ finalizedHead \in Block
        /\ Schedule(bestHead, finalizedHead) /\ UNCHANGED <<lastCachedBlock, overtaken>>
    <3>1. phase = "running" /\ finalizedHead \in Block /\ bestHead \in Block
      BY <1>2, <1>4, AncestorsOfBlock DEF Reconnect, ChainTypeOK
    <3>2. QED
      BY <1>4, <3>1
      DEF Reconnect, OnBest, SafeHead, cacheVars, Origin, StreamsOK, OrderInv, StreamsCurrent
  <2>2. QED
    BY <1>2, <2>1, BestAnnounced
<1>5. ASSUME NEW i \in TaskId, TaskStep(i) PROVE Heading'
  BY <1>2, <1>5, HeadTaskSteps, FinalTaskSteps
<1>6. CASE Listen \/ Disconnect \/ DrainWait \/ Close \/ UNCHANGED vars
  <2>1. UNCHANGED <<tasks, best, lastCachedBlock, overtaken>>
    BY <1>6, ControlSteps DEF Idle, streamVars, cacheVars
  <2>2. QED
    BY <1>2, <2>1, HeadsSame DEF HeadTask, TaskId
<1>7. QED
  BY <1>3, <1>4, <1>5, <1>6, ReadyHeads, ChainMovesHeading DEF Next

(* SettledOnBest: when every head task has succeeded, or left its block to *)
(* one that has, and none was overtaken, the latest block is the head      *)
(* announced last, whatever failed, was retried or announced again         *)
(* (_onNewHead and its finalizer, setlastCachedBlock).                     *)
THEOREM QuietOnBest == Spec => []SettledOnBest
<1>1. Init => OrderInv /\ BestInv
  BY DEF Init, BC!Init, OrderInv, StreamsCurrent, HeadsOrdered, LatestBehind, BestInv, Heading,
         NeverBack, AboveGenesis, NotifyingLatest, OldOnesOver, BestPursued, HeadTask, TaskId
<1>2. TypeInv /\ Origin /\ OrderInv /\ TypeInv' /\ [Next]_vars => OrderInv'
  BY OrderInvStays
<1>3. TypeInv /\ Origin /\ OrderInv /\ EntryFits /\ BestInv /\ [Next]_vars => BestInv'
  BY BestInvStays
<1>4. BestInv => SettledOnBest
  <2> SUFFICES ASSUME BestInv, ~SafeMode, ~overtaken, HeadTask # {},
                      \A i \in HeadTask : tasks[i].st \in {"done", "cancelled"}
               PROVE  lastCachedBlock = best
    BY DEF SettledOnBest
  <2>1. BestPursued /\ \A i \in HeadTask : ~Lasting(tasks[i])
    BY DEF BestInv, Heading, Lasting
  <2>2. QED
    BY <2>1 DEF BestPursued
<1>5. QED
  BY <1>1, <1>2, <1>3, <1>4, OriginInvariant, FitsInvariant, PTL DEF Spec
=============================================================================
