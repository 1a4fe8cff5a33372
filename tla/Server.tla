-------------------------------- MODULE Server --------------------------------
(***************************************************************************)
(* The RPC server: server.ts with its connections, heartbeat and messages, *)
(* the router, eth_subscribe and eth_unsubscribe of eip1193-bridge.ts, the *)
(* start of index.ts and monitor-runtime.ts, over the listeners of the     *)
(* provider.                                                               *)
(*                                                                         *)
(* A handler runs to its first await in one step: a message none of whose  *)
(* calls asks the provider is answered in the step that receives it.       *)
(***************************************************************************)
EXTENDS Listeners

CONSTANTS Http,           \* who asks over HTTP
          BatchSize,      \* the option batchSize
          Messages,       \* the sequences of calls that are sent
          Uses            \* what a behaviour may look at: heartbeats, listeners

(* query: asks the provider; rejected: no id, no such method, or its       *)
(* parameters are refused; null: no object at all.                         *)
Call == {"query", "rejected", "null", "subscribe", "unsubscribe"}

ASSUME ServerAssumption ==
  /\ Http \notin Socket \cup {App} /\ BatchSize \in Nat
  /\ Messages \subseteq Seq(Call) /\ Uses \subseteq SUBSET {"beats", "news"}

VARIABLES use,            \* one of Uses
          phase,          \* of the process
          httpOnly,       \* option of the server
          clients,        \* wss.clients, in the order of their coming
          net,            \* the connection of each socket
          isAlive,
          peer,           \* the other end of the socket is there
          pinged,         \* and has a ping to answer
          handlers,       \* whose handlers are on the socket
          msg,            \* the calls of the message in work
          told            \* history: listeners whose identifier was sent

socketVars == <<clients, net, isAlive, peer, pinged, handlers>>
vars == <<listenerVars, use, phase, httpOnly, socketVars, msg, told>>

Asker == Socket \cup {Http}

(* out: what has become of each call; ids: the listeners that came of them.*)
MsgState == [out : Seq({"pending", "result", "error"}), ids : SUBSET Listener]
NoMsg == [out |-> <<>>, ids |-> {}]

TypeOK ==
  /\ ListenersTypeOK
  /\ use \in Uses
  /\ phase \in {"starting", "ready", "exited"}
  /\ httpOnly \in BOOLEAN
  /\ clients \in Seq(Socket) /\ IsInjective(clients)
  /\ net \in [Socket -> {"none", "open", "closing", "terminated", "closed"}]
  /\ {isAlive, peer, pinged} \subseteq [Socket -> BOOLEAN]
  /\ handlers \in [Socket -> SUBSET {"library", "server"}]
  /\ msg \in [Asker -> MsgState]
  /\ told \subseteq DOMAIN owner

Init ==
  /\ ListenersInit
  /\ use \in Uses
  /\ phase = "starting"
  /\ httpOnly \in {FALSE, "beats" \in use}
  /\ clients = <<>>
  /\ net = [s \in Socket |-> "none"]
  /\ isAlive = [s \in Socket |-> TRUE]
  /\ peer = [s \in Socket |-> TRUE]
  /\ pinged = [s \in Socket |-> FALSE]
  /\ handlers = [s \in Socket |-> {}]
  /\ msg = [a \in Asker |-> NoMsg]
  /\ told = {}

rest == <<use, phase, httpOnly>>
Running == phase # "exited" /\ ~Walking

-----------------------------------------------------------------------------
(* start(): the server listens before the provider is ready.  That the     *)
(* indexer is of the same chain is found out when requests are answered    *)
(* from it already.                                                        *)
IsReady == phase = "starting" /\ phase' = "ready"

(* No connection to the node, an indexer of another chain, a new runtime,  *)
(* or SIGINT.                                                              *)
Exit == Running /\ "beats" \in use /\ phase' = "exited"

ProcessStep ==
  /\ IsReady \/ Exit
  /\ UNCHANGED <<listenerVars, use, httpOnly, socketVars, msg, told>>

-----------------------------------------------------------------------------
(* Connections. *)

Connection(s) ==
  /\ Running /\ net[s] = "none"
  /\ net' = [net EXCEPT ![s] = IF httpOnly THEN "closing" ELSE "open"]
  /\ clients' = Append(clients, s)
  /\ handlers' = [handlers EXCEPT ![s] = IF httpOnly THEN {"library"} ELSE {"library", "server"}]
  /\ UNCHANGED <<listenerVars, rest, isAlive, peer, pinged, msg, told>>

(* The other end falls silent, without a word to this one. *)
PeerDies(s) ==
  /\ "beats" \in use /\ peer[s] /\ net[s] = "open"
  /\ peer' = [peer EXCEPT ![s] = FALSE]
  /\ UNCHANGED <<listenerVars, rest, clients, net, isAlive, pinged, handlers, msg, told>>

Pong(s) ==
  /\ Running /\ net[s] = "open" /\ peer[s] /\ pinged[s] /\ "server" \in handlers[s]
  /\ isAlive' = [isAlive EXCEPT ![s] = TRUE]
  /\ pinged' = [pinged EXCEPT ![s] = FALSE]
  /\ UNCHANGED <<listenerVars, rest, clients, net, peer, handlers, msg, told>>

(* A slip: close and error only clear the handlers, before the bridge's. *)
LeaveListeners(s) == UNCHANGED <<eventListeners, left, cut>>

(* removeAllListeners comes first, but the event at hand is still given to *)
(* everyone who was to hear of it, and so to the bridge.                   *)
DropListeners(s) == RemoveEventListeners(OwnedBy(s))

(* The event 'close': the library's handler forgets the socket, if it has  *)
(* not been removed with the others.                                       *)
Closed(s) ==
  /\ Running /\ net[s] \in {"open", "closing", "terminated"}
  /\ net' = [net EXCEPT ![s] = "closed"]
  /\ clients' = IF "library" \in handlers[s]
                THEN Without(clients, {s}) ELSE clients
  /\ handlers' = [handlers EXCEPT ![s] = IF "server" \in @ THEN {} ELSE @]
  /\ IF "server" \in handlers[s] THEN DropListeners(s) ELSE UNCHANGED <<eventListeners, left, cut>>
  /\ UNCHANGED <<owner, task, detached, walk, rest, isAlive, peer, pinged, msg, told>>

(* The event 'error', after which the library closes the connection. *)
Errored(s) ==
  /\ Running /\ net[s] = "open" /\ "server" \in handlers[s]
  /\ net' = [net EXCEPT ![s] = "closing"]
  /\ handlers' = [handlers EXCEPT ![s] = {}]
  /\ DropListeners(s)
  /\ UNCHANGED <<owner, task, detached, walk, rest, clients, isAlive, peer, pinged, msg, told>>

Silent(i) == ~isAlive[clients[i]]

(* A slip: a socket once alive counts as alive. *)
HeartbeatNoReset ==
  /\ Running /\ "beats" \in use
  /\ pinged' = [s \in Socket |-> pinged[s] \/ net[s] = "open"]
  /\ UNCHANGED <<listenerVars, rest, clients, net, isAlive, peer, handlers, msg, told>>

(* One round of the interval: it returns at the first silent socket, which *)
(* it terminates; those before it are pinged, those after it are not.      *)
Heartbeat ==
  /\ Running /\ "beats" \in use
  /\ LET silent == {i \in DOMAIN clients : Silent(i)}
         before == {clients[i] : i \in {j \in DOMAIN clients : \A k \in silent : j < k}}
         first == {clients[i] : i \in {j \in silent : \A k \in silent : j <= k}}
     IN /\ isAlive' = [s \in Socket |-> isAlive[s] /\ s \notin before]
        /\ pinged' = [s \in Socket |-> pinged[s] \/ (s \in before /\ net[s] = "open")]
        /\ net' = [s \in Socket |-> IF s \in first /\ net[s] # "closed" THEN "terminated" ELSE net[s]]
  /\ UNCHANGED <<listenerVars, rest, clients, peer, handlers, msg, told>>

SocketStep ==
  \/ \E s \in Socket : Connection(s) \/ PeerDies(s) \/ Pong(s) \/ Closed(s) \/ Errored(s)
  \/ Heartbeat

-----------------------------------------------------------------------------
(* Messages. *)

(* The socket still has its handler of messages; HTTP has no socket. *)
Hears(a) == a = Http \/ (a \in Socket /\ "server" \in handlers[a])

(* A reply to a socket that is no longer open goes nowhere. *)
Reply(a, ids) == told' = IF a \in Socket /\ net[a] = "open" THEN told \cup ids ELSE told

(* baseHandler and Router.call of calls that need no answer of the         *)
(* provider's node; over HTTP there are no subscriptions.                  *)
Outcomes(a, calls) ==
  [i \in DOMAIN calls |->
     CASE calls[i] = "query" /\ phase # "starting" -> "pending"
       [] calls[i] \in {"subscribe", "unsubscribe"} /\ a \in Socket -> "result"
       [] OTHER -> "error"]

(* eth_subscribe and eth_unsubscribe in the order of the calls, those of   *)
(* one message to events of one kind; an identifier is unsubscribed by     *)
(* whom it was given to.                                                   *)
Subscribed(a, calls) ==
  LET new == 1 .. Cardinality({i \in DOMAIN calls : calls[i] = "subscribe"})
      ids == [n \in new |-> Len(owner) + n]
  IN \E k \in Kind, gone \in {{}} \cup {{l} : l \in OwnedBy(a) \cap told} :
       /\ (gone # {}) = ("unsubscribe" \in ToSet(calls) /\ OwnedBy(a) \cap told # {})
       /\ Len(owner) + Cardinality(new) <= MaxListeners
       /\ owner' = owner \o [n \in new |-> a]
       /\ eventListeners' = [j \in Kind |->
            Without(eventListeners[j], gone) \o (IF j = k THEN ids ELSE <<>>)]
       /\ left' = left \cup gone
       /\ UNCHANGED cut

NewIds == DOMAIN owner' \ DOMAIN owner

(* httpHandler and wsHandler: too large a batch is refused as a whole, a   *)
(* message that is no JSON as well.                                        *)
Refused(calls) ==
  /\ calls = <<>> \/ Len(calls) > BatchSize
  /\ UNCHANGED <<owner, eventListeners, left, cut, phase, msg, told>>

(* baseHandler takes a null apart and throws, and all the calls with it:   *)
(* httpHandler passes the error on, wsHandler has no handler for it, which *)
(* ends the process, and with it what the other calls have done.           *)
Broken(a, calls) ==
  /\ "null" \in ToSet(calls) /\ Len(calls) <= BatchSize
  /\ phase' = IF a \in Socket THEN "exited" ELSE phase
  /\ UNCHANGED <<owner, eventListeners, left, cut, msg, told>>

Accepted(a, calls) ==
  /\ calls # <<>> /\ Len(calls) <= BatchSize /\ "null" \notin ToSet(calls)
  /\ IF a \in Socket THEN Subscribed(a, calls) ELSE UNCHANGED <<owner, eventListeners, left, cut>>
  /\ IF "pending" \in ToSet(Outcomes(a, calls))
     THEN msg' = [msg EXCEPT ![a] = [out |-> Outcomes(a, calls), ids |-> NewIds]] /\ UNCHANGED told
     ELSE Reply(a, NewIds) /\ UNCHANGED msg
  /\ UNCHANGED phase

Message(a, calls) ==
  /\ Running /\ "news" \in use /\ Hears(a) /\ msg[a] = NoMsg
  /\ Refused(calls) \/ Broken(a, calls) \/ Accepted(a, calls)
  /\ UNCHANGED <<use, httpOnly, socketVars, task, detached, walk>>

(* A slip: a call that fails makes the reply to all of them an error.      *)
QueryAnsweredOrAllFail(a, i, answer) ==
  /\ Running /\ i \in DOMAIN msg[a].out /\ msg[a].out[i] = "pending"
  /\ LET out == [msg[a].out EXCEPT ![i] = answer]
     IN IF answer = "result" /\ "pending" \in ToSet(out)
        THEN msg' = [msg EXCEPT ![a].out = out] /\ UNCHANGED told
        ELSE /\ msg' = [msg EXCEPT ![a] = NoMsg]
             /\ Reply(a, IF answer = "result" THEN msg[a].ids ELSE {})
  /\ UNCHANGED <<listenerVars, rest, socketVars>>

(* The provider answers a call, or fails it, which Router.call turns into  *)
(* a result of its own; Promise.all replies when all have come.            *)
QueryAnswered(a, i, answer) ==
  /\ Running /\ i \in DOMAIN msg[a].out /\ msg[a].out[i] = "pending"
  /\ LET out == [msg[a].out EXCEPT ![i] = answer]
     IN IF "pending" \in ToSet(out)
        THEN msg' = [msg EXCEPT ![a].out = out] /\ UNCHANGED told
        ELSE msg' = [msg EXCEPT ![a] = NoMsg] /\ Reply(a, msg[a].ids)
  /\ UNCHANGED <<listenerVars, rest, socketVars>>

MessageStep ==
  \E a \in Asker :
    \/ \E calls \in Messages : Message(a, calls)
    \/ \E i \in 1 .. BatchSize, answer \in {"result", "error"} : QueryAnswered(a, i, answer)

(* Code in the same process listens as well, to events of any kind.        *)
AppListens ==
  /\ phase # "exited" /\ "news" \in use
  /\ \E k \in Kind : AddEventListener(k, App)
  /\ UNCHANGED <<rest, socketVars, msg, told>>

NewsStep ==
  /\ phase = "ready" /\ "news" \in use
  /\ ListenerStep
  /\ UNCHANGED <<rest, socketVars, msg, told>>

Next == ProcessStep \/ SocketStep \/ MessageStep \/ AppListens \/ NewsStep

(* The interval goes on and connections that are being closed close.       *)
Fairness ==
  /\ WF_vars(Heartbeat)
  /\ \A s \in Socket : WF_vars(net[s] \in {"closing", "terminated"} /\ Closed(s))

Spec == Init /\ [][Next]_vars /\ Fairness

-----------------------------------------------------------------------------
(* No listener outlives its socket: after a close or an error, in whatever *)
(* order they come, the provider has none of it left, although the same    *)
(* event removes the handlers that remove them.  A socket the server has   *)
(* terminated is yet to close.                                             *)
NoStrayListener ==
  \A s \in Socket, k \in Kind :
    net[s] \notin {"open", "terminated"} => \A l \in ToSet(eventListeners[k]) : owner[l] # s

(* Who listens over an open socket has its identifier, or gets it with the *)
(* reply to the message that is in work, whatever becomes of the other     *)
(* calls of the batch: no listener goes on that nobody can remove.  News   *)
(* before the identifier come only while the batch waits for the node.     *)
IdentifiersAreGiven ==
  \A l \in DOMAIN owner :
    owner[l] \in Socket /\ net[owner[l]] = "open" => l \in told \cup msg[owner[l]].ids

(* A closed socket that the server still beats: 'error' took away the      *)
(* library's handler that would have forgotten it.                         *)
Zombie(s) == net[s] = "closed" /\ s \in ToSet(clients)

(* A socket whose other end is gone is terminated, though a round ends at  *)
(* the first of them, unless it came after one that had an error, at which *)
(* every round ends.                                                       *)
DeadSocketsReaped ==
  \A s \in Socket :
    "beats" \in use /\ net[s] = "open" /\ ~peer[s] ~>
      \/ net[s] = "closed" \/ phase = "exited"
      \/ \E z \in Socket : Zombie(z) /\ \E i, j \in DOMAIN clients :
           i < j /\ clients[i] = z /\ clients[j] = s
=============================================================================
