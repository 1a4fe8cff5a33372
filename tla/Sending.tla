-------------------------------- MODULE Sending --------------------------------
(***************************************************************************)
(* Sending a transaction and waiting for it: sendTransaction and           *)
(* sendRawTransaction of base-provider.ts, sendTransaction and the claims  *)
(* of BodhiSigner, all over sendTx and handleTxResponse; wait() of their   *)
(* responses; and the polling wait of AcalaJsonRpcProvider.                *)
(*                                                                         *)
(* The chain, the cache and the transaction's way through them are those   *)
(* of Receipts.  A client either queries or sends, for neither waits for   *)
(* the other.                                                              *)
(***************************************************************************)
EXTENDS Receipts, Integers

CONSTANTS FailsIn,      \* the includers in which the execution fails
          MaxConfirms   \* no wait is for more confirmations

ASSUME SendingAssumption == FailsIn \subseteq Includes /\ MaxConfirms \in Nat

VARIABLES use,          \* what the client does
          sending,
          mapped,       \* the signer's account is claimed at the node
          wait,         \* wait() of the response
          poll          \* the wait of AcalaJsonRpcProvider

sendVars == <<sending, mapped, wait, poll>>
vars == <<chainVars, viewVars, sources, call, history, use, sendVars>>

(* status: the first block the node reported the extrinsic to be in, which *)
(* is all that settles; lost: it was reported dropped, usurped or invalid. *)
SendingState == [via    : {"none", "sendTransaction", "sendRawTransaction", "signer", "claim"},
                 pc     : {"idle", "preparing", "sent", "header", "timestamp",
                           "responded", "failed"},
                 status : Includes \cup {NoBlock},
                 lost   : BOOLEAN]

WaitState == [pc       : {"idle", "waiting", "confirmed", "checking", "resolved", "timedOut",
                          "failed"},
              confirms : 0 .. MaxConfirms,
              timed    : BOOLEAN,     \* a timeout was given
              heard    : BOOLEAN]     \* a first head has come

(* due: handlers that ethers has queued, which run even when removed.      *)
PollState == [pc        : {"idle", "asked", "polling", "resolved", "timedOut"},
              confirms  : 0 .. MaxConfirms,
              timed     : BOOLEAN,
              listening : BOOLEAN,
              due       : Includes \cup {NoBlock}]

TypeOK ==
  /\ ReceiptsTypeOK
  /\ use \in {"queries", "sending"}
  /\ sending \in SendingState
  /\ mapped \in BOOLEAN
  /\ wait \in WaitState
  /\ poll \in PollState

Init ==
  /\ ReceiptsInit
  /\ use \in {"queries", "sending"}
  /\ use = "sending" => ~localMode        \* which sending does not look at
  /\ sending = [via |-> "none", pc |-> "idle", status |-> NoBlock, lost |-> FALSE]
  /\ mapped = FALSE
  /\ wait = [pc |-> "idle", confirms |-> 0, timed |-> FALSE, heard |-> FALSE]
  /\ poll = [pc |-> "idle", confirms |-> 0, timed |-> FALSE, listening |-> FALSE,
             due |-> NoBlock]

world == <<chainVars, viewVars, sources, call, history, use>>

(* The node reports what becomes of an extrinsic it was sent: the block,   *)
(* when one of the best chain includes it, or that it left the pool.       *)
Reported(s) ==
  LET on == Includes \cap Ancestors[bestHead']
  IN IF s.pc # "sent" \/ s.status # NoBlock \/ s.lost THEN s
     ELSE IF on # {} THEN [s EXCEPT !.status = CHOOSE b \in on : TRUE]
     ELSE [s EXCEPT !.lost = (pooled /\ ~pooled')]

WorldStep ==
  /\ World
  /\ use = "sending" => UNCHANGED indexedTo     \* nor at the indexer
  /\ sending' = Reported(sending)
  /\ UNCHANGED <<use, mapped, wait, poll>>

SendStep(from, r) ==
  /\ sending.pc = from
  /\ sending' = r
  /\ UNCHANGED <<world, mapped, wait, poll>>

-----------------------------------------------------------------------------
(* The way of an extrinsic. *)

Begin(via, pc) == SendStep("idle", [sending EXCEPT !.via = via, !.pc = pc])

(* prepareTransaction with the dry run of the call.  Whether the account   *)
(* is claimed matters to claims only.                                      *)
Prepare(via) ==
  /\ use = "sending" /\ ViewReady /\ ~mapped
  /\ via \in {"sendTransaction", "sendRawTransaction"}
  /\ Begin(via, "preparing")

(* sendTransaction of BodhiSigner: estimate, nonce and signature. *)
PrepareSigned == use = "sending" /\ ViewReady /\ ~mapped /\ Begin("signer", "preparing")

(* A claim of an account that is claimed is over; that of a default        *)
(* account does not look.                                                  *)
ClaimEvmAccount ==
  use = "sending" /\ Begin("claim", IF mapped THEN "responded" ELSE "preparing")
ClaimDefaultAccount == use = "sending" /\ Begin("claim", "preparing")

(* extrinsic.send(): the pool takes it, and sendRawTransaction is done.    *)
Send ==
  /\ sending.pc = "preparing"
  /\ ~Mined(bestHead)
  /\ sending' = [sending EXCEPT !.pc = IF sending.via = "sendRawTransaction"
                                       THEN "responded" ELSE "sent"]
  /\ pooled' = TRUE
  /\ UNCHANGED <<chainVars, viewVars, safeMode, localMode, byHash, indexedTo, call,
                 history, use, mapped, wait, poll>>

(* A slip: a failed execution is not told from a success. *)
SettleAsSuccess(s) ==
  [s EXCEPT !.pc = IF s.via = "sendTransaction" THEN "header" ELSE "responded"]

(* handleTxResponse of an extrinsic in a block: a failed dispatch, or a    *)
(* failed EVM execution of a dispatch that succeeded, rejects.  A claim    *)
(* fails when another claim came first; that error is meant to resolve,    *)
(* but it is told by a message that handleTxResponse never gives alone.    *)
Settle(s) ==
  IF (s.via # "claim" /\ s.status \in FailsIn) \/ (s.via = "claim" /\ mapped)
  THEN [s EXCEPT !.pc = "failed"]
  ELSE [s EXCEPT !.pc = IF s.via = "sendTransaction" THEN "header" ELSE "responded"]

(* sendTx: the first status that settles counts, whatever comes later. *)
HandleTxResponse ==
  /\ sending.status # NoBlock
  /\ mapped' = (mapped \/ sending.via = "claim")
  /\ sending.pc = "sent" /\ sending' = Settle(sending)
  /\ UNCHANGED <<world, wait, poll>>

(* A slip: an error is looked for in a block's result only. *)
RejectedInBlock ==
  sending.lost /\ sending.status # NoBlock /\ SendStep("sent", [sending EXCEPT !.pc = "failed"])

(* isError. *)
Rejected == sending.lost /\ SendStep("sent", [sending EXCEPT !.pc = "failed"])

HeaderRead == SendStep("header", [sending EXCEPT !.pc = "timestamp"])
WrapTransaction == SendStep("timestamp", [sending EXCEPT !.pc = "responded"])

(* The dry run reverts, the pool refuses, or the node does not answer.     *)
SendFails ==
  \E pc \in {"preparing", "header", "timestamp"} :
    SendStep(pc, [sending EXCEPT !.pc = "failed"])

(* Somebody else claims for the account. *)
ClaimedElsewhere ==
  /\ use = "sending" /\ sending.status = NoBlock
  /\ sending.pc = "idle" \/ (sending.via = "claim" /\ sending.pc \in {"preparing", "sent"})
  /\ ~mapped /\ mapped' = TRUE
  /\ UNCHANGED <<world, sending, wait, poll>>

-----------------------------------------------------------------------------
(* wait() of the response. *)
WaitStep(from, r) ==
  /\ wait.pc = from
  /\ wait' = r
  /\ UNCHANGED <<world, sending, mapped, poll>>

Wait(n, timed) ==
  /\ sending.pc = "responded" /\ sending.via = "sendTransaction"
  /\ WaitStep("idle", [wait EXCEPT !.confirms = n, !.timed = timed, !.pc = "waiting"])

(* BodhiSigner's response waits for nothing but the receipt. *)
WaitSigned(n) ==
  /\ sending.pc = "responded" /\ sending.via = "signer"
  /\ WaitStep("idle", [wait EXCEPT !.confirms = n, !.pc = "confirmed"])

Confirmed(b) == Number[b] - Number[sending.status] + 1 >= wait.confirms

(* head$ gives every head, the last one again to who comes later: any      *)
(* head high enough confirms, on whatever fork it is.                      *)
HeadComes ==
  /\ wait.pc = "waiting"
  /\ ~wait.heard \/ Confirmed(bestHead)
  /\ WaitStep("waiting", [wait EXCEPT !.heard = TRUE,
                            !.pc = IF Confirmed(bestHead) THEN "confirmed" ELSE @])

(* The timeout is that of the first head only. *)
TimeoutFirst ==
  /\ wait.timed /\ ~wait.heard
  /\ WaitStep("waiting", [wait EXCEPT !.pc = "timedOut"])

(* getReceiptAtBlockFromChain at the block of inclusion: the guard of safe *)
(* mode throws while that is not final, and for good when it never is.     *)
ReceiptFromChain ==
  LET b == sending.status
  IN \/ WaitStep("confirmed",
          [wait EXCEPT !.pc = CASE ~safeMode \/ (Number[b] <= FinalizedBlockNumber /\ b \in finalHashes)
                                     -> "resolved"
                                [] safeMode /\ Number[b] > FinalizedBlockNumber -> "failed"
                                [] OTHER -> "checking"])
     \/ WaitStep("checking",
          [wait EXCEPT !.pc = IF CanonicalHash(Number[b]) = b THEN "resolved" ELSE "failed"])

-----------------------------------------------------------------------------
(* _waitForTransaction of AcalaJsonRpcProvider, after sendRawTransaction.  *)
PollStep(from, r) ==
  /\ poll.pc = from
  /\ poll' = r
  /\ UNCHANGED <<world, sending, mapped, wait>>

(* The receipt the provider at the other end would answer now. *)
ServedReceipt ==
  IF byHash # NoBlock /\ CanonicalHash(Number[byHash]) = byHash THEN byHash ELSE NoBlock

(* receipt.confirmations, by the latest block of the other end. *)
Confirmations(b) ==
  IF b = NoBlock \/ BestBlockNumber < Number[b] THEN 0 ELSE BestBlockNumber - Number[b] + 1

WaitForTransaction(n, timed) ==
  /\ sending.pc = "responded" /\ sending.via = "sendRawTransaction"
  /\ PollStep("idle", [poll EXCEPT !.pc = "asked", !.confirms = n, !.timed = timed])

ReceiptAlreadyGood ==
  PollStep("asked", IF Confirmations(ServedReceipt) >= poll.confirms
                    THEN [poll EXCEPT !.pc = "resolved"]
                    ELSE [poll EXCEPT !.pc = "polling", !.listening = TRUE])

(* A poll finds a receipt with enough confirmations for the handler; with  *)
(* fewer the handler returns.  The handler is queued, not called.          *)
PollFinds ==
  /\ poll.listening /\ poll.due = NoBlock
  /\ ServedReceipt # NoBlock /\ Confirmations(ServedReceipt) >= poll.confirms
  /\ PollStep("polling", [poll EXCEPT !.due = ServedReceipt])

(* A slip: the handler does not ask whether the wait is over. *)
MinedHandlerLate ==
  /\ poll.due # NoBlock
  /\ PollStep(poll.pc, [poll EXCEPT !.due = NoBlock, !.pc = "resolved",
                                    !.listening = FALSE])

(* minedHandler behind alreadyDone: it resolves and cancels the others, or *)
(* finds that the timer has been first.                                    *)
MinedHandler ==
  /\ poll.due # NoBlock
  /\ PollStep(poll.pc,
       IF poll.pc = "polling"
       THEN [poll EXCEPT !.due = NoBlock, !.pc = "resolved", !.listening = FALSE]
       ELSE [poll EXCEPT !.due = NoBlock])

Timer ==
  /\ poll.timed
  /\ PollStep("polling", [poll EXCEPT !.pc = "timedOut", !.listening = FALSE])

-----------------------------------------------------------------------------
ClientStep ==
  \/ \E via \in {"sendTransaction", "sendRawTransaction"} : Prepare(via)
  \/ PrepareSigned \/ ClaimEvmAccount \/ ClaimDefaultAccount
  \/ Send \/ HandleTxResponse \/ Rejected \/ HeaderRead \/ WrapTransaction
  \/ SendFails \/ ClaimedElsewhere
  \/ \E n \in 0 .. MaxConfirms, timed \in BOOLEAN :
       Wait(n, timed) \/ WaitForTransaction(n, timed)
  \/ \E n \in 0 .. MaxConfirms : WaitSigned(n)
  \/ HeadComes \/ TimeoutFirst \/ ReceiptFromChain
  \/ ReceiptAlreadyGood \/ PollFinds \/ MinedHandler \/ Timer

Next ==
  \/ WorldStep
  \/ use = "queries" /\ CallStep /\ UNCHANGED <<use, sendVars>>
  \/ ClientStep

(* What was sent goes on as the node answers, a wait as heads and answers  *)
(* come, a polling wait as queued callbacks run and its timer fires.  The  *)
(* chain, the client and the poll owe nothing.                             *)
Fairness ==
  /\ WF_vars(HandleTxResponse \/ Rejected \/ HeaderRead \/ WrapTransaction)
  /\ WF_vars(HeadComes \/ ReceiptFromChain)
  /\ WF_vars(ReceiptAlreadyGood \/ MinedHandler \/ Timer)

Spec == Init /\ [][Next]_vars /\ Fairness

-----------------------------------------------------------------------------
(* A wait that resolves has a receipt of the transaction, which did not    *)
(* fail, from a block that as many heads as asked for lie on or beyond;    *)
(* in safe mode it is final, otherwise it may have been abandoned since.   *)
ResolvedIsConfirmed ==
  wait.pc = "resolved" =>
    /\ sending.status \in Includes \ FailsIn
    /\ sending.via = "sendTransaction" =>
         Number[bestHead] >= Number[sending.status] + wait.confirms - 1
    /\ safeMode => IsFinal(sending.status)

(* The promises settle: sendTransaction and the claims once the node has   *)
(* reported a block or the loss of the extrinsic, a wait once the chain is *)
(* as high as it was to be, even if it was before the wait was called, and *)
(* a polling wait with a timeout always.                                   *)
PromisesSettle ==
  /\ sending.pc = "sent" /\ (sending.status # NoBlock \/ sending.lost)
       ~> sending.pc \in {"responded", "failed"}
  /\ wait.pc = "waiting" /\ Confirmed(bestHead)
       ~> wait.pc \in {"resolved", "failed", "timedOut"}
  /\ poll.pc \in {"asked", "polling"} /\ poll.timed
       ~> poll.pc \in {"resolved", "timedOut"}

(* A polling wait settles once and for all: a handler that was queued      *)
(* before the timer fired does not turn the timeout into a receipt, and    *)
(* nothing is listened for afterwards.                                     *)
PollSettlesOnce ==
  [][poll.pc \in {"resolved", "timedOut"} =>
       poll'.pc = poll.pc /\ ~poll.listening /\ ~poll'.listening]_vars
=============================================================================
