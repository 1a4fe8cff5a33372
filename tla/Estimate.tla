------------------------------- MODULE Estimate -------------------------------
(***************************************************************************)
(* estimateResources of base-provider.ts: how much gas a transaction is    *)
(* given.  A first call with the largest limit says what it uses; if a     *)
(* fifth more than that is not enough to run it, a binary search follows.  *)
(* Every call is awaited, and without an explicit block each of them runs  *)
(* at the head of its moment.                                              *)
(*                                                                         *)
(* A head is what the transaction costs there: what it needs, which may be *)
(* more than it uses, since a call keeps back a part of its gas from the   *)
(* calls it makes.                                                         *)
(***************************************************************************)
EXTENDS GasCodec

CONSTANTS Costs,        \* [need, used, storage]: what it costs at a head
          Overrides     \* [price, limit] given by the caller, or Default

(* Nothing uses more storage than the runtime lets a block use. *)
ASSUME EstimateAssumption ==
  /\ \A c \in Costs : /\ c.need \in Nat /\ c.used \in 0 .. c.need
                      /\ c.storage \in Int /\ c.storage <= BlockStorageLimit
  /\ Overrides \subseteq [price : Nat, limit : Nat]

VARIABLES cost,         \* at the best head
          est           \* the estimate under way

MinGasLimit == 21000
Default == [price |-> 0, limit |-> 0]

(* pc: the call the estimate waits for.  worked and failed are history:    *)
(* the least limit a call succeeded with, the largest one that failed.     *)
EstimateState ==
  [pc     : {"idle", "first", "guess", "search", "done", "failed"},
   pinned : BOOLEAN, moved : BOOLEAN, data : BOOLEAN,
   max    : Nat, storageLimit : Nat, used : Nat, storage : Int,
   lowest : Nat, highest : Nat, mid : Nat, prev : Nat,
   limit  : Nat, worked : SUBSET Nat]

NoEstimate == [pc |-> "idle", pinned |-> FALSE, moved |-> FALSE, data |-> FALSE,
               max |-> 0, storageLimit |-> 0, used |-> 0, storage |-> 0,
               lowest |-> 0, highest |-> 0, mid |-> 0, prev |-> 0,
               limit |-> 0, worked |-> {}]

(* What the head costs matters while there is an estimate. *)
NoCost == [need |-> 0, used |-> 0, storage |-> 0]

EstimateInit == cost = NoCost /\ est = NoEstimate

(* With an override the limits are what it decodes to; a lifetime that is  *)
(* over ends the estimate at once.  Scaled, the height is 0.               *)
Ask(pinned, data, override) ==
  LET d == DecodeEthGas(override.price, override.limit)
      given == override # Default
  IN  /\ est.pc = "idle"
      /\ est' = [NoEstimate EXCEPT
                   !.pc = IF given /\ d.validUntil < 0 THEN "failed" ELSE "first",
                   !.pinned = pinned, !.data = data,
                   !.max = IF given THEN d.gasLimit ELSE BlockGasLimit * 10,
                   !.storageLimit = IF given THEN d.storageLimit ELSE BlockStorageLimit]
      /\ cost' \in Costs

(* _ethCall at the head: enough gas and enough storage.  It may also fail  *)
(* for another reason, such as the node.                                   *)
Works(limit) == limit >= cost.need /\ cost.storage <= est.storageLimit

Outcome(limit) == {IF Works(limit) THEN "ok" ELSE "outOfGas", "other"}

FirstCall(outcome) ==
  /\ est.pc = "first"
  /\ outcome \in Outcome(est.max)
  /\ IF outcome = "ok"
     THEN est' = [est EXCEPT !.pc = "guess", !.used = cost.used,
                             !.storage = cost.storage, !.worked = {est.max},
                             !.limit = (cost.used * 6) \div 5]
     ELSE est' = [est EXCEPT !.pc = "failed"]
  /\ UNCHANGED cost

(* Whatever the reason of a failure, it is taken for too little gas. *)
Guess(outcome) ==
  /\ est.pc = "guess"
  /\ outcome \in Outcome(est.limit)
  /\ IF outcome = "ok"
     THEN est' = [est EXCEPT !.pc = "done", !.worked = @ \cup {est.limit}]
     ELSE est' = [est EXCEPT
                    !.pc = IF est.max - MinGasLimit > 1 THEN "search" ELSE "done",
                    !.lowest = MinGasLimit, !.highest = est.max, !.prev = est.max,
                    !.mid = Smaller(est.used * 3, (MinGasLimit + est.max) \div 2),
                    !.limit = est.max]
  /\ UNCHANGED cost

(* The search ends early once a success has lowered the highest limit by   *)
(* less than a tenth.                                                      *)
NarrowedToLowest(lo, hi, prev) ==      \* a slip: the limit that failed
  [est EXCEPT !.lowest = lo, !.highest = hi, !.prev = prev,
              !.mid = (hi + lo) \div 2, !.limit = lo,
              !.pc = IF hi - lo > 1 THEN "search" ELSE "done"]

Narrowed(lo, hi, prev) ==
  [est EXCEPT !.lowest = lo, !.highest = hi, !.prev = prev,
              !.mid = (hi + lo) \div 2, !.limit = hi,
              !.pc = IF hi - lo > 1 THEN "search" ELSE "done"]

Search(outcome) ==
  /\ est.pc = "search"
  /\ outcome \in Outcome(est.mid)
  /\ CASE outcome = "ok" ->
            est' = [Narrowed(est.lowest, est.mid, est.mid) EXCEPT
                      !.worked = @ \cup {est.mid},
                      !.pc = IF est.prev - est.mid < DivRoundUp(est.prev, 10)
                             THEN "done" ELSE @]
       [] outcome = "outOfGas" -> est' = Narrowed(est.mid, est.highest, est.prev)
       [] outcome = "other"    -> est' = [est EXCEPT !.pc = "failed"]
  /\ UNCHANGED cost

(* A new head, at most one per estimate; it matters to an estimate that is *)
(* not made at a block of its own.                                         *)
HeadMoves(c) ==
  /\ est.pc \in {"first", "guess", "search"}
  /\ ~est.pinned /\ ~est.moved /\ c # cost
  /\ cost' = c
  /\ est' = [est EXCEPT !.moved = TRUE]

(* Some contracts depend on the height: data get a margin of storage. *)
SafeStorage ==
  IF est.data THEN ((Larger(est.storage, 0) + 64) * 11) \div 10
              ELSE Larger(est.storage, 0)

Answered ==
  /\ est.pc \in {"done", "failed"}
  /\ est' = NoEstimate
  /\ cost' = NoCost

EstimateNext ==
  \/ \E p, d \in BOOLEAN, o \in Overrides : Ask(p, d, o)
  \/ \E outcome \in {"ok", "outOfGas", "other"} :
       FirstCall(outcome) \/ Guess(outcome) \/ Search(outcome)
  \/ \E c \in Costs : HeadMoves(c)
  \/ Answered
=============================================================================
