---------------------------- MODULE FormatsProofs ----------------------------
(* Why the estimate of estimateResources can be relied on, for every cost  *)
(* of a transaction and every override; that what it answers, and whatever *)
(* else is packed into a gas limit and a price, is read back in full; that *)
(* whoever signs a transaction is recovered from it; that every log of a   *)
(* block is in one receipt and stored once, whatever happened in the block;*)
(* that the three filters of logs let the same logs through, for every log *)
(* and filter; and that requests are understood, whatever their arguments. *)
EXTENDS Formats, FiniteSetTheorems, SequenceTheorems, NaturalsInduction,
        WellFoundedInduction, TLAPS

-----------------------------------------------------------------------------
(* Powers of two; the provers compute those of a number written out. *)
Pow(k) == 2^k

LEMMA PowValues ==
  \A k \in 0 .. 30 :
    \/ (k = 0 /\ Pow(k) = 1) \/ (k = 1 /\ Pow(k) = 2) \/ (k = 2 /\ Pow(k) = 4)
    \/ (k = 3 /\ Pow(k) = 8) \/ (k = 4 /\ Pow(k) = 16) \/ (k = 5 /\ Pow(k) = 32)
    \/ (k = 6 /\ Pow(k) = 64) \/ (k = 7 /\ Pow(k) = 128) \/ (k = 8 /\ Pow(k) = 256)
    \/ (k = 9 /\ Pow(k) = 512) \/ (k = 10 /\ Pow(k) = 1024)
    \/ (k = 11 /\ Pow(k) = 2048) \/ (k = 12 /\ Pow(k) = 4096)
    \/ (k = 13 /\ Pow(k) = 8192) \/ (k = 14 /\ Pow(k) = 16384)
    \/ (k = 15 /\ Pow(k) = 32768) \/ (k = 16 /\ Pow(k) = 65536)
    \/ (k = 17 /\ Pow(k) = 131072) \/ (k = 18 /\ Pow(k) = 262144)
    \/ (k = 19 /\ Pow(k) = 524288) \/ (k = 20 /\ Pow(k) = 1048576)
    \/ (k = 21 /\ Pow(k) = 2097152) \/ (k = 22 /\ Pow(k) = 4194304)
    \/ (k = 23 /\ Pow(k) = 8388608) \/ (k = 24 /\ Pow(k) = 16777216)
    \/ (k = 25 /\ Pow(k) = 33554432) \/ (k = 26 /\ Pow(k) = 67108864)
    \/ (k = 27 /\ Pow(k) = 134217728) \/ (k = 28 /\ Pow(k) = 268435456)
    \/ (k = 29 /\ Pow(k) = 536870912) \/ (k = 30 /\ Pow(k) = 1073741824)
<1>1. /\ Pow(0) = 1 /\ Pow(1) = 2 /\ Pow(2) = 4 /\ Pow(3) = 8 /\ Pow(4) = 16
      /\ Pow(5) = 32 /\ Pow(6) = 64 /\ Pow(7) = 128 /\ Pow(8) = 256 /\ Pow(9) = 512
      /\ Pow(10) = 1024 /\ Pow(11) = 2048 /\ Pow(12) = 4096 /\ Pow(13) = 8192
      /\ Pow(14) = 16384 /\ Pow(15) = 32768 /\ Pow(16) = 65536 /\ Pow(17) = 131072
      /\ Pow(18) = 262144 /\ Pow(19) = 524288 /\ Pow(20) = 1048576
      /\ Pow(21) = 2097152 /\ Pow(22) = 4194304 /\ Pow(23) = 8388608
      /\ Pow(24) = 16777216 /\ Pow(25) = 33554432 /\ Pow(26) = 67108864
      /\ Pow(27) = 134217728 /\ Pow(28) = 268435456 /\ Pow(29) = 536870912
      /\ Pow(30) = 1073741824
  BY SMT DEF Pow
<1>2. QED
  BY <1>1, SMT

LEMMA PowNat == \A k \in 0 .. 30 : Pow(k) \in Nat \ {0}
BY PowValues, SMT

LEMMA PowNext == \A k \in 1 .. 30 : Pow(k) = 2 * Pow(k - 1)
BY PowValues, SMT

LEMMA PowGrows == \A j, k \in 0 .. 30 : j <= k => Pow(j) <= Pow(k)
BY PowValues, SMT

LEMMA PowEnds == Pow(0) = 1 /\ Pow(22) = 4194304
BY PowValues, SMT

-----------------------------------------------------------------------------
(* The search is between a limit that failed, or the least one, and the    *)
(* least limit that worked, which is the one it would answer.              *)
Enough == Larger(cost.need, MinGasLimit)

Bounded(limit) ==
  cost.need <= limit /\ limit <= Larger(3 * cost.used, Enough + Enough \div 8 + 2)

EstimateInv ==
  /\ est \in EstimateState
  /\ est.pc # "idle" => cost \in Costs
  /\ est.pc \in {"guess", "search"} /\ ~est.moved =>
       est.used = cost.used /\ cost.need <= est.max /\ cost.storage <= est.storageLimit
  /\ est.pc = "guess" => est.max \in est.worked /\ est.limit = (est.used * 6) \div 5
  /\ est.pc = "search" =>
       /\ est.highest \in est.worked
       /\ est.limit = est.highest /\ est.prev = est.highest
       /\ est.mid <= 3 * est.used \/ est.mid = (est.highest + est.lowest) \div 2
       /\ ~est.moved => cost.need <= est.highest /\ est.lowest <= Enough
  /\ est.pc = "done" => est.limit \in est.worked /\ (~est.moved => Bounded(est.limit))

LEMMA CostFacts ==
  ASSUME cost \in Costs
  PROVE  /\ cost.need \in Nat /\ cost.used \in Nat /\ cost.storage \in Int
         /\ cost.used <= cost.need /\ Enough \in Nat
         /\ cost.need <= Enough /\ MinGasLimit <= Enough
BY EstimateAssumption DEF Enough, Larger, MinGasLimit

(* Where a search may end early: a success less than a tenth below the     *)
(* last one is at most an eighth above the limit that failed.              *)
LEMMA EarlyEnd ==
  ASSUME NEW n \in Nat, NEW lo \in Nat, NEW mid \in Nat, mid = (n + lo) \div 2,
         n - mid < DivRoundUp(n, 10)
  PROVE  mid <= lo + lo \div 8 + 2
BY DEF DivRoundUp

LEMMA AskKeeps ==
  ASSUME NEW pinned \in BOOLEAN, NEW data \in BOOLEAN, NEW override \in Overrides,
         Ask(pinned, data, override)
  PROVE  EstimateInv'
<1> DEFINE d == DecodeEthGas(override.price, override.limit)
<1>1. override.price \in Nat /\ override.limit \in Nat
  BY EstimateAssumption
<1>2. d.gasLimit \in Nat /\ d.storageLimit \in Nat
  <2> DEFINE b == override.limit % GasMask
  <2>1. b \in Nat /\ b % StorageMask \in Nat /\ b \div StorageMask \in Nat
    BY <1>1 DEF GasMask, StorageMask
  <2>2. d.gasLimit = (b \div StorageMask) * GasLimitChunk
    BY DEF DecodeEthGas
  <2>3. d.storageLimit = 2^Smaller(b % StorageMask, MaxGasLimitCC)
    BY DEF DecodeEthGas
  <2> HIDE DEF d, b
  <2>4. Smaller(b % StorageMask, MaxGasLimitCC) \in 0 .. 30
    BY <2>1 DEF Smaller, MaxGasLimitCC
  <2>5. 2^Smaller(b % StorageMask, MaxGasLimitCC) \in Nat
    BY <2>4, PowNat, Zenon DEF Pow
  <2>6. QED
    BY <2>1, <2>2, <2>3, <2>5 DEF GasLimitChunk
<1> DEFINE pc == IF override # Default /\ d.validUntil < 0 THEN "failed" ELSE "first"
           max == IF override # Default THEN d.gasLimit ELSE BlockGasLimit * 10
           storageLimit == IF override # Default THEN d.storageLimit ELSE BlockStorageLimit
<1>3. /\ est' = [NoEstimate EXCEPT !.pc = pc, !.pinned = pinned, !.data = data, !.max = max,
                                   !.storageLimit = storageLimit]
      /\ cost' \in Costs
  BY DEF Ask
<1>4. pc \in {"failed", "first"} /\ max \in Nat /\ storageLimit \in Nat
  BY <1>2 DEF BlockGasLimit, BlockStorageLimit
<1> HIDE DEF pc, max, storageLimit
<1>5. est' \in EstimateState /\ est'.pc = pc
  <2>1. est' = [pc |-> pc, pinned |-> pinned, moved |-> FALSE, data |-> data,
                max |-> max, storageLimit |-> storageLimit, used |-> 0, storage |-> 0,
                lowest |-> 0, highest |-> 0, mid |-> 0, prev |-> 0, limit |-> 0, worked |-> {}]
    BY <1>3 DEF NoEstimate
  <2>2. QED
    BY <1>4, <2>1 DEF EstimateState
<1>6. QED
  BY <1>3, <1>4, <1>5 DEF EstimateInv

LEMMA FirstCallKeeps ==
  ASSUME EstimateInv, NEW outcome, FirstCall(outcome)
  PROVE  EstimateInv'
<1>1. /\ est \in EstimateState /\ cost \in Costs /\ UNCHANGED cost
      /\ est.pc = "first" /\ outcome \in Outcome(est.max)
  BY DEF EstimateInv, FirstCall
<1>2. cost.used \in Nat /\ cost.need \in Nat /\ cost.storage \in Int /\ est.max \in Nat
  BY <1>1, CostFacts DEF EstimateState
<1>3. CASE outcome = "ok"
  <2>1. est' = [est EXCEPT !.pc = "guess", !.used = cost.used, !.storage = cost.storage,
                           !.worked = {est.max}, !.limit = (cost.used * 6) \div 5]
    BY <1>3 DEF FirstCall
  <2>2. est' \in EstimateState
    <3>1. (cost.used * 6) \div 5 \in Nat
      BY <1>2
    <3>2. QED
      BY <1>1, <1>2, <2>1, <3>1 DEF EstimateState
  <2>3. /\ est'.pc = "guess" /\ est'.used = cost.used /\ est'.max = est.max
        /\ est'.worked = {est.max} /\ est'.limit = (cost.used * 6) \div 5
        /\ est'.storageLimit = est.storageLimit
    BY <1>1, <2>1 DEF EstimateState
  <2>4. cost.need <= est.max /\ cost.storage <= est.storageLimit
    BY <1>1, <1>3 DEF Outcome, Works
  <2>5. QED
    BY <1>1, <2>2, <2>3, <2>4 DEF EstimateInv
<1>4. CASE outcome # "ok"
  <2>1. est' = [est EXCEPT !.pc = "failed"]
    BY <1>4 DEF FirstCall
  <2>2. est' \in EstimateState /\ est'.pc = "failed"
    BY <1>1, <2>1 DEF EstimateState
  <2>3. QED
    BY <1>1, <2>2 DEF EstimateInv
<1>5. QED
  BY <1>3, <1>4

LEMMA GuessKeeps ==
  ASSUME EstimateInv, NEW outcome, Guess(outcome)
  PROVE  EstimateInv'
<1>1. /\ est \in EstimateState /\ cost \in Costs /\ UNCHANGED cost
      /\ est.pc = "guess" /\ outcome \in Outcome(est.limit)
      /\ est.max \in est.worked /\ est.limit = (est.used * 6) \div 5
      /\ ~est.moved => est.used = cost.used /\ cost.need <= est.max /\ cost.storage <= est.storageLimit
  BY DEF EstimateInv, Guess
<1>2. /\ cost.used \in Nat /\ cost.need \in Nat /\ Enough \in Nat
      /\ cost.need <= Enough /\ MinGasLimit <= Enough
      /\ est.max \in Nat /\ est.used \in Nat /\ est.limit \in Nat /\ est.worked \in SUBSET Nat
  BY <1>1, CostFacts DEF EstimateState
<1>3. CASE outcome = "ok"
  <2>1. est' = [est EXCEPT !.pc = "done", !.worked = @ \cup {est.limit}]
    BY <1>3 DEF Guess
  <2>2. /\ est' \in EstimateState /\ est'.pc = "done" /\ est'.limit = est.limit
        /\ est'.worked = est.worked \cup {est.limit} /\ est'.moved = est.moved
    BY <1>1, <1>2, <2>1 DEF EstimateState
  <2>3. ASSUME ~est.moved PROVE Bounded(est.limit)'
    <3>1. cost.need <= est.limit
      BY <1>1, <1>3 DEF Outcome, Works
    <3>2. est.limit <= 3 * cost.used
      BY <1>1, <1>2, <2>3
    <3>3. QED
      BY <1>1, <1>2, <2>2, <3>1, <3>2 DEF Bounded, Larger, Enough
  <2>4. QED
    BY <1>1, <2>2, <2>3 DEF EstimateInv, Bounded
<1>4. CASE outcome # "ok"
  <2> DEFINE mid == Smaller(est.used * 3, (MinGasLimit + est.max) \div 2)
             pc == IF est.max - MinGasLimit > 1 THEN "search" ELSE "done"
  <2>1. est' = [est EXCEPT !.pc = pc, !.lowest = MinGasLimit, !.highest = est.max,
                           !.prev = est.max, !.mid = mid, !.limit = est.max]
    BY <1>4 DEF Guess
  <2>2. /\ mid \in Nat
        /\ mid <= 3 * est.used \/ mid = (est.max + MinGasLimit) \div 2
    BY <1>2 DEF Smaller, MinGasLimit
  <2>3. pc \in {"search", "done"} /\ MinGasLimit \in Nat
    BY DEF MinGasLimit
  <2> HIDE DEF mid, pc
  <2>4. est' \in EstimateState
    BY <1>1, <1>2, <2>1, <2>2, <2>3 DEF EstimateState
  <2>5. /\ est'.pc = pc /\ est'.lowest = MinGasLimit /\ est'.highest = est.max
        /\ est'.prev = est.max /\ est'.mid = mid /\ est'.limit = est.max
        /\ est'.worked = est.worked /\ est'.used = est.used /\ est'.max = est.max
        /\ est'.moved = est.moved /\ est'.storageLimit = est.storageLimit
    BY <1>1, <2>1 DEF EstimateState
  <2>6. CASE pc = "search"
    BY <1>1, <1>2, <2>2, <2>4, <2>5, <2>6 DEF EstimateInv, Enough
  <2>7. CASE pc = "done"
    <3>1. est.max <= MinGasLimit + 1
      BY <1>2, <2>7 DEF pc, MinGasLimit
    <3>2. ~est.moved => Bounded(est.max)
      BY <1>1, <1>2, <3>1 DEF Bounded, Larger, MinGasLimit
    <3>3. QED
      BY <1>1, <2>4, <2>5, <2>7, <3>2 DEF EstimateInv, Bounded, Enough
  <2>8. QED
    BY <2>3, <2>6, <2>7
<1>5. QED
  BY <1>3, <1>4

LEMMA SearchKeeps ==
  ASSUME EstimateInv, NEW outcome, Search(outcome)
  PROVE  EstimateInv'
<1>1. /\ est \in EstimateState /\ cost \in Costs /\ UNCHANGED cost
      /\ est.pc = "search" /\ outcome \in Outcome(est.mid)
      /\ est.highest \in est.worked
      /\ est.prev = est.highest
      /\ est.mid <= 3 * est.used \/ est.mid = (est.highest + est.lowest) \div 2
      /\ ~est.moved => /\ cost.need <= est.highest /\ est.lowest <= Enough
                       /\ est.used = cost.used /\ cost.need <= est.max
                       /\ cost.storage <= est.storageLimit
  BY DEF EstimateInv, Search
<1>2. /\ cost.used \in Nat /\ cost.need \in Nat /\ cost.storage \in Int /\ Enough \in Nat
      /\ cost.need <= Enough /\ MinGasLimit <= Enough
      /\ est.max \in Nat /\ est.used \in Nat /\ est.limit \in Nat /\ est.worked \in SUBSET Nat
      /\ est.lowest \in Nat /\ est.highest \in Nat /\ est.mid \in Nat /\ est.prev \in Nat
      /\ est.storageLimit \in Nat
  BY <1>1, CostFacts DEF EstimateState
<1>3. CASE outcome = "ok"
  <2> DEFINE mid == (est.mid + est.lowest) \div 2
             pc == IF est.prev - est.mid < DivRoundUp(est.prev, 10) THEN "done"
                   ELSE IF est.mid - est.lowest > 1 THEN "search" ELSE "done"
  <2>1. est' = [est EXCEPT !.lowest = est.lowest, !.highest = est.mid, !.prev = est.mid,
                           !.mid = mid, !.limit = est.mid,
                           !.pc = pc, !.worked = est.worked \cup {est.mid}]
    <3>1. outcome # "outOfGas" /\ outcome # "other"
      BY <1>3
    <3>2. est' = [Narrowed(est.lowest, est.mid, est.mid) EXCEPT
                      !.worked = @ \cup {est.mid},
                      !.pc = IF est.prev - est.mid < DivRoundUp(est.prev, 10)
                             THEN "done" ELSE @]
      BY <1>3, <3>1 DEF Search
    <3>3. QED
      BY <1>1, <3>2 DEF Narrowed, EstimateState
  <2>2. mid \in Nat /\ pc \in {"search", "done"} /\ mid = (est.mid + est.lowest) \div 2
    BY <1>2
  <2>3. cost.need <= est.mid
    BY <1>1, <1>3 DEF Outcome, Works
  <2>4. pc = "done" => \/ est.prev - est.mid < DivRoundUp(est.prev, 10)
                       \/ est.mid <= est.lowest + 1
    BY <1>2
  <2> HIDE DEF mid, pc
  <2>5. est' \in EstimateState
    BY <1>1, <1>2, <2>1, <2>2 DEF EstimateState
  <2>6. /\ est'.pc = pc /\ est'.lowest = est.lowest /\ est'.highest = est.mid
        /\ est'.prev = est.mid /\ est'.mid = mid /\ est'.limit = est.mid
        /\ est'.worked = est.worked \cup {est.mid} /\ est'.used = est.used /\ est'.max = est.max
        /\ est'.moved = est.moved /\ est'.storageLimit = est.storageLimit
    BY <1>1, <2>1 DEF EstimateState
  <2>7. CASE pc = "search"
    BY <1>1, <1>2, <2>2, <2>3, <2>5, <2>6, <2>7 DEF EstimateInv, Enough
  <2>8. CASE pc = "done"
    <3>1. ASSUME ~est.moved PROVE Bounded(est.mid)
      <4>1. CASE est.mid <= est.lowest + 1 \/ est.mid <= 3 * est.used
        BY <1>1, <1>2, <2>3, <3>1, <4>1 DEF Bounded, Larger
      <4>2. CASE /\ est.prev - est.mid < DivRoundUp(est.prev, 10)
                 /\ est.mid = (est.highest + est.lowest) \div 2
        <5>1. est.mid <= est.lowest + est.lowest \div 8 + 2
          BY <1>1, <1>2, <4>2, EarlyEnd
        <5>2. est.mid <= Enough + Enough \div 8 + 2
          BY <1>1, <1>2, <3>1, <5>1
        <5>3. QED
          BY <1>2, <2>3, <5>2 DEF Bounded, Larger
      <4>3. QED
        BY <1>1, <2>4, <2>8, <4>1, <4>2
    <3>2. QED
      BY <1>1, <2>5, <2>6, <2>8, <3>1 DEF EstimateInv, Bounded, Enough
  <2>9. QED
    BY <2>2, <2>7, <2>8
<1>4. CASE outcome = "outOfGas"
  <2> DEFINE mid == (est.highest + est.mid) \div 2
             pc == IF est.highest - est.mid > 1 THEN "search" ELSE "done"
  <2>1. est' = [est EXCEPT !.lowest = est.mid, !.highest = est.highest, !.prev = est.prev,
                           !.mid = mid, !.limit = est.highest, !.pc = pc]
    <3>1. outcome # "ok" /\ outcome # "other"
      BY <1>4
    <3>2. est' = Narrowed(est.mid, est.highest, est.prev)
      BY <1>4, <3>1 DEF Search
    <3>3. QED
      BY <3>2 DEF Narrowed
  <2>2. mid \in Nat /\ pc \in {"search", "done"} /\ mid = (est.highest + est.mid) \div 2
    BY <1>2
  <2>3. pc = "done" => est.highest <= est.mid + 1
    BY <1>2
  <2>4. ~est.moved => est.mid < cost.need
    BY <1>1, <1>2, <1>4 DEF Outcome, Works
  <2> HIDE DEF mid, pc
  <2>5. est' \in EstimateState
    BY <1>1, <1>2, <2>1, <2>2 DEF EstimateState
  <2>6. /\ est'.pc = pc /\ est'.lowest = est.mid /\ est'.highest = est.highest
        /\ est'.prev = est.prev /\ est'.mid = mid /\ est'.limit = est.highest
        /\ est'.worked = est.worked /\ est'.used = est.used /\ est'.max = est.max
        /\ est'.moved = est.moved /\ est'.storageLimit = est.storageLimit
    BY <1>1, <2>1 DEF EstimateState
  <2>7. CASE pc = "search"
    <3>1. ~est.moved => est.mid <= Enough
      BY <1>2, <2>4
    <3>2. QED
      BY <1>1, <1>2, <2>2, <2>5, <2>6, <2>7, <3>1 DEF EstimateInv, Enough
  <2>8. CASE pc = "done"
    <3>1. ~est.moved => Bounded(est.highest)
      BY <1>1, <1>2, <2>3, <2>4, <2>8 DEF Bounded, Larger
    <3>2. QED
      BY <1>1, <2>5, <2>6, <2>8, <3>1 DEF EstimateInv, Bounded, Enough
  <2>9. QED
    BY <2>2, <2>7, <2>8
<1>5. CASE outcome = "other"
  <2>1. est' = [est EXCEPT !.pc = "failed"]
    BY <1>5 DEF Search
  <2>2. est' \in EstimateState /\ est'.pc = "failed"
    BY <1>1, <2>1 DEF EstimateState
  <2>3. QED
    BY <1>1, <2>2 DEF EstimateInv
<1>6. QED
  BY <1>1, <1>3, <1>4, <1>5 DEF Outcome

LEMMA HeadMovesKeeps ==
  ASSUME EstimateInv, NEW c \in Costs, HeadMoves(c)
  PROVE  EstimateInv'
<1>1. /\ est' = [est EXCEPT !.moved = TRUE] /\ cost' = c /\ est \in EstimateState
      /\ est.pc \in {"first", "guess", "search"}
  BY DEF EstimateInv, HeadMoves
<1>2. /\ est' \in EstimateState /\ est'.moved
      /\ est'.pc = est.pc /\ est'.lowest = est.lowest /\ est'.highest = est.highest
      /\ est'.prev = est.prev /\ est'.mid = est.mid /\ est'.limit = est.limit
      /\ est'.worked = est.worked /\ est'.used = est.used /\ est'.max = est.max
  BY <1>1 DEF EstimateState
<1>3. QED
  BY <1>1, <1>2 DEF EstimateInv

LEMMA RestartKeeps ==
  ASSUME est' = NoEstimate
  PROVE  EstimateInv'
<1>1. NoEstimate \in EstimateState /\ NoEstimate.pc = "idle"
  BY DEF NoEstimate, EstimateState
<1>2. QED
  BY <1>1 DEF EstimateInv

LEMMA EstimateInvariant == Spec => []EstimateInv
<1>1. Init => EstimateInv
  <2> SUFFICES ASSUME Init PROVE EstimateInv
    OBVIOUS
  <2>1. NoEstimate \in EstimateState /\ NoEstimate.pc = "idle"
    BY DEF NoEstimate, EstimateState
  <2>2. QED
    BY <2>1 DEF Init, EstimateInit, EstimateInv
<1>2. EstimateInv /\ [Next]_vars => EstimateInv'
  <2> SUFFICES ASSUME EstimateInv, [Next]_vars PROVE EstimateInv'
    OBVIOUS
  <2>1. CASE UNCHANGED <<cost, est>>
    BY <2>1 DEF EstimateInv, Bounded, Enough
  <2>2. CASE EstimateNext
    <3>1. ASSUME NEW p \in BOOLEAN, NEW d \in BOOLEAN, NEW o \in Overrides, Ask(p, d, o)
          PROVE  EstimateInv'
      BY <3>1, AskKeeps
    <3>2. ASSUME NEW outcome, FirstCall(outcome) \/ Guess(outcome) \/ Search(outcome)
          PROVE  EstimateInv'
      BY <3>2, FirstCallKeeps, GuessKeeps, SearchKeeps
    <3>3. ASSUME NEW c \in Costs, HeadMoves(c) PROVE EstimateInv'
      BY <3>3, HeadMovesKeeps
    <3>4. ASSUME Answered PROVE EstimateInv'
      BY <3>4, RestartKeeps DEF Answered
    <3>5. QED
      BY <2>2, <3>1, <3>2, <3>3, <3>4 DEF EstimateNext
  <2>3. QED
    BY <2>1, <2>2 DEF Next, Start, Finish, Estimating, vars
<1>3. QED
  BY <1>1, <1>2, PTL DEF Spec

(* An estimate that estimateResources answers worked when it was tried,    *)
(* however the node failed in between and the head moved; at one head it   *)
(* covers what is needed and exceeds it by the named bound at most: the    *)
(* early end of binarySearch costs an eighth, no more.                     *)
THEOREM GasIsFound == Spec => []GasFound
<1>1. EstimateInv => GasFound
  BY DEF EstimateInv, GasFound, Bounded, Enough
<1>2. QED
  BY <1>1, EstimateInvariant, PTL

-----------------------------------------------------------------------------
(* An estimate never has more storage than a block. *)
WithinBlock == est.storage <= BlockStorageLimit

LEMMA StorageWithinBlock == Spec => []WithinBlock
<1>1. NoEstimate.storage <= BlockStorageLimit /\ (Init => WithinBlock)
  BY DEF WithinBlock, NoEstimate, BlockStorageLimit, Init, EstimateInit
<1>2. EstimateInv /\ WithinBlock /\ [Next]_vars => WithinBlock'
  <2> SUFFICES ASSUME EstimateInv, est.storage <= BlockStorageLimit, [Next]_vars,
                      est' # est
               PROVE  est'.storage <= BlockStorageLimit
    BY DEF WithinBlock
  <2>1. est \in EstimateState /\ EstimateNext
    BY DEF EstimateInv, Next, Start, Finish, Estimating, vars
  <2>2. ASSUME NEW p \in BOOLEAN, NEW d \in BOOLEAN, NEW o \in Overrides, Ask(p, d, o)
        PROVE  est'.storage <= BlockStorageLimit
    BY <2>2, <1>1 DEF Ask, NoEstimate
  <2>3. ASSUME NEW outcome, FirstCall(outcome) PROVE est'.storage <= BlockStorageLimit
    <3>1. cost.storage <= BlockStorageLimit
      BY <2>3, EstimateAssumption DEF EstimateInv, FirstCall
    <3>2. est'.storage \in {est.storage, cost.storage}
      BY <2>1, <2>3 DEF FirstCall, EstimateState
    <3>3. QED
      BY <3>1, <3>2
  <2>4. ASSUME NEW outcome, Guess(outcome) \/ Search(outcome) PROVE est'.storage = est.storage
    <3>1. \A lo, hi, prev : Narrowed(lo, hi, prev).storage = est.storage
      BY <2>1 DEF Narrowed, EstimateState
    <3>2. \A lo, hi, prev, worked, pc :
            [Narrowed(lo, hi, prev) EXCEPT !.worked = worked, !.pc = pc].storage = est.storage
      BY <2>1 DEF Narrowed, EstimateState
    <3>3. CASE Guess(outcome)
      BY <2>1, <3>3 DEF Guess, EstimateState
    <3>4. CASE Search(outcome)
      <4>1. CASE outcome = "ok"
        <5>1. est' = [Narrowed(est.lowest, est.mid, est.mid) EXCEPT
                        !.worked = @ \cup {est.mid},
                        !.pc = IF est.prev - est.mid < DivRoundUp(est.prev, 10)
                               THEN "done" ELSE @]
          BY <3>4, <4>1 DEF Search
        <5>2. QED
          BY <5>1, <3>2
      <4>2. CASE outcome = "outOfGas"
        BY <3>1, <3>4, <4>2 DEF Search
      <4>3. CASE outcome = "other"
        BY <2>1, <3>4, <4>3 DEF Search, EstimateState
      <4>4. QED
        BY <3>4, <4>1, <4>2, <4>3 DEF Search, Outcome
    <3>5. QED
      BY <2>4, <3>3, <3>4
  <2>5. ASSUME NEW c, HeadMoves(c) PROVE est'.storage = est.storage
    BY <2>1, <2>5 DEF HeadMoves, EstimateState
  <2>6. QED
    BY <1>1, <2>1, <2>2, <2>3, <2>4, <2>5 DEF EstimateNext, Answered
<1>3. QED
  BY <1>1, <1>2, EstimateInvariant, PTL DEF Spec

-----------------------------------------------------------------------------
(* A piece of work is one of those there are. *)
JobGiven ==
  /\ job.kind = "gas" => job.in \in GasJobs
  /\ job.kind = "native" => job.in \in NativeGasJobs
  /\ job.kind = "tx" => job.in \in TxJobs
  /\ job.kind = "block" => job.in \in Blocks
  /\ job.kind = "log" => job.in \in LogJobs
  /\ job.kind = "request" => job.in \in RequestJobs

LEMMA JobIsGiven == Spec => []JobGiven
<1>1. Init => JobGiven
  BY DEF Init, NoJob, JobGiven
<1>2. JobGiven /\ [Next]_vars => JobGiven'
  <2> SUFFICES ASSUME JobGiven, [Next]_vars PROVE JobGiven'
    OBVIOUS
  <2>1. CASE job' = job
    BY <2>1 DEF JobGiven
  <2>2. CASE Finish
    BY <2>2 DEF Finish, NoJob, JobGiven
  <2>3. CASE Start("gas", GasJobs)
    BY <2>3 DEF Start, JobGiven
  <2>4. CASE Start("native", NativeGasJobs)
    BY <2>4 DEF Start, JobGiven
  <2>5. CASE Start("tx", TxJobs)
    BY <2>5 DEF Start, JobGiven
  <2>6. CASE Start("block", Blocks)
    BY <2>6 DEF Start, JobGiven
  <2>7. CASE Start("log", LogJobs)
    BY <2>7 DEF Start, JobGiven
  <2>8. CASE Start("request", RequestJobs)
    BY <2>8 DEF Start, JobGiven
  <2>9. QED
    BY <2>1, <2>2, <2>3, <2>4, <2>5, <2>6, <2>7, <2>8, Zenon DEF Next, Estimating, vars
<1>3. QED
  BY <1>1, <1>2, PTL DEF Spec

-----------------------------------------------------------------------------
(* Division by one of the constants. *)
LEMMA DivFacts ==
  ASSUME NEW x \in Int, NEW e \in Nat \ {0}
  PROVE  /\ x \div e \in Int /\ x % e \in Nat /\ x % e < e
         /\ x = e * (x \div e) + (x % e)
<1>1. x \div e \in Int
  BY Z3
<1>2. x % e \in Nat /\ x % e < e
  BY Z3
<1>3. x % e = x - e * (x \div e)
  BY Z3
<1>4. QED
  BY <1>1, <1>2, <1>3, Z3

(* Quotient and remainder are determined by what they add up to. *)
LEMMA DigitsUnique ==
  ASSUME NEW e \in Nat \ {0}, NEW j \in Int, NEW k \in Int,
         NEW r \in Nat, r < e, NEW s \in Nat, s < e, e * j + r = e * k + s
  PROVE  j = k /\ r = s
<1>1. e * (j - k) = s - r
  BY Z3
<1>2. ASSUME NEW d \in Int, d >= 1 PROVE e * d >= e
  <2>1. e * (d - 1) >= 0 /\ e * d = e * (d - 1) + e
    BY <1>2, Z3
  <2>2. QED
    BY <2>1, Z3
<1>3. ASSUME NEW d \in Int, d <= -1 PROVE e * d <= 0 - e
  <2>1. e * (0 - d) >= e /\ e * d = 0 - e * (0 - d)
    BY <1>2, <1>3, Z3
  <2>2. QED
    BY <2>1, Z3
<1>4. ~(j - k >= 1) /\ ~(j - k <= -1)
  BY <1>1, <1>2, <1>3, Z3
<1>5. QED
  BY <1>1, <1>4, Z3

LEMMA DivMultiple ==
  ASSUME NEW e \in Nat \ {0}, NEW k \in Int, NEW r \in Nat, r < e
  PROVE  (e * k + r) \div e = k /\ (e * k + r) % e = r
<1> DEFINE x == e * k + r
<1>1. x \in Int
  BY Z3
<1>2. /\ x \div e \in Int /\ x % e \in Nat /\ x % e < e
      /\ x = e * (x \div e) + (x % e)
  BY <1>1, DivFacts
<1>3. e * (x \div e) + (x % e) = e * k + r
  BY <1>2
<1>4. QED
  BY <1>2, <1>3, DigitsUnique

(* The price that carries a tip and a lifetime. *)
LEMMA PriceReads ==
  ASSUME NEW tip \in Nat, NEW validUntil \in Nat, validUntil < TenGwei, TenGwei \in Nat \ {0},
         NEW price, price = OneHundredGwei + tip * TenGwei + validUntil
  PROVE  /\ price \in Nat /\ price \div TenGwei = 10 + tip
         /\ price - tip * TenGwei - OneHundredGwei = validUntil
<1>1. OneHundredGwei = 10 * TenGwei
  BY DEF OneHundredGwei
<1>2. price = TenGwei * (10 + tip) + validUntil
  BY <1>1, Z3
<1>3. price \div TenGwei = 10 + tip
  BY <1>2, DivMultiple
<1>4. price \in Nat /\ price - tip * TenGwei - OneHundredGwei = validUntil
  BY <1>1, Z3
<1>5. QED
  BY <1>3, <1>4

(* Below the runtime's fee a price has no lifetime in the first encoding. *)
LEMMA CheapIsSecond ==
  ASSUME NEW price \in Nat, price < TxFeePerGas, NEW limit
  PROVE  CalcSubstrateTransactionParams(price, limit).validUntil < 0
<1>1. EntryRange \in Nat \ {0} /\ TxFeePerGas \in Nat
  BY GasCodecAssumption
<1> DEFINE x == price - (price % EntryRange) - TxFeePerGas
           p == x \div EntryRange
<1>2. x \in Int /\ x < 0
  BY <1>1, DivFacts
<1>3. p \in Int /\ EntryRange * p <= x
  BY <1>1, <1>2, DivFacts
<1>4. CalcSubstrateTransactionParams(price, limit).validUntil = p * 30
  BY DEF CalcSubstrateTransactionParams
<1> HIDE DEF p, x
<1>5. p >= 0 => EntryRange * p >= 0
  BY <1>1, <1>3, Z3
<1>6. QED
  BY <1>1, <1>2, <1>3, <1>4, <1>5, Z3

(* CeilLog2 is the logarithm, rounded up. *)
LEMMA LogFits ==
  ASSUME NEW n \in 1 .. Pow(22)
  PROVE  /\ CeilLog2(n) \in 0 .. 22
         /\ n <= Pow(CeilLog2(n)) /\ Pow(CeilLog2(n)) < 2 * n
<1> DEFINE Fits(c) == n <= Pow(c) /\ (c > 0 => Pow(c - 1) < n)
<1>1. \E c \in 0 .. 30 : Fits(c)
  <2>1. n = 1 \/ (1 < n /\ n <= 2) \/ (2 < n /\ n <= 4) \/ (4 < n /\ n <= 8)
        \/ (8 < n /\ n <= 16) \/ (16 < n /\ n <= 32) \/ (32 < n /\ n <= 64)
        \/ (64 < n /\ n <= 128) \/ (128 < n /\ n <= 256) \/ (256 < n /\ n <= 512)
        \/ (512 < n /\ n <= 1024) \/ (1024 < n /\ n <= 2048) \/ (2048 < n /\ n <= 4096)
        \/ (4096 < n /\ n <= 8192) \/ (8192 < n /\ n <= 16384)
        \/ (16384 < n /\ n <= 32768) \/ (32768 < n /\ n <= 65536)
        \/ (65536 < n /\ n <= 131072) \/ (131072 < n /\ n <= 262144)
        \/ (262144 < n /\ n <= 524288) \/ (524288 < n /\ n <= 1048576)
        \/ (1048576 < n /\ n <= 2097152) \/ (2097152 < n /\ n <= 4194304)
    BY PowEnds, SMT
  <2>2. \A k \in 1 .. 22 : Pow(k - 1) < n /\ n <= Pow(k) => Fits(k)
    OBVIOUS
  <2>3. n = 1 => Fits(0)
    BY PowEnds, SMT
  <2>4. QED
    BY <2>1, <2>2, <2>3, PowValues, SMT
<1>2. CeilLog2(n) = CHOOSE c \in 0 .. 30 : Fits(c)
  BY Zenon DEF CeilLog2, Pow
<1>3. CeilLog2(n) \in 0 .. 30 /\ Fits(CeilLog2(n))
  BY <1>1, <1>2, Zenon
<1>4. ASSUME NEW c \in 0 .. 30, Fits(c) PROVE c \in 0 .. 22 /\ Pow(c) < 2 * n
  <2>1. Pow(c) \in Nat /\ n \in Nat \ {0}
    BY PowNat, PowEnds, SMT
  <2>2. CASE c = 0
    BY <2>1, <2>2, PowEnds, SMT
  <2>3. CASE c > 0
    <3>1. c - 1 \in 0 .. 30 /\ Pow(c - 1) \in Nat /\ Pow(c - 1) < n
      BY <1>4, <2>3, PowNat, SMT
    <3>2. Pow(c) = 2 * Pow(c - 1)
      BY <2>3, PowNext, SMT
    <3>3. c > 22 => Pow(22) <= Pow(c - 1)
      BY <3>1, PowGrows, SMT
    <3>4. QED
      BY <2>1, <3>1, <3>2, <3>3, PowEnds, SMT
  <2>4. QED
    BY <2>2, <2>3
<1>5. QED
  BY <1>3, <1>4

(* The chunks that encodeGasLimit writes cover the gas, up to 999 of them. *)
LEMMA ChunksFit ==
  ASSUME NEW gas \in Nat, NEW transfer \in BOOLEAN, NEW chunks,
         chunks = EncodedChunks(gas, transfer)
  PROVE  /\ chunks \in Nat
         /\ chunks * GasLimitChunk >= gas
         /\ chunks * GasLimitChunk <= gas + (IF transfer THEN 11 ELSE 1) * GasLimitChunk
         /\ (chunks % 1000) * GasLimitChunk >= gas <=> chunks < 1000
         /\ transfer => \E k \in Nat : chunks = 10 * k
<1> DEFINE g == gas \div 30000
<1>1. g \in Nat /\ g * 30000 <= gas /\ gas < g * 30000 + 30000
  BY SMT
<1>2. chunks = IF transfer THEN ((g + 1) \div 10 + 1) * 10 ELSE g + 1
  BY SMT DEF EncodedChunks, GasLimitChunk
<1> HIDE DEF g
<1>3. CASE transfer
  <2> DEFINE k == (g + 1) \div 10 + 1
  <2>1. /\ chunks = 10 * k /\ k \in Nat
        /\ 10 * k <= g + 11 /\ g + 1 < 10 * k
    BY <1>1, <1>2, <1>3, SMT
  <2> HIDE DEF k
  <2>2. (chunks % 1000) * 30000 >= gas <=> chunks < 1000
    BY <1>1, <2>1, SMT
  <2>3. \E j \in Nat : chunks = 10 * j
    BY <2>1
  <2>4. chunks \in Nat /\ chunks * 30000 >= gas /\ chunks * 30000 <= gas + 11 * 30000
    BY <1>1, <2>1, SMT
  <2>5. (IF transfer THEN 11 ELSE 1) * GasLimitChunk = 11 * 30000 /\ GasLimitChunk = 30000
    BY <1>3, SMT DEF GasLimitChunk
  <2>6. QED
    BY <2>2, <2>3, <2>4, <2>5, SMT
<1>4. CASE ~transfer
  <2>1. chunks = g + 1
    BY <1>2, <1>4, SMT
  <2>2. (chunks % 1000) * 30000 >= gas <=> chunks < 1000
    BY <1>1, <2>1, SMT
  <2>3. QED
    BY <1>1, <1>4, <2>1, <2>2, SMT DEF GasLimitChunk
<1>5. QED
  BY <1>3, <1>4

(* The digits of a limit aaaabbbcc. *)
LEMMA DigitsOfLimit ==
  ASSUME NEW a \in Nat, NEW b \in Nat, NEW c \in Nat, c <= 22,
         NEW limit, limit = a * GasMask + b * StorageMask + c
  PROVE  /\ limit \in Nat
         /\ (limit % GasMask) \div StorageMask = b % 1000
         /\ (limit % GasMask) % StorageMask = c
<1> USE DEF GasMask, StorageMask
<1> DEFINE q == b \div 1000
           r == b % 1000
<1>1. q \in Nat /\ r \in Nat /\ r < 1000 /\ b = 1000 * q + r
  BY SMT
<1> HIDE DEF q, r
<1>2. limit = (a + q) * 100000 + (r * 100 + c)
  BY <1>1, SMT
<1>3. limit \in Nat /\ limit % 100000 = r * 100 + c
  BY <1>1, <1>2, SMT
<1>4. (r * 100 + c) \div 100 = r /\ (r * 100 + c) % 100 = c
  BY <1>1, SMT
<1>5. QED
  BY <1>3, <1>4, SMT DEF r

(* The digits that are left when a wallet raises the limit by half. *)
LEMMA DigitsRaised ==
  ASSUME NEW a \in Nat, NEW k \in Nat, k <= 33, NEW c \in Nat, c <= 22,
         NEW limit, limit = a * GasMask + 10 * k * StorageMask + c
  PROVE  LET raised == (limit * 3) \div 2
         IN  /\ raised \in Nat
             /\ (raised % GasMask) \div StorageMask >= 10 * k
             /\ (raised % GasMask) % StorageMask >= c
             /\ (raised % GasMask) % StorageMask < 100
<1> USE DEF GasMask, StorageMask
<1> DEFINE d == (c * 3) \div 2
           h == a \div 2
           raised == (limit * 3) \div 2
<1>1. d \in Nat /\ c <= d /\ d <= 33
  BY SMT
<1>2. h \in Nat /\ (a = 2 * h \/ a = 2 * h + 1)
  BY SMT
<1>3. limit = a * 100000 + k * 1000 + c
  BY SMT
<1>4. \/ raised = h * 300000 + (k * 1500 + d)
      \/ raised = h * 300000 + 100000 + (50000 + k * 1500 + d)
  BY <1>2, <1>3, SMT
<1> HIDE DEF d, h, raised
<1>5. raised % 100000 = k * 1500 + d \/ raised % 100000 = 50000 + k * 1500 + d
  BY <1>1, <1>2, <1>4, SMT
<1>6. /\ (k * 1500 + d) \div 100 >= 10 * k /\ (k * 1500 + d) % 100 = d
      /\ (50000 + k * 1500 + d) \div 100 >= 10 * k /\ (50000 + k * 1500 + d) % 100 = d
  BY <1>1, SMT
<1>7. raised \in Nat
  BY <1>1, <1>2, <1>4, SMT
<1>8. QED
  BY <1>1, <1>5, <1>6, <1>7, SMT DEF raised

(* From TxFeePerGas on, a price is read as one of the first encoding, as   *)
(* long as the limit pays for the entries it seems to have.                *)
LEMMA DearIsFirst ==
  ASSUME NEW price \in Nat, price >= TxFeePerGas, NEW limit
  PROVE  CalcSubstrateTransactionParams(price, limit).validUntil >= 0
<1>1. EntryRange \in Nat \ {0} /\ TxFeePerGas \in Nat /\ TxFeePerGas % EntryRange = 0
  BY GasCodecAssumption
<1> DEFINE q == price \div EntryRange
           f == TxFeePerGas \div EntryRange
           x == price - (price % EntryRange) - TxFeePerGas
<1>2. q \in Int /\ price = EntryRange * q + (price % EntryRange)
      /\ price % EntryRange \in Nat /\ price % EntryRange < EntryRange
  BY <1>1, DivFacts
<1>3. f \in Int /\ TxFeePerGas = EntryRange * f
  <2>1. f \in Int /\ TxFeePerGas = EntryRange * f + (TxFeePerGas % EntryRange)
    BY <1>1, DivFacts
  <2> HIDE DEF f
  <2>2. QED
    BY <1>1, <2>1, Z3
<1>4. x \div EntryRange = q - f
  <2> HIDE DEF q, f
  <2>1. x = EntryRange * (q - f) + 0
    BY <1>1, <1>2, <1>3, Z3
  <2>2. q - f \in Int /\ 0 \in Nat /\ 0 < EntryRange
    BY <1>1, <1>2, <1>3
  <2> HIDE DEF x
  <2>3. QED
    BY <1>1, <2>1, <2>2, DivMultiple
<1>5. CalcSubstrateTransactionParams(price, limit).validUntil = (x \div EntryRange) * 30
  BY DEF CalcSubstrateTransactionParams
<1> HIDE DEF q, f, x
<1>6. q >= f
  <2>1. EntryRange * f < EntryRange * q + EntryRange
    BY <1>1, <1>2, <1>3, Z3
  <2>2. q < f => EntryRange * q + EntryRange <= EntryRange * f
    <3>1. ASSUME q < f PROVE EntryRange * q + EntryRange <= EntryRange * f
      <4>1. EntryRange * (f - q - 1) >= 0
        BY <1>1, <1>2, <1>3, <3>1, Z3
      <4>2. EntryRange * (f - q - 1) = EntryRange * f - EntryRange * q - EntryRange
        BY <1>1, <1>2, <1>3, Z3
      <4>3. EntryRange * f \in Int /\ EntryRange * q \in Int
        BY <1>1, <1>2, <1>3, Z3
      <4>4. QED
        BY <1>1, <4>1, <4>2, <4>3, Z3
    <3>2. QED
      BY <3>1
  <2>3. EntryRange * f \in Int /\ EntryRange * q \in Int
    BY <1>1, <1>2, <1>3, Z3
  <2>4. QED
    BY <1>1, <1>2, <1>3, <2>1, <2>2, <2>3
<1>7. QED
  BY <1>2, <1>3, <1>4, <1>5, <1>6, SMT

(* Which of the two encodings a transaction is read as. *)
LEMMA WhichReads ==
  ASSUME NEW price \in Nat, NEW limit \in Nat
  PROVE  LET d == GetSubstrateGasParams([type |-> 0, price |-> price, limit |-> limit])
             e == DecodeEthGas(price, limit)
         IN  /\ d.v2 <=> TakenForSecond(price, limit)
             /\ ~d.v2 => d.tip = 0
             /\ d.v2 => /\ d.gasLimit = e.gasLimit /\ d.storageLimit = e.storageLimit
                        /\ d.validUntil = e.validUntil /\ d.tip = e.tip
<1> DEFINE v == CalcSubstrateTransactionParams(price, limit)
           e == DecodeEthGas(price, limit)
           d == GetSubstrateGasParams([type |-> 0, price |-> price, limit |-> limit])
           pays == EntryDeposit * (price % EntryRange)
           first == v.gasLimit >= 0 /\ v.validUntil >= 0
<1>1. EntryRange \in Nat \ {0} /\ TxFeePerGas \in Nat \ {0} /\ StorageByteDeposit \in Nat
  BY GasCodecAssumption
<1>2. pays \in Int
  <2>1. EntryDeposit \in Int
    BY <1>1, DivFacts DEF EntryDeposit
  <2>2. price % EntryRange \in Nat
    BY <1>1, DivFacts
  <2>3. QED
    BY <2>1, <2>2, Z3
<1>3. v.gasLimit = limit - pays
  BY DEF CalcSubstrateTransactionParams
<1>4. v.validUntil \in Int
  <2>1. price - (price % EntryRange) - TxFeePerGas \in Int
    BY <1>1, DivFacts
  <2>2. (price - (price % EntryRange) - TxFeePerGas) \div EntryRange \in Int
    BY <1>1, <2>1, DivFacts
  <2>3. QED
    BY <2>2 DEF CalcSubstrateTransactionParams
<1>5. v.validUntil >= 0 <=> price >= TxFeePerGas
  <2>1. price < TxFeePerGas => v.validUntil < 0
    BY CheapIsSecond
  <2>2. price >= TxFeePerGas => v.validUntil >= 0
    BY DearIsFirst
  <2> HIDE DEF v
  <2>3. QED
    BY <1>1, <1>4, <2>1, <2>2
<1>6. first <=> ~TakenForSecond(price, limit)
  <2>1. TakenForSecond(price, limit) <=> (price < TxFeePerGas \/ limit < pays)
    BY DEF TakenForSecond
  <2> HIDE DEF v, pays
  <2>2. QED
    BY <1>1, <1>2, <1>3, <1>5, <2>1
<1>7. d = IF first
          THEN [gasLimit |-> v.gasLimit, storageLimit |-> v.storageLimit,
                validUntil |-> v.validUntil, tip |-> 0, v2 |-> FALSE]
          ELSE [gasLimit |-> e.gasLimit, storageLimit |-> e.storageLimit,
                validUntil |-> e.validUntil, tip |-> e.tip, v2 |-> TRUE]
  BY DEF GetSubstrateGasParams
<1> HIDE DEF v, e, d, first
<1>8. QED
  BY <1>6, <1>7 DEF d, e

(* What a limit of encodeGasLimit is read as. *)
LEMMA LimitReads ==
  ASSUME NEW raw \in Nat, NEW gas \in Nat, NEW storage \in Nat, storage <= Pow(22),
         NEW transfer \in BOOLEAN, NEW limit, NEW chunks, NEW price,
         limit = EncodeGasLimit(raw, gas, storage, transfer),
         chunks = EncodedChunks(gas, transfer)
  PROVE  LET d == DecodeEthGas(price, limit)
             r == DecodeEthGas(price, (limit * 3) \div 2)
         IN  /\ limit \in Nat /\ limit + GasMask > raw
             /\ d.gasLimit = (chunks % 1000) * GasLimitChunk
             /\ d.storageLimit >= storage /\ d.storageLimit < 2 * Larger(storage, 1)
             /\ transfer /\ chunks <= 333 =>
                  /\ r.gasLimit \in Nat /\ r.gasLimit >= chunks * GasLimitChunk
                  /\ r.storageLimit >= storage
<1> DEFINE a == IF raw > GasMask THEN raw \div GasMask ELSE 1
           c == IF storage > 0 THEN CeilLog2(storage) ELSE 0
<1>1. limit = a * GasMask + chunks * StorageMask + c
  BY Z3 DEF EncodeGasLimit
<1>2. a \in Nat /\ a * GasMask + GasMask > raw
  BY SMT DEF GasMask
<1>3. /\ c \in Nat /\ c <= 22 /\ Pow(c) \in Nat
      /\ storage <= Pow(c) /\ Pow(c) < 2 * Larger(storage, 1)
  <2>1. CASE storage > 0
    <3>1. storage \in 1 .. Pow(22) /\ c = CeilLog2(storage) /\ Larger(storage, 1) = storage
      BY <2>1, PowEnds, SMT DEF Larger
    <3>2. c \in 0 .. 22 /\ storage <= Pow(c) /\ Pow(c) < 2 * storage
      BY <3>1, LogFits
    <3>3. QED
      BY <3>1, <3>2, PowNat, SMT
  <2>2. CASE storage = 0
    BY <2>2, PowEnds, SMT DEF Larger
  <2>3. QED
    BY <2>1, <2>2, SMT
<1>4. chunks \in Nat /\ (transfer => \E k \in Nat : chunks = 10 * k)
  BY ChunksFit
<1> HIDE DEF a, c
<1>5. /\ limit \in Nat /\ (limit % GasMask) \div StorageMask = chunks % 1000
      /\ (limit % GasMask) % StorageMask = c
  BY <1>1, <1>2, <1>3, <1>4, DigitsOfLimit
<1>6. limit + GasMask > raw
  BY <1>1, <1>2, <1>3, <1>4, SMT DEF GasMask, StorageMask
<1>7. /\ DecodeEthGas(price, limit).gasLimit = (chunks % 1000) * GasLimitChunk
      /\ DecodeEthGas(price, limit).storageLimit = Pow(c)
  <2>1. Smaller(c, MaxGasLimitCC) = c
    BY <1>3, SMT DEF Smaller, MaxGasLimitCC
  <2>2. QED
    BY <1>5, <2>1 DEF DecodeEthGas, Pow
<1>8. ASSUME transfer, chunks <= 333
      PROVE  /\ DecodeEthGas(price, (limit * 3) \div 2).gasLimit \in Nat
             /\ DecodeEthGas(price, (limit * 3) \div 2).gasLimit >= chunks * GasLimitChunk
             /\ DecodeEthGas(price, (limit * 3) \div 2).storageLimit >= storage
  <2>1. PICK k \in Nat : chunks = 10 * k
    BY <1>4, <1>8
  <2>2. k <= 33 /\ limit = a * GasMask + 10 * k * StorageMask + c
    <3>1. k <= 33
      <4>1. \A j \in Nat : 10 * j <= 333 => j <= 33
        BY SMT
      <4>2. 10 * k <= 333
        BY <1>8, <2>1
      <4>3. QED
        BY <4>1, <4>2
    <3>2. chunks * StorageMask = 10 * k * StorageMask
      BY <2>1
    <3>3. QED
      BY <1>1, <3>1, <3>2
  <2> DEFINE low == ((limit * 3) \div 2) % GasMask
  <2>3. low \div StorageMask >= 10 * k /\ low % StorageMask >= c /\ low % StorageMask < 100
    BY <1>2, <1>3, <2>2, DigitsRaised
  <2>4. low \div StorageMask \in Nat /\ low % StorageMask \in Nat
    BY <1>5, SMT DEF GasMask, StorageMask
  <2>5. /\ DecodeEthGas(price, (limit * 3) \div 2).gasLimit = (low \div StorageMask) * GasLimitChunk
        /\ DecodeEthGas(price, (limit * 3) \div 2).storageLimit
              = Pow(Smaller(low % StorageMask, MaxGasLimitCC))
    BY DEF DecodeEthGas, Pow
  <2> HIDE DEF low
  <2>6. /\ (low \div StorageMask) * GasLimitChunk \in Nat
        /\ (low \div StorageMask) * GasLimitChunk >= chunks * GasLimitChunk
    BY <2>1, <2>3, <2>4, SMT DEF GasLimitChunk
  <2>7. /\ Pow(Smaller(low % StorageMask, MaxGasLimitCC)) \in Nat
        /\ Pow(Smaller(low % StorageMask, MaxGasLimitCC)) >= Pow(c)
    <3> DEFINE cc == Smaller(low % StorageMask, MaxGasLimitCC)
    <3>1. cc \in 0 .. 30 /\ c \in 0 .. 30 /\ c <= cc
      BY <1>3, <2>3, <2>4, SMT DEF Smaller, MaxGasLimitCC
    <3> HIDE DEF cc
    <3>2. Pow(cc) \in Nat /\ Pow(c) \in Nat /\ Pow(c) <= Pow(cc)
      BY <3>1, PowGrows, PowNat, SMT
    <3>3. QED
      BY <3>2, SMT DEF cc
  <2>8. QED
    BY <1>3, <2>5, <2>6, <2>7, SMT
<1>9. QED
  BY <1>3, <1>5, <1>6, <1>7, <1>8, SMT

(* Encoded the second way and read back, nothing given is lost. *)
LEMMA EncodingIsCovered ==
  ASSUME NEW raw \in Nat, NEW gas \in Nat, NEW storage \in Nat, storage <= Pow(22),
         NEW transfer \in BOOLEAN, NEW tip \in Nat,
         NEW validUntil \in Nat, validUntil < TenGwei, validUntil <= MaxValidUntil
  PROVE  EncodingCovers(raw, gas, storage, transfer, tip, validUntil)
<1> DEFINE limit == EncodeGasLimit(raw, gas, storage, transfer)
           price == OneHundredGwei + tip * TenGwei + validUntil
           chunks == EncodedChunks(gas, transfer)
           e == DecodeEthGas(price, limit)
           d == GetSubstrateGasParams([type |-> 0, price |-> price, limit |-> limit])
           r == DecodeEthGas(price, (limit * 3) \div 2)
           tenths == IF transfer THEN 11 ELSE 1
<1>1. /\ limit \in Nat /\ limit + GasMask > raw
      /\ e.gasLimit = (chunks % 1000) * GasLimitChunk
      /\ e.storageLimit >= storage /\ e.storageLimit < 2 * Larger(storage, 1)
      /\ transfer /\ chunks <= 333 =>
           /\ r.gasLimit \in Nat /\ r.gasLimit >= chunks * GasLimitChunk
           /\ r.storageLimit >= storage
  BY LimitReads
<1>2. /\ chunks \in Nat /\ chunks * GasLimitChunk >= gas
      /\ chunks * GasLimitChunk <= gas + tenths * GasLimitChunk
      /\ (chunks % 1000) * GasLimitChunk >= gas <=> chunks < 1000
  BY ChunksFit
<1>3. TenGwei \in Nat \ {0} /\ MaxValidUntil \in Nat
  BY GasCodecAssumption
<1>4. /\ price \in Nat /\ price \div TenGwei = 10 + tip
      /\ price - tip * TenGwei - OneHundredGwei = validUntil
  BY <1>3, PriceReads
<1>5. e.tip = tip /\ e.validUntil = validUntil
  <2>1. Larger((10 + tip) - 10, 0) = tip
    BY SMT DEF Larger
  <2>2. Smaller(validUntil, MaxValidUntil) = validUntil
    BY <1>3 DEF Smaller
  <2>3. Larger(price \div TenGwei - 10, 0) = tip
    BY <1>4, <2>1
  <2>4. e.tip = Larger(price \div TenGwei - 10, 0)
    BY DEF DecodeEthGas
  <2>5. e.validUntil = Smaller(price - Larger(price \div TenGwei - 10, 0) * TenGwei - OneHundredGwei,
                               MaxValidUntil)
    BY DEF DecodeEthGas
  <2> HIDE DEF price, e
  <2>6. QED
    BY <1>4, <2>2, <2>3, <2>4, <2>5
<1>6. /\ d.v2 <=> TakenForSecond(price, limit)
      /\ ~d.v2 => d.tip = 0
      /\ d.v2 => /\ d.gasLimit = e.gasLimit /\ d.storageLimit = e.storageLimit
                 /\ d.validUntil = e.validUntil /\ d.tip = e.tip
  <2>1. limit \in Nat /\ price \in Nat
    BY <1>1, <1>4
  <2> HIDE DEF limit, price
  <2>2. QED
    BY <2>1, WhichReads, Zenon
<1> HIDE DEF limit, price, chunks, e, d, r, tenths
<1>7. d.v2 =>
        /\ d.tip = tip /\ d.validUntil = validUntil
        /\ d.storageLimit >= storage /\ d.storageLimit < 2 * Larger(storage, 1)
        /\ d.gasLimit >= gas <=> chunks < 1000
        /\ chunks < 1000 => d.gasLimit <= gas + tenths * GasLimitChunk
  <2> SUFFICES ASSUME d.v2
               PROVE  /\ d.tip = tip /\ d.validUntil = validUntil
                      /\ d.storageLimit >= storage /\ d.storageLimit < 2 * Larger(storage, 1)
                      /\ d.gasLimit >= gas <=> chunks < 1000
                      /\ chunks < 1000 => d.gasLimit <= gas + tenths * GasLimitChunk
    OBVIOUS
  <2>1. d.gasLimit >= gas <=> chunks < 1000
    BY <1>1, <1>2, <1>6
  <2>2. chunks < 1000 => chunks % 1000 = chunks
    BY <1>2, SMT
  <2>3. chunks < 1000 => d.gasLimit <= gas + tenths * GasLimitChunk
    BY <1>1, <1>2, <1>6, <2>2
  <2>4. QED
    BY <1>1, <1>5, <1>6, <2>1, <2>3
<1>8. ASSUME transfer, chunks <= 333 PROVE r.gasLimit >= gas /\ r.storageLimit >= storage
  <2>1. /\ r.gasLimit \in Nat /\ r.gasLimit >= chunks * GasLimitChunk
        /\ r.storageLimit >= storage
    BY <1>1, <1>8
  <2>2. chunks * GasLimitChunk \in Nat
    BY <1>2, SMT DEF GasLimitChunk
  <2>3. QED
    BY <1>2, <2>1, <2>2
<1>9. QED
  BY <1>1, <1>6, <1>7, <1>8 DEF EncodingCovers, Covers, limit, price, chunks, d, r, tenths

(* Rounding up loses nothing and adds less than the unit. *)
LEMMA RoundedUp ==
  ASSUME NEW x \in Nat, NEW y \in Nat \ {0}
  PROVE  /\ DivRoundUp(x, y) \in Nat
         /\ DivRoundUp(x, y) * y >= x /\ DivRoundUp(x, y) * y < x + y
<1> DEFINE q == x \div y
           r == x % y
<1>1. q \in Int /\ r \in Nat /\ r < y /\ x = y * q + r
  BY DivFacts
<1>2. DivRoundUp(x, y) = q + (IF r > 0 THEN 1 ELSE 0)
  BY DEF DivRoundUp
<1> HIDE DEF q, r
<1>3. q \in Nat
  <2>1. q <= -1 => y * q <= 0 - y
    <3>1. SUFFICES ASSUME q <= -1 PROVE y * q <= 0 - y
      OBVIOUS
    <3>2. y * (0 - 1 - q) >= 0 /\ y * q = 0 - y - y * (0 - 1 - q)
      BY <1>1, <3>1, Z3
    <3>3. QED
      BY <1>1, <3>2, Z3
  <2>2. QED
    BY <1>1, <2>1, Z3
<1>4. CASE r > 0
  <2>1. (q + 1) * y = y * q + y
    BY <1>3, Z3
  <2>2. y * q \in Nat
    BY <1>3, Z3
  <2>3. QED
    BY <1>1, <1>2, <1>3, <1>4, <2>1, <2>2, Z3
<1>5. CASE r = 0
  <2>1. q * y = y * q /\ y * q \in Nat
    BY <1>3, Z3
  <2>2. QED
    BY <1>1, <1>2, <1>3, <1>5, <2>1, Z3
<1>6. QED
  BY <1>1, <1>4, <1>5

(* Nor is it the first way, which is then read as the first one. *)
LEMMA NativeIsCovered ==
  ASSUME NEW gas \in Nat, NEW storage \in Nat, storage <= 64 * (EntryRange - 1),
         NEW validUntil \in Nat
  PROVE  NativeCovers(gas, storage, validUntil)
<1> DEFINE entries == DivRoundUp(storage, 64)
           periods == DivRoundUp(validUntil, 30)
           deposit == EntryDeposit
           price == TxFeePerGas + periods * EntryRange + entries
           limit == deposit * entries + gas
<1>1. EntryRange \in Nat \ {0} /\ TxFeePerGas \in Nat \ {0} /\ StorageByteDeposit \in Nat
  BY GasCodecAssumption
<1>2. /\ entries \in Nat /\ entries * 64 >= storage /\ entries * 64 < storage + 64
      /\ periods \in Nat /\ periods * 30 >= validUntil /\ periods * 30 < validUntil + 30
  <2>1. 64 \in Nat \ {0} /\ 30 \in Nat \ {0}
    OBVIOUS
  <2>2. entries \in Nat /\ entries * 64 >= storage /\ entries * 64 < storage + 64
    BY <2>1, RoundedUp, Zenon
  <2>3. periods \in Nat /\ periods * 30 >= validUntil /\ periods * 30 < validUntil + 30
    BY <2>1, RoundedUp, Zenon
  <2>4. QED
    BY <2>2, <2>3
<1>3. deposit \in Int
  BY <1>1, DivFacts DEF EntryDeposit
<1>4. CalcEthereumTransactionParams(gas, storage, validUntil) = [price |-> price, limit |-> limit]
  BY DEF CalcEthereumTransactionParams
<1> HIDE DEF entries, periods, deposit
<1>5. entries < EntryRange
  BY <1>1, <1>2, SMT
<1>6. PICK fee \in Int : TxFeePerGas = EntryRange * fee
  <2>1. /\ TxFeePerGas \div EntryRange \in Int
        /\ TxFeePerGas = EntryRange * (TxFeePerGas \div EntryRange) + (TxFeePerGas % EntryRange)
    BY <1>1, DivFacts
  <2>2. TxFeePerGas % EntryRange = 0
    BY GasCodecAssumption
  <2>3. TxFeePerGas = EntryRange * (TxFeePerGas \div EntryRange)
    BY <1>1, <2>1, <2>2, Z3
  <2>4. QED
    BY <2>1, <2>3
<1>7. price % EntryRange = entries
  <2>1. price = EntryRange * (fee + periods) + entries
    BY <1>1, <1>2, <1>6, Z3
  <2>2. QED
    BY <1>1, <1>2, <1>5, <2>1, DivMultiple
<1>8. (price - entries - TxFeePerGas) \div EntryRange = periods
  <2>1. price - entries - TxFeePerGas = EntryRange * periods + 0
    BY <1>1, <1>2, Z3
  <2>2. QED
    BY <1>1, <1>2, <2>1, DivMultiple
<1>9. limit - deposit * entries = gas
  BY <1>2, <1>3, Z3
<1>10. CalcSubstrateTransactionParams(price, limit) =
         [gasLimit |-> gas, storageLimit |-> entries * 64, validUntil |-> periods * 30]
  BY <1>7, <1>8, <1>9 DEF CalcSubstrateTransactionParams, deposit
<1> HIDE DEF price, limit
<1>11. GetSubstrateGasParams([type |-> 0, price |-> price, limit |-> limit]) =
         [gasLimit |-> gas, storageLimit |-> entries * 64, validUntil |-> periods * 30,
          tip |-> 0, v2 |-> FALSE]
  <2> DEFINE tx == [type |-> 0, price |-> price, limit |-> limit]
             v == CalcSubstrateTransactionParams(tx.price, tx.limit)
  <2>1. gas >= 0 /\ periods * 30 >= 0
    BY <1>2, SMT
  <2>2. tx.type = 0 /\ tx.type # 96 /\ tx.type \in {0, 1}
    OBVIOUS
  <2>3. tx.price = price /\ tx.limit = limit
    OBVIOUS
  <2>4. v.gasLimit = gas /\ v.storageLimit = entries * 64 /\ v.validUntil = periods * 30
    BY <1>10, <2>3
  <2>5. GetSubstrateGasParams(tx) =
          IF v.gasLimit >= 0 /\ v.validUntil >= 0
          THEN [gasLimit |-> v.gasLimit, storageLimit |-> v.storageLimit,
                validUntil |-> v.validUntil, tip |-> 0, v2 |-> FALSE]
          ELSE [gasLimit |-> DecodeEthGas(tx.price, tx.limit).gasLimit,
                storageLimit |-> DecodeEthGas(tx.price, tx.limit).storageLimit,
                validUntil |-> DecodeEthGas(tx.price, tx.limit).validUntil,
                tip |-> DecodeEthGas(tx.price, tx.limit).tip, v2 |-> TRUE]
    <3> HIDE DEF tx
    <3>1. QED
      BY <2>2 DEF GetSubstrateGasParams
  <2> HIDE DEF v
  <2>6. QED
    BY <2>1, <2>4, <2>5
<1>12. entries * 64 \in storage .. storage + 63 /\ periods * 30 \in validUntil .. validUntil + 29
  BY <1>2, SMT
<1>13. QED
  BY <1>4, <1>11, <1>12 DEF NativeCovers

(* The storage an answer is encoded with fits the logarithm's two digits. *)
LEMMA SafeStorageFits ==
  ASSUME est \in EstimateState, WithinBlock
  PROVE  SafeStorage \in Nat /\ SafeStorage <= Pow(22)
<1> DEFINE s == Larger(est.storage, 0)
<1>1. s \in Nat /\ s <= BlockStorageLimit
  BY DEF EstimateState, WithinBlock, Larger, BlockStorageLimit
<1>2. SafeStorage = IF est.data THEN ((s + 64) * 11) \div 10 ELSE s
  BY DEF SafeStorage
<1> HIDE DEF s
<1>3. s \in Nat /\ s <= 4194304
  BY <1>1, SMT DEF BlockStorageLimit
<1>4. ((s + 64) * 11) \div 10 \in Nat /\ ((s + 64) * 11) \div 10 <= 4194304
  BY <1>1, SMT DEF BlockStorageLimit
<1>5. QED
  BY <1>2, <1>3, <1>4, PowEnds

(* What a wallet is told covers what was estimated, for every gas, storage,*)
(* tip and lifetime.  The first encoding of transactionHelper.ts is read as*)
(* what it is and gives back no less.  So does the second one, below       *)
(* TxFeePerGas and where the limit does not pay for the entries its price  *)
(* seems to have, and it is exactly from a thousand chunks of gas on that  *)
(* less is decoded; any other transaction of the second encoding is taken  *)
(* for one of the first, and loses its tip.                                *)
THEOREM CodecIsCovered == Spec => []CodecCovers
<1>1. EstimateInv /\ WithinBlock /\ JobGiven => CodecCovers
  <2> SUFFICES ASSUME EstimateInv, WithinBlock, JobGiven PROVE CodecCovers
    OBVIOUS
  <2>1. ASSUME job.kind = "gas"
        PROVE  EncodingCovers(job.in.raw, job.in.gas, job.in.storage, job.in.transfer,
                              job.in.tip, job.in.validUntil)
    <3> DEFINE in == job.in
    <3>1. /\ in.gas \in Nat /\ in.raw \in Nat /\ in.transfer \in BOOLEAN /\ in.tip \in Nat
          /\ in.storage \in 0 .. 2^MaxGasLimitCC
          /\ in.validUntil \in 0 .. Smaller(TenGwei - 1, MaxValidUntil)
      BY <2>1, GasJobsAssumption DEF JobGiven
    <3> HIDE DEF in
    <3>2. 2^MaxGasLimitCC = Pow(22)
      BY DEF Pow, MaxGasLimitCC
    <3>3. Pow(22) \in Nat /\ TenGwei \in Nat /\ MaxValidUntil \in Nat
      BY PowEnds, GasCodecAssumption
    <3>4. in.storage \in Nat /\ in.storage <= Pow(22)
      BY <3>1, <3>2, <3>3
    <3>5. in.validUntil \in Nat /\ in.validUntil < TenGwei /\ in.validUntil <= MaxValidUntil
      BY <3>1, <3>3 DEF Smaller
    <3>6. EncodingCovers(in.raw, in.gas, in.storage, in.transfer, in.tip, in.validUntil)
      BY <3>1, <3>4, <3>5, EncodingIsCovered
    <3>7. QED
      BY <3>6 DEF in
  <2>2. ASSUME job.kind = "native"
        PROVE  NativeCovers(job.in.gas, job.in.storage, job.in.validUntil)
    <3>1. /\ job.in.gas \in Nat /\ job.in.validUntil \in Nat
          /\ job.in.storage \in 0 .. 64 * (EntryRange - 1)
      BY <2>2, GasJobsAssumption DEF JobGiven
    <3>2. job.in.storage \in Nat /\ job.in.storage <= 64 * (EntryRange - 1)
      BY <3>1, GasCodecAssumption
    <3>3. QED
      BY <3>1, <3>2, NativeIsCovered
  <2>3. ASSUME est.pc = "done", NEW transfer \in BOOLEAN
        PROVE  EncodingCovers(0, est.limit, SafeStorage, transfer, 0, 200)
    <3>1. est.limit \in Nat /\ SafeStorage \in Nat /\ SafeStorage <= Pow(22)
      BY SafeStorageFits DEF EstimateInv, EstimateState
    <3>2. 0 \in Nat /\ 200 \in Nat /\ 200 < TenGwei /\ 200 <= MaxValidUntil
      BY GasJobsAssumption
    <3>3. QED
      BY <3>1, <3>2, EncodingIsCovered
  <2>4. QED
    BY <2>1, <2>2, <2>3 DEF CodecCovers
<1>2. QED
  BY <1>1, EstimateInvariant, StorageWithinBlock, JobIsGiven, PTL

-----------------------------------------------------------------------------
(* What is signed is no failure to sign. *)
LEMMA PayloadIsNoThrow ==
  ASSUME NEW tx, {tx.salt, tx.chainId} \cap Falsy = {}, tx.nonce # Absent
  PROVE  CreateTransactionPayload(tx) # Throws
<1> DEFINE p == CreateTransactionPayload(tx)
<1>1. "nonce" \in DOMAIN p
  BY DEF CreateTransactionPayload
<1>2. "nonce" \notin DOMAIN Throws
  BY DEF Throws
<1>3. QED
  BY <1>1, <1>2

(* A number that is written and parsed is the same number, however it was *)
(* given, and is written the same again.                                   *)
LEMMA NumberKept ==
  ASSUME NEW n \in Forms, NEW d \in {Zero, MaxU32}
  PROVE  LET m == HandleNumber(FormatNumber(n, d))
         IN  /\ NumberOr(m, d) = NumberOr(n, d)
             /\ FormatNumber(m, d) = FormatNumber(n, d)
BY DEF Forms, HandleNumber, FormatNumber, NumberOr, Falsy, Absent, Empty, BigZero, Some, Zero, MaxU32

LEMMA PlainKept ==
  ASSUME NEW n \in Forms
  PROVE  LET m == PlainNumber(FormatNumber(n, Zero))
         IN  /\ m \in {Empty, Some}
             /\ m = Empty <=> n # Some
             /\ NumberOr(m, Zero) = NumberOr(n, Zero)
             /\ FormatNumber(m, Zero) = FormatNumber(n, Zero)
BY DEF Forms, PlainNumber, FormatNumber, NumberOr, Falsy, Absent, Empty, BigZero, Some, Zero

(* The hash and the sender are not among what is signed or serialized. *)
Stamped(u, hash, from) == [u EXCEPT !.hash = hash, !.from = from]

LEMMA AddedIsNotSigned ==
  ASSUME NEW f, NEW hash, NEW from
  PROVE  LET u == ParseFields(f)
             p == Stamped(u, hash, from)
         IN  /\ u # Throws /\ p # Throws /\ p.hash = hash /\ p.from = from /\ p.type = "96"
             /\ CreateTransactionPayload(p) = CreateTransactionPayload(u)
             /\ \A sig : SerializeEip712(p, sig) = SerializeEip712(u, sig)
<1> DEFINE u == ParseFields(f)
           p == Stamped(u, hash, from)
<1>1. "hash" \in DOMAIN u /\ "hash" \in DOMAIN p /\ "hash" \notin DOMAIN Throws
  BY DEF ParseFields, Stamped, Throws
<1>2. /\ p.hash = hash /\ p.from = from /\ p.type = "96"
      /\ p.chainId = u.chainId /\ p.salt = u.salt /\ p.nonce = u.nonce /\ p.gasLimit = u.gasLimit
      /\ p.storageLimit = u.storageLimit /\ p.to = u.to /\ p.value = u.value /\ p.data = u.data
      /\ p.validUntil = u.validUntil /\ p.tip = u.tip /\ p.accessList = u.accessList
      /\ p.action = u.action
  BY DEF ParseFields, Stamped
<1> HIDE DEF p, u
<1>3. CreateTransactionPayload(p) = CreateTransactionPayload(u)
  BY <1>2, Zenon DEF CreateTransactionPayload
<1>4. \A sig : SerializeEip712(p, sig) = SerializeEip712(u, sig)
  BY <1>2, Zenon DEF SerializeEip712
<1>5. QED
  BY <1>1, <1>2, <1>3, <1>4 DEF p, u

(* What is parsed serializes to the same bytes, and to sign it is to sign  *)
(* what was serialized, unless "action" said otherwise.                    *)
LEMMA ParsedKeeps ==
  ASSUME NEW tx \in TxRecord, NEW sig, tx.to # Empty, CreateTransactionPayload(tx) # Throws
  PROVE  LET raw == SerializeEip712(tx, sig)
             u == ParseFields(raw.fields)
         IN  /\ raw.first = "96" /\ raw.sig = sig /\ u.type = "96"
             /\ SerializeEip712(u, sig) = raw
             /\ CreateTransactionPayload(u) = Throws <=> tx.chainId = BigZero
             /\ tx.chainId # BigZero =>
                  (CreateTransactionPayload(u) = CreateTransactionPayload(tx) <=> ActionAgrees(tx))

<1> DEFINE raw == SerializeEip712(tx, sig)
           f == raw.fields
           u == ParseFields(f)
<1>1. /\ tx.chainId \in Forms /\ tx.salt \in {Absent, Empty, Some} /\ tx.nonce \in Forms
      /\ tx.gasLimit \in Forms /\ tx.storageLimit \in Forms /\ tx.to \in {Absent, Empty, Some}
      /\ tx.value \in Forms /\ tx.data \in {Absent, Empty, "0x", Some} /\ tx.validUntil \in Forms
      /\ tx.tip \in Forms /\ tx.accessList \in {Absent, Empty, Some}
      /\ tx.action \in {Absent, "Call", "Create"}
  BY DEF TxRecord
<1>2. /\ tx.salt = Some /\ tx.nonce # Absent /\ tx.chainId \in {BigZero, Some}
  BY <1>1 DEF CreateTransactionPayload, Falsy, Forms
<1>3. tx.to \in {Absent, Some} /\ tx.to \notin {Empty, BigZero}
  BY <1>1 DEF Absent, Empty, BigZero, Some
<1>4. /\ f.chainId = FormatNumber(tx.chainId, Zero) /\ f.salt = Some
      /\ f.nonce = FormatNumber(tx.nonce, Zero) /\ f.gasLimit = FormatNumber(tx.gasLimit, Zero)
      /\ f.storageLimit = FormatNumber(tx.storageLimit, Zero)
      /\ f.to = (IF tx.to = Absent THEN "0x" ELSE tx.to)
      /\ f.value = FormatNumber(tx.value, Zero)
      /\ f.data = (IF tx.data \in Falsy THEN "0x" ELSE tx.data)
      /\ f.validUntil = FormatNumber(tx.validUntil, MaxU32) /\ f.tip = FormatNumber(tx.tip, Zero)
      /\ f.accessList = (IF tx.accessList \in Falsy THEN Empty ELSE tx.accessList)
  BY <1>2, <1>3 DEF SerializeEip712, Falsy, Absent, Empty, Some
<1>5. raw.first = "96" /\ raw.sig = sig
  BY <1>3 DEF SerializeEip712
<1> HIDE DEF raw, f
<1>6. /\ u.type = "96" /\ u.salt = Some /\ u.to = tx.to /\ u.data = f.data
      /\ u.data \notin Falsy /\ u.action = Absent
      /\ u.accessList = f.accessList /\ u.accessList \in {Empty, Some}
  BY <1>1, <1>3, <1>4 DEF ParseFields, HandleAddress, Falsy, Absent, Empty, Some
<1>7. /\ u.chainId \in {Empty, Some} /\ (u.chainId = Empty <=> tx.chainId # Some)
      /\ NumberOr(u.chainId, Zero) = NumberOr(tx.chainId, Zero)
      /\ FormatNumber(u.chainId, Zero) = f.chainId
      /\ u.nonce \in {Empty, Some} /\ (u.nonce = Empty <=> tx.nonce # Some)
      /\ FormatNumber(u.nonce, Zero) = f.nonce
  BY <1>1, <1>4, PlainKept DEF ParseFields
<1>8. /\ NumberOr(u.gasLimit, Zero) = NumberOr(tx.gasLimit, Zero)
      /\ FormatNumber(u.gasLimit, Zero) = f.gasLimit
      /\ NumberOr(u.storageLimit, Zero) = NumberOr(tx.storageLimit, Zero)
      /\ FormatNumber(u.storageLimit, Zero) = f.storageLimit
      /\ NumberOr(u.value, Zero) = NumberOr(tx.value, Zero)
      /\ FormatNumber(u.value, Zero) = f.value
      /\ NumberOr(u.validUntil, MaxU32) = NumberOr(tx.validUntil, MaxU32)
      /\ FormatNumber(u.validUntil, MaxU32) = f.validUntil
      /\ NumberOr(u.tip, Zero) = NumberOr(tx.tip, Zero)
      /\ FormatNumber(u.tip, Zero) = f.tip
  BY <1>1, <1>4, NumberKept DEF ParseFields
<1> HIDE DEF u
<1>9. SerializeEip712(u, sig) = raw
  <2>1. /\ (IF u.salt \in Falsy THEN "0x" ELSE u.salt) = (IF tx.salt \in Falsy THEN "0x" ELSE tx.salt)
        /\ (IF u.to = Absent THEN "0x" ELSE u.to) = (IF tx.to = Absent THEN "0x" ELSE tx.to)
        /\ (IF u.data \in Falsy THEN "0x" ELSE u.data) = (IF tx.data \in Falsy THEN "0x" ELSE tx.data)
        /\ (IF u.accessList \in Falsy THEN Empty ELSE u.accessList) =
             (IF tx.accessList \in Falsy THEN Empty ELSE tx.accessList)
    BY <1>2, <1>4, <1>6 DEF Falsy, Absent, Empty, Some
  <2>2. u.to \notin {Empty, BigZero}
    BY <1>3, <1>6
  <2>3. QED
    BY <1>3, <1>4, <1>7, <1>8, <2>1, <2>2, Zenon DEF SerializeEip712, raw
<1>10. CreateTransactionPayload(u) = Throws <=> tx.chainId = BigZero
  <2>1. u.nonce # Absent /\ u.salt \notin Falsy
    BY <1>6, <1>7 DEF Falsy, Absent, Empty, Some
  <2>2. u.chainId \in Falsy <=> tx.chainId = BigZero
    BY <1>2, <1>7 DEF Falsy, Absent, Empty, BigZero, Some
  <2>3. CASE u.chainId \in Falsy
    BY <2>2, <2>3 DEF CreateTransactionPayload
  <2>4. CASE u.chainId \notin Falsy
    BY <2>1, <2>2, <2>4, PayloadIsNoThrow
  <2>5. QED
    BY <2>3, <2>4
<1>11. ASSUME tx.chainId # BigZero
       PROVE  CreateTransactionPayload(u) = CreateTransactionPayload(tx) <=> ActionAgrees(tx)
  <2> DEFINE Action(t) == IF t.action # Absent THEN t.action
                          ELSE IF t.to \in Falsy THEN "Create" ELSE "Call"
             Payload(t, action) ==
               [chainId |-> NumberOr(t.chainId, Zero), salt |-> t.salt, action |-> action,
                to |-> NumberOr(t.to, Zero), nonce |-> IF t.nonce = Some THEN Some ELSE Zero,
                tip |-> NumberOr(t.tip, Zero),
                data |-> IF t.data \in Falsy THEN "0x" ELSE t.data,
                value |-> NumberOr(t.value, Zero), gasLimit |-> NumberOr(t.gasLimit, Zero),
                storageLimit |-> NumberOr(t.storageLimit, Zero),
                accessList |-> IF t.accessList = Absent THEN Empty ELSE t.accessList,
                validUntil |-> NumberOr(t.validUntil, MaxU32)]
  <2>1. CreateTransactionPayload(tx) = Payload(tx, Action(tx))
    BY DEF CreateTransactionPayload
  <2>2. CreateTransactionPayload(u) = Payload(u, Action(u))
    BY <1>10, <1>11 DEF CreateTransactionPayload
  <2>3. \A a : Payload(u, a) = Payload(tx, a)
    <3>1. /\ u.salt = tx.salt /\ u.to = tx.to
          /\ (IF u.nonce = Some THEN Some ELSE Zero) = (IF tx.nonce = Some THEN Some ELSE Zero)
          /\ (IF u.data \in Falsy THEN "0x" ELSE u.data) = (IF tx.data \in Falsy THEN "0x" ELSE tx.data)
          /\ (IF u.accessList = Absent THEN Empty ELSE u.accessList) =
               (IF tx.accessList = Absent THEN Empty ELSE tx.accessList)
      BY <1>1, <1>2, <1>4, <1>6, <1>7 DEF Falsy, Absent, Empty, Some
    <3>2. QED
      BY <1>7, <1>8, <3>1, Zenon
  <2>4. \A a, b : Payload(tx, a) = Payload(tx, b) <=> a = b
    <3>1. \A a : Payload(tx, a).action = a
      OBVIOUS
    <3> HIDE DEF Payload
    <3>2. QED
      BY <3>1
  <2>5. Action(u) = (IF tx.to \in Falsy THEN "Create" ELSE "Call")
    BY <1>6
  <2>6. Action(tx) = Action(u) <=> ActionAgrees(tx)
    BY <1>1, <2>5 DEF ActionAgrees, Absent
  <2> HIDE DEF Payload, Action
  <2>7. QED
    BY <2>1, <2>2, <2>3, <2>4, <2>6
<1>12. QED
  BY <1>5, <1>6, <1>9, <1>10, <1>11 DEF raw, f, u

(* Whatever fields a transaction has, its sender is recovered.             *)
LEMMA SenderIsKept ==
  ASSUME NEW tx \in TxRecord, NEW signed \in BOOLEAN
  PROVE  SenderKept(tx, signed)
<1> DEFINE payload == CreateTransactionPayload(tx)
           sig == SignTransaction("alice", tx)
           given == IF signed THEN sig ELSE NoSignature
           raw == SerializeTransaction(tx, given)
           parsed == ParseTransaction(raw)
<1>1. ASSUME sig # Throws
      PROVE  /\ payload # Throws /\ sig = [by |-> "alice", of |-> payload]
             /\ given.by = (IF signed THEN "alice" ELSE Nobody)
             /\ given = NoSignature <=> ~signed
  <2>1. payload # Throws /\ sig = [by |-> "alice", of |-> payload]
    BY <1>1 DEF SignTransaction
  <2>2. NoSignature.by = Nobody /\ [by |-> "alice", of |-> payload].by = "alice"
    BY DEF NoSignature
  <2> HIDE DEF payload, sig
  <2>3. QED
    BY <2>1, <2>2 DEF Nobody
<1>2. ASSUME sig # Throws, raw # Throws, tx.type # "96"
      PROVE  /\ CheckSignatureType(raw) = "unsupported" <=> tx.type = "2"
             /\ signed => parsed.from = "alice"
  <2>1. tx.type \in {Absent, "0", "1", "2"}
    BY <1>2 DEF TxRecord, SerializeTransaction, Absent
  <2>2. CASE tx.type \in {Absent, "0"}
    <3>1. raw = [first |-> "rlp", tx |-> tx, sig |-> given]
      BY <2>2 DEF SerializeTransaction, Absent
    <3>2. parsed = [from |-> given.by] /\ CheckSignatureType(raw) = "Ethereum"
      BY <3>1 DEF ParseTransaction, CheckSignatureType
    <3> HIDE DEF parsed, raw, given
    <3>3. QED
      BY <1>1, <1>2, <2>2, <3>2 DEF Absent
  <2>3. CASE tx.type \in {"1", "2"}
    <3>1. raw = [first |-> tx.type, tx |-> tx, sig |-> given]
      BY <2>3 DEF SerializeTransaction, Absent
    <3>2. /\ parsed = [from |-> given.by]
          /\ CheckSignatureType(raw) = "unsupported" <=> tx.type = "2"
      BY <2>3, <3>1 DEF ParseTransaction, CheckSignatureType
    <3> HIDE DEF parsed, raw, given
    <3>3. QED
      BY <1>1, <1>2, <3>2
  <2>4. QED
    BY <2>1, <2>2, <2>3
<1>3. ASSUME sig # Throws, raw # Throws, tx.type = "96"
      PROVE  IF tx.chainId = BigZero THEN parsed = Throws <=> signed
             ELSE /\ parsed # Throws
                  /\ SerializeTransaction(parsed, raw.sig) = raw
                  /\ CreateTransactionPayload(parsed) = payload <=> ActionAgrees(tx)
                  /\ signed =>
                       /\ parsed.from = "alice" <=> ActionAgrees(tx)
                       /\ parsed.hash = TransactionHash(tx) <=> ActionAgrees(tx)
  <2> DEFINE u == ParseFields(raw.fields)
             hash == TransactionHash(u)
             from == VerifyTransaction(u, given)
  <2>1. raw = SerializeEip712(tx, given)
    BY <1>3 DEF SerializeTransaction, Absent
  <2>2. /\ payload # Throws /\ (given = NoSignature <=> ~signed)
        /\ signed => given = [by |-> "alice", of |-> payload]
    BY <1>1, <1>3
  <2> HIDE DEF raw, given
  <2>3. tx.to # Empty
    BY <1>3, <2>1 DEF SerializeEip712
  <2>4. /\ raw.first = "96" /\ raw.sig = given /\ u.type = "96"
        /\ SerializeEip712(u, given) = raw
        /\ CreateTransactionPayload(u) = Throws <=> tx.chainId = BigZero
        /\ tx.chainId # BigZero =>
             (CreateTransactionPayload(u) = payload <=> ActionAgrees(tx))
    BY <2>1, <2>2, <2>3, ParsedKeeps, Zenon
  <2>5. parsed = IF ~signed THEN u
                 ELSE IF tx.chainId = BigZero THEN Throws
                 ELSE Stamped(u, hash, from)
    <3>1. parsed = ParseEip712(raw)
      BY <2>4 DEF ParseTransaction
    <3> HIDE DEF parsed
    <3>2. QED
      BY <2>2, <2>4, <3>1, Zenon DEF ParseEip712, Stamped
  <2>6. /\ u # Throws
        /\ \A p : p = u \/ p = Stamped(u, hash, from) =>
             /\ p # Throws /\ p.type = "96"
             /\ CreateTransactionPayload(p) = CreateTransactionPayload(u)
             /\ SerializeEip712(p, given) = raw
        /\ Stamped(u, hash, from).hash = hash
        /\ Stamped(u, hash, from).from = from
    <3> HIDE DEF hash, from
    <3> DEFINE q == Stamped(u, hash, from)
    <3>1. /\ u # Throws /\ q # Throws /\ q.hash = hash /\ q.from = from /\ q.type = "96"
          /\ CreateTransactionPayload(q) = CreateTransactionPayload(u)
          /\ SerializeEip712(q, given) = SerializeEip712(u, given)
      BY AddedIsNotSigned
    <3> HIDE DEF u, q
    <3>2. ASSUME NEW p, p = u \/ p = q
          PROVE  /\ p # Throws /\ p.type = "96"
                 /\ CreateTransactionPayload(p) = CreateTransactionPayload(u)
                 /\ SerializeEip712(p, given) = raw
      BY <2>4, <3>1, <3>2
    <3>3. QED
      BY <3>1, <3>2 DEF q
  <2>7. hash = CreateTransactionPayload(u)
    BY DEF TransactionHash
  <2>8. signed => from = (IF CreateTransactionPayload(u) = payload THEN "alice" ELSE Nobody)
    BY <2>2 DEF VerifyTransaction
  <2> HIDE DEF parsed, u, hash, from, payload
  <2>9. CASE tx.chainId = BigZero
    BY <2>5, <2>6, <2>9
  <2>10. CASE tx.chainId # BigZero
    <3>1. parsed = u \/ parsed = Stamped(u, hash, from)
      BY <2>5, <2>10
    <3>2. /\ parsed # Throws /\ parsed.type = "96" /\ SerializeEip712(parsed, given) = raw
          /\ CreateTransactionPayload(parsed) = CreateTransactionPayload(u)
      BY <2>6, <3>1
    <3>3. SerializeTransaction(parsed, raw.sig) = raw
      BY <2>4, <3>2 DEF SerializeTransaction, Absent
    <3>4. signed => parsed.hash = hash /\ parsed.from = from
      BY <2>5, <2>6, <2>10
    <3>5. TransactionHash(tx) = payload
      BY DEF TransactionHash, payload
    <3>6. signed => /\ parsed.from = "alice" <=> ActionAgrees(tx)
                    /\ parsed.hash = TransactionHash(tx) <=> ActionAgrees(tx)
      BY <2>4, <2>7, <2>8, <2>10, <3>4, <3>5 DEF Nobody
    <3>7. QED
      BY <2>4, <2>10, <3>2, <3>3, <3>6
  <2>11. QED
    BY <2>9, <2>10
<1>4. QED
  BY <1>2, <1>3, Zenon DEF SenderKept

(* Signing, serializing and parsing an Acala transaction agree on what is  *)
(* left out, on every form of zero and on every combination of the two:    *)
(* whoever signed it is recovered, but for the named exceptions.           *)
THEOREM SenderIsRecovered == Spec => []SenderRecovered
<1>1. JobGiven => SenderRecovered
  <2> SUFFICES ASSUME job.in \in TxJobs PROVE SenderKept(job.in.tx, job.in.signed)
    BY DEF JobGiven, SenderRecovered
  <2>1. job.in.tx \in TxRecord /\ job.in.signed \in BOOLEAN
    BY TxJobsAssumption
  <2>2. QED
    BY <2>1, SenderIsKept
<1>2. QED
  BY <1>1, JobIsGiven, PTL

-----------------------------------------------------------------------------
(* The place of i among those of P. *)
Rank(P, i) == Cardinality({j \in P : j <= i})

LEMMA Ranked ==
  ASSUME NEW n \in Nat, NEW P \in SUBSET (1 .. n)
  PROVE  /\ Cardinality(P) \in Nat
         /\ P = {} <=> Cardinality(P) = 0
         /\ \A k \in 1 .. Cardinality(P) : Nth(P, k) \in P /\ Rank(P, Nth(P, k)) = k
         /\ \A i \in P : Rank(P, i) \in 1 .. Cardinality(P) /\ Nth(P, Rank(P, i)) = i
         /\ \A i, j \in P : i < j => Rank(P, i) < Rank(P, j)
<1> DEFINE Below(i) == {j \in P : j <= i}
           c == Cardinality(P)
<1>1. IsFiniteSet(P) /\ c \in Nat /\ (c = 0 <=> P = {})
  <2>1. IsFiniteSet(1 .. n)
    BY FS_Interval
  <2>2. IsFiniteSet(P)
    BY <2>1, FS_Subset
  <2>3. QED
    BY <2>2, FS_CardinalityType, FS_EmptySet
<1>2. \A i \in P : i \in Nat /\ i \in Below(i)
  OBVIOUS
<1>13. \A i \in P : i \in Nat
  OBVIOUS
<1>3. \A i \in P : /\ IsFiniteSet(Below(i)) /\ Cardinality(Below(i)) <= c
                   /\ Cardinality(Below(i)) \in Nat /\ Cardinality(Below(i)) # 0
  <2>1. TAKE i \in P
  <2>2. Below(i) \in SUBSET P /\ i \in Below(i)
    BY <1>2
  <2> HIDE DEF Below
  <2>3. IsFiniteSet(Below(i)) /\ Cardinality(Below(i)) <= c
    BY <1>1, <2>2, FS_Subset
  <2>4. QED
    BY <2>2, <2>3, FS_CardinalityType, FS_EmptySet
<1>4. \A i, j \in P : i < j => Cardinality(Below(i)) < Cardinality(Below(j))
  <2> SUFFICES ASSUME NEW i \in P, NEW j \in P, i < j
               PROVE  Cardinality(Below(i)) < Cardinality(Below(j))
    OBVIOUS
  <2>1. Below(i) \in SUBSET Below(j) /\ j \in Below(j) /\ j \notin Below(i)
    <3>1. \A x \in P : x <= i => x <= j
      BY <1>13
    <3>2. j <= j /\ ~(j <= i)
      BY <1>13
    <3>3. QED
      BY <3>1, <3>2, Zenon
  <2> HIDE DEF Below
  <2>2. QED
    BY <1>3, <2>1, FS_Subset
<1> DEFINE rank == [i \in P |-> Cardinality(Below(i))]
<1>5. rank \in Injection(P, 1 .. c)
  <2> HIDE DEF Below
  <2>1. \A i \in P : Cardinality(Below(i)) \in 1 .. c
    BY <1>1, <1>3
  <2>2. rank \in [P -> 1 .. c]
    BY <2>1
  <2>3. \A i, j \in P : rank[i] = rank[j] => i = j
    BY <1>2, <1>3, <1>4
  <2> HIDE DEF rank
  <2>4. QED
    BY <2>2, <2>3 DEF Injection, IsInjective
<1>6. rank \in Surjection(P, 1 .. c)
  <2> HIDE DEF rank, c
  <2>1. 1 \in Int /\ c \in Int
    BY <1>1
  <2>2. IsFiniteSet(1 .. c) /\ Cardinality(1 .. c) = c
    BY <1>1, <2>1, FS_Interval
  <2>3. QED
    BY <1>5, <2>2, FS_Injection DEF c
<1>7. \A k \in 1 .. c : \E i \in P : Cardinality(Below(i)) = k
  <2> HIDE DEF Below, c
  <2>1. QED
    BY <1>6 DEF Surjection
<1>8. \A k \in 1 .. c : Nth(P, k) \in P /\ Rank(P, Nth(P, k)) = k
  <2>1. TAKE k \in 1 .. c
  <2>2. \E i \in P : Cardinality({j \in P : j <= i}) = k
    BY <1>7
  <2>3. QED
    BY <2>2 DEF Nth, Rank
<1>9. \A i \in P : Rank(P, i) \in 1 .. c
  <2> HIDE DEF c
  <2>1. QED
    BY <1>1, <1>3 DEF Rank
<1>10. \A i, j \in P : i < j => Rank(P, i) < Rank(P, j)
  BY <1>4 DEF Rank
<1>11. \A i \in P : Nth(P, Rank(P, i)) = i
  <2>1. TAKE i \in P
  <2> DEFINE j == Nth(P, Rank(P, i))
  <2>2. j \in P /\ Rank(P, j) = Rank(P, i)
    BY <1>8, <1>9
  <2>3. Rank(P, i) \in Nat /\ i \in Nat /\ j \in Nat
    <3> HIDE DEF j
    <3>1. i \in Nat /\ j \in Nat
      BY <1>13, <2>2
    <3>2. QED
      BY <1>1, <1>9, <3>1
  <2> HIDE DEF j
  <2>4. i = j
    BY <1>10, <2>2, <2>3
  <2>5. QED
    BY <2>4 DEF j
<1>12. QED
  BY <1>1, <1>8, <1>9, <1>10, <1>11

(* What Pick leaves: each place once, and the first of them first. *)
LEMMA Picked ==
  ASSUME NEW S, NEW s \in Seq(S), NEW P \in SUBSET DOMAIN s
  PROVE  /\ Pick(s, P) \in Seq(S) /\ DOMAIN Pick(s, P) = 1 .. Len(Pick(s, P))
         /\ Len(Pick(s, P)) = Cardinality(P) /\ Cardinality(P) \in Nat
         /\ P = {} <=> Pick(s, P) = <<>>
         /\ \A k \in 1 .. Len(Pick(s, P)) : Nth(P, k) \in P /\ Pick(s, P)[k] = s[Nth(P, k)]
         /\ \A k, l \in 1 .. Len(Pick(s, P)) : Nth(P, k) = Nth(P, l) => k = l
         /\ \A i \in P : \E k \in 1 .. Len(Pick(s, P)) : Nth(P, k) = i
         /\ P # {} => \A i \in P : Nth(P, 1) <= i
<1> DEFINE c == Cardinality(P)
           t == Pick(s, P)
<1>1. DOMAIN s = 1 .. Len(s) /\ Len(s) \in Nat
  BY LenProperties
<1>2. /\ c \in Nat /\ (P = {} <=> c = 0)
      /\ \A k \in 1 .. c : Nth(P, k) \in P /\ Rank(P, Nth(P, k)) = k
      /\ \A i \in P : Rank(P, i) \in 1 .. c /\ Nth(P, Rank(P, i)) = i
      /\ \A i, j \in P : i < j => Rank(P, i) < Rank(P, j)
  BY <1>1, Ranked
<1>3. t = [k \in 1 .. c |-> s[Nth(P, k)]]
  BY DEF Pick
<1> HIDE DEF c, t
<1>4. \A k \in 1 .. c : s[Nth(P, k)] \in S
  BY <1>1, <1>2, ElementOfSeq
<1>5. t \in Seq(S) /\ Len(t) = c /\ DOMAIN t = 1 .. c
  <2>1. t \in [1 .. c -> S]
    BY <1>3, <1>4
  <2>2. t \in Seq(S)
    BY <1>2, <2>1, SeqDef
  <2>3. QED
    BY <1>2, <2>1, <2>2, LenProperties
<1>6. P = {} <=> t = <<>>
  BY <1>2, <1>5, EmptySeq
<1>7. \A k, l \in 1 .. c : Nth(P, k) = Nth(P, l) => k = l
  BY <1>2
<1>8. \A i \in P : \E k \in 1 .. c : Nth(P, k) = i
  BY <1>2
<1>9. P # {} => \A i \in P : Nth(P, 1) <= i
  <2> SUFFICES ASSUME NEW i \in P PROVE Nth(P, 1) <= i
    OBVIOUS
  <2>1. 1 \in 1 .. c
    BY <1>2
  <2>2. Nth(P, 1) \in P /\ Rank(P, Nth(P, 1)) = 1
    BY <1>2, <2>1
  <2>3. Rank(P, i) \in 1 .. c /\ i \in Nat /\ Nth(P, 1) \in Nat
    BY <1>1, <1>2, <2>2
  <2>4. ~(i < Nth(P, 1))
    BY <1>2, <2>2, <2>3
  <2>5. QED
    BY <2>3, <2>4
<1>10. \A k \in 1 .. c : Nth(P, k) \in P /\ t[k] = s[Nth(P, k)]
  BY <1>2, <1>3
<1>11. QED
  BY <1>2, <1>5, <1>6, <1>7, <1>8, <1>9, <1>10 DEF c, t

(* Induction, as the library states it for a set instead of a predicate. *)
LEMMA NatInd ==
  ASSUME NEW S, 0 \in S, \A n \in Nat : n \in S => n + 1 \in S
  PROVE  Nat \subseteq S
<1> DEFINE R == {ss \in Nat \X Nat : ss[1] < ss[2]}
           T == Nat \ S
<1> SUFFICES ASSUME T # {} PROVE FALSE
  OBVIOUS
<1>1. IsWellFoundedOn(R, Nat)
  BY NatLessThanWellFounded DEF OpToRel
<1>2. T \subseteq Nat
  OBVIOUS
<1> HIDE DEF R, T
<1>3. PICK x \in T : \A y \in T : <<y, x>> \notin R
  BY <1>1, <1>2, WFMin
<1>4. x \in Nat /\ x \notin S /\ x # 0
  BY <1>3 DEF T
<1>5. x - 1 \in Nat /\ x - 1 < x /\ (x - 1) + 1 = x
  BY <1>4
<1>6. x - 1 \in T
  BY <1>4, <1>5 DEF T
<1>7. <<x - 1, x>> \in R
  BY <1>4, <1>5 DEF R
<1>8. QED
  BY <1>3, <1>6, <1>7

(* Where each item of t is in the first n of the lists ss: row and column. *)
Lists(t, ss, n, row, col) ==
  /\ \A k \in 1 .. Len(t) : /\ row[k] \in 1 .. n /\ col[k] \in 1 .. Len(ss[row[k]])
                            /\ t[k] = ss[row[k]][col[k]]
  /\ \A k, l \in 1 .. Len(t) : row[k] = row[l] /\ col[k] = col[l] => k = l
  /\ \A i \in 1 .. n : \A j \in 1 .. Len(ss[i]) :
       \E k \in 1 .. Len(t) : row[k] = i /\ col[k] = j

(* The recursion of FlattenSeq has a solution. *)
Flat(f, ss, n) == [i \in 1 .. n |-> IF i = 1 THEN ss[i] ELSE f[i - 1] \o ss[i]]

LEMMA FlatExists == \A ss : \A n \in Nat : \E f : f = Flat(f, ss, n)
<1> SUFFICES ASSUME NEW ss PROVE \A n \in Nat : \E f : f = Flat(f, ss, n)
  OBVIOUS
<1> DEFINE S == {n \in Nat : \E f : f = Flat(f, ss, n)}
<1>1. 0 \in S
  <2> DEFINE f == [i \in 1 .. 0 |-> ss]
  <2>1. f = Flat(f, ss, 0)
    BY DEF Flat
  <2>2. QED
    BY <2>1
<1>2. ASSUME NEW n \in Nat, n \in S PROVE n + 1 \in S
  <2>1. PICK f : f = Flat(f, ss, n)
    BY <1>2
  <2> DEFINE last == IF n + 1 = 1 THEN ss[n + 1] ELSE f[n] \o ss[n + 1]
             g == [i \in 1 .. (n + 1) |-> IF i = n + 1 THEN last ELSE f[i]]
  <2>2. \A i \in 1 .. (n + 1) : g[i] = Flat(g, ss, n + 1)[i]
    <3> SUFFICES ASSUME NEW i \in 1 .. (n + 1)
                 PROVE  g[i] = IF i = 1 THEN ss[i] ELSE g[i - 1] \o ss[i]
      BY DEF Flat
    <3>1. CASE i = n + 1
      <4>1. i # 1 => i - 1 = n /\ n \in 1 .. (n + 1) /\ n # n + 1
        BY <3>1
      <4>2. i # 1 => g[i - 1] = f[n]
        <5> HIDE DEF last
        <5>1. QED
          BY <4>1
      <4>3. g[i] = last
        <5> HIDE DEF last
        <5>1. QED
          BY <3>1
      <4> HIDE DEF g
      <4>4. QED
        BY <3>1, <4>2, <4>3
    <3>2. CASE i # n + 1
      <4>1. i \in 1 .. n /\ (i # 1 => i - 1 \in 1 .. (n + 1) /\ i - 1 # n + 1)
        BY <3>2
      <4>2. g[i] = f[i] /\ (i # 1 => g[i - 1] = f[i - 1])
        <5> HIDE DEF last
        <5>1. QED
          BY <3>2, <4>1
      <4>3. f[i] = IF i = 1 THEN ss[i] ELSE f[i - 1] \o ss[i]
        BY <2>1, <4>1 DEF Flat
      <4> HIDE DEF g
      <4>4. QED
        BY <4>2, <4>3
    <3>3. QED
      BY <3>1, <3>2
  <2>3. g = Flat(g, ss, n + 1)
    <3>1. DOMAIN Flat(g, ss, n + 1) = 1 .. (n + 1) /\ DOMAIN g = 1 .. (n + 1)
      BY DEF Flat
    <3>2. g = [i \in 1 .. (n + 1) |-> g[i]]
      OBVIOUS
    <3>3. Flat(g, ss, n + 1) = [i \in 1 .. (n + 1) |-> Flat(g, ss, n + 1)[i]]
      BY DEF Flat
    <3> HIDE DEF g
    <3>4. QED
      BY <2>2, <3>2, <3>3
  <2> HIDE DEF g
  <2>4. QED
    BY <2>3
<1>3. Nat \subseteq S
  <2> HIDE DEF S
  <2>1. QED
    BY <1>1, <1>2, NatInd
<1>4. QED
  BY <1>3

LEMMA FlattenIs ==
  ASSUME NEW S, NEW ss \in Seq(Seq(S))
  PROVE  \E f : /\ f = Flat(f, ss, Len(ss))
                /\ FlattenSeq(ss) = IF Len(ss) = 0 THEN ss ELSE f[Len(ss)]
<1> DEFINE f == CHOOSE g : g = Flat(g, ss, Len(ss))
<1>1. Len(ss) \in Nat
  BY LenProperties
<1>2. f = Flat(f, ss, Len(ss))
  <2>1. \E g : g = Flat(g, ss, Len(ss))
    BY <1>1, FlatExists
  <2>2. QED
    BY <2>1
<1>3. FlattenSeq(ss) = IF Len(ss) = 0 THEN ss ELSE f[Len(ss)]
  BY Zenon DEF FlattenSeq, Flat
<1> HIDE DEF f
<1>4. QED
  BY <1>2, <1>3

LEMMA ListsGrow ==
  ASSUME NEW S, NEW ss \in Seq(Seq(S)), NEW n \in Nat, n + 1 \in 1 .. Len(ss),
         NEW t \in Seq(S), NEW row, NEW col, Lists(t, ss, n, row, col)
  PROVE  \E r, c : Lists(t \o ss[n + 1], ss, n + 1, r, c)
<1> DEFINE u == ss[n + 1]
           a == Len(t)
           b == Len(u)
           w == t \o u
           r == [k \in 1 .. (a + b) |-> IF k <= a THEN row[k] ELSE n + 1]
           c == [k \in 1 .. (a + b) |-> IF k <= a THEN col[k] ELSE k - a]
<1>1. u \in Seq(S) /\ a \in Nat /\ b \in Nat
  BY ElementOfSeq, LenProperties
<1>2. /\ w \in Seq(S) /\ Len(w) = a + b
      /\ \A k \in 1 .. (a + b) : w[k] = IF k <= a THEN t[k] ELSE u[k - a]
  <2> HIDE DEF u
  <2>1. QED
    BY <1>1, ConcatProperties
<1>3. \A k \in 1 .. (a + b) : r[k] = IF k <= a THEN row[k] ELSE n + 1
  OBVIOUS
<1>4. \A k \in 1 .. (a + b) : c[k] = IF k <= a THEN col[k] ELSE k - a
  OBVIOUS
<1>5. \A k \in 1 .. a : /\ row[k] \in 1 .. n /\ col[k] \in 1 .. Len(ss[row[k]])
                        /\ t[k] = ss[row[k]][col[k]]
  BY DEF Lists
<1>6. \A k, l \in 1 .. a : row[k] = row[l] /\ col[k] = col[l] => k = l
  BY DEF Lists
<1>7. \A i \in 1 .. n : \A j \in 1 .. Len(ss[i]) : \E k \in 1 .. a : row[k] = i /\ col[k] = j
  BY DEF Lists
<1> HIDE DEF r, c, w, a
<1>8. ASSUME NEW k \in 1 .. (a + b)
      PROVE  /\ r[k] \in 1 .. (n + 1) /\ c[k] \in 1 .. Len(ss[r[k]])
             /\ w[k] = ss[r[k]][c[k]]
  <2>1. CASE k <= a
    <3>1. k \in 1 .. a /\ r[k] = row[k] /\ c[k] = col[k] /\ w[k] = t[k]
      BY <1>1, <1>2, <1>3, <1>4, <2>1
    <3>2. row[k] \in 1 .. n /\ row[k] \in 1 .. (n + 1)
      BY <1>5, <3>1
    <3>3. QED
      BY <1>5, <3>1, <3>2, Zenon
  <2>2. CASE ~(k <= a)
    <3>1. r[k] = n + 1 /\ c[k] = k - a /\ w[k] = u[k - a] /\ k - a \in 1 .. b
      BY <1>1, <1>2, <1>3, <1>4, <2>2
    <3>2. QED
      BY <3>1
  <2>3. QED
    BY <2>1, <2>2
<1>9. ASSUME NEW k \in 1 .. (a + b), NEW l \in 1 .. (a + b), r[k] = r[l], c[k] = c[l]
      PROVE  k = l
  <2>1. \A x \in 1 .. (a + b) : x <= a => x \in 1 .. a /\ r[x] = row[x] /\ row[x] \in 1 .. n /\ c[x] = col[x]
    BY <1>1, <1>3, <1>4, <1>5
  <2>2. \A x \in 1 .. (a + b) : ~(x <= a) => r[x] = n + 1 /\ c[x] = x - a
    BY <1>3, <1>4
  <2>3. CASE k <= a /\ l <= a
    BY <1>6, <1>9, <2>1, <2>3
  <2>4. CASE ~(k <= a) /\ ~(l <= a)
    BY <1>1, <1>9, <2>2, <2>4
  <2>5. CASE (k <= a) # (l <= a)
    <3>1. n + 1 \notin 1 .. n
      OBVIOUS
    <3>2. CASE k <= a
      BY <1>9, <2>1, <2>2, <2>5, <3>1, <3>2, Zenon
    <3>3. CASE l <= a
      BY <1>9, <2>1, <2>2, <2>5, <3>1, <3>3, Zenon
    <3>4. QED
      BY <2>5, <3>2, <3>3
  <2>6. QED
    BY <2>3, <2>4, <2>5
<1>10. ASSUME NEW i \in 1 .. (n + 1), NEW j \in 1 .. Len(ss[i])
       PROVE  \E k \in 1 .. (a + b) : r[k] = i /\ c[k] = j
  <2>1. CASE i = n + 1
    <3>1. j \in 1 .. b
      BY <2>1
    <3>2. a + j \in 1 .. (a + b) /\ ~(a + j <= a) /\ (a + j) - a = j
      BY <1>1, <3>1
    <3>3. QED
      BY <1>3, <1>4, <2>1, <3>2
  <2>2. CASE i # n + 1
    <3>1. i \in 1 .. n
      BY <2>2
    <3>2. PICK k \in 1 .. a : row[k] = i /\ col[k] = j
      BY <1>7, <3>1
    <3>3. k \in 1 .. (a + b) /\ k <= a
      BY <1>1
    <3>4. QED
      BY <1>3, <1>4, <3>2, <3>3
  <2>3. QED
    BY <2>1, <2>2
<1>11. Lists(w, ss, n + 1, r, c)
  <2> HIDE DEF u, b
  <2>1. QED
    BY <1>2, <1>8, <1>9, <1>10 DEF Lists
<1>12. QED
  BY <1>11 DEF w, u

(* What FlattenSeq leaves: every item of every list, once. *)
LEMMA Flattened ==
  ASSUME NEW S, NEW ss \in Seq(Seq(S))
  PROVE  /\ FlattenSeq(ss) \in Seq(S) /\ DOMAIN FlattenSeq(ss) = 1 .. Len(FlattenSeq(ss))
         /\ \E row, col : Lists(FlattenSeq(ss), ss, Len(ss), row, col)
<1>1. Len(ss) \in Nat
  BY LenProperties
<1>2. PICK f : /\ f = Flat(f, ss, Len(ss))
               /\ FlattenSeq(ss) = IF Len(ss) = 0 THEN ss ELSE f[Len(ss)]
  BY FlattenIs
<1> DEFINE Good(n) == f[n] \in Seq(S) /\ \E row, col : Lists(f[n], ss, n, row, col)
           T == {n \in Nat : n + 1 \in 1 .. Len(ss) => Good(n + 1)}
<1>3. \A i \in 1 .. Len(ss) : f[i] = IF i = 1 THEN ss[i] ELSE f[i - 1] \o ss[i]
  BY <1>2 DEF Flat
<1>4. \A i \in 1 .. Len(ss) : ss[i] \in Seq(S)
  BY ElementOfSeq
<1>5. ASSUME 1 \in 1 .. Len(ss) PROVE Good(1)
  <2>1. f[1] = ss[1] /\ ss[1] \in Seq(S)
    BY <1>3, <1>4, <1>5
  <2>2. <<>> \in Seq(S) /\ Len(<<>>) = 0
    OBVIOUS
  <2>3. Lists(<<>>, ss, 0, <<>>, <<>>)
    BY DEF Lists
  <2>4. 0 \in Nat /\ 0 + 1 = 1
    OBVIOUS
  <2>5. \E r, c : Lists(<<>> \o ss[1], ss, 1, r, c)
    BY <1>5, <2>2, <2>3, <2>4, ListsGrow
  <2>6. <<>> \o ss[1] = ss[1]
    BY <2>1, ConcatEmptySeq
  <2>7. QED
    BY <2>1, <2>5, <2>6
<1>6. 0 \in T
  BY <1>5
<1>7. ASSUME NEW n \in Nat, n \in T PROVE n + 1 \in T
  <2> SUFFICES ASSUME (n + 1) + 1 \in 1 .. Len(ss) PROVE Good((n + 1) + 1)
    OBVIOUS
  <2>1. n + 1 \in 1 .. Len(ss) /\ (n + 1) + 1 # 1 /\ ((n + 1) + 1) - 1 = n + 1 /\ n + 1 \in Nat
    BY <1>1
  <2>2. Good(n + 1)
    BY <1>7, <2>1
  <2>3. f[(n + 1) + 1] = f[n + 1] \o ss[(n + 1) + 1]
    BY <1>3, <2>1
  <2>4. f[(n + 1) + 1] \in Seq(S)
    BY <1>4, <2>2, <2>3, ConcatProperties
  <2>5. PICK row, col : Lists(f[n + 1], ss, n + 1, row, col)
    BY <2>2
  <2>6. \E r, c : Lists(f[n + 1] \o ss[(n + 1) + 1], ss, (n + 1) + 1, r, c)
    BY <2>1, <2>2, <2>5, ListsGrow
  <2>7. QED
    BY <2>3, <2>4, <2>6
<1>8. \A n \in Nat : n \in T
  <2> HIDE DEF T
  <2>1. Nat \subseteq T
    BY <1>6, <1>7, NatInd
  <2>2. QED
    BY <2>1
<1>9. FlattenSeq(ss) \in Seq(S) /\ \E row, col : Lists(FlattenSeq(ss), ss, Len(ss), row, col)
  <2>1. CASE Len(ss) = 0
    <3>1. FlattenSeq(ss) = ss /\ ss = <<>>
      BY <1>2, <2>1, EmptySeq
    <3>2. Lists(<<>>, ss, 0, <<>>, <<>>)
      BY DEF Lists
    <3>3. QED
      BY <2>1, <3>1, <3>2, EmptySeq
  <2>2. CASE Len(ss) # 0
    <3>1. Len(ss) - 1 \in Nat /\ (Len(ss) - 1) + 1 = Len(ss) /\ Len(ss) \in 1 .. Len(ss)
      BY <1>1, <2>2
    <3>2. Good(Len(ss))
      BY <1>8, <3>1
    <3>3. QED
      BY <1>2, <2>2, <3>2
  <2>3. QED
    BY <2>1, <2>2
<1>10. QED
  BY <1>9, LenProperties

-----------------------------------------------------------------------------
(* The events of the EVM among some events, and the first of them. *)
LEMMA EvmKept ==
  ASSUME NEW events \in Seq(EventRecord)
  PROVE  /\ EvmEvents(events) \in Seq(EventRecord)
         /\ DOMAIN EvmEvents(events) = 1 .. Len(EvmEvents(events))
         /\ \A k \in 1 .. Len(EvmEvents(events)) :
              /\ Nth(EvmPlaces(events), k) \in EvmPlaces(events)
              /\ EvmEvents(events)[k] = events[Nth(EvmPlaces(events), k)]
         /\ \A k, l \in 1 .. Len(EvmEvents(events)) :
              Nth(EvmPlaces(events), k) = Nth(EvmPlaces(events), l) => k = l
         /\ \A i \in EvmPlaces(events) :
              \E k \in 1 .. Len(EvmEvents(events)) : Nth(EvmPlaces(events), k) = i
<1>1. EvmPlaces(events) \in SUBSET DOMAIN events
  BY DEF EvmPlaces
<1>2. QED
  BY <1>1, Picked DEF EvmEvents

LEMMA FirstEvm ==
  ASSUME NEW events \in Seq(EventRecord), EvmPlaces(events) # {}
  PROVE  /\ Nth(EvmPlaces(events), 1) \in DOMAIN events
         /\ IsFirst(Nth(EvmPlaces(events), 1), EvmPlaces(events))
         /\ \A j \in DOMAIN events :
              IsFirst(j, EvmPlaces(events)) => j = Nth(EvmPlaces(events), 1)
         /\ Head(EvmEvents(events)) = events[Nth(EvmPlaces(events), 1)]
<1> DEFINE P == EvmPlaces(events)
           t == EvmEvents(events)
           f == Nth(P, 1)
<1>1. P \in SUBSET DOMAIN events /\ DOMAIN events = 1 .. Len(events)
  BY LenProperties DEF EvmPlaces
<1>2. /\ t \in Seq(EventRecord) /\ t # <<>> /\ (\A i \in P : f <= i)
      /\ \A k \in 1 .. Len(t) : Nth(P, k) \in P /\ t[k] = events[Nth(P, k)]
  BY <1>1, Picked DEF EvmEvents
<1>3. 1 \in 1 .. Len(t) /\ Head(t) = t[1]
  <2> HIDE DEF t
  <2>1. Len(t) \in Nat /\ Len(t) # 0
    BY <1>2, EmptySeq, LenProperties
  <2>2. QED
    BY <1>2, <2>1, HeadTailProperties
<1>4. f \in P /\ t[1] = events[f]
  BY <1>2, <1>3
<1> HIDE DEF P, t, f
<1>5. IsFirst(f, P)
  BY <1>2, <1>4 DEF IsFirst
<1>6. ASSUME NEW j \in DOMAIN events, IsFirst(j, P) PROVE j = f
  <2>1. j <= f /\ f <= j /\ j \in Nat /\ f \in Nat
    BY <1>1, <1>2, <1>4, <1>6 DEF IsFirst
  <2>2. QED
    BY <2>1
<1>7. QED
  BY <1>1, <1>3, <1>4, <1>5, <1>6 DEF P, t, f

LEMMA EventFields ==
  ASSUME NEW e \in EventRecord
  PROVE  /\ e.gas \in Nat /\ e.storage \in Int /\ e.logs \in Seq(Nat \X Nat \X Nat)
         /\ DOMAIN e.logs = 1 .. Len(e.logs) /\ Len(e.logs) \in Nat
<1>1. e.gas \in Nat /\ e.storage \in Int /\ e.logs \in Seq(Nat \X Nat \X Nat)
  BY DEF EventRecord
<1>2. QED
  BY <1>1, LenProperties

(* What findEvmEvent finds has the gas and the storage of the first event, *)
(* and the logs of those that are merged, each once.                       *)
LEMMA FoundEvent ==
  ASSUME NEW x \in ExtrinsicRecord, EvmPlaces(x.events) # {}, ~IsBatch(x),
         NEW n, NamedBy(x.events, n)
  PROVE  LET e == FindEvmEvent(x.events)
             f == Nth(EvmPlaces(x.events), 1)
         IN  /\ e \in EventRecord /\ f \in DOMAIN x.events
             /\ IsFirst(f, EvmPlaces(x.events))
             /\ e.gas = x.events[f].gas /\ e.storage = x.events[f].storage
             /\ \A k, l \in DOMAIN e.logs : e.logs[k] = e.logs[l] => k = l
             /\ \A k \in DOMAIN e.logs : \E j \in Merged(x) :
                  \E m \in DOMAIN x.events[j].logs : e.logs[k] = <<n, j, m>>
             /\ \A j \in Merged(x) : \A m \in DOMAIN x.events[j].logs :
                  \E k \in DOMAIN e.logs : e.logs[k] = <<n, j, m>>
<1> DEFINE events == x.events
           P == EvmPlaces(events)
           f == Nth(P, 1)
           X == {i \in DOMAIN events : events[i].method = "Executed"}
           executed == Pick(events, X)
           lists == [k \in DOMAIN executed |-> executed[k].logs]
           e == FindEvmEvent(events)
           Names == Nat \X Nat \X Nat
<1>1. events \in Seq(EventRecord) /\ DOMAIN events = 1 .. Len(events) /\ Len(events) \in Nat
  BY LenProperties DEF ExtrinsicRecord
<1>2. \A i \in DOMAIN events : events[i] \in EventRecord
  BY <1>1, ElementOfSeq
<1>3. /\ f \in DOMAIN events /\ IsFirst(f, P) /\ Head(EvmEvents(events)) = events[f]
      /\ \A j \in DOMAIN events : IsFirst(j, P) => j = f
  BY <1>1, FirstEvm
<1>4. P \subseteq DOMAIN events /\ X \subseteq P
  BY DEF EvmPlaces, IsEvmEvent, EvmMethods
<1>5. \A i \in DOMAIN events : \A m \in DOMAIN events[i].logs : events[i].logs[m] = <<n, i, m>>
  BY DEF NamedBy
<1>6. CASE events[f].method # "Executed"
  <2>1. e = events[f]
    BY <1>3, <1>6 DEF FindEvmEvent
  <2>2. Merged(x) = {f}
    BY <1>3, <1>4, <1>6 DEF Merged, IsFirst
  <2>3. e \in EventRecord
    BY <1>2, <1>3, <2>1
  <2>4. \A m \in DOMAIN e.logs : e.logs[m] = <<n, f, m>>
    BY <1>3, <1>5, <2>1
  <2> HIDE DEF e, f, P, X, executed, lists
  <2>5. \A k, l \in DOMAIN e.logs : e.logs[k] = e.logs[l] => k = l
    BY <2>4
  <2>6. \A k \in DOMAIN e.logs : \E j \in Merged(x) :
          \E m \in DOMAIN x.events[j].logs : e.logs[k] = <<n, j, m>>
    BY <2>1, <2>2, <2>4
  <2>7. \A j \in Merged(x) : \A m \in DOMAIN x.events[j].logs :
          \E k \in DOMAIN e.logs : e.logs[k] = <<n, j, m>>
    BY <2>1, <2>2, <2>4
  <2>8. QED
    BY <1>3, <2>1, <2>3, <2>5, <2>6, <2>7 DEF e, f, P
<1>7. CASE events[f].method = "Executed"
  <2>1. e = [events[f] EXCEPT !.logs = FlattenSeq(lists)]
    BY <1>3, <1>7 DEF FindEvmEvent
  <2>2. Merged(x) = X
    <3>1. Merged(x) = {i \in P : \/ IsFirst(i, P)
                                 \/ events[i].method = "Executed" /\ \E j \in DOMAIN events :
                                      IsFirst(j, P) /\ events[j].method = "Executed"}
      BY DEF Merged
    <3> HIDE DEF P
    <3>2. \A i \in P : IsFirst(i, P) <=> i = f
      BY <1>3, <1>4
    <3>3. QED
      BY <1>3, <1>4, <1>7, <3>1, <3>2
  <2>3. X \in SUBSET DOMAIN events
    OBVIOUS
  <2>4. /\ executed \in Seq(EventRecord) /\ DOMAIN executed = 1 .. Len(executed)
        /\ \A k \in 1 .. Len(executed) : Nth(X, k) \in X /\ executed[k] = events[Nth(X, k)]
        /\ \A k, l \in 1 .. Len(executed) : Nth(X, k) = Nth(X, l) => k = l
        /\ \A i \in X : \E k \in 1 .. Len(executed) : Nth(X, k) = i
    <3> HIDE DEF X
    <3>1. QED
      BY <1>1, <2>3, Picked
  <2> DEFINE c == Len(executed)
             t == FlattenSeq(lists)
  <2>5. c \in Nat /\ lists = [k \in 1 .. c |-> executed[k].logs]
    BY <2>4, LenProperties
  <2> HIDE DEF executed, X, f, P, e
  <2>6. \A k \in 1 .. c : executed[k].logs \in Seq(Names)
    BY <2>4, ElementOfSeq, EventFields
  <2>7. lists \in Seq(Seq(Names)) /\ Len(lists) = c /\ \A k \in 1 .. c : lists[k] = executed[k].logs
    <3> HIDE DEF Names, c, lists
    <3>1. lists \in [1 .. c -> Seq(Names)]
      BY <2>5, <2>6
    <3>2. QED
      BY <2>5, <3>1, SeqDef, LenProperties
  <2>8. t \in Seq(Names) /\ DOMAIN t = 1 .. Len(t) /\ \E row, col : Lists(t, lists, c, row, col)
    <3> HIDE DEF Names, lists
    <3>1. QED
      BY <2>7, Flattened
  <2>9. PICK row, col : Lists(t, lists, c, row, col)
    BY <2>8
  <2> HIDE DEF lists, t, c
  <2>10. e.logs = t /\ e.gas = events[f].gas /\ e.storage = events[f].storage /\ e \in EventRecord
    BY <1>2, <1>3, <2>1, <2>8 DEF EventRecord, t
  <2>11. \A k \in 1 .. c : /\ Nth(X, k) \in X /\ Nth(X, k) \in DOMAIN events
                           /\ lists[k] = events[Nth(X, k)].logs
    BY <2>3, <2>4, <2>7 DEF c
  <2>12. \A q \in 1 .. Len(t) : /\ row[q] \in 1 .. c /\ col[q] \in DOMAIN lists[row[q]]
                                /\ t[q] = lists[row[q]][col[q]]
    <3>1. \A k \in 1 .. c : DOMAIN lists[k] = 1 .. Len(lists[k])
      BY <2>6, <2>7, LenProperties
    <3>2. QED
      BY <2>9, <3>1 DEF Lists
  <2>13. \A q \in 1 .. Len(t) : t[q] = <<n, Nth(X, row[q]), col[q]>>
    BY <1>5, <2>11, <2>12
  <2>14. ASSUME NEW k \in 1 .. Len(t), NEW l \in 1 .. Len(t), t[k] = t[l] PROVE k = l
    <3>1. Nth(X, row[k]) = Nth(X, row[l]) /\ col[k] = col[l]
      BY <2>13, <2>14
    <3>2. row[k] = row[l]
      BY <2>4, <2>12, <3>1 DEF c
    <3>3. QED
      BY <2>9, <3>1, <3>2 DEF Lists
  <2>15. ASSUME NEW k \in 1 .. Len(t)
         PROVE  \E j \in X : \E m \in DOMAIN events[j].logs : t[k] = <<n, j, m>>
    BY <2>11, <2>12, <2>13
  <2>16. ASSUME NEW j \in X, NEW m \in DOMAIN events[j].logs
         PROVE  \E k \in 1 .. Len(t) : t[k] = <<n, j, m>>
    <3>1. PICK i \in 1 .. c : Nth(X, i) = j
      BY <2>4 DEF c
    <3>2. m \in 1 .. Len(lists[i])
      BY <2>6, <2>7, <2>11, <3>1, LenProperties
    <3>3. PICK k \in 1 .. Len(t) : row[k] = i /\ col[k] = m
      BY <2>9, <3>2 DEF Lists
    <3>4. QED
      BY <2>13, <3>1, <3>3
  <2>17. DOMAIN e.logs = 1 .. Len(t) /\ e.logs = t
    BY <2>8, <2>10
  <2>18. \A k, l \in DOMAIN e.logs : e.logs[k] = e.logs[l] => k = l
    BY <2>14, <2>17
  <2>19. \A k \in DOMAIN e.logs : \E j \in Merged(x) :
           \E m \in DOMAIN x.events[j].logs : e.logs[k] = <<n, j, m>>
    BY <2>2, <2>15, <2>17
  <2>20. \A j \in Merged(x) : \A m \in DOMAIN x.events[j].logs :
           \E k \in DOMAIN e.logs : e.logs[k] = <<n, j, m>>
    BY <2>2, <2>16, <2>17
  <2>21. QED
    BY <1>3, <2>10, <2>18, <2>19, <2>20 DEF e, f, P
<1>8. QED
  BY <1>6, <1>7

-----------------------------------------------------------------------------
(* Where the events that count as orphans are in a block. *)
IsPlace(block, i, j) ==
  \/ i = 0 /\ j \in EvmPlaces(block.events)
  \/ i \in Batches(block) /\ j \in EvmPlaces(block.extrinsics[i].events)

EventAt(block, i, j) == IF i = 0 THEN block.events[j] ELSE block.extrinsics[i].events[j]

BatchEvents(block) ==
  LET batches == Pick(block.extrinsics, Batches(block))
  IN  EvmEvents(FlattenSeq([k \in DOMAIN batches |-> batches[k].events]))

LEMMA BlockFields ==
  ASSUME NEW block \in BlockRecord
  PROVE  /\ block.extrinsics \in Seq(ExtrinsicRecord) /\ block.events \in Seq(EventRecord)
         /\ DOMAIN block.extrinsics = 1 .. Len(block.extrinsics)
         /\ Len(block.extrinsics) \in Nat
         /\ \A i \in DOMAIN block.extrinsics :
              /\ block.extrinsics[i] \in ExtrinsicRecord
              /\ block.extrinsics[i].events \in Seq(EventRecord)
<1>1. block.extrinsics \in Seq(ExtrinsicRecord) /\ block.events \in Seq(EventRecord)
  BY DEF BlockRecord
<1>2. DOMAIN block.extrinsics = 1 .. Len(block.extrinsics) /\ Len(block.extrinsics) \in Nat
  BY <1>1, LenProperties
<1>3. \A i \in DOMAIN block.extrinsics : block.extrinsics[i] \in ExtrinsicRecord
  BY <1>1, <1>2, ElementOfSeq
<1>4. \A i \in DOMAIN block.extrinsics : block.extrinsics[i].events \in Seq(EventRecord)
  BY <1>3 DEF ExtrinsicRecord
<1>5. QED
  BY <1>1, <1>2, <1>3, <1>4

(* The events B are those of the batches, each once: the k-th is the event *)
(* ev[k] of the extrinsic ext[k].                                          *)
InBatches(block, B, ext, ev) ==
  /\ \A k \in 1 .. Len(B) :
       /\ ext[k] \in Batches(block) /\ ev[k] \in EvmPlaces(block.extrinsics[ext[k]].events)
       /\ B[k] = block.extrinsics[ext[k]].events[ev[k]]
  /\ \A k, l \in 1 .. Len(B) : ext[k] = ext[l] /\ ev[k] = ev[l] => k = l
  /\ \A i \in Batches(block) : \A j \in EvmPlaces(block.extrinsics[i].events) :
       \E k \in 1 .. Len(B) : ext[k] = i /\ ev[k] = j

LEMMA BatchesPlaced ==
  ASSUME NEW block \in BlockRecord
  PROVE  /\ BatchEvents(block) \in Seq(EventRecord)
         /\ \E ext, ev : InBatches(block, BatchEvents(block), ext, ev)
<1> DEFINE xs == block.extrinsics
           Q == Batches(block)
           batches == Pick(xs, Q)
           ls == [k \in DOMAIN batches |-> batches[k].events]
           flat == FlattenSeq(ls)
           c == Len(batches)
           B == BatchEvents(block)
           P == EvmPlaces(flat)
           n == Len(B)
<1>1. /\ xs \in Seq(ExtrinsicRecord) /\ DOMAIN xs = 1 .. Len(xs)
      /\ \A i \in DOMAIN xs : xs[i] \in ExtrinsicRecord /\ xs[i].events \in Seq(EventRecord)
  BY BlockFields
<1>2. Q \in SUBSET DOMAIN xs
  BY DEF Batches
<1>3. /\ batches \in Seq(ExtrinsicRecord) /\ DOMAIN batches = 1 .. c
      /\ \A k \in 1 .. c : Nth(Q, k) \in Q /\ batches[k] = xs[Nth(Q, k)]
      /\ \A k, l \in 1 .. c : Nth(Q, k) = Nth(Q, l) => k = l
      /\ \A i \in Q : \E k \in 1 .. c : Nth(Q, k) = i
  <2> HIDE DEF Q, xs
  <2>1. QED
    BY <1>1, <1>2, Picked
<1> HIDE DEF xs, Q, batches
<1>4. c \in Nat /\ ls = [k \in 1 .. c |-> batches[k].events]
  BY <1>3, LenProperties
<1>5. \A k \in 1 .. c : Nth(Q, k) \in DOMAIN xs /\ ls[k] = xs[Nth(Q, k)].events
  BY <1>2, <1>3, <1>4
<1>6. ls \in Seq(Seq(EventRecord)) /\ Len(ls) = c
  <2> HIDE DEF c, ls
  <2>1. ls \in [1 .. c -> Seq(EventRecord)]
    BY <1>1, <1>4, <1>5
  <2>2. QED
    BY <1>4, <2>1, SeqDef, LenProperties
<1>7. flat \in Seq(EventRecord) /\ DOMAIN flat = 1 .. Len(flat) /\ \E row, col : Lists(flat, ls, c, row, col)
  <2> HIDE DEF ls, c
  <2>1. QED
    BY <1>6, Flattened
<1>8. PICK row, col : Lists(flat, ls, c, row, col)
  BY <1>7
<1>9. B = EvmEvents(flat)
  BY DEF BatchEvents, batches, xs, Q
<1> HIDE DEF ls, flat, c, B
<1>10. /\ B \in Seq(EventRecord)
       /\ \A k \in 1 .. n : Nth(P, k) \in P /\ B[k] = flat[Nth(P, k)]
       /\ \A k, l \in 1 .. n : Nth(P, k) = Nth(P, l) => k = l
       /\ \A i \in P : \E k \in 1 .. n : Nth(P, k) = i
  BY <1>7, <1>9, EvmKept
<1>11. P \subseteq 1 .. Len(flat) /\ \A q \in 1 .. Len(flat) : q \in P <=> IsEvmEvent(flat[q])
  BY <1>7 DEF EvmPlaces
<1>12. \A q \in 1 .. Len(flat) : /\ row[q] \in 1 .. c /\ col[q] \in DOMAIN xs[Nth(Q, row[q])].events
                                 /\ flat[q] = xs[Nth(Q, row[q])].events[col[q]]
  <2>1. \A k \in 1 .. c : DOMAIN xs[Nth(Q, k)].events = 1 .. Len(ls[k])
    BY <1>1, <1>5, LenProperties
  <2>2. QED
    BY <1>5, <1>8, <2>1 DEF Lists
<1> DEFINE ext == [k \in 1 .. n |-> Nth(Q, row[Nth(P, k)])]
           ev == [k \in 1 .. n |-> col[Nth(P, k)]]
<1>13. \A k \in 1 .. n : ext[k] = Nth(Q, row[Nth(P, k)]) /\ ev[k] = col[Nth(P, k)]
  OBVIOUS
<1> HIDE DEF ext, ev, P, n
<1>14. ASSUME NEW k \in 1 .. n
       PROVE  /\ ext[k] \in Q /\ ev[k] \in EvmPlaces(xs[ext[k]].events)
              /\ B[k] = xs[ext[k]].events[ev[k]]
  <2> DEFINE q == Nth(P, k)
  <2>1. q \in P /\ q \in 1 .. Len(flat) /\ B[k] = flat[q] /\ ext[k] = Nth(Q, row[q]) /\ ev[k] = col[q]
    BY <1>10, <1>11, <1>13
  <2> HIDE DEF q
  <2>2. row[q] \in 1 .. c /\ ev[k] \in DOMAIN xs[ext[k]].events /\ B[k] = xs[ext[k]].events[ev[k]]
    BY <1>12, <2>1
  <2>3. IsEvmEvent(xs[ext[k]].events[ev[k]])
    BY <1>11, <2>1, <2>2
  <2>4. QED
    BY <1>3, <2>1, <2>2, <2>3 DEF EvmPlaces
<1>15. ASSUME NEW k \in 1 .. n, NEW l \in 1 .. n, ext[k] = ext[l], ev[k] = ev[l]
       PROVE  k = l
  <2> DEFINE q == Nth(P, k)
             r == Nth(P, l)
  <2>1. /\ q \in 1 .. Len(flat) /\ r \in 1 .. Len(flat)
        /\ Nth(Q, row[q]) = Nth(Q, row[r]) /\ col[q] = col[r] /\ (q = r => k = l)
    BY <1>10, <1>11, <1>13, <1>15
  <2> HIDE DEF q, r
  <2>2. row[q] = row[r]
    BY <1>3, <1>12, <2>1
  <2>3. QED
    BY <1>8, <2>1, <2>2 DEF Lists
<1>16. ASSUME NEW i \in Q, NEW j \in EvmPlaces(xs[i].events)
       PROVE  \E k \in 1 .. n : ext[k] = i /\ ev[k] = j
  <2>1. PICK m \in 1 .. c : Nth(Q, m) = i
    BY <1>3
  <2>2. j \in DOMAIN xs[i].events /\ IsEvmEvent(xs[i].events[j]) /\ ls[m] = xs[i].events
    BY <1>5, <2>1 DEF EvmPlaces
  <2>3. j \in 1 .. Len(ls[m])
    BY <1>1, <1>2, <2>2, LenProperties
  <2>4. PICK q \in 1 .. Len(flat) : row[q] = m /\ col[q] = j
    BY <1>8, <2>3 DEF Lists
  <2>5. flat[q] = xs[i].events[j]
    BY <1>12, <2>1, <2>4
  <2>6. PICK k \in 1 .. n : Nth(P, k) = q
    BY <1>10, <1>11, <2>2, <2>5
  <2>7. QED
    BY <1>13, <2>1, <2>4, <2>6
<1>17. InBatches(block, B, ext, ev)
  BY <1>14, <1>15, <1>16 DEF InBatches, n, Q, xs
<1>18. QED
  BY <1>10, <1>17 DEF B

(* So are the orphans, with the events outside of any extrinsic. *)
Placed(block, E, ext, ev) ==
  /\ \A k \in 1 .. Len(E) : IsPlace(block, ext[k], ev[k]) /\ E[k] = EventAt(block, ext[k], ev[k])
  /\ \A k, l \in 1 .. Len(E) : ext[k] = ext[l] /\ ev[k] = ev[l] => k = l
  /\ \A i, j : IsPlace(block, i, j) => \E k \in 1 .. Len(E) : ext[k] = i /\ ev[k] = j

LEMMA OrphansPlaced ==
  ASSUME NEW block \in BlockRecord
  PROVE  LET E == OrphanEvents(block)
         IN  /\ E \in Seq(EventRecord) /\ DOMAIN E = 1 .. Len(E) /\ Len(E) \in Nat
             /\ \E ext, ev : Placed(block, E, ext, ev)
<1> DEFINE xs == block.extrinsics
           Q == Batches(block)
           P == EvmPlaces(block.events)
           A == EvmEvents(block.events)
           B == BatchEvents(block)
           E == OrphanEvents(block)
           a == Len(A)
           b == Len(B)
<1>1. block.events \in Seq(EventRecord) /\ 0 \notin Q
  BY BlockFields DEF Batches
<1>2. /\ A \in Seq(EventRecord)
      /\ \A k \in 1 .. a : Nth(P, k) \in P /\ A[k] = block.events[Nth(P, k)]
      /\ \A k, l \in 1 .. a : Nth(P, k) = Nth(P, l) => k = l
      /\ \A i \in P : \E k \in 1 .. a : Nth(P, k) = i
  BY <1>1, EvmKept
<1>3. B \in Seq(EventRecord)
  BY BatchesPlaced
<1>4. PICK ext, ev :
        /\ \A k \in 1 .. b : /\ ext[k] \in Q /\ ev[k] \in EvmPlaces(xs[ext[k]].events)
                             /\ B[k] = xs[ext[k]].events[ev[k]]
        /\ \A k, l \in 1 .. b : ext[k] = ext[l] /\ ev[k] = ev[l] => k = l
        /\ \A i \in Q : \A j \in EvmPlaces(xs[i].events) :
             \E k \in 1 .. b : ext[k] = i /\ ev[k] = j
  BY BatchesPlaced DEF InBatches
<1>5. E = A \o B
  BY DEF OrphanEvents, BatchEvents
<1> HIDE DEF A, B, E, P, Q, xs
<1>6. a \in Nat /\ b \in Nat
  BY <1>2, <1>3, LenProperties
<1>7. /\ E \in Seq(EventRecord) /\ Len(E) = a + b /\ DOMAIN E = 1 .. Len(E)
      /\ \A k \in 1 .. (a + b) : E[k] = IF k <= a THEN A[k] ELSE B[k - a]
  BY <1>2, <1>3, <1>5, ConcatProperties, LenProperties
<1> DEFINE e1 == [k \in 1 .. (a + b) |-> IF k <= a THEN 0 ELSE ext[k - a]]
           e2 == [k \in 1 .. (a + b) |-> IF k <= a THEN Nth(P, k) ELSE ev[k - a]]
<1> HIDE DEF a, b
<1>8. \A k \in 1 .. (a + b) : e1[k] = IF k <= a THEN 0 ELSE ext[k - a]
  OBVIOUS
<1>9. \A k \in 1 .. (a + b) : e2[k] = IF k <= a THEN Nth(P, k) ELSE ev[k - a]
  OBVIOUS
<1> HIDE DEF e1, e2
<1>10. \A k \in 1 .. (a + b) : k <= a =>
         /\ k \in 1 .. a /\ e1[k] = 0 /\ e2[k] = Nth(P, k) /\ E[k] = A[k]
  BY <1>6, <1>7, <1>8, <1>9
<1>11. \A k \in 1 .. (a + b) : ~(k <= a) =>
         /\ k - a \in 1 .. b /\ e1[k] = ext[k - a] /\ e2[k] = ev[k - a] /\ E[k] = B[k - a]
         /\ e1[k] \in Q
  <2>1. \A k \in 1 .. (a + b) : ~(k <= a) =>
          k - a \in 1 .. b /\ e1[k] = ext[k - a] /\ e2[k] = ev[k - a] /\ E[k] = B[k - a]
    BY <1>6, <1>7, <1>8, <1>9
  <2>2. QED
    BY <1>4, <2>1
<1>12. ASSUME NEW k \in 1 .. (a + b)
       PROVE  IsPlace(block, e1[k], e2[k]) /\ E[k] = EventAt(block, e1[k], e2[k])
  <2>1. CASE k <= a
    BY <1>2, <1>10, <2>1 DEF IsPlace, EventAt, P, a
  <2>2. CASE ~(k <= a)
    <3>1. /\ e1[k] \in Q /\ e2[k] \in EvmPlaces(xs[e1[k]].events)
          /\ E[k] = xs[e1[k]].events[e2[k]] /\ e1[k] # 0
      BY <1>1, <1>4, <1>11, <2>2
    <3>2. QED
      BY <3>1 DEF IsPlace, EventAt, Q, xs
  <2>3. QED
    BY <2>1, <2>2
<1>13. ASSUME NEW k \in 1 .. (a + b), NEW l \in 1 .. (a + b), e1[k] = e1[l], e2[k] = e2[l]
       PROVE  k = l
  <2>1. CASE k <= a /\ l <= a
    BY <1>2, <1>10, <1>13, <2>1 DEF a
  <2>2. CASE ~(k <= a) /\ ~(l <= a)
    <3>1. k - a = l - a
      BY <1>4, <1>11, <1>13, <2>2
    <3>2. QED
      BY <1>6, <3>1
  <2>3. CASE k <= a /\ ~(l <= a)
    BY <1>1, <1>10, <1>11, <1>13, <2>3
  <2>4. CASE ~(k <= a) /\ l <= a
    BY <1>1, <1>10, <1>11, <1>13, <2>4
  <2>5. QED
    BY <2>1, <2>2, <2>3, <2>4
<1>14. ASSUME NEW i, NEW j, IsPlace(block, i, j)
       PROVE  \E k \in 1 .. (a + b) : e1[k] = i /\ e2[k] = j
  <2>1. CASE i = 0 /\ j \in P
    <3>1. PICK k \in 1 .. a : Nth(P, k) = j
      BY <1>2, <2>1 DEF a
    <3>2. k \in 1 .. (a + b) /\ k <= a
      BY <1>6
    <3>3. QED
      BY <1>10, <2>1, <3>1, <3>2
  <2>2. CASE i \in Q /\ j \in EvmPlaces(xs[i].events)
    <3>1. PICK k \in 1 .. b : ext[k] = i /\ ev[k] = j
      BY <1>4, <2>2
    <3>2. a + k \in 1 .. (a + b) /\ ~(a + k <= a) /\ (a + k) - a = k
      BY <1>6
    <3>3. QED
      BY <1>11, <3>1, <3>2
  <2>3. QED
    BY <1>14, <2>1, <2>2 DEF IsPlace, P, Q, xs
<1>15. Len(E) = a + b /\ Len(E) \in Nat
  BY <1>6, <1>7
<1>16. Placed(block, E, e1, e2)
  BY <1>12, <1>13, <1>14, <1>15 DEF Placed
<1>17. QED
  BY <1>7, <1>15, <1>16 DEF E

-----------------------------------------------------------------------------
(* Two lists one after the other. *)
LEMMA Joined ==
  ASSUME NEW S, NEW m \in Nat, NEW n \in Nat, NEW f \in [1 .. m -> S], NEW g \in [1 .. n -> S]
  PROVE  /\ f \o g \in Seq(S) /\ DOMAIN (f \o g) = 1 .. (m + n)
         /\ \A k \in 1 .. m : (f \o g)[k] = f[k]
         /\ \A k \in 1 .. n : (f \o g)[m + k] = g[k]
<1>1. f \in Seq(S) /\ g \in Seq(S) /\ Len(f) = m /\ Len(g) = n
  BY SeqDef, LenProperties
<1>2. /\ f \o g \in Seq(S) /\ Len(f \o g) = m + n
      /\ \A k \in 1 .. (m + n) : (f \o g)[k] = IF k <= m THEN f[k] ELSE g[k - m]
  BY <1>1, ConcatProperties
<1>3. DOMAIN (f \o g) = 1 .. (m + n)
  BY <1>2, LenProperties
<1>4. \A k \in 1 .. m : k \in 1 .. (m + n) /\ k <= m
  OBVIOUS
<1>5. \A k \in 1 .. n : m + k \in 1 .. (m + n) /\ ~(m + k <= m) /\ (m + k) - m = k
  OBVIOUS
<1>6. QED
  BY <1>2, <1>3, <1>4, <1>5

(* The receipts of a block before one of them is looked for. *)
AllReceipts(block, target) ==
  LET normal == Pick(block.extrinsics, Normal(block, target))
  IN  [k \in DOMAIN normal |-> ExtrinsicReceipt(normal[k], k - 1)]
        \o OrphanReceipts(OrphanEvents(block), Len(normal))

NormalCount(block, target) == Cardinality(Normal(block, target))

LEMMA ReceiptsAre ==
  ASSUME NEW block \in BlockRecord, NEW target
  PROVE  LET N == Normal(block, target)
             n == NormalCount(block, target)
             E == OrphanEvents(block)
             R == AllReceipts(block, target)
         IN  /\ n \in Nat /\ Len(E) \in Nat
             /\ N \in SUBSET DOMAIN block.extrinsics
             /\ \A k \in 1 .. n : Nth(N, k) \in N
             /\ \A k, l \in 1 .. n : Nth(N, k) = Nth(N, l) => k = l
             /\ \A i \in N : \E k \in 1 .. n : Nth(N, k) = i
             /\ DOMAIN R = 1 .. (n + Len(E)) /\ \E S : R \in Seq(S)
             /\ \A k \in 1 .. n : R[k] = ExtrinsicReceipt(block.extrinsics[Nth(N, k)], k - 1)
             /\ \A k \in 1 .. Len(E) :
                  R[n + k] = PartialReceipt(E[k], <<"orphan", k - 1>>, n + k - 1, 0)
<1> DEFINE xs == block.extrinsics
           N == Normal(block, target)
           n == NormalCount(block, target)
           E == OrphanEvents(block)
           normal == Pick(xs, N)
           f == [k \in DOMAIN normal |-> ExtrinsicReceipt(normal[k], k - 1)]
           g == OrphanReceipts(E, Len(normal))
           R == AllReceipts(block, target)
<1>1. xs \in Seq(ExtrinsicRecord) /\ N \in SUBSET DOMAIN xs
  BY BlockFields DEF Normal
<1>2. E \in Seq(EventRecord) /\ DOMAIN E = 1 .. Len(E) /\ Len(E) \in Nat
  BY OrphansPlaced
<1>3. R = f \o g
  BY DEF AllReceipts
<1> HIDE DEF N, xs, E, R
<1>4. /\ n \in Nat /\ Len(normal) = n /\ DOMAIN normal = 1 .. n
      /\ \A k \in 1 .. n : Nth(N, k) \in N /\ normal[k] = xs[Nth(N, k)]
      /\ \A k, l \in 1 .. n : Nth(N, k) = Nth(N, l) => k = l
      /\ \A i \in N : \E k \in 1 .. n : Nth(N, k) = i
  BY <1>1, Picked DEF NormalCount, N
<1> HIDE DEF normal, n
<1>5. f = [k \in 1 .. n |-> ExtrinsicReceipt(normal[k], k - 1)]
  BY <1>4
<1>6. g = [k \in 1 .. Len(E) |-> PartialReceipt(E[k], <<"orphan", k - 1>>, n + k - 1, 0)]
  BY <1>2, <1>4 DEF OrphanReceipts
<1> HIDE DEF f, g
<1> DEFINE S == {f[k] : k \in 1 .. n} \cup {g[k] : k \in 1 .. Len(E)}
<1>7. f \in [1 .. n -> S] /\ g \in [1 .. Len(E) -> S]
  BY <1>5, <1>6
<1> HIDE DEF S
<1>8. /\ R \in Seq(S) /\ DOMAIN R = 1 .. (n + Len(E))
      /\ \A k \in 1 .. n : R[k] = f[k]
      /\ \A k \in 1 .. Len(E) : R[n + k] = g[k]
  <2> DEFINE m == Len(E)
  <2>1. m \in Nat /\ n \in Nat /\ f \in [1 .. n -> S] /\ g \in [1 .. m -> S]
    BY <1>2, <1>4, <1>7
  <2> HIDE DEF m
  <2>2. /\ f \o g \in Seq(S) /\ DOMAIN (f \o g) = 1 .. (n + m)
        /\ \A k \in 1 .. n : (f \o g)[k] = f[k]
        /\ \A k \in 1 .. m : (f \o g)[n + k] = g[k]
    BY <2>1, Joined
  <2>3. QED
    BY <1>3, <2>2, Zenon DEF m
<1>9. \A k \in 1 .. n : R[k] = ExtrinsicReceipt(xs[Nth(N, k)], k - 1)
  BY <1>4, <1>5, <1>8
<1>10. \A k \in 1 .. Len(E) : R[n + k] = PartialReceipt(E[k], <<"orphan", k - 1>>, n + k - 1, 0)
  BY <1>6, <1>8
<1>11. \E T : R \in Seq(T)
  BY <1>8
<1>12. QED
  BY <1>1, <1>2, <1>4, <1>8, <1>9, <1>10, <1>11 DEF N, n, xs, E, R

(* The hash of an extrinsic is no orphan's, and the lookup of one is no    *)
(* lookup of all.                                                          *)
LEMMA HashesApart ==
  ASSUME NEW block \in BlockRecord, NEW i \in DOMAIN block.extrinsics
  PROVE  /\ block.extrinsics[i].hash # NoTarget
         /\ block.extrinsics[i].hash[1] = "extrinsic"
         /\ \A k : block.extrinsics[i].hash # <<"orphan", k>>
<1>1. block.extrinsics[i].hash \in {"extrinsic"} \X Nat
  BY BlockFields DEF ExtrinsicRecord
<1>2. PICK k \in Nat : block.extrinsics[i].hash = <<"extrinsic", k>>
  BY <1>1
<1>3. <<"extrinsic", k>> # <<"any">>
  <2>1. Len(<<"extrinsic", k>>) = 2 /\ Len(<<"any">>) = 1
    OBVIOUS
  <2>2. QED
    BY <2>1
<1>4. QED
  BY <1>2, <1>3 DEF NoTarget

LEMMA OrphanIsNoTarget == \A k : <<"orphan", k>> # NoTarget
<1>1. \A k : Len(<<"orphan", k>>) = 2
  OBVIOUS
<1>2. Len(<<"any">>) = 1
  OBVIOUS
<1>3. QED
  BY <1>1, <1>2 DEF NoTarget

(* The event that a receipt is made of. *)
EventOf(block, k) ==
  LET n == NormalCount(block, NoTarget)
  IN  IF k <= n THEN FindEvmEvent(block.extrinsics[Nth(Normal(block, NoTarget), k)].events)
      ELSE OrphanEvents(block)[k - n]

LEMMA NormalFields ==
  ASSUME NEW block \in Blocks, NEW i \in Normal(block, NoTarget)
  PROVE  /\ i \in DOMAIN block.extrinsics /\ i \in Nat \ {0}
         /\ block.extrinsics[i] \in ExtrinsicRecord
         /\ SucceededEvm(block.extrinsics[i]) /\ ~IsBatch(block.extrinsics[i])
         /\ EvmPlaces(block.extrinsics[i].events) # {}
         /\ NamedBy(block.extrinsics[i].events, i)
<1>1. block \in BlockRecord /\ i \in DOMAIN block.extrinsics
  BY BlocksAssumption DEF Normal
<1>2. i \in Nat \ {0} /\ block.extrinsics[i] \in ExtrinsicRecord
  BY <1>1, BlockFields
<1>3. SucceededEvm(block.extrinsics[i]) /\ ~IsBatch(block.extrinsics[i])
  BY DEF Normal
<1>4. EvmPlaces(block.extrinsics[i].events) # {}
  BY <1>3 DEF SucceededEvm
<1>5. NamedBy(block.extrinsics[i].events, i)
  BY <1>1, BlocksAssumption
<1>6. QED
  BY <1>1, <1>2, <1>3, <1>4, <1>5

LEMMA ReceiptParts ==
  ASSUME NEW block \in Blocks, NEW k \in DOMAIN ParseReceipts(block, NoTarget)
  PROVE  LET N == Normal(block, NoTarget)
             n == NormalCount(block, NoTarget)
             r == ParseReceipts(block, NoTarget)[k]
             e == EventOf(block, k)
         IN  /\ e \in EventRecord /\ k \in Nat /\ n \in Nat
             /\ r.transactionIndex = k - 1 /\ r.gas = e.gas
             /\ r.logs = [i \in DOMAIN e.logs |-> [logIndex |-> i - 1, log |-> e.logs[i]]]
             /\ k <= n => /\ Nth(N, k) \in N /\ k \in 1 .. n
                          /\ e = FindEvmEvent(block.extrinsics[Nth(N, k)].events)
                          /\ r = ExtrinsicReceipt(block.extrinsics[Nth(N, k)], k - 1)
                          /\ r.transactionHash = block.extrinsics[Nth(N, k)].hash
             /\ ~(k <= n) => /\ k - n \in 1 .. Len(OrphanEvents(block))
                             /\ e = OrphanEvents(block)[k - n]
                             /\ r = PartialReceipt(e, <<"orphan", k - n - 1>>, k - 1, 0)
                             /\ r.transactionHash = <<"orphan", k - n - 1>> /\ r.price = 0
<1> DEFINE N == Normal(block, NoTarget)
           n == NormalCount(block, NoTarget)
           E == OrphanEvents(block)
           R == ParseReceipts(block, NoTarget)
           e == EventOf(block, k)
<1>1. block \in BlockRecord
  BY BlocksAssumption
<1>2. /\ n \in Nat /\ Len(E) \in Nat /\ DOMAIN R = 1 .. (n + Len(E))
      /\ \A l \in 1 .. n : Nth(N, l) \in N
      /\ \A l \in 1 .. n : R[l] = ExtrinsicReceipt(block.extrinsics[Nth(N, l)], l - 1)
      /\ \A l \in 1 .. Len(E) : R[n + l] = PartialReceipt(E[l], <<"orphan", l - 1>>, n + l - 1, 0)
  <2>1. R = AllReceipts(block, NoTarget)
    BY DEF ParseReceipts, AllReceipts
  <2>2. QED
    BY <1>1, <2>1, ReceiptsAre
<1>3. E \in Seq(EventRecord)
  BY <1>1, OrphansPlaced
<1>4. k \in 1 .. (n + Len(E)) /\ k \in Nat
  BY <1>2
<1>5. CASE k <= n
  <2> DEFINE x == block.extrinsics[Nth(N, k)]
  <2>1. k \in 1 .. n /\ Nth(N, k) \in N
    BY <1>2, <1>4, <1>5
  <2>2. e = FindEvmEvent(x.events) /\ R[k] = ExtrinsicReceipt(x, k - 1)
    BY <1>2, <1>5, <2>1 DEF EventOf
  <2>3. x \in ExtrinsicRecord /\ EvmPlaces(x.events) # {} /\ ~IsBatch(x) /\ NamedBy(x.events, Nth(N, k))
    BY <2>1, NormalFields
  <2> HIDE DEF x, e, N, n, R
  <2>4. e \in EventRecord
    BY <2>2, <2>3, FoundEvent
  <2>5. R[k].transactionIndex = k - 1 /\ R[k].gas = e.gas /\ R[k].transactionHash = x.hash
        /\ R[k].logs = [i \in DOMAIN e.logs |-> [logIndex |-> i - 1, log |-> e.logs[i]]]
    BY <2>2 DEF ExtrinsicReceipt, PartialReceipt
  <2>6. QED
    BY <1>2, <1>4, <1>5, <2>1, <2>2, <2>4, <2>5 DEF x, e, N, n, R
<1>6. CASE ~(k <= n)
  <2> DEFINE l == k - n
  <2>1. l \in 1 .. Len(E) /\ n + l = k
    BY <1>2, <1>4, <1>6
  <2>2. e = E[l]
    BY <1>6 DEF EventOf
  <2>3. e \in EventRecord
    BY <1>3, <2>1, <2>2, ElementOfSeq
  <2>4. R[k] = PartialReceipt(e, <<"orphan", l - 1>>, k - 1, 0)
    BY <1>2, <2>1, <2>2
  <2> HIDE DEF e, R, N, n, E
  <2>5. R[k].transactionIndex = k - 1 /\ R[k].gas = e.gas
        /\ R[k].transactionHash = <<"orphan", l - 1>> /\ R[k].price = 0
        /\ R[k].logs = [i \in DOMAIN e.logs |-> [logIndex |-> i - 1, log |-> e.logs[i]]]
    BY <2>4 DEF PartialReceipt
  <2>6. QED
    BY <1>2, <1>4, <1>6, <2>1, <2>2, <2>3, <2>4, <2>5 DEF e, R, N, n, E
<1>7. QED
  BY <1>5, <1>6

(* One place and one hash each. *)
LEMMA ReceiptsNumbered ==
  ASSUME NEW block \in Blocks
  PROVE  Numbered(ParseReceipts(block, NoTarget))
<1> DEFINE N == Normal(block, NoTarget)
           n == NormalCount(block, NoTarget)
           R == ParseReceipts(block, NoTarget)
<1>1. block \in BlockRecord
  BY BlocksAssumption
<1>2. \A k, l \in 1 .. n : Nth(N, k) = Nth(N, l) => k = l
  BY <1>1, ReceiptsAre
<1> HIDE DEF N, n
<1>3. ASSUME NEW k \in DOMAIN R, NEW l \in DOMAIN R, k <= n, R[k].transactionHash = R[l].transactionHash
      PROVE  k = l
  <2> DEFINE i == Nth(N, k)
             j == Nth(N, l)
  <2>1. i \in N /\ k \in 1 .. n /\ R[k].transactionHash = block.extrinsics[i].hash
    BY <1>3, ReceiptParts DEF N, n
  <2>2. i \in DOMAIN block.extrinsics
    BY <2>1, NormalFields DEF N
  <2>3. CASE l <= n
    <3>1. j \in N /\ l \in 1 .. n /\ R[l].transactionHash = block.extrinsics[j].hash
      BY <2>3, ReceiptParts DEF N, n
    <3>2. j \in DOMAIN block.extrinsics
      BY <3>1, NormalFields DEF N
    <3>3. i = j
      BY <1>3, <2>1, <2>2, <3>1, <3>2, BlocksAssumption
    <3>4. QED
      BY <1>2, <2>1, <3>1, <3>3
  <2>4. CASE ~(l <= n)
    <3>1. R[l].transactionHash = <<"orphan", l - n - 1>>
      BY <2>4, ReceiptParts DEF n
    <3>2. QED
      BY <1>1, <1>3, <2>1, <2>2, <3>1, HashesApart
  <2>5. QED
    BY <2>3, <2>4
<1>4. ASSUME NEW k \in DOMAIN R, NEW l \in DOMAIN R, ~(k <= n), ~(l <= n),
             R[k].transactionHash = R[l].transactionHash
      PROVE  k = l
  <2>1. R[k].transactionHash = <<"orphan", k - n - 1>> /\ R[l].transactionHash = <<"orphan", l - n - 1>>
    BY <1>4, ReceiptParts DEF n
  <2>2. k \in Nat /\ l \in Nat /\ n \in Nat
    BY ReceiptParts DEF n
  <2> HIDE DEF R
  <2>3. \A a, b : <<"orphan", a>> = <<"orphan", b>> => a = b
    OBVIOUS
  <2>4. k - n - 1 = l - n - 1
    BY <1>4, <2>1, <2>3, Zenon
  <2>5. QED
    BY <2>2, <2>4
<1>5. \A k, l \in DOMAIN R : R[k].transactionHash = R[l].transactionHash => k = l
  <2> HIDE DEF R
  <2>1. QED
    BY <1>3, <1>4
<1>6. \A k \in DOMAIN R : R[k].transactionIndex = k - 1
  BY ReceiptParts
<1>7. QED
  BY <1>5, <1>6 DEF Numbered

(* What is charged is no more than what was paid. *)
LEMMA PriceIsPaid ==
  ASSUME NEW fee \in Nat, NEW gas \in Nat, NEW storage \in Int
  PROVE  EffectiveGasPrice(fee, gas, storage) * gas
           <= fee + Larger(storage, 0) * StorageByteDeposit
<1> DEFINE paid == fee + Larger(storage, 0) * StorageByteDeposit
<1>1. paid \in Nat
  <2>1. Larger(storage, 0) \in Nat /\ StorageByteDeposit \in Nat
    BY GasCodecAssumption DEF Larger
  <2>2. Larger(storage, 0) * StorageByteDeposit \in Nat
    BY <2>1, Z3
  <2>3. QED
    BY <2>2
<1>2. CASE gas = 0
  <2>1. OneHundredGwei \in Nat
    BY GasCodecAssumption DEF OneHundredGwei
  <2>2. EffectiveGasPrice(fee, gas, storage) * gas = 0
    BY <1>2, <2>1 DEF EffectiveGasPrice
  <2>3. QED
    BY <1>1, <2>2
<1>3. CASE gas # 0
  <2>1. EffectiveGasPrice(fee, gas, storage) = paid \div gas
    BY <1>3 DEF EffectiveGasPrice
  <2> HIDE DEF paid
  <2>2. paid \div gas \in Int /\ paid % gas \in Nat /\ paid = gas * (paid \div gas) + (paid % gas)
    BY <1>1, <1>3, DivFacts
  <2>3. QED
    BY <2>1, <2>2, Z3 DEF paid
<1>4. QED
  BY <1>2, <1>3

LEMMA ReceiptsPaidFor ==
  ASSUME NEW block \in Blocks, NEW k \in DOMAIN ParseReceipts(block, NoTarget),
         NEW i \in DOMAIN block.extrinsics,
         ParseReceipts(block, NoTarget)[k].transactionHash = block.extrinsics[i].hash
  PROVE  PaidFor(ParseReceipts(block, NoTarget)[k], block.extrinsics[i])
<1> DEFINE N == Normal(block, NoTarget)
           n == NormalCount(block, NoTarget)
           r == ParseReceipts(block, NoTarget)[k]
           x == block.extrinsics[i]
           e == FindEvmEvent(x.events)
           f == Nth(EvmPlaces(x.events), 1)
<1>1. block \in BlockRecord
  BY BlocksAssumption
<1>2. k <= n
  <2>1. ~(k <= n) => r.transactionHash = <<"orphan", k - n - 1>>
    BY ReceiptParts
  <2>2. QED
    BY <1>1, <2>1, HashesApart
<1>3. /\ Nth(N, k) \in N /\ r = ExtrinsicReceipt(block.extrinsics[Nth(N, k)], k - 1)
      /\ r.transactionHash = block.extrinsics[Nth(N, k)].hash
  BY <1>2, ReceiptParts
<1>4. Nth(N, k) = i
  <2>1. Nth(N, k) \in DOMAIN block.extrinsics
    BY <1>3, NormalFields
  <2>2. QED
    BY <1>3, <2>1, BlocksAssumption
<1>5. r = ExtrinsicReceipt(x, k - 1) /\ i \in N
  BY <1>3, <1>4
<1>6. x \in ExtrinsicRecord /\ EvmPlaces(x.events) # {} /\ ~IsBatch(x) /\ NamedBy(x.events, i)
  BY <1>5, NormalFields
<1> HIDE DEF x, r
<1>7. /\ e \in EventRecord /\ f \in DOMAIN x.events /\ IsFirst(f, EvmPlaces(x.events))
      /\ e.gas = x.events[f].gas /\ e.storage = x.events[f].storage
  BY <1>6, FoundEvent
<1>8. e.gas \in Nat /\ e.storage \in Int /\ x.fee \in Nat
  BY <1>6, <1>7, EventFields DEF ExtrinsicRecord
<1> HIDE DEF e, f
<1>9. /\ r.gas = e.gas
      /\ r.price = IF x.call = "setValidationData" THEN 0 ELSE EffectiveGasPrice(x.fee, e.gas, e.storage)
  BY <1>5 DEF ExtrinsicReceipt, PartialReceipt, e
<1>10. r.price * r.gas <= x.fee + Larger(e.storage, 0) * StorageByteDeposit
  <2>1. CASE x.call = "setValidationData"
    <3>1. Larger(e.storage, 0) \in Nat /\ StorageByteDeposit \in Nat
      BY <1>8, GasCodecAssumption DEF Larger
    <3>2. Larger(e.storage, 0) * StorageByteDeposit \in Nat
      BY <3>1, Z3
    <3>3. r.price * r.gas = 0
      BY <1>8, <1>9, <2>1
    <3>4. QED
      BY <1>8, <3>2, <3>3
  <2>2. CASE x.call # "setValidationData"
    <3>1. r.price = EffectiveGasPrice(x.fee, e.gas, e.storage)
      BY <1>9, <2>2
    <3>2. QED
      BY <1>8, <1>9, <3>1, PriceIsPaid
  <2>3. QED
    BY <2>1, <2>2
<1>11. PaidFor(r, x)
  BY <1>7, <1>9, <1>10 DEF PaidFor
<1>12. QED
  BY <1>11 DEF r, x

(* A filter that one place passes. *)
LEMMA OnePicked ==
  ASSUME NEW S, NEW s \in Seq(S), NEW i \in DOMAIN s
  PROVE  Len(Pick(s, {i})) = 1 /\ Pick(s, {i})[1] = s[i]
<1> DEFINE t == Pick(s, {i})
<1>1. {i} \in SUBSET DOMAIN s /\ Cardinality({i}) = 1
  BY FS_Singleton
<1>2. Len(t) = 1 /\ \A k \in 1 .. Len(t) : Nth({i}, k) \in {i} /\ t[k] = s[Nth({i}, k)]
  BY <1>1, Picked
<1> HIDE DEF t
<1>3. 1 \in 1 .. Len(t)
  BY <1>2
<1>4. Nth({i}, 1) = i /\ t[1] = s[Nth({i}, 1)]
  BY <1>2, <1>3
<1>5. QED
  BY <1>2, <1>4 DEF t

LEMMA IndexLeftOut ==
  \A e, hash, i, j, price :
    WithoutIndex(PartialReceipt(e, hash, i, price)) = WithoutIndex(PartialReceipt(e, hash, j, price))
<1> DEFINE Record(status, to, gas, logs, hash, i, price) ==
             [status |-> status, to |-> to, gas |-> gas, logs |-> logs,
              transactionHash |-> hash, transactionIndex |-> i, price |-> price]
<1>1. \A status, to, gas, logs, hash, i, price :
        WithoutIndex(Record(status, to, gas, logs, hash, i, price))
          = Record(status, to, gas, logs, hash, 0, price)
  BY DEF WithoutIndex
<1>2. \A e, hash, i, price : \E status, to, gas, logs : \A j :
        PartialReceipt(e, hash, j, price) = Record(status, to, gas, logs, hash, j, price)
  BY Zenon DEF PartialReceipt
<1> HIDE DEF Record
<1>3. TAKE e, hash, i, j, price
<1>4. PICK status, to, gas, logs : \A k :
        PartialReceipt(e, hash, k, price) = Record(status, to, gas, logs, hash, k, price)
  BY <1>2
<1>5. QED
  BY <1>1, <1>4

LEMMA NormalIsFound ==
  ASSUME NEW block \in Blocks, NEW i \in Normal(block, NoTarget), NEW place \in Int,
         NEW r, r = ExtrinsicReceipt(block.extrinsics[i], place)
  PROVE  FoundByHash(r, block)
<1> DEFINE x == block.extrinsics[i]
           h == x.hash
           Left == Normal(block, h)
           m == NormalCount(block, h)
           E == OrphanEvents(block)
           R == AllReceipts(block, h)
           P == {j \in DOMAIN R : R[j].transactionHash = h}
           q == ExtrinsicReceipt(x, 0)
<1>1. block \in BlockRecord /\ i \in DOMAIN block.extrinsics
  BY BlocksAssumption, NormalFields
<1>2. h # NoTarget /\ h[1] = "extrinsic" /\ \A k : h # <<"orphan", k>>
  BY <1>1, HashesApart
<1>3. Left = {i}
  <2>1. i \in Left
    BY <1>1 DEF Normal
  <2>2. \A j \in Left : j \in DOMAIN block.extrinsics /\ block.extrinsics[j].hash = h
    BY <1>2 DEF Normal
  <2>3. \A j \in Left : j = i
    BY <1>1, <2>2, BlocksAssumption
  <2>4. QED
    BY <2>1, <2>3
<1>4. m = 1 /\ Cardinality(Left) = 1
  BY <1>3, FS_Singleton DEF NormalCount
<1>5. /\ Len(E) \in Nat /\ DOMAIN R = 1 .. (m + Len(E)) /\ (\E S : R \in Seq(S))
      /\ \A k \in 1 .. m : Nth(Left, k) \in Left
      /\ \A k \in 1 .. m : R[k] = ExtrinsicReceipt(block.extrinsics[Nth(Left, k)], k - 1)
      /\ \A k \in 1 .. Len(E) : R[m + k] = PartialReceipt(E[k], <<"orphan", k - 1>>, m + k - 1, 0)
  BY <1>1, ReceiptsAre
<1> HIDE DEF Left, m, E, R
<1>6. 1 \in 1 .. m /\ 1 \in DOMAIN R
  BY <1>4, <1>5
<1>7. R[1] = q
  <2>1. Nth(Left, 1) = i /\ R[1] = ExtrinsicReceipt(block.extrinsics[Nth(Left, 1)], 1 - 1)
    BY <1>3, <1>5, <1>6
  <2>2. 1 - 1 = 0
    OBVIOUS
  <2>3. QED
    BY <2>1, <2>2 DEF q, x
<1>8. q.transactionHash = h
  BY DEF ExtrinsicReceipt, PartialReceipt
<1> HIDE DEF q, x
<1>9. P = {1}
  <2>1. ASSUME NEW j \in DOMAIN R, j # 1 PROVE R[j].transactionHash # h
    <3>1. j - 1 \in 1 .. Len(E) /\ m + (j - 1) = j
      BY <1>4, <1>5, <2>1
    <3>2. R[j] = PartialReceipt(E[j - 1], <<"orphan", (j - 1) - 1>>, m + (j - 1) - 1, 0)
      BY <1>5, <3>1
    <3>3. R[j].transactionHash = <<"orphan", (j - 1) - 1>>
      BY <3>2 DEF PartialReceipt
    <3>4. QED
      BY <1>2, <3>3
  <2>2. QED
    BY <1>6, <1>7, <1>8, <2>1
<1>10. Len(Pick(R, P)) = 1 /\ Pick(R, P)[1] = q
  <2>1. Len(Pick(R, {1})) = 1 /\ Pick(R, {1})[1] = R[1]
    BY <1>5, <1>6, OnePicked
  <2>2. QED
    BY <1>7, <1>9, <2>1
<1>11. r.transactionHash = h
  BY DEF ExtrinsicReceipt, PartialReceipt, x
<1>12. ParseReceipts(block, r.transactionHash) = Pick(R, P)
  BY <1>2, <1>11 DEF ParseReceipts, AllReceipts, R
<1>13. WithoutIndex(q) = WithoutIndex(r)
  BY IndexLeftOut DEF ExtrinsicReceipt, q, x
<1>14. r.transactionHash[1] # "orphan"
  BY <1>2, <1>11
<1>15. QED
  BY <1>10, <1>12, <1>13, <1>14 DEF FoundByHash

LEMMA OrphanIsFound ==
  ASSUME NEW block \in Blocks, NEW k \in 1 .. Len(OrphanEvents(block)), NEW place \in Int,
         NEW r, r = PartialReceipt(OrphanEvents(block)[k], <<"orphan", k - 1>>, place, 0)
  PROVE  FoundByHash(r, block)
<1> DEFINE h == <<"orphan", k - 1>>
           Left == Normal(block, h)
           m == NormalCount(block, h)
           E == OrphanEvents(block)
           R == AllReceipts(block, h)
           P == {j \in DOMAIN R : R[j].transactionHash = h}
           q == PartialReceipt(E[k], h, k - 1, 0)
<1>1. block \in BlockRecord
  BY BlocksAssumption
<1>2. h # NoTarget /\ \A i \in DOMAIN block.extrinsics : block.extrinsics[i].hash # h
  BY <1>1, HashesApart, OrphanIsNoTarget
<1>3. Left = {}
  BY <1>2 DEF Normal
<1>4. m = 0
  BY <1>3, FS_EmptySet DEF NormalCount
<1>5. /\ Len(E) \in Nat /\ DOMAIN R = 1 .. (m + Len(E)) /\ (\E S : R \in Seq(S))
      /\ \A l \in 1 .. Len(E) : R[m + l] = PartialReceipt(E[l], <<"orphan", l - 1>>, m + l - 1, 0)
  BY <1>1, ReceiptsAre
<1> HIDE DEF Left, m, E, R
<1>6. /\ DOMAIN R = 1 .. Len(E) /\ k \in DOMAIN R
      /\ \A l \in DOMAIN R : R[l] = PartialReceipt(E[l], <<"orphan", l - 1>>, l - 1, 0)
  <2>1. DOMAIN R = 1 .. Len(E) /\ \A l \in 1 .. Len(E) : m + l = l /\ m + l - 1 = l - 1
    BY <1>4, <1>5
  <2>2. QED
    BY <1>5, <2>1 DEF E
<1>7. R[k] = q
  BY <1>6
<1>8. P = {k}
  <2>1. \A l \in DOMAIN R : R[l].transactionHash = <<"orphan", l - 1>>
    BY <1>6 DEF PartialReceipt
  <2>2. \A a, b : <<"orphan", a>> = <<"orphan", b>> => a = b
    OBVIOUS
  <2>3. \A l \in DOMAIN R : R[l].transactionHash = h => l - 1 = k - 1
    BY <2>1, <2>2, Zenon DEF h
  <2>4. \A l \in DOMAIN R : R[l].transactionHash = h => l = k
    BY <1>6, <2>3
  <2>5. QED
    BY <1>6, <2>1, <2>4
<1> HIDE DEF P, q
<1>9. Len(Pick(R, P)) = 1 /\ Pick(R, P)[1] = q
  BY <1>5, <1>6, <1>7, <1>8, OnePicked
<1>10. r.transactionHash = h /\ r.price = 0
  BY DEF PartialReceipt
<1>11. ParseReceipts(block, r.transactionHash) = Pick(R, P)
  BY <1>2, <1>10 DEF ParseReceipts, AllReceipts, R, P
<1>12. WithoutIndex(q) = WithoutIndex(r)
  BY IndexLeftOut DEF q, E
<1>13. ReceiptToTransaction(r, block).nonce = "zero"
  <2>1. {i \in DOMAIN block.extrinsics : block.extrinsics[i].hash = r.transactionHash} = {}
    BY <1>2, <1>10
  <2>2. QED
    BY <2>1 DEF ReceiptToTransaction
<1>14. QED
  BY <1>9, <1>10, <1>11, <1>12, <1>13 DEF FoundByHash

(* Parsing a block for one transaction gives its receipt. *)
LEMMA ReceiptsFound ==
  ASSUME NEW block \in Blocks, NEW k \in DOMAIN ParseReceipts(block, NoTarget)
  PROVE  FoundByHash(ParseReceipts(block, NoTarget)[k], block)
<1> DEFINE n == NormalCount(block, NoTarget)
           N == Normal(block, NoTarget)
           r == ParseReceipts(block, NoTarget)[k]
<1>1. k - 1 \in Int
  BY ReceiptParts
<1>2. CASE k <= n
  <2>1. Nth(N, k) \in N /\ r = ExtrinsicReceipt(block.extrinsics[Nth(N, k)], k - 1)
    BY <1>2, ReceiptParts
  <2>2. QED
    BY <1>1, <2>1, NormalIsFound
<1>3. CASE ~(k <= n)
  <2> DEFINE l == k - n
  <2>1. /\ l \in 1 .. Len(OrphanEvents(block))
        /\ r = PartialReceipt(OrphanEvents(block)[l], <<"orphan", l - 1>>, k - 1, 0)
    BY <1>3, ReceiptParts
  <2> HIDE DEF l
  <2>2. QED
    BY <1>1, <2>1, OrphanIsFound
<1>4. QED
  BY <1>2, <1>3

(* The logs that a block should have, by the places they are named by. *)
LogPlace(block, i, j, m) ==
  \/ i = 0 /\ j \in EvmPlaces(block.events) /\ m \in DOMAIN block.events[j].logs
  \/ /\ i \in DOMAIN block.extrinsics /\ SucceededEvm(block.extrinsics[i])
     /\ j \in Merged(block.extrinsics[i])
     /\ m \in DOMAIN block.extrinsics[i].events[j].logs

LEMMA NamesAt ==
  ASSUME NEW events, NEW n, NamedBy(events, n), NEW P \in SUBSET DOMAIN events
  PROVE  \A log : log \in LogsAt(events, P)
                    <=> \E j \in P : \E m \in DOMAIN events[j].logs : log = <<n, j, m>>
<1>1. \A j \in P : ToSet(events[j].logs) = {<<n, j, m>> : m \in DOMAIN events[j].logs}
  BY DEF ToSet, NamedBy
<1>2. QED
  BY <1>1 DEF LogsAt

LEMMA ExpectedAre ==
  ASSUME NEW block \in Blocks
  PROVE  \A log : log \in ExpectedLogs(block)
                    <=> \E i, j, m : LogPlace(block, i, j, m) /\ log = <<i, j, m>>
<1> DEFINE xs == block.extrinsics
           Q == {i \in DOMAIN xs : SucceededEvm(xs[i])}
<1>1. NamedBy(block.events, 0) /\ \A i \in DOMAIN xs : NamedBy(xs[i].events, i)
  BY BlocksAssumption
<1>2. EvmPlaces(block.events) \in SUBSET DOMAIN block.events
  BY DEF EvmPlaces
<1>3. \A i \in DOMAIN xs : Merged(xs[i]) \in SUBSET DOMAIN xs[i].events
  BY DEF EvmPlaces, Merged
<1>4. TAKE log
<1>5. log \in LogsAt(block.events, EvmPlaces(block.events))
        <=> \E j \in EvmPlaces(block.events) : \E m \in DOMAIN block.events[j].logs : log = <<0, j, m>>
  BY <1>1, <1>2, NamesAt
<1>6. \A i \in DOMAIN xs :
        log \in LogsAt(xs[i].events, Merged(xs[i]))
          <=> \E j \in Merged(xs[i]) : \E m \in DOMAIN xs[i].events[j].logs : log = <<i, j, m>>
  <2>1. TAKE i \in DOMAIN xs
  <2>2. NamedBy(xs[i].events, i) /\ Merged(xs[i]) \in SUBSET DOMAIN xs[i].events
    BY <1>1, <1>3
  <2> HIDE DEF xs
  <2>3. QED
    BY <2>2, NamesAt
<1>7. log \in ExpectedLogs(block)
        <=> \/ log \in LogsAt(block.events, EvmPlaces(block.events))
            \/ \E i \in Q : log \in LogsAt(xs[i].events, Merged(xs[i]))
  BY DEF ExpectedLogs
<1>8. QED
  BY <1>5, <1>6, <1>7, Zenon DEF LogPlace

LEMMA Triples ==
  \A a, b, c, x, y, z : <<a, b, c>> = <<x, y, z>> => a = x /\ b = y /\ c = z
OBVIOUS

(* Every one of them is in one receipt, once. *)
LEMMA LogsApart ==
  ASSUME NEW block \in Blocks
  PROVE  LET D == DOMAIN ParseReceipts(block, NoTarget)
             Logs(k) == EventOf(block, k).logs
         IN  /\ \A k, l \in D : \A i \in DOMAIN Logs(k), j \in DOMAIN Logs(l) :
                  Logs(k)[i] = Logs(l)[j] => k = l /\ i = j
             /\ \A k \in D : \A i \in DOMAIN Logs(k) : Logs(k)[i] \in ExpectedLogs(block)
             /\ \A log \in ExpectedLogs(block) :
                  \E k \in D : \E i \in DOMAIN Logs(k) : Logs(k)[i] = log
<1> DEFINE xs == block.extrinsics
           N == Normal(block, NoTarget)
           n == NormalCount(block, NoTarget)
           E == OrphanEvents(block)
           D == DOMAIN ParseReceipts(block, NoTarget)
           Logs(k) == EventOf(block, k).logs
<1>1. block \in BlockRecord
  BY BlocksAssumption
<1>2. PICK ext, ev : Placed(block, E, ext, ev)
  BY <1>1, OrphansPlaced
<1>3. /\ n \in Nat /\ Len(E) \in Nat /\ D = 1 .. (n + Len(E))
      /\ \A k, l \in 1 .. n : Nth(N, k) = Nth(N, l) => k = l
      /\ \A i \in N : \E k \in 1 .. n : Nth(N, k) = i
  <2>1. D = DOMAIN AllReceipts(block, NoTarget)
    BY DEF ParseReceipts, AllReceipts
  <2>2. QED
    BY <1>1, <2>1, ReceiptsAre
<1>4. ASSUME NEW k \in D, k <= n
      PROVE  LET i == Nth(N, k)
             IN  /\ i \in N /\ k \in 1 .. n
                 /\ \A a, b \in DOMAIN Logs(k) : Logs(k)[a] = Logs(k)[b] => a = b
                 /\ \A a \in DOMAIN Logs(k) : \E j \in Merged(xs[i]) :
                      \E m \in DOMAIN xs[i].events[j].logs : Logs(k)[a] = <<i, j, m>>
                 /\ \A j \in Merged(xs[i]) : \A m \in DOMAIN xs[i].events[j].logs :
                      \E a \in DOMAIN Logs(k) : Logs(k)[a] = <<i, j, m>>
  <2> DEFINE i == Nth(N, k)
  <2>1. i \in N /\ k \in 1 .. n /\ EventOf(block, k) = FindEvmEvent(xs[i].events)
    BY <1>4, ReceiptParts
  <2>2. xs[i] \in ExtrinsicRecord /\ EvmPlaces(xs[i].events) # {} /\ ~IsBatch(xs[i]) /\ NamedBy(xs[i].events, i)
    BY <2>1, NormalFields
  <2> DEFINE x == xs[i]
             e == FindEvmEvent(x.events)
  <2>3. x \in ExtrinsicRecord /\ EvmPlaces(x.events) # {} /\ ~IsBatch(x) /\ NamedBy(x.events, i)
    BY <2>2
  <2> HIDE DEF i, x
  <2>4. /\ \A a, b \in DOMAIN e.logs : e.logs[a] = e.logs[b] => a = b
        /\ \A a \in DOMAIN e.logs : \E j \in Merged(x) :
             \E m \in DOMAIN x.events[j].logs : e.logs[a] = <<i, j, m>>
        /\ \A j \in Merged(x) : \A m \in DOMAIN x.events[j].logs :
             \E a \in DOMAIN e.logs : e.logs[a] = <<i, j, m>>
    BY <2>3, FoundEvent, ZenonT(60)
  <2>5. QED
    BY <2>1, <2>4 DEF i, x
<1>5. ASSUME NEW k \in D, ~(k <= n)
      PROVE  /\ k - n \in 1 .. Len(E)
             /\ IsPlace(block, ext[k - n], ev[k - n])
             /\ \A m \in DOMAIN Logs(k) : Logs(k)[m] = <<ext[k - n], ev[k - n], m>>
             /\ DOMAIN Logs(k) = DOMAIN EventAt(block, ext[k - n], ev[k - n]).logs
  <2> DEFINE i == ext[k - n]
             j == ev[k - n]
  <2>1. k - n \in 1 .. Len(E) /\ EventOf(block, k) = E[k - n]
    BY <1>5, ReceiptParts
  <2>2. IsPlace(block, i, j) /\ E[k - n] = EventAt(block, i, j)
    BY <1>2, <2>1 DEF Placed
  <2> HIDE DEF i, j
  <2>3. \A m \in DOMAIN EventAt(block, i, j).logs : EventAt(block, i, j).logs[m] = <<i, j, m>>
    <3>1. CASE i = 0 /\ j \in EvmPlaces(block.events)
      BY <3>1, BlocksAssumption DEF EventAt, EvmPlaces, NamedBy
    <3>2. CASE i \in Batches(block) /\ j \in EvmPlaces(xs[i].events)
      <4>1. i \in DOMAIN xs /\ i # 0 /\ j \in DOMAIN xs[i].events
        BY <1>1, <3>2, BlockFields DEF Batches, EvmPlaces
      <4>2. NamedBy(xs[i].events, i)
        BY <4>1, BlocksAssumption
      <4>3. QED
        BY <4>1, <4>2 DEF EventAt, NamedBy
    <3>3. QED
      BY <2>2, <3>1, <3>2 DEF IsPlace
  <2>4. QED
    BY <2>1, <2>2, <2>3 DEF i, j
<1>6. \A i \in N : i \in DOMAIN xs /\ i # 0 /\ i \notin Batches(block) /\ SucceededEvm(xs[i])
  <2>1. \A i \in N : i \in DOMAIN xs /\ i # 0 /\ ~IsBatch(xs[i]) /\ SucceededEvm(xs[i])
    BY NormalFields
  <2>2. QED
    BY <2>1 DEF Batches
<1>7. \A i, j : IsPlace(block, i, j) => i \notin N
  BY <1>6 DEF IsPlace
<1> HIDE DEF D, N, n, E, Logs, xs
<1>8. ASSUME NEW k \in D, NEW l \in D, NEW i \in DOMAIN Logs(k), NEW j \in DOMAIN Logs(l),
             Logs(k)[i] = Logs(l)[j]
      PROVE  k = l /\ i = j
  <2>1. CASE k <= n /\ l <= n
    <3>1. Nth(N, k) = Nth(N, l) /\ k \in 1 .. n /\ l \in 1 .. n
      BY <1>4, <1>8, <2>1
    <3>2. k = l
      BY <1>3, <3>1
    <3>3. QED
      BY <1>4, <1>8, <2>1, <3>2
  <2>2. CASE ~(k <= n) /\ ~(l <= n)
    <3>1. /\ Logs(k)[i] = <<ext[k - n], ev[k - n], i>> /\ Logs(l)[j] = <<ext[l - n], ev[l - n], j>>
          /\ k - n \in 1 .. Len(E) /\ l - n \in 1 .. Len(E)
      BY <1>5, <2>2
    <3>2. ext[k - n] = ext[l - n] /\ ev[k - n] = ev[l - n] /\ i = j
      <4>1. <<ext[k - n], ev[k - n], i>> = <<ext[l - n], ev[l - n], j>>
        BY <1>8, <3>1, Zenon
      <4>2. QED
        BY <4>1, Triples, Zenon
    <3>3. k - n = l - n
      BY <1>2, <3>1, <3>2 DEF Placed
    <3>4. k \in Nat /\ l \in Nat
      BY <1>3
    <3>5. QED
      BY <1>3, <3>2, <3>3, <3>4
  <2>3. CASE k <= n /\ ~(l <= n)
    <3>1. Nth(N, k) \in N /\ \E a, b : Logs(k)[i] = <<Nth(N, k), a, b>>
      BY <1>4, <2>3
    <3>2. ext[l - n] \notin N /\ Logs(l)[j] = <<ext[l - n], ev[l - n], j>>
      BY <1>5, <1>7, <2>3
    <3>3. PICK a, b : Logs(k)[i] = <<Nth(N, k), a, b>>
      BY <3>1
    <3>4. <<Nth(N, k), a, b>> = <<ext[l - n], ev[l - n], j>>
      BY <1>8, <3>2, <3>3, Zenon
    <3>5. Nth(N, k) = ext[l - n]
      BY <3>4, Triples, Zenon
    <3>6. QED
      BY <3>1, <3>2, <3>5
  <2>4. CASE ~(k <= n) /\ l <= n
    <3>1. Nth(N, l) \in N /\ \E a, b : Logs(l)[j] = <<Nth(N, l), a, b>>
      BY <1>4, <2>4
    <3>2. ext[k - n] \notin N /\ Logs(k)[i] = <<ext[k - n], ev[k - n], i>>
      BY <1>5, <1>7, <2>4
    <3>3. PICK a, b : Logs(l)[j] = <<Nth(N, l), a, b>>
      BY <3>1
    <3>4. <<Nth(N, l), a, b>> = <<ext[k - n], ev[k - n], i>>
      BY <1>8, <3>2, <3>3, Zenon
    <3>5. Nth(N, l) = ext[k - n]
      BY <3>4, Triples, Zenon
    <3>6. QED
      BY <3>1, <3>2, <3>5
  <2>5. QED
    BY <2>1, <2>2, <2>3, <2>4
<1>9. \A i \in Batches(block) : /\ i \in DOMAIN xs /\ i # 0 /\ SucceededEvm(xs[i]) /\ IsBatch(xs[i])
                                /\ Merged(xs[i]) = EvmPlaces(xs[i].events)
  <2>1. \A i \in Batches(block) : i \in DOMAIN xs /\ i # 0 /\ SucceededEvm(xs[i]) /\ IsBatch(xs[i])
    BY <1>1, BlockFields DEF Batches, xs
  <2>2. \A x : IsBatch(x) => Merged(x) = EvmPlaces(x.events)
    BY DEF Merged
  <2>3. QED
    BY <2>1, <2>2
<1>10. ASSUME NEW k \in D, NEW m \in DOMAIN Logs(k)
       PROVE  Logs(k)[m] \in ExpectedLogs(block)
  <2>1. CASE k <= n
    <3>1. Nth(N, k) \in N /\ \E j \in Merged(xs[Nth(N, k)]) :
            \E a \in DOMAIN xs[Nth(N, k)].events[j].logs : Logs(k)[m] = <<Nth(N, k), j, a>>
      BY <1>4, <2>1
    <3>2. \E i, j, a : LogPlace(block, i, j, a) /\ Logs(k)[m] = <<i, j, a>>
      BY <1>6, <3>1 DEF LogPlace, xs
    <3>3. QED
      BY <3>2, ExpectedAre
  <2>2. CASE ~(k <= n)
    <3> DEFINE i == ext[k - n]
               j == ev[k - n]
    <3>1. /\ IsPlace(block, i, j) /\ Logs(k)[m] = <<i, j, m>>
          /\ m \in DOMAIN EventAt(block, i, j).logs
      BY <1>5, <2>2
    <3> HIDE DEF i, j
    <3>2. LogPlace(block, i, j, m)
      BY <1>9, <3>1 DEF LogPlace, IsPlace, EventAt, xs
    <3>3. QED
      BY <3>1, <3>2, ExpectedAre
  <2>3. QED
    BY <2>1, <2>2
<1>11. ASSUME NEW log \in ExpectedLogs(block)
       PROVE  \E k \in D : \E a \in DOMAIN Logs(k) : Logs(k)[a] = log
  <2>1. PICK i, j, m : LogPlace(block, i, j, m) /\ log = <<i, j, m>>
    BY ExpectedAre
  <2>2. CASE i \in N
    <3>1. PICK k \in 1 .. n : Nth(N, k) = i
      BY <1>3, <2>2
    <3>2. k \in D /\ k <= n
      BY <1>3
    <3>3. j \in Merged(xs[i]) /\ m \in DOMAIN xs[i].events[j].logs
      BY <1>6, <2>1, <2>2 DEF LogPlace, xs
    <3>4. QED
      BY <1>4, <2>1, <3>1, <3>2, <3>3
  <2>3. CASE i \notin N
    <3>1. IsPlace(block, i, j) /\ m \in DOMAIN EventAt(block, i, j).logs
      <4>1. CASE i = 0 /\ j \in EvmPlaces(block.events) /\ m \in DOMAIN block.events[j].logs
        BY <4>1 DEF IsPlace, EventAt
      <4>2. CASE /\ i \in DOMAIN xs /\ SucceededEvm(xs[i])
                 /\ j \in Merged(xs[i]) /\ m \in DOMAIN xs[i].events[j].logs
        <5>1. i \in Batches(block)
          BY <2>3, <4>2 DEF N, Normal, Batches, xs
        <5>2. QED
          BY <1>9, <4>2, <5>1 DEF IsPlace, EventAt, xs
      <4>3. QED
        BY <2>1, <4>1, <4>2 DEF LogPlace, xs
    <3>2. PICK k \in 1 .. Len(E) : ext[k] = i /\ ev[k] = j
      BY <1>2, <3>1 DEF Placed
    <3>3. n + k \in D /\ ~(n + k <= n) /\ (n + k) - n = k
      BY <1>3
    <3>4. m \in DOMAIN Logs(n + k) /\ Logs(n + k)[m] = <<i, j, m>>
      BY <1>5, <3>1, <3>2, <3>3
    <3>5. QED
      BY <2>1, <3>3, <3>4
  <2>4. QED
    BY <2>2, <2>3
<1>12. QED
  BY <1>8, <1>10, <1>11, Zenon DEF D, Logs

(* Every log is in one entity of the indexer. *)
LEMMA LogsAreStored ==
  ASSUME NEW block \in Blocks
  PROVE  Stored(LogEntities(block), ExpectedLogs(block))
<1> DEFINE R == ParseReceipts(block, NoTarget)
           n == NormalCount(block, NoTarget) + Len(OrphanEvents(block))
           ls == [k \in DOMAIN R |-> EntitiesOf(R[k], k)]
           es == LogEntities(block)
           Logs(k) == EventOf(block, k).logs
           Entities == [id : Nat \X Nat, log : Nat \X Nat \X Nat]
<1>1. block \in BlockRecord
  BY BlocksAssumption
<1>2. DOMAIN R = 1 .. n /\ n \in Nat
  <2>1. R = AllReceipts(block, NoTarget)
    BY DEF ParseReceipts, AllReceipts
  <2>2. QED
    BY <1>1, <2>1, ReceiptsAre
<1>3. \A k \in 1 .. n : /\ Logs(k) \in Seq(Nat \X Nat \X Nat)
                        /\ DOMAIN Logs(k) = 1 .. Len(Logs(k)) /\ Len(Logs(k)) \in Nat
  BY <1>2, ReceiptParts, EventFields
<1>4. \A k \in 1 .. n :
        ls[k] = [i \in DOMAIN Logs(k) |-> [id |-> <<k - 1, i - 1>>, log |-> Logs(k)[i]]]
  <2> SUFFICES ASSUME NEW k \in 1 .. n
               PROVE  ls[k] = [i \in DOMAIN Logs(k) |-> [id |-> <<k - 1, i - 1>>, log |-> Logs(k)[i]]]
    OBVIOUS
  <2>1. R[k].logs = [i \in DOMAIN Logs(k) |-> [logIndex |-> i - 1, log |-> Logs(k)[i]]]
    BY <1>2, ReceiptParts
  <2>2. ls[k] = EntitiesOf(R[k], k)
    BY <1>2
  <2> HIDE DEF ls, R, Logs
  <2>3. /\ DOMAIN R[k].logs = DOMAIN Logs(k)
        /\ \A i \in DOMAIN Logs(k) : R[k].logs[i].logIndex = i - 1 /\ R[k].logs[i].log = Logs(k)[i]
    BY <2>1
  <2>4. QED
    BY <2>2, <2>3 DEF EntitiesOf
<1>5. es = FlattenSeq(ls)
  BY DEF LogEntities
<1>6. \A k, l \in 1 .. n : \A i \in DOMAIN Logs(k), j \in DOMAIN Logs(l) :
        Logs(k)[i] = Logs(l)[j] => k = l /\ i = j
  BY <1>2, LogsApart
<1>7. \A k \in 1 .. n : \A i \in DOMAIN Logs(k) : Logs(k)[i] \in ExpectedLogs(block)
  BY <1>2, LogsApart
<1>8. \A log \in ExpectedLogs(block) : \E k \in 1 .. n : \E i \in DOMAIN Logs(k) : Logs(k)[i] = log
  BY <1>2, LogsApart
<1>9. ls = [k \in 1 .. n |-> ls[k]]
  BY <1>2
<1> HIDE DEF n, ls, R, Logs, es
<1>10. ASSUME NEW k \in 1 .. n PROVE ls[k] \in Seq(Entities) /\ Len(ls[k]) = Len(Logs(k))
  <2> DEFINE c == Len(Logs(k))
  <2>1. c \in Nat /\ DOMAIN Logs(k) = 1 .. c /\ \A i \in 1 .. c : Logs(k)[i] \in Nat \X Nat \X Nat
    BY <1>3, ElementOfSeq
  <2>2. ls[k] = [i \in 1 .. c |-> [id |-> <<k - 1, i - 1>>, log |-> Logs(k)[i]]]
    BY <1>4, <2>1
  <2>3. k - 1 \in Nat /\ \A i \in 1 .. c : i - 1 \in Nat
    BY <1>2, <2>1
  <2> HIDE DEF c
  <2>4. ls[k] \in [1 .. c -> Entities]
    BY <2>1, <2>2, <2>3
  <2> HIDE DEF Entities
  <2>5. ls[k] \in Seq(Entities)
    BY <2>1, <2>4, SeqDef
  <2>6. Len(ls[k]) = c
    BY <2>1, <2>4, <2>5, LenProperties
  <2>7. QED
    BY <2>5, <2>6 DEF c
<1> HIDE DEF Entities
<1>11. ls \in Seq(Seq(Entities)) /\ Len(ls) = n
  <2>1. ls \in [1 .. n -> Seq(Entities)]
    BY <1>9, <1>10
  <2>2. QED
    BY <1>2, <2>1, SeqDef, LenProperties
<1>12. es \in Seq(Entities) /\ DOMAIN es = 1 .. Len(es) /\ \E row, col : Lists(es, ls, n, row, col)
  BY <1>5, <1>11, Flattened
<1>13. PICK row, col : Lists(es, ls, n, row, col)
  BY <1>12
<1>14. ASSUME NEW q \in 1 .. Len(es)
       PROVE  /\ row[q] \in 1 .. n /\ col[q] \in DOMAIN Logs(row[q]) /\ col[q] \in Nat
              /\ es[q] = [id |-> <<row[q] - 1, col[q] - 1>>, log |-> Logs(row[q])[col[q]]]
  <2>1. row[q] \in 1 .. n /\ col[q] \in 1 .. Len(ls[row[q]]) /\ es[q] = ls[row[q]][col[q]]
    BY <1>13 DEF Lists
  <2>2. Len(ls[row[q]]) = Len(Logs(row[q])) /\ Len(Logs(row[q])) \in Nat
        /\ DOMAIN Logs(row[q]) = 1 .. Len(Logs(row[q]))
    BY <1>3, <1>10, <2>1
  <2>3. col[q] \in DOMAIN Logs(row[q]) /\ col[q] \in Nat
    BY <2>1, <2>2
  <2>4. QED
    BY <1>4, <2>1, <2>3
<1>15. {es[q].log : q \in DOMAIN es} = ExpectedLogs(block)
  <2>1. ASSUME NEW q \in DOMAIN es PROVE es[q].log \in ExpectedLogs(block)
    BY <1>7, <1>12, <1>14
  <2>2. ASSUME NEW log \in ExpectedLogs(block) PROVE \E q \in DOMAIN es : es[q].log = log
    <3>1. PICK k \in 1 .. n : \E i \in DOMAIN Logs(k) : Logs(k)[i] = log
      BY <1>8
    <3>2. PICK i \in DOMAIN Logs(k) : Logs(k)[i] = log
      BY <3>1
    <3>3. i \in 1 .. Len(ls[k])
      BY <1>3, <1>10
    <3>4. PICK q \in 1 .. Len(es) : row[q] = k /\ col[q] = i
      BY <1>13, <3>3 DEF Lists
    <3>5. es[q].log = Logs(row[q])[col[q]]
      <4>1. es[q] = [id |-> <<row[q] - 1, col[q] - 1>>, log |-> Logs(row[q])[col[q]]]
        BY <1>14
      <4>2. QED
        BY <4>1
    <3>6. QED
      BY <1>12, <3>2, <3>4, <3>5
  <2>3. QED
    BY <2>1, <2>2
<1>16. ASSUME NEW p \in DOMAIN es, NEW q \in DOMAIN es, es[p].id = es[q].id \/ es[p].log = es[q].log
       PROVE  p = q
  <2>1. /\ row[p] \in 1 .. n /\ col[p] \in DOMAIN Logs(row[p]) /\ col[p] \in Nat
        /\ es[p].id = <<row[p] - 1, col[p] - 1>> /\ es[p].log = Logs(row[p])[col[p]]
    BY <1>12, <1>14
  <2>2. /\ row[q] \in 1 .. n /\ col[q] \in DOMAIN Logs(row[q]) /\ col[q] \in Nat
        /\ es[q].id = <<row[q] - 1, col[q] - 1>> /\ es[q].log = Logs(row[q])[col[q]]
    BY <1>12, <1>14
  <2>3. row[p] = row[q] /\ col[p] = col[q]
    <3>1. CASE es[p].id = es[q].id
      <4>1. row[p] - 1 = row[q] - 1 /\ col[p] - 1 = col[q] - 1
        BY <2>1, <2>2, <3>1
      <4>2. row[p] \in Nat /\ row[q] \in Nat
        BY <1>2, <2>1, <2>2
      <4>3. QED
        BY <2>1, <2>2, <4>1, <4>2
    <3>2. CASE es[p].log = es[q].log
      <4>1. Logs(row[p])[col[p]] = Logs(row[q])[col[q]]
        BY <2>1, <2>2, <3>2
      <4>2. QED
        BY <1>6, <2>1, <2>2, <4>1, ZenonT(60)
    <3>3. QED
      BY <1>16, <3>1, <3>2
  <2>4. QED
    BY <1>12, <1>13, <2>3 DEF Lists
<1>17. Stored(es, ExpectedLogs(block))
  BY <1>15, <1>16 DEF Stored
<1>18. QED
  BY <1>17 DEF es

LEMMA BlockIsParsed ==
  ASSUME NEW block \in Blocks PROVE BlockParsed(block)
BY ReceiptsNumbered, LogsAreStored, ReceiptsFound, ReceiptsPaidFor DEF BlockParsed

(* Whatever extrinsics a block has, of whichever events: every log of an   *)
(* event that counts is in one receipt and in one entity of the indexer,   *)
(* the receipts' places and hashes are theirs alone, the receipt of each   *)
(* transaction is found by its hash, and no sender is charged more than    *)
(* was paid.                                                               *)
THEOREM EveryLogIsOnce == Spec => []EveryLogOnce
<1>1. JobGiven => EveryLogOnce
  BY BlockIsParsed DEF JobGiven, EveryLogOnce
<1>2. QED
  BY <1>1, JobIsGiven, PTL

-----------------------------------------------------------------------------
(* Two values are the same in lower case if they have the same digits. *)
LEMMA LowerSame ==
  ASSUME NEW v \in Digits, NEW w \in Digits
  PROVE  Lower(v) = Lower(w) <=> SameHex(v, w)
<1>1. Lower(v) = [id |-> v.id, case |-> "lower"] /\ Lower(w) = [id |-> w.id, case |-> "lower"]
  BY DEF Lower, Digits
<1>2. QED
  BY <1>1 DEF SameHex

LEMMA LowerAllSame ==
  ASSUME NEW v \in Digits, NEW s \in Seq(Digits)
  PROVE  Lower(v) \in LowerAll(s) <=> \E i \in DOMAIN s : SameHex(s[i], v)
<1>1. \A i \in DOMAIN s : s[i] \in Digits /\ (Lower(s[i]) = Lower(v) <=> SameHex(s[i], v))
  BY LowerSame
<1>2. QED
  BY <1>1 DEF LowerAll

(* What filterLogByTopics and filterLogByAddress let through is what an    *)
(* Ethereum filter stands for.                                             *)
LEMMA FilterStands ==
  ASSUME NEW log \in LogRecord, NEW filter \in FilterRecord
  PROVE  /\ FilterLogByAddress(log, filter.address) <=>
              filter.address.list = <<>> \/ \E i \in DOMAIN filter.address.list :
                SameHex(filter.address.list[i], log.address)
         /\ FilterLog(log, filter) <=> Stands(log, filter)
<1>1. /\ log.address \in Digits /\ log.topics \in Seq(Digits)
      /\ filter.address.list \in Seq(Digits) /\ filter.topics \in Seq(Part)
  BY DEF LogRecord, FilterRecord, Part
<1>2. FilterLogByAddress(log, filter.address) <=>
        filter.address.list = <<>> \/ \E i \in DOMAIN filter.address.list :
          SameHex(filter.address.list[i], log.address)
  BY <1>1, LowerAllSame DEF FilterLogByAddress
<1>3. FilterLogByTopics(log, filter.topics) <=>
        \A p \in 1 .. 4 :
          p \notin DOMAIN filter.topics \/ filter.topics[p].list = <<>> \/
          \E i \in DOMAIN filter.topics[p].list, q \in DOMAIN log.topics :
            q = p /\ SameHex(filter.topics[p].list[i], log.topics[q])
  <2>1. /\ DOMAIN filter.topics = 1 .. Len(filter.topics) /\ Len(filter.topics) \in Nat
        /\ DOMAIN log.topics = 1 .. Len(log.topics) /\ Len(log.topics) \in Nat
    BY <1>1
  <2>2. ASSUME NEW p \in DOMAIN filter.topics
        PROVE  (p <= Len(log.topics) /\ Lower(log.topics[p]) \in LowerAll(filter.topics[p].list))
               <=> \E i \in DOMAIN filter.topics[p].list, q \in DOMAIN log.topics :
                     q = p /\ SameHex(filter.topics[p].list[i], log.topics[q])
    <3>1. filter.topics[p].list \in Seq(Digits)
      <4>1. filter.topics[p] \in Part
        BY <1>1
      <4>2. QED
        BY <4>1 DEF Part
    <3>2. p <= Len(log.topics) <=> p \in DOMAIN log.topics
      BY <2>1
    <3>3. CASE p \in DOMAIN log.topics
      <4>1. log.topics[p] \in Digits
        BY <1>1, <3>3
      <4>2. Lower(log.topics[p]) \in LowerAll(filter.topics[p].list) <=>
              \E i \in DOMAIN filter.topics[p].list : SameHex(filter.topics[p].list[i], log.topics[p])
        BY <3>1, <4>1, LowerAllSame
      <4>3. QED
        BY <3>2, <3>3, <4>2
    <3>4. CASE p \notin DOMAIN log.topics
      BY <3>2, <3>4
    <3>5. QED
      BY <3>3, <3>4
  <2>3. \A p \in DOMAIN filter.topics : p <= 4 <=> p \in 1 .. 4
    BY <2>1
  <2>4. QED
    BY <2>2, <2>3 DEF FilterLogByTopics
<1>4. QED
  BY <1>2, <1>3 DEF FilterLog, Stands

(* The three filters agree. *)
LEMMA FiltersSame ==
  ASSUME NEW log \in LogRecord, NEW filter \in FilterRecord,
         filter.address.kind # "list" =>
           (filter.address.list = <<>> <=> filter.address.kind = "none")
  PROVE  LET inRange == log.number \in filter.from .. filter.to
         IN  /\ FilterLog(log, filter) <=> Stands(log, filter)
             /\ CacheLets(log, filter) <=> inRange /\ Stands(log, filter)
             /\ GetLogsLets(log, filter) <=>
                  /\ inRange /\ Stands(log, filter)
                  /\ filter.address.kind = "list" => filter.address.list # <<>>
<1> DEFINE inRange == log.number \in filter.from .. filter.to
           address == filter.address
<1>1. /\ log.address \in Digits /\ address.list \in Seq(Digits)
      /\ address.kind \in {"none", "one", "list"}
      /\ inRange <=> FilterLogByBlockNumber(log, filter.from, filter.to)
  BY DEF LogRecord, FilterRecord, Part, FilterLogByBlockNumber
<1>2. FilterLog(log, filter) <=> Stands(log, filter)
  BY FilterStands
<1>3. CacheLets(log, filter) <=> inRange /\ Stands(log, filter)
  BY <1>1, <1>2 DEF CacheLets, FilterLog
<1>4. IndexerLets(log, BuildLogsGqlFilter(filter)) <=>
        /\ inRange /\ FilterLogByAddress(log, address)
        /\ address.kind = "list" => address.list # <<>>
  <2>1. IndexerLets(log, BuildLogsGqlFilter(filter)) <=>
          inRange /\ (address.kind = "none" \/ Lower(log.address) \in LowerAll(address.list))
    <3>1. LET gql == BuildLogsGqlFilter(filter)
          IN  /\ gql.from = filter.from /\ gql.to = filter.to
              /\ gql.anyAddress = (address.kind = "none")
              /\ address.kind # "none" => gql.inInsensitive = LowerAll(address.list)
      BY DEF BuildLogsGqlFilter
    <3>2. QED
      BY <1>1, <3>1 DEF IndexerLets, FilterLogByBlockNumber
  <2>2. Lower(log.address) \in LowerAll(address.list) => address.list # <<>>
    BY DEF LowerAll
  <2>3. QED
    BY <1>1, <2>1, <2>2 DEF FilterLogByAddress
<1>5. GetLogsLets(log, filter) <=>
        /\ inRange /\ Stands(log, filter)
        /\ address.kind = "list" => address.list # <<>>
  BY <1>2, <1>4 DEF GetLogsLets, FilterLog
<1>6. QED
  BY <1>2, <1>3, <1>5

(* Whatever a filter and a log are, a subscription, the cached blocks and  *)
(* the indexer with the provider behind it give the same answer, the one   *)
(* an Ethereum filter stands for, but for an empty list of addresses.      *)
THEOREM FiltersAgreeAlways == Spec => []FiltersAgree
<1>1. JobGiven => FiltersAgree
  <2> SUFFICES ASSUME job.in \in LogJobs, job.kind = "log" PROVE FiltersAgree
    BY DEF FiltersAgree, JobGiven
  <2> DEFINE log == job.in.log
             f == job.in.filter
             inRange == log.number \in f.from .. f.to
  <2>1. /\ log \in LogRecord /\ f \in FilterRecord
        /\ f.address.kind # "list" => (f.address.list = <<>> <=> f.address.kind = "none")
    BY LogJobsAssumption
  <2>2. /\ FilterLog(log, f) <=> Stands(log, f)
        /\ CacheLets(log, f) <=> inRange /\ Stands(log, f)
        /\ GetLogsLets(log, f) <=>
             /\ inRange /\ Stands(log, f)
             /\ f.address.kind = "list" => f.address.list # <<>>
    BY <2>1, FiltersSame
  <2>3. /\ FilterLog(log, f) \in BOOLEAN /\ Stands(log, f) \in BOOLEAN
        /\ CacheLets(log, f) \in BOOLEAN /\ GetLogsLets(log, f) \in BOOLEAN
    BY DEF FilterLog, Stands, CacheLets, GetLogsLets
  <2> HIDE DEF log, f
  <2>4. /\ FilterLog(log, f) = Stands(log, f)
        /\ CacheLets(log, f) = (inRange /\ Stands(log, f))
        /\ GetLogsLets(log, f) = (inRange /\ Stands(log, f) /\ (f.address.kind = "list" => f.address.list # <<>>))
    BY <2>2, <2>3
  <2>5. QED
    BY <2>4, Zenon DEF FiltersAgree, log, f
<1>2. QED
  BY <1>1, JobIsGiven, PTL

-----------------------------------------------------------------------------
(* The arguments that methods declare, and what becomes of a block among   *)
(* them.                                                                   *)
Declared ==
  {M(<<>>, "none"), M(<<"address", "block">>, "parsed"), M(<<"transaction", "block">>, "parsed"),
   M(<<"blockHash", "flag">>, "raw"), M(<<"block", "flag">>, "raw"),
   M(<<"address", "position", "block">>, "parsed"), M(<<"blockHash">>, "raw"),
   M(<<"block">>, "raw"), M(<<"transactionData">>, "none"), M(<<"transaction", "block?">>, "raw"),
   M(<<"substrateGasParams?">>, "none"), M(<<"blockHash">>, "none"),
   M(<<"address", "message">>, "signer"), M(<<"blockHash", "hexNumber">>, "parsed"),
   M(<<"block", "hexNumber">>, "parsed"), M(<<"blockHash">>, "ignored"), M(<<"block">>, "ignored"),
   M(<<"blockHash", "hexNumber">>, "ignored"), M(<<"block", "hexNumber">>, "ignored"),
   M(<<"trasactionHash">>, "none"), M(<<"object">>, "none"), M(<<"object">>, "logs"),
   M(<<"address">>, "none"), M(<<"address">>, "filter"),
   M(<<"eventName", "object?">>, "socket"), M(<<"address">>, "socket")}

LEMMA MethodsDeclare == \A m \in DOMAIN Methods : Methods[m] \in Declared
<1>1. \A m \in DOMAIN InfoMethods : InfoMethods[m] \in Declared
  BY DEF InfoMethods, Declared
<1>2. \A m \in DOMAIN AccountMethods : AccountMethods[m] \in Declared
  BY DEF AccountMethods, Declared
<1>3. \A m \in DOMAIN BlockMethods : BlockMethods[m] \in Declared
  BY DEF BlockMethods, Declared
<1>4. \A m \in DOMAIN TransactionMethods : TransactionMethods[m] \in Declared
  BY DEF TransactionMethods, Declared
<1>5. \A m \in DOMAIN IndexMethods : IndexMethods[m] \in Declared
  BY DEF IndexMethods, Declared
<1>6. \A m \in DOMAIN FilterMethods : FilterMethods[m] \in Declared
  BY DEF FilterMethods, Declared
<1>7. QED
  BY <1>1, <1>2, <1>3, <1>4, <1>5, <1>6, Zenon DEF Methods

Blockish == {"block", "block?", "blockHash"}
Types == Blockish \cup {"address", "transaction", "flag", "position", "transactionData",
                        "substrateGasParams?", "message", "hexNumber", "trasactionHash",
                        "object", "eventName", "object?"}
AllTags == {"none", "parsed", "raw", "signer", "ignored", "socket", "filter", "logs"}

(* The tags of the methods that have an argument of this type. *)
Taken(t, tag) ==
  /\ t \in {"block", "block?"} => tag \in {"parsed", "raw", "ignored"}
  /\ t = "block?" => tag = "raw"
  /\ t = "transaction" => tag \in {"parsed", "raw"}
  /\ t \in {"transactionData", "substrateGasParams?"} => tag = "none"
  /\ t = "object" => tag \in {"none", "logs"}
  /\ tag = "logs" => t = "object"

(* A method takes one block at most. *)
Declares(m) ==
  /\ m.tag \in AllTags
  /\ Len(m.schema) \in Nat /\ DOMAIN m.schema = 1 .. Len(m.schema)
  /\ m.tag = "logs" => Len(m.schema) = 1
  /\ \A i \in DOMAIN m.schema :
       /\ m.schema[i] \in Types /\ Taken(m.schema[i], m.tag)
       /\ \A j \in DOMAIN m.schema :
            m.schema[i] \in Blockish /\ m.schema[j] \in Blockish => i = j

LEMMA DeclaredOnce == \A m \in Declared : Declares(m)
<1>1. \A tag \in AllTags : tag # "logs" => Declares(M(<<>>, tag))
  BY DEF M, Declares
<1>2. \A tag \in AllTags, t \in Types : Taken(t, tag) => Declares(M(<<t>>, tag))
  BY DEF M, Declares
<1>3. \A tag \in AllTags, t, u \in Types :
        /\ tag # "logs" /\ Taken(t, tag) /\ Taken(u, tag)
        /\ t \notin Blockish \/ u \notin Blockish
        => Declares(M(<<t, u>>, tag))
  BY DEF M, Declares
<1>4. \A tag \in AllTags, t, u, w \in Types :
        /\ tag # "logs" /\ Taken(t, tag) /\ Taken(u, tag) /\ Taken(w, tag)
        /\ t \notin Blockish /\ u \notin Blockish
        => Declares(M(<<t, u, w>>, tag))
  <2> TAKE tag \in AllTags, t, u, w \in Types
  <2> SUFFICES ASSUME tag # "logs", Taken(t, tag), Taken(u, tag), Taken(w, tag),
                      t \notin Blockish, u \notin Blockish
               PROVE  Declares(M(<<t, u, w>>, tag))
    OBVIOUS
  <2> DEFINE m == M(<<t, u, w>>, tag)
  <2>1. /\ m.tag = tag /\ Len(m.schema) = 3 /\ DOMAIN m.schema = 1 .. 3
        /\ m.schema[1] = t /\ m.schema[2] = u /\ m.schema[3] = w
    BY DEF M
  <2> HIDE DEF m
  <2>2. \A i \in 1 .. 3 : i = 1 \/ i = 2 \/ i = 3
    OBVIOUS
  <2>3. \A i \in DOMAIN m.schema : m.schema[i] \in {t, u, w} /\ (m.schema[i] \in Blockish => i = 3)
    BY <2>1, <2>2
  <2>4. QED
    BY <2>1, <2>3 DEF Declares, m
<1>5. ASSUME NEW m \in Declared PROVE Declares(m)
  <2>1. CASE m \in {M(<<>>, "none"), M(<<"blockHash">>, "raw"), M(<<"block">>, "raw"), M(<<"transactionData">>, "none"),
                    M(<<"substrateGasParams?">>, "none"), M(<<"blockHash">>, "none"),
                    M(<<"blockHash">>, "ignored"), M(<<"block">>, "ignored"),
                    M(<<"trasactionHash">>, "none"), M(<<"object">>, "none"), M(<<"object">>, "logs"),
                    M(<<"address">>, "none"), M(<<"address">>, "filter"), M(<<"address">>, "socket")}
    BY <1>1, <1>2, <2>1 DEF Types, Blockish, AllTags, Taken
  <2>2. CASE m \in {M(<<"address", "block">>, "parsed"), M(<<"transaction", "block">>, "parsed"),
                    M(<<"blockHash", "flag">>, "raw"), M(<<"block", "flag">>, "raw"),
                    M(<<"transaction", "block?">>, "raw"), M(<<"address", "message">>, "signer"),
                    M(<<"blockHash", "hexNumber">>, "parsed"), M(<<"block", "hexNumber">>, "parsed"),
                    M(<<"blockHash", "hexNumber">>, "ignored"), M(<<"block", "hexNumber">>, "ignored"),
                    M(<<"eventName", "object?">>, "socket")}
    BY <1>3, <2>2 DEF Types, Blockish, AllTags, Taken
  <2>3. CASE m = M(<<"address", "position", "block">>, "parsed")
    BY <1>4, <2>3 DEF Types, Blockish, AllTags, Taken
  <2>4. QED
    BY <2>1, <2>2, <2>3 DEF Declared
<1>6. QED
  BY <1>5

(* A block that passes validation is found, or the provider says why not.  *)
Found(m, v) == IF m.tag = "parsed" THEN GetBlockHash(ParseBlockTag(v)) ELSE GetBlockHash(v)

LEMMA BlockFound ==
  ASSUME NEW m, m.tag \in {"parsed", "raw"}, NEW i, NEW v \in Shapes,
         m.schema[i] \in Blockish, m.schema[i] = "block?" => m.tag = "raw",
         Passes(m.schema[i], v), v = "undefined" => m.schema[i] = "block?",
         m.schema[i] = "block?" => ~IsFalsy(v)
  PROVE  Found(m, v) = IF NoNumber(m, i, v) THEN "fault"
                       ELSE IF Accepted(m, i, v) /\ ~NotUnwrapped(m, i, v) THEN "block"
                       ELSE "INVALID_ARGUMENT"
<1> DEFINE t == m.schema[i]
<1>1. CASE t = "blockHash"
  BY <1>1 DEF Found, Passes, ValidateBlockHash, GetBlockHash, ParseBlockTag, NoNumber, Accepted, WellFormed,
       NotUnwrapped, NoHash, Tags, Objects
<1>2. CASE t \in {"block", "block?"}
  <2> DEFINE numbered == v \in Numbers \cup Tags \cup {"hexNumber", "hexBig"}
  <2>1. numbered \/ v \in {"{blockNumber}", "{blockHash}", "{blockNumber, text}"}
    BY <1>2 DEF Passes, ValidateBlock, ValidateBlockString, ValidateBlockHash, ValidateHexNumber,
         IsFalsy, BlockHashOf, BlockNumberOf, Objects, Tags, Numbers
  <2>2. ParseBlockTag(v) = IF v = "{blockNumber}" THEN "hexNumber"
                           ELSE IF v = "{blockHash}" THEN "hexHash"
                           ELSE IF v = "{blockNumber, text}" THEN "text" ELSE v
    BY <2>1 DEF ParseBlockTag, IsFalsy, BlockHashOf, BlockNumberOf, Objects, Tags, Numbers
  <2>3. /\ numbered => GetBlockHash(v) = IF v \in {"negative", "fraction"} THEN "fault"
                                         ELSE IF v = "hexBig" THEN "INVALID_ARGUMENT" ELSE "block"
        /\ GetBlockHash("hexNumber") = "block" /\ GetBlockHash("hexHash") = "block"
        /\ GetBlockHash("text") = "INVALID_ARGUMENT"
        /\ ~numbered => GetBlockHash(v) = "INVALID_ARGUMENT"
    BY <2>1 DEF GetBlockHash, Tags, Numbers
  <2>4. Found(m, v) = IF v \in {"negative", "fraction"} THEN "fault"
                      ELSE IF v \in {"hexBig", "{blockNumber, text}"} THEN "INVALID_ARGUMENT"
                      ELSE IF v \in {"{blockNumber}", "{blockHash}"} /\ m.tag = "raw" THEN "INVALID_ARGUMENT"
                      ELSE "block"
    BY <2>1, <2>2, <2>3 DEF Found, Tags, Numbers
  <2>5. /\ NoNumber(m, i, v) <=> v \in {"negative", "fraction"}
        /\ NotUnwrapped(m, i, v) <=> m.tag = "raw" /\ v \in {"{blockNumber}", "{blockHash}"}
    BY <1>2 DEF NoNumber, NotUnwrapped
  <2>6. Accepted(m, i, v) <=> v \notin {"hexBig", "{blockNumber, text}"}
    <3>1. ~NoHash(m, i, v) /\ ~NotLookedAt(m, i, v) /\ ~EmptyPosition(m, i, v) /\ ~AnyTransaction(m, i, v)
      BY <1>2 DEF NoHash, NotLookedAt, EmptyPosition, AnyTransaction
    <3>2. QED
      BY <1>2, <2>1, <2>5, <3>1 DEF Accepted, WellFormed, FalseTaken, IsFalsy, Optional, Tags, Numbers
  <2>7. QED
    BY <2>4, <2>5, <2>6
<1>3. QED
  BY <1>1, <1>2 DEF Blockish

(* The faults an argument has by itself, and what they make of it. *)
BlockFault(m, i, v) ==
  CASE m.tag \in {"parsed", "raw"} /\ m.schema[i] \in Blockish /\ (m.schema[i] = "block?" => ~IsFalsy(v)) ->
         {Found(m, v)} \ {"block"}
    [] m.tag = "logs" -> {GetBlockHash(b) : b \in {BlockHashOf(v)} \ {"undefined"}} \ {"block"}
    [] OTHER -> {}

Early(m, i, v) == ArgumentFaults(m.schema[i], m.tag, v) \cup BlockFault(m, i, v)
Late(m, i, v) == LateFaults(m.schema[i], m.tag, v)

Judged(m, i, v, early, late) ==
  \/ /\ Accepted(m, i, v) /\ NotUnwrapped(m, i, v) /\ ~NoCode(m, i, v)
     /\ early = {"INVALID_ARGUMENT"} /\ late = {}
  \/ /\ Accepted(m, i, v) /\ ~NotUnwrapped(m, i, v) /\ NoCode(m, i, v)
     /\ early \cup late = {"fault"}
     /\ "fault" \in early =>
          \/ NoNumber(m, i, v)
          \/ m.schema[i] \in {"transaction", "substrateGasParams?"} /\ m.tag # "raw"
  \/ /\ Accepted(m, i, v) /\ ~NotUnwrapped(m, i, v) /\ ~NoCode(m, i, v)
     /\ early = {} /\ late = {}
  \/ /\ ~Accepted(m, i, v) /\ ~NotUnwrapped(m, i, v) /\ ~NoCode(m, i, v)
     /\ LongPosition(m, i, v) /\ m.schema[i] = "position"
     /\ early = {} /\ late = {"INVALID_ARGUMENT"}
  \/ /\ ~Accepted(m, i, v) /\ ~NotUnwrapped(m, i, v) /\ ~NoCode(m, i, v)
     /\ "INVALID_ARGUMENT" \in early /\ early \subseteq {"INVALID_ARGUMENT", "fault"}
     /\ "fault" \in early => NoTransaction(m, i, v)
     /\ late = {}

(* What is accepted passes, and what passes without being accepted is      *)
(* found out by the provider.                                              *)
LEMMA ArgumentJudged ==
  ASSUME NEW m, NEW i, NEW v \in Shapes, m.schema[i] \in Types, m.tag \in AllTags,
         Taken(m.schema[i], m.tag)
  PROVE  LET passes == Passes(m.schema[i], v) /\ (v = "undefined" => m.schema[i] \in Optional)
         IN  /\ Accepted(m, i, v) => passes
             /\ passes => Judged(m, i, v, Early(m, i, v), Late(m, i, v))
<1> DEFINE t == m.schema[i]
           passes == Passes(t, v) /\ (v = "undefined" => t \in Optional)
<1>1. CASE t \in Blockish
  <2>1. Late(m, i, v) = {} /\ ArgumentFaults(t, m.tag, v) = {}
    BY <1>1 DEF Late, LateFaults, ArgumentFaults, Blockish
  <2>2. ~BadIndex(m, i, v) /\ ~NullTaken(m, i, v) /\ ~EmptyPosition(m, i, v) /\ ~AnyTransaction(m, i, v)
        /\ ~NoHash(m, i, v) /\ ~LongPosition(m, i, v) /\ ~NoTransaction(m, i, v)
    BY <1>1 DEF BadIndex, NullTaken, EmptyPosition, AnyTransaction, NoHash, LongPosition, NoTransaction,
         Blockish, Taken
  <2>3. Accepted(m, i, v) <=> \/ WellFormed(t, v) \/ FalseTaken(m, i, v) \/ NotLookedAt(m, i, v)
                               \/ NoNumber(m, i, v)
    BY <2>2 DEF Accepted
  <2>4. /\ NotUnwrapped(m, i, v) => Accepted(m, i, v) /\ ~NoNumber(m, i, v)
        /\ NoNumber(m, i, v) => Accepted(m, i, v)
        /\ NotUnwrapped(m, i, v) \/ NoNumber(m, i, v) => m.tag \in {"parsed", "raw"} /\ ~IsFalsy(v)
    <3>1. NotUnwrapped(m, i, v) => WellFormed(t, v) /\ m.tag = "raw" /\ v \in {"{blockNumber}", "{blockHash}"}
      BY DEF NotUnwrapped, WellFormed
    <3>2. NoNumber(m, i, v) => m.tag \in {"parsed", "raw"} /\ v \in {"negative", "fraction"}
      BY <1>1 DEF NoNumber, Taken
    <3>3. QED
      BY <2>3, <3>1, <3>2 DEF IsFalsy
  <2>5. Accepted(m, i, v) => passes
    <3>1. CASE t = "blockHash"
      BY <2>3, <3>1 DEF WellFormed, FalseTaken, NotLookedAt, NoNumber, Passes, ValidateBlockHash, Optional
    <3>2. CASE t \in {"block", "block?"}
      <4>1. v \in Numbers \cup Tags \cup {"hexNumber", "{blockNumber}", "{blockHash}"} => Passes(t, v)
        BY <3>2 DEF Passes, ValidateBlock, ValidateBlockString, ValidateBlockHash, ValidateHexNumber,
             IsFalsy, BlockHashOf, BlockNumberOf, Objects, Tags, Numbers
      <4>2. t = "block" /\ v \in {"hexBig", "{blockNumber, text}"} => Passes(t, v)
        BY <3>2 DEF Passes, ValidateBlock, ValidateBlockString, ValidateBlockHash, ValidateHexNumber,
             IsFalsy, BlockHashOf, BlockNumberOf, Objects, Tags, Numbers
      <4>3. t = "block?" /\ IsFalsy(v) => Passes(t, v)
        BY DEF Passes, IsFalsy
      <4>4. WellFormed(t, v) <=>
              \/ v \in Tags \cup {"hexNumber", "zero", "number", "{blockNumber}", "{blockHash}"}
              \/ t = "block?" /\ v \in {"null", "undefined"}
        BY <3>2 DEF WellFormed
      <4>5. WellFormed(t, v) => passes
        BY <3>2, <4>1, <4>3, <4>4 DEF IsFalsy, Numbers, Tags, Optional
      <4>6. NoNumber(m, i, v) \/ FalseTaken(m, i, v) \/ NotLookedAt(m, i, v) => passes
        BY <3>2, <4>1, <4>2, <4>3 DEF NoNumber, FalseTaken, NotLookedAt, IsFalsy, Numbers, Optional
      <4>7. QED
        BY <2>3, <4>5, <4>6
    <3>3. QED
      BY <1>1, <3>1, <3>2 DEF Blockish
  <2>6. ASSUME passes PROVE Judged(m, i, v, Early(m, i, v), Late(m, i, v))
    <3>1. CASE m.tag \in {"parsed", "raw"} /\ (t = "block?" => ~IsFalsy(v))
      <4>1. Early(m, i, v) = {Found(m, v)} \ {"block"}
        BY <1>1, <2>1, <3>1 DEF Early, BlockFault
      <4>2. Found(m, v) = IF NoNumber(m, i, v) THEN "fault"
                          ELSE IF Accepted(m, i, v) /\ ~NotUnwrapped(m, i, v) THEN "block"
                          ELSE "INVALID_ARGUMENT"
        <5>1. t = "block?" => m.tag = "raw"
          BY DEF Taken
        <5>2. v = "undefined" => t = "block?"
          BY <1>1, <2>6 DEF Optional, Blockish
        <5>3. QED
          BY <1>1, <2>6, <3>1, <5>1, <5>2, BlockFound
      <4>3. QED
        BY <2>1, <2>2, <2>4, <4>1, <4>2 DEF Judged, NoCode
    <3>2. CASE ~(m.tag \in {"parsed", "raw"} /\ (t = "block?" => ~IsFalsy(v)))
      <4>1. m.tag # "logs"
        BY <1>1 DEF Taken, Blockish
      <4>2. Early(m, i, v) = {}
        BY <2>1, <3>2, <4>1 DEF Early, BlockFault
      <4>3. ~NotUnwrapped(m, i, v) /\ ~NoNumber(m, i, v)
        BY <2>4, <3>2
      <4>4. Accepted(m, i, v)
        <5>1. CASE t = "blockHash"
          BY <2>3, <2>6, <5>1 DEF Passes, ValidateBlockHash, WellFormed
        <5>2. CASE t = "block?"
          <6>1. m.tag = "raw" /\ IsFalsy(v)
            BY <3>2, <5>2 DEF Taken
          <6>2. QED
            BY <2>3, <5>2, <6>1 DEF WellFormed, FalseTaken, Optional, IsFalsy
        <5>3. CASE t = "block"
          <6>1. m.tag = "ignored"
            BY <3>2, <5>3 DEF Taken
          <6>2. v \in Numbers \cup Tags \cup {"hexNumber", "hexBig", "{blockNumber}", "{blockHash}", "{blockNumber, text}"}
            BY <2>6, <5>3 DEF Passes, ValidateBlock, ValidateBlockString, ValidateBlockHash, ValidateHexNumber,
                 IsFalsy, BlockHashOf, BlockNumberOf, Objects, Tags, Numbers
          <6>3. QED
            BY <2>3, <5>3, <6>1, <6>2 DEF WellFormed, NotLookedAt, Numbers
        <5>4. QED
          BY <1>1, <5>1, <5>2, <5>3 DEF Blockish
      <4>5. QED
        BY <2>1, <2>2, <4>2, <4>3, <4>4 DEF Judged, NoCode
    <3>3. QED
      BY <3>1, <3>2
  <2>7. QED
    BY <2>5, <2>6
<1>2. CASE t \notin Blockish
  <2>1. ~NoNumber(m, i, v) /\ ~NotLookedAt(m, i, v) /\ ~NotUnwrapped(m, i, v)
    BY <1>2 DEF NoNumber, NotLookedAt, NotUnwrapped, Blockish
  <2>2. m.tag # "logs" => BlockFault(m, i, v) = {} /\ ~NoHash(m, i, v)
    BY <1>2 DEF BlockFault, NoHash
  <2>3. CASE t \in {"address", "flag", "message", "trasactionHash", "eventName"}
    <3>1. m.tag # "logs" /\ Early(m, i, v) = {} /\ Late(m, i, v) = {} /\ ~NoCode(m, i, v)
      <4>1. m.tag # "logs"
        BY <2>3 DEF Taken
      <4>2. ArgumentFaults(t, m.tag, v) = {} /\ LateFaults(t, m.tag, v) = {}
        BY <2>3 DEF ArgumentFaults, LateFaults
      <4>3. QED
        BY <2>1, <2>2, <2>3, <4>1, <4>2 DEF Early, Late, NoCode, BadIndex, NullTaken
    <3>2. Accepted(m, i, v) <=> WellFormed(t, v)
      BY <2>1, <2>2, <2>3, <3>1 DEF Accepted, FalseTaken, EmptyPosition, AnyTransaction, Optional
    <3>3. passes <=> WellFormed(t, v)
      BY <2>3 DEF Passes, WellFormed, Optional, ValidateAddress, ValidateBlockHash, Strings, Tags, Hex
    <3>4. QED
      BY <2>1, <3>1, <3>2, <3>3 DEF Judged
  <2>4. CASE t = "object?"
    <3>1. m.tag # "logs" /\ Early(m, i, v) = {} /\ Late(m, i, v) = {} /\ ~NoCode(m, i, v)
      <4>1. m.tag # "logs"
        BY <2>4 DEF Taken
      <4>2. ArgumentFaults(t, m.tag, v) = {} /\ LateFaults(t, m.tag, v) = {}
        BY <2>4 DEF ArgumentFaults, LateFaults
      <4>3. QED
        BY <2>1, <2>2, <2>4, <4>1, <4>2 DEF Early, Late, NoCode, BadIndex, NullTaken
    <3>2. Accepted(m, i, v) <=> v \in Objects \cup {"null", "undefined", "false", "zero"}
      BY <2>1, <2>2, <2>4, <3>1 DEF Accepted, WellFormed, FalseTaken, EmptyPosition, AnyTransaction, Optional
    <3>3. passes <=> v \in Objects \cup {"null", "undefined", "false", "zero"}
      BY <2>4 DEF Passes, Optional, IsFalsy
    <3>4. QED
      BY <2>1, <3>1, <3>2, <3>3 DEF Judged
  <2>5. CASE t = "substrateGasParams?"
    <3>1. m.tag = "none"
      BY <2>5 DEF Taken
    <3>2. Early(m, i, v) = (IF v = "null" THEN {"fault"} ELSE {}) /\ Late(m, i, v) = {}
      BY <2>2, <2>5, <3>1 DEF Early, Late, ArgumentFaults, LateFaults
    <3>3. NoCode(m, i, v) <=> v = "null"
      BY <2>1, <2>5, <3>1 DEF NoCode, BadIndex, NullTaken
    <3>4. Accepted(m, i, v) <=> v \in {"{}", "{gas}", "null", "undefined", "false", "zero"}
      BY <2>1, <2>2, <2>5, <3>1 DEF Accepted, WellFormed, FalseTaken, EmptyPosition, AnyTransaction, Optional
    <3>5. passes <=> v \in {"{}", "{gas}", "null", "undefined", "false", "zero"}
      BY <2>5 DEF Passes, Optional, IsFalsy
    <3>6. QED
      BY <2>1, <2>5, <3>1, <3>2, <3>3, <3>4, <3>5 DEF Judged
  <2>6. CASE t = "transaction"
    <3>1. m.tag \in {"parsed", "raw"}
      BY <2>6 DEF Taken
    <3>2. /\ Early(m, i, v) = (IF v = "null" /\ m.tag = "parsed" THEN {"fault"} ELSE {})
          /\ Late(m, i, v) = (IF v = "null" /\ m.tag = "raw" THEN {"fault"} ELSE {})
      BY <2>2, <2>6, <3>1 DEF Early, Late, ArgumentFaults, LateFaults
    <3>3. NoCode(m, i, v) <=> v = "null"
      BY <2>1, <2>6, <3>1 DEF NoCode, BadIndex, NullTaken
    <3>4. Accepted(m, i, v) <=> v # "undefined"
      BY <2>1, <2>2, <2>6, <3>1 DEF Accepted, WellFormed, FalseTaken, EmptyPosition, AnyTransaction,
           Optional, Objects
    <3>5. passes <=> v # "undefined"
      BY <2>6 DEF Passes, Optional
    <3>6. QED
      BY <2>1, <2>6, <3>1, <3>2, <3>3, <3>4, <3>5 DEF Judged
  <2>7. CASE t = "transactionData"
    <3>1. m.tag = "none"
      BY <2>7 DEF Taken
    <3>2. Late(m, i, v) = {} /\ Early(m, i, v) = IF v \notin Hex THEN {"INVALID_ARGUMENT"}
                                 ELSE IF v = "hexTx" THEN {} ELSE {"INVALID_ARGUMENT", "fault"}
      BY <2>2, <2>7, <3>1 DEF Early, Late, ArgumentFaults, LateFaults, Hex
    <3>3. ~NoCode(m, i, v)
      BY <2>1, <2>7, <3>1 DEF NoCode, BadIndex, NullTaken
    <3>4. Accepted(m, i, v) <=> v = "hexTx"
      BY <2>1, <2>2, <2>7, <3>1 DEF Accepted, WellFormed, FalseTaken, EmptyPosition, AnyTransaction, Optional
    <3>5. v = "hexTx" => passes
      BY <2>7 DEF Passes, Optional, Strings, Hex
    <3>6. NoTransaction(m, i, v) <=> v \in Hex \ {"hexTx"}
      BY <2>7 DEF NoTransaction
    <3>7. CASE v = "hexTx"
      BY <2>1, <3>2, <3>3, <3>4, <3>5, <3>7 DEF Judged, Hex
    <3>8. CASE v # "hexTx"
      <4>1. Early(m, i, v) = {"INVALID_ARGUMENT"} \/ Early(m, i, v) = {"INVALID_ARGUMENT", "fault"}
        BY <3>2, <3>8
      <4>2. "fault" \in Early(m, i, v) => NoTransaction(m, i, v)
        BY <3>2, <3>6, <3>8
      <4>3. QED
        BY <2>1, <3>2, <3>3, <3>4, <3>8, <4>1, <4>2 DEF Judged
    <3>9. QED
      BY <3>7, <3>8
  <2>8. CASE t = "position"
    <3>1. m.tag # "logs"
      BY <2>8 DEF Taken
    <3>2. /\ Late(m, i, v) = IF v = "hexTx" THEN {"INVALID_ARGUMENT"} ELSE {}
          /\ Early(m, i, v) = IF v \notin Hex \cup {"0x"} THEN {"INVALID_ARGUMENT"} ELSE {}
      BY <2>2, <2>8, <3>1 DEF Early, Late, ArgumentFaults, LateFaults
    <3>3. ~NoCode(m, i, v)
      BY <2>1, <2>8 DEF NoCode, BadIndex, NullTaken
    <3>4. Accepted(m, i, v) <=> v \in (Hex \cup {"0x"}) \ {"hexTx"}
      BY <2>1, <2>2, <2>8, <3>1 DEF Accepted, WellFormed, FalseTaken, EmptyPosition, AnyTransaction, Optional, Hex
    <3>5. v \in Hex \cup {"0x"} => passes
      BY <2>8 DEF Passes, Optional, Strings, Hex
    <3>6. (LongPosition(m, i, v) <=> v = "hexTx") /\ "hexTx" \in Hex
      BY <2>8 DEF LongPosition, Hex
    <3>7. QED
      BY <2>1, <2>8, <3>2, <3>3, <3>4, <3>5, <3>6 DEF Judged
  <2>9. CASE t = "hexNumber"
    <3>1. m.tag # "logs"
      BY <2>9 DEF Taken
    <3>2. /\ Late(m, i, v) = (IF v = "hexBig" /\ m.tag = "parsed" THEN {"fault"} ELSE {})
          /\ Early(m, i, v) = {}
      BY <2>2, <2>9, <3>1 DEF Early, Late, ArgumentFaults, LateFaults
    <3>3. NoCode(m, i, v) <=> v = "hexBig" /\ m.tag = "parsed"
      BY <2>1, <2>9 DEF NoCode, BadIndex, NullTaken
    <3>4. Accepted(m, i, v) <=> v \in {"hexNumber", "hexBig"}
      BY <2>1, <2>2, <2>9, <3>1 DEF Accepted, WellFormed, FalseTaken, EmptyPosition, AnyTransaction, Optional
    <3>5. passes <=> v \in {"hexNumber", "hexBig"}
      BY <2>9 DEF Passes, Optional, ValidateHexNumber
    <3>6. QED
      BY <2>1, <3>2, <3>3, <3>4, <3>5 DEF Judged
  <2>10. CASE t = "object"
    <3>1. ~NoCode(m, i, v) /\ Late(m, i, v) = {} /\ ArgumentFaults(t, m.tag, v) = {}
      BY <2>1, <2>10 DEF NoCode, BadIndex, NullTaken, Late, LateFaults, ArgumentFaults
    <3>2. Accepted(m, i, v) <=> v \in Objects /\ ~NoHash(m, i, v)
      BY <2>1, <2>10 DEF Accepted, WellFormed, FalseTaken, EmptyPosition, AnyTransaction, Optional
    <3>3. passes <=> v \in Objects
      BY <2>10 DEF Passes, Optional, Objects
    <3>4. v \in Objects => BlockFault(m, i, v) = IF NoHash(m, i, v) THEN {"INVALID_ARGUMENT"} ELSE {}
      <4>1. CASE m.tag # "logs"
        BY <2>2, <4>1
      <4>2. CASE m.tag = "logs"
        <5>1. BlockFault(m, i, v) = {GetBlockHash(b) : b \in {BlockHashOf(v)} \ {"undefined"}} \ {"block"}
          BY <4>2 DEF BlockFault
        <5>2. GetBlockHash("text") = "INVALID_ARGUMENT" /\ GetBlockHash("hexHash") = "block"
          BY DEF GetBlockHash, Tags
        <5>3. BlockHashOf(v) = IF v = "{blockHash}" THEN "hexHash"
                               ELSE IF v = "{blockNumber, text}" THEN "text" ELSE "undefined"
          BY DEF BlockHashOf
        <5>4. NoHash(m, i, v) <=> v = "{blockNumber, text}"
          BY <4>2 DEF NoHash
        <5>5. QED
          BY <5>1, <5>2, <5>3, <5>4
      <4>3. QED
        BY <4>1, <4>2
    <3>5. passes => Early(m, i, v) = IF NoHash(m, i, v) THEN {"INVALID_ARGUMENT"} ELSE {}
      BY <3>1, <3>3, <3>4 DEF Early
    <3>6. QED
      BY <2>1, <3>1, <3>2, <3>3, <3>5 DEF Judged
  <2>11. QED
    BY <1>2, <2>3, <2>4, <2>5, <2>6, <2>7, <2>8, <2>9, <2>10 DEF Types
<1>3. QED
  BY <1>1, <1>2

(* The methods whose arguments nobody looks at are none of those. *)
LEMMA MethodsChecked == \A m \in DOMAIN Methods : m \notin DOMAIN Unchecked
<1>1. DOMAIN Unchecked = {"web3_clientVersion", "eth_sendTransaction"}
  BY DEF Unchecked
<1>2. \A m \in {"web3_clientVersion", "eth_sendTransaction"} :
        /\ m \notin DOMAIN InfoMethods /\ m \notin DOMAIN AccountMethods
        /\ m \notin DOMAIN BlockMethods /\ m \notin DOMAIN TransactionMethods
        /\ m \notin DOMAIN IndexMethods /\ m \notin DOMAIN FilterMethods
  BY DEF InfoMethods, AccountMethods, BlockMethods, TransactionMethods, IndexMethods, FilterMethods
<1>3. QED
  BY <1>1, <1>2, Zenon DEF Methods

(* The methods that turn a block that is not there into null take no       *)
(* position, and two of them find nothing wrong with an argument late.     *)
LEMMA NullMethods ==
  ASSUME NEW method \in DOMAIN Methods, NEW i \in DOMAIN Methods[method].schema
  PROVE  /\ method \in NullBlock \cup ByIndex => Methods[method].schema[i] # "position"
         /\ method \in NullBlock =>
              \A v : Late(Methods[method], i, v) = {}
<1>1. \A name \in NullBlock :
        /\ name \notin DOMAIN InfoMethods /\ name \notin DOMAIN AccountMethods
        /\ name \in DOMAIN BlockMethods /\ name \notin DOMAIN TransactionMethods
        /\ name \notin DOMAIN IndexMethods /\ name \notin DOMAIN FilterMethods
        /\ BlockMethods[name] \in {M(<<"blockHash", "flag">>, "raw"), M(<<"block", "flag">>, "raw")}
  BY DEF NullBlock, InfoMethods, AccountMethods, BlockMethods, TransactionMethods, IndexMethods, FilterMethods
<1>2. \A name \in ByIndex :
        /\ name \notin DOMAIN InfoMethods /\ name \notin DOMAIN AccountMethods
        /\ name \notin DOMAIN BlockMethods /\ name \notin DOMAIN TransactionMethods
        /\ name \in DOMAIN IndexMethods /\ name \notin DOMAIN FilterMethods
        /\ IndexMethods[name] \in {M(<<"blockHash", "hexNumber">>, "parsed"), M(<<"block", "hexNumber">>, "parsed")}
  BY DEF ByIndex, InfoMethods, AccountMethods, BlockMethods, TransactionMethods, IndexMethods, FilterMethods
<1>3. method \in NullBlock => Methods[method] = BlockMethods[method]
  BY <1>1, Zenon DEF Methods
<1>4. method \in ByIndex => Methods[method] = IndexMethods[method]
  BY <1>2, Zenon DEF Methods
<1>5. method \in NullBlock =>
        Methods[method].schema[i] \in {"blockHash", "block", "flag"} /\ Methods[method].tag = "raw"
  BY <1>1, <1>3 DEF M
<1>6. method \in ByIndex => Methods[method].schema[i] \in {"blockHash", "block", "hexNumber"}
  BY <1>2, <1>4 DEF M
<1>7. QED
  BY <1>5, <1>6 DEF Late, LateFaults

(* Whatever the arguments of a request are, it is understood. *)
LEMMA RequestIsUnderstood ==
  ASSUME NEW method \in DOMAIN Methods, NEW params \in Seq(Shapes), NEW socket \in BOOLEAN,
         NEW known \in BOOLEAN, NEW fails \in Failures
  PROVE  RequestUnderstood(method, params, socket, known, fails)
<1> DEFINE m == Methods[method]
           t(i) == m.schema[i]
           args == DOMAIN params \cap DOMAIN m.schema
           passes(i) == Passes(t(i), params[i]) /\ (params[i] = "undefined" => t(i) \in Optional)
           AnyArg(P(_, _, _)) == \E i \in args : P(m, i, params[i])
           accepted == /\ Len(params) <= Len(m.schema)
                       /\ \A i \in DOMAIN m.schema :
                            IF i \in DOMAIN params THEN Accepted(m, i, params[i])
                            ELSE m.schema[i] \in Optional
           missing == /\ ~known
                      /\ m.tag = "filter" \/ Named(m, params) \cap {"hexNumber", "number", "hexHash"} # {}
           answers == Respond(method, params, socket, known, fails)
           early == BlockFaults(m, params) \cup OtherFaults(m, params, socket)
           late == FaultsAmong(LateFaults, m, params)
           E(i) == Early(m, i, params[i])
           L(i) == Late(m, i, params[i])
           number == UnknownNumber(method, params, known)
           hash == UnknownHash(method, params, known)
<1>1. Declares(m)
  BY MethodsDeclare, DeclaredOnce
<1>2. /\ Len(params) \in Nat /\ DOMAIN params = 1 .. Len(params)
      /\ \A i \in DOMAIN params : params[i] \in Shapes
  OBVIOUS
<1>3. method \notin DOMAIN Unchecked
  BY MethodsChecked
<1> SUFFICES ASSUME m.tag # "signer", m.tag = "socket" => socket
             PROVE  IF ~accepted
                    THEN /\ answers # {} /\ answers \subseteq {InvalidParams, OtherError}
                         /\ OtherError \in answers => AnyArg(NoCode) \/ AnyArg(NoTransaction) \/ ~known
                         /\ InvalidParams \notin answers => AnyArg(LongPosition)
                    ELSE IF AnyArg(NotUnwrapped) THEN answers = {InvalidParams}
                    ELSE IF AnyArg(NoCode) THEN answers = {OtherError}
                    ELSE IF missing THEN answers \in {{OtherError}, {"null"}}
                    ELSE IF fails \in {"evm", "pool"} THEN answers = {InternalError}
                    ELSE answers = {IF fails = "no" THEN "answer" ELSE OtherError}
  BY DEF RequestUnderstood
<1>4. /\ ~Validate(m.schema, params) => answers = {InvalidParams}
      /\ Validate(m.schema, params) => answers = Execute(method, params, socket, known, fails)
  BY <1>3 DEF Respond
<1>5. \A i \in DOMAIN m.schema :
        /\ method \in NullBlock \cup ByIndex => t(i) # "position"
        /\ method \in NullBlock => L(i) = {}
  BY NullMethods
<1>6. Execute(method, params, socket, known, fails) =
        IF ErrorsOf(early) # {} THEN ErrorsOf(early)
        ELSE IF number # {} THEN number
        ELSE IF ErrorsOf(late) # {} THEN ErrorsOf(late)
        ELSE IF hash # {} THEN hash
        ELSE IF FailureOf(fails) # {} THEN FailureOf(fails)
        ELSE {"answer"}
  <2> DEFINE e == ErrorsOf(early)
             l == ErrorsOf(late)
             f == FailureOf(fails)
             stages == <<e, number, l, hash, f, {"answer"}>>
             ends == {i \in DOMAIN stages : stages[i] # {}}
             first == CHOOSE i \in ends : \A j \in ends : i <= j
  <2>1. Execute(method, params, socket, known, fails) = stages[first]
    BY Zenon DEF Execute
  <2> HIDE DEF e, number, l, hash, f
  <2>2. DOMAIN stages = 1 .. 6 /\ stages[1] = e /\ stages[2] = number /\ stages[3] = l
        /\ stages[4] = hash /\ stages[5] = f /\ stages[6] = {"answer"}
    OBVIOUS
  <2> HIDE DEF stages
  <2>3. /\ 1 \in ends <=> e # {}
        /\ 2 \in ends <=> number # {}
        /\ 3 \in ends <=> l # {}
        /\ 4 \in ends <=> hash # {}
        /\ 5 \in ends <=> f # {}
        /\ 6 \in ends /\ ends \subseteq {1, 2, 3, 4, 5, 6}
    <3>1. 6 \in ends
      <4>1. 6 \in DOMAIN stages
        BY <2>2, SMT
      <4>2. stages[6] # {}
        <5>1. {"answer"} # {}
          BY Zenon
        <5>2. QED
          BY <2>2, <5>1, Zenon
      <4>3. QED
        BY <4>1, <4>2, Zenon
    <3>2. ends \subseteq {1, 2, 3, 4, 5, 6}
      <4>1. \A i \in 1 .. 6 : i \in {1, 2, 3, 4, 5, 6}
        BY SMT
      <4>2. QED
        BY <2>2, <4>1
    <3>3. QED
      BY <2>2, <3>1, <3>2
  <2> HIDE DEF ends
  <2>4. \E i \in ends : \A j \in ends : i <= j
    <3> DEFINE least == IF 1 \in ends THEN 1 ELSE IF 2 \in ends THEN 2 ELSE IF 3 \in ends THEN 3
                        ELSE IF 4 \in ends THEN 4 ELSE IF 5 \in ends THEN 5 ELSE 6
    <3>1. least \in ends /\ \A j \in {1, 2, 3, 4, 5, 6} : j \in ends => least <= j
      BY <2>3
    <3> HIDE DEF least
    <3>2. QED
      BY <2>3, <3>1
  <2>5. first \in ends /\ \A j \in ends : first <= j
    BY <2>4
  <2> HIDE DEF first
  <2>6. stages[first] = IF e # {} THEN e ELSE IF number # {} THEN number ELSE IF l # {} THEN l
                        ELSE IF hash # {} THEN hash ELSE IF f # {} THEN f ELSE {"answer"}
    <3>1. first = IF e # {} THEN 1 ELSE IF number # {} THEN 2 ELSE IF l # {} THEN 3
                  ELSE IF hash # {} THEN 4 ELSE IF f # {} THEN 5 ELSE 6
      BY <2>3, <2>5
    <3>2. QED
      BY <2>2, <3>1
  <2>7. QED
    BY <2>1, <2>6 DEF e, l, f
<1>7. \A i \in args : /\ Accepted(m, i, params[i]) => passes(i)
                      /\ passes(i) => Judged(m, i, params[i], E(i), L(i))
  <2> TAKE i \in args
  <2>1. params[i] \in Shapes /\ t(i) \in Types /\ m.tag \in AllTags /\ Taken(t(i), m.tag)
    BY <1>1, <1>2 DEF Declares
  <2>2. QED
    BY <2>1, ArgumentJudged, Zenon
<1>8. Validate(m.schema, params) <=>
        /\ Len(params) <= Len(m.schema)
        /\ \A i \in DOMAIN m.schema : IF i \in DOMAIN params THEN passes(i) ELSE t(i) \in Optional
  <2>1. \A type \in Optional : Passes(type, "undefined")
    BY DEF Optional, Passes, IsFalsy
  <2> HIDE DEF m
  <2>2. QED
    BY <2>1 DEF Validate
<1>9. accepted => Validate(m.schema, params)
  <2> HIDE DEF m
  <2>1. QED
    BY <1>7, <1>8
<1>10. CASE ~Validate(m.schema, params)
  <2>1. ~accepted /\ answers = {InvalidParams}
    BY <1>4, <1>9, <1>10
  <2> HIDE DEF accepted, answers
  <2>2. QED
    BY <2>1 DEF InvalidParams, OtherError
<1>11. CASE Validate(m.schema, params)
  <2>1. DOMAIN params \subseteq DOMAIN m.schema /\ args = DOMAIN params
    <3>1. Len(params) <= Len(m.schema) /\ DOMAIN m.schema = 1 .. Len(m.schema) /\ Len(m.schema) \in Nat
      BY <1>1, <1>8, <1>11 DEF Declares
    <3> HIDE DEF m
    <3>2. QED
      BY <1>2, <3>1
  <2>2. /\ \A i \in args : passes(i) /\ Judged(m, i, params[i], E(i), L(i))
        /\ \A i \in DOMAIN m.schema : i \in args \/ t(i) \in Optional
        /\ accepted <=> \A i \in args : Accepted(m, i, params[i])
    <3>1. /\ Len(params) <= Len(m.schema)
          /\ \A i \in DOMAIN m.schema : IF i \in DOMAIN params THEN passes(i) ELSE t(i) \in Optional
      BY <1>8, <1>11
    <3> HIDE DEF m, passes
    <3>2. \A i \in args : passes(i)
      BY <2>1, <3>1
    <3>3. \A i \in args : Judged(m, i, params[i], E(i), L(i))
      BY <1>7, <3>2
    <3>4. QED
      BY <2>1, <3>1, <3>2, <3>3, Zenon
  <2> HIDE DEF m
  <2>3. BlockFaults(m, params) = UNION {BlockFault(m, i, params[i]) : i \in args}
    <3> DEFINE blocks == {i \in args : t(i) \in Blockish /\ (t(i) = "block?" => ~IsFalsy(params[i]))}
    <3>1. BlockArgs(m.schema, params) = {params[i] : i \in blocks}
      <4>1. blocks = {i \in DOMAIN params : \/ m.schema[i] \in {"block", "blockHash"}
                                            \/ m.schema[i] = "block?" /\ ~IsFalsy(params[i])}
        BY <2>1 DEF Blockish
      <4> HIDE DEF blocks
      <4>2. QED
        BY <4>1 DEF BlockArgs
    <3>2. CASE m.tag \in {"parsed", "raw"}
      <4>1. BlockFaults(m, params) = {Found(m, params[i]) : i \in blocks} \ {"block"}
        <5> HIDE DEF blocks
        <5>1. CASE m.tag = "parsed"
          BY <3>1, <5>1 DEF BlockFaults, Named, Found
        <5>2. CASE m.tag = "raw"
          BY <3>1, <5>2 DEF BlockFaults, Named, Found
        <5>3. QED
          BY <3>2, <5>1, <5>2
      <4>2. \A i \in args : BlockFault(m, i, params[i]) =
                              IF i \in blocks THEN {Found(m, params[i])} \ {"block"} ELSE {}
        BY <3>2 DEF BlockFault
      <4>3. blocks \subseteq args
        OBVIOUS
      <4> HIDE DEF blocks, args
      <4>4. ASSUME NEW f
            PROVE  f \in BlockFaults(m, params) <=> \E i \in args : f \in BlockFault(m, i, params[i])
        BY <4>1, <4>2, <4>3
      <4>5. QED
        BY <4>4
    <3>3. CASE m.tag = "logs"
      <4>1. DOMAIN m.schema = {1} /\ m.schema[1] = "object"
        BY <1>1, <3>3 DEF Declares, Taken
      <4>2. args = {1}
        BY <2>1, <2>2, <4>1 DEF Optional
      <4>3. BlockFaults(m, params) = {GetBlockHash(b) : b \in {BlockHashOf(params[1])} \ {"undefined"}} \ {"block"}
        BY <3>3 DEF BlockFaults, Named
      <4>4. BlockFault(m, 1, params[1]) = {GetBlockHash(b) : b \in {BlockHashOf(params[1])} \ {"undefined"}} \ {"block"}
        BY <3>3 DEF BlockFault
      <4> HIDE DEF args
      <4>5. QED
        BY <4>2, <4>3, <4>4
    <3>4. CASE m.tag \notin {"parsed", "raw", "logs"}
      <4>1. BlockFaults(m, params) = {}
        BY <3>4 DEF BlockFaults, Named
      <4>2. \A i \in args : BlockFault(m, i, params[i]) = {}
        BY <3>4 DEF BlockFault
      <4> HIDE DEF args
      <4>3. QED
        BY <4>1, <4>2
    <3>5. QED
      BY <3>2, <3>3, <3>4
  <2>4. early = UNION {E(i) : i \in args}
    <3>1. OtherFaults(m, params, socket) = UNION {ArgumentFaults(m.schema[i], m.tag, params[i]) : i \in args}
      BY <2>1 DEF OtherFaults, FaultsAmong
    <3> HIDE DEF args
    <3>2. QED
      BY <2>3, <3>1 DEF Early
  <2>5. late = UNION {L(i) : i \in args}
    BY <2>1 DEF FaultsAmong, Late
  <2> HIDE DEF early, late, E, L
  <2>6. early \subseteq {"fault", "INVALID_ARGUMENT"} /\ late \subseteq {"fault", "INVALID_ARGUMENT"}
    <3>1. \A i \in args : E(i) \subseteq {"fault", "INVALID_ARGUMENT"} /\ L(i) \subseteq {"fault", "INVALID_ARGUMENT"}
      BY <2>2 DEF Judged
    <3> HIDE DEF args
    <3>2. QED
      BY <2>4, <2>5, <3>1
  <2> DEFINE e == ErrorsOf(early)
             l == ErrorsOf(late)
  <2>7. /\ e \subseteq {InvalidParams, OtherError} /\ l \subseteq {InvalidParams, OtherError}
        /\ InvalidParams \in e <=> "INVALID_ARGUMENT" \in early
        /\ OtherError \in e <=> "fault" \in early
        /\ InvalidParams \in l <=> "INVALID_ARGUMENT" \in late
        /\ OtherError \in l <=> "fault" \in late
    BY <2>6 DEF ErrorsOf, InvalidParams, OtherError
  <2>8. answers = IF e # {} THEN e ELSE IF number # {} THEN number ELSE IF l # {} THEN l
                  ELSE IF hash # {} THEN hash
                  ELSE IF FailureOf(fails) # {} THEN FailureOf(fails) ELSE {"answer"}
    BY <1>4, <1>6, <1>11
  <2>9. /\ number \in {{}, {"null"}, {OtherError}} /\ hash \in {{}, {"null"}, {OtherError}}
        /\ number # {} \/ hash # {} <=> missing
        /\ number = {"null"} => method \in NullBlock
        /\ hash = {"null"} => method \in NullBlock \cup ByIndex
    <3>1. /\ number \in {{}, {"null"}, {OtherError}}
          /\ number = {"null"} => method \in NullBlock
          /\ number # {} <=> ~known /\ Named(m, params) \cap {"hexNumber", "number"} # {}
      BY DEF UnknownNumber, m, OtherError
    <3>2. /\ hash \in {{}, {"null"}, {OtherError}}
          /\ hash = {"null"} => method \in NullBlock \cup ByIndex
          /\ hash # {} <=> ~known /\ (m.tag = "filter" \/ "hexHash" \in Named(m, params))
      BY DEF UnknownHash, m, OtherError
    <3> HIDE DEF number, hash
    <3>3. QED
      BY <3>1, <3>2
  <2>10. number # {} \/ hash # {} => ~known
    BY <2>9
  <2>11. FailureOf(fails) = IF fails \in {"evm", "pool"} THEN {InternalError}
                            ELSE IF fails = "no" THEN {} ELSE {OtherError}
    BY DEF FailureOf, Failures
  <2> HIDE DEF number, hash, missing, answers, e, l
  <2>12. CASE ~accepted
    <3>1. PICK i \in args : ~Accepted(m, i, params[i])
      BY <2>2, <2>12
    <3>2. "fault" \in early => AnyArg(NoCode) \/ AnyArg(NoTransaction)
      <4>1. SUFFICES ASSUME NEW j \in args, "fault" \in E(j) PROVE AnyArg(NoCode) \/ AnyArg(NoTransaction)
        BY <2>4
      <4>2. NoCode(m, j, params[j]) \/ NoTransaction(m, j, params[j])
        BY <2>2, <4>1 DEF Judged
      <4>3. QED
        BY <4>2
    <3>3. "fault" \in late => AnyArg(NoCode)
      <4>1. SUFFICES ASSUME NEW j \in args, "fault" \in L(j) PROVE AnyArg(NoCode)
        BY <2>5
      <4>2. NoCode(m, j, params[j])
        BY <2>2, <4>1 DEF Judged
      <4>3. QED
        BY <4>2
    <3>4. \/ "INVALID_ARGUMENT" \in E(i)
          \/ LongPosition(m, i, params[i]) /\ t(i) = "position" /\ "INVALID_ARGUMENT" \in L(i)
      BY <2>2, <3>1 DEF Judged
    <3>5. CASE "INVALID_ARGUMENT" \in E(i)
      <4>1. "INVALID_ARGUMENT" \in early
        BY <2>4, <3>5
      <4>2. InvalidParams \in e /\ answers = e
        BY <2>7, <2>8, <4>1
      <4>3. QED
        BY <2>7, <2>12, <3>2, <4>2
    <3>6. CASE LongPosition(m, i, params[i]) /\ t(i) = "position" /\ "INVALID_ARGUMENT" \in L(i)
      <4>1. AnyArg(LongPosition)
        BY <3>6
      <4>2. "INVALID_ARGUMENT" \in late /\ l # {}
        BY <2>5, <2>7, <3>6
      <4>3. method \notin NullBlock
        <5>1. i \in DOMAIN m.schema
          OBVIOUS
        <5>2. QED
          BY <1>5, <3>6, <5>1 DEF m
      <4>4. answers \in {e, number, l} /\ answers # {}
        BY <2>8, <4>2
      <4>5. number = {} \/ number = {OtherError}
        BY <2>9, <4>3
      <4>6. /\ answers \subseteq {InvalidParams, OtherError}
            /\ OtherError \in answers => AnyArg(NoCode) \/ AnyArg(NoTransaction) \/ ~known
        BY <2>7, <2>10, <3>2, <3>3, <4>4, <4>5 DEF InvalidParams, OtherError
      <4>7. QED
        BY <2>12, <4>1, <4>4, <4>6
    <3>7. QED
      BY <3>4, <3>5, <3>6
  <2>13. CASE accepted
    <3>1. \A i \in args : Accepted(m, i, params[i])
      BY <2>2, <2>13
    <3>2. CASE AnyArg(NotUnwrapped)
      <4>1. PICK i \in args : NotUnwrapped(m, i, params[i])
        BY <3>2
      <4>2. "INVALID_ARGUMENT" \in early
        <5>1. "INVALID_ARGUMENT" \in E(i)
          BY <2>2, <4>1 DEF Judged
        <5>2. QED
          BY <2>4, <5>1
      <4>3. ASSUME NEW j \in args, "fault" \in E(j) PROVE FALSE
        <5>1. \/ NoNumber(m, j, params[j])
              \/ t(j) \in {"transaction", "substrateGasParams?"} /\ m.tag # "raw"
          BY <2>2, <3>1, <4>3 DEF Judged
        <5>2. m.tag = "raw" /\ t(i) \in Blockish /\ params[i] \in {"{blockNumber}", "{blockHash}"}
          BY <4>1 DEF NotUnwrapped, Blockish
        <5>3. NoNumber(m, j, params[j]) => t(j) \in Blockish /\ params[j] \in {"negative", "fraction"}
          BY DEF NoNumber, Blockish
        <5>4. t(i) \in Blockish /\ t(j) \in Blockish => i = j
          BY <1>1 DEF Declares
        <5>5. QED
          BY <5>1, <5>2, <5>3, <5>4
      <4>4. "fault" \notin early
        BY <2>4, <4>3
      <4>5. e = {InvalidParams}
        BY <2>7, <4>2, <4>4
      <4>6. QED
        BY <2>8, <2>13, <3>2, <4>5
    <3>3. CASE ~AnyArg(NotUnwrapped)
      <4>1. \A i \in args : /\ E(i) \cup L(i) \subseteq {"fault"}
                            /\ E(i) \cup L(i) # {} <=> NoCode(m, i, params[i])
        BY <2>2, <3>1, <3>3 DEF Judged
      <4>2. CASE AnyArg(NoCode)
        <5>1. "INVALID_ARGUMENT" \notin early /\ "INVALID_ARGUMENT" \notin late
          BY <2>4, <2>5, <4>1
        <5>2. PICK i \in args : NoCode(m, i, params[i])
          BY <4>2
        <5>3. "fault" \in E(i) \/ "fault" \in L(i)
          BY <4>1, <5>2
        <5>4. CASE "fault" \in E(i)
          <6>1. e = {OtherError}
            BY <2>4, <2>7, <5>1, <5>4
          <6>2. QED
            BY <2>8, <2>13, <3>3, <4>2, <6>1
        <5>5. CASE "fault" \in L(i)
          <6>1. l = {OtherError} /\ e \in {{}, {OtherError}}
            BY <2>5, <2>7, <5>1, <5>5
          <6>2. method \notin NullBlock
            <7>1. i \in DOMAIN m.schema
              OBVIOUS
            <7>2. QED
              BY <1>5, <5>5, <7>1 DEF m, L
          <6>3. number \in {{}, {OtherError}}
            BY <2>9, <6>2
          <6>4. answers = {OtherError}
            BY <2>8, <6>1, <6>3
          <6>5. QED
            BY <2>13, <3>3, <4>2, <6>4
        <5>6. QED
          BY <5>3, <5>4, <5>5
      <4>3. CASE ~AnyArg(NoCode)
        <5>1. early = {} /\ late = {}
          <6>1. \A i \in args : E(i) = {} /\ L(i) = {}
            BY <4>1, <4>3
          <6>2. QED
            BY <2>4, <2>5, <6>1
        <5>2. e = {} /\ l = {}
          BY <2>7, <5>1
        <5>3. answers = IF number # {} THEN number ELSE IF hash # {} THEN hash
                        ELSE IF FailureOf(fails) # {} THEN FailureOf(fails) ELSE {"answer"}
          BY <2>8, <5>2
        <5>4. CASE missing
          <6>1. answers \in {{OtherError}, {"null"}}
            BY <2>9, <5>3, <5>4
          <6>2. QED
            BY <2>13, <3>3, <4>3, <5>4, <6>1
        <5>5. CASE ~missing
          <6>1. answers = IF FailureOf(fails) # {} THEN FailureOf(fails) ELSE {"answer"}
            BY <2>9, <5>3, <5>5
          <6>2. answers = IF fails \in {"evm", "pool"} THEN {InternalError}
                          ELSE {IF fails = "no" THEN "answer" ELSE OtherError}
            BY <2>11, <6>1
          <6>3. QED
            BY <2>13, <3>3, <4>3, <5>5, <6>2
        <5>6. QED
          BY <5>4, <5>5
      <4>4. QED
        BY <4>2, <4>3
    <3>4. QED
      BY <3>2, <3>3
  <2>14. QED
    BY <2>12, <2>13
<1>12. QED
  BY <1>10, <1>11

(* Validation and provider agree on every argument of every method, but    *)
(* for the named departures, whatever the other arguments are: a request   *)
(* that is accepted is answered or told what failed, and one that is not   *)
(* is told its parameters are wrong.                                       *)
THEOREM RequestsAreUnderstood == Spec => []RequestsUnderstood
<1>1. JobGiven => RequestsUnderstood
  <2> SUFFICES ASSUME job.in \in RequestJobs, job.in.method \in DOMAIN Methods
               PROVE  RequestUnderstood(job.in.method, job.in.params, job.in.socket, job.in.known,
                                        job.in.fails)
    BY DEF JobGiven, RequestsUnderstood
  <2>1. job.in.params \in Seq(Shapes) /\ job.in.socket \in BOOLEAN /\ job.in.known \in BOOLEAN
    BY RequestJobsAssumption
  <2>2. job.in.fails \in Failures
    <3>1. job.in.fails \in MayFail(job.in.method)
      BY RequestJobsAssumption
    <3>2. QED
      BY <3>1 DEF MayFail, Failures
  <2>3. QED
    BY <2>1, <2>2, RequestIsUnderstood
<1>2. QED
  BY <1>1, JobIsGiven, PTL
=============================================================================
