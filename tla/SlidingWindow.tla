---------------------------- MODULE SlidingWindow ----------------------------
(***************************************************************************)
(* What the bounded set of the provider promises: the last limit distinct  *)
(* items added, oldest first.  MaxSizeSet ("automatically preserve a       *)
(* maxsize") is shown to implement it by the run named in the README, and  *)
(* HeadPipeline keeps its finalized hashes in it.  BlockCache makes room   *)
(* for additions, not for blocks, and does not implement it.               *)
(***************************************************************************)
EXTENDS Naturals, Sequences, Functions

CONSTANT Item

VARIABLES window, limit

Keep(s) == IF Len(s) > limit THEN Tail(s) ELSE s

Init == window = << >> /\ limit \in Nat

(* An item already in the window keeps its age; a new one is the youngest. *)
Add(x) ==
  /\ x \notin Range(window)
  /\ window' = Keep(Append(window, x))
  /\ UNCHANGED limit

Next == \E x \in Item : Add(x)

Spec == Init /\ [][Next]_<<window, limit>>
=============================================================================
