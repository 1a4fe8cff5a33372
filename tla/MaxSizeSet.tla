------------------------------ MODULE MaxSizeSet ------------------------------
(***************************************************************************)
(* utils/MaxSizeSet.ts: the set of the last maxSize finalized block        *)
(* hashes, kept as a singly linked list from the oldest item (tail) to the *)
(* newest (head) beside a key table.                                       *)
(*                                                                         *)
(* A list node is named by its hash: a node is created by the add that     *)
(* puts its hash in the table, and no live pointer reaches an older node   *)
(* of the same hash.  A removed node keeps its next field, as the garbage  *)
(* object in the program does.                                             *)
(***************************************************************************)
EXTENDS Naturals, Sequences, FiniteSets

CONSTANTS Hash,      \* block hashes
          MaxSizes,  \* bound: the sizes a set is constructed with
          Null       \* the null pointer

ASSUME NullAssumption == Null \notin Hash
ASSUME SizeAssumption == MaxSizes \subseteq Nat

VARIABLES maxSize,   \* maxBlockCacheSize of the provider
          items,     \* keys of the table
          size,
          head,      \* newest node, or Null
          tail,      \* oldest node, or Null
          next,      \* the next field of every node
          threw      \* TRUE once an add died with a TypeError

setVars == <<maxSize, items, size, head, tail, next, threw>>

Pointer == Hash \cup {Null}

SetTypeOK ==
  /\ maxSize \in MaxSizes
  /\ items \subseteq Hash
  /\ size \in 0..maxSize
  /\ head \in Pointer
  /\ tail \in Pointer
  /\ next \in [Hash -> Pointer]
  /\ threw \in BOOLEAN

SetInit ==
  /\ maxSize \in MaxSizes
  /\ items = {}
  /\ size = 0
  /\ head = Null
  /\ tail = Null
  /\ next = [h \in Hash |-> Null]
  /\ threw = FALSE

Full == size = maxSize

(* has() *)
Has(h) == h \in items

(* The new node is linked behind the current head; in the very first add,  *)
(* when there is no head, it becomes the tail instead.                     *)
Link(h, oldest) ==
  /\ tail' = IF head = Null THEN h ELSE oldest
  /\ next' = [n \in Hash |-> IF n = h THEN Null
                             ELSE IF n = head THEN h ELSE next[n]]
  /\ head' = h

(* add() below the bound. *)
AddToFree(h) ==
  /\ ~Has(h)
  /\ ~Full
  /\ items' = items \cup {h}
  /\ size' = size + 1
  /\ Link(h, tail)
  /\ UNCHANGED <<maxSize, threw>>

(* Slips: the key of the oldest item stays in the table; the newest item   *)
(* is dropped from the table instead of the oldest.                        *)
AddToFullKeepingKey(h) ==
  /\ ~Has(h)
  /\ Full
  /\ tail # Null
  /\ items' = items \cup {h}
  /\ Link(h, next[tail])
  /\ UNCHANGED <<maxSize, size, threw>>

AddToFullStuckTail(h) ==
  /\ ~Has(h)
  /\ Full
  /\ tail # Null
  /\ items' = (items \ {tail}) \cup {h}
  /\ Link(h, tail)
  /\ UNCHANGED <<maxSize, size, threw>>

(* add() at the bound: the oldest item goes first. *)
AddToFull(h) ==
  /\ ~Has(h)
  /\ Full
  /\ tail # Null
  /\ items' = (items \ {tail}) \cup {h}
  /\ Link(h, next[tail])
  /\ UNCHANGED <<maxSize, size, threw>>

(* add() at the bound with no tail: `this.tail!.blockHash` throws before   *)
(* anything is assigned.                                                   *)
AddThrows(h) ==
  /\ ~Has(h)
  /\ Full
  /\ tail = Null
  /\ threw' = TRUE
  /\ UNCHANGED <<maxSize, items, size, head, tail, next>>

(* add(); an item that is already there is left where it is. *)
Add(h) == AddToFree(h) \/ AddToFull(h) \/ AddThrows(h)

SetNext == \E h \in Hash : Add(h)

SetSpec == SetInit /\ [][SetNext]_setVars

(* The place of toString()'s walk from tail along next after n steps.      *)
Cur[n \in Nat] ==
  IF n = 0 THEN tail ELSE IF Cur[n - 1] = Null THEN Null ELSE next[Cur[n - 1]]

(* toString().  The bound only makes the walk total: one that does not end *)
(* shows up as longer than the set may be.                                 *)
ToString ==
  [i \in 1 .. Cardinality({n \in 0..maxSize : Cur[n] # Null}) |-> Cur[i - 1]]

-----------------------------------------------------------------------------
(* From two items on, the list and the table agree: walking the list meets *)
(* every key exactly once, `size` counts them, and head is where the walk  *)
(* ends.                                                                   *)
ListMatchesItems ==
  maxSize >= 2 =>
    LET list == ToString
    IN /\ {list[i] : i \in DOMAIN list} = items
       /\ Len(list) = size
       /\ size <= maxSize
       /\ size > 0 => list[size] = head

(* `this.tail!` is never null from two items on, so that no add throws and *)
(* the finalized$ subject that the same callback feeds next is never       *)
(* skipped (base-provider.ts:404-410).                                     *)
ThrowsOnlyBelowTwo == threw => maxSize < 2

(* Below two items the list breaks for good: after the first throw the set *)
(* keeps answering has() from the same keys, whatever is finalized later.  *)
StuckAfterThrow == [][threw => UNCHANGED <<items, head, tail>>]_setVars

(* From two items on the detailed list implements the abstract window. *)
SetWindow == INSTANCE SlidingWindow
            WITH Item <- Hash, limit <- maxSize, window <- ToString
SetWindowSpec ==
  /\ SetWindow!Init
  /\ [][maxSize >= 2 => [SetWindow!Next]_<<ToString, maxSize>>]_setVars
=============================================================================
