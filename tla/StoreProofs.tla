------------------------------ MODULE StoreProofs ------------------------------
(* Why `this.tail!` of MaxSizeSet.add() is sound for every size from two   *)
(* on, what the list then draws, and what is left of the set below that;   *)
(* and what BlockCache keeps of its promises, for every window size, every *)
(* set of blocks and every placement of the transactions in them.          *)
EXTENDS MaxSizeSet, BlockCache, SequenceTheorems, FiniteSetTheorems,
        NaturalsInduction, WellFoundedInduction, TLAPS

(* Every add keeps the types of the set. *)
THEOREM SetTypeCorrect == SetSpec => []SetTypeOK
<1>1. SetInit => SetTypeOK
  <2> SUFFICES ASSUME SetInit PROVE SetTypeOK
    OBVIOUS
  <2>1. maxSize \in Nat /\ size \in 0..maxSize
    BY SizeAssumption DEF SetInit
  <2>2. QED
    BY <2>1 DEF SetInit, SetTypeOK, Pointer
<1>2. SetTypeOK /\ [SetNext]_setVars => SetTypeOK'
  <2> SUFFICES ASSUME SetTypeOK, [SetNext]_setVars PROVE SetTypeOK'
    OBVIOUS
  <2> USE SizeAssumption
  <2>1. ASSUME NEW h \in Hash, AddToFree(h) PROVE SetTypeOK'
    BY <2>1 DEF SetTypeOK, AddToFree, Full, Link, Pointer
  <2>2. ASSUME NEW h \in Hash, AddToFull(h) PROVE SetTypeOK'
    BY <2>2 DEF SetTypeOK, AddToFull, Link, Pointer
  <2>3. ASSUME NEW h \in Hash, AddThrows(h) PROVE SetTypeOK'
    BY <2>3 DEF SetTypeOK, AddThrows
  <2>4. CASE UNCHANGED setVars
    BY <2>4 DEF SetTypeOK, setVars
  <2>5. QED
    BY <2>1, <2>2, <2>3, <2>4 DEF SetNext, Add
<1>3. QED
  BY <1>1, <1>2, PTL DEF SetSpec

-----------------------------------------------------------------------------
(* The list that the pointers draw: q is its items from tail to head. *)
Draws(q) ==
  /\ q \in [1..size -> Hash]
  /\ \A i, j \in 1..size : q[i] = q[j] => i = j
  /\ items = {q[i] : i \in 1..size}
  /\ size = 0 => head = Null /\ tail = Null
  /\ size > 0 => tail = q[1] /\ head = q[size] /\ next[head] = Null
  /\ \A i \in 1..size : i < size => next[q[i]] = q[i + 1]

Linked == \E q : Draws(q)

(* An add below the bound appends to the list. *)
LEMMA FreeLinked ==
  ASSUME SetTypeOK, NEW q, Draws(q), NEW h \in Hash, AddToFree(h)
  PROVE  \E r : /\ Draws(r)' /\ size' = size + 1
                /\ \A i \in 1..size : r[i] = q[i]
                /\ r[size'] = h
<1>1. size \in Nat /\ size' = size + 1 /\ head' = h
  BY SizeAssumption DEF SetTypeOK, AddToFree, Link
<1>2. \A i \in 1..size : q[i] \in Hash /\ q[i] # h
  BY DEF Draws, AddToFree, Has
<1>3. PICK r \in [1..size' -> Hash] : /\ \A i \in 1..size : r[i] = q[i]
                                      /\ r[size'] = h
  <2> DEFINE f == [i \in 1..size' |-> IF i <= size THEN q[i] ELSE h]
  <2>1. /\ f \in [1..size' -> Hash]
        /\ \A i \in 1..size : f[i] = q[i]
        /\ f[size'] = h
    BY <1>1, <1>2
  <2> HIDE DEF f
  <2>2. QED
    BY <2>1
<1>4. \A i, j \in 1..size' : r[i] = r[j] => i = j
  BY <1>1, <1>2, <1>3 DEF Draws
<1>5. items' = {r[i] : i \in 1..size'}
  <2>1. {r[i] : i \in 1..size'} = {q[i] : i \in 1..size} \cup {h}
    BY <1>1, <1>3
  <2>2. QED
    BY <2>1 DEF Draws, AddToFree
<1>6. tail' = r[1]
  <2>1. CASE size = 0
    BY <1>1, <1>3, <2>1 DEF Draws, AddToFree, Link
  <2>2. CASE size > 0
    <3>1. head = q[size] /\ head # Null /\ tail = q[1]
      BY <1>1, <1>2, <2>2, NullAssumption DEF Draws
    <3>2. QED
      BY <1>1, <1>3, <2>2, <3>1 DEF AddToFree, Link
  <2>3. QED
    BY <1>1, <2>1, <2>2
<1>7. ASSUME NEW i \in 1..size', i < size' PROVE next'[r[i]] = r[i + 1]
  <2>1. i \in 1..size /\ r[i] = q[i] /\ head = q[size]
    BY <1>1, <1>3, <1>7 DEF Draws
  <2>2. next'[q[i]] = IF q[i] = head THEN h ELSE next[q[i]]
    BY <1>2, <2>1 DEF AddToFree, Link
  <2>3. CASE i = size
    BY <1>1, <1>3, <2>1, <2>2, <2>3
  <2>4. CASE i < size
    <3>1. q[i] # head /\ next[q[i]] = q[i + 1] /\ r[i + 1] = q[i + 1]
      BY <1>1, <1>3, <2>1, <2>4 DEF Draws
    <3>2. QED
      BY <2>1, <2>2, <3>1
  <2>5. QED
    BY <1>1, <2>1, <2>3, <2>4
<1>8. next'[head'] = Null
  BY <1>1 DEF AddToFree, Link
<1>9. Draws(r)'
  BY <1>1, <1>3, <1>4, <1>5, <1>6, <1>7, <1>8 DEF Draws
<1>10. QED
  BY <1>1, <1>3, <1>9

(* An add at the bound moves it on by one: with two items or more, the     *)
(* second is there to become the tail.                                     *)
LEMMA FullLinked ==
  ASSUME SetTypeOK, NEW q, Draws(q), size >= 2, NEW h \in Hash, AddToFull(h)
  PROVE  \E r : /\ Draws(r)' /\ size' = size
                /\ \A i \in 1..size : i < size => r[i] = q[i + 1]
                /\ r[size'] = h
<1>1. size \in Nat /\ size' = size /\ head' = h
  BY SizeAssumption DEF SetTypeOK, AddToFull, Link
<1>2. \A i \in 1..size : q[i] \in Hash /\ q[i] # h
  BY DEF Draws, AddToFull, Has
<1>3. PICK r \in [1..size' -> Hash] :
        /\ \A i \in 1..size : i < size => i + 1 \in 1..size /\ r[i] = q[i + 1]
        /\ r[size'] = h
  <2> DEFINE f == [i \in 1..size' |-> IF i < size THEN q[i + 1] ELSE h]
  <2>1. /\ f \in [1..size' -> Hash]
        /\ \A i \in 1..size : i < size => i + 1 \in 1..size /\ f[i] = q[i + 1]
        /\ f[size'] = h
    BY <1>1, <1>2
  <2> HIDE DEF f
  <2>2. QED
    BY <2>1
<1>4. ASSUME NEW i \in 1..size, NEW j \in 1..size, r[i] = r[j] PROVE i = j
  <2>1. CASE i < size /\ j < size
    <3>1. i + 1 = j + 1
      BY <1>3, <1>4, <2>1 DEF Draws
    <3>2. QED
      BY <3>1
  <2>2. CASE i = size \/ j = size
    BY <1>1, <1>2, <1>3, <1>4, <2>2
  <2>3. QED
    BY <1>1, <2>1, <2>2
<1>5. items' = {r[i] : i \in 1..size'}
  <2>1. tail = q[1] /\ 1 \in 1..size
    BY <1>1 DEF Draws
  <2>2. items \ {tail} = {q[i] : i \in 2..size}
    <3>1. \A i \in 1..size : q[i] = tail <=> i = 1
      BY <2>1 DEF Draws
    <3>2. items = {q[i] : i \in 1..size}
      BY DEF Draws
    <3>3. 2..size = (1..size) \ {1}
      BY <1>1
    <3>4. QED
      BY <3>1, <3>2, <3>3
  <2>3. {r[i] : i \in 1..size} = {q[i] : i \in 2..size} \cup {h}
    <3>1. \A i \in 2..size : i - 1 \in 1..size /\ i - 1 < size /\ r[i - 1] = q[i]
      BY <1>1, <1>3
    <3>2. \A i \in 1..size : i < size => i + 1 \in 2..size /\ r[i] = q[i + 1]
      BY <1>1, <1>3
    <3>3. size \in 1..size /\ r[size] = h /\ \A i \in 1..size : i < size \/ i = size
      BY <1>1, <1>3
    <3>4. \A i \in 1..size : r[i] \in {q[j] : j \in 2..size} \cup {h}
      BY <3>2, <3>3
    <3>5. \A j \in 2..size : q[j] \in {r[i] : i \in 1..size}
      BY <3>1
    <3>6. h \in {r[i] : i \in 1..size}
      BY <3>3
    <3>7. QED
      BY <3>4, <3>5, <3>6
  <2>4. QED
    BY <1>1, <2>2, <2>3 DEF AddToFull
<1>6. tail' = r[1]
  <2>1. 1 \in 1..size /\ 1 < size /\ head = q[size] /\ tail = q[1] /\ next[q[1]] = q[2]
    BY <1>1 DEF Draws
  <2>2. head # Null
    BY <1>1, <1>2, <2>1, NullAssumption
  <2>3. tail' = q[2]
    BY <2>1, <2>2 DEF AddToFull, Link
  <2>4. QED
    BY <1>3, <2>1, <2>3
<1>7. ASSUME NEW i \in 1..size, i < size PROVE next'[r[i]] = r[i + 1]
  <2>1. i + 1 \in 1..size /\ r[i] = q[i + 1] /\ head = q[size]
    BY <1>1, <1>3, <1>7 DEF Draws
  <2>2. next'[q[i + 1]] = IF q[i + 1] = head THEN h ELSE next[q[i + 1]]
    BY <1>2, <2>1 DEF AddToFull, Link
  <2>3. CASE i + 1 = size
    BY <1>1, <1>3, <2>1, <2>2, <2>3
  <2>4. CASE i + 1 < size
    <3>1. q[i + 1] # head /\ next[q[i + 1]] = q[i + 2] /\ r[i + 1] = q[i + 2]
      BY <1>1, <1>3, <2>1, <2>4 DEF Draws
    <3>2. QED
      BY <2>1, <2>2, <3>1
  <2>5. QED
    BY <1>1, <2>1, <2>3, <2>4
<1>8. next'[head'] = Null
  BY <1>1 DEF AddToFull, Link
<1>9. Draws(r)'
  BY <1>1, <1>3, <1>4, <1>5, <1>6, <1>7, <1>8 DEF Draws
<1>10. QED
  BY <1>1, <1>3, <1>9

(* The set with two items or more is always such a list; a set that threw  *)
(* once is full and has no tail.                                           *)
ListInv ==
  /\ maxSize >= 2 => Linked
  /\ threw => maxSize < 2 /\ size = maxSize /\ tail = Null

LEMMA ListStays == SetSpec => []ListInv
<1>1. SetInit => ListInv
  <2> SUFFICES ASSUME SetInit PROVE ListInv
    OBVIOUS
  <2>1. Draws([i \in 1..0 |-> Null])
    BY DEF SetInit, Draws
  <2>2. QED
    BY <2>1 DEF SetInit, ListInv, Linked
<1>2. SetTypeOK /\ ListInv /\ [SetNext]_setVars => ListInv'
  <2> SUFFICES ASSUME SetTypeOK, ListInv, [SetNext]_setVars PROVE ListInv'
    OBVIOUS
  <2>1. ASSUME NEW h \in Hash, AddToFree(h) PROVE ListInv'
    <3>1. ~threw'
      BY <2>1 DEF ListInv, AddToFree, Full
    <3>2. maxSize' = maxSize
      BY <2>1 DEF AddToFree
    <3>3. QED
      BY <2>1, <3>1, <3>2, FreeLinked DEF ListInv, Linked
  <2>2. ASSUME NEW h \in Hash, AddToFull(h) PROVE ListInv'
    <3>1. ~threw'
      BY <2>2 DEF ListInv, AddToFull
    <3>2. maxSize' = maxSize /\ size = maxSize
      BY <2>2 DEF AddToFull, Full
    <3>3. QED
      BY <2>2, <3>1, <3>2, FullLinked DEF ListInv, Linked
  <2>3. ASSUME NEW h \in Hash, AddThrows(h) PROVE ListInv'
    <3>1. maxSize < 2
      <4> SUFFICES ASSUME maxSize >= 2 PROVE FALSE
        BY SizeAssumption DEF SetTypeOK
      <4>1. PICK q : Draws(q)
        BY DEF ListInv, Linked
      <4>2. size >= 2 /\ size \in Nat /\ tail = Null
        BY <2>3, SizeAssumption DEF AddThrows, Full, SetTypeOK
      <4>3. tail = q[1] /\ q[1] \in Hash
        BY <4>1, <4>2 DEF Draws
      <4>4. QED
        BY <4>2, <4>3, NullAssumption
    <3>2. QED
      BY <2>3, <3>1, SizeAssumption DEF ListInv, AddThrows, Full, SetTypeOK
  <2>4. CASE UNCHANGED setVars
    BY <2>4 DEF setVars, ListInv, Linked, Draws
  <2>5. QED
    BY <2>1, <2>2, <2>3, <2>4 DEF SetNext, Add
<1>3. QED
  BY <1>1, <1>2, SetTypeCorrect, PTL DEF SetSpec

(* A set of two items or more never throws, however often items are added. *)
THEOREM NoThrowFromTwo == SetSpec => []ThrowsOnlyBelowTwo
<1>1. ListInv => ThrowsOnlyBelowTwo
  BY DEF ListInv, ThrowsOnlyBelowTwo
<1>2. QED
  BY <1>1, ListStays, PTL

(* A smaller one, once it threw, never changes again. *)
THEOREM ThrowIsForever == SetSpec => StuckAfterThrow
<1>1. ListInv /\ [SetNext]_setVars => (threw => UNCHANGED <<items, head, tail>>)
  <2> SUFFICES ASSUME ListInv, [SetNext]_setVars, threw PROVE UNCHANGED <<items, head, tail>>
    OBVIOUS
  <2>1. ASSUME NEW h \in Hash, AddThrows(h) PROVE UNCHANGED <<items, head, tail>>
    BY <2>1 DEF AddThrows
  <2>2. ASSUME NEW h \in Hash PROVE ~AddToFree(h) /\ ~AddToFull(h)
    BY DEF ListInv, AddToFree, AddToFull, Full
  <2>3. QED
    BY <2>1, <2>2 DEF SetNext, Add, setVars
<1>2. QED
  BY <1>1, ListStays, PTL DEF SetSpec, StuckAfterThrow

-----------------------------------------------------------------------------
(* Induction, as the library states it for a set instead of a predicate. *)
LEMMA NatInd ==
  ASSUME NEW S, 0 \in S, \A n \in Nat : n \in S => n + 1 \in S
  PROVE  Nat \subseteq S
<1> DEFINE R == {ss \in Nat \X Nat : ss[1] < ss[2]}
           T == Nat \ S
<1> SUFFICES ASSUME T # {} PROVE FALSE
  OBVIOUS
<1>1. IsWellFoundedOn(R, Nat)
  BY NatLessThanWellFounded DEF OpToRel
<1>2. T \subseteq Nat
  OBVIOUS
<1> HIDE DEF R, T
<1>3. PICK x \in T : \A y \in T : <<y, x>> \notin R
  BY <1>1, <1>2, WFMin
<1>4. x \in Nat /\ x \notin S /\ x # 0
  BY <1>3 DEF T
<1>5. x - 1 \in Nat /\ x - 1 < x /\ (x - 1) + 1 = x
  BY <1>4
<1>6. x - 1 \in T
  BY <1>4, <1>5 DEF T
<1>7. <<x - 1, x>> \in R
  BY <1>4, <1>5 DEF R
<1>8. QED
  BY <1>3, <1>6, <1>7

(* The walk of toString() meets the list that the pointers draw, and then  *)
(* the null behind its head for ever.                                      *)
LEMMA WalkMeetsList ==
  ASSUME SetTypeOK, NEW q, Draws(q)
  PROVE  \A n \in Nat : Cur[n] = IF n < size THEN q[n + 1] ELSE Null
<1>1. size \in Nat
  BY SizeAssumption DEF SetTypeOK
<1> DEFINE met == [n \in Nat |-> IF n < size THEN q[n + 1] ELSE Null]
           Steps(f) == [n \in Nat |-> IF n = 0 THEN tail
                                      ELSE IF f[n - 1] = Null THEN Null ELSE next[f[n - 1]]]
<1>2. met = Steps(met)
  <2>1. ASSUME NEW n \in Nat PROVE met[n] = Steps(met)[n]
    <3>1. CASE n = 0
      BY <1>1, <3>1 DEF Draws
    <3>2. CASE n > 0
      <4>1. n - 1 \in Nat /\ met[n - 1] = IF n - 1 < size THEN q[n] ELSE Null
        BY <3>2
      <4>2. Steps(met)[n] = IF met[n - 1] = Null THEN Null ELSE next[met[n - 1]]
        BY <3>2
      <4> HIDE DEF Steps
      <4>3. CASE n - 1 < size
        <5>1. n \in 1..size /\ q[n] \in Hash /\ q[n] # Null
          BY <1>1, <3>2, <4>3, NullAssumption DEF Draws
        <5>2. CASE n < size
          BY <1>1, <4>1, <4>2, <4>3, <5>1, <5>2 DEF Draws
        <5>3. CASE n = size
          BY <1>1, <4>1, <4>2, <4>3, <5>1, <5>3 DEF Draws
        <5>4. QED
          BY <1>1, <3>2, <4>3, <5>2, <5>3
      <4>4. CASE ~(n - 1 < size)
        BY <1>1, <3>2, <4>1, <4>2, <4>4
      <4>5. QED
        BY <4>3, <4>4
    <3>3. QED
      BY <3>1, <3>2
  <2>2. QED
    BY <2>1
<1>3. Cur = CHOOSE f : f = Steps(f)
  BY DEF Cur
<1>4. Cur = Steps(Cur)
  <2> HIDE DEF met, Steps
  <2>1. \E f : f = Steps(f)
    BY <1>2
  <2>2. QED
    BY <1>3, <2>1
<1> DEFINE S == {n \in Nat : Cur[n] = met[n]}
<1>5. 0 \in S
  <2>1. Cur[0] = tail
    BY <1>4
  <2>2. met[0] = tail
    BY <1>1 DEF Draws
  <2>3. QED
    BY <2>1, <2>2
<1>6. ASSUME NEW n \in Nat, n \in S PROVE n + 1 \in S
  <2>1. n + 1 \in Nat /\ n + 1 # 0 /\ (n + 1) - 1 = n
    OBVIOUS
  <2>2. Cur[n + 1] = IF Cur[n] = Null THEN Null ELSE next[Cur[n]]
    BY <1>4, <2>1
  <2>3. met[n + 1] = IF met[n] = Null THEN Null ELSE next[met[n]]
    <3> HIDE DEF met
    <3>1. met[n + 1] = Steps(met)[n + 1]
      <4> HIDE DEF Steps
      <4>1. QED
        BY <1>2
    <3>2. QED
      BY <2>1, <3>1
  <2> HIDE DEF met
  <2>4. QED
    BY <1>6, <2>1, <2>2, <2>3
<1>7. Nat \subseteq S
  <2> HIDE DEF S
  <2>1. QED
    BY <1>5, <1>6, NatInd
<1>8. QED
  BY <1>7

(* The lists that an add draws, as the window has them. *)
LEMMA IsAppended ==
  ASSUME NEW S, NEW q \in Seq(S), NEW h \in S, NEW r \in [1..(Len(q) + 1) -> S],
         \A i \in 1..Len(q) : r[i] = q[i], r[Len(q) + 1] = h
  PROVE  r = Append(q, h)
<1>1. Len(q) \in Nat /\ r \in Seq(S) /\ Len(r) = Len(q) + 1
  <2>1. Len(q) \in Nat /\ Len(q) + 1 \in Nat
    BY LenProperties
  <2>2. r \in Seq(S)
    BY <2>1, SeqDef
  <2>3. QED
    BY <2>1, <2>2, LenProperties
<1>2. /\ Append(q, h) \in Seq(S) /\ Len(Append(q, h)) = Len(q) + 1
      /\ \A i \in 1..(Len(q) + 1) : Append(q, h)[i] = IF i = Len(q) + 1 THEN h ELSE q[i]
  OBVIOUS
<1>3. \A i \in 1..(Len(q) + 1) : r[i] = Append(q, h)[i]
  BY <1>1, <1>2
<1>4. QED
  BY <1>1, <1>2, <1>3, SeqEqual

LEMMA IsMovedOn ==
  ASSUME NEW S, NEW q \in Seq(S), Len(q) > 0, NEW h \in S, NEW r \in [1..Len(q) -> S],
         \A i \in 1..Len(q) : i < Len(q) => r[i] = q[i + 1], r[Len(q)] = h
  PROVE  r = Tail(Append(q, h))
<1>1. Len(q) \in Nat /\ r \in Seq(S) /\ Len(r) = Len(q)
  <2>1. Len(q) \in Nat
    BY LenProperties
  <2>2. r \in Seq(S)
    BY <2>1, SeqDef
  <2>3. QED
    BY <2>1, <2>2, LenProperties
<1>2. /\ Append(q, h) \in Seq(S) /\ Len(Append(q, h)) = Len(q) + 1 /\ Append(q, h) # <<>>
      /\ \A i \in 1..(Len(q) + 1) : Append(q, h)[i] = IF i = Len(q) + 1 THEN h ELSE q[i]
  OBVIOUS
<1>3. /\ Tail(Append(q, h)) \in Seq(S) /\ Len(Tail(Append(q, h))) = Len(q)
      /\ \A i \in 1..Len(q) : Tail(Append(q, h))[i] = Append(q, h)[i + 1]
  BY <1>1, <1>2, HeadTailProperties
<1>4. \A i \in 1..Len(q) : r[i] = Tail(Append(q, h))[i]
  <2>1. TAKE i \in 1..Len(q)
  <2>2. CASE i < Len(q)
    BY <1>1, <1>2, <1>3, <2>2
  <2>3. CASE i = Len(q)
    BY <1>1, <1>2, <1>3, <2>3
  <2>4. QED
    <3>1. Len(q) \in Nat /\ i \in 1..Len(q)
      BY <1>1
    <3>2. \A n \in Nat : \A j \in 1..n : j < n \/ j = n
      OBVIOUS
    <3>3. QED
      BY <2>2, <2>3, <3>1, <3>2
<1>5. QED
  BY <1>1, <1>3, <1>4, SeqEqual

LEMMA ListIsDrawn == SetTypeOK => \A q : size <= maxSize /\ Draws(q) => ToString = q
<1> SUFFICES ASSUME SetTypeOK, NEW q, size <= maxSize, Draws(q) PROVE ToString = q
  OBVIOUS
<1>1. size \in Nat /\ maxSize \in Nat /\ size <= maxSize
  BY SizeAssumption DEF SetTypeOK
<1>2. \A n \in Nat : Cur[n] = IF n < size THEN q[n + 1] ELSE Null
  BY WalkMeetsList
<1>3. q \in [1..size -> Hash]
  BY DEF Draws
<1>4. {n \in 0..maxSize : Cur[n] # Null} = 0..(size - 1)
  <2>1. ASSUME NEW n \in 0..maxSize PROVE Cur[n] # Null <=> n < size
    <3>1. n \in Nat /\ (n < size => n + 1 \in 1..size)
      BY <1>1
    <3>2. QED
      BY <1>2, <1>3, <3>1, NullAssumption
  <2>2. QED
    BY <1>1, <2>1
<1>5. Cardinality(0..(size - 1)) = size
  <2>1. 0 \in Int /\ size - 1 \in Int /\ (IF 0 > size - 1 THEN 0 ELSE size - 1 - 0 + 1) = size
    BY <1>1
  <2>2. QED
    BY <2>1, FS_Interval
<1>6. \A i \in 1..size : Cur[i - 1] = q[i]
  <2>1. TAKE i \in 1..size
  <2>2. i - 1 \in Nat /\ i - 1 < size /\ (i - 1) + 1 = i
    BY <1>1
  <2>3. QED
    BY <1>2, <2>2
<1>7. ToString = [i \in 1..size |-> Cur[i - 1]]
  BY <1>4, <1>5 DEF ToString
<1>8. QED
  BY <1>3, <1>6, <1>7

(* Walking the list of a set of two items or more meets every key of the   *)
(* table once, from the oldest to the newest: add() leaves neither a key   *)
(* without a node nor a node without a key, at the bound or below it.      *)
THEOREM ListAgrees == SetSpec => []ListMatchesItems
<1>1. SetTypeOK /\ ListInv => ListMatchesItems
  <2> SUFFICES ASSUME SetTypeOK, ListInv, maxSize >= 2
               PROVE  /\ {ToString[i] : i \in DOMAIN ToString} = items
                      /\ Len(ToString) = size
                      /\ size <= maxSize
                      /\ size > 0 => ToString[size] = head
    BY DEF ListMatchesItems
  <2>1. size \in Nat /\ maxSize \in Nat /\ size <= maxSize
    BY SizeAssumption DEF SetTypeOK
  <2>2. PICK q : Draws(q)
    BY DEF ListInv, Linked
  <2>3. ToString = q
    BY <2>1, <2>2, ListIsDrawn
  <2>4. q \in Seq(Hash) /\ Len(q) = size /\ DOMAIN q = 1..size
    <3>1. q \in [1..size -> Hash]
      BY <2>2 DEF Draws
    <3>2. QED
      BY <2>1, <3>1, SeqDef, LenProperties
  <2>5. QED
    BY <2>1, <2>2, <2>3, <2>4 DEF Draws
<1>2. QED
  BY <1>1, SetTypeCorrect, ListStays, PTL

(* Every add to a set of two items or more is a step of the sliding window *)
(* or changes nothing: a new hash becomes the youngest, and the oldest     *)
(* goes when the set was full.                                             *)
THEOREM ImplementsWindow == SetSpec => SetWindowSpec
<1> DEFINE Listed == \A q : size <= maxSize /\ Draws(q) => ToString = q
<1>1. SetTypeOK => Listed
  BY ListIsDrawn
<1>2. SetInit => SetWindow!Init
  <2> SUFFICES ASSUME SetInit PROVE SetWindow!Init
    OBVIOUS
  <2>1. maxSize \in Nat /\ size = 0 /\ SetTypeOK
    <3>1. maxSize \in Nat /\ size \in 0..maxSize
      BY SizeAssumption DEF SetInit
    <3>2. QED
      BY <3>1 DEF SetInit, SetTypeOK, Pointer
  <2>2. Draws(<<>>)
    BY DEF SetInit, Draws
  <2>3. ToString = <<>>
    BY <2>1, <2>2, ListIsDrawn
  <2>4. QED
    BY <2>1, <2>3 DEF SetWindow!Init
<1>3. SetTypeOK /\ SetTypeOK' /\ ListInv /\ Listed /\ Listed' /\ [SetNext]_setVars
        => (maxSize >= 2 => [SetWindow!Next]_<<ToString, maxSize>>)
  <2> SUFFICES ASSUME SetTypeOK, SetTypeOK', ListInv, Listed, Listed', [SetNext]_setVars, maxSize >= 2
               PROVE  [SetWindow!Next]_<<ToString, maxSize>>
    OBVIOUS
  <2>1. size \in Nat /\ maxSize \in Nat /\ size <= maxSize
    BY SizeAssumption DEF SetTypeOK
  <2>2. size' \in Nat /\ maxSize' \in Nat /\ size' <= maxSize'
    BY SizeAssumption DEF SetTypeOK
  <2>3. PICK q : Draws(q)
    BY DEF ListInv, Linked
  <2>4. ToString = q
    BY <2>1, <2>3
  <2>5. q \in Seq(Hash) /\ Len(q) = size /\ DOMAIN q = 1..size /\ SetWindow!Range(q) = items
    <3>1. q \in [1..size -> Hash] /\ items = {q[i] : i \in 1..size}
      BY <2>3 DEF Draws
    <3>2. QED
      BY <2>1, <3>1, SeqDef, LenProperties DEF SetWindow!Range
  <2>6. ASSUME NEW h \in Hash, AddToFree(h) PROVE SetWindow!Add(h)
    <3>1. PICK r : /\ Draws(r)' /\ size' = size + 1
                   /\ \A i \in 1..size : r[i] = q[i]
                   /\ r[size'] = h
      BY <2>3, <2>6, FreeLinked
    <3>2. ToString' = r
      BY <2>2, <3>1
    <3>3. r = Append(q, h)
      <4>1. r \in [1..(size + 1) -> Hash]
        BY <3>1 DEF Draws
      <4>2. QED
        BY <2>1, <2>5, <3>1, <4>1, IsAppended
    <3>4. Len(Append(q, h)) = size + 1 /\ size + 1 <= maxSize
      BY <2>1, <2>2, <2>5, <2>6, <3>1 DEF AddToFree
    <3>5. h \notin SetWindow!Range(q) /\ maxSize' = maxSize
      BY <2>5, <2>6 DEF AddToFree, Has
    <3>6. QED
      BY <2>1, <2>4, <3>2, <3>3, <3>4, <3>5 DEF SetWindow!Add, SetWindow!Keep
  <2>7. ASSUME NEW h \in Hash, AddToFull(h) PROVE SetWindow!Add(h)
    <3>1. size >= 2 /\ size = maxSize
      BY <2>7 DEF AddToFull, Full
    <3>2. PICK r : /\ Draws(r)' /\ size' = size
                   /\ \A i \in 1..size : i < size => r[i] = q[i + 1]
                   /\ r[size'] = h
      BY <2>3, <2>7, <3>1, FullLinked
    <3>3. ToString' = r
      BY <2>2, <3>2
    <3>4. r = Tail(Append(q, h))
      <4>1. r \in [1..size -> Hash]
        BY <3>2 DEF Draws
      <4>2. QED
        BY <2>1, <2>5, <3>1, <3>2, <4>1, IsMovedOn
    <3>5. Len(Append(q, h)) = size + 1 /\ size + 1 > maxSize
      BY <2>1, <2>5, <3>1
    <3>6. h \notin SetWindow!Range(q) /\ maxSize' = maxSize
      BY <2>5, <2>7 DEF AddToFull, Has
    <3>7. QED
      BY <2>1, <2>4, <3>3, <3>4, <3>5, <3>6 DEF SetWindow!Add, SetWindow!Keep
  <2>8. ASSUME NEW h \in Hash PROVE ~AddThrows(h)
    <3> SUFFICES ASSUME AddThrows(h) PROVE FALSE
      OBVIOUS
    <3>1. size >= 2 /\ tail = Null
      BY DEF AddThrows, Full
    <3>2. tail = q[1] /\ q[1] \in Hash
      BY <2>1, <2>3, <3>1 DEF Draws
    <3>3. QED
      BY <3>1, <3>2, NullAssumption
  <2>9. ASSUME UNCHANGED setVars PROVE UNCHANGED <<ToString, maxSize>>
    <3>1. maxSize' = maxSize /\ size' = size /\ Draws(q)'
      BY <2>3, <2>9 DEF setVars, Draws
    <3>2. ToString' = q
      BY <2>2, <3>1
    <3>3. QED
      BY <2>4, <3>1, <3>2
  <2>10. QED
    BY <2>6, <2>7, <2>8, <2>9 DEF SetNext, Add, SetWindow!Next
<1>4. QED
  BY <1>1, <1>2, <1>3, SetTypeCorrect, ListStays, PTL DEF SetSpec, SetWindowSpec

-----------------------------------------------------------------------------
(* The two ways addReceipts() moves the window, element by element. *)
LEMMA WindowAppended ==
  ASSUME NEW s \in Seq(Block), NEW b \in Block
  PROVE  /\ Append(s, b) \in Seq(Block)
         /\ Len(Append(s, b)) = Len(s) + 1
         /\ \A i \in 1..Len(s) + 1 : Append(s, b)[i] = IF i <= Len(s) THEN s[i] ELSE b
  OBVIOUS

LEMMA WindowShifted ==
  ASSUME NEW s \in Seq(Block), NEW b \in Block
  PROVE  /\ Tail(Append(s, b)) \in Seq(Block)
         /\ Len(Tail(Append(s, b))) = Len(s)
         /\ \A i \in 1..Len(s) :
              Tail(Append(s, b))[i] = IF i < Len(s) THEN s[i + 1] ELSE b
         /\ Head(Append(s, b)) = IF Len(s) = 0 THEN b ELSE s[1]
         /\ Head(Append(s, b)) \in Block
<1>1. Append(s, b) # << >>
  BY WindowAppended, EmptySeq
<1>2. QED
  BY <1>1, HeadTailProperties, WindowAppended

(* The two tables after a call, entry by entry. *)
LEMMA TablesAppended ==
  ASSUME TypeOK, NEW b \in Block, AddToWindow(b)
  PROVE  /\ DOMAIN blockHashToReceipts' = DOMAIN blockHashToReceipts \cup {b}
         /\ \A k \in DOMAIN blockHashToReceipts' :
              blockHashToReceipts'[k] = IF k = b THEN TxsIn[b] ELSE blockHashToReceipts[k]
         /\ \A t \in Tx :
              txHashToReceipt'[t] = IF t \in TxsIn[b] THEN b ELSE txHashToReceipt[t]
  BY DEF AddToWindow, ByBlockWith, ByTxWith

LEMMA TablesEvicted ==
  ASSUME TypeOK, NEW b \in Block, AddAndEvict(b),
         NEW out, out = Head(Append(cachedBlockHashes, b))
  PROVE  /\ DOMAIN blockHashToReceipts' = (DOMAIN blockHashToReceipts \cup {b}) \ {out}
         /\ \A k \in DOMAIN blockHashToReceipts' :
              blockHashToReceipts'[k] = IF k = b THEN TxsIn[b] ELSE blockHashToReceipts[k]
         /\ \A t \in Tx :
              txHashToReceipt'[t] =
                IF \/ out = b /\ t \in TxsIn[b]
                   \/ out # b /\ out \in DOMAIN blockHashToReceipts
                              /\ t \in blockHashToReceipts[out]
                THEN NoBlock
                ELSE IF t \in TxsIn[b] THEN b ELSE txHashToReceipt[t]
<1> DEFINE byBlock == ByBlockWith(b)
           removing == IF out \in DOMAIN byBlock THEN byBlock[out] ELSE {}
<1>1. /\ DOMAIN byBlock = DOMAIN blockHashToReceipts \cup {b}
      /\ \A k \in DOMAIN byBlock :
           byBlock[k] = IF k = b THEN TxsIn[b] ELSE blockHashToReceipts[k]
  BY DEF ByBlockWith
<1>2. /\ blockHashToReceipts' = [k \in DOMAIN byBlock \ {out} |-> byBlock[k]]
      /\ txHashToReceipt' =
           [t \in Tx |-> IF t \in removing THEN NoBlock ELSE ByTxWith(b)[t]]
  BY DEF AddAndEvict
<1>3. \A t \in Tx : ByTxWith(b)[t] = IF t \in TxsIn[b] THEN b ELSE txHashToReceipt[t]
  BY DEF ByTxWith
<1>4. \A t \in Tx : t \in removing <=>
        \/ out = b /\ t \in TxsIn[b]
        \/ out # b /\ out \in DOMAIN blockHashToReceipts /\ t \in blockHashToReceipts[out]
  BY <1>1
<1> HIDE DEF byBlock, removing
<1>5. QED
  BY <1>1, <1>2, <1>3, <1>4

-----------------------------------------------------------------------------
(* Every call keeps the types of the cache. *)
THEOREM TypeCorrect == Spec => []TypeOK
<1>1. Init => TypeOK
  <2> SUFFICES ASSUME Init PROVE TypeOK
    OBVIOUS
  <2>1. DOMAIN blockHashToReceipts = {} /\ blockHashToReceipts \in [{} -> SUBSET Tx]
    BY DEF Init
  <2>2. cachedBlockHashes \in Seq(Block)
    BY DEF Init
  <2>3. txHashToReceipt \in [Tx -> Block \cup {NoBlock}]
    BY DEF Init
  <2>4. QED
    BY <2>1, <2>2, <2>3 DEF Init, TypeOK
<1>2. TypeOK /\ [Next]_vars => TypeOK'
  <2> SUFFICES ASSUME TypeOK, [Next]_vars PROVE TypeOK'
    OBVIOUS
  <2> USE TxsAssumption, NoBlockAssumption
  <2>1. ASSUME NEW b \in Block, First(b), UNCHANGED added PROVE TypeOK'
    BY <2>1 DEF TypeOK, First, SetlastCachedBlock
  <2>2. ASSUME NEW b \in Block, Cache(b), added' = Append(added, b)
        PROVE TypeOK'
    <3>1. lastCachedBlock' \in Block \cup {NoBlock} /\ added' \in Seq(Block)
      BY <2>2 DEF Cache, SetlastCachedBlock, TypeOK
    <3>2. CASE AddToWindow(b)
      BY <3>1, <3>2, WindowAppended DEF TypeOK, AddToWindow, ByBlockWith, ByTxWith
    <3>3. CASE AddAndEvict(b)
      <4>1. cachedBlockHashes' \in Seq(Block)
        BY <3>3, WindowShifted DEF TypeOK, AddAndEvict
      <4>2. /\ DOMAIN blockHashToReceipts' \subseteq Block
            /\ blockHashToReceipts' \in [DOMAIN blockHashToReceipts' -> SUBSET Tx]
        BY <3>3 DEF TypeOK, AddAndEvict, ByBlockWith
      <4>3. txHashToReceipt' \in [Tx -> Block \cup {NoBlock}]
        BY <3>3 DEF TypeOK, AddAndEvict, ByTxWith
      <4>4. QED
        BY <3>1, <4>1, <4>2, <4>3 DEF TypeOK
    <3>4. QED
      BY <2>2, <3>2, <3>3 DEF Cache, AddReceipts
  <2>3. CASE UNCHANGED vars
    BY <2>3 DEF TypeOK, vars
  <2>4. QED
    BY <2>1, <2>2, <2>3 DEF Next
<1>3. QED
  BY <1>1, <1>2, PTL DEF Spec

-----------------------------------------------------------------------------
(* NoDanglingReceipt needs to know what the receipts of a cached block are, *)
(* so that an eviction takes exactly its transactions out of the other      *)
(* table.                                                                   *)
Exact == \A k \in DOMAIN blockHashToReceipts : blockHashToReceipts[k] = TxsIn[k]

Found == \A t \in Tx : txHashToReceipt[t] # NoBlock =>
           /\ txHashToReceipt[t] \in DOMAIN blockHashToReceipts
           /\ t \in TxsIn[txHashToReceipt[t]]

LEMMA AddReceiptsFound ==
  ASSUME TypeOK, Exact, Found, NEW b \in Block, AddReceipts(b)
  PROVE  Exact' /\ Found'
<1>1. CASE AddToWindow(b)
  <2>1. /\ DOMAIN blockHashToReceipts' = DOMAIN blockHashToReceipts \cup {b}
        /\ \A k \in DOMAIN blockHashToReceipts' :
             blockHashToReceipts'[k] = IF k = b THEN TxsIn[b] ELSE blockHashToReceipts[k]
        /\ \A t \in Tx :
             txHashToReceipt'[t] = IF t \in TxsIn[b] THEN b ELSE txHashToReceipt[t]
    BY <1>1, TablesAppended
  <2>2. Exact'
    BY <2>1 DEF Exact
  <2>3. Found'
    BY <2>1 DEF Found
  <2>4. QED
    BY <2>2, <2>3
<1>2. CASE AddAndEvict(b)
  <2> DEFINE out == Head(Append(cachedBlockHashes, b))
  <2>1. /\ DOMAIN blockHashToReceipts' = (DOMAIN blockHashToReceipts \cup {b}) \ {out}
        /\ \A k \in DOMAIN blockHashToReceipts' :
             blockHashToReceipts'[k] = IF k = b THEN TxsIn[b] ELSE blockHashToReceipts[k]
        /\ \A t \in Tx :
             txHashToReceipt'[t] =
               IF \/ out = b /\ t \in TxsIn[b]
                  \/ out # b /\ out \in DOMAIN blockHashToReceipts
                             /\ t \in blockHashToReceipts[out]
               THEN NoBlock
               ELSE IF t \in TxsIn[b] THEN b ELSE txHashToReceipt[t]
    BY <1>2, TablesEvicted
  <2> HIDE DEF out
  <2>2. Exact'
    BY <2>1 DEF Exact
  <2>3. Found'
    BY <2>1 DEF Exact, Found
  <2>4. QED
    BY <2>2, <2>3
<1>3. QED
  BY <1>1, <1>2 DEF AddReceipts

LEMMA ExactStays == Spec => [](Exact /\ Found)
<1>1. Init => Exact /\ Found
  BY DEF Init, Exact, Found
<1>2. TypeOK /\ Exact /\ Found /\ [Next]_vars => Exact' /\ Found'
  <2> SUFFICES ASSUME TypeOK, Exact, Found, [Next]_vars PROVE Exact' /\ Found'
    OBVIOUS
  <2>1. ASSUME NEW b \in Block, First(b) PROVE Exact' /\ Found'
    BY <2>1 DEF First, Exact, Found
  <2>2. ASSUME NEW b \in Block, Cache(b) PROVE Exact' /\ Found'
    BY <2>2, AddReceiptsFound DEF Cache
  <2>3. CASE UNCHANGED vars
    BY <2>3 DEF vars, Exact, Found
  <2>4. QED
    BY <2>1, <2>2, <2>3 DEF Next
<1>3. QED
  BY <1>1, <1>2, TypeCorrect, PTL DEF Spec

(* No history of calls leaves a receipt that is found by its transaction   *)
(* hash in a block that is no longer cached.                               *)
THEOREM NoReceiptDangles == Spec => []NoDanglingReceipt
<1>1. Exact /\ Found => NoDanglingReceipt
  BY DEF Exact, Found, NoDanglingReceipt, GetAllReceiptsAtBlock
<1>2. QED
  BY <1>1, ExactStays, PTL

-----------------------------------------------------------------------------
(* The rest of Bounded is about the window: everything cached is in it. *)
Within ==
  /\ Len(cachedBlockHashes) <= MaxCachedBlocks
  /\ DOMAIN blockHashToReceipts \subseteq WindowBlocks

(* The window after a call holds what it held, but for the one that left. *)
LEMMA WindowBlocksAppended ==
  ASSUME TypeOK, NEW b \in Block, AddToWindow(b)
  PROVE  WindowBlocks' = WindowBlocks \cup {b}
<1>1. /\ Len(cachedBlockHashes') = Len(cachedBlockHashes) + 1
      /\ DOMAIN cachedBlockHashes' = 1..Len(cachedBlockHashes) + 1
      /\ \A i \in 1..Len(cachedBlockHashes) + 1 :
           cachedBlockHashes'[i] = IF i <= Len(cachedBlockHashes)
                                   THEN cachedBlockHashes[i] ELSE b
  BY WindowAppended, LenProperties DEF TypeOK, AddToWindow
<1>2. Len(cachedBlockHashes) \in Nat /\ DOMAIN cachedBlockHashes = 1..Len(cachedBlockHashes)
  BY LenProperties DEF TypeOK
<1>3. QED
  BY <1>1, <1>2 DEF WindowBlocks

LEMMA WindowBlocksEvicted ==
  ASSUME TypeOK, NEW b \in Block, AddAndEvict(b),
         NEW out, out = Head(Append(cachedBlockHashes, b))
  PROVE  (WindowBlocks \cup {b}) \ {out} \subseteq WindowBlocks'
<1>1. /\ Len(cachedBlockHashes') = Len(cachedBlockHashes)
      /\ DOMAIN cachedBlockHashes' = 1..Len(cachedBlockHashes)
      /\ \A i \in 1..Len(cachedBlockHashes) :
           cachedBlockHashes'[i] = IF i < Len(cachedBlockHashes)
                                   THEN cachedBlockHashes[i + 1] ELSE b
      /\ out = IF Len(cachedBlockHashes) = 0 THEN b ELSE cachedBlockHashes[1]
  BY WindowShifted, LenProperties DEF TypeOK, AddAndEvict
<1>2. Len(cachedBlockHashes) \in Nat /\ DOMAIN cachedBlockHashes = 1..Len(cachedBlockHashes)
  BY LenProperties DEF TypeOK
<1>3. b # out => b \in WindowBlocks'
  BY <1>1, <1>2 DEF WindowBlocks
<1>4. ASSUME NEW i \in 1..Len(cachedBlockHashes), cachedBlockHashes[i] # out
      PROVE  cachedBlockHashes[i] \in WindowBlocks'
  <2>1. i > 1 /\ i - 1 \in 1..Len(cachedBlockHashes) /\ i - 1 < Len(cachedBlockHashes)
    BY <1>1, <1>2, <1>4
  <2>2. cachedBlockHashes'[i - 1] = cachedBlockHashes[i]
    BY <1>1, <1>2, <2>1
  <2>3. QED
    BY <1>1, <2>1, <2>2 DEF WindowBlocks
<1>5. QED
  BY <1>2, <1>3, <1>4 DEF WindowBlocks

LEMMA WindowStays == Spec => []Within
<1>1. Init => Within
  BY MaxAssumption DEF Init, Within, WindowBlocks
<1>2. TypeOK /\ Within /\ [Next]_vars => Within'
  <2> SUFFICES ASSUME TypeOK, Within, [Next]_vars PROVE Within'
    OBVIOUS
  <2>1. ASSUME NEW b \in Block, First(b) PROVE Within'
    BY <2>1 DEF First, Within, WindowBlocks
  <2>2. ASSUME NEW b \in Block, AddToWindow(b) PROVE Within'
    <3>1. Len(cachedBlockHashes') <= MaxCachedBlocks
      BY <2>2, WindowAppended DEF TypeOK, AddToWindow
    <3>2. QED
      BY <2>2, <3>1, TablesAppended, WindowBlocksAppended DEF Within
  <2>3. ASSUME NEW b \in Block, AddAndEvict(b) PROVE Within'
    <3>1. Len(cachedBlockHashes') <= MaxCachedBlocks
      BY <2>3, WindowShifted DEF TypeOK, AddAndEvict, Within
    <3> DEFINE out == Head(Append(cachedBlockHashes, b))
    <3>2. DOMAIN blockHashToReceipts' = (DOMAIN blockHashToReceipts \cup {b}) \ {out}
      BY <2>3, TablesEvicted
    <3>3. (WindowBlocks \cup {b}) \ {out} \subseteq WindowBlocks'
      BY <2>3, WindowBlocksEvicted
    <3> HIDE DEF out
    <3>4. QED
      BY <3>1, <3>2, <3>3 DEF Within
  <2>4. CASE UNCHANGED vars
    BY <2>4 DEF vars, Within, WindowBlocks
  <2>5. QED
    BY <2>1, <2>2, <2>3, <2>4 DEF Next, Cache, AddReceipts
<1>3. QED
  BY <1>1, <1>2, TypeCorrect, PTL DEF Spec

(* Neither table ever outgrows the window, whatever is added. *)
THEOREM MemoryBounded == Spec => []Bounded
<1>1. TypeOK /\ Within => Bounded
  <2> SUFFICES ASSUME TypeOK, Within PROVE Bounded
    OBVIOUS
  <2> DEFINE n == Len(cachedBlockHashes)
  <2>1. n \in Nat /\ cachedBlockHashes \in [1..n -> Block] /\ DOMAIN cachedBlockHashes = 1..n
    BY LenProperties DEF TypeOK
  <2>2. IsFiniteSet(1..n) /\ Cardinality(1..n) = n
    BY <2>1, FS_Interval
  <2>3. cachedBlockHashes \in Surjection(1..n, WindowBlocks)
    <3>1. WindowBlocks = {cachedBlockHashes[i] : i \in 1..n}
      BY <2>1 DEF WindowBlocks
    <3>2. cachedBlockHashes \in [1..n -> WindowBlocks]
      BY <2>1, <3>1
    <3>3. \A k \in WindowBlocks : \E i \in 1..n : cachedBlockHashes[i] = k
      BY <3>1
    <3> HIDE DEF n
    <3>4. QED
      BY <3>2, <3>3 DEF Surjection
  <2>4. IsFiniteSet(WindowBlocks) /\ Cardinality(WindowBlocks) <= n
    BY <2>2, <2>3, FS_Surjection
  <2>5. /\ Cardinality(DOMAIN blockHashToReceipts) <= Cardinality(WindowBlocks)
        /\ IsFiniteSet(DOMAIN blockHashToReceipts)
    BY <2>4, FS_Subset DEF Within
  <2>6. /\ Cardinality(DOMAIN blockHashToReceipts) \in Nat
        /\ Cardinality(WindowBlocks) \in Nat
    BY <2>4, <2>5, FS_CardinalityType
  <2>7. QED
    BY <2>1, <2>4, <2>5, <2>6, MaxAssumption DEF Within, Bounded
<1>2. QED
  BY <1>1, TypeCorrect, WindowStays, PTL

-----------------------------------------------------------------------------
(* The window is the end of the history: what leaves it at an addition was *)
(* added MaxCachedBlocks additions before.                                 *)
WindowIsEnd ==
  /\ Len(cachedBlockHashes) =
       IF Len(added) <= MaxCachedBlocks THEN Len(added) ELSE MaxCachedBlocks
  /\ \A i \in 1..Len(cachedBlockHashes) :
       cachedBlockHashes[i] = added[Len(added) - Len(cachedBlockHashes) + i]

Leaving(b) == Append(added, b)[Len(added) + 1 - MaxCachedBlocks]

LEMMA EndShifts ==
  ASSUME TypeOK, WindowIsEnd, NEW b \in Block, AddReceipts(b), added' = Append(added, b)
  PROVE  /\ WindowIsEnd'
         /\ AddToWindow(b) <=> Len(added) + 1 <= MaxCachedBlocks
         /\ AddAndEvict(b) => Head(Append(cachedBlockHashes, b)) = Leaving(b)
<1> DEFINE n == Len(added)
           w == Len(cachedBlockHashes)
<1>1. n \in Nat /\ w \in Nat /\ MaxCachedBlocks \in Nat /\ added \in Seq(Block)
      /\ cachedBlockHashes \in Seq(Block)
  BY LenProperties, MaxAssumption DEF TypeOK
<1>2. /\ Len(added') = n + 1
      /\ \A i \in 1..n + 1 : added'[i] = IF i <= n THEN added[i] ELSE b
  BY <1>1, WindowAppended
<1>3. /\ w = IF n <= MaxCachedBlocks THEN n ELSE MaxCachedBlocks
      /\ \A i \in 1..w : cachedBlockHashes[i] = added[n - w + i]
  BY DEF WindowIsEnd
<1>4. CASE AddToWindow(b)
  <2>1. n + 1 <= MaxCachedBlocks /\ w = n /\ ~AddAndEvict(b)
    BY <1>1, <1>3, <1>4 DEF AddToWindow, AddAndEvict
  <2>2. /\ Len(cachedBlockHashes') = w + 1
        /\ \A i \in 1..w + 1 :
             cachedBlockHashes'[i] = IF i <= w THEN cachedBlockHashes[i] ELSE b
    BY <1>1, <1>4, WindowAppended DEF AddToWindow
  <2> HIDE DEF n, w
  <2>3. WindowIsEnd'
    BY <1>1, <1>2, <1>3, <2>1, <2>2 DEF WindowIsEnd
  <2>4. QED
    BY <1>4, <2>1, <2>3 DEF n
<1>5. CASE AddAndEvict(b)
  <2>1. n + 1 > MaxCachedBlocks /\ w = MaxCachedBlocks /\ ~AddToWindow(b)
    BY <1>1, <1>3, <1>5 DEF AddToWindow, AddAndEvict
  <2>2. /\ Len(cachedBlockHashes') = w
        /\ \A i \in 1..w :
             cachedBlockHashes'[i] = IF i < w THEN cachedBlockHashes[i + 1] ELSE b
        /\ Head(Append(cachedBlockHashes, b)) = IF w = 0 THEN b ELSE cachedBlockHashes[1]
    BY <1>1, <1>5, WindowShifted DEF AddAndEvict
  <2>3. Leaving(b) = added'[n + 1 - w]
    BY <1>1, <2>1 DEF Leaving
  <2> HIDE DEF n, w
  <2>4. Head(Append(cachedBlockHashes, b)) = Leaving(b)
    <3>1. CASE w = 0
      BY <1>1, <1>2, <2>2, <2>3, <3>1
    <3>2. CASE w > 0
      <4>1. cachedBlockHashes[1] = added[n - w + 1] /\ n - w + 1 \in 1..n
        BY <1>1, <1>3, <2>1, <3>2
      <4>2. n + 1 - w = n - w + 1 /\ n + 1 - w \in 1..n + 1 /\ n + 1 - w <= n
        BY <1>1, <4>1, <3>2
      <4>3. QED
        BY <1>2, <2>2, <2>3, <3>2, <4>1, <4>2
    <3>3. QED
      BY <1>1, <3>1, <3>2
  <2>5. ASSUME NEW i \in 1..w PROVE cachedBlockHashes'[i] = added'[n + 1 - w + i]
    <3>1. CASE i < w
      <4>1. i + 1 \in 1..w /\ n - w + (i + 1) = n + 1 - w + i /\ n + 1 - w + i \in 1..n
        BY <1>1, <1>3, <2>1, <3>1
      <4>2. QED
        BY <1>1, <1>2, <1>3, <2>2, <3>1, <4>1
    <3>2. CASE i = w
      BY <1>1, <1>2, <2>1, <2>2, <3>2
    <3>3. i < w \/ i = w
      <4> HIDE DEF WindowIsEnd
      <4>1. w \in Nat /\ i \in 1..w
        BY <1>1
      <4>2. QED
        BY <4>1
    <3>4. QED
      BY <3>1, <3>2, <3>3
  <2>6. WindowIsEnd'
    <3>1. Len(cachedBlockHashes') = IF n + 1 <= MaxCachedBlocks THEN n + 1 ELSE MaxCachedBlocks
      BY <1>1, <2>1, <2>2
    <3>2. Len(added') = n + 1 /\ Len(cachedBlockHashes') = w
      BY <1>2, <2>2
    <3>3. \A i \in 1..w : cachedBlockHashes'[i] = added'[n + 1 - w + i]
      BY <2>5
    <3>4. WindowIsEnd' <=>
            /\ Len(cachedBlockHashes') =
                 IF Len(added') <= MaxCachedBlocks THEN Len(added') ELSE MaxCachedBlocks
            /\ \A i \in 1..Len(cachedBlockHashes') :
                 cachedBlockHashes'[i] = added'[Len(added') - Len(cachedBlockHashes') + i]
      BY DEF WindowIsEnd
    <3>5. ASSUME NEW i \in 1..Len(cachedBlockHashes')
          PROVE  cachedBlockHashes'[i] = added'[Len(added') - Len(cachedBlockHashes') + i]
      <4>1. i \in 1..w
        BY <3>2
      <4>2. cachedBlockHashes'[i] = added'[n + 1 - w + i]
        BY <3>3, <4>1
      <4>3. Len(added') - Len(cachedBlockHashes') + i = n + 1 - w + i
        BY <1>1, <3>2, <4>1
      <4>4. QED
        BY <4>2, <4>3
    <3>6. QED
      BY <3>1, <3>2, <3>4, <3>5, Zenon
  <2>7. QED
    BY <1>1, <1>5, <2>1, <2>4, <2>6 DEF n
<1>6. QED
  BY <1>4, <1>5 DEF AddReceipts

(* What an addition does to the last addition of a set of blocks, and to   *)
(* what has left since.                                                    *)
Kept(bs, j) == LastAdded(bs, j) /\ NoneLeftSince(bs, j)

LEMMA AddedLast ==
  ASSUME added \in Seq(Block), NEW b \in Block, added' = Append(added, b), NEW bs, NEW j
  PROVE  LastAdded(bs, j)' <=> IF b \in bs THEN j = Len(added) + 1 ELSE LastAdded(bs, j)
<1> DEFINE n == Len(added)
<1>1. n \in Nat /\ DOMAIN added = 1..n /\ DOMAIN added' = 1..n + 1
  BY WindowAppended, LenProperties
<1>2. \A i \in 1..n + 1 : added'[i] = IF i <= n THEN added[i] ELSE b
  BY WindowAppended
<1> HIDE DEF n
<1>3. LastAdded(bs, j)' <=> /\ j \in 1..n + 1 /\ added'[j] \in bs
                            /\ \A i \in 1..n + 1 : added'[i] \in bs => i <= j
  BY <1>1 DEF LastAdded
<1>4. CASE b \in bs
  BY <1>1, <1>2, <1>3, <1>4 DEF n
<1>5. CASE b \notin bs
  <2>1. LastAdded(bs, j)' <=> /\ j \in 1..n /\ added[j] \in bs
                              /\ \A i \in 1..n : added[i] \in bs => i <= j
    <3>1. \A i \in 1..n + 1 : added'[i] \in bs <=> i \in 1..n /\ added[i] \in bs
      BY <1>1, <1>2, <1>5
    <3>2. \A i \in 1..n : i \in 1..n + 1
      BY <1>1
    <3>3. QED
      BY <1>3, <3>1, <3>2
  <2>2. QED
    BY <1>1, <1>5, <2>1 DEF LastAdded
<1>6. QED
  BY <1>4, <1>5

LEMMA AddedKept ==
  ASSUME added \in Seq(Block), NEW b \in Block, added' = Append(added, b), NEW bs, NEW j
  PROVE  Kept(bs, j)' <=>
           /\ LastAdded(bs, j)'
           /\ Len(added) + 1 > MaxCachedBlocks => Leaving(b) \notin bs
           /\ b \notin bs => Kept(bs, j)
<1> DEFINE n == Len(added)
           m == MaxCachedBlocks
<1>1. n \in Nat /\ m \in Nat /\ DOMAIN added = 1..n /\ DOMAIN added' = 1..n + 1
      /\ Len(added') = n + 1
  BY WindowAppended, LenProperties, MaxAssumption
<1>2. \A i \in 1..n + 1 : added'[i] = IF i <= n THEN added[i] ELSE b
  BY WindowAppended
<1>3. Leaving(b) = added'[n + 1 - m]
  BY DEF Leaving
<1> HIDE DEF n, m
<1>4. NoneLeftSince(bs, j)' <=>
        \A i \in 1..n + 1 : added'[i] \in bs /\ i + m <= n + 1 => i + m < j
  BY <1>1 DEF NoneLeftSince, m
<1>5. NoneLeftSince(bs, j) <=>
        \A i \in 1..n : added[i] \in bs /\ i + m <= n => i + m < j
  BY <1>1 DEF NoneLeftSince, m, n
<1>6. LastAdded(bs, j)' => j \in 1..n + 1
  BY <1>1 DEF LastAdded
<1>7. LastAdded(bs, j)' =>
        (NoneLeftSince(bs, j)' <=> /\ n + 1 > m => Leaving(b) \notin bs
                                   /\ \A i \in 1..n : added[i] \in bs /\ i + m <= n => i + m < j)
  <2> SUFFICES ASSUME LastAdded(bs, j)'
               PROVE  NoneLeftSince(bs, j)' <=>
                        /\ n + 1 > m => Leaving(b) \notin bs
                        /\ \A i \in 1..n : added[i] \in bs /\ i + m <= n => i + m < j
    OBVIOUS
  <2>1. ASSUME NoneLeftSince(bs, j)'
        PROVE  /\ n + 1 > m => Leaving(b) \notin bs
               /\ \A i \in 1..n : added[i] \in bs /\ i + m <= n => i + m < j
    <3>1. ASSUME n + 1 > m, Leaving(b) \in bs PROVE FALSE
      <4>1. PICK i \in 1..n + 1 : i = n + 1 - m
        BY <1>1, <3>1
      <4>2. i + m = n + 1 /\ added'[i] \in bs
        BY <1>1, <1>3, <3>1, <4>1
      <4>3. i + m < j
        BY <1>1, <1>4, <2>1, <4>2
      <4>4. QED
        BY <1>1, <1>6, <4>2, <4>3
    <3>2. ASSUME NEW i \in 1..n, added[i] \in bs, i + m <= n PROVE i + m < j
      <4>1. i \in 1..n + 1 /\ added'[i] \in bs /\ i + m <= n + 1
        BY <1>1, <1>2, <3>2
      <4>2. QED
        BY <1>4, <2>1, <4>1
    <3>3. QED
      BY <3>1, <3>2
  <2>2. ASSUME n + 1 > m => Leaving(b) \notin bs,
               \A i \in 1..n : added[i] \in bs /\ i + m <= n => i + m < j
        PROVE  NoneLeftSince(bs, j)'
    <3> SUFFICES ASSUME NEW i \in 1..n + 1, added'[i] \in bs, i + m <= n + 1 PROVE i + m < j
      BY <1>4
    <3>1. CASE i + m = n + 1
      <4>1. i = n + 1 - m /\ n + 1 > m
        BY <1>1, <3>1
      <4>2. QED
        BY <1>3, <2>2, <4>1
    <3>2. CASE i + m <= n
      <4>1. i \in 1..n /\ added[i] \in bs
        BY <1>1, <1>2, <3>2
      <4>2. QED
        BY <2>2, <3>2, <4>1
    <3>3. QED
      BY <1>1, <3>1, <3>2
  <2>3. QED
    BY <2>1, <2>2
<1>8. CASE b \in bs
  <2>1. LastAdded(bs, j)' => j = n + 1
    BY <1>8, AddedLast DEF n
  <2>2. LastAdded(bs, j)' => \A i \in 1..n : added[i] \in bs /\ i + m <= n => i + m < j
    BY <1>1, <2>1
  <2>3. QED
    BY <1>7, <1>8, <2>2 DEF Kept, n, m
<1>9. CASE b \notin bs
  <2>1. LastAdded(bs, j)' <=> LastAdded(bs, j)
    BY <1>9, AddedLast
  <2>2. QED
    BY <1>5, <1>7, <1>9, <2>1 DEF Kept, n, m
<1>10. QED
  BY <1>8, <1>9

(* The tables hold what was added last and has not left since. *)
KeptInv ==
  /\ Exact
  /\ \A b \in Block : b \in DOMAIN blockHashToReceipts <=> \E j \in DOMAIN added : Kept({b}, j)
  /\ \A t \in Tx : txHashToReceipt[t] # NoBlock =>
       \E j \in DOMAIN added : LastAdded(Including(t), j) /\ txHashToReceipt[t] = added[j]
  /\ \A t \in Tx : \A j \in DOMAIN added : Kept(Including(t), j) => txHashToReceipt[t] = added[j]

(* An addition, whether something leaves with it or not. *)
LEMMA TablesMove ==
  ASSUME TypeOK, WindowIsEnd, Exact, NEW b \in Block, AddReceipts(b),
         added' = Append(added, b)
  PROVE  /\ \A k \in Block :
              k \in DOMAIN blockHashToReceipts' <=>
                /\ k = b \/ k \in DOMAIN blockHashToReceipts
                /\ Len(added) + 1 > MaxCachedBlocks => Leaving(b) # k
         /\ \A t \in Tx :
              txHashToReceipt'[t] \in {NoBlock, IF t \in TxsIn[b] THEN b ELSE txHashToReceipt[t]}
         /\ \A t \in Tx :
              (Len(added) + 1 > MaxCachedBlocks => Leaving(b) \notin Including(t))
                => txHashToReceipt'[t] = IF t \in TxsIn[b] THEN b ELSE txHashToReceipt[t]
<1>1. Len(added) \in Nat /\ MaxCachedBlocks \in Nat
  BY LenProperties, MaxAssumption DEF TypeOK
<1>2. /\ AddToWindow(b) <=> Len(added) + 1 <= MaxCachedBlocks
      /\ AddAndEvict(b) => Head(Append(cachedBlockHashes, b)) = Leaving(b)
  BY EndShifts
<1>3. CASE AddToWindow(b)
  <2>1. ~(Len(added) + 1 > MaxCachedBlocks)
    BY <1>1, <1>2, <1>3
  <2>2. /\ DOMAIN blockHashToReceipts' = DOMAIN blockHashToReceipts \cup {b}
        /\ \A t \in Tx :
             txHashToReceipt'[t] = IF t \in TxsIn[b] THEN b ELSE txHashToReceipt[t]
    BY <1>3, TablesAppended
  <2>3. QED
    BY <2>1, <2>2
<1>4. CASE AddAndEvict(b)
  <2> DEFINE out == Head(Append(cachedBlockHashes, b))
  <2>1. out = Leaving(b) /\ out \in Block
    BY <1>2, <1>4, WindowShifted DEF TypeOK
  <2>2. ~AddToWindow(b)
    BY <1>4, LenProperties, MaxAssumption DEF AddToWindow, AddAndEvict, TypeOK
  <2>3. Len(added) + 1 > MaxCachedBlocks
    BY <1>1, <1>2, <2>2
  <2>4. /\ DOMAIN blockHashToReceipts' = (DOMAIN blockHashToReceipts \cup {b}) \ {out}
        /\ \A t \in Tx :
             txHashToReceipt'[t] =
               IF \/ out = b /\ t \in TxsIn[b]
                  \/ out # b /\ out \in DOMAIN blockHashToReceipts
                             /\ t \in blockHashToReceipts[out]
               THEN NoBlock
               ELSE IF t \in TxsIn[b] THEN b ELSE txHashToReceipt[t]
    BY <1>4, TablesEvicted
  <2> HIDE DEF out
  <2>5. \A k \in Block :
          k \in DOMAIN blockHashToReceipts' <=>
            (k = b \/ k \in DOMAIN blockHashToReceipts) /\ Leaving(b) # k
    BY <2>1, <2>4
  <2>6. ASSUME NEW t \in Tx
        PROVE  /\ txHashToReceipt'[t] \in {NoBlock, IF t \in TxsIn[b] THEN b ELSE txHashToReceipt[t]}
               /\ Leaving(b) \notin Including(t)
                    => txHashToReceipt'[t] = IF t \in TxsIn[b] THEN b ELSE txHashToReceipt[t]
    <3>1. out \notin Including(t) => t \notin TxsIn[out]
      BY <2>1 DEF Including
    <3>2. QED
      BY <2>1, <2>4, <3>1 DEF Exact
  <2>7. QED
    BY <2>3, <2>5, <2>6
<1>5. QED
  BY <1>3, <1>4 DEF AddReceipts

LEMMA KeptStays == Spec => [](KeptInv /\ WindowIsEnd)
<1>1. Init => KeptInv /\ WindowIsEnd
  <2> SUFFICES ASSUME Init PROVE KeptInv /\ WindowIsEnd
    OBVIOUS
  <2>1. Len(added) = 0 /\ DOMAIN added = {} /\ Len(cachedBlockHashes) = 0
    BY DEF Init
  <2>2. QED
    BY <2>1, MaxAssumption DEF Init, KeptInv, Exact, WindowIsEnd
<1>2. TypeOK /\ KeptInv /\ WindowIsEnd /\ Exact' /\ [Next]_vars => KeptInv' /\ WindowIsEnd'
  <2> SUFFICES ASSUME TypeOK, KeptInv, WindowIsEnd, Exact', [Next]_vars
               PROVE  KeptInv' /\ WindowIsEnd'
    OBVIOUS
  <2>1. ASSUME NEW b \in Block, First(b), UNCHANGED added PROVE KeptInv' /\ WindowIsEnd'
    BY <2>1 DEF First, KeptInv, Exact, WindowIsEnd, Kept, LastAdded, NoneLeftSince
  <2>2. ASSUME NEW b \in Block, Cache(b), added' = Append(added, b)
        PROVE  KeptInv' /\ WindowIsEnd'
    <3>1. AddReceipts(b) /\ added \in Seq(Block)
      BY <2>2 DEF Cache, TypeOK
    <3>2. WindowIsEnd'
      BY <2>2, <3>1, EndShifts
    <3> DEFINE n == Len(added)
    <3>3. /\ n \in Nat /\ DOMAIN added = 1..n /\ DOMAIN added' = 1..n + 1
          /\ \A i \in 1..n + 1 : added'[i] = IF i <= n THEN added[i] ELSE b
      BY <2>2, <3>1, WindowAppended, LenProperties
    <3> DEFINE stays(bs) == n + 1 > MaxCachedBlocks => Leaving(b) \notin bs
               with(t) == IF t \in TxsIn[b] THEN b ELSE txHashToReceipt[t]
    <3>4. \A k \in Block : k \in DOMAIN blockHashToReceipts' <=>
                             (k = b \/ k \in DOMAIN blockHashToReceipts) /\ stays({k})
      BY <2>2, <3>1, TablesMove DEF KeptInv
    <3>5. \A t \in Tx : /\ txHashToReceipt'[t] \in {NoBlock, with(t)}
                        /\ stays(Including(t)) => txHashToReceipt'[t] = with(t)
      BY <2>2, <3>1, TablesMove DEF KeptInv
    <3>6. \A bs, j : LastAdded(bs, j)' <=> IF b \in bs THEN j = n + 1 ELSE LastAdded(bs, j)
      BY <2>2, <3>1, AddedLast
    <3>7. \A bs, j : Kept(bs, j)' <=> /\ LastAdded(bs, j)' /\ stays(bs)
                                      /\ b \notin bs => Kept(bs, j)
      BY <2>2, <3>1, AddedKept
    <3>8. \A bs, j : LastAdded(bs, j) => j \in 1..n
      BY <3>3 DEF LastAdded
    <3>9. \A t : b \in Including(t) <=> t \in TxsIn[b]
      BY DEF Including
    <3> HIDE DEF n, stays, with
    <3>10. ASSUME NEW k \in Block
           PROVE  k \in DOMAIN blockHashToReceipts' <=> \E j \in DOMAIN added' : Kept({k}, j)'
      <4>1. CASE k = b
        <5>1. \A j : Kept({k}, j)' <=> j = n + 1 /\ stays({k})
          BY <3>6, <3>7, <4>1
        <5>2. n + 1 \in DOMAIN added'
          BY <3>3
        <5>3. QED
          BY <3>4, <4>1, <5>1, <5>2
      <4>2. CASE k # b
        <5>1. \A j : Kept({k}, j)' <=> Kept({k}, j) /\ stays({k})
          BY <3>6, <3>7, <4>2 DEF Kept
        <5>2. \A j : Kept({k}, j) => j \in 1..n /\ j \in DOMAIN added'
          BY <3>3, <3>8 DEF Kept
        <5>3. k \in DOMAIN blockHashToReceipts <=> \E j \in DOMAIN added : Kept({k}, j)
          BY DEF KeptInv
        <5>4. QED
          BY <3>3, <3>4, <4>2, <5>1, <5>2, <5>3
      <4>3. QED
        BY <4>1, <4>2
    <3>11. ASSUME NEW t \in Tx, txHashToReceipt'[t] # NoBlock
           PROVE  \E j \in DOMAIN added' : /\ LastAdded(Including(t), j)'
                                           /\ txHashToReceipt'[t] = added'[j]
      <4>1. txHashToReceipt'[t] = with(t)
        BY <3>5, <3>11
      <4>2. CASE t \in TxsIn[b]
        <5>1. PICK j : j = n + 1
          OBVIOUS
        <5>2. j \in DOMAIN added' /\ added'[j] = b
          BY <3>3, <5>1
        <5>3. LastAdded(Including(t), j)'
          BY <3>6, <3>9, <4>2, <5>1
        <5>4. QED
          BY <4>1, <4>2, <5>2, <5>3 DEF with
      <4>3. CASE t \notin TxsIn[b]
        <5>1. PICK j \in DOMAIN added : LastAdded(Including(t), j) /\ txHashToReceipt[t] = added[j]
          BY <3>11, <4>1, <4>3 DEF with, KeptInv
        <5>2. LastAdded(Including(t), j)' /\ j \in 1..n + 1 /\ j <= n
          BY <3>3, <3>6, <3>9, <4>3, <5>1
        <5>3. QED
          BY <3>3, <4>1, <4>3, <5>1, <5>2 DEF with
      <4>4. QED
        BY <4>2, <4>3
    <3>12. ASSUME NEW t \in Tx, NEW j \in DOMAIN added', Kept(Including(t), j)'
           PROVE  txHashToReceipt'[t] = added'[j]
      <4>1. txHashToReceipt'[t] = with(t)
        BY <3>5, <3>7, <3>12
      <4>2. CASE t \in TxsIn[b]
        <5>1. j = n + 1 /\ n + 1 \in 1..n + 1 /\ ~(n + 1 <= n)
          BY <3>3, <3>6, <3>7, <3>9, <3>12, <4>2
        <5>2. QED
          BY <3>3, <4>1, <4>2, <5>1 DEF with
      <4>3. CASE t \notin TxsIn[b]
        <5>1. Kept(Including(t), j)
          BY <3>7, <3>9, <3>12, <4>3
        <5>2. j \in 1..n /\ j \in 1..n + 1 /\ j <= n
          BY <3>3, <3>8, <5>1 DEF Kept
        <5>3. txHashToReceipt[t] = added[j]
          BY <3>3, <5>1, <5>2 DEF KeptInv
        <5>4. QED
          BY <3>3, <4>1, <4>3, <5>2, <5>3 DEF with
      <4>4. QED
        BY <4>2, <4>3
    <3>13. QED
      BY <3>2, <3>10, <3>11, <3>12 DEF KeptInv
  <2>3. CASE UNCHANGED vars
    BY <2>3 DEF vars, KeptInv, Exact, WindowIsEnd, Kept, LastAdded, NoneLeftSince
  <2>4. QED
    BY <2>1, <2>2, <2>3 DEF Next
<1>3. QED
  BY <1>1, <1>2, TypeCorrect, ExactStays, PTL DEF Spec

(* What getAllReceiptsAtBlock() answers after any history of calls: all of *)
(* a block's receipts from its last addition until a copy of it leaves,    *)
(* and nothing else.                                                       *)
THEOREM WindowIsServed == Spec => []ServedSinceAdded
<1>1. TypeOK /\ KeptInv => ServedSinceAdded
  <2> SUFFICES ASSUME TypeOK, KeptInv, NEW b \in Block
               PROVE  GetAllReceiptsAtBlock(b) =
                        IF \E j \in DOMAIN added : Kept({b}, j) THEN TxsIn[b] ELSE {}
    BY DEF ServedSinceAdded, Kept
  <2>1. QED
    BY DEF KeptInv, Exact, GetAllReceiptsAtBlock
<1>2. QED
  BY <1>1, TypeCorrect, KeptStays, PTL

(* What getReceiptByHash() answers after any history of calls. *)
THEOREM HashIsFound == Spec => []FoundSinceAdded
<1>1. KeptInv => FoundSinceAdded
  BY DEF KeptInv, Kept, FoundSinceAdded, GetReceiptByHash
<1>2. QED
  BY <1>1, KeptStays, PTL

(* And so the latest block is served, unless the call that made it the     *)
(* latest shifted out an older copy of it.                                 *)
THEOREM LatestIsServed == Spec => []LatestServed
<1> DEFINE Youngest == added # << >> => lastCachedBlock = added[Len(added)]
<1>1. Init => Youngest
  BY DEF Init
<1>2. TypeOK /\ TypeOK' /\ KeptInv /\ Youngest /\ [Next]_vars => Youngest'
  <2> SUFFICES ASSUME TypeOK, KeptInv, Youngest, [Next]_vars PROVE Youngest'
    OBVIOUS
  <2>1. ASSUME NEW b \in Block, First(b), UNCHANGED added PROVE Youngest'
    <3>1. added = << >>
      <4> SUFFICES ASSUME added # << >> PROVE FALSE
        OBVIOUS
      <4>1. Len(added) \in 1..Len(added)
        BY LenProperties, EmptySeq DEF TypeOK
      <4>2. added[Len(added)] \in Block
        BY <4>1, ElementOfSeq DEF TypeOK
      <4>3. QED
        BY <2>1, <4>2, NoBlockAssumption DEF First
    <3>2. QED
      BY <2>1, <3>1
  <2>2. ASSUME NEW b \in Block, Cache(b), added' = Append(added, b) PROVE Youngest'
    BY <2>2 DEF Cache, SetlastCachedBlock, TypeOK
  <2>3. CASE UNCHANGED vars
    BY <2>3 DEF vars
  <2>4. QED
    BY <2>1, <2>2, <2>3 DEF Next
<1>3. TypeOK /\ Youngest /\ ServedSinceAdded => LatestServed
  <2> SUFFICES ASSUME TypeOK, Youngest, ServedSinceAdded, Len(added) > 0,
                      ~(/\ Len(added) > MaxCachedBlocks
                        /\ added[Len(added) - MaxCachedBlocks] = added[Len(added)])
               PROVE  GetAllReceiptsAtBlock(lastCachedBlock) = TxsIn[lastCachedBlock]
    BY DEF LatestServed
  <2> DEFINE n == Len(added)
             m == MaxCachedBlocks
             k == added[n]
  <2>1. n \in Nat /\ m \in Nat /\ DOMAIN added = 1..n /\ n \in 1..n
    BY LenProperties, MaxAssumption DEF TypeOK
  <2>2. added # << >> /\ k \in Block
    BY <2>1, ElementOfSeq, EmptySeq DEF TypeOK
  <2>3. lastCachedBlock = k
    BY <2>2
  <2>4. ~(n > m /\ added[n - m] = k)
    OBVIOUS
  <2> HIDE DEF n, m
  <2>5. LastAdded({k}, n)
    BY <2>1 DEF LastAdded
  <2>6. ASSUME NEW i \in 1..n, added[i] = k, i + m <= n PROVE i + m < n
    <3>1. i + m = n => i = n - m /\ n > m
      BY <2>1
    <3>2. QED
      BY <2>1, <2>4, <2>6, <3>1
  <2>7. NoneLeftSince({k}, n)
    BY <2>1, <2>6 DEF NoneLeftSince, n, m
  <2>8. QED
    BY <2>1, <2>2, <2>3, <2>5, <2>7 DEF ServedSinceAdded
<1>4. QED
  BY <1>1, <1>2, <1>3, TypeCorrect, KeptStays, WindowIsServed, PTL DEF Spec
=============================================================================
