------------------------------ MODULE ServerProofs ------------------------------
(* That listeners come and go without one being missed, called twice or    *)
(* left behind, for any number of sockets, tasks and messages.             *)
EXTENDS Server, SequenceTheorems, FiniteSetTheorems, TLAPS

(* An array has a listener once, and none that was removed. *)
ArraysOK ==
  \A k \in Kind :
    /\ IsInjective(eventListeners[k])
    /\ ToSet(eventListeners[k]) \subseteq DOMAIN owner \ left

(* What a task holds that disconnect replaced has only listeners that it   *)
(* cut off.                                                                *)
DetachedOK ==
  \A t \in Task : \A old \in detached[t], k \in Kind :
    IsInjective(old[k]) /\ ToSet(old[k]) \subseteq cut

(* The handlers of the server go before the socket does, and the listeners *)
(* with them.                                                              *)
SocketsOK ==
  /\ \A s \in Socket : IF "server" \in handlers[s] THEN net[s] \in {"open", "terminated"}
                                                   ELSE OwnedBy(s) = {}
  /\ \A s \in ToSet(clients) : net[s] # "none"

(* Who subscribed was told of it, is still to be told after a batch, or is *)
(* gone with the connection.                                               *)
GivenOK ==
  \A l \in DOMAIN owner : owner[l] \in Socket =>
    /\ net[owner[l]] # "none"
    /\ net[owner[l]] = "open" => l \in told \cup msg[owner[l]].ids

MessagesOK == \A a \in Asker : msg[a].ids \subseteq DOMAIN owner

(* The places of `here` that the walk w has passed, and those before it. *)
Passed(w, here) == {here[i] : i \in {j \in DOMAIN here : j <= w.at}}
Ahead(w, here) == {here[i] : i \in {j \in DOMAIN here : w.at < j}}

(* Who was called stands at a place that is passed, or has left; who is    *)
(* due stands at one that is not.                                          *)
GoodWalk(w, here, held) ==
  /\ w \in WalkState /\ w.kinds # <<>>
  /\ w.at <= w.len /\ Len(here) <= w.len
  /\ IsInjective(w.calls)
  /\ ToSet(w.calls) \subseteq DOMAIN owner
  /\ ToSet(w.calls) \subseteq Passed(w, here) \cup (IF held THEN {} ELSE left)
  /\ w.due \subseteq left \cup w.skipped \cup ToSet(w.calls) \cup Ahead(w, here)
  /\ ~w.stale

WalkOK ==
  Walking => GoodWalk(walk, ArrayOf(walk.task, Head(walk.kinds)), detached[walk.task] # {})

ServerInv ==
  /\ TypeOK
  /\ ArraysOK /\ DetachedOK /\ SocketsOK /\ GivenOK /\ MessagesOK /\ WalkOK

-----------------------------------------------------------------------------
(* What Without keeps of an array.  Its places count upwards and every one *)
(* is taken.                                                               *)
UpTo(K, i) == {j \in K : j <= i}
Place(K, i) == Cardinality(UpTo(K, i))

LEMMA PlacesCount ==
  ASSUME NEW N \in Nat, NEW K \in SUBSET (1 .. N)
  PROVE  /\ Cardinality(K) \in Nat
         /\ \A i \in K : Place(K, i) \in 1 .. Cardinality(K)
         /\ \A i, j \in K : i < j => Place(K, i) < Place(K, j)
         /\ \A i, j \in K : Place(K, i) = Place(K, j) => i = j
         /\ \A n \in 1 .. Cardinality(K) : \E i \in K : Place(K, i) = n
<1>0. \A i \in K : i \in Nat
  OBVIOUS
<1>1. IsFiniteSet(K) /\ Cardinality(K) \in Nat
  <2>1. IsFiniteSet(1 .. N)
    BY FS_Interval
  <2>2. IsFiniteSet(K)
    BY <2>1, FS_Subset
  <2>3. QED
    BY <2>2, FS_CardinalityType
<1>2. ASSUME NEW i \in K
      PROVE  Place(K, i) \in 1 .. Cardinality(K) /\ IsFiniteSet(UpTo(K, i))
  <2>1. UpTo(K, i) \in SUBSET K /\ i \in UpTo(K, i)
    BY <1>0 DEF UpTo
  <2>2. /\ IsFiniteSet(UpTo(K, i)) /\ Cardinality(UpTo(K, i)) \in Nat
        /\ Cardinality(UpTo(K, i)) <= Cardinality(K)
    BY <1>1, <2>1, FS_Subset, FS_CardinalityType
  <2>3. Cardinality(UpTo(K, i)) # 0
    BY <2>1, <2>2, FS_EmptySet
  <2>4. QED
    BY <1>1, <2>2, <2>3 DEF Place
<1>3. ASSUME NEW i \in K, NEW j \in K, i < j
      PROVE  Place(K, i) < Place(K, j)
  <2>0. i \in Nat /\ j \in Nat
    BY <1>0
  <2>1. ASSUME NEW x \in K, x <= i PROVE x <= j
    BY <1>0, <1>3, <2>0, <2>1
  <2>3. j \in UpTo(K, j) /\ j \notin UpTo(K, i)
    BY <1>0, <1>3 DEF UpTo
  <2>2. Cardinality(UpTo(K, i)) <= Cardinality(UpTo(K, j)) /\ Cardinality(UpTo(K, i)) # Cardinality(UpTo(K, j))
    <3>1. UpTo(K, i) \in SUBSET UpTo(K, j)
      BY <2>1 DEF UpTo
    <3>2. QED
      BY <1>2, <2>3, <3>1, FS_Subset
  <2>4. QED
    BY <1>2, <2>2 DEF Place
<1>4. \A i, j \in K : Place(K, i) = Place(K, j) => i = j
  <2>1. \A i, j \in K : i < j \/ j < i \/ i = j
    BY <1>0
  <2>2. \A i \in K : Place(K, i) \in Nat
    BY <1>1, <1>2
  <2>3. QED
    BY <1>3, <2>1, <2>2
<1>5. ASSUME NEW n \in 1 .. Cardinality(K)
      PROVE  \E i \in K : Place(K, i) = n
  <2> DEFINE T == 1 .. Cardinality(K)
             f == [i \in K |-> Place(K, i)]
  <2>1. f \in Injection(K, T)
    BY <1>2, <1>4 DEF Injection, IsInjective
  <2>2. IsFiniteSet(T) /\ Cardinality(T) = Cardinality(K)
    BY <1>1, FS_Interval
  <2>3. f \in Surjection(K, T)
    BY <2>1, <2>2, FS_Injection
  <2>4. QED
    BY <2>3 DEF Surjection
<1>6. QED
  BY <1>1, <1>2, <1>3, <1>4, <1>5

Kept(array, ids) == {i \in DOMAIN array : array[i] \notin ids}

(* What remains is what was not removed, each as often as before.          *)
LEMMA WithoutKeeps ==
  ASSUME NEW S, NEW array \in Seq(S), NEW ids
  PROVE  /\ Without(array, ids) \in Seq(S)
         /\ Len(Without(array, ids)) <= Len(array)
         /\ \A i \in Kept(array, ids) :
              /\ Place(Kept(array, ids), i) \in 1 .. Len(Without(array, ids))
              /\ Without(array, ids)[Place(Kept(array, ids), i)] = array[i]
         /\ \A n \in 1 .. Len(Without(array, ids)) :
              \E i \in Kept(array, ids) : Place(Kept(array, ids), i) = n
         /\ ToSet(Without(array, ids)) = ToSet(array) \ ids
         /\ IsInjective(array) => IsInjective(Without(array, ids))
<1> DEFINE K == Kept(array, ids)
           W == Without(array, ids)
           at(n) == CHOOSE i \in K : Place(K, i) = n
<1>1. Len(array) \in Nat /\ K \in SUBSET (1 .. Len(array)) /\ DOMAIN array = 1 .. Len(array)
  BY LenProperties DEF Kept
<1>2. /\ Cardinality(K) \in Nat
      /\ \A i \in K : Place(K, i) \in 1 .. Cardinality(K)
      /\ \A i, j \in K : Place(K, i) = Place(K, j) => i = j
      /\ \A n \in 1 .. Cardinality(K) : \E i \in K : Place(K, i) = n
  BY <1>1, PlacesCount
<1>3. W = [n \in 1 .. Cardinality(K) |-> array[at(n)]]
  BY DEF Without, Kept, Place, UpTo
<1> HIDE DEF K, W
<1>4. \A n \in 1 .. Cardinality(K) : at(n) \in K /\ Place(K, at(n)) = n
  BY <1>2
<1>5. \A i \in K : at(Place(K, i)) = i
  BY <1>2, <1>4
<1> HIDE DEF at
<1>6. \A n \in 1 .. Cardinality(K) : W[n] = array[at(n)] /\ array[at(n)] \in S
  BY <1>1, <1>3, <1>4, ElementOfSeq
<1>7. W \in Seq(S) /\ Len(W) = Cardinality(K) /\ DOMAIN W = 1 .. Cardinality(K)
  <2>1. W \in [1 .. Cardinality(K) -> S]
    BY <1>3, <1>6
  <2>2. W \in Seq(S)
    BY <1>2, <2>1, SeqDef
  <2>3. QED
    BY <1>2, <2>1, <2>2, LenProperties
<1>8. \A i \in K : W[Place(K, i)] = array[i]
  BY <1>2, <1>5, <1>6
<1>9. ToSet(W) = ToSet(array) \ ids
  <2>1. \A i \in K : array[i] \in ToSet(array) \ ids
    BY <1>1 DEF ToSet, K, Kept
  <2>2. \A x \in ToSet(array) \ ids : \E i \in K : array[i] = x
    BY <1>1 DEF ToSet, K, Kept
  <2>3. \A n \in 1 .. Cardinality(K) : W[n] \in ToSet(array) \ ids
    BY <1>4, <1>6, <2>1
  <2>4. \A i \in K : array[i] \in ToSet(W)
    BY <1>2, <1>7, <1>8 DEF ToSet
  <2>5. ToSet(W) \subseteq ToSet(array) \ ids
    BY <1>7, <2>3 DEF ToSet
  <2>6. QED
    BY <2>2, <2>4, <2>5
<1>10. IsInjective(array) => IsInjective(W)
  <2>1. ASSUME IsInjective(array), NEW m \in DOMAIN W, NEW n \in DOMAIN W, W[m] = W[n]
        PROVE  m = n
    <3>1. at(m) \in K /\ at(n) \in K /\ Place(K, at(m)) = m /\ Place(K, at(n)) = n
      BY <1>4, <1>7
    <3>2. array[at(m)] = array[at(n)] /\ at(m) \in DOMAIN array /\ at(n) \in DOMAIN array
      BY <1>1, <1>6, <1>7, <2>1, <3>1
    <3>3. QED
      BY <2>1, <3>1, <3>2 DEF IsInjective
  <2>2. QED
    BY <2>1 DEF IsInjective
<1>11. Cardinality(K) <= Len(array)
  <2>1. \A n \in Nat : IsFiniteSet(1 .. n) /\ Cardinality(1 .. n) = n
    <3>1. TAKE n \in Nat
    <3>2. 1 \in Int /\ n \in Int /\ (IF 1 > n THEN 0 ELSE n - 1 + 1) = n
      BY <3>1
    <3>3. QED
      BY <3>2, FS_Interval
  <2>2. IsFiniteSet(1 .. Len(array)) /\ Cardinality(1 .. Len(array)) = Len(array)
    BY <1>1, <2>1
  <2>3. Cardinality(K) <= Cardinality(1 .. Len(array))
    BY <1>1, <2>2, FS_Subset
  <2>4. QED
    BY <2>2, <2>3
<1>12. QED
  BY <1>2, <1>7, <1>8, <1>9, <1>10, <1>11 DEF K, W

LEMMA AppendKeeps ==
  ASSUME NEW S, NEW s \in Seq(S), NEW x \in S
  PROVE  /\ Append(s, x) \in Seq(S)
         /\ ToSet(Append(s, x)) = ToSet(s) \cup {x}
         /\ IsInjective(s) /\ x \notin ToSet(s) => IsInjective(Append(s, x))
<1>1. /\ Len(s) \in Nat /\ DOMAIN s = 1 .. Len(s)
      /\ Append(s, x) \in Seq(S) /\ DOMAIN Append(s, x) = 1 .. Len(s) + 1
      /\ \A i \in 1 .. Len(s) + 1 : Append(s, x)[i] = IF i = Len(s) + 1 THEN x ELSE s[i]
  OBVIOUS
<1>2. ToSet(Append(s, x)) = ToSet(s) \cup {x}
  BY <1>1 DEF ToSet
<1>3. IsInjective(s) /\ x \notin ToSet(s) => IsInjective(Append(s, x))
  BY <1>1 DEF ToSet, IsInjective
<1>4. QED
  BY <1>1, <1>2, <1>3

LEMMA ConcatKeeps ==
  ASSUME NEW S, NEW s \in Seq(S), NEW t \in Seq(S)
  PROVE  /\ s \o t \in Seq(S)
         /\ ToSet(s \o t) = ToSet(s) \cup ToSet(t)
         /\ IsInjective(s) /\ IsInjective(t) /\ ToSet(s) \cap ToSet(t) = {} => IsInjective(s \o t)
<1>1. /\ Len(s) \in Nat /\ DOMAIN s = 1 .. Len(s)
      /\ Len(t) \in Nat /\ DOMAIN t = 1 .. Len(t)
      /\ s \o t \in Seq(S) /\ DOMAIN (s \o t) = 1 .. Len(s) + Len(t)
      /\ \A i \in 1 .. Len(s) + Len(t) :
           (s \o t)[i] = IF i <= Len(s) THEN s[i] ELSE t[i - Len(s)]
  BY ConcatProperties, LenProperties
<1>2. ToSet(s \o t) = ToSet(s) \cup ToSet(t)
  <2>1. \A i \in 1 .. Len(s) : i \in 1 .. Len(s) + Len(t) /\ (s \o t)[i] = s[i]
    BY <1>1
  <2>2. \A i \in 1 .. Len(t) : Len(s) + i \in 1 .. Len(s) + Len(t) /\ (s \o t)[Len(s) + i] = t[i]
    BY <1>1
  <2>3. \A i \in 1 .. Len(s) + Len(t) : i \in 1 .. Len(s) \/ i - Len(s) \in 1 .. Len(t)
    BY <1>1
  <2>4. ToSet(s) \subseteq ToSet(s \o t) /\ ToSet(t) \subseteq ToSet(s \o t)
    <3>1. \A x \in ToSet(s) : \E i \in DOMAIN (s \o t) : (s \o t)[i] = x
      BY <1>1, <2>1 DEF ToSet
    <3>2. \A x \in ToSet(t) : \E i \in DOMAIN (s \o t) : (s \o t)[i] = x
      BY <1>1, <2>2 DEF ToSet
    <3>3. QED
      BY <3>1, <3>2 DEF ToSet
  <2>5. ToSet(s \o t) \subseteq ToSet(s) \cup ToSet(t)
    BY <1>1, <2>3 DEF ToSet
  <2>6. QED
    BY <2>4, <2>5
<1>3. ASSUME IsInjective(s), IsInjective(t), ToSet(s) \cap ToSet(t) = {}
      PROVE  IsInjective(s \o t)
  <2>1. ASSUME NEW i \in 1 .. Len(s) + Len(t), NEW j \in 1 .. Len(s) + Len(t),
               (s \o t)[i] = (s \o t)[j]
        PROVE  i = j
    <3>1. CASE i <= Len(s) /\ j <= Len(s)
      BY <1>1, <1>3, <2>1, <3>1 DEF IsInjective
    <3>2. CASE i > Len(s) /\ j > Len(s)
      <4>1. i - Len(s) \in DOMAIN t /\ j - Len(s) \in DOMAIN t /\ t[i - Len(s)] = t[j - Len(s)]
        BY <1>1, <2>1, <3>2
      <4>2. i - Len(s) = j - Len(s)
        BY <1>3, <4>1 DEF IsInjective
      <4>3. QED
        BY <1>1, <4>2
    <3>3. \A a \in 1 .. Len(s), b \in 1 .. Len(t) : s[a] # t[b]
      BY <1>1, <1>3 DEF ToSet
    <3>4. QED
      BY <1>1, <2>1, <3>1, <3>2, <3>3
  <2>2. QED
    BY <1>1, <2>1 DEF IsInjective
<1>4. QED
  BY <1>1, <1>2, <1>3

(* The removal of one listener moves those behind it by a place. *)
LEMMA WithoutOne ==
  ASSUME NEW S, NEW array \in Seq(S), IsInjective(array), NEW x,
         NEW i \in Kept(array, {x})
  PROVE  Place(Kept(array, {x}), i) =
           IF \E p \in 1 .. i : array[p] = x THEN i - 1 ELSE i
<1> DEFINE K == Kept(array, {x})
<1>1. /\ Len(array) \in Nat /\ DOMAIN array = 1 .. Len(array)
      /\ i \in 1 .. Len(array) /\ array[i] # x
  BY LenProperties DEF Kept
<1>2. IsFiniteSet(1 .. i) /\ Cardinality(1 .. i) = i
  BY <1>1, FS_Interval
<1>3. CASE \E p \in 1 .. i : array[p] = x
  <2>1. PICK p \in 1 .. i : array[p] = x
    BY <1>3
  <2>2. \A j \in 1 .. i : array[j] = x <=> j = p
    BY <1>1, <2>1 DEF IsInjective
  <2>3. UpTo(K, i) = (1 .. i) \ {p}
    BY <1>1, <2>1, <2>2 DEF UpTo, Kept
  <2>4. Cardinality(UpTo(K, i)) = i - 1
    BY <1>2, <2>1, <2>3, FS_RemoveElement
  <2>5. QED
    BY <1>3, <2>4 DEF Place
<1>4. CASE ~ \E p \in 1 .. i : array[p] = x
  <2>1. UpTo(K, i) = 1 .. i
    BY <1>1, <1>4 DEF UpTo, Kept
  <2>2. QED
    BY <1>2, <1>4, <2>1 DEF Place
<1>5. QED
  BY <1>3, <1>4

-----------------------------------------------------------------------------
(* What a task calls: live listeners, or those that disconnect cut off.    *)
LEMMA ArrayFacts ==
  ASSUME ListenersTypeOK, ArraysOK, DetachedOK, NEW t \in Task, NEW k \in Kind
  PROVE  /\ ArrayOf(t, k) \in Seq(Listener)
         /\ IsInjective(ArrayOf(t, k))
         /\ ToSet(ArrayOf(t, k)) \subseteq DOMAIN owner
         /\ IF detached[t] # {} THEN ToSet(ArrayOf(t, k)) \subseteq cut
                                ELSE /\ ArrayOf(t, k) = eventListeners[k]
                                     /\ ToSet(ArrayOf(t, k)) \subseteq DOMAIN owner \ left
<1>1. /\ eventListeners \in [Kind -> Seq(Listener)]
      /\ detached[t] \subseteq [Kind -> Seq(Listener)]
      /\ cut \subseteq left /\ left \subseteq DOMAIN owner
  BY DEF TypeOK, ListenersTypeOK, Arrays
<1>2. CASE detached[t] = {}
  BY <1>1, <1>2 DEF ArrayOf, ArraysOK
<1>3. CASE detached[t] # {}
  <2> DEFINE old == CHOOSE o \in detached[t] : TRUE
  <2>1. old \in detached[t]
    BY <1>3
  <2>2. ArrayOf(t, k) = old[k]
    BY <1>3 DEF ArrayOf
  <2> HIDE DEF old
  <2>3. old[k] \in Seq(Listener) /\ IsInjective(old[k]) /\ ToSet(old[k]) \subseteq cut
    BY <1>1, <2>1 DEF DetachedOK
  <2>4. QED
    BY <1>1, <1>3, <2>2, <2>3
<1>4. QED
  BY <1>2, <1>3

(* A walk that begins has everybody ahead of it. *)
LEMMA WalkBegins ==
  ASSUME ListenersTypeOK, ArraysOK, DetachedOK, NEW t \in Task, NEW kinds \in Seq(Kind), kinds # <<>>
  PROVE  GoodWalk(WalkFrom(t, kinds), ArrayOf(t, Head(kinds)), detached[t] # {})
<1> DEFINE here == ArrayOf(t, Head(kinds))
           w == WalkFrom(t, kinds)
<1>1. Head(kinds) \in Kind
  OBVIOUS
<1>2. here \in Seq(Listener)
  BY <1>1, ArrayFacts
<1> HIDE DEF here
<1>3. Len(here) \in Nat /\ DOMAIN here = 1 .. Len(here) /\ ToSet(here) \subseteq Listener
  BY <1>2 DEF ToSet
<1>4. w = [task |-> t, kinds |-> kinds, at |-> 0, len |-> Len(here), calls |-> <<>>,
           due |-> ToSet(here), skipped |-> {}, stale |-> FALSE]
  BY DEF WalkFrom, NoWalk, here
<1> HIDE DEF w
<1>5. w \in WalkState
  BY <1>3, <1>4 DEF WalkState
<1>6. IsInjective(w.calls) /\ ToSet(w.calls) = {}
  BY <1>4 DEF IsInjective, ToSet
<1>7. w.due \subseteq Ahead(w, here)
  BY <1>3, <1>4 DEF ToSet, Ahead
<1>8. w.kinds # <<>> /\ w.at <= w.len /\ Len(here) <= w.len /\ ~w.stale
  BY <1>3, <1>4
<1>9. GoodWalk(w, here, detached[t] # {})
  BY <1>5, <1>6, <1>7, <1>8 DEF GoodWalk
<1>10. QED
  BY <1>9 DEF here, w

(* One call of a walk: of nobody before, of nobody who has left, and, if   *)
(* it removes a listener, with the one behind it skipped at most.          *)
LEMMA WalkGoesOn ==
  ASSUME ListenersTypeOK, ArraysOK, DetachedOK, WalkOK, WalkOn
  PROVE  GoodWalk(walk, ArrayOf(walk.task, Head(walk.kinds)), detached[walk.task] # {})'
<1> DEFINE t == walk.task
           k == Head(walk.kinds)
           here == ArrayOf(t, k)
           held == detached[t] # {}
           n == walk.at + 1
<1>1. /\ Walking /\ walk.at < walk.len
      /\ walk \in WalkState /\ t \in Task /\ walk.kinds \in Seq(Kind) /\ walk.kinds # <<>>
      /\ GoodWalk(walk, here, held)
  BY DEF WalkOn, WalkOK, GoodWalk, WalkState
<1>2. k \in Kind
  BY <1>1
<1>3. /\ here \in Seq(Listener) /\ IsInjective(here)
      /\ ToSet(here) \subseteq DOMAIN owner
      /\ IF held THEN ToSet(here) \subseteq cut
                 ELSE here = eventListeners[k] /\ ToSet(here) \subseteq DOMAIN owner \ left
  BY <1>1, <1>2, ArrayFacts
<1>4. /\ Len(here) \in Nat /\ DOMAIN here = 1 .. Len(here)
      /\ walk.at \in Nat /\ walk.len \in Nat /\ n \in Nat
  BY <1>1, <1>3 DEF WalkState
<1>5. /\ UNCHANGED <<owner, detached>>
      /\ walk'.task = t /\ walk'.kinds = walk.kinds /\ walk'.len = walk.len /\ walk'.at = n
      /\ walk'.due = walk.due
  BY <1>1 DEF WalkOn, WalkState
<1>6. /\ held' = held /\ k' = k
      /\ held => here' = here
      /\ ~held => here' = eventListeners'[k]
  BY <1>5 DEF ArrayOf
<1>7. eventListeners \in [Kind -> Seq(Listener)] /\ left \subseteq DOMAIN owner /\ cut \subseteq left
  BY DEF TypeOK, ListenersTypeOK, Arrays
<1>8. SUFFICES GoodWalk(walk, here, held)'
  OBVIOUS
<1>9. CASE n > Len(here)
  <2>1. walk' = [walk EXCEPT !.at = n] /\ UNCHANGED <<eventListeners, left>>
    BY <1>9 DEF WalkOn
  <2>2. here' = here
    BY <1>3, <1>6, <2>1
  <2> HIDE DEF here, held, t, k
  <2>3. /\ walk' \in WalkState /\ walk'.kinds # <<>>
        /\ walk'.calls = walk.calls /\ walk'.skipped = walk.skipped /\ walk'.stale = walk.stale
    BY <1>1, <1>4, <2>1 DEF WalkState
  <2>4. Passed(walk, here) \subseteq Passed(walk', here)
    BY <1>4, <1>5 DEF Passed
  <2>5. Ahead(walk, here) = {}
    BY <1>4, <1>9 DEF Ahead
  <2>6. QED
    <3> HIDE <2>1
    <3>1. UNCHANGED <<left, owner>>
      BY <1>5, <2>1
    <3>2. walk'.at <= walk'.len /\ Len(here) <= walk'.len
      BY <1>1, <1>4, <1>5 DEF GoodWalk
    <3>3. ToSet(walk'.calls) \subseteq Passed(walk', here) \cup (IF held THEN {} ELSE left)
      BY <1>1, <2>3, <2>4 DEF GoodWalk
    <3>4. walk'.due \subseteq left \cup walk'.skipped \cup ToSet(walk'.calls) \cup Ahead(walk', here)
      BY <1>1, <1>5, <2>3, <2>5 DEF GoodWalk
    <3>5. IsInjective(walk'.calls) /\ ToSet(walk'.calls) \subseteq DOMAIN owner /\ ~walk'.stale
      BY <1>1, <2>3 DEF GoodWalk
    <3>6. QED
      BY <1>6, <2>2, <2>3, <3>1, <3>2, <3>3, <3>4, <3>5 DEF GoodWalk
<1>10. CASE n <= Len(here)
  <2> DEFINE l == here[n]
  <2>1. n \in DOMAIN here /\ l \in ToSet(here) /\ l \in Listener
    BY <1>3, <1>4, <1>10 DEF ToSet
  <2>2. /\ Callback(l)
        /\ walk' = [walk EXCEPT !.at = n, !.calls = Append(@, l),
                       !.stale = @ \/ l \in left \ cut,
                       !.skipped = @ \cup
                         IF detached[t] = {} /\ n < Len(here)
                            /\ \E i \in 1 .. n : here[i] \in left' \ left
                         THEN {here[n + 1]} ELSE {}]
    <3>1. ~(n > Len(here))
      BY <1>4, <1>10
    <3>2. QED
      BY <3>1, Zenon DEF WalkOn
  <2>3. \/ left' = left /\ here' = here
        \/ \E gone \in DOMAIN owner \ left :
             /\ left' = left \cup {gone}
             /\ here' = IF held THEN here ELSE Without(here, {gone})
    <3>1. CASE UNCHANGED <<eventListeners, left, cut>>
      BY <1>3, <1>6, <3>1
    <3>2. ASSUME NEW gone \in OwnedBy(App), RemoveEventListeners({gone})
          PROVE  \E g \in DOMAIN owner \ left :
                   /\ left' = left \cup {g}
                   /\ here' = IF held THEN here ELSE Without(here, {g})
      <4>1. gone \in DOMAIN owner \ left /\ left' = left \cup {gone}
        BY <3>2 DEF OwnedBy, RemoveEventListeners
      <4>2. ~held => here' = Without(here, {gone})
        BY <1>2, <1>3, <1>6, <3>2 DEF RemoveEventListeners
      <4>3. QED
        BY <1>6, <4>1, <4>2
    <3>3. QED
      BY <2>2, <3>1, <3>2 DEF Callback
  <2> DEFINE extra == IF detached[t] = {} /\ n < Len(here)
                         /\ \E i \in 1 .. n : here[i] \in left' \ left
                      THEN {here[n + 1]} ELSE {}
  <2>4. extra \subseteq Listener
    BY <1>3, <1>4
  <2>5. /\ walk'.calls = Append(walk.calls, l)
        /\ walk'.stale = (walk.stale \/ l \in left \ cut)
        /\ walk'.skipped = walk.skipped \cup extra
        /\ walk' \in WalkState
    <3> HIDE DEF here, held, extra
    <3>1. /\ walk.calls \in Seq(Listener) /\ Append(walk.calls, l) \in Seq(Listener)
          /\ walk.skipped \cup extra \in SUBSET Listener
          /\ (walk.stale \/ l \in left \ cut) \in BOOLEAN
      BY <1>1, <2>1, <2>4 DEF WalkState
    <3>2. walk' = [walk EXCEPT !.at = n, !.calls = Append(walk.calls, l),
                               !.stale = (walk.stale \/ l \in left \ cut),
                               !.skipped = walk.skipped \cup extra]
      BY <2>2, Zenon DEF extra
    <3> HIDE DEF l, n
    <3>3. QED
      BY <1>1, <1>4, <3>1, <3>2 DEF WalkState
  <2>6. ToSet(walk.calls) \subseteq Passed(walk, here) \cup (IF held THEN {} ELSE left)
    BY <1>1 DEF GoodWalk
  <2>7. l \notin ToSet(walk.calls)
    <3>1. l \notin Passed(walk, here)
      BY <1>3, <1>4, <2>1 DEF Passed, IsInjective
    <3>2. ~held => l \notin left
      BY <1>3, <2>1
    <3>3. QED
      BY <2>6, <3>1, <3>2
  <2>8. /\ Len(here') <= Len(here)
        /\ Passed(walk, here) \cup {l} \subseteq Passed(walk', here') \cup (IF held THEN {} ELSE left')
        /\ Ahead(walk, here) \subseteq {l} \cup Ahead(walk', here') \cup extra \cup left'
        /\ left \subseteq left'
    <3> HIDE DEF t, k, held, extra
    <3>1. /\ Passed(walk, here) \cup {l} = {here[i] : i \in {j \in DOMAIN here : j <= n}}
          /\ Ahead(walk, here) \subseteq {l} \cup {here[i] : i \in {j \in DOMAIN here : n < j}}
      <4>1. \A j \in DOMAIN here : (j <= n <=> j = n \/ j <= walk.at) /\ (walk.at < j => j = n \/ n < j)
        BY <1>4
      <4>2. QED
        BY <2>1, <4>1 DEF Passed, Ahead
    <3>5. (\E p \in 1 .. n : here[p] \in left' \ left) /\ ~held /\ n + 1 \in DOMAIN here
            => here[n + 1] \in extra
      BY <1>4 DEF extra, held
    <3> HIDE DEF here, n, l
    <3>2. CASE here' = here /\ left \subseteq left'
      <4>1. walk'.at = n
        BY <1>5
      <4>2. /\ Passed(walk', here) = {here[i] : i \in {j \in DOMAIN here : j <= n}}
            /\ Ahead(walk', here) = {here[i] : i \in {j \in DOMAIN here : n < j}}
        BY <4>1, Zenon DEF Passed, Ahead
      <4>3. /\ Passed(walk, here) \cup {l} \subseteq Passed(walk', here)
            /\ Ahead(walk, here) \subseteq {l} \cup Ahead(walk', here)
        BY <3>1, <4>2
      <4>4. Len(here) <= Len(here)
        BY <1>4
      <4>5. QED
        BY <3>2, <4>3, <4>4
    <3>3. ASSUME ~held, NEW gone \in DOMAIN owner \ left,
                 left' = left \cup {gone}, here' = Without(here, {gone})
          PROVE  <2>8
      <4> DEFINE K == Kept(here, {gone})
                 W == Without(here, {gone})
      <4>1. /\ W \in Seq(Listener) /\ Len(W) <= Len(here)
            /\ \A i \in K : Place(K, i) \in 1 .. Len(W) /\ W[Place(K, i)] = here[i]
        BY <1>3, WithoutKeeps
      <4>2. \A i \in K : Place(K, i) = IF \E p \in 1 .. i : here[p] = gone THEN i - 1 ELSE i
        BY <1>3, WithoutOne
      <4>3. \A i \in DOMAIN here : i \in K \/ here[i] = gone
        BY DEF Kept
      <4>4. K \subseteq DOMAIN here /\ DOMAIN W = 1 .. Len(W)
        BY <4>1, LenProperties DEF Kept
      <4> HIDE DEF K, W
      <4>5. \A i \in K : i <= n => Place(K, i) <= n
        BY <1>4, <4>2, <4>4
      <4>6. \A i \in DOMAIN here : i <= n => here[i] \in Passed(walk', W) \cup {gone}
        <5>1. TAKE i \in DOMAIN here
        <5>2. HAVE i <= n
        <5>3. CASE i \in K
          BY <1>5, <4>1, <4>4, <4>5, <5>2, <5>3 DEF Passed
        <5>4. QED
          BY <4>3, <5>3
      <4>7. \A i \in DOMAIN here : n < i => here[i] \in Ahead(walk', W) \cup {gone} \cup extra
        <5>1. TAKE i \in DOMAIN here
        <5>2. HAVE n < i
        <5>3. ASSUME i \in K, n < Place(K, i) PROVE here[i] \in Ahead(walk', W)
          BY <1>5, <4>1, <4>4, <5>3 DEF Ahead
        <5>4. ASSUME i \in K, ~(n < Place(K, i)) PROVE here[i] \in extra
          <6>1. i = n + 1 /\ \E p \in 1 .. i : here[p] = gone
            BY <1>4, <4>2, <5>2, <5>4
          <6>2. \E p \in 1 .. n : here[p] = gone
            BY <1>4, <5>4, <6>1 DEF K, Kept
          <6>3. QED
            BY <3>3, <3>5, <6>1, <6>2
        <5>5. QED
          BY <4>3, <5>3, <5>4
      <4>8. Passed(walk, here) \cup {l} \subseteq Passed(walk', W) \cup left'
        BY <3>1, <3>3, <4>6
      <4>9. Ahead(walk, here) \subseteq {l} \cup Ahead(walk', W) \cup extra \cup left'
        BY <3>1, <3>3, <4>7
      <4>10. here' = W
        BY <3>3 DEF W
      <4>11. QED
        BY <3>3, <4>1, <4>8, <4>9, <4>10
    <3>4. QED
      BY <2>3, <3>2, <3>3
  <2>9. Len(here') <= walk'.len /\ walk'.at <= walk'.len
    <3>1. Len(here) <= walk.len /\ Len(here') \in Nat
      BY <1>1, <1>3, <1>6, <2>3, WithoutKeeps DEF GoodWalk
    <3> HIDE DEF t, k, here
    <3>2. QED
      BY <1>1, <1>4, <1>5, <2>8, <3>1
  <2> HIDE DEF t, k, here, held, l, n, extra
  <2>10. /\ IsInjective(walk'.calls)
         /\ ToSet(walk'.calls) = ToSet(walk.calls) \cup {l}
    <3>1. walk.calls \in Seq(Listener) /\ IsInjective(walk.calls)
      BY <1>1 DEF GoodWalk, WalkState
    <3>2. QED
      BY <2>1, <2>5, <2>7, <3>1, AppendKeeps
  <2>11. ToSet(walk'.calls) \subseteq DOMAIN owner'
    BY <1>1, <1>3, <1>5, <2>1, <2>10 DEF GoodWalk
  <2>12. ToSet(walk'.calls) \subseteq Passed(walk', here') \cup (IF held' THEN {} ELSE left')
    BY <1>6, <2>6, <2>8, <2>10
  <2>13. walk'.due \subseteq left' \cup walk'.skipped \cup ToSet(walk'.calls) \cup Ahead(walk', here')
    <3>1. walk.due \subseteq left \cup walk.skipped \cup ToSet(walk.calls) \cup Ahead(walk, here)
      BY <1>1 DEF GoodWalk
    <3>2. QED
      BY <1>5, <2>5, <2>8, <2>10, <3>1
  <2>14. ~walk'.stale
    BY <1>1, <1>3, <2>1, <2>5 DEF GoodWalk
  <2>15. walk'.kinds # <<>>
    BY <1>1, <1>5
  <2>16. QED
    BY <2>5, <2>9, <2>10, <2>11, <2>12, <2>13, <2>14, <2>15 DEF GoodWalk
<1>11. QED
  BY <1>4, <1>9, <1>10

-----------------------------------------------------------------------------
(* The listeners alone: what the steps of the provider keep of them.       *)
ListenersOK == ListenersTypeOK /\ ArraysOK /\ DetachedOK /\ WalkOK

LEMMA ListenersStay ==
  ASSUME ListenersOK, UNCHANGED listenerVars
  PROVE  ListenersOK' /\ \A o : OwnedBy(o)' = OwnedBy(o)
<1>1. ListenersTypeOK' /\ ArraysOK' /\ DetachedOK'
  BY DEF ListenersOK, listenerVars, ListenersTypeOK, ArraysOK, DetachedOK
<1>2. WalkOK'
  BY DEF ListenersOK, listenerVars, WalkOK, Walking, GoodWalk, Passed, Ahead, ArrayOf
<1>3. \A o : OwnedBy(o)' = OwnedBy(o)
  BY DEF listenerVars, OwnedBy
<1>4. QED
  BY <1>1, <1>2, <1>3 DEF ListenersOK

(* A removal leaves the others where they are, in their order. *)
LEMMA RemovalKeeps ==
  ASSUME ListenersTypeOK, ArraysOK, DetachedOK, NEW ids \in SUBSET (DOMAIN owner \ left),
         RemoveEventListeners(ids), UNCHANGED <<owner, detached>>
  PROVE  /\ eventListeners' \in Arrays
         /\ left' \subseteq DOMAIN owner' /\ cut' \subseteq left'
         /\ ArraysOK' /\ DetachedOK'
         /\ \A o : OwnedBy(o)' = OwnedBy(o) \ ids
<1>1. eventListeners \in [Kind -> Seq(Listener)] /\ left \subseteq DOMAIN owner /\ cut \subseteq left
  BY DEF ListenersTypeOK, Arrays
<1>2. /\ eventListeners' = [k \in Kind |-> Without(eventListeners[k], ids)]
      /\ left' = left \cup ids /\ cut' = cut
  BY DEF RemoveEventListeners
<1>3. ASSUME NEW k \in Kind
      PROVE  /\ Without(eventListeners[k], ids) \in Seq(Listener)
             /\ IsInjective(Without(eventListeners[k], ids))
             /\ ToSet(Without(eventListeners[k], ids)) \subseteq DOMAIN owner \ (left \cup ids)
  <2>1. eventListeners[k] \in Seq(Listener)
    BY <1>1
  <2>2. IsInjective(eventListeners[k]) /\ ToSet(eventListeners[k]) \subseteq DOMAIN owner \ left
    BY DEF ArraysOK
  <2>3. QED
    BY <2>1, <2>2, WithoutKeeps
<1>4. eventListeners' \in Arrays
  BY <1>2, <1>3 DEF Arrays
<1>5. ArraysOK'
  BY <1>2, <1>3 DEF ArraysOK
<1>6. DetachedOK'
  BY <1>2 DEF DetachedOK
<1>7. \A o : OwnedBy(o)' = OwnedBy(o) \ ids
  BY <1>2 DEF OwnedBy
<1>8. QED
  BY <1>1, <1>2, <1>4, <1>5, <1>6, <1>7

LEMMA WalkStarts ==
  ASSUME ListenersTypeOK, ArraysOK, DetachedOK, NEW t \in Task, NEW kinds \in Seq(Kind),
         walk' = WalkFrom(t, kinds), UNCHANGED <<eventListeners, owner, left, detached>>
  PROVE  walk' \in WalkState \cup {NoWalk} /\ WalkOK'
<1>1. CASE kinds = <<>>
  BY <1>1 DEF WalkFrom, WalkOK, Walking
<1>2. CASE kinds # <<>>
  <2> DEFINE held == detached[t] # {}
             here == ArrayOf(t, Head(kinds))
  <2>1. GoodWalk(WalkFrom(t, kinds), here, held)
    BY <1>2, WalkBegins
  <2>2. WalkFrom(t, kinds).task = t /\ WalkFrom(t, kinds).kinds = kinds
    BY <1>2 DEF WalkFrom, NoWalk
  <2>3. walk'.task = t /\ walk'.kinds = kinds
    BY <2>2
  <2> DEFINE now == ArrayOf(walk.task, Head(walk.kinds))
             nowHeld == detached[walk.task] # {}
  <2>4. now' = here /\ nowHeld' = held
    BY <2>3 DEF ArrayOf
  <2>5. GoodWalk(walk, now, nowHeld)' <=> GoodWalk(walk', here, held)
    <3> HIDE DEF here, held, now, nowHeld
    <3>1. Passed(walk, now)' = Passed(walk', here) /\ Ahead(walk, now)' = Ahead(walk', here)
      BY <2>4 DEF Passed, Ahead
    <3>2. QED
      BY <2>4, <3>1 DEF GoodWalk
  <2>6. GoodWalk(walk', here, held)
    BY <2>1
  <2>7. walk' \in WalkState
    BY <2>6 DEF GoodWalk
  <2>8. WalkOK'
    BY <2>5, <2>6 DEF WalkOK
  <2>9. QED
    BY <2>7, <2>8
<1>3. QED
  BY <1>1, <1>2

LEMMA ListenerStepKeeps ==
  ASSUME ListenersOK, ListenerStep
  PROVE  ListenersOK' /\ UNCHANGED owner /\ left \subseteq left'
<1>1. /\ eventListeners \in [Kind -> Seq(Listener)] /\ left \subseteq DOMAIN owner
      /\ owner \in Seq(Socket \cup {App}) /\ Len(owner) <= MaxListeners
      /\ cut \subseteq left
      /\ task \in [Task -> {"idle", "waiting", "done"}]
      /\ detached \in [Task -> SUBSET Arrays]
      /\ \A t \in Task : Cardinality(detached[t]) <= 1
      /\ walk \in WalkState \cup {NoWalk}
      /\ ListenersTypeOK /\ ArraysOK /\ DetachedOK /\ WalkOK
  BY DEF ListenersOK, ListenersTypeOK, Arrays
<1>2. ASSUME NEW t \in Task, NotifySubscribers(t) PROVE ListenersOK' /\ UNCHANGED owner /\ left \subseteq left'
  <2>1. UNCHANGED <<eventListeners, owner, left, cut, walk>> /\ ~Walking'
    BY <1>2 DEF NotifySubscribers, Walking
  <2>2. task' \in [Task -> {"idle", "waiting", "done"}]
    BY <1>1, <1>2 DEF NotifySubscribers
  <2>3. detached' = [detached EXCEPT ![t] = {}]
    BY <1>2 DEF NotifySubscribers
  <2>4. detached' \in [Task -> SUBSET Arrays] /\ \A u \in Task : Cardinality(detached'[u]) <= 1
    BY <1>1, <2>3, FS_EmptySet
  <2>5. ListenersTypeOK'
    BY <1>1, <2>1, <2>2, <2>4 DEF ListenersTypeOK
  <2>6. ArraysOK' /\ WalkOK'
    BY <1>1, <2>1 DEF ArraysOK, WalkOK
  <2>7. DetachedOK'
    BY <1>1, <2>1, <2>3 DEF DetachedOK
  <2>8. QED
    BY <2>1, <2>5, <2>6, <2>7 DEF ListenersOK
<1>3. ASSUME NEW t \in Task, OnNewFinalizedHead(t) \/ TaskFails(t)
      PROVE  ListenersOK' /\ UNCHANGED owner /\ left \subseteq left'
  <2>1. UNCHANGED <<eventListeners, owner, left, cut, detached, walk>> /\ ~Walking'
    BY <1>3 DEF OnNewFinalizedHead, TaskFails, Walking
  <2>2. task' \in [Task -> {"idle", "waiting", "done"}]
    BY <1>1, <1>3 DEF OnNewFinalizedHead, TaskFails
  <2>5. ListenersTypeOK'
    BY <1>1, <2>1, <2>2 DEF ListenersTypeOK
  <2>6. ArraysOK' /\ WalkOK' /\ DetachedOK'
    BY <1>1, <2>1 DEF ArraysOK, WalkOK, DetachedOK
  <2>8. QED
    BY <2>1, <2>5, <2>6 DEF ListenersOK
<1>4. ASSUME NEW t \in Task, StartWalk(t) PROVE ListenersOK' /\ UNCHANGED owner /\ left \subseteq left'
  <2> DEFINE kinds == IF t \in FinalTask THEN <<"newFinalizedHeads">>
                      ELSE IF t \in WithLogs THEN <<"newHeads", "logs">> ELSE <<"newHeads">>
  <2>1. UNCHANGED <<eventListeners, owner, left, cut, detached>> /\ walk' = WalkFrom(t, kinds)
    BY <1>4 DEF StartWalk
  <2>2. task' \in [Task -> {"idle", "waiting", "done"}]
    BY <1>1, <1>4 DEF StartWalk
  <2>3. kinds \in Seq(Kind)
    <3>1. "newHeads" \in Kind /\ "newFinalizedHeads" \in Kind /\ "logs" \in Kind
      BY DEF Kind
    <3>2. /\ <<"newFinalizedHeads">> \in Seq(Kind) /\ <<"newHeads">> \in Seq(Kind)
          /\ <<"newHeads", "logs">> \in Seq(Kind)
      BY <3>1
    <3>3. QED
      BY <3>2
  <2> HIDE DEF kinds
  <2>4. walk' \in WalkState \cup {NoWalk} /\ WalkOK'
    BY <1>1, <2>1, <2>3, WalkStarts
  <2>5. ListenersTypeOK'
    BY <1>1, <2>1, <2>2, <2>4 DEF ListenersTypeOK
  <2>6. ArraysOK' /\ DetachedOK'
    BY <1>1, <2>1 DEF ArraysOK, DetachedOK
  <2>8. QED
    BY <2>1, <2>4, <2>5, <2>6 DEF ListenersOK
<1>5. ASSUME WalkEnds PROVE ListenersOK' /\ UNCHANGED owner /\ left \subseteq left'
  <2>1. /\ UNCHANGED <<eventListeners, owner, left, cut, task, detached>>
        /\ walk' = WalkFrom(walk.task, Tail(walk.kinds)) /\ Walking
    BY <1>5 DEF WalkEnds
  <2>2. walk \in WalkState /\ walk.kinds # <<>>
    BY <1>1, <2>1 DEF WalkOK, GoodWalk
  <2>3. walk.task \in Task /\ Tail(walk.kinds) \in Seq(Kind)
    BY <2>2 DEF WalkState
  <2>4. walk' \in WalkState \cup {NoWalk} /\ WalkOK'
    BY <1>1, <2>1, <2>3, WalkStarts
  <2>5. ListenersTypeOK'
    BY <1>1, <2>1, <2>4 DEF ListenersTypeOK
  <2>6. ArraysOK' /\ DetachedOK'
    BY <1>1, <2>1 DEF ArraysOK, DetachedOK
  <2>8. QED
    BY <2>1, <2>4, <2>5, <2>6 DEF ListenersOK
<1>6. ASSUME WalkOn PROVE ListenersOK' /\ UNCHANGED owner /\ left \subseteq left'
  <2>1. UNCHANGED <<owner, task, detached>>
    BY <1>6 DEF WalkOn
  <2>2. GoodWalk(walk, ArrayOf(walk.task, Head(walk.kinds)), detached[walk.task] # {})'
    BY <1>1, <1>6, WalkGoesOn
  <2>3. WalkOK' /\ walk' \in WalkState
    BY <2>2 DEF WalkOK, GoodWalk
  <2>4. \/ UNCHANGED <<eventListeners, left, cut>>
        \/ \E gone \in OwnedBy(App) : RemoveEventListeners({gone})
    BY <1>6 DEF WalkOn, Callback
  <2>5. /\ eventListeners' \in Arrays
        /\ left' \subseteq DOMAIN owner' /\ cut' \subseteq left' /\ left \subseteq left'
        /\ ArraysOK' /\ DetachedOK'
    <3>1. CASE UNCHANGED <<eventListeners, left, cut>>
      BY <1>1, <2>1, <3>1 DEF Arrays, ArraysOK, DetachedOK
    <3>2. ASSUME NEW gone \in OwnedBy(App), RemoveEventListeners({gone}) PROVE <2>5
      <4>1. {gone} \in SUBSET (DOMAIN owner \ left) /\ left \subseteq left'
        BY <3>2 DEF OwnedBy, RemoveEventListeners
      <4>2. QED
        BY <1>1, <2>1, <3>2, <4>1, RemovalKeeps
    <3>3. QED
      BY <2>4, <3>1, <3>2
  <2>6. ListenersTypeOK'
    BY <1>1, <2>1, <2>3, <2>5 DEF ListenersTypeOK
  <2>7. QED
    BY <2>1, <2>3, <2>5, <2>6 DEF ListenersOK
<1>7. ASSUME Disconnect PROVE ListenersOK' /\ UNCHANGED owner /\ left \subseteq left'
  <2>1. /\ UNCHANGED <<owner, task, walk>> /\ ~Walking'
        /\ eventListeners' = NoArrays /\ left' = DOMAIN owner
        /\ cut' = cut \cup (DOMAIN owner \ left)
        /\ detached' = [t \in Task |-> IF t \in BestTask /\ task[t] = "waiting" /\ detached[t] = {}
                                       THEN {eventListeners} ELSE detached[t]]
    BY <1>7 DEF Disconnect, Walking
  <2>2. Cardinality({eventListeners}) = 1
    BY FS_Singleton
  <2>3. detached' \in [Task -> SUBSET Arrays] /\ \A t \in Task : Cardinality(detached'[t]) <= 1
    BY <1>1, <2>1, <2>2 DEF Arrays
  <2>4. /\ NoArrays \in Arrays /\ \A k \in Kind : NoArrays[k] = <<>>
        /\ IsInjective(<<>>) /\ ToSet(<<>>) = {}
    BY DEF NoArrays, Arrays, IsInjective, ToSet
  <2>5. ListenersTypeOK'
    BY <1>1, <2>1, <2>3, <2>4 DEF ListenersTypeOK
  <2>6. ArraysOK' /\ WalkOK'
    BY <2>1, <2>4 DEF ArraysOK, WalkOK
  <2>7. DetachedOK'
    BY <1>1, <2>1 DEF DetachedOK, ArraysOK
  <2>8. QED
    BY <1>1, <2>1, <2>5, <2>6, <2>7 DEF ListenersOK
<1>8. ASSUME CallbackThrows PROVE ListenersOK' /\ UNCHANGED owner /\ left \subseteq left'
  <2>1. /\ UNCHANGED <<eventListeners, owner, left, cut, detached>> /\ Walking
        /\ walk' = NoWalk /\ task' = [task EXCEPT ![walk.task] = "idle"]
    BY <1>8 DEF CallbackThrows
  <2>2. task' \in [Task -> {"idle", "waiting", "done"}]
    BY <1>1, <2>1
  <2>3. ListenersTypeOK'
    BY <1>1, <2>1, <2>2 DEF ListenersTypeOK
  <2>4. ArraysOK' /\ DetachedOK' /\ WalkOK'
    BY <1>1, <2>1 DEF ArraysOK, DetachedOK, WalkOK, Walking
  <2>5. QED
    BY <2>1, <2>3, <2>4 DEF ListenersOK
<1>9. QED
  BY <1>2, <1>3, <1>4, <1>5, <1>6, <1>7, <1>8 DEF ListenerStep

-----------------------------------------------------------------------------
(* The server's own state, by its parts. *)
ServerTypeOK ==
  /\ use \in Uses
  /\ phase \in {"starting", "ready", "exited"}
  /\ httpOnly \in BOOLEAN
  /\ clients \in Seq(Socket) /\ IsInjective(clients)
  /\ net \in [Socket -> {"none", "open", "closing", "terminated", "closed"}]
  /\ isAlive \in [Socket -> BOOLEAN] /\ peer \in [Socket -> BOOLEAN] /\ pinged \in [Socket -> BOOLEAN]
  /\ handlers \in [Socket -> SUBSET {"library", "server"}]
  /\ msg \in [Asker -> MsgState]
  /\ told \subseteq DOMAIN owner

LEMMA TypeParts == TypeOK <=> ListenersTypeOK /\ ServerTypeOK
BY DEF TypeOK, ServerTypeOK

LEMMA InvParts ==
  ServerInv <=> ListenersOK /\ ServerTypeOK /\ SocketsOK /\ GivenOK /\ MessagesOK
BY TypeParts DEF ServerInv, ListenersOK

LEMMA InvPartsNext ==
  ListenersOK' /\ ServerTypeOK' /\ SocketsOK' /\ GivenOK' /\ MessagesOK' => ServerInv'
<1>1. ListenersTypeOK' /\ ServerTypeOK' => TypeOK'
  BY DEF TypeOK, ServerTypeOK
<1>2. QED
  BY <1>1 DEF ServerInv, ListenersOK

LEMMA InitKeeps == Init => ServerInv
<1> SUFFICES ASSUME Init PROVE ServerInv
  OBVIOUS
<1>1. ListenersInit
  BY DEF Init
<1>2. ListenersTypeOK
  <2>1. Cardinality({}) = 0
    BY FS_EmptySet
  <2>2. NoArrays \in Arrays
    BY DEF NoArrays, Arrays
  <2>3. /\ owner = <<>> /\ left = {} /\ cut = {} /\ walk = NoWalk /\ eventListeners = NoArrays
        /\ task = [t \in Task |-> "idle"] /\ detached = [t \in Task |-> {}]
    BY <1>1 DEF ListenersInit
  <2>4. owner \in Seq(Socket \cup {App}) /\ Len(owner) <= MaxListeners
    BY <2>3, ListenersAssumption
  <2>5. QED
    BY <2>1, <2>2, <2>3, <2>4 DEF ListenersTypeOK
<1>3. ArraysOK /\ DetachedOK /\ WalkOK
  BY <1>1 DEF ListenersInit, ArraysOK, DetachedOK, WalkOK, Walking, NoArrays, IsInjective, ToSet
<1>4. ServerTypeOK
  <2>1. /\ <<>> \in Seq(Socket) /\ IsInjective(<<>>) /\ NoMsg \in MsgState
        /\ {FALSE, "beats" \in use} \subseteq BOOLEAN
    BY DEF IsInjective, NoMsg, MsgState
  <2>2. QED
    BY <2>1 DEF Init, ServerTypeOK
<1>5. DOMAIN owner = {} /\ ToSet(clients) = {}
  BY <1>1 DEF ListenersInit, Init, ToSet
<1>6. SocketsOK /\ GivenOK /\ MessagesOK
  BY <1>5 DEF Init, SocketsOK, GivenOK, MessagesOK, OwnedBy, NoMsg
<1>7. QED
  BY <1>2, <1>3, <1>4, <1>6, InvParts DEF ListenersOK

(* Steps that leave the listeners alone. *)
LEMMA ConnectionKeeps ==
  ASSUME ServerInv, NEW s \in Socket, Connection(s)
  PROVE  ServerInv'
<1>1. /\ ListenersOK /\ ServerTypeOK /\ SocketsOK /\ GivenOK /\ MessagesOK
  BY InvParts
<1>2. /\ UNCHANGED <<listenerVars, use, phase, httpOnly, isAlive, peer, pinged, msg, told>>
      /\ net[s] = "none"
      /\ net' = [net EXCEPT ![s] = IF httpOnly THEN "closing" ELSE "open"]
      /\ clients' = Append(clients, s)
      /\ handlers' = [handlers EXCEPT ![s] = IF httpOnly THEN {"library"} ELSE {"library", "server"}]
  BY DEF Connection, rest
<1>3. ListenersOK' /\ UNCHANGED owner /\ \A o : OwnedBy(o)' = OwnedBy(o)
  BY <1>1, <1>2, ListenersStay DEF listenerVars
<1>4. s \notin ToSet(clients) /\ "server" \notin handlers[s] /\ OwnedBy(s) = {}
  BY <1>1, <1>2 DEF SocketsOK
<1>5. /\ clients' \in Seq(Socket) /\ IsInjective(clients')
      /\ ToSet(clients') = ToSet(clients) \cup {s}
  BY <1>1, <1>2, <1>4, AppendKeeps DEF ServerTypeOK
<1>6. /\ net' \in [Socket -> {"none", "open", "closing", "terminated", "closed"}]
      /\ handlers' \in [Socket -> SUBSET {"library", "server"}]
  <2>1. (IF httpOnly THEN {"library"} ELSE {"library", "server"}) \in SUBSET {"library", "server"}
    OBVIOUS
  <2>2. QED
    BY <1>1, <1>2, <2>1 DEF ServerTypeOK
<1>7. ServerTypeOK'
  BY <1>1, <1>2, <1>3, <1>5, <1>6 DEF ServerTypeOK
<1>8. SocketsOK'
  <2>1. ASSUME NEW o \in Socket
        PROVE  IF "server" \in handlers'[o] THEN net'[o] \in {"open", "terminated"} ELSE OwnedBy(o)' = {}
    <3>1. CASE o = s
      BY <1>1, <1>2, <1>3, <1>4, <3>1 DEF ServerTypeOK
    <3>2. CASE o # s
      BY <1>1, <1>2, <1>3, <3>2 DEF ServerTypeOK, SocketsOK
    <3>3. QED
      BY <3>1, <3>2
  <2>2. \A o \in ToSet(clients') : net'[o] # "none"
    BY <1>1, <1>2, <1>5 DEF ServerTypeOK, SocketsOK
  <2>3. QED
    BY <2>1, <2>2 DEF SocketsOK
<1>9. GivenOK'
  BY <1>1, <1>2, <1>3 DEF GivenOK, ServerTypeOK
<1>10. MessagesOK'
  BY <1>1, <1>2, <1>3 DEF MessagesOK
<1>11. QED
  BY <1>3, <1>7, <1>8, <1>9, <1>10, InvPartsNext

LEMMA HeartbeatKeeps ==
  ASSUME ServerInv, Heartbeat
  PROVE  ServerInv'
<1>1. /\ ListenersOK /\ ServerTypeOK /\ SocketsOK /\ GivenOK /\ MessagesOK
  BY InvParts
<1> DEFINE silent == {i \in DOMAIN clients : Silent(i)}
           before == {clients[i] : i \in {j \in DOMAIN clients : \A k \in silent : j < k}}
           first == {clients[i] : i \in {j \in silent : \A k \in silent : j <= k}}
<1>2. /\ UNCHANGED <<listenerVars, use, phase, httpOnly, clients, peer, handlers, msg, told>>
      /\ isAlive' = [s \in Socket |-> isAlive[s] /\ s \notin before]
      /\ pinged' = [s \in Socket |-> pinged[s] \/ (s \in before /\ net[s] = "open")]
      /\ net' = [s \in Socket |-> IF s \in first /\ net[s] # "closed" THEN "terminated" ELSE net[s]]
  BY DEF Heartbeat, rest
<1>3. first \subseteq ToSet(clients)
  BY DEF ToSet
<1> HIDE DEF before, first, silent
<1>4. ListenersOK' /\ UNCHANGED owner /\ \A o : OwnedBy(o)' = OwnedBy(o)
  BY <1>1, <1>2, ListenersStay DEF listenerVars
<1>5. \A s \in Socket : /\ net'[s] = net[s] \/ (net'[s] = "terminated" /\ net[s] # "closed")
                        /\ net'[s] # net[s] => s \in ToSet(clients)
  BY <1>1, <1>2, <1>3 DEF ServerTypeOK
<1>6. /\ net' \in [Socket -> {"none", "open", "closing", "terminated", "closed"}]
      /\ isAlive' \in [Socket -> BOOLEAN] /\ pinged' \in [Socket -> BOOLEAN]
  <2>1. net' \in [Socket -> {"none", "open", "closing", "terminated", "closed"}]
    BY <1>1, <1>2 DEF ServerTypeOK
  <2>2. isAlive' \in [Socket -> BOOLEAN]
    BY <1>2
  <2>3. pinged' \in [Socket -> BOOLEAN]
    BY <1>2
  <2>4. QED
    BY <2>1, <2>2, <2>3
<1>7. ServerTypeOK'
  BY <1>1, <1>2, <1>4, <1>6 DEF ServerTypeOK
<1>8. SocketsOK'
  BY <1>1, <1>2, <1>4, <1>5 DEF SocketsOK, ServerTypeOK, ToSet
<1>9. GivenOK'
  BY <1>1, <1>2, <1>4, <1>5 DEF GivenOK
<1>10. MessagesOK'
  BY <1>1, <1>2, <1>4 DEF MessagesOK
<1>11. QED
  BY <1>4, <1>7, <1>8, <1>9, <1>10, InvPartsNext

LEMMA OthersKeep ==
  ASSUME ServerInv,
         \/ ProcessStep
         \/ \E s \in Socket : PeerDies(s) \/ Pong(s)
         \/ UNCHANGED vars
  PROVE  ServerInv'
<1>1. /\ ListenersOK /\ ServerTypeOK /\ SocketsOK /\ GivenOK /\ MessagesOK
  BY InvParts
<1>2. /\ UNCHANGED <<listenerVars, use, httpOnly, clients, net, handlers, msg, told>>
      /\ phase' \in {"starting", "ready", "exited"}
      /\ isAlive' \in [Socket -> BOOLEAN] /\ peer' \in [Socket -> BOOLEAN] /\ pinged' \in [Socket -> BOOLEAN]
  <2>1. CASE ProcessStep
    BY <1>1, <2>1 DEF ProcessStep, IsReady, Exit, socketVars, ServerTypeOK
  <2>2. ASSUME NEW s \in Socket, PeerDies(s) PROVE <1>2
    BY <1>1, <2>2 DEF PeerDies, rest, ServerTypeOK
  <2>3. ASSUME NEW s \in Socket, Pong(s) PROVE <1>2
    BY <1>1, <2>3 DEF Pong, rest, ServerTypeOK
  <2>4. CASE UNCHANGED vars
    BY <1>1, <2>4 DEF vars, socketVars, ServerTypeOK
  <2>5. QED
    BY <2>1, <2>2, <2>3, <2>4
<1>3. ListenersOK' /\ UNCHANGED owner /\ \A o : OwnedBy(o)' = OwnedBy(o)
  BY <1>1, <1>2, ListenersStay DEF listenerVars
<1>4. ServerTypeOK'
  BY <1>1, <1>2, <1>3 DEF ServerTypeOK
<1>5. SocketsOK' /\ GivenOK' /\ MessagesOK'
  BY <1>1, <1>2, <1>3 DEF SocketsOK, GivenOK, MessagesOK
<1>6. QED
  BY <1>3, <1>4, <1>5, InvPartsNext

(* A removal outside of a walk, by the server. *)
LEMMA ServerRemoval ==
  ASSUME ListenersOK, NEW ids \in SUBSET (DOMAIN owner \ left), ~Walking,
         RemoveEventListeners(ids), UNCHANGED <<owner, task, detached, walk>>
  PROVE  ListenersOK' /\ \A o : OwnedBy(o)' = OwnedBy(o) \ ids
<1>1. ListenersTypeOK /\ ArraysOK /\ DetachedOK
  BY DEF ListenersOK
<1>2. /\ eventListeners' \in Arrays
      /\ left' \subseteq DOMAIN owner' /\ cut' \subseteq left'
      /\ ArraysOK' /\ DetachedOK'
      /\ \A o : OwnedBy(o)' = OwnedBy(o) \ ids
  BY <1>1, RemovalKeeps
<1>3. ListenersTypeOK'
  BY <1>1, <1>2 DEF ListenersTypeOK
<1>4. WalkOK'
  BY DEF WalkOK, Walking
<1>5. QED
  BY <1>2, <1>3, <1>4 DEF ListenersOK

(* However a socket goes, its listeners have gone by then. *)
LEMMA LeavingKeeps ==
  ASSUME ServerInv, NEW s \in Socket, Closed(s) \/ Errored(s)
  PROVE  ServerInv'
<1>1. /\ ListenersOK /\ ServerTypeOK /\ SocketsOK /\ GivenOK /\ MessagesOK
  BY InvParts
<1>2. /\ UNCHANGED <<owner, task, detached, walk, use, phase, httpOnly, isAlive, peer, pinged,
                     msg, told>>
      /\ ~Walking
      /\ net[s] # "none"
      /\ net' = [net EXCEPT ![s] = "closed"] \/ net' = [net EXCEPT ![s] = "closing"]
      /\ handlers' = [handlers EXCEPT ![s] = IF "server" \in @ THEN {} ELSE @]
      /\ clients' = clients \/ clients' = Without(clients, {s})
      /\ IF "server" \in handlers[s] THEN RemoveEventListeners(OwnedBy(s))
                                     ELSE UNCHANGED <<eventListeners, left, cut>>
  <2>1. CASE Closed(s)
    BY <2>1 DEF Closed, Running, rest, DropListeners
  <2>2. CASE Errored(s)
    BY <1>1, <2>2 DEF Errored, Running, rest, DropListeners, ServerTypeOK
  <2>3. QED
    BY <2>1, <2>2
<1>3. ListenersOK' /\ OwnedBy(s)' = {} /\ \A o : OwnedBy(o)' \subseteq OwnedBy(o)
  <2>1. CASE "server" \in handlers[s]
    <3>1. OwnedBy(s) \in SUBSET (DOMAIN owner \ left)
      BY DEF OwnedBy
    <3>2. ListenersOK' /\ \A o : OwnedBy(o)' = OwnedBy(o) \ OwnedBy(s)
      BY <1>1, <1>2, <2>1, <3>1, ServerRemoval
    <3>3. QED
      BY <3>2
  <2>2. CASE "server" \notin handlers[s]
    <3>1. UNCHANGED listenerVars
      BY <1>2, <2>2 DEF listenerVars
    <3>2. ListenersOK' /\ \A o : OwnedBy(o)' = OwnedBy(o)
      BY <1>1, <3>1, ListenersStay
    <3>3. OwnedBy(s) = {}
      BY <1>1, <2>2 DEF SocketsOK
    <3>4. QED
      BY <3>2, <3>3
  <2>3. QED
    BY <2>1, <2>2
<1>4. clients' \in Seq(Socket) /\ IsInjective(clients') /\ ToSet(clients') \subseteq ToSet(clients)
  <2>1. clients \in Seq(Socket) /\ IsInjective(clients)
    BY <1>1 DEF ServerTypeOK
  <2>2. /\ Without(clients, {s}) \in Seq(Socket) /\ IsInjective(Without(clients, {s}))
        /\ ToSet(Without(clients, {s})) \subseteq ToSet(clients)
    BY <2>1, WithoutKeeps
  <2>3. QED
    BY <1>2, <2>1, <2>2
<1>5. /\ net' \in [Socket -> {"none", "open", "closing", "terminated", "closed"}]
      /\ handlers' \in [Socket -> SUBSET {"library", "server"}]
  BY <1>1, <1>2 DEF ServerTypeOK
<1>6. ServerTypeOK'
  BY <1>1, <1>2, <1>4, <1>5 DEF ServerTypeOK
<1>7. \A o \in Socket : /\ net'[o] # "none" <=> net[o] # "none"
                        /\ o # s => net'[o] = net[o] /\ handlers'[o] = handlers[o]
                        /\ net'[o] = "open" => net[o] = "open"
                        /\ "server" \notin handlers'[s]
  BY <1>1, <1>2 DEF ServerTypeOK
<1>8. SocketsOK'
  <2>1. ASSUME NEW o \in Socket
        PROVE  IF "server" \in handlers'[o] THEN net'[o] \in {"open", "terminated"} ELSE OwnedBy(o)' = {}
    <3>1. CASE o = s
      BY <1>3, <1>7, <3>1
    <3>2. CASE o # s
      BY <1>1, <1>3, <1>7, <3>2 DEF SocketsOK
    <3>3. QED
      BY <3>1, <3>2
  <2>2. \A o \in ToSet(clients') : net'[o] # "none"
    <3>1. ToSet(clients) \subseteq Socket
      BY <1>1 DEF ServerTypeOK, ToSet
    <3>2. QED
      BY <1>1, <1>4, <1>7, <3>1 DEF SocketsOK
  <2>3. QED
    BY <2>1, <2>2 DEF SocketsOK
<1>9. GivenOK' /\ MessagesOK'
  BY <1>1, <1>2, <1>7 DEF GivenOK, MessagesOK
<1>10. QED
  BY <1>3, <1>6, <1>8, <1>9, InvPartsNext

LEMMA AnswerKeeps ==
  ASSUME ServerInv, NEW a \in Asker, NEW i, NEW answer \in {"result", "error"},
         QueryAnswered(a, i, answer)
  PROVE  ServerInv'
<1>1. /\ ListenersOK /\ ServerTypeOK /\ SocketsOK /\ GivenOK /\ MessagesOK
  BY InvParts
<1> DEFINE out == [msg[a].out EXCEPT ![i] = answer]
<1>2. /\ UNCHANGED <<listenerVars, use, phase, httpOnly, clients, net, isAlive, peer, pinged, handlers>>
      /\ \/ msg' = [msg EXCEPT ![a].out = out] /\ told' = told
         \/ /\ msg' = [msg EXCEPT ![a] = NoMsg] /\ told' \in {told, told \cup msg[a].ids}
            /\ a \in Socket /\ net[a] = "open" => told' = told \cup msg[a].ids
  BY DEF QueryAnswered, rest, socketVars, Reply
<1>3. ListenersOK' /\ UNCHANGED owner /\ \A o : OwnedBy(o)' = OwnedBy(o)
  BY <1>1, <1>2, ListenersStay DEF listenerVars
<1>4. out \in Seq({"pending", "result", "error"}) /\ msg[a] \in MsgState /\ NoMsg \in MsgState
  <2>1. msg[a] \in MsgState
    BY <1>1 DEF ServerTypeOK
  <2>2. msg[a].out \in Seq({"pending", "result", "error"}) /\ i \in DOMAIN msg[a].out
    BY <2>1 DEF MsgState, QueryAnswered
  <2>3. out \in Seq({"pending", "result", "error"})
    BY <2>2, ExceptSeq
  <2>4. NoMsg \in MsgState
    BY DEF MsgState, NoMsg
  <2>5. QED
    BY <2>1, <2>3, <2>4
<1> HIDE DEF out
<1>5. /\ msg' \in [Asker -> MsgState]
      /\ \A b \in Asker : msg'[b].ids \subseteq msg[b].ids
  <2>1. CASE msg' = [msg EXCEPT ![a].out = out]
    <3>1. [msg[a] EXCEPT !.out = out] \in MsgState /\ [msg[a] EXCEPT !.out = out].ids = msg[a].ids
      BY <1>4 DEF MsgState
    <3>2. QED
      BY <1>1, <2>1, <3>1 DEF ServerTypeOK
  <2>2. CASE msg' = [msg EXCEPT ![a] = NoMsg]
    BY <1>1, <1>4, <2>2 DEF ServerTypeOK, NoMsg
  <2>3. QED
    BY <1>2, <2>1, <2>2
<1>6. told' \subseteq DOMAIN owner /\ told \subseteq told'
  BY <1>1, <1>2 DEF ServerTypeOK, MessagesOK
<1>7. ServerTypeOK'
  BY <1>1, <1>2, <1>3, <1>5, <1>6 DEF ServerTypeOK
<1>8. SocketsOK'
  BY <1>1, <1>2, <1>3 DEF SocketsOK
<1>9. GivenOK'
  <2>1. ASSUME NEW l \in DOMAIN owner, owner[l] \in Socket, net[owner[l]] = "open"
        PROVE  l \in told' \cup msg'[owner[l]].ids
    <3>1. l \in told \cup msg[owner[l]].ids /\ owner[l] \in Asker
      BY <1>1, <2>1 DEF GivenOK, Asker
    <3>2. \/ msg'[owner[l]].ids = msg[owner[l]].ids
          \/ owner[l] = a /\ told' = told \cup msg[a].ids
      <4>1. CASE owner[l] # a
        BY <1>1, <1>2, <3>1, <4>1 DEF ServerTypeOK
      <4>2. CASE owner[l] = a /\ msg' = [msg EXCEPT ![a].out = out]
        BY <1>1, <1>4, <4>2 DEF ServerTypeOK, MsgState
      <4>3. QED
        BY <1>2, <2>1, <4>1, <4>2
    <3>3. QED
      BY <1>6, <3>1, <3>2
  <2>2. QED
    BY <1>1, <1>2, <1>3, <2>1 DEF GivenOK
<1>10. MessagesOK'
  BY <1>1, <1>3, <1>5 DEF MessagesOK
<1>11. QED
  BY <1>3, <1>7, <1>8, <1>9, <1>10, InvPartsNext

LEMMA NewsKeeps ==
  ASSUME ServerInv, NewsStep
  PROVE  ServerInv'
<1>1. /\ ListenersOK /\ ServerTypeOK /\ SocketsOK /\ GivenOK /\ MessagesOK
  BY InvParts
<1>2. /\ ListenerStep
      /\ UNCHANGED <<use, phase, httpOnly, clients, net, isAlive, peer, pinged, handlers, msg, told>>
  BY DEF NewsStep, rest, socketVars
<1>3. ListenersOK' /\ UNCHANGED owner /\ left \subseteq left'
  BY <1>1, <1>2, ListenerStepKeeps
<1>4. \A o : OwnedBy(o)' \subseteq OwnedBy(o)
  BY <1>3 DEF OwnedBy
<1>5. ServerTypeOK'
  BY <1>1, <1>2, <1>3 DEF ServerTypeOK
<1>6. SocketsOK' /\ GivenOK' /\ MessagesOK'
  BY <1>1, <1>2, <1>3, <1>4 DEF SocketsOK, GivenOK, MessagesOK
<1>7. QED
  BY <1>3, <1>5, <1>6, InvPartsNext

(* New listeners have identifiers that nobody had. *)
LEMMA AdditionKeeps ==
  ASSUME ListenersOK, ~Walking, NEW a \in Socket \cup {App}, NEW c \in Nat, NEW k \in Kind,
         NEW gone \in SUBSET (DOMAIN owner \ left),
         Len(owner) + c <= MaxListeners,
         owner' = owner \o [n \in 1 .. c |-> a],
         eventListeners' = [j \in Kind |->
           Without(eventListeners[j], gone)
             \o (IF j = k THEN [n \in 1 .. c |-> Len(owner) + n] ELSE <<>>)],
         left' = left \cup gone, UNCHANGED <<cut, task, detached, walk>>
  PROVE  /\ ListenersOK'
         /\ DOMAIN owner \subseteq DOMAIN owner'
         /\ \A l \in DOMAIN owner : owner'[l] = owner[l]
         /\ \A l \in DOMAIN owner' \ DOMAIN owner : owner'[l] = a
         /\ \A o : o # a => OwnedBy(o)' \subseteq OwnedBy(o)
<1> DEFINE ids == [n \in 1 .. c |-> Len(owner) + n]
           as == [n \in 1 .. c |-> a]
<1>1. /\ ListenersTypeOK /\ ArraysOK /\ DetachedOK
      /\ eventListeners \in [Kind -> Seq(Listener)]
      /\ owner \in Seq(Socket \cup {App}) /\ Len(owner) <= MaxListeners
      /\ left \subseteq DOMAIN owner /\ cut \subseteq left
  BY DEF ListenersOK, ListenersTypeOK, Arrays
<1>2. Len(owner) \in Nat /\ DOMAIN owner = 1 .. Len(owner) /\ MaxListeners \in Nat
  BY <1>1, ListenersAssumption
<1>3. as \in Seq(Socket \cup {App}) /\ Len(as) = c
  <2>1. as \in [1 .. c -> Socket \cup {App}]
    OBVIOUS
  <2>2. QED
    BY <2>1, SeqDef, LenProperties
<1>4. /\ ids \in Seq(Listener) /\ IsInjective(ids)
      /\ ToSet(ids) = (Len(owner) + 1) .. (Len(owner) + c)
  <2>1. ids \in [1 .. c -> Listener]
    BY <1>2 DEF Listener
  <2>2. ids \in Seq(Listener)
    BY <2>1, SeqDef
  <2>3. \A m, n \in 1 .. c : ids[m] = ids[n] => m = n
    BY <1>2
  <2>4. IsInjective(ids)
    BY <2>3 DEF IsInjective
  <2>5. ToSet(ids) = (Len(owner) + 1) .. (Len(owner) + c)
    <3>1. \A n \in 1 .. c : ids[n] \in (Len(owner) + 1) .. (Len(owner) + c)
      BY <1>2
    <3>2. \A x \in (Len(owner) + 1) .. (Len(owner) + c) :
            x - Len(owner) \in 1 .. c /\ ids[x - Len(owner)] = x
      BY <1>2
    <3>3. DOMAIN ids = 1 .. c
      OBVIOUS
    <3> HIDE DEF ids
    <3>4. QED
      BY <3>1, <3>2, <3>3 DEF ToSet
  <2>6. QED
    BY <2>2, <2>4, <2>5
<1>5. /\ owner' \in Seq(Socket \cup {App}) /\ Len(owner') = Len(owner) + c
      /\ DOMAIN owner' = 1 .. (Len(owner) + c)
      /\ \A l \in 1 .. Len(owner) : owner'[l] = owner[l]
      /\ \A l \in (Len(owner) + 1) .. (Len(owner) + c) : owner'[l] = a
  <2> HIDE DEF as
  <2>1. /\ owner' = owner \o as
        /\ owner' \in Seq(Socket \cup {App}) /\ Len(owner') = Len(owner) + c
        /\ \A l \in 1 .. (Len(owner) + c) :
             owner'[l] = IF l <= Len(owner) THEN owner[l] ELSE as[l - Len(owner)]
    BY <1>1, <1>3, ConcatProperties DEF as
  <2>2. DOMAIN owner' = 1 .. (Len(owner) + c)
    BY <2>1, LenProperties
  <2>3. \A l \in 1 .. Len(owner) : owner'[l] = owner[l]
    BY <1>2, <2>1
  <2>4. ASSUME NEW l \in (Len(owner) + 1) .. (Len(owner) + c) PROVE owner'[l] = a
    <3>1. l \in 1 .. (Len(owner) + c) /\ ~(l <= Len(owner)) /\ l - Len(owner) \in 1 .. c
      BY <1>2
    <3>2. owner'[l] = as[l - Len(owner)]
      BY <2>1, <3>1
    <3>3. QED
      BY <3>1, <3>2 DEF as
  <2>5. QED
    BY <2>1, <2>2, <2>3, <2>4
<1> HIDE DEF ids, as
<1>6. ASSUME NEW j \in Kind
      PROVE  /\ eventListeners'[j] \in Seq(Listener)
             /\ IsInjective(eventListeners'[j])
             /\ ToSet(eventListeners'[j]) \subseteq DOMAIN owner' \ left'
  <2> DEFINE old == Without(eventListeners[j], gone)
             new == IF j = k THEN ids ELSE <<>>
  <2>1. /\ old \in Seq(Listener) /\ IsInjective(old)
        /\ ToSet(old) \subseteq DOMAIN owner \ (left \cup gone)
    <3>1. /\ eventListeners[j] \in Seq(Listener) /\ IsInjective(eventListeners[j])
          /\ ToSet(eventListeners[j]) \subseteq DOMAIN owner \ left
      BY <1>1 DEF ArraysOK
    <3>2. QED
      BY <3>1, WithoutKeeps
  <2>2. /\ new \in Seq(Listener) /\ IsInjective(new)
        /\ ToSet(new) \subseteq (Len(owner) + 1) .. (Len(owner) + c)
    <3>1. <<>> \in Seq(Listener) /\ IsInjective(<<>>) /\ ToSet(<<>>) = {}
      BY DEF IsInjective, ToSet
    <3>2. QED
      BY <1>4, <3>1
  <2>3. eventListeners'[j] = old \o new
    BY DEF ids
  <2> HIDE DEF old, new
  <2>4. ToSet(old) \cap ToSet(new) = {}
    BY <1>2, <2>1, <2>2
  <2>5. /\ eventListeners'[j] \in Seq(Listener) /\ IsInjective(eventListeners'[j])
        /\ ToSet(eventListeners'[j]) = ToSet(old) \cup ToSet(new)
    <3>1. /\ old \o new \in Seq(Listener) /\ IsInjective(old \o new)
          /\ ToSet(old \o new) = ToSet(old) \cup ToSet(new)
      <4>1. old \in Seq(Listener) /\ new \in Seq(Listener)
        BY <2>1, <2>2
      <4>2. IsInjective(old) /\ IsInjective(new)
        BY <2>1, <2>2
      <4> HIDE <2>1, <2>2
      <4>3. QED
        BY <2>4, <4>1, <4>2, ConcatKeeps
    <3>2. QED
      BY <2>3, <3>1, Zenon
  <2>6. \A l \in ToSet(new) : l \in DOMAIN owner' /\ l \notin DOMAIN owner
    BY <1>2, <1>5, <2>2
  <2>7. DOMAIN owner \subseteq DOMAIN owner'
    BY <1>2, <1>5
  <2>8. QED
    BY <1>1, <2>1, <2>5, <2>6, <2>7
<1>7. ListenersTypeOK'
  <2>1. eventListeners' \in Arrays
    <3>1. eventListeners' \in [Kind -> Seq(Listener)]
      BY <1>6
    <3>2. QED
      BY <3>1 DEF Arrays
  <2>2. DOMAIN owner \subseteq DOMAIN owner'
    BY <1>2, <1>5
  <2>3. QED
    BY <1>1, <1>5, <2>1, <2>2 DEF ListenersTypeOK
<1>8. ArraysOK'
  BY <1>6 DEF ArraysOK
<1>9. DetachedOK' /\ WalkOK'
  BY <1>1 DEF DetachedOK, WalkOK, Walking
<1>10. /\ DOMAIN owner \subseteq DOMAIN owner'
       /\ \A l \in DOMAIN owner : owner'[l] = owner[l]
       /\ \A l \in DOMAIN owner' \ DOMAIN owner : owner'[l] = a
  BY <1>2, <1>5
<1>11. \A o : o # a => OwnedBy(o)' \subseteq OwnedBy(o)
  BY <1>10 DEF OwnedBy
<1>12. QED
  BY <1>7, <1>8, <1>9, <1>10, <1>11 DEF ListenersOK

LEMMA AppKeeps ==
  ASSUME ServerInv, AppListens
  PROVE  ServerInv'
<1>1. /\ ListenersOK /\ ServerTypeOK /\ SocketsOK /\ GivenOK /\ MessagesOK
      /\ ListenersTypeOK /\ ArraysOK /\ DetachedOK
      /\ eventListeners \in [Kind -> Seq(Listener)]
      /\ owner \in Seq(Socket \cup {App}) /\ Len(owner) <= MaxListeners
      /\ left \subseteq DOMAIN owner /\ cut \subseteq left
  BY InvParts DEF ListenersOK, ListenersTypeOK, Arrays
<1>2. PICK k \in Kind : AddEventListener(k, App)
  BY DEF AppListens
<1>3. /\ ~Walking /\ Len(owner) < MaxListeners
      /\ owner' = Append(owner, App)
      /\ eventListeners' = [eventListeners EXCEPT ![k] = Append(@, Len(owner) + 1)]
      /\ UNCHANGED <<left, cut, task, detached, walk, use, phase, httpOnly, clients, net, isAlive,
                     peer, pinged, handlers, msg, told>>
  BY <1>2 DEF AppListens, AddEventListener, rest, socketVars
<1>4. Len(owner) \in Nat /\ DOMAIN owner = 1 .. Len(owner) /\ MaxListeners \in Nat
  BY <1>1, ListenersAssumption
<1>5. /\ owner' \in Seq(Socket \cup {App}) /\ Len(owner') = Len(owner) + 1
      /\ DOMAIN owner' = 1 .. (Len(owner) + 1)
      /\ \A l \in 1 .. Len(owner) : owner'[l] = owner[l]
      /\ owner'[Len(owner) + 1] = App
  BY <1>1, <1>3, <1>4
<1>6. Len(owner) + 1 \in Listener /\ Len(owner) + 1 \notin DOMAIN owner
  BY <1>3, <1>4 DEF Listener
<1>7. ASSUME NEW j \in Kind
      PROVE  /\ eventListeners'[j] \in Seq(Listener)
             /\ IsInjective(eventListeners'[j])
             /\ ToSet(eventListeners'[j]) \subseteq DOMAIN owner' \ left'
  <2>1. /\ eventListeners[j] \in Seq(Listener) /\ IsInjective(eventListeners[j])
        /\ ToSet(eventListeners[j]) \subseteq DOMAIN owner \ left
    BY <1>1 DEF ArraysOK
  <2>2. CASE j = k
    <3>1. eventListeners'[j] = Append(eventListeners[j], Len(owner) + 1)
      BY <1>1, <1>3, <2>2
    <3>2. /\ eventListeners'[j] \in Seq(Listener) /\ IsInjective(eventListeners'[j])
          /\ ToSet(eventListeners'[j]) = ToSet(eventListeners[j]) \cup {Len(owner) + 1}
      BY <1>6, <2>1, <3>1, AppendKeeps
    <3>3. QED
      BY <1>1, <1>3, <1>4, <1>5, <1>6, <2>1, <3>2
  <2>3. CASE j # k
    BY <1>1, <1>3, <1>4, <1>5, <2>1, <2>3
  <2>4. QED
    BY <2>2, <2>3
<1>8. ListenersOK'
  <2>1. eventListeners' \in Arrays
    BY <1>1, <1>3, <1>7 DEF Arrays
  <2>2. DOMAIN owner \subseteq DOMAIN owner'
    BY <1>4, <1>5
  <2>3. ListenersTypeOK'
    BY <1>1, <1>3, <1>4, <1>5, <2>1, <2>2 DEF ListenersTypeOK
  <2>4. ArraysOK' /\ DetachedOK' /\ WalkOK'
    BY <1>1, <1>3, <1>7 DEF ArraysOK, DetachedOK, WalkOK, Walking
  <2>5. QED
    BY <2>3, <2>4 DEF ListenersOK
<1>9. /\ DOMAIN owner \subseteq DOMAIN owner' /\ App \notin Socket
      /\ \A l \in DOMAIN owner : owner'[l] = owner[l]
      /\ \A l \in DOMAIN owner' \ DOMAIN owner : owner'[l] = App
  BY <1>4, <1>5, ListenersAssumption
<1>10. \A o \in Socket : OwnedBy(o)' \subseteq OwnedBy(o)
  BY <1>3, <1>9 DEF OwnedBy
<1>11. ServerTypeOK'
  BY <1>1, <1>3, <1>9 DEF ServerTypeOK
<1>12. SocketsOK' /\ GivenOK' /\ MessagesOK'
  BY <1>1, <1>3, <1>9, <1>10 DEF SocketsOK, GivenOK, MessagesOK
<1>13. QED
  BY <1>8, <1>11, <1>12, InvPartsNext

(* What the subscriptions of a message do to the listeners. *)
LEMMA SubscribedKeeps ==
  ASSUME ListenersOK, ~Walking, NEW a \in Socket, NEW calls \in Seq(Call),
         Subscribed(a, calls), UNCHANGED <<task, detached, walk>>
  PROVE  /\ ListenersOK'
         /\ DOMAIN owner \subseteq DOMAIN owner'
         /\ \A l \in DOMAIN owner : owner'[l] = owner[l]
         /\ \A l \in DOMAIN owner' \ DOMAIN owner : owner'[l] = a
         /\ \A o : o # a => OwnedBy(o)' \subseteq OwnedBy(o)
<1> DEFINE c == Cardinality({i \in DOMAIN calls : calls[i] = "subscribe"})
<1>1. c \in Nat
  <2>1. DOMAIN calls = 1 .. Len(calls) /\ Len(calls) \in Nat
    BY LenProperties
  <2>2. IsFiniteSet(DOMAIN calls)
    BY <2>1, FS_Interval
  <2>3. IsFiniteSet({i \in DOMAIN calls : calls[i] = "subscribe"})
    BY <2>2, FS_Subset
  <2>4. QED
    BY <2>3, FS_CardinalityType
<1>2. Cardinality(1 .. c) = c
  <2> HIDE DEF c
  <2>1. 1 \in Int /\ c \in Int /\ (IF 1 > c THEN 0 ELSE c - 1 + 1) = c
    BY <1>1
  <2>2. QED
    BY <2>1, FS_Interval
<1>3. PICK k \in Kind, gone \in {{}} \cup {{l} : l \in OwnedBy(a) \cap told} :
        /\ Len(owner) + Cardinality(1 .. c) <= MaxListeners
        /\ owner' = owner \o [n \in 1 .. c |-> a]
        /\ eventListeners' = [j \in Kind |->
             Without(eventListeners[j], gone)
               \o (IF j = k THEN [n \in 1 .. c |-> Len(owner) + n] ELSE <<>>)]
        /\ left' = left \cup gone
        /\ UNCHANGED cut
  BY Zenon DEF Subscribed
<1> HIDE DEF c
<1>4. gone \in SUBSET (DOMAIN owner \ left)
  BY <1>3 DEF OwnedBy
<1>5. Len(owner) + c <= MaxListeners /\ k \in Kind /\ a \in Socket \cup {App}
  BY <1>2, <1>3
<1>6. QED
  BY <1>1, <1>3, <1>4, <1>5, AdditionKeeps

LEMMA OutcomesTyped ==
  ASSUME NEW a, NEW calls \in Seq(Call)
  PROVE  Outcomes(a, calls) \in Seq({"pending", "result", "error"})
<1>1. Outcomes(a, calls) \in [DOMAIN calls -> {"pending", "result", "error"}]
  BY DEF Outcomes
<1>2. DOMAIN calls = 1 .. Len(calls) /\ Len(calls) \in Nat
  BY LenProperties
<1>3. QED
  BY <1>1, <1>2, SeqDef

(* Who subscribes in a message is told at once, or with the others' reply. *)
LEMMA MessageKeeps ==
  ASSUME ServerInv, NEW a \in Asker, NEW calls \in Messages, Message(a, calls)
  PROVE  ServerInv'
<1>1. /\ ListenersOK /\ ServerTypeOK /\ SocketsOK /\ GivenOK /\ MessagesOK
  BY InvParts
<1>2. /\ ~Walking /\ Hears(a) /\ calls \in Seq(Call) /\ msg[a] = NoMsg
      /\ UNCHANGED <<use, httpOnly, clients, net, isAlive, peer, pinged, handlers,
                     task, detached, walk>>
  BY ServerAssumption DEF Message, Running, socketVars
<1>3. CASE Refused(calls) \/ Broken(a, calls)
  <2>1. /\ UNCHANGED <<listenerVars, msg, told>>
        /\ phase' \in {phase, "exited"}
    BY <1>2, <1>3 DEF Refused, Broken, listenerVars
  <2>2. ListenersOK' /\ UNCHANGED owner /\ \A o : OwnedBy(o)' = OwnedBy(o)
    BY <1>1, <2>1, ListenersStay DEF listenerVars
  <2>3. ServerTypeOK'
    BY <1>1, <1>2, <2>1, <2>2 DEF ServerTypeOK
  <2>4. SocketsOK' /\ GivenOK' /\ MessagesOK'
    BY <1>1, <1>2, <2>1, <2>2 DEF SocketsOK, GivenOK, MessagesOK
  <2>5. QED
    BY <2>2, <2>3, <2>4, InvPartsNext
<1>4. CASE Accepted(a, calls)
  <2>1. IF a \in Socket THEN Subscribed(a, calls) ELSE UNCHANGED <<owner, eventListeners, left, cut>>
    BY <1>4 DEF Accepted
  <2> DEFINE m == [out |-> Outcomes(a, calls), ids |-> NewIds]
  <2>2. /\ UNCHANGED phase
        /\ \/ msg' = [msg EXCEPT ![a] = m] /\ told' = told
           \/ Reply(a, NewIds) /\ UNCHANGED msg
    BY <1>4 DEF Accepted
  <2>3. /\ ListenersOK'
        /\ DOMAIN owner \subseteq DOMAIN owner'
        /\ \A l \in DOMAIN owner : owner'[l] = owner[l]
        /\ \A l \in NewIds : a \in Socket /\ owner'[l] = a
        /\ \A o : o # a \/ a \notin Socket => OwnedBy(o)' \subseteq OwnedBy(o)
    <3>1. CASE a \in Socket
      BY <1>1, <1>2, <2>1, <3>1, SubscribedKeeps DEF NewIds
    <3>2. CASE a \notin Socket
      <4>1. UNCHANGED listenerVars
        BY <1>2, <2>1, <3>2 DEF listenerVars
      <4>2. ListenersOK' /\ \A o : OwnedBy(o)' = OwnedBy(o)
        BY <1>1, <4>1, ListenersStay
      <4>3. QED
        BY <3>2, <4>1, <4>2 DEF listenerVars, NewIds
    <3>3. QED
      BY <3>1, <3>2
  <2>4. NewIds \subseteq DOMAIN owner' /\ DOMAIN owner' \subseteq Listener
    <3>1. owner' \in Seq(Socket \cup {App}) /\ Len(owner') <= MaxListeners
      BY <2>3 DEF ListenersOK, ListenersTypeOK
    <3>2. DOMAIN owner' = 1 .. Len(owner') /\ Len(owner') \in Nat /\ MaxListeners \in Nat
      BY <3>1, LenProperties, ListenersAssumption
    <3>3. QED
      BY <3>1, <3>2 DEF NewIds, Listener
  <2>5. /\ a \in Socket => net[a] \in {"open", "terminated"}
        /\ told \subseteq told' /\ told' \subseteq DOMAIN owner'
    <3>1. a \in Socket => net[a] \in {"open", "terminated"}
      BY <1>1, <1>2, ServerAssumption DEF Hears, SocketsOK
    <3>2. QED
      BY <1>1, <2>2, <2>3, <2>4, <3>1 DEF Reply, ServerTypeOK
  <2>6. m \in MsgState /\ m.ids = NewIds
    BY <1>2, <2>4, OutcomesTyped DEF MsgState
  <2> HIDE DEF m
  <2>7. /\ msg' \in [Asker -> MsgState]
        /\ \A b \in Asker : msg'[b].ids \subseteq DOMAIN owner'
        /\ \A b \in Asker \ {a} : msg'[b] = msg[b]
        /\ a \in Socket /\ net[a] = "open" => NewIds \subseteq told' \cup msg'[a].ids
    BY <1>1, <2>2, <2>3, <2>4, <2>6 DEF ServerTypeOK, MessagesOK, Reply
  <2>8. ServerTypeOK'
    BY <1>1, <1>2, <2>2, <2>5, <2>7 DEF ServerTypeOK
  <2>9. SocketsOK'
    <3>1. ASSUME NEW s \in Socket
          PROVE  IF "server" \in handlers[s] THEN net[s] \in {"open", "terminated"} ELSE OwnedBy(s)' = {}
      <4>1. CASE s = a
        BY <1>1, <1>2, <4>1, ServerAssumption DEF Hears, SocketsOK
      <4>2. CASE s # a
        BY <1>1, <2>3, <4>2 DEF SocketsOK
      <4>3. QED
        BY <4>1, <4>2
    <3>2. QED
      BY <1>1, <1>2, <3>1 DEF SocketsOK
  <2>10. GivenOK'
    <3>1. ASSUME NEW l \in DOMAIN owner', owner'[l] \in Socket
          PROVE  /\ net[owner'[l]] # "none"
                 /\ net[owner'[l]] = "open" => l \in told' \cup msg'[owner'[l]].ids
      <4>1. CASE l \in DOMAIN owner /\ owner[l] = a
        <5>1. owner'[l] = a /\ net[a] # "none" /\ (net[a] = "open" => l \in told)
          BY <1>1, <1>2, <2>3, <3>1, <4>1 DEF GivenOK, NoMsg
        <5>2. QED
          BY <2>5, <5>1
      <4>2. CASE l \in DOMAIN owner /\ owner[l] # a
        <5>1. owner'[l] = owner[l] /\ owner[l] \in Asker \ {a}
          BY <2>3, <3>1, <4>2 DEF Asker
        <5>2. msg'[owner[l]] = msg[owner[l]]
          BY <2>7, <5>1
        <5>3. /\ net[owner[l]] # "none"
              /\ net[owner[l]] = "open" => l \in told \cup msg[owner[l]].ids
          BY <1>1, <3>1, <4>2, <5>1 DEF GivenOK
        <5>4. QED
          BY <2>5, <5>1, <5>2, <5>3
      <4>3. CASE l \notin DOMAIN owner
        <5>1. l \in NewIds /\ owner'[l] = a /\ a \in Socket
          BY <2>3, <3>1, <4>3 DEF NewIds
        <5>2. QED
          BY <2>5, <2>7, <5>1
      <4>4. QED
        BY <4>1, <4>2, <4>3
    <3>2. QED
      BY <1>2, <3>1 DEF GivenOK
  <2>11. MessagesOK'
    BY <2>7 DEF MessagesOK
  <2>12. QED
    BY <2>3, <2>8, <2>9, <2>10, <2>11, InvPartsNext
<1>5. QED
  BY <1>3, <1>4 DEF Message

-----------------------------------------------------------------------------
LEMMA ServerInvStays == ServerInv /\ [Next]_vars => ServerInv'
<1> SUFFICES ASSUME ServerInv, [Next]_vars PROVE ServerInv'
  OBVIOUS
<1>1. CASE ProcessStep \/ UNCHANGED vars
  BY <1>1, OthersKeep
<1>2. CASE SocketStep
  <2>1. ASSUME NEW s \in Socket, Connection(s) PROVE ServerInv'
    BY <2>1, ConnectionKeeps
  <2>2. ASSUME NEW s \in Socket, PeerDies(s) \/ Pong(s) PROVE ServerInv'
    BY <2>2, OthersKeep
  <2>3. ASSUME NEW s \in Socket, Closed(s) \/ Errored(s) PROVE ServerInv'
    BY <2>3, LeavingKeeps
  <2>4. QED
    BY <1>2, <2>1, <2>2, <2>3, HeartbeatKeeps DEF SocketStep
<1>3. CASE MessageStep
  <2>1. ASSUME NEW a \in Asker, NEW calls \in Messages, Message(a, calls) PROVE ServerInv'
    BY <2>1, MessageKeeps
  <2>2. ASSUME NEW a \in Asker, NEW i \in 1 .. BatchSize, NEW answer \in {"result", "error"},
               QueryAnswered(a, i, answer)
        PROVE  ServerInv'
    BY <2>2, AnswerKeeps
  <2>3. QED
    BY <1>3, <2>1, <2>2 DEF MessageStep
<1>4. CASE AppListens
  BY <1>4, AppKeeps
<1>5. CASE NewsStep
  BY <1>5, NewsKeeps
<1>6. QED
  BY <1>1, <1>2, <1>3, <1>4, <1>5 DEF Next

(* Listeners, sockets, messages and the walk of a head stay as ServerInv   *)
(* says, in whatever order connections, calls, removals and new heads come *)
(* in server.ts, eip1193-bridge.ts and base-provider.ts.                   *)
THEOREM ServerInvariant == Spec => []ServerInv
<1>1. Init => ServerInv
  BY InitKeeps
<1>2. ServerInv /\ [Next]_vars => ServerInv'
  BY ServerInvStays
<1>3. QED
  BY <1>1, <1>2, PTL DEF Spec

(* Every variable of the server and of the listeners keeps its type: no    *)
(* socket is twice among wss.clients, no task holds two replaced arrays.   *)
THEOREM ServerTypeCorrect == Spec => []TypeOK
<1>1. ServerInv => TypeOK
  BY DEF ServerInv
<1>2. QED
  BY <1>1, ServerInvariant, PTL

(* However a connection ends, after 'close' or 'error' the provider has    *)
(* none of its listeners left, although the same event takes away the      *)
(* handlers that remove them.                                              *)
THEOREM NoListenerStrays == Spec => []NoStrayListener
<1>1. ServerInv => NoStrayListener
  <2> SUFFICES ASSUME ServerInv, NEW s \in Socket, NEW k \in Kind, net[s] \notin {"open", "terminated"},
                      NEW l \in ToSet(eventListeners[k])
               PROVE  owner[l] # s
    BY DEF NoStrayListener
  <2>1. l \in DOMAIN owner \ left
    BY DEF ServerInv, ArraysOK
  <2>2. OwnedBy(s) = {}
    BY DEF ServerInv, SocketsOK
  <2>3. QED
    BY <2>1, <2>2 DEF OwnedBy
<1>2. QED
  BY <1>1, ServerInvariant, PTL

(* On every open connection each listener's identifier was sent, or is in  *)
(* the reply to the message in work, whichever calls of its batch fail.    *)
THEOREM IdentifiersGiven == Spec => []IdentifiersAreGiven
<1>1. ServerInv => IdentifiersAreGiven
  BY DEF ServerInv, GivenOK, IdentifiersAreGiven
<1>2. QED
  BY <1>1, ServerInvariant, PTL

(* A forEach over listeners that come and go calls nobody twice and nobody *)
(* who has left, and misses only who stood behind one that was removed.    *)
THEOREM HeadsReach == Spec => []HeadsReachListeners
<1>1. ServerInv => HeadsReachListeners
  <2> SUFFICES ASSUME ServerInv, Walking PROVE HeadsReachListeners
    BY DEF HeadsReachListeners
  <2> DEFINE here == ArrayOf(walk.task, Head(walk.kinds))
             held == detached[walk.task] # {}
  <2>1. GoodWalk(walk, here, held)
    BY DEF ServerInv, WalkOK
  <2>2. here \in Seq(Listener)
    <3>1. walk \in WalkState /\ walk.kinds # <<>>
      BY <2>1 DEF GoodWalk
    <3>2. walk.task \in Task /\ walk.kinds \in Seq(Kind)
      BY <3>1 DEF WalkState
    <3>3. walk.task \in Task /\ Head(walk.kinds) \in Kind
      BY <3>1, <3>2
    <3>4. QED
      BY <3>3, ArrayFacts DEF ServerInv, TypeOK
  <2> HIDE DEF here, held
  <2>3. walk.at = walk.len => Ahead(walk, here) = {}
    <3>1. DOMAIN here = 1 .. Len(here) /\ Len(here) \in Nat /\ walk.at \in Nat
      BY <2>1, <2>2, LenProperties DEF GoodWalk, WalkState
    <3>2. QED
      BY <2>1, <3>1 DEF Ahead, GoodWalk
  <2>4. QED
    BY <2>1, <2>3 DEF GoodWalk, HeadsReachListeners
<1>2. QED
  BY <1>1, ServerInvariant, PTL
=============================================================================
