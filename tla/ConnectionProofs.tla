--------------------------- MODULE ConnectionProofs ---------------------------
(***************************************************************************)
(* What holds of kanchi's two connections, for any number of clients,      *)
(* events, tasks and retries.                                              *)
(*                                                                         *)
(* To its clients (ConnectionManager): whatever they do while an event is  *)
(* sent to one after the other, each gets the events in order, and is      *)
(* passed over only for the departure of another.  The invariant tells     *)
(* where the iterator stands in the list: who it has not reached was not   *)
(* sent the event, and behind it are no more places of clients that it has *)
(* not dealt with than clients that left.                                  *)
(*                                                                         *)
(* To the broker (Monitor): the delay stays between its bounds, and the    *)
(* gauges never show more tasks than the worker holds, unless an event has *)
(* passed them by.                                                         *)
(***************************************************************************)
EXTENDS ConnectionManager, Monitor, TLAPS, FiniteSetTheorems, SequenceTheorems,
        WellFoundedInduction

LiveTypeOK ==
    /\ active \in Seq(Clients)
    /\ filters \in [Clients -> Filters \cup {{}, None}]
    /\ modes \in [Clients -> {"live", "static", None}]
    /\ queue \in Seq(Event)
    /\ cast \in [pc : {"off", "idle", "each"}, event : Event \cup {None}, at : Nat,
                 failed : SUBSET Clients]
    /\ cast.pc = "each" => cast.event \in Event /\ cast.at >= 1
    /\ cast.pc # "each" => cast.at = 0
    /\ handler \in [Clients -> {"none", "serving", "ended", "crashed"}]
    /\ open \subseteq Clients /\ queued \in 0..MaxEvents /\ requests \in Nat
    /\ got \in [Clients -> Seq(Nat)] /\ passed \subseteq Clients /\ left \in Nat

\* No client is in the list twice.
ListedOnce == \A i, j \in DOMAIN active : active[i] = active[j] => i = j

\* The events come from the queue in the order of their numbers.
QueueInv ==
    /\ \A i \in DOMAIN queue : queue[i].no <= queued
    /\ \A i, j \in DOMAIN queue : i < j => queue[i].no < queue[j].no
    /\ cast.pc = "each" => /\ cast.event.no <= queued
                           /\ \A i \in DOMAIN queue : cast.event.no < queue[i].no

\* What a client was sent is older than the queue and no newer than the event being
\* broadcast, which none of the clients before the iterator was sent.
SentInv ==
    /\ \A c \in Clients : \A i \in DOMAIN got[c] :
         /\ handler[c] # "none"
         /\ got[c][i] <= queued
         /\ \A j \in DOMAIN queue : got[c][i] < queue[j].no
         /\ cast.pc = "each" => got[c][i] <= cast.event.no
    /\ cast.pc = "each" => \A k \in DOMAIN active : k >= cast.at =>
         \A i \in DOMAIN got[active[k]] : got[active[k]][i] < cast.event.no

\* The places behind the iterator without a client that was dealt with, those beyond the
\* end of the list included.
Behind == {i \in 1..(cast.at - 1) : i \in DOMAIN active => active[i] \notin passed}
BehindInv == Cardinality(Behind) <= left

LiveInv ==
    /\ LiveTypeOK /\ ListedOnce /\ RegistryFollowsHandlers
    /\ QueueInv /\ SentInv /\ ReceivedInOrder /\ BehindInv

-----------------------------------------------------------------------------
(* The list. *)

\* What is kept of a list is what stands at some places of it, each place once.
LEMMA WithoutPlaces ==
  ASSUME NEW list \in Seq(Clients), NEW cs
  PROVE  \E n \in Nat : \E place \in [1..n -> DOMAIN list] :
           /\ Without(list, cs) = [k \in 1..n |-> list[place[k]]]
           /\ \A k \in 1..n : list[place[k]] \notin cs
           /\ \A k, l \in 1..n : place[k] = place[l] => k = l
<1> DEFINE kept == {i \in DOMAIN list : list[i] \notin cs}
           n == Cardinality(kept)
           upTo(i) == {j \in kept : j <= i}
           rank == [i \in kept |-> Cardinality(upTo(i))]
           place == [k \in 1..n |-> CHOOSE i \in kept : Cardinality(upTo(i)) = k]
<1>1. DOMAIN list = 1..Len(list) /\ Len(list) \in Nat
  BY LenProperties
<1>2. IsFiniteSet(kept) /\ n \in Nat
  <2>1. IsFiniteSet(1..Len(list))
    BY <1>1, FS_Interval
  <2> QED BY <1>1, <2>1, FS_Subset, FS_CardinalityType
<1>3. \A i \in kept : IsFiniteSet(upTo(i)) /\ rank[i] \in 1..n
  <2> TAKE i \in kept
  <2>1. upTo(i) \in SUBSET kept
    OBVIOUS
  <2>2. IsFiniteSet(upTo(i)) /\ Cardinality(upTo(i)) <= n /\ Cardinality(upTo(i)) \in Nat
    BY <1>2, <2>1, FS_Subset, FS_CardinalityType
  <2>3. i \in upTo(i)
    BY <1>1
  <2>4. Cardinality(upTo(i)) # 0
    BY <2>2, <2>3, FS_EmptySet
  <2> QED BY <1>2, <2>2, <2>4
<1>4. \A i, j \in kept : i < j => rank[i] # rank[j]
  <2> SUFFICES ASSUME NEW i \in kept, NEW j \in kept, i < j, rank[i] = rank[j]
               PROVE  FALSE
    OBVIOUS
  <2>1. upTo(i) \in SUBSET upTo(j)
    BY <1>1
  <2>2. upTo(i) = upTo(j)
    BY <1>3, <2>1, FS_Subset
  <2>3. j \in upTo(j) /\ j \notin upTo(i)
    BY <1>1
  <2> QED BY <2>2, <2>3
<1>5. rank \in Injection(kept, 1..n)
  <2>1. \A i, j \in kept : i # j => i < j \/ j < i
    BY <1>1
  <2>2. rank \in [kept -> 1..n]
    BY <1>3
  <2>3. \A i, j \in kept : rank[i] = rank[j] => i = j
    BY <1>4, <2>1
  <2> HIDE DEF rank, kept
  <2> QED BY <2>2, <2>3 DEF Injection, IsInjective
<1>6. \A k \in 1..n : \E i \in kept : rank[i] = k
  <2>1. IsFiniteSet(1..n) /\ Cardinality(1..n) = n
    BY <1>2, FS_Interval
  <2>2. rank \in Surjection(kept, 1..n)
    BY <1>5, <2>1, FS_Injection
  <2> QED BY <2>2 DEF Surjection
<1>7. \A k \in 1..n : place[k] \in kept /\ Cardinality(upTo(place[k])) = k
  <2> TAKE k \in 1..n
  <2>1. \E i \in kept : Cardinality(upTo(i)) = k
    BY <1>6
  <2> HIDE DEF kept, upTo
  <2>2. (CHOOSE i \in kept : Cardinality(upTo(i)) = k) \in kept
        /\ Cardinality(upTo(CHOOSE i \in kept : Cardinality(upTo(i)) = k)) = k
    BY <2>1
  <2> QED BY <2>2
<1>8. place \in [1..n -> DOMAIN list]
  BY <1>7
<1>9. Without(list, cs) = [k \in 1..n |-> list[place[k]]]
  BY DEF Without
<1>10. \A k \in 1..n : list[place[k]] \notin cs
  BY <1>7
<1>11. \A k, l \in 1..n : place[k] = place[l] => k = l
  <2> HIDE DEF place, upTo
  <2> QED BY <1>7
<1> HIDE DEF place
<1> QED BY <1>2, <1>8, <1>9, <1>10, <1>11

LEMMA WithoutList ==
  ASSUME NEW list \in Seq(Clients), NEW cs
  PROVE  /\ Without(list, cs) \in Seq(Clients)
         /\ \A k \in DOMAIN Without(list, cs) :
              /\ Without(list, cs)[k] \notin cs
              /\ \E i \in DOMAIN list : list[i] = Without(list, cs)[k]
         /\ (\A i, j \in DOMAIN list : list[i] = list[j] => i = j)
              => \A k, l \in DOMAIN Without(list, cs) :
                   Without(list, cs)[k] = Without(list, cs)[l] => k = l
<1>p. PICK n \in Nat : \E place \in [1..n -> DOMAIN list] :
        /\ Without(list, cs) = [k \in 1..n |-> list[place[k]]]
        /\ \A k \in 1..n : list[place[k]] \notin cs
        /\ \A k, l \in 1..n : place[k] = place[l] => k = l
  BY WithoutPlaces
<1>1. PICK place \in [1..n -> DOMAIN list] :
        /\ Without(list, cs) = [k \in 1..n |-> list[place[k]]]
        /\ \A k \in 1..n : list[place[k]] \notin cs
        /\ \A k, l \in 1..n : place[k] = place[l] => k = l
  BY <1>p
<1>2. \A k \in 1..n : place[k] \in DOMAIN list
  OBVIOUS
<1>3. \A i \in DOMAIN list : list[i] \in Clients
  BY LenProperties, ElementOfSeq
<1>4. [k \in 1..n |-> list[place[k]]] \in [1..n -> Clients]
  BY <1>2, <1>3
<1>5. Without(list, cs) \in Seq(Clients)
  BY <1>1, <1>4
<1> QED BY <1>1, <1>2, <1>5

\* Who is not in the list is not missed.
LEMMA WithoutNone ==
  ASSUME NEW list \in Seq(Clients), NEW c, \A i \in DOMAIN list : list[i] # c
  PROVE  Without(list, {c}) = list
<1> DEFINE n == Len(list)
           kept == {i \in DOMAIN list : list[i] \notin {c}}
           upTo(i) == {j \in kept : j <= i}
           place(k) == CHOOSE i \in kept : Cardinality(upTo(i)) = k
<1>d. DOMAIN list = 1..n /\ n \in Nat /\ IsFiniteSet(1..n) /\ Cardinality(1..n) = n
  <2>1. DOMAIN list = 1..n /\ n \in Nat
    BY LenProperties
  <2> QED BY <2>1, FS_Interval
<1>w. Without(list, {c}) = [k \in 1..Cardinality(kept) |-> list[place(k)]]
  BY DEF Without
<1>1. kept = 1..n
  BY <1>d
<1>2. \A i \in 1..n : Cardinality(upTo(i)) = i
  <2> TAKE i \in 1..n
  <2>1. upTo(i) = 1..i
    BY <1>d, <1>1
  <2> HIDE DEF upTo
  <2>2. Cardinality(1..i) = i
    BY <1>d, FS_Interval
  <2> QED BY <2>1, <2>2
<1>3. \A k \in 1..n : place(k) = k
  <2> HIDE DEF upTo, kept
  <2> QED BY <1>1, <1>2
<1>4. Without(list, {c}) = [k \in 1..n |-> list[k]]
  <2> HIDE DEF upTo, kept, place
  <2> QED BY <1>w, <1>d, <1>1, <1>3
<1>5. list = [k \in 1..n |-> list[k]]
  BY <1>d, LenProperties
<1> QED BY <1>4, <1>5

\* Removing the one at p moves those after it down by one.
LEMMA WithoutOne ==
  ASSUME NEW list \in Seq(Clients), \A i, j \in DOMAIN list : list[i] = list[j] => i = j,
         NEW c, NEW p \in DOMAIN list, list[p] = c
  PROVE  Without(list, {c})
           = [k \in 1..(Len(list) - 1) |-> IF k < p THEN list[k] ELSE list[k + 1]]
<1> DEFINE n == Len(list)
           kept == {i \in DOMAIN list : list[i] \notin {c}}
           upTo(i) == {j \in kept : j <= i}
           place(k) == CHOOSE i \in kept : Cardinality(upTo(i)) = k
<1>d. DOMAIN list = 1..n /\ n \in Nat /\ IsFiniteSet(1..n) /\ Cardinality(1..n) = n
  <2>1. DOMAIN list = 1..n /\ n \in Nat
    BY LenProperties
  <2> QED BY <2>1, FS_Interval
<1>w. Without(list, {c}) = [k \in 1..Cardinality(kept) |-> list[place(k)]]
  BY DEF Without
<1>1. kept = (1..n) \ {p} /\ p \in 1..n
  BY <1>d
<1>2. Cardinality(kept) = n - 1
  <2> HIDE DEF kept
  <2> QED BY <1>d, <1>1, FS_RemoveElement
<1>3. \A i \in kept : Cardinality(upTo(i)) = IF i < p THEN i ELSE i - 1
  <2> TAKE i \in kept
  <2>1. i \in 1..n /\ i # p
    BY <1>1
  <2>2. IsFiniteSet(1..i) /\ Cardinality(1..i) = i
    BY <1>d, <2>1, FS_Interval
  <2>3. CASE i < p
    <3>1. upTo(i) = 1..i
      BY <1>d, <1>1, <2>1, <2>3
    <3> HIDE DEF upTo
    <3> QED BY <2>2, <2>3, <3>1
  <2>4. CASE i > p
    <3>1. upTo(i) = (1..i) \ {p} /\ p \in 1..i
      BY <1>d, <1>1, <2>1, <2>4
    <3> HIDE DEF upTo
    <3>2. Cardinality((1..i) \ {p}) = i - 1
      <4> DEFINE T == 1..i
      <4>1. IsFiniteSet(T) /\ Cardinality(T) = i /\ p \in T
        BY <2>2, <3>1
      <4> HIDE DEF T
      <4>2. Cardinality(T \ {p}) = i - 1
        BY <4>1, FS_RemoveElement
      <4> QED BY <4>2 DEF T
    <3> QED BY <2>4, <3>1, <3>2, <1>d, <1>1
  <2> HIDE DEF upTo, kept
  <2> QED BY <1>d, <1>1, <2>1, <2>3, <2>4
<1>4. \A k \in 1..(n - 1) : place(k) = IF k < p THEN k ELSE k + 1
  <2> TAKE k \in 1..(n - 1)
  <2> DEFINE q == IF k < p THEN k ELSE k + 1
  <2> HIDE DEF upTo, kept
  <2>1. q \in kept /\ Cardinality(upTo(q)) = k
    BY <1>d, <1>1, <1>3
  <2>2. \A i \in kept : Cardinality(upTo(i)) = k => i = q
    BY <1>d, <1>1, <1>3
  <2> HIDE DEF q
  <2>3. place(k) = q
    BY <2>1, <2>2
  <2> QED BY <2>3 DEF q
<1> HIDE DEF upTo, kept, place
<1>5. \A k \in 1..(n - 1) : list[place(k)] = IF k < p THEN list[k] ELSE list[k + 1]
  <2> TAKE k \in 1..(n - 1)
  <2>1. CASE k < p
    BY <1>4, <2>1
  <2>2. CASE ~(k < p)
    BY <1>4, <2>2
  <2> QED BY <2>1, <2>2
<1> QED BY <1>w, <1>2, <1>5

LEMMA UnregisterKeeps ==
  ASSUME LiveTypeOK, NEW cs \in SUBSET Clients, Unregister(cs)
  PROVE  /\ active' \in Seq(Clients)
         /\ filters' \in [Clients -> Filters \cup {{}, None}]
         /\ modes' \in [Clients -> {"live", "static", None}]
         /\ Registered' \subseteq Registered \ cs
         /\ ListedOnce => ListedOnce'
<1>1. active \in Seq(Clients) /\ active' = Without(active, cs)
  BY DEF LiveTypeOK, Unregister
<1>2. /\ active' \in Seq(Clients)
      /\ \A k \in DOMAIN active' : /\ active'[k] \notin cs
                                  /\ \E i \in DOMAIN active : active[i] = active'[k]
      /\ ListedOnce => \A k, l \in DOMAIN active' : active'[k] = active'[l] => k = l
  BY <1>1, WithoutList DEF ListedOnce
<1>3. /\ filters' \in [Clients -> Filters \cup {{}, None}]
      /\ modes' \in [Clients -> {"live", "static", None}]
  BY DEF LiveTypeOK, Unregister
<1>4. Registered' \subseteq Registered \ cs
  BY <1>2 DEF Registered
<1> QED BY <1>2, <1>3, <1>4 DEF ListedOnce

\* Places of the list are finitely many.
LEMMA PlacesFinite ==
  ASSUME LiveTypeOK, NEW P \in SUBSET (DOMAIN active)
  PROVE  IsFiniteSet(P) /\ Cardinality(P) \in Nat
<1>1. DOMAIN active = 1..Len(active) /\ Len(active) \in Nat
  BY LenProperties DEF LiveTypeOK
<1>2. IsFiniteSet(1..Len(active))
  BY <1>1, FS_Interval
<1> QED BY <1>1, <1>2, FS_Subset, FS_CardinalityType

LEMMA BehindFinite ==
  ASSUME LiveTypeOK
  PROVE  IsFiniteSet(Behind) /\ Cardinality(Behind) \in Nat
<1>1. cast.at \in Nat
  BY DEF LiveTypeOK
<1>2. IsFiniteSet(1..(cast.at - 1)) /\ Behind \in SUBSET (1..(cast.at - 1))
  BY <1>1, FS_Interval DEF Behind
<1> QED BY <1>2, FS_Subset, FS_CardinalityType

LEMMA BehindShrinks ==
  ASSUME LiveTypeOK, BehindInv, Behind' \subseteq Behind, left' = left
  PROVE  BehindInv'
<1>1. IsFiniteSet(Behind) /\ Cardinality(Behind) \in Nat /\ left \in Nat
  BY BehindFinite DEF LiveTypeOK
<1>2. Cardinality(Behind') <= Cardinality(Behind) /\ Cardinality(Behind') \in Nat
  BY <1>1, FS_Subset, FS_CardinalityType
<1> QED BY <1>1, <1>2 DEF BehindInv

\* A client leaves: those after it are one place nearer to the iterator, and one place
\* more behind it may have a client that was not dealt with.
LEMMA LeavesKeeps ==
  ASSUME LiveTypeOK, ListedOnce, NEW c \in Clients, Leaves(c), UNCHANGED cast
  PROVE  /\ left' \in Nat
         /\ \A k \in DOMAIN active' : \E i \in DOMAIN active : i >= k /\ active[i] = active'[k]
         /\ BehindInv => BehindInv'
<1> DEFINE P == {i \in DOMAIN active : active[i] = c /\ i < cast.at}
           n == Len(active)
<1>a. active \in Seq(Clients) /\ active' = Without(active, {c})
  BY DEF LiveTypeOK, Leaves, Unregister
<1>d. n \in Nat /\ DOMAIN active = 1..n
  BY <1>a, LenProperties
<1>1. passed' = passed /\ cast'.at = cast.at /\ cast.at \in Nat /\ left \in Nat
  BY DEF LiveTypeOK, Leaves
<1>l. left' = left + Cardinality(P)
  BY DEF Leaves
<1>2. IsFiniteSet(P) /\ Cardinality(P) \in Nat
  BY PlacesFinite
<1> HIDE DEF P, n
<1>3. CASE \A i \in DOMAIN active : active[i] # c
  <2>1. active' = active /\ P = {}
    BY <1>a, <1>3, WithoutNone DEF P
  <2>2. left' = left
    BY <1>1, <1>l, <2>1, FS_EmptySet
  <2>3. Behind' = Behind
    BY <1>1, <2>1 DEF Behind
  <2>4. \A k \in DOMAIN active' : k \in DOMAIN active /\ k >= k /\ active[k] = active'[k]
    BY <1>d, <2>1
  <2>5. left' \in Nat /\ (BehindInv => BehindInv')
    BY <1>1, <2>2, <2>3 DEF BehindInv
  <2> QED BY <2>4, <2>5
<1>4. ASSUME NEW p \in DOMAIN active, active[p] = c
      PROVE  /\ left' \in Nat
             /\ \A k \in DOMAIN active' : \E i \in DOMAIN active : i >= k /\ active[i] = active'[k]
             /\ BehindInv => BehindInv'
  <2>1. active' = [k \in 1..(n - 1) |-> IF k < p THEN active[k] ELSE active[k + 1]]
    <3>1. \A i, j \in DOMAIN active : active[i] = active[j] => i = j
      BY DEF ListedOnce
    <3>2. Without(active, {c})
            = [k \in 1..(Len(active) - 1) |-> IF k < p THEN active[k] ELSE active[k + 1]]
      BY <1>a, <1>4, <3>1, WithoutOne
    <3> QED BY <1>a, <3>2 DEF n
  <2>2. P = IF p < cast.at THEN {p} ELSE {}
    BY <1>1, <1>4 DEF ListedOnce, P
  <2>3. left' = IF p < cast.at THEN left + 1 ELSE left
    <3>1. Cardinality({p}) = 1 /\ Cardinality({}) = 0
      BY FS_EmptySet, FS_Singleton
    <3>2. Cardinality(P) = IF p < cast.at THEN 1 ELSE 0
      BY <2>2, <3>1
    <3> QED BY <1>1, <1>l, <3>2
  <2>4. \A k \in DOMAIN active' : \E i \in DOMAIN active : i >= k /\ active[i] = active'[k]
    <3> TAKE k \in DOMAIN active'
    <3>1. k \in 1..(n - 1)
      BY <2>1
    <3>2. CASE k < p
      BY <1>d, <2>1, <3>1, <3>2
    <3>3. CASE ~(k < p)
      <4>1. k + 1 \in DOMAIN active /\ k + 1 >= k /\ active'[k] = active[k + 1]
        BY <1>d, <2>1, <3>1, <3>3
      <4> QED BY <4>1
    <3> QED BY <3>2, <3>3
  <2>5. \A k \in Behind' : IF k < p THEN k \in Behind ELSE k + 1 \in Behind \cup {cast.at}
    <3> TAKE k \in Behind'
    <3>1. k \in 1..(cast.at - 1) /\ (k \in DOMAIN active' => active'[k] \notin passed)
      BY <1>1 DEF Behind
    <3>2. CASE k < p
      <4>1. k \in 1..(n - 1) /\ active'[k] = active[k]
        BY <1>1, <1>d, <2>1, <3>1, <3>2
      <4>2. k \in DOMAIN active'
        BY <2>1, <4>1
      <4> QED BY <3>1, <3>2, <4>1, <4>2 DEF Behind
    <3>3. CASE ~(k < p)
      <4>1. k + 1 = cast.at \/ k + 1 \in 1..(cast.at - 1)
        BY <1>1, <3>1
      <4>2. ASSUME k + 1 \in DOMAIN active
            PROVE  active[k + 1] \notin passed
        <5>1. k \in 1..(n - 1) /\ active'[k] = active[k + 1]
          BY <1>1, <1>d, <2>1, <3>1, <3>3, <4>2
        <5>2. k \in DOMAIN active'
          BY <2>1, <5>1
        <5> QED BY <3>1, <5>1, <5>2
      <4> QED BY <3>3, <4>1, <4>2 DEF Behind
    <3> QED BY <3>2, <3>3
  <2>6. ASSUME BehindInv
        PROVE  BehindInv'
    <3>1. IsFiniteSet(Behind) /\ Cardinality(Behind) \in Nat
      BY BehindFinite
    <3>2. CASE p < cast.at
      <4> DEFINE B == Behind \cup {cast.at}
                 move == [k \in Behind' |-> IF k < p THEN k ELSE k + 1]
      <4>1. IsFiniteSet(B) /\ Cardinality(B) \in Nat /\ Cardinality(B) <= Cardinality(Behind) + 1
        BY <3>1, FS_AddElement, FS_CardinalityType
      <4>2. \A k \in Behind' : k \in Int
        BY <1>1 DEF Behind
      <4>3. move \in [Behind' -> B]
        BY <2>5
      <4>4. \A k, l \in Behind' : move[k] = move[l] => k = l
        BY <1>d, <4>2
      <4> HIDE DEF move, B
      <4>5. move \in Injection(Behind', B)
        BY <4>3, <4>4 DEF Injection, IsInjective
      <4>6. IsFiniteSet(Behind') /\ Cardinality(Behind') <= Cardinality(B)
        BY <4>1, <4>5, FS_Injection
      <4>7. Cardinality(Behind') \in Nat
        BY <4>6, FS_CardinalityType
      <4> QED BY <1>1, <2>3, <2>6, <3>1, <3>2, <4>1, <4>6, <4>7 DEF BehindInv
    <3>3. CASE ~(p < cast.at)
      <4>1. Behind' \subseteq Behind
        BY <1>1, <1>d, <2>5, <3>3 DEF Behind
      <4> QED BY <1>1, <2>3, <2>6, <3>3, <4>1, BehindShrinks
    <3> QED BY <3>2, <3>3
  <2>7. left' \in Nat
    BY <1>1, <2>3
  <2> QED BY <2>4, <2>6, <2>7
<1> QED BY <1>3, <1>4

-----------------------------------------------------------------------------
(* The steps. *)

LEMMA LeavesTypes ==
  ASSUME LiveTypeOK, NEW c \in Clients, Leaves(c)
  PROVE  /\ active' \in Seq(Clients)
         /\ filters' \in [Clients -> Filters \cup {{}, None}]
         /\ modes' \in [Clients -> {"live", "static", None}]
         /\ got' \in [Clients -> Seq(Nat)] /\ passed' \subseteq Clients /\ left' \in Nat
<1>1. Unregister({c})
  BY DEF Leaves
<1>2. /\ active' \in Seq(Clients)
      /\ filters' \in [Clients -> Filters \cup {{}, None}]
      /\ modes' \in [Clients -> {"live", "static", None}]
  BY <1>1, UnregisterKeeps
<1> DEFINE P == {i \in DOMAIN active : active[i] = c /\ i < cast.at}
<1>3. Cardinality(P) \in Nat
  BY PlacesFinite
<1> HIDE DEF P
<1>4. left' = left + Cardinality(P)
  BY DEF Leaves, P
<1> QED BY <1>2, <1>3, <1>4 DEF LiveTypeOK, Leaves

\* Of some places there is a first.
LEMMA LeastPlace ==
  ASSUME NEW P \in SUBSET Nat, P # {}
  PROVE  \E i \in P : \A j \in P : i <= j
<1> DEFINE R == OpToRel(<, Nat)
<1>1. IsWellFoundedOn(R, Nat)
  BY NatLessThanWellFounded
<1>2. \A i, j \in Nat : i < j => <<i, j>> \in R
  BY DEF OpToRel
<1> HIDE DEF R
<1>3. PICK i \in P : \A j \in P : ~(<<j, i>> \in R)
  BY <1>1, WFMin
<1>4. \A j \in P : ~(j < i)
  BY <1>2, <1>3
<1> QED BY <1>4

\* The next taker is a client at a place that the iterator has not passed.
LEMMA NextTakerType ==
  ASSUME LiveTypeOK, cast.pc = "each", Takers # {}
  PROVE  /\ NextTaker \in Takers /\ NextTaker \in DOMAIN active /\ NextTaker \in Nat
         /\ NextTaker >= cast.at /\ active[NextTaker] \in Clients
         /\ Takers \subseteq DOMAIN active
<1>1. Len(active) \in Nat /\ DOMAIN active = 1..Len(active) /\ cast.at \in Nat /\ cast.at >= 1
  BY LenProperties DEF LiveTypeOK
<1>2. Takers \in SUBSET (cast.at..Len(active))
  BY DEF Takers
<1>3. \E i \in Takers : \A j \in Takers : i <= j
  <2>1. Takers \in SUBSET Nat
    BY <1>1, <1>2
  <2> QED BY <2>1, LeastPlace
<1>4. NextTaker \in Takers
  BY <1>3 DEF NextTaker
<1>5. NextTaker \in DOMAIN active /\ NextTaker \in Nat /\ NextTaker >= cast.at
  BY <1>1, <1>2, <1>4
<1> QED BY <1>1, <1>2, <1>4, <1>5, ElementOfSeq DEF LiveTypeOK

LEMMA ConnectTypes ==
  ASSUME LiveTypeOK, NEW c \in Clients, Connect(c)
  PROVE  LiveTypeOK'
<1>1. active' \in Seq(Clients)
  BY AppendProperties DEF LiveTypeOK, Connect, Register
<1>2. /\ filters' \in [Clients -> Filters \cup {{}, None}]
      /\ modes' \in [Clients -> {"live", "static", None}]
      /\ handler' \in [Clients -> {"none", "serving", "ended", "crashed"}]
      /\ open' \subseteq Clients
  BY DEF LiveTypeOK, Connect, Register
<1>3. cast' = cast \/ cast' = Idle
  BY DEF Connect
<1>4. UNCHANGED <<queue, queued, requests, got, passed, left>>
  BY DEF Connect, history
<1> QED BY <1>1, <1>2, <1>3, <1>4 DEF LiveTypeOK, Idle

LEMMA HandlerTypes ==
  ASSUME LiveTypeOK, NEW c \in Clients,
         \/ AnswerFails(c) \/ Close(c) \/ Disconnected(c) \/ Crash(c)
         \/ \E f \in Filters : Subscribe(c, f)
         \/ \E mode \in {"live", "static"} : SetMode(c, mode)
  PROVE  LiveTypeOK'
<1>1. CASE AnswerFails(c)
  <2>1. Leaves(c) /\ Request(c)
    BY <1>1 DEF AnswerFails
  <2> QED BY <2>1, LeavesTypes DEF LiveTypeOK, Request
<1>2. CASE Close(c)
  BY <1>2 DEF LiveTypeOK, Close, registry, history
<1>3. CASE Disconnected(c)
  <2>1. /\ Leaves(c) /\ handler' = [handler EXCEPT ![c] = "ended"]
        /\ UNCHANGED <<queue, cast, open, queued, requests>>
    BY <1>3 DEF Disconnected
  <2> QED BY <2>1, LeavesTypes DEF LiveTypeOK
<1>4. CASE Crash(c)
  BY <1>4 DEF LiveTypeOK, Crash, registry, history
<1>5. ASSUME NEW f \in Filters, Subscribe(c, f)
      PROVE  LiveTypeOK'
  BY <1>5 DEF LiveTypeOK, Subscribe, Request, history
<1>6. ASSUME NEW mode \in {"live", "static"}, SetMode(c, mode)
      PROVE  LiveTypeOK'
  BY <1>6 DEF LiveTypeOK, SetMode, Request, history
<1> QED BY <1>1, <1>2, <1>3, <1>4, <1>5, <1>6

LEMMA QueueEventTypes ==
  ASSUME LiveTypeOK, NEW topic \in Topics \cup {None}, QueueEvent(topic)
  PROVE  LiveTypeOK'
<1>1. queued' \in 1..MaxEvents /\ [no |-> queued', topic |-> topic] \in Event
  BY LiveAssumption DEF LiveTypeOK, QueueEvent, Event
<1>2. queue' = Append(queue, [no |-> queued', topic |-> topic])
  BY DEF QueueEvent
<1>3. queue' \in Seq(Event)
  BY <1>1, <1>2, AppendProperties DEF LiveTypeOK
<1>4. UNCHANGED <<active, filters, modes, cast, handler, open, requests, got, passed, left>>
  BY DEF QueueEvent, registry, clientVars, history
<1> QED BY <1>1, <1>3, <1>4 DEF LiveTypeOK

LEMMA PassType ==
  ASSUME LiveTypeOK, cast.pc = "each", Takers # {}, PassUpTo(NextTaker)
  PROVE  passed' \subseteq Clients
<1>1. \A j \in cast.at..NextTaker : j \in DOMAIN active
  <2>1. Len(active) \in Nat /\ DOMAIN active = 1..Len(active) /\ cast.at \in Nat /\ cast.at >= 1
    BY LenProperties DEF LiveTypeOK
  <2> QED BY <2>1, NextTakerType
<1>2. \A j \in DOMAIN active : active[j] \in Clients
  BY LenProperties, ElementOfSeq DEF LiveTypeOK
<1> QED BY <1>1, <1>2 DEF LiveTypeOK, PassUpTo

LEMMA BroadcasterTypes ==
  ASSUME LiveTypeOK, Broadcaster
  PROVE  LiveTypeOK'
<1>1. CASE Take \/ DropEvent
  <2>1. /\ queue \in Seq(Event) /\ queue # <<>> /\ queue' = Tail(queue)
        /\ cast' \in {cast, [pc |-> "each", event |-> Head(queue), at |-> 1, failed |-> {}]}
        /\ UNCHANGED <<active, filters, modes, handler, open, requests, queued, got, passed, left>>
    BY <1>1 DEF LiveTypeOK, Take, DropEvent, registry, clientVars, history
  <2>2. Head(queue) \in Event /\ queue' \in Seq(Event)
    BY <2>1, HeadTailProperties
  <2> QED BY <2>1, <2>2 DEF LiveTypeOK
<1>2. CASE Send
  <2>1. /\ cast.pc = "each" /\ Takers # {} /\ PassUpTo(NextTaker)
        /\ cast' = [cast EXCEPT !.at = NextTaker + 1]
        /\ got' = [got EXCEPT ![active[NextTaker]] = Append(@, cast.event.no)]
        /\ UNCHANGED <<active, filters, modes, queue, handler, open, requests, queued, left>>
    BY <1>2 DEF Send, registry, clientVars
  <2>2. NextTaker \in Nat /\ NextTaker >= cast.at /\ active[NextTaker] \in Clients
        /\ passed' \subseteq Clients
    BY <2>1, NextTakerType, PassType
  <2>3. cast.event.no \in Nat /\ cast.event \in Event
    BY <2>1 DEF LiveTypeOK, Event
  <2>4. got' \in [Clients -> Seq(Nat)]
    <3>1. Append(got[active[NextTaker]], cast.event.no) \in Seq(Nat)
      BY <2>2, <2>3, AppendProperties DEF LiveTypeOK
    <3> QED BY <2>1, <3>1 DEF LiveTypeOK
  <2>5. cast.at >= 1 /\ cast.at \in Nat
    BY <2>1 DEF LiveTypeOK
  <2>6. /\ cast' \in [pc : {"off", "idle", "each"}, event : Event \cup {None}, at : Nat,
                      failed : SUBSET Clients]
        /\ cast'.pc = "each" /\ cast'.event = cast.event /\ cast'.at >= 1
    <3>1. cast \in [pc : {"off", "idle", "each"}, event : Event \cup {None}, at : Nat,
                   failed : SUBSET Clients]
      BY DEF LiveTypeOK
    <3>2. NextTaker + 1 \in Nat /\ NextTaker + 1 >= 1
      BY <2>2
    <3> QED BY <2>1, <3>1, <3>2
  <2> QED BY <2>1, <2>2, <2>3, <2>4, <2>6 DEF LiveTypeOK
<1>3. CASE SendFails
  <2>1. /\ cast.pc = "each" /\ Takers # {} /\ PassUpTo(NextTaker)
        /\ cast' = [cast EXCEPT !.at = NextTaker + 1, !.failed = @ \cup {active[NextTaker]}]
        /\ UNCHANGED <<active, filters, modes, queue, handler, open, requests, queued, got, left>>
    BY <1>3 DEF SendFails, registry, clientVars
  <2>2. NextTaker \in Nat /\ NextTaker >= cast.at /\ active[NextTaker] \in Clients
        /\ passed' \subseteq Clients
    BY <2>1, NextTakerType, PassType
  <2>3. cast.event \in Event /\ cast.at >= 1 /\ cast.at \in Nat
    BY <2>1 DEF LiveTypeOK
  <2>6. /\ cast' \in [pc : {"off", "idle", "each"}, event : Event \cup {None}, at : Nat,
                      failed : SUBSET Clients]
        /\ cast'.pc = "each" /\ cast'.event = cast.event /\ cast'.at >= 1
    <3>1. cast \in [pc : {"off", "idle", "each"}, event : Event \cup {None}, at : Nat,
                   failed : SUBSET Clients]
      BY DEF LiveTypeOK
    <3>2. NextTaker + 1 \in Nat /\ NextTaker + 1 >= 1
      BY <2>2
    <3>3. cast.failed \cup {active[NextTaker]} \in SUBSET Clients
      BY <2>2, <3>1
    <3> QED BY <2>1, <3>1, <3>2, <3>3
  <2> QED BY <2>1, <2>2, <2>3, <2>6 DEF LiveTypeOK
<1>4. CASE Finish
  <2>1. /\ Unregister(cast.failed) /\ cast.failed \in SUBSET Clients
        /\ cast' = Idle /\ passed' = {} /\ left' = 0
        /\ UNCHANGED <<queue, handler, open, requests, queued, got>>
    BY <1>4 DEF LiveTypeOK, Finish, clientVars
  <2>2. /\ active' \in Seq(Clients)
        /\ filters' \in [Clients -> Filters \cup {{}, None}]
        /\ modes' \in [Clients -> {"live", "static", None}]
    BY <2>1, UnregisterKeeps
  <2> QED BY <2>1, <2>2 DEF LiveTypeOK, Idle
<1> QED BY <1>1, <1>2, <1>3, <1>4 DEF Broadcaster

LEMMA LiveTypes ==
  ASSUME LiveTypeOK, [Next]_liveVars
  PROVE  LiveTypeOK'
<1>1. CASE UNCHANGED liveVars
  BY <1>1 DEF LiveTypeOK, liveVars, registry, clientVars, history
<1>2. CASE Next
  BY <1>2, ConnectTypes, HandlerTypes, QueueEventTypes, BroadcasterTypes DEF Next
<1> QED BY <1>1, <1>2

LEMMA RegistryKeeps ==
  ASSUME LiveTypeOK, ListedOnce, RegistryFollowsHandlers, [Next]_liveVars
  PROVE  ListedOnce' /\ RegistryFollowsHandlers'
<1>t. /\ active \in Seq(Clients) /\ DOMAIN active = 1..Len(active) /\ Len(active) \in Nat
      /\ \A i \in DOMAIN active : active[i] \in Clients
      /\ filters \in [Clients -> Filters \cup {{}, None}]
      /\ modes \in [Clients -> {"live", "static", None}]
      /\ handler \in [Clients -> {"none", "serving", "ended", "crashed"}]
  BY LenProperties, ElementOfSeq DEF LiveTypeOK
<1>1. ASSUME NEW c \in Clients, Connect(c)
      PROVE  ListedOnce' /\ RegistryFollowsHandlers'
  <2>1. c \notin Registered
    BY <1>1 DEF Connect, RegistryFollowsHandlers
  <2>2. /\ active' = Append(active, c) /\ filters' = [filters EXCEPT ![c] = {}]
        /\ modes' = [modes EXCEPT ![c] = "live"] /\ handler' = [handler EXCEPT ![c] = "serving"]
    BY <1>1 DEF Connect, Register
  <2>3. /\ DOMAIN active' = 1..(Len(active) + 1) /\ active'[Len(active) + 1] = c
        /\ \A i \in DOMAIN active : active'[i] = active[i]
    BY <1>t, <2>2
  <2>4. ListedOnce'
    BY <1>t, <2>1, <2>3 DEF ListedOnce, Registered
  <2>5. Registered' = Registered \cup {c}
    <3>1. Registered' \subseteq Registered \cup {c}
      BY <1>t, <2>3 DEF Registered
    <3>2. \A i \in DOMAIN active : i \in DOMAIN active'
      BY <1>t, <2>3
    <3>3. Len(active) + 1 \in DOMAIN active'
      BY <1>t, <2>3
    <3> QED BY <2>3, <3>1, <3>2, <3>3 DEF Registered
  <2>6. {} # None /\ "live" # None
    BY LiveAssumption
  <2>7. RegistryFollowsHandlers'
    BY <1>t, <2>2, <2>5, <2>6 DEF RegistryFollowsHandlers
  <2> QED BY <2>4, <2>7
<1>2. ASSUME NEW cs \in SUBSET Clients, Unregister(cs),
             \A c \in Clients \ cs : handler'[c] = handler[c] \/ handler'[c] = "crashed",
             \A c \in cs : handler'[c] # "none" \/ handler'[c] = handler[c]
      PROVE  ListedOnce' /\ RegistryFollowsHandlers'
  <2>1. ListedOnce' /\ Registered' \subseteq Registered \ cs
    BY <1>2, UnregisterKeeps
  <2>2. /\ filters' = [c \in Clients |-> IF c \in cs THEN None ELSE filters[c]]
        /\ modes' = [c \in Clients |-> IF c \in cs THEN None ELSE modes[c]]
    BY <1>2 DEF Unregister
  <2> QED BY <1>2, <2>1, <2>2 DEF RegistryFollowsHandlers
<1>3. ASSUME NEW c \in Clients, AnswerFails(c) \/ Disconnected(c)
      PROVE  ListedOnce' /\ RegistryFollowsHandlers'
  <2>1. Unregister({c}) /\ (handler' = handler \/ handler' = [handler EXCEPT ![c] = "ended"])
    BY <1>3 DEF AnswerFails, Request, Disconnected, Leaves
  <2> QED BY <1>t, <1>2, <2>1
<1>4. ASSUME NEW c \in Clients, Close(c) \/ Crash(c)
      PROVE  ListedOnce' /\ RegistryFollowsHandlers'
  <2>1. /\ UNCHANGED <<active, filters, modes>>
        /\ \/ handler' = handler
           \/ handler[c] = "serving" /\ handler' = [handler EXCEPT ![c] = "crashed"]
    BY <1>4 DEF Close, Crash, registry
  <2> QED BY <1>t, <2>1 DEF ListedOnce, RegistryFollowsHandlers, Registered
<1>5. ASSUME NEW c \in Clients, NEW f \in Filters, Subscribe(c, f)
      PROVE  ListedOnce' /\ RegistryFollowsHandlers'
  <2>1. f # None
    BY LiveAssumption
  <2>2. /\ handler[c] = "serving" /\ filters' = [filters EXCEPT ![c] = f]
        /\ UNCHANGED <<active, modes, handler>>
    BY <1>5 DEF Subscribe, Request
  <2> QED BY <1>t, <2>1, <2>2 DEF ListedOnce, RegistryFollowsHandlers, Registered
<1>6. ASSUME NEW c \in Clients, NEW mode \in {"live", "static"}, SetMode(c, mode)
      PROVE  ListedOnce' /\ RegistryFollowsHandlers'
  <2>1. mode # None
    BY LiveAssumption
  <2>2. /\ handler[c] = "serving" /\ modes' = [modes EXCEPT ![c] = mode]
        /\ UNCHANGED <<active, filters, handler>>
    BY <1>6 DEF SetMode, Request
  <2> QED BY <1>t, <2>1, <2>2 DEF ListedOnce, RegistryFollowsHandlers, Registered
<1>7. CASE (\E topic \in Topics \cup {None} : QueueEvent(topic)) \/ Take \/ DropEvent
           \/ Send \/ SendFails \/ UNCHANGED liveVars
  <2>1. UNCHANGED <<active, filters, modes, handler>>
    BY <1>7 DEF QueueEvent, Take, DropEvent, Send, SendFails, liveVars, registry, clientVars
  <2> QED BY <2>1 DEF ListedOnce, RegistryFollowsHandlers, Registered
<1>8. CASE Finish
  <2>1. Unregister(cast.failed) /\ cast.failed \in SUBSET Clients /\ handler' = handler
    BY <1>8 DEF LiveTypeOK, Finish, clientVars
  <2> QED BY <1>2, <2>1
<1> QED BY <1>1, <1>3, <1>4, <1>5, <1>6, <1>7, <1>8 DEF Next, Broadcaster

LEMMA QueueTypes ==
  ASSUME LiveTypeOK
  PROVE  /\ queue \in Seq(Event) /\ DOMAIN queue = 1..Len(queue) /\ Len(queue) \in Nat
         /\ \A i \in DOMAIN queue : queue[i].no \in Nat
         /\ queued \in Nat
         /\ cast.pc = "each" => cast.event.no \in Nat
<1>1. queue \in Seq(Event) /\ DOMAIN queue = 1..Len(queue) /\ Len(queue) \in Nat
  BY LenProperties DEF LiveTypeOK
<1>2. \A e \in Event : e.no \in Nat
  BY DEF Event
<1>3. \A i \in DOMAIN queue : queue[i] \in Event
  BY <1>1, ElementOfSeq
<1>4. queued \in Nat
  BY LiveAssumption DEF LiveTypeOK
<1>5. cast.pc = "each" => cast.event \in Event
  BY DEF LiveTypeOK
<1> QED BY <1>1, <1>2, <1>3, <1>4, <1>5

LEMMA QueueKeeps ==
  ASSUME LiveTypeOK, QueueInv, [Next]_liveVars
  PROVE  QueueInv'
<1>t. /\ queue \in Seq(Event) /\ DOMAIN queue = 1..Len(queue) /\ Len(queue) \in Nat
      /\ \A i \in DOMAIN queue : queue[i].no \in Nat
      /\ queued \in Nat
  BY QueueTypes
<1>1. CASE \/ \E c \in Clients : Connect(c) \/ AnswerFails(c) \/ Disconnected(c)
           \/ Finish
  <2>1. UNCHANGED <<queue, queued>> /\ (cast' = cast \/ cast' = Idle)
    BY <1>1 DEF Connect, AnswerFails, Request, Disconnected, Finish
  <2> QED BY <2>1 DEF QueueInv, Idle
<1>2. CASE \/ \E c \in Clients : \/ Close(c) \/ Crash(c)
                                 \/ \E f \in Filters : Subscribe(c, f)
                                 \/ \E mode \in {"live", "static"} : SetMode(c, mode)
           \/ UNCHANGED liveVars
  <2>1. UNCHANGED <<queue, queued, cast>>
    BY <1>2 DEF Close, Crash, Subscribe, SetMode, Request, liveVars
  <2> QED BY <2>1 DEF QueueInv
<1>3. ASSUME NEW topic \in Topics \cup {None}, QueueEvent(topic)
      PROVE  QueueInv'
  <2> DEFINE new == [no |-> queued + 1, topic |-> topic]
  <2>1. queue' = Append(queue, new) /\ queued' = queued + 1 /\ cast' = cast
    BY <1>3 DEF QueueEvent
  <2>2. /\ DOMAIN queue' = 1..(Len(queue) + 1) /\ queue'[Len(queue) + 1] = new
        /\ \A i \in DOMAIN queue : queue'[i] = queue[i]
    <3> HIDE DEF new
    <3> QED BY <1>t, <2>1
  <2>3. new.no = queued + 1
    OBVIOUS
  <2> HIDE DEF new
  <2>4. \A i \in DOMAIN queue' : i \in DOMAIN queue \/ i = Len(queue) + 1
    BY <1>t, <2>2
  <2>5. cast.pc = "each" => cast.event.no \in Nat
    BY DEF LiveTypeOK, Event
  <2>6. \A i \in DOMAIN queue' : queue'[i].no <= queued'
    BY <1>t, <2>1, <2>2, <2>3, <2>4 DEF QueueInv
  <2>7. \A i, j \in DOMAIN queue' : i < j => queue'[i].no < queue'[j].no
    <3> SUFFICES ASSUME NEW i \in DOMAIN queue', NEW j \in DOMAIN queue', i < j
                 PROVE  queue'[i].no < queue'[j].no
      OBVIOUS
    <3>1. i \in DOMAIN queue
      BY <1>t, <2>2
    <3>2. CASE j \in DOMAIN queue
      BY <2>2, <3>1, <3>2 DEF QueueInv
    <3>3. CASE j = Len(queue) + 1
      <4>1. queue[i].no <= queued /\ queue[i].no \in Nat
        BY <1>t, <3>1 DEF QueueInv
      <4> QED BY <1>t, <2>2, <2>3, <3>1, <3>3, <4>1
    <3> QED BY <2>4, <3>2, <3>3
  <2>8. cast'.pc = "each" => /\ cast'.event.no <= queued'
                             /\ \A i \in DOMAIN queue' : cast'.event.no < queue'[i].no
    BY <1>t, <2>1, <2>2, <2>3, <2>4, <2>5 DEF QueueInv
  <2> QED BY <2>6, <2>7, <2>8 DEF QueueInv
<1>4. CASE Take \/ DropEvent
  <2>1. /\ queue # <<>> /\ queue' = Tail(queue) /\ queued' = queued /\ cast.pc = "idle"
        /\ cast' = cast \/ (cast'.event = Head(queue) /\ cast'.pc = "each")
    BY <1>4 DEF Take, DropEvent, registry
  <2>2. /\ DOMAIN queue' = 1..(Len(queue) - 1) /\ Head(queue) = queue[1] /\ 1 \in DOMAIN queue
        /\ \A i \in DOMAIN queue' : queue'[i] = queue[i + 1] /\ i + 1 \in DOMAIN queue
    BY <1>t, <2>1
  <2>3. \A i \in DOMAIN queue' : queue'[i].no <= queued'
    BY <2>1, <2>2 DEF QueueInv
  <2>4. \A i, j \in DOMAIN queue' : i < j => queue'[i].no < queue'[j].no
    <3>1. \A i, j \in DOMAIN queue' : i < j => i + 1 < j + 1
      BY <1>t, <2>2
    <3> QED BY <2>2, <3>1 DEF QueueInv
  <2>5. \A i \in DOMAIN queue' : queue[1].no < queue'[i].no
    <3>1. \A i \in DOMAIN queue' : 1 < i + 1
      BY <1>t, <2>2
    <3> QED BY <2>2, <3>1 DEF QueueInv
  <2>6. queue[1].no <= queued'
    BY <2>1, <2>2 DEF QueueInv
  <2> QED BY <2>1, <2>2, <2>3, <2>4, <2>5, <2>6 DEF QueueInv
<1>5. CASE Send \/ SendFails
  <2>1. /\ UNCHANGED <<queue, queued>> /\ cast.pc = "each"
        /\ \/ cast' = [cast EXCEPT !.at = NextTaker + 1]
           \/ cast' = [cast EXCEPT !.at = NextTaker + 1, !.failed = @ \cup {active[NextTaker]}]
    BY <1>5 DEF Send, SendFails
  <2>2. cast'.event = cast.event
    BY <2>1 DEF LiveTypeOK
  <2> QED BY <2>1, <2>2 DEF QueueInv
<1> QED BY <1>1, <1>2, <1>3, <1>4, <1>5 DEF Next, Broadcaster

\* What was sent stays older than the queue: for steps that send nothing.
LEMMA SentStays ==
  ASSUME LiveTypeOK, SentInv, UNCHANGED got,
         \A c \in Clients : handler[c] # "none" => handler'[c] # "none",
         queued <= queued', queued' \in Nat,
         \A j \in DOMAIN queue' : \/ queue'[j].no > queued /\ queue'[j].no \in Nat
                                  \/ \E i \in DOMAIN queue : queue'[j] = queue[i],
         \/ cast'.pc # "each"
         \/ /\ cast.pc = "each" /\ cast'.event = cast.event
            /\ \A k \in DOMAIN active' : k >= cast'.at =>
                 \/ \E i \in DOMAIN active : i >= cast.at /\ active[i] = active'[k]
                 \/ active'[k] \in Clients /\ handler[active'[k]] = "none"
  PROVE  SentInv'
<1>t. /\ queued \in Nat /\ \A c \in Clients : \A i \in DOMAIN got[c] : got[c][i] \in Nat
      /\ \A i \in DOMAIN active : active[i] \in Clients
  <2>1. \A c \in Clients : got[c] \in Seq(Nat)
    BY DEF LiveTypeOK
  <2>2. \A c \in Clients : \A i \in DOMAIN got[c] : got[c][i] \in Nat
    BY <2>1, LenProperties, ElementOfSeq
  <2> QED BY <2>2, LenProperties, ElementOfSeq, QueueTypes DEF LiveTypeOK
<1>1. ASSUME NEW c \in Clients, NEW i \in DOMAIN got[c]
      PROVE  /\ handler'[c] # "none" /\ got[c][i] <= queued'
             /\ \A j \in DOMAIN queue' : got[c][i] < queue'[j].no
             /\ cast'.pc = "each" => got[c][i] <= cast'.event.no
  <2>1. handler[c] # "none" /\ got[c][i] <= queued
    BY DEF SentInv
  <2>2. \A j \in DOMAIN queue' : got[c][i] < queue'[j].no
    <3> TAKE j \in DOMAIN queue'
    <3>1. CASE queue'[j].no > queued /\ queue'[j].no \in Nat
      BY <1>t, <2>1, <3>1
    <3>2. CASE \E k \in DOMAIN queue : queue'[j] = queue[k]
      BY <3>2 DEF SentInv
    <3> QED BY <3>1, <3>2
  <2> QED BY <1>t, <2>1, <2>2 DEF SentInv
<1>2. ASSUME cast'.pc = "each", NEW k \in DOMAIN active', k >= cast'.at,
             NEW i \in DOMAIN got[active'[k]]
      PROVE  got[active'[k]][i] < cast'.event.no
  BY <1>t, <1>2 DEF SentInv
<1> QED BY <1>1, <1>2 DEF SentInv

LEMMA SentKeeps ==
  ASSUME LiveTypeOK, ListedOnce, RegistryFollowsHandlers, QueueInv, SentInv, [Next]_liveVars
  PROVE  SentInv'
<1>t. /\ active \in Seq(Clients) /\ DOMAIN active = 1..Len(active) /\ Len(active) \in Nat
      /\ \A i \in DOMAIN active : active[i] \in Clients
      /\ queued \in Nat /\ handler \in [Clients -> {"none", "serving", "ended", "crashed"}]
      /\ cast.at \in Nat
  BY LenProperties, ElementOfSeq, QueueTypes DEF LiveTypeOK
<1>1. ASSUME NEW c \in Clients, Connect(c)
      PROVE  SentInv'
  <2>1. /\ active' = Append(active, c) /\ handler' = [handler EXCEPT ![c] = "serving"]
        /\ handler[c] = "none" /\ UNCHANGED <<got, queue, queued>>
        /\ cast' = cast \/ cast' = Idle
    BY <1>1 DEF Connect, Register, history
  <2>2. /\ DOMAIN active' = 1..(Len(active) + 1) /\ active'[Len(active) + 1] = c
        /\ \A i \in DOMAIN active : active'[i] = active[i]
    BY <1>t, <2>1
  <2>3. \A k \in DOMAIN active' : \/ k \in DOMAIN active /\ active[k] = active'[k]
                                  \/ active'[k] = c
    BY <1>t, <2>2
  <2>4. \A d \in Clients : handler[d] # "none" => handler'[d] # "none"
    BY <1>t, <2>1
  <2>5. cast' = Idle => cast'.pc # "each"
    BY DEF Idle
  <2>6. \/ cast'.pc # "each"
        \/ /\ cast.pc = "each" /\ cast'.event = cast.event
           /\ \A k \in DOMAIN active' : k >= cast'.at =>
                \/ \E i \in DOMAIN active : i >= cast.at /\ active[i] = active'[k]
                \/ active'[k] \in Clients /\ handler[active'[k]] = "none"
    BY <2>1, <2>3, <2>5
  <2> QED BY <1>t, <2>1, <2>4, <2>6, SentStays
<1>2. ASSUME NEW c \in Clients, AnswerFails(c) \/ Disconnected(c)
      PROVE  SentInv'
  <2>1. /\ Leaves(c) /\ UNCHANGED <<cast, queue, queued>>
        /\ handler' = handler \/ handler' = [handler EXCEPT ![c] = "ended"]
    BY <1>2 DEF AnswerFails, Request, Disconnected
  <2>2. got' = got
    BY <2>1 DEF Leaves
  <2>3. \A k \in DOMAIN active' : \E i \in DOMAIN active : i >= k /\ active[i] = active'[k]
    BY <2>1, LeavesKeeps
  <2>4. \A k \in DOMAIN active' : k \in Nat
    <3>1. active' \in Seq(Clients)
      BY <2>1, LeavesTypes
    <3> QED BY <3>1, LenProperties
  <2>5. \A k \in DOMAIN active' : k >= cast.at =>
          \E i \in DOMAIN active : i >= cast.at /\ active[i] = active'[k]
    <3> SUFFICES ASSUME NEW k \in DOMAIN active', k >= cast.at
                 PROVE  \E i \in DOMAIN active : i >= cast.at /\ active[i] = active'[k]
      OBVIOUS
    <3>1. PICK i \in DOMAIN active : i >= k /\ active[i] = active'[k]
      BY <2>3
    <3>2. i >= cast.at
      BY <1>t, <2>4, <3>1
    <3> QED BY <3>1, <3>2
  <2>6. \A d \in Clients : handler[d] # "none" => handler'[d] # "none"
    BY <1>t, <2>1
  <2> QED BY <1>t, <2>1, <2>2, <2>5, <2>6, SentStays
<1>3. CASE \/ \E c \in Clients : \/ Close(c) \/ Crash(c)
                                 \/ \E f \in Filters : Subscribe(c, f)
                                 \/ \E mode \in {"live", "static"} : SetMode(c, mode)
           \/ UNCHANGED liveVars
  <2>1. UNCHANGED <<active, queue, queued, cast, got>>
    BY <1>3 DEF Close, Crash, Subscribe, SetMode, Request, liveVars, registry, history
  <2>2. \A d \in Clients : handler[d] # "none" => handler'[d] # "none"
    BY <1>t, <1>3 DEF Close, Crash, Subscribe, SetMode, Request, liveVars, clientVars
  <2> QED BY <1>t, <2>1, <2>2, SentStays
<1>4. ASSUME NEW topic \in Topics \cup {None}, QueueEvent(topic)
      PROVE  SentInv'
  <2> DEFINE new == [no |-> queued + 1, topic |-> topic]
  <2>1. /\ queue' = Append(queue, new) /\ queued' = queued + 1
        /\ UNCHANGED <<active, cast, got, handler>>
    BY <1>4 DEF QueueEvent, registry, clientVars, history
  <2>2. new.no = queued + 1
    OBVIOUS
  <2> HIDE DEF new
  <2>3. \A j \in DOMAIN queue' : queue'[j] = new \/ \E i \in DOMAIN queue : queue'[j] = queue[i]
    BY <2>1, QueueTypes
  <2>4. \A j \in DOMAIN queue' : \/ queue'[j].no > queued /\ queue'[j].no \in Nat
                                 \/ \E i \in DOMAIN queue : queue'[j] = queue[i]
    BY <1>t, <2>2, <2>3
  <2> QED BY <1>t, <2>1, <2>4, SentStays
<1>5. CASE Take \/ DropEvent
  <2>1. /\ queue # <<>> /\ queue' = Tail(queue) /\ cast.pc = "idle"
        /\ \/ cast' = cast
           \/ cast' = [pc |-> "each", event |-> Head(queue), at |-> 1, failed |-> {}]
        /\ UNCHANGED <<active, queued, got, handler>>
    BY <1>5 DEF Take, DropEvent, registry, clientVars, history
  <2>2. /\ Head(queue) = queue[1] /\ 1 \in DOMAIN queue
        /\ \A i \in DOMAIN queue' : queue'[i] = queue[i + 1] /\ i + 1 \in DOMAIN queue
    BY <2>1, QueueTypes
  <2>3. CASE cast' = cast
    BY <1>t, <2>1, <2>2, <2>3, SentStays
  <2>4. CASE cast'.event = queue[1]
    <3>1. \A c \in Clients : \A i \in DOMAIN got[c] : got[c][i] < queue[1].no
      BY <2>2 DEF SentInv
    <3>2. queue[1].no \in Nat /\ \A c \in Clients : \A i \in DOMAIN got[c] : got[c][i] \in Nat
      <4>1. \A c \in Clients : got[c] \in Seq(Nat)
        BY DEF LiveTypeOK
      <4> QED BY <2>2, <4>1, QueueTypes, LenProperties, ElementOfSeq
    <3>3. \A c \in Clients : \A i \in DOMAIN got[c] : got[c][i] <= queue[1].no
      BY <3>1, <3>2
    <3>4. \A c \in Clients : \A i \in DOMAIN got[c] : \A j \in DOMAIN queue' :
             got[c][i] < queue'[j].no
      BY <2>2 DEF SentInv
    <3> QED BY <1>t, <2>1, <2>4, <3>1, <3>3, <3>4 DEF SentInv
  <2> QED BY <2>1, <2>2, <2>3, <2>4
<1>6. CASE Send
  <2> DEFINE a == active[NextTaker]
  <2>1. /\ cast.pc = "each" /\ Takers # {} /\ cast' = [cast EXCEPT !.at = NextTaker + 1]
        /\ got' = [got EXCEPT ![a] = Append(@, cast.event.no)]
        /\ UNCHANGED <<active, queue, handler, queued>>
    BY <1>6 DEF Send, registry, clientVars
  <2>2. NextTaker \in DOMAIN active /\ NextTaker \in Nat /\ NextTaker >= cast.at /\ a \in Clients
    BY <2>1, NextTakerType
  <2>3. cast'.event = cast.event /\ cast'.at = NextTaker + 1 /\ cast'.pc = "each"
    BY <2>1 DEF LiveTypeOK
  <2>4. handler[a] # "none"
    BY <2>2 DEF RegistryFollowsHandlers, Registered
  <2> HIDE DEF a
  <2>5. got \in [Clients -> Seq(Nat)] /\ got[a] \in Seq(Nat) /\ cast.event.no \in Nat
    BY <2>1, <2>2, QueueTypes DEF LiveTypeOK
  <2>6. \A c \in Clients : \A i \in DOMAIN got'[c] :
          \/ i \in DOMAIN got[c] /\ got'[c][i] = got[c][i]
          \/ c = a /\ got'[c][i] = cast.event.no
    BY <2>1, <2>2, <2>5
  <2>7. ASSUME NEW c \in Clients, NEW i \in DOMAIN got'[c]
        PROVE  /\ handler[c] # "none" /\ got'[c][i] <= queued
               /\ \A j \in DOMAIN queue : got'[c][i] < queue[j].no
               /\ got'[c][i] <= cast.event.no
    BY <2>1, <2>4, <2>5, <2>6 DEF SentInv, QueueInv
  <2>8. ASSUME NEW k \in DOMAIN active, k >= NextTaker + 1, NEW i \in DOMAIN got'[active[k]]
        PROVE  got'[active[k]][i] < cast.event.no
    <3>1. k # NextTaker /\ k >= cast.at
      BY <1>t, <2>2, <2>8
    <3>2. active[k] # a
      BY <2>2, <3>1 DEF ListedOnce, a
    <3>3. got'[active[k]] = got[active[k]]
      BY <1>t, <2>1, <2>5, <3>2
    <3> QED BY <2>1, <2>8, <3>1, <3>3 DEF SentInv
  <2> QED BY <2>1, <2>3, <2>7, <2>8 DEF SentInv
<1>7. CASE SendFails
  <2>1. /\ cast.pc = "each" /\ Takers # {}
        /\ cast' = [cast EXCEPT !.at = NextTaker + 1, !.failed = @ \cup {active[NextTaker]}]
        /\ UNCHANGED <<active, queue, handler, queued, got>>
    BY <1>7 DEF SendFails, registry, clientVars
  <2>2. NextTaker \in Nat /\ NextTaker >= cast.at
    BY <2>1, NextTakerType
  <2>3. cast'.event = cast.event /\ cast'.at = NextTaker + 1
    BY <2>1 DEF LiveTypeOK
  <2>4. \A k \in DOMAIN active' : k >= cast'.at => k >= cast.at
    BY <1>t, <2>1, <2>2, <2>3
  <2> QED BY <1>t, <2>1, <2>3, <2>4, SentStays
<1>8. CASE Finish
  <2>1. cast' = Idle /\ UNCHANGED <<queue, handler, queued, got>>
    BY <1>8 DEF Finish, clientVars
  <2>2. cast'.pc # "each"
    BY <2>1 DEF Idle
  <2> QED BY <1>t, <2>1, <2>2, SentStays
<1> QED BY <1>1, <1>2, <1>3, <1>4, <1>5, <1>6, <1>7, <1>8 DEF Next, Broadcaster

LEMMA OrderKeeps ==
  ASSUME LiveTypeOK, SentInv, ReceivedInOrder, [Next]_liveVars
  PROVE  ReceivedInOrder'
<1>1. CASE Send
  <2> DEFINE a == active[NextTaker]
  <2>1. /\ cast.pc = "each" /\ Takers # {}
        /\ got' = [got EXCEPT ![a] = Append(@, cast.event.no)]
    BY <1>1 DEF Send
  <2>2. NextTaker \in DOMAIN active /\ NextTaker >= cast.at /\ a \in Clients
    BY <2>1, NextTakerType
  <2>3. \A i \in DOMAIN got[a] : got[a][i] < cast.event.no
    BY <2>1, <2>2 DEF SentInv
  <2> HIDE DEF a
  <2>4. got \in [Clients -> Seq(Nat)] /\ got[a] \in Seq(Nat) /\ cast.event.no \in Nat
    BY <2>1, <2>2, QueueTypes DEF LiveTypeOK
  <2>5. ASSUME NEW i \in DOMAIN got'[a], NEW j \in DOMAIN got'[a], i < j
        PROVE  got'[a][i] < got'[a][j]
    <3>1. got'[a] = Append(got[a], cast.event.no)
      BY <2>1, <2>2, <2>4
    <3>2. /\ i \in DOMAIN got[a] /\ got'[a][i] = got[a][i]
          /\ \/ j \in DOMAIN got[a] /\ got'[a][j] = got[a][j]
             \/ got'[a][j] = cast.event.no
      BY <2>4, <2>5, <3>1
    <3> QED BY <2>2, <2>3, <2>5, <3>2 DEF ReceivedInOrder
  <2>6. \A c \in Clients : c # a => got'[c] = got[c]
    BY <2>1, <2>4
  <2> QED BY <2>5, <2>6 DEF ReceivedInOrder
<1>2. CASE ~Send
  <2>1. got' = got
    BY <1>2 DEF Next, Broadcaster, Connect, AnswerFails, Close, Disconnected, Crash, Subscribe,
                SetMode, Leaves, QueueEvent, Take, DropEvent, SendFails, Finish, liveVars,
                history
  <2> QED BY <2>1 DEF ReceivedInOrder
<1> QED BY <1>1, <1>2

LEMMA BehindKeeps ==
  ASSUME LiveTypeOK, ListedOnce, BehindInv, [Next]_liveVars
  PROVE  BehindInv'
<1>t. /\ active \in Seq(Clients) /\ DOMAIN active = 1..Len(active) /\ Len(active) \in Nat
      /\ cast.at \in Nat /\ left \in Nat /\ (cast.pc # "each" => cast.at = 0)
  BY LenProperties DEF LiveTypeOK
\* Before the iterator is set up, or at its first place, nothing is behind it.
<1>e. ASSUME cast'.at \in {0, 1}, left' \in Nat
      PROVE  BehindInv'
  <2>1. Behind' = {}
    BY <1>e DEF Behind
  <2> QED BY <1>e, <2>1, FS_EmptySet DEF BehindInv
<1>1. ASSUME NEW c \in Clients, Connect(c)
      PROVE  BehindInv'
  <2>1. /\ active' = Append(active, c) /\ UNCHANGED <<passed, left>>
        /\ cast' = cast \/ cast' = Idle
    BY <1>1 DEF Connect, Register, history
  <2>2. CASE cast' = cast
    <3>1. \A i \in DOMAIN active : i \in DOMAIN active' /\ active'[i] = active[i]
      BY <1>t, <2>1
    <3>2. Behind' \subseteq Behind
      BY <2>1, <2>2, <3>1 DEF Behind
    <3> QED BY <2>1, <3>2, BehindShrinks
  <2>3. CASE cast' = Idle
    <3>1. cast'.at = 0
      BY <2>3 DEF Idle
    <3> QED BY <1>t, <1>e, <2>1, <3>1
  <2> QED BY <2>1, <2>2, <2>3
<1>2. ASSUME NEW c \in Clients, AnswerFails(c) \/ Disconnected(c)
      PROVE  BehindInv'
  <2>1. Leaves(c) /\ UNCHANGED cast
    BY <1>2 DEF AnswerFails, Request, Disconnected
  <2> QED BY <2>1, LeavesKeeps
<1>3. CASE \/ \E c \in Clients : \/ Close(c) \/ Crash(c)
                                 \/ \E f \in Filters : Subscribe(c, f)
                                 \/ \E mode \in {"live", "static"} : SetMode(c, mode)
           \/ \E topic \in Topics \cup {None} : QueueEvent(topic)
           \/ UNCHANGED liveVars
  <2>1. UNCHANGED <<active, cast, passed, left>>
    BY <1>3 DEF Close, Crash, Subscribe, SetMode, Request, QueueEvent, liveVars, registry, history
  <2> QED BY <2>1 DEF BehindInv, Behind
<1>4. CASE Take \/ DropEvent
  <2>1. /\ cast.pc = "idle" /\ UNCHANGED left
        /\ cast' = cast \/ cast' = [pc |-> "each", event |-> Head(queue), at |-> 1, failed |-> {}]
    BY <1>4 DEF Take, DropEvent, history
  <2>2. cast'.at \in {0, 1}
    BY <1>t, <2>1
  <2> QED BY <1>t, <1>e, <2>1, <2>2
<1>5. CASE Send \/ SendFails
  <2>1. /\ cast.pc = "each" /\ Takers # {} /\ PassUpTo(NextTaker) /\ UNCHANGED <<active, left>>
        /\ \/ cast' = [cast EXCEPT !.at = NextTaker + 1]
           \/ cast' = [cast EXCEPT !.at = NextTaker + 1, !.failed = @ \cup {active[NextTaker]}]
    BY <1>5 DEF Send, SendFails, registry
  <2>2. NextTaker \in Nat /\ NextTaker >= cast.at
    BY <2>1, NextTakerType
  <2>3. cast'.at = NextTaker + 1
    BY <2>1 DEF LiveTypeOK
  <2>4. passed' = passed \cup {active[j] : j \in cast.at..NextTaker}
    BY <2>1 DEF PassUpTo
  <2>5. Behind' \subseteq Behind
    <3> SUFFICES ASSUME NEW i \in Behind'
                 PROVE  i \in Behind
      OBVIOUS
    <3>1. i \in 1..NextTaker
      BY <2>2, <2>3 DEF Behind
    <3>2. i \in DOMAIN active => active[i] \notin passed'
      BY <2>1 DEF Behind
    <3>3. CASE i < cast.at
      <4>1. i \in 1..(cast.at - 1)
        BY <1>t, <3>1, <3>3
      <4> QED BY <2>4, <3>2, <4>1 DEF Behind
    <3>4. CASE i >= cast.at
      <4>1. i \in cast.at..NextTaker
        BY <1>t, <2>2, <3>1, <3>4
      <4>2. i \in DOMAIN active
        <5>1. NextTaker \in DOMAIN active
          BY <2>1, NextTakerType
        <5> QED BY <1>t, <3>1, <5>1
      <4> QED BY <2>4, <3>2, <4>1, <4>2
    <3> QED BY <1>t, <3>1, <3>3, <3>4
  <2> QED BY <2>1, <2>5, BehindShrinks
<1>6. CASE Finish
  <2>1. cast' = Idle /\ left' = 0
    BY <1>6 DEF Finish
  <2>2. cast'.at = 0
    BY <2>1 DEF Idle
  <2> QED BY <1>e, <2>1, <2>2
<1> QED BY <1>1, <1>2, <1>3, <1>4, <1>5, <1>6 DEF Next, Broadcaster

LEMMA LiveInitial == Init => LiveInv
<1> SUFFICES ASSUME Init
             PROVE  LiveInv
  OBVIOUS
<1>1. LiveTypeOK
  <2>1. cast = [pc |-> "off", event |-> None, at |-> 0, failed |-> {}]
    BY DEF Init, Off, Idle
  <2>2. queued \in 0..MaxEvents
    BY LiveAssumption DEF Init
  <2> QED BY <2>1, <2>2 DEF Init, LiveTypeOK
<1>2. active = <<>> /\ queue = <<>> /\ cast.pc = "off" /\ cast.at = 0 /\ left = 0
      /\ \A c \in Clients : got[c] = <<>> /\ filters[c] = None /\ modes[c] = None
  BY DEF Init, Off, Idle
<1>3. ListedOnce /\ RegistryFollowsHandlers /\ QueueInv /\ SentInv /\ ReceivedInOrder
  BY <1>2 DEF ListedOnce, RegistryFollowsHandlers, Registered, QueueInv, SentInv, ReceivedInOrder
<1>4. Behind = {}
  BY <1>2 DEF Behind
<1>5. BehindInv
  BY <1>2, <1>4, FS_EmptySet DEF BehindInv
<1> QED BY <1>1, <1>3, <1>5 DEF LiveInv

LEMMA LiveStep == LiveInv /\ [Next]_liveVars => LiveInv'
BY LiveTypes, RegistryKeeps, QueueKeeps, SentKeeps, OrderKeeps, BehindKeeps DEF LiveInv

\* The invariant holds of every behaviour: LiveTypeOK and ListedOnce with it.
THEOREM LiveInvariant == LiveSpec => []LiveInv
<1>1. Init => LiveInv
  BY LiveInitial
<1>2. LiveInv /\ [Next]_liveVars => LiveInv'
  BY LiveStep
<1> QED BY <1>1, <1>2, PTL DEF LiveSpec

\* ReceivedInOrder: whatever the clients do while _broadcast_event iterates over the list,
\* each gets the events in the order of the queue, and none twice.
THEOREM OrderTheorem == LiveSpec => []ReceivedInOrder
<1>1. LiveInv => ReceivedInOrder
  BY DEF LiveInv
<1> QED BY <1>1, LiveInvariant, PTL

\* MissedForADepartureOnly: a client that _broadcast_event passes over was moved by the
\* departure of another one, and each departure costs at most one client the event.
THEOREM MissedTheorem == LiveSpec => []MissedForADepartureOnly
<1>1. LiveInv => MissedForADepartureOnly
  <2> SUFFICES ASSUME LiveInv
               PROVE  MissedForADepartureOnly
    OBVIOUS
  <2> DEFINE overlooked == {i \in DOMAIN active : i < cast.at /\ active[i] \notin passed}
  <2>1. LiveTypeOK /\ BehindInv
    BY DEF LiveInv
  <2>2. DOMAIN active = 1..Len(active) /\ cast.at \in Nat /\ left \in Nat
    BY <2>1, LenProperties DEF LiveTypeOK
  <2>3. overlooked \in SUBSET Behind
    BY <2>2 DEF Behind
  <2> HIDE DEF overlooked
  <2>4. Cardinality(overlooked) <= Cardinality(Behind) /\ Cardinality(overlooked) \in Nat
        /\ Cardinality(Behind) \in Nat
    BY <2>1, <2>3, BehindFinite, FS_Subset, FS_CardinalityType
  <2>5. Cardinality(overlooked) <= left
    BY <2>1, <2>2, <2>4 DEF BehindInv
  <2> QED BY <2>5 DEF MissedForADepartureOnly, overlooked
<1> QED BY <1>1, LiveInvariant, PTL

\* RegistryFollowsHandlers: what disconnect, set_client_filters and set_client_mode do in
\* any order leaves no filter or mode of a client whose handler ended in order.
THEOREM RegistryTheorem == LiveSpec => []RegistryFollowsHandlers
<1>1. LiveInv => RegistryFollowsHandlers
  BY DEF LiveInv
<1> QED BY <1>1, LiveInvariant, PTL

-----------------------------------------------------------------------------
(* The monitor's connection to the broker. *)

\* The gauge that nothing has passed by counts under the names of the tasks only, and the
\* connection knows the name of every task the worker holds.
NamesKnown ==
    "prefetch" \notin missed =>
        /\ prefetch["unknown"] = 0
        /\ Held \subseteq known

MonitorInv == MonitorTypeOK /\ NamesKnown /\ GaugesNeverOver

-----------------------------------------------------------------------------
LEMMA HoldingFinite ==
  ASSUME NEW state
  PROVE  /\ IsFiniteSet(Holding(state)) /\ Cardinality(Holding(state)) \in Nat
         /\ IsFiniteSet(Holding(state)') /\ Cardinality(Holding(state)') \in Nat
<1>1. Holding(state) \in SUBSET Tasks /\ Holding(state)' \in SUBSET Tasks
  BY DEF Holding
<1> QED BY <1>1, TasksAssumption, FS_Subset, FS_CardinalityType

LEMMA LessType ==
  ASSUME NEW count \in Nat
  PROVE  Less(count) \in Nat /\ Less(count) <= count
         /\ \A n \in Nat : count <= n + 1 => Less(count) <= n
  BY DEF Less

\* A step of the worker moves one task from one set of tasks to another.
LEMMA WorkMoves ==
  ASSUME MonitorTypeOK, NEW t \in Tasks, NEW type \in Types, Work(t, type)
  PROVE  /\ phase' \in [Tasks -> Phases] /\ retries' \in [Tasks -> 0..MaxRetries]
         /\ Holding("received")' = IF type = "received" THEN Holding("received") \cup {t}
                                   ELSE Holding("received") \ {t}
         /\ Holding("started")' = IF type = "started" THEN Holding("started") \cup {t}
                                  ELSE Holding("started") \ {t}
         /\ type = "received" => t \notin Holding("received") /\ t \notin Holding("started")
         /\ type = "started" => t \in Holding("received") /\ t \notin Holding("started")
         /\ type # "received" => t \in Holding("received") \cup Holding("started")
<1>1. phase \in [Tasks -> Phases] /\ retries \in [Tasks -> 0..MaxRetries]
  BY DEF MonitorTypeOK
<1>2. phase' \in [Tasks -> Phases]
  BY <1>1 DEF Work, Phases, Types
<1>3. retries' \in [Tasks -> 0..MaxRetries]
  BY <1>1, BoundAssumption DEF Work
<1>4. \A s \in Tasks : s # t => phase'[s] = phase[s]
  BY <1>1 DEF Work
<1>5. /\ phase'[t] = "received" <=> type = "received"
      /\ phase'[t] = "started" <=> type = "started"
  BY <1>1 DEF Work, Types
<1>6. /\ type = "received" => phase[t] = "new"
      /\ type = "started" => phase[t] = "received"
      /\ type # "received" => phase[t] \in {"received", "started"}
  BY DEF Work, Types
<1> QED BY <1>2, <1>3, <1>4, <1>5, <1>6 DEF Holding

\* How an event moves the gauges.
LEMMA GaugesMove ==
  ASSUME MonitorTypeOK, NEW type \in Types, NEW name \in Names, RecordTaskEvent(type, name)
  PROVE  /\ activeCount' = IF type = "received" THEN activeCount
                      ELSE IF type = "started" THEN activeCount + 1 ELSE Less(activeCount)
         /\ prefetch' = [prefetch EXCEPT ![name] = IF type = "received"
                           THEN prefetch[name] + 1 ELSE Less(prefetch[name])]
         /\ activeCount' \in Nat /\ prefetch' \in [Names -> Nat]
<1>1. activeCount \in Nat /\ prefetch \in [Names -> Nat] /\ prefetch[name] \in Nat
  BY DEF MonitorTypeOK
<1>2. Less(activeCount) \in Nat /\ Less(prefetch[name]) \in Nat
  BY <1>1, LessType
<1>3. CASE type = "received"
  BY <1>1, <1>2, <1>3 DEF RecordTaskEvent, MoreOf
<1>4. CASE type = "started"
  BY <1>1, <1>2, <1>4 DEF RecordTaskEvent, LessOf
<1>5. CASE type \notin {"received", "started"}
  BY <1>1, <1>2, <1>5 DEF RecordTaskEvent, LessOf
<1> QED BY <1>3, <1>4, <1>5

LEMMA NameIsName == ASSUME NEW t, NEW type PROVE NameOf(t, type) \in Names
  BY DEF NameOf, Names

-----------------------------------------------------------------------------
LEMMA ReceiveKeeps ==
  ASSUME MonitorInv, NEW t \in Tasks, NEW type \in Types, Receive(t, type)
  PROVE  MonitorInv'
<1> DEFINE name == NameOf(t, type)
           R == Holding("received")
           S == Holding("started")
<1>1. MonitorTypeOK /\ name \in Names /\ Work(t, type) /\ RecordTaskEvent(type, name)
      /\ UNCHANGED <<loopVars, missed>>
  BY NameIsName DEF MonitorInv, Receive
<1>2. known' = (IF type = "received" THEN known \cup {t} ELSE known)
  BY DEF Receive
<1>m. /\ phase' \in [Tasks -> Phases] /\ retries' \in [Tasks -> 0..MaxRetries]
      /\ R' = IF type = "received" THEN R \cup {t} ELSE R \ {t}
      /\ S' = IF type = "started" THEN S \cup {t} ELSE S \ {t}
      /\ type = "received" => t \notin R /\ t \notin S
      /\ type = "started" => t \in R /\ t \notin S
      /\ type # "received" => t \in R \cup S
  BY <1>1, WorkMoves
<1>g. /\ activeCount' = IF type = "received" THEN activeCount
                   ELSE IF type = "started" THEN activeCount + 1 ELSE Less(activeCount)
      /\ prefetch' = [prefetch EXCEPT ![name] = IF type = "received"
                        THEN prefetch[name] + 1 ELSE Less(prefetch[name])]
      /\ activeCount' \in Nat /\ prefetch' \in [Names -> Nat]
  BY <1>1, GaugesMove
<1>3. MonitorTypeOK'
  BY <1>1, <1>2, <1>m, <1>g DEF MonitorTypeOK, loopVars
<1> HIDE DEF name
<1>4. ASSUME "prefetch" \notin missed'
      PROVE  name = "named" /\ prefetch["unknown"] = 0 /\ R \cup S \subseteq known
             /\ prefetch["named"] <= Cardinality(R)
  <2>1. prefetch["unknown"] = 0 /\ R \cup S \subseteq known
    BY <1>1, <1>4 DEF MonitorInv, NamesKnown, Held
  <2>2. name = "named"
    BY <2>1, <1>m DEF name, NameOf
  <2>3. prefetch["named"] \in Nat
    BY DEF MonitorInv, MonitorTypeOK, Names
  <2>4. prefetch["named"] + prefetch["unknown"] <= Cardinality(R)
    BY <1>1, <1>4 DEF MonitorInv, GaugesNeverOver, Prefetched
  <2> QED BY <2>1, <2>2, <2>3, <2>4
<1>5. NamesKnown'
  <2> SUFFICES ASSUME "prefetch" \notin missed'
               PROVE  prefetch'["unknown"] = 0 /\ R' \cup S' \subseteq known'
    BY DEF NamesKnown, Held
  <2>1. prefetch'["unknown"] = 0
    BY <1>1, <1>4, <1>g DEF MonitorTypeOK, Names
  <2>2. R' \cup S' \subseteq known'
    BY <1>2, <1>4, <1>m
  <2> QED BY <2>1, <2>2
<1>f. /\ IsFiniteSet(R) /\ Cardinality(R) \in Nat /\ IsFiniteSet(S) /\ Cardinality(S) \in Nat
  BY HoldingFinite
<1>6. /\ Cardinality(R') = IF type = "received" THEN Cardinality(R) + 1
                           ELSE IF t \in R THEN Cardinality(R) - 1 ELSE Cardinality(R)
      /\ Cardinality(S') = IF type = "started" THEN Cardinality(S) + 1
                           ELSE IF t \in S THEN Cardinality(S) - 1 ELSE Cardinality(S)
  <2>1. /\ Cardinality(R \cup {t}) = IF t \in R THEN Cardinality(R) ELSE Cardinality(R) + 1
        /\ Cardinality(R \ {t}) = IF t \in R THEN Cardinality(R) - 1 ELSE Cardinality(R)
    BY <1>f, FS_AddElement, FS_RemoveElement
  <2>2. /\ Cardinality(S \cup {t}) = IF t \in S THEN Cardinality(S) ELSE Cardinality(S) + 1
        /\ Cardinality(S \ {t}) = IF t \in S THEN Cardinality(S) - 1 ELSE Cardinality(S)
    BY <1>f, FS_AddElement, FS_RemoveElement
  <2> QED BY <1>m, <2>1, <2>2
<1>7. ASSUME "active" \notin missed'
      PROVE  activeCount' <= Cardinality(S')
  <2>1. activeCount \in Nat /\ activeCount <= Cardinality(S)
    BY <1>1, <1>7 DEF MonitorInv, MonitorTypeOK, GaugesNeverOver
  <2>2. CASE type = "received"
    BY <2>1, <2>2, <1>6, <1>g, <1>m
  <2>3. CASE type = "started"
    BY <2>1, <2>3, <1>6, <1>g, <1>f
  <2>4. CASE type \notin {"received", "started"}
    <3>1. activeCount' = Less(activeCount) /\ (activeCount' = 0 \/ activeCount' = activeCount - 1)
      BY <2>1, <2>4, <1>g DEF Less
    <3>2. Cardinality(S') \in Nat /\ Cardinality(S') >= Cardinality(S) - 1
      <4>1. Cardinality(S') = IF t \in S THEN Cardinality(S) - 1 ELSE Cardinality(S)
        BY <2>4, <1>6
      <4>2. Cardinality(S') \in Nat
        BY HoldingFinite
      <4> HIDE DEF S
      <4> QED BY <4>1, <4>2, <1>f
    <3> HIDE DEF S
    <3> QED BY <2>1, <3>1, <3>2, <1>f
  <2> QED BY <2>2, <2>3, <2>4
<1>8. ASSUME "prefetch" \notin missed'
      PROVE  prefetch'["named"] + prefetch'["unknown"] <= Cardinality(R')
  <2>1. prefetch["named"] \in Nat
    BY <1>1 DEF MonitorTypeOK, Names
  <2>2. prefetch'["unknown"] = 0
    BY <1>5, <1>8 DEF NamesKnown
  <2>3. prefetch'["named"] = IF type = "received" THEN prefetch["named"] + 1
                             ELSE Less(prefetch["named"])
    BY <1>g, <1>4, <1>8, <1>1 DEF MonitorTypeOK, Names
  <2>4. CASE type = "received"
    BY <2>1, <2>2, <2>3, <2>4, <1>4, <1>8, <1>6, <1>f
  <2>5. CASE type # "received"
    <3>1. prefetch'["named"] = 0 \/ prefetch'["named"] = prefetch["named"] - 1
      BY <2>3, <2>5 DEF Less
    <3>2. Cardinality(R') \in Nat /\ Cardinality(R') >= Cardinality(R) - 1
      <4>1. Cardinality(R') = IF t \in R THEN Cardinality(R) - 1 ELSE Cardinality(R)
        BY <2>5, <1>6
      <4>2. Cardinality(R') \in Nat
        BY HoldingFinite
      <4> HIDE DEF R
      <4> QED BY <4>1, <4>2, <1>f
    <3> HIDE DEF R
    <3> QED BY <2>1, <2>2, <3>1, <3>2, <1>4, <1>8, <1>f
  <2> QED BY <2>4, <2>5
<1> QED BY <1>3, <1>5, <1>7, <1>8 DEF MonitorInv, GaugesNeverOver, Prefetched

-----------------------------------------------------------------------------
\* Steps after which both gauges have missed something, and those that leave the worker,
\* the gauges and what they count alone.
LEMMA MissedKeeps ==
  ASSUME MonitorTypeOK', missed' = Gauges
  PROVE  MonitorInv'
  BY DEF MonitorInv, NamesKnown, GaugesNeverOver, Gauges

LEMMA LoopKeeps ==
  ASSUME MonitorInv, MonitorTypeOK', UNCHANGED <<worldVars, known, gaugeVars>>
  PROVE  MonitorInv'
  BY DEF MonitorInv, NamesKnown, Held, GaugesNeverOver, Prefetched, Holding, worldVars, gaugeVars

\* When names go, the gauge counts on only if no task that is held loses its name.
LEMMA ForgetKeeps ==
  ASSUME MonitorInv, NEW tasks \in SUBSET Tasks, Forget(tasks),
         UNCHANGED <<worldVars, delay, stop, activeCount, prefetch>>,
         conn' \in {"up", "sleeping", "exited"}
  PROVE  MonitorInv'
<1>1. /\ known' = known \ tasks
      /\ \/ missed' = missed /\ known \cap tasks \cap Held = {}
         \/ missed' = missed \cup {"prefetch"}
  BY DEF Forget
<1>2. MonitorTypeOK'
  BY <1>1 DEF MonitorInv, MonitorTypeOK, Gauges, worldVars
<1>3. Held' = Held /\ Holding("received")' = Holding("received")
      /\ Holding("started")' = Holding("started")
  BY DEF Held, Holding, worldVars
<1>4. NamesKnown'
  BY <1>1, <1>3 DEF MonitorInv, NamesKnown
<1>5. GaugesNeverOver'
  BY <1>1, <1>3 DEF MonitorInv, GaugesNeverOver, Prefetched
<1> QED BY <1>2, <1>4, <1>5 DEF MonitorInv

LEMMA DoublingBounded ==
  ASSUME MonitorTypeOK PROVE Doubled \in BaseDelay..MaxDelay
  BY DelayAssumption DEF MonitorTypeOK, Doubled

LEMMA StepKeeps == MonitorInv /\ [MonitorNext]_monitorVars => MonitorInv'
<1> SUFFICES ASSUME MonitorInv, [MonitorNext]_monitorVars PROVE MonitorInv'
  OBVIOUS
<1>t. MonitorTypeOK
  BY DEF MonitorInv
<1>1. CASE ConnectBroker
  <2>1. known \in SUBSET Tasks
    BY <1>t DEF MonitorTypeOK
  <2> QED BY <1>1, <2>1, ForgetKeeps DEF ConnectBroker
<1>2. CASE Breaks
  <2>1. MonitorTypeOK'
    BY <1>2, <1>t, DoublingBounded DEF MonitorTypeOK, Breaks, worldVars, gaugeVars
  <2> QED BY <2>1, <1>2, LoopKeeps DEF Breaks
<1>3. CASE Closes \/ Stop \/ Exit
  <2>1. MonitorTypeOK'
    <3>1. /\ UNCHANGED <<phase, retries, known, activeCount, prefetch, missed>>
          /\ delay' \in {delay, BaseDelay} /\ stop' \in {stop, TRUE}
          /\ conn' \in {conn, "sleeping", "exited"}
      BY <1>3 DEF Closes, Stop, Exit, worldVars, gaugeVars
    <3>2. BaseDelay \in BaseDelay..MaxDelay
      BY DelayAssumption
    <3> QED BY <3>1, <3>2, <1>t DEF MonitorTypeOK
  <2> QED BY <2>1, <1>3, LoopKeeps DEF Closes, Stop, Exit
<1>4. CASE Restart
  <2>1. MonitorTypeOK'
    <3>1. BaseDelay \in BaseDelay..MaxDelay
      BY DelayAssumption
    <3> QED BY <1>4, <1>t, <3>1 DEF MonitorTypeOK, Restart, Gauges, worldVars
  <2> QED BY <2>1, <1>4, MissedKeeps DEF Restart
<1>5. ASSUME NEW t \in Tasks, NEW type \in Types, Receive(t, type) \/ Lose(t, type)
      PROVE  MonitorInv'
  <2>1. CASE Receive(t, type)
    BY <2>1, ReceiveKeeps
  <2>2. CASE Lose(t, type)
    <3>1. phase' \in [Tasks -> Phases] /\ retries' \in [Tasks -> 0..MaxRetries]
      BY <2>2, <1>t, WorkMoves DEF Lose
    <3>2. MonitorTypeOK'
      BY <3>1, <2>2, <1>t DEF MonitorTypeOK, Lose, loopVars
    <3> QED BY <3>2, <2>2, MissedKeeps DEF Lose
  <2> QED BY <1>5, <2>1, <2>2
<1>6. CASE Heartbeat
  <2>0. Cardinality(Holding("started")) \in Nat
    BY HoldingFinite
  <2>1. MonitorTypeOK'
    BY <1>6, <1>t, <2>0 DEF MonitorTypeOK, Heartbeat, worldVars, loopVars
  <2>2. NamesKnown'
    BY <1>6 DEF Heartbeat, MonitorInv, NamesKnown, Held, Holding, worldVars
  <2>3. Holding("started")' = Holding("started") /\ Holding("received")' = Holding("received")
    BY <1>6 DEF Heartbeat, Holding, worldVars
  <2>4. GaugesNeverOver'
    BY <1>6, <2>0, <2>3 DEF Heartbeat, MonitorInv, GaugesNeverOver, Prefetched
  <2> QED BY <2>1, <2>2, <2>4 DEF MonitorInv
<1>7. CASE Offline
  <2>1. phase' \in [Tasks -> Phases]
    BY <1>7, <1>t DEF MonitorTypeOK, Offline, Phases
  <2>2. MonitorTypeOK'
    BY <1>7, <1>t, <2>1 DEF MonitorTypeOK, Offline, loopVars
  <2>3. CASE conn # "up"
    BY <2>2, <2>3, <1>7, MissedKeeps DEF Offline
  <2>4. CASE conn = "up"
    <3>1. /\ activeCount' = 0 /\ prefetch'["named"] = 0 /\ prefetch'["unknown"] = 0
      BY <2>4, <1>7 DEF Offline, Names
    <3>2. Holding("received")' = {} /\ Holding("started")' = {}
      BY <1>7 DEF Offline, Holding
    <3>3. NamesKnown'
      BY <3>1, <3>2 DEF NamesKnown, Held
    <3>4. GaugesNeverOver'
      BY <3>1, <3>2, FS_EmptySet DEF GaugesNeverOver, Prefetched
    <3> QED BY <2>2, <3>3, <3>4 DEF MonitorInv
  <2> QED BY <2>3, <2>4
<1>8. ASSUME NEW t \in Tasks, TaskSent(t)
      PROVE  MonitorInv'
  <2>1. known' = known \cup {t} /\ UNCHANGED <<worldVars, loopVars, gaugeVars>>
    BY <1>8 DEF TaskSent
  <2>2. MonitorTypeOK'
    BY <2>1, <1>t DEF MonitorTypeOK, worldVars, loopVars, gaugeVars
  <2>3. NamesKnown' /\ GaugesNeverOver'
    BY <2>1 DEF MonitorInv, NamesKnown, Held, GaugesNeverOver, Prefetched, Holding, worldVars,
                gaugeVars
  <2> QED BY <2>2, <2>3 DEF MonitorInv
<1>9. ASSUME NEW t \in Tasks, Evict(t)
      PROVE  MonitorInv'
  <2>1. conn' = "up" /\ UNCHANGED <<delay, stop>>
    BY <1>9 DEF Evict, loopVars
  <2> QED BY <1>9, <2>1, ForgetKeeps DEF Evict
<1>10. CASE UNCHANGED monitorVars
  BY <1>10 DEF monitorVars, worldVars, loopVars, gaugeVars, MonitorInv, MonitorTypeOK,
               NamesKnown, Held, GaugesNeverOver, Prefetched, Holding
<1> QED BY <1>1, <1>2, <1>3, <1>4, <1>5, <1>6, <1>7, <1>8, <1>9, <1>10 DEF MonitorNext

LEMMA InitHolds == MonitorInit => MonitorInv
<1> SUFFICES ASSUME MonitorInit PROVE MonitorInv
  OBVIOUS
<1>1. MonitorTypeOK
  <2>1. BaseDelay \in BaseDelay..MaxDelay /\ 0 \in 0..MaxRetries
    BY DelayAssumption, BoundAssumption
  <2> QED BY <2>1 DEF MonitorInit, MonitorTypeOK, Phases, Gauges
<1>2. Holding("received") = {} /\ Holding("started") = {}
  BY DEF MonitorInit, Holding
<1>3. activeCount = 0 /\ prefetch["named"] = 0 /\ prefetch["unknown"] = 0
  BY DEF MonitorInit, Names
<1> QED BY <1>1, <1>2, <1>3, FS_EmptySet
      DEF MonitorInv, NamesKnown, Held, GaugesNeverOver, Prefetched

LEMMA MonitorInvHolds == MonitorSpec => []MonitorInv
<1> QED BY InitHolds, StepKeeps, PTL DEF MonitorSpec

-----------------------------------------------------------------------------
\* The delay before the next attempt stays between _RECONNECT_BASE_DELAY and
\* _RECONNECT_MAX_DELAY however often it doubles, and the gauges never go below 0.
THEOREM MonitorTypeCorrect == MonitorSpec => []MonitorTypeOK
<1>1. MonitorInv => MonitorTypeOK
  BY DEF MonitorInv
<1> QED BY <1>1, MonitorInvHolds, PTL

\* The gauges never show more tasks than the worker runs or has reserved, unless an event
\* did not reach them (MetricsCollector.record_task_event and record_worker_event).
THEOREM GaugesAreNeverOver == MonitorSpec => []GaugesNeverOver
<1>1. MonitorInv => GaugesNeverOver
  BY DEF MonitorInv
<1> QED BY <1>1, MonitorInvHolds, PTL
=============================================================================
