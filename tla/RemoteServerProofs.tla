------------------------- MODULE RemoteServerProofs -------------------------
(* The shared listeners of RemoteServer, for any number of connections,    *)
(* tunnels and bind:port pairs: the round-robin order, who takes a turn,   *)
(* which listener the map names and who is registered.                     *)
EXTENDS RemoteServer, SequenceTheorems, TLAPS

-----------------------------------------------------------------------------
(* Sequences *)

LEMMA ModFacts ==
  ASSUME NEW n \in Nat \ {0}, NEW a \in 0..n
  PROVE  a % n = IF a = n THEN 0 ELSE a
  OBVIOUS

LEMMA AppendOrder ==
  ASSUME NEW q \in Seq(Conns), NEW c \in Conns, IsInjective(q), c \notin Range(q)
  PROVE  /\ Append(q, c) \in Seq(Conns)
         /\ Len(Append(q, c)) = Len(q) + 1
         /\ \A j \in 1..Len(q) : Append(q, c)[j] = q[j]
         /\ Append(q, c)[Len(q) + 1] = c
         /\ IsInjective(Append(q, c))
         /\ Range(Append(q, c)) = Range(q) \cup {c}
  <1>1. /\ Append(q, c) \in Seq(Conns) /\ Len(Append(q, c)) = Len(q) + 1
        /\ DOMAIN q = 1..Len(q) /\ DOMAIN Append(q, c) = 1..(Len(q) + 1)
        /\ Len(q) \in Nat
        /\ \A j \in 1..Len(q) : Append(q, c)[j] = q[j]
        /\ Append(q, c)[Len(q) + 1] = c
    OBVIOUS
  <1>2. \A j \in 1..(Len(q) + 1) : j \in 1..Len(q) \/ j = Len(q) + 1
    BY <1>1
  <1>3. Len(q) + 1 \in 1..(Len(q) + 1) /\ \A j \in 1..Len(q) : j \in 1..(Len(q) + 1)
    BY <1>1
  <1>4. Range(Append(q, c)) = Range(q) \cup {c}
    BY <1>1, <1>2, <1>3, Zenon DEF Range
  <1>5. \A j \in 1..Len(q) : q[j] # c
    BY <1>1 DEF Range
  <1>6. IsInjective(Append(q, c))
    BY <1>1, <1>2, <1>5 DEF IsInjective
  <1> QED
    BY <1>1, <1>4, <1>6

LEMMA RemoveOrder ==
  ASSUME NEW q \in Seq(Conns), NEW i \in DOMAIN q, IsInjective(q)
  PROVE  /\ RemoveAt(q, i) \in Seq(Conns)
         /\ Len(RemoveAt(q, i)) = Len(q) - 1
         /\ \A j \in 1..(Len(q) - 1) : RemoveAt(q, i)[j] = IF j < i THEN q[j] ELSE q[j + 1]
         /\ IsInjective(RemoveAt(q, i))
         /\ Range(RemoveAt(q, i)) = Range(q) \ {q[i]}
  <1> DEFINE r == RemoveAt(q, i)
             a == SubSeq(q, 1, i - 1)
             b == SubSeq(q, i + 1, Len(q))
  <1>0. Len(q) \in Nat /\ DOMAIN q = 1..Len(q) /\ i \in 1..Len(q)
    OBVIOUS
  <1>1. /\ a \in Seq(Conns) /\ Len(a) = i - 1
        /\ \A j \in 1..(i - 1) : a[j] = q[j]
    BY <1>0
  <1>2. /\ b \in Seq(Conns) /\ Len(b) = Len(q) - i
        /\ \A j \in 1..(Len(q) - i) : b[j] = q[i + j]
    BY <1>0
  <1>3. r = a \o b
    BY DEF RemoveAt
  <1> HIDE DEF r, a, b
  <1>4. /\ r \in Seq(Conns) /\ Len(r) = Len(q) - 1
        /\ DOMAIN r = 1..(Len(q) - 1)
    <2>1. r \in Seq(Conns) /\ Len(r) = Len(a) + Len(b)
      BY <1>1, <1>2, <1>3, ConcatProperties
    <2>2. Len(a) + Len(b) = Len(q) - 1
      BY <1>0, <1>1, <1>2
    <2>3. DOMAIN r = 1..Len(r)
      BY <2>1
    <2> QED
      BY <2>1, <2>2, <2>3
  <1>5. ASSUME NEW j \in 1..(Len(q) - 1)
        PROVE  r[j] = IF j < i THEN q[j] ELSE q[j + 1]
    <2>1. CASE j < i
      BY <2>1, <1>0, <1>1, <1>2, <1>3
    <2>2. CASE ~(j < i)
      <3>1. j - Len(a) \in 1..Len(b) /\ j - Len(a) = j - (i - 1) /\ i + (j - (i - 1)) = j + 1
        BY <2>2, <1>0, <1>1, <1>2
      <3>2. r[j] = b[j - (i - 1)]
        <4>1. j > Len(a) /\ j \in 1..(Len(a) + Len(b))
          BY <2>2, <1>0, <1>1, <1>2
        <4>2. \A m \in 1..(Len(a) + Len(b)) :
                (a \o b)[m] = IF m <= Len(a) THEN a[m] ELSE b[m - Len(a)]
          BY <1>1, <1>2, ConcatProperties
        <4>3. ~(j <= Len(a))
          BY <4>1, <1>0, <1>1
        <4>4. (a \o b)[j] = b[j - Len(a)]
          BY <4>1, <4>2, <4>3, Zenon
        <4> QED
          BY <1>3, <3>1, <4>4
      <3>3. b[j - (i - 1)] = q[j + 1]
        BY <3>1, <1>2
      <3> QED
        BY <2>2, <3>2, <3>3
    <2> QED
      BY <2>1, <2>2
  <1>6. IsInjective(r)
    <2> SUFFICES ASSUME NEW j \in 1..(Len(q) - 1), NEW k \in 1..(Len(q) - 1), r[j] = r[k]
                 PROVE  j = k
      BY <1>4 DEF IsInjective
    <2> DEFINE at(x) == IF x < i THEN x ELSE x + 1
    <2>1. at(j) \in DOMAIN q /\ at(k) \in DOMAIN q
      BY <1>0
    <2>2. r[j] = q[at(j)] /\ r[k] = q[at(k)]
      BY <1>5
    <2>3. at(j) = at(k)
      <3> HIDE DEF at
      <3> QED
        BY <2>1, <2>2 DEF IsInjective
    <2> QED
      BY <1>0, <2>3
  <1>7. ASSUME NEW j \in DOMAIN r
        PROVE  r[j] \in Range(q) \ {q[i]}
    <2>1. PICK k \in DOMAIN q : r[j] = q[k] /\ k # i
      <3>1. j \in 1..(Len(q) - 1) /\ j \in DOMAIN q /\ j + 1 \in DOMAIN q
        BY <1>0, <1>4
      <3>2. CASE j < i
        BY <3>1, <3>2, <1>0, <1>5
      <3>3. CASE ~(j < i)
        <4>1. r[j] = q[j + 1] /\ j + 1 # i
          BY <3>1, <3>3, <1>0, <1>5
        <4> QED
          BY <3>1, <4>1
      <3> QED
        BY <3>2, <3>3
    <2> QED
      BY <2>1 DEF IsInjective, Range
  <1>8. ASSUME NEW k \in DOMAIN q, k # i
        PROVE  q[k] \in Range(r)
    <2>1. \E j \in DOMAIN r : r[j] = q[k]
      <3>1. CASE k < i
        BY <3>1, <1>0, <1>4, <1>5
      <3>2. CASE k > i
        <4>1. k - 1 \in DOMAIN r /\ ~(k - 1 < i) /\ (k - 1) + 1 = k
          BY <3>2, <1>0, <1>4
        <4> QED
          BY <4>1, <1>5, <1>4
      <3> QED
        BY <3>1, <3>2, <1>0, <1>8
    <2> QED
      BY <2>1 DEF Range
  <1>9. Range(r) = Range(q) \ {q[i]}
    <2>1. Range(r) \subseteq Range(q) \ {q[i]}
      BY <1>7 DEF Range
    <2>2. Range(q) \ {q[i]} \subseteq Range(r)
      BY <1>8 DEF Range
    <2> QED
      BY <2>1, <2>2
  <1> QED
    BY <1>4, <1>5, <1>6, <1>9 DEF r

-----------------------------------------------------------------------------
(* One shared listener *)

(* OrderConsistent, and next is back at 0 once the order is empty: without *)
(* that the first to join again would find next beyond the order.          *)
Consistent(sl) ==
  /\ IsInjective(sl.order) /\ Range(sl.order) = sl.conns
  /\ IF sl.order = <<>> THEN sl.next = 0 ELSE sl.next < Len(sl.order)

(* How many turns pass before the j-th of the order is served. *)
Ahead(sl, j) ==
  IF sl.next < j THEN j - 1 - sl.next ELSE Len(sl.order) + j - 1 - sl.next

(* RoundRobin is not inductive: what it says of the counts must be tied to *)
(* next.  Whoever is served sooner had at most as many turns, and at most  *)
(* one less.                                                               *)
InRotation(sl) ==
  \A j, k \in DOMAIN sl.order : Ahead(sl, j) <= Ahead(sl, k) =>
    /\ sl.turns[sl.order[j]] <= sl.turns[sl.order[k]]
    /\ sl.turns[sl.order[k]] <= sl.turns[sl.order[j]] + 1

Orderly(sl) == Consistent(sl) /\ InRotation(sl)

LEMMA ListenerType ==
  ASSUME NEW sl \in SharedListener
  PROVE  /\ sl.key \in Keys /\ sl.order \in Seq(Conns) /\ sl.conns \in SUBSET Conns
         /\ sl.next \in Nat /\ sl.closed \in BOOLEAN /\ sl.lnOpen \in BOOLEAN
         /\ sl.accepting \in BOOLEAN /\ sl.turns \in [Conns -> Nat]
         /\ Len(sl.order) \in Nat /\ DOMAIN sl.order = 1..Len(sl.order)
         /\ \A j \in DOMAIN sl.order : sl.order[j] \in Conns
  BY DEF SharedListener

(* The order has not changed: next and turns neither, or the counts start  *)
(* again.                                                                  *)
LEMMA NoTurnsInRotation ==
  ASSUME NEW sl \in SharedListener, sl.turns = noTurns
  PROVE  InRotation(sl)
  BY ListenerType DEF InRotation, noTurns

LEMMA NewOrderly ==
  ASSUME NEW c \in Conns, NEW sl \in SharedListener,
         sl.order = <<c>>, sl.conns = {c}, sl.next = 0, sl.turns = noTurns
  PROVE  Orderly(sl)
  <1>1. Consistent(sl)
    BY DEF Consistent, IsInjective, Range
  <1> QED
    BY <1>1, NoTurnsInRotation DEF Orderly

LEMMA TurnIs ==
  ASSUME NEW sl \in SharedListener, Consistent(sl), sl.order # <<>>
  PROVE  /\ Len(sl.order) > 0
         /\ sl.next + 1 \in DOMAIN sl.order
         /\ Turn(sl) = sl.order[sl.next + 1]
         /\ Turn(sl) \in sl.conns
  <1>1. Len(sl.order) > 0 /\ sl.next < Len(sl.order)
    BY ListenerType DEF Consistent
  <1>2. sl.next % Len(sl.order) = sl.next
    BY <1>1, ListenerType, ModFacts
  <1>3. sl.next + 1 \in DOMAIN sl.order
    BY <1>1, ListenerType
  <1> QED
    BY <1>1, <1>2, <1>3 DEF Turn, Consistent, Range

LEMMA JoinedFacts ==
  ASSUME NEW sl \in SharedListener, Orderly(sl), NEW c \in Conns
  PROVE  /\ Joined(sl, c) \in SharedListener
         /\ Orderly(Joined(sl, c))
         /\ Joined(sl, c).conns = sl.conns \cup {c}
         /\ Joined(sl, c).key = sl.key
         /\ Joined(sl, c).closed = sl.closed /\ Joined(sl, c).lnOpen = sl.lnOpen
         /\ sl.order # <<>> => /\ Turn(Joined(sl, c)) = Turn(sl)
                               /\ Turn(sl) \in Joined(sl, c).conns
  <1> DEFINE nl == [sl EXCEPT !.conns = @ \cup {c}, !.order = Append(@, c), !.turns = noTurns]
  <1>1. CASE c \in sl.conns
    BY <1>1, TurnIs DEF Joined, Orderly
  <1>2. CASE c \notin sl.conns
    <2>1. Joined(sl, c) = nl
      BY <1>2 DEF Joined
    <2>2. /\ nl \in SharedListener
          /\ nl.conns = sl.conns \cup {c} /\ nl.order = Append(sl.order, c)
          /\ nl.key = sl.key /\ nl.next = sl.next /\ nl.turns = noTurns
          /\ nl.closed = sl.closed /\ nl.lnOpen = sl.lnOpen
      <3>1. /\ Append(sl.order, c) \in Seq(Conns) /\ sl.conns \cup {c} \in SUBSET Conns
            /\ noTurns \in [Conns -> Nat]
        BY ListenerType DEF noTurns
      <3> QED
        BY <3>1 DEF SharedListener
    <2> HIDE DEF nl
    <2>3. /\ IsInjective(sl.order) /\ Range(sl.order) = sl.conns
          /\ IF sl.order = <<>> THEN sl.next = 0 ELSE sl.next < Len(sl.order)
      BY DEF Orderly, Consistent
    <2>4. c \notin Range(sl.order) /\ sl.order \in Seq(Conns)
      BY <1>2, <2>3, ListenerType
    <2>5. /\ Len(nl.order) = Len(sl.order) + 1
          /\ \A j \in 1..Len(sl.order) : nl.order[j] = sl.order[j]
          /\ IsInjective(nl.order)
          /\ Range(nl.order) = sl.conns \cup {c}
      BY <2>2, <2>3, <2>4, AppendOrder
    <2>6. nl.next < Len(nl.order) /\ nl.order # <<>>
      BY <2>2, <2>3, <2>5, ListenerType
    <2>7. Consistent(nl)
      BY <2>2, <2>5, <2>6 DEF Consistent
    <2>8. Orderly(nl)
      BY <2>2, <2>7, NoTurnsInRotation DEF Orderly
    <2>9. ASSUME sl.order # <<>>
          PROVE  Turn(nl) = Turn(sl) /\ Turn(sl) \in nl.conns
      <3>1. sl.next + 1 \in 1..Len(sl.order) /\ Turn(sl) = sl.order[sl.next + 1]
            /\ Turn(sl) \in sl.conns
        BY <2>9, TurnIs, ListenerType DEF Orderly
      <3>2. Turn(nl) = nl.order[nl.next + 1]
        BY <2>2, <2>6, <2>7, TurnIs
      <3> QED
        BY <2>2, <2>5, <3>1, <3>2
    <2> QED
      BY <2>1, <2>2, <2>8, <2>9
  <1> QED
    BY <1>1, <1>2

LEMMA IndexOfFacts ==
  ASSUME NEW q \in Seq(Conns), NEW c \in Range(q)
  PROVE  IndexOf(q, c) \in DOMAIN q /\ q[IndexOf(q, c)] = c
  BY DEF IndexOf, Range

LEMMA LeaveFacts ==
  ASSUME NEW sl \in SharedListener, Orderly(sl), NEW c \in sl.conns
  PROVE  /\ Leave(sl, c) \in SharedListener
         /\ Orderly(Leave(sl, c))
         /\ Leave(sl, c).conns = sl.conns \ {c}
         /\ Leave(sl, c).key = sl.key
         /\ Leave(sl, c).closed = sl.closed /\ Leave(sl, c).lnOpen = sl.lnOpen
         /\ sl.order # <<>>
         /\ Leave(sl, c).order # <<>> =>
              Turn(Leave(sl, c)) = IF Turn(sl) \in Leave(sl, c).conns THEN Turn(sl)
                                   ELSE Successor(sl.order, Turn(sl))
  <1> DEFINE nl == Leave(sl, c)
             idx == IndexOf(sl.order, c)
             n == Len(sl.order)
  <1>1. /\ IsInjective(sl.order) /\ Range(sl.order) = sl.conns
        /\ IF sl.order = <<>> THEN sl.next = 0 ELSE sl.next < n
        /\ sl.order \in Seq(Conns) /\ n \in Nat /\ DOMAIN sl.order = 1..n /\ sl.next \in Nat
    BY ListenerType DEF Orderly, Consistent
  <1>2. idx \in 1..n /\ sl.order[idx] = c
    BY <1>1, IndexOfFacts
  <1>3. sl.order # <<>> /\ n > 0 /\ sl.next < n
    BY <1>1, <1>2
  <1>4. /\ RemoveAt(sl.order, idx) \in Seq(Conns)
        /\ Len(RemoveAt(sl.order, idx)) = n - 1
        /\ \A j \in 1..(n - 1) : RemoveAt(sl.order, idx)[j] =
             IF j < idx THEN sl.order[j] ELSE sl.order[j + 1]
        /\ IsInjective(RemoveAt(sl.order, idx))
        /\ Range(RemoveAt(sl.order, idx)) = sl.conns \ {c}
    <2> HIDE DEF idx, n
    <2>1. idx \in DOMAIN sl.order
      BY <1>1, <1>2
    <2>2. /\ RemoveAt(sl.order, idx) \in Seq(Conns)
          /\ Len(RemoveAt(sl.order, idx)) = Len(sl.order) - 1
          /\ \A j \in 1..(Len(sl.order) - 1) : RemoveAt(sl.order, idx)[j] =
               IF j < idx THEN sl.order[j] ELSE sl.order[j + 1]
          /\ IsInjective(RemoveAt(sl.order, idx))
          /\ Range(RemoveAt(sl.order, idx)) = Range(sl.order) \ {sl.order[idx]}
      BY <2>1, <1>1, RemoveOrder, Zenon
    <2> QED
      BY <2>2, <1>1, <1>2, Zenon DEF n
  <1>5. NextAfterRemoval(sl.next, idx - 1, n - 1) \in Nat
    BY <1>1, <1>2, <1>3 DEF NextAfterRemoval
  <1>6. /\ nl \in SharedListener
        /\ nl.conns = sl.conns \ {c} /\ nl.order = RemoveAt(sl.order, idx)
        /\ nl.key = sl.key /\ nl.turns = noTurns
        /\ nl.next = NextAfterRemoval(sl.next, idx - 1, n - 1)
        /\ nl.closed = sl.closed /\ nl.lnOpen = sl.lnOpen
    <2> HIDE DEF idx, n
    <2> QED
      BY <1>4, <1>5 DEF Leave, SharedListener, noTurns, idx, n
  <1>7. nl.next = LET shifted == IF sl.next > idx - 1 THEN sl.next - 1 ELSE sl.next
                  IN  IF shifted >= n - 1 THEN 0 ELSE shifted
    BY <1>6 DEF NextAfterRemoval
  <1> HIDE DEF nl, idx, n
  <1>8. Consistent(nl)
    <2>1. IF nl.order = <<>> THEN nl.next = 0 ELSE nl.next < Len(nl.order)
      BY <1>1, <1>2, <1>3, <1>4, <1>6, <1>7
    <2> QED
      BY <2>1, <1>4, <1>6 DEF Consistent
  <1>9. Orderly(nl)
    BY <1>6, <1>8, NoTurnsInRotation DEF Orderly
  <1>10. ASSUME nl.order # <<>>
         PROVE  Turn(nl) = IF Turn(sl) \in nl.conns THEN Turn(sl)
                           ELSE Successor(sl.order, Turn(sl))
    <2>1. Turn(nl) = nl.order[nl.next + 1] /\ nl.next + 1 \in 1..(n - 1)
      BY <1>10, <1>4, <1>6, <1>8, TurnIs, ListenerType
    <2>2. Turn(sl) = sl.order[sl.next + 1] /\ Turn(sl) \in sl.conns
      BY <1>3, TurnIs DEF Orderly
    <2>3. sl.next + 1 \in DOMAIN sl.order /\ idx \in DOMAIN sl.order
      BY <1>1, <1>2, <1>3
    <2>4. CASE sl.next + 1 # idx
      <3>1. Turn(sl) # c
        BY <1>1, <1>2, <2>2, <2>3, <2>4 DEF IsInjective
      <3>2. nl.order[nl.next + 1] = sl.order[sl.next + 1]
        <4>1. CASE sl.next + 1 > idx
          <5>1. nl.next = sl.next - 1 /\ nl.next + 1 = sl.next /\ ~(sl.next < idx)
                /\ sl.next \in 1..(n - 1)
            BY <4>1, <1>1, <1>2, <1>3, <1>7
          <5> QED
            BY <5>1, <1>4, <1>6
        <4>2. CASE sl.next + 1 < idx
          <5>1. nl.next = sl.next /\ sl.next + 1 \in 1..(n - 1)
            BY <4>2, <1>1, <1>2, <1>3, <1>7
          <5> QED
            BY <5>1, <4>2, <1>4, <1>6
        <4> QED
          BY <2>4, <4>1, <4>2, <1>1, <1>2
      <3> QED
        BY <3>1, <3>2, <2>1, <2>2, <1>6
    <2>5. CASE sl.next + 1 = idx
      <3>1. Turn(sl) = c /\ Turn(sl) \notin nl.conns
        BY <2>5, <2>2, <1>2, <1>6
      <3>2. IndexOf(sl.order, Turn(sl)) = idx
        BY <3>1 DEF idx
      <3>3. Successor(sl.order, Turn(sl)) = sl.order[(idx % n) + 1]
        BY <3>2 DEF Successor, n
      <3>4. idx % n = IF idx = n THEN 0 ELSE idx
        <4>1. n \in Nat \ {0} /\ idx \in 0..n
          BY <1>1, <1>2, <1>3
        <4> QED
          BY <4>1, ModFacts
      <3>5. n - 1 > 0
        BY <2>1, <1>1
      <3>6. CASE idx = n
        <4>1. nl.next = 0 /\ 1 < idx /\ 1 \in 1..(n - 1)
          BY <3>5, <3>6, <2>5, <1>1, <1>2, <1>7
        <4>2. nl.order[1] = sl.order[1]
          BY <4>1, <1>4, <1>6
        <4> QED
          BY <4>1, <4>2, <3>1, <3>3, <3>4, <3>6, <2>1
      <3>7. CASE idx # n
        <4>1. nl.next = sl.next /\ nl.next + 1 = idx /\ idx \in 1..(n - 1) /\ ~(idx < idx)
          BY <3>7, <2>5, <1>1, <1>2, <1>3, <1>7
        <4>2. nl.order[nl.next + 1] = sl.order[idx + 1]
          BY <4>1, <1>4, <1>6
        <4> QED
          BY <4>2, <3>1, <3>3, <3>4, <3>7, <2>1
      <3> QED
        BY <3>6, <3>7
    <2> QED
      BY <2>4, <2>5
  <1> QED
    BY <1>3, <1>6, <1>9, <1>10 DEF nl

(* dispatch: the one whose turn it is had the fewest, and is now the last. *)
LEMMA DispatchFacts ==
  ASSUME NEW sl \in SharedListener, Orderly(sl), sl.order # <<>>,
         NEW nl \in SharedListener, nl.order = sl.order, nl.conns = sl.conns,
         nl.next = NextTurn(sl), nl.turns = [sl.turns EXCEPT ![Turn(sl)] = @ + 1]
  PROVE  Orderly(nl)
  <1> DEFINE n == Len(sl.order)
  <1>1. /\ IsInjective(sl.order) /\ n \in Nat /\ n > 0 /\ DOMAIN sl.order = 1..n
        /\ sl.next \in Nat /\ sl.next < n
        /\ \A j \in 1..n : sl.order[j] \in Conns /\ sl.turns[sl.order[j]] \in Nat
    BY TurnIs, ListenerType DEF Orderly, Consistent
  <1>2. nl.next = IF sl.next + 1 = n THEN 0 ELSE sl.next + 1
    BY <1>1, ModFacts DEF NextTurn
  <1>3. Turn(sl) = sl.order[sl.next + 1] /\ sl.next + 1 \in 1..n
    BY TurnIs, ListenerType DEF Orderly
  <1>4. Consistent(nl)
    BY <1>1, <1>2 DEF Orderly, Consistent
  <1>5. \A j \in 1..n : nl.turns[nl.order[j]] =
          IF j = sl.next + 1 THEN sl.turns[sl.order[j]] + 1 ELSE sl.turns[sl.order[j]]
    <2> SUFFICES ASSUME NEW j \in 1..n
                 PROVE  nl.turns[sl.order[j]] =
                          IF j = sl.next + 1 THEN sl.turns[sl.order[j]] + 1
                          ELSE sl.turns[sl.order[j]]
      OBVIOUS
    <2>1. sl.order[j] = Turn(sl) <=> j = sl.next + 1
      BY <1>1, <1>3 DEF IsInjective
    <2>2. sl.turns \in [Conns -> Nat] /\ sl.order[j] \in Conns
      BY <1>1, ListenerType
    <2> QED
      BY <2>1, <2>2
  <1>6. \A j \in 1..n : /\ Ahead(sl, j) \in 0..(n - 1)
                        /\ j = sl.next + 1 => Ahead(sl, j) = 0 /\ Ahead(nl, j) = n - 1
                        /\ j # sl.next + 1 => Ahead(nl, j) = Ahead(sl, j) - 1
    <2> SUFFICES ASSUME NEW j \in 1..n
                 PROVE  /\ Ahead(sl, j) \in 0..(n - 1)
                        /\ j = sl.next + 1 => Ahead(sl, j) = 0 /\ Ahead(nl, j) = n - 1
                        /\ j # sl.next + 1 => Ahead(nl, j) = Ahead(sl, j) - 1
      OBVIOUS
    <2>1. /\ Ahead(sl, j) = IF sl.next < j THEN j - 1 - sl.next ELSE n + j - 1 - sl.next
          /\ Ahead(nl, j) = IF nl.next < j THEN j - 1 - nl.next ELSE n + j - 1 - nl.next
      BY DEF Ahead
    <2> HIDE DEF n
    <2>2. PICK x \in Nat, y \in Nat : x = sl.next /\ y = nl.next
      BY <1>1, <1>2
    <2>3. n \in Nat /\ x < n /\ y = IF x + 1 = n THEN 0 ELSE x + 1
      BY <1>1, <1>2, <2>2
    <2>4. /\ Ahead(sl, j) = IF x < j THEN j - 1 - x ELSE n + j - 1 - x
          /\ Ahead(nl, j) = IF y < j THEN j - 1 - y ELSE n + j - 1 - y
      BY <2>1, <2>2
    <2>5. j = x + 1 => Ahead(sl, j) = 0 /\ Ahead(nl, j) = n - 1
      BY <2>3, <2>4
    <2>6. j # x + 1 => Ahead(nl, j) = Ahead(sl, j) - 1
      BY <2>3, <2>4
    <2>7. Ahead(sl, j) \in 0..(n - 1)
      BY <2>3, <2>4
    <2> QED
      BY <2>2, <2>5, <2>6, <2>7
  <1>7. InRotation(nl)
    <2> SUFFICES ASSUME NEW j \in 1..n, NEW k \in 1..n, Ahead(nl, j) <= Ahead(nl, k)
                 PROVE  /\ nl.turns[nl.order[j]] <= nl.turns[nl.order[k]]
                        /\ nl.turns[nl.order[k]] <= nl.turns[nl.order[j]] + 1
      BY <1>1 DEF InRotation
    <2> DEFINE f == sl.next + 1
               a == sl.turns[sl.order[j]]
               b == sl.turns[sl.order[k]]
    <2>0. a \in Nat /\ b \in Nat /\ f \in 1..n /\ n \in Nat
      BY <1>1
    <2>1. /\ Ahead(sl, j) <= Ahead(sl, k) => a <= b /\ b <= a + 1
          /\ Ahead(sl, k) <= Ahead(sl, j) => b <= a /\ a <= b + 1
      BY <1>1 DEF Orderly, InRotation
    <2>2. /\ nl.turns[nl.order[j]] = IF j = f THEN a + 1 ELSE a
          /\ nl.turns[nl.order[k]] = IF k = f THEN b + 1 ELSE b
      BY <1>5
    <2>3. /\ Ahead(sl, j) \in 0..(n - 1) /\ Ahead(sl, k) \in 0..(n - 1)
          /\ j = f => Ahead(sl, j) = 0 /\ Ahead(nl, j) = n - 1
          /\ k = f => Ahead(sl, k) = 0 /\ Ahead(nl, k) = n - 1
          /\ j # f => Ahead(nl, j) = Ahead(sl, j) - 1
          /\ k # f => Ahead(nl, k) = Ahead(sl, k) - 1
      BY <1>6
    <2> HIDE DEF a, b, f, n
    <2>4. CASE j = f /\ k = f
      BY <2>0, <2>2, <2>4 DEF a, b
    <2>5. CASE j = f /\ k # f
      BY <2>0, <2>3, <2>5
    <2>6. CASE j # f /\ k = f
      BY <2>0, <2>1, <2>2, <2>3, <2>6
    <2>7. CASE j # f /\ k # f
      <3>1. Ahead(sl, j) <= Ahead(sl, k)
        BY <2>0, <2>3, <2>7
      <3>2. nl.turns[nl.order[j]] = a /\ nl.turns[nl.order[k]] = b
        BY <2>2, <2>7
      <3> QED
        BY <2>1, <3>1, <3>2
    <2> QED
      BY <2>4, <2>5, <2>6, <2>7
  <1> QED
    BY <1>4, <1>7 DEF Orderly

LEMMA RotationIsFair ==
  ASSUME NEW sl \in SharedListener, Orderly(sl), NEW c \in sl.conns, NEW d \in sl.conns
  PROVE  sl.turns[c] <= sl.turns[d] + 1
  <1>1. PICK j \in DOMAIN sl.order, k \in DOMAIN sl.order :
          c = sl.order[j] /\ d = sl.order[k]
    BY DEF Orderly, Consistent, Range
  <1>2. /\ Ahead(sl, j) \in Int /\ Ahead(sl, k) \in Int
        /\ sl.turns[c] \in Nat /\ sl.turns[d] \in Nat
    <2>1. /\ sl.next \in Int /\ Len(sl.order) \in Int /\ j \in Int /\ k \in Int
          /\ c \in Conns /\ d \in Conns /\ sl.turns \in [Conns -> Nat]
      BY <1>1, ListenerType
    <2>2. Ahead(sl, j) \in Int /\ Ahead(sl, k) \in Int
      <3>1. \A x, m, i \in Int : x < i => i - 1 - x \in Int
        OBVIOUS
      <3>2. \A x, m, i \in Int : m + i - 1 - x \in Int
        OBVIOUS
      <3> QED
        BY <2>1, <3>1, <3>2, Zenon DEF Ahead
    <2> QED
      BY <2>1, <2>2
  <1>3. \/ Ahead(sl, j) <= Ahead(sl, k) /\ sl.turns[c] <= sl.turns[d]
        \/ Ahead(sl, k) <= Ahead(sl, j) /\ sl.turns[c] <= sl.turns[d] + 1
    BY <1>1, <1>2 DEF Orderly, InRotation
  <1> QED
    BY <1>2, <1>3

-----------------------------------------------------------------------------
(* The inductive invariant *)

AllOrderly == \A i \in DOMAIN sls : Orderly(sls[i])

(* A goroutine that attached works on a listener of its own bind:port, and *)
(* that listener is marked before the port and the map entry are given up. *)
Owned ==
  \A t \in Serves :
    /\ spc[t] \in {"serve", "close", "lnClose", "delete"} =>
         mine[t] \in DOMAIN sls /\ sls[mine[t]].key = Key(t)
    /\ spc[t] \in {"lnClose", "delete"} => sls[mine[t]].closed

(* Whoever is registered has a goroutine that will take it out again. *)
Held ==
  \A i \in DOMAIN sls : \A c \in sls[i].conns :
    \E t \in Serves : t[1] = c /\ spc[t] = "serve" /\ mine[t] = i

(* serveRemoteTunnel runs only once its connection was tracked. *)
Launched == \A t \in Serves : spc[t] # "none" => hpc[t[1]] \in {"serve", "done"}

(* The map names listeners under their own bind:port. *)
Mapping ==
  \A k \in Keys : listeners[k] # 0 =>
    listeners[k] \in DOMAIN sls /\ sls[listeners[k]].key = k

ListenerInv == AllOrderly /\ NoOrphanListener /\ Mapping /\ Owned /\ Held
ServerInv == TypeOK /\ ListenerInv /\ Launched

(* What TurnKept says of one listener. *)
KeepsTurn(sl, nl) ==
  sl.order # <<>> /\ nl.order # <<>> =>
    Turn(nl) = IF Turn(sl) \in nl.conns THEN Turn(sl)
               ELSE Successor(sl.order, Turn(sl))
TurnsKept == \A i \in DOMAIN sls : KeepsTurn(sls[i], sls'[i])

LEMMA ServeFacts ==
  ASSUME NEW t \in Serves
  PROVE  t[1] \in Conns /\ t[2] \in Tunnels /\ Key(t) \in Keys
  BY RemoteServerAssumption DEF Serves, Key

LEMMA SlsFacts ==
  ASSUME TypeOK
  PROVE  /\ Len(sls) \in Nat /\ DOMAIN sls = 1..Len(sls)
         /\ \A i \in DOMAIN sls : sls[i] \in SharedListener
  BY DEF TypeOK

LEMMA InitServerInv == Init => ServerInv
  <1> SUFFICES ASSUME Init PROVE ServerInv
    OBVIOUS
  <1>1. sls = <<>> /\ Len(sls) = 0 /\ DOMAIN sls = {}
    BY DEF Init
  <1>2. TypeOK
    <2>1. sls \in Seq(SharedListener)
      BY <1>1
    <2>2. toClose \in [conns : SUBSET Conns, at : SUBSET Conns, sls : SUBSET (1..Len(sls))]
      BY <1>1 DEF Init
    <2>3. /\ listeners \in [Keys -> 0..Len(sls)] /\ mine \in [Serves -> 0..Len(sls)]
          /\ dials \in 0..MaxDials
      BY <1>1, RemoteServerAssumption DEF Init
    <2> QED
      BY <2>1, <2>2, <2>3 DEF Init, TypeOK
  <1>3. ListenerInv
    BY <1>1 DEF Init, ListenerInv, AllOrderly, NoOrphanListener, Mapping, Owned, Held
  <1>4. Launched
    BY DEF Init, Launched
  <1> QED
    BY <1>2, <1>3, <1>4 DEF ServerInv

(* One record of sls is replaced. *)
LEMMA SetListener ==
  ASSUME TypeOK, NEW i \in DOMAIN sls, NEW nl \in SharedListener,
         sls' = [sls EXCEPT ![i] = nl]
  PROVE  /\ sls' \in Seq(SharedListener) /\ Len(sls') = Len(sls)
         /\ DOMAIN sls' = DOMAIN sls
         /\ sls'[i] = nl
         /\ \A j \in DOMAIN sls : j # i => sls'[j] = sls[j]
  BY ExceptSeq DEF TypeOK

LEMMA SameKeepsTurn ==
  ASSUME NEW sl \in SharedListener, Orderly(sl), NEW nl \in SharedListener,
         nl.order = sl.order, nl.next = sl.next, nl.conns = sl.conns
  PROVE  KeepsTurn(sl, nl)
  BY TurnIs DEF KeepsTurn, Orderly, Turn

(* The parts of the invariant that say nothing of the goroutines. *)
LEMMA ReplaceListener ==
  ASSUME ServerInv, NEW i \in DOMAIN sls, NEW nl \in SharedListener,
         sls' = [sls EXCEPT ![i] = nl], listeners' = listeners,
         Orderly(nl), nl.key = sls[i].key, sls[i].closed => nl.closed,
         nl.lnOpen /\ ~nl.closed => sls[i].lnOpen /\ ~sls[i].closed
  PROVE  /\ AllOrderly' /\ NoOrphanListener' /\ Mapping'
         /\ \A j \in DOMAIN sls : /\ j \in DOMAIN sls'
                                  /\ sls'[j].key = sls[j].key
                                  /\ sls[j].closed => sls'[j].closed
         /\ KeepsTurn(sls[i], nl) => TurnsKept
  <1>1. /\ DOMAIN sls' = DOMAIN sls /\ sls'[i] = nl
        /\ \A j \in DOMAIN sls : j # i => sls'[j] = sls[j]
    BY SetListener DEF ServerInv
  <1>2. AllOrderly'
    BY <1>1 DEF ServerInv, ListenerInv, AllOrderly
  <1>3. NoOrphanListener'
    BY <1>1 DEF ServerInv, ListenerInv, NoOrphanListener
  <1>4. \A j \in DOMAIN sls : /\ j \in DOMAIN sls'
                              /\ sls'[j].key = sls[j].key
                              /\ sls[j].closed => sls'[j].closed
    BY <1>1
  <1>5. ASSUME KeepsTurn(sls[i], nl)
        PROVE  TurnsKept
    BY <1>1, <1>5, SameKeepsTurn, SlsFacts DEF TurnsKept, ServerInv, ListenerInv, AllOrderly
  <1>6. Mapping'
    BY <1>1, <1>4 DEF ServerInv, ListenerInv, Mapping
  <1> QED
    BY <1>2, <1>3, <1>4, <1>5, <1>6

LEMMA QuietTurns ==
  ASSUME ServerInv, sls' = sls
  PROVE  TurnsKept
  BY SameKeepsTurn, SlsFacts DEF TurnsKept, ServerInv, ListenerInv, AllOrderly

(* Steps of the server that leave listeners and their goroutines alone. *)
LEMMA QuietListeners ==
  ASSUME ServerInv, UNCHANGED <<sls, listeners, spc, mine>>
  PROVE  ListenerInv'
  BY DEF ServerInv, ListenerInv, AllOrderly, NoOrphanListener, Mapping, Owned, Held, Key

-----------------------------------------------------------------------------
(* The actions *)

LEMMA ConnSteps ==
  ASSUME ServerInv, NEW c \in Conns,
         \/ Accept(c) \/ HandshakeOk(c) \/ HandshakeFail(c) \/ trackConnRefused(c)
         \/ untrackConn(c) \/ LinkDown(c) \/ LinkJams(c) \/ readLoopEnds(c)
  PROVE  ServerInv' /\ TurnsKept
  <1> USE DEF Accept, HandshakeOk, HandshakeFail, trackConnRefused, untrackConn, LinkDown, LinkJams,
              readLoopEnds
  <1>1. UNCHANGED <<sls, listeners, spc, mine>>
    OBVIOUS
  <1>2. TypeOK'
    BY DEF ServerInv, TypeOK
  <1>3. Launched'
    <2>1. \A d \in Conns : hpc[d] \in {"serve", "done"} => hpc'[d] \in {"serve", "done"}
      BY DEF ServerInv, TypeOK
    <2> QED
      BY <1>1, <2>1, ServeFacts DEF ServerInv, Launched
  <1> QED
    BY <1>1, <1>2, <1>3, QuietListeners, QuietTurns DEF ServerInv

LEMMA CloseSteps ==
  ASSUME ServerInv, Close \/ CloseCtrl \/ CloseReturns
                    \/ \E c \in Conns : CloseTakes(c) \/ CloseConn(c)
  PROVE  ServerInv' /\ TurnsKept
  <1>1. UNCHANGED <<sls, listeners, spc, mine, hpc>>
    BY DEF Close, CloseCtrl, CloseReturns, CloseTakes, CloseConn
  <1>2. toClose' \in [conns : SUBSET Conns, at : SUBSET Conns, sls : SUBSET (1..Len(sls))]
    <2>0. toClose \in [conns : SUBSET Conns, at : SUBSET Conns, sls : SUBSET (1..Len(sls))]
      BY DEF ServerInv, TypeOK
    <2>1. CASE Close
      <3>1. {listeners[k] : k \in Keys} \ {0} \in SUBSET (1..Len(sls))
        BY SlsFacts DEF ServerInv, TypeOK
      <3>2. tracked \in SUBSET Conns
        BY DEF ServerInv, TypeOK
      <3> QED
        BY <2>1, <3>1, <3>2 DEF Close
    <2>2. CASE CloseCtrl \/ CloseReturns
      BY <2>0, <2>2 DEF CloseCtrl, CloseReturns
    <2>3. CASE \E c \in Conns : CloseTakes(c) \/ CloseConn(c)
      BY <2>0, <2>3 DEF CloseTakes, CloseConn
    <2> QED
      BY <2>1, <2>2, <2>3
  <1>3. TypeOK'
    <2>1. /\ link' \in [Conns -> {"up", "used", "jam", "down"}] /\ rsClosed' \in BOOLEAN
          /\ ctrlOpen' \in BOOLEAN /\ cpc' \in {"no", "closing", "done"}
          /\ UNCHANGED <<tracked, holder, ccDone, dials>>
      BY DEF ServerInv, TypeOK, Close, CloseCtrl, CloseReturns, CloseTakes, CloseConn
    <2> QED
      BY <1>1, <1>2, <2>1 DEF ServerInv, TypeOK
  <1>4. Launched'
    BY <1>1 DEF ServerInv, Launched
  <1> QED
    BY <1>1, <1>3, <1>4, QuietListeners, QuietTurns DEF ServerInv

LEMMA TrackStep ==
  ASSUME ServerInv, NEW c \in Conns, trackConn(c)
  PROVE  ServerInv' /\ TurnsKept
  <1> USE DEF trackConn
  <1>1. UNCHANGED <<sls, listeners, mine>>
    OBVIOUS
  <1>2. TypeOK'
    BY <1>1 DEF ServerInv, TypeOK
  <1>3. \A t \in Serves : spc'[t] # spc[t] => spc[t] = "none" /\ spc'[t] = "attach"
    BY DEF ServerInv, TypeOK, Launched
  <1>4. ListenerInv'
    BY <1>1, <1>3 DEF ServerInv, ListenerInv, AllOrderly, NoOrphanListener, Mapping, Owned, Held, Key
  <1>5. Launched'
    BY ServeFacts DEF ServerInv, Launched, TypeOK
  <1> QED
    BY <1>1, <1>2, <1>4, <1>5, QuietTurns DEF ServerInv

LEMMA GoroutineQuiet ==
  ASSUME ServerInv, NEW t \in Serves,
         attachRefused(t) \/ listenTunnelFail(t) \/ detachNothing(t)
  PROVE  ServerInv' /\ TurnsKept
  <1> USE DEF attachRefused, listenTunnelFail, detachNothing
  <1>1. UNCHANGED <<sls, listeners, mine>> /\ spc' = [spc EXCEPT ![t] = "done"]
    OBVIOUS
  <1>2. TypeOK'
    BY <1>1 DEF ServerInv, TypeOK
  <1>3. spc[t] = "serve" => t[1] \notin sls[mine[t]].conns
    OBVIOUS
  <1>4. Owned'
    BY <1>1 DEF ServerInv, TypeOK, ListenerInv, Owned, Key
  <1>5. Held'
    BY <1>1, <1>3 DEF ServerInv, TypeOK, ListenerInv, Held
  <1>6. AllOrderly' /\ NoOrphanListener' /\ Mapping'
    BY <1>1 DEF ServerInv, ListenerInv, AllOrderly, NoOrphanListener, Mapping
  <1>7. Launched'
    BY ServeFacts DEF ServerInv, Launched, TypeOK
  <1> QED
    BY <1>1, <1>2, <1>4, <1>5, <1>6, <1>7, QuietTurns DEF ServerInv, ListenerInv

(* attachListen drops a listener only when it is marked; detachDelete only *)
(* its own, which is marked too.                                           *)
LEMMA MapSteps ==
  ASSUME ServerInv, NEW t \in Serves, attachListen(t) \/ detachDelete(t)
  PROVE  ServerInv' /\ TurnsKept
  <1> USE DEF attachListen, detachDelete
  <1>1. UNCHANGED <<sls, mine, hpc>> /\ Key(t) \in Keys /\ t[1] \in Conns
    BY ServeFacts
  <1>2. TypeOK'
    <2>1. listeners' \in [Keys -> 0..Len(sls)]
      BY <1>1, SlsFacts DEF ServerInv, TypeOK
    <2>2. spc' \in [Serves -> {"none", "attach", "listen", "serve", "close", "lnClose",
                               "delete", "done"}]
      BY DEF ServerInv, TypeOK
    <2>3. holder' \in Serves \cup {free}
      BY DEF ServerInv, TypeOK
    <2> QED
      BY <1>1, <2>1, <2>2, <2>3 DEF ServerInv, TypeOK
  <1>3. \A k \in Keys : listeners'[k] # listeners[k] =>
          /\ k = Key(t) /\ listeners'[k] = 0
          /\ listeners[k] # 0 => sls[listeners[k]].closed
    BY <1>1 DEF ServerInv, TypeOK, ListenerInv, Owned, Usable, StillMine
  <1>4. NoOrphanListener'
    <2> SUFFICES ASSUME NEW i \in DOMAIN sls, sls[i].lnOpen, ~sls[i].closed
                 PROVE  listeners'[sls[i].key] = i
      BY <1>1 DEF NoOrphanListener
    <2>1. listeners[sls[i].key] = i /\ i # 0 /\ sls[i].key \in Keys
      BY SlsFacts, ListenerType DEF ServerInv, ListenerInv, NoOrphanListener
    <2> QED
      BY <2>1, <1>3
  <1>5. \A u \in Serves : spc'[u] # spc[u] => spc[u] \in {"attach", "delete"}
                                            /\ spc'[u] \in {"listen", "done"}
    BY DEF ServerInv, TypeOK
  <1>6. AllOrderly' /\ Owned' /\ Held'
    BY <1>1, <1>5 DEF ServerInv, ListenerInv, AllOrderly, Owned, Held, Key
  <1>7. Launched'
    BY <1>1, <1>5 DEF ServerInv, Launched
  <1>8. Mapping'
    BY <1>1, <1>3 DEF ServerInv, ListenerInv, Mapping
  <1> QED
    BY <1>1, <1>2, <1>4, <1>6, <1>7, <1>8, QuietTurns DEF ServerInv, ListenerInv

(* A flag, next or the counts of a listener change. *)
LEMMA FlagStep ==
  ASSUME ServerInv, NEW i \in DOMAIN sls, NEW nl \in SharedListener,
         sls' = [sls EXCEPT ![i] = nl], UNCHANGED <<listeners, spc, mine, hpc>>,
         Orderly(nl), nl.key = sls[i].key, nl.conns = sls[i].conns,
         sls[i].closed => nl.closed,
         nl.lnOpen /\ ~nl.closed => sls[i].lnOpen /\ ~sls[i].closed
  PROVE  ListenerInv' /\ Launched'
  <1>1. /\ AllOrderly' /\ NoOrphanListener' /\ Mapping'
        /\ \A j \in DOMAIN sls : /\ j \in DOMAIN sls'
                                 /\ sls'[j].key = sls[j].key
                                 /\ sls[j].closed => sls'[j].closed
    BY ReplaceListener
  <1>2. /\ DOMAIN sls' = DOMAIN sls
        /\ \A j \in DOMAIN sls : sls'[j].conns = sls[j].conns
    BY SetListener DEF ServerInv
  <1>3. Owned'
    BY <1>1 DEF ServerInv, ListenerInv, Owned, Key
  <1>4. Held'
    BY <1>2 DEF ServerInv, ListenerInv, Held
  <1>5. Launched'
    BY DEF ServerInv, Launched
  <1> QED
    BY <1>1, <1>3, <1>4, <1>5 DEF ListenerInv

LEMMA SameLenType ==
  ASSUME TypeOK, sls' \in Seq(SharedListener), Len(sls') = Len(sls),
         UNCHANGED <<rsClosed, ctrlOpen, tracked, listeners, holder, hpc, link, ccDone, cpc>>,
         spc' \in [Serves -> {"none", "attach", "listen", "serve", "close", "lnClose",
                              "delete", "done"}],
         mine' \in [Serves -> 0..Len(sls)],
         toClose' \in [conns : SUBSET Conns, at : SUBSET Conns, sls : SUBSET (1..Len(sls))],
         dials' \in 0..MaxDials
  PROVE  TypeOK'
  BY DEF TypeOK

LEMMA DispatchStep ==
  ASSUME ServerInv, NEW i \in DOMAIN sls, dispatch(i)
  PROVE  ServerInv'
  <1> DEFINE sl == sls[i]
             nl == [sl EXCEPT !.next = NextTurn(sl), !.turns[Turn(sl)] = @ + 1]
  <1>1. sl \in SharedListener /\ Orderly(sl) /\ sl.order # <<>>
    BY SlsFacts DEF ServerInv, ListenerInv, AllOrderly, dispatch
  <1>2. /\ Turn(sl) \in Conns /\ NextTurn(sl) \in Nat
    <2>1. Turn(sl) \in sl.conns /\ sl.conns \in SUBSET Conns /\ sl.next \in Nat
          /\ Len(sl.order) \in Nat /\ Len(sl.order) > 0
      BY <1>1, TurnIs, ListenerType DEF Orderly
    <2> QED
      BY <2>1 DEF NextTurn
  <1>3. sls' = [sls EXCEPT ![i] = nl]
    BY <1>1 DEF dispatch
  <1> HIDE DEF sl
  <1>4. /\ nl \in SharedListener /\ nl.order = sl.order /\ nl.conns = sl.conns
        /\ nl.next = NextTurn(sl) /\ nl.turns = [sl.turns EXCEPT ![Turn(sl)] = @ + 1]
        /\ nl.key = sl.key /\ nl.closed = sl.closed /\ nl.lnOpen = sl.lnOpen
    <2>1. [sl.turns EXCEPT ![Turn(sl)] = @ + 1] \in [Conns -> Nat]
      BY <1>1, <1>2, ListenerType
    <2> QED
      BY <1>1, <1>2, <2>1 DEF SharedListener
  <1> HIDE DEF nl
  <1>5. Orderly(nl)
    BY <1>1, <1>4, DispatchFacts
  <1>6. UNCHANGED <<listeners, spc, mine, hpc>>
    BY DEF dispatch
  <1>7. ListenerInv' /\ Launched'
    BY <1>3, <1>4, <1>5, <1>6, FlagStep DEF sl
  <1>8. TypeOK'
    <2>1. sls' \in Seq(SharedListener) /\ Len(sls') = Len(sls)
      BY <1>3, <1>4, SetListener DEF ServerInv
    <2>2. dials' \in 0..MaxDials
      BY RemoteServerAssumption DEF ServerInv, TypeOK, dispatch
    <2> QED
      BY <2>1, <2>2, SameLenType DEF ServerInv, TypeOK, dispatch
  <1> QED
    BY <1>7, <1>8 DEF ServerInv

LEMMA DispatchNobodyStep ==
  ASSUME ServerInv, NEW i \in DOMAIN sls, dispatchNobody(i)
  PROVE  ServerInv'
  <1>1. UNCHANGED <<sls, listeners, spc, mine, hpc>>
    BY DEF dispatchNobody
  <1>2. TypeOK'
    BY RemoteServerAssumption DEF ServerInv, TypeOK, dispatchNobody
  <1>3. Launched'
    BY <1>1 DEF ServerInv, Launched
  <1> QED
    BY <1>1, <1>2, <1>3, QuietListeners DEF ServerInv

LEMMA AcceptLoopSteps ==
  ASSUME ServerInv, NEW i \in DOMAIN sls, acceptLoopFails(i) \/ acceptLoopEnds(i)
  PROVE  ServerInv' /\ TurnsKept
  <1> DEFINE sl == sls[i]
             nl == [sl EXCEPT !.accepting = FALSE]
  <1>1. sl \in SharedListener /\ Orderly(sl)
    BY SlsFacts DEF ServerInv, ListenerInv, AllOrderly
  <1>2. sls' = [sls EXCEPT ![i] = nl]
    BY DEF acceptLoopFails, acceptLoopEnds
  <1>3. UNCHANGED <<rsClosed, ctrlOpen, tracked, listeners, holder, hpc, link, ccDone,
                    spc, mine, cpc, toClose, dials>>
    BY DEF acceptLoopFails, acceptLoopEnds
  <1> HIDE DEF sl
  <1>4. /\ nl \in SharedListener /\ nl.order = sl.order /\ nl.conns = sl.conns
        /\ nl.next = sl.next /\ nl.turns = sl.turns
        /\ nl.key = sl.key /\ nl.closed = sl.closed /\ nl.lnOpen = sl.lnOpen
    BY <1>1 DEF SharedListener
  <1> HIDE DEF nl
  <1>5. Orderly(nl)
    BY <1>1, <1>4 DEF Orderly, Consistent, InRotation, Ahead
  <1>6. ListenerInv' /\ Launched'
    BY <1>2, <1>3, <1>4, <1>5, FlagStep DEF sl
  <1>7. TurnsKept
    BY <1>1, <1>2, <1>3, <1>4, <1>5, ReplaceListener, SameKeepsTurn DEF sl
  <1>8. TypeOK'
    BY <1>2, <1>3, <1>4, SetListener, SameLenType DEF ServerInv, TypeOK
  <1> QED
    BY <1>6, <1>7, <1>8 DEF ServerInv

(* rs.Close marks a listener and releases its port. *)
LEMMA CloseListenerStep ==
  ASSUME ServerInv, NEW i \in DOMAIN sls, CloseListener(i)
  PROVE  ServerInv' /\ TurnsKept
  <1> DEFINE sl == sls[i]
             nl == [sl EXCEPT !.closed = TRUE, !.lnOpen = IF sl.closed THEN @ ELSE FALSE]
  <1>1. sl \in SharedListener /\ Orderly(sl)
    BY SlsFacts DEF ServerInv, ListenerInv, AllOrderly
  <1>2. sls' = [sls EXCEPT ![i] = nl]
    BY <1>1 DEF CloseListener
  <1>3. UNCHANGED <<rsClosed, ctrlOpen, tracked, listeners, holder, hpc, link, ccDone,
                    spc, mine, cpc, dials>>
    BY DEF CloseListener
  <1> HIDE DEF sl
  <1>4. /\ nl \in SharedListener /\ nl.order = sl.order /\ nl.conns = sl.conns
        /\ nl.next = sl.next /\ nl.turns = sl.turns
        /\ nl.key = sl.key /\ nl.closed = TRUE
    BY <1>1 DEF SharedListener
  <1> HIDE DEF nl
  <1>5. Orderly(nl)
    BY <1>1, <1>4 DEF Orderly, Consistent, InRotation, Ahead
  <1>6. ListenerInv' /\ Launched'
    BY <1>2, <1>3, <1>4, <1>5, FlagStep DEF sl
  <1>7. TurnsKept
    BY <1>1, <1>2, <1>3, <1>4, <1>5, ReplaceListener, SameKeepsTurn DEF sl
  <1>8. toClose' \in [conns : SUBSET Conns, at : SUBSET Conns, sls : SUBSET (1..Len(sls))]
    <2>1. toClose \in [conns : SUBSET Conns, at : SUBSET Conns, sls : SUBSET (1..Len(sls))]
      BY DEF ServerInv, TypeOK
    <2> QED
      BY <2>1 DEF CloseListener
  <1>9. TypeOK'
    BY <1>2, <1>3, <1>4, <1>8, SetListener, SameLenType DEF ServerInv, TypeOK
  <1> QED
    BY <1>6, <1>7, <1>9 DEF ServerInv

LEMMA AttachExistingStep ==
  ASSUME ServerInv, NEW t \in Serves, attachExisting(t)
  PROVE  ServerInv' /\ TurnsKept
  <1> DEFINE i == listeners[Key(t)]
             sl == sls[i]
             nl == Joined(sl, t[1])
  <1>1. Key(t) \in Keys /\ t[1] \in Conns
    BY ServeFacts
  <1>2. i \in DOMAIN sls /\ ~sl.closed
    BY <1>1, SlsFacts DEF ServerInv, TypeOK, attachExisting, Usable
  <1>3. /\ sls' = [sls EXCEPT ![i] = nl]
        /\ mine' = [mine EXCEPT ![t] = i]
        /\ spc' = [spc EXCEPT ![t] = "serve"]
        /\ UNCHANGED <<rsClosed, ctrlOpen, tracked, listeners, holder, hpc, link, ccDone,
                       cpc, toClose, dials>>
        /\ spc[t] = "attach"
    BY DEF attachExisting
  <1> HIDE DEF i, sl, nl
  <1>4. sl \in SharedListener /\ Orderly(sl)
    BY <1>2, SlsFacts DEF ServerInv, ListenerInv, AllOrderly, sl
  <1>5. /\ nl \in SharedListener /\ Orderly(nl) /\ nl.conns = sl.conns \cup {t[1]}
        /\ nl.key = sl.key /\ nl.closed = sl.closed /\ nl.lnOpen = sl.lnOpen
        /\ sl.order # <<>> => Turn(nl) = Turn(sl) /\ Turn(sl) \in nl.conns
    BY <1>1, <1>4, JoinedFacts DEF nl
  <1>6. KeepsTurn(sl, nl)
    BY <1>5 DEF KeepsTurn
  <1>7. /\ sls' \in Seq(SharedListener) /\ Len(sls') = Len(sls) /\ DOMAIN sls' = DOMAIN sls
        /\ sls'[i] = nl /\ \A j \in DOMAIN sls : j # i => sls'[j] = sls[j]
    BY <1>2, <1>3, <1>5, SetListener DEF ServerInv
  <1>8. /\ AllOrderly' /\ NoOrphanListener' /\ Mapping' /\ TurnsKept
        /\ \A j \in DOMAIN sls : /\ j \in DOMAIN sls'
                                 /\ sls'[j].key = sls[j].key
                                 /\ sls[j].closed => sls'[j].closed
    BY <1>2, <1>3, <1>5, <1>6, ReplaceListener DEF sl
  <1>9. sls[i].key = Key(t) /\ mine'[t] = i /\ spc'[t] = "serve"
        /\ \A u \in Serves : u # t => mine'[u] = mine[u] /\ spc'[u] = spc[u]
    <2>1. i # 0
      BY <1>2, SlsFacts DEF ServerInv
    <2> QED
      BY <1>1, <1>3, <2>1 DEF ServerInv, TypeOK, ListenerInv, Mapping, i
  <1>10. Owned'
    BY <1>2, <1>8, <1>9 DEF ServerInv, ListenerInv, Owned, Key
  <1>11. Held'
    <2> SUFFICES ASSUME NEW j \in DOMAIN sls, NEW c \in sls'[j].conns
                 PROVE  \E u \in Serves : u[1] = c /\ spc'[u] = "serve" /\ mine'[u] = j
      BY <1>7 DEF Held
    <2>1. CASE c \in sls[j].conns
      <3>1. PICK u \in Serves : u[1] = c /\ spc[u] = "serve" /\ mine[u] = j
        BY <2>1 DEF ServerInv, ListenerInv, Held
      <3> QED
        BY <3>1, <1>3, <1>9
    <2>2. CASE c \notin sls[j].conns
      <3>1. j = i /\ c = t[1]
        BY <2>2, <1>5, <1>7 DEF sl
      <3> QED
        BY <3>1, <1>9
    <2> QED
      BY <2>1, <2>2
  <1>12. Launched'
    BY <1>3, <1>9 DEF ServerInv, Launched
  <1>13. TypeOK'
    <2>1. mine' \in [Serves -> 0..Len(sls)]
      BY <1>2, <1>3, SlsFacts DEF ServerInv, TypeOK
    <2>2. spc' \in [Serves -> {"none", "attach", "listen", "serve", "close", "lnClose",
                               "delete", "done"}]
      BY <1>3 DEF ServerInv, TypeOK
    <2> QED
      BY <1>3, <1>7, <2>1, <2>2, SameLenType DEF ServerInv, TypeOK
  <1> QED
    BY <1>8, <1>10, <1>11, <1>12, <1>13 DEF ServerInv, ListenerInv

LEMMA DetachStep ==
  ASSUME ServerInv, NEW t \in Serves, detach(t)
  PROVE  ServerInv' /\ TurnsKept
  <1> DEFINE i == mine[t]
             sl == sls[i]
             nl == Leave(sl, t[1])
  <1>1. t[1] \in sl.conns /\ i \in DOMAIN sls /\ sl.key = Key(t) /\ spc[t] = "serve"
    BY DEF detach, ServerInv, ListenerInv, Owned
  <1>2. /\ sls' = [sls EXCEPT ![i] = nl]
        /\ spc' = [spc EXCEPT ![t] = IF nl.order = <<>> THEN "close" ELSE "done"]
        /\ UNCHANGED <<rsClosed, ctrlOpen, tracked, listeners, holder, hpc, link, ccDone,
                       mine, cpc, toClose, dials>>
    BY DEF detach
  <1> HIDE DEF i, sl, nl
  <1>3. sl \in SharedListener /\ Orderly(sl)
    BY <1>1, SlsFacts DEF ServerInv, ListenerInv, AllOrderly, sl
  <1>4. /\ nl \in SharedListener /\ Orderly(nl) /\ nl.conns = sl.conns \ {t[1]}
        /\ nl.key = sl.key /\ nl.closed = sl.closed /\ nl.lnOpen = sl.lnOpen
        /\ KeepsTurn(sl, nl)
    BY <1>1, <1>3, LeaveFacts DEF nl, KeepsTurn
  <1>5. /\ sls' \in Seq(SharedListener) /\ Len(sls') = Len(sls) /\ DOMAIN sls' = DOMAIN sls
        /\ sls'[i] = nl /\ \A j \in DOMAIN sls : j # i => sls'[j] = sls[j]
    BY <1>1, <1>2, <1>4, SetListener DEF ServerInv
  <1>6. /\ AllOrderly' /\ NoOrphanListener' /\ Mapping' /\ TurnsKept
        /\ \A j \in DOMAIN sls : /\ j \in DOMAIN sls'
                                 /\ sls'[j].key = sls[j].key
                                 /\ sls[j].closed => sls'[j].closed
    BY <1>1, <1>2, <1>4, ReplaceListener DEF sl
  <1>7. /\ \A u \in Serves : u # t => spc'[u] = spc[u]
        /\ spc'[t] \in {"close", "done"}
    BY <1>2 DEF ServerInv, TypeOK
  <1>8. Owned'
    BY <1>1, <1>2, <1>6, <1>7 DEF ServerInv, ListenerInv, Owned, Key
  <1>9. Held'
    <2> SUFFICES ASSUME NEW j \in DOMAIN sls, NEW c \in sls'[j].conns
                 PROVE  \E u \in Serves : u[1] = c /\ spc'[u] = "serve" /\ mine'[u] = j
      BY <1>5 DEF Held
    <2>1. c \in sls[j].conns /\ (j = i => c # t[1])
      BY <1>4, <1>5 DEF sl
    <2>2. PICK u \in Serves : u[1] = c /\ spc[u] = "serve" /\ mine[u] = j
      BY <2>1 DEF ServerInv, ListenerInv, Held
    <2>3. u # t
      BY <2>1, <2>2 DEF i
    <2> QED
      BY <2>2, <2>3, <1>2, <1>7
  <1>10. Launched'
    BY <1>1, <1>2, <1>7 DEF ServerInv, Launched
  <1>11. TypeOK'
    <2>1. spc' \in [Serves -> {"none", "attach", "listen", "serve", "close", "lnClose",
                               "delete", "done"}]
      BY <1>2 DEF ServerInv, TypeOK
    <2> QED
      BY <1>2, <1>5, <2>1, SameLenType DEF ServerInv, TypeOK
  <1> QED
    BY <1>6, <1>8, <1>9, <1>10, <1>11 DEF ServerInv, ListenerInv

(* sl.Close by the goroutine that emptied the order. *)
LEMMA DetachCloseSteps ==
  ASSUME ServerInv, NEW t \in Serves, detachClose(t) \/ detachLnClose(t)
  PROVE  ServerInv' /\ TurnsKept
  <1> DEFINE i == mine[t]
             sl == sls[i]
  <1>1. i \in DOMAIN sls /\ sl.key = Key(t) /\ spc[t] \in {"close", "lnClose"}
    BY DEF detachClose, detachLnClose, ServerInv, ListenerInv, Owned
  <1>2. sl \in SharedListener /\ Orderly(sl)
    BY <1>1, SlsFacts DEF ServerInv, ListenerInv, AllOrderly
  <1>3. UNCHANGED <<rsClosed, ctrlOpen, tracked, listeners, holder, hpc, link, ccDone,
                    mine, cpc, toClose, dials>>
    BY DEF detachClose, detachLnClose
  <1>4. PICK nl \in SharedListener :
          /\ sls' = [sls EXCEPT ![i] = nl]
          /\ nl.order = sl.order /\ nl.conns = sl.conns /\ nl.next = sl.next
          /\ nl.turns = sl.turns /\ nl.key = sl.key /\ nl.closed
          /\ nl.lnOpen /\ ~nl.closed => sl.lnOpen /\ ~sl.closed
    <2>1. CASE detachClose(t)
      <3> DEFINE nl == [sl EXCEPT !.closed = TRUE]
      <3>1. sls' = [sls EXCEPT ![i] = nl]
        BY <2>1 DEF detachClose
      <3> HIDE DEF sl
      <3>2. /\ nl \in SharedListener /\ nl.order = sl.order /\ nl.conns = sl.conns
            /\ nl.next = sl.next /\ nl.turns = sl.turns /\ nl.key = sl.key /\ nl.closed
        BY <1>2 DEF SharedListener
      <3> QED
        BY <3>1, <3>2
    <2>2. CASE detachLnClose(t)
      <3> DEFINE nl == [sl EXCEPT !.lnOpen = FALSE]
      <3>1. sls' = [sls EXCEPT ![i] = nl] /\ sl.closed
        BY <2>2 DEF detachLnClose, ServerInv, ListenerInv, Owned
      <3> HIDE DEF sl
      <3>2. /\ nl \in SharedListener /\ nl.order = sl.order /\ nl.conns = sl.conns
            /\ nl.next = sl.next /\ nl.turns = sl.turns /\ nl.key = sl.key
            /\ nl.closed = sl.closed
        BY <1>2 DEF SharedListener
      <3> QED
        BY <3>1, <3>2
    <2> QED
      BY <2>1, <2>2
  <1>5. Orderly(nl)
    BY <1>2, <1>4 DEF Orderly, Consistent, InRotation, Ahead
  <1>6. /\ sls' \in Seq(SharedListener) /\ Len(sls') = Len(sls) /\ DOMAIN sls' = DOMAIN sls
        /\ sls'[i] = nl /\ \A j \in DOMAIN sls : j # i => sls'[j] = sls[j]
    BY <1>1, <1>4, SetListener DEF ServerInv
  <1>7. /\ AllOrderly' /\ NoOrphanListener' /\ Mapping' /\ TurnsKept
        /\ \A j \in DOMAIN sls : /\ j \in DOMAIN sls'
                                 /\ sls'[j].key = sls[j].key
                                 /\ sls[j].closed => sls'[j].closed
    BY <1>1, <1>2, <1>3, <1>4, <1>5, ReplaceListener, SameKeepsTurn
  <1>8. /\ \A u \in Serves : u # t => spc'[u] = spc[u]
        /\ spc'[t] \in {"lnClose", "delete"}
        /\ spc' \in [Serves -> {"none", "attach", "listen", "serve", "close", "lnClose",
                                "delete", "done"}]
    BY DEF ServerInv, TypeOK, detachClose, detachLnClose
  <1>9. Owned'
    BY <1>1, <1>3, <1>4, <1>6, <1>7, <1>8 DEF ServerInv, ListenerInv, Owned, Key
  <1>10. Held'
    <2> SUFFICES ASSUME NEW j \in DOMAIN sls, NEW c \in sls'[j].conns
                 PROVE  \E u \in Serves : u[1] = c /\ spc'[u] = "serve" /\ mine'[u] = j
      BY <1>6 DEF Held
    <2>1. c \in sls[j].conns
      BY <1>4, <1>6
    <2>2. PICK u \in Serves : u[1] = c /\ spc[u] = "serve" /\ mine[u] = j
      BY <2>1 DEF ServerInv, ListenerInv, Held
    <2> QED
      BY <2>2, <1>1, <1>3, <1>8
  <1>11. Launched'
    BY <1>1, <1>3, <1>8 DEF ServerInv, Launched
  <1>12. TypeOK'
    BY <1>3, <1>6, <1>8, SameLenType DEF ServerInv, TypeOK
  <1> QED
    BY <1>7, <1>9, <1>10, <1>11, <1>12 DEF ServerInv, ListenerInv

(* A new listener: the port was free, so no other listener of this         *)
(* bind:port is both open and unmarked when the map names the new one.     *)
LEMMA ListenStep ==
  ASSUME ServerInv, NEW t \in Serves, listenTunnelOk(t)
  PROVE  ServerInv' /\ TurnsKept
  <1> DEFINE n == Len(sls)
             nl == [key |-> Key(t), order |-> <<t[1]>>, conns |-> {t[1]},
                    next |-> 0, closed |-> FALSE, lnOpen |-> TRUE,
                    accepting |-> TRUE, turns |-> noTurns]
  <1>1. Key(t) \in Keys /\ t[1] \in Conns
    BY ServeFacts
  <1>2. /\ sls' = Append(sls, nl) /\ listeners' = [listeners EXCEPT ![Key(t)] = n + 1]
        /\ mine' = [mine EXCEPT ![t] = n + 1] /\ holder' = free
        /\ spc' = [spc EXCEPT ![t] = "serve"]
        /\ UNCHANGED <<rsClosed, ctrlOpen, tracked, hpc, link, ccDone, cpc, toClose, dials>>
        /\ spc[t] = "listen" /\ ~PortHeld(Key(t))
    BY DEF listenTunnelOk
  <1>3. /\ nl \in SharedListener /\ nl.key = Key(t) /\ nl.order = <<t[1]>>
        /\ nl.conns = {t[1]} /\ nl.next = 0 /\ nl.turns = noTurns
    BY <1>1 DEF SharedListener, noTurns
  <1> HIDE DEF nl
  <1>4. Orderly(nl)
    BY <1>1, <1>3, NewOrderly
  <1>5. /\ n \in Nat /\ DOMAIN sls = 1..n /\ DOMAIN sls' = 1..(n + 1) /\ Len(sls') = n + 1
        /\ sls' \in Seq(SharedListener) /\ sls'[n + 1] = nl
        /\ \A j \in 1..n : sls'[j] = sls[j]
    BY <1>2, <1>3 DEF ServerInv, TypeOK
  <1> HIDE DEF n
  <1>6. /\ \A j \in DOMAIN sls' : j \in DOMAIN sls \/ j = n + 1
        /\ \A j \in DOMAIN sls : j \in DOMAIN sls' /\ sls'[j] = sls[j] /\ j # n + 1
        /\ n + 1 \in DOMAIN sls' /\ n + 1 # 0
    BY <1>5
  <1>7. AllOrderly'
    BY <1>4, <1>5, <1>6 DEF ServerInv, ListenerInv, AllOrderly
  <1>8. /\ listeners'[Key(t)] = n + 1 /\ mine'[t] = n + 1 /\ spc'[t] = "serve"
        /\ \A k \in Keys : k # Key(t) => listeners'[k] = listeners[k]
        /\ \A u \in Serves : u # t => mine'[u] = mine[u] /\ spc'[u] = spc[u]
    BY <1>1, <1>2 DEF ServerInv, TypeOK
  <1>9. NoOrphanListener'
    <2> SUFFICES ASSUME NEW j \in DOMAIN sls', sls'[j].lnOpen, ~sls'[j].closed
                 PROVE  listeners'[sls'[j].key] = j
      BY DEF NoOrphanListener
    <2>1. CASE j = n + 1
      BY <2>1, <1>3, <1>5, <1>8
    <2>2. CASE j \in DOMAIN sls
      <3>1. sls[j].lnOpen /\ ~sls[j].closed /\ sls[j].key \in Keys
        BY <2>2, <1>6, SlsFacts, ListenerType DEF ServerInv
      <3>2. listeners[sls[j].key] = j
        BY <3>1, <2>2 DEF ServerInv, ListenerInv, NoOrphanListener
      <3>3. sls[j].key # Key(t)
        BY <3>1, <2>2, <1>2 DEF PortHeld
      <3> QED
        BY <3>1, <3>2, <3>3, <2>2, <1>6, <1>8
    <2> QED
      BY <2>1, <2>2, <1>6
  <1>10. Mapping'
    BY <1>3, <1>5, <1>6, <1>8 DEF ServerInv, ListenerInv, Mapping
  <1>11. Owned'
    BY <1>3, <1>5, <1>6, <1>8 DEF ServerInv, ListenerInv, Owned, Key
  <1>12. Held'
    <2> SUFFICES ASSUME NEW j \in DOMAIN sls', NEW c \in sls'[j].conns
                 PROVE  \E u \in Serves : u[1] = c /\ spc'[u] = "serve" /\ mine'[u] = j
      BY DEF Held
    <2>1. CASE j = n + 1
      BY <2>1, <1>3, <1>5, <1>8
    <2>2. CASE j \in DOMAIN sls
      <3>1. PICK u \in Serves : u[1] = c /\ spc[u] = "serve" /\ mine[u] = j
        BY <2>2, <1>6 DEF ServerInv, ListenerInv, Held
      <3> QED
        BY <3>1, <1>2, <1>8
    <2> QED
      BY <2>1, <2>2, <1>6
  <1>13. Launched'
    BY <1>2, <1>8 DEF ServerInv, Launched
  <1>14. TurnsKept
    BY <1>6, SameKeepsTurn, SlsFacts DEF TurnsKept, ServerInv, ListenerInv, AllOrderly
  <1>15. TypeOK'
    <2>1. listeners' \in [Keys -> 0..Len(sls')] /\ mine' \in [Serves -> 0..Len(sls')]
      <3>1. listeners \in [Keys -> 0..n] /\ mine \in [Serves -> 0..n]
        BY DEF ServerInv, TypeOK, n
      <3>2. \A x \in 0..n : x \in 0..Len(sls')
        BY <1>5
      <3>3. n + 1 \in 0..Len(sls')
        BY <1>5
      <3> QED
        BY <1>1, <1>2, <3>1, <3>2, <3>3
    <2>2. toClose \in [conns : SUBSET Conns, at : SUBSET Conns, sls : SUBSET (1..n)]
      BY DEF ServerInv, TypeOK, n
    <2>3. toClose' \in [conns : SUBSET Conns, at : SUBSET Conns, sls : SUBSET (1..Len(sls'))]
      BY <2>2, <1>2, <1>5
    <2>4. spc' \in [Serves -> {"none", "attach", "listen", "serve", "close", "lnClose",
                               "delete", "done"}]
      BY <1>2 DEF ServerInv, TypeOK
    <2> QED
      BY <1>2, <1>5, <2>1, <2>3, <2>4 DEF ServerInv, TypeOK
  <1> QED
    BY <1>7, <1>9, <1>10, <1>11, <1>12, <1>13, <1>14, <1>15 DEF ServerInv, ListenerInv

-----------------------------------------------------------------------------
(* The theorems *)

LEMMA NextServerInv ==
  ASSUME ServerInv, [Next]_vars
  PROVE  ServerInv' /\ (dials' = dials => TurnsKept)
  <1>1. ASSUME NEW c \in Conns,
               \/ Accept(c) \/ HandshakeOk(c) \/ HandshakeFail(c)
               \/ handleClient(c) \/ LinkDown(c) \/ LinkJams(c) \/ readLoopEnds(c)
        PROVE  ServerInv' /\ TurnsKept
    BY <1>1, ConnSteps, TrackStep DEF handleClient
  <1>2. ASSUME NEW t \in Serves, attachSharedListener(t) \/ detachSharedListener(t)
        PROVE  ServerInv' /\ TurnsKept
    BY <1>2, GoroutineQuiet, AttachExistingStep, MapSteps, ListenStep, DetachStep,
       DetachCloseSteps DEF attachSharedListener, detachSharedListener
  <1>3. ASSUME NEW i \in DOMAIN sls,
               dispatch(i) \/ dispatchNobody(i) \/ acceptLoopFails(i) \/ acceptLoopEnds(i)
        PROVE  ServerInv' /\ (dials' = dials => TurnsKept)
    <2>1. CASE dispatch(i) \/ dispatchNobody(i)
      <3>1. dials' # dials
        BY <2>1, RemoteServerAssumption DEF dispatch, dispatchNobody, ServerInv, TypeOK
      <3> QED
        BY <2>1, <3>1, DispatchStep, DispatchNobodyStep
    <2> QED
      BY <1>3, <2>1, AcceptLoopSteps
  <1>4. ASSUME Close \/ CloseStep
        PROVE  ServerInv' /\ TurnsKept
    BY <1>4, CloseSteps, CloseListenerStep DEF CloseStep
  <1>5. ASSUME UNCHANGED vars
        PROVE  ServerInv' /\ TurnsKept
    <2>1. ServerInv'
      BY <1>5 DEF vars, ServerInv, TypeOK, ListenerInv, AllOrderly, NoOrphanListener,
                  Mapping, Owned, Held, Launched, Key
    <2> QED
      BY <2>1, <1>5, QuietTurns DEF vars
  <1> QED
    BY <1>1, <1>2, <1>3, <1>4, <1>5 DEF Next

LEMMA ServerInvariant == Spec => []ServerInv
  BY InitServerInv, NextServerInv, PTL DEF Spec

(* Every variable of the server keeps its type, for any number of          *)
(* connections, tunnels and bind:port pairs.                               *)
THEOREM TypeCorrect == Spec => []TypeOK
  <1>1. ServerInv => TypeOK
    BY DEF ServerInv
  <1> QED
    BY <1>1, ServerInvariant, PTL

(* attach, detach and dispatch keep order, conns and next of every shared  *)
(* listener consistent.                                                    *)
THEOREM OrderStaysConsistent == Spec => []OrderConsistent
  <1>1. ServerInv => OrderConsistent
    BY DEF ServerInv, ListenerInv, AllOrderly, Orderly, Consistent, OrderConsistent
  <1> QED
    BY <1>1, ServerInvariant, PTL

(* dispatch shares the public connections out evenly: two connections of a *)
(* listener never differ by more than one while its order stands.          *)
THEOREM TurnsAreEven == Spec => []RoundRobin
  <1>1. ServerInv => RoundRobin
    BY RotationIsFair, SlsFacts DEF ServerInv, ListenerInv, AllOrderly, RoundRobin
  <1> QED
    BY <1>1, ServerInvariant, PTL

(* A listener that holds its port and is not marked is the one the map     *)
(* names: Close and attachSharedListener find every one of them.           *)
THEOREM EveryListenerIsMapped == Spec => []NoOrphanListener
  <1>1. ServerInv => NoOrphanListener
    BY DEF ServerInv, ListenerInv
  <1> QED
    BY <1>1, ServerInvariant, PTL

(* A connection whose serveRemoteTunnel goroutines have all ended is in no *)
(* listener's order: dispatch never picks it again.                        *)
THEOREM NoGhostRegistered == Spec => []NoGhost
  <1>1. ServerInv => NoGhost
    BY DEF ServerInv, ListenerInv, Held, NoGhost
  <1> QED
    BY <1>1, ServerInvariant, PTL

(* attach and detach take no connection's turn away: the correction of     *)
(* next in detachSharedListener is exact for every order and every leaver. *)
THEOREM TurnsAreKept == Spec => TurnKept
  <1>1. ServerInv /\ [Next]_vars =>
          [\A i \in DOMAIN sls :
             dials' = dials /\ sls[i].order # <<>> /\ sls'[i].order # <<>> =>
               Turn(sls'[i]) = IF Turn(sls[i]) \in sls'[i].conns THEN Turn(sls[i])
                               ELSE Successor(sls[i].order, Turn(sls[i]))]_vars
    BY NextServerInv DEF TurnsKept, KeepsTurn
  <1> QED
    BY <1>1, ServerInvariant, PTL DEF Spec, TurnKept
=============================================================================
