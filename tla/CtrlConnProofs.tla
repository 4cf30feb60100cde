--------------------------- MODULE CtrlConnProofs ---------------------------
(* Type correctness of CtrlConn, and that no channel is forgotten or lost, *)
(* for any sets of channels and any capacity of the queue.                 *)
EXTENDS CtrlConn, FiniteSetTheorems, TLAPS

-----------------------------------------------------------------------------
(* The queue *)

LEMMA QueueAppend ==
  ASSUME NEW q \in Seq(Incoming), NEW c \in Incoming
  PROVE  /\ Append(q, c) \in Seq(Incoming)
         /\ Len(Append(q, c)) = Len(q) + 1
         /\ {Append(q, c)[j] : j \in DOMAIN Append(q, c)} =
              {q[j] : j \in DOMAIN q} \cup {c}
  <1>1. /\ Append(q, c) \in Seq(Incoming) /\ Len(Append(q, c)) = Len(q) + 1
        /\ DOMAIN q = 1..Len(q) /\ DOMAIN Append(q, c) = 1..(Len(q) + 1)
        /\ Len(q) \in Nat
        /\ \A j \in 1..Len(q) : Append(q, c)[j] = q[j]
        /\ Append(q, c)[Len(q) + 1] = c
    OBVIOUS
  <1>2. \A j \in 1..(Len(q) + 1) : j \in 1..Len(q) \/ j = Len(q) + 1
    BY <1>1
  <1>3. Len(q) + 1 \in 1..(Len(q) + 1) /\ \A j \in 1..Len(q) : j \in 1..(Len(q) + 1)
    BY <1>1
  <1> QED
    BY <1>1, <1>2, <1>3, Zenon

LEMMA QueueTail ==
  ASSUME NEW q \in Seq(Incoming), q # <<>>
  PROVE  /\ Tail(q) \in Seq(Incoming)
         /\ Len(Tail(q)) = Len(q) - 1
         /\ Head(q) \in Incoming
         /\ {q[j] : j \in DOMAIN q} =
              {Head(q)} \cup {Tail(q)[j] : j \in DOMAIN Tail(q)}
  <1>1. /\ Tail(q) \in Seq(Incoming) /\ Len(Tail(q)) = Len(q) - 1
        /\ Head(q) \in Incoming /\ Head(q) = q[1]
        /\ DOMAIN q = 1..Len(q) /\ DOMAIN Tail(q) = 1..(Len(q) - 1)
        /\ Len(q) \in Nat /\ Len(q) > 0
        /\ \A j \in 1..(Len(q) - 1) : Tail(q)[j] = q[j + 1]
    OBVIOUS
  <1>2. ASSUME NEW j \in DOMAIN q
        PROVE  q[j] \in {Head(q)} \cup {Tail(q)[i] : i \in DOMAIN Tail(q)}
    <2>1. CASE j = 1
      BY <2>1, <1>1
    <2>2. CASE j # 1
      <3>1. j - 1 \in DOMAIN Tail(q) /\ (j - 1) + 1 = j
        BY <2>2, <1>1
      <3>2. Tail(q)[j - 1] = q[j]
        BY <3>1, <1>1
      <3> QED
        BY <3>1, <3>2
    <2> QED
      BY <2>1, <2>2
  <1>3. ASSUME NEW j \in DOMAIN Tail(q)
        PROVE  Tail(q)[j] \in {q[i] : i \in DOMAIN q}
    <2>1. j + 1 \in DOMAIN q /\ Tail(q)[j] = q[j + 1]
      BY <1>1
    <2> QED
      BY <2>1
  <1>4. Head(q) \in {q[i] : i \in DOMAIN q}
    BY <1>1
  <1> QED
    BY ZenonT(60), <1>1, <1>2, <1>3, <1>4

-----------------------------------------------------------------------------
(* The inductive invariant *)

Queued == {newCh[j] : j \in DOMAIN newCh}

(* handleFrame has one channel in hand exactly while it puts it into the   *)
(* queue.                                                                  *)
InHand ==
  /\ rpc = "push" => \E c \in Incoming : pushing = {c}
  /\ rpc # "push" => pushing = nobody

(* NoneForgotten for every channel on its way into use: one that           *)
(* OpenChannel has registered, that handleFrame holds or that is queued is *)
(* in the map, taken from it to be woken, or woken, wherever closeAll is.  *)
Reached == channels \cup waking \cup errored

Known ==
  /\ \A c \in Opened : opc[c] \in {"send", "open"} => c \in Reached
  /\ served \cup Queued \cup pushing \subseteq Reached

(* closeAll has at most one channel in hand, and readLoop runs it last. *)
OneAtATime ==
  /\ \A c, d \in waking : c = d
  /\ cmu = "readLoop" => rpc = "closeAll"

CtrlInv == TypeOK /\ InHand /\ Known /\ OneAtATime /\ NoneLost

LEMMA InitInv == Init => CtrlInv
  <1> SUFFICES ASSUME Init PROVE CtrlInv
    OBVIOUS
  <1>1. Cardinality(nobody) = 0
    BY FS_EmptySet DEF nobody
  <1>2. TypeOK
    BY <1>1, CtrlConnAssumption DEF Init, TypeOK, nobody
  <1>3. Queued = {}
    BY DEF Init, Queued
  <1>4. InHand /\ Known /\ OneAtATime
    BY <1>3 DEF Init, InHand, Known, Reached, OneAtATime, nobody, free
  <1>5. NoneLost
    BY <1>3 DEF Init, NoneLost, Queued, nobody
  <1> QED
    BY <1>2, <1>4, <1>5 DEF CtrlInv

(* Taking c in hand, queueing it and accepting it move it along. *)
LEMMA ArriveInv ==
  ASSUME CtrlInv, NEW c \in Incoming, Arrive(c)
  PROVE  CtrlInv'
  <1> USE DEF CtrlInv, Arrive
  <1>1. Cardinality({c}) = 1
    BY FS_Singleton
  <1>2. TypeOK'
    BY <1>1 DEF TypeOK, Channels
  <1>3. Queued' = Queued /\ pushing = {} /\ pushing' = {c}
    BY DEF Queued, InHand, nobody
  <1>4. InHand'
    BY <1>3 DEF InHand
  <1>5. Known' /\ OneAtATime'
    BY <1>3 DEF Known, Reached, OneAtATime
  <1>6. NoneLost'
    BY <1>3 DEF NoneLost, Queued
  <1> QED
    BY <1>2, <1>4, <1>5, <1>6

LEMMA PushInv ==
  ASSUME CtrlInv, Push
  PROVE  CtrlInv'
  <1> USE DEF CtrlInv, Push
  <1>1. PICK c \in Incoming : pushing = {c}
    BY DEF InHand
  <1>2. newCh' = Append(newCh, c)
    BY <1>1 DEF Enqueue
  <1>3. newCh \in Seq(Incoming) /\ Len(newCh) \in Nat /\ Len(newCh) < QueueCap
    BY DEF TypeOK, HasRoom
  <1>4. newCh' \in Seq(Incoming) /\ Len(newCh') = Len(newCh) + 1 /\ Queued' = Queued \cup {c}
    <2>1. Queued' = {Append(newCh, c)[j] : j \in DOMAIN Append(newCh, c)}
      BY <1>2 DEF Queued
    <2>2. /\ Append(newCh, c) \in Seq(Incoming) /\ Len(Append(newCh, c)) = Len(newCh) + 1
          /\ {Append(newCh, c)[j] : j \in DOMAIN Append(newCh, c)} = Queued \cup {c}
      BY <1>3, QueueAppend, Zenon DEF Queued
    <2> QED
      BY <1>2, <2>1, <2>2, Zenon
  <1>5. Len(newCh') <= QueueCap
    BY <1>3, <1>4, CtrlConnAssumption
  <1>6. Cardinality(pushing') = 0
    BY FS_EmptySet DEF nobody
  <1>7. TypeOK'
    BY <1>4, <1>5, <1>6 DEF TypeOK, nobody
  <1>8. InHand' /\ Known' /\ OneAtATime'
    BY <1>1, <1>4 DEF InHand, Known, Reached, OneAtATime, nobody
  <1>9. NoneLost'
    BY <1>1, <1>4 DEF NoneLost, Queued, nobody
  <1> QED
    BY <1>7, <1>8, <1>9

LEMMA AcceptInv ==
  ASSUME CtrlInv, AcceptChannel
  PROVE  CtrlInv'
  <1> USE DEF CtrlInv, AcceptChannel
  <1>1. newCh \in Seq(Incoming) /\ Len(newCh) \in Nat
    BY DEF TypeOK
  <1>2. /\ newCh' \in Seq(Incoming) /\ Len(newCh') = Len(newCh) - 1
        /\ Head(newCh) \in Incoming /\ Queued = {Head(newCh)} \cup Queued'
    BY <1>1, QueueTail DEF Queued
  <1>3. Len(newCh') <= QueueCap
    BY <1>1, <1>2, CtrlConnAssumption DEF TypeOK
  <1>4. TypeOK'
    BY <1>2, <1>3 DEF TypeOK
  <1>5. InHand' /\ Known' /\ OneAtATime'
    BY <1>2 DEF InHand, Known, Reached, OneAtATime
  <1>6. NoneLost'
    BY <1>2 DEF NoneLost, Queued
  <1> QED
    BY <1>4, <1>5, <1>6

(* The steps that leave the queue alone. *)
LEMMA ReadLoopEndInv ==
  ASSUME CtrlInv, readLoopFails \/ AcceptFails \/ PeerGone
  PROVE  CtrlInv'
  <1> USE DEF CtrlInv, readLoopFails, AcceptFails, PeerGone
  <1>1. Queued' = Queued
    BY DEF Queued
  <1>2. TypeOK'
    BY DEF TypeOK
  <1>3. InHand' /\ Known' /\ OneAtATime'
    BY <1>1 DEF InHand, Known, Reached, OneAtATime
  <1>4. NoneLost'
    BY <1>1 DEF NoneLost, Queued
  <1> QED
    BY <1>2, <1>3, <1>4

LEMMA OpenInv ==
  ASSUME CtrlInv, NEW c \in Opened, OpenRegister(c) \/ OpenSent(c) \/ OpenFails(c)
  PROVE  CtrlInv'
  <1> USE DEF CtrlInv, OpenRegister, OpenSent, OpenFails
  <1>1. Queued' = Queued
    BY DEF Queued
  <1>2. TypeOK'
    BY DEF TypeOK, Channels
  <1>3. c \notin served \cup Queued \cup pushing
    BY CtrlConnAssumption DEF TypeOK, Queued
  <1>4. InHand' /\ Known' /\ OneAtATime'
    BY <1>1, <1>3 DEF InHand, Known, Reached, OneAtATime, TypeOK
  <1>5. NoneLost'
    BY <1>1 DEF NoneLost, Queued
  <1> QED
    BY <1>2, <1>4, <1>5

(* closeAll moves a channel from the map to waking, and on to errored. *)
LEMMA CloseAllInv ==
  ASSUME CtrlInv, NEW a \in {"readLoop"} \cup Closers, closeAll(a)
  PROVE  CtrlInv'
  <1> USE DEF CtrlInv, closeAll, LockMap, TakeChannel, setError, UnlockMap, Woken,
              Unlocked, nobody, free
  <1>1. Queued' = Queued
    BY DEF Queued
  <1>2. TypeOK'
    BY DEF TypeOK, Closers
  <1>3. InHand'
    BY DEF InHand, OneAtATime
  <1>4. Reached' = Reached
    BY DEF Reached, OneAtATime
  <1>5. Known' /\ OneAtATime'
    BY <1>1, <1>4 DEF Known, OneAtATime, Wants, Closers
  <1>6. NoneLost'
    BY <1>1 DEF NoneLost, Queued
  <1> QED
    BY <1>2, <1>3, <1>5, <1>6

LEMMA CloseInv ==
  ASSUME CtrlInv, NEW k \in Closers, CloseBegins(k) \/ CloseConn(k)
  PROVE  CtrlInv'
  <1> USE DEF CtrlInv, CloseBegins, CloseConn
  <1>1. Queued' = Queued
    BY DEF Queued
  <1>2. TypeOK'
    BY DEF TypeOK
  <1>3. InHand' /\ Known' /\ OneAtATime'
    BY <1>1 DEF InHand, Known, Reached, OneAtATime
  <1>4. NoneLost'
    BY <1>1 DEF NoneLost, Queued
  <1> QED
    BY <1>2, <1>3, <1>4

LEMMA ReadInv ==
  ASSUME CtrlInv, NEW c \in InUse \cup held, ReadBlocks(c) \/ ReadReturns(c)
  PROVE  CtrlInv'
  <1> USE DEF CtrlInv, ReadBlocks, ReadReturns
  <1>1. Queued' = Queued
    BY DEF Queued
  <1>2. TypeOK'
    BY DEF TypeOK, InUse, Channels
  <1>3. InHand' /\ Known' /\ OneAtATime'
    BY <1>1 DEF InHand, Known, Reached, OneAtATime
  <1>4. NoneLost'
    BY <1>1 DEF NoneLost, Queued
  <1> QED
    BY <1>2, <1>3, <1>4

LEMMA NextInv == CtrlInv /\ [Next]_vars => CtrlInv'
  <1> SUFFICES ASSUME CtrlInv, [Next]_vars PROVE CtrlInv'
    OBVIOUS
  <1>1. CASE UNCHANGED vars
    BY <1>1 DEF vars, CtrlInv, TypeOK, InHand, Known, Reached, OneAtATime, Queued, NoneLost
  <1>2. CASE Next
    BY <1>2, ArriveInv, PushInv, AcceptInv, ReadLoopEndInv, OpenInv, CloseAllInv, CloseInv,
       ReadInv
       DEF Next, readLoop
  <1> QED
    BY <1>1, <1>2

LEMMA CtrlInvariant == Spec => []CtrlInv
  BY InitInv, NextInv, PTL DEF Spec

-----------------------------------------------------------------------------
(* The theorems *)

(* Every reachable state of one end of a control connection is well typed: *)
(* the queue of new channels never exceeds its capacity.                   *)
THEOREM TypeCorrect == Spec => []TypeOK
  <1>1. CtrlInv => TypeOK
    BY DEF CtrlInv
  <1> QED
    BY CtrlInvariant, <1>1, PTL

(* However far closeAll is (readLoop at its end, Close by anybody) and     *)
(* whichever Read it waits for, every channel in use is in the map, in     *)
(* hand or woken.                                                          *)
THEOREM NothingForgotten == Spec => []NoneForgotten
  <1>1. CtrlInv => NoneForgotten
    BY DEF CtrlInv, Known, Reached, NoneForgotten, InUse
  <1> QED
    BY CtrlInvariant, <1>1, PTL

(* The queue between readLoop and AcceptChannel loses no channel, however  *)
(* many arrive while it is full.                                           *)
THEOREM NothingLost == Spec => []NoneLost
  <1>1. CtrlInv => NoneLost
    BY DEF CtrlInv
  <1> QED
    BY CtrlInvariant, <1>1, PTL
=============================================================================
