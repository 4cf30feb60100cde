--------------------------- MODULE ChannelProofs ---------------------------
(* For all constants: type correctness, flow control, delivery and the     *)
(* conservation of credit in Channel, and that it implements ByteStream.   *)
EXTENDS Channel, SequenceTheorems, WellFoundedInduction, TLAPS

-----------------------------------------------------------------------------
(* Ends and their peers: the only facts about tuples the rest needs. *)

LEMMA OtherFacts ==
  ASSUME NEW s \in Sides
  PROVE  /\ Other(s) \in Sides
         /\ Other(s) # s
         /\ Other(Other(s)) = s
  BY DEF Sides, Other

LEMMA PeerFacts ==
  ASSUME NEW e \in Ends
  PROVE  /\ Peer(e) \in Ends
         /\ Peer(e) # e
         /\ Peer(Peer(e)) = e
         /\ Side(e) \in Sides
         /\ e[2] \in Chans
         /\ Side(Peer(e)) = Other(Side(e))
         /\ Peer(e)[2] = e[2]
  <1>1. PICK s \in Sides, c \in Chans : e = <<s, c>>
    BY DEF Ends
  <1> QED
    BY <1>1, OtherFacts DEF Ends, Peer, Side

(* An end is determined by its side and its channel. *)
LEMMA SameEnd ==
  ASSUME NEW e \in Ends, NEW f \in Ends, Side(e) = Side(f), e[2] = f[2]
  PROVE  e = f
  BY DEF Ends, Side

(* The readLoop of side s hands the frame at the head to an end of s. *)
LEMMA ForFacts ==
  ASSUME TypeOK, NEW s \in Sides, wire[s] # <<>>
  PROVE  /\ For(s) \in Ends
         /\ Side(For(s)) = s
         /\ For(s)[2] = wire[s][1].ch
         /\ Head(wire[s]) = wire[s][1]
         /\ wire[s][1] \in Frame
         /\ 1 \in DOMAIN wire[s]
  <1>1. wire[s] \in Seq(Frame)
    BY DEF TypeOK
  <1>2. Head(wire[s]) = wire[s][1] /\ wire[s][1] \in Frame /\ 1 \in DOMAIN wire[s]
    BY <1>1
  <1>3. wire[s][1].ch \in Chans
    BY <1>2 DEF Frame
  <1> QED
    BY <1>2, <1>3 DEF For, Ends, Side

-----------------------------------------------------------------------------
(* Sequences: appending a frame and reading the oldest one. *)

LEMMA AppendFacts ==
  ASSUME NEW S, NEW q \in Seq(S), NEW x \in S
  PROVE  /\ Append(q, x) \in Seq(S)
         /\ DOMAIN Append(q, x) = 1..(Len(q) + 1)
         /\ DOMAIN q = 1..Len(q)
         /\ Len(q) \in Nat
         /\ \A i \in 1..Len(q) : Append(q, x)[i] = q[i]
         /\ Append(q, x)[Len(q) + 1] = x
  OBVIOUS

LEMMA TailFacts ==
  ASSUME NEW S, NEW q \in Seq(S), q # <<>>
  PROVE  /\ Tail(q) \in Seq(S)
         /\ DOMAIN Tail(q) = 1..(Len(q) - 1)
         /\ DOMAIN q = 1..Len(q)
         /\ Len(q) \in Nat \ {0}
         /\ \A i \in DOMAIN Tail(q) : i + 1 \in DOMAIN q /\ Tail(q)[i] = q[i + 1]
  OBVIOUS

(* What Read leaves in the buffer. *)
LEMMA RestFacts ==
  ASSUME NEW q \in Seq(Nat), NEW n \in 1..Len(q)
  PROVE  /\ SubSeq(q, n + 1, Len(q)) \in Seq(Nat)
         /\ Len(SubSeq(q, n + 1, Len(q))) = Len(q) - n
  OBVIOUS

(* What pushData leaves in the buffer. *)
LEMMA PushFacts ==
  ASSUME NEW q \in Seq(Nat), NEW lo \in Nat, NEW n \in Nat
  PROVE  /\ q \o Bytes(lo, n) \in Seq(Nat)
         /\ Len(q \o Bytes(lo, n)) = Len(q) + n
  <1>1. Bytes(lo, n) \in Seq(Nat) /\ Len(Bytes(lo, n)) = n
    BY DEF Bytes
  <1> QED
    BY SMTT(60), <1>1

-----------------------------------------------------------------------------
(* How the frames of an end change: a send adds the last one, the readLoop *)
(* removes the first one, and nothing else touches the wire.               *)

LEMMA SendFrames ==
  ASSUME TypeOK, NEW e \in Ends, NEW type \in {"new", "data", "close", "wu"},
         NEW lo \in Nat, NEW n \in Nat, sendFrame(e, type, lo, n),
         NEW g \in Ends, NEW t, NEW i \in DOMAIN (wire'[Side(g)]), IsFrame(g, t, i)'
  PROVE  \/ /\ i \in DOMAIN wire[Side(g)] /\ IsFrame(g, t, i)
            /\ Lo(g, i)' = Lo(g, i) /\ Hi(g, i)' = Hi(g, i)
         \/ /\ g = Peer(e) /\ t = type
            /\ i = Len(wire[Side(g)]) + 1
            /\ Lo(g, i)' = lo /\ Hi(g, i)' = lo + n
  <1> DEFINE x == [type |-> type, ch |-> e[2], lo |-> lo, n |-> n]
             s == Other(Side(e))
  <1>1. s \in Sides /\ Side(g) \in Sides /\ s = Side(Peer(e)) /\ Peer(e)[2] = e[2]
        /\ Peer(e) \in Ends /\ x \in Frame
    BY PeerFacts, OtherFacts DEF Frame
  <1>2. wire' = [wire EXCEPT ![s] = Append(wire[s], x)]
    BY DEF sendFrame
  <1>3. CASE Side(g) # s
    <2>1. wire'[Side(g)] = wire[Side(g)]
      BY <1>1, <1>2, <1>3 DEF TypeOK
    <2> QED
      BY <2>1 DEF IsFrame, Lo, Hi
  <1>4. CASE Side(g) = s
    <2>1. wire'[Side(g)] = Append(wire[s], x) /\ wire[s] \in Seq(Frame)
      BY <1>1, <1>2, <1>4 DEF TypeOK
    <2>2. CASE i \in 1..Len(wire[s])
      <3>1. wire'[Side(g)][i] = wire[s][i] /\ i \in DOMAIN wire[s]
        BY <1>1, <2>1, <2>2, AppendFacts
      <3> QED
        BY <3>1, <1>4 DEF IsFrame, Lo, Hi
    <2>3. CASE i = Len(wire[s]) + 1
      <3>1. wire'[Side(g)][i] = x
        BY <1>1, <2>1, <2>3, AppendFacts
      <3>2. t = type /\ g[2] = e[2]
        BY <3>1 DEF IsFrame
      <3>3. g = Peer(e)
        BY <3>2, <1>1, <1>4, SameEnd
      <3>4. Lo(g, i)' = lo /\ Hi(g, i)' = lo + n
        BY <3>1 DEF Lo, Hi
      <3> QED
        BY <3>2, <3>3, <3>4, <2>3, <1>4
    <2>4. i \in 1..(Len(wire[s]) + 1) /\ Len(wire[s]) \in Nat
      BY <1>1, <2>1, AppendFacts
    <2>5. i \in 1..Len(wire[s]) \/ i = Len(wire[s]) + 1
      BY <2>4
    <2> QED
      BY <2>2, <2>3, <2>5
  <1> QED
    BY <1>3, <1>4

LEMMA ReadFrames ==
  ASSUME TypeOK, NEW s \in Sides, wire[s] # <<>>, ReadFrame(s),
         NEW g \in Ends, NEW t, NEW i \in DOMAIN (wire'[Side(g)]), IsFrame(g, t, i)'
  PROVE  \/ /\ Side(g) # s
            /\ i \in DOMAIN wire[Side(g)] /\ IsFrame(g, t, i)
            /\ Lo(g, i)' = Lo(g, i) /\ Hi(g, i)' = Hi(g, i)
         \/ /\ Side(g) = s /\ i \in Nat \ {0}
            /\ i + 1 \in DOMAIN wire[Side(g)] /\ IsFrame(g, t, i + 1)
            /\ Lo(g, i)' = Lo(g, i + 1) /\ Hi(g, i)' = Hi(g, i + 1)
  <1>1. Side(g) \in Sides
    BY PeerFacts
  <1>2. CASE Side(g) # s
    <2>1. wire'[Side(g)] = wire[Side(g)]
      BY <1>1, <1>2 DEF TypeOK, ReadFrame
    <2> QED
      BY <2>1, <1>2 DEF IsFrame, Lo, Hi
  <1>3. CASE Side(g) = s
    <2>1. wire'[s] = Tail(wire[s]) /\ wire[s] \in Seq(Frame)
      BY DEF TypeOK, ReadFrame
    <2>2. /\ i \in Nat \ {0} /\ i + 1 \in DOMAIN wire[s]
          /\ wire'[s][i] = wire[s][i + 1]
      BY <1>3, <2>1, TailFacts
    <2> QED
      BY <2>2, <1>3 DEF IsFrame, Lo, Hi
  <1> QED
    BY <1>2, <1>3

LEMMA QuietFrames ==
  ASSUME UNCHANGED wire, NEW g \in Ends, NEW t, NEW i
  PROVE  /\ wire'[Side(g)] = wire[Side(g)]
         /\ IsFrame(g, t, i)' <=> IsFrame(g, t, i)
         /\ Lo(g, i)' = Lo(g, i) /\ Hi(g, i)' = Hi(g, i)
  BY DEF IsFrame, Lo, Hi

-----------------------------------------------------------------------------
(* Type correctness, together with the bookkeeping it rests on. *)

LEMMA SendTyped ==
  ASSUME TypeOK, NEW e \in Ends, NEW type \in {"new", "data", "close", "wu"},
         NEW lo \in Nat, NEW n \in Nat, sendFrame(e, type, lo, n)
  PROVE  wire' \in [Sides -> Seq(Frame)]
  <1>1. Other(Side(e)) \in Sides /\ e[2] \in Chans
    BY PeerFacts, OtherFacts
  <1>2. [type |-> type, ch |-> e[2], lo |-> lo, n |-> n] \in Frame
    BY <1>1 DEF Frame
  <1>3. wire[Other(Side(e))] \in Seq(Frame)
    BY <1>1 DEF TypeOK
  <1>4. Append(wire[Other(Side(e))], [type |-> type, ch |-> e[2], lo |-> lo, n |-> n])
          \in Seq(Frame)
    BY <1>2, <1>3, AppendFacts
  <1> QED
    BY <1>1, <1>4 DEF TypeOK, sendFrame

LEMMA ReadTyped ==
  ASSUME TypeOK, NEW s \in Sides, wire[s] # <<>>, ReadFrame(s)
  PROVE  wire' \in [Sides -> Seq(Frame)]
  <1>1. Tail(wire[s]) \in Seq(Frame)
    BY TailFacts DEF TypeOK
  <1> QED
    BY <1>1 DEF TypeOK, ReadFrame

LEMMA WriterTyped ==
  ASSUME TypeOK, Reserved, Opening, NEW e \in Ends, OpenRegister(e) \/ Writer(e)
  PROVE  TypeOK' /\ Reserved'
  <1> USE ChannelAssumption
  <1>1. CASE OpenRegister(e)
    BY <1>1 DEF TypeOK, Reserved, OpenRegister, rvars
  <1>2. CASE OpenSend(e)
    BY <1>2, SendTyped DEF TypeOK, Reserved, Opening, Started, OpenSend
  <1>3. CASE DialOk(e)
    BY <1>3 DEF TypeOK, Reserved, Opening, Started, DialOk
  <1>4. CASE DialFail(e)
    BY <1>4 DEF TypeOK, Reserved, Opening, Started, DialFail
  <1>5. CASE \E n \in 1..BufferSize : SrcRead(e, n)
    BY <1>5, SMTT(60) DEF TypeOK, Reserved, SrcRead, rvars
  <1>6. CASE SrcEnd(e)
    BY <1>6 DEF TypeOK, Reserved, SrcEnd, rvars
  <1>7. CASE WriteEnter(e)
    BY <1>7 DEF TypeOK, Reserved, WriteEnter, rvars
  <1>8. CASE WriteRefused(e)
    BY <1>8 DEF TypeOK, Reserved, WriteRefused, rvars
  <1>9. CASE WriteAbort(e)
    BY <1>9 DEF TypeOK, Reserved, WriteAbort, rvars
  <1>10. CASE WriteWait(e)
    BY <1>10 DEF TypeOK, Reserved, WriteWait, rvars
  <1>11. CASE WriteReserve(e)
    <2>0. sendWindow[e] \in Nat /\ pend[e] \in Nat
      BY DEF TypeOK
    <2>1. ChunkLen(e) \in Nat /\ ChunkLen(e) <= sendWindow[e] /\ ChunkLen(e) <= pend[e]
      BY <2>0 DEF ChunkLen
    <2>2. /\ chunk' = [chunk EXCEPT ![e] = ChunkLen(e)]
          /\ sendWindow' = [sendWindow EXCEPT ![e] = sendWindow[e] - ChunkLen(e)]
          /\ wpc' = [wpc EXCEPT ![e] = "send"]
          /\ UNCHANGED <<status, mapped, rb, rerr, pend, rpc, got, closing, wire,
                         sent, consumed>>
      BY <1>11 DEF WriteReserve, rvars
    <2>3. TypeOK'
      <3>1. sendWindow[e] - ChunkLen(e) \in Nat
        BY <2>0, <2>1
      <3>2. sendWindow' \in [Ends -> Nat]
        BY <2>2, <3>1 DEF TypeOK
      <3>3. chunk' \in [Ends -> Nat]
        BY <2>1, <2>2 DEF TypeOK
      <3> QED
        BY <2>2, <3>2, <3>3 DEF TypeOK
    <2>4. ASSUME NEW f \in Ends
          PROVE  /\ wpc'[f] # "send" => chunk'[f] = 0
                 /\ chunk'[f] <= pend'[f]
      <3>1. CASE f = e
        BY <2>1, <2>2, <3>1 DEF TypeOK
      <3>2. CASE f # e
        BY <2>2, <3>2 DEF TypeOK, Reserved
      <3> QED
        BY <3>1, <3>2
    <2>5. Reserved'
      BY <2>2, <2>4 DEF Reserved
    <2> QED
      BY <2>3, <2>5
  <1>12. CASE WriteSend(e)
    <2>1. wire' \in [Sides -> Seq(Frame)]
      <3>1. sent[e] \in Nat /\ chunk[e] \in Nat
        BY DEF TypeOK
      <3> QED
        BY <1>12, <3>1, SendTyped DEF WriteSend
    <2> QED
      BY <1>12, <2>1, SMTT(60) DEF TypeOK, Reserved, WriteSend, rvars
  <1>13. CASE CloseWrite(e)
    BY <1>13 DEF TypeOK, Reserved, CloseWrite, rvars
  <1>14. CASE CloseWriteNoop(e)
    BY <1>14 DEF TypeOK, Reserved, CloseWriteNoop, rvars
  <1>15. CASE CloseWriteSend(e)
    BY <1>15, SendTyped DEF TypeOK, Reserved, CloseWriteSend, rvars
  <1> QED
    BY <1>1, <1>2, <1>3, <1>4, <1>5, <1>6, <1>7, <1>8, <1>9, <1>10, <1>11, <1>12, <1>13, <1>14, <1>15 DEF Writer

LEMMA TakeFacts ==
  ASSUME TypeOK, NEW e \in Ends, rb[e] # <<>>
  PROVE  /\ TakeLen(e) \in 1..Len(rb[e])
         /\ Rest(e, TakeLen(e)) \in Seq(Nat)
         /\ Len(Rest(e, TakeLen(e))) = Len(rb[e]) - TakeLen(e)
  <1>1. rb[e] \in Seq(Nat)
    BY DEF TypeOK
  <1>2. TakeLen(e) \in 1..Len(rb[e])
    BY <1>1, ChannelAssumption DEF TakeLen
  <1> QED
    BY <1>1, <1>2, RestFacts DEF Rest

LEMMA ReaderTyped ==
  ASSUME TypeOK, Reserved, Opening, NEW e \in Ends, Reader(e) \/ Closer(e)
  PROVE  TypeOK' /\ Reserved'
  <1> USE ChannelAssumption
  <1>1. CASE ReadTake(e)
    <2>0. rb[e] # <<>> /\ TakeLen(e) \in Nat /\ Rest(e, TakeLen(e)) \in Seq(Nat)
      <3>1. rb[e] # <<>> /\ Len(rb[e]) \in Nat
        BY <1>1 DEF ReadTake, TypeOK
      <3> QED
        BY <3>1, TakeFacts
    <2>1. /\ TakeLen(e) \in Nat /\ TakeLen(e) <= consumed'[e]
          /\ consumed' \in [Ends -> Nat]
          /\ rb' \in [Ends -> Seq(Nat)]
      BY <1>1, <2>0 DEF TypeOK, ReadTake
    <2> QED
      BY <1>1, <2>1 DEF TypeOK, Reserved, ReadTake, wvars
  <1>2. CASE ReadCredit(e)
    <2>1. wire' \in [Sides -> Seq(Frame)]
      <3>1. consumed[e] - got[e] \in Nat /\ WindowDelta(got[e]) \in Nat
        BY DEF TypeOK, Reserved, WindowDelta
      <3> QED
        BY <1>2, <3>1, SendTyped DEF ReadCredit
    <2>2. TypeOK'
      BY <1>2, <2>1 DEF TypeOK, ReadCredit, wvars
    <2>3. Reserved'
      BY <1>2 DEF TypeOK, Reserved, ReadCredit, wvars
    <2> QED
      BY <2>2, <2>3
  <1>3. CASE ReadEnd(e)
    BY <1>3 DEF TypeOK, Reserved, ReadEnd, wvars
  <1>4. CASE ReadWait(e)
    BY <1>4 DEF TypeOK, Reserved, ReadWait, wvars
  <1>5. CASE SinkWrite(e)
    BY <1>5 DEF TypeOK, Reserved, SinkWrite, wvars
  <1>6. CASE SinkFail(e)
    BY <1>6 DEF TypeOK, Reserved, SinkFail, wvars
  <1>7. CASE CloseBegin(e)
    BY <1>7 DEF TypeOK, Reserved, CloseBegin, wvars, rvars
  <1>8. CASE CloseWakeReader(e)
    BY <1>8 DEF TypeOK, Reserved, CloseWakeReader, WakeReader, wvars
  <1>9. CASE CloseWakeWriter(e)
    BY <1>9 DEF TypeOK, Reserved, CloseWakeWriter, WakeWriter, rvars
  <1>10. CASE removeChannel(e)
    BY <1>10 DEF TypeOK, Reserved, removeChannel, wvars, rvars
  <1>11. CASE CloseSend(e)
    BY <1>11, SendTyped DEF TypeOK, Reserved, CloseSend, wvars, rvars
  <1> QED
    BY <1>1, <1>2, <1>3, <1>4, <1>5, <1>6, <1>7, <1>8, <1>9, <1>10, <1>11 DEF Reader, Closer

LEMMA HandlerTyped ==
  ASSUME TypeOK, Reserved, Opening, NEW s \in Sides, handleFrame(s)
  PROVE  TypeOK' /\ Reserved'
  <1>0. wire[s] # <<>>
    BY DEF handleFrame, Arrives, DropUnmapped, handleNewChannel, pushData,
           pushDataOverflow, handleChannelClose, handleWindowUpdate
  <1>f. For(s) \in Ends /\ Head(wire[s]) \in Frame
    BY <1>0, ForFacts
  <1>n. Head(wire[s]).n \in Nat /\ Head(wire[s]).lo \in Nat
    BY <1>f DEF Frame
  <1>1. CASE DropUnmapped(s)
    BY <1>1, <1>0, <1>f, <1>n, ReadTyped DEF TypeOK, Reserved, DropUnmapped, wvars, rvars
  <1>2. CASE handleNewChannel(s)
    <2>1. IsFrame(For(s), "new", 1) /\ 1 \in DOMAIN wire[Side(For(s))]
      BY <1>0, <1>2, ForFacts DEF handleNewChannel, Arrives, IsFrame
    <2>2. wpc[For(s)] = "off"
      BY <1>f, <2>1 DEF Opening, Announced
    <2> QED
      BY <1>2, <1>0, <1>f, <2>2, ReadTyped DEF TypeOK, Reserved, handleNewChannel, rvars
  <1>3. CASE pushData(s)
    BY <1>3, <1>0, <1>f, <1>n, ReadTyped, PushFacts DEF TypeOK, Reserved, pushData, WakeReader, wvars
  <1>4. CASE pushDataOverflow(s)
    BY <1>4, <1>0, <1>f, <1>n, ReadTyped DEF TypeOK, Reserved, pushDataOverflow, WakeReader, wvars
  <1>5. CASE handleChannelClose(s)
    BY <1>5, <1>0, <1>f, <1>n, ReadTyped DEF TypeOK, Reserved, handleChannelClose, WakeReader, wvars
  <1>6. CASE handleWindowUpdate(s)
    <2>1. wire' \in [Sides -> Seq(Frame)]
      BY <1>0, <1>6, ReadTyped DEF handleWindowUpdate
    <2>2. sendWindow' \in [Ends -> Nat]
      <3>1. sendWindow \in [Ends -> Nat]
        BY DEF TypeOK
      <3>2. PICK n \in Nat : n = Head(wire[s]).n
        BY <1>n
      <3>3. sendWindow' = [sendWindow EXCEPT ![For(s)] = sendWindow[For(s)] + n]
        BY <1>6, <3>2 DEF handleWindowUpdate
      <3> QED
        BY <1>f, <3>1, <3>3
    <2>u. /\ wpc' = [wpc EXCEPT ![For(s)] = WakeWriter(For(s))]
          /\ UNCHANGED <<status, mapped, rb, rerr, pend, chunk, rpc, got, closing,
                         sent, consumed>>
      BY <1>6 DEF handleWindowUpdate, rvars
    <2>w. WakeWriter(For(s)) = IF wpc[For(s)] = "waiting" THEN "window" ELSE wpc[For(s)]
      BY DEF WakeWriter
    <2>3. TypeOK'
      BY <1>f, <2>u, <2>w, <2>1, <2>2 DEF TypeOK
    <2>4. Reserved'
      BY <1>f, <2>u, <2>w DEF TypeOK, Reserved
    <2> QED
      BY <2>3, <2>4
  <1> QED
    BY <1>1, <1>2, <1>3, <1>4, <1>5, <1>6 DEF handleFrame

-----------------------------------------------------------------------------
(* A channel is opened once. *)

(* Steps that leave the wire alone, move no writer back to its start and   *)
(* start no reader early.                                                  *)
LEMMA OpeningQuiet ==
  ASSUME TypeOK, Opening, UNCHANGED wire,
         \A e \in Ends :
           /\ wpc'[e] \in {"off", "open", "dial"} => wpc'[e] = wpc[e]
           /\ wpc[e] = "off" => wpc'[e] = "off"
           /\ rpc[e] = "off" /\ wpc'[e] \in {"off", "open", "dial"} => rpc'[e] = "off"
  PROVE  Opening'
  <1> SUFFICES ASSUME NEW e \in Ends
               PROVE  Started(e)' /\ Announced(e)'
    BY DEF Opening
  <1>1. Peer(e) \in Ends
    BY PeerFacts
  <1> QED
    BY <1>1, QuietFrames DEF Opening, Started, Announced

(* The same for a step that sends a frame other than NewChannel. *)
LEMMA OpeningSend ==
  ASSUME TypeOK, Opening, NEW f \in Ends, NEW type \in {"data", "close", "wu"},
         NEW lo \in Nat, NEW n \in Nat, sendFrame(f, type, lo, n),
         \A e \in Ends :
           /\ wpc'[e] \in {"off", "open", "dial"} => wpc'[e] = wpc[e]
           /\ wpc[e] = "off" => wpc'[e] = "off"
           /\ rpc[e] = "off" /\ wpc'[e] \in {"off", "open", "dial"} => rpc'[e] = "off"
  PROVE  Opening'
  <1> SUFFICES ASSUME NEW e \in Ends
               PROVE  Started(e)' /\ Announced(e)'
    BY DEF Opening
  <1>1. Peer(e) \in Ends
    BY PeerFacts
  <1>2. \A i \in DOMAIN (wire'[Side(e)]) : IsFrame(e, "new", i)' =>
          i \in DOMAIN wire[Side(e)] /\ IsFrame(e, "new", i)
    BY SendFrames
  <1> QED
    BY <1>1, <1>2 DEF Opening, Started, Announced

LEMMA OpeningWriter ==
  ASSUME TypeOK, Reserved, Opening, NEW e \in Ends, OpenRegister(e) \/ Writer(e)
  PROVE  Opening'
  <1>1. CASE DialOk(e)
    BY <1>1, OpeningQuiet DEF TypeOK, DialOk
  <1>2. CASE DialFail(e)
    BY <1>2, OpeningQuiet DEF TypeOK, DialFail
  <1>3. CASE \E n \in 1..BufferSize : SrcRead(e, n)
    <2>1. PICK n \in 1..BufferSize : SrcRead(e, n)
      BY <1>3
    <2>2. /\ wpc[e] = "src" /\ wpc' = [wpc EXCEPT ![e] = "write"]
          /\ rpc' = rpc /\ wire' = wire
      BY <2>1 DEF SrcRead, rvars
    <2> QED
      BY <2>2, OpeningQuiet DEF TypeOK
  <1>4. CASE SrcEnd(e)
    BY <1>4, OpeningQuiet DEF TypeOK, SrcEnd, rvars
  <1>5. CASE WriteEnter(e)
    BY <1>5, OpeningQuiet DEF TypeOK, WriteEnter, rvars
  <1>6. CASE WriteRefused(e)
    BY <1>6, OpeningQuiet DEF TypeOK, WriteRefused, rvars
  <1>7. CASE WriteAbort(e)
    BY <1>7, OpeningQuiet DEF TypeOK, WriteAbort, rvars
  <1>8. CASE WriteWait(e)
    BY <1>8, OpeningQuiet DEF TypeOK, WriteWait, rvars
  <1>9. CASE WriteReserve(e)
    BY <1>9, OpeningQuiet DEF TypeOK, WriteReserve, rvars
  <1>10. CASE CloseWrite(e)
    BY <1>10, OpeningQuiet DEF TypeOK, CloseWrite, rvars
  <1>11. CASE CloseWriteNoop(e)
    BY <1>11, OpeningQuiet DEF TypeOK, CloseWriteNoop, rvars
  <1>12. CASE WriteSend(e)
    <2>1. sent[e] \in Nat /\ chunk[e] \in Nat /\ sendFrame(e, "data", sent[e], chunk[e])
      BY <1>12 DEF TypeOK, WriteSend
    <2>2. \A f \in Ends : /\ rpc'[f] = rpc[f]
                          /\ wpc'[f] # wpc[f] => wpc[f] = "send" /\ wpc'[f] \in {"src", "window"}
      BY <1>12 DEF TypeOK, WriteSend, rvars
    <2> QED
      BY <2>1, <2>2, OpeningSend
  <1>13. CASE CloseWriteSend(e)
    <2>1. sent[e] \in Nat /\ sendFrame(e, "close", sent[e], 0)
      BY <1>13 DEF TypeOK, CloseWriteSend
    <2>2. \A f \in Ends : /\ rpc'[f] = rpc[f]
                          /\ wpc'[f] # wpc[f] => wpc[f] = "sendClose" /\ wpc'[f] = "done"
      BY <1>13 DEF TypeOK, CloseWriteSend, rvars
    <2> QED
      BY <2>1, <2>2, OpeningSend
  <1>14. CASE OpenRegister(e)
    <2>1. /\ Side(e) = "server" /\ wpc[e] = "off" /\ Peer(e) \in Ends
          /\ wpc' = [wpc EXCEPT ![e] = "open"]
          /\ rpc' = rpc /\ wire' = wire
      BY <1>14, PeerFacts DEF OpenRegister, rvars
    <2>2. Side(Peer(e)) = "client" /\ Peer(Peer(e)) = e
      BY <2>1, PeerFacts DEF Other
    <2>3. \A f \in Ends : Peer(f) \in Ends /\ Peer(Peer(f)) = f
      BY PeerFacts
    <2> QED
      <3>1. \A f \in Ends : Started(f)'
        <4> SUFFICES ASSUME NEW f \in Ends
                     PROVE  Started(f)'
          OBVIOUS
        <4>1. CASE f = e
          BY <2>1, <4>1 DEF Opening, Started, TypeOK
        <4>2. CASE f # e
          <5>1. wpc'[f] = wpc[f] /\ (Peer(f) # e => wpc'[Peer(f)] = wpc[Peer(f)])
            BY <2>1, <2>3, <4>2 DEF TypeOK
          <5>2. Peer(f) = e => wpc[f] = "off"
            BY <2>1, <2>2, <2>3 DEF Opening, Started
          <5> QED
            BY <2>1, <5>1, <5>2 DEF Opening, Started
        <4> QED
          BY <4>1, <4>2
      <3>2. \A f \in Ends : Announced(f)'
        <4>1. \A f \in Ends : f # e => wpc'[f] = wpc[f]
          BY <2>1 DEF TypeOK
        <4> SUFFICES ASSUME NEW f \in Ends,
                            NEW i \in DOMAIN (wire'[Side(f)]), IsFrame(f, "new", i)'
                     PROVE  /\ Side(f) = "client" /\ wpc'[f] = "off"
                            /\ wpc'[Peer(f)] \notin {"off", "open"}
                            /\ \A j \in DOMAIN (wire'[Side(f)]) : IsFrame(f, "new", j)' => i = j
          BY DEF Announced
        <4>2. i \in DOMAIN wire[Side(f)] /\ IsFrame(f, "new", i)
          BY <2>1, QuietFrames
        <4>3. /\ Side(f) = "client" /\ wpc[f] = "off" /\ wpc[Peer(f)] \notin {"off", "open"}
              /\ \A j \in DOMAIN wire[Side(f)] : IsFrame(f, "new", j) => i = j
          BY <4>2 DEF Opening, Announced
        <4>4. f # e /\ Peer(f) # e
          BY <2>1, <4>3
        <4>5. \A j \in DOMAIN (wire'[Side(f)]) : IsFrame(f, "new", j)' => i = j
          BY <2>1, <4>3, QuietFrames
        <4> QED
          BY <2>3, <4>1, <4>3, <4>4, <4>5
      <3> QED
        BY <3>1, <3>2 DEF Opening
  <1>15. CASE OpenSend(e)
    <2>1. /\ wpc[e] = "open" /\ sendFrame(e, "new", 0, 0)
          /\ wpc' = [wpc EXCEPT ![e] = "src"]
          /\ rpc' = [rpc EXCEPT ![e] = "read"]
      BY <1>15 DEF OpenSend
    <2>2. \A f \in Ends : Peer(f) \in Ends /\ Peer(Peer(f)) = f /\ Peer(f) # f
      BY PeerFacts
    <2>3. Side(e) = "server" /\ Side(Peer(e)) = "client"
      BY <2>1, PeerFacts DEF Opening, Started, Sides, Other
    <2>4. wpc[Peer(e)] = "off"
      BY <2>1, <2>2, <2>3 DEF Opening, Started
    <2>5. \A i \in DOMAIN wire[Side(Peer(e))] : ~IsFrame(Peer(e), "new", i)
      BY <2>1, <2>2 DEF Opening, Announced
    <2>6. \A f \in Ends : \A i \in DOMAIN (wire'[Side(f)]) : IsFrame(f, "new", i)' =>
            \/ f # Peer(e) /\ i \in DOMAIN wire[Side(f)] /\ IsFrame(f, "new", i)
            \/ f = Peer(e) /\ i = Len(wire[Side(Peer(e))]) + 1
      BY <2>1, <2>5, SendFrames
    <2> QED
      <3>1. \A f \in Ends : Started(f)'
        BY <2>1, <2>2, <2>3 DEF Opening, Started, TypeOK
      <3>2. \A f \in Ends : Announced(f)'
        <4>1. wpc'[e] = "src" /\ \A f \in Ends : f # e => wpc'[f] = wpc[f]
          BY <2>1 DEF TypeOK
        <4> SUFFICES ASSUME NEW f \in Ends,
                            NEW i \in DOMAIN (wire'[Side(f)]), IsFrame(f, "new", i)'
                     PROVE  /\ Side(f) = "client" /\ wpc'[f] = "off"
                            /\ wpc'[Peer(f)] \notin {"off", "open"}
                            /\ \A j \in DOMAIN (wire'[Side(f)]) : IsFrame(f, "new", j)' => i = j
          BY DEF Announced
        <4>2. CASE f = Peer(e)
          BY <2>2, <2>3, <2>4, <2>6, <4>1, <4>2
        <4>3. CASE f # Peer(e)
          <5>1. i \in DOMAIN wire[Side(f)] /\ IsFrame(f, "new", i)
            BY <2>6, <4>3
          <5>2. /\ Side(f) = "client" /\ wpc[f] = "off" /\ wpc[Peer(f)] \notin {"off", "open"}
                /\ \A j \in DOMAIN wire[Side(f)] : IsFrame(f, "new", j) => i = j
            BY <5>1 DEF Opening, Announced
          <5>3. f # e
            BY <2>3, <5>2
          <5> QED
            BY <2>2, <2>6, <4>1, <4>3, <5>2, <5>3
        <4> QED
          BY <4>2, <4>3
      <3> QED
        BY <3>1, <3>2 DEF Opening
  <1> QED
    BY <1>1, <1>2, <1>3, <1>4, <1>5, <1>6, <1>7, <1>8, <1>9, <1>10, <1>11, <1>12, <1>13, <1>14, <1>15 DEF Writer

LEMMA OpeningReader ==
  ASSUME TypeOK, Reserved, Opening, NEW e \in Ends, Reader(e) \/ Closer(e)
  PROVE  Opening'
  <1>1. CASE ReadTake(e)
    BY <1>1, OpeningQuiet DEF TypeOK, ReadTake, wvars
  <1>2. CASE ReadEnd(e)
    BY <1>2, OpeningQuiet DEF TypeOK, ReadEnd, wvars
  <1>3. CASE ReadWait(e)
    BY <1>3, OpeningQuiet DEF TypeOK, ReadWait, wvars
  <1>4. CASE SinkWrite(e)
    BY <1>4, OpeningQuiet DEF TypeOK, SinkWrite, wvars
  <1>5. CASE SinkFail(e)
    BY <1>5, OpeningQuiet DEF TypeOK, SinkFail, wvars
  <1>6. CASE CloseBegin(e)
    BY <1>6, OpeningQuiet DEF TypeOK, CloseBegin, wvars, rvars
  <1>7. CASE CloseWakeReader(e)
    BY <1>7, OpeningQuiet DEF TypeOK, CloseWakeReader, WakeReader, wvars
  <1>8. CASE CloseWakeWriter(e)
    BY <1>8, OpeningQuiet DEF TypeOK, CloseWakeWriter, WakeWriter, rvars
  <1>9. CASE removeChannel(e)
    BY <1>9, OpeningQuiet DEF TypeOK, removeChannel, wvars, rvars
  <1>10. CASE ReadCredit(e)
    <2>1. /\ consumed[e] - got[e] \in Nat /\ WindowDelta(got[e]) \in Nat
          /\ sendFrame(e, "wu", consumed[e] - got[e], WindowDelta(got[e]))
      BY <1>10 DEF TypeOK, Reserved, ReadCredit, WindowDelta
    <2>2. \A f \in Ends : /\ wpc'[f] = wpc[f]
                          /\ rpc[f] = "off" => rpc'[f] = "off"
      BY <1>10 DEF TypeOK, ReadCredit, wvars
    <2> QED
      BY <2>1, <2>2, OpeningSend
  <1>11. CASE CloseSend(e)
    <2>1. sent[e] \in Nat /\ sendFrame(e, "close", sent[e], 0)
      BY <1>11 DEF TypeOK, CloseSend
    <2> QED
      BY <1>11, <2>1, OpeningSend DEF CloseSend, wvars, rvars
  <1> QED
    BY <1>1, <1>2, <1>3, <1>4, <1>5, <1>6, <1>7, <1>8, <1>9, <1>10, <1>11 DEF Reader, Closer

LEMMA OpeningHandler ==
  ASSUME TypeOK, Reserved, Opening, NEW s \in Sides, handleFrame(s)
  PROVE  Opening'
  <1>0. wire[s] # <<>> /\ ReadFrame(s)
    BY DEF handleFrame, Arrives, DropUnmapped, handleNewChannel, pushData,
           pushDataOverflow, handleChannelClose, handleWindowUpdate
  <1>1. For(s) \in Ends /\ Side(For(s)) = s /\ 1 \in DOMAIN wire[s]
    BY <1>0, ForFacts
  <1>2. \A f \in Ends : Peer(f) \in Ends /\ Peer(Peer(f)) = f /\ Peer(f) # f
    BY PeerFacts
  (* No NewChannel frame is new, and two of them would have been two before. *)
  <1>3. \A f \in Ends : \A i \in DOMAIN (wire'[Side(f)]) : IsFrame(f, "new", i)' =>
          \E k \in DOMAIN wire[Side(f)] :
             IsFrame(f, "new", k) /\ k = (IF Side(f) = s THEN i + 1 ELSE i)
    BY <1>0, ReadFrames
  <1>4. \A f \in Ends : \A i, j \in DOMAIN (wire'[Side(f)]) :
          IsFrame(f, "new", i)' /\ IsFrame(f, "new", j)' => i = j
    <2> SUFFICES ASSUME NEW f \in Ends,
                        NEW i \in DOMAIN (wire'[Side(f)]), IsFrame(f, "new", i)',
                        NEW j \in DOMAIN (wire'[Side(f)]), IsFrame(f, "new", j)'
                 PROVE  i = j
      OBVIOUS
    <2>1. CASE Side(f) # s
      BY <1>3, <2>1 DEF Opening, Announced
    <2>2. CASE Side(f) = s
      <3>1. i \in Nat /\ j \in Nat
        BY <1>0, <2>2, ReadFrames
      <3>2. i + 1 = j + 1
        BY <1>3, <2>2 DEF Opening, Announced
      <3> QED
        BY <3>1, <3>2
    <2> QED
      BY <2>1, <2>2
  <1>5. CASE handleNewChannel(s)
    <2>0. PICK e \in Ends : e = For(s)
      BY <1>1
    <2>1. Side(e) = s /\ IsFrame(e, "new", 1)
      BY <1>0, <1>1, <1>5, <2>0, ForFacts DEF handleNewChannel, Arrives, IsFrame
    <2>2. \A i \in DOMAIN (wire'[s]) : ~IsFrame(e, "new", i)'
      <3> SUFFICES ASSUME NEW i \in DOMAIN (wire'[s]), IsFrame(e, "new", i)'
                   PROVE  FALSE
        OBVIOUS
      <3>1. i \in Nat \ {0} /\ i + 1 \in DOMAIN wire[s] /\ IsFrame(e, "new", i + 1)
        BY <1>0, <2>1, ReadFrames
      <3>2. 1 = i + 1
        BY <1>1, <2>1, <3>1 DEF Opening, Announced
      <3> QED
        BY <3>1, <3>2
    <2>3. /\ Side(e) = "client" /\ wpc[e] = "off" /\ rpc[e] = "off"
          /\ wpc[Peer(e)] \notin {"off", "open"}
      BY <1>1, <2>1 DEF Opening, Started, Announced
    <2>4. wpc' = [wpc EXCEPT ![e] = "dial"] /\ rpc' = rpc
      BY <1>5, <2>0 DEF handleNewChannel, rvars
    <2>5. Side(Peer(e)) = "server"
      BY <2>3, PeerFacts DEF Other
    <2>6. \A f \in Ends : Started(f)'
      BY <1>2, <2>3, <2>4, <2>5 DEF Opening, Started, TypeOK
    <2>7. \A f \in Ends : Announced(f)'
      <3>1. \A f \in Ends : f # e => wpc'[f] = wpc[f]
        BY <2>4 DEF TypeOK
      <3> SUFFICES ASSUME NEW f \in Ends,
                          NEW i \in DOMAIN (wire'[Side(f)]), IsFrame(f, "new", i)'
                   PROVE  Side(f) = "client" /\ wpc'[f] = "off"
                          /\ wpc'[Peer(f)] \notin {"off", "open"}
        BY <1>4 DEF Announced
      <3>2. Side(f) = "client" /\ wpc[f] = "off" /\ wpc[Peer(f)] \notin {"off", "open"}
        BY <1>3 DEF Opening, Announced
      <3>3. f # e
        BY <2>1, <2>2
      <3>4. Peer(f) # e
        BY <2>3, <3>2
      <3> QED
        BY <1>2, <3>1, <3>2, <3>3, <3>4
    <2> QED
      BY <2>6, <2>7 DEF Opening
  <1>6. CASE ~handleNewChannel(s)
    <2>1. \A f \in Ends :
            /\ wpc'[f] = wpc[f] \/ (wpc[f] = "waiting" /\ wpc'[f] = "window")
            /\ rpc[f] = "off" => rpc'[f] = "off"
      <3>1. CASE DropUnmapped(s)
        BY <3>1 DEF DropUnmapped, wvars, rvars
      <3>2. CASE pushData(s)
        BY <1>1, <3>2 DEF TypeOK, pushData, WakeReader, wvars
      <3>3. CASE pushDataOverflow(s)
        BY <1>1, <3>3 DEF TypeOK, pushDataOverflow, WakeReader, wvars
      <3>4. CASE handleChannelClose(s)
        BY <1>1, <3>4 DEF TypeOK, handleChannelClose, WakeReader, wvars
      <3>5. CASE handleWindowUpdate(s)
        BY <1>1, <3>5 DEF TypeOK, handleWindowUpdate, WakeWriter, rvars
      <3> QED
        BY <1>6, <3>1, <3>2, <3>3, <3>4, <3>5 DEF handleFrame
    <2>2. \A f \in Ends : Started(f)'
      BY <1>2, <2>1 DEF Opening, Started
    <2>3. \A f \in Ends : Announced(f)'
      BY <1>2, <1>3, <1>4, <2>1 DEF Opening, Announced
    <2> QED
      BY <2>2, <2>3 DEF Opening
  <1> QED
    BY <1>5, <1>6

(* Every step of the specification keeps the types and the bookkeeping. *)
LEMMA TypedStep ==
  ASSUME TypeOK, Reserved, Opening, [Next]_vars
  PROVE  TypeOK' /\ Reserved' /\ Opening'
  <1>1. CASE UNCHANGED vars
    <2>1. TypeOK' /\ Reserved'
      BY <1>1 DEF vars, TypeOK, Reserved
    <2>2. Opening'
      BY <1>1, OpeningQuiet DEF vars
    <2> QED
      BY <2>1, <2>2
  <1>2. CASE Next
    BY <1>2, WriterTyped, ReaderTyped, HandlerTyped,
       OpeningWriter, OpeningReader, OpeningHandler DEF Next
  <1> QED
    BY <1>1, <1>2

LEMMA TypedInit ==
  ASSUME Init
  PROVE  TypeOK /\ Reserved /\ Opening
  <1>1. \A e \in Ends : Side(e) \in Sides /\ Peer(e) \in Ends
                       /\ DefaultSendWindow[Side(e)] \in Nat
    BY PeerFacts, ChannelAssumption
  <1> QED
    BY <1>1 DEF Init, TypeOK, Reserved, Opening, Started, Announced

(* Every variable of the channel layer keeps its type: no window and no    *)
(* byte count goes negative, whatever the windows, the buffers and the     *)
(* interleaving of Read, Write, Close and the readLoops.                   *)
THEOREM TypeCorrect == Spec => []TypeOK
  <1>1. Init => TypeOK /\ Reserved /\ Opening
    BY TypedInit
  <1>2. TypeOK /\ Reserved /\ Opening /\ [Next]_vars => (TypeOK /\ Reserved /\ Opening)'
    BY TypedStep
  <1> QED
    BY <1>1, <1>2, PTL DEF Spec

-----------------------------------------------------------------------------
(* Flow control.  The positions of a stream are numbers once the types are *)
(* known; the three lemmas after this one say how a step may move them.    *)

LEMMA Positions ==
  ASSUME TypeOK, Reserved, NEW e \in Ends
  PROVE  /\ Held(e) \in Nat /\ Received(e) \in Nat /\ Granted(e) \in Nat
         /\ sent[e] \in Nat /\ DefaultSendWindow[Side(e)] \in Nat
         /\ \A i \in DOMAIN wire[Side(e)] : Lo(e, i) \in Nat /\ Hi(e, i) \in Nat
                                           /\ Lo(e, i) <= Hi(e, i)
  <1>1. Side(e) \in Sides /\ DefaultSendWindow[Side(e)] \in Nat
    BY PeerFacts, ChannelAssumption
  <1>2. Held(e) \in Nat /\ Granted(e) \in Nat /\ sent[e] \in Nat
    BY DEF TypeOK, Reserved, Held, Granted
  <1>3. rb[e] \in Seq(Nat) /\ consumed[e] \in Nat
    BY DEF TypeOK
  <1>4. Received(e) \in Nat
    BY <1>3 DEF Received
  <1>5. ASSUME NEW i \in DOMAIN wire[Side(e)]
        PROVE  Lo(e, i) \in Nat /\ Hi(e, i) \in Nat /\ Lo(e, i) <= Hi(e, i)
    <2>1. wire[Side(e)][i] \in Frame
      BY <1>1 DEF TypeOK
    <2>2. wire[Side(e)][i].lo \in Nat /\ wire[Side(e)][i].n \in Nat
      BY <2>1 DEF Frame
    <2> QED
      BY <2>2 DEF Lo, Hi
  <1> QED
    BY <1>1, <1>2, <1>4, <1>5

LEMMA WindowQuiet ==
  ASSUME WindowInv, UNCHANGED wire,
         \A e \in Ends : /\ Held(e)' = Held(e) /\ sent'[e] = sent[e]
                         /\ Received(e)' = Received(e) /\ Granted(e)' = Granted(e)
  PROVE  WindowInv'
  <1>1. \A e \in Ends : Peer(e) \in Ends
    BY PeerFacts
  <1>2. CreditBound' /\ ReceivedBound'
    BY <1>1 DEF WindowInv, CreditBound, ReceivedBound
  <1>3. DataOnWire'
    BY <1>1, QuietFrames DEF WindowInv, DataOnWire, Ordered
  <1>4. CreditOnWire'
    BY <1>1, QuietFrames DEF WindowInv, CreditOnWire, Ordered
  <1> QED
    BY <1>2, <1>3, <1>4 DEF WindowInv

(* A send makes a wire longer by at most one frame. *)
LEMMA SendDomain ==
  ASSUME TypeOK, NEW e \in Ends, NEW type \in {"new", "data", "close", "wu"},
         NEW lo \in Nat, NEW n \in Nat, sendFrame(e, type, lo, n), NEW g \in Ends
  PROVE  DOMAIN (wire'[Side(g)]) \subseteq 1..(Len(wire[Side(g)]) + 1)
  <1> DEFINE x == [type |-> type, ch |-> e[2], lo |-> lo, n |-> n]
             s == Other(Side(e))
  <1>1. s \in Sides /\ Side(g) \in Sides /\ x \in Frame /\ wire[Side(g)] \in Seq(Frame)
    BY PeerFacts, OtherFacts DEF Frame, TypeOK
  <1>2. wire'[Side(g)] = wire[Side(g)] \/ wire'[Side(g)] = Append(wire[Side(g)], x)
    BY <1>1 DEF TypeOK, sendFrame
  <1> QED
    BY <1>1, <1>2, AppendFacts

(* A send: data carries what was not sent yet, credit what was not granted *)
(* yet; nothing is received and no window grows.                           *)
LEMMA WindowSend ==
  ASSUME TypeOK, Reserved, TypeOK', Reserved', WindowInv,
         NEW f \in Ends, NEW type \in {"new", "data", "close", "wu"},
         NEW lo \in Nat, NEW n \in Nat, sendFrame(f, type, lo, n),
         \A e \in Ends : /\ Held(e)' = Held(e) /\ Received(e)' = Received(e)
                         /\ sent[e] <= sent'[e] /\ Granted(e) <= Granted(e)',
         type = "data" => lo = sent[f] /\ lo + n = sent'[f],
         type = "wu" => lo = Granted(f) /\ lo + n = Granted(f)'
  PROVE  WindowInv'
  <1>1. \A e \in Ends : Peer(e) \in Ends /\ Peer(Peer(e)) = e
    BY PeerFacts
  <1>2. \A e \in Ends :
          /\ Held(e) \in Nat /\ Received(e) \in Nat
          /\ Granted(e) \in Nat /\ Granted(e)' \in Nat
          /\ sent[e] \in Nat /\ sent'[e] \in Nat /\ DefaultSendWindow[Side(e)] \in Nat
          /\ \A i \in DOMAIN wire[Side(e)] : Lo(e, i) \in Nat /\ Hi(e, i) \in Nat
    <2>1. ASSUME NEW e \in Ends
          PROVE  sent'[e] \in Nat /\ Granted(e)' \in Nat
      <3>1. /\ sent'[e] \in Nat /\ consumed'[e] \in Nat /\ got'[e] \in Nat
            /\ got'[e] <= consumed'[e]
        BY DEF TypeOK, Reserved
      <3> QED
        BY <3>1 DEF Granted
    <2> QED
      BY <2>1, Positions
  <1>3. CreditBound'
    BY <1>1, <1>2 DEF WindowInv, CreditBound
  <1>4. ReceivedBound'
    BY <1>1, <1>2 DEF WindowInv, ReceivedBound
  <1>5. ASSUME NEW e \in Ends, NEW t,
               NEW i \in DOMAIN (wire'[Side(e)]), IsFrame(e, t, i)'
        PROVE  \/ /\ i \in DOMAIN wire[Side(e)] /\ IsFrame(e, t, i)
                  /\ Lo(e, i)' = Lo(e, i) /\ Hi(e, i)' = Hi(e, i)
               \/ /\ e = Peer(f) /\ f = Peer(e) /\ t = type
                  /\ i = Len(wire[Side(e)]) + 1
                  /\ Lo(e, i)' = lo /\ Hi(e, i)' = lo + n
    BY <1>1, <1>5, SendFrames
  <1>6. \A e \in Ends : DOMAIN wire[Side(e)] = 1..Len(wire[Side(e)])
                        /\ Len(wire[Side(e)]) \in Nat
    <2>1. \A e \in Ends : wire[Side(e)] \in Seq(Frame)
      BY PeerFacts DEF TypeOK
    <2> QED
      BY <2>1
  <1>7. DataOnWire'
    <2>1. ASSUME NEW e \in Ends,
                 NEW i \in DOMAIN (wire'[Side(e)]), IsFrame(e, "data", i)'
          PROVE  Received(e)' <= Lo(e, i)' /\ Hi(e, i)' <= sent'[Peer(e)]
      <3>1. Received(e) <= sent[Peer(e)] /\ Received(e) \in Nat /\ sent[Peer(e)] \in Nat
            /\ sent'[Peer(e)] \in Nat /\ sent[Peer(e)] <= sent'[Peer(e)]
            /\ Received(e)' = Received(e)
        BY <1>1, <1>2 DEF WindowInv, ReceivedBound
      <3>2. CASE i \in DOMAIN wire[Side(e)] /\ IsFrame(e, "data", i)
                 /\ Lo(e, i)' = Lo(e, i) /\ Hi(e, i)' = Hi(e, i)
        <4>1. Received(e) <= Lo(e, i) /\ Hi(e, i) <= sent[Peer(e)]
          BY <3>2 DEF WindowInv, DataOnWire
        <4> QED
          BY <1>2, <3>1, <3>2, <4>1
      <3>3. CASE f = Peer(e) /\ "data" = type /\ Lo(e, i)' = lo /\ Hi(e, i)' = lo + n
        BY <3>1, <3>3
      <3> QED
        BY <1>5, <2>1, <3>2, <3>3
    <2>2. ASSUME NEW e \in Ends,
                 NEW i \in DOMAIN (wire'[Side(e)]), IsFrame(e, "data", i)',
                 NEW j \in DOMAIN (wire'[Side(e)]), IsFrame(e, "data", j)', i < j
          PROVE  Hi(e, i)' <= Lo(e, j)'
      <3>1. i \in DOMAIN wire[Side(e)] /\ IsFrame(e, "data", i) /\ Hi(e, i)' = Hi(e, i)
        <4>1. DOMAIN (wire'[Side(e)]) \subseteq 1..(Len(wire[Side(e)]) + 1)
          BY <1>6, SendDomain
        <4> QED
          BY <1>5, <1>6, <2>2, <4>1
      <3>2. CASE j \in DOMAIN wire[Side(e)] /\ IsFrame(e, "data", j) /\ Lo(e, j)' = Lo(e, j)
        BY <2>2, <3>1, <3>2 DEF WindowInv, DataOnWire, Ordered
      <3>3. CASE f = Peer(e) /\ "data" = type /\ Lo(e, j)' = lo
        BY <3>1, <3>3 DEF WindowInv, DataOnWire
      <3> QED
        BY <1>5, <2>2, <3>2, <3>3
    <2> QED
      BY <2>1, <2>2 DEF DataOnWire, Ordered
  <1>8. CreditOnWire'
    <2>1. ASSUME NEW e \in Ends,
                 NEW i \in DOMAIN (wire'[Side(e)]), IsFrame(e, "wu", i)'
          PROVE  /\ Held(e)' <= DefaultSendWindow[Side(e)] + Lo(e, i)'
                 /\ Hi(e, i)' <= Granted(Peer(e))'
      <3>1. /\ Held(e) <= DefaultSendWindow[Side(e)] + Granted(Peer(e))
            /\ Held(e)' = Held(e) /\ Granted(Peer(e)) <= Granted(Peer(e))'
            /\ Granted(Peer(e)) \in Nat /\ Granted(Peer(e))' \in Nat
        BY <1>1, <1>2 DEF WindowInv, CreditBound
      <3>2. CASE i \in DOMAIN wire[Side(e)] /\ IsFrame(e, "wu", i)
                 /\ Lo(e, i)' = Lo(e, i) /\ Hi(e, i)' = Hi(e, i)
        <4>1. Held(e) <= DefaultSendWindow[Side(e)] + Lo(e, i)
              /\ Hi(e, i) <= Granted(Peer(e))
          BY <3>2 DEF WindowInv, CreditOnWire
        <4> QED
          BY <1>2, <3>1, <3>2, <4>1
      <3>3. CASE f = Peer(e) /\ "wu" = type /\ Lo(e, i)' = lo /\ Hi(e, i)' = lo + n
        BY <3>1, <3>3
      <3> QED
        BY <1>5, <2>1, <3>2, <3>3
    <2>2. ASSUME NEW e \in Ends,
                 NEW i \in DOMAIN (wire'[Side(e)]), IsFrame(e, "wu", i)',
                 NEW j \in DOMAIN (wire'[Side(e)]), IsFrame(e, "wu", j)', i < j
          PROVE  Hi(e, i)' <= Lo(e, j)'
      <3>1. i \in DOMAIN wire[Side(e)] /\ IsFrame(e, "wu", i) /\ Hi(e, i)' = Hi(e, i)
        <4>1. DOMAIN (wire'[Side(e)]) \subseteq 1..(Len(wire[Side(e)]) + 1)
          BY <1>6, SendDomain
        <4> QED
          BY <1>5, <1>6, <2>2, <4>1
      <3>2. CASE j \in DOMAIN wire[Side(e)] /\ IsFrame(e, "wu", j) /\ Lo(e, j)' = Lo(e, j)
        BY <2>2, <3>1, <3>2 DEF WindowInv, CreditOnWire, Ordered
      <3>3. CASE f = Peer(e) /\ "wu" = type /\ Lo(e, j)' = lo
        BY <3>1, <3>3 DEF WindowInv, CreditOnWire
      <3> QED
        BY <1>5, <2>2, <3>2, <3>3
    <2> QED
      BY <2>1, <2>2 DEF CreditOnWire, Ordered
  <1> QED
    BY <1>3, <1>4, <1>7, <1>8 DEF WindowInv

(* The positions that a read may move, after the step. *)
LEMMA PositionsNext ==
  ASSUME TypeOK', NEW e \in Ends
  PROVE  Held(e)' \in Nat /\ Received(e)' \in Nat
  <1>1. /\ sendWindow'[e] \in Nat /\ chunk'[e] \in Nat /\ sent'[e] \in Nat
        /\ consumed'[e] \in Nat /\ rb'[e] \in Seq(Nat)
    BY DEF TypeOK
  <1>2. Len(rb'[e]) \in Nat
    BY <1>1
  <1>3. Held(e)' \in Nat
    BY <1>1 DEF Held
  <1>4. Received(e)' \in Nat
    BY <1>1, <1>2 DEF Received
  <1> QED
    BY <1>3, <1>4

(* The readLoop takes the oldest frame h for end r: only r may receive its *)
(* data, or have its window grow by its credit.                            *)
LEMMA WindowRead ==
  ASSUME TypeOK, Reserved, TypeOK', Reserved', WindowInv,
         NEW s \in Sides, wire[s] # <<>>, ReadFrame(s),
         NEW r \in Ends, r = For(s),
         \A e \in Ends : sent'[e] = sent[e] /\ Granted(e)' = Granted(e),
         \A e \in Ends : \/ Received(e)' = Received(e)
                         \/ e = r /\ IsFrame(r, "data", 1) /\ Received(e)' <= Hi(r, 1),
         \A e \in Ends : \/ Held(e)' = Held(e)
                         \/ /\ e = r /\ IsFrame(r, "wu", 1)
                            /\ Held(e)' <= Held(e) + (Hi(r, 1) - Lo(r, 1))
  PROVE  WindowInv'
  <1>1. \A e \in Ends : Peer(e) \in Ends /\ Peer(Peer(e)) = e
    BY PeerFacts
  <1>2. \A e \in Ends :
          /\ Held(e) \in Nat /\ Received(e) \in Nat /\ Granted(e) \in Nat
          /\ sent[e] \in Nat /\ DefaultSendWindow[Side(e)] \in Nat
          /\ \A i \in DOMAIN wire[Side(e)] : Lo(e, i) \in Nat /\ Hi(e, i) \in Nat
    BY Positions
  <1>3. \A e \in Ends : Held(e)' \in Nat /\ Received(e)' \in Nat
    BY PositionsNext
  <1>4. Side(r) = s /\ 1 \in DOMAIN wire[Side(r)]
    BY ForFacts
  <1>5. ASSUME NEW e \in Ends, NEW t,
               NEW i \in DOMAIN (wire'[Side(e)]), IsFrame(e, t, i)'
        PROVE  \/ /\ Side(e) # s
                  /\ i \in DOMAIN wire[Side(e)] /\ IsFrame(e, t, i)
                  /\ Lo(e, i)' = Lo(e, i) /\ Hi(e, i)' = Hi(e, i)
               \/ /\ Side(e) = s /\ i \in Nat \ {0}
                  /\ i + 1 \in DOMAIN wire[Side(e)] /\ IsFrame(e, t, i + 1)
                  /\ Lo(e, i)' = Lo(e, i + 1) /\ Hi(e, i)' = Hi(e, i + 1)
    BY <1>5, ReadFrames
  (* The positions of r after the step, from those of the frame it took. *)
  <1>6. IsFrame(r, "data", 1) => Hi(r, 1) <= sent[Peer(r)]
    BY <1>4 DEF WindowInv, DataOnWire
  <1>7. IsFrame(r, "wu", 1) =>
          /\ Held(r) <= DefaultSendWindow[Side(r)] + Lo(r, 1)
          /\ Hi(r, 1) <= Granted(Peer(r))
    BY <1>4 DEF WindowInv, CreditOnWire
  <1>8. CreditBound'
    <2> SUFFICES ASSUME NEW e \in Ends
                 PROVE  Held(e)' <= DefaultSendWindow[Side(e)] + Granted(Peer(e))'
      BY DEF CreditBound
    <2>1. CASE Held(e)' = Held(e)
      BY <1>1, <2>1 DEF WindowInv, CreditBound
    <2>2. CASE e = r /\ IsFrame(r, "wu", 1) /\ Held(e)' <= Held(e) + (Hi(r, 1) - Lo(r, 1))
      <3>1. /\ Held(r)' <= Held(r) + (Hi(r, 1) - Lo(r, 1))
            /\ Held(r) <= DefaultSendWindow[Side(r)] + Lo(r, 1)
            /\ Hi(r, 1) <= Granted(Peer(r))
        BY <1>7, <2>2
      <3>2. Granted(Peer(r))' = Granted(Peer(r))
        BY <1>1
      <3>3. /\ Held(r)' \in Nat /\ Held(r) \in Nat /\ Granted(Peer(r)) \in Nat
            /\ DefaultSendWindow[Side(r)] \in Nat
            /\ Lo(r, 1) \in Nat /\ Hi(r, 1) \in Nat
        BY <1>1, <1>2, <1>3, <1>4
      <3> HIDE DEF Held, Granted, Lo, Hi
      <3>4. Held(r)' <= DefaultSendWindow[Side(r)] + Granted(Peer(r))
        BY <3>1, <3>3
      <3> QED
        BY <2>2, <3>2, <3>4
    <2> QED
      BY <2>1, <2>2
  <1>9. ReceivedBound'
    <2> SUFFICES ASSUME NEW e \in Ends
                 PROVE  Received(e)' <= sent'[Peer(e)]
      BY DEF ReceivedBound
    <2>1. CASE Received(e)' = Received(e)
      BY <1>1, <2>1 DEF WindowInv, ReceivedBound
    <2>2. CASE e = r /\ IsFrame(r, "data", 1) /\ Received(e)' <= Hi(r, 1)
      BY <1>1, <1>2, <1>3, <1>4, <1>6, <2>2
    <2> QED
      BY <2>1, <2>2
  <1>10. DataOnWire'
    <2>1. ASSUME NEW e \in Ends,
                 NEW i \in DOMAIN (wire'[Side(e)]), IsFrame(e, "data", i)'
          PROVE  Received(e)' <= Lo(e, i)' /\ Hi(e, i)' <= sent'[Peer(e)]
      <3>1. PICK k \in DOMAIN wire[Side(e)] :
              /\ IsFrame(e, "data", k) /\ (Side(e) = s => 1 < k)
              /\ Lo(e, i)' = Lo(e, k) /\ Hi(e, i)' = Hi(e, k)
        BY <1>5, <2>1
      <3>2. Received(e) <= Lo(e, k) /\ Hi(e, k) <= sent[Peer(e)]
        BY <3>1 DEF WindowInv, DataOnWire
      <3>3. CASE Received(e)' = Received(e)
        BY <1>1, <3>1, <3>2, <3>3
      <3>4. CASE e = r /\ IsFrame(r, "data", 1) /\ Received(e)' <= Hi(r, 1)
        <4>1. Hi(r, 1) <= Lo(r, k)
          BY <1>4, <3>1, <3>4 DEF WindowInv, DataOnWire, Ordered
        <4>2. /\ Received(r)' \in Nat /\ Hi(r, 1) \in Nat /\ Lo(r, k) \in Nat
          BY <1>2, <1>3, <1>4, <3>1, <3>4
        <4>3. Received(r)' <= Lo(r, k)
          BY <3>4, <4>1, <4>2
        <4>4. Hi(e, i)' <= sent'[Peer(e)]
          BY <1>1, <3>1, <3>2
        <4> QED
          BY <3>1, <3>4, <4>3, <4>4
      <3> QED
        BY <3>3, <3>4
    <2>2. ASSUME NEW e \in Ends,
                 NEW i \in DOMAIN (wire'[Side(e)]), IsFrame(e, "data", i)',
                 NEW j \in DOMAIN (wire'[Side(e)]), IsFrame(e, "data", j)', i < j
          PROVE  Hi(e, i)' <= Lo(e, j)'
      <3>1. CASE Side(e) = s
        <4>1. i + 1 < j + 1
          BY <1>5, <2>2, <3>1
        <4> QED
          BY <1>5, <2>2, <3>1, <4>1 DEF WindowInv, DataOnWire, Ordered
      <3>2. CASE Side(e) # s
        BY <1>5, <2>2, <3>2 DEF WindowInv, DataOnWire, Ordered
      <3> QED
        BY <3>1, <3>2
    <2> QED
      BY <2>1, <2>2 DEF DataOnWire, Ordered
  <1>11. CreditOnWire'
    <2>1. ASSUME NEW e \in Ends,
                 NEW i \in DOMAIN (wire'[Side(e)]), IsFrame(e, "wu", i)'
          PROVE  /\ Held(e)' <= DefaultSendWindow[Side(e)] + Lo(e, i)'
                 /\ Hi(e, i)' <= Granted(Peer(e))'
      <3>1. PICK k \in DOMAIN wire[Side(e)] :
              /\ IsFrame(e, "wu", k) /\ (Side(e) = s => 1 < k)
              /\ Lo(e, i)' = Lo(e, k) /\ Hi(e, i)' = Hi(e, k)
        BY <1>5, <2>1
      <3>2. Held(e) <= DefaultSendWindow[Side(e)] + Lo(e, k) /\ Hi(e, k) <= Granted(Peer(e))
        BY <3>1 DEF WindowInv, CreditOnWire
      <3>3. CASE Held(e)' = Held(e)
        BY <1>1, <3>1, <3>2, <3>3
      <3>4. CASE e = r /\ IsFrame(r, "wu", 1) /\ Held(e)' <= Held(e) + (Hi(r, 1) - Lo(r, 1))
        <4>1. Hi(r, 1) <= Lo(r, k)
          BY <1>4, <3>1, <3>4 DEF WindowInv, CreditOnWire, Ordered
        <4>2. /\ Held(e) \in Nat /\ Held(e)' \in Nat /\ DefaultSendWindow[Side(e)] \in Nat
              /\ Lo(e, 1) \in Nat /\ Hi(e, 1) \in Nat /\ Lo(e, k) \in Nat
          BY <1>2, <1>3, <1>4, <3>1, <3>4
        <4>3. Held(e) <= DefaultSendWindow[Side(e)] + Lo(e, 1) /\ Hi(e, 1) <= Lo(e, k)
              /\ Held(e)' <= Held(e) + (Hi(e, 1) - Lo(e, 1))
          BY <1>7, <3>4, <4>1
        <4>4. Held(e)' <= DefaultSendWindow[Side(e)] + Lo(e, k)
          BY <4>2, <4>3
        <4> QED
          BY <1>1, <3>1, <3>2, <4>4
      <3> QED
        BY <3>3, <3>4
    <2>2. ASSUME NEW e \in Ends,
                 NEW i \in DOMAIN (wire'[Side(e)]), IsFrame(e, "wu", i)',
                 NEW j \in DOMAIN (wire'[Side(e)]), IsFrame(e, "wu", j)', i < j
          PROVE  Hi(e, i)' <= Lo(e, j)'
      <3>1. CASE Side(e) = s
        <4>1. i + 1 < j + 1
          BY <1>5, <2>2, <3>1
        <4> QED
          BY <1>5, <2>2, <3>1, <4>1 DEF WindowInv, CreditOnWire, Ordered
      <3>2. CASE Side(e) # s
        BY <1>5, <2>2, <3>2 DEF WindowInv, CreditOnWire, Ordered
      <3> QED
        BY <3>1, <3>2
    <2> QED
      BY <2>1, <2>2 DEF CreditOnWire, Ordered
  <1> QED
    BY <1>8, <1>9, <1>10, <1>11 DEF WindowInv

LEMMA WindowWriter ==
  ASSUME TypeOK, Reserved, TypeOK', Reserved', WindowInv,
         NEW e \in Ends, OpenRegister(e) \/ Writer(e)
  PROVE  WindowInv'
  <1>1. CASE OpenRegister(e)
    BY <1>1, WindowQuiet DEF OpenRegister, rvars, Held, Received, Granted
  <1>2. CASE DialOk(e)
    BY <1>2, WindowQuiet DEF DialOk, Held, Received, Granted
  <1>3. CASE DialFail(e)
    BY <1>3, WindowQuiet DEF DialFail, Held, Received, Granted
  <1>4. CASE \E n \in 1..BufferSize : SrcRead(e, n)
    BY <1>4, WindowQuiet DEF SrcRead, rvars, Held, Received, Granted
  <1>5. CASE SrcEnd(e)
    BY <1>5, WindowQuiet DEF SrcEnd, rvars, Held, Received, Granted
  <1>6. CASE WriteEnter(e)
    BY <1>6, WindowQuiet DEF WriteEnter, rvars, Held, Received, Granted
  <1>7. CASE WriteRefused(e)
    BY <1>7, WindowQuiet DEF WriteRefused, rvars, Held, Received, Granted
  <1>8. CASE WriteAbort(e)
    BY <1>8, WindowQuiet DEF WriteAbort, rvars, Held, Received, Granted
  <1>9. CASE WriteWait(e)
    BY <1>9, WindowQuiet DEF WriteWait, rvars, Held, Received, Granted
  <1>10. CASE CloseWrite(e)
    BY <1>10, WindowQuiet DEF CloseWrite, rvars, Held, Received, Granted
  <1>11. CASE CloseWriteNoop(e)
    BY <1>11, WindowQuiet DEF CloseWriteNoop, rvars, Held, Received, Granted
  <1>12. CASE WriteReserve(e)
    <2>1. \A f \in Ends : Held(f)' = Held(f)
      <3>1. /\ chunk[e] = 0 /\ sendWindow[e] \in Nat /\ sent[e] \in Nat /\ ChunkLen(e) \in Nat
            /\ sendWindow'[e] = sendWindow[e] - ChunkLen(e) /\ chunk'[e] = ChunkLen(e)
            /\ sent'[e] = sent[e]
        BY <1>12 DEF TypeOK, WriteReserve, ChunkLen, Reserved
      <3>2. Held(e)' = Held(e)
        BY <3>1 DEF Held
      <3>3. \A f \in Ends : f # e => Held(f)' = Held(f)
        BY <1>12 DEF TypeOK, WriteReserve, Held
      <3> QED
        BY <3>2, <3>3
    <2> QED
      BY <1>12, <2>1, WindowQuiet DEF WriteReserve, rvars, Received, Granted
  <1>13. CASE WriteSend(e)
    <2>1. sent[e] \in Nat /\ chunk[e] \in Nat /\ sendFrame(e, "data", sent[e], chunk[e])
          /\ sent'[e] = sent[e] + chunk[e]
      BY <1>13 DEF TypeOK, WriteSend
    <2>2. \A f \in Ends : Held(f)' = Held(f) /\ sent[f] <= sent'[f]
      <3>1. sendWindow[e] \in Nat /\ sendWindow'[e] = sendWindow[e] /\ chunk'[e] = 0
        BY <1>13 DEF TypeOK, WriteSend
      <3>2. Held(e)' = Held(e) /\ sent[e] <= sent'[e]
        BY <2>1, <3>1 DEF Held
      <3>3. \A f \in Ends : f # e =>
              Held(f)' = Held(f) /\ sent'[f] = sent[f] /\ sent[f] \in Nat
        BY <1>13 DEF TypeOK, WriteSend, Held
      <3>4. \A f \in Ends : f # e => sent[f] <= sent'[f]
        BY <3>3
      <3> QED
        BY <3>2, <3>3, <3>4
    <2>3. \A f \in Ends : /\ Received(f)' = Received(f)
                          /\ Granted(f)' = Granted(f) /\ Granted(f) \in Nat
      BY <1>13, Positions DEF WriteSend, rvars, Received, Granted
    <2>4. \A f \in Ends : Granted(f) <= Granted(f)'
      BY <2>3
    <2> QED
      BY <2>1, <2>2, <2>3, <2>4, WindowSend
  <1>14. CASE CloseWriteSend(e)
    <2>1. sent[e] \in Nat /\ sendFrame(e, "close", sent[e], 0)
      BY <1>14 DEF TypeOK, CloseWriteSend
    <2>2. \A f \in Ends : /\ Held(f)' = Held(f) /\ Received(f)' = Received(f)
                          /\ sent'[f] = sent[f] /\ Granted(f)' = Granted(f)
                          /\ sent[f] \in Nat /\ Granted(f) \in Nat
      BY <1>14, Positions DEF CloseWriteSend, rvars, Held, Received, Granted
    <2>3. \A f \in Ends : sent[f] <= sent'[f] /\ Granted(f) <= Granted(f)'
      BY <2>2
    <2> QED
      BY <2>1, <2>2, <2>3, WindowSend
  <1>15. CASE OpenSend(e)
    <2>1. 0 \in Nat /\ sendFrame(e, "new", 0, 0)
      BY <1>15 DEF TypeOK, OpenSend
    <2>2. \A f \in Ends : /\ Held(f)' = Held(f) /\ Received(f)' = Received(f)
                          /\ sent'[f] = sent[f] /\ Granted(f)' = Granted(f)
                          /\ sent[f] \in Nat /\ Granted(f) \in Nat
      BY <1>15, Positions DEF OpenSend, rvars, Held, Received, Granted
    <2>3. \A f \in Ends : sent[f] <= sent'[f] /\ Granted(f) <= Granted(f)'
      BY <2>2
    <2> QED
      BY <2>1, <2>2, <2>3, WindowSend
  <1> QED
    BY <1>1, <1>2, <1>3, <1>4, <1>5, <1>6, <1>7, <1>8, <1>9, <1>10, <1>11, <1>12, <1>13, <1>14, <1>15 DEF Writer

LEMMA WindowReader ==
  ASSUME TypeOK, Reserved, TypeOK', Reserved', WindowInv,
         NEW e \in Ends, Reader(e) \/ Closer(e)
  PROVE  WindowInv'
  <1>1. CASE ReadEnd(e)
    BY <1>1, WindowQuiet DEF ReadEnd, wvars, Held, Received, Granted
  <1>2. CASE ReadWait(e)
    BY <1>2, WindowQuiet DEF ReadWait, wvars, Held, Received, Granted
  <1>3. CASE SinkWrite(e)
    BY <1>3, WindowQuiet DEF SinkWrite, wvars, Held, Received, Granted
  <1>4. CASE SinkFail(e)
    BY <1>4, WindowQuiet DEF SinkFail, wvars, Held, Received, Granted
  <1>5. CASE CloseBegin(e)
    BY <1>5, WindowQuiet DEF CloseBegin, wvars, rvars, Held, Received, Granted
  <1>6. CASE CloseWakeReader(e)
    BY <1>6, WindowQuiet DEF CloseWakeReader, wvars, Held, Received, Granted
  <1>7. CASE CloseWakeWriter(e)
    BY <1>7, WindowQuiet DEF CloseWakeWriter, rvars, Held, Received, Granted
  <1>8. CASE removeChannel(e)
    BY <1>8, WindowQuiet DEF removeChannel, wvars, rvars, Held, Received, Granted
  <1>9. CASE ReadTake(e)
    <2>1. /\ rb[e] \in Seq(Nat) /\ rb[e] # <<>> /\ got[e] = 0
          /\ rb'[e] = Rest(e, TakeLen(e))
          /\ got'[e] = TakeLen(e) /\ consumed'[e] = consumed[e] + TakeLen(e)
          /\ consumed[e] \in Nat
      BY <1>9 DEF TypeOK, Reserved, ReadTake
    <2>2. Len(rb'[e]) = Len(rb[e]) - TakeLen(e) /\ TakeLen(e) \in 1..Len(rb[e])
          /\ Len(rb[e]) \in Nat
      BY <2>1, TakeFacts
    <2>3. Received(e)' = Received(e) /\ Granted(e)' = Granted(e)
      BY <2>1, <2>2 DEF Received, Granted
    <2>4. \A f \in Ends : f # e => Received(f)' = Received(f) /\ Granted(f)' = Granted(f)
      BY <1>9 DEF TypeOK, ReadTake, Received, Granted
    <2> QED
      BY <1>9, <2>3, <2>4, WindowQuiet DEF ReadTake, wvars, Held
  <1>10. CASE ReadCredit(e)
    <2>1. /\ consumed[e] \in Nat /\ got[e] \in Nat /\ got[e] <= consumed[e]
          /\ got'[e] = 0 /\ consumed'[e] = consumed[e]
          /\ sendFrame(e, "wu", consumed[e] - got[e], got[e])
      BY <1>10 DEF TypeOK, Reserved, ReadCredit, WindowDelta
    <2>2. /\ consumed[e] - got[e] \in Nat /\ consumed[e] - got[e] = Granted(e)
          /\ (consumed[e] - got[e]) + got[e] = Granted(e)' /\ Granted(e) <= Granted(e)'
      BY <2>1 DEF Granted
    <2>3. \A f \in Ends : f # e => Granted(f)' = Granted(f) /\ Granted(f) \in Nat
      <3>1. \A f \in Ends : f # e => got'[f] = got[f] /\ consumed'[f] = consumed[f]
        BY <1>10 DEF TypeOK, ReadCredit
      <3>2. \A f \in Ends : f # e => Granted(f)' = Granted(f)
        BY <3>1 DEF Granted
      <3> QED
        BY <3>2, Positions
    <2>4. \A f \in Ends : /\ Held(f)' = Held(f) /\ Received(f)' = Received(f)
                          /\ sent'[f] = sent[f] /\ sent[f] \in Nat
      BY <1>10, Positions DEF ReadCredit, wvars, Held, Received
    <2>5. \A f \in Ends : sent[f] <= sent'[f] /\ Granted(f) <= Granted(f)'
      BY <2>2, <2>3, <2>4
    <2> QED
      BY <2>1, <2>2, <2>4, <2>5, WindowSend
  <1>11. CASE CloseSend(e)
    <2>1. sent[e] \in Nat /\ sendFrame(e, "close", sent[e], 0)
      BY <1>11 DEF TypeOK, CloseSend
    <2>2. \A f \in Ends : /\ Held(f)' = Held(f) /\ Received(f)' = Received(f)
                          /\ sent'[f] = sent[f] /\ Granted(f)' = Granted(f)
                          /\ sent[f] \in Nat /\ Granted(f) \in Nat
      BY <1>11, Positions DEF CloseSend, wvars, rvars, Held, Received, Granted
    <2>3. \A f \in Ends : sent[f] <= sent'[f] /\ Granted(f) <= Granted(f)'
      BY <2>2
    <2> QED
      BY <2>1, <2>2, <2>3, WindowSend
  <1> QED
    BY <1>1, <1>2, <1>3, <1>4, <1>5, <1>6, <1>7, <1>8, <1>9, <1>10, <1>11 DEF Reader, Closer

LEMMA WindowHandler ==
  ASSUME TypeOK, Reserved, TypeOK', Reserved', WindowInv, NEW s \in Sides, handleFrame(s)
  PROVE  WindowInv'
  <1>0. wire[s] # <<>> /\ ReadFrame(s)
    BY DEF handleFrame, Arrives, DropUnmapped, handleNewChannel, pushData,
           pushDataOverflow, handleChannelClose, handleWindowUpdate
  <1>1. PICK r \in Ends : r = For(s)
    BY <1>0, ForFacts
  <1>2. /\ Side(r) = s /\ 1 \in DOMAIN wire[Side(r)] /\ Head(wire[s]) = wire[s][1]
        /\ Head(wire[s]).ch = r[2]
        /\ Head(wire[s]).lo \in Nat /\ Head(wire[s]).n \in Nat
        /\ Lo(r, 1) = Head(wire[s]).lo /\ Hi(r, 1) = Head(wire[s]).lo + Head(wire[s]).n
    BY <1>0, <1>1, ForFacts DEF Frame, Lo, Hi
  <1>3. \A e \in Ends : sent'[e] = sent[e] /\ Granted(e)' = Granted(e)
    BY DEF handleFrame, DropUnmapped, handleNewChannel, pushData, pushDataOverflow,
           handleChannelClose, handleWindowUpdate, Granted, rvars
  <1>4. CASE pushData(s)
    <2>1. /\ IsFrame(r, "data", 1)
          /\ rb' = [rb EXCEPT ![r] = rb[r] \o Bytes(Head(wire[s]).lo, Head(wire[s]).n)]
          /\ consumed' = consumed
      BY <1>1, <1>2, <1>4 DEF pushData, Arrives, IsFrame
    <2>2. Received(r) <= Lo(r, 1)
      BY <1>2, <2>1 DEF WindowInv, DataOnWire
    <2>3. Len(rb'[r]) = Len(rb[r]) + Head(wire[s]).n /\ Len(rb[r]) \in Nat
      <3>0. rb \in [Ends -> Seq(Nat)]
        BY DEF TypeOK
      <3>1. rb[r] \in Seq(Nat)
            /\ rb'[r] = rb[r] \o Bytes(Head(wire[s]).lo, Head(wire[s]).n)
        BY <2>1, <3>0
      <3>2. PICK lo \in Nat, n \in Nat : lo = Head(wire[s]).lo /\ n = Head(wire[s]).n
        BY <1>2
      <3>3. Len(rb[r] \o Bytes(lo, n)) = Len(rb[r]) + n /\ Len(rb[r]) \in Nat
        BY <3>1, PushFacts
      <3> QED
        BY <3>1, <3>2, <3>3
    <2>4. Received(r)' <= Hi(r, 1)
      <3>1. consumed[r] \in Nat /\ consumed'[r] = consumed[r]
        BY <2>1 DEF TypeOK
      <3> QED
        BY <1>2, <2>2, <2>3, <3>1 DEF Received
    <2>5. \A e \in Ends : e # r => Received(e)' = Received(e)
      BY <2>1 DEF TypeOK, Received
    <2>6. \A e \in Ends : Held(e)' = Held(e)
      BY <1>4 DEF pushData, Held, wvars
    <2> QED
      BY <1>0, <1>1, <1>3, <2>1, <2>4, <2>5, <2>6, WindowRead
  <1>5. CASE handleWindowUpdate(s)
    <2>1. /\ IsFrame(r, "wu", 1)
          /\ sendWindow' = [sendWindow EXCEPT ![r] = sendWindow[r] + Head(wire[s]).n]
          /\ chunk' = chunk /\ sent' = sent /\ rb' = rb /\ consumed' = consumed
      BY <1>1, <1>2, <1>5 DEF handleWindowUpdate, Arrives, IsFrame
    <2>2. Held(r)' <= Held(r) + (Hi(r, 1) - Lo(r, 1))
      <3>1. /\ sendWindow'[r] = sendWindow[r] + Head(wire[s]).n
            /\ sendWindow[r] \in Nat /\ chunk[r] \in Nat /\ sent[r] \in Nat
        BY <2>1 DEF TypeOK
      <3> QED
        BY <1>2, <2>1, <3>1 DEF Held
    <2>3. \A e \in Ends : e # r => Held(e)' = Held(e)
      BY <2>1 DEF TypeOK, Held
    <2>4. \A e \in Ends : Received(e)' = Received(e)
      BY <2>1 DEF Received
    <2> QED
      BY <1>0, <1>1, <1>3, <2>1, <2>2, <2>3, <2>4, WindowRead
  <1>6. CASE ~pushData(s) /\ ~handleWindowUpdate(s)
    <2>1. \A e \in Ends : Held(e)' = Held(e) /\ Received(e)' = Received(e)
      BY <1>6 DEF handleFrame, DropUnmapped, handleNewChannel, pushDataOverflow,
                  handleChannelClose, Held, Received, wvars
    <2> QED
      BY <1>0, <1>1, <1>3, <2>1, WindowRead
  <1> QED
    BY <1>4, <1>5, <1>6

LEMMA FlowStep ==
  ASSUME TypeOK, FlowInv, [Next]_vars
  PROVE  TypeOK' /\ FlowInv'
  <1>1. TypeOK' /\ Reserved' /\ Opening'
    BY TypedStep DEF FlowInv
  <1>2. CASE UNCHANGED vars
    <2>1. WindowInv'
      BY <1>2, WindowQuiet DEF FlowInv, vars, Held, Received, Granted
    <2> QED
      BY <1>1, <2>1 DEF FlowInv
  <1>3. CASE Next
    BY <1>1, <1>3, WindowWriter, WindowReader, WindowHandler DEF Next, FlowInv
  <1> QED
    BY <1>2, <1>3

LEMMA FlowInit ==
  ASSUME Init
  PROVE  TypeOK /\ FlowInv
  <1>1. TypeOK /\ Reserved /\ Opening
    BY TypedInit
  <1>2. \A e \in Ends : Side(e) \in Sides /\ Peer(e) \in Ends
                       /\ DefaultSendWindow[Side(e)] \in Nat
    BY PeerFacts, ChannelAssumption
  <1>3. WindowInv
    BY <1>2 DEF Init, WindowInv, CreditBound, ReceivedBound, DataOnWire, CreditOnWire,
                Ordered, Held, Received, Granted
  <1> QED
    BY <1>1, <1>3 DEF FlowInv

LEMMA FlowAlways == Spec => [](TypeOK /\ FlowInv)
  <1>1. Init => TypeOK /\ FlowInv
    BY FlowInit
  <1>2. TypeOK /\ FlowInv /\ [Next]_vars => (TypeOK /\ FlowInv)'
    BY FlowStep
  <1> QED
    BY <1>1, <1>2, PTL DEF Spec

LEMMA FlowBounds ==
  ASSUME TypeOK, FlowInv
  PROVE  FlowControl
  <1> SUFFICES ASSUME NEW e \in Ends
               PROVE  sent[e] - consumed[Peer(e)] <= DefaultSendWindow[Side(e)]
    BY DEF FlowControl
  <1>1. /\ Peer(e) \in Ends /\ DefaultSendWindow[Side(e)] \in Nat
        /\ Held(e) <= DefaultSendWindow[Side(e)] + Granted(Peer(e))
    BY PeerFacts, Positions DEF FlowInv, WindowInv, CreditBound
  <1>2. /\ sendWindow[e] \in Nat /\ chunk[e] \in Nat /\ sent[e] \in Nat
        /\ consumed[Peer(e)] \in Nat /\ got[Peer(e)] \in Nat
    BY <1>1 DEF TypeOK
  <1> QED
    BY <1>1, <1>2 DEF Held, Granted

(* Back-pressure holds for every window, buffer, wire capacity and number  *)
(* of channels: no interleaving of Write, Read, the readLoops and Close    *)
(* puts more unread bytes in the system than the window of their writer.   *)
THEOREM FlowControlled == Spec => []FlowControl
  BY FlowAlways, FlowBounds, PTL

(* A data frame that arrives always fits the receive buffer. *)
LEMMA AlwaysFits ==
  ASSUME FitsReceiveBuffer, TypeOK, FlowInv, NEW s \in Sides
  PROVE  ~pushDataOverflow(s)
  <1> SUFFICES ASSUME pushDataOverflow(s)
               PROVE  FALSE
    OBVIOUS
  <1>0. wire[s] # <<>>
    BY DEF pushDataOverflow, Arrives
  <1>1. PICK r \in Ends : r = For(s)
    BY <1>0, ForFacts
  <1>2. /\ Side(r) = s /\ 1 \in DOMAIN wire[Side(r)] /\ Head(wire[s]) = wire[s][1]
        /\ Head(wire[s]).ch = r[2]
        /\ Head(wire[s]).lo \in Nat /\ Head(wire[s]).n \in Nat
        /\ Lo(r, 1) = Head(wire[s]).lo /\ Hi(r, 1) = Head(wire[s]).lo + Head(wire[s]).n
    BY <1>0, <1>1, ForFacts DEF Frame, Lo, Hi
  <1>3. IsFrame(r, "data", 1) /\ Len(rb[r]) + Head(wire[s]).n > MaxReceiveBuffer
    BY <1>1, <1>2 DEF pushDataOverflow, Arrives, IsFrame
  <1>4. Received(r) <= Lo(r, 1) /\ Hi(r, 1) <= sent[Peer(r)]
    BY <1>2, <1>3 DEF FlowInv, WindowInv, DataOnWire
  <1>5. /\ sent[Peer(r)] - consumed[r] <= DefaultSendWindow[Side(Peer(r))]
        /\ DefaultSendWindow[Side(Peer(r))] <= MaxReceiveBuffer
        /\ DefaultSendWindow[Side(Peer(r))] \in Nat
    BY FlowBounds, PeerFacts, ChannelAssumption DEF FlowControl, FitsReceiveBuffer
  <1>6. /\ sent[Peer(r)] \in Nat /\ consumed[r] \in Nat /\ rb[r] \in Seq(Nat)
    BY PeerFacts DEF TypeOK
  <1>7. Len(rb[r]) \in Nat /\ MaxReceiveBuffer \in Nat
    BY <1>6, ChannelAssumption
  <1>8. PICK lo \in Nat, n \in Nat : lo = Head(wire[s]).lo /\ n = Head(wire[s]).n
    BY <1>2
  <1>9. consumed[r] + Len(rb[r]) <= lo /\ lo + n <= sent[Peer(r)]
    BY <1>2, <1>4, <1>8 DEF Received
  <1>10. Len(rb[r]) + n <= MaxReceiveBuffer
    BY SMTT(60), <1>5, <1>6, <1>7, <1>9
  <1> QED
    BY <1>3, <1>7, <1>8, <1>10

LEMMA NoOverflowStep ==
  ASSUME FitsReceiveBuffer, TypeOK, FlowInv, NoOverflow, [Next]_vars
  PROVE  NoOverflow'
  <1>1. \A s \in Sides : ~pushDataOverflow(s)
    BY AlwaysFits
  <1>2. \A e \in Ends : rerr'[e] = rerr[e] \/ rerr'[e] = "EOF"
    <2>1. CASE UNCHANGED vars
      BY <2>1 DEF vars
    <2>2. ASSUME NEW e \in Ends, OpenRegister(e) \/ Writer(e)
          PROVE  rerr' = rerr
      BY <2>2 DEF Writer, OpenRegister, OpenSend, DialOk, DialFail, SrcRead, SrcEnd,
         WriteEnter, WriteRefused, WriteAbort, WriteWait, WriteReserve, WriteSend,
         CloseWrite, CloseWriteNoop, CloseWriteSend
    <2>3. ASSUME NEW e \in Ends, Reader(e) \/ Closer(e)
          PROVE  rerr' = rerr
      BY <2>3 DEF Reader, Closer, ReadTake, ReadCredit, ReadEnd, ReadWait, SinkWrite,
         SinkFail, CloseBegin, CloseWakeReader, CloseWakeWriter, removeChannel, CloseSend
    <2>4. ASSUME NEW s \in Sides, handleFrame(s)
          PROVE  \A e \in Ends : rerr'[e] = rerr[e] \/ rerr'[e] = "EOF"
      BY <1>1, <2>4 DEF handleFrame, DropUnmapped, handleNewChannel, pushData,
         handleChannelClose, handleWindowUpdate, TypeOK
    <2> QED
      BY <2>1, <2>2, <2>3, <2>4 DEF Next
  <1> QED
    BY <1>2 DEF NoOverflow

(* When the window fits the receive buffer, pushData's safety net is never *)
(* reached: no channel is torn down because its reader is slow.            *)
THEOREM SafetyNetUnused ==
  ASSUME FitsReceiveBuffer
  PROVE  Spec => []NoOverflow
  <1>1. Init => NoOverflow
    BY DEF Init, NoOverflow
  <1>2. TypeOK /\ FlowInv /\ NoOverflow /\ [Next]_vars => NoOverflow'
    BY NoOverflowStep
  <1> QED
    BY <1>1, <1>2, FlowAlways, PTL DEF Spec

-----------------------------------------------------------------------------
(* Delivery: what a channel hands over is what was written, in order and   *)
(* to the end.  The inductive invariant beside FlowInv.                    *)

(* Close has taken the end out of the channels map. *)
Gone(e) == closing[e] \in {"send", "done"}

(* Without overflow Close is called by nobody but the goroutine whose      *)
(* Relay (or dial) is over, the writer half-closes last of all, and the    *)
(* map holds the end from its opening to its Close.                        *)
Life(e) ==
  /\ closing[e] # "asked" /\ rerr[e] # "overflow"
  /\ closing[e] # "no" => RelayReturned(e)
  /\ status[e] # "open" => wpc[e] \in {"sendClose", "done"}
  /\ status[e] = "closed" => closing[e] # "no"
  /\ wpc[e] \notin {"write", "window", "waiting", "send"} => pend[e] = 0
  /\ mapped[e] <=> (wpc[e] # "off" /\ ~Gone(e))

(* Until the client knows the channel, its NewChannel frame is on the way, *)
(* in front of all data.                                                   *)
Heralded(e) ==
  /\ \A i \in DOMAIN wire[Side(e)] :
       IsFrame(e, "data", i) => wpc[Peer(e)] \notin {"off", "open"}
  /\ Side(e) = "client" /\ wpc[e] = "off" /\ wpc[Peer(e)] \notin {"off", "open"} =>
       \E j \in DOMAIN wire[Side(e)] :
         /\ IsFrame(e, "new", j)
         /\ \A i \in DOMAIN wire[Side(e)] : IsFrame(e, "data", i) => j < i

(* Every byte that was sent and not received is in a frame on the wire,    *)
(* as long as somebody receives.                                           *)
Complete(e) ==
  ~Gone(e) =>
    \A p \in Received(e)..(sent[Peer(e)] - 1) :
      \E i \in DOMAIN wire[Side(e)] :
        IsFrame(e, "data", i) /\ Lo(e, i) <= p /\ p < Hi(e, i)

(* A ChannelClose is sent after the last data and finds no more behind it. *)
Ending(e) ==
  /\ \A i \in DOMAIN wire[Side(e)] : IsFrame(e, "close", i) =>
       /\ wpc[Peer(e)] = "done"
       /\ \A j \in DOMAIN wire[Side(e)] : IsFrame(e, "data", j) => j < i
  /\ rerr[e] = "EOF" =>
       /\ wpc[Peer(e)] = "done"
       /\ \A j \in DOMAIN wire[Side(e)] : ~IsFrame(e, "data", j)

Lives == \A e \in Ends : Life(e)
Delivery == \A e \in Ends : Heralded(e) /\ Complete(e) /\ Ending(e)

(* What every step keeps: nobody goes back to a place before its opening,  *)
(* a finished writer sends nothing, a finished reader takes nothing, and   *)
(* only ReadEnd sees the end of a stream.                                  *)
Steady ==
  \A f \in Ends :
    /\ wpc[f] = "done" => wpc'[f] = "done" /\ sent'[f] = sent[f]
    /\ wpc[f] \notin {"off", "open"} => wpc'[f] \notin {"off", "open"}
    /\ wpc'[f] = "off" => wpc[f] = "off"
    /\ Gone(f) => Gone(f)'
    /\ rpc[f] = "eof" => rpc'[f] = "eof" /\ consumed'[f] = consumed[f]
    /\ rpc'[f] = "eof" => rpc[f] = "eof" \/ ReadEnd(f)

(* No channel is announced in the step. *)
NotOpened ==
  \A f \in Ends :
    Side(f) = "server" /\ wpc[f] \in {"off", "open"} => wpc'[f] \in {"off", "open"}

LEMMA SteadyWriter ==
  ASSUME TypeOK, Opening, NEW e \in Ends, OpenRegister(e) \/ Writer(e)
  PROVE  Steady /\ (NotOpened \/ OpenSend(e))
  <1> USE DEF TypeOK, Steady, NotOpened, Gone, rvars
  <1>1. CASE OpenRegister(e)
    BY <1>1 DEF OpenRegister
  <1>2. CASE OpenSend(e)
    BY <1>2 DEF OpenSend, Opening, Started
  <1>3. CASE DialOk(e)
    BY <1>3 DEF DialOk, Opening, Started
  <1>4. CASE DialFail(e)
    BY <1>4 DEF DialFail, Opening, Started
  <1>5. CASE \E n \in 1..BufferSize : SrcRead(e, n)
    BY <1>5 DEF SrcRead
  <1>6. CASE SrcEnd(e)
    BY <1>6 DEF SrcEnd
  <1>7. CASE WriteEnter(e)
    BY <1>7 DEF WriteEnter
  <1>8. CASE WriteRefused(e)
    BY <1>8 DEF WriteRefused
  <1>9. CASE WriteAbort(e)
    BY <1>9 DEF WriteAbort
  <1>10. CASE WriteWait(e)
    BY <1>10 DEF WriteWait
  <1>11. CASE WriteReserve(e)
    BY <1>11 DEF WriteReserve
  <1>12. CASE WriteSend(e)
    BY <1>12 DEF WriteSend
  <1>13. CASE CloseWrite(e)
    BY <1>13 DEF CloseWrite
  <1>14. CASE CloseWriteNoop(e)
    BY <1>14 DEF CloseWriteNoop
  <1>15. CASE CloseWriteSend(e)
    BY <1>15 DEF CloseWriteSend
  <1> QED
    BY <1>1, <1>2, <1>3, <1>4, <1>5, <1>6, <1>7, <1>8, <1>9, <1>10, <1>11, <1>12, <1>13, <1>14, <1>15 DEF Writer

LEMMA SteadyReader ==
  ASSUME TypeOK, NEW e \in Ends, Reader(e) \/ Closer(e)
  PROVE  Steady /\ NotOpened
  <1> USE DEF TypeOK, Steady, NotOpened, Gone, rvars, wvars
  <1>1. CASE ReadTake(e)
    BY <1>1 DEF ReadTake
  <1>2. CASE ReadCredit(e)
    BY <1>2 DEF ReadCredit
  <1>3. CASE ReadEnd(e)
    BY <1>3 DEF ReadEnd
  <1>4. CASE ReadWait(e)
    BY <1>4 DEF ReadWait
  <1>5. CASE SinkWrite(e)
    BY <1>5 DEF SinkWrite
  <1>6. CASE SinkFail(e)
    BY <1>6 DEF SinkFail
  <1>7. CASE CloseBegin(e)
    BY <1>7 DEF CloseBegin
  <1>8. CASE CloseWakeReader(e)
    BY <1>8 DEF CloseWakeReader, WakeReader
  <1>9. CASE CloseWakeWriter(e)
    BY <1>9 DEF CloseWakeWriter, WakeWriter
  <1>10. CASE removeChannel(e)
    BY <1>10 DEF removeChannel
  <1>11. CASE CloseSend(e)
    BY <1>11 DEF CloseSend
  <1> QED
    BY <1>1, <1>2, <1>3, <1>4, <1>5, <1>6, <1>7, <1>8, <1>9, <1>10, <1>11 DEF Reader, Closer

LEMMA SteadyHandler ==
  ASSUME TypeOK, Opening, NEW s \in Sides, handleFrame(s)
  PROVE  Steady /\ NotOpened
  <1> USE DEF TypeOK, Steady, NotOpened, Gone, rvars, wvars
  <1>0. wire[s] # <<>>
    BY DEF handleFrame, Arrives, DropUnmapped, handleNewChannel, pushData,
           pushDataOverflow, handleChannelClose, handleWindowUpdate
  <1>1. PICK r \in Ends : r = For(s)
    BY <1>0, ForFacts
  <1>2. CASE DropUnmapped(s)
    BY <1>2 DEF DropUnmapped
  <1>3. CASE handleNewChannel(s)
    <2>1. IsFrame(r, "new", 1) /\ 1 \in DOMAIN wire[Side(r)]
      BY <1>0, <1>1, <1>3, ForFacts DEF handleNewChannel, Arrives, IsFrame
    <2>2. wpc[r] = "off" /\ Side(r) = "client"
      BY <2>1 DEF Opening, Announced
    <2> QED
      BY <1>1, <1>3, <2>2 DEF handleNewChannel
  <1>4. CASE pushData(s)
    BY <1>1, <1>4 DEF pushData, WakeReader
  <1>5. CASE pushDataOverflow(s)
    BY <1>1, <1>5 DEF pushDataOverflow, WakeReader
  <1>6. CASE handleChannelClose(s)
    BY <1>1, <1>6 DEF handleChannelClose, WakeReader
  <1>7. CASE handleWindowUpdate(s)
    BY <1>1, <1>7 DEF handleWindowUpdate, WakeWriter
  <1> QED
    BY <1>2, <1>3, <1>4, <1>5, <1>6, <1>7 DEF handleFrame

-----------------------------------------------------------------------------
(* The life of an end *)

LEMMA LivesWriter ==
  ASSUME TypeOK, Reserved, Lives, NEW e \in Ends, OpenRegister(e) \/ Writer(e)
  PROVE  Lives'
  <1> USE DEF TypeOK, Lives, Life, Gone, RelayReturned, rvars
  <1>1. CASE OpenRegister(e)
    BY <1>1 DEF OpenRegister
  <1>2. CASE OpenSend(e)
    BY <1>2, SMTT(60) DEF OpenSend
  <1>3. CASE DialOk(e)
    BY <1>3, SMTT(60) DEF DialOk
  <1>4. CASE DialFail(e)
    BY <1>4, SMTT(60) DEF DialFail
  <1>5. CASE \E n \in 1..BufferSize : SrcRead(e, n)
    BY <1>5, SMTT(60) DEF SrcRead
  <1>6. CASE SrcEnd(e)
    BY <1>6, SMTT(60) DEF SrcEnd
  <1>7. CASE WriteEnter(e)
    BY <1>7 DEF WriteEnter
  <1>8. CASE WriteRefused(e)
    BY <1>8 DEF WriteRefused
  <1>9. CASE WriteAbort(e)
    BY <1>9 DEF WriteAbort
  <1>10. CASE WriteWait(e)
    BY <1>10 DEF WriteWait
  <1>11. CASE WriteReserve(e)
    BY <1>11, SMTT(60) DEF WriteReserve
  <1>12. CASE WriteSend(e)
    BY <1>12, SMTT(60) DEF WriteSend
  <1>13. CASE CloseWrite(e)
    BY <1>13, SMTT(60) DEF CloseWrite
  <1>14. CASE CloseWriteNoop(e)
    BY <1>14 DEF CloseWriteNoop
  <1>15. CASE CloseWriteSend(e)
    BY <1>15 DEF CloseWriteSend
  <1> QED
    BY <1>1, <1>2, <1>3, <1>4, <1>5, <1>6, <1>7, <1>8, <1>9, <1>10, <1>11, <1>12, <1>13, <1>14, <1>15 DEF Writer

LEMMA LivesReader ==
  ASSUME TypeOK, Lives, NEW e \in Ends, Reader(e) \/ Closer(e)
  PROVE  Lives'
  <1> USE DEF TypeOK, Lives, Life, Gone, RelayReturned, rvars, wvars
  <1>1. CASE ReadTake(e)
    BY <1>1 DEF ReadTake
  <1>2. CASE ReadCredit(e)
    BY <1>2 DEF ReadCredit
  <1>3. CASE ReadEnd(e)
    BY <1>3 DEF ReadEnd
  <1>4. CASE ReadWait(e)
    BY <1>4 DEF ReadWait
  <1>5. CASE SinkWrite(e)
    BY <1>5 DEF SinkWrite
  <1>6. CASE SinkFail(e)
    BY <1>6 DEF SinkFail
  <1>7. CASE CloseBegin(e)
    BY <1>7, SMTT(60) DEF CloseBegin
  <1>8. CASE CloseWakeReader(e)
    BY <1>8 DEF CloseWakeReader, WakeReader
  <1>9. CASE CloseWakeWriter(e)
    BY <1>9 DEF CloseWakeWriter, WakeWriter
  <1>10. CASE removeChannel(e)
    BY <1>10 DEF removeChannel
  <1>11. CASE CloseSend(e)
    BY <1>11 DEF CloseSend
  <1> QED
    BY <1>1, <1>2, <1>3, <1>4, <1>5, <1>6, <1>7, <1>8, <1>9, <1>10, <1>11 DEF Reader, Closer

LEMMA LivesHandler ==
  ASSUME FitsReceiveBuffer, TypeOK, FlowInv, Lives, NEW s \in Sides, handleFrame(s)
  PROVE  Lives'
  <1> USE DEF TypeOK, Lives, Life, Gone, RelayReturned, rvars, wvars
  <1>0. wire[s] # <<>>
    BY DEF handleFrame, Arrives, DropUnmapped, handleNewChannel, pushData,
           pushDataOverflow, handleChannelClose, handleWindowUpdate
  <1>1. PICK r \in Ends : r = For(s)
    BY <1>0, ForFacts
  <1>2. CASE DropUnmapped(s)
    BY <1>2 DEF DropUnmapped
  <1>3. CASE handleNewChannel(s)
    <2>1. IsFrame(r, "new", 1) /\ 1 \in DOMAIN wire[Side(r)]
      BY <1>0, <1>1, <1>3, ForFacts, SMTT(60) DEF handleNewChannel, Arrives, IsFrame
    <2>2. wpc[r] = "off"
      BY <2>1 DEF FlowInv, Opening, Announced
    <2> QED
      BY <1>1, <1>3, <2>2, SMTT(60) DEF handleNewChannel
  <1>4. CASE pushData(s)
    BY <1>1, <1>4 DEF pushData, WakeReader
  <1>5. CASE pushDataOverflow(s)
    BY <1>5, AlwaysFits
  <1>6. CASE handleChannelClose(s)
    BY <1>1, <1>6 DEF handleChannelClose, WakeReader
  <1>7. CASE handleWindowUpdate(s)
    BY <1>1, <1>7, SMTT(60) DEF handleWindowUpdate, WakeWriter
  <1> QED
    BY <1>2, <1>3, <1>4, <1>5, <1>6, <1>7 DEF handleFrame

-----------------------------------------------------------------------------
(* The other half of SendFrames and ReadFrames: no frame is lost. *)

LEMMA KeptBySend ==
  ASSUME TypeOK, NEW e \in Ends, NEW type \in {"new", "data", "close", "wu"},
         NEW lo \in Nat, NEW n \in Nat, sendFrame(e, type, lo, n),
         NEW g \in Ends, NEW t, NEW i \in DOMAIN wire[Side(g)], IsFrame(g, t, i)
  PROVE  /\ i \in DOMAIN (wire'[Side(g)]) /\ IsFrame(g, t, i)'
         /\ Lo(g, i)' = Lo(g, i) /\ Hi(g, i)' = Hi(g, i)
         /\ i \in 1..Len(wire[Side(g)]) /\ Len(wire[Side(g)]) \in Nat
  <1> DEFINE x == [type |-> type, ch |-> e[2], lo |-> lo, n |-> n]
             s == Other(Side(e))
  <1>1. s \in Sides /\ Side(g) \in Sides /\ x \in Frame
    BY PeerFacts, OtherFacts DEF Frame
  <1>2. wire' = [wire EXCEPT ![s] = Append(wire[s], x)]
    BY DEF sendFrame
  <1>3. wire[Side(g)] \in Seq(Frame)
    BY <1>1 DEF TypeOK
  <1>4. i \in 1..Len(wire[Side(g)]) /\ Len(wire[Side(g)]) \in Nat
    BY <1>3
  <1>5. wire'[Side(g)][i] = wire[Side(g)][i] /\ i \in DOMAIN (wire'[Side(g)])
    <2>1. CASE Side(g) # s
      BY <1>1, <1>2, <2>1 DEF TypeOK
    <2>2. CASE Side(g) = s
      <3>1. wire'[s] = Append(wire[s], x)
        BY <1>1, <1>2 DEF TypeOK
      <3> HIDE DEF x
      <3> QED
        BY <1>1, <1>3, <1>4, <2>2, <3>1, AppendFacts
    <2> QED
      BY <2>1, <2>2
  <1> QED
    BY <1>4, <1>5 DEF IsFrame, Lo, Hi

LEMMA SentFrame ==
  ASSUME TypeOK, NEW e \in Ends, NEW type \in {"new", "data", "close", "wu"},
         NEW lo \in Nat, NEW n \in Nat, sendFrame(e, type, lo, n)
  PROVE  \E i \in DOMAIN (wire'[Side(Peer(e))]) :
           /\ IsFrame(Peer(e), type, i)'
           /\ Lo(Peer(e), i)' = lo /\ Hi(Peer(e), i)' = lo + n
  <1> DEFINE x == [type |-> type, ch |-> e[2], lo |-> lo, n |-> n]
             s == Other(Side(e))
             k == Len(wire[s]) + 1
  <1>1. s \in Sides /\ s = Side(Peer(e)) /\ Peer(e)[2] = e[2] /\ x \in Frame
    BY PeerFacts, OtherFacts DEF Frame
  <1>2. wire'[s] = Append(wire[s], x) /\ wire[s] \in Seq(Frame)
    BY <1>1 DEF TypeOK, sendFrame
  <1>3. x.type = type /\ x.ch = e[2] /\ x.lo = lo /\ x.n = n
    OBVIOUS
  <1> HIDE DEF x
  <1>4. k \in DOMAIN (wire'[s]) /\ wire'[s][k] = x
    BY <1>1, <1>2, AppendFacts
  <1> QED
    BY <1>1, <1>3, <1>4 DEF IsFrame, Lo, Hi

LEMMA KeptByRead ==
  ASSUME TypeOK, NEW s \in Sides, wire[s] # <<>>, ReadFrame(s),
         NEW g \in Ends, NEW t, NEW i \in DOMAIN wire[Side(g)], IsFrame(g, t, i)
  PROVE  \/ /\ Side(g) # s
            /\ i \in DOMAIN (wire'[Side(g)]) /\ IsFrame(g, t, i)'
            /\ Lo(g, i)' = Lo(g, i) /\ Hi(g, i)' = Hi(g, i)
         \/ Side(g) = s /\ i = 1
         \/ /\ Side(g) = s /\ i \in Nat /\ i > 1
            /\ i - 1 \in DOMAIN (wire'[Side(g)]) /\ IsFrame(g, t, i - 1)'
            /\ Lo(g, i - 1)' = Lo(g, i) /\ Hi(g, i - 1)' = Hi(g, i)
  <1>1. Side(g) \in Sides
    BY PeerFacts
  <1>2. CASE Side(g) # s
    <2>1. wire'[Side(g)] = wire[Side(g)]
      BY <1>1, <1>2 DEF TypeOK, ReadFrame
    <2> QED
      BY <2>1, <1>2 DEF IsFrame, Lo, Hi
  <1>3. CASE Side(g) = s /\ i # 1
    <2>1. wire'[s] = Tail(wire[s]) /\ wire[s] \in Seq(Frame)
      BY DEF TypeOK, ReadFrame
    <2>2. /\ i \in Nat /\ i > 1 /\ i - 1 \in DOMAIN Tail(wire[s])
          /\ (i - 1) + 1 = i
      BY <1>3, <2>1, TailFacts
    <2>3. wire'[s][i - 1] = wire[s][i]
      BY <2>1, <2>2, TailFacts
    <2> QED
      BY <1>3, <2>1, <2>2, <2>3 DEF IsFrame, Lo, Hi
  <1> QED
    BY <1>2, <1>3

(* The frame a readLoop takes is the first one of its end. *)
LEMMA HeadFrame ==
  ASSUME TypeOK, NEW s \in Sides, wire[s] # <<>>,
         NEW g \in Ends, Side(g) = s, NEW t, IsFrame(g, t, 1)
  PROVE  g = For(s) /\ t = Head(wire[s]).type
  <1>1. /\ For(s) \in Ends /\ Side(For(s)) = s /\ For(s)[2] = wire[s][1].ch
        /\ Head(wire[s]) = wire[s][1]
    BY ForFacts
  <1> QED
    BY <1>1, SameEnd DEF IsFrame

-----------------------------------------------------------------------------
(* What a send, a read and a step without frames do to Delivery. *)

LEMMA DeliveryQuiet ==
  ASSUME Delivery, Steady, UNCHANGED wire,
         NotOpened,
         \A f \in Ends : /\ Received(f)' = Received(f) /\ sent'[f] = sent[f]
                         /\ rerr'[f] = rerr[f]
  PROVE  Delivery'
  <1> SUFFICES ASSUME NEW g \in Ends
               PROVE  Heralded(g)' /\ Complete(g)' /\ Ending(g)'
    BY DEF Delivery
  <1>0. Peer(g) \in Ends /\ Side(Peer(g)) = Other(Side(g))
    BY PeerFacts
  <1>1. wire'[Side(g)] = wire[Side(g)]
        /\ \A t, i : /\ IsFrame(g, t, i)' <=> IsFrame(g, t, i)
                     /\ Lo(g, i)' = Lo(g, i) /\ Hi(g, i)' = Hi(g, i)
    BY QuietFrames
  <1>2. Heralded(g) /\ Complete(g) /\ Ending(g)
    BY DEF Delivery
  <1>3. Heralded(g)'
    BY <1>0, <1>1, <1>2 DEF Heralded, Steady, NotOpened, Other
  <1>4. Complete(g)'
    BY <1>0, <1>1, <1>2 DEF Complete, Steady
  <1>5. Ending(g)'
    BY <1>0, <1>1, <1>2 DEF Ending, Steady
  <1> QED
    BY <1>3, <1>4, <1>5

LEMMA HeraldedSend ==
  ASSUME TypeOK, Delivery, Steady, NEW e \in Ends, NEW type \in {"data", "close", "wu"},
         NEW lo \in Nat, NEW n \in Nat, sendFrame(e, type, lo, n),
         NotOpened,
         type = "data" => wpc[e] \notin {"off", "open"},
         NEW g \in Ends
  PROVE  Heralded(g)'
  <1>0. Peer(g) \in Ends /\ Side(Peer(g)) = Other(Side(g)) /\ Peer(Peer(e)) = e
        /\ Heralded(g)
    BY PeerFacts DEF Delivery
  <1>1. ASSUME NEW i \in DOMAIN (wire'[Side(g)]), IsFrame(g, "data", i)'
        PROVE  wpc'[Peer(g)] \notin {"off", "open"}
    <2>1. wpc[Peer(g)] \notin {"off", "open"}
      BY <1>0, <1>1, SendFrames DEF Heralded
    <2> QED
      BY <1>0, <2>1 DEF Steady
  <1>2. ASSUME Side(g) = "client", wpc'[g] = "off", wpc'[Peer(g)] \notin {"off", "open"}
        PROVE  \E j \in DOMAIN (wire'[Side(g)]) :
                 /\ IsFrame(g, "new", j)'
                 /\ \A i \in DOMAIN (wire'[Side(g)]) : IsFrame(g, "data", i)' => j < i
    <2>1. wpc[g] = "off" /\ wpc[Peer(g)] \notin {"off", "open"}
      BY <1>0, <1>2 DEF Steady, NotOpened, Other
    <2>2. PICK j \in DOMAIN wire[Side(g)] :
            /\ IsFrame(g, "new", j)
            /\ \A i \in DOMAIN wire[Side(g)] : IsFrame(g, "data", i) => j < i
      BY <1>0, <1>2, <2>1 DEF Heralded
    <2>3. /\ j \in DOMAIN (wire'[Side(g)]) /\ IsFrame(g, "new", j)'
          /\ j \in 1..Len(wire[Side(g)]) /\ Len(wire[Side(g)]) \in Nat
      BY <2>2, KeptBySend
    <2>4. ASSUME NEW i \in DOMAIN (wire'[Side(g)]), IsFrame(g, "data", i)'
          PROVE  j < i
      <3>1. \/ i \in DOMAIN wire[Side(g)] /\ IsFrame(g, "data", i)
            \/ i = Len(wire[Side(g)]) + 1
        BY <2>4, SendFrames
      <3> QED
        BY <2>2, <2>3, <3>1
    <2> QED
      BY <2>3, <2>4
  <1> QED
    BY <1>1, <1>2 DEF Heralded

LEMMA HeraldedOpen ==
  ASSUME TypeOK, Delivery, Steady, NEW e \in Ends, OpenSend(e), Side(e) = "server",
         NEW g \in Ends
  PROVE  Heralded(g)'
  <1>0. /\ Peer(g) \in Ends /\ Side(Peer(g)) = Other(Side(g)) /\ Peer(Peer(e)) = e
        /\ Peer(e) \in Ends /\ Peer(Peer(g)) = g /\ Heralded(g)
    BY PeerFacts DEF Delivery
  <1>1. 0 \in Nat /\ "new" \in {"new", "data", "close", "wu"} /\ sendFrame(e, "new", 0, 0)
    BY DEF OpenSend
  <1>2. wpc[e] = "open" /\ \A f \in Ends : f # e => wpc'[f] = wpc[f]
    BY DEF OpenSend, TypeOK
  <1>3. ASSUME NEW i \in DOMAIN (wire'[Side(g)]), IsFrame(g, "data", i)'
        PROVE  i \in DOMAIN wire[Side(g)] /\ IsFrame(g, "data", i)
    BY <1>1, <1>3, SendFrames
  <1>4. ASSUME NEW i \in DOMAIN (wire'[Side(g)]), IsFrame(g, "data", i)'
        PROVE  wpc'[Peer(g)] \notin {"off", "open"}
    BY <1>0, <1>3, <1>4 DEF Heralded, Steady
  <1>5. ASSUME Side(g) = "client", wpc'[g] = "off", wpc'[Peer(g)] \notin {"off", "open"}
        PROVE  \E j \in DOMAIN (wire'[Side(g)]) :
                 /\ IsFrame(g, "new", j)'
                 /\ \A i \in DOMAIN (wire'[Side(g)]) : IsFrame(g, "data", i)' => j < i
    <2>1. CASE g = Peer(e)
      <3>1. \A i \in DOMAIN (wire'[Side(g)]) : ~IsFrame(g, "data", i)'
        BY <1>0, <1>2, <1>3, <2>1 DEF Heralded
      <3>2. \E j \in DOMAIN (wire'[Side(g)]) : IsFrame(g, "new", j)'
        BY <1>1, <2>1, SentFrame
      <3> QED
        BY <3>1, <3>2
    <2>2. CASE g # Peer(e)
      <3>1. wpc[g] = "off" /\ wpc[Peer(g)] \notin {"off", "open"}
        BY <1>0, <1>2, <1>5, <2>2 DEF Steady
      <3>2. PICK j \in DOMAIN wire[Side(g)] :
              /\ IsFrame(g, "new", j)
              /\ \A i \in DOMAIN wire[Side(g)] : IsFrame(g, "data", i) => j < i
        BY <1>0, <1>5, <3>1 DEF Heralded
      <3>3. j \in DOMAIN (wire'[Side(g)]) /\ IsFrame(g, "new", j)'
        BY <1>1, <3>2, KeptBySend
      <3> QED
        BY <1>3, <3>2, <3>3
    <2> QED
      BY <2>1, <2>2
  <1> QED
    BY <1>4, <1>5 DEF Heralded

LEMMA CompleteSend ==
  ASSUME TypeOK, Reserved, Delivery, Steady, NEW e \in Ends,
         NEW type \in {"new", "data", "close", "wu"},
         NEW lo \in Nat, NEW n \in Nat, sendFrame(e, type, lo, n),
         \A f \in Ends : Received(f)' = Received(f),
         \A f \in Ends : f # e => sent'[f] = sent[f],
         type # "data" => sent'[e] = sent[e],
         type = "data" => lo = sent[e] /\ sent'[e] = lo + n,
         NEW g \in Ends
  PROVE  Complete(g)'
  <1>0. Peer(g) \in Ends /\ Peer(Peer(g)) = g /\ Complete(g) /\ Received(g) \in Nat
        /\ sent[Peer(g)] \in Nat
    BY PeerFacts, Positions DEF Delivery
  <1> SUFFICES ASSUME ~Gone(g)', NEW p \in Received(g)'..(sent'[Peer(g)] - 1)
               PROVE  \E i \in DOMAIN (wire'[Side(g)]) :
                        IsFrame(g, "data", i)' /\ Lo(g, i)' <= p /\ p < Hi(g, i)'
    BY DEF Complete
  <1>1. ~Gone(g) /\ Received(g)' = Received(g)
    BY DEF Steady
  <1>2. CASE p \in Received(g)..(sent[Peer(g)] - 1)
    <2>1. PICK i \in DOMAIN wire[Side(g)] :
            IsFrame(g, "data", i) /\ Lo(g, i) <= p /\ p < Hi(g, i)
      BY <1>0, <1>1, <1>2 DEF Complete
    <2>2. i \in DOMAIN (wire'[Side(g)]) /\ IsFrame(g, "data", i)'
          /\ Lo(g, i)' = Lo(g, i) /\ Hi(g, i)' = Hi(g, i)
      BY <2>1, KeptBySend
    <2> QED
      BY <2>1, <2>2
  <1>3. CASE p \notin Received(g)..(sent[Peer(g)] - 1)
    <2>1. sent'[Peer(g)] # sent[Peer(g)]
      BY <1>0, <1>1, <1>3
    <2>2. Peer(g) = e /\ type = "data"
      BY <1>0, <2>1
    <2>3. lo <= p /\ p < lo + n
      BY <1>0, <1>1, <1>3, <2>2
    <2>4. g = Peer(e)
      BY <1>0, <2>2
    <2> QED
      BY <2>2, <2>3, <2>4, SentFrame
  <1> QED
    BY <1>2, <1>3

LEMMA EndingSend ==
  ASSUME TypeOK, Delivery, Steady, NEW e \in Ends,
         NEW type \in {"new", "data", "close", "wu"},
         NEW lo \in Nat, NEW n \in Nat, sendFrame(e, type, lo, n),
         type = "data" => wpc[e] # "done",
         type = "close" => wpc'[e] = "done",
         \A f \in Ends : rerr'[f] = rerr[f],
         NEW g \in Ends
  PROVE  Ending(g)'
  <1>0. Peer(g) \in Ends /\ Peer(Peer(e)) = e /\ Ending(g)
        /\ wire[Side(g)] \in Seq(Frame)
    BY PeerFacts DEF Delivery, TypeOK
  <1>d. DOMAIN wire[Side(g)] = 1..Len(wire[Side(g)]) /\ Len(wire[Side(g)]) \in Nat
    BY <1>0
  <1>1. ASSUME NEW j \in DOMAIN (wire'[Side(g)]), IsFrame(g, "data", j)', wpc[Peer(g)] = "done"
        PROVE  j \in DOMAIN wire[Side(g)] /\ IsFrame(g, "data", j)
    <2>1. \/ j \in DOMAIN wire[Side(g)] /\ IsFrame(g, "data", j)
          \/ g = Peer(e) /\ type = "data"
      BY <1>1, SendFrames
    <2>2. ~(g = Peer(e) /\ type = "data")
      BY <1>0, <1>1
    <2> QED
      BY <2>1, <2>2
  <1>2. ASSUME NEW i \in DOMAIN (wire'[Side(g)]), IsFrame(g, "close", i)'
        PROVE  /\ wpc'[Peer(g)] = "done"
               /\ \A j \in DOMAIN (wire'[Side(g)]) : IsFrame(g, "data", j)' => j < i
    <2>1. CASE i \in DOMAIN wire[Side(g)] /\ IsFrame(g, "close", i)
      BY <1>0, <1>1, <2>1 DEF Ending, Steady
    <2>2. CASE g = Peer(e) /\ type = "close" /\ i = Len(wire[Side(g)]) + 1
      <3>1. ASSUME NEW j \in DOMAIN (wire'[Side(g)]), IsFrame(g, "data", j)'
            PROVE  j < i
        <4>1. j \in DOMAIN wire[Side(g)]
          BY <2>2, <3>1, SendFrames
        <4> QED
          BY <1>d, <2>2, <4>1
      <3> QED
        BY <1>0, <2>2, <3>1
    <2> QED
      BY <1>2, <2>1, <2>2, SendFrames
  <1>3. ASSUME rerr'[g] = "EOF"
        PROVE  /\ wpc'[Peer(g)] = "done"
               /\ \A j \in DOMAIN (wire'[Side(g)]) : ~IsFrame(g, "data", j)'
    BY <1>0, <1>1, <1>3 DEF Ending, Steady
  <1> QED
    BY <1>2, <1>3 DEF Ending

LEMMA HeraldedRead ==
  ASSUME TypeOK, Delivery, Steady, NEW s \in Sides, wire[s] # <<>>, ReadFrame(s),
         NotOpened,
         Head(wire[s]).type = "new" => wpc'[For(s)] # "off",
         NEW g \in Ends
  PROVE  Heralded(g)'
  <1>0. Peer(g) \in Ends /\ Side(Peer(g)) = Other(Side(g)) /\ Heralded(g)
    BY PeerFacts DEF Delivery
  <1>1. ASSUME NEW i \in DOMAIN (wire'[Side(g)]), IsFrame(g, "data", i)'
        PROVE  wpc'[Peer(g)] \notin {"off", "open"}
    <2>1. wpc[Peer(g)] \notin {"off", "open"}
      BY <1>0, <1>1, ReadFrames DEF Heralded
    <2> QED
      BY <1>0, <2>1 DEF Steady
  <1>2. ASSUME Side(g) = "client", wpc'[g] = "off", wpc'[Peer(g)] \notin {"off", "open"}
        PROVE  \E j \in DOMAIN (wire'[Side(g)]) :
                 /\ IsFrame(g, "new", j)'
                 /\ \A i \in DOMAIN (wire'[Side(g)]) : IsFrame(g, "data", i)' => j < i
    <2>1. wpc[g] = "off" /\ wpc[Peer(g)] \notin {"off", "open"}
      BY <1>0, <1>2 DEF Steady, NotOpened, Other
    <2>2. PICK j \in DOMAIN wire[Side(g)] :
            /\ IsFrame(g, "new", j)
            /\ \A i \in DOMAIN wire[Side(g)] : IsFrame(g, "data", i) => j < i
      BY <1>0, <1>2, <2>1 DEF Heralded
    <2>3. CASE Side(g) # s
      <3>1. j \in DOMAIN (wire'[Side(g)]) /\ IsFrame(g, "new", j)'
        BY <2>2, <2>3, KeptByRead
      <3>2. \A i \in DOMAIN (wire'[Side(g)]) : IsFrame(g, "data", i)' => j < i
        BY <2>2, <2>3, ReadFrames
      <3> QED
        BY <3>1, <3>2
    <2>4. CASE Side(g) = s
      <3>1. j # 1
        BY <1>2, <2>2, <2>4, HeadFrame
      <3>2. /\ j \in Nat /\ j > 1
            /\ j - 1 \in DOMAIN (wire'[Side(g)]) /\ IsFrame(g, "new", j - 1)'
        BY <2>2, <2>4, <3>1, KeptByRead
      <3>3. ASSUME NEW i \in DOMAIN (wire'[Side(g)]), IsFrame(g, "data", i)'
            PROVE  j - 1 < i
        <4>1. i \in Nat /\ i + 1 \in DOMAIN wire[Side(g)] /\ IsFrame(g, "data", i + 1)
          BY <2>4, <3>3, ReadFrames
        <4>2. j < i + 1
          BY <2>2, <4>1
        <4> QED
          BY <3>2, <4>1, <4>2
      <3> QED
        BY <3>2, <3>3
    <2> QED
      BY <2>3, <2>4
  <1> QED
    BY <1>1, <1>2 DEF Heralded

LEMMA CompleteRead ==
  ASSUME TypeOK, Reserved, Delivery, Steady, NEW s \in Sides, wire[s] # <<>>, ReadFrame(s),
         \A f \in Ends : /\ Received(f)' \in Nat /\ Received(f) <= Received(f)'
                         /\ sent'[f] = sent[f],
         NEW r \in Ends, r = For(s),
         IsFrame(r, "data", 1) /\ ~Gone(r)' => Hi(r, 1) <= Received(r)',
         NEW g \in Ends
  PROVE  Complete(g)'
  <1>0. Peer(g) \in Ends /\ Complete(g) /\ Received(g) \in Nat /\ sent[Peer(g)] \in Nat
    BY PeerFacts, Positions DEF Delivery
  <1> SUFFICES ASSUME ~Gone(g)', NEW p \in Received(g)'..(sent'[Peer(g)] - 1)
               PROVE  \E i \in DOMAIN (wire'[Side(g)]) :
                        IsFrame(g, "data", i)' /\ Lo(g, i)' <= p /\ p < Hi(g, i)'
    BY DEF Complete
  <1>1. ~Gone(g) /\ p \in Received(g)..(sent[Peer(g)] - 1) /\ Received(g)' <= p
    BY <1>0 DEF Steady
  <1>2. PICK i \in DOMAIN wire[Side(g)] :
          IsFrame(g, "data", i) /\ Lo(g, i) <= p /\ p < Hi(g, i)
    BY <1>0, <1>1 DEF Complete
  <1>3. Hi(g, i) \in Nat /\ Received(g)' \in Nat
    BY <1>2, Positions
  <1>4. CASE Side(g) = s /\ i = 1
    <2>1. g = r
      BY <1>2, <1>4, HeadFrame
    <2>2. Hi(g, i) <= Received(g)'
      BY <1>2, <1>4, <2>1
    <2> QED
      BY <1>1, <1>2, <1>3, <2>2
  <1>5. CASE ~(Side(g) = s /\ i = 1)
    BY <1>2, <1>5, KeptByRead
  <1> QED
    BY <1>4, <1>5

LEMMA EndingRead ==
  ASSUME TypeOK, Delivery, Steady, NEW s \in Sides, wire[s] # <<>>, ReadFrame(s),
         \A f \in Ends : rerr'[f] = "EOF" =>
           \/ rerr[f] = "EOF"
           \/ f = For(s) /\ Side(f) = s /\ 1 \in DOMAIN wire[s] /\ IsFrame(f, "close", 1),
         NEW g \in Ends
  PROVE  Ending(g)'
  <1>0. Peer(g) \in Ends /\ Ending(g) /\ wire[Side(g)] \in Seq(Frame)
    BY PeerFacts DEF Delivery, TypeOK
  <1>1. ASSUME NEW i \in DOMAIN (wire'[Side(g)]), IsFrame(g, "close", i)'
        PROVE  /\ wpc'[Peer(g)] = "done"
               /\ \A j \in DOMAIN (wire'[Side(g)]) : IsFrame(g, "data", j)' => j < i
    <2>1. CASE Side(g) # s
      <3>1. i \in DOMAIN wire[Side(g)] /\ IsFrame(g, "close", i)
        BY <1>1, <2>1, ReadFrames
      <3>2. \A j \in DOMAIN (wire'[Side(g)]) :
              IsFrame(g, "data", j)' => j \in DOMAIN wire[Side(g)] /\ IsFrame(g, "data", j)
        BY <2>1, ReadFrames
      <3> QED
        BY <1>0, <3>1, <3>2 DEF Ending, Steady
    <2>2. CASE Side(g) = s
      <3>1. i \in Nat /\ i + 1 \in DOMAIN wire[Side(g)] /\ IsFrame(g, "close", i + 1)
        BY <1>1, <2>2, ReadFrames
      <3>2. ASSUME NEW j \in DOMAIN (wire'[Side(g)]), IsFrame(g, "data", j)'
            PROVE  j < i
        <4>1. j \in Nat /\ j + 1 \in DOMAIN wire[Side(g)] /\ IsFrame(g, "data", j + 1)
          BY <2>2, <3>2, ReadFrames
        <4>2. j + 1 < i + 1
          BY <1>0, <3>1, <4>1 DEF Ending
        <4> QED
          BY <3>1, <4>1, <4>2
      <3> QED
        BY <1>0, <3>1, <3>2 DEF Ending, Steady
    <2> QED
      BY <2>1, <2>2
  <1>2. ASSUME rerr'[g] = "EOF"
        PROVE  /\ wpc'[Peer(g)] = "done"
               /\ \A j \in DOMAIN (wire'[Side(g)]) : ~IsFrame(g, "data", j)'
    <2>1. /\ wpc[Peer(g)] = "done"
          /\ \A j \in DOMAIN wire[Side(g)] : ~IsFrame(g, "data", j)
      <3>1. CASE rerr[g] = "EOF"
        BY <1>0, <3>1 DEF Ending
      <3>2. CASE Side(g) = s /\ 1 \in DOMAIN wire[s] /\ IsFrame(g, "close", 1)
        <4>1. wpc[Peer(g)] = "done"
              /\ \A j \in DOMAIN wire[Side(g)] : IsFrame(g, "data", j) => j < 1
          BY <1>0, <3>2 DEF Ending
        <4>2. \A j \in DOMAIN wire[Side(g)] : ~(j < 1)
          BY <1>0
        <4> QED
          BY <4>1, <4>2
      <3> QED
        BY <1>2, <3>1, <3>2
    <2>2. \A j \in DOMAIN (wire'[Side(g)]) : ~IsFrame(g, "data", j)'
      BY <2>1, ReadFrames
    <2> QED
      BY <1>0, <2>1, <2>2 DEF Steady
  <1> QED
    BY <1>1, <1>2 DEF Ending

(* The data frame that arrives first continues where the receiver is, and  *)
(* never before the channel is known.                                      *)
LEMMA NextInLine ==
  ASSUME TypeOK, FlowInv, Delivery, NEW r \in Ends,
         1 \in DOMAIN wire[Side(r)], IsFrame(r, "data", 1)
  PROVE  /\ wpc[r] # "off"
         /\ ~Gone(r) => Lo(r, 1) = Received(r)
  <1>0. /\ Peer(r) \in Ends /\ Peer(Peer(r)) = r /\ Side(Peer(r)) = Other(Side(r))
        /\ Side(r) \in Sides /\ wire[Side(r)] \in Seq(Frame)
        /\ Heralded(r) /\ Complete(r) /\ Reserved
    BY PeerFacts DEF Delivery, TypeOK, FlowInv
  <1>1. \A i \in DOMAIN wire[Side(r)] : i \in Nat /\ i >= 1
    BY <1>0
  <1>2. wpc[r] # "off"
    <2> SUFFICES ASSUME wpc[r] = "off" PROVE FALSE
      OBVIOUS
    <2>1. wpc[Peer(r)] \notin {"off", "open"}
      BY <1>0 DEF Heralded
    <2>2. Side(r) = "client"
      BY <1>0, <2>1 DEF FlowInv, Opening, Started, Sides, Other
    <2>3. \E j \in DOMAIN wire[Side(r)] : j < 1
      BY <1>0, <2>1, <2>2 DEF Heralded
    <2> QED
      BY <1>1, <2>3
  <1>3. ASSUME ~Gone(r)
        PROVE  Lo(r, 1) = Received(r)
    <2>1. /\ Received(r) \in Nat /\ sent[Peer(r)] \in Nat
          /\ \A i \in DOMAIN wire[Side(r)] : Lo(r, i) \in Nat /\ Hi(r, i) \in Nat
                                             /\ Lo(r, i) <= Hi(r, i)
      BY <1>0, Positions
    <2>2. \A i \in DOMAIN wire[Side(r)] : IsFrame(r, "data", i) =>
            Received(r) <= Lo(r, i) /\ Hi(r, i) <= sent[Peer(r)]
      BY DEF FlowInv, WindowInv, DataOnWire
    <2>3. CASE sent[Peer(r)] <= Received(r)
      BY <2>1, <2>2, <2>3
    <2>4. CASE Received(r) < sent[Peer(r)]
      <3>1. Received(r) \in Received(r)..(sent[Peer(r)] - 1)
        BY <2>1, <2>4
      <3>2. PICK i \in DOMAIN wire[Side(r)] :
              IsFrame(r, "data", i) /\ Lo(r, i) <= Received(r) /\ Received(r) < Hi(r, i)
        BY <1>0, <1>3, <3>1 DEF Complete
      <3>3. CASE i = 1
        BY <2>1, <2>2, <3>2, <3>3
      <3>4. CASE i # 1
        <4>1. 1 < i
          BY <1>1, <3>4
        <4>2. Hi(r, 1) <= Lo(r, i)
          BY <3>2, <4>1 DEF FlowInv, WindowInv, DataOnWire, Ordered
        <4> QED
          BY <2>1, <2>2, <3>2, <4>2
      <3> QED
        BY <3>3, <3>4
    <2> QED
      BY <2>1, <2>3, <2>4
  <1> QED
    BY <1>2, <1>3

-----------------------------------------------------------------------------
(* Delivery, action by action. *)

LEMMA DeliveryWriter ==
  ASSUME TypeOK, Reserved, Opening, Delivery, NEW e \in Ends, OpenRegister(e) \/ Writer(e)
  PROVE  Delivery'
  <1>0. Steady /\ (NotOpened \/ OpenSend(e))
    BY SteadyWriter
  <1>1. CASE OpenSend(e)
    <2>1. 0 \in Nat /\ sendFrame(e, "new", 0, 0)
      BY <1>1 DEF OpenSend
    <2>2. \A f \in Ends : /\ Received(f)' = Received(f) /\ sent'[f] = sent[f]
                          /\ rerr'[f] = rerr[f]
      BY <1>1 DEF OpenSend, Received
    <2>3. Side(e) = "server"
      BY <1>1, PeerFacts DEF OpenSend, Opening, Started, Sides
    <2>4. \A g \in Ends : Complete(g)'
      BY <1>0, <2>1, <2>2, CompleteSend
    <2>5. \A g \in Ends : Ending(g)'
      BY <1>0, <2>1, <2>2, EndingSend
    <2>6. \A g \in Ends : Heralded(g)'
      BY <1>0, <1>1, <2>3, HeraldedOpen
    <2> QED
      BY <2>4, <2>5, <2>6 DEF Delivery
  <1>2. CASE WriteSend(e)
    <2>1. /\ sent[e] \in Nat /\ chunk[e] \in Nat /\ wpc[e] = "send"
          /\ sendFrame(e, "data", sent[e], chunk[e])
          /\ sent' = [sent EXCEPT ![e] = sent[e] + chunk[e]]
          /\ rb' = rb /\ consumed' = consumed /\ rerr' = rerr
      BY <1>2 DEF WriteSend, TypeOK
    <2>2. /\ sent'[e] = sent[e] + chunk[e]
          /\ \A f \in Ends : f # e => sent'[f] = sent[f]
      BY <2>1 DEF TypeOK
    <2>3. \A f \in Ends : Received(f)' = Received(f) /\ rerr'[f] = rerr[f]
      BY <2>1 DEF Received
    <2>n. NotOpened
      BY <1>2, <2>1 DEF NotOpened, WriteSend, TypeOK
    <2>4. \A g \in Ends : Complete(g)'
      BY <1>0, <2>1, <2>2, <2>3, CompleteSend
    <2>5. \A g \in Ends : Ending(g)'
      BY <1>0, <2>1, <2>3, EndingSend
    <2>6. \A g \in Ends : Heralded(g)'
      BY <1>0, <2>1, <2>n, HeraldedSend
    <2> QED
      BY <2>4, <2>5, <2>6 DEF Delivery
  <1>3. CASE CloseWriteSend(e)
    <2>1. /\ sent[e] \in Nat /\ 0 \in Nat /\ sendFrame(e, "close", sent[e], 0)
          /\ wpc[e] = "sendClose" /\ wpc'[e] = "done"
          /\ rb' = rb /\ consumed' = consumed /\ rerr' = rerr /\ sent' = sent
      BY <1>3 DEF CloseWriteSend, TypeOK
    <2>2. \A f \in Ends : /\ Received(f)' = Received(f) /\ sent'[f] = sent[f]
                          /\ rerr'[f] = rerr[f]
      BY <2>1 DEF Received
    <2>n. NotOpened
      BY <1>3, <2>1 DEF NotOpened, CloseWriteSend, TypeOK
    <2>4. \A g \in Ends : Complete(g)'
      BY <1>0, <2>1, <2>2, CompleteSend
    <2>5. \A g \in Ends : Ending(g)'
      BY <1>0, <2>1, <2>2, EndingSend
    <2>6. \A g \in Ends : Heralded(g)'
      BY <1>0, <2>1, <2>n, HeraldedSend
    <2> QED
      BY <2>4, <2>5, <2>6 DEF Delivery
  <1>4. CASE UNCHANGED <<wire, rb, consumed, sent, rerr>> /\ NotOpened
    BY <1>0, <1>4, DeliveryQuiet DEF Received
  <1>5. OpenSend(e) \/ WriteSend(e) \/ CloseWriteSend(e)
        \/ UNCHANGED <<wire, rb, consumed, sent, rerr>>
    BY DEF Writer, OpenRegister, DialOk, DialFail, SrcRead, SrcEnd, WriteEnter,
           WriteRefused, WriteAbort, WriteWait, WriteReserve, CloseWrite, CloseWriteNoop
  <1> QED
    BY <1>0, <1>1, <1>2, <1>3, <1>4, <1>5

LEMMA DeliveryReader ==
  ASSUME TypeOK, Reserved, Lives, Delivery, NEW e \in Ends, Reader(e) \/ Closer(e)
  PROVE  Delivery'
  <1>0. Steady /\ NotOpened
    BY SteadyReader
  <1>1. CASE ReadTake(e)
    <2>1. /\ rb[e] \in Seq(Nat) /\ rb[e] # <<>>
          /\ rb'[e] = Rest(e, TakeLen(e)) /\ consumed'[e] = consumed[e] + TakeLen(e)
          /\ consumed[e] \in Nat
      BY <1>1 DEF TypeOK, ReadTake
    <2>2. Len(rb'[e]) = Len(rb[e]) - TakeLen(e) /\ TakeLen(e) \in 1..Len(rb[e])
          /\ Len(rb[e]) \in Nat
      BY <2>1, TakeFacts
    <2>3. Received(e)' = Received(e)
      <3>1. PICK n \in Nat : n = TakeLen(e)
        BY <2>2
      <3>2. Len(rb'[e]) = Len(rb[e]) - n /\ consumed'[e] = consumed[e] + n
        BY <2>1, <2>2, <3>1
      <3> QED
        BY <2>1, <2>2, <3>2 DEF Received
    <2>4. \A f \in Ends : f # e => Received(f)' = Received(f)
      BY <1>1 DEF TypeOK, ReadTake, Received
    <2> QED
      BY <1>0, <1>1, <2>3, <2>4, DeliveryQuiet DEF ReadTake
  <1>2. CASE ReadCredit(e)
    <2>1. /\ consumed[e] - got[e] \in Nat /\ WindowDelta(got[e]) \in Nat
          /\ sendFrame(e, "wu", consumed[e] - got[e], WindowDelta(got[e]))
          /\ rb' = rb /\ consumed' = consumed /\ rerr' = rerr /\ sent' = sent
      BY <1>2 DEF ReadCredit, TypeOK, Reserved, WindowDelta
    <2>2. \A f \in Ends : /\ Received(f)' = Received(f) /\ sent'[f] = sent[f]
                          /\ rerr'[f] = rerr[f]
      BY <2>1 DEF Received
    <2>4. \A g \in Ends : Complete(g)'
      BY <1>0, <2>1, <2>2, CompleteSend
    <2>5. \A g \in Ends : Ending(g)'
      BY <1>0, <2>1, <2>2, EndingSend
    <2>6. \A g \in Ends : Heralded(g)'
      BY <1>0, <2>1, HeraldedSend
    <2> QED
      BY <2>4, <2>5, <2>6 DEF Delivery
  <1>3. CASE CloseSend(e)
    <2>1. /\ sent[e] \in Nat /\ 0 \in Nat /\ sendFrame(e, "close", sent[e], 0)
          /\ closing[e] = "send" /\ wpc' = wpc
          /\ rb' = rb /\ consumed' = consumed /\ rerr' = rerr /\ sent' = sent
      BY <1>3 DEF CloseSend, TypeOK, wvars
    <2>2. \A f \in Ends : /\ Received(f)' = Received(f) /\ sent'[f] = sent[f]
                          /\ rerr'[f] = rerr[f]
      BY <2>1 DEF Received
    <2>3. wpc'[e] = "done"
      BY <2>1 DEF Lives, Life, RelayReturned
    <2>4. \A g \in Ends : Complete(g)'
      BY <1>0, <2>1, <2>2, CompleteSend
    <2>5. \A g \in Ends : Ending(g)'
      BY <1>0, <2>1, <2>2, <2>3, EndingSend
    <2>6. \A g \in Ends : Heralded(g)'
      BY <1>0, <2>1, HeraldedSend
    <2> QED
      BY <2>4, <2>5, <2>6 DEF Delivery
  <1>4. CASE UNCHANGED <<wire, rb, consumed, sent, rerr>>
    BY <1>0, <1>4, DeliveryQuiet DEF Received
  <1>5. ReadTake(e) \/ ReadCredit(e) \/ CloseSend(e)
        \/ UNCHANGED <<wire, rb, consumed, sent, rerr>>
    BY DEF Reader, Closer, ReadEnd, ReadWait, SinkWrite, SinkFail, CloseBegin,
           CloseWakeReader, CloseWakeWriter, removeChannel
  <1> QED
    BY <1>1, <1>2, <1>3, <1>4, <1>5

(* What pushData makes of the positions of its end. *)
LEMMA Pushed ==
  ASSUME TypeOK, FlowInv, Lives, Delivery, NEW s \in Sides, pushData(s),
         NEW r \in Ends, r = For(s)
  PROVE  /\ 1 \in DOMAIN wire[Side(r)] /\ IsFrame(r, "data", 1) /\ Side(r) = s
         /\ Lo(r, 1) = Received(r) /\ Lo(r, 1) \in Nat
         /\ \E n \in Nat : /\ rb' = [rb EXCEPT ![r] = rb[r] \o Bytes(Lo(r, 1), n)]
                           /\ Hi(r, 1) = Lo(r, 1) + n /\ Received(r)' = Received(r) + n
  <1>0. wire[s] # <<>>
    BY DEF pushData, Arrives
  <1>1. /\ Side(r) = s /\ 1 \in DOMAIN wire[Side(r)] /\ Head(wire[s]) = wire[s][1]
        /\ Head(wire[s]).ch = r[2]
        /\ Head(wire[s]).lo \in Nat /\ Head(wire[s]).n \in Nat
        /\ Lo(r, 1) = Head(wire[s]).lo /\ Hi(r, 1) = Head(wire[s]).lo + Head(wire[s]).n
    BY <1>0, ForFacts DEF Frame, Lo, Hi
  <1>2. /\ IsFrame(r, "data", 1) /\ mapped[r]
        /\ rb' = [rb EXCEPT ![r] = rb[r] \o Bytes(Head(wire[s]).lo, Head(wire[s]).n)]
        /\ consumed' = consumed
    BY <1>1 DEF pushData, Arrives, IsFrame
  <1>3. ~Gone(r)
    BY <1>2 DEF Lives, Life
  <1>4. Lo(r, 1) = Received(r)
    BY <1>1, <1>2, <1>3, NextInLine
  <1>5. PICK lo \in Nat, n \in Nat : lo = Head(wire[s]).lo /\ n = Head(wire[s]).n
    BY <1>1
  <1>6. rb[r] \in Seq(Nat) /\ consumed[r] \in Nat /\ rb \in [Ends -> Seq(Nat)]
    BY DEF TypeOK
  <1>7. rb'[r] = rb[r] \o Bytes(lo, n)
    BY <1>2, <1>5, <1>6
  <1>8. Len(rb'[r]) = Len(rb[r]) + n /\ Len(rb[r]) \in Nat
    BY <1>6, <1>7, PushFacts
  <1>9. Received(r)' = Received(r) + n
    BY <1>2, <1>6, <1>8 DEF Received
  <1> QED
    BY <1>1, <1>2, <1>4, <1>5, <1>9

LEMMA DeliveryHandler ==
  ASSUME FitsReceiveBuffer, TypeOK, FlowInv, Lives, Delivery, TypeOK', Reserved',
         NEW s \in Sides, handleFrame(s)
  PROVE  Delivery'
  <1>0. wire[s] # <<>> /\ ReadFrame(s)
    BY DEF handleFrame, Arrives, DropUnmapped, handleNewChannel, pushData,
           pushDataOverflow, handleChannelClose, handleWindowUpdate
  <1>1. PICK r \in Ends : r = For(s)
    BY <1>0, ForFacts
  <1>2. /\ Side(r) = s /\ 1 \in DOMAIN wire[s] /\ Head(wire[s]) = wire[s][1]
        /\ Head(wire[s]).ch = r[2]
    BY <1>0, <1>1, ForFacts
  <1>3. Steady /\ NotOpened /\ Reserved
    BY SteadyHandler DEF FlowInv
  <1>4. \A f \in Ends : sent'[f] = sent[f] /\ Received(f) \in Nat /\ Received(f)' \in Nat
    BY <1>3, Positions, PositionsNext
       DEF handleFrame, DropUnmapped, handleNewChannel, pushData, pushDataOverflow,
           handleChannelClose, handleWindowUpdate
  <1>5. \A g \in Ends : Heralded(g)'
    <2>1. Head(wire[s]).type = "new" => wpc'[r] # "off"
      <3>1. CASE handleNewChannel(s)
        BY <1>1, <3>1 DEF handleNewChannel, TypeOK
      <3>2. CASE ~handleNewChannel(s)
        BY <3>2 DEF handleFrame, DropUnmapped, pushData, pushDataOverflow,
                    handleChannelClose, handleWindowUpdate, Arrives
      <3> QED
        BY <3>1, <3>2
    <2> QED
      BY <1>0, <1>1, <1>3, <2>1, HeraldedRead
  <1>6. \A g \in Ends : Ending(g)'
    <2>1. \A f \in Ends : rerr'[f] = "EOF" =>
            \/ rerr[f] = "EOF"
            \/ f = r /\ IsFrame(f, "close", 1)
      <3>1. CASE handleChannelClose(s)
        <4>1. IsFrame(r, "close", 1) /\ rerr' = [rerr EXCEPT ![r] = "EOF"]
          BY <1>1, <1>2, <3>1 DEF handleChannelClose, Arrives, IsFrame
        <4> QED
          BY <4>1 DEF TypeOK
      <3>2. CASE ~handleChannelClose(s)
        BY <3>2, AlwaysFits DEF handleFrame, DropUnmapped, handleNewChannel, pushData,
                                handleWindowUpdate
      <3> QED
        BY <3>1, <3>2
    <2> QED
      BY <1>0, <1>1, <1>2, <1>3, <2>1, EndingRead
  <1>7. \A g \in Ends : Complete(g)'
    <2>1. CASE pushData(s)
      <3>1. PICK n \in Nat :
              /\ rb' = [rb EXCEPT ![r] = rb[r] \o Bytes(Lo(r, 1), n)]
              /\ Hi(r, 1) = Received(r) + n /\ Received(r)' = Received(r) + n
        BY <1>1, <2>1, Pushed
      <3>2. \A f \in Ends : f # r => Received(f)' = Received(f)
        <4>1. consumed' = consumed
          BY <2>1 DEF pushData
        <4>2. \A f \in Ends : f # r => rb'[f] = rb[f]
          BY <3>1 DEF TypeOK
        <4> QED
          BY <4>1, <4>2 DEF Received
      <3>3. \A f \in Ends : Received(f) <= Received(f)'
        BY <1>4, <3>1, <3>2
      <3>4. Hi(r, 1) <= Received(r)'
        BY <1>4, <3>1
      <3> QED
        BY <1>0, <1>1, <1>3, <1>4, <3>3, <3>4, CompleteRead
    <2>2. CASE ~pushData(s)
      <3>1. \A f \in Ends : Received(f)' = Received(f)
        BY <2>2 DEF handleFrame, DropUnmapped, handleNewChannel, pushDataOverflow,
                    handleChannelClose, handleWindowUpdate, Received
      <3>2. \A f \in Ends : Received(f) <= Received(f)'
        BY <1>4, <3>1
      <3>3. IsFrame(r, "data", 1) => Gone(r)
        <4> SUFFICES ASSUME IsFrame(r, "data", 1) PROVE Gone(r)
          OBVIOUS
        <4>1. ~mapped[r]
          BY <1>1, <1>2, <2>2, AlwaysFits
             DEF handleFrame, DropUnmapped, handleNewChannel, handleChannelClose,
                 handleWindowUpdate, Arrives, IsFrame
        <4>2. wpc[r] # "off"
          BY <1>2, NextInLine
        <4> QED
          BY <4>1, <4>2 DEF Lives, Life
      <3>4. IsFrame(r, "data", 1) => Gone(r)'
        BY <1>3, <3>3 DEF Steady
      <3> QED
        BY <1>0, <1>1, <1>3, <1>4, <3>2, <3>4, CompleteRead
    <2> QED
      BY <2>1, <2>2
  <1> QED
    BY <1>5, <1>6, <1>7 DEF Delivery

-----------------------------------------------------------------------------
(* In order, and to the end *)

(* The bytes that Read leaves and the ones that pushData adds. *)
LEMMA RestElements ==
  ASSUME NEW q \in Seq(Nat), NEW n \in 1..Len(q), NEW c \in Nat,
         \A i \in DOMAIN q : q[i] = c + i
  PROVE  \A i \in DOMAIN SubSeq(q, n + 1, Len(q)) :
           SubSeq(q, n + 1, Len(q))[i] = (c + n) + i
  <1>1. /\ DOMAIN SubSeq(q, n + 1, Len(q)) = 1..(Len(q) - n) /\ DOMAIN q = 1..Len(q)
        /\ Len(q) \in Nat /\ n \in Nat
        /\ \A i \in 1..(Len(q) - n) : SubSeq(q, n + 1, Len(q))[i] = q[n + i]
    OBVIOUS
  <1>2. ASSUME NEW i \in 1..(Len(q) - n)
        PROVE  q[n + i] = (c + n) + i
    <2>1. n + i \in DOMAIN q
      BY <1>1
    <2> QED
      BY SMTT(60), <1>1, <2>1
  <1> QED
    BY <1>1, <1>2

LEMMA PushElements ==
  ASSUME NEW q \in Seq(Nat), NEW n \in Nat, NEW c \in Nat, NEW lo \in Nat,
         lo = c + Len(q), \A i \in DOMAIN q : q[i] = c + i
  PROVE  \A i \in DOMAIN (q \o Bytes(lo, n)) : (q \o Bytes(lo, n))[i] = c + i
  <1>1. Bytes(lo, n) \in Seq(Nat) /\ Len(Bytes(lo, n)) = n
        /\ \A k \in 1..n : Bytes(lo, n)[k] = lo + k
    BY DEF Bytes
  <1>2. /\ DOMAIN (q \o Bytes(lo, n)) = 1..(Len(q) + n) /\ Len(q) \in Nat
        /\ DOMAIN q = 1..Len(q)
        /\ \A i \in 1..(Len(q) + n) : (q \o Bytes(lo, n))[i] =
             IF i <= Len(q) THEN q[i] ELSE Bytes(lo, n)[i - Len(q)]
    BY SMTT(60), <1>1
  <1>3. ASSUME NEW i \in 1..(Len(q) + n)
        PROVE  (q \o Bytes(lo, n))[i] = c + i
    <2>1. CASE i <= Len(q)
      BY SMTT(60), <1>2, <2>1
    <2>2. CASE i > Len(q)
      <3>1. i - Len(q) \in 1..n
        BY <1>2, <2>2
      <3>2. (q \o Bytes(lo, n))[i] = lo + (i - Len(q))
        BY <1>1, <1>2, <2>2, <3>1
      <3> QED
        BY <1>2, <3>2
    <2> QED
      BY <1>2, <2>1, <2>2
  <1> QED
    BY <1>2, <1>3

LEMMA InOrderStep ==
  ASSUME TypeOK, FlowInv, Lives, Delivery, InOrder, [Next]_vars
  PROVE  InOrder'
  <1>1. CASE UNCHANGED <<rb, consumed>>
    BY <1>1 DEF InOrder
  <1>2. ASSUME NEW e \in Ends, ReadTake(e)
        PROVE  InOrder'
    <2>1. /\ rb[e] \in Seq(Nat) /\ rb[e] # <<>> /\ consumed[e] \in Nat
          /\ rb' = [rb EXCEPT ![e] = Rest(e, TakeLen(e))]
          /\ consumed' = [consumed EXCEPT ![e] = consumed[e] + TakeLen(e)]
          /\ rb \in [Ends -> Seq(Nat)] /\ consumed \in [Ends -> Nat]
      BY <1>2 DEF TypeOK, ReadTake
    <2>2. PICK n \in 1..Len(rb[e]) : n = TakeLen(e)
      BY <2>1, TakeFacts
    <2>3. rb'[e] = SubSeq(rb[e], n + 1, Len(rb[e])) /\ consumed'[e] = consumed[e] + n
      BY <2>1, <2>2 DEF Rest
    <2>4. \A i \in DOMAIN (rb'[e]) : rb'[e][i] = consumed'[e] + i
      <3>1. PICK q \in Seq(Nat), c \in Nat : q = rb[e] /\ c = consumed[e]
        BY <2>1
      <3>2. \A i \in DOMAIN q : q[i] = c + i
        BY <3>1 DEF InOrder
      <3>3. n \in 1..Len(q)
        BY <3>1
      <3>4. \A i \in DOMAIN SubSeq(q, n + 1, Len(q)) :
              SubSeq(q, n + 1, Len(q))[i] = (c + n) + i
        BY <3>2, <3>3, RestElements
      <3>5. rb'[e] = SubSeq(q, n + 1, Len(q)) /\ consumed'[e] = c + n
        BY <2>3, <3>1
      <3> QED
        BY <3>4, <3>5, Zenon
    <2>5. \A f \in Ends : f # e => rb'[f] = rb[f] /\ consumed'[f] = consumed[f]
      BY <2>1
    <2> QED
      BY <2>4, <2>5 DEF InOrder
  <1>3. ASSUME NEW s \in Sides, pushData(s)
        PROVE  InOrder'
    <2>0. wire[s] # <<>> /\ consumed' = consumed
      BY <1>3 DEF pushData, Arrives
    <2>1. PICK r \in Ends : r = For(s)
      BY <2>0, ForFacts
    <2>2. PICK n \in Nat : rb' = [rb EXCEPT ![r] = rb[r] \o Bytes(Lo(r, 1), n)]
      BY <1>3, <2>1, Pushed
    <2>3. PICK lo \in Nat : lo = Lo(r, 1) /\ lo = Received(r)
      BY <1>3, <2>1, Pushed
    <2>4. /\ rb[r] \in Seq(Nat) /\ consumed[r] \in Nat /\ rb \in [Ends -> Seq(Nat)]
          /\ lo = consumed[r] + Len(rb[r])
      BY <2>3 DEF TypeOK, Received
    <2>5. rb'[r] = rb[r] \o Bytes(lo, n)
      BY <2>2, <2>3, <2>4
    <2>6. \A i \in DOMAIN (rb'[r]) : rb'[r][i] = consumed[r] + i
      <3>1. PICK q \in Seq(Nat), c \in Nat : q = rb[r] /\ c = consumed[r]
        BY <2>4
      <3>2. (\A i \in DOMAIN q : q[i] = c + i) /\ lo = c + Len(q)
        BY <2>4, <3>1 DEF InOrder
      <3>3. \A i \in DOMAIN (q \o Bytes(lo, n)) : (q \o Bytes(lo, n))[i] = c + i
        BY ZenonT(60), <3>2, PushElements
      <3>4. rb'[r] = q \o Bytes(lo, n) /\ consumed[r] = c
        BY <2>5, <3>1
      <3> QED
        BY <3>3, <3>4, Zenon
    <2>7. \A f \in Ends : f # r => rb'[f] = rb[f]
      BY <2>2, <2>4
    <2> QED
      BY <2>0, <2>6, <2>7 DEF InOrder
  <1>4. \/ UNCHANGED <<rb, consumed>>
        \/ \E e \in Ends : ReadTake(e)
        \/ \E s \in Sides : pushData(s)
    <2>1. CASE UNCHANGED vars
      BY <2>1 DEF vars
    <2>2. ASSUME NEW e \in Ends, OpenRegister(e) \/ Writer(e)
          PROVE  UNCHANGED <<rb, consumed>>
      BY <2>2 DEF Writer, OpenRegister, OpenSend, DialOk, DialFail, SrcRead, SrcEnd,
         WriteEnter, WriteRefused, WriteAbort, WriteWait, WriteReserve, WriteSend,
         CloseWrite, CloseWriteNoop, CloseWriteSend
    <2>3. ASSUME NEW e \in Ends, Reader(e) \/ Closer(e)
          PROVE  ReadTake(e) \/ UNCHANGED <<rb, consumed>>
      BY <2>3 DEF Reader, Closer, ReadCredit, ReadEnd, ReadWait, SinkWrite, SinkFail,
         CloseBegin, CloseWakeReader, CloseWakeWriter, removeChannel, CloseSend
    <2>4. ASSUME NEW s \in Sides, handleFrame(s)
          PROVE  pushData(s) \/ UNCHANGED <<rb, consumed>>
      BY <2>4 DEF handleFrame, DropUnmapped, handleNewChannel, pushDataOverflow,
         handleChannelClose, handleWindowUpdate
    <2> QED
      BY <2>1, <2>2, <2>3, <2>4 DEF Next
  <1> QED
    BY <1>1, <1>2, <1>3, <1>4

LEMMA LosslessStep ==
  ASSUME TypeOK, FlowInv, Lives, Delivery, LosslessEOF, Lives', Steady
  PROVE  LosslessEOF'
  <1> SUFFICES ASSUME NEW e \in Ends, rpc'[e] = "eof"
               PROVE  /\ wpc'[Peer(e)] = "done"
                      /\ pend'[Peer(e)] = 0
                      /\ consumed'[e] = sent'[Peer(e)]
    BY DEF LosslessEOF
  <1>0. Peer(e) \in Ends /\ Peer(Peer(e)) = e
    BY PeerFacts
  <1>1. /\ wpc[Peer(e)] = "done" /\ consumed[e] = sent[Peer(e)]
        /\ consumed'[e] = consumed[e]
    <2>1. CASE rpc[e] = "eof"
      BY <2>1 DEF LosslessEOF, Steady
    <2>2. CASE ReadEnd(e)
      <3>1. /\ rpc[e] = "read" /\ rb[e] = <<>> /\ consumed' = consumed
            /\ rerr[e] # "nil" \/ status[e] = "closed"
        BY <2>2 DEF ReadEnd, EndOfStream
      <3>2. closing[e] = "no"
        BY <3>1 DEF Lives, Life, RelayReturned
      <3>3. rerr[e] = "EOF" /\ ~Gone(e)
        BY <3>1, <3>2 DEF Lives, Life, Gone, TypeOK
      <3>4. /\ wpc[Peer(e)] = "done"
            /\ \A j \in DOMAIN wire[Side(e)] : ~IsFrame(e, "data", j)
        BY <3>3 DEF Delivery, Ending
      <3>5. \A p \in Received(e)..(sent[Peer(e)] - 1) : FALSE
        BY <3>3, <3>4 DEF Delivery, Complete
      <3>6. /\ Received(e) \in Nat /\ sent[Peer(e)] \in Nat /\ Received(e) <= sent[Peer(e)]
        BY <1>0, Positions DEF FlowInv, WindowInv, ReceivedBound
      <3>7. ~(Received(e) < sent[Peer(e)])
        <4>1. Received(e) < sent[Peer(e)] => Received(e) \in Received(e)..(sent[Peer(e)] - 1)
          BY <3>6
        <4> QED
          BY <3>5, <4>1
      <3>8. Received(e) = consumed[e]
        BY <3>1 DEF Received, TypeOK
      <3> QED
        BY <3>1, <3>4, <3>6, <3>7, <3>8
    <2> QED
      BY <2>1, <2>2 DEF Steady
  <1>2. wpc'[Peer(e)] = "done" /\ sent'[Peer(e)] = sent[Peer(e)]
    BY <1>0, <1>1 DEF Steady
  <1>3. pend'[Peer(e)] = 0
    BY <1>0, <1>2 DEF Lives, Life
  <1> QED
    BY <1>1, <1>2, <1>3

(* The whole inductive invariant of the delivery theorems. *)
DeliveryInv == TypeOK /\ FlowInv /\ Lives /\ Delivery /\ InOrder /\ LosslessEOF

LEMMA DeliveryStep ==
  ASSUME FitsReceiveBuffer, DeliveryInv, [Next]_vars
  PROVE  DeliveryInv'
  <1> USE DEF DeliveryInv
  <1>1. TypeOK' /\ FlowInv' /\ Reserved' /\ Reserved /\ Opening
    BY FlowStep DEF FlowInv
  <1>2. InOrder'
    BY InOrderStep
  <1>3. CASE UNCHANGED vars
    <2>1. Lives'
      BY <1>3 DEF vars, Lives, Life, Gone, RelayReturned
    <2>2. Steady /\ NotOpened
      BY <1>3 DEF vars, Steady, NotOpened, Gone
    <2>3. Delivery'
      BY <1>3, <2>2, DeliveryQuiet DEF vars, Received
    <2> QED
      BY <1>1, <1>2, <2>1, <2>2, <2>3, LosslessStep
  <1>4. ASSUME NEW e \in Ends, OpenRegister(e) \/ Writer(e)
        PROVE  Lives' /\ Delivery' /\ LosslessEOF'
    BY <1>1, <1>4, LivesWriter, DeliveryWriter, SteadyWriter, LosslessStep
  <1>5. ASSUME NEW e \in Ends, Reader(e) \/ Closer(e)
        PROVE  Lives' /\ Delivery' /\ LosslessEOF'
    BY <1>1, <1>5, LivesReader, DeliveryReader, SteadyReader, LosslessStep
  <1>6. ASSUME NEW s \in Sides, handleFrame(s)
        PROVE  Lives' /\ Delivery' /\ LosslessEOF'
    BY <1>1, <1>6, LivesHandler, DeliveryHandler, SteadyHandler, LosslessStep
  <1>7. CASE Next
    BY <1>1, <1>2, <1>4, <1>5, <1>6, <1>7 DEF Next
  <1> QED
    BY <1>3, <1>7

LEMMA DeliveryAlways ==
  ASSUME FitsReceiveBuffer
  PROVE  Spec => []DeliveryInv
  <1>1. Init => DeliveryInv
    <2> SUFFICES ASSUME Init PROVE DeliveryInv
      OBVIOUS
    <2>0. \A e \in Ends : Peer(e) \in Ends /\ Side(e) \in Sides
      BY PeerFacts
    <2>1. Lives
      BY DEF Init, Lives, Life, Gone, RelayReturned
    <2>2. \A e \in Ends : DOMAIN wire[Side(e)] = {} /\ Received(e) = 0 /\ sent[Peer(e)] = 0
      BY <2>0 DEF Init, Received
    <2>3. Delivery
      BY <2>0, <2>2 DEF Init, Delivery, Heralded, Complete, Ending
    <2>4. InOrder /\ LosslessEOF
      BY DEF Init, InOrder, LosslessEOF
    <2> QED
      BY <2>1, <2>3, <2>4, FlowInit DEF DeliveryInv
  <1>2. DeliveryInv /\ [Next]_vars => DeliveryInv'
    BY DeliveryStep
  <1> QED
    BY <1>1, <1>2, PTL DEF Spec

(* When the window fits the receive buffer, Read hands over the bytes of   *)
(* the peer's Writes in order, without a gap or a repetition, for every    *)
(* interleaving of writers, readers, closers and readLoops.                *)
THEOREM DeliveredInOrder ==
  ASSUME FitsReceiveBuffer
  PROVE  Spec => []InOrder
  <1>1. DeliveryInv => InOrder
    BY DEF DeliveryInv
  <1> QED
    BY <1>1, DeliveryAlways, PTL

(* When the window fits the receive buffer, a reader that sees the end of  *)
(* its stream has read every byte that the peer's source produced: neither *)
(* half-close nor Close overtakes data.                                    *)
THEOREM DeliveredToTheEnd ==
  ASSUME FitsReceiveBuffer
  PROVE  Spec => []LosslessEOF
  <1>1. DeliveryInv => LosslessEOF
    BY DEF DeliveryInv
  <1> QED
    BY <1>1, DeliveryAlways, PTL

-----------------------------------------------------------------------------
(* What the frames on a wire carry.  Carried is defined by recursion along *)
(* the wire, and the induction theorems of the library take an operator    *)
(* that no backend instantiates, so induction is stated for a set of       *)
(* numbers: < is well-founded, hence a set that holds 0 and is closed      *)
(* under successor has no least counterexample.                            *)

LEMMA SetInduction ==
  ASSUME NEW T \in SUBSET Nat, 0 \in T, \A n \in T : n + 1 \in T
  PROVE  \A n \in Nat : n \in T
  <1> SUFFICES ASSUME Nat \ T # {} PROVE FALSE
    OBVIOUS
  <1>1. PICK x \in Nat \ T : \A y \in Nat \ T : ~(<<y, x>> \in OpToRel(<, Nat))
    <2>1. Nat \ T \subseteq Nat
      OBVIOUS
    <2> QED
      BY <2>1, WFMin, NatLessThanWellFounded
  <1>2. \A y \in Nat : y < x => <<y, x>> \in OpToRel(<, Nat)
    BY DEF OpToRel
  <1>3. x # 0 /\ x - 1 \in Nat /\ x - 1 < x
    OBVIOUS
  <1>4. x - 1 \in T
    BY <1>1, <1>2, <1>3
  <1> QED
    BY <1>3, <1>4

(* The function that Carried defines, and that it is one. *)
UpTo(w, ch, type) ==
  CHOOSE f : f = [k \in 0..Len(w) |->
                    IF k = 0 THEN <<>> ELSE f[k - 1] \o Payload(w[k], ch, type)]

LEMMA CarriedUpTo ==
  ASSUME NEW w, NEW ch, NEW type
  PROVE  Carried(w, ch, type) = UpTo(w, ch, type)[Len(w)]
  BY Zenon DEF Carried, UpTo

LEMMA UpToExists ==
  ASSUME NEW P, NEW m \in Nat
  PROVE  \E f : f = [k \in 0..m |-> IF k = 0 THEN <<>> ELSE f[k - 1] \o P[k]]
  <1> DEFINE Is(f, n) == f = [k \in 0..n |-> IF k = 0 THEN <<>> ELSE f[k - 1] \o P[k]]
             T == {n \in Nat : \E f : Is(f, n)}
  <1>1. 0 \in T
    <2>1. Is([k \in 0..0 |-> <<>>], 0)
      OBVIOUS
    <2> QED
      BY <2>1
  <1>2. ASSUME NEW n \in T PROVE n + 1 \in T
    <2>0. n \in Nat
      OBVIOUS
    <2>1. PICK f : f = [k \in 0..n |-> IF k = 0 THEN <<>> ELSE f[k - 1] \o P[k]]
      OBVIOUS
    <2>2. f[0] = <<>> /\ \A k \in 1..n : f[k] = f[k - 1] \o P[k]
      <3>1. \A k \in 0..n : f[k] = IF k = 0 THEN <<>> ELSE f[k - 1] \o P[k]
        BY <2>1, Zenon
      <3>2. 0 \in 0..n /\ \A k \in 1..n : k \in 0..n /\ k # 0
        BY <2>0
      <3> QED
        BY <3>1, <3>2, Zenon
    <2> DEFINE g == [k \in 0..(n + 1) |-> IF k <= n THEN f[k] ELSE f[n] \o P[n + 1]]
    <2>3. /\ \A k \in 0..n : g[k] = f[k]
          /\ g[n + 1] = f[n] \o P[n + 1]
          /\ g = [k \in 0..(n + 1) |-> g[k]]
      <3>1. /\ \A k \in 0..n : k \in 0..(n + 1) /\ k <= n
            /\ n + 1 \in 0..(n + 1) /\ ~(n + 1 <= n)
        BY <2>0
      <3> QED
        BY <3>1, Zenon
    <2> HIDE DEF g
    <2>4. ASSUME NEW k \in 0..(n + 1)
          PROVE  g[k] = IF k = 0 THEN <<>> ELSE g[k - 1] \o P[k]
      <3>1. CASE k = 0
        <4>1. 0 \in 0..n
          BY <2>0
        <4> QED
          BY <2>2, <2>3, <3>1, <4>1, Zenon
      <3>2. CASE k \in 1..n
        <4>1. k - 1 \in 0..n /\ k \in 0..n /\ k # 0
          BY <2>0, <3>2
        <4> QED
          BY <2>2, <2>3, <3>2, <4>1
      <3>3. CASE k = n + 1
        <4>1. k - 1 = n /\ k # 0 /\ n \in 0..n
          BY <2>0, <3>3
        <4> QED
          BY <2>3, <3>3, <4>1
      <3> QED
        BY <2>0, <3>1, <3>2, <3>3
    <2>5. g = [k \in 0..(n + 1) |-> IF k = 0 THEN <<>> ELSE g[k - 1] \o P[k]]
      BY <2>3, <2>4, Zenon
    <2>6. \E h : Is(h, n + 1)
      BY <2>5, Zenon
    <2> HIDE DEF Is
    <2> QED
      BY <2>0, <2>6
  <1> HIDE DEF T
  <1>3. m \in T
    <2>1. T \in SUBSET Nat
      BY DEF T
    <2> QED
      BY <1>1, <1>2, <2>1, SetInduction
  <1> QED
    BY <1>3 DEF T

(* It does what its definition says. *)
Unfolds(w, ch, type) ==
  /\ UpTo(w, ch, type)[0] = <<>>
  /\ \A k \in 1..Len(w) : UpTo(w, ch, type)[k] =
       UpTo(w, ch, type)[k - 1] \o Payload(w[k], ch, type)

LEMMA UpToDef ==
  ASSUME NEW w \in Seq(Frame), NEW ch, NEW type
  PROVE  Unfolds(w, ch, type)
  <1> DEFINE P == [k \in 0..Len(w) |-> Payload(w[k], ch, type)]
  <1>0. Len(w) \in Nat
    OBVIOUS
  <1>1. PICK f : f = [k \in 0..Len(w) |-> IF k = 0 THEN <<>> ELSE f[k - 1] \o P[k]]
    <2> HIDE DEF P
    <2> QED
      BY <1>0, UpToExists
  <1>2. f = [k \in 0..Len(w) |->
               IF k = 0 THEN <<>> ELSE f[k - 1] \o Payload(w[k], ch, type)]
    <2>1. \A k \in 0..Len(w) : P[k] = Payload(w[k], ch, type)
      OBVIOUS
    <2> HIDE DEF P
    <2> QED
      BY <1>1, <2>1, Zenon
  <1>3. UpTo(w, ch, type) = [k \in 0..Len(w) |->
          IF k = 0 THEN <<>> ELSE UpTo(w, ch, type)[k - 1] \o Payload(w[k], ch, type)]
    BY <1>2, Zenon DEF UpTo
  <1>4. \A k \in 0..Len(w) : UpTo(w, ch, type)[k] =
          IF k = 0 THEN <<>> ELSE UpTo(w, ch, type)[k - 1] \o Payload(w[k], ch, type)
    BY <1>3, Zenon
  <1>5. 0 \in 0..Len(w) /\ \A k \in 1..Len(w) : k \in 0..Len(w) /\ k # 0
    BY <1>0
  <1> QED
    BY <1>4, <1>5 DEF Unfolds

LEMMA PayloadFacts ==
  ASSUME NEW f \in Frame, NEW ch, NEW type
  PROVE  /\ Payload(f, ch, type) \in Seq(Nat)
         /\ f.type = type /\ f.ch = ch => /\ Payload(f, ch, type) = Bytes(f.lo, f.n)
                                          /\ Len(Payload(f, ch, type)) = f.n
         /\ ~(f.type = type /\ f.ch = ch) => Payload(f, ch, type) = <<>>
  <1>1. f.lo \in Nat /\ f.n \in Nat
    BY DEF Frame
  <1>2. PICK lo \in Nat, n \in Nat : lo = f.lo /\ n = f.n
    BY <1>1
  <1>3. Bytes(lo, n) \in Seq(Nat) /\ Len(Bytes(lo, n)) = n
    BY DEF Bytes
  <1> QED
    BY <1>2, <1>3 DEF Payload

(* What holds before the first frame and is kept by every frame holds of   *)
(* the whole wire.                                                         *)
LEMMA WireInduction ==
  ASSUME NEW m \in Nat, NEW T, 0 \in T, \A k \in 1..m : k - 1 \in T => k \in T
  PROVE  \A k \in 0..m : k \in T
  <1> DEFINE S == {n \in Nat : n <= m => n \in T}
  <1>1. 0 \in S
    OBVIOUS
  <1>2. ASSUME NEW n \in S PROVE n + 1 \in S
    <2>1. n \in Nat /\ n + 1 \in Nat /\ (n <= m => n \in T)
      OBVIOUS
    <2>2. ASSUME n + 1 <= m PROVE n + 1 \in T
      <3>1. n + 1 \in 1..m /\ (n + 1) - 1 = n /\ n <= m
        BY <2>1, <2>2
      <3> QED
        BY <2>1, <3>1
    <2> QED
      BY <2>1, <2>2
  <1>3. S \in SUBSET Nat
    OBVIOUS
  <1>4. \A n \in Nat : n \in S
    <2> HIDE DEF S
    <2> QED
      BY <1>1, <1>2, <1>3, SetInduction
  <1> QED
    BY <1>4

LEMMA ConcatThree ==
  ASSUME NEW a \in Seq(Nat), NEW b \in Seq(Nat), NEW c \in Seq(Nat)
  PROVE  (a \o b) \o c = a \o (b \o c)
  BY SMTT(60), SMT, ConcatAssociative

LEMMA UpToTyped ==
  ASSUME NEW w \in Seq(Frame), NEW ch, NEW type
  PROVE  \A k \in 0..Len(w) : UpTo(w, ch, type)[k] \in Seq(Nat)
  <1> DEFINE T == {k \in Nat : UpTo(w, ch, type)[k] \in Seq(Nat)}
  <1>0. Len(w) \in Nat /\ \A k \in 1..Len(w) : w[k] \in Frame /\ k \in Nat
    OBVIOUS
  <1>d. Unfolds(w, ch, type)
    BY UpToDef
  <1> USE DEF Unfolds
  <1>1. 0 \in T
    <2>1. <<>> \in Seq(Nat) /\ 0 \in Nat
      OBVIOUS
    <2> QED
      BY <1>d, <2>1, Zenon
  <1>2. ASSUME NEW k \in 1..Len(w), k - 1 \in T PROVE k \in T
    <2>1. UpTo(w, ch, type)[k - 1] \in Seq(Nat) /\ Payload(w[k], ch, type) \in Seq(Nat)
      BY <1>0, <1>2, PayloadFacts
    <2>2. UpTo(w, ch, type)[k] \in Seq(Nat)
      <3>1. UpTo(w, ch, type)[k - 1] \o Payload(w[k], ch, type) \in Seq(Nat)
        BY <2>1, ConcatProperties
      <3> QED
        BY <1>d, <3>1, Zenon
    <2> QED
      BY <1>0, <2>2
  <1> HIDE DEF T
  <1>3. \A k \in 0..Len(w) : k \in T
    BY <1>0, <1>1, <1>2, WireInduction
  <1> QED
    BY <1>3 DEF T

LEMMA UpToPrefix ==
  ASSUME NEW w \in Seq(Frame), NEW v \in Seq(Frame), NEW ch, NEW type,
         Len(w) <= Len(v), \A i \in 1..Len(w) : v[i] = w[i]
  PROVE  \A k \in 0..Len(w) : UpTo(v, ch, type)[k] = UpTo(w, ch, type)[k]
  <1> DEFINE T == {k \in Nat : UpTo(v, ch, type)[k] = UpTo(w, ch, type)[k]}
  <1>0. Len(w) \in Nat /\ \A k \in 1..Len(w) : k \in 1..Len(v) /\ k \in Nat
    OBVIOUS
  <1>d. Unfolds(w, ch, type)
    BY UpToDef
  <1>e. Unfolds(v, ch, type)
    BY UpToDef
  <1> USE DEF Unfolds
  <1>1. 0 \in T
    BY <1>d, <1>e
  <1>2. ASSUME NEW k \in 1..Len(w), k - 1 \in T PROVE k \in T
    <2>1. /\ k \in Nat /\ k \in 1..Len(v) /\ v[k] = w[k]
          /\ UpTo(v, ch, type)[k - 1] = UpTo(w, ch, type)[k - 1]
      BY <1>0, <1>2
    <2>2. UpTo(v, ch, type)[k] = UpTo(w, ch, type)[k]
      BY <1>d, <1>e, <2>1, Zenon
    <2> QED
      BY <2>1, <2>2
  <1> HIDE DEF T
  <1>3. \A k \in 0..Len(w) : k \in T
    BY <1>0, <1>1, <1>2, WireInduction
  <1> QED
    BY <1>3 DEF T

(* A frame added, a frame taken, and no frame at all. *)
LEMMA CarriedAppend ==
  ASSUME NEW w \in Seq(Frame), NEW f \in Frame, NEW ch, NEW type
  PROVE  Carried(Append(w, f), ch, type) = Carried(w, ch, type) \o Payload(f, ch, type)
  <1> DEFINE v == Append(w, f)
  <1>1. /\ v \in Seq(Frame) /\ Len(v) = Len(w) + 1 /\ Len(w) \in Nat
        /\ \A i \in 1..Len(w) : v[i] = w[i]
        /\ v[Len(w) + 1] = f
    OBVIOUS
  <1> HIDE DEF v
  <1>2. Len(w) <= Len(v) /\ Len(w) \in 0..Len(w) /\ Len(w) + 1 \in 1..Len(v)
        /\ (Len(w) + 1) - 1 = Len(w)
    BY <1>1
  <1>3. UpTo(v, ch, type)[Len(w) + 1] = UpTo(v, ch, type)[Len(w)] \o Payload(f, ch, type)
    <2>1. UpTo(v, ch, type)[Len(w) + 1] =
            UpTo(v, ch, type)[(Len(w) + 1) - 1] \o Payload(v[Len(w) + 1], ch, type)
      <3>1. Unfolds(v, ch, type)
        BY <1>1, UpToDef
      <3> QED
        BY <1>2, <3>1, Zenon DEF Unfolds
    <2> QED
      BY <1>1, <1>2, <2>1, Zenon
  <1>4. UpTo(v, ch, type)[Len(w)] = UpTo(w, ch, type)[Len(w)]
    BY <1>1, <1>2, UpToPrefix
  <1> QED
    BY <1>1, <1>3, <1>4, CarriedUpTo DEF v

LEMMA CarriedTail ==
  ASSUME NEW w \in Seq(Frame), w # <<>>, NEW ch, NEW type
  PROVE  Carried(w, ch, type) = Payload(w[1], ch, type) \o Carried(Tail(w), ch, type)
  <1> DEFINE v == Tail(w)
             T == {k \in Nat : UpTo(w, ch, type)[k + 1] =
                                 Payload(w[1], ch, type) \o UpTo(v, ch, type)[k]}
  <1>1. /\ v \in Seq(Frame) /\ Len(v) = Len(w) - 1 /\ Len(w) \in Nat /\ Len(v) \in Nat
        /\ \A i \in 1..Len(v) : v[i] = w[i + 1] /\ i + 1 \in 1..Len(w)
                                /\ (i + 1) - 1 = i /\ v[i] \in Frame
                                /\ i \in Nat /\ i - 1 \in 0..Len(v) /\ (i - 1) + 1 = i
        /\ 1 \in 1..Len(w) /\ w[1] \in Frame
    OBVIOUS
  <1> HIDE DEF v
  <1>d. Unfolds(w, ch, type)
    BY UpToDef
  <1>v. v \in Seq(Frame)
    BY <1>1
  <1>e. Unfolds(v, ch, type)
    BY <1>v, UpToDef
  <1> USE DEF Unfolds
  <1>2. Payload(w[1], ch, type) \in Seq(Nat)
    BY <1>1, PayloadFacts
  <1>3. 0 \in T
    <2>1. UpTo(w, ch, type)[1] = UpTo(w, ch, type)[1 - 1] \o Payload(w[1], ch, type)
      BY <1>1, <1>d, Zenon
    <2>2. UpTo(w, ch, type)[1] = Payload(w[1], ch, type)
      <3>1. 1 - 1 = 0 /\ <<>> \o Payload(w[1], ch, type) = Payload(w[1], ch, type)
        BY <1>2, ConcatEmptySeq
      <3> QED
        BY <1>d, <2>1, <3>1
    <2>3. UpTo(v, ch, type)[0] = <<>>
      BY <1>e
    <2>4. Payload(w[1], ch, type) \o <<>> = Payload(w[1], ch, type)
      BY <1>2, ConcatEmptySeq
    <2>5. 0 + 1 = 1 /\ 0 \in Nat
      OBVIOUS
    <2> QED
      BY <2>2, <2>3, <2>4, <2>5
  <1>4. ASSUME NEW k \in 1..Len(v), k - 1 \in T PROVE k \in T
    <2>1. /\ UpTo(v, ch, type)[k] = UpTo(v, ch, type)[k - 1] \o Payload(v[k], ch, type)
          /\ UpTo(w, ch, type)[k + 1] = UpTo(w, ch, type)[k] \o Payload(v[k], ch, type)
      <3>1. k + 1 \in 1..Len(w) /\ (k + 1) - 1 = k /\ w[k + 1] = v[k]
        BY <1>1
      <3>2. UpTo(w, ch, type)[k + 1] =
              UpTo(w, ch, type)[(k + 1) - 1] \o Payload(w[k + 1], ch, type)
        BY <1>d, <3>1, Zenon
      <3> QED
        BY <1>e, <3>1, <3>2, Zenon
    <2>2. UpTo(w, ch, type)[k] = Payload(w[1], ch, type) \o UpTo(v, ch, type)[k - 1]
      BY <1>1, <1>4
    <2>3. UpTo(v, ch, type)[k - 1] \in Seq(Nat) /\ Payload(v[k], ch, type) \in Seq(Nat)
      BY <1>1, UpToTyped, PayloadFacts
    <2>4. UpTo(w, ch, type)[k + 1] = Payload(w[1], ch, type) \o UpTo(v, ch, type)[k]
      <3> DEFINE a == Payload(w[1], ch, type)
                 b == UpTo(v, ch, type)[k - 1]
                 c == Payload(v[k], ch, type)
      <3>1. (a \o b) \o c = a \o (b \o c)
        <4> HIDE DEF a, b, c
        <4>1. a \in Seq(Nat) /\ b \in Seq(Nat) /\ c \in Seq(Nat)
          BY <1>2, <2>3 DEF a, b, c
        <4> QED
          BY <4>1, ConcatThree
      <3> QED
        BY <2>1, <2>2, <3>1, Zenon
    <2> QED
      BY <1>1, <2>4
  <1> HIDE DEF T
  <1>5. Len(v) \in T
    <2>1. Len(v) \in 0..Len(v) /\ Len(v) \in Nat
      BY <1>1
    <2> QED
      BY <1>3, <1>4, <2>1, WireInduction
  <1>6. Len(v) + 1 = Len(w)
    BY <1>1
  <1> QED
    BY <1>5, <1>6, CarriedUpTo DEF T, v

LEMMA CarriedNone ==
  ASSUME NEW w \in Seq(Frame), NEW ch, NEW type,
         \A i \in DOMAIN w : ~(w[i].type = type /\ w[i].ch = ch)
  PROVE  Carried(w, ch, type) = <<>>
  <1> DEFINE T == {k \in Nat : UpTo(w, ch, type)[k] = <<>>}
  <1>0. Len(w) \in Nat /\ \A k \in 1..Len(w) : k \in DOMAIN w /\ k \in Nat
    OBVIOUS
  <1>d. Unfolds(w, ch, type)
    BY UpToDef
  <1> USE DEF Unfolds
  <1>1. 0 \in T
    BY <1>d
  <1>2. ASSUME NEW k \in 1..Len(w), k - 1 \in T PROVE k \in T
    <2>1. Payload(w[k], ch, type) = <<>> /\ UpTo(w, ch, type)[k - 1] = <<>>
      BY <1>0, <1>2 DEF Payload
    <2>2. <<>> \o <<>> = <<>>
      OBVIOUS
    <2>3. UpTo(w, ch, type)[k] = <<>>
      BY <1>d, <2>1, <2>2, Zenon
    <2> QED
      BY <1>0, <2>3
  <1> HIDE DEF T
  <1>3. Len(w) \in T
    <2>1. Len(w) \in 0..Len(w)
      BY <1>0
    <2> QED
      BY <1>0, <1>1, <1>2, <2>1, WireInduction
  <1> QED
    BY <1>3, CarriedUpTo DEF T

LEMMA CarriedTyped ==
  ASSUME NEW w \in Seq(Frame), NEW ch, NEW type
  PROVE  Carried(w, ch, type) \in Seq(Nat)
  <1>1. Len(w) \in 0..Len(w)
    OBVIOUS
  <1> QED
    BY <1>1, CarriedUpTo, UpToTyped

LEMMA FlightTyped ==
  ASSUME TypeOK, NEW g \in Ends, NEW t
  PROVE  InFlight(g, t) \in Seq(Nat) /\ Len(InFlight(g, t)) \in Nat
  <1>1. wire[Side(g)] \in Seq(Frame)
    BY PeerFacts DEF TypeOK
  <1>2. InFlight(g, t) \in Seq(Nat)
    BY <1>1, CarriedTyped DEF InFlight
  <1> QED
    BY <1>2

LEMMA FlightQuiet ==
  ASSUME UNCHANGED wire, NEW g \in Ends, NEW t
  PROVE  InFlight(g, t)' = InFlight(g, t)
  BY DEF InFlight

LEMMA FlightNone ==
  ASSUME TypeOK, NEW g \in Ends, NEW t,
         \A i \in DOMAIN wire[Side(g)] : ~IsFrame(g, t, i)
  PROVE  InFlight(g, t) = <<>>
  <1>1. wire[Side(g)] \in Seq(Frame)
    BY PeerFacts DEF TypeOK
  <1> QED
    BY <1>1, CarriedNone DEF InFlight, IsFrame

(* A send adds its bytes at the end of what is in flight to the peer. *)
LEMMA FlightSend ==
  ASSUME TypeOK, NEW e \in Ends, NEW type \in {"new", "data", "close", "wu"},
         NEW lo \in Nat, NEW n \in Nat, sendFrame(e, type, lo, n),
         NEW g \in Ends, NEW t
  PROVE  /\ g = Peer(e) /\ t = type => InFlight(g, t)' = InFlight(g, t) \o Bytes(lo, n)
         /\ ~(g = Peer(e) /\ t = type) => InFlight(g, t)' = InFlight(g, t)
  <1> DEFINE x == [type |-> type, ch |-> e[2], lo |-> lo, n |-> n]
             s == Other(Side(e))
  <1>1. s \in Sides /\ Side(g) \in Sides /\ s = Side(Peer(e)) /\ Peer(e)[2] = e[2]
        /\ Peer(e) \in Ends /\ x \in Frame
    BY PeerFacts, OtherFacts DEF Frame
  <1>2. wire' = [wire EXCEPT ![s] = Append(wire[s], x)]
    BY DEF sendFrame
  <1>3. x.type = type /\ x.ch = e[2] /\ x.lo = lo /\ x.n = n
    OBVIOUS
  <1> HIDE DEF x
  <1>4. CASE Side(g) # s
    <2>1. wire'[Side(g)] = wire[Side(g)]
      BY <1>1, <1>2, <1>4 DEF TypeOK
    <2> QED
      BY <1>1, <1>4, <2>1 DEF InFlight
  <1>5. CASE Side(g) = s
    <2>1. wire'[Side(g)] = Append(wire[Side(g)], x) /\ wire[Side(g)] \in Seq(Frame)
      BY <1>1, <1>2, <1>5 DEF TypeOK
    <2>2. InFlight(g, t)' = InFlight(g, t) \o Payload(x, g[2], t)
      <3>1. Carried(Append(wire[Side(g)], x), g[2], t) =
              Carried(wire[Side(g)], g[2], t) \o Payload(x, g[2], t)
        BY ZenonT(60), <1>1, <2>1, CarriedAppend
      <3> QED
        BY <2>1, <3>1 DEF InFlight
    <2>3. g = Peer(e) <=> g[2] = e[2]
      BY <1>1, <1>5, SameEnd
    <2>4. InFlight(g, t) \o <<>> = InFlight(g, t)
      <3>1. InFlight(g, t) \in Seq(Nat)
        BY FlightTyped
      <3> QED
        BY <3>1, ConcatEmptySeq
    <2> QED
      BY <1>3, <2>2, <2>3, <2>4 DEF Payload
  <1> QED
    BY <1>4, <1>5

LEMMA FlightData ==
  ASSUME TypeOK, NEW e \in Ends, NEW lo \in Nat, NEW n \in Nat,
         sendFrame(e, "data", lo, n)
  PROVE  /\ InFlight(Peer(e), "data")' = InFlight(Peer(e), "data") \o Bytes(lo, n)
         /\ \A g \in Ends : /\ g # Peer(e) => InFlight(g, "data")' = InFlight(g, "data")
                            /\ InFlight(g, "wu")' = InFlight(g, "wu")
  <1>1. Peer(e) \in Ends
    BY PeerFacts
  <1>2. InFlight(Peer(e), "data")' = InFlight(Peer(e), "data") \o Bytes(lo, n)
    BY <1>1, FlightSend
  <1>3. ASSUME NEW g \in Ends
        PROVE  g # Peer(e) => InFlight(g, "data")' = InFlight(g, "data")
    BY FlightSend
  <1>4. ASSUME NEW g \in Ends
        PROVE  InFlight(g, "wu")' = InFlight(g, "wu")
    BY FlightSend
  <1> QED
    BY <1>2, <1>3, <1>4

LEMMA FlightCredit ==
  ASSUME TypeOK, NEW e \in Ends, NEW lo \in Nat, NEW n \in Nat,
         sendFrame(e, "wu", lo, n)
  PROVE  /\ InFlight(Peer(e), "wu")' = InFlight(Peer(e), "wu") \o Bytes(lo, n)
         /\ \A g \in Ends : /\ g # Peer(e) => InFlight(g, "wu")' = InFlight(g, "wu")
                            /\ InFlight(g, "data")' = InFlight(g, "data")
  <1>1. Peer(e) \in Ends
    BY PeerFacts
  <1>2. InFlight(Peer(e), "wu")' = InFlight(Peer(e), "wu") \o Bytes(lo, n)
    BY <1>1, FlightSend
  <1>3. ASSUME NEW g \in Ends
        PROVE  g # Peer(e) => InFlight(g, "wu")' = InFlight(g, "wu")
    BY FlightSend
  <1>4. ASSUME NEW g \in Ends
        PROVE  InFlight(g, "data")' = InFlight(g, "data")
    BY FlightSend
  <1> QED
    BY <1>2, <1>3, <1>4

(* The readLoop takes the first bytes of what is in flight to its end. *)
LEMMA FlightRead ==
  ASSUME TypeOK, TypeOK', NEW s \in Sides, wire[s] # <<>>, ReadFrame(s),
         NEW g \in Ends, NEW t
  PROVE  /\ g = For(s) /\ t = Head(wire[s]).type =>
              InFlight(g, t) = Bytes(Head(wire[s]).lo, Head(wire[s]).n) \o InFlight(g, t)'
         /\ ~(g = For(s) /\ t = Head(wire[s]).type) => InFlight(g, t)' = InFlight(g, t)
  <1>1. /\ Side(g) \in Sides /\ For(s) \in Ends /\ Side(For(s)) = s
        /\ For(s)[2] = wire[s][1].ch /\ Head(wire[s]) = wire[s][1]
    BY PeerFacts, ForFacts
  <1>2. CASE Side(g) # s
    <2>1. wire'[Side(g)] = wire[Side(g)]
      BY <1>1, <1>2, SMTT(60) DEF TypeOK, ReadFrame
    <2> QED
      BY <1>1, <1>2, <2>1 DEF InFlight
  <1>3. CASE Side(g) = s
    <2>1. /\ wire'[Side(g)] = Tail(wire[Side(g)]) /\ wire[Side(g)] \in Seq(Frame)
          /\ wire[Side(g)] # <<>> /\ wire[Side(g)][1] = Head(wire[s])
      BY <1>1, <1>3 DEF TypeOK, ReadFrame
    <2>2. InFlight(g, t) = Payload(Head(wire[s]), g[2], t) \o InFlight(g, t)'
      <3>1. Carried(wire[Side(g)], g[2], t) = Payload(wire[Side(g)][1], g[2], t)
              \o Carried(Tail(wire[Side(g)]), g[2], t)
        BY <2>1, CarriedTail
      <3> QED
        BY <2>1, <3>1 DEF InFlight
    <2>3. g = For(s) <=> g[2] = Head(wire[s]).ch
      BY <1>1, <1>3, SameEnd
    <2>4. <<>> \o InFlight(g, t)' = InFlight(g, t)'
      <3>1. wire'[Side(g)] \in Seq(Frame)
        BY <1>1 DEF TypeOK
      <3>2. InFlight(g, t)' \in Seq(Nat)
        BY <3>1, CarriedTyped DEF InFlight
      <3> QED
        BY <3>2, ConcatEmptySeq
    <2> QED
      BY <2>2, <2>3, <2>4 DEF Payload
  <1> QED
    BY <1>2, <1>3

-----------------------------------------------------------------------------
(* Credit is conserved. *)

(* Until its Relay runs, an end has sent nothing. *)
Silent == \A e \in Ends : wpc[e] \in {"off", "open", "dial"} => sent[e] = 0

LEMMA SilentStep ==
  ASSUME TypeOK, Opening, Silent, [Next]_vars
  PROVE  Silent'
  <1> USE DEF TypeOK, Silent, wvars, rvars
  <1>1. CASE UNCHANGED vars
    BY <1>1 DEF vars
  <1>2. ASSUME NEW e \in Ends, OpenRegister(e) \/ Writer(e)
        PROVE  Silent'
    <2>1. CASE WriteSend(e)
      BY <2>1 DEF WriteSend
    <2>2. CASE ~WriteSend(e)
      <3>1. sent' = sent
        BY <1>2, <2>2 DEF Writer, OpenRegister, OpenSend, DialOk, DialFail, SrcRead,
           SrcEnd, WriteEnter, WriteRefused, WriteAbort, WriteWait, WriteReserve,
           CloseWrite, CloseWriteNoop, CloseWriteSend
      <3>2. \A f \in Ends : wpc'[f] \in {"off", "open", "dial"} =>
                              wpc[f] \in {"off", "open", "dial"}
        BY <1>2, <2>2, SMTT(60) DEF Writer, OpenRegister, OpenSend, DialOk, DialFail, SrcRead,
           SrcEnd, WriteEnter, WriteRefused, WriteAbort, WriteWait, WriteReserve,
           CloseWrite, CloseWriteNoop, CloseWriteSend
      <3> QED
        BY <3>1, <3>2
    <2> QED
      BY <2>1, <2>2
  <1>3. ASSUME NEW e \in Ends, Reader(e) \/ Closer(e)
        PROVE  Silent'
    BY <1>3 DEF Reader, Closer, ReadTake, ReadCredit, ReadEnd, ReadWait, SinkWrite,
       SinkFail, CloseBegin, CloseWakeReader, CloseWakeWriter, removeChannel, CloseSend,
       WakeWriter
  <1>4. ASSUME NEW s \in Sides, handleFrame(s)
        PROVE  Silent'
    <2>0. wire[s] # <<>>
      BY <1>4 DEF handleFrame, Arrives, DropUnmapped, handleNewChannel, pushData,
             pushDataOverflow, handleChannelClose, handleWindowUpdate
    <2>1. PICK r \in Ends : r = For(s)
      BY <2>0, ForFacts
    <2>2. CASE handleNewChannel(s)
      <3>1. IsFrame(r, "new", 1) /\ 1 \in DOMAIN wire[Side(r)]
        BY <2>0, <2>1, <2>2, ForFacts DEF handleNewChannel, Arrives, IsFrame
      <3>2. wpc[r] = "off"
        BY <3>1 DEF Opening, Announced
      <3> QED
        BY <2>1, <2>2, <3>2 DEF handleNewChannel
    <2>3. CASE ~handleNewChannel(s)
      BY <1>4, <2>1, <2>3, SMTT(60) DEF handleFrame, DropUnmapped, pushData, pushDataOverflow,
         handleChannelClose, handleWindowUpdate, WakeWriter
    <2> QED
      BY <2>2, <2>3
  <1> QED
    BY <1>1, <1>2, <1>3, <1>4 DEF Next

(* The account of a writer's credit. *)
Account(e) ==
  sendWindow[e] + chunk[e] + Len(InFlight(Peer(e), "data"))
    + Len(rb[Peer(e)]) + got[Peer(e)] + Len(InFlight(e, "wu"))

LEMMA AccountTyped ==
  ASSUME TypeOK, NEW e \in Ends
  PROVE  /\ sendWindow[e] \in Nat /\ chunk[e] \in Nat /\ got[e] \in Nat
         /\ rb[e] \in Seq(Nat) /\ Len(rb[e]) \in Nat
         /\ Len(InFlight(e, "data")) \in Nat /\ Len(InFlight(e, "wu")) \in Nat
  <1>1. /\ sendWindow[e] \in Nat /\ chunk[e] \in Nat /\ got[e] \in Nat
        /\ rb[e] \in Seq(Nat)
    BY DEF TypeOK
  <1> QED
    BY <1>1, FlightTyped

LEMMA BalancedStep ==
  ASSUME Steady, CreditConserved,
         \A e \in Ends : ~Gone(e) /\ ~Gone(Peer(e)) => Account(e)' = Account(e)
  PROVE  CreditConserved'
  <1> SUFFICES ASSUME NEW e \in Ends,
                      {closing'[e], closing'[Peer(e)]} \cap {"send", "done"} = {}
               PROVE  Account(e)' = DefaultSendWindow[Side(e)]
    BY DEF CreditConserved, Account
  <1>1. Peer(e) \in Ends
    BY PeerFacts
  <1>2. ~Gone(e)' /\ ~Gone(Peer(e))'
    BY DEF Gone
  <1>3. ~Gone(e) /\ ~Gone(Peer(e))
    BY <1>1, <1>2 DEF Steady
  <1>4. {closing[e], closing[Peer(e)]} \cap {"send", "done"} = {}
    BY <1>3 DEF Gone
  <1>5. Account(e) = DefaultSendWindow[Side(e)]
    BY <1>4 DEF CreditConserved, Account
  <1> QED
    BY <1>3, <1>5

(* A step that moves neither data nor credit. *)
LEMMA BalancedQuiet ==
  ASSUME Steady, CreditConserved, UNCHANGED <<sendWindow, chunk, rb, got>>,
         \A g \in Ends : \A t \in {"data", "wu"} : InFlight(g, t)' = InFlight(g, t)
  PROVE  CreditConserved'
  <1>1. \A e \in Ends : Peer(e) \in Ends
    BY PeerFacts
  <1>2. \A e \in Ends : Account(e)' = Account(e)
    BY <1>1 DEF Account
  <1> QED
    BY <1>2, BalancedStep

LEMMA BalancedWriter ==
  ASSUME TypeOK, Reserved, CreditConserved, Steady, NEW f \in Ends,
         OpenRegister(f) \/ Writer(f)
  PROVE  CreditConserved'
  <1>0. \A e \in Ends : /\ Peer(e) \in Ends /\ Peer(Peer(e)) = e
                        /\ sendWindow[e] \in Nat /\ chunk[e] \in Nat /\ got[e] \in Nat
                        /\ Len(rb[e]) \in Nat /\ Len(InFlight(e, "data")) \in Nat
                        /\ Len(InFlight(e, "wu")) \in Nat
    BY PeerFacts, AccountTyped
  <1>1. CASE WriteReserve(f)
    <2>1. /\ UNCHANGED <<rb, got, wire>> /\ chunk[f] = 0
          /\ chunk' = [chunk EXCEPT ![f] = ChunkLen(f)]
          /\ sendWindow' = [sendWindow EXCEPT ![f] = sendWindow[f] - ChunkLen(f)]
      BY <1>1 DEF WriteReserve, Reserved, rvars
    <2>2. ChunkLen(f) \in Nat
      BY <1>0 DEF ChunkLen, TypeOK
    <2>3. \A e \in Ends : sendWindow'[e] + chunk'[e] = sendWindow[e] + chunk[e]
      <3>1. sendWindow'[f] = sendWindow[f] - ChunkLen(f) /\ chunk'[f] = ChunkLen(f)
        BY <2>1 DEF TypeOK
      <3>2. \A e \in Ends : e # f => sendWindow'[e] = sendWindow[e] /\ chunk'[e] = chunk[e]
        BY <2>1 DEF TypeOK
      <3>3. sendWindow'[f] + chunk'[f] = sendWindow[f] + chunk[f]
        BY <1>0, <2>1, <2>2, <3>1
      <3> QED
        BY <3>2, <3>3
    <2>4. \A e \in Ends, t \in {"data", "wu"} : InFlight(e, t)' = InFlight(e, t)
      BY <2>1, FlightQuiet
    <2>5. \A e \in Ends : Account(e)' = Account(e)
      BY <1>0, <2>1, <2>3, <2>4 DEF Account
    <2> QED
      BY <2>5, BalancedStep
  <1>2. CASE WriteSend(f)
    <2>1. /\ UNCHANGED <<rb, got, sendWindow>>
          /\ chunk' = [chunk EXCEPT ![f] = 0]
          /\ sendFrame(f, "data", sent[f], chunk[f])
      BY <1>2 DEF WriteSend, rvars
    <2>2. sent[f] \in Nat /\ chunk[f] \in Nat
      BY DEF TypeOK
    <2>3. /\ InFlight(Peer(f), "data")' = InFlight(Peer(f), "data") \o Bytes(sent[f], chunk[f])
          /\ \A g \in Ends : /\ g # Peer(f) => InFlight(g, "data")' = InFlight(g, "data")
                             /\ InFlight(g, "wu")' = InFlight(g, "wu")
      BY <2>1, <2>2, FlightData
    <2>4. Len(InFlight(Peer(f), "data")') = Len(InFlight(Peer(f), "data")) + chunk[f]
      <3>1. PICK q \in Seq(Nat) : q = InFlight(Peer(f), "data")
        BY <1>0, FlightTyped
      <3>2. Len(q \o Bytes(sent[f], chunk[f])) = Len(q) + chunk[f]
        BY <2>2, PushFacts
      <3>3. InFlight(Peer(f), "data")' = q \o Bytes(sent[f], chunk[f])
        BY <2>3, <3>1
      <3> QED
        BY <3>1, <3>2, <3>3
    <2>5. chunk'[f] = 0 /\ \A e \in Ends : e # f => chunk'[e] = chunk[e] /\ Peer(e) # Peer(f)
      BY <1>0, <2>1 DEF TypeOK
    <2>6. ASSUME NEW e \in Ends PROVE Account(e)' = Account(e)
      <3>1. CASE e = f
        <4>1. /\ sendWindow'[f] = sendWindow[f] /\ chunk'[f] = 0
              /\ rb'[Peer(f)] = rb[Peer(f)] /\ got'[Peer(f)] = got[Peer(f)]
              /\ InFlight(f, "wu")' = InFlight(f, "wu")
          BY <2>1, <2>3, <2>5
        <4>2. /\ sendWindow[f] \in Nat /\ chunk[f] \in Nat /\ Len(rb[Peer(f)]) \in Nat
              /\ got[Peer(f)] \in Nat /\ Len(InFlight(Peer(f), "data")) \in Nat
              /\ Len(InFlight(f, "wu")) \in Nat
          BY <1>0
        <4>3. Account(f)' = Account(f)
          BY <2>4, <4>1, <4>2 DEF Account
        <4> QED
          BY <3>1, <4>3
      <3>2. CASE e # f
        BY <1>0, <2>1, <2>3, <2>5, <3>2 DEF Account
      <3> QED
        BY <3>1, <3>2
    <2> QED
      BY <2>6, BalancedStep
  <1>3. CASE OpenSend(f)
    <2>1. sendFrame(f, "new", 0, 0) /\ UNCHANGED <<sendWindow, chunk, rb, got>>
      BY <1>3 DEF OpenSend
    <2>2. \A g \in Ends : \A t \in {"data", "wu"} : InFlight(g, t)' = InFlight(g, t)
      BY <2>1, FlightSend
    <2> QED
      BY <2>1, <2>2, BalancedQuiet
  <1>4. CASE CloseWriteSend(f)
    <2>1. /\ sendFrame(f, "close", sent[f], 0) /\ sent[f] \in Nat
          /\ UNCHANGED <<sendWindow, chunk, rb, got>>
      BY <1>4 DEF CloseWriteSend, rvars, TypeOK
    <2>2. \A g \in Ends : \A t \in {"data", "wu"} : InFlight(g, t)' = InFlight(g, t)
      BY <2>1, FlightSend
    <2> QED
      BY <2>1, <2>2, BalancedQuiet
  <1>5. CASE UNCHANGED <<sendWindow, chunk, rb, got, wire>>
    BY <1>5, FlightQuiet, BalancedQuiet
  <1>6. \/ WriteReserve(f) \/ WriteSend(f) \/ OpenSend(f) \/ CloseWriteSend(f)
        \/ UNCHANGED <<sendWindow, chunk, rb, got, wire>>
    BY DEF Writer, OpenRegister, DialOk, DialFail, SrcRead, SrcEnd, WriteEnter,
       WriteRefused, WriteAbort, WriteWait, CloseWrite, CloseWriteNoop, rvars
  <1> QED
    BY <1>1, <1>2, <1>3, <1>4, <1>5, <1>6

LEMMA BalancedReader ==
  ASSUME TypeOK, Reserved, CreditConserved, Steady, NEW r \in Ends,
         Reader(r) \/ Closer(r)
  PROVE  CreditConserved'
  <1>0. \A e \in Ends : /\ Peer(e) \in Ends /\ Peer(Peer(e)) = e
                        /\ sendWindow[e] \in Nat /\ chunk[e] \in Nat /\ got[e] \in Nat
                        /\ Len(rb[e]) \in Nat /\ Len(InFlight(e, "data")) \in Nat
                        /\ Len(InFlight(e, "wu")) \in Nat
    BY PeerFacts, AccountTyped
  <1>1. CASE ReadTake(r)
    <2>1. /\ UNCHANGED <<sendWindow, chunk, wire>> /\ got[r] = 0 /\ rb[r] # <<>>
          /\ rb' = [rb EXCEPT ![r] = Rest(r, TakeLen(r))]
          /\ got' = [got EXCEPT ![r] = TakeLen(r)]
      BY <1>1 DEF ReadTake, Reserved, wvars
    <2>2. TakeLen(r) \in Nat /\ Len(Rest(r, TakeLen(r))) = Len(rb[r]) - TakeLen(r)
      BY <2>1, TakeFacts
    <2>3. /\ rb'[r] = Rest(r, TakeLen(r)) /\ got'[r] = TakeLen(r)
          /\ \A e \in Ends : e # r => rb'[e] = rb[e] /\ got'[e] = got[e]
      BY <2>1 DEF TypeOK
    <2>4. \A e \in Ends : Len(rb'[e]) + got'[e] = Len(rb[e]) + got[e]
                          /\ Len(rb'[e]) \in Nat /\ got'[e] \in Nat
      <3>1. Len(rb'[r]) = Len(rb[r]) - TakeLen(r)
        BY <2>2, <2>3
      <3>2. TakeLen(r) \in 1..Len(rb[r])
        BY <2>1, TakeFacts
      <3>3. /\ Len(rb'[r]) + got'[r] = Len(rb[r]) + got[r]
            /\ Len(rb'[r]) \in Nat /\ got'[r] \in Nat
        BY <1>0, <2>1, <2>3, <3>1, <3>2
      <3> QED
        BY <1>0, <2>3, <3>3
    <2>5. \A e \in Ends, t \in {"data", "wu"} : InFlight(e, t)' = InFlight(e, t)
      BY <2>1, FlightQuiet
    <2>6. ASSUME NEW e \in Ends PROVE Account(e)' = Account(e)
      <3>1. /\ Len(rb'[Peer(e)]) + got'[Peer(e)] = Len(rb[Peer(e)]) + got[Peer(e)]
            /\ Len(rb'[Peer(e)]) \in Nat /\ got'[Peer(e)] \in Nat
        BY <1>0, <2>4
      <3>2. /\ InFlight(Peer(e), "data")' = InFlight(Peer(e), "data")
            /\ InFlight(e, "wu")' = InFlight(e, "wu")
            /\ sendWindow'[e] = sendWindow[e] /\ chunk'[e] = chunk[e]
        BY <1>0, <2>1, <2>5
      <3>3. /\ sendWindow[e] \in Nat /\ chunk[e] \in Nat /\ Len(rb[Peer(e)]) \in Nat
            /\ got[Peer(e)] \in Nat /\ Len(InFlight(Peer(e), "data")) \in Nat
            /\ Len(InFlight(e, "wu")) \in Nat
        BY <1>0
      <3>4. Account(e)' = sendWindow'[e] + chunk'[e] + Len(InFlight(Peer(e), "data")')
                            + Len(rb'[Peer(e)]) + got'[Peer(e)] + Len(InFlight(e, "wu")')
        BY DEF Account
      <3>5. Account(e) = sendWindow[e] + chunk[e] + Len(InFlight(Peer(e), "data"))
                           + Len(rb[Peer(e)]) + got[Peer(e)] + Len(InFlight(e, "wu"))
        BY DEF Account
      <3>6. PICK a \in Nat, b \in Nat, x \in Nat, y \in Nat :
              /\ a = Len(rb[Peer(e)]) /\ b = Len(rb'[Peer(e)])
              /\ x = Len(InFlight(Peer(e), "data")) /\ y = Len(InFlight(e, "wu"))
        BY <3>1, <3>3
      <3>7. Account(e)' = sendWindow[e] + chunk[e] + x + b + got'[Peer(e)] + y
        BY <3>2, <3>4, <3>6
      <3>8. Account(e) = sendWindow[e] + chunk[e] + x + a + got[Peer(e)] + y
        BY <3>5, <3>6
      <3>9. b + got'[Peer(e)] = a + got[Peer(e)] /\ got'[Peer(e)] \in Nat
        BY <3>1, <3>6
      <3>10. PICK g \in Nat, h \in Nat, u \in Nat, c \in Nat :
               /\ g = got[Peer(e)] /\ h = got'[Peer(e)]
               /\ u = sendWindow[e] /\ c = chunk[e]
        BY <3>3, <3>9
      <3>11. /\ Account(e)' = u + c + x + b + h + y
             /\ Account(e) = u + c + x + a + g + y /\ b + h = a + g
        BY <3>7, <3>8, <3>9, <3>10
      <3> QED
        BY <3>11
    <2> QED
      BY <2>6, BalancedStep
  <1>2. CASE ReadCredit(r)
    <2>1. /\ UNCHANGED <<rb, chunk, sendWindow>>
          /\ got' = [got EXCEPT ![r] = 0]
          /\ sendFrame(r, "wu", consumed[r] - got[r], got[r])
      BY <1>2 DEF ReadCredit, wvars, WindowDelta
    <2>2. consumed[r] - got[r] \in Nat /\ got[r] \in Nat
      BY DEF TypeOK, Reserved
    <2>3. /\ InFlight(Peer(r), "wu")' = InFlight(Peer(r), "wu") \o Bytes(consumed[r] - got[r], got[r])
          /\ \A g \in Ends : /\ g # Peer(r) => InFlight(g, "wu")' = InFlight(g, "wu")
                             /\ InFlight(g, "data")' = InFlight(g, "data")
      BY <2>1, <2>2, FlightCredit
    <2>4. Len(InFlight(Peer(r), "wu")') = Len(InFlight(Peer(r), "wu")) + got[r]
      <3>1. PICK q \in Seq(Nat) : q = InFlight(Peer(r), "wu")
        BY <1>0, FlightTyped
      <3>2. Len(q \o Bytes(consumed[r] - got[r], got[r])) = Len(q) + got[r]
        BY <2>2, PushFacts
      <3>3. InFlight(Peer(r), "wu")' = q \o Bytes(consumed[r] - got[r], got[r])
        BY <2>3, <3>1
      <3> QED
        BY <3>1, <3>2, <3>3
    <2>5. got'[r] = 0 /\ \A e \in Ends : e # r => got'[e] = got[e]
      BY <2>1 DEF TypeOK
    <2>6. ASSUME NEW e \in Ends PROVE Account(e)' = Account(e)
      <3>1. CASE e = Peer(r)
        <4>0. Peer(e) = r
          BY <1>0, <3>1
        <4>1. /\ sendWindow'[e] = sendWindow[e] /\ chunk'[e] = chunk[e]
              /\ rb'[r] = rb[r] /\ got'[r] = 0
              /\ InFlight(r, "data")' = InFlight(r, "data")
          BY <2>1, <2>3, <2>5
        <4>2. /\ sendWindow[e] \in Nat /\ chunk[e] \in Nat /\ Len(rb[r]) \in Nat
              /\ got[r] \in Nat /\ Len(InFlight(r, "data")) \in Nat
              /\ Len(InFlight(e, "wu")) \in Nat
          BY <1>0
        <4>3. Len(InFlight(e, "wu")') = Len(InFlight(e, "wu")) + got[r]
          BY <2>4, <3>1
        <4>4. Account(e)' = sendWindow'[e] + chunk'[e] + Len(InFlight(r, "data")')
                              + Len(rb'[r]) + got'[r] + Len(InFlight(e, "wu")')
          BY <4>0 DEF Account
        <4>5. Account(e) = sendWindow[e] + chunk[e] + Len(InFlight(r, "data"))
                             + Len(rb[r]) + got[r] + Len(InFlight(e, "wu"))
          BY <4>0 DEF Account
        <4> QED
          BY SMTT(60), <4>1, <4>2, <4>3, <4>4, <4>5
      <3>2. CASE e # Peer(r)
        <4>0. Peer(e) # r
          BY <1>0, <3>2
        <4> QED
          BY <1>0, <2>1, <2>3, <2>5, <3>2, <4>0 DEF Account
      <3> QED
        BY <3>1, <3>2
    <2> QED
      BY <2>6, BalancedStep
  <1>3. CASE CloseSend(r)
    <2>1. /\ sendFrame(r, "close", sent[r], 0) /\ sent[r] \in Nat
          /\ UNCHANGED <<sendWindow, chunk, rb, got>>
      BY <1>3 DEF CloseSend, rvars, wvars, TypeOK
    <2>2. \A g \in Ends : \A t \in {"data", "wu"} : InFlight(g, t)' = InFlight(g, t)
      BY <2>1, FlightSend
    <2> QED
      BY <2>1, <2>2, BalancedQuiet
  <1>4. CASE UNCHANGED <<sendWindow, chunk, rb, got, wire>>
    BY <1>4, FlightQuiet, BalancedQuiet
  <1>5. \/ ReadTake(r) \/ ReadCredit(r) \/ CloseSend(r)
        \/ UNCHANGED <<sendWindow, chunk, rb, got, wire>>
    BY DEF Reader, Closer, ReadEnd, ReadWait, SinkWrite, SinkFail, CloseBegin,
       CloseWakeReader, CloseWakeWriter, removeChannel, rvars, wvars
  <1> QED
    BY <1>1, <1>2, <1>3, <1>4, <1>5

(* A frame that is dropped is addressed to an end that Close has taken out *)
(* of the map, or carries nothing.                                         *)
LEMMA DroppedFrame ==
  ASSUME TypeOK, FlowInv, Lives, Delivery, Silent, NEW s \in Sides, DropUnmapped(s),
         NEW r \in Ends, r = For(s)
  PROVE  /\ Head(wire[s]).type = "data" => Gone(r)
         /\ Head(wire[s]).type = "wu" => Gone(r) \/ Head(wire[s]).n = 0
  <1>0. wire[s] # <<>> /\ ~mapped[r]
    BY DEF DropUnmapped
  <1>1. /\ Side(r) = s /\ 1 \in DOMAIN wire[Side(r)] /\ Head(wire[s]) = wire[s][1]
        /\ Head(wire[s]).ch = r[2]
        /\ Head(wire[s]).lo \in Nat /\ Head(wire[s]).n \in Nat
        /\ Hi(r, 1) = Head(wire[s]).lo + Head(wire[s]).n
    BY <1>0, ForFacts DEF Frame, Hi
  <1>2. \A t : Head(wire[s]).type = t => IsFrame(r, t, 1)
    BY <1>1 DEF IsFrame
  <1>3. wpc[r] = "off" \/ Gone(r)
    BY <1>0 DEF Lives, Life
  <1>4. ASSUME Head(wire[s]).type = "data" PROVE Gone(r)
    BY <1>1, <1>2, <1>3, <1>4, NextInLine
  <1>5. ASSUME Head(wire[s]).type = "wu", wpc[r] = "off"
        PROVE  Head(wire[s]).n = 0
    <2>1. Peer(r) \in Ends /\ Peer(Peer(r)) = r
      BY PeerFacts
    <2>2. Hi(r, 1) <= Granted(Peer(r))
      BY <1>1, <1>2, <1>5 DEF FlowInv, WindowInv, CreditOnWire
    <2>3. Received(Peer(r)) <= sent[r] /\ sent[r] = 0
      BY <1>5, <2>1 DEF FlowInv, WindowInv, ReceivedBound, Silent
    <2>4. /\ consumed[Peer(r)] \in Nat /\ got[Peer(r)] \in Nat /\ Len(rb[Peer(r)]) \in Nat
      BY <2>1, AccountTyped DEF TypeOK
    <2>5. Hi(r, 1) <= 0
      <3>1. Granted(Peer(r)) <= 0
        BY <2>3, <2>4 DEF Granted, Received
      <3>2. Hi(r, 1) \in Nat /\ Granted(Peer(r)) \in Int
        BY <1>1, <2>4, SMTT(60) DEF Granted
      <3> QED
        BY <2>2, <3>1, <3>2
    <2> QED
      BY <1>1, <2>5
  <1> QED
    BY <1>3, <1>4, <1>5

LEMMA BalancedHandler ==
  ASSUME FitsReceiveBuffer, TypeOK, TypeOK', FlowInv, Lives, Delivery, Silent,
         CreditConserved, Steady, NEW s \in Sides, handleFrame(s)
  PROVE  CreditConserved'
  <1>0. wire[s] # <<>> /\ ReadFrame(s)
    BY DEF handleFrame, Arrives, DropUnmapped, handleNewChannel, pushData,
           pushDataOverflow, handleChannelClose, handleWindowUpdate
  <1>1. PICK r \in Ends : r = For(s)
    BY <1>0, ForFacts
  <1>2. PICK lo \in Nat, n \in Nat : lo = Head(wire[s]).lo /\ n = Head(wire[s]).n
    BY <1>0, ForFacts DEF Frame
  <1>3. /\ \A e \in Ends : Peer(e) \in Ends /\ Peer(Peer(e)) = e
        /\ UNCHANGED <<chunk, got>>
    BY PeerFacts DEF handleFrame, DropUnmapped, handleNewChannel, pushData,
           pushDataOverflow, handleChannelClose, handleWindowUpdate, rvars, wvars
  (* What is in flight changes for the end and the type of the frame only. *)
  <1>4. \A g \in Ends, t \in {"data", "wu"} :
          ~(g = r /\ t = Head(wire[s]).type) => InFlight(g, t)' = InFlight(g, t)
    BY <1>0, <1>1, FlightRead
  <1>5. \A t \in {"data", "wu"} :
          t = Head(wire[s]).type => Len(InFlight(r, t)) = n + Len(InFlight(r, t)')
    <2> SUFFICES ASSUME NEW t \in {"data", "wu"}, t = Head(wire[s]).type
                 PROVE  Len(InFlight(r, t)) = n + Len(InFlight(r, t)')
      OBVIOUS
    <2>1. InFlight(r, t) = Bytes(lo, n) \o InFlight(r, t)'
      BY <1>0, <1>1, <1>2, FlightRead
    <2>2. wire'[Side(r)] \in Seq(Frame)
      BY PeerFacts DEF TypeOK
    <2>3. InFlight(r, t)' \in Seq(Nat)
      BY <2>2, CarriedTyped DEF InFlight
    <2>4. PICK q \in Seq(Nat) : q = InFlight(r, t)'
      BY <2>3
    <2>5. Bytes(lo, n) \in Seq(Nat) /\ Len(Bytes(lo, n)) = n
      BY DEF Bytes
    <2>6. Len(Bytes(lo, n) \o q) = n + Len(q)
      BY <2>5, ConcatProperties
    <2> QED
      BY <2>1, <2>4, <2>6
  <1>6. /\ \A e \in Ends : /\ sendWindow[e] \in Nat /\ chunk[e] \in Nat /\ got[e] \in Nat
                           /\ Len(rb[e]) \in Nat /\ Len(InFlight(e, "data")) \in Nat
                           /\ Len(InFlight(e, "wu")) \in Nat
        /\ \A e \in Ends : Len(InFlight(e, "data")') \in Nat /\ Len(InFlight(e, "wu")') \in Nat
    <2>1. ASSUME NEW e \in Ends, NEW t PROVE Len(InFlight(e, t)') \in Nat
      <3>1. wire'[Side(e)] \in Seq(Frame)
        BY PeerFacts DEF TypeOK
      <3>2. InFlight(e, t)' \in Seq(Nat)
        BY <3>1, CarriedTyped DEF InFlight
      <3> QED
        BY <3>2
    <2> QED
      BY <2>1, AccountTyped
  <1> DEFINE Sum(e) == sendWindow[e] + chunk[e] + Len(InFlight(Peer(e), "data"))
                         + Len(rb[Peer(e)]) + got[Peer(e)] + Len(InFlight(e, "wu"))
             Sum2(e) == sendWindow'[e] + chunk[e] + Len(InFlight(Peer(e), "data")')
                         + Len(rb'[Peer(e)]) + got[Peer(e)] + Len(InFlight(e, "wu")')
  <1>7. \A e \in Ends : Account(e) = Sum(e) /\ Account(e)' = Sum2(e)
    BY <1>3 DEF Account
  <1>8. CASE Head(wire[s]).type = "data" /\ mapped[r]
    <2>1. CASE pushData(s)
      <3>1. sendWindow' = sendWindow /\ rb' = [rb EXCEPT ![r] = rb[r] \o Bytes(lo, n)]
        BY <1>1, <1>2, <2>1 DEF pushData
      <3>2. Len(rb'[r]) = Len(rb[r]) + n /\ \A e \in Ends : e # r => rb'[e] = rb[e]
        <4>1. rb[r] \in Seq(Nat) /\ rb \in [Ends -> Seq(Nat)]
          BY DEF TypeOK
        <4>2. rb'[r] = rb[r] \o Bytes(lo, n) /\ \A e \in Ends : e # r => rb'[e] = rb[e]
          BY <3>1, <4>1
        <4>3. Len(rb[r] \o Bytes(lo, n)) = Len(rb[r]) + n
          BY <4>1, PushFacts
        <4> QED
          BY <4>2, <4>3
      <3>3. ASSUME NEW e \in Ends PROVE Account(e)' = Account(e)
        <4>1. CASE Peer(e) = r
          <5>1. Len(InFlight(r, "data")) = n + Len(InFlight(r, "data")')
            BY <1>5, <1>8
          <5>2. InFlight(e, "wu")' = InFlight(e, "wu") /\ sendWindow'[e] = sendWindow[e]
            BY <1>4, <1>8, <3>1
          <5>3. /\ sendWindow[e] \in Nat /\ chunk[e] \in Nat /\ Len(InFlight(r, "data")') \in Nat
                /\ Len(rb[r]) \in Nat /\ got[r] \in Nat /\ Len(InFlight(e, "wu")) \in Nat
            BY <1>6
          <5>4. /\ Account(e) = sendWindow[e] + chunk[e] + Len(InFlight(r, "data"))
                         + Len(rb[r]) + got[r] + Len(InFlight(e, "wu"))
                /\ Account(e)' = sendWindow'[e] + chunk[e] + Len(InFlight(r, "data")')
                         + Len(rb'[r]) + got[r] + Len(InFlight(e, "wu")')
            BY <1>7, <4>1
          <5>5. Account(e)' = Account(e)
            <6>1. PICK a \in Nat, x \in Nat, y \in Nat :
                    /\ a = Len(rb[r]) /\ x = Len(InFlight(r, "data")')
                    /\ y = Len(InFlight(e, "wu"))
              BY <5>3
            <6>2. Account(e) = sendWindow[e] + chunk[e] + (n + x) + a + got[r] + y
              BY <5>1, <5>4, <6>1
            <6>3. Account(e)' = sendWindow[e] + chunk[e] + x + (a + n) + got[r] + y
              BY <3>2, <5>2, <5>4, <6>1
            <6> QED
              BY <5>3, <6>2, <6>3
          <5> QED
            BY <5>5
        <4>2. CASE Peer(e) # r
          BY <1>3, <1>4, <1>7, <1>8, <3>1, <3>2, <4>2
        <4> QED
          BY <4>1, <4>2
      <3> QED
        BY <3>3, BalancedStep
    <2> QED
      BY <1>1, <1>8, <2>1, AlwaysFits DEF handleFrame, DropUnmapped, handleNewChannel,
         handleChannelClose, handleWindowUpdate, Arrives
  <1>9. CASE Head(wire[s]).type = "wu" /\ mapped[r]
    <2>1. rb' = rb /\ sendWindow' = [sendWindow EXCEPT ![r] = sendWindow[r] + n]
      BY <1>1, <1>2, <1>9 DEF handleFrame, DropUnmapped, handleNewChannel, pushData,
         pushDataOverflow, handleChannelClose, handleWindowUpdate, Arrives
    <2>2. /\ sendWindow'[r] = sendWindow[r] + n
          /\ \A e \in Ends : e # r => sendWindow'[e] = sendWindow[e]
      BY <2>1 DEF TypeOK
    <2>3. ASSUME NEW e \in Ends PROVE Account(e)' = Account(e)
      <3>1. CASE e = r
        <4>1. Len(InFlight(r, "wu")) = n + Len(InFlight(r, "wu")')
          BY <1>5, <1>9
        <4>2. InFlight(Peer(r), "data")' = InFlight(Peer(r), "data")
          BY <1>3, <1>4, <1>9
        <4>3. /\ sendWindow[r] \in Nat /\ chunk[r] \in Nat /\ Len(rb[Peer(r)]) \in Nat
              /\ Len(InFlight(Peer(r), "data")) \in Nat /\ got[Peer(r)] \in Nat
              /\ Len(InFlight(r, "wu")') \in Nat
          BY <1>3, <1>6
        <4>4. /\ Account(r) = Sum(r) /\ Account(r)' = Sum2(r) /\ rb'[Peer(r)] = rb[Peer(r)]
          BY <1>7, <2>1
        <4>5. Account(r)' = Account(r)
          <5>1. PICK a \in Nat, x \in Nat, y \in Nat, w \in Nat, k \in Nat, g \in Nat :
                  /\ a = Len(rb[Peer(r)]) /\ x = Len(InFlight(Peer(r), "data"))
                  /\ y = Len(InFlight(r, "wu")')
                  /\ w = sendWindow[r] /\ k = chunk[r] /\ g = got[Peer(r)]
            BY <4>3
          <5>2. Account(r) = w + k + x + a + g + (n + y)
            BY <4>1, <4>4, <5>1
          <5>3. Account(r)' = (w + n) + k + x + a + g + y
            BY <2>2, <4>2, <4>4, <5>1
          <5>4. w + k + x + a + g + (n + y) = (w + n) + k + x + a + g + y
            OBVIOUS
          <5> QED
            BY <5>2, <5>3, <5>4
        <4> QED
          BY <3>1, <4>5
      <3>2. CASE e # r
        BY <1>3, <1>4, <1>7, <1>9, <2>1, <2>2, <3>2
      <3> QED
        BY <3>1, <3>2
    <2> QED
      BY <2>3, BalancedStep
  <1>10. CASE ~mapped[r] /\ Head(wire[s]).type # "new"
    <2>1. DropUnmapped(s) /\ UNCHANGED <<sendWindow, rb>>
      BY <1>1, <1>10 DEF handleFrame, DropUnmapped, handleNewChannel, pushData,
         pushDataOverflow, handleChannelClose, handleWindowUpdate, Arrives
    <2>2. ASSUME NEW e \in Ends, ~Gone(e), ~Gone(Peer(e)) PROVE Account(e)' = Account(e)
      <3>1. ASSUME NEW g \in Ends, NEW t \in {"data", "wu"}, ~Gone(g)
            PROVE  Len(InFlight(g, t)') = Len(InFlight(g, t))
        <4>1. CASE g = r /\ t = Head(wire[s]).type
          <5>1. n = 0
            BY <1>1, <1>2, <2>1, <3>1, <4>1, DroppedFrame
          <5>2. Len(InFlight(g, t)) = 0 + Len(InFlight(g, t)') /\ Len(InFlight(g, t)') \in Nat
            BY <1>5, <1>6, <4>1, <5>1
          <5> QED
            BY <5>2
        <4>2. CASE ~(g = r /\ t = Head(wire[s]).type)
          BY <1>4, <4>2
        <4> QED
          BY <4>1, <4>2
      <3> QED
        BY <1>3, <1>7, <2>1, <2>2, <3>1
    <2> QED
      BY <2>2, BalancedStep
  <1>11. CASE Head(wire[s]).type \in {"new", "close"} /\ (mapped[r] \/ Head(wire[s]).type = "new")
    <2>1. UNCHANGED <<sendWindow, rb>>
      BY <1>11 DEF handleFrame, DropUnmapped, handleNewChannel, pushData,
         pushDataOverflow, handleChannelClose, handleWindowUpdate, Arrives
    <2>2. \A g \in Ends, t \in {"data", "wu"} : InFlight(g, t)' = InFlight(g, t)
      BY <1>4, <1>11
    <2> QED
      BY <1>3, <2>1, <2>2, BalancedQuiet
  <1>12. Head(wire[s]).type \in {"new", "data", "close", "wu"}
    BY <1>0, ForFacts DEF Frame
  <1> QED
    BY <1>8, <1>9, <1>10, <1>11, <1>12

LEMMA BalancedIdle ==
  ASSUME CreditConserved, UNCHANGED vars
  PROVE  CreditConserved'
  <1>1. UNCHANGED <<sendWindow, chunk, rb, got, wire>>
    BY DEF vars
  <1>2. \A g \in Ends : \A t \in {"data", "wu"} : InFlight(g, t)' = InFlight(g, t)
    BY <1>1, FlightQuiet
  <1>3. Steady
    BY DEF vars, Steady, Gone
  <1> QED
    BY <1>1, <1>2, <1>3, BalancedQuiet

LEMMA BalancedAlways ==
  ASSUME FitsReceiveBuffer
  PROVE  Spec => [](Silent /\ CreditConserved)
  <1>1. Init => Silent /\ CreditConserved
    <2> SUFFICES ASSUME Init PROVE Silent /\ CreditConserved
      OBVIOUS
    <2>1. Silent
      BY DEF Init, Silent
    <2>2. TypeOK /\ \A s \in Sides : wire[s] = <<>>
      BY TypedInit DEF Init
    <2>3. ASSUME NEW e \in Ends PROVE Account(e) = DefaultSendWindow[Side(e)]
      <3>1. Peer(e) \in Ends /\ Side(e) \in Sides /\ Side(Peer(e)) \in Sides
            /\ DefaultSendWindow[Side(e)] \in Nat
        BY PeerFacts, ChannelAssumption
      <3>2. InFlight(e, "wu") = <<>> /\ InFlight(Peer(e), "data") = <<>>
        BY <2>2, <3>1, FlightNone
      <3>3. /\ sendWindow[e] = DefaultSendWindow[Side(e)] /\ chunk[e] = 0
            /\ rb[Peer(e)] = <<>> /\ got[Peer(e)] = 0
        BY <3>1 DEF Init
      <3>4. Len(<<>>) = 0
        OBVIOUS
      <3> QED
        BY <3>1, <3>2, <3>3, <3>4 DEF Account
    <2> QED
      BY <2>1, <2>3 DEF CreditConserved, Account
  <1>2. DeliveryInv /\ DeliveryInv' /\ Silent /\ CreditConserved /\ [Next]_vars
          => (Silent /\ CreditConserved)'
    <2> SUFFICES ASSUME DeliveryInv, DeliveryInv', Silent, CreditConserved, [Next]_vars
                 PROVE  Silent' /\ CreditConserved'
      OBVIOUS
    <2>0. /\ TypeOK /\ TypeOK' /\ FlowInv /\ Reserved /\ Opening /\ Lives /\ Delivery
      BY DEF DeliveryInv, FlowInv
    <2>1. Silent'
      BY <2>0, SilentStep
    <2>2. CASE UNCHANGED vars
      BY <2>1, <2>2, BalancedIdle
    <2>3. ASSUME NEW e \in Ends, OpenRegister(e) \/ Writer(e) PROVE CreditConserved'
      BY <2>0, <2>3, SteadyWriter, BalancedWriter
    <2>4. ASSUME NEW e \in Ends, Reader(e) \/ Closer(e) PROVE CreditConserved'
      BY <2>0, <2>4, SteadyReader, BalancedReader
    <2>5. ASSUME NEW s \in Sides, handleFrame(s) PROVE CreditConserved'
      BY <2>0, <2>5, SteadyHandler, BalancedHandler
    <2> QED
      BY <2>1, <2>2, <2>3, <2>4, <2>5 DEF Next
  <1> QED
    BY <1>1, <1>2, DeliveryAlways, PTL DEF Spec

(* When the window fits the receive buffer, Read, Write and the readLoops  *)
(* neither lose nor invent credit while both ends are in their maps, so no *)
(* writer starves for credit that a frame, an early window update or the   *)
(* order of the steps has swallowed.                                       *)
THEOREM CreditIsConserved ==
  ASSUME FitsReceiveBuffer
  PROVE  Spec => []CreditConserved
  BY BalancedAlways, PTL

-----------------------------------------------------------------------------
(* The byte stream.  ChannelClose is sent by an end that has given up its  *)
(* right to write, and Close gives it up first of all.                     *)

Leaving(e) ==
  /\ wpc[e] = "sendClose" => status[e] # "open"
  /\ closing[e] \notin {"no", "asked"} => status[e] = "closed"

Farewell(e) ==
  /\ \A i \in DOMAIN wire[Side(e)] : IsFrame(e, "close", i) => status[Peer(e)] # "open"
  /\ rerr[e] = "EOF" => status[Peer(e)] # "open"

Parting == \A e \in Ends : Leaving(e) /\ Farewell(e)

(* Nobody opens a channel again for writing. *)
Final == \A f \in Ends : status[f] # "open" => status'[f] # "open"

LEMMA LeavingWriter ==
  ASSUME TypeOK, Parting, NEW e \in Ends, OpenRegister(e) \/ Writer(e)
  PROVE  Final /\ \A f \in Ends : Leaving(f)'
  <1> USE DEF TypeOK, Parting, Leaving, Final, rvars
  <1>1. CASE CloseWrite(e)
    BY <1>1 DEF CloseWrite
  <1>2. CASE ~CloseWrite(e)
    <2>1. status' = status /\ closing' = closing
      BY <1>2 DEF Writer, OpenRegister, OpenSend, DialOk, DialFail, SrcRead, SrcEnd,
         WriteEnter, WriteRefused, WriteAbort, WriteWait, WriteReserve, WriteSend,
         CloseWriteNoop, CloseWriteSend
    <2>2. \A f \in Ends : wpc'[f] = "sendClose" => wpc[f] = "sendClose"
      BY <1>2, SMTT(60) DEF Writer, OpenRegister, OpenSend, DialOk, DialFail, SrcRead, SrcEnd,
         WriteEnter, WriteRefused, WriteAbort, WriteWait, WriteReserve, WriteSend,
         CloseWriteNoop, CloseWriteSend
    <2> QED
      BY <2>1, <2>2
  <1> QED
    BY <1>1, <1>2

LEMMA LeavingReader ==
  ASSUME TypeOK, Parting, NEW e \in Ends, Reader(e) \/ Closer(e)
  PROVE  Final /\ \A f \in Ends : Leaving(f)'
  <1> USE DEF TypeOK, Parting, Leaving, Final, rvars, wvars
  <1>1. CASE Reader(e)
    BY <1>1 DEF Reader, ReadTake, ReadCredit, ReadEnd, ReadWait, SinkWrite, SinkFail
  <1>2. CASE CloseBegin(e)
    BY <1>2 DEF CloseBegin
  <1>3. CASE CloseWakeReader(e)
    BY <1>3 DEF CloseWakeReader
  <1>4. CASE CloseWakeWriter(e)
    BY <1>4 DEF CloseWakeWriter, WakeWriter
  <1>5. CASE removeChannel(e)
    BY <1>5 DEF removeChannel
  <1>6. CASE CloseSend(e)
    BY <1>6 DEF CloseSend
  <1> QED
    BY <1>1, <1>2, <1>3, <1>4, <1>5, <1>6 DEF Closer

LEMMA LeavingHandler ==
  ASSUME FitsReceiveBuffer, TypeOK, FlowInv, Parting, NEW s \in Sides, handleFrame(s)
  PROVE  Final /\ \A f \in Ends : Leaving(f)'
  <1> USE DEF TypeOK, Parting, Leaving, Final, rvars, wvars
  <1>0. wire[s] # <<>>
    BY DEF handleFrame, Arrives, DropUnmapped, handleNewChannel, pushData,
           pushDataOverflow, handleChannelClose, handleWindowUpdate
  <1>1. For(s) \in Ends
    BY <1>0, ForFacts
  <1>2. status' = status /\ closing' = closing
    BY AlwaysFits DEF handleFrame, DropUnmapped, handleNewChannel, pushData,
       handleChannelClose, handleWindowUpdate
  <1>3. \A f \in Ends : wpc'[f] = "sendClose" => wpc[f] = "sendClose"
    BY <1>1, SMTT(60) DEF handleFrame, DropUnmapped, handleNewChannel, pushData, pushDataOverflow,
       handleChannelClose, handleWindowUpdate, WakeWriter
  <1> QED
    BY <1>2, <1>3

LEMMA FarewellSend ==
  ASSUME TypeOK, Parting, Final, NEW e \in Ends,
         NEW type \in {"new", "data", "close", "wu"}, NEW lo \in Nat, NEW n \in Nat,
         sendFrame(e, type, lo, n), type = "close" => status[e] # "open", rerr' = rerr
  PROVE  \A g \in Ends : Farewell(g)'
  <1> SUFFICES ASSUME NEW g \in Ends PROVE Farewell(g)'
    OBVIOUS
  <1>0. Peer(g) \in Ends /\ Peer(e) \in Ends /\ Peer(Peer(e)) = e
    BY PeerFacts
  <1>1. ASSUME NEW i \in DOMAIN (wire'[Side(g)]), IsFrame(g, "close", i)'
        PROVE  status'[Peer(g)] # "open"
    <2>1. \/ i \in DOMAIN wire[Side(g)] /\ IsFrame(g, "close", i)
          \/ g = Peer(e) /\ "close" = type
      BY <1>1, SendFrames
    <2>2. status[Peer(g)] # "open"
      BY <1>0, <2>1 DEF Parting, Farewell
    <2> QED
      BY <1>0, <2>2 DEF Final
  <1>2. rerr'[g] = "EOF" => status'[Peer(g)] # "open"
    BY <1>0 DEF Parting, Farewell, Final
  <1> QED
    BY <1>1, <1>2 DEF Farewell

LEMMA FarewellQuiet ==
  ASSUME Parting, Final, UNCHANGED <<wire, rerr>>
  PROVE  \A g \in Ends : Farewell(g)'
  <1>0. \A g \in Ends : Peer(g) \in Ends
    BY PeerFacts
  <1> QED
    BY <1>0 DEF Parting, Farewell, Final, IsFrame

LEMMA FarewellHandler ==
  ASSUME FitsReceiveBuffer, TypeOK, FlowInv, Parting, Final, NEW s \in Sides, handleFrame(s)
  PROVE  \A g \in Ends : Farewell(g)'
  <1>0. wire[s] # <<>> /\ ReadFrame(s)
    BY DEF handleFrame, Arrives, DropUnmapped, handleNewChannel, pushData,
           pushDataOverflow, handleChannelClose, handleWindowUpdate
  <1>1. PICK r \in Ends : r = For(s)
    BY <1>0, ForFacts
  <1>2. /\ Side(r) = s /\ 1 \in DOMAIN wire[s] /\ Head(wire[s]) = wire[s][1]
        /\ Head(wire[s]).ch = r[2]
    BY <1>0, <1>1, ForFacts
  <1>3. \A f \in Ends : rerr'[f] = "EOF" =>
          rerr[f] = "EOF" \/ (f = r /\ IsFrame(f, "close", 1))
    <2>1. CASE handleChannelClose(s)
      <3>1. IsFrame(r, "close", 1) /\ rerr' = [rerr EXCEPT ![r] = "EOF"]
        BY <1>1, <1>2, <2>1 DEF handleChannelClose, Arrives, IsFrame
      <3> QED
        BY <3>1 DEF TypeOK
    <2>2. CASE ~handleChannelClose(s)
      BY <2>2, AlwaysFits DEF handleFrame, DropUnmapped, handleNewChannel, pushData,
                              handleWindowUpdate
    <2> QED
      BY <2>1, <2>2
  <1> SUFFICES ASSUME NEW g \in Ends PROVE Farewell(g)'
    OBVIOUS
  <1>4. Peer(g) \in Ends
    BY PeerFacts
  <1>5. ASSUME NEW i \in DOMAIN (wire'[Side(g)]), IsFrame(g, "close", i)'
        PROVE  status'[Peer(g)] # "open"
    <2>1. \E k \in DOMAIN wire[Side(g)] : IsFrame(g, "close", k)
      BY <1>0, <1>5, ReadFrames
    <2> QED
      BY <1>4, <2>1 DEF Parting, Farewell, Final
  <1>6. rerr'[g] = "EOF" => status'[Peer(g)] # "open"
    BY <1>2, <1>3, <1>4 DEF Parting, Farewell, Final
  <1> QED
    BY <1>5, <1>6 DEF Farewell

LEMMA PartingStep ==
  ASSUME FitsReceiveBuffer, TypeOK, FlowInv, Parting, [Next]_vars
  PROVE  Parting'
  <1>1. CASE UNCHANGED vars
    BY <1>1 DEF vars, Parting, Leaving, Farewell, IsFrame
  <1>2. ASSUME NEW e \in Ends, OpenRegister(e) \/ Writer(e) PROVE Parting'
    <2>1. Final /\ \A f \in Ends : Leaving(f)'
      BY <1>2, LeavingWriter
    <2>2. sent[e] \in Nat /\ chunk[e] \in Nat
      BY DEF TypeOK
    <2>3. CASE OpenSend(e)
      BY <2>1, <2>3, FarewellSend DEF Parting, OpenSend
    <2>4. CASE WriteSend(e)
      BY <2>1, <2>2, <2>4, FarewellSend DEF Parting, WriteSend
    <2>5. CASE CloseWriteSend(e)
      <3>1. status[e] # "open"
        BY <2>5 DEF Parting, Leaving, CloseWriteSend
      <3> QED
        BY <2>1, <2>2, <2>5, <3>1, FarewellSend DEF Parting, CloseWriteSend
    <2>6. CASE UNCHANGED <<wire, rerr>>
      BY <2>1, <2>6, FarewellQuiet DEF Parting
    <2> QED
      BY <1>2, <2>3, <2>4, <2>5, <2>6 DEF Writer, OpenRegister, DialOk, DialFail, SrcRead,
         SrcEnd, WriteEnter, WriteRefused, WriteAbort, WriteWait, WriteReserve,
         CloseWrite, CloseWriteNoop
  <1>3. ASSUME NEW e \in Ends, Reader(e) \/ Closer(e) PROVE Parting'
    <2>1. Final /\ \A f \in Ends : Leaving(f)'
      BY <1>3, LeavingReader
    <2>2. sent[e] \in Nat /\ consumed[e] - got[e] \in Nat /\ WindowDelta(got[e]) \in Nat
      BY DEF TypeOK, FlowInv, Reserved, WindowDelta
    <2>3. CASE ReadCredit(e)
      BY <2>1, <2>2, <2>3, FarewellSend DEF Parting, ReadCredit
    <2>4. CASE CloseSend(e)
      <3>1. status[e] # "open"
        BY <2>4 DEF Parting, Leaving, CloseSend
      <3> QED
        BY <2>1, <2>2, <2>4, <3>1, FarewellSend DEF Parting, CloseSend
    <2>5. CASE UNCHANGED <<wire, rerr>>
      BY <2>1, <2>5, FarewellQuiet DEF Parting
    <2> QED
      BY <1>3, <2>3, <2>4, <2>5 DEF Reader, Closer, ReadTake, ReadEnd, ReadWait,
         SinkWrite, SinkFail, CloseBegin, CloseWakeReader, CloseWakeWriter, removeChannel
  <1>4. ASSUME NEW s \in Sides, handleFrame(s) PROVE Parting'
    BY <1>4, LeavingHandler, FarewellHandler DEF Parting
  <1> QED
    BY <1>1, <1>2, <1>3, <1>4 DEF Next

-----------------------------------------------------------------------------
(* Steps of the byte stream, in the channel's terms. *)

LEMMA StreamStill ==
  ASSUME sent' = sent,
         \A e \in Ends : /\ Unread(e)' = Unread(e)
                         /\ Writing(e)' = Writing(e) /\ Reading(e)' = Reading(e)
  PROVE  UNCHANGED Stream!streams
  <1>1. /\ [e \in Ends |-> Unread(e)]' = [e \in Ends |-> Unread(e)]
        /\ [e \in Ends |-> Writing(e)]' = [e \in Ends |-> Writing(e)]
        /\ [e \in Ends |-> Reading(e)]' = [e \in Ends |-> Reading(e)]
    OBVIOUS
  <1> QED
    BY <1>1 DEF Stream!streams

LEMMA StreamWrite ==
  ASSUME TypeOK, NEW d \in Ends, NEW n \in Nat \ {0},
         Writing(d) = "open", Reading(d) # "eof",
         sent' = [sent EXCEPT ![d] = sent[d] + n],
         Unread(d)' = IF Reading(d) = "failed" THEN <<>> ELSE Unread(d) \o Bytes(sent[d], n),
         \A e \in Ends : /\ e # d => Unread(e)' = Unread(e)
                         /\ Writing(e)' = Writing(e) /\ Reading(e)' = Reading(e)
  PROVE  Stream!Next
  <1>1. sent'[d] - sent[d] = n /\ n \in 1..(sent'[d] - sent[d])
    BY DEF TypeOK
  <1>2. /\ [e \in Ends |-> Writing(e)]' = [e \in Ends |-> Writing(e)]
        /\ [e \in Ends |-> Reading(e)]' = [e \in Ends |-> Reading(e)]
        /\ [e \in Ends |-> Writing(e)][d] = "open"
        /\ [e \in Ends |-> Reading(e)][d] # "eof"
    OBVIOUS
  <1>3. [e \in Ends |-> Unread(e)]' = [[e \in Ends |-> Unread(e)] EXCEPT ![d] =
          IF [e \in Ends |-> Reading(e)][d] = "failed" THEN <<>>
          ELSE @ \o [i \in 1..n |-> sent[d] + i]]
    BY DEF Bytes
  <1>4. Stream!Write(d, n)
    BY <1>2, <1>3 DEF Stream!Write
  <1> QED
    BY <1>1, <1>4 DEF Stream!Next

LEMMA StreamFinish ==
  ASSUME NEW d \in Ends, Writing(d) = "open", Writing(d)' = "finished", sent' = sent,
         \A e \in Ends : /\ e # d => Writing(e)' = Writing(e)
                         /\ Unread(e)' = Unread(e) /\ Reading(e)' = Reading(e)
  PROVE  Stream!Next
  <1>1. /\ [e \in Ends |-> Unread(e)]' = [e \in Ends |-> Unread(e)]
        /\ [e \in Ends |-> Reading(e)]' = [e \in Ends |-> Reading(e)]
        /\ [e \in Ends |-> Writing(e)][d] = "open"
    OBVIOUS
  <1>2. [e \in Ends |-> Writing(e)]' = [[e \in Ends |-> Writing(e)] EXCEPT ![d] = "finished"]
    OBVIOUS
  <1>3. Stream!Finish(d)
    BY <1>1, <1>2 DEF Stream!Finish
  <1> QED
    BY <1>3 DEF Stream!Next

LEMMA StreamTake ==
  ASSUME NEW d \in Ends, NEW n \in 1..Len(Unread(d)), Reading(d) = "open", sent' = sent,
         Unread(d)' = SubSeq(Unread(d), n + 1, Len(Unread(d))),
         \A e \in Ends : /\ e # d => Unread(e)' = Unread(e)
                         /\ Writing(e)' = Writing(e) /\ Reading(e)' = Reading(e)
  PROVE  Stream!Next
  <1>1. /\ [e \in Ends |-> Writing(e)]' = [e \in Ends |-> Writing(e)]
        /\ [e \in Ends |-> Reading(e)]' = [e \in Ends |-> Reading(e)]
        /\ [e \in Ends |-> Reading(e)][d] = "open"
        /\ [e \in Ends |-> Unread(e)][d] = Unread(d)
    OBVIOUS
  <1>2. [e \in Ends |-> Unread(e)]' = [[e \in Ends |-> Unread(e)] EXCEPT ![d] =
          SubSeq(@, n + 1, Len(@))]
    BY Zenon
  <1>3. Stream!Take(d, n)
    BY <1>1, <1>2 DEF Stream!Take
  <1> QED
    BY <1>1, <1>3 DEF Stream!Next

LEMMA StreamEnd ==
  ASSUME NEW d \in Ends, Reading(d) = "open", Writing(d) = "finished", Unread(d) = <<>>,
         Reading(d)' = "eof", sent' = sent,
         \A e \in Ends : /\ e # d => Reading(e)' = Reading(e)
                         /\ Unread(e)' = Unread(e) /\ Writing(e)' = Writing(e)
  PROVE  Stream!Next
  <1>1. /\ [e \in Ends |-> Unread(e)]' = [e \in Ends |-> Unread(e)]
        /\ [e \in Ends |-> Writing(e)]' = [e \in Ends |-> Writing(e)]
        /\ [e \in Ends |-> Reading(e)][d] = "open"
        /\ [e \in Ends |-> Writing(e)][d] = "finished"
        /\ [e \in Ends |-> Unread(e)][d] = <<>>
    OBVIOUS
  <1>2. [e \in Ends |-> Reading(e)]' = [[e \in Ends |-> Reading(e)] EXCEPT ![d] = "eof"]
    OBVIOUS
  <1>3. Stream!ReachEnd(d)
    BY <1>1, <1>2 DEF Stream!ReachEnd
  <1> QED
    BY <1>3 DEF Stream!Next

LEMMA StreamGiveUp ==
  ASSUME NEW d \in Ends, Reading(d) = "open", Reading(d)' = "failed", Unread(d)' = <<>>,
         sent' = sent,
         \A e \in Ends : /\ e # d => Reading(e)' = Reading(e) /\ Unread(e)' = Unread(e)
                         /\ Writing(e)' = Writing(e)
  PROVE  Stream!Next
  <1>1. /\ [e \in Ends |-> Writing(e)]' = [e \in Ends |-> Writing(e)]
        /\ [e \in Ends |-> Reading(e)][d] = "open"
    OBVIOUS
  <1>2. [e \in Ends |-> Reading(e)]' = [[e \in Ends |-> Reading(e)] EXCEPT ![d] = "failed"]
    OBVIOUS
  <1>3. [e \in Ends |-> Unread(e)]' = [[e \in Ends |-> Unread(e)] EXCEPT ![d] = <<>>]
    OBVIOUS
  <1>4. Stream!GiveUp(d)
    BY <1>1, <1>2, <1>3 DEF Stream!GiveUp
  <1> QED
    BY <1>4 DEF Stream!Next

-----------------------------------------------------------------------------
(* Every step of the channels is a step of the byte streams or of nobody. *)

(* A reader that goes on. *)
Attending(g) ==
  \/ rpc'[g] = rpc[g]
  \/ rpc[g] \notin {"eof", "failed"} /\ rpc'[g] \notin {"eof", "failed"}

LEMMA StillStep ==
  ASSUME sent' = sent,
         \A e \in Ends : Attending(e) /\ Writing(e)' = Writing(e) /\ rb'[e] = rb[e],
         \A e \in Ends : InFlight(e, "data")' = InFlight(e, "data")
  PROVE  UNCHANGED Stream!streams
  <1>1. \A e \in Ends : Peer(e) \in Ends
    BY PeerFacts
  <1>2. \A e \in Ends : Unread(e)' = Unread(e)
    BY <1>1 DEF Unread, Attending
  <1>3. \A e \in Ends : Reading(e)' = Reading(e)
    BY <1>1 DEF Reading, Attending
  <1> QED
    BY <1>2, <1>3, StreamStill

LEMMA StreamWriter ==
  ASSUME TypeOK, Opening, Lives, LosslessEOF, NEW d \in Ends, OpenRegister(d) \/ Writer(d)
  PROVE  Stream!Next \/ UNCHANGED Stream!streams
  <1>0. \A e \in Ends : Peer(e) \in Ends /\ Peer(Peer(e)) = e
    BY PeerFacts
  <1>1. CASE WriteSend(d)
    <2>1. PICK n \in Nat : n = chunk[d]
      BY DEF TypeOK
    <2>2. /\ sendFrame(d, "data", sent[d], n) /\ sent[d] \in Nat
          /\ sent' = [sent EXCEPT ![d] = sent[d] + n]
          /\ UNCHANGED <<status, rb, rpc>> /\ wpc[d] = "send"
          /\ \A e \in Ends : e # d => pend'[e] = pend[e]
      BY <1>1, <2>1 DEF WriteSend, rvars, TypeOK
    <2>3. status[d] = "open" /\ rpc[Peer(d)] # "eof"
      BY <1>0, <2>2 DEF Lives, Life, LosslessEOF
    <2>4. /\ Writing(d) = "open" /\ Reading(d) # "eof"
          /\ \A e \in Ends : Writing(e)' = Writing(e) /\ Reading(e)' = Reading(e)
      BY <2>2, <2>3 DEF Writing, Reading
    <2>5. /\ InFlight(Peer(d), "data")' = InFlight(Peer(d), "data") \o Bytes(sent[d], n)
          /\ \A g \in Ends : g # Peer(d) => InFlight(g, "data")' = InFlight(g, "data")
      BY <2>2, FlightData
    <2>6. \A e \in Ends : e # d => Unread(e)' = Unread(e)
      BY <1>0, <2>2, <2>5 DEF Unread
    <2>7. Unread(d)' = IF Reading(d) = "failed" THEN <<>> ELSE Unread(d) \o Bytes(sent[d], n)
      <3>1. Reading(d) = "failed" <=> rpc[Peer(d)] = "failed"
        BY DEF Reading
      <3>2. CASE rpc[Peer(d)] = "failed"
        BY <2>2, <3>1, <3>2 DEF Unread
      <3>3. CASE rpc[Peer(d)] # "failed"
        <4>1. rb[Peer(d)] \in Seq(Nat) /\ InFlight(Peer(d), "data") \in Seq(Nat)
          BY <1>0, FlightTyped DEF TypeOK
        <4>2. Bytes(sent[d], n) \in Seq(Nat)
          BY <2>2 DEF Bytes
        <4>3. Unread(d)' = rb[Peer(d)] \o (InFlight(Peer(d), "data") \o Bytes(sent[d], n))
          BY <2>2, <2>5, <3>3 DEF Unread
        <4>4. Unread(d) = rb[Peer(d)] \o InFlight(Peer(d), "data")
          BY <3>3 DEF Unread
        <4>5. PICK a \in Seq(Nat), b \in Seq(Nat), c \in Seq(Nat) :
                a = rb[Peer(d)] /\ b = InFlight(Peer(d), "data") /\ c = Bytes(sent[d], n)
          BY <4>1, <4>2
        <4>6. (a \o b) \o c = a \o (b \o c)
          BY ConcatThree
        <4> QED
          BY <3>1, <3>3, <4>3, <4>4, <4>5, <4>6
      <3> QED
        BY <3>2, <3>3
    <2>8. CASE n # 0
      BY <2>2, <2>4, <2>6, <2>7, <2>8, StreamWrite
    <2>9. CASE n = 0
      <3>1. sent' = sent
        BY <2>2, <2>9 DEF TypeOK
      <3>2. Bytes(sent[d], 0) = <<>>
        BY DEF Bytes
      <3>3. InFlight(Peer(d), "data") \in Seq(Nat)
        BY <1>0, FlightTyped
      <3>4. InFlight(Peer(d), "data")' = InFlight(Peer(d), "data")
        BY <2>5, <2>9, <3>2, <3>3, ConcatEmptySeq
      <3>5. \A e \in Ends : InFlight(e, "data")' = InFlight(e, "data")
        BY <2>5, <3>4
      <3> QED
        BY <2>2, <2>4, <3>1, <3>5, StillStep DEF Attending
    <2> QED
      BY <2>8, <2>9
  <1>2. CASE DialFail(d)
    <2>1. /\ UNCHANGED <<status, pend, rb, wire, sent>> /\ wpc[d] = "dial"
          /\ rpc'[d] = "failed" /\ \A e \in Ends : e # d => rpc'[e] = rpc[e]
      BY <1>2 DEF DialFail, TypeOK
    <2>2. rpc[d] = "off"
      BY <2>1 DEF Opening, Started
    <2>3. \A e \in Ends : InFlight(e, "data")' = InFlight(e, "data")
      BY <2>1, FlightQuiet
    <2>4. /\ Reading(Peer(d)) = "open" /\ Reading(Peer(d))' = "failed"
          /\ Unread(Peer(d))' = <<>>
      BY <1>0, <2>1, <2>2 DEF Reading, Unread
    <2>5. \A e \in Ends : /\ e # Peer(d) => Reading(e)' = Reading(e) /\ Unread(e)' = Unread(e)
                          /\ Writing(e)' = Writing(e)
      BY <1>0, <2>1, <2>3 DEF Reading, Unread, Writing
    <2> QED
      BY <1>0, <2>1, <2>4, <2>5, StreamGiveUp
  <1>3. CASE CloseWrite(d)
    <2>1. /\ UNCHANGED <<pend, rpc, rb, wire, sent>> /\ wpc[d] = "closeWrite"
          /\ status[d] = "open" /\ status'[d] = "writeClosed"
          /\ \A e \in Ends : e # d => status'[e] = status[e]
      BY <1>3 DEF CloseWrite, rvars, TypeOK
    <2>2. pend[d] = 0
      BY <2>1 DEF Lives, Life
    <2>3. \A e \in Ends : InFlight(e, "data")' = InFlight(e, "data")
      BY <2>1, FlightQuiet
    <2>4. /\ Writing(d) = "open" /\ Writing(d)' = "finished"
          /\ \A e \in Ends : /\ e # d => Writing(e)' = Writing(e)
                             /\ Unread(e)' = Unread(e) /\ Reading(e)' = Reading(e)
      BY <1>0, <2>1, <2>2, <2>3 DEF Reading, Unread, Writing
    <2> QED
      BY <2>1, <2>4, StreamFinish
  <1>4. CASE \E n \in 1..BufferSize : SrcRead(d, n)
    <2>1. /\ UNCHANGED <<status, rpc, rb, wire, sent>> /\ wpc[d] = "src"
          /\ \A e \in Ends : e # d => pend'[e] = pend[e]
      BY <1>4 DEF SrcRead, rvars, TypeOK
    <2>2. status[d] = "open"
      BY <2>1 DEF Lives, Life
    <2>3. \A e \in Ends : InFlight(e, "data")' = InFlight(e, "data")
      BY <2>1, FlightQuiet
    <2> QED
      BY <2>1, <2>2, <2>3, StillStep DEF Attending, Writing
  <1>5. CASE OpenSend(d) \/ CloseWriteSend(d)
    <2>1. sent[d] \in Nat
      BY DEF TypeOK
    <2>2. \A e \in Ends : InFlight(e, "data")' = InFlight(e, "data")
      BY <1>5, <2>1, FlightSend DEF OpenSend, CloseWriteSend
    <2>3. UNCHANGED <<status, pend, rb, sent>>
      BY <1>5 DEF OpenSend, CloseWriteSend
    <2>4. \A e \in Ends : Attending(e)
      BY <1>5 DEF OpenSend, CloseWriteSend, Attending, Opening, Started, TypeOK, rvars
    <2> QED
      BY <2>2, <2>3, <2>4, StillStep DEF Writing
  <1>6. CASE DialOk(d)
    <2>1. UNCHANGED <<status, pend, rb, sent, wire>> /\ \A e \in Ends : Attending(e)
      BY <1>6 DEF DialOk, Attending, Opening, Started, TypeOK
    <2> QED
      BY <2>1, FlightQuiet, StillStep DEF Writing
  <1>7. CASE UNCHANGED <<status, pend, rpc, rb, sent, wire>>
    BY <1>7, FlightQuiet, StillStep DEF Writing, Attending
  <1> QED
    BY <1>1, <1>2, <1>3, <1>4, <1>5, <1>6, <1>7 DEF Writer, OpenRegister, SrcEnd,
       WriteEnter, WriteRefused, WriteAbort, WriteWait, WriteReserve, CloseWriteNoop, rvars

(* What Read leaves of a buffer and of what follows it. *)
LEMMA TakeConcat ==
  ASSUME NEW a \in Seq(Nat), NEW b \in Seq(Nat), NEW n \in 1..Len(a)
  PROVE  /\ SubSeq(a, n + 1, Len(a)) \o b = SubSeq(a \o b, n + 1, Len(a \o b))
         /\ n \in 1..Len(a \o b)
  <1>1. /\ a \o b \in Seq(Nat) /\ Len(a \o b) = Len(a) + Len(b)
        /\ Len(a) \in Nat /\ Len(b) \in Nat
    OBVIOUS
  <1>2. n \in 1..Len(a \o b) /\ n \in Nat
    BY <1>1
  <1> DEFINE p == SubSeq(a, n + 1, Len(a))
             q == SubSeq(a \o b, n + 1, Len(a \o b))
  <1>3. /\ p \in Seq(Nat) /\ Len(p) = Len(a) - n
        /\ \A i \in 1..Len(p) : p[i] = a[n + i]
    OBVIOUS
  <1>4. /\ q \in Seq(Nat) /\ Len(q) = (Len(a) + Len(b)) - n
        /\ \A i \in 1..Len(q) : q[i] = (a \o b)[n + i]
    <2>1. PICK w \in Seq(Nat) : w = a \o b
      BY <1>1
    <2>2. n \in 1..Len(w) /\ Len(w) = Len(a) + Len(b)
      BY <1>1, <1>2, <2>1
    <2>3. /\ SubSeq(w, n + 1, Len(w)) \in Seq(Nat)
          /\ Len(SubSeq(w, n + 1, Len(w))) = Len(w) - n
          /\ \A i \in 1..(Len(w) - n) : SubSeq(w, n + 1, Len(w))[i] = w[n + i]
      BY SMTT(60), <2>2
    <2> QED
      BY <2>1, <2>2, <2>3
  <1> HIDE DEF p, q
  <1>5. /\ p \o b \in Seq(Nat) /\ Len(p \o b) = Len(p) + Len(b)
        /\ \A i \in 1..(Len(p) + Len(b)) : (p \o b)[i] =
             IF i <= Len(p) THEN p[i] ELSE b[i - Len(p)]
    BY <1>3, ConcatProperties
  <1>6. \A j \in 1..(Len(a) + Len(b)) : (a \o b)[j] =
             IF j <= Len(a) THEN a[j] ELSE b[j - Len(a)]
    BY ConcatProperties
  <1>7. Len(p \o b) = Len(q)
    BY <1>1, <1>2, <1>3, <1>4, <1>5
  <1>8. ASSUME NEW i \in 1..Len(q) PROVE (p \o b)[i] = q[i]
    <2>1. n + i \in 1..(Len(a) + Len(b)) /\ i \in 1..(Len(p) + Len(b)) /\ i \in Nat
      BY <1>1, <1>2, <1>3, <1>4
    <2>2. q[i] = (a \o b)[n + i]
      BY <1>4
    <2>3. CASE i <= Len(p)
      <3>1. n + i <= Len(a) /\ i \in 1..Len(p)
        BY <1>1, <1>2, <1>3, <2>1, <2>3
      <3> QED
        BY <1>3, <1>5, <1>6, <2>1, <2>2, <2>3, <3>1
    <2>4. CASE ~(i <= Len(p))
      <3>1. ~(n + i <= Len(a)) /\ (n + i) - Len(a) = i - Len(p)
        BY <1>1, <1>2, <1>3, <2>1, <2>4
      <3> QED
        BY <1>5, <1>6, <2>1, <2>2, <2>4, <3>1
    <2> QED
      BY <2>3, <2>4
  <1>9. p \o b = q
    BY <1>4, <1>5, <1>7, <1>8, SeqEqual
  <1> QED
    BY <1>2, <1>9 DEF p, q

LEMMA StreamReader ==
  ASSUME TypeOK, FlowInv, Lives, Delivery, Parting, NEW r \in Ends, Reader(r) \/ Closer(r)
  PROVE  Stream!Next \/ UNCHANGED Stream!streams
  <1>0. \A e \in Ends : Peer(e) \in Ends /\ Peer(Peer(e)) = e
    BY PeerFacts
  <1> DEFINE d == Peer(r)
  <1>d. d \in Ends /\ Peer(d) = r /\ \A e \in Ends : e # d => Peer(e) # r
    BY <1>0
  <1> HIDE DEF d
  <1>1. CASE ReadTake(r)
    <2>1. /\ UNCHANGED <<status, pend, wire, sent>> /\ rpc[r] = "read" /\ rb[r] # <<>>
          /\ rpc'[r] = "credit" /\ rb'[r] = SubSeq(rb[r], TakeLen(r) + 1, Len(rb[r]))
          /\ \A e \in Ends : e # r => rpc'[e] = rpc[e] /\ rb'[e] = rb[e]
      BY <1>1 DEF ReadTake, wvars, TypeOK, Rest
    <2>2. \A e \in Ends : InFlight(e, "data")' = InFlight(e, "data")
      BY <2>1, FlightQuiet
    <2>3. PICK a \in Seq(Nat), b \in Seq(Nat) : a = rb[r] /\ b = InFlight(r, "data")
      BY FlightTyped DEF TypeOK
    <2>4. PICK n \in 1..Len(a) : n = TakeLen(r)
      BY <2>1, <2>3, TakeFacts
    <2>5. Unread(d) = a \o b /\ Unread(d)' = SubSeq(a, n + 1, Len(a)) \o b
      BY <1>d, <2>1, <2>2, <2>3, <2>4 DEF Unread
    <2>6. Unread(d)' = SubSeq(Unread(d), n + 1, Len(Unread(d))) /\ n \in 1..Len(Unread(d))
      BY <2>5, TakeConcat
    <2>7. /\ Reading(d) = "open"
          /\ \A e \in Ends : /\ e # d => Unread(e)' = Unread(e)
                             /\ Writing(e)' = Writing(e) /\ Reading(e)' = Reading(e)
      BY <1>0, <1>d, <2>1, <2>2 DEF Reading, Unread, Writing
    <2> QED
      BY <1>d, <2>1, <2>6, <2>7, StreamTake
  <1>2. CASE ReadEnd(r)
    <2>1. /\ UNCHANGED <<status, pend, wire, sent, rb>> /\ rpc[r] = "read" /\ rb[r] = <<>>
          /\ rpc'[r] = "eof" /\ (rerr[r] # "nil" \/ status[r] = "closed")
          /\ \A e \in Ends : e # r => rpc'[e] = rpc[e]
      BY <1>2 DEF ReadEnd, EndOfStream, wvars, TypeOK
    <2>2. \A e \in Ends : InFlight(e, "data")' = InFlight(e, "data")
      BY <2>1, FlightQuiet
    <2>3. closing[r] = "no"
      BY <2>1 DEF Lives, Life, RelayReturned
    <2>4. rerr[r] = "EOF"
      BY <2>1, <2>3 DEF Lives, Life, TypeOK
    <2>5. /\ wpc[d] = "done" /\ status[d] # "open" /\ pend[d] = 0
          /\ \A j \in DOMAIN wire[Side(r)] : ~IsFrame(r, "data", j)
      BY <1>d, <2>4 DEF Delivery, Ending, Parting, Farewell, Lives, Life, d
    <2>6. InFlight(r, "data") = <<>>
      BY <2>5, FlightNone
    <2>7. <<>> \o <<>> = <<>>
      OBVIOUS
    <2>8. Unread(d) = <<>> /\ Writing(d) = "finished" /\ Reading(d) = "open" /\ Reading(d)' = "eof"
      BY <1>d, <2>1, <2>5, <2>6, <2>7 DEF Unread, Writing, Reading
    <2>9. \A e \in Ends : /\ e # d => Reading(e)' = Reading(e)
                          /\ Unread(e)' = Unread(e) /\ Writing(e)' = Writing(e)
      BY <1>0, <1>d, <2>1, <2>2 DEF Unread, Writing, Reading
    <2> QED
      BY <1>d, <2>1, <2>8, <2>9, StreamEnd
  <1>3. CASE SinkFail(r)
    <2>1. /\ UNCHANGED <<status, pend, wire, sent, rb>> /\ rpc[r] = "sink"
          /\ rpc'[r] = "failed" /\ \A e \in Ends : e # r => rpc'[e] = rpc[e]
      BY <1>3 DEF SinkFail, wvars, TypeOK
    <2>2. \A e \in Ends : InFlight(e, "data")' = InFlight(e, "data")
      BY <2>1, FlightQuiet
    <2>3. Reading(d) = "open" /\ Reading(d)' = "failed" /\ Unread(d)' = <<>>
      BY <1>d, <2>1 DEF Reading, Unread
    <2>4. \A e \in Ends : /\ e # d => Reading(e)' = Reading(e) /\ Unread(e)' = Unread(e)
                          /\ Writing(e)' = Writing(e)
      BY <1>0, <1>d, <2>1, <2>2 DEF Unread, Writing, Reading
    <2> QED
      BY <1>d, <2>1, <2>3, <2>4, StreamGiveUp
  <1>4. CASE CloseBegin(r)
    <2>1. /\ UNCHANGED <<pend, wire, sent, rb, rpc>> /\ status'[r] = "closed"
          /\ \A e \in Ends : e # r => status'[e] = status[e]
          /\ closing[r] = "asked" \/ RelayReturned(r)
      BY <1>4 DEF CloseBegin, wvars, rvars, TypeOK
    <2>2. pend[r] = 0
      BY <2>1 DEF Lives, Life, RelayReturned
    <2>3. \A e \in Ends : InFlight(e, "data")' = InFlight(e, "data")
      BY <2>1, FlightQuiet
    <2>4. \A e \in Ends : /\ e # r => Writing(e)' = Writing(e)
                          /\ Unread(e)' = Unread(e) /\ Reading(e)' = Reading(e)
      BY <1>0, <2>1, <2>3 DEF Unread, Writing, Reading
    <2>5. CASE status[r] = "open"
      <3>1. Writing(r) = "open" /\ Writing(r)' = "finished"
        BY <2>1, <2>2, <2>5 DEF Writing
      <3> QED
        BY <2>1, <2>4, <3>1, StreamFinish
    <2>6. CASE status[r] # "open"
      <3>1. Writing(r)' = Writing(r)
        BY <2>1, <2>2, <2>6 DEF Writing
      <3> QED
        BY <2>1, <2>4, <3>1, StreamStill
    <2> QED
      BY <2>5, <2>6
  <1>5. CASE ReadCredit(r)
    <2>1. consumed[r] - got[r] \in Nat /\ WindowDelta(got[r]) \in Nat
      BY DEF TypeOK, FlowInv, Reserved, WindowDelta
    <2>2. \A e \in Ends : InFlight(e, "data")' = InFlight(e, "data")
      BY <1>5, <2>1, FlightCredit DEF ReadCredit
    <2>3. UNCHANGED <<status, pend, rb, sent>> /\ \A e \in Ends : Attending(e)
      BY <1>5 DEF ReadCredit, wvars, TypeOK, Attending
    <2> QED
      BY <2>2, <2>3, StillStep DEF Writing
  <1>6. CASE CloseSend(r)
    <2>1. sent[r] \in Nat
      BY DEF TypeOK
    <2>2. \A e \in Ends : InFlight(e, "data")' = InFlight(e, "data")
      BY <1>6, <2>1, FlightSend DEF CloseSend
    <2>3. UNCHANGED <<status, pend, rb, sent, rpc>>
      BY <1>6 DEF CloseSend, wvars, rvars
    <2> QED
      BY <2>2, <2>3, StillStep DEF Writing, Attending
  <1>7. CASE ReadWait(r) \/ SinkWrite(r) \/ CloseWakeReader(r) \/ CloseWakeWriter(r)
             \/ removeChannel(r)
    <2>1. UNCHANGED <<status, pend, rb, sent, wire>>
      BY <1>7 DEF ReadWait, SinkWrite, CloseWakeReader, CloseWakeWriter, removeChannel,
                  wvars, rvars
    <2>2. \A e \in Ends : Attending(e)
      BY <1>7, SMTT(60) DEF ReadWait, SinkWrite, CloseWakeReader, CloseWakeWriter, removeChannel,
                  WakeReader, rvars, Attending, TypeOK
    <2> QED
      BY <2>1, <2>2, FlightQuiet, StillStep DEF Writing
  <1> QED
    BY <1>1, <1>2, <1>3, <1>4, <1>5, <1>6, <1>7 DEF Reader, Closer

LEMMA StreamHandler ==
  ASSUME FitsReceiveBuffer, DeliveryInv, TypeOK', Silent, NEW s \in Sides, handleFrame(s)
  PROVE  UNCHANGED Stream!streams
  <1>i. TypeOK /\ FlowInv /\ Lives /\ Delivery /\ LosslessEOF
    BY DEF DeliveryInv
  <1>t. rb \in [Ends -> Seq(Nat)] /\ DOMAIN rpc = Ends
    BY <1>i DEF TypeOK
  <1>0. wire[s] # <<>> /\ ReadFrame(s)
    BY DEF handleFrame, Arrives, DropUnmapped, handleNewChannel, pushData,
           pushDataOverflow, handleChannelClose, handleWindowUpdate
  <1>1. PICK r \in Ends : r = For(s)
    BY <1>0, <1>i, ForFacts
  <1>2. PICK lo \in Nat, n \in Nat : lo = Head(wire[s]).lo /\ n = Head(wire[s]).n
    BY <1>0, <1>i, ForFacts DEF Frame
  <1>3. /\ \A e \in Ends : Peer(e) \in Ends
        /\ UNCHANGED <<status, pend, sent>>
    BY <1>i, PeerFacts, AlwaysFits DEF handleFrame, DropUnmapped, handleNewChannel, pushData,
           handleChannelClose, handleWindowUpdate, rvars, wvars
  <1>4. \A e \in Ends : Attending(e)
    <2>1. rpc' = rpc \/ rpc' = [rpc EXCEPT ![r] = WakeReader(r)]
      BY <1>1 DEF handleFrame, DropUnmapped, handleNewChannel, pushData,
         pushDataOverflow, handleChannelClose, handleWindowUpdate, rvars
    <2> QED
      BY <1>t, <2>1 DEF WakeReader, Attending
  <1>5. /\ \A g \in Ends : ~(g = r /\ Head(wire[s]).type = "data") =>
               InFlight(g, "data")' = InFlight(g, "data")
        /\ Head(wire[s]).type = "data" =>
               InFlight(r, "data") = Bytes(lo, n) \o InFlight(r, "data")'
    BY <1>0, <1>1, <1>2, <1>i, FlightRead
  <1>6. ~pushData(s) => rb' = rb
    BY DEF handleFrame, DropUnmapped, handleNewChannel, pushDataOverflow,
           handleChannelClose, handleWindowUpdate
  <1>7. CASE Head(wire[s]).type # "data"
    <2>1. rb' = rb
      BY <1>6, <1>7 DEF pushData, Arrives
    <2> QED
      BY <1>3, <1>4, <1>5, <1>7, <2>1, StillStep DEF Writing
  <1>8. PICK b \in Seq(Nat) : b = InFlight(r, "data")'
    <2>1. wire'[Side(r)] \in Seq(Frame)
      BY PeerFacts DEF TypeOK
    <2>2. InFlight(r, "data")' \in Seq(Nat)
      BY <2>1, CarriedTyped DEF InFlight
    <2> QED
      BY <2>2
  <1>9. PICK a \in Seq(Nat), c \in Seq(Nat) : a = rb[r] /\ c = Bytes(lo, n)
    <2>1. Bytes(lo, n) \in Seq(Nat)
      BY DEF Bytes
    <2> QED
      BY <1>i, <2>1 DEF TypeOK
  <1>10. CASE pushData(s)
    <2>0. /\ Head(wire[s]).type = "data"
          /\ rb' = [rb EXCEPT ![r] = rb[r] \o Bytes(lo, n)]
      BY <1>1, <1>2, <1>10 DEF pushData, Arrives
    <2>1. /\ Head(wire[s]).type = "data" /\ rb'[r] = a \o c
          /\ \A e \in Ends : e # r => rb'[e] = rb[e]
      BY <1>9, <1>t, <2>0
    <2>2. (a \o c) \o b = a \o (c \o b)
      BY ConcatThree
    <2>3. rb'[r] \o InFlight(r, "data")' = rb[r] \o InFlight(r, "data")
      BY <1>5, <1>8, <1>9, <2>1, <2>2
    <2>4. \A g \in Ends : rb'[g] \o InFlight(g, "data")' = rb[g] \o InFlight(g, "data")
      BY <1>5, <2>1, <2>3
    <2>5. \A e \in Ends : Unread(e)' = Unread(e)
      BY <1>3, <1>4, <2>4 DEF Unread, Attending
    <2>6. \A e \in Ends : Reading(e)' = Reading(e) /\ Writing(e)' = Writing(e)
      BY <1>3, <1>4 DEF Reading, Writing, Attending
    <2> QED
      BY <1>3, <2>5, <2>6, StreamStill
  <1>11. CASE Head(wire[s]).type = "data" /\ ~pushData(s)
    <2>1. DropUnmapped(s) /\ rb' = rb
      BY <1>6, <1>11, <1>i, AlwaysFits DEF handleFrame, handleNewChannel,
         handleChannelClose, handleWindowUpdate, Arrives
    <2>2. Gone(r)
      BY <1>1, <1>11, <1>i, <2>1, DroppedFrame
    <2>3. rpc[r] \in {"eof", "failed"}
      BY <1>i, <2>2 DEF Gone, Lives, Life, RelayReturned
    <2>4. rpc[r] = "eof" => n = 0
      <3> SUFFICES ASSUME rpc[r] = "eof" PROVE n = 0
        OBVIOUS
      <3>1. /\ Side(r) = s /\ 1 \in DOMAIN wire[s] /\ Head(wire[s]) = wire[s][1]
            /\ Head(wire[s]).ch = r[2]
        BY <1>0, <1>1, <1>i, ForFacts
      <3>2. IsFrame(r, "data", 1) /\ Lo(r, 1) = lo /\ Hi(r, 1) = lo + n
        BY <1>2, <1>11, <3>1 DEF IsFrame, Lo, Hi
      <3>3. consumed[r] + Len(rb[r]) <= lo /\ lo + n <= sent[Peer(r)]
        BY <1>i, <3>1, <3>2 DEF FlowInv, WindowInv, DataOnWire, Received
      <3>4. consumed[r] = sent[Peer(r)]
        BY <1>i DEF LosslessEOF
      <3>5. consumed[r] \in Nat /\ Len(rb[r]) \in Nat
        BY <1>9, <1>i DEF TypeOK
      <3> QED
        BY <3>3, <3>4, <3>5
    <2>5. rpc[r] # "failed" => InFlight(r, "data")' = InFlight(r, "data")
      <3> SUFFICES ASSUME rpc[r] # "failed" PROVE InFlight(r, "data")' = InFlight(r, "data")
        OBVIOUS
      <3>1. n = 0
        BY <2>3, <2>4
      <3>2. Bytes(lo, 0) = <<>>
        BY DEF Bytes
      <3>3. <<>> \o b = b
        BY ConcatEmptySeq
      <3> QED
        BY <1>5, <1>8, <1>11, <3>1, <3>2, <3>3
    <2>6. \A e \in Ends : Unread(e)' = Unread(e)
      BY <1>3, <1>4, <1>5, <2>1, <2>5 DEF Unread, Attending
    <2>7. \A e \in Ends : Reading(e)' = Reading(e) /\ Writing(e)' = Writing(e)
      BY <1>3, <1>4 DEF Reading, Writing, Attending
    <2> QED
      BY <1>3, <2>6, <2>7, StreamStill
  <1> QED
    BY <1>7, <1>10, <1>11

LEMMA StreamStep ==
  ASSUME FitsReceiveBuffer, DeliveryInv, TypeOK', Silent, Parting, [Next]_vars
  PROVE  [Stream!Next]_Stream!streams
  <1>0. TypeOK /\ FlowInv /\ Opening /\ Lives /\ Delivery /\ LosslessEOF
    BY DEF DeliveryInv, FlowInv
  <1>1. CASE UNCHANGED vars
    <2>1. UNCHANGED <<status, pend, rpc, rb, sent, wire>>
      BY <1>1 DEF vars
    <2> QED
      BY <2>1, FlightQuiet, StillStep DEF Writing, Attending
  <1>2. ASSUME NEW e \in Ends, OpenRegister(e) \/ Writer(e)
        PROVE  Stream!Next \/ UNCHANGED Stream!streams
    BY <1>0, <1>2, StreamWriter
  <1>3. ASSUME NEW e \in Ends, Reader(e) \/ Closer(e)
        PROVE  Stream!Next \/ UNCHANGED Stream!streams
    BY <1>0, <1>3, StreamReader
  <1>4. ASSUME NEW s \in Sides, handleFrame(s)
        PROVE  UNCHANGED Stream!streams
    BY <1>4, StreamHandler
  <1> QED
    BY <1>1, <1>2, <1>3, <1>4 DEF Next

LEMMA StreamInit ==
  ASSUME Init
  PROVE  Stream!Init
  <1>1. TypeOK /\ \A s \in Sides : wire[s] = <<>>
    BY TypedInit DEF Init
  <1>2. ASSUME NEW e \in Ends
        PROVE  Unread(e) = <<>> /\ Writing(e) = "open" /\ Reading(e) = "open"
    <2>1. Peer(e) \in Ends /\ Side(Peer(e)) \in Sides
      BY PeerFacts
    <2>2. InFlight(Peer(e), "data") = <<>>
      BY <1>1, <2>1, FlightNone
    <2>3. rb[Peer(e)] = <<>> /\ rpc[Peer(e)] = "off" /\ status[e] = "open"
      BY <2>1 DEF Init
    <2>4. <<>> \o <<>> = <<>>
      OBVIOUS
    <2> QED
      BY <2>2, <2>3, <2>4 DEF Unread, Writing, Reading
  <1> QED
    BY <1>2 DEF Init, Stream!Init

(* When the window fits the receive buffer, the channels of one control    *)
(* connection implement an ordered byte stream in each direction, for any  *)
(* number of channels, windows, buffers and applications that fail: a      *)
(* write appends, Read takes from the front, the end is seen after the     *)
(* last byte, and frames on the wire are never seen.                       *)
THEOREM ChannelIsByteStream ==
  ASSUME FitsReceiveBuffer
  PROVE  Spec => ImplementsStream
  <1>1. Init => Stream!Init /\ Parting
    <2>1. Init => Parting
      <3>1. \A e \in Ends : Peer(e) \in Ends /\ Side(e) \in Sides
        BY PeerFacts
      <3> QED
        BY <3>1 DEF Init, Parting, Leaving, Farewell
    <2> QED
      BY <2>1, StreamInit
  <1>2. DeliveryInv /\ Parting /\ [Next]_vars => Parting'
    BY PartingStep DEF DeliveryInv
  <1>3. DeliveryInv /\ DeliveryInv' /\ Silent /\ Parting /\ [Next]_vars
          => [Stream!Next]_Stream!streams
    BY StreamStep DEF DeliveryInv
  <1> QED
    BY <1>1, <1>2, <1>3, DeliveryAlways, BalancedAlways, PTL
       DEF Spec, ImplementsStream, Stream!Spec
=============================================================================
