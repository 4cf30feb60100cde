------------------------------ MODULE Channel ------------------------------
(***************************************************************************)
(* Multiplexed channels over one established control connection:           *)
(* relay/stream.go, the frame handlers of relay/ctrlconn.go and the two    *)
(* users of a channel, sharedListener.dispatch (server side) and           *)
(* RemoteClient.relayChannel (client side), which both run relay.Relay on  *)
(* it.                                                                     *)
(*                                                                         *)
(* An end is one side's *channel.  Four goroutines touch it: the writer    *)
(* half of Relay (source -> Write), the reader half (Read -> sink), the    *)
(* goroutine that calls Close, and the readLoop of the side's CtrlConn.    *)
(* A goroutine's step runs from one lock acquisition to the next one, or   *)
(* to the next frame it writes.                                            *)
(*                                                                         *)
(* A payload byte is its position in its writer's stream; a data frame     *)
(* carries the positions lo+1 .. lo+n.  A window update's lo is auxiliary: *)
(* the number of bytes its sender had granted before it.                   *)
(***************************************************************************)
EXTENDS Integers, Sequences, FiniteSets

CONSTANTS
  Chans,              \* channel ids, allocated by the server's nextID
  DefaultSendWindow,  \* initial send credit of each side, in bytes
  MaxReceiveBuffer,   \* cap on the bytes buffered per end
  BufferSize,         \* the copy buffer of Relay: one Read or one Write
  WireCap,            \* frames that TCP holds per direction before a send blocks
  MaxBytes,           \* bound: bytes each side's source produces per channel
  SinkMayFail,        \* may the application's socket refuse a write
  DialMayFail         \* may the client's dial of its local target fail

Sides == {"server", "client"}

ASSUME ChannelAssumption ==
  /\ DefaultSendWindow \in [Sides -> Nat \ {0}]
  /\ MaxReceiveBuffer \in Nat \ {0}
  /\ BufferSize \in Nat \ {0}
  /\ WireCap \in Nat \ {0}
  /\ MaxBytes \in [Sides -> Nat]
  /\ SinkMayFail \in BOOLEAN
  /\ DialMayFail \in BOOLEAN

Other(s) == IF s = "server" THEN "client" ELSE "server"
Ends == Sides \X Chans
Side(e) == e[1]
Peer(e) == <<Other(e[1]), e[2]>>

VARIABLES
  status,      \* channel.status: "open", "writeClosed", "closed"
  mapped,      \* is the end in its CtrlConn's channels map
  rb,          \* channel.rb, the receive buffer
  rerr,        \* channel.rerr: "nil", "EOF", "overflow"
  sendWindow,  \* channel.sendWindow
  wpc,         \* where the writer goroutine is
  pend,        \* bytes of the current Write not yet on the wire
  chunk,       \* bytes reserved from sendWindow and not yet on the wire
  rpc,         \* where the reader goroutine is; "credit" holds channel.rmu
  got,         \* bytes read and not yet credited back
  closing,     \* where the goroutine in Close is
  wire,        \* wire[s]: frames sent to side s that its readLoop has not read
  sent,        \* history: bytes the writer has put on the wire
  consumed     \* history: bytes the reader has taken out of rb

wvars == <<wpc, pend, chunk>>
rvars == <<rpc, got>>
vars == <<status, mapped, rb, rerr, sendWindow, wpc, pend, chunk, rpc, got,
          closing, wire, sent, consumed>>

Frame == [type : {"new", "data", "close", "wu"}, ch : Chans, lo : Nat, n : Nat]

(* The one type invariant. *)
TypeOK ==
  /\ status \in [Ends -> {"open", "writeClosed", "closed"}]
  /\ mapped \in [Ends -> BOOLEAN]
  /\ rb \in [Ends -> Seq(Nat)]
  /\ rerr \in [Ends -> {"nil", "EOF", "overflow"}]
  /\ sendWindow \in [Ends -> Nat]
  /\ wpc \in [Ends -> {"off", "open", "dial", "src", "write", "window",
                       "waiting", "send", "closeWrite", "sendClose", "done"}]
  /\ pend \in [Ends -> Nat]
  /\ chunk \in [Ends -> Nat]
  /\ rpc \in [Ends -> {"off", "read", "waiting", "credit", "sink",
                       "eof", "failed"}]
  /\ got \in [Ends -> Nat]
  /\ closing \in [Ends -> {"no", "asked", "wakeReader", "wakeWriter", "remove",
                           "send", "done"}]
  /\ wire \in [Sides -> Seq(Frame)]
  /\ sent \in [Ends -> Nat]
  /\ consumed \in [Ends -> Nat]

-----------------------------------------------------------------------------
(* Helpers *)

(* sendFrame: cc.wmu serialises the writers, and a write blocks while TCP  *)
(* has no room.                                                            *)
sendFrame(e, type, lo, n) ==
  /\ Len(wire[Other(Side(e))]) < WireCap
  /\ wire' = [wire EXCEPT ![Other(Side(e))] =
                Append(@, [type |-> type, ch |-> e[2], lo |-> lo, n |-> n])]

(* Write's chunk: as much of b as the window allows. *)
ChunkLen_ignoringWindow(e) == pend[e]
ChunkLen(e) == IF pend[e] > sendWindow[e] THEN sendWindow[e] ELSE pend[e]

(* rb.Read(b): at most the copy buffer, from the front. *)
TakeLen(e) == IF Len(rb[e]) > BufferSize THEN BufferSize ELSE Len(rb[e])
Rest_reread(e, n) == SubSeq(rb[e], n, Len(rb[e]))
Rest(e, n) == SubSeq(rb[e], n + 1, Len(rb[e]))

(* sendWindowUpdate(n): what Read gives back to the peer. *)
WindowDelta_fullReadsOnly(n) == IF n = BufferSize THEN n ELSE 0
WindowDelta(n) == n

(* Read returns an error only once the buffer is drained. *)
EndOfStream_errorFirst(e) == rerr[e] # "nil" \/ status[e] = "closed"
EndOfStream(e) == /\ rb[e] = <<>>
                  /\ rerr[e] # "nil" \/ status[e] = "closed"

(* rcond.Broadcast and wcond.Broadcast. *)
WakeReader(e) == IF rpc[e] = "waiting" THEN "read" ELSE rpc[e]
WakeWriter_never(e) == wpc[e]
WakeWriter(e) == IF wpc[e] = "waiting" THEN "window" ELSE wpc[e]

(* channel.rmu is held across sendWindowUpdate and by nothing else that    *)
(* blocks.                                                                 *)
RmuFree(e) == rpc[e] # "credit"

Bytes(lo, n) == [i \in 1..n |-> lo + i]

-----------------------------------------------------------------------------
Init ==
  /\ status = [e \in Ends |-> "open"]
  /\ mapped = [e \in Ends |-> FALSE]
  /\ rb = [e \in Ends |-> <<>>]
  /\ rerr = [e \in Ends |-> "nil"]
  /\ sendWindow = [e \in Ends |-> DefaultSendWindow[Side(e)]]
  /\ wpc = [e \in Ends |-> "off"]
  /\ pend = [e \in Ends |-> 0]
  /\ chunk = [e \in Ends |-> 0]
  /\ rpc = [e \in Ends |-> "off"]
  /\ got = [e \in Ends |-> 0]
  /\ closing = [e \in Ends |-> "no"]
  /\ wire = [s \in Sides |-> <<>>]
  /\ sent = [e \in Ends |-> 0]
  /\ consumed = [e \in Ends |-> 0]

-----------------------------------------------------------------------------
(* The server's dispatch goroutine and the client's relayChannel. *)

(* OpenChannel registers the channel before the peer can hear of it ... *)
OpenRegister(e) ==
  /\ Side(e) = "server" /\ wpc[e] = "off"
  /\ mapped' = [mapped EXCEPT ![e] = TRUE]
  /\ wpc' = [wpc EXCEPT ![e] = "open"]
  /\ UNCHANGED <<status, rb, rerr, sendWindow, pend, chunk, rvars, closing,
                 wire, sent, consumed>>

(* ... then sends NewChannel; dispatch starts Relay on the result. *)
OpenSend(e) ==
  /\ wpc[e] = "open"
  /\ sendFrame(e, "new", 0, 0)
  /\ wpc' = [wpc EXCEPT ![e] = "src"]
  /\ rpc' = [rpc EXCEPT ![e] = "read"]
  /\ UNCHANGED <<status, mapped, rb, rerr, sendWindow, pend, chunk, got,
                 closing, sent, consumed>>

DialOk(e) ==
  /\ wpc[e] = "dial"
  /\ wpc' = [wpc EXCEPT ![e] = "src"]
  /\ rpc' = [rpc EXCEPT ![e] = "read"]
  /\ UNCHANGED <<status, mapped, rb, rerr, sendWindow, pend, chunk, got,
                 closing, wire, sent, consumed>>

(* A failed dial goes straight to ch.Close: see CloseBegin. *)
DialFail(e) ==
  /\ DialMayFail /\ wpc[e] = "dial"
  /\ wpc' = [wpc EXCEPT ![e] = "done"]
  /\ rpc' = [rpc EXCEPT ![e] = "failed"]
  /\ UNCHANGED <<status, mapped, rb, rerr, sendWindow, pend, chunk, got,
                 closing, wire, sent, consumed>>

-----------------------------------------------------------------------------
(* The writer half of Relay: io.CopyBuffer(channel, source, buf), then     *)
(* closeWrite(channel).                                                    *)

SrcRead(e, n) ==
  /\ wpc[e] = "src"
  /\ sent[e] + n <= MaxBytes[Side(e)]
  /\ pend' = [pend EXCEPT ![e] = n]
  /\ wpc' = [wpc EXCEPT ![e] = "write"]
  /\ UNCHANGED <<status, mapped, rb, rerr, sendWindow, chunk, rvars, closing,
                 wire, sent, consumed>>

(* End of the source's stream, or an error reading it. *)
SrcEnd(e) ==
  /\ wpc[e] = "src"
  /\ wpc' = [wpc EXCEPT ![e] = "closeWrite"]
  /\ UNCHANGED <<status, mapped, rb, rerr, sendWindow, pend, chunk, rvars,
                 closing, wire, sent, consumed>>

(* Write's entry check; a refused or aborted Write ends the copy. *)
WriteEnter(e) ==
  /\ wpc[e] = "write" /\ status[e] = "open"
  /\ wpc' = [wpc EXCEPT ![e] = "window"]
  /\ UNCHANGED <<status, mapped, rb, rerr, sendWindow, pend, chunk, rvars,
                 closing, wire, sent, consumed>>

WriteRefused(e) ==
  /\ wpc[e] = "write" /\ status[e] # "open"
  /\ wpc' = [wpc EXCEPT ![e] = "closeWrite"]
  /\ UNCHANGED <<status, mapped, rb, rerr, sendWindow, pend, chunk, rvars,
                 closing, wire, sent, consumed>>

WriteAbort(e) ==
  /\ wpc[e] = "window" /\ sendWindow[e] <= 0 /\ status[e] # "open"
  /\ wpc' = [wpc EXCEPT ![e] = "closeWrite"]
  /\ UNCHANGED <<status, mapped, rb, rerr, sendWindow, pend, chunk, rvars,
                 closing, wire, sent, consumed>>

WriteWait(e) ==
  /\ wpc[e] = "window" /\ sendWindow[e] <= 0 /\ status[e] = "open"
  /\ wpc' = [wpc EXCEPT ![e] = "waiting"]
  /\ UNCHANGED <<status, mapped, rb, rerr, sendWindow, pend, chunk, rvars,
                 closing, wire, sent, consumed>>

(* With credit left, Write goes on without looking at the status again. *)
WriteReserve(e) ==
  /\ wpc[e] = "window" /\ sendWindow[e] > 0
  /\ chunk' = [chunk EXCEPT ![e] = ChunkLen(e)]
  /\ sendWindow' = [sendWindow EXCEPT ![e] = @ - ChunkLen(e)]
  /\ wpc' = [wpc EXCEPT ![e] = "send"]
  /\ UNCHANGED <<status, mapped, rb, rerr, pend, rvars, closing, wire, sent,
                 consumed>>

WriteSend(e) ==
  /\ wpc[e] = "send"
  /\ sendFrame(e, "data", sent[e], chunk[e])
  /\ sent' = [sent EXCEPT ![e] = @ + chunk[e]]
  /\ pend' = [pend EXCEPT ![e] = @ - chunk[e]]
  /\ chunk' = [chunk EXCEPT ![e] = 0]
  /\ wpc' = [wpc EXCEPT ![e] = IF pend[e] = chunk[e] THEN "src" ELSE "window"]
  /\ UNCHANGED <<status, mapped, rb, rerr, sendWindow, rvars, closing, consumed>>

CloseWrite(e) ==
  /\ wpc[e] = "closeWrite" /\ status[e] = "open"
  /\ status' = [status EXCEPT ![e] = "writeClosed"]
  /\ wpc' = [wpc EXCEPT ![e] = "sendClose"]
  /\ UNCHANGED <<mapped, rb, rerr, sendWindow, pend, chunk, rvars, closing,
                 wire, sent, consumed>>

CloseWriteNoop(e) ==
  /\ wpc[e] = "closeWrite" /\ status[e] # "open"
  /\ wpc' = [wpc EXCEPT ![e] = "done"]
  /\ UNCHANGED <<status, mapped, rb, rerr, sendWindow, pend, chunk, rvars,
                 closing, wire, sent, consumed>>

CloseWriteSend(e) ==
  /\ wpc[e] = "sendClose"
  /\ sendFrame(e, "close", sent[e], 0)
  /\ wpc' = [wpc EXCEPT ![e] = "done"]
  /\ UNCHANGED <<status, mapped, rb, rerr, sendWindow, pend, chunk, rvars,
                 closing, sent, consumed>>

-----------------------------------------------------------------------------
(* The reader half of Relay: io.CopyBuffer(sink, channel, buf). *)

ReadTake(e) ==
  /\ rpc[e] = "read" /\ rb[e] # <<>>
  /\ rb' = [rb EXCEPT ![e] = Rest(e, TakeLen(e))]
  /\ got' = [got EXCEPT ![e] = TakeLen(e)]
  /\ consumed' = [consumed EXCEPT ![e] = @ + TakeLen(e)]
  /\ rpc' = [rpc EXCEPT ![e] = "credit"]
  /\ UNCHANGED <<status, mapped, rerr, sendWindow, wvars, closing, wire, sent>>

(* sendWindowUpdate, with rmu still held by the deferred Unlock of Read. *)
ReadCredit(e) ==
  /\ rpc[e] = "credit"
  /\ sendFrame(e, "wu", consumed[e] - got[e], WindowDelta(got[e]))
  /\ got' = [got EXCEPT ![e] = 0]
  /\ rpc' = [rpc EXCEPT ![e] = "sink"]
  /\ UNCHANGED <<status, mapped, rb, rerr, sendWindow, wvars, closing, sent,
                 consumed>>

ReadEnd(e) ==
  /\ rpc[e] = "read" /\ EndOfStream(e)
  /\ rpc' = [rpc EXCEPT ![e] = "eof"]
  /\ UNCHANGED <<status, mapped, rb, rerr, sendWindow, wvars, got, closing,
                 wire, sent, consumed>>

ReadWait(e) ==
  /\ rpc[e] = "read" /\ rb[e] = <<>> /\ ~EndOfStream(e)
  /\ rpc' = [rpc EXCEPT ![e] = "waiting"]
  /\ UNCHANGED <<status, mapped, rb, rerr, sendWindow, wvars, got, closing,
                 wire, sent, consumed>>

SinkWrite(e) ==
  /\ rpc[e] = "sink"
  /\ rpc' = [rpc EXCEPT ![e] = "read"]
  /\ UNCHANGED <<status, mapped, rb, rerr, sendWindow, wvars, got, closing,
                 wire, sent, consumed>>

(* The application's socket refuses the bytes: the copy ends. *)
SinkFail(e) ==
  /\ SinkMayFail /\ rpc[e] = "sink"
  /\ rpc' = [rpc EXCEPT ![e] = "failed"]
  /\ UNCHANGED <<status, mapped, rb, rerr, sendWindow, wvars, got, closing,
                 wire, sent, consumed>>

-----------------------------------------------------------------------------
(* channel.Close, called when Relay has returned, when the dial failed, or *)
(* by the goroutine pushData starts on overflow.                           *)

RelayReturned(e) == wpc[e] = "done" /\ rpc[e] \in {"eof", "failed"}

CloseBegin(e) ==
  /\ closing[e] \in {"no", "asked"}
  /\ closing[e] = "asked" \/ RelayReturned(e)
  /\ status' = [status EXCEPT ![e] = "closed"]
  /\ closing' = [closing EXCEPT ![e] = "wakeReader"]
  /\ UNCHANGED <<mapped, rb, rerr, sendWindow, wvars, rvars, wire, sent, consumed>>

CloseWakeReader(e) ==
  /\ closing[e] = "wakeReader" /\ RmuFree(e)
  /\ rpc' = [rpc EXCEPT ![e] = WakeReader(e)]
  /\ closing' = [closing EXCEPT ![e] = "wakeWriter"]
  /\ UNCHANGED <<status, mapped, rb, rerr, sendWindow, wvars, got, wire, sent,
                 consumed>>

CloseWakeWriter(e) ==
  /\ closing[e] = "wakeWriter"
  /\ wpc' = [wpc EXCEPT ![e] = WakeWriter(e)]
  /\ closing' = [closing EXCEPT ![e] = "remove"]
  /\ UNCHANGED <<status, mapped, rb, rerr, sendWindow, pend, chunk, rvars,
                 wire, sent, consumed>>

removeChannel(e) ==
  /\ closing[e] = "remove"
  /\ mapped' = [mapped EXCEPT ![e] = FALSE]
  /\ closing' = [closing EXCEPT ![e] = "send"]
  /\ UNCHANGED <<status, rb, rerr, sendWindow, wvars, rvars, wire, sent, consumed>>

CloseSend(e) ==
  /\ closing[e] = "send"
  /\ sendFrame(e, "close", sent[e], 0)
  /\ closing' = [closing EXCEPT ![e] = "done"]
  /\ UNCHANGED <<status, mapped, rb, rerr, sendWindow, wvars, rvars, sent, consumed>>

-----------------------------------------------------------------------------
(* The readLoop of side s: handleFrame on the oldest frame sent to it. *)

Arrives(s, type) == wire[s] # <<>> /\ Head(wire[s]).type = type
ReadFrame(s) == wire' = [wire EXCEPT ![s] = Tail(@)]
For(s) == <<s, Head(wire[s]).ch>>

(* A frame for an id that is not in the map is dropped. *)
DropUnmapped(s) ==
  /\ wire[s] # <<>> /\ Head(wire[s]).type # "new" /\ ~mapped[For(s)]
  /\ ReadFrame(s)
  /\ UNCHANGED <<status, mapped, rb, rerr, sendWindow, wvars, rvars, closing,
                 sent, consumed>>

(* handleNewChannel, and handleChannels starting relayChannel. *)
handleNewChannel(s) ==
  /\ Arrives(s, "new")
  /\ ReadFrame(s)
  /\ mapped' = [mapped EXCEPT ![For(s)] = TRUE]
  /\ wpc' = [wpc EXCEPT ![For(s)] = "dial"]
  /\ UNCHANGED <<status, rb, rerr, sendWindow, pend, chunk, rvars, closing,
                 sent, consumed>>

(* handleChannelData and pushData; the readLoop blocks while rmu is held. *)
pushData(s) ==
  /\ Arrives(s, "data")
  /\ LET e == For(s)
         f == Head(wire[s])
     IN  /\ mapped[e] /\ RmuFree(e)
         /\ Len(rb[e]) + f.n <= MaxReceiveBuffer
         /\ rb' = [rb EXCEPT ![e] = @ \o Bytes(f.lo, f.n)]
         /\ rpc' = [rpc EXCEPT ![e] = WakeReader(e)]
  /\ ReadFrame(s)
  /\ UNCHANGED <<status, mapped, rerr, sendWindow, wvars, got, closing, sent,
                 consumed>>

(* pushData's safety net: drop the data, record the error, start Close. *)
pushDataOverflow(s) ==
  /\ Arrives(s, "data")
  /\ LET e == For(s)
         f == Head(wire[s])
     IN  /\ mapped[e] /\ RmuFree(e)
         /\ Len(rb[e]) + f.n > MaxReceiveBuffer
         /\ rerr' = [rerr EXCEPT ![e] = "overflow"]
         /\ rpc' = [rpc EXCEPT ![e] = WakeReader(e)]
         /\ closing' = [closing EXCEPT ![e] = IF @ = "no" THEN "asked" ELSE @]
  /\ ReadFrame(s)
  /\ UNCHANGED <<status, mapped, rb, sendWindow, wvars, got, sent, consumed>>

(* handleChannelClose and setError(io.EOF): it wakes the reader only. *)
handleChannelClose(s) ==
  /\ Arrives(s, "close")
  /\ LET e == For(s)
     IN  /\ mapped[e] /\ RmuFree(e)
         /\ rerr' = [rerr EXCEPT ![e] = "EOF"]
         /\ rpc' = [rpc EXCEPT ![e] = WakeReader(e)]
  /\ ReadFrame(s)
  /\ UNCHANGED <<status, mapped, rb, sendWindow, wvars, got, closing, sent, consumed>>

(* handleWindowUpdate and addSendWindow. *)
handleWindowUpdate(s) ==
  /\ Arrives(s, "wu")
  /\ LET e == For(s)
     IN  /\ mapped[e]
         /\ sendWindow' = [sendWindow EXCEPT ![e] = @ + Head(wire[s]).n]
         /\ wpc' = [wpc EXCEPT ![e] = WakeWriter(e)]
  /\ ReadFrame(s)
  /\ UNCHANGED <<status, mapped, rb, rerr, pend, chunk, rvars, closing, sent,
                 consumed>>

-----------------------------------------------------------------------------
Writer(e) ==
  \/ OpenSend(e) \/ DialOk(e) \/ DialFail(e)
  \/ \E n \in 1..BufferSize : SrcRead(e, n)
  \/ SrcEnd(e)
  \/ WriteEnter(e) \/ WriteRefused(e) \/ WriteAbort(e) \/ WriteWait(e)
  \/ WriteReserve(e) \/ WriteSend(e)
  \/ CloseWrite(e) \/ CloseWriteNoop(e) \/ CloseWriteSend(e)

Reader(e) ==
  \/ ReadTake(e) \/ ReadCredit(e) \/ ReadEnd(e) \/ ReadWait(e)
  \/ SinkWrite(e) \/ SinkFail(e)

Closer(e) ==
  \/ CloseBegin(e) \/ CloseWakeReader(e) \/ CloseWakeWriter(e)
  \/ removeChannel(e) \/ CloseSend(e)

handleFrame(s) ==
  \/ DropUnmapped(s) \/ handleNewChannel(s) \/ pushData(s)
  \/ pushDataOverflow(s) \/ handleChannelClose(s) \/ handleWindowUpdate(s)

Next ==
  \/ \E e \in Ends : OpenRegister(e) \/ Writer(e) \/ Reader(e) \/ Closer(e)
  \/ \E s \in Sides : handleFrame(s)

Spec == Init /\ [][Next]_vars

(* The Go scheduler runs every goroutine that can run; no connection has   *)
(* to arrive (OpenRegister), but a source that was opened ends and a sink  *)
(* that is written to answers.                                             *)
Fairness ==
  /\ \A e \in Ends : WF_vars(Writer(e)) /\ WF_vars(Reader(e)) /\ WF_vars(Closer(e))
  /\ \A s \in Sides : WF_vars(handleFrame(s))

FairSpec == Spec /\ Fairness

-----------------------------------------------------------------------------
(* Properties *)

(* The two sides agree well enough for the window to protect the buffer    *)
(* (64 KiB against 256 KiB in stream.go).                                  *)
FitsReceiveBuffer ==
  \A s \in Sides : DefaultSendWindow[s] <= MaxReceiveBuffer

(* Back-pressure: what a writer has put on the wire and its reader has not *)
(* taken (in flight, buffered or dropped) never exceeds the window the     *)
(* writer started with, whatever the order of data, credit and close.      *)
FlowControl ==
  \A e \in Ends : sent[e] - consumed[Peer(e)] <= DefaultSendWindow[Side(e)]

(* pushData's safety net is never needed: no channel is torn down for a    *)
(* receive buffer overflow.                                                *)
NoOverflow == \A e \in Ends : rerr[e] # "overflow"

(* The bytes waiting in rb are the ones that follow what Read has returned, *)
(* without a gap, a repetition or a swap.                                  *)
InOrder ==
  \A e \in Ends : \A i \in DOMAIN rb[e] : rb[e][i] = consumed[e] + i

(* A reader that sees the end of the stream has read every byte the peer's *)
(* source produced: half-close and Close never overtake data.              *)
LosslessEOF ==
  \A e \in Ends : rpc[e] = "eof" =>
    /\ wpc[Peer(e)] = "done"
    /\ pend[Peer(e)] = 0
    /\ consumed[e] = sent[Peer(e)]

(* The bytes that the frames of one type carry for channel ch, in the      *)
(* order of the wire.                                                      *)
Payload(f, ch, type) ==
  IF f.type = type /\ f.ch = ch THEN Bytes(f.lo, f.n) ELSE <<>>

Carried(w, ch, type) ==
  LET upTo[k \in 0..Len(w)] ==
        IF k = 0 THEN <<>> ELSE upTo[k - 1] \o Payload(w[k], ch, type)
  IN  upTo[Len(w)]

(* ... on their way to end e. *)
InFlight(e, type) == Carried(wire[Side(e)], e[2], type)

(* No credit is lost and none is invented: while neither end has left its  *)
(* map, a writer's window, its reservation, the data in flight and         *)
(* buffered, the bytes read but not yet credited and the credit in flight  *)
(* add up to the initial window.                                           *)
CreditConserved ==
  \A e \in Ends :
    {closing[e], closing[Peer(e)]} \cap {"send", "done"} = {} =>
      sendWindow[e] + chunk[e] + Len(InFlight(Peer(e), "data"))
        + Len(rb[Peer(e)]) + got[Peer(e)] + Len(InFlight(e, "wu"))
          = DefaultSendWindow[Side(e)]

(* The refinement mapping: the stream of end e's writer holds what its     *)
(* peer has buffered followed by the data frames still on the wire.        *)
Unread(e) ==
  IF rpc[Peer(e)] = "failed" THEN <<>>
  ELSE rb[Peer(e)] \o InFlight(Peer(e), "data")

(* ... its writer has finished once it may not write and owes nothing ... *)
Writing(e) == IF status[e] # "open" /\ pend[e] = 0 THEN "finished" ELSE "open"

(* ... and its reader is the peer's. *)
Reading(e) ==
  IF rpc[Peer(e)] \in {"eof", "failed"} THEN rpc[Peer(e)] ELSE "open"

Stream == INSTANCE ByteStream WITH
  Streams <- Ends,
  written <- sent,
  queue <- [e \in Ends |-> Unread(e)],
  writer <- [e \in Ends |-> Writing(e)],
  reader <- [e \in Ends |-> Reading(e)]

(* The frames, windows and half-closes of a channel implement an ordered   *)
(* byte stream in each direction: nothing is lost, repeated, reordered or  *)
(* cut short by an early end unless the reading application gave up.       *)
ImplementsStream == Stream!Spec

(* A writer that waits for credit nobody will give: the peer's reader has  *)
(* ended, its last window update has arrived, and no Close is under way at *)
(* this end.  The peer's ChannelClose does not wake it: setError only      *)
(* wakes readers.                                                          *)
Starved(e) ==
  /\ wpc[e] = "waiting" /\ closing[e] = "no"
  /\ rpc[Peer(e)] \in {"eof", "failed"} /\ InFlight(e, "wu") = <<>>

(* Both readLoops wait for the rmu of a channel whose Read waits for room  *)
(* on the wire that the other one should be draining: nothing moves again. *)
ReadLoopStuck(s) ==
  /\ wire[s] # <<>> /\ Head(wire[s]).type \in {"data", "close"}
  /\ mapped[For(s)] /\ ~RmuFree(For(s))
  /\ Len(wire[Other(s)]) >= WireCap
Gridlock == \A s \in Sides : ReadLoopStuck(s)

(* With applications that finish, every channel that was opened is closed  *)
(* and dropped from the map on both sides, except at an end whose writer   *)
(* is starved, and in the gridlock of both readLoops.                      *)
Reclaimed ==
  \A e \in Ends :
    wpc[e] # "off" ~> ((closing[e] = "done" /\ ~mapped[e]) \/ Starved(e) \/ Gridlock)

(* Without the exceptions.                                                 *)
AlwaysReclaimed ==
  \A e \in Ends : wpc[e] # "off" ~> (closing[e] = "done" /\ ~mapped[e])

(* Close releases the local goroutines: a Read or a Write that was blocked *)
(* when Close ran returns, so Relay returns and the socket is closed.      *)
CloseReleases ==
  \A e \in Ends : closing[e] = "done" ~> RelayReturned(e)

(* When the peer has fully closed a channel, this side's Relay returns and *)
(* the application's connection is closed rather than left hanging.        *)
PeerCloseReleases ==
  \A e \in Ends : closing[Peer(e)] = "done" ~> RelayReturned(e)

(* The two readLoops never block each other for good.                      *)
NoGridlock == ~Gridlock

-----------------------------------------------------------------------------
(* The inductive invariant behind FlowControl and NoOverflow, proved in    *)
(* ChannelProofs.  It orders the stream positions a byte goes through:     *)
(* credited <= granted <= consumed <= received <= on the wire <= sent.     *)

Received(e) == consumed[e] + Len(rb[e])
Granted(e) == consumed[e] - got[e]
Held(e) == sendWindow[e] + chunk[e] + sent[e]

IsFrame(e, type, i) == /\ wire[Side(e)][i].type = type
                       /\ wire[Side(e)][i].ch = e[2]
Lo(e, i) == wire[Side(e)][i].lo
Hi(e, i) == wire[Side(e)][i].lo + wire[Side(e)][i].n

(* Reservations and uncredited reads exist only inside Write and Read. *)
Reserved ==
  \A e \in Ends : /\ wpc[e] # "send" => chunk[e] = 0
                  /\ rpc[e] # "credit" => got[e] = 0
                  /\ chunk[e] <= pend[e]
                  /\ got[e] <= consumed[e]

(* A channel is opened once, by the server, and runs its Relay once: the    *)
(* client's end is untouched until the only NewChannel frame arrives.      *)
Started(e) ==
  /\ wpc[e] \in {"off", "open", "dial"} => rpc[e] = "off"
  /\ Side(e) = "client" /\ wpc[e] # "off" => wpc[Peer(e)] \notin {"off", "open"}
  /\ Side(e) = "client" => wpc[e] # "open"

Announced(e) ==
  \A i \in DOMAIN wire[Side(e)] : IsFrame(e, "new", i) =>
    /\ Side(e) = "client" /\ wpc[e] = "off"
    /\ wpc[Peer(e)] \notin {"off", "open"}
    /\ \A j \in DOMAIN wire[Side(e)] : IsFrame(e, "new", j) => i = j

Opening == \A e \in Ends : Started(e) /\ Announced(e)

(* A writer never holds more than its initial window plus what was granted. *)
CreditBound ==
  \A e \in Ends : Held(e) <= DefaultSendWindow[Side(e)] + Granted(Peer(e))

ReceivedBound == \A e \in Ends : Received(e) <= sent[Peer(e)]

(* Frames of one type on one channel travel in stream order, the data ones *)
(* between what was received and what was sent, the credit ones between    *)
(* what was credited and what was granted.                                 *)
Ordered(e, type) ==
  \A i, j \in DOMAIN wire[Side(e)] :
    IsFrame(e, type, i) /\ IsFrame(e, type, j) /\ i < j => Hi(e, i) <= Lo(e, j)

DataOnWire ==
  \A e \in Ends :
    /\ Ordered(e, "data")
    /\ \A i \in DOMAIN wire[Side(e)] : IsFrame(e, "data", i) =>
         Received(e) <= Lo(e, i) /\ Hi(e, i) <= sent[Peer(e)]

CreditOnWire ==
  \A e \in Ends :
    /\ Ordered(e, "wu")
    /\ \A i \in DOMAIN wire[Side(e)] : IsFrame(e, "wu", i) =>
         /\ Held(e) <= DefaultSendWindow[Side(e)] + Lo(e, i)
         /\ Hi(e, i) <= Granted(Peer(e))

WindowInv == CreditBound /\ ReceivedBound /\ DataOnWire /\ CreditOnWire

(* The whole of it; TLC checks it on the small instance, TLAPS proves it   *)
(* inductive.                                                              *)
FlowInv == Reserved /\ Opening /\ WindowInv
=============================================================================
