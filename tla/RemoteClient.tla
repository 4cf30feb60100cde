---------------------------- MODULE RemoteClient ----------------------------
(***************************************************************************)
(* The remote (-R) client: relay/remoteclient.go with KeepAlive of         *)
(* relay/ctrlconn.go.  Run connects, serves channels until the control     *)
(* connection dies and connects again, with a backoff after a failure;     *)
(* KeepAlive closes a connection whose peer fell silent; Close stops the   *)
(* client from another goroutine.                                          *)
(*                                                                         *)
(* Time passes in ticks of KeepAlive's interval.  Of the channels only     *)
(* what blocks on a peer that does not read is kept (see Channel and       *)
(* CtrlConn): a writer with cc.wmu, and a Read with its channel's rmu.     *)
(***************************************************************************)
EXTENDS Integers

CONSTANTS
  Timeout,        \* KeepAlive's timeout in ticks (45 s / 15 s)
  MaxAttempt,     \* bound: the attempt counter is not counted further
  NeedsReply,     \* connect reads an answer: with TLS, or with a token
  Silences,       \* may a peer fall silent, its connection staying open
  SendMayBlock    \* may the frames of channels to a silent peer block

ASSUME RemoteClientAssumption ==
  /\ Timeout \in Nat \ {0}
  /\ MaxAttempt \in Nat \ {0}
  /\ NeedsReply \in BOOLEAN /\ Silences \in BOOLEAN /\ SendMayBlock \in BOOLEAN

VARIABLES
  pc,        \* where Run (and connect under it) is
  attempt,   \* failures in a row
  rested,    \* was there a delay since the last attempt to connect
  closed,    \* stopCh is closed
  cpc,       \* where Close is
  ccSet,     \* rc.cc # nil
  link,      \* the socket: "none", "open", "closed"
  silent,    \* the peer neither reads nor writes any more
  stuck,     \* "wmu": a writer is blocked in WriteFrame with cc.wmu;
             \* "rmu": so is a Read, in sendWindowUpdate, with its channel's rmu
  ka,        \* KeepAlive: "off", "wait" for the ticker, "send" a ping, "close"
  idle,      \* ticks since the last inbound frame
  asked      \* a ping is on its way or not answered yet

vars == <<pc, attempt, rested, closed, cpc, ccSet, link, silent, stuck, ka, idle, asked>>

TypeOK ==
  /\ pc \in {"new", "top", "dial", "handshake", "publish", "serve", "failed", "backoff", "done"}
  /\ attempt \in 0..MaxAttempt
  /\ rested \in BOOLEAN /\ closed \in BOOLEAN
  /\ cpc \in {"no", "check", "closeAll", "done"}
  /\ ccSet \in BOOLEAN
  /\ link \in {"none", "open", "closed"}
  /\ silent \in BOOLEAN /\ stuck \in {"none", "wmu", "rmu"}
  /\ ka \in {"off", "wait", "send", "close"}
  /\ idle \in 0..Timeout + 1
  /\ asked \in BOOLEAN

Init ==
  /\ pc = "new" /\ attempt = 0 /\ rested = TRUE
  /\ closed = FALSE /\ cpc = "no" /\ ccSet = FALSE
  /\ link = "none" /\ silent = FALSE /\ stuck = "none"
  /\ ka = "off" /\ idle = 0 /\ asked = FALSE

connVars == <<link, silent, stuck, ka, idle, asked>>

-----------------------------------------------------------------------------
(* Run and connect *)

(* NewRemoteClient has returned and Run is called. *)
RunBegins ==
  /\ pc = "new"
  /\ pc' = "top"
  /\ UNCHANGED <<attempt, rested, closed, cpc, ccSet, connVars>>

RunStopped ==
  /\ pc \in {"top", "failed", "backoff"} /\ closed
  /\ pc' = "done"
  /\ UNCHANGED <<attempt, rested, closed, cpc, ccSet, connVars>>

RunConnects ==
  /\ pc = "top" /\ ~closed
  /\ pc' = "dial"
  /\ UNCHANGED <<attempt, rested, closed, cpc, ccSet, connVars>>

(* The TCP connect of net.DialTimeout or tls.Dial: it ends, if only by the *)
(* timeout of the dial or of the kernel.                                   *)
DialOk ==
  /\ pc = "dial"
  /\ pc' = "handshake"
  /\ rested' = FALSE
  /\ link' = "open" /\ silent' = FALSE
  /\ UNCHANGED <<attempt, closed, cpc, ccSet, stuck, ka, idle, asked>>

DialFail ==
  /\ pc = "dial"
  /\ pc' = "failed"
  /\ rested' = FALSE
  /\ UNCHANGED <<attempt, closed, cpc, ccSet, connVars>>

(* The TLS handshake in tls.Dial and AuthClient (with a token) read an     *)
(* answer, without a deadline; RegisterClient only writes.                 *)
HandshakeOk ==
  /\ pc = "handshake" /\ (NeedsReply => link = "open" /\ ~silent)
  /\ pc' = "publish"
  /\ UNCHANGED <<attempt, rested, closed, cpc, ccSet, connVars>>

HandshakeFail ==
  /\ pc = "handshake" /\ (silent => link = "closed")
  /\ pc' = "failed"
  /\ link' = "closed"
  /\ UNCHANGED <<attempt, rested, closed, cpc, ccSet, silent, stuck, ka, idle, asked>>

(* NewCtrlConn, rc.cc = cc, and KeepAlive starts. *)
Publish ==
  /\ pc = "publish"
  /\ pc' = "serve"
  /\ ccSet' = TRUE
  /\ ka' = "wait" /\ idle' = 0 /\ asked' = FALSE
  /\ UNCHANGED <<attempt, rested, closed, cpc, link, silent, stuck>>

(* AcceptChannel fails: connect returns nil, its defers stop KeepAlive and *)
(* clear rc.cc, once Close has left rc.mu.                                 *)
Disconnected ==
  /\ pc = "serve" /\ link = "closed" /\ cpc # "closeAll"
  /\ pc' = "top"
  /\ attempt' = 0
  /\ ccSet' = FALSE
  /\ ka' = "off" /\ stuck' = "none" /\ asked' = FALSE /\ idle' = 0
  /\ UNCHANGED <<rested, closed, cpc, link, silent>>

(* There is no last attempt. *)
TriesAgain_upToMax == ~closed /\ attempt < MaxAttempt
TriesAgain == ~closed

RunBacksOff ==
  /\ pc = "failed" /\ TriesAgain
  /\ pc' = "backoff"
  /\ attempt' = IF attempt < MaxAttempt THEN attempt + 1 ELSE attempt
  /\ UNCHANGED <<rested, closed, cpc, ccSet, connVars>>

BackoffOver ==
  /\ pc = "backoff"
  /\ pc' = "top"
  /\ rested' = TRUE
  /\ UNCHANGED <<attempt, closed, cpc, ccSet, connVars>>

-----------------------------------------------------------------------------
(* The peer and the network *)

PeerCloses ==
  /\ link = "open"
  /\ link' = "closed"
  /\ stuck' = "none"
  /\ UNCHANGED <<pc, attempt, rested, closed, cpc, ccSet, silent, ka, idle, asked>>

FallsSilent ==
  /\ Silences /\ link = "open" /\ ~silent
  /\ silent' = TRUE
  /\ UNCHANGED <<pc, attempt, rested, closed, cpc, ccSet, link, stuck, ka, idle, asked>>

(* Data of the channels fills the socket's buffer: a writer blocks in      *)
(* WriteFrame, and then, or first of all, a Read that returns credit does. *)
FrameBlocks ==
  /\ SendMayBlock /\ pc = "serve" /\ link = "open" /\ silent /\ stuck # "rmu"
  /\ stuck' \in {"wmu", "rmu"} \ {stuck}
  /\ UNCHANGED <<pc, attempt, rested, closed, cpc, ccSet, link, silent, ka, idle, asked>>

(* An inbound frame, the pong among them. *)
readLoop ==
  /\ pc = "serve" /\ link = "open" /\ ~silent
  /\ idle' = 0 /\ asked' = FALSE
  /\ UNCHANGED <<pc, attempt, rested, closed, cpc, ccSet, link, silent, stuck, ka>>

-----------------------------------------------------------------------------
(* KeepAlive *)

(* The ticker: a peer that is not silent answers a ping within a tick. *)
NextIdle_sendCounts == 0
NextIdle == idle + 1
Expired_eager == idle + 1 >= 1
Expired == idle + 1 > Timeout

Tick ==
  /\ ka = "wait" /\ link = "open" /\ (asked => silent)
  /\ ~Expired
  /\ idle' = NextIdle
  /\ ka' = "send"
  /\ UNCHANGED <<pc, attempt, rested, closed, cpc, ccSet, link, silent, stuck, asked>>

TickExpired ==
  /\ ka = "wait" /\ link = "open" /\ (asked => silent)
  /\ Expired
  /\ ka' = "close"
  /\ UNCHANGED <<pc, attempt, rested, closed, cpc, ccSet, link, silent, stuck, idle, asked>>

(* cc.Close: closeAll takes the rmu of every channel, and only then is the *)
(* socket closed, which ends every blocked write.                          *)
CtrlConnClose ==
  /\ stuck # "rmu"
  /\ link' = "closed" /\ stuck' = "none"

KeepAliveCloses ==
  /\ ka = "close"
  /\ CtrlConnClose
  /\ ka' = "off"
  /\ UNCHANGED <<pc, attempt, rested, closed, cpc, ccSet, silent, idle, asked>>

(* sendFrame needs cc.wmu; on a closed socket it fails at once. *)
SendPing ==
  /\ ka = "send" /\ stuck = "none"
  /\ ka' = "wait"
  /\ asked' = TRUE
  /\ UNCHANGED <<pc, attempt, rested, closed, cpc, ccSet, link, silent, stuck, idle>>

-----------------------------------------------------------------------------
(* Close *)

Close ==
  /\ cpc = "no"
  /\ closed' = TRUE /\ cpc' = "check"
  /\ UNCHANGED <<pc, attempt, rested, ccSet, connVars>>

ClosesConn_never == FALSE
ClosesConn == ccSet

CloseLooks ==
  /\ cpc = "check"
  /\ cpc' = IF ClosesConn THEN "closeAll" ELSE "done"
  /\ UNCHANGED <<pc, attempt, rested, closed, ccSet, connVars>>

(* With rc.mu held. *)
CloseConn ==
  /\ cpc = "closeAll"
  /\ CtrlConnClose
  /\ cpc' = "done"
  /\ UNCHANGED <<pc, attempt, rested, closed, ccSet, silent, ka, idle, asked>>

-----------------------------------------------------------------------------
Run == RunStopped \/ RunConnects \/ Publish \/ Disconnected \/ RunBacksOff
KeepAlive == Tick \/ TickExpired \/ KeepAliveCloses \/ SendPing

(* Everything but the two calls from outside, Run and Close. *)
Step ==
  \/ Run \/ DialOk \/ DialFail \/ HandshakeOk \/ HandshakeFail \/ BackoffOver
  \/ PeerCloses \/ FallsSilent \/ FrameBlocks \/ readLoop
  \/ KeepAlive \/ CloseLooks \/ CloseConn

Next == RunBegins \/ Step \/ Close

Spec == Init /\ [][Next]_vars

(* Goroutines run, timers fire, a TCP connect ends, and so does a          *)
(* handshake unless the peer fell silent in it.  The network comes back:   *)
(* attempts do not fail for ever.                                          *)
Fairness ==
  /\ WF_vars(RunBegins) /\ WF_vars(Run) /\ WF_vars(BackoffOver)
  /\ WF_vars(CloseLooks) /\ WF_vars(CloseConn)
  /\ WF_vars(Tick \/ TickExpired) /\ WF_vars(KeepAliveCloses) /\ WF_vars(SendPing)
  /\ WF_vars(asked /\ readLoop)
  /\ WF_vars(DialOk \/ DialFail) /\ SF_vars(DialOk)
  /\ WF_vars(HandshakeOk \/ HandshakeFail) /\ SF_vars(link = "open" /\ HandshakeOk)
  /\ SF_vars(link = "open" /\ Publish)

FairSpec == Spec /\ Fairness

-----------------------------------------------------------------------------
(* Properties *)

Connected == ccSet /\ link = "open"

(* Run waits for an answer in the TLS handshake or in AuthClient that the  *)
(* peer will not give; neither has a deadline, and KeepAlive is not there  *)
(* yet.                                                                    *)
HeldUp == NeedsReply /\ pc = "handshake" /\ silent /\ link = "open"

(* A client that runs never gives up: whatever failed, it is connected     *)
(* again, or was told to stop, or a peer holds it up in the handshake by   *)
(* leaving it without an answer.                                           *)
NeverGivesUp == (pc # "new" /\ ~closed) ~> (Connected \/ closed \/ HeldUp)

(* Without the last: the client always reconnects.                         *)
AlwaysReconnects == (pc # "new" /\ ~closed) ~> (Connected \/ closed)

(* A connection whose peer fell silent is found out and left, so that the  *)
(* client can reconnect.                                                   *)
DeadPeerDetected == (pc = "serve" /\ silent) ~> pc # "serve"

(* The part of it the code keeps: unless a channel's frame is blocked in   *)
(* WriteFrame with cc.wmu, which KeepAlive's ping has to wait for, as its  *)
(* closeAll has to for the rmu of a blocked Read.                          *)
SilenceDetected == (pc = "serve" /\ silent) ~> (pc # "serve" \/ stuck # "none")

(* KeepAlive never closes a connection whose peer still answers.           *)
NoFalseAlarm == [][TickExpired => silent]_vars

(* Close waits in closeAll for the rmu of a Read that is blocked on a peer *)
(* which does not read; the socket, whose closing would end that Read, is  *)
(* closed only after closeAll.                                             *)
Wedged == cpc = "closeAll" /\ stuck = "rmu"

(* Close ends a client that is serving or that waits to reconnect, unless  *)
(* it is wedged itself.                                                    *)
CloseEndsServing ==
  (cpc \in {"check", "closeAll"} /\ pc \in {"serve", "failed", "backoff"})
    ~> (pc = "done" \/ Wedged)

(* Close ends the client wherever it is.                                   *)
CloseEnds == closed ~> pc = "done"

(* Every attempt to connect but the first is preceded by a delay.          *)
DelayBeforeReconnect == [][RunConnects => rested]_vars
=============================================================================
