------------------------ MODULE ManagedClientProofs -------------------------
(* Type correctness of a managed remote client, and two safety results:    *)
(* KeepAlive spares a peer that answers, and the unlocked read of          *)
(* m.tunnels is the only way to a nil dereference.                         *)
EXTENDS ManagedClient, TLAPS

-----------------------------------------------------------------------------
(* The inductive invariants *)

(* KeepAlive runs only while connect serves, and a peer that is not silent *)
(* was heard since the last ping that it has answered.                     *)
Answered ==
  /\ ka # "off" => pc = "serve"
  /\ ka = "wait" /\ ~silent /\ ~asked => idle = 0

(* The goroutine of runRemoteClient has its entry of m.tunnels from the    *)
(* moment it leaves its set-up.                                            *)
HasEntry ==
  /\ mgr # "panic"
  /\ mgr \in {"select", "closing"} => mt

ClientInv == MTypeOK /\ Answered

-----------------------------------------------------------------------------
(* One step of the client's own goroutines, of its peer or of the network. *)

LEMMA StepTyped ==
  ASSUME TypeOK, Step \/ RunBegins \/ Close
  PROVE  TypeOK'
  <1>1. attempt' \in 0..MaxAttempt /\ idle' \in 0..Timeout + 1
    <2> USE RemoteClientAssumption DEF TypeOK, connVars
    <2>1. CASE RunBegins \/ Close
      BY <2>1 DEF RunBegins, Close
    <2>2. CASE Run
      BY <2>2 DEF Run, RunStopped, RunConnects, Publish, Disconnected, RunBacksOff
    <2>3. CASE DialOk \/ DialFail \/ HandshakeOk \/ HandshakeFail \/ BackoffOver
      BY <2>3 DEF DialOk, DialFail, HandshakeOk, HandshakeFail, BackoffOver
    <2>4. CASE PeerCloses \/ FallsSilent \/ FrameBlocks \/ readLoop
      BY <2>4 DEF PeerCloses, FallsSilent, FrameBlocks, readLoop
    <2>5. CASE Tick
      <3>1. idle \in Nat /\ ~(idle + 1 > Timeout) /\ idle' = idle + 1
        BY <2>5 DEF Tick, NextIdle, Expired
      <3> QED
        BY <2>5, <3>1 DEF Tick
    <2>6. CASE TickExpired \/ KeepAliveCloses \/ SendPing \/ CloseLooks \/ CloseConn
      BY <2>6 DEF TickExpired, KeepAliveCloses, CtrlConnClose,
         SendPing, CloseLooks, ClosesConn, CloseConn
    <2> QED
      BY <2>1, <2>2, <2>3, <2>4, <2>5, <2>6 DEF Step, KeepAlive
  <1>2. /\ rested' \in BOOLEAN /\ closed' \in BOOLEAN /\ ccSet' \in BOOLEAN
        /\ silent' \in BOOLEAN /\ asked' \in BOOLEAN
    <2> USE DEF TypeOK, connVars
    <2>1. CASE RunBegins \/ Close
      BY <2>1 DEF RunBegins, Close
    <2>2. CASE Run
      BY <2>2 DEF Run, RunStopped, RunConnects, Publish, Disconnected, RunBacksOff
    <2>3. CASE DialOk \/ DialFail \/ HandshakeOk \/ HandshakeFail \/ BackoffOver
      BY <2>3 DEF DialOk, DialFail, HandshakeOk, HandshakeFail, BackoffOver
    <2>4. CASE PeerCloses \/ FallsSilent \/ FrameBlocks \/ readLoop
      BY <2>4 DEF PeerCloses, FallsSilent, FrameBlocks, readLoop
    <2>5. CASE Tick \/ TickExpired \/ KeepAliveCloses \/ SendPing \/ CloseLooks \/ CloseConn
      BY <2>5 DEF Tick, TickExpired, KeepAliveCloses, CtrlConnClose,
         SendPing, CloseLooks, ClosesConn, CloseConn
    <2> QED
      BY <2>1, <2>2, <2>3, <2>4, <2>5 DEF Step, KeepAlive
  <1>3. /\ pc' \in {"new", "top", "dial", "handshake", "publish", "serve", "failed",
                  "backoff", "done"}
        /\ cpc' \in {"no", "check", "closeAll", "done"}
        /\ link' \in {"none", "open", "closed"} /\ stuck' \in {"none", "wmu", "rmu"}
        /\ ka' \in {"off", "wait", "send", "close"}
    <2> USE DEF TypeOK, connVars
    <2>1. CASE RunBegins \/ Close
      BY <2>1 DEF RunBegins, Close
    <2>2. CASE Run
      BY <2>2 DEF Run, RunStopped, RunConnects, Publish, Disconnected, RunBacksOff
    <2>3. CASE DialOk \/ DialFail \/ HandshakeOk \/ HandshakeFail \/ BackoffOver
      BY <2>3 DEF DialOk, DialFail, HandshakeOk, HandshakeFail, BackoffOver
    <2>4. CASE PeerCloses \/ FallsSilent \/ FrameBlocks \/ readLoop
      BY <2>4 DEF PeerCloses, FallsSilent, FrameBlocks, readLoop
    <2>5. CASE Tick \/ TickExpired \/ KeepAliveCloses \/ SendPing \/ CloseLooks \/ CloseConn
      BY <2>5 DEF Tick, TickExpired, KeepAliveCloses, CtrlConnClose,
         SendPing, CloseLooks, ClosesConn, CloseConn
    <2> QED
      BY <2>1, <2>2, <2>3, <2>4, <2>5 DEF Step, KeepAlive
  <1> QED
    BY <1>1, <1>2, <1>3 DEF TypeOK

LEMMA StepAnswered ==
  ASSUME TypeOK, Answered, Step \/ RunBegins \/ Close
  PROVE  Answered'
  <1> USE DEF TypeOK, Answered, connVars
  <1>1. CASE RunBegins \/ Close
    BY <1>1 DEF RunBegins, Close
  <1>2. CASE Run
    BY <1>2 DEF Run, RunStopped, RunConnects, Publish, Disconnected, RunBacksOff
  <1>3. CASE DialOk \/ DialFail \/ HandshakeOk \/ HandshakeFail \/ BackoffOver
    BY <1>3 DEF DialOk, DialFail, HandshakeOk, HandshakeFail, BackoffOver
  <1>4. CASE PeerCloses \/ FallsSilent \/ FrameBlocks \/ readLoop
    BY <1>4 DEF PeerCloses, FallsSilent, FrameBlocks, readLoop
  <1>5. CASE Tick \/ TickExpired \/ KeepAliveCloses \/ SendPing \/ CloseLooks \/ CloseConn
    BY <1>5 DEF Tick, TickExpired, KeepAliveCloses, CtrlConnClose,
         SendPing, CloseLooks, ClosesConn, CloseConn
  <1> QED
    BY <1>1, <1>2, <1>3, <1>4, <1>5 DEF Step, KeepAlive

-----------------------------------------------------------------------------
(* One step of the tunnel *)

LEMMA ManagerTyped ==
  ASSUME MTypeOK, MNext
  PROVE  MTypeOK'
  <1>1. TypeOK'
    <2>1. CASE UNCHANGED client
      BY <2>1 DEF MTypeOK, TypeOK, client, connVars
    <2>2. CASE RunBegins \/ Close \/ Step
      BY <2>2, StepTyped DEF MTypeOK
    <2> QED
      BY <2>1, <2>2 DEF MNext, StoreEntry, CancelTunnel, SetupFails, StartClient, Poll,
                        SelectStop, CloseReturned, ByClient, LocalDialFails
  <1>2. /\ mgr' \in {"setup", "select", "closing", "done", "panic"}
        /\ stop' \in BOOLEAN /\ stored' \in BOOLEAN /\ mt' \in BOOLEAN
        /\ status' \in {"starting", "established", "reconnecting", "stopped", "error"}
    BY DEF MTypeOK, MNext, StoreEntry, CancelTunnel, SetupFails, StartClient, Poll, Shown,
           SelectStop, CloseReturned, ByClient, LocalDialFails
  <1>3. lastErr' \in BOOLEAN
    BY DEF MTypeOK, MNext, StoreEntry, CancelTunnel, SetupFails, StartClient, Poll,
           SelectStop, CloseReturned, ByClient, LocalDialFails
  <1> QED
    BY <1>1, <1>2, <1>3 DEF MTypeOK

LEMMA ClientStep ==
  ASSUME ClientInv, [MNext]_allVars
  PROVE  ClientInv'
  <1>1. CASE UNCHANGED allVars
    BY <1>1 DEF ClientInv, MTypeOK, TypeOK, Answered, allVars, client, manager, connVars
  <1>2. CASE MNext
    <2>1. MTypeOK'
      BY <1>2, ManagerTyped DEF ClientInv
    <2>2. CASE UNCHANGED client
      BY <2>1, <2>2 DEF ClientInv, Answered, client, connVars
    <2>3. CASE RunBegins \/ Close \/ Step
      BY <2>1, <2>3, StepAnswered DEF ClientInv, MTypeOK
    <2> QED
      BY <1>2, <2>2, <2>3 DEF MNext, StoreEntry, CancelTunnel, SetupFails, StartClient,
         Poll, SelectStop, CloseReturned, ByClient, LocalDialFails
  <1> QED
    BY <1>1, <1>2

LEMMA ClientAlways == MSpec => []ClientInv
  <1>1. MInit => ClientInv
    <2> SUFFICES ASSUME MInit PROVE ClientInv
      OBVIOUS
    <2>1. attempt \in 0..MaxAttempt /\ idle \in 0..Timeout + 1
      BY RemoteClientAssumption DEF MInit, Init
    <2>2. MTypeOK
      BY <2>1 DEF MInit, Init, MTypeOK, TypeOK
    <2> QED
      BY <2>2 DEF MInit, Init, ClientInv, Answered
  <1>2. ClientInv /\ [MNext]_allVars => ClientInv'
    BY ClientStep
  <1> QED
    BY <1>1, <1>2, PTL DEF MSpec

LEMMA EntryStep ==
  ASSUME ~Racy, HasEntry, [MNext]_allVars
  PROVE  HasEntry'
  <1>1. CASE UNCHANGED allVars
    BY <1>1 DEF HasEntry, allVars, manager
  <1>2. CASE MNext
    BY <1>2 DEF MNext, HasEntry, StoreEntry, CancelTunnel, SetupFails, StartClient, Poll,
                SelectStop, CloseReturned, ByClient, LocalDialFails
  <1> QED
    BY <1>1, <1>2

-----------------------------------------------------------------------------
(* The theorems *)

(* Every variable of the client and of the goroutine that runs it keeps    *)
(* its type: the idle time that KeepAlive measures stays within its        *)
(* timeout.                                                                *)
THEOREM TypeCorrect == MSpec => []MTypeOK
  <1>1. ClientInv => MTypeOK
    BY DEF ClientInv
  <1> QED
    BY <1>1, ClientAlways, PTL

(* KeepAlive never closes a connection whose peer answers, for every       *)
(* timeout of at least one interval and however readLoop, ticks, pings,    *)
(* reconnects and Close interleave.                                        *)
THEOREM PeersAreSpared == MSpec => NoFalseAlarm
  <1>1. ClientInv => [TickExpired => silent]_vars
    <2> SUFFICES ASSUME ClientInv, TickExpired, ~silent
                 PROVE  FALSE
      OBVIOUS
    <2>1. idle = 0
      BY DEF ClientInv, Answered, TickExpired
    <2> QED
      BY <2>1, RemoteClientAssumption DEF TickExpired, Expired
  <1> QED
    BY <1>1, ClientAlways, PTL DEF NoFalseAlarm

(* As long as runRemoteClient reads m.tunnels after startOne has stored    *)
(* the entry, the daemon does not die of a nil dereference in the status   *)
(* poll: the unlocked read is the only way to it.                          *)
THEOREM OnlyTheRacePanics == ~Racy => (MSpec => []NoPanic)
  <1> SUFFICES ASSUME ~Racy
               PROVE  MSpec => []NoPanic
    OBVIOUS
  <1>1. MInit => HasEntry
    BY DEF MInit, HasEntry
  <1>2. HasEntry /\ [MNext]_allVars => HasEntry'
    BY EntryStep
  <1>3. HasEntry => NoPanic
    BY DEF HasEntry, NoPanic
  <1> QED
    BY <1>1, <1>2, <1>3, PTL DEF MSpec
=============================================================================
