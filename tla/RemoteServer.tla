---------------------------- MODULE RemoteServer ----------------------------
(***************************************************************************)
(* The remote (-R) server: relay/remoteserver.go.  Control connections     *)
(* arrive, authenticate and register tunnels; every tunnel of every        *)
(* connection has a goroutine (serveRemoteTunnel) that attaches to the     *)
(* shared public listener of its bind:port and detaches when its control   *)
(* connection dies.  Close tears everything down.                          *)
(*                                                                         *)
(* A step is one critical section of rs.mu or sl.mu, or one call on a      *)
(* socket.  attachSharedListener keeps rs.mu while listenTunnel retries.   *)
(* Target addresses are left out, and of the channels that dispatch opens  *)
(* only this is kept: on a connection whose peer does not read, a Read may *)
(* hold its channel's rmu, for which Close has to wait (see CtrlConn).     *)
(***************************************************************************)
EXTENDS Integers, Sequences, FiniteSets, SequencesExt

CONSTANTS
  Conns,            \* control connections, each accepted at most once
  Keys,             \* listenerKey: bind:port pairs, all on different ports
  Tunnels,          \* registered tunnels; two may name the same bind:port
  KeyOf,            \* KeyOf[t]: the bind:port of tunnel t
  Registers,        \* Registers[c]: the tunnels connection c registers
  MaxDials,         \* bound: public connections accepted
  HandshakeMayHang, \* may a peer connect and never finish auth and register
  PeerMayStall,     \* may a peer stop reading what channels send it
  AcceptMayFail     \* may Accept fail on an open public listener

ASSUME RemoteServerAssumption ==
  /\ KeyOf \in [Tunnels -> Keys]
  /\ Registers \in [Conns -> SUBSET Tunnels]
  /\ MaxDials \in Nat
  /\ HandshakeMayHang \in BOOLEAN /\ PeerMayStall \in BOOLEAN /\ AcceptMayFail \in BOOLEAN

VARIABLES
  rsClosed,   \* rs.closed
  ctrlOpen,   \* is rs.ctrlLn open
  tracked,    \* rs.conns
  listeners,  \* rs.listeners: key -> index in sls, 0 when absent
  sls,        \* every sharedListener ever created
  holder,     \* who holds rs.mu across steps: the goroutine in listenTunnel
  hpc,        \* where handleClient of a connection is
  link,       \* the connection's socket: "up"; "used", with channels; "jam", with
              \* a Read of a channel blocked in sendWindowUpdate; "down"
  ccDone,     \* cc.done is closed: the readLoop has returned
  spc,        \* where serveRemoteTunnel of a connection and tunnel is
  mine,       \* the sharedListener it attached to
  cpc,        \* where rs.Close is
  toClose,    \* rs.Close's snapshots, connections and sharedListeners, and the
              \* connection (at most one) that it is closing
  dials       \* public connections so far

vars == <<rsClosed, ctrlOpen, tracked, listeners, sls, holder, hpc, link,
          ccDone, spc, mine, cpc, toClose, dials>>

Serves == Conns \X Tunnels
Key(t) == KeyOf[t[2]]
free == <<>>

SharedListener ==
  [key : Keys, order : Seq(Conns), conns : SUBSET Conns, next : Nat,
   closed : BOOLEAN, lnOpen : BOOLEAN, accepting : BOOLEAN, turns : [Conns -> Nat]]

TypeOK ==
  /\ rsClosed \in BOOLEAN /\ ctrlOpen \in BOOLEAN
  /\ tracked \subseteq Conns
  /\ sls \in Seq(SharedListener)
  /\ listeners \in [Keys -> 0..Len(sls)]
  /\ holder \in Serves \cup {free}
  /\ hpc \in [Conns -> {"none", "handshake", "failed", "track", "serve", "done"}]
  /\ link \in [Conns -> {"up", "used", "jam", "down"}]
  /\ ccDone \in [Conns -> BOOLEAN]
  /\ spc \in [Serves -> {"none", "attach", "listen", "serve", "close", "lnClose",
                         "delete", "done"}]
  /\ mine \in [Serves -> 0..Len(sls)]
  /\ cpc \in {"no", "closing", "done"}
  /\ toClose \in [conns : SUBSET Conns, at : SUBSET Conns, sls : SUBSET (1..Len(sls))]
  /\ dials \in 0..MaxDials

Init ==
  /\ rsClosed = FALSE /\ ctrlOpen = TRUE
  /\ tracked = {}
  /\ listeners = [k \in Keys |-> 0]
  /\ sls = <<>>
  /\ holder = free
  /\ hpc = [c \in Conns |-> "none"]
  /\ link = [c \in Conns |-> "up"]
  /\ ccDone = [c \in Conns |-> FALSE]
  /\ spc = [t \in Serves |-> "none"]
  /\ mine = [t \in Serves |-> 0]
  /\ cpc = "no"
  /\ toClose = [conns |-> {}, at |-> {}, sls |-> {}]
  /\ dials = 0

-----------------------------------------------------------------------------
(* Serve and handleClient *)

MuFree == holder = free

(* Serve; when it returns with an error no connection comes any more.      *)
Accept(c) ==
  /\ ctrlOpen /\ hpc[c] = "none"
  /\ hpc' = [hpc EXCEPT ![c] = "handshake"]
  /\ UNCHANGED <<rsClosed, ctrlOpen, tracked, listeners, sls, holder, link, ccDone,
                 spc, mine, cpc, toClose, dials>>

(* AuthServer and RegisterServer, read without a deadline; a failure       *)
(* returns and closes the connection.                                      *)
HandshakeOk(c) ==
  /\ hpc[c] = "handshake" /\ link[c] = "up"
  /\ hpc' = [hpc EXCEPT ![c] = "track"]
  /\ UNCHANGED <<rsClosed, ctrlOpen, tracked, listeners, sls, holder, link, ccDone,
                 spc, mine, cpc, toClose, dials>>

HandshakeFail(c) ==
  /\ hpc[c] = "handshake"
  /\ hpc' = [hpc EXCEPT ![c] = "failed"]
  /\ link' = [link EXCEPT ![c] = "down"]
  /\ UNCHANGED <<rsClosed, ctrlOpen, tracked, listeners, sls, holder, ccDone, spc,
                 mine, cpc, toClose, dials>>

CanTrack_always == TRUE
CanTrack == ~rsClosed

(* trackConn succeeds, and one serveRemoteTunnel starts per tunnel. *)
trackConn(c) ==
  /\ hpc[c] = "track" /\ MuFree /\ CanTrack
  /\ tracked' = tracked \cup {c}
  /\ hpc' = [hpc EXCEPT ![c] = "serve"]
  /\ spc' = [t \in Serves |-> IF t[1] = c /\ t[2] \in Registers[c] THEN "attach" ELSE spc[t]]
  /\ UNCHANGED <<rsClosed, ctrlOpen, listeners, sls, holder, link, ccDone, mine,
                 cpc, toClose, dials>>

(* trackConn refuses: the deferred cc.Close and conn.Close run. *)
trackConnRefused(c) ==
  /\ hpc[c] = "track" /\ MuFree /\ ~CanTrack
  /\ hpc' = [hpc EXCEPT ![c] = "done"]
  /\ link' = [link EXCEPT ![c] = "down"]
  /\ UNCHANGED <<rsClosed, ctrlOpen, tracked, listeners, sls, holder, ccDone, spc,
                 mine, cpc, toClose, dials>>

(* <-cc.Done(), then untrackConn, cc.Close and conn.Close. *)
untrackConn(c) ==
  /\ hpc[c] = "serve" /\ ccDone[c] /\ MuFree
  /\ tracked' = tracked \ {c}
  /\ hpc' = [hpc EXCEPT ![c] = "done"]
  /\ link' = [link EXCEPT ![c] = "down"]
  /\ UNCHANGED <<rsClosed, ctrlOpen, listeners, sls, holder, ccDone, spc, mine, cpc,
                 toClose, dials>>

(* The peer goes away, or the network drops the connection. *)
LinkDown(c) ==
  /\ hpc[c] # "none" /\ link[c] # "down"
  /\ link' = [link EXCEPT ![c] = "down"]
  /\ UNCHANGED <<rsClosed, ctrlOpen, tracked, listeners, sls, holder, hpc, ccDone,
                 spc, mine, cpc, toClose, dials>>

(* The peer stops reading, and a Read of a channel that returns credit     *)
(* blocks.  (A peer that reads again only delays things.)                  *)
LinkJams(c) ==
  /\ PeerMayStall /\ hpc[c] = "serve" /\ link[c] = "used"
  /\ link' = [link EXCEPT ![c] = "jam"]
  /\ UNCHANGED <<rsClosed, ctrlOpen, tracked, listeners, sls, holder, hpc, ccDone,
                 spc, mine, cpc, toClose, dials>>

(* The readLoop started by NewCtrlConn meets the dead socket. *)
readLoopEnds(c) ==
  /\ hpc[c] \in {"track", "serve", "done"} /\ link[c] = "down" /\ ~ccDone[c]
  /\ ccDone' = [ccDone EXCEPT ![c] = TRUE]
  /\ UNCHANGED <<rsClosed, ctrlOpen, tracked, listeners, sls, holder, hpc, link, spc,
                 mine, cpc, toClose, dials>>

-----------------------------------------------------------------------------
(* serveRemoteTunnel: attachSharedListener *)

(* Counts start again whenever the round-robin order changes. *)
noTurns == [c \in Conns |-> 0]

PortHeld(k) == \E i \in DOMAIN sls : sls[i].key = k /\ sls[i].lnOpen

attachRefused(t) ==
  /\ spc[t] = "attach" /\ MuFree /\ rsClosed
  /\ spc' = [spc EXCEPT ![t] = "done"]
  /\ UNCHANGED <<rsClosed, ctrlOpen, tracked, listeners, sls, holder, hpc, link,
                 ccDone, mine, cpc, toClose, dials>>

(* A usable listener exists: join it. *)
Usable(i) == i # 0 /\ ~sls[i].closed

Joined(sl, c) ==
  IF c \in sl.conns THEN sl
  ELSE [sl EXCEPT !.conns = @ \cup {c}, !.order = Append(@, c), !.turns = noTurns]

attachExisting(t) ==
  /\ spc[t] = "attach" /\ MuFree /\ ~rsClosed
  /\ LET i == listeners[Key(t)]
     IN  /\ Usable(i)
         /\ sls' = [sls EXCEPT ![i] = Joined(@, t[1])]
         /\ mine' = [mine EXCEPT ![t] = i]
  /\ spc' = [spc EXCEPT ![t] = "serve"]
  /\ UNCHANGED <<rsClosed, ctrlOpen, tracked, listeners, holder, hpc, link, ccDone,
                 cpc, toClose, dials>>

(* None, or a stale one: drop it and listen, keeping rs.mu. *)
attachListen(t) ==
  /\ spc[t] = "attach" /\ MuFree /\ ~rsClosed
  /\ ~Usable(listeners[Key(t)])
  /\ listeners' = [listeners EXCEPT ![Key(t)] = 0]
  /\ holder' = t
  /\ spc' = [spc EXCEPT ![t] = "listen"]
  /\ UNCHANGED <<rsClosed, ctrlOpen, tracked, sls, hpc, link, ccDone, mine, cpc,
                 toClose, dials>>

listenTunnelOk(t) ==
  /\ spc[t] = "listen" /\ ~PortHeld(Key(t))
  /\ sls' = Append(sls, [key |-> Key(t), order |-> <<t[1]>>, conns |-> {t[1]},
                         next |-> 0, closed |-> FALSE, lnOpen |-> TRUE,
                         accepting |-> TRUE, turns |-> noTurns])
  /\ listeners' = [listeners EXCEPT ![Key(t)] = Len(sls) + 1]
  /\ mine' = [mine EXCEPT ![t] = Len(sls) + 1]
  /\ holder' = free
  /\ spc' = [spc EXCEPT ![t] = "serve"]
  /\ UNCHANGED <<rsClosed, ctrlOpen, tracked, hpc, link, ccDone, cpc, toClose, dials>>

(* The port is still taken when the deadline passes or cc dies.            *)
listenTunnelFail(t) ==
  /\ spc[t] = "listen" /\ PortHeld(Key(t))
  /\ holder' = free
  /\ spc' = [spc EXCEPT ![t] = "done"]
  /\ UNCHANGED <<rsClosed, ctrlOpen, tracked, listeners, sls, hpc, link, ccDone,
                 mine, cpc, toClose, dials>>

-----------------------------------------------------------------------------
(* serveRemoteTunnel: <-cc.Done(), then detachSharedListener *)

IndexOf(order, c) == CHOOSE j \in DOMAIN order : order[j] = c

(* next (counted from 0) after the entry at idx (from 0) left the order. *)
NextAfterRemoval_unshifted(next, idx, len) == IF next >= len THEN 0 ELSE next
NextAfterRemoval(next, idx, len) ==
  LET shifted == IF next > idx THEN next - 1 ELSE next
  IN  IF shifted >= len THEN 0 ELSE shifted

Leave_keepingOrder(sl, c) == [sl EXCEPT !.conns = @ \ {c}]
Leave(sl, c) ==
  LET idx == IndexOf(sl.order, c)
  IN  [sl EXCEPT !.conns = @ \ {c},
                 !.order = RemoveAt(@, idx),
                 !.next = NextAfterRemoval(@, idx - 1, Len(sl.order) - 1),
                 !.turns = noTurns]

detach(t) ==
  /\ spc[t] = "serve" /\ ccDone[t[1]]
  /\ t[1] \in sls[mine[t]].conns
  /\ LET left == Leave(sls[mine[t]], t[1])
     IN  /\ sls' = [sls EXCEPT ![mine[t]] = left]
         /\ spc' = [spc EXCEPT ![t] = IF left.order = <<>> THEN "close" ELSE "done"]
  /\ UNCHANGED <<rsClosed, ctrlOpen, tracked, listeners, holder, hpc, link, ccDone,
                 mine, cpc, toClose, dials>>

(* The connection has already left: it registered this bind:port twice. *)
detachNothing(t) ==
  /\ spc[t] = "serve" /\ ccDone[t[1]]
  /\ t[1] \notin sls[mine[t]].conns
  /\ spc' = [spc EXCEPT ![t] = "done"]
  /\ UNCHANGED <<rsClosed, ctrlOpen, tracked, listeners, sls, holder, hpc, link,
                 ccDone, mine, cpc, toClose, dials>>

(* sl.Close by the goroutine that found the order empty: mark, ... *)
detachClose(t) ==
  /\ spc[t] = "close"
  /\ sls' = [sls EXCEPT ![mine[t]].closed = TRUE]
  /\ spc' = [spc EXCEPT ![t] = IF sls[mine[t]].closed THEN "delete" ELSE "lnClose"]
  /\ UNCHANGED <<rsClosed, ctrlOpen, tracked, listeners, holder, hpc, link, ccDone,
                 mine, cpc, toClose, dials>>

(* ... release the port, ... *)
detachLnClose(t) ==
  /\ spc[t] = "lnClose"
  /\ sls' = [sls EXCEPT ![mine[t]].lnOpen = FALSE]
  /\ spc' = [spc EXCEPT ![t] = "delete"]
  /\ UNCHANGED <<rsClosed, ctrlOpen, tracked, listeners, holder, hpc, link, ccDone,
                 mine, cpc, toClose, dials>>

(* ... and drop the map entry if it is still this listener. *)
StillMine_unchecked(t) == TRUE
StillMine(t) == listeners[Key(t)] = mine[t]

detachDelete(t) ==
  /\ spc[t] = "delete" /\ MuFree
  /\ listeners' = IF StillMine(t) THEN [listeners EXCEPT ![Key(t)] = 0] ELSE listeners
  /\ spc' = [spc EXCEPT ![t] = "done"]
  /\ UNCHANGED <<rsClosed, ctrlOpen, tracked, sls, holder, hpc, link, ccDone, mine,
                 cpc, toClose, dials>>

-----------------------------------------------------------------------------
(* acceptLoop and dispatch *)

(* next is an index from 0 into order. *)
NextTurn_stuck(sl) == sl.next
NextTurn(sl) == (sl.next + 1) % Len(sl.order)
Turn(sl) == sl.order[(sl.next % Len(sl.order)) + 1]

(* With OpenChannel, whose frame waits for a peer that does not read: the  *)
(* loop takes no other connection until it does or its link goes down.     *)
dispatch(i) ==
  /\ sls[i].lnOpen /\ sls[i].accepting
  /\ sls[i].order # <<>> /\ dials < MaxDials
  /\ link[Turn(sls[i])] # "jam"
  /\ link' = [link EXCEPT ![Turn(sls[i])] = IF @ = "up" THEN "used" ELSE @]
  /\ sls' = [sls EXCEPT ![i].next = NextTurn(sls[i]),
                        ![i].turns[Turn(sls[i])] = @ + 1]
  /\ dials' = dials + 1
  /\ UNCHANGED <<rsClosed, ctrlOpen, tracked, listeners, holder, hpc, ccDone, spc, mine,
                 cpc, toClose>>

(* Nobody is registered: the public connection is closed. *)
dispatchNobody(i) ==
  /\ sls[i].lnOpen /\ sls[i].accepting
  /\ sls[i].order = <<>> /\ dials < MaxDials
  /\ dials' = dials + 1
  /\ UNCHANGED <<rsClosed, ctrlOpen, tracked, listeners, sls, holder, hpc, link,
                 ccDone, spc, mine, cpc, toClose>>

(* Accept fails on an open listener, for instance for want of descriptors: *)
(* the loop returns, the listener stays open and in the map.               *)
acceptLoopFails(i) ==
  /\ AcceptMayFail /\ sls[i].accepting /\ sls[i].lnOpen
  /\ sls' = [sls EXCEPT ![i].accepting = FALSE]
  /\ UNCHANGED <<rsClosed, ctrlOpen, tracked, listeners, holder, hpc, link, ccDone,
                 spc, mine, cpc, toClose, dials>>

acceptLoopEnds(i) ==
  /\ sls[i].accepting /\ ~sls[i].lnOpen
  /\ sls' = [sls EXCEPT ![i].accepting = FALSE]
  /\ UNCHANGED <<rsClosed, ctrlOpen, tracked, listeners, holder, hpc, link, ccDone,
                 spc, mine, cpc, toClose, dials>>

-----------------------------------------------------------------------------
(* rs.Close *)

Close ==
  /\ cpc = "no" /\ MuFree
  /\ rsClosed' = TRUE
  /\ toClose' = [conns |-> tracked, at |-> {},
                 sls |-> {listeners[k] : k \in Keys} \ {0}]
  /\ cpc' = "closing"
  /\ UNCHANGED <<ctrlOpen, tracked, listeners, sls, holder, hpc, link, ccDone, spc,
                 mine, dials>>

CloseCtrl ==
  /\ cpc = "closing" /\ ctrlOpen
  /\ ctrlOpen' = FALSE
  /\ UNCHANGED <<rsClosed, tracked, listeners, sls, holder, hpc, link, ccDone, spc,
                 mine, cpc, toClose, dials>>

(* cc.Close for one connection after the other: closeAll, which takes the  *)
(* rmu of every channel, and only then is the socket closed.               *)
CloseTakes(c) ==
  /\ cpc = "closing" /\ ~ctrlOpen /\ toClose.at = {} /\ c \in toClose.conns
  /\ toClose' = [toClose EXCEPT !.conns = @ \ {c}, !.at = {c}]
  /\ UNCHANGED <<rsClosed, ctrlOpen, tracked, listeners, sls, holder, hpc, link, ccDone,
                 spc, mine, cpc, dials>>

CloseConn(c) ==
  /\ cpc = "closing" /\ c \in toClose.at /\ link[c] # "jam"
  /\ link' = [link EXCEPT ![c] = "down"]
  /\ toClose' = [toClose EXCEPT !.at = {}]
  /\ UNCHANGED <<rsClosed, ctrlOpen, tracked, listeners, sls, holder, hpc, ccDone,
                 spc, mine, cpc, dials>>

(* sl.Close, in one step: once rs.closed is set no attach looks between    *)
(* the mark and the release; a listener marked by detach is left to it.    *)
CloseListener(i) ==
  /\ cpc = "closing" /\ ~ctrlOpen /\ i \in toClose.sls
  /\ toClose.conns = {} /\ toClose.at = {}
  /\ sls' = [sls EXCEPT ![i].closed = TRUE,
                        ![i].lnOpen = IF sls[i].closed THEN @ ELSE FALSE]
  /\ toClose' = [toClose EXCEPT !.sls = @ \ {i}]
  /\ UNCHANGED <<rsClosed, ctrlOpen, tracked, listeners, holder, hpc, link, ccDone,
                 spc, mine, cpc, dials>>

CloseReturns ==
  /\ cpc = "closing" /\ ~ctrlOpen /\ toClose = [conns |-> {}, at |-> {}, sls |-> {}]
  /\ cpc' = "done"
  /\ UNCHANGED <<rsClosed, ctrlOpen, tracked, listeners, sls, holder, hpc, link,
                 ccDone, spc, mine, toClose, dials>>

-----------------------------------------------------------------------------
handleClient(c) == trackConn(c) \/ trackConnRefused(c) \/ untrackConn(c)

attachSharedListener(t) ==
  \/ attachRefused(t) \/ attachExisting(t) \/ attachListen(t)
  \/ listenTunnelOk(t) \/ listenTunnelFail(t)

detachSharedListener(t) ==
  \/ detach(t) \/ detachNothing(t) \/ detachClose(t)
  \/ detachLnClose(t) \/ detachDelete(t)

CloseStep ==
  \/ CloseCtrl \/ CloseReturns
  \/ \E c \in Conns : CloseTakes(c) \/ CloseConn(c)
  \/ \E i \in DOMAIN sls : CloseListener(i)

Next ==
  \/ \E c \in Conns : \/ Accept(c) \/ HandshakeOk(c) \/ HandshakeFail(c)
                      \/ handleClient(c) \/ LinkDown(c) \/ LinkJams(c)
                      \/ readLoopEnds(c)
  \/ \E t \in Serves : attachSharedListener(t) \/ detachSharedListener(t)
  \/ \E i \in DOMAIN sls : \/ dispatch(i) \/ dispatchNobody(i)
                          \/ acceptLoopFails(i) \/ acceptLoopEnds(i)
  \/ Close \/ CloseStep

Spec == Init /\ [][Next]_vars

(* Every goroutine that can run does (a listener's loop ends once, so all  *)
(* of them share one conjunct); peers and the operator owe nothing, except *)
(* that a handshake ends when HandshakeMayHang is FALSE.                   *)
HandshakeOver(c) == HandshakeFail(c) /\ (HandshakeMayHang => link[c] = "down")

Fairness ==
  /\ \A c \in Conns : WF_vars(HandshakeOver(c) \/ handleClient(c)) /\ WF_vars(readLoopEnds(c))
  /\ \A t \in Serves : WF_vars(attachSharedListener(t) \/ detachSharedListener(t))
  /\ WF_vars(\E i \in DOMAIN sls : acceptLoopEnds(i))
  /\ WF_vars(CloseStep)

FairSpec == Spec /\ Fairness

-----------------------------------------------------------------------------
(* Properties *)

(* The round-robin order, the conns map and next agree: no connection is   *)
(* listed twice or missing, and next points into the order.                *)
OrderConsistent ==
  \A i \in DOMAIN sls :
    /\ IsInjective(sls[i].order) /\ Range(sls[i].order) = sls[i].conns
    /\ sls[i].order # <<>> => sls[i].next < Len(sls[i].order)

(* Round robin: while the set of connections stays the same, no connection *)
(* gets two more public connections than another.                          *)
RoundRobin ==
  \A i \in DOMAIN sls : \A c, d \in sls[i].conns :
    sls[i].turns[c] <= sls[i].turns[d] + 1

(* A connection that comes or goes takes no turn from the others: the next *)
(* one to serve stays the next, unless it is the one that left, and then   *)
(* its successor is.                                                       *)
Successor(order, c) ==
  LET j == IndexOf(order, c) IN order[(j % Len(order)) + 1]
TurnKept ==
  [][\A i \in DOMAIN sls :
       dials' = dials /\ sls[i].order # <<>> /\ sls'[i].order # <<>> =>
         Turn(sls'[i]) = IF Turn(sls[i]) \in sls'[i].conns THEN Turn(sls[i])
                         ELSE Successor(sls[i].order, Turn(sls[i]))]_vars

(* Every listener that still accepts is the one in the map, so that Close  *)
(* and the next attach find it; none is left behind holding its port.      *)
NoOrphanListener ==
  \A i \in DOMAIN sls :
    sls[i].lnOpen /\ ~sls[i].closed => listeners[sls[i].key] = i

(* A control connection whose goroutines have finished is registered       *)
(* nowhere: no public connection is handed to it any more.                 *)
NoGhost ==
  \A c \in Conns : \A i \in DOMAIN sls :
    (\A t \in Serves : t[1] = c => spc[t] \in {"none", "done"}) => c \notin sls[i].conns

(* After Close every goroutine of the server ends and every port is        *)
(* released, so that Wait returns; unless Close is held up at a connection *)
(* whose peer does not read, by a Read that only the closing of its socket *)
(* would end.                                                              *)
Drained ==
  /\ \A c \in Conns : hpc[c] \in {"none", "failed", "done"}
  /\ \A t \in Serves : spc[t] \in {"none", "done"}
  /\ \A i \in DOMAIN sls : ~sls[i].lnOpen /\ ~sls[i].accepting
Jammed == \E c \in toClose.at : link[c] = "jam"
ShutdownDrains == rsClosed ~> ((cpc = "done" /\ Drained) \/ Jammed)

(* Without that exception: the server always shuts down.                   *)
AlwaysDrains == rsClosed ~> (cpc = "done" /\ Drained)

(* The shared listener stays open as long as at least one control          *)
(* connection is registered for its bind:port (and the server is not       *)
(* closing).                                                               *)
StaysOpenWhileRegistered ==
  \A i \in DOMAIN sls : sls[i].order # <<>> /\ ~rsClosed => sls[i].lnOpen
=============================================================================
