------------------------------ MODULE CtrlConn ------------------------------
(***************************************************************************)
(* The end of a control connection: relay/ctrlconn.go.  One CtrlConn, its  *)
(* readLoop, the goroutines that open channels on it (the server) or       *)
(* accept them (the client), and the goroutines that close it: its owner,  *)
(* once Done is closed, and at any time somebody else (RemoteServer.Close, *)
(* RemoteClient.Close, KeepAlive).                                         *)
(*                                                                         *)
(* A step is one critical section of cc.cmu, one call on the socket or one *)
(* operation on cc.newCh; closeAll, which waits with cc.cmu for the rmu of *)
(* each channel, is a step per channel.  What a channel carries is left to *)
(* Channel; here a Read only holds its rmu while its credit is not taken.  *)
(***************************************************************************)
EXTENDS Integers, Sequences, FiniteSets

CONSTANTS
  Opened,    \* channels the server opens, when this is its end
  Incoming,  \* channels the peer opens, when this is the client's end
  QueueCap   \* capacity of cc.newCh (64)

ASSUME CtrlConnAssumption ==
  /\ QueueCap \in Nat \ {0}
  /\ Opened \cap Incoming = {}

Channels == Opened \cup Incoming
Closers == {"owner", "other"}
free == "free"

VARIABLES
  role,      \* whose end this is: "server" or "client"
  sock,      \* "open", "eof" (the peer is gone, writing still works), "closed"
  channels,  \* cc.channels
  cmu,       \* cc.cmu: free, or who is in closeAll: "readLoop" or a closer
  waking,    \* the channel that closeAll took from the map and calls setError on
  errored,   \* channels whose rerr is set: their readers return
  held,      \* channels whose Read is blocked in sendWindowUpdate, with rmu
  opc,       \* where OpenChannel of a channel is
  newCh,     \* cc.newCh
  arrived,   \* channels the peer has opened
  rpc,       \* where readLoop is
  pushing,   \* the channel that handleFrame is putting into newCh
  apc,       \* the client's accept loop: "accept" or "stopped"
  served,    \* channels it handed to a relay
  cpc        \* where Close of each closer is

vars == <<role, sock, channels, cmu, waking, errored, held, opc, newCh, arrived, rpc,
          pushing, apc, served, cpc>>

nobody == {}

TypeOK ==
  /\ role \in {"server", "client"}
  /\ sock \in {"open", "eof", "closed"}
  /\ channels \subseteq Channels /\ errored \subseteq Channels
  /\ cmu \in {free, "readLoop"} \cup Closers
  /\ waking \subseteq Channels /\ held \subseteq Channels
  /\ opc \in [Opened -> {"idle", "send", "refused", "open"}]
  /\ newCh \in Seq(Incoming) /\ Len(newCh) <= QueueCap
  /\ arrived \subseteq Incoming /\ served \subseteq Incoming
  /\ rpc \in {"read", "push", "closeAll", "done"}
  /\ pushing \subseteq Incoming /\ Cardinality(pushing) <= 1
  /\ apc \in {"accept", "stopped"}
  /\ cpc \in [Closers -> {"idle", "closeAll", "conn", "done"}]

Init ==
  /\ role \in {"server", "client"}
  /\ sock = "open" /\ channels = {} /\ errored = {}
  /\ cmu = free /\ waking = {} /\ held = {}
  /\ opc = [c \in Opened |-> "idle"]
  /\ newCh = <<>> /\ arrived = {} /\ rpc = "read" /\ pushing = nobody
  /\ apc = (IF role = "client" THEN "accept" ELSE "stopped") /\ served = {}
  /\ cpc = [k \in Closers |-> "idle"]

-----------------------------------------------------------------------------
(* closeAll, by readLoop at its end and by Close *)

Wants(a) == IF a = "readLoop" THEN rpc = "closeAll" ELSE cpc[a] = "closeAll"

LockMap(a) ==
  /\ Wants(a) /\ cmu = free
  /\ cmu' = a
  /\ UNCHANGED <<role, sock, channels, waking, errored, held, opc, newCh, arrived, rpc,
                 pushing, apc, served, cpc>>

TakeChannel(a, c) ==
  /\ cmu = a /\ waking = nobody
  /\ channels' = channels \ {c} /\ waking' = {c}
  /\ UNCHANGED <<role, sock, cmu, errored, held, opc, newCh, arrived, rpc, pushing, apc,
                 served, cpc>>

(* setError needs the rmu of the channel. *)
Woken_noWake(c) == errored
Woken(c) == errored \cup {c}

setError(a, c) ==
  /\ cmu = a /\ c \notin held
  /\ errored' = Woken(c) /\ waking' = nobody
  /\ UNCHANGED <<role, sock, channels, cmu, held, opc, newCh, arrived, rpc, pushing, apc,
                 served, cpc>>

Unlocked_not == cmu
Unlocked == free

(* The map is empty: readLoop closes Done, Close goes on to the socket. *)
UnlockMap(a) ==
  /\ cmu = a /\ channels = {} /\ waking = nobody
  /\ cmu' = Unlocked
  /\ rpc' = IF a = "readLoop" THEN "done" ELSE rpc
  /\ cpc' = IF a = "readLoop" THEN cpc ELSE [cpc EXCEPT ![a] = "conn"]
  /\ UNCHANGED <<role, sock, channels, waking, errored, held, opc, newCh, arrived, pushing,
                 apc, served>>

closeAll(a) ==
  \/ LockMap(a) \/ UnlockMap(a)
  \/ \E c \in channels : TakeChannel(a, c)
  \/ \E c \in waking : setError(a, c)

-----------------------------------------------------------------------------
(* readLoop *)

(* Several channels may arrive before any is accepted. *)
Arrive(c) ==
  /\ role = "client" /\ rpc = "read" /\ sock = "open" /\ c \notin arrived
  /\ cmu = free
  /\ arrived' = arrived \cup {c}
  /\ channels' = channels \cup {c}
  /\ rpc' = "push" /\ pushing' = {c}
  /\ UNCHANGED <<role, sock, cmu, waking, errored, held, opc, newCh, apc, served, cpc>>

(* cc.newCh <- ch blocks while the queue is full. *)
HasRoom == Len(newCh) < QueueCap
Enqueue_dropped(c) == newCh
Enqueue(c) == Append(newCh, c)

Push ==
  /\ rpc = "push" /\ HasRoom
  /\ newCh' = Enqueue(CHOOSE c \in pushing : TRUE)
  /\ rpc' = "read" /\ pushing' = nobody
  /\ UNCHANGED <<role, sock, channels, cmu, waking, errored, held, opc, arrived, apc,
                 served, cpc>>

readLoopFails ==
  /\ rpc = "read" /\ sock # "open"
  /\ rpc' = "closeAll"
  /\ UNCHANGED <<role, sock, channels, cmu, waking, errored, held, opc, newCh, arrived,
                 pushing, apc, served, cpc>>

readLoop == Push \/ readLoopFails \/ closeAll("readLoop")

-----------------------------------------------------------------------------
(* AcceptChannel in a loop; with both cases ready select takes either *)

AcceptChannel ==
  /\ apc = "accept" /\ newCh # <<>>
  /\ served' = served \cup {Head(newCh)}
  /\ newCh' = Tail(newCh)
  /\ UNCHANGED <<role, sock, channels, cmu, waking, errored, held, opc, arrived, rpc,
                 pushing, apc, cpc>>

Done_early == sock # "open"
Done == rpc = "done"

AcceptFails ==
  /\ apc = "accept" /\ Done
  /\ apc' = "stopped"
  /\ UNCHANGED <<role, sock, channels, cmu, waking, errored, held, opc, newCh, arrived,
                 rpc, pushing, served, cpc>>

-----------------------------------------------------------------------------
(* OpenChannel: enter the map, send the frame, take it back on failure *)

OpenRegister(c) ==
  /\ role = "server" /\ opc[c] = "idle" /\ cmu = free
  /\ channels' = channels \cup {c}
  /\ opc' = [opc EXCEPT ![c] = "send"]
  /\ UNCHANGED <<role, sock, cmu, waking, errored, held, newCh, arrived, rpc, pushing,
                 apc, served, cpc>>

OpenSent(c) ==
  /\ opc[c] = "send" /\ sock # "closed" /\ held = {}
  /\ opc' = [opc EXCEPT ![c] = "open"]
  /\ UNCHANGED <<role, sock, channels, cmu, waking, errored, held, newCh, arrived, rpc,
                 pushing, apc, served, cpc>>

OpenFails(c) ==
  /\ opc[c] = "send" /\ sock # "open" /\ cmu = free
  /\ channels' = channels \ {c}
  /\ opc' = [opc EXCEPT ![c] = "refused"]
  /\ UNCHANGED <<role, sock, cmu, waking, errored, held, newCh, arrived, rpc, pushing,
                 apc, served, cpc>>

-----------------------------------------------------------------------------
(* Close: closeAll, then close the socket *)

(* handleClient closes the connection when Done is closed, connect does    *)
(* not.                                                                    *)
MayClose(k) == k = "owner" => role = "server" /\ Done

CloseBegins(k) ==
  /\ cpc[k] = "idle" /\ MayClose(k)
  /\ cpc' = [cpc EXCEPT ![k] = "closeAll"]
  /\ UNCHANGED <<role, sock, channels, cmu, waking, errored, held, opc, newCh, arrived,
                 rpc, pushing, apc, served>>

CloseConn(k) ==
  /\ cpc[k] = "conn"
  /\ sock' = "closed"
  /\ cpc' = [cpc EXCEPT ![k] = "done"]
  /\ UNCHANGED <<role, channels, cmu, waking, errored, held, opc, newCh, arrived, rpc,
                 pushing, apc, served>>

PeerGone ==
  /\ sock = "open"
  /\ sock' = "eof"
  /\ UNCHANGED <<role, channels, cmu, waking, errored, held, opc, newCh, arrived, rpc,
                 pushing, apc, served, cpc>>

-----------------------------------------------------------------------------
(* Read of a channel: the peer does not take the window update *)

ReadBlocks(c) ==
  /\ sock = "open" /\ c \notin held \cup errored
  /\ held' = held \cup {c}
  /\ UNCHANGED <<role, sock, channels, cmu, waking, errored, opc, newCh, arrived, rpc,
                 pushing, apc, served, cpc>>

(* It was taken after all, or the socket is dead. *)
ReadReturns(c) ==
  /\ held' = held \ {c}
  /\ UNCHANGED <<role, sock, channels, cmu, waking, errored, opc, newCh, arrived, rpc,
                 pushing, apc, served, cpc>>

InUse == {c \in Opened : opc[c] = "open"} \cup served

-----------------------------------------------------------------------------
Next ==
  \/ \E c \in Incoming : Arrive(c)
  \/ readLoop \/ AcceptChannel \/ AcceptFails \/ PeerGone
  \/ \E c \in Opened : OpenRegister(c) \/ OpenSent(c) \/ OpenFails(c)
  \/ \E k \in Closers : CloseBegins(k) \/ closeAll(k) \/ CloseConn(k)
  \/ \E c \in InUse : ReadBlocks(c)
  \/ \E c \in held : ReadReturns(c)

Spec == Init /\ [][Next]_vars

(* Goroutines run; a blocked Read returns once the socket is dead, and     *)
(* need not before.                                                        *)
Fairness ==
  /\ WF_vars(readLoop) /\ WF_vars(AcceptChannel \/ AcceptFails)
  /\ \A c \in Opened : WF_vars(OpenSent(c) \/ OpenFails(c))
  /\ WF_vars(CloseBegins("owner"))
  /\ \A k \in Closers : WF_vars(closeAll(k) \/ CloseConn(k))
  /\ \A c \in Channels : WF_vars(sock # "open" /\ c \in held /\ ReadReturns(c))

FairSpec == Spec /\ Fairness

-----------------------------------------------------------------------------
(* Properties *)

(* The queue loses nothing while its accept loop runs: a channel that      *)
(* arrived is being queued, queued or served.                              *)
NoneLost ==
  apc = "accept" => arrived = served \cup {newCh[j] : j \in DOMAIN newCh} \cup pushing

(* When the connection dies, every channel in use is woken with an error,  *)
(* so that its relay ends and the application sees its TCP connection end: *)
(* the channels the client accepted ...                                    *)
DeathReaches(c) == (sock # "open" /\ c \in InUse) ~> c \in errored
AcceptedAreWoken == \A c \in Incoming : DeathReaches(c)

(* ... and the ones the server opened.                                     *)
OpenedAreWoken == \A c \in Opened : DeathReaches(c)

(* A channel in use that is neither in the map nor woken, nor about to be, *)
(* can never be woken: nobody knows it.                                    *)
NoneForgotten == InUse \subseteq channels \cup waking \cup errored

(* Close reaches the socket, however it meets readLoop, the other closer   *)
(* and new channels, unless closeAll is at a channel whose Read holds its  *)
(* rmu until the socket dies.                                              *)
CloseReachesSocket ==
  \A k \in Closers : cpc[k] = "closeAll" ~> (cpc[k] = "done" \/ waking \cap held # {})

(* The connection ends: its readLoop and its accept loop return, whatever  *)
(* is queued.                                                              *)
DeathEnds == sock # "open" ~> (rpc = "done" /\ apc = "stopped")
=============================================================================
