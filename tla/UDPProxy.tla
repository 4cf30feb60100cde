------------------------------ MODULE UDPProxy ------------------------------
(***************************************************************************)
(* UDP local forwarding, relay/udpproxy.go: one listening socket, one      *)
(* session per client address, each with a socket of its own to the target *)
(* and a goroutine that carries the target's packets back.                 *)
(*                                                                         *)
(* Three kinds of goroutine share the sessions map under sessionsMu:       *)
(* Serve (handlePacket), readFromTarget of every session, and Close.  A    *)
(* critical section is one step.  Time is counted in ticks; a read of the  *)
(* target socket times out after Timeout of them.                          *)
(***************************************************************************)
EXTENDS Integers, FiniteSets

CONSTANTS
  Addrs,       \* client addresses
  Sessions,    \* sessions; one that is over may be used again for a new one
  None,
  Timeout,     \* udpSessionTimeout in ticks
  Streaming    \* does the target send packets that answer no request

VARIABLES
  listener,    \* p.listener: "open" or "closed"
  serve,       \* Serve: "read", "lookup", "write", "failed" or "returned"
  packet,      \* the client and the session handlePacket works for
  sessions,    \* p.sessions: the session of each client address, or None
  reader,      \* readFromTarget of each session: "off", "read", "remove", "close"
  client,      \* the client address of each session
  open,        \* is the session's targetConn open
  wait,        \* ticks since readFromTarget set its read deadline
  quiet,       \* ticks since lastActive
  owed,        \* does the target still have a packet to send to the session
  victim,      \* the session removeSession took out of the map and closes
  closing,     \* Close: "no", "listener", "swap", "sessions" or "done"
  toClose      \* the sessions Close has still to close

udp == <<listener, serve, packet, sessions, reader, client, open, wait, quiet,
         owed, victim, closing, toClose>>
timers == <<wait, quiet>>
session == <<reader, client, open, wait, quiet, owed, victim>>

(* The one type invariant. *)
TypeOK ==
  /\ listener \in {"open", "closed"}
  /\ serve \in {"read", "lookup", "write", "failed", "returned"}
  /\ packet \in [from : Addrs \cup {None}, to : Sessions \cup {None}]
  /\ sessions \in [Addrs -> Sessions \cup {None}]
  /\ reader \in [Sessions -> {"off", "read", "remove", "close"}]
  /\ client \in [Sessions -> Addrs \cup {None}]
  /\ {open, owed} \subseteq [Sessions -> BOOLEAN]
  /\ {wait, quiet} \subseteq [Sessions -> 0..Timeout]
  /\ victim \in [Sessions -> Sessions \cup {None}]
  /\ closing \in {"no", "listener", "swap", "sessions", "done"}
  /\ toClose \subseteq Sessions

NoPacket == [from |-> None, to |-> None]
EmptyMap == [a \in Addrs |-> None]

NoSessions ==
  /\ packet = NoPacket
  /\ sessions = EmptyMap
  /\ reader = [s \in Sessions |-> "off"]
  /\ client = [s \in Sessions |-> None]
  /\ open = [s \in Sessions |-> FALSE]
  /\ wait = [s \in Sessions |-> 0] /\ quiet = [s \in Sessions |-> 0]
  /\ owed = [s \in Sessions |-> FALSE]
  /\ victim = [s \in Sessions |-> None]
  /\ closing = "no" /\ toClose = {}

Init ==
  /\ listener = "open" /\ serve = "read"
  /\ NoSessions

-----------------------------------------------------------------------------
(* Serve and handlePacket *)

Receive(a) ==
  /\ serve = "read" /\ listener = "open"
  /\ serve' = "lookup"
  /\ packet' = [from |-> a, to |-> None]
  /\ UNCHANGED <<listener, sessions, session, closing, toClose>>

(* ReadFromUDP returns an error: the listener was closed, or it failed. *)
ServeEnds ==
  /\ serve = "read" /\ listener = "closed"
  /\ serve' = "returned"
  /\ UNCHANGED <<listener, packet, sessions, session, closing, toClose>>

ServeFails ==
  /\ serve = "read" /\ listener = "open"
  /\ serve' = "failed"
  /\ UNCHANGED <<listener, packet, sessions, session, closing, toClose>>

(* A session nobody refers to any more. *)
Unused(s) ==
  /\ reader[s] = "off" /\ ~open[s] /\ s \notin toClose
  /\ packet.to # s
  /\ \A t \in Sessions : victim[t] # s

(* The first critical section: lookup, and dial and insert on a miss. *)
UseSession ==
  /\ serve = "lookup" /\ sessions[packet.from] # None
  /\ quiet' = [quiet EXCEPT ![sessions[packet.from]] = 0]
  /\ packet' = [packet EXCEPT !.to = sessions[packet.from]]
  /\ serve' = "write"
  /\ UNCHANGED <<listener, sessions, reader, client, open, wait, owed, victim,
                 closing, toClose>>

OpenSession ==
  LET s == CHOOSE t \in Sessions : Unused(t) IN
  /\ serve = "lookup" /\ sessions[packet.from] = None
  /\ \E t \in Sessions : Unused(t)
  /\ sessions' = [sessions EXCEPT ![packet.from] = s]
  /\ reader' = [reader EXCEPT ![s] = "read"]
  /\ client' = [client EXCEPT ![s] = packet.from]
  /\ open' = [open EXCEPT ![s] = TRUE]
  /\ wait' = [wait EXCEPT ![s] = 0]
  /\ quiet' = [quiet EXCEPT ![s] = 0]
  /\ owed' = [owed EXCEPT ![s] = FALSE]
  /\ packet' = [packet EXCEPT !.to = s]
  /\ serve' = "write"
  /\ UNCHANGED <<listener, victim, closing, toClose>>

DialFails ==
  /\ serve = "lookup" /\ sessions[packet.from] = None
  /\ serve' = "read" /\ packet' = NoPacket
  /\ UNCHANGED <<listener, sessions, session, closing, toClose>>

Live(s) == reader[s] = "read" /\ open[s]

(* targetConn.Write after the unlock: lost when the session ended between. *)
WritePacket ==
  /\ serve = "write"
  /\ owed' = [owed EXCEPT ![packet.to] = @ \/ Live(packet.to)]
  /\ serve' = "read" /\ packet' = NoPacket
  /\ UNCHANGED <<listener, sessions, reader, client, open, timers, victim,
                 closing, toClose>>

-----------------------------------------------------------------------------
(* readFromTarget *)

Reply(s) ==
  /\ Live(s) /\ (owed[s] \/ Streaming)
  /\ owed' = [owed EXCEPT ![s] = FALSE]
  /\ wait' = [wait EXCEPT ![s] = 0]
  /\ quiet' = [quiet EXCEPT ![s] = 0]
  /\ UNCHANGED <<listener, serve, packet, sessions, reader, client, open,
                 victim, closing, toClose>>

(* The deadline passes, the socket was closed, or the target refused. *)
DeadlineOver_never(s) == FALSE
DeadlineOver(s) == wait[s] = Timeout

EndRead(s) ==
  /\ reader[s] = "read"
  /\ reader' = [reader EXCEPT ![s] = "remove"]
  /\ wait' = [wait EXCEPT ![s] = 0]
  /\ quiet' = [quiet EXCEPT ![s] = 0]
  /\ owed' = [owed EXCEPT ![s] = FALSE]
  /\ UNCHANGED <<listener, serve, packet, sessions, client, open, victim,
                 closing, toClose>>

ReadTimesOut(s) == DeadlineOver(s) /\ EndRead(s)
ReadOnClosed(s) == ~open[s] /\ EndRead(s)
ReadRefused(s) == Live(s) /\ owed[s] /\ EndRead(s)

(* removeSession: whatever session the client's address has by now. *)
Without_kept(a) == sessions
Without(a) == [sessions EXCEPT ![a] = None]

removeSession(s) ==
  /\ reader[s] = "remove"
  /\ victim' = [victim EXCEPT ![s] = sessions[client[s]]]
  /\ sessions' = Without(client[s])
  /\ reader' = [reader EXCEPT ![s] = "close"]
  /\ UNCHANGED <<listener, serve, packet, client, open, timers, owed, closing,
                 toClose>>

CloseVictim(s) ==
  /\ reader[s] = "close"
  /\ open' = [t \in Sessions |-> open[t] /\ t # victim[s]]
  /\ victim' = [victim EXCEPT ![s] = None]
  /\ reader' = [reader EXCEPT ![s] = "off"]
  /\ client' = [client EXCEPT ![s] = None]
  /\ UNCHANGED <<listener, serve, packet, sessions, timers, owed, closing,
                 toClose>>

-----------------------------------------------------------------------------
(* Close *)

CloseBegin ==
  /\ closing = "no"
  /\ closing' = "listener"
  /\ UNCHANGED <<listener, serve, packet, sessions, session, toClose>>

CloseListener ==
  /\ closing = "listener"
  /\ listener' = "closed"
  /\ closing' = "swap"
  /\ UNCHANGED <<serve, packet, sessions, session, toClose>>

Swapped == {sessions[a] : a \in Addrs} \ {None}

CloseSwap ==
  /\ closing = "swap"
  /\ toClose' = Swapped
  /\ sessions' = EmptyMap
  /\ closing' = "sessions"
  /\ UNCHANGED <<listener, serve, packet, session>>

CloseSession(s) ==
  /\ closing = "sessions" /\ s \in toClose
  /\ open' = [open EXCEPT ![s] = FALSE]
  /\ toClose' = toClose \ {s}
  /\ UNCHANGED <<listener, serve, packet, sessions, reader, client, timers,
                 owed, victim, closing>>

CloseReturns ==
  /\ closing = "sessions" /\ toClose = {}
  /\ closing' = "done"
  /\ UNCHANGED <<listener, serve, packet, sessions, session, toClose>>

-----------------------------------------------------------------------------
(* Time passes only while no read deadline is over. *)
Tick ==
  LET Reading == {s \in Sessions : Live(s)}
      Later(t) == [s \in Sessions |-> IF s \in Reading /\ t[s] < Timeout
                                      THEN t[s] + 1 ELSE t[s]]
  IN  /\ Reading # {} /\ \A s \in Reading : wait[s] < Timeout
      /\ wait' = Later(wait) /\ quiet' = Later(quiet)
      /\ UNCHANGED <<listener, serve, packet, sessions, reader, client, open,
                     owed, victim, closing, toClose>>

handlePacket ==
  UseSession \/ OpenSession \/ DialFails \/ WritePacket

readFromTarget(s) ==
  ReadTimesOut(s) \/ ReadOnClosed(s) \/ removeSession(s) \/ CloseVictim(s)

Close ==
  \/ CloseListener \/ CloseSwap \/ CloseReturns
  \/ \E s \in Sessions : CloseSession(s)

Step ==
  \/ \E a \in Addrs : Receive(a)
  \/ ServeEnds \/ ServeFails \/ handlePacket
  \/ \E s \in Sessions : Reply(s) \/ ReadRefused(s) \/ readFromTarget(s)
  \/ Close \/ Tick

Next == Step \/ CloseBegin

Spec == Init /\ [][Next]_udp

-----------------------------------------------------------------------------
(* Properties *)

(* Until Close takes the map away, it is exact: a client's entry is a      *)
(* session of that client whose socket is open, so its packets do not      *)
(* vanish in a closed socket, and a session that carries packets is its    *)
(* client's entry, so no client is answered from two sockets.              *)
SessionTable ==
  closing \in {"no", "listener", "swap"} =>
    /\ \A a \in Addrs : sessions[a] # None =>
         client[sessions[a]] = a /\ open[sessions[a]]
    /\ \A s \in Sessions : Live(s) => sessions[client[s]] = s

(* After Close every session gives back its socket and its goroutine, the  *)
(* one a packet opened while Close was running included (it is in no list  *)
(* of Close and waits for its read deadline).                              *)
SessionsReclaimed ==
  closing # "no" ~> \A s \in Sessions : reader[s] = "off" /\ ~open[s]
=============================================================================
