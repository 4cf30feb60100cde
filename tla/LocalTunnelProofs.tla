-------------------------- MODULE LocalTunnelProofs -------------------------
(***************************************************************************)
(* Proofs about LocalTunnel, for any number of connections, addresses and  *)
(* sessions: no SOCKS client is served before it has proved itself, and    *)
(* the table of UDP sessions is exact until Close takes it away.           *)
(***************************************************************************)
EXTENDS LocalTunnel, FiniteSetTheorems, TLAPS

-----------------------------------------------------------------------------
(* The proxies that accept TCP connections *)

Relaying == {c \in Conns : at[c] = "relay"}

(* Credentials are configured for a SOCKS proxy only, and only it replies. *)
AuthIsSocks ==
  /\ user \/ pass => kind = "socks"
  /\ \A c \in Conns : at[c] = "reply" => kind = "socks"

(* From the request on, the client has proved the credentials. *)
Admitted ==
  \A c \in Conns :
    (user \/ pass) /\ (at[c] \in {"request", "dial", "reply", "relay"} \/ up[c])
      => c \in proved

(* connCount is the number of connections in Relay; ChainProxy has none. *)
Counted == connCount = IF kind = "chain" THEN 0 ELSE Cardinality(Relaying)

StreamTyped ==
  /\ kind \in {"tcp", "socks", "chain"}
  /\ user \in BOOLEAN /\ pass \in BOOLEAN
  /\ listener \in {"open", "closed"}
  /\ serve \in {"accept", "failed", "returned"}
  /\ at \in [Conns -> {"none", "queued", "greeting", "password", "request",
                       "dial", "reply", "relay", "close", "done"}]
  /\ down \in [Conns -> BOOLEAN] /\ up \in [Conns -> BOOLEAN]
  /\ copying \in [Conns -> SUBSET {"sent", "received"}]
  /\ proved \subseteq Conns

StreamInv == StreamTyped /\ AuthIsSocks /\ Admitted /\ Counted

(* A finite count, and how it changes with one connection. *)
LEMMA RelayCount ==
  /\ IsFiniteSet(Relaying) /\ Cardinality(Relaying) \in 0..Cardinality(Conns)
  /\ \A c : IsFiniteSet(Relaying \cup {c}) /\ IsFiniteSet(Relaying \ {c})
  /\ \A c : c \notin Relaying =>
       Cardinality(Relaying \cup {c}) = Cardinality(Relaying) + 1
  /\ \A c : c \in Relaying =>
       Cardinality(Relaying \ {c}) = Cardinality(Relaying) - 1
<1>1. IsFiniteSet(Conns) /\ Relaying \subseteq Conns
  BY LocalTunnelAssumption DEF Relaying
<1>2. /\ IsFiniteSet(Relaying) /\ Cardinality(Relaying) \in Nat
      /\ Cardinality(Conns) \in Nat /\ Cardinality(Relaying) <= Cardinality(Conns)
  BY <1>1, FS_Subset, FS_CardinalityType
<1> HIDE DEF Relaying
<1>3. \A c : IsFiniteSet(Relaying \cup {c}) /\ IsFiniteSet(Relaying \ {c})
  BY <1>2, FS_AddElement, FS_RemoveElement
<1>4. \A c : c \notin Relaying =>
        Cardinality(Relaying \cup {c}) = Cardinality(Relaying) + 1
  BY <1>2, FS_AddElement
<1>5. \A c : c \in Relaying =>
        Cardinality(Relaying \ {c}) = Cardinality(Relaying) - 1
  BY <1>2, FS_RemoveElement
<1>6. Cardinality(Relaying) \in 0..Cardinality(Conns)
  BY <1>2
<1> QED BY <1>2, <1>3, <1>4, <1>5, <1>6, Zenon

LEMMA StreamTypes == StreamInv => Stream!TypeOK
<1> SUFFICES ASSUME StreamInv PROVE Stream!TypeOK
  OBVIOUS
<1>1. Stream!Cardinality(Conns) = Cardinality(Conns)
  BY DEF Stream!Cardinality, Cardinality
<1>2. connCount \in 0..Cardinality(Conns)
  <2>1. Cardinality(Conns) \in Nat
    BY LocalTunnelAssumption, FS_CardinalityType
  <2> QED BY <2>1, RelayCount DEF StreamInv, Counted
<1> QED BY <1>1, <1>2 DEF StreamInv, StreamTyped, Stream!TypeOK

LEMMA StreamStart == Stream!Init => StreamInv
<1> SUFFICES ASSUME Stream!Init PROVE StreamInv
  OBVIOUS
<1>1. Relaying = {}
  BY DEF Relaying, Stream!Init, Stream!NoConns
<1>2. Counted
  BY <1>1, FS_EmptySet DEF Counted, Stream!Init, Stream!NoConns
<1> QED BY <1>2 DEF StreamInv, StreamTyped, AuthIsSocks, Admitted, Stream!Init, Stream!NoConns,
              Stream!Kinds

LEMMA StreamStays ==
  StreamInv /\ UNCHANGED <<kind, listener, serve, streamOnly>> => StreamInv'
BY DEF StreamInv, streamOnly, StreamTyped, AuthIsSocks, Admitted, Counted, Relaying

(* A step that takes no connection into Relay or out of it. *)
LEMMA SameRelaying ==
  ASSUME StreamInv, Relaying' = Relaying, kind' = kind, connCount' = connCount
  PROVE  Counted'
BY DEF StreamInv, Counted

LEMMA StreamKeeps == StreamInv /\ (Stream!Step \/ Stream!Close) => StreamInv'
<1> SUFFICES ASSUME StreamInv, Stream!Step \/ Stream!Close PROVE StreamInv'
  OBVIOUS
<1> USE DEF Stream!Go, Stream!setup
<1>1. ASSUME NEW c \in Conns, Stream!Connect(c) PROVE StreamInv'
  <2>1. Relaying' = Relaying
    BY <1>1 DEF Stream!Connect, Relaying, StreamInv, StreamTyped
  <2> QED BY <1>1, <2>1, SameRelaying DEF Stream!Connect, StreamInv, StreamTyped, AuthIsSocks,
              Admitted
<1>2. ASSUME NEW c \in Conns, Stream!Accept(c) PROVE StreamInv'
  <2>1. Relaying' = Relaying
    BY <1>2 DEF Stream!Accept, Relaying, StreamInv, StreamTyped
  <2> QED BY <1>2, <2>1, SameRelaying DEF Stream!Accept, StreamInv, StreamTyped, AuthIsSocks,
              Admitted
<1>3. ASSUME Stream!ServeEnds PROVE StreamInv'
  <2>1. Relaying' = Relaying
    BY <1>3 DEF Stream!ServeEnds, Relaying
  <2> QED BY <1>3, <2>1, SameRelaying DEF Stream!ServeEnds, StreamInv, StreamTyped, AuthIsSocks,
              Admitted
<1>4. ASSUME Stream!ServeFails PROVE StreamInv'
  <2>1. Relaying' = Relaying
    BY <1>4 DEF Stream!ServeFails, Relaying
  <2> QED BY <1>4, <2>1, SameRelaying DEF Stream!ServeFails, StreamInv, StreamTyped, AuthIsSocks,
              Admitted
<1>5. ASSUME Stream!Close PROVE StreamInv'
  <2>1. Relaying' = Relaying
    BY <1>5 DEF Stream!Close, Relaying, StreamInv, StreamTyped
  <2> QED BY <1>5, <2>1, SameRelaying DEF Stream!Close, StreamInv, StreamTyped, AuthIsSocks,
              Admitted
<1>6. ASSUME NEW c \in Conns, Stream!HandshakeFails(c) PROVE StreamInv'
  <2>1. Relaying' = Relaying
    BY <1>6 DEF Stream!HandshakeFails, Relaying, StreamInv, StreamTyped
  <2> QED BY <1>6, <2>1, SameRelaying DEF Stream!HandshakeFails, StreamInv, StreamTyped,
              AuthIsSocks, Admitted
<1>7. ASSUME NEW c \in Conns, NEW methods, Stream!Greeting(c, methods) PROVE StreamInv'
  <2> DEFINE to == CASE Stream!Chosen(methods) = "none" -> "request"
                     [] Stream!Chosen(methods) = "password" -> "password"
                     [] OTHER -> "close"
  <2>1. /\ at' = [at EXCEPT ![c] = to]
        /\ to \in {"request", "password", "close"}
        /\ to = "request" => ~(user \/ pass)
    BY <1>7 DEF Stream!Greeting, Stream!Chosen, Stream!RequireAuth
  <2> HIDE DEF to
  <2>2. at[c] = "greeting" /\ UNCHANGED <<Stream!setup, listener, serve, down, up, copying, connCount, proved>>
    BY <1>7 DEF Stream!Greeting
  <2>3. Relaying' = Relaying
    BY <2>1, <2>2 DEF Relaying, StreamInv, StreamTyped
  <2> QED BY <2>1, <2>2, <2>3, SameRelaying DEF StreamInv, StreamTyped, AuthIsSocks, Admitted
<1>8. ASSUME NEW c \in Conns, NEW right \in BOOLEAN, Stream!socksPasswordAuth(c, right)
      PROVE  StreamInv'
  <2>1. Relaying' = Relaying
    BY <1>8 DEF Stream!socksPasswordAuth, Relaying, StreamInv, StreamTyped
  <2> QED BY <1>8, <2>1, SameRelaying DEF Stream!socksPasswordAuth, StreamInv, StreamTyped,
              AuthIsSocks, Admitted
<1>9. ASSUME NEW c \in Conns, Stream!Request(c) PROVE StreamInv'
  <2>1. Relaying' = Relaying
    BY <1>9 DEF Stream!Request, Relaying, StreamInv, StreamTyped
  <2> QED BY <1>9, <2>1, SameRelaying DEF Stream!Request, StreamInv, StreamTyped,
              AuthIsSocks, Admitted
<1>10. ASSUME NEW c \in Conns, Stream!DialFails(c) PROVE StreamInv'
  <2>1. Relaying' = Relaying
    BY <1>10 DEF Stream!DialFails, Relaying, StreamInv, StreamTyped
  <2> QED BY <1>10, <2>1, SameRelaying DEF Stream!DialFails, StreamInv, StreamTyped,
              AuthIsSocks, Admitted
<1>11. ASSUME NEW c \in Conns, Stream!ReplyFails(c) PROVE StreamInv'
  <2>1. Relaying' = Relaying
    BY <1>11 DEF Stream!ReplyFails, Relaying, StreamInv, StreamTyped
  <2> QED BY <1>11, <2>1, SameRelaying DEF Stream!ReplyFails, StreamInv, StreamTyped,
              AuthIsSocks, Admitted
<1>12. ASSUME NEW c \in Conns, NEW dir, Stream!CopyEnds(c, dir) PROVE StreamInv'
  <2>1. Relaying' = Relaying
    BY <1>12 DEF Stream!CopyEnds, Relaying
  <2> QED BY <1>12, <2>1, SameRelaying DEF Stream!CopyEnds, StreamInv, StreamTyped,
              AuthIsSocks, Admitted
<1>13. ASSUME NEW c \in Conns, Stream!CloseSockets(c) PROVE StreamInv'
  <2>1. Relaying' = Relaying
    BY <1>13 DEF Stream!CloseSockets, Relaying, StreamInv, StreamTyped
  <2> QED BY <1>13, <2>1, SameRelaying DEF Stream!CloseSockets, Stream!Deferred, StreamInv,
              StreamTyped, AuthIsSocks, Admitted
<1>14. ASSUME NEW c \in Conns, Stream!DialOk(c) PROVE StreamInv'
  <2>1. Counted'
    <3>1. c \notin Relaying /\ kind' = kind
      BY <1>14 DEF Stream!DialOk, Relaying
    <3>2. CASE kind = "socks"
      <4>1. Relaying' = Relaying
        BY <1>14, <3>2 DEF Stream!DialOk, Relaying, StreamInv, StreamTyped
      <4> QED BY <1>14, <3>2, <4>1, SameRelaying DEF Stream!DialOk
    <3>3. CASE kind # "socks"
      <4>1. Relaying' = Relaying \cup {c}
        BY <1>14, <3>3 DEF Stream!DialOk, Relaying, StreamInv, StreamTyped
      <4>2. Cardinality(Relaying') = Cardinality(Relaying) + 1
        BY <3>1, <4>1, RelayCount
      <4>3. connCount' = IF kind = "tcp" THEN connCount + 1 ELSE connCount
        BY <1>14 DEF Stream!DialOk
      <4>4. kind # "chain" => connCount' = Cardinality(Relaying')
        BY <3>3, <4>2, <4>3 DEF StreamInv, Counted, StreamTyped
      <4> QED BY <3>1, <4>3, <4>4 DEF Counted, StreamInv
    <3> QED BY <3>2, <3>3
  <2> QED BY <1>14, <2>1 DEF Stream!DialOk, StreamInv, StreamTyped, AuthIsSocks, Admitted
<1>15. ASSUME NEW c \in Conns, Stream!ReplyOk(c) PROVE StreamInv'
  <2>1. kind = "socks" /\ kind' = kind
    BY <1>15 DEF Stream!ReplyOk, StreamInv, AuthIsSocks
  <2>2. c \notin Relaying /\ Relaying' = Relaying \cup {c}
    BY <1>15 DEF Stream!ReplyOk, Relaying, StreamInv, StreamTyped
  <2>3. Cardinality(Relaying') = Cardinality(Relaying) + 1
    BY <2>2, RelayCount
  <2>4. Counted'
    BY <1>15, <2>1, <2>3 DEF Stream!ReplyOk, StreamInv, Counted
  <2> QED BY <1>15, <2>1, <2>4 DEF Stream!ReplyOk, StreamInv, StreamTyped, AuthIsSocks, Admitted
<1>16. ASSUME NEW c \in Conns, Stream!RelayReturns(c) PROVE StreamInv'
  <2>1. Counted'
    <3>1. c \in Relaying /\ kind' = kind /\ Relaying' = Relaying \ {c}
      BY <1>16 DEF Stream!RelayReturns, Relaying, StreamInv, StreamTyped
    <3>2. Cardinality(Relaying') = Cardinality(Relaying) - 1
      BY <3>1, RelayCount
    <3> QED BY <1>16, <3>1, <3>2 DEF Stream!RelayReturns, StreamInv, Counted
  <2> QED BY <1>16, <2>1 DEF Stream!RelayReturns, StreamInv, StreamTyped, AuthIsSocks, Admitted
<1> QED BY <1>1, <1>2, <1>3, <1>4, <1>5, <1>6, <1>7, <1>8, <1>9, <1>10, <1>11, <1>12, <1>13,
           <1>14, <1>15, <1>16 DEF Stream!Step, Stream!handle

-----------------------------------------------------------------------------
(* UDPProxy *)

UDPTyped ==
  /\ listener \in {"open", "closed"}
  /\ serve \in {"read", "lookup", "write", "failed", "returned"}
  /\ packet \in [from : Addrs \cup {None}, to : Sessions \cup {None}]
  /\ sessions \in [Addrs -> Sessions \cup {None}]
  /\ reader \in [Sessions -> {"off", "read", "remove", "close"}]
  /\ client \in [Sessions -> Addrs \cup {None}]
  /\ open \in [Sessions -> BOOLEAN] /\ owed \in [Sessions -> BOOLEAN]
  /\ wait \in [Sessions -> 0..Timeout] /\ quiet \in [Sessions -> 0..Timeout]
  /\ victim \in [Sessions -> Sessions \cup {None}]
  /\ closing \in {"no", "listener", "swap", "sessions", "done"}
  /\ toClose \subseteq Sessions

(* handlePacket knows its client, and then its session; a goroutine of a   *)
(* session knows the client it reads for.                                  *)
Placed ==
  /\ serve \in {"lookup", "write"} => packet.from \in Addrs
  /\ serve = "write" => packet.to \in Sessions
  /\ \A s \in Sessions : reader[s] # "off" => client[s] \in Addrs

(* Until Close swaps the map: an entry is a session of that client whose   *)
(* socket is open and whose goroutine has not removed it; every such       *)
(* session is an entry; and a goroutine that has removed an entry closes   *)
(* its own session, never one opened since.                                *)
BeforeSwap == closing \in {"no", "listener", "swap"}
InUse(s) == reader[s] \in {"read", "remove"}
EntriesInUse ==
  \A a \in Addrs : sessions[a] # None =>
    client[sessions[a]] = a /\ open[sessions[a]] /\ InUse(sessions[a])
UsedAreEntries ==
  \A s \in Sessions : InUse(s) => sessions[client[s]] = s
ClosesItsOwn == \A s \in Sessions : reader[s] = "close" => victim[s] = s

Exact == BeforeSwap => EntriesInUse /\ UsedAreEntries /\ ClosesItsOwn

UDPInv == UDPTyped /\ Placed /\ Exact

LEMMA UDPTypes == UDPInv => UDP!TypeOK
BY DEF UDPInv, UDPTyped, UDP!TypeOK

LEMMA PacketMade ==
  ASSUME NEW a \in Addrs \cup {None}, NEW s \in Sessions \cup {None}
  PROVE  [from |-> a, to |-> s] \in [from : Addrs \cup {None}, to : Sessions \cup {None}]
OBVIOUS

LEMMA UDPStart == UDP!Init => UDPInv
<1> SUFFICES ASSUME UDP!Init PROVE UDPInv
  OBVIOUS
<1>1. UDP!NoPacket \in [from : Addrs \cup {None}, to : Sessions \cup {None}]
  BY PacketMade DEF UDP!NoPacket
<1>2. 0 \in 0..Timeout
  BY LocalTunnelAssumption
<1>3. UDPTyped
  BY <1>1, <1>2 DEF UDPTyped, UDP!Init, UDP!NoSessions, UDP!EmptyMap
<1> QED BY <1>3 DEF UDPInv, Placed, Exact, EntriesInUse, UsedAreEntries, ClosesItsOwn,
              InUse, UDP!Init, UDP!NoSessions, UDP!EmptyMap

LEMMA UDPStays == UDPInv /\ UNCHANGED <<listener, serve, udpOnly>> => UDPInv'
BY DEF UDPInv, udpOnly, UDPTyped, Placed, Exact, BeforeSwap, EntriesInUse, UsedAreEntries,
       ClosesItsOwn, InUse

(* A session that handlePacket may take is in nobody's entry. *)
LEMMA OpensUnused ==
  ASSUME UDPInv, UDP!OpenSession
  PROVE  UDPInv'
<1> DEFINE s == CHOOSE t \in Sessions : UDP!Unused(t)
           a == packet.from
<1>1. s \in Sessions /\ UDP!Unused(s)
  BY DEF UDP!OpenSession
<1>2. a \in Addrs /\ sessions[a] = None /\ serve = "lookup"
  BY DEF UDP!OpenSession, UDPInv, Placed
<1>3. /\ sessions' = [sessions EXCEPT ![a] = s]
      /\ reader' = [reader EXCEPT ![s] = "read"]
      /\ client' = [client EXCEPT ![s] = a]
      /\ open' = [open EXCEPT ![s] = TRUE]
      /\ wait' = [wait EXCEPT ![s] = 0] /\ quiet' = [quiet EXCEPT ![s] = 0]
      /\ owed' = [owed EXCEPT ![s] = FALSE]
      /\ packet' = [packet EXCEPT !.to = s] /\ serve' = "write"
      /\ UNCHANGED <<listener, victim, closing, toClose>>
  BY DEF UDP!OpenSession
<1>4. reader[s] = "off" /\ ~open[s]
  BY <1>1 DEF UDP!Unused
<1> HIDE DEF s
<1>5. UDPTyped'
  BY <1>1, <1>2, <1>3, LocalTunnelAssumption DEF UDPInv, UDPTyped
<1>6. Placed'
  BY <1>1, <1>2, <1>3 DEF UDPInv, UDPTyped, Placed
<1>7. Exact'
  BY <1>1, <1>2, <1>3, <1>4, LocalTunnelAssumption DEF UDPInv, UDPTyped, Placed, Exact,
     BeforeSwap, EntriesInUse, UsedAreEntries, ClosesItsOwn, InUse
<1> QED BY <1>5, <1>6, <1>7 DEF UDPInv

LEMMA UDPKeeps == UDPInv /\ (UDP!Step \/ UDP!CloseBegin) => UDPInv'
<1> SUFFICES ASSUME UDPInv, UDP!Step \/ UDP!CloseBegin PROVE UDPInv'
  OBVIOUS
<1> DEFINE Map == /\ BeforeSwap' => BeforeSwap
                  /\ UNCHANGED <<sessions, reader, client, open, victim>>
<1>1. ASSUME Map, Placed', UDPTyped' PROVE UDPInv'
  BY <1>1 DEF UDPInv, Exact, EntriesInUse, UsedAreEntries, ClosesItsOwn, InUse
<1> HIDE DEF Map
<1>2. UDP!NoPacket \in [from : Addrs \cup {None}, to : Sessions \cup {None}]
  BY PacketMade DEF UDP!NoPacket
<1> USE DEF UDP!session, UDP!timers
<1>3. ASSUME NEW a \in Addrs, UDP!Receive(a) PROVE UDPInv'
  <2>1. Placed' /\ UDPTyped' /\ Map
    BY <1>3, PacketMade DEF UDP!Receive, UDPInv, UDPTyped, Placed, Map, BeforeSwap
  <2> QED BY <1>1, <2>1
<1>4. ASSUME UDP!ServeEnds \/ UDP!ServeFails PROVE UDPInv'
  <2>1. Placed' /\ UDPTyped' /\ Map
    BY <1>4 DEF UDP!ServeEnds, UDP!ServeFails, UDPInv, UDPTyped, Placed, Map, BeforeSwap
  <2> QED BY <1>1, <2>1
<1>5. ASSUME UDP!UseSession PROVE UDPInv'
  <2>1. packet.from \in Addrs /\ sessions[packet.from] \in Sessions
    BY <1>5 DEF UDP!UseSession, UDPInv, UDPTyped, Placed
  <2>2. Placed' /\ UDPTyped' /\ Map
    BY <1>5, <2>1, LocalTunnelAssumption DEF UDP!UseSession, UDPInv, UDPTyped, Placed, Map, BeforeSwap
  <2> QED BY <1>1, <2>2
<1>6. ASSUME UDP!DialFails PROVE UDPInv'
  <2>1. Placed' /\ UDPTyped' /\ Map
    BY <1>6, <1>2 DEF UDP!DialFails, UDPInv, UDPTyped, Placed, Map, BeforeSwap
  <2> QED BY <1>1, <2>1
<1>7. ASSUME UDP!WritePacket PROVE UDPInv'
  <2>1. packet.to \in Sessions
    BY <1>7 DEF UDP!WritePacket, UDPInv, Placed
  <2>2. owed' \in [Sessions -> BOOLEAN]
    BY <1>7, <2>1 DEF UDP!WritePacket, UDP!Live, UDPInv, UDPTyped
  <2>3. Placed' /\ UDPTyped' /\ Map
    BY <1>7, <1>2, <2>2 DEF UDP!WritePacket, UDPInv, UDPTyped, Placed, Map, BeforeSwap
  <2> QED BY <1>1, <2>3
<1>8. ASSUME NEW s \in Sessions, UDP!Reply(s) PROVE UDPInv'
  <2>1. Placed' /\ UDPTyped' /\ Map
    BY <1>8, LocalTunnelAssumption DEF UDP!Reply, UDPInv, UDPTyped, Placed, Map, BeforeSwap
  <2> QED BY <1>1, <2>1
<1>9. ASSUME NEW s \in Sessions, UDP!EndRead(s) PROVE UDPInv'
  <2>1. Placed' /\ UDPTyped'
    BY <1>9, LocalTunnelAssumption DEF UDP!EndRead, UDPInv, UDPTyped, Placed
  <2>2. Exact'
    BY <1>9 DEF UDP!EndRead, UDPInv, UDPTyped, Exact, BeforeSwap, EntriesInUse, UsedAreEntries,
                ClosesItsOwn, InUse
  <2> QED BY <2>1, <2>2 DEF UDPInv
<1>10. ASSUME NEW s \in Sessions, UDP!removeSession(s) PROVE UDPInv'
  <2>1. client[s] \in Addrs
    BY <1>10 DEF UDP!removeSession, UDPInv, Placed
  <2>2. Placed' /\ UDPTyped'
    BY <1>10, <2>1 DEF UDP!removeSession, UDP!Without, UDPInv, UDPTyped, Placed
  <2>3. Exact'
    BY <1>10, <2>1, LocalTunnelAssumption DEF UDP!removeSession, UDP!Without, UDPInv, UDPTyped,
       Placed, Exact, BeforeSwap, EntriesInUse, UsedAreEntries, ClosesItsOwn, InUse
  <2> QED BY <2>2, <2>3 DEF UDPInv
<1>11. ASSUME NEW s \in Sessions, UDP!CloseVictim(s) PROVE UDPInv'
  <2>1. Placed' /\ UDPTyped'
    BY <1>11 DEF UDP!CloseVictim, UDPInv, UDPTyped, Placed
  <2>2. Exact'
    BY <1>11 DEF UDP!CloseVictim, UDPInv, UDPTyped, Exact, BeforeSwap, EntriesInUse,
                 UsedAreEntries, ClosesItsOwn, InUse
  <2> QED BY <2>1, <2>2 DEF UDPInv
<1>12. ASSUME UDP!CloseBegin \/ UDP!CloseListener PROVE UDPInv'
  <2>1. Placed' /\ UDPTyped' /\ Map
    BY <1>12 DEF UDP!CloseBegin, UDP!CloseListener, UDPInv, UDPTyped, Placed, Map, BeforeSwap
  <2> QED BY <1>1, <2>1
<1>13. ASSUME UDP!CloseSwap PROVE UDPInv'
  <2>1. UDP!Swapped \subseteq Sessions
    BY DEF UDP!Swapped, UDPInv, UDPTyped
  <2>2. UDP!EmptyMap \in [Addrs -> Sessions \cup {None}]
    BY DEF UDP!EmptyMap
  <2> QED BY <1>13, <2>1, <2>2 DEF UDP!CloseSwap, UDPInv, UDPTyped, Placed, Exact, BeforeSwap
<1>14. ASSUME NEW s \in Sessions, UDP!CloseSession(s) PROVE UDPInv'
  BY <1>14 DEF UDP!CloseSession, UDPInv, UDPTyped, Placed, Exact, BeforeSwap
<1>15. ASSUME UDP!CloseReturns PROVE UDPInv'
  BY <1>15 DEF UDP!CloseReturns, UDPInv, UDPTyped, Placed, Exact, BeforeSwap
<1>16. ASSUME UDP!Tick PROVE UDPInv'
  <2>1. wait' \in [Sessions -> 0..Timeout] /\ quiet' \in [Sessions -> 0..Timeout]
    BY <1>16, LocalTunnelAssumption DEF UDP!Tick, UDPInv, UDPTyped
  <2>2. Placed' /\ UDPTyped' /\ Map
    BY <1>16, <2>1 DEF UDP!Tick, UDPInv, UDPTyped, Placed, Map, BeforeSwap
  <2> QED BY <1>1, <2>2
<1> QED BY <1>3, <1>4, <1>5, <1>6, <1>7, <1>8, <1>9, <1>10, <1>11, <1>12, <1>13, <1>14, <1>15,
           <1>16, OpensUnused DEF UDP!Step, UDP!handlePacket, UDP!readFromTarget, UDP!Close,
           UDP!ReadRefused, UDP!ReadTimesOut, UDP!ReadOnClosed

LEMMA UDPImplies == UDPInv => UDP!SessionTable
BY DEF UDPInv, Exact, BeforeSwap, EntriesInUse, UsedAreEntries, InUse, UDP!SessionTable, UDP!Live

-----------------------------------------------------------------------------
(* The tunnel *)

ManagerTyped ==
  /\ kind \in {"tcp", "socks", "chain", "udp"}
  /\ tunnel \in {"select", "closing", "stopped", "failed"}
  /\ stop \in BOOLEAN /\ errCh \in 0..1
  /\ server \in {"serving", "sending", "gone"}

TunnelInv ==
  /\ ManagerTyped
  /\ kind # "udp" => StreamInv
  /\ kind = "udp" => UDPInv /\ ~user /\ ~pass

LEMMA TunnelStart == Init => TunnelInv
<1> SUFFICES ASSUME Init PROVE TunnelInv
  OBVIOUS
<1>1. tunnel = "select" /\ stop = FALSE /\ errCh \in 0..1 /\ server = "serving"
  BY DEF Init
<1>2. CASE Stream!Init /\ UDP!NoSessions
  <2>1. StreamInv
    BY <1>2, StreamStart
  <2> QED BY <1>1, <2>1 DEF TunnelInv, ManagerTyped, StreamInv, StreamTyped
<1>3. CASE UDP!Init /\ kind = "udp" /\ user = FALSE /\ pass = FALSE /\ Stream!NoConns
  <2>1. UDPInv
    BY <1>3, UDPStart
  <2> QED BY <1>1, <1>3, <2>1 DEF TunnelInv, ManagerTyped
<1> QED BY <1>2, <1>3 DEF Init

LEMMA TunnelKeeps == TunnelInv /\ [Next]_vars => TunnelInv'
<1> SUFFICES ASSUME TunnelInv, [Next]_vars PROVE TunnelInv'
  OBVIOUS
<1>1. ASSUME UNCHANGED proxy, ManagerTyped' PROVE TunnelInv'
  BY <1>1, StreamStays, UDPStays DEF TunnelInv, proxy, streamOnly, udpOnly
<1>2. ASSUME kind = "udp", UDP!Step \/ UDP!CloseBegin, UNCHANGED <<kind, streamOnly>>,
             ManagerTyped'
      PROVE  TunnelInv'
  BY <1>2, UDPKeeps DEF TunnelInv, streamOnly
<1>3. ASSUME kind # "udp", Stream!Step \/ Stream!Close, ManagerTyped' PROVE TunnelInv'
  <2>1. StreamInv'
    BY <1>3, StreamKeeps DEF TunnelInv
  <2> QED BY <1>3, <2>1 DEF TunnelInv, StreamInv, StreamTyped
<1>4. ASSUME Stream!Step \/ Stream!Close PROVE kind' = kind
  BY <1>4 DEF Stream!Step, Stream!Close, Stream!handle, Stream!Connect, Stream!Accept,
     Stream!ServeEnds, Stream!ServeFails, Stream!HandshakeFails, Stream!Greeting,
     Stream!socksPasswordAuth, Stream!Request, Stream!DialOk, Stream!DialFails, Stream!ReplyOk,
     Stream!ReplyFails, Stream!CopyEnds, Stream!RelayReturns, Stream!CloseSockets, Stream!setup
<1>5. CASE ProxyStep
  <2>1. ManagerTyped'
    BY <1>4, <1>5 DEF ProxyStep, mgr, TunnelInv, ManagerTyped
  <2> QED BY <1>2, <1>3, <1>5, <2>1 DEF ProxyStep
<1>6. CASE SelectStop
  <2>1. ManagerTyped'
    BY <1>4, <1>6 DEF SelectStop, TunnelInv, ManagerTyped
  <2> QED BY <1>2, <1>3, <1>6, <2>1 DEF SelectStop
<1>7. CASE Stop \/ ServeReturned \/ SendResult \/ CloseReturned \/ SelectErr
  <2>1. UNCHANGED proxy
    BY <1>7 DEF Stop, ServeReturned, SendResult, CloseReturned, SelectErr
  <2>2. kind' = kind
    BY <2>1 DEF proxy
  <2>3. errCh' \in 0..1
    BY <1>7 DEF Stop, ServeReturned, SendResult, ErrChCap, CloseReturned, SelectErr,
       TunnelInv, ManagerTyped
  <2>4. ManagerTyped'
    BY <1>7, <2>2, <2>3 DEF Stop, ServeReturned, SendResult, CloseReturned, SelectErr,
       TunnelInv, ManagerTyped
  <2> QED BY <1>1, <2>1, <2>4
<1>8. CASE UNCHANGED vars
  <2>1. ManagerTyped'
    BY <1>8 DEF vars, mgr, proxy, TunnelInv, ManagerTyped
  <2> QED BY <1>1, <1>8, <2>1 DEF vars
<1> QED BY <1>5, <1>6, <1>7, <1>8 DEF Next

LEMMA TunnelAlways == Spec => []TunnelInv
BY TunnelStart, TunnelKeeps, PTL DEF Spec

(* Every variable of the tunnel and of the proxy it runs keeps its type;   *)
(* connCount in particular never goes below zero or above the number of    *)
(* connections, because it counts those in Relay.                          *)
THEOREM TypeCorrect == Spec => []TypeOK
<1>1. TunnelInv => TypeOK
  BY StreamTypes, UDPTypes DEF TunnelInv, ManagerTyped, TypeOK
<1> QED BY <1>1, TunnelAlways, PTL

(* Until Close swaps the map, handlePacket writes to an open socket of the *)
(* client's own session and no client is answered from two sockets, though *)
(* removeSession removes by address whatever session it finds there.       *)
THEOREM TableIsExact == Spec => []SessionTable
<1>1. TunnelInv => SessionTable
  BY UDPImplies DEF TunnelInv, SessionTable
<1> QED BY <1>1, TunnelAlways, PTL

(* A SOCKS proxy with a user or a password dials only for clients that     *)
(* have proved both, for every list of methods they may offer.             *)
THEOREM AuthenticatedFirst == Spec => []AuthBeforeDial
<1>1. TunnelInv => AuthBeforeDial
  BY DEF TunnelInv, StreamInv, Admitted, AuthBeforeDial, Stream!AuthBeforeDial
<1> QED BY <1>1, TunnelAlways, PTL
=============================================================================
