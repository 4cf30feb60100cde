----------------------------- MODULE LocalTunnel ----------------------------
(***************************************************************************)
(* A local, dynamic or chain tunnel of the manager: the goroutine of       *)
(* runLocal, runDynamic or runChain (manager/manager.go) together with the *)
(* proxy it made, UDPProxy or one of StreamProxy's, and the goroutine that *)
(* runs Serve and sends its result to errCh.                               *)
(***************************************************************************)
EXTENDS Integers, FiniteSets

CONSTANTS Conns, Addrs, Sessions, None, Timeout, Streaming

ASSUME LocalTunnelAssumption ==
  /\ IsFiniteSet(Conns)
  /\ None \notin Sessions
  /\ Timeout \in Nat \ {0}
  /\ Streaming \in BOOLEAN

VARIABLES
  kind,                                                  \* which proxy
  tunnel,      \* the goroutine: "select", "closing", "stopped" or "failed"
  stop,        \* is the stop channel closed
  errCh,       \* how many results errCh holds
  server,      \* the Serve goroutine: "serving", "sending" or "gone"
  listener, serve,                                       \* of either proxy
  user, pass, at, down, up, copying, connCount, proved,  \* of StreamProxy
  packet, sessions, reader, client, open, wait, quiet,   \* of UDPProxy
  owed, victim, closing, toClose

mgr == <<tunnel, stop, errCh, server>>
streamOnly == <<user, pass, at, down, up, copying, connCount, proved>>
udpOnly == <<packet, sessions, reader, client, open, wait, quiet, owed, victim,
             closing, toClose>>
proxy == <<kind, listener, serve, streamOnly, udpOnly>>
vars == <<proxy, mgr>>

Stream == INSTANCE StreamProxy
UDP == INSTANCE UDPProxy

(* The one type invariant. *)
TypeOK ==
  /\ kind \in {"tcp", "socks", "chain", "udp"}
  /\ tunnel \in {"select", "closing", "stopped", "failed"}
  /\ stop \in BOOLEAN /\ errCh \in 0..1
  /\ server \in {"serving", "sending", "gone"}
  /\ IF kind = "udp" THEN UDP!TypeOK ELSE Stream!TypeOK

Init ==
  /\ tunnel = "select" /\ stop = FALSE /\ errCh = 0 /\ server = "serving"
  /\ \/ Stream!Init /\ UDP!NoSessions
     \/ UDP!Init /\ kind = "udp" /\ user = FALSE /\ pass = FALSE
        /\ Stream!NoConns

(* The proxy's own goroutines and clients. *)
ProxyStep ==
  /\ \/ kind = "udp" /\ UDP!Step /\ UNCHANGED <<kind, streamOnly>>
     \/ kind # "udp" /\ Stream!Step /\ UNCHANGED udpOnly
  /\ UNCHANGED mgr

(* stopLocked, stopByName or removeOne closes the channel. *)
Stop ==
  /\ ~stop
  /\ stop' = TRUE
  /\ UNCHANGED <<tunnel, errCh, server, proxy>>

(* errCh <- proxy.Serve(), into a buffer of one. *)
ErrChCap_unbuffered == 0
ErrChCap == 1

ServeReturned ==
  /\ server = "serving" /\ serve \in {"failed", "returned"}
  /\ server' = "sending"
  /\ UNCHANGED <<tunnel, stop, errCh, proxy>>

SendResult ==
  /\ server = "sending" /\ errCh < ErrChCap
  /\ errCh' = errCh + 1
  /\ server' = "gone"
  /\ UNCHANGED <<tunnel, stop, proxy>>

(* case <-stop: proxy.Close() *)
SelectStop ==
  /\ tunnel = "select" /\ stop
  /\ tunnel' = "closing"
  /\ \/ kind = "udp" /\ UDP!CloseBegin /\ UNCHANGED <<kind, streamOnly>>
     \/ kind # "udp" /\ Stream!Close /\ UNCHANGED udpOnly
  /\ UNCHANGED <<stop, errCh, server>>

CloseReturned ==
  /\ tunnel = "closing" /\ (kind = "udp" => closing = "done")
  /\ tunnel' = "stopped"
  /\ UNCHANGED <<stop, errCh, server, proxy>>

(* case err := <-errCh: the proxy is not closed. *)
SelectErr ==
  /\ tunnel = "select" /\ errCh > 0
  /\ errCh' = errCh - 1
  /\ tunnel' = "failed"
  /\ UNCHANGED <<stop, server, proxy>>

Next ==
  \/ ProxyStep \/ Stop
  \/ ServeReturned \/ SendResult
  \/ SelectStop \/ CloseReturned \/ SelectErr

Spec == Init /\ [][Next]_vars

-----------------------------------------------------------------------------
(* Every goroutine that can run does, time passes, a client finishes its   *)
(* handshake or hangs up, a dial returns, and applications end their       *)
(* streams.  Nobody has to connect, to send a packet or to stop a tunnel,  *)
(* and Accept need not fail.                                               *)
Udp(A) == kind = "udp" /\ A /\ UNCHANGED <<kind, streamOnly, mgr>>
Tcp(A) == kind # "udp" /\ A /\ UNCHANGED <<udpOnly, mgr>>

Fairness ==
  /\ WF_vars(Udp(UDP!ServeEnds)) /\ WF_vars(Udp(UDP!handlePacket))
  /\ WF_vars(Udp(UDP!Close)) /\ WF_vars(Udp(UDP!Tick))
  /\ \A s \in Sessions : WF_vars(Udp(UDP!readFromTarget(s)))
  /\ WF_vars(Tcp(Stream!ServeEnds))
  /\ \A c \in Conns : WF_vars(Tcp(Stream!handle(c)))
  /\ WF_vars(ServeReturned) /\ WF_vars(SendResult)
  /\ WF_vars(SelectStop \/ SelectErr) /\ WF_vars(CloseReturned)

FairSpec == Spec /\ Fairness

-----------------------------------------------------------------------------
(* Properties *)

(* The table of UDP sessions is exact while the proxy is in use. *)
SessionTable == kind = "udp" => UDP!SessionTable

(* After a stop every UDP session gives back its socket and its goroutine. *)
SessionsReclaimed == UDP!SessionsReclaimed

(* No SOCKS client is served before it has proved the credentials. *)
AuthBeforeDial == Stream!AuthBeforeDial

(* A tunnel that was stopped leaves no goroutine behind: the tunnel's own  *)
(* ends, Serve returns although nobody receives its result any more, and   *)
(* the port is free.                                                       *)
StopEndsTunnel ==
  stop ~> \/ tunnel = "failed"
          \/ tunnel = "stopped" /\ server = "gone" /\ listener = "closed"

(* Every connection that was accepted gives back both of its sockets, also *)
(* when the tunnel is stopped or fails meanwhile.                          *)
ConnsReleased == \A c \in Conns : down[c] ~> Stream!Released(c)

(* "Idle sessions are closed after udpSessionTimeout" (udpproxy.go:16): a  *)
(* session whose read timed out had no packet in either direction, which   *)
(* is what lastActive records, for that long.                              *)
ClosedOnlyWhenIdle ==
  [][\A s \in Sessions : UDP!ReadTimesOut(s) => quiet[s] = Timeout]_vars
=============================================================================
