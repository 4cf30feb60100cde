---------------------------- MODULE StreamProxy -----------------------------
(***************************************************************************)
(* The three local proxies that accept TCP connections: Proxy              *)
(* (relay/tcpproxy.go), SocksProxy (relay/socks5proxy.go with the          *)
(* handshake of relay/socks5.go) and ChainProxy (relay/chainproxy.go).     *)
(* They share the accept loop and Close and differ in what handle does     *)
(* before it runs Relay on the two sockets.                                *)
(*                                                                         *)
(* What a SOCKS client sends is kept as far as the code looks at it: is a  *)
(* message well formed, which methods does a greeting offer, are the       *)
(* credentials the right ones.                                             *)
(***************************************************************************)
EXTENDS Integers, FiniteSets

CONSTANT Conns   \* connections that clients make

VARIABLES
  kind,        \* "tcp", "socks" or "chain"
  user, pass,  \* are SocksProxy.user and .pass set (non-empty)
  listener,    \* "open" or "closed"
  serve,       \* Serve: "accept", "failed" or "returned"
  at,          \* where the handle goroutine of each connection is
  down, up,    \* is the accepted, the dialled socket open
  copying,     \* the copies of Relay that have not ended
  connCount,
  proved       \* history: connections whose client sent the right credentials

stream == <<kind, user, pass, listener, serve, at, down, up, copying,
            connCount, proved>>
setup == <<kind, user, pass>>

(* The one type invariant. *)
TypeOK ==
  /\ user \in BOOLEAN /\ pass \in BOOLEAN
  /\ listener \in {"open", "closed"}
  /\ serve \in {"accept", "failed", "returned"}
  /\ at \in [Conns -> {"none", "queued", "greeting", "password", "request",
                       "dial", "reply", "relay", "close", "done"}]
  /\ {down, up} \subseteq [Conns -> BOOLEAN]
  /\ copying \in [Conns -> SUBSET {"sent", "received"}]
  /\ connCount \in 0..Cardinality(Conns)
  /\ proved \subseteq Conns

Kinds == {"tcp", "socks", "chain"}

NoConns ==
  /\ at = [c \in Conns |-> "none"]
  /\ down = [c \in Conns |-> FALSE] /\ up = [c \in Conns |-> FALSE]
  /\ copying = [c \in Conns |-> {}]
  /\ connCount = 0
  /\ proved = {}

Init ==
  /\ kind \in Kinds /\ user \in BOOLEAN /\ pass \in BOOLEAN
  /\ kind # "socks" => ~user /\ ~pass
  /\ listener = "open" /\ serve = "accept"
  /\ NoConns

-----------------------------------------------------------------------------
(* Serve *)

Go(c, from, to) == at[c] = from /\ at' = [at EXCEPT ![c] = to]

Connect(c) ==
  /\ listener = "open"
  /\ Go(c, "none", "queued")
  /\ UNCHANGED <<setup, listener, serve, down, up, copying, connCount, proved>>

Accept(c) ==
  /\ serve = "accept" /\ listener = "open"
  /\ Go(c, "queued", IF kind = "socks" THEN "greeting" ELSE "dial")
  /\ down' = [down EXCEPT ![c] = TRUE]
  /\ UNCHANGED <<setup, listener, serve, up, copying, connCount, proved>>

(* Accept returns an error: the listener was closed, or it failed. *)
ServeEnds ==
  /\ serve = "accept" /\ listener = "closed"
  /\ serve' = "returned"
  /\ UNCHANGED <<setup, listener, at, down, up, copying, connCount, proved>>

ServeFails ==
  /\ serve = "accept" /\ listener = "open"
  /\ serve' = "failed"
  /\ UNCHANGED <<setup, listener, at, down, up, copying, connCount, proved>>

(* Close: connections that were not accepted are reset with the listener,  *)
(* those that were go on.                                                  *)
Close ==
  /\ listener = "open"
  /\ listener' = "closed"
  /\ at' = [c \in Conns |-> IF at[c] = "queued" THEN "done" ELSE at[c]]
  /\ UNCHANGED <<setup, serve, down, up, copying, connCount, proved>>

-----------------------------------------------------------------------------
(* socksHandshake *)

RequireAuth_both == user /\ pass
RequireAuth == user \/ pass

Chosen(methods) ==
  IF ~RequireAuth THEN "none"
  ELSE IF "password" \in methods THEN "password" ELSE "noAccept"

(* An error on the way: a malformed message, the connection ends. *)
HandshakeFails(c) ==
  /\ at[c] \in {"greeting", "password", "request"}
  /\ at' = [at EXCEPT ![c] = "close"]
  /\ UNCHANGED <<setup, listener, serve, down, up, copying, connCount, proved>>

(* At least one method is offered. *)
Greeting(c, methods) ==
  /\ methods # {}
  /\ Go(c, "greeting", CASE Chosen(methods) = "none" -> "request"
                         [] Chosen(methods) = "password" -> "password"
                         [] OTHER -> "close")
  /\ UNCHANGED <<setup, listener, serve, down, up, copying, connCount, proved>>

(* Both fields have at least one byte, so an empty user or pass of the     *)
(* configuration is matched by nobody.                                     *)
AuthSucceeds(right) == right /\ user /\ pass

socksPasswordAuth(c, right) ==
  /\ Go(c, "password", IF AuthSucceeds(right) THEN "request" ELSE "close")
  /\ proved' = IF AuthSucceeds(right) THEN proved \cup {c} ELSE proved
  /\ UNCHANGED <<setup, listener, serve, down, up, copying, connCount>>

Request(c) ==
  /\ Go(c, "request", "dial")
  /\ UNCHANGED <<setup, listener, serve, down, up, copying, connCount, proved>>

-----------------------------------------------------------------------------
(* handle *)

DialOk(c) ==
  /\ Go(c, "dial", IF kind = "socks" THEN "reply" ELSE "relay")
  /\ up' = [up EXCEPT ![c] = TRUE]
  /\ copying' = [copying EXCEPT ![c] = IF kind = "socks" THEN @
                                       ELSE {"sent", "received"}]
  /\ connCount' = IF kind = "tcp" THEN connCount + 1 ELSE connCount
  /\ UNCHANGED <<setup, listener, serve, down, proved>>

(* The deferred Close of the sockets; SocksProxy answers first. *)
DialFails(c) ==
  /\ Go(c, "dial", "close")
  /\ UNCHANGED <<setup, listener, serve, down, up, copying, connCount, proved>>

ReplyOk(c) ==
  /\ Go(c, "reply", "relay")
  /\ copying' = [copying EXCEPT ![c] = {"sent", "received"}]
  /\ connCount' = connCount + 1
  /\ UNCHANGED <<setup, listener, serve, down, up, proved>>

ReplyFails(c) ==
  /\ Go(c, "reply", "close")
  /\ UNCHANGED <<setup, listener, serve, down, up, copying, connCount, proved>>

(* Relay: one direction ends and half-closes the other socket. *)
CopyEnds(c, dir) ==
  /\ at[c] = "relay" /\ dir \in copying[c]
  /\ copying' = [copying EXCEPT ![c] = @ \ {dir}]
  /\ UNCHANGED <<setup, listener, serve, at, down, up, connCount, proved>>

(* Relay has returned: the statistics, and the deferred connCount.Add(-1). *)
RelayReturns(c) ==
  /\ copying[c] = {}
  /\ Go(c, "relay", "close")
  /\ connCount' = IF kind = "chain" THEN connCount ELSE connCount - 1
  /\ UNCHANGED <<setup, listener, serve, down, up, copying, proved>>

Deferred_upstreamOnly(c) == down
Deferred(c) == [down EXCEPT ![c] = FALSE]

CloseSockets(c) ==
  /\ Go(c, "close", "done")
  /\ down' = Deferred(c)
  /\ up' = [up EXCEPT ![c] = FALSE]
  /\ UNCHANGED <<setup, listener, serve, copying, connCount, proved>>

-----------------------------------------------------------------------------
(* What the goroutine of a connection does once its client, its target and *)
(* the two applications have done their part.                              *)
handle(c) ==
  \/ HandshakeFails(c)
  \/ \E methods \in SUBSET {"none", "password"} : Greeting(c, methods)
  \/ \E right \in BOOLEAN : socksPasswordAuth(c, right)
  \/ Request(c)
  \/ DialOk(c) \/ DialFails(c) \/ ReplyOk(c) \/ ReplyFails(c)
  \/ \E dir \in {"sent", "received"} : CopyEnds(c, dir)
  \/ RelayReturns(c) \/ CloseSockets(c)

Step ==
  \/ \E c \in Conns : Connect(c) \/ Accept(c) \/ handle(c)
  \/ ServeEnds \/ ServeFails

Next == Step \/ Close

Spec == Init /\ [][Next]_stream

-----------------------------------------------------------------------------
(* Properties *)

Released(c) == at[c] \in {"none", "done"} /\ ~down[c] /\ ~up[c]

(* A SOCKS proxy with credentials, even with only one of the two set,      *)
(* dials for a client only after that client has proved them, whatever     *)
(* methods it offered and whatever it sent before.                         *)
AuthBeforeDial ==
  \A c \in Conns :
    (user \/ pass) /\ (at[c] \in {"dial", "reply", "relay"} \/ up[c]) => c \in proved
=============================================================================
