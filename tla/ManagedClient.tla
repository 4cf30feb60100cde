--------------------------- MODULE ManagedClient ----------------------------
(***************************************************************************)
(* A remote client tunnel of the manager: the goroutine of runRemoteClient *)
(* (manager/manager.go), which starts a RemoteClient, looks every 500 ms   *)
(* whether it is connected and records what it sees in the tunnel's        *)
(* status, and closes it when the tunnel is stopped.                       *)
(***************************************************************************)
EXTENDS RemoteClient

CONSTANT Racy   \* may runRemoteClient read m.tunnels before startOne stores its entry

ASSUME ManagedClientAssumption == Racy \in BOOLEAN

VARIABLES
  mgr,       \* the goroutine: "setup", "select", "closing", "done" or "panic"
  stop,      \* the tunnel was cancelled
  stored,    \* m.tunnels has the tunnel's entry
  mt,        \* mt, read from m.tunnels, is not nil
  status,    \* what list shows
  lastErr    \* rc.lastErr is set

client == <<pc, attempt, rested, closed, cpc, ccSet, connVars>>
manager == <<mgr, stop, stored, mt, status, lastErr>>
allVars == <<client, manager>>

MTypeOK ==
  /\ TypeOK
  /\ mgr \in {"setup", "select", "closing", "done", "panic"}
  /\ {stop, stored, mt, lastErr} \subseteq BOOLEAN
  /\ status \in {"starting", "established", "reconnecting", "stopped", "error"}

MInit ==
  /\ Init
  /\ mgr = "setup" /\ status = "starting"
  /\ stop = FALSE /\ stored = FALSE /\ mt = FALSE /\ lastErr = FALSE

-----------------------------------------------------------------------------
(* startOne, after its go statement. *)
StoreEntry ==
  /\ ~stored /\ mgr # "panic"
  /\ stored' = TRUE
  /\ UNCHANGED <<client, mgr, stop, mt, status, lastErr>>

(* Cancel is called with m.mu held, so after startOne. *)
CancelTunnel ==
  /\ stored /\ ~stop /\ mgr # "panic"
  /\ stop' = TRUE
  /\ UNCHANGED <<client, mgr, stored, mt, status, lastErr>>

(* The TLS set-up or the remote spec is wrong. *)
SetupFails ==
  /\ mgr = "setup"
  /\ mgr' = "done" /\ status' = "error"
  /\ UNCHANGED <<client, stop, stored, mt, lastErr>>

(* go client.Run(), and mt := m.tunnels[tc.Name]. *)
StartClient ==
  /\ mgr = "setup" /\ (Racy \/ stored)
  /\ RunBegins
  /\ mgr' = "select" /\ mt' = stored
  /\ UNCHANGED <<stop, stored, status, lastErr>>

(* case <-ticker.C, with IsConnected; mt is used once there is an error. *)
Shown == IF ccSet THEN "established" ELSE "reconnecting"

Poll ==
  /\ mgr = "select"
  /\ status' = Shown
  /\ mgr' = IF lastErr /\ ~mt THEN "panic" ELSE mgr
  /\ UNCHANGED <<client, stop, stored, mt, lastErr>>

(* case <-stop *)
SelectStop ==
  /\ mgr = "select" /\ stop
  /\ Close
  /\ mgr' = "closing"
  /\ UNCHANGED <<stop, stored, mt, status, lastErr>>

CloseReturned_waitsForRun ==
  /\ mgr = "closing" /\ cpc = "done" /\ pc = "done"
  /\ mgr' = "done" /\ status' = "stopped"
  /\ UNCHANGED <<client, stop, stored, mt, lastErr>>

CloseReturned ==
  /\ mgr = "closing" /\ cpc = "done"
  /\ mgr' = "done" /\ status' = "stopped"
  /\ UNCHANGED <<client, stop, stored, mt, lastErr>>

(* The client's goroutines; setLastErr after a failed connect, a failed    *)
(* AcceptChannel, or a failed dial of the local target.                    *)
ByClient(A) ==
  /\ mgr # "panic"
  /\ A
  /\ lastErr' = (lastErr \/ <<pc, pc'>> \in {<<"failed", "backoff">>, <<"serve", "top">>})
  /\ UNCHANGED <<mgr, stop, stored, mt, status>>

LocalDialFails ==
  /\ pc = "serve" /\ mgr # "panic" /\ ~lastErr
  /\ lastErr' = TRUE
  /\ UNCHANGED <<client, mgr, stop, stored, mt, status>>

MNext ==
  \/ StoreEntry \/ CancelTunnel
  \/ SetupFails \/ StartClient \/ Poll \/ SelectStop \/ CloseReturned
  \/ ByClient(Step) \/ LocalDialFails

MSpec == MInit /\ [][MNext]_allVars

(* As in RemoteClient; the goroutine's ticker fires, and a select whose    *)
(* stop channel is closed does not choose the ticker for ever.             *)
MFairness ==
  /\ WF_allVars(StoreEntry) /\ WF_allVars(SetupFails \/ StartClient)
  /\ WF_allVars(Poll) /\ SF_allVars(SelectStop) /\ WF_allVars(CloseReturned)
  /\ WF_allVars(ByClient(Run)) /\ WF_allVars(ByClient(BackoffOver))
  /\ WF_allVars(ByClient(CloseLooks)) /\ WF_allVars(ByClient(CloseConn))
  /\ WF_allVars(ByClient(Tick \/ TickExpired)) /\ WF_allVars(ByClient(KeepAliveCloses))
  /\ WF_allVars(ByClient(SendPing))
  /\ WF_allVars(ByClient(asked /\ readLoop))
  /\ WF_allVars(ByClient(DialOk \/ DialFail)) /\ SF_allVars(ByClient(DialOk))
  /\ WF_allVars(ByClient(HandshakeOk \/ HandshakeFail))
  /\ SF_allVars(ByClient(link = "open" /\ HandshakeOk))
  /\ SF_allVars(ByClient(link = "open" /\ Publish))

FairMSpec == MSpec /\ MFairness

-----------------------------------------------------------------------------
(* Properties *)

(* Stopping a client tunnel ends its goroutine, so that whoever waits for  *)
(* it with m.mu goes on, whatever the client is doing (dialling, in a      *)
(* handshake nobody answers, or with a writer blocked on a silent peer),   *)
(* unless Close is wedged behind a Read that is blocked on that peer.      *)
StopReturns == stop ~> (mgr = "done" \/ Wedged)

(* Without that exception.                                                 *)
StopAlwaysReturns == stop ~> mgr = "done"

(* The daemon does not die of a client tunnel: mt is set by the time an    *)
(* error is recorded in it (manager.go:570).                               *)
NoPanic == mgr # "panic"
=============================================================================
