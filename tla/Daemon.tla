------------------------------- MODULE Daemon -------------------------------
(***************************************************************************)
(* The daemon process and the commands that start, stop and query it:      *)
(* cmdStart, cmdStop and runDaemon (main.go), the pidfile                  *)
(* (manager/daemon.go) and the control socket (manager/control.go).        *)
(*                                                                         *)
(* Processes share two names in the file system: the pidfile, and the      *)
(* path of the control socket, which stands for whatever listener bound it *)
(* last.  Both outlive a process that is killed.  A daemon has two         *)
(* goroutines that matter here, main and ServeControl, and one more per    *)
(* control connection.  What a request does to the tunnels is in Manager.  *)
(***************************************************************************)
EXTENDS Integers, FiniteSets

CONSTANTS
  Pids,       \* process ids
  Clients,    \* commands that use the control socket
  NoPid,      \* no such file, or no process id in it
  InTurn,     \* are commands given one at a time, each after the last took effect
  MayCrash,   \* may a process be killed
  MayFail,    \* may a system call fail
  PidReuse    \* may a process get the id that a stale pidfile names

ASSUME DaemonAssumption ==
  /\ NoPid \notin Pids
  /\ {InTurn, MayCrash, MayFail, PidReuse} \subseteq BOOLEAN

VARIABLES
  main,       \* main[p]: where process p is; "none" when there is no process p
  ctl,        \* ctl[p]: where its ServeControl goroutine is
  shutdown,   \* shutdown[p]: the channel is closed
  stopping,   \* stopping[p]: a stop request was handled, its 100 ms run
  pidfile,    \* the process id in the pidfile, or NoPid
  socket,     \* the process whose listener is bound to the socket path, or NoPid
  conn,       \* conn[c]: the control connection of command c
  acceptFailed \* has the Accept of a daemon failed so far (read by the property only)

procs == <<main, ctl, shutdown, stopping, acceptFailed>>
vars == <<main, ctl, shutdown, stopping, pidfile, socket, conn, acceptFailed>>

Closed(m) == [at |-> "idle", method |-> m, to |-> NoPid]
Methods == {"stop", "query", "silent"}   \* "silent" never sends its request

(* The one type invariant. *)
TypeOK ==
  /\ main \in [Pids -> {"none", "check", "load", "write", "refused", "up",
                        "stop", "remove", "exit"}]
  /\ ctl \in [Pids -> {"off", "remove", "listen", "chmod", "accept", "unlink",
                       "late", "done"}]
  /\ shutdown \in [Pids -> BOOLEAN]
  /\ stopping \in [Pids -> BOOLEAN]
  /\ pidfile \in Pids \cup {NoPid}
  /\ socket \in Pids \cup {NoPid}
  /\ conn \in [Clients -> [at : {"idle", "queued", "open", "handled", "acked"},
                           method : Methods, to : Pids \cup {NoPid}]]
  /\ acceptFailed \in BOOLEAN

-----------------------------------------------------------------------------
(* Helpers *)

Alive(p) == main[p] # "none"

(* IsRunning, with processExists as a signal 0 to whatever has the id. *)
IsRunning_anyPidfile == pidfile # NoPid
IsRunning_never == FALSE
IsRunning == pidfile # NoPid /\ main[pidfile] # "none"

(* Listening starts inside net.Listen and ends with Close or the process. *)
Listening(p) == ctl[p] \in {"chmod", "accept"}

(* The connections to p end with it, or with its listener when they were   *)
(* not accepted yet: SendControl returns an error.                         *)
Hangup(p, states) ==
  [c \in Clients |-> IF conn[c].to = p /\ conn[c].at \in states
                     THEN Closed(conn[c].method) ELSE conn[c]]
Unanswered == {"queued", "open", "handled"}

(* Process p ends: its goroutines with it, its files stay. *)
End(p) ==
  /\ main' = [main EXCEPT ![p] = "none"]
  /\ ctl' = [ctl EXCEPT ![p] = "off"]
  /\ shutdown' = [shutdown EXCEPT ![p] = FALSE]
  /\ stopping' = [stopping EXCEPT ![p] = FALSE]
  /\ conn' = Hangup(p, Unanswered)

(* A command is under way until its effect is complete: a start until the  *)
(* pidfile is written, a stop until the daemon is gone and the command has *)
(* removed the pidfile.                                                    *)
Busy ==
  \/ \E p \in Pids : \/ main[p] \notin {"none", "up"}
                     \/ shutdown[p] \/ stopping[p]
  \/ \E c \in Clients : conn[c].method = "stop" /\ conn[c].at # "idle"
MayCommand == InTurn => ~Busy

-----------------------------------------------------------------------------
Init ==
  /\ main = [p \in Pids |-> "none"]
  /\ ctl = [p \in Pids |-> "off"]
  /\ shutdown = [p \in Pids |-> FALSE]
  /\ stopping = [p \in Pids |-> FALSE]
  /\ pidfile = NoPid
  /\ socket = NoPid
  /\ conn = [c \in Clients |-> Closed("query")]
  /\ acceptFailed = FALSE

-----------------------------------------------------------------------------
(* cmdStart *)

At(p, from, to) == main[p] = from /\ main' = [main EXCEPT ![p] = to]

Start(p) ==
  /\ MayCommand
  /\ PidReuse \/ pidfile # p
  /\ At(p, "none", "check")
  /\ UNCHANGED <<ctl, shutdown, stopping, pidfile, socket, conn, acceptFailed>>

AlreadyRunning(p) ==
  /\ IsRunning
  /\ At(p, "check", "refused")
  /\ UNCHANGED <<ctl, shutdown, stopping, pidfile, socket, conn, acceptFailed>>

NotRunning(p) ==
  /\ ~IsRunning
  /\ At(p, "check", "load")
  /\ UNCHANGED <<ctl, shutdown, stopping, pidfile, socket, conn, acceptFailed>>

(* log.Fatal, which runs no deferred function: on a refused start, on a    *)
(* configuration that does not load, on a pidfile that cannot be written.  *)
Fatal(p) ==
  /\ main[p] = "refused" \/ (MayFail /\ main[p] \in {"load", "write"})
  /\ End(p)
  /\ UNCHANGED <<pidfile, socket, acceptFailed>>

Foreground(p) ==
  /\ At(p, "load", "write")
  /\ UNCHANGED <<ctl, shutdown, stopping, pidfile, socket, conn, acceptFailed>>

(* --background: the child q runs cmdStart from the start, p exits. *)
Background(p, q) ==
  /\ main[p] = "load" /\ main[q] = "none"
  /\ PidReuse \/ pidfile # q
  /\ main' = [main EXCEPT ![p] = "none", ![q] = "check"]
  /\ UNCHANGED <<ctl, shutdown, stopping, pidfile, socket, conn, acceptFailed>>

(* runDaemon up to its wait for shutdown: the pidfile, mgr.Start (which    *)
(* always returns nil), the ServeControl goroutine, the signal handler.    *)
(* An empty pidfile, between truncation and write, reads as none at all.   *)
WritePidfile(p) ==
  /\ At(p, "write", "up")
  /\ pidfile' = p
  /\ ctl' = [ctl EXCEPT ![p] = "remove"]
  /\ UNCHANGED <<shutdown, stopping, socket, conn, acceptFailed>>

-----------------------------------------------------------------------------
(* ServeControl *)

CtlAt(p, from, to) == ctl[p] = from /\ ctl' = [ctl EXCEPT ![p] = to]

(* What a name in the file system stands for once somebody unlinks it. *)
Unlinked == NoPid

RemoveSocket(p) ==
  /\ CtlAt(p, "remove", "listen")
  /\ socket' = Unlinked
  /\ UNCHANGED <<main, shutdown, stopping, pidfile, conn, acceptFailed>>

Listen(p) ==
  /\ socket = NoPid
  /\ CtlAt(p, "listen", "chmod")
  /\ socket' = p
  /\ UNCHANGED <<main, shutdown, stopping, pidfile, conn, acceptFailed>>

(* An error of ServeControl makes runDaemon shut down. *)
OnControlError_logged(p) == shutdown
OnControlError(p) == [shutdown EXCEPT ![p] = TRUE]

(* net.Listen fails: the path is taken again, or the system refuses. *)
ListenFails(p) ==
  /\ MayFail \/ socket # NoPid
  /\ CtlAt(p, "listen", "done")
  /\ shutdown' = OnControlError(p)
  /\ UNCHANGED <<main, stopping, pidfile, socket, conn, acceptFailed>>

Chmod(p) ==
  /\ socket # NoPid
  /\ CtlAt(p, "chmod", "accept")
  /\ UNCHANGED <<main, shutdown, stopping, pidfile, socket, conn, acceptFailed>>

(* os.Chmod fails, so the listener is closed and its path with it. *)
ChmodFails(p) ==
  /\ MayFail \/ socket = NoPid
  /\ CtlAt(p, "chmod", "done")
  /\ socket' = NoPid
  /\ shutdown' = OnControlError(p)
  /\ conn' = Hangup(p, {"queued"})
  /\ UNCHANGED <<main, stopping, pidfile, acceptFailed>>

(* Accept fails: the deferred os.Remove removes the path, the listener     *)
(* stays with the goroutine that waits for stop, ...                       *)
AcceptFails(p) ==
  /\ MayFail
  /\ CtlAt(p, "accept", "late")
  /\ socket' = NoPid
  /\ shutdown' = OnControlError(p)
  /\ acceptFailed' = TRUE
  /\ UNCHANGED <<main, stopping, pidfile, conn>>

(* ... which closes it now, unless the process ends first.  It is the      *)
(* first Close of that listener, so it unlinks the path once more, whoever *)
(* is bound to it by now.                                                  *)
LateClose(p) ==
  /\ shutdown[p]
  /\ CtlAt(p, "late", "done")
  /\ socket' = NoPid
  /\ conn' = Hangup(p, {"queued"})
  /\ UNCHANGED <<main, shutdown, stopping, pidfile, acceptFailed>>

(* The goroutine that waits for stop; ln.Close unlinks the path, whoever   *)
(* is bound to it by now.                                                  *)
CloseListener(p) ==
  /\ shutdown[p]
  /\ CtlAt(p, "accept", "unlink")
  /\ socket' = NoPid
  /\ conn' = Hangup(p, {"queued"})
  /\ UNCHANGED <<main, shutdown, stopping, pidfile, acceptFailed>>

(* Accept returns an error and the deferred os.Remove runs. *)
ServeControlReturns(p) ==
  /\ CtlAt(p, "unlink", "done")
  /\ socket' = NoPid
  /\ UNCHANGED <<main, shutdown, stopping, pidfile, conn, acceptFailed>>

-----------------------------------------------------------------------------
(* handleControlConn of daemon conn[c].to *)

Accept(c) ==
  /\ conn[c].at = "queued" /\ ctl[conn[c].to] = "accept"
  /\ conn' = [conn EXCEPT ![c].at = "open"]
  /\ UNCHANGED <<procs, pidfile, socket>>

(* A stop is followed by triggerShutdown 100 ms later. *)
StopsAfter(c) ==
  IF conn[c].method = "stop" THEN [stopping EXCEPT ![conn[c].to] = TRUE]
  ELSE stopping

HandleControl(c) ==
  /\ conn[c].at = "open" /\ conn[c].method # "silent"
  /\ stopping' = StopsAfter(c)
  /\ conn' = [conn EXCEPT ![c].at = "handled"]
  /\ UNCHANGED <<main, ctl, shutdown, pidfile, socket, acceptFailed>>

Respond(c) ==
  /\ conn[c].at = "handled"
  /\ conn' = [conn EXCEPT ![c].at = "acked"]
  /\ UNCHANGED <<procs, pidfile, socket>>

(* controlReadTimeout: no request in time. *)
TimesOut_never(c) == FALSE
TimesOut(c) == conn[c].at = "open" /\ conn[c].method = "silent"

ReadTimeout(c) ==
  /\ TimesOut(c)
  /\ conn' = [conn EXCEPT ![c] = Closed("silent")]
  /\ UNCHANGED <<procs, pidfile, socket>>

-----------------------------------------------------------------------------
(* runDaemon from its wait for shutdown on *)

StopTimer(p) ==
  /\ stopping[p] /\ ~shutdown[p]
  /\ shutdown' = [shutdown EXCEPT ![p] = TRUE]
  /\ UNCHANGED <<main, ctl, stopping, pidfile, socket, conn, acceptFailed>>

(* SIGINT or SIGTERM. *)
Signal(p) ==
  /\ main[p] = "up" /\ MayCommand
  /\ ~shutdown[p]
  /\ shutdown' = [shutdown EXCEPT ![p] = TRUE]
  /\ UNCHANGED <<main, ctl, stopping, pidfile, socket, conn, acceptFailed>>

ShutDown(p) ==
  /\ shutdown[p]
  /\ At(p, "up", "stop")
  /\ UNCHANGED <<ctl, shutdown, stopping, pidfile, socket, conn, acceptFailed>>

MgrStop(p) ==
  /\ At(p, "stop", "remove")
  /\ UNCHANGED <<ctl, shutdown, stopping, pidfile, socket, conn, acceptFailed>>

(* The deferred RemovePidfile, whoever is named in it by now. *)
RemovePidfile(p) ==
  /\ At(p, "remove", "exit")
  /\ pidfile' = NoPid
  /\ UNCHANGED <<ctl, shutdown, stopping, socket, conn, acceptFailed>>

Exit(p) ==
  /\ main[p] = "exit"
  /\ End(p)
  /\ UNCHANGED <<pidfile, socket, acceptFailed>>

(* Killed, or stopped by a signal that arrives before signal.Notify. *)
Crash(p) ==
  /\ MayCrash /\ Alive(p)
  /\ End(p)
  /\ UNCHANGED <<pidfile, socket, acceptFailed>>

-----------------------------------------------------------------------------
(* SendControl, and cmdStop *)

Dial(c, method) ==
  /\ conn[c].at = "idle"
  /\ method = "stop" => MayCommand
  /\ socket # NoPid /\ Listening(socket)
  /\ conn' = [conn EXCEPT ![c] = [at |-> "queued", method |-> method, to |-> socket]]
  /\ UNCHANGED <<procs, pidfile, socket>>

(* The response has arrived; cmdStop removes the pidfile itself. *)
CommandReturns(c) ==
  /\ conn[c].at = "acked"
  /\ pidfile' = IF conn[c].method = "stop" THEN NoPid ELSE pidfile
  /\ conn' = [conn EXCEPT ![c] = Closed(@.method)]
  /\ UNCHANGED <<procs, socket>>

-----------------------------------------------------------------------------
Main(p) ==
  \/ AlreadyRunning(p) \/ NotRunning(p) \/ Fatal(p) \/ Foreground(p)
  \/ \E q \in Pids : Background(p, q)
  \/ WritePidfile(p)
  \/ ShutDown(p) \/ MgrStop(p) \/ RemovePidfile(p) \/ Exit(p)

ServeControl(p) ==
  \/ RemoveSocket(p) \/ Listen(p) \/ ListenFails(p) \/ Chmod(p)
  \/ ChmodFails(p) \/ CloseListener(p) \/ LateClose(p) \/ ServeControlReturns(p)

handleControlConn(c) ==
  Accept(c) \/ HandleControl(c) \/ Respond(c) \/ ReadTimeout(c)

Next ==
  \/ \E p \in Pids : \/ Start(p) \/ Main(p) \/ ServeControl(p) \/ StopTimer(p)
                     \/ Signal(p) \/ Crash(p) \/ AcceptFails(p)
  \/ \E c \in Clients : \/ \E method \in Methods : Dial(c, method)
                        \/ handleControlConn(c) \/ CommandReturns(c)

Spec == Init /\ [][Next]_vars

(* Every goroutine that can run does; commands, signals, crashes and a     *)
(* failing Accept need not come.  mgr.Stop returns: its waits are bounded  *)
(* (Manager.Terminates).                                                   *)
Fairness ==
  /\ \A p \in Pids : /\ WF_vars(Main(p)) /\ WF_vars(ServeControl(p))
                     /\ WF_vars(StopTimer(p))
  /\ \A c \in Clients : WF_vars(handleControlConn(c)) /\ WF_vars(CommandReturns(c))

FairSpec == Spec /\ Fairness

-----------------------------------------------------------------------------
(* Properties *)

Serving(p) == main[p] = "up" /\ ctl[p] = "accept"
Leaving(p) == shutdown[p] \/ stopping[p]

(* When commands come in turn, whatever files earlier crashes left behind: *)
(* a daemon about to listen finds the socket path free, and one that       *)
(* serves and was not told to stop is the only daemon, the one the pidfile *)
(* names and the one the control socket leads to.  Once an Accept failed   *)
(* the socket may lead nowhere, though never to another daemon: a start    *)
(* that was under way takes the path, and the late Close of the daemon     *)
(* whose Accept failed unlinks it.                                         *)
Reachable ==
  \A p \in Pids :
    /\ ctl[p] = "listen" => socket = NoPid
    /\ Serving(p) /\ ~Leaving(p) =>
         /\ pidfile = p
         /\ socket = p \/ (acceptFailed /\ socket = NoPid)
         /\ \A q \in Pids \ {p} : main[q] # "up"

(* Without that exception: every daemon that serves can be reached.        *)
AlwaysReachable ==
  \A p \in Pids : Serving(p) /\ ~Leaving(p) => socket = p

(* cmdStart's "tunneld is already running" is true when it is said: a      *)
(* start after a crash is not refused because of what the crash left.      *)
RefusedOnlyWhenRunning ==
  [][\A p \in Pids : main[p] # "refused" /\ main'[p] = "refused" =>
       \E q \in Pids \ {p} : main[q] \in {"up", "stop", "remove"}]_vars

(* A daemon never stays up without a control server or after it was told   *)
(* to stop: it accepts control connections in the end, or it exits.  That  *)
(* the path leads to its listener is Reachable.                            *)
NoLimbo ==
  \A p \in Pids :
    main[p] = "up" ~> ((Serving(p) /\ ~Leaving(p)) \/ main[p] = "none")

(* Every command that reached a daemon comes back, with its answer or with *)
(* an error; a client that says nothing does not hold a goroutine for      *)
(* ever.                                                                   *)
CommandsReturn == \A c \in Clients : conn[c].at # "idle" ~> conn[c].at = "idle"
=============================================================================
