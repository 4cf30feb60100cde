----------------------------- MODULE DaemonProofs ---------------------------
(***************************************************************************)
(* Proofs about Daemon, for any number of processes and commands: when     *)
(* commands are given in turn, a daemon that serves is the only one and    *)
(* can be reached, and a start is refused only while one runs, whatever    *)
(* processes are killed and system calls fail meanwhile.                   *)
(***************************************************************************)
EXTENDS Daemon, TLAPS

Starter(p) == main[p] \in {"check", "load", "write", "refused"}
Working(p) == main[p] \in {"up", "stop", "remove"}
IsDaemon(p) == main[p] \in {"up", "stop", "remove", "exit"}
InControl(p) == ctl[p] \in {"remove", "listen", "chmod", "accept", "unlink"}
Stops(c) == conn[c].method = "stop" /\ conn[c].at # "idle"

(* Only a daemon has goroutines and can be told to stop; one past its wait *)
(* was told to.                                                            *)
Quiet ==
  \A p \in Pids :
    /\ ~IsDaemon(p) => ctl[p] = "off" /\ ~shutdown[p] /\ ~stopping[p]
    /\ main[p] \in {"stop", "remove", "exit"} => shutdown[p]

(* A connection that was not answered leads to a daemon. *)
Called ==
  \A c \in Clients : conn[c].at \in Unanswered => conn[c].to \in Pids /\ IsDaemon(conn[c].to)

(* One start at a time; one daemon at a time, and none while a start is    *)
(* past IsRunning.                                                         *)
OneStarter == \A p, q \in Pids : Starter(p) /\ Starter(q) => p = q
OneDaemon ==
  /\ \A p, q \in Pids : Working(p) /\ Working(q) => p = q
  /\ \A p, q \in Pids : main[p] \in {"load", "write"} => ~Working(q)

(* The pidfile names the daemon, until a stop or the daemon removes it. *)
Named ==
  \A p \in Pids : /\ Working(p) /\ ~stopping[p] => pidfile = p
                  /\ main[p] = "exit" => pidfile # p

(* A daemon that a command stops is the only process; one that gives up by *)
(* itself may meet a start, but leaves the socket alone by then, unless    *)
(* Accept failed: then its listener is closed late.                        *)
StopsAlone == \A p, q \in Pids : stopping[p] /\ Alive(q) => q = p
LeavesSocket ==
  /\ \A p, q \in Pids : shutdown[p] /\ Alive(q) /\ q # p => ctl[p] \in {"done", "late"}
  /\ \A p \in Pids : ctl[p] = "late" => acceptFailed

(* While a stop command is under way the daemon it is for is the only      *)
(* process, and from HandleControl on it is told.                          *)
StopUnderWay ==
  \A c \in Clients, q \in Pids : Stops(c) /\ Alive(q) =>
    /\ IsDaemon(q)
    /\ conn[c].at \in {"queued", "open"} => q = conn[c].to
    /\ conn[c].at \in {"handled", "acked"} => stopping[q]

(* One process works on the socket path, and knows what it stands for. *)
OneControl ==
  /\ \A p, q \in Pids : InControl(p) /\ InControl(q) => p = q
  /\ \A p \in Pids : /\ ctl[p] = "listen" => socket = NoPid
                     /\ ctl[p] \in {"chmod", "accept"} =>
                          socket = p \/ (acceptFailed /\ socket = NoPid)

TurnInv ==
  /\ Quiet /\ Called /\ OneStarter /\ OneDaemon /\ Named
  /\ StopsAlone /\ LeavesSocket /\ StopUnderWay /\ OneControl

(* A process about to check does not find itself in the pidfile. *)
NotItself == \A p \in Pids : Starter(p) => pidfile # p

-----------------------------------------------------------------------------
(* Types *)

ConnType ==
  [at : {"idle", "queued", "open", "handled", "acked"}, method : Methods,
   to : Pids \cup {NoPid}]

LEMMA ConnFields ==
  ASSUME NEW x \in ConnType
  PROVE  /\ x.at \in {"idle", "queued", "open", "handled", "acked"}
         /\ x.method \in Methods /\ x.to \in Pids \cup {NoPid}
BY DEF ConnType

LEMMA ConnMade ==
  ASSUME NEW a \in {"idle", "queued", "open", "handled", "acked"}, NEW m \in Methods,
         NEW p \in Pids \cup {NoPid}
  PROVE  [at |-> a, method |-> m, to |-> p] \in ConnType
BY DEF ConnType

LEMMA ClosedMade == \A m \in Methods : Closed(m) \in ConnType
BY ConnMade DEF Closed

LEMMA HangupTyped ==
  ASSUME TypeOK, NEW p, NEW states PROVE Hangup(p, states) \in [Clients -> ConnType]
BY ConnFields, ClosedMade DEF TypeOK, Hangup, ConnType

LEMMA TypeStart == Init => TypeOK
<1>1. Closed("query") \in ConnType
  BY ClosedMade DEF Methods
<1>2. Init => acceptFailed \in BOOLEAN
  BY DEF Init
<1>3. Init => (acceptFailed \in BOOLEAN => TypeOK)
  BY <1>1 DEF Init, TypeOK, ConnType
<1> QED BY <1>2, <1>3

LEMMA TypeKeeps == TypeOK /\ [Next]_vars => TypeOK'
<1> SUFFICES ASSUME TypeOK, [Next]_vars PROVE TypeOK'
  OBVIOUS
<1> USE HangupTyped, ClosedMade DEF ConnType
<1>1. ASSUME NEW p \in Pids, Start(p) PROVE TypeOK'
  BY <1>1 DEF Start, At, TypeOK
<1>2. ASSUME NEW p \in Pids, AlreadyRunning(p) PROVE TypeOK'
  BY <1>2 DEF AlreadyRunning, At, TypeOK
<1>3. ASSUME NEW p \in Pids, NotRunning(p) PROVE TypeOK'
  BY <1>3 DEF NotRunning, At, TypeOK
<1>4. ASSUME NEW p \in Pids, Fatal(p) PROVE TypeOK'
  BY <1>4 DEF Fatal, End, TypeOK
<1>5. ASSUME NEW p \in Pids, Foreground(p) PROVE TypeOK'
  BY <1>5 DEF Foreground, At, TypeOK
<1>6. ASSUME NEW p \in Pids, WritePidfile(p) PROVE TypeOK'
  BY <1>6 DEF WritePidfile, At, TypeOK
<1>7. ASSUME NEW p \in Pids, ShutDown(p) PROVE TypeOK'
  BY <1>7 DEF ShutDown, At, TypeOK
<1>8. ASSUME NEW p \in Pids, MgrStop(p) PROVE TypeOK'
  BY <1>8 DEF MgrStop, At, TypeOK
<1>9. ASSUME NEW p \in Pids, RemovePidfile(p) PROVE TypeOK'
  BY <1>9 DEF RemovePidfile, At, TypeOK
<1>10. ASSUME NEW p \in Pids, Exit(p) PROVE TypeOK'
  BY <1>10 DEF Exit, End, TypeOK
<1>11. ASSUME NEW p \in Pids, RemoveSocket(p) PROVE TypeOK'
  BY <1>11 DEF RemoveSocket, CtlAt, Unlinked, TypeOK
<1>12. ASSUME NEW p \in Pids, Listen(p) PROVE TypeOK'
  BY <1>12 DEF Listen, CtlAt, TypeOK
<1>13. ASSUME NEW p \in Pids, ListenFails(p) PROVE TypeOK'
  BY <1>13 DEF ListenFails, CtlAt, OnControlError, TypeOK
<1>14. ASSUME NEW p \in Pids, Chmod(p) PROVE TypeOK'
  BY <1>14 DEF Chmod, CtlAt, TypeOK
<1>15. ASSUME NEW p \in Pids, ChmodFails(p) PROVE TypeOK'
  BY <1>15 DEF ChmodFails, CtlAt, OnControlError, TypeOK
<1>16. ASSUME NEW p \in Pids, CloseListener(p) PROVE TypeOK'
  BY <1>16 DEF CloseListener, CtlAt, TypeOK
<1>17. ASSUME NEW p \in Pids, ServeControlReturns(p) PROVE TypeOK'
  BY <1>17 DEF ServeControlReturns, CtlAt, TypeOK
<1>18. ASSUME NEW p \in Pids, StopTimer(p) PROVE TypeOK'
  BY <1>18 DEF StopTimer, TypeOK
<1>19. ASSUME NEW p \in Pids, Signal(p) PROVE TypeOK'
  BY <1>19 DEF Signal, TypeOK
<1>20. ASSUME NEW p \in Pids, Crash(p) PROVE TypeOK'
  BY <1>20 DEF Crash, End, TypeOK
<1>21. ASSUME NEW p \in Pids, AcceptFails(p) PROVE TypeOK'
  BY <1>21 DEF AcceptFails, CtlAt, OnControlError, TypeOK
<1>22. ASSUME NEW c \in Clients, Accept(c) PROVE TypeOK'
  BY <1>22 DEF Accept, procs, TypeOK
<1>23. ASSUME NEW c \in Clients, HandleControl(c) PROVE TypeOK'
  BY <1>23, ZenonT(60) DEF HandleControl, StopsAfter, TypeOK
<1>24. ASSUME NEW c \in Clients, Respond(c) PROVE TypeOK'
  BY <1>24 DEF Respond, procs, TypeOK
<1>25. ASSUME NEW c \in Clients, ReadTimeout(c) PROVE TypeOK'
  BY <1>25 DEF ReadTimeout, procs, TimesOut, TypeOK
<1>26. ASSUME NEW c \in Clients, CommandReturns(c) PROVE TypeOK'
  BY <1>26 DEF CommandReturns, procs, TypeOK
<1>27. ASSUME NEW p \in Pids, NEW q \in Pids, Background(p, q) PROVE TypeOK'
  BY <1>27 DEF Background, TypeOK
<1>28. ASSUME NEW c \in Clients, NEW method \in Methods, Dial(c, method) PROVE TypeOK'
  BY <1>28, ConnMade DEF Dial, procs, TypeOK
<1>29. ASSUME NEW p \in Pids, LateClose(p) PROVE TypeOK'
  BY <1>29 DEF LateClose, CtlAt, TypeOK
<1>30. CASE UNCHANGED vars
  BY <1>30 DEF vars, TypeOK
<1> QED BY <1>1, <1>2, <1>3, <1>4, <1>5, <1>6, <1>7, <1>8, <1>9, <1>10, <1>11, <1>12,
           <1>13, <1>14, <1>15, <1>16, <1>17, <1>18, <1>19, <1>20, <1>21, <1>22, <1>23,
           <1>24, <1>25, <1>26, <1>27, <1>28, <1>29, <1>30
           DEF Next, Main, ServeControl, handleControlConn

-----------------------------------------------------------------------------
(* Commands in turn *)

LEMMA TurnStart == Init => TurnInv
BY DEF Init, TurnInv, Quiet, Called, OneStarter, OneDaemon, Named, StopsAlone, LeavesSocket,
       StopUnderWay, OneControl, Starter, Working, IsDaemon, InControl, Stops, Closed,
       Unanswered, Alive

LEMMA TurnStays == TurnInv /\ UNCHANGED vars => TurnInv'
BY SMTT(60) DEF vars, TurnInv, Quiet, Called, OneStarter, OneDaemon, Named, StopsAlone, LeavesSocket,
       StopUnderWay, OneControl, Starter, Working, IsDaemon, InControl, Stops, Alive

LEMMA TurnKeeps ==
  ASSUME InTurn, TypeOK, TurnInv, Next
  PROVE  TurnInv'
<1> USE DaemonAssumption
<1> USE DEF TurnInv, Quiet, Called, OneStarter, OneDaemon, Named, StopsAlone, LeavesSocket,
       StopUnderWay, OneControl, Starter, Working, IsDaemon, InControl, Stops, Unanswered, Alive,
       TypeOK, Closed
<1>1. ASSUME NEW p \in Pids, Start(p) PROVE TurnInv'
  BY <1>1 DEF Start, At, MayCommand, Busy
<1>2. ASSUME NEW p \in Pids, AlreadyRunning(p) PROVE TurnInv'
  BY <1>2 DEF AlreadyRunning, At, IsRunning
<1>3. ASSUME NEW p \in Pids, NotRunning(p) PROVE TurnInv'
  BY <1>3 DEF NotRunning, At, IsRunning
<1>4. ASSUME NEW p \in Pids, Fatal(p) PROVE TurnInv'
  BY <1>4 DEF Fatal, End, Hangup
<1>5. ASSUME NEW p \in Pids, Foreground(p) PROVE TurnInv'
  BY <1>5 DEF Foreground, At
<1>6. ASSUME NEW p \in Pids, WritePidfile(p) PROVE TurnInv'
  BY <1>6 DEF WritePidfile, At
<1>7. ASSUME NEW p \in Pids, ShutDown(p) PROVE TurnInv'
  BY <1>7 DEF ShutDown, At
<1>8. ASSUME NEW p \in Pids, MgrStop(p) PROVE TurnInv'
  BY <1>8 DEF MgrStop, At
<1>9. ASSUME NEW p \in Pids, RemovePidfile(p) PROVE TurnInv'
  BY <1>9 DEF RemovePidfile, At
<1>10. ASSUME NEW p \in Pids, Exit(p) PROVE TurnInv'
  BY <1>10 DEF Exit, End, Hangup
<1>11. ASSUME NEW p \in Pids, RemoveSocket(p) PROVE TurnInv'
  BY <1>11 DEF RemoveSocket, CtlAt, Unlinked
<1>12. ASSUME NEW p \in Pids, Listen(p) PROVE TurnInv'
  BY <1>12 DEF Listen, CtlAt
<1>13. ASSUME NEW p \in Pids, ListenFails(p) PROVE TurnInv'
  BY <1>13 DEF ListenFails, CtlAt, OnControlError
<1>14. ASSUME NEW p \in Pids, Chmod(p) PROVE TurnInv'
  BY <1>14 DEF Chmod, CtlAt
<1>15. ASSUME NEW p \in Pids, ChmodFails(p) PROVE TurnInv'
  BY <1>15 DEF ChmodFails, CtlAt, OnControlError, Hangup
<1>16. ASSUME NEW p \in Pids, CloseListener(p) PROVE TurnInv'
  BY <1>16 DEF CloseListener, CtlAt, Hangup
<1>17. ASSUME NEW p \in Pids, ServeControlReturns(p) PROVE TurnInv'
  BY <1>17 DEF ServeControlReturns, CtlAt
<1>18. ASSUME NEW p \in Pids, StopTimer(p) PROVE TurnInv'
  BY <1>18 DEF StopTimer
<1>19. ASSUME NEW p \in Pids, Signal(p) PROVE TurnInv'
  BY <1>19 DEF Signal, MayCommand, Busy
<1>20. ASSUME NEW p \in Pids, Crash(p) PROVE TurnInv'
  BY <1>20 DEF Crash, End, Hangup
<1>21. ASSUME NEW p \in Pids, AcceptFails(p) PROVE TurnInv'
  BY <1>21 DEF AcceptFails, CtlAt, OnControlError
<1>22. ASSUME NEW c \in Clients, Accept(c) PROVE TurnInv'
  BY <1>22 DEF Accept, procs
<1>23. ASSUME NEW c \in Clients, HandleControl(c) PROVE TurnInv'
  BY <1>23 DEF HandleControl, StopsAfter
<1>24. ASSUME NEW c \in Clients, Respond(c) PROVE TurnInv'
  BY <1>24 DEF Respond, procs
<1>25. ASSUME NEW c \in Clients, ReadTimeout(c) PROVE TurnInv'
  BY <1>25 DEF ReadTimeout, procs, TimesOut
<1>26. ASSUME NEW c \in Clients, CommandReturns(c) PROVE TurnInv'
  BY <1>26 DEF CommandReturns, procs
<1>27. ASSUME NEW p \in Pids, NEW q \in Pids, Background(p, q) PROVE TurnInv'
  <2>1. p # q /\ \A r \in Pids : main'[r] = IF r = q THEN "check" ELSE IF r = p THEN "none" ELSE main[r]
    BY <1>27 DEF Background
  <2>2. Quiet' /\ Called' /\ OneStarter'
    BY <1>27, <2>1 DEF Background
  <2>3. OneDaemon' /\ Named'
    BY <1>27, <2>1 DEF Background
  <2>4. StopsAlone' /\ LeavesSocket'
    BY <1>27, <2>1 DEF Background
  <2>5. StopUnderWay' /\ OneControl'
    BY <1>27, <2>1 DEF Background
  <2> QED BY <2>2, <2>3, <2>4, <2>5
<1>28. ASSUME NEW c \in Clients, NEW method \in Methods, Dial(c, method) PROVE TurnInv'
  BY <1>28 DEF Dial, procs, MayCommand, Busy, Listening
<1>29. ASSUME NEW p \in Pids, LateClose(p) PROVE TurnInv'
  BY <1>29 DEF LateClose, CtlAt, Hangup
<1> QED BY <1>1, <1>2, <1>3, <1>4, <1>5, <1>6, <1>7, <1>8, <1>9, <1>10, <1>11, <1>12,
           <1>13, <1>14, <1>15, <1>16, <1>17, <1>18, <1>19, <1>20, <1>21, <1>22, <1>23,
           <1>24, <1>25, <1>26, <1>27, <1>28, <1>29
           DEF Next, Main, ServeControl, handleControlConn

LEMMA TypesAlways == Spec => []TypeOK
BY TypeStart, TypeKeeps, PTL DEF Spec

LEMMA TurnAlways == InTurn => (Spec => []TurnInv)
<1> SUFFICES ASSUME InTurn PROVE Spec => []TurnInv
  OBVIOUS
<1>1. TypeOK /\ TurnInv /\ [Next]_vars => TurnInv'
  BY TurnKeeps, TurnStays
<1> QED BY <1>1, TurnStart, TypesAlways, PTL DEF Spec

(* Every variable keeps its type, whether commands come in turn or not. *)
THEOREM TypeCorrect == Spec => []TypeOK
BY TypesAlways

(* With commands in turn, whatever processes are killed and whatever files *)
(* that leaves behind: net.Listen finds the path free, and a daemon that   *)
(* serves and was not told to stop is the only one, named by the pidfile   *)
(* and reached by the control socket; the socket leads to it or, when some *)
(* Accept has failed before, nowhere (the late Close of control.go:90-93). *)
(* Other failing calls make no difference, nor does the reuse of ids.      *)
THEOREM ServesAndIsReached == InTurn => (Spec => []Reachable)
<1> SUFFICES ASSUME InTurn PROVE Spec => []Reachable
  OBVIOUS
<1>1. TurnInv => Reachable
  BY DEF TurnInv, OneDaemon, Named, OneControl, Working, Reachable, Serving, Leaving
<1> QED BY <1>1, TurnAlways, PTL

(* A starter that finds a process behind the pidfile found a daemon. *)
LEMMA ItselfKeeps ==
  ASSUME ~PidReuse, NotItself, TypeOK, Next
  PROVE  NotItself'
<1> USE DaemonAssumption DEF NotItself, Starter, TypeOK
<1>1. ASSUME NEW p \in Pids, Start(p) PROVE NotItself'
  BY <1>1 DEF Start, At
<1>2. ASSUME NEW p \in Pids, NEW q \in Pids, Background(p, q) PROVE NotItself'
  BY <1>2 DEF Background
<1>3. ASSUME NEW p \in Pids, Main(p) PROVE NotItself'
  <2>1. CASE AlreadyRunning(p) \/ NotRunning(p) \/ Foreground(p) \/ ShutDown(p) \/ MgrStop(p)
    BY <2>1 DEF AlreadyRunning, NotRunning, Foreground, ShutDown, MgrStop, At
  <2>2. CASE Fatal(p) \/ Exit(p)
    BY <2>2 DEF Fatal, Exit, End
  <2>3. CASE WritePidfile(p) \/ RemovePidfile(p)
    BY <2>3 DEF WritePidfile, RemovePidfile, At
  <2> QED BY <1>2, <1>3, <2>1, <2>2, <2>3 DEF Main
<1>4. ASSUME NEW p \in Pids, ServeControl(p) \/ StopTimer(p) \/ Signal(p) \/ AcceptFails(p)
      PROVE  NotItself'
  BY <1>4 DEF ServeControl, RemoveSocket, Listen, ListenFails, Chmod, ChmodFails, CloseListener,
              LateClose, ServeControlReturns, StopTimer, Signal, AcceptFails
<1>5. ASSUME NEW p \in Pids, Crash(p) PROVE NotItself'
  BY <1>5 DEF Crash, End
<1>6. ASSUME NEW c \in Clients, CommandReturns(c) PROVE NotItself'
  BY <1>6 DEF CommandReturns, procs
<1>7. ASSUME NEW c \in Clients, handleControlConn(c) \/ \E method \in Methods : Dial(c, method)
      PROVE  NotItself'
  BY <1>7 DEF handleControlConn, Accept, HandleControl, Respond, ReadTimeout, Dial, procs
<1> QED BY <1>1, <1>3, <1>4, <1>5, <1>6, <1>7 DEF Next

LEMMA RefusedByDaemon ==
  ASSUME TypeOK, TurnInv, NotItself, [Next]_vars,
         NEW p \in Pids, main[p] # "refused", main'[p] = "refused"
  PROVE  \E q \in Pids \ {p} : main[q] \in {"up", "stop", "remove"}
<1> USE DaemonAssumption DEF TypeOK
<1>1. ASSUME NEW r \in Pids, AlreadyRunning(r)
      PROVE  \E q \in Pids \ {p} : main[q] \in {"up", "stop", "remove"}
  <2>1. r = p /\ main[p] = "check" /\ pidfile \in Pids /\ main[pidfile] # "none"
    BY <1>1 DEF AlreadyRunning, At, IsRunning
  <2>2. pidfile # p
    BY <2>1 DEF NotItself, Starter
  <2>3. ~Starter(pidfile)
    BY <2>1, <2>2 DEF TurnInv, OneStarter, Starter
  <2>4. main[pidfile] # "exit"
    BY <2>1 DEF TurnInv, Named
  <2> QED BY <2>1, <2>2, <2>3, <2>4 DEF Starter
<1>2. ASSUME NEW r \in Pids,
             Start(r) \/ NotRunning(r) \/ Foreground(r) \/ WritePidfile(r) \/ ShutDown(r)
               \/ MgrStop(r) \/ RemovePidfile(r) \/ Fatal(r) \/ Exit(r) \/ Crash(r)
               \/ \E q \in Pids : Background(r, q)
      PROVE  FALSE
  BY <1>2 DEF Start, NotRunning, Foreground, WritePidfile, ShutDown, MgrStop, RemovePidfile,
              Fatal, Exit, Crash, End, At, Background
<1>3. ASSUME NEW r \in Pids, ServeControl(r) \/ StopTimer(r) \/ Signal(r) \/ AcceptFails(r)
      PROVE  FALSE
  BY <1>3 DEF ServeControl, RemoveSocket, Listen, ListenFails, Chmod, ChmodFails, CloseListener,
              LateClose, ServeControlReturns, StopTimer, Signal, AcceptFails
<1>4. ASSUME NEW c \in Clients,
             handleControlConn(c) \/ CommandReturns(c) \/ \E method \in Methods : Dial(c, method)
      PROVE  FALSE
  BY <1>4 DEF handleControlConn, Accept, HandleControl, Respond, ReadTimeout, Dial,
              CommandReturns, procs
<1>5. CASE UNCHANGED vars
  BY <1>5 DEF vars
<1> QED BY <1>1, <1>2, <1>3, <1>4, <1>5 DEF Next, Main

(* With commands in turn, and process ids that are not used again while a  *)
(* stale pidfile names them, "tunneld is already running" is true when     *)
(* cmdStart says it.                                                       *)
THEOREM RefusedForAReason ==
  InTurn /\ ~PidReuse => (Spec => RefusedOnlyWhenRunning)
<1> SUFFICES ASSUME InTurn, ~PidReuse PROVE Spec => RefusedOnlyWhenRunning
  OBVIOUS
<1>1. Init => NotItself
  BY DEF Init, NotItself, Starter
<1>2. NotItself /\ TypeOK /\ [Next]_vars => NotItself'
  <2>1. NotItself /\ UNCHANGED vars => NotItself'
    BY DEF vars, NotItself, Starter
  <2> QED BY <2>1, ItselfKeeps
<1>3. Spec => []NotItself
  BY <1>1, <1>2, TypesAlways, PTL DEF Spec
<1>4. TypeOK /\ TurnInv /\ NotItself /\ [Next]_vars =>
        [\A p \in Pids : main[p] # "refused" /\ main'[p] = "refused" =>
           \E q \in Pids \ {p} : main[q] \in {"up", "stop", "remove"}]_vars
  BY RefusedByDaemon
<1> QED BY <1>3, <1>4, TypesAlways, TurnAlways, PTL DEF Spec, RefusedOnlyWhenRunning
=============================================================================
