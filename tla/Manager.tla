------------------------------ MODULE Manager -------------------------------
(***************************************************************************)
(* The daemon's tunnel manager: manager/manager.go, the config file of     *)
(* manager/config.go and the life of the daemon process (main.go).         *)
(*                                                                         *)
(* Every control operation runs under m.mu, but under it waits for tunnel  *)
(* goroutines, truncates and writes the config file and starts goroutines: *)
(* it interleaves with the goroutines, with a Reload that reads the file   *)
(* before it locks, with the operator's editor and with the end of the     *)
(* process.  An operation is a sequence of items; m.mu is free when no     *)
(* item is left.                                                           *)
(*                                                                         *)
(* Tunnels are of the modes that listen (local, chain, dynamic, remote     *)
(* server): their run functions have the same shape.  A configuration says *)
(* of each name whether it is configured and whether it starts by itself.  *)
(***************************************************************************)
EXTENDS Integers, Sequences, FiniteSets, FiniteSetsExt
SeqExt == INSTANCE SequencesExt

CONSTANTS
  Names,    \* tunnel names
  GroupOf,  \* GroupOf[n]: tc.Group
  PortOf,   \* PortOf[n]: the address tc.Local
  EnvSet,   \* is $TUNNEL_CONFIG set to another path than the default one
  Scenarios, \* sets of faults; one of them is what may go wrong in a behaviour
  MaxInst   \* bound: goroutines of one tunnel that exist at the same time

(* save: the config file cannot be written; bind: somebody else has the    *)
(* port; serve: Accept fails; slowstop: a goroutine takes more than 5 s to *)
(* end; crash: the process is killed; edit: the operator edits the file;   *)
(* overlap: two control requests or signals run at the same time.          *)
AllFaults == {"save", "bind", "serve", "slowstop", "crash", "edit", "overlap"}

ASSUME ManagerAssumption ==
  /\ IsFiniteSet(Names)
  /\ EnvSet \in BOOLEAN
  /\ Scenarios \subseteq SUBSET AllFaults
  /\ MaxInst \in Nat \ {0}

VARIABLES
  faults,   \* the scenario of this behaviour
  daemon,   \* "down", "up", "shutdown" (channel closed), "draining", "drained"
  cfg,      \* m.cfg
  disk,     \* the config files
  tunnels,  \* m.tunnels: name -> number of its goroutine, 0 when absent
  inst,     \* the tunnel goroutines (managedTunnel and what runFn holds)
  work,     \* what the holder of m.mu still has to do
  pending   \* newCfg of a Reload that does not hold m.mu yet

vars == <<faults, daemon, cfg, disk, tunnels, inst, work, pending>>

Configs == [Names -> {"absent", "off", "auto"}]
NoCfg == <<>>
NoTunnels == [n \in Names |-> "absent"]

(* LoadConfig("") honours $TUNNEL_CONFIG, SaveConfig("") does not. *)
Paths == {"env", "default"}
LoadPath == IF EnvSet THEN "env" ELSE "default"
SavePath == "default"

Insts == Names \X (1..MaxInst)
Name(i) == i[1]
Autostart(c) == {n \in Names : c[n] = "auto"}
Configured == {n \in Names : cfg[n] # "absent"}

(* The items of an operation. *)
Stop(S)    == [do |-> "stop", names |-> S]     \* cancel and unmap, then wait
Wait(I)    == [do |-> "wait", insts |-> I]
Config(c)  == [do |-> "config", to |-> c]
Trigger    == [do |-> "trigger"]               \* close the shutdown channel
Drained    == [do |-> "drained"]               \* runDaemon's mgr.Stop returned
Save_skipped == <<>>
Save       == <<[do |-> "truncate"], [do |-> "write"]>>
Start(S)   == LET order == SeqExt!SetToSeq(S)
              IN  [k \in DOMAIN order |-> [do |-> "start", name |-> order[k]]]

WorkItem ==
  [do : {"stop"}, names : SUBSET Names] \cup [do : {"wait"}, insts : SUBSET Insts]
  \cup [do : {"config"}, to : Configs] \cup [do : {"start"}, name : Names]
  \cup [do : {"trigger", "drained", "truncate", "write"}]

MuFree == work = <<>>
Doing(what) == work # <<>> /\ Head(work).do = what
Awaited == IF Doing("wait") THEN Head(work).insts ELSE {}
Mapped == {<<n, tunnels[n]>> : n \in Names} \cap Insts
Ended(i) == inst[i].pc \in {"error", "stopped"}

(* A goroutine that has ended, that nobody refers to and that holds no     *)
(* port is as good as one that never was.                                  *)
NoInst == [pc |-> "stopped", cancels |-> 0, bound |-> FALSE]
Unused(n) == {k \in 1..MaxInst : inst[<<n, k>>] = NoInst}

TypeOK ==
  /\ faults \in Scenarios
  /\ daemon \in {"down", "up", "shutdown", "draining", "drained"}
  /\ cfg \in Configs
  /\ disk \in [Paths -> Configs]
  /\ tunnels \in [Names -> 0..MaxInst]
  /\ inst \in [Insts -> [pc : {"starting", "listening", "error", "stopped"},
                         cancels : Nat, bound : BOOLEAN]]
  /\ work \in Seq(WorkItem)
  /\ pending \in Configs \cup {NoCfg}

Init ==
  /\ faults \in Scenarios
  /\ daemon = "down"
  /\ disk \in {[p \in Paths |-> c] : c \in Configs}
  /\ cfg = disk[LoadPath]
  /\ tunnels = [n \in Names |-> 0]
  /\ inst = [i \in Insts |-> NoInst]
  /\ work = <<>>
  /\ pending = NoCfg

-----------------------------------------------------------------------------
(* Control operations: take m.mu and set out the items. *)

(* The bound on goroutines: whatever is started next has a place. *)
Room ==
  \A n \in Names : \/ Unused(n) # {}
                   \/ tunnels[n] # 0 /\ {"slowstop", "serve"} \cap faults = {}

(* Without overlap a request is sent when the last one was answered.       *)
CanBegin ==
  /\ MuFree
  /\ \/ daemon = "up" /\ pending = NoCfg
     \/ daemon # "down" /\ "overlap" \in faults
  /\ Room

Lock(items) ==
  /\ work' = items
  /\ UNCHANGED <<faults, daemon, cfg, disk, tunnels, inst, pending>>

Add(n, a) ==
  /\ CanBegin /\ cfg[n] = "absent"
  /\ Lock(<<Config([cfg EXCEPT ![n] = a])>> \o Save
          \o IF a = "auto" THEN Start({n}) ELSE <<>>)

RemoveItems_keepsRunning(n) == <<Config([cfg EXCEPT ![n] = "absent"])>> \o Save
RemoveItems(n) ==
  <<Stop({n}), Config([cfg EXCEPT ![n] = "absent"])>> \o Save

Remove(n) ==
  /\ CanBegin /\ n \in Configured
  /\ Lock(RemoveItems(n))

Enable(n) ==
  /\ CanBegin /\ n \in Configured
  /\ Lock(<<Config([cfg EXCEPT ![n] = "auto"])>> \o Save \o Start({n}))

Disable(n) ==
  /\ CanBegin /\ n \in Configured
  /\ Lock(<<Config([cfg EXCEPT ![n] = "off"])>> \o Save \o <<Stop({n})>>)

Restart(n) ==
  /\ CanBegin /\ n \in Configured
  /\ Lock(<<Stop({n})>> \o Start({n}))

SaveNow ==
  /\ CanBegin /\ Lock(Save)

StartGroup(g) ==
  /\ CanBegin
  /\ Lock(Start({n \in Configured : GroupOf[n] = g}))

(* One tunnel at a time, in the order of the map's iteration. *)
StopGroup(g) ==
  /\ CanBegin
  /\ \E order \in SeqExt!SetToSeqs({n \in Names : tunnels[n] # 0 /\ GroupOf[n] = g}) :
       Lock([k \in DOMAIN order |-> Stop({order[k]})])

(* The stop request: stop everything, then shut the daemon down. *)
StopDaemon ==
  /\ CanBegin /\ Lock(<<Stop(Names), Trigger>>)

(* Reload reads the file, and only then takes m.mu. *)
ReloadRead ==
  /\ pending = NoCfg
  /\ CanBegin \/ ("overlap" \in faults /\ daemon # "down")
  /\ pending' = disk[LoadPath]
  /\ UNCHANGED <<faults, daemon, cfg, disk, tunnels, inst, work>>

Reload ==
  /\ pending # NoCfg /\ MuFree
  /\ Room
  /\ work' = <<Stop(Names), Config(pending)>> \o Start(Autostart(pending))
  /\ pending' = NoCfg
  /\ UNCHANGED <<faults, daemon, cfg, disk, tunnels, inst>>

-----------------------------------------------------------------------------
(* The items *)

Pop == work' = Tail(work)

(* mt.cancel() and delete(m.tunnels, name), then wait on the done channels. *)
Unmap_never(S) == tunnels
Unmap(S) == [n \in Names |-> IF n \in S THEN 0 ELSE tunnels[n]]
ToAwait_none(S) == {}
ToAwait(S) == {i \in Mapped : Name(i) \in S}

Cancel(r) == [r EXCEPT !.cancels = @ + 1]

stopTunnelLocked ==
  /\ Doing("stop")
  /\ LET S == Head(work).names
     IN  /\ inst' = [i \in Insts |->
                       IF i \in Mapped /\ Name(i) \in S
                       THEN Cancel(inst[i]) ELSE inst[i]]
         /\ tunnels' = Unmap(S)
         /\ work' = <<Wait(ToAwait(S))>> \o Tail(work)
  /\ UNCHANGED <<faults, daemon, cfg, disk, pending>>

(* Every done channel is closed, or its 5 s are over. *)
TimesOut_never(i) == FALSE
TimesOut(i) == "slowstop" \in faults

waitTunnelStopped ==
  /\ Doing("wait")
  /\ \A i \in Awaited : Ended(i) \/ TimesOut(i)
  /\ inst' = [i \in Insts |-> IF i \in Awaited /\ Ended(i) /\ ~inst[i].bound
                              THEN NoInst ELSE inst[i]]
  /\ Pop
  /\ UNCHANGED <<faults, daemon, cfg, disk, tunnels, pending>>

setConfig ==
  /\ Doing("config")
  /\ cfg' = Head(work).to
  /\ Pop
  /\ UNCHANGED <<faults, daemon, disk, tunnels, inst, pending>>

(* os.WriteFile truncates the file, then writes it; an empty file parses   *)
(* as a configuration without tunnels.                                     *)
SaveTruncate ==
  /\ Doing("truncate")
  /\ disk' = [disk EXCEPT ![SavePath] = NoTunnels]
  /\ Pop
  /\ UNCHANGED <<faults, daemon, cfg, tunnels, inst, pending>>

SaveWrite ==
  /\ Doing("write")
  /\ disk' = [disk EXCEPT ![SavePath] = cfg]
  /\ Pop
  /\ UNCHANGED <<faults, daemon, cfg, tunnels, inst, pending>>

(* The file cannot be opened, or not be written: the operation returns the *)
(* error and does nothing of what is left.                                 *)
SaveFails ==
  /\ "save" \in faults
  /\ Doing("truncate") \/ Doing("write")
  /\ work' = <<>>
  /\ UNCHANGED <<faults, daemon, cfg, disk, tunnels, inst, pending>>

(* A tunnel that is in the map counts as running. *)
startOneSkips ==
  /\ Doing("start") /\ tunnels[Head(work).name] # 0
  /\ Pop
  /\ UNCHANGED <<faults, daemon, cfg, disk, tunnels, inst, pending>>

startOne ==
  /\ Doing("start") /\ tunnels[Head(work).name] = 0
  /\ LET n == Head(work).name
         k == Min(Unused(n))
     IN  /\ Unused(n) # {}
         /\ tunnels' = [tunnels EXCEPT ![n] = k]
         /\ inst' = [inst EXCEPT ![<<n, k>>].pc = "starting"]
  /\ Pop
  /\ UNCHANGED <<faults, daemon, cfg, disk, pending>>

triggerShutdown ==
  /\ Doing("trigger")
  /\ daemon' = IF daemon = "up" THEN "shutdown" ELSE daemon
  /\ Pop
  /\ UNCHANGED <<faults, cfg, disk, tunnels, inst, pending>>

drained ==
  /\ Doing("drained")
  /\ daemon' = "drained"
  /\ Pop
  /\ UNCHANGED <<faults, cfg, disk, tunnels, inst, pending>>

Item ==
  \/ stopTunnelLocked \/ waitTunnelStopped \/ setConfig
  \/ SaveTruncate \/ SaveWrite \/ SaveFails
  \/ startOne \/ startOneSkips \/ triggerShutdown \/ drained

-----------------------------------------------------------------------------
(* A tunnel goroutine: bind, serve until stopped, release the port. *)

Holds(i, p) == inst[i].bound /\ PortOf[Name(i)] = p
PortTaken(i) == \E j \in Insts : Holds(j, PortOf[Name(i)])

Return(i, pc, bound) ==
  inst' = [inst EXCEPT ![i] = IF bound \/ i \in Mapped \cup Awaited
                              THEN [@ EXCEPT !.pc = pc, !.bound = bound] ELSE NoInst]

Bind(i) ==
  /\ inst[i].pc = "starting" /\ ~PortTaken(i)
  /\ inst' = [inst EXCEPT ![i].pc = "listening", ![i].bound = TRUE]
  /\ UNCHANGED <<faults, daemon, cfg, disk, tunnels, work, pending>>

BindFail(i) ==
  /\ inst[i].pc = "starting"
  /\ PortTaken(i) \/ "bind" \in faults
  /\ Return(i, "error", FALSE)
  /\ UNCHANGED <<faults, daemon, cfg, disk, tunnels, work, pending>>

(* case <-stop: proxy.Close(); the done channel is closed. *)
Stopped(i) ==
  /\ inst[i].pc = "listening" /\ inst[i].cancels > 0
  /\ Return(i, "stopped", FALSE)
  /\ UNCHANGED <<faults, daemon, cfg, disk, tunnels, work, pending>>

(* case err := <-errCh: Serve returned, and nobody closes the listener ... *)
ServeFail(i) ==
  /\ "serve" \in faults /\ inst[i].pc = "listening"
  /\ Return(i, "error", TRUE)
  /\ UNCHANGED <<faults, daemon, cfg, disk, tunnels, work, pending>>

(* ... before the garbage collector finalises it. *)
Finalize(i) ==
  /\ inst[i].pc = "error" /\ inst[i].bound
  /\ Return(i, "error", FALSE)
  /\ UNCHANGED <<faults, daemon, cfg, disk, tunnels, work, pending>>

Goroutine(i) == Bind(i) \/ BindFail(i) \/ Stopped(i)

-----------------------------------------------------------------------------
(* The daemon process *)

Boot ==
  /\ daemon = "down"
  /\ daemon' = "up"
  /\ cfg' = disk[LoadPath]
  /\ work' = Start(Autostart(disk[LoadPath]))
  /\ UNCHANGED <<faults, disk, tunnels, inst, pending>>

(* SIGINT or SIGTERM. *)
Signal ==
  /\ daemon = "up" /\ (MuFree \/ "overlap" \in faults)
  /\ daemon' = "shutdown"
  /\ UNCHANGED <<faults, cfg, disk, tunnels, inst, work, pending>>

(* <-shutdown, then mgr.Stop(). *)
Drain ==
  /\ daemon = "shutdown" /\ MuFree
  /\ daemon' = "draining"
  /\ work' = <<Stop(Names), Drained>>
  /\ UNCHANGED <<faults, cfg, disk, tunnels, inst, pending>>

(* The process is gone, and with it every goroutine and every port. *)
Gone ==
  /\ daemon' = "down"
  /\ tunnels' = [n \in Names |-> 0]
  /\ inst' = [i \in Insts |-> NoInst]
  /\ work' = <<>>
  /\ pending' = NoCfg
  /\ UNCHANGED <<faults, cfg, disk>>

Exit  == daemon = "drained" /\ Gone
Crash == "crash" \in faults /\ daemon # "down" /\ Gone

EditConfig ==
  /\ "edit" \in faults
  /\ \E c \in Configs : disk' = [disk EXCEPT ![LoadPath] = c]
  /\ UNCHANGED <<faults, daemon, cfg, tunnels, inst, work, pending>>

-----------------------------------------------------------------------------
HandleControl ==
  \/ \E n \in Names : \/ \E a \in {"off", "auto"} : Add(n, a)
                      \/ Remove(n) \/ Enable(n) \/ Disable(n) \/ Restart(n)
  \/ \E g \in {GroupOf[n] : n \in Names} : StartGroup(g) \/ StopGroup(g)
  \/ SaveNow \/ StopDaemon \/ ReloadRead

Next ==
  \/ HandleControl \/ Reload \/ Item
  \/ \E i \in Insts : Goroutine(i) \/ ServeFail(i) \/ Finalize(i)
  \/ Boot \/ Signal \/ Drain \/ Exit \/ Crash \/ EditConfig

Spec == Init /\ [][Next]_vars

(* The holder of m.mu runs, a Go mutex starves nobody (hence SF), and a    *)
(* goroutine runs unless it is one that is slow to stop.                   *)
Fairness ==
  /\ WF_vars(Item) /\ SF_vars(Reload) /\ SF_vars(Drain) /\ WF_vars(Exit)
  /\ \A i \in Insts : WF_vars("slowstop" \notin faults /\ Goroutine(i))

FairSpec == Spec /\ Fairness

-----------------------------------------------------------------------------
(* Properties *)

(* tunnelStatusLocked: what List and Status answer. *)
tunnelStatus(n) == IF tunnels[n] = 0 THEN "stopped" ELSE inst[<<n, tunnels[n]>>].pc

Without(S) == S \cap faults = {}

(* Every running goroutine is reachable: the map names it, or the holder   *)
(* of m.mu is waiting for it.  Otherwise nobody could ever stop it.  A     *)
(* tunnel that takes longer than 5 s to stop is the exception.             *)
NoOrphan ==
  Without({"slowstop"}) => \A i \in Insts : ~Ended(i) => i \in Mapped \cup Awaited

(* Whatever left the map was told to stop, even if nobody waited for its   *)
(* end: a slow tunnel is late, not lost.                                   *)
ToldToStop ==
  \A i \in Insts : ~Ended(i) /\ i \notin Mapped => inst[i].cancels > 0

(* close(ctx) is never called twice on a tunnel: that would panic.         *)
CancelOnce == \A i \in Insts : inst[i].cancels <= 1

(* A tunnel about to bind never finds its port held by a tunnel that was   *)
(* stopped before: reload, restart and stop release a listener before they *)
(* go on.  Again a slow tunnel is the exception, and one whose Serve       *)
(* failed: ReusableAfterFailure is the property without that exception.    *)
LateHolders(i) ==
  {j \in Insts \ {i} : Holds(j, PortOf[Name(i)]) /\ j \notin Mapped \cup Awaited}
ReusableAfterFailure ==
  Without({"slowstop"}) =>
    \A i \in Insts : inst[i].pc = "starting" => LateHolders(i) = {}
PortReleased == Without({"serve"}) => ReusableAfterFailure

(* When no operation is in progress, only configured tunnels run.          *)
NoZombie ==
  MuFree => \A n \in Names : tunnels[n] # 0 => n \in Configured

(* What was acknowledged is on disk: the file that the next daemon or the  *)
(* next reload reads says what is in memory, unless a save failed or the   *)
(* operator edited the file.                                               *)
Persisted ==
  Without({"save", "edit"}) /\ MuFree /\ daemon # "down" => disk[LoadPath] = cfg

(* The part of it the code keeps: when no reload overlaps a request.       *)
PersistedInTurn == Without({"overlap"}) => Persisted

(* start, enable, restart, start-group and reload leave the tunnels they   *)
(* name running, unless one of them failed since it was started.           *)
Running(n) == tunnelStatus(n) \in {"starting", "listening"}
StartedIsRunning ==
  [][\A n \in Names :
       Doing("start") /\ Head(work).name = n /\ daemon' # "down" /\ work' # work =>
         Running(n)']_vars

(* Every operation ends and releases m.mu, also when a tunnel does not     *)
(* stop.                                                                   *)
Responsive == ~MuFree ~> MuFree

(* A stop request or a signal ends the daemon.                             *)
Terminates == daemon = "shutdown" ~> daemon = "down"
=============================================================================
