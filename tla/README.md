# A TLA+ model of `tunnel`

`tunnel` forwards ports: locally (TCP, UDP, SOCKS5, chains of hops) and remotely, through a
control connection over which a server behind a public address hands connections to a client
behind NAT. A daemon keeps a set of tunnels, a config file and a control socket. This
directory holds TLA+ modules translated from the Go source, TLC configurations that check
them on small instances, and TLAPS proofs of their safety properties for all instances.

## 1. Inventory

| part | source | state | operations | model |
|---|---|---|---|---|
| channel multiplexing | `relay/stream.go`, handlers of `ctrlconn.go`, `relay.go` | per end: status, receive buffer, error, send window; the channels map | Write, Read, CloseWrite, Close, the handlers of five frame types, Relay | `Channel`, `ByteStream` |
| control connection | `relay/ctrlconn.go` | socket, channels map, queue of 64 new channels, last activity | readLoop, OpenChannel, AcceptChannel, closeAll, Close, KeepAlive | `CtrlConn`, `RemoteClient` |
| remote server | `relay/remoteserver.go`, `auth.go` | tracked connections, shared listeners with a round-robin order | Serve, handleClient, attach, detach, acceptLoop, dispatch, Close, Wait | `RemoteServer` |
| remote client | `relay/remoteclient.go`, `reconnect.go` | current connection, stop channel, attempts | Run, connect, relayChannel, Close | `RemoteClient`, `Channel` |
| manager | `manager/manager.go` | config, map of running tunnels, one goroutine per tunnel | add, rm, enable, disable, start/stop group, restart, save, reload, stop; the goroutine of each mode | `Manager`, `LocalTunnel`, `ManagedClient` |
| config file | `manager/config.go` | the file | LoadConfig, SaveConfig | `Manager` |
| daemon, CLI | `main.go`, `manager/daemon.go`, `control.go` | processes, pidfile, control socket, shutdown channel, control connections | cmdStart, cmdStop, runDaemon, ServeControl, handleControlConn, SendControl, signals | `Daemon`; its tunnels in `Manager` |
| TCP, chain, SOCKS5 proxies | `tcpproxy.go`, `chainproxy.go`, `socks5*.go` | a listener, one goroutine and two sockets per connection | Serve, handle, socksHandshake, Close, Relay per connection | `StreamProxy` |
| UDP proxy | `udpproxy.go` | sessions by client address, a socket and a goroutine each | handlePacket, readFromTarget, removeSession, Close | `UDPProxy` |
| TLS identity | `identity.go`, `tls.go` | key file, certificate file, per-process cache | LoadOrGenerateIdentity and what it calls | `Identity` |
| known hosts | `knownhosts.go`, `tls.go` | fingerprints in memory and in a file | LoadKnownHosts, Verify, Accept, TLSDial | `KnownHosts` |
| log buffer, health check, systemd unit | `logging.go`, `healthcheck.go`, `systemd.go` | a ring of lines; none; none | append/read; dial and log; write a file | not modelled |

**How they interact.** `RemoteServer.dispatch` opens a channel on the control connection whose
turn it is; `RemoteClient` accepts it, dials the local target and runs `Relay`, as the server
does on its side. All channels of a connection share its socket (`cc.wmu` serialises the
writers) and its one `readLoop`, which runs every handler. `KeepAlive` and the two `Close`s
end a connection from other goroutines. The manager starts one goroutine per tunnel, each of
which runs a proxy, a remote server or a remote client, and talks to it through a `ctx`
channel (stop) and a `done` channel (stopped). Control requests and signals reach the manager
concurrently and are serialised by `m.mu`. Commands and daemons, which are processes of their
own, meet in two names of the file system: the pidfile and the control socket's path. Server
processes meet in the identity files, client processes in `known_hosts`; a client pins the
fingerprint of the key that the server's listener presents.

**What is hard.** Flow control across two asynchronous directions; half-close against data
still buffered; waking everybody who waits when a connection dies; locks held across blocking
calls (`rmu` and `cc.wmu` around a socket write, `rs.mu` around the retries of `listenTunnel`,
`m.mu` around the wait for a tunnel); check-then-act across two critical sections (closing a
shared listener, Reload, Verify and Accept of a host key, the pidfile); timeouts after which the code goes on although the thing it waited
for has not happened; a session opened while Close empties the table; files that are truncated
before they are written, by processes that can be killed in between. `PROJECT.json`
lists each hazard with its line.

**What makes each part correct.** A channel delivers the bytes of its writer in order and
completely before a clean end, never overruns its peer, and is reclaimed. A connection that
dies takes all its channels with it. A shared listener deals its turns evenly, loses no turn
when a connection comes or goes, and lives exactly as long as somebody is registered. A client
finds out a dead peer, spares a live one and keeps reconnecting until told to stop. The
manager never loses a goroutine, frees ports before it reuses them, keeps the file equal to
memory, and always gives `m.mu` back. A daemon that serves can be reached, and one whose
control server failed does not stay. A local tunnel gives back every socket and session it opened, and dials
for nobody who has not shown the credentials. A server's key is stable, and a client trusts one
key per host.

## 2. The modules

### `Channel`

One *end* is one side's `*channel`. Four goroutines touch it: the two halves of `Relay`
(writer `wpc`, reader `rpc`), whoever is in `Close` (`closing`) and the side's `readLoop`
(`handleFrame`). A step runs from one lock acquisition to the next or to the next frame
written. `wire[s]` is the TCP stream to side `s`; a send blocks when it holds `WireCap` frames.
A payload byte is its position in its writer's stream, so that order, loss and repetition can
be seen while the contents are abstracted. `rpc = "credit"` is the moment in which `Read`
holds `rmu` across `sendWindowUpdate`; the handlers of data and close wait for it (`RmuFree`).
The ends may have different initial windows, which makes the overflow path of `pushData`
reachable. The connection itself stays up in this module (`CtrlConn` lets it die). `Starved` is
a writer that waits for credit nobody will give: `setError` woke the reader of its channel and
not the writer.

`InFlight` concatenates what the frames on the wire carry for one channel; `CreditConserved` and
the refinement mapping to `ByteStream` are written with it. `MCChannel` gives the constants.

### `ByteStream`

What one direction of a channel promises: an ordered byte stream with a writer that finishes
and a reader that takes bytes in order, reaches the end, or gives up. `Channel` instantiates
it with the refinement mapping (`Unread`: what the peer has buffered, followed by the data
frames still on the wire); `ImplementsStream` says that `Channel` implements it in both
directions at once. Window, frames and half-close have disappeared from it.

### `CtrlConn`

One end of a control connection in one of its two roles: the server opens channels
(`OpenChannel`: enter the map, send, take it back on failure), the client accepts them from
the bounded queue. The socket may see the peer go (`eof`: writing still works), and be closed;
`closeAll` runs in the `readLoop` and in every `Close`, before the socket is closed: it takes
`cc.cmu` and then, channel by channel, the `rmu` that `setError` needs (`cmu`, `waking`). What a
channel carries is left out; it is `errored` when `setError` woke its reader, and `held` while
its `Read` is in `sendWindowUpdate` with a peer that does not read.

### `RemoteServer`

Control connections arrive, shake hands (one step that succeeds, fails or hangs), are tracked
and start one `serveRemoteTunnel` per tunnel (`spc`). `sls` is every `sharedListener` ever
made, `listeners` the map. `holder` is the goroutine that keeps `rs.mu` while `listenTunnel`
retries. Closing a listener is three steps (mark, release the port, delete the map entry), as
in the code. Of the channels that `dispatch` opens, `link` keeps that there are some (`"used"`) and
that a `Read` of one is blocked with its `rmu` (`"jam"`): `rs.Close` takes one connection after the
other (`toClose.at`) and waits at a jammed one, as `dispatch` does. `turns` is a history variable: public connections dealt since the order last
changed. `MCRemoteServer` has the instances.

### `RemoteClient`

`Run` and `connect` (`pc`), `KeepAlive` (`ka`), `Close` (`cpc`) and the peer. Time passes in
ticks of KeepAlive's interval (15 s), so `Timeout` is 3. `DialOk` is the TCP connection; what
reads an answer before `KeepAlive` runs, the TLS handshake inside `tls.Dial` and `AuthClient`, is
`HandshakeOk`, which waits for a silent peer when `NeedsReply` (either of the two is configured).
`stuck` is a channel's frame blocked in `WriteFrame`: with `cc.wmu` (a writer), or with the `rmu` of
its channel too (a `Read`). `CtrlConnClose`, used by `KeepAlive` and `Close`, waits in `closeAll` for
the latter; `Close` does so with `rc.mu`. The length of a backoff is abstracted to "some delay".
`RunBegins` is the call of `Run`, from `runAdhocRemote` or from the manager.

### `ManagedClient`

Extends `RemoteClient` by the goroutine of `runRemoteClient`: set-up that may fail, the unlocked
read of `m.tunnels` (`mt`), the 500 ms poll that writes the tunnel's status and touches `mt` once
the client has an error, and stop, which calls `Close` and returns. `Racy` says whether the read
may come before `startOne` has stored the entry.

### `Manager`

A control operation is a sequence of items done under `m.mu` (`work`): stop, wait, config,
truncate, write, start. Between two items tunnel goroutines run (bind, serve, stop), a
`Reload` may read the file, the operator may edit it, the process may end. `faults` is chosen
once per behaviour from `Scenarios`; properties name the faults they except. `MaxInst` bounds
the goroutines per name; goroutines that are over and referred to by nobody are reused.
The tunnels are those of the modes that listen; `ManagedClient` has the client mode and
`LocalTunnel` what a listening tunnel does inside.

### `Daemon`

One process per element of `Pids`: where `cmdStart`/`runDaemon` is (`main`), where its
`ServeControl` goroutine is (`ctl`), its shutdown channel and its 100 ms timer (`stopping`). The
pidfile holds a process id; `socket` is the process whose listener the path leads to. A killed
process leaves both. `conn[c]` is one command's control connection, from the dial through the
backlog, the handler and the answer to the return of `SendControl`. With `InTurn` a command is
given when the effect of the previous start or stop is complete. After a failed `Accept` the
goroutine that waits for `stop` still has the listener (`ctl = "late"`): `LateClose` unlinks the path
a second time, whoever is bound to it by then. `acceptFailed` is a history variable that says such
an `Accept` happened.

### `UDPProxy`, `StreamProxy`, `LocalTunnel`

`UDPProxy` has `Serve`, one `readFromTarget` per session and `Close`, with every critical section
of `sessionsMu` as one step and what happens outside it (the write to the target, the closing
of a removed session) as steps of their own. Time passes in ticks; `wait` is the read
deadline, `quiet` is what `lastActive` would measure. `StreamProxy` is the accept loop shared by
the TCP, SOCKS5 and chain proxies and the `handle` goroutine of each connection: handshake
(SOCKS5 only), dial, reply, the two copies of `Relay`, deferred closes. `LocalTunnel` composes
either with the manager's goroutine (`runLocal`, `runDynamic`, `runChain`): `stop`, `errCh` with
its buffer of one, and the goroutine that runs `Serve`.

### `Identity`, `KnownHosts`, `Trust`

`Identity` is `LoadOrGenerateIdentity` in several processes over two shared files, each write in
two steps (truncate, write), with the process cache and the age of certificates; a key stands
for its fingerprint. `KnownHosts` is `TLSDial` with trust on first use: the entries in memory
under `kh.mu`, the file rewritten line by line. `Trust` composes them: what a client sees at the
servers' address is a key that some listener presents. `faults` is chosen once per behaviour, as
in `Manager`.

Definitions whose name ends in an underscore and a word (`ChunkLen_ignoringWindow`) are
mutated forms of the definition that follows. Nothing uses them; each is a plausible bug that
a property has to notice.

## 3. The runs

| run | instance | what it shows |
|---|---|---|
| `channel_safety` | 1 channel, windows 2 and 1, streams of 3 and 2 bytes, buffer 2, wire 2, failing dials and sinks | `ImplementsStream`, `FlowControl`, `NoOverflow`, `InOrder`, `LosslessEOF`, `CreditConserved` |
| `channel_live` | windows 2 and 1, receive buffer 1, streams of 3 and 2 bytes, wire 1, failing dials and sinks | `Reclaimed`: every channel is closed and leaves both maps, the overflow path included, unless its writer starves or both readLoops are in gridlock |
| `server_safety` | 3 connections, 1 bind:port, 3 public connections, accepts may fail, symmetric | `OrderConsistent`, `RoundRobin`, `TurnKept`, `NoOrphanListener` |
| `server_live` | 2 connections, one registers the same bind:port twice, 1 public connection, peers may stop reading | `ShutdownDrains` |
| `server_handoff` | violation | a connection attaches between the last detach and the closing of the listener |
| `client_serve` | a managed client with TLS or a token, peers refuse, close or fall silent, writers and Reads may block | `NeverGivesUp`, `SilenceDetected`, `NoFalseAlarm`, `CloseEndsServing`, `StopReturns` |
| `ctrl_death` | 2 opened or 3 incoming channels, queue of 1, Reads may hold their `rmu` | `NoneLost`, `DeathEnds`, `CloseReachesSocket`, `AcceptedAreWoken` |
| `manager_safety` | 2 tunnels on one port; binds fail and requests come in turn or overlap, or saves fail | `NoOrphan`, `PortReleased`, `PersistedInTurn` |
| `manager_faults` | 1 tunnel, up to 2 goroutines of it, all faults | `CancelOnce`, `NoZombie`, `Terminates` |
| `daemon` | 3 process ids, 2 control clients, kills and failing calls, commands in turn | `Reachable`, `RefusedOnlyWhenRunning`, `NoLimbo`, `CommandsReturn` |
| `local_tunnel` | all four proxies; 2 connections or 2 client addresses with 2 sessions, deadline of 2 ticks | `SessionTable`, `SessionsReclaimed`, `AuthBeforeDial`, `ConnsReleased`, `StopEndsTunnel` |
| `trust` | 2 server processes, 2 keys, certificates due after 1 and expired after 2 of 2 time units, 1 client process with 2 tunnels | `HonestFingerprint`, `NeverTurnedAway`, `OneFingerprint`, `PinsKept` |

Type invariants are part of every module. They are theorems (section 5) and, with `NoneForgotten`,
were checked with the same configurations; the runs spend their properties on the rest.

Six properties state an exception, because the code does not keep them without it; section 4
has the strict forms and what breaks them:

| property | exception | strict form |
|---|---|---|
| `Reclaimed` | `Starved`: a writer waits for credit after only its reader was woken (`stream.go:178`); `Gridlock`: both readLoops wait for the `rmu` of a `Read` that waits for the other (`stream.go:71`) | `AlwaysReclaimed`, `NoGridlock` |
| `ShutdownDrains` | `Jammed`: `Close` waits for the `rmu` of a `Read` on a peer that does not read (`ctrlconn.go:275`) | `AlwaysDrains` |
| `CloseEndsServing`, `StopReturns` | `Wedged`: the same wait in the client | `StopAlwaysReturns` |
| `NeverGivesUp` | `HeldUp`: a silent peer in the TLS or auth handshake (`tls.go:89`) | `AlwaysReconnects` |
| `Reachable` | an `Accept` has failed and the late `Close` left no path (`control.go:92`) | `AlwaysReachable` |

**Bounds.** A stream longer than the window, a read smaller than what is buffered and a full
wire are what flow control is about: windows of 1 or 2 and streams of 2 or 3 bytes give all of
them, and the proofs remove the bound for the window. In `channel_live` the server's stream is
longer than its window, so that its writer can wait for credit when the other end tears the
channel down, and a wire of one frame lets both directions be full. One public connection is enough for `server_live`: it gives a connection channels,
and the other one none. Three connections are the least for
which a turn can be lost before, at and behind the one that leaves; three dials make a round.
A queue of 1 is full as soon as one channel waits. Two tunnels on one port are the least for
which one can meet another's listener; `MaxInst = 2` lets a slow goroutine overlap with its
successor. `MaxAttempt` only stops counting. Three process ids let a background start with its
child follow a killed daemon whose pidfile is still there. Two sessions and two addresses let a
client's new session meet its old one and another's; a session that is over is used again, so
the number of sessions of a behaviour is not bounded. Two keys are the least for which an
identity can change; two time units take a certificate through due and expired. Two tunnels of
one process are the least that can meet a host at the same moment.

**Deadlock.** Switched off where everything may be over: all channels closed, a server shut
down, a client stopped, a connection dead, a tunnel stopped, all keys used. The manager's and
the daemon's runs keep the check.

**Fairness.** Weak fairness of each goroutine is the Go scheduler. A `sync.Mutex` starves
nobody, so what waits for `m.mu` (Reload, the final Stop) is strongly fair in `Manager`. In `Channel`
a source that was opened ends and a sink answers, which is an assumption about the
applications. In `RemoteClient` dials, handshakes and publications that are possible again and
again succeed at some time (strong fairness): the network comes back. A TCP connect ends, by a
timeout of the dial or of the kernel; a handshake ends unless the peer fell silent in it. A
`Read` blocked on a peer returns when the socket is dead and need not before (`CtrlConn`,
`RemoteServer`, `RemoteClient`). A Go `select` chooses at
random, so a closed stop channel is not passed over for ever (strong fairness of `SelectStop` in
`ManagedClient`). In `LocalTunnel` a client finishes its SOCKS handshake or hangs up and
applications end their streams: the code has no deadline there, and without the assumption a
connection lives as long as its client. In `Daemon` every goroutine runs and `mgr.Stop` returns,
which `Terminates` shows. In `server_live` handshakes end (`HandshakeMayHang = FALSE`). Beyond
this nothing is assumed of peers that hang: they may stop reading and fall silent at any time, and
where the code waits for them the property says so. Nothing is assumed of goroutines that are
slow to stop, of requests, signals, kills and packets.

## 4. Further configurations

These configurations stand beside the runs of section 3. Each checks one property that the
source's documents suggest and that the code, as modelled, does not keep; TLC gives the
counterexample.

| configuration | property | what happens |
|---|---|---|
| `MCChannel_dialfail` | `PeerCloseReleases` | the peer's ChannelClose runs `setError`, which wakes readers only (`stream.go:178`): a writer that waits for credit stays after the client's dial failed. `e2e/coverage_test.go:13-16` says the connection is closed rather than hanging |
| `MCChannel_gridlock` | `NoGridlock` | `Read` writes to the socket with `rmu` held (`stream.go:71`); with full sockets both readLoops wait for Reads that wait for the other side, here with two channels; one channel is enough. `DESIGN.md:714` says that channels do not block one another |
| `MCRemoteServer_hang` | `AlwaysDrains` | a connection in its handshake is in no map, so Close does not reach it and Wait waits (`remoteserver.go:92`); `DESIGN.md:274` promises a graceful exit |
| `RemoteClient_blocked` | `DeadPeerDetected` | KeepAlive's ping needs `cc.wmu`, which a writer blocked in WriteFrame holds (`ctrlconn.go:311`): it never looks at the timeout again, against its comment at `ctrlconn.go:296-298` |
| `RemoteClient_close` | `CloseEnds` | Close during connect finds `rc.cc` nil; the client then registers and serves (`remoteclient.go:173`) |
| `RemoteClient_handshake` | `AlwaysReconnects` | a silent server holds `connect` in the TLS handshake (`tls.go:89`) or in `AuthClient` (`remoteclient.go:108`), which have no deadline; `DESIGN.md:556` says the client never gives up, `AUDIT.md:201` (M2) has the missing TLS timeout |
| `RemoteClient_backoff` | `DelayBeforeReconnect` | after a connection that was made, Run dials again at once (`remoteclient.go:89`); `DESIGN.md:548` gives every reconnect a delay |
| `ManagedClient_race` | `NoPanic` | `runRemoteClient` reads `m.tunnels` before `startOne` has stored the entry (`manager.go:556`); the first error dereferences nil (`AUDIT.md`, H11, has the race) |
| `CtrlConn_race` | `OpenedAreWoken` | a channel opened between `closeAll` and the closing of the socket is never woken (`ctrlconn.go:280`); `DESIGN.md:565` says all channels close at once |
| `MCManager_reload` | `Persisted` | Reload reads the file before it locks (`manager.go:270`): it installs a truncated or outdated one, against its comment at `manager.go:266-267` |
| `MCManager_env` | `PersistedInTurn` | with `$TUNNEL_CONFIG` set, the config is read from there and saved to the default path (`config.go:80`) |
| `MCManager_enable` | `StartedIsRunning` | a failed tunnel stays in `m.tunnels`, so enable and start take it for running (`manager.go:293`) |
| `MCManager_leak` | `ReusableAfterFailure` | when Serve fails nobody closes the listener before the garbage collector does (`manager.go:469`) |
| `Daemon_hasty` | `Reachable` | a start during another start or a stop: two daemons, and one removes the other's socket or pidfile (`AUDIT.md`, H8 and H9) |
| `Daemon_pidreuse` | `RefusedOnlyWhenRunning` | a pidfile left by a kill names an id that some other process has got since (`daemon.go:49`) |
| `LocalTunnel_idle` | `ClosedOnlyWhenIdle` | the deadline is renewed by the target's packets only (`udpproxy.go:105`), so a client that only sends loses its session; the comment at `udpproxy.go:16` speaks of idle sessions |
| `LocalTunnel_streaming` | `SessionsReclaimed` | a session opened while Close runs is in no list of Close; a target that keeps sending keeps it for ever (`udpproxy.go:92`) |
| `MCTrust_expired` | `NeverExpired` | certificates are renewed only when a tunnel is set up (`identity.go:67`); `identity.go:28-29` says a long-running server does not meet an expired one |
| `MCTrust_newkey` | `IdentityKept` | any error of reading the key file replaces the long-lived key (`identity.go:89`); two processes that find no key generate one each |
| `MCTrust_lostpins` | `PinnedForEver` | `known_hosts` is emptied and rewritten (`knownhosts.go:103`): a crash or a failed write in between loses pins |

The configurations of section 3 with one change ask further questions:

| configuration | change | answer |
|---|---|---|
| `MCChannel_live` | `AlwaysReclaimed` for `Reclaimed` | violated: the sink of the peer fails or its buffer overflows, its ChannelClose runs `setError`, and the writer waits for credit for ever with its channel in the map |
| `MCRemoteServer_live` | `AlwaysDrains` for `ShutdownDrains` | violated: a `Read` holds its `rmu` on a peer that does not read, and `rs.Close` waits for it before it closes that socket, the others and the listeners |
| `MCRemoteServer_live` | `AcceptMayFail = TRUE` | holds: a shutdown ends also when accept loops ended by themselves |
| `ManagedClient_serve` | `StopAlwaysReturns` for `StopReturns` | violated: the same wait, in `RemoteClient.Close` with `rc.mu` held; the manager goes on after its 5 s (`Manager`, fault `slowstop`) |
| `ManagedClient_serve` | `NeedsReply = FALSE`, `AlwaysReconnects` for `NeverGivesUp` | holds: a client without TLS and without a token is held up by nobody |
| `Daemon_inturn` | `AlwaysReachable` for `Reachable` | violated: a start is under way when the Accept of the running daemon fails; it looks for a pidfile just after that daemon has removed it, binds the path and serves, and then the late `Close` of the other unlinks the path |

## 5. The proofs

Eight modules hold the proofs, one per component, each next to the module it is about. Every
theorem is about the specification that the runs check, for all values of the constants that
satisfy the module's one named assumption (`ChannelAssumption`, `RemoteServerAssumption`, ...):
any number of channels, connections, tunnels, processes or keys, any window, queue or timeout.
The assumptions say that numbers are numbers, that the placeholders (`NoPid`, `None`, `NoKey`)
are no members of the sets they stand beside, and that `Names` (of `Manager`) and `Conns` (of
`LocalTunnel`) are finite, which the `Seq`s of items and `connCount` need.
What is a condition of a theorem rather than of the model is written in front of it:

| module | theorem | states | under the condition |
|---|---|---|---|
| `ChannelProofs` | `TypeCorrect`, `FlowControlled` | `TypeOK`, `FlowControl` | |
| | `SafetyNetUnused` | `NoOverflow` | `FitsReceiveBuffer`: the windows fit the receive buffer, as the constants of `stream.go` do |
| | `DeliveredInOrder`, `DeliveredToTheEnd` | `InOrder`, `LosslessEOF` | the same |
| | `CreditIsConserved` | `CreditConserved` | the same |
| | `ChannelIsByteStream` | `ImplementsStream`: `Channel` implements `ByteStream` | the same |
| `CtrlConnProofs` | `NothingForgotten`, `NothingLost` | `NoneForgotten`, `NoneLost` | |
| `RemoteServerProofs` | `OrderStaysConsistent`, `TurnsAreEven`, `EveryListenerIsMapped` | `OrderConsistent`, `RoundRobin`, `NoOrphanListener` | |
| | `TurnsAreKept` | `TurnKept`, an action property | |
| | `NoGhostRegistered` | `NoGhost`: no order names a connection whose goroutines are over | |
| `ManagedClientProofs` | `PeersAreSpared` | `NoFalseAlarm`, an action property | |
| | `OnlyTheRacePanics` | `NoPanic` | `~Racy`: the entry is stored before it is read |
| `ManagerProofs` | `CancelledOnce`, `UnmappedIsTold` | `CancelOnce`, `ToldToStop` | |
| | `NobodyOrphaned`, `PortsReleased`, `NoZombies` | `NoOrphan`, `PortReleased`, `NoZombie` | the faults each property excepts |
| | `FileIsPersisted` | `PersistedInTurn` | `~EnvSet`: `$TUNNEL_CONFIG` is not set |
| `DaemonProofs` | `ServesAndIsReached` | `Reachable` | `InTurn` |
| | `RefusedForAReason` | `RefusedOnlyWhenRunning` | `InTurn` and `~PidReuse` |
| `LocalTunnelProofs` | `TableIsExact`, `AuthenticatedFirst` | `SessionTable`, `AuthBeforeDial` | |
| `TrustProofs` | `FingerprintsAreHonest`, `FirstUseAgrees` | `HonestFingerprint`, `OneFingerprint` | |
| | `PinsSurvive`, `OneIdentity`, `ServersAreWelcome` | `PinsKept`, `IdentityKept`, `NeverTurnedAway` | the faults each excepts |

Each module also proves `TypeCorrect`. The conditions are needed: section 4 has a configuration
that breaks the property without `~Racy`, `~EnvSet`, `InTurn`, `~PidReuse` and the excepted
faults of `Trust`, and the run `channel_live` takes the overflow path with a buffer that is too
small.

### `Channel`: flow control

`FlowControl` is not inductive: whether a window update overruns the buffer depends on what is
already granted and on its way. `FlowInv` follows each byte's position: credited, granted,
consumed, received, on the wire, sent. `CreditOnWire` says that applying *any* update still in
flight leaves the writer within its initial window plus what was granted before that update;
`DataOnWire` that data frames lie, in order, between what was received and what was sent;
`Opening` that a channel is announced once, without which a second `NewChannel` could restart
an end; `Reserved` that reservations exist only inside `Write` and `Read`. The proof goes by
action classes: `SendFrames`, `ReadFrames` and `QuietFrames` say what appending to, reading
from and not touching the wire does to the frames on it; `WindowSend`, `WindowRead` and
`WindowQuiet` lift that to the invariant; `WindowWriter`, `WindowReader` and `WindowHandler`
discharge the actions.

### `Channel`: delivery

That a clean end comes after the last byte takes a second layer, `DeliveryInv`, on top of the
first. `Life` says who may be where: without overflow `Close` is called only by the goroutine
whose relay is over, the writer half-closes last, and the map holds an end from its opening to
its removal. `Heralded`: until the client knows a channel, its `NewChannel` frame is on the wire
in front of all data, so no data can meet an end that is not yet in the map. `Complete`: every
byte sent and not received is in some frame on the wire, as long as the receiver is there at
all (`Gone`). `Ending`: a ChannelClose has no data of its channel behind it, and an end whose
reader was told EOF has none on the way. `Steady` collects what every step keeps, so that the
four parts can be shown one after the other for sending, reading and quiet steps. At the moment of `ReadEnd` the
buffer is empty and `Ending` leaves no data on the wire; `Complete` then says that nothing is
missing. `SafetyNetUnused` enters through `AlwaysFits`: data that arrives is pushed, never
dropped by the overflow path.

### `Channel`: conservation of credit and the byte stream

Both speak of the wire as one sequence, `InFlight`, which a recursive function builds frame by
frame. No installed prover can use the library's induction schemes, which take an operator as
parameter; `SetInduction` replaces them: a *set* of naturals that holds 0 and every successor is
all of `Nat`, because its complement would have a least member (`WFMin`). `WireInduction` is
this for the prefixes of a wire, and it gives what the proofs need of the function: its values
are sequences of positions (`CarriedTyped`), appending a frame appends what the frame carries
(`CarriedAppend`), reading one takes it off the front (`CarriedTail`), and frames of other
channels or types do not count (`CarriedNone`). The `Flight` lemmas turn this into what each
kind of step does to `InFlight`.

`Account(e)` is the left side of `CreditConserved`. Every step either leaves it alone or moves an
amount between two of its six terms; `BalancedWriter`, `BalancedReader` and `BalancedHandler` show
it per action. The delicate case is a frame that `readLoop` drops because its channel is not in
the map: `DroppedFrame` shows that the end has left, or that the frame carries nothing. It rests
on `Heralded`, and for credit on `Silent`: an end whose relay does not run yet has sent nothing,
so no credit can be on its way to it.

For the refinement, `Unread` changes only where `ByteStream`'s `queue` does: a write appends to it
at the sender, a read takes from its front, and the arrival of data moves bytes from the wire to
the buffer and leaves `Unread` as it is (`StreamHandler`). `ReachEnd` needs that the writer has
finished when its reader sees EOF: `Parting` says that a ChannelClose on the wire (`Farewell`) was
sent by an end that had given up writing (`Leaving`); that nothing is left to read is what
`Ending` and `Complete` gave for `LosslessEOF`. `StreamWriter`, `StreamReader` and `StreamHandler`
map each action to an action of `ByteStream` or to a stutter, with one lemma per abstract action
(`StreamWrite`, `StreamFinish`, `StreamTake`, `StreamEnd`, `StreamGiveUp`, `StreamStill`).

### `CtrlConn`

`CtrlInv` follows a channel through `OpenChannel`, the hand of `handleFrame`, the queue and the
accept loop: `Known` says that in each of these places it is in the map, in the hand of `closeAll`
or already woken (`Reached`), `InHand` that `handleFrame` has one in hand exactly while it pushes
it. `closeAll` moves a channel from the map into its hand (`waking`) and from there to the woken,
with steps of others in between; `OneAtATime` says that only the owner of `cc.cmu` has one in hand,
and at most one. So no place loses its channels. `NoneLost` is inductive together with them.

### `RemoteServer`

`Orderly` is about one listener: `order` lists exactly `conns`, without repetition, `next` is an
index of it, and the turns dealt are a rotation. `RoundRobin` alone is not inductive because it
does not mention `next`; `InRotation` says that whoever is served sooner has had at most as many
turns, and at most one less. Lemmas about appending to and removing from an order carry it, and
`TurnKept`, from one listener to all. For `NoOrphanListener`, which spans the three critical
sections of a close, `Owned` says that a goroutine works on a listener of its own bind:port and
that the listener is marked before the port and the map entry are given up, and `Mapping` that
the map names listeners under their own bind:port. `Held` says that whoever is registered has a
goroutine that will take it out again, and `Launched` that such a goroutine runs only once its
connection was tracked; `NoGhost` follows from them.

### `ManagedClient`

`Answered`: `KeepAlive` runs only while `connect` serves, and while it waits with no ping
outstanding a peer that is not silent was heard in this interval; so an expired timer means a
silent peer. `HasEntry`: from the end of its set-up on the goroutine has its entry.

### `Manager`

`ManagerInv` relates the list of items still to do to the map, the goroutines and the
configuration. `Sound` says that nothing that can fail comes before a change of the
configuration, that only tunnels which are then configured are started, and that what runs stays
configured or is stopped first (`Covered`); `NoZombie` is this for an empty list. `Fresh` says
that what the map names was not told to stop, which makes `CancelOnce` inductive; `BoundListens`
that only a listening goroutine has a port, which `PortReleased` needs. `FileInv` says that a
truncated file is written next, that nothing changes the configuration after a write and that
without a write to come file and memory agree or will (`Saves`), and that a reload which has
read the file finds nothing about to overwrite it. Since the work list is a sequence, each
operation is shown once to queue a list with these properties, and each item to keep them when
it is taken off; no induction over the list is needed.

### `Daemon`

`TurnInv` is one conjunct per way in which two processes could meet: one starter and one daemon
at a time (`OneStarter`, `OneDaemon`); the pidfile names the daemon until a stop or the daemon
removes it (`Named`); one process works on the socket path (`OneControl`); a daemon that a
command stops is the only process (`StopsAlone`, `StopUnderWay`), while one that gives up by
itself may meet a start but by then has closed its listener, or will only unlink the path once
more after a failed `Accept` (`LeavesSocket`); the path may then be missing, never another's. `Quiet` and
`Called` tie goroutines and control connections to daemons. `NotItself`, for the second theorem:
a process about to check does not find itself in the pidfile, which is what reuse of ids breaks.

### `LocalTunnel`

`Counted` makes `connCount` the cardinality of the connections in `Relay`, so that it never goes
below zero. `Admitted` follows a SOCKS connection: from its request on it has proved what the
proxy asks. `Exact` makes `SessionTable` inductive: until `Close` swaps the map the entries are
exactly the sessions whose reader runs, and what a reader closes is its own session. It is this
that makes removal by address safe. The theorems are about the composition: each proxy's
invariant is shown for its own steps and carried over the manager's.

### `Trust`

`ServerInv` says that what a process has loaded, cached or served is a certificate of a key
that it announced; the conjuncts `HasKey` and `CertForKey` follow it between the reads and writes of
the two files. `ClientInv`: one tunnel of a process saves at a time (`OneSaver`, the lock
`kh.mu`), saves its own pin, and what was let through is in the store. With one client at a
time and no failed save, `PinInv` adds that the file is the store whenever nobody rewrites it.
With servers that load in turn and can read their file, `KeptInv` adds that the file holds the
one key that was ever announced. `Heard` joins the two sides: a key that a client has for the
servers' address, in hand, in memory or in the file, is one they presented. `ServersAreWelcome`
needs all of them.

### Only model-checked

- Every liveness property: fairness and ENABLED are outside the prover.
- `Channel` with windows that do not fit the receive buffer (`channel_live`): what the overflow
  path does to a stream is not stated; `TypeCorrect` and `FlowControlled` hold there too.
- `StaysOpenWhileRegistered` does not hold: `server_handoff` has the counterexample.

## 6. Not modelled

A tunnel with several parallel clients (`runRemoteClientMulti`: the same loop over up to ten
clients that share nothing), health checks (they log), the log buffer (one lock, one list), the
systemd unit, YAML and argument parsing, the ad-hoc modes other than the remote client's.
Certificates given as files and a fingerprint pinned in the configuration are constants of
`TLSDial` and have no state. Text and file formats are data or I/O. In what is modelled: target
addresses, the encoding of frames and of SOCKS messages beyond what the code tells apart, the
length of delays, statistics and logging are left out.

Three pieces of control are left out as well, because they change no state that a property reads.
`handlePing`, a write of the `readLoop` under `cc.wmu`, carries nothing of a channel; when the socket
is full it is one more way into the standstill of `MCChannel_gridlock`. `handleFrame` accepts a
NewChannel on the server's side too, where nobody takes it from `cc.newCh`; no code of the
repository sends one there (`OpenChannel` is called by `dispatch` only). `Reload` returns an error
of `LoadConfig` before it locks. The 100 ms between a stop request and the shutdown are an item
under `m.mu` in `Manager`; requests that come in those 100 ms are the ones it takes after the item.

## 7. Plan

1. *(done)* `Channel` and its flow-control proofs; `RemoteServer`; `RemoteClient`;
   `CtrlConn`; `Manager`.
2. *(done)* `ByteStream` and the refinement; `Daemon`; `UDPProxy`, `StreamProxy`, `LocalTunnel`;
   `Identity`, `KnownHosts`, `Trust`; `ManagedClient`.
3. *(done)* The safety invariants and action properties of every component (section 5).
4. Compositions still open: `RemoteServer` and `RemoteClient` with `CtrlConn` in full, of which
   they have the wait of `closeAll` only; several clients of one tunnel.
5. Pure algorithms against reference definitions: `BackoffDelay`, the packing of register
   payloads, `parseForwardSpec`.
6. *(done)* Conservation of credit and the refinement of `ByteStream` as theorems.
