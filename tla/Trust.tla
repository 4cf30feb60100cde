-------------------------------- MODULE Trust -------------------------------
(***************************************************************************)
(* Servers with a persistent identity (Identity) and clients that trust on *)
(* first use (KnownHosts), over TLS connections: what a client sees at the *)
(* server's address is a key some listener presents.  The other hosts of   *)
(* Hosts are unrelated servers, any fingerprint of Others can show up.     *)
(***************************************************************************)
EXTENDS Integers, FiniteSets

CONSTANTS Servers, Keys, NoKey, MaxTime, Due, Life,   \* of Identity
          Clients, Tunnels, Hosts, NoFp, Of,          \* of KnownHosts
          Home,        \* the address of the servers of Identity
          Others,      \* fingerprints of other servers
          Scenarios    \* the sets of faults to look at

Faults == {"overlap", "crash", "readError", "saveError", "twoClients",
           "crashClient", "saveClient"}

ASSUME TrustAssumption ==
  /\ MaxTime \in Nat /\ Due \in Nat \ {0} /\ Life \in Nat /\ Due < Life
  /\ NoKey \notin Keys /\ NoFp \notin Keys \cup Others /\ Keys \cap Others = {}
  /\ Of \in [Tunnels -> Clients]
  /\ Home \in Hosts
  /\ Scenarios \subseteq SUBSET Faults

VARIABLES now, keyFile, certFile, generated, idpc, key, cert, cache, served,
          announced, faults,
          hostsFile, up, entries, khpc, peer, todo, trusted, everTrusted

I == INSTANCE Identity
K == INSTANCE KnownHosts WITH Fps <- Keys \cup Others

identity == <<now, keyFile, certFile, generated, idpc, key, cert, cache,
              served, announced, faults>>
knownHosts == <<hostsFile, up, entries, khpc, peer, todo, trusted, everTrusted>>
vars == <<identity, knownHosts>>

Init == faults \in Scenarios /\ I!Init /\ K!Init

ServerStep == I!Next /\ UNCHANGED knownHosts

(* Without "twoClients", one client process at a time. *)
StartClient(q) ==
  /\ "twoClients" \in faults \/ \A r \in Clients : ~up[r]
  /\ K!LoadKnownHosts(q)
  /\ UNCHANGED identity

QuitClient(q) ==
  /\ \E midSave \in {FALSE, "crashClient" \in faults} : K!Quit(q, midSave)
  /\ UNCHANGED identity

Dial(t) ==
  /\ \/ \E f \in I!Presented : K!Dial(t, Home, f)
     \/ \E h \in Hosts, f \in Others : K!Dial(t, h, f)
  /\ UNCHANGED identity

TLSDial(t) == K!TLSDial(t) /\ UNCHANGED identity

SaveFails(t) ==
  /\ "saveClient" \in faults
  /\ K!SaveFails(t)
  /\ UNCHANGED identity

Next ==
  \/ ServerStep
  \/ \E q \in Clients : StartClient(q) \/ QuitClient(q)
  \/ \E t \in Tunnels : Dial(t) \/ TLSDial(t) \/ SaveFails(t)

Spec == Init /\ [][Next]_vars

(* The one type invariant. *)
TypeOK == I!TypeOK /\ K!TypeOK

Without(fs) == faults \cap fs = {}

(* The fingerprint a server logs is the one of the certificate it serves,  *)
(* whatever another process does to the files meanwhile.                   *)
HonestFingerprint == I!HonestFingerprint

(* Tunnels of one process agree on the fingerprint of a host, in every     *)
(* scenario.                                                               *)
OneFingerprint == K!OneFingerprint

(* Pins outlive the process, unless client processes overlap or a save     *)
(* fails or is cut short.                                                  *)
PinsKept == Without({"twoClients", "crashClient", "saveClient"}) => K!PinsKept

(* A client never turns the servers away because of the servers: rotation, *)
(* restarts and crashes do not look like a new host.  Whoever refuses a    *)
(* key of theirs has pinned somebody else's at their address.              *)
Refuses(t) ==
  /\ khpc[t] \in {"verify", "accept"} /\ khpc'[t] = "idle"
  /\ up'[Of[t]] /\ peer[t] \notin trusted'[Of[t]]
NeverTurnedAway ==
  [][Without({"overlap", "readError"}) =>
       \A t \in Tunnels : Refuses(t) /\ peer[t].host = Home /\ peer[t].fp \in Keys =>
         entries[Of[t]][Home] \in Others]_vars

(* What does not hold once processes overlap, a read of the key file       *)
(* fails, or a save of known_hosts is cut short or fails: README.md says   *)
(* that the identity is stable and a changed fingerprint is refused.       *)
IdentityKept == I!IdentityKept
PinnedForEver == K!PinsKept

(* A long-running server does not present an expired certificate           *)
(* (identity.go:29).                                                       *)
NeverExpired == I!NeverExpired
=============================================================================
