----------------------------- MODULE KnownHosts -----------------------------
(***************************************************************************)
(* Trust on first use, relay/knownhosts.go and verifyServerFingerprint     *)
(* (relay/tls.go): the fingerprints a client process has recorded, in      *)
(* memory under kh.mu, and the file all client processes share.  The       *)
(* tunnels of one process share one store.                                 *)
(***************************************************************************)
EXTENDS Integers, FiniteSets

CONSTANTS
  Clients,     \* client processes
  Tunnels,     \* tunnels that dial a server
  Hosts,       \* server addresses
  Fps,         \* fingerprints
  NoFp,
  Of           \* Of[t]: the process of tunnel t

VARIABLES
  hostsFile,   \* known_hosts: the fingerprint of each host, or NoFp
  up,          \* up[q]: is process q running
  entries,     \* entries[q]: kh.entries
  khpc,        \* khpc[t]: where tunnel t is in TLSDial
  peer,        \* peer[t]: the host it dialled and the fingerprint it saw
  todo,        \* todo[t]: the lines saveLocked has still to write
  trusted,     \* trusted[q]: history: what q let through since it started
  everTrusted  \* history: what any process ever let through

trust == <<hostsFile, up, entries, khpc, peer, todo, trusted, everTrusted>>

Pair == [host : Hosts, fp : Fps]
NoHosts == [h \in Hosts |-> NoFp]
NoPeer == [host |-> NoFp, fp |-> NoFp]

(* The one type invariant. *)
TypeOK ==
  /\ hostsFile \in [Hosts -> Fps \cup {NoFp}]
  /\ up \in [Clients -> BOOLEAN]
  /\ entries \in [Clients -> [Hosts -> Fps \cup {NoFp}]]
  /\ khpc \in [Tunnels -> {"idle", "verify", "accept", "create", "write"}]
  /\ peer \in [Tunnels -> Pair \cup {NoPeer}]
  /\ todo \in [Tunnels -> SUBSET Hosts]
  /\ trusted \in [Clients -> SUBSET Pair]
  /\ everTrusted \subseteq Pair

Init ==
  /\ hostsFile = NoHosts
  /\ up = [q \in Clients |-> FALSE]
  /\ entries = [q \in Clients |-> NoHosts]
  /\ khpc = [t \in Tunnels |-> "idle"]
  /\ peer = [t \in Tunnels |-> NoPeer]
  /\ todo = [t \in Tunnels |-> {}]
  /\ trusted = [q \in Clients |-> {}]
  /\ everTrusted = {}

-----------------------------------------------------------------------------
Mine(t) == entries[Of[t]][peer[t].host]

(* kh.mu is held from Accept to the end of saveLocked. *)
Free(q) == \A t \in Tunnels : Of[t] = q => khpc[t] \notin {"create", "write"}

Move(t, from, to) == khpc[t] = from /\ khpc' = [khpc EXCEPT ![t] = to]

LetThrough(t) ==
  /\ trusted' = [trusted EXCEPT ![Of[t]] = @ \cup {peer[t]}]
  /\ everTrusted' = everTrusted \cup {peer[t]}
  /\ peer' = [peer EXCEPT ![t] = NoPeer]

Refuse(t) ==
  /\ peer' = [peer EXCEPT ![t] = NoPeer]
  /\ UNCHANGED <<trusted, everTrusted>>

(* LoadKnownHosts at the start of the process. *)
LoadKnownHosts(q) ==
  /\ ~up[q]
  /\ up' = [up EXCEPT ![q] = TRUE]
  /\ entries' = [entries EXCEPT ![q] = hostsFile]
  /\ UNCHANGED <<hostsFile, khpc, peer, todo, trusted, everTrusted>>

(* The process exits, or is killed in the middle of a save. *)
Quit(q, midSave) ==
  /\ up[q] /\ (midSave \/ Free(q))
  /\ up' = [up EXCEPT ![q] = FALSE]
  /\ entries' = [entries EXCEPT ![q] = NoHosts]
  /\ khpc' = [t \in Tunnels |-> IF Of[t] = q THEN "idle" ELSE khpc[t]]
  /\ peer' = [t \in Tunnels |-> IF Of[t] = q THEN NoPeer ELSE peer[t]]
  /\ todo' = [t \in Tunnels |-> IF Of[t] = q THEN {} ELSE todo[t]]
  /\ trusted' = [trusted EXCEPT ![q] = {}]
  /\ UNCHANGED <<hostsFile, everTrusted>>

(* tls.Dial has returned with the server's certificate. *)
Dial(t, h, f) ==
  /\ up[Of[t]]
  /\ Move(t, "idle", "verify")
  /\ peer' = [peer EXCEPT ![t] = [host |-> h, fp |-> f]]
  /\ UNCHANGED <<hostsFile, up, entries, todo, trusted, everTrusted>>

Verify(t) ==
  /\ Move(t, "verify", "idle")
  /\ Free(Of[t]) /\ Mine(t) # NoFp
  /\ IF Mine(t) = peer[t].fp THEN LetThrough(t) ELSE Refuse(t)
  /\ UNCHANGED <<hostsFile, up, entries, todo>>

(* ErrUnknownHost: Accept is a critical section of its own ... *)
VerifyUnknown(t) ==
  /\ Move(t, "verify", "accept")
  /\ Free(Of[t]) /\ Mine(t) = NoFp
  /\ UNCHANGED <<hostsFile, up, entries, peer, todo, trusted, everTrusted>>

(* ... that looks again. *)
Mismatch_unchecked(t) == FALSE
Mismatch(t) == Mine(t) # NoFp /\ Mine(t) # peer[t].fp

Accept(t) ==
  /\ Move(t, "accept", "create")
  /\ Free(Of[t]) /\ ~Mismatch(t)
  /\ entries' = [entries EXCEPT ![Of[t]][peer[t].host] = peer[t].fp]
  /\ UNCHANGED <<hostsFile, up, peer, todo, trusted, everTrusted>>

AcceptMismatch(t) ==
  /\ Move(t, "accept", "idle")
  /\ Free(Of[t]) /\ Mismatch(t)
  /\ Refuse(t)
  /\ UNCHANGED <<hostsFile, up, entries, todo>>

(* saveLocked: os.Create empties the file, then it is written line by line.*)
SavedHosts_nothing(t) == {}
SavedHosts(t) == {h \in Hosts : entries[Of[t]][h] # NoFp}

Create(t) ==
  /\ Move(t, "create", "write")
  /\ hostsFile' = NoHosts
  /\ todo' = [todo EXCEPT ![t] = SavedHosts(t)]
  /\ UNCHANGED <<up, entries, peer, trusted, everTrusted>>

(* The save fails: the dial is refused, the entry stays in memory. *)
SaveFails(t) ==
  /\ khpc[t] \in {"create", "write"}
  /\ khpc' = [khpc EXCEPT ![t] = "idle"]
  /\ todo' = [todo EXCEPT ![t] = {}]
  /\ Refuse(t)
  /\ UNCHANGED <<hostsFile, up, entries>>

WriteLine(t, h) ==
  /\ khpc[t] = "write" /\ h \in todo[t]
  /\ hostsFile' = [hostsFile EXCEPT ![h] = entries[Of[t]][h]]
  /\ todo' = [todo EXCEPT ![t] = @ \ {h}]
  /\ UNCHANGED <<up, entries, khpc, peer, trusted, everTrusted>>

Saved(t) ==
  /\ todo[t] = {}
  /\ Move(t, "write", "idle")
  /\ LetThrough(t)
  /\ UNCHANGED <<hostsFile, up, entries, todo>>

TLSDial(t) ==
  \/ Verify(t) \/ VerifyUnknown(t) \/ Accept(t) \/ AcceptMismatch(t)
  \/ Create(t) \/ \E h \in Hosts : WriteLine(t, h)
  \/ Saved(t)

-----------------------------------------------------------------------------
(* Properties *)

OneEach(pairs) == \A x, y \in pairs : x.host = y.host => x = y

(* The tunnels of one process never trust two fingerprints for one host,   *)
(* even when they meet it for the first time at the same moment.           *)
OneFingerprint == \A q \in Clients : OneEach(trusted[q])

(* A fingerprint once trusted is the only one ever trusted for that host,  *)
(* over restarts too.                                                      *)
PinsKept == OneEach(everTrusted)
=============================================================================
