------------------------------ MODULE Identity ------------------------------
(***************************************************************************)
(* The persistent TLS identity of a server, relay/identity.go: a long-     *)
(* lived key and a certificate that is renewed, in two files that every    *)
(* tunnel process of the user shares.  identityMu orders the tunnels of    *)
(* one process; nothing orders two processes.                              *)
(*                                                                         *)
(* A key stands for its fingerprint as well.  A file that is missing,      *)
(* truncated or half written reads as no key and no certificate.           *)
(***************************************************************************)
EXTENDS Integers, FiniteSets

CONSTANTS
  Servers,     \* server processes
  Keys,        \* keys that can be generated
  NoKey,
  MaxTime,     \* bound: how long the model runs
  Due, Life    \* age at which a certificate is renewed, and at which it expires

VARIABLES
  now,         \* the time
  keyFile,     \* cert-key.pem: a key or NoKey
  certFile,    \* cert.pem: a certificate, with NoKey when there is none
  generated,   \* keys generated so far
  idpc,        \* idpc[p]: where process p is in LoadOrGenerateIdentity
  key,         \* key[p]: the identity key it works with
  cert,        \* cert[p]: the certificate it has read or made
  cache,       \* cache[p]: identityCache: an entry, NoEntry or ErrEntry
  served,      \* served[p]: entries its listeners were given
  announced,   \* history: keys that some listener presented
  faults       \* what may go wrong in this behaviour

identity == <<now, keyFile, certFile, generated, idpc, key, cert, cache,
              served, announced, faults>>

Cert == [key : Keys \cup {NoKey}, born : 0..MaxTime]
NoCert == [key |-> NoKey, born |-> 0]
Entry(c, fp) == [cert |-> c, fp |-> fp]
NoEntry == Entry(NoCert, NoKey)
ErrEntry == Entry([key |-> NoKey, born |-> MaxTime], NoKey)

(* The one type invariant. *)
TypeOK ==
  /\ now \in 0..MaxTime
  /\ keyFile \in Keys \cup {NoKey} /\ certFile \in Cert
  /\ generated \subseteq Keys /\ announced \subseteq Keys
  /\ idpc \in [Servers -> {"off", "idle", "loadKey", "createKey", "writeKey",
                           "readCert", "readKey", "createCert", "writeCert"}]
  /\ key \in [Servers -> Keys \cup {NoKey}]
  /\ cert \in [Servers -> Cert]
  /\ cache \in [Servers -> [cert : Cert, fp : Keys \cup {NoKey}]]
  /\ served \in [Servers -> SUBSET [cert : Cert, fp : Keys]]

Init ==
  /\ now = 0
  /\ keyFile = NoKey /\ certFile = NoCert
  /\ generated = {} /\ announced = {}
  /\ idpc = [p \in Servers |-> "off"]
  /\ key = [p \in Servers |-> NoKey]
  /\ cert = [p \in Servers |-> NoCert]
  /\ cache = [p \in Servers |-> NoEntry]
  /\ served = [p \in Servers |-> {}]

-----------------------------------------------------------------------------
At(p, from, to) == idpc[p] = from /\ idpc' = [idpc EXCEPT ![p] = to]

(* Without "overlap", one process at a time sets up its identity. *)
MayBegin(p) ==
  "overlap" \in faults \/ \A q \in Servers : idpc[q] \in {"off", "idle"}

Launch(p) ==
  /\ At(p, "off", "idle")
  /\ UNCHANGED <<now, keyFile, certFile, generated, key, cert, cache, served,
                 announced, faults>>

(* Exit, or a crash in the middle of the work. *)
Quit(p) ==
  /\ idpc[p] = "idle" \/ (idpc[p] # "off" /\ "crash" \in faults)
  /\ idpc' = [idpc EXCEPT ![p] = "off"]
  /\ key' = [key EXCEPT ![p] = NoKey]
  /\ cert' = [cert EXCEPT ![p] = NoCert]
  /\ cache' = [cache EXCEPT ![p] = NoEntry]
  /\ served' = [served EXCEPT ![p] = {}]
  /\ UNCHANGED <<now, keyFile, certFile, generated, announced, faults>>

(* certNeedsRotation and the expiry check of tryLoadCert. *)
NeedsRotation(c) == now - c.born >= Due

(* LoadOrGenerateIdentity finds an entry: an error stays an error. *)
Cached(p) == cache[p] = ErrEntry \/ (cache[p] # NoEntry /\ ~NeedsRotation(cache[p].cert))

UseCached(p) ==
  /\ idpc[p] = "idle" /\ Cached(p) /\ cache[p] # ErrEntry
  /\ served' = [served EXCEPT ![p] = @ \cup {cache[p]}]
  /\ UNCHANGED <<now, keyFile, certFile, generated, idpc, key, cert, cache,
                 announced, faults>>

BeginLoad(p) ==
  /\ MayBegin(p) /\ ~Cached(p)
  /\ At(p, "idle", "loadKey")
  /\ cache' = [cache EXCEPT ![p] = NoEntry]
  /\ UNCHANGED <<now, keyFile, certFile, generated, key, cert, served,
                 announced, faults>>

-----------------------------------------------------------------------------
(* loadOrGenerateIdentityLocked *)

(* loadIdentityKey: what counts as a persisted key. *)
KeyOnDisk_ifCertIsFresh ==
  IF NeedsRotation(certFile) THEN NoKey ELSE keyFile
KeyOnDisk == keyFile

loadIdentityKey(p) ==
  /\ KeyOnDisk # NoKey
  /\ At(p, "loadKey", "readCert")
  /\ key' = [key EXCEPT ![p] = KeyOnDisk]
  /\ UNCHANGED <<now, keyFile, certFile, generated, cert, cache, served,
                 announced, faults>>

(* Any error of loadIdentityKey, whatever its reason, means a new key. *)
GenerateKey(p, k) ==
  /\ KeyOnDisk = NoKey \/ "readError" \in faults
  /\ k \notin generated
  /\ At(p, "loadKey", "createKey")
  /\ generated' = generated \cup {k}
  /\ key' = [key EXCEPT ![p] = k]
  /\ UNCHANGED <<now, keyFile, certFile, cert, cache, served, announced, faults>>

(* saveIdentityKey and saveIdentityCert: os.WriteFile truncates the file,  *)
(* then writes it.                                                         *)
CreateKey(p) ==
  /\ At(p, "createKey", "writeKey")
  /\ keyFile' = NoKey
  /\ UNCHANGED <<now, certFile, generated, key, cert, cache, served, announced,
                 faults>>

WriteKey(p) ==
  /\ At(p, "writeKey", "readCert")
  /\ keyFile' = key[p]
  /\ UNCHANGED <<now, certFile, generated, key, cert, cache, served, announced,
                 faults>>

(* The directory cannot be made (MkdirAll, before the key is read), or a   *)
(* file cannot be created or written: the error is cached.                 *)
SaveFails(p) ==
  /\ "saveError" \in faults
  /\ idpc[p] \in {"loadKey", "createKey", "writeKey", "createCert", "writeCert"}
  /\ idpc' = [idpc EXCEPT ![p] = "idle"]
  /\ cache' = [cache EXCEPT ![p] = ErrEntry]
  /\ key' = [key EXCEPT ![p] = NoKey]
  /\ cert' = [cert EXCEPT ![p] = NoCert]
  /\ UNCHANGED <<now, keyFile, certFile, generated, served, announced, faults>>

(* tryLoadCert: LoadX509KeyPair reads the certificate and then the key     *)
(* file once more, wants the two to match, and the certificate must be     *)
(* for the key loaded before.                                              *)
Usable_unmatched(p) ==
  cert[p].key # NoKey /\ cert[p].key = keyFile /\ ~NeedsRotation(cert[p])
Usable(p) ==
  /\ cert[p].key # NoKey /\ cert[p].key = keyFile
  /\ ~NeedsRotation(cert[p])
  /\ cert[p].key = key[p]

ReadCert(p) ==
  /\ At(p, "readCert", "readKey")
  /\ cert' = [cert EXCEPT ![p] = certFile]
  /\ UNCHANGED <<now, keyFile, certFile, generated, key, cache, served,
                 announced, faults>>

(* The result is cached and given to the listener of the tunnel. *)
Serve(p, c) ==
  /\ cache' = [cache EXCEPT ![p] = Entry(c, key[p])]
  /\ served' = [served EXCEPT ![p] = @ \cup {Entry(c, key[p])}]
  /\ announced' = announced \cup {c.key}
  /\ key' = [key EXCEPT ![p] = NoKey]
  /\ cert' = [cert EXCEPT ![p] = NoCert]

LoadedCert(p) ==
  /\ Usable(p)
  /\ At(p, "readKey", "idle")
  /\ Serve(p, cert[p])
  /\ UNCHANGED <<now, keyFile, certFile, generated, faults>>

generateCertWithKey(p) ==
  /\ ~Usable(p)
  /\ At(p, "readKey", "createCert")
  /\ cert' = [cert EXCEPT ![p] = [key |-> key[p], born |-> now]]
  /\ UNCHANGED <<now, keyFile, certFile, generated, key, cache, served,
                 announced, faults>>

CreateCert(p) ==
  /\ At(p, "createCert", "writeCert")
  /\ certFile' = NoCert
  /\ UNCHANGED <<now, keyFile, generated, key, cert, cache, served, announced,
                 faults>>

WriteCert(p) ==
  /\ At(p, "writeCert", "idle")
  /\ certFile' = cert[p]
  /\ Serve(p, cert[p])
  /\ UNCHANGED <<now, keyFile, generated, faults>>

(* Time passes while nobody is in the middle of the work. *)
Pass ==
  /\ now < MaxTime
  /\ \A p \in Servers : idpc[p] \in {"off", "idle"}
  /\ now' = now + 1
  /\ UNCHANGED <<keyFile, certFile, generated, idpc, key, cert, cache, served,
                 announced, faults>>

Next ==
  \/ Pass
  \/ \E p \in Servers :
       \/ Launch(p) \/ Quit(p) \/ UseCached(p) \/ BeginLoad(p)
       \/ loadIdentityKey(p) \/ \E k \in Keys : GenerateKey(p, k)
       \/ CreateKey(p) \/ WriteKey(p) \/ SaveFails(p)
       \/ ReadCert(p) \/ LoadedCert(p) \/ generateCertWithKey(p)
       \/ CreateCert(p) \/ WriteCert(p)

-----------------------------------------------------------------------------
(* Properties *)

Presented == UNION {{e.cert.key : e \in served[p]} : p \in Servers}

(* The fingerprint a server logs for its users to pin is the one of the    *)
(* certificate its listener presents, even when another process replaces   *)
(* both files while it loads them.                                         *)
HonestFingerprint ==
  \A p \in Servers : \A e \in served[p] : e.cert.key = e.fp

(* The identity is stable: whatever crashes, restarts, failed writes and   *)
(* renewals happen, all listeners ever present one and the same key.       *)
IdentityKept == Cardinality(announced) <= 1

(* "This keeps a long-running server from hitting an expired cert at       *)
(* runtime" (identity.go:29).                                              *)
NeverExpired ==
  \A p \in Servers : \A e \in served[p] : now - e.cert.born < Life
=============================================================================
