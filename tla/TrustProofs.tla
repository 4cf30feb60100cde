----------------------------- MODULE TrustProofs ----------------------------
(***************************************************************************)
(* Proofs about Trust, for any number of servers, clients, tunnels, hosts  *)
(* and keys, in every scenario of faults: what a server logs is what it    *)
(* serves; the tunnels of a process agree on a host; pins outlive the      *)
(* process; one identity is kept and its clients never turn it away.       *)
(***************************************************************************)
EXTENDS Trust, FiniteSetTheorems, TLAPS

-----------------------------------------------------------------------------
(* The servers *)

KeySteps == {"createKey", "writeKey"}
CertSteps == {"readCert", "readKey", "createCert", "writeCert"}

(* A process that is past loadKey has an identity key. *)
HasKey ==
  \A p \in Servers : idpc[p] \in KeySteps \cup CertSteps => key[p] \in Keys

(* A certificate made by generateCertWithKey is for the process's key. *)
CertForKey ==
  \A p \in Servers : idpc[p] \in {"createCert", "writeCert"} => cert[p].key = key[p]

(* A cached or served entry: its fingerprint is the one of its certificate *)
(* and some listener has presented it.                                     *)
Honest(e, shown) == e.fp \in Keys /\ e.cert.key = e.fp /\ e.fp \in shown
CacheHonest ==
  \A p \in Servers : cache[p] \in {I!NoEntry, I!ErrEntry} \/ Honest(cache[p], announced)
ServedHonest == \A p \in Servers : \A e \in served[p] : Honest(e, announced)

ServerInv == I!TypeOK /\ HasKey /\ CertForKey /\ CacheHonest /\ ServedHonest

(* Two facts about the records of Identity. *)
LEMMA CertFields ==
  ASSUME NEW c \in I!Cert
  PROVE  c.key \in Keys \cup {NoKey} /\ c.born \in 0..MaxTime
BY DEF I!Cert

LEMMA CertMade ==
  ASSUME NEW k \in Keys \cup {NoKey}, NEW b \in 0..MaxTime
  PROVE  [key |-> k, born |-> b] \in I!Cert
BY DEF I!Cert

LEMMA EntryFields ==
  ASSUME NEW c, NEW k
  PROVE  I!Entry(c, k).cert = c /\ I!Entry(c, k).fp = k
BY DEF I!Entry

LEMMA EntryMade ==
  ASSUME NEW c \in I!Cert, NEW k
  PROVE  /\ k \in Keys => I!Entry(c, k) \in [cert : I!Cert, fp : Keys]
         /\ k \in Keys \cup {NoKey} =>
              I!Entry(c, k) \in [cert : I!Cert, fp : Keys \cup {NoKey}]
BY DEF I!Entry

LEMMA NoEntries ==
  /\ I!NoCert \in I!Cert
  /\ I!NoEntry \in [cert : I!Cert, fp : Keys \cup {NoKey}]
  /\ I!ErrEntry \in [cert : I!Cert, fp : Keys \cup {NoKey}]
<1>1. MaxTime \in Nat /\ 0 \in 0..MaxTime /\ MaxTime \in 0..MaxTime
  BY TrustAssumption
<1>2. I!NoCert \in I!Cert
  BY <1>1, CertMade DEF I!NoCert
<1>3. [key |-> NoKey, born |-> MaxTime] \in I!Cert
  BY <1>1, CertMade
<1> QED BY <1>2, <1>3, EntryMade DEF I!NoEntry, I!ErrEntry

LEMMA ServerStart == Init => ServerInv
<1> SUFFICES ASSUME Init PROVE ServerInv
  OBVIOUS
<1>1. MaxTime \in Nat /\ 0 \in 0..MaxTime
  BY TrustAssumption
<1>2. I!TypeOK
  BY <1>1, NoEntries DEF Init, I!Init, I!TypeOK
<1> QED BY <1>2 DEF Init, I!Init, ServerInv, HasKey, CertForKey, CacheHonest,
              ServedHonest, KeySteps, CertSteps

(* A step that leaves the server's variables alone. *)
LEMMA ServerStays == ServerInv /\ UNCHANGED identity => ServerInv'
BY DEF ServerInv, identity, I!TypeOK, HasKey, CertForKey, CacheHonest,
       ServedHonest, Honest, I!NoEntry, I!ErrEntry, I!NoCert, I!Entry, I!Cert

(* Serve: the new entry is honest, because the certificate is the key's. *)
LEMMA Serving ==
  ASSUME ServerInv, NEW p \in Servers, NEW c \in I!Cert, c.key = key[p],
         key[p] \in Keys, I!Serve(p, c),
         idpc' = [idpc EXCEPT ![p] = "idle"],
         UNCHANGED <<now, keyFile, generated, faults>>, certFile' \in I!Cert
  PROVE  ServerInv'
<1> USE DEF I!Serve
<1> DEFINE e == I!Entry(c, key[p])
<1>1. e.fp = key[p] /\ e.cert = c /\ e \in [cert : I!Cert, fp : Keys]
      /\ e \in [cert : I!Cert, fp : Keys \cup {NoKey}]
  BY EntryFields, EntryMade
<1>2. cache' = [cache EXCEPT ![p] = e] /\ served' = [served EXCEPT ![p] = @ \cup {e}]
      /\ announced' = announced \cup {key[p]}
  OBVIOUS
<1> HIDE DEF e
<1>3. Honest(e, announced')
  BY <1>1, <1>2 DEF Honest
<1>4. \A x : Honest(x, announced) => Honest(x, announced')
  BY <1>2 DEF Honest
<1>5. I!TypeOK'
  <2>1. I!NoCert \in I!Cert BY NoEntries
  <2> QED BY <1>1, <1>2, <2>1 DEF ServerInv, I!TypeOK
<1>6. HasKey' /\ CertForKey'
  BY DEF ServerInv, I!TypeOK, HasKey, CertForKey, KeySteps, CertSteps
<1>7. CacheHonest'
  BY <1>2, <1>3, <1>4 DEF ServerInv, I!TypeOK, CacheHonest
<1>8. ServedHonest'
  <2> SUFFICES ASSUME NEW q \in Servers, NEW x \in served'[q]
               PROVE  Honest(x, announced')
    BY DEF ServedHonest
  <2>1. x \in served[q] \/ x = e
    BY <1>2 DEF ServerInv, I!TypeOK
  <2> QED BY <2>1, <1>3, <1>4 DEF ServerInv, ServedHonest
<1> QED BY <1>5, <1>6, <1>7, <1>8 DEF ServerInv

(* Every step of the servers keeps their invariant. *)
LEMMA ServerKeeps == ServerInv /\ I!Next => ServerInv'
<1> USE NoEntries
<1>1. ASSUME ServerInv, I!Pass PROVE ServerInv'
  <2>1. now' \in 0..MaxTime
    BY <1>1, TrustAssumption DEF I!Pass, ServerInv, I!TypeOK
  <2> QED BY <1>1, <2>1 DEF I!Pass, ServerInv, I!TypeOK, HasKey, CertForKey,
              CacheHonest, ServedHonest
<1>2. ASSUME ServerInv, NEW p \in Servers, I!Launch(p) PROVE ServerInv'
  BY <1>2 DEF I!Launch, I!At, ServerInv, I!TypeOK, HasKey, CertForKey,
              CacheHonest, ServedHonest, KeySteps, CertSteps
<1>3. ASSUME ServerInv, NEW p \in Servers, I!Quit(p) PROVE ServerInv'
  BY <1>3 DEF I!Quit, ServerInv, I!TypeOK, HasKey, CertForKey,
              CacheHonest, ServedHonest, KeySteps, CertSteps
<1>4. ASSUME ServerInv, NEW p \in Servers, I!UseCached(p) PROVE ServerInv'
  <2>1. Honest(cache[p], announced)
    BY <1>4 DEF I!UseCached, I!Cached, ServerInv, CacheHonest
  <2>2. cache[p] \in [cert : I!Cert, fp : Keys]
    BY <1>4, <2>1 DEF Honest, ServerInv, I!TypeOK
  <2>3. I!TypeOK'
    BY <1>4, <2>2 DEF I!UseCached, ServerInv, I!TypeOK
  <2>4. ServedHonest'
    BY <1>4, <2>1 DEF I!UseCached, ServerInv, I!TypeOK, ServedHonest
  <2> QED BY <1>4, <2>3, <2>4 DEF I!UseCached, ServerInv, HasKey, CertForKey,
              CacheHonest
<1>5. ASSUME ServerInv, NEW p \in Servers, I!BeginLoad(p) PROVE ServerInv'
  BY <1>5 DEF I!BeginLoad, I!At, ServerInv, I!TypeOK, HasKey, CertForKey,
              CacheHonest, ServedHonest, KeySteps, CertSteps
<1>6. ASSUME ServerInv, NEW p \in Servers, I!loadIdentityKey(p) PROVE ServerInv'
  BY <1>6 DEF I!loadIdentityKey, I!KeyOnDisk, I!At, ServerInv, I!TypeOK, HasKey,
              CertForKey, CacheHonest, ServedHonest, KeySteps, CertSteps
<1>7. ASSUME ServerInv, NEW p \in Servers, NEW k \in Keys, I!GenerateKey(p, k)
      PROVE  ServerInv'
  BY <1>7 DEF I!GenerateKey, I!At, ServerInv, I!TypeOK, HasKey,
              CertForKey, CacheHonest, ServedHonest, KeySteps, CertSteps
<1>8. ASSUME ServerInv, NEW p \in Servers, I!CreateKey(p) PROVE ServerInv'
  BY <1>8 DEF I!CreateKey, I!At, ServerInv, I!TypeOK, HasKey,
              CertForKey, CacheHonest, ServedHonest, KeySteps, CertSteps
<1>9. ASSUME ServerInv, NEW p \in Servers, I!WriteKey(p) PROVE ServerInv'
  BY <1>9 DEF I!WriteKey, I!At, ServerInv, I!TypeOK, HasKey,
              CertForKey, CacheHonest, ServedHonest, KeySteps, CertSteps
<1>10. ASSUME ServerInv, NEW p \in Servers, I!SaveFails(p) PROVE ServerInv'
  BY <1>10 DEF I!SaveFails, ServerInv, I!TypeOK, HasKey,
               CertForKey, CacheHonest, ServedHonest, KeySteps, CertSteps
<1>11. ASSUME ServerInv, NEW p \in Servers, I!ReadCert(p) PROVE ServerInv'
  BY <1>11 DEF I!ReadCert, I!At, ServerInv, I!TypeOK, HasKey,
               CertForKey, CacheHonest, ServedHonest, KeySteps, CertSteps
<1>12. ASSUME ServerInv, NEW p \in Servers, I!LoadedCert(p) PROVE ServerInv'
  <2>1. cert[p] \in I!Cert /\ cert[p].key = key[p] /\ key[p] \in Keys
        /\ certFile' \in I!Cert
    BY <1>12 DEF I!LoadedCert, I!At, I!Usable, ServerInv, I!TypeOK, HasKey, CertSteps
  <2> QED BY <1>12, <2>1, Serving DEF I!LoadedCert, I!At
<1>13. ASSUME ServerInv, NEW p \in Servers, I!generateCertWithKey(p) PROVE ServerInv'
  <2>1. [key |-> key[p], born |-> now] \in I!Cert
    BY <1>13, CertMade DEF ServerInv, I!TypeOK
  <2> QED BY <1>13, <2>1 DEF I!generateCertWithKey, I!At, ServerInv, I!TypeOK,
        HasKey, CertForKey, CacheHonest, ServedHonest, KeySteps, CertSteps
<1>14. ASSUME ServerInv, NEW p \in Servers, I!CreateCert(p) PROVE ServerInv'
  BY <1>14 DEF I!CreateCert, I!At, ServerInv, I!TypeOK, HasKey,
               CertForKey, CacheHonest, ServedHonest, KeySteps, CertSteps
<1>15. ASSUME ServerInv, NEW p \in Servers, I!WriteCert(p) PROVE ServerInv'
  <2>1. cert[p] \in I!Cert /\ cert[p].key = key[p] /\ key[p] \in Keys
        /\ certFile' \in I!Cert
    BY <1>15 DEF I!WriteCert, I!At, ServerInv, I!TypeOK, HasKey, CertForKey, CertSteps
  <2> QED BY <1>15, <2>1, Serving DEF I!WriteCert, I!At
<1> QED BY <1>1, <1>2, <1>3, <1>4, <1>5, <1>6, <1>7, <1>8, <1>9, <1>10, <1>11,
           <1>12, <1>13, <1>14, <1>15 DEF I!Next

-----------------------------------------------------------------------------
(* The clients *)

Fps == Keys \cup Others
Saving(t) == khpc[t] \in {"create", "write"}

(* A tunnel in the middle of TLSDial: its process runs and it has seen a   *)
(* host and a fingerprint.                                                 *)
Dialling ==
  \A t \in Tunnels : khpc[t] # "idle" => up[Of[t]] /\ peer[t] \in K!Pair

(* kh.mu: one tunnel of a process at most saves the store. *)
OneSaver ==
  \A t, u \in Tunnels : Saving(t) /\ Saving(u) /\ Of[t] = Of[u] => t = u

(* What a tunnel saves the store for is in the store. *)
SavesItsOwn ==
  \A t \in Tunnels : Saving(t) => entries[Of[t]][peer[t].host] = peer[t].fp

(* What a process let through is in its store. *)
TrustsItsStore ==
  \A q \in Clients : \A x \in trusted[q] : up[q] /\ entries[q][x.host] = x.fp

ClientInv == K!TypeOK /\ Dialling /\ OneSaver /\ SavesItsOwn /\ TrustsItsStore

(* Facts about the pairs a tunnel sees. *)
LEMMA PairFields ==
  ASSUME NEW x \in K!Pair
  PROVE  x.host \in Hosts /\ x.fp \in Fps /\ x.fp # NoFp
BY TrustAssumption DEF K!Pair, Fps

LEMMA PairMade ==
  ASSUME NEW h \in Hosts, NEW f \in Fps
  PROVE  [host |-> h, fp |-> f] \in K!Pair
BY DEF K!Pair, Fps

LEMMA PairsDiffer ==
  ASSUME NEW x \in K!Pair, NEW y \in K!Pair, x.host = y.host, x.fp = y.fp
  PROVE  x = y
BY DEF K!Pair

LEMMA OfClient == \A t \in Tunnels : Of[t] \in Clients
BY TrustAssumption

LEMMA NoHostsTyped == K!NoHosts \in [Hosts -> Keys \cup Others \cup {NoFp}]
BY DEF K!NoHosts

LEMMA ClientStart == Init => ClientInv
BY NoHostsTyped DEF Init, K!Init, ClientInv, K!TypeOK, Dialling, OneSaver, SavesItsOwn,
       TrustsItsStore, Saving

LEMMA ClientStays == ClientInv /\ UNCHANGED knownHosts => ClientInv'
BY DEF ClientInv, knownHosts, K!TypeOK, Dialling, OneSaver, SavesItsOwn,
       TrustsItsStore, Saving

(* Every step of a client keeps the invariant.  The case to see is Accept: *)
(* it may only overwrite the entry of its host with the same fingerprint,  *)
(* so nothing that was let through loses its place in the store.           *)
LEMMA ClientKeeps ==
  ASSUME ClientInv
  PROVE  /\ \A q \in Clients : StartClient(q) \/ QuitClient(q) => ClientInv'
         /\ \A t \in Tunnels : TLSDial(t) \/ SaveFails(t) => ClientInv'
<1> USE OfClient DEF ClientInv
<1> USE DEF K!Move
<1>1. ASSUME NEW q \in Clients, K!LoadKnownHosts(q) PROVE ClientInv'
  BY <1>1 DEF K!LoadKnownHosts, K!TypeOK, Dialling, OneSaver, SavesItsOwn,
       TrustsItsStore, Saving
<1>2. ASSUME NEW q \in Clients, NEW m, K!Quit(q, m) PROVE ClientInv'
  BY <1>2, NoHostsTyped DEF K!Quit, K!TypeOK, Dialling, OneSaver, SavesItsOwn,
       TrustsItsStore, Saving
<1>3. ASSUME NEW t \in Tunnels, K!Verify(t) PROVE ClientInv'
  <2>1. peer[t] \in K!Pair /\ up[Of[t]]
    BY <1>3 DEF K!Verify, Dialling
  <2>2. K!TypeOK'
    <3>1. CASE K!LetThrough(t)
      BY <1>3, <2>1, <3>1 DEF K!Verify, K!LetThrough, K!TypeOK
    <3>2. CASE K!Refuse(t)
      BY <1>3, <2>1, <3>2 DEF K!Verify, K!Refuse, K!TypeOK
    <3> QED BY <1>3, <3>1, <3>2 DEF K!Verify
  <2>3. TrustsItsStore'
    BY <1>3, <2>1 DEF K!Verify, K!LetThrough, K!Refuse, K!TypeOK, K!Mine, TrustsItsStore
  <2> QED BY <1>3, <2>2, <2>3 DEF K!Verify, K!LetThrough, K!Refuse, K!TypeOK, Dialling, OneSaver,
          SavesItsOwn, Saving
<1>4. ASSUME NEW t \in Tunnels, K!VerifyUnknown(t) PROVE ClientInv'
  BY <1>4 DEF K!VerifyUnknown, K!TypeOK, Dialling, OneSaver, SavesItsOwn,
       TrustsItsStore, Saving
<1>5. ASSUME NEW t \in Tunnels, K!Accept(t) PROVE ClientInv'
  <2>1. peer[t] \in K!Pair /\ up[Of[t]] /\ peer[t].host \in Hosts /\ peer[t].fp \in Fps
    BY <1>5, PairFields DEF K!Accept, Dialling
  <2>2. K!TypeOK'
    BY <1>5, <2>1 DEF K!Accept, K!TypeOK, Fps
  <2>3. \A q \in Clients, h \in Hosts :
          entries'[q][h] = entries[q][h] \/ entries[q][h] = NoFp
    BY <1>5, <2>1 DEF K!Accept, K!Mismatch, K!Mine, K!TypeOK
  <2>4. TrustsItsStore'
    <3> SUFFICES ASSUME NEW q \in Clients, NEW x \in trusted[q]
                 PROVE  up[q] /\ entries'[q][x.host] = x.fp
      BY <1>5 DEF K!Accept, TrustsItsStore
    <3>1. x \in K!Pair
      BY DEF K!TypeOK
    <3> QED BY <2>3, <3>1, PairFields DEF TrustsItsStore
  <2>5. entries'[Of[t]][peer[t].host] = peer[t].fp
    BY <1>5, <2>1 DEF K!Accept, K!TypeOK
  <2>6. OneSaver' /\ SavesItsOwn' /\ Dialling'
    BY <1>5, <2>5 DEF K!Accept, K!Free, K!TypeOK, OneSaver, SavesItsOwn, Saving, Dialling
  <2> QED BY <2>2, <2>4, <2>6
<1>6. ASSUME NEW t \in Tunnels, K!AcceptMismatch(t) PROVE ClientInv'
  BY <1>6 DEF K!AcceptMismatch, K!Refuse, K!TypeOK, Dialling, OneSaver, SavesItsOwn,
       TrustsItsStore, Saving
<1>7. ASSUME NEW t \in Tunnels, K!Create(t) PROVE ClientInv'
  <2>1. K!SavedHosts(t) \in SUBSET Hosts
    BY DEF K!SavedHosts
  <2> QED BY <1>7, <2>1, NoHostsTyped DEF K!Create, K!TypeOK, Dialling, OneSaver,
       SavesItsOwn, TrustsItsStore, Saving
<1>8. ASSUME NEW t \in Tunnels, NEW h \in Hosts, K!WriteLine(t, h) PROVE ClientInv'
  BY <1>8 DEF K!WriteLine, K!TypeOK, Dialling, OneSaver, SavesItsOwn,
       TrustsItsStore, Saving
<1>9. ASSUME NEW t \in Tunnels, K!Saved(t) PROVE ClientInv'
  <2>1. peer[t] \in K!Pair /\ up[Of[t]] /\ entries[Of[t]][peer[t].host] = peer[t].fp
    BY <1>9 DEF K!Saved, Dialling, SavesItsOwn, Saving
  <2>2. K!TypeOK'
    BY <1>9, <2>1 DEF K!Saved, K!LetThrough, K!TypeOK
  <2>3. TrustsItsStore'
    BY <1>9, <2>1 DEF K!Saved, K!LetThrough, K!TypeOK, TrustsItsStore
  <2> QED BY <1>9, <2>2, <2>3 DEF K!Saved, K!LetThrough, K!TypeOK, Dialling, OneSaver,
          SavesItsOwn, Saving
<1>10. ASSUME NEW t \in Tunnels, K!SaveFails(t) PROVE ClientInv'
  BY <1>10 DEF K!SaveFails, K!Refuse, K!TypeOK, Dialling, OneSaver, SavesItsOwn,
       TrustsItsStore, Saving
<1>11. \A t \in Tunnels : K!TLSDial(t) => ClientInv'
  BY <1>3, <1>4, <1>5, <1>6, <1>7, <1>8, <1>9 DEF K!TLSDial
<1> QED BY <1>1, <1>2, <1>10, <1>11 DEF StartClient, QuitClient, TLSDial, SaveFails

(* A dial: it sees a key that a listener presents, or somebody else's. *)
LEMMA DialSees ==
  ASSUME ServerInv, NEW t \in Tunnels, Dial(t)
  PROVE  \E h \in Hosts, f \in Fps :
           /\ K!Dial(t, h, f)
           /\ h = Home /\ f \in Keys => f \in announced
<1>1. ASSUME NEW f \in I!Presented PROVE f \in Keys /\ f \in announced
  <2>1. PICK p \in Servers : \E e \in served[p] : f = e.cert.key
    BY <1>1 DEF I!Presented
  <2> QED BY <2>1 DEF ServerInv, ServedHonest, Honest
<1>2. CASE \E f \in I!Presented : K!Dial(t, Home, f)
  BY <1>1, <1>2, TrustAssumption DEF Fps
<1>3. CASE \E h \in Hosts, f \in Others : K!Dial(t, h, f)
  BY <1>3, TrustAssumption DEF Fps
<1> QED BY <1>2, <1>3 DEF Dial

LEMMA DialKeeps ==
  ASSUME ClientInv, NEW t \in Tunnels, NEW h \in Hosts, NEW f \in Fps, K!Dial(t, h, f)
  PROVE  ClientInv'
<1>1. [host |-> h, fp |-> f] \in K!Pair
  BY PairMade
<1> QED BY <1>1, OfClient DEF K!Dial, K!Move, ClientInv, K!TypeOK, Dialling, OneSaver,
       SavesItsOwn, TrustsItsStore, Saving

-----------------------------------------------------------------------------
(* Pins outlive the process *)

(* One client process at a time. *)
OneClient == \A q, r \in Clients : up[q] /\ up[r] => q = r

(* While nobody saves, the file is the store. *)
FileIsStore == \A q \in Clients : up[q] /\ K!Free(q) => hostsFile = entries[q]

(* While a tunnel saves, the hosts it is done with are in the file. *)
Rewriting ==
  \A t \in Tunnels : khpc[t] = "write" =>
    \A h \in Hosts \ todo[t] : hostsFile[h] = entries[Of[t]][h]

(* A pin is in the store of the process that runs, or else in the file. *)
Pinned ==
  \A x \in everTrusted :
    /\ \A q \in Clients : up[q] => entries[q][x.host] = x.fp
    /\ (\A q \in Clients : ~up[q]) => hostsFile[x.host] = x.fp

PinInv == OneClient /\ FileIsStore /\ Rewriting /\ Pinned

LEMMA PinStart == Init => PinInv
BY DEF Init, K!Init, PinInv, OneClient, FileIsStore, Rewriting, Pinned

LEMMA PinStays == PinInv /\ UNCHANGED knownHosts => PinInv'
BY DEF PinInv, knownHosts, OneClient, FileIsStore, Rewriting, Pinned, K!Free

LEMMA PinImplies == ClientInv /\ PinInv => K!PinsKept
<1> SUFFICES ASSUME ClientInv, PinInv, NEW x \in everTrusted, NEW y \in everTrusted,
                    x.host = y.host
             PROVE  x = y
  BY DEF K!PinsKept, K!OneEach
<1>1. x.fp = y.fp
  BY DEF PinInv, Pinned
<1> QED BY <1>1, PairsDiffer DEF ClientInv, K!TypeOK

LEMMA PinDial ==
  ASSUME ClientInv, PinInv, NEW t \in Tunnels, NEW h, NEW f, K!Dial(t, h, f)
  PROVE  PinInv'
BY DEF ClientInv, K!Dial, K!Move, K!TypeOK, PinInv, OneClient, FileIsStore, Rewriting,
       Pinned, K!Free

LEMMA PinKeeps ==
  ASSUME ClientInv, PinInv
  PROVE  /\ \A q \in Clients :
              /\ (\A r \in Clients : ~up[r]) /\ K!LoadKnownHosts(q) => PinInv'
              /\ K!Quit(q, FALSE) => PinInv'
         /\ \A t \in Tunnels : K!TLSDial(t) => PinInv'
<1> USE OfClient DEF K!Move
<1>1. ASSUME NEW q \in Clients, \A r \in Clients : ~up[r], K!LoadKnownHosts(q)
      PROVE  PinInv'
  <2>1. \A t \in Tunnels : khpc[t] = "idle"
    BY <1>1 DEF ClientInv, Dialling, K!TypeOK
  <2>2. up'[q] /\ entries'[q] = hostsFile' /\ \A r \in Clients : up'[r] => r = q
    BY <1>1 DEF K!LoadKnownHosts, ClientInv, K!TypeOK
  <2> QED BY <1>1, <2>1, <2>2 DEF K!LoadKnownHosts, PinInv, OneClient, FileIsStore, Rewriting,
              Pinned
<1>2. ASSUME NEW q \in Clients, K!Quit(q, FALSE) PROVE PinInv'
  <2>1. up[q] /\ hostsFile = entries[q] /\ \A r \in Clients : up[r] => r = q
    BY <1>2 DEF K!Quit, PinInv, OneClient, FileIsStore
  <2>2. \A t \in Tunnels : khpc'[t] = "idle"
    BY <1>2, <2>1 DEF K!Quit, ClientInv, Dialling, K!TypeOK
  <2>3. \A r \in Clients : ~up'[r]
    BY <1>2, <2>1 DEF K!Quit, ClientInv, K!TypeOK
  <2>4. Pinned'
    BY <1>2, <2>1, <2>3 DEF K!Quit, PinInv, Pinned
  <2> QED BY <2>2, <2>3, <2>4 DEF PinInv, OneClient, FileIsStore, Rewriting
<1>3. ASSUME NEW t \in Tunnels, K!Verify(t) PROVE PinInv'
  <2>1. up[Of[t]] /\ \A q \in Clients : up[q] => q = Of[t]
    BY <1>3 DEF K!Verify, ClientInv, Dialling, PinInv, OneClient
  <2>2. Pinned'
    BY <1>3, <2>1 DEF K!Verify, K!Mine, K!LetThrough, K!Refuse, PinInv, Pinned
  <2> QED BY <1>3, <2>2 DEF K!Verify, ClientInv, K!TypeOK, PinInv, OneClient, FileIsStore,
              Rewriting, K!Free
<1>4. ASSUME NEW t \in Tunnels, K!VerifyUnknown(t) PROVE PinInv'
  BY <1>4 DEF K!VerifyUnknown, ClientInv, K!TypeOK, PinInv, OneClient, FileIsStore,
              Rewriting, Pinned, K!Free
<1>5. ASSUME NEW t \in Tunnels, K!Accept(t) PROVE PinInv'
  <2>1. peer[t] \in K!Pair /\ up[Of[t]] /\ peer[t].host \in Hosts /\ peer[t].fp \in Fps
        /\ \A q \in Clients : up[q] => q = Of[t]
    BY <1>5, PairFields DEF K!Accept, ClientInv, Dialling, PinInv, OneClient
  <2>2. \A q \in Clients, h \in Hosts :
          entries'[q][h] = entries[q][h] \/ entries[q][h] = NoFp
    BY <1>5, <2>1 DEF K!Accept, K!Mismatch, K!Mine, ClientInv, K!TypeOK
  <2>3. Pinned'
    <3> SUFFICES ASSUME NEW x \in everTrusted, NEW q \in Clients, up[q]
                 PROVE  entries'[q][x.host] = x.fp
      BY <1>5, <2>1 DEF K!Accept, Pinned
    <3>1. x \in K!Pair
      BY DEF ClientInv, K!TypeOK
    <3> QED BY <2>2, <3>1, PairFields DEF PinInv, Pinned
  <2>4. ~K!Free(Of[t])'
    BY <1>5 DEF K!Accept, K!Free, ClientInv, K!TypeOK
  <2>5. FileIsStore' /\ OneClient'
    BY <1>5, <2>1, <2>4 DEF K!Accept, FileIsStore, PinInv, OneClient
  <2>6. Rewriting'
    <3>1. \A u \in Tunnels : khpc'[u] # "write"
      BY <1>5, <2>1 DEF K!Accept, K!Free, ClientInv, K!TypeOK, Dialling
    <3> QED BY <3>1 DEF Rewriting
  <2> QED BY <2>3, <2>5, <2>6 DEF PinInv
<1>6. ASSUME NEW t \in Tunnels, K!AcceptMismatch(t) PROVE PinInv'
  BY <1>6 DEF K!AcceptMismatch, K!Refuse, ClientInv, K!TypeOK, PinInv, OneClient, FileIsStore,
              Rewriting, Pinned, K!Free
<1>7. ASSUME NEW t \in Tunnels, Saving(t)
      PROVE  /\ up[Of[t]] /\ \A q \in Clients : up[q] => q = Of[t]
             /\ \A u \in Tunnels : Saving(u) => u = t
  BY <1>7 DEF ClientInv, Dialling, OneSaver, Saving, PinInv, OneClient
<1>8. ASSUME NEW t \in Tunnels, K!Create(t) PROVE PinInv'
  <2>1. Saving(t) /\ khpc'[t] = "write"
    BY <1>8 DEF K!Create, Saving, ClientInv, K!TypeOK
  <2>2. ~K!Free(Of[t])'
    BY <2>1, <1>8 DEF K!Create, K!Free
  <2>3. Rewriting'
    <3> SUFFICES ASSUME NEW u \in Tunnels, khpc'[u] = "write", NEW h \in Hosts \ todo'[u]
                 PROVE  hostsFile'[h] = entries'[Of[u]][h]
      BY DEF Rewriting
    <3>1. u = t
      BY <1>8, <1>7, <2>1 DEF K!Create, Saving, ClientInv, K!TypeOK
    <3>2. h \notin K!SavedHosts(t)
      BY <1>8, <3>1 DEF K!Create, ClientInv, K!TypeOK
    <3> QED BY <1>8, <3>1, <3>2 DEF K!Create, K!SavedHosts, K!NoHosts
  <2> QED BY <1>7, <1>8, <2>1, <2>2, <2>3 DEF K!Create, PinInv, OneClient, FileIsStore, Pinned
<1>9. ASSUME NEW t \in Tunnels, NEW h \in Hosts, K!WriteLine(t, h) PROVE PinInv'
  <2>1. Saving(t) /\ khpc'[t] = "write"
    BY <1>9 DEF K!WriteLine, Saving
  <2>2. ~K!Free(Of[t])'
    BY <2>1, <1>9 DEF K!WriteLine, K!Free
  <2>3. Rewriting'
    <3> SUFFICES ASSUME NEW u \in Tunnels, khpc[u] = "write", NEW g \in Hosts \ todo'[u]
                 PROVE  hostsFile'[g] = entries[Of[u]][g]
      BY <1>9 DEF K!WriteLine, Rewriting
    <3>1. u = t
      BY <1>7, <2>1 DEF Saving
    <3> QED BY <1>9, <3>1 DEF K!WriteLine, ClientInv, K!TypeOK, PinInv, Rewriting
  <2> QED BY <1>7, <1>9, <2>1, <2>2, <2>3 DEF K!WriteLine, PinInv, OneClient, FileIsStore, Pinned
<1>10. ASSUME NEW t \in Tunnels, K!Saved(t) PROVE PinInv'
  <2>1. Saving(t) /\ todo[t] = {} /\ khpc[t] = "write"
        /\ entries[Of[t]][peer[t].host] = peer[t].fp
    BY <1>10 DEF K!Saved, Saving, ClientInv, SavesItsOwn
  <2>2. hostsFile = entries[Of[t]]
    BY <2>1 DEF PinInv, Rewriting, ClientInv, K!TypeOK
  <2>3. FileIsStore' /\ OneClient'
    BY <1>7, <1>10, <2>1, <2>2 DEF K!Saved, FileIsStore, PinInv, OneClient
  <2>4. Pinned'
    BY <1>7, <1>10, <2>1 DEF K!Saved, K!LetThrough, PinInv, Pinned
  <2>5. Rewriting'
    BY <1>10 DEF K!Saved, ClientInv, K!TypeOK, PinInv, Rewriting
  <2> QED BY <2>3, <2>4, <2>5 DEF PinInv
<1> QED BY <1>1, <1>2, <1>3, <1>4, <1>5, <1>6, <1>8, <1>9, <1>10 DEF K!TLSDial

-----------------------------------------------------------------------------
(* One identity *)

Busy(p) == idpc[p] \notin {"off", "idle"}

(* Without "overlap", one process at a time works on the files. *)
OneAtWork == \A p, q \in Servers : Busy(p) /\ Busy(q) => p = q

(* Whatever was presented is the key in the file. *)
PresentedIsFiled == announced \subseteq {keyFile}

(* A key is replaced only before any was presented; a certificate is made  *)
(* for the key in the file.                                                *)
FreshKey == \A p \in Servers : idpc[p] \in KeySteps => announced = {}
FiledKey == \A p \in Servers : idpc[p] \in CertSteps => key[p] = keyFile

KeptInv == OneAtWork /\ PresentedIsFiled /\ FreshKey /\ FiledKey

LEMMA KeptStart == Init => KeptInv
BY DEF Init, I!Init, KeptInv, OneAtWork, PresentedIsFiled, FreshKey, FiledKey, Busy,
       KeySteps, CertSteps

LEMMA KeptStays == KeptInv /\ UNCHANGED identity => KeptInv'
BY DEF KeptInv, identity, OneAtWork, PresentedIsFiled, FreshKey, FiledKey, Busy

LEMMA KeptImplies == KeptInv => I!IdentityKept
<1> SUFFICES ASSUME KeptInv PROVE Cardinality(announced) <= 1
  <2>1. I!Cardinality(announced) = Cardinality(announced)
    BY DEF I!Cardinality, Cardinality
  <2> QED BY <2>1 DEF I!IdentityKept
<1>1. announced = {} \/ announced = {keyFile}
  BY DEF KeptInv, PresentedIsFiled
<1>2. Cardinality({}) = 0 /\ Cardinality({keyFile}) = 1
  BY FS_EmptySet, FS_Singleton
<1> QED BY <1>1, <1>2

LEMMA KeptKeeps ==
  ASSUME ServerInv, KeptInv, Without({"overlap", "readError"}), I!Next
  PROVE  KeptInv'
<1> USE DEF I!At, ServerInv, I!TypeOK
<1>1. ASSUME I!Pass PROVE KeptInv'
  BY <1>1 DEF I!Pass, KeptInv, OneAtWork, PresentedIsFiled, FreshKey, FiledKey, Busy
<1>2. ASSUME NEW p \in Servers, I!Launch(p) PROVE KeptInv'
  BY <1>2 DEF I!Launch, KeptInv, OneAtWork, PresentedIsFiled, FreshKey, FiledKey, Busy,
              KeySteps, CertSteps
<1>3. ASSUME NEW p \in Servers, I!Quit(p) PROVE KeptInv'
  BY <1>3 DEF I!Quit, KeptInv, OneAtWork, PresentedIsFiled, FreshKey, FiledKey, Busy,
              KeySteps, CertSteps
<1>4. ASSUME NEW p \in Servers, I!UseCached(p) PROVE KeptInv'
  BY <1>4 DEF I!UseCached, KeptInv, OneAtWork, PresentedIsFiled, FreshKey, FiledKey, Busy
<1>5. ASSUME NEW p \in Servers, I!BeginLoad(p) PROVE KeptInv'
  <2>1. \A q \in Servers : ~Busy(q)
    BY <1>5 DEF I!BeginLoad, I!MayBegin, Without, Busy
  <2> QED BY <1>5, <2>1 DEF I!BeginLoad, KeptInv, OneAtWork, PresentedIsFiled, FreshKey,
              FiledKey, Busy, KeySteps, CertSteps
<1>6. ASSUME NEW p \in Servers, I!loadIdentityKey(p) PROVE KeptInv'
  BY <1>6 DEF I!loadIdentityKey, I!KeyOnDisk, KeptInv, OneAtWork, PresentedIsFiled, FreshKey,
              FiledKey, Busy, KeySteps, CertSteps
<1>7. ASSUME NEW p \in Servers, NEW k \in Keys, I!GenerateKey(p, k) PROVE KeptInv'
  <2>1. keyFile = NoKey /\ announced = {}
    BY <1>7, TrustAssumption DEF I!GenerateKey, I!KeyOnDisk, Without, KeptInv, PresentedIsFiled
  <2> QED BY <1>7, <2>1 DEF I!GenerateKey, KeptInv, OneAtWork, PresentedIsFiled, FreshKey,
              FiledKey, Busy, KeySteps, CertSteps
<1>8. ASSUME NEW p \in Servers, I!CreateKey(p) PROVE KeptInv'
  BY <1>8 DEF I!CreateKey, KeptInv, OneAtWork, PresentedIsFiled, FreshKey, FiledKey, Busy,
              KeySteps, CertSteps
<1>9. ASSUME NEW p \in Servers, I!WriteKey(p) PROVE KeptInv'
  BY <1>9 DEF I!WriteKey, KeptInv, OneAtWork, PresentedIsFiled, FreshKey, FiledKey, Busy,
              KeySteps, CertSteps
<1>10. ASSUME NEW p \in Servers, I!SaveFails(p) PROVE KeptInv'
  BY <1>10 DEF I!SaveFails, KeptInv, OneAtWork, PresentedIsFiled, FreshKey, FiledKey, Busy,
               KeySteps, CertSteps
<1>11. ASSUME NEW p \in Servers, I!ReadCert(p) PROVE KeptInv'
  BY <1>11 DEF I!ReadCert, KeptInv, OneAtWork, PresentedIsFiled, FreshKey, FiledKey, Busy,
               KeySteps, CertSteps
<1>12. ASSUME NEW p \in Servers, I!LoadedCert(p) PROVE KeptInv'
  BY <1>12, ZenonT(60) DEF I!LoadedCert, I!Usable, I!Serve, KeptInv, OneAtWork, PresentedIsFiled, FreshKey,
               FiledKey, Busy, KeySteps, CertSteps
<1>13. ASSUME NEW p \in Servers, I!generateCertWithKey(p) PROVE KeptInv'
  BY <1>13 DEF I!generateCertWithKey, KeptInv, OneAtWork, PresentedIsFiled, FreshKey, FiledKey,
               Busy, KeySteps, CertSteps
<1>14. ASSUME NEW p \in Servers, I!CreateCert(p) PROVE KeptInv'
  BY <1>14 DEF I!CreateCert, KeptInv, OneAtWork, PresentedIsFiled, FreshKey, FiledKey, Busy,
               KeySteps, CertSteps
<1>15. ASSUME NEW p \in Servers, I!WriteCert(p) PROVE KeptInv'
  <2>1. cert[p].key = keyFile
    BY <1>15 DEF I!WriteCert, CertForKey, KeptInv, FiledKey, CertSteps
  <2> QED BY <1>15, <2>1 DEF I!WriteCert, I!Serve, KeptInv, OneAtWork, PresentedIsFiled, FreshKey,
               FiledKey, Busy, KeySteps, CertSteps
<1> QED BY <1>1, <1>2, <1>3, <1>4, <1>5, <1>6, <1>7, <1>8, <1>9, <1>10, <1>11,
           <1>12, <1>13, <1>14, <1>15 DEF I!Next

-----------------------------------------------------------------------------
(* What the clients know of the servers *)

Known(f, shown) == f \in Keys => f \in shown

(* A key a client has for the servers' address is one they presented. *)
Heard ==
  /\ \A t \in Tunnels : peer[t].host = Home => Known(peer[t].fp, announced)
  /\ \A q \in Clients : Known(entries[q][Home], announced)
  /\ Known(hostsFile[Home], announced)

LEMMA NothingKnown == Known(NoFp, announced)
BY TrustAssumption DEF Known

LEMMA HeardStart == Init => Heard
BY NothingKnown, TrustAssumption DEF Init, K!Init, K!NoHosts, K!NoPeer, Heard

LEMMA HeardServer == Heard /\ I!Next /\ UNCHANGED knownHosts => Heard'
<1> SUFFICES ASSUME Heard, I!Next, UNCHANGED knownHosts PROVE Heard'
  OBVIOUS
<1>1. announced \subseteq announced'
  BY DEF I!Next, I!Pass, I!Launch, I!Quit, I!UseCached, I!BeginLoad, I!loadIdentityKey,
         I!GenerateKey, I!CreateKey, I!WriteKey, I!SaveFails, I!ReadCert, I!LoadedCert,
         I!generateCertWithKey, I!CreateCert, I!WriteCert, I!Serve
<1> QED BY <1>1 DEF Heard, Known, knownHosts

LEMMA HeardClient ==
  ASSUME ClientInv, Heard, announced' = announced
  PROVE  /\ \A q \in Clients : K!LoadKnownHosts(q) => Heard'
         /\ \A q \in Clients : \A m : K!Quit(q, m) => Heard'
         /\ \A t \in Tunnels : K!TLSDial(t) => Heard'
         /\ \A t \in Tunnels : K!SaveFails(t) => Heard'
         /\ \A t \in Tunnels : \A h, f :
              K!Dial(t, h, f) /\ (h = Home => Known(f, announced)) => Heard'
<1> USE OfClient, NothingKnown, TrustAssumption DEF ClientInv, K!TypeOK, K!NoPeer, K!NoHosts
<1>1. ASSUME NEW q \in Clients, K!LoadKnownHosts(q) PROVE Heard'
  BY <1>1 DEF K!LoadKnownHosts, Heard
<1>2. ASSUME NEW q \in Clients, NEW m, K!Quit(q, m) PROVE Heard'
  BY <1>2 DEF K!Quit, Heard
<1>3. ASSUME NEW t \in Tunnels, NEW h, NEW f, K!Dial(t, h, f), h = Home => Known(f, announced)
      PROVE  Heard'
  BY <1>3 DEF K!Dial, Heard
<1>4. ASSUME NEW t \in Tunnels, K!SaveFails(t) PROVE Heard'
  BY <1>4 DEF K!SaveFails, K!Refuse, Heard
<1>5. ASSUME NEW t \in Tunnels, K!Verify(t) PROVE Heard'
  <2>1. peer' = [peer EXCEPT ![t] = K!NoPeer] /\ entries' = entries /\ hostsFile' = hostsFile
    BY <1>5 DEF K!Verify, K!LetThrough, K!Refuse
  <2> QED BY <2>1 DEF Heard
<1>6. ASSUME NEW t \in Tunnels, K!VerifyUnknown(t) PROVE Heard'
  BY <1>6 DEF K!VerifyUnknown, Heard
<1>7. ASSUME NEW t \in Tunnels, K!Accept(t) PROVE Heard'
  BY <1>7 DEF K!Accept, Heard
<1>8. ASSUME NEW t \in Tunnels, K!AcceptMismatch(t) PROVE Heard'
  BY <1>8 DEF K!AcceptMismatch, K!Refuse, Heard
<1>9. ASSUME NEW t \in Tunnels, K!Create(t) PROVE Heard'
  BY <1>9 DEF K!Create, Heard
<1>10. ASSUME NEW t \in Tunnels, NEW h \in Hosts, K!WriteLine(t, h) PROVE Heard'
  BY <1>10 DEF K!WriteLine, Heard
<1>11. ASSUME NEW t \in Tunnels, K!Saved(t) PROVE Heard'
  BY <1>11 DEF K!Saved, K!LetThrough, Heard
<1> QED BY <1>1, <1>2, <1>3, <1>4, <1>5, <1>6, <1>7, <1>8, <1>9, <1>10, <1>11 DEF K!TLSDial

-----------------------------------------------------------------------------
(* The theorems *)

PinFaults == {"twoClients", "crashClient", "saveClient"}
KeyFaults == {"overlap", "readError"}

TrustInv ==
  /\ ServerInv /\ ClientInv /\ Heard
  /\ Without(PinFaults) => PinInv
  /\ Without(KeyFaults) => KeptInv

LEMMA FaultsFixed == [Next]_vars => faults' = faults
BY DEF Next, vars, identity, ServerStep, StartClient, QuitClient, Dial, TLSDial, SaveFails,
       I!Next, I!Pass, I!Launch, I!Quit, I!UseCached, I!BeginLoad, I!loadIdentityKey,
       I!GenerateKey, I!CreateKey, I!WriteKey, I!SaveFails, I!ReadCert, I!LoadedCert,
       I!generateCertWithKey, I!CreateCert, I!WriteCert

LEMMA TrustStart == Init => TrustInv
BY ServerStart, ClientStart, HeardStart, PinStart, KeptStart DEF TrustInv

LEMMA TrustKeeps == TrustInv /\ [Next]_vars => TrustInv'
<1> SUFFICES ASSUME TrustInv, [Next]_vars PROVE TrustInv'
  OBVIOUS
<1> USE DEF TrustInv
<1>1. faults' = faults /\ \A fs : Without(fs)' <=> Without(fs)
  BY FaultsFixed DEF Without
<1>2. ASSUME UNCHANGED identity
      PROVE  ServerInv' /\ announced' = announced /\ (Without(KeyFaults)' => KeptInv')
  BY <1>1, <1>2, ServerStays, KeptStays DEF identity
<1>3. CASE ServerStep
  <2>1. I!Next /\ UNCHANGED knownHosts
    BY <1>3 DEF ServerStep
  <2> QED BY <1>1, <2>1, ServerKeeps, ClientStays, HeardServer, PinStays, KeptKeeps
          DEF KeyFaults
<1>4. CASE \E q \in Clients : StartClient(q)
  <2>1. PICK q \in Clients : StartClient(q)
    BY <1>4
  <2>2. Without(PinFaults) => PinInv'
    BY <2>1, PinKeeps DEF StartClient, Without, PinFaults
  <2> QED BY <1>1, <1>2, <2>1, <2>2, ClientKeeps, HeardClient DEF StartClient
<1>5. CASE \E q \in Clients : QuitClient(q)
  <2>1. PICK q \in Clients : QuitClient(q)
    BY <1>5
  <2>2. Without(PinFaults) => K!Quit(q, FALSE)
    BY <2>1 DEF QuitClient, Without, PinFaults, K!Quit
  <2> QED BY <1>1, <1>2, <2>1, <2>2, ClientKeeps, HeardClient, PinKeeps DEF QuitClient
<1>6. CASE \E t \in Tunnels : Dial(t)
  <2>1. PICK t \in Tunnels : Dial(t)
    BY <1>6
  <2>2. PICK h \in Hosts, f \in Fps :
          K!Dial(t, h, f) /\ (h = Home /\ f \in Keys => f \in announced)
    BY <2>1, DialSees
  <2> QED BY <1>1, <1>2, <2>1, <2>2, DialKeeps, HeardClient, PinDial DEF Dial, Known
<1>7. CASE \E t \in Tunnels : TLSDial(t)
  BY <1>1, <1>2, <1>7, ClientKeeps, HeardClient, PinKeeps DEF TLSDial
<1>8. CASE \E t \in Tunnels : SaveFails(t)
  <2>1. ~Without(PinFaults)
    BY <1>8 DEF SaveFails, Without, PinFaults
  <2> QED BY <1>1, <1>2, <1>8, <2>1, ClientKeeps, HeardClient DEF SaveFails
<1>9. CASE UNCHANGED vars
  <2>1. UNCHANGED identity /\ UNCHANGED knownHosts
    BY <1>9 DEF vars
  <2>2. Heard'
    BY <2>1 DEF Heard, identity, knownHosts
  <2> QED BY <1>1, <1>2, <2>1, <2>2, ClientStays, PinStays
<1> QED BY <1>3, <1>4, <1>5, <1>6, <1>7, <1>8, <1>9 DEF Next

LEMMA TrustAlways == Spec => []TrustInv
BY TrustStart, TrustKeeps, PTL DEF Spec

(* Every variable of the servers' identity and of the clients' known hosts *)
(* keeps its type, in every scenario.                                      *)
THEOREM TypeCorrect == Spec => []TypeOK
<1>1. TrustInv => TypeOK
  BY DEF TrustInv, ServerInv, ClientInv, TypeOK
<1> QED BY <1>1, TrustAlways, PTL

(* The fingerprint that LoadOrGenerateIdentity returns with a certificate  *)
(* is the one of that certificate's key, though other processes may        *)
(* replace both files between its reads.                                   *)
THEOREM FingerprintsAreHonest == Spec => []HonestFingerprint
<1>1. TrustInv => HonestFingerprint
  BY DEF TrustInv, ServerInv, ServedHonest, Honest, HonestFingerprint, I!HonestFingerprint
<1> QED BY <1>1, TrustAlways, PTL

(* Verify and Accept are two critical sections of kh.mu; because Accept    *)
(* looks again, the tunnels of one process never let two fingerprints of   *)
(* one host through.                                                       *)
THEOREM FirstUseAgrees == Spec => []OneFingerprint
<1>1. TrustInv => OneFingerprint
  <2> SUFFICES ASSUME TrustInv, NEW q \in Clients, NEW x \in trusted[q], NEW y \in trusted[q],
                      x.host = y.host
               PROVE  x = y
    BY DEF OneFingerprint, K!OneFingerprint, K!OneEach
  <2>1. x \in K!Pair /\ y \in K!Pair
    BY DEF TrustInv, ClientInv, K!TypeOK
  <2>2. x.fp = y.fp
    BY DEF TrustInv, ClientInv, TrustsItsStore
  <2> QED BY <2>1, <2>2, PairsDiffer
<1> QED BY <1>1, TrustAlways, PTL

(* The store is saved before the dial is let through, so a pin survives    *)
(* restarts, as long as client processes do not overlap and saves neither  *)
(* fail nor are cut short.                                                 *)
THEOREM PinsSurvive == Spec => []PinsKept
<1>1. TrustInv => PinsKept
  BY PinImplies DEF TrustInv, PinsKept, PinFaults
<1> QED BY <1>1, TrustAlways, PTL

(* Whatever crashes, failed writes, renewals and restarts happen, the      *)
(* listeners present one key for ever, as long as processes do not overlap *)
(* in LoadOrGenerateIdentity and the key file can be read.                 *)
THEOREM OneIdentity ==
  Spec => [](Without({"overlap", "readError"}) => IdentityKept)
<1>1. TrustInv => (Without({"overlap", "readError"}) => IdentityKept)
  BY KeptImplies DEF TrustInv, KeyFaults, IdentityKept
<1> QED BY <1>1, TrustAlways, PTL

LEMMA RefusedOnlyForAnother ==
  ASSUME TrustInv, [Next]_vars, Without({"overlap", "readError"}),
         NEW t \in Tunnels, Refuses(t), peer[t].host = Home, peer[t].fp \in Keys
  PROVE  entries[Of[t]][Home] \in Others
<1> USE OfClient DEF TrustInv, ClientInv, K!TypeOK
<1>1. khpc[t] \in {"verify", "accept"} /\ khpc'[t] = "idle" /\ up'[Of[t]]
      /\ peer[t] \notin trusted'[Of[t]]
  BY DEF Refuses
<1>2. ASSUME K!Mine(t) # NoFp, K!Mine(t) # peer[t].fp
      PROVE  entries[Of[t]][Home] \in Others
  <2>1. K!Mine(t) = entries[Of[t]][Home]
    BY DEF K!Mine
  <2>2. K!Mine(t) \in Keys \cup Others
    BY <1>2, <2>1, TrustAssumption
  <2>3. announced \subseteq {keyFile}
    BY DEF KeptInv, PresentedIsFiled, KeyFaults
  <2>4. peer[t].fp = keyFile /\ (K!Mine(t) \in Keys => K!Mine(t) = keyFile)
    BY <2>1, <2>3 DEF Heard, Known
  <2> QED BY <1>2, <2>1, <2>2, <2>4
<1>3. UNCHANGED knownHosts => FALSE
  BY <1>1 DEF knownHosts
<1>4. ASSUME NEW q \in Clients, K!LoadKnownHosts(q) PROVE FALSE
  BY <1>1, <1>4 DEF K!LoadKnownHosts
<1>5. ASSUME NEW q \in Clients, NEW m, K!Quit(q, m) PROVE FALSE
  BY <1>1, <1>5 DEF K!Quit
<1>6. ASSUME NEW u \in Tunnels, NEW h, NEW f, K!Dial(u, h, f) PROVE FALSE
  BY <1>1, <1>6 DEF K!Dial, K!Move
<1>7. ASSUME NEW u \in Tunnels, K!SaveFails(u) PROVE FALSE
  BY <1>1, <1>7 DEF K!SaveFails
<1>8. ASSUME NEW u \in Tunnels, K!TLSDial(u) PROVE entries[Of[t]][Home] \in Others
  <2>1. CASE K!Verify(u)
    <3>1. u = t
      BY <1>1, <2>1 DEF K!Verify, K!Move
    <3>2. K!Mine(t) # NoFp
      BY <2>1, <3>1 DEF K!Verify
    <3>3. K!Mine(t) # peer[t].fp
      BY <1>1, <2>1, <3>1 DEF K!Verify, K!LetThrough
    <3> QED BY <1>2, <3>2, <3>3
  <2>2. CASE K!AcceptMismatch(u)
    BY <1>1, <1>2, <2>2 DEF K!AcceptMismatch, K!Move, K!Mismatch
  <2>3. CASE K!VerifyUnknown(u)
    BY <1>1, <2>3 DEF K!VerifyUnknown, K!Move
  <2>4. CASE K!Accept(u)
    BY <1>1, <2>4 DEF K!Accept, K!Move
  <2>5. CASE K!Create(u)
    BY <1>1, <2>5 DEF K!Create, K!Move
  <2>6. CASE \E h \in Hosts : K!WriteLine(u, h)
    BY <1>1, <2>6 DEF K!WriteLine
  <2>7. CASE K!Saved(u)
    BY <1>1, <2>7 DEF K!Saved, K!Move
  <2> QED BY <1>8, <2>1, <2>2, <2>3, <2>4, <2>5, <2>6, <2>7 DEF K!TLSDial
<1> QED BY <1>3, <1>4, <1>5, <1>6, <1>7, <1>8 DEF Next, vars, ServerStep, StartClient,
           QuitClient, Dial, TLSDial, SaveFails

(* As long as servers do not overlap and can read their key, a client that *)
(* refuses the servers' key at their address has pinned somebody else's    *)
(* there: rotation, restarts and crashes never look like a new host.       *)
THEOREM ServersAreWelcome == Spec => NeverTurnedAway
<1>1. TrustInv /\ [Next]_vars =>
        [Without({"overlap", "readError"}) =>
           \A t \in Tunnels :
             Refuses(t) /\ peer[t].host = Home /\ peer[t].fp \in Keys =>
               entries[Of[t]][Home] \in Others]_vars
  BY RefusedOnlyForAnother
<1> QED BY <1>1, TrustAlways, PTL DEF Spec, NeverTurnedAway
=============================================================================
