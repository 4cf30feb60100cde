--------------------------- MODULE ManagerProofs ----------------------------
(* The tunnel manager, for any set of tunnels, groups and ports, any       *)
(* number of goroutines and any faults: who can still be stopped, who is   *)
(* stopped once only, when a port is free again, what runs and what is on  *)
(* disk when m.mu is released.                                             *)
EXTENDS Manager, FiniteSetTheorems, WellFoundedInduction, SequenceTheorems, TLAPS

-----------------------------------------------------------------------------
(* Operators *)

LEMMA MinFacts ==
  ASSUME NEW S \in SUBSET Nat, S # {}
  PROVE  Min(S) \in S
  <1>1. PICK x \in S : \A y \in S : ~(<<y, x>> \in OpToRel(<, Nat))
    BY NatLessThanWellFounded, WFMin, Zenon
  <1>2. \A y \in S : <<y, x>> \in OpToRel(<, Nat) <=> y < x
    BY DEF OpToRel
  <1>3. \A y \in S : ~(y < x)
    BY <1>1, <1>2, Zenon
  <1>4. \A y \in S : x =< y
    BY <1>3
  <1> QED
    BY <1>4 DEF Min

(* The tunnels of a set in some order. *)
LEMMA SetToSeqFacts ==
  ASSUME NEW S \in SUBSET Names
  PROVE  /\ SeqExt!SetToSeq(S) \in [1..Cardinality(S) -> S]
         /\ Cardinality(S) \in Nat /\ SeqExt!Cardinality(S) = Cardinality(S)
  <1>1. IsFiniteSet(S) /\ Cardinality(S) \in Nat
    BY ManagerAssumption, FS_Subset, FS_CardinalityType
  <1>2. PICK n \in Nat : ExistsBijection(1..n, S)
    BY <1>1, FS_NatBijection
  <1>3. Cardinality(S) = n
    BY <1>2, FS_CountingElements
  <1>4. PICK f \in Bijection(1..n, S) : TRUE
    BY <1>2 DEF ExistsBijection
  <1>5. f \in [1..n -> S] /\ \A a, b \in DOMAIN f : f[a] = f[b] => a = b
    BY <1>4 DEF Bijection, Injection, IsInjective
  <1>6. SeqExt!IsFiniteSet(S) <=> IsFiniteSet(S)
    BY DEF SeqExt!IsFiniteSet, IsFiniteSet
  <1>7. SeqExt!Cardinality(S) = Cardinality(S)
    BY <1>1, <1>6 DEF SeqExt!Cardinality, Cardinality
  <1>8. \E g \in [1..Cardinality(S) -> S] : SeqExt!IsInjective(g)
    BY <1>3, <1>5 DEF SeqExt!IsInjective
  <1> QED
    BY <1>1, <1>7, <1>8 DEF SeqExt!SetToSeq

LEMMA ItemFacts ==
  ASSUME NEW w \in WorkItem
  PROVE  /\ w.do \in {"stop", "wait", "config", "start", "trigger", "drained",
                      "truncate", "write"}
         /\ w.do = "stop" => w.names \in SUBSET Names
         /\ w.do = "wait" => w.insts \in SUBSET Insts
         /\ w.do = "config" => w.to \in Configs
         /\ w.do = "start" => w.name \in Names
  BY DEF WorkItem

LEMMA ItemsTyped ==
  /\ \A S \in SUBSET Names : Stop(S) \in WorkItem /\ Stop(S).do = "stop" /\ Stop(S).names = S
  /\ \A I \in SUBSET Insts : Wait(I) \in WorkItem /\ Wait(I).do = "wait" /\ Wait(I).insts = I
  /\ \A c \in Configs : Config(c) \in WorkItem /\ Config(c).do = "config" /\ Config(c).to = c
  /\ Trigger \in WorkItem /\ Trigger.do = "trigger"
  /\ Drained \in WorkItem /\ Drained.do = "drained"
  BY DEF WorkItem, Stop, Wait, Config, Trigger, Drained

LEMMA SaveFacts ==
  /\ Save \in Seq(WorkItem) /\ Len(Save) = 2
  /\ Save[1].do = "truncate" /\ Save[2].do = "write"
  BY DEF Save, WorkItem

LEMMA StartFacts ==
  ASSUME NEW S \in SUBSET Names
  PROVE  /\ Start(S) \in Seq(WorkItem)
         /\ \A k \in DOMAIN Start(S) : Start(S)[k].do = "start" /\ Start(S)[k].name \in S
  <1> DEFINE order == SeqExt!SetToSeq(S)
             m == Cardinality(S)
  <1>1. order \in [1..m -> S] /\ m \in Nat
    BY SetToSeqFacts
  <1>2. Start(S) = [k \in DOMAIN order |-> [do |-> "start", name |-> order[k]]]
    BY DEF Start
  <1> HIDE DEF order, m
  <1>3. \A n \in S : [do |-> "start", name |-> n] \in WorkItem
    BY DEF WorkItem
  <1> QED
    BY <1>1, <1>2, <1>3

LEMMA TailFacts ==
  ASSUME NEW w \in Seq(WorkItem), w # <<>>
  PROVE  /\ Head(w) = w[1] /\ w[1] \in WorkItem /\ 1 \in DOMAIN w
         /\ Tail(w) \in Seq(WorkItem)
         /\ \A k \in DOMAIN Tail(w) : k + 1 \in DOMAIN w /\ Tail(w)[k] = w[k + 1]
         /\ \A k \in DOMAIN w : k # 1 => k - 1 \in DOMAIN Tail(w) /\ Tail(w)[k - 1] = w[k]
         /\ DOMAIN w \in SUBSET Nat /\ DOMAIN Tail(w) \in SUBSET Nat
         /\ \A k \in DOMAIN w : k >= 1
  <1>1. /\ Head(w) = w[1] /\ w[1] \in WorkItem /\ Tail(w) \in Seq(WorkItem)
        /\ DOMAIN w = 1..Len(w) /\ Len(w) \in Nat /\ Len(w) > 0
        /\ Len(Tail(w)) = Len(w) - 1 /\ DOMAIN Tail(w) = 1..(Len(w) - 1)
        /\ \A k \in 1..(Len(w) - 1) : Tail(w)[k] = w[k + 1]
    OBVIOUS
  <1> QED
    BY <1>1

(* u is v, a items long, followed by w, b items long. *)
Joins(u, v, a, w, b) ==
  /\ u \in Seq(WorkItem) /\ DOMAIN u = 1..(a + b)
  /\ \A k \in 1..a : u[k] = v[k]
  /\ \A k \in 1..(a + b) : k > a => u[k] = w[k - a] /\ k - a \in DOMAIN w

LEMMA ConcatFacts ==
  ASSUME NEW v \in Seq(WorkItem), NEW w \in Seq(WorkItem),
         NEW a \in Nat, NEW b \in Nat, Len(v) = a, Len(w) = b
  PROVE  Joins(v \o w, v, a, w, b)
  BY DEF Joins

-----------------------------------------------------------------------------
(* The work list *)

(* The items that are left make n a configured tunnel, or leave it one. *)
Says(w, c, n) ==
  /\ (\A j \in DOMAIN w : w[j].do # "config") => c[n] # "absent"
  /\ \A j \in DOMAIN w : w[j].do = "config" => w[j].to[n] # "absent"

(* n is stopped before the configuration changes. *)
Covered(w, n) ==
  \E k, j \in DOMAIN w :
    k < j /\ w[k].do = "stop" /\ n \in w[k].names /\ w[j].do = "config"

(* Nothing that can fail comes before a change of the configuration, only  *)
(* configured tunnels are started, and what runs stays configured or is    *)
(* stopped first.  NoZombie is this for an empty list.                     *)
ConfigFirst(w) ==
  \A j, k \in DOMAIN w : k < j /\ w[j].do = "config" => w[k].do \in {"stop", "wait"}
StartsConfigured(w, c) ==
  \A k \in DOMAIN w : w[k].do = "start" => Says(w, c, w[k].name)
RunsConfigured(w, c, tn) ==
  \A n \in Names : tn[n] # 0 => Says(w, c, n) \/ Covered(w, n)
Sound(w, c, tn) == ConfigFirst(w) /\ StartsConfigured(w, c) /\ RunsConfigured(w, c, tn)

(* A truncated file is written next, nothing changes the configuration     *)
(* after a write, and every other change is one of a reload.               *)
Truncates(w) ==
  \A k \in DOMAIN w : w[k].do = "truncate" => k + 1 \in DOMAIN w /\ w[k + 1].do = "write"
WritesLast(w) ==
  \A j, k \in DOMAIN w : j < k /\ w[j].do = "write" =>
    w[k].do \notin {"config", "truncate", "write"}
Unwritten(w, c, d) ==
  (\A k \in DOMAIN w : w[k].do # "write") =>
    /\ \A k \in DOMAIN w : w[k].do = "config" => w[k].to = d
    /\ (\A k \in DOMAIN w : w[k].do # "config") => c = d
Saves(w, c, d) == Truncates(w) /\ WritesLast(w) /\ Unwritten(w, c, d)

Popped == {"wait", "trigger", "drained", "truncate", "write", "start"}

LEMMA PopSound ==
  ASSUME NEW w \in Seq(WorkItem), w # <<>>, NEW c, NEW tn, Sound(w, c, tn),
         w[1].do \in Popped
  PROVE  /\ Sound(Tail(w), c, tn)
         /\ w[1].do = "start" => Says(Tail(w), c, w[1].name)
  <1> DEFINE v == Tail(w)
  <1>1. /\ 1 \in DOMAIN w
        /\ \A k \in DOMAIN v : k + 1 \in DOMAIN w /\ v[k] = w[k + 1]
        /\ \A k \in DOMAIN w : k # 1 => k - 1 \in DOMAIN v /\ v[k - 1] = w[k]
        /\ DOMAIN w \in SUBSET Nat /\ DOMAIN v \in SUBSET Nat /\ \A k \in DOMAIN w : k >= 1
    BY TailFacts
  <1> HIDE DEF v
  <1>2. w[1].do # "config" /\ w[1].do # "stop"
    BY DEF Popped
  <1>3. ASSUME NEW n, Says(w, c, n) PROVE Says(v, c, n)
    BY <1>1, <1>2, <1>3, ZenonT(60) DEF Says
  <1>4. ASSUME NEW n, Covered(w, n) PROVE Covered(v, n)
    <2>1. PICK k \in DOMAIN w, j \in DOMAIN w :
            k < j /\ w[k].do = "stop" /\ n \in w[k].names /\ w[j].do = "config"
      BY <1>4 DEF Covered
    <2>2. /\ k - 1 \in DOMAIN v /\ j - 1 \in DOMAIN v /\ k - 1 < j - 1
          /\ v[k - 1] = w[k] /\ v[j - 1] = w[j]
      BY <2>1, <1>1, <1>2
    <2> QED
      BY <2>1, <2>2 DEF Covered
  <1>5. ConfigFirst(v)
    BY <1>1 DEF ConfigFirst, Sound
  <1>6. StartsConfigured(v, c)
    BY <1>1, <1>3 DEF StartsConfigured, Sound
  <1>7. RunsConfigured(v, c, tn)
    BY <1>3, <1>4 DEF RunsConfigured, Sound
  <1> QED
    BY <1>1, <1>3, <1>5, <1>6, <1>7 DEF Sound, StartsConfigured, v

LEMMA ConfigSound ==
  ASSUME NEW w \in Seq(WorkItem), w # <<>>, NEW c, NEW tn, Sound(w, c, tn),
         w[1].do = "config"
  PROVE  Sound(Tail(w), w[1].to, tn)
  <1> DEFINE v == Tail(w)
  <1>1. /\ 1 \in DOMAIN w
        /\ \A k \in DOMAIN v : k + 1 \in DOMAIN w /\ v[k] = w[k + 1]
        /\ DOMAIN w \in SUBSET Nat /\ DOMAIN v \in SUBSET Nat /\ \A k \in DOMAIN w : k >= 1
    BY TailFacts
  <1> HIDE DEF v
  <1>2. \A j \in DOMAIN w : j # 1 => w[j].do # "config"
    BY <1>1 DEF Sound, ConfigFirst
  <1>3. \A j \in DOMAIN v : v[j].do # "config"
    BY <1>1, <1>2
  <1>4. ASSUME NEW n, Says(w, c, n) PROVE Says(v, w[1].to, n)
    BY <1>1, <1>3, <1>4 DEF Says
  <1>5. \A n \in Names : ~Covered(w, n)
    BY <1>1, <1>2 DEF Covered
  <1>6. ConfigFirst(v)
    BY <1>3 DEF ConfigFirst
  <1>7. StartsConfigured(v, w[1].to)
    BY <1>1, <1>4 DEF StartsConfigured, Sound
  <1>8. RunsConfigured(v, w[1].to, tn)
    BY <1>4, <1>5 DEF RunsConfigured, Sound
  <1> QED
    BY <1>6, <1>7, <1>8 DEF Sound, v

(* The stop item becomes a wait item. *)
LEMMA HeadReplaced ==
  ASSUME NEW w \in Seq(WorkItem), w # <<>>, NEW a \in WorkItem
  PROVE  LET v == <<a>> \o Tail(w)
         IN  /\ v \in Seq(WorkItem) /\ DOMAIN v = DOMAIN w /\ v[1] = a /\ 1 \in DOMAIN w
             /\ \A k \in DOMAIN w : k # 1 => v[k] = w[k]
             /\ DOMAIN w \in SUBSET Nat /\ \A k \in DOMAIN w : k >= 1
  <1> DEFINE v == <<a>> \o Tail(w)
  <1>1. <<a>> \in Seq(WorkItem) /\ Len(<<a>>) = 1 /\ <<a>>[1] = a
    OBVIOUS
  <1>2. Tail(w) \in Seq(WorkItem) /\ Len(Tail(w)) = Len(w) - 1 /\ Len(w) \in Nat
        /\ DOMAIN w = 1..Len(w) /\ Len(w) > 0
    OBVIOUS
  <1>3. \A k \in DOMAIN w : k # 1 => Tail(w)[k - 1] = w[k]
    BY TailFacts
  <1>4. 1 \in Nat /\ Len(w) - 1 \in Nat
    BY <1>2
  <1>5. Joins(v, <<a>>, 1, Tail(w), Len(w) - 1)
    BY <1>1, <1>2, <1>4, ConcatFacts, Zenon
  <1> HIDE DEF v
  <1> QED
    BY <1>1, <1>2, <1>3, <1>5 DEF Joins, v

LEMMA StopSound ==
  ASSUME NEW w \in Seq(WorkItem), w # <<>>, NEW c, NEW tn, Sound(w, c, tn),
         w[1].do = "stop", NEW a \in WorkItem, a.do = "wait", NEW tn2,
         \A n \in Names : tn2[n] # 0 => tn[n] # 0 /\ n \notin w[1].names
  PROVE  <<a>> \o Tail(w) \in Seq(WorkItem) /\ Sound(<<a>> \o Tail(w), c, tn2)
  <1> DEFINE v == <<a>> \o Tail(w)
  <1>1. /\ v \in Seq(WorkItem) /\ DOMAIN v = DOMAIN w /\ v[1] = a /\ 1 \in DOMAIN w
        /\ \A k \in DOMAIN w : k # 1 => v[k] = w[k]
        /\ DOMAIN w \in SUBSET Nat /\ \A k \in DOMAIN w : k >= 1
    BY HeadReplaced
  <1> HIDE DEF v
  <1>2. ASSUME NEW n, Says(w, c, n) PROVE Says(v, c, n)
    BY <1>1, <1>2 DEF Says
  <1>3. ASSUME NEW n, n \notin w[1].names, Covered(w, n) PROVE Covered(v, n)
    BY <1>1, <1>3 DEF Covered
  <1>4. ConfigFirst(v)
    BY <1>1 DEF ConfigFirst, Sound
  <1>5. StartsConfigured(v, c)
    BY <1>1, <1>2 DEF StartsConfigured, Sound
  <1>6. RunsConfigured(v, c, tn2)
    BY <1>2, <1>3 DEF RunsConfigured, Sound
  <1> QED
    BY <1>1, <1>4, <1>5, <1>6 DEF Sound, v

(* Where a save can fail, the configuration is the one in force. *)
LEMMA SaveSettled ==
  ASSUME NEW w \in Seq(WorkItem), NEW c, NEW tn, Sound(w, c, tn),
         w = <<>> \/ w[1].do \in {"truncate", "write"}
  PROVE  \A n \in Names : tn[n] # 0 => c[n] # "absent"
  <1>1. \A j \in DOMAIN w : w[j].do # "config"
    <2>1. CASE w = <<>>
      BY <2>1
    <2>2. CASE w # <<>> /\ w[1].do \in {"truncate", "write"}
      <3>1. 1 \in DOMAIN w /\ DOMAIN w \in SUBSET Nat /\ \A k \in DOMAIN w : k >= 1
        BY <2>2, TailFacts
      <3> QED
        BY <2>2, <3>1 DEF Sound, ConfigFirst
    <2> QED
      BY <2>1, <2>2
  <1> QED
    BY <1>1 DEF Sound, RunsConfigured, Says, Covered

-----------------------------------------------------------------------------
(* The work lists of the operations *)

(* Only configured tunnels run. *)
Settled(c, tn) == \A n \in Names : tn[n] # 0 => c[n] # "absent"

(* Add, Enable, Disable: change the configuration and save it, then start  *)
(* or stop.                                                                *)
LEMMA ChangeAndSave ==
  ASSUME NEW c, NEW tn, NEW d, Settled(c, tn), NEW c2 \in Configs,
         \A n \in Names : c[n] # "absent" => c2[n] # "absent",
         NEW t \in Seq(WorkItem),
         \A k \in DOMAIN t : \/ t[k].do = "stop"
                             \/ t[k].do = "start" /\ c2[t[k].name] # "absent"
  PROVE  LET w == <<Config(c2)>> \o Save \o t
         IN  w \in Seq(WorkItem) /\ Sound(w, c, tn) /\ Saves(w, c, d)
  <1> DEFINE h == <<Config(c2)>>
             v == h \o Save
             w == v \o t
             m == Len(t)
  <1>1. h \in Seq(WorkItem) /\ Len(h) = 1 /\ h[1] = Config(c2) /\ m \in Nat
        /\ Config(c2).do = "config" /\ Config(c2).to = c2 /\ DOMAIN t = 1..m
    BY ItemsTyped
  <1> HIDE DEF h, m
  <1>2. /\ v \in Seq(WorkItem) /\ Len(v) = 3 /\ v[1] = Config(c2)
        /\ v[2].do = "truncate" /\ v[3].do = "write"
    <2>1. 1 \in Nat /\ 2 \in Nat
      OBVIOUS
    <2>2. Joins(v, h, 1, Save, 2)
      BY <2>1, <1>1, SaveFacts, ConcatFacts, Zenon
    <2> HIDE DEF v
    <2> QED
      BY <2>2, <1>1, SaveFacts DEF Joins
  <1> HIDE DEF v
  <1>3. Joins(w, v, 3, t, m)
    <2>1. 3 \in Nat
      OBVIOUS
    <2> QED
      BY <2>1, <1>1, <1>2, ConcatFacts, Zenon DEF m
  <1> HIDE DEF w
  <1>4. /\ 1 \in DOMAIN w /\ 2 \in DOMAIN w /\ 3 \in DOMAIN w
        /\ w[1].do = "config" /\ w[1].to = c2 /\ w[2].do = "truncate" /\ w[3].do = "write"
        /\ DOMAIN w \in SUBSET Nat
        /\ \A k \in DOMAIN w : k \notin {1, 2, 3} =>
             \/ w[k].do = "stop"
             \/ w[k].do = "start" /\ c2[w[k].name] # "absent"
        /\ \A k \in DOMAIN w : k >= 1
        /\ w \in Seq(WorkItem)
    <2>1. /\ w \in Seq(WorkItem) /\ DOMAIN w = 1..(3 + m)
          /\ \A k \in 1..3 : w[k] = v[k]
          /\ \A k \in 1..(3 + m) : k > 3 => w[k] = t[k - 3] /\ k - 3 \in DOMAIN t
      BY <1>3 DEF Joins
    <2>2. w[1] = v[1] /\ w[2] = v[2] /\ w[3] = v[3]
      BY <2>1
    <2>3. /\ 1 \in DOMAIN w /\ 2 \in DOMAIN w /\ 3 \in DOMAIN w /\ DOMAIN w \in SUBSET Nat
          /\ \A k \in DOMAIN w : k >= 1
          /\ \A k \in DOMAIN w : k \notin {1, 2, 3} => w[k] = t[k - 3] /\ k - 3 \in DOMAIN t
      BY <2>1, <1>1
    <2>4. \A k \in DOMAIN w : k \notin {1, 2, 3} =>
            \/ w[k].do = "stop"
            \/ w[k].do = "start" /\ c2[w[k].name] # "absent"
      BY <2>3
    <2> QED
      BY <2>1, <2>2, <2>3, <2>4, <1>1, <1>2
  <1>5. ASSUME NEW n, c2[n] # "absent" PROVE Says(w, c, n)
    BY <1>4, <1>5 DEF Says
  <1>6. ConfigFirst(w)
    BY <1>4 DEF ConfigFirst
  <1>7. StartsConfigured(w, c)
    BY <1>4, <1>5 DEF StartsConfigured
  <1>8. RunsConfigured(w, c, tn)
    BY <1>5 DEF RunsConfigured, Settled
  <1>9. Truncates(w)
    BY <1>4 DEF Truncates
  <1>10. WritesLast(w)
    BY <1>4, SMTT(60) DEF WritesLast
  <1>11. Unwritten(w, c, d)
    BY <1>4 DEF Unwritten
  <1> QED
    BY <1>4, <1>6, <1>7, <1>8, <1>9, <1>10, <1>11 DEF Sound, Saves, w, v, h

(* Remove: stop, and only then drop it from the configuration. *)
LEMMA StopAndRemove ==
  ASSUME NEW c \in Configs, c = cfg, NEW tn, NEW d, Settled(c, tn), NEW n \in Names
  PROVE  RemoveItems(n) \in Seq(WorkItem) /\ Sound(RemoveItems(n), c, tn)
         /\ Saves(RemoveItems(n), c, d)
  <1> DEFINE c2 == [c EXCEPT ![n] = "absent"]
             h == <<Stop({n}), Config(c2)>>
             w == h \o Save
  <1>1. w = RemoveItems(n)
    BY DEF RemoveItems
  <1>2. c2 \in Configs /\ \A o \in Names : o # n => c2[o] = c[o]
    BY DEF Configs
  <1> HIDE DEF c2
  <1>3. /\ h \in Seq(WorkItem) /\ Len(h) = 2
        /\ h[1] = Stop({n}) /\ Stop({n}).do = "stop" /\ Stop({n}).names = {n}
        /\ h[2] = Config(c2) /\ Config(c2).do = "config" /\ Config(c2).to = c2
    BY <1>2, ItemsTyped
  <1> HIDE DEF h
  <1>4. Joins(w, h, 2, Save, 2)
    <2>1. 2 \in Nat
      OBVIOUS
    <2> QED
      BY <2>1, <1>3, SaveFacts, ConcatFacts, Zenon
  <1> HIDE DEF w
  <1>5. /\ DOMAIN w = {1, 2, 3, 4}
        /\ w[1].do = "stop" /\ w[1].names = {n} /\ w[2].do = "config" /\ w[2].to = c2
        /\ w[3].do = "truncate" /\ w[4].do = "write"
        /\ w \in Seq(WorkItem)
    <2>1. /\ w \in Seq(WorkItem) /\ DOMAIN w = 1..4
          /\ \A k \in 1..2 : w[k] = h[k]
          /\ \A k \in 1..4 : k > 2 => w[k] = Save[k - 2]
      BY <1>4 DEF Joins
    <2>2. DOMAIN w = {1, 2, 3, 4}
      BY <2>1
    <2>3. w[1] = h[1] /\ w[2] = h[2] /\ w[3] = Save[1] /\ w[4] = Save[2]
      BY <2>1
    <2> QED
      BY <2>1, <2>2, <2>3, <1>3, SaveFacts
  <1>6. ConfigFirst(w) /\ StartsConfigured(w, c)
    BY <1>5 DEF ConfigFirst, StartsConfigured
  <1>7. RunsConfigured(w, c, tn)
    <2> SUFFICES ASSUME NEW o \in Names, tn[o] # 0 PROVE Says(w, c, o) \/ Covered(w, o)
      BY DEF RunsConfigured
    <2>1. CASE o = n
      BY <2>1, <1>5 DEF Covered
    <2>2. CASE o # n
      BY <2>2, <1>2, <1>5 DEF Says, Settled
    <2> QED
      BY <2>1, <2>2
  <1>8. Truncates(w) /\ WritesLast(w) /\ Unwritten(w, c, d)
    BY <1>5 DEF Truncates, WritesLast, Unwritten
  <1> QED
    BY <1>1, <1>5, <1>6, <1>7, <1>8 DEF Sound, Saves

(* Everything that leaves the configuration alone. *)
LEMMA StartAndStop ==
  ASSUME NEW c, NEW tn, NEW d, Settled(c, tn), NEW w \in Seq(WorkItem),
         \A k \in DOMAIN w : \/ w[k].do \in {"stop", "trigger", "drained"}
                             \/ w[k].do = "start" /\ c[w[k].name] # "absent"
  PROVE  Sound(w, c, tn) /\ (c = d => Saves(w, c, d))
         /\ \A k \in DOMAIN w : w[k].do \notin {"truncate", "write"}
  <1>1. \A k \in DOMAIN w : w[k].do \notin {"config", "truncate", "write"}
    OBVIOUS
  <1>2. ConfigFirst(w)
    BY <1>1 DEF ConfigFirst
  <1>3. StartsConfigured(w, c)
    BY <1>1 DEF StartsConfigured, Says
  <1>4. RunsConfigured(w, c, tn)
    BY <1>1 DEF RunsConfigured, Says, Settled
  <1>5. Truncates(w) /\ WritesLast(w) /\ (c = d => Unwritten(w, c, d))
    BY <1>1 DEF Truncates, WritesLast, Unwritten
  <1> QED
    BY <1>1, <1>2, <1>3, <1>4, <1>5 DEF Sound, Saves

LEMMA JustSave ==
  ASSUME NEW c, NEW tn, NEW d, Settled(c, tn)
  PROVE  Save \in Seq(WorkItem) /\ Sound(Save, c, tn) /\ Saves(Save, c, d)
  <1>1. DOMAIN Save = {1, 2} /\ Save[1].do = "truncate" /\ Save[2].do = "write"
    BY SaveFacts
  <1> HIDE DEF Save
  <1>2. ConfigFirst(Save) /\ StartsConfigured(Save, c) /\ RunsConfigured(Save, c, tn)
    BY <1>1 DEF ConfigFirst, StartsConfigured, RunsConfigured, Says, Settled
  <1>3. Truncates(Save) /\ WritesLast(Save) /\ Unwritten(Save, c, d)
    BY <1>1 DEF Truncates, WritesLast, Unwritten
  <1> QED
    BY <1>2, <1>3, SaveFacts DEF Sound, Saves

(* Reload: stop everything, install what was read, start what it names. *)
LEMMA StopAndReload ==
  ASSUME NEW c, NEW tn, NEW c2 \in Configs
  PROVE  LET w == <<Stop(Names), Config(c2)>> \o Start(Autostart(c2))
         IN  w \in Seq(WorkItem) /\ Sound(w, c, tn) /\ Saves(w, c, c2)
             /\ \A k \in DOMAIN w : w[k].do \notin {"truncate", "write"}
  <1> DEFINE h == <<Stop(Names), Config(c2)>>
             t == Start(Autostart(c2))
             w == h \o t
             m == Len(t)
  <1>1. /\ h \in Seq(WorkItem) /\ Len(h) = 2
        /\ h[1] = Stop(Names) /\ Stop(Names).do = "stop" /\ Stop(Names).names = Names
        /\ h[2] = Config(c2) /\ Config(c2).do = "config" /\ Config(c2).to = c2
    BY ItemsTyped
  <1>2. /\ t \in Seq(WorkItem) /\ m \in Nat
        /\ \A k \in DOMAIN t : t[k].do = "start" /\ c2[t[k].name] # "absent"
    <2>1. Autostart(c2) \in SUBSET Names
      BY DEF Autostart
    <2>2. /\ t \in Seq(WorkItem)
          /\ \A k \in DOMAIN t : t[k].do = "start" /\ t[k].name \in Autostart(c2)
      BY <2>1, StartFacts
    <2> HIDE DEF t
    <2> QED
      BY <2>2 DEF Autostart
  <1> HIDE DEF h, t
  <1>3. Joins(w, h, 2, t, m)
    <2>1. 2 \in Nat
      OBVIOUS
    <2> QED
      BY <2>1, <1>1, <1>2, ConcatFacts, Zenon
  <1> HIDE DEF w, m
  <1>4. /\ 1 \in DOMAIN w /\ 2 \in DOMAIN w
        /\ w[1].do = "stop" /\ w[1].names = Names /\ w[2].do = "config" /\ w[2].to = c2
        /\ DOMAIN w \in SUBSET Nat
        /\ \A k \in DOMAIN w : k \notin {1, 2} =>
             w[k].do = "start" /\ c2[w[k].name] # "absent"
        /\ \A k \in DOMAIN w : k >= 1
        /\ w \in Seq(WorkItem)
    BY <1>1, <1>2, <1>3 DEF Joins
  <1>5. ASSUME NEW n, c2[n] # "absent" PROVE Says(w, c, n)
    BY <1>4, <1>5 DEF Says
  <1>6. ConfigFirst(w)
    BY <1>4 DEF ConfigFirst
  <1>7. StartsConfigured(w, c)
    BY <1>4, <1>5 DEF StartsConfigured
  <1>8. RunsConfigured(w, c, tn)
    BY <1>4 DEF RunsConfigured, Covered
  <1>9. /\ Truncates(w) /\ WritesLast(w) /\ Unwritten(w, c, c2)
        /\ \A k \in DOMAIN w : w[k].do \notin {"truncate", "write"}
    BY <1>4 DEF Truncates, WritesLast, Unwritten
  <1> QED
    BY <1>4, <1>6, <1>7, <1>8, <1>9 DEF Sound, Saves, w, t, h

(* What every control operation sets out to do. *)
Ops ==
  \/ \E n \in Names : \/ \E a \in {"off", "auto"} : Add(n, a)
                      \/ Remove(n) \/ Enable(n) \/ Disable(n) \/ Restart(n)
  \/ \E g \in {GroupOf[n] : n \in Names} : StartGroup(g) \/ StopGroup(g)
  \/ SaveNow \/ StopDaemon

LEMMA Operations ==
  ASSUME TypeOK, Settled(cfg, tunnels), Ops, NEW d
  PROVE  /\ CanBegin /\ UNCHANGED <<faults, daemon, cfg, disk, tunnels, inst, pending>>
         /\ work' \in Seq(WorkItem)
         /\ Sound(work', cfg, tunnels)
         /\ cfg = d => Saves(work', cfg, d)
  <1> USE DEF Lock
  <1>0. cfg \in Configs /\ \A n \in Names : cfg[n] \in {"absent", "off", "auto"}
    BY DEF TypeOK, Configs
  <1> DEFINE Result == /\ CanBegin
                       /\ UNCHANGED <<faults, daemon, cfg, disk, tunnels, inst, pending>>
                       /\ work' \in Seq(WorkItem)
                       /\ Sound(work', cfg, tunnels)
                       /\ cfg = d => Saves(work', cfg, d)
  <1>1. ASSUME NEW n \in Names, NEW a \in {"off", "auto"}, Add(n, a)
        PROVE  Result
    <2> DEFINE c2 == [cfg EXCEPT ![n] = a]
               t == IF a = "auto" THEN Start({n}) ELSE <<>>
    <2>1. c2 \in Configs /\ c2[n] # "absent" /\ \A o \in Names : cfg[o] # "absent" => c2[o] # "absent"
      BY <1>0 DEF Configs
    <2>2. t \in Seq(WorkItem) /\ \A k \in DOMAIN t : t[k].do = "start" /\ c2[t[k].name] # "absent"
      BY <2>1, StartFacts
    <2>3. work' = <<Config(c2)>> \o Save \o t
      BY <1>1 DEF Add
    <2> HIDE DEF c2, t
    <2>4. work' \in Seq(WorkItem) /\ Sound(work', cfg, tunnels) /\ Saves(work', cfg, d)
      BY <2>1, <2>2, <2>3, ChangeAndSave
    <2> QED
      BY <1>1, <2>4 DEF Add
  <1>2. ASSUME NEW n \in Names, Remove(n)
        PROVE  Result
    BY <1>0, <1>2, StopAndRemove DEF Remove
  <1>3. ASSUME NEW n \in Names, Enable(n)
        PROVE  Result
    <2> DEFINE c2 == [cfg EXCEPT ![n] = "auto"]
               t == Start({n})
    <2>1. c2 \in Configs /\ c2[n] # "absent" /\ \A o \in Names : cfg[o] # "absent" => c2[o] # "absent"
      BY <1>0 DEF Configs
    <2>2. t \in Seq(WorkItem) /\ \A k \in DOMAIN t : t[k].do = "start" /\ c2[t[k].name] # "absent"
      BY <2>1, StartFacts
    <2>3. work' = <<Config(c2)>> \o Save \o t
      BY <1>3 DEF Enable
    <2> HIDE DEF c2, t
    <2>4. work' \in Seq(WorkItem) /\ Sound(work', cfg, tunnels) /\ Saves(work', cfg, d)
      BY <2>1, <2>2, <2>3, ChangeAndSave
    <2> QED
      BY <1>3, <2>4 DEF Enable
  <1>4. ASSUME NEW n \in Names, Disable(n)
        PROVE  Result
    <2> DEFINE c2 == [cfg EXCEPT ![n] = "off"]
               t == <<Stop({n})>>
    <2>1. c2 \in Configs /\ \A o \in Names : cfg[o] # "absent" => c2[o] # "absent"
      BY <1>0 DEF Configs
    <2>2. t \in Seq(WorkItem) /\ \A k \in DOMAIN t : t[k].do = "stop"
      BY ItemsTyped
    <2>3. work' = <<Config(c2)>> \o Save \o t
      BY <1>4 DEF Disable
    <2> HIDE DEF c2, t
    <2>4. work' \in Seq(WorkItem) /\ Sound(work', cfg, tunnels) /\ Saves(work', cfg, d)
      BY <2>1, <2>2, <2>3, ChangeAndSave
    <2> QED
      BY <1>4, <2>4 DEF Disable
  <1>5. ASSUME NEW n \in Names, Restart(n)
        PROVE  Result
    <2> DEFINE h == <<Stop({n})>>
               t == Start({n})
    <2>1. h \in Seq(WorkItem) /\ Len(h) = 1 /\ h[1].do = "stop"
      BY ItemsTyped
    <2>2. /\ t \in Seq(WorkItem) /\ Len(t) \in Nat
          /\ \A k \in DOMAIN t : t[k].do = "start" /\ cfg[t[k].name] # "absent"
      <3>1. n \in Configured
        BY <1>5 DEF Restart
      <3>2. /\ t \in Seq(WorkItem)
            /\ \A k \in DOMAIN t : t[k].do = "start" /\ t[k].name \in {n}
        BY StartFacts
      <3> HIDE DEF t
      <3> QED
        BY <3>1, <3>2 DEF Configured
    <2>3. work' = h \o t
      BY <1>5 DEF Restart
    <2> HIDE DEF h, t
    <2>4. /\ work' \in Seq(WorkItem)
          /\ \A k \in DOMAIN work' : \/ work'[k].do = "stop"
                                     \/ work'[k].do = "start" /\ cfg[work'[k].name] # "absent"
      <3>1. 1 \in Nat
        OBVIOUS
      <3>2. Joins(work', h, 1, t, Len(t))
        BY <3>1, <2>1, <2>2, <2>3, ConcatFacts, Zenon
      <3> QED
        BY <2>1, <2>2, <3>2 DEF Joins
    <2> QED
      BY <1>5, <2>4, StartAndStop DEF Restart
  <1>6. ASSUME NEW g, StartGroup(g)
        PROVE  Result
    <2> DEFINE S == {n \in Configured : GroupOf[n] = g}
               t == Start(S)
    <2>1. S \in SUBSET Names /\ \A n \in S : cfg[n] # "absent"
      BY DEF Configured
    <2>2. work' = t
      BY <1>6 DEF StartGroup
    <2> HIDE DEF S
    <2>3. /\ t \in Seq(WorkItem)
          /\ \A k \in DOMAIN t : t[k].do = "start" /\ t[k].name \in S
      BY <2>1, StartFacts
    <2>4. Sound(t, cfg, tunnels) /\ (cfg = d => Saves(t, cfg, d))
      BY <2>1, <2>3, StartAndStop
    <2> QED
      BY <1>6, <2>2, <2>3, <2>4 DEF StartGroup
  <1>7. ASSUME NEW g, StopGroup(g)
        PROVE  Result
    <2> DEFINE S == {n \in Names : tunnels[n] # 0 /\ GroupOf[n] = g}
    <2>1. PICK order \in SeqExt!SetToSeqs(S) :
            work' = [k \in DOMAIN order |-> Stop({order[k]})]
      BY <1>7 DEF StopGroup
    <2>2. order \in [1..SeqExt!Cardinality(S) -> S]
      BY DEF SeqExt!SetToSeqs
    <2>3. SeqExt!Cardinality(S) \in Nat
      BY SetToSeqFacts
    <2>4. /\ work' \in Seq(WorkItem)
          /\ \A k \in DOMAIN work' : work'[k].do = "stop"
      <3> DEFINE m == SeqExt!Cardinality(S)
      <3>1. \A n \in S : Stop({n}) \in WorkItem /\ Stop({n}).do = "stop"
        BY ItemsTyped
      <3> HIDE DEF S, m
      <3>2. \A k \in 1..m : order[k] \in S
        BY <2>2 DEF m
      <3>3. work' = [k \in 1..m |-> Stop({order[k]})] /\ m \in Nat
        BY <2>1, <2>2, <2>3 DEF m
      <3> HIDE DEF Stop
      <3> QED
        BY <3>1, <3>2, <3>3
    <2> QED
      BY <1>7, <2>4, StartAndStop DEF StopGroup
  <1>8. ASSUME SaveNow
        PROVE  Result
    BY <1>8, JustSave DEF SaveNow
  <1>9. ASSUME StopDaemon
        PROVE  Result
    <2>1. /\ work' \in Seq(WorkItem)
          /\ \A k \in DOMAIN work' : work'[k].do \in {"stop", "trigger"}
      BY <1>9, ItemsTyped DEF StopDaemon
    <2> QED
      BY <1>9, <2>1, StartAndStop DEF StopDaemon
  <1> QED
    BY <1>1, <1>2, <1>3, <1>4, <1>5, <1>6, <1>7, <1>8, <1>9 DEF Ops

-----------------------------------------------------------------------------
(* The inductive invariant *)

GoroutineState ==
  [pc : {"starting", "listening", "error", "stopped"}, cancels : Nat, bound : BOOLEAN]

(* A daemon that does not run has no goroutines and no operation. *)
DownIsEmpty ==
  daemon = "down" => /\ work = <<>> /\ pending = NoCfg
                     /\ \A n \in Names : tunnels[n] = 0
                     /\ \A i \in Insts : inst[i] = NoInst

(* CancelOnce needs to know that what the map still names was never told   *)
(* to stop, PortReleased that only a listening goroutine has a port.       *)
Fresh == \A i \in Mapped : inst[i].cancels = 0
BoundListens ==
  Without({"serve"}) => \A i \in Insts : inst[i].bound => inst[i].pc = "listening"

InstInv == Fresh /\ CancelOnce /\ ToldToStop /\ NoOrphan /\ BoundListens
ManagerInv == TypeOK /\ DownIsEmpty /\ InstInv /\ Sound(work, cfg, tunnels)

LEMMA MappedFacts ==
  /\ \A i \in Insts : i \in Mapped <=> tunnels[i[1]] = i[2]
  /\ \A i \in Insts : i \in Mapped' <=> tunnels'[i[1]] = i[2]
  /\ Mapped \subseteq Insts /\ Mapped' \subseteq Insts
  BY DEF Mapped, Insts

LEMMA InstFacts ==
  /\ TypeOK => \A i \in Insts : /\ inst[i] \in GoroutineState
                                /\ inst[i].cancels \in Nat /\ inst[i].bound \in BOOLEAN
  /\ NoInst \in GoroutineState
  /\ NoInst.pc = "stopped" /\ NoInst.cancels = 0 /\ NoInst.bound = FALSE
  /\ \A i \in Insts : i[1] \in Names /\ i[2] \in 1..MaxInst /\ i = <<i[1], i[2]>>
                     /\ Name(i) = i[1]
  BY DEF TypeOK, GoroutineState, NoInst, Insts, Name

(* Steps that touch neither goroutines nor the map. *)
LEMMA QuietInst ==
  ASSUME InstInv, UNCHANGED <<inst, tunnels, faults>>, Awaited \subseteq Awaited'
  PROVE  InstInv'
  BY DEF InstInv, Fresh, CancelOnce, ToldToStop, NoOrphan, BoundListens, Mapped, Ended, Without

LEMMA QuietAwaited ==
  ASSUME ~Doing("wait")
  PROVE  Awaited \subseteq Awaited'
  BY DEF Awaited

(* stopTunnelLocked cancels what the map names, unmaps it and waits for it. *)
LEMMA StopInst ==
  ASSUME TypeOK, InstInv, stopTunnelLocked
  PROVE  /\ InstInv'
         /\ inst' \in [Insts -> GoroutineState]
         /\ tunnels' \in [Names -> 0..MaxInst]
         /\ Wait(ToAwait(Head(work).names)) \in WorkItem
         /\ \A n \in Names : tunnels'[n] # 0 => tunnels[n] # 0 /\ n \notin Head(work).names
  <1> DEFINE S == Head(work).names
  <1>1. work # <<>> /\ Head(work).do = "stop" /\ Awaited = {}
    BY DEF stopTunnelLocked, Doing, Awaited
  <1>2. \A n \in Names : /\ n \in S => tunnels'[n] = 0
                         /\ n \notin S => tunnels'[n] = tunnels[n]
    BY DEF stopTunnelLocked, Unmap
  <1>3. \A i \in Insts :
          IF i \in Mapped /\ i[1] \in S
          THEN /\ inst'[i].cancels = inst[i].cancels + 1 /\ inst'[i].pc = inst[i].pc
               /\ inst'[i].bound = inst[i].bound /\ inst'[i] \in GoroutineState
          ELSE inst'[i] = inst[i]
    BY InstFacts DEF stopTunnelLocked, Cancel, GoroutineState, Name
  <1>4. ToAwait(S) \subseteq Insts /\ \A i \in Insts : i \in ToAwait(S) <=> i \in Mapped /\ i[1] \in S
    BY MappedFacts DEF ToAwait, Name
  <1>5. Awaited' = ToAwait(S)
    <2>1. work' = <<Wait(ToAwait(S))>> \o Tail(work)
      BY DEF stopTunnelLocked
    <2>2. Wait(ToAwait(S)) \in WorkItem /\ Tail(work) \in Seq(WorkItem)
          /\ Wait(ToAwait(S)).do = "wait" /\ Wait(ToAwait(S)).insts = ToAwait(S)
      BY <1>1, <1>4, ItemsTyped DEF TypeOK
    <2> HIDE DEF S
    <2>3. work' # <<>> /\ Head(work') = Wait(ToAwait(S))
      BY <2>1, <2>2
    <2> QED
      BY <2>2, <2>3 DEF Awaited, Doing
  <1> HIDE DEF S
  <1>6. \A i \in Insts : i \in Mapped' => i \in Mapped /\ i[1] \notin S
    BY <1>2, MappedFacts, InstFacts
  <1>7. \A i \in Insts : i \in Mapped /\ i \notin Mapped' => i[1] \in S
    BY <1>2, MappedFacts, InstFacts
  <1>8. Fresh' /\ CancelOnce'
    BY <1>3, <1>6, MappedFacts, InstFacts DEF InstInv, Fresh, CancelOnce
  <1>9. ToldToStop'
    BY <1>3, <1>7, InstFacts DEF InstInv, ToldToStop, Ended
  <1>10. NoOrphan' /\ BoundListens'
    BY <1>1, <1>3, <1>4, <1>5, <1>7
    DEF InstInv, NoOrphan, BoundListens, Ended, Without, stopTunnelLocked
  <1>11. inst' \in [Insts -> GoroutineState]
    <2>1. \A i \in Insts : inst'[i] \in GoroutineState
      BY <1>3, InstFacts
    <2> QED
      BY <2>1 DEF stopTunnelLocked
  <1>12. tunnels' \in [Names -> 0..MaxInst]
    <2>1. \A n \in Names : tunnels'[n] \in 0..MaxInst
      BY <1>2, ManagerAssumption DEF TypeOK
    <2> QED
      BY <2>1 DEF stopTunnelLocked, Unmap
  <1>13. Wait(ToAwait(S)) \in WorkItem
    BY <1>4, ItemsTyped
  <1> QED
    BY <1>2, <1>8, <1>9, <1>10, <1>11, <1>12, <1>13 DEF InstInv, S

LEMMA WaitInst ==
  ASSUME TypeOK, InstInv, waitTunnelStopped
  PROVE  InstInv' /\ inst' \in [Insts -> GoroutineState]
  <1>1. \A i \in Insts : inst'[i] = inst[i] \/ (Ended(i) /\ inst'[i] = NoInst)
    BY DEF waitTunnelStopped
  <1>2. UNCHANGED <<tunnels, faults>> /\ Mapped' = Mapped
    BY DEF waitTunnelStopped, Mapped
  <1>3. inst' \in [Insts -> GoroutineState]
    <2>1. \A i \in Insts : inst'[i] \in GoroutineState
      BY <1>1, InstFacts
    <2> QED
      BY <2>1 DEF waitTunnelStopped
  <1>4. Fresh' /\ CancelOnce'
    BY <1>1, <1>2, MappedFacts, InstFacts DEF InstInv, Fresh, CancelOnce
  <1>5. ToldToStop'
    BY <1>1, <1>2, InstFacts DEF InstInv, ToldToStop, Ended
  <1>6. NoOrphan'
    <2>1. Without({"slowstop"}) => \A i \in Awaited : Ended(i)
      BY DEF waitTunnelStopped, TimesOut, Without
    <2> QED
      BY <1>1, <1>2, <2>1, InstFacts DEF InstInv, NoOrphan, Ended, Without
  <1>7. BoundListens'
    BY <1>1, <1>2, InstFacts DEF InstInv, BoundListens, Without
  <1> QED
    BY <1>3, <1>4, <1>5, <1>6, <1>7 DEF InstInv

(* startOne takes a number nobody uses. *)
LEMMA StartInst ==
  ASSUME TypeOK, InstInv, startOne
  PROVE  /\ InstInv' /\ inst' \in [Insts -> GoroutineState]
         /\ tunnels' \in [Names -> 0..MaxInst]
         /\ Head(work).name \in Names
         /\ \A n \in Names : n # Head(work).name => tunnels'[n] = tunnels[n]
  <1> DEFINE n == Head(work).name
             k == Min(Unused(n))
             i == <<n, k>>
  <1>1. n \in Names
    BY TailFacts, ItemFacts DEF startOne, Doing, TypeOK
  <1>2. k \in 1..MaxInst /\ inst[i] = NoInst
    <2>1. Unused(n) \in SUBSET Nat /\ Unused(n) # {}
      BY DEF Unused, startOne
    <2>2. k \in Unused(n)
      BY <2>1, MinFacts
    <2> QED
      BY <2>2 DEF Unused
  <1>3. i \in Insts /\ i[1] = n /\ i[2] = k
    BY <1>1, <1>2 DEF Insts
  <1>4. /\ inst' = [inst EXCEPT ![i].pc = "starting"]
        /\ tunnels' = [tunnels EXCEPT ![n] = k] /\ tunnels[n] = 0
        /\ UNCHANGED faults /\ ~Doing("wait")
    BY DEF startOne, Doing
  <1> HIDE DEF n, k, i
  <1>5. /\ inst'[i] \in GoroutineState /\ inst'[i].pc = "starting"
        /\ inst'[i].cancels = 0 /\ inst'[i].bound = FALSE
        /\ \A j \in Insts : j # i => inst'[j] = inst[j]
    BY <1>2, <1>3, <1>4, InstFacts DEF TypeOK, GoroutineState
  <1>6. /\ tunnels' \in [Names -> 0..MaxInst] /\ tunnels'[n] = k
        /\ \A o \in Names : o # n => tunnels'[o] = tunnels[o]
    BY <1>1, <1>2, <1>4 DEF TypeOK
  <1>7. inst' \in [Insts -> GoroutineState]
    <2>1. \A j \in Insts : inst'[j] \in GoroutineState
      BY <1>5, InstFacts
    <2> QED
      BY <1>4, <2>1 DEF TypeOK
  <1>8. i \in Mapped' /\ \A j \in Insts : j # i => (j \in Mapped' <=> j \in Mapped)
    <2>1. i \in Mapped'
      BY <1>3, <1>6, MappedFacts
    <2>2. ASSUME NEW j \in Insts, j # i PROVE j \in Mapped' <=> j \in Mapped
      <3>1. CASE j[1] = n
        <4>1. j[2] # k
          BY <3>1, <2>2, <1>3, InstFacts
        <4>2. j[2] # 0
          BY InstFacts
        <4> QED
          BY <3>1, <4>1, <4>2, <1>4, <1>6, MappedFacts
      <3>2. CASE j[1] # n
        BY <3>2, <1>6, MappedFacts, InstFacts
      <3> QED
        BY <3>1, <3>2
    <2> QED
      BY <2>1, <2>2
  <1>9. Fresh' /\ CancelOnce'
    <2>1. \A j \in Insts : j \in Mapped' => inst'[j].cancels = 0
      BY <1>5, <1>8 DEF InstInv, Fresh
    <2>2. \A j \in Insts : inst'[j].cancels <= 1
      BY <1>5 DEF InstInv, CancelOnce
    <2> QED
      BY <2>1, <2>2, MappedFacts DEF Fresh, CancelOnce
  <1>10. ToldToStop'
    BY <1>5, <1>8 DEF InstInv, ToldToStop, Ended
  <1>11. NoOrphan' /\ BoundListens'
    BY <1>4, <1>5, <1>8 DEF InstInv, NoOrphan, BoundListens, Ended, Without, Awaited
  <1> QED
    BY <1>1, <1>6, <1>7, <1>9, <1>10, <1>11 DEF InstInv, n

(* One goroutine moves on. *)
LEMMA GoroutineInst ==
  ASSUME TypeOK, InstInv, NEW i \in Insts, NEW r \in GoroutineState,
         inst' = [inst EXCEPT ![i] = r], UNCHANGED <<faults, tunnels, work>>,
         r.cancels \in {inst[i].cancels, 0},
         r.pc \in {"starting", "listening"} => ~Ended(i) /\ r.cancels = inst[i].cancels,
         r.bound /\ Without({"serve"}) => r.pc = "listening"
  PROVE  InstInv' /\ inst' \in [Insts -> GoroutineState]
  <1>1. inst'[i] = r /\ \A j \in Insts : j # i => inst'[j] = inst[j]
    BY DEF TypeOK
  <1>2. Mapped' = Mapped /\ Awaited' = Awaited
    BY DEF Mapped, Awaited, Doing
  <1>3. inst' \in [Insts -> GoroutineState]
    <2>1. \A j \in Insts : inst'[j] \in GoroutineState
      BY <1>1, InstFacts
    <2> QED
      BY <2>1 DEF TypeOK
  <1>4. r.pc \in {"starting", "listening", "error", "stopped"}
    BY DEF GoroutineState
  <1>5. Fresh' /\ CancelOnce'
    BY <1>1, <1>2, MappedFacts DEF InstInv, Fresh, CancelOnce
  <1>6. ToldToStop'
    BY <1>1, <1>2, <1>4 DEF InstInv, ToldToStop, Ended
  <1>7. NoOrphan'
    BY <1>1, <1>2, <1>4 DEF InstInv, NoOrphan, Ended, Without
  <1>8. BoundListens'
    BY <1>1 DEF InstInv, BoundListens, Without
  <1> QED
    BY <1>3, <1>5, <1>6, <1>7, <1>8 DEF InstInv

-----------------------------------------------------------------------------
(* Every step keeps it *)

LEMMA InitManager == Init => ManagerInv
  <1> SUFFICES ASSUME Init PROVE ManagerInv
    OBVIOUS
  <1>1. /\ inst = [i \in Insts |-> NoInst] /\ tunnels = [n \in Names |-> 0] /\ work = <<>>
        /\ pending = NoCfg /\ daemon = "down" /\ faults \in Scenarios
    BY DEF Init
  <1>2. disk \in [Paths -> Configs] /\ cfg \in Configs
    <2>1. PICK c \in Configs : disk = [p \in Paths |-> c]
      BY DEF Init
    <2>2. LoadPath \in Paths
      BY DEF LoadPath, Paths
    <2> QED
      BY <2>1, <2>2 DEF Init
  <1>3. inst \in [Insts -> GoroutineState] /\ tunnels \in [Names -> 0..MaxInst]
    BY <1>1, InstFacts, ManagerAssumption
  <1>4. work \in Seq(WorkItem)
    BY <1>1
  <1>5. TypeOK
    BY <1>1, <1>2, <1>3, <1>4 DEF TypeOK, GoroutineState
  <1>6. InstInv
    BY <1>1, MappedFacts, InstFacts
    DEF InstInv, Fresh, CancelOnce, ToldToStop, NoOrphan, BoundListens, Ended
  <1>7. Sound(work, cfg, tunnels)
    BY <1>1 DEF Sound, ConfigFirst, StartsConfigured, RunsConfigured
  <1> QED
    BY <1>1, <1>5, <1>6, <1>7 DEF ManagerInv, DownIsEmpty

LEMMA SettledWhenFree ==
  ASSUME ManagerInv, MuFree
  PROVE  Settled(cfg, tunnels)
  BY SaveSettled DEF ManagerInv, TypeOK, MuFree, Settled

LEMMA OpsStep ==
  ASSUME ManagerInv, Ops
  PROVE  ManagerInv' /\ daemon # "down"
  <1>1. MuFree
    BY DEF Ops, Add, Remove, Enable, Disable, Restart, StartGroup, StopGroup, SaveNow,
           StopDaemon, CanBegin
  <1>2. /\ CanBegin /\ UNCHANGED <<faults, daemon, cfg, disk, tunnels, inst, pending>>
        /\ work' \in Seq(WorkItem)
        /\ Sound(work', cfg, tunnels)
    BY <1>1, SettledWhenFree, Operations DEF ManagerInv
  <1>3. ~Doing("wait") /\ daemon # "down"
    BY <1>1, <1>2 DEF MuFree, Doing, CanBegin
  <1>4. InstInv'
    BY <1>2, <1>3, QuietInst, QuietAwaited DEF ManagerInv
  <1>5. TypeOK'
    BY <1>2 DEF ManagerInv, TypeOK
  <1> QED
    BY <1>2, <1>3, <1>4, <1>5 DEF ManagerInv, DownIsEmpty

LEMMA ReloadSteps ==
  ASSUME ManagerInv, ReloadRead \/ Reload
  PROVE  ManagerInv' /\ daemon # "down"
  <1>0. LoadPath \in Paths
    BY DEF LoadPath, Paths
  <1>1. CASE ReloadRead
    <2>1. UNCHANGED <<faults, daemon, cfg, disk, tunnels, inst, work>> /\ daemon # "down"
          /\ pending' = disk[LoadPath]
      BY <1>1 DEF ReloadRead, CanBegin
    <2>2. Awaited' = Awaited
      BY <2>1 DEF Awaited, Doing
    <2>3. InstInv'
      BY <2>1, <2>2, QuietInst DEF ManagerInv
    <2>4. TypeOK'
      BY <1>0, <2>1 DEF ManagerInv, TypeOK
    <2> QED
      BY <2>1, <2>3, <2>4 DEF ManagerInv, DownIsEmpty
  <1>2. CASE Reload
    <2>1. /\ UNCHANGED <<faults, daemon, cfg, disk, tunnels, inst>> /\ pending' = NoCfg
          /\ work' = <<Stop(Names), Config(pending)>> \o Start(Autostart(pending))
          /\ pending \in Configs /\ daemon # "down" /\ ~Doing("wait")
      BY <1>2 DEF Reload, ManagerInv, TypeOK, DownIsEmpty, MuFree, Doing
    <2>2. work' \in Seq(WorkItem) /\ Sound(work', cfg, tunnels)
      BY <2>1, StopAndReload
    <2>3. InstInv'
      BY <2>1, QuietInst, QuietAwaited DEF ManagerInv
    <2>4. TypeOK'
      BY <2>1, <2>2 DEF ManagerInv, TypeOK
    <2> QED
      BY <2>1, <2>2, <2>3, <2>4 DEF ManagerInv, DownIsEmpty
  <1> QED
    BY <1>1, <1>2

(* The head of the work list and the rest of it. *)
LEMMA DoingFacts ==
  ASSUME TypeOK, NEW what, Doing(what)
  PROVE  /\ work # <<>> /\ Head(work) = work[1] /\ work[1].do = what /\ work[1] \in WorkItem
         /\ Tail(work) \in Seq(WorkItem) /\ work \in Seq(WorkItem)
  BY TailFacts DEF Doing, TypeOK

LEMMA ItemDaemon ==
  ASSUME ManagerInv, Item
  PROVE  daemon # "down" /\ daemon' # "down"
  <1>1. work # <<>>
    BY DEF Item, Doing, stopTunnelLocked, waitTunnelStopped, setConfig, SaveTruncate,
           SaveWrite, SaveFails, startOne, startOneSkips, triggerShutdown, drained
  <1>2. daemon # "down"
    BY <1>1 DEF ManagerInv, DownIsEmpty
  <1> QED
    BY <1>2 DEF Item, stopTunnelLocked, waitTunnelStopped, setConfig, SaveTruncate,
           SaveWrite, SaveFails, startOne, startOneSkips, triggerShutdown, drained

LEMMA ItemStep ==
  ASSUME ManagerInv, Item
  PROVE  ManagerInv'
  <1>0. TypeOK /\ InstInv /\ Sound(work, cfg, tunnels) /\ DownIsEmpty'
    BY ItemDaemon DEF ManagerInv, DownIsEmpty
  <1>1. CASE stopTunnelLocked
    <2>1. work # <<>> /\ Head(work) = work[1] /\ work[1].do = "stop" /\ work \in Seq(WorkItem)
      BY <1>0, <1>1, DoingFacts DEF stopTunnelLocked
    <2> DEFINE a == Wait(ToAwait(Head(work).names))
    <2>2. /\ InstInv' /\ inst' \in [Insts -> GoroutineState]
          /\ tunnels' \in [Names -> 0..MaxInst] /\ a \in WorkItem
          /\ \A n \in Names : tunnels'[n] # 0 => tunnels[n] # 0 /\ n \notin Head(work).names
      BY <1>0, <1>1, StopInst
    <2>3. work' = <<a>> \o Tail(work) /\ UNCHANGED <<faults, daemon, cfg, disk, pending>>
      BY <1>1 DEF stopTunnelLocked
    <2>4. a.do = "wait"
      BY DEF Wait
    <2> HIDE DEF a
    <2>5. work' \in Seq(WorkItem) /\ Sound(work', cfg, tunnels')
      BY <1>0, <2>1, <2>2, <2>3, <2>4, StopSound
    <2>6. TypeOK'
      BY <1>0, <2>2, <2>3, <2>5 DEF TypeOK, GoroutineState
    <2> QED
      BY <1>0, <2>2, <2>3, <2>5, <2>6 DEF ManagerInv
  <1>2. CASE waitTunnelStopped
    <2>1. work # <<>> /\ work[1].do = "wait" /\ Tail(work) \in Seq(WorkItem) /\ work \in Seq(WorkItem)
      BY <1>0, <1>2, DoingFacts DEF waitTunnelStopped
    <2>2. InstInv' /\ inst' \in [Insts -> GoroutineState]
      BY <1>0, <1>2, WaitInst
    <2>3. work' = Tail(work) /\ UNCHANGED <<faults, daemon, cfg, disk, tunnels, pending>>
      BY <1>2 DEF waitTunnelStopped, Pop
    <2>4. Sound(work', cfg, tunnels)
      BY <1>0, <2>1, <2>3, PopSound DEF Popped
    <2>5. TypeOK'
      BY <1>0, <2>1, <2>2, <2>3 DEF TypeOK, GoroutineState
    <2> QED
      BY <1>0, <2>2, <2>3, <2>4, <2>5 DEF ManagerInv
  <1>3. CASE setConfig
    <2>1. /\ work # <<>> /\ Head(work) = work[1] /\ work[1].do = "config"
          /\ work[1] \in WorkItem /\ Tail(work) \in Seq(WorkItem) /\ work \in Seq(WorkItem)
      BY <1>0, <1>3, DoingFacts DEF setConfig
    <2>2. /\ work' = Tail(work) /\ cfg' = work[1].to /\ ~Doing("wait")
          /\ UNCHANGED <<faults, daemon, disk, tunnels, inst, pending>>
      BY <1>3, <2>1 DEF setConfig, Pop, Doing
    <2>3. Sound(work', cfg', tunnels)
      BY <1>0, <2>1, <2>2, ConfigSound
    <2>4. InstInv'
      BY <1>0, <2>2, QuietInst, QuietAwaited
    <2>5. TypeOK'
      BY <1>0, <2>1, <2>2, ItemFacts DEF TypeOK
    <2> QED
      BY <1>0, <2>2, <2>3, <2>4, <2>5 DEF ManagerInv
  <1>4. CASE SaveTruncate \/ SaveWrite \/ startOneSkips \/ triggerShutdown \/ drained
    <2>1. /\ work # <<>> /\ work[1].do \in Popped /\ Tail(work) \in Seq(WorkItem)
          /\ work \in Seq(WorkItem) /\ ~Doing("wait")
      BY <1>0, <1>4, DoingFacts
      DEF SaveTruncate, SaveWrite, startOneSkips, triggerShutdown, drained, Popped, Doing
    <2>2. /\ work' = Tail(work) /\ UNCHANGED <<faults, cfg, tunnels, inst, pending>>
          /\ daemon' \in {daemon, "shutdown", "drained"}
          /\ disk' = disk \/ \E c \in Configs : disk' = [disk EXCEPT ![SavePath] = c]
      <3>1. NoTunnels \in Configs /\ cfg \in Configs
        BY <1>0 DEF NoTunnels, Configs, TypeOK
      <3> QED
        BY <1>4, <3>1
        DEF SaveTruncate, SaveWrite, startOneSkips, triggerShutdown, drained, Pop
    <2>3. Sound(work', cfg, tunnels)
      BY <1>0, <2>1, <2>2, PopSound
    <2>4. InstInv'
      BY <1>0, <2>1, <2>2, QuietInst, QuietAwaited
    <2>5. disk' \in [Paths -> Configs]
      BY <1>0, <2>2 DEF TypeOK
    <2>6. TypeOK'
      BY <1>0, <2>1, <2>2, <2>5 DEF TypeOK
    <2> QED
      BY <1>0, <2>2, <2>3, <2>4, <2>6 DEF ManagerInv
  <1>5. CASE SaveFails
    <2>1. /\ work # <<>> /\ work[1].do \in {"truncate", "write"} /\ work \in Seq(WorkItem)
          /\ ~Doing("wait") /\ work' = <<>>
          /\ UNCHANGED <<faults, daemon, cfg, disk, tunnels, inst, pending>>
      BY <1>0, <1>5, DoingFacts DEF SaveFails, Doing
    <2>2. \A n \in Names : tunnels[n] # 0 => cfg[n] # "absent"
      BY <1>0, <2>1, SaveSettled
    <2>3. Sound(work', cfg, tunnels)
      BY <2>1, <2>2 DEF Sound, ConfigFirst, StartsConfigured, RunsConfigured, Says
    <2>4. InstInv'
      BY <1>0, <2>1, QuietInst, QuietAwaited
    <2>5. work' \in Seq(WorkItem)
      BY <2>1
    <2>6. TypeOK'
      BY <1>0, <2>1, <2>5 DEF TypeOK
    <2> QED
      BY <1>0, <2>1, <2>3, <2>4, <2>6 DEF ManagerInv
  <1>6. CASE startOne
    <2>1. /\ work # <<>> /\ Head(work) = work[1] /\ work[1].do = "start"
          /\ Tail(work) \in Seq(WorkItem) /\ work \in Seq(WorkItem)
      BY <1>0, <1>6, DoingFacts DEF startOne
    <2>2. /\ InstInv' /\ inst' \in [Insts -> GoroutineState]
          /\ tunnels' \in [Names -> 0..MaxInst] /\ work[1].name \in Names
          /\ \A n \in Names : n # work[1].name => tunnels'[n] = tunnels[n]
      BY <1>0, <1>6, <2>1, StartInst
    <2>3. work' = Tail(work) /\ UNCHANGED <<faults, daemon, cfg, disk, pending>>
      BY <1>6 DEF startOne, Pop
    <2>4. Sound(work', cfg, tunnels) /\ Says(work', cfg, work[1].name)
      BY <1>0, <2>1, <2>3, PopSound DEF Popped
    <2>5. Sound(work', cfg, tunnels')
      BY <2>2, <2>4 DEF Sound, RunsConfigured
    <2>6. TypeOK'
      BY <1>0, <2>1, <2>2, <2>3 DEF TypeOK, GoroutineState
    <2> QED
      BY <1>0, <2>2, <2>3, <2>5, <2>6 DEF ManagerInv
  <1> QED
    BY <1>1, <1>2, <1>3, <1>4, <1>5, <1>6 DEF Item

LEMMA GoroutineStep ==
  ASSUME ManagerInv, NEW i \in Insts, Goroutine(i) \/ ServeFail(i) \/ Finalize(i)
  PROVE  ManagerInv' /\ daemon # "down"
  <1>1. /\ UNCHANGED <<faults, daemon, cfg, disk, tunnels, work, pending>>
        /\ inst[i].pc # "stopped"
    BY DEF Goroutine, Bind, BindFail, Stopped, ServeFail, Finalize
  <1>2. daemon # "down"
    BY <1>1, InstFacts DEF ManagerInv, DownIsEmpty
  <1>3. inst \in [Insts -> GoroutineState] /\ inst[i] \in GoroutineState
        /\ inst[i].cancels \in Nat /\ TypeOK /\ InstInv
    BY InstFacts DEF ManagerInv, TypeOK, GoroutineState
  <1>4. PICK r \in GoroutineState :
          /\ inst' = [inst EXCEPT ![i] = r]
          /\ r.cancels \in {inst[i].cancels, 0}
          /\ r.pc \in {"starting", "listening"} => ~Ended(i) /\ r.cancels = inst[i].cancels
          /\ r.bound /\ Without({"serve"}) => r.pc = "listening"
    <2>1. CASE Bind(i)
      <3> DEFINE r == [inst[i] EXCEPT !.pc = "listening", !.bound = TRUE]
      <3>1. r \in GoroutineState /\ r.pc = "listening" /\ r.cancels = inst[i].cancels
        BY <1>3 DEF GoroutineState
      <3>2. inst' = [inst EXCEPT ![i] = r] /\ ~Ended(i)
        BY <2>1, <1>3 DEF Bind, Ended
      <3> QED
        BY <3>1, <3>2
    <2>2. ASSUME NEW pc \in {"error", "stopped"}, NEW b \in BOOLEAN, Return(i, pc, b),
                 b => "serve" \in faults
          PROVE  \E r \in GoroutineState :
                   /\ inst' = [inst EXCEPT ![i] = r]
                   /\ r.cancels \in {inst[i].cancels, 0}
                   /\ r.pc \in {"starting", "listening"} => ~Ended(i) /\ r.cancels = inst[i].cancels
                   /\ r.bound /\ Without({"serve"}) => r.pc = "listening"
      <3> DEFINE q == [inst[i] EXCEPT !.pc = pc, !.bound = b]
      <3>1. q \in GoroutineState /\ q.pc = pc /\ q.cancels = inst[i].cancels /\ q.bound = b
        BY <1>3 DEF GoroutineState
      <3>2. inst' = [inst EXCEPT ![i] = q] \/ inst' = [inst EXCEPT ![i] = NoInst]
        BY <2>2 DEF Return
      <3>3. ~(b /\ Without({"serve"}))
        BY <2>2 DEF Without
      <3> HIDE DEF q
      <3>4. CASE inst' = [inst EXCEPT ![i] = q]
        BY <3>1, <3>3, <3>4
      <3>5. CASE inst' = [inst EXCEPT ![i] = NoInst]
        BY <3>5, InstFacts
      <3> QED
        BY <3>2, <3>4, <3>5
    <2> QED
      BY <2>1, <2>2 DEF Goroutine, BindFail, Stopped, ServeFail, Finalize
  <1>5. InstInv' /\ inst' \in [Insts -> GoroutineState]
    BY <1>1, <1>3, <1>4, GoroutineInst
  <1>6. TypeOK'
    BY <1>1, <1>3, <1>5 DEF TypeOK, GoroutineState
  <1> QED
    BY <1>1, <1>2, <1>5, <1>6 DEF ManagerInv, DownIsEmpty

LEMMA BootItems ==
  ASSUME NEW c \in Configs, NEW tn, \A n \in Names : tn[n] = 0
  PROVE  LET w == Start(Autostart(c))
         IN  w \in Seq(WorkItem) /\ Sound(w, c, tn) /\ Saves(w, c, c)
  <1> DEFINE w == Start(Autostart(c))
  <1>1. Autostart(c) \in SUBSET Names
    BY DEF Autostart
  <1>2. /\ w \in Seq(WorkItem)
        /\ \A k \in DOMAIN w : w[k].do = "start" /\ w[k].name \in Autostart(c)
    BY <1>1, StartFacts
  <1>3. Settled(c, tn)
    BY DEF Settled
  <1> HIDE DEF w
  <1>4. \A k \in DOMAIN w : w[k].do = "start" /\ c[w[k].name] # "absent"
    BY <1>2 DEF Autostart
  <1>5. Sound(w, c, tn) /\ Saves(w, c, c)
    BY <1>2, <1>3, <1>4, StartAndStop
  <1> QED
    BY <1>2, <1>5 DEF w

LEMMA DrainItems ==
  /\ <<Stop(Names), Drained>> \in Seq(WorkItem)
  /\ \A k \in DOMAIN <<Stop(Names), Drained>> :
       <<Stop(Names), Drained>>[k].do \in {"stop", "drained"}
  BY ItemsTyped

LEMMA DaemonSteps ==
  ASSUME ManagerInv, Boot \/ Signal \/ Drain \/ Exit \/ Crash \/ EditConfig
  PROVE  ManagerInv'
  <1>0. TypeOK /\ InstInv /\ Sound(work, cfg, tunnels) /\ DownIsEmpty
    BY DEF ManagerInv
  <1>1. LoadPath \in Paths /\ disk[LoadPath] \in Configs
    BY <1>0 DEF LoadPath, Paths, TypeOK
  <1>2. CASE Boot
    <2>1. /\ daemon = "down" /\ daemon' = "up" /\ cfg' = disk[LoadPath]
          /\ work' = Start(Autostart(disk[LoadPath]))
          /\ UNCHANGED <<faults, disk, tunnels, inst, pending>>
      BY <1>2 DEF Boot
    <2>2. work = <<>> /\ \A n \in Names : tunnels[n] = 0
      BY <1>0, <2>1 DEF DownIsEmpty
    <2>3. work' \in Seq(WorkItem) /\ Sound(work', cfg', tunnels)
      BY <1>1, <2>1, <2>2, BootItems
    <2>4. InstInv'
      BY <1>0, <2>1, <2>2, QuietInst, QuietAwaited DEF Doing
    <2>5. TypeOK'
      BY <1>0, <1>1, <2>1, <2>3 DEF TypeOK
    <2> QED
      BY <2>1, <2>3, <2>4, <2>5 DEF ManagerInv, DownIsEmpty
  <1>3. CASE Signal \/ EditConfig
    <2>1. /\ UNCHANGED <<faults, cfg, tunnels, inst, work, pending>>
          /\ daemon' = daemon \/ daemon' = "shutdown"
      BY <1>3 DEF Signal, EditConfig
    <2>2. disk' \in [Paths -> Configs]
      BY <1>0, <1>1, <1>3 DEF TypeOK, Signal, EditConfig
    <2>3. Awaited' = Awaited
      BY <2>1 DEF Awaited, Doing
    <2>4. InstInv'
      BY <1>0, <2>1, <2>3, QuietInst
    <2>5. TypeOK'
      BY <1>0, <2>1, <2>2 DEF TypeOK
    <2> QED
      BY <1>0, <2>1, <2>4, <2>5 DEF ManagerInv, DownIsEmpty
  <1>4. CASE Drain
    <2>1. /\ daemon' = "draining" /\ work' = <<Stop(Names), Drained>>
          /\ UNCHANGED <<faults, cfg, disk, tunnels, inst, pending>> /\ MuFree
      BY <1>4 DEF Drain
    <2>2. Settled(cfg, tunnels)
      BY <2>1, SettledWhenFree
    <2>3. work' \in Seq(WorkItem) /\ Sound(work', cfg, tunnels)
      BY <2>1, <2>2, DrainItems, StartAndStop
    <2>4. InstInv'
      BY <1>0, <2>1, QuietInst, QuietAwaited DEF Doing, MuFree
    <2>5. TypeOK'
      BY <1>0, <2>1, <2>3 DEF TypeOK
    <2> QED
      BY <2>1, <2>3, <2>4, <2>5 DEF ManagerInv, DownIsEmpty
  <1>5. CASE Exit \/ Crash
    <2>1. /\ daemon' = "down" /\ tunnels' = [n \in Names |-> 0]
          /\ inst' = [i \in Insts |-> NoInst] /\ work' = <<>> /\ pending' = NoCfg
          /\ UNCHANGED <<faults, cfg, disk>>
      BY <1>5 DEF Exit, Crash, Gone
    <2>2. inst' \in [Insts -> GoroutineState] /\ tunnels' \in [Names -> 0..MaxInst]
      BY <2>1, InstFacts, ManagerAssumption
    <2>3. work' \in Seq(WorkItem)
      BY <2>1
    <2>4. TypeOK'
      BY <1>0, <2>1, <2>2, <2>3 DEF TypeOK, GoroutineState
    <2>5. InstInv'
      BY <2>1, MappedFacts, InstFacts
      DEF InstInv, Fresh, CancelOnce, ToldToStop, NoOrphan, BoundListens, Ended
    <2>6. Sound(work', cfg', tunnels')
      BY <2>1 DEF Sound, ConfigFirst, StartsConfigured, RunsConfigured
    <2> QED
      BY <2>1, <2>4, <2>5, <2>6 DEF ManagerInv, DownIsEmpty
  <1> QED
    BY <1>2, <1>3, <1>4, <1>5

LEMMA NextManager ==
  ASSUME ManagerInv, [Next]_vars
  PROVE  ManagerInv'
  <1>1. CASE UNCHANGED vars
    BY <1>1 DEF vars, ManagerInv, TypeOK, DownIsEmpty, InstInv, Fresh, CancelOnce, ToldToStop,
                NoOrphan, BoundListens, Mapped, Awaited, Doing, Ended, Without
  <1>2. CASE HandleControl
    BY <1>2, OpsStep, ReloadSteps DEF HandleControl, Ops
  <1> QED
    BY <1>1, <1>2, ReloadSteps, ItemStep, GoroutineStep, DaemonSteps DEF Next

LEMMA ManagerInvariant == Spec => []ManagerInv
  BY InitManager, NextManager, PTL DEF Spec

-----------------------------------------------------------------------------
(* The configuration file *)

(* The file agrees with memory once the work list is done, and a reload    *)
(* that has read it finds nothing about to overwrite it.                   *)
FileInv ==
  Without({"save", "edit", "overlap"}) =>
    /\ daemon # "down" => Saves(work, cfg, disk[LoadPath])
    /\ pending # NoCfg => /\ pending = disk[LoadPath]
                          /\ \A k \in DOMAIN work : work[k].do \notin {"truncate", "write"}

LEMMA PopSaves ==
  ASSUME NEW w \in Seq(WorkItem), w # <<>>, NEW c, NEW d, Saves(w, c, d)
  PROVE  /\ w[1].do \in {"wait", "trigger", "drained", "start"} => Saves(Tail(w), c, d)
         /\ w[1].do = "config" => Saves(Tail(w), w[1].to, d)
         /\ w[1].do = "truncate" => \A e : Saves(Tail(w), c, e)
         /\ w[1].do = "write" => Saves(Tail(w), c, c)
         /\ (\A k \in DOMAIN w : w[k].do \notin {"truncate", "write"}) =>
              \A k \in DOMAIN Tail(w) : Tail(w)[k].do \notin {"truncate", "write"}
  <1> DEFINE v == Tail(w)
  <1>1. /\ 1 \in DOMAIN w
        /\ \A k \in DOMAIN v : k + 1 \in DOMAIN w /\ v[k] = w[k + 1]
        /\ \A k \in DOMAIN w : k # 1 => k - 1 \in DOMAIN v /\ v[k - 1] = w[k]
        /\ DOMAIN w \in SUBSET Nat /\ DOMAIN v \in SUBSET Nat /\ \A k \in DOMAIN w : k >= 1
    BY TailFacts
  <1> HIDE DEF v
  <1>2. Truncates(v)
    <2> SUFFICES ASSUME NEW k \in DOMAIN v, v[k].do = "truncate"
                 PROVE  k + 1 \in DOMAIN v /\ v[k + 1].do = "write"
      BY DEF Truncates
    <2>1. (k + 1) + 1 \in DOMAIN w /\ w[(k + 1) + 1].do = "write"
      BY <1>1 DEF Saves, Truncates
    <2>2. ((k + 1) + 1) - 1 = k + 1 /\ (k + 1) + 1 # 1
      BY <1>1
    <2> QED
      BY <2>1, <2>2, <1>1
  <1>3. WritesLast(v)
    BY <1>1 DEF Saves, WritesLast
  <1>4. w[1].do # "write" /\ (\A k \in DOMAIN v : v[k].do # "write") =>
          \A k \in DOMAIN w : w[k].do # "write"
    BY <1>1
  <1>5. ASSUME w[1].do \in {"wait", "trigger", "drained", "start"} PROVE Unwritten(v, c, d)
    BY <1>1, <1>4, <1>5, SMTT(60) DEF Saves, Unwritten
  <1>6. ASSUME w[1].do = "config" PROVE Unwritten(v, w[1].to, d)
    BY <1>1, <1>4, <1>6 DEF Saves, Unwritten
  <1>7. ASSUME w[1].do = "truncate", NEW e PROVE Unwritten(v, c, e)
    <2>1. 2 \in DOMAIN w /\ w[2].do = "write"
      BY <1>1, <1>7 DEF Saves, Truncates
    <2>2. 1 \in DOMAIN v /\ v[1].do = "write"
      BY <2>1, <1>1
    <2> QED
      BY <2>2 DEF Unwritten
  <1>8. ASSUME w[1].do = "write" PROVE Unwritten(v, c, c)
    BY <1>1, <1>8 DEF Saves, WritesLast, Unwritten
  <1> QED
    BY <1>1, <1>2, <1>3, <1>5, <1>6, <1>7, <1>8 DEF Saves, v

LEMMA StopSaves ==
  ASSUME NEW w \in Seq(WorkItem), w # <<>>, NEW c, NEW d, Saves(w, c, d),
         w[1].do = "stop", NEW a \in WorkItem, a.do = "wait"
  PROVE  /\ Saves(<<a>> \o Tail(w), c, d)
         /\ (\A k \in DOMAIN w : w[k].do \notin {"truncate", "write"}) =>
              \A k \in DOMAIN (<<a>> \o Tail(w)) :
                (<<a>> \o Tail(w))[k].do \notin {"truncate", "write"}
  <1> DEFINE v == <<a>> \o Tail(w)
  <1>1. /\ v[1] = a /\ DOMAIN v = DOMAIN w /\ 1 \in DOMAIN w
        /\ \A k \in DOMAIN w : k # 1 => v[k] = w[k]
        /\ DOMAIN w \in SUBSET Nat /\ \A k \in DOMAIN w : k >= 1
    BY HeadReplaced
  <1> HIDE DEF v
  <1>2. Truncates(v)
    <2> SUFFICES ASSUME NEW k \in DOMAIN v, v[k].do = "truncate"
                 PROVE  k + 1 \in DOMAIN v /\ v[k + 1].do = "write"
      BY DEF Truncates
    <2>1. k # 1 /\ w[k].do = "truncate" /\ k \in DOMAIN w
      BY <1>1
    <2>2. k + 1 \in DOMAIN w /\ w[k + 1].do = "write" /\ k + 1 # 1
      BY <2>1, <1>1 DEF Saves, Truncates
    <2> QED
      BY <2>2, <1>1
  <1>3. WritesLast(v)
    BY <1>1 DEF Saves, WritesLast
  <1>4. Unwritten(v, c, d)
    BY <1>1 DEF Saves, Unwritten
  <1> QED
    BY <1>1, <1>2, <1>3, <1>4 DEF Saves, v

LEMMA EmptySaves ==
  ASSUME NEW c, NEW d, Saves(<<>>, c, d)
  PROVE  c = d
  BY DEF Saves, Unwritten

LEMMA ItemFile ==
  ASSUME ManagerInv, FileInv, ~EnvSet, Item, Without({"save", "edit", "overlap"})
  PROVE  /\ Saves(work', cfg', disk'[LoadPath])
         /\ pending' # NoCfg => /\ pending' = disk'[LoadPath]
                                /\ \A k \in DOMAIN work' : work'[k].do \notin {"truncate", "write"}
  <1>1. TypeOK /\ Saves(work, cfg, disk[LoadPath])
    BY ItemDaemon DEF ManagerInv, FileInv
  <1>2. pending # NoCfg => /\ pending = disk[LoadPath]
                           /\ \A k \in DOMAIN work : work[k].do \notin {"truncate", "write"}
    BY DEF FileInv
  <1>3. LoadPath = SavePath /\ SavePath \in Paths /\ disk \in [Paths -> Configs]
    BY <1>1 DEF LoadPath, SavePath, Paths, TypeOK
  <1>4. work \in Seq(WorkItem)
    BY <1>1 DEF TypeOK
  <1>5. CASE stopTunnelLocked
    <2> DEFINE a == Wait(ToAwait(Head(work).names))
    <2>1. /\ work # <<>> /\ work[1].do = "stop" /\ a \in WorkItem /\ a.do = "wait"
      BY <1>1, <1>5, DoingFacts, StopInst DEF stopTunnelLocked, ManagerInv, Wait
    <2>2. work' = <<a>> \o Tail(work) /\ UNCHANGED <<cfg, disk, pending>>
      BY <1>5 DEF stopTunnelLocked
    <2> HIDE DEF a
    <2> QED
      BY <1>1, <1>2, <1>4, <2>1, <2>2, StopSaves
  <1>6. CASE waitTunnelStopped \/ startOne \/ startOneSkips \/ triggerShutdown \/ drained
    <2>1. work # <<>> /\ work[1].do \in {"wait", "trigger", "drained", "start"}
      BY <1>1, <1>6, DoingFacts
      DEF waitTunnelStopped, startOne, startOneSkips, triggerShutdown, drained
    <2>2. work' = Tail(work) /\ UNCHANGED <<cfg, disk, pending>>
      BY <1>6 DEF waitTunnelStopped, startOne, startOneSkips, triggerShutdown, drained, Pop
    <2> QED
      BY <1>1, <1>2, <1>4, <2>1, <2>2, PopSaves
  <1>7. CASE setConfig
    <2>1. work # <<>> /\ work[1].do = "config" /\ Head(work) = work[1]
      BY <1>1, <1>7, DoingFacts DEF setConfig
    <2>2. work' = Tail(work) /\ cfg' = work[1].to /\ UNCHANGED <<disk, pending>>
      BY <1>7, <2>1 DEF setConfig, Pop
    <2> QED
      BY <1>1, <1>2, <1>4, <2>1, <2>2, PopSaves
  <1>8. CASE SaveTruncate
    <2>1. work # <<>> /\ work[1].do = "truncate" /\ 1 \in DOMAIN work
      BY <1>1, <1>4, <1>8, DoingFacts, TailFacts DEF SaveTruncate
    <2>2. work' = Tail(work) /\ UNCHANGED <<cfg, pending>>
      BY <1>8 DEF SaveTruncate, Pop
    <2>3. pending = NoCfg
      BY <1>2, <2>1
    <2> QED
      BY <1>1, <1>4, <2>1, <2>2, <2>3, PopSaves
  <1>9. CASE SaveWrite
    <2>1. work # <<>> /\ work[1].do = "write" /\ 1 \in DOMAIN work
      BY <1>1, <1>4, <1>9, DoingFacts, TailFacts DEF SaveWrite
    <2>2. work' = Tail(work) /\ UNCHANGED <<cfg, pending>> /\ disk'[LoadPath] = cfg
      BY <1>3, <1>9 DEF SaveWrite, Pop
    <2>3. pending = NoCfg
      BY <1>2, <2>1
    <2> QED
      BY <1>1, <1>4, <2>1, <2>2, <2>3, PopSaves
  <1>10. ~SaveFails
    BY DEF SaveFails, Without
  <1> QED
    BY <1>5, <1>6, <1>7, <1>8, <1>9, <1>10 DEF Item

LEMMA NextFile ==
  ASSUME ManagerInv, FileInv, ~EnvSet, [Next]_vars
  PROVE  FileInv'
  <1> SUFFICES ASSUME Without({"save", "edit", "overlap"})'
               PROVE  /\ daemon' # "down" => Saves(work', cfg', disk'[LoadPath])
                      /\ pending' # NoCfg =>
                           /\ pending' = disk'[LoadPath]
                           /\ \A k \in DOMAIN work' : work'[k].do \notin {"truncate", "write"}
    BY DEF FileInv, LoadPath
  <1>0. faults' = faults
    BY DEF Next, vars, HandleControl, Add, Remove, Enable, Disable, Restart, StartGroup,
           StopGroup, SaveNow, StopDaemon, Lock, ReloadRead, Reload, Item, stopTunnelLocked,
           waitTunnelStopped, setConfig, SaveTruncate, SaveWrite, SaveFails, startOne,
           startOneSkips, triggerShutdown, drained, Goroutine, Bind, BindFail, Stopped,
           ServeFail, Finalize, Boot, Signal, Drain, Exit, Crash, Gone, EditConfig
  <1>1. Without({"save", "edit", "overlap"})
    BY <1>0 DEF Without
  <1>2. /\ daemon # "down" => Saves(work, cfg, disk[LoadPath])
        /\ pending # NoCfg => /\ pending = disk[LoadPath]
                              /\ \A k \in DOMAIN work : work[k].do \notin {"truncate", "write"}
    BY <1>1 DEF FileInv
  <1>3. TypeOK /\ "overlap" \notin faults
    BY <1>1 DEF ManagerInv, Without
  <1>4. ASSUME MuFree, daemon # "down"
        PROVE  Settled(cfg, tunnels) /\ cfg = disk[LoadPath]
    BY <1>2, <1>4, SettledWhenFree, EmptySaves DEF MuFree
  <1>5. CASE UNCHANGED vars
    BY <1>2, <1>5 DEF vars
  <1>6. CASE Ops
    <2>1. MuFree
      BY <1>6 DEF Ops, Add, Remove, Enable, Disable, Restart, StartGroup, StopGroup, SaveNow,
                  StopDaemon, CanBegin
    <2>2. Settled(cfg, tunnels) /\ cfg = disk[LoadPath]
      BY <1>4, <1>6, <2>1, OpsStep
    <2>3. /\ CanBegin /\ UNCHANGED <<faults, daemon, cfg, disk, tunnels, inst, pending>>
          /\ Saves(work', cfg, disk[LoadPath])
      BY <1>3, <1>6, <2>2, Operations
    <2>4. pending = NoCfg
      BY <1>3, <2>3 DEF CanBegin
    <2> QED
      BY <2>3, <2>4
  <1>7. CASE ReloadRead
    <2>1. /\ UNCHANGED <<daemon, cfg, disk, work>> /\ pending' = disk[LoadPath]
          /\ work = <<>> /\ daemon # "down"
      BY <1>3, <1>7 DEF ReloadRead, CanBegin, MuFree
    <2> QED
      BY <1>2, <2>1
  <1>8. CASE Reload
    <2>1. /\ UNCHANGED <<daemon, cfg, disk>> /\ pending' = NoCfg
          /\ work' = <<Stop(Names), Config(pending)>> \o Start(Autostart(pending))
          /\ pending \in Configs /\ pending # NoCfg
      BY <1>3, <1>8 DEF Reload, TypeOK
    <2>2. pending = disk[LoadPath]
      BY <1>2, <2>1
    <2>3. Saves(work', cfg, pending)
      BY <2>1, StopAndReload
    <2> QED
      BY <2>1, <2>2, <2>3
  <1>9. CASE Item
    BY <1>1, <1>9, ItemFile
  <1>10. ASSUME NEW i \in Insts, Goroutine(i) \/ ServeFail(i) \/ Finalize(i)
         PROVE  UNCHANGED <<daemon, cfg, disk, work, pending>>
    BY <1>10 DEF Goroutine, Bind, BindFail, Stopped, ServeFail, Finalize
  <1>11. CASE Boot
    <2>1. /\ work' = Start(Autostart(disk[LoadPath])) /\ cfg' = disk[LoadPath]
          /\ UNCHANGED <<disk, pending, tunnels>> /\ daemon = "down"
      BY <1>11 DEF Boot
    <2>2. pending = NoCfg /\ disk[LoadPath] \in Configs /\ \A n \in Names : tunnels[n] = 0
      BY <1>3, <2>1 DEF ManagerInv, DownIsEmpty, TypeOK, LoadPath, Paths
    <2>3. Saves(work', cfg', disk[LoadPath])
      BY <2>1, <2>2, BootItems
    <2> QED
      BY <2>1, <2>2, <2>3
  <1>12. CASE Signal
    <2>1. UNCHANGED <<cfg, disk, work, pending>> /\ daemon = "up"
      BY <1>12 DEF Signal
    <2> QED
      BY <1>2, <2>1
  <1>13. CASE Drain
    <2>1. /\ work' = <<Stop(Names), Drained>> /\ UNCHANGED <<cfg, disk, pending>> /\ MuFree
          /\ daemon # "down"
      BY <1>13 DEF Drain
    <2>2. /\ Saves(work', cfg, disk[LoadPath])
          /\ \A k \in DOMAIN work' : work'[k].do \notin {"truncate", "write"}
      BY <1>4, <2>1, DrainItems, StartAndStop
    <2> QED
      BY <1>2, <2>1, <2>2
  <1>14. CASE Exit \/ Crash
    BY <1>14 DEF Exit, Crash, Gone
  <1>15. ~EditConfig
    BY <1>1 DEF EditConfig, Without
  <1> QED
    BY <1>2, <1>5, <1>6, <1>7, <1>8, <1>9, <1>10, <1>11, <1>12, <1>13, <1>14, <1>15
    DEF Next, HandleControl, Ops

LEMMA FileInvariant == ~EnvSet => (Spec => []FileInv)
  <1> SUFFICES ASSUME ~EnvSet PROVE Spec => []FileInv
    OBVIOUS
  <1>1. Init => FileInv
    BY DEF Init, FileInv
  <1>2. ManagerInv /\ FileInv /\ [Next]_vars => FileInv'
    BY NextFile
  <1> QED
    BY <1>1, <1>2, ManagerInvariant, PTL DEF Spec

-----------------------------------------------------------------------------
(* The theorems *)

(* Every variable of the manager keeps its type. *)
THEOREM TypeCorrect == Spec => []TypeOK
  <1>1. ManagerInv => TypeOK
    BY DEF ManagerInv
  <1> QED
    BY <1>1, ManagerInvariant, PTL

(* stopTunnelLocked never closes the stop channel of a tunnel twice,       *)
(* whatever fails and however requests, signals and reloads overlap.       *)
THEOREM CancelledOnce == Spec => []CancelOnce
  <1>1. ManagerInv => CancelOnce
    BY DEF ManagerInv, InstInv
  <1> QED
    BY <1>1, ManagerInvariant, PTL

(* A goroutine that left m.tunnels was told to stop. *)
THEOREM UnmappedIsTold == Spec => []ToldToStop
  <1>1. ManagerInv => ToldToStop
    BY DEF ManagerInv, InstInv
  <1> QED
    BY <1>1, ManagerInvariant, PTL

(* No goroutine runs that neither m.tunnels nor a waiting operation knows, *)
(* as long as tunnels stop within the 5 s of waitTunnelStopped.            *)
THEOREM NobodyOrphaned == Spec => []NoOrphan
  <1>1. ManagerInv => NoOrphan
    BY DEF ManagerInv, InstInv
  <1> QED
    BY <1>1, ManagerInvariant, PTL

(* A tunnel about to bind finds its port held by nobody that was stopped   *)
(* before.                                                                 *)
THEOREM PortsReleased == Spec => []PortReleased
  <1>1. ManagerInv => PortReleased
    BY InstFacts DEF ManagerInv, InstInv, NoOrphan, BoundListens, PortReleased,
                     ReusableAfterFailure, LateHolders, Holds, Ended, Without
  <1> QED
    BY <1>1, ManagerInvariant, PTL

(* Only configured tunnels are in m.tunnels whenever m.mu is free, also    *)
(* when a save failed half way through an operation.                       *)
THEOREM NoZombies == Spec => []NoZombie
  <1>1. ManagerInv => NoZombie
    BY SettledWhenFree DEF NoZombie, Settled, Configured
  <1> QED
    BY <1>1, ManagerInvariant, PTL

(* Without $TUNNEL_CONFIG, and when requests do not overlap, the file says *)
(* what is in memory whenever m.mu is free.                                *)
THEOREM FileIsPersisted == ~EnvSet => (Spec => []PersistedInTurn)
  <1> SUFFICES ASSUME ~EnvSet PROVE Spec => []PersistedInTurn
    OBVIOUS
  <1>1. FileInv => PersistedInTurn
    <2> SUFFICES ASSUME FileInv, Without({"overlap"}), Without({"save", "edit"}),
                        MuFree, daemon # "down"
                 PROVE  disk[LoadPath] = cfg
      BY DEF PersistedInTurn, Persisted
    <2>1. Without({"save", "edit", "overlap"})
      BY DEF Without
    <2>2. Saves(<<>>, cfg, disk[LoadPath])
      BY <2>1 DEF FileInv, MuFree
    <2> QED
      BY <2>2, EmptySaves
  <1> QED
    BY <1>1, FileInvariant, PTL
=============================================================================
