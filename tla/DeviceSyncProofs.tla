--------------------------- MODULE DeviceSyncProofs ---------------------------
(***************************************************************************)
(* Theorems about DeviceSync, for any shards and bounds.  What is backed   *)
(* and what has landed holds for any number of pushes and pulls at a time; *)
(* the order of generations, the objects of a manifest, the replay guard   *)
(* and the cursors need that there is one push, or one pull, at a time,    *)
(* which is all that the code promises anything for.                       *)
(***************************************************************************)
EXTENDS DeviceSync, WellFoundedInduction, TLAPS

OnePusher == \A p, r \in Pushers : p = r
OnePuller == \A q, r \in Pullers : q = r

Contents   == Versions \cup {Absent}
Manifests  == [gen : Nat, shards : [Shards -> Contents]]
PushStates == [pc : PushPcs, todo : SUBSET Shards, cur : SUBSET Shards,
               snap : [Shards -> Contents], gen : Nat]
PullStates == [pc : PullPcs, todo : SUBSET Shards, cur : SUBSET Shards, man : Manifests]

(* What the state of a push, and of a pull, is at each of its statements.  *)
PushShape(x) ==
    /\ x.cur \subseteq x.todo
    /\ x.cur # {} <=> x.pc = "record"
    /\ x.pc \notin {"idle", "build"} => x.todo \subseteq Listed(x.snap)
    /\ x.pc = "commit" => x.todo = {}

PullShape(x) ==
    /\ x.cur \subseteq x.todo
    /\ x.cur # {} <=> x.pc \in {"insert", "advance"}
    /\ x.todo \subseteq Listed(x.man.shards)

(* The types, with those of the snapshot and of the manifest in hand.      *)
DeviceTyped ==
    /\ local \in [Shards -> Contents]
    /\ outbox \in [Shards -> [hash : Contents, gen : Nat]]
    /\ \E n \in Nat : \A s \in Shards : outbox[s].gen <= n
    /\ push \in [Pushers -> PushStates]
    /\ \A p \in Pushers : PushShape(push[p])
    /\ changes \in 0..MaxChanges /\ fails \in 0..MaxFails

BucketTyped ==
    /\ objects \in [Shards -> Contents]
    /\ manifest \in Manifests
    /\ history \subseteq Manifests

PeerTyped ==
    /\ lastGen \in Nat
    /\ cursor \in [Shards -> Contents]
    /\ landed \in [Shards -> Contents \cup {Partial}]
    /\ pull \in [Pullers -> PullStates]
    /\ \A q \in Pullers : PullShape(pull[q])
    /\ torn \subseteq Shards

Typed == DeviceTyped /\ BucketTyped /\ PeerTyped

-----------------------------------------------------------------------------
(* The larger of two generations.                                          *)
LEMMA LargerOfTwo ==
    ASSUME NEW a \in Nat, NEW b \in Nat
    PROVE  /\ Max({a, b}) \in {a, b}
           /\ Max({a, b}) >= a /\ Max({a, b}) >= b
<1>1. \E x \in {a, b} : \A y \in {a, b} : x >= y
  <2>1. CASE a >= b
    BY <2>1
  <2>2. CASE ~(a >= b)
    BY <2>2
  <2> QED
    BY <2>1, <2>2
<1>2. Max({a, b}) \in {a, b} /\ \A y \in {a, b} : Max({a, b}) >= y
  BY <1>1 DEF Max
<1> QED
  BY <1>2

(* The greatest generation of the outbox, which has one.                   *)
LEMMA GreatestInOutbox ==
    ASSUME DeviceTyped
    PROVE  /\ CurrentGen \in Nat
           /\ \A s \in Shards : outbox[s].gen <= CurrentGen
           /\ CurrentGen = 0 \/ \E s \in Shards : outbox[s].gen = CurrentGen
<1> DEFINE gens   == {outbox[s].gen : s \in Shards} \cup {0}
           bounds == {n \in Nat : \A x \in gens : x <= n}
           less   == OpToRel(<, Nat)
<1>1. gens \subseteq Nat /\ 0 \in gens
  BY DEF DeviceTyped
<1>2. bounds # {}
  <2>1. PICK n \in Nat : \A s \in Shards : outbox[s].gen <= n
    BY DEF DeviceTyped
  <2>2. n \in bounds
    BY <2>1
  <2> QED
    BY <2>2
<1>3. PICK n \in bounds : \A k \in bounds : n <= k
  <2>1. PICK n \in bounds : \A k \in bounds : <<k, n>> \notin less
    BY <1>2, WFMin, NatLessThanWellFounded
  <2>2. ASSUME NEW k \in bounds PROVE n <= k
    <3>1. n \in Nat /\ k \in Nat /\ <<k, n>> \in Nat \X Nat
      BY <2>1
    <3>2. less = {ss \in Nat \X Nat : ss[1] < ss[2]}
      BY DEF OpToRel
    <3> HIDE DEF less
    <3>3. ~(k < n)
      BY <2>1, <3>1, <3>2
    <3> QED
      BY <3>1, <3>3
  <2> QED
    BY <2>1, <2>2
<1>4. n \in gens
  <2>1. CASE n = 0
    BY <1>1, <2>1
  <2>2. CASE n # 0 /\ n \notin gens
    <3>1. n - 1 \in Nat /\ \A x \in gens : x <= n - 1
      BY <1>1, <1>3, <2>2
    <3> QED
      BY <1>3, <3>1
  <2> QED
    BY <2>1, <2>2
<1>5. Max(gens) \in gens /\ \A y \in gens : Max(gens) >= y
  <2>1. \E x \in gens : \A y \in gens : x >= y
    BY <1>1, <1>3, <1>4
  <2> QED
    BY <2>1 DEF Max
<1> QED
  BY <1>1, <1>5 DEF CurrentGen

(* A push moves from one state of its own to another; so does a pull.      *)
LEMMA PushMoves ==
    ASSUME push \in [Pushers -> PushStates], NEW p \in Pushers, NEW new \in PushStates,
           push' = [push EXCEPT ![p] = new]
    PROVE  /\ push' \in [Pushers -> PushStates] /\ push'[p] = new
           /\ \A r \in Pushers \ {p} : push'[r] = push[r]
OBVIOUS

LEMMA PullMoves ==
    ASSUME pull \in [Pullers -> PullStates], NEW q \in Pullers, NEW new \in PullStates,
           pull' = [pull EXCEPT ![q] = new]
    PROVE  /\ pull' \in [Pullers -> PullStates] /\ pull'[q] = new
           /\ \A r \in Pullers \ {q} : pull'[r] = pull[r]
OBVIOUS

(* What the steps of a push do to its state, action by action.             *)
LEMMA PushSteps ==
    ASSUME Typed, NEW p \in Pushers, Push(p) \/ PushFails(p)
    PROVE  \E new \in PushStates : push' = [push EXCEPT ![p] = new] /\ PushShape(new)
<1> DEFINE old == push[p]
<1>0. old \in PushStates /\ PushShape(old)
  BY DEF Typed, DeviceTyped
<1>1. CASE push' = [push EXCEPT ![p] = NoPush]
  <2>1. NoPush \in PushStates /\ PushShape(NoPush)
    BY DEF NoPush, PushStates, NoShards, Contents, PushPcs, PushShape
  <2> QED
    BY <1>1, <2>1
<1>2. CASE StartPush(p)
  <2> DEFINE new == [NoPush EXCEPT !.pc = "build", !.todo = Shards]
  <2>1. new \in PushStates /\ PushShape(new)
    BY DEF NoPush, PushStates, NoShards, Contents, PushPcs, PushShape
  <2> QED
    BY <1>2, <2>1 DEF StartPush
<1>3. CASE BuildShard(p)
  <2>1. PICK s \in old.todo : push' = [push EXCEPT ![p].todo = @ \ {s}, ![p].snap[s] = local[s]]
    BY <1>3 DEF BuildShard
  <2> DEFINE new == [old EXCEPT !.todo = @ \ {s}, !.snap[s] = local[s]]
  <2>2. push' = [push EXCEPT ![p] = new]
    BY <2>1, Zenon DEF Typed, DeviceTyped
  <2>3. s \in Shards /\ local[s] \in Contents
    BY <1>0, <2>1 DEF Typed, DeviceTyped, PushStates
  <2>4. new \in PushStates /\ PushShape(new)
    BY <1>0, <1>3, <2>1, <2>3 DEF PushStates, PushShape, BuildShard
  <2> QED
    BY <2>2, <2>4
<1>4. CASE PlanPush(p)
  <2> DEFINE new == [old EXCEPT !.pc = "upload", !.todo = Pending(old.snap), !.gen = CurrentGen + 1]
  <2>1. push' = [push EXCEPT ![p] = new]
    BY <1>4, Zenon DEF PlanPush, Typed, DeviceTyped
  <2>2. Pending(old.snap) \subseteq Listed(old.snap) /\ Pending(old.snap) \subseteq Shards
    BY DEF Pending, Listed
  <2>3. CurrentGen + 1 \in Nat
    BY GreatestInOutbox DEF Typed
  <2> HIDE DEF new
  <2>4. new \in PushStates
    BY <1>0, <2>2, <2>3 DEF PushStates, PushPcs, new
  <2>5. old.cur = {}
    BY <1>0, <1>4 DEF PlanPush, Built, PushShape
  <2>6. PushShape(new)
    BY <1>0, <2>2, <2>3, <2>5 DEF PushStates, PushShape, new
  <2> QED
    BY <2>1, <2>4, <2>6
<1>5. CASE PutShard(p)
  <2>1. PICK s \in old.todo : push' = [push EXCEPT ![p].pc = "record", ![p].cur = {s}]
    BY <1>5 DEF PutShard
  <2> DEFINE new == [old EXCEPT !.pc = "record", !.cur = {s}]
  <2>2. push' = [push EXCEPT ![p] = new]
    BY <2>1, Zenon DEF Typed, DeviceTyped
  <2>3. new \in PushStates /\ PushShape(new)
    BY <1>0, <1>5, <2>1 DEF PushStates, PushShape, PutShard, PushPcs
  <2> QED
    BY <2>2, <2>3
<1>6. CASE RecordPushed(p)
  <2> DEFINE rest == old.todo \ old.cur
             new  == [old EXCEPT !.todo = rest, !.cur = {},
                                 !.pc = IF rest = {} THEN "commit" ELSE "upload"]
  <2>1. push' = [push EXCEPT ![p] = new]
    BY <1>6, Zenon DEF RecordPushed, Typed, DeviceTyped
  <2>2. new \in PushStates /\ PushShape(new)
    BY <1>0, <1>6 DEF PushStates, PushShape, RecordPushed, PushPcs
  <2> QED
    BY <2>1, <2>2
<1>7. CASE PushNothing(p) \/ PutManifest(p) \/ PushFails(p)
  BY <1>1, <1>7 DEF PushNothing, PutManifest, Commit, PushFails
<1> QED
  BY <1>2, <1>3, <1>4, <1>5, <1>6, <1>7 DEF Push

(* The same of the steps of a pull.                                        *)
LEMMA PullSteps ==
    ASSUME Typed, NEW q \in Pullers, Pull(q) \/ PullFails(q)
    PROVE  \E new \in PullStates : pull' = [pull EXCEPT ![q] = new] /\ PullShape(new)
<1> DEFINE old == pull[q]
<1>0. old \in PullStates /\ PullShape(old)
  BY DEF Typed, PeerTyped
<1>1. CASE pull' = [pull EXCEPT ![q] = NoPull]
  <2>1. NoPull \in PullStates /\ PullShape(NoPull)
    BY DEF NoPull, NoManifest, Manifests, PullStates, NoShards, Contents, PullPcs, PullShape, Listed
  <2> QED
    BY <1>1, <2>1
<1>2. CASE GetManifest(q)
  <2>1. PICK m \in history : pull' = [pull EXCEPT ![q] = [NoPull EXCEPT !.pc = "check", !.man = m]]
    BY <1>2 DEF GetManifest
  <2> DEFINE new == [NoPull EXCEPT !.pc = "check", !.man = m]
  <2>2. m \in Manifests
    BY DEF Typed, BucketTyped
  <2>3. new \in PullStates /\ PullShape(new)
    BY <2>2 DEF NoPull, PullStates, PullPcs, PullShape
  <2> QED
    BY <2>1, <2>3
<1>3. CASE Accept(q)
  <2> DEFINE new == [old EXCEPT !.pc = "shards", !.todo = Listed(old.man.shards)]
  <2>1. push' = push /\ pull' = [pull EXCEPT ![q] = new]
    BY <1>3, Zenon DEF Accept, Accepted, device, Typed, PeerTyped
  <2>2. Listed(old.man.shards) \subseteq Shards
    BY DEF Listed
  <2>3. old.cur = {} /\ old.pc = "check"
    BY <1>0, <1>3 DEF Accept, PullShape
  <2> HIDE DEF new
  <2>4. new \in PullStates
    BY <1>0, <2>2 DEF PullStates, PullPcs, new
  <2>5. PullShape(new)
    BY <1>0, <2>3 DEF PullStates, PullShape, new
  <2> QED
    BY <2>1, <2>4, <2>5
<1>4. CASE SkipShard(q) \/ WarnShard(q)
  <2>1. PICK s \in old.todo : pull' = [pull EXCEPT ![q].todo = @ \ {s}]
    BY <1>4 DEF SkipShard, WarnShard
  <2> DEFINE new == [old EXCEPT !.todo = @ \ {s}]
  <2>2. pull' = [pull EXCEPT ![q] = new]
    BY <2>1, Zenon DEF Typed, PeerTyped
  <2>3. old.pc = "shards"
    BY <1>4 DEF SkipShard, WarnShard
  <2>4. new \in PullStates /\ PullShape(new)
    BY <1>0, <2>3 DEF PullStates, PullShape
  <2> QED
    BY <2>2, <2>4
<1>5. CASE DeleteLanded(q)
  <2>1. PICK s \in old.todo : pull' = [pull EXCEPT ![q].pc = "insert", ![q].cur = {s}]
    BY <1>5 DEF DeleteLanded
  <2> DEFINE new == [old EXCEPT !.pc = "insert", !.cur = {s}]
  <2>2. pull' = [pull EXCEPT ![q] = new]
    BY <2>1, Zenon DEF Typed, PeerTyped
  <2>3. new \in PullStates /\ PullShape(new)
    BY <1>0, <2>1 DEF PullStates, PullShape, PullPcs
  <2> QED
    BY <2>2, <2>3
<1>6. CASE InsertLanded(q)
  <2> DEFINE new == [old EXCEPT !.pc = "advance"]
  <2>1. pull' = [pull EXCEPT ![q] = new]
    BY <1>6, Zenon DEF InsertLanded, Typed, PeerTyped
  <2>2. new \in PullStates /\ PullShape(new)
    BY <1>0, <1>6 DEF InsertLanded, PullStates, PullShape, PullPcs
  <2> QED
    BY <2>1, <2>2
<1>7. CASE AdvanceCursor(q)
  <2> DEFINE new == [old EXCEPT !.pc = "shards", !.todo = @ \ old.cur, !.cur = {}]
  <2>1. pull' = [pull EXCEPT ![q] = new]
    BY <1>7, Zenon DEF AdvanceCursor, Typed, PeerTyped
  <2>2. new \in PullStates /\ PullShape(new)
    BY <1>0, <1>7 DEF PullStates, PullShape, PullPcs
  <2> QED
    BY <2>1, <2>2
<1>8. CASE RejectStale(q) \/ FinishPull(q) \/ PullFails(q)
  BY <1>1, <1>8 DEF RejectStale, FinishPull, PullFails
<1> QED
  BY <1>2, <1>3, <1>4, <1>5, <1>6, <1>7, <1>8 DEF Pull

-----------------------------------------------------------------------------
(* Types.                                                                  *)

LEMMA InitTyped == Init => Typed
<1> SUFFICES ASSUME Init PROVE Typed
  OBVIOUS
<1>1. NoShards \in [Shards -> Contents] /\ NoManifest \in Manifests
  BY DEF NoShards, NoManifest, Manifests, Contents
<1>2. NoPush \in PushStates /\ PushShape(NoPush)
  BY <1>1 DEF NoPush, PushStates, PushPcs, PushShape
<1>3. NoPull \in PullStates /\ PullShape(NoPull)
  BY <1>1 DEF NoPull, PullStates, PullPcs, PullShape, NoManifest, NoShards, Listed
<1>4. DeviceTyped
  <2>1. \A s \in Shards : outbox[s].gen <= 0
    BY DEF Init
  <2> QED
    BY <1>1, <1>2, <2>1, SyncAssumption DEF Init, DeviceTyped, Contents
<1>5. BucketTyped
  BY <1>1 DEF Init, BucketTyped
<1>6. PeerTyped
  BY <1>1, <1>3 DEF Init, PeerTyped
<1> QED
  BY <1>4, <1>5, <1>6 DEF Typed

LEMMA PushTyped ==
    ASSUME Typed, NEW p \in Pushers, Push(p) \/ PushFails(p)
    PROVE  Typed'
<1>1. PICK new \in PushStates : push' = [push EXCEPT ![p] = new] /\ PushShape(new)
  BY PushSteps
<1>2. push' \in [Pushers -> PushStates] /\ \A r \in Pushers : PushShape(push'[r])
  BY <1>1 DEF Typed, DeviceTyped
<1>3. push[p] \in PushStates
  BY DEF Typed, DeviceTyped
<1>4. fails' \in 0..MaxFails
  BY SyncAssumption DEF Push, StartPush, BuildShard, PushNothing, PlanPush, PutShard,
     RecordPushed, PutManifest, Commit, PushFails, Typed, DeviceTyped
<1>5. /\ outbox' \in [Shards -> [hash : Contents, gen : Nat]]
      /\ \E n \in Nat : \A s \in Shards : outbox'[s].gen <= n
  <2>1. CASE outbox' = outbox
    BY <2>1 DEF Typed, DeviceTyped
  <2>2. CASE RecordPushed(p)
    <3>1. PICK n \in Nat : \A s \in Shards : outbox[s].gen <= n
      BY DEF Typed, DeviceTyped
    <3>2. n + push[p].gen \in Nat /\ push[p].gen \in Nat
      BY <1>3 DEF PushStates
    <3>3. outbox' \in [Shards -> [hash : Contents, gen : Nat]]
      BY <1>3, <2>2 DEF RecordPushed, PushStates, Typed, DeviceTyped
    <3>4. \A s \in Shards : outbox'[s].gen <= n + push[p].gen
      <4> TAKE s \in Shards
      <4>1. outbox'[s].gen \in {push[p].gen, outbox[s].gen}
        BY <2>2 DEF RecordPushed
      <4>2. outbox[s].gen \in Nat /\ outbox[s].gen <= n
        BY <3>1 DEF Typed, DeviceTyped
      <4> QED
        BY <3>2, <4>1, <4>2
    <3> QED
      BY <3>2, <3>3, <3>4
  <2> QED
    BY <2>1, <2>2 DEF Push, StartPush, BuildShard, PushNothing, PlanPush, PutShard,
       PutManifest, Commit, PushFails
<1>6. DeviceTyped'
  <2>1. local' = local /\ changes' = changes
    BY DEF Push, StartPush, BuildShard, PushNothing, PlanPush, PutShard,
       RecordPushed, PutManifest, Commit, PushFails
  <2> QED
    BY <1>2, <1>4, <1>5, <2>1 DEF Typed, DeviceTyped
<1>7. BucketTyped'
  <2>1. CASE UNCHANGED bucket
    BY <2>1 DEF bucket, Typed, BucketTyped
  <2>2. CASE PutShard(p)
    BY <1>3, <2>2 DEF PutShard, PushStates, Typed, BucketTyped
  <2>3. CASE PutManifest(p)
    <3>1. manifest' \in Manifests
      BY <1>3, <2>3 DEF PutManifest, Commit, PushStates, Manifests
    <3> QED
      BY <2>3, <3>1 DEF PutManifest, Commit, Typed, BucketTyped
  <2> QED
    BY <2>1, <2>2, <2>3 DEF Push, StartPush, BuildShard, PushNothing, PlanPush,
       RecordPushed, PushFails
<1>8. PeerTyped'
  <2>1. UNCHANGED peer
    BY DEF Push, StartPush, BuildShard, PushNothing, PlanPush, PutShard,
       RecordPushed, PutManifest, Commit, PushFails
  <2> QED
    BY <2>1 DEF peer, Typed, PeerTyped
<1> QED
  BY <1>6, <1>7, <1>8 DEF Typed

LEMMA PullTyped ==
    ASSUME Typed, NEW q \in Pullers, Pull(q) \/ PullFails(q)
    PROVE  Typed'
<1>1. PICK new \in PullStates : pull' = [pull EXCEPT ![q] = new] /\ PullShape(new)
  BY PullSteps
<1>2. pull' \in [Pullers -> PullStates] /\ \A r \in Pullers : PullShape(pull'[r])
  BY <1>1 DEF Typed, PeerTyped
<1>3. /\ pull[q] \in PullStates
      /\ \A s \in Shards : Expected(q, s) \in Contents
  BY DEF Typed, PeerTyped, PullStates, Manifests, Expected
<1>4. UNCHANGED <<device, bucket>>
  BY DEF Pull, GetManifest, RejectStale, Accept, Accepted, SkipShard, WarnShard, DeleteLanded,
     InsertLanded, AdvanceCursor, FinishPull, PullFails
<1>5. fails' \in 0..MaxFails
  <2>1. fails' = fails \/ (fails < MaxFails /\ fails' = fails + 1)
    BY DEF Pull, GetManifest, RejectStale, Accept, Accepted, SkipShard, WarnShard,
       DeleteLanded, InsertLanded, AdvanceCursor, FinishPull, PullFails
  <2> QED
    BY <2>1, SyncAssumption DEF Typed, DeviceTyped
<1>6. lastGen' \in Nat
  <2>1. CASE Accept(q)
    <3>1. lastGen \in Nat /\ pull[q].man.gen \in Nat
      BY <1>3 DEF Typed, PeerTyped, PullStates, Manifests
    <3> QED
      BY <2>1, <3>1, LargerOfTwo DEF Accept, Accepted
  <2>2. CASE lastGen' = lastGen
    BY <2>2 DEF Typed, PeerTyped
  <2> QED
    BY <2>1, <2>2 DEF Pull, GetManifest, RejectStale, SkipShard, WarnShard, DeleteLanded,
       InsertLanded, AdvanceCursor, FinishPull, PullFails
<1>7. cursor' \in [Shards -> Contents]
  <2>1. CASE AdvanceCursor(q)
    BY <1>3, <2>1 DEF AdvanceCursor, Advanced, Typed, PeerTyped
  <2>2. CASE cursor' = cursor
    BY <2>2 DEF Typed, PeerTyped
  <2> QED
    BY <2>1, <2>2 DEF Pull, GetManifest, RejectStale, Accept, Accepted, SkipShard, WarnShard,
       DeleteLanded, InsertLanded, FinishPull, PullFails
<1>8. landed' \in [Shards -> Contents \cup {Partial}]
  <2>1. CASE DeleteLanded(q)
    BY <2>1 DEF DeleteLanded, Typed, PeerTyped
  <2>2. CASE InsertLanded(q)
    BY <1>3, <2>2 DEF InsertLanded, Typed, PeerTyped
  <2>3. CASE landed' = landed
    BY <2>3 DEF Typed, PeerTyped
  <2> QED
    BY <2>1, <2>2, <2>3 DEF Pull, GetManifest, RejectStale, Accept, Accepted, SkipShard, WarnShard,
       AdvanceCursor, FinishPull, PullFails
<1>9. torn' \subseteq Shards
  <2>1. pull[q].cur \subseteq Shards /\ torn \subseteq Shards
    BY <1>3 DEF Typed, PeerTyped, PullStates
  <2> QED
    BY <2>1 DEF Pull, GetManifest, RejectStale, Accept, Accepted, SkipShard, WarnShard,
       DeleteLanded, InsertLanded, AdvanceCursor, FinishPull, PullFails
<1>10. DeviceTyped'
  BY <1>4, <1>5 DEF device, Typed, DeviceTyped
<1>11. BucketTyped'
  BY <1>4 DEF bucket, Typed, BucketTyped
<1>12. PeerTyped'
  BY <1>2, <1>6, <1>7, <1>8, <1>9 DEF PeerTyped
<1> QED
  BY <1>10, <1>11, <1>12 DEF Typed

LEMMA StepTyped == Typed /\ [Next]_vars => Typed'
<1> SUFFICES ASSUME Typed, [Next]_vars PROVE Typed'
  OBVIOUS
<1>1. CASE ChangeMart
  <2>1. PICK s \in Shards, v \in Versions \cup {Absent} : local' = [local EXCEPT ![s] = v]
    BY <1>1 DEF ChangeMart
  <2>2. local' \in [Shards -> Contents] /\ changes' \in 0..MaxChanges
    BY <1>1, <2>1, SyncAssumption DEF ChangeMart, Typed, DeviceTyped, Contents
  <2> QED
    BY <1>1, <2>2 DEF ChangeMart, bucket, peer, Typed, DeviceTyped, BucketTyped, PeerTyped
<1>2. CASE UNCHANGED vars
  BY <1>2 DEF vars, device, bucket, peer, Typed, DeviceTyped, BucketTyped, PeerTyped
<1> QED
  BY <1>1, <1>2, PushTyped, PullTyped DEF Next

LEMMA AlwaysTyped == Spec => []Typed
BY InitTyped, StepTyped, PTL DEF Spec

(* Every variable has its type, and neither a push nor a pull ever has in  *)
(* hand a shard that its snapshot, or its manifest, does not list.         *)
THEOREM SyncTypeCorrect == Spec => []TypeOK
<1>1. Typed => TypeOK
  <2> SUFFICES ASSUME Typed PROVE TypeOK
    OBVIOUS
  <2>1. ASSUME NEW p \in Pushers
        PROVE  /\ push[p].pc \in PushPcs
               /\ push[p].cur \subseteq push[p].todo
               /\ push[p].pc \notin {"idle", "build"} => push[p].todo \subseteq Listed(push[p].snap)
               /\ push[p].gen \in Nat
    BY DEF Typed, DeviceTyped, PushStates, PushShape
  <2>2. ASSUME NEW q \in Pullers
        PROVE  /\ pull[q].pc \in PullPcs
               /\ pull[q].cur \subseteq pull[q].todo
               /\ pull[q].todo \subseteq Listed(pull[q].man.shards)
    BY DEF Typed, PeerTyped, PullStates, PullShape
  <2>3. Versions \cup {Absent, Partial} = Contents \cup {Partial}
    BY DEF Contents
  <2>4. DOMAIN push = Pushers /\ DOMAIN pull = Pullers
    BY DEF Typed, DeviceTyped, PeerTyped
  <2> QED
    BY <2>1, <2>2, <2>3, <2>4
       DEF TypeOK, Typed, DeviceTyped, BucketTyped, PeerTyped, Manifests, Contents
<1> QED
  BY <1>1, AlwaysTyped, PTL

-----------------------------------------------------------------------------
(* What the bucket holds.                                                  *)

(* A row of the outbox stands for an object that was put before it, and    *)
(* what a push need not upload, or has uploaded, is there.                 *)
OutboxBacked == \A s \in Shards : outbox[s].hash # Absent => objects[s] # Absent

PushBacked(x) ==
    /\ \A s \in x.cur : objects[s] # Absent
    /\ x.pc \in {"upload", "record", "commit"} =>
         \A s \in Listed(x.snap) : s \in x.todo \/ objects[s] # Absent

Backed == OutboxBacked /\ ManifestBacked /\ \A p \in Pushers : PushBacked(push[p])

LEMMA InitBacked == Init => Backed
BY DEF Init, Backed, OutboxBacked, ManifestBacked, PushBacked, NoPush, NoManifest, NoShards,
   Listed, Absent

LEMMA StepBacked == Typed /\ Backed /\ [Next]_vars => Backed'
<1> SUFFICES ASSUME Typed, Backed, [Next]_vars PROVE Backed'
  OBVIOUS
<1>1. CASE ChangeMart \/ UNCHANGED vars \/ \E q \in Pullers : Pull(q) \/ PullFails(q)
  <2>1. outbox' = outbox /\ push' = push /\ UNCHANGED bucket
    BY <1>1 DEF ChangeMart, vars, device, Pull, GetManifest, RejectStale, Accept, Accepted,
       SkipShard, WarnShard, DeleteLanded, InsertLanded, AdvanceCursor, FinishPull, PullFails
  <2> QED
    BY <2>1 DEF bucket, Backed, OutboxBacked, ManifestBacked, PushBacked
<1>2. ASSUME NEW p \in Pushers, Push(p) \/ PushFails(p) PROVE Backed'
  <2> DEFINE old == push[p]
  <2>0. old \in PushStates /\ PushShape(old) /\ PushBacked(old)
    BY DEF Typed, DeviceTyped, Backed
  <2>1. PICK new \in PushStates : push' = [push EXCEPT ![p] = new] /\ PushShape(new)
    BY <1>2, PushSteps
  <2>2. push'[p] = new /\ \A r \in Pushers \ {p} : push'[r] = push[r]
    BY <2>1 DEF Typed, DeviceTyped
  <2>3. ASSUME NEW s \in Shards, objects[s] # Absent PROVE objects'[s] # Absent
    <3>1. CASE PutShard(p)
      BY <2>0, <2>3, <3>1 DEF PutShard, PushShape, Listed, Typed, BucketTyped
    <3>2. CASE objects' = objects
      BY <2>3, <3>2
    <3> QED
      BY <1>2, <3>1, <3>2 DEF Push, StartPush, BuildShard, PushNothing, PlanPush, bucket,
         RecordPushed, PutManifest, Commit, PushFails
  <2>4. OutboxBacked'
    <3>1. CASE RecordPushed(p)
      BY <2>0, <2>3, <3>1 DEF RecordPushed, Backed, OutboxBacked, PushBacked
    <3>2. CASE outbox' = outbox
      BY <2>3, <3>2 DEF Backed, OutboxBacked
    <3> QED
      BY <1>2, <3>1, <3>2 DEF Push, StartPush, BuildShard, PushNothing, PlanPush, PutShard,
         PutManifest, Commit, PushFails
  <2>5. ManifestBacked'
    <3>1. CASE PutManifest(p)
      BY <2>0, <2>3, <3>1 DEF PutManifest, Commit, ManifestBacked, PushBacked, PushShape, Listed
    <3>2. CASE manifest' = manifest
      BY <2>3, <3>2 DEF Backed, ManifestBacked, Listed
    <3> QED
      BY <1>2, <3>1, <3>2 DEF Push, StartPush, BuildShard, PushNothing, PlanPush, PutShard, bucket,
         RecordPushed, PushFails
  <2>6. ASSUME NEW r \in Pushers \ {p} PROVE PushBacked(push[r])'
    <3>1. push'[r] = push[r] /\ PushBacked(push[r])
      BY <2>2 DEF Backed
    <3>2. push[r].cur \subseteq Shards
      BY DEF Typed, DeviceTyped, PushStates
    <3> QED
      BY <2>3, <3>1, <3>2 DEF PushBacked, Listed
  <2>7. PushBacked(push[p])'
    <3>1. CASE push' = [push EXCEPT ![p] = NoPush]
      BY <3>1 DEF PushBacked, NoPush, Typed, DeviceTyped
    <3>2. CASE StartPush(p)
      BY <3>2 DEF StartPush, PushBacked, NoPush, Typed, DeviceTyped
    <3>3. CASE BuildShard(p)
      <4>1. push'[p].pc = "build" /\ push'[p].cur = {}
        BY <2>0, <3>3 DEF BuildShard, PushShape, Typed, DeviceTyped, PushStates
      <4> QED
        BY <4>1 DEF PushBacked
    <3>4. CASE PlanPush(p)
      <4>1. push'[p].cur = {} /\ push'[p].todo = Pending(old.snap) /\ push'[p].snap = old.snap
        BY <2>0, <3>4 DEF PlanPush, Built, PushShape, Typed, DeviceTyped, PushStates
      <4>2. \A s \in Listed(old.snap) : s \in Pending(old.snap) \/ objects[s] # Absent
        BY DEF Pending, Listed, Backed, OutboxBacked
      <4>3. objects' = objects
        BY <3>4 DEF PlanPush, bucket
      <4> QED
        BY <4>1, <4>2, <4>3 DEF PushBacked
    <3>5. CASE PutShard(p)
      <4>1. PICK s \in old.todo : /\ objects' = [objects EXCEPT ![s] = old.snap[s]]
                                  /\ push' = [push EXCEPT ![p].pc = "record", ![p].cur = {s}]
        BY <3>5 DEF PutShard
      <4>2. push'[p].cur = {s} /\ push'[p].todo = old.todo /\ push'[p].snap = old.snap
        BY <4>1 DEF Typed, DeviceTyped, PushStates
      <4>3. s \in Listed(old.snap) /\ old.pc = "upload"
        BY <2>0, <3>5 DEF PushShape, PutShard
      <4>4. objects'[s] # Absent
        BY <4>1, <4>3 DEF Listed, Typed, BucketTyped
      <4> QED
        BY <2>0, <2>3, <4>2, <4>3, <4>4 DEF PushBacked, Listed
    <3>6. CASE RecordPushed(p)
      <4>1. /\ push'[p].cur = {} /\ push'[p].todo = old.todo \ old.cur
            /\ push'[p].snap = old.snap /\ old.pc = "record" /\ objects' = objects
        BY <3>6 DEF RecordPushed, bucket, Typed, DeviceTyped, PushStates
      <4> QED
        BY <2>0, <4>1 DEF PushBacked
    <3> QED
      BY <1>2, <3>1, <3>2, <3>3, <3>4, <3>5, <3>6 DEF Push, PushNothing, PutManifest, Commit, PushFails
  <2> QED
    BY <2>4, <2>5, <2>6, <2>7 DEF Backed
<1> QED
  BY <1>1, <1>2 DEF Next

(* A manifest that can be read names only objects that are in the bucket,  *)
(* for any number of pushes at a time and whatever of them was killed.     *)
THEOREM ManifestIsBacked == Spec => []ManifestBacked
<1>1. Backed => ManifestBacked
  BY DEF Backed
<1> QED
  BY <1>1, AlwaysTyped, InitBacked, StepBacked, PTL DEF Spec

-----------------------------------------------------------------------------
(* What a peer shows.                                                      *)

(* A pull works from a manifest the store held, and past the replay guard  *)
(* from one whose generation has been recorded.                            *)
PullNamed(x) ==
    /\ x.pc # "idle" => x.man \in history
    /\ x.pc \in {"shards", "insert", "advance"} => x.man.gen <= lastGen

Shown == LandedWasCommitted /\ \A q \in Pullers : PullNamed(pull[q])

LEMMA InitShown == Init => Shown
<1> SUFFICES ASSUME Init PROVE Shown
  OBVIOUS
<1>1. \A s \in Shards : landed[s] = Absent /\ Absent \notin Versions
  BY SyncAssumption DEF Init, NoShards, Absent
<1> QED
  BY <1>1 DEF Init, Shown, LandedWasCommitted, PullNamed, NoPull

(* As history and the recorded generation only grow, what was named stays  *)
(* so; only an insert shows anything new.                                  *)
LEMMA StillNamed ==
    ASSUME Typed, Shown, history \subseteq history', history' \subseteq Manifests,
           lastGen' \in Nat, lastGen <= lastGen'
    PROVE  /\ \A s \in Shards : landed[s] \in Versions =>
                \E m \in history' : m.gen <= lastGen' /\ m.shards[s] = landed[s]
           /\ \A q \in Pullers : pull'[q] = pull[q] => PullNamed(pull[q])'
<1>1. lastGen \in Nat /\ \A m \in history : m.gen \in Nat
  BY DEF Typed, PeerTyped, BucketTyped, Manifests
<1>2. \A m \in history : m.gen <= lastGen => m.gen <= lastGen'
  BY <1>1
<1>3. ASSUME NEW q \in Pullers, pull'[q] = pull[q] PROVE PullNamed(pull[q])'
  <2>1. pull[q].man.gen \in Nat
    BY DEF Typed, PeerTyped, PullStates, Manifests
  <2>2. PullNamed(pull[q])
    BY DEF Shown
  <2>3. pull[q].man.gen <= lastGen => pull[q].man.gen <= lastGen'
    BY <1>1, <2>1
  <2> QED
    BY <1>3, <2>2, <2>3 DEF PullNamed
<1> QED
  BY <1>2, <1>3 DEF Shown, LandedWasCommitted

LEMMA StepShown == Typed /\ Typed' /\ Shown /\ [Next]_vars => Shown'
<1> SUFFICES ASSUME Typed, Typed', Shown, [Next]_vars PROVE Shown'
  OBVIOUS
<1>0. lastGen \in Nat /\ lastGen' \in Nat /\ history' \subseteq Manifests
  BY DEF Typed, PeerTyped, BucketTyped
<1>1. CASE ChangeMart \/ UNCHANGED vars \/ \E p \in Pushers : Push(p) \/ PushFails(p)
  <2>1. UNCHANGED peer /\ history \subseteq history'
    BY <1>1 DEF ChangeMart, vars, bucket, Push, StartPush, BuildShard, PushNothing, PlanPush,
       PutShard, RecordPushed, PutManifest, Commit, PushFails
  <2>2. lastGen' = lastGen /\ pull' = pull /\ landed' = landed
    BY <2>1 DEF peer
  <2>3. lastGen <= lastGen'
    BY <1>0, <2>2
  <2> QED
    BY <1>0, <2>1, <2>2, <2>3, StillNamed DEF Shown, LandedWasCommitted
<1>2. ASSUME NEW q \in Pullers, Pull(q) \/ PullFails(q) PROVE Shown'
  <2> DEFINE old == pull[q]
  <2>0. old \in PullStates /\ PullShape(old) /\ PullNamed(old)
    BY DEF Typed, PeerTyped, Shown
  <2>1. PICK new \in PullStates : pull' = [pull EXCEPT ![q] = new]
    BY <1>2, PullSteps
  <2>2. \A r \in Pullers \ {q} : pull'[r] = pull[r]
    BY <2>1 DEF Typed, PeerTyped
  <2>3. history' = history
    BY <1>2 DEF bucket, Pull, GetManifest, RejectStale, Accept, Accepted, SkipShard, WarnShard,
       DeleteLanded, InsertLanded, AdvanceCursor, FinishPull, PullFails
  <2>4. lastGen <= lastGen' /\ (Accept(q) => old.man.gen <= lastGen')
    <3>1. CASE Accept(q)
      <4>1. old.man.gen \in Nat
        BY <2>0 DEF PullStates, Manifests
      <4> QED
        BY <1>0, <3>1, <4>1, LargerOfTwo DEF Accept, Accepted
    <3>2. CASE lastGen' = lastGen /\ ~Accept(q)
      BY <1>0, <3>2
    <3> QED
      BY <1>2, <3>1, <3>2 DEF Pull, GetManifest, RejectStale, SkipShard, WarnShard, DeleteLanded,
         InsertLanded, AdvanceCursor, FinishPull, PullFails
  <2>5. \A r \in Pullers \ {q} : PullNamed(pull[r])'
    BY <1>0, <2>2, <2>3, <2>4, StillNamed
  <2>6. PullNamed(pull[q])'
    <3>1. CASE pull' = [pull EXCEPT ![q] = NoPull]
      BY <3>1 DEF PullNamed, NoPull, Typed, PeerTyped
    <3>2. CASE GetManifest(q)
      <4>1. PICK m \in history : pull' = [pull EXCEPT ![q] = [NoPull EXCEPT !.pc = "check", !.man = m]]
        BY <3>2 DEF GetManifest
      <4>2. pull'[q].pc = "check" /\ pull'[q].man = m
        BY <4>1 DEF NoPull, Typed, PeerTyped
      <4> QED
        BY <2>3, <4>2 DEF PullNamed
    <3>3. CASE Accept(q)
      <4>1. pull'[q].pc = "shards" /\ pull'[q].man = old.man /\ old.pc = "check"
        BY <2>0, <3>3 DEF Accept, Accepted, Typed, PeerTyped, PullStates
      <4> QED
        BY <2>0, <2>3, <2>4, <3>3, <4>1 DEF PullNamed
    <3>4. CASE SkipShard(q) \/ WarnShard(q) \/ DeleteLanded(q) \/ InsertLanded(q) \/ AdvanceCursor(q)
      <4>1. /\ pull'[q].man = old.man /\ lastGen' = lastGen
            /\ old.pc \in {"shards", "insert", "advance"}
        BY <2>0, <3>4 DEF SkipShard, WarnShard, DeleteLanded, InsertLanded, AdvanceCursor,
           Typed, PeerTyped, PullStates
      <4> QED
        BY <2>0, <2>3, <4>1 DEF PullNamed
    <3> QED
      BY <1>2, <3>1, <3>2, <3>3, <3>4 DEF Pull, RejectStale, FinishPull, PullFails
  <2>7. LandedWasCommitted'
    <3>0. \A s \in Shards : landed[s] \in Versions =>
            \E m \in history' : m.gen <= lastGen' /\ m.shards[s] = landed[s]
      BY <1>0, <2>3, <2>4, StillNamed
    <3>1. CASE DeleteLanded(q)
      <4>1. PICK s \in old.todo : landed' = [landed EXCEPT ![s] = Partial]
        BY <3>1 DEF DeleteLanded
      <4>2. Partial \notin Versions
        BY SyncAssumption DEF Partial
      <4> QED
        BY <3>0, <4>1, <4>2 DEF LandedWasCommitted, Typed, PeerTyped
    <3>2. CASE InsertLanded(q)
      <4>1. old.man \in history' /\ old.man.gen <= lastGen'
        BY <2>0, <2>3, <3>2 DEF InsertLanded, PullNamed
      <4>2. \A s \in Shards : landed'[s] = old.man.shards[s] \/ landed'[s] = landed[s]
        BY <3>2 DEF InsertLanded, Expected
      <4> QED
        BY <3>0, <4>1, <4>2 DEF LandedWasCommitted
    <3>3. CASE landed' = landed
      BY <3>0, <3>3 DEF LandedWasCommitted
    <3> QED
      BY <1>2, <3>1, <3>2, <3>3 DEF Pull, GetManifest, RejectStale, Accept, Accepted, SkipShard,
         WarnShard, AdvanceCursor, FinishPull, PullFails
  <2> QED
    BY <2>5, <2>6, <2>7 DEF Shown
<1> QED
  BY <1>1, <1>2 DEF Next

(* The rows a peer shows are those of a manifest it accepted, for any      *)
(* number of pulls at a time, although what is read from the store is an   *)
(* object and not the manifest: the hash of the one must match the other.  *)
THEOREM PeersShowCommitted == Spec => []LandedWasCommitted
<1>1. Shown => LandedWasCommitted
  BY DEF Shown
<1> QED
  BY <1>1, AlwaysTyped, InitShown, StepShown, PTL DEF Spec

-----------------------------------------------------------------------------
(* The order of generations, when no two pushes run at a time.             *)

(* The manifest is not ahead of the outbox, and what a push is about to    *)
(* commit is ahead of both.                                                *)
PushAhead(x) ==
    x.pc \in {"upload", "record", "commit"} =>
        /\ x.gen > manifest.gen
        /\ \A s \in Shards : outbox[s].gen <= x.gen
        /\ x.pc = "commit" => \E s \in Shards : outbox[s].gen = x.gen

ManifestBehind == manifest.gen = 0 \/ \E s \in Shards : outbox[s].gen >= manifest.gen

Ordered == ManifestBehind /\ \A p \in Pushers : PushAhead(push[p])

LEMMA InitOrdered == Init => Ordered
BY DEF Init, Ordered, ManifestBehind, PushAhead, NoPush, NoManifest

LEMMA StepOrdered == OnePusher => (Typed /\ Typed' /\ Ordered /\ [Next]_vars => Ordered')
<1> SUFFICES ASSUME OnePusher, Typed, Typed', Ordered, [Next]_vars PROVE Ordered'
  OBVIOUS
<1>1. CASE ChangeMart \/ UNCHANGED vars \/ \E q \in Pullers : Pull(q) \/ PullFails(q)
  <2>1. outbox' = outbox /\ push' = push /\ UNCHANGED bucket
    BY <1>1 DEF ChangeMart, vars, device, Pull, GetManifest, RejectStale, Accept, Accepted,
       SkipShard, WarnShard, DeleteLanded, InsertLanded, AdvanceCursor, FinishPull, PullFails
  <2> QED
    BY <2>1 DEF bucket, Ordered, ManifestBehind, PushAhead
<1>2. ASSUME NEW p \in Pushers, Push(p) \/ PushFails(p) PROVE Ordered'
  <2> DEFINE old == push[p]
  <2>0. old \in PushStates /\ PushShape(old) /\ PushAhead(old)
    BY DEF Typed, DeviceTyped, Ordered
  <2>1. \A s \in Shards : outbox[s].gen \in Nat /\ outbox'[s].gen \in Nat
    BY DEF Typed, DeviceTyped
  <2>2. manifest.gen \in Nat /\ manifest'.gen \in Nat /\ old.gen \in Nat
    BY <2>0 DEF Typed, BucketTyped, Manifests, PushStates
  <2>3. PushAhead(push[p])' /\ ManifestBehind' => Ordered'
    BY DEF Ordered, OnePusher
  <2>4. CASE push' = [push EXCEPT ![p] = NoPush] /\ UNCHANGED <<outbox, manifest>>
    BY <2>3, <2>4 DEF PushAhead, NoPush, Ordered, ManifestBehind, Typed, DeviceTyped
  <2>5. CASE StartPush(p) \/ BuildShard(p)
    <3>1. push'[p].pc = "build" /\ UNCHANGED <<outbox, manifest>>
      <4>1. CASE StartPush(p)
        BY <4>1 DEF StartPush, NoPush, bucket, Typed, DeviceTyped
      <4>2. CASE BuildShard(p)
        BY <2>0, <4>2 DEF BuildShard, bucket, Typed, DeviceTyped, PushStates
      <4> QED
        BY <2>5, <4>1, <4>2
    <3> QED
      BY <2>3, <3>1 DEF PushAhead, Ordered, ManifestBehind
  <2>6. CASE PlanPush(p)
    <3>1. push'[p].pc = "upload" /\ push'[p].gen = CurrentGen + 1 /\ UNCHANGED <<outbox, manifest>>
      BY <2>0, <2>6 DEF PlanPush, bucket, Typed, DeviceTyped, PushStates
    <3>2. CurrentGen \in Nat /\ \A s \in Shards : outbox[s].gen <= CurrentGen
      BY GreatestInOutbox DEF Typed
    <3>3. manifest.gen <= CurrentGen
      BY <2>1, <2>2, <3>2 DEF Ordered, ManifestBehind
    <3> QED
      BY <2>1, <2>2, <2>3, <3>1, <3>2, <3>3 DEF PushAhead, Ordered, ManifestBehind
  <2>7. CASE PutShard(p)
    <3>1. /\ push'[p].pc = "record" /\ push'[p].gen = old.gen
          /\ old.pc = "upload" /\ UNCHANGED <<outbox, manifest>>
      BY <2>0, <2>7 DEF PutShard, Typed, DeviceTyped, PushStates
    <3> QED
      BY <2>0, <2>3, <3>1 DEF PushAhead, Ordered, ManifestBehind
  <2>8. CASE RecordPushed(p)
    <3>1. /\ push'[p].pc \in {"upload", "commit"} /\ push'[p].gen = old.gen
          /\ old.pc = "record" /\ manifest' = manifest
      BY <2>0, <2>8 DEF RecordPushed, bucket, Typed, DeviceTyped, PushStates
    <3>2. \A s \in Shards : outbox'[s].gen \in {old.gen, outbox[s].gen}
      BY <2>8 DEF RecordPushed
    <3>3. \E s \in Shards : outbox'[s].gen = old.gen
      BY <2>0, <2>8 DEF RecordPushed, PushShape, PushStates
    <3>4. \A s \in Shards : outbox'[s].gen <= old.gen /\ old.gen > manifest.gen
      BY <2>0, <2>1, <2>2, <3>1, <3>2 DEF PushAhead
    <3> QED
      BY <2>0, <2>1, <2>2, <2>3, <3>1, <3>3, <3>4 DEF PushAhead, ManifestBehind
  <2>9. CASE PutManifest(p)
    <3>1. push'[p].pc = "idle" /\ manifest'.gen = old.gen /\ old.pc = "commit" /\ outbox' = outbox
      BY <2>0, <2>9 DEF PutManifest, Commit, NoPush, Typed, DeviceTyped
    <3> QED
      BY <2>0, <2>1, <2>2, <2>3, <3>1 DEF PushAhead, ManifestBehind
  <2> QED
    BY <1>2, <2>4, <2>5, <2>6, <2>7, <2>8, <2>9 DEF Push, PushNothing, PushFails, bucket
<1> QED
  BY <1>1, <1>2 DEF Next

(* A manifest is only ever replaced by one of a greater generation, as     *)
(* long as one push runs at a time: a push killed between its records and  *)
(* its commit does not let the next one reuse its number.                  *)
THEOREM GenerationsGrow == OnePusher => (Spec => GenerationGrows)
<1> SUFFICES ASSUME OnePusher PROVE Spec => GenerationGrows
  OBVIOUS
<1>1. ASSUME Ordered, [Next]_vars
      PROVE  [manifest' # manifest => manifest'.gen > manifest.gen]_manifest
  <2>1. ASSUME NEW p \in Pushers, PutManifest(p) PROVE manifest'.gen > manifest.gen
    BY <1>1, <2>1 DEF PutManifest, Commit, Ordered, PushAhead
  <2> QED
    BY <1>1, <2>1 DEF Next, ChangeMart, vars, bucket, Push, StartPush, BuildShard, PushNothing,
       PlanPush, PutShard, RecordPushed, PushFails, Pull, GetManifest, RejectStale, Accept, Accepted,
       SkipShard, WarnShard, DeleteLanded, InsertLanded, AdvanceCursor, FinishPull, PullFails
<1> QED
  BY <1>1, AlwaysTyped, InitOrdered, StepOrdered, PTL DEF Spec, GenerationGrows

-----------------------------------------------------------------------------
(* The replay guard, when no two pushes and no two pulls run at a time.    *)

(* One manifest for a generation, none later than the one that stands, and *)
(* what a pull lands is of the generation recorded last.                   *)
PullCurrent(x) == x.pc \in {"shards", "insert", "advance"} =>
                      x.man \in history /\ x.man.gen = lastGen

Numbered ==
    /\ \A m \in history : m.gen <= manifest.gen
    /\ \A m, n \in history : m.gen = n.gen => m = n
    /\ \A q \in Pullers : pull[q].pc = "check" => pull[q].man \in history
    /\ \A q \in Pullers : PullCurrent(pull[q])

LEMMA InitNumbered == Init => Numbered
BY DEF Init, Numbered, PullCurrent, NoPull

LEMMA StepNumbered ==
    OnePusher /\ OnePuller => (Typed /\ Ordered /\ Numbered /\ [Next]_vars => Numbered')
<1> SUFFICES ASSUME OnePusher, OnePuller, Typed, Ordered, Numbered, [Next]_vars PROVE Numbered'
  OBVIOUS
<1>1. CASE UNCHANGED <<bucket, peer>>
  BY <1>1 DEF bucket, peer, Numbered, PullCurrent
<1>2. ASSUME NEW p \in Pushers, PutShard(p) PROVE Numbered'
  BY <1>2 DEF PutShard, peer, Numbered, PullCurrent
<1>3. ASSUME NEW p \in Pushers, PutManifest(p) PROVE Numbered'
  <2>1. /\ history' = history \cup {manifest'}
        /\ manifest'.gen > manifest.gen
        /\ manifest'.gen \in Nat /\ manifest.gen \in Nat
    BY <1>3 DEF PutManifest, Commit, Ordered, PushAhead, Typed, DeviceTyped, PushStates,
       BucketTyped, Manifests
  <2>2. \A m \in history : m.gen \in Nat /\ m.gen <= manifest.gen
    BY DEF Numbered, Typed, BucketTyped, Manifests
  <2>3. \A m \in history : m.gen < manifest'.gen
    BY <2>1, <2>2
  <2>4. /\ \A m \in history' : m.gen <= manifest'.gen
        /\ \A m, n \in history' : m.gen = n.gen => m = n
    BY <2>1, <2>2, <2>3 DEF Numbered
  <2>5. UNCHANGED peer
    BY <1>3 DEF PutManifest, Commit
  <2> QED
    BY <2>1, <2>4, <2>5 DEF peer, Numbered, PullCurrent
<1>4. ASSUME NEW q \in Pullers, Pull(q) \/ PullFails(q) PROVE Numbered'
  <2> DEFINE old == pull[q]
  <2>0. old \in PullStates /\ PullCurrent(old) /\ (old.pc = "check" => old.man \in history)
    BY DEF Typed, PeerTyped, Numbered
  <2>1. history' = history /\ manifest' = manifest
    BY <1>4 DEF bucket, Pull, GetManifest, RejectStale, Accept, Accepted, SkipShard, WarnShard,
       DeleteLanded, InsertLanded, AdvanceCursor, FinishPull, PullFails
  <2>2. PullCurrent(pull[q])' /\ (pull'[q].pc = "check" => pull'[q].man \in history) => Numbered'
    BY <2>1 DEF Numbered, OnePuller
  <2>3. CASE pull' = [pull EXCEPT ![q] = NoPull]
    BY <2>2, <2>3 DEF PullCurrent, NoPull, Typed, PeerTyped
  <2>4. CASE GetManifest(q)
    <3>1. PICK m \in history : pull' = [pull EXCEPT ![q] = [NoPull EXCEPT !.pc = "check", !.man = m]]
      BY <2>4 DEF GetManifest
    <3>2. pull'[q].pc = "check" /\ pull'[q].man = m
      BY <3>1 DEF NoPull, Typed, PeerTyped
    <3> QED
      BY <2>2, <3>2 DEF PullCurrent
  <2>5. CASE Accept(q)
    <3>1. pull'[q].pc = "shards" /\ pull'[q].man = old.man /\ old.pc = "check"
      BY <2>0, <2>5 DEF Accept, Accepted, Typed, PeerTyped, PullStates
    <3>2. old.man.gen \in Nat /\ lastGen \in Nat /\ old.man.gen >= lastGen
      BY <2>0, <2>5 DEF Accept, PullStates, Manifests, Typed, PeerTyped
    <3>3. lastGen' = old.man.gen
      <4>1. /\ lastGen' \in {lastGen, old.man.gen}
            /\ lastGen' >= lastGen /\ lastGen' >= old.man.gen
        BY <2>5, <3>2, LargerOfTwo DEF Accept, Accepted
      <4> QED
        BY <3>2, <4>1
    <3> QED
      BY <2>0, <2>1, <2>2, <3>1, <3>3 DEF PullCurrent
  <2>6. CASE SkipShard(q) \/ WarnShard(q) \/ DeleteLanded(q) \/ InsertLanded(q) \/ AdvanceCursor(q)
    <3>1. /\ pull'[q].man = old.man /\ lastGen' = lastGen
          /\ old.pc \in {"shards", "insert", "advance"} /\ pull'[q].pc # "check"
      BY <2>0, <2>6 DEF SkipShard, WarnShard, DeleteLanded, InsertLanded, AdvanceCursor,
         Typed, PeerTyped, PullStates
    <3> QED
      BY <2>0, <2>1, <2>2, <3>1 DEF PullCurrent
  <2> QED
    BY <1>4, <2>3, <2>4, <2>5, <2>6 DEF Pull, RejectStale, FinishPull, PullFails
<1> QED
  BY <1>1, <1>2, <1>3, <1>4 DEF Next, ChangeMart, vars, Push, StartPush, BuildShard, PushNothing,
     PlanPush, RecordPushed, PushFails

(* The rows of a shard are never replaced by those of a generation older   *)
(* than the last one accepted, whatever old manifest the store answers     *)
(* with, as long as one push and one pull run at a time.                   *)
THEOREM ReplayRefused == OnePusher /\ OnePuller => (Spec => NoReplay)
<1> SUFFICES ASSUME OnePusher, OnePuller PROVE Spec => NoReplay
  OBVIOUS
<1> DEFINE Fresh == \A s \in Shards : landed'[s] # landed[s] /\ landed'[s] # Partial =>
                        \A m \in history : m.gen = lastGen => m.shards[s] = landed'[s]
<1>1. ASSUME Typed, Numbered, [Next]_vars PROVE [Fresh]_vars
  <2>1. CASE landed' = landed
    BY <2>1
  <2>2. ASSUME NEW q \in Pullers, InsertLanded(q) PROVE Fresh
    <3>1. pull[q].man \in history /\ pull[q].man.gen = lastGen
      BY <1>1, <2>2 DEF InsertLanded, Numbered, PullCurrent
    <3>2. \A m \in history : m.gen = lastGen => m = pull[q].man
      BY <1>1, <3>1 DEF Numbered
    <3>3. \A s \in Shards : landed'[s] # landed[s] => landed'[s] = pull[q].man.shards[s]
      BY <2>2 DEF InsertLanded, Expected
    <3> QED
      BY <3>2, <3>3
  <2>3. ASSUME NEW q \in Pullers, DeleteLanded(q) PROVE Fresh
    <3>1. PICK t \in pull[q].todo : landed' = [landed EXCEPT ![t] = Partial]
      BY <2>3 DEF DeleteLanded
    <3>2. \A s \in Shards : landed'[s] # landed[s] => landed'[s] = Partial
      BY <1>1, <3>1 DEF Typed, PeerTyped
    <3> QED
      BY <3>2
  <2> QED
    BY <1>1, <2>1, <2>2, <2>3 DEF Next, ChangeMart, vars, peer, Push, StartPush, BuildShard,
       PushNothing, PlanPush, PutShard, RecordPushed, PutManifest, Commit, PushFails, Pull,
       GetManifest, RejectStale, Accept, Accepted, SkipShard, WarnShard, AdvanceCursor,
       FinishPull, PullFails
<1> QED
  BY <1>1, AlwaysTyped, InitOrdered, StepOrdered, InitNumbered, StepNumbered, PTL
     DEF Spec, NoReplay
-----------------------------------------------------------------------------
(* What is in the store, as long as nothing failed and one push runs at a  *)
(* time.                                                                   *)

(* A put and its record are two statements: between them the outbox is     *)
(* behind the store.                                                       *)
Recorded ==
    \A s \in Shards : \/ objects[s] = outbox[s].hash
                      \/ \E p \in Pushers : push[p].pc = "record" /\ s \in push[p].cur

(* What a push has sent, or never had to send, is what its manifest will   *)
(* name.                                                                   *)
Sent(x) ==
    /\ x.pc \in {"upload", "record", "commit"} =>
         \A s \in Listed(x.snap) \ x.todo : objects[s] = x.snap[s]
    /\ x.pc = "record" => \A s \in x.cur : objects[s] = x.snap[s]

Served ==
    (\A p \in Pushers : push[p].pc \in {"idle", "build"}) =>
        \A s \in Listed(manifest.shards) : objects[s] = manifest.shards[s]

Stored == fails = 0 => Recorded /\ Served /\ \A p \in Pushers : Sent(push[p])

LEMMA InitStored == Init => Stored
BY DEF Init, Stored, Recorded, Served, Sent, NoPush, NoManifest, NoShards, Listed

LEMMA StepStored == OnePusher => (Typed /\ Typed' /\ Stored /\ [Next]_vars => Stored')
<1> SUFFICES ASSUME OnePusher, Typed, Typed', Stored, [Next]_vars, fails' = 0
             PROVE  (Recorded /\ Served /\ \A p \in Pushers : Sent(push[p]))'
  BY DEF Stored
<1>0. fails = 0
  <2>1. fails \in Nat
    BY SyncAssumption DEF Typed, DeviceTyped
  <2>2. fails' \in {fails, fails + 1}
    BY DEF Next, ChangeMart, vars, Push, StartPush, BuildShard, PushNothing, PlanPush, PutShard,
       RecordPushed, PutManifest, Commit, PushFails, Pull, GetManifest, RejectStale, Accept, Accepted,
       SkipShard, WarnShard, DeleteLanded, InsertLanded, AdvanceCursor, FinishPull, PullFails
  <2> QED
    BY <2>1, <2>2
<1>1. Recorded /\ Served /\ \A p \in Pushers : Sent(push[p])
  BY <1>0 DEF Stored
<1>2. CASE ChangeMart \/ UNCHANGED vars \/ \E q \in Pullers : Pull(q) \/ PullFails(q)
  <2>1. outbox' = outbox /\ push' = push /\ UNCHANGED bucket
    BY <1>2 DEF ChangeMart, vars, device, Pull, GetManifest, RejectStale, Accept, Accepted,
       SkipShard, WarnShard, DeleteLanded, InsertLanded, AdvanceCursor, FinishPull, PullFails
  <2> QED
    BY <1>1, <2>1 DEF bucket, Recorded, Served, Sent
<1>3. ASSUME NEW p \in Pushers, Push(p)
      PROVE  (Recorded /\ Served /\ \A r \in Pushers : Sent(push[r]))'
  <2> DEFINE old == push[p]
  <2>0. old \in PushStates /\ PushShape(old) /\ Sent(old)
    BY <1>1 DEF Typed, DeviceTyped
  <2>1. Pushers = {p}
    BY DEF OnePusher
  <2>2. /\ \A s \in Shards : objects[s] = outbox[s].hash \/ (old.pc = "record" /\ s \in old.cur)
        /\ old.pc \in {"idle", "build"} =>
             \A s \in Listed(manifest.shards) : objects[s] = manifest.shards[s]
    BY <1>1, <2>1 DEF Recorded, Served
  <2>3. CASE /\ push'[p].pc \in {"idle", "build"} /\ old.pc \in {"idle", "build"}
             /\ UNCHANGED <<outbox, objects, manifest>>
    BY <2>1, <2>2, <2>3 DEF Recorded, Served, Sent
  <2>4. CASE PlanPush(p)
    <3>1. /\ push'[p].pc = "upload" /\ push'[p].todo = Pending(old.snap)
          /\ push'[p].snap = old.snap /\ old.pc = "build"
          /\ UNCHANGED <<outbox, objects, manifest>>
      BY <2>0, <2>4 DEF PlanPush, Built, bucket, Typed, DeviceTyped, PushStates
    <3>2. \A s \in Listed(old.snap) \ Pending(old.snap) : objects[s] = old.snap[s]
      BY <2>2, <3>1 DEF Listed, Pending
    <3> QED
      BY <2>1, <2>2, <3>1, <3>2 DEF Recorded, Served, Sent
  <2>5. CASE PutShard(p)
    <3>1. PICK t \in old.todo : /\ objects' = [objects EXCEPT ![t] = old.snap[t]]
                                /\ push' = [push EXCEPT ![p].pc = "record", ![p].cur = {t}]
      BY <2>5 DEF PutShard
    <3>2. /\ push'[p].pc = "record" /\ push'[p].cur = {t} /\ old.pc = "upload"
          /\ push'[p].todo = old.todo /\ push'[p].snap = old.snap
          /\ UNCHANGED <<outbox, manifest>>
      BY <2>0, <2>5, <3>1 DEF PutShard, Typed, DeviceTyped, PushStates
    <3>3. t \in Shards /\ objects'[t] = old.snap[t] /\ \A s \in Shards \ {t} : objects'[s] = objects[s]
      BY <2>0, <3>1 DEF Typed, BucketTyped, PushStates
    <3>4. \A s \in Listed(old.snap) \ old.todo : s \in Shards \ {t} /\ objects[s] = old.snap[s]
      BY <2>0, <3>2 DEF Sent, Listed
    <3> QED
      BY <2>1, <2>2, <3>2, <3>3, <3>4 DEF Recorded, Served, Sent
  <2>6. CASE RecordPushed(p)
    <3>1. /\ push'[p].pc \in {"upload", "commit"} /\ push'[p].todo = old.todo \ old.cur
          /\ push'[p].snap = old.snap /\ old.pc = "record"
          /\ UNCHANGED <<objects, manifest>>
      BY <2>0, <2>6 DEF RecordPushed, bucket, Typed, DeviceTyped, PushStates
    <3>2. \A s \in Shards : outbox'[s].hash = IF s \in old.cur THEN old.snap[s] ELSE outbox[s].hash
      BY <2>6 DEF RecordPushed
    <3>3. \A s \in old.cur : objects[s] = old.snap[s]
      BY <2>0, <3>1 DEF Sent
    <3>4. \A s \in Listed(old.snap) \ (old.todo \ old.cur) : objects[s] = old.snap[s]
      BY <2>0, <3>1, <3>3 DEF Sent
    <3> QED
      BY <2>1, <2>2, <3>1, <3>2, <3>3, <3>4 DEF Recorded, Served, Sent
  <2>7. CASE PutManifest(p)
    <3>1. /\ push'[p].pc = "idle" /\ old.pc = "commit" /\ manifest'.shards = old.snap
          /\ UNCHANGED <<outbox, objects>>
      BY <2>0, <2>7 DEF PutManifest, Commit, NoPush, Typed, DeviceTyped
    <3>2. \A s \in Listed(old.snap) : objects[s] = old.snap[s]
      BY <2>0, <3>1 DEF Sent, PushShape
    <3> QED
      BY <2>1, <2>2, <3>1, <3>2 DEF Recorded, Served, Sent
  <2>8. CASE StartPush(p) \/ BuildShard(p) \/ PushNothing(p)
    <3>1. /\ push'[p].pc \in {"idle", "build"} /\ old.pc \in {"idle", "build"}
          /\ UNCHANGED <<outbox, objects, manifest>>
      <4>1. CASE StartPush(p)
        BY <4>1 DEF StartPush, NoPush, bucket, Typed, DeviceTyped
      <4>2. CASE BuildShard(p)
        BY <2>0, <4>2 DEF BuildShard, bucket, Typed, DeviceTyped, PushStates
      <4>3. CASE PushNothing(p)
        BY <4>3 DEF PushNothing, Built, NoPush, bucket, Typed, DeviceTyped
      <4> QED
        BY <2>8, <4>1, <4>2, <4>3
    <3> QED
      BY <2>3, <3>1
  <2> QED
    BY <1>3, <2>4, <2>5, <2>6, <2>7, <2>8 DEF Push
<1>4. ASSUME NEW p \in Pushers, PushFails(p) PROVE FALSE
  BY <1>0, <1>4 DEF PushFails
<1> QED
  BY <1>2, <1>3, <1>4 DEF Next

(* Between pushes, and as long as nothing failed, every object the         *)
(* manifest names is there with the content it names: a peer that pulls    *)
(* then gets all of it.  Two pushes at a time could each overwrite an      *)
(* object the other's manifest names.                                      *)
THEOREM ManifestReadable == OnePusher => (Spec => []Readable)
<1> SUFFICES ASSUME OnePusher PROVE Spec => []Readable
  OBVIOUS
<1>1. Stored => Readable
  BY DEF Stored, Served, Readable
<1> QED
  BY <1>1, AlwaysTyped, InitStored, StepStored, PTL DEF Spec

-----------------------------------------------------------------------------
(* The cursors, when no two pulls run at a time.                           *)

(* The shard a pull replaces is one its cursor does not have yet, and once *)
(* its rows are in they are those the manifest names.                      *)
PullReplaces(x) ==
    /\ \A s \in x.cur : cursor[s] # x.man.shards[s]
    /\ x.pc = "advance" => \A s \in x.cur : landed[s] = x.man.shards[s]

Trailed ==
    /\ \A s \in Shards : \/ cursor[s] \in {Absent, landed[s]}
                         \/ s \in torn
                         \/ \E q \in Pullers : s \in pull[q].cur
    /\ \A q \in Pullers : PullReplaces(pull[q])

LEMMA InitTrailed == Init => Trailed
BY DEF Init, Trailed, PullReplaces, NoPull, NoShards

LEMMA StepTrailed == OnePuller => (Typed /\ Typed' /\ Trailed /\ [Next]_vars => Trailed')
<1> SUFFICES ASSUME OnePuller, Typed, Typed', Trailed, [Next]_vars PROVE Trailed'
  OBVIOUS
<1>1. CASE UNCHANGED peer
  BY <1>1 DEF peer, Trailed, PullReplaces
<1>2. ASSUME NEW q \in Pullers, Pull(q) \/ PullFails(q) PROVE Trailed'
  <2> DEFINE old == pull[q]
  <2>0. old \in PullStates /\ PullShape(old) /\ PullReplaces(old)
    BY DEF Typed, PeerTyped, Trailed
  <2>1. Pullers = {q}
    BY DEF OnePuller
  <2>2. \A s \in Shards : cursor[s] \in {Absent, landed[s]} \/ s \in torn \/ s \in old.cur
    BY <2>1 DEF Trailed
  <2>3. CASE pull'[q].cur = {} /\ old.cur = {} /\ UNCHANGED <<cursor, landed, torn>>
    BY <2>1, <2>2, <2>3 DEF Trailed, PullReplaces
  <2>4. CASE DeleteLanded(q)
    <3>1. PICK t \in old.todo : /\ cursor[t] # Expected(q, t)
                                /\ landed' = [landed EXCEPT ![t] = Partial]
                                /\ pull' = [pull EXCEPT ![q].pc = "insert", ![q].cur = {t}]
      BY <2>4 DEF DeleteLanded
    <3>2. /\ pull'[q].pc = "insert" /\ pull'[q].cur = {t} /\ pull'[q].man = old.man
          /\ UNCHANGED <<cursor, torn>>
      BY <2>0, <2>4, <3>1 DEF DeleteLanded, Typed, PeerTyped, PullStates
    <3>4. old.cur = {}
      BY <2>0, <2>4 DEF DeleteLanded, PullShape
    <3>3. \A s \in Shards \ {t} : landed'[s] = landed[s]
      BY <3>1 DEF Typed, PeerTyped
    <3> QED
      BY <2>1, <2>2, <3>1, <3>2, <3>3, <3>4 DEF Trailed, PullReplaces, Expected
  <2>5. CASE InsertLanded(q)
    <3>1. /\ pull'[q].cur = old.cur /\ pull'[q].man = old.man /\ UNCHANGED <<cursor, torn>>
      BY <2>0, <2>5 DEF InsertLanded, Typed, PeerTyped, PullStates
    <3>2. \A s \in Shards : landed'[s] = IF s \in old.cur THEN old.man.shards[s] ELSE landed[s]
      BY <2>5 DEF InsertLanded, Expected
    <3>3. old.cur \subseteq Shards
      BY <2>0 DEF PullStates
    <3> QED
      BY <2>0, <2>1, <2>2, <3>1, <3>2, <3>3 DEF Trailed, PullReplaces
  <2>6. CASE AdvanceCursor(q)
    <3>1. pull'[q].cur = {} /\ torn' = torn \ old.cur /\ landed' = landed /\ old.pc = "advance"
      BY <2>0, <2>6 DEF AdvanceCursor, Typed, PeerTyped, PullStates
    <3>2. \A s \in Shards : cursor'[s] = IF s \in old.cur THEN old.man.shards[s] ELSE cursor[s]
      BY <2>6 DEF AdvanceCursor, Advanced, Expected
    <3>3. \A s \in old.cur : landed[s] = old.man.shards[s]
      BY <2>0, <3>1 DEF PullReplaces
    <3> QED
      BY <2>1, <2>2, <3>1, <3>2, <3>3 DEF Trailed, PullReplaces
  <2>7. CASE PullFails(q)
    <3>1. pull'[q].cur = {} /\ UNCHANGED <<cursor, landed>>
      BY <2>7 DEF PullFails, NoPull, Typed, PeerTyped
    <3>2. torn' = torn \cup old.cur
      BY <2>0, <2>7 DEF PullFails, PullReplaces, Expected
    <3> QED
      BY <2>1, <2>2, <3>1, <3>2 DEF Trailed, PullReplaces
  <2>8. CASE \/ GetManifest(q) \/ RejectStale(q) \/ Accept(q)
             \/ SkipShard(q) \/ WarnShard(q) \/ FinishPull(q)
    <3>1. old.cur = {} /\ UNCHANGED <<cursor, landed, torn>>
      BY <2>0, <2>8 DEF GetManifest, RejectStale, Accept, Accepted, SkipShard, WarnShard,
         FinishPull, PullShape
    <3>2. pull'[q].cur = {}
      <4>1. CASE RejectStale(q) \/ FinishPull(q)
        BY <4>1 DEF RejectStale, FinishPull, NoPull, Typed, PeerTyped
      <4>3. CASE GetManifest(q)
        <5>1. PICK m \in history :
                pull' = [pull EXCEPT ![q] = [NoPull EXCEPT !.pc = "check", !.man = m]]
          BY <4>3 DEF GetManifest
        <5> QED
          BY <5>1 DEF NoPull, Typed, PeerTyped
      <4>2. CASE Accept(q) \/ SkipShard(q) \/ WarnShard(q)
        BY <2>0, <3>1, <4>2 DEF Accept, Accepted, SkipShard, WarnShard, Typed, PeerTyped, PullStates
      <4> QED
        BY <2>8, <4>1, <4>2, <4>3
    <3> QED
      BY <2>3, <3>1, <3>2
  <2> QED
    BY <1>2, <2>4, <2>5, <2>6, <2>7, <2>8 DEF Pull
<1> QED
  BY <1>1, <1>2 DEF Next, ChangeMart, vars, Push, StartPush, BuildShard, PushNothing, PlanPush,
     PutShard, RecordPushed, PutManifest, Commit, PushFails

(* A shard that a pull leaves out because its cursor has the hash is one   *)
(* whose rows are all there, unless a pull died over it since: DELETE,     *)
(* INSERT and the cursor are three transactions.  Two pulls at a time      *)
(* could delete under each other's cursor.                                 *)
THEOREM SkipsAreComplete == OnePuller => (Spec => SkipIsComplete)
<1> SUFFICES ASSUME OnePuller PROVE Spec => SkipIsComplete
  OBVIOUS
<1>1. ASSUME Typed, Trailed,
             NEW q \in Pullers, NEW s \in pull[q].todo,
             pull[q].pc = "shards", cursor[s] = Expected(q, s)
      PROVE  landed[s] = Expected(q, s) \/ s \in torn
  <2>1. PullShape(pull[q])
    BY <1>1 DEF Typed, PeerTyped
  <2>2. s \in Shards /\ cursor[s] # Absent
    BY <1>1, <2>1 DEF PullShape, Listed, Expected
  <2>3. \A r \in Pullers : s \notin pull[r].cur
    BY <1>1, <2>1 DEF OnePuller, PullShape
  <2> QED
    BY <1>1, <2>2, <2>3 DEF Trailed
<1>2. Typed /\ Trailed =>
        [\A q \in Pullers : \A s \in pull[q].todo \ pull'[q].todo :
           pull[q].pc = "shards" /\ cursor[s] = Expected(q, s) /\ pull'[q].pc = "shards" =>
               landed[s] = Expected(q, s) \/ s \in torn]_vars
  BY <1>1
<1> QED
  BY <1>2, AlwaysTyped, InitTrailed, StepTrailed, PTL DEF Spec, SkipIsComplete
-----------------------------------------------------------------------------
(* The peer is a replica of the device.                                    *)

(* A pull has at most one shard in hand, and one its manifest lists.       *)
OneInHand == \A q \in Pullers :
    /\ pull[q].cur = {} \/ \E s \in Shards : pull[q].cur = {s}
    /\ \A s \in pull[q].cur : pull[q].man.shards[s] # Absent

LEMMA InitOneInHand == Init => OneInHand
BY DEF Init, OneInHand, NoPull

LEMMA StepOneInHand == Typed /\ Typed' /\ OneInHand /\ [Next]_vars => OneInHand'
<1> SUFFICES ASSUME Typed, Typed', OneInHand, [Next]_vars PROVE OneInHand'
  OBVIOUS
<1>0. \A q \in Pullers : \A s \in pull'[q].cur : s \in Shards /\ pull'[q].man.shards[s] # Absent
  BY DEF Typed, PeerTyped, PullShape, Listed
<1>1. CASE UNCHANGED pull
  BY <1>1 DEF OneInHand
<1>2. ASSUME NEW q \in Pullers, Pull(q) \/ PullFails(q) PROVE OneInHand'
  <2> DEFINE old == pull[q]
  <2>0. old \in PullStates
    BY DEF Typed, PeerTyped
  <2>1. PICK new \in PullStates : pull' = [pull EXCEPT ![q] = new]
    BY <1>2, PullSteps
  <2>2. pull'[q] = new /\ \A r \in Pullers \ {q} : pull'[r] = pull[r]
    BY <2>1, PullMoves DEF Typed, PeerTyped
  <2>3. ASSUME pull'[q].cur \in {{}, old.cur} \/ \E s \in Shards : pull'[q].cur = {s}
        PROVE  OneInHand'
    BY <1>0, <2>2, <2>3 DEF OneInHand
  <2>4. CASE pull' = [pull EXCEPT ![q] = NoPull]
    BY <2>3, <2>4 DEF NoPull, Typed, PeerTyped
  <2>5. CASE GetManifest(q)
    <3>1. PICK m \in history :
            pull' = [pull EXCEPT ![q] = [NoPull EXCEPT !.pc = "check", !.man = m]]
      BY <2>5 DEF GetManifest
    <3> QED
      BY <2>3, <3>1 DEF NoPull, Typed, PeerTyped
  <2>6. CASE Accept(q) \/ SkipShard(q) \/ WarnShard(q) \/ InsertLanded(q)
    <3>1. pull'[q].cur = old.cur
      BY <2>0, <2>6 DEF Accept, Accepted, SkipShard, WarnShard, InsertLanded, Typed, PeerTyped, PullStates
    <3> QED
      BY <2>3, <3>1
  <2>7. CASE DeleteLanded(q)
    <3>1. PICK s \in old.todo : pull' = [pull EXCEPT ![q].pc = "insert", ![q].cur = {s}]
      BY <2>7 DEF DeleteLanded
    <3>2. s \in Shards /\ pull'[q].cur = {s}
      BY <2>0, <3>1 DEF Typed, PeerTyped, PullStates
    <3> QED
      BY <2>3, <3>2
  <2>8. CASE AdvanceCursor(q)
    <3>1. pull'[q].cur = {}
      BY <2>0, <2>8 DEF AdvanceCursor, Typed, PeerTyped, PullStates
    <3> QED
      BY <2>3, <3>1
  <2> QED
    BY <1>2, <2>4, <2>5, <2>6, <2>7, <2>8 DEF Pull, RejectStale, FinishPull, PullFails
<1> QED
  BY <1>1, <1>2 DEF Next, ChangeMart, vars, peer, Push, StartPush, BuildShard, PushNothing, PlanPush,
     PutShard, RecordPushed, PutManifest, Commit, PushFails

(* Each step of the detailed system is a step of the replica or none: a    *)
(* commit offers, an accepted manifest moves, a DELETE hides a shard and   *)
(* its INSERTs show it.                                                    *)
LEMMA CommitOffers ==
    ASSUME Typed, Ordered, Numbered, NEW p \in Pushers, PutManifest(p)
    PROVE  Peer!Offer
<1>1. /\ history' = history \cup {manifest'} /\ UNCHANGED <<lastGen, landed>>
      /\ manifest'.gen > manifest.gen
      /\ manifest'.gen \in Nat /\ manifest.gen \in Nat
  BY DEF PutManifest, Commit, peer, Ordered, PushAhead, Typed, DeviceTyped, PushStates,
         BucketTyped, Manifests
<1>2. \A m \in history : m.gen \in Nat /\ m.gen <= manifest.gen
  BY DEF Numbered, Typed, BucketTyped, Manifests
<1>3. \A m \in history : manifest'.gen > m.gen
  BY <1>1, <1>2
<1>4. manifest' \in history' \ history
  BY <1>1, <1>3
<1> QED
  BY <1>1, <1>3, <1>4 DEF Peer!Offer

LEMMA AcceptMoves ==
    ASSUME Typed, Numbered, NEW q \in Pullers, Accept(q)
    PROVE  Peer!Move \/ UNCHANGED Peer!vars
<1> DEFINE man == pull[q].man
<1>1. man \in history /\ man.gen >= lastGen /\ UNCHANGED <<history, landed>>
  BY DEF Accept, Accepted, bucket, Numbered
<1>2. man.gen \in Nat /\ lastGen \in Nat
  BY <1>1 DEF Typed, PeerTyped, BucketTyped, Manifests
<1>3. lastGen' = man.gen
  <2>1. /\ lastGen' \in {lastGen, man.gen}
        /\ lastGen' >= lastGen /\ lastGen' >= man.gen
    BY <1>2, LargerOfTwo DEF Accept, Accepted
  <2> QED
    BY <1>1, <1>2, <2>1
<1>4. man.gen > lastGen \/ man.gen = lastGen
  BY <1>1, <1>2
<1> QED
  BY <1>1, <1>3, <1>4 DEF Peer!Move, Peer!vars

LEMMA LandHides ==
    ASSUME Typed, NEW q \in Pullers, DeleteLanded(q)
    PROVE  \E s \in Shards : Peer!Hide(s)
<1>1. PICK s \in pull[q].todo : landed' = [landed EXCEPT ![s] = Partial]
  BY DEF DeleteLanded
<1>2. s \in Shards /\ UNCHANGED <<history, lastGen>>
  BY DEF DeleteLanded, bucket, Typed, PeerTyped, PullStates
<1> QED
  BY <1>1, <1>2 DEF Peer!Hide

LEMMA LandShows ==
    ASSUME Typed, Numbered, OneInHand, NEW q \in Pullers, InsertLanded(q)
    PROVE  \E s \in Shards : Peer!Show(s)
<1> DEFINE man == pull[q].man
<1>1. /\ man \in history /\ man.gen = lastGen /\ UNCHANGED <<history, lastGen>>
  BY DEF InsertLanded, bucket, Numbered, PullCurrent
<1>2. PICK s \in Shards : pull[q].cur = {s}
  BY DEF InsertLanded, OneInHand, Typed, PeerTyped, PullShape
<1>3. man.shards[s] # Absent
  BY <1>2 DEF OneInHand
<1>4. landed' = [landed EXCEPT ![s] = man.shards[s]]
  BY <1>2 DEF InsertLanded, Expected, Typed, PeerTyped
<1> QED
  BY <1>1, <1>3, <1>4 DEF Peer!Show

LEMMA StepReplicates ==
    Typed /\ Ordered /\ Numbered /\ OneInHand /\ [Next]_vars => [Peer!Next]_(Peer!vars)
<1> SUFFICES ASSUME Typed, Ordered, Numbered, OneInHand, [Next]_vars
             PROVE  Peer!Next \/ UNCHANGED Peer!vars
  OBVIOUS
<1>1. CASE UNCHANGED <<history, lastGen, landed>>
  BY <1>1 DEF Peer!vars
<1>2. ASSUME NEW p \in Pushers, PutManifest(p) PROVE Peer!Next
  BY <1>2, CommitOffers DEF Peer!Next
<1>3. ASSUME NEW q \in Pullers, Accept(q) PROVE Peer!Next \/ UNCHANGED Peer!vars
  BY <1>3, AcceptMoves DEF Peer!Next
<1>4. ASSUME NEW q \in Pullers, DeleteLanded(q) PROVE Peer!Next
  BY <1>4, LandHides DEF Peer!Next
<1>5. ASSUME NEW q \in Pullers, InsertLanded(q) PROVE Peer!Next
  BY <1>5, LandShows DEF Peer!Next
<1> QED
  BY <1>1, <1>2, <1>3, <1>4, <1>5 DEF Next, ChangeMart, vars, bucket, peer, Push, StartPush,
     BuildShard, PushNothing, PlanPush, PutShard, RecordPushed, PushFails, Pull, GetManifest,
     RejectStale, SkipShard, WarnShard, AdvanceCursor, FinishPull, PullFails

(* A pull beside pushes, failures and a store that answers with old        *)
(* manifests implements the replica: what the peer shows of a shard only   *)
(* changes to what the edition it has moved to last says, and it never     *)
(* moves back.  One push and one pull run at a time.                       *)
THEOREM PeerIsReplica == OnePusher /\ OnePuller => (Spec => ImplementsReplica)
<1>1. Init => Peer!Init
  BY DEF Init, Peer!Init, NoShards
<1>2. ASSUME OnePusher, OnePuller PROVE Spec => ImplementsReplica
  <2>1. Typed /\ Ordered /\ Numbered /\ [Next]_vars => Numbered'
    BY <1>2, StepNumbered
  <2>2. Typed /\ Typed' /\ Ordered /\ [Next]_vars => Ordered'
    BY <1>2, StepOrdered
  <2> QED
    BY <1>1, <2>1, <2>2, AlwaysTyped, InitOrdered, InitNumbered, InitOneInHand, StepOneInHand,
       StepReplicates, PTL DEF Spec, ImplementsReplica, Peer!Spec
<1> QED
  BY <1>2
=============================================================================
