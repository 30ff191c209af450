------------------------------ MODULE DeviceSync ------------------------------
(***************************************************************************)
(* Multi-device sync: stax sync push on one device, stax sync pull on      *)
(* another, and the object store between them.                             *)
(*                                                                         *)
(* Abstractions.                                                           *)
(*  - A shard's body and its content hash are one version number; Absent   *)
(*    is a shard with no rows, which build_shards leaves out.              *)
(*  - Encryption, serialization and the checks of a shard's family and     *)
(*    columns are left out: an object is readable or not.                  *)
(*  - One pushing device and one pulling device.  Devices write under      *)
(*    their own prefix, so two pushing devices share nothing.              *)
(*  - The connection is in autocommit mode on both sides: every statement  *)
(*    is its own transaction and a step of its own.                        *)
(***************************************************************************)
EXTENDS Integers, FiniteSets, FiniteSetsExt

CONSTANTS
    Shards,         \* shard keys: (mart family, month)
    Versions,       \* contents a shard may have
    Pushers,        \* processes running sync push on the device
    Pullers,        \* processes running sync pull on its peer
    StaleReads,     \* whether the store may answer with an older manifest
    MaxChanges,     \* bound: changes of the local marts
    MaxFails        \* bound: pushes and pulls that fail or are killed

Absent  == 0
Partial == -1       \* rows deleted, not all inserted

ASSUME SyncAssumption ==
    /\ IsFiniteSet(Shards)
    /\ Versions \subseteq Nat \ {0}
    /\ StaleReads \in BOOLEAN
    /\ MaxChanges \in Nat /\ MaxFails \in Nat

VARIABLES
    local,      \* [Shards -> content of the marts now]
    outbox,     \* sync_outbox: [Shards -> [hash, gen]]
    push,       \* [Pushers -> state of the push]
    objects,    \* [Shards -> content of the shard's object]
    manifest,   \* the manifest object, gen 0 when there is none
    history,    \* every manifest the store ever held
    lastGen,    \* sync_remote_devices.last_generation, 0 for no row
    cursor,     \* sync_cursors: [Shards -> remote_content_hash]
    landed,     \* the <mart>_remote tables: [Shards -> content]
    pull,       \* [Pullers -> state of the pull]
    torn,       \* history: shards a pull died over, before their cursor
    changes,    \* changes of the marts so far
    fails       \* failures so far

device == <<local, outbox, push, changes>>
bucket == <<objects, manifest, history>>
peer   == <<lastGen, cursor, landed, pull, torn>>
vars   == <<device, bucket, peer, fails>>

NoShards   == [s \in Shards |-> Absent]
NoManifest == [gen |-> 0, shards |-> NoShards]
NoPush     == [pc |-> "idle", todo |-> {}, cur |-> {}, snap |-> NoShards, gen |-> 0]
NoPull     == [pc |-> "idle", todo |-> {}, cur |-> {}, man |-> NoManifest]

Listed(shards) == {s \in Shards : shards[s] # Absent}

Init ==
    /\ local = NoShards
    /\ outbox = [s \in Shards |-> [hash |-> Absent, gen |-> 0]]
    /\ push = [p \in Pushers |-> NoPush]
    /\ objects = NoShards
    /\ manifest = NoManifest
    /\ history = {}
    /\ lastGen = 0
    /\ cursor = NoShards
    /\ landed = NoShards
    /\ torn = {}
    /\ pull = [q \in Pullers |-> NoPull]
    /\ changes = 0
    /\ fails = 0

(* Ingest, a backfill or a rebuild changes the rows of one shard.          *)
ChangeMart ==
    /\ changes < MaxChanges
    /\ changes' = changes + 1
    /\ \E s \in Shards, v \in Versions \cup {Absent} :
         /\ v # local[s]
         /\ local' = [local EXCEPT ![s] = v]
    /\ UNCHANGED <<outbox, push, bucket, peer, fails>>

-----------------------------------------------------------------------------
(* push.                                                                   *)

StartPush(p) ==
    /\ push[p].pc = "idle"
    /\ push' = [push EXCEPT ![p] = [NoPush EXCEPT !.pc = "build", !.todo = Shards]]
    /\ UNCHANGED <<local, outbox, changes, bucket, peer, fails>>

(* build_shards: one SELECT per mart family.                               *)
BuildShard(p) ==
    /\ push[p].pc = "build"
    /\ \E s \in push[p].todo :
         push' = [push EXCEPT ![p].todo = @ \ {s}, ![p].snap[s] = local[s]]
    /\ UNCHANGED <<local, outbox, changes, bucket, peer, fails>>

CurrentGen == Max({outbox[s].gen : s \in Shards} \cup {0})

PendingAll(snap) == {s \in Shards : outbox[s].hash # snap[s]}         \* mutant
Pending(snap)    == {s \in Listed(snap) : outbox[s].hash # snap[s]}

Built(p) == push[p].pc = "build" /\ push[p].todo = {}

(* Nothing to upload: no put and no manifest either.                       *)
PushNothing(p) ==
    /\ Built(p)
    /\ Pending(push[p].snap) = {}
    /\ push' = [push EXCEPT ![p] = NoPush]
    /\ UNCHANGED <<local, outbox, changes, bucket, peer, fails>>

PlanPushManifest(p) ==           \* mutant: the manifest goes first
    /\ Built(p)
    /\ Pending(push[p].snap) # {}
    /\ push' = [push EXCEPT ![p].pc = "upload", ![p].todo = Pending(push[p].snap),
                            ![p].gen = CurrentGen + 1]
    /\ manifest' = [gen |-> CurrentGen + 1, shards |-> push[p].snap]
    /\ UNCHANGED <<local, outbox, changes, objects, history, peer, fails>>

PlanPushOwn(p) ==                \* mutant: generation of the pending rows only
    /\ Built(p)
    /\ Pending(push[p].snap) # {}
    /\ push' = [push EXCEPT ![p].pc = "upload", ![p].todo = Pending(push[p].snap),
                            ![p].gen = 1 + Max({outbox[s].gen : s \in Pending(push[p].snap)})]
    /\ UNCHANGED <<local, outbox, changes, bucket, peer, fails>>

PlanPush(p) ==
    /\ Built(p)
    /\ Pending(push[p].snap) # {}
    /\ push' = [push EXCEPT ![p].pc = "upload", ![p].todo = Pending(push[p].snap),
                            ![p].gen = CurrentGen + 1]
    /\ UNCHANGED <<local, outbox, changes, bucket, peer, fails>>

(* Phase 1: put the object, then record it in the outbox.                  *)
PutShard(p) ==
    /\ push[p].pc = "upload"
    /\ \E s \in push[p].todo :
         /\ objects' = [objects EXCEPT ![s] = push[p].snap[s]]
         /\ push' = [push EXCEPT ![p].pc = "record", ![p].cur = {s}]
    /\ UNCHANGED <<local, outbox, changes, manifest, history, peer, fails>>

RecordPushed(p) ==
    /\ push[p].pc = "record"
    /\ outbox' = [s \in Shards |-> IF s \in push[p].cur
                                   THEN [hash |-> push[p].snap[s], gen |-> push[p].gen]
                                   ELSE outbox[s]]
    /\ LET rest == push[p].todo \ push[p].cur
       IN  push' = [push EXCEPT ![p].todo = rest, ![p].cur = {},
                                ![p].pc = IF rest = {} THEN "commit" ELSE "upload"]
    /\ UNCHANGED <<local, changes, bucket, peer, fails>>

(* Phase 2: overwrite the manifest.                                        *)
Commit(p, shards) ==
    /\ push[p].pc = "commit"
    /\ manifest' = [gen |-> push[p].gen, shards |-> shards]
    /\ history' = history \cup {manifest'}
    /\ push' = [push EXCEPT ![p] = NoPush]
    /\ UNCHANGED <<local, outbox, changes, objects, peer, fails>>

PutManifestFresh(p) == Commit(p, local)          \* mutant: marts read again
PutManifest(p)      == Commit(p, push[p].snap)

(* A put that fails ends the push with an error, and so does a kill.  A    *)
(* put may fail after the object arrived.                                  *)
PushFails(p) ==
    /\ push[p].pc # "idle"
    /\ fails < MaxFails
    /\ fails' = fails + 1
    /\ push' = [push EXCEPT ![p] = NoPush]
    /\ UNCHANGED <<local, outbox, changes, bucket, peer>>

-----------------------------------------------------------------------------
(* pull.                                                                   *)

GetManifest(q) ==
    /\ pull[q].pc = "idle"
    /\ \E m \in history :
         /\ StaleReads \/ m = manifest
         /\ pull' = [pull EXCEPT ![q] = [NoPull EXCEPT !.pc = "check", !.man = m]]
    /\ UNCHANGED <<device, bucket, torn, lastGen, cursor, landed, fails>>

RejectStale(q) ==
    /\ pull[q].pc = "check"
    /\ pull[q].man.gen < lastGen
    /\ pull' = [pull EXCEPT ![q] = NoPull]
    /\ UNCHANGED <<device, bucket, torn, lastGen, cursor, landed, fails>>

Accepted(q) ==
    /\ lastGen' = Max({lastGen, pull[q].man.gen})
    /\ pull' = [pull EXCEPT ![q].pc = "shards", ![q].todo = Listed(pull[q].man.shards)]
    /\ UNCHANGED <<device, bucket, torn, cursor, landed, fails>>

AcceptAny(q) == pull[q].pc = "check" /\ Accepted(q)                   \* mutant

AcceptNewer(q) ==                \* mutant: a generation seen before is taken for done
    /\ pull[q].pc = "check" /\ pull[q].man.gen >= lastGen
    /\ IF pull[q].man.gen > lastGen THEN Accepted(q)
       ELSE pull' = [pull EXCEPT ![q] = NoPull]
            /\ UNCHANGED <<device, bucket, torn, lastGen, cursor, landed, fails>>

Accept(q)    == pull[q].pc = "check" /\ pull[q].man.gen >= lastGen /\ Accepted(q)

Expected(q, s) == pull[q].man.shards[s]

SkipShard(q) ==
    /\ pull[q].pc = "shards"
    /\ \E s \in pull[q].todo :
         /\ cursor[s] = Expected(q, s)
         /\ pull' = [pull EXCEPT ![q].todo = @ \ {s}]
    /\ UNCHANGED <<device, bucket, torn, lastGen, cursor, landed, fails>>

(* The object cannot be read, or is not the one the manifest names: a      *)
(* warning, and the next shard.                                            *)
WarnShard(q) ==
    /\ pull[q].pc = "shards"
    /\ \E s \in pull[q].todo :
         /\ cursor[s] # Expected(q, s)
         /\ \/ objects[s] # Expected(q, s) /\ fails' = fails
            \/ fails < MaxFails /\ fails' = fails + 1
         /\ pull' = [pull EXCEPT ![q].todo = @ \ {s}]
    /\ UNCHANGED <<device, bucket, torn, lastGen, cursor, landed>>

(* land_shard begins: the DELETE of the rows of the shard.                 *)
DeleteLanded(q) ==
    /\ pull[q].pc = "shards"
    /\ \E s \in pull[q].todo :
         /\ cursor[s] # Expected(q, s)
         /\ objects[s] = Expected(q, s)
         /\ landed' = [landed EXCEPT ![s] = Partial]
         /\ pull' = [pull EXCEPT ![q].pc = "insert", ![q].cur = {s}]
    /\ UNCHANGED <<device, bucket, torn, lastGen, cursor, fails>>

Advanced(q) == [s \in Shards |-> IF s \in pull[q].cur THEN Expected(q, s) ELSE cursor[s]]

InsertLandedLate(q) ==           \* mutant: the cursor moves before the rows do
    /\ pull[q].pc = "insert"
    /\ IF Advanced(q) # cursor
       THEN cursor' = Advanced(q) /\ UNCHANGED <<landed, pull>>
       ELSE /\ landed' = [s \in Shards |-> IF s \in pull[q].cur THEN Expected(q, s)
                                                              ELSE landed[s]]
            /\ pull' = [pull EXCEPT ![q].pc = "advance"]
            /\ UNCHANGED cursor
    /\ UNCHANGED <<device, bucket, torn, lastGen, fails>>

InsertLandedUnchecked(q) ==      \* mutant: whatever object is there is landed
    /\ pull[q].pc = "insert"
    /\ landed' = [s \in Shards |-> IF s \in pull[q].cur THEN objects[s] ELSE landed[s]]
    /\ pull' = [pull EXCEPT ![q].pc = "advance"]
    /\ UNCHANGED <<device, bucket, torn, lastGen, cursor, fails>>

(* Its INSERTs, the last of them.                                          *)
InsertLanded(q) ==
    /\ pull[q].pc = "insert"
    /\ landed' = [s \in Shards |-> IF s \in pull[q].cur THEN Expected(q, s) ELSE landed[s]]
    /\ pull' = [pull EXCEPT ![q].pc = "advance"]
    /\ UNCHANGED <<device, bucket, torn, lastGen, cursor, fails>>

AdvanceCursor(q) ==
    /\ pull[q].pc = "advance"
    /\ cursor' = Advanced(q)
    /\ torn' = torn \ pull[q].cur
    /\ pull' = [pull EXCEPT ![q].pc = "shards", ![q].todo = @ \ pull[q].cur, ![q].cur = {}]
    /\ UNCHANGED <<device, bucket, lastGen, landed, fails>>

FinishPull(q) ==
    /\ pull[q].pc = "shards" /\ pull[q].todo = {}
    /\ pull' = [pull EXCEPT ![q] = NoPull]
    /\ UNCHANGED <<device, bucket, torn, lastGen, cursor, landed, fails>>

PullFails(q) ==
    /\ pull[q].pc # "idle"
    /\ fails < MaxFails
    /\ fails' = fails + 1
    /\ torn' = torn \cup {s \in pull[q].cur : cursor[s] # Expected(q, s)}
    /\ pull' = [pull EXCEPT ![q] = NoPull]
    /\ UNCHANGED <<device, bucket, lastGen, cursor, landed>>

-----------------------------------------------------------------------------
Push(p) ==
    \/ StartPush(p) \/ BuildShard(p) \/ PushNothing(p) \/ PlanPush(p)
    \/ PutShard(p) \/ RecordPushed(p) \/ PutManifest(p)

Pull(q) ==
    \/ GetManifest(q) \/ RejectStale(q) \/ Accept(q)
    \/ SkipShard(q) \/ WarnShard(q) \/ DeleteLanded(q) \/ InsertLanded(q)
    \/ AdvanceCursor(q) \/ FinishPull(q)

Next ==
    \/ ChangeMart
    \/ \E p \in Pushers : Push(p) \/ PushFails(p)
    \/ \E q \in Pullers : Pull(q) \/ PullFails(q)

Spec == Init /\ [][Next]_vars

(* Somebody goes on running sync push and sync pull, and a store that      *)
(* answers with old manifests answers with the current one now and then.   *)
FairSpec ==
    /\ Spec
    /\ \A p \in Pushers : WF_vars(Push(p))
    /\ \A q \in Pullers :
         /\ WF_vars(Pull(q))
         /\ SF_vars(GetManifest(q) /\ pull'[q].man = manifest)

-----------------------------------------------------------------------------
(* Properties.                                                             *)

PushPcs == {"idle", "build", "upload", "record", "commit"}
PullPcs == {"idle", "check", "shards", "insert", "advance"}

(* Every variable has its type, and what is to be uploaded exists.         *)
TypeOK ==
    /\ local \in [Shards -> Versions \cup {Absent}]
    /\ outbox \in [Shards -> [hash : Versions \cup {Absent}, gen : Nat]]
    /\ objects \in [Shards -> Versions \cup {Absent}]
    /\ manifest \in [gen : Nat, shards : [Shards -> Versions \cup {Absent}]]
    /\ history \subseteq [gen : Nat, shards : [Shards -> Versions \cup {Absent}]]
    /\ lastGen \in Nat
    /\ cursor \in [Shards -> Versions \cup {Absent}]
    /\ landed \in [Shards -> Versions \cup {Absent, Partial}]
    /\ DOMAIN push = Pushers /\ DOMAIN pull = Pullers
    /\ \A p \in Pushers :
         /\ push[p].pc \in PushPcs
         /\ push[p].cur \subseteq push[p].todo
         /\ push[p].pc \notin {"idle", "build"} => push[p].todo \subseteq Listed(push[p].snap)
         /\ push[p].gen \in Nat
    /\ \A q \in Pullers :
         /\ pull[q].pc \in PullPcs
         /\ pull[q].cur \subseteq pull[q].todo
         /\ pull[q].todo \subseteq Listed(pull[q].man.shards)
    /\ torn \subseteq Shards
    /\ changes \in 0..MaxChanges /\ fails \in 0..MaxFails

(* A manifest that can be read names only objects that are there, whatever *)
(* pushes died on the way.                                                 *)
ManifestBacked == \A s \in Listed(manifest.shards) : objects[s] # Absent

(* Between pushes, if none failed, every object is the one the manifest    *)
(* names: a peer can take all of it.                                       *)
Readable ==
    fails = 0 /\ (\A p \in Pushers : push[p].pc \in {"idle", "build"}) =>
        \A s \in Listed(manifest.shards) : objects[s] = manifest.shards[s]

(* Manifests of a device supersede one another by generation, failed       *)
(* pushes included: the order the peers' replay guard relies on.           *)
GenerationGrows == [][manifest' # manifest => manifest'.gen > manifest.gen]_manifest

(* The rows a peer shows for a shard are those some accepted manifest      *)
(* named, never an object that was uploaded and not committed.             *)
LandedWasCommitted ==
    \A s \in Shards : landed[s] \in Versions =>
        \E m \in history : m.gen <= lastGen /\ m.shards[s] = landed[s]

(* Even when the store answers with older manifests, the rows of a shard   *)
(* are never replaced by those of an older generation.                     *)
NoReplay ==
    [][\A s \in Shards : landed'[s] # landed[s] /\ landed'[s] # Partial =>
         \A m \in history : m.gen = lastGen => m.shards[s] = landed'[s]]_vars

(* The peer is a replica: it moves from one manifest to a later one only,  *)
(* and a shard changes only to what the one it has accepted last names,    *)
(* although manifest and objects are read, replaced and landed one by one. *)
Peer == INSTANCE Replica
          WITH offered <- history, seen <- lastGen, shown <- landed,
               None <- Absent, Blank <- Partial

ImplementsReplica == Peer!Spec

(* A pull skips a shard only if the rows the manifest names are all there, *)
(* even after pulls that were killed half way - unless one died while it   *)
(* replaced these rows and the shard has returned to the hash from before, *)
(* which is what the cursor still holds.                                   *)
SkipIsComplete ==
    [][\A q \in Pullers : \A s \in pull[q].todo \ pull'[q].todo :
         pull[q].pc = "shards" /\ cursor[s] = Expected(q, s) /\ pull'[q].pc = "shards" =>
             landed[s] = Expected(q, s) \/ s \in torn]_vars

(* The next push does not see that the last one is unfinished: the content *)
(* is the one the outbox records, but the manifest does not name it (the   *)
(* put of the manifest failed), or the object is another one (uploaded and *)
(* not recorded, before the marts went back to the recorded content).      *)
LooksPushed(s) ==
    /\ outbox[s].hash = local[s]
    /\ manifest.shards[s] # local[s] \/ objects[s] # local[s]

(* Every content of the marts that stays reaches the peer, whatever failed *)
(* or was killed and whatever old manifests the store answered with - but  *)
(* for a shard whose unfinished push looks finished, and for one that a    *)
(* pull died over.                                                         *)
Converges ==
    <>[](\A s \in Listed(local) : landed[s] = local[s] \/ s \in torn \/ LooksPushed(s))
=============================================================================
