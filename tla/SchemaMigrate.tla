---------------------------- MODULE SchemaMigrate ----------------------------
(***************************************************************************)
(* schema::apply: bringing the store to the current schema version.        *)
(*                                                                         *)
(* Every command that opens the store for writing, the server at boot and  *)
(* each worker of a static-analysis backfill call it, in processes and     *)
(* threads that know nothing of each other.  user_version is read once, at *)
(* the beginning; after that every migration is a transaction of its own,  *)
(* which sets user_version with its last statement.                        *)
(*                                                                         *)
(* What a migration does is reduced to whether it has been done, and to    *)
(* whether its body can run again: CREATE TABLE and ADD COLUMN cannot, the *)
(* UPDATE of messages cannot once messages is a view, the others can.      *)
(***************************************************************************)
EXTENDS Integers

CONSTANTS
    Procs,          \* processes and threads that call apply
    Migrations,     \* MIGRATIONS: the versions there is a migration for
    Guards,         \* ADD_COLUMN_GUARDS: those a column is looked for
    CreateTable,    \* bodies that create tables which must not be there
    AddColumn,      \* bodies that add columns which must not be there
    UpdateMessages, \* bodies that update messages as a table
    Rebuild,        \* bodies that copy a table into a new one, and may fail again
    Partition,      \* the version that makes messages a view
    SingleColumn,   \* bodies that consist of the column of their guard
    Born,           \* versions a store may have to begin with
    MaxKills        \* bound: applies that are killed or give up

ASSUME SchemaAssumption ==
    /\ Migrations \subseteq Nat \ {0}
    /\ Guards \subseteq Migrations /\ SingleColumn \subseteq Guards
    /\ CreateTable \subseteq Migrations /\ AddColumn \subseteq Guards
    /\ UpdateMessages \subseteq Migrations /\ Rebuild \subseteq Migrations
    /\ (CreateTable \cup UpdateMessages \cup Rebuild) \cap Guards = {}
    /\ Partition \in Migrations
    /\ Born \subseteq Migrations \cup {0}
    /\ MaxKills \in Nat

VARIABLES
    version,    \* PRAGMA user_version
    done,       \* migrations whose tables, columns and rows are there
    pc,         \* [Procs -> statement to execute next]
    at,         \* [Procs -> last version dealt with, first the one read]
    served,     \* history: some apply returned Ok
    born,       \* history: version at the beginning
    overlapped, \* history: two applies ran at the same time
    kills       \* applies killed so far

store   == <<version, done>>
history == <<born, overlapped>>
vars    == <<store, pc, at, served, history, kills>>

(* The operator may have added a guarded column by hand.                   *)
Init ==
    /\ born \in Born
    /\ version = born
    /\ \E byHand \in {{}} \cup {{v} : v \in SingleColumn} :
         done = {v \in Migrations : v <= born} \cup (IF born = 0 THEN {} ELSE byHand)
    /\ pc = [p \in Procs |-> "idle"]
    /\ at = [p \in Procs |-> 0]
    /\ served = FALSE
    /\ overlapped = FALSE
    /\ kills = 0

Goto(p, label, v) == pc' = [pc EXCEPT ![p] = label] /\ at' = [at EXCEPT ![p] = v]

ReadVersion(p) ==
    /\ pc[p] = "idle"
    /\ Goto(p, "loop", version)
    /\ overlapped' = (overlapped \/ \E q \in Procs \ {p} : pc[q] # "idle")
    /\ UNCHANGED <<store, served, born, kills>>

FollowingByNumber ==             \* mutant: counted up instead of looked up, past the end
    [n \in Migrations \cup {0} |-> {n + 1}]

(* MIGRATIONS is in ascending order: the first version beyond each one.    *)
Following ==
    [n \in Migrations \cup {0} |->
        {v \in Migrations : v > n /\ \A w \in Migrations : w > n => v <= w}]

Due(p) == Following[at[p]]

ColumnAssumed(v) == TRUE         \* mutant: the guard skips without looking

(* column_exists: the first column of an ADD COLUMN body, or of a table    *)
(* that the body creates if it is not there.                               *)
ColumnExists(v) == v \in done

-----------------------------------------------------------------------------
(* The loop of apply_upto.                                                 *)

(* A guard hit sets user_version and skips the body.                       *)
GuardHit(p, v) ==
    /\ pc[p] = "loop"
    /\ v \in Guards /\ ColumnExists(v)
    /\ version' = v
    /\ Goto(p, "loop", v)
    /\ UNCHANGED <<done, served, history, kills>>

(* Its column is missing, or it has no guard: the body is next.            *)
GuardMiss(p, v) ==
    /\ pc[p] = "loop"
    /\ ~(v \in Guards /\ ColumnExists(v))
    /\ Goto(p, "body", at[p])
    /\ UNCHANGED <<store, served, history, kills>>

MessagesIsView == Partition \in done

(* The first statement of the body that cannot run again fails.            *)
Blocked(v) ==
    \/ v \in CreateTable \cup AddColumn /\ v \in done
    \/ v \in UpdateMessages /\ MessagesIsView

RunBodyFirst(p, v) ==            \* mutant: the body commits before its version
    /\ pc[p] = "body" /\ version < v
    /\ ~Blocked(v) \/ v \in done
    /\ IF v \notin done
       THEN done' = done \cup {v} /\ UNCHANGED <<version, pc, at>>
       ELSE version' = v /\ Goto(p, "loop", v) /\ UNCHANGED done
    /\ UNCHANGED <<served, history, kills>>

RunBodyLast(p, v) ==             \* mutant: the version commits before its body
    /\ pc[p] = "body"
    /\ ~Blocked(v)
    /\ IF version < v
       THEN version' = v /\ UNCHANGED <<done, pc, at>>
       ELSE done' = done \cup {v} /\ Goto(p, "loop", v) /\ UNCHANGED version
    /\ UNCHANGED <<served, history, kills>>

(* One transaction: the body and its user_version.                         *)
RunBody(p, v) ==
    /\ pc[p] = "body"
    /\ ~Blocked(v)
    /\ version' = v
    /\ done' = done \cup {v}
    /\ Goto(p, "loop", v)
    /\ UNCHANGED <<served, history, kills>>

(* The error goes up, the connection is closed, and what the body had done *)
(* is rolled back.                                                         *)
BodyFails(p, v) ==
    /\ pc[p] = "body"
    /\ Blocked(v) \/ (v \in Rebuild /\ v \in done)
    /\ Goto(p, "idle", 0)
    /\ UNCHANGED <<store, served, history, kills>>

ReturnOk(p) ==
    /\ pc[p] = "loop" /\ \A v \in Migrations : v <= at[p]
    /\ served' = TRUE
    /\ Goto(p, "idle", 0)
    /\ UNCHANGED <<store, history, kills>>

(* A kill, or a statement that waited too long for the lock.               *)
Die(p) ==
    /\ pc[p] # "idle"
    /\ kills < MaxKills
    /\ kills' = kills + 1
    /\ Goto(p, "idle", 0)
    /\ UNCHANGED <<store, served, history>>

Step(p) ==
    \/ ReadVersion(p)
    \/ \E v \in Due(p) : GuardHit(p, v) \/ GuardMiss(p, v) \/ RunBody(p, v) \/ BodyFails(p, v)
    \/ ReturnOk(p)

Next == \E p \in Procs : Step(p) \/ Die(p)

Spec == Init /\ [][Next]_vars

(* Commands are run again, and a call of apply that began goes on.         *)
FairSpec == Spec /\ \A p \in Procs : WF_vars(Step(p))

-----------------------------------------------------------------------------
(* Properties.                                                             *)

(* Every variable has its type.                                            *)
TypeOK ==
    /\ version \in Migrations \cup {0}
    /\ done \subseteq Migrations
    /\ pc \in [Procs -> {"idle", "loop", "body"}]
    /\ at \in [Procs -> Migrations \cup {0}]
    /\ served \in BOOLEAN /\ overlapped \in BOOLEAN
    /\ born \in Born
    /\ kills \in 0..MaxKills

(* user_version never claims a migration whose tables and columns are not  *)
(* there, whatever overlaps and whatever is killed.                        *)
VersionIsBacked == \A v \in Migrations : v <= version => v \in done

(* Once an apply has returned Ok the whole schema is there, and stays.     *)
OkMeansComplete == served => done = Migrations

(* Migrations whose bodies cannot run again and have no guard.             *)
Unrepeatable == CreateTable \cup UpdateMessages \cup Rebuild

(* Beyond b those that cannot be repeated come before all that can.  An    *)
(* apply that read b long ago then fails at its first statement, or has    *)
(* only bodies before it that may run again.                               *)
Orderly(b) ==
    \A u \in Unrepeatable, v \in Migrations \ Unrepeatable : u > b /\ v > b => u < v

(* The store gets to the last version again and again, wherever an apply   *)
(* was killed, and although one with an old reading lowers user_version as *)
(* it passes - unless two applies overlapped on a store from before the    *)
(* last of the migrations that neither have a guard nor can run again.     *)
EventuallyCurrent ==
    <>(overlapped /\ ~Orderly(born)) \/ []<>(\A v \in Migrations : v <= version)
=============================================================================
