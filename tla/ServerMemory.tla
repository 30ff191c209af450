----------------------------- MODULE ServerMemory -----------------------------
(***************************************************************************)
(* What the server keeps in memory and every request shares: the memo of   *)
(* project statistics, an LRU cache that each use validates against a      *)
(* signature read from the store, and the two slots of the backfill job,   *)
(* the running one and the last one.  Each is behind a mutex that is held  *)
(* for one lookup or update, so a request is several steps, and between    *)
(* them other requests, the backfill task and the processes that ingest    *)
(* take theirs.  A restart loses all of it.                                *)
(*                                                                         *)
(* Abstractions.  The rows of a project are a version, which every commit  *)
(* that adds messages moves; such a commit adds to sum(message_count), so  *)
(* that the signature stands for the version too, and equal signatures are *)
(* equal versions.  A key is a project and a clamped time zone; its slug   *)
(* is what invalidate goes by.  The statistics are the version they were   *)
(* computed from.  Backfill writes only derived tables, none of which the  *)
(* statistics read, so its work is not part of this module.                *)
(***************************************************************************)
EXTENDS Integers, Sequences, FiniteSets

CONSTANTS
    Requests,       \* threads of the blocking pool that serve requests
    Keys,           \* keys of the memo
    Slugs,          \* projects
    SlugOf,         \* [Keys -> Slugs]
    MaxEntries,     \* STATS_CACHE_MAX
    MaxVersion,     \* bound: commits to a project
    MaxJobs,        \* bound: backfill jobs accepted
    MaxPanics,      \* bound: jobs whose task panics
    MaxRestarts     \* bound: restarts of the server

ASSUME MemoryAssumption ==
    /\ SlugOf \in [Keys -> Slugs]
    /\ MaxEntries \in Nat \ {0}
    /\ {MaxVersion, MaxJobs, MaxPanics, MaxRestarts} \subseteq Nat

Jobs     == 1..MaxJobs
NoJob    == 0
NoEntry  == [sig |-> -1, data |-> -1]

VARIABLES
    version,    \* [Slugs -> Nat]: the store, by project
    memo,       \* [Keys -> entry or NoEntry]: signature and statistics
    recency,    \* keys of the memo, the least recently used first
    current,    \* the job that holds the slot, or NoJob
    last,       \* the job that ended last, and whether its 30 s are over
    accepted,   \* jobs accepted so far; a job is its number
    panicked,   \* jobs whose task has panicked
    request,    \* [Requests -> state of the request]
    forgotten,  \* history: the newest job whose time was over, or lost in a restart
    restarts

store  == <<version>>
cache  == <<memo, recency>>
slots  == <<current, last, accepted, panicked, forgotten>>
vars   == <<store, cache, slots, request, restarts>>

(* key: the key the request is about, if any.  floor: the signature it     *)
(* read.  data: what it computed or was given.  saw: the jobs a status     *)
(* request found; owed: the newest job accepted when it began.             *)
Idle == [pc |-> "idle", key |-> {}, floor |-> 0, data |-> -1, saw |-> {}, owed |-> NoJob]

NoLast == [job |-> NoJob, over |-> FALSE]

Init ==
    /\ version = [s \in Slugs |-> 0]
    /\ memo = [k \in Keys |-> NoEntry] /\ recency = <<>>
    /\ current = NoJob /\ last = NoLast /\ accepted = 0
    /\ panicked = {} /\ forgotten = NoJob
    /\ request = [r \in Requests |-> Idle]
    /\ restarts = 0

-----------------------------------------------------------------------------
(* Ingest: the watcher, another process, or a refresh request.             *)

Commit(s) ==
    /\ version[s] < MaxVersion
    /\ version' = [version EXCEPT ![s] = @ + 1]

Ingest(s) ==
    /\ Commit(s)
    /\ UNCHANGED <<cache, slots, request, restarts>>

Becomes(r, new) == request' = [request EXCEPT ![r] = new]

RefreshIngests(r, s) ==
    /\ request[r].pc = "idle"
    /\ Commit(s)
    /\ Becomes(r, [request[r] EXCEPT !.pc = "invalidate"])
    /\ UNCHANGED <<cache, slots, restarts>>

(* VecDeque::retain: the queue without the keys in T.                      *)
Without(queue, T) ==
    LET kept[i \in 0..Len(queue)] ==
            IF i = 0 THEN <<>>
            ELSE IF queue[i] \in T THEN kept[i - 1] ELSE Append(kept[i - 1], queue[i])
    IN  kept[Len(queue)]

Invalidate(S) ==
    /\ memo' = [k \in Keys |-> IF SlugOf[k] \in S THEN NoEntry ELSE memo[k]]
    /\ recency' = Without(recency, {k \in Keys : SlugOf[k] \in S})

(* The slug of the project that is current by now, or all of them.         *)
RefreshInvalidates(r) ==
    /\ request[r].pc = "invalidate"
    /\ \E S \in {Slugs} \cup {{s} : s \in Slugs} : Invalidate(S)
    /\ Becomes(r, Idle)
    /\ UNCHANGED <<store, slots, restarts>>

(* set_model_alias and delete_model_alias; the file is not part of this.   *)
EditAlias ==
    /\ Invalidate(Slugs)
    /\ UNCHANGED <<store, slots, request, restarts>>

-----------------------------------------------------------------------------
(* project_stats_cached.                                                   *)

ReadSignature(r, k) ==
    /\ request[r].pc = "idle"
    /\ Becomes(r, [request[r] EXCEPT !.pc = "get", !.key = {k}, !.floor = version[SlugOf[k]]])
    /\ UNCHANGED <<store, cache, slots, restarts>>

At(r, label, k) == request[r].pc = label /\ request[r].key = {k}

Serve(r, data) ==
    Becomes(r, [request[r] EXCEPT !.pc = "answer", !.key = {}, !.data = data])

Touched(k) == Append(Without(recency, {k}), k)

ValidNewer(r, k) == memo[k] # NoEntry                                \* mutant
Valid(r, k) == memo[k] # NoEntry /\ memo[k].sig = request[r].floor

Hit(r, k) ==
    /\ At(r, "get", k) /\ Valid(r, k)
    /\ Serve(r, memo[k].data)
    /\ recency' = Touched(k)
    /\ UNCHANGED <<store, memo, slots, restarts>>

Miss(r, k) ==
    /\ At(r, "get", k) /\ ~Valid(r, k)
    /\ Becomes(r, [request[r] EXCEPT !.pc = "compute"])
    /\ UNCHANGED <<store, cache, slots, restarts>>

(* One SELECT reads all of the messages.                                   *)
Compute(r, k) ==
    /\ At(r, "compute", k)
    /\ Becomes(r, [request[r] EXCEPT !.pc = "put", !.data = version[SlugOf[k]]])
    /\ UNCHANGED <<store, cache, slots, restarts>>

ComputeFails(r, k) ==
    /\ At(r, "compute", k)
    /\ Becomes(r, Idle)
    /\ UNCHANGED <<store, cache, slots, restarts>>

(* The mutant signs the entry when it is stored.                           *)
EntryLate(r, k) == [sig |-> version[SlugOf[k]], data |-> request[r].data]
EntryOf(r, k)   == [sig |-> request[r].floor, data |-> request[r].data]

Evicted(order)     == IF Len(order) > MaxEntries THEN {Head(order)} ELSE {}
KeptLong(order)    == IF Len(order) > MaxEntries + 1 THEN Tail(order) ELSE order     \* mutant
Kept(order)        == IF Len(order) > MaxEntries THEN Tail(order) ELSE order

Put(r, k) ==
    /\ At(r, "put", k)
    /\ memo' = [j \in Keys |-> IF j = k THEN EntryOf(r, k)
                               ELSE IF j \in Evicted(Touched(k)) THEN NoEntry ELSE memo[j]]
    /\ recency' = Kept(Touched(k))
    /\ Serve(r, request[r].data)
    /\ UNCHANGED <<store, slots, restarts>>

Answered(r) ==
    /\ request[r].pc \in {"answer", "shown"}
    /\ Becomes(r, Idle)
    /\ UNCHANGED <<store, cache, slots, restarts>>

-----------------------------------------------------------------------------
(* The backfill slot.                                                      *)

(* start_job; 202, and a task is spawned.  A slot that is held is a 409,   *)
(* which changes nothing.                                                  *)
StartJob ==
    /\ current = NoJob /\ accepted < MaxJobs
    /\ accepted' = accepted + 1
    /\ current' = accepted + 1
    /\ UNCHANGED <<store, cache, last, panicked, forgotten, request, restarts>>

(* complete_job by the task of the job, which is alive.                    *)
CompleteJob(j) ==
    /\ current = j /\ j \in Jobs \ panicked
    /\ last' = [job |-> j, over |-> FALSE]
    /\ current' = NoJob
    /\ UNCHANGED <<store, cache, accepted, panicked, forgotten, request, restarts>>

(* A task that panics never gets to complete_job.                          *)
Panic(j) ==
    /\ current = j /\ j \in Jobs \ panicked
    /\ Cardinality(panicked) < MaxPanics
    /\ panicked' = panicked \cup {j}
    /\ UNCHANGED <<store, cache, current, last, accepted, forgotten, request, restarts>>

(* LAST_JOB_TTL_SECONDS pass.                                              *)
TimeOver ==
    /\ last # NoLast /\ ~last.over
    /\ last' = [last EXCEPT !.over = TRUE]
    /\ forgotten' = last.job
    /\ UNCHANGED <<store, cache, current, accepted, panicked, request, restarts>>

(* get_etl_status asks for one slot and then for the other.                *)
SlotOrderSwapped == <<"last", "current">>                            \* mutant
SlotOrder == <<"current", "last">>

Found(slot) ==
    IF slot = "current" THEN {current} \ {NoJob}
    ELSE IF last.over THEN {} ELSE {last.job} \ {NoJob}

(* get_last_job clears a slot whose time is over.                          *)
AskSlot(slot) ==
    /\ last' = IF slot = "last" /\ last.over THEN NoLast ELSE last
    /\ UNCHANGED <<store, cache, current, accepted, panicked, forgotten, restarts>>

StatusFirst(r) ==
    /\ request[r].pc = "idle"
    /\ AskSlot(SlotOrder[1])
    /\ Becomes(r, [request[r] EXCEPT !.pc = "status", !.saw = Found(SlotOrder[1]),
                                     !.owed = accepted])

StatusSecond(r) ==
    /\ request[r].pc = "status"
    /\ AskSlot(SlotOrder[2])
    /\ Becomes(r, [request[r] EXCEPT !.pc = "shown", !.saw = @ \cup Found(SlotOrder[2])])

Restart ==
    /\ restarts < MaxRestarts
    /\ restarts' = restarts + 1
    /\ memo' = [k \in Keys |-> NoEntry] /\ recency' = <<>>
    /\ current' = NoJob /\ last' = NoLast
    /\ forgotten' = accepted
    /\ request' = [r \in Requests |-> Idle]
    /\ UNCHANGED <<store, accepted, panicked>>

-----------------------------------------------------------------------------
Stats(r) ==
    \E k \in Keys :
        \/ ReadSignature(r, k) \/ Hit(r, k) \/ Miss(r, k)
        \/ Compute(r, k) \/ ComputeFails(r, k) \/ Put(r, k)

Request(r) ==
    \/ Stats(r) \/ StatusFirst(r) \/ StatusSecond(r) \/ Answered(r)
    \/ (\E s \in Slugs : RefreshIngests(r, s)) \/ RefreshInvalidates(r)

Task == \E j \in Jobs : CompleteJob(j)

Next ==
    \/ \E s \in Slugs : Ingest(s)
    \/ \E r \in Requests : Request(r)
    \/ EditAlias \/ StartJob \/ Task
    \/ (\E j \in Jobs : Panic(j))
    \/ TimeOver \/ Restart

Spec == Init /\ [][Next]_vars

-----------------------------------------------------------------------------
(* Properties.                                                             *)

Entry == [sig : Int, data : Int]

(* Every variable has its type, and the memo keeps to its bound.           *)
TypeOK ==
    /\ version \in [Slugs -> 0..MaxVersion]
    /\ memo \in [Keys -> Entry]
    /\ recency \in Seq(Keys) /\ Len(recency) <= MaxEntries
    /\ \A k \in Keys : memo[k] # NoEntry <=> \E i \in DOMAIN recency : recency[i] = k
    /\ current \in 0..accepted /\ accepted \in 0..MaxJobs
    /\ last \in [job : 0..accepted, over : BOOLEAN]
    /\ panicked \subseteq 1..accepted /\ forgotten \in 0..accepted
    /\ \A r \in Requests : request[r].saw \subseteq 1..accepted
    /\ restarts \in 0..MaxRestarts

(* Nobody is shown statistics older than the store was when the request    *)
(* began, whatever was cached, evicted or invalidated in between, and      *)
(* although the entry is signed before it is computed and stored after.    *)
FreshAnswers ==
    \A r \in Requests : request[r].pc = "answer" => request[r].data >= request[r].floor

(* A status that shows no job at all is one whose newest job ended 30      *)
(* seconds ago, or is lost in a restart: a job that ends between the two   *)
(* questions is found by one of them.                                      *)
JobNeverVanishes ==
    \A r \in Requests :
        request[r].pc = "shown" /\ request[r].saw = {} => request[r].owed <= forgotten
=============================================================================
