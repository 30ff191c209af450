----------------------------- MODULE MartRefresh -----------------------------
(***************************************************************************)
(* The ETL core of stax-etl: usage events, the mart tables built from them *)
(* and the per-mart watermarks that make the builds incremental.           *)
(*                                                                         *)
(* Several workers share one SQLite store: the resident watcher thread, an *)
(* ingest started by a request or by the command line, and a backfill      *)
(* (POST /api/etl/backfill, or `stax etl backfill` in another process).    *)
(* Each worker is a sequence of SQL statements; a statement outside        *)
(* BEGIN..COMMIT commits on its own, so every action below is one          *)
(* statement or one transaction and the workers interleave between them.   *)
(*                                                                         *)
(* Abstractions.                                                           *)
(*  - A message is its id (_messages_id_seq hands them out in commit       *)
(*    order); only messages the provider's normalizer converts are         *)
(*    modelled, and usage_events has at most one row for each              *)
(*    (uniq_events_msg).  event[x] is the id of x's row, 0 when none.      *)
(*  - A mart row aggregates the events of one group (day, session, tool,   *)
(*    prompt...); counted[m][x] is how many times event x is included in   *)
(*    the aggregates of mart m.  1 is right for every event, 0 for a       *)
(*    message without one.                                                 *)
(*  - The session_count columns are recomputed after the additive upsert   *)
(*    and carry no state of their own.                                     *)
(***************************************************************************)
EXTENDS Integers, Sequences, FiniteSets

CONSTANTS
    Workers,        \* threads and processes that write the store
    Jobs,           \* Jobs[w]: the kinds of job worker w may start
    NMarts,         \* marts are 1..NMarts, in the order of marts::all()
    Kind,           \* Kind[m]: how mart m folds a window into its table
    MaxMessages,    \* bound: messages ever ingested
    Group,          \* Group[x]: the mart row message x belongs to
    Batch,          \* most messages one file pass adds
    ChunkSize,      \* messages per transaction of the normalize pass
    ConvertMayFail, \* whether converting a batch may stop half way
    MaxFails,       \* bound: jobs that die and inserts that fail
    MaxJobs         \* bound: jobs ever started

Messages == 1..MaxMessages
Marts    == 1..NMarts
Kinds    == {"sum", "bucket", "replace", "ignore"}
JobKinds == {"ingest", "cycle", "touch", "backfill", "force"}

ASSUME CountsAssumption ==
    /\ NMarts \in Nat \ {0}
    /\ MaxMessages \in Nat
    /\ Batch \in Nat \ {0}
    /\ ChunkSize \in Nat \ {0}
    /\ MaxFails \in Nat
    /\ MaxJobs \in Nat
    /\ ConvertMayFail \in BOOLEAN

ASSUME ShapeAssumption ==
    /\ Kind \in [Marts -> Kinds]
    /\ Jobs \in [Workers -> SUBSET JobKinds]
    /\ DOMAIN Group = Messages

VARIABLES
    messages,   \* how many messages are committed: ids 1..messages
    event,      \* [Messages -> Nat]: id of the usage_events row, 0 = none
    top,        \* MAX(id) of usage_events, 0 when the table is empty
    wm,         \* [Marts -> Nat]: mart_watermark.last_event_id, 0 = no row
    counted,    \* [Marts -> [Messages -> Nat]]
    job,        \* [Workers -> JobKinds \cup {"none"}]
    phase,      \* [Workers -> Nat]: the part of the job being executed
    pc,         \* [Workers -> statement to execute next]
    mart,       \* [Workers -> Marts]: the loop variable over marts::all()
    old,        \* [Workers -> Nat]: since_event_id, or the pass's last_id
    new,        \* [Workers -> Nat]: max_id
    pend,       \* [Workers -> SUBSET Messages]: rows fetched, not yet applied
    fails,      \* failures so far
    jobs,       \* jobs started so far
    sound       \* history: no job died since the last completed forced backfill

store   == <<messages, event, top, wm, counted>>
frame   == <<job, phase, mart, old, new, pend>>
history == <<fails, jobs, sound>>
vars    == <<store, frame, pc, history>>

-----------------------------------------------------------------------------
(* The shape of each job: the phases it goes through, in order.            *)

\* Mutant of Phases: an ingest that leaves the marts to the next cycle.
PhasesNoRefresh ==
    [ ingest   |-> <<"commit">>,
      cycle    |-> <<"commit", "refresh", "recent", "refresh">>,
      touch    |-> <<"refresh">>,
      backfill |-> <<"pass", "refresh">>,
      force    |-> <<"drop", "unmark", "rebuild", "pass", "refresh">> ]

Phases ==
    [ ingest   |-> <<"commit", "refresh">>,
      cycle    |-> <<"commit", "refresh", "recent", "refresh">>,
      touch    |-> <<"refresh">>,
      backfill |-> <<"pass", "refresh">>,
      force    |-> <<"drop", "unmark", "rebuild", "pass", "refresh">> ]

NumPhases(j) == Len(Phases[j])

Entry ==    \* the first statement of a phase
    [ commit |-> "commit", refresh |-> "get", recent |-> "select",
      pass |-> "fetch", drop |-> "drop", unmark |-> "unmark",
      rebuild |-> "clear" ]

PhaseOf(w) == Phases[job[w]][phase[w]]

\* Mutant of Larger: set_watermark without the MAX guard.
LastWriter(a, b) == b

Larger(a, b) == IF a > b THEN a ELSE b

HasEvent(x) == event[x] # 0

Window(lo, hi) == {x \in Messages : HasEvent(x) /\ event[x] > lo /\ event[x] <= hi}

Touched(S) == {x \in Messages : \E y \in S : Group[y] = Group[x]}

(* INSERT OR IGNORE of the messages in S, in id order: those that have no  *)
(* row yet get the next ids.                                               *)
Missing(S) == {x \in S : ~HasEvent(x)}
Rank(S, x) == Cardinality({y \in S : y <= x})

InsertEvents(S) ==
    /\ event' = [x \in Messages |-> IF x \in Missing(S)
                                      THEN top + Rank(Missing(S), x)
                                      ELSE event[x]]
    /\ top' = top + Cardinality(Missing(S))

-----------------------------------------------------------------------------
(* Moving a worker on.                                                     *)

Goto(w, s) == pc' = [pc EXCEPT ![w] = s]

Fresh(w) ==     \* the locals of a phase or of a loop iteration go out of scope
    /\ old' = [old EXCEPT ![w] = 0]
    /\ new' = [new EXCEPT ![w] = 0]
    /\ pend' = [pend EXCEPT ![w] = {}]

EndJob(w) ==
    /\ job' = [job EXCEPT ![w] = "none"]
    /\ phase' = [phase EXCEPT ![w] = 0]
    /\ sound' = (sound \/ job[w] = "force")
    /\ Goto(w, "idle")

NextPhase(w) ==
    /\ mart' = [mart EXCEPT ![w] = 1]
    /\ Fresh(w)
    /\ \/ /\ phase[w] < NumPhases(job[w])
          /\ phase' = [phase EXCEPT ![w] = @ + 1]
          /\ Goto(w, Entry[Phases[job[w]][phase[w] + 1]])
          /\ UNCHANGED <<job, sound>>
       \/ /\ phase[w] = NumPhases(job[w])
          /\ EndJob(w)

\* Mutant of NextMart: one iteration too many.
NextMartPast(w) ==
    \/ /\ mart[w] <= NMarts
       /\ mart' = [mart EXCEPT ![w] = @ + 1]
       /\ Fresh(w)
       /\ Goto(w, Entry[PhaseOf(w)])
       /\ UNCHANGED <<job, phase, sound>>
    \/ /\ mart[w] > NMarts
       /\ NextPhase(w)

NextMart(w) ==
    \/ /\ mart[w] < NMarts
       /\ mart' = [mart EXCEPT ![w] = @ + 1]
       /\ Fresh(w)
       /\ Goto(w, Entry[PhaseOf(w)])
       /\ UNCHANGED <<job, phase, sound>>
    \/ /\ mart[w] = NMarts
       /\ NextPhase(w)

-----------------------------------------------------------------------------
Init ==
    /\ messages = 0
    /\ event = [x \in Messages |-> 0]
    /\ top = 0
    /\ wm = [m \in Marts |-> 0]
    /\ counted = [m \in Marts |-> [x \in Messages |-> 0]]
    /\ job = [w \in Workers |-> "none"]
    /\ phase = [w \in Workers |-> 0]
    /\ pc = [w \in Workers |-> "idle"]
    /\ mart = [w \in Workers |-> 1]
    /\ old = [w \in Workers |-> 0]
    /\ new = [w \in Workers |-> 0]
    /\ pend = [w \in Workers |-> {}]
    /\ fails = 0
    /\ jobs = 0
    /\ sound = TRUE

Start(w) ==
    /\ pc[w] = "idle"
    /\ jobs < MaxJobs
    /\ \E j \in Jobs[w] :
         /\ job' = [job EXCEPT ![w] = j]
         /\ phase' = [phase EXCEPT ![w] = 1]
         /\ Goto(w, Entry[Phases[j][1]])
    /\ jobs' = jobs + 1
    /\ UNCHANGED <<store, mart, old, new, pend, fails, sound>>

(* ingest_file's transaction: the file's new messages, and the events the  *)
(* in-transaction hook converts.  A conversion error is only noted: the    *)
(* messages and the events converted before it are committed.              *)
Commit(w) ==
    /\ pc[w] = "commit"
    /\ \E k \in 1..Batch :
         /\ messages + k <= MaxMessages
         /\ messages' = messages + k
         /\ \E c \in 0..k :
              /\ c = k \/ ConvertMayFail
              /\ InsertEvents(messages + 1..messages + c)
    /\ NextPhase(w)
    /\ UNCHANGED <<wm, counted, fails, jobs>>

(* The file had nothing new, so an ingest is over and a watcher cycle goes *)
(* straight to its own refresh, its last phase.  A cycle counts the rows   *)
(* of messages before and after the file: when another worker commits in   *)
(* between, it takes those messages for its own and runs normalize_recent. *)
CommitNothing(w) ==
    /\ pc[w] = "commit"
    /\ mart' = [mart EXCEPT ![w] = 1]
    /\ \/ /\ job[w] = "cycle"
          /\ phase' = [phase EXCEPT ![w] = NumPhases("cycle")]
          /\ Goto(w, Entry["refresh"])
          /\ UNCHANGED <<job, sound>>
       \/ /\ job[w] = "cycle" /\ Workers # {w}
          /\ phase' = [phase EXCEPT ![w] = NumPhases("cycle") - 1]
          /\ Goto(w, Entry["recent"])
          /\ UNCHANGED <<job, sound>>
       \/ /\ job[w] = "ingest"
          /\ EndJob(w)
    /\ UNCHANGED <<store, old, new, pend, fails, jobs>>

-----------------------------------------------------------------------------
(* refresh_all_marts: for each mart get_watermark, refresh, set_watermark. *)

GetWatermark(w) ==
    /\ pc[w] = "get"
    /\ old' = [old EXCEPT ![w] = wm[mart[w]]]
    /\ Goto(w, "max")
    /\ UNCHANGED <<store, job, phase, mart, new, pend, history>>

(* SELECT MAX(id); nothing new returns since_event_id itself, which        *)
(* refresh_all_marts still stores and rebuild_from_scratch ignores.        *)
ReadMax(w) ==
    /\ pc[w] = "max"
    /\ \/ /\ top > old[w]
          /\ new' = [new EXCEPT ![w] = top]
          /\ Goto(w, "apply")
          /\ UNCHANGED <<job, phase, mart, old, pend, sound>>
       \/ /\ top <= old[w]
          /\ PhaseOf(w) = "refresh"
          /\ new' = [new EXCEPT ![w] = old[w]]
          /\ Goto(w, "set")
          /\ UNCHANGED <<job, phase, mart, old, pend, sound>>
       \/ /\ top <= old[w]
          /\ PhaseOf(w) = "rebuild"
          /\ NextMart(w)
    /\ UNCHANGED <<store, fails, jobs>>

(* After the mart's table holds the window, a refresh stores the watermark *)
(* and a rebuild goes on to the next mart.                                 *)
Applied(w) ==
    \/ /\ PhaseOf(w) = "refresh"
       /\ Goto(w, "set")
       /\ UNCHANGED <<frame, sound>>
    \/ /\ PhaseOf(w) = "rebuild"
       /\ NextMart(w)

(* daily, provider_day, model_day: one INSERT..SELECT..ON CONFLICT adds    *)
(* the aggregates of the window to the rows.                               *)
ApplySum(w) ==
    /\ pc[w] = "apply"
    /\ Kind[mart[w]] = "sum"
    /\ counted' = [counted EXCEPT ![mart[w]] =
                     [x \in Messages |-> IF x \in Window(old[w], new[w])
                                           THEN @[x] + 1 ELSE @[x]]]
    /\ Applied(w)
    /\ UNCHANGED <<messages, event, top, wm, fails, jobs>>

\* Mutant of ApplyReplace: the row is recomputed over the window only.
ApplyReplaceWindow(w) ==
    /\ pc[w] = "apply"
    /\ Kind[mart[w]] = "replace"
    /\ counted' = [counted EXCEPT ![mart[w]] =
                     [x \in Messages |-> IF x \in Touched(Window(old[w], new[w]))
                                           THEN IF x \in Window(old[w], new[w]) THEN 1 ELSE 0
                                           ELSE @[x]]]
    /\ Applied(w)
    /\ UNCHANGED <<messages, event, top, wm, fails, jobs>>

(* session, project: INSERT OR REPLACE recomputes every row the window     *)
(* touches over all the events present when the statement runs.            *)
ApplyReplace(w) ==
    /\ pc[w] = "apply"
    /\ Kind[mart[w]] = "replace"
    /\ counted' = [counted EXCEPT ![mart[w]] =
                     [x \in Messages |-> IF x \in Touched(Window(old[w], new[w]))
                                           THEN IF HasEvent(x) THEN 1 ELSE 0
                                           ELSE @[x]]]
    /\ Applied(w)
    /\ UNCHANGED <<messages, event, top, wm, fails, jobs>>

(* tool, command, message_tool: the window is fetched first ...            *)
FetchWindow(w) ==
    /\ pc[w] = "apply"
    /\ Kind[mart[w]] \in {"bucket", "ignore"}
    /\ pend' = [pend EXCEPT ![w] = Window(old[w], new[w])]
    /\ Goto(w, "rows")
    /\ UNCHANGED <<store, job, phase, mart, old, new, history>>

(* ... and then one autocommit statement per bucket adds to its row (the   *)
(* order of the buckets is left open) ...                                  *)
UpsertBucket(w) ==
    /\ pc[w] = "rows"
    /\ Kind[mart[w]] = "bucket"
    /\ \E y \in pend[w] :
         LET bucket == {x \in pend[w] : Group[x] = Group[y]}
         IN  /\ counted' = [counted EXCEPT ![mart[w]] =
                              [x \in Messages |-> IF x \in bucket THEN @[x] + 1 ELSE @[x]]]
             /\ pend' = [pend EXCEPT ![w] = @ \ bucket]
    /\ UNCHANGED <<messages, event, top, wm, job, phase, mart, old, new, pc, history>>

\* Mutant of InsertOrIgnore: a plain INSERT.
InsertAgain(w) ==
    /\ pc[w] = "rows"
    /\ Kind[mart[w]] = "ignore"
    /\ \E y \in pend[w] :
         /\ counted' = [counted EXCEPT ![mart[w]][y] = @ + 1]
         /\ pend' = [pend EXCEPT ![w] = @ \ {y}]
    /\ UNCHANGED <<messages, event, top, wm, job, phase, mart, old, new, pc, history>>

(* ... or one INSERT OR IGNORE per tool call.                              *)
InsertOrIgnore(w) ==
    /\ pc[w] = "rows"
    /\ Kind[mart[w]] = "ignore"
    /\ \E y \in pend[w] :
         /\ counted' = [counted EXCEPT ![mart[w]][y] = 1]
         /\ pend' = [pend EXCEPT ![w] = @ \ {y}]
    /\ UNCHANGED <<messages, event, top, wm, job, phase, mart, old, new, pc, history>>

\* Mutant of RowsDone: the loop may end with rows left.
RowsAbandoned(w) ==
    /\ pc[w] = "rows"
    /\ Applied(w)
    /\ UNCHANGED <<store, fails, jobs>>

RowsDone(w) ==
    /\ pc[w] = "rows"
    /\ pend[w] = {}
    /\ Applied(w)
    /\ UNCHANGED <<store, fails, jobs>>

\* Mutant of SetWatermark: stores MAX(id) read again, as rebuild_all_marts does.
SetWatermarkReread(w) ==
    /\ pc[w] = "set"
    /\ wm' = [wm EXCEPT ![mart[w]] = Larger(@, top)]
    /\ NextMart(w)
    /\ UNCHANGED <<messages, event, top, counted, fails, jobs>>

(* set_watermark: the upsert keeps the larger value.                       *)
SetWatermark(w) ==
    /\ pc[w] = "set"
    /\ wm' = [wm EXCEPT ![mart[w]] = Larger(@, new[w])]
    /\ NextMart(w)
    /\ UNCHANGED <<messages, event, top, counted, fails, jobs>>

-----------------------------------------------------------------------------
(* normalize_recent, step 4 of a watcher cycle: select the messages that   *)
(* have no event, insert each with its own autocommit statement.           *)

SelectRecent(w) ==
    /\ pc[w] = "select"
    /\ pend' = [pend EXCEPT ![w] = Missing(1..messages)]
    /\ Goto(w, "insert")
    /\ UNCHANGED <<store, job, phase, mart, old, new, history>>

InsertRecent(w) ==
    /\ pc[w] = "insert"
    /\ \E y \in pend[w] :
         /\ InsertEvents({y})
         /\ pend' = [pend EXCEPT ![w] = @ \ {y}]
    /\ UNCHANGED <<messages, wm, counted, job, phase, mart, old, new, pc, history>>

(* An insert that fails (SQLITE_BUSY while another worker writes) is       *)
(* passed over, and its message stays without an event.                    *)
SkipRecent(w) ==
    /\ pc[w] = "insert"
    /\ fails < MaxFails
    /\ fails' = fails + 1
    /\ \E y \in pend[w] : pend' = [pend EXCEPT ![w] = @ \ {y}]
    /\ UNCHANGED <<store, job, phase, mart, old, new, pc, jobs, sound>>

RecentDone(w) ==
    /\ pc[w] = "insert"
    /\ pend[w] = {}
    /\ NextPhase(w)
    /\ UNCHANGED <<store, fails, jobs>>

-----------------------------------------------------------------------------
(* pass::run, the backfill's scan of every message: a chunk is read        *)
(* outside, inserted inside a transaction; a short chunk is the last.      *)

Chunk(w) == {x \in 1..messages : x > old[w] /\ x <= old[w] + ChunkSize}

FetchChunk(w) ==
    /\ pc[w] = "fetch"
    /\ \/ /\ Chunk(w) # {}
          /\ pend' = [pend EXCEPT ![w] = Chunk(w)]
          /\ Goto(w, "convert")
          /\ UNCHANGED <<job, phase, mart, old, new, sound>>
       \/ /\ Chunk(w) = {}
          /\ NextPhase(w)
    /\ UNCHANGED <<store, fails, jobs>>

\* Mutant of ConvertChunk: the cursor skips one id between chunks.
ConvertChunkSkip(w) ==
    /\ pc[w] = "convert"
    /\ InsertEvents(pend[w])
    /\ \/ /\ Cardinality(pend[w]) = ChunkSize
          /\ old' = [old EXCEPT ![w] = @ + ChunkSize + 1]
          /\ pend' = [pend EXCEPT ![w] = {}]
          /\ Goto(w, "fetch")
          /\ UNCHANGED <<job, phase, mart, new, sound>>
       \/ /\ Cardinality(pend[w]) < ChunkSize
          /\ NextPhase(w)
    /\ UNCHANGED <<messages, wm, counted, fails, jobs>>

ConvertChunk(w) ==
    /\ pc[w] = "convert"
    /\ InsertEvents(pend[w])
    /\ \/ /\ Cardinality(pend[w]) = ChunkSize
          /\ old' = [old EXCEPT ![w] = @ + ChunkSize]
          /\ pend' = [pend EXCEPT ![w] = {}]
          /\ Goto(w, "fetch")
          /\ UNCHANGED <<job, phase, mart, new, sound>>
       \/ /\ Cardinality(pend[w]) < ChunkSize
          /\ NextPhase(w)
    /\ UNCHANGED <<messages, wm, counted, fails, jobs>>

-----------------------------------------------------------------------------
(* drop_events_and_marts, the forced backfill's wipe.                      *)

DropEvents(w) ==
    /\ pc[w] = "drop"
    /\ event' = [x \in Messages |-> 0]
    /\ top' = 0
    /\ NextPhase(w)
    /\ UNCHANGED <<messages, wm, counted, fails, jobs>>

DeleteWatermarks(w) ==
    /\ pc[w] = "unmark"
    /\ wm' = [m \in Marts |-> 0]
    /\ NextPhase(w)
    /\ UNCHANGED <<messages, event, top, counted, fails, jobs>>

\* Mutant of ClearMart: refresh(conn, 0) on top of the old rows.
ClearMartKept(w) ==
    /\ pc[w] = "clear"
    /\ Goto(w, "max")
    /\ UNCHANGED <<messages, event, top, wm, counted, frame, history>>

(* rebuild_from_scratch: DELETE FROM <mart>, then refresh(conn, 0).        *)
ClearMart(w) ==
    /\ pc[w] = "clear"
    /\ counted' = [counted EXCEPT ![mart[w]] = [x \in Messages |-> 0]]
    /\ Goto(w, "max")
    /\ UNCHANGED <<messages, event, top, wm, frame, history>>

-----------------------------------------------------------------------------
(* A job dies between two statements: the process is killed, or a          *)
(* statement fails (SQLITE_BUSY, disk full) and `?` unwinds to the caller. *)
(* An open transaction is rolled back, which is no step here.              *)
Die(w) ==
    /\ pc[w] # "idle"
    /\ fails < MaxFails
    /\ fails' = fails + 1
    /\ job' = [job EXCEPT ![w] = "none"]
    /\ phase' = [phase EXCEPT ![w] = 0]
    /\ mart' = [mart EXCEPT ![w] = 1]
    /\ Fresh(w)
    /\ Goto(w, "idle")
    /\ sound' = FALSE
    /\ UNCHANGED <<store, jobs>>

(* A watcher cycle fences each of its steps: an error is noted, and the    *)
(* cycle goes on with the next one (the last one if the ingest failed).    *)
Noted(w) ==
    /\ job[w] = "cycle"
    /\ phase[w] < NumPhases("cycle")
    /\ fails < MaxFails
    /\ fails' = fails + 1
    /\ phase' = [phase EXCEPT ![w] = IF @ = 1 THEN NumPhases("cycle") ELSE @ + 1]
    /\ mart' = [mart EXCEPT ![w] = 1]
    /\ Fresh(w)
    /\ Goto(w, Entry[Phases["cycle"][phase'[w]]])
    /\ sound' = FALSE
    /\ UNCHANGED <<store, job, jobs>>

Refresh(w) ==
    \/ GetWatermark(w) \/ ReadMax(w) \/ ApplySum(w) \/ ApplyReplace(w)
    \/ FetchWindow(w) \/ UpsertBucket(w) \/ InsertOrIgnore(w) \/ RowsDone(w)
    \/ SetWatermark(w)

Recent(w)   == SelectRecent(w) \/ InsertRecent(w) \/ RecentDone(w)
Backfill(w) == FetchChunk(w) \/ ConvertChunk(w)
Wipe(w)     == DropEvents(w) \/ DeleteWatermarks(w) \/ ClearMart(w)

Step(w) == \/ Commit(w) \/ CommitNothing(w)
           \/ Refresh(w) \/ Recent(w) \/ Backfill(w) \/ Wipe(w)

Fail(w) == Die(w) \/ Noted(w) \/ SkipRecent(w)

Next == \E w \in Workers : Start(w) \/ Step(w) \/ Fail(w)

Spec == Init /\ [][Next]_vars

(* A started job is executed by a running thread: it takes its next        *)
(* statement unless it died.                                               *)
FairSpec == Spec /\ \A w \in Workers : WF_vars(Step(w))

-----------------------------------------------------------------------------
(* Properties.                                                             *)

Statements == {"idle", "commit", "get", "max", "apply", "rows", "set", "select",
               "insert", "fetch", "convert", "drop", "unmark", "clear"}

(* Every variable has its type: a worker without a job is idle, one with a *)
(* job is at a phase of it.                                                *)
TypeOK ==
    /\ messages \in 0..MaxMessages
    /\ event \in [Messages -> Nat]
    /\ top \in Nat
    /\ wm \in [Marts -> Nat]
    /\ counted \in [Marts -> [Messages -> Nat]]
    /\ job \in [Workers -> JobKinds \cup {"none"}]
    /\ phase \in [Workers -> 0..5]
    /\ pc \in [Workers -> Statements]
    /\ mart \in [Workers -> Marts]
    /\ old \in [Workers -> Nat]
    /\ new \in [Workers -> Nat]
    /\ pend \in [Workers -> SUBSET Messages]
    /\ fails \in 0..MaxFails
    /\ jobs \in 0..MaxJobs
    /\ sound \in BOOLEAN

(* No store wipes its events: no worker ever starts a forced backfill.     *)
NeverForced == \A w \in Workers : "force" \notin Jobs[w]

(* A watermark is a promise: every event at or below it is in the mart's   *)
(* table, whoever stored it there and whichever jobs died on the way.      *)
(* Refreshes that overlap read one another's windows, so this rests on the *)
(* order get, max, apply, set inside each of them.                         *)
WatermarkCovered ==
    \A m \in Marts, x \in Messages :
        HasEvent(x) /\ event[x] <= wm[m] => counted[m][x] > 0

AllIdle == \A w \in Workers : pc[w] = "idle"

(* The strengthening of WatermarkCovered that every step preserves when    *)
(* nothing is wiped: ids grow, a worker is at a statement of its phase,    *)
(* and what a refresh is about to promise is already in its mart's table.  *)
Covered(m, n) ==
    \A x \in Messages : HasEvent(x) /\ event[x] <= n => counted[m][x] > 0

PhaseStatements ==
    [ commit |-> {"commit"}, refresh |-> {"get", "max", "apply", "rows", "set"},
      recent |-> {"select", "insert"}, pass |-> {"fetch", "convert"},
      drop |-> {"drop"}, unmark |-> {"unmark"},
      rebuild |-> {"clear", "max", "apply", "rows"} ]

ControlOK(w) ==
    IF job[w] = "none" THEN pc[w] = "idle"
                       ELSE /\ phase[w] \in 1..NumPhases(job[w])
                            /\ pc[w] \in PhaseStatements[PhaseOf(w)]

IdsBelowTop ==
    /\ \A x \in Messages : event[x] <= top
    /\ \A m \in Marts : wm[m] <= top

RefreshSound(w) ==
    /\ pc[w] \in {"max", "apply"} => old[w] <= top /\ Covered(mart[w], old[w])
    /\ pc[w] \in {"apply", "rows", "set"} => new[w] <= top
    /\ pc[w] = "rows" =>
         \A x \in Messages : HasEvent(x) /\ event[x] <= new[w] =>
             counted[mart[w]][x] > 0 \/ x \in pend[w]
    /\ pc[w] = "set" => Covered(mart[w], new[w])

MartInv ==
    /\ IdsBelowTop
    /\ WatermarkCovered
    /\ \A w \in Workers : ControlOK(w) /\ RefreshSound(w)

(* When every job has run to its end, no event is left behind a            *)
(* watermark: the refresh that ends an ingest sees the ingest's events,    *)
(* and a slower refresh working from an older snapshot cannot take the     *)
(* watermark back below them (the failure recorded at set_watermark).      *)
QuiescentFresh ==
    AllIdle /\ fails = 0 => \A m \in Marts : wm[m] = top

(* Marts that recompute (session, project) or ignore duplicates            *)
(* (message_tool) never count an event twice, whatever races or dies.      *)
RecomputedOnce ==
    \A m \in Marts, x \in Messages :
        Kind[m] \in {"replace", "ignore"} => counted[m][x] <= 1

(* No event is counted twice by an additive mart.                          *)
CountedAtMostOnce ==
    \A m \in Marts, x \in Messages : counted[m][x] <= 1

(* Between jobs every mart agrees with usage_events, event for event: what *)
(* one worker alone guarantees as long as no job died, and again after the *)
(* next forced backfill that runs to its end.                              *)
QuiescentExact ==
    AllIdle /\ sound =>
        \A m \in Marts, x \in Messages :
            counted[m][x] = IF HasEvent(x) THEN 1 ELSE 0

(* "messages still committed; run `stax etl backfill` to recover": when a   *)
(* backfill leaves its pass, every message that was there when it read its *)
(* last chunk has an event, the ones a concurrent ingest committed without *)
(* events between two chunks included.                                     *)
BackfillRecovers ==
    [][\A w \in Workers :
         pc[w] \in {"fetch", "convert"} /\ job'[w] = job[w] /\ phase'[w] # phase[w] =>
             \A x \in 1..messages :
                 x <= old[w] \/ x \in pend[w] \/ pc[w] = "fetch" => event'[x] # 0]_vars

(* A watermark goes backwards only when a forced backfill deletes the row. *)
WatermarkNeverRetreats ==
    [][\A m \in Marts : wm'[m] < wm[m] =>
          \E w \in Workers : pc[w] = "unmark"]_vars

(* Every event is eventually below every watermark: the refresh that ends  *)
(* each job catches up with whatever any worker committed.                 *)
EventuallyMarted ==
    \A m \in Marts, x \in Messages :
        HasEvent(x) ~> HasEvent(x) /\ event[x] <= wm[m]

(* The marts keep the promise of MartView: a mart shows only events, keeps *)
(* showing what it showed, and shows every event in the end.               *)
View == INSTANCE MartView
          WITH Facts <- Messages, Views <- Marts,
               known <- {x \in Messages : HasEvent(x)},
               shown <- [m \in Marts |-> {x \in Messages : counted[m][x] > 0}]

ImplementsView == View!Spec
=============================================================================
