------------------------------ MODULE TailIngest ------------------------------
(***************************************************************************)
(* Incremental ingest of one append-only session file: the writer of the   *)
(* file, the resumable read of the Claude adapter, the ingest_log row that *)
(* remembers how far it got, and the two callers of ingest_file, the       *)
(* run_ingest sweep and the watcher's cycle.  Nobody locks the file: a     *)
(* pass reads it line by line while the writer goes on.                    *)
(*                                                                         *)
(* Abstractions.                                                           *)
(*  - Every line is two units long, so that a writer may be caught in the  *)
(*    middle of one: line i spans [Start(i), End(i)), and a size, an       *)
(*    offset or a read position is a number of units.  Half a line does    *)
(*    not parse; a line that only lacks its newline counts as whole.       *)
(*  - A line is a message or something else (a summary, a snapshot: lines  *)
(*    for which parse_line returns None).                                  *)
(*  - The session's rows in the messages table are the set of their seqs,  *)
(*    which are line offsets: UNIQUE (session_fk, seq).                    *)
(*  - mtime grows with every write, here by the units it writes, so equal  *)
(*    (mtime, size) means equal contents.                                  *)
(*  - The reader's buffer is left out: of a file that is appended to, a    *)
(*    full buffer holds nothing that the file does not hold any more.      *)
(***************************************************************************)
EXTENDS Integers, Sequences, FiniteSets

CONSTANTS
    Sweeps,         \* processes running run_ingest
    Watchers,       \* resident watcher threads
    MaxLines,       \* bound: lines in the file
    MaxAborts,      \* bound: passes that fail and roll back, batches dropped
    MaxRewrites,    \* bound: times the file is truncated
    MaxBroken,      \* bound: reads that fail before the end of the file
    MaxFaults,      \* bound: aborts, rewrites and failed reads together
    LineKinds       \* kinds of line the writer appends

Workers == Sweeps \cup Watchers

ASSUME TailAssumption ==
    /\ Sweeps \cap Watchers = {}
    /\ MaxLines \in Nat /\ MaxAborts \in Nat
    /\ MaxRewrites \in Nat /\ MaxBroken \in Nat /\ MaxFaults \in Nat
    /\ LineKinds \subseteq {"message", "other"}

VARIABLES
    lines,      \* the file: the kinds of its lines
    torn,       \* the last line is only half written
    mtime,      \* the file's modification time
    dirty,      \* a content event of the file waits in the debouncer
    log,        \* the ingest_log row of the file, or NoRow
    stored,     \* seqs of the session's messages in the store
    pc,         \* [Workers -> statement to execute next]
    ref,        \* [Workers -> SessionRef]: what stat said at enumeration
    since,      \* [Workers -> Nat]: offset to resume from
    at,         \* [Workers -> Nat]: where the next read begins
    got,        \* [Workers -> set of lines]: what the pass was given so far
    apart,      \* history: [Workers -> lines the pass read in two pieces]
    clean,      \* history: [Workers -> no truncation or failed read since stat]
    missed,     \* history: lines an offset was moved past without reading them
    gaveUp,     \* history: watchers whose last batch came to nothing
    aborts,     \* passes rolled back and batches dropped so far
    rewrites,   \* times the file was truncated so far
    broken      \* reads that failed so far

file  == <<lines, torn, mtime>>
store == <<log, stored, missed>>
pass  == <<ref, since, at, got, apart, clean>>
count == <<aborts, rewrites, broken>>
vars  == <<file, dirty, store, pc, pass, gaveUp, count>>

FaultsLeft == aborts + rewrites + broken < MaxFaults

NoRow == [mtime |-> -1, size |-> -1, offset |-> -1]
NoRef == [mtime |-> 0, size |-> 0]

Start(i) == 2 * (i - 1)
End(i)   == 2 * i
Size     == 2 * Len(lines) - (IF torn THEN 1 ELSE 0)

Complete(i) == End(i) <= Size
Messages    == {i \in DOMAIN lines : lines[i] = "message" /\ Complete(i)}
Seqs(S)     == {Start(i) : i \in S}

Greatest(S) == CHOOSE x \in S : \A y \in S : y <= x

-----------------------------------------------------------------------------
Init ==
    /\ lines = <<>> /\ torn = FALSE /\ mtime = 0 /\ dirty = FALSE
    /\ log = NoRow /\ stored = {} /\ missed = {}
    /\ pc = [w \in Workers |-> "idle"]
    /\ ref = [w \in Workers |-> NoRef]
    /\ since = [w \in Workers |-> 0]
    /\ at = [w \in Workers |-> 0]
    /\ got = [w \in Workers |-> {}]
    /\ apart = [w \in Workers |-> {}]
    /\ clean = [w \in Workers |-> TRUE]
    /\ gaveUp = {}
    /\ aborts = 0 /\ rewrites = 0 /\ broken = 0

(* The program that owns the file.                                         *)

Written(units) ==
    /\ mtime' = mtime + units
    /\ dirty' = TRUE
    /\ UNCHANGED <<store, pc, ref, since, at, got, apart, gaveUp, aborts, broken>>

AppendLine ==
    /\ ~torn /\ Len(lines) < MaxLines
    /\ \E k \in LineKinds : lines' = Append(lines, k)
    /\ Written(2)
    /\ UNCHANGED <<torn, clean, rewrites>>

AppendHalf ==
    /\ ~torn /\ Len(lines) < MaxLines
    /\ \E k \in LineKinds : lines' = Append(lines, k)
    /\ torn' = TRUE
    /\ Written(1)
    /\ UNCHANGED <<clean, rewrites>>

CompleteLine ==
    /\ torn
    /\ torn' = FALSE
    /\ Written(1)
    /\ UNCHANGED <<lines, clean, rewrites>>

(* The file is truncated in place; readers keep their positions.           *)
Rewrite ==
    /\ rewrites < MaxRewrites /\ FaultsLeft
    /\ rewrites' = rewrites + 1
    /\ \E n \in 0..Len(lines) - 1 : lines' = SubSeq(lines, 1, n)
    /\ torn' = FALSE
    /\ clean' = [w \in Workers |-> pc[w] \in {"idle", "stat"}]
    /\ Written(1)

(* is_content_event keeps IN_CLOSE_WRITE beside IN_MODIFY, and events of   *)
(* unknown kind: an event may come after the data it announces was read.   *)
LateEvent ==
    /\ lines # <<>>
    /\ ~dirty
    /\ dirty' = TRUE
    /\ UNCHANGED <<file, store, pc, pass, gaveUp, count>>

-----------------------------------------------------------------------------
(* A sweep enumerates every file; a cycle drains the debouncer and         *)
(* enumerates the files that changed.                                      *)

StartSweep(w) ==
    /\ w \in Sweeps
    /\ pc[w] = "idle"
    /\ pc' = [pc EXCEPT ![w] = "stat"]
    /\ UNCHANGED <<file, dirty, store, pass, gaveUp, count>>

StartCycle(w) ==
    /\ w \in Watchers
    /\ pc[w] = "idle"
    /\ dirty
    /\ dirty' = FALSE
    /\ gaveUp' = gaveUp \ {w}
    /\ pc' = [pc EXCEPT ![w] = "stat"]
    /\ UNCHANGED <<file, store, pass, count>>

(* The store cannot be opened: the batch is drained and dropped.           *)
DropBatch(w) ==
    /\ w \in Watchers
    /\ pc[w] = "idle"
    /\ dirty
    /\ aborts < MaxAborts /\ FaultsLeft
    /\ aborts' = aborts + 1
    /\ dirty' = FALSE
    /\ gaveUp' = gaveUp \cup {w}
    /\ UNCHANGED <<file, store, pc, pass, rewrites, broken>>

Enumerate(w) ==
    /\ pc[w] = "stat"
    /\ ref' = [ref EXCEPT ![w] = [mtime |-> mtime, size |-> Size]]
    /\ pc' = [pc EXCEPT ![w] = "resume"]
    /\ UNCHANGED <<file, dirty, store, since, at, got, apart, clean, gaveUp, count>>

Finish(w) ==
    /\ pc' = [pc EXCEPT ![w] = "idle"]
    /\ ref' = [ref EXCEPT ![w] = NoRef]
    /\ since' = [since EXCEPT ![w] = 0]
    /\ at' = [at EXCEPT ![w] = 0]
    /\ got' = [got EXCEPT ![w] = {}]
    /\ apart' = [apart EXCEPT ![w] = {}]
    /\ clean' = [clean EXCEPT ![w] = TRUE]

ReadFrom(w, offset) ==
    /\ since' = [since EXCEPT ![w] = offset]
    /\ at' = [at EXCEPT ![w] = offset]
    /\ pc' = [pc EXCEPT ![w] = "read"]
    /\ UNCHANGED <<ref, got, apart, clean>>

(* A pass holds the store's write lock from the first record it is given.  *)
Free(w) == \A v \in Workers \ {w} : got[v] = {}

UnchangedNearly(w) == ref[w].mtime - log.mtime \in 0..2            \* mutant
Unchanged(w)       == log.mtime = ref[w].mtime /\ log.size = ref[w].size
Shrunk(w)          == ref[w].size < log.size

(* resume_offset, the decision of a sweep: fresh, skip, reparse or tail.   *)
SweepFresh(w) ==
    /\ pc[w] = "resume" /\ w \in Sweeps
    /\ log = NoRow
    /\ ReadFrom(w, 0)
    /\ UNCHANGED <<file, dirty, store, gaveUp, count>>

SweepSkip(w) ==
    /\ pc[w] = "resume" /\ w \in Sweeps
    /\ log # NoRow /\ Unchanged(w)
    /\ Finish(w)
    /\ UNCHANGED <<file, dirty, store, gaveUp, count>>

SweepReparse(w) ==
    /\ pc[w] = "resume" /\ w \in Sweeps
    /\ log # NoRow /\ ~Unchanged(w) /\ Shrunk(w)
    /\ pc' = [pc EXCEPT ![w] = "forget"]
    /\ UNCHANGED <<file, dirty, store, pass, gaveUp, count>>

(* The DELETE commits by itself, before ingest_file begins.                *)
SweepForget(w) ==
    /\ pc[w] = "forget"
    /\ Free(w)
    /\ log' = NoRow
    /\ ReadFrom(w, 0)
    /\ UNCHANGED <<file, dirty, stored, missed, gaveUp, count>>

SweepTail(w) ==
    /\ pc[w] = "resume" /\ w \in Sweeps
    /\ log # NoRow /\ ~Unchanged(w) /\ ~Shrunk(w)
    /\ ReadFrom(w, log.offset)
    /\ UNCHANGED <<file, dirty, store, gaveUp, count>>

(* watermark_for, the watcher's lookup: the offset, or 0 without a row.    *)
(* It does not look whether the file shrank.                               *)
CycleResumeRaw(w) ==             \* mutant: no default for a missing row
    /\ pc[w] = "resume" /\ w \in Watchers
    /\ ReadFrom(w, log.offset)
    /\ UNCHANGED <<file, dirty, store, gaveUp, count>>

CycleResume(w) ==
    /\ pc[w] = "resume" /\ w \in Watchers
    /\ ReadFrom(w, IF log = NoRow THEN 0 ELSE log.offset)
    /\ UNCHANGED <<file, dirty, store, gaveUp, count>>

-----------------------------------------------------------------------------
(* JsonlLines and read_jsonl.  The next item is what the file holds from   *)
(* the read position to the next newline, or to its end as it is now.      *)

(* A whole line past since_offset is a record; 0 means every one.          *)
DeliveredPast(w, i) == i \in Messages /\ Start(i) > since[w]          \* mutant
Delivered(w, i) == i \in Messages /\ (since[w] = 0 \/ Start(i) > since[w])

ReadTo(w, u) ==
    /\ at' = [at EXCEPT ![w] = u]
    /\ UNCHANGED <<file, dirty, store, pc, ref, since, clean, gaveUp, count>>

DeliverLine(w) ==
    /\ pc[w] = "read"
    /\ Free(w)
    /\ \E i \in DOMAIN lines :
          /\ at[w] = Start(i) /\ Delivered(w, i)
          /\ got' = [got EXCEPT ![w] = @ \cup {i}]
          /\ ReadTo(w, End(i))
    /\ UNCHANGED apart

PassLine(w) ==
    /\ pc[w] = "read"
    /\ \E i \in DOMAIN lines :
          at[w] = Start(i) /\ Complete(i) /\ ~Delivered(w, i) /\ ReadTo(w, End(i))
    /\ UNCHANGED <<got, apart>>

(* Half a line is an item like any other: it does not parse, and the read  *)
(* goes on behind it.                                                      *)
ReadHalf(w) ==
    /\ pc[w] = "read"
    /\ torn /\ at[w] = Start(Len(lines))
    /\ ReadTo(w, Size)
    /\ UNCHANGED <<got, apart>>

(* The writer has completed the line meanwhile: its rest is the next item  *)
(* and does not parse either.  A resume in the middle of a line yields the *)
(* rest at exactly since_offset.                                           *)
ReadRest(w) ==
    /\ pc[w] = "read"
    /\ \E i \in DOMAIN lines :
          /\ at[w] = Start(i) + 1 /\ Complete(i)
          /\ apart' = [apart EXCEPT ![w] = IF at[w] > since[w] THEN @ \cup {i} ELSE @]
          /\ ReadTo(w, End(i))
    /\ UNCHANGED got

EndRead(w, c) ==
    /\ pc' = [pc EXCEPT ![w] = "commit"]
    /\ clean' = [clean EXCEPT ![w] = c]
    /\ UNCHANGED <<file, dirty, store, ref, since, at, got, apart, gaveUp>>

EndOfFile(w) ==
    /\ pc[w] = "read"
    /\ at[w] >= Size
    /\ EndRead(w, clean[w])
    /\ UNCHANGED count

(* The file cannot be opened, or a read of it fails: it counts as its end. *)
ReadBreaks(w) ==
    /\ pc[w] = "read"
    /\ broken < MaxBroken /\ FaultsLeft
    /\ broken' = broken + 1
    /\ EndRead(w, FALSE)
    /\ UNCHANGED <<aborts, rewrites>>

-----------------------------------------------------------------------------
(* ingest_file's transaction: insert what is new of the records, and write *)
(* the ingest_log row with the stat of the enumeration and the offset to   *)
(* resume from.                                                            *)

Added(w) == Seqs(got[w]) \ stored

OffsetToSize(w) == ref[w].size             \* mutant: resume from the end of the file
Offset(w) ==
    IF Added(w) # {} THEN Greatest(Added(w) \cup {since[w]}) ELSE ref[w].size

(* The lines the new offset passes although this pass did not read them as *)
(* a whole: those that came in two pieces and, if it inserted nothing, the *)
(* lines from the end of its read on.                                      *)
Overlooked(w) ==
    {i \in 1..MaxLines + 1 : /\ Start(i) <= Offset(w)
                             /\ i \in apart[w] \/ (Added(w) = {} /\ at[w] < End(i))}

Commit(w) ==
    /\ pc[w] = "commit"
    /\ Free(w)
    /\ stored' = stored \cup Added(w)
    /\ log' = [mtime |-> ref[w].mtime, size |-> ref[w].size, offset |-> Offset(w)]
    /\ missed' = {i \in missed \cup Overlooked(w) : Start(i) \notin stored'}
    /\ Finish(w)
    /\ UNCHANGED <<file, gaveUp, count>>

CommitPassDrained(w) ==          \* mutant: events of the cycle count as handled
    Commit(w) /\ dirty' = FALSE

CommitPass(w) ==
    Commit(w) /\ UNCHANGED dirty

(* The pass fails and rolls back; the watcher notes it and goes on to wait *)
(* for the next event.                                                     *)
Fail(w) ==
    /\ Finish(w)
    /\ gaveUp' = gaveUp \cup ({w} \cap Watchers)
    /\ UNCHANGED <<file, dirty, store, rewrites, broken>>

(* Another pass writes.  The first record's upsert reads before it writes, *)
(* which fails at once; the other statements wait for busy_timeout.        *)
Busy(w) ==
    /\ ~Free(w)
    /\ \/ pc[w] \in {"forget", "commit"}
       \/ pc[w] = "read" /\ \E i \in DOMAIN lines : at[w] = Start(i) /\ Delivered(w, i)
    /\ Fail(w)
    /\ UNCHANGED aborts

(* Any other statement fails, or the process dies before COMMIT.           *)
Abort(w) ==
    /\ pc[w] # "idle"
    /\ aborts < MaxAborts /\ FaultsLeft
    /\ aborts' = aborts + 1
    /\ Fail(w)

Writer == AppendLine \/ AppendHalf \/ CompleteLine \/ Rewrite \/ LateEvent

Ingest(w) ==
    \/ Enumerate(w)
    \/ SweepFresh(w) \/ SweepSkip(w) \/ SweepReparse(w) \/ SweepForget(w)
    \/ SweepTail(w) \/ CycleResume(w)
    \/ DeliverLine(w) \/ PassLine(w) \/ ReadHalf(w) \/ ReadRest(w) \/ EndOfFile(w)
    \/ CommitPass(w) \/ Busy(w)

Next ==
    \/ Writer
    \/ \E w \in Workers : StartSweep(w) \/ StartCycle(w) \/ Ingest(w)
                            \/ DropBatch(w) \/ ReadBreaks(w) \/ Abort(w)

Spec == Init /\ [][Next]_vars

(* The watcher thread runs; nobody promises another sweep, only that one   *)
(* that began goes on.                                                     *)
FairSpec ==
    /\ Spec
    /\ \A w \in Watchers : WF_vars(StartCycle(w))
    /\ \A w \in Workers : WF_vars(Ingest(w))

-----------------------------------------------------------------------------
(* Properties.                                                             *)

(* Every variable has its type; the log row is absent or complete.         *)
TypeOK ==
    /\ lines \in Seq(LineKinds) /\ Len(lines) <= MaxLines
    /\ torn \in BOOLEAN /\ dirty \in BOOLEAN
    /\ torn => lines # <<>>
    /\ mtime \in Nat
    /\ log \in [mtime : Nat, size : Nat, offset : Nat] \cup {NoRow}
    /\ stored \subseteq Nat
    /\ pc \in [Workers -> {"idle", "stat", "resume", "forget", "read", "commit"}]
    /\ ref \in [Workers -> [mtime : Nat, size : Nat]]
    /\ since \in [Workers -> Nat] /\ at \in [Workers -> Nat]
    /\ got \in [Workers -> SUBSET (1..MaxLines)]
    /\ apart \in [Workers -> SUBSET (1..MaxLines)]
    /\ clean \in [Workers -> BOOLEAN]
    /\ missed \subseteq 1..MaxLines + 1
    /\ gaveUp \subseteq Watchers
    /\ aborts \in 0..MaxAborts
    /\ rewrites \in 0..MaxRewrites
    /\ broken \in 0..MaxBroken

(* A message is stored, or a pass moved the offset past it without having  *)
(* read it as a whole: a pass that inserts nothing stores the size of the  *)
(* file, where the next line begins or is torn, and a line that is torn    *)
(* when it is read and completed before the next read comes in two pieces. *)
Safe(i) == Start(i) \in stored \/ i \in missed

(* In a file that only grows, every message the resume offset has passed   *)
(* is in the store, but for the line at the end of the file as a pass read *)
(* it (and what a failed read left, if the pass inserted nothing): stale   *)
(* stats, overlapping passes, offsets that go backwards, and rollbacks     *)
(* lose nothing.                                                           *)
LossOnlyAtTheEdge ==
    log # NoRow /\ rewrites = 0 =>
        \A i \in Messages : Start(i) <= log.offset /\ log.offset > 0 => Safe(i)

(* A sweep that skips the file as unchanged leaves nothing unread in it    *)
(* but such a line: the row carries the stat taken before the read, so     *)
(* that whatever was appended during it makes the file look changed.       *)
SkipIsSafe ==
    [][\A w \in Sweeps : pc[w] = "resume" /\ pc'[w] = "idle" /\ aborts' = aborts
                          /\ rewrites = 0 /\ broken = 0 =>
         \A i \in Messages : End(i) <= ref[w].size => Safe(i)]_vars

(* When the watcher has handled every event and its last batch did not     *)
(* come to nothing, every message of a file that only grew is in the       *)
(* store, or was overlooked: whatever was written while it read came with  *)
(* an event after the batch was drained, and no offset that another pass   *)
(* left in the row skips it.                                               *)
CaughtUp ==
    /\ \A w \in Watchers : pc[w] = "idle"
    /\ ~dirty /\ gaveUp = {} /\ broken = 0 /\ rewrites = 0
    => \A i \in Messages : Safe(i)

(* Every message line is eventually in the store, or was overlooked, or    *)
(* the watcher's last batch came to nothing and no event follows it.       *)
EventuallyIngested ==
    \A i \in 1..MaxLines : i \in Messages ~> (Safe(i) \/ [](gaveUp # {}))

(* A read from 0 that comes to the end of a file which is not truncated    *)
(* meanwhile heals the store: whatever earlier passes overlooked, every    *)
(* message that was whole at the stat is stored, however the file grows    *)
(* during the read.                                                        *)
FullReadHeals ==
    [][\A w \in Workers : pc[w] = "commit" /\ pc'[w] = "idle" /\ Free(w) /\ aborts' = aborts
                           /\ clean[w] /\ since[w] = 0 =>
         \A i \in Messages : End(i) <= ref[w].size =>
             Start(i) \in stored' /\ i \notin missed']_vars
=============================================================================
