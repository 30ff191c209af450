------------------------------ MODULE NudgeGate ------------------------------
(***************************************************************************)
(* The governance of proactive nudges: proactive_state.json and the lock   *)
(* file beside it.                                                         *)
(*                                                                         *)
(* The coding agent spawns a hook for every tool call; calls made at the   *)
(* same time have hooks at the same time.  A hook that has something to    *)
(* say asks the gate, which reads the state, decides, records the fire and *)
(* writes the state back under a lock that is a file created exclusively.  *)
(* The server records dismissals in the same way, with its own copy of the *)
(* same code.                                                              *)
(*                                                                         *)
(* Time is coarse: a cooldown lasts some ticks of clock, a lock file is    *)
(* older than LOCK_STALE_S or not, and the second at most that a process   *)
(* waits for the lock is no time: clock is read with the state.  What a    *)
(* process asks for is chosen then, too, and one that waits has done       *)
(* nothing yet: it is idle until it has the lock, and giving up after      *)
(* LOCK_TIMEOUT_S leaves it so.  The number of fires of a session is the   *)
(* number of fingerprints it has fired, since each fires once.  Mode,      *)
(* allowlist and relevance are decided: a hook is one that may ask.  The   *)
(* limits of 1024 cooldowns and feedback entries are left out.             *)
(***************************************************************************)
EXTENDS Integers, FiniteSets

CONSTANTS
    Hooks,          \* hook processes, one after the other under each name
    Dismissers,     \* requests to the server's dismiss route
    Sessions, Nudges,   \* agent sessions, and fingerprints of nudges
    Asks,           \* <<session, nudge>>: what hooks may have to say
    Dismissable,    \* fingerprints, or their kind: what users may dismiss
    Kind,           \* the kind all of the nudges are of
    MaxPerSession,  \* proactive_max_per_session
    Threshold,      \* proactive_dismiss_suppress_after; 0: dismissals count for nothing
    Cooldown,       \* proactive_cooldown_hours, in ticks; 0: none
    MaxSessions,    \* MAX_SESSIONS
    MaxClock,       \* bound: ticks
    MaxDismissals,  \* bound: dismissals that got the lock
    MaxFaults       \* bound: kills, stalls of LOCK_STALE_S at work, and reads,
                    \* writes and removals at the Drop that fail

Nobody == "nobody"

ASSUME GateAssumption ==
    /\ Hooks \cap Dismissers = {}
    /\ Nobody \notin Hooks \cup Dismissers
    /\ IsFiniteSet(Sessions) /\ IsFiniteSet(Nudges)
    /\ Kind \notin Nudges /\ Asks \subseteq Sessions \X Nudges
    /\ Dismissable \subseteq Nudges \cup {Kind}
    /\ {MaxPerSession, MaxSessions, MaxClock} \subseteq Nat \ {0}
    /\ {Threshold, Cooldown, MaxDismissals, MaxFaults} \subseteq Nat

Procs == Hooks \cup Dismissers
Keys  == Nudges \cup {Kind}

VARIABLES
    state,      \* the state file
    lock,       \* the lock file: who created it, and whether it looks stale
    proc,       \* [Procs -> state of the process]
    clock,      \* time, in ticks
    shown,      \* history: [<<session, nudge>> -> time of the hook that showed it
                \* last, or 0]
    refused,    \* history: dismissals on disk, by key
    pruned,     \* history: <<session, nudge>> whose record was pruned from the state
    spoiled,    \* history: the lock file of a process at work was removed, a
                \* write failed, or a state that could not be read was reset
    begun,      \* dismissals that got the lock
    faults

disk    == <<state, lock>>
history == <<shown, refused, pruned, spoiled>>
vars    == <<disk, proc, clock, history, begun, faults>>

(* fired: fingerprints by session; ts: time of a session's last fire, 0    *)
(* for a session that is not there; until: end of a cooldown.              *)
Empty == [fired     |-> [s \in Sessions |-> {}],
          ts        |-> [s \in Sessions |-> 0],
          until     |-> [n \in Nudges |-> 0],
          dismissed |-> [k \in Keys |-> 0]]

NoLock == [owner |-> Nobody, stale |-> FALSE]

(* ask is <<session, nudge>> or the key to dismiss, now the time, lost     *)
(* what was pruned from mem.  When the process read the state, muted: ask  *)
(* had been dismissed often enough; excused: the record of ask had been    *)
(* pruned, and its cooldown was over as well.                              *)
NoProc == [pc |-> "idle", ask |-> <<>>, mem |-> Empty, fire |-> FALSE, now |-> 0,
           lost |-> {}, muted |-> FALSE, excused |-> FALSE]

Init ==
    /\ state = Empty
    /\ lock = NoLock
    /\ proc = [p \in Procs |-> NoProc]
    /\ clock = 1
    /\ shown = [x \in Sessions \X Nudges |-> 0]
    /\ pruned = {}
    /\ refused = [k \in Keys |-> 0]
    /\ spoiled = FALSE
    /\ begun = 0 /\ faults = 0

Tick ==
    /\ clock < MaxClock
    /\ clock' = clock + 1
    /\ UNCHANGED <<disk, proc, history, begun, faults>>

Goto(p, label) == proc' = [proc EXCEPT ![p].pc = label]

-----------------------------------------------------------------------------
(* FileLock.                                                               *)

Holding == {p \in Procs : proc[p].pc \in {"read", "write", "drop"}}

Counted(p) ==
    /\ p \in Dismissers => begun < MaxDismissals
    /\ begun' = IF p \in Dismissers THEN begun + 1 ELSE begun

CreateLockShared(p) ==           \* mutant: a file that is there is no obstacle
    /\ proc[p].pc = "idle"
    /\ lock' = [owner |-> p, stale |-> FALSE]
    /\ Counted(p)
    /\ Goto(p, "read")
    /\ UNCHANGED <<state, clock, history, faults>>

CreateLock(p) ==
    /\ proc[p].pc = "idle" /\ lock = NoLock
    /\ lock' = [owner |-> p, stale |-> FALSE]
    /\ Counted(p)
    /\ Goto(p, "read")
    /\ UNCHANGED <<state, clock, history, faults>>

(* The file of a killed process grows old, or that of one which stalls.    *)
LockAges ==
    /\ lock # NoLock /\ ~lock.stale
    /\ \/ lock.owner \notin Holding /\ faults' = faults
       \/ faults < MaxFaults /\ faults' = faults + 1
    /\ lock' = [lock EXCEPT !.stale = TRUE]
    /\ UNCHANGED <<state, proc, clock, history, begun>>

SeeStale(p) ==
    /\ proc[p].pc = "idle" /\ lock.stale
    /\ Goto(p, "steal")
    /\ UNCHANGED <<disk, clock, history, begun, faults>>

RemoveLock(p) ==
    /\ lock' = NoLock
    /\ spoiled' = (spoiled \/ (lock.owner # p /\ lock.owner \in Holding))
    /\ UNCHANGED <<state, clock, refused, pruned, begun, faults>>

StealLockTimidly(p) ==           \* mutant: a stale file is silence, too
    /\ proc[p].pc = "steal"
    /\ Goto(p, "idle")
    /\ UNCHANGED <<disk, clock, history, begun, faults>>

(* remove_file removes whatever file has the name by now.                  *)
StealLock(p) ==
    /\ proc[p].pc = "steal"
    /\ RemoveLock(p)
    /\ Goto(p, "idle")
    /\ UNCHANGED shown

(* The file cannot be removed: the process tries again, whatever the time. *)
StealFails(p) ==
    /\ proc[p].pc = "steal"
    /\ Goto(p, "idle")
    /\ UNCHANGED <<disk, clock, history, begun, faults>>

-----------------------------------------------------------------------------
(* Under the lock: should_surface, record_fire, record_dismissal and the   *)
(* pruning that both do.                                                   *)

Muted(dismissed, n) ==
    Threshold > 0 /\ (dismissed[n] >= Threshold \/ dismissed[Kind] >= Threshold)

ShouldSurface(mem, s, n) ==
    /\ ~Muted(mem.dismissed, n)
    /\ n \notin mem.fired[s]
    /\ mem.until[n] <= clock
    /\ Cardinality(mem.fired[s]) < MaxPerSession

Known(mem) == {s \in Sessions : mem.ts[s] # 0}

PruningsOfCooldowns(mem) ==      \* mutant: sessions are never pruned
    {[mem EXCEPT !.until = [n \in Nudges |-> IF mem.until[n] > clock THEN mem.until[n] ELSE 0]]}

(* Prunings of mem: the newest sessions stay, any of those as old as one   *)
(* another; cooldowns that are over go.                                    *)
Prunings(mem) ==
    {[mem EXCEPT !.fired = [s \in Sessions |-> IF s \in keep THEN mem.fired[s] ELSE {}],
                 !.ts = [s \in Sessions |-> IF s \in keep THEN mem.ts[s] ELSE 0],
                 !.until = [n \in Nudges |-> IF mem.until[n] > clock THEN mem.until[n] ELSE 0]] :
     keep \in {K \in SUBSET Known(mem) :
                 /\ \/ K = Known(mem) /\ Cardinality(K) <= MaxSessions
                    \/ K # Known(mem) /\ Cardinality(K) = MaxSessions
                 /\ \A s \in K, t \in Known(mem) \ K : mem.ts[s] >= mem.ts[t]}}

FiredUncooled(mem, s, n) ==      \* mutant: the cooldown is not recorded
    [mem EXCEPT !.fired[s] = @ \cup {n}, !.ts[s] = clock]

Fired(mem, s, n) ==
    [mem EXCEPT !.fired[s] = @ \cup {n}, !.ts[s] = clock,
                !.until[n] = IF Cooldown > 0 THEN clock + Cooldown ELSE @]

Excused(ask) == ask \in pruned /\ clock >= shown[ask] + Cooldown

Recorded(mem) == {x \in Sessions \X Nudges : x[2] \in mem.fired[x[1]]}

ToWrite(p, ask, mem) ==
    \E new \in Prunings(mem) :
        proc' = [proc EXCEPT ![p] = [pc |-> "write", ask |-> ask, mem |-> new,
                                    fire |-> p \in Hooks, now |-> clock,
                                    lost |-> Recorded(mem) \ Recorded(new),
                                    muted |-> p \in Hooks /\ Muted(refused, ask[2]),
                                    excused |-> p \in Hooks /\ Excused(ask)]]

Decided(p, mem) ==
    \/ p \in Dismissers /\ \E k \in Dismissable : ToWrite(p, k, [mem EXCEPT !.dismissed[k] = @ + 1])
    \/ p \in Hooks /\ \E ask \in Asks :
         IF ShouldSurface(mem, ask[1], ask[2])
         THEN ToWrite(p, ask, Fired(mem, ask[1], ask[2]))
         ELSE Goto(p, "drop")

ReadState(p) ==
    /\ proc[p].pc = "read"
    /\ Decided(p, state)
    /\ UNCHANGED <<disk, clock, history, begun, faults>>

(* An unreadable state: the hook is silent, the server starts from nothing.*)
ReadFails(p) ==
    /\ proc[p].pc = "read"
    /\ faults < MaxFaults /\ faults' = faults + 1
    /\ IF p \in Dismissers
       THEN Decided(p, Empty) /\ spoiled' = TRUE
       ELSE Goto(p, "drop") /\ UNCHANGED spoiled
    /\ UNCHANGED <<disk, clock, shown, refused, pruned, begun>>

(* What was read is of no more use.                                        *)
Written(p) ==
    proc' = [proc EXCEPT ![p].pc = "drop", ![p].mem = Empty, ![p].lost = {}]

(* A temporary file and a rename.                                          *)
WriteState(p) ==
    /\ proc[p].pc = "write"
    /\ state' = proc[p].mem
    /\ pruned' = (pruned \cup proc[p].lost) \ Recorded(proc[p].mem)
    /\ refused' = IF p \in Dismissers THEN [refused EXCEPT ![proc[p].ask] = @ + 1] ELSE refused
    /\ Written(p)
    /\ UNCHANGED <<lock, clock, shown, spoiled, begun, faults>>

(* Errors of the write are ignored, and the nudge is shown all the same.   *)
WriteFails(p) ==
    /\ proc[p].pc = "write"
    /\ faults < MaxFaults /\ faults' = faults + 1
    /\ spoiled' = (spoiled \/ proc[p].fire)
    /\ Written(p)
    /\ UNCHANGED <<disk, clock, shown, refused, pruned, begun>>

(* Drop removes the file of that name, whoever created it, and admit       *)
(* returns: the hook shows the nudge.                                      *)
Return(p) ==
    /\ shown' = IF proc[p].fire THEN [shown EXCEPT ![proc[p].ask] = proc[p].now] ELSE shown
    /\ proc' = [proc EXCEPT ![p] = NoProc]

DropLock(p) ==
    /\ proc[p].pc = "drop"
    /\ RemoveLock(p)
    /\ Return(p)

DropFails(p) ==
    /\ proc[p].pc = "drop"
    /\ faults < MaxFaults /\ faults' = faults + 1
    /\ Return(p)
    /\ UNCHANGED <<disk, clock, refused, pruned, spoiled, begun>>

(* A killed process leaves its lock file behind.  One that does not hold   *)
(* the lock has done nothing yet, or it is done.                           *)
Die(p) ==
    /\ p \in Holding
    /\ faults < MaxFaults /\ faults' = faults + 1
    /\ proc' = [proc EXCEPT ![p] = NoProc]
    /\ UNCHANGED <<disk, clock, history, begun>>

-----------------------------------------------------------------------------
Step(p) ==
    \/ CreateLock(p) \/ SeeStale(p) \/ StealLock(p)
    \/ ReadState(p) \/ WriteState(p) \/ DropLock(p)

Next ==
    \/ Tick \/ LockAges
    \/ \E p \in Procs : \/ Step(p)
                        \/ StealFails(p) \/ ReadFails(p) \/ WriteFails(p) \/ DropFails(p)
                        \/ Die(p)

Spec == Init /\ [][Next]_vars

(* The agent goes on calling tools and some process goes on; a file that   *)
(* was left behind grows old, and one that processes try to remove again   *)
(* and again is removed in the end.                                        *)
FairSpec ==
    /\ Spec
    /\ WF_vars(LockAges /\ lock.owner \notin Holding)
    /\ WF_vars(\E p \in Procs : Step(p))
    /\ SF_vars(\E p \in Procs : StealLock(p))

-----------------------------------------------------------------------------
(* Properties.                                                             *)

StateType ==
    [fired : [Sessions -> SUBSET Nudges], ts : [Sessions -> 0..MaxClock],
     until : [Nudges -> 0..MaxClock + Cooldown], dismissed : [Keys -> Nat]]

(* Every variable has its type, and the state keeps to MAX_SESSIONS.       *)
TypeOK ==
    /\ state \in StateType
    /\ Cardinality(Known(state)) <= MaxSessions
    /\ lock \in [owner : Procs \cup {Nobody}, stale : BOOLEAN]
    /\ DOMAIN proc = Procs
    /\ \A p \in Procs : proc[p].pc \in {"idle", "steal", "read", "write", "drop"}
                        /\ proc[p].mem \in StateType
    /\ clock \in 1..MaxClock
    /\ shown \in [Sessions \X Nudges -> 0..MaxClock]
    /\ pruned \subseteq Sessions \X Nudges
    /\ begun \in 0..MaxDismissals /\ faults \in 0..MaxFaults

(* A nudge is never shown twice in a session, also by hooks that run at    *)
(* the same time and after a hook was killed anywhere - unless the lock    *)
(* file was taken from a process at work, the fire could not be written,   *)
(* or its record was pruned with its session, and the cooldown that began  *)
(* when it was shown last was over as well.                                *)
NeverTwice ==
    \A h \in Hooks : proc[h].pc = "drop" /\ proc[h].fire /\ shown[proc[h].ask] # 0 =>
        spoiled \/ proc[h].excused

(* Once enough dismissals are on disk, no hook that reads the state later  *)
(* shows the nudge: neither a fire nor another dismissal overwrites them.  *)
StaysMuted == \A h \in Hooks : proc[h].pc = "drop" /\ proc[h].muted => spoiled

(* A lock file left behind by a killed process does not silence the gate   *)
(* for ever.                                                               *)
NeverWedged == []<>(lock = NoLock)
=============================================================================
