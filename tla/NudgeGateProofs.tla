---------------------------- MODULE NudgeGateProofs ----------------------------
(***************************************************************************)
(* Theorems about NudgeGate, for any hooks, dismissers, sessions, nudges   *)
(* and limits: the types and the size of the state, that a nudge is shown  *)
(* once, and that what was dismissed often enough stays silent.            *)
(***************************************************************************)
EXTENDS NudgeGate, FiniteSetTheorems, TLAPS

Labels == {"idle", "steal", "read", "write", "drop"}

(* What a process may have to say or to record.                            *)
Words == {<<>>} \cup (Sessions \X Nudges) \cup Keys

ProcType == [pc : Labels, ask : Words, mem : StateType, fire : BOOLEAN, now : 0..MaxClock,
             lost : SUBSET (Sessions \X Nudges), muted : BOOLEAN, excused : BOOLEAN]

(* The types, what a process at a label may carry, and that a state which  *)
(* is about to be written keeps to MAX_SESSIONS like the one on disk.      *)
GateTyped ==
    /\ TypeOK
    /\ proc \in [Procs -> ProcType]
    /\ refused \in [Keys -> Nat] /\ spoiled \in BOOLEAN
    /\ \A p \in Procs : /\ proc[p].pc \in {"idle", "steal", "read"} => ~proc[p].fire
                        /\ proc[p].fire => p \in Hooks /\ proc[p].ask \in Sessions \X Nudges
                        /\ proc[p].pc = "write" =>
                             /\ Cardinality(Known(proc[p].mem)) <= MaxSessions
                             /\ p \in Hooks => proc[p].fire
                             /\ p \in Dismissers => proc[p].ask \in Keys

-----------------------------------------------------------------------------
(* The operators on the state.                                             *)

LEMMA Parameters ==
    /\ MaxClock \in Nat \ {0} /\ MaxSessions \in Nat \ {0}
    /\ MaxDismissals \in Nat /\ MaxFaults \in Nat /\ Cooldown \in Nat /\ Threshold \in Nat
    /\ Asks \subseteq Sessions \X Nudges /\ Dismissable \subseteq Keys /\ Nudges \subseteq Keys
    /\ \A p \in Procs : p # Nobody /\ (p \in Hooks <=> p \notin Dismissers)
BY GateAssumption DEF Keys, Procs, Nobody

LEMMA EmptyFacts ==
    Empty \in StateType /\ Known(Empty) = {} /\ Cardinality(Known(Empty)) = 0
<1>1. Empty \in StateType
  BY Parameters DEF Empty, StateType
<1>2. Known(Empty) = {}
  BY DEF Known, Empty
<1> QED
  BY <1>1, <1>2, FS_EmptySet

(* The state a fire makes of the one that was read.                        *)
LEMMA FiredFacts ==
    ASSUME clock \in 1..MaxClock, NEW m \in StateType, NEW s \in Sessions, NEW n \in Nudges
    PROVE  /\ Fired(m, s, n) \in StateType
           /\ <<s, n>> \in Recorded(Fired(m, s, n)) /\ Recorded(m) \subseteq Recorded(Fired(m, s, n))
           /\ \A k \in Nudges : Fired(m, s, n).until[k] =
                                  IF k = n /\ Cooldown > 0 THEN clock + Cooldown ELSE m.until[k]
           /\ Fired(m, s, n).dismissed = m.dismissed
<1>1. MaxClock \in Nat /\ Cooldown \in Nat /\ clock \in 0..MaxClock
      /\ clock + Cooldown \in 0..MaxClock + Cooldown
  BY Parameters
<1>2. /\ Fired(m, s, n).fired = [m.fired EXCEPT ![s] = @ \cup {n}]
      /\ Fired(m, s, n).ts = [m.ts EXCEPT ![s] = clock]
      /\ Fired(m, s, n).until = [m.until EXCEPT ![n] = IF Cooldown > 0 THEN clock + Cooldown ELSE @]
      /\ Fired(m, s, n).dismissed = m.dismissed
  BY DEF Fired, StateType
<1>3. Fired(m, s, n) \in StateType
  BY <1>1 DEF Fired, StateType
<1>4. <<s, n>> \in Recorded(Fired(m, s, n)) /\ Recorded(m) \subseteq Recorded(Fired(m, s, n))
  BY <1>2 DEF Recorded, StateType
<1> QED
  BY <1>2, <1>3, <1>4 DEF StateType

(* The state a dismissal makes of the one that was read.                   *)
LEMMA DismissedFacts ==
    ASSUME NEW m \in StateType, NEW k \in Keys
    PROVE  /\ [m EXCEPT !.dismissed[k] = @ + 1] \in StateType
           /\ Recorded([m EXCEPT !.dismissed[k] = @ + 1]) = Recorded(m)
           /\ [m EXCEPT !.dismissed[k] = @ + 1].until = m.until
           /\ \A j \in Keys : [m EXCEPT !.dismissed[k] = @ + 1].dismissed[j] =
                                IF j = k THEN m.dismissed[j] + 1 ELSE m.dismissed[j]
BY DEF StateType, Recorded

(* A pruning forgets whole sessions, and cooldowns that are over.          *)
LEMMA PruningFacts ==
    ASSUME clock \in 1..MaxClock, NEW m \in StateType, NEW new, new \in Prunings(m)
    PROVE  /\ new \in StateType
           /\ Cardinality(Known(new)) <= MaxSessions
           /\ \A n \in Nudges : m.until[n] > clock => new.until[n] = m.until[n]
           /\ new.dismissed = m.dismissed
<1>1. MaxClock \in Nat /\ MaxSessions \in Nat /\ Cooldown \in Nat
  BY Parameters
<1>2. PICK keep \in SUBSET Known(m) :
        /\ \/ keep = Known(m) /\ Cardinality(keep) <= MaxSessions
           \/ keep # Known(m) /\ Cardinality(keep) = MaxSessions
        /\ new = [m EXCEPT !.fired = [s \in Sessions |-> IF s \in keep THEN m.fired[s] ELSE {}],
                           !.ts = [s \in Sessions |-> IF s \in keep THEN m.ts[s] ELSE 0],
                           !.until = [n \in Nudges |-> IF m.until[n] > clock THEN m.until[n] ELSE 0]]
  BY DEF Prunings
<1>3. /\ new.fired = [s \in Sessions |-> IF s \in keep THEN m.fired[s] ELSE {}]
      /\ new.ts = [s \in Sessions |-> IF s \in keep THEN m.ts[s] ELSE 0]
      /\ new.until = [n \in Nudges |-> IF m.until[n] > clock THEN m.until[n] ELSE 0]
      /\ new.dismissed = m.dismissed
      /\ new = [fired |-> new.fired, ts |-> new.ts, until |-> new.until,
                dismissed |-> new.dismissed]
  BY <1>2 DEF StateType
<1>4. /\ new.fired \in [Sessions -> SUBSET Nudges] /\ new.ts \in [Sessions -> 0..MaxClock]
      /\ new.until \in [Nudges -> 0..MaxClock + Cooldown] /\ new.dismissed \in [Keys -> Nat]
  BY <1>1, <1>3 DEF StateType
<1>5. new \in StateType
  BY <1>3, <1>4 DEF StateType
<1>6. Known(new) = keep
  BY <1>2, <1>3 DEF Known
<1>7. Cardinality(Known(new)) <= MaxSessions
  BY <1>1, <1>2, <1>6
<1> QED
  BY <1>3, <1>5, <1>7
-----------------------------------------------------------------------------
(* What a process writes when it read m: its own fire or dismissal, and    *)
(* everything that was in m but for what the pruning lost of the fires,    *)
(* and past cooldowns.                                                     *)
Proposed(p, m, ask, new, lost) ==
    /\ ask \in Words /\ new \in StateType /\ Cardinality(Known(new)) <= MaxSessions
    /\ lost \subseteq Sessions \X Nudges
    /\ p \in Hooks => /\ ask \in Sessions \X Nudges
                      /\ ShouldSurface(m, ask[1], ask[2])
                      /\ ask \in Recorded(new) \cup lost
                      /\ Cooldown > 0 => new.until[ask[2]] = clock + Cooldown
                      /\ new.dismissed = m.dismissed
    /\ p \in Dismissers => /\ ask \in Keys
                           /\ \A k \in Keys : new.dismissed[k] = IF k = ask THEN m.dismissed[k] + 1
                                                                 ELSE m.dismissed[k]
    /\ Recorded(m) \subseteq Recorded(new) \cup lost
    /\ \A n \in Nudges : m.until[n] > clock => new.until[n] = m.until[n]

(* A process about to write.                                               *)
Writing(p, ask, new, lost) ==
    [pc |-> "write", ask |-> ask, mem |-> new, fire |-> p \in Hooks, now |-> clock, lost |-> lost,
     muted |-> p \in Hooks /\ Muted(refused, ask[2]), excused |-> p \in Hooks /\ Excused(ask)]

LEMMA DecidedFacts ==
    ASSUME GateTyped, NEW p \in Procs, NEW m \in StateType, Decided(p, m)
    PROVE  \/ proc' = [proc EXCEPT ![p].pc = "drop"]
           \/ \E ask \in Words, new \in StateType, lost \in SUBSET (Sessions \X Nudges) :
                /\ Proposed(p, m, ask, new, lost)
                /\ proc' = [proc EXCEPT ![p] = Writing(p, ask, new, lost)]
<1>1. clock \in 1..MaxClock /\ MaxClock \in Nat /\ Cooldown \in Nat
  BY Parameters DEF GateTyped, TypeOK
<1>2. ASSUME NEW ask \in Words, NEW d \in StateType, ToWrite(p, ask, d)
      PROVE  \E new \in StateType, lost \in SUBSET (Sessions \X Nudges) :
               /\ proc' = [proc EXCEPT ![p] = Writing(p, ask, new, lost)]
               /\ Cardinality(Known(new)) <= MaxSessions
               /\ Recorded(d) \subseteq Recorded(new) \cup lost
               /\ \A n \in Nudges : d.until[n] > clock => new.until[n] = d.until[n]
               /\ new.dismissed = d.dismissed
  <2>1. PICK new \in Prunings(d) :
          proc' = [proc EXCEPT ![p] = Writing(p, ask, new, Recorded(d) \ Recorded(new))]
    BY <1>2 DEF ToWrite, Writing
  <2>2. PICK lost \in SUBSET (Sessions \X Nudges) : lost = Recorded(d) \ Recorded(new)
    BY DEF Recorded
  <2> QED
    BY <1>1, <2>1, <2>2, PruningFacts
<1>3. CASE p \in Dismissers
  <2>1. PICK k \in Dismissable : ToWrite(p, k, [m EXCEPT !.dismissed[k] = @ + 1])
    BY <1>3, Parameters DEF Decided
  <2>2. k \in Keys /\ k \in Words /\ p \notin Hooks
    BY <1>3, Parameters DEF Words
  <2>3. PICK d \in StateType : d = [m EXCEPT !.dismissed[k] = @ + 1]
    BY <2>2, DismissedFacts
  <2>4. PICK new \in StateType, lost \in SUBSET (Sessions \X Nudges) :
               /\ proc' = [proc EXCEPT ![p] = Writing(p, k, new, lost)]
               /\ Cardinality(Known(new)) <= MaxSessions
               /\ Recorded(d) \subseteq Recorded(new) \cup lost
               /\ \A n \in Nudges : d.until[n] > clock => new.until[n] = d.until[n]
               /\ new.dismissed = d.dismissed
    <3>1. ToWrite(p, k, d)
      BY <2>1, <2>3
    <3> QED
      BY <1>2, <2>2, <3>1
  <2>5. /\ Recorded(d) = Recorded(m) /\ d.until = m.until
        /\ \A j \in Keys : d.dismissed[j] = IF j = k THEN m.dismissed[j] + 1 ELSE m.dismissed[j]
    BY <2>2, <2>3, DismissedFacts
  <2>6. Proposed(p, m, k, new, lost)
    BY <2>2, <2>4, <2>5 DEF Proposed
  <2> QED
    BY <2>2, <2>4, <2>6
<1>4. CASE p \in Hooks
  <2>1. p \notin Dismissers
    BY <1>4, Parameters
  <2>2. PICK ask \in Asks :
          IF ShouldSurface(m, ask[1], ask[2])
          THEN ToWrite(p, ask, Fired(m, ask[1], ask[2]))
          ELSE Goto(p, "drop")
    BY <2>1 DEF Decided
  <2>3. /\ ask \in Sessions \X Nudges /\ ask \in Words /\ ask[1] \in Sessions /\ ask[2] \in Nudges
        /\ ask = <<ask[1], ask[2]>>
    BY Parameters DEF Words
  <2>4. CASE ~ShouldSurface(m, ask[1], ask[2])
    BY <2>2, <2>4 DEF Goto
  <2>5. CASE ShouldSurface(m, ask[1], ask[2])
    <3>1. PICK d \in StateType : d = Fired(m, ask[1], ask[2])
      BY <1>1, <2>3, FiredFacts
    <3>2. PICK new \in StateType, lost \in SUBSET (Sessions \X Nudges) :
               /\ proc' = [proc EXCEPT ![p] = Writing(p, ask, new, lost)]
               /\ Cardinality(Known(new)) <= MaxSessions
               /\ Recorded(d) \subseteq Recorded(new) \cup lost
               /\ \A n \in Nudges : d.until[n] > clock => new.until[n] = d.until[n]
               /\ new.dismissed = d.dismissed
      BY <1>2, <2>2, <2>3, <2>5, <3>1
    <3>3. /\ ask \in Recorded(d) /\ Recorded(m) \subseteq Recorded(d)
          /\ d.dismissed = m.dismissed
          /\ \A k \in Nudges : d.until[k] = IF k = ask[2] /\ Cooldown > 0 THEN clock + Cooldown
                                             ELSE m.until[k]
      BY <1>1, <2>3, <3>1, FiredFacts
    <3>4. Cooldown > 0 => new.until[ask[2]] = clock + Cooldown
      BY <1>1, <2>3, <3>2, <3>3
    <3>5. ASSUME NEW k \in Nudges, m.until[k] > clock PROVE new.until[k] = m.until[k]
      <4>1. m.until[ask[2]] \in Int /\ m.until[ask[2]] <= clock
        BY <1>1, <2>3, <2>5 DEF ShouldSurface, StateType
      <4>2. k # ask[2]
        BY <1>1, <3>5, <4>1
      <4> QED
        BY <3>2, <3>3, <3>5, <4>2
    <3>6. Proposed(p, m, ask, new, lost)
      BY <2>1, <2>3, <2>5, <3>2, <3>3, <3>4, <3>5 DEF Proposed
    <3> QED
      BY <2>3, <3>2, <3>6
  <2> QED
    BY <2>4, <2>5
<1> QED
  BY <1>3, <1>4 DEF Procs

-----------------------------------------------------------------------------
(* Types.                                                                  *)

LEMMA GateTypedInit == Init => GateTyped
<1> SUFFICES ASSUME Init PROVE GateTyped
  OBVIOUS
<1>1. NoProc \in ProcType
  BY EmptyFacts, Parameters DEF NoProc, ProcType, Labels, Words
<1>2. proc \in [Procs -> ProcType] /\ \A p \in Procs : proc[p] = NoProc
  BY <1>1 DEF Init
<1>3. state \in StateType /\ Cardinality(Known(state)) <= MaxSessions
  BY EmptyFacts, Parameters DEF Init
<1>4. \A p \in Procs : proc[p].pc = "idle" /\ proc[p].fire = FALSE /\ proc[p].mem \in StateType
  BY <1>2, EmptyFacts DEF NoProc
<1>5. lock \in [owner : Procs \cup {Nobody}, stale : BOOLEAN] /\ refused \in [Keys -> Nat]
      /\ clock \in 1..MaxClock /\ begun \in 0..MaxDismissals /\ faults \in 0..MaxFaults
      /\ shown \in [Sessions \X Nudges -> 0..MaxClock] /\ pruned = {}
  BY Parameters DEF Init, NoLock
<1> QED
  BY <1>2, <1>3, <1>4, <1>5 DEF GateTyped, TypeOK, Init
(* One process moves: the others stay as they are.                         *)
LEMMA Relabelled ==
    ASSUME GateTyped, NEW p \in Procs, NEW l \in Labels, proc' = [proc EXCEPT ![p].pc = l]
    PROVE  /\ proc' \in [Procs -> ProcType] /\ proc'[p].pc = l
           /\ proc'[p].ask = proc[p].ask /\ proc'[p].mem = proc[p].mem
           /\ proc'[p].fire = proc[p].fire /\ proc'[p].muted = proc[p].muted
           /\ proc'[p].now = proc[p].now /\ proc'[p].excused = proc[p].excused
           /\ \A q \in Procs : q # p => proc'[q] = proc[q]
BY DEF GateTyped, ProcType

LEMMA Wrote ==
    ASSUME GateTyped, NEW p \in Procs, Written(p)
    PROVE  /\ proc' \in [Procs -> ProcType] /\ proc'[p].pc = "drop"
           /\ proc'[p].ask = proc[p].ask /\ proc'[p].mem \in StateType
           /\ proc'[p].fire = proc[p].fire /\ proc'[p].muted = proc[p].muted
           /\ proc'[p].now = proc[p].now /\ proc'[p].excused = proc[p].excused
           /\ \A q \in Procs : q # p => proc'[q] = proc[q]
<1>1. proc[p] \in ProcType /\ Empty \in StateType
  BY EmptyFacts DEF GateTyped
<1>2. [proc[p] EXCEPT !.pc = "drop", !.mem = Empty, !.lost = {}] \in ProcType
  BY <1>1 DEF ProcType, Labels
<1>3. /\ proc'[p] = [proc[p] EXCEPT !.pc = "drop", !.mem = Empty, !.lost = {}]
      /\ proc' \in [Procs -> ProcType]
      /\ \A q \in Procs : q # p => proc'[q] = proc[q]
  BY <1>2 DEF GateTyped, Written
<1> QED
  BY <1>1, <1>2, <1>3 DEF ProcType

LEMMA Replaced ==
    ASSUME GateTyped, NEW p \in Procs, NEW new \in ProcType, proc' = [proc EXCEPT ![p] = new]
    PROVE  /\ proc' \in [Procs -> ProcType] /\ proc'[p] = new
           /\ \A q \in Procs : q # p => proc'[q] = proc[q]
BY DEF GateTyped

(* What the types say of the processes, once their new states are known.   *)
LEMMA ProcsTyped ==
    ASSUME proc \in [Procs -> ProcType]
    PROVE  /\ DOMAIN proc = Procs
           /\ \A p \in Procs : /\ proc[p].pc \in {"idle", "steal", "read", "write", "drop"}
                               /\ proc[p].mem \in StateType
BY DEF ProcType, Labels

LEMMA NoProcFacts ==
    /\ NoProc \in ProcType /\ NoProc.pc = "idle" /\ NoProc.fire = FALSE /\ NoProc.muted = FALSE
BY EmptyFacts, Parameters DEF NoProc, ProcType, Labels, Words

LEMMA WriterType ==
    ASSUME clock \in 1..MaxClock, NEW p \in Procs
    PROVE  \A ask \in Words, new \in StateType, lost \in SUBSET (Sessions \X Nudges) :
             Writing(p, ask, new, lost) \in ProcType
<1>1. clock \in 0..MaxClock
  BY Parameters
<1> SUFFICES ASSUME NEW ask \in Words, NEW new \in StateType,
                    NEW lost \in SUBSET (Sessions \X Nudges)
             PROVE  Writing(p, ask, new, lost) \in ProcType
  OBVIOUS
<1>2. /\ (p \in Hooks) \in BOOLEAN /\ (p \in Hooks /\ Muted(refused, ask[2])) \in BOOLEAN
      /\ (p \in Hooks /\ Excused(ask)) \in BOOLEAN
  OBVIOUS
<1>3. \A fire, muted, excused \in BOOLEAN :
        [pc |-> "write", ask |-> ask, mem |-> new, fire |-> fire, now |-> clock, lost |-> lost,
         muted |-> muted, excused |-> excused] \in ProcType
  BY <1>1 DEF ProcType, Labels
<1> QED
  BY <1>2, <1>3, Zenon DEF Writing

LEMMA GateTypedStep == GateTyped /\ [Next]_vars => GateTyped'
<1> SUFFICES ASSUME GateTyped, [Next]_vars PROVE GateTyped'
  OBVIOUS
<1>1. TypeOK /\ proc \in [Procs -> ProcType] /\ refused \in [Keys -> Nat] /\ spoiled \in BOOLEAN
      /\ MaxClock \in Nat /\ MaxDismissals \in Nat /\ MaxFaults \in Nat
  BY Parameters DEF GateTyped
<1> DEFINE LockType == [owner : Procs \cup {Nobody}, stale : BOOLEAN]
<1>0. /\ clock \in 1..MaxClock /\ begun \in 0..MaxDismissals /\ faults \in 0..MaxFaults
      /\ lock \in LockType /\ NoLock \in LockType
      /\ \A p \in Procs : [owner |-> p, stale |-> FALSE] \in LockType
  BY <1>1 DEF TypeOK, NoLock
<1>2. \A q \in Procs : proc[q].pc \in Labels /\ proc[q].mem \in StateType
                       /\ proc[q].fire \in BOOLEAN /\ proc[q] \in ProcType
  BY <1>1 DEF ProcType
<1>3. ASSUME NEW p \in Procs, proc' \in [Procs -> ProcType],
             \A q \in Procs : q # p => proc'[q] = proc[q],
             proc'[p].pc \in {"idle", "steal", "read"} => ~proc'[p].fire,
             proc'[p].fire => p \in Hooks /\ proc'[p].ask \in Sessions \X Nudges,
             proc'[p].pc = "write" =>
                /\ Cardinality(Known(proc'[p].mem)) <= MaxSessions
                /\ p \in Hooks => proc'[p].fire
                /\ p \in Dismissers => proc'[p].ask \in Keys,
             state' \in StateType, Cardinality(Known(state')) <= MaxSessions,
             lock' \in [owner : Procs \cup {Nobody}, stale : BOOLEAN],
             clock' \in 1..MaxClock,
             shown' \in [Sessions \X Nudges -> 0..MaxClock], pruned' \subseteq Sessions \X Nudges,
             begun' \in 0..MaxDismissals, faults' \in 0..MaxFaults,
             refused' \in [Keys -> Nat], spoiled' \in BOOLEAN
      PROVE  GateTyped'
  <2>1. /\ DOMAIN proc' = Procs
        /\ \A q \in Procs : /\ proc'[q].pc \in {"idle", "steal", "read", "write", "drop"}
                            /\ proc'[q].mem \in StateType
    BY <1>3 DEF ProcType, Labels
  <2>2. \A q \in Procs : /\ proc'[q].pc \in {"idle", "steal", "read"} => ~proc'[q].fire
                         /\ proc'[q].fire => q \in Hooks /\ proc'[q].ask \in Sessions \X Nudges
                         /\ proc'[q].pc = "write" =>
                              /\ Cardinality(Known(proc'[q].mem)) <= MaxSessions
                              /\ q \in Hooks => proc'[q].fire
                              /\ q \in Dismissers => proc'[q].ask \in Keys
    BY <1>3 DEF GateTyped
  <2>3. Known(state)' = Known(state') /\ \A q \in Procs : Known(proc[q].mem)' = Known(proc'[q].mem)
    BY DEF Known
  <2> QED
    BY <1>3, <2>1, <2>2, <2>3 DEF GateTyped, TypeOK
<1>4. CASE Tick \/ LockAges \/ UNCHANGED vars
  <2>1. UNCHANGED <<state, proc, history, begun>>
    BY <1>4 DEF Tick, LockAges, vars, disk
  <2>2. clock' \in 1..MaxClock /\ lock' \in [owner : Procs \cup {Nobody}, stale : BOOLEAN]
        /\ faults' \in 0..MaxFaults
    <3>1. CASE Tick \/ UNCHANGED vars
      BY <1>0, <1>1, <3>1 DEF Tick, vars, disk
    <3>2. CASE LockAges
      <4>1. lock' = [lock EXCEPT !.stale = TRUE] /\ clock' = clock
            /\ (faults' = faults \/ (faults < MaxFaults /\ faults' = faults + 1))
        BY <3>2, Zenon DEF LockAges
      <4>2. lock' \in LockType
        BY <1>0, <4>1
      <4>3. faults' \in 0..MaxFaults
        BY <1>0, <1>1, <4>1
      <4> QED
        BY <1>0, <4>1, <4>2, <4>3
    <3> QED
      BY <1>4, <3>1, <3>2
  <2> QED
    BY <2>1, <2>2 DEF GateTyped, TypeOK, history
<1>5. ASSUME NEW p \in Procs, CreateLock(p) \/ SeeStale(p)
      PROVE  GateTyped'
  <2>1. PICK l \in {"read", "steal"} : proc' = [proc EXCEPT ![p].pc = l] /\ proc[p].pc = "idle"
    BY <1>5 DEF CreateLock, SeeStale, Goto
  <2>2. /\ proc' \in [Procs -> ProcType] /\ proc'[p].pc = l /\ proc'[p].fire = proc[p].fire
        /\ \A q \in Procs : q # p => proc'[q] = proc[q]
    BY <2>1, Relabelled DEF Labels
  <2>3. UNCHANGED <<state, clock, history, faults>>
        /\ lock' \in [owner : Procs \cup {Nobody}, stale : BOOLEAN] /\ begun' \in 0..MaxDismissals
    <3>1. CASE CreateLock(p)
      BY <1>0, <1>1, <3>1 DEF CreateLock, Counted
    <3>2. CASE SeeStale(p)
      BY <1>0, <1>1, <3>2 DEF SeeStale, disk
    <3> QED
      BY <1>5, <3>1, <3>2
  <2> QED
    BY <1>1, <1>3, <2>1, <2>2, <2>3 DEF GateTyped, TypeOK, history
<1>6. ASSUME NEW p \in Procs, StealLock(p) \/ StealFails(p)
      PROVE  GateTyped'
  <2>1. proc' = [proc EXCEPT ![p].pc = "idle"] /\ proc[p].pc = "steal"
    BY <1>6 DEF StealLock, StealFails, Goto
  <2>2. /\ proc' \in [Procs -> ProcType] /\ proc'[p].pc = "idle" /\ proc'[p].fire = proc[p].fire
        /\ \A q \in Procs : q # p => proc'[q] = proc[q]
    BY <2>1, Relabelled DEF Labels
  <2>3. UNCHANGED <<state, clock, shown, refused, pruned, begun>> /\ faults' \in 0..MaxFaults
        /\ lock' \in [owner : Procs \cup {Nobody}, stale : BOOLEAN] /\ spoiled' \in BOOLEAN
    <3>1. CASE StealLock(p)
      BY <1>0, <1>1, <3>1 DEF StealLock, RemoveLock
    <3>2. CASE StealFails(p)
      BY <1>0, <1>1, <3>2 DEF StealFails, disk, history
    <3> QED
      BY <1>6, <3>1, <3>2
  <2> QED
    BY <1>1, <1>3, <2>1, <2>2, <2>3 DEF GateTyped, TypeOK
<1>7. ASSUME NEW p \in Procs, ReadState(p) \/ ReadFails(p)
      PROVE  GateTyped'
  <2>1. UNCHANGED <<disk, clock, shown, refused, pruned, begun>> /\ proc[p].pc = "read"
        /\ faults' \in 0..MaxFaults /\ spoiled' \in BOOLEAN
    <3>1. CASE ReadState(p)
      BY <1>0, <1>1, <3>1 DEF ReadState, history
    <3>2. CASE ReadFails(p)
      <4>1. UNCHANGED <<disk, clock, shown, refused, pruned, begun>>
            /\ proc[p].pc = "read" /\ faults < MaxFaults /\ faults' = faults + 1
        BY <3>2 DEF ReadFails
      <4>2. spoiled' = TRUE \/ spoiled' = spoiled
        BY <3>2, Zenon DEF ReadFails
      <4>3. spoiled' \in BOOLEAN
        BY <1>1, <4>2
      <4> QED
        BY <1>0, <1>1, <4>1, <4>3
    <3> QED
      BY <1>7, <3>1, <3>2
  <2>2. PICK m \in StateType : Decided(p, m) \/ proc' = [proc EXCEPT ![p].pc = "drop"]
    BY <1>1, <1>7, EmptyFacts DEF ReadState, ReadFails, Goto, TypeOK
  <2>3. CASE proc' = [proc EXCEPT ![p].pc = "drop"]
    <3>1. /\ proc' \in [Procs -> ProcType] /\ proc'[p].pc = "drop" /\ proc'[p].fire = proc[p].fire
          /\ \A q \in Procs : q # p => proc'[q] = proc[q]
      BY <2>3, Relabelled DEF Labels
    <3> QED
      BY <1>1, <1>3, <2>1, <3>1 DEF GateTyped, TypeOK, disk
  <2>4. CASE proc' # [proc EXCEPT ![p].pc = "drop"]
    <3>1. PICK ask \in Words, new \in StateType, lost \in SUBSET (Sessions \X Nudges) :
            /\ Proposed(p, m, ask, new, lost)
            /\ proc' = [proc EXCEPT ![p] = Writing(p, ask, new, lost)]
      BY <2>2, <2>4, DecidedFacts
    <3>2. PICK q \in ProcType : q = Writing(p, ask, new, lost)
      BY <1>0, WriterType
    <3>3. /\ proc' \in [Procs -> ProcType] /\ proc'[p] = q
          /\ \A r \in Procs : r # p => proc'[r] = proc[r]
      BY <3>1, <3>2, Replaced
    <3>4. /\ q.pc = "write" /\ q.mem = new /\ q.ask = ask /\ q.fire = (p \in Hooks)
          /\ Cardinality(Known(new)) <= MaxSessions
          /\ p \in Hooks => ask \in Sessions \X Nudges
          /\ p \in Dismissers => ask \in Keys
      BY <3>1, <3>2 DEF Proposed, Writing
    <3> QED
      BY <1>1, <1>3, <2>1, <3>3, <3>4 DEF TypeOK, disk
  <2> QED
    BY <2>3, <2>4
<1>8. ASSUME NEW p \in Procs, WriteState(p) \/ WriteFails(p)
      PROVE  GateTyped'
  <2>1. /\ proc' \in [Procs -> ProcType] /\ proc'[p].pc = "drop" /\ proc'[p].ask = proc[p].ask
        /\ proc'[p].fire = proc[p].fire /\ \A q \in Procs : q # p => proc'[q] = proc[q]
    BY <1>8, Wrote DEF WriteState, WriteFails
  <2>2. UNCHANGED <<lock, clock, shown, begun>> /\ proc[p].pc = "write"
        /\ state' \in {state, proc[p].mem}
    BY <1>8 DEF WriteState, WriteFails, disk
  <2>3. state' \in StateType /\ Cardinality(Known(state')) <= MaxSessions
    BY <1>1, <1>2, <2>2 DEF GateTyped, TypeOK
  <2>4. pruned' \subseteq Sessions \X Nudges
    <3>1. proc[p].lost \subseteq Sessions \X Nudges
      BY <1>1 DEF ProcType
    <3> QED
      BY <1>1, <1>8, <3>1 DEF WriteState, WriteFails, TypeOK
  <2>5. refused' \in [Keys -> Nat]
    <3>1. p \in Dismissers => proc[p].ask \in Keys
      BY <2>2 DEF GateTyped
    <3> QED
      BY <1>1, <1>8, <3>1 DEF WriteState, WriteFails
  <2>6. spoiled' \in BOOLEAN /\ faults' \in 0..MaxFaults
    BY <1>1, <1>2, <1>8 DEF WriteState, WriteFails, TypeOK
  <2> QED
    BY <1>1, <1>3, <2>1, <2>2, <2>3, <2>4, <2>5, <2>6 DEF GateTyped, TypeOK
<1>9. ASSUME NEW p \in Procs, DropLock(p) \/ DropFails(p) \/ Die(p)
      PROVE  GateTyped'
  <2>1. /\ proc' \in [Procs -> ProcType] /\ proc'[p] = NoProc
        /\ \A q \in Procs : q # p => proc'[q] = proc[q]
    BY <1>9, NoProcFacts, Replaced DEF DropLock, DropFails, Return, Die
  <2>2. UNCHANGED <<state, clock, refused, pruned, begun>> /\ spoiled' \in BOOLEAN
        /\ faults' \in 0..MaxFaults /\ lock' \in [owner : Procs \cup {Nobody}, stale : BOOLEAN]
    <3>1. CASE DropLock(p)
      BY <1>0, <1>1, <3>1 DEF DropLock, RemoveLock
    <3>2. CASE DropFails(p)
      BY <1>0, <1>1, <3>2 DEF DropFails, disk
    <3>3. CASE Die(p)
      BY <1>0, <1>1, <3>3 DEF Die, disk, history
    <3> QED
      BY <1>9, <3>1, <3>2, <3>3
  <2>3. shown' \in [Sessions \X Nudges -> 0..MaxClock]
    <3>1. proc[p].now \in 0..MaxClock /\ shown \in [Sessions \X Nudges -> 0..MaxClock]
      BY <1>1 DEF ProcType, TypeOK
    <3> QED
      BY <1>9, <3>1 DEF DropLock, DropFails, Return, Die, history
  <2> QED
    BY <1>1, <1>3, <2>1, <2>2, <2>3, NoProcFacts DEF TypeOK
<1> QED
  BY <1>4, <1>5, <1>6, <1>7, <1>8, <1>9 DEF Next, Step

(* Every variable has its type in every reachable state, and the state on  *)
(* disk never holds more than MAX_SESSIONS sessions, whoever writes it.    *)
THEOREM GateTypesHold == Spec => []TypeOK
<1>1. GateTyped => TypeOK
  BY DEF GateTyped
<1> QED
  BY GateTypedInit, GateTypedStep, <1>1, PTL DEF Spec
-----------------------------------------------------------------------------
(* Shown once, and muted for good.  Everything here holds until a lock     *)
(* file is taken from a process at work, a fire is not written, or a state *)
(* that could not be read is reset: until spoiled.                         *)

(* The lock file is that of the one process that holds the lock.           *)
Exclusive == \A p \in Procs : proc[p].pc \in {"read", "write", "drop"} => lock.owner = p

(* The cooldown of n that began at t runs, or is over.                     *)
Cooled(until, n, t) == until[n] >= t + Cooldown \/ clock >= t + Cooldown

(* The fire x of time t is on disk, or was pruned from it.                 *)
OnDisk(x, t) == x \in Recorded(state) \cup pruned /\ Cooled(state.until, x[2], t)

(* What p is about to write keeps what is on disk and adds its own fire or *)
(* dismissal.                                                              *)
Prepared(p) ==
    /\ Recorded(state) \subseteq Recorded(proc[p].mem) \cup proc[p].lost
    /\ p \in Hooks => /\ proc[p].ask \in Recorded(proc[p].mem) \cup proc[p].lost
                      /\ Cooled(proc[p].mem.until, proc[p].ask[2], proc[p].now)
    /\ \A n \in Nudges, t \in 0..MaxClock :
         Cooled(state.until, n, t) => Cooled(proc[p].mem.until, n, t)
    /\ \A k \in Keys :
         proc[p].mem.dismissed[k] >= IF p \in Dismissers /\ k = proc[p].ask THEN refused[k] + 1
                                     ELSE refused[k]

(* A fire under way is the first, or an excused one; once it is written it *)
(* is on disk; and nobody fires what was muted.                            *)
Proper(p) ==
    /\ ~proc[p].muted
    /\ proc[p].pc = "write" => Prepared(p)
    /\ proc[p].pc = "drop" /\ proc[p].fire => OnDisk(proc[p].ask, proc[p].now)
    /\ proc[p].fire /\ shown[proc[p].ask] # 0 => proc[p].excused

Files ==
    /\ \A k \in Keys : state.dismissed[k] >= refused[k]
    /\ \A x \in Sessions \X Nudges : shown[x] # 0 => OnDisk(x, shown[x])

Sound   == Exclusive /\ Files /\ \A p \in Procs : Proper(p)
GateInv == GateTyped /\ (spoiled \/ Sound)

LEMMA GateInvInit == Init => GateInv
<1> SUFFICES ASSUME Init PROVE GateTyped /\ Sound
  BY DEF GateInv
<1>1. \A p \in Procs : proc[p] = NoProc
  BY DEF Init
<1>2. Exclusive /\ \A p \in Procs : Proper(p)
  BY <1>1, NoProcFacts DEF Exclusive, Proper
<1>3. Files
  BY DEF Init, Files, Empty
<1> QED
  BY <1>2, <1>3, GateTypedInit DEF Sound

(* While one process holds the lock, the others only wait.                 *)
LEMMA OthersWait ==
    ASSUME GateTyped, Exclusive, NEW p \in Procs,
           \/ proc[p].pc \in {"read", "write", "drop"}
           \/ lock.owner \notin Procs
           \/ \A q \in Procs : q # p => lock.owner # q
    PROVE  \A q \in Procs : q # p => proc[q].pc \in {"idle", "steal"} /\ ~proc[q].fire
<1> SUFFICES ASSUME NEW q \in Procs, q # p
             PROVE  proc[q].pc \in {"idle", "steal"} /\ ~proc[q].fire
  OBVIOUS
<1>1. proc[q].pc \in Labels
  BY DEF GateTyped, ProcType
<1>2. proc[q].pc \in {"idle", "steal"}
  BY <1>1 DEF Exclusive, Labels
<1> QED
  BY <1>2 DEF GateTyped

(* A process moves while the others wait.                                  *)
LEMMA SoundMove ==
    ASSUME GateTyped, Sound, NEW p \in Procs,
           \A q \in Procs : q # p => /\ proc[q].pc \in {"idle", "steal"} /\ ~proc[q].fire
                                     /\ proc'[q] = proc[q],
           proc'[p].pc \in {"read", "write", "drop"} => lock'.owner = p,
           Files', Proper(p)'
    PROVE  Sound'
<1>1. Exclusive'
  BY DEF Exclusive
<1>2. \A q \in Procs : q # p => Proper(q)'
  BY DEF Sound, Proper
<1> QED
  BY <1>1, <1>2 DEF Sound

(* The files do not change.                                                *)
LEMMA FilesStay ==
    Files /\ UNCHANGED <<state, clock, shown, refused, pruned>> => Files'
BY DEF Files, OnDisk, Cooled, Recorded

LEMMA NotAtWork ==
    ASSUME NEW p \in Procs, proc'[p].pc \in {"idle", "steal", "read"}, ~proc'[p].fire,
           ~proc'[p].muted
    PROVE  Proper(p)'
BY DEF Proper
(* Reading decides.                                                        *)
LEMMA SoundRead ==
    ASSUME GateTyped, Sound, NEW p \in Procs, ReadState(p) PROVE Sound'
<1>1. /\ proc[p].pc = "read" /\ Decided(p, state) /\ lock.owner = p /\ ~proc[p].fire
      /\ ~proc[p].muted
      /\ UNCHANGED <<state, lock, clock, shown, refused, pruned, spoiled>>
  BY DEF ReadState, Sound, Exclusive, GateTyped, Proper, disk, history
<1>2. /\ state \in StateType /\ refused \in [Keys -> Nat] /\ clock \in Nat \ {0}
      /\ Threshold \in Nat /\ shown \in [Sessions \X Nudges -> 0..MaxClock]
  BY GateAssumption, Parameters DEF GateTyped, TypeOK
<1>3. \A q \in Procs : q # p => proc[q].pc \in {"idle", "steal"} /\ ~proc[q].fire
  BY <1>1, OthersWait DEF Sound
<1>4. Files'
  BY <1>1, FilesStay DEF Sound
<1>5. CASE proc' = [proc EXCEPT ![p].pc = "drop"]
  <2>1. /\ proc'[p].pc = "drop" /\ proc'[p].fire = proc[p].fire /\ proc'[p].muted = proc[p].muted
        /\ \A q \in Procs : q # p => proc'[q] = proc[q]
    BY <1>5, Relabelled DEF Labels
  <2>2. Proper(p)'
    BY <1>1, <2>1 DEF Proper
  <2> QED
    BY <1>1, <1>3, <1>4, <2>1, <2>2, SoundMove
<1>6. CASE proc' # [proc EXCEPT ![p].pc = "drop"]
  <2>1. PICK m \in StateType : m = state
    BY <1>2
  <2>2. PICK ask \in Words, new \in StateType, lost \in SUBSET (Sessions \X Nudges) :
          /\ Proposed(p, m, ask, new, lost)
          /\ proc' = [proc EXCEPT ![p] = Writing(p, ask, new, lost)]
    BY <1>1, <1>6, <2>1, DecidedFacts
  <2>3. /\ proc'[p].pc = "write" /\ proc'[p].ask = ask /\ proc'[p].mem = new
        /\ proc'[p].fire = (p \in Hooks) /\ proc'[p].now = clock /\ proc'[p].lost = lost
        /\ proc'[p].muted = (p \in Hooks /\ Muted(refused, ask[2]))
        /\ proc'[p].excused = (p \in Hooks /\ Excused(ask))
        /\ \A q \in Procs : q # p => proc'[q] = proc[q]
    BY <2>2 DEF GateTyped, Writing
  <2>4. Files
    BY DEF Sound
  <2>5. ASSUME p \in Hooks
        PROVE  /\ ask[1] \in Sessions /\ ask[2] \in Nudges /\ ask[2] \in Keys
               /\ ask[2] \notin state.fired[ask[1]] /\ state.until[ask[2]] <= clock
               /\ ~Muted(state.dismissed, ask[2])
    BY <2>1, <2>2, <2>5, Parameters DEF Proposed, ShouldSurface
  <2>6. ~proc'[p].muted
    <3> SUFFICES ASSUME p \in Hooks, Muted(refused, ask[2]) PROVE FALSE
      BY <2>3
    <3>1. Kind \in Keys /\ ask[2] \in Keys
      BY <2>5 DEF Keys
    <3>2. \A k \in Keys : state.dismissed[k] >= refused[k] /\ state.dismissed[k] \in Nat
                          /\ refused[k] \in Nat
      BY <1>2, <2>4 DEF Files, StateType
    <3> QED
      BY <1>2, <2>5, <3>1, <3>2 DEF Muted
  <2>7. ASSUME p \in Hooks, shown[ask] # 0 PROVE Excused(ask)
    <3>1. ask \in Sessions \X Nudges /\ ask \notin Recorded(state)
      BY <2>2, <2>5, <2>7 DEF Proposed, Recorded
    <3>2. OnDisk(ask, shown[ask]) /\ shown[ask] \in Nat
      BY <1>2, <2>4, <2>7, <3>1, Parameters DEF Files
    <3>3. state.until[ask[2]] \in Int /\ state.until[ask[2]] <= clock
      BY <1>2, <2>5, <2>7, Parameters DEF StateType
    <3>4. Cooled(state.until, ask[2], shown[ask]) => clock >= shown[ask] + Cooldown
      BY <1>2, <3>2, <3>3, Parameters DEF Cooled
    <3> QED
      BY <3>1, <3>2, <3>4 DEF OnDisk, Excused
  <2>8. p \in Hooks => Cooled(new.until, ask[2], clock)
    BY <1>2, <2>2, Parameters DEF Proposed, Cooled
  <2>9. ASSUME NEW n \in Nudges, NEW t \in 0..MaxClock, Cooled(state.until, n, t)
        PROVE  Cooled(new.until, n, t)
    <3>1. state.until[n] \in Int /\ t \in Int /\ Cooldown \in Int /\ clock \in Int
      BY <1>2, Parameters DEF StateType
    <3>2. state.until[n] > clock => new.until[n] = state.until[n]
      BY <2>1, <2>2 DEF Proposed
    <3> QED
      BY <2>9, <3>1, <3>2 DEF Cooled
  <2>11. \A k \in Keys : new.dismissed[k] >= IF p \in Dismissers /\ k = ask THEN refused[k] + 1
                                             ELSE refused[k]
    <3>1. \A k \in Keys : state.dismissed[k] >= refused[k] /\ state.dismissed[k] \in Nat
                          /\ refused[k] \in Nat
      BY <1>2, <2>4 DEF Files, StateType
    <3>2. CASE p \in Dismissers
      BY <2>1, <2>2, <3>1, <3>2 DEF Proposed
    <3>3. CASE p \in Hooks
      BY <2>1, <2>2, <3>1, <3>3, Parameters DEF Proposed
    <3> QED
      BY <3>2, <3>3 DEF Procs
  <2>12. Prepared(p)'
    <3>1. Recorded(state) \subseteq Recorded(new) \cup lost
          /\ (p \in Hooks => ask \in Recorded(new) \cup lost)
      BY <2>1, <2>2 DEF Proposed
    <3> QED
      BY <1>1, <2>3, <2>8, <2>9, <2>11, <3>1 DEF Prepared, Cooled, Recorded
  <2>13. Proper(p)'
    BY <1>1, <2>3, <2>6, <2>7, <2>12 DEF Proper
  <2> QED
    BY <1>1, <1>3, <1>4, <2>3, <2>13, SoundMove
<1> QED
  BY <1>5, <1>6

(* Writing puts on disk what was prepared.                                 *)
LEMMA SoundWrite ==
    ASSUME GateTyped, Sound, NEW p \in Procs, WriteState(p) PROVE Sound'
<1>1. /\ proc[p].pc = "write" /\ lock.owner = p /\ state' = proc[p].mem /\ Written(p)
      /\ UNCHANGED <<lock, clock, shown, spoiled>>
  BY DEF WriteState, Sound, Exclusive
<1>2. /\ pruned' = (pruned \cup proc[p].lost) \ Recorded(proc[p].mem)
      /\ refused' = IF p \in Dismissers THEN [refused EXCEPT ![proc[p].ask] = @ + 1] ELSE refused
  BY DEF WriteState
<1>3. Prepared(p) /\ Files /\ ~proc[p].muted
      /\ (proc[p].fire /\ shown[proc[p].ask] # 0 => proc[p].excused)
  BY <1>1 DEF Sound, Proper
<1>4. /\ proc'[p].pc = "drop" /\ proc'[p].ask = proc[p].ask /\ proc'[p].fire = proc[p].fire
      /\ proc'[p].muted = proc[p].muted /\ proc'[p].now = proc[p].now
      /\ proc'[p].excused = proc[p].excused /\ \A q \in Procs : q # p => proc'[q] = proc[q]
  BY <1>1, Wrote
<1>5. \A q \in Procs : q # p => proc[q].pc \in {"idle", "steal"} /\ ~proc[q].fire
  BY <1>1, OthersWait DEF Sound
<1>6. /\ state \in StateType /\ refused \in [Keys -> Nat] /\ shown \in [Sessions \X Nudges -> 0..MaxClock]
      /\ proc[p].now \in 0..MaxClock
      /\ proc[p].fire => p \in Hooks /\ proc[p].ask \in Sessions \X Nudges
  BY DEF GateTyped, TypeOK, ProcType
<1>7. ASSUME NEW x \in Sessions \X Nudges, NEW t \in 0..MaxClock,
             OnDisk(x, t) \/ (p \in Hooks /\ x = proc[p].ask /\ t = proc[p].now)
      PROVE  OnDisk(x, t)'
  <2>1. x[2] \in Nudges
    OBVIOUS
  <2>2. Cooled(proc[p].mem.until, x[2], t)
    BY <1>3, <1>7, <2>1 DEF OnDisk, Prepared
  <2>3. x \in Recorded(proc[p].mem) \cup proc[p].lost \cup pruned
    BY <1>3, <1>7 DEF OnDisk, Prepared
  <2>4. x \in Recorded(state)' \cup pruned'
    BY <1>1, <1>2, <2>3 DEF Recorded
  <2>5. Cooled(state.until, x[2], t)'
    BY <1>1, <2>2 DEF Cooled
  <2> QED
    BY <2>4, <2>5 DEF OnDisk
<1>8. Files'
  <2>1. \A k \in Keys : state'.dismissed[k] >= refused'[k]
    BY <1>1, <1>2, <1>3, <1>6 DEF Prepared
  <2>2. ASSUME NEW x \in Sessions \X Nudges, shown'[x] # 0 PROVE OnDisk(x, shown[x])'
    <3>1. PICK t \in 0..MaxClock : t = shown[x]
      BY <1>6
    <3>2. OnDisk(x, t)'
      BY <1>1, <1>3, <1>7, <2>2, <3>1 DEF Files
    <3> QED
      BY <1>1, <3>1, <3>2 DEF OnDisk, Cooled
  <2> QED
    BY <2>1, <2>2 DEF Files
<1>9. Proper(p)'
  <2>1. proc'[p].fire => OnDisk(proc[p].ask, proc[p].now)'
    <3> SUFFICES ASSUME proc[p].fire PROVE OnDisk(proc[p].ask, proc[p].now)'
      BY <1>4
    <3>1. PICK x \in Sessions \X Nudges, t \in 0..MaxClock : x = proc[p].ask /\ t = proc[p].now
      BY <1>6
    <3>2. OnDisk(x, t)' /\ proc'[p].ask = x /\ proc'[p].now = t
      BY <1>4, <1>6, <1>7, <3>1
    <3> QED
      BY <3>2 DEF OnDisk, Cooled
  <2>2. proc'[p].fire /\ shown'[proc'[p].ask] # 0 => proc'[p].excused
    BY <1>1, <1>3, <1>4
  <2> QED
    BY <1>3, <1>4, <2>1, <2>2 DEF Proper
<1> QED
  BY <1>1, <1>4, <1>5, <1>8, <1>9, SoundMove

(* Dropping the lock shows the nudge.                                      *)
LEMMA SoundDrop ==
    ASSUME GateTyped, Sound, NEW p \in Procs, DropLock(p) \/ DropFails(p) PROVE Sound'
<1>1. /\ proc[p].pc = "drop" /\ lock.owner = p
      /\ shown' = IF proc[p].fire THEN [shown EXCEPT ![proc[p].ask] = proc[p].now] ELSE shown
      /\ UNCHANGED <<state, clock, refused, pruned>>
  BY DEF DropLock, DropFails, Return, RemoveLock, Sound, Exclusive, disk
<1>2. proc'[p] = NoProc /\ \A q \in Procs : q # p => proc'[q] = proc[q]
  BY NoProcFacts, Replaced DEF DropLock, DropFails, Return
<1>3. \A q \in Procs : q # p => proc[q].pc \in {"idle", "steal"} /\ ~proc[q].fire
  BY <1>1, OthersWait DEF Sound
<1>4. Files /\ Proper(p) /\ shown \in [Sessions \X Nudges -> 0..MaxClock]
      /\ (proc[p].fire => proc[p].ask \in Sessions \X Nudges)
  BY DEF Sound, GateTyped, TypeOK
<1>5. Files'
  <2>1. \A k \in Keys : state'.dismissed[k] >= refused'[k]
    BY <1>1, <1>4 DEF Files
  <2>2. ASSUME NEW x \in Sessions \X Nudges, shown'[x] # 0 PROVE OnDisk(x, shown[x])'
    <3>1. CASE proc[p].fire /\ x = proc[p].ask
      <4>1. shown'[x] = proc[p].now /\ OnDisk(x, proc[p].now)
        BY <1>1, <1>4, <3>1 DEF Proper
      <4> QED
        BY <1>1, <4>1 DEF OnDisk, Cooled, Recorded
    <3>2. CASE ~(proc[p].fire /\ x = proc[p].ask)
      <4>1. shown'[x] = shown[x] /\ OnDisk(x, shown[x])
        BY <1>1, <1>4, <2>2, <3>2 DEF Files
      <4> QED
        BY <1>1, <4>1 DEF OnDisk, Cooled, Recorded
    <3> QED
      BY <3>1, <3>2
  <2> QED
    BY <2>1, <2>2 DEF Files
<1>6. Proper(p)'
  BY <1>2, NoProcFacts, NotAtWork
<1> QED
  BY <1>2, <1>3, <1>5, <1>6, NoProcFacts, SoundMove

LEMMA GateInvStep == GateInv /\ [Next]_vars => GateInv'
<1> SUFFICES ASSUME GateInv, [Next]_vars PROVE GateInv'
  OBVIOUS
<1>1. GateTyped /\ GateTyped'
  BY GateTypedStep DEF GateInv
<1>2. spoiled => spoiled'
  <2>1. ASSUME NEW p \in Procs, ReadFails(p), spoiled PROVE spoiled'
    BY <2>1, Zenon DEF ReadFails
  <2> QED
    BY <2>1 DEF Next, Step, Tick, LockAges, CreateLock, SeeStale, StealLock, StealFails,
                RemoveLock, ReadState, WriteState, WriteFails, DropLock, DropFails, Die, vars, history
<1> SUFFICES ASSUME Sound, ~spoiled, ~spoiled' PROVE Sound'
  BY <1>1, <1>2 DEF GateInv
<1>3. /\ Exclusive /\ Files /\ \A p \in Procs : Proper(p)
      /\ lock \in [owner : Procs \cup {Nobody}, stale : BOOLEAN] /\ clock \in Nat \ {0}
      /\ proc \in [Procs -> ProcType]
  BY <1>1 DEF Sound, GateTyped, TypeOK
<1>4. CASE Tick
  <2>1. /\ clock' = clock + 1 /\ clock \in Nat /\ Cooldown \in Nat /\ MaxClock \in Nat
        /\ UNCHANGED <<state, lock, proc, shown, refused, pruned>>
    BY <1>3, <1>4, Parameters DEF Tick, disk, history
  <2>2. ASSUME NEW until, NEW n, NEW t \in 0..MaxClock
        PROVE  /\ Cooled(until, n, t) => Cooled(until, n, t)'
               /\ Cooled(until, n, t)' => Cooled(until, n, t) \/ clock' >= t + Cooldown
    BY <2>1 DEF Cooled
  <2>3. ASSUME NEW x, NEW t \in 0..MaxClock, OnDisk(x, t) PROVE OnDisk(x, t)'
    BY <2>1, <2>2, <2>3 DEF OnDisk, Cooled, Recorded
  <2>4. Exclusive' /\ Files'
    <3>1. \A x \in Sessions \X Nudges : shown[x] \in 0..MaxClock
      BY <1>1 DEF GateTyped, TypeOK
    <3> QED
      BY <1>3, <2>1, <2>3, <3>1 DEF Exclusive, Files
  <2>5. ASSUME NEW p \in Procs PROVE Proper(p)'
    <3>1. Proper(p) /\ proc[p].now \in 0..MaxClock
      BY <1>3 DEF ProcType
    <3>2. Prepared(p) => Prepared(p)'
      <4>1. ASSUME Prepared(p), NEW n \in Nudges, NEW t \in 0..MaxClock,
                   Cooled(state.until, n, t)'
            PROVE  Cooled(proc[p].mem.until, n, t)'
        BY <2>1, <2>2, <4>1 DEF Prepared, Cooled
      <4> QED
        BY <2>1, <2>2, <3>1, <4>1 DEF Prepared, Recorded, Cooled
    <3> QED
      BY <2>1, <2>3, <3>1, <3>2 DEF Proper
  <2> QED
    BY <2>4, <2>5 DEF Sound
<1>5. CASE LockAges \/ UNCHANGED vars
  <2>1. lock'.owner = lock.owner
    <3>1. lock' = [lock EXCEPT !.stale = TRUE] \/ lock' = lock
      BY <1>5, Zenon DEF LockAges, vars, disk
    <3> QED
      BY <1>3, <3>1
  <2>2. UNCHANGED <<state, clock, proc, shown, refused, pruned>>
    BY <1>5 DEF LockAges, vars, disk, history
  <2>3. Exclusive' /\ Files'
    BY <1>3, <2>1, <2>2, FilesStay DEF Exclusive
  <2>4. ASSUME NEW p \in Procs PROVE Proper(p)'
    <3>1. Proper(p)
      BY <1>3
    <3> QED
      BY <2>2, <3>1 DEF Proper, Prepared, OnDisk, Cooled, Recorded
  <2> QED
    BY <2>3, <2>4 DEF Sound
<1>6. ASSUME NEW p \in Procs, CreateLock(p)
      PROVE  Sound'
  <2>1. /\ proc[p].pc = "idle" /\ lock.owner \notin Procs /\ lock'.owner = p
        /\ proc' = [proc EXCEPT ![p].pc = "read"]
        /\ UNCHANGED <<state, clock, shown, refused, pruned>>
    BY <1>6, Parameters DEF CreateLock, Goto, NoLock, history
  <2>2. /\ proc'[p].pc = "read" /\ proc'[p].fire = proc[p].fire /\ proc'[p].muted = proc[p].muted
        /\ \A q \in Procs : q # p => proc'[q] = proc[q]
    BY <1>1, <2>1, Relabelled DEF Labels
  <2>3. \A q \in Procs : q # p => proc[q].pc \in {"idle", "steal"} /\ ~proc[q].fire
    BY <1>1, <1>3, <2>1, OthersWait
  <2>4. Files' /\ Proper(p)'
    BY <1>1, <1>3, <2>1, <2>2, FilesStay, NotAtWork DEF GateTyped, Proper
  <2> QED
    BY <1>1, <2>1, <2>2, <2>3, <2>4, SoundMove
<1>7. ASSUME NEW p \in Procs, SeeStale(p) \/ StealFails(p)
      PROVE  Sound'
  <2>1. PICK l \in {"idle", "steal"} :
           /\ proc[p].pc \in {"idle", "steal"} /\ proc' = [proc EXCEPT ![p].pc = l]
           /\ UNCHANGED <<state, lock, clock, shown, refused, pruned>>
    BY <1>7 DEF SeeStale, StealFails, Goto, disk, history
  <2>2. /\ proc'[p].pc = l /\ proc'[p].fire = proc[p].fire /\ proc'[p].muted = proc[p].muted
        /\ \A q \in Procs : q # p => proc'[q] = proc[q]
    BY <1>1, <2>1, Relabelled DEF Labels
  <2>3. Exclusive' /\ Files' /\ Proper(p)'
    BY <1>1, <1>3, <2>1, <2>2, FilesStay, NotAtWork DEF GateTyped, Proper, Exclusive
  <2>4. ASSUME NEW q \in Procs, q # p PROVE Proper(q)'
    <3>1. Proper(q)
      BY <1>3
    <3>2. proc'[q] = proc[q]
      BY <2>2, <2>4
    <3> QED
      BY <2>1, <3>1, <3>2 DEF Proper, Prepared, OnDisk, Cooled, Recorded
  <2> QED
    BY <2>3, <2>4 DEF Sound
<1>8. ASSUME NEW p \in Procs, StealLock(p)
      PROVE  Sound'
  <2>1. /\ proc[p].pc = "steal" /\ proc' = [proc EXCEPT ![p].pc = "idle"]
        /\ ~(lock.owner # p /\ lock.owner \in Holding)
        /\ UNCHANGED <<state, clock, shown, refused, pruned>>
    BY <1>8 DEF StealLock, RemoveLock, Goto
  <2>2. /\ proc'[p].pc = "idle" /\ proc'[p].fire = proc[p].fire /\ proc'[p].muted = proc[p].muted
        /\ \A q \in Procs : q # p => proc'[q] = proc[q]
    BY <1>1, <2>1, Relabelled DEF Labels
  <2>3. ASSUME NEW q \in Procs, q # p
        PROVE  proc[q].pc \in {"idle", "steal"} /\ ~proc[q].fire
    <3>1. proc[q].pc \notin {"read", "write", "drop"}
      BY <1>3, <2>1, <2>3 DEF Exclusive, Holding
    <3>2. proc[q].pc \in Labels
      BY <1>3 DEF ProcType
    <3> QED
      BY <1>1, <3>1, <3>2 DEF Labels, GateTyped
  <2>4. Files' /\ Proper(p)'
    BY <1>1, <1>3, <2>1, <2>2, FilesStay, NotAtWork DEF GateTyped, Proper
  <2> QED
    BY <1>1, <2>2, <2>3, <2>4, SoundMove
<1>9. ASSUME NEW p \in Procs, ReadFails(p)
      PROVE  Sound'
  <2>1. /\ proc[p].pc = "read" /\ lock.owner = p
        /\ UNCHANGED <<state, lock, clock, shown, refused, pruned>>
    BY <1>3, <1>9 DEF ReadFails, Exclusive, disk
  <2>2. proc' = [proc EXCEPT ![p].pc = "drop"]
    BY <1>9, Zenon DEF ReadFails, Goto
  <2>3. /\ proc'[p].pc = "drop" /\ proc'[p].fire = proc[p].fire /\ proc'[p].muted = proc[p].muted
        /\ \A q \in Procs : q # p => proc'[q] = proc[q]
    BY <1>1, <2>2, Relabelled DEF Labels
  <2>4. \A q \in Procs : q # p => proc[q].pc \in {"idle", "steal"} /\ ~proc[q].fire
    BY <1>1, <1>3, <2>1, OthersWait
  <2>5. Files' /\ Proper(p)'
    BY <1>1, <1>3, <2>1, <2>3, FilesStay DEF GateTyped, Proper
  <2> QED
    BY <1>1, <2>1, <2>3, <2>4, <2>5, SoundMove
<1>10. ASSUME NEW p \in Procs, WriteFails(p)
       PROVE  Sound'
  <2>1. /\ proc[p].pc = "write" /\ lock.owner = p /\ ~proc[p].fire /\ Written(p)
        /\ UNCHANGED <<state, lock, clock, shown, refused, pruned>>
    BY <1>3, <1>10 DEF WriteFails, Exclusive, disk
  <2>2. /\ proc'[p].pc = "drop" /\ proc'[p].fire = proc[p].fire /\ proc'[p].muted = proc[p].muted
        /\ \A q \in Procs : q # p => proc'[q] = proc[q]
    BY <1>1, <2>1, Wrote
  <2>3. \A q \in Procs : q # p => proc[q].pc \in {"idle", "steal"} /\ ~proc[q].fire
    BY <1>1, <1>3, <2>1, OthersWait
  <2>4. Files' /\ Proper(p)'
    BY <1>3, <2>1, <2>2, FilesStay DEF Proper
  <2> QED
    BY <1>1, <2>1, <2>2, <2>3, <2>4, SoundMove
<1>11. ASSUME NEW p \in Procs, Die(p)
       PROVE  Sound'
  <2>1. /\ proc[p].pc \in {"read", "write", "drop"} /\ proc' = [proc EXCEPT ![p] = NoProc]
        /\ UNCHANGED <<state, clock, shown, refused, pruned>>
    BY <1>11 DEF Die, Holding, disk, history
  <2>2. proc'[p] = NoProc /\ \A q \in Procs : q # p => proc'[q] = proc[q]
    BY <1>1, <2>1, NoProcFacts, Replaced
  <2>3. \A q \in Procs : q # p => proc[q].pc \in {"idle", "steal"} /\ ~proc[q].fire
    BY <1>1, <1>3, <2>1, OthersWait
  <2>4. Files' /\ Proper(p)'
    BY <1>3, <2>1, <2>2, NoProcFacts, FilesStay, NotAtWork
  <2> QED
    BY <1>1, <2>2, <2>3, <2>4, NoProcFacts, SoundMove
<1> QED
  BY <1>1, <1>4, <1>5, <1>6, <1>7, <1>8, <1>9, <1>10, <1>11, SoundRead, SoundWrite, SoundDrop
     DEF Next, Step

LEMMA GateInvHolds == Spec => []GateInv
BY GateInvInit, GateInvStep, PTL DEF Spec

(* A nudge is never shown twice in a session, by however many hooks at the *)
(* same time and after kills anywhere - unless the lock file was taken     *)
(* from a process at work, the fire could not be written, or its record    *)
(* was pruned with its session, and the cooldown that began when it was    *)
(* shown last was over as well.                                            *)
THEOREM ShownOnce == Spec => []NeverTwice
<1>1. GateInv => NeverTwice
  BY DEF GateInv, Sound, Proper, NeverTwice, Procs
<1> QED
  BY <1>1, GateInvHolds, PTL

(* Once enough dismissals are on disk, no hook that reads the state later  *)
(* shows the nudge: neither the write of a fire nor that of another        *)
(* dismissal, each from a state read before, loses one of them.            *)
THEOREM MutedForGood == Spec => []StaysMuted
<1>1. GateInv => StaysMuted
  BY DEF GateInv, Sound, Proper, StaysMuted, Procs
<1> QED
  BY <1>1, GateInvHolds, PTL
=============================================================================
