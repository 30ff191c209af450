-------------------------- MODULE MartRefreshProofs --------------------------
(***************************************************************************)
(* Proofs about MartRefresh, for any number of workers, marts, messages    *)
(* and jobs.  With no forced backfill beside them: a watermark never runs  *)
(* ahead of its mart, and MartView is implemented (NeverForced); no event  *)
(* is left behind when all is quiet, and a backfill recovers (SoleForcer). *)
(* With one worker, every mart is exact.  Without a hypothesis: the types, *)
(* recomputed marts count once, and watermarks grow.                       *)
(***************************************************************************)
EXTENDS MartRefresh, FiniteSetTheorems, TLAPS

PhaseNames == {"commit", "refresh", "recent", "pass", "drop", "unmark", "rebuild"}

(* Every phase of every job is named, and begins at one of its statements. *)
LEMMA PhaseFacts ==
    ASSUME NEW j \in JobKinds
    PROVE  /\ NumPhases(j) \in 1..5
           /\ \A i \in 1..NumPhases(j) : Phases[j][i] \in PhaseNames
<1>1. CASE j = "ingest"   BY <1>1 DEF JobKinds, Phases, NumPhases, PhaseNames
<1>2. CASE j = "cycle"    BY <1>2 DEF JobKinds, Phases, NumPhases, PhaseNames
<1>3. CASE j = "touch"    BY <1>3 DEF JobKinds, Phases, NumPhases, PhaseNames
<1>4. CASE j = "backfill" BY <1>4 DEF JobKinds, Phases, NumPhases, PhaseNames
<1>5. CASE j = "force"    BY <1>5 DEF JobKinds, Phases, NumPhases, PhaseNames
<1>6. QED BY <1>1, <1>2, <1>3, <1>4, <1>5 DEF JobKinds

LEMMA EntryFacts ==
    ASSUME NEW p \in PhaseNames
    PROVE  /\ Entry[p] \in PhaseStatements[p]
           /\ PhaseStatements[p] \subseteq Statements
           /\ Entry[p] \notin {"max", "apply", "rows", "set", "idle"}
BY DEF PhaseNames, Entry, PhaseStatements, Statements

(* Inserting S in id order hands out ids above top and up to the new top.  *)
LEMMA RankFacts ==
    ASSUME NEW S, S \subseteq Messages, MaxMessages \in Nat, NEW x \in S
    PROVE  /\ IsFiniteSet(S)
           /\ Rank(S, x) \in 1..Cardinality(S)
<1>1. IsFiniteSet(Messages)
  BY FS_Interval DEF Messages
<1>2. IsFiniteSet(S)
  BY <1>1, FS_Subset
<1> DEFINE R == {y \in S : y <= x}
<1>3. R \subseteq S /\ x \in R
  BY DEF Messages
<1>4. IsFiniteSet(R) /\ Cardinality(R) <= Cardinality(S)
  BY <1>2, <1>3, FS_Subset
<1>5. Cardinality(R) \in Nat /\ Cardinality(S) \in Nat
  BY <1>2, <1>4, FS_CardinalityType
<1>6. Cardinality(R) # 0
  BY <1>3, <1>4, FS_EmptySet
<1>7. QED
  BY <1>2, <1>4, <1>5, <1>6 DEF Rank

LEMMA InsertFacts ==
    ASSUME NEW S, S \subseteq Messages, MaxMessages \in Nat,
           event \in [Messages -> Nat], top \in Nat,
           InsertEvents(S)
    PROVE  /\ event' \in [Messages -> Nat]
           /\ top' \in Nat
           /\ top <= top'
           /\ \A x \in Messages : HasEvent(x) => event'[x] = event[x]
           /\ \A x \in Messages : ~HasEvent(x) /\ event'[x] # 0 =>
                                     event'[x] > top /\ event'[x] <= top'
<1> DEFINE N == Missing(S)
<1>1. N \subseteq Messages
  BY DEF Missing
<1>2. \A x \in N : Rank(N, x) \in 1..Cardinality(N)
  BY <1>1, RankFacts
<1>3. IsFiniteSet(N)
  BY <1>1, FS_Interval, FS_Subset DEF Messages
<1>4. Cardinality(N) \in Nat
  BY <1>3, FS_CardinalityType
<1>5. /\ event' = [x \in Messages |-> IF x \in N THEN top + Rank(N, x) ELSE event[x]]
      /\ top' = top + Cardinality(N)
  BY DEF InsertEvents
<1>6. \A x \in N : ~HasEvent(x)
  BY DEF Missing
<1> HIDE DEF N
<1>7. \A x \in Messages : x \in N =>
         /\ event'[x] = top + Rank(N, x)
         /\ Rank(N, x) \in 1..Cardinality(N)
  BY <1>2, <1>5
<1>8. \A x \in Messages : x \notin N => event'[x] = event[x]
  BY <1>5
<1>9. DOMAIN event' = Messages /\ event' = [x \in Messages |-> event'[x]]
  BY <1>5
<1>10. \A x \in Messages : event'[x] \in Nat
  BY <1>4, <1>7, <1>8
<1>11. event' \in [Messages -> Nat]
  BY <1>9, <1>10
<1>12. QED
  BY <1>4, <1>5, <1>6, <1>7, <1>8, <1>11 DEF HasEvent

-----------------------------------------------------------------------------
(* Moving a worker keeps the locals of every worker well-typed and leaves  *)
(* the other workers alone.                                                *)

LocalsType ==
    /\ job \in [Workers -> JobKinds \cup {"none"}]
    /\ phase \in [Workers -> 0..5]
    /\ pc \in [Workers -> Statements]
    /\ mart \in [Workers -> Marts]
    /\ old \in [Workers -> Nat]
    /\ new \in [Workers -> Nat]
    /\ pend \in [Workers -> SUBSET Messages]
    /\ sound \in BOOLEAN

StoreType ==
    /\ messages \in 0..MaxMessages
    /\ event \in [Messages -> Nat]
    /\ top \in Nat
    /\ wm \in [Marts -> Nat]
    /\ counted \in [Marts -> [Messages -> Nat]]

Same(v) ==
    /\ job'[v] = job[v] /\ phase'[v] = phase[v] /\ pc'[v] = pc[v]
    /\ mart'[v] = mart[v] /\ old'[v] = old[v] /\ new'[v] = new[v]
    /\ pend'[v] = pend[v]

Others(w) == \A v \in Workers \ {w} : Same(v)

Working(w) ==
    /\ job[w] \in JobKinds
    /\ phase[w] \in 1..NumPhases(job[w])
    /\ pc[w] \in PhaseStatements[PhaseOf(w)]

AtEntry(w) == pc'[w] \notin {"max", "apply", "rows", "set"}

TypeInv == TypeOK /\ \A w \in Workers : ControlOK(w)

LEMMA BusyIsWorking ==
    ASSUME TypeInv, NEW w \in Workers, pc[w] # "idle"
    PROVE  Working(w) /\ PhaseOf(w) \in PhaseNames
<1>1. job[w] \in JobKinds
  BY DEF TypeInv, TypeOK, ControlOK
<1>2. job[w] # "none"
  BY <1>1 DEF JobKinds
<1>3. Working(w)
  BY <1>1, <1>2 DEF TypeInv, ControlOK, Working
<1>4. QED
  BY <1>3, <1>1, PhaseFacts DEF Working, PhaseOf

LEMMA NextPhaseFacts ==
    ASSUME LocalsType, CountsAssumption, NEW w \in Workers, Working(w), NextPhase(w)
    PROVE  LocalsType' /\ ControlOK(w)' /\ Others(w) /\ AtEntry(w)
<1>0. 1 \in Marts
  BY DEF CountsAssumption, Marts
<1>1. /\ mart' \in [Workers -> Marts]
      /\ old' \in [Workers -> Nat]
      /\ new' \in [Workers -> Nat]
      /\ pend' \in [Workers -> SUBSET Messages]
      /\ \A v \in Workers \ {w} : /\ mart'[v] = mart[v] /\ old'[v] = old[v]
                                  /\ new'[v] = new[v] /\ pend'[v] = pend[v]
  BY <1>0 DEF NextPhase, Fresh, LocalsType
<1>2. job[w] # "none"
  BY DEF Working, JobKinds
<1>3. CASE phase[w] < NumPhases(job[w])
  <2> DEFINE k == phase[w] + 1
             p == Phases[job[w]][k]
  <2>1. NumPhases(job[w]) \in 1..5 /\ k \in 1..NumPhases(job[w])
    BY <1>3, PhaseFacts DEF Working
  <2>2. p \in PhaseNames
    BY <2>1, PhaseFacts DEF Working
  <2>3. /\ Entry[p] \in PhaseStatements[p]
        /\ Entry[p] \in Statements
        /\ Entry[p] \notin {"max", "apply", "rows", "set", "idle"}
    BY <2>2, EntryFacts
  <2>4. /\ phase' = [phase EXCEPT ![w] = k]
        /\ pc' = [pc EXCEPT ![w] = Entry[p]]
        /\ job' = job /\ sound' = sound
    BY <1>3, <2>1 DEF NextPhase, Goto, Working
  <2>5. phase'[w] = k /\ pc'[w] = Entry[p] /\ job'[w] = job[w]
    BY <2>4 DEF LocalsType
  <2>6. PhaseOf(w)' = p
    BY <2>5 DEF PhaseOf
  <2>7. NumPhases(job[w])' = NumPhases(job[w])
    BY <2>5 DEF NumPhases
  <2>8. ControlOK(w)'
    BY <1>2, <2>1, <2>3, <2>5, <2>6, <2>7 DEF ControlOK
  <2>9. /\ phase' \in [Workers -> 0..5] /\ pc' \in [Workers -> Statements]
        /\ \A v \in Workers \ {w} : phase'[v] = phase[v] /\ pc'[v] = pc[v]
    BY <2>1, <2>3, <2>4 DEF LocalsType
  <2>10. QED
    BY <1>1, <2>3, <2>4, <2>5, <2>8, <2>9 DEF LocalsType, Others, Same, AtEntry
<1>4. CASE phase[w] = NumPhases(job[w])
  <2>1. EndJob(w)
    BY <1>4, PhaseFacts DEF NextPhase, Working
  <2>2. QED
    BY <1>1, <2>1 DEF EndJob, Goto, LocalsType, Others, Same, AtEntry, ControlOK, Statements
<1>5. QED
  BY <1>3, <1>4, PhaseFacts DEF Working

LEMMA NextMartFacts ==
    ASSUME LocalsType, CountsAssumption, NEW w \in Workers, Working(w), NextMart(w)
    PROVE  LocalsType' /\ ControlOK(w)' /\ Others(w) /\ AtEntry(w)
<1>1. CASE mart[w] < NMarts
  <2> DEFINE p == PhaseOf(w)
  <2>1. p \in PhaseNames
    BY PhaseFacts DEF Working, PhaseOf
  <2>2. /\ Entry[p] \in PhaseStatements[p]
        /\ Entry[p] \in Statements
        /\ Entry[p] \notin {"max", "apply", "rows", "set", "idle"}
    BY <2>1, EntryFacts
  <2>3. mart[w] + 1 \in Marts
    BY <1>1 DEF LocalsType, Marts, CountsAssumption
  <2>4. /\ mart' = [mart EXCEPT ![w] = @ + 1]
        /\ Fresh(w)
        /\ pc' = [pc EXCEPT ![w] = Entry[p]]
        /\ job' = job /\ phase' = phase /\ sound' = sound
    BY <1>1 DEF NextMart, NextPhase, Goto, LocalsType, Marts, CountsAssumption
  <2>5. ControlOK(w)'
    BY <2>2, <2>4 DEF ControlOK, Working, LocalsType, PhaseOf, NumPhases, JobKinds
  <2>6. LocalsType' /\ Others(w) /\ AtEntry(w)
    BY <2>2, <2>3, <2>4 DEF LocalsType, Fresh, Others, Same, AtEntry
  <2>7. QED BY <2>5, <2>6
<1>2. CASE mart[w] = NMarts
  BY <1>2, NextPhaseFacts DEF NextMart, CountsAssumption
<1>3. QED
  BY <1>1, <1>2 DEF NextMart
(* A statement that stays within its phase.                                *)
LEMMA StayFacts ==
    ASSUME TypeInv, NEW w \in Workers, Working(w), PhaseOf(w) \in PhaseNames,
           NEW s \in PhaseStatements[PhaseOf(w)], Goto(w, s),
           UNCHANGED <<job, phase, mart, sound>>
    PROVE  /\ ControlOK(w)'
           /\ pc' \in [Workers -> Statements]
           /\ pc'[w] = s
           /\ \A v \in Workers \ {w} : pc'[v] = pc[v]
<1>1. s \in Statements
  BY EntryFacts
<1>2. pc'[w] = s /\ pc' \in [Workers -> Statements]
  BY <1>1 DEF TypeInv, TypeOK, Goto
<1>3. job[w] # "none"
  BY DEF Working, JobKinds
<1>4. PhaseOf(w)' = PhaseOf(w) /\ NumPhases(job[w])' = NumPhases(job[w])
  BY DEF PhaseOf, NumPhases
<1>5. ControlOK(w)'
  BY <1>2, <1>3, <1>4 DEF ControlOK, Working
<1>6. QED
  BY <1>2, <1>5 DEF TypeInv, TypeOK, Goto

LEMMA TypeSplit ==
    TypeOK <=> LocalsType /\ StoreType /\ fails \in 0..MaxFails /\ jobs \in 0..MaxJobs
BY DEF TypeOK, LocalsType, StoreType

LEMMA AssembleType ==
    ASSUME TypeInv, NEW w \in Workers, LocalsType', StoreType',
           fails' \in 0..MaxFails, jobs' \in 0..MaxJobs, Others(w), ControlOK(w)'
    PROVE  TypeInv' /\ Others(w)
<1>1. TypeOK'
  BY DEF TypeOK, LocalsType, StoreType
<1>2. ASSUME NEW v \in Workers \ {w} PROVE ControlOK(v)'
  <2>1. ControlOK(v) /\ Same(v)
    BY DEF TypeInv, Others
  <2>2. PhaseOf(v)' = PhaseOf(v) /\ NumPhases(job[v])' = NumPhases(job[v])
    BY <2>1 DEF Same, PhaseOf, NumPhases
  <2>3. QED
    BY <2>1, <2>2 DEF Same, ControlOK
<1>3. \A v \in Workers : ControlOK(v)'
  BY <1>2
<1>4. QED
  BY <1>1, <1>3 DEF TypeInv

(* The two ways a statement of the refresh loop ends.                      *)
LEMMA AppliedFacts ==
    ASSUME TypeInv, CountsAssumption, NEW w \in Workers, pc[w] \in {"apply", "rows"},
           Applied(w)
    PROVE  /\ LocalsType' /\ ControlOK(w)' /\ Others(w)
           /\ \/ AtEntry(w)
              \/ pc'[w] = "set" /\ UNCHANGED frame
<1>1. Working(w) /\ PhaseOf(w) \in PhaseNames
  BY BusyIsWorking
<1>2. LocalsType
  BY TypeSplit DEF TypeInv
<1>3. CASE PhaseOf(w) = "refresh" /\ Goto(w, "set") /\ UNCHANGED <<frame, sound>>
  <2>1. "set" \in PhaseStatements[PhaseOf(w)]
    BY <1>3 DEF PhaseStatements
  <2>2. UNCHANGED <<job, phase, mart, sound>>
    BY <1>3 DEF frame
  <2>3. /\ ControlOK(w)' /\ pc' \in [Workers -> Statements] /\ pc'[w] = "set"
        /\ \A v \in Workers \ {w} : pc'[v] = pc[v]
    BY <1>1, <1>3, <2>1, <2>2, StayFacts
  <2>4. QED
    BY <1>2, <1>3, <2>3 DEF frame, LocalsType, Others, Same
<1>4. CASE NextMart(w)
  BY <1>1, <1>2, <1>4, NextMartFacts
<1>5. QED
  BY <1>3, <1>4 DEF Applied

-----------------------------------------------------------------------------
(* Type correctness: one step per action.                                  *)

LEMMA InitType == CountsAssumption /\ Init => TypeInv
BY DEF CountsAssumption, Init, TypeInv, TypeOK, ControlOK, Statements, Marts

LEMMA StartType ==
    ASSUME TypeInv, CountsAssumption, ShapeAssumption, NEW w \in Workers, Start(w)
    PROVE  TypeInv' /\ Others(w) /\ AtEntry(w)
<1>1. LocalsType /\ StoreType /\ fails \in 0..MaxFails /\ jobs \in 0..MaxJobs
  BY TypeSplit DEF TypeInv
<1>2. PICK j \in Jobs[w] :
         /\ job' = [job EXCEPT ![w] = j]
         /\ phase' = [phase EXCEPT ![w] = 1]
         /\ pc' = [pc EXCEPT ![w] = Entry[Phases[j][1]]]
  BY DEF Start, Goto
<1>3. j \in JobKinds /\ j # "none"
  BY DEF ShapeAssumption, JobKinds
<1>4. 1 \in 1..NumPhases(j) /\ Phases[j][1] \in PhaseNames
  BY <1>3, PhaseFacts
<1>5. /\ Entry[Phases[j][1]] \in PhaseStatements[Phases[j][1]]
      /\ Entry[Phases[j][1]] \in Statements
      /\ Entry[Phases[j][1]] \notin {"max", "apply", "rows", "set", "idle"}
  BY <1>4, EntryFacts
<1>6. job'[w] = j /\ phase'[w] = 1 /\ pc'[w] = Entry[Phases[j][1]]
  BY <1>1, <1>2 DEF LocalsType
<1>7. ControlOK(w)'
  BY <1>3, <1>4, <1>5, <1>6 DEF ControlOK, PhaseOf, NumPhases
<1>8. LocalsType' /\ Others(w) /\ AtEntry(w)
  BY <1>1, <1>2, <1>3, <1>5, <1>6 DEF Start, LocalsType, Others, Same, AtEntry
<1>9. StoreType' /\ fails' \in 0..MaxFails /\ jobs' \in 0..MaxJobs
  BY <1>1 DEF Start, store, StoreType, CountsAssumption
<1>10. QED
  BY <1>7, <1>8, <1>9, AssembleType

LEMMA CommitType ==
    ASSUME TypeInv, CountsAssumption, NEW w \in Workers, Commit(w)
    PROVE  TypeInv' /\ Others(w) /\ AtEntry(w)
<1>1. LocalsType /\ StoreType /\ fails \in 0..MaxFails /\ jobs \in 0..MaxJobs
  BY TypeSplit DEF TypeInv
<1>2. Working(w)
  BY BusyIsWorking DEF Commit
<1>3. LocalsType' /\ ControlOK(w)' /\ Others(w) /\ AtEntry(w)
  BY <1>1, <1>2, NextPhaseFacts DEF Commit
<1>4. PICK k \in 1..Batch : /\ messages + k <= MaxMessages
                            /\ messages' = messages + k
                            /\ \E c \in 0..k : InsertEvents(messages + 1..messages + c)
  BY DEF Commit
<1>5. PICK c \in 0..k : InsertEvents(messages + 1..messages + c)
  BY <1>4
<1>6. messages + 1..messages + c \subseteq Messages
  BY <1>1, <1>4, <1>5 DEF StoreType, Messages, CountsAssumption
<1>7. event' \in [Messages -> Nat] /\ top' \in Nat
  BY <1>1, <1>5, <1>6, InsertFacts DEF StoreType, CountsAssumption
<1>8. StoreType' /\ fails' \in 0..MaxFails /\ jobs' \in 0..MaxJobs
  BY <1>1, <1>4, <1>7 DEF Commit, StoreType, CountsAssumption
<1>9. QED
  BY <1>3, <1>8, AssembleType

LEMMA CommitNothingType ==
    ASSUME TypeInv, CountsAssumption, NEW w \in Workers, CommitNothing(w)
    PROVE  TypeInv' /\ Others(w) /\ AtEntry(w)
<1>1. LocalsType /\ StoreType /\ fails \in 0..MaxFails /\ jobs \in 0..MaxJobs
  BY TypeSplit DEF TypeInv
<1>2. 1 \in Marts
  BY DEF CountsAssumption, Marts
<1>3. CASE /\ job[w] = "cycle"
           /\ phase' = [phase EXCEPT ![w] = NumPhases("cycle")]
           /\ Goto(w, Entry["refresh"])
           /\ UNCHANGED <<job, sound>>
  <2>1. NumPhases("cycle") = 4 /\ Phases["cycle"][4] = "refresh"
    BY DEF NumPhases, Phases
  <2>2. Entry["refresh"] = "get" /\ "get" \in PhaseStatements["refresh"]
    BY DEF Entry, PhaseStatements
  <2>3. job'[w] = "cycle" /\ phase'[w] = 4 /\ pc'[w] = "get"
    BY <1>1, <1>3, <2>1, <2>2 DEF LocalsType, Goto
  <2>4. PhaseOf(w)' = "refresh" /\ NumPhases(job[w])' = 4
    BY <2>1, <2>3 DEF PhaseOf, NumPhases
  <2>5. ControlOK(w)'
    BY <2>2, <2>3, <2>4 DEF ControlOK
  <2>6. LocalsType' /\ Others(w) /\ AtEntry(w)
    BY <1>1, <1>2, <1>3, <2>1, <2>2, <2>3
       DEF CommitNothing, Goto, LocalsType, Others, Same, AtEntry, Statements
  <2>7. QED
    BY <1>1, <2>5, <2>6, AssembleType DEF CommitNothing, store, StoreType
<1>4. CASE /\ job[w] = "cycle"
           /\ phase' = [phase EXCEPT ![w] = NumPhases("cycle") - 1]
           /\ Goto(w, Entry["recent"])
           /\ UNCHANGED <<job, sound>>
  <2>1. NumPhases("cycle") = 4 /\ Phases["cycle"][3] = "recent"
    BY DEF NumPhases, Phases
  <2>2. Entry["recent"] = "select" /\ "select" \in PhaseStatements["recent"]
    BY DEF Entry, PhaseStatements
  <2>3. job'[w] = "cycle" /\ phase'[w] = 3 /\ pc'[w] = "select"
    BY <1>1, <1>4, <2>1, <2>2 DEF LocalsType, Goto
  <2>4. PhaseOf(w)' = "recent" /\ NumPhases(job[w])' = 4
    BY <2>1, <2>3 DEF PhaseOf, NumPhases
  <2>5. ControlOK(w)'
    BY <2>2, <2>3, <2>4 DEF ControlOK
  <2>6. LocalsType' /\ Others(w) /\ AtEntry(w)
    BY <1>1, <1>2, <1>4, <2>1, <2>2, <2>3
       DEF CommitNothing, Goto, LocalsType, Others, Same, AtEntry, Statements
  <2>7. QED
    BY <1>1, <2>5, <2>6, AssembleType DEF CommitNothing, store, StoreType
<1>5. CASE EndJob(w)
  <2>1. LocalsType' /\ Others(w) /\ AtEntry(w) /\ ControlOK(w)'
    BY <1>1, <1>2, <1>5
       DEF CommitNothing, EndJob, Goto, LocalsType, Others, Same, AtEntry, ControlOK, Statements
  <2>2. QED
    BY <1>1, <2>1, AssembleType DEF CommitNothing, store, StoreType
<1>6. QED
  BY <1>3, <1>4, <1>5 DEF CommitNothing

LEMMA RefreshType ==
    ASSUME TypeInv, CountsAssumption, NEW w \in Workers, Refresh(w)
    PROVE  TypeInv' /\ Others(w)
<1>1. LocalsType /\ StoreType /\ fails \in 0..MaxFails /\ jobs \in 0..MaxJobs
  BY TypeSplit DEF TypeInv
<1>2. pc[w] # "idle"
  BY DEF Refresh, GetWatermark, ReadMax, ApplySum, ApplyReplace, FetchWindow,
         UpsertBucket, InsertOrIgnore, RowsDone, SetWatermark
<1>3. Working(w) /\ PhaseOf(w) \in PhaseNames
  BY <1>2, BusyIsWorking
<1>4. mart[w] \in Marts /\ job[w] # "none"
  BY <1>1, <1>3 DEF LocalsType, Working, JobKinds
<1>5. CASE GetWatermark(w)
  <2>1. "max" \in PhaseStatements[PhaseOf(w)]
    BY <1>3, <1>5 DEF Working, GetWatermark, PhaseStatements, PhaseNames
  <2>2. UNCHANGED <<job, phase, mart, sound>> /\ Goto(w, "max")
    BY <1>5 DEF GetWatermark, history
  <2>3. ControlOK(w)' /\ pc' \in [Workers -> Statements]
        /\ \A v \in Workers \ {w} : pc'[v] = pc[v]
    BY <1>3, <2>1, <2>2, StayFacts
  <2>4. LocalsType' /\ Others(w)
    BY <1>1, <1>4, <1>5, <2>2, <2>3 DEF GetWatermark, LocalsType, StoreType, Others, Same
  <2>5. QED
    BY <1>1, <1>5, <2>3, <2>4, AssembleType DEF GetWatermark, store, history, StoreType
<1>6. CASE ReadMax(w)
  <2>1. StoreType' /\ fails' \in 0..MaxFails /\ jobs' \in 0..MaxJobs
    BY <1>1, <1>6 DEF ReadMax, store, StoreType
  <2>2. CASE /\ new' = [new EXCEPT ![w] = top]
             /\ Goto(w, "apply")
             /\ UNCHANGED <<job, phase, mart, old, pend, sound>>
    <3>1. "apply" \in PhaseStatements[PhaseOf(w)]
      BY <1>3, <1>6 DEF Working, ReadMax, PhaseStatements, PhaseNames
    <3>2. ControlOK(w)' /\ pc' \in [Workers -> Statements]
          /\ \A v \in Workers \ {w} : pc'[v] = pc[v]
      BY <1>3, <2>2, <3>1, StayFacts
    <3>3. LocalsType' /\ Others(w)
      BY <1>1, <2>2, <3>2 DEF LocalsType, StoreType, Others, Same
    <3>4. QED BY <2>1, <3>2, <3>3, AssembleType
  <2>3. CASE /\ PhaseOf(w) = "refresh"
             /\ new' = [new EXCEPT ![w] = old[w]]
             /\ Goto(w, "set")
             /\ UNCHANGED <<job, phase, mart, old, pend, sound>>
    <3>1. "set" \in PhaseStatements[PhaseOf(w)]
      BY <2>3 DEF PhaseStatements
    <3>2. ControlOK(w)' /\ pc' \in [Workers -> Statements]
          /\ \A v \in Workers \ {w} : pc'[v] = pc[v]
      BY <1>3, <2>3, <3>1, StayFacts
    <3>3. LocalsType' /\ Others(w)
      BY <1>1, <2>3, <3>2 DEF LocalsType, Others, Same
    <3>4. QED BY <2>1, <3>2, <3>3, AssembleType
  <2>4. CASE NextMart(w)
    BY <1>1, <1>3, <2>1, <2>4, NextMartFacts, AssembleType
  <2>5. QED
    BY <1>6, <2>2, <2>3, <2>4 DEF ReadMax
<1>7. CASE ApplySum(w)
  <2> DEFINE f == [x \in Messages |-> IF x \in Window(old[w], new[w])
                                         THEN counted[mart[w]][x] + 1
                                         ELSE counted[mart[w]][x]]
  <2>2a. f \in [Messages -> Nat]
    BY <1>1, <1>4 DEF StoreType
  <2>2b. counted' = [counted EXCEPT ![mart[w]] = f]
    BY <1>1, <1>4, <1>7 DEF ApplySum, StoreType
  <2>1. counted' \in [Marts -> [Messages -> Nat]]
    BY <1>1, <1>4, <2>2a, <2>2b DEF StoreType
  <2>2. QED
    BY <1>1, <1>7, <2>1, AppliedFacts, AssembleType DEF ApplySum, StoreType
<1>8. CASE ApplyReplace(w)
  <2>1. counted' \in [Marts -> [Messages -> Nat]]
    BY <1>1, <1>8 DEF ApplyReplace, StoreType
  <2>2. QED
    BY <1>1, <1>8, <2>1, AppliedFacts, AssembleType DEF ApplyReplace, StoreType
<1>9. CASE FetchWindow(w)
  <2>1. "rows" \in PhaseStatements[PhaseOf(w)]
    BY <1>3, <1>9 DEF Working, FetchWindow, PhaseStatements, PhaseNames
  <2>2. UNCHANGED <<job, phase, mart, sound>> /\ Goto(w, "rows")
    BY <1>9 DEF FetchWindow, history
  <2>3. ControlOK(w)' /\ pc' \in [Workers -> Statements]
        /\ \A v \in Workers \ {w} : pc'[v] = pc[v]
    BY <1>3, <2>1, <2>2, StayFacts
  <2>4. Window(old[w], new[w]) \in SUBSET Messages
    BY DEF Window
  <2>5. LocalsType' /\ Others(w)
    BY <1>1, <1>9, <2>2, <2>3, <2>4 DEF FetchWindow, LocalsType, Others, Same
  <2>6. QED
    BY <1>1, <1>9, <2>3, <2>5, AssembleType DEF FetchWindow, store, history, StoreType
<1>10. CASE UpsertBucket(w) \/ InsertOrIgnore(w)
  <2>0. counted' \in [Marts -> [Messages -> Nat]]
    <3>1. CASE UpsertBucket(w)
      <4>1. PICK B \in SUBSET Messages :
              counted' = [counted EXCEPT ![mart[w]] =
                            [x \in Messages |-> IF x \in B THEN @[x] + 1 ELSE @[x]]]
        BY <1>1, <3>1 DEF UpsertBucket, LocalsType
      <4> DEFINE f == [x \in Messages |-> IF x \in B THEN counted[mart[w]][x] + 1
                                                     ELSE counted[mart[w]][x]]
      <4>2. f \in [Messages -> Nat]
        BY <1>1, <1>4 DEF StoreType
      <4>3. counted' = [counted EXCEPT ![mart[w]] = f]
        BY <1>1, <1>4, <4>1 DEF StoreType
      <4>4. QED
        BY <1>1, <1>4, <4>2, <4>3 DEF StoreType
    <3>2. CASE InsertOrIgnore(w)
      BY <1>1, <1>4, <3>2 DEF InsertOrIgnore, StoreType, LocalsType
    <3>3. QED BY <1>10, <3>1, <3>2
  <2>1. /\ pend' \in [Workers -> SUBSET Messages]
        /\ \A v \in Workers \ {w} : pend'[v] = pend[v]
    BY <1>1, <1>10 DEF UpsertBucket, InsertOrIgnore, LocalsType
  <2>2. UNCHANGED <<messages, event, top, wm, job, phase, mart, old, new, pc, history>>
    BY <1>10 DEF UpsertBucket, InsertOrIgnore
  <2>3. ControlOK(w)'
    BY <2>2 DEF TypeInv, ControlOK, PhaseOf, NumPhases
  <2>4. QED
    BY <1>1, <2>0, <2>1, <2>2, <2>3, AssembleType DEF history, StoreType, LocalsType, Others, Same
<1>11. CASE RowsDone(w)
  BY <1>1, <1>11, AppliedFacts, AssembleType DEF RowsDone, store, StoreType
<1>12. CASE SetWatermark(w)
  <2>1. wm' \in [Marts -> Nat]
    BY <1>1, <1>12 DEF SetWatermark, StoreType, LocalsType, Larger
  <2>2. QED
    BY <1>1, <1>3, <1>12, <2>1, NextMartFacts, AssembleType DEF SetWatermark, StoreType
<1>13. QED
  BY <1>5, <1>6, <1>7, <1>8, <1>9, <1>10, <1>11, <1>12 DEF Refresh

LEMMA RecentType ==
    ASSUME TypeInv, CountsAssumption, NEW w \in Workers, Recent(w)
    PROVE  TypeInv' /\ Others(w)
<1>1. LocalsType /\ StoreType /\ fails \in 0..MaxFails /\ jobs \in 0..MaxJobs
  BY TypeSplit DEF TypeInv
<1>2. Working(w) /\ PhaseOf(w) \in PhaseNames
  BY BusyIsWorking DEF Recent, SelectRecent, InsertRecent, RecentDone
<1>3. CASE SelectRecent(w)
  <2>1. "insert" \in PhaseStatements[PhaseOf(w)]
    BY <1>2, <1>3 DEF Working, SelectRecent, PhaseStatements, PhaseNames
  <2>2. UNCHANGED <<job, phase, mart, sound>> /\ Goto(w, "insert")
    BY <1>3 DEF SelectRecent, history
  <2>3. ControlOK(w)' /\ pc' \in [Workers -> Statements]
        /\ \A v \in Workers \ {w} : pc'[v] = pc[v]
    BY <1>2, <2>1, <2>2, StayFacts
  <2>4. Missing(1..messages) \in SUBSET Messages
    BY <1>1 DEF Missing, StoreType, Messages, CountsAssumption
  <2>5. LocalsType' /\ Others(w)
    BY <1>1, <1>3, <2>2, <2>3, <2>4 DEF SelectRecent, LocalsType, Others, Same
  <2>6. QED
    BY <1>1, <1>3, <2>3, <2>5, AssembleType DEF SelectRecent, store, history, StoreType
<1>4. CASE InsertRecent(w)
  <2>1. PICK y \in pend[w] : InsertEvents({y}) /\ pend' = [pend EXCEPT ![w] = @ \ {y}]
    BY <1>4 DEF InsertRecent
  <2>2. {y} \subseteq Messages
    BY <1>1 DEF LocalsType
  <2>3. event' \in [Messages -> Nat] /\ top' \in Nat
    BY <1>1, <2>1, <2>2, InsertFacts DEF StoreType, CountsAssumption
  <2>4. UNCHANGED <<messages, wm, counted, job, phase, mart, old, new, pc, history>>
    BY <1>4 DEF InsertRecent
  <2>5. ControlOK(w)'
    BY <2>4 DEF TypeInv, ControlOK, PhaseOf, NumPhases
  <2>6. LocalsType' /\ Others(w)
    BY <1>1, <2>1, <2>4 DEF history, LocalsType, Others, Same
  <2>7. QED
    BY <1>1, <2>3, <2>4, <2>5, <2>6, AssembleType DEF history, StoreType
<1>5. CASE RecentDone(w)
  BY <1>1, <1>2, <1>5, NextPhaseFacts, AssembleType DEF RecentDone, store, StoreType
<1>6. QED
  BY <1>3, <1>4, <1>5 DEF Recent

LEMMA BackfillType ==
    ASSUME TypeInv, CountsAssumption, NEW w \in Workers, Backfill(w)
    PROVE  TypeInv' /\ Others(w)
<1>1. LocalsType /\ StoreType /\ fails \in 0..MaxFails /\ jobs \in 0..MaxJobs
  BY TypeSplit DEF TypeInv
<1>2. Working(w) /\ PhaseOf(w) \in PhaseNames
  BY BusyIsWorking DEF Backfill, FetchChunk, ConvertChunk
<1>3. CASE FetchChunk(w)
  <2>1. StoreType' /\ fails' \in 0..MaxFails /\ jobs' \in 0..MaxJobs
    BY <1>1, <1>3 DEF FetchChunk, store, StoreType
  <2>2. CASE /\ pend' = [pend EXCEPT ![w] = Chunk(w)]
             /\ Goto(w, "convert")
             /\ UNCHANGED <<job, phase, mart, old, new, sound>>
    <3>1. "convert" \in PhaseStatements[PhaseOf(w)]
      BY <1>2, <1>3 DEF Working, FetchChunk, PhaseStatements, PhaseNames
    <3>2. ControlOK(w)' /\ pc' \in [Workers -> Statements]
          /\ \A v \in Workers \ {w} : pc'[v] = pc[v]
      BY <1>2, <2>2, <3>1, StayFacts
    <3>3. Chunk(w) \in SUBSET Messages
      BY <1>1 DEF Chunk, StoreType, Messages, CountsAssumption
    <3>4. LocalsType' /\ Others(w)
      BY <1>1, <2>2, <3>2, <3>3 DEF LocalsType, Others, Same
    <3>5. QED BY <2>1, <3>2, <3>4, AssembleType
  <2>3. CASE NextPhase(w)
    BY <1>1, <1>2, <2>1, <2>3, NextPhaseFacts, AssembleType
  <2>4. QED
    BY <1>3, <2>2, <2>3 DEF FetchChunk
<1>4. CASE ConvertChunk(w)
  <2>1. event' \in [Messages -> Nat] /\ top' \in Nat
    <3>1. pend[w] \subseteq Messages
      BY <1>1 DEF LocalsType
    <3>2. QED
      BY <1>1, <1>4, <3>1, InsertFacts DEF ConvertChunk, StoreType, CountsAssumption
  <2>2. StoreType' /\ fails' \in 0..MaxFails /\ jobs' \in 0..MaxJobs
    BY <1>1, <1>4, <2>1 DEF ConvertChunk, StoreType
  <2>3. CASE /\ old' = [old EXCEPT ![w] = @ + ChunkSize]
             /\ pend' = [pend EXCEPT ![w] = {}]
             /\ Goto(w, "fetch")
             /\ UNCHANGED <<job, phase, mart, new, sound>>
    <3>1. "fetch" \in PhaseStatements[PhaseOf(w)]
      BY <1>2, <1>4 DEF Working, ConvertChunk, PhaseStatements, PhaseNames
    <3>2. ControlOK(w)' /\ pc' \in [Workers -> Statements]
          /\ \A v \in Workers \ {w} : pc'[v] = pc[v]
      BY <1>2, <2>3, <3>1, StayFacts
    <3>3. old' \in [Workers -> Nat] /\ \A v \in Workers \ {w} : old'[v] = old[v]
      BY <1>1, <2>3 DEF LocalsType, CountsAssumption
    <3>4. pend' \in [Workers -> SUBSET Messages] /\ \A v \in Workers \ {w} : pend'[v] = pend[v]
      BY <1>1, <2>3 DEF LocalsType
    <3>5. LocalsType' /\ Others(w)
      BY <1>1, <2>3, <3>2, <3>3, <3>4 DEF LocalsType, Others, Same
    <3>6. QED BY <2>2, <3>2, <3>5, AssembleType
  <2>4. CASE NextPhase(w)
    BY <1>1, <1>2, <2>2, <2>4, NextPhaseFacts, AssembleType
  <2>5. QED
    BY <1>4, <2>3, <2>4 DEF ConvertChunk
<1>5. QED
  BY <1>3, <1>4 DEF Backfill

LEMMA WipeType ==
    ASSUME TypeInv, CountsAssumption, NEW w \in Workers, Wipe(w)
    PROVE  TypeInv' /\ Others(w)
<1>1. LocalsType /\ StoreType /\ fails \in 0..MaxFails /\ jobs \in 0..MaxJobs
  BY TypeSplit DEF TypeInv
<1>2. Working(w) /\ PhaseOf(w) \in PhaseNames
  BY BusyIsWorking DEF Wipe, DropEvents, DeleteWatermarks, ClearMart
<1>3. CASE DropEvents(w)
  BY <1>1, <1>2, <1>3, NextPhaseFacts, AssembleType DEF DropEvents, StoreType
<1>4. CASE DeleteWatermarks(w)
  BY <1>1, <1>2, <1>4, NextPhaseFacts, AssembleType DEF DeleteWatermarks, StoreType
<1>5. CASE ClearMart(w)
  <2>1. "max" \in PhaseStatements[PhaseOf(w)]
    BY <1>2, <1>5 DEF Working, ClearMart, PhaseStatements, PhaseNames
  <2>2. UNCHANGED <<frame, history>> /\ Goto(w, "max")
    BY <1>5 DEF ClearMart
  <2>3. ControlOK(w)' /\ pc' \in [Workers -> Statements]
        /\ \A v \in Workers \ {w} : pc'[v] = pc[v]
    BY <1>2, <2>1, <2>2, StayFacts DEF frame, history
  <2>4. LocalsType' /\ Others(w)
    BY <1>1, <2>2, <2>3 DEF frame, history, LocalsType, Others, Same
  <2>5. counted' \in [Marts -> [Messages -> Nat]]
    BY <1>1, <1>5 DEF ClearMart, StoreType
  <2>6. QED
    BY <1>1, <1>5, <2>3, <2>4, <2>5, AssembleType DEF ClearMart, history, StoreType
<1>6. QED
  BY <1>3, <1>4, <1>5 DEF Wipe

LEMMA FailType ==
    ASSUME TypeInv, CountsAssumption, NEW w \in Workers, Fail(w)
    PROVE  TypeInv' /\ Others(w) /\ AtEntry(w)
<1>1. LocalsType /\ StoreType /\ fails \in 0..MaxFails /\ jobs \in 0..MaxJobs
  BY TypeSplit DEF TypeInv
<1>2. 1 \in Marts
  BY DEF CountsAssumption, Marts
<1>3. StoreType' /\ fails' \in 0..MaxFails /\ jobs' \in 0..MaxJobs
  BY <1>1 DEF Fail, Die, Noted, SkipRecent, store, StoreType, CountsAssumption
<1> DEFINE Reset ==
      /\ mart' \in [Workers -> Marts]
      /\ old' \in [Workers -> Nat]
      /\ new' \in [Workers -> Nat]
      /\ pend' \in [Workers -> SUBSET Messages]
      /\ sound' \in BOOLEAN
      /\ \A v \in Workers \ {w} : /\ mart'[v] = mart[v] /\ old'[v] = old[v]
                                  /\ new'[v] = new[v] /\ pend'[v] = pend[v]
<1>4. ASSUME Die(w) \/ Noted(w) PROVE Reset
  <2>1. mart' = [mart EXCEPT ![w] = 1] /\ Fresh(w) /\ sound' = FALSE
    BY <1>4 DEF Die, Noted
  <2>2. QED
    BY <1>1, <1>2, <2>1 DEF Fresh, LocalsType
<1>5. CASE Die(w)
  <2>1. /\ job' \in [Workers -> JobKinds \cup {"none"}]
        /\ phase' \in [Workers -> 0..5]
        /\ pc' \in [Workers -> Statements]
        /\ \A v \in Workers \ {w} : /\ job'[v] = job[v] /\ phase'[v] = phase[v]
                                    /\ pc'[v] = pc[v]
        /\ job'[w] = "none" /\ pc'[w] = "idle"
    BY <1>1, <1>5 DEF Die, Goto, LocalsType, Statements
  <2>2. Reset
    BY <1>4, <1>5
  <2>3. LocalsType' /\ Others(w) /\ AtEntry(w) /\ ControlOK(w)'
    BY <2>1, <2>2 DEF LocalsType, Others, Same, AtEntry, ControlOK
  <2>4. QED BY <1>3, <2>3, AssembleType
<1>6. CASE Noted(w)
  <2>1. NumPhases("cycle") = 4 /\ "cycle" \in JobKinds
    BY DEF NumPhases, Phases, JobKinds
  <2>2. phase[w] \in 1..4
    BY <1>6, <2>1 DEF Noted, TypeInv, ControlOK, JobKinds
  <2>3. PICK k \in 1..4 : phase' = [phase EXCEPT ![w] = k]
    <3>1. phase' = [phase EXCEPT ![w] = IF @ = 1 THEN 4 ELSE @ + 1] /\ phase[w] < 4
      BY <1>6, <2>1 DEF Noted
    <3>2. phase' = [phase EXCEPT ![w] = IF phase[w] = 1 THEN 4 ELSE phase[w] + 1]
      BY <3>1
    <3>3. (IF phase[w] = 1 THEN 4 ELSE phase[w] + 1) \in 1..4
      BY <2>2, <3>1
    <3>4. QED BY <3>2, <3>3
  <2>4. phase'[w] = k /\ job'[w] = "cycle"
    BY <1>1, <1>6, <2>3 DEF Noted, LocalsType
  <2> DEFINE p == Phases["cycle"][k]
  <2>5. p \in PhaseNames
    BY <2>1, PhaseFacts
  <2>6. /\ Entry[p] \in PhaseStatements[p] /\ Entry[p] \in Statements
        /\ Entry[p] \notin {"max", "apply", "rows", "set", "idle"}
    BY <2>5, EntryFacts
  <2>7. pc' = [pc EXCEPT ![w] = Entry[p]] /\ pc'[w] = Entry[p]
    BY <1>1, <1>6, <2>4 DEF Noted, Goto, LocalsType
  <2>8. PhaseOf(w)' = p /\ NumPhases(job[w])' = 4
    BY <2>1, <2>4 DEF PhaseOf, NumPhases
  <2>9. ControlOK(w)'
    BY <2>4, <2>6, <2>7, <2>8 DEF ControlOK
  <2>10. Reset
    BY <1>4, <1>6
  <2>11. LocalsType' /\ Others(w) /\ AtEntry(w)
    BY <1>1, <1>6, <2>10, <2>3, <2>6, <2>7
       DEF Noted, LocalsType, Others, Same, AtEntry
  <2>12. QED BY <1>3, <2>9, <2>11, AssembleType
<1>7. CASE SkipRecent(w)
  <2>1. PICK y \in pend[w] : pend' = [pend EXCEPT ![w] = @ \ {y}]
    BY <1>7 DEF SkipRecent
  <2>2. UNCHANGED <<job, phase, mart, old, new, pc, sound>> /\ pc[w] = "insert"
    BY <1>7 DEF SkipRecent
  <2>3. LocalsType' /\ Others(w) /\ AtEntry(w)
    BY <1>1, <2>1, <2>2 DEF LocalsType, Others, Same, AtEntry
  <2>4. ControlOK(w)'
    BY <2>2 DEF TypeInv, ControlOK, PhaseOf, NumPhases
  <2>5. QED BY <1>3, <2>3, <2>4, AssembleType
<1>8. QED
  BY <1>5, <1>6, <1>7 DEF Fail

LEMMA NextType == CountsAssumption /\ ShapeAssumption /\ TypeInv /\ [Next]_vars => TypeInv'
<1> SUFFICES ASSUME CountsAssumption, ShapeAssumption, TypeInv, [Next]_vars
             PROVE  TypeInv'
  OBVIOUS
<1>1. CASE UNCHANGED vars
  BY <1>1 DEF vars, store, frame, history, TypeInv, TypeOK, ControlOK, PhaseOf, NumPhases
<1>2. ASSUME NEW w \in Workers, Start(w) PROVE TypeInv'
  BY <1>2, StartType
<1>3. ASSUME NEW w \in Workers, Step(w) PROVE TypeInv'
  BY <1>3, CommitType, CommitNothingType, RefreshType, RecentType, BackfillType, WipeType
     DEF Step
<1>4. ASSUME NEW w \in Workers, Fail(w) PROVE TypeInv'
  BY <1>4, FailType
<1>5. QED
  BY <1>1, <1>2, <1>3, <1>4 DEF Next

(* Every reachable state is well typed, and a worker is at a statement of  *)
(* the phase of its job that it is executing.                              *)
THEOREM TypeCorrect == Spec => [](TypeOK /\ \A w \in Workers : ControlOK(w))
<1>1. Init => TypeInv
  BY InitType, CountsAssumption
<1>2. TypeInv /\ [Next]_vars => TypeInv'
  BY NextType, CountsAssumption, ShapeAssumption
<1>3. TypeInv => TypeOK /\ \A w \in Workers : ControlOK(w)
  BY DEF TypeInv
<1>4. QED
  BY <1>1, <1>2, <1>3, PTL DEF Spec

-----------------------------------------------------------------------------
(* A watermark never runs ahead of its mart, if nothing is wiped.          *)

NoForce == \A w \in Workers : job[w] # "force"

LEMMA StepJob ==
    ASSUME TypeInv, NEW w \in Workers, Step(w) \/ Fail(w)
    PROVE  job' = job \/ job' = [job EXCEPT ![w] = "none"]
<1>1. NextPhase(w) => job' = job \/ job' = [job EXCEPT ![w] = "none"]
  BY DEF NextPhase, EndJob
<1>2. NextMart(w) => job' = job \/ job' = [job EXCEPT ![w] = "none"]
  BY <1>1 DEF NextMart
<1>3. Applied(w) => job' = job \/ job' = [job EXCEPT ![w] = "none"]
  BY <1>2 DEF Applied, frame
<1>4. CASE Commit(w) \/ CommitNothing(w)
  BY <1>1, <1>4 DEF Commit, CommitNothing, EndJob
<1>5. CASE Refresh(w)
  BY <1>2, <1>3, <1>5
     DEF Refresh, GetWatermark, ReadMax, ApplySum, ApplyReplace, FetchWindow,
         UpsertBucket, InsertOrIgnore, RowsDone, SetWatermark
<1>6. CASE Recent(w)
  BY <1>1, <1>6 DEF Recent, SelectRecent, InsertRecent, RecentDone
<1>7. CASE Backfill(w)
  BY <1>1, <1>7 DEF Backfill, FetchChunk, ConvertChunk
<1>8. CASE Wipe(w)
  BY <1>1, <1>8 DEF Wipe, DropEvents, DeleteWatermarks, ClearMart, frame
<1>9. CASE Fail(w)
  BY <1>9 DEF Fail, Die, Noted, SkipRecent
<1>10. QED
  BY <1>4, <1>5, <1>6, <1>7, <1>8, <1>9 DEF Step

LEMMA NoForceKept ==
    NeverForced /\ TypeInv /\ NoForce /\ [Next]_vars => NoForce'
<1> SUFFICES ASSUME NeverForced, TypeInv, NoForce, [Next]_vars
             PROVE  NoForce'
  OBVIOUS
<1>1. CASE UNCHANGED vars
  BY <1>1 DEF vars, frame, NoForce
<1>2. ASSUME NEW w \in Workers, Start(w) PROVE NoForce'
  BY <1>2 DEF Start, NeverForced, NoForce, TypeInv, TypeOK
<1>3. ASSUME NEW w \in Workers, Step(w) \/ Fail(w) PROVE NoForce'
  BY <1>3, StepJob DEF NoForce, TypeInv, TypeOK
<1>4. QED
  BY <1>1, <1>2, <1>3 DEF Next

LEMMA NoWipe ==
    ASSUME TypeInv, NoForce, NEW w \in Workers
    PROVE  ~Wipe(w)
<1> SUFFICES ASSUME Wipe(w) PROVE FALSE
  OBVIOUS
<1>1. pc[w] \in {"drop", "unmark", "clear"}
  BY DEF Wipe, DropEvents, DeleteWatermarks, ClearMart
<1>2. Working(w) /\ PhaseOf(w) \in PhaseNames
  BY <1>1, BusyIsWorking
<1>3. PhaseOf(w) \in {"drop", "unmark", "rebuild"}
  BY <1>1, <1>2 DEF Working, PhaseStatements, PhaseNames
<1>4. job[w] \in {"ingest", "cycle", "touch", "backfill"}
  BY <1>2 DEF Working, JobKinds, NoForce
<1>5. Phases[job[w]][phase[w]] \in {"commit", "refresh", "recent", "pass"}
  <2>1. CASE job[w] = "ingest"
    BY <1>2, <2>1 DEF Working, NumPhases, Phases
  <2>2. CASE job[w] = "cycle"
    BY <1>2, <2>2 DEF Working, NumPhases, Phases
  <2>3. CASE job[w] = "touch"
    BY <1>2, <2>3 DEF Working, NumPhases, Phases
  <2>4. CASE job[w] = "backfill"
    BY <1>2, <2>4 DEF Working, NumPhases, Phases
  <2>5. QED BY <1>4, <2>1, <2>2, <2>3, <2>4
<1>6. QED
  BY <1>3, <1>5 DEF PhaseOf

(* The store only grows: events keep their ids, new ones come above top,   *)
(* and no mart forgets an event it counted.                                *)
EventsGrow ==
    /\ top <= top'
    /\ \A x \in Messages : HasEvent(x) => event'[x] = event[x]
    /\ \A x \in Messages : ~HasEvent(x) /\ event'[x] # 0 =>
                              event'[x] > top /\ event'[x] <= top'

MartsGrow ==
    \A m \in Marts, x \in Messages :
        HasEvent(x) /\ counted[m][x] > 0 => counted'[m][x] > 0

LEMMA CoveredKept ==
    ASSUME TypeInv, TypeInv', EventsGrow, MartsGrow, NEW m \in Marts, NEW n \in Nat,
           n <= top, Covered(m, n)
    PROVE  \A x \in Messages : event'[x] # 0 /\ event'[x] <= n => counted'[m][x] > 0
<1> SUFFICES ASSUME NEW x \in Messages, event'[x] # 0, event'[x] <= n
             PROVE  counted'[m][x] > 0
  OBVIOUS
<1>1. event[x] \in Nat /\ event'[x] \in Nat /\ top \in Nat
  BY DEF TypeInv, TypeOK
<1>2. HasEvent(x) /\ event'[x] = event[x]
  BY <1>1 DEF EventsGrow
<1>3. QED
  BY <1>2 DEF Covered, MartsGrow

LEMMA SoundKept ==
    ASSUME TypeInv, TypeInv', EventsGrow, MartsGrow, NEW v \in Workers, Same(v),
           RefreshSound(v)
    PROVE  RefreshSound(v)'
<1>1. /\ old[v] \in Nat /\ new[v] \in Nat /\ mart[v] \in Marts
      /\ top \in Nat /\ top' \in Nat /\ top <= top'
  BY DEF TypeInv, TypeOK, EventsGrow
<1>2. /\ pc'[v] = pc[v] /\ old'[v] = old[v] /\ new'[v] = new[v]
      /\ mart'[v] = mart[v] /\ pend'[v] = pend[v]
  BY DEF Same
<1>3. pc[v] \in {"max", "apply"} =>
         /\ old[v] <= top'
         /\ \A x \in Messages : event'[x] # 0 /\ event'[x] <= old[v] =>
                                   counted'[mart[v]][x] > 0
  BY <1>1, CoveredKept DEF RefreshSound
<1>4. pc[v] \in {"apply", "rows", "set"} => new[v] <= top'
  BY <1>1 DEF RefreshSound
<1>5. ASSUME pc[v] = "rows", NEW x \in Messages, event'[x] # 0, event'[x] <= new[v]
      PROVE  counted'[mart[v]][x] > 0 \/ x \in pend[v]
  <2>1. new[v] <= top
    BY <1>5 DEF RefreshSound
  <2>2. event[x] \in Nat /\ event'[x] \in Nat
    BY DEF TypeInv, TypeOK
  <2>3. HasEvent(x) /\ event'[x] = event[x]
    BY <1>1, <1>5, <2>1, <2>2 DEF EventsGrow
  <2>4. counted[mart[v]][x] > 0 \/ x \in pend[v]
    BY <1>5, <2>3 DEF RefreshSound
  <2>5. QED
    BY <1>1, <2>3, <2>4 DEF MartsGrow
<1>6. pc[v] = "set" => \A x \in Messages : event'[x] # 0 /\ event'[x] <= new[v] =>
                                              counted'[mart[v]][x] > 0
  BY <1>1, CoveredKept DEF RefreshSound
<1>7. QED
  BY <1>2, <1>3, <1>4, <1>5, <1>6 DEF RefreshSound, Covered, HasEvent

LEMMA StoreKept ==
    ASSUME TypeInv, TypeInv', EventsGrow, MartsGrow, IdsBelowTop, WatermarkCovered,
           wm' = wm
    PROVE  IdsBelowTop' /\ WatermarkCovered'
<1>1. /\ top \in Nat /\ top' \in Nat /\ top <= top'
      /\ \A x \in Messages : event[x] \in Nat /\ event'[x] \in Nat
      /\ \A m \in Marts : wm[m] \in Nat
  BY DEF TypeInv, TypeOK, EventsGrow
<1>2. \A x \in Messages : event'[x] <= top'
  BY <1>1 DEF EventsGrow, IdsBelowTop, HasEvent
<1>3. \A m \in Marts : wm'[m] <= top'
  BY <1>1 DEF IdsBelowTop
<1>4. ASSUME NEW m \in Marts
      PROVE  \A x \in Messages : event'[x] # 0 /\ event'[x] <= wm[m] => counted'[m][x] > 0
  <2>1. wm[m] <= top /\ wm[m] \in Nat /\ Covered(m, wm[m])
    BY <1>1 DEF IdsBelowTop, WatermarkCovered, Covered
  <2>2. QED
    BY <2>1, CoveredKept
<1>5. QED
  BY <1>2, <1>3, <1>4 DEF IdsBelowTop, WatermarkCovered, HasEvent

LEMMA AssembleInv ==
    ASSUME TypeInv, TypeInv', MartInv, NEW w \in Workers, Others(w), EventsGrow, MartsGrow,
           IdsBelowTop', WatermarkCovered', RefreshSound(w)'
    PROVE  MartInv'
<1>1. ASSUME NEW v \in Workers \ {w} PROVE RefreshSound(v)'
  BY <1>1, SoundKept DEF Others, MartInv
<1>2. \A v \in Workers : ControlOK(v)' /\ RefreshSound(v)'
  BY <1>1 DEF TypeInv
<1>3. QED
  BY <1>2 DEF MartInv

(* A step that ends at the start of a phase promises nothing of its own.   *)
LEMMA EntryInv ==
    ASSUME TypeInv, TypeInv', MartInv, NEW w \in Workers, Others(w), EventsGrow, MartsGrow,
           wm' = wm, pc'[w] \notin {"max", "apply", "rows", "set"}
    PROVE  MartInv'
<1>1. IdsBelowTop' /\ WatermarkCovered'
  BY StoreKept DEF MartInv
<1>2. RefreshSound(w)'
  BY DEF RefreshSound
<1>3. QED
  BY <1>1, <1>2, AssembleInv

LEMMA StoreStays ==
    ASSUME TypeInv, event' = event, top' = top
    PROVE  EventsGrow /\ (counted' = counted => MartsGrow)
BY DEF TypeInv, TypeOK, EventsGrow, MartsGrow, HasEvent

LEMMA StoreInserts ==
    ASSUME TypeInv, CountsAssumption, NEW S, S \subseteq Messages, InsertEvents(S),
           counted' = counted
    PROVE  EventsGrow /\ MartsGrow
BY InsertFacts DEF TypeInv, TypeOK, EventsGrow, MartsGrow, CountsAssumption

(* After a table write at "apply" or "rows" the worker is about to promise *)
(* the window's end, or starts another phase.                              *)
LEMMA AppliedInv ==
    ASSUME TypeInv, TypeInv', CountsAssumption, MartInv, NEW w \in Workers, Applied(w),
           pc[w] \in {"apply", "rows"}, UNCHANGED <<event, top, wm>>, MartsGrow,
           \A x \in Messages : HasEvent(x) /\ event[x] <= new[w] => counted'[mart[w]][x] > 0
    PROVE  MartInv'
<1>1. Others(w) /\ (AtEntry(w) \/ (pc'[w] = "set" /\ UNCHANGED frame))
  BY AppliedFacts
<1>2. EventsGrow
  BY StoreStays
<1>3. CASE AtEntry(w)
  BY <1>1, <1>2, <1>3, EntryInv DEF AtEntry
<1>4. CASE pc'[w] = "set" /\ UNCHANGED frame
  <2>1. new'[w] = new[w] /\ mart'[w] = mart[w] /\ new[w] <= top
    BY <1>4 DEF frame, MartInv, RefreshSound
  <2>2. RefreshSound(w)'
    BY <1>4, <2>1 DEF RefreshSound, Covered, HasEvent
  <2>3. IdsBelowTop' /\ WatermarkCovered'
    BY <1>2, StoreKept DEF MartInv
  <2>4. QED
    BY <1>1, <1>2, <2>2, <2>3, AssembleInv
<1>5. QED
  BY <1>1, <1>3, <1>4

LEMMA RefreshInv ==
    ASSUME TypeInv, CountsAssumption, MartInv, NEW w \in Workers, Refresh(w)
    PROVE  MartInv'
<1>1. TypeInv' /\ Others(w)
  BY RefreshType
<1>2. /\ mart[w] \in Marts /\ old[w] \in Nat /\ new[w] \in Nat /\ top \in Nat
      /\ \A x \in Messages : event[x] \in Nat
      /\ \A m \in Marts : counted[m] \in [Messages -> Nat]
      /\ \A m \in Marts, x \in Messages : counted[m][x] \in Nat
  BY DEF TypeInv, TypeOK
<1>3. RefreshSound(w) /\ IdsBelowTop /\ WatermarkCovered
  BY DEF MartInv
<1>4. CASE GetWatermark(w)
  <2>1. /\ pc'[w] = "max" /\ old'[w] = wm[mart[w]] /\ mart'[w] = mart[w]
        /\ UNCHANGED <<event, top, wm, counted>>
    BY <1>4 DEF GetWatermark, Goto, store, TypeInv, TypeOK
  <2>2. EventsGrow /\ MartsGrow
    BY <2>1, StoreStays
  <2>3. IdsBelowTop' /\ WatermarkCovered'
    BY <1>1, <1>3, <2>1, <2>2, StoreKept
  <2>4. RefreshSound(w)'
    BY <1>2, <1>3, <2>1 DEF RefreshSound, Covered, HasEvent, IdsBelowTop, WatermarkCovered
  <2>5. QED
    BY <1>1, <2>2, <2>3, <2>4, AssembleInv
<1>5. CASE ReadMax(w)
  <2>1. UNCHANGED <<event, top, wm, counted>> /\ pc[w] = "max"
    BY <1>5 DEF ReadMax, store
  <2>2. EventsGrow /\ MartsGrow
    BY <2>1, StoreStays
  <2>3. IdsBelowTop' /\ WatermarkCovered'
    BY <1>1, <1>3, <2>1, <2>2, StoreKept
  <2>4. old[w] <= top /\ Covered(mart[w], old[w])
    BY <1>3, <2>1 DEF RefreshSound
  <2>5. CASE /\ new' = [new EXCEPT ![w] = top]
             /\ Goto(w, "apply")
             /\ UNCHANGED <<job, phase, mart, old, pend, sound>>
    <3>1. pc'[w] = "apply" /\ new'[w] = top /\ old'[w] = old[w] /\ mart'[w] = mart[w]
      BY <2>5 DEF Goto, TypeInv, TypeOK
    <3>2. RefreshSound(w)'
      BY <1>2, <2>1, <2>4, <3>1 DEF RefreshSound, Covered, HasEvent
    <3>3. QED BY <1>1, <2>2, <2>3, <3>2, AssembleInv
  <2>6. CASE /\ new' = [new EXCEPT ![w] = old[w]]
             /\ Goto(w, "set")
             /\ UNCHANGED <<job, phase, mart, old, pend, sound>>
    <3>1. pc'[w] = "set" /\ new'[w] = old[w] /\ mart'[w] = mart[w]
      BY <2>6 DEF Goto, TypeInv, TypeOK
    <3>2. RefreshSound(w)'
      BY <1>2, <2>1, <2>4, <3>1 DEF RefreshSound, Covered, HasEvent
    <3>3. QED BY <1>1, <2>2, <2>3, <3>2, AssembleInv
  <2>7. CASE NextMart(w)
    <3>1. Working(w)
      BY <2>1, BusyIsWorking
    <3>2. AtEntry(w)
      BY <2>7, <3>1, NextMartFacts, TypeSplit DEF TypeInv
    <3>3. QED BY <1>1, <2>1, <2>2, <3>2, EntryInv DEF AtEntry
  <2>8. QED
    BY <1>5, <2>5, <2>6, <2>7 DEF ReadMax
<1>6. CASE ApplySum(w)
  <2>1. \A x \in Messages : counted'[mart[w]][x] =
            IF x \in Window(old[w], new[w]) THEN counted[mart[w]][x] + 1
                                            ELSE counted[mart[w]][x]
    BY <1>2, <1>6 DEF ApplySum, TypeInv, TypeOK
  <2>2. \A m \in Marts : m # mart[w] => counted'[m] = counted[m]
    BY <1>6 DEF ApplySum, TypeInv, TypeOK
  <2>3. MartsGrow
    BY <1>2, <2>1, <2>2 DEF MartsGrow
  <2>4. Covered(mart[w], old[w]) /\ pc[w] = "apply"
    BY <1>3, <1>6 DEF ApplySum, RefreshSound
  <2>5. \A x \in Messages : HasEvent(x) /\ event[x] <= new[w] => counted'[mart[w]][x] > 0
    BY <1>2, <2>1, <2>4 DEF Covered, Window
  <2>6. QED
    BY <1>1, <1>6, <2>3, <2>4, <2>5, AppliedInv DEF ApplySum
<1>7. CASE ApplyReplace(w)
  <2>1. \A x \in Messages : counted'[mart[w]][x] =
            IF x \in Touched(Window(old[w], new[w]))
              THEN IF HasEvent(x) THEN 1 ELSE 0
              ELSE counted[mart[w]][x]
    BY <1>2, <1>7 DEF ApplyReplace, TypeInv, TypeOK
  <2>2. \A m \in Marts : m # mart[w] => counted'[m] = counted[m]
    BY <1>7 DEF ApplyReplace, TypeInv, TypeOK
  <2>3. MartsGrow
    BY <1>2, <2>1, <2>2 DEF MartsGrow
  <2>4. Covered(mart[w], old[w]) /\ pc[w] = "apply"
    BY <1>3, <1>7 DEF ApplyReplace, RefreshSound
  <2>5. \A x \in Messages : HasEvent(x) /\ event[x] <= new[w] => counted'[mart[w]][x] > 0
    BY <1>2, <2>1, <2>4 DEF Covered, Window, Touched
  <2>6. QED
    BY <1>1, <1>7, <2>3, <2>4, <2>5, AppliedInv DEF ApplyReplace
<1>8. CASE FetchWindow(w)
  <2>1. /\ pc[w] = "apply" /\ pc'[w] = "rows" /\ new'[w] = new[w] /\ mart'[w] = mart[w]
        /\ pend'[w] = Window(old[w], new[w])
        /\ UNCHANGED <<event, top, wm, counted>>
    BY <1>8 DEF FetchWindow, Goto, store, TypeInv, TypeOK
  <2>2. EventsGrow /\ MartsGrow
    BY <2>1, StoreStays
  <2>3. IdsBelowTop' /\ WatermarkCovered'
    BY <1>1, <1>3, <2>1, <2>2, StoreKept
  <2>4. Covered(mart[w], old[w]) /\ new[w] <= top
    BY <1>3, <2>1 DEF RefreshSound
  <2>5. RefreshSound(w)'
    BY <1>2, <2>1, <2>4 DEF RefreshSound, Covered, HasEvent, Window
  <2>6. QED
    BY <1>1, <2>2, <2>3, <2>5, AssembleInv
<1>9. CASE UpsertBucket(w) \/ InsertOrIgnore(w)
  <2>1. /\ pc[w] = "rows" /\ pc'[w] = "rows" /\ new'[w] = new[w] /\ mart'[w] = mart[w]
        /\ UNCHANGED <<event, top, wm>>
    BY <1>9 DEF UpsertBucket, InsertOrIgnore
  <2>2. /\ \A m \in Marts, x \in Messages : counted[m][x] > 0 => counted'[m][x] > 0
        /\ \A x \in pend[w] : x \in pend'[w] \/ counted'[mart[w]][x] > 0
    <3>1. CASE UpsertBucket(w)
      <4>1. PICK B \in SUBSET Messages :
              /\ counted' = [counted EXCEPT ![mart[w]] =
                               [x \in Messages |-> IF x \in B THEN @[x] + 1 ELSE @[x]]]
              /\ pend' = [pend EXCEPT ![w] = @ \ B]
        BY <3>1 DEF UpsertBucket, TypeInv, TypeOK
      <4>2. \A x \in Messages : counted'[mart[w]][x] = IF x \in B THEN counted[mart[w]][x] + 1
                                                                   ELSE counted[mart[w]][x]
        BY <1>2, <4>1 DEF TypeInv, TypeOK
      <4>3. \A m \in Marts : m # mart[w] => counted'[m] = counted[m]
        BY <4>1 DEF TypeInv, TypeOK
      <4>4. pend'[w] = pend[w] \ B /\ pend[w] \subseteq Messages
        BY <4>1 DEF TypeInv, TypeOK
      <4>5. QED
        BY <1>2, <4>2, <4>3, <4>4
    <3>2. CASE InsertOrIgnore(w)
      <4>1. PICK y \in pend[w] : /\ counted' = [counted EXCEPT ![mart[w]][y] = 1]
                                 /\ pend' = [pend EXCEPT ![w] = @ \ {y}]
        BY <3>2 DEF InsertOrIgnore
      <4>2. pend'[w] = pend[w] \ {y} /\ y \in Messages
        BY <4>1 DEF TypeInv, TypeOK
      <4>3. counted'[mart[w]][y] = 1
        BY <1>2, <4>1, <4>2 DEF TypeInv, TypeOK
      <4>4. \A m \in Marts, x \in Messages :
              ~(m = mart[w] /\ x = y) => counted'[m][x] = counted[m][x]
        BY <1>2, <4>1, <4>2 DEF TypeInv, TypeOK
      <4>5. QED
        BY <4>2, <4>3, <4>4
    <3>3. QED BY <1>9, <3>1, <3>2
  <2>3. EventsGrow /\ MartsGrow
    BY <2>1, <2>2, StoreStays DEF MartsGrow
  <2>4. IdsBelowTop' /\ WatermarkCovered'
    BY <1>1, <1>3, <2>1, <2>3, StoreKept
  <2>5. RefreshSound(w)'
    BY <1>2, <1>3, <2>1, <2>2 DEF RefreshSound, HasEvent
  <2>6. QED
    BY <1>1, <2>3, <2>4, <2>5, AssembleInv
<1>10. CASE RowsDone(w)
  <2>1. UNCHANGED <<event, top, wm, counted>> /\ pc[w] = "rows" /\ pend[w] = {} /\ Applied(w)
    BY <1>10 DEF RowsDone, store
  <2>2. MartsGrow
    BY <2>1, StoreStays
  <2>3. \A x \in Messages : HasEvent(x) /\ event[x] <= new[w] => counted'[mart[w]][x] > 0
    BY <1>3, <2>1 DEF RefreshSound
  <2>4. QED
    BY <1>1, <2>1, <2>2, <2>3, AppliedInv
<1>11. CASE SetWatermark(w)
  <2>1. /\ pc[w] = "set" /\ UNCHANGED <<event, top, counted>>
        /\ wm' = [wm EXCEPT ![mart[w]] = Larger(@, new[w])]
        /\ NextMart(w)
    BY <1>11 DEF SetWatermark
  <2>2. EventsGrow /\ MartsGrow
    BY <2>1, StoreStays
  <2>3. Working(w) /\ LocalsType
    BY <2>1, BusyIsWorking, TypeSplit DEF TypeInv
  <2>4. AtEntry(w)
    BY <2>1, <2>3, NextMartFacts
  <2>5. new[w] <= top /\ Covered(mart[w], new[w])
    BY <1>3, <2>1 DEF RefreshSound
  <2>6. \A m \in Marts : \/ wm'[m] = wm[m]
                         \/ m = mart[w] /\ wm'[m] = new[w]
    BY <2>1 DEF Larger, TypeInv, TypeOK
  <2>7. IdsBelowTop'
    BY <1>3, <2>1, <2>5, <2>6 DEF IdsBelowTop
  <2>8. WatermarkCovered'
    BY <1>3, <2>1, <2>5, <2>6 DEF WatermarkCovered, Covered, HasEvent
  <2>9. RefreshSound(w)'
    BY <2>4 DEF RefreshSound, AtEntry
  <2>10. QED
    BY <1>1, <2>2, <2>7, <2>8, <2>9, AssembleInv
<1>12. QED
  BY <1>4, <1>5, <1>6, <1>7, <1>8, <1>9, <1>10, <1>11 DEF Refresh

(* The steps that write no mart.                                           *)
LEMMA OtherInv ==
    ASSUME TypeInv, CountsAssumption, ShapeAssumption, MartInv, NEW w \in Workers,
           \/ Start(w) \/ Commit(w) \/ CommitNothing(w) \/ Recent(w) \/ Backfill(w)
           \/ Fail(w)
    PROVE  MartInv'
<1>1. /\ pend[w] \subseteq Messages /\ messages \in 0..MaxMessages /\ MaxMessages \in Nat
      /\ Batch \in Nat
  BY DEF TypeInv, TypeOK, CountsAssumption
<1>2. ASSUME TypeInv', Others(w), AtEntry(w), UNCHANGED <<event, top, wm, counted>>
      PROVE  MartInv'
  BY <1>2, StoreStays, EntryInv DEF AtEntry
<1>3. CASE Start(w)
  BY <1>2, <1>3, StartType DEF Start, store
<1>4. CASE CommitNothing(w)
  BY <1>2, <1>4, CommitNothingType DEF CommitNothing, store
<1>5. CASE Fail(w)
  BY <1>2, <1>5, FailType DEF Fail, Die, Noted, SkipRecent, store
<1>6. CASE Commit(w)
  <2>1. PICK k \in 1..Batch : /\ messages + k <= MaxMessages
                              /\ \E c \in 0..k : InsertEvents(messages + 1..messages + c)
    BY <1>6 DEF Commit
  <2>2. PICK c \in 0..k : InsertEvents(messages + 1..messages + c)
    BY <2>1
  <2>3. messages + 1..messages + c \subseteq Messages
    BY <1>1, <2>1, <2>2 DEF Messages
  <2>4. EventsGrow /\ MartsGrow /\ wm' = wm
    BY <1>6, <2>2, <2>3, StoreInserts DEF Commit
  <2>5. QED
    BY <1>6, <2>4, CommitType, EntryInv DEF AtEntry
<1>7. CASE Recent(w)
  <2>1. TypeInv' /\ Others(w)
    BY <1>7, RecentType
  <2>2. EventsGrow /\ MartsGrow /\ wm' = wm
    <3>1. CASE SelectRecent(w) \/ RecentDone(w)
      BY <3>1, StoreStays DEF SelectRecent, RecentDone, store
    <3>2. CASE InsertRecent(w)
      <4>1. PICK y \in pend[w] : InsertEvents({y})
        BY <3>2 DEF InsertRecent
      <4>2. {y} \subseteq Messages /\ counted' = counted /\ wm' = wm
        BY <1>1, <3>2 DEF InsertRecent
      <4>3. QED BY <4>1, <4>2, StoreInserts
    <3>3. QED BY <1>7, <3>1, <3>2 DEF Recent
  <2>3. pc'[w] \notin {"max", "apply", "rows", "set"}
    <3>1. CASE SelectRecent(w)
      BY <3>1 DEF SelectRecent, Goto, TypeInv, TypeOK
    <3>2. CASE InsertRecent(w)
      BY <3>2 DEF InsertRecent
    <3>3. CASE RecentDone(w)
      BY <3>3, NextPhaseFacts, BusyIsWorking, TypeSplit DEF RecentDone, AtEntry, TypeInv
    <3>4. QED BY <1>7, <3>1, <3>2, <3>3 DEF Recent
  <2>4. QED
    BY <2>1, <2>2, <2>3, EntryInv
<1>8. CASE Backfill(w)
  <2>1. TypeInv' /\ Others(w)
    BY <1>8, BackfillType
  <2>2. EventsGrow /\ MartsGrow /\ wm' = wm
    BY <1>1, <1>8, StoreStays, StoreInserts DEF Backfill, FetchChunk, ConvertChunk, store
  <2>3. pc'[w] \notin {"max", "apply", "rows", "set"}
    <3>1. CASE NextPhase(w)
      BY <1>8, <3>1, NextPhaseFacts, BusyIsWorking, TypeSplit
         DEF Backfill, FetchChunk, ConvertChunk, AtEntry, TypeInv
    <3>2. CASE ~NextPhase(w)
      BY <1>8, <3>2 DEF Backfill, FetchChunk, ConvertChunk, Goto, TypeInv, TypeOK
    <3>3. QED BY <3>1, <3>2
  <2>4. QED
    BY <2>1, <2>2, <2>3, EntryInv
<1>9. QED
  BY <1>3, <1>4, <1>5, <1>6, <1>7, <1>8

LEMMA InitInv == CountsAssumption /\ Init => MartInv
<1> SUFFICES ASSUME CountsAssumption, Init PROVE MartInv
  OBVIOUS
<1>1. IdsBelowTop /\ WatermarkCovered
  BY DEF Init, IdsBelowTop, WatermarkCovered, HasEvent
<1>2. \A w \in Workers : ControlOK(w)
  BY DEF Init, ControlOK
<1>3. \A w \in Workers : RefreshSound(w)
  BY DEF Init, RefreshSound
<1>4. QED
  BY <1>1, <1>2, <1>3 DEF MartInv

LEMMA NextInv ==
    CountsAssumption /\ ShapeAssumption /\ TypeInv /\ NoForce /\ MartInv /\ [Next]_vars
        => MartInv'
<1> SUFFICES ASSUME CountsAssumption, ShapeAssumption, TypeInv, NoForce, MartInv, [Next]_vars
             PROVE  MartInv'
  OBVIOUS
<1>1. CASE UNCHANGED vars
  BY <1>1 DEF vars, store, frame, history, MartInv, IdsBelowTop, WatermarkCovered, HasEvent,
              ControlOK, PhaseOf, NumPhases, RefreshSound, Covered
<1>2. ASSUME NEW w \in Workers, Start(w) \/ Fail(w) PROVE MartInv'
  BY <1>2, OtherInv
<1>3. ASSUME NEW w \in Workers, Step(w) PROVE MartInv'
  BY <1>3, OtherInv, RefreshInv, NoWipe DEF Step
<1>4. QED
  BY <1>1, <1>2, <1>3 DEF Next

(* In a store no forced backfill wipes, the inductive invariant holds in   *)
(* every reachable state, whatever interleaves and whichever jobs die.     *)
THEOREM MartInvariant == NeverForced => (Spec => []MartInv)
<1>1. Init => TypeInv /\ NoForce /\ MartInv
  BY InitType, InitInv, CountsAssumption DEF NoForce, Init
<1>2. NeverForced /\ TypeInv /\ NoForce /\ MartInv /\ [Next]_vars
        => (TypeInv /\ NoForce /\ MartInv)'
  BY NextType, NoForceKept, NextInv, CountsAssumption, ShapeAssumption
<1>3. ASSUME NeverForced PROVE Spec => []MartInv
  <2>1. TypeInv /\ NoForce /\ MartInv /\ [Next]_vars => (TypeInv /\ NoForce /\ MartInv)'
    BY <1>2, <1>3
  <2>2. QED
    BY <1>1, <2>1, PTL DEF Spec
<1>4. QED
  BY <1>3

(* Every event at or below a mart's watermark is in that mart: overlapping *)
(* refreshes, failed jobs and concurrent backfills never lose an event     *)
(* from a mart, as long as no forced backfill deletes events.              *)
THEOREM WatermarksKeepTheirPromise == NeverForced => (Spec => []WatermarkCovered)
<1>1. ASSUME NeverForced PROVE Spec => []WatermarkCovered
  <2>1. Spec => []MartInv
    BY <1>1, MartInvariant
  <2>2. MartInv => WatermarkCovered
    BY DEF MartInv
  <2>3. QED
    BY <2>1, <2>2, PTL
<1>2. QED
  BY <1>1
-----------------------------------------------------------------------------
(* What follows from the types alone, forced backfills included: marts     *)
(* that recompute or ignore count nothing twice, and no watermark retreats.*)

LEMMA AlwaysTyped == Spec => []TypeInv
BY InitType, NextType, CountsAssumption, ShapeAssumption, PTL DEF Spec

-----------------------------------------------------------------------------
(* Which statements write a mart, and which a watermark.                   *)

LEMMA MartsWritten ==
    ASSUME NEW w \in Workers, Start(w) \/ Step(w) \/ Fail(w)
    PROVE  \/ counted' = counted
           \/ ApplySum(w) \/ ApplyReplace(w) \/ UpsertBucket(w) \/ InsertOrIgnore(w)
           \/ ClearMart(w)
BY DEF Start, Step, Fail, Commit, CommitNothing, Refresh, Recent, Backfill, Wipe, GetWatermark,
       ReadMax, FetchWindow, RowsDone, SetWatermark, SelectRecent, InsertRecent, RecentDone,
       FetchChunk, ConvertChunk, DropEvents, DeleteWatermarks, Die, Noted, SkipRecent, store

LEMMA WatermarksWritten ==
    ASSUME NEW w \in Workers, Start(w) \/ Step(w) \/ Fail(w)
    PROVE  wm' = wm \/ SetWatermark(w) \/ DeleteWatermarks(w)
BY DEF Start, Step, Fail, Commit, CommitNothing, Refresh, Recent, Backfill, Wipe, GetWatermark,
       ReadMax, FetchWindow, RowsDone, ApplySum, ApplyReplace, UpsertBucket, InsertOrIgnore,
       SelectRecent, InsertRecent, RecentDone, FetchChunk, ConvertChunk, DropEvents, ClearMart,
       Die, Noted, SkipRecent, store

LEMMA OnceKept == TypeInv /\ RecomputedOnce /\ [Next]_vars => RecomputedOnce'
<1> SUFFICES ASSUME TypeInv, RecomputedOnce, [Next]_vars PROVE RecomputedOnce'
  OBVIOUS
<1>1. CASE UNCHANGED vars
  BY <1>1 DEF vars, store, RecomputedOnce
<1>2. ASSUME NEW w \in Workers, Start(w) \/ Step(w) \/ Fail(w) PROVE RecomputedOnce'
  <2>0. mart[w] \in Marts /\ \A m \in Marts : counted[m] \in [Messages -> Nat]
    BY DEF TypeInv, TypeOK
  <2>1. CASE counted' = counted
    BY <2>1 DEF RecomputedOnce
  <2>2. CASE ApplySum(w) \/ UpsertBucket(w)
    <3>1. Kind[mart[w]] \in {"sum", "bucket"}
      BY <2>2 DEF ApplySum, UpsertBucket
    <3>2. \A m \in Marts : m # mart[w] => counted'[m] = counted[m]
      BY <2>2 DEF ApplySum, UpsertBucket, TypeInv, TypeOK
    <3> QED
      BY <3>1, <3>2 DEF RecomputedOnce
  <2>3. CASE ApplyReplace(w)
    <3>1. \A x \in Messages : counted'[mart[w]][x] \in {0, 1, counted[mart[w]][x]}
      BY <2>0, <2>3 DEF ApplyReplace, TypeInv, TypeOK
    <3>2. \A m \in Marts : m # mart[w] => counted'[m] = counted[m]
      BY <2>3 DEF ApplyReplace, TypeInv, TypeOK
    <3> QED
      BY <2>0, <3>1, <3>2 DEF RecomputedOnce
  <2>4. CASE InsertOrIgnore(w)
    <3>1. PICK y \in pend[w] : counted' = [counted EXCEPT ![mart[w]][y] = 1]
      BY <2>4 DEF InsertOrIgnore
    <3>2. \A m \in Marts, x \in Messages : counted'[m][x] \in {1, counted[m][x]}
      BY <2>0, <3>1 DEF TypeInv, TypeOK
    <3> QED
      BY <3>2 DEF RecomputedOnce
  <2>5. CASE ClearMart(w)
    <3>1. \A m \in Marts, x \in Messages : counted'[m][x] \in {0, counted[m][x]}
      BY <2>0, <2>5 DEF ClearMart, TypeInv, TypeOK
    <3> QED
      BY <3>1 DEF RecomputedOnce
  <2> QED
    BY <1>2, <2>1, <2>2, <2>3, <2>4, <2>5, MartsWritten
<1> QED
  BY <1>1, <1>2 DEF Next

(* Marts that recompute the rows they touch, or ignore what is there, count*)
(* no event twice, whatever overlaps, dies, or is wiped.                   *)
THEOREM RecomputingCountsOnce == Spec => []RecomputedOnce
<1>1. Init => RecomputedOnce
  BY DEF Init, RecomputedOnce
<1> QED
  BY <1>1, AlwaysTyped, OnceKept, PTL DEF Spec

(* The upsert with MAX is all it takes: of all statements that store a     *)
(* watermark only the DELETE of a forced backfill makes one smaller.       *)
THEOREM WatermarksGrow == Spec => WatermarkNeverRetreats
<1> DEFINE Retreat == \A m \in Marts : wm'[m] < wm[m] => \E w \in Workers : pc[w] = "unmark"
<1>1. ASSUME TypeInv, [Next]_vars PROVE [Retreat]_vars
  <2>1. ASSUME NEW w \in Workers, SetWatermark(w) PROVE Retreat
    <3>1. \A m \in Marts : wm'[m] \in {wm[m], Larger(wm[m], new[w])}
      BY <1>1, <2>1 DEF SetWatermark, TypeInv, TypeOK
    <3>2. new[w] \in Nat /\ \A m \in Marts : wm[m] \in Nat
      BY <1>1 DEF TypeInv, TypeOK
    <3> QED
      BY <3>1, <3>2 DEF Larger
  <2>2. ASSUME NEW w \in Workers, DeleteWatermarks(w) PROVE Retreat
    BY <2>2 DEF DeleteWatermarks
  <2>3. CASE wm' = wm
    BY <1>1, <2>3 DEF TypeInv, TypeOK
  <2> QED
    BY <1>1, <2>1, <2>2, <2>3, WatermarksWritten DEF Next
<1> QED
  BY <1>1, AlwaysTyped, PTL DEF Spec, WatermarkNeverRetreats

-----------------------------------------------------------------------------
(* The refinement.  A mart shows only messages that have an event, which   *)
(* needs that the rows a refresh fetched, and has not applied yet, have    *)
(* one: nothing but a forced backfill takes an event away.                 *)

Backed ==
    /\ \A m \in Marts, x \in Messages : counted[m][x] > 0 => HasEvent(x)
    /\ \A w \in Workers : pc[w] = "rows" => \A x \in pend[w] : HasEvent(x)

EventsStay == \A x \in Messages : HasEvent(x) => event'[x] # 0

(* Worker w adds rows of known events to the mart it refreshes.            *)
Publishes(w) ==
    /\ event' = event
    /\ \A m \in Marts \ {mart[w]} : counted'[m] = counted[m]
    /\ \A x \in Messages : /\ counted[mart[w]][x] > 0 => counted'[mart[w]][x] > 0
                           /\ counted'[mart[w]][x] > 0 =>
                                  counted[mart[w]][x] > 0 \/ HasEvent(x)

FetchedBacked(w) == pc'[w] = "rows" => \A x \in pend'[w] : event'[x] # 0

LEMMA QuietSteps ==
    ASSUME TypeInv, NEW w \in Workers,
           \/ Start(w) \/ Commit(w) \/ CommitNothing(w) \/ Recent(w) \/ Backfill(w)
           \/ Fail(w)
    PROVE  Others(w) /\ EventsStay /\ counted' = counted /\ FetchedBacked(w)
<1> USE CountsAssumption, ShapeAssumption
<1>1. /\ pend[w] \subseteq Messages /\ messages \in 0..MaxMessages /\ MaxMessages \in Nat
      /\ Batch \in Nat
  BY DEF TypeInv, TypeOK, CountsAssumption
<1>2. event' = event => EventsStay
  BY DEF EventsStay, HasEvent
<1>3. ASSUME NEW S, S \subseteq Messages, InsertEvents(S) PROVE EventsStay
  BY <1>3, InsertFacts DEF EventsStay, HasEvent, TypeInv, TypeOK, CountsAssumption
<1>4. AtEntry(w) => FetchedBacked(w)
  BY DEF AtEntry, FetchedBacked
<1>5. CASE Start(w)
  BY <1>2, <1>4, <1>5, StartType DEF Start, store
<1>6. CASE CommitNothing(w)
  BY <1>2, <1>4, <1>6, CommitNothingType DEF CommitNothing, store
<1>7. CASE Fail(w)
  BY <1>2, <1>4, <1>7, FailType DEF Fail, Die, Noted, SkipRecent, store
<1>8. CASE Commit(w)
  <2>1. PICK k \in 1..Batch : /\ messages + k <= MaxMessages
                              /\ \E c \in 0..k : InsertEvents(messages + 1..messages + c)
    BY <1>8 DEF Commit
  <2>2. PICK c \in 0..k : InsertEvents(messages + 1..messages + c)
    BY <2>1
  <2>3. messages + 1..messages + c \subseteq Messages
    BY <1>1, <2>1, <2>2 DEF Messages
  <2>4. EventsStay
    BY <1>3, <2>2, <2>3
  <2> QED
    BY <1>4, <1>8, <2>4, CommitType DEF Commit
<1>9. CASE Recent(w)
  <2>1. EventsStay /\ counted' = counted
    <3>1. CASE SelectRecent(w) \/ RecentDone(w)
      BY <1>2, <3>1 DEF SelectRecent, RecentDone, store
    <3>2. CASE InsertRecent(w)
      <4>1. PICK y \in pend[w] : InsertEvents({y})
        BY <3>2 DEF InsertRecent
      <4>2. {y} \subseteq Messages
        BY <1>1
      <4> QED BY <1>3, <3>2, <4>1, <4>2 DEF InsertRecent
    <3> QED BY <1>9, <3>1, <3>2 DEF Recent
  <2>2. pc'[w] # "rows"
    <3>1. CASE SelectRecent(w)
      BY <3>1 DEF SelectRecent, Goto, TypeInv, TypeOK
    <3>2. CASE InsertRecent(w)
      BY <3>2 DEF InsertRecent
    <3>3. CASE RecentDone(w)
      BY <3>3, NextPhaseFacts, BusyIsWorking, TypeSplit DEF RecentDone, AtEntry, TypeInv
    <3> QED BY <1>9, <3>1, <3>2, <3>3 DEF Recent
  <2> QED
    BY <1>9, <2>1, <2>2, RecentType DEF FetchedBacked
<1>10. CASE Backfill(w)
  <2>1. EventsStay /\ counted' = counted
    BY <1>1, <1>2, <1>3, <1>10 DEF Backfill, FetchChunk, ConvertChunk, store
  <2>2. pc'[w] # "rows"
    <3>1. CASE NextPhase(w)
      BY <1>10, <3>1, NextPhaseFacts, BusyIsWorking, TypeSplit
         DEF Backfill, FetchChunk, ConvertChunk, AtEntry, TypeInv
    <3>2. CASE ~NextPhase(w)
      BY <1>10, <3>2 DEF Backfill, FetchChunk, ConvertChunk, Goto, TypeInv, TypeOK
    <3> QED BY <3>1, <3>2
  <2> QED
    BY <1>10, <2>1, <2>2, BackfillType DEF FetchedBacked
<1> QED
  BY <1>5, <1>6, <1>7, <1>8, <1>9, <1>10

LEMMA RefreshSteps ==
    ASSUME TypeInv, Backed, NEW w \in Workers, Refresh(w)
    PROVE  /\ Others(w) /\ EventsStay /\ FetchedBacked(w)
           /\ counted' = counted \/ Publishes(w)
<1> USE CountsAssumption, ShapeAssumption
<1>1. Others(w)
  BY RefreshType
<1>2. event' = event
  BY DEF Refresh, GetWatermark, ReadMax, ApplySum, ApplyReplace, FetchWindow, UpsertBucket,
         InsertOrIgnore, RowsDone, SetWatermark, store
<1>3. EventsStay
  BY <1>2 DEF EventsStay, HasEvent
<1>4. /\ mart[w] \in Marts /\ pend[w] \subseteq Messages
      /\ \A m \in Marts : counted[m] \in [Messages -> Nat]
      /\ \A m \in Marts, x \in Messages : counted[m][x] \in Nat
  BY DEF TypeInv, TypeOK
<1>5. pc[w] \in {"apply", "rows"} /\ Applied(w) => FetchedBacked(w)
  BY AppliedFacts DEF AtEntry, FetchedBacked
<1>6. pc[w] # "idle" /\ NextMart(w) => FetchedBacked(w)
  BY NextMartFacts, BusyIsWorking, TypeSplit DEF AtEntry, FetchedBacked, TypeInv
<1>7. CASE GetWatermark(w)
  BY <1>1, <1>3, <1>7 DEF GetWatermark, Goto, store, FetchedBacked, TypeInv, TypeOK
<1>8. CASE ReadMax(w)
  <2>1. FetchedBacked(w)
    BY <1>6, <1>8 DEF ReadMax, Goto, FetchedBacked, TypeInv, TypeOK
  <2> QED
    BY <1>1, <1>3, <1>8, <2>1 DEF ReadMax, store
<1>9. CASE ApplySum(w)
  <2>1. \A x \in Messages : counted'[mart[w]][x] =
            IF x \in Window(old[w], new[w]) THEN counted[mart[w]][x] + 1
                                            ELSE counted[mart[w]][x]
    BY <1>4, <1>9 DEF ApplySum, TypeInv, TypeOK
  <2>2. \A m \in Marts \ {mart[w]} : counted'[m] = counted[m]
    BY <1>9 DEF ApplySum, TypeInv, TypeOK
  <2>3. Publishes(w)
    BY <1>2, <1>4, <2>1, <2>2 DEF Publishes, Window
  <2> QED
    BY <1>1, <1>3, <1>5, <1>9, <2>3 DEF ApplySum
<1>10. CASE ApplyReplace(w)
  <2>1. \A x \in Messages : counted'[mart[w]][x] =
            IF x \in Touched(Window(old[w], new[w]))
              THEN IF HasEvent(x) THEN 1 ELSE 0
              ELSE counted[mart[w]][x]
    BY <1>4, <1>10 DEF ApplyReplace, TypeInv, TypeOK
  <2>2. \A m \in Marts \ {mart[w]} : counted'[m] = counted[m]
    BY <1>10 DEF ApplyReplace, TypeInv, TypeOK
  <2>3. Publishes(w)
    BY <1>2, <1>4, <2>1, <2>2 DEF Publishes, Backed
  <2> QED
    BY <1>1, <1>3, <1>5, <1>10, <2>3 DEF ApplyReplace
<1>11. CASE FetchWindow(w)
  <2>1. pend'[w] = Window(old[w], new[w]) /\ counted' = counted
    BY <1>11 DEF FetchWindow, store, TypeInv, TypeOK
  <2>2. FetchedBacked(w)
    BY <1>2, <2>1 DEF FetchedBacked, Window, HasEvent
  <2> QED
    BY <1>1, <1>3, <2>1, <2>2
<1>12. CASE UpsertBucket(w)
  <2>1. PICK B \in SUBSET pend[w] :
          /\ counted' = [counted EXCEPT ![mart[w]] =
                           [x \in Messages |-> IF x \in B THEN @[x] + 1 ELSE @[x]]]
          /\ pend' = [pend EXCEPT ![w] = @ \ B]
    BY <1>12 DEF UpsertBucket
  <2>2. \A x \in Messages : counted'[mart[w]][x] = IF x \in B THEN counted[mart[w]][x] + 1
                                                               ELSE counted[mart[w]][x]
    BY <1>4, <2>1 DEF TypeInv, TypeOK
  <2>3. \A m \in Marts \ {mart[w]} : counted'[m] = counted[m]
    BY <2>1 DEF TypeInv, TypeOK
  <2>4. \A x \in pend[w] : HasEvent(x)
    BY <1>12 DEF UpsertBucket, Backed
  <2>5. pend'[w] \subseteq pend[w]
    BY <2>1 DEF TypeInv, TypeOK
  <2> QED
    BY <1>1, <1>2, <1>3, <1>4, <2>2, <2>3, <2>4, <2>5 DEF Publishes, FetchedBacked, HasEvent
<1>13. CASE InsertOrIgnore(w)
  <2>1. PICK y \in pend[w] : /\ counted' = [counted EXCEPT ![mart[w]][y] = 1]
                             /\ pend' = [pend EXCEPT ![w] = @ \ {y}]
    BY <1>13 DEF InsertOrIgnore
  <2>2. \A x \in Messages : counted'[mart[w]][x] = IF x = y THEN 1 ELSE counted[mart[w]][x]
    BY <1>4, <2>1 DEF TypeInv, TypeOK
  <2>3. \A m \in Marts \ {mart[w]} : counted'[m] = counted[m]
    BY <2>1 DEF TypeInv, TypeOK
  <2>4. \A x \in pend[w] : HasEvent(x)
    BY <1>13 DEF InsertOrIgnore, Backed
  <2>5. pend'[w] \subseteq pend[w]
    BY <2>1 DEF TypeInv, TypeOK
  <2> QED
    BY <1>1, <1>2, <1>3, <1>4, <2>2, <2>3, <2>4, <2>5 DEF Publishes, FetchedBacked, HasEvent
<1>14. CASE RowsDone(w)
  BY <1>1, <1>3, <1>5, <1>14 DEF RowsDone, store
<1>15. CASE SetWatermark(w)
  BY <1>1, <1>3, <1>6, <1>15 DEF SetWatermark
<1> QED
  BY <1>7, <1>8, <1>9, <1>10, <1>11, <1>12, <1>13, <1>14, <1>15 DEF Refresh

LEMMA BackedKept ==
    ASSUME TypeInv, Backed, NEW w \in Workers, Others(w), EventsStay, FetchedBacked(w),
           counted' = counted \/ Publishes(w)
    PROVE  Backed'
<1>1. ASSUME NEW m \in Marts, NEW x \in Messages, counted'[m][x] > 0 PROVE event'[x] # 0
  <2>1. CASE counted' = counted
    BY <1>1, <2>1 DEF Backed, EventsStay
  <2>2. CASE Publishes(w)
    <3>1. CASE m = mart[w]
      BY <1>1, <2>2, <3>1 DEF Publishes, Backed, EventsStay
    <3>2. CASE m # mart[w]
      BY <1>1, <2>2, <3>2 DEF Publishes, Backed, EventsStay
    <3> QED BY <3>1, <3>2
  <2> QED BY <2>1, <2>2
<1>2. ASSUME NEW v \in Workers, pc'[v] = "rows", NEW x \in pend'[v] PROVE event'[x] # 0
  <2>1. CASE v = w
    BY <1>2, <2>1 DEF FetchedBacked
  <2>2. CASE v # w
    BY <1>2, <2>2 DEF Others, Same, Backed, EventsStay, TypeInv, TypeOK
  <2> QED BY <2>1, <2>2
<1> QED
  BY <1>1, <1>2 DEF Backed, HasEvent

Known == {x \in Messages : HasEvent(x)}
Shown == [m \in Marts |-> {x \in Messages : counted[m][x] > 0}]

LEMMA LearnStep ==
    ASSUME EventsStay, counted' = counted
    PROVE  View!Next \/ UNCHANGED View!vars
<1>1. Shown' = Shown
  BY DEF Shown
<1>2. Known \subseteq Known'
  BY DEF Known, EventsStay, HasEvent
<1> DEFINE S == Known' \ Known
<1>3. CASE S = {}
  BY <1>1, <1>2, <1>3 DEF View!vars, Known, Shown
<1>4. CASE S # {}
  <2>1. S \in SUBSET (Messages \ Known) /\ Known' = Known \cup S
    BY <1>2 DEF Known
  <2>2. \E T \in SUBSET (Messages \ Known) : T # {} /\ Known' = Known \cup T
    BY <1>4, <2>1
  <2>3. View!Learn
    BY <1>1, <2>2 DEF View!Learn, Known, Shown
  <2> QED
    BY <2>3 DEF View!Next
<1> QED
  BY <1>3, <1>4

LEMMA PublishStep ==
    ASSUME TypeInv, NEW w \in Workers, Publishes(w)
    PROVE  View!Next \/ UNCHANGED View!vars
<1>1. PICK a \in Marts : a = mart[w]
  BY DEF TypeInv, TypeOK
<1> DEFINE S == Shown'[a] \ Shown[a]
<1>2. Known' = Known
  BY DEF Known, HasEvent, Publishes
<1>3. Shown[a] \subseteq Shown'[a] /\ S \subseteq Known
  <2>1. /\ Shown[a] = {x \in Messages : counted[a][x] > 0}
        /\ Shown'[a] = {x \in Messages : counted'[a][x] > 0}
    BY <1>1 DEF Shown
  <2>2. \A x \in Messages : /\ counted[a][x] > 0 => counted'[a][x] > 0
                            /\ counted'[a][x] > 0 => counted[a][x] > 0 \/ HasEvent(x)
    BY <1>1 DEF Publishes
  <2> QED
    BY <2>1, <2>2 DEF Known
<1>4. \A m \in Marts \ {a} : Shown'[m] = Shown[m]
  BY <1>1 DEF Shown, Publishes
<1>5. Shown' = [Shown EXCEPT ![a] = @ \cup S]
  <2>1. Shown'[a] = Shown[a] \cup S
    BY <1>3
  <2>2. Shown' = [m \in Marts |-> Shown'[m]] /\ Shown = [m \in Marts |-> Shown[m]]
    BY DEF Shown
  <2> HIDE DEF S
  <2> QED
    BY <1>1, <1>4, <2>1, <2>2
<1>6. CASE S = {}
  <2>1. Shown' = Shown
    BY <1>1, <1>5, <1>6 DEF Shown
  <2> QED
    BY <1>2, <2>1 DEF View!vars, Known, Shown
<1>7. CASE S # {}
  <2>1. S \in SUBSET (Known \ Shown[a])
    BY <1>3
  <2>2. \E T \in SUBSET (Known \ Shown[a]) : T # {} /\ Shown' = [Shown EXCEPT ![a] = @ \cup T]
    BY <1>5, <1>7, <2>1
  <2>3. View!Publish(a)
    BY <1>2, <2>2 DEF View!Publish, Known, Shown
  <2> QED
    BY <2>3 DEF View!Next
<1> QED
  BY <1>6, <1>7

LEMMA ViewStep ==
    TypeInv /\ NoForce /\ Backed /\ [Next]_vars
        => Backed' /\ [View!Next]_(View!vars)
<1> SUFFICES ASSUME TypeInv, NoForce, Backed, [Next]_vars
             PROVE  Backed' /\ (View!Next \/ UNCHANGED View!vars)
  OBVIOUS
<1>1. CASE UNCHANGED vars
  BY <1>1 DEF vars, store, frame, Backed, HasEvent, View!vars
<1>2. ASSUME NEW w \in Workers, Start(w) \/ Step(w) \/ Fail(w)
      PROVE  Backed' /\ (View!Next \/ UNCHANGED View!vars)
  <2>1. /\ Others(w) /\ EventsStay /\ FetchedBacked(w)
        /\ counted' = counted \/ Publishes(w)
    BY <1>2, QuietSteps, RefreshSteps, NoWipe DEF Step
  <2> QED
    BY <2>1, BackedKept, LearnStep, PublishStep
<1> QED
  BY <1>1, <1>2 DEF Next

(* The safety half of ImplementsView, in a store no forced backfill wipes: *)
(* a mart shows only events, and never takes one back, for any number of   *)
(* workers and marts.                                                      *)
THEOREM MartsSimulateView ==
    NeverForced => (Spec => View!Init /\ [][View!Next]_(View!vars))
<1>1. Init => TypeInv /\ NoForce /\ Backed
  BY InitType, CountsAssumption DEF NoForce, Backed, Init
<1>2. Init => View!Init
  BY DEF Init, HasEvent, View!Init
<1>3. ASSUME NeverForced PROVE Spec => View!Init /\ [][View!Next]_(View!vars)
  <2>1. TypeInv /\ NoForce /\ Backed /\ [Next]_vars => (TypeInv /\ NoForce /\ Backed)'
    BY <1>3, NextType, NoForceKept, ViewStep, CountsAssumption, ShapeAssumption
  <2>2. TypeInv /\ NoForce /\ Backed /\ [Next]_vars => [View!Next]_(View!vars)
    BY ViewStep
  <2> QED
    BY <1>1, <1>2, <2>1, <2>2, PTL DEF Spec
<1> QED
  BY <1>3
-----------------------------------------------------------------------------
(* No event is left behind a watermark when every job has ended.           *)

(* A process that may force a backfill is alone with the store.            *)
SoleForcer == \A v \in Workers : "force" \in Jobs[v] => Workers = {v}

OwnJobs == \A w \in Workers : job[w] \in Jobs[w] \cup {"none"}

(* Worker w has yet to bring mart m up to the last event: a refresh of m   *)
(* is ahead of it in its job, or it is at it and has seen that event.      *)
Owes(w, m) ==
    /\ job[w] # "none" /\ pc[w] # "commit"
    /\ \/ phase[w] < NumPhases(job[w])
       \/ mart[w] < m
       \/ mart[w] = m /\ (pc[w] \in {"get", "max"}
                            \/ (pc[w] \in {"apply", "rows", "set"} /\ new[w] = top))

(* No watermark is beyond the events, but while a forced backfill has      *)
(* deleted the events and not yet the watermarks.                          *)
BelowTop ==
    /\ \A m \in Marts : wm[m] <= top \/ \E w \in Workers : pc[w] = "unmark"
    /\ \A w \in Workers : /\ pc[w] = "clear" => old[w] = 0
                          /\ pc[w] = "max" => old[w] <= top
                          /\ pc[w] \in {"apply", "rows", "set"} => new[w] <= top

(* A mart is up to date, or some worker owes it a refresh.                 *)
CaughtUp == \A m \in Marts : wm[m] = top \/ \E w \in Workers : Owes(w, m)

FreshInv == OwnJobs /\ (fails = 0 => BelowTop /\ CaughtUp)

(* Every job ends with a refresh of all marts, and commits in its first    *)
(* phase only.                                                             *)
LEMMA PhaseShape ==
    ASSUME NEW j \in JobKinds, NEW i \in 1..NumPhases(j)
    PROVE  /\ Phases[j][NumPhases(j)] = "refresh"
           /\ Phases[j][i] # "refresh" => i < NumPhases(j)
           /\ i > 1 => Phases[j][i] # "commit"
           /\ Phases[j][i] = "drop" => i < NumPhases(j) /\ Phases[j][i + 1] = "unmark"
           /\ Phases[j][i] \in {"drop", "unmark", "rebuild"} => j = "force"
           /\ i > 1 /\ Phases[j][i] = "unmark" => Phases[j][i - 1] = "drop"
           /\ Phases[j][1] \in {"commit", "refresh", "pass", "drop"}
<1>1. CASE j = "ingest"   BY <1>1 DEF JobKinds, Phases, NumPhases
<1>2. CASE j = "cycle"    BY <1>2 DEF JobKinds, Phases, NumPhases
<1>3. CASE j = "touch"    BY <1>3 DEF JobKinds, Phases, NumPhases
<1>4. CASE j = "backfill" BY <1>4 DEF JobKinds, Phases, NumPhases
<1>5. CASE j = "force"    BY <1>5 DEF JobKinds, Phases, NumPhases
<1>6. QED BY <1>1, <1>2, <1>3, <1>4, <1>5 DEF JobKinds

(* The phase a worker is in, told from its statement.                      *)
LEMMA WhichPhase ==
    ASSUME TypeInv, NEW w \in Workers, pc[w] # "idle"
    PROVE  /\ Working(w) /\ PhaseOf(w) \in PhaseNames /\ job[w] # "none"
           /\ phase[w] \in 1..NumPhases(job[w]) /\ NumPhases(job[w]) \in 1..5
           /\ pc[w] = "commit" => PhaseOf(w) = "commit"
           /\ pc[w] \in {"get", "set"} => PhaseOf(w) = "refresh"
           /\ pc[w] \in {"max", "apply", "rows"} => PhaseOf(w) \in {"refresh", "rebuild"}
           /\ pc[w] \in {"select", "insert"} => PhaseOf(w) = "recent"
           /\ pc[w] \in {"fetch", "convert"} => PhaseOf(w) = "pass"
           /\ pc[w] = "drop" => PhaseOf(w) = "drop"
           /\ pc[w] = "unmark" => PhaseOf(w) = "unmark"
           /\ pc[w] = "clear" => PhaseOf(w) = "rebuild"
           /\ PhaseOf(w) # "refresh" => phase[w] < NumPhases(job[w])
           /\ PhaseOf(w) \in {"drop", "unmark", "rebuild"} => job[w] = "force"
<1>1. Working(w) /\ PhaseOf(w) \in PhaseNames
  BY BusyIsWorking
<1>2. pc[w] \in PhaseStatements[PhaseOf(w)] /\ job[w] \in JobKinds
      /\ phase[w] \in 1..NumPhases(job[w]) /\ NumPhases(job[w]) \in 1..5
  BY <1>1, PhaseFacts DEF Working
<1>3. /\ PhaseOf(w) # "refresh" => phase[w] < NumPhases(job[w])
      /\ PhaseOf(w) \in {"drop", "unmark", "rebuild"} => job[w] = "force"
  BY <1>2, PhaseShape DEF PhaseOf
<1>4. job[w] # "none"
  BY <1>2 DEF JobKinds
<1> QED
  BY <1>1, <1>2, <1>3, <1>4 DEF PhaseStatements, PhaseNames

(* What the next phase owes.                                               *)
LEMMA PhaseOwes ==
    ASSUME TypeInv, NEW w \in Workers, Working(w), NextPhase(w)
    PROVE  /\ phase[w] < NumPhases(job[w]) => \A m \in Marts : Owes(w, m)'
           /\ old'[w] = 0 /\ pc'[w] \notin {"max", "apply", "rows", "set"}
           /\ pc'[w] = "unmark" => PhaseOf(w) = "drop"
           /\ PhaseOf(w) = "drop" => pc'[w] = "unmark"
<1>1. /\ job[w] \in JobKinds /\ phase[w] \in 1..NumPhases(job[w]) /\ NumPhases(job[w]) \in 1..5
  BY PhaseFacts DEF Working
<1>2. old'[w] = 0 /\ mart'[w] = 1
  BY DEF NextPhase, Fresh, TypeInv, TypeOK
<1>3. CASE phase[w] < NumPhases(job[w])
  <2>1. /\ phase' = [phase EXCEPT ![w] = phase[w] + 1] /\ job' = job
        /\ pc' = [pc EXCEPT ![w] = Entry[Phases[job[w]][phase[w] + 1]]]
    BY <1>1, <1>3 DEF NextPhase, Goto
  <2>2. /\ phase'[w] = phase[w] + 1 /\ job'[w] = job[w]
        /\ pc'[w] = Entry[Phases[job[w]][phase[w] + 1]]
    BY <2>1 DEF TypeInv, TypeOK
  <2>3. PICK i \in 1..NumPhases(job[w]) : i = phase[w] + 1 /\ i > 1
    BY <1>1, <1>3
  <2>4. Phases[job[w]][i] \in PhaseNames /\ Phases[job[w]][i] # "commit"
    BY <1>1, <2>3, PhaseFacts, PhaseShape
  <2>5. pc'[w] = Entry[Phases[job[w]][i]]
    BY <2>2, <2>3
  <2>6. pc'[w] # "commit" /\ pc'[w] \notin {"max", "apply", "rows", "set"}
        /\ (pc'[w] = "unmark" <=> Phases[job[w]][i] = "unmark")
        /\ (Phases[job[w]][i] = "refresh" => pc'[w] = "get")
    BY <2>4, <2>5 DEF Entry, PhaseNames
  <2>7. i = NumPhases(job[w]) => pc'[w] = "get"
    BY <1>1, <2>3, <2>6, PhaseShape
  <2>8. NumPhases(job[w])' = NumPhases(job[w])
    BY <2>2 DEF NumPhases
  <2>9. \A m \in Marts : Owes(w, m)'
    <3> SUFFICES ASSUME NEW m \in Marts PROVE Owes(w, m)'
      OBVIOUS
    <3>1. m >= 1 /\ m \in Nat
      BY CountsAssumption DEF Marts
    <3>2. job'[w] # "none" /\ pc'[w] # "commit"
      BY <1>1, <2>2, <2>6 DEF JobKinds
    <3>3. CASE i < NumPhases(job[w])
      BY <2>2, <2>3, <2>8, <3>2, <3>3 DEF Owes
    <3>4. CASE i = NumPhases(job[w])
      BY <1>2, <2>7, <3>1, <3>2, <3>4 DEF Owes
    <3> QED
      BY <1>1, <2>3, <3>3, <3>4
  <2>10. /\ Phases[job[w]][i] = "unmark" => PhaseOf(w) = "drop"
         /\ PhaseOf(w) = "drop" => Phases[job[w]][i] = "unmark"
    BY <1>1, <2>3, PhaseShape DEF PhaseOf
  <2> QED
    BY <1>2, <2>6, <2>9, <2>10
<1>4. CASE phase[w] = NumPhases(job[w])
  <2>1. pc'[w] = "idle"
    BY <1>1, <1>4 DEF NextPhase, EndJob, Goto, TypeInv, TypeOK
  <2>2. PhaseOf(w) = "refresh"
    BY <1>1, <1>4, PhaseShape DEF PhaseOf
  <2> QED
    BY <1>1, <1>2, <1>4, <2>1, <2>2
<1> QED
  BY <1>1, <1>3, <1>4

(* What the next mart of a loop owes.                                      *)
LEMMA MartOwes ==
    ASSUME TypeInv, NEW w \in Workers, Working(w), PhaseOf(w) \in {"refresh", "rebuild"},
           NextMart(w)
    PROVE  /\ \A m \in Marts : phase[w] < NumPhases(job[w]) \/ mart[w] < m => Owes(w, m)'
           /\ old'[w] = 0 /\ pc'[w] \notin {"max", "apply", "rows", "set", "unmark"}
<1>1. /\ job[w] \in JobKinds /\ phase[w] \in 1..NumPhases(job[w]) /\ NumPhases(job[w]) \in 1..5
      /\ mart[w] \in Marts /\ NMarts \in Nat /\ Marts = 1..NMarts
  BY PhaseFacts, CountsAssumption DEF Working, TypeInv, TypeOK, Marts
<1>2. CASE mart[w] < NMarts
  <2>1. /\ mart' = [mart EXCEPT ![w] = mart[w] + 1] /\ Fresh(w)
        /\ pc' = [pc EXCEPT ![w] = Entry[PhaseOf(w)]] /\ job' = job /\ phase' = phase
    BY <1>1, <1>2 DEF NextMart, Goto, TypeInv, TypeOK
  <2>2. /\ mart'[w] = mart[w] + 1 /\ old'[w] = 0 /\ job'[w] = job[w] /\ phase'[w] = phase[w]
        /\ pc'[w] = Entry[PhaseOf(w)]
    BY <2>1 DEF Fresh, TypeInv, TypeOK
  <2>3. pc'[w] \in {"get", "clear"} /\ (PhaseOf(w) = "refresh" => pc'[w] = "get")
    BY <2>2 DEF Entry
  <2>4. NumPhases(job[w])' = NumPhases(job[w])
    BY <2>2 DEF NumPhases
  <2>5. ASSUME NEW m \in Marts, phase[w] < NumPhases(job[w]) \/ mart[w] < m
        PROVE  Owes(w, m)'
    <3>1. job'[w] # "none" /\ pc'[w] # "commit" /\ m \in Nat
      BY <1>1, <2>2, <2>3 DEF JobKinds
    <3>2. CASE phase[w] < NumPhases(job[w])
      BY <2>2, <2>4, <3>1, <3>2 DEF Owes
    <3>3. CASE phase[w] = NumPhases(job[w]) /\ mart[w] < m
      <4>1. pc'[w] = "get"
        BY <1>1, <2>3, <3>3, PhaseShape DEF PhaseOf
      <4>2. mart'[w] < m \/ mart'[w] = m
        BY <1>1, <2>2, <3>1, <3>3
      <4> QED
        BY <3>1, <4>1, <4>2 DEF Owes
    <3> QED
      BY <1>1, <2>5, <3>2, <3>3
  <2> QED
    BY <2>2, <2>3, <2>5
<1>3. CASE mart[w] = NMarts
  <2>1. NextPhase(w)
    BY <1>1, <1>3 DEF NextMart
  <2>2. \A m \in Marts : ~(mart[w] < m)
    BY <1>1, <1>3
  <2> QED
    BY <2>1, <2>2, PhaseOwes
<1> QED
  BY <1>1, <1>2, <1>3 DEF NextMart
(* What a step of w, among others that owe what they owed, may do to the   *)
(* watermarks, the last event and its own debts.                           *)
Keeps(w) ==
    /\ Others(w)
    /\ \/ \A m \in Marts : Owes(w, m)'
       \/ /\ top' = top
          /\ \A m \in Marts : wm[m] = top \/ Owes(w, m) => wm'[m] = top' \/ Owes(w, m)'
    /\ top <= top' \/ Workers = {w}
    /\ (\A m \in Marts : wm'[m] <= top') \/ pc'[w] = "unmark"
    /\ pc'[w] = "clear" => old'[w] = 0
    /\ pc'[w] = "max" => old'[w] <= top'
    /\ pc'[w] \in {"apply", "rows", "set"} => new'[w] <= top'

LEMMA KeepsFresh ==
    ASSUME TypeInv, TypeInv', BelowTop, CaughtUp, NEW w \in Workers, Keeps(w)
    PROVE  BelowTop' /\ CaughtUp'
<1>1. \A v \in Workers : v # w => Same(v)
  BY DEF Keeps, Others
<1>2. top \in Nat /\ top' \in Nat /\ \A v \in Workers : old[v] \in Nat /\ new[v] \in Nat
  BY DEF TypeInv, TypeOK
<1>3. BelowTop'
  <2>1. ASSUME NEW v \in Workers
        PROVE  /\ pc'[v] = "clear" => old'[v] = 0
               /\ pc'[v] = "max" => old'[v] <= top'
               /\ pc'[v] \in {"apply", "rows", "set"} => new'[v] <= top'
    <3>1. CASE v = w
      BY <3>1 DEF Keeps
    <3>2. CASE v # w
      BY <1>1, <1>2, <3>2 DEF Keeps, BelowTop, Same
    <3> QED
      BY <3>1, <3>2
  <2> QED
    BY <2>1 DEF BelowTop, Keeps
<1>4. ASSUME NEW m \in Marts
      PROVE  wm'[m] = top' \/ \E v \in Workers : Owes(v, m)'
  <2>1. CASE \A n \in Marts : Owes(w, n)'
    BY <2>1
  <2>2. CASE top' = top /\ \A n \in Marts : wm[n] = top \/ Owes(w, n) => wm'[n] = top' \/ Owes(w, n)'
    <3>1. CASE wm[m] = top \/ Owes(w, m)
      BY <2>2, <3>1
    <3>2. CASE ~(wm[m] = top \/ Owes(w, m))
      <4>1. PICK v \in Workers : v # w /\ Owes(v, m)
        BY <3>2 DEF CaughtUp
      <4>2. Same(v)
        BY <1>1, <4>1
      <4>3. Owes(v, m)'
        BY <2>2, <4>1, <4>2 DEF Owes, Same, NumPhases
      <4> QED
        BY <4>3
    <3> QED
      BY <3>1, <3>2
  <2> QED
    BY <2>1, <2>2 DEF Keeps
<1> QED
  BY <1>3, <1>4 DEF CaughtUp

(* A forced backfill is alone: whoever moves sees no deleted events but    *)
(* its own.                                                                *)
LEMMA AloneWhenForced ==
    ASSUME TypeInv, SoleForcer, OwnJobs, BelowTop, NEW w \in Workers
    PROVE  /\ job[w] = "force" => Workers = {w}
           /\ pc[w] # "unmark" => \A m \in Marts : wm[m] <= top
<1>1. \A v \in Workers : job[v] = "force" => Workers = {v}
  BY DEF SoleForcer, OwnJobs
<1>2. \A v \in Workers : pc[v] = "unmark" => job[v] = "force"
  BY WhichPhase
<1> QED
  BY <1>1, <1>2 DEF BelowTop

LEMMA OwnJobsKept ==
    TypeInv /\ OwnJobs /\ [Next]_vars => OwnJobs'
<1> SUFFICES ASSUME TypeInv, OwnJobs, [Next]_vars PROVE OwnJobs'
  OBVIOUS
<1>1. CASE UNCHANGED vars
  BY <1>1 DEF vars, frame, OwnJobs
<1>2. ASSUME NEW w \in Workers, Start(w) PROVE OwnJobs'
  BY <1>2 DEF Start, OwnJobs, TypeInv, TypeOK
<1>3. ASSUME NEW w \in Workers, Step(w) \/ Fail(w) PROVE OwnJobs'
  BY <1>3, StepJob DEF OwnJobs, TypeInv, TypeOK
<1> QED
  BY <1>1, <1>2, <1>3 DEF Next

LEMMA StartKeeps ==
    ASSUME TypeInv, BelowTop, NEW w \in Workers, Start(w), \A m \in Marts : wm[m] <= top
    PROVE  Keeps(w) /\ wm' = wm
<1>1. Others(w) /\ AtEntry(w)
  BY StartType, CountsAssumption, ShapeAssumption
<1>2. job[w] = "none"
  <2>1. pc[w] = "idle"
    BY DEF Start
  <2>2. job[w] # "none" => PhaseOf(w) \in PhaseNames /\ pc[w] \in PhaseStatements[PhaseOf(w)]
    BY PhaseFacts DEF TypeInv, TypeOK, ControlOK, PhaseOf
  <2> QED
    BY <2>1, <2>2 DEF PhaseNames, PhaseStatements
<1>3. UNCHANGED <<top, wm>>
  BY DEF Start, store
<1>4. pc'[w] # "clear"
  <2>1. PICK j \in Jobs[w] : pc' = [pc EXCEPT ![w] = Entry[Phases[j][1]]]
    BY DEF Start, Goto
  <2>2. j \in JobKinds
    BY ShapeAssumption DEF TypeInv
  <2>3. Phases[j][1] \in {"commit", "refresh", "pass", "drop"}
    BY <2>2, PhaseShape, PhaseFacts
  <2> QED
    BY <2>1, <2>3 DEF Entry, TypeInv, TypeOK
<1> QED
  BY <1>1, <1>2, <1>3, <1>4 DEF Keeps, AtEntry, Owes, TypeInv, TypeOK

(* The steps that add events leave every mart owed.                        *)
LEMMA InsertKeeps ==
    ASSUME TypeInv, TypeInv', BelowTop, NEW w \in Workers, \A m \in Marts : wm[m] <= top,
           Commit(w) \/ InsertRecent(w) \/ ConvertChunk(w)
    PROVE  Keeps(w) /\ wm' = wm
<1>1. wm' = wm
  BY DEF Commit, InsertRecent, ConvertChunk
<1>2. pc[w] # "idle" /\ PhaseOf(w) \in {"commit", "recent", "pass"}
  BY WhichPhase DEF Commit, InsertRecent, ConvertChunk
<1>3. Working(w) /\ phase[w] < NumPhases(job[w]) /\ job[w] # "none"
  BY <1>2, WhichPhase
<1>4. top <= top'
  <2>1. /\ pend[w] \subseteq Messages /\ messages \in 0..MaxMessages /\ MaxMessages \in Nat
        /\ Batch \in Nat /\ event \in [Messages -> Nat] /\ top \in Nat
    BY CountsAssumption DEF TypeInv, TypeOK, CountsAssumption
  <2>2. CASE Commit(w)
    <3>1. PICK k \in 1..Batch : /\ messages + k <= MaxMessages
                                /\ \E c \in 0..k : InsertEvents(messages + 1..messages + c)
      BY <2>2 DEF Commit
    <3>2. PICK c \in 0..k : InsertEvents(messages + 1..messages + c)
      BY <3>1
    <3>3. messages + 1..messages + c \subseteq Messages
      BY <2>1, <3>1, <3>2 DEF Messages
    <3> QED BY <2>1, <3>2, <3>3, InsertFacts
  <2>3. CASE InsertRecent(w)
    <3>1. PICK y \in pend[w] : InsertEvents({y})
      BY <2>3 DEF InsertRecent
    <3>2. {y} \subseteq Messages
      BY <2>1
    <3> QED BY <2>1, <3>1, <3>2, InsertFacts
  <2>4. CASE ConvertChunk(w)
    BY <2>1, <2>4, InsertFacts DEF ConvertChunk
  <2> QED BY <2>2, <2>3, <2>4
<1>5. Others(w)
  BY CommitType, RecentType, BackfillType, CountsAssumption DEF Recent, Backfill
<1>6. (\A m \in Marts : Owes(w, m)') /\ pc'[w] \notin {"max", "apply", "rows", "set"}
      /\ (pc'[w] = "clear" => old'[w] = 0)
  <2>1. CASE NextPhase(w)
    BY <1>3, <2>1, PhaseOwes
  <2>2. CASE InsertRecent(w)
    BY <1>3, <2>2 DEF InsertRecent, Owes, NumPhases
  <2>3. CASE ConvertChunk(w) /\ Goto(w, "fetch") /\ UNCHANGED <<job, phase>>
    BY <1>3, <2>3 DEF Goto, Owes, NumPhases, TypeInv, TypeOK
  <2> QED
    BY <2>1, <2>2, <2>3 DEF Commit, ConvertChunk
<1>7. \A m \in Marts : wm'[m] <= top'
  BY <1>1, <1>4 DEF TypeInv, TypeOK
<1> QED
  BY <1>1, <1>4, <1>5, <1>6, <1>7 DEF Keeps
(* The steps that touch neither the events nor the marts.                  *)
LEMMA QuietKeeps ==
    ASSUME TypeInv, NEW w \in Workers, \A m \in Marts : wm[m] <= top,
           CommitNothing(w) \/ SelectRecent(w) \/ RecentDone(w) \/ FetchChunk(w)
    PROVE  Keeps(w)
<1>1. UNCHANGED <<top, wm>>
  BY DEF CommitNothing, SelectRecent, RecentDone, FetchChunk, store
<1>2. Others(w)
  BY CommitNothingType, RecentType, BackfillType, CountsAssumption DEF Recent, Backfill
<1>3. pc[w] # "idle" /\ PhaseOf(w) \in {"commit", "recent", "pass"}
  BY WhichPhase DEF CommitNothing, SelectRecent, RecentDone, FetchChunk
<1>4. Working(w) /\ phase[w] < NumPhases(job[w]) /\ job[w] # "none"
  BY <1>3, WhichPhase
<1>5. top \in Nat /\ \A m \in Marts : wm[m] \in Nat
  BY DEF TypeInv, TypeOK
<1>6. CASE NextPhase(w)
  BY <1>1, <1>2, <1>4, <1>5, <1>6, PhaseOwes DEF Keeps
<1>7. CASE CommitNothing(w)
  <2>1. pc[w] = "commit" /\ pc'[w] \in {"get", "select", "idle"}
    BY <1>7 DEF CommitNothing, EndJob, Goto, Entry, TypeInv, TypeOK
  <2> QED
    BY <1>1, <1>2, <1>5, <2>1 DEF Keeps, Owes
<1>8. CASE SelectRecent(w) /\ ~NextPhase(w)
  <2>1. pc'[w] = "insert" /\ UNCHANGED <<job, phase>>
    BY <1>8 DEF SelectRecent, Goto, TypeInv, TypeOK
  <2>2. \A m \in Marts : Owes(w, m)'
    BY <1>4, <2>1 DEF Owes, NumPhases
  <2> QED
    BY <1>1, <1>2, <1>5, <2>1, <2>2 DEF Keeps
<1>9. CASE FetchChunk(w) /\ ~NextPhase(w)
  <2>1. pc'[w] = "convert" /\ UNCHANGED <<job, phase>>
    BY <1>9 DEF FetchChunk, Goto, TypeInv, TypeOK
  <2>2. \A m \in Marts : Owes(w, m)'
    BY <1>4, <2>1 DEF Owes, NumPhases
  <2> QED
    BY <1>1, <1>2, <1>5, <2>1, <2>2 DEF Keeps
<1> QED
  BY <1>6, <1>7, <1>8, <1>9 DEF RecentDone

(* The wipe of a forced backfill, which is alone.                          *)
LEMMA WipeKeeps ==
    ASSUME TypeInv, SoleForcer, OwnJobs, BelowTop, NEW w \in Workers, Wipe(w)
    PROVE  Keeps(w)
<1>1. Others(w)
  BY WipeType, CountsAssumption
<1>2. pc[w] # "idle" /\ PhaseOf(w) \in {"drop", "unmark", "rebuild"}
  BY WhichPhase DEF Wipe, DropEvents, DeleteWatermarks, ClearMart
<1>3. /\ Working(w) /\ phase[w] < NumPhases(job[w]) /\ job[w] = "force" /\ job[w] # "none"
      /\ pc[w] = "drop" => PhaseOf(w) = "drop"
  BY <1>2, WhichPhase
<1>4. Workers = {w} /\ (pc[w] # "unmark" => \A m \in Marts : wm[m] <= top)
  BY <1>3, AloneWhenForced
<1>5. top \in Nat /\ \A m \in Marts : wm[m] \in Nat
  BY DEF TypeInv, TypeOK
<1>6. CASE DropEvents(w)
  BY <1>1, <1>3, <1>4, <1>6, PhaseOwes DEF DropEvents, Keeps
<1>7. CASE DeleteWatermarks(w)
  <2>1. \A m \in Marts : wm'[m] <= top'
    BY <1>5, <1>7 DEF DeleteWatermarks
  <2>2. (\A m \in Marts : Owes(w, m)') /\ old'[w] = 0
        /\ pc'[w] \notin {"max", "apply", "rows", "set"}
    BY <1>3, <1>7, PhaseOwes DEF DeleteWatermarks
  <2> QED
    BY <1>1, <1>4, <2>1, <2>2 DEF Keeps
<1>8. CASE ClearMart(w)
  <2>1. /\ pc[w] = "clear" /\ pc'[w] = "max" /\ UNCHANGED <<job, phase, old, top, wm>>
    BY <1>8 DEF ClearMart, Goto, frame, TypeInv, TypeOK
  <2>2. \A m \in Marts : Owes(w, m)'
    BY <1>3, <2>1 DEF Owes, NumPhases
  <2>3. old[w] = 0
    BY <2>1 DEF BelowTop
  <2> QED
    BY <1>1, <1>4, <1>5, <2>1, <2>2, <2>3 DEF Keeps
<1> QED
  BY <1>6, <1>7, <1>8 DEF Wipe

(* The statements of a refresh: whoever owes a mart owes it until its      *)
(* watermark is stored.                                                    *)
LEMMA RefreshKeeps ==
    ASSUME TypeInv, BelowTop, NEW w \in Workers, \A m \in Marts : wm[m] <= top, Refresh(w)
    PROVE  Keeps(w)
<1>1. Others(w)
  BY RefreshType, CountsAssumption
<1>2. top' = top
  BY DEF Refresh, GetWatermark, ReadMax, ApplySum, ApplyReplace, FetchWindow, UpsertBucket,
         InsertOrIgnore, RowsDone, SetWatermark, store
<1>3. pc[w] # "idle" /\ PhaseOf(w) \in {"refresh", "rebuild"}
  BY WhichPhase DEF Refresh, GetWatermark, ReadMax, ApplySum, ApplyReplace, FetchWindow,
                    UpsertBucket, InsertOrIgnore, RowsDone, SetWatermark
<1>4. /\ Working(w) /\ job[w] # "none"
      /\ phase[w] \in 1..NumPhases(job[w]) /\ NumPhases(job[w]) \in 1..5
      /\ PhaseOf(w) # "refresh" => phase[w] < NumPhases(job[w])
      /\ pc[w] \in {"get", "set"} => PhaseOf(w) = "refresh"
  BY <1>3, WhichPhase
<1>5. /\ top \in Nat /\ \A m \in Marts : wm[m] \in Nat
      /\ old[w] \in Nat /\ new[w] \in Nat /\ mart[w] \in Marts /\ Marts \subseteq Nat
  BY DEF TypeInv, TypeOK, Marts
(* Three shapes: on to the next mart of a rebuild, a statement within the  *)
(* mart, and the storing of the watermark.                                 *)
<1>6. ASSUME NextMart(w), wm' = wm, PhaseOf(w) = "rebuild" PROVE Keeps(w)
  <2>1. /\ \A m \in Marts : Owes(w, m)'
        /\ old'[w] = 0 /\ pc'[w] \notin {"max", "apply", "rows", "set"}
    BY <1>3, <1>4, <1>6, MartOwes
  <2> QED
    BY <1>1, <1>2, <1>5, <1>6, <2>1 DEF Keeps
<1>7. ASSUME UNCHANGED <<job, phase, mart, wm>>, pc[w] \in {"get", "max", "apply", "rows"},
             \/ pc'[w] = "max" /\ old'[w] <= top
             \/ pc'[w] \in {"apply", "rows", "set"} /\ new'[w] <= top /\ new'[w] \in Nat
                /\ (new'[w] = top \/ (pc[w] \in {"apply", "rows"} /\ new'[w] = new[w]))
      PROVE  Keeps(w)
  <2>1. \A m \in Marts : Owes(w, m) => Owes(w, m)'
    BY <1>2, <1>7 DEF Owes, NumPhases
  <2> QED
    BY <1>1, <1>2, <1>5, <1>7, <2>1 DEF Keeps
<1>8. CASE GetWatermark(w)
  <2>1. /\ pc[w] = "get" /\ pc'[w] = "max" /\ old'[w] = wm[mart[w]]
        /\ UNCHANGED <<job, phase, mart, wm>>
    BY <1>8 DEF GetWatermark, Goto, store, TypeInv, TypeOK
  <2> QED
    BY <1>5, <1>7, <2>1
<1>9. CASE ReadMax(w)
  <2>1. pc[w] = "max" /\ wm' = wm
    BY <1>9 DEF ReadMax, store
  <2>2. old[w] <= top
    BY <2>1 DEF BelowTop
  <2>3. CASE top <= old[w] /\ PhaseOf(w) = "rebuild" /\ NextMart(w)
    BY <1>6, <2>1, <2>3
  <2>4. ASSUME NEW n \in Nat, n = top, new' = [new EXCEPT ![w] = n],
               NEW s \in {"apply", "set"}, Goto(w, s), UNCHANGED <<job, phase, mart>>
        PROVE  Keeps(w)
    <3>1. new'[w] = top /\ pc'[w] \in {"apply", "set"} /\ UNCHANGED <<job, phase, mart>>
      BY <2>4 DEF Goto, TypeInv, TypeOK
    <3> QED
      BY <1>5, <1>7, <2>1, <3>1
  <2>5. top <= old[w] => old[w] = top
    BY <1>5, <2>2
  <2> QED
    BY <1>5, <1>9, <2>3, <2>4, <2>5 DEF ReadMax
<1>10. CASE ApplySum(w) \/ ApplyReplace(w) \/ RowsDone(w)
  <2>1. pc[w] \in {"apply", "rows"} /\ wm' = wm /\ Applied(w)
    BY <1>10 DEF ApplySum, ApplyReplace, RowsDone, store
  <2>2. new[w] <= top
    BY <2>1 DEF BelowTop
  <2>3. CASE Goto(w, "set") /\ UNCHANGED frame
    <3>1. pc'[w] = "set" /\ new'[w] = new[w] /\ UNCHANGED <<job, phase, mart>>
      BY <2>3 DEF Goto, frame, TypeInv, TypeOK
    <3> QED
      BY <1>5, <1>7, <2>1, <2>2, <3>1
  <2> QED
    BY <1>6, <2>1, <2>3 DEF Applied
<1>11. CASE FetchWindow(w) \/ UpsertBucket(w) \/ InsertOrIgnore(w)
  <2>1. /\ pc[w] \in {"apply", "rows"} /\ pc'[w] = "rows" /\ new'[w] = new[w]
        /\ UNCHANGED <<job, phase, mart, wm>>
    BY <1>11 DEF FetchWindow, UpsertBucket, InsertOrIgnore, Goto, store, TypeInv, TypeOK
  <2>2. new[w] <= top
    BY <2>1 DEF BelowTop
  <2> QED
    BY <1>5, <1>7, <2>1, <2>2
<1>12. CASE SetWatermark(w)
  <2>1. /\ pc[w] = "set" /\ NextMart(w) /\ PhaseOf(w) = "refresh"
        /\ wm' = [wm EXCEPT ![mart[w]] = Larger(wm[mart[w]], new[w])]
    BY <1>4, <1>12 DEF SetWatermark
  <2>2. new[w] <= top
    BY <2>1 DEF BelowTop
  <2>3. /\ \A m \in Marts : phase[w] < NumPhases(job[w]) \/ mart[w] < m => Owes(w, m)'
        /\ old'[w] = 0 /\ pc'[w] \notin {"max", "apply", "rows", "set"}
    BY <1>3, <1>4, <2>1, MartOwes
  <2>4. \A m \in Marts : wm'[m] = IF m = mart[w] THEN Larger(wm[m], new[w]) ELSE wm[m]
    BY <2>1 DEF TypeInv, TypeOK
  <2>5. \A m \in Marts : wm'[m] <= top /\ wm'[m] >= wm[m]
    BY <1>5, <2>2, <2>4 DEF Larger
  <2>6. ASSUME NEW m \in Marts, wm[m] = top \/ Owes(w, m) PROVE wm'[m] = top \/ Owes(w, m)'
    <3>1. CASE wm[m] = top
      BY <1>5, <2>2, <2>4, <3>1 DEF Larger
    <3>2. CASE phase[w] < NumPhases(job[w]) \/ mart[w] < m
      BY <2>3, <3>2
    <3>3. CASE mart[w] = m /\ new[w] = top
      BY <1>5, <2>4, <2>5, <3>3 DEF Larger
    <3> QED
      BY <2>1, <2>6, <3>1, <3>2, <3>3 DEF Owes
  <2> QED
    BY <1>1, <1>2, <1>5, <2>3, <2>5, <2>6 DEF Keeps
<1> QED
  BY <1>8, <1>9, <1>10, <1>11, <1>12 DEF Refresh
LEMMA NextFresh ==
    TypeInv /\ TypeInv' /\ SoleForcer /\ FreshInv /\ [Next]_vars => FreshInv'
<1> SUFFICES ASSUME TypeInv, TypeInv', SoleForcer, FreshInv, [Next]_vars
             PROVE  FreshInv'
  OBVIOUS
<1>1. OwnJobs'
  BY OwnJobsKept DEF FreshInv
<1>2. CASE UNCHANGED vars
  BY <1>1, <1>2 DEF vars, store, frame, history, FreshInv, BelowTop, CaughtUp, Owes, NumPhases
<1>3. ASSUME NEW w \in Workers, Start(w) \/ Step(w) \/ Fail(w), fails' = 0
      PROVE  BelowTop' /\ CaughtUp'
  <2>1. fails \in Nat
    BY CountsAssumption DEF TypeInv, TypeOK, CountsAssumption
  <2>2. ~Fail(w)
    BY <1>3, <2>1 DEF Fail, Die, Noted, SkipRecent
  <2>3. fails = 0
    <3>1. Start(w) \/ Commit(w) \/ CommitNothing(w) => fails' = fails
      BY DEF Start, Commit, CommitNothing
    <3>2. Refresh(w) => fails' = fails
      BY DEF Refresh, GetWatermark, ReadMax, ApplySum, ApplyReplace, FetchWindow,
             UpsertBucket, InsertOrIgnore, RowsDone, SetWatermark, history
    <3>3. Recent(w) \/ Backfill(w) \/ Wipe(w) => fails' = fails
      BY DEF Recent, SelectRecent, InsertRecent, RecentDone, Backfill, FetchChunk,
             ConvertChunk, Wipe, DropEvents, DeleteWatermarks, ClearMart, history
    <3> QED
      BY <1>3, <2>2, <3>1, <3>2, <3>3 DEF Step
  <2>4. OwnJobs /\ BelowTop /\ CaughtUp
    BY <2>3 DEF FreshInv
  <2>5. pc[w] # "unmark" => \A m \in Marts : wm[m] <= top
    BY <2>4, AloneWhenForced
  <2>6. CASE Start(w)
    BY <2>4, <2>5, <2>6, StartKeeps, KeepsFresh DEF Start
  <2>7. CASE Commit(w) \/ InsertRecent(w) \/ ConvertChunk(w)
    <3>1. pc[w] # "unmark"
      BY <2>7 DEF Commit, InsertRecent, ConvertChunk
    <3> QED
      BY <2>4, <2>5, <2>7, <3>1, InsertKeeps, KeepsFresh
  <2>8. CASE CommitNothing(w) \/ SelectRecent(w) \/ RecentDone(w) \/ FetchChunk(w)
    <3>1. pc[w] # "unmark"
      BY <2>8 DEF CommitNothing, SelectRecent, RecentDone, FetchChunk
    <3> QED
      BY <2>4, <2>5, <2>8, <3>1, QuietKeeps, KeepsFresh
  <2>9. CASE Refresh(w)
    <3>1. pc[w] # "unmark"
      BY <2>9 DEF Refresh, GetWatermark, ReadMax, ApplySum, ApplyReplace, FetchWindow,
                  UpsertBucket, InsertOrIgnore, RowsDone, SetWatermark
    <3> QED
      BY <2>4, <2>5, <2>9, <3>1, RefreshKeeps, KeepsFresh
  <2>10. CASE Wipe(w)
    BY <2>4, <2>10, WipeKeeps, KeepsFresh
  <2> QED
    BY <1>3, <2>2, <2>6, <2>7, <2>8, <2>9, <2>10 DEF Step, Recent, Backfill
<1> QED
  BY <1>1, <1>2, <1>3 DEF Next, FreshInv

(* When every job has run to its end and none has failed, no event is left *)
(* behind a watermark, for any number of workers whose refreshes overlap,  *)
(* forced backfills included as long as the process that runs them is      *)
(* alone with the store.                                                   *)
THEOREM FreshWhenQuiet == SoleForcer => (Spec => []QuiescentFresh)
<1>1. Init => FreshInv
  BY DEF Init, FreshInv, OwnJobs, BelowTop, CaughtUp
<1>2. TypeInv /\ FreshInv => QuiescentFresh
  <2> SUFFICES ASSUME TypeInv, FreshInv, AllIdle, fails = 0, NEW m \in Marts
               PROVE  wm[m] = top
    BY DEF QuiescentFresh
  <2>1. ASSUME NEW w \in Workers PROVE ~Owes(w, m)
    <3>1. pc[w] = "idle"
      BY DEF AllIdle
    <3>2. job[w] # "none" => PhaseOf(w) \in PhaseNames /\ pc[w] \in PhaseStatements[PhaseOf(w)]
      BY PhaseFacts DEF TypeInv, TypeOK, ControlOK, PhaseOf
    <3> QED
      BY <3>1, <3>2 DEF PhaseNames, PhaseStatements, Owes
  <2> QED
    BY <2>1 DEF FreshInv, CaughtUp
<1>3. ASSUME SoleForcer PROVE Spec => []QuiescentFresh
  <2>1. TypeInv /\ TypeInv' /\ FreshInv /\ [Next]_vars => FreshInv'
    BY <1>3, NextFresh
  <2> QED
    BY <1>1, <1>2, <2>1, AlwaysTyped, PTL DEF Spec
<1> QED
  BY <1>3
-----------------------------------------------------------------------------
(* A backfill leaves no message behind its cursor without an event.        *)

PassInv(w) ==
    /\ pc[w] \in {"idle", "commit"} => old[w] = 0
    /\ pc[w] \in {"fetch", "convert"} =>
         old[w] <= messages /\ \A x \in 1..old[w] : HasEvent(x)
    /\ pc[w] = "convert" =>
         /\ pend[w] \subseteq Chunk(w)
         /\ Cardinality(pend[w]) = ChunkSize => pend[w] = old[w] + 1..old[w] + ChunkSize

BackInv == OwnJobs /\ \A w \in Workers : PassInv(w)

(* Only fetching a chunk leads to its conversion, and a worker that moves  *)
(* on in any other way is out of the pass, or at its beginning.            *)
OutOfPass(w) ==
    /\ pc'[w] # "convert"
    /\ pc'[w] \in {"idle", "commit", "fetch"} => old'[w] = 0

LEMMA MovesOut ==
    ASSUME TypeInv, NEW w \in Workers, Working(w), PhaseOf(w) \in PhaseNames,
           NextPhase(w) \/ NextMart(w)
    PROVE  OutOfPass(w)
<1>1. /\ job[w] \in JobKinds /\ phase[w] \in 1..NumPhases(job[w]) /\ NumPhases(job[w]) \in 1..5
  BY PhaseFacts DEF Working
<1>2. old'[w] = 0
  BY DEF NextMart, NextPhase, Fresh, TypeInv, TypeOK
<1>3. ASSUME NEW p \in PhaseNames, Goto(w, Entry[p]) PROVE pc'[w] # "convert"
  BY <1>3 DEF Goto, PhaseNames, Entry, TypeInv, TypeOK
<1>4. CASE NextPhase(w)
  <2>1. CASE phase[w] < NumPhases(job[w]) /\ Goto(w, Entry[Phases[job[w]][phase[w] + 1]])
    <3>1. phase[w] + 1 \in 1..NumPhases(job[w])
      BY <1>1, <2>1
    <3>2. Phases[job[w]][phase[w] + 1] \in PhaseNames
      BY <1>1, <3>1, PhaseFacts
    <3> QED
      BY <1>2, <1>3, <2>1, <3>2 DEF OutOfPass
  <2>2. CASE EndJob(w)
    BY <1>2, <2>2 DEF EndJob, Goto, OutOfPass, TypeInv, TypeOK
  <2> QED
    BY <1>4, <2>1, <2>2 DEF NextPhase
<1>5. CASE Goto(w, Entry[PhaseOf(w)])
  BY <1>2, <1>3, <1>5 DEF OutOfPass
<1> QED
  BY <1>4, <1>5 DEF NextMart

LEMMA MostOutOfPass ==
    ASSUME TypeInv, NEW w \in Workers, PassInv(w),
           \/ Start(w) \/ Commit(w) \/ CommitNothing(w) \/ Refresh(w) \/ Recent(w)
           \/ Wipe(w) \/ Fail(w)
    PROVE  OutOfPass(w)
<1> USE CountsAssumption, ShapeAssumption
<1>1. pc[w] # "idle" => Working(w) /\ PhaseOf(w) \in PhaseNames
  BY BusyIsWorking
<1>2. pc \in [Workers -> Statements]
  BY DEF TypeInv, TypeOK
<1>3. ASSUME NEW s, Goto(w, s), s \notin {"convert", "idle", "commit", "fetch"}
      PROVE  OutOfPass(w)
  BY <1>2, <1>3 DEF Goto, OutOfPass
<1>4. pc[w] # "idle" /\ (NextPhase(w) \/ NextMart(w)) => OutOfPass(w)
  BY <1>1, MovesOut
<1>5. pc[w] # "idle" /\ Applied(w) => OutOfPass(w)
  BY <1>3, <1>4 DEF Applied
<1>6. CASE Start(w)
  <2>1. PICK j \in Jobs[w] : pc' = [pc EXCEPT ![w] = Entry[Phases[j][1]]]
    BY <1>6 DEF Start, Goto
  <2>2. j \in JobKinds
    BY <2>1
  <2>3. Phases[j][1] \in {"commit", "refresh", "pass", "drop"}
    BY <2>2, PhaseShape, PhaseFacts
  <2>4. pc'[w] # "convert"
    BY <1>2, <2>1, <2>3 DEF Entry
  <2>5. old'[w] = 0
    BY <1>6 DEF Start, PassInv
  <2> QED
    BY <2>4, <2>5 DEF OutOfPass
<1>7. CASE Commit(w)
  BY <1>4, <1>7 DEF Commit
<1>8. CASE CommitNothing(w)
  <2>1. pc'[w] \in {"get", "select", "idle"} /\ old'[w] = 0
    BY <1>2, <1>8 DEF CommitNothing, EndJob, Goto, Entry, PassInv
  <2> QED
    BY <2>1 DEF OutOfPass
<1>9. CASE Refresh(w)
  <2>1. CASE GetWatermark(w) \/ FetchWindow(w)
    BY <1>3, <2>1 DEF GetWatermark, FetchWindow
  <2>2. CASE ReadMax(w)
    BY <1>3, <1>4, <2>2 DEF ReadMax
  <2>3. CASE ApplySum(w) \/ ApplyReplace(w) \/ RowsDone(w)
    BY <1>5, <2>3 DEF ApplySum, ApplyReplace, RowsDone
  <2>4. CASE UpsertBucket(w) \/ InsertOrIgnore(w)
    BY <2>4 DEF UpsertBucket, InsertOrIgnore, OutOfPass
  <2>5. CASE SetWatermark(w)
    BY <1>4, <2>5 DEF SetWatermark
  <2> QED
    BY <1>9, <2>1, <2>2, <2>3, <2>4, <2>5 DEF Refresh
<1>10. CASE Recent(w)
  <2>1. CASE SelectRecent(w)
    BY <1>3, <2>1 DEF SelectRecent
  <2>2. CASE InsertRecent(w)
    BY <2>2 DEF InsertRecent, OutOfPass
  <2>3. CASE RecentDone(w)
    BY <1>4, <2>3 DEF RecentDone
  <2> QED
    BY <1>10, <2>1, <2>2, <2>3 DEF Recent
<1>11. CASE Wipe(w)
  <2>1. CASE DropEvents(w) \/ DeleteWatermarks(w)
    BY <1>4, <2>1 DEF DropEvents, DeleteWatermarks
  <2>2. CASE ClearMart(w)
    BY <1>3, <2>2 DEF ClearMart
  <2> QED
    BY <1>11, <2>1, <2>2 DEF Wipe
<1>12. CASE Fail(w)
  <2>1. CASE Die(w)
    BY <1>2, <2>1 DEF Die, Fresh, Goto, OutOfPass, TypeInv, TypeOK
  <2>2. CASE SkipRecent(w)
    BY <2>2 DEF SkipRecent, OutOfPass
  <2>3. CASE Noted(w)
    <3>1. old'[w] = 0
      BY <2>3 DEF Noted, Fresh, TypeInv, TypeOK
    <3>2. NumPhases("cycle") = 4 /\ "cycle" \in JobKinds
      BY DEF NumPhases, Phases, JobKinds
    <3>3. phase[w] \in 1..3
      BY <2>3, <3>2 DEF Noted, TypeInv, ControlOK, JobKinds
    <3>4. phase'[w] \in 1..4
      BY <2>3, <3>2, <3>3 DEF Noted, TypeInv, TypeOK
    <3>5. Phases["cycle"][phase'[w]] \in PhaseNames
      BY <3>2, <3>4, PhaseFacts
    <3>6. Entry[Phases["cycle"][phase'[w]]] # "convert"
      BY <3>5 DEF PhaseNames, Entry
    <3> QED
      BY <1>2, <2>3, <3>1, <3>6 DEF Noted, Goto, OutOfPass
  <2> QED
    BY <1>12, <2>1, <2>2, <2>3 DEF Fail
<1> QED
  BY <1>6, <1>7, <1>8, <1>9, <1>10, <1>11, <1>12
(* A chunk is the messages right behind the cursor, up to the last one.    *)
LEMMA ChunkFacts ==
    ASSUME TypeInv, NEW w \in Workers
    PROVE  /\ Chunk(w) = {} => messages <= old[w]
           /\ Cardinality(Chunk(w)) = ChunkSize => Chunk(w) = old[w] + 1..old[w] + ChunkSize
<1>1. messages \in Nat /\ old[w] \in Nat /\ ChunkSize \in Nat \ {0}
  BY CountsAssumption DEF TypeInv, TypeOK, CountsAssumption
<1>2. Chunk(w) = {} => messages <= old[w]
  <2>1. old[w] + 1 <= messages => old[w] + 1 \in Chunk(w)
    BY <1>1 DEF Chunk
  <2> QED
    BY <1>1, <2>1
<1> DEFINE I == old[w] + 1..old[w] + ChunkSize
<1>3. IsFiniteSet(I) /\ Cardinality(I) = ChunkSize
  BY <1>1, FS_Interval
<1>4. Chunk(w) \in SUBSET I
  BY <1>1 DEF Chunk
<1>5. Cardinality(Chunk(w)) = ChunkSize => Chunk(w) = I
  BY <1>3, <1>4, FS_Subset
<1> QED
  BY <1>2, <1>5

LEMMA FetchInPass ==
    ASSUME TypeInv, NEW w \in Workers, PassInv(w), FetchChunk(w)
    PROVE  PassInv(w)' \/ OutOfPass(w)
<1>1. CASE NextPhase(w)
  <2>1. Working(w) /\ PhaseOf(w) \in PhaseNames
    BY BusyIsWorking DEF FetchChunk
  <2> QED
    BY <1>1, <2>1, MovesOut
<1>2. CASE /\ pend' = [pend EXCEPT ![w] = Chunk(w)]
           /\ Goto(w, "convert")
           /\ old' = old
  <2>1. pend'[w] = Chunk(w) /\ pc'[w] = "convert" /\ old'[w] = old[w]
    BY <1>2 DEF Goto, TypeInv, TypeOK
  <2>2. event' = event /\ messages' = messages
    BY DEF FetchChunk, store
  <2>3. old[w] <= messages /\ \A x \in 1..old[w] : HasEvent(x)
    BY DEF FetchChunk, PassInv
  <2>4. Chunk(w)' = Chunk(w)
    BY <2>1, <2>2 DEF Chunk
  <2>5. Cardinality(Chunk(w)) = ChunkSize => Chunk(w) = old[w] + 1..old[w] + ChunkSize
    BY ChunkFacts
  <2> QED
    BY <2>1, <2>2, <2>3, <2>4, <2>5 DEF PassInv, HasEvent
<1> QED
  BY <1>1, <1>2 DEF FetchChunk

LEMMA ConvertInPass ==
    ASSUME TypeInv, NEW w \in Workers, PassInv(w), ConvertChunk(w)
    PROVE  /\ EventsStay
           /\ \A x \in pend[w] : event'[x] # 0
           /\ PassInv(w)' \/ OutOfPass(w)
<1>1. /\ messages \in 0..MaxMessages /\ MaxMessages \in Nat /\ old[w] \in Nat
      /\ ChunkSize \in Nat \ {0} /\ pend[w] \subseteq Messages
      /\ event \in [Messages -> Nat] /\ top \in Nat
  BY CountsAssumption DEF TypeInv, TypeOK, CountsAssumption
<1>2. EventsStay
  BY <1>1, InsertFacts DEF ConvertChunk, EventsStay, HasEvent
<1>3. \A x \in pend[w] : event'[x] # 0
  <2> SUFFICES ASSUME NEW x \in pend[w], ~HasEvent(x) PROVE event'[x] # 0
    BY <1>1, <1>2 DEF EventsStay
  <2>1. x \in Missing(pend[w]) /\ Missing(pend[w]) \subseteq Messages
    BY <1>1 DEF Missing
  <2>2. Rank(Missing(pend[w]), x) \in 1..Cardinality(Missing(pend[w]))
    BY <1>1, <2>1, RankFacts
  <2>3. IsFiniteSet(Missing(pend[w]))
    BY <1>1, <2>1, FS_Interval, FS_Subset DEF Messages
  <2>4. Cardinality(Missing(pend[w])) \in Nat
    BY <2>3, FS_CardinalityType
  <2>5. event'[x] = top + Rank(Missing(pend[w]), x)
    BY <1>1, <2>1 DEF ConvertChunk, InsertEvents
  <2> QED
    BY <1>1, <2>2, <2>4, <2>5
<1>4. CASE NextPhase(w)
  <2>1. Working(w) /\ PhaseOf(w) \in PhaseNames
    BY BusyIsWorking DEF ConvertChunk
  <2> QED
    BY <1>2, <1>3, <1>4, <2>1, MovesOut
<1>5. CASE /\ Cardinality(pend[w]) = ChunkSize
           /\ old' = [old EXCEPT ![w] = @ + ChunkSize]
           /\ Goto(w, "fetch")
  <2>1. old'[w] = old[w] + ChunkSize /\ pc'[w] = "fetch" /\ messages' = messages
    BY <1>5 DEF ConvertChunk, Goto, TypeInv, TypeOK
  <2>2. /\ old[w] <= messages /\ \A x \in 1..old[w] : HasEvent(x)
        /\ pend[w] \subseteq Chunk(w)
        /\ pend[w] = old[w] + 1..old[w] + ChunkSize
    BY <1>5 DEF ConvertChunk, PassInv
  <2>3. old[w] + ChunkSize \in Chunk(w)
    BY <1>1, <2>2
  <2>4. old'[w] <= messages'
    BY <1>1, <2>1, <2>3 DEF Chunk
  <2>5. \A x \in 1..old'[w] : event'[x] # 0
    <3> SUFFICES ASSUME NEW x \in 1..old'[w] PROVE event'[x] # 0
      OBVIOUS
    <3>1. x \in Messages
      BY <1>1, <2>1, <2>4 DEF Messages
    <3>2. x \in 1..old[w] \/ x \in pend[w]
      BY <1>1, <2>1, <2>2
    <3> QED
      BY <1>2, <1>3, <2>2, <3>1, <3>2 DEF EventsStay
  <2> QED
    BY <1>2, <1>3, <2>1, <2>4, <2>5 DEF PassInv, HasEvent
<1> QED
  BY <1>4, <1>5 DEF ConvertChunk

(* A worker other than the one that moves stays where it was, as long as   *)
(* the events do.                                                          *)
LEMMA PassKept ==
    ASSUME TypeInv, NEW w \in Workers, PassInv(w), Same(w),
           messages' \in Nat, messages <= messages', EventsStay
    PROVE  PassInv(w)'
<1>1. messages \in 0..MaxMessages /\ MaxMessages \in Nat /\ old[w] \in Nat
  BY CountsAssumption DEF TypeInv, TypeOK, CountsAssumption
<1>2. pc[w] \in {"fetch", "convert"} =>
        old'[w] <= messages' /\ \A x \in 1..old'[w] : event'[x] # 0
  <2> SUFFICES ASSUME pc[w] \in {"fetch", "convert"}
               PROVE  old'[w] <= messages' /\ \A x \in 1..old'[w] : event'[x] # 0
    OBVIOUS
  <2>1. old[w] <= messages /\ \A x \in 1..old[w] : HasEvent(x)
    BY DEF PassInv
  <2>2. 1..old[w] \subseteq Messages
    BY <1>1, <2>1 DEF Messages
  <2> QED
    BY <1>1, <2>1, <2>2 DEF Same, EventsStay
<1>3. pc[w] = "convert" => pend'[w] \subseteq Chunk(w)'
  <2>1. Chunk(w) \subseteq Chunk(w)'
    BY <1>1 DEF Chunk, Same
  <2> QED
    BY <2>1 DEF PassInv, Same
<1> QED
  BY <1>2, <1>3 DEF PassInv, Same, HasEvent

LEMMA OutKeepsPass ==
    ASSUME NEW w \in Workers, OutOfPass(w), messages' \in Nat
    PROVE  PassInv(w)'
<1>1. pc'[w] = "fetch" => old'[w] <= messages' /\ 1..old'[w] = {}
  BY DEF OutOfPass
<1> QED
  BY <1>1 DEF OutOfPass, PassInv, HasEvent

(* No step but a forced backfill's wipe takes an event away, and no step   *)
(* takes a message away.                                                   *)
LEMMA StoreGrows ==
    ASSUME TypeInv, NEW w \in Workers, Start(w) \/ Step(w) \/ Fail(w)
    PROVE  EventsStay \/ DropEvents(w)
<1>1. Wipe(w) => EventsStay \/ DropEvents(w)
  BY DEF Wipe, DeleteWatermarks, ClearMart, EventsStay, HasEvent
<1>2. Refresh(w) => EventsStay
  <2>1. Refresh(w) => event' = event
    BY DEF Refresh, GetWatermark, ReadMax, ApplySum, ApplyReplace, FetchWindow, UpsertBucket,
           InsertOrIgnore, RowsDone, SetWatermark, store
  <2> QED
    BY <2>1 DEF EventsStay, HasEvent
<1> QED
  BY <1>1, <1>2, QuietSteps DEF Step

LEMMA MessagesGrow ==
    ASSUME TypeInv, TypeInv', NEW w \in Workers, Start(w) \/ Step(w) \/ Fail(w)
    PROVE  messages' \in Nat /\ messages <= messages'
<1>1. messages \in Nat /\ messages' \in Nat
  BY CountsAssumption DEF TypeInv, TypeOK, CountsAssumption
<1>2. CASE Commit(w)
  <2>1. PICK k \in 1..Batch : messages' = messages + k
    BY <1>2 DEF Commit
  <2> QED
    BY <1>1, <2>1, CountsAssumption DEF CountsAssumption
<1>3. Start(w) \/ CommitNothing(w) \/ Fail(w) => messages' = messages
  BY DEF Start, CommitNothing, Fail, Die, Noted, SkipRecent, store
<1>4. Refresh(w) => messages' = messages
  BY DEF Refresh, GetWatermark, ReadMax, ApplySum, ApplyReplace, FetchWindow, UpsertBucket,
         InsertOrIgnore, RowsDone, SetWatermark, store
<1>5. Recent(w) \/ Backfill(w) \/ Wipe(w) => messages' = messages
  BY DEF Recent, SelectRecent, InsertRecent, RecentDone, Backfill, FetchChunk, ConvertChunk,
         Wipe, DropEvents, DeleteWatermarks, ClearMart, store
<1> QED
  BY <1>1, <1>2, <1>3, <1>4, <1>5 DEF Step
LEMMA NextBack ==
    TypeInv /\ TypeInv' /\ SoleForcer /\ BackInv /\ [Next]_vars => BackInv'
<1> SUFFICES ASSUME TypeInv, TypeInv', SoleForcer, BackInv, [Next]_vars
             PROVE  BackInv'
  OBVIOUS
<1>1. OwnJobs'
  BY OwnJobsKept DEF BackInv
<1>2. CASE UNCHANGED vars
  BY <1>1, <1>2 DEF vars, store, frame, BackInv, PassInv, Chunk, HasEvent
<1>3. ASSUME NEW w \in Workers, Start(w) \/ Step(w) \/ Fail(w), NEW v \in Workers
      PROVE  PassInv(v)'
  <2>1. messages' \in Nat /\ messages <= messages'
    BY <1>3, MessagesGrow
  <2>2. PassInv(w) /\ PassInv(v)
    BY DEF BackInv
  <2>3. CASE v = w
    <3>1. PassInv(w)' \/ OutOfPass(w)
      BY <1>3, <2>2, MostOutOfPass, FetchInPass, ConvertInPass DEF Step, Backfill
    <3> QED
      BY <2>1, <2>3, <3>1, OutKeepsPass
  <2>4. CASE v # w
    <3>1. Others(w)
      BY <1>3, StartType, CommitType, CommitNothingType, RefreshType, RecentType,
         BackfillType, WipeType, FailType, CountsAssumption, ShapeAssumption DEF Step
    <3>2. ~DropEvents(w)
      <4>1. DropEvents(w) => job[w] = "force"
        BY WhichPhase DEF DropEvents
      <4> QED
        BY <2>4, <4>1 DEF BackInv, OwnJobs, SoleForcer
    <3>3. EventsStay
      BY <1>3, <3>2, StoreGrows
    <3> QED
      BY <2>1, <2>2, <2>4, <3>1, <3>3, PassKept DEF Others
  <2> QED
    BY <2>3, <2>4
<1> QED
  BY <1>1, <1>2, <1>3 DEF Next, BackInv

Recovers(w) ==
    pc[w] \in {"fetch", "convert"} /\ job'[w] = job[w] /\ phase'[w] # phase[w] =>
        \A x \in 1..messages :
            x <= old[w] \/ x \in pend[w] \/ pc[w] = "fetch" => event'[x] # 0

LEMMA PassRecovers ==
    ASSUME TypeInv, BackInv, [Next]_vars, NEW w \in Workers
    PROVE  Recovers(w)
<1> SUFFICES ASSUME pc[w] \in {"fetch", "convert"}, job'[w] = job[w], phase'[w] # phase[w]
             PROVE  \A x \in 1..messages :
                        x <= old[w] \/ x \in pend[w] \/ pc[w] = "fetch" => event'[x] # 0
  BY DEF Recovers
<1>1. PICK v \in Workers : Start(v) \/ Step(v) \/ Fail(v)
  BY DEF Next, vars, frame
<1>2. v = w
  <2>1. Others(v)
    BY <1>1, StartType, CommitType, CommitNothingType, RefreshType, RecentType,
       BackfillType, WipeType, FailType, CountsAssumption, ShapeAssumption DEF Step
  <2> QED
    BY <2>1 DEF Others, Same
<1>3. PassInv(w)
  BY DEF BackInv
<1>4. /\ messages \in 0..MaxMessages /\ MaxMessages \in Nat /\ old[w] \in Nat
      /\ \A x \in 1..messages : x \in Messages
  BY CountsAssumption DEF TypeInv, TypeOK, CountsAssumption, Messages
<1>5. \A x \in 1..messages : x <= old[w] => HasEvent(x)
  BY <1>3, <1>4 DEF PassInv
<1>6. CASE FetchChunk(w)
  <2>1. pc[w] = "fetch" /\ event' = event
    BY <1>6 DEF FetchChunk, store
  <2>2. Chunk(w) = {}
    BY <1>6 DEF FetchChunk
  <2>3. messages <= old[w]
    BY <2>2, ChunkFacts
  <2> QED
    BY <1>4, <1>5, <2>1, <2>3 DEF HasEvent
<1>7. CASE ConvertChunk(w)
  <2>1. pc[w] = "convert"
    BY <1>7 DEF ConvertChunk
  <2> QED
    BY <1>3, <1>4, <1>5, <1>7, <2>1, ConvertInPass DEF EventsStay
<1>8. ~Fail(w)
  <2>1. /\ job[w] # "none" /\ PhaseOf(w) = "pass" /\ phase[w] \in 1..NumPhases(job[w])
        /\ pc[w] # "insert"
    BY WhichPhase
  <2>2. job[w] # "cycle"
    <3>1. NumPhases("cycle") = 4 /\ \A i \in 1..4 : Phases["cycle"][i] # "pass"
      BY DEF NumPhases, Phases
    <3> QED
      BY <2>1, <3>1 DEF PhaseOf
  <2>3. ~Die(w)
    BY <2>1 DEF Die, TypeInv, TypeOK
  <2> QED
    BY <2>1, <2>2, <2>3 DEF Fail, Noted, SkipRecent
<1>9. Start(w) \/ Step(w) => FetchChunk(w) \/ ConvertChunk(w)
  BY DEF Start, Step, Commit, CommitNothing, Refresh, GetWatermark, ReadMax, ApplySum,
         ApplyReplace, FetchWindow, UpsertBucket, InsertOrIgnore, RowsDone, SetWatermark,
         Recent, SelectRecent, InsertRecent, RecentDone, Backfill,
         Wipe, DropEvents, DeleteWatermarks, ClearMart
<1> QED
  BY <1>1, <1>2, <1>6, <1>7, <1>8, <1>9

(* A backfill that leaves its pass has given every message it passed an    *)
(* event, for any number of messages, any chunk size and whatever other    *)
(* workers commit meanwhile.                                               *)
THEOREM PassCoversStore == SoleForcer => (Spec => BackfillRecovers)
<1>1. Init => BackInv
  BY DEF Init, BackInv, OwnJobs, PassInv
<1>2. ASSUME SoleForcer PROVE Spec => BackfillRecovers
  <2>1. TypeInv /\ TypeInv' /\ BackInv /\ [Next]_vars => BackInv'
    BY <1>2, NextBack
  <2>2. TypeInv /\ BackInv /\ [Next]_vars => \A w \in Workers : Recovers(w)
    BY PassRecovers
  <2>3. (\A w \in Workers : Recovers(w)) =>
          [\A w \in Workers :
             pc[w] \in {"fetch", "convert"} /\ job'[w] = job[w] /\ phase'[w] # phase[w] =>
                 \A x \in 1..messages :
                     x <= old[w] \/ x \in pend[w] \/ pc[w] = "fetch" => event'[x] # 0]_vars
    BY DEF Recovers
  <2> QED
    BY <1>1, <2>1, <2>2, <2>3, AlwaysTyped, PTL DEF Spec, BackfillRecovers
<1> QED
  BY <1>2
-----------------------------------------------------------------------------
(* One worker alone: every mart agrees with the events.                    *)

OneWorker == \E w \in Workers : Workers = {w}

Wiped == top = 0 /\ \A x \in Messages : ~HasEvent(x)

(* The mart holds exactly the events up to n.                              *)
Exactly(m, n) ==
    \A x \in Messages : counted[m][x] = IF HasEvent(x) /\ event[x] <= n THEN 1 ELSE 0

Settled(m) == wm[m] <= top /\ Exactly(m, wm[m])

(* A job that follows no dead one, or a forced backfill that has wiped     *)
(* what a dead one left.                                                   *)
Trusted(w) ==
    IF job[w] = "force" THEN PhaseOf(w) \in {"pass", "refresh"} ELSE sound

(* The forced backfill between its wipe and its pass.                      *)
Wiping(w) ==
    /\ pc[w] = "unmark" => Wiped
    /\ job[w] = "force" /\ PhaseOf(w) = "rebuild" =>
         /\ Wiped /\ \A m \in Marts : wm[m] = 0
         /\ pc[w] \in {"clear", "max"} /\ old[w] = 0
         /\ \A m \in Marts : m < mart[w] \/ (m = mart[w] /\ pc[w] = "max") =>
              \A x \in Messages : counted[m][x] = 0

(* The refresh of one mart, from its watermark to the last event.          *)
Refreshing(w) ==
    /\ pc[w] \in {"max", "apply"} => old[w] = wm[mart[w]]
    /\ pc[w] \in {"apply", "rows", "set"} => new[w] = top
    /\ pc[w] = "rows" =>
         \A x \in Messages :
             /\ x \in pend[w] => HasEvent(x)
             /\ counted[mart[w]][x] = IF HasEvent(x) /\ x \notin pend[w] THEN 1 ELSE 0
    /\ pc[w] = "set" => Exactly(mart[w], top)

Accounts(w) ==
    /\ \A m \in Marts : m = mart[w] /\ pc[w] \in {"rows", "set"} => wm[m] <= top
    /\ \A m \in Marts : m # mart[w] \/ pc[w] \notin {"rows", "set"} => Settled(m)
    /\ \A m \in Marts : pc[w] \in {"idle", "commit"}
                          \/ (phase[w] = NumPhases(job[w]) /\ m < mart[w]) => wm[m] = top
    /\ Refreshing(w)

ExactInv(w) ==
    /\ \A x \in Messages : event[x] <= top
    /\ Wiping(w)
    /\ Trusted(w) => Accounts(w)

(* Where a phase leads: to the next one of its job, or to the job's end.   *)
LEMMA PhaseLeads ==
    ASSUME TypeInv, NEW w \in Workers, Working(w), NextPhase(w)
    PROVE  /\ mart'[w] = 1 /\ old'[w] = 0
           /\ \/ /\ phase[w] < NumPhases(job[w]) /\ job'[w] = job[w] /\ sound' = sound
                 /\ pc'[w] = Entry[PhaseOf(w)'] /\ PhaseOf(w)' \in PhaseNames \ {"commit", "drop"}
                 /\ job[w] = "force" =>
                      <<PhaseOf(w), PhaseOf(w)'>> \in
                          {<<"drop", "unmark">>, <<"unmark", "rebuild">>,
                           <<"rebuild", "pass">>, <<"pass", "refresh">>}
                 /\ job[w] # "force" => PhaseOf(w)' \in {"refresh", "recent"}
              \/ /\ phase[w] = NumPhases(job[w]) /\ PhaseOf(w) = "refresh"
                 /\ job'[w] = "none" /\ pc'[w] = "idle" /\ sound' = (sound \/ job[w] = "force")
<1>1. /\ job[w] \in JobKinds /\ phase[w] \in 1..NumPhases(job[w]) /\ NumPhases(job[w]) \in 1..5
  BY PhaseFacts DEF Working
<1>2. old'[w] = 0 /\ mart'[w] = 1
  BY DEF NextPhase, Fresh, TypeInv, TypeOK
<1>3. CASE phase[w] < NumPhases(job[w])
  <2>1. /\ phase' = [phase EXCEPT ![w] = phase[w] + 1] /\ job' = job /\ sound' = sound
        /\ pc' = [pc EXCEPT ![w] = Entry[Phases[job[w]][phase[w] + 1]]]
    BY <1>1, <1>3 DEF NextPhase, Goto
  <2>2. /\ phase'[w] = phase[w] + 1 /\ job'[w] = job[w]
        /\ pc'[w] = Entry[Phases[job[w]][phase[w] + 1]]
    BY <2>1 DEF TypeInv, TypeOK
  <2>3. PhaseOf(w)' = Phases[job[w]][phase[w] + 1]
    BY <2>2 DEF PhaseOf
  <2>4. \A i \in 1..NumPhases(job[w]) : i < NumPhases(job[w]) =>
           /\ Phases[job[w]][i + 1] \in PhaseNames \ {"commit", "drop"}
           /\ job[w] = "force" =>
                <<Phases[job[w]][i], Phases[job[w]][i + 1]>> \in
                    {<<"drop", "unmark">>, <<"unmark", "rebuild">>,
                     <<"rebuild", "pass">>, <<"pass", "refresh">>}
           /\ job[w] # "force" => Phases[job[w]][i + 1] \in {"refresh", "recent"}
    <3>1. CASE job[w] = "ingest"   BY <3>1 DEF Phases, NumPhases, PhaseNames
    <3>2. CASE job[w] = "cycle"    BY <3>2 DEF Phases, NumPhases, PhaseNames
    <3>3. CASE job[w] = "touch"    BY <3>3 DEF Phases, NumPhases, PhaseNames
    <3>4. CASE job[w] = "backfill" BY <3>4 DEF Phases, NumPhases, PhaseNames
    <3>5. CASE job[w] = "force"    BY <3>5 DEF Phases, NumPhases, PhaseNames
    <3> QED BY <1>1, <3>1, <3>2, <3>3, <3>4, <3>5 DEF JobKinds
  <2> QED
    BY <1>1, <1>2, <1>3, <2>1, <2>2, <2>3, <2>4 DEF PhaseOf
<1>4. CASE phase[w] = NumPhases(job[w])
  <2>1. EndJob(w)
    BY <1>1, <1>4 DEF NextPhase
  <2>2. job'[w] = "none" /\ pc'[w] = "idle" /\ sound' = (sound \/ job[w] = "force")
    BY <2>1 DEF EndJob, Goto, TypeInv, TypeOK
  <2>3. PhaseOf(w) = "refresh"
    BY <1>1, <1>4, PhaseShape DEF PhaseOf
  <2> QED
    BY <1>2, <1>4, <2>2, <2>3
<1> QED
  BY <1>1, <1>3, <1>4

(* What has to hold when a phase is left, for the next one to begin right. *)
LEMMA EnterPhase ==
    ASSUME TypeInv, NEW w \in Workers, Working(w), PhaseOf(w) \in PhaseNames, NextPhase(w),
           \A x \in Messages : event'[x] <= top',
           PhaseOf(w) \in {"drop", "unmark"} => Wiped',
           PhaseOf(w) = "unmark" => \A m \in Marts : wm'[m] = 0,
           (Trusted(w) /\ PhaseOf(w) \notin {"drop", "unmark"}) \/ PhaseOf(w) = "rebuild" =>
               \A m \in Marts : Settled(m)',
           Trusted(w) /\ phase[w] = NumPhases(job[w]) => \A m \in Marts : wm'[m] = top'
    PROVE  ExactInv(w)'
<1>1. \A m \in Marts : ~(m < 1)
  BY DEF Marts
<1>2. mart'[w] = 1 /\ old'[w] = 0
  BY PhaseLeads
<1>3. job[w] # "force" => PhaseOf(w) \notin {"drop", "unmark", "rebuild"}
  BY PhaseShape DEF Working, PhaseOf
<1>4. CASE /\ phase[w] < NumPhases(job[w]) /\ job'[w] = job[w] /\ sound' = sound
           /\ pc'[w] = Entry[PhaseOf(w)'] /\ PhaseOf(w)' \in PhaseNames \ {"commit", "drop"}
  <2>1. pc'[w] \in {"get", "select", "fetch", "unmark", "clear"}
        /\ (pc'[w] = "unmark" <=> PhaseOf(w)' = "unmark")
        /\ (pc'[w] = "clear" <=> PhaseOf(w)' = "rebuild")
    BY <1>4 DEF Entry, PhaseNames
  <2>2. (\A m \in Marts : Settled(m)') => Accounts(w)'
    BY <1>1, <1>2, <2>1 DEF Accounts, Refreshing
  <2>3. CASE job[w] # "force"
    <3>1. PhaseOf(w)' \in {"refresh", "recent"}
      BY <1>4, <2>1, <2>3, PhaseLeads
    <3>2. Wiping(w)'
      BY <1>4, <2>1, <2>3, <3>1 DEF Wiping
    <3>3. Trusted(w)' => Trusted(w)
      BY <1>4, <2>3 DEF Trusted
    <3>4. Trusted(w)' => Accounts(w)'
      BY <1>3, <2>2, <2>3, <3>3
    <3> QED
      BY <3>2, <3>4 DEF ExactInv
  <2>4. CASE job[w] = "force"
    <3>1. <<PhaseOf(w), PhaseOf(w)'>> \in
              {<<"drop", "unmark">>, <<"unmark", "rebuild">>,
               <<"rebuild", "pass">>, <<"pass", "refresh">>}
      BY <1>4, <2>4, PhaseLeads
    <3>2. Wiping(w)'
      BY <1>1, <1>2, <2>1, <3>1 DEF Wiping
    <3>3. Trusted(w)' => Accounts(w)'
      BY <1>4, <2>2, <2>4, <3>1 DEF Trusted
    <3> QED
      BY <3>2, <3>3 DEF ExactInv
  <2> QED
    BY <2>3, <2>4
<1>5. CASE /\ phase[w] = NumPhases(job[w]) /\ PhaseOf(w) = "refresh"
           /\ job'[w] = "none" /\ pc'[w] = "idle" /\ sound' = (sound \/ job[w] = "force")
  <2>1. Wiping(w)'
    BY <1>5 DEF Wiping
  <2>2. Trusted(w)' => Trusted(w)
    BY <1>5, Zenon DEF Trusted
  <2>3. Trusted(w) => Accounts(w)'
    BY <1>5 DEF Accounts, Refreshing
  <2> QED
    BY <2>1, <2>2, <2>3 DEF ExactInv
<1> QED
  BY <1>4, <1>5, PhaseLeads
(* The same for the next mart of a refresh or of a rebuild.                *)
LEMMA EnterMart ==
    ASSUME TypeInv, NEW w \in Workers, Working(w), PhaseOf(w) \in {"refresh", "rebuild"},
           NextMart(w), UNCHANGED <<event, top>>, ExactInv(w),
           Trusted(w) => \A m \in Marts : Settled(m)',
           Trusted(w) /\ phase[w] = NumPhases(job[w]) =>
               \A m \in Marts : m <= mart[w] => wm'[m] = top,
           job[w] = "force" /\ PhaseOf(w) = "rebuild" =>
               /\ wm' = wm
               /\ \A m \in Marts : m <= mart[w] => \A x \in Messages : counted'[m][x] = 0
    PROVE  ExactInv(w)'
<1>1. /\ mart[w] \in Marts /\ Marts = 1..NMarts /\ NMarts \in Nat
      /\ job[w] \in JobKinds /\ phase[w] \in 1..NumPhases(job[w]) /\ NumPhases(job[w]) \in 1..5
  BY PhaseFacts, CountsAssumption DEF Working, TypeInv, TypeOK, Marts
<1>2. \A x \in Messages : event'[x] <= top'
  BY DEF ExactInv
<1>3. PhaseOf(w) = "rebuild" => job[w] = "force"
  BY <1>1, PhaseShape DEF PhaseOf
<1>4. PhaseOf(w) = "rebuild" => Wiped /\ Wiped' /\ \A m \in Marts : wm[m] = 0
  BY <1>3 DEF ExactInv, Wiping, Wiped, HasEvent
<1>5. CASE mart[w] < NMarts
  <2>1. /\ mart' = [mart EXCEPT ![w] = mart[w] + 1] /\ Fresh(w)
        /\ pc' = [pc EXCEPT ![w] = Entry[PhaseOf(w)]]
        /\ job' = job /\ phase' = phase /\ sound' = sound
    BY <1>1, <1>5 DEF NextMart, Goto, TypeInv, TypeOK
  <2>2. /\ mart'[w] = mart[w] + 1 /\ old'[w] = 0 /\ job'[w] = job[w] /\ phase'[w] = phase[w]
        /\ pc'[w] = Entry[PhaseOf(w)]
    BY <2>1 DEF Fresh, TypeInv, TypeOK
  <2>3. pc'[w] \in {"get", "clear"} /\ PhaseOf(w)' = PhaseOf(w)
        /\ NumPhases(job[w])' = NumPhases(job[w])
    BY <2>2 DEF Entry, PhaseOf, NumPhases
  <2>4. Trusted(w)' <=> Trusted(w)
    BY <2>1, <2>3 DEF Trusted
  <2>5. \A m \in Marts : m < mart'[w] => m <= mart[w]
    BY <1>1, <2>2
  <2>6. Trusted(w) => Accounts(w)'
    BY <2>2, <2>3, <2>5 DEF Accounts, Refreshing
  <2>7. Wiping(w)'
    <3>1. CASE PhaseOf(w) = "refresh"
      BY <2>3, <3>1 DEF Wiping
    <3>2. CASE PhaseOf(w) = "rebuild"
      <4>1. pc'[w] = "clear"
        BY <2>2, <3>2 DEF Entry
      <4>2. wm' = wm /\ \A m \in Marts : m <= mart[w] => \A x \in Messages : counted'[m][x] = 0
        BY <1>3, <3>2
      <4> QED
        BY <1>4, <2>2, <2>5, <3>2, <4>1, <4>2 DEF Wiping
    <3> QED
      BY <3>1, <3>2
  <2> QED
    BY <1>2, <2>4, <2>6, <2>7 DEF ExactInv
<1>6. CASE mart[w] = NMarts
  <2>1. NextPhase(w)
    BY <1>1, <1>6 DEF NextMart
  <2>2. \A m \in Marts : m <= mart[w]
    BY <1>1, <1>6
  <2>3. PhaseOf(w) = "rebuild" => \A m \in Marts : Settled(m)'
    <3> SUFFICES ASSUME PhaseOf(w) = "rebuild", NEW m \in Marts PROVE Settled(m)'
      OBVIOUS
    <3>1. wm'[m] = 0 /\ top' = 0 /\ Wiped'
      BY <1>3, <1>4 DEF Wiped
    <3>2. \A x \in Messages : counted'[m][x] = 0
      BY <1>3, <2>2
    <3> QED
      BY <3>1, <3>2 DEF Settled, Exactly, Wiped, HasEvent
  <2>4. PhaseOf(w) \in PhaseNames
    BY DEF PhaseNames
  <2> QED
    BY <1>2, <2>1, <2>2, <2>3, <2>4, EnterPhase
<1> QED
  BY <1>1, <1>5, <1>6

(* New events are above every watermark: a settled mart stays settled.     *)
LEMMA InsertSettles ==
    ASSUME TypeInv, NEW S, S \subseteq Messages, InsertEvents(S), UNCHANGED <<wm, counted>>,
           \A x \in Messages : event[x] <= top
    PROVE  /\ \A x \in Messages : event'[x] <= top'
           /\ \A m \in Marts : Settled(m) => Settled(m)'
<1>1. /\ MaxMessages \in Nat /\ event \in [Messages -> Nat] /\ top \in Nat
      /\ wm \in [Marts -> Nat]
  BY CountsAssumption DEF TypeInv, TypeOK, CountsAssumption
<1>2. /\ event' \in [Messages -> Nat] /\ top' \in Nat /\ top <= top'
      /\ \A x \in Messages : HasEvent(x) => event'[x] = event[x]
      /\ \A x \in Messages : ~HasEvent(x) /\ event'[x] # 0 =>
                                event'[x] > top /\ event'[x] <= top'
  BY <1>1, InsertFacts
<1>3. \A x \in Messages : event'[x] <= top'
  BY <1>1, <1>2
<1>4. ASSUME NEW m \in Marts, Settled(m) PROVE Settled(m)'
  <2>1. wm[m] \in Nat /\ wm[m] <= top /\ wm'[m] = wm[m] /\ counted'[m] = counted[m]
    BY <1>1, <1>4 DEF Settled
  <2>2. ASSUME NEW x \in Messages
        PROVE  event'[x] # 0 /\ event'[x] <= wm[m] <=> HasEvent(x) /\ event[x] <= wm[m]
    BY <1>1, <1>2, <2>1 DEF HasEvent
  <2>3. Exactly(m, wm[m])
    BY <1>4 DEF Settled
  <2> QED
    BY <1>1, <1>2, <2>1, <2>2, <2>3 DEF Settled, Exactly, HasEvent
<1> QED
  BY <1>3, <1>4
(* A statement inside normalize_recent or inside the pass.                 *)
LEMMA StayExact ==
    ASSUME TypeInv, NEW w \in Workers, PhaseOf(w) \in {"recent", "pass"}, ExactInv(w),
           phase[w] < NumPhases(job[w]), phase[w] \in Nat, NumPhases(job[w]) \in Nat,
           UNCHANGED <<job, phase, mart, sound>>, pc[w] \notin {"rows", "set"},
           pc'[w] \in {"select", "insert", "fetch", "convert"},
           \A x \in Messages : event'[x] <= top',
           \A m \in Marts : Settled(m) => Settled(m)'
    PROVE  ExactInv(w)'
<1>1. PhaseOf(w)' = PhaseOf(w) /\ NumPhases(job[w])' = NumPhases(job[w])
  BY DEF PhaseOf, NumPhases
<1>2. Wiping(w)'
  BY <1>1 DEF Wiping
<1>3. Trusted(w)' => Trusted(w)
  BY <1>1 DEF Trusted
<1>4. Accounts(w) => Accounts(w)'
  BY <1>1 DEF Accounts, Refreshing
<1> QED
  BY <1>2, <1>3, <1>4 DEF ExactInv

LEMMA StartExact ==
    ASSUME TypeInv, NEW w \in Workers, ExactInv(w), Start(w)
    PROVE  ExactInv(w)'
<1>1. pc[w] = "idle" /\ UNCHANGED <<event, top, wm, counted, mart, sound>>
  BY DEF Start, store
<1>2. job[w] = "none"
  <2>1. job[w] # "none" => PhaseOf(w) \in PhaseNames /\ pc[w] \in PhaseStatements[PhaseOf(w)]
    BY PhaseFacts DEF TypeInv, TypeOK, ControlOK, PhaseOf
  <2> QED
    BY <1>1, <2>1 DEF PhaseNames, PhaseStatements
<1>3. PICK j \in Jobs[w] : /\ job' = [job EXCEPT ![w] = j] /\ phase' = [phase EXCEPT ![w] = 1]
                           /\ pc' = [pc EXCEPT ![w] = Entry[Phases[j][1]]]
  BY DEF Start, Goto
<1>4. j \in JobKinds
  BY ShapeAssumption DEF ShapeAssumption
<1>5. Phases[j][1] \in {"commit", "refresh", "pass", "drop"} /\ (j = "force" => Phases[j][1] = "drop")
  <2>1. Phases["force"][1] = "drop"
    BY DEF Phases
  <2> QED
    BY <1>4, <2>1, PhaseShape, PhaseFacts
<1>6. job'[w] = j /\ PhaseOf(w)' = Phases[j][1] /\ pc'[w] \in {"commit", "get", "fetch", "drop"}
  BY <1>3, <1>5 DEF PhaseOf, Entry, TypeInv, TypeOK
<1>7. Wiping(w)'
  BY <1>5, <1>6 DEF Wiping
<1>8. Trusted(w)' => Trusted(w)
  BY <1>1, <1>2, <1>5, <1>6 DEF Trusted
<1>9. Accounts(w) => Accounts(w)'
  BY <1>1, <1>6 DEF Accounts, Refreshing, Settled, Exactly, HasEvent
<1> QED
  BY <1>1, <1>7, <1>8, <1>9 DEF ExactInv

LEMMA CommitNothingExact ==
    ASSUME TypeInv, NEW w \in Workers, ExactInv(w), CommitNothing(w)
    PROVE  ExactInv(w)'
<1>1. pc[w] = "commit" /\ UNCHANGED <<event, top, wm, counted>>
  BY DEF CommitNothing, store
<1>2. job[w] \in {"cycle", "ingest"} /\ job'[w] \in {"cycle", "none"}
      /\ pc'[w] \in {"get", "select", "idle"}
  BY DEF CommitNothing, EndJob, Goto, Entry, TypeInv, TypeOK
<1>3. sound' => sound
  BY Zenon DEF CommitNothing, EndJob
<1>4. Trusted(w)' => Trusted(w)
  BY <1>2, <1>3 DEF Trusted
<1>5. Wiping(w)'
  BY <1>2 DEF Wiping
<1>6. Accounts(w) => Accounts(w)'
  BY <1>1, <1>2 DEF Accounts, Refreshing, Settled, Exactly, HasEvent
<1> QED
  BY <1>1, <1>4, <1>5, <1>6 DEF ExactInv

LEMMA FailExact ==
    ASSUME TypeInv, NEW w \in Workers, ExactInv(w), Fail(w)
    PROVE  ExactInv(w)'
<1>1. UNCHANGED <<event, top, wm, counted>>
  BY DEF Fail, Die, Noted, SkipRecent, store
<1>2. \A x \in Messages : event'[x] <= top'
  BY <1>1 DEF ExactInv
<1>3. CASE Die(w)
  <2>1. job'[w] = "none" /\ pc'[w] = "idle" /\ sound' = FALSE
    BY <1>3 DEF Die, Goto, TypeInv, TypeOK
  <2> QED
    BY <1>2, <2>1 DEF ExactInv, Wiping, Trusted
<1>4. CASE Noted(w)
  <2>1. NumPhases("cycle") = 4 /\ "cycle" \in JobKinds
        /\ \A i \in 1..4 : Phases["cycle"][i] \in {"commit", "refresh", "recent"}
    BY DEF NumPhases, Phases, JobKinds
  <2>2. phase[w] \in 1..3
    BY <1>4, <2>1 DEF Noted, TypeInv, ControlOK, JobKinds
  <2>3. phase'[w] \in 1..4
    BY <1>4, <2>1, <2>2 DEF Noted, TypeInv, TypeOK
  <2>4. job'[w] = "cycle" /\ sound' = FALSE /\ pc'[w] # "unmark"
    BY <1>4, <2>1, <2>3 DEF Noted, Goto, Entry, TypeInv, TypeOK
  <2> QED
    BY <1>2, <2>4 DEF ExactInv, Wiping, Trusted
<1>5. CASE SkipRecent(w)
  <2>1. pc[w] = "insert" /\ UNCHANGED <<job, phase, mart, sound, pc>>
    BY <1>5 DEF SkipRecent
  <2>2. /\ PhaseOf(w) = "recent" /\ phase[w] < NumPhases(job[w])
        /\ phase[w] \in Nat /\ NumPhases(job[w]) \in Nat
    BY <2>1, WhichPhase
  <2>3. \A m \in Marts : Settled(m) => Settled(m)'
    BY <1>1 DEF Settled, Exactly, HasEvent
  <2> QED
    BY <1>2, <2>1, <2>2, <2>3, StayExact
<1> QED
  BY <1>3, <1>4, <1>5 DEF Fail

(* Committing, normalizing and passing over the messages.                  *)
LEMMA InsertExact ==
    ASSUME TypeInv, NEW w \in Workers, ExactInv(w), Commit(w) \/ Recent(w) \/ Backfill(w)
    PROVE  ExactInv(w)'
<1>1. /\ pend[w] \subseteq Messages /\ messages \in 0..MaxMessages /\ MaxMessages \in Nat
      /\ Batch \in Nat /\ UNCHANGED <<wm, counted>>
      /\ \A x \in Messages : event[x] <= top
  BY CountsAssumption
     DEF TypeInv, TypeOK, CountsAssumption, ExactInv, Commit, Recent, SelectRecent, InsertRecent,
         RecentDone, Backfill, FetchChunk, ConvertChunk, store
<1>2. pc[w] # "idle" /\ PhaseOf(w) \in {"commit", "recent", "pass"}
      /\ pc[w] \notin {"rows", "set"} /\ (~Commit(w) => PhaseOf(w) \in {"recent", "pass"})
  BY WhichPhase DEF Commit, Recent, SelectRecent, InsertRecent, RecentDone, Backfill,
                    FetchChunk, ConvertChunk
<1>3. /\ Working(w) /\ PhaseOf(w) \in PhaseNames /\ phase[w] < NumPhases(job[w])
      /\ phase[w] \in Nat /\ NumPhases(job[w]) \in Nat
  BY <1>2, WhichPhase
<1>4. /\ \A x \in Messages : event'[x] <= top'
      /\ \A m \in Marts : Settled(m) => Settled(m)'
  <2>1. CASE UNCHANGED <<event, top>>
    BY <1>1, <2>1 DEF Settled, Exactly, HasEvent
  <2>2. ASSUME NEW S, S \subseteq Messages, InsertEvents(S)
        PROVE  /\ \A x \in Messages : event'[x] <= top'
               /\ \A m \in Marts : Settled(m) => Settled(m)'
    BY <1>1, <2>2, InsertSettles
  <2>3. CASE Commit(w)
    <3>1. PICK k \in 1..Batch : /\ messages + k <= MaxMessages
                                /\ \E c \in 0..k : InsertEvents(messages + 1..messages + c)
      BY <2>3 DEF Commit
    <3>2. PICK c \in 0..k : InsertEvents(messages + 1..messages + c)
      BY <3>1
    <3>3. messages + 1..messages + c \subseteq Messages
      BY <1>1, <3>1, <3>2 DEF Messages
    <3> QED BY <2>2, <3>2, <3>3
  <2>4. CASE InsertRecent(w)
    <3>1. PICK y \in pend[w] : InsertEvents({y})
      BY <2>4 DEF InsertRecent
    <3>2. {y} \subseteq Messages
      BY <1>1
    <3> QED BY <2>2, <3>1, <3>2
  <2>5. CASE ConvertChunk(w)
    BY <1>1, <2>2, <2>5 DEF ConvertChunk
  <2> QED
    BY <2>1, <2>3, <2>4, <2>5 DEF Recent, SelectRecent, RecentDone, Backfill, FetchChunk, store
<1>5. CASE NextPhase(w)
  <2>1. Trusted(w) => \A m \in Marts : Settled(m)
    BY <1>2 DEF ExactInv, Accounts
  <2> QED
    BY <1>2, <1>3, <1>4, <1>5, <2>1, EnterPhase
<1>6. CASE ~NextPhase(w)
  <2>1. UNCHANGED <<job, phase, mart, sound>>
        /\ pc'[w] \in {"select", "insert", "fetch", "convert"}
    BY <1>6 DEF Commit, Recent, SelectRecent, InsertRecent, RecentDone, Backfill, FetchChunk,
                ConvertChunk, Goto, history, TypeInv, TypeOK
  <2>2. ~Commit(w)
    BY <1>6 DEF Commit
  <2> QED
    BY <1>2, <1>3, <1>4, <2>1, <2>2, StayExact
<1> QED
  BY <1>5, <1>6
LEMMA WipeExact ==
    ASSUME TypeInv, NEW w \in Workers, ExactInv(w), Wipe(w)
    PROVE  ExactInv(w)'
<1>1. pc[w] # "idle" /\ PhaseOf(w) \in {"drop", "unmark", "rebuild"}
  BY WhichPhase DEF Wipe, DropEvents, DeleteWatermarks, ClearMart
<1>2. /\ Working(w) /\ PhaseOf(w) \in PhaseNames /\ phase[w] < NumPhases(job[w])
      /\ phase[w] \in Nat /\ NumPhases(job[w]) \in Nat /\ job[w] = "force"
      /\ pc[w] = "drop" => PhaseOf(w) = "drop"
      /\ pc[w] = "unmark" => PhaseOf(w) = "unmark"
      /\ pc[w] = "clear" => PhaseOf(w) = "rebuild"
  BY <1>1, WhichPhase
<1>3. top \in Nat /\ event \in [Messages -> Nat]
  BY DEF TypeInv, TypeOK
<1>4. CASE DropEvents(w)
  <2>1. NextPhase(w) /\ PhaseOf(w) = "drop" /\ top' = 0 /\ \A x \in Messages : event'[x] = 0
    BY <1>2, <1>4 DEF DropEvents
  <2>2. Wiped' /\ \A x \in Messages : event'[x] <= top'
    BY <2>1 DEF Wiped, HasEvent
  <2> QED
    BY <1>2, <2>1, <2>2, EnterPhase
<1>5. CASE DeleteWatermarks(w)
  <2>1. /\ NextPhase(w) /\ PhaseOf(w) = "unmark" /\ UNCHANGED <<event, top>>
        /\ \A m \in Marts : wm'[m] = 0
    BY <1>2, <1>5 DEF DeleteWatermarks
  <2>2. Wiped' /\ \A x \in Messages : event'[x] <= top'
    BY <1>5, <2>1 DEF DeleteWatermarks, ExactInv, Wiping, Wiped, HasEvent
  <2> QED
    BY <1>2, <2>1, <2>2, EnterPhase
<1>6. CASE ClearMart(w)
  <2>1. /\ pc[w] = "clear" /\ pc'[w] = "max" /\ UNCHANGED <<job, phase, mart, old, event, top, wm>>
        /\ counted' = [counted EXCEPT ![mart[w]] = [x \in Messages |-> 0]]
    BY <1>6 DEF ClearMart, Goto, frame, TypeInv, TypeOK
  <2>2. \A m \in Marts : counted'[m] = IF m = mart[w] THEN [x \in Messages |-> 0] ELSE counted[m]
    BY <2>1 DEF TypeInv, TypeOK
  <2>3. PhaseOf(w)' = "rebuild" /\ PhaseOf(w) = "rebuild" /\ job'[w] = "force"
    BY <1>2, <2>1 DEF PhaseOf
  <2>4. Wiped' /\ (\A m \in Marts : wm'[m] = 0) /\ old'[w] = 0
    BY <1>2, <2>1, <2>3 DEF ExactInv, Wiping, Wiped, HasEvent
  <2>5. ASSUME NEW m \in Marts, m < mart'[w] \/ m = mart'[w], NEW x \in Messages
        PROVE  counted'[m][x] = 0
    <3>1. CASE m = mart[w]
      BY <2>2, <3>1
    <3>2. CASE m < mart[w] /\ m # mart[w]
      BY <1>2, <2>2, <2>3, <3>2 DEF ExactInv, Wiping
    <3> QED
      BY <2>1, <2>5, <3>1, <3>2
  <2> QED
    BY <2>1, <2>3, <2>4, <2>5 DEF ExactInv, Wiping, Trusted
<1> QED
  BY <1>4, <1>5, <1>6 DEF Wipe

(* A statement within the refresh of one mart.                             *)
LEMMA StayRefresh ==
    ASSUME TypeInv, NEW w \in Workers, PhaseOf(w) = "refresh", ExactInv(w),
           UNCHANGED <<job, phase, mart, sound, event, top, wm>>,
           pc[w] \notin {"idle", "commit"}, pc'[w] \in {"max", "apply", "rows", "set"},
           pc[w] \in {"rows", "set"} => pc'[w] \in {"rows", "set"},
           \A m \in Marts : m # mart[w] \/ pc'[w] \in {"max", "apply"} =>
               counted'[m] = counted[m],
           Accounts(w) => Refreshing(w)'
    PROVE  ExactInv(w)'
<1>1. PhaseOf(w)' = PhaseOf(w) /\ NumPhases(job[w])' = NumPhases(job[w])
  BY DEF PhaseOf, NumPhases
<1>2. Wiping(w)'
  BY <1>1 DEF Wiping
<1>3. Trusted(w)' => Trusted(w)
  BY <1>1 DEF Trusted
<1>4. ASSUME Accounts(w) PROVE Accounts(w)'
  <2>1. \A m \in Marts : wm'[m] <= top'
    BY <1>4 DEF Accounts, Settled
  <2>2. ASSUME NEW m \in Marts, m # mart[w] \/ pc'[w] \in {"max", "apply"}
        PROVE  Settled(m)'
    <3>1. Settled(m)
      BY <1>4, <2>2 DEF Accounts
    <3>2. counted'[m] = counted[m]
      BY <2>2
    <3> QED
      BY <3>1, <3>2 DEF Settled, Exactly, HasEvent
  <2> QED
    BY <1>1, <1>4, <2>1, <2>2 DEF Accounts
<1> QED
  BY <1>2, <1>3, <1>4 DEF ExactInv
(* While a forced backfill rebuilds there is nothing to fold.              *)
LEMMA RebuildExact ==
    ASSUME TypeInv, NEW w \in Workers, ExactInv(w), Refresh(w), PhaseOf(w) = "rebuild"
    PROVE  ExactInv(w)'
<1>1. pc[w] # "idle"
  BY DEF Refresh, GetWatermark, ReadMax, ApplySum, ApplyReplace, FetchWindow, UpsertBucket,
         InsertOrIgnore, RowsDone, SetWatermark
<1>2. Working(w) /\ job[w] = "force"
  BY <1>1, WhichPhase
<1>3. /\ Wiped /\ pc[w] \in {"clear", "max"} /\ old[w] = 0
      /\ \A m \in Marts : m < mart[w] \/ (m = mart[w] /\ pc[w] = "max") =>
           \A x \in Messages : counted[m][x] = 0
  BY <1>2 DEF ExactInv, Wiping
<1>4. ReadMax(w) /\ pc[w] = "max"
  BY <1>3 DEF Refresh, GetWatermark, ReadMax, ApplySum, ApplyReplace, FetchWindow,
              UpsertBucket, InsertOrIgnore, RowsDone, SetWatermark
<1>5. NextMart(w) /\ UNCHANGED <<event, top, wm, counted>>
  BY <1>3, <1>4 DEF ReadMax, Wiped, store
<1>6. \A m \in Marts : m <= mart[w] => m < mart[w] \/ m = mart[w]
  BY DEF Marts, TypeInv, TypeOK
<1>7. ~Trusted(w)
  BY <1>2 DEF Trusted
<1>8. \A m \in Marts : m <= mart[w] => \A x \in Messages : counted'[m][x] = 0
  BY <1>3, <1>4, <1>5, <1>6
<1> QED
  BY <1>2, <1>5, <1>7, <1>8, EnterMart

(* A refresh from a watermark to the last event adds exactly the events    *)
(* between them.                                                           *)
LEMMA FoldExact ==
    ASSUME TypeInv, NEW w \in Workers, Accounts(w), \A x \in Messages : event[x] <= top,
           Refresh(w), pc'[w] \in {"max", "apply", "rows", "set"}
    PROVE  Refreshing(w)'
<1> DEFINE a == mart[w]
<1>1. /\ a \in Marts /\ top \in Nat /\ event \in [Messages -> Nat]
      /\ wm \in [Marts -> Nat] /\ pend[w] \subseteq Messages
      /\ counted[a] \in [Messages -> Nat] /\ counted \in [Marts -> [Messages -> Nat]]
  BY DEF TypeInv, TypeOK
<1>2. pc[w] \notin {"rows", "set"} => Settled(a)
  BY <1>1 DEF Accounts
<1>3. ~NextMart(w)
  <2>1. pc[w] # "idle"
    BY DEF Refresh, GetWatermark, ReadMax, ApplySum, ApplyReplace, FetchWindow, UpsertBucket,
           InsertOrIgnore, RowsDone, SetWatermark
  <2>2. NextMart(w) => AtEntry(w)
    BY <2>1, BusyIsWorking, NextMartFacts, TypeSplit, CountsAssumption DEF TypeInv
  <2> QED
    BY <2>2 DEF AtEntry
<1>4. CASE GetWatermark(w)
  BY <1>1, <1>4 DEF GetWatermark, Goto, store, Refreshing, TypeInv, TypeOK
<1>5. CASE ReadMax(w)
  <2>1. pc[w] = "max" /\ UNCHANGED <<event, top, wm, counted, mart, old>>
    BY <1>3, <1>5 DEF ReadMax, store
  <2>2. old[w] = wm[a] /\ wm[a] <= top /\ Exactly(a, wm[a])
    BY <1>2, <2>1 DEF Accounts, Refreshing, Settled
  <2>3. CASE new' = [new EXCEPT ![w] = top] /\ Goto(w, "apply")
    <3>1. new'[w] = top /\ pc'[w] = "apply"
      BY <2>3 DEF Goto, TypeInv, TypeOK
    <3> QED
      BY <2>1, <2>2, <3>1 DEF Refreshing
  <2>4. CASE top <= old[w] /\ new' = [new EXCEPT ![w] = old[w]] /\ Goto(w, "set")
    <3>1. new'[w] = old[w] /\ pc'[w] = "set"
      BY <2>4 DEF Goto, TypeInv, TypeOK
    <3>2. wm[a] = top
      <4>1. wm[a] \in Nat
        BY <1>1
      <4>2. top <= wm[a] /\ wm[a] <= top
        BY <2>2, <2>4
      <4>3. top \in Nat
        BY <1>1
      <4> QED
        BY <4>1, <4>2, <4>3
    <3> QED
      BY <2>1, <2>2, <3>1, <3>2 DEF Refreshing, Exactly, HasEvent
  <2> QED
    BY <1>3, <1>5, <2>3, <2>4 DEF ReadMax
<1>6. ASSUME pc[w] \in {"apply", "rows"}, Applied(w), UNCHANGED <<event, top>>,
             \A x \in Messages : counted'[a][x] = IF HasEvent(x) THEN 1 ELSE 0
      PROVE  Refreshing(w)'
  <2>1. pc'[w] = "set" /\ new'[w] = new[w] /\ mart'[w] = a
    BY <1>3, <1>6 DEF Applied, Goto, frame, TypeInv, TypeOK
  <2>2. new[w] = top
    BY <1>6 DEF Accounts, Refreshing
  <2>3. Exactly(mart[w], top)'
    BY <1>1, <1>6, <2>1 DEF Exactly, HasEvent, Accounts
  <2> QED
    BY <1>6, <2>1, <2>2, <2>3 DEF Refreshing
<1>7. pc[w] = "apply" =>
        /\ wm[a] <= top /\ Window(old[w], new[w]) = {x \in Messages : HasEvent(x) /\ event[x] > wm[a]}
        /\ \A x \in Messages : counted[a][x] = IF HasEvent(x) /\ event[x] <= wm[a] THEN 1 ELSE 0
  <2> SUFFICES ASSUME pc[w] = "apply"
               PROVE  /\ wm[a] <= top
                      /\ Window(old[w], new[w]) = {x \in Messages : HasEvent(x) /\ event[x] > wm[a]}
                      /\ \A x \in Messages : counted[a][x] =
                             IF HasEvent(x) /\ event[x] <= wm[a] THEN 1 ELSE 0
    OBVIOUS
  <2>1. old[w] = wm[a] /\ new[w] = top
    BY DEF Accounts, Refreshing
  <2>2. wm[a] <= top /\ Exactly(a, wm[a])
    BY <1>2 DEF Settled
  <2> QED
    BY <2>1, <2>2 DEF Window, Exactly
<1>8. CASE ApplySum(w)
  <2>1. \A x \in Messages : counted'[a][x] = IF x \in Window(old[w], new[w])
                                                THEN counted[a][x] + 1 ELSE counted[a][x]
    BY <1>1, <1>8 DEF ApplySum
  <2>2. \A x \in Messages : counted'[a][x] = IF HasEvent(x) THEN 1 ELSE 0
    BY <1>1, <1>7, <1>8, <2>1 DEF ApplySum
  <2> QED
    BY <1>6, <1>8, <2>2 DEF ApplySum
<1>9. CASE ApplyReplace(w)
  <2>1. \A x \in Messages : counted'[a][x] =
            IF x \in Touched(Window(old[w], new[w]))
              THEN IF HasEvent(x) THEN 1 ELSE 0
              ELSE counted[a][x]
    BY <1>1, <1>9 DEF ApplyReplace
  <2>2. Window(old[w], new[w]) \subseteq Touched(Window(old[w], new[w]))
    BY DEF Touched, Window
  <2>3. \A x \in Messages : counted'[a][x] = IF HasEvent(x) THEN 1 ELSE 0
    BY <1>1, <1>7, <1>9, <2>1, <2>2 DEF ApplyReplace
  <2> QED
    BY <1>6, <1>9, <2>3 DEF ApplyReplace
<1>10. CASE FetchWindow(w)
  <2>1. /\ pc[w] = "apply" /\ pc'[w] = "rows" /\ pend'[w] = Window(old[w], new[w])
        /\ UNCHANGED <<event, top, wm, counted, mart, new>>
    BY <1>10 DEF FetchWindow, Goto, store, TypeInv, TypeOK
  <2>2. new[w] = top
    BY <2>1 DEF Accounts, Refreshing
  <2>3. \A x \in Messages :
            /\ x \in pend'[w] <=> HasEvent(x) /\ event[x] > wm[a]
            /\ counted[a][x] = IF HasEvent(x) /\ x \notin pend'[w] THEN 1 ELSE 0
    BY <1>1, <1>7, <2>1
  <2> QED
    BY <2>1, <2>2, <2>3 DEF Refreshing, HasEvent
<1>11. CASE UpsertBucket(w) \/ InsertOrIgnore(w)
  <2>1. /\ pc[w] = "rows" /\ pc'[w] = "rows" /\ UNCHANGED <<event, top, wm, mart, old, new>>
    BY <1>11 DEF UpsertBucket, InsertOrIgnore
  <2>2. new[w] = top /\ \A x \in Messages :
            /\ x \in pend[w] => HasEvent(x)
            /\ counted[a][x] = IF HasEvent(x) /\ x \notin pend[w] THEN 1 ELSE 0
    BY <2>1 DEF Accounts, Refreshing
  <2>3. \E B \in SUBSET pend[w] :
            /\ pend'[w] = pend[w] \ B
            /\ \A x \in Messages : counted'[a][x] = IF x \in B THEN 1 ELSE counted[a][x]
    <3>1. CASE UpsertBucket(w)
      <4>1. PICK B \in SUBSET pend[w] :
              /\ counted' = [counted EXCEPT ![mart[w]] =
                               [x \in Messages |-> IF x \in B THEN @[x] + 1 ELSE @[x]]]
              /\ pend' = [pend EXCEPT ![w] = @ \ B]
        BY <3>1 DEF UpsertBucket
      <4>2. pend'[w] = pend[w] \ B
        BY <4>1 DEF TypeInv, TypeOK
      <4>3. \A x \in Messages : counted'[a][x] = IF x \in B THEN counted[a][x] + 1 ELSE counted[a][x]
        BY <1>1, <4>1
      <4>4. \A x \in B : counted[a][x] = 0
        BY <1>1, <2>2
      <4> QED
        BY <4>2, <4>3, <4>4
    <3>2. CASE InsertOrIgnore(w)
      <4>1. PICK y \in pend[w] : /\ counted' = [counted EXCEPT ![mart[w]][y] = 1]
                                 /\ pend' = [pend EXCEPT ![w] = @ \ {y}]
        BY <3>2 DEF InsertOrIgnore
      <4>2. pend'[w] = pend[w] \ {y}
        BY <4>1 DEF TypeInv, TypeOK
      <4>3. \A x \in Messages : counted'[a][x] = IF x \in {y} THEN 1 ELSE counted[a][x]
        BY <1>1, <4>1
      <4>4. {y} \in SUBSET pend[w]
        OBVIOUS
      <4> QED
        BY <4>2, <4>3, <4>4
    <3> QED
      BY <1>11, <3>1, <3>2
  <2>4. \A x \in Messages :
            /\ x \in pend'[w] => HasEvent(x)
            /\ counted'[a][x] = IF HasEvent(x) /\ x \notin pend'[w] THEN 1 ELSE 0
    BY <2>2, <2>3
  <2> QED
    BY <2>1, <2>2, <2>4 DEF Refreshing, HasEvent
<1>12. CASE RowsDone(w)
  <2>1. \A x \in Messages : counted'[a][x] = IF HasEvent(x) THEN 1 ELSE 0
    BY <1>12 DEF RowsDone, store, Accounts, Refreshing
  <2> QED
    BY <1>6, <1>12, <2>1 DEF RowsDone, store
<1> QED
  BY <1>3, <1>4, <1>5, <1>8, <1>9, <1>10, <1>11, <1>12 DEF Refresh, SetWatermark
LEMMA RefreshExact ==
    ASSUME TypeInv, NEW w \in Workers, ExactInv(w), Refresh(w)
    PROVE  ExactInv(w)'
<1>1. pc[w] \notin {"idle", "commit"} /\ PhaseOf(w) \in {"refresh", "rebuild"}
  BY WhichPhase DEF Refresh, GetWatermark, ReadMax, ApplySum, ApplyReplace, FetchWindow,
                    UpsertBucket, InsertOrIgnore, RowsDone, SetWatermark
<1>2. Working(w) /\ phase[w] \in Nat /\ NumPhases(job[w]) \in Nat
  BY <1>1, WhichPhase
<1>3. CASE PhaseOf(w) = "rebuild"
  BY <1>3, RebuildExact
<1>4. CASE SetWatermark(w)
  <2>1. /\ pc[w] = "set" /\ NextMart(w) /\ PhaseOf(w) = "refresh"
        /\ UNCHANGED <<event, top, counted>>
        /\ wm' = [wm EXCEPT ![mart[w]] = Larger(wm[mart[w]], new[w])]
    BY <1>2, <1>4, WhichPhase DEF SetWatermark
  <2>2. \A m \in Marts : wm'[m] = IF m = mart[w] THEN Larger(wm[m], new[w]) ELSE wm[m]
    BY <2>1 DEF TypeInv, TypeOK
  <2>3. ASSUME Accounts(w)
        PROVE  /\ \A m \in Marts : Settled(m)'
               /\ wm'[mart[w]] = top
    <3>1. mart[w] \in Marts /\ top \in Nat /\ wm[mart[w]] \in Nat
      BY DEF TypeInv, TypeOK
    <3>2. new[w] = top /\ wm[mart[w]] <= top /\ Exactly(mart[w], top)
      BY <2>1, <2>3, <3>1 DEF Accounts, Refreshing
    <3>3. wm'[mart[w]] = top
      BY <2>2, <3>1, <3>2 DEF Larger
    <3>4. ASSUME NEW m \in Marts PROVE Settled(m)'
      <4>1. CASE m = mart[w]
        BY <2>1, <3>1, <3>2, <3>3, <4>1 DEF Settled, Exactly, HasEvent
      <4>2. CASE m # mart[w]
        BY <2>1, <2>2, <2>3, <4>2 DEF Accounts, Settled, Exactly, HasEvent
      <4> QED
        BY <4>1, <4>2
    <3> QED
      BY <3>3, <3>4
  <2>4. ASSUME Accounts(w), phase[w] = NumPhases(job[w]), NEW m \in Marts, m <= mart[w]
        PROVE  wm'[m] = top
    <3>1. CASE m = mart[w]
      BY <2>3, <2>4, <3>1
    <3>2. CASE m # mart[w]
      <4>1. m < mart[w]
        BY <2>4, <3>2 DEF Marts, TypeInv, TypeOK
      <4> QED
        BY <2>2, <2>4, <3>2, <4>1 DEF Accounts
    <3> QED
      BY <3>1, <3>2
  <2>5. Trusted(w) => Accounts(w)
    BY DEF ExactInv
  <2> QED
    BY <1>2, <2>1, <2>3, <2>4, <2>5, EnterMart
<1>5. CASE PhaseOf(w) = "refresh" /\ ~SetWatermark(w)
  <2>2. /\ UNCHANGED <<job, phase, mart, sound, event, top, wm>>
        /\ pc'[w] \in {"max", "apply", "rows", "set"}
        /\ pc[w] \in {"rows", "set"} => pc'[w] \in {"rows", "set"}
        /\ \A m \in Marts : m # mart[w] \/ pc'[w] \in {"max", "apply"} => counted'[m] = counted[m]
    <3>0. pc \in [Workers -> Statements] /\ counted \in [Marts -> [Messages -> Nat]]
      BY DEF TypeInv, TypeOK
    <3>1. CASE GetWatermark(w)
      BY <3>0, <3>1 DEF GetWatermark, Goto, store, history
    <3>2. CASE ReadMax(w)
      BY <1>5, <3>0, <3>2 DEF ReadMax, Goto, store
    <3>3. CASE ApplySum(w) \/ ApplyReplace(w)
      <4>1. pc'[w] = "set" /\ UNCHANGED <<job, phase, mart, sound>>
        BY <1>5, <3>0, <3>3 DEF ApplySum, ApplyReplace, Applied, Goto, frame
      <4>2. \A m \in Marts : m # mart[w] => counted'[m] = counted[m]
        BY <3>0, <3>3 DEF ApplySum, ApplyReplace
      <4> QED
        BY <3>3, <4>1, <4>2 DEF ApplySum, ApplyReplace
    <3>4. CASE FetchWindow(w)
      BY <3>0, <3>4 DEF FetchWindow, Goto, store, history
    <3>5. CASE UpsertBucket(w) \/ InsertOrIgnore(w)
      <4>1. \A m \in Marts : m # mart[w] => counted'[m] = counted[m]
        BY <3>0, <3>5 DEF UpsertBucket, InsertOrIgnore
      <4> QED
        BY <3>5, <4>1 DEF UpsertBucket, InsertOrIgnore, history
    <3>6. CASE RowsDone(w)
      BY <1>5, <3>0, <3>6 DEF RowsDone, Applied, Goto, frame, store
    <3> QED
      BY <1>5, <3>1, <3>2, <3>3, <3>4, <3>5, <3>6 DEF Refresh
  <2>3. Accounts(w) => Refreshing(w)'
    BY <2>2, FoldExact DEF ExactInv
  <2> QED
    BY <1>1, <1>5, <2>2, <2>3, StayRefresh
<1> QED
  BY <1>1, <1>3, <1>4, <1>5

LEMMA NextExact ==
    ASSUME TypeInv, NEW w \in Workers, Workers = {w}, ExactInv(w), [Next]_vars
    PROVE  ExactInv(w)'
<1>1. CASE UNCHANGED vars
  BY <1>1 DEF vars, store, frame, history, ExactInv, Wiping, Wiped, Trusted, Accounts,
              Refreshing, Settled, Exactly, HasEvent, PhaseOf, NumPhases
<1>2. CASE Start(w) \/ Step(w) \/ Fail(w)
  BY <1>2, StartExact, CommitNothingExact, FailExact, InsertExact, WipeExact, RefreshExact
     DEF Step
<1> QED
  BY <1>1, <1>2 DEF Next

(* Between jobs a worker that has the store for itself leaves every mart   *)
(* in agreement with the events, event for event, as long as no job died,  *)
(* and again after the forced backfill that follows one that did.          *)
THEOREM MartsExactAlone == OneWorker => (Spec => []QuiescentExact)
<1>1. ASSUME NEW w \in Workers, Workers = {w} PROVE Spec => []QuiescentExact
  <2>1. Init => ExactInv(w)
    <3> SUFFICES ASSUME Init PROVE ExactInv(w)
      OBVIOUS
    <3>1. /\ pc[w] = "idle" /\ job[w] = "none" /\ top = 0
          /\ \A x \in Messages : event[x] = 0
          /\ \A m \in Marts : wm[m] = 0 /\ \A x \in Messages : counted[m][x] = 0
      BY DEF Init
    <3> QED
      BY <3>1 DEF ExactInv, Wiping, Accounts, Refreshing, Settled, Exactly, HasEvent
  <2>2. TypeInv /\ ExactInv(w) /\ [Next]_vars => ExactInv(w)'
    BY <1>1, NextExact
  <2>3. TypeInv /\ ExactInv(w) => QuiescentExact
    <3> SUFFICES ASSUME TypeInv, ExactInv(w), AllIdle, sound,
                        NEW m \in Marts, NEW x \in Messages
                 PROVE  counted[m][x] = IF HasEvent(x) THEN 1 ELSE 0
      BY DEF QuiescentExact
    <3>1. pc[w] = "idle"
      BY <1>1 DEF AllIdle
    <3>2. job[w] # "none" => PhaseOf(w) \in PhaseNames /\ pc[w] \in PhaseStatements[PhaseOf(w)]
      BY <1>1, PhaseFacts DEF TypeInv, TypeOK, ControlOK, PhaseOf
    <3>3. job[w] = "none"
      BY <3>1, <3>2 DEF PhaseNames, PhaseStatements
    <3>4. Accounts(w)
      BY <3>3 DEF ExactInv, Trusted
    <3>5. wm[m] = top /\ Exactly(m, wm[m])
      BY <3>1, <3>4 DEF Accounts, Settled
    <3> QED
      BY <3>5 DEF Exactly, ExactInv
  <2> QED
    BY <2>1, <2>2, <2>3, AlwaysTyped, PTL DEF Spec
<1> QED
  BY <1>1 DEF OneWorker
=============================================================================
