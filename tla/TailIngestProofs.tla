--------------------------- MODULE TailIngestProofs ---------------------------
(***************************************************************************)
(* Theorems about TailIngest, for any sweeps and watchers, lines and       *)
(* faults: the types; what the resume offset has passed; what the skip of  *)
(* an unchanged file and an idle watcher rest on; and that a full read     *)
(* heals the store.                                                        *)
(***************************************************************************)
EXTENDS TailIngest, SequenceTheorems, WellFoundedInduction, TLAPS

(* What stat can say of a file of at most MaxLines lines.                  *)
Limit == 2 * MaxLines

(* The types, and that no size and no offset is beyond the largest file.   *)
TailTyped ==
    /\ TypeOK
    /\ log.offset <= Limit
    /\ \A w \in Workers : ref[w].size <= Limit /\ since[w] <= Limit

-----------------------------------------------------------------------------
(* Lines and units.                                                        *)

LEMMA SizeFacts ==
    ASSUME TypeOK
    PROVE  /\ DOMAIN lines = 1..Len(lines) /\ Len(lines) \in Nat
           /\ Size \in Nat /\ Size <= Limit
           /\ \A i \in DOMAIN lines : Start(i) \in Nat /\ Start(i) < Size
           /\ 2 * Len(lines) - 1 <= Size /\ Size <= 2 * Len(lines)
           /\ lines \in [1..Len(lines) -> LineKinds]
<1>1. lines \in Seq(LineKinds) /\ Len(lines) <= MaxLines /\ torn \in BOOLEAN /\ MaxLines \in Nat
  BY TailAssumption DEF TypeOK
<1>2. Len(lines) \in Nat /\ DOMAIN lines = 1..Len(lines) /\ lines \in [1..Len(lines) -> LineKinds]
  BY <1>1, LenProperties
<1>3. torn => Len(lines) # 0
  <2>1. lines # <<>> => Len(lines) # 0
    BY <1>1, EmptySeq
  <2> QED
    BY <2>1 DEF TypeOK
<1> QED
  BY <1>1, <1>2, <1>3 DEF Size, Limit, Start

(* A non-empty set of bounded naturals has a greatest member.              *)
LEMMA GreatestFacts ==
    ASSUME NEW S, S \subseteq Nat, S # {}, NEW b \in Nat, \A x \in S : x <= b
    PROVE  Greatest(S) \in S /\ \A y \in S : y <= Greatest(S)
<1> DEFINE bounds == {n \in Nat : \A x \in S : x <= n}
           less   == OpToRel(<, Nat)
<1>1. bounds # {}
  OBVIOUS
<1>2. PICK n \in bounds : \A k \in bounds : n <= k
  <2>1. PICK n \in bounds : \A k \in bounds : <<k, n>> \notin less
    BY <1>1, WFMin, NatLessThanWellFounded
  <2>2. ASSUME NEW k \in bounds PROVE n <= k
    <3>1. n \in Nat /\ k \in Nat /\ <<k, n>> \in Nat \X Nat
      BY <2>1
    <3>2. less = {ss \in Nat \X Nat : ss[1] < ss[2]}
      BY DEF OpToRel
    <3> HIDE DEF less
    <3>3. ~(k < n)
      BY <2>1, <3>1, <3>2
    <3> QED
      BY <3>1, <3>3
  <2> QED
    BY <2>1, <2>2
<1>3. n \in S
  <2> SUFFICES ASSUME n \notin S PROVE FALSE
    OBVIOUS
  <2>1. n \in Nat /\ \A x \in S : x < n
    BY <1>2
  <2>2. PICK x \in S : x < n
    BY <2>1
  <2>3. n - 1 \in Nat /\ \A y \in S : y <= n - 1
    BY <2>1, <2>2
  <2>4. n - 1 \in bounds
    BY <2>3
  <2> HIDE DEF bounds
  <2> QED
    BY <1>2, <2>1, <2>4
<1>4. \E x \in S : \A y \in S : y <= x
  BY <1>2, <1>3
<1> QED
  BY <1>4 DEF Greatest

(* Messages are whole lines of the file.                                   *)
LEMMA LineFacts ==
    ASSUME TypeOK
    PROVE  /\ \A i \in DOMAIN lines : /\ i \in 1..MaxLines /\ Start(i) \in Nat
                                      /\ Start(i) <= Limit
           /\ \A i \in Messages : i \in DOMAIN lines /\ lines[i] = "message" /\ End(i) <= Size
           /\ \A i \in Nat \ {0} : End(i) <= Size => i \in DOMAIN lines /\ Complete(i)
           /\ \A i \in Nat \ {0} : Start(i) <= Limit => i \in 1..MaxLines + 1
<1>1. DOMAIN lines = 1..Len(lines) /\ Len(lines) \in Nat /\ Len(lines) <= MaxLines
      /\ MaxLines \in Nat /\ Size \in Nat /\ Size <= 2 * Len(lines)
  BY SizeFacts, TailAssumption DEF TypeOK
<1>2. ASSUME NEW i \in DOMAIN lines
      PROVE  i \in 1..MaxLines /\ Start(i) \in Nat /\ Start(i) <= Limit
  BY <1>1 DEF Start, Limit
<1>3. ASSUME NEW i \in Nat \ {0}, End(i) <= Size
      PROVE  i \in DOMAIN lines /\ Complete(i)
  BY <1>1, <1>3 DEF End, Complete
<1>4. ASSUME NEW i \in Nat \ {0}, Start(i) <= Limit
      PROVE  i \in 1..MaxLines + 1
  BY <1>1, <1>4 DEF Start, Limit
<1> QED
  BY <1>2, <1>3, <1>4 DEF Messages, Complete

-----------------------------------------------------------------------------
(* The writer's steps.                                                     *)

(* The file only grew: its lines are where they were.                      *)
Grows ==
    /\ rewrites' = rewrites
    /\ Size \in Nat /\ Size' \in Nat /\ Size <= Size'
    /\ \A i \in DOMAIN lines : i \in DOMAIN lines' /\ lines'[i] = lines[i]

LEMMA WriterSteps ==
    ASSUME TailTyped, Writer
    PROVE  /\ TailTyped'
           /\ UNCHANGED <<store, pc, ref, since, at, got, apart, gaveUp, aborts, broken>>
           /\ ~Rewrite => Grows /\ UNCHANGED clean
           /\ Rewrite => /\ rewrites' > 0 /\ Size' \in Nat
                         /\ clean' = [w \in Workers |-> pc[w] \in {"idle", "stat"}]
           /\ dirty'
<1>1. TypeOK /\ lines \in Seq(LineKinds) /\ Len(lines) \in Nat /\ DOMAIN lines = 1..Len(lines)
      /\ Size \in Nat
  BY SizeFacts DEF TailTyped, TypeOK
<1>2. rewrites \in 0..MaxRewrites /\ MaxRewrites \in Nat /\ MaxLines \in Nat
  BY TailAssumption, <1>1 DEF TypeOK
<1>3. UNCHANGED <<store, pc, ref, since, at, got, apart, gaveUp, aborts, broken>>
      /\ dirty' = TRUE
  BY DEF Writer, AppendLine, AppendHalf, CompleteLine, Rewrite, LateEvent, Written, store, pass,
         count
<1>4. ASSUME NEW k \in LineKinds, lines' = Append(lines, k)
      PROVE  /\ lines' \in Seq(LineKinds) /\ Len(lines') = Len(lines) + 1
             /\ lines' # <<>>
             /\ \A i \in DOMAIN lines : i \in DOMAIN lines' /\ lines'[i] = lines[i]
  <2>1. Append(lines, k) \in Seq(LineKinds) /\ Len(Append(lines, k)) = Len(lines) + 1
        /\ \A i \in 1..Len(lines) : Append(lines, k)[i] = lines[i]
    BY <1>1
  <2>2. DOMAIN lines' = 1..Len(lines')
    BY <1>4, <2>1, LenProperties
  <2>3. lines' # <<>>
    BY <1>4, <2>1, <1>1, EmptySeq
  <2> QED
    BY <1>1, <1>4, <2>1, <2>2, <2>3
<1> SUFFICES /\ lines' \in Seq(LineKinds) /\ Len(lines') <= MaxLines
             /\ torn' \in BOOLEAN
             /\ torn' => lines' # <<>>
             /\ mtime' \in Nat /\ rewrites' \in 0..MaxRewrites
             /\ clean' \in [Workers -> BOOLEAN]
             /\ ~Rewrite => Grows /\ UNCHANGED clean
             /\ Rewrite => /\ rewrites' > 0 /\ Size' \in Nat
                           /\ clean' = [w \in Workers |-> pc[w] \in {"idle", "stat"}]
  BY <1>1, <1>3 DEF TailTyped, TypeOK, store
<1>5. clean \in [Workers -> BOOLEAN] /\ mtime \in Nat /\ torn \in BOOLEAN
  BY <1>1 DEF TypeOK
<1>6. CASE AppendLine /\ ~Rewrite
  <2>1. PICK k \in LineKinds : lines' = Append(lines, k)
    BY <1>6 DEF AppendLine
  <2>2. ~torn /\ torn' = torn /\ Len(lines) < MaxLines /\ rewrites' = rewrites
        /\ mtime' = mtime + 2 /\ clean' = clean
    BY <1>6 DEF AppendLine, Written
  <2> QED
    BY <1>1, <1>2, <1>4, <1>5, <1>6, <2>1, <2>2 DEF Grows, Size
<1>7. CASE AppendHalf /\ ~Rewrite
  <2>1. PICK k \in LineKinds : lines' = Append(lines, k)
    BY <1>7 DEF AppendHalf
  <2>2. ~torn /\ torn' = TRUE /\ Len(lines) < MaxLines /\ rewrites' = rewrites
        /\ mtime' = mtime + 1 /\ clean' = clean
    BY <1>7 DEF AppendHalf, Written
  <2> QED
    BY <1>1, <1>2, <1>4, <1>5, <1>7, <2>1, <2>2 DEF Grows, Size
<1>8. CASE CompleteLine /\ ~Rewrite
  <2>1. torn = TRUE /\ torn' = FALSE /\ lines' = lines /\ rewrites' = rewrites
        /\ mtime' = mtime + 1 /\ clean' = clean
    BY <1>5, <1>8 DEF CompleteLine, Written
  <2>2. Grows
    BY <1>1, <2>1 DEF Grows, Size
  <2>3. Len(lines') <= MaxLines /\ mtime' \in Nat /\ rewrites' \in 0..MaxRewrites
    BY <1>1, <1>2, <1>5, <2>1 DEF TypeOK
  <2>4. lines' \in Seq(LineKinds) /\ clean' \in [Workers -> BOOLEAN] /\ UNCHANGED clean
    BY <1>1, <1>5, <2>1
  <2> QED
    BY <1>8, <2>1, <2>2, <2>3, <2>4
<1>9. CASE Rewrite
  <2>1. PICK n \in 0..Len(lines) - 1 : lines' = SubSeq(lines, 1, n)
    BY <1>9 DEF Rewrite
  <2>2. SubSeq(lines, 1, n) \in Seq(LineKinds) /\ Len(SubSeq(lines, 1, n)) = n
    BY <1>1, SubSeqProperties
  <2>3. torn' = FALSE /\ rewrites' = rewrites + 1 /\ rewrites < MaxRewrites
        /\ mtime' = mtime + 1
        /\ clean' = [w \in Workers |-> pc[w] \in {"idle", "stat"}]
    BY <1>9 DEF Rewrite, Written
  <2>4. rewrites' > 0 /\ rewrites' \in 0..MaxRewrites
    BY <1>2, <2>3
  <2>5. mtime' \in Nat /\ clean' \in [Workers -> BOOLEAN]
    BY <1>5, <2>3
  <2>6. lines' \in Seq(LineKinds) /\ Len(lines') <= MaxLines
    BY <1>1, <2>1, <2>2, <1>2 DEF TypeOK
  <2>7. Size' \in Nat
    BY <2>1, <2>2, <2>3 DEF Size
  <2> QED
    BY <1>9, <2>3, <2>4, <2>5, <2>6, <2>7
<1>10. CASE LateEvent /\ ~Rewrite
  <2>1. UNCHANGED <<lines, torn, mtime, rewrites, clean>>
    BY <1>10 DEF LateEvent, file, pass, count
  <2>2. Grows
    BY <1>1, <2>1 DEF Grows, Size
  <2> QED
    BY <1>1, <1>2, <1>5, <1>10, <2>1, <2>2 DEF TypeOK
<1> QED
  BY <1>6, <1>7, <1>8, <1>9, <1>10 DEF Writer

-----------------------------------------------------------------------------
(* The transaction of ingest_file.                                         *)

LEMMA CommitFacts ==
    ASSUME TailTyped, NEW w \in Workers, Commit(w)
    PROVE  /\ Seqs(got[w]) \subseteq stored' /\ stored \subseteq stored' /\ stored' \subseteq Nat
           /\ \A i : Safe(i) => Safe(i)'
           /\ missed' \subseteq 1..MaxLines + 1
           /\ \A i \in Overlooked(w) : Safe(i)'
           /\ \A i \in missed' : Start(i) \notin stored'
           /\ log' \in [mtime : Nat, size : Nat, offset : Nat]
           /\ log'.size = ref[w].size /\ log'.offset = Offset(w) /\ log'.offset <= Limit
           /\ Added(w) = {} => Offset(w) = ref[w].size
           /\ Added(w) # {} => \/ Offset(w) = since[w]
                               \/ \E j \in got[w] : Offset(w) = Start(j)
<1>1. TypeOK /\ ref[w] \in [mtime : Nat, size : Nat] /\ ref[w].size <= Limit
      /\ since[w] \in Nat /\ since[w] <= Limit /\ MaxLines \in Nat /\ stored \subseteq Nat
      /\ missed \subseteq 1..MaxLines + 1 /\ got[w] \subseteq 1..MaxLines
  BY TailAssumption DEF TailTyped, TypeOK
<1>2. Added(w) \subseteq Nat /\ \A x \in Added(w) : x <= Limit
  BY <1>1 DEF Added, Seqs, Start, Limit
<1>3. stored' = stored \cup Added(w)
      /\ missed' = {i \in missed \cup Overlooked(w) : Start(i) \notin stored'}
      /\ log' = [mtime |-> ref[w].mtime, size |-> ref[w].size, offset |-> Offset(w)]
  BY DEF Commit
<1>4. Seqs(got[w]) \subseteq stored' /\ stored' \subseteq Nat
  BY <1>1, <1>2, <1>3 DEF Added
<1>5. Overlooked(w) \subseteq 1..MaxLines + 1
  BY DEF Overlooked
<1>6. Added(w) # {} =>
         /\ Greatest(Added(w) \cup {since[w]}) \in Added(w) \cup {since[w]}
         /\ Greatest(Added(w) \cup {since[w]}) <= Limit
  <2>1. PICK S \in SUBSET Nat : S = Added(w) \cup {since[w]}
    BY <1>1, <1>2
  <2>2. Limit \in Nat /\ \A x \in S : x <= Limit
    BY <1>1, <1>2, <2>1 DEF Limit
  <2>3. Greatest(S) \in S
    BY <2>1, <2>2, GreatestFacts
  <2> QED
    BY <2>1, <2>2, <2>3
<1>7. /\ Added(w) = {} => Offset(w) = ref[w].size
      /\ Added(w) # {} => Offset(w) \in Added(w) \cup {since[w]}
      /\ Offset(w) \in Nat /\ Offset(w) <= Limit
  BY <1>1, <1>2, <1>6 DEF Offset
<1>8. Added(w) # {} => Offset(w) = since[w] \/ \E j \in got[w] : Offset(w) = Start(j)
  BY <1>7 DEF Added, Seqs
<1>9. /\ log' \in [mtime : Nat, size : Nat, offset : Nat]
      /\ log'.size = ref[w].size /\ log'.offset = Offset(w) /\ log'.offset <= Limit
  BY <1>1, <1>3, <1>7
<1>10. (\A i : Safe(i) => Safe(i)') /\ (\A i \in Overlooked(w) : Safe(i)')
       /\ \A i \in missed' : Start(i) \notin stored'
  BY <1>3 DEF Safe
<1> QED
  BY <1>1, <1>3, <1>4, <1>5, <1>7, <1>8, <1>9, <1>10

-----------------------------------------------------------------------------
(* Types.                                                                  *)

LEMMA TypedInit == Init => TailTyped
<1> SUFFICES ASSUME Init PROVE TailTyped
  OBVIOUS
<1>1. lines \in Seq(LineKinds) /\ Len(lines) = 0
  BY EmptySeq DEF Init
<1>2. MaxLines \in Nat /\ MaxAborts \in Nat /\ MaxRewrites \in Nat /\ MaxBroken \in Nat
  BY TailAssumption
<1>3. ref \in [Workers -> [mtime : Nat, size : Nat]] /\ \A w \in Workers : ref[w].size <= Limit
  BY <1>2 DEF Init, NoRef, Limit
<1>4. /\ pc \in [Workers -> {"idle", "stat", "resume", "forget", "read", "commit"}]
      /\ log = NoRow /\ log.offset <= Limit
      /\ torn = FALSE /\ dirty = FALSE /\ mtime = 0 /\ stored = {} /\ missed = {}
      /\ gaveUp = {} /\ aborts = 0 /\ rewrites = 0 /\ broken = 0
  BY <1>2 DEF Init, NoRow, Limit
<1>5. since \in [Workers -> Nat] /\ at \in [Workers -> Nat] /\ clean \in [Workers -> BOOLEAN]
      /\ \A w \in Workers : since[w] <= Limit
  BY <1>2 DEF Init, Limit
<1>6. got \in [Workers -> SUBSET (1..MaxLines)] /\ apart \in [Workers -> SUBSET (1..MaxLines)]
  BY DEF Init
<1>7. /\ torn \in BOOLEAN /\ dirty \in BOOLEAN /\ mtime \in Nat
      /\ torn => lines # <<>>
  BY <1>4
<1>8. /\ stored \subseteq Nat /\ missed \subseteq 1..MaxLines + 1 /\ gaveUp \subseteq Watchers
      /\ aborts \in 0..MaxAborts /\ rewrites \in 0..MaxRewrites /\ broken \in 0..MaxBroken
      /\ Len(lines) <= MaxLines
  BY <1>1, <1>2, <1>4
<1> QED
  BY <1>1, <1>3, <1>4, <1>5, <1>6, <1>7, <1>8 DEF TailTyped, TypeOK

(* A pass that ends leaves nothing behind.                                 *)
LEMMA TypedFinish ==
    ASSUME TailTyped, NEW w \in Workers, Finish(w)
    PROVE  /\ pc' \in [Workers -> {"idle", "stat", "resume", "forget", "read", "commit"}]
           /\ ref' \in [Workers -> [mtime : Nat, size : Nat]]
           /\ since' \in [Workers -> Nat] /\ at' \in [Workers -> Nat]
           /\ got' \in [Workers -> SUBSET (1..MaxLines)]
           /\ apart' \in [Workers -> SUBSET (1..MaxLines)]
           /\ clean' \in [Workers -> BOOLEAN]
           /\ \A v \in Workers : ref'[v].size <= Limit /\ since'[v] <= Limit
<1>1. NoRef \in [mtime : Nat, size : Nat] /\ NoRef.size <= Limit /\ 0 <= Limit
  BY TailAssumption DEF NoRef, Limit
<1> QED
  BY <1>1 DEF TailTyped, TypeOK, Finish

LEMMA TypedStep == TailTyped /\ [Next]_vars => TailTyped'
<1> SUFFICES ASSUME TailTyped, [Next]_vars PROVE TailTyped'
  OBVIOUS
<1>1. TypeOK /\ \A v \in Workers : /\ ref[v] \in [mtime : Nat, size : Nat]
                                   /\ ref[v].size <= Limit /\ since[v] \in Nat
  BY DEF TailTyped, TypeOK
<1>2. CASE Writer
  BY <1>2, WriterSteps
<1>3. ASSUME NEW w \in Workers, StartSweep(w) \/ StartCycle(w) \/ DropBatch(w)
      PROVE  TailTyped'
  <2>1. UNCHANGED <<file, store, pass, rewrites, broken>> /\ dirty' \in BOOLEAN
        /\ pc' \in [Workers -> {"idle", "stat", "resume", "forget", "read", "commit"}]
    BY <1>1, <1>3 DEF StartSweep, StartCycle, DropBatch, TypeOK, count
  <2>2. gaveUp' \subseteq Watchers
    BY <1>1, <1>3 DEF StartSweep, StartCycle, DropBatch, TypeOK
  <2>3. aborts' \in 0..MaxAborts
    BY <1>1, <1>3, TailAssumption DEF StartSweep, StartCycle, DropBatch, TypeOK, count
  <2> QED
    BY <1>1, <2>1, <2>2, <2>3 DEF TailTyped, TypeOK, file, store, pass
<1>4. ASSUME NEW w \in Workers, Enumerate(w)
      PROVE  TailTyped'
  <2>1. UNCHANGED <<file, dirty, store, since, at, got, apart, clean, gaveUp, count>>
        /\ pc' = [pc EXCEPT ![w] = "resume"]
        /\ ref' = [ref EXCEPT ![w] = [mtime |-> mtime, size |-> Size]]
    BY <1>4 DEF Enumerate
  <2>2. mtime \in Nat /\ Size \in Nat /\ Size <= Limit
    <3>1. Size \in Nat /\ Size <= Limit
      BY <1>1, SizeFacts
    <3> QED
      BY <1>1, <3>1 DEF TypeOK
  <2> QED
    BY <1>1, <2>1, <2>2 DEF TailTyped, TypeOK, file, store, count
<1>5. ASSUME NEW w \in Workers,
             SweepFresh(w) \/ SweepForget(w) \/ SweepTail(w) \/ CycleResume(w)
      PROVE  TailTyped'
  <2>1. UNCHANGED <<file, dirty, stored, missed, gaveUp, count, ref, got, apart, clean>>
        /\ log' \in {log, NoRow} /\ pc' = [pc EXCEPT ![w] = "read"]
    BY <1>5 DEF SweepFresh, SweepForget, SweepTail, CycleResume, ReadFrom, store
  <2>2. PICK o \in Nat : /\ since' = [since EXCEPT ![w] = o] /\ at' = [at EXCEPT ![w] = o]
                         /\ o <= Limit
    <3>1. 0 <= Limit /\ (log # NoRow => log.offset \in Nat) /\ log.offset <= Limit
      BY TailAssumption DEF Limit, TailTyped, TypeOK
    <3> QED
      BY <1>5, <3>1 DEF SweepFresh, SweepForget, SweepTail, CycleResume, ReadFrom
  <2>3. log' \in [mtime : Nat, size : Nat, offset : Nat] \cup {NoRow} /\ log'.offset <= Limit
    BY <2>1, TailAssumption DEF TailTyped, TypeOK, NoRow, Limit
  <2>4. /\ pc' \in [Workers -> {"idle", "stat", "resume", "forget", "read", "commit"}]
        /\ since' \in [Workers -> Nat] /\ at' \in [Workers -> Nat]
        /\ \A v \in Workers : ref'[v].size <= Limit /\ since'[v] <= Limit
    BY <2>1, <2>2 DEF TailTyped, TypeOK
  <2> QED
    BY <1>1, <2>1, <2>3, <2>4 DEF TailTyped, TypeOK, file, count
<1>6. ASSUME NEW w \in Workers, SweepReparse(w)
      PROVE  TailTyped'
  BY <1>1, <1>6 DEF SweepReparse, TailTyped, TypeOK, file, store, pass, count
<1>7. ASSUME NEW w \in Workers,
             DeliverLine(w) \/ PassLine(w) \/ ReadHalf(w) \/ ReadRest(w)
      PROVE  TailTyped'
  <2>1. PICK u \in Nat : ReadTo(w, u)
    <3>1. \A i \in DOMAIN lines : End(i) \in Nat
      BY <1>1, LineFacts DEF End
    <3>2. Size \in Nat
      BY <1>1, SizeFacts
    <3> QED
      BY <1>7, <3>1, <3>2 DEF DeliverLine, PassLine, ReadHalf, ReadRest
  <2>2. /\ got' \in [Workers -> SUBSET (1..MaxLines)]
        /\ apart' \in [Workers -> SUBSET (1..MaxLines)]
    <3>1. DOMAIN lines \subseteq 1..MaxLines
      BY <1>1, LineFacts
    <3>2. got \in [Workers -> SUBSET (1..MaxLines)] /\ apart \in [Workers -> SUBSET (1..MaxLines)]
      BY <1>1 DEF TypeOK
    <3> QED
      BY <1>7, <3>1, <3>2 DEF DeliverLine, PassLine, ReadHalf, ReadRest
  <2> QED
    BY <1>1, <2>1, <2>2 DEF ReadTo, TailTyped, TypeOK, file, store, count
<1>8. ASSUME NEW w \in Workers, EndOfFile(w) \/ ReadBreaks(w)
      PROVE  TailTyped'
  <2>1. PICK c \in BOOLEAN : EndRead(w, c)
    BY <1>1, <1>8 DEF EndOfFile, ReadBreaks, TypeOK
  <2>2. UNCHANGED <<aborts, rewrites>> /\ broken' \in 0..MaxBroken
    <3>1. broken \in 0..MaxBroken /\ MaxBroken \in Nat
      BY <1>1, TailAssumption DEF TypeOK
    <3>2. CASE EndOfFile(w)
      BY <3>1, <3>2 DEF EndOfFile, count
    <3>3. CASE ReadBreaks(w)
      BY <3>1, <3>3 DEF ReadBreaks
    <3> QED
      BY <1>8, <3>2, <3>3
  <2> QED
    BY <1>1, <2>1, <2>2 DEF EndRead, TailTyped, TypeOK, file, store
<1>9. ASSUME NEW w \in Workers, SweepSkip(w) \/ Busy(w) \/ Abort(w)
      PROVE  TailTyped'
  <2>1. UNCHANGED <<file, dirty, store, rewrites, broken>> /\ Finish(w)
        /\ gaveUp' \subseteq Watchers
    BY <1>1, <1>9 DEF SweepSkip, Busy, Abort, Fail, count, TypeOK
  <2>2. aborts' \in 0..MaxAborts
    BY <1>1, <1>9, TailAssumption DEF SweepSkip, Busy, Abort, Fail, count, TypeOK
  <2> QED
    BY <1>1, <2>1, <2>2, TypedFinish DEF TailTyped, TypeOK, file, store
<1>10. ASSUME NEW w \in Workers, CommitPass(w)
       PROVE  TailTyped'
  <2>1. UNCHANGED <<file, dirty, gaveUp, count>> /\ Finish(w) /\ Commit(w)
    BY <1>10 DEF CommitPass, Commit
  <2>2. /\ stored' \subseteq Nat /\ missed' \subseteq 1..MaxLines + 1
        /\ log' \in [mtime : Nat, size : Nat, offset : Nat] /\ log'.offset <= Limit
    BY <2>1, CommitFacts
  <2> QED
    BY <1>1, <2>1, <2>2, TypedFinish DEF TailTyped, TypeOK, file, count
<1>11. CASE UNCHANGED vars
  BY <1>1, <1>11 DEF vars, TailTyped, TypeOK, file, store, pass, count
<1> QED
  BY <1>2, <1>3, <1>4, <1>5, <1>6, <1>7, <1>8, <1>9, <1>10, <1>11 DEF Next, Ingest

(* Every variable has its type, in every reachable state: offsets, sizes   *)
(* and read positions are numbers of units, what a pass was given are      *)
(* lines of the file, and no fault is counted beyond its bound.            *)
THEOREM TailTypesHold == Spec => []TypeOK
<1>1. TailTyped => TypeOK
  BY DEF TailTyped
<1> QED
  BY TypedInit, TypedStep, <1>1, PTL DEF Spec

-----------------------------------------------------------------------------
(* What a pass knows of the file it reads.                                 *)

(* Behind the read position no message past since was left out but those   *)
(* that came in two pieces; a position in the middle of a line is that of  *)
(* the resume or beyond what stat saw, and so is a line in two pieces.     *)
ReadSoFar(w) ==
    /\ since[w] <= at[w] /\ at[w] <= Size
    /\ \A i \in Nat \ {0} :
          End(i) <= at[w] /\ lines[i] = "message" /\ (since[w] = 0 \/ Start(i) > since[w]) =>
              i \in got[w] \cup apart[w]
    /\ \A i \in Nat \ {0} : at[w] = Start(i) + 1 => at[w] = since[w] \/ ref[w].size <= at[w]
    /\ \A i \in apart[w] : ref[w].size < End(i)

(* The file was not truncated under this pass, at no time or not since the *)
(* stat; in the second case only a pass from 0 is of interest.             *)
Undisturbed(w) == rewrites = 0 \/ (clean[w] /\ since[w] = 0)

PassOK(w) ==
    /\ pc[w] \in {"idle", "stat"} => ref[w] = NoRef
    /\ pc[w] = "forget" => w \in Sweeps
    /\ pc[w] \notin {"read", "commit"} => got[w] = {} /\ apart[w] = {}
    /\ \A i \in got[w] : End(i) <= at[w]
    /\ rewrites = 0 /\ broken = 0 => clean[w]
    /\ rewrites = 0 \/ clean[w] => ref[w].size <= Size
    /\ pc[w] = "commit" /\ clean[w] => ref[w].size <= at[w]
    /\ pc[w] \in {"read", "commit"} /\ Undisturbed(w) => ReadSoFar(w)

(* A step that is not w's, and under which the file only grows.            *)
LEMMA PassStays ==
    ASSUME TailTyped, NEW w \in Workers, PassOK(w), Grows,
           pc'[w] = pc[w], ref'[w] = ref[w], since'[w] = since[w], at'[w] = at[w],
           got'[w] = got[w], apart'[w] = apart[w], clean'[w] = clean[w],
           broken' = 0 => broken = 0
    PROVE  PassOK(w)'
<1>1. TypeOK /\ ref[w].size \in Nat /\ at[w] \in Nat /\ Size \in Nat /\ Size' \in Nat /\ Size <= Size'
  BY DEF TailTyped, TypeOK, Grows
<1>2. Undisturbed(w)' = Undisturbed(w)
  BY DEF Undisturbed, Grows
<1>3. ReadSoFar(w) => ReadSoFar(w)'
  <2> SUFFICES ASSUME ReadSoFar(w) PROVE ReadSoFar(w)'
    OBVIOUS
  <2>1. since'[w] <= at'[w] /\ at'[w] <= Size'
    BY <1>1 DEF ReadSoFar
  <2>2. ASSUME NEW i \in Nat \ {0}, End(i) <= at'[w], lines'[i] = "message",
               since'[w] = 0 \/ Start(i) > since'[w]
        PROVE  i \in got'[w] \cup apart'[w]
    <3>1. End(i) \in Nat /\ End(i) <= Size
      BY <1>1, <2>2 DEF End, ReadSoFar
    <3>2. i \in DOMAIN lines
      BY <1>1, <3>1, LineFacts
    <3> QED
      BY <2>2, <3>2 DEF ReadSoFar, Grows
  <2> QED
    BY <2>1, <2>2 DEF ReadSoFar
<1>4. rewrites' = 0 \/ clean'[w] => ref'[w].size <= Size'
  BY <1>1 DEF PassOK, Grows
<1>5. rewrites' = rewrites
  BY DEF Grows
<1> QED
  BY <1>2, <1>3, <1>4, <1>5 DEF PassOK

(* A truncation: the passes at work are disturbed from then on.            *)
LEMMA PassTruncated ==
    ASSUME TailTyped, TailTyped', NEW w \in Workers, PassOK(w), rewrites' > 0,
           clean' = [v \in Workers |-> pc[v] \in {"idle", "stat"}],
           UNCHANGED <<pc, ref, since, at, got, apart>>, Size' \in Nat
    PROVE  PassOK(w)'
<1>1. (clean'[w] <=> pc[w] \in {"idle", "stat"}) /\ rewrites' # 0
  <2>1. rewrites' # 0
    BY DEF TailTyped, TypeOK
  <2> QED
    BY <2>1
<1>2. clean'[w] => ref'[w].size <= Size'
  <2>1. pc[w] \in {"idle", "stat"} => ref'[w] = NoRef
    BY DEF PassOK
  <2>2. NoRef.size = 0
    BY DEF NoRef
  <2> QED
    BY <1>1, <2>1, <2>2
<1>3. /\ pc'[w] \in {"idle", "stat"} => ref'[w] = NoRef
      /\ pc'[w] = "forget" => w \in Sweeps
      /\ pc'[w] \notin {"read", "commit"} => got'[w] = {} /\ apart'[w] = {}
      /\ \A i \in got'[w] : End(i) <= at'[w]
  BY DEF PassOK
<1>4. ~(rewrites' = 0) /\ (pc'[w] \in {"read", "commit"} => ~clean'[w])
  BY <1>1
<1>5. pc'[w] = "commit" /\ clean'[w] => ref'[w].size <= at'[w]
  BY <1>4
<1> QED
  BY <1>2, <1>3, <1>4, <1>5 DEF PassOK, Undisturbed

LEMMA PassFinished ==
    ASSUME TailTyped, NEW w \in Workers, Finish(w), Size' \in Nat
    PROVE  PassOK(w)'
<1>1. /\ pc'[w] = "idle" /\ ref'[w] = NoRef /\ got'[w] = {} /\ apart'[w] = {}
      /\ clean'[w] = TRUE
  BY DEF Finish, TailTyped, TypeOK
<1> QED
  BY <1>1 DEF PassOK, NoRef

(* A pass begins to read: nothing is behind it but what its offset passed. *)
LEMMA PassResumes ==
    ASSUME TailTyped, NEW w \in Workers, PassOK(w), NEW o \in Nat, ReadFrom(w, o),
           pc[w] \in {"resume", "forget"},
           rewrites = 0 => o <= Size,
           UNCHANGED <<lines, torn, rewrites, broken>>
    PROVE  PassOK(w)'
<1>1. /\ pc'[w] = "read" /\ since'[w] = o /\ at'[w] = o /\ got'[w] = {} /\ apart'[w] = {}
      /\ ref'[w] = ref[w] /\ clean'[w] = clean[w] /\ Size' = Size
  BY DEF ReadFrom, PassOK, TailTyped, TypeOK, Size
<1>2. Size \in Nat
  BY SizeFacts DEF TailTyped
<1>3. ASSUME Undisturbed(w)' PROVE ReadSoFar(w)'
  <2>1. o <= Size'
    BY <1>1, <1>2, <1>3 DEF Undisturbed
  <2>2. ASSUME NEW i \in Nat \ {0}, End(i) <= o, o = 0 \/ Start(i) > o PROVE FALSE
    BY <2>2 DEF Start, End
  <2> QED
    BY <1>1, <2>1, <2>2 DEF ReadSoFar
<1> QED
  BY <1>1, <1>3 DEF PassOK

(* Reading on.                                                             *)
LEMMA PassReads ==
    ASSUME TailTyped, NEW w \in Workers, PassOK(w),
           DeliverLine(w) \/ PassLine(w) \/ ReadHalf(w) \/ ReadRest(w)
    PROVE  PassOK(w)'
<1>1. /\ UNCHANGED <<lines, torn, pc, ref, since, clean, rewrites, broken>> /\ pc[w] = "read"
      /\ Size' = Size
  BY DEF DeliverLine, PassLine, ReadHalf, ReadRest, ReadTo, file, count, Size
<1>2. /\ TypeOK /\ Size \in Nat /\ since[w] \in Nat /\ at[w] \in Nat /\ ref[w].size \in Nat
      /\ DOMAIN lines = 1..Len(lines) /\ Len(lines) \in Nat
      /\ got[w] \subseteq 1..MaxLines /\ apart[w] \subseteq 1..MaxLines /\ MaxLines \in Nat
  BY SizeFacts, TailAssumption DEF TailTyped, TypeOK
<1> SUFFICES /\ \A i \in got'[w] : End(i) <= at'[w]
             /\ Undisturbed(w) => ReadSoFar(w)'
  BY <1>1 DEF PassOK, Undisturbed
<1>3. /\ \A i \in got[w] : End(i) <= at[w]
      /\ rewrites = 0 \/ clean[w] => ref[w].size <= Size
      /\ Undisturbed(w) => ReadSoFar(w)
  BY <1>1 DEF PassOK
<1>4. CASE \E i \in DOMAIN lines :
            /\ at[w] = Start(i) /\ Complete(i) /\ at'[w] = End(i) /\ apart'[w] = apart[w]
            /\ \/ got'[w] = got[w] \cup {i}
               \/ got'[w] = got[w] /\ ~Delivered(w, i)
  <2>1. PICK i \in DOMAIN lines :
            /\ at[w] = Start(i) /\ Complete(i) /\ at'[w] = End(i) /\ apart'[w] = apart[w]
            /\ \/ got'[w] = got[w] \cup {i}
               \/ got'[w] = got[w] /\ ~Delivered(w, i)
    BY <1>4
  <2>2. i \in Nat \ {0} /\ at'[w] = at[w] + 2 /\ at'[w] = 2 * i /\ at'[w] <= Size
    BY <1>2, <2>1 DEF Start, End, Complete
  <2>3. ASSUME NEW k \in got'[w] PROVE End(k) <= at'[w]
    BY <1>2, <1>3, <2>1, <2>2, <2>3 DEF End
  <2>4. ASSUME Undisturbed(w), NEW k \in Nat \ {0}, End(k) <= at'[w], lines[k] = "message",
               since[w] = 0 \/ Start(k) > since[w]
        PROVE  k \in got'[w] \cup apart'[w]
    <3>1. CASE k = i
      BY <2>1, <2>4, <3>1 DEF Delivered, Messages
    <3>2. CASE k # i
      <4>1. End(k) <= at[w]
        BY <1>2, <2>2, <2>4, <3>2 DEF End
      <4> QED
        BY <1>3, <2>1, <2>4, <4>1 DEF ReadSoFar
    <3> QED
      BY <3>1, <3>2
  <2>5. ASSUME NEW k \in Nat \ {0}, at'[w] = Start(k) + 1 PROVE FALSE
    BY <2>2, <2>5 DEF Start
  <2> QED
    BY <1>1, <1>2, <1>3, <2>1, <2>2, <2>3, <2>4, <2>5 DEF ReadSoFar
<1>5. CASE ReadHalf(w)
  <2>1. /\ torn /\ at[w] = Start(Len(lines)) /\ at'[w] = Size
        /\ got'[w] = got[w] /\ apart'[w] = apart[w]
    BY <1>2, <1>5 DEF ReadHalf, ReadTo, TypeOK
  <2>2. at'[w] = at[w] + 1 /\ Size = at[w] + 1
    BY <1>2, <2>1 DEF Size, Start
  <2>3. ASSUME NEW k \in Nat \ {0}, End(k) <= at'[w] PROVE End(k) <= at[w]
    BY <1>2, <2>1, <2>2, <2>3 DEF Start, End
  <2>4. ASSUME NEW k \in got'[w] PROVE End(k) <= at'[w]
    BY <1>2, <1>3, <2>1, <2>2 DEF End
  <2>5. Undisturbed(w) => ref[w].size <= at'[w]
    BY <1>3, <2>1 DEF Undisturbed
  <2> QED
    BY <1>1, <1>2, <1>3, <2>1, <2>2, <2>3, <2>4, <2>5 DEF ReadSoFar
<1>6. CASE ReadRest(w)
  <2>1. PICK i \in DOMAIN lines :
            /\ at[w] = Start(i) + 1 /\ Complete(i) /\ at'[w] = End(i) /\ got'[w] = got[w]
            /\ apart'[w] = IF at[w] > since[w] THEN apart[w] \cup {i} ELSE apart[w]
    BY <1>2, <1>6 DEF ReadRest, ReadTo, TypeOK
  <2>2. i \in Nat \ {0} /\ at'[w] = at[w] + 1 /\ at'[w] = 2 * i /\ at'[w] <= Size
    BY <1>2, <2>1 DEF Start, End, Complete
  <2>3. ASSUME NEW k \in got'[w] PROVE End(k) <= at'[w]
    BY <1>2, <1>3, <2>1, <2>2, <2>3 DEF End
  <2>4. ASSUME Undisturbed(w), NEW k \in Nat \ {0}, End(k) <= at'[w], lines[k] = "message",
               since[w] = 0 \/ Start(k) > since[w]
        PROVE  k \in got'[w] \cup apart'[w]
    <3>1. CASE k = i
      <4>1. since[w] <= at[w]
        BY <1>3, <2>4 DEF ReadSoFar
      <4>2. at[w] > since[w]
        BY <1>2, <2>1, <2>2, <2>4, <3>1, <4>1 DEF Start
      <4> QED
        BY <2>1, <3>1, <4>2
    <3>2. CASE k # i
      <4>1. End(k) <= at[w]
        BY <1>2, <2>2, <2>4, <3>2 DEF End
      <4>2. k \in got[w] \cup apart[w]
        BY <1>3, <2>4, <4>1 DEF ReadSoFar
      <4> QED
        BY <2>1, <4>2
    <3> QED
      BY <3>1, <3>2
  <2>5. ASSUME NEW k \in Nat \ {0}, at'[w] = Start(k) + 1 PROVE FALSE
    BY <2>2, <2>5 DEF Start
  <2>6. ASSUME Undisturbed(w), NEW k \in apart'[w] PROVE ref[w].size < End(k)
    <3>1. CASE k \in apart[w]
      BY <1>3, <2>6, <3>1 DEF ReadSoFar
    <3>2. CASE k \notin apart[w]
      <4>1. k = i /\ at[w] > since[w]
        BY <2>1, <2>6, <3>2
      <4>2. ref[w].size <= at[w]
        <5>1. at[w] = since[w] \/ ref[w].size <= at[w]
          BY <1>3, <2>1, <2>2, <2>6 DEF ReadSoFar
        <5> QED
          BY <1>2, <4>1, <5>1
      <4> QED
        BY <1>2, <2>2, <4>1, <4>2 DEF End
    <3> QED
      BY <3>1, <3>2
  <2>7. Undisturbed(w) => since[w] <= at'[w]
    BY <1>2, <1>3, <2>2 DEF ReadSoFar
  <2> QED
    BY <1>1, <2>2, <2>3, <2>4, <2>5, <2>6, <2>7 DEF ReadSoFar
<1>7. ASSUME DeliverLine(w) \/ PassLine(w)
      PROVE  \E i \in DOMAIN lines :
                /\ at[w] = Start(i) /\ Complete(i) /\ at'[w] = End(i) /\ apart'[w] = apart[w]
                /\ \/ got'[w] = got[w] \cup {i}
                   \/ got'[w] = got[w] /\ ~Delivered(w, i)
  <2>1. CASE DeliverLine(w)
    BY <1>2, <2>1 DEF DeliverLine, ReadTo, Delivered, Messages, TypeOK
  <2>2. CASE PassLine(w)
    BY <1>2, <2>2 DEF PassLine, ReadTo, TypeOK
  <2> QED
    BY <1>7, <2>1, <2>2
<1> QED
  BY <1>4, <1>5, <1>6, <1>7

-----------------------------------------------------------------------------
(* What an offset has passed, and what was read, in a file that only grows. *)

(* Every line that begins no later than o is a whole line without a        *)
(* message, or is stored or was overlooked, wherever the file ends now.    *)
Passed(o) ==
    o > 0 => \A i \in Nat \ {0} : Start(i) <= o =>
        (i \in DOMAIN lines /\ Complete(i) /\ lines[i] # "message") \/ Safe(i)

(* The offsets in use have passed only such lines: that of the row and     *)
(* those the passes resume from.                                           *)
Sealed ==
    rewrites = 0 =>
        /\ log # NoRow => Passed(log.offset) /\ log.offset <= Size
        /\ \A w \in Workers : Passed(since[w])

(* As long as no read broke off, what lies below the size of the row was   *)
(* read to its end: a sweep that finds the file unchanged may skip it.     *)
Finished ==
    rewrites = 0 /\ broken = 0 /\ log # NoRow =>
        /\ log.size <= Size
        /\ \A i \in Messages : End(i) <= log.size => Safe(i)

(* A cycle of v that has not seen the file, or saw line i in it.           *)
After(v, i) ==
    \/ pc[v] = "stat"
    \/ pc[v] \in {"resume", "read", "commit"} /\ End(i) <= ref[v].size

(* When no event waits, every message is safe or in a cycle's hands.       *)
Chased ==
    rewrites = 0 /\ broken = 0 /\ ~dirty =>
        \A i \in Messages : Safe(i) \/ gaveUp # {} \/ \E v \in Watchers : After(v, i)

TailInv ==
    /\ TailTyped
    /\ \A w \in Workers : PassOK(w)
    /\ Sealed /\ Finished /\ Chased

(* What a transaction passes: with it the offset it stores.                *)
LEMMA CommitPasses ==
    ASSUME TailInv, NEW w \in Workers, rewrites = 0, Commit(w)
    PROVE  log'.offset <= Size /\ (Passed(log.offset))'
<1>1. /\ TypeOK /\ Passed(since[w]) /\ ReadSoFar(w) /\ ref[w].size <= Size
      /\ \A j \in got[w] : End(j) <= at[w]
  BY DEF TailInv, TailTyped, Sealed, PassOK, Undisturbed, Commit
<1>2. /\ since[w] \in Nat /\ at[w] \in Nat /\ ref[w].size \in Nat /\ Size \in Nat
      /\ got[w] \subseteq 1..MaxLines /\ MaxLines \in Nat
  BY <1>1, SizeFacts, TailAssumption DEF TypeOK
<1>3. /\ Seqs(got[w]) \subseteq stored'
      /\ \A i : Safe(i) => Safe(i)'
      /\ \A i \in Overlooked(w) : Safe(i)'
      /\ log'.offset = Offset(w) /\ log'.offset <= Limit /\ log'.offset \in Nat
      /\ Added(w) = {} => Offset(w) = ref[w].size
      /\ Added(w) # {} => \/ Offset(w) = since[w]
                          \/ \E j \in got[w] : Offset(w) = Start(j)
  BY CommitFacts DEF TailInv
<1>4. UNCHANGED file /\ Size' = Size
  BY DEF Commit, file, Size
<1>5. Offset(w) <= Size
  <2>1. CASE Added(w) = {}
    BY <1>1, <1>3, <2>1
  <2>2. CASE Offset(w) = since[w]
    BY <1>1, <1>2, <2>2 DEF ReadSoFar
  <2>3. ASSUME NEW j \in got[w], Offset(w) = Start(j) PROVE Offset(w) <= Size
    BY <1>1, <1>2, <2>3 DEF ReadSoFar, Start, End
  <2> QED
    BY <1>3, <2>1, <2>2, <2>3
<1>6. ASSUME Offset(w) > 0, NEW i \in Nat \ {0}, Start(i) <= Offset(w)
      PROVE  (i \in DOMAIN lines /\ Complete(i) /\ lines[i] # "message") \/ Safe(i)'
  <2>1. CASE since[w] > 0 /\ Start(i) <= since[w]
    BY <1>1, <1>3, <2>1 DEF Passed
  <2>2. CASE i \in Overlooked(w)
    BY <1>3, <2>2
  <2>3. CASE i \notin Overlooked(w) /\ (since[w] = 0 \/ Start(i) > since[w])
    <3>1. i \in 1..MaxLines + 1
      <4>1. Start(i) <= Limit
        BY <1>2, <1>3, <1>6 DEF Start, Limit
      <4> QED
        BY <1>1, <4>1, LineFacts
    <3>2. i \notin apart[w] /\ (Added(w) = {} => ~(at[w] < End(i)))
      BY <1>6, <2>3, <3>1 DEF Overlooked
    <3>3. End(i) <= at[w]
      <4>1. CASE Added(w) = {}
        BY <1>2, <3>2, <4>1 DEF End
      <4>2. ASSUME NEW j \in got[w], Offset(w) = Start(j) PROVE End(i) <= at[w]
        BY <1>1, <1>2, <1>6, <4>2 DEF Start, End
      <4>3. Offset(w) # since[w]
        BY <1>2, <1>6, <2>3 DEF Start
      <4> QED
        BY <1>3, <4>1, <4>2, <4>3
    <3>4. i \in DOMAIN lines /\ Complete(i)
      <4>1. End(i) <= Size
        BY <1>1, <1>2, <3>3 DEF ReadSoFar, End
      <4> QED
        BY <1>1, <4>1, LineFacts
    <3>5. lines[i] = "message" => i \in got[w]
      BY <1>1, <2>3, <3>2, <3>3 DEF ReadSoFar
    <3>6. i \in got[w] => Safe(i)'
      BY <1>3 DEF Seqs, Safe
    <3> QED
      BY <3>4, <3>5, <3>6
  <2> QED
    BY <1>2, <2>1, <2>2, <2>3 DEF Start
<1>7. (Passed(log.offset))'
  BY <1>3, <1>4, <1>6 DEF Passed, Complete, file
<1> QED
  BY <1>3, <1>5, <1>7

(* A pass that read to the end has made safe all that stat saw.            *)
LEMMA CommitReads ==
    ASSUME TailInv, NEW w \in Workers, Commit(w), clean[w], Undisturbed(w),
           NEW i \in Messages, End(i) <= ref[w].size
    PROVE  \/ Start(i) \in stored' /\ i \notin missed'
           \/ since[w] > 0 /\ Start(i) <= since[w]
<1>1. /\ TypeOK /\ ReadSoFar(w) /\ ref[w].size <= at[w]
      /\ Seqs(got[w]) \subseteq stored' /\ \A j \in missed' : Start(j) \notin stored'
  BY CommitFacts DEF TailInv, TailTyped, PassOK, Commit
<1>2. /\ since[w] \in Nat /\ at[w] \in Nat /\ ref[w].size \in Nat
      /\ i \in Nat \ {0} /\ lines[i] = "message"
  BY <1>1, LineFacts, TailAssumption DEF TypeOK
<1>3. End(i) <= at[w]
  BY <1>1, <1>2 DEF End
<1>4. CASE since[w] = 0 \/ Start(i) > since[w]
  <2>1. i \in got[w] \cup apart[w]
    BY <1>1, <1>2, <1>3, <1>4 DEF ReadSoFar
  <2>2. i \notin apart[w]
    <3>1. ~(ref[w].size < End(i))
      BY <1>2 DEF End
    <3> QED
      BY <1>1, <3>1 DEF ReadSoFar
  <2> QED
    BY <1>1, <2>1, <2>2 DEF Seqs
<1> QED
  BY <1>2, <1>4 DEF Start

LEMMA CommitSafe ==
    ASSUME TailInv, NEW w \in Workers, Commit(w), rewrites = 0, broken = 0,
           NEW i \in Messages, End(i) <= ref[w].size
    PROVE  Safe(i)'
<1>1. clean[w] /\ Undisturbed(w) /\ Passed(since[w])
  BY DEF TailInv, PassOK, Undisturbed, Sealed
<1>2. i \in Nat \ {0} /\ lines[i] = "message" /\ \A j : Safe(j) => Safe(j)'
  BY LineFacts, CommitFacts, TailAssumption DEF TailInv, TailTyped
<1>3. CASE since[w] > 0 /\ Start(i) <= since[w]
  BY <1>1, <1>2, <1>3 DEF Passed
<1> QED
  BY <1>1, <1>3, CommitReads DEF Safe

-----------------------------------------------------------------------------
(* The invariant.                                                          *)

LEMMA TailInvInit == Init => TailInv
<1> SUFFICES ASSUME Init PROVE TailInv
  OBVIOUS
<1>1. TailTyped
  BY TypedInit
<1>2. Size = 0 /\ DOMAIN lines = {}
  BY EmptySeq DEF Init, Size
<1>3. \A w \in Workers : PassOK(w)
  BY <1>2 DEF Init, PassOK, NoRef
<1>4. Sealed /\ Finished /\ Chased
  BY <1>2 DEF Init, Sealed, Finished, Chased, Passed, Messages
<1> QED
  BY <1>1, <1>3, <1>4 DEF TailInv

(* What was passed stays passed while the file grows and the store does.   *)
LEMMA PassedStays ==
    ASSUME Grows, \A i : Safe(i) => Safe(i)'
    PROVE  \A o \in Nat : Passed(o) => Passed(o)'
<1> SUFFICES ASSUME NEW o \in Nat, Passed(o), o > 0, NEW i \in Nat \ {0}, Start(i) <= o
             PROVE  (i \in DOMAIN lines' /\ End(i) <= Size' /\ lines'[i] # "message") \/ Safe(i)'
  BY DEF Passed, Complete
<1>1. (i \in DOMAIN lines /\ End(i) <= Size /\ lines[i] # "message") \/ Safe(i)
  BY DEF Passed, Complete
<1>2. End(i) \in Int
  BY DEF End
<1> QED
  BY <1>1, <1>2 DEF Grows

(* A step under which the file and the store only grow, and that moves the *)
(* row and the passes' offsets to offsets that were passed.                *)
Moves ==
    /\ rewrites = 0 /\ Grows
    /\ \A i : Safe(i) => Safe(i)'
    /\ \/ log' \in {log, NoRow}
       \/ log'.offset <= Size' /\ (Passed(log.offset))'
    /\ \A w \in Workers : \/ since'[w] \in {since[w], 0}
                          \/ log # NoRow /\ since'[w] = log.offset

LEMMA SealedMoves ==
    ASSUME TailInv, TailTyped', Moves
    PROVE  Sealed'
<1>1. TypeOK /\ TypeOK' /\ Size \in Nat /\ Size' \in Nat /\ Size <= Size'
  BY DEF TailInv, TailTyped, Moves, Grows
<1>2. \A o \in Nat : Passed(o) => Passed(o)'
  BY PassedStays DEF Moves
<1>3. /\ log # NoRow => Passed(log.offset) /\ log.offset <= Size /\ log.offset \in Nat
      /\ \A w \in Workers : Passed(since[w])
  BY <1>1 DEF TailInv, Sealed, Moves, TypeOK
<1>4. ASSUME log' # NoRow PROVE (Passed(log.offset))' /\ log'.offset <= Size'
  <2>1. CASE log' = log
    <3>1. PICK o \in Nat : o = log.offset
      BY <1>3, <1>4, <2>1
    <3>2. Passed(o)'
      BY <1>2, <1>3, <1>4, <2>1, <3>1
    <3> QED
      BY <1>1, <1>3, <1>4, <2>1, <3>1, <3>2 DEF Passed
  <2> QED
    BY <1>4, <2>1 DEF Moves
<1>5. ASSUME NEW w \in Workers PROVE (Passed(since[w]))'
  <2>1. PICK o \in Nat : o = since'[w]
    BY <1>1 DEF TypeOK
  <2>2. Passed(o)
    <3>1. CASE since'[w] = since[w]
      BY <1>3, <2>1, <3>1 DEF Passed
    <3>2. CASE since'[w] = 0
      BY <2>1, <3>2 DEF Passed
    <3>3. CASE log # NoRow /\ since'[w] = log.offset
      BY <1>3, <2>1, <3>3 DEF Passed
    <3> QED
      BY <3>1, <3>2, <3>3 DEF Moves
  <2>3. Passed(o)'
    BY <1>2, <2>2
  <2> QED
    BY <2>1, <2>3 DEF Passed
<1> QED
  BY <1>4, <1>5 DEF Sealed

LEMMA FinishedMoves ==
    ASSUME TailInv, TailTyped', Moves, log' \in {log, NoRow}, broken' = 0 => broken = 0
    PROVE  Finished'
<1> SUFFICES ASSUME broken' = 0, log # NoRow, log' = log
             PROVE  /\ log.size <= Size'
                    /\ \A i \in Messages' : End(i) <= log.size => Safe(i)'
  BY DEF Finished, Moves
<1>1. TypeOK /\ Size \in Nat /\ Size' \in Nat /\ Size <= Size' /\ log.size \in Int
  BY DEF TailInv, TailTyped, Moves, Grows, TypeOK, NoRow
<1>2. log.size <= Size /\ \A i \in Messages : End(i) <= log.size => Safe(i)
  BY DEF TailInv, Finished, Moves
<1>3. ASSUME NEW i \in Messages', End(i) <= log.size
      PROVE  Safe(i)'
  <2>1. i \in DOMAIN lines' /\ lines'[i] = "message"
    BY DEF Messages
  <2>2. i \in Nat \ {0}
    <3>1. Len(lines') \in Nat /\ DOMAIN lines' = 1..Len(lines')
      <4>1. lines' \in Seq(LineKinds)
        BY DEF TailTyped, TypeOK
      <4> QED
        BY <4>1, LenProperties
    <3> QED
      BY <2>1, <3>1
  <2>3. End(i) \in Nat /\ End(i) <= Size
    BY <1>1, <1>2, <1>3, <2>2 DEF End
  <2>4. i \in Messages
    BY <1>1, <2>1, <2>2, <2>3, LineFacts DEF Messages, Moves, Grows
  <2> QED
    BY <1>2, <1>3, <2>4 DEF Moves
<1> QED
  BY <1>1, <1>2, <1>3

-----------------------------------------------------------------------------
(* The workers' steps.                                                     *)

WorkerStep(w) ==
    \/ StartSweep(w) \/ StartCycle(w) \/ DropBatch(w)
    \/ Ingest(w) \/ ReadBreaks(w) \/ Abort(w)

(* A step of w leaves the file and the other passes alone.                 *)
Others(w) ==
    \A v \in Workers \ {w} :
        /\ pc'[v] = pc[v] /\ ref'[v] = ref[v] /\ since'[v] = since[v] /\ at'[v] = at[v]
        /\ got'[v] = got[v] /\ apart'[v] = apart[v] /\ clean'[v] = clean[v]

LEMMA WorkerSteps ==
    ASSUME TailTyped, NEW w \in Workers, WorkerStep(w)
    PROVE  /\ Others(w) /\ UNCHANGED <<file, Size, rewrites>> /\ Grows
           /\ broken' = 0 => broken = 0
           /\ \A i : Safe(i) => Safe(i)'
<1>1. TypeOK
  BY DEF TailTyped
<1>2. /\ Others(w) /\ UNCHANGED <<lines, torn, mtime, rewrites>>
      /\ UNCHANGED broken \/ ReadBreaks(w)
      /\ UNCHANGED <<stored, missed>> \/ CommitPass(w)
  <2>1. CASE StartSweep(w) \/ StartCycle(w) \/ DropBatch(w)
    BY <1>1, <2>1 DEF StartSweep, StartCycle, DropBatch, TypeOK, Others, file, store, pass, count
  <2>2. CASE Enumerate(w) \/ SweepReparse(w)
    BY <1>1, <2>2 DEF Enumerate, SweepReparse, TypeOK, Others, file, store, pass, count
  <2>3. CASE SweepFresh(w) \/ SweepForget(w) \/ SweepTail(w) \/ CycleResume(w)
    BY <1>1, <2>3 DEF SweepFresh, SweepForget, SweepTail, CycleResume, ReadFrom, TypeOK, Others,
                      file, store, count
  <2>4. CASE DeliverLine(w) \/ PassLine(w) \/ ReadHalf(w) \/ ReadRest(w)
    BY <1>1, <2>4 DEF DeliverLine, PassLine, ReadHalf, ReadRest, ReadTo, TypeOK, Others,
                      file, store, count
  <2>5. CASE EndOfFile(w) \/ ReadBreaks(w)
    BY <1>1, <2>5 DEF EndOfFile, ReadBreaks, EndRead, TypeOK, Others, file, store, count
  <2>6. CASE SweepSkip(w) \/ Busy(w) \/ Abort(w)
    BY <1>1, <2>6 DEF SweepSkip, Busy, Abort, Fail, Finish, TypeOK, Others, file, store, count
  <2>7. CASE CommitPass(w)
    BY <1>1, <2>7 DEF CommitPass, Commit, Finish, TypeOK, Others, file, count
  <2> QED
    BY <2>1, <2>2, <2>3, <2>4, <2>5, <2>6, <2>7 DEF WorkerStep, Ingest
<1>3. Size' = Size /\ Size \in Nat
  BY <1>1, <1>2, SizeFacts DEF Size
<1>4. broken' = 0 => broken = 0
  <2>1. ReadBreaks(w) => broken' # 0
    BY <1>1, TailAssumption DEF ReadBreaks, TypeOK
  <2> QED
    BY <1>2, <2>1
<1>5. \A i : Safe(i) => Safe(i)'
  <2>1. CASE CommitPass(w)
    BY <2>1, CommitFacts DEF CommitPass
  <2>2. CASE UNCHANGED <<stored, missed>>
    BY <2>2 DEF Safe
  <2> QED
    BY <1>2, <2>1, <2>2
<1> QED
  BY <1>2, <1>3, <1>4, <1>5 DEF file, Grows

(* What a step of w does to w's own pass.                                  *)
LEMMA OwnPass ==
    ASSUME TailInv, TailTyped', NEW w \in Workers, WorkerStep(w)
    PROVE  PassOK(w)'
<1>1. /\ TailTyped /\ TypeOK /\ PassOK(w) /\ Size \in Nat /\ Size' = Size /\ Grows
      /\ UNCHANGED <<lines, torn, rewrites>> /\ (broken' = 0 => broken = 0)
  BY WorkerSteps, SizeFacts DEF TailInv, TailTyped, file
<1>2. CASE StartSweep(w) \/ StartCycle(w)
  <2>1. /\ pc[w] = "idle" /\ pc'[w] = "stat"
        /\ UNCHANGED <<ref, since, at, got, apart, clean, broken>>
    BY <1>1, <1>2 DEF StartSweep, StartCycle, TypeOK, pass, count
  <2>2. NoRef.size <= Size'
    BY <1>1 DEF NoRef
  <2> QED
    BY <1>1, <2>1, <2>2 DEF PassOK
<1>3. CASE DropBatch(w)
  <2>1. UNCHANGED <<pc, ref, since, at, got, apart, clean, broken>>
    BY <1>3 DEF DropBatch, pass
  <2> QED
    BY <1>1, <2>1, PassStays
<1>4. CASE Enumerate(w)
  <2>1. /\ pc[w] = "stat" /\ pc'[w] = "resume" /\ ref'[w].size = Size
        /\ UNCHANGED <<since, at, got, apart, clean, broken>>
    BY <1>1, <1>4 DEF Enumerate, TypeOK, count
  <2> QED
    BY <1>1, <2>1 DEF PassOK
<1>5. CASE SweepReparse(w)
  <2>1. /\ pc[w] = "resume" /\ pc'[w] = "forget" /\ w \in Sweeps
        /\ UNCHANGED <<ref, since, at, got, apart, clean, broken>>
    BY <1>1, <1>5 DEF SweepReparse, TypeOK, pass, count
  <2> QED
    BY <1>1, <2>1 DEF PassOK
<1>6. CASE SweepFresh(w) \/ SweepForget(w) \/ SweepTail(w) \/ CycleResume(w)
  <2>1. pc[w] \in {"resume", "forget"} /\ UNCHANGED broken
    BY <1>6 DEF SweepFresh, SweepForget, SweepTail, CycleResume, count
  <2>2. PICK o \in Nat : ReadFrom(w, o) /\ (rewrites = 0 => o <= Size)
    <3>1. log # NoRow => log.offset \in Nat /\ (rewrites = 0 => log.offset <= Size)
      BY <1>1 DEF TypeOK, TailInv, Sealed
    <3> QED
      BY <1>1, <1>6, <3>1 DEF SweepFresh, SweepForget, SweepTail, CycleResume
  <2> QED
    BY <1>1, <2>1, <2>2, PassResumes
<1>7. CASE DeliverLine(w) \/ PassLine(w) \/ ReadHalf(w) \/ ReadRest(w)
  BY <1>1, <1>7, PassReads
<1>8. CASE EndOfFile(w)
  <2>1. /\ pc[w] = "read" /\ pc'[w] = "commit" /\ Size <= at[w] /\ at[w] \in Nat
        /\ ref[w].size \in Nat
        /\ UNCHANGED <<ref, since, at, got, apart, broken>>
    BY <1>1, <1>8 DEF EndOfFile, EndRead, TypeOK, count
  <2>2. clean'[w] = clean[w]
    BY <1>1, <1>8 DEF EndOfFile, EndRead, TypeOK
  <2>3. clean'[w] => ref'[w].size <= at'[w]
    <3>1. clean[w] => ref[w].size <= Size
      BY <1>1 DEF PassOK
    <3>2. ref[w].size <= Size => ref[w].size <= at[w]
      BY <1>1, <2>1
    <3> QED
      BY <2>1, <2>2, <3>1, <3>2
  <2> QED
    BY <1>1, <2>1, <2>2, <2>3 DEF PassOK, Undisturbed, ReadSoFar
<1>9. CASE ReadBreaks(w)
  <2>1. /\ pc[w] = "read" /\ pc'[w] = "commit" /\ clean'[w] = FALSE
        /\ UNCHANGED <<ref, since, at, got, apart>>
    BY <1>1, <1>9 DEF ReadBreaks, EndRead, TypeOK
  <2>2. broken' # 0
    BY <1>1, <1>9, TailAssumption DEF ReadBreaks, TypeOK
  <2> QED
    BY <1>1, <2>1, <2>2 DEF PassOK, Undisturbed, ReadSoFar
<1>10. CASE SweepSkip(w) \/ CommitPass(w) \/ Busy(w) \/ Abort(w)
  <2>1. Finish(w)
    BY <1>10 DEF SweepSkip, CommitPass, Commit, Busy, Abort, Fail
  <2> QED
    BY <1>1, <2>1, PassFinished
<1> QED
  BY <1>2, <1>3, <1>4, <1>5, <1>6, <1>7, <1>8, <1>9, <1>10 DEF WorkerStep, Ingest

(* Every offset a worker stores or takes up was passed.                    *)
LEMMA WorkerMoves ==
    ASSUME TailInv, NEW w \in Workers, WorkerStep(w), rewrites = 0
    PROVE  Moves /\ (log' \in {log, NoRow} \/ CommitPass(w))
<1>1. TailTyped /\ TypeOK /\ Grows /\ Others(w) /\ (\A i : Safe(i) => Safe(i)') /\ Size' = Size
  BY WorkerSteps DEF TailInv, TailTyped
<1>2. log' \in {log, NoRow} \/ CommitPass(w)
  BY DEF WorkerStep, StartSweep, StartCycle, DropBatch, Ingest, Enumerate, SweepReparse,
         SweepFresh, SweepForget, SweepTail, CycleResume, DeliverLine, PassLine, ReadHalf, ReadRest,
         ReadTo, EndOfFile, ReadBreaks, EndRead, SweepSkip, Busy, Abort, Fail, store
<1>3. CommitPass(w) => log'.offset <= Size' /\ (Passed(log.offset))'
  BY <1>1, CommitPasses DEF CommitPass
<1>4. since'[w] \in {since[w], 0} \/ (log # NoRow /\ since'[w] = log.offset)
  <2>1. CASE SweepFresh(w) \/ SweepForget(w) \/ SweepTail(w) \/ CycleResume(w)
    BY <1>1, <2>1 DEF SweepFresh, SweepForget, SweepTail, CycleResume, ReadFrom, TypeOK
  <2>2. CASE SweepSkip(w) \/ CommitPass(w) \/ Busy(w) \/ Abort(w)
    BY <1>1, <2>2 DEF SweepSkip, CommitPass, Commit, Busy, Abort, Fail, Finish, TypeOK
  <2>3. CASE ~(SweepFresh(w) \/ SweepForget(w) \/ SweepTail(w) \/ CycleResume(w))
             /\ ~(SweepSkip(w) \/ CommitPass(w) \/ Busy(w) \/ Abort(w))
    BY <2>3 DEF WorkerStep, StartSweep, StartCycle, DropBatch, Ingest, Enumerate, SweepReparse,
           DeliverLine, PassLine, ReadHalf, ReadRest, ReadTo, EndOfFile, ReadBreaks, EndRead, pass
  <2> QED
    BY <2>1, <2>2, <2>3
<1> QED
  BY <1>1, <1>2, <1>3, <1>4 DEF Moves, Others

(* Every message stays safe, or in the hands of the watchers.              *)
LEMMA ChasedStays ==
    ASSUME TailInv, NEW w \in Workers, WorkerStep(w)
    PROVE  Chased'
<1>1. /\ TailTyped /\ TypeOK /\ Others(w) /\ UNCHANGED <<file, Size, rewrites>>
      /\ (broken' = 0 => broken = 0) /\ (\A i : Safe(i) => Safe(i)')
  BY WorkerSteps DEF TailInv, TailTyped
<1> SUFFICES ASSUME rewrites = 0, broken' = 0, broken = 0, ~dirty', gaveUp' = {},
                    NEW i \in Messages
             PROVE  Safe(i)' \/ \E v \in Watchers : After(v, i)'
  BY <1>1 DEF Chased, Messages, Complete, file
<1>2. CASE StartCycle(w)
  <2>1. w \in Watchers /\ pc'[w] = "stat"
    BY <1>1, <1>2 DEF StartCycle, TypeOK
  <2> QED
    BY <2>1 DEF After
<1>3. CASE ~StartCycle(w)
  <2>1. dirty' = dirty /\ gaveUp' = gaveUp
    <3>1. CASE StartSweep(w) \/ Enumerate(w) \/ SweepReparse(w)
      BY <3>1 DEF StartSweep, Enumerate, SweepReparse
    <3>2. CASE SweepFresh(w) \/ SweepForget(w) \/ SweepTail(w) \/ CycleResume(w)
      BY <3>2 DEF SweepFresh, SweepForget, SweepTail, CycleResume
    <3>3. CASE DeliverLine(w) \/ PassLine(w) \/ ReadHalf(w) \/ ReadRest(w)
      BY <3>3 DEF DeliverLine, PassLine, ReadHalf, ReadRest, ReadTo
    <3>4. CASE EndOfFile(w) \/ ReadBreaks(w)
      BY <3>4 DEF EndOfFile, ReadBreaks, EndRead
    <3>5. CASE SweepSkip(w) \/ CommitPass(w)
      BY <3>5 DEF SweepSkip, CommitPass, Commit
    <3>6. CASE Busy(w) \/ Abort(w)
      BY <3>6 DEF Busy, Abort, Fail
    <3>7. ~DropBatch(w)
      BY DEF DropBatch
    <3> QED
      BY <1>3, <3>1, <3>2, <3>3, <3>4, <3>5, <3>6, <3>7 DEF WorkerStep, Ingest
  <2>2. CASE Safe(i)
    BY <1>1, <2>2
  <2>3. ASSUME NEW v \in Watchers, After(v, i) PROVE Safe(i)' \/ After(v, i)'
    <3>1. v \in Workers
      BY DEF Workers
    <3>2. CASE v # w
      BY <1>1, <2>3, <3>1, <3>2 DEF After, Others
    <3>3. CASE v = w
      <4>1. w \notin Sweeps /\ pc[w] # "forget"
        BY <3>3, TailAssumption DEF TailInv, PassOK
      <4>2. CASE Enumerate(w)
        <5>1. pc'[w] = "resume" /\ ref'[w].size = Size
          BY <1>1, <4>2 DEF Enumerate, TypeOK
        <5>2. End(i) <= Size
          BY DEF Messages, Complete
        <5> QED
          BY <3>3, <5>1, <5>2 DEF After
      <4>3. CASE CycleResume(w)
        <5>1. pc[w] = "resume" /\ pc'[w] = "read" /\ ref' = ref
          BY <1>1, <4>3 DEF CycleResume, ReadFrom, TypeOK
        <5> QED
          BY <2>3, <3>3, <5>1 DEF After
      <4>4. CASE DeliverLine(w) \/ PassLine(w) \/ ReadHalf(w) \/ ReadRest(w)
        <5>1. UNCHANGED <<pc, ref>>
          BY <4>4 DEF DeliverLine, PassLine, ReadHalf, ReadRest, ReadTo
        <5> QED
          BY <2>3, <5>1 DEF After
      <4>5. CASE EndOfFile(w) \/ ReadBreaks(w)
        <5>1. pc[w] = "read" /\ pc'[w] = "commit" /\ ref' = ref
          BY <1>1, <4>5 DEF EndOfFile, ReadBreaks, EndRead, TypeOK
        <5> QED
          BY <2>3, <3>3, <5>1 DEF After
      <4>6. CASE CommitPass(w)
        <5>1. pc[w] = "commit" /\ End(i) <= ref[w].size
          BY <2>3, <3>3, <4>6 DEF After, CommitPass, Commit
        <5> QED
          BY <4>6, <5>1, CommitSafe DEF CommitPass
      <4>7. ~Busy(w) /\ ~Abort(w)
        BY <3>3 DEF Busy, Abort, Fail
      <4>8. /\ ~StartSweep(w) /\ ~SweepFresh(w) /\ ~SweepSkip(w) /\ ~SweepReparse(w)
            /\ ~SweepForget(w) /\ ~SweepTail(w) /\ ~DropBatch(w)
        BY <4>1 DEF StartSweep, SweepFresh, SweepSkip, SweepReparse, SweepForget, SweepTail,
                    DropBatch
      <4> QED
        BY <1>3, <4>2, <4>3, <4>4, <4>5, <4>6, <4>7, <4>8 DEF WorkerStep, Ingest
    <3> QED
      BY <3>2, <3>3
  <2>4. Safe(i) \/ \E v \in Watchers : After(v, i)
    BY <1>1, <2>1 DEF TailInv, Chased
  <2> QED
    BY <2>2, <2>3, <2>4
<1> QED
  BY <1>2, <1>3

LEMMA TailInvStep == TailInv /\ [Next]_vars => TailInv'
<1> SUFFICES ASSUME TailInv, [Next]_vars PROVE TailInv'
  OBVIOUS
<1>1. TailTyped' /\ TailTyped /\ TypeOK
  BY TypedStep DEF TailInv, TailTyped
<1>2. CASE Rewrite
  <2>1. Writer
    BY <1>2 DEF Writer
  <2>2. /\ UNCHANGED <<pc, ref, since, at, got, apart>> /\ rewrites' > 0 /\ Size' \in Nat
        /\ clean' = [w \in Workers |-> pc[w] \in {"idle", "stat"}]
    BY <1>1, <1>2, <2>1, WriterSteps
  <2>3. ~(rewrites' = 0)
    BY <1>1, <2>2 DEF TailTyped, TypeOK
  <2>4. ASSUME NEW w \in Workers PROVE PassOK(w)'
    BY <1>1, <2>2, PassTruncated DEF TailInv
  <2> QED
    BY <1>1, <2>3, <2>4 DEF TailInv, Sealed, Finished, Chased
<1>3. CASE Writer /\ ~Rewrite
  <2>1. /\ UNCHANGED <<store, pc, ref, since, at, got, apart, gaveUp, aborts, broken, clean>>
        /\ Grows /\ dirty'
    BY <1>1, <1>3, WriterSteps
  <2>2. ASSUME NEW w \in Workers PROVE PassOK(w)'
    BY <1>1, <2>1, PassStays DEF TailInv
  <2>3. rewrites = 0 => Moves /\ log' = log
    BY <2>1 DEF Moves, Safe, store
  <2>4. rewrites' = rewrites
    BY <2>1 DEF Grows
  <2>5. Sealed'
    BY <1>1, <2>3, <2>4, SealedMoves DEF Sealed
  <2>6. Finished'
    BY <1>1, <2>1, <2>3, <2>4, FinishedMoves DEF Finished
  <2>7. Chased'
    BY <2>1 DEF Chased
  <2> QED
    BY <1>1, <2>2, <2>5, <2>6, <2>7 DEF TailInv
<1>4. ASSUME NEW w \in Workers, WorkerStep(w) PROVE TailInv'
  <2>1. /\ Others(w) /\ Grows /\ (broken' = 0 => broken = 0) /\ rewrites' = rewrites
        /\ UNCHANGED <<file, Size>> /\ \A i : Safe(i) => Safe(i)'
    BY <1>1, <1>4, WorkerSteps
  <2>2. ASSUME NEW v \in Workers PROVE PassOK(v)'
    <3>1. CASE v = w
      BY <1>1, <1>4, <3>1, OwnPass
    <3>2. CASE v # w
      BY <1>1, <2>1, <3>2, PassStays DEF TailInv, Others
    <3> QED
      BY <3>1, <3>2
  <2>3. rewrites = 0 => Moves /\ (log' \in {log, NoRow} \/ CommitPass(w))
    BY <1>4, WorkerMoves
  <2>4. Sealed'
    BY <1>1, <2>1, <2>3, SealedMoves DEF Sealed
  <2>5. Finished'
    <3>1. CASE log' \in {log, NoRow}
      BY <1>1, <2>1, <2>3, <3>1, FinishedMoves DEF Finished
    <3>2. CASE CommitPass(w)
      <4>1. Commit(w) /\ Messages' = Messages /\ Size' = Size
        BY <2>1, <3>2 DEF CommitPass, Messages, Complete, file
      <4>2. rewrites = 0 => log'.size <= Size
        <5>1. rewrites = 0 => ref[w].size <= Size
          BY DEF TailInv, PassOK
        <5> QED
          BY <1>1, <4>1, <5>1, CommitFacts
      <4>3. ASSUME rewrites = 0, broken = 0, NEW i \in Messages, End(i) <= log'.size
            PROVE  Safe(i)'
        <5>1. End(i) <= ref[w].size
          BY <1>1, <4>1, <4>3, CommitFacts
        <5> QED
          BY <4>1, <4>3, <5>1, CommitSafe
      <4> QED
        BY <2>1, <4>1, <4>2, <4>3 DEF Finished
    <3> QED
      BY <2>1, <2>3, <3>1, <3>2 DEF Finished
  <2>6. Chased'
    BY <1>4, ChasedStays
  <2> QED
    BY <1>1, <2>2, <2>4, <2>5, <2>6 DEF TailInv
<1>5. CASE UNCHANGED vars
  <2>1. /\ UNCHANGED <<lines, torn, mtime, dirty, log, stored, missed, pc, ref, since, at, got, apart>>
        /\ UNCHANGED <<clean, gaveUp, aborts, rewrites, broken>>
    BY <1>5 DEF vars, file, store, pass, count
  <2>2. TypeOK' /\ Size' = Size
    BY <1>1, <2>1 DEF TailTyped, Size
  <2> QED
    BY <1>1, <2>1, <2>2 DEF TailInv, PassOK, Undisturbed, ReadSoFar, Sealed, Passed, Finished,
                            Chased, After, Safe, Messages, Complete
<1> QED
  BY <1>2, <1>3, <1>4, <1>5 DEF Next, WorkerStep

LEMMA TailInvHolds == Spec => []TailInv
BY TailInvInit, TailInvStep, PTL DEF Spec

(* In a file that only grows, every message the resume offset has passed   *)
(* is in the store or was overlooked at the edge of a read: nothing else   *)
(* loses a message, neither stale stats nor rollbacks nor overlapping      *)
(* passes with offsets that go backwards.                                  *)
THEOREM OffsetPassesNoMessage == Spec => []LossOnlyAtTheEdge
<1>1. TailInv => LossOnlyAtTheEdge
  <2> SUFFICES ASSUME TailInv, log # NoRow, rewrites = 0, NEW i \in Messages,
                      Start(i) <= log.offset, log.offset > 0
               PROVE  Safe(i)
    BY DEF LossOnlyAtTheEdge
  <2>1. TypeOK /\ Passed(log.offset)
    BY DEF TailInv, TailTyped, Sealed
  <2>2. i \in Nat \ {0} /\ lines[i] = "message"
    BY <2>1, LineFacts, TailAssumption
  <2> QED
    BY <2>1, <2>2 DEF Passed
<1> QED
  BY <1>1, TailInvHolds, PTL

(* When the watcher has handled every event and its last batch did not     *)
(* come to nothing, every message of a file that only grew is in the store *)
(* or was overlooked: what was written while it read came with an event    *)
(* after the batch was drained.                                            *)
THEOREM WatcherCatchesUp == Spec => []CaughtUp
<1>1. TailInv => CaughtUp
  BY DEF TailInv, Chased, After, CaughtUp
<1> QED
  BY <1>1, TailInvHolds, PTL

(* A pass of w that does not abort ends by one of three steps.             *)
LEMMA EndsOfPass ==
    ASSUME TailInv, [Next]_vars, NEW w \in Workers, pc[w] # "idle", pc'[w] = "idle",
           aborts' = aborts
    PROVE  SweepSkip(w) \/ CommitPass(w) \/ Busy(w)
<1>1. TypeOK /\ TailTyped
  BY DEF TailInv, TailTyped
<1>2. ~Writer /\ ~(UNCHANGED vars)
  BY WriterSteps, <1>1 DEF vars
<1>3. PICK v \in Workers : WorkerStep(v)
  BY <1>2 DEF Next, WorkerStep
<1>4. v = w
  BY <1>1, <1>3, WorkerSteps DEF Others
<1>5. ~Abort(w) /\ ~DropBatch(w)
  BY <1>1 DEF Abort, DropBatch, TypeOK
<1>6. ~StartSweep(w) /\ ~StartCycle(w) /\ ~Enumerate(w) /\ ~SweepReparse(w)
  BY <1>1 DEF StartSweep, StartCycle, Enumerate, SweepReparse, TypeOK
<1>7. ~SweepFresh(w) /\ ~SweepForget(w) /\ ~SweepTail(w) /\ ~CycleResume(w)
  BY <1>1 DEF SweepFresh, SweepForget, SweepTail, CycleResume, ReadFrom, TypeOK
<1>8. ~DeliverLine(w) /\ ~PassLine(w) /\ ~ReadHalf(w) /\ ~ReadRest(w)
  BY DEF DeliverLine, PassLine, ReadHalf, ReadRest, ReadTo
<1>9. ~EndOfFile(w) /\ ~ReadBreaks(w)
  BY <1>1 DEF EndOfFile, ReadBreaks, EndRead, TypeOK
<1> QED
  BY <1>3, <1>4, <1>5, <1>6, <1>7, <1>8, <1>9 DEF WorkerStep, Ingest

(* A sweep that skips the file as unchanged leaves nothing unread in it    *)
(* but what was overlooked: the row carries the stat that was taken before *)
(* the read, so that a row equal to today's stat says that the read went   *)
(* to today's end.                                                         *)
THEOREM SkipLosesNothing == Spec => SkipIsSafe
<1> DEFINE A == \A w \in Sweeps : pc[w] = "resume" /\ pc'[w] = "idle" /\ aborts' = aborts
                                   /\ rewrites = 0 /\ broken = 0 =>
                  \A i \in Messages : End(i) <= ref[w].size => Safe(i)
<1>1. TailInv /\ [Next]_vars => A
  <2> SUFFICES ASSUME TailInv, [Next]_vars, NEW w \in Sweeps,
                      pc[w] = "resume", pc'[w] = "idle", aborts' = aborts,
                      rewrites = 0, broken = 0,
                      NEW i \in Messages, End(i) <= ref[w].size
               PROVE  Safe(i)
    OBVIOUS
  <2>1. w \in Workers
    BY DEF Workers
  <2>2. SweepSkip(w)
    BY <2>1, EndsOfPass DEF CommitPass, Commit, Busy
  <2>3. log # NoRow /\ log.size = ref[w].size
    BY <2>2 DEF SweepSkip, Unchanged
  <2> QED
    BY <2>3 DEF TailInv, Finished
<1> QED
  BY <1>1, TailInvHolds, PTL DEF Spec, SkipIsSafe

(* A read from 0 that comes to the end of a file which is not truncated    *)
(* meanwhile heals the store, from whatever state it starts in: every      *)
(* message that was whole at the stat is stored then, and none of them is  *)
(* among the lines that were overlooked.                                   *)
THEOREM FullReadStoresAll == Spec => FullReadHeals
<1> DEFINE A == \A w \in Workers :
                  pc[w] = "commit" /\ pc'[w] = "idle" /\ Free(w) /\ aborts' = aborts
                    /\ clean[w] /\ since[w] = 0 =>
                  \A i \in Messages : End(i) <= ref[w].size =>
                     Start(i) \in stored' /\ i \notin missed'
<1>1. TailInv /\ [Next]_vars => A
  <2> SUFFICES ASSUME TailInv, [Next]_vars, NEW w \in Workers,
                      pc[w] = "commit", pc'[w] = "idle", Free(w), aborts' = aborts,
                      clean[w], since[w] = 0,
                      NEW i \in Messages, End(i) <= ref[w].size
               PROVE  Start(i) \in stored' /\ i \notin missed'
    OBVIOUS
  <2>1. Commit(w)
    BY EndsOfPass DEF SweepSkip, Busy, CommitPass
  <2> QED
    BY <2>1, CommitReads DEF Undisturbed
<1> QED
  BY <1>1, TailInvHolds, PTL DEF Spec, FullReadHeals
=============================================================================
