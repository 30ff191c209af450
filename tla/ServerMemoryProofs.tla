-------------------------- MODULE ServerMemoryProofs --------------------------
(* What requests are told by the server's shared memory, for any number of *)
(* requests, projects, keys, commits, jobs and restarts.                   *)
EXTENDS ServerMemory, WellFoundedInduction, TLAPS

Labels == {"idle", "invalidate", "get", "compute", "put", "answer", "status", "shown"}

Record == [pc : Labels, key : SUBSET Keys, floor : Nat, data : Int, saw : SUBSET Nat, owed : Nat]

RequestType == request \in [Requests -> Record]

LEMMA Update ==
    ASSUME RequestType, NEW r \in Requests, NEW new \in Record, Becomes(r, new)
    PROVE  /\ RequestType'
           /\ request'[r] = new
           /\ \A q \in Requests \ {r} : request'[q] = request[q]
BY DEF RequestType, Becomes

-----------------------------------------------------------------------------
(* The slots.  The newest job holds the slot, or is the one that ended     *)
(* last, or is forgotten; what is forgotten is never newer than the last.  *)

SlotType ==
    /\ accepted \in Nat /\ current \in Nat /\ forgotten \in Nat
    /\ last \in [job : Nat, over : BOOLEAN]

Remembered == last.job # NoJob /\ ~last.over

SlotInv ==
    /\ SlotType
    /\ forgotten <= accepted /\ last.job <= accepted
    /\ current # NoJob => current = accepted /\ current > forgotten /\ current > last.job
    /\ Remembered => last.job > forgotten
    /\ accepted > forgotten => current = accepted \/ (Remembered /\ last.job = accepted)

LEMMA SlotInit == Init => SlotInv
BY DEF Init, SlotInv, SlotType, Remembered, NoJob, NoLast

LEMMA AskKeepsSlots ==
    ASSUME SlotInv, NEW slot, AskSlot(slot)
    PROVE  SlotInv'
BY DEF AskSlot, SlotInv, SlotType, Remembered, NoLast, NoJob

LEMMA SlotStep ==
    ASSUME SlotInv, [Next]_vars
    PROVE  SlotInv'
<1>1. CASE UNCHANGED slots
  BY <1>1 DEF slots, SlotInv, SlotType, Remembered
<1>2. ASSUME NEW r \in Requests, Request(r) PROVE SlotInv'
  <2>1. CASE StatusFirst(r) \/ StatusSecond(r)
    BY <2>1, AskKeepsSlots DEF StatusFirst, StatusSecond
  <2>2. CASE ~(StatusFirst(r) \/ StatusSecond(r))
    BY <1>1, <1>2, <2>2 DEF Request, Stats, ReadSignature, Hit, Miss, Compute, ComputeFails, Put,
                            Answered, RefreshIngests, RefreshInvalidates
  <2> QED
    BY <2>1, <2>2
<1>3. CASE StartJob
  BY <1>3 DEF StartJob, SlotInv, SlotType, Remembered, NoJob
<1>4. ASSUME NEW j \in Jobs, CompleteJob(j) PROVE SlotInv'
  BY <1>4 DEF CompleteJob, SlotInv, SlotType, Remembered, NoJob, Jobs
<1>5. ASSUME NEW j \in Jobs, Panic(j) PROVE SlotInv'
  BY <1>5 DEF Panic, SlotInv, SlotType, Remembered
<1>6. CASE TimeOver
  <2>1. last.job # NoJob
    BY <1>6 DEF TimeOver, SlotInv, SlotType, NoLast
  <2>2. last' \in [job : Nat, over : BOOLEAN] /\ last'.job = last.job /\ last'.over
    BY <1>6 DEF TimeOver, SlotInv, SlotType
  <2>3. /\ forgotten' = last.job /\ ~last.over
        /\ current' = current /\ accepted' = accepted
    BY <1>6 DEF TimeOver
  <2>4. ~Remembered' /\ Remembered
    BY <2>1, <2>2, <2>3 DEF Remembered
  <2> QED
    BY <2>1, <2>2, <2>3, <2>4 DEF SlotInv, SlotType
<1>7. CASE Restart
  BY <1>7 DEF Restart, SlotInv, SlotType, Remembered, NoJob, NoLast
<1>8. CASE (\E s \in Slugs : Ingest(s)) \/ EditAlias \/ UNCHANGED vars
  BY <1>1, <1>8 DEF Ingest, EditAlias, vars
<1> QED
  BY <1>2, <1>3, <1>4, <1>5, <1>6, <1>7, <1>8 DEF Next, Task

(* What was remembered before a step is forgotten or superseded after it.  *)
LEMMA ForgottenGrows ==
    ASSUME SlotInv, [Next]_vars
    PROVE  /\ forgotten' >= forgotten
           /\ Remembered => (Remembered' /\ last'.job >= last.job) \/ forgotten' >= last.job
<1>1. CASE UNCHANGED slots
  BY <1>1 DEF slots, SlotInv, SlotType, Remembered
<1>2. ASSUME NEW r \in Requests, Request(r)
      PROVE  UNCHANGED slots \/ \E slot : AskSlot(slot)
  BY <1>2 DEF Request, Stats, ReadSignature, Hit, Miss, Compute, ComputeFails, Put, Answered,
              RefreshIngests, RefreshInvalidates, StatusFirst, StatusSecond
<1>3. ASSUME NEW slot, AskSlot(slot)
      PROVE  forgotten' = forgotten /\ (Remembered => last' = last)
  BY <1>3 DEF AskSlot, Remembered
<1>4. ASSUME NEW j \in Jobs, CompleteJob(j)
      PROVE  forgotten' = forgotten /\ Remembered' /\ last'.job >= last.job
  BY <1>4 DEF CompleteJob, SlotInv, SlotType, Remembered, NoJob, Jobs
<1>5. CASE TimeOver
  BY <1>5 DEF TimeOver, SlotInv, SlotType, Remembered, NoJob, NoLast
<1>6. CASE Restart
  BY <1>6 DEF Restart, SlotInv, SlotType
<1>7. CASE StartJob \/ (\E j \in Jobs : Panic(j)) \/ (\E s \in Slugs : Ingest(s))
           \/ EditAlias \/ UNCHANGED vars
  BY <1>7 DEF StartJob, Panic, Ingest, EditAlias, vars, slots, SlotInv, SlotType, Remembered
<1> QED
  BY <1>1, <1>2, <1>3, <1>4, <1>5, <1>6, <1>7 DEF Next, Task, SlotInv, SlotType, Remembered

-----------------------------------------------------------------------------
(* The memo.  An entry is signed with a version that its statistics are    *)
(* not older than, because the signature is read first; the same holds of  *)
(* what a request has in hand before it stores it.                         *)

SignedFirst == \A k \in Keys : memo[k].data >= memo[k].sig

InHand(r) ==
    /\ \A k \in Keys : request[r].pc \in {"get", "compute"} /\ request[r].key = {k} =>
                            request[r].floor <= version[SlugOf[k]]
    /\ request[r].pc \in {"put", "answer"} => request[r].data >= request[r].floor

MemoInv ==
    /\ version \in [Slugs -> Nat]
    /\ memo \in [Keys -> Entry]
    /\ RequestType
    /\ SignedFirst
    /\ \A r \in Requests : InHand(r)

LEMMA MemoInit == MemoryAssumption /\ Init => MemoInv
BY DEF MemoryAssumption, Init, MemoInv, RequestType, Record, SignedFirst, InHand, Idle, Labels, NoEntry,
       Entry, NoJob

LEMMA InvalidateKeepsMemo ==
    ASSUME MemoInv, NEW S, Invalidate(S)
    PROVE  memo' \in [Keys -> Entry] /\ SignedFirst'
BY DEF MemoInv, Invalidate, SignedFirst, Entry, NoEntry

(* A commit only adds to what InHand compares with.                        *)
LEMMA CommitGrows ==
    ASSUME MemoryAssumption, MemoInv, NEW s \in Slugs, Commit(s)
    PROVE  /\ version' \in [Slugs -> Nat]
           /\ \A k \in Keys : version'[SlugOf[k]] >= version[SlugOf[k]]
BY DEF MemoryAssumption, MemoInv, Commit

LEMMA CommitKeeps ==
    ASSUME MemoryAssumption, MemoInv, NEW s \in Slugs, Commit(s), NEW q \in Requests,
           RequestType', request'[q] = request[q]
    PROVE  InHand(q)'
<1>1. \A k \in Keys : SlugOf[k] \in Slugs
  BY DEF MemoryAssumption
<1>2. \A k \in Keys : /\ version'[SlugOf[k]] \in Nat /\ version[SlugOf[k]] \in Nat
                      /\ version'[SlugOf[k]] >= version[SlugOf[k]]
  BY <1>1, CommitGrows DEF MemoInv
<1>3. request[q].floor \in Nat /\ InHand(q)
  BY DEF MemoInv, RequestType, Record
<1> QED
  BY <1>2, <1>3 DEF InHand

(* The steps of a request change nobody else's.                            *)
LEMMA OneRequest ==
    ASSUME MemoInv, NEW r \in Requests, RequestType', InHand(r)', UNCHANGED version,
           \A q \in Requests \ {r} : request'[q] = request[q],
           memo' \in [Keys -> Entry], SignedFirst'
    PROVE  MemoInv'
<1>1. ASSUME NEW q \in Requests, q # r PROVE InHand(q)'
  BY <1>1 DEF MemoInv, InHand
<1> QED
  BY <1>1 DEF MemoInv

LEMMA ToIdle ==
    ASSUME MemoInv, NEW r \in Requests, Becomes(r, Idle), UNCHANGED version,
           memo' \in [Keys -> Entry], SignedFirst'
    PROVE  MemoInv'
<1>1. Idle \in Record /\ Idle.pc = "idle"
  BY DEF Idle, Record, Labels, NoJob
<1>2. RequestType' /\ request'[r] = Idle /\ \A q \in Requests \ {r} : request'[q] = request[q]
  BY <1>1, Update DEF MemoInv
<1>3. InHand(r)'
  BY <1>1, <1>2 DEF InHand
<1> QED
  BY <1>2, <1>3, OneRequest

LEMMA MemoStep ==
    ASSUME MemoryAssumption, SlotInv, MemoInv, [Next]_vars
    PROVE  MemoInv'
<1> USE DEF store, cache, slots
<1>1. ASSUME NEW s \in Slugs, Ingest(s) PROVE MemoInv'
  <2>1. UNCHANGED <<memo, request>> /\ Commit(s) /\ RequestType'
    BY <1>1 DEF Ingest, MemoInv, RequestType
  <2> QED
    BY <2>1, CommitGrows, CommitKeeps DEF MemoInv, SignedFirst
<1>2. ASSUME NEW r \in Requests, Request(r) PROVE MemoInv'
  <2>0. \A k \in Keys : version[SlugOf[k]] \in Nat
    BY DEF MemoryAssumption, MemoInv
  <2>1. ASSUME NEW k \in Keys, ReadSignature(r, k) PROVE MemoInv'
    <3> DEFINE new == [request[r] EXCEPT !.pc = "get", !.key = {k}, !.floor = version[SlugOf[k]]]
    <3>1. new \in Record
      BY <2>0 DEF MemoInv, RequestType, Record, Labels
    <3>2. RequestType' /\ request'[r] = new /\ \A q \in Requests \ {r} : request'[q] = request[q]
      BY <2>1, <3>1, Update DEF ReadSignature, MemoInv
    <3>3. new.pc = "get" /\ new.key = {k} /\ new.floor = version[SlugOf[k]]
      BY DEF MemoInv, RequestType, Record
    <3>4. \A j \in Keys : new.key = {j} => j = k
      BY <3>3
    <3>5. InHand(r)'
      BY <2>0, <2>1, <3>2, <3>3, <3>4 DEF ReadSignature, InHand
    <3> QED
      BY <2>1, <3>2, <3>5, OneRequest DEF ReadSignature, MemoInv, SignedFirst
  <2>2. ASSUME NEW k \in Keys, Hit(r, k) PROVE MemoInv'
    <3> DEFINE new == [request[r] EXCEPT !.pc = "answer", !.key = {}, !.data = memo[k].data]
    <3>1. new \in Record
      BY DEF Entry, MemoInv, RequestType, Record, Labels
    <3>2. RequestType' /\ request'[r] = new /\ \A q \in Requests \ {r} : request'[q] = request[q]
      BY <2>2, <3>1, Update DEF Hit, Serve, MemoInv
    <3>3. new.pc = "answer" /\ new.data = memo[k].data /\ new.floor = request[r].floor
      BY DEF MemoInv, RequestType, Record
    <3>4. InHand(r)'
      BY <2>2, <3>2, <3>3 DEF Hit, Valid, InHand, MemoInv, SignedFirst
    <3> QED
      BY <2>2, <3>2, <3>4, OneRequest DEF Hit, MemoInv, SignedFirst
  <2>3. ASSUME NEW k \in Keys, Miss(r, k) PROVE MemoInv'
    <3> DEFINE new == [request[r] EXCEPT !.pc = "compute"]
    <3>1. new \in Record
      BY DEF MemoInv, RequestType, Record, Labels
    <3>2. RequestType' /\ request'[r] = new /\ \A q \in Requests \ {r} : request'[q] = request[q]
      BY <2>3, <3>1, Update DEF Miss, MemoInv
    <3>3. new.pc = "compute" /\ new.key = request[r].key /\ new.floor = request[r].floor
      BY DEF MemoInv, RequestType, Record
    <3>4. InHand(r)'
      BY <2>3, <3>2, <3>3 DEF Miss, At, InHand, MemoInv
    <3> QED
      BY <2>3, <3>2, <3>4, OneRequest DEF Miss, MemoInv, SignedFirst
  <2>4. ASSUME NEW k \in Keys, Compute(r, k) PROVE MemoInv'
    <3> DEFINE new == [request[r] EXCEPT !.pc = "put", !.data = version[SlugOf[k]]]
    <3>1. new \in Record
      <4>1. request[r] \in Record /\ version[SlugOf[k]] \in Int
        BY <2>0 DEF MemoInv, RequestType
      <4> QED
        BY <4>1 DEF Record, Labels
    <3>2. RequestType' /\ request'[r] = new /\ \A q \in Requests \ {r} : request'[q] = request[q]
      BY <2>4, <3>1, Update DEF Compute, MemoInv
    <3>3. /\ new.pc = "put" /\ new.floor = request[r].floor
          /\ new.data = version[SlugOf[k]] /\ request[r].floor <= version[SlugOf[k]]
      BY <2>4 DEF Compute, At, MemoInv, RequestType, Record, InHand
    <3>4. InHand(r)'
      BY <2>0, <3>2, <3>3 DEF InHand, MemoInv, RequestType, Record
    <3> QED
      BY <2>4, <3>2, <3>4, OneRequest DEF Compute, MemoInv, SignedFirst
  <2>5. ASSUME NEW k \in Keys, ComputeFails(r, k) PROVE MemoInv'
    BY <2>5, ToIdle DEF ComputeFails, MemoInv, SignedFirst
  <2>6. ASSUME NEW k \in Keys, Put(r, k) PROVE MemoInv'
    <3> DEFINE new == [request[r] EXCEPT !.pc = "answer", !.key = {}, !.data = request[r].data]
    <3>1. new \in Record /\ EntryOf(r, k) \in Entry
      <4>1. request[r] \in Record /\ request[r].data \in Int /\ request[r].floor \in Int
        BY DEF MemoInv, RequestType, Record
      <4>2. new \in Record
        BY <4>1 DEF Record, Labels
      <4> QED
        BY <4>1, <4>2 DEF EntryOf, Entry
    <3>2. RequestType' /\ request'[r] = new /\ \A q \in Requests \ {r} : request'[q] = request[q]
      BY <2>6, <3>1, Update DEF Put, Serve, MemoInv
    <3>3. /\ new.pc = "answer" /\ new.data = request[r].data /\ new.floor = request[r].floor
          /\ request[r].data >= request[r].floor
      BY <2>6 DEF Put, At, MemoInv, RequestType, Record, InHand
    <3>4. InHand(r)'
      BY <3>2, <3>3 DEF InHand
    <3>5. memo' \in [Keys -> Entry] /\ SignedFirst'
      BY <2>6, <3>1, <3>3 DEF Put, MemoInv, SignedFirst, EntryOf, Entry, NoEntry
    <3> QED
      BY <2>6, <3>2, <3>4, <3>5, OneRequest DEF Put
  <2>7. CASE StatusFirst(r)
    <3>1. Found("current") \subseteq Nat /\ accepted \in Nat
      BY DEF Found, SlotInv, SlotType
    <3> DEFINE new == [request[r] EXCEPT !.pc = "status", !.saw = Found(SlotOrder[1]),
                                         !.owed = accepted]
    <3>2. new \in Record /\ new.pc = "status"
      BY <3>1 DEF SlotOrder, MemoInv, RequestType, Record, Labels
    <3>3. RequestType' /\ request'[r] = new /\ \A q \in Requests \ {r} : request'[q] = request[q]
      BY <2>7, <3>2, Update DEF StatusFirst, MemoInv
    <3>4. InHand(r)'
      BY <3>2, <3>3 DEF InHand
    <3> QED
      BY <2>7, <3>3, <3>4, OneRequest DEF StatusFirst, AskSlot, MemoInv, SignedFirst
  <2>8. CASE StatusSecond(r)
    <3>1. Found("last") \subseteq Nat
      BY DEF Found, SlotInv, SlotType
    <3> DEFINE new == [request[r] EXCEPT !.pc = "shown", !.saw = @ \cup Found(SlotOrder[2])]
    <3>2. new \in Record /\ new.pc = "shown"
      BY <3>1 DEF SlotOrder, MemoInv, RequestType, Record, Labels
    <3>3. RequestType' /\ request'[r] = new /\ \A q \in Requests \ {r} : request'[q] = request[q]
      BY <2>8, <3>2, Update DEF StatusSecond, MemoInv
    <3>4. InHand(r)'
      BY <3>2, <3>3 DEF InHand
    <3> QED
      BY <2>8, <3>3, <3>4, OneRequest DEF StatusSecond, AskSlot, MemoInv, SignedFirst
  <2>9. CASE Answered(r)
    BY <2>9, ToIdle DEF Answered, MemoInv, SignedFirst
  <2>10. ASSUME NEW s \in Slugs, RefreshIngests(r, s) PROVE MemoInv'
    <3> DEFINE new == [request[r] EXCEPT !.pc = "invalidate"]
    <3>1. new \in Record /\ new.pc = "invalidate"
      BY DEF MemoInv, RequestType, Record, Labels
    <3>2. RequestType' /\ request'[r] = new /\ \A q \in Requests \ {r} : request'[q] = request[q]
      BY <2>10, <3>1, Update DEF RefreshIngests, MemoInv
    <3>3. Commit(s) /\ UNCHANGED memo
      BY <2>10 DEF RefreshIngests
    <3>4. InHand(r)'
      BY <3>1, <3>2 DEF InHand
    <3>5. \A q \in Requests : InHand(q)'
      BY <3>2, <3>3, <3>4, CommitKeeps
    <3> QED
      BY <3>2, <3>3, <3>5, CommitGrows DEF MemoInv, SignedFirst
  <2>11. CASE RefreshInvalidates(r)
    <3>1. memo' \in [Keys -> Entry] /\ SignedFirst'
      BY <2>11, InvalidateKeepsMemo DEF RefreshInvalidates
    <3> QED
      BY <2>11, <3>1, ToIdle DEF RefreshInvalidates
  <2> QED
    BY <1>2, <2>1, <2>2, <2>3, <2>4, <2>5, <2>6, <2>7, <2>8, <2>9, <2>10, <2>11
       DEF Request, Stats
<1>3. CASE EditAlias
  BY <1>3, InvalidateKeepsMemo DEF EditAlias, MemoInv, RequestType, SignedFirst, InHand
<1>4. CASE Restart
  BY <1>4 DEF Restart, MemoInv, RequestType, Record, SignedFirst, InHand, Idle, Labels, NoEntry, Entry,
              NoJob
<1>5. CASE StartJob \/ Task \/ (\E j \in Jobs : Panic(j)) \/ TimeOver \/ UNCHANGED vars
  BY <1>5 DEF StartJob, Task, CompleteJob, Panic, TimeOver, vars, MemoInv, RequestType,
              SignedFirst, InHand
<1> QED
  BY <1>1, <1>2, <1>3, <1>4, <1>5 DEF Next

-----------------------------------------------------------------------------
(* A status request.  If it has found no job so far, the newest job it     *)
(* could know of is forgotten, or the slot of the last job holds it or one *)
(* that superseded it: the slots are asked in the order in which a job     *)
(* moves through them.                                                     *)

StillOwed(r) ==
    request[r].saw = {} =>
        /\ request[r].pc = "status" =>
             \/ request[r].owed <= forgotten
             \/ Remembered /\ last.job >= request[r].owed
        /\ request[r].pc = "shown" => request[r].owed <= forgotten

StatusInv == \A r \in Requests : StillOwed(r)

LEMMA StatusStep ==
    ASSUME SlotInv, RequestType, StatusInv, [Next]_vars
    PROVE  StatusInv'
<1> SUFFICES ASSUME NEW r \in Requests PROVE StillOwed(r)'
  BY DEF StatusInv
<1>1. StillOwed(r) /\ request[r].owed \in Nat
  BY DEF StatusInv, RequestType, Record
<1>2. CASE request'[r] = request[r]
  <2>1. SlotInv'
    BY SlotStep
  <2> QED
    BY <1>1, <1>2, <2>1, ForgottenGrows DEF StillOwed, SlotInv, SlotType
<1>3. CASE request'[r].pc \notin {"status", "shown"}
  BY <1>3 DEF StillOwed
<1>4. CASE StatusFirst(r)
  <2>1. /\ request'[r].saw = {} => current = NoJob
        /\ request'[r].owed = accepted /\ request'[r].pc = "status"
        /\ UNCHANGED <<last, forgotten>>
    BY <1>4 DEF StatusFirst, AskSlot, SlotOrder, Found, Becomes, RequestType, Record
  <2> QED
    BY <2>1 DEF StillOwed, SlotInv, SlotType, Remembered, NoJob
<1>5. CASE StatusSecond(r)
  <2>1. /\ request[r].pc = "status" /\ request'[r].pc = "shown"
        /\ request'[r].saw = {} => request[r].saw = {} /\ ~Remembered
        /\ request'[r].owed = request[r].owed /\ forgotten' = forgotten
    BY <1>5 DEF StatusSecond, AskSlot, SlotOrder, Found, Becomes, RequestType, Record, Remembered, NoJob
  <2> QED
    BY <1>1, <2>1 DEF StillOwed
<1>6. ASSUME NEW q \in Requests, Request(q), q # r
      PROVE  request'[r] = request[r]
  BY <1>6 DEF Request, Stats, ReadSignature, Hit, Miss, Compute, ComputeFails, Put, Serve,
              Answered, RefreshIngests, RefreshInvalidates, StatusFirst, StatusSecond, RequestType,
              Becomes
<1>7. CASE Request(r) /\ ~StatusFirst(r) /\ ~StatusSecond(r)
  <2> USE DEF RequestType, Record, Becomes
  <2>1. ASSUME NEW k \in Keys,
               \/ ReadSignature(r, k) \/ Hit(r, k) \/ Miss(r, k)
               \/ Compute(r, k) \/ ComputeFails(r, k) \/ Put(r, k)
        PROVE  request'[r].pc \notin {"status", "shown"}
    <3>1. CASE ReadSignature(r, k)
      BY <3>1 DEF ReadSignature
    <3>2. CASE Hit(r, k)
      BY <3>2 DEF Hit, Serve
    <3>3. CASE Miss(r, k)
      BY <3>3 DEF Miss
    <3>4. CASE Compute(r, k)
      BY <3>4 DEF Compute
    <3>5. CASE ComputeFails(r, k)
      BY <3>5 DEF ComputeFails, Idle
    <3>6. CASE Put(r, k)
      BY <3>6 DEF Put, Serve
    <3> QED
      BY <2>1, <3>1, <3>2, <3>3, <3>4, <3>5, <3>6
  <2>2. ASSUME Answered(r) \/ RefreshInvalidates(r) \/ \E s \in Slugs : RefreshIngests(r, s)
        PROVE  request'[r].pc \notin {"status", "shown"}
    BY <2>2 DEF Answered, RefreshInvalidates, RefreshIngests, Idle
  <2> QED
    BY <1>3, <1>7, <2>1, <2>2 DEF Request, Stats
<1>8. CASE Restart
  BY <1>3, <1>8 DEF Restart, Idle
<1>9. CASE (\E s \in Slugs : Ingest(s)) \/ EditAlias \/ StartJob \/ Task
           \/ (\E j \in Jobs : Panic(j)) \/ TimeOver \/ UNCHANGED vars
  BY <1>2, <1>9 DEF Ingest, EditAlias, StartJob, Task, CompleteJob, Panic, TimeOver, vars
<1> QED
  BY <1>2, <1>4, <1>5, <1>6, <1>7, <1>8, <1>9 DEF Next

-----------------------------------------------------------------------------
ServerInv == SlotInv /\ MemoInv /\ StatusInv

LEMMA ServerInductive ==
    /\ MemoryAssumption /\ Init => ServerInv
    /\ MemoryAssumption /\ ServerInv /\ [Next]_vars => ServerInv'
<1>1. Init => StatusInv
  BY DEF Init, StatusInv, StillOwed, Idle
<1> QED
  BY <1>1, SlotInit, SlotStep, MemoInit, MemoStep, StatusStep DEF ServerInv, MemoInv

LEMMA ServerInvariant == Spec => []ServerInv
BY MemoryAssumption, ServerInductive, PTL DEF Spec

(* No request is given statistics older than the store was when it read    *)
(* the signature, with any number of requests, ingests and invalidations   *)
(* between its steps (project_stats_cached).                               *)
THEOREM AnswersAreFresh == Spec => []FreshAnswers
<1>1. ServerInv => FreshAnswers
  BY DEF ServerInv, MemoInv, InHand, FreshAnswers
<1> QED
  BY <1>1, ServerInvariant, PTL

(* A status request that finds neither a running nor a finished job has    *)
(* missed none (get_etl_status, complete_job, get_last_job).               *)
THEOREM JobsDoNotVanish == Spec => []JobNeverVanishes
<1>1. ServerInv => JobNeverVanishes
  BY DEF ServerInv, StatusInv, StillOwed, JobNeverVanishes
<1> QED
  BY <1>1, ServerInvariant, PTL
-----------------------------------------------------------------------------
(* The queue of the memo: what Without leaves of it.                       *)

(* Induction on Nat, for a set rather than for a formula.                  *)
LEMMA SetInduction ==
    ASSUME NEW P, 0 \in P, \A n \in Nat : n \in P => n + 1 \in P
    PROVE  Nat \subseteq P
<1> DEFINE less == OpToRel(<, Nat)
           bad  == {n \in Nat : n \notin P}
<1> SUFFICES ASSUME bad # {} PROVE FALSE
  OBVIOUS
<1>1. PICK n \in bad : \A k \in bad : <<k, n>> \notin less
  <2>1. bad \subseteq Nat
    OBVIOUS
  <2> HIDE DEF bad
  <2> QED
    BY <2>1, WFMin, NatLessThanWellFounded
<1>2. n \in Nat /\ n # 0 /\ n \notin P
  OBVIOUS
<1>3. n - 1 \in Nat /\ n - 1 < n /\ (n - 1) + 1 = n
  BY <1>2
<1>4. n - 1 \in bad
  BY <1>2, <1>3
<1>5. <<n - 1, n>> \in less
  BY <1>2, <1>3 DEF OpToRel
<1> QED
  BY <1>1, <1>4, <1>5

(* The function that Without is the last value of, as far as m.            *)
Run(queue, T, g, m) ==
    g = [i \in 0..m |-> IF i = 0 THEN <<>>
                        ELSE IF queue[i] \in T THEN g[i - 1] ELSE Append(g[i - 1], queue[i])]

LEMMA RunExists ==
    ASSUME NEW queue, NEW T
    PROVE  \A m \in Nat : \E g : Run(queue, T, g, m)
<1> DEFINE P == {m \in Nat : \E g : Run(queue, T, g, m)}
<1>1. 0 \in P
  <2> DEFINE g == [i \in 0..0 |-> <<>>]
  <2>1. Run(queue, T, g, 0)
    BY DEF Run
  <2> QED
    BY <2>1
<1>2. ASSUME NEW n \in Nat, n \in P PROVE n + 1 \in P
  <2>1. PICK g : Run(queue, T, g, n)
    BY <1>2
  <2> DEFINE h == [i \in 0..(n + 1) |->
                     IF i = n + 1 THEN IF queue[i] \in T THEN g[n] ELSE Append(g[n], queue[i])
                     ELSE g[i]]
  <2>2. Run(queue, T, h, n + 1)
    <3>1. \A i \in 0..n : g[i] = IF i = 0 THEN <<>>
                        ELSE IF queue[i] \in T THEN g[i - 1] ELSE Append(g[i - 1], queue[i])
      BY <2>1 DEF Run
    <3>2. ASSUME NEW i \in 0..(n + 1) PROVE h[i] = IF i = 0 THEN <<>>
                        ELSE IF queue[i] \in T THEN h[i - 1] ELSE Append(h[i - 1], queue[i])
      BY <3>1
    <3> QED
      BY <3>2 DEF Run
  <2> QED
    BY <2>2
<1> HIDE DEF P
<1>3. Nat \subseteq P
  BY <1>1, <1>2, SetInduction
<1> QED
  BY <1>3 DEF P

LEMMA WithoutRun ==
    ASSUME NEW queue, Len(queue) \in Nat, NEW T
    PROVE  \E g : Run(queue, T, g, Len(queue)) /\ Without(queue, T) = g[Len(queue)]
<1> DEFINE n == Len(queue)
           f == CHOOSE g : Run(queue, T, g, n)
<1>1. Run(queue, T, f, n)
  BY RunExists
<1>2. Without(queue, T) = f[n]
  BY DEF Without, Run
<1> QED
  BY <1>1, <1>2

Distinct(x)  == \A i, j \in DOMAIN x : x[i] = x[j] => i = j
Occurs(k, x) == \E i \in DOMAIN x : x[i] = k

(* What x keeps of the first m keys of the queue.                          *)
KeptOf(queue, T, x, m) ==
    /\ x \in Seq(Keys)
    /\ Len(x) <= m
    /\ (\E i \in 1..m : queue[i] \in T) => Len(x) < m
    /\ \A k \in Keys : Occurs(k, x) <=> k \notin T /\ \E i \in 1..m : queue[i] = k
    /\ Distinct(queue) => Distinct(x)

LEMMA KeepsOne ==
    ASSUME NEW queue \in Seq(Keys), NEW T, NEW m \in Nat, m + 1 <= Len(queue), NEW x,
           KeptOf(queue, T, x, m)
    PROVE  KeptOf(queue, T, IF queue[m + 1] \in T THEN x ELSE Append(x, queue[m + 1]), m + 1)
<1> DEFINE key == queue[m + 1]
<1>1. key \in Keys /\ DOMAIN queue = 1..Len(queue) /\ Len(queue) \in Nat /\ m + 1 \in DOMAIN queue
  OBVIOUS
<1>2. x \in Seq(Keys) /\ Len(x) \in Nat /\ Len(x) <= m /\ DOMAIN x = 1..Len(x)
  BY DEF KeptOf
<1>3. \A i : i \in 1..(m + 1) <=> i \in 1..m \/ i = m + 1
  OBVIOUS
<1>4. \A k \in Keys : Occurs(k, x) <=> k \notin T /\ \E i \in 1..m : queue[i] = k
  BY DEF KeptOf
<1>5. CASE key \in T
  BY <1>2, <1>3, <1>4, <1>5 DEF KeptOf
<1>6. CASE key \notin T
  <2> DEFINE y == Append(x, key)
  <2>1. /\ y \in Seq(Keys) /\ Len(y) = Len(x) + 1 /\ DOMAIN y = 1..(Len(x) + 1)
        /\ y[Len(x) + 1] = key /\ \A i \in 1..Len(x) : y[i] = x[i]
    BY <1>1, <1>2
  <2> HIDE DEF y
  <2>2. \A i : i \in DOMAIN y <=> i \in DOMAIN x \/ i = Len(x) + 1
    BY <1>2, <2>1
  <2>3. \A k \in Keys : Occurs(k, y) <=> Occurs(k, x) \/ k = key
    BY <1>2, <2>1, <2>2 DEF Occurs
  <2>4. \A k \in Keys : Occurs(k, y) <=> k \notin T /\ \E i \in 1..(m + 1) : queue[i] = k
    BY <1>3, <1>4, <1>6, <2>3
  <2>5. Len(y) <= m + 1 /\ ((\E i \in 1..(m + 1) : queue[i] \in T) => Len(y) < m + 1)
    <3>1. (\E i \in 1..(m + 1) : queue[i] \in T) => \E i \in 1..m : queue[i] \in T
      BY <1>3, <1>6
    <3>2. (\E i \in 1..m : queue[i] \in T) => Len(x) < m
      BY DEF KeptOf
    <3> QED
      BY <1>2, <2>1, <3>1, <3>2
  <2>6. ASSUME Distinct(queue) PROVE Distinct(y)
    <3>1. ~Occurs(key, x)
      BY <1>1, <1>4, <2>6 DEF Distinct
    <3>2. Distinct(x)
      BY <2>6 DEF KeptOf
    <3> QED
      BY <1>2, <2>1, <2>2, <3>1, <3>2 DEF Distinct, Occurs
  <2>7. KeptOf(queue, T, y, m + 1)
    BY <2>1, <2>4, <2>5, <2>6 DEF KeptOf
  <2> QED
    BY <1>6, <2>7 DEF y
<1> QED
  BY <1>5, <1>6

LEMMA WithoutKeeps ==
    ASSUME NEW queue \in Seq(Keys), NEW T
    PROVE  KeptOf(queue, T, Without(queue, T), Len(queue))
<1>1. Len(queue) \in Nat
  OBVIOUS
<1>2. PICK g : Run(queue, T, g, Len(queue)) /\ Without(queue, T) = g[Len(queue)]
  BY <1>1, WithoutRun
<1> DEFINE P == {m \in Nat : m <= Len(queue) => KeptOf(queue, T, g[m], m)}
<1>3. 0 \in P
  <2>1. g[0] = <<>>
    BY <1>1, <1>2 DEF Run
  <2>2. KeptOf(queue, T, <<>>, 0)
    BY DEF KeptOf, Occurs, Distinct
  <2> QED
    BY <2>1, <2>2
<1>4. ASSUME NEW m \in Nat, m \in P PROVE m + 1 \in P
  <2> SUFFICES ASSUME m + 1 <= Len(queue) PROVE KeptOf(queue, T, g[m + 1], m + 1)
    OBVIOUS
  <2>1. KeptOf(queue, T, g[m], m)
    BY <1>1, <1>4
  <2>2. m + 1 \in 0..Len(queue) /\ m + 1 # 0 /\ (m + 1) - 1 = m
    BY <1>1
  <2>3. g[m + 1] = IF queue[m + 1] \in T THEN g[m] ELSE Append(g[m], queue[m + 1])
    BY <1>2, <2>2 DEF Run
  <2> QED
    BY <2>1, <2>3, KeepsOne
<1> HIDE DEF P
<1>5. Nat \subseteq P
  BY <1>3, <1>4, SetInduction
<1> QED
  BY <1>1, <1>2, <1>5 DEF P

(* The queue names each entry of the memo once and keeps to its bound.     *)
Queued ==
    /\ recency \in Seq(Keys) /\ Len(recency) <= MaxEntries
    /\ Distinct(recency)
    /\ \A k \in Keys : memo[k] # NoEntry <=> Occurs(k, recency)

LEMMA InvalidateQueued ==
    ASSUME Queued, MemoInv, NEW S, Invalidate(S)
    PROVE  Queued'
<1> DEFINE T == {k \in Keys : SlugOf[k] \in S}
<1>1. KeptOf(recency, T, Without(recency, T), Len(recency))
  BY WithoutKeeps DEF Queued
<1>2. recency' = Without(recency, T)
  BY DEF Invalidate
<1>3. /\ recency' \in Seq(Keys) /\ Len(recency') <= Len(recency) /\ Distinct(recency')
      /\ \A k \in Keys : Occurs(k, recency') <=> k \notin T /\ Occurs(k, recency)
  <2>1. \A k : Occurs(k, recency) <=> \E i \in 1..Len(recency) : recency[i] = k
    BY DEF Occurs, Queued
  <2> QED
    BY <1>1, <1>2, <2>1 DEF KeptOf, Queued
<1>4. Len(recency') <= MaxEntries
  BY <1>3, MemoryAssumption DEF Queued
<1>5. \A k \in Keys : memo'[k] # NoEntry <=> k \notin T /\ memo[k] # NoEntry
  BY DEF Invalidate
<1>6. \A k \in Keys : memo'[k] # NoEntry <=> Occurs(k, recency')
  BY <1>3, <1>5 DEF Queued
<1> QED
  BY <1>3, <1>4, <1>6 DEF Queued, Distinct, Occurs

(* move_to_end, of a key that was in the queue or is new to it.            *)
LEMMA TouchedKeeps ==
    ASSUME Queued, NEW k \in Keys
    PROVE  /\ Touched(k) \in Seq(Keys) /\ Distinct(Touched(k))
           /\ Len(Touched(k)) <= Len(recency) + 1
           /\ Occurs(k, recency) => Len(Touched(k)) <= Len(recency)
           /\ Len(Touched(k)) >= 1 /\ Touched(k)[Len(Touched(k))] = k
           /\ \A j \in Keys : Occurs(j, Touched(k)) <=> Occurs(j, recency) \/ j = k
<1> DEFINE x == Without(recency, {k})
           t == Touched(k)
<1>0. recency \in Seq(Keys) /\ Len(recency) \in Nat /\ DOMAIN recency = 1..Len(recency)
  BY DEF Queued
<1>1. KeptOf(recency, {k}, x, Len(recency))
  BY <1>0, WithoutKeeps
<1>2. t = Append(x, k)
  BY DEF Touched
<1>3. x \in Seq(Keys) /\ Len(x) \in Nat /\ Len(x) <= Len(recency) /\ DOMAIN x = 1..Len(x)
  BY <1>1 DEF KeptOf
<1>4. Distinct(x) /\ ~Occurs(k, x) /\ (Occurs(k, recency) => Len(x) < Len(recency))
  BY <1>0, <1>1 DEF KeptOf, Queued, Occurs
<1>5. \A j \in Keys : Occurs(j, x) <=> j # k /\ Occurs(j, recency)
  BY <1>0, <1>1 DEF KeptOf, Occurs
<1> HIDE DEF x, t
<1>6. /\ t \in Seq(Keys) /\ Len(t) = Len(x) + 1 /\ DOMAIN t = 1..(Len(x) + 1)
      /\ t[Len(x) + 1] = k /\ \A i \in 1..Len(x) : t[i] = x[i]
  BY <1>2, <1>3
<1>7. \A i : i \in DOMAIN t <=> i \in DOMAIN x \/ i = Len(x) + 1
  BY <1>3, <1>6
<1>8. Distinct(t)
  BY <1>3, <1>4, <1>6, <1>7 DEF Distinct, Occurs
<1>9. \A j \in Keys : Occurs(j, t) <=> Occurs(j, x) \/ j = k
  BY <1>3, <1>6, <1>7 DEF Occurs
<1>10. /\ Len(t) <= Len(recency) + 1 /\ Len(t) >= 1 /\ t[Len(t)] = k
       /\ Occurs(k, recency) => Len(t) <= Len(recency)
  BY <1>0, <1>3, <1>4, <1>6
<1> QED
  BY <1>5, <1>6, <1>8, <1>9, <1>10 DEF t

LEMMA HitQueued ==
    ASSUME Queued, NEW r \in Requests, NEW k \in Keys, Hit(r, k)
    PROVE  Queued'
<1>1. recency' = Touched(k) /\ memo' = memo /\ memo[k] # NoEntry
  BY DEF Hit, Valid
<1>2. Occurs(k, recency)
  BY <1>1 DEF Queued
<1>3. /\ Touched(k) \in Seq(Keys) /\ Distinct(Touched(k))
      /\ Len(Touched(k)) <= Len(recency)
      /\ \A j \in Keys : Occurs(j, Touched(k)) <=> Occurs(j, recency)
  BY <1>2, TouchedKeeps
<1>4. Len(Touched(k)) <= MaxEntries
  <2>1. Len(Touched(k)) \in Nat /\ Len(recency) \in Nat /\ MaxEntries \in Nat
    BY <1>3, MemoryAssumption DEF Queued
  <2> QED
    BY <1>3, <2>1 DEF Queued
<1> QED
  BY <1>1, <1>3, <1>4 DEF Queued, Distinct, Occurs

(* put: the entry goes to the end, and the first one goes if there are now *)
(* too many.                                                               *)
LEMMA PutQueued ==
    ASSUME Queued, MemoInv, NEW r \in Requests, NEW k \in Keys, Put(r, k)
    PROVE  Queued'
<1> DEFINE t == Touched(k)
<1>1. /\ t \in Seq(Keys) /\ Distinct(t) /\ Len(t) \in Nat /\ Len(t) >= 1
      /\ DOMAIN t = 1..Len(t) /\ Len(t) <= MaxEntries + 1 /\ t[Len(t)] = k
  BY TouchedKeeps, MemoryAssumption DEF Queued
<1>2. \A j \in Keys : Occurs(j, t) <=> memo[j] # NoEntry \/ j = k
  BY TouchedKeeps DEF Queued
<1>3. EntryOf(r, k) # NoEntry
  BY DEF EntryOf, NoEntry, MemoInv, RequestType, Record
<1>4. /\ recency' = Kept(t)
      /\ \A j \in Keys : memo'[j] # NoEntry <=> j = k \/ (j \notin Evicted(t) /\ memo[j] # NoEntry)
  BY <1>3 DEF Put
<1> HIDE DEF t
<1>5. CASE Len(t) <= MaxEntries
  <2>0. ~(Len(t) > MaxEntries)
    BY <1>1, <1>5, MemoryAssumption
  <2>1. Kept(t) = t /\ Evicted(t) = {}
    BY <2>0, Zenon DEF Kept, Evicted
  <2>2. \A j \in Keys : memo'[j] # NoEntry <=> Occurs(j, recency')
    BY <1>2, <1>4, <2>1
  <2> QED
    BY <1>1, <1>4, <1>5, <2>1, <2>2 DEF Queued, Distinct, Occurs
<1>6. CASE Len(t) > MaxEntries
  <2> DEFINE u == Tail(t)
  <2>1. recency' = u /\ Evicted(t) = {t[1]} /\ Len(t) > 1
    BY <1>1, <1>4, <1>6, MemoryAssumption DEF Kept, Evicted
  <2>2. /\ u \in Seq(Keys) /\ Len(u) = Len(t) - 1 /\ DOMAIN u = 1..(Len(t) - 1)
        /\ \A i \in 1..(Len(t) - 1) : u[i] = t[i + 1]
    BY <1>1, <2>1
  <2> HIDE DEF u
  <2>3. \A i \in 1..(Len(t) - 1) : i + 1 \in DOMAIN t /\ i + 1 # 1
    BY <1>1
  <2>4. \A i \in DOMAIN t : i # 1 => i - 1 \in 1..(Len(t) - 1) /\ (i - 1) + 1 = i
    BY <1>1
  <2>5. 1 \in DOMAIN t /\ Len(t) \in DOMAIN t /\ Len(t) # 1
    BY <1>1, <2>1
  <2>6. Distinct(u)
    <3> SUFFICES ASSUME NEW i \in 1..(Len(t) - 1), NEW j \in 1..(Len(t) - 1), u[i] = u[j]
                 PROVE  i = j
      BY <2>2 DEF Distinct
    <3>1. t[i + 1] = t[j + 1]
      BY <2>2
    <3>2. i + 1 = j + 1
      BY <1>1, <2>3, <3>1 DEF Distinct
    <3> QED
      BY <1>1, <3>2
  <2>7. \A j : Occurs(j, u) <=> Occurs(j, t) /\ j # t[1]
    <3> TAKE j
    <3>1. Occurs(j, u) => Occurs(j, t) /\ j # t[1]
      BY <1>1, <2>2, <2>3, <2>5 DEF Occurs, Distinct
    <3>2. Occurs(j, t) /\ j # t[1] => Occurs(j, u)
      BY <2>2, <2>4 DEF Occurs
    <3> QED
      BY <3>1, <3>2
  <2>8. k # t[1]
    BY <1>1, <2>5 DEF Distinct
  <2>9. \A j \in Keys : memo'[j] # NoEntry <=> Occurs(j, recency')
    BY <1>2, <1>4, <2>1, <2>7, <2>8
  <2>10. recency' \in Seq(Keys) /\ Len(recency') <= MaxEntries
    BY <1>1, <2>1, <2>2, MemoryAssumption
  <2> QED
    BY <2>1, <2>6, <2>9, <2>10 DEF Queued, Distinct, Occurs
<1> QED
  BY <1>1, <1>5, <1>6, MemoryAssumption

LEMMA StepQueued == Queued /\ MemoInv /\ [Next]_vars => Queued'
<1> SUFFICES ASSUME Queued, MemoInv, [Next]_vars PROVE Queued'
  OBVIOUS
<1>1. CASE UNCHANGED cache
  BY <1>1 DEF cache, Queued, Distinct, Occurs
<1>2. ASSUME NEW r \in Requests, Request(r) PROVE Queued'
  <2>1. ASSUME NEW k \in Keys, Hit(r, k) PROVE Queued'
    BY <2>1, HitQueued
  <2>2. ASSUME NEW k \in Keys, Put(r, k) PROVE Queued'
    BY <2>2, PutQueued
  <2>3. CASE RefreshInvalidates(r)
    BY <2>3, InvalidateQueued DEF RefreshInvalidates
  <2> QED
    BY <1>1, <1>2, <2>1, <2>2, <2>3 DEF Request, Stats, ReadSignature, Miss, Compute, ComputeFails,
       Answered, RefreshIngests, StatusFirst, StatusSecond, AskSlot
<1>3. CASE EditAlias
  BY <1>3, InvalidateQueued DEF EditAlias
<1>4. CASE Restart
  BY <1>4, MemoryAssumption DEF Restart, Queued, Distinct, Occurs
<1> QED
  BY <1>1, <1>2, <1>3, <1>4 DEF Next, Ingest, StartJob, Task, CompleteJob, Panic, TimeOver, vars

-----------------------------------------------------------------------------
(* What is counted, and the jobs a status has found.                       *)

Counted ==
    /\ version \in [Slugs -> 0..MaxVersion]
    /\ accepted <= MaxJobs
    /\ panicked \subseteq 1..accepted
    /\ \A r \in Requests : request[r].saw \subseteq 1..accepted
    /\ restarts \in 0..MaxRestarts

LEMMA StepCounted == SlotInv /\ RequestType /\ Counted /\ [Next]_vars => Counted'
<1> SUFFICES ASSUME SlotInv, RequestType, Counted, [Next]_vars PROVE Counted'
  OBVIOUS
<1> USE MemoryAssumption
<1>1. version' \in [Slugs -> 0..MaxVersion]
  <2>1. ASSUME NEW s \in Slugs, Commit(s) PROVE version' \in [Slugs -> 0..MaxVersion]
    BY <2>1 DEF Commit, Counted
  <2>2. CASE UNCHANGED store
    BY <2>2 DEF store, Counted
  <2> QED
    BY <2>1, <2>2 DEF Next, Ingest, Request, Stats, ReadSignature, Hit, Miss, Compute, ComputeFails,
       Put, Answered, RefreshIngests, RefreshInvalidates, StatusFirst, StatusSecond, AskSlot,
       EditAlias, StartJob, Task, CompleteJob, Panic, TimeOver, Restart, vars
<1>2. accepted' \in Nat /\ accepted' >= accepted /\ accepted' <= MaxJobs
  <2>1. CASE accepted' = accepted
    BY <2>1 DEF Counted, SlotInv, SlotType
  <2>2. CASE StartJob
    BY <2>2 DEF StartJob, Counted, SlotInv, SlotType
  <2> QED
    BY <2>1, <2>2 DEF Next, Ingest, Request, Stats, ReadSignature, Hit, Miss, Compute, ComputeFails,
       Put, Answered, RefreshIngests, RefreshInvalidates, StatusFirst, StatusSecond, AskSlot, slots,
       EditAlias, Task, CompleteJob, Panic, TimeOver, Restart, vars
<1>3. 1..accepted \subseteq 1..accepted' /\ accepted \in Nat
  BY <1>2 DEF SlotInv, SlotType
<1>4. panicked' \subseteq 1..accepted'
  <2>1. CASE panicked' = panicked
    BY <1>3, <2>1 DEF Counted
  <2>2. ASSUME NEW j \in Jobs, Panic(j) PROVE panicked' \subseteq 1..accepted'
    <3>1. j \in 1..accepted
      BY <2>2 DEF Panic, SlotInv, SlotType, Jobs, NoJob
    <3> QED
      BY <1>3, <2>2, <3>1 DEF Panic, Counted
  <2> QED
    BY <2>1, <2>2 DEF Next, Ingest, Request, Stats, ReadSignature, Hit, Miss, Compute, ComputeFails,
       Put, Answered, RefreshIngests, RefreshInvalidates, StatusFirst, StatusSecond, AskSlot, slots,
       EditAlias, StartJob, Task, CompleteJob, TimeOver, Restart, vars
<1>5. restarts' \in 0..MaxRestarts
  <2>1. CASE restarts' = restarts
    BY <2>1 DEF Counted
  <2>2. CASE Restart
    BY <2>2 DEF Restart, Counted
  <2> QED
    BY <2>1, <2>2 DEF Next, Ingest, Request, Stats, ReadSignature, Hit, Miss, Compute, ComputeFails,
       Put, Answered, RefreshIngests, RefreshInvalidates, StatusFirst, StatusSecond, AskSlot,
       EditAlias, StartJob, Task, CompleteJob, Panic, TimeOver, vars
<1>6. ASSUME NEW q \in Requests PROVE request'[q].saw \subseteq 1..accepted'
  <2>0. request[q].saw \subseteq 1..accepted'
    BY <1>3 DEF Counted
  <2>1. \A slot : Found(slot) \subseteq 1..accepted'
    <3>1. \A slot : Found(slot) \subseteq {current, last.job} \ {NoJob}
      BY DEF Found
    <3>2. {current, last.job} \ {NoJob} \subseteq 1..accepted
      BY DEF SlotInv, SlotType, NoJob
    <3> QED
      BY <1>3, <3>1, <3>2
  <2>2. CASE request' = request
    BY <2>0, <2>2
  <2>3. ASSUME NEW r \in Requests, Request(r) PROVE request'[q].saw \subseteq 1..accepted'
    <3> USE DEF RequestType, Record
    <3>0. request[r].saw \subseteq 1..accepted'
      BY <1>3 DEF Counted
    <3>1. ASSUME NEW new, Becomes(r, new), new.saw \subseteq 1..accepted'
          PROVE  request'[q].saw \subseteq 1..accepted'
      BY <2>0, <3>1 DEF Becomes
    <3>2. ASSUME Becomes(r, Idle) PROVE request'[q].saw \subseteq 1..accepted'
      BY <3>1, <3>2 DEF Idle
    <3>3. CASE \/ Answered(r) \/ RefreshInvalidates(r)
               \/ \E k \in Keys : ComputeFails(r, k)
      BY <3>2, <3>3 DEF Answered, RefreshInvalidates, ComputeFails
    <3>4. CASE StatusFirst(r)
      <4> DEFINE new == [request[r] EXCEPT !.pc = "status", !.saw = Found(SlotOrder[1]),
                                           !.owed = accepted]
      <4>1. new.saw = Found(SlotOrder[1])
        OBVIOUS
      <4>2. Becomes(r, new)
        BY <3>4 DEF StatusFirst
      <4> HIDE DEF new
      <4> QED
        BY <2>1, <3>1, <4>1, <4>2
    <3>5. CASE StatusSecond(r)
      <4> DEFINE new == [request[r] EXCEPT !.pc = "shown", !.saw = @ \cup Found(SlotOrder[2])]
      <4>1. new.saw = request[r].saw \cup Found(SlotOrder[2])
        OBVIOUS
      <4>2. Becomes(r, new)
        BY <3>5 DEF StatusSecond
      <4> HIDE DEF new
      <4> QED
        BY <2>1, <3>0, <3>1, <4>1, <4>2
    <3>6. ASSUME NEW s \in Slugs, RefreshIngests(r, s)
          PROVE  request'[q].saw \subseteq 1..accepted'
      BY <3>0, <3>1, <3>6 DEF RefreshIngests
    <3>7. ASSUME NEW k \in Keys, ReadSignature(r, k) \/ Miss(r, k) \/ Compute(r, k)
          PROVE  request'[q].saw \subseteq 1..accepted'
      BY <3>0, <3>1, <3>7 DEF ReadSignature, Miss, Compute
    <3>8. ASSUME NEW k \in Keys, Hit(r, k) \/ Put(r, k)
          PROVE  request'[q].saw \subseteq 1..accepted'
      <4>1. PICK data : Becomes(r, [request[r] EXCEPT !.pc = "answer", !.key = {}, !.data = data])
        BY <3>8 DEF Hit, Put, Serve
      <4> QED
        BY <3>0, <3>1, <4>1
    <3> QED
      BY <2>3, <3>3, <3>4, <3>5, <3>6, <3>7, <3>8 DEF Request, Stats
  <2>4. CASE Restart
    BY <2>4 DEF Restart, Idle
  <2> QED
    BY <2>2, <2>3, <2>4 DEF Next, Ingest, EditAlias, StartJob, Task, CompleteJob, Panic, TimeOver, vars
<1> QED
  BY <1>1, <1>2, <1>4, <1>5, <1>6 DEF Counted

(* Every variable keeps its type, and with it the memo its bound: it never *)
(* has more than STATS_CACHE_MAX entries, and its queue names each of them *)
(* once, whatever is touched, evicted and invalidated between the steps of *)
(* the requests.                                                           *)
THEOREM MemoKeepsItsBound == Spec => []TypeOK
<1>1. Init => Queued /\ Counted
  BY MemoryAssumption DEF Init, Queued, Counted, Distinct, Occurs, Idle
<1>2. ServerInv /\ Queued /\ Counted => TypeOK
  <2> SUFFICES ASSUME ServerInv, Queued, Counted PROVE TypeOK
    OBVIOUS
  <2>1. \A k \in Keys : memo[k] # NoEntry <=> \E i \in DOMAIN recency : recency[i] = k
    BY DEF Queued, Occurs
  <2>2. /\ current \in 0..accepted /\ accepted \in 0..MaxJobs
        /\ last \in [job : 0..accepted, over : BOOLEAN] /\ forgotten \in 0..accepted
    BY MemoryAssumption DEF ServerInv, SlotInv, SlotType, Counted, NoJob
  <2> QED
    BY <2>1, <2>2 DEF TypeOK, ServerInv, MemoInv, Queued, Counted
<1>3. ServerInv /\ Queued /\ Counted /\ [Next]_vars => Queued' /\ Counted'
  BY StepQueued, StepCounted DEF ServerInv, MemoInv
<1> QED
  BY <1>1, <1>2, <1>3, ServerInvariant, PTL DEF Spec
=============================================================================
