------------------------- MODULE SchemaMigrateProofs -------------------------
(***************************************************************************)
(* Proofs that, for any number of callers and any list of migrations, the  *)
(* version of the store claims only what was done, and that an apply that  *)
(* returned Ok leaves a complete schema behind for good.                   *)
(***************************************************************************)
EXTENDS SchemaMigrate, TLAPS

(* A running apply has dealt with every version up to its own, which is    *)
(* what makes the version it writes next a true one, however far another   *)
(* apply has moved user_version in the meantime.                           *)
PassedIsDone(p) == pc[p] # "idle" => \A v \in Migrations : v <= at[p] => v \in done

SchemaInv ==
    /\ TypeOK
    /\ VersionIsBacked
    /\ OkMeansComplete
    /\ \A p \in Procs : PassedIsDone(p)

LEMMA InitSchema == Init => SchemaInv
<1> SUFFICES ASSUME Init PROVE SchemaInv
  OBVIOUS
<1> USE SchemaAssumption
<1>1. born \in Migrations \cup {0} /\ version = born
  BY DEF Init
<1>2. PICK byHand \in {{}} \cup {{v} : v \in SingleColumn} :
        done = {v \in Migrations : v <= born} \cup (IF born = 0 THEN {} ELSE byHand)
  BY DEF Init
<1>3. byHand \subseteq Migrations
  OBVIOUS
<1>4. done \subseteq Migrations
  BY <1>2, <1>3
<1>5. TypeOK
  <2>1. pc \in [Procs -> {"idle", "loop", "body"}] /\ at \in [Procs -> Migrations \cup {0}]
    BY DEF Init
  <2>2. kills \in 0..MaxKills
    BY DEF Init
  <2> QED
    BY <1>1, <1>4, <2>1, <2>2 DEF Init, TypeOK
<1>6. VersionIsBacked
  BY <1>1, <1>2 DEF VersionIsBacked
<1>7. OkMeansComplete /\ \A p \in Procs : PassedIsDone(p)
  BY DEF Init, OkMeansComplete, PassedIsDone
<1> QED
  BY <1>5, <1>6, <1>7 DEF SchemaInv

(* What Following says of the next version.                                *)
LEMMA DueIsNext ==
    ASSUME TypeOK, NEW p \in Procs, NEW v \in Due(p)
    PROVE  /\ v \in Migrations /\ v > at[p]
           /\ \A w \in Migrations : w <= v => w <= at[p] \/ w = v
<1>0. Migrations \cup {0} \subseteq Nat
  BY SchemaAssumption
<1>1. at[p] \in Migrations \cup {0}
  BY DEF TypeOK
<1>2. Due(p) = {u \in Migrations : u > at[p] /\ \A w \in Migrations : w > at[p] => u <= w}
  BY <1>1 DEF Due, Following
<1>3. v \in {u \in Migrations : u > at[p] /\ \A w \in Migrations : w > at[p] => u <= w}
  BY <1>2
<1>4. v \in Migrations /\ v > at[p] /\ \A w \in Migrations : w > at[p] => v <= w
  BY <1>3
<1>5. ASSUME NEW w \in Migrations, w <= v PROVE w <= at[p] \/ w = v
  <2>1. w \in Nat /\ v \in Nat
    BY <1>0, <1>4
  <2>2. at[p] \in Nat
    BY <1>0, <1>1
  <2>3. w > at[p] => v <= w
    BY <1>4
  <2> QED
    BY <2>1, <2>2, <2>3, <1>5
<1> QED
  BY <1>4, <1>5

(* The bookkeeping of a step of p that may raise done and set the version. *)
LEMMA StepKeeps ==
    ASSUME SchemaInv, TypeOK', NEW p \in Procs,
           \A q \in Procs \ {p} : pc'[q] = pc[q] /\ at'[q] = at[q],
           done \subseteq done',
           PassedIsDone(p)',
           version' = version \/ \A v \in Migrations : v <= version' => v \in done',
           served' => served \/ done' = Migrations
    PROVE  SchemaInv'
<1>1. VersionIsBacked'
  BY DEF SchemaInv, VersionIsBacked
<1>2. OkMeansComplete'
  BY DEF SchemaInv, OkMeansComplete, TypeOK
<1>3. \A q \in Procs : PassedIsDone(q)'
  BY DEF SchemaInv, PassedIsDone
<1> QED
  BY <1>1, <1>2, <1>3 DEF SchemaInv

LEMMA StepSchema == ASSUME SchemaInv, NEW p \in Procs, Step(p) \/ Die(p) PROVE SchemaInv'
<1> USE SchemaAssumption
<1>1. TypeOK
  BY DEF SchemaInv
<1>2. CASE ReadVersion(p)
  <2>1. TypeOK'
    BY <1>1, <1>2 DEF TypeOK, ReadVersion, Goto, store
  <2>2. PassedIsDone(p)'
    BY <1>1, <1>2 DEF TypeOK, SchemaInv, VersionIsBacked, PassedIsDone, ReadVersion, Goto, store
  <2> QED
    BY <1>1, <1>2, <2>1, <2>2, StepKeeps DEF TypeOK, ReadVersion, Goto, store
<1>3. ASSUME NEW v \in Due(p), GuardHit(p, v) PROVE SchemaInv'
  <2>1. v \in Migrations /\ \A w \in Migrations : w <= v => w <= at[p] \/ w = v
    BY <1>1, DueIsNext
  <2>2. TypeOK'
    BY <1>1, <1>3, <2>1 DEF TypeOK, GuardHit, Goto, history
  <2>3. \A w \in Migrations : w <= v => w \in done
    BY <1>3, <2>1 DEF SchemaInv, PassedIsDone, GuardHit, ColumnExists
  <2>4. PassedIsDone(p)'
    BY <1>1, <1>3, <2>3 DEF TypeOK, PassedIsDone, GuardHit, Goto
  <2> QED
    BY <1>1, <1>3, <2>2, <2>3, <2>4, StepKeeps DEF TypeOK, GuardHit, Goto
<1>4. ASSUME NEW v \in Due(p), GuardMiss(p, v) PROVE SchemaInv'
  <2>1. TypeOK'
    BY <1>1, <1>4 DEF TypeOK, GuardMiss, Goto, history, store
  <2>2. PassedIsDone(p)'
    BY <1>1, <1>4 DEF TypeOK, SchemaInv, PassedIsDone, GuardMiss, Goto, store
  <2> QED
    BY <1>1, <1>4, <2>1, <2>2, StepKeeps DEF TypeOK, GuardMiss, Goto, store
<1>5. ASSUME NEW v \in Due(p), RunBody(p, v) PROVE SchemaInv'
  <2>1. v \in Migrations /\ \A w \in Migrations : w <= v => w <= at[p] \/ w = v
    BY <1>1, DueIsNext
  <2>2. TypeOK'
    BY <1>1, <1>5, <2>1 DEF TypeOK, RunBody, Goto, history
  <2>3. \A w \in Migrations : w <= v => w \in done'
    BY <1>5, <2>1 DEF SchemaInv, PassedIsDone, RunBody
  <2>4. PassedIsDone(p)'
    BY <1>1, <1>5, <2>3 DEF TypeOK, PassedIsDone, RunBody, Goto
  <2> QED
    BY <1>1, <1>5, <2>2, <2>3, <2>4, StepKeeps DEF TypeOK, RunBody, Goto
<1>6. ASSUME NEW v \in Due(p), BodyFails(p, v) PROVE SchemaInv'
  <2>1. TypeOK' /\ PassedIsDone(p)'
    BY <1>1, <1>6 DEF TypeOK, PassedIsDone, BodyFails, Goto, history, store
  <2> QED
    BY <1>1, <1>6, <2>1, StepKeeps DEF TypeOK, BodyFails, Goto, store
<1>7. CASE ReturnOk(p)
  <2>1. TypeOK' /\ PassedIsDone(p)'
    BY <1>1, <1>7 DEF TypeOK, PassedIsDone, ReturnOk, Goto, history, store
  <2>2. done' = Migrations
    <3>1. done \subseteq Migrations
      BY <1>1 DEF TypeOK
    <3> QED
      BY <1>7, <3>1 DEF SchemaInv, PassedIsDone, ReturnOk, store
  <2> QED
    BY <1>1, <1>7, <2>1, <2>2, StepKeeps DEF TypeOK, ReturnOk, Goto, store
<1>8. CASE Die(p)
  <2>1. TypeOK' /\ PassedIsDone(p)'
    BY <1>1, <1>8 DEF TypeOK, PassedIsDone, Die, Goto, history, store
  <2> QED
    BY <1>1, <1>8, <2>1, StepKeeps DEF TypeOK, Die, Goto, store
<1> QED
  BY <1>2, <1>3, <1>4, <1>5, <1>6, <1>7, <1>8 DEF Step

(* The invariant holds of every behaviour.                                 *)
LEMMA SchemaInvariant == Spec => []SchemaInv
<1>1. SchemaInv /\ [Next]_vars => SchemaInv'
  <2> SUFFICES ASSUME SchemaInv, [Next]_vars PROVE SchemaInv'
    OBVIOUS
  <2>1. CASE Next
    BY <2>1, StepSchema DEF Next
  <2>2. CASE UNCHANGED vars
    BY <2>2 DEF vars, store, history, SchemaInv, TypeOK, VersionIsBacked, OkMeansComplete,
                PassedIsDone
  <2> QED
    BY <2>1, <2>2
<1> QED
  BY InitSchema, <1>1, PTL DEF Spec

(* Type correctness, whatever overlaps.                                    *)
THEOREM SchemaTypeCorrect == Spec => []TypeOK
BY SchemaInvariant, PTL DEF SchemaInv

(* user_version never claims a migration that was not done: the guards are *)
(* looked at anew in each turn of the loop, and a body commits together    *)
(* with its version.                                                       *)
THEOREM VersionTellsTheTruth == Spec => []VersionIsBacked
BY SchemaInvariant, PTL DEF SchemaInv

(* After the first Ok of any apply the schema is complete for good, also   *)
(* while another apply with an old reading still rewrites user_version.    *)
THEOREM OkIsComplete == Spec => []OkMeansComplete
BY SchemaInvariant, PTL DEF SchemaInv
=============================================================================
