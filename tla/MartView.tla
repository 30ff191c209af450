------------------------------- MODULE MartView -------------------------------
(***************************************************************************)
(* What the marts promise their readers, without watermarks, windows or    *)
(* workers: each view shows facts that are known, never takes one back,    *)
(* and sooner or later shows all of them.  How often a view counts a fact  *)
(* is not part of this promise (see MartRefresh!CountedAtMostOnce).        *)
(***************************************************************************)
CONSTANTS Facts,    \* what can become known: messages with a usage event
          Views     \* the mart tables

VARIABLES known,    \* SUBSET Facts
          shown     \* [Views -> SUBSET Facts]

vars == <<known, shown>>

Init == /\ known = {}
        /\ shown = [v \in Views |-> {}]

Learn == /\ \E S \in SUBSET (Facts \ known) : S # {} /\ known' = known \cup S
         /\ UNCHANGED shown

Publish(v) == /\ \E S \in SUBSET (known \ shown[v]) :
                   S # {} /\ shown' = [shown EXCEPT ![v] = @ \cup S]
              /\ UNCHANGED known

Next == Learn \/ \E v \in Views : Publish(v)

Spec == /\ Init /\ [][Next]_vars
        /\ \A v \in Views : WF_vars(Publish(v))
=============================================================================
