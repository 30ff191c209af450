------------------------------- MODULE Replica -------------------------------
(***************************************************************************)
(* What sync promises of a device and its peer, without objects, outboxes, *)
(* cursors or pulls: the device offers one edition of its shards after the *)
(* other, the peer moves to one of them and from there only to later ones, *)
(* and it changes a shard only to what the edition it has moved to says.   *)
(* A shard may be blank for a while.  One that an edition has no more      *)
(* stays as it was.                                                        *)
(***************************************************************************)
EXTENDS Integers

CONSTANTS Shards,
          None,     \* a shard without rows
          Blank     \* a shard whose rows are being replaced

VARIABLES offered,  \* editions: sets of [gen, shards]
          seen,     \* the generation the peer has moved to, 0 at first
          shown     \* [Shards -> content]

vars == <<offered, seen, shown>>

Init == /\ offered = {}
        /\ seen = 0
        /\ shown = [s \in Shards |-> None]

Offer == /\ \E m \in offered' \ offered :
              /\ offered' = offered \cup {m}
              /\ \A n \in offered : m.gen > n.gen
         /\ UNCHANGED <<seen, shown>>

Move == /\ \E m \in offered : m.gen > seen /\ seen' = m.gen
        /\ UNCHANGED <<offered, shown>>

Hide(s) == /\ shown' = [shown EXCEPT ![s] = Blank]
           /\ UNCHANGED <<offered, seen>>

Show(s) == /\ \E m \in offered : /\ m.gen = seen /\ m.shards[s] # None
                                 /\ shown' = [shown EXCEPT ![s] = m.shards[s]]
           /\ UNCHANGED <<offered, seen>>

Next == Offer \/ Move \/ \E s \in Shards : Hide(s) \/ Show(s)

Spec == Init /\ [][Next]_vars
=============================================================================
