--------------------------- MODULE AgentInboxProofs ---------------------------
(* What the inbox promises, for any number of hooks, acknowledging         *)
(* commands and messages, of kills and of failed renames.                  *)
EXTENDS AgentInbox, TLAPS

Record ==
    [pc : {"idle", "read", "mark"}, todo : SUBSET Messages, got : SUBSET Messages,
     mine : SUBSET Messages]

Files == [Messages -> {"none", "part", "torn", "unseen", "seen"}]

Typed ==
    /\ file \in Files
    /\ reader \in [Readers -> Record]
    /\ shown \in [Messages -> Nat]

(* What a reader holds was a whole message when it read it.  While it      *)
(* marks, what it has not yet renamed is among what it will announce.      *)
Shape(r) ==
    /\ reader[r].pc = "mark" => reader[r].todo \subseteq reader[r].got
    /\ reader[r].pc # "mark" => reader[r].mine = {}
    /\ reader[r].mine \subseteq reader[r].got \ reader[r].todo
    /\ \A m \in reader[r].got : file[m] \in {"unseen", "seen"}

(* Nobody else holds a message that one reader holds, one that is past its *)
(* rename is seen, and one that was announced is seen and held by nobody.  *)
Once(m) ==
    /\ shown[m] <= 1
    /\ shown[m] > 0 => file[m] = "seen" /\ \A r \in Readers : m \notin reader[r].got
    /\ \A r, q \in Readers : m \in reader[r].got /\ m \in reader[q].got => r = q
    /\ \A r \in Readers :
         reader[r].pc = "mark" /\ m \in reader[r].got \ reader[r].todo => file[m] = "seen"

InboxInv ==
    /\ Typed
    /\ \A r \in Readers : Shape(r)
    /\ NothingSwallowed
    /\ \A m \in Messages : m \in again \/ Once(m)

LEMMA InboxInit == Init => InboxInv
BY DEF Init, InboxInv, Typed, Files, Record, Shape, Once, NothingSwallowed, NoReader

LEMMA Update ==
    ASSUME Typed, NEW r \in Readers, NEW new \in Record, Becomes(r, new)
    PROVE  /\ reader' \in [Readers -> Record]
           /\ reader'[r] = new
           /\ \A q \in Readers \ {r} : reader'[q] = reader[q]
BY DEF Typed, Becomes

-----------------------------------------------------------------------------
(* The sender.                                                             *)

LEMMA SendStep ==
    ASSUME InboxInv, Send
    PROVE  InboxInv'
<1>1. PICK m \in Messages : WritePart(m) \/ MovePart(m)
  BY DEF Send
<1>2. /\ UNCHANGED <<reader, shown, again, cut>>
      /\ \E x \in {"part", "unseen", "torn"} : file' = [file EXCEPT ![m] = x]
      /\ file[m] \in {"none", "part"}
  BY <1>1 DEF WritePart, MovePart, counted
<1>3. file' \in Files /\ \A k \in Messages \ {m} : file'[k] = file[k]
  BY <1>2 DEF InboxInv, Typed, Files
<1>4. /\ file'[m] # "seen"
      /\ \A r \in Readers : m \notin reader[r].got
      /\ m \in again \/ shown[m] = 0
  BY <1>2 DEF InboxInv, Typed, Files, Shape, Once
<1>5. Typed' /\ NothingSwallowed'
  BY <1>2, <1>3, <1>4 DEF InboxInv, Typed, NothingSwallowed
<1>6. ASSUME NEW r \in Readers PROVE Shape(r)'
  <2>1. reader[r].got \subseteq Messages \ {m}
    BY <1>4 DEF InboxInv, Typed, Record
  <2> QED
    BY <1>2, <1>3, <2>1 DEF InboxInv, Shape
<1>7. ASSUME NEW k \in Messages PROVE k \in again' \/ Once(k)'
  BY <1>2, <1>3, <1>4 DEF InboxInv, Once
<1> QED
  BY <1>5, <1>6, <1>7 DEF InboxInv

-----------------------------------------------------------------------------
(* A reader that keeps no more than it had, renames nothing and announces  *)
(* nothing.                                                                *)

LEMMA Passive ==
    ASSUME InboxInv, NEW r \in Readers, NEW new \in Record, Becomes(r, new),
           UNCHANGED <<file, shown, cut>>, again \subseteq again',
           new.pc = "mark" => new.todo \subseteq new.got,
           new.mine = {}, reader[r].mine = {},
           new.got \subseteq reader[r].got,
           new.pc = "mark" => new.got \subseteq new.todo
    PROVE  InboxInv'
<1>1. /\ reader' \in [Readers -> Record] /\ reader'[r] = new
      /\ \A q \in Readers \ {r} : reader'[q] = reader[q]
  BY Update DEF InboxInv
<1>2. Typed' /\ NothingSwallowed'
  BY <1>1 DEF InboxInv, Typed, NothingSwallowed
<1>3. ASSUME NEW q \in Readers PROVE Shape(q)'
  <2>1. CASE q = r
    BY <1>1, <2>1 DEF InboxInv, Shape
  <2>2. CASE q # r
    BY <1>1, <2>2 DEF InboxInv, Shape
  <2> QED
    BY <2>1, <2>2
<1>4. ASSUME NEW m \in Messages, m \notin again' PROVE Once(m)'
  <2>1. Once(m) /\ \A q \in Readers : m \in reader'[q].got => m \in reader[q].got
    BY <1>1, <1>4 DEF InboxInv
  <2>2. ASSUME NEW q \in Readers, reader'[q].pc = "mark", m \in reader'[q].got \ reader'[q].todo
        PROVE  file'[m] = "seen"
    BY <1>1, <2>1, <2>2 DEF Once
  <2> QED
    BY <2>1, <2>2 DEF Once
<1> QED
  BY <1>2, <1>3, <1>4 DEF InboxInv

(* A reader reads one more message.                                        *)
LEMMA Reads ==
    ASSUME InboxInv, NEW r \in Readers, ReadFile(r)
    PROVE  InboxInv'
<1>1. reader[r].pc = "read" /\ UNCHANGED <<file, shown, cut>>
  BY DEF ReadFile
<1>2. PICK m \in First(reader[r].todo) :
           IF file[m] = "unseen"
           THEN /\ Becomes(r, [reader[r] EXCEPT !.todo = @ \ {m}, !.got = @ \cup {m}])
                /\ again' = IF \E q \in Readers \ {r} : m \in reader[q].got
                            THEN again \cup {m} ELSE again
           ELSE Becomes(r, [reader[r] EXCEPT !.todo = @ \ {m}]) /\ UNCHANGED again
  BY DEF ReadFile
<1>3. m \in Messages /\ reader[r] \in Record /\ reader[r].mine = {}
  BY <1>1 DEF First, InboxInv, Typed, Record, Shape
<1>4. CASE file[m] # "unseen"
  <2> DEFINE new == [reader[r] EXCEPT !.todo = @ \ {m}]
  <2>1. new \in Record /\ new.pc = "read" /\ new.mine = {} /\ new.got = reader[r].got
    BY <1>1, <1>3 DEF Record
  <2> QED
    BY <1>1, <1>2, <1>3, <1>4, <2>1, Passive
<1>5. CASE file[m] = "unseen"
  <2> DEFINE new == [reader[r] EXCEPT !.todo = @ \ {m}, !.got = @ \cup {m}]
  <2>1. /\ new \in Record /\ new.pc = "read" /\ new.mine = {}
        /\ new.got = reader[r].got \cup {m}
    BY <1>1, <1>3 DEF Record
  <2>2. /\ reader' \in [Readers -> Record] /\ reader'[r] = new
        /\ \A q \in Readers \ {r} : reader'[q] = reader[q]
    BY <1>2, <1>5, <2>1, Update DEF InboxInv
  <2>3. Typed' /\ NothingSwallowed'
    BY <1>1, <1>3, <2>1, <2>2 DEF InboxInv, Typed, NothingSwallowed
  <2>4. ASSUME NEW q \in Readers PROVE Shape(q)'
    <3>1. CASE q = r
      BY <1>1, <1>5, <2>1, <2>2, <3>1 DEF InboxInv, Shape
    <3>2. CASE q # r
      BY <1>1, <2>2, <3>2 DEF InboxInv, Shape
    <3> QED
      BY <3>1, <3>2
  <2>5. ASSUME NEW k \in Messages, k \notin again' PROVE Once(k)'
    <3>1. Once(k)
      BY <1>2, <1>5, <2>5 DEF InboxInv
    <3>2. CASE k # m
      <4>1. \A q \in Readers : k \in reader'[q].got => k \in reader[q].got
        BY <2>1, <2>2, <3>2
      <4>2. ASSUME NEW q \in Readers, reader'[q].pc = "mark", k \in reader'[q].got \ reader'[q].todo
            PROVE  file'[k] = "seen"
        <5>1. q # r
          BY <2>1, <2>2, <4>2
        <5> QED
          BY <1>1, <2>2, <3>1, <4>2, <5>1 DEF Once
      <4> QED
        BY <1>1, <3>1, <4>1, <4>2 DEF Once
    <3>3. CASE k = m
      <4>1. \A q \in Readers \ {r} : m \notin reader[q].got
        BY <1>2, <1>5, <2>5, <3>3
      <4>2. shown[m] <= 1 /\ ~(shown[m] > 0)
        BY <1>5, <3>1, <3>3 DEF Once
      <4> QED
        BY <1>1, <2>1, <2>2, <3>3, <4>1, <4>2 DEF Once
    <3> QED
      BY <3>2, <3>3
  <2> QED
    BY <2>3, <2>4, <2>5 DEF InboxInv
<1> QED
  BY <1>4, <1>5

-----------------------------------------------------------------------------
(* A reader renames a message, or passes one over that it cannot rename.   *)
LEMMA Marks ==
    ASSUME InboxInv, NEW r \in Readers, Mark(r)
    PROVE  InboxInv'
<1>1. reader[r].pc = "mark" /\ UNCHANGED <<shown, cut>>
  BY DEF Mark
<1>2. PICK m \in First(reader[r].todo) :
           \/ /\ file[m] = "unseen"
              /\ file' = [file EXCEPT ![m] = "seen"]
              /\ Becomes(r, [reader[r] EXCEPT !.todo = @ \ {m}, !.mine = @ \cup {m}])
              /\ UNCHANGED <<again, fails>>
           \/ /\ file[m] # "unseen"
              /\ Becomes(r, [reader[r] EXCEPT !.todo = @ \ {m}])
              /\ UNCHANGED <<file, again, fails>>
           \/ /\ again' = again \cup {m}
              /\ Becomes(r, [reader[r] EXCEPT !.todo = @ \ {m}])
              /\ UNCHANGED file
  BY DEF Mark
<1>3. m \in reader[r].todo /\ m \in reader[r].got /\ m \in Messages /\ reader[r] \in Record
  BY <1>1 DEF First, InboxInv, Typed, Record, Shape
<1>4. file[m] \in {"unseen", "seen"}
  BY <1>3 DEF InboxInv, Shape
<1>5. PICK new \in Record :
        /\ Becomes(r, new)
        /\ new.pc = "mark" /\ new.got = reader[r].got /\ new.todo = reader[r].todo \ {m}
        /\ new.mine = reader[r].mine \/ new.mine = reader[r].mine \cup {m}
        /\ file' # file => new.mine = reader[r].mine \cup {m}
  <2> DEFINE one == [reader[r] EXCEPT !.todo = @ \ {m}, !.mine = @ \cup {m}]
             two == [reader[r] EXCEPT !.todo = @ \ {m}]
  <2>1. /\ one \in Record /\ one.pc = "mark" /\ one.got = reader[r].got
        /\ one.todo = reader[r].todo \ {m} /\ one.mine = reader[r].mine \cup {m}
    BY <1>1, <1>3 DEF Record
  <2>2. /\ two \in Record /\ two.pc = "mark" /\ two.got = reader[r].got
        /\ two.todo = reader[r].todo \ {m} /\ two.mine = reader[r].mine
    BY <1>1, <1>3 DEF Record
  <2> QED
    BY <1>2, <2>1, <2>2
<1>6. /\ reader' \in [Readers -> Record] /\ reader'[r] = new
      /\ \A q \in Readers \ {r} : reader'[q] = reader[q]
  BY <1>5, Update DEF InboxInv
<1>7. /\ file' \in Files /\ again \subseteq again'
      /\ \A k \in Messages \ {m} : file'[k] = file[k]
      /\ file'[m] = file[m] \/ file'[m] = "seen"
      /\ m \in again' \/ file'[m] = "seen"
  BY <1>2, <1>3, <1>4 DEF InboxInv, Typed, Files
<1>8. NothingSwallowed'
  <2> SUFFICES ASSUME NEW k \in Messages, file'[k] = "seen"
               PROVE  shown'[k] > 0 \/ k \in cut' \/ \E q \in Readers : k \in reader'[q].mine
    BY DEF NothingSwallowed
  <2>1. \A q \in Readers : reader[q].mine \subseteq reader'[q].mine
    BY <1>5, <1>6
  <2>2. CASE file[k] = "seen"
    BY <1>1, <2>1, <2>2 DEF InboxInv, NothingSwallowed
  <2>3. CASE file[k] # "seen"
    BY <1>5, <1>6, <1>7, <2>3
  <2> QED
    BY <2>2, <2>3
<1>9. ASSUME NEW q \in Readers PROVE Shape(q)'
  <2>1. reader[q].got \subseteq Messages /\ Shape(q)
    BY DEF InboxInv, Typed, Record
  <2>2. \A k \in reader[q].got : file'[k] \in {"unseen", "seen"}
    BY <1>4, <1>7, <2>1 DEF Shape
  <2>3. CASE q = r
    BY <1>1, <1>3, <1>5, <1>6, <2>1, <2>2, <2>3 DEF Shape
  <2>4. CASE q # r
    BY <1>6, <2>1, <2>2, <2>4 DEF Shape
  <2> QED
    BY <2>3, <2>4
<1>10. ASSUME NEW k \in Messages, k \notin again' PROVE Once(k)'
  <2>1. Once(k) /\ (k = m => file'[k] = "seen") /\ (file[k] = "seen" => file'[k] = "seen")
    BY <1>7, <1>10 DEF InboxInv
  <2>2. \A q \in Readers : reader'[q].got = reader[q].got /\ (q # r => reader'[q] = reader[q])
    BY <1>5, <1>6
  <2>3. ASSUME NEW q \in Readers, reader'[q].pc = "mark", k \in reader'[q].got \ reader'[q].todo
        PROVE  file'[k] = "seen"
    BY <1>1, <1>5, <1>6, <2>1, <2>2, <2>3 DEF Once
  <2> QED
    BY <1>1, <2>1, <2>2, <2>3 DEF Once
<1> QED
  BY <1>1, <1>6, <1>7, <1>8, <1>9, <1>10 DEF InboxInv, Typed

-----------------------------------------------------------------------------
(* A reader announces what it holds, or is killed.                         *)
LEMMA Leaves ==
    ASSUME InboxInv, NEW r \in Readers, PrintText(r) \/ Die(r)
    PROVE  InboxInv'
<1>1. NoReader \in Record /\ NoReader.got = {} /\ NoReader.mine = {} /\ NoReader.pc = "idle"
      /\ NoReader.todo = {}
  BY DEF NoReader, Record
<1>2. Becomes(r, NoReader) /\ UNCHANGED <<file, again>>
  BY DEF PrintText, Die
<1>3. /\ reader' \in [Readers -> Record] /\ reader'[r] = NoReader
      /\ \A q \in Readers \ {r} : reader'[q] = reader[q]
  BY <1>1, <1>2, Update DEF InboxInv
<1>4. CASE Die(r)
  <2>1. shown' = shown /\ cut' = cut \cup reader[r].mine
    BY <1>4 DEF Die
  <2>2. NothingSwallowed'
    BY <1>2, <1>3, <2>1 DEF InboxInv, NothingSwallowed
  <2>3. \A q \in Readers : Shape(q)'
    BY <1>1, <1>2, <1>3 DEF InboxInv, Shape
  <2>4. \A m \in Messages : m \in again' \/ Once(m)'
    BY <1>1, <1>2, <1>3, <2>1 DEF InboxInv, Once
  <2> QED
    BY <1>2, <1>3, <2>1, <2>2, <2>3, <2>4 DEF InboxInv, Typed
<1>5. CASE PrintText(r)
  <2>1. /\ shown' = Announced(r) /\ cut' = cut
        /\ reader[r].pc = "mark" /\ reader[r].todo = {}
    BY <1>5 DEF PrintText
  <2>2. /\ shown' \in [Messages -> Nat]
        /\ \A m \in Messages : shown'[m] = shown[m] + (IF m \in reader[r].got THEN 1 ELSE 0)
    BY <2>1 DEF Announced, InboxInv, Typed
  <2>3. NothingSwallowed'
    <3> SUFFICES ASSUME NEW m \in Messages, file'[m] = "seen"
                 PROVE  shown'[m] > 0 \/ m \in cut' \/ \E q \in Readers : m \in reader'[q].mine
      BY DEF NothingSwallowed
    <3>1. shown[m] \in Nat
      BY DEF InboxInv, Typed
    <3>2. CASE m \in reader[r].mine
      BY <2>2, <3>1, <3>2 DEF InboxInv, Shape
    <3>3. CASE m \notin reader[r].mine
      BY <1>2, <1>3, <2>1, <2>2, <3>1, <3>3 DEF InboxInv, NothingSwallowed
    <3> QED
      BY <3>2, <3>3
  <2>4. \A q \in Readers : Shape(q)'
    BY <1>1, <1>2, <1>3 DEF InboxInv, Shape
  <2>5. ASSUME NEW m \in Messages, m \notin again' PROVE Once(m)'
    <3>1. Once(m) /\ shown[m] \in Nat
      BY <1>2, <2>5 DEF InboxInv, Typed
    <3>2. CASE m \in reader[r].got
      <4>1. file[m] = "seen" /\ shown[m] = 0 /\ \A q \in Readers \ {r} : m \notin reader[q].got
        BY <2>1, <3>1, <3>2 DEF Once
      <4> QED
        BY <1>1, <1>2, <1>3, <2>2, <3>2, <4>1 DEF Once
    <3>3. CASE m \notin reader[r].got
      <4>1. shown'[m] = shown[m]
        BY <2>2, <3>1, <3>3
      <4> QED
        BY <1>1, <1>2, <1>3, <3>1, <4>1 DEF Once
    <3> QED
      BY <3>2, <3>3
  <2> QED
    BY <1>2, <1>3, <2>2, <2>3, <2>4, <2>5 DEF InboxInv, Typed
<1> QED
  BY <1>4, <1>5

-----------------------------------------------------------------------------
LEMMA InboxStep ==
    ASSUME InboxInv, [Next]_vars
    PROVE  InboxInv'
<1>1. ASSUME NEW r \in Readers, ListNames(r) \/ NothingUnseen(r) PROVE InboxInv'
  <2> DEFINE listing == [NoReader EXCEPT !.pc = "read",
                             !.todo = {m \in Messages : file[m] \in {"unseen", "torn"}}]
  <2>1. /\ listing \in Record /\ listing.pc = "read" /\ listing.got = {} /\ listing.mine = {}
        /\ NoReader \in Record /\ NoReader.pc = "idle" /\ NoReader.got = {} /\ NoReader.mine = {}
    BY DEF NoReader, Record
  <2>2. /\ Becomes(r, listing) \/ Becomes(r, NoReader)
        /\ UNCHANGED <<file, shown, cut, again>> /\ reader[r].pc # "mark"
    BY <1>1 DEF ListNames, NothingUnseen, counted
  <2>3. reader[r].mine = {}
    BY <2>2 DEF InboxInv, Shape
  <2> QED
    BY <2>1, <2>2, <2>3, Passive
<1>2. ASSUME NEW r \in Readers, Render(r) PROVE InboxInv'
  <2> DEFINE batch == IF r \in Hooks THEN Oldest(reader[r].got) ELSE reader[r].got
             new   == [reader[r] EXCEPT !.pc = "mark", !.todo = batch, !.got = batch]
  <2>1. batch \subseteq reader[r].got /\ reader[r] \in Record
    BY DEF Oldest, InboxInv, Typed
  <2>2. reader[r].mine = {}
    BY <1>2 DEF Render, InboxInv, Shape
  <2>3. /\ new \in Record /\ new.pc = "mark" /\ new.todo = batch /\ new.got = batch
        /\ new.mine = {}
    BY <2>1, <2>2 DEF Record
  <2>4. Becomes(r, new) /\ UNCHANGED <<file, shown, cut, again>>
    BY <1>2 DEF Render, counted
  <2> QED
    BY <2>1, <2>2, <2>3, <2>4, Passive
<1>3. CASE UNCHANGED vars
  BY <1>3 DEF vars, counted, InboxInv, Typed, Shape, Once, NothingSwallowed
<1> QED
  BY <1>1, <1>2, <1>3, SendStep, Reads, Marks, Leaves DEF Next, Step

LEMMA InboxInvariant == Spec => []InboxInv
BY InboxInit, InboxStep, PTL DEF Spec

(* A message marked seen was announced, or is about to be, or the process  *)
(* that marked it was killed (mark_seen comes before the text is printed). *)
THEOREM SeenIsAnnounced == Spec => []NothingSwallowed
<1>1. InboxInv => NothingSwallowed
  BY DEF InboxInv
<1> QED
  BY <1>1, InboxInvariant, PTL

(* No message is announced twice unless two processes read it before       *)
(* either renamed it, or a rename failed: a kill never repeats one.        *)
THEOREM NeverAnnouncedTwice == Spec => []AnnouncedOnce
<1>1. InboxInv => AnnouncedOnce
  BY DEF InboxInv, Typed, Once, AnnouncedOnce
<1> QED
  BY <1>1, InboxInvariant, PTL
=============================================================================
