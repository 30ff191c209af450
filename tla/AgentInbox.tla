----------------------------- MODULE AgentInbox -----------------------------
(***************************************************************************)
(* The agent inbox: messages that other machines leave as files, and the   *)
(* processes that announce them.                                           *)
(*                                                                         *)
(* stax msg send writes a file over ssh.  The injection hooks, which the   *)
(* coding agent spawns at every prompt and tool call, announce the unseen  *)
(* ones, at most MaxInject at a time; stax msg inbox --ack announces all.  *)
(* A message is seen once its file is renamed.  No lock is taken anywhere. *)
(*                                                                         *)
(* Messages are numbered in the order of their paths, in which they are    *)
(* listed: by sender first, then by id.  They arrive in any order.  What a *)
(* reader does without renaming (inbox, inbox --all, --json) is left out,  *)
(* and so is the memory text that shares the hook's output.                *)
(***************************************************************************)
EXTENDS Integers, FiniteSets

CONSTANTS
    Messages,       \* message files, as numbers in the order of their paths
    Hooks,          \* hook processes, one after the other under each name
    Ackers,         \* runs of stax msg inbox --ack
    MaxInject,      \* MAX_INJECT
    MaxKills,       \* bound: processes killed
    MaxFails        \* bound: renames that fail for no reason of the inbox

ASSUME InboxAssumption ==
    /\ Messages \subseteq Nat /\ IsFiniteSet(Messages)
    /\ Hooks \cap Ackers = {}
    /\ MaxInject \in Nat \ {0}
    /\ MaxKills \in Nat /\ MaxFails \in Nat

Readers == Hooks \cup Ackers

VARIABLES
    file,       \* [Messages -> what is there]
    reader,     \* [Readers -> state of the process]
    shown,      \* history: [Messages -> times it was announced]
    again,      \* history: messages two processes had read at the same time, or
                \* whose rename failed
    cut,        \* history: messages renamed by a process killed before it printed
    kills, fails

counted == <<shown, again, cut>>
vars    == <<file, reader, counted, kills, fails>>

(* todo: files listed and not read, then those to rename; got: messages    *)
(* read, then those to announce; mine: those it renamed.                   *)
NoReader == [pc |-> "idle", todo |-> {}, got |-> {}, mine |-> {}]

Init ==
    /\ file = [m \in Messages |-> "none"]
    /\ reader = [r \in Readers |-> NoReader]
    /\ shown = [m \in Messages |-> 0]
    /\ again = {} /\ cut = {}
    /\ kills = 0 /\ fails = 0

-----------------------------------------------------------------------------
(* stax msg send: mkdir, cat into a .part file, and mv.                    *)

WritePart(m) ==
    /\ file[m] = "none"
    /\ file' = [file EXCEPT ![m] = "part"]
    /\ UNCHANGED <<reader, counted, kills, fails>>

(* When the connection breaks, cat sees the end of its input and what has  *)
(* come so far may be moved into place.  A sender killed before leaves the *)
(* .part file there for good.                                              *)
MovePart(m) ==
    /\ file[m] = "part"
    /\ \E whole \in {"unseen", "torn"} : file' = [file EXCEPT ![m] = whole]
    /\ UNCHANGED <<reader, counted, kills, fails>>

-----------------------------------------------------------------------------
First(S) == {m \in S : \A k \in S : m <= k}

Becomes(r, new) == reader' = [reader EXCEPT ![r] = new]

(* list_messages: the names, then the files in order.                      *)

ListNames(r) ==
    /\ reader[r].pc = "idle"
    /\ Becomes(r, [NoReader EXCEPT
                      !.pc = "read", !.todo = {m \in Messages : file[m] \in {"unseen", "torn"}}])
    /\ UNCHANGED <<file, counted, kills, fails>>

ReadFileOrStop(r) ==             \* mutant: a message that cannot be parsed ends the listing
    /\ reader[r].pc = "read"
    /\ \E m \in First(reader[r].todo) :
           IF file[m] = "unseen"
           THEN /\ Becomes(r, [reader[r] EXCEPT !.todo = @ \ {m}, !.got = @ \cup {m}])
                /\ again' = IF \E q \in Readers \ {r} : m \in reader[q].got
                            THEN again \cup {m} ELSE again
           ELSE Becomes(r, [reader[r] EXCEPT !.todo = {}]) /\ UNCHANGED again
    /\ UNCHANGED <<file, shown, cut, kills, fails>>

(* A file that was renamed since, or cannot be parsed, is passed over.     *)
ReadFile(r) ==
    /\ reader[r].pc = "read"
    /\ \E m \in First(reader[r].todo) :
           IF file[m] = "unseen"
           THEN /\ Becomes(r, [reader[r] EXCEPT !.todo = @ \ {m}, !.got = @ \cup {m}])
                /\ again' = IF \E q \in Readers \ {r} : m \in reader[q].got
                            THEN again \cup {m} ELSE again
           ELSE Becomes(r, [reader[r] EXCEPT !.todo = @ \ {m}]) /\ UNCHANGED again
    /\ UNCHANGED <<file, shown, cut, kills, fails>>

-----------------------------------------------------------------------------
(* render_for_injection and run_inbox.                                     *)

NothingUnseen(r) ==
    /\ reader[r].pc = "read" /\ reader[r].todo = {} /\ reader[r].got = {}
    /\ Becomes(r, NoReader)
    /\ UNCHANGED <<file, counted, kills, fails>>

Oldest(S) == {m \in S : Cardinality({k \in S : k < m}) < MaxInject}

RenderMarkingAll(r) ==           \* mutant: the hook marks what it leaves for later
    /\ reader[r].pc = "read" /\ reader[r].todo = {} /\ reader[r].got # {}
    /\ Becomes(r, [reader[r] EXCEPT !.pc = "mark", !.todo = reader[r].got,
                                    !.got = IF r \in Hooks THEN Oldest(@) ELSE @])
    /\ UNCHANGED <<file, counted, kills, fails>>

(* The text is put together, a hook's for the first MaxInject messages.    *)
Render(r) ==
    /\ reader[r].pc = "read" /\ reader[r].todo = {} /\ reader[r].got # {}
    /\ LET batch == IF r \in Hooks THEN Oldest(reader[r].got) ELSE reader[r].got
       IN  Becomes(r, [reader[r] EXCEPT !.pc = "mark", !.todo = batch, !.got = batch])
    /\ UNCHANGED <<file, counted, kills, fails>>

(* mark_seen: one rename after the other.  One that fails is passed over,  *)
(* because another process renamed the file, or for no reason of ours.     *)
Mark(r) ==
    /\ reader[r].pc = "mark"
    /\ \E m \in First(reader[r].todo) :
           \/ /\ file[m] = "unseen"
              /\ file' = [file EXCEPT ![m] = "seen"]
              /\ Becomes(r, [reader[r] EXCEPT !.todo = @ \ {m}, !.mine = @ \cup {m}])
              /\ UNCHANGED <<again, fails>>
           \/ /\ file[m] # "unseen"
              /\ Becomes(r, [reader[r] EXCEPT !.todo = @ \ {m}])
              /\ UNCHANGED <<file, again, fails>>
           \/ /\ fails < MaxFails /\ fails' = fails + 1
              /\ again' = again \cup {m}
              /\ Becomes(r, [reader[r] EXCEPT !.todo = @ \ {m}])
              /\ UNCHANGED file
    /\ UNCHANGED <<shown, cut, kills>>

Announced(r) == [m \in Messages |-> shown[m] + (IF m \in reader[r].got THEN 1 ELSE 0)]

PrintFirst(r) ==                 \* mutant: printed first, then marked
    /\ reader[r].pc = "mark"
    /\ reader[r].got # {} \/ reader[r].todo = {}
    /\ shown' = Announced(r)
    /\ Becomes(r, IF reader[r].todo = {} THEN NoReader ELSE [reader[r] EXCEPT !.got = {}])
    /\ UNCHANGED <<file, again, cut, kills, fails>>

(* main writes what the hook returned, click what the command returned.    *)
PrintText(r) ==
    /\ reader[r].pc = "mark" /\ reader[r].todo = {}
    /\ shown' = Announced(r)
    /\ Becomes(r, NoReader)
    /\ UNCHANGED <<file, again, cut, kills, fails>>

(* The agent kills a hook that takes too long, the user a command.         *)
Die(r) ==
    /\ reader[r].pc # "idle"
    /\ kills < MaxKills /\ kills' = kills + 1
    /\ cut' = cut \cup reader[r].mine
    /\ Becomes(r, NoReader)
    /\ UNCHANGED <<file, shown, again, fails>>

-----------------------------------------------------------------------------
Send == \E m \in Messages : WritePart(m) \/ MovePart(m)

Step(r) ==
    ListNames(r) \/ ReadFile(r) \/ NothingUnseen(r) \/ Render(r) \/ Mark(r) \/ PrintText(r)

Next == Send \/ \E r \in Readers : Step(r) \/ Die(r)

Spec == Init /\ [][Next]_vars

(* The agent goes on working, and so spawns hooks; a command that was      *)
(* begun goes on.                                                          *)
FairSpec ==
    /\ Spec
    /\ \A r \in Hooks : WF_vars(Step(r))
    /\ \A r \in Ackers : WF_vars(Step(r) /\ reader[r].pc # "idle")

-----------------------------------------------------------------------------
(* Properties.                                                             *)

(* Every variable has its type, and what is renamed is announced.          *)
TypeOK ==
    /\ file \in [Messages -> {"none", "part", "torn", "unseen", "seen"}]
    /\ DOMAIN reader = Readers
    /\ \A r \in Readers :
         /\ reader[r].pc \in {"idle", "read", "mark"}
         /\ reader[r].todo \subseteq Messages /\ reader[r].got \subseteq Messages
         /\ reader[r].pc = "mark" => reader[r].todo \subseteq reader[r].got
         /\ reader[r].mine \subseteq reader[r].got \ reader[r].todo
    /\ shown \in [Messages -> Nat]
    /\ again \subseteq Messages /\ cut \subseteq Messages
    /\ kills \in 0..MaxKills /\ fails \in 0..MaxFails

(* A message that is marked seen was announced, or is about to be by the   *)
(* process that marked it - or that process was killed in between, which   *)
(* is the one way to lose a message.                                       *)
NothingSwallowed ==
    \A m \in Messages : file[m] = "seen" =>
        shown[m] > 0 \/ m \in cut \/ \E r \in Readers : m \in reader[r].mine

(* A message is announced once - unless two processes had read it before   *)
(* either marked it, or the rename failed.  No kill makes it appear again. *)
AnnouncedOnce == \A m \in Messages : shown[m] > 1 => m \in again

(* However much arrives, however it is split over the hooks, and whatever  *)
(* unreadable files lie before it, every message is announced in the end,  *)
(* or lost with a killed process.                                          *)
EventuallyShown == \A m \in Messages : file[m] = "unseen" ~> shown[m] > 0 \/ m \in cut
=============================================================================
