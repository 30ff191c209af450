--------------------------- MODULE WatcherLockProofs ---------------------------
(***************************************************************************)
(* Proofs that, for any number of processes, one watcher runs as long as   *)
(* no LockHandle has been dropped, and that the pid on display is true.    *)
(***************************************************************************)
EXTENDS WatcherLock, TLAPS

(* Where a process is in the code tells what it holds.                     *)
Holds(p) == fd[p] # None /\ holder[fd[p]] = p

Consistent(p) ==
    /\ pc[p] = "lock" => fd[p] # None
    /\ pc[p] \in {"write", "close"} => Holds(p)
    /\ pc[p] \in {"spawn", "watch"} /\ p \notin Unlocked => Holds(p)
    /\ \A i \in Inodes : holder[i] = p => pc[p] \in {"write", "spawn", "watch", "close"}
    /\ p \in Unlocked => /\ fd[p] = None
                        /\ pc[p] \in {"new", "spawn", "watch", "join", "serve", "gone"}
    /\ p \in Watching => pc[p] \in {"watch", "close", "remove", "join"}
    /\ pc[p] = "remove" => dropped
    /\ pc[p] = "join" /\ p \notin Unlocked => dropped
    /\ ~dropped => fd[p] \in {None, path}

LockInv == TypeOK /\ \A p \in Procs : Consistent(p)

LEMMA InitLock == Init => LockInv
<1> SUFFICES ASSUME Init PROVE LockInv
  OBVIOUS
<1>1. TypeOK
  <2>1. path \in 0..created /\ created \in 0..MaxInodes
    BY LockAssumption DEF Init, None
  <2>2. \A i \in Inodes : holder[i] = NoProc
    BY DEF Init
  <2>3. text \in [Inodes -> Procs \cup {NoProc}] /\ holder \in [Inodes -> Procs \cup {NoProc}]
    BY DEF Init
  <2>4. fd \in [Procs -> Inodes \cup {None}] /\ pc \in [Procs -> Labels]
    BY DEF Init, Labels
  <2> QED
    BY <2>1, <2>2, <2>3, <2>4 DEF Init, TypeOK
<1>2. ASSUME NEW p \in Procs PROVE Consistent(p)
  BY LockAssumption DEF Init, Consistent, Watching, None, Inodes
<1> QED
  BY <1>1, <1>2 DEF LockInv

LEMMA StepLock == ASSUME LockInv, NEW r \in Procs, Step(r) PROVE LockInv'
<1> USE LockAssumption DEF None, Inodes, Labels, disk, Goto
<1>1. CASE StartUnlocked(r)
  BY <1>1 DEF LockInv, TypeOK, Consistent, Holds, Watching, StartUnlocked
<1>2. CASE Peek(r)
  BY <1>2 DEF LockInv, TypeOK, Consistent, Holds, Watching, Peek
<1>3. CASE Blank(r)
  BY <1>3 DEF LockInv, TypeOK, Consistent, Holds, Watching, Blank, Create
<1>4. CASE Open(r)
  BY <1>4 DEF LockInv, TypeOK, Consistent, Holds, Watching, Open, Create
<1>5. CASE TryLock(r)
  BY <1>5 DEF LockInv, TypeOK, Consistent, Holds, Watching, TryLock
<1>6. CASE Refused(r)
  BY <1>6 DEF LockInv, TypeOK, Consistent, Holds, Watching, Refused
<1>7. CASE WriteMetadata(r)
  BY <1>7 DEF LockInv, TypeOK, Consistent, Holds, Watching, WriteMetadata
<1>8. CASE StartWatcher(r)
  BY <1>8 DEF LockInv, TypeOK, Consistent, Holds, Watching, StartWatcher
<1>9. CASE Release(r)
  BY <1>9 DEF LockInv, TypeOK, Consistent, Holds, Watching, Release
<1>10. CASE CloseFile(r)
  BY <1>10 DEF LockInv, TypeOK, Consistent, Holds, Watching, CloseFile, Unlock
<1>11. CASE RemoveFile(r)
  BY <1>11 DEF LockInv, TypeOK, Consistent, Holds, Watching, RemoveFile
<1>12. CASE Join(r)
  BY <1>12 DEF LockInv, TypeOK, Consistent, Holds, Watching, Join
<1>13. CASE Die(r)
  BY <1>13 DEF LockInv, TypeOK, Consistent, Holds, Watching, Die, Unlock, Alive
<1> QED
  BY <1>1, <1>2, <1>3, <1>4, <1>5, <1>6, <1>7, <1>8, <1>9, <1>10, <1>11, <1>12, <1>13 DEF Step

LEMMA StutterLock == LockInv /\ UNCHANGED vars => LockInv'
  BY DEF LockInv, TypeOK, Consistent, Holds, Watching, vars, disk

(* Until a handle is dropped, every open file is the one server.lock names *)
(* and its flock has one holder: two watchers would both hold it.          *)
LEMMA SingleFromInv == LockInv => SingleUntilDropped
  BY DEF LockInv, TypeOK, Consistent, Holds, Watching, SingleUntilDropped, None

(* Type correctness, and with it that only open files are locked.          *)
THEOREM LockTypeCorrect == Spec => []TypeOK
<1>1. LockInv /\ [Next]_vars => LockInv'
  BY StepLock, StutterLock DEF Next
<1>2. LockInv => TypeOK
  BY DEF LockInv
<1> QED
  BY InitLock, <1>1, <1>2, PTL DEF Spec

(* However many processes start, stall or are killed, and whatever stale   *)
(* file they find, one watcher runs until a LockHandle is dropped.         *)
THEOREM OneWatcher == Spec => []SingleUntilDropped
<1>1. LockInv /\ [Next]_vars => LockInv'
  BY StepLock, StutterLock DEF Next
<1> QED
  BY InitLock, <1>1, SingleFromInv, PTL DEF Spec
-----------------------------------------------------------------------------
(* The pid on display.  A pid is written under the lock, into a file that  *)
(* was created before, by a process that has begun.                        *)
Written ==
    /\ \A p \in Procs : fd[p] <= created
    /\ \A i \in Inodes : text[i] # NoProc => i <= created /\ pc[text[i]] # "new"

DisplayInv == LockInv /\ Written /\ DisplayHonest

LEMMA InitDisplay == Init => DisplayInv
<1> SUFFICES ASSUME Init PROVE DisplayInv
  OBVIOUS
<1>1. Written /\ DisplayHonest
  BY LockAssumption DEF Init, Written, DisplayHonest, None
<1> QED
  BY <1>1, InitLock DEF DisplayInv

LEMMA StepDisplay == ASSUME DisplayInv, NEW r \in Procs, Step(r) PROVE DisplayInv'
<1> USE LockAssumption DEF None, Inodes, Labels, disk, Goto
<1>0. LockInv /\ LockInv' /\ Written /\ DisplayHonest
  BY StepLock DEF DisplayInv
<1> DEFINE Kept == Written' /\ DisplayHonest'
<1>1. ASSUME StartUnlocked(r) PROVE Kept
  BY <1>0, <1>1 DEF LockInv, TypeOK, Consistent, Holds, Written, DisplayHonest, Alive, StartUnlocked
<1>2. ASSUME Peek(r) PROVE Kept
  BY <1>0, <1>2 DEF LockInv, TypeOK, Consistent, Holds, Written, DisplayHonest, Alive, Peek
<1>3. ASSUME Blank(r) PROVE Kept
  BY <1>0, <1>3 DEF LockInv, TypeOK, Consistent, Holds, Written, DisplayHonest, Alive, Blank, Create
<1>4. ASSUME Open(r) PROVE Kept
  BY <1>0, <1>4 DEF LockInv, TypeOK, Consistent, Holds, Written, DisplayHonest, Alive, Open, Create
<1>5. ASSUME TryLock(r) PROVE Kept
  BY <1>0, <1>5 DEF LockInv, TypeOK, Consistent, Holds, Written, DisplayHonest, Alive, TryLock
<1>6. ASSUME Refused(r) PROVE Kept
  BY <1>0, <1>6 DEF LockInv, TypeOK, Consistent, Holds, Written, DisplayHonest, Alive, Refused
<1>7. ASSUME WriteMetadata(r) PROVE Kept
  BY <1>0, <1>7 DEF LockInv, TypeOK, Consistent, Holds, Written, DisplayHonest, Alive, WriteMetadata
<1>8. ASSUME StartWatcher(r) PROVE Kept
  BY <1>0, <1>8 DEF LockInv, TypeOK, Consistent, Holds, Written, DisplayHonest, Alive, StartWatcher
<1>9. ASSUME Release(r) PROVE Kept
  BY <1>0, <1>9 DEF LockInv, TypeOK, Consistent, Holds, Written, DisplayHonest, Alive, Release
<1>10. ASSUME CloseFile(r) PROVE Kept
  BY <1>0, <1>10 DEF LockInv, TypeOK, Consistent, Holds, Written, DisplayHonest, Alive, CloseFile, Unlock
<1>11. ASSUME RemoveFile(r) PROVE Kept
  BY <1>0, <1>11 DEF LockInv, TypeOK, Consistent, Holds, Written, DisplayHonest, Alive, RemoveFile
<1>12. ASSUME Join(r) PROVE Kept
  BY <1>0, <1>12 DEF LockInv, TypeOK, Consistent, Holds, Written, DisplayHonest, Alive, Join
<1>13. ASSUME Die(r) PROVE Kept
  BY <1>0, <1>13 DEF LockInv, TypeOK, Consistent, Holds, Written, DisplayHonest, Alive, Die, Unlock
<1>14. Kept
  BY <1>1, <1>2, <1>3, <1>4, <1>5, <1>6, <1>7, <1>8, <1>9, <1>10, <1>11, <1>12, <1>13 DEF Step
<1> QED
  BY <1>0, <1>14 DEF DisplayInv

(* The pid in server.lock is that of a process that is gone, that holds    *)
(* the lock of the file, or that is about to remove it, whatever is killed *)
(* and in whatever order handles are dropped.                              *)
THEOREM DisplayTellsTheTruth == Spec => []DisplayHonest
<1>1. DisplayInv /\ UNCHANGED vars => DisplayInv'
  BY StutterLock DEF DisplayInv, Written, DisplayHonest, Alive, vars, disk
<1>2. DisplayInv /\ [Next]_vars => DisplayInv'
  BY StepDisplay, <1>1 DEF Next
<1>3. DisplayInv => DisplayHonest
  BY DEF DisplayInv
<1> QED
  BY InitDisplay, <1>2, <1>3, PTL DEF Spec
=============================================================================
