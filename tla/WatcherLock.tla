------------------------------ MODULE WatcherLock ------------------------------
(***************************************************************************)
(* The singleton lock of the resident watcher: several stax start          *)
(* processes, the file <app_dir>/server.lock, and the watcher threads.     *)
(*                                                                         *)
(* The file system is modelled as far as flock needs it: a path that names *)
(* an inode or nothing, and a lock per inode, which goes when the process  *)
(* closes the file or dies.  A process is one run of stax start; its pid   *)
(* is not used again.                                                      *)
(***************************************************************************)
EXTENDS Integers

CONSTANTS
    Procs,          \* stax start processes
    Unlocked,       \* those of them started with --no-lock
    NoProc,         \* no process: a free lock, a blank file
    MaxInodes       \* bound: times the file is created

None == 0           \* no inode

Inodes == 1..MaxInodes

ASSUME LockAssumption ==
    /\ MaxInodes \in Nat
    /\ Unlocked \subseteq Procs
    /\ NoProc \notin Procs

VARIABLES
    path,       \* inode server.lock names, or None
    created,    \* inodes created so far
    text,       \* [Inodes -> the pid recorded in it, or NoProc]
    holder,     \* [Inodes -> process that holds its flock, or NoProc]
    fd,         \* [Procs -> inode the process has open, or None]
    pc,         \* [Procs -> statement to execute next]
    running,    \* processes whose watcher thread runs
    dropped     \* history: some LockHandle was dropped

disk == <<path, created, text>>
vars == <<disk, holder, fd, pc, running, dropped>>

Alive(p) == pc[p] \notin {"new", "gone"}

Init ==
    /\ path = None
    /\ created = 0
    /\ text = [i \in Inodes |-> NoProc]
    /\ holder = [i \in Inodes |-> NoProc]
    /\ fd = [p \in Procs |-> None]
    /\ pc = [p \in Procs |-> "new"]
    /\ running = {}
    /\ dropped = FALSE

Goto(p, label) == pc' = [pc EXCEPT ![p] = label]

(* The file is created empty if it is not there.                           *)
Create ==
    IF path = None
    THEN created < MaxInodes /\ path' = created + 1 /\ created' = created + 1
    ELSE UNCHANGED <<path, created>>

-----------------------------------------------------------------------------
(* acquire_watcher_lock.                                                   *)

StartUnlocked(p) ==
    /\ pc[p] = "new" /\ p \in Unlocked
    /\ Goto(p, "spawn")
    /\ UNCHANGED <<disk, holder, fd, running, dropped>>

(* The recorded pid is read; if its process is gone, the file is blanked.  *)
Peek(p) ==
    /\ pc[p] = "new" /\ p \notin Unlocked
    /\ LET pid == IF path = None THEN NoProc ELSE text[path]
       IN  Goto(p, IF pid # NoProc /\ ~Alive(pid) THEN "blank" ELSE "open")
    /\ UNCHANGED <<disk, holder, fd, running, dropped>>

BlankRemoves(p) ==               \* mutant: the stale file is removed
    /\ pc[p] = "blank"
    /\ path' = None
    /\ Goto(p, "open")
    /\ UNCHANGED <<created, text, holder, fd, running, dropped>>

Blank(p) ==
    /\ pc[p] = "blank"
    /\ Create
    /\ text' = [text EXCEPT ![path'] = NoProc]
    /\ Goto(p, "open")
    /\ UNCHANGED <<holder, fd, running, dropped>>

Open(p) ==
    /\ pc[p] = "open"
    /\ Create
    /\ fd' = [fd EXCEPT ![p] = path']
    /\ Goto(p, "lock")
    /\ UNCHANGED <<text, holder, running, dropped>>

TryLock(p) ==
    /\ pc[p] = "lock"
    /\ holder[fd[p]] = NoProc
    /\ holder' = [holder EXCEPT ![fd[p]] = p]
    /\ Goto(p, "write")
    /\ UNCHANGED <<disk, fd, running, dropped>>

(* WouldBlock: the server runs without a watcher.                          *)
Refused(p) ==
    /\ pc[p] = "lock"
    /\ holder[fd[p]] # NoProc
    /\ fd' = [fd EXCEPT ![p] = None]
    /\ Goto(p, "serve")
    /\ UNCHANGED <<disk, holder, running, dropped>>

(* A failure to write the pid keeps the lock, and may leave the file blank *)
(* or as it was.                                                           *)
WriteMetadata(p) ==
    /\ pc[p] = "write"
    /\ \E t \in {p, NoProc, text[fd[p]]} : text' = [text EXCEPT ![fd[p]] = t]
    /\ Goto(p, "spawn")
    /\ UNCHANGED <<path, created, holder, fd, running, dropped>>

-----------------------------------------------------------------------------
(* resident_watcher and the end of boot.                                   *)

StartWatcher(p) ==
    /\ pc[p] = "spawn"
    /\ running' = running \cup {p}
    /\ Goto(p, "watch")
    /\ UNCHANGED <<disk, holder, fd, dropped>>

(* The pricing engine or the watcher does not start, or the server exits:  *)
(* what resident_watcher returned, or holds, is dropped.                   *)
Release(p) ==
    /\ pc[p] \in {"spawn", "watch"}
    /\ Goto(p, IF fd[p] # None THEN "close" ELSE "join")
    /\ UNCHANGED <<disk, holder, fd, running, dropped>>

Unlock(p) == holder' = [i \in Inodes |-> IF holder[i] = p THEN NoProc ELSE holder[i]]

CloseCopyLeft(p) ==              \* mutant: a copy of the descriptor stays open
    /\ pc[p] = "close"
    /\ fd' = [fd EXCEPT ![p] = None]
    /\ dropped' = TRUE
    /\ Goto(p, "remove")
    /\ UNCHANGED <<disk, holder, running>>

(* LockHandle::drop: the file is closed, and then the path removed.        *)
CloseFile(p) ==
    /\ pc[p] = "close"
    /\ Unlock(p)
    /\ fd' = [fd EXCEPT ![p] = None]
    /\ dropped' = TRUE
    /\ Goto(p, "remove")
    /\ UNCHANGED <<disk, running>>

RemoveNothing(p) ==              \* mutant: the file is left behind
    /\ pc[p] = "remove"
    /\ Goto(p, "join")
    /\ UNCHANGED <<disk, holder, fd, running, dropped>>

RemoveFile(p) ==
    /\ pc[p] = "remove"
    /\ path' = None
    /\ Goto(p, "join")
    /\ UNCHANGED <<created, text, holder, fd, running, dropped>>

(* WatcherHandle::drop: the thread is told to stop, and joined.  A start   *)
(* that failed goes on serving, without a lock.                            *)
Join(p) ==
    /\ pc[p] = "join"
    /\ running' = running \ {p}
    /\ Goto(p, IF p \in running THEN "gone" ELSE "serve")
    /\ UNCHANGED <<disk, holder, fd, dropped>>

(* The process is killed; the kernel closes its files.                     *)
Die(p) ==
    /\ Alive(p)
    /\ Unlock(p)
    /\ fd' = [fd EXCEPT ![p] = None]
    /\ running' = running \ {p}
    /\ Goto(p, "gone")
    /\ UNCHANGED <<disk, dropped>>

Step(p) ==
    \/ StartUnlocked(p) \/ Peek(p) \/ Blank(p) \/ Open(p)
    \/ TryLock(p) \/ Refused(p) \/ WriteMetadata(p)
    \/ StartWatcher(p) \/ Release(p) \/ CloseFile(p) \/ RemoveFile(p) \/ Join(p)
    \/ Die(p)

Next == \E p \in Procs : Step(p)

Spec == Init /\ [][Next]_vars

-----------------------------------------------------------------------------
(* Properties.                                                             *)

Labels == {"new", "blank", "open", "lock", "write", "spawn", "watch", "serve",
           "close", "remove", "join", "gone"}

(* Every variable has its type; only an open file is locked.               *)
TypeOK ==
    /\ path \in 0..created /\ created \in 0..MaxInodes
    /\ text \in [Inodes -> Procs \cup {NoProc}]
    /\ holder \in [Inodes -> Procs \cup {NoProc}]
    /\ \A i \in Inodes : holder[i] # NoProc => fd[holder[i]] = i
    /\ fd \in [Procs -> Inodes \cup {None}]
    /\ pc \in [Procs -> Labels]
    /\ running \subseteq Procs
    /\ dropped \in BOOLEAN

Watching == running \ Unlocked

(* As long as no handle has been dropped, whatever processes are killed,   *)
(* start late or find a stale file, one watcher runs, and it runs under    *)
(* the lock of the file that bears the name.                               *)
SingleUntilDropped ==
    ~dropped => /\ \A p, q \in Watching : p = q
                /\ \A p \in Watching : fd[p] = path /\ path # None /\ holder[path] = p

(* A pid shown as the holder is dead, or it holds the lock of that file,   *)
(* or it is about to remove it.                                            *)
DisplayHonest ==
    path # None /\ text[path] # NoProc /\ Alive(text[path]) =>
        holder[path] = text[path] \/ pc[text[path]] = "remove"
=============================================================================
