----------------------------- MODULE UserStore -----------------------------
(***************************************************************************)
(* auth.FileStore: users.json, shared by the threads of the hub and by     *)
(* oob-manage, which is a process of its own.  A process keeps nothing of  *)
(* the table in memory: every operation reads the whole file, and one that *)
(* changes it writes a temporary file and renames it into place.           *)
(*                                                                         *)
(* Within a process the operations are ordered by an RWMutex, between      *)
(* processes the changing ones by flock on a lock file.  Both are held     *)
(* from one program point to another, so who holds them is read off pc.    *)
(* A file is an inode; a path is a variable that names one, or NoInode.    *)
(***************************************************************************)
EXTENDS Naturals

CONSTANTS
    Procs,       \* the processes: the hub, and runs of oob-manage
    Threads,     \* their threads
    ProcOf,      \* the process of each thread
    Users,       \* the user names
    Absent,      \* the entry of a name that has no user
    Passwords,   \* the passwords
    Unhashable,  \* those that bcrypt refuses (more than 72 bytes)
    Requests,    \* the operations with their arguments
    NoRequest,   \* the op of an idle thread
    Inodes,      \* files on disk
    NoInode,     \* a path that does not exist, a descriptor not in use
    Partial,     \* the content of a file that is not yet whole
    Installed,   \* users.json is there at the start
    DiskFails,   \* writes and renames may fail
    MaxCalls,    \* bound on the calls of a behaviour
    MaxCrashes   \* bound on its crashes

Entries == [password : Passwords, locked : BOOLEAN, force : BOOLEAN,
            seen : BOOLEAN]

Tables == [Users -> Entries \cup {Absent}]

Answers == [code : {"none", "ok", "yes", "no", "failed", "error"},
            list : Tables]

\* A request's password only means something to auth, add, reset and set.
Readers  == {"auth", "must", "list"}
Changing == {"add", "remove", "lock", "unlock", "touch", "reset", "set"}

ASSUME StoreAssumption ==
    /\ ProcOf \in [Threads -> Procs]
    /\ Unhashable \subseteq Passwords
    /\ Requests \subseteq [kind : Readers \cup Changing, user : Users,
                           password : Passwords]
    /\ NoRequest \notin Requests
    /\ Inodes # {} /\ NoInode \notin Inodes
    /\ Absent \notin Entries
    /\ Partial \notin Tables
    /\ {Installed, DiskFails} \subseteq BOOLEAN
    /\ {MaxCalls, MaxCrashes} \subseteq Nat

VARIABLES
    up,       \* the processes whose store is open
    pc,       \* where each thread is
    op,       \* its operation; NoRequest while NewFileStore runs
    fd,       \* the file it has open
    buf,      \* the table it has read, and then changed
    answer,   \* what its operation returns
    main,     \* users.json
    tmp,      \* users.json.tmp
    disk,     \* the content of every file
    calls, crashes

threadVars == <<pc, op, fd, buf, answer>>
fileVars   == <<main, tmp, disk>>
bounds     == <<calls, crashes>>
vars       == <<up, threadVars, fileVars, bounds>>

-----------------------------------------------------------------------------

Empty == [u \in Users |-> Absent]

\* The answer's list is that of List, and empty for every other operation.
Says(code) == [code |-> code, list |-> Empty]

\* A thread between two calls, or of a process that is gone.
IdleThread(t) ==
    /\ pc' = [pc EXCEPT ![t] = "idle"]
    /\ op' = [op EXCEPT ![t] = NoRequest]
    /\ fd' = [fd EXCEPT ![t] = NoInode]
    /\ buf' = [buf EXCEPT ![t] = Empty]
    /\ answer' = [answer EXCEPT ![t] = Says("none")]

FirstInode == CHOOSE i \in Inodes : TRUE

Init ==
    /\ up = {}
    /\ pc = [t \in Threads |-> "idle"]
    /\ op = [t \in Threads |-> NoRequest]
    /\ fd = [t \in Threads |-> NoInode]
    /\ buf = [t \in Threads |-> Empty]
    /\ answer = [t \in Threads |-> Says("none")]
    /\ main = IF Installed THEN FirstInode ELSE NoInode
    /\ disk = [i \in Inodes |->
                  IF Installed /\ i = FirstInode THEN Empty ELSE Partial]
    /\ tmp = NoInode
    /\ calls = 0
    /\ crashes = 0

Writing(t) == op[t] # NoRequest /\ op[t].kind \in Changing
Reading(t) == op[t] # NoRequest /\ op[t].kind \in Readers

\* s.mu is held exclusively, or shared, from Lock or RLock to the return.
HasMutex(t) == pc[t] \notin {"idle", "call"} /\ Writing(t)
HasShare(t) == pc[t] \notin {"idle", "call"} /\ Reading(t)

\* The file lock is held from Flock to the return.
HasFlock(t) == HasMutex(t) /\ pc[t] # "flock"

Mates(t) == {o \in Threads \ {t} : ProcOf[o] = ProcOf[t]}

Goto(t, label) == pc' = [pc EXCEPT ![t] = label]

\* The operation has its answer; what is left is to unlock and return.
Finish(t, reply) ==
    /\ Goto(t, "return")
    /\ answer' = [answer EXCEPT ![t] = reply]

-----------------------------------------------------------------------------
(* Seeded faults.  Each is the definition it is named after with a         *)
(* plausible mistake in it.                                                *)

\* The processes have no lock in common.
TakeFlock_Skipped(t) ==
    /\ pc[t] = "flock"
    /\ Goto(t, "open")
    /\ UNCHANGED <<up, op, fd, buf, answer, fileVars, bounds>>

\* The mutex waits for those who wait for it.
TakeMutex_Courteous(t) ==
    /\ pc[t] = "call" /\ Writing(t)
    /\ Goto(t, IF \A o \in Mates(t) : pc[o] = "idle" THEN "flock" ELSE "call")
    /\ UNCHANGED <<up, op, fd, buf, answer, fileVars, bounds>>

Free == Inodes \ ({main, tmp} \cup {fd[t] : t \in Threads})

\* users.json is written in place.
Create_InPlace(t) ==
    /\ pc[t] = "create"
    /\ LET i == IF main = NoInode THEN CHOOSE j \in Free : TRUE ELSE main
       IN /\ tmp' = i
          /\ main' = i
          /\ fd' = [fd EXCEPT ![t] = i]
          /\ disk' = [disk EXCEPT ![i] = Partial]
    /\ Goto(t, "write")
    /\ UNCHANGED <<up, op, buf, answer, bounds>>

\* A temporary file is taken for a newer table than users.json.
OpenMain_PrefersTmp(t) ==
    /\ pc[t] = "open"
    /\ fd' = [fd EXCEPT ![t] = IF tmp = NoInode THEN main ELSE tmp]
    /\ Goto(t, "read")
    /\ UNCHANGED <<up, op, buf, answer, fileVars, bounds>>

-----------------------------------------------------------------------------
(* The operations' bodies, on the table in memory.                         *)

\* findUserIdx
Found(r, table) == table[r.user] # Absent

\* The closure of a changing operation returns an error.
Refused(r, table) ==
    IF r.kind = "add" THEN Found(r, table) \/ r.password \in Unhashable
                      ELSE ~Found(r, table)

\* The functions that modifyUser applies.  Reset and SetPassword return early,
\* and say nothing, when the password cannot be hashed.
Modified(r, u) ==
    CASE r.kind = "lock"   -> [u EXCEPT !.locked = TRUE]
      [] r.kind = "unlock" -> [u EXCEPT !.locked = FALSE]
      [] r.kind = "touch"  -> [u EXCEPT !.seen = TRUE]
      [] r.kind \in {"reset", "set"} ->
            IF r.password \in Unhashable THEN u
            ELSE [u EXCEPT !.password = r.password, !.force = r.kind = "reset"]

NewUser(r) == [password |-> r.password, locked |-> FALSE, force |-> TRUE,
               seen |-> FALSE]

\* The table that a changing operation writes.
Applied(r, table) ==
    [table EXCEPT ![r.user] = CASE r.kind = "add"    -> NewUser(r)
                                [] r.kind = "remove" -> Absent
                                [] OTHER             -> Modified(r, @)]

\* What a reading operation returns.
Reply(r, table) ==
    LET u == table[r.user] IN
    CASE r.kind = "list" -> [code |-> "ok", list |-> table]
      [] r.kind = "auth" -> IF u # Absent /\ ~u.locked /\ u.password = r.password
                            THEN Says("yes") ELSE Says("no")
      [] r.kind = "must" -> IF u = Absent THEN Says("failed")
                            ELSE IF u.force THEN Says("yes") ELSE Says("no")

-----------------------------------------------------------------------------
(* Calls, and the locks.                                                   *)

Call(t, r) ==
    /\ ProcOf[t] \in up
    /\ pc[t] = "idle"
    /\ calls < MaxCalls
    /\ calls' = calls + 1
    /\ op' = [op EXCEPT ![t] = r]
    /\ Goto(t, "call")
    /\ UNCHANGED <<up, fd, buf, answer, fileVars, crashes>>

\* s.mu.RLock().  That a waiting writer holds new readers up is left out.
TakeShare(t) ==
    /\ pc[t] = "call" /\ Reading(t)
    /\ \A o \in Mates(t) : ~HasMutex(o)
    /\ Goto(t, "open")
    /\ UNCHANGED <<up, op, fd, buf, answer, fileVars, bounds>>

\* s.mu.Lock()
TakeMutex(t) ==
    /\ pc[t] = "call" /\ Writing(t)
    /\ \A o \in Mates(t) : ~HasMutex(o) /\ ~HasShare(o)
    /\ Goto(t, "flock")
    /\ UNCHANGED <<up, op, fd, buf, answer, fileVars, bounds>>

\* withFileLock: flock(LOCK_EX)
TakeFlock(t) ==
    /\ pc[t] = "flock"
    /\ \A o \in Threads \ {t} : ~HasFlock(o)
    /\ Goto(t, "open")
    /\ UNCHANGED <<up, op, fd, buf, answer, fileVars, bounds>>

-----------------------------------------------------------------------------
(* readLocked: os.ReadFile, then json.Unmarshal, then the closure.         *)

OpenMain(t) ==
    /\ pc[t] = "open"
    /\ IF main = NoInode
       THEN Finish(t, Says("error")) /\ UNCHANGED fd
       ELSE /\ fd' = [fd EXCEPT ![t] = main]
            /\ Goto(t, "read")
            /\ UNCHANGED answer
    /\ UNCHANGED <<up, op, buf, fileVars, bounds>>

\* A file that is not whole does not parse.
Parses(t) == disk[fd[t]] # Partial

Read(t) ==
    /\ pc[t] = "read" /\ Reading(t)
    /\ Finish(t, IF Parses(t) THEN Reply(op[t], disk[fd[t]]) ELSE Says("error"))
    /\ fd' = [fd EXCEPT ![t] = NoInode]
    /\ UNCHANGED <<up, op, buf, fileVars, bounds>>

ReadAndRefuse(t) ==
    /\ pc[t] = "read" /\ Writing(t)
    /\ Parses(t) => Refused(op[t], disk[fd[t]])
    /\ Finish(t, IF Parses(t) THEN Says("failed") ELSE Says("error"))
    /\ fd' = [fd EXCEPT ![t] = NoInode]
    /\ UNCHANGED <<up, op, buf, fileVars, bounds>>

ReadAndApply(t) ==
    /\ pc[t] = "read" /\ Writing(t)
    /\ Parses(t)
    /\ ~Refused(op[t], disk[fd[t]])
    /\ buf' = [buf EXCEPT ![t] = Applied(op[t], disk[fd[t]])]
    /\ fd' = [fd EXCEPT ![t] = NoInode]
    /\ Goto(t, "create")
    /\ UNCHANGED <<up, op, answer, fileVars, bounds>>

-----------------------------------------------------------------------------
(* write: the temporary file, and the rename.                              *)

\* os.WriteFile opens the temporary file with O_CREATE and O_TRUNC: one that
\* is already there, from a crash or from another process, is emptied.
\* Inodes is a bound: it has to be large enough for a free one to be there.
Create(t) ==
    /\ pc[t] = "create"
    /\ tmp = NoInode => Free # {}
    /\ LET i == IF tmp = NoInode THEN CHOOSE j \in Free : TRUE ELSE tmp
       IN /\ tmp' = i
          /\ fd' = [fd EXCEPT ![t] = i]
          /\ disk' = [disk EXCEPT ![i] = Partial]
    /\ Goto(t, "write")
    /\ UNCHANGED <<up, op, buf, answer, main, bounds>>

Write(t) ==
    /\ pc[t] = "write"
    /\ disk' = [disk EXCEPT ![fd[t]] = buf[t]]
    /\ fd' = [fd EXCEPT ![t] = NoInode]
    /\ Goto(t, "rename")
    /\ UNCHANGED <<up, op, buf, answer, main, tmp, bounds>>

\* The disk is full; the temporary file stays as it is.
WriteFails(t) ==
    /\ DiskFails
    /\ pc[t] = "write"
    /\ Finish(t, Says("error"))
    /\ fd' = [fd EXCEPT ![t] = NoInode]
    /\ UNCHANGED <<up, op, buf, fileVars, bounds>>

\* os.Rename goes by the path, whichever file that has become.
Rename(t) ==
    /\ pc[t] = "rename"
    /\ tmp # NoInode
    /\ main' = tmp
    /\ tmp' = NoInode
    /\ Finish(t, Says("ok"))
    /\ UNCHANGED <<up, op, fd, buf, disk, bounds>>

RenameFails(t) ==
    /\ pc[t] = "rename"
    /\ DiskFails \/ tmp = NoInode
    /\ Goto(t, "discard")
    /\ UNCHANGED <<up, op, fd, buf, answer, fileVars, bounds>>

\* os.Remove(tmp), also when that file is somebody else's by now.
Discard(t) ==
    /\ pc[t] = "discard"
    /\ tmp' = NoInode
    /\ Finish(t, Says("error"))
    /\ UNCHANGED <<up, op, fd, buf, main, disk, bounds>>

\* The deferred unlocks, and the return to the caller.
Return(t) ==
    /\ pc[t] = "return"
    /\ op[t] # NoRequest
    /\ IdleThread(t)
    /\ UNCHANGED <<up, fileVars, bounds>>

-----------------------------------------------------------------------------
(* Processes: NewFileStore, the end, a crash.                              *)

\* main() opens the store before anything else runs.
Start(t) ==
    /\ ProcOf[t] \notin up
    /\ pc[t] = "idle" /\ \A o \in Mates(t) : pc[o] = "idle"
    /\ Goto(t, "stat")
    /\ UNCHANGED <<up, op, fd, buf, answer, fileVars, bounds>>

\* NewFileStore looks for users.json and writes an empty one if there is none,
\* with no lock of any kind.
Stat(t) ==
    /\ pc[t] = "stat"
    /\ IF main = NoInode
       THEN Goto(t, "create") /\ UNCHANGED answer
       ELSE Finish(t, Says("ok"))
    /\ UNCHANGED <<up, op, fd, buf, fileVars, bounds>>

\* NewFileStore returns; with an error the process exits.
Started(t) ==
    /\ pc[t] = "return"
    /\ op[t] = NoRequest
    /\ up' = IF answer[t].code = "ok" THEN up \cup {ProcOf[t]} ELSE up
    /\ IdleThread(t)
    /\ UNCHANGED <<fileVars, bounds>>

\* oob-manage is through, or the hub shuts down.
Exit(p) ==
    /\ p \in up
    /\ \A t \in Threads : ProcOf[t] = p => pc[t] = "idle"
    /\ up' = up \ {p}
    /\ UNCHANGED <<threadVars, fileVars, bounds>>

\* A process is killed: its threads are gone, its files and the locks it had
\* are closed, what it wrote stays.
Crash(p) ==
    /\ crashes < MaxCrashes
    /\ crashes' = crashes + 1
    /\ \E t \in Threads : ProcOf[t] = p /\ (p \in up \/ pc[t] # "idle")
    /\ up' = up \ {p}
    /\ LET On(f, nothing) == [t \in Threads |->
                                 IF ProcOf[t] = p THEN nothing ELSE f[t]]
       IN /\ pc' = On(pc, "idle")
          /\ op' = On(op, NoRequest)
          /\ fd' = On(fd, NoInode)
          /\ buf' = On(buf, Empty)
          /\ answer' = On(answer, Says("none"))
    /\ UNCHANGED <<fileVars, calls>>

-----------------------------------------------------------------------------

\* What a thread does of its own accord.
Step(t) ==
    \/ TakeShare(t) \/ TakeMutex(t) \/ TakeFlock(t)
    \/ OpenMain(t) \/ Read(t)
    \/ ReadAndRefuse(t) \/ ReadAndApply(t)
    \/ Create(t) \/ Write(t) \/ WriteFails(t)
    \/ Rename(t) \/ RenameFails(t) \/ Discard(t)
    \/ Return(t) \/ Stat(t) \/ Started(t)

Next ==
    \/ \E t \in Threads :
          \/ Start(t)
          \/ \E r \in Requests : Call(t, r)
          \/ Step(t)
    \/ \E p \in Procs : Exit(p) \/ Crash(p)

Safety == Init /\ [][Next]_vars

\* Threads are scheduled; nobody has to call, start, stop or crash.
Spec == Safety /\ \A t \in Threads : WF_vars(Step(t))

-----------------------------------------------------------------------------
(* Properties.                                                             *)

TypeOK ==
    /\ up \subseteq Procs
    /\ pc \in [Threads -> {"idle", "call", "flock", "open", "read", "create",
                           "write", "rename", "discard", "return", "stat"}]
    /\ op \in [Threads -> Requests \cup {NoRequest}]
    /\ fd \in [Threads -> Inodes \cup {NoInode}]
    /\ buf \in [Threads -> Tables]
    /\ answer \in [Threads -> Answers]
    /\ main \in Inodes \cup {NoInode}
    /\ tmp \in Inodes \cup {NoInode}
    /\ disk \in [Inodes -> Tables \cup {Partial}]
    /\ calls \in 0..MaxCalls
    /\ crashes \in 0..MaxCrashes

\* "atomically writes the users file": whoever opens users.json, after a crash
\* too, finds a whole table.
FileAlwaysWhole == main # NoInode => disk[main] # Partial

\* The table that the next reader finds.
Table == IF main = NoInode THEN Empty ELSE disk[main]

\* A user is only gone after a Remove of that user: no process writes back a
\* table it has read before another's change.
NothingLost ==
    [][(Table # Partial /\ Table' # Partial) =>
          \A u \in Users : (Table[u] # Absent /\ Table'[u] = Absent) =>
              \E t \in Threads : /\ pc[t] = "rename" /\ Writing(t)
                                 /\ op[t].kind = "remove" /\ op[t].user = u]_vars

\* A password change that reports success has changed the password, if bcrypt
\* takes it (Modified has what becomes of the others).
SuccessMeansApplied ==
    [][\A t \in Threads :
          (/\ Writing(t) /\ op[t].kind \in {"set", "reset"}
           /\ answer[t].code # "ok" /\ answer'[t].code = "ok") =>
              Table'[op[t].user].password = op[t].password]_vars

-----------------------------------------------------------------------------
(* The inductive invariant of a store whose users.json is there before the *)
(* first process starts (Installed), in named parts.                       *)

\* A thread's place in the code says whether it has an operation, and of
\* which sort.
PlaceInv ==
    \A t \in Threads :
        /\ pc[t] \in {"idle", "stat"} => op[t] = NoRequest
        /\ pc[t] \in {"call", "open", "read"} => op[t] # NoRequest
        /\ pc[t] \in {"flock", "create", "write", "rename", "discard"}
               => Writing(t)

\* flock excludes writers of all processes from each other.
OneWriter == \A t, o \in Threads : HasFlock(t) /\ HasFlock(o) => t = o

\* users.json is whole, and not the file that is being written.
FilesInv == main # NoInode /\ main # tmp /\ disk[main] # Partial

\* Whoever has opened users.json finds a whole table in it, even when another
\* file has that name by now; a writer finds the current one.
ReadInv ==
    \A t \in Threads : pc[t] = "read" =>
        /\ fd[t] # NoInode /\ fd[t] # tmp
        /\ disk[fd[t]] # Partial
        /\ Writing(t) => fd[t] = main

\* What a writer is about to put in place is its change of the current table.
WriteInv ==
    \A t \in Threads :
        /\ pc[t] \in {"create", "write", "rename"} =>
               /\ buf[t] = Applied(op[t], disk[main])
               /\ ~Refused(op[t], disk[main])
        /\ pc[t] = "write" => tmp # NoInode /\ fd[t] = tmp
        /\ pc[t] = "rename" => tmp # NoInode /\ disk[tmp] = buf[t]

\* An operation has an answer from the point on at which it only has to return.
AnswerInv == \A t \in Threads : pc[t] # "return" => answer[t] = Says("none")

\* With these, every rename puts in place the change of the table that it
\* replaces, whatever the other threads and processes do meanwhile.
StoreInv ==
    /\ TypeOK
    /\ PlaceInv
    /\ OneWriter
    /\ FilesInv
    /\ ReadInv
    /\ WriteInv
    /\ AnswerInv

-----------------------------------------------------------------------------
(* The abstract specification the store implements.                        *)

\* Where a thread's operation stands, seen from outside: a changing one acts
\* when the file is renamed, a reading one when it opens the file.
Phase(t) ==
    IF op[t] = NoRequest THEN "idle"
    ELSE IF pc[t] = "return" \/ (pc[t] = "read" /\ Reading(t)) THEN "done"
    ELSE "called"

Outcome(t) ==
    IF pc[t] = "read" /\ Reading(t) THEN Reply(op[t], disk[fd[t]])
    ELSE IF op[t] = NoRequest THEN Says("none")
    ELSE answer[t]

Abstract == INSTANCE UserDB
                WITH Callers <- Threads,
                     db <- Table,
                     phase <- [t \in Threads |-> Phase(t)],
                     request <- op,
                     answer <- [t \in Threads |-> Outcome(t)]

\* However processes and threads interleave, fail and crash, every operation
\* acts at one instant on one table.
ImplementsUserDB == Abstract!Spec

\* Every call returns, and every start of a process succeeds or fails: the
\* mutexes and the file lock are always given back.
CallsReturn == \A t \in Threads : pc[t] # "idle" ~> pc[t] = "idle"
=============================================================================
