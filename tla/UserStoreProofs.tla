-------------------------- MODULE UserStoreProofs --------------------------
(***************************************************************************)
(* Theorems about UserStore for any processes, threads, users, requests    *)
(* and crashes, with or without a failing disk, when users.json is there   *)
(* before the first process starts, or when there is only one process.     *)
(*                                                                         *)
(* StoreInv (in UserStore) is inductive.  OneWriter is the file lock; from *)
(* it, what a writer is about to put in place is always a change of the    *)
(* table that is current (WriteInv), and nobody ever sees the temporary    *)
(* file (FilesInv, ReadInv).  FirstInv is what holds before that, while a  *)
(* single process has no users.json yet: however often it fails or is      *)
(* killed, the step that leaves FirstInv establishes StoreInv.             *)
(***************************************************************************)
EXTENDS UserStore, TLAPS

-----------------------------------------------------------------------------
(* Tables and what the operations make of them.                            *)

\* The table without users is a table.
LEMMA EmptyType == Empty \in Tables
BY DEF Empty, Tables

\* An answer without a list is an answer.
LEMMA SaysType ==
    \A code \in {"none", "ok", "yes", "no", "failed", "error"} :
        Says(code) \in Answers
BY EmptyType DEF Says, Answers

\* The functions of modifyUser turn an entry into an entry.
LEMMA ModifiedType ==
    ASSUME NEW r \in Requests, NEW u \in Entries,
           r.kind \in {"lock", "unlock", "touch", "reset", "set"}
    PROVE  Modified(r, u) \in Entries
<1>1. r.password \in Passwords
  BY StoreAssumption
<1> QED BY <1>1 DEF Modified, Entries

\* A changing operation that is not refused turns a table into a table.
LEMMA AppliedType ==
    ASSUME NEW r \in Requests, NEW table \in Tables,
           r.kind \in Changing, ~Refused(r, table)
    PROVE  Applied(r, table) \in Tables
<1>1. r.user \in Users /\ r.password \in Passwords
  BY StoreAssumption
<1>2. CASE r.kind = "add"
  <2>1. NewUser(r) \in Entries
    BY <1>1 DEF NewUser, Entries
  <2> QED BY <1>1, <1>2, <2>1 DEF Applied, Tables
<1>3. CASE r.kind = "remove"
  BY <1>1, <1>3 DEF Applied, Tables
<1>4. CASE r.kind \in {"lock", "unlock", "touch", "reset", "set"}
  <2>1. table[r.user] \in Entries
    BY <1>1, <1>4 DEF Refused, Found, Tables
  <2>2. Modified(r, table[r.user]) \in Entries
    BY <1>4, <2>1, ModifiedType
  <2> QED BY <1>1, <1>4, <2>2 DEF Applied, Tables
<1> QED BY <1>2, <1>3, <1>4 DEF Changing

\* A reading operation answers.
LEMMA ReplyType ==
    ASSUME NEW r \in Requests, NEW table \in Tables, r.kind \in Readers
    PROVE  Reply(r, table) \in Answers
<1>1. CASE r.kind = "list"
  BY <1>1 DEF Reply, Answers
<1>2. CASE r.kind \in {"auth", "must"}
  BY <1>2, SaysType DEF Reply
<1> QED BY <1>1, <1>2 DEF Readers
-----------------------------------------------------------------------------
(* The invariant holds initially and is kept by every step.                *)

\* The first process finds a users.json that is whole.
LEMMA InitInv == ASSUME Installed, Init PROVE StoreInv
<1> USE DEF Init
<1>1. FirstInode \in Inodes
  BY StoreAssumption DEF FirstInode
<1>2. TypeOK
  BY <1>1, StoreAssumption, EmptyType, SaysType DEF TypeOK
<1>3. PlaceInv /\ OneWriter
  BY DEF PlaceInv, OneWriter, HasFlock, HasMutex
<1>4. FilesInv
  BY <1>1, StoreAssumption, EmptyType DEF FilesInv
<1>5. ReadInv /\ WriteInv /\ AnswerInv
  BY DEF ReadInv, WriteInv, AnswerInv
<1> QED BY <1>2, <1>3, <1>4, <1>5 DEF StoreInv

\* The vocabulary of the step lemmas.
USE DEF StoreInv, TypeOK, PlaceInv, OneWriter, FilesInv, ReadInv, WriteInv,
        AnswerInv, HasFlock, HasMutex, Writing, Reading, Readers, Changing, fileVars, bounds, threadVars,
        Goto, Finish, IdleThread

\* StoreInv is kept by a call.
LEMMA CallStep ==
    ASSUME StoreInv, NEW t \in Threads, NEW r \in Requests,
           Call(t, r)
    PROVE  StoreInv'
<1> USE StoreAssumption, SaysType, EmptyType
<1>1. ASSUME Call(t, r) PROVE StoreInv'
  BY <1>1 DEF Call
<1> HIDE DEF StoreInv
<1> QED BY <1>1

\* StoreInv is kept by taking the locks.
LEMMA LockSteps ==
    ASSUME StoreInv, NEW t \in Threads,
           TakeShare(t) \/ TakeMutex(t) \/ TakeFlock(t)
    PROVE  StoreInv'
<1> USE StoreAssumption, SaysType, EmptyType
<1>1. ASSUME TakeShare(t) PROVE StoreInv'
  BY <1>1 DEF TakeShare
<1>2. ASSUME TakeMutex(t) PROVE StoreInv'
  BY <1>2 DEF TakeMutex
<1>3. ASSUME TakeFlock(t) PROVE StoreInv'
  BY <1>3 DEF TakeFlock
<1> HIDE DEF StoreInv
<1> QED BY <1>1, <1>2, <1>3

\* StoreInv is kept by opening and reading the file.
LEMMA ReadSteps ==
    ASSUME StoreInv, NEW t \in Threads,
           OpenMain(t) \/ Read(t) \/ ReadAndRefuse(t) \/ ReadAndApply(t)
    PROVE  StoreInv'
<1> USE StoreAssumption, SaysType, EmptyType
<1>1. ASSUME OpenMain(t) PROVE StoreInv'
  <2>1. TypeOK' /\ PlaceInv' /\ OneWriter'
    BY <1>1 DEF OpenMain
  <2>2. FilesInv'
    BY <1>1 DEF OpenMain
  <2>3. ReadInv'
    BY <1>1 DEF OpenMain
  <2>4. WriteInv' /\ AnswerInv'
    BY <1>1 DEF OpenMain
  <2> QED BY <2>1, <2>2, <2>3, <2>4
<1>2. ASSUME Read(t) PROVE StoreInv'
  BY <1>2, ReplyType DEF Read, Parses
<1>3. ASSUME ReadAndRefuse(t) PROVE StoreInv'
  BY <1>3 DEF ReadAndRefuse, Parses
<1>4. ASSUME ReadAndApply(t) PROVE StoreInv'
  <2>1. TypeOK' /\ PlaceInv' /\ OneWriter'
    BY <1>4, AppliedType DEF ReadAndApply, Parses
  <2>2. FilesInv'
    BY <1>4, AppliedType DEF ReadAndApply, Parses
  <2>3. ReadInv'
    BY <1>4, AppliedType DEF ReadAndApply, Parses
  <2>4. WriteInv' /\ AnswerInv'
    BY <1>4, AppliedType DEF ReadAndApply, Parses
  <2> QED BY <2>1, <2>2, <2>3, <2>4
<1> HIDE DEF StoreInv
<1> QED BY <1>1, <1>2, <1>3, <1>4

\* StoreInv is kept by writing and renaming the temporary file.
LEMMA WriteSteps ==
    ASSUME StoreInv, NEW t \in Threads,
           Create(t) \/ Write(t) \/ WriteFails(t) \/ Rename(t) \/ RenameFails(t) \/ Discard(t)
    PROVE  StoreInv'
<1> USE StoreAssumption, SaysType, EmptyType
<1>1. ASSUME Create(t) PROVE StoreInv'
  <2>1. TypeOK' /\ PlaceInv' /\ OneWriter'
    BY <1>1 DEF Create, Free
  <2>2. FilesInv'
    BY <1>1 DEF Create, Free
  <2>3. ReadInv'
    BY <1>1 DEF Create, Free
  <2>4. WriteInv' /\ AnswerInv'
    BY <1>1 DEF Create, Free
  <2> QED BY <2>1, <2>2, <2>3, <2>4
<1>2. ASSUME Write(t) PROVE StoreInv'
  <2>1. TypeOK' /\ PlaceInv' /\ OneWriter'
    BY <1>2 DEF Write
  <2>2. FilesInv'
    BY <1>2 DEF Write
  <2>3. ReadInv'
    BY <1>2 DEF Write
  <2>4. WriteInv' /\ AnswerInv'
    BY <1>2 DEF Write
  <2> QED BY <2>1, <2>2, <2>3, <2>4
<1>3. ASSUME WriteFails(t) PROVE StoreInv'
  BY <1>3 DEF WriteFails
<1>4. ASSUME Rename(t) PROVE StoreInv'
  <2>1. TypeOK' /\ PlaceInv' /\ OneWriter'
    BY <1>4 DEF Rename
  <2>2. FilesInv'
    BY <1>4 DEF Rename
  <2>3. ReadInv'
    BY <1>4 DEF Rename
  <2>4. WriteInv' /\ AnswerInv'
    BY <1>4 DEF Rename
  <2> QED BY <2>1, <2>2, <2>3, <2>4
<1>5. ASSUME RenameFails(t) PROVE StoreInv'
  BY <1>5 DEF RenameFails
<1>6. ASSUME Discard(t) PROVE StoreInv'
  BY <1>6 DEF Discard
<1> HIDE DEF StoreInv
<1> QED BY <1>1, <1>2, <1>3, <1>4, <1>5, <1>6

\* StoreInv is kept by returns, and by the start of a process.
LEMMA ReturnSteps ==
    ASSUME StoreInv, NEW t \in Threads,
           Return(t) \/ Start(t) \/ Stat(t) \/ Started(t)
    PROVE  StoreInv'
<1> USE StoreAssumption, SaysType, EmptyType
<1>1. ASSUME Return(t) PROVE StoreInv'
  BY <1>1 DEF Return
<1>2. ASSUME Start(t) PROVE StoreInv'
  BY <1>2 DEF Start
<1>3. ASSUME Stat(t) PROVE StoreInv'
  BY <1>3 DEF Stat
<1>4. ASSUME Started(t) PROVE StoreInv'
  BY <1>4 DEF Started
<1> HIDE DEF StoreInv
<1> QED BY <1>1, <1>2, <1>3, <1>4

\* StoreInv is kept by the end and a crash of a process.
LEMMA EndSteps ==
    ASSUME StoreInv, NEW p \in Procs,
           Exit(p) \/ Crash(p)
    PROVE  StoreInv'
<1> USE StoreAssumption, SaysType, EmptyType
<1>1. ASSUME Exit(p) PROVE StoreInv'
  BY <1>1 DEF Exit
<1>2. ASSUME Crash(p) PROVE StoreInv'
  BY <1>2 DEF Crash
<1> HIDE DEF StoreInv
<1> QED BY <1>1, <1>2

HIDE DEF StoreInv, TypeOK, PlaceInv, OneWriter, FilesInv, ReadInv, WriteInv,
         AnswerInv, HasFlock, HasMutex, Writing, Reading, Readers, Changing, fileVars,
         bounds, threadVars, Goto, Finish, IdleThread

\* A stuttering step changes none of the invariant's variables.
LEMMA StutterStep == ASSUME StoreInv, UNCHANGED vars PROVE StoreInv'
BY DEF vars, threadVars, fileVars, bounds, StoreInv, TypeOK, PlaceInv,
       OneWriter, HasFlock, HasMutex, Writing, FilesInv, ReadInv, WriteInv,
       AnswerInv

\* StoreInv is inductive: every step of the store keeps it.
LEMMA NextStep == ASSUME StoreInv, [Next]_vars PROVE StoreInv'
BY CallStep, LockSteps, ReadSteps, WriteSteps, ReturnSteps, EndSteps, StutterStep
   DEF Next, Step

\* StoreInv holds in every reachable state of an installed store.
THEOREM Invariance == ASSUME Installed PROVE Safety => []StoreInv
BY InitInv, NextStep, PTL DEF Safety

-----------------------------------------------------------------------------
(* The first start of a process that has the store to itself.              *)

\* No two processes share the store.
Sole == \A p, q \in Procs : p = q

\* What the theorems below assume: NewFileStore, which takes no lock, does not
\* run in two processes at once while there is no users.json.
FirstStartAlone == Installed \/ Sole

\* Before the first rename one thread at most is at work, it is in
\* NewFileStore, and what it writes is the empty table.
FirstInv ==
    /\ TypeOK
    /\ main = NoInode
    /\ up = {}
    /\ \A t \in Threads :
          /\ pc[t] \in {"idle", "stat", "create", "write", "rename", "discard",
                        "return"}
          /\ op[t] = NoRequest
          /\ buf[t] = Empty
          /\ answer[t] = Says(IF pc[t] = "return" THEN "error" ELSE "none")
          /\ pc[t] = "write" => tmp # NoInode /\ fd[t] = tmp
          /\ pc[t] = "rename" => tmp # NoInode /\ disk[tmp] = Empty
    /\ \A t, o \in Threads : pc[t] # "idle" /\ pc[o] # "idle" => t = o

\* A store without its file starts that way.
LEMMA InitFirst == ASSUME ~Installed, Init PROVE FirstInv
BY StoreAssumption, EmptyType, SaysType DEF Init, FirstInv, TypeOK

\* A thread that starts its process does so alone.
LEMMA StartStep ==
    ASSUME Sole, FirstInv, NEW t \in Threads, Start(t) \/ Stat(t) \/ Started(t)
    PROVE  FirstInv'
<1> USE StoreAssumption, EmptyType, SaysType
        DEF FirstInv, TypeOK, Goto, IdleThread, fileVars, bounds
<1>1. CASE Start(t)
  <2>1. \A o \in Threads \ {t} : pc[o] = "idle"
    BY <1>1 DEF Sole, Start, Mates
  <2> QED BY <1>1, <2>1 DEF Start
<1>2. CASE Stat(t)
  BY <1>2 DEF Stat
<1>3. CASE Started(t)
  BY <1>3 DEF Started, Says
<1> QED BY <1>1, <1>2, <1>3

\* NewFileStore writes the empty table, or fails and leaves no users.json.
LEMMA FirstWriteStep ==
    ASSUME FirstInv, NEW t \in Threads,
           Create(t) \/ Write(t) \/ WriteFails(t) \/ RenameFails(t) \/ Discard(t)
    PROVE  FirstInv'
<1> USE StoreAssumption, EmptyType, SaysType
        DEF FirstInv, TypeOK, Goto, Finish, fileVars, bounds
<1>1. CASE Create(t)
  BY <1>1 DEF Create, Free
<1>2. CASE Write(t)
  BY <1>2 DEF Write
<1>3. CASE WriteFails(t) \/ RenameFails(t) \/ Discard(t)
  BY <1>3 DEF WriteFails, RenameFails, Discard
<1> QED BY <1>1, <1>2, <1>3

\* The first rename leaves a whole, empty users.json and nobody else at work.
LEMMA FirstRenameStep ==
    ASSUME FirstInv, NEW t \in Threads, Rename(t)
    PROVE  StoreInv' /\ Table' = Table
<1> USE StoreAssumption, EmptyType, SaysType
        DEF FirstInv, Rename, Goto, Finish, fileVars, bounds
<1>1. TypeOK'
  BY DEF TypeOK
<1>2. \A o \in Threads : /\ pc'[o] = IF o = t THEN "return" ELSE "idle"
                         /\ op'[o] = NoRequest
                         /\ answer'[o] = IF o = t THEN Says("ok") ELSE Says("none")
  BY DEF TypeOK
<1>3. FilesInv' /\ Table' = Table
  BY DEF TypeOK, FilesInv, Table
<1>4. PlaceInv' /\ OneWriter' /\ ReadInv' /\ WriteInv' /\ AnswerInv'
  BY <1>2 DEF PlaceInv, OneWriter, HasFlock, HasMutex, Writing, ReadInv, WriteInv, AnswerInv
<1> QED BY <1>1, <1>3, <1>4 DEF StoreInv

\* Nothing else can happen before the first rename, except a crash.
LEMMA FirstStep ==
    ASSUME Sole, FirstInv, [Next]_vars
    PROVE  FirstInv' \/ \E t \in Threads : Rename(t)
<1>1. ASSUME NEW t \in Threads, NEW r \in Requests, Call(t, r) PROVE FALSE
  BY <1>1 DEF Call, FirstInv
<1>2. ASSUME NEW t \in Threads,
             \/ TakeShare(t) \/ TakeMutex(t) \/ TakeFlock(t) \/ OpenMain(t)
             \/ Read(t) \/ ReadAndRefuse(t) \/ ReadAndApply(t) \/ Return(t)
      PROVE  FALSE
  BY <1>2 DEF FirstInv, TakeShare, TakeMutex, TakeFlock, OpenMain, Read,
              ReadAndRefuse, ReadAndApply, Return
<1>3. ASSUME NEW p \in Procs, Exit(p) PROVE FALSE
  BY <1>3 DEF Exit, FirstInv
<1>4. ASSUME NEW p \in Procs, Crash(p) PROVE FirstInv'
  BY <1>4, StoreAssumption, EmptyType, SaysType DEF Crash, FirstInv, TypeOK, fileVars
<1>5. CASE UNCHANGED vars
  BY <1>5 DEF vars, threadVars, fileVars, bounds, FirstInv, TypeOK
<1> QED BY <1>1, <1>2, <1>3, <1>4, <1>5, StartStep, FirstWriteStep DEF Next, Step

\* Where the store stands: at its first start, or installed.
Whole == StoreInv \/ (Sole /\ FirstInv)

\* Every step keeps that.
LEMMA WholeStep == ASSUME Whole, [Next]_vars PROVE Whole'
BY NextStep, FirstStep, FirstRenameStep DEF Whole

\* The store is at its first start, or StoreInv holds, in every behaviour in
\* which two processes do not make the first users.json at once.
THEOREM FirstStartInvariance == ASSUME FirstStartAlone PROVE Safety => []Whole
<1>1. Init => Whole
  BY InitInv, InitFirst DEF Whole, FirstStartAlone
<1> QED BY <1>1, WholeStep, PTL DEF Safety

-----------------------------------------------------------------------------
(* The safety properties.                                                  *)

\* Every variable keeps its type.
THEOREM TypeCorrect == ASSUME FirstStartAlone PROVE Safety => []TypeOK
<1>1. Whole => TypeOK
  BY DEF Whole, FirstInv, StoreInv
<1> QED BY <1>1, FirstStartInvariance, PTL

\* users.json is whole at any moment, whoever crashes or runs out of disk.
THEOREM FileAlwaysWholeHolds ==
    ASSUME FirstStartAlone PROVE Safety => []FileAlwaysWhole
<1>1. Whole => FileAlwaysWhole
  BY DEF Whole, FirstInv, StoreInv, FilesInv, FileAlwaysWhole
<1> QED BY <1>1, FirstStartInvariance, PTL

\* The table changes by the rename of a writer only, and that puts the
\* writer's change of the current table in place.
LEMMA TableStep ==
    ASSUME StoreInv, [Next]_vars
    PROVE  \/ Table' = Table
           \/ \E t \in Threads : /\ Rename(t)
                                 /\ Writing(t) /\ op[t] \in Requests
                                 /\ ~Refused(op[t], Table)
                                 /\ Table' = Applied(op[t], Table)
<1> USE DEF StoreInv, TypeOK, FilesInv, Table, fileVars
<1>1. ASSUME NEW t \in Threads, Rename(t)
      PROVE  /\ Writing(t) /\ op[t] \in Requests
             /\ ~Refused(op[t], Table)
             /\ Table' = Applied(op[t], Table)
  BY <1>1 DEF Rename, PlaceInv, WriteInv, Writing
<1>2. ASSUME NEW t \in Threads, Create(t) PROVE Table' = Table
  BY <1>2 DEF Create, Free
<1>3. ASSUME NEW t \in Threads, Write(t) PROVE Table' = Table
  BY <1>3 DEF Write, WriteInv
<1>4. ASSUME NEW t \in Threads, Discard(t) PROVE Table' = Table
  BY <1>4 DEF Discard
<1>5. CASE UNCHANGED <<main, disk>>
  BY <1>5
<1> QED
  BY <1>1, <1>2, <1>3, <1>4, <1>5
     DEF Next, Step, Call, TakeShare, TakeMutex, TakeFlock, OpenMain, Read,
         ReadAndRefuse, ReadAndApply, WriteFails, RenameFails, Return, Start,
         Stat, Started, Exit, Crash, vars

\* A user disappears by a Remove of that user only.
LEMMA LossStep ==
    ASSUME StoreInv, [Next]_vars, NEW u \in Users,
           Table[u] # Absent, Table'[u] = Absent
    PROVE  \E t \in Threads : /\ pc[t] = "rename" /\ Writing(t)
                              /\ op[t].kind = "remove" /\ op[t].user = u
<1>1. PICK t \in Threads : /\ Rename(t)
                           /\ Writing(t) /\ op[t] \in Requests
                           /\ ~Refused(op[t], Table)
                           /\ Table' = Applied(op[t], Table)
  BY TableStep
<1>2. Table \in Tables /\ Table' \in Tables
  BY NextStep DEF StoreInv, TypeOK, FilesInv, Table
<1>3. op[t].user = u
  BY <1>1, <1>2 DEF Applied, Tables
<1>4. op[t].kind = "remove"
  <2>1. SUFFICES ASSUME op[t].kind # "remove" PROVE Table'[u] \in Entries
    BY StoreAssumption
  <2>2. op[t].kind \in Changing /\ op[t].password \in Passwords
    BY <1>1, StoreAssumption DEF Writing
  <2>3. Table[u] \in Entries
    BY <1>2 DEF Tables
  <2>4. CASE op[t].kind = "add"
    BY <1>1, <1>3, <2>4 DEF Refused, Found
  <2>5. CASE op[t].kind # "add"
    <3>1. Modified(op[t], Table[u]) \in Entries
      BY <1>1, <2>1, <2>2, <2>3, <2>5, ModifiedType DEF Changing
    <3> QED BY <1>1, <1>2, <1>3, <2>1, <2>5, <3>1 DEF Applied, Tables
  <2> QED BY <2>4, <2>5
<1> QED BY <1>1, <1>3, <1>4 DEF Rename

\* No process undoes another's work.
THEOREM NothingLostHolds == ASSUME FirstStartAlone PROVE Safety => NothingLost
<1>1. Whole /\ [Next]_vars =>
         [(Table # Partial /\ Table' # Partial) =>
             \A u \in Users : (Table[u] # Absent /\ Table'[u] = Absent) =>
                 \E t \in Threads :
                     /\ pc[t] = "rename" /\ Writing(t)
                     /\ op[t].kind = "remove" /\ op[t].user = u]_vars
  BY LossStep DEF Whole, FirstInv, Table, Empty
<1> QED BY <1>1, FirstStartInvariance, PTL DEF Safety, NothingLost

\* With passwords that can be hashed, a change that reports success has put
\* the new password in place.
THEOREM SuccessMeansAppliedHolds ==
    ASSUME FirstStartAlone, Unhashable = {} PROVE Safety => SuccessMeansApplied
<1>1. ASSUME StoreInv, [Next]_vars, NEW t \in Threads,
             Writing(t), op[t].kind \in {"set", "reset"},
             answer[t].code # "ok", answer'[t].code = "ok"
      PROVE  Table'[op[t].user].password = op[t].password
  <2>1. Rename(t)
    BY <1>1
       DEF StoreInv, TypeOK, PlaceInv, Says, Finish, IdleThread, Writing,
           Reading, Readers, Changing, threadVars, fileVars, vars, Next, Step,
           Call, TakeShare, TakeMutex, TakeFlock, OpenMain, Read,
           ReadAndRefuse, ReadAndApply, Create, Write, WriteFails, Rename,
           RenameFails, Discard, Return, Start, Stat, Started, Exit, Crash
  <2>2. ~Refused(op[t], Table) /\ Table' = Applied(op[t], Table)
    BY <1>1, <2>1 DEF Rename, StoreInv, FilesInv, WriteInv, Table
  <2>3. Table \in Tables /\ op[t] \in Requests
    BY <1>1 DEF StoreInv, TypeOK, PlaceInv, FilesInv, Table, Writing
  <2>4. op[t].user \in Users /\ Table[op[t].user] \in Entries
    BY <1>1, <2>2, <2>3, StoreAssumption DEF Refused, Found, Tables
  <2> QED BY <1>1, <2>2, <2>3, <2>4 DEF Applied, Modified, Tables, Entries
<1>2. Whole /\ [Next]_vars =>
         [\A t \in Threads :
             (/\ Writing(t) /\ op[t].kind \in {"set", "reset"}
              /\ answer[t].code # "ok" /\ answer'[t].code = "ok") =>
                 Table'[op[t].user].password = op[t].password]_vars
  BY <1>1 DEF Whole, FirstInv, Writing
<1> QED BY <1>2, FirstStartInvariance, PTL DEF Safety, SuccessMeansApplied

-----------------------------------------------------------------------------
(* The store implements UserDB, as long as every password can be hashed.   *)

\* What the abstract specification sees of a thread.
Seen(t) == <<Phase(t), op[t], Outcome(t)>>

\* A step that leaves the table and what is seen of every thread leaves the
\* abstract state.
LEMMA QuietStep ==
    ASSUME StoreInv, StoreInv', Table' = Table,
           \A t \in Threads : Seen(t)' = Seen(t)
    PROVE  UNCHANGED Abstract!vars
<1>1. op' = op
  BY DEF StoreInv, TypeOK, Seen
<1> QED BY <1>1 DEF Abstract!vars, Seen

\* A step of thread t leaves what is seen of the others.
OthersKept(t) == \A o \in Threads \ {t} : Seen(o)' = Seen(o)

LEMMA OthersStep ==
    ASSUME StoreInv, StoreInv', NEW t \in Threads,
           \A o \in Threads \ {t} :
               /\ pc'[o] = pc[o] /\ op'[o] = op[o] /\ answer'[o] = answer[o]
               /\ pc[o] = "read" => fd'[o] = fd[o] /\ disk'[fd[o]] = disk[fd[o]]
    PROVE  OthersKept(t)
BY DEF OthersKept, Seen, Phase, Outcome, Reading

\* No step of a thread touches a file that another is reading.
LEMMA StepKeepsOthers ==
    ASSUME StoreInv, StoreInv', NEW t \in Threads,
           Step(t) \/ Start(t) \/ \E r \in Requests : Call(t, r)
    PROVE  OthersKept(t)
<1> USE OthersStep
        DEF StoreInv, TypeOK, ReadInv, WriteInv, Goto, Finish, IdleThread,
            fileVars, bounds
<1>1. CASE Create(t)
  BY <1>1 DEF Create, Free
<1>2. CASE Write(t)
  BY <1>2 DEF Write
<1>3. CASE \/ TakeShare(t) \/ TakeMutex(t) \/ TakeFlock(t) \/ OpenMain(t)
           \/ Read(t) \/ ReadAndRefuse(t) \/ ReadAndApply(t)
  BY <1>3 DEF TakeShare, TakeMutex, TakeFlock, OpenMain, Read, ReadAndRefuse,
              ReadAndApply
<1>4. CASE WriteFails(t) \/ Rename(t) \/ RenameFails(t) \/ Discard(t)
  BY <1>4 DEF WriteFails, Rename, RenameFails, Discard
<1>5. CASE Return(t) \/ Stat(t) \/ Started(t) \/ Start(t)
  BY <1>5 DEF Return, Stat, Started, Start
<1>6. CASE \E r \in Requests : Call(t, r)
  BY <1>6 DEF Call
<1> QED BY <1>1, <1>2, <1>3, <1>4, <1>5, <1>6 DEF Step

\* The one step of thread t at which its operation takes effect.
LEMMA DoneStep ==
    ASSUME StoreInv, StoreInv', NEW t \in Threads, OthersKept(t),
           op'[t] = op[t], Phase(t)' = "done"
    PROVE  Abstract!Done(t, Table', Outcome(t)')
<1>1. op' = op
  BY DEF OthersKept, Seen, StoreInv, TypeOK
<1> QED BY <1>1 DEF OthersKept, Seen, Abstract!Done

\* The answers of the two specifications.
LEMMA SameSays == \A code : Abstract!Says(code) = Says(code)
BY DEF Abstract!Says, Says, Abstract!Empty, Empty

\* Reading operations act when they open the file.
LEMMA ReplyStep ==
    ASSUME StoreInv, StoreInv', NEW t \in Threads, OthersKept(t),
           Reading(t), OpenMain(t)
    PROVE  /\ Phase(t) = "called"
           /\ Abstract!Authenticate(t) \/ Abstract!MustChange(t) \/ Abstract!List(t)
<1> USE DEF StoreInv, TypeOK
<1>1. op'[t] = op[t] /\ Table' = Table
  BY DEF OpenMain, Table, fileVars
<1>2. /\ Phase(t) = "called" /\ Phase(t)' = "done"
      /\ Outcome(t)' = Reply(op[t], Table)
  BY DEF OpenMain, FilesInv, Table, Phase, Outcome, Reading, Goto, fileVars
<1>3. Abstract!Done(t, Table, Reply(op[t], Table))
  BY <1>1, <1>2, DoneStep
<1>4. CASE op[t].kind = "auth"
  BY <1>2, <1>3, <1>4, SameSays DEF Reply, Abstract!Authenticate
<1>5. CASE op[t].kind = "must"
  BY <1>2, <1>3, <1>5, SameSays
     DEF Reply, Abstract!MustChange, Abstract!Refuse
<1>6. CASE op[t].kind = "list"
  BY <1>2, <1>3, <1>6 DEF Reply, Abstract!List
<1> QED BY <1>2, <1>4, <1>5, <1>6 DEF Reading, Readers

\* Changing operations that are refused act when they have read the file.
LEMMA RefuseStep ==
    ASSUME Unhashable = {}, StoreInv, StoreInv', NEW t \in Threads,
           OthersKept(t), ReadAndRefuse(t)
    PROVE  /\ Phase(t) = "called"
           /\ Abstract!Add(t) \/ Abstract!Remove(t) \/ Abstract!Change(t)
<1> USE DEF StoreInv, TypeOK
<1>1. op'[t] = op[t] /\ Table' = Table /\ Refused(op[t], Table)
  BY DEF ReadAndRefuse, Parses, FilesInv, ReadInv, Table, fileVars
<1>2. /\ Phase(t) = "called" /\ Phase(t)' = "done"
      /\ Outcome(t)' = Says("failed")
  BY DEF ReadAndRefuse, Parses, FilesInv, ReadInv, Phase, Outcome, Writing,
         Reading, Readers, Changing, Finish, Goto
<1>3. Abstract!Refuse(t)
  BY <1>1, <1>2, DoneStep, SameSays DEF Abstract!Refuse
<1>4. op[t].kind \in Changing
  BY DEF ReadAndRefuse, Writing
<1> QED BY <1>1, <1>2, <1>3, <1>4
        DEF Refused, Found, Changing, Abstract!Add, Abstract!Remove,
            Abstract!Change

\* The other ones act when the temporary file is renamed.
LEMMA EffectStep ==
    ASSUME Unhashable = {}, StoreInv, StoreInv', NEW t \in Threads,
           OthersKept(t), Rename(t)
    PROVE  /\ Phase(t) = "called"
           /\ Abstract!Add(t) \/ Abstract!Remove(t) \/ Abstract!Change(t)
<1> USE DEF StoreInv, TypeOK
<1>1. /\ op'[t] = op[t]
      /\ ~Refused(op[t], Table) /\ Table' = Applied(op[t], Table)
  BY DEF Rename, FilesInv, WriteInv, Table
<1>2. /\ Phase(t) = "called" /\ Phase(t)' = "done"
      /\ Outcome(t)' = Says("ok")
  BY DEF Rename, PlaceInv, Phase, Outcome, Writing, Reading, Finish, Goto
<1>3. Abstract!Done(t, Applied(op[t], Table), Says("ok"))
  BY <1>1, <1>2, DoneStep
<1>4. op[t].kind \in Changing
  BY DEF Rename, PlaceInv, Writing
<1>5. CASE op[t].kind = "add"
  BY <1>1, <1>2, <1>3, <1>5, SameSays
     DEF Refused, Found, Applied, NewUser, Abstract!Add
<1>6. CASE op[t].kind = "remove"
  BY <1>1, <1>2, <1>3, <1>6, SameSays
     DEF Refused, Found, Applied, Abstract!Remove
<1>7. CASE op[t].kind \in {"lock", "unlock", "touch", "reset", "set"}
  <2>1. Modified(op[t], Table[op[t].user])
            = Abstract!Changed(op[t], Table[op[t].user])
    BY <1>7 DEF Modified, Abstract!Changed
  <2> QED BY <1>1, <1>2, <1>3, <1>7, <2>1, SameSays
          DEF Refused, Found, Applied, Abstract!Change
<1> QED BY <1>2, <1>4, <1>5, <1>6, <1>7 DEF Changing

\* An operation that the disk fails ends without an effect.
LEMMA FailStep ==
    ASSUME StoreInv, StoreInv', NEW t \in Threads, OthersKept(t),
           WriteFails(t) \/ Discard(t)
    PROVE  /\ Phase(t) = "called"
           /\ Abstract!Fail(t)
<1>1. op'[t] = op[t] /\ Table' = Table
  BY DEF WriteFails, Discard, Table, fileVars
<1>2. /\ Phase(t) = "called" /\ Phase(t)' = "done"
      /\ Outcome(t)' = Says("error")
  BY DEF WriteFails, Discard, StoreInv, TypeOK, PlaceInv, Phase, Outcome,
         Writing, Reading, Finish, Goto
<1> QED BY <1>1, <1>2, DoneStep, SameSays DEF Abstract!Fail

\* Calls and returns are calls and returns.
LEMMA CallReturnStep ==
    ASSUME StoreInv, StoreInv', NEW t \in Threads, OthersKept(t),
           Return(t) \/ \E r \in Requests : Call(t, r)
    PROVE  Abstract!Return(t) \/ \E r \in Requests : Abstract!Call(t, r)
<1> USE DEF StoreInv, TypeOK, OthersKept, Seen
<1>1. CASE Return(t)
  <2>1. Table' = Table /\ op' = [op EXCEPT ![t] = NoRequest]
    BY <1>1 DEF Return, IdleThread, Table, fileVars
  <2>2. Phase(t) = "done" /\ Phase(t)' = "idle" /\ Outcome(t)' = Says("none")
    BY <1>1 DEF Return, IdleThread, Phase, Outcome, Reading
  <2> QED BY <2>1, <2>2, SameSays DEF Abstract!Return
<1>2. ASSUME NEW r \in Requests, Call(t, r) PROVE Abstract!Call(t, r)
  <2>1. Table' = Table /\ op' = [op EXCEPT ![t] = r]
    BY <1>2 DEF Call, Table, fileVars
  <2>2. Phase(t) = "idle" /\ Phase(t)' = "called" /\ Outcome(t)' = Outcome(t)
    BY <1>2, StoreAssumption
       DEF Call, PlaceInv, AnswerInv, Phase, Outcome, Reading, Goto
  <2> QED BY <2>1, <2>2 DEF Abstract!Call
<1> QED BY <1>1, <1>2

\* The steps of a thread that are not seen.
LEMMA InnerStep ==
    ASSUME StoreInv, StoreInv', NEW t \in Threads, OthersKept(t),
           \/ TakeShare(t) \/ TakeMutex(t) \/ TakeFlock(t)
           \/ OpenMain(t) /\ Writing(t)
           \/ Read(t) \/ ReadAndApply(t) \/ Create(t) \/ Write(t)
           \/ RenameFails(t) \/ Start(t) \/ Stat(t) \/ Started(t)
    PROVE  UNCHANGED Abstract!vars
<1> USE DEF StoreInv, TypeOK, PlaceInv, FilesInv, ReadInv, WriteInv, AnswerInv,
            Seen, Phase, Outcome, Table, Writing, Reading, Readers, Changing,
            Goto, Finish, IdleThread, fileVars
<1> SUFFICES Table' = Table /\ Seen(t)' = Seen(t)
  BY QuietStep DEF OthersKept
<1>1. CASE TakeShare(t) \/ TakeMutex(t) \/ TakeFlock(t)
  BY <1>1 DEF TakeShare, TakeMutex, TakeFlock
<1>2. CASE OpenMain(t) /\ Writing(t)
  BY <1>2 DEF OpenMain
<1>3. CASE Read(t)
  BY <1>3 DEF Read, Parses
<1>4. CASE ReadAndApply(t)
  BY <1>4 DEF ReadAndApply
<1>5. CASE Create(t)
  BY <1>5 DEF Create, Free
<1>6. CASE Write(t)
  BY <1>6 DEF Write
<1>7. CASE RenameFails(t)
  BY <1>7 DEF RenameFails
<1>8. CASE Start(t) \/ Stat(t) \/ Started(t)
  BY <1>8 DEF Start, Stat, Started
<1> QED BY <1>1, <1>2, <1>3, <1>4, <1>5, <1>6, <1>7, <1>8

\* A crash ends the operations of a process, before or after their effect.
LEMMA CrashStep ==
    ASSUME StoreInv, StoreInv', NEW p \in Procs, Crash(p)
    PROVE  Abstract!Crash({t \in Threads : ProcOf[t] = p})
<1> USE DEF StoreInv, TypeOK
<1>1. ASSUME NEW t \in Threads, ProcOf[t] = p
      PROVE  /\ Phase(t)' = "idle" /\ op'[t] = NoRequest
             /\ Outcome(t)' = Says("none")
  BY <1>1 DEF Crash, Phase, Outcome, Reading
<1>2. ASSUME NEW t \in Threads, ProcOf[t] # p
      PROVE  Seen(t)' = Seen(t)
  BY <1>2 DEF Crash, Seen, Phase, Outcome, Reading, fileVars
<1>3. Table' = Table
  BY DEF Crash, Table, fileVars
<1> QED BY <1>1, <1>2, <1>3, SameSays DEF Abstract!Crash, Seen

\* Nothing of a first start is seen.
LEMMA FirstNotSeen ==
    ASSUME Sole, FirstInv, [Next]_vars
    PROVE  UNCHANGED Abstract!vars
<1>1. \A t \in Threads : Seen(t) = <<"idle", NoRequest, Says("none")>>
  BY DEF FirstInv, Seen, Phase, Outcome, Reading
<1>2. CASE FirstInv'
  <2>1. \A t \in Threads : Seen(t)' = <<"idle", NoRequest, Says("none")>>
    BY <1>2 DEF FirstInv, Seen, Phase, Outcome, Reading
  <2>2. Table' = Table
    BY <1>2 DEF FirstInv, Table
  <2>3. op' = op
    BY <1>1, <1>2, <2>1 DEF FirstInv, TypeOK
  <2> QED BY <1>1, <2>1, <2>2, <2>3 DEF Abstract!vars, Seen
<1>3. ASSUME NEW t \in Threads, Rename(t) PROVE UNCHANGED Abstract!vars
  <2>1. Table' = Table
    BY <1>3, FirstRenameStep
  <2>2. op' = op
    BY <1>3 DEF Rename
  <2>3. \A o \in Threads : Seen(o)' = <<"idle", NoRequest, Says("none")>>
    BY <2>2 DEF FirstInv, Seen, Phase, Outcome, Reading
  <2> QED BY <1>1, <2>1, <2>2, <2>3 DEF Abstract!vars, Seen
<1> QED BY <1>2, <1>3, FirstStep

\* Every step of the store is a step of UserDB, or is not seen.
LEMMA AbstractStep ==
    ASSUME Unhashable = {}, StoreInv, [Next]_vars
    PROVE  [Abstract!Next]_(Abstract!vars)
<1>1. StoreInv'
  BY NextStep
<1>2. ASSUME NEW t \in Threads,
             Step(t) \/ Start(t) \/ \E r \in Requests : Call(t, r)
      PROVE  [Abstract!Next]_(Abstract!vars)
  <2>1. OthersKept(t)
    BY <1>1, <1>2, StepKeepsOthers
  <2>2. CASE OpenMain(t) /\ Reading(t)
    BY <1>1, <2>1, <2>2, ReplyStep DEF Abstract!Next
  <2>3. CASE ReadAndRefuse(t)
    BY <1>1, <2>1, <2>3, RefuseStep DEF Abstract!Next
  <2>4. CASE Rename(t)
    BY <1>1, <2>1, <2>4, EffectStep DEF Abstract!Next
  <2>5. CASE WriteFails(t) \/ Discard(t)
    BY <1>1, <2>1, <2>5, FailStep DEF Abstract!Next
  <2>6. CASE Return(t) \/ \E r \in Requests : Call(t, r)
    BY <1>1, <2>1, <2>6, CallReturnStep DEF Abstract!Next
  <2>7. CASE \/ TakeShare(t) \/ TakeMutex(t) \/ TakeFlock(t)
             \/ OpenMain(t) /\ Writing(t)
             \/ Read(t) \/ ReadAndApply(t) \/ Create(t) \/ Write(t)
             \/ RenameFails(t) \/ Start(t) \/ Stat(t) \/ Started(t)
    BY <1>1, <2>1, <2>7, InnerStep
  <2>8. OpenMain(t) => Reading(t) \/ Writing(t)
    BY StoreAssumption
       DEF OpenMain, StoreInv, TypeOK, PlaceInv, Reading, Writing
  <2> QED BY <1>2, <2>2, <2>3, <2>4, <2>5, <2>6, <2>7, <2>8 DEF Step
<1>3. ASSUME NEW p \in Procs, Crash(p) PROVE Abstract!Next
  BY <1>1, <1>3, CrashStep DEF Abstract!Next
<1>4. ASSUME UNCHANGED <<threadVars, fileVars>> PROVE UNCHANGED Abstract!vars
  BY <1>1, <1>4, QuietStep
     DEF Seen, Phase, Outcome, Reading, Table, threadVars, fileVars
<1> QED BY <1>2, <1>3, <1>4 DEF Next, Exit, vars

\* Every operation acts at one instant on one table, for any processes,
\* threads, failures and crashes.
THEOREM UserDBImplemented ==
    ASSUME FirstStartAlone, Unhashable = {} PROVE Safety => ImplementsUserDB
<1>1. ASSUME Init PROVE Abstract!Init
  <2>1. FirstInode \in Inodes
    BY StoreAssumption DEF FirstInode
  <2>2. Table = Abstract!Empty
    BY <1>1, <2>1, StoreAssumption DEF Init, Table, Abstract!Empty, Empty
  <2>3. op = [t \in Threads |-> NoRequest]
    BY <1>1 DEF Init
  <2>4. ASSUME NEW t \in Threads
        PROVE  Phase(t) = "idle" /\ Outcome(t) = Abstract!Says("none")
    BY <1>1, SameSays DEF Init, Phase, Outcome, Reading
  <2> QED BY <2>2, <2>3, <2>4 DEF Abstract!Init
<1>2. Unhashable = {} /\ Whole /\ [Next]_vars
         => [Abstract!Next]_(Abstract!vars)
  BY AbstractStep, FirstNotSeen DEF Whole
<1> QED BY <1>1, <1>2, FirstStartInvariance, PTL DEF Safety, ImplementsUserDB, Abstract!Spec
=============================================================================
