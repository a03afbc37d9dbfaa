------------------------------- MODULE UserDB -------------------------------
(***************************************************************************)
(* What the user store promises: a table of users on which every operation *)
(* acts at one instant between its call and its return, whatever process   *)
(* calls it; an operation that answers "ok" has done what its name says,   *)
(* any other answer means that nothing has changed; and a crash undoes     *)
(* nothing that was done.  No files, no locks, no processes.               *)
(***************************************************************************)

CONSTANTS
    Callers,   \* the threads that call the store
    Users,     \* the user names
    Absent,    \* the entry of a name that has no user
    NoRequest, \* the request of a caller that has none
    Requests   \* the operations with their arguments

VARIABLES
    db,      \* the table
    phase,   \* of each caller: idle, called or done
    request, \* what it asked for
    answer   \* what it will be told

vars == <<db, phase, request, answer>>

-----------------------------------------------------------------------------

Empty == [u \in Users |-> Absent]

\* The answer's list is that of List, and empty for every other operation.
Says(code) == [code |-> code, list |-> Empty]

Init ==
    /\ db = Empty
    /\ phase = [c \in Callers |-> "idle"]
    /\ request = [c \in Callers |-> NoRequest]
    /\ answer = [c \in Callers |-> Says("none")]

Call(c, r) ==
    /\ phase[c] = "idle"
    /\ phase' = [phase EXCEPT ![c] = "called"]
    /\ request' = [request EXCEPT ![c] = r]
    /\ UNCHANGED <<db, answer>>

\* The instant at which c's operation takes effect.
Done(c, table, reply) ==
    /\ phase' = [phase EXCEPT ![c] = "done"]
    /\ db' = table
    /\ answer' = [answer EXCEPT ![c] = reply]
    /\ UNCHANGED request

Refuse(c) == Done(c, db, Says("failed"))

\* A user is added once, with a password to be changed.
Add(c) ==
    LET r == request[c] IN
    /\ r.kind = "add"
    /\ IF db[r.user] = Absent
       THEN Done(c, [db EXCEPT ![r.user] = [password |-> r.password,
                        locked |-> FALSE, force |-> TRUE, seen |-> FALSE]],
                 Says("ok"))
       ELSE Refuse(c)

Remove(c) ==
    LET r == request[c] IN
    /\ r.kind = "remove"
    /\ IF db[r.user] # Absent
       THEN Done(c, [db EXCEPT ![r.user] = Absent], Says("ok"))
       ELSE Refuse(c)

\* What each of the other operations makes of an entry.
Changed(r, u) ==
    CASE r.kind = "lock"   -> [u EXCEPT !.locked = TRUE]
      [] r.kind = "unlock" -> [u EXCEPT !.locked = FALSE]
      [] r.kind = "touch"  -> [u EXCEPT !.seen = TRUE]
      [] r.kind = "reset"  -> [u EXCEPT !.password = r.password, !.force = TRUE]
      [] r.kind = "set"    -> [u EXCEPT !.password = r.password, !.force = FALSE]

Change(c) ==
    LET r == request[c] IN
    /\ r.kind \in {"lock", "unlock", "touch", "reset", "set"}
    /\ IF db[r.user] # Absent
       THEN Done(c, [db EXCEPT ![r.user] = Changed(r, @)], Says("ok"))
       ELSE Refuse(c)

\* A locked user never logs in.
Authenticate(c) ==
    LET r == request[c]
        u == db[r.user]
    IN
    /\ r.kind = "auth"
    /\ Done(c, db, IF u # Absent /\ ~u.locked /\ u.password = r.password
                   THEN Says("yes") ELSE Says("no"))

MustChange(c) ==
    LET u == db[request[c].user] IN
    /\ request[c].kind = "must"
    /\ IF u = Absent THEN Refuse(c)
       ELSE Done(c, db, IF u.force THEN Says("yes") ELSE Says("no"))

List(c) ==
    /\ request[c].kind = "list"
    /\ Done(c, db, [code |-> "ok", list |-> db])

\* The disk fails, and the operation has no effect.
Fail(c) == Done(c, db, Says("error"))

Return(c) ==
    /\ phase[c] = "done"
    /\ phase' = [phase EXCEPT ![c] = "idle"]
    /\ request' = [request EXCEPT ![c] = NoRequest]
    /\ answer' = [answer EXCEPT ![c] = Says("none")]
    /\ UNCHANGED db

\* A process dies with its callers, before or after their operations' effect.
Crash(callers) ==
    /\ phase' = [c \in Callers |-> IF c \in callers THEN "idle" ELSE phase[c]]
    /\ request' = [c \in Callers |->
                      IF c \in callers THEN NoRequest ELSE request[c]]
    /\ answer' = [c \in Callers |->
                      IF c \in callers THEN Says("none") ELSE answer[c]]
    /\ UNCHANGED db

Next ==
    \/ \E c \in Callers :
          \/ \E r \in Requests : Call(c, r)
          \/ /\ phase[c] = "called"
             /\ \/ Add(c) \/ Remove(c) \/ Change(c)
                \/ Authenticate(c) \/ MustChange(c) \/ List(c)
                \/ Fail(c)
          \/ Return(c)
    \/ \E callers \in SUBSET Callers : Crash(callers)

Spec == Init /\ [][Next]_vars
=============================================================================
