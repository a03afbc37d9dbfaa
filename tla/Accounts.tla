------------------------------ MODULE Accounts ------------------------------
(***************************************************************************)
(* Everybody who uses the user store: the SSH server's logins, the form for*)
(* the first password, the runs of oob-manage, and the start of the hub    *)
(* with its migration of the legacy users.                                 *)
(*                                                                         *)
(* UserStore implements UserDB: every call of the store takes effect at one*)
(* instant, or the disk fails and it takes none.  A call is therefore one  *)
(* step here; what its caller makes of the answer is another where somebody*)
(* could tell the difference.                                              *)
(***************************************************************************)
EXTENDS Naturals, Sequences, Functions

CONSTANTS
    Sessions,   \* the SSH logins
    Forms,      \* the goroutines of the password form's submit
    Admins,     \* the runs of oob-manage
    Hub,        \* the start of the hub
    Users,      \* the user names
    UserOf,     \* the user of each login
    Legacy,     \* the users in users.conf, in its order
    Chosen,     \* passwords that users make up, of up to 72 bytes
    Overlong,   \* longer ones: the form takes them and bcrypt does not
    Temps,      \* the temporary passwords in the order of their generation
    NoText,     \* no password
    NoForm,     \* a goroutine that does not run
    Absent,     \* the entry of a name that has no user
    MaxStarts,  \* bound: starts of the hub
    MaxCrashes  \* bound: processes killed

Passwords == Chosen \cup Range(Temps)
Drawers   == Admins \cup {Hub}
Entries   == [password : Passwords, locked : BOOLEAN, force : BOOLEAN]
Texts     == [session : Sessions, text : Passwords \cup Overlong]

\* A generated password is new: 12 random characters are neither those of one
\* before nor what somebody makes up.  (What is printed can be typed: Submit.)
ASSUME AccountsAssumption ==
    /\ UserOf \in [Sessions -> Users]
    /\ Legacy \in Seq(Users)
    /\ Temps \in Seq(Range(Temps)) /\ IsInjective(Temps)
    /\ Chosen \cap Range(Temps) = {}
    /\ Passwords \cap Overlong = {}
    /\ NoText \notin Passwords \cup Overlong
    /\ Hub \notin Admins
    /\ Absent \notin Entries /\ NoForm \notin Texts
    /\ {MaxStarts, MaxCrashes} \subseteq Nat

VARIABLES
    db,       \* the table of the user store
    screen,   \* each login: "new", "must" in teaHandler, then its screen
    login,    \* the password it authenticated with
    excuse,   \* why it may get to the menu although its change is still due
    msgs,     \* PasswordChangedMsg and ErrorMsg on their way to a session
    form,     \* what each submission has captured of the form's two fields
    admin,    \* where each run of oob-manage is
    hub,      \* where the hub is
    next,     \* the migration's loop variable
    legacy,   \* users.conf is still there
    temp,     \* the temporary password a process is to announce
    drawn,    \* temporary passwords stored so far
    told,     \* those that were printed
    retyped,  \* those that a form has stored as a user's new password
    removed,  \* users that were removed
    starts, crashes

sessionVars == <<screen, login, excuse, msgs, form>>
hubVars     == <<hub, next, legacy, starts>>
tempVars    == <<temp, drawn, told, retyped>>
vars        == <<db, sessionVars, hubVars, tempVars, admin, removed, crashes>>

\* PasswordChangedMsg and ErrorMsg
Kinds == {"changed", "error"}

\* The types; and the migration's loop does not leave its list.
TypeOK ==
    /\ db \in [Users -> Entries \cup {Absent}]
    /\ screen \in [Sessions -> {"new", "must", "password", "menu", "closed"}]
    /\ login \in [Sessions -> Passwords \cup {NoText}]
    /\ excuse \in [Sessions -> {"none", "unread", "overlong"}]
    /\ msgs \subseteq [kind : Kinds, to : Sessions]
    /\ form \in [Forms -> Texts \cup {NoForm}]
    /\ admin \in [Admins -> {"ready", "done", "exited"}]
    /\ hub \in {"off", "migrating", "added", "loading", "up", "stopping"}
    /\ next \in Nat \ {0}
    /\ hub = "added" => next \in DOMAIN Legacy
    /\ legacy \in BOOLEAN
    /\ temp \in [Drawers -> Range(Temps) \cup {NoText}]
    /\ drawn \in 0..Len(Temps)
    /\ told \subseteq Range(Temps)
    /\ retyped \subseteq Users \X Range(Temps)
    /\ removed \subseteq Users
    /\ starts \in 0..MaxStarts
    /\ crashes \in 0..MaxCrashes

\* An installation that is to be migrated.
Init ==
    /\ db = [u \in Users |-> Absent]
    /\ screen = [s \in Sessions |-> "new"]
    /\ login = [s \in Sessions |-> NoText]
    /\ excuse = [s \in Sessions |-> "none"]
    /\ msgs = {}
    /\ form = [f \in Forms |-> NoForm]
    /\ admin = [a \in Admins |-> "ready"]
    /\ hub = "off"
    /\ next = 1
    /\ legacy = TRUE
    /\ temp = [d \in Drawers |-> NoText]
    /\ drawn = 0
    /\ told = {}
    /\ retyped = {}
    /\ removed = {}
    /\ starts = 0
    /\ crashes = 0

-----------------------------------------------------------------------------
(* The store's operations, and the printing of what was stored.            *)

Exists(u) == db[u] # Absent

Update(u, entry) == db' = [db EXCEPT ![u] = entry]

\* GenerateTemporaryPassword, and Add or Reset with it.
Draw(d, u) ==
    /\ drawn < Len(Temps)
    /\ drawn' = drawn + 1
    /\ temp' = [temp EXCEPT ![d] = Temps[drawn']]
    /\ Update(u, [password |-> Temps[drawn'], force |-> TRUE,
                  locked |-> Exists(u) /\ db[u].locked])
    /\ UNCHANGED <<told, retyped>>

Tell(d) ==
    /\ told' = (told \cup {temp[d]}) \ {NoText}
    /\ temp' = [temp EXCEPT ![d] = NoText]
    /\ UNCHANGED <<drawn, retyped>>

Forget(d) ==
    temp' = [temp EXCEPT ![d] = NoText] /\ UNCHANGED <<drawn, told, retyped>>

\* What somebody can type: a password made up, or one that was printed.
Known == Chosen \cup told

Screen(s, name) == screen' = [screen EXCEPT ![s] = name]

Show(kind, s) ==
    msgs' = IF screen[s] = "closed" THEN msgs ELSE msgs \cup {[kind |-> kind, to |-> s]}

-----------------------------------------------------------------------------
(* passwordAuth, teaHandler and tui.New.                                   *)

\* Somebody logs in with a password of their own or one that was printed; a
\* refusal, and the time of the login that is stored (or not: the error is
\* ignored), change nothing here.
Authenticate(s) ==
    /\ hub = "up" /\ screen[s] = "new"
    /\ Exists(UserOf[s]) /\ ~db[UserOf[s]].locked
    /\ db[UserOf[s]].password \in Known
    /\ login' = [login EXCEPT ![s] = db[UserOf[s]].password]
    /\ Screen(s, "must")
    /\ UNCHANGED <<db, excuse, msgs, form, hubVars, tempVars, admin, removed, crashes>>

\* A user that is gone and a disk that fails are an error, and an error lets
\* the session go on to the menu.
MustChange(s) ==
    /\ screen[s] = "must"
    /\ \/ /\ Exists(UserOf[s])
          /\ Screen(s, IF db[UserOf[s]].force THEN "password" ELSE "menu")
          /\ UNCHANGED excuse
       \/ /\ Screen(s, "menu")
          /\ excuse' = [excuse EXCEPT ![s] = "unread"]
    /\ UNCHANGED <<db, login, msgs, form, hubVars, tempVars, admin, removed, crashes>>

\* ctrl+c in the form, q in the menu, or a connection that breaks.
End(s) ==
    /\ screen[s] \in {"password", "menu"}
    /\ Screen(s, "closed")
    /\ login' = [login EXCEPT ![s] = NoText]
    /\ excuse' = [excuse EXCEPT ![s] = "none"]
    /\ msgs' = {m \in msgs : m.to # s}
    /\ UNCHANGED <<db, form, hubVars, tempVars, admin, removed, crashes>>

-----------------------------------------------------------------------------
(* PasswordModel and updatePasswordChange.                                 *)

\* Enter in the second field: a goroutine takes the form as it stands, and
\* the form stays open until its answer is there, so that Enter works again.
\* Typing and moving between the fields only decide what there is to take; the
\* form asks of a text no more than its length and to be there twice (what it
\* refuses, Reject has).
Submit(s, f) ==
    /\ screen[s] = "password"
    /\ form[f] = NoForm
    /\ \E text \in Known \cup Overlong :
          form' = [form EXCEPT ![f] = [session |-> s, text |-> text]]
    /\ UNCHANGED <<db, screen, login, excuse, msgs, hubVars, tempVars, admin,
                   removed, crashes>>

Ends(f) == form' = [form EXCEPT ![f] = NoForm]

\* Seeded fault: the error of SetPassword is not looked at.
Reject_Unchecked(f) ==
    /\ form[f] # NoForm
    /\ Show("changed", form[f].session)
    /\ Ends(f)
    /\ UNCHANGED <<db, screen, login, excuse, hubVars, tempVars, admin, removed, crashes>>

\* The form is refused, or SetPassword returns an error.
Reject(f) ==
    /\ form[f] # NoForm
    /\ Show("error", form[f].session)
    /\ Ends(f)
    /\ UNCHANGED <<db, screen, login, excuse, hubVars, tempVars, admin, removed, crashes>>

\* SetPassword ends the forced change, whoever else has changed the entry.
SetPassword(f) ==
    /\ form[f] # NoForm /\ form[f].text \in Passwords
    /\ LET u == UserOf[form[f].session]
       IN  /\ Exists(u)
           /\ Update(u, [db[u] EXCEPT !.password = form[f].text, !.force = FALSE])
           /\ retyped' = retyped \cup ({<<u, form[f].text>>} \cap (Users \X Range(Temps)))
    /\ Show("changed", form[f].session)
    /\ Ends(f)
    /\ UNCHANGED <<screen, login, excuse, hubVars, temp, drawn, told, admin,
                   removed, crashes>>

\* bcrypt refuses more than 72 bytes; SetPassword drops that error, writes the
\* table as it was and returns nil.
Swallow(f) ==
    /\ form[f] # NoForm /\ form[f].text \in Overlong
    /\ Exists(UserOf[form[f].session])
    /\ excuse' = [excuse EXCEPT ![form[f].session] = "overlong"]
    /\ Show("changed", form[f].session)
    /\ Ends(f)
    /\ UNCHANGED <<db, screen, login, hubVars, tempVars, admin, removed, crashes>>

\* Seeded fault: an answer does not count while another submission runs.
Deliver_Busy(s, kind) ==
    /\ [kind |-> kind, to |-> s] \in msgs
    /\ msgs' = msgs \ {[kind |-> kind, to |-> s]}
    /\ IF kind = "changed" /\ screen[s] = "password" /\ \A f \in Forms : form[f] = NoForm
       THEN Screen(s, "menu") ELSE UNCHANGED screen
    /\ UNCHANGED <<db, login, excuse, form, hubVars, tempVars, admin, removed, crashes>>

\* The session's event loop; a message it no longer waits for is dropped.
Deliver(s, kind) ==
    /\ [kind |-> kind, to |-> s] \in msgs
    /\ msgs' = msgs \ {[kind |-> kind, to |-> s]}
    /\ IF kind = "changed" /\ screen[s] = "password"
       THEN Screen(s, "menu") ELSE UNCHANGED screen
    /\ UNCHANGED <<db, login, excuse, form, hubVars, tempVars, admin, removed, crashes>>

-----------------------------------------------------------------------------
(* oob-manage: one command, what it prints, and the end of the process.    *)

Leaves(a, place) == admin' = [admin EXCEPT ![a] = place]

\* A bad command line, an error of the store, or list: nothing is changed.
Exit(a) ==
    /\ admin[a] = "ready"
    /\ Leaves(a, "exited")
    /\ UNCHANGED <<db, sessionVars, hubVars, tempVars, removed, crashes>>

\* add, which wants a new name, and reset, which wants an old one.
Issue(a) ==
    /\ admin[a] = "ready"
    /\ \E u \in Users : Draw(a, u)
    /\ Leaves(a, "done")
    /\ UNCHANGED <<sessionVars, hubVars, removed, crashes>>

\* lock and unlock
Lock(a) ==
    /\ admin[a] = "ready"
    /\ \E u \in Users, locked \in BOOLEAN :
          Exists(u) /\ Update(u, [db[u] EXCEPT !.locked = locked])
    /\ Leaves(a, "exited")
    /\ UNCHANGED <<sessionVars, hubVars, tempVars, removed, crashes>>

Remove(a) ==
    /\ admin[a] = "ready"
    /\ \E u \in Users : /\ Exists(u)
                        /\ Update(u, Absent)
                        /\ removed' = removed \cup {u}
    /\ Leaves(a, "exited")
    /\ UNCHANGED <<sessionVars, hubVars, tempVars, crashes>>

\* Seeded fault: the new password is not printed.
Announce_Terse(a) ==
    /\ admin[a] = "done"
    /\ Forget(a)
    /\ Leaves(a, "exited")
    /\ UNCHANGED <<db, sessionVars, hubVars, removed, crashes>>

\* The change is announced only once it is made.
Announce(a) ==
    /\ admin[a] = "done"
    /\ Tell(a)
    /\ Leaves(a, "exited")
    /\ UNCHANGED <<db, sessionVars, hubVars, removed, crashes>>

-----------------------------------------------------------------------------
(* The hub: MigrateFromLegacy, the configuration, and the SSH server.      *)

At(place, i) == hub' = place /\ next' = i

Start ==
    /\ hub = "off" /\ starts < MaxStarts
    /\ starts' = starts + 1
    /\ At("migrating", 1)
    /\ UNCHANGED <<db, sessionVars, legacy, tempVars, admin, removed, crashes>>

\* There is nothing to migrate.
SkipMigration ==
    /\ hub = "migrating"
    /\ ~legacy \/ Legacy = <<>>
    /\ At("loading", 1)
    /\ UNCHANGED <<db, sessionVars, legacy, starts, tempVars, admin, removed, crashes>>

Adding == hub = "migrating" /\ legacy /\ next <= Len(Legacy)

AddNext ==
    /\ Adding
    /\ ~Exists(Legacy[next]) /\ Draw(Hub, Legacy[next])
    /\ At("added", next)
    /\ UNCHANGED <<sessionVars, legacy, starts, admin, removed, crashes>>

PrintAdded ==
    /\ hub = "added"
    /\ Tell(Hub)
    /\ At("migrating", next + 1)
    /\ UNCHANGED <<db, sessionVars, legacy, starts, admin, removed, crashes>>

\* Seeded fault: a user that exists is tried again.
SkipExisting_Insists ==
    /\ Adding
    /\ Exists(Legacy[next])
    /\ At("migrating", next)
    /\ UNCHANGED <<db, sessionVars, legacy, starts, tempVars, admin, removed, crashes>>

\* "already exists"; the password that was generated for it is nobody's.
SkipExisting ==
    /\ Adding
    /\ Exists(Legacy[next])
    /\ At("migrating", next + 1)
    /\ UNCHANGED <<db, sessionVars, legacy, starts, tempVars, admin, removed, crashes>>

\* Seeded fault: any error only skips the user.
AddFails_Skips ==
    /\ Adding
    /\ At("migrating", next + 1)
    /\ UNCHANGED <<db, sessionVars, legacy, starts, tempVars, admin, removed, crashes>>

\* Any other error ends the migration, and main only warns: of the store, of
\* reading users.conf, or of the random numbers.
AddFails ==
    /\ Adding
    /\ At("loading", 1)
    /\ UNCHANGED <<db, sessionVars, legacy, starts, tempVars, admin, removed, crashes>>

\* users.conf is renamed, or stays: the error is ignored.  Nobody reads the
\* other two files, which are renamed after it.
PutAway ==
    /\ hub = "migrating" /\ legacy /\ Legacy # <<>>
    /\ next > Len(Legacy)
    /\ legacy' \in BOOLEAN
    /\ At("loading", 1)
    /\ UNCHANGED <<db, sessionVars, starts, tempVars, admin, removed, crashes>>

Serve ==
    /\ hub = "loading"
    /\ At("up", 1)
    /\ UNCHANGED <<db, sessionVars, legacy, starts, tempVars, admin, removed, crashes>>

\* SIGINT or SIGTERM
Shutdown ==
    /\ hub = "up"
    /\ At("stopping", 1)
    /\ UNCHANGED <<db, sessionVars, legacy, starts, tempVars, admin, removed, crashes>>

\* The hub's process is gone with all its goroutines.
HubEnds ==
    /\ At("off", 1)
    /\ screen' = [s \in Sessions |-> IF screen[s] = "new" THEN "new" ELSE "closed"]
    /\ login' = [s \in Sessions |-> NoText]
    /\ excuse' = [s \in Sessions |-> "none"]
    /\ form' = [f \in Forms |-> NoForm]
    /\ msgs' = {}
    /\ Forget(Hub)
    /\ UNCHANGED <<db, legacy, starts, admin, removed>>

\* No site list or no host key; the end of main; or os.Exit in the goroutine
\* of ListenAndServe, which returns as soon as Shutdown begins.
HubExits == hub \in {"loading", "up", "stopping"} /\ HubEnds /\ UNCHANGED crashes

HubKilled ==
    /\ hub # "off" /\ crashes < MaxCrashes
    /\ crashes' = crashes + 1
    /\ HubEnds

AdminKilled(a) ==
    /\ admin[a] = "done" /\ crashes < MaxCrashes
    /\ crashes' = crashes + 1
    /\ Leaves(a, "exited")
    /\ Forget(a)
    /\ UNCHANGED <<db, sessionVars, hubVars, removed>>

-----------------------------------------------------------------------------

Goroutine(f) == Reject(f) \/ SetPassword(f) \/ Swallow(f)

Migrate ==
    SkipMigration \/ AddNext \/ PrintAdded \/ SkipExisting \/ PutAway

\* Everybody is done and the hub is down for good.
Terminating ==
    /\ hub = "off" /\ starts = MaxStarts
    /\ \A a \in Admins : admin[a] = "exited"
    /\ UNCHANGED vars

Next ==
    \/ \E s \in Sessions :
          \/ Authenticate(s) \/ MustChange(s) \/ End(s)
          \/ \E kind \in Kinds : Deliver(s, kind)
          \/ \E f \in Forms : Submit(s, f)
    \/ \E f \in Forms : Goroutine(f)
    \/ \E a \in Admins :
          Exit(a) \/ Issue(a) \/ Lock(a) \/ Remove(a) \/ Announce(a) \/ AdminKilled(a)
    \/ Start \/ Migrate \/ AddFails \/ Serve \/ Shutdown \/ HubExits \/ HubKilled
    \/ Terminating

Safety == Init /\ [][Next]_vars

\* Goroutines and processes run, and the runtime lets messages wait in a
\* queue.  Nobody has to press a key or run a command, and the disk need not
\* fail.
Fairness ==
    /\ \A s \in Sessions, kind \in Kinds : WF_vars(Deliver(s, kind))
    /\ \A s \in Sessions : WF_vars(MustChange(s))
    /\ \A f \in Forms : WF_vars(Goroutine(f))
    /\ WF_vars(Migrate)

Spec == Safety /\ Fairness

-----------------------------------------------------------------------------

\* "Users get a temporary password and must change it on first login": whoever
\* has logged in with one is in the menu only once it is no longer the user's
\* password, or when MustChangePassword has failed, which teaHandler takes for a
\* no.  The form breaks this: it takes the temporary password for a new one, and
\* a text that bcrypt refuses for a change that was made.
TemporaryIsReplaced ==
    \A s \in Sessions :
        /\ screen[s] = "menu" /\ excuse[s] # "unread"
        /\ login[s] \in Range(Temps)
        /\ Exists(UserOf[s])
        => db[UserOf[s]].password # login[s]

\* What holds: whatever else happens to the user, a temporary password stays in
\* force behind an open menu only if somebody typed that very password into a
\* form of that user, the session's own text was too long for bcrypt, or
\* MustChangePassword failed for it.
ReplacedOrRetyped ==
    \A s \in Sessions :
        /\ screen[s] = "menu" /\ excuse[s] = "none"
        /\ login[s] \in Range(Temps)
        /\ Exists(UserOf[s]) /\ db[UserOf[s]].password = login[s]
        => <<UserOf[s], login[s]>> \in retyped

\* Somebody knows each user's password: it was chosen, or printed, or the
\* process that made it is about to print it.  Only a crash in between leaves
\* a user nobody can log in as.
PasswordIsKnown ==
    crashes = 0 =>
        \A u \in Users : Exists(u) =>
            db[u].password \in Known \cup Range(temp)

\* The legacy users are put away only when every one of them has been added,
\* over any number of starts that were cut short: none is forgotten.
NoUserLeftBehind ==
    ~legacy =>
        \A i \in DOMAIN Legacy : Exists(Legacy[i]) \/ Legacy[i] \in removed

-----------------------------------------------------------------------------
(* The inductive invariant behind the three, in named parts.               *)

\* What is stored or presented is made up or one of the passwords generated so
\* far; an entry with one of those has a change to make, unless it was typed again.
FreshInv ==
    LET used == {Temps[i] : i \in 1..drawn}
    IN  /\ \A u \in Users : Exists(u) /\ db[u].password \notin Chosen =>
               /\ db[u].password \in used
               /\ db[u].force \/ <<u, db[u].password>> \in retyped
        /\ \A s \in Sessions : login[s] \in Chosen \cup used \cup {NoText}

\* Nor can anybody print or type another one.
TypedInv ==
    LET used == {Temps[i] : i \in 1..drawn}
    IN  /\ told \subseteq used
        /\ \A d \in Drawers : temp[d] \in used \cup {NoText}
        /\ \A f \in Forms : form[f] # NoForm => form[f].text \in Known \cup Overlong

\* Nothing of a form is on its way to a session that has not opened one.
QuietInv ==
    \A s \in Sessions : screen[s] \in {"new", "must"} =>
        /\ \A kind \in Kinds : [kind |-> kind, to |-> s] \notin msgs
        /\ \A f \in Forms : form[f] # NoForm => form[f].session # s

Replaced(s) ==
    login[s] \in Range(Temps) /\ Exists(UserOf[s]) =>
        \/ db[UserOf[s]].password # login[s]
        \/ <<UserOf[s], login[s]>> \in retyped

MenuInv ==
    \A s \in Sessions :
        /\ excuse[s] = "none"
        /\ screen[s] = "menu" \/ [kind |-> "changed", to |-> s] \in msgs
        => Replaced(s)

\* Only who has changed something, and not said so yet, has a password in hand.
PrintInv ==
    /\ temp[Hub] # NoText => hub = "added"
    /\ \A a \in Admins : temp[a] # NoText => admin[a] = "done"

\* How far the migration has come.
MigrateInv ==
    LET Migrated(i) == Exists(Legacy[i]) \/ Legacy[i] \in removed
    IN  /\ hub \in {"migrating", "added"} =>
               \A i \in DOMAIN Legacy : i < next => Migrated(i)
        /\ hub = "added" => Migrated(next)

IInv ==
    /\ TypeOK
    /\ FreshInv /\ TypedInv
    /\ QuietInv
    /\ MenuInv
    /\ PrintInv /\ PasswordIsKnown
    /\ MigrateInv /\ NoUserLeftBehind

-----------------------------------------------------------------------------
(* Liveness.                                                               *)

\* A password that was set opens the menu, whatever other answers the form
\* still gets.
ChangeOpensMenu ==
    \A s \in Sessions :
        [kind |-> "changed", to |-> s] \in msgs ~> screen[s] # "password"

\* The hub comes up whatever the migration meets: a user that exists, a disk
\* that fails, files that cannot be renamed.
MigrationEnds ==
    hub \in {"migrating", "added"} ~> hub \in {"loading", "off"}
=============================================================================
