--------------------------- MODULE AccountsProofs ---------------------------
(***************************************************************************)
(* Theorems about Accounts for any logins, forms, runs of oob-manage,      *)
(* users, legacy list, starts and crashes.                                 *)
(*                                                                         *)
(* IInv (in Accounts) is inductive.  FreshInv and TypedInv say that a      *)
(* temporary password that is generated is one nobody has seen, stored or  *)
(* typed; QuietInv, that an answer of the form never meets a login that    *)
(* has not opened a form.                                                  *)
(***************************************************************************)
EXTENDS Accounts, TLAPS

-----------------------------------------------------------------------------
(* Passwords and entries.                                                  *)

\* A generated password is a temporary one, and is not one of those before it.
LEMMA NewPassword ==
    ASSUME NEW n \in 0..Len(Temps), n < Len(Temps)
    PROVE  /\ Temps[n + 1] \in Range(Temps)
           /\ Temps[n + 1] \in {Temps[i] : i \in 1..(n + 1)}
           /\ {Temps[i] : i \in 1..n} \subseteq {Temps[i] : i \in 1..(n + 1)}
           /\ Temps[n + 1] \notin {Temps[i] : i \in 1..n}
           /\ Temps[n + 1] \notin Chosen
           /\ Temps[n + 1] # NoText
<1>1. n + 1 \in DOMAIN Temps /\ DOMAIN Temps = 1..Len(Temps)
  BY AccountsAssumption
<1>2. Temps[n + 1] \in Range(Temps)
  BY <1>1 DEF Range
<1>3. Temps[n + 1] \notin {Temps[i] : i \in 1..n}
  BY <1>1, AccountsAssumption DEF IsInjective
<1>4. Temps[n + 1] \in {Temps[i] : i \in 1..(n + 1)}
  OBVIOUS
<1>5. {Temps[i] : i \in 1..n} \subseteq {Temps[i] : i \in 1..(n + 1)}
  OBVIOUS
<1> QED BY <1>2, <1>3, <1>4, <1>5, AccountsAssumption DEF Passwords

\* What Draw stores.
LEMMA DrawStores ==
    ASSUME TypeOK, FreshInv, NEW d \in Drawers, NEW u \in Users, Draw(d, u)
    PROVE  /\ drawn < Len(Temps) /\ drawn' = drawn + 1 /\ drawn' \in 0..Len(Temps)
           /\ db' \in [Users -> Entries \cup {Absent}]
           /\ db'[u] # Absent /\ db'[u] \in Entries
           /\ db'[u].force /\ db'[u].password = Temps[drawn']
           /\ \A v \in Users \ {u} : db'[v] = db[v]
           /\ temp' \in [Drawers -> Range(Temps) \cup {NoText}]
           /\ temp'[d] = Temps[drawn']
           /\ \A e \in Drawers \ {d} : temp'[e] = temp[e]
           /\ told' = told /\ retyped' = retyped
<1>1. drawn \in 0..Len(Temps) /\ drawn < Len(Temps) /\ drawn' = drawn + 1 /\ Len(Temps) \in Nat
  BY AccountsAssumption DEF Draw, TypeOK
<1>2. Temps[drawn'] \in Range(Temps) /\ Temps[drawn'] \in Passwords
  BY <1>1, NewPassword DEF Passwords
<1>3. PICK l \in BOOLEAN : l = (Exists(u) /\ db[u].locked)
  <2>1. CASE db[u] = Absent
    BY <2>1 DEF Exists
  <2>2. CASE db[u] # Absent
    BY <2>2 DEF Exists, TypeOK, Entries
  <2> QED BY <2>1, <2>2
<1> DEFINE e == [password |-> Temps[drawn'], force |-> TRUE, locked |-> l]
<1>4. e \in Entries /\ e # Absent /\ e.force /\ e.password = Temps[drawn']
  <2>1. e \in Entries
    BY <1>2 DEF Entries
  <2> QED BY <2>1, AccountsAssumption
<1>5. db' = [db EXCEPT ![u] = e]
  BY <1>3 DEF Draw, Update
<1> HIDE DEF e
<1> QED BY <1>1, <1>2, <1>4, <1>5 DEF Draw, TypeOK

\* A temporary password that is stored keeps FreshInv.
LEMMA DrawFresh ==
    ASSUME TypeOK, FreshInv, NEW d \in Drawers, NEW u \in Users, Draw(d, u), login' = login
    PROVE  FreshInv'
<1> DEFINE used == {Temps[i] : i \in 1..drawn}
<1> DEFINE more == {Temps[i] : i \in 1..drawn'}
<1>1. drawn \in Nat /\ drawn' = drawn + 1
  BY DrawStores DEF TypeOK
<1>2. used \subseteq more /\ Temps[drawn'] \in more
  BY <1>1
<1> HIDE DEF used, more
<1>3. \A v \in Users : db'[v] # Absent /\ db'[v].password \notin Chosen =>
          /\ db'[v].password \in more
          /\ db'[v].force \/ <<v, db'[v].password>> \in retyped'
  <2> SUFFICES ASSUME NEW v \in Users, db'[v] # Absent, db'[v].password \notin Chosen
               PROVE  /\ db'[v].password \in more
                      /\ db'[v].force \/ <<v, db'[v].password>> \in retyped'
    OBVIOUS
  <2>1. CASE v = u
    BY <2>1, <1>2, DrawStores
  <2>2. CASE v # u
    <3>1. db'[v] = db[v]
      BY <2>2, DrawStores
    <3>2. db[v].password \in used /\ (db[v].force \/ <<v, db[v].password>> \in retyped)
      BY <3>1 DEF FreshInv, Exists, used
    <3> QED BY <3>1, <3>2, <1>2, DrawStores
  <2> QED BY <2>1, <2>2
<1>4. \A s \in Sessions : login'[s] \in Chosen \cup more \cup {NoText}
  BY <1>2 DEF FreshInv, used
<1> QED BY <1>3, <1>4 DEF FreshInv, Exists, more

\* It keeps TypedInv.
LEMMA DrawTyped ==
    ASSUME TypeOK, FreshInv, TypedInv, NEW d \in Drawers, NEW u \in Users, Draw(d, u),
           form' = form
    PROVE  TypedInv'
<1> DEFINE used == {Temps[i] : i \in 1..drawn}
<1> DEFINE more == {Temps[i] : i \in 1..drawn'}
<1>1. drawn \in Nat /\ drawn' = drawn + 1
  BY DrawStores DEF TypeOK
<1>2. used \subseteq more /\ Temps[drawn'] \in more
  BY <1>1
<1>3. /\ told \subseteq used
      /\ \A e \in Drawers : temp[e] \in used \cup {NoText}
      /\ \A f \in Forms : form[f] # NoForm => form[f].text \in Known \cup Overlong
  BY DEF TypedInv
<1> HIDE DEF used, more
<1>4. \A e \in Drawers : temp'[e] \in more \cup {NoText}
  BY <1>2, <1>3, DrawStores
<1>5. told' \subseteq more /\ Known' = Known
  BY <1>2, <1>3, DrawStores DEF Known
<1> QED BY <1>3, <1>4, <1>5 DEF TypedInv, more

\* Nobody has logged in with a temporary password that is new.
LEMMA DrawReplaced ==
    ASSUME TypeOK, FreshInv, NEW d \in Drawers, NEW u \in Users, Draw(d, u), login' = login,
           NEW s \in Sessions, Replaced(s)
    PROVE  Replaced(s)'
<1>1. Temps[drawn'] \notin Chosen \cup {Temps[i] : i \in 1..drawn} \cup {NoText}
  BY DrawStores, NewPassword DEF TypeOK
<1>2. login[s] # Temps[drawn']
  BY <1>1 DEF FreshInv
<1>3. CASE UserOf[s] = u
  BY <1>2, <1>3, DrawStores DEF Replaced
<1>4. CASE UserOf[s] # u
  BY <1>4, DrawStores, AccountsAssumption DEF Replaced, Exists
<1> QED BY <1>3, <1>4

\* What SetPassword stores.
LEMMA SetStores ==
    ASSUME TypeOK, TypedInv, NEW f \in Forms, SetPassword(f)
    PROVE  LET u == UserOf[form[f].session]
           IN  /\ form[f].session \in Sessions /\ u \in Users
               /\ db' \in [Users -> Entries \cup {Absent}]
               /\ db[u] # Absent /\ db'[u] \in Entries
               /\ db'[u].password \in Known
               /\ db'[u].password \in Chosen \/ <<u, db'[u].password>> \in retyped'
               /\ \A v \in Users \ {u} : db'[v] = db[v]
               /\ retyped \subseteq retyped' /\ retyped' \subseteq Users \X Range(Temps)
<1> DEFINE u == UserOf[form[f].session]
<1>1. form[f] \in Texts /\ form[f].text \in Passwords /\ form[f].text \in Known
  BY AccountsAssumption DEF SetPassword, TypeOK, TypedInv
<1>2. form[f].session \in Sessions /\ u \in Users
  BY <1>1, AccountsAssumption DEF Texts
<1>3. db[u] \in Entries /\ db[u] # Absent
  BY <1>2 DEF SetPassword, Exists, TypeOK
<1> DEFINE e == [db[u] EXCEPT !.password = form[f].text, !.force = FALSE]
<1>4. e \in Entries /\ e.password = form[f].text
  BY <1>1, <1>3 DEF Entries
<1>5. db' = [db EXCEPT ![u] = e]
  BY DEF SetPassword, Update
<1>6. /\ retyped \subseteq retyped' /\ retyped' \subseteq Users \X Range(Temps)
      /\ form[f].text \in Chosen \/ <<u, form[f].text>> \in retyped'
  BY <1>1, <1>2 DEF SetPassword, TypeOK, Passwords
<1> HIDE DEF e
<1> QED BY <1>1, <1>2, <1>3, <1>4, <1>5, <1>6 DEF TypeOK

\* What lock and unlock store.
LEMMA LockStores ==
    ASSUME TypeOK, NEW a \in Admins, Lock(a)
    PROVE  /\ db' \in [Users -> Entries \cup {Absent}]
           /\ \A v \in Users :
                 /\ db'[v] = Absent <=> db[v] = Absent
                 /\ db[v] # Absent => /\ db'[v].password = db[v].password
                                      /\ db'[v].force = db[v].force
<1>1. PICK u \in Users, l \in BOOLEAN : Exists(u) /\ Update(u, [db[u] EXCEPT !.locked = l])
  BY DEF Lock
<1>2. db[u] \in Entries
  BY <1>1 DEF Exists, TypeOK
<1> DEFINE e == [db[u] EXCEPT !.locked = l]
<1>3. e \in Entries /\ e.password = db[u].password /\ e.force = db[u].force
  BY <1>2 DEF Entries
<1>4. e # Absent
  BY <1>3, AccountsAssumption
<1>5. db' = [db EXCEPT ![u] = e]
  BY <1>1 DEF Update
<1> HIDE DEF e
<1> QED BY <1>1, <1>3, <1>4, <1>5 DEF Exists, TypeOK

-----------------------------------------------------------------------------
(* The invariant holds initially and is kept by every step.                *)

\* An installation that is to be migrated satisfies the invariant.
LEMMA InitInv == Init => IInv
<1> SUFFICES ASSUME Init PROVE IInv
  OBVIOUS
<1> USE AccountsAssumption DEF Init
<1>1. TypeOK
  BY DEF TypeOK
<1>2. FreshInv /\ TypedInv
  BY DEF FreshInv, TypedInv, Exists
<1>3. QuietInv /\ MenuInv
  BY DEF QuietInv, MenuInv, Replaced
<1>4. PrintInv /\ PasswordIsKnown
  BY DEF PrintInv, PasswordIsKnown, Drawers, Exists
<1>5. MigrateInv /\ NoUserLeftBehind
  BY DEF MigrateInv, NoUserLeftBehind
<1> QED BY <1>1, <1>2, <1>3, <1>4, <1>5 DEF IInv

\* The vocabulary of the step lemmas.
USE DEF IInv, Exists, Update, Screen, Show, Ends, Leaves, At, Forget,
        Known, sessionVars, hubVars, tempVars

\* Every step keeps the types.
LEMMA TypeStep == ASSUME IInv, [Next]_vars PROVE TypeOK'
<1> USE AccountsAssumption
<1>1. CASE UNCHANGED vars
  BY <1>1 DEF TypeOK, vars
<1>2. ASSUME NEW s \in Sessions, Authenticate(s) PROVE TypeOK'
  BY <1>2 DEF Authenticate, TypeOK, Entries, Passwords
<1>3. ASSUME NEW s \in Sessions, MustChange(s) PROVE TypeOK'
  BY <1>3 DEF MustChange, TypeOK
<1>4. ASSUME NEW s \in Sessions, End(s) PROVE TypeOK'
  BY <1>4 DEF End, TypeOK
<1>5. ASSUME NEW s \in Sessions, NEW f \in Forms, Submit(s, f) PROVE TypeOK'
  BY <1>5 DEF Submit, TypeOK, Texts, Passwords
<1>6. ASSUME NEW f \in Forms, Reject(f) PROVE TypeOK'
  BY <1>6 DEF Reject, TypeOK, Texts, Kinds
<1>7. ASSUME NEW f \in Forms, SetPassword(f) PROVE TypeOK'
  <2>1. /\ db' \in [Users -> Entries \cup {Absent}] /\ form[f].session \in Sessions
        /\ retyped' \subseteq Users \X Range(Temps)
    BY <1>7, SetStores
  <2> HIDE DEF Update
  <2> QED BY <1>7, <2>1 DEF SetPassword, TypeOK, Kinds
<1>8. ASSUME NEW s \in Sessions, NEW kind \in Kinds, Deliver(s, kind) PROVE TypeOK'
  BY <1>8 DEF Deliver, TypeOK
<1>9. ASSUME NEW a \in Admins, Exit(a) PROVE TypeOK'
  BY <1>9 DEF Exit, TypeOK
<1>10. ASSUME NEW a \in Admins, Issue(a) PROVE TypeOK'
  <2>1. PICK u \in Users : Draw(a, u)
    BY <1>10 DEF Issue
  <2>2. a \in Drawers
    BY DEF Drawers
  <2> HIDE DEF Exists, Update
  <2> QED BY <1>10, <2>1, <2>2, DrawStores DEF Issue, Exists, TypeOK
<1>11. ASSUME NEW a \in Admins, Lock(a) PROVE TypeOK'
  BY <1>11, LockStores DEF Lock, TypeOK
<1>12. ASSUME NEW a \in Admins, Remove(a) PROVE TypeOK'
  BY <1>12 DEF Remove, TypeOK
<1>13. ASSUME NEW a \in Admins, Announce(a) PROVE TypeOK'
  BY <1>13 DEF Announce, Tell, TypeOK, Drawers
<1>14. ASSUME NEW a \in Admins, AdminKilled(a) PROVE TypeOK'
  BY <1>14 DEF AdminKilled, TypeOK, Drawers
<1>15. ASSUME Start PROVE TypeOK'
  BY <1>15 DEF Start, TypeOK
<1>16. ASSUME SkipMigration PROVE TypeOK'
  BY <1>16 DEF SkipMigration, TypeOK
<1>17. ASSUME AddNext PROVE TypeOK'
  <2>1. /\ Draw(Hub, Legacy[next]) /\ Legacy[next] \in Users
        /\ Hub \in Drawers /\ next \in DOMAIN Legacy
    BY <1>17 DEF AddNext, Adding, Drawers, TypeOK
  <2> HIDE DEF Update
  <2> QED BY <1>17, <2>1, DrawStores DEF AddNext, Adding, TypeOK
<1>18. ASSUME PrintAdded PROVE TypeOK'
  BY <1>18 DEF PrintAdded, Tell, TypeOK, Drawers
<1>19. ASSUME SkipExisting PROVE TypeOK'
  BY <1>19 DEF SkipExisting, Adding, TypeOK
<1>20. ASSUME AddFails PROVE TypeOK'
  BY <1>20 DEF AddFails, Adding, TypeOK
<1>21. ASSUME PutAway PROVE TypeOK'
  BY <1>21 DEF PutAway, TypeOK
<1>22. ASSUME NEW f \in Forms, Swallow(f) PROVE TypeOK'
  BY <1>22 DEF Swallow, TypeOK, Texts, Kinds
<1>23. ASSUME Serve PROVE TypeOK'
  BY <1>23 DEF Serve, TypeOK
<1>24. ASSUME Shutdown PROVE TypeOK'
  BY <1>24 DEF Shutdown, TypeOK
<1>25. ASSUME HubExits PROVE TypeOK'
  BY <1>25 DEF HubExits, HubEnds, TypeOK, Drawers
<1>26. ASSUME HubKilled PROVE TypeOK'
  BY <1>26 DEF HubKilled, HubEnds, TypeOK, Drawers
<1> HIDE DEF IInv
<1> QED
  BY <1>1, <1>2, <1>3, <1>4, <1>5, <1>6, <1>7, <1>8, <1>9, <1>10, <1>11, <1>12, <1>13,
     <1>14, <1>15, <1>16, <1>17, <1>18, <1>19, <1>20, <1>21, <1>22, <1>23, <1>24, <1>25,
     <1>26
  DEF Next, Goroutine, Migrate, Terminating, vars

\* Every step keeps what is stored and presented among the passwords of so far.
LEMMA FreshStep == ASSUME IInv, [Next]_vars PROVE FreshInv'
<1> USE AccountsAssumption
<1>1. CASE UNCHANGED <<db, login, drawn, retyped>>
  BY <1>1 DEF TypeOK, FreshInv
<1>2. ASSUME NEW s \in Sessions, Authenticate(s) PROVE FreshInv'
  BY <1>2 DEF Authenticate, TypeOK, FreshInv
<1>3. ASSUME NEW s \in Sessions, End(s) PROVE FreshInv'
  BY <1>3 DEF End, TypeOK, FreshInv
<1>4. ASSUME NEW f \in Forms, SetPassword(f) PROVE FreshInv'
  <2> DEFINE used == {Temps[i] : i \in 1..drawn}
  <2> DEFINE u == UserOf[form[f].session]
  <2>1. told \subseteq used /\ drawn' = drawn /\ login' = login
    BY <1>4 DEF TypedInv, SetPassword
  <2> HIDE DEF Update
  <2>2. \A v \in Users : db'[v] # Absent /\ db'[v].password \notin Chosen =>
           /\ db'[v].password \in used
           /\ db'[v].force \/ <<v, db'[v].password>> \in retyped'
    <3> SUFFICES ASSUME NEW v \in Users, db'[v] # Absent, db'[v].password \notin Chosen
                 PROVE  /\ db'[v].password \in used
                        /\ db'[v].force \/ <<v, db'[v].password>> \in retyped'
      OBVIOUS
    <3>1. CASE v = u
      BY <1>4, <2>1, <3>1, SetStores
    <3>2. CASE v # u
      BY <1>4, <3>2, SetStores DEF FreshInv
    <3> QED BY <3>1, <3>2
  <2> QED BY <2>1, <2>2 DEF FreshInv
<1>5. ASSUME NEW a \in Admins, Issue(a) PROVE FreshInv'
  <2>1. PICK u \in Users : Draw(a, u)
    BY <1>5 DEF Issue
  <2>2. a \in Drawers
    BY DEF Drawers
  <2> QED BY <1>5, <2>1, <2>2, DrawFresh DEF Issue
<1>6. ASSUME NEW a \in Admins, Lock(a) PROVE FreshInv'
  BY <1>6 DEF Lock, TypeOK, FreshInv
<1>7. ASSUME NEW a \in Admins, Remove(a) PROVE FreshInv'
  BY <1>7 DEF Remove, TypeOK, FreshInv
<1>8. ASSUME AddNext PROVE FreshInv'
  <2>1. Draw(Hub, Legacy[next]) /\ Legacy[next] \in Users /\ Hub \in Drawers
    BY <1>8 DEF AddNext, Adding, Drawers, TypeOK
  <2> QED BY <1>8, <2>1, DrawFresh DEF AddNext, Adding
<1>9. ASSUME HubExits PROVE FreshInv'
  BY <1>9 DEF HubExits, HubEnds, TypeOK, FreshInv
<1>10. ASSUME HubKilled PROVE FreshInv'
  BY <1>10 DEF HubKilled, HubEnds, TypeOK, FreshInv
<1> HIDE DEF IInv
<1> QED
  BY <1>1, <1>2, <1>3, <1>4, <1>5, <1>6, <1>7, <1>8, <1>9, <1>10
  DEF Next, Goroutine, Migrate, Terminating, MustChange, Submit, Reject, Swallow,
      Deliver, Exit, Announce, AdminKilled, Start, SkipMigration, PrintAdded,
      SkipExisting, AddFails, PutAway, Serve, Shutdown, vars, Tell, Adding

\* A password that is printed keeps TypedInv.
LEMMA TellTyped ==
    ASSUME TypeOK, TypedInv, NEW d \in Drawers, Tell(d), form' = form PROVE TypedInv'
<1>1. temp[d] \in {Temps[i] : i \in 1..drawn} \cup {NoText} /\ drawn' = drawn
  BY DEF Tell, TypedInv
<1>2. told' \subseteq {Temps[i] : i \in 1..drawn} /\ told \subseteq told'
  <2>1. NoText \notin told
    BY AccountsAssumption DEF TypeOK, Passwords
  <2> QED BY <1>1, <2>1 DEF Tell, TypedInv
<1>3. \A e \in Drawers : temp'[e] = temp[e] \/ temp'[e] = NoText
  BY DEF Tell, TypeOK
<1> QED BY <1>1, <1>2, <1>3 DEF TypedInv, Known

\* Every step keeps what is printed and typed among the passwords of so far.
LEMMA TypedStep == ASSUME IInv, [Next]_vars PROVE TypedInv'
<1> USE AccountsAssumption
<1>1. CASE UNCHANGED <<told, temp, drawn, form>>
  BY <1>1 DEF TypedInv
<1>2. ASSUME NEW s \in Sessions, NEW f \in Forms, Submit(s, f) PROVE TypedInv'
  BY <1>2 DEF Submit, TypeOK, TypedInv
<1>3. ASSUME NEW f \in Forms, Reject(f) \/ SetPassword(f) \/ Swallow(f) PROVE TypedInv'
  <2>1. UNCHANGED <<told, temp, drawn>> /\ Ends(f)
    BY <1>3 DEF Reject, SetPassword, Swallow
  <2> QED BY <2>1 DEF TypeOK, TypedInv
<1>4. ASSUME NEW a \in Admins, Issue(a) PROVE TypedInv'
  <2>1. PICK u \in Users : Draw(a, u)
    BY <1>4 DEF Issue
  <2>2. a \in Drawers
    BY DEF Drawers
  <2> QED BY <1>4, <2>1, <2>2, DrawTyped DEF Issue
<1>5. ASSUME AddNext PROVE TypedInv'
  <2>1. Draw(Hub, Legacy[next]) /\ Legacy[next] \in Users /\ Hub \in Drawers
    BY <1>5 DEF AddNext, Adding, Drawers, TypeOK
  <2> QED BY <1>5, <2>1, DrawTyped DEF AddNext, Adding
<1>6. ASSUME NEW a \in Admins, Announce(a) PROVE TypedInv'
  BY <1>6, TellTyped DEF Announce, Drawers
<1>7. ASSUME PrintAdded PROVE TypedInv'
  BY <1>7, TellTyped DEF PrintAdded, Drawers
<1>8. ASSUME NEW a \in Admins, AdminKilled(a) PROVE TypedInv'
  BY <1>8 DEF AdminKilled, TypeOK, TypedInv, Drawers
<1>9. ASSUME HubExits \/ HubKilled PROVE TypedInv'
  BY <1>9 DEF HubExits, HubKilled, HubEnds, TypeOK, TypedInv, Drawers
<1> HIDE DEF IInv
<1> QED
  BY <1>1, <1>2, <1>3, <1>4, <1>5, <1>6, <1>7, <1>8, <1>9
  DEF Next, Goroutine, Migrate, Terminating, Authenticate, MustChange, End, Deliver, Exit,
      Lock, Remove, Start, SkipMigration, SkipExisting, AddFails, PutAway, Serve, Shutdown,
      vars, Adding

\* Every step keeps the answers away from logins that have opened no form.
LEMMA QuietStep == ASSUME IInv, [Next]_vars PROVE QuietInv'
<1> USE AccountsAssumption
<1>1. CASE UNCHANGED <<screen, msgs, form>>
  BY <1>1 DEF TypeOK, QuietInv
<1>2. ASSUME NEW s \in Sessions, Authenticate(s) PROVE QuietInv'
  BY <1>2 DEF Authenticate, TypeOK, QuietInv
<1>3. ASSUME NEW s \in Sessions, MustChange(s) PROVE QuietInv'
  BY <1>3 DEF MustChange, TypeOK, QuietInv
<1>4. ASSUME NEW s \in Sessions, End(s) PROVE QuietInv'
  BY <1>4 DEF End, TypeOK, QuietInv
<1>5. ASSUME NEW s \in Sessions, NEW f \in Forms, Submit(s, f) PROVE QuietInv'
  BY <1>5 DEF Submit, TypeOK, QuietInv
<1>6. ASSUME NEW f \in Forms, Reject(f) PROVE QuietInv'
  BY <1>6 DEF Reject, TypeOK, QuietInv
<1>7. ASSUME NEW f \in Forms, SetPassword(f) PROVE QuietInv'
  BY <1>7 DEF SetPassword, TypeOK, QuietInv
<1>8. ASSUME NEW s \in Sessions, NEW kind \in Kinds, Deliver(s, kind) PROVE QuietInv'
  BY <1>8 DEF Deliver, TypeOK, QuietInv
<1>9. ASSUME NEW f \in Forms, Swallow(f) PROVE QuietInv'
  BY <1>9 DEF Swallow, TypeOK, QuietInv
<1>10. ASSUME HubExits PROVE QuietInv'
  BY <1>10 DEF HubExits, HubEnds, TypeOK, QuietInv
<1>11. ASSUME HubKilled PROVE QuietInv'
  BY <1>11 DEF HubKilled, HubEnds, TypeOK, QuietInv
<1> HIDE DEF IInv
<1> QED
  BY <1>1, <1>2, <1>3, <1>4, <1>5, <1>6, <1>7, <1>8, <1>9, <1>10, <1>11
  DEF Next, Goroutine, Migrate, Terminating, Exit, Issue, Lock, Remove, Announce,
      AdminKilled, Start, SkipMigration, AddNext, PrintAdded, SkipExisting, AddFails,
      PutAway, Serve, Shutdown, vars, Tell, Adding

\* No step opens the menu on a temporary password that nobody has typed again.
LEMMA MenuStep == ASSUME IInv, [Next]_vars PROVE MenuInv'
<1> USE AccountsAssumption
<1>1. CASE UNCHANGED <<screen, excuse, msgs, login, db, retyped>>
  BY <1>1 DEF TypeOK, MenuInv, Replaced
<1>2. ASSUME NEW s \in Sessions, Authenticate(s) PROVE MenuInv'
  BY <1>2 DEF Authenticate, QuietInv, Kinds, TypeOK, MenuInv, Replaced
<1>3. ASSUME NEW s \in Sessions, MustChange(s) PROVE MenuInv'
  BY <1>3 DEF MustChange, QuietInv, Kinds, FreshInv, TypeOK, MenuInv, Replaced
<1>4. ASSUME NEW s \in Sessions, End(s) PROVE MenuInv'
  BY <1>4 DEF End, TypeOK, MenuInv, Replaced
<1>5. ASSUME NEW f \in Forms, Reject(f) PROVE MenuInv'
  BY <1>5 DEF Reject, TypeOK, MenuInv, Replaced
<1>6. ASSUME NEW f \in Forms, SetPassword(f) PROVE MenuInv'
  BY <1>6, SetStores DEF SetPassword, TypeOK, MenuInv, Replaced
<1>7. ASSUME NEW s \in Sessions, NEW kind \in Kinds, Deliver(s, kind) PROVE MenuInv'
  BY <1>7 DEF Deliver, TypeOK, MenuInv, Replaced
<1>8. ASSUME NEW f \in Forms, Swallow(f) PROVE MenuInv'
  BY <1>8 DEF Swallow, TypeOK, Texts, MenuInv, Replaced
<1>9. ASSUME NEW a \in Admins, Issue(a) PROVE MenuInv'
  <2>1. PICK u \in Users : Draw(a, u)
    BY <1>9 DEF Issue
  <2>2. a \in Drawers
    BY DEF Drawers
  <2> QED BY <1>9, <2>1, <2>2, DrawReplaced DEF Issue, MenuInv
<1>10. ASSUME NEW a \in Admins, Lock(a) PROVE MenuInv'
  BY <1>10 DEF Lock, TypeOK, MenuInv, Replaced
<1>11. ASSUME NEW a \in Admins, Remove(a) PROVE MenuInv'
  BY <1>11 DEF Remove, TypeOK, MenuInv, Replaced
<1>12. ASSUME AddNext PROVE MenuInv'
  <2>1. Draw(Hub, Legacy[next]) /\ Legacy[next] \in Users /\ Hub \in Drawers
    BY <1>12 DEF AddNext, Adding, Drawers, TypeOK
  <2> QED BY <1>12, <2>1, DrawReplaced DEF AddNext, Adding, MenuInv
<1>13. ASSUME HubExits PROVE MenuInv'
  BY <1>13 DEF HubExits, HubEnds, TypeOK, MenuInv, Replaced
<1>14. ASSUME HubKilled PROVE MenuInv'
  BY <1>14 DEF HubKilled, HubEnds, TypeOK, MenuInv, Replaced
<1> HIDE DEF IInv
<1> QED
  BY <1>1, <1>2, <1>3, <1>4, <1>5, <1>6, <1>7, <1>8, <1>9, <1>10, <1>11, <1>12, <1>13, <1>14
  DEF Next, Goroutine, Migrate, Terminating, Submit, Exit, Announce, AdminKilled, Start,
      SkipMigration, PrintAdded, SkipExisting, AddFails, PutAway, Serve, Shutdown, vars,
      Tell, Adding

\* Every step keeps every password known.
LEMMA PrintStep == ASSUME IInv, [Next]_vars PROVE (PrintInv /\ PasswordIsKnown)'
<1> USE AccountsAssumption
<1>1. CASE UNCHANGED <<temp, told, hub, admin, crashes, db>>
  BY <1>1 DEF TypeOK, PrintInv, PasswordIsKnown
<1>2. ASSUME NEW f \in Forms, SetPassword(f) PROVE (PrintInv /\ PasswordIsKnown)'
  BY <1>2, SetStores DEF SetPassword, TypeOK, PrintInv, PasswordIsKnown
<1>3. ASSUME NEW a \in Admins, Exit(a) PROVE (PrintInv /\ PasswordIsKnown)'
  BY <1>3 DEF Exit, TypeOK, PrintInv, PasswordIsKnown
<1>4. ASSUME NEW a \in Admins, Issue(a) PROVE (PrintInv /\ PasswordIsKnown)'
  <2>1. PICK u \in Users : Draw(a, u)
    BY <1>4 DEF Issue
  <2>2. a \in Drawers /\ a # Hub
    BY AccountsAssumption DEF Drawers
  <2>3. /\ temp' \in [Drawers -> Range(Temps) \cup {NoText}]
        /\ temp \in [Drawers -> Range(Temps) \cup {NoText}]
    BY <2>1, <2>2, DrawStores DEF TypeOK
  <2>4. PrintInv'
    BY <1>4, <2>1, <2>2, <2>3, DrawStores DEF Issue, PrintInv, TypeOK, Drawers
  <2>5. temp[a] = NoText
    BY <1>4, <2>2, <2>3 DEF Issue, PrintInv
  <2>6. ASSUME crashes = 0, NEW v \in Users, db'[v] # Absent
        PROVE  db'[v].password \in Chosen \cup told \cup Range(temp')
    <3>1. CASE v = u
      BY <2>1, <2>2, <2>3, <3>1, DrawStores DEF Range
    <3>2. CASE v # u
      <4>1. db'[v] = db[v] /\ db[v].password \in Chosen \cup told \cup Range(temp)
        BY <2>1, <2>2, <2>6, <3>2, DrawStores DEF PasswordIsKnown
      <4>2. db[v] \in Entries /\ db[v].password # NoText
        BY <2>6, <4>1, AccountsAssumption DEF TypeOK, Entries
      <4>3. CASE db[v].password \in Range(temp)
        <5>1. PICK e \in Drawers : db[v].password = temp[e]
          BY <2>3, <4>3 DEF Range
        <5> QED BY <2>1, <2>2, <2>3, <2>5, <4>1, <4>2, <5>1, DrawStores DEF Range
      <4> QED BY <4>1, <4>3
    <3> QED BY <3>1, <3>2
  <2> QED BY <1>4, <2>1, <2>2, <2>4, <2>6, DrawStores DEF Issue, PasswordIsKnown
<1>5. ASSUME NEW a \in Admins, Lock(a) PROVE (PrintInv /\ PasswordIsKnown)'
  BY <1>5 DEF Lock, TypeOK, PrintInv, PasswordIsKnown
<1>6. ASSUME NEW a \in Admins, Remove(a) PROVE (PrintInv /\ PasswordIsKnown)'
  BY <1>6 DEF Remove, TypeOK, PrintInv, PasswordIsKnown
<1>7. ASSUME NEW a \in Admins, Announce(a) PROVE (PrintInv /\ PasswordIsKnown)'
  BY <1>7 DEF Announce, Tell, TypeOK, PrintInv, PasswordIsKnown, Drawers, Range
<1>8. ASSUME NEW a \in Admins, AdminKilled(a) PROVE (PrintInv /\ PasswordIsKnown)'
  BY <1>8 DEF AdminKilled, TypeOK, PrintInv, PasswordIsKnown, Drawers, Range
<1>9. ASSUME Start PROVE (PrintInv /\ PasswordIsKnown)'
  BY <1>9 DEF Start, TypeOK, PrintInv, PasswordIsKnown
<1>10. ASSUME SkipMigration PROVE (PrintInv /\ PasswordIsKnown)'
  BY <1>10 DEF SkipMigration, TypeOK, PrintInv, PasswordIsKnown
<1>11. ASSUME AddNext PROVE (PrintInv /\ PasswordIsKnown)'
  <2> DEFINE u == Legacy[next]
  <2>1. Draw(Hub, u) /\ u \in Users
    BY <1>11 DEF AddNext, Adding, TypeOK
  <2>2. Hub \in Drawers /\ Hub \notin Admins
    BY AccountsAssumption DEF Drawers
  <2>3. /\ temp' \in [Drawers -> Range(Temps) \cup {NoText}]
        /\ temp \in [Drawers -> Range(Temps) \cup {NoText}]
    BY <2>1, <2>2, DrawStores DEF TypeOK
  <2>4. PrintInv'
    BY <1>11, <2>1, <2>2, <2>3, DrawStores DEF AddNext, Adding, PrintInv, TypeOK, Drawers
  <2>5. temp[Hub] = NoText
    BY <1>11, <2>2, <2>3 DEF AddNext, Adding, PrintInv
  <2>6. ASSUME crashes = 0, NEW v \in Users, db'[v] # Absent
        PROVE  db'[v].password \in Chosen \cup told \cup Range(temp')
    <3>1. CASE v = u
      BY <2>1, <2>2, <2>3, <3>1, DrawStores DEF Range
    <3>2. CASE v # u
      <4>1. db'[v] = db[v] /\ db[v].password \in Chosen \cup told \cup Range(temp)
        BY <2>1, <2>2, <2>6, <3>2, DrawStores DEF PasswordIsKnown
      <4>2. db[v] \in Entries /\ db[v].password # NoText
        BY <2>6, <4>1, AccountsAssumption DEF TypeOK, Entries
      <4>3. CASE db[v].password \in Range(temp)
        <5>1. PICK e \in Drawers : db[v].password = temp[e]
          BY <2>3, <4>3 DEF Range
        <5> QED BY <2>1, <2>2, <2>3, <2>5, <4>1, <4>2, <5>1, DrawStores DEF Range
      <4> QED BY <4>1, <4>3
    <3> QED BY <3>1, <3>2
  <2> QED BY <1>11, <2>1, <2>2, <2>4, <2>6, DrawStores DEF AddNext, Adding, PasswordIsKnown
<1>12. ASSUME PrintAdded PROVE (PrintInv /\ PasswordIsKnown)'
  BY <1>12 DEF PrintAdded, Tell, TypeOK, PrintInv, PasswordIsKnown, Drawers, Range
<1>13. ASSUME SkipExisting PROVE (PrintInv /\ PasswordIsKnown)'
  BY <1>13 DEF SkipExisting, Adding, TypeOK, PrintInv, PasswordIsKnown
<1>14. ASSUME AddFails PROVE (PrintInv /\ PasswordIsKnown)'
  BY <1>14 DEF AddFails, Adding, TypeOK, PrintInv, PasswordIsKnown
<1>15. ASSUME PutAway PROVE (PrintInv /\ PasswordIsKnown)'
  BY <1>15 DEF PutAway, TypeOK, PrintInv, PasswordIsKnown
<1>16. ASSUME NEW f \in Forms, Swallow(f) PROVE (PrintInv /\ PasswordIsKnown)'
  BY <1>16 DEF Swallow, TypeOK, PrintInv, PasswordIsKnown
<1>17. ASSUME Serve PROVE (PrintInv /\ PasswordIsKnown)'
  BY <1>17 DEF Serve, TypeOK, PrintInv, PasswordIsKnown
<1>18. ASSUME Shutdown PROVE (PrintInv /\ PasswordIsKnown)'
  BY <1>18 DEF Shutdown, TypeOK, PrintInv, PasswordIsKnown
<1>19. ASSUME HubExits PROVE (PrintInv /\ PasswordIsKnown)'
  BY <1>19 DEF HubExits, HubEnds, TypeOK, PrintInv, PasswordIsKnown, Drawers, Range
<1>20. ASSUME HubKilled PROVE (PrintInv /\ PasswordIsKnown)'
  BY <1>20 DEF HubKilled, HubEnds, TypeOK, PrintInv, PasswordIsKnown, Drawers, Range
<1> HIDE DEF IInv
<1> QED
  BY <1>1, <1>2, <1>3, <1>4, <1>5, <1>6, <1>7, <1>8, <1>9, <1>10, <1>11, <1>12, <1>13,
     <1>14, <1>15, <1>16, <1>17, <1>18, <1>19, <1>20
  DEF Next, Goroutine, Migrate, Terminating, Authenticate, MustChange, End, Submit,
      Reject, Deliver, vars

\* Every step keeps the migrated users.
LEMMA MigrateStep == ASSUME IInv, [Next]_vars PROVE (MigrateInv /\ NoUserLeftBehind)'
<1> USE AccountsAssumption
<1>1. CASE UNCHANGED <<hub, next, db, removed, legacy>>
  BY <1>1 DEF TypeOK, MigrateInv, NoUserLeftBehind
<1>2. ASSUME NEW f \in Forms, SetPassword(f) PROVE (MigrateInv /\ NoUserLeftBehind)'
  <2>1. \A v \in Users : db[v] # Absent => db'[v] # Absent
    BY <1>2, SetStores, AccountsAssumption
  <2>2. UNCHANGED <<hub, next, legacy, removed>>
    BY <1>2 DEF SetPassword
  <2> QED BY <2>1, <2>2 DEF TypeOK, MigrateInv, NoUserLeftBehind
<1>3. ASSUME NEW a \in Admins, Issue(a) PROVE (MigrateInv /\ NoUserLeftBehind)'
  <2>1. PICK u \in Users : Draw(a, u)
    BY <1>3 DEF Issue
  <2>2. a \in Drawers
    BY DEF Drawers
  <2> HIDE DEF Exists, Update
  <2> QED BY <1>3, <2>1, <2>2, DrawStores DEF Issue, Exists, TypeOK, MigrateInv, NoUserLeftBehind
<1>4. ASSUME NEW a \in Admins, Lock(a) PROVE (MigrateInv /\ NoUserLeftBehind)'
  <2>1. \A v \in Users : db[v] # Absent => db'[v] # Absent
    BY <1>4, LockStores
  <2>2. UNCHANGED <<hub, next, legacy, removed>>
    BY <1>4 DEF Lock
  <2> QED BY <2>1, <2>2 DEF TypeOK, MigrateInv, NoUserLeftBehind
<1>5. ASSUME NEW a \in Admins, Remove(a) PROVE (MigrateInv /\ NoUserLeftBehind)'
  BY <1>5 DEF Remove, TypeOK, MigrateInv, NoUserLeftBehind
<1>6. ASSUME Start PROVE (MigrateInv /\ NoUserLeftBehind)'
  BY <1>6 DEF Start, TypeOK, MigrateInv, NoUserLeftBehind
<1>7. ASSUME SkipMigration PROVE (MigrateInv /\ NoUserLeftBehind)'
  BY <1>7 DEF SkipMigration, TypeOK, MigrateInv, NoUserLeftBehind
<1>8. ASSUME AddNext PROVE (MigrateInv /\ NoUserLeftBehind)'
  <2>1. /\ Draw(Hub, Legacy[next]) /\ Legacy[next] \in Users
        /\ Hub \in Drawers /\ next \in DOMAIN Legacy
    BY <1>8 DEF AddNext, Adding, Drawers, TypeOK
  <2> HIDE DEF Update
  <2> QED BY <1>8, <2>1, DrawStores DEF AddNext, Adding, TypeOK, MigrateInv, NoUserLeftBehind
<1>9. ASSUME PrintAdded PROVE (MigrateInv /\ NoUserLeftBehind)'
  BY <1>9 DEF PrintAdded, Tell, TypeOK, MigrateInv, NoUserLeftBehind
<1>10. ASSUME SkipExisting PROVE (MigrateInv /\ NoUserLeftBehind)'
  BY <1>10 DEF SkipExisting, Adding, TypeOK, MigrateInv, NoUserLeftBehind
<1>11. ASSUME AddFails PROVE (MigrateInv /\ NoUserLeftBehind)'
  BY <1>11 DEF AddFails, Adding, TypeOK, MigrateInv, NoUserLeftBehind
<1>12. ASSUME PutAway PROVE (MigrateInv /\ NoUserLeftBehind)'
  BY <1>12 DEF PutAway, TypeOK, MigrateInv, NoUserLeftBehind
<1>13. ASSUME NEW f \in Forms, Swallow(f) PROVE (MigrateInv /\ NoUserLeftBehind)'
  BY <1>13 DEF Swallow, TypeOK, MigrateInv, NoUserLeftBehind
<1>14. ASSUME Serve PROVE (MigrateInv /\ NoUserLeftBehind)'
  BY <1>14 DEF Serve, TypeOK, MigrateInv, NoUserLeftBehind
<1>15. ASSUME Shutdown PROVE (MigrateInv /\ NoUserLeftBehind)'
  BY <1>15 DEF Shutdown, TypeOK, MigrateInv, NoUserLeftBehind
<1>16. ASSUME HubExits PROVE (MigrateInv /\ NoUserLeftBehind)'
  BY <1>16 DEF HubExits, HubEnds, TypeOK, MigrateInv, NoUserLeftBehind
<1>17. ASSUME HubKilled PROVE (MigrateInv /\ NoUserLeftBehind)'
  BY <1>17 DEF HubKilled, HubEnds, TypeOK, MigrateInv, NoUserLeftBehind
<1> HIDE DEF IInv
<1> QED
  BY <1>1, <1>2, <1>3, <1>4, <1>5, <1>6, <1>7, <1>8, <1>9, <1>10, <1>11, <1>12, <1>13,
     <1>14, <1>15, <1>16, <1>17
  DEF Next, Goroutine, Migrate, Terminating, Authenticate, MustChange, End, Submit,
      Reject, Deliver, Exit, Announce, AdminKilled, vars, Tell

-----------------------------------------------------------------------------
(* The theorems.                                                           *)

\* IInv holds throughout every run.
THEOREM Invariance == Safety => []IInv
<1>1. IInv /\ [Next]_vars => IInv'
  BY TypeStep, FreshStep, TypedStep, QuietStep, MenuStep, PrintStep, MigrateStep DEF IInv
<1> HIDE DEF IInv
<1> QED BY <1>1, InitInv, PTL DEF Safety

\* Whoever has logged in with a temporary password is in the menu only once it
\* is no longer the user's password, unless somebody typed that very password
\* into a form of that user, the session's own text was too long for bcrypt, or
\* MustChangePassword failed for it: for any number of logins and submissions of
\* the form, of runs of oob-manage and of restarts of the hub at the same time.
THEOREM ReplacedOrRetypedHolds == Safety => []ReplacedOrRetyped
<1>1. IInv => ReplacedOrRetyped
  BY DEF IInv, MenuInv, Replaced, ReplacedOrRetyped
<1> HIDE DEF IInv
<1> QED BY <1>1, Invariance, PTL

\* As long as no process is killed, every user's password was chosen, or
\* printed, or is about to be printed: no user is shut out.
THEOREM PasswordIsKnownHolds == Safety => []PasswordIsKnown
<1> HIDE DEF IInv
<1>1. IInv => PasswordIsKnown
  BY DEF IInv
<1> QED BY <1>1, Invariance, PTL

\* For any list of legacy users, and however often the migration is cut short
\* or its disk fails: once users.conf is put away every one of them has been
\* added to the store.
THEOREM NoUserLeftBehindHolds == Safety => []NoUserLeftBehind
<1> HIDE DEF IInv
<1>1. IInv => NoUserLeftBehind
  BY DEF IInv
<1> QED BY <1>1, Invariance, PTL
=============================================================================
