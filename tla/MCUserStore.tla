---------------------------- MODULE MCUserStore ----------------------------
(***************************************************************************)
(* Instances of UserStore for TLC: the hub with threads h1 and h2, a run   *)
(* of oob-manage with thread m1, one or two users.                         *)
(***************************************************************************)
EXTENDS UserStore, TLC

CONSTANTS hub, manage, h1, h2, m1, alice, bob, temp, own

\* Two sessions of the hub, and oob-manage.
HubAndManage == (h1 :> hub) @@ (h2 :> hub) @@ (m1 :> manage)

\* One thread in each.
OneAndOne == (h1 :> hub) @@ (m1 :> manage)

\* The hub alone.
HubAlone == (h1 :> hub) @@ (h2 :> hub)

Req(kind, u, p) == [kind |-> kind, user |-> u, password |-> p]

\* A user is created, logs in, is forced to change the password, and is
\* listed and removed.
LifeOfAUser ==
    {Req("add", alice, temp), Req("auth", alice, temp), Req("must", alice, temp),
     Req("set", alice, own), Req("remove", alice, temp), Req("list", alice, temp)}

\* Changes to one user that must not undo each other, and a second user.
Changes ==
    {Req("touch", alice, temp), Req("lock", alice, temp),
     Req("unlock", alice, temp), Req("reset", alice, temp), Req("add", bob, temp)}

Everything == LifeOfAUser \cup Changes
=============================================================================
