----------------------------- MODULE MCAccounts -----------------------------
(***************************************************************************)
(* Instances of Accounts for TLC: two users, both in users.conf or none,   *)
(* and logins of the first one.                                            *)
(***************************************************************************)
EXTENDS Accounts

CONSTANTS ann, bob

LegacyUsers == <<ann, bob>>

NoLegacy == <<>>

AllAnn == [s \in Sessions |-> ann]

SixTemps == <<"temp1", "temp2", "temp3", "temp4", "temp5", "temp6">>
=============================================================================
