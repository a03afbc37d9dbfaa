----------------------------- MODULE ModemLease -----------------------------
(***************************************************************************)
(* What the hub promises about the modem, with no sessions, messages or    *)
(* goroutine bodies: every dial is granted the modem at most once, one     *)
(* dial has it at a time, and only the dial that has it gives it back.     *)
(***************************************************************************)

CONSTANT Dials

VARIABLES
    holder,   \* the dials that have the modem
    ended     \* the dials that will not have it (again)

vars == <<holder, ended>>

-----------------------------------------------------------------------------

Init ==
    /\ holder = {}
    /\ ended = {}

Grant(d) ==
    /\ holder = {}
    /\ d \notin ended
    /\ holder' = {d}
    /\ UNCHANGED ended

Return(d) ==
    /\ holder = {d}
    /\ holder' = {}
    /\ ended' = ended \cup {d}

\* Dials that do not have the modem end without it: one that was refused, or
\* all that a session had asked for when it went.
GiveUp(dials) ==
    /\ dials \cap holder = {}
    /\ ended' = ended \cup dials
    /\ UNCHANGED holder

Next ==
    \/ \E d \in Dials : Grant(d) \/ Return(d)
    \/ \E dials \in SUBSET Dials : GiveUp(dials)

Spec == Init /\ [][Next]_vars
=============================================================================
