------------------------------ MODULE DialTask ------------------------------
(***************************************************************************)
(* One dial as seen from outside: acquireAndDial's attempts, and what each *)
(* may come to.  ConsoleHub (many sessions, the dialogue with the modem    *)
(* left out) and Dialer (the dialogue, one session) both implement it.     *)
(***************************************************************************)
EXTENDS Naturals

CONSTANT MaxRetries   \* dial attempts per request

VARIABLES
    place,     \* "idle", "opening", "dialing", "missed" (worth a retry),
               \* "refused" (not), "failing" (an error) or "connected"
    attempt    \* the attempt it is at, 0 outside the loop

vars == <<place, attempt>>

-----------------------------------------------------------------------------

Init == place = "idle" /\ attempt = 0

Goes(from, to) == place \in from /\ place' \in to /\ attempt' = attempt

Start == place = "idle" /\ place' = "opening" /\ attempt' = 1

Connect == place = "dialing" /\ place' = "connected" /\ attempt' = 0

\* Only a result that may be different next time is tried again, with the
\* device still held.
Retry ==
    /\ place = "missed" /\ attempt < MaxRetries
    /\ place' = "opening" /\ attempt' = attempt + 1

\* The device is given back, or the process has died.
End == place # "idle" /\ place' = "idle" /\ attempt' = 0

Next ==
    \/ Start \/ Connect \/ Retry \/ End
    \/ Goes({"opening"}, {"dialing"})
    \/ Goes({"dialing"}, {"missed", "refused"})
    \/ Goes({"opening", "dialing"}, {"failing"})

Spec == Init /\ [][Next]_vars
=============================================================================
