---------------------------- MODULE SerialModem ----------------------------
(***************************************************************************)
(* The device behind /dev/ttySL0 as the AT driver uses it: slmodemd, its   *)
(* bridge process and the two directions of the tty.  None of it is in     *)
(* this repository; it is modelled from what modem.go writes and expects,  *)
(* and from what bridge.go says of slmodemd.                               *)
(*                                                                         *)
(* A byte stream is a sequence of commands in one direction and of result  *)
(* words in the other (a space in one is written _).  Calls are numbered   *)
(* by the ATDT that placed them, so that a result can be told from a late  *)
(* one of an earlier call.                                                 *)
(***************************************************************************)
EXTENDS Naturals, Sequences

CONSTANTS
    Writers,      \* who writes to the device
    RemoteWords,  \* result words that the text of a remote may contain
    MaxQueue      \* bound: what may lie unread before more comes unasked

VARIABLES
    mode,     \* "command", "dialing", "online", or "escaped" from online
    call,     \* the call it is dialing or connected by, 0 for none
    wire,     \* what was written and not yet looked at
    tty,      \* result words nobody has read yet
    quiet,    \* writers in a rest that no other write has disturbed
    bridge,   \* "none", "active" with a call, "stale" after it
    present   \* the device file exists

modemVars == <<mode, call, wire, tty, quiet, bridge, present>>

Commands == {"+++", "ATH", "ATZ", "ATE0", "ATX3", "AT+", "ATDT", "text"}
Results  == {"CONNECT", "BUSY", "NO_CARRIER", "NO_DIALTONE", "ERROR"}
Words    == Results \cup {"OK"}

ModemTypeOK ==
    /\ mode \in {"command", "dialing", "online", "escaped"}
    /\ call \in Nat
    /\ wire \in Seq([cmd : Commands, by : Writers, call : Nat, clean : BOOLEAN])
    /\ tty \in Seq([word : Words, call : Nat])
    /\ quiet \subseteq Writers
    /\ bridge \in {"none", "active", "stale"}
    /\ present \in BOOLEAN

\* Whatever an earlier process left: a line still online, a call still being
\* dialled, a bridge that lingers.
ModemInit ==
    /\ \/ mode = "command" /\ bridge \in {"none", "stale"}
       \/ mode \in {"dialing", "online"} /\ bridge = "active"
    /\ call = 0
    /\ wire = <<>> /\ tty = <<>>
    /\ quiet = {}
    /\ present = TRUE

-----------------------------------------------------------------------------
(* What the writers do.                                                    *)

Word(w, n) == [word |-> w, call |-> n]

\* w writes cmd.  A "+++" counts as an escape only when nobody wrote in the
\* rest before it, nor in the rest after it: as long as its writer is quiet, a
\* "+++" at the end of the wire is still in that rest.
Put(w, cmd, n) ==
    LET Spoiled(i) == i = Len(wire) /\ wire[i].cmd = "+++" /\ wire[i].by \in quiet \ {w}
        escape == cmd = "+++" /\ w \in quiet
    IN  /\ wire' = Append([i \in DOMAIN wire |->
                              IF Spoiled(i) THEN [wire[i] EXCEPT !.clean = FALSE] ELSE wire[i]],
                          [cmd |-> cmd, by |-> w, call |-> n, clean |-> escape])
        /\ quiet' = IF escape THEN {w} ELSE {}

-----------------------------------------------------------------------------
(* What the modem does.                                                    *)

Says(words) == tty' = tty \o words

\* The call is over; slmodemd does not kill its bridge.
CallEnds ==
    /\ mode' = "command"
    /\ call' = 0
    /\ bridge' = "stale"

\* ATDT spawns the bridge, unless the last one is still there.
TakeDial(item) ==
    /\ mode = "command" /\ item.cmd = "ATDT"
    /\ IF bridge = "none"
       THEN /\ mode' = "dialing" /\ call' = item.call /\ bridge' = "active"
            /\ Says(<<>>)
       ELSE /\ Says(<<Word("NO_CARRIER", item.call)>>)
            /\ UNCHANGED <<mode, call, bridge>>

\* Command mode: AT commands are answered, a lone "+++" is not, and a line
\* that is no command may be.
TakeCommand(item) ==
    /\ mode \in {"command", "escaped"}
    /\ item.cmd # "ATDT" \/ mode = "escaped"
    /\ IF mode = "escaped" /\ item.cmd \in {"ATH", "ATZ"}
       THEN CallEnds /\ Says(<<Word("OK", 0)>>)
       ELSE /\ CASE item.cmd = "+++"  -> Says(<<>>)
                 [] item.cmd = "text" -> Says(<<>>) \/ Says(<<Word("ERROR", 0)>>)
                 [] OTHER -> \E w \in {"OK", "ERROR"} : Says(<<Word(w, 0)>>)
            /\ UNCHANGED <<mode, call, bridge>>

\* Any byte aborts a call that is being placed.
TakeAbort(item) ==
    /\ mode = "dialing"
    /\ Says(<<Word("NO_CARRIER", call)>>)
    /\ CallEnds

\* Online, everything but an escape goes to the remote.
TakeOnline(item) ==
    /\ mode = "online"
    /\ IF item.cmd = "+++" /\ item.clean
       THEN mode' = "escaped" /\ Says(<<Word("OK", 0)>>)
       ELSE mode' = mode /\ Says(<<>>)
    /\ UNCHANGED <<call, bridge>>

Take ==
    /\ wire # <<>>
    /\ LET item == Head(wire)
       IN  TakeDial(item) \/ TakeCommand(item) \/ TakeAbort(item) \/ TakeOnline(item)
    /\ wire' = Tail(wire)
    /\ UNCHANGED <<quiet, present>>

Answered ==
    /\ mode = "dialing"
    /\ mode' = "online"
    /\ Says(<<Word("CONNECT", call)>>)
    /\ UNCHANGED <<call, wire, quiet, bridge, present>>

\* A call that fails, and a remote that hangs up.
CallLost ==
    /\ mode # "command"
    /\ \E w \in IF mode = "dialing" THEN {"BUSY", "NO_CARRIER", "NO_DIALTONE"}
                                    ELSE {"NO_CARRIER"} :
          Says(<<Word(w, call)>>)
    /\ CallEnds
    /\ UNCHANGED <<wire, quiet, present>>

RemoteText ==
    /\ mode = "online"
    /\ Len(tty) < MaxQueue
    /\ \E w \in RemoteWords : Says(<<Word(w, 0)>>)
    /\ UNCHANGED <<mode, call, wire, quiet, bridge, present>>

BridgeExits ==
    /\ bridge = "stale"
    /\ bridge' = "none"
    /\ UNCHANGED <<mode, call, wire, tty, quiet, present>>

\* slmodemd dies and takes the tty with it; its bridge lingers.
Dies ==
    /\ present' = FALSE
    /\ mode' = "command" /\ call' = 0
    /\ wire' = <<>> /\ tty' = <<>>
    /\ quiet' = {}
    /\ bridge' \in IF bridge = "none" THEN {"none"} ELSE {"none", "stale"}

\* The supervisor starts it again.
Respawn ==
    /\ ~present
    /\ present' = TRUE
    /\ UNCHANGED <<mode, call, wire, tty, quiet, bridge>>

Modem == Take \/ Answered \/ CallLost \/ BridgeExits \/ Respawn
=============================================================================
