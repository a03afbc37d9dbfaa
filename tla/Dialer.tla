------------------------------- MODULE Dialer -------------------------------
(***************************************************************************)
(* One modem and the programs that drive it: the dials of the hub          *)
(* (acquireAndDial, then the terminal and its cleanup) and oob-probe.      *)
(*                                                                         *)
(* Both talk to the modem through the methods of modem.Modem.  A method is *)
(* a stretch of Script; a client walks through it, one write and one read  *)
(* at a time, while the modem answers at its own pace.  Dials of the hub   *)
(* exclude each other by the device lock, as ConsoleHub shows; the probe   *)
(* knows nothing of that lock.                                             *)
(***************************************************************************)
EXTENDS SerialModem, FiniteSets

CONSTANTS
    Hubs,         \* the sessions of the hub that dial
    Probes,       \* the runs of oob-probe
    WithInit,     \* the clients whose site, or command line, has init commands
    MaxRetries,   \* dial attempts per request (maxRetries)
    MaxDials,     \* bound: dials of each client
    MaxFaults,    \* bound: kinds of faults in a behaviour
    LateLines     \* where in Hangup (positions of Script) a line may still be written

Clients == Hubs \cup Probes

ASSUME DialerAssumption ==
    /\ Hubs \cap Probes = {}
    /\ Clients \cup {"batch"} \subseteq Writers
    /\ RemoteWords \subseteq Words
    /\ MaxRetries \in Nat \ {0}
    /\ MaxDials \in Nat
    /\ MaxFaults \in Nat
    /\ LateLines \subseteq Nat

VARIABLES
    pc,        \* where each client is
    pos,       \* the position of Script it is at
    stage,     \* "begin", in the "rest" before an escape, or in the "wait" for an answer
    attempt,   \* acquireAndDial's loop variable
    outcome,   \* the result of the attempt so far
    handle,    \* "none", "open", or "dead" after slmodemd died
    number,    \* the client's last ATDT
    dials,     \* dials the client has started
    placed,    \* ATDTs written by anyone
    faults     \* the kinds of faults so far

clientVars == <<pc, pos, stage, attempt, outcome, handle, number, dials,
                placed>>
vars       == <<modemVars, clientVars, faults>>

-----------------------------------------------------------------------------
(* The AT driver's methods.                                                *)

Step(cmd, drain, accept, strict) ==
    [cmd |-> cmd, drain |-> drain, accept |-> accept, strict |-> strict]

\* Init at 1 to 5, Configure at 6, Dial at 7, Hangup at 8 and 9: what is
\* written, whether the input is drained first, the words that end the wait,
\* and whether an ERROR or no answer ends the attempt.
Script ==
    << Step("+++",  TRUE,  {}, FALSE),
       Step("ATH",  TRUE,  {"OK", "ERROR", "NO_CARRIER"}, FALSE),
       Step("ATZ",  TRUE,  {"OK", "ERROR"}, TRUE),
       Step("ATE0", TRUE,  {"OK", "ERROR"}, TRUE),
       Step("ATX3", FALSE, {"OK", "ERROR"}, TRUE),
       Step("AT+",  TRUE,  {"OK", "ERROR"}, TRUE),
       Step("ATDT", TRUE,  Results, FALSE),
       Step("+++",  FALSE, {}, FALSE),
       Step("ATH",  FALSE, {"OK", "ERROR"}, FALSE) >>

DialAt   == 7
HangupAt == 8

\* Dial's switch: the first of these that the answer contains.
Priority == <<"CONNECT", "BUSY", "NO_CARRIER", "NO_DIALTONE", "ERROR">>

Nothing == Word("none", 0)

\* Outcomes that are no word of the modem: TIMEOUT, an ERROR or no answer
\* where Init or Configure needs an OK, and errors of the device.
Outcomes == Words \cup {"none", "TIMEOUT", "REFUSED", "NO_RESPONSE", "IO_ERROR"}

\* A deadline passes while the answer is on its way; pgrep fails or times out;
\* the hub or a probe is killed; slmodemd dies by itself; a remote's text
\* contains a result word; the hub and a probe use the modem at once; a line of
\* a batch is written while its terminal is being closed.
FaultKinds == {"late", "blind", "crash", "death", "text", "shared", "line"}

\* The types; acquireAndDial's loop variable never passes maxRetries.
TypeOK ==
    /\ ModemTypeOK
    /\ pc \in [Clients -> {"idle", "opening", "talk", "online", "close", "closed",
                           "bridge", "killed", "device"}]
    /\ pos \in [Clients -> 1..Len(Script)]
    /\ stage \in [Clients -> {"begin", "rest", "wait"}]
    /\ attempt \in [Clients -> 0..MaxRetries]
    /\ outcome \in [Clients -> [word : Outcomes, call : Nat]]
    /\ handle \in [Clients -> {"none", "open", "dead"}]
    /\ number \in [Clients -> Nat]
    /\ dials \in [Clients -> 0..MaxDials]
    /\ placed \in Nat
    /\ faults \subseteq FaultKinds

Init ==
    /\ ModemInit
    /\ pc = [c \in Clients |-> "idle"]
    /\ pos = [c \in Clients |-> 1]
    /\ stage = [c \in Clients |-> "begin"]
    /\ attempt = [c \in Clients |-> 0]
    /\ outcome = [c \in Clients |-> Nothing]
    /\ handle = [c \in Clients |-> "none"]
    /\ number = [c \in Clients |-> 0]
    /\ dials = [c \in Clients |-> 0]
    /\ placed = 0
    /\ faults = {}

-----------------------------------------------------------------------------

Fault(kind) ==
    /\ faults' = faults \cup {kind}
    /\ Cardinality(faults') <= MaxFaults

Goto(c, label) == pc' = [pc EXCEPT ![c] = label]

\* c goes on at position i of the script.
At(c, i) ==
    /\ pos' = [pos EXCEPT ![c] = i]
    /\ stage' = [stage EXCEPT ![c] = "begin"]

Stay(c) == UNCHANGED <<pc, pos>>

Result(c, w) == outcome' = [outcome EXCEPT ![c] = w]

Talking(c, st) == pc[c] = "talk" /\ stage[c] = st

Here(c) == Script[pos[c]]

Drained(c) == IF Here(c).drain THEN <<>> ELSE tty

\* The end of Hangup.
HungUp(c) == Goto(c, "close") /\ At(c, 1) /\ UNCHANGED outcome

\* dialAttempt, or oob-probe's run, returns the error of Init or Configure.
Fails(c, word) == Goto(c, "close") /\ At(c, 1) /\ Result(c, Word(word, 0))

\* Seeded fault: the hub closes without hanging up, as oob-probe does.
Missed_NoHangup(c, w) == Result(c, w) /\ Goto(c, "close") /\ At(c, 1)

\* A dial without CONNECT: the hub hangs up, oob-probe only closes.
Missed(c, w) ==
    /\ Result(c, w)
    /\ IF c \in Hubs THEN At(c, HangupAt) /\ UNCHANGED pc
                     ELSE Goto(c, "close") /\ At(c, 1)

\* What follows the answer of the step at hand.  Configure is skipped where
\* there is nothing to configure, and a probe need not have a number to dial.
Proceed(c) ==
    LET next == IF pos[c] + 1 = DialAt - 1 /\ c \notin WithInit
                THEN DialAt ELSE pos[c] + 1
    IN  /\ UNCHANGED outcome
        /\ \/ next <= Len(Script) /\ At(c, next) /\ UNCHANGED pc
           \/ /\ next > Len(Script) \/ (next = DialAt /\ c \in Probes)
              /\ Goto(c, "close") /\ At(c, 1)

-----------------------------------------------------------------------------
(* Talking to the modem.                                                   *)

\* Seeded fault: no rest before "+++".
Rest_TooShort(c) ==
    /\ Talking(c, "begin")
    /\ Here(c).cmd = "+++"
    /\ stage' = [stage EXCEPT ![c] = "rest"]
    /\ Stay(c)
    /\ UNCHANGED <<modemVars, attempt, outcome, handle, number, dials, placed,
                   faults>>

\* drain, and the rest before "+++".
Rest(c) ==
    /\ Talking(c, "begin")
    /\ Here(c).cmd = "+++"
    /\ stage' = [stage EXCEPT ![c] = "rest"]
    /\ IF handle[c] = "open"
       THEN tty' = Drained(c) /\ quiet' = quiet \cup {c}
       ELSE UNCHANGED <<tty, quiet>>
    /\ Stay(c)
    /\ UNCHANGED <<mode, call, wire, bridge, present, attempt, outcome, handle,
                   number, dials, placed, faults>>

\* "+++" itself.  Hangup returns when it cannot be written, Init does not ask.
Escape(c) ==
    /\ Talking(c, "rest")
    /\ IF handle[c] = "open"
       THEN /\ Put(c, "+++", 0)
            /\ stage' = [stage EXCEPT ![c] = "wait"]
            /\ Stay(c) /\ UNCHANGED outcome
       ELSE /\ IF pos[c] = HangupAt THEN HungUp(c) ELSE Proceed(c)
            /\ UNCHANGED <<wire, quiet>>
    /\ UNCHANGED <<mode, call, tty, bridge, present, attempt, handle, number,
                   dials, placed, faults>>

\* A wait ends.  Unless the modem has nothing left to look at, its answer is
\* late.  Dial's wait (dialTimeout, 125 s) is too long for that; the others
\* are 1.1 s to 5 s.
Deadline(c) ==
    IF wire = <<>> \/ handle[c] = "dead"
    THEN UNCHANGED faults
    ELSE pos[c] # DialAt /\ Fault("late")

\* The rest after "+++" is over.
Escaped(c) ==
    /\ Talking(c, "wait")
    /\ Here(c).cmd = "+++"
    /\ Deadline(c)
    /\ Proceed(c)
    /\ UNCHANGED <<modemVars, attempt, handle, number, dials, placed>>

\* drain and the command.
Send(c) ==
    /\ Talking(c, "begin")
    /\ Here(c).cmd # "+++"
    /\ handle[c] = "open"
    /\ LET n == IF Here(c).cmd = "ATDT" THEN placed + 1 ELSE placed
       IN  /\ Put(c, Here(c).cmd, IF Here(c).cmd = "ATDT" THEN n ELSE 0)
           /\ placed' = n
           /\ number' = [number EXCEPT ![c] = IF Here(c).cmd = "ATDT" THEN n ELSE @]
    /\ tty' = Drained(c)
    /\ stage' = [stage EXCEPT ![c] = "wait"]
    /\ Stay(c)
    /\ UNCHANGED <<mode, call, bridge, present, attempt, outcome, handle, dials,
                   faults>>

\* The command cannot be written.
SendFails(c) ==
    /\ Talking(c, "begin")
    /\ Here(c).cmd # "+++"
    /\ handle[c] = "dead"
    /\ CASE Here(c).strict       -> Fails(c, "IO_ERROR")
         [] pos[c] = DialAt      -> Missed(c, Word("IO_ERROR", 0))
         [] OTHER                -> Proceed(c)
    /\ UNCHANGED <<modemVars, attempt, handle, number, dials, placed, faults>>

\* Dial's result from the words it has read.
DialWord(heard) ==
    Priority[CHOOSE i \in DOMAIN Priority :
                /\ Priority[i] \in heard
                /\ \A j \in 1..(i - 1) : Priority[j] \notin heard]

\* readUntil finds one of its words.  A read takes what is there, so that
\* words behind the one it waits for may go with it.
Reply(c) ==
    /\ Talking(c, "wait")
    /\ handle[c] = "open"
    /\ \E k \in DOMAIN tty :
          LET heard == {tty[i].word : i \in 1..k}
              w == DialWord(heard)
              answer == IF \E i \in 1..k : tty[i] = Word(w, number[c])
                        THEN Word(w, number[c]) ELSE Word(w, 0)
          IN  /\ Here(c).accept \cap heard # {}
              /\ tty' = SubSeq(tty, k + 1, Len(tty))
              /\ CASE pos[c] # DialAt ->
                        /\ IF Here(c).strict /\ "ERROR" \in heard
                           THEN Fails(c, "REFUSED") ELSE Proceed(c)
                        /\ UNCHANGED attempt
                   [] pos[c] = DialAt /\ w = "CONNECT" ->
                        /\ Goto(c, "online") /\ At(c, HangupAt) /\ Result(c, answer)
                        /\ attempt' = [attempt EXCEPT ![c] = 0]
                   [] OTHER -> Missed(c, answer) /\ UNCHANGED attempt
    /\ UNCHANGED <<mode, call, wire, quiet, bridge, present, handle, number,
                   dials, placed, faults>>

\* readUntil finds none in time, or the device is gone under it.
Timeout(c) ==
    /\ Talking(c, "wait")
    /\ Here(c).cmd # "+++"
    /\ Deadline(c)
    /\ IF handle[c] = "open"
       THEN /\ \A i \in DOMAIN tty : tty[i].word \notin Here(c).accept
            /\ tty' = <<>>
       ELSE UNCHANGED tty
    /\ CASE Here(c).strict  -> Fails(c, IF handle[c] = "open" THEN "NO_RESPONSE"
                                                             ELSE "IO_ERROR")
         [] pos[c] = DialAt -> Missed(c, Word("TIMEOUT", 0))
         [] OTHER           -> Proceed(c)
    /\ UNCHANGED <<mode, call, wire, quiet, bridge, present, attempt, handle,
                   number, dials, placed>>

-----------------------------------------------------------------------------
(* acquireAndDial, and oob-probe's run.                                    *)

\* A dial starts: DeviceLock.Acquire in the hub, which wants the device file
\* to exist; the probe just begins.  (A refused dial changes nothing here.)
Start(c) ==
    /\ pc[c] = "idle"
    /\ dials[c] < MaxDials
    /\ c \in Hubs => present /\ \A d \in Hubs : pc[d] = "idle"
    /\ dials' = [dials EXCEPT ![c] = @ + 1]
    /\ attempt' = [attempt EXCEPT ![c] = 1]
    /\ Goto(c, "opening")
    /\ IF \A d \in Clients : pc[d] = "idle" THEN UNCHANGED faults
                                           ELSE Fault("shared")
    /\ UNCHANGED <<modemVars, pos, stage, outcome, handle, number, placed>>

\* Seeded fault: a dial does without Init.
OpenOk_NoInit(c) ==
    /\ pc[c] = "opening"
    /\ present
    /\ handle' = [handle EXCEPT ![c] = "open"]
    /\ Goto(c, "talk") /\ At(c, DialAt)
    /\ UNCHANGED <<modemVars, attempt, outcome, number, dials, placed, faults>>

OpenOk(c) ==
    /\ pc[c] = "opening"
    /\ present
    /\ handle' = [handle EXCEPT ![c] = "open"]
    /\ Goto(c, "talk") /\ At(c, 1)
    /\ UNCHANGED <<modemVars, attempt, outcome, number, dials, placed, faults>>

OpenFail(c) ==
    /\ pc[c] = "opening"
    /\ ~present
    /\ Goto(c, "closed") /\ Result(c, Word("IO_ERROR", 0))
    /\ UNCHANGED <<modemVars, pos, stage, attempt, handle, number, dials, placed,
                   faults>>

Close(c) ==
    /\ pc[c] = "close"
    /\ handle' = [handle EXCEPT ![c] = "none"]
    /\ quiet' = quiet \ {c}
    /\ Goto(c, "closed")
    /\ UNCHANGED <<mode, call, wire, tty, bridge, present, pos, stage, attempt,
                   outcome, number, dials, placed, faults>>

\* Seeded faults: one attempt too many; a busy line is tried again.
Retrying_OneMore(c) ==
    /\ c \in Hubs
    /\ outcome[c].word \in {"NO_CARRIER", "TIMEOUT"}
    /\ attempt[c] <= MaxRetries

Retrying_Busy(c) ==
    /\ c \in Hubs
    /\ outcome[c].word \in {"BUSY", "NO_CARRIER", "TIMEOUT"}
    /\ attempt[c] < MaxRetries

Retrying(c) ==
    /\ c \in Hubs
    /\ outcome[c].word \in {"NO_CARRIER", "TIMEOUT"}
    /\ attempt[c] < MaxRetries

\* Seeded fault: a retry does not wait for the bridge.
Retry_NoWait(c) ==
    /\ pc[c] = "closed"
    /\ Retrying(c)
    /\ attempt' = [attempt EXCEPT ![c] = @ + 1]
    /\ Goto(c, "device") /\ Result(c, Nothing)
    /\ UNCHANGED <<modemVars, pos, stage, handle, number, dials, placed, faults>>

Retry(c) ==
    /\ pc[c] = "closed"
    /\ Retrying(c)
    /\ attempt' = [attempt EXCEPT ![c] = @ + 1]
    /\ Goto(c, "bridge") /\ Result(c, Nothing)
    /\ UNCHANGED <<modemVars, pos, stage, handle, number, dials, placed,
                   faults>>

\* DeviceLock.Release, or the end of the probe.
Release(c) ==
    /\ pc[c] = "closed"
    /\ ~Retrying(c)
    /\ attempt' = [attempt EXCEPT ![c] = 0]
    /\ Result(c, Nothing)
    /\ Goto(c, "idle")
    /\ UNCHANGED <<modemVars, pos, stage, handle, number, dials, placed,
                   faults>>

\* bridgeProcessRunning is false, also when pgrep fails or times out.
BridgeGone(c) ==
    /\ pc[c] \in {"bridge", "killed"}
    /\ IF bridge = "none" THEN UNCHANGED faults ELSE Fault("blind")
    /\ Goto(c, "device")
    /\ UNCHANGED <<modemVars, pos, stage, attempt, outcome, handle, number,
                   dials, placed>>

Deaden == [c \in Clients |-> IF handle[c] = "open" THEN "dead" ELSE handle[c]]

\* killBridgeProcess after bridgeExitTimeout: SIGTERM works, does not, or
\* takes slmodemd with it.
BridgeKill(c) ==
    /\ pc[c] = "bridge"
    /\ bridge # "none"
    /\ \/ UNCHANGED <<modemVars, handle>>
       \/ /\ bridge' = "none"
          /\ IF mode = "command"
             THEN UNCHANGED <<mode, call, tty>>
             ELSE mode' = "command" /\ call' = 0 /\ Says(<<Word("NO_CARRIER", call)>>)
          /\ UNCHANGED <<wire, quiet, present, handle>>
       \/ present /\ Dies /\ handle' = Deaden
    /\ Goto(c, "killed")
    /\ UNCHANGED <<pos, stage, attempt, outcome, number, dials, placed, faults>>

\* Seeded fault: the wait for a bridge that was killed has no end.
WaitFails_Patient(c) ==
    /\ pc[c] = "device" /\ ~present
    /\ Goto(c, "closed") /\ Result(c, Word("IO_ERROR", 0))
    /\ UNCHANGED <<modemVars, pos, stage, attempt, handle, number, dials, placed,
                   faults>>

\* waitBridgeExit, or waitDeviceReady, gives up.
WaitFails(c) ==
    /\ \/ pc[c] = "killed" /\ bridge # "none"
       \/ pc[c] = "device" /\ ~present
    /\ Goto(c, "closed") /\ Result(c, Word("IO_ERROR", 0))
    /\ UNCHANGED <<modemVars, pos, stage, attempt, handle, number, dials, placed,
                   faults>>

DeviceReady(c) ==
    /\ pc[c] = "device"
    /\ present
    /\ Goto(c, "opening")
    /\ UNCHANGED <<modemVars, pos, stage, attempt, outcome, handle, number,
                   dials, placed, faults>>

-----------------------------------------------------------------------------
(* The connection, and what may happen to any of it.                       *)

\* ctrl+c or ~. in the terminal, or no file for its log; an interrupt or the
\* deadline of the probe.
HangUp(c) ==
    /\ pc[c] = "online"
    /\ Goto(c, "talk")
    /\ UNCHANGED <<modemVars, pos, stage, attempt, outcome, handle, number,
                   dials, placed, faults>>

\* The reader's or a writer's error: no hangup.
LineLost(c) ==
    /\ pc[c] = "online"
    /\ handle[c] = "dead"
    /\ Goto(c, "close") /\ At(c, 1)
    /\ UNCHANGED <<modemVars, attempt, outcome, handle, number, dials, placed,
                   faults>>

\* A probe without a file for its log just closes.
NoLog(c) ==
    /\ pc[c] = "online" /\ c \in Probes
    /\ Goto(c, "close") /\ At(c, 1)
    /\ UNCHANGED <<modemVars, attempt, outcome, handle, number, dials, placed,
                   faults>>

\* sendBatch's goroutine, or a wake-up's, while the cleanup hangs up: one line,
\* at any point or, in an instance, only after the escape.
LateWrite(c) ==
    /\ c \in Hubs
    /\ pc[c] = "talk" /\ outcome[c].word = "CONNECT"
    /\ pos[c] \in LateLines
    /\ handle[c] = "open"
    /\ "line" \notin faults /\ Fault("line")
    /\ Put("batch", "text", 0)
    /\ UNCHANGED <<mode, call, tty, bridge, present, clientVars>>

\* slmodemd crashes.
ModemCrash ==
    /\ present
    /\ Fault("death")
    /\ Dies
    /\ handle' = Deaden
    /\ UNCHANGED <<pc, pos, stage, attempt, outcome, number, dials, placed>>

\* The hub, or a probe, is killed; the modem stays as it is.
Crash(gone) ==
    /\ \E c \in gone : pc[c] # "idle"
    /\ Fault("crash")
    /\ pc' = [c \in Clients |-> IF c \in gone THEN "idle" ELSE pc[c]]
    /\ attempt' = [c \in Clients |-> IF c \in gone THEN 0 ELSE attempt[c]]
    /\ outcome' = [c \in Clients |-> IF c \in gone THEN Nothing ELSE outcome[c]]
    /\ handle' = [c \in Clients |-> IF c \in gone THEN "none" ELSE handle[c]]
    /\ pos' = [c \in Clients |-> IF c \in gone THEN 1 ELSE pos[c]]
    /\ stage' = [c \in Clients |-> IF c \in gone THEN "begin" ELSE stage[c]]
    /\ quiet' = quiet \ gone
    /\ UNCHANGED <<mode, call, wire, tty, bridge, present, number, dials, placed>>

\* A remote's text contains the words the driver looks for.
Chatter ==
    /\ RemoteText
    /\ Fault("text")
    /\ UNCHANGED clientVars

-----------------------------------------------------------------------------

Talk(c) ==
    Rest(c) \/ Escape(c) \/ Escaped(c) \/ Send(c) \/ SendFails(c) \/ Reply(c) \/ Timeout(c)

Run(c) ==
    \/ OpenOk(c) \/ OpenFail(c) \/ Close(c) \/ Retry(c) \/ Release(c)
    \/ BridgeGone(c) \/ BridgeKill(c) \/ WaitFails(c) \/ DeviceReady(c)
    \/ LineLost(c)

\* Nobody is left to dial.
Terminating ==
    /\ \A c \in Clients : pc[c] = "idle" /\ dials[c] = MaxDials
    /\ UNCHANGED vars

Next ==
    \/ Modem /\ UNCHANGED <<clientVars, faults>>
    \/ Chatter
    \/ ModemCrash
    \/ \E c \in Clients : Start(c) \/ Talk(c) \/ Run(c) \/ HangUp(c) \/ NoLog(c)
                         \/ LateWrite(c)
    \/ \E gone \in {Hubs} \cup {{c} : c \in Probes} : Crash(gone)
    \/ Terminating

Safety == Init /\ [][Next]_vars

\* The modem looks at what was written; goroutines and processes run.
Fairness ==
    /\ WF_vars(Take /\ UNCHANGED <<clientVars, faults>>)
    /\ \A c \in Clients : WF_vars(Talk(c) \/ Run(c))

Spec == Safety /\ Fairness

-----------------------------------------------------------------------------

\* Between them, the words of one call.
CallWords == {"CONNECT", "BUSY", "NO_CARRIER", "NO_DIALTONE"}

\* The modem is in step with its clients: no answer was late, or no number was
\* dialled before the one at hand.  (Answers that are late again and again pile
\* up, and an ATDT among them is taken after three more dials have begun.)
InStep == "late" \in faults => placed <= 1

\* A dial's result answers its own ATDT and not an earlier one, although
\* Init and Hangup ignore some answers and others come after their deadline.
\* (An ERROR may be a late answer of Init's.)
ResultIsOwn ==
    \A c \in Clients :
        /\ outcome[c].word \in CallWords
        /\ faults \cap {"shared", "text"} = {} /\ InStep
        => outcome[c].call = number[c]

\* "Hangup sends the escape sequence and ATH to hang up": when the hub closes
\* the modem the line is down, or an ATH that will take it down is on its way.
HangUpHangsUp ==
    \A c \in Hubs :
        /\ pc[c] = "close" /\ handle[c] = "open"
        /\ faults \cap {"shared", "late"} = {}
        => \/ mode = "command"
           \/ mode = "escaped" /\ \E i \in DOMAIN wire : wire[i].cmd = "ATH"

\* "Force command mode: if modem is stuck in online/data mode after a failed
\* dial": Init is never left without an answer, whatever state a crash, a probe
\* or a failed dial has left the modem in.
InitRecovers ==
    \A c \in Clients :
        outcome[c].word = "NO_RESPONSE" => faults \cap {"shared", "late"} # {}

\* A number is never sent to a remote as text, and never aborts a call, however
\* late the modem is and whoever was killed between the commands.
DialsFromCommandMode ==
    [][ /\ wire # <<>> /\ wire' = Tail(wire) /\ Head(wire).cmd = "ATDT"
        /\ "shared" \notin faults
        => mode = "command"]_vars

\* "If we retry ATDT before the bridge exits ... the modem gets immediate NO
\* CARRIER": no retry is placed while an earlier bridge runs.
RetryOnFreeLine ==
    [][\A c \in Hubs :
          /\ number'[c] # number[c] /\ attempt[c] > 1
          /\ faults \cap {"shared", "late", "blind"} = {}
          => bridge = "none"]_vars

\* Every dial, and every cleanup, comes to its end, also when the hub and a
\* probe get in each other's way: each wait has a deadline.
DialReturns ==
    \A c \in Clients : pc[c] \notin {"idle", "online"} ~> pc[c] \in {"idle", "online"}

-----------------------------------------------------------------------------
(* The inductive invariant behind the safety properties, in named parts.   *)

\* The points at which a client has the device open.
OpenPc == {"talk", "online", "close"}

\* c is in the dialogue, over a handle that works.
Live(c) == pc[c] = "talk" /\ handle[c] = "open"

\* c is in Init or Configure, or about to dial.
BeforeDial(c) == pos[c] < DialAt \/ (pos[c] = DialAt /\ stage[c] = "begin")

Waits(c, i) == pos[c] = i /\ stage[c] = "wait"

\* A client's place in the code says what it has: a handle, a place in the
\* script, an outcome, an attempt.
PlaceOf(c) ==
    /\ pc[c] \in OpenPc <=> handle[c] # "none"
    /\ pc[c] # "talk" => stage[c] = "begin"
    /\ pc[c] \notin {"talk", "online"} => pos[c] = 1
    /\ pc[c] = "online" => pos[c] = HangupAt /\ outcome[c].word = "CONNECT"
    /\ stage[c] = "rest" => pos[c] \in {1, HangupAt}
    /\ \/ pc[c] \in {"idle", "opening", "bridge", "killed", "device"}
       \/ pc[c] = "talk" /\ pos[c] < HangupAt
       => outcome[c] = Nothing
    /\ pc[c] = "idle" \/ outcome[c].word = "CONNECT" => attempt[c] = 0

PlaceInv ==
    /\ quiet \subseteq {c \in Clients : handle[c] = "open"}
    /\ \A c \in Clients : PlaceOf(c)

\* The bridge has a call exactly while the modem has one.
BridgeInv == bridge = "active" <=> mode # "command"

\* Before the first ATDT there is no result of one.
NumberInv ==
    placed = 0 =>
        /\ \A i \in DOMAIN wire : wire[i].cmd \notin {"ATDT", "text"}
        /\ \A c \in Clients : /\ outcome[c].word # "CONNECT" /\ ~Waits(c, DialAt)
                              /\ Live(c) => pos[c] < HangupAt

\* Unless the modem is shared, one client at a time is at it, and nobody writes
\* to a modem that has died.
AloneInv ==
    "shared" \notin faults =>
        /\ \A c, d \in Clients : pc[c] # "idle" /\ pc[d] # "idle" => c = d
        /\ \A c \in Clients : handle[c] = "dead" => wire = <<>>

\* No ATDT from position i of the wire on, up to position j.
NoDial(i, j) == \A k \in i..j : wire[k].cmd # "ATDT"

\* When the modem comes to position i of the wire it is out of data mode.
EscapedBy(i) ==
    \/ mode \in {"command", "escaped"} /\ NoDial(1, i - 1)
    \/ \E k \in 1..(i - 1) : wire[k].cmd = "+++" /\ wire[k].clean /\ NoDial(k, i - 1)

\* When the modem comes to position i of the wire it is in command mode.
CommandBy(i) ==
    \/ mode = "command" /\ NoDial(1, i - 1)
    \/ \E k \in 1..(i - 1) : wire[k].cmd = "ATH" /\ EscapedBy(k) /\ NoDial(k, i - 1)

\* What is written is in order, however late it is looked at: an ATDT after the
\* ATH.
DialsInOrder == \A i \in DOMAIN wire : wire[i].cmd = "ATDT" => CommandBy(i)

\* The same of what is written next, and of all there is.
EscapedNext == EscapedBy(Len(wire) + 1)
CommandNext == CommandBy(Len(wire) + 1)
NoDials     == \A i \in DOMAIN wire : wire[i].cmd # "ATDT"

OrderInv ==
    "shared" \notin faults =>
        /\ DialsInOrder
        /\ \A c \in Clients : Live(c) =>
              /\ pos[c] = 1 /\ stage[c] = "rest" => c \in quiet
              /\ Waits(c, 1) \/ (pos[c] = 2 /\ stage[c] = "begin") => EscapedNext
              /\ Waits(c, 2) \/ (pos[c] > 2 /\ BeforeDial(c)) => CommandNext

Timely == faults \cap {"shared", "late"} = {}

OutOfData == mode \in {"command", "escaped"}

Heard(words) == \E i \in DOMAIN tty : tty[i].word \in words

\* What is on the wire ends with a command that is answered with OK or ERROR.
AnswerComes == wire # <<>> /\ wire[Len(wire)].cmd \notin {"+++", "ATDT", "text"}

\* Init in time: the escape and the ATH have worked before ATZ is written, and
\* each of the commands from there on gets an answer.
InitInv ==
    Timely =>
        \A c \in Clients : Live(c) =>
            /\ pos[c] = 2 /\ stage[c] = "begin" => wire = <<>> /\ OutOfData
            /\ Waits(c, 2) =>
                  /\ NoDials
                  /\ \/ mode = "command"
                     \/ /\ mode = "escaped" /\ tty = <<>>
                        /\ Len(wire) = 1 /\ wire[1].cmd = "ATH"
            /\ pos[c] > 2 /\ BeforeDial(c) => mode = "command" /\ NoDials
            /\ pos[c] \in 3..(DialAt - 1) /\ stage[c] = "wait" =>
                  Heard({"OK", "ERROR"}) \/ AnswerComes

\* Hangup in time, when no line is written in its rest: the escape works before
\* ATH is written, and that ATH is never lost.
Down ==
    /\ NoDials
    /\ \/ mode = "command"
       \/ mode = "escaped" /\ \E i \in DOMAIN wire : wire[i].cmd = "ATH"

HangupInv ==
    Timely /\ HangupAt \notin LateLines =>
        \A c \in Clients :
            /\ Live(c) =>
                  /\ pos[c] = HangupAt /\ stage[c] = "rest" => c \in quiet
                  /\ Waits(c, HangupAt) => EscapedNext
                  /\ pos[c] = HangupAt + 1 /\ stage[c] = "begin" => OutOfData /\ NoDials
                  /\ Waits(c, HangupAt + 1) => Down
            /\ c \in Hubs /\ pc[c] = "close" /\ handle[c] = "open" => Down

\* Between two attempts in time no number is on its way to the modem, so that
\* the bridge that has gone stays away until the next ATDT.
Again(c) == attempt[c] > 1 /\ (pc[c] = "opening" \/ (pc[c] = "talk" /\ BeforeDial(c)))

RetryInv ==
    Timely =>
        \A c \in Hubs :
            /\ \/ Live(c) /\ pos[c] = HangupAt + 1
               \/ pc[c] \in {"close", "closed"} /\ outcome[c].word \in {"NO_CARRIER", "TIMEOUT"}
               \/ pc[c] \in {"bridge", "killed", "device"}
               \/ Again(c)
               => NoDials
            /\ (pc[c] = "device" \/ Again(c)) /\ "blind" \notin faults => bridge = "none"

\* Before the first number is dialled the modem leaves data mode for good, and
\* two answers after the "+++" are an answer to the ATH.
Resets == {"ATH", "ATZ"}

FirstInv ==
    faults \cap {"shared", "text"} = {} /\ placed = 0 =>
        /\ Heard({"OK", "ERROR"}) => OutOfData
        /\ \A i \in DOMAIN wire :
              wire[i].cmd \in {"ATE0", "ATX3", "AT+"} =>
                  /\ mode = "escaped" => \E k \in 1..(i - 1) : wire[k].cmd \in Resets
                  /\ \A j \in 1..(i - 1) : wire[j].cmd = "+++" =>
                        \E k \in (j + 1)..(i - 1) : wire[k].cmd \in Resets
        /\ \A c \in Clients : Live(c) =>
              /\ pos[c] > 3 => OutOfData
              /\ Waits(c, 4) /\ Heard({"OK", "ERROR"}) => mode = "command"
              /\ pos[c] > 4 => mode = "command"
              /\ Waits(c, 2) \/ pos[c] > 2 =>
                    /\ mode = "escaped" => \E k \in DOMAIN wire : wire[k].cmd \in Resets
                    /\ \A j \in DOMAIN wire : wire[j].cmd = "+++" =>
                          \E k \in DOMAIN wire : k > j /\ wire[k].cmd \in Resets

\* While Dial waits, every result on its way is that of its own number.
OwnInv ==
    faults \cap {"shared", "text"} = {} /\ InStep =>
        \A c \in Clients :
            Live(c) /\ Waits(c, DialAt) =>
                /\ \A i \in DOMAIN tty : tty[i].word \in CallWords => tty[i].call = number[c]
                /\ \A i \in DOMAIN wire : wire[i].cmd = "ATDT" => wire[i].call = number[c]
                /\ mode # "command" => call = number[c]

IInv ==
    /\ TypeOK
    /\ PlaceInv
    /\ BridgeInv
    /\ NumberInv
    /\ AloneInv
    /\ OrderInv
    /\ InitInv
    /\ HangupInv
    /\ RetryInv
    /\ FirstInv
    /\ OwnInv
    /\ ResultIsOwn
    /\ InitRecovers

-----------------------------------------------------------------------------
(* What ConsoleHub has instead of all this.                                *)

Place(c) ==
    CASE pc[c] = "idle" -> "idle"
      [] pc[c] \in {"opening", "bridge", "killed", "device"} -> "opening"
      [] pc[c] = "talk" /\ pos[c] < HangupAt -> "dialing"
      [] OTHER -> CASE outcome[c].word = "CONNECT" -> "connected"
                    [] outcome[c].word \in {"NO_CARRIER", "TIMEOUT"} -> "missed"
                    [] outcome[c].word \in {"BUSY", "NO_DIALTONE", "ERROR"} -> "refused"
                    [] OTHER -> "failing"

Task(c) == INSTANCE DialTask WITH place <- Place(c), attempt <- attempt[c]

\* Seen from outside, a dial in all its detail is the dial that ConsoleHub
\* has: the same points, the same results, the same number of attempts.
ImplementsDialTask ==
    /\ \A c \in Clients : Task(c)!Init
    /\ [][\A c \in Clients : [Task(c)!Next]_(Task(c)!vars)]_vars
=============================================================================
