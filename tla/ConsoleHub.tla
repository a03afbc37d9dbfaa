----------------------------- MODULE ConsoleHub -----------------------------
(***************************************************************************)
(* The SSH sessions of the hub and the one modem they share.               *)
(*                                                                         *)
(* A session is a Bubble Tea program: one event loop that handles one      *)
(* message at a time (tui.Model.Update).  The slow work - dialling, reading*)
(* and writing the line, hanging up - runs in goroutines that outlive the  *)
(* loop's step and report back with a message.  Messages in flight are a   *)
(* set: the runtime sends each from a goroutine of its own, so they arrive *)
(* in any order, and none is delivered once the program has ended.         *)
(*                                                                         *)
(* A task is one dial and all that follows from it: the request in the     *)
(* menu, the goroutine of acquireAndDial, the modem handle it opens, the   *)
(* connection over it and its cleanup.  Tasks bounds the dials of a        *)
(* behaviour; Owner says which session may use which.                      *)
(***************************************************************************)
EXTENDS Naturals

CONSTANTS
    Sessions,    \* the SSH sessions
    Tasks,       \* the dials
    Owner,       \* the session of each dial
    Sites,       \* the names of the configured sites
    NoSite,      \* "", the lock's idle value
    NoModem,     \* a nil *modem.Modem
    MaxRetries,  \* dial attempts per request (maxRetries)
    MayDrop,     \* the sessions whose SSH connection may break
    MayQuit,     \* the sessions whose user may press q in the menu
    MayCancel    \* the sessions whose user may press ctrl+c during a dial

ASSUME HubAssumption ==
    /\ Owner \in [Tasks -> Sessions]
    /\ NoModem \notin Tasks
    /\ MaxRetries \in Nat \ {0}

VARIABLES
    state,        \* Model.state, or "new" before login, "closed" at the end
    quitting,     \* the session's tea.Quit is on its way
    activeModem,  \* Model.activeModem: the task whose handle the model holds
    activeSite,   \* Model.activeSite: the site the session displays and logs
    dialDone,     \* DialingModel.done
    cleaning,     \* ConnectedModel.cleaning
    carrierLost,  \* ConnectedModel.carrierLost
    msgs,         \* messages sent and not yet handled
    pc,           \* where each task is
    site,         \* the site each task dials
    attempt,      \* acquireAndDial's loop variable
    result,       \* the class of the last dial result
    modems,       \* the tasks whose modem handle is open
    reading,      \* the tasks with a waitForModemData command running
    writing,      \* the tasks with a sendLine or sendBatch command running
    lockSite,     \* DeviceLock.activeSite
    holders       \* DeviceLock's auxiliary holders

sessionVars == <<state, quitting, activeModem, activeSite, dialDone,
                 cleaning, carrierLost>>
taskVars == <<pc, site, attempt, result>>
ioVars   == <<modems, reading, writing>>
lockVars == <<lockSite, holders>>
vars     == <<sessionVars, msgs, taskVars, ioVars, lockVars>>

Lock == INSTANCE DeviceLock
            WITH activeSite <- lockSite, Clients <- Tasks

-----------------------------------------------------------------------------

\* The points of a dial at which it has acquired the device.
HoldingPc == {"opening", "dialing", "hangup", "abort", "failing", "hungUp",
              "bridge", "offered", "online", "cleanup", "hangingUp",
              "closing", "releasing"}

\* The points at which its modem handle is open.
OpenPc == {"dialing", "hangup", "abort", "offered", "online", "cleanup",
           "hangingUp", "closing"}

Pc == {"fresh", "requested", "acquire", "done"} \cup HoldingPc

States == {"new", "password", "menu", "dialing", "connected", "closed"}

\* DialRequestMsg, DialResultMsg with CONNECT, DialResultMsg without it,
\* ErrorMsg, modemDisconnectMsg (of the reader, of a writer), cleanupDoneMsg
\* and TerminalDoneMsg.
Kinds == {"dialRequest", "connect", "failed", "error", "readErr", "writeErr",
          "cleanupDone", "terminalDone"}

Msg(kind, t) == [kind |-> kind, task |-> t]

TypeOK ==
    /\ state \in [Sessions -> States]
    /\ quitting \in [Sessions -> BOOLEAN]
    /\ activeModem \in [Sessions -> Tasks \cup {NoModem}]
    /\ activeSite \in [Sessions -> Sites \cup {NoSite}]
    /\ dialDone \in [Sessions -> BOOLEAN]
    /\ cleaning \in [Sessions -> BOOLEAN]
    /\ carrierLost \in [Sessions -> BOOLEAN]
    /\ msgs \subseteq [kind : Kinds, task : Tasks]
    /\ pc \in [Tasks -> Pc]
    /\ site \in [Tasks -> Sites \cup {NoSite}]
    /\ attempt \in [Tasks -> 0..MaxRetries]
    /\ result \in [Tasks -> {"none", "retryable", "final"}]
    /\ modems \subseteq Tasks
    /\ reading \subseteq Tasks
    /\ writing \subseteq Tasks
    /\ lockSite \in Sites \cup {NoSite}
    /\ holders \subseteq Tasks

Init ==
    /\ state = [s \in Sessions |-> "new"]
    /\ quitting = [s \in Sessions |-> FALSE]
    /\ activeModem = [s \in Sessions |-> NoModem]
    /\ activeSite = [s \in Sessions |-> NoSite]
    /\ dialDone = [s \in Sessions |-> FALSE]
    /\ cleaning = [s \in Sessions |-> FALSE]
    /\ carrierLost = [s \in Sessions |-> FALSE]
    /\ msgs = {}
    /\ pc = [t \in Tasks |-> "fresh"]
    /\ site = [t \in Tasks |-> NoSite]
    /\ attempt = [t \in Tasks |-> 0]
    /\ result = [t \in Tasks |-> "none"]
    /\ modems = {}
    /\ reading = {}
    /\ writing = {}
    /\ Lock!Init

-----------------------------------------------------------------------------
(* Helpers of the actions.                                                 *)

Running(s) == state[s] \notin {"new", "closed"}

\* Program.Send after the program has ended is a no-op.
Sent(m) == IF Running(Owner[m.task]) THEN {m} ELSE {}

Goto(t, label) == pc' = [pc EXCEPT ![t] = label]

\* acquireAndDial's goroutine returns its message; its locals are gone.
Return(t, kind, label) ==
    /\ msgs' = msgs \cup Sent(Msg(kind, t))
    /\ Goto(t, label)
    /\ attempt' = [attempt EXCEPT ![t] = 0]
    /\ result' = [result EXCEPT ![t] = "none"]

Handle(m) == msgs' = msgs \ {m}

\* Model.returnToMenu
ReturnToMenu(s) ==
    /\ state' = [state EXCEPT ![s] = "menu"]
    /\ activeModem' = [activeModem EXCEPT ![s] = NoModem]

-----------------------------------------------------------------------------
(* Seeded faults.  Each is the action or operator it is named after with a *)
(* plausible mistake in it; a property that still holds when the fault     *)
(* replaces the original says nothing about that part of the code.         *)

\* A live terminal: Connected and not cleaning up.
Online(s) == state[s] = "connected" /\ ~cleaning[s]

\* The site of the new dial is not stored in the model.
OnDialRequest_StaleSite(s, t) ==
    /\ Msg("dialRequest", t) \in msgs
    /\ Owner[t] = s
    /\ state[s] = "menu"
    /\ Handle(Msg("dialRequest", t))
    /\ state' = [state EXCEPT ![s] = "dialing"]
    /\ activeSite' = [activeSite EXCEPT ![s] = IF @ = NoSite THEN site[t] ELSE @]
    /\ dialDone' = [dialDone EXCEPT ![s] = FALSE]
    /\ Goto(t, "acquire")
    /\ UNCHANGED <<quitting, activeModem, cleaning, carrierLost, site,
                   attempt, result, ioVars, lockVars>>

\* The lock is not released when the session log cannot be created.
OnConnectNoLog_Keeps(s, t) ==
    /\ Msg("connect", t) \in msgs
    /\ Owner[t] = s
    /\ state[s] = "dialing"
    /\ Handle(Msg("connect", t))
    /\ modems' = modems \ {t}
    /\ Goto(t, "done")
    /\ ReturnToMenu(s)
    /\ UNCHANGED <<quitting, activeSite, dialDone, cleaning, carrierLost,
                   site, attempt, result, reading, writing, lockVars>>

\* Hanging up returns to the menu without waiting for the cleanup.
HangUpKey_Leaves(s) ==
    /\ Online(s)
    /\ cleaning' = [cleaning EXCEPT ![s] = TRUE]
    /\ Goto(activeModem[s], "cleanup")
    /\ ReturnToMenu(s)
    /\ UNCHANGED <<quitting, activeSite, dialDone, carrierLost, msgs, site,
                   attempt, result, ioVars, lockVars>>

\* cleanupDoneMsg is answered with itself.
OnCleanupDone_Loops(s, t) ==
    /\ Msg("cleanupDone", t) \in msgs
    /\ Owner[t] = s
    /\ state[s] = "connected"
    /\ UNCHANGED <<sessionVars, msgs, taskVars, ioVars, lockVars>>

\* dialAttempt leaves the handle open on an error path.
AbortClose_Leaks(t) ==
    /\ pc[t] = "abort"
    /\ Goto(t, "failing")
    /\ UNCHANGED <<sessionVars, msgs, site, attempt, result, ioVars, lockVars>>

\* An error path forgets the lock.
ReleaseError_Keeps(t) ==
    /\ pc[t] = "failing"
    /\ Return(t, "error", "done")
    /\ UNCHANGED <<sessionVars, site, ioVars, lockVars>>

\* Retries are not counted.
Retry_Uncounted(t) ==
    /\ pc[t] = "hungUp"
    /\ result[t] = "retryable" /\ attempt[t] < MaxRetries
    /\ Goto(t, "bridge")
    /\ UNCHANGED <<sessionVars, msgs, site, attempt, result, ioVars, lockVars>>

\* The hangup is repeated until the program takes note of it.
CleanupHangup_NeedsProgram(t) ==
    /\ pc[t] = "hangingUp"
    /\ Goto(t, IF Running(Owner[t]) THEN "closing" ELSE "hangingUp")
    /\ UNCHANGED <<sessionVars, msgs, site, attempt, result, ioVars, lockVars>>

-----------------------------------------------------------------------------
(* The session's life: login, menu keys, the end of the program.           *)

\* teaHandler and tui.New: a forced password change precedes the menu.
Login(s) ==
    /\ state[s] = "new"
    /\ \E first \in {"password", "menu"} : state' = [state EXCEPT ![s] = first]
    /\ UNCHANGED <<quitting, activeModem, activeSite, dialDone, cleaning,
                   carrierLost, msgs, taskVars, ioVars, lockVars>>

\* PasswordChangedMsg in StatePasswordChange.
PasswordChanged(s) ==
    /\ state[s] = "password"
    /\ state' = [state EXCEPT ![s] = "menu"]
    /\ UNCHANGED <<quitting, activeModem, activeSite, dialDone, cleaning,
                   carrierLost, msgs, taskVars, ioVars, lockVars>>

\* Enter on a site; the menu stays on the screen until DialRequestMsg comes
\* back, so the key can be pressed again.
SelectSite(s, t, name) ==
    /\ state[s] = "menu"
    /\ Owner[t] = s
    /\ pc[t] = "fresh"
    /\ site' = [site EXCEPT ![t] = name]
    /\ msgs' = msgs \cup {Msg("dialRequest", t)}
    /\ Goto(t, "requested")
    /\ UNCHANGED <<sessionVars, attempt, result, ioVars, lockVars>>

\* q or ctrl+c in the menu, ctrl+c at the password prompt: tea.Quit is a
\* command as well, and takes effect later.
QuitKey(s) ==
    /\ s \in MayQuit
    /\ state[s] \in {"menu", "password"}
    /\ ~quitting[s]
    /\ quitting' = [quitting EXCEPT ![s] = TRUE]
    /\ UNCHANGED <<state, activeModem, activeSite, dialDone, cleaning,
                   carrierLost, msgs, taskVars, ioVars, lockVars>>

\* The program ends.  Its messages are dropped, its goroutines run on, and
\* commands of a batch the loop had not yet started are lost.
Close(s) ==
    /\ state' = [state EXCEPT ![s] = "closed"]
    /\ msgs' = {m \in msgs : Owner[m.task] # s}
    /\ \E lost \in SUBSET {t \in Tasks : /\ Owner[t] = s
                                         /\ pc[t] \in {"acquire", "cleanup"}} :
          pc' = [t \in Tasks |->
                    IF \/ Owner[t] = s /\ pc[t] = "requested"
                       \/ t \in lost /\ pc[t] = "acquire" THEN "done"
                    ELSE IF t \in lost THEN "online"
                    ELSE pc[t]]
    /\ UNCHANGED <<quitting, activeModem, activeSite, dialDone, cleaning,
                   carrierLost, site, attempt, result, ioVars, lockVars>>

\* tea.QuitMsg reaches the loop.
Quit(s) == Running(s) /\ quitting[s] /\ Close(s)

\* The SSH connection breaks, in any state.
Drop(s) == s \in MayDrop /\ Running(s) /\ Close(s)

-----------------------------------------------------------------------------
(* Messages and keys in the session's event loop.                          *)

\* updateMenu, DialRequestMsg
OnDialRequest(s, t) ==
    /\ Msg("dialRequest", t) \in msgs
    /\ Owner[t] = s
    /\ state[s] = "menu"
    /\ Handle(Msg("dialRequest", t))
    /\ state' = [state EXCEPT ![s] = "dialing"]
    /\ activeSite' = [activeSite EXCEPT ![s] = site[t]]
    /\ dialDone' = [dialDone EXCEPT ![s] = FALSE]
    /\ Goto(t, "acquire")
    /\ UNCHANGED <<quitting, activeModem, cleaning, carrierLost, site,
                   attempt, result, ioVars, lockVars>>

\* updateDialing, DialResultMsg with CONNECT: the message of any dial of this
\* session, not only of the one on the screen.
OnConnect(s, t) ==
    /\ Msg("connect", t) \in msgs
    /\ Owner[t] = s
    /\ state[s] = "dialing"
    /\ Handle(Msg("connect", t))
    /\ state' = [state EXCEPT ![s] = "connected"]
    /\ activeModem' = [activeModem EXCEPT ![s] = t]
    /\ cleaning' = [cleaning EXCEPT ![s] = FALSE]
    /\ carrierLost' = [carrierLost EXCEPT ![s] = FALSE]
    /\ reading' = reading \cup {t}
    /\ Goto(t, "online")
    /\ UNCHANGED <<quitting, activeSite, dialDone, site, attempt, result,
                   modems, writing, lockVars>>

\* The same message when the session log cannot be created.
OnConnectNoLog(s, t) ==
    /\ Msg("connect", t) \in msgs
    /\ Owner[t] = s
    /\ state[s] = "dialing"
    /\ Handle(Msg("connect", t))
    /\ modems' = modems \ {t}
    /\ Lock!Release(t)
    /\ Goto(t, "done")
    /\ ReturnToMenu(s)
    /\ UNCHANGED <<quitting, activeSite, dialDone, cleaning, carrierLost,
                   site, attempt, result, reading, writing>>

\* DialingModel.Update: a result other than CONNECT, or an ErrorMsg, ends the
\* dial on the screen.
OnDialFailed(s, t) ==
    /\ \E kind \in {"failed", "error"} :
          Msg(kind, t) \in msgs /\ Handle(Msg(kind, t))
    /\ Owner[t] = s
    /\ state[s] = "dialing"
    /\ dialDone' = [dialDone EXCEPT ![s] = TRUE]
    /\ UNCHANGED <<state, quitting, activeModem, activeSite, cleaning,
                   carrierLost, taskVars, ioVars, lockVars>>

\* ctrl+c at any time, or enter once the dial is done.  The dial's goroutine
\* is not told.
LeaveDialing(s) ==
    /\ state[s] = "dialing"
    /\ dialDone[s] \/ s \in MayCancel
    /\ ReturnToMenu(s)
    /\ UNCHANGED <<quitting, activeSite, dialDone, cleaning, carrierLost,
                   msgs, taskVars, ioVars, lockVars>>

\* A line or a batch is handed to a goroutine that writes it.
EnterKey(s) ==
    /\ Online(s)
    /\ activeModem[s] \notin writing
    /\ writing' = writing \cup {activeModem[s]}
    /\ UNCHANGED <<sessionVars, msgs, taskVars, modems, reading, lockVars>>

\* ctrl+c, or ~. after an empty line.
HangUpKey(s) ==
    /\ Online(s)
    /\ cleaning' = [cleaning EXCEPT ![s] = TRUE]
    /\ Goto(activeModem[s], "cleanup")
    /\ UNCHANGED <<state, quitting, activeModem, activeSite, dialDone,
                   carrierLost, msgs, site, attempt, result, ioVars, lockVars>>

\* modemDisconnectMsg carries no identity: any connection of this session,
\* over or not, ends the one on the screen.
OnDisconnect(s, t) ==
    /\ \E kind \in {"readErr", "writeErr"} :
          Msg(kind, t) \in msgs /\ Handle(Msg(kind, t))
    /\ Owner[t] = s
    /\ Online(s)
    /\ cleaning' = [cleaning EXCEPT ![s] = TRUE]
    /\ carrierLost' = [carrierLost EXCEPT ![s] = TRUE]
    /\ Goto(activeModem[s], "cleanup")
    /\ UNCHANGED <<state, quitting, activeModem, activeSite, dialDone,
                   site, attempt, result, ioVars, lockVars>>

\* cleanupDoneMsg is answered with TerminalDoneMsg, cleaning or not.
OnCleanupDone(s, t) ==
    /\ Msg("cleanupDone", t) \in msgs
    /\ Owner[t] = s
    /\ state[s] = "connected"
    /\ msgs' = (msgs \ {Msg("cleanupDone", t)}) \cup {Msg("terminalDone", t)}
    /\ UNCHANGED <<sessionVars, taskVars, ioVars, lockVars>>

\* updateConnected, TerminalDoneMsg
OnTerminalDone(s, t) ==
    /\ Msg("terminalDone", t) \in msgs
    /\ Owner[t] = s
    /\ state[s] = "connected"
    /\ Handle(Msg("terminalDone", t))
    /\ ReturnToMenu(s)
    /\ UNCHANGED <<quitting, activeSite, dialDone, cleaning, carrierLost,
                   taskVars, ioVars, lockVars>>

\* Seeded fault: the dialling screen only knows failures.
Handled_NoConnect(s, kind) ==
    CASE state[s] = "menu"      -> kind = "dialRequest"
      [] state[s] = "dialing"   -> kind \in {"failed", "error"}
      [] state[s] = "connected" -> \/ kind \in {"cleanupDone", "terminalDone"}
                                   \/ /\ kind \in {"readErr", "writeErr"}
                                      /\ ~cleaning[s]
      [] OTHER                  -> FALSE

\* What each state of the model does something with.
Handled(s, kind) ==
    CASE state[s] = "menu"      -> kind = "dialRequest"
      [] state[s] = "dialing"   -> kind \in {"connect", "failed", "error"}
      [] state[s] = "connected" -> \/ kind \in {"cleanupDone", "terminalDone"}
                                   \/ /\ kind \in {"readErr", "writeErr"}
                                      /\ ~cleaning[s]
      [] OTHER                  -> FALSE

\* Every other message falls through Update and is gone; for a DialRequestMsg
\* no dial ever starts.
Ignore(s, t) ==
    /\ Owner[t] = s
    /\ \E kind \in Kinds :
          /\ Msg(kind, t) \in msgs
          /\ ~Handled(s, kind)
          /\ Handle(Msg(kind, t))
          /\ pc' = IF kind = "dialRequest" THEN [pc EXCEPT ![t] = "done"]
                                           ELSE pc
    /\ UNCHANGED <<sessionVars, site, attempt, result, ioVars, lockVars>>

-----------------------------------------------------------------------------
(* acquireAndDial, one goroutine per task.                                 *)

AcquireOk(t) ==
    /\ pc[t] = "acquire"
    /\ Lock!Acquire(t, site[t])
    /\ attempt' = [attempt EXCEPT ![t] = 1]
    /\ Goto(t, "opening")
    /\ UNCHANGED <<sessionVars, msgs, site, result, ioVars>>

\* Busy, or no device file.
AcquireFail(t) ==
    /\ pc[t] = "acquire"
    /\ \E deviceExists \in BOOLEAN : Lock!Refuse(deviceExists)
    /\ Return(t, "error", "done")
    /\ UNCHANGED <<sessionVars, site, ioVars>>

\* modem.Open
OpenOk(t) ==
    /\ pc[t] = "opening"
    /\ modems' = modems \cup {t}
    /\ Goto(t, "dialing")
    /\ UNCHANGED <<sessionVars, msgs, site, attempt, result, reading, writing,
                   lockVars>>

OpenFail(t) ==
    /\ pc[t] = "opening"
    /\ Goto(t, "failing")
    /\ UNCHANGED <<sessionVars, msgs, site, attempt, result, ioVars, lockVars>>

\* Init, Configure and Dial come to a result.
DialConnect(t) ==
    /\ pc[t] = "dialing"
    /\ Return(t, "connect", "offered")
    /\ UNCHANGED <<sessionVars, site, ioVars, lockVars>>

\* NO CARRIER and TIMEOUT are retryable; BUSY, NO DIALTONE, ERROR are final.
DialFail(t) ==
    /\ pc[t] = "dialing"
    /\ \E class \in {"retryable", "final"} :
          result' = [result EXCEPT ![t] = class]
    /\ Goto(t, "hangup")
    /\ UNCHANGED <<sessionVars, msgs, site, attempt, ioVars, lockVars>>

\* Init, Configure or Dial fails with an I/O error.
DialError(t) ==
    /\ pc[t] = "dialing"
    /\ Goto(t, "abort")
    /\ UNCHANGED <<sessionVars, msgs, site, attempt, result, ioVars, lockVars>>

\* dialAttempt closes the handle on its error paths.
AbortClose(t) ==
    /\ pc[t] = "abort"
    /\ modems' = modems \ {t}
    /\ Goto(t, "failing")
    /\ UNCHANGED <<sessionVars, msgs, site, attempt, result, reading, writing,
                   lockVars>>

\* An error ends the dial: Release, then ErrorMsg.
ReleaseError(t) ==
    /\ pc[t] = "failing"
    /\ Lock!Release(t)
    /\ Return(t, "error", "done")
    /\ UNCHANGED <<sessionVars, site, ioVars>>

\* mdm.Hangup(); mdm.Close() after a result other than CONNECT.
HangupClose(t) ==
    /\ pc[t] = "hangup"
    /\ modems' = modems \ {t}
    /\ Goto(t, "hungUp")
    /\ UNCHANGED <<sessionVars, msgs, site, attempt, result, reading, writing,
                   lockVars>>

\* Seeded fault: a final result is tried again.
Retrying_Final(t) == attempt[t] < MaxRetries

Retrying(t) == result[t] = "retryable" /\ attempt[t] < MaxRetries

\* The next iteration, with the device still held.
Retry(t) ==
    /\ pc[t] = "hungUp"
    /\ Retrying(t)
    /\ attempt' = [attempt EXCEPT ![t] = @ + 1]
    /\ Goto(t, "bridge")
    /\ UNCHANGED <<sessionVars, msgs, site, result, ioVars, lockVars>>

\* waitBridgeExit and waitDeviceReady before the new attempt.
BridgeGone(t) ==
    /\ pc[t] = "bridge"
    /\ \E label \in {"opening", "failing"} : Goto(t, label)
    /\ UNCHANGED <<sessionVars, msgs, site, attempt, result, ioVars, lockVars>>

\* A final result, or the last attempt: Release, then DialResultMsg.
ReleaseFailed(t) ==
    /\ pc[t] = "hungUp"
    /\ ~Retrying(t)
    /\ Lock!Release(t)
    /\ Return(t, "failed", "done")
    /\ UNCHANGED <<sessionVars, site, ioVars>>

-----------------------------------------------------------------------------
(* The connection: the reader, the writers and ConnectedModel.cleanup.     *)

\* waitForModemData returns an error: the carrier is lost, or the handle was
\* closed under it.  Until then it reads on and reports data.
ReadErr(t) ==
    /\ t \in reading
    /\ reading' = reading \ {t}
    /\ msgs' = msgs \cup Sent(Msg("readErr", t))
    /\ UNCHANGED <<sessionVars, taskVars, modems, writing, lockVars>>

WriteOk(t) ==
    /\ t \in writing \cap modems
    /\ writing' = writing \ {t}
    /\ UNCHANGED <<sessionVars, msgs, taskVars, modems, reading, lockVars>>

WriteErr(t) ==
    /\ t \in writing
    /\ writing' = writing \ {t}
    /\ msgs' = msgs \cup Sent(Msg("writeErr", t))
    /\ UNCHANGED <<sessionVars, taskVars, modems, reading, lockVars>>

\* The cleanup goroutine starts: it closes the log and, unless the carrier is
\* already lost, goes on to hang up.
CleanupStart(t) ==
    /\ pc[t] = "cleanup"
    /\ Goto(t, IF carrierLost[Owner[t]] THEN "closing" ELSE "hangingUp")
    /\ UNCHANGED <<sessionVars, msgs, site, attempt, result, ioVars, lockVars>>

CleanupHangup(t) ==
    /\ pc[t] = "hangingUp"
    /\ Goto(t, "closing")
    /\ UNCHANGED <<sessionVars, msgs, site, attempt, result, ioVars, lockVars>>

CleanupClose(t) ==
    /\ pc[t] = "closing"
    /\ modems' = modems \ {t}
    /\ Goto(t, "releasing")
    /\ UNCHANGED <<sessionVars, msgs, site, attempt, result, reading, writing,
                   lockVars>>

CleanupRelease(t) ==
    /\ pc[t] = "releasing"
    /\ Lock!Release(t)
    /\ msgs' = msgs \cup Sent(Msg("cleanupDone", t))
    /\ Goto(t, "done")
    /\ UNCHANGED <<sessionVars, site, attempt, result, ioVars>>

-----------------------------------------------------------------------------

Deliver(s, t) ==
    \/ OnDialRequest(s, t)
    \/ OnConnect(s, t)
    \/ OnConnectNoLog(s, t)
    \/ OnDialFailed(s, t)
    \/ OnDisconnect(s, t)
    \/ OnCleanupDone(s, t)
    \/ OnTerminalDone(s, t)
    \/ Ignore(s, t)

Dialer(t) ==
    \/ AcquireOk(t)
    \/ AcquireFail(t)
    \/ OpenOk(t)
    \/ OpenFail(t)
    \/ DialConnect(t)
    \/ DialFail(t)
    \/ DialError(t)
    \/ AbortClose(t)
    \/ ReleaseError(t)
    \/ HangupClose(t)
    \/ Retry(t)
    \/ BridgeGone(t)
    \/ ReleaseFailed(t)

Cleanup(t) ==
    \/ CleanupStart(t)
    \/ CleanupHangup(t)
    \/ CleanupClose(t)
    \/ CleanupRelease(t)

Key(s) ==
    \/ \E t \in Tasks, name \in Sites : SelectSite(s, t, name)
    \/ QuitKey(s)
    \/ LeaveDialing(s)
    \/ EnterKey(s)
    \/ HangUpKey(s)

Line(t) == ReadErr(t) \/ WriteOk(t) \/ WriteErr(t)

\* Every session is over, or sits in its menu with no dial left, and no
\* goroutine has a step to take.
Finished ==
    /\ \A s \in Sessions : state[s] \in {"menu", "closed"} /\ ~(Running(s) /\ quitting[s])
    /\ \A t \in Tasks : /\ pc[t] \in {"fresh", "offered", "online", "done"}
                        /\ pc[t] = "fresh" => state[Owner[t]] = "closed"
    /\ msgs = {} /\ reading = {} /\ writing = {}

Terminating == Finished /\ UNCHANGED vars

Next ==
    \/ \E s \in Sessions :
          \/ Login(s) \/ PasswordChanged(s) \/ Quit(s) \/ Drop(s) \/ Key(s)
          \/ \E t \in Tasks : Deliver(s, t)
    \/ \E t \in Tasks : Dialer(t) \/ Cleanup(t) \/ Line(t)
    \/ Terminating

Safety == Init /\ [][Next]_vars

\* The Go scheduler runs every goroutine that can run, and the event loop
\* takes every message that waits.  Nobody has to press a key, and neither
\* the line nor the SSH connection has to fail.
Fairness ==
    \A t \in Tasks : /\ WF_vars(Dialer(t) \/ Cleanup(t))
                    /\ WF_vars(Deliver(Owner[t], t))

Spec == Safety /\ Fairness

-----------------------------------------------------------------------------
(* Safety.                                                                 *)

\* DeviceLock: "Only one session can hold the device at a time", over every
\* interleaving of dials, cleanups, cancelled dials and broken sessions.
Exclusion == Lock!Exclusion

\* The lock names a site exactly while a dial has the device, and it is that
\* dial's site: no Release frees a device someone else has acquired, none is
\* missing on an error path.
LockTracksHolder ==
    /\ Lock!IdleIffFree
    /\ \A t \in holders : lockSite = site[t]

\* The device file is only open under the lock: every Close comes before its
\* Release, so that two dials never talk to the modem at once.
ModemOnlyUnderLock == modems \subseteq holders

\* A session that shows a live terminal has an open modem of its own, and has
\* it acquired.
OnlineOwnsModem ==
    \A s \in Sessions : Online(s) =>
        /\ activeModem[s] \in modems \cap holders
        /\ Owner[activeModem[s]] = s

\* A dial that is over has left nothing behind.
EndedTaskReleased ==
    \A t \in Tasks : pc[t] = "done" => t \notin holders \cup modems

\* The terminal shows, and the session log is named after, the site that was
\* dialled.
DisplayedSiteIsDialled ==
    \A s \in Sessions : Online(s) => activeSite[s] = site[activeModem[s]]

\* A modem nobody can give back any more: its dial has connected and no
\* session has it, or will ever hear of it.
Orphan(t) ==
    \/ /\ pc[t] = "offered"
       /\ Msg("connect", t) \notin msgs
    \/ /\ pc[t] = "online"
       /\ activeModem[Owner[t]] # t \/ ~Online(Owner[t])

\* "The caller must hangup and close the modem when done" (dialAttempt): a
\* modem in a connection always has a session that can hang it up.
NoOrphan == \A t \in Tasks : ~Orphan(t)

-----------------------------------------------------------------------------
(* The inductive invariant behind the safety properties, in named parts.   *)

\* A task's place in the code says whether it has the device and the handle.
PlaceInv ==
    /\ holders = {t \in Tasks : pc[t] \in HoldingPc}
    /\ modems = {t \in Tasks : pc[t] \in OpenPc}

\* Every dial that was asked for is for a configured site.
SiteInv == \A t \in Tasks : pc[t] # "fresh" => site[t] \in Sites

LockInv == Exclusion /\ LockTracksHolder

\* A request or an offer in flight means that its task waits for it.
OfferInv ==
    \A t \in Tasks :
        /\ Msg("dialRequest", t) \in msgs => pc[t] = "requested"
        /\ Msg("connect", t) \in msgs => pc[t] = "offered"

CleanupPc == {"cleanup", "hangingUp", "closing", "releasing"}

\* What a session's state says of the modem it holds.
SessionInv ==
    \A s \in Sessions :
        /\ state[s] \notin {"connected", "closed"} => activeModem[s] = NoModem
        /\ state[s] = "connected" =>
              /\ activeModem[s] \in Tasks
              /\ Owner[activeModem[s]] = s
              /\ pc[activeModem[s]] \in IF cleaning[s] THEN CleanupPc \cup {"done"}
                                                      ELSE {"online"}

\* Every cleanup is that of its session's connection.
CleanupInv ==
    \A t \in Tasks :
        pc[t] \in CleanupPc /\ state[Owner[t]] # "closed" =>
            /\ state[Owner[t]] = "connected"
            /\ activeModem[Owner[t]] = t

\* The end of a connection is announced once, to the session that has it.
DoneInv ==
    \A t \in Tasks :
        /\ \A kind \in {"cleanupDone", "terminalDone"} :
              Msg(kind, t) \in msgs =>
                  /\ pc[t] = "done"
                  /\ state[Owner[t]] = "connected"
                  /\ activeModem[Owner[t]] = t
        /\ ~(Msg("cleanupDone", t) \in msgs /\ Msg("terminalDone", t) \in msgs)

\* Where tasks, sessions and messages stand: all that does not depend on the
\* lock's doing its work.
TaskInv ==
    /\ TypeOK
    /\ PlaceInv
    /\ SiteInv
    /\ OfferInv
    /\ SessionInv
    /\ CleanupInv
    /\ DoneInv

IInv == TaskInv /\ LockInv

-----------------------------------------------------------------------------
(* What a step may never do.                                               *)

\* A session that goes on only forgets its modem once that modem is closed
\* and given back.
ForgetsOnlyReleased ==
    [][\A s \in Sessions :
          (activeModem[s] # NoModem /\ activeModem'[s] # activeModem[s]) =>
              activeModem[s] \notin holders' \cup modems']_vars

\* The lock changes hands through idle only: no step takes the device from
\* one dial and gives it to another, nor changes the site of a holder.
NoHandover ==
    [][holders # {} /\ holders' # {} =>
          holders' = holders /\ lockSite' = lockSite]_vars

-----------------------------------------------------------------------------
(* The abstract specification the hub implements.                          *)

Lease == INSTANCE ModemLease
             WITH Dials <- Tasks,
                  holder <- holders,
                  ended <- {t \in Tasks : pc[t] = "done"}

\* However sessions, messages and goroutines interleave, the modem is leased
\* to one dial at a time, at most once each, and returned by its holder only.
ImplementsLease == Lease!Spec

\* A dial as DialTask has it: the dialogue with the modem is Dialer's.
Place(t) ==
    CASE pc[t] \in {"fresh", "requested", "acquire", "done"} -> "idle"
      [] pc[t] \in {"opening", "bridge"} -> "opening"
      [] pc[t] = "dialing" -> "dialing"
      [] pc[t] \in {"abort", "failing"} -> "failing"
      [] pc[t] \in {"hangup", "hungUp"} ->
            IF result[t] = "retryable" THEN "missed" ELSE "refused"
      [] OTHER -> "connected"

Task(t) == INSTANCE DialTask WITH place <- Place(t), attempt <- attempt[t]

\* Every dial of the hub, cancelled or not, is the dial of DialTask, which
\* Dialer implements as well: what the dialogue with the modem leaves out and
\* what the sessions leave out meet there.
ImplementsDialTask ==
    /\ \A t \in Tasks : Task(t)!Init
    /\ [][\A t \in Tasks : [Task(t)!Next]_(Task(t)!vars)]_vars

-----------------------------------------------------------------------------
(* Liveness.                                                               *)

\* A dial ends, or connects, whatever its session does.
DialEnds ==
    \A t \in Tasks : pc[t] = "acquire" ~> pc[t] \in {"done", "offered", "online"}

\* A cleanup that has started gives the modem back, also when the session
\* has gone in the meantime.
CleanupFrees ==
    \A t \in Tasks :
        pc[t] \in {"hangingUp", "closing", "releasing"} ~> t \notin holders

\* A session that hangs up gets its menu back.
HangUpReturns ==
    \A s \in Sessions : cleaning[s] /\ state[s] = "connected"
                            ~> state[s] \in {"menu", "closed"}

\* A device that is taken becomes free again as long as users hang up: no
\* failed dial and no dial whose session stays keeps it for ever.
DeviceComesBack ==
    \A t \in Tasks : t \in holders ~> t \notin holders \/ Online(Owner[t])
=============================================================================
