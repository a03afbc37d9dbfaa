-------------------------- MODULE ConsoleHubProofs --------------------------
(***************************************************************************)
(* Theorems about ConsoleHub for any number of sessions, dials, sites and  *)
(* retries, and whoever may drop, quit or cancel.                          *)
(*                                                                         *)
(* TaskInv (in ConsoleHub) is inductive: PlaceInv ties the lock to the     *)
(* control points of the tasks; OfferInv, SessionInv, CleanupInv and       *)
(* DoneInv say that a message or a cleanup in flight still speaks of the   *)
(* connection it came from, so that each task meets exactly one Release.   *)
(* LockInv, that the lock does its work, is inductive over TaskInv until a *)
(* site with the empty name is dialled, which DeviceLock reads as idle:    *)
(* what the lock is for assumes that no such site is configured            *)
(* (SitesNamed), the rest does not.  ScreenInv is for the users who wait   *)
(* for their dials.                                                        *)
(***************************************************************************)
EXTENDS ConsoleHub, TLAPS

-----------------------------------------------------------------------------
(* Messages.                                                               *)

\* A message is determined by its kind and its task, and names its task.
LEMMA MsgEq == \A k, j, t, u : Msg(k, t) = Msg(j, u) <=> k = j /\ t = u
BY DEF Msg

\* The runtime delivers a message to the session of its task.
LEMMA MsgTask == \A k, t : Msg(k, t).task = t
BY DEF Msg

\* Messages built by Msg have the type of msgs.
LEMMA MsgType ==
    \A k \in Kinds, t \in Tasks : Msg(k, t) \in [kind : Kinds, task : Tasks]
BY DEF Msg

-----------------------------------------------------------------------------
(* The invariant holds initially and is kept by every step.                *)

\* In Init nothing is held, open or in flight.
LEMMA InitTaskInv == ASSUME Init PROVE TaskInv
<1>1. TypeOK
  BY HubAssumption DEF Init, Lock!Init, TypeOK, Pc, States
<1>2. PlaceInv /\ SiteInv
  BY DEF Init, Lock!Init, PlaceInv, SiteInv, HoldingPc, OpenPc
<1>3. OfferInv /\ SessionInv /\ CleanupInv /\ DoneInv
  BY HubAssumption
     DEF Init, OfferInv, SessionInv, CleanupInv, DoneInv, CleanupPc
<1> QED BY <1>1, <1>2, <1>3 DEF TaskInv

\* The vocabulary of the step lemmas.
USE DEF TaskInv, TypeOK, PlaceInv, SiteInv, OfferInv, SessionInv, CleanupInv,
        DoneInv, Pc, HoldingPc, OpenPc, CleanupPc, States, Kinds, sessionVars,
        taskVars, ioVars, lockVars, Goto, Handle, Sent, Running, Online

\* TaskInv is kept by login, the user's keys and the end of the program.
LEMMA KeySteps ==
    ASSUME TaskInv, NEW s \in Sessions,
           Login(s) \/ PasswordChanged(s) \/ Quit(s) \/ Drop(s) \/ Key(s)
    PROVE  TaskInv'
<1> USE HubAssumption, MsgEq, MsgTask, MsgType
<1>1. ASSUME Login(s) PROVE TaskInv'
  BY <1>1 DEF Login
<1>2. ASSUME PasswordChanged(s) PROVE TaskInv'
  BY <1>2 DEF PasswordChanged
<1>3. ASSUME Close(s) PROVE TaskInv'
  BY <1>3 DEF Close
<1>4. ASSUME NEW t \in Tasks, NEW name \in Sites, SelectSite(s, t, name)
      PROVE  TaskInv'
  BY <1>4 DEF SelectSite
<1>5. ASSUME QuitKey(s) PROVE TaskInv'
  BY <1>5 DEF QuitKey
<1>6. ASSUME LeaveDialing(s) PROVE TaskInv'
  BY <1>6 DEF LeaveDialing, ReturnToMenu
<1>7. ASSUME EnterKey(s) PROVE TaskInv'
  BY <1>7 DEF EnterKey
<1>8. ASSUME HangUpKey(s) PROVE TaskInv'
  BY <1>8 DEF HangUpKey
<1> HIDE DEF TaskInv
<1> QED BY <1>1, <1>2, <1>3, <1>4, <1>5, <1>6, <1>7, <1>8 DEF Key, Quit, Drop

\* TaskInv is kept by every message the event loop handles.
LEMMA MessageSteps ==
    ASSUME TaskInv, NEW s \in Sessions, NEW t \in Tasks, Deliver(s, t)
    PROVE  TaskInv'
<1> USE HubAssumption, MsgEq, MsgTask, MsgType
<1>1. ASSUME OnDialRequest(s, t) PROVE TaskInv'
  BY <1>1 DEF OnDialRequest
<1>2. ASSUME OnConnect(s, t) PROVE TaskInv'
  BY <1>2 DEF OnConnect
<1>3. ASSUME OnConnectNoLog(s, t) PROVE TaskInv'
  <2>1. TypeOK'
    BY <1>3 DEF OnConnectNoLog, ReturnToMenu, Lock!Release
  <2>2. PlaceInv' /\ SiteInv'
    BY <1>3 DEF OnConnectNoLog, ReturnToMenu, Lock!Release
  <2>3. OfferInv' /\ SessionInv' /\ CleanupInv' /\ DoneInv'
    BY <1>3 DEF OnConnectNoLog, ReturnToMenu, Lock!Release
  <2> QED BY <2>1, <2>2, <2>3
<1>4. ASSUME OnDialFailed(s, t) PROVE TaskInv'
  BY <1>4 DEF OnDialFailed
<1>5. ASSUME OnDisconnect(s, t) PROVE TaskInv'
  BY <1>5 DEF OnDisconnect
<1>6. ASSUME OnCleanupDone(s, t) PROVE TaskInv'
  BY <1>6 DEF OnCleanupDone
<1>7. ASSUME OnTerminalDone(s, t) PROVE TaskInv'
  <2>1. TypeOK'
    BY <1>7 DEF OnTerminalDone, ReturnToMenu
  <2>2. PlaceInv' /\ SiteInv'
    BY <1>7 DEF OnTerminalDone, ReturnToMenu
  <2>3. OfferInv' /\ SessionInv' /\ CleanupInv' /\ DoneInv'
    BY <1>7 DEF OnTerminalDone, ReturnToMenu
  <2> QED BY <2>1, <2>2, <2>3
<1>8. ASSUME Ignore(s, t) PROVE TaskInv'
  BY <1>8 DEF Ignore, Handled
<1> HIDE DEF TaskInv
<1> QED BY <1>1, <1>2, <1>3, <1>4, <1>5, <1>6, <1>7, <1>8 DEF Deliver

\* TaskInv is kept by the goroutine of a dial.
LEMMA DialerSteps ==
    ASSUME TaskInv, NEW t \in Tasks, Dialer(t)
    PROVE  TaskInv'
<1> USE HubAssumption, MsgEq, MsgTask, MsgType
<1>1. ASSUME AcquireOk(t) PROVE TaskInv'
  <2>1. TypeOK'
    BY <1>1 DEF AcquireOk, Lock!Acquire
  <2>2. PlaceInv' /\ SiteInv'
    BY <1>1 DEF AcquireOk, Lock!Acquire
  <2>3. OfferInv' /\ SessionInv' /\ CleanupInv' /\ DoneInv'
    BY <1>1 DEF AcquireOk, Lock!Acquire
  <2> QED BY <2>1, <2>2, <2>3
<1>2. ASSUME AcquireFail(t) PROVE TaskInv'
  BY <1>2 DEF AcquireFail, Lock!Refuse, Return
<1>3. ASSUME OpenOk(t) PROVE TaskInv'
  BY <1>3 DEF OpenOk
<1>4. ASSUME OpenFail(t) PROVE TaskInv'
  BY <1>4 DEF OpenFail
<1>5. ASSUME DialConnect(t) PROVE TaskInv'
  <2>1. TypeOK'
    BY <1>5 DEF DialConnect, Return
  <2>2. PlaceInv' /\ SiteInv'
    BY <1>5 DEF DialConnect, Return
  <2>3. OfferInv'
    BY <1>5 DEF DialConnect, Return
  <2>4. SessionInv' /\ CleanupInv'
    BY <1>5 DEF DialConnect, Return
  <2>5. DoneInv'
    BY <1>5 DEF DialConnect, Return
  <2> QED BY <2>1, <2>2, <2>3, <2>4, <2>5
<1>6. ASSUME DialFail(t) PROVE TaskInv'
  BY <1>6 DEF DialFail
<1>7. ASSUME DialError(t) PROVE TaskInv'
  BY <1>7 DEF DialError
<1>8. ASSUME AbortClose(t) PROVE TaskInv'
  <2>1. TypeOK'
    BY <1>8 DEF AbortClose
  <2>2. PlaceInv' /\ SiteInv'
    BY <1>8 DEF AbortClose
  <2>3. OfferInv'
    BY <1>8 DEF AbortClose
  <2>4. SessionInv' /\ CleanupInv'
    BY <1>8 DEF AbortClose
  <2>5. DoneInv'
    BY <1>8 DEF AbortClose
  <2> QED BY <2>1, <2>2, <2>3, <2>4, <2>5
<1>9. ASSUME ReleaseError(t) PROVE TaskInv'
  <2>1. TypeOK'
    BY <1>9 DEF ReleaseError, Lock!Release, Return
  <2>2. PlaceInv' /\ SiteInv'
    BY <1>9 DEF ReleaseError, Lock!Release, Return
  <2>3. OfferInv' /\ SessionInv' /\ CleanupInv' /\ DoneInv'
    BY <1>9 DEF ReleaseError, Lock!Release, Return
  <2> QED BY <2>1, <2>2, <2>3
<1>10. ASSUME HangupClose(t) PROVE TaskInv'
  BY <1>10 DEF HangupClose
<1>11. ASSUME Retry(t) PROVE TaskInv'
  BY <1>11 DEF Retry, Retrying
<1>12. ASSUME BridgeGone(t) PROVE TaskInv'
  BY <1>12 DEF BridgeGone
<1>13. ASSUME ReleaseFailed(t) PROVE TaskInv'
  <2>1. TypeOK'
    BY <1>13 DEF ReleaseFailed, Lock!Release, Return
  <2>2. PlaceInv' /\ SiteInv'
    BY <1>13 DEF ReleaseFailed, Lock!Release, Return
  <2>3. OfferInv' /\ SessionInv' /\ CleanupInv' /\ DoneInv'
    BY <1>13 DEF ReleaseFailed, Lock!Release, Return
  <2> QED BY <2>1, <2>2, <2>3
<1> HIDE DEF TaskInv
<1> QED BY <1>1, <1>2, <1>3, <1>4, <1>5, <1>6, <1>7, <1>8, <1>9, <1>10, <1>11, <1>12, <1>13
        DEF Dialer

\* TaskInv is kept by the goroutine of a cleanup.
LEMMA CleanupSteps ==
    ASSUME TaskInv, NEW t \in Tasks, Cleanup(t)
    PROVE  TaskInv'
<1> USE HubAssumption, MsgEq, MsgTask, MsgType
<1>1. ASSUME CleanupStart(t) PROVE TaskInv'
  BY <1>1 DEF CleanupStart
<1>2. ASSUME CleanupHangup(t) PROVE TaskInv'
  BY <1>2 DEF CleanupHangup
<1>3. ASSUME CleanupClose(t) PROVE TaskInv'
  BY <1>3 DEF CleanupClose
<1>4. ASSUME CleanupRelease(t) PROVE TaskInv'
  <2>1. TypeOK'
    BY <1>4 DEF CleanupRelease, Lock!Release
  <2>2. PlaceInv' /\ SiteInv'
    BY <1>4 DEF CleanupRelease, Lock!Release
  <2>3. OfferInv' /\ SessionInv' /\ CleanupInv' /\ DoneInv'
    BY <1>4 DEF CleanupRelease, Lock!Release
  <2> QED BY <2>1, <2>2, <2>3
<1> HIDE DEF TaskInv
<1> QED BY <1>1, <1>2, <1>3, <1>4 DEF Cleanup

\* TaskInv is kept by the reader and the writers of a line.
LEMMA LineSteps ==
    ASSUME TaskInv, NEW t \in Tasks, Line(t)
    PROVE  TaskInv'
<1> USE HubAssumption, MsgEq, MsgTask, MsgType
<1>1. ASSUME ReadErr(t) PROVE TaskInv'
  BY <1>1 DEF ReadErr
<1>2. ASSUME WriteOk(t) PROVE TaskInv'
  BY <1>2 DEF WriteOk
<1>3. ASSUME WriteErr(t) PROVE TaskInv'
  BY <1>3 DEF WriteErr
<1> HIDE DEF TaskInv
<1> QED BY <1>1, <1>2, <1>3 DEF Line

HIDE DEF TaskInv, TypeOK, PlaceInv, SiteInv, OfferInv, SessionInv, CleanupInv,
         DoneInv, Pc, HoldingPc, OpenPc, CleanupPc, States, Kinds, sessionVars,
         taskVars, ioVars, lockVars, Goto, Handle, Sent, Running, Online

\* A stuttering step changes none of the invariant's variables.
LEMMA StutterStep == ASSUME TaskInv, UNCHANGED vars PROVE TaskInv'
<1> USE DEF vars, sessionVars, taskVars, ioVars, lockVars
<1>1. TypeOK' /\ PlaceInv' /\ SiteInv'
  BY DEF TaskInv, TypeOK, PlaceInv, SiteInv
<1>2. OfferInv' /\ SessionInv' /\ CleanupInv' /\ DoneInv'
  BY DEF TaskInv, OfferInv, SessionInv, CleanupInv, DoneInv
<1> QED BY <1>1, <1>2 DEF TaskInv

\* TaskInv is inductive: every step of the hub keeps it.
LEMMA NextStep == ASSUME TaskInv, [Next]_vars PROVE TaskInv'
BY KeySteps, MessageSteps, DialerSteps, CleanupSteps, LineSteps, StutterStep
   DEF Next, Terminating

\* TaskInv holds in every reachable state, whatever the sites are called.
THEOREM TaskInvariance == Safety => []TaskInv
BY InitTaskInv, NextStep, PTL DEF Safety

-----------------------------------------------------------------------------
(* The safety properties.                                                  *)

\* Every variable keeps its type.
THEOREM TypeCorrect == Safety => []TypeOK
<1>1. TaskInv => TypeOK
  BY DEF TaskInv
<1> QED BY <1>1, TaskInvariance, PTL

\* No dial opens the device, or leaves it open, without the lock.
THEOREM ModemOnlyUnderLockHolds ==
    Safety => []ModemOnlyUnderLock
<1>1. TaskInv => ModemOnlyUnderLock
  BY DEF TaskInv, PlaceInv, ModemOnlyUnderLock, OpenPc, HoldingPc
<1> QED BY <1>1, TaskInvariance, PTL

\* A dial whose goroutines are through has given the modem back.
THEOREM EndedTaskReleasedHolds ==
    Safety => []EndedTaskReleased
<1>1. TaskInv => EndedTaskReleased
  BY DEF TaskInv, PlaceInv, EndedTaskReleased, OpenPc, HoldingPc
<1> QED BY <1>1, TaskInvariance, PTL

\* A live terminal talks to an open modem that its own session has acquired.
THEOREM OnlineOwnsModemHolds ==
    Safety => []OnlineOwnsModem
<1>1. TaskInv => OnlineOwnsModem
  BY DEF TaskInv, PlaceInv, SessionInv, OnlineOwnsModem, Online, OpenPc, HoldingPc
<1> QED BY <1>1, TaskInvariance, PTL

-----------------------------------------------------------------------------
(* What a step may never do.                                               *)

\* Only a new connection and a return to the menu touch activeModem; the
\* first finds none, the second one that its cleanup has given back.
LEMMA ForgetStep ==
    ASSUME TaskInv, [Next]_vars, NEW s \in Sessions,
           activeModem[s] # NoModem, activeModem'[s] # activeModem[s]
    PROVE  activeModem[s] \notin holders' \cup modems'
<1> USE DEF sessionVars, taskVars, ioVars, lockVars
<1>1. ASSUME NEW r \in Sessions, NEW t \in Tasks, OnConnect(r, t)
      PROVE  FALSE
  BY <1>1 DEF OnConnect, TaskInv, TypeOK, SessionInv
<1>2. ASSUME NEW r \in Sessions, NEW t \in Tasks, OnConnectNoLog(r, t)
      PROVE  FALSE
  BY <1>2 DEF OnConnectNoLog, ReturnToMenu, TaskInv, TypeOK, SessionInv
<1>3. ASSUME NEW r \in Sessions, LeaveDialing(r)
      PROVE  FALSE
  BY <1>3 DEF LeaveDialing, ReturnToMenu, TaskInv, TypeOK, SessionInv
<1>4. ASSUME NEW r \in Sessions, NEW t \in Tasks, OnTerminalDone(r, t)
      PROVE  activeModem[s] \notin holders' \cup modems'
  <2>1. r = s /\ activeModem[s] = t /\ pc[t] = "done"
    BY <1>4, HubAssumption
       DEF OnTerminalDone, ReturnToMenu, TaskInv, TypeOK, DoneInv
  <2> QED BY <1>4, <2>1 DEF OnTerminalDone, TaskInv, PlaceInv, OpenPc, HoldingPc
<1>5. CASE UNCHANGED activeModem
  BY <1>5
<1>6. ASSUME NEW r \in Sessions, NEW t \in Tasks, Deliver(r, t)
      PROVE  activeModem[s] \notin holders' \cup modems'
  BY <1>1, <1>2, <1>4, <1>5, <1>6
     DEF Deliver, OnDialRequest, OnDialFailed, OnDisconnect, OnCleanupDone,
         Ignore
<1>7. ASSUME NEW r \in Sessions,
             Login(r) \/ PasswordChanged(r) \/ Quit(r) \/ Drop(r) \/ Key(r)
      PROVE  activeModem[s] \notin holders' \cup modems'
  BY <1>3, <1>5, <1>7
     DEF Login, PasswordChanged, Quit, Drop, Close, Key, SelectSite, QuitKey,
         EnterKey, HangUpKey
<1>8. ASSUME NEW t \in Tasks, Dialer(t) \/ Cleanup(t) \/ Line(t)
      PROVE  UNCHANGED activeModem
  BY <1>8
     DEF Dialer, AcquireOk, AcquireFail, OpenOk, OpenFail, DialConnect,
         DialFail, DialError, AbortClose, ReleaseError, HangupClose, Retry,
         BridgeGone, ReleaseFailed, Cleanup, CleanupStart, CleanupHangup,
         CleanupClose, CleanupRelease, Line, ReadErr, WriteOk, WriteErr
<1> QED BY <1>5, <1>6, <1>7, <1>8 DEF Next, Terminating, vars

\* A session that goes on forgets a modem only after its cleanup has closed
\* it and released the lock.
THEOREM ForgetsOnlyReleasedHolds ==
    Safety => ForgetsOnlyReleased
<1>1. TaskInv /\ [Next]_vars =>
         [\A s \in Sessions :
             (activeModem[s] # NoModem /\ activeModem'[s] # activeModem[s]) =>
                 activeModem[s] \notin holders' \cup modems']_vars
  BY ForgetStep
<1> QED BY <1>1, TaskInvariance, PTL DEF Safety, ForgetsOnlyReleased

-----------------------------------------------------------------------------
(* The lock, as long as every site that is dialled has a name.             *)

\* The site of a dial is chosen once, when it is asked for.
LEMMA SiteKept ==
    ASSUME TaskInv, [Next]_vars, NEW t \in Tasks, pc[t] # "fresh"
    PROVE  site'[t] = site[t]
<1> USE DEF taskVars
<1>1. ASSUME NEW s \in Sessions, Key(s) PROVE site'[t] = site[t]
  <2>1. CASE \E u \in Tasks, name \in Sites : SelectSite(s, u, name)
    BY <2>1 DEF SelectSite, TaskInv, TypeOK
  <2>2. CASE QuitKey(s) \/ LeaveDialing(s) \/ EnterKey(s) \/ HangUpKey(s)
    BY <2>2 DEF QuitKey, LeaveDialing, EnterKey, HangUpKey
  <2> QED BY <1>1, <2>1, <2>2 DEF Key
<1>2. ASSUME NEW s \in Sessions,
             Login(s) \/ PasswordChanged(s) \/ Quit(s) \/ Drop(s)
      PROVE  site' = site
  BY <1>2 DEF Login, PasswordChanged, Quit, Drop, Close
<1>3. ASSUME NEW s \in Sessions, NEW u \in Tasks, Deliver(s, u)
      PROVE  site' = site
  BY <1>3
     DEF Deliver, OnDialRequest, OnConnect, OnConnectNoLog, OnDialFailed,
         OnDisconnect, OnCleanupDone, OnTerminalDone, Ignore
<1>4. ASSUME NEW u \in Tasks, Dialer(u) \/ Cleanup(u) \/ Line(u)
      PROVE  site' = site
  BY <1>4
     DEF Dialer, AcquireOk, AcquireFail, OpenOk, OpenFail, DialConnect,
         DialFail, DialError, AbortClose, ReleaseError, HangupClose, Retry,
         BridgeGone, ReleaseFailed, Cleanup, CleanupStart, CleanupHangup,
         CleanupClose, CleanupRelease, Line, ReadErr, WriteOk, WriteErr
<1> QED BY <1>1, <1>2, <1>3, <1>4 DEF Next, Terminating, vars

\* A dial that was asked for stays so.
LEMMA AskedStays ==
    ASSUME TaskInv, [Next]_vars, NEW t \in Tasks, pc'[t] = "fresh"
    PROVE  pc[t] = "fresh"
<1> USE DEF TaskInv, TypeOK, SessionInv, OfferInv, Goto, Return, taskVars, Pc, HoldingPc
<1>1. ASSUME NEW s \in Sessions, Key(s) PROVE pc[t] = "fresh"
  BY <1>1 DEF Key, SelectSite, QuitKey, LeaveDialing, EnterKey, HangUpKey
<1>2. ASSUME NEW s \in Sessions,
             Login(s) \/ PasswordChanged(s) \/ Quit(s) \/ Drop(s)
      PROVE  pc[t] = "fresh"
  BY <1>2 DEF Login, PasswordChanged, Quit, Drop, Close
<1>3. ASSUME NEW s \in Sessions, NEW u \in Tasks, Deliver(s, u)
      PROVE  pc[t] = "fresh"
  BY <1>3
     DEF Deliver, OnDialRequest, OnConnect, OnConnectNoLog, OnDialFailed,
         OnDisconnect, OnCleanupDone, OnTerminalDone, Ignore
<1>4. ASSUME NEW u \in Tasks, Dialer(u) \/ Cleanup(u) \/ Line(u)
      PROVE  pc[t] = "fresh"
  BY <1>4
     DEF Dialer, AcquireOk, AcquireFail, OpenOk, OpenFail, DialConnect,
         DialFail, DialError, AbortClose, ReleaseError, HangupClose, Retry,
         BridgeGone, ReleaseFailed, Cleanup, CleanupStart, CleanupHangup,
         CleanupClose, CleanupRelease, Line, ReadErr, WriteOk, WriteErr
<1> QED BY <1>1, <1>2, <1>3, <1>4 DEF Next, Terminating, vars

\* No site that has been dialled so far has the empty name.
NamedSoFar == \A t \in Tasks : pc[t] # "fresh" => site[t] # NoSite

\* That no step can restore.
LEMMA NamedBefore ==
    ASSUME TaskInv, [Next]_vars, NamedSoFar' PROVE NamedSoFar
BY SiteKept, AskedStays DEF NamedSoFar

\* A step that leaves the lock alone.
LEMMA LockAlone ==
    ASSUME TaskInv, [Next]_vars, LockInv, UNCHANGED lockVars
    PROVE  LockInv'
<1>1. \A t \in holders : site'[t] = site[t]
  BY SiteKept DEF TaskInv, PlaceInv, HoldingPc
<1> QED BY <1>1 DEF lockVars, LockInv, Exclusion, LockTracksHolder, Lock!Exclusion,
                    Lock!IdleIffFree, Lock!IsAvailable

\* Acquire finds nobody holding, and stores a name.
LEMMA AcquireLock ==
    ASSUME TaskInv, LockInv, NamedSoFar, NEW t \in Tasks, AcquireOk(t)
    PROVE  LockInv'
<1>1. holders = {} /\ holders' = {t} /\ lockSite' = site[t] /\ site' = site
  BY DEF AcquireOk, Lock!Acquire, LockInv, LockTracksHolder, Lock!IdleIffFree
<1>2. site[t] # NoSite
  BY DEF AcquireOk, NamedSoFar
<1> QED BY <1>1, <1>2 DEF LockInv, Exclusion, LockTracksHolder, Lock!Exclusion,
                          Lock!IdleIffFree, Lock!IsAvailable

\* Release is a step of the one holder.
LEMMA ReleaseLock ==
    ASSUME TaskInv, LockInv, NEW t \in Tasks, pc[t] \in HoldingPc, Lock!Release(t)
    PROVE  LockInv'
<1>1. holders = {t}
  BY DEF TaskInv, PlaceInv, LockInv, Exclusion, Lock!Exclusion
<1>2. holders' = {} /\ lockSite' = NoSite
  BY <1>1 DEF Lock!Release
<1> QED BY <1>2 DEF LockInv, Exclusion, LockTracksHolder, Lock!Exclusion,
                    Lock!IdleIffFree, Lock!IsAvailable

\* Every step keeps the lock's promises, as long as the sites have names.
LEMMA LockStep ==
    ASSUME TaskInv, LockInv, NamedSoFar, [Next]_vars
    PROVE  LockInv'
<1>1. ASSUME NEW t \in Tasks, Dialer(t) PROVE LockInv'
  <2>1. CASE AcquireOk(t)
    BY <2>1, AcquireLock
  <2>2. CASE ReleaseError(t) \/ ReleaseFailed(t)
    BY <2>2, ReleaseLock DEF ReleaseError, ReleaseFailed, HoldingPc
  <2>3. CASE UNCHANGED lockVars
    BY <2>3, LockAlone
  <2> QED
    BY <1>1, <2>1, <2>2, <2>3
       DEF Dialer, AcquireFail, Lock!Refuse, OpenOk, OpenFail, DialConnect, DialFail,
           DialError, AbortClose, HangupClose, Retry, BridgeGone, lockVars
<1>2. ASSUME NEW t \in Tasks, Cleanup(t) \/ Line(t) PROVE LockInv'
  <2>1. CASE CleanupRelease(t)
    BY <2>1, ReleaseLock DEF CleanupRelease, HoldingPc
  <2>2. CASE UNCHANGED lockVars
    BY <2>2, LockAlone
  <2> QED BY <1>2, <2>1, <2>2
          DEF Cleanup, CleanupStart, CleanupHangup, CleanupClose, Line, ReadErr, WriteOk,
              WriteErr
<1>3. ASSUME NEW s \in Sessions, NEW t \in Tasks, Deliver(s, t) PROVE LockInv'
  <2>1. CASE OnConnectNoLog(s, t)
    BY <2>1, ReleaseLock DEF OnConnectNoLog, TaskInv, OfferInv, HoldingPc
  <2>2. CASE UNCHANGED lockVars
    BY <2>2, LockAlone
  <2> QED BY <1>3, <2>1, <2>2
          DEF Deliver, OnDialRequest, OnConnect, OnDialFailed, OnDisconnect,
              OnCleanupDone, OnTerminalDone, Ignore
<1>4. ASSUME NEW s \in Sessions,
             Login(s) \/ PasswordChanged(s) \/ Quit(s) \/ Drop(s) \/ Key(s)
      PROVE  LockInv'
  BY <1>4, LockAlone
     DEF Login, PasswordChanged, Quit, Drop, Close, Key, SelectSite, QuitKey,
         LeaveDialing, EnterKey, HangUpKey
<1>5. CASE UNCHANGED vars
  BY <1>5, LockAlone DEF vars
<1> QED BY <1>1, <1>2, <1>3, <1>4, <1>5 DEF Next, Terminating

\* In Init the lock is idle.
LEMMA InitLock == ASSUME Init PROVE LockInv
BY DEF Init, Lock!Init, LockInv, Exclusion, LockTracksHolder, Lock!Exclusion,
       Lock!IdleIffFree, Lock!IsAvailable

\* Until a site with the empty name is dialled, the lock serves one dial at a
\* time, is idle exactly when it is free, and names its holder's site.
THEOREM LockServesNamedSites == Safety => [](NamedSoFar => LockInv)
<1>1. Init => (NamedSoFar => LockInv)
  BY InitLock
<1>2. TaskInv /\ (NamedSoFar => LockInv) /\ [Next]_vars => (NamedSoFar => LockInv)'
  BY NamedBefore, LockStep
<1> QED BY <1>1, <1>2, TaskInvariance, PTL DEF Safety

\* No site has the empty name.
SitesNamed == NoSite \notin Sites

\* IInv holds in every reachable state.
THEOREM Invariance == ASSUME SitesNamed PROVE Safety => []IInv
<1>1. TaskInv /\ (NamedSoFar => LockInv) => IInv
  BY DEF SitesNamed, TaskInv, SiteInv, NamedSoFar, IInv
<1> QED BY <1>1, TaskInvariance, LockServesNamedSites, PTL

\* DeviceLock's promise: one dial has the modem at a time, although Release
\* checks nothing.
THEOREM ExclusionHolds == ASSUME SitesNamed PROVE Safety => []Exclusion
<1>1. IInv => Exclusion
  BY DEF IInv, LockInv
<1> QED BY <1>1, Invariance, PTL

\* The lock is idle exactly when no dial has the modem, and names its site
\* otherwise.
THEOREM LockTracksHolderHolds ==
    ASSUME SitesNamed PROVE Safety => []LockTracksHolder
<1>1. IInv => LockTracksHolder
  BY DEF IInv, LockInv
<1> QED BY <1>1, Invariance, PTL

-----------------------------------------------------------------------------
(* The hub implements ModemLease.                                          *)

\* Acquire finds nobody holding.
LEMMA GrantStep ==
    ASSUME IInv, NEW t \in Tasks, AcquireOk(t)
    PROVE  Lease!Grant(t)
<1>1. holders = {} /\ holders' = {t}
  BY DEF AcquireOk, Lock!Acquire, IInv, LockInv, LockTracksHolder,
         Lock!IdleIffFree
<1>2. pc[t] = "acquire" /\ pc' = [pc EXCEPT ![t] = "opening"]
  BY DEF AcquireOk, Goto
<1> QED BY <1>1, <1>2 DEF Lease!Grant, IInv, TaskInv, TypeOK

\* A step that releases is a step of the one holder.
LEMMA ReturnStep ==
    ASSUME IInv, NEW t \in Tasks, pc[t] \in HoldingPc,
           Lock!Release(t), Goto(t, "done")
    PROVE  Lease!Return(t)
<1>1. holders = {t}
  BY DEF IInv, TaskInv, PlaceInv, LockInv, Exclusion, Lock!Exclusion
<1>2. holders' = {}
  BY <1>1 DEF Lock!Release
<1>3. pc' = [pc EXCEPT ![t] = "done"]
  BY DEF Goto
<1> QED BY <1>1, <1>2, <1>3 DEF Lease!Return, IInv, TaskInv, TypeOK

\* A step that leaves the lock alone and only lets tasks end that did not
\* have the modem.
LEMMA QuietStep ==
    ASSUME IInv, UNCHANGED holders,
           \A t \in Tasks : /\ pc[t] = "done" => pc'[t] = "done"
                            /\ pc'[t] = "done" => pc[t] \notin HoldingPc
    PROVE  Lease!Next
<1> PICK gone \in SUBSET Tasks : gone = {t \in Tasks : pc'[t] = "done"}
  OBVIOUS
<1>1. gone \cap holders = {}
  BY DEF IInv, TaskInv, PlaceInv
<1>2. {t \in Tasks : pc'[t] = "done"} = {t \in Tasks : pc[t] = "done"} \cup gone
  OBVIOUS
<1>3. Lease!GiveUp(gone)
  BY <1>1, <1>2 DEF Lease!GiveUp
<1> QED BY <1>3 DEF Lease!Next

\* Every step of the hub is a step of the lease, or leaves it alone.
LEMMA LeaseStep == ASSUME IInv, [Next]_vars PROVE [Lease!Next]_(Lease!vars)
<1> USE DEF sessionVars, taskVars, ioVars, lockVars, HoldingPc
<1>1. ASSUME NEW t \in Tasks, Dialer(t) PROVE Lease!Next
  <2>1. CASE AcquireOk(t)
    BY <2>1, GrantStep DEF Lease!Next
  <2>2. CASE ReleaseError(t) \/ ReleaseFailed(t)
    BY <2>2, ReturnStep DEF ReleaseError, ReleaseFailed, Return, Goto, Lease!Next
  <2>3. CASE AcquireFail(t)
    BY <2>3, QuietStep DEF AcquireFail, Lock!Refuse, Return, Goto, IInv, TaskInv, TypeOK
  <2>4. CASE \/ OpenOk(t) \/ OpenFail(t) \/ DialConnect(t) \/ DialFail(t)
             \/ DialError(t) \/ AbortClose(t) \/ HangupClose(t) \/ Retry(t)
             \/ BridgeGone(t)
    BY <2>4, QuietStep
       DEF OpenOk, OpenFail, DialConnect, DialFail, DialError, AbortClose,
           HangupClose, Retry, BridgeGone, Return, Goto, IInv, TaskInv, TypeOK
  <2> QED BY <1>1, <2>1, <2>2, <2>3, <2>4 DEF Dialer
<1>2. ASSUME NEW t \in Tasks, Cleanup(t) PROVE Lease!Next
  <2>1. CASE CleanupRelease(t)
    BY <2>1, ReturnStep DEF CleanupRelease, Lease!Next
  <2>2. CASE CleanupStart(t) \/ CleanupHangup(t) \/ CleanupClose(t)
    BY <2>2, QuietStep
       DEF CleanupStart, CleanupHangup, CleanupClose, Goto, IInv, TaskInv, TypeOK
  <2> QED BY <1>2, <2>1, <2>2 DEF Cleanup
<1>3. ASSUME NEW t \in Tasks, Line(t) PROVE Lease!Next
  BY <1>3, QuietStep DEF Line, ReadErr, WriteOk, WriteErr
<1>4. ASSUME NEW s \in Sessions, NEW t \in Tasks, Deliver(s, t)
      PROVE  Lease!Next
  <2>1. CASE OnConnectNoLog(s, t)
    BY <2>1, ReturnStep DEF OnConnectNoLog, IInv, TaskInv, OfferInv, Lease!Next
  <2>2. CASE OnConnect(s, t)
    BY <2>2, QuietStep DEF OnConnect, Goto, IInv, TaskInv, TypeOK, OfferInv
  <2>3. CASE OnDialRequest(s, t)
    BY <2>3, QuietStep DEF OnDialRequest, Goto, IInv, TaskInv, TypeOK, OfferInv
  <2>4. CASE OnDisconnect(s, t)
    BY <2>4, QuietStep DEF OnDisconnect, Online, Goto, IInv, TaskInv, TypeOK, SessionInv
  <2>5. CASE Ignore(s, t)
    BY <2>5, QuietStep DEF Ignore, IInv, TaskInv, TypeOK, OfferInv
  <2>6. CASE OnDialFailed(s, t) \/ OnCleanupDone(s, t) \/ OnTerminalDone(s, t)
    BY <2>6, QuietStep DEF OnDialFailed, OnCleanupDone, OnTerminalDone
  <2> QED BY <1>4, <2>1, <2>2, <2>3, <2>4, <2>5, <2>6 DEF Deliver
<1>5. ASSUME NEW s \in Sessions, Key(s) PROVE Lease!Next
  <2>1. CASE HangUpKey(s)
    BY <2>1, QuietStep DEF HangUpKey, Online, Goto, IInv, TaskInv, TypeOK, SessionInv
  <2>2. CASE \E t \in Tasks, name \in Sites : SelectSite(s, t, name)
    BY <2>2, QuietStep DEF SelectSite, Goto, IInv, TaskInv, TypeOK
  <2>3. CASE QuitKey(s) \/ LeaveDialing(s) \/ EnterKey(s)
    BY <2>3, QuietStep DEF QuitKey, LeaveDialing, EnterKey
  <2> QED BY <1>5, <2>1, <2>2, <2>3 DEF Key
<1>6. ASSUME NEW s \in Sessions, Login(s) \/ PasswordChanged(s)
      PROVE  Lease!Next
  BY <1>6, QuietStep DEF Login, PasswordChanged
<1>7. ASSUME NEW s \in Sessions, Quit(s) \/ Drop(s) PROVE Lease!Next
  BY <1>7, QuietStep DEF Quit, Drop, Close, IInv, TaskInv, TypeOK
<1>8. CASE UNCHANGED vars
  BY <1>8 DEF vars, Lease!vars
<1> QED BY <1>1, <1>2, <1>3, <1>4, <1>5, <1>6, <1>7, <1>8
        DEF Next, Terminating

\* The hub, for any sessions, dials and interleaving, behaves like a lease of
\* one modem.
THEOREM LeaseImplemented == ASSUME SitesNamed PROVE Safety => ImplementsLease
<1>1. Init => Lease!Init
  BY DEF Init, Lock!Init, Lease!Init
<1> QED BY <1>1, LeaseStep, Invariance, PTL DEF Safety, ImplementsLease, Lease!Spec

-----------------------------------------------------------------------------
(* The lock changes hands through idle only.                               *)

\* A step of the lease that finds a holder and leaves one leaves the same;
\* the lock names its site before and after.
LEMMA HandoverStep ==
    ASSUME IInv, IInv', [Next]_vars, holders # {}, holders' # {}
    PROVE  holders' = holders /\ lockSite' = lockSite
<1>1. holders' = holders
  BY LeaseStep DEF Lease!Next, Lease!Grant, Lease!Return, Lease!GiveUp, Lease!vars
<1>2. PICK t \in holders : TRUE
  OBVIOUS
<1>3. t \in Tasks /\ pc[t] # "fresh"
  BY <1>2 DEF IInv, TaskInv, PlaceInv, HoldingPc
<1>4. lockSite = site[t]
  BY <1>2 DEF IInv, LockInv, LockTracksHolder
<1>5. lockSite' = site'[t]
  BY <1>1, <1>2 DEF IInv, LockInv, LockTracksHolder
<1> QED BY <1>1, <1>3, <1>4, <1>5, SiteKept DEF IInv

\* No step takes the device from one dial and gives it to another.
THEOREM NoHandoverHolds == ASSUME SitesNamed PROVE Safety => NoHandover
<1>1. IInv /\ IInv' /\ [Next]_vars =>
         [holders # {} /\ holders' # {} =>
             holders' = holders /\ lockSite' = lockSite]_vars
  BY HandoverStep
<1> QED BY <1>1, Invariance, PTL DEF Safety, NoHandover

-----------------------------------------------------------------------------
(* Each dial implements DialTask.                                          *)

\* The points of the loop over the attempts.
LoopPc == {"opening", "bridge", "dialing", "abort", "failing", "hangup", "hungUp"}

\* Outside of its loop a dial is at no attempt.
AttemptInv == \A t \in Tasks : pc[t] \notin LoopPc => attempt[t] = 0

\* One dial's view of a step: it stays where DialTask sees it, or does what
\* DialTask allows.
TaskStep(t) == [Task(t)!Next]_(Task(t)!vars)

\* A step that is none of the dial's own.
LEMMA OtherStep ==
    ASSUME NEW t \in Tasks, pc'[t] = pc[t], attempt'[t] = attempt[t], result'[t] = result[t]
    PROVE  TaskStep(t)
BY DEF TaskStep, Task!vars, Place

\* A step between points that DialTask does not tell apart.
LEMMA SamePlace ==
    ASSUME NEW t \in Tasks, attempt'[t] = attempt[t],
           \/ {pc[t], pc'[t]} \subseteq {"fresh", "requested", "acquire", "done"}
           \/ {pc[t], pc'[t]} \subseteq {"offered", "online", "cleanup", "hangingUp",
                                       "closing", "releasing"}
    PROVE  TaskStep(t)
BY DEF TaskStep, Task!vars, Place

\* What the sessions do moves a dial only between such points, or ends it.
LEMMA SessionTaskStep ==
    ASSUME TaskInv, AttemptInv, NEW t \in Tasks, NEW s \in Sessions,
           \/ Login(s) \/ PasswordChanged(s) \/ Quit(s) \/ Drop(s) \/ Key(s)
           \/ \E u \in Tasks : Deliver(s, u)
    PROVE  TaskStep(t)
<1> USE DEF sessionVars, taskVars, ioVars, lockVars, Goto, TypeOK
<1>0. TypeOK /\ SessionInv /\ OfferInv /\ DoneInv
  BY DEF TaskInv
<1>1. CASE UNCHANGED taskVars
  BY <1>1, OtherStep
<1>2. ASSUME Close(s) PROVE TaskStep(t)
  <2>1. UNCHANGED <<attempt, result>>
    BY <1>2 DEF Close
  <2>2. \/ pc'[t] = pc[t]
        \/ pc[t] \in {"requested", "acquire"} /\ pc'[t] = "done"
        \/ pc[t] = "cleanup" /\ pc'[t] = "online"
    BY <1>0, <1>2 DEF Close
  <2> QED BY <2>1, <2>2, OtherStep, SamePlace
<1>3. ASSUME NEW u \in Tasks, NEW name \in Sites, SelectSite(s, u, name) PROVE TaskStep(t)
  <2>1. pc[u] = "fresh" /\ pc' = [pc EXCEPT ![u] = "requested"] /\ UNCHANGED <<attempt, result>>
    BY <1>3 DEF SelectSite
  <2> QED BY <1>0, <2>1, OtherStep, SamePlace
<1>4. ASSUME HangUpKey(s) \/ \E u \in Tasks : OnDisconnect(s, u) PROVE TaskStep(t)
  <2>1. /\ Online(s)
        /\ pc' = [pc EXCEPT ![activeModem[s]] = "cleanup"]
        /\ UNCHANGED <<attempt, result>>
    BY <1>4 DEF HangUpKey, OnDisconnect
  <2>2. pc[activeModem[s]] = "online"
    BY <1>0, <2>1 DEF SessionInv, Online
  <2> QED BY <1>0, <2>1, <2>2, OtherStep, SamePlace
<1>5. ASSUME NEW u \in Tasks, OnDialRequest(s, u) PROVE TaskStep(t)
  <2>1. pc[u] = "requested" /\ pc' = [pc EXCEPT ![u] = "acquire"] /\ UNCHANGED <<attempt, result>>
    BY <1>0, <1>5 DEF OnDialRequest, OfferInv
  <2> QED BY <1>0, <2>1, OtherStep, SamePlace
<1>6. ASSUME NEW u \in Tasks, OnConnect(s, u) PROVE TaskStep(t)
  <2>1. pc[u] = "offered" /\ pc' = [pc EXCEPT ![u] = "online"] /\ UNCHANGED <<attempt, result>>
    BY <1>0, <1>6 DEF OnConnect, OfferInv
  <2> QED BY <1>0, <2>1, OtherStep, SamePlace
<1>7. ASSUME NEW u \in Tasks, OnConnectNoLog(s, u) PROVE TaskStep(t)
  <2>1. pc[u] = "offered" /\ pc' = [pc EXCEPT ![u] = "done"] /\ UNCHANGED <<attempt, result>>
    BY <1>0, <1>7 DEF OnConnectNoLog, OfferInv
  <2>2. CASE u = t
    <3>1. attempt[t] = 0 /\ attempt'[t] = 0 /\ pc[t] = "offered" /\ pc'[t] = "done"
      BY <1>0, <2>1, <2>2 DEF AttemptInv, LoopPc
    <3> QED BY <3>1 DEF TaskStep, Task!Next, Task!End, Place
  <2> QED BY <1>0, <2>1, <2>2, OtherStep
<1>8. ASSUME NEW u \in Tasks, Ignore(s, u) PROVE TaskStep(t)
  <2>1. UNCHANGED <<attempt, result>>
    BY <1>8 DEF Ignore
  <2>2. pc' = pc \/ (pc[u] = "requested" /\ pc' = [pc EXCEPT ![u] = "done"])
    BY <1>0, <1>8 DEF Ignore, OfferInv
  <2> QED BY <1>0, <2>1, <2>2, OtherStep, SamePlace
<1> QED
  BY <1>1, <1>2, <1>3, <1>4, <1>5, <1>6, <1>7, <1>8
  DEF Login, PasswordChanged, Quit, Drop, Key, QuitKey, LeaveDialing, EnterKey, Deliver,
      OnDialFailed, OnCleanupDone, OnTerminalDone

\* A dial's goroutine does what DialTask allows.
LEMMA DialerTaskStep ==
    ASSUME TypeOK, AttemptInv, NEW t \in Tasks, NEW u \in Tasks, Dialer(u)
    PROVE  TaskStep(t)
<1> USE DEF Goto, Return, TypeOK
<1>1. CASE u # t
  <2>1. pc'[t] = pc[t] /\ attempt'[t] = attempt[t] /\ result'[t] = result[t]
    BY <1>1 DEF Dialer, AcquireOk, AcquireFail, OpenOk, OpenFail, DialConnect, DialFail,
       DialError, AbortClose, ReleaseError, HangupClose, Retry, BridgeGone, ReleaseFailed
  <2> QED BY <2>1, OtherStep
<1>2. CASE u = t
  <2> USE <1>2 DEF TaskStep, Task!Next, Task!vars, Task!Goes, Place
  <2>1. CASE AcquireOk(t)
    BY <2>1 DEF AcquireOk, Task!Start
  <2>2. CASE AcquireFail(t)
    BY <2>2 DEF AcquireFail, AttemptInv, LoopPc
  <2>3. CASE OpenOk(t) \/ OpenFail(t) \/ DialError(t) \/ AbortClose(t) \/ HangupClose(t)
    BY <2>3 DEF OpenOk, OpenFail, DialError, AbortClose, HangupClose
  <2>4. CASE DialConnect(t)
    BY <2>4 DEF DialConnect, Task!Connect
  <2>5. CASE DialFail(t)
    BY <2>5 DEF DialFail
  <2>6. CASE ReleaseError(t) \/ ReleaseFailed(t)
    BY <2>6 DEF ReleaseError, ReleaseFailed, Task!End
  <2>7. CASE Retry(t)
    BY <2>7 DEF Retry, Retrying, Task!Retry
  <2>8. CASE BridgeGone(t)
    BY <2>8 DEF BridgeGone
  <2> QED BY <2>1, <2>2, <2>3, <2>4, <2>5, <2>6, <2>7, <2>8 DEF Dialer
<1> QED BY <1>1, <1>2

\* A cleanup ends its dial, and a reader or writer leaves all of them alone.
LEMMA CleanupTaskStep ==
    ASSUME TypeOK, AttemptInv, NEW t \in Tasks, NEW u \in Tasks, Cleanup(u) \/ Line(u)
    PROVE  TaskStep(t)
<1> USE DEF Goto, TypeOK
<1>1. UNCHANGED <<attempt, result>>
  BY DEF Cleanup, CleanupStart, CleanupHangup, CleanupClose, CleanupRelease, Line, ReadErr,
     WriteOk, WriteErr, taskVars
<1>2. CASE Line(u) \/ u # t
  <2>1. pc'[t] = pc[t]
    BY <1>2 DEF Cleanup, CleanupStart, CleanupHangup, CleanupClose, CleanupRelease, Line,
       ReadErr, WriteOk, WriteErr, taskVars
  <2> QED BY <1>1, <2>1, OtherStep
<1>3. CASE u = t /\ (CleanupStart(t) \/ CleanupHangup(t) \/ CleanupClose(t))
  BY <1>1, <1>3, SamePlace DEF CleanupStart, CleanupHangup, CleanupClose
<1>4. CASE u = t /\ CleanupRelease(t)
  <2>1. pc[t] = "releasing" /\ pc'[t] = "done" /\ attempt[t] = 0 /\ attempt'[t] = 0
    BY <1>1, <1>4 DEF CleanupRelease, AttemptInv, LoopPc
  <2> QED BY <2>1 DEF TaskStep, Task!Next, Task!End, Place
<1> QED BY <1>2, <1>3, <1>4 DEF Cleanup

\* What DialTask allows keeps AttemptInv: it leaves the loop with attempt 0.
LEMMA AttemptStep ==
    ASSUME TaskInv, AttemptInv, [Next]_vars
    PROVE  (\A t \in Tasks : TaskStep(t)) /\ AttemptInv'
<1>1. ASSUME NEW t \in Tasks PROVE TaskStep(t)
  <2>1. CASE UNCHANGED vars
    BY <2>1, OtherStep DEF vars, taskVars
  <2> QED BY <2>1, SessionTaskStep, DialerTaskStep, CleanupTaskStep DEF Next, Terminating, TaskInv
<1>2. ASSUME NEW t \in Tasks, pc'[t] \notin LoopPc PROVE attempt'[t] = 0
  <2>1. TaskStep(t)
    BY <1>1
  <2>2. Place(t)' \in {"idle", "connected"}
    BY <1>2 DEF Place, LoopPc
  <2>3. CASE UNCHANGED <<Place(t), attempt[t]>>
    <3>1. pc[t] \notin LoopPc
      BY <2>2, <2>3 DEF Place, LoopPc
    <3> QED BY <2>3, <3>1 DEF AttemptInv
  <2>4. CASE Task(t)!Next
    BY <2>2, <2>4 DEF Task!Next, Task!Start, Task!Connect, Task!Retry, Task!End, Task!Goes
  <2> QED BY <2>1, <2>3, <2>4 DEF TaskStep, Task!vars
<1> QED BY <1>1, <1>2 DEF AttemptInv

\* Every dial of the hub, in any number of sessions, cancelled or not, is the
\* dial of DialTask.
THEOREM DialTaskImplemented == Safety => ImplementsDialTask
<1>1. Init => AttemptInv /\ \A t \in Tasks : Task(t)!Init
  BY DEF Init, AttemptInv, Task!Init, Place
<1>2. TaskInv /\ AttemptInv /\ [Next]_vars => AttemptInv' /\ \A t \in Tasks : TaskStep(t)
  BY AttemptStep
<1>3. (\A t \in Tasks : TaskStep(t)) => [\A t \in Tasks : TaskStep(t)]_vars
  OBVIOUS
<1> QED BY <1>1, <1>2, <1>3, TaskInvariance, PTL DEF Safety, ImplementsDialTask, TaskStep
-----------------------------------------------------------------------------
(* A session whose user lets every dial come to its end.                   *)

\* The dials whose result the session still waits for.
Underway(t) ==
    \/ pc[t] \in LoopPc \cup {"acquire", "offered"}
    \/ \E kind \in {"failed", "error"} : Msg(kind, t) \in msgs

\* A dial reports its failure once, when it is over.
ReportInv ==
    \A t \in Tasks :
        /\ \A kind \in {"failed", "error"} : Msg(kind, t) \in msgs => pc[t] = "done"
        /\ ~(Msg("failed", t) \in msgs /\ Msg("error", t) \in msgs)

\* A session that is never cancelled shows the one dial under way, so that no
\* offer is lost and the terminal opens under the site of that dial.
ScreenOk(s) ==
    \A t \in Tasks : Owner[t] = s =>
        /\ Underway(t) =>
              /\ state[s] = "dialing" /\ ~dialDone[s]
              /\ activeSite[s] = site[t]
              /\ \A u \in Tasks : Owner[u] = s /\ Underway(u) => u = t
        /\ pc[t] = "offered" => Msg("connect", t) \in msgs
        /\ pc[t] = "online" => Online(s) /\ activeModem[s] = t
        /\ Online(s) /\ activeModem[s] = t => activeSite[s] = site[t]

ScreenInv == \A s \in Sessions \ MayCancel : state[s] # "closed" => ScreenOk(s)

USE DEF TaskInv, TypeOK, OfferInv, SessionInv, CleanupInv, DoneInv, Pc, HoldingPc, CleanupPc,
        States, Kinds, sessionVars, taskVars, ioVars, lockVars, Goto, Handle,
        Sent, Running, Online, LoopPc, Underway, ReportInv, ScreenOk

\* ReportInv is kept by the user's keys, the login and the end of the program.
LEMMA ReportKeySteps ==
    ASSUME TaskInv, ReportInv,
           NEW s \in Sessions, Login(s) \/ PasswordChanged(s) \/ Quit(s) \/ Drop(s) \/ Key(s)
    PROVE  ReportInv'
<1> USE HubAssumption, MsgEq, MsgTask, MsgType
<1>1. ASSUME Login(s) PROVE ReportInv'
  BY <1>1 DEF Login
<1>2. ASSUME PasswordChanged(s) PROVE ReportInv'
  BY <1>2 DEF PasswordChanged
<1>3. ASSUME Close(s) PROVE ReportInv'
  BY <1>3 DEF Close
<1>4. ASSUME NEW t \in Tasks, NEW name \in Sites, SelectSite(s, t, name) PROVE ReportInv'
  BY <1>4 DEF SelectSite
<1>5. ASSUME QuitKey(s) PROVE ReportInv'
  BY <1>5 DEF QuitKey
<1>6. ASSUME LeaveDialing(s) PROVE ReportInv'
  BY <1>6 DEF LeaveDialing, ReturnToMenu
<1>7. ASSUME EnterKey(s) PROVE ReportInv'
  BY <1>7 DEF EnterKey
<1>8. ASSUME HangUpKey(s) PROVE ReportInv'
  BY <1>8 DEF HangUpKey
<1> QED BY <1>1, <1>2, <1>3, <1>4, <1>5, <1>6, <1>7, <1>8
        DEF Key, Quit, Drop

\* ReportInv is kept by the messages the event loop handles.
LEMMA ReportMessageSteps ==
    ASSUME TaskInv, ReportInv,
           NEW s \in Sessions, NEW t \in Tasks, Deliver(s, t)
    PROVE  ReportInv'
<1> USE HubAssumption, MsgEq, MsgTask, MsgType
<1>1. ASSUME OnDialRequest(s, t) PROVE ReportInv'
  BY <1>1 DEF OnDialRequest
<1>2. ASSUME OnConnect(s, t) PROVE ReportInv'
  BY <1>2 DEF OnConnect
<1>3. ASSUME OnConnectNoLog(s, t) PROVE ReportInv'
  BY <1>3 DEF OnConnectNoLog, ReturnToMenu
<1>4. ASSUME OnDialFailed(s, t) PROVE ReportInv'
  BY <1>4 DEF OnDialFailed
<1>5. ASSUME OnDisconnect(s, t) PROVE ReportInv'
  BY <1>5 DEF OnDisconnect
<1>6. ASSUME OnCleanupDone(s, t) PROVE ReportInv'
  BY <1>6 DEF OnCleanupDone
<1>7. ASSUME OnTerminalDone(s, t) PROVE ReportInv'
  BY <1>7 DEF OnTerminalDone, ReturnToMenu
<1>8. ASSUME Ignore(s, t) PROVE ReportInv'
  BY <1>8 DEF Ignore, Handled
<1> QED BY <1>1, <1>2, <1>3, <1>4, <1>5, <1>6, <1>7, <1>8
        DEF Deliver

\* ReportInv is kept by the goroutine of a dial.
LEMMA ReportDialerSteps ==
    ASSUME TaskInv, ReportInv,
           NEW t \in Tasks, Dialer(t)
    PROVE  ReportInv'
<1> USE HubAssumption, MsgEq, MsgTask, MsgType
<1>1. ASSUME AcquireOk(t) PROVE ReportInv'
  BY <1>1 DEF AcquireOk
<1>2. ASSUME AcquireFail(t) PROVE ReportInv'
  BY <1>2 DEF AcquireFail, Return
<1>3. ASSUME OpenOk(t) PROVE ReportInv'
  BY <1>3 DEF OpenOk
<1>4. ASSUME OpenFail(t) PROVE ReportInv'
  BY <1>4 DEF OpenFail
<1>5. ASSUME DialConnect(t) PROVE ReportInv'
  BY <1>5 DEF DialConnect, Return
<1>6. ASSUME DialFail(t) PROVE ReportInv'
  BY <1>6 DEF DialFail
<1>7. ASSUME DialError(t) PROVE ReportInv'
  BY <1>7 DEF DialError
<1>8. ASSUME AbortClose(t) PROVE ReportInv'
  BY <1>8 DEF AbortClose
<1>9. ASSUME ReleaseError(t) PROVE ReportInv'
  BY <1>9 DEF ReleaseError, Return
<1>10. ASSUME HangupClose(t) PROVE ReportInv'
  BY <1>10 DEF HangupClose
<1>11. ASSUME Retry(t) PROVE ReportInv'
  BY <1>11 DEF Retry, Retrying
<1>12. ASSUME BridgeGone(t) PROVE ReportInv'
  BY <1>12 DEF BridgeGone
<1>13. ASSUME ReleaseFailed(t) PROVE ReportInv'
  BY <1>13 DEF ReleaseFailed, Return
<1> QED BY <1>1, <1>2, <1>3, <1>4, <1>5, <1>6, <1>7, <1>8, <1>9, <1>10, <1>11, <1>12, <1>13
        DEF Dialer

\* ReportInv is kept by the goroutine of a cleanup.
LEMMA ReportCleanupSteps ==
    ASSUME TaskInv, ReportInv,
           NEW t \in Tasks, Cleanup(t)
    PROVE  ReportInv'
<1> USE HubAssumption, MsgEq, MsgTask, MsgType
<1>1. ASSUME CleanupStart(t) PROVE ReportInv'
  BY <1>1 DEF CleanupStart
<1>2. ASSUME CleanupHangup(t) PROVE ReportInv'
  BY <1>2 DEF CleanupHangup
<1>3. ASSUME CleanupClose(t) PROVE ReportInv'
  BY <1>3 DEF CleanupClose
<1>4. ASSUME CleanupRelease(t) PROVE ReportInv'
  BY <1>4 DEF CleanupRelease
<1> QED BY <1>1, <1>2, <1>3, <1>4
        DEF Cleanup

\* ReportInv is kept by the reader and the writers of a line.
LEMMA ReportLineSteps ==
    ASSUME TaskInv, ReportInv,
           NEW t \in Tasks, Line(t)
    PROVE  ReportInv'
<1> USE HubAssumption, MsgEq, MsgTask, MsgType
<1>1. ASSUME ReadErr(t) PROVE ReportInv'
  BY <1>1 DEF ReadErr
<1>2. ASSUME WriteOk(t) PROVE ReportInv'
  BY <1>2 DEF WriteOk
<1>3. ASSUME WriteErr(t) PROVE ReportInv'
  BY <1>3 DEF WriteErr
<1> QED BY <1>1, <1>2, <1>3
        DEF Line

\* What a session shows is kept right by the user's keys, the login and the end of the program.
LEMMA ScreenKeySteps ==
    ASSUME TaskInv, ReportInv, NEW z \in Sessions \ MayCancel,
           state[z] # "closed" => ScreenOk(z), state'[z] # "closed",
           NEW s \in Sessions, Login(s) \/ PasswordChanged(s) \/ Quit(s) \/ Drop(s) \/ Key(s)
    PROVE  ScreenOk(z)'
<1> USE HubAssumption, MsgEq, MsgTask, MsgType
<1>1. ASSUME Login(s) PROVE ScreenOk(z)'
  BY <1>1 DEF Login
<1>2. ASSUME PasswordChanged(s) PROVE ScreenOk(z)'
  BY <1>2 DEF PasswordChanged
<1>3. ASSUME Close(s) PROVE ScreenOk(z)'
  BY <1>3 DEF Close
<1>4. ASSUME NEW t \in Tasks, NEW name \in Sites, SelectSite(s, t, name) PROVE ScreenOk(z)'
  BY <1>4 DEF SelectSite
<1>5. ASSUME QuitKey(s) PROVE ScreenOk(z)'
  BY <1>5 DEF QuitKey
<1>6. ASSUME LeaveDialing(s) PROVE ScreenOk(z)'
  BY <1>6 DEF LeaveDialing, ReturnToMenu
<1>7. ASSUME EnterKey(s) PROVE ScreenOk(z)'
  BY <1>7 DEF EnterKey
<1>8. ASSUME HangUpKey(s) PROVE ScreenOk(z)'
  BY <1>8 DEF HangUpKey
<1> QED BY <1>1, <1>2, <1>3, <1>4, <1>5, <1>6, <1>7, <1>8
        DEF Key, Quit, Drop

\* What a session shows is kept right by the messages the event loop handles.
LEMMA ScreenMessageSteps ==
    ASSUME TaskInv, ReportInv, NEW z \in Sessions \ MayCancel,
           state[z] # "closed" => ScreenOk(z), state'[z] # "closed",
           NEW s \in Sessions, NEW t \in Tasks, Deliver(s, t)
    PROVE  ScreenOk(z)'
<1> USE HubAssumption, MsgEq, MsgTask, MsgType
<1>1. ASSUME OnDialRequest(s, t) PROVE ScreenOk(z)'
  BY <1>1 DEF OnDialRequest
<1>2. ASSUME OnConnect(s, t) PROVE ScreenOk(z)'
  BY <1>2 DEF OnConnect
<1>3. ASSUME OnConnectNoLog(s, t) PROVE ScreenOk(z)'
  BY <1>3 DEF OnConnectNoLog, ReturnToMenu
<1>4. ASSUME OnDialFailed(s, t) PROVE ScreenOk(z)'
  BY <1>4 DEF OnDialFailed
<1>5. ASSUME OnDisconnect(s, t) PROVE ScreenOk(z)'
  BY <1>5 DEF OnDisconnect
<1>6. ASSUME OnCleanupDone(s, t) PROVE ScreenOk(z)'
  BY <1>6 DEF OnCleanupDone
<1>7. ASSUME OnTerminalDone(s, t) PROVE ScreenOk(z)'
  BY <1>7 DEF OnTerminalDone, ReturnToMenu
<1>8. ASSUME Ignore(s, t) PROVE ScreenOk(z)'
  BY <1>8 DEF Ignore, Handled
<1> QED BY <1>1, <1>2, <1>3, <1>4, <1>5, <1>6, <1>7, <1>8
        DEF Deliver

\* What a session shows is kept right by the goroutine of a dial.
LEMMA ScreenDialerSteps ==
    ASSUME TaskInv, ReportInv, NEW z \in Sessions \ MayCancel,
           state[z] # "closed" => ScreenOk(z), state'[z] # "closed",
           NEW t \in Tasks, Dialer(t)
    PROVE  ScreenOk(z)'
<1> USE HubAssumption, MsgEq, MsgTask, MsgType
<1>1. ASSUME AcquireOk(t) PROVE ScreenOk(z)'
  BY <1>1 DEF AcquireOk
<1>2. ASSUME AcquireFail(t) PROVE ScreenOk(z)'
  BY <1>2 DEF AcquireFail, Return
<1>3. ASSUME OpenOk(t) PROVE ScreenOk(z)'
  BY <1>3 DEF OpenOk
<1>4. ASSUME OpenFail(t) PROVE ScreenOk(z)'
  BY <1>4 DEF OpenFail
<1>5. ASSUME DialConnect(t) PROVE ScreenOk(z)'
  BY <1>5 DEF DialConnect, Return
<1>6. ASSUME DialFail(t) PROVE ScreenOk(z)'
  BY <1>6 DEF DialFail
<1>7. ASSUME DialError(t) PROVE ScreenOk(z)'
  BY <1>7 DEF DialError
<1>8. ASSUME AbortClose(t) PROVE ScreenOk(z)'
  BY <1>8 DEF AbortClose
<1>9. ASSUME ReleaseError(t) PROVE ScreenOk(z)'
  BY <1>9 DEF ReleaseError, Return
<1>10. ASSUME HangupClose(t) PROVE ScreenOk(z)'
  BY <1>10 DEF HangupClose
<1>11. ASSUME Retry(t) PROVE ScreenOk(z)'
  BY <1>11 DEF Retry, Retrying
<1>12. ASSUME BridgeGone(t) PROVE ScreenOk(z)'
  BY <1>12 DEF BridgeGone
<1>13. ASSUME ReleaseFailed(t) PROVE ScreenOk(z)'
  BY <1>13 DEF ReleaseFailed, Return
<1> QED BY <1>1, <1>2, <1>3, <1>4, <1>5, <1>6, <1>7, <1>8, <1>9, <1>10, <1>11, <1>12, <1>13
        DEF Dialer

\* What a session shows is kept right by the goroutine of a cleanup.
LEMMA ScreenCleanupSteps ==
    ASSUME TaskInv, ReportInv, NEW z \in Sessions \ MayCancel,
           state[z] # "closed" => ScreenOk(z), state'[z] # "closed",
           NEW t \in Tasks, Cleanup(t)
    PROVE  ScreenOk(z)'
<1> USE HubAssumption, MsgEq, MsgTask, MsgType
<1>1. ASSUME CleanupStart(t) PROVE ScreenOk(z)'
  BY <1>1 DEF CleanupStart
<1>2. ASSUME CleanupHangup(t) PROVE ScreenOk(z)'
  BY <1>2 DEF CleanupHangup
<1>3. ASSUME CleanupClose(t) PROVE ScreenOk(z)'
  BY <1>3 DEF CleanupClose
<1>4. ASSUME CleanupRelease(t) PROVE ScreenOk(z)'
  BY <1>4 DEF CleanupRelease
<1> QED BY <1>1, <1>2, <1>3, <1>4
        DEF Cleanup

\* What a session shows is kept right by the reader and the writers of a line.
LEMMA ScreenLineSteps ==
    ASSUME TaskInv, ReportInv, NEW z \in Sessions \ MayCancel,
           state[z] # "closed" => ScreenOk(z), state'[z] # "closed",
           NEW t \in Tasks, Line(t)
    PROVE  ScreenOk(z)'
<1> USE HubAssumption, MsgEq, MsgTask, MsgType
<1>1. ASSUME ReadErr(t) PROVE ScreenOk(z)'
  BY <1>1 DEF ReadErr
<1>2. ASSUME WriteOk(t) PROVE ScreenOk(z)'
  BY <1>2 DEF WriteOk
<1>3. ASSUME WriteErr(t) PROVE ScreenOk(z)'
  BY <1>3 DEF WriteErr
<1> QED BY <1>1, <1>2, <1>3
        DEF Line

HIDE DEF TaskInv, TypeOK, OfferInv, SessionInv, CleanupInv, DoneInv, Pc, HoldingPc, CleanupPc,
         States, Kinds, sessionVars, taskVars, ioVars, lockVars, Goto, Handle,
         Sent, Running, Online, LoopPc, Underway, ReportInv, ScreenOk

\* A session that has ended stays ended.
LEMMA ClosedStays ==
    ASSUME TaskInv, [Next]_vars, NEW s \in Sessions, state'[s] # "closed"
    PROVE  state[s] # "closed"
<1> USE DEF TaskInv, TypeOK, States, sessionVars
<1>1. ASSUME NEW r \in Sessions,
             Login(r) \/ PasswordChanged(r) \/ Quit(r) \/ Drop(r) \/ Key(r)
      PROVE  state[s] # "closed"
  BY <1>1 DEF Login, PasswordChanged, Quit, Drop, Close, Key, SelectSite, QuitKey,
              LeaveDialing, ReturnToMenu, EnterKey, HangUpKey
<1>2. ASSUME NEW r \in Sessions, NEW t \in Tasks, Deliver(r, t)
      PROVE  state[s] # "closed"
  BY <1>2 DEF Deliver, OnDialRequest, OnConnect, OnConnectNoLog, ReturnToMenu, OnDialFailed,
              OnDisconnect, OnCleanupDone, OnTerminalDone, Ignore
<1>3. ASSUME NEW t \in Tasks, Dialer(t) \/ Cleanup(t) \/ Line(t)
      PROVE  state' = state
  BY <1>3 DEF Dialer, AcquireOk, AcquireFail, OpenOk, OpenFail, DialConnect, DialFail,
              DialError, AbortClose, ReleaseError, HangupClose, Retry, BridgeGone,
              ReleaseFailed, Cleanup, CleanupStart, CleanupHangup, CleanupClose,
              CleanupRelease, Line, ReadErr, WriteOk, WriteErr
<1> QED BY <1>1, <1>2, <1>3 DEF Next, Terminating, vars

\* Every step keeps what the sessions show.
LEMMA ScreenStep ==
    ASSUME TaskInv, ReportInv, ScreenInv, [Next]_vars
    PROVE  ReportInv' /\ ScreenInv'
<1>1. CASE UNCHANGED vars
  BY <1>1 DEF vars, sessionVars, taskVars, ReportInv, ScreenInv, ScreenOk, Underway, Online
<1>2. CASE Next /\ ~UNCHANGED vars
  <2>1. ReportInv'
    BY <1>2, ReportKeySteps, ReportMessageSteps, ReportDialerSteps,
       ReportCleanupSteps, ReportLineSteps
       DEF Next, Terminating
  <2>2. ASSUME NEW z \in Sessions \ MayCancel, state'[z] # "closed"
        PROVE  ScreenOk(z)'
    <3>1. ScreenOk(z)
      BY <2>2, ClosedStays DEF ScreenInv
    <3> QED BY <1>2, <2>2, <3>1, ScreenKeySteps, ScreenMessageSteps,
               ScreenDialerSteps, ScreenCleanupSteps, ScreenLineSteps
            DEF Next, Terminating
  <2> QED BY <2>1, <2>2 DEF ScreenInv
<1> QED BY <1>1, <1>2

\* What the sessions show is right in every reachable state: for the sessions
\* that nobody cancels, whatever the others do and whoever drops.
THEOREM ScreenInvariance ==
    Safety => [](ReportInv /\ ScreenInv)
<1>1. Init => ReportInv /\ ScreenInv
  BY DEF Init, ReportInv, ScreenInv, ScreenOk, Underway, Online, LoopPc
<1>2. TaskInv /\ (ReportInv /\ ScreenInv) /\ [Next]_vars => (ReportInv /\ ScreenInv)'
  BY ScreenStep
<1> QED BY <1>1, <1>2, TaskInvariance, PTL DEF Safety

\* Unless a dial is cancelled, the terminal shows, and its log is named after,
\* the site that was dialled, also when sessions drop and quit.
THEOREM DisplayedSiteIsDialledHolds ==
    ASSUME MayCancel = {} PROVE Safety => []DisplayedSiteIsDialled
<1>1. TaskInv /\ ScreenInv => DisplayedSiteIsDialled
  BY DEF TaskInv, SessionInv, ScreenInv, ScreenOk, DisplayedSiteIsDialled, Online
<1> QED BY <1>1, TaskInvariance, ScreenInvariance, PTL

\* Without ctrl+c during a dial, a modem nobody can give back is one whose
\* session has ended.
THEOREM OnlyEndedSessionsLose ==
    Safety => [](\A t \in Tasks : Orphan(t) /\ Owner[t] \notin MayCancel =>
                                             state[Owner[t]] = "closed")
<1>1. ScreenInv => \A t \in Tasks : Orphan(t) /\ Owner[t] \notin MayCancel =>
                                        state[Owner[t]] = "closed"
  BY HubAssumption DEF ScreenInv, ScreenOk, Orphan
<1> QED BY <1>1, ScreenInvariance, PTL

\* A session whose user neither quits nor loses the connection goes on.
StaysInv == \A s \in Sessions \ (MayDrop \cup MayQuit) : state[s] # "closed" /\ ~quitting[s]

\* Only q and ctrl+c quit a session, and only quitting and dropping end it.
LEMMA StaysStep == ASSUME TaskInv, StaysInv, [Next]_vars PROVE StaysInv'
<1> SUFFICES ASSUME NEW s \in Sessions \ (MayDrop \cup MayQuit)
             PROVE  state'[s] # "closed" /\ ~quitting'[s]
  BY DEF StaysInv
<1>0. state[s] # "closed" /\ ~quitting[s]
  BY DEF StaysInv
<1> USE <1>0 DEF TaskInv, TypeOK, States, sessionVars
<1>1. ASSUME NEW r \in Sessions,
             Login(r) \/ PasswordChanged(r) \/ Quit(r) \/ Drop(r) \/ Key(r)
      PROVE  state'[s] # "closed" /\ ~quitting'[s]
  BY <1>1 DEF Login, PasswordChanged, Quit, Drop, Close, Key, SelectSite, QuitKey,
              LeaveDialing, ReturnToMenu, EnterKey, HangUpKey
<1>2. ASSUME NEW r \in Sessions, NEW t \in Tasks, Deliver(r, t)
      PROVE  state'[s] # "closed" /\ ~quitting'[s]
  BY <1>2 DEF Deliver, OnDialRequest, OnConnect, OnConnectNoLog, ReturnToMenu, OnDialFailed,
              OnDisconnect, OnCleanupDone, OnTerminalDone, Ignore
<1>3. ASSUME NEW t \in Tasks, Dialer(t) \/ Cleanup(t) \/ Line(t)
      PROVE  state' = state /\ quitting' = quitting
  BY <1>3 DEF Dialer, AcquireOk, AcquireFail, OpenOk, OpenFail, DialConnect, DialFail,
              DialError, AbortClose, ReleaseError, HangupClose, Retry, BridgeGone,
              ReleaseFailed, Cleanup, CleanupStart, CleanupHangup, CleanupClose,
              CleanupRelease, Line, ReadErr, WriteOk, WriteErr
<1> QED BY <1>1, <1>2, <1>3 DEF Next, Terminating, vars

\* The promise of dialAttempt's comment, where it holds: while nobody cancels
\* a dial and no session ends, every modem that has connected keeps a session
\* that can hang it up.
THEOREM NoOrphanHolds ==
    ASSUME MayDrop = {}, MayQuit = {}, MayCancel = {}
    PROVE  Safety => []NoOrphan
<1>1. Init => StaysInv
  BY Zenon DEF Init, StaysInv
<1>2. Safety => []StaysInv
  BY <1>1, StaysStep, TaskInvariance, PTL DEF Safety
<1>3. StaysInv /\ (\A t \in Tasks : Orphan(t) /\ Owner[t] \notin MayCancel =>
                                        state[Owner[t]] = "closed") => NoOrphan
  BY HubAssumption DEF StaysInv, NoOrphan
<1> QED BY <1>2, <1>3, OnlyEndedSessionsLose, PTL
=============================================================================
