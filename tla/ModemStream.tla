---------------------------- MODULE ModemStream ----------------------------
(***************************************************************************)
(* What the remote device says, on its way into the terminal and its log:  *)
(* the kernel's buffer, the goroutine readLoop of BufferedReadWriteCloser, *)
(* its channel, the command waitForModemData, and ConnectedModel, from the *)
(* moment of CONNECT to the end of the cleanup; and the wake-ups that the  *)
(* terminal writes until the remote has said something.                    *)
(*                                                                         *)
(* What one read returns is a chunk; the chunks are numbered in the order  *)
(* in which the remote sends them.  Nothing in the program calls Close of  *)
(* BufferedReadWriteCloser: the cleanup closes the device below it.        *)
(***************************************************************************)
EXTENDS Naturals, Sequences

CONSTANTS
    MaxChunks,  \* bound on what the remote sends
    Capacity,   \* of dataCh (100)
    MaxWakes    \* bound on the wake-ups not yet written

ASSUME StreamAssumption ==
    /\ MaxChunks \in Nat
    /\ {Capacity, MaxWakes} \subseteq Nat \ {0}

VARIABLES
    sent,        \* the last chunk the remote has sent
    tty,         \* chunks in the kernel's buffer
    gone,        \* the device has disappeared: its reads fail
    closed,      \* the modem handle is closed
    loop,        \* where readLoop is
    held,        \* the chunk readLoop has in its hands, as a sequence
    dataCh,      \* BufferedReadWriteCloser.dataCh
    errCh,       \* whether errCh has an error
    reader,      \* waitForModemData: "reading", or "idle" between commands
    msgs,        \* its message, as a sequence: a chunk, or 0 for the disconnect
    log,         \* the session log
    cleaning,    \* ConnectedModel.cleaning
    carrierLost, \* ConnectedModel.carrierLost
    cleanup,     \* where the cleanup goroutine is
    gotData,     \* ConnectedModel.gotData
    tick,        \* the next wakeTickMsg is on its way
    waking       \* sendWake goroutines that have not written yet

lineVars == <<sent, tty, gone>>
loopVars == <<loop, held, dataCh, errCh>>
termVars == <<reader, msgs, log, cleaning, carrierLost>>
wakeVars == <<gotData, tick, waking>>
vars     == <<lineVars, closed, loopVars, termVars, cleanup, wakeVars>>

-----------------------------------------------------------------------------

Disconnect == 0

Init ==
    /\ sent = 0
    /\ tty = <<>>
    /\ gone = FALSE
    /\ closed = FALSE
    /\ loop = "read"
    /\ held = <<>>
    /\ dataCh = <<>>
    /\ errCh = FALSE
    /\ reader = "reading"
    /\ msgs = <<>>
    /\ log = <<>>
    /\ cleaning = FALSE
    /\ carrierLost = FALSE
    /\ cleanup = "none"
    /\ gotData = FALSE
    /\ tick = TRUE
    /\ waking = 1

-----------------------------------------------------------------------------
(* Seeded faults.  Each is the action it is named after with a plausible   *)
(* mistake in it.                                                          *)

\* The channel is not bounded.
LoopPush_Unbounded ==
    /\ loop = "push"
    /\ dataCh' = dataCh \o held
    /\ held' = <<>>
    /\ loop' = "read"
    /\ UNCHANGED <<lineVars, closed, errCh, termVars, cleanup, wakeVars>>

\* A chunk that finds the channel full is dropped.
LoopPush_Drops ==
    /\ loop = "push"
    /\ dataCh' = IF Len(dataCh) < Capacity THEN dataCh \o held ELSE dataCh
    /\ held' = <<>>
    /\ loop' = "read"
    /\ UNCHANGED <<lineVars, closed, errCh, termVars, cleanup, wakeVars>>

\* readLoop tries again after an error.
LoopErr_Retries ==
    /\ loop = "err"
    /\ loop' = "read"
    /\ UNCHANGED <<lineVars, closed, held, dataCh, errCh, termVars, cleanup,
                   wakeVars>>

\* waitForModemData is not issued again.
OnData_ReadsOnce ==
    /\ msgs \notin {<<>>, <<Disconnect>>}
    /\ ~cleaning
    /\ msgs' = <<>>
    /\ log' = log \o msgs
    /\ gotData' = TRUE
    /\ UNCHANGED <<lineVars, closed, loopVars, reader, cleaning, carrierLost,
                   cleanup, tick, waking>>

\* The hangup waits for a reply, without a time-out.
HangupEnds_OnReply ==
    /\ cleanup = "hangup"
    /\ cleanup' = IF tty = <<>> THEN cleanup ELSE "close"
    /\ UNCHANGED <<lineVars, closed, loopVars, termVars, wakeVars>>

\* The wake-up goes on until the terminal is closed.
WakeTick_ForEver ==
    /\ tick
    /\ IF cleaning
       THEN tick' = FALSE /\ UNCHANGED waking
       ELSE waking < MaxWakes /\ waking' = waking + 1 /\ UNCHANGED tick
    /\ UNCHANGED <<lineVars, closed, loopVars, termVars, cleanup, gotData>>

-----------------------------------------------------------------------------
(* The line.                                                               *)

Send ==
    /\ sent < MaxChunks /\ ~gone
    /\ sent' = sent + 1
    /\ tty' = Append(tty, sent')
    /\ UNCHANGED <<gone, closed, loopVars, termVars, cleanup, wakeVars>>

Disappear ==
    /\ ~gone
    /\ gone' = TRUE
    /\ UNCHANGED <<sent, tty, closed, loopVars, termVars, cleanup, wakeVars>>

-----------------------------------------------------------------------------
(* readLoop                                                                *)

LoopRead ==
    /\ loop = "read" /\ ~closed
    /\ tty # <<>>
    /\ held' = <<Head(tty)>>
    /\ tty' = Tail(tty)
    /\ loop' = "push"
    /\ UNCHANGED <<sent, gone, closed, dataCh, errCh, termVars, cleanup,
                   wakeVars>>

\* The device is gone or closed, or the deadline that the hangup's readUntil
\* sets on the same handle has passed.
LoopReadErr ==
    /\ loop = "read"
    /\ closed \/ (gone /\ tty = <<>>) \/ cleanup = "hangup"
    /\ loop' = "err"
    /\ UNCHANGED <<lineVars, closed, held, dataCh, errCh, termVars, cleanup,
                   wakeVars>>

LoopPush ==
    /\ loop = "push"
    /\ Len(dataCh) < Capacity
    /\ dataCh' = dataCh \o held
    /\ held' = <<>>
    /\ loop' = "read"
    /\ UNCHANGED <<lineVars, closed, errCh, termVars, cleanup, wakeVars>>

LoopErr ==
    /\ loop = "err"
    /\ errCh' = TRUE
    /\ loop' = "ended"
    /\ UNCHANGED <<lineVars, closed, held, dataCh, termVars, cleanup,
                   wakeVars>>

-----------------------------------------------------------------------------
(* waitForModemData, in a goroutine of its own.  BufferedReadWriteCloser's *)
(* Read selects among the channels that are ready, without preference.     *)

ReadData ==
    /\ reader = "reading"
    /\ dataCh # <<>>
    /\ msgs' = <<Head(dataCh)>>
    /\ dataCh' = Tail(dataCh)
    /\ reader' = "idle"
    /\ UNCHANGED <<lineVars, closed, loop, held, errCh, log, cleaning,
                   carrierLost, cleanup, wakeVars>>

ReadErr ==
    /\ reader = "reading"
    /\ errCh
    /\ msgs' = <<Disconnect>>
    /\ errCh' = FALSE
    /\ reader' = "idle"
    /\ UNCHANGED <<lineVars, closed, loop, held, dataCh, log, cleaning,
                   carrierLost, cleanup, wakeVars>>

-----------------------------------------------------------------------------
(* ConnectedModel.Update                                                   *)

\* modemDataMsg: log the chunk, and read on.
OnData ==
    /\ msgs \notin {<<>>, <<Disconnect>>}
    /\ ~cleaning
    /\ msgs' = <<>>
    /\ log' = log \o msgs
    /\ gotData' = TRUE
    /\ reader' = "reading"
    /\ UNCHANGED <<lineVars, closed, loopVars, cleaning, carrierLost,
                   cleanup, tick, waking>>

\* modemDisconnectMsg: the carrier is lost, and cleanup goes straight to Close.
OnDisconnect ==
    /\ msgs = <<Disconnect>>
    /\ ~cleaning
    /\ msgs' = <<>>
    /\ cleaning' = TRUE
    /\ carrierLost' = TRUE
    /\ cleanup' = "close"
    /\ UNCHANGED <<lineVars, closed, loopVars, reader, log, wakeVars>>

\* Everything is ignored once the terminal is cleaning up, and nothing is read.
Ignore ==
    /\ msgs # <<>>
    /\ cleaning
    /\ msgs' = <<>>
    /\ UNCHANGED <<lineVars, closed, loopVars, reader, log, cleaning,
                   carrierLost, cleanup, wakeVars>>

\* ctrl+c or ~.
HangUpKey ==
    /\ ~cleaning
    /\ cleaning' = TRUE
    /\ cleanup' = "hangup"
    /\ UNCHANGED <<lineVars, closed, loopVars, reader, msgs, log, carrierLost,
                   wakeVars>>

-----------------------------------------------------------------------------
(* cleanup: Modem.Hangup, then Modem.Close.                                *)

\* Hangup reads the reply from the same handle as readLoop.
HangupReads ==
    /\ cleanup = "hangup"
    /\ tty # <<>>
    /\ tty' = Tail(tty)
    /\ UNCHANGED <<sent, gone, closed, loopVars, termVars, cleanup, wakeVars>>

\* With a reply, or after its time-out.
HangupEnds ==
    /\ cleanup = "hangup"
    /\ cleanup' = "close"
    /\ UNCHANGED <<lineVars, closed, loopVars, termVars, wakeVars>>

CloseModem ==
    /\ cleanup = "close"
    /\ closed' = TRUE
    /\ cleanup' = "done"
    /\ UNCHANGED <<lineVars, loopVars, termVars, wakeVars>>

-----------------------------------------------------------------------------
(* The wake-ups.                                                           *)

\* wakeTickMsg: another wake-up and another tick until the remote has
\* answered; ignored, and not renewed, during the cleanup.
WakeTick ==
    /\ tick
    /\ IF gotData \/ cleaning
       THEN tick' = FALSE /\ UNCHANGED waking
       ELSE waking < MaxWakes /\ waking' = waking + 1 /\ UNCHANGED tick
    /\ UNCHANGED <<lineVars, closed, loopVars, termVars, cleanup, gotData>>

\* sendWake writes its CR, or fails and says nothing.
Wake ==
    /\ waking > 0
    /\ waking' = waking - 1
    /\ UNCHANGED <<lineVars, closed, loopVars, termVars, cleanup, gotData,
                   tick>>

-----------------------------------------------------------------------------

Loop == LoopRead \/ LoopReadErr \/ LoopPush \/ LoopErr
Reader == ReadData \/ ReadErr
Update == OnData \/ OnDisconnect \/ Ignore
Cleanup == HangupEnds \/ CloseModem

\* readLoop can never go on: the channel is full and nobody reads any more.
Stuck ==
    /\ loop = "push" /\ Len(dataCh) = Capacity
    /\ reader = "idle" /\ msgs = <<>> /\ cleaning

Terminating == closed /\ (loop = "ended" \/ Stuck) /\ UNCHANGED vars

Next ==
    \/ Send \/ Disappear
    \/ Loop \/ Reader \/ Update
    \/ HangUpKey \/ HangupReads \/ Cleanup
    \/ WakeTick \/ Wake
    \/ Terminating

\* Goroutines and timers run; the remote need not send, and nobody has to hang up.
Spec ==
    /\ Init /\ [][Next]_vars
    /\ WF_vars(Loop) /\ WF_vars(Reader) /\ WF_vars(Update) /\ WF_vars(Cleanup)
    /\ WF_vars(WakeTick) /\ WF_vars(Wake)

-----------------------------------------------------------------------------
(* Properties.                                                             *)

TypeOK ==
    /\ sent \in 0..MaxChunks
    /\ tty \in Seq(1..MaxChunks)
    /\ {gone, closed, errCh, cleaning, carrierLost, gotData, tick}
           \subseteq BOOLEAN
    /\ loop \in {"read", "push", "err", "ended"}
    /\ held \in Seq(1..MaxChunks) /\ Len(held) <= 1
    /\ held # <<>> <=> loop = "push"
    /\ dataCh \in Seq(1..MaxChunks) /\ Len(dataCh) <= Capacity
    /\ reader \in {"reading", "idle"}
    /\ msgs \in Seq(0..MaxChunks) /\ Len(msgs) <= 1
    /\ log \in Seq(1..MaxChunks)
    /\ cleanup \in {"none", "hangup", "close", "done"}
    /\ waking \in 0..MaxWakes

\* While the terminal is live, everything the remote has sent is in the log
\* or on its way there, once and in order, whatever the speed of the loop,
\* the reader and the event loop.
NothingLostOnTheWay ==
    ~cleaning =>
        log \o (IF msgs = <<Disconnect>> THEN <<>> ELSE msgs)
            \o dataCh \o held \o tty = [i \in 1..sent |-> i]

\* What the remote sends is logged, unless the terminal is being closed.
DataReachesLog ==
    \A c \in 1..MaxChunks : sent >= c ~> Len(log) >= c \/ cleaning

\* A cleanup closes the modem, whatever the line does meanwhile.
CleanupCloses == cleaning ~> closed

\* readLoop ends after the device is closed, unless the channel was full by
\* then: it is not closed itself, and nobody reads it after the hangup.
LoopEndsUnlessFull == closed ~> (loop = "ended" \/ Stuck)

\* No wake-up is written for long after the remote has first answered, or the
\* terminal is closed: the stray CR cannot end up in what the user types.
WakeUpsStop == (gotData \/ cleaning) ~> [](waking = 0 /\ ~tick)
=============================================================================
