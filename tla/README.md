# OOB Console Hub: TLA+ models, checks and proofs

The hub lets operators reach out-of-band serial consoles: a user logs in over
SSH, picks a site in a text menu, the hub dials the site's number over its one
modem, and the session becomes a terminal on that line until the user hangs up
or the carrier is lost.  Users live in `users.json`, which the hub and the
command `oob-manage` change from two processes.

This directory models that program in TLA+, checks the models with TLC and
proves every safety property of the passing runs with TLAPS.  `PROJECT.json` holds the same
information as data: components, runs, the seeded fault each property catches,
the source lines behind each definition, findings, hazards and theorems.

    tlc -config hub_rude.cfg MCConsoleHub       # one run
    tlapm ConsoleHubProofs.tla                  # one module's proofs

## 1. The system

Paths are relative to the repository's root.

| Component | State | Operations | Interacts with |
|---|---|---|---|
| Device lock, `internal/modem/pool.go` | `activeSite` ("" is idle), under a mutex | Acquire, Release, ActiveSite, IsAvailable | every dial and cleanup; the menu reads it |
| Session state machine, `internal/tui/model.go`, `menu.go`, `messages.go` | screen, active modem, active site, per SSH session | one message at a time through `Update` | sends commands to goroutines, receives their messages |
| Dialer, `internal/tui/dialing.go` | screen status; loop variables of `acquireAndDial` | acquire, open, configure, dial, retry, release | device lock, modem driver, bridge process |
| Terminal, `internal/tui/connected.go` | input, history, batch, `gotData`, `cleaning`, `carrierLost` | keys, data, disconnect, wake-ups, cleanup | line I/O, session log, device lock |
| Line I/O, `BufferedReadWriteCloser` in `internal/modem/modem.go` | channel of 100 chunks, error channel, goroutine | readLoop, Read, Write, Close | the device, the terminal's reader |
| AT driver, `internal/modem/modem.go` | handle, transcript | Open, Init, Configure, Dial, Hangup, Close | the device |
| Bridge, probes and SIP, `internal/tui/bridge.go`, `sip.go` | none; reads processes and files | waits with deadlines | dialer |
| User store, `internal/auth/store.go` | `users.json`, temporary file, lock file, RWMutex | NewFileStore, Add, Remove, List, Authenticate, Lock, Unlock, Reset, SetPassword, ... | SSH server, password form, `oob-manage`, migration |
| Migration, `internal/auth/migrate.go` | the two legacy files | one pass at start | user store |
| SSH server, `internal/sshserver/server.go` | none of its own | authenticate, build the session's model | user store, session state machine |
| Processes, `cmd/oob-hub`, `cmd/oob-manage`, `cmd/oob-probe` | none | start-up and shutdown; one command; a diagnostic dial | all of the above |
| Session log, configuration, styles, containers | files | read or write once | - |

What is hard here, and what makes each part correct:

* **Goroutines that outlive their screen.**  A dial runs in a goroutine that
  nothing cancels; ctrl+c leaves its screen, a broken connection ends its
  program, and its result arrives later, elsewhere or never.  The modem must be
  held by one dial at a time and come back from every path.
* **A lock without an owner.**  `Release` clears the lock whoever calls it.
  That no step releases somebody else's acquisition is a property of all the
  callers together.
* **Messages without identity.**  `DialResultMsg` and `modemDisconnectMsg` do
  not say which dial or connection they belong to.
* **Manual release.**  `acquireAndDial` has five exits after `Acquire`; the
  terminal has three ways into its one cleanup.
* **A bounded channel and an error channel** between the device and the
  terminal, and a hang-up that reads from the same handle.
* **One file, two processes.**  Lost updates, a crash at any byte of a write,
  and a first start that both processes may make at once.
* **A modem that answers when it likes.**  Answers come after their deadline,
  nobody reads some of them, calls end unasked, and the modem may be in any mode
  when it is opened: after a crash, a failed dial, or `oob-probe`.
* **Escape by silence.**  `+++` only counts with a second of rest on both sides,
  which goroutines that still write to the handle do not know.
* **Passwords that are shown once.**  A temporary password is stored before it is
  printed, and printed before it is changed, while administrators, logins,
  migrations and kills come in between.

## 2. The modules

| Module | Models | Role |
|---|---|---|
| `DeviceLock` | `modem.DeviceLock` | component, instantiated by `ConsoleHub` |
| `ModemLease` | what the hub promises about the modem | abstract specification |
| `DialTask` | one dial as seen from outside | abstract specification |
| `ConsoleHub` | sessions, dials, connections and cleanups over one modem | composition; implements `ModemLease`, and `DialTask` for each dial |
| `SerialModem` | the modem behind the device: slmodemd, its bridge, the tty | external component, extended by `Dialer` |
| `Dialer` | the AT driver, the bridge and device probes, one dial of the hub, `oob-probe` | composition; implements `DialTask` for each client |
| `UserDB` | what the user store promises | abstract specification |
| `UserStore` | `auth.FileStore` in several threads and processes | implements `UserDB` |
| `Accounts` | login, password form, `oob-manage`, start of the hub, migration | composition over the table of `UserDB` |
| `ModemStream` | line I/O, the terminal's reader, wake-ups and cleanup | component |
| `Terminal` | the terminal's keyboard and writers | component |
| `ConsoleHubProofs`, `DialerProofs`, `UserStoreProofs`, `AccountsProofs`, `ModemStreamProofs`, `TerminalProofs` | - | theorems |
| `MC*` | instances for TLC | model values, request sets |

Each module that has a run also holds *seeded faults*: definitions named
`<Definition>_<Fault>`, each the definition it is named after with one
plausible mistake in it.  No specification uses them.  Putting one in the place
of its definition makes TLC violate the property listed with it in
`PROJECT.json`, so that each property is known to depend on the code.

### ConsoleHub

A *task* is one dial and all that follows from it: the `DialRequestMsg`, the
goroutine of `acquireAndDial`, the handle it opens, the connection, its
cleanup.  `pc[t]` is where that goroutine (later the cleanup's) stands:

    fresh -> requested -> acquire -> opening -> dialing -> offered -> online
                                       |           |
                                     failing   hangup, abort -> hungUp -> bridge (retry)
    online -> cleanup -> hangingUp -> closing -> releasing -> done

Sessions have the fields of `tui.Model` that matter (`state`, `activeModem`,
`activeSite`, `dialDone`, `cleaning`, `carrierLost`).  Every handler of
`Update` is one action, every step of a goroutine between two effects on the
device, the lock or the messages is one action.  Messages in flight form a set
since the runtime delivers each from a goroutine of its own: any order.  A
program that has ended receives nothing (`Sent`), and its goroutines run on.
The auxiliary variable `holders` of `DeviceLock` records who acquired the
device; the code has no such thing.

Left out: drawing, window size, filtering of the list, status texts, the SIP
warning; a dial's AT dialogue is one result (`final`, `retryable`) or error.
`Dialer` has the dialogue.

### SerialModem and Dialer

`Dialer` turns the modem's side of a dial inside out.  `Script` is the text of
the driver's methods: what `Init` (positions 1 to 5), `Configure` (6), `Dial`
(7) and `Hangup` (8 and 9) write, whether they drain first, which words end the
wait, and whether an ERROR or no answer ends the attempt.  A client (a dial of
the hub, a run of `oob-probe`) walks through it: `Rest` and `Escape` for `+++`,
`Send`, then `Reply` or `Timeout`.  Where it goes from a position is `Proceed`,
`Fails`, `Missed` or `HungUp`.  Around the dialogue are the points of
`acquireAndDial`: open, close, retry, the wait for the bridge with its kill, the
wait for the device, release; `oob-probe` goes through the same methods but
neither takes the lock nor retries nor, except at the end of a connection, hangs
up, and it may have no number to dial.

`SerialModem` is the other end (in its words a space is written `_`), modelled from what `modem.go` writes and expects
and what the comments of `bridge.go` say of slmodemd: commands are looked at in
order, at any later time; a byte aborts a call that is being placed; online,
everything but an escape goes to the remote; a bridge outlives its call, and a
dial while it does is answered NO CARRIER.  An escape is one whose writer has
rested before it and after it: `quiet` has the writers in a rest that nobody has
disturbed.  Calls carry the number of the ATDT that placed them, which lets a
property tell a result from a late one of another call; the code has no such
number.

What the environment may do wrong is a set of fault kinds (`FaultKinds`): a
deadline that passes while the answer is on its way, a pgrep that fails, a kill,
the death of slmodemd, result words in a remote's text, two clients on the
device at once, and a line of a batch that is written while its terminal is
closed.  A property names the kinds under which it is not claimed.

Left out: the transcript, the second and later init commands, the periodic Enter
of the probe and what a user types while online (both only reach the remote).

### Accounts

`UserStore` implements `UserDB`, so that a call of the store is one step here, or
none when the disk fails.  What its caller does with the answer is a step of its
own: `MustChange` after `Authenticate`, `Announce` after `Issue`, `PrintAdded`
after `AddNext`.  The store is the table alone; temporary passwords are drawn
from a sequence of distinct ones (62^12 in the code).  Form submissions are
goroutines that capture the form when they start: a second Enter starts another,
and their answers come in any order.  `Start` to `HubExits` are the hub's `main`
with every failure on the way, `SkipMigration` to `PutAway` its migration (of the
three files it renames only `users.conf` is ever read again: `legacy`).
A kill ends a process with all its goroutines, between any two steps.

The form asks of a new password only its length and that it is there twice.  So
`Submit` takes anything somebody can type (`Known`): what a user has made up, and
every temporary password that was printed, the one of this login included; and
`Overlong` texts, which the form takes and bcrypt refuses.  `SetPassword` stores
the former, `Swallow` is what it does with the latter: its error is dropped, the
table stays as it was, and the form reports success.  `retyped` (the temporary
passwords that a form has stored, for which user) and `excuse` (why a session may
get to the menu although its change is still due) are auxiliary: no action reads
them, they let the properties say what is exempt.

### UserStore

A thread's operation passes through the points of the code at which another
thread, process or crash makes a difference: the mutex, the flock, opening
`users.json`, reading it, creating the temporary file, completing the write,
renaming.  Files are inodes, so that a reader that has opened the old file
keeps it.  Who holds the mutex and the flock is read off `pc`.  A crash takes
all threads of a process and frees its locks; files stay as they are.  The
power failing (nothing is synced before the rename) is not modelled.

### ModemStream

One read's worth of data is a chunk; chunks are numbered.  The chunk goes from
the kernel (`tty`) through `readLoop` (`held`), the channel (`dataCh`),
`waitForModemData` (`msgs`) to the log.  `Read` selects among ready channels
without preference, hence `ReadData` and `ReadErr` may both be enabled.  During
the hang-up `readUntil` reads the same handle (`HangupReads`) and its deadlines
fail the reads of `readLoop` (`LoopReadErr`).  Nobody in the program calls
`BufferedReadWriteCloser.Close`; the cleanup closes the device below it.

### Terminal

Text is a few whole lines: empty, `~.` and a command; typing, backspace and
ctrl+u turn the input into any other line.  Every Enter in line mode and every
ctrl+d of a batch is a submission with a goroutine of its own, and nothing
orders these goroutines: what reaches the remote is kept per submission.
`historyIdx` counts from 0 as in the code, with -1 for not browsing.

## 3. Runs

| Run | Instance | Shows |
|---|---|---|
| `hub_rude` | one dial with a retry in each of two sessions that both drop and cancel, one quits | the inductive invariant `IInv`, `ForgetsOnlyReleased`, `NoHandover`, `ImplementsLease`, `ImplementsDialTask`; under fairness `DialEnds`, `CleanupFrees` |
| `hub_polite` | one session, two dials, two sites, nobody drops, quits or cancels | `NoOrphan`, `DisplayedSiteIsDialled`; under fairness `DeviceComesBack`, `HangUpReturns` |
| `dialer` | a dial of the hub with a retry and init commands, a run of `oob-probe`, any modem to start with, one kind of fault at a time | the inductive invariant `IInv`, `ResultIsOwn`, `HangUpHangsUp`, `InitRecovers`, `DialsFromCommandMode`, `RetryOnFreeLine`, `ImplementsDialTask`; under fairness `DialReturns` |
| `store_shared` | two threads of the hub and one of `oob-manage`, two users, failing disk, one crash | the inductive invariant `StoreInv`, `FileAlwaysWhole`, `ImplementsUserDB` |
| `store_first_boot` | the hub alone, no file, failing disk, two crashes | `ImplementsUserDB` from the first start; under fairness `CallsReturn` |
| `accounts` | one login whose form submits one text after another, a run of `oob-manage`, two users to migrate, two starts, one kill | `ReplacedOrRetyped`, `PasswordIsKnown`, `NoUserLeftBehind`; under fairness `ChangeOpensMenu`, `MigrationEnds` |
| `stream_live` | five chunks, a channel of two, two wake-ups | `NothingLostOnTheWay`; under fairness `DataReachesLog`, `CleanupCloses`, `LoopEndsUnlessFull`, `WakeUpsStop` |
| `terminal` | three lines, history of two | `HistoryClean`, `NoLeftovers`, `GroupsIntact`; under fairness `SubmissionsArrive` |

Runs in which TLC finds a disagreement between the code and what the
repository says of it:

| Run | Property | What happens |
|---|---|---|
| `hub_orphan` | `NoOrphan` | ctrl+c during a dial returns to the menu; the dial then connects, its result is dropped, modem and lock are never given back, and every later dial is refused until a restart |
| `dialer_late_write` | `HangUpHangsUp` | a batch is still being written when its terminal is closed; a line in the rest around `+++` makes it data, ATH goes to the remote, and the device is closed with the call still up |
| `store_first_race` | `NothingLost` | the hub and `oob-manage` start without a `users.json`; the empty table one writes replaces the user the other has just added |
| `accounts_first_login` | `TemporaryIsReplaced` | the form takes the temporary password itself as the new one, or a text of more than 72 bytes, whose refusal by bcrypt `SetPassword` drops; it answers success, and the menu opens with the temporary password still in force |

`hub_polite` is where `NoOrphan` and `DisplayedSiteIsDialled` hold: they fail
only when a dial is left, by ctrl+c or by the end of its session.
(`DisplayedSiteIsDialled` fails for the same reason as `NoOrphan`: after ctrl+c
and a new selection, the first dial's CONNECT is taken for the second's, and the
terminal and its log carry the wrong site's name.)  `HangUpHangsUp` holds when
a line that is written during the cleanup comes after the escape (`LateLines`),
with an answer that is not late and nobody else on the device.  `NothingLost` holds whenever the file is there
before the processes start (`Installed`): a theorem, see section 5.
`TemporaryIsReplaced` is the README's "must change it on first login";
what the code does ensure is `ReplacedOrRetyped`, the same with the two cases of
the finding taken out, and nothing else: no administration, migration, kill or
second submission leads there too.  TLC reports one of the two cases, which have
traces of the same length; to see the other, give `Overlong` no member or keep
`Submit` from the session's `login`.

What the properties do not claim, and the models show to be so:

* `ResultIsOwn` excludes ERROR: a late answer of `Init` may be taken for the
  dial's.  It also excludes a second client on the device and result words in
  a remote's text, and, where answers are late, every number but the first that
  is dialled (`InStep`).  The last one is no caution: without
  it, with the hub alone, `MaxDials = 3` and late answers as the only faults, TLC
  finds in 60 steps a dial that is told the result of an earlier one.  Each timed-out command leaves one more command that the modem
  has not looked at, `Init` takes the answers to the old ones for its own, and
  in the end an old ATDT is placed after a new dial has started to listen.  The
  instance of the run dials once and cannot show it; the proof asked for it.
* `HangUpHangsUp` is not claimed with late answers.  The theorem also excludes
  a line of a batch in the rest before the escape (`HangupAt \notin LateLines`):
  `dialer_late_write` has that line.
* `RetryOnFreeLine` excludes a blind pgrep (`bridge.go:102` takes an error for
  "no bridge") and speaks of retries only: the first dial after a release does
  not wait for the bridge of the one before.
* `ReplacedOrRetyped` exempts three things.  A login whose `MustChangePassword`
  failed: the code then goes on to the menu (`server.go:94`), and
  `TemporaryIsReplaced` exempts it too.  A temporary password that was typed into
  a form of its user as the new one.  A session that has submitted a text too
  long for bcrypt.  The last two are the finding of `accounts_first_login`.
* `NoOrphan` and `DisplayedSiteIsDialled` are not claimed of a session whose user
  cancels a dial.  `hub_orphan` shows the first case (a CONNECT in the menu); the
  others, a result of an earlier dial on the screen of the next, a failure that
  marks the wrong dial as done, are behaviours of `ConsoleHub` that no property
  forbids.  What such a session cannot do to others is `OnlyEndedSessionsLose`.
* `GroupsIntact` and `SubmissionsArrive` speak of each submission by itself.
  Lines of different goroutines may mix on the wire and do.  A line written while
  the line is being hung up counts as arrived; what it can do to the hang-up is
  the subject of `HangUpHangsUp` and `dialer_late_write`.
* `PasswordIsKnown` assumes that nobody is killed: a kill between `Add` and the
  printing leaves a user whose password nobody has seen, and the next migration
  skips the user as existing.
* `NothingLostOnTheWay` speaks of a live terminal: `Read` may return the error
  before chunks queued ahead of it (`modem.go:257`), so the last words of a line
  that disappears may be missing from screen and log.

### Bounds

* *Sessions and dials.*  The properties relate at most two dials: `hub_rude`
  has them in two sessions that may overlap in every way, `hub_polite` in one
  session, one after the other.  What takes a second dial of a session that has
  left its first one (its stale result, a second Enter), a second site (the lock
  handed over under another name) or a site without a name is in neither run: an
  instance with three dials is beyond five minutes.  The theorems of section 5
  remove these bounds for the safety properties: any number of dials of each
  session, left or not, and of sites.
* `MaxRetries` is 2 where the retry matters (the code has 3 attempts): one
  repetition takes the loop through each of its branches.
* `MayDrop`, `MayQuit`, `MayCancel` say which users do what; they divide the
  question among runs and weaken no action.
* *Store.*  Three calls, one crash: a lost update takes two changes and a
  reader; `Inodes` is large enough that a write always finds a free one
  (`Create` has a guard that says so).  Section 5 removes the bounds.
* *Dialer.*  `MaxDials` is one for each client, with two attempts for the hub's:
  what an earlier dial, process or probe can leave behind is in the initial
  states (any mode, any bridge) and in the first attempt.  `MaxFaults` is one
  *kind* of fault in a behaviour, any number of times; two kinds together are
  beyond a five-minute run (section 5 removes both bounds).  A batch has one late line.  `MaxQueue` bounds what
  comes unasked (a remote's text), not what is written or answered.
* *Deadlines.*  A wait ends when the modem has nothing left to look at, or, as a
  fault, earlier.  The wait for a dial's result (125 s, chosen in `dialing.go` to
  be above the bridge's own time-out) only ends when the modem will not answer.
* *Accounts.*  The run has one form goroutine at a time.  A second Enter while
  the answer to the first is on its way is in it, and a goroutine that acts
  when its form is gone; two goroutines between the same two steps take effect
  in some order, as the store does, and are covered by the theorems.  Six temporary passwords are more than the steps can draw.
  `MaxStarts` two and `MaxCrashes` one: a migration that is cut short and taken
  up again.  Section 5 removes these bounds.
* *Stream.*  Five chunks over a channel of two fill the channel, the loop's
  hands and the message at once.  The code's 100 differs in nothing but size.
* *Terminal.*  `MaxLines` bounds the lines submitted and collected: three make
  a history of two be cut, and a batch of two with a third line beside it.
* `MaxWakes` bounds the wake-ups that have not written yet.

### Fairness

* Goroutines are scheduled: weak fairness on each dial's goroutine, each
  cleanup, `readLoop`, the reader, the writers, and the store's threads.  The
  waits in them that are modelled as one step have deadlines in the code
  (`Dial`, `readUntil`, `waitBridgeExit`, `waitDeviceReady`).
* The modem looks at what was written to it (`Take`).  It need not answer a
  call, end one, or let its bridge exit, and slmodemd need not come back.
* Processes run: the hub's start and migration, the form's goroutines.  The disk
  need not fail or work; nobody has to run a command.
* The event loop handles messages: weak fairness on delivery to each running
  session.
* Timers fire: `WakeTick`.
* No user has to press a key, with one exception: `DeviceComesBack` says
  that the device is free again *or a live terminal has it*, so no user has to
  hang up either.  The remote need not say anything, and no process has to
  start, stop or crash.

## 4. What ties the pieces together

`ConsoleHub` instantiates `DeviceLock` and calls its operations from its own
actions.

*Dials.*  `ConsoleHub` has many dials and sessions and no dialogue; `Dialer` has
the dialogue and one dial of the hub at a time, which `ConsoleHub` justifies:
its dials exclude each other.  `DialTask` is where the two meet: both implement
it (`ImplementsDialTask`), so that a dial of `ConsoleHub` takes the steps, comes
to the results and makes the attempts that the dial with all its waits, answers
and faults does.

*Users.*  `UserStore` implements `UserDB`; `Accounts` is built on what that says,
one instant for each call.  The one thing `UserDB` leaves out, a password that
bcrypt refuses, `Accounts` has from the code (`Swallow`).  `ConsoleHub` has the login as its `Login` and
`PasswordChanged`.

*The terminal.*  `ModemStream` and `Terminal` are the inside of what `ConsoleHub`
has as `reading`, `writing` and the steps of a connection: a lost carrier is its
`ReadErr` or `WriteErr`, ctrl+c and `~.` its `HangUpKey`, and `CleanupClose` its
`closed`.  They share no variable with `ConsoleHub` and are checked by
themselves.  `Dialer` has the same cleanup seen from the modem: its `LateWrite`
is a writer of `Terminal` that has not ended.

## 5. Proofs

### The hub

`ConsoleHubProofs` proves, for any sets of sessions, dials and sites, any
`Owner`, any number of retries and any choice of who drops, quits or cancels:

* `TaskInvariance`: `Safety => []TaskInv`, and from it `TypeCorrect`,
  `ModemOnlyUnderLockHolds`, `EndedTaskReleasedHolds`, `OnlineOwnsModemHolds`
  and the action property `ForgetsOnlyReleasedHolds`;
* `DialTaskImplemented`: each of the hub's dials implements `DialTask`;
* `LockServesNamedSites`: as long as no unnamed site has been dialled, the lock
  does its work (`LockInv`);
* when no site is unnamed (`SitesNamed`), `Invariance`: `Safety => []IInv`, and
  from it `ExclusionHolds`, `LockTracksHolderHolds`, the action property
  `NoHandoverHolds`, and `LeaseImplemented`: the hub implements `ModemLease`;
* `DisplayedSiteIsDialledHolds`, when no user cancels a dial (`MayCancel = {}`),
  and `NoOrphanHolds`, when also no session ends (`MayDrop = MayQuit = {}`);
* `OnlyEndedSessionsLose`: a modem that nobody can give back belongs to a
  session that has ended or whose user may cancel, whatever other sessions do.

All assume `HubAssumption`.  `SitesNamed` (no site has the empty name) is not
enforced by the code: `ParseSites` accepts a line whose name is empty, and the
lock then reads idle while it is held (`pool.go:28`).  So only the theorems on
what the lock is for assume it; those on dials, sessions, cleanups and screens
hold of a hub whose lock does not lock.

*Why an inductive invariant.*  `Exclusion` alone is not inductive: a release
by a dial that does not hold would break the next step.  `IInv` is `TaskInv /\
LockInv`, and `TaskInv` is inductive by itself: it determines who holds from where each task stands (`PlaceInv`); that reduces
every release to the question whether the task that performs it is at a holding
point.  `OfferInv` and `DoneInv` say what a message in flight implies about its
task, so that a delivery to a session cannot resurrect a finished connection.
`SessionInv` and `CleanupInv` pair each live terminal with exactly one task,
which makes the cleanup of a session the cleanup of its own modem.  `TaskInv`
has one lemma for each group of actions: keys, messages, the dial's goroutine,
the cleanup, the line.  `LockInv` is inductive over it while `NamedSoFar`, which
no step can make true again (`NamedBefore`).

*Refinement.*  `holder` is `holders`, `ended` the tasks that are done.
`GrantStep`, `ReturnStep` and `QuietStep` are the three ways in which a step of
the hub looks to the lease; `LeaseStep` sorts every action into one of them.
`NoHandover` then follows from the lease (a step that finds a holder and leaves
one leaves the same) and from `SiteKept`.  `DialTaskImplemented` maps where a
task stands (`Place`) to the places of `DialTask`; it needs `AttemptInv`, that
the loop variable is 0 outside the loop.

*Users who wait.*  `ScreenInv` speaks of each session that nobody cancels, among
any others: the one dial whose result is still to come is that of the screen,
its site is the one displayed, an offered modem has its message on the way, and
a connected one is on the screen.  `ReportInv` (a dial reports a failure once,
and is over by then) is what makes the screen's `done` mean that no second
result follows.  Both are inductive over `TaskInv`.

### The dialogue with the modem

`DialerProofs` proves, for any number of dials of the hub and of probes, any
number of attempts, any faults in any combination and any modem to start with:

* `Invariance`: `Safety => []IInv`, and `TypeCorrect`;
* `ResultIsOwnHolds`, `InitRecoversHolds`, and `HangUpHangsUpHolds` with
  `HangupAt \notin LateLines`;
* the action properties `DialsFromCommandModeHolds` and `RetryOnFreeLineHolds`;
* `DialTaskImplemented`: each client's dial implements `DialTask`.

They rest on `DialerAssumption` alone.  What each property needs of the faults
is in the property.

*Why an inductive invariant.*  The properties speak of the modem when it comes to
a command, and the client that wrote the command may be several steps further by
then.  `IInv` therefore speaks of what is on the wire.

* `PlaceInv` and `AloneInv`: where each client is, and that, unless the device is
  shared, one client is at it.  After a kill the next finds the wire as it is.
* `OrderInv` needs no clock.  By the time the modem comes to an ATDT it has left
  data mode and hung up, because a clean `+++` and an ATH were written before it
  and are looked at before it, however late that is.  `DialsFromCommandMode`
  follows, late answers and kills included.
* `InitInv`, `HangupInv`, `RetryInv` hold when answers come in time: the escape
  and the ATH have worked before the next command is written, so that every
  command of `Init` is answered, ATH is not lost when the hub closes, and no
  number is on the wire between two attempts.
* `OwnInv`: while `Dial` waits, every result on its way, every ATDT on the wire
  and the modem's call carry the client's number.  In time this comes from
  `InitInv`; for the first number ever dialled it also holds with late answers,
  by `FirstInv`: two answers heard after a `+++` include one to ATH or ATZ.

The facts about each kind of step (`...Facts`) come first, then one section for
each conjunct, since every step of a client is a step of the script, of the
modem, or around the dialogue.  The proof also found a slip in the model: two cases
of the map to `DialTask` overlapped for CONNECT and NO CARRIER, where TLC takes
the first and TLA+ does not say.

### The user store

`UserStoreProofs` proves, for any processes, threads, users, passwords and
requests, with or without a failing disk and with any number of crashes:

* `Invariance`: `Safety => []StoreInv`, and `FirstStartInvariance`, that a store
  for which this does not hold is still at its first start;
* `TypeCorrect`, `FileAlwaysWholeHolds`, and the action properties
  `NothingLostHolds` and `SuccessMeansAppliedHolds`;
* `UserDBImplemented`: the store implements `UserDB`.

`Invariance` assumes `Installed`, that `users.json` is there before the first
process starts.  The others assume `FirstStartAlone`: that, or that there is a
single process; `store_first_race` shows what happens otherwise.
`SuccessMeansAppliedHolds` and `UserDBImplemented` also assume `Unhashable = {}`,
that bcrypt takes every password: what happens otherwise is part of
`accounts_first_login`.

*Why an inductive invariant.*  `NothingLost` depends on what a writer has read
being still current when it renames.  `WriteInv` says so: what it has in memory,
and later in the temporary file, is its change of the table that `users.json`
holds at that moment.  It stays true since nobody else can rename, and that is
`OneWriter`, the file lock.  `FilesInv` and `ReadInv` keep the temporary file
apart from `users.json` and from every file a reader has open, although that
one may have been replaced since; `PlaceInv` ties a thread's place in the code to the
sort of operation it has.  A temporary file that a crash or a full disk left
behind is covered: nothing is claimed of it until a writer has truncated it.

*The first start.*  `NewFileStore` writes `users.json` outside of all locks, so
that `StoreInv` cannot hold before the first rename.  `FirstInv` is what holds
until then for a process by itself: one thread is at work, in `NewFileStore`, and
its buffer is the empty table.  However often it fails or is killed there, it
leaves `FirstInv` only by the rename (`FirstStep`), and that establishes
`StoreInv` (`FirstRenameStep`).  To `UserDB` none of this is visible
(`FirstNotSeen`).

*Refinement.*  `db` is the table in `users.json`.  A reading operation acts when
it opens the file (its outcome is fixed from there on, even when the name moves
on before it reads), a changing one at the rename, a refused one when it has
read the table.  `ReplyStep`, `RefuseStep`, `EffectStep`, `FailStep`,
`CallReturnStep` and `CrashStep` are the steps that are seen; `InnerStep` sorts
out all others, and `StepKeepsOthers` says that no step changes the outcome of
another thread's operation.

### The accounts

`AccountsProofs` proves `ReplacedOrRetypedHolds`, `PasswordIsKnownHolds` and
`NoUserLeftBehindHolds` for any logins, users, legacy list, runs of `oob-manage`,
starts and kills, from `AccountsAssumption` alone: the passwords that users make
up and those that are generated are different ones, no password is generated
twice, and bcrypt takes every one that is generated.  It does not say that nobody
types a generated one; any that was printed may be typed into any form.  The
invariant behind the three:
`FreshInv` says that an entry with a temporary password has its change still to
come, unless that password was typed again for this user; `TypedInv`, that what is
stored, printed or typed comes from the passwords drawn so far, so that the next
one drawn is one nobody has seen; `QuietInv`, that no
answer of a form is on its way to a login that has not opened one; `MenuInv`
carries `ReplacedOrRetyped` back to the answer that will open the menu, and
needs all three, since the user may be reset, removed and added between the change
and its answer; `PrintInv` says who has a password in hand; `MigrateInv`, that
the users the loop has passed exist or were removed.

### The stream and the terminal

`ModemStreamProofs` proves `TypeCorrect` and `NothingLostOnTheWayHolds` for any
capacity and any number of chunks.  `NothingLostOnTheWay` is an equation of
concatenations; each hand-over moves the head of one part to the end of the
part before it, which is the lemma `MoveHead`.  It is inductive only with
`ReaderInv`: a reader that has a message on its way does not read, and the hangup
does not read the line of a live terminal.

`TerminalProofs` proves `TypeCorrect` (with the index that stays in the history),
`HistoryCleanHolds`, `NoLeftoversHolds` and `GroupsIntactHolds` for any lines, any
limit of the history and any number of submissions.  The history is clean
although it is cut, since a clean sequence stays clean without its head.

### Only model-checked

All liveness: `DialEnds`, `CleanupFrees`, `DeviceComesBack`, `HangUpReturns`,
`DialReturns`, `CallsReturn`, `ChangeOpensMenu`, `MigrationEnds`, `DataReachesLog`,
`CleanupCloses`, `LoopEndsUnlessFull`, `WakeUpsStop` and `SubmissionsArrive`.  The
prover does not treat fairness and `ENABLED`.  Every safety property of the passing runs
is a theorem, and so are the four refinements.

## 6. Not modelled

* Styles, drawing, the SIP warning, the session log's file I/O, the parsing of
  the site file and of `users.conf`: no state, or no decision that a property is
  about.  bcrypt and the random numbers are external.
* The menu's marks of the active site, a snapshot taken when the menu is built
  (`menu.go:178`): a dial asks the lock itself.
* A power failure: neither the temporary file nor its directory is synced before
  the rename (`store.go:239`).
* Containers, supervisor, CI: outside the program.  What the supervisor does for
  slmodemd is `SerialModem`'s `Respawn`.
* Remarks from reading, with no run of their own: Enter in batch mode arms the
  `~.` escape whatever the line (`connected.go:385`), while the comment at
  `connected.go:408` says that only an empty Enter does; `Terminal` has the code's
  version.  The error of a rename at the end of the migration is ignored
  (`migrate.go:47`), so that the next start migrates again and brings back users
  removed since; `Accounts` has it.  Shutdown makes `ListenAndServe` return, and
  its goroutine calls `os.Exit(1)` while `main` waits for the sessions
  (`main.go:59`); `Accounts` has both ways out.

## 7. Plan

1. `ResultIsOwn` with late answers: the exact number of dials for which the old
   answers cannot catch up, instead of the first one.
2. A composition of `Terminal` and `ModemStream` over one line, with the `~.`
   escape.
