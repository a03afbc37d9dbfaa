------------------------------ MODULE Terminal ------------------------------
(***************************************************************************)
(* The keyboard side of a connected terminal (tui.ConnectedModel): the     *)
(* input line, the history, batch mode, the ~. escape, and the goroutines  *)
(* that write what was entered to the line.  Every Enter in line mode, and *)
(* every ctrl+d of a batch, is one submission and one goroutine; nothing   *)
(* orders the goroutines among each other.                                 *)
(*                                                                         *)
(* Text is abstracted to a few whole lines: typing, backspace and ctrl+u   *)
(* turn the input into any other line.                                     *)
(***************************************************************************)
EXTENDS Integers, SequencesExt

CONSTANTS
    Lines,          \* the lines that can be typed
    Empty,          \* the empty line
    Escape,         \* "~."
    MaxHistory,     \* 100 in the code
    MaxLines        \* bound on the lines submitted and collected

ASSUME TerminalAssumption ==
    /\ {Empty, Escape} \subseteq Lines
    /\ Empty # Escape
    /\ MaxHistory \in Nat \ {0}
    /\ MaxLines \in Nat

Ids == 1..MaxLines

VARIABLES
    input, prevWasEnter,
    history, historyIdx, historyTmp,
    batchMode, batchLines,
    cleaning,     \* ConnectedModel.cleaning
    down,         \* writes on the line fail
    disconnects,  \* a modemDisconnectMsg of a writer is on its way
    submitted,    \* the submissions, each a sequence of lines
    unsent,       \* of each submission, what its goroutine has still to write
    received      \* and what the remote has received of it

keyVars  == <<input, prevWasEnter, history, historyIdx, historyTmp, batchMode,
              batchLines>>
vars     == <<keyVars, cleaning, down, received, disconnects, submitted,
              unsent>>

-----------------------------------------------------------------------------

NotBrowsing == -1

Init ==
    /\ input = Empty
    /\ prevWasEnter = FALSE
    /\ history = <<>>
    /\ historyIdx = NotBrowsing
    /\ historyTmp = Empty
    /\ batchMode = FALSE
    /\ batchLines = <<>>
    /\ cleaning = FALSE
    /\ down = FALSE
    /\ disconnects = FALSE
    /\ submitted = <<>>
    /\ unsent = <<>>
    /\ received = <<>>

Live == ~cleaning

\* A key that only changes the input line and what surrounds it.
KeyOnly == UNCHANGED <<cleaning, down, received, disconnects, submitted,
                       unsent>>

\* sendLine and sendBatch start a goroutine with lines of their own.
Submit(lines) ==
    /\ submitted' = Append(submitted, lines)
    /\ unsent' = Append(unsent, lines)
    /\ received' = Append(received, <<>>)
    /\ UNCHANGED <<cleaning, down, disconnects>>

\* cleaning is set and the cleanup starts: from here on only its end counts.
HangUp ==
    /\ cleaning' = TRUE
    /\ UNCHANGED <<keyVars, down, received, disconnects, submitted, unsent>>

-----------------------------------------------------------------------------
(* Seeded faults.  Each is the definition it is named after with a         *)
(* plausible mistake in it.                                                *)

\* ctrl+b leaves the collected lines where they are.
CtrlB_KeepsLines ==
    /\ Live
    /\ batchMode' = ~batchMode
    /\ UNCHANGED <<input, prevWasEnter, history, historyIdx, historyTmp,
                   batchLines>>
    /\ KeyOnly

\* The end of the history is noticed one step too late.
Down_TooFar ==
    /\ Live
    /\ history # <<>> /\ historyIdx # NotBrowsing
    /\ IF historyIdx + 1 > Len(history)
       THEN input' = historyTmp /\ historyIdx' = NotBrowsing
       ELSE /\ historyIdx' = historyIdx + 1
            /\ input' = IF historyIdx' < Len(history)
                        THEN history[historyIdx' + 1] ELSE input
    /\ UNCHANGED <<prevWasEnter, history, historyTmp, batchMode, batchLines>>
    /\ KeyOnly

\* A line that is entered twice is remembered twice.
Remembered_Twice(line) ==
    IF line = Empty THEN history
    ELSE IF Len(history) = MaxHistory THEN Append(Tail(history), line)
    ELSE Append(history, line)

\* The lines of a batch are written from the last to the first.
Write_Backwards(id) ==
    /\ unsent[id] # <<>>
    /\ ~down
    /\ received' = [received EXCEPT ![id] = Append(@, Last(unsent[id]))]
    /\ unsent' = [unsent EXCEPT ![id] = Front(@)]
    /\ UNCHANGED <<keyVars, cleaning, down, disconnects, submitted>>

\* The goroutine returns after the first line it has written.
Write_ReturnsEarly(id) ==
    /\ unsent[id] # <<>>
    /\ ~down
    /\ received' = [received EXCEPT ![id] = Append(@, Head(unsent[id]))]
    /\ unsent' = [unsent EXCEPT ![id] = <<>>]
    /\ UNCHANGED <<keyVars, cleaning, down, disconnects, submitted>>

-----------------------------------------------------------------------------
(* Keys.                                                                   *)

\* Printable keys, backspace and ctrl+u.
Edit(line) ==
    /\ Live
    /\ line # input
    /\ input' = line
    /\ UNCHANGED <<prevWasEnter, history, historyIdx, historyTmp, batchMode,
                   batchLines>>
    /\ KeyOnly

CtrlC == Live /\ HangUp

\* Leaving batch mode discards what was collected.
CtrlB ==
    /\ Live
    /\ batchMode' = ~batchMode
    /\ batchLines' = IF batchMode THEN <<>> ELSE batchLines
    /\ UNCHANGED <<input, prevWasEnter, history, historyIdx, historyTmp>>
    /\ KeyOnly

Esc ==
    /\ Live /\ batchMode
    /\ batchMode' = FALSE
    /\ batchLines' = <<>>
    /\ UNCHANGED <<input, prevWasEnter, history, historyIdx, historyTmp>>
    /\ KeyOnly

CtrlD ==
    /\ Live /\ batchMode /\ batchLines # <<>>
    /\ Submit(batchLines)
    /\ batchMode' = FALSE
    /\ batchLines' = <<>>
    /\ UNCHANGED <<input, prevWasEnter, history, historyIdx, historyTmp>>

\* navigateHistory(-1); the code counts the history from 0.
Up ==
    /\ Live
    /\ history # <<>>
    /\ IF historyIdx = NotBrowsing
       THEN /\ historyTmp' = input
            /\ historyIdx' = Len(history) - 1
            /\ input' = Last(history)
       ELSE /\ UNCHANGED historyTmp
            /\ IF historyIdx = 0
               THEN UNCHANGED <<historyIdx, input>>
               ELSE /\ historyIdx' = historyIdx - 1
                    /\ input' = history[historyIdx]
    /\ UNCHANGED <<prevWasEnter, history, batchMode, batchLines>>
    /\ KeyOnly

\* navigateHistory(1)
Down ==
    /\ Live
    /\ history # <<>> /\ historyIdx # NotBrowsing
    /\ IF historyIdx + 1 >= Len(history)
       THEN input' = historyTmp /\ historyIdx' = NotBrowsing
       ELSE /\ historyIdx' = historyIdx + 1
            /\ input' = history[historyIdx + 2]
    /\ UNCHANGED <<prevWasEnter, history, historyTmp, batchMode, batchLines>>
    /\ KeyOnly

-----------------------------------------------------------------------------
(* handleEnter                                                             *)

\* The bound on the lines.
MoreLines == Len(FlattenSeq(Append(submitted, batchLines))) < MaxLines

EscapeNow == prevWasEnter /\ input = Escape

EnterEscape == Live /\ EscapeNow /\ HangUp

EnterBatch ==
    /\ Live /\ batchMode /\ ~EscapeNow
    /\ MoreLines
    /\ batchLines' = Append(batchLines, input)
    /\ input' = Empty
    /\ prevWasEnter' = TRUE
    /\ UNCHANGED <<history, historyIdx, historyTmp, batchMode>>
    /\ KeyOnly

\* The history without empty lines and repetitions, cut at its oldest end.
Remembered(line) ==
    IF line = Empty \/ (history # <<>> /\ Last(history) = line)
    THEN history
    ELSE IF Len(history) = MaxHistory THEN Append(Tail(history), line)
    ELSE Append(history, line)

EnterLine ==
    /\ Live /\ ~batchMode /\ ~EscapeNow
    /\ MoreLines
    /\ Submit(<<input>>)
    /\ history' = Remembered(input)
    /\ input' = Empty
    /\ historyIdx' = NotBrowsing
    /\ historyTmp' = Empty
    /\ prevWasEnter' = (input = Empty)
    /\ UNCHANGED <<batchMode, batchLines>>

-----------------------------------------------------------------------------
(* The writers and the line.                                               *)

\* A goroutine of sendLine or sendBatch writes its next line.
Write(id) ==
    /\ unsent[id] # <<>>
    /\ ~down
    /\ received' = [received EXCEPT ![id] = Append(@, Head(unsent[id]))]
    /\ unsent' = [unsent EXCEPT ![id] = Tail(@)]
    /\ UNCHANGED <<keyVars, cleaning, down, disconnects, submitted>>

\* The write fails: the goroutine gives the rest up and reports it.
WriteFails(id) ==
    /\ unsent[id] # <<>>
    /\ down
    /\ unsent' = [unsent EXCEPT ![id] = <<>>]
    /\ disconnects' = TRUE
    /\ UNCHANGED <<keyVars, cleaning, down, received, submitted>>

\* modemDisconnectMsg, from a writer or from the reader.
Disconnect ==
    /\ Live
    /\ disconnects \/ down
    /\ cleaning' = TRUE
    /\ disconnects' = FALSE
    /\ UNCHANGED <<keyVars, down, received, submitted, unsent>>

\* The same message once the terminal is cleaning up.
IgnoreDisconnect ==
    /\ ~Live
    /\ disconnects
    /\ disconnects' = FALSE
    /\ UNCHANGED <<keyVars, cleaning, down, received, submitted, unsent>>

\* The device disappears, or the cleanup closes it.
LineDown ==
    /\ ~down
    /\ down' = TRUE
    /\ UNCHANGED <<keyVars, cleaning, received, disconnects, submitted,
                   unsent>>

-----------------------------------------------------------------------------

Key ==
    \/ \E line \in Lines : Edit(line)
    \/ CtrlC \/ CtrlB \/ CtrlD \/ Esc \/ Up \/ Down
    \/ EnterEscape \/ EnterBatch \/ EnterLine

\* The terminal is closed and its goroutines are through.
Terminating ==
    /\ cleaning /\ down /\ ~disconnects
    /\ \A id \in 1..Len(submitted) : unsent[id] = <<>>
    /\ UNCHANGED vars

Writer(id) == id <= Len(submitted) /\ (Write(id) \/ WriteFails(id))

Next ==
    \/ Key
    \/ \E id \in Ids : Writer(id)
    \/ Disconnect \/ IgnoreDisconnect \/ LineDown
    \/ Terminating

\* Goroutines run; nobody has to press a key.
Spec ==
    /\ Init /\ [][Next]_vars
    /\ \A id \in Ids : WF_vars(Writer(id))

-----------------------------------------------------------------------------
(* Properties.                                                             *)

\* The types; and browsing never leaves the history, however it is cut,
\* extended or left behind in batch mode: history[historyIdx] does not panic.
TypeOK ==
    /\ {input, historyTmp} \subseteq Lines
    /\ {prevWasEnter, batchMode, cleaning, down, disconnects}
           \subseteq BOOLEAN
    /\ history \in Seq(Lines) /\ Len(history) <= MaxHistory
    /\ batchLines \in Seq(Lines)
    /\ historyIdx \in -1..(Len(history) - 1)
    /\ submitted \in Seq(Seq(Lines))
    /\ unsent \in Seq(Seq(Lines)) /\ Len(unsent) = Len(submitted)
    /\ received \in Seq(Seq(Lines)) /\ Len(received) = Len(submitted)

\* The history has no empty lines and no line twice in a row.
HistoryClean ==
    \A i \in 1..Len(history) :
        /\ history[i] # Empty
        /\ i > 1 => history[i] # history[i - 1]

\* A batch that was cancelled or sent is gone: none of its lines is left to
\* be sent with the next one.
NoLeftovers == ~batchMode => batchLines = <<>>

\* Whatever the order in which the goroutines of the submissions write, each
\* submission arrives in its own order, every line once, and nothing of it is
\* lost unless the line is down.
GroupsIntact ==
    \A id \in 1..Len(submitted) :
        \/ received[id] \o unsent[id] = submitted[id]
        \/ /\ down /\ unsent[id] = <<>>
           /\ received[id] = SubSeq(submitted[id], 1, Len(received[id]))

\* Everything that is submitted is received, unless the line is down.
SubmissionsArrive ==
    \A id \in Ids :
        id <= Len(submitted) ~>
            down \/ (id <= Len(submitted) /\ received[id] = submitted[id])
=============================================================================
