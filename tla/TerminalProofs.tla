--------------------------- MODULE TerminalProofs ---------------------------
(***************************************************************************)
(* Theorems about Terminal for any lines, any length of the history and    *)
(* any number of submissions.                                              *)
(***************************************************************************)
EXTENDS Terminal, SequenceTheorems, TLAPS

-----------------------------------------------------------------------------
(* Sequences.                                                              *)

\* The last element of a sequence.
LEMMA LastType ==
    ASSUME NEW S, NEW s \in Seq(S), s # <<>>
    PROVE  Last(s) \in S /\ Len(s) \in Nat \ {0} /\ Last(s) = s[Len(s)]
<1>1. Len(s) \in Nat \ {0}
  BY EmptySeq
<1> QED BY <1>1, ElementOfSeq DEF Last

\* Moving the first of what is still to do behind what is done keeps both
\* together.
LEMMA MoveHead ==
    ASSUME NEW S, NEW r \in Seq(S), NEW u \in Seq(S), u # <<>>
    PROVE  Append(r, Head(u)) \o Tail(u) = r \o u
<1> DEFINE a == Append(r, Head(u))
<1> DEFINE v == Tail(u)
<1>1. Len(r) \in Nat /\ Len(u) \in Nat \ {0}
  BY EmptySeq, LenProperties
<1>2. /\ Head(u) \in S /\ Head(u) = u[1] /\ v \in Seq(S) /\ Len(v) = Len(u) - 1
      /\ \A i \in 1..Len(v) : v[i] = u[i + 1]
  BY <1>1, HeadTailProperties
<1>3. /\ a \in Seq(S) /\ Len(a) = Len(r) + 1 /\ a[Len(r) + 1] = u[1]
      /\ \A i \in 1..Len(r) : a[i] = r[i]
  BY <1>2, AppendProperties
<1> HIDE DEF a, v
<1>4. a \o v \in Seq(S) /\ r \o u \in Seq(S) /\ Len(a \o v) = Len(r \o u)
  <2>1. a \o v \in Seq(S) /\ Len(a \o v) = Len(a) + Len(v)
    BY <1>2, <1>3, ConcatProperties
  <2>2. r \o u \in Seq(S) /\ Len(r \o u) = Len(r) + Len(u)
    BY ConcatProperties
  <2> QED BY <2>1, <2>2, <1>1, <1>2, <1>3
<1>5. ASSUME NEW i \in 1..Len(a \o v) PROVE (a \o v)[i] = (r \o u)[i]
  <2>1. i \in 1..(Len(r) + Len(u))
    BY <1>1, <1>2, <1>3, ConcatProperties
  <2>2. (a \o v)[i] = IF i <= Len(r) + 1 THEN a[i] ELSE v[i - (Len(r) + 1)]
    BY <2>1, <1>1, <1>2, <1>3, ConcatProperties
  <2>3. (r \o u)[i] = IF i <= Len(r) THEN r[i] ELSE u[i - Len(r)]
    BY <2>1, <1>1, ConcatProperties
  <2>4. CASE i <= Len(r)
    BY <2>2, <2>3, <2>4, <1>1, <1>3
  <2>5. CASE i = Len(r) + 1
    BY <2>2, <2>3, <2>5, <1>1, <1>3
  <2>6. CASE i > Len(r) + 1
    <3>1. i - (Len(r) + 1) \in 1..Len(v) /\ (i - (Len(r) + 1)) + 1 = i - Len(r)
      BY <2>1, <2>6, <1>1, <1>2
    <3>2. v[i - (Len(r) + 1)] = u[i - Len(r)]
      BY <3>1, <1>2
    <3> QED BY <2>2, <2>3, <2>6, <3>2, <1>1
  <2> QED BY <2>1, <2>4, <2>5, <2>6, <1>1
<1> QED BY <1>4, <1>5, SeqEqual DEF a, v

\* What is done is a prefix of the whole.
LEMMA Prefix ==
    ASSUME NEW S, NEW r \in Seq(S), NEW u \in Seq(S)
    PROVE  r = SubSeq(r \o u, 1, Len(r))
<1>1. CASE r = <<>>
  BY <1>1, SubSeqEmpty, EmptySeq
<1>2. CASE r # <<>>
  <2>1. Len(r) \in Nat \ {0}
    BY <1>2, EmptySeq
  <2> QED BY <2>1, SubSeqOfConcat1, SubSeqFull
<1> QED BY <1>1, <1>2

-----------------------------------------------------------------------------
(* The types, and what they are typed on.                                  *)

\* What is to be remembered of a line keeps the history one, and clean.
LEMMA RememberedType ==
    ASSUME TypeOK, HistoryClean, NEW line \in Lines
    PROVE  LET h == Remembered(line)
           IN  /\ h \in Seq(Lines) /\ Len(h) <= MaxHistory
               /\ \A i \in 1..Len(h) : h[i] # Empty /\ (i > 1 => h[i] # h[i - 1])
<1> DEFINE Clean(h) == \A i \in 1..Len(h) : h[i] # Empty /\ (i > 1 => h[i] # h[i - 1])
<1>1. history \in Seq(Lines) /\ Len(history) \in Nat /\ Len(history) <= MaxHistory /\ MaxHistory \in Nat \ {0}
  BY TerminalAssumption, LenProperties DEF TypeOK
<1>2. Clean(history)
  BY DEF HistoryClean
<1>3. CASE line = Empty \/ (history # <<>> /\ Last(history) = line)
  BY <1>1, <1>2, <1>3 DEF Remembered
<1>4. CASE ~(line = Empty \/ (history # <<>> /\ Last(history) = line))
  <2>1. ASSUME NEW h \in Seq(Lines), Clean(h), Len(h) < MaxHistory, h # <<>> => h[Len(h)] # line
        PROVE  /\ Append(h, line) \in Seq(Lines) /\ Len(Append(h, line)) <= MaxHistory
               /\ Clean(Append(h, line))
    <3>1. Len(h) \in Nat /\ (Len(h) > 0 => h # <<>>)
      BY LenProperties, EmptySeq
    <3> DEFINE a == Append(h, line)
    <3>2. /\ a \in Seq(Lines) /\ Len(a) = Len(h) + 1 /\ a[Len(h) + 1] = line
          /\ \A i \in 1..Len(h) : a[i] = h[i]
      BY AppendProperties
    <3> HIDE DEF a
    <3>3. ASSUME NEW i \in 1..Len(a) PROVE a[i] # Empty /\ (i > 1 => a[i] # a[i - 1])
      <4>1. CASE i <= Len(h)
        BY <2>1, <3>1, <3>2, <4>1
      <4>2. CASE i = Len(h) + 1
        BY <1>4, <2>1, <3>1, <3>2, <4>2
      <4> QED BY <3>1, <3>2, <4>1, <4>2
    <3> QED BY <1>1, <2>1, <3>1, <3>2, <3>3 DEF a
  <2>2. CASE Len(history) = MaxHistory
    <3> DEFINE t == Tail(history)
    <3>1. history # <<>>
      BY <1>1, <2>2, EmptySeq
    <3>2. /\ t \in Seq(Lines) /\ Len(t) = Len(history) - 1
          /\ \A i \in 1..Len(t) : t[i] = history[i + 1]
      BY <1>1, <3>1, HeadTailProperties
    <3> HIDE DEF t
    <3>3. Clean(t)
      <4> SUFFICES ASSUME NEW i \in 1..Len(t) PROVE t[i] # Empty /\ (i > 1 => t[i] # t[i - 1])
        OBVIOUS
      <4>1. i + 1 \in 1..Len(history) /\ t[i] = history[i + 1]
        BY <1>1, <3>2
      <4>2. i > 1 => t[i - 1] = history[i]
        BY <1>1, <3>2
      <4>3. history[i + 1] # Empty /\ (i + 1 > 1 => history[i + 1] # history[(i + 1) - 1])
        BY <1>2, <4>1
      <4> QED BY <4>1, <4>2, <4>3, <1>1
    <3>4. t # <<>> => t[Len(t)] # line
      <4> SUFFICES ASSUME t # <<>> PROVE t[Len(t)] # line
        OBVIOUS
      <4>1. Len(t) \in Nat \ {0}
        BY <3>2, EmptySeq
      <4>2. t[Len(t)] = history[Len(history)]
        BY <1>1, <3>2, <4>1
      <4> QED BY <1>4, <3>1, <4>2 DEF Last
    <3>5. Remembered(line) = Append(t, line)
      BY <1>4, <2>2 DEF Remembered, t
    <3> QED BY <1>1, <2>1, <2>2, <3>2, <3>3, <3>4, <3>5
  <2>3. CASE Len(history) # MaxHistory
    <3>1. Remembered(line) = Append(history, line)
      BY <1>4, <2>3 DEF Remembered
    <3> QED BY <1>1, <1>2, <1>4, <2>1, <2>3, <3>1 DEF Last
  <2> QED BY <2>2, <2>3
<1> QED BY <1>3, <1>4

-----------------------------------------------------------------------------
(* The submissions.                                                        *)

\* The new submission is intact, and the others are left alone.
LEMMA SubmitKeeps ==
    ASSUME TypeOK, GroupsIntact, NEW lines \in Seq(Lines), Submit(lines)
    PROVE  /\ submitted' \in Seq(Seq(Lines))
           /\ unsent' \in Seq(Seq(Lines)) /\ Len(unsent') = Len(submitted')
           /\ received' \in Seq(Seq(Lines)) /\ Len(received') = Len(submitted')
           /\ GroupsIntact'
<1> DEFINE n == Len(submitted)
<1>1. n \in Nat /\ Len(unsent) = n /\ Len(received) = n /\ <<>> \in Seq(Lines)
  BY LenProperties, EmptySeq DEF TypeOK
<1>2. /\ submitted' \in Seq(Seq(Lines)) /\ Len(submitted') = n + 1 /\ submitted'[n + 1] = lines
      /\ \A i \in 1..n : submitted'[i] = submitted[i]
  BY AppendProperties DEF Submit, TypeOK
<1>3. /\ unsent' \in Seq(Seq(Lines)) /\ Len(unsent') = n + 1 /\ unsent'[n + 1] = lines
      /\ \A i \in 1..n : unsent'[i] = unsent[i]
  BY <1>1, AppendProperties DEF Submit, TypeOK
<1>4. /\ received' \in Seq(Seq(Lines)) /\ Len(received') = n + 1 /\ received'[n + 1] = <<>>
      /\ \A i \in 1..n : received'[i] = received[i]
  BY <1>1, AppendProperties DEF Submit, TypeOK
<1>5. down' = down
  BY DEF Submit
<1>6. received'[n + 1] \o unsent'[n + 1] = submitted'[n + 1]
  BY <1>2, <1>3, <1>4, ConcatEmptySeq
<1> HIDE DEF n
<1>7. ASSUME NEW id \in 1..(n + 1)
      PROVE  \/ received'[id] \o unsent'[id] = submitted'[id]
             \/ /\ down' /\ unsent'[id] = <<>>
                /\ received'[id] = SubSeq(submitted'[id], 1, Len(received'[id]))
  <2>1. CASE id = n + 1
    BY <1>6, <2>1
  <2>2. CASE id \in 1..n
    BY <1>2, <1>3, <1>4, <1>5, <2>2 DEF GroupsIntact, n
  <2>3. id = n + 1 \/ id \in 1..n
    BY <1>1
  <2> QED BY <2>1, <2>2, <2>3
<1>8. GroupsIntact'
  BY <1>2, <1>7 DEF GroupsIntact
<1> QED BY <1>2, <1>3, <1>4, <1>8

\* A writer moves a line from one end of its submission to the other.
LEMMA WriteKeeps ==
    ASSUME TypeOK, GroupsIntact, NEW id \in 1..Len(submitted), Write(id)
    PROVE  TypeOK' /\ GroupsIntact'
<1> DEFINE u == unsent[id]  r == received[id]
<1>1. u \in Seq(Lines) /\ r \in Seq(Lines) /\ u # <<>>
  BY ElementOfSeq DEF Write, TypeOK
<1>2. Head(u) \in Lines /\ Tail(u) \in Seq(Lines) /\ Append(r, Head(u)) \in Seq(Lines)
  BY <1>1, HeadTailProperties, AppendProperties
<1>3. unsent' = [unsent EXCEPT ![id] = Tail(u)] /\ received' = [received EXCEPT ![id] = Append(r, Head(u))]
  BY DEF Write
<1> HIDE DEF u, r
<1> DEFINE t == Tail(u)  a == Append(r, Head(u))
<1> HIDE DEF t, a
<1>3a. /\ unsent \in Seq(Seq(Lines)) /\ received \in Seq(Seq(Lines))
      /\ Len(unsent) = Len(submitted) /\ Len(received) = Len(submitted)
      /\ t \in Seq(Lines) /\ a \in Seq(Lines)
  BY <1>2 DEF TypeOK, t, a
<1>4. /\ unsent' \in Seq(Seq(Lines)) /\ Len(unsent') = Len(unsent)
      /\ \A i \in 1..Len(submitted) : unsent'[i] = IF i = id THEN t ELSE unsent[i]
  BY <1>3, <1>3a, ExceptSeq DEF t
<1>5. /\ received' \in Seq(Seq(Lines)) /\ Len(received') = Len(received)
      /\ \A i \in 1..Len(submitted) : received'[i] = IF i = id THEN a ELSE received[i]
  BY <1>3, <1>3a, ExceptSeq DEF a
<1>6. a \o t = r \o u
  BY <1>1, MoveHead DEF a, t
<1>7. TypeOK'
  BY <1>4, <1>5 DEF Write, keyVars, TypeOK
<1>8. GroupsIntact'
  <2>1. submitted' = submitted /\ down' = down /\ ~down
    BY DEF Write
  <2>2. r \o u = submitted[id]
    BY <1>1, <2>1 DEF GroupsIntact, u, r
  <2>3. \A i \in 1..Len(submitted) : received'[i] \o unsent'[i] = submitted[i]
    BY <1>4, <1>5, <1>6, <2>1, <2>2 DEF GroupsIntact
  <2> QED BY <2>1, <2>3 DEF GroupsIntact
<1> QED BY <1>7, <1>8

\* A writer that gives up leaves a prefix of its submission.
LEMMA WriteFailsKeeps ==
    ASSUME TypeOK, GroupsIntact, NEW id \in 1..Len(submitted), WriteFails(id)
    PROVE  TypeOK' /\ GroupsIntact'
<1>1. unsent[id] \in Seq(Lines) /\ received[id] \in Seq(Lines) /\ <<>> \in Seq(Lines)
  BY ElementOfSeq, EmptySeq DEF TypeOK
<1>2. /\ unsent' \in Seq(Seq(Lines)) /\ Len(unsent') = Len(unsent)
      /\ \A i \in 1..Len(submitted) : unsent'[i] = IF i = id THEN <<>> ELSE unsent[i]
  BY <1>1, ExceptSeq DEF TypeOK, WriteFails
<1>3. TypeOK'
  BY <1>2 DEF WriteFails, keyVars, TypeOK
<1>4. /\ submitted' = submitted /\ received' = received /\ down' /\ down
      /\ unsent[id] # <<>>
  BY DEF WriteFails
<1>5. received[id] = SubSeq(submitted[id], 1, Len(received[id]))
  BY <1>1, <1>4, Prefix DEF GroupsIntact
<1>6. GroupsIntact'
  BY <1>2, <1>4, <1>5 DEF GroupsIntact
<1> QED BY <1>3, <1>6

-----------------------------------------------------------------------------
(* The invariant and its steps.                                            *)

\* The four invariants together are inductive.
IInv == TypeOK /\ HistoryClean /\ NoLeftovers /\ GroupsIntact

\* A terminal that has just been opened satisfies it.
LEMMA InitInv == Init => IInv
<1> SUFFICES ASSUME Init PROVE IInv
  OBVIOUS
<1>1. TypeOK
  <2>1. <<>> \in Seq(Lines) /\ <<>> \in Seq(Seq(Lines)) /\ Len(<<>>) = 0
    BY EmptySeq
  <2>2. historyIdx \in -1..(Len(history) - 1) /\ Len(history) <= MaxHistory
    BY <2>1, TerminalAssumption DEF Init, NotBrowsing
  <2>3. {input, historyTmp} \subseteq Lines
    BY TerminalAssumption DEF Init
  <2> QED BY <2>1, <2>2, <2>3 DEF Init, TypeOK
<1>2. HistoryClean /\ NoLeftovers /\ GroupsIntact
  BY EmptySeq DEF Init, HistoryClean, NoLeftovers, GroupsIntact
<1> QED BY <1>1, <1>2 DEF IInv

\* IInv is kept by the keys that submit nothing.
LEMMA KeySteps ==
    ASSUME IInv, NEW line \in Lines,
           \/ Edit(line) \/ CtrlC \/ CtrlB \/ Esc \/ Up \/ Down
           \/ EnterEscape \/ EnterBatch
    PROVE  IInv'
<1> USE TerminalAssumption DEF IInv, Live, KeyOnly
<1>1. UNCHANGED <<history, down, submitted, unsent, received>>
  BY DEF Edit, CtrlC, CtrlB, Esc, Up, Down, EnterEscape, EnterBatch, HangUp, keyVars
<1>2. HistoryClean' /\ GroupsIntact'
  BY <1>1 DEF HistoryClean, GroupsIntact
<1>3. NoLeftovers'
  BY DEF Edit, CtrlC, CtrlB, Esc, Up, Down, EnterEscape, EnterBatch, HangUp, keyVars, NoLeftovers
<1>4. TypeOK'
  <2>1. CASE Edit(line) \/ CtrlC \/ EnterEscape
    BY <2>1 DEF Edit, CtrlC, EnterEscape, HangUp, keyVars, TypeOK
  <2>2. CASE CtrlB \/ Esc
    BY <2>2, EmptySeq DEF CtrlB, Esc, TypeOK
  <2>3. CASE EnterBatch
    BY <2>3, AppendProperties DEF EnterBatch, TypeOK
  <2>4. CASE Up
    <3>1. history # <<>> /\ Last(history) \in Lines /\ Len(history) \in Nat \ {0}
      BY <2>4, LastType DEF Up, TypeOK
    <3>2. historyIdx \in 1..(Len(history) - 1) => history[historyIdx] \in Lines
      BY <3>1, ElementOfSeq DEF TypeOK
    <3> QED BY <2>4, <3>1, <3>2 DEF Up, NotBrowsing, TypeOK
  <2>5. CASE Down
    <3>1. Len(history) \in Nat
      BY LenProperties DEF TypeOK
    <3>2. historyIdx + 1 < Len(history) /\ historyIdx \in Nat => history[historyIdx + 2] \in Lines
      BY <3>1, ElementOfSeq DEF TypeOK
    <3> QED BY <2>5, <3>1, <3>2 DEF Down, NotBrowsing, TypeOK
  <2> QED BY <2>1, <2>2, <2>3, <2>4, <2>5
<1> QED BY <1>2, <1>3, <1>4

\* IInv is kept by the keys that submit.
LEMMA SubmitSteps == ASSUME IInv, CtrlD \/ EnterLine PROVE IInv'
<1>1. TypeOK /\ HistoryClean /\ NoLeftovers /\ GroupsIntact
  BY DEF IInv
<1>2. CASE CtrlD
  <2>1. batchLines \in Seq(Lines) /\ Submit(batchLines)
    BY <1>1, <1>2 DEF CtrlD, TypeOK
  <2>2. /\ UNCHANGED <<input, prevWasEnter, history, historyIdx, historyTmp, cleaning, down, disconnects>>
        /\ batchMode' = FALSE /\ batchLines' = <<>>
    BY <1>2, <2>1 DEF CtrlD, Submit
  <2>3. TypeOK' /\ GroupsIntact'
    BY <1>1, <2>1, <2>2, SubmitKeeps, EmptySeq DEF TypeOK
  <2> QED BY <1>1, <2>2, <2>3 DEF IInv, HistoryClean, NoLeftovers
<1>3. CASE EnterLine
  <2>1. input \in Lines /\ <<input>> \in Seq(Lines) /\ Submit(<<input>>)
    BY <1>1, <1>3 DEF EnterLine, TypeOK
  <2>2. /\ UNCHANGED <<cleaning, down, disconnects, batchMode, batchLines>>
        /\ history' = Remembered(input) /\ input' = Empty /\ historyTmp' = Empty
        /\ historyIdx' = -1 /\ prevWasEnter' \in BOOLEAN
    BY <1>3, <2>1 DEF EnterLine, Submit, NotBrowsing
  <2>3. history' \in Seq(Lines) /\ Len(history') <= MaxHistory /\ HistoryClean'
    BY <1>1, <2>1, <2>2, RememberedType DEF HistoryClean
  <2>4. Len(history') \in Nat
    BY <2>3, LenProperties
  <2>5. /\ submitted' \in Seq(Seq(Lines))
        /\ unsent' \in Seq(Seq(Lines)) /\ Len(unsent') = Len(submitted')
        /\ received' \in Seq(Seq(Lines)) /\ Len(received') = Len(submitted')
        /\ GroupsIntact'
    BY <1>1, <2>1, SubmitKeeps
  <2>6. historyIdx' \in -1..(Len(history') - 1)
    BY <2>2, <2>4
  <2>7. TypeOK'
    BY <1>1, <2>2, <2>3, <2>5, <2>6, TerminalAssumption DEF TypeOK
  <2> QED BY <1>1, <2>2, <2>3, <2>5, <2>7 DEF IInv, NoLeftovers
<1> QED BY <1>2, <1>3

\* IInv is kept by the writers and by what happens to the line.
LEMMA LineSteps ==
    ASSUME IInv,
           \/ \E id \in Ids : Writer(id)
           \/ Disconnect \/ IgnoreDisconnect \/ LineDown
    PROVE  IInv'
<1>1. TypeOK /\ HistoryClean /\ NoLeftovers /\ GroupsIntact
  BY DEF IInv
<1>2. UNCHANGED keyVars
  BY DEF Writer, Write, WriteFails, Disconnect, IgnoreDisconnect, LineDown
<1>3. HistoryClean' /\ NoLeftovers'
  BY <1>1, <1>2 DEF HistoryClean, NoLeftovers, keyVars
<1>4. TypeOK' /\ GroupsIntact'
  <2>1. CASE \E id \in Ids : Writer(id)
    <3>1. PICK id \in 1..Len(submitted) : Write(id) \/ WriteFails(id)
      BY <2>1, <1>1, LenProperties DEF Ids, Writer, TypeOK
    <3> QED BY <3>1, <1>1, WriteKeeps, WriteFailsKeeps
  <2>2. CASE Disconnect \/ IgnoreDisconnect \/ LineDown
    <3>1. TypeOK'
      BY <1>1, <2>2 DEF Disconnect, IgnoreDisconnect, LineDown, Live, TypeOK, keyVars
    <3>2. UNCHANGED <<submitted, unsent, received>> /\ (down => down')
      BY <2>2 DEF Disconnect, IgnoreDisconnect, LineDown
    <3>3. GroupsIntact'
      BY <1>1, <3>2 DEF GroupsIntact
    <3> QED BY <3>1, <3>3
  <2> QED BY <2>1, <2>2
<1> QED BY <1>3, <1>4 DEF IInv

\* Every step keeps the invariant.
LEMMA NextStep == IInv /\ [Next]_vars => IInv'
<1> SUFFICES ASSUME IInv, [Next]_vars PROVE IInv'
  OBVIOUS
<1>1. CASE UNCHANGED vars
  BY <1>1 DEF vars, keyVars, IInv, TypeOK, HistoryClean, NoLeftovers, GroupsIntact
<1>2. CASE Key
  BY <1>2, KeySteps, SubmitSteps, TerminalAssumption DEF Key
<1> QED BY <1>1, <1>2, LineSteps DEF Next, Terminating

-----------------------------------------------------------------------------
(* The theorems.                                                           *)

\* IInv holds throughout every run.
THEOREM Invariance == Spec => []IInv
BY InitInv, NextStep, PTL DEF Spec

\* Every variable keeps its type, and browsing never indexes outside of the
\* history, for a history of any length.
THEOREM TypeCorrect == Spec => []TypeOK
<1>1. IInv => TypeOK
  BY DEF IInv
<1> QED BY <1>1, Invariance, PTL

\* The history has no empty lines and no repetitions, however long it is and
\* wherever it is cut.
THEOREM HistoryCleanHolds == Spec => []HistoryClean
<1>1. IInv => HistoryClean
  BY DEF IInv
<1> QED BY <1>1, Invariance, PTL

\* No line of a batch that was cancelled or sent waits for the next batch.
THEOREM NoLeftoversHolds == Spec => []NoLeftovers
<1>1. IInv => NoLeftovers
  BY DEF IInv
<1> QED BY <1>1, Invariance, PTL

\* Each of any number of submissions arrives in its own order and whole,
\* unless the line goes down, in which case a prefix of it has arrived.
THEOREM GroupsIntactHolds == Spec => []GroupsIntact
<1>1. IInv => GroupsIntact
  BY DEF IInv
<1> QED BY <1>1, Invariance, PTL
=============================================================================
