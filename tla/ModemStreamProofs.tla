-------------------------- MODULE ModemStreamProofs --------------------------
(***************************************************************************)
(* Theorems about ModemStream for any capacity of the channel, any number  *)
(* of chunks and any bound on the wake-ups.                                *)
(*                                                                         *)
(* NothingLostOnTheWay is inductive only together with ReaderInv: a        *)
(* message would be lost if the reader could put a second one over it, and *)
(* a chunk if the hangup could read from the line of a live terminal.      *)
(***************************************************************************)
EXTENDS ModemStream, SequenceTheorems, TLAPS

-----------------------------------------------------------------------------
(* Sequences.                                                              *)

\* A sequence is its head and its tail.
LEMMA HeadAndTail ==
    ASSUME NEW S, NEW s \in Seq(S), s # <<>>
    PROVE  /\ Head(s) \in S /\ <<Head(s)>> \in Seq(S) /\ Tail(s) \in Seq(S)
           /\ Len(Tail(s)) = Len(s) - 1
           /\ <<Head(s)>> \o Tail(s) = s
<1> DEFINE h == <<Head(s)>>  t == Tail(s)
<1>1. Len(s) \in Nat \ {0}
  BY EmptySeq
<1>2. /\ Head(s) \in S /\ Head(s) = s[1] /\ t \in Seq(S) /\ Len(t) = Len(s) - 1
      /\ \A i \in 1..Len(t) : t[i] = s[i + 1]
  BY HeadTailProperties
<1>3. h \in Seq(S) /\ Len(h) = 1 /\ h[1] = s[1]
  BY <1>2
<1> HIDE DEF h, t
<1>4. /\ h \o t \in Seq(S) /\ Len(h \o t) = Len(s)
      /\ \A i \in 1..(1 + Len(t)) : (h \o t)[i] = IF i <= 1 THEN h[i] ELSE t[i - 1]
  <2>1. /\ h \o t \in Seq(S) /\ Len(h \o t) = Len(h) + Len(t)
        /\ \A i \in 1..(Len(h) + Len(t)) :
              (h \o t)[i] = IF i <= Len(h) THEN h[i] ELSE t[i - Len(h)]
    <3>1. h \in Seq(S) /\ t \in Seq(S)
      BY <1>2, <1>3
    <3> QED BY <3>1, ConcatProperties
  <2> QED BY <2>1, <1>1, <1>2, <1>3
<1>5. ASSUME NEW i \in 1..Len(h \o t) PROVE (h \o t)[i] = s[i]
  <2>1. CASE i = 1
    BY <1>1, <1>2, <1>3, <1>4, <2>1
  <2>2. CASE i > 1
    <3>1. i - 1 \in 1..Len(t) /\ (i - 1) + 1 = i
      BY <1>1, <1>2, <1>4, <2>2
    <3> QED BY <1>1, <1>2, <1>4, <2>2, <3>1
  <2> QED BY <1>1, <1>4, <2>1, <2>2
<1> QED BY <1>2, <1>3, <1>4, <1>5, SeqEqual DEF h, t

\* The head of what is behind may as well stand at the end of what is before.
LEMMA MoveHead ==
    ASSUME NEW S, NEW p \in Seq(S), NEW s \in Seq(S), s # <<>>
    PROVE  (p \o <<Head(s)>>) \o Tail(s) = p \o s
<1>1. <<Head(s)>> \in Seq(S) /\ Tail(s) \in Seq(S) /\ <<Head(s)>> \o Tail(s) = s
  BY HeadAndTail
<1> QED BY <1>1, ConcatAssociative

\* The chunks up to one more.
LEMMA OneMore ==
    ASSUME NEW n \in Nat
    PROVE  /\ [i \in 1..n |-> i] \in Seq(Nat)
           /\ [i \in 1..n |-> i] \o <<n + 1>> = [i \in 1..(n + 1) |-> i]
<1> DEFINE s == [i \in 1..n |-> i]  t == [i \in 1..(n + 1) |-> i]
<1>1. s \in Seq(Nat) /\ t \in Seq(Nat) /\ Len(s) = n /\ Len(t) = n + 1
  OBVIOUS
<1>2. \A i \in 1..n : s[i] = i
  OBVIOUS
<1>3. \A i \in 1..(n + 1) : t[i] = i
  OBVIOUS
<1> HIDE DEF s, t
<1>4. /\ Append(s, n + 1) \in Seq(Nat) /\ Len(Append(s, n + 1)) = n + 1
      /\ \A i \in 1..n : Append(s, n + 1)[i] = s[i]
      /\ Append(s, n + 1)[n + 1] = n + 1
  BY <1>1, AppendProperties
<1>5. Append(s, n + 1) = t
  BY <1>1, <1>2, <1>3, <1>4, SeqEqual
<1> QED BY <1>1, <1>5, AppendIsConcat DEF s, t

-----------------------------------------------------------------------------
(* The invariant.                                                          *)

\* Nobody reads while a message is on its way, and nobody hangs up while the
\* terminal is live.
ReaderInv ==
    /\ msgs # <<>> => reader = "idle"
    /\ ~cleaning => cleanup = "none"

\* With it the two invariants are inductive.
IInv == TypeOK /\ ReaderInv /\ NothingLostOnTheWay

\* What of the message is data.
Carried == IF msgs = <<Disconnect>> THEN <<>> ELSE msgs

\* A terminal that has just been opened satisfies it.
LEMMA InitInv == Init => IInv
<1> SUFFICES ASSUME Init PROVE IInv
  OBVIOUS
<1>1. <<>> \in Seq(1..MaxChunks) /\ <<>> \in Seq(0..MaxChunks) /\ Len(<<>>) = 0
  BY EmptySeq
<1>2. TypeOK
  <2>1. tty = <<>> /\ held = <<>> /\ dataCh = <<>> /\ msgs = <<>> /\ log = <<>>
    BY DEF Init
  <2>2. Len(held) <= 1 /\ Len(dataCh) <= Capacity /\ Len(msgs) <= 1
    BY <1>1, <2>1, StreamAssumption
  <2>3. sent \in 0..MaxChunks /\ waking \in 0..MaxWakes
    BY StreamAssumption DEF Init
  <2> QED BY <1>1, <2>1, <2>2, <2>3 DEF Init, TypeOK
<1>3. NothingLostOnTheWay
  <2>1. [i \in 1..0 |-> i] = <<>>
    OBVIOUS
  <2>2. log \o Carried \o dataCh \o held \o tty = <<>>
    BY ConcatEmptySeq, EmptySeq DEF Init, Carried
  <2> QED BY <2>1, <2>2 DEF Init, NothingLostOnTheWay, Carried
<1>4. ReaderInv
  BY DEF Init, ReaderInv
<1> QED BY <1>2, <1>3, <1>4 DEF IInv

\* The types as sequences of numbers.
LEMMA Chunks ==
    ASSUME TypeOK
    PROVE  /\ log \in Seq(Nat) /\ Carried \in Seq(Nat) /\ dataCh \in Seq(Nat)
           /\ held \in Seq(Nat) /\ tty \in Seq(Nat) /\ msgs \in Seq(Nat)
<1>1. 0..MaxChunks \subseteq Nat /\ 1..MaxChunks \subseteq Nat
  OBVIOUS
<1>2. Seq(0..MaxChunks) \subseteq Seq(Nat) /\ Seq(1..MaxChunks) \subseteq Seq(Nat)
  BY <1>1, SeqMonotonic
<1> QED BY <1>2, EmptySeq DEF TypeOK, Carried

-----------------------------------------------------------------------------
(* Every step keeps the types.                                             *)

\* What happens to the line and in readLoop keeps the types.
LEMMA LoopTypes ==
    ASSUME TypeOK, Send \/ Disappear \/ Loop
    PROVE  TypeOK'
<1> USE StreamAssumption DEF lineVars, loopVars, termVars, wakeVars
<1>1. CASE Send
  <2>1. sent + 1 \in 1..MaxChunks
    BY <1>1 DEF Send, TypeOK
  <2>2. Append(tty, sent + 1) \in Seq(1..MaxChunks)
    BY <2>1, AppendProperties DEF TypeOK
  <2> QED BY <1>1, <2>1, <2>2 DEF Send, TypeOK
<1>2. CASE Disappear
  BY <1>2 DEF Disappear, TypeOK
<1>3. CASE LoopRead
  <2>1. /\ <<Head(tty)>> \in Seq(1..MaxChunks) /\ <<Head(tty)>> # <<>>
        /\ Tail(tty) \in Seq(1..MaxChunks)
    BY <1>3, HeadAndTail DEF LoopRead, TypeOK
  <2> QED BY <1>3, <2>1 DEF LoopRead, TypeOK
<1>4. CASE LoopReadErr \/ LoopErr
  BY <1>4 DEF LoopReadErr, LoopErr, TypeOK
<1>5. CASE LoopPush
  <2>0. Len(held) <= 1
    BY DEF TypeOK
  <2>1. dataCh \o held \in Seq(1..MaxChunks) /\ Len(dataCh \o held) = Len(dataCh) + Len(held)
    BY ConcatProperties DEF TypeOK
  <2>2. Len(dataCh \o held) <= Capacity
    BY <1>5, <2>0, <2>1, LenProperties DEF LoopPush, TypeOK
  <2>3. <<>> \in Seq(1..MaxChunks)
    BY EmptySeq
  <2> QED BY <1>5, <2>1, <2>2, <2>3 DEF LoopPush, TypeOK
<1> QED BY <1>1, <1>2, <1>3, <1>4, <1>5 DEF Loop

\* The reader, the terminal, its cleanup and the wake-ups keep the types.
LEMMA TerminalTypes ==
    ASSUME TypeOK, Reader \/ Update \/ HangUpKey \/ HangupReads \/ Cleanup \/ WakeTick \/ Wake
    PROVE  TypeOK'
<1> USE StreamAssumption DEF lineVars, loopVars, termVars, wakeVars
<1>0. <<>> \in Seq(0..MaxChunks) /\ Len(<<>>) = 0
  BY EmptySeq
<1>1. CASE ReadData
  <2>1. /\ Head(dataCh) \in 1..MaxChunks /\ Tail(dataCh) \in Seq(1..MaxChunks)
        /\ Len(Tail(dataCh)) = Len(dataCh) - 1
    BY <1>1, HeadAndTail DEF ReadData, TypeOK
  <2>2. <<Head(dataCh)>> \in Seq(0..MaxChunks) /\ Len(<<Head(dataCh)>>) = 1
    BY <2>1
  <2>3. Len(Tail(dataCh)) <= Capacity
    BY <2>1, LenProperties DEF TypeOK
  <2> QED BY <1>1, <2>1, <2>2, <2>3 DEF ReadData, TypeOK
<1>2. CASE ReadErr
  <2>1. <<Disconnect>> \in Seq(0..MaxChunks) /\ Len(<<Disconnect>>) = 1
    BY DEF Disconnect
  <2>2. msgs' \in Seq(0..MaxChunks) /\ Len(msgs') <= 1
    BY <1>2, <2>1 DEF ReadErr
  <2> QED BY <1>2, <2>2 DEF ReadErr, TypeOK
<1>3. CASE OnData
  <2>1. msgs # <<>> /\ msgs # <<Disconnect>> /\ msgs \in Seq(0..MaxChunks) /\ Len(msgs) <= 1
    BY <1>3 DEF OnData, TypeOK
  <2>2. /\ Head(msgs) \in 0..MaxChunks /\ <<Head(msgs)>> \o Tail(msgs) = msgs
        /\ Tail(msgs) \in Seq(0..MaxChunks) /\ Len(Tail(msgs)) = Len(msgs) - 1
        /\ <<Head(msgs)>> \in Seq(0..MaxChunks)
    BY <2>1, HeadAndTail
  <2>3. msgs \in Seq(1..MaxChunks)
    <3>1. Len(Tail(msgs)) \in Nat /\ Len(msgs) \in Nat
      BY <2>1, <2>2, LenProperties
    <3>2. Tail(msgs) = <<>>
      BY <2>1, <2>2, <3>1, EmptySeq
    <3>3. msgs = <<Head(msgs)>>
      BY <2>2, <3>2, ConcatEmptySeq
    <3>4. Head(msgs) # 0
      BY <2>1, <3>3 DEF Disconnect
    <3>5. <<Head(msgs)>> \in Seq(1..MaxChunks)
      BY <2>2, <3>4
    <3> QED BY <3>3, <3>5
  <2>4. log \o msgs \in Seq(1..MaxChunks)
    BY <2>3, ConcatProperties DEF TypeOK
  <2> QED BY <1>0, <1>3, <2>4 DEF OnData, TypeOK
<1>4. CASE OnDisconnect \/ Ignore \/ HangUpKey
  <2>1. UNCHANGED <<sent, tty, gone, closed, loop, held, dataCh, errCh, reader, log, gotData, tick, waking>>
    BY <1>4 DEF OnDisconnect, Ignore, HangUpKey
  <2>2. msgs' \in {msgs, <<>>} /\ cleaning' \in BOOLEAN /\ carrierLost' \in BOOLEAN
    BY <1>4 DEF OnDisconnect, Ignore, HangUpKey, TypeOK
  <2>3. cleanup' \in {"none", "hangup", "close", "done"}
    BY <1>4 DEF OnDisconnect, Ignore, HangUpKey, TypeOK
  <2>4. msgs' \in Seq(0..MaxChunks) /\ Len(msgs') <= 1
    <3>1. msgs \in Seq(0..MaxChunks) /\ Len(msgs) <= 1
      BY DEF TypeOK
    <3>2. CASE msgs' = msgs
      BY <3>1, <3>2
    <3>3. CASE msgs' = <<>>
      BY <1>0, <3>3
    <3> QED BY <2>2, <3>2, <3>3
  <2> QED BY <2>1, <2>2, <2>3, <2>4 DEF TypeOK
<1>5. CASE HangupReads
  <2>1. Tail(tty) \in Seq(1..MaxChunks)
    BY <1>5, HeadAndTail DEF HangupReads, TypeOK
  <2> QED BY <1>5, <2>1 DEF HangupReads, TypeOK
<1>6. CASE Cleanup \/ WakeTick \/ Wake
  <2>1. UNCHANGED <<sent, tty, gone, loop, held, dataCh, errCh, reader, msgs, log, cleaning, carrierLost, gotData>>
    BY <1>6 DEF Cleanup, HangupEnds, CloseModem, WakeTick, Wake
  <2>2. closed' \in BOOLEAN /\ tick' \in BOOLEAN
    BY <1>6 DEF Cleanup, HangupEnds, CloseModem, WakeTick, Wake, TypeOK
  <2>3. cleanup' \in {"none", "hangup", "close", "done"}
    BY <1>6 DEF Cleanup, HangupEnds, CloseModem, WakeTick, Wake, TypeOK
  <2>4. waking' \in 0..MaxWakes
    BY <1>6 DEF Cleanup, HangupEnds, CloseModem, WakeTick, Wake, TypeOK
  <2> QED BY <2>1, <2>2, <2>3, <2>4 DEF TypeOK
<1> QED BY <1>1, <1>2, <1>3, <1>4, <1>5, <1>6 DEF Reader, Update

-----------------------------------------------------------------------------
(* No step loses, repeats or reorders a chunk.                             *)

\* What has been said and is not lost, in order.
Way == log \o Carried \o dataCh \o held \o tty

\* The remote's next chunk comes last.
LEMMA SendKeeps ==
    ASSUME TypeOK, NothingLostOnTheWay, Send
    PROVE  NothingLostOnTheWay'
<1> SUFFICES ASSUME ~cleaning' PROVE Way' = [i \in 1..sent' |-> i]
  BY DEF NothingLostOnTheWay, Way, Carried
<1> DEFINE p == log \o Carried \o dataCh \o held
<1>1. p \in Seq(Nat) /\ tty \in Seq(Nat) /\ sent \in Nat
  BY Chunks, ConcatProperties DEF TypeOK
<1>2. p' = p /\ tty' = Append(tty, sent + 1) /\ sent' = sent + 1 /\ ~cleaning
  BY DEF Send, loopVars, termVars, Carried
<1>3. p \o tty = [i \in 1..sent |-> i]
  BY <1>2 DEF NothingLostOnTheWay, Carried
<1>4. Way' = p' \o tty'
  BY DEF Way
<1> HIDE DEF p
<1>5. tty' = tty \o <<sent + 1>> /\ <<sent + 1>> \in Seq(Nat)
  BY <1>1, <1>2, AppendIsConcat
<1>6. p \o (tty \o <<sent + 1>>) = (p \o tty) \o <<sent + 1>>
  BY <1>1, <1>5, ConcatAssociative
<1> QED BY <1>1, <1>2, <1>3, <1>4, <1>5, <1>6, OneMore

\* readLoop passes the chunks on as they come.
LEMMA LoopKeeps ==
    ASSUME TypeOK, LoopRead \/ LoopPush
    PROVE  Way' = Way /\ sent' = sent /\ cleaning' = cleaning
<1> USE Chunks
<1>1. CASE LoopRead
  <2> DEFINE p == log \o Carried \o dataCh
  <2>1. p \in Seq(Nat) /\ held = <<>> /\ tty # <<>>
    BY <1>1, ConcatProperties DEF LoopRead, TypeOK
  <2>2. p' = p /\ held' = <<Head(tty)>> /\ tty' = Tail(tty) /\ sent' = sent /\ cleaning' = cleaning
    BY <1>1 DEF LoopRead, termVars, Carried
  <2>3. Way = (p \o held) \o tty /\ Way' = (p' \o held') \o tty'
    BY DEF Way
  <2> HIDE DEF p
  <2>4. (p \o <<Head(tty)>>) \o Tail(tty) = p \o tty
    BY <2>1, MoveHead
  <2>5. p \o held = p
    BY <2>1, ConcatEmptySeq
  <2> QED BY <2>2, <2>3, <2>4, <2>5
<1>2. CASE LoopPush
  <2> DEFINE p == log \o Carried
  <2>1. p \in Seq(Nat)
    BY ConcatProperties
  <2>2. p' = p /\ dataCh' = dataCh \o held /\ held' = <<>> /\ tty' = tty /\ sent' = sent /\ cleaning' = cleaning
    BY <1>2 DEF LoopPush, lineVars, termVars, Carried
  <2>3. Way = ((p \o dataCh) \o held) \o tty /\ Way' = ((p' \o dataCh') \o held') \o tty'
    BY DEF Way
  <2> HIDE DEF p
  <2>4. dataCh \o held \in Seq(Nat) /\ p \o (dataCh \o held) \in Seq(Nat)
    BY <2>1, ConcatProperties
  <2>5. (p \o dataCh) \o held = p \o (dataCh \o held)
    <3>1. dataCh \in Seq(Nat) /\ held \in Seq(Nat)
      OBVIOUS
    <3> QED BY ONLY <2>1, <3>1, ConcatAssociative
  <2>6. (p \o (dataCh \o held)) \o <<>> = p \o (dataCh \o held)
    BY <2>4, ConcatEmptySeq
  <2> QED BY <2>2, <2>3, <2>5, <2>6
<1> QED BY <1>1, <1>2

\* The reader and the event loop pass them on to the log.
LEMMA ReaderKeeps ==
    ASSUME TypeOK, ReaderInv, Reader \/ OnData
    PROVE  Way' = Way /\ sent' = sent /\ cleaning' = cleaning
<1> USE Chunks
<1>1. CASE ReadData
  <2>1. dataCh # <<>> /\ Carried = <<>> /\ log \in Seq(Nat)
    BY <1>1 DEF ReadData, ReaderInv, Carried
  <2>2. Head(dataCh) \in 1..MaxChunks
    BY <2>1, HeadAndTail DEF TypeOK
  <2>3. Carried' = <<Head(dataCh)>>
    <3>1. msgs' = <<Head(dataCh)>>
      BY <1>1 DEF ReadData
    <3>2. <<Head(dataCh)>> # <<Disconnect>>
      BY <2>2 DEF Disconnect
    <3> QED BY <3>1, <3>2 DEF Carried
  <2>4. dataCh' = Tail(dataCh) /\ UNCHANGED <<log, held, tty, sent, cleaning>>
    BY <1>1 DEF ReadData, lineVars
  <2>5. (log \o Carried') \o dataCh' = (log \o Carried) \o dataCh
    <3>1. (log \o <<Head(dataCh)>>) \o Tail(dataCh) = log \o dataCh
      BY <2>1, MoveHead
    <3>2. log \o Carried = log
      BY <2>1, ConcatEmptySeq
    <3> QED BY <2>3, <2>4, <3>1, <3>2
  <2> QED BY <2>4, <2>5 DEF Way
<1>2. CASE ReadErr
  <2>1. Carried = <<>> /\ Carried' = <<>>
    BY <1>2 DEF ReadErr, ReaderInv, Carried
  <2> QED BY <1>2, <2>1 DEF ReadErr, lineVars, Way
<1>3. CASE OnData
  <2>1. Carried = msgs /\ Carried' = <<>> /\ log' = log \o msgs
    BY <1>3 DEF OnData, Carried, Disconnect
  <2>2. log \o msgs \in Seq(Nat)
    BY ConcatProperties
  <2>3. log' \o Carried' = log \o Carried
    BY <2>1, <2>2, ConcatEmptySeq
  <2> QED BY <1>3, <2>3 DEF OnData, lineVars, loopVars, Way
<1> QED BY <1>1, <1>2, <1>3 DEF Reader

\* Every step keeps the invariant.
LEMMA NextStep == IInv /\ [Next]_vars => IInv'
<1> SUFFICES ASSUME IInv, [Next]_vars PROVE IInv'
  OBVIOUS
<1>0. TypeOK /\ ReaderInv /\ NothingLostOnTheWay
  BY DEF IInv
<1>1. TypeOK'
  <2>1. CASE UNCHANGED vars
    BY <1>0, <2>1 DEF vars, lineVars, loopVars, termVars, wakeVars, TypeOK
  <2> QED BY <1>0, <2>1, LoopTypes, TerminalTypes DEF Next, Terminating
<1>2. ReaderInv'
  BY <1>0 DEF Next, Send, Disappear, Loop, LoopRead, LoopReadErr, LoopPush, LoopErr, Reader,
     ReadData, ReadErr, Update, OnData, OnDisconnect, Ignore, HangUpKey, HangupReads, Cleanup,
     HangupEnds, CloseModem, WakeTick, Wake, Terminating, ReaderInv, vars, lineVars, loopVars,
     termVars, wakeVars
<1>3. NothingLostOnTheWay'
  <2>1. CASE Send
    BY <1>0, <2>1, SendKeeps
  <2>2. CASE LoopRead \/ LoopPush \/ Reader \/ OnData
    BY <1>0, <2>2, LoopKeeps, ReaderKeeps DEF NothingLostOnTheWay, Way, Carried
  <2>3. CASE cleaning'
    BY <2>3 DEF NothingLostOnTheWay
  <2>4. CASE /\ \/ Disappear \/ LoopReadErr \/ LoopErr \/ OnDisconnect \/ Ignore \/ HangUpKey
                \/ HangupReads \/ Cleanup \/ WakeTick \/ Wake \/ UNCHANGED vars
             /\ ~cleaning'
    <3>1. UNCHANGED <<cleaning, log, msgs, dataCh, held, tty, sent>>
      BY <1>0, <2>4 DEF Disappear, LoopReadErr, LoopErr, OnDisconnect, Ignore, HangUpKey,
         HangupReads, Cleanup, HangupEnds, CloseModem, WakeTick, Wake, ReaderInv, vars, lineVars,
         loopVars, termVars, wakeVars
    <3> QED BY <1>0, <3>1 DEF NothingLostOnTheWay
  <2> QED BY <2>1, <2>2, <2>3, <2>4 DEF Next, Loop, Update, Terminating
<1> QED BY <1>1, <1>2, <1>3 DEF IInv

-----------------------------------------------------------------------------
(* The theorems.                                                           *)

\* IInv holds throughout every run.
THEOREM Invariance == Spec => []IInv
BY InitInv, NextStep, PTL DEF Spec

\* Every variable keeps its type: the channel never holds more than its
\* capacity, and no more wake-ups wait than their bound.
THEOREM TypeCorrect == Spec => []TypeOK
<1>1. IInv => TypeOK
  BY DEF IInv
<1> QED BY <1>1, Invariance, PTL

\* For a channel of any capacity and a remote that says any amount: while the
\* terminal is live, no chunk is lost, repeated or out of order.
THEOREM NothingLostOnTheWayHolds == Spec => []NothingLostOnTheWay
<1>1. IInv => NothingLostOnTheWay
  BY DEF IInv
<1> QED BY <1>1, Invariance, PTL
==============================================================================
