---------------------------- MODULE DialerProofs ----------------------------
(***************************************************************************)
(* Theorems about Dialer.                                                  *)
(*                                                                         *)
(* The inductive invariant IInv says, besides the types and where each     *)
(* client is (PlaceInv), what lies between a client and its modem:         *)
(*   - nobody else is at an unshared modem (AloneInv);                     *)
(*   - the commands on the wire are in such an order that an ATDT comes to *)
(*     a modem in command mode, however late they are looked at (OrderInv, *)
(*     which needs no clock);                                              *)
(*   - when no answer is late, the escape and the ATH have worked before   *)
(*     what follows them is written (InitInv, HangupInv, RetryInv);        *)
(*   - results on their way belong to the ATDT that is waited for (OwnInv);*)
(*     for the first number dialled this also holds when answers are late, *)
(*     because two answers after the "+++" are enough (FirstInv).          *)
(*                                                                         *)
(* First comes what each step does (the ...Facts), then one section per    *)
(* conjunct, each with the lemma that every step keeps it, and at the end  *)
(* the properties that a run of Dialer checks.                             *)
(***************************************************************************)
EXTENDS Dialer, SequenceTheorems, TLAPS

Item == [cmd : Commands, by : Writers, call : Nat, clean : BOOLEAN]
Said == [word : Words, call : Nat]

-----------------------------------------------------------------------------
(* The script, and what is done with the two directions of the tty.        *)

\* The positions of the script.
LEMMA ScriptFacts ==
    /\ Len(Script) = 9
    /\ Script[1] = Step("+++",  TRUE,  {}, FALSE)
    /\ Script[2] = Step("ATH",  TRUE,  {"OK", "ERROR", "NO_CARRIER"}, FALSE)
    /\ Script[3] = Step("ATZ",  TRUE,  {"OK", "ERROR"}, TRUE)
    /\ Script[4] = Step("ATE0", TRUE,  {"OK", "ERROR"}, TRUE)
    /\ Script[5] = Step("ATX3", FALSE, {"OK", "ERROR"}, TRUE)
    /\ Script[6] = Step("AT+",  TRUE,  {"OK", "ERROR"}, TRUE)
    /\ Script[7] = Step("ATDT", TRUE,  Results, FALSE)
    /\ Script[8] = Step("+++",  FALSE, {}, FALSE)
    /\ Script[9] = Step("ATH",  FALSE, {"OK", "ERROR"}, FALSE)
BY DEF Script

\* The first word of Priority that has been heard is a result, and was heard.
LEMMA DialWordHeard ==
    ASSUME NEW heard, Results \cap heard # {}
    PROVE  DialWord(heard) \in heard \cap Results
<1> DEFINE First(i) == Priority[i] \in heard /\ \A j \in 1..(i - 1) : Priority[j] \notin heard
           p == CHOOSE i \in DOMAIN Priority : First(i)
<1>1. /\ DOMAIN Priority = 1..5
      /\ Priority[1] = "CONNECT" /\ Priority[2] = "BUSY" /\ Priority[3] = "NO_CARRIER"
      /\ Priority[4] = "NO_DIALTONE" /\ Priority[5] = "ERROR"
  BY DEF Priority
<1>2. \E i \in 1..5 : Priority[i] \in heard
  BY <1>1 DEF Results
<1>3. \E i \in DOMAIN Priority : First(i)
  <2>1. First(1) \/ Priority[1] \notin heard
    BY <1>1
  <2>2. First(2) \/ Priority[1] \in heard \/ Priority[2] \notin heard
    BY <1>1
  <2>3. First(3) \/ (\E j \in 1..2 : Priority[j] \in heard) \/ Priority[3] \notin heard
    BY <1>1
  <2>4. First(4) \/ (\E j \in 1..3 : Priority[j] \in heard) \/ Priority[4] \notin heard
    BY <1>1
  <2>5. First(5) \/ (\E j \in 1..4 : Priority[j] \in heard) \/ Priority[5] \notin heard
    BY <1>1
  <2> HIDE DEF First
  <2> QED BY <1>1, <1>2, <2>1, <2>2, <2>3, <2>4, <2>5
<1>4. p \in DOMAIN Priority /\ First(p)
  BY <1>3
<1>5. DialWord(heard) = Priority[p]
  BY DEF DialWord
<1> HIDE DEF p
<1> QED BY <1>1, <1>4, <1>5 DEF Results

\* A "+++" that is no escape any more.
LEMMA SpoiltItem ==
    ASSUME NEW item \in Item
    PROVE  LET spoilt == [item EXCEPT !.clean = FALSE]
           IN  spoilt \in Item /\ spoilt.cmd = item.cmd /\ spoilt.call = item.call
BY DEF Item

\* A write puts its item behind what is there; at most the last "+++" of a
\* writer who still rests is spoiled by it.
LEMMA PutFacts ==
    ASSUME wire \in Seq(Item), quiet \subseteq Writers,
           NEW w \in Writers, NEW cmd \in Commands, NEW n \in Nat, Put(w, cmd, n)
    PROVE  /\ wire' \in Seq(Item) /\ quiet' \subseteq Writers
           /\ Len(wire) \in Nat /\ Len(wire') = Len(wire) + 1
           /\ DOMAIN wire = 1..Len(wire) /\ DOMAIN wire' = 1..(Len(wire) + 1)
           /\ \A i \in 1..Len(wire) :
                 /\ wire'[i].cmd = wire[i].cmd /\ wire'[i].call = wire[i].call
                 /\ i < Len(wire) \/ quiet \subseteq {w} => wire'[i] = wire[i]
           /\ wire'[Len(wire) + 1] =
                 [cmd |-> cmd, by |-> w, call |-> n, clean |-> cmd = "+++" /\ w \in quiet]
           /\ quiet' = IF cmd = "+++" /\ w \in quiet THEN {w} ELSE {}
<1> DEFINE Spoiled(i) == i = Len(wire) /\ wire[i].cmd = "+++" /\ wire[i].by \in quiet \ {w}
           old == [i \in DOMAIN wire |->
                      IF Spoiled(i) THEN [wire[i] EXCEPT !.clean = FALSE] ELSE wire[i]]
           new == [cmd |-> cmd, by |-> w, call |-> n, clean |-> cmd = "+++" /\ w \in quiet]
<1>1. Len(wire) \in Nat /\ DOMAIN wire = 1..Len(wire) /\ \A i \in 1..Len(wire) : wire[i] \in Item
  BY LenProperties, ElementOfSeq
<1>2. new \in Item
  BY DEF Item
<1>3. ASSUME NEW i \in 1..Len(wire)
      PROVE  /\ old[i] \in Item /\ old[i].cmd = wire[i].cmd /\ old[i].call = wire[i].call
             /\ i < Len(wire) \/ quiet \subseteq {w} => old[i] = wire[i]
  <2>1. wire[i] \in [cmd : Commands, by : Writers, call : Nat, clean : BOOLEAN]
    BY <1>1 DEF Item
  <2>2. CASE Spoiled(i)
    <3>1. old[i] = [wire[i] EXCEPT !.clean = FALSE]
      BY <1>1, <2>2
    <3>2. i = Len(wire) /\ ~(quiet \subseteq {w})
      BY <2>2
    <3>3. /\ [wire[i] EXCEPT !.clean = FALSE] \in Item
          /\ [wire[i] EXCEPT !.clean = FALSE].cmd = wire[i].cmd
          /\ [wire[i] EXCEPT !.clean = FALSE].call = wire[i].call
      BY <1>1, SpoiltItem
    <3> QED BY <1>1, <3>1, <3>2, <3>3
  <2>3. CASE ~Spoiled(i)
    <3>1. old[i] = wire[i]
      BY <1>1, <2>3
    <3> QED BY <2>1, <3>1 DEF Item
  <2> QED BY <2>2, <2>3
<1>4. old \in [1..Len(wire) -> Item]
  BY <1>1, <1>3
<1>5. old \in Seq(Item)
  BY <1>1, <1>4, SeqDef
<1>6. Len(old) = Len(wire)
  BY <1>1, <1>4, <1>5, LenProperties
<1>7. wire' = Append(old, new) /\ quiet' = IF cmd = "+++" /\ w \in quiet THEN {w} ELSE {}
  BY DEF Put
<1> HIDE DEF old, new
<1>8. /\ Append(old, new) \in Seq(Item) /\ Len(Append(old, new)) = Len(old) + 1
      /\ \A i \in 1..Len(old) : Append(old, new)[i] = old[i]
      /\ Append(old, new)[Len(old) + 1] = new
  BY <1>2, <1>5, AppendProperties
<1>9. DOMAIN wire' = 1..(Len(wire) + 1)
  BY <1>6, <1>7, <1>8, LenProperties
<1> QED BY <1>1, <1>3, <1>6, <1>7, <1>8, <1>9 DEF new

\* A take moves all the rest up by one.
LEMMA TailFacts ==
    ASSUME NEW S, NEW s \in Seq(S), s # <<>>
    PROVE  /\ Tail(s) \in Seq(S) /\ Len(s) \in Nat \ {0} /\ Len(Tail(s)) = Len(s) - 1
           /\ DOMAIN s = 1..Len(s) /\ DOMAIN Tail(s) = 1..(Len(s) - 1)
           /\ Head(s) = s[1] /\ s[1] \in S
           /\ \A i \in 1..(Len(s) - 1) : Tail(s)[i] = s[i + 1]
<1>1. Len(s) \in Nat \ {0}
  BY EmptySeq, LenProperties
<1>2. /\ Head(s) \in S /\ Head(s) = s[1] /\ Tail(s) \in Seq(S) /\ Len(Tail(s)) = Len(s) - 1
      /\ \A i \in 1..Len(Tail(s)) : Tail(s)[i] = s[i + 1]
  BY HeadTailProperties
<1> QED BY <1>1, <1>2, LenProperties

\* Silence.
LEMMA SaysNothing == ASSUME tty \in Seq(Said), Says(<<>>) PROVE tty' = tty
BY ConcatEmptySeq DEF Says

\* A word comes behind what is there.
LEMMA SaysWord ==
    ASSUME tty \in Seq(Said), NEW w \in Words, NEW n \in Nat, Says(<<Word(w, n)>>)
    PROVE  /\ tty' \in Seq(Said) /\ Len(tty) \in Nat /\ Len(tty') = Len(tty) + 1
           /\ DOMAIN tty = 1..Len(tty) /\ DOMAIN tty' = 1..(Len(tty) + 1)
           /\ \A i \in 1..Len(tty) : tty'[i] = tty[i]
           /\ tty'[Len(tty) + 1] = Word(w, n)
           /\ \A i \in DOMAIN tty' :
                 (i \in DOMAIN tty /\ tty'[i] = tty[i]) \/ tty'[i] = Word(w, n)
<1>1. Word(w, n) \in Said
  BY DEF Word, Said
<1>2. tty' = Append(tty, Word(w, n))
  BY <1>1, AppendIsConcat DEF Says
<1>3. /\ tty' \in Seq(Said) /\ Len(tty') = Len(tty) + 1
      /\ \A i \in 1..Len(tty) : tty'[i] = tty[i]
      /\ tty'[Len(tty) + 1] = Word(w, n)
  BY <1>1, <1>2, AppendProperties
<1>4. /\ Len(tty) \in Nat /\ DOMAIN tty = 1..Len(tty) /\ DOMAIN tty' = 1..(Len(tty) + 1)
  BY <1>3, LenProperties
<1>5. \A i \in 1..(Len(tty) + 1) : i \in 1..Len(tty) \/ i = Len(tty) + 1
  BY <1>4
<1> QED BY <1>3, <1>4, <1>5

-----------------------------------------------------------------------------
(* What a step is, in cases.                                               *)

\* The types, with the script's length spelt out.
Types ==
    /\ wire \in Seq(Item) /\ tty \in Seq(Said)
    /\ mode \in {"command", "dialing", "online", "escaped"}
    /\ call \in Nat
    /\ quiet \subseteq Writers
    /\ bridge \in {"none", "active", "stale"}
    /\ present \in BOOLEAN
    /\ pc \in [Clients -> {"idle", "opening", "talk", "online", "close", "closed",
                           "bridge", "killed", "device"}]
    /\ pos \in [Clients -> 1..9]
    /\ stage \in [Clients -> {"begin", "rest", "wait"}]
    /\ attempt \in [Clients -> 0..MaxRetries]
    /\ outcome \in [Clients -> [word : Outcomes, call : Nat]]
    /\ handle \in [Clients -> {"none", "open", "dead"}]
    /\ number \in [Clients -> Nat]
    /\ dials \in [Clients -> 0..MaxDials]
    /\ placed \in Nat
    /\ faults \subseteq FaultKinds

\* Types is TypeOK for a script of nine steps.
LEMMA TypesAreTypeOK == TypeOK <=> Types
BY ScriptFacts DEF TypeOK, Types, ModemTypeOK, Item, Said

\* The clients are writers.
LEMMA ClientsWrite == Clients \subseteq Writers /\ "batch" \in Writers
BY DialerAssumption

\* The step of the script that c is at.
LEMMA HereFacts ==
    ASSUME Types, NEW c \in Clients
    PROVE  /\ pos[c] \in 1..9
           /\ Here(c).cmd \in Commands
           /\ Here(c).cmd = "+++" <=> pos[c] \in {1, 8}
           /\ Here(c).cmd = "ATH" <=> pos[c] \in {2, 9}
           /\ Here(c).cmd = "ATDT" <=> pos[c] = 7
           /\ Here(c).cmd # "text"
           /\ pos[c] = 3 => Here(c).cmd = "ATZ"
           /\ pos[c] \in 4..6 <=> Here(c).cmd \in {"ATE0", "ATX3", "AT+"}
           /\ Here(c).strict <=> pos[c] \in 3..6
           /\ pos[c] = 2 => Here(c).accept = {"OK", "ERROR", "NO_CARRIER"}
           /\ pos[c] \in 3..6 \cup {9} => Here(c).accept = {"OK", "ERROR"}
           /\ pos[c] = 7 => Here(c).accept = Results
           /\ pos[c] \in {1, 8} => Here(c).accept = {}
           /\ pos[c] \in {2, 4, 7} => Drained(c) = <<>>
           /\ Drained(c) = <<>> \/ Drained(c) = tty
<1>1. pos[c] \in 1..9
  BY DEF Types
<1>2. Drained(c) = IF Here(c).drain THEN <<>> ELSE tty
  BY DEF Drained
<1>3. Here(c) = Script[pos[c]]
  BY DEF Here
<1>4. \/ pos[c] = 1 \/ pos[c] = 2 \/ pos[c] = 3 \/ pos[c] = 4 \/ pos[c] = 5
      \/ pos[c] = 6 \/ pos[c] = 7 \/ pos[c] = 8 \/ pos[c] = 9
  BY <1>1
<1> QED BY <1>2, <1>3, <1>4, ScriptFacts DEF Step, Commands

\* What the modem does with what it looks at, and what it says.
LEMMA TakeCases ==
    ASSUME Types, Take
    PROVE  /\ wire # <<>> /\ wire' = Tail(wire) /\ UNCHANGED <<quiet, present>>
           /\ \/ /\ mode = "command" /\ wire[1].cmd = "ATDT" /\ bridge = "none"
                 /\ mode' = "dialing" /\ call' = wire[1].call /\ bridge' = "active" /\ tty' = tty
              \/ /\ mode = "command" /\ wire[1].cmd = "ATDT" /\ bridge # "none"
                 /\ UNCHANGED <<mode, call, bridge>> /\ Says(<<Word("NO_CARRIER", wire[1].call)>>)
              \/ /\ OutOfData /\ wire[1].cmd \in {"+++", "text"}
                 /\ UNCHANGED <<mode, call, bridge, tty>>
              \/ /\ OutOfData /\ wire[1].cmd # "+++"
                 /\ wire[1].cmd # "ATDT" \/ mode = "escaped"
                 /\ mode = "escaped" => wire[1].cmd \notin Resets
                 /\ UNCHANGED <<mode, call, bridge>> /\ \E w \in {"OK", "ERROR"} : Says(<<Word(w, 0)>>)
              \/ /\ mode = "escaped" /\ wire[1].cmd \in Resets
                 /\ mode' = "command" /\ call' = 0 /\ bridge' = "stale" /\ Says(<<Word("OK", 0)>>)
              \/ /\ mode = "dialing"
                 /\ mode' = "command" /\ call' = 0 /\ bridge' = "stale" /\ Says(<<Word("NO_CARRIER", call)>>)
              \/ /\ mode = "online" /\ ~(wire[1].cmd = "+++" /\ wire[1].clean)
                 /\ UNCHANGED <<mode, call, bridge, tty>>
              \/ /\ mode = "online" /\ wire[1].cmd = "+++" /\ wire[1].clean
                 /\ mode' = "escaped" /\ UNCHANGED <<call, bridge>> /\ Says(<<Word("OK", 0)>>)
<1>1. wire # <<>> /\ wire' = Tail(wire) /\ UNCHANGED <<quiet, present>> /\ Head(wire) = wire[1]
  BY TailFacts DEF Take, Types
<1>2. tty \in Seq(Said)
  BY DEF Types
<1>3. CASE TakeDial(wire[1])
  BY <1>1, <1>2, <1>3, SaysNothing DEF TakeDial
<1>4. CASE TakeCommand(wire[1])
  <2>1. CASE mode = "escaped" /\ wire[1].cmd \in Resets
    BY <1>1, <1>4, <2>1 DEF TakeCommand, CallEnds, Resets
  <2>2. CASE ~(mode = "escaped" /\ wire[1].cmd \in Resets)
    <3>1. /\ OutOfData /\ (wire[1].cmd # "ATDT" \/ mode = "escaped")
          /\ UNCHANGED <<mode, call, bridge>>
      BY <1>4, <2>2 DEF TakeCommand, OutOfData, Resets
    <3>2. CASE wire[1].cmd = "+++"
      <4>1. Says(<<>>)
        BY <1>4, <2>2, <3>2 DEF TakeCommand, Resets
      <4> QED BY <1>1, <1>2, <3>1, <3>2, <4>1, SaysNothing
    <3>3. CASE wire[1].cmd = "text"
      <4>1. Says(<<>>) \/ Says(<<Word("ERROR", 0)>>)
        BY <1>4, <2>2, <3>3 DEF TakeCommand, Resets
      <4> QED BY <1>1, <1>2, <3>1, <3>3, <4>1, SaysNothing DEF Resets
    <3>4. CASE wire[1].cmd \notin {"+++", "text"}
      <4>1. \E w \in {"OK", "ERROR"} : Says(<<Word(w, 0)>>)
        BY <1>4, <2>2, <3>4 DEF TakeCommand, Resets
      <4> QED BY <1>1, <2>2, <3>1, <3>4, <4>1
    <3> QED BY <3>2, <3>3, <3>4
  <2> QED BY <2>1, <2>2
<1>5. CASE TakeAbort(wire[1])
  BY <1>1, <1>5 DEF TakeAbort, CallEnds
<1>6. CASE TakeOnline(wire[1])
  BY <1>1, <1>2, <1>6, SaysNothing DEF TakeOnline
<1> QED BY <1>1, <1>3, <1>4, <1>5, <1>6 DEF Take

-----------------------------------------------------------------------------
(* What the steps of a client do, point by point.                          *)

\* Nothing happens to the clients but c.
Others(c) ==
    \A d \in Clients \ {c} :
        /\ pc'[d] = pc[d] /\ pos'[d] = pos[d] /\ stage'[d] = stage[d]
        /\ attempt'[d] = attempt[d] /\ outcome'[d] = outcome[d]
        /\ handle'[d] = handle[d] /\ number'[d] = number[d]

\* c is now at label, and at position i of the script.
Moves(c, label, i) == pc'[c] = label /\ pos'[c] = i /\ stage'[c] = "begin"

\* The end of an answered step: the next one, or the end of the dialogue.
LEMMA ProceedFacts ==
    ASSUME Types, NEW c \in Clients, pos[c] # 7, Proceed(c)
    PROVE  /\ outcome' = outcome
           /\ \A d \in Clients \ {c} : pc'[d] = pc[d] /\ pos'[d] = pos[d] /\ stage'[d] = stage[d]
           /\ \/ pos[c] < 9 /\ Moves(c, pc[c], pos[c] + 1)
              \/ pos[c] = 5 /\ Moves(c, pc[c], 7)
              \/ (pos[c] = 9 \/ (c \in Probes /\ pos[c] \in {5, 6})) /\ Moves(c, "close", 1)
<1> DEFINE next == IF pos[c] + 1 = 6 /\ c \notin WithInit THEN 7 ELSE pos[c] + 1
<1>1. /\ pos[c] \in 1..9 /\ pos \in [Clients -> 1..9] /\ DOMAIN pc = Clients
      /\ DOMAIN stage = Clients
  BY DEF Types
<1>2. /\ outcome' = outcome
      /\ stage' = [stage EXCEPT ![c] = "begin"]
      /\ \/ next <= 9 /\ pos' = [pos EXCEPT ![c] = next] /\ pc' = pc
         \/ /\ next > 9 \/ (next = 7 /\ c \in Probes)
            /\ pc' = [pc EXCEPT ![c] = "close"] /\ pos' = [pos EXCEPT ![c] = 1]
  BY ScriptFacts DEF Proceed, At, Goto, DialAt
<1>3. /\ next = pos[c] + 1 \/ (pos[c] = 5 /\ next = 7)
      /\ next > 9 => pos[c] = 9
      /\ next <= 9 => pos[c] < 9
      /\ next = 7 => pos[c] \in {5, 6}
  BY <1>1
<1> HIDE DEF next
<1>4. CASE next <= 9 /\ pos' = [pos EXCEPT ![c] = next] /\ pc' = pc
  BY <1>1, <1>2, <1>3, <1>4 DEF Moves
<1>5. CASE /\ next > 9 \/ (next = 7 /\ c \in Probes)
           /\ pc' = [pc EXCEPT ![c] = "close"] /\ pos' = [pos EXCEPT ![c] = 1]
  BY <1>1, <1>2, <1>3, <1>5 DEF Moves
<1> QED BY <1>2, <1>4, <1>5

\* A wait that ends has had its time, or a fault has happened.
InTime(c) == faults \subseteq faults' /\ (wire = <<>> \/ handle[c] = "dead" \/ "late" \in faults')

\* What the end of a wait may add to the faults.
LEMMA DeadlineFacts ==
    ASSUME Types, NEW c \in Clients, Deadline(c)
    PROVE  /\ faults' \subseteq FaultKinds /\ InTime(c)
           /\ faults' = faults \/ faults' = faults \cup {"late"}
BY DEF Types, Deadline, Fault, InTime, FaultKinds

\* The rest before an escape begins; it is quiet as long as the device
\* works.
LEMMA RestFacts ==
    ASSUME Types, NEW c \in Clients, Rest(c)
    PROVE  /\ Others(c) /\ UNCHANGED <<pc, pos, attempt, outcome, handle, number, placed, faults>>
           /\ UNCHANGED <<mode, call, wire, bridge, present>>
           /\ pc[c] = "talk" /\ stage[c] = "begin" /\ stage'[c] = "rest" /\ pos[c] \in {1, 8}
           /\ handle[c] = "open" => quiet' = quiet \cup {c}
           /\ handle[c] # "open" => quiet' = quiet
           /\ tty' = tty \/ tty' = <<>>
BY HereFacts DEF Types, Rest, Talking, Stay, Others

\* An escape is written, or the device has gone.
LEMMA EscapeFacts ==
    ASSUME Types, PlaceInv, NEW c \in Clients, Escape(c)
    PROVE  /\ Others(c) /\ UNCHANGED <<outcome, attempt, handle, number, placed, faults>>
           /\ UNCHANGED <<mode, call, tty, bridge, present>>
           /\ pc[c] = "talk" /\ stage[c] = "rest" /\ pos[c] \in {1, 8}
           /\ \/ /\ handle[c] = "open" /\ Put(c, "+++", 0)
                 /\ UNCHANGED <<pc, pos>> /\ stage'[c] = "wait"
              \/ /\ handle[c] = "dead" /\ UNCHANGED <<wire, quiet>>
                 /\ IF pos[c] = 1 THEN Moves(c, "talk", 2) ELSE Moves(c, "close", 1)
<1>1. pc[c] = "talk" /\ stage[c] = "rest" /\ pos[c] \in {1, 8} /\ handle[c] \in {"open", "dead"}
  BY DEF Escape, Talking, Types, PlaceInv, PlaceOf, OpenPc, HangupAt
<1>2. UNCHANGED <<attempt, handle, number, placed, faults, mode, call, tty, bridge, present>>
  BY DEF Escape
<1>3. CASE handle[c] = "open"
  BY <1>1, <1>2, <1>3 DEF Escape, Stay, Others, Types
<1>4. CASE handle[c] = "dead" /\ pos[c] = 1
  <2>1. Proceed(c) /\ UNCHANGED <<wire, quiet>>
    BY <1>4 DEF Escape, HangupAt
  <2>2. /\ Moves(c, "talk", 2) /\ outcome' = outcome
        /\ \A d \in Clients \ {c} : pc'[d] = pc[d] /\ pos'[d] = pos[d] /\ stage'[d] = stage[d]
    BY <1>1, <1>4, <2>1, ProceedFacts
  <2>3. Others(c)
    BY <1>2, <2>2 DEF Others
  <2> QED BY <1>1, <1>2, <1>4, <2>1, <2>2, <2>3
<1>5. CASE handle[c] = "dead" /\ pos[c] = 8
  BY <1>1, <1>2, <1>5 DEF Escape, HangupAt, HungUp, Goto, At, Moves, Others, Types
<1> QED BY <1>1, <1>3, <1>4, <1>5

\* The rest after an escape ends.
LEMMA EscapedFacts ==
    ASSUME Types, NEW c \in Clients, Escaped(c)
    PROVE  /\ Others(c) /\ UNCHANGED <<modemVars, outcome, attempt, handle, number, placed>>
           /\ pc[c] = "talk" /\ stage[c] = "wait" /\ pos[c] \in {1, 8}
           /\ InTime(c)
           /\ Moves(c, "talk", pos[c] + 1)
<1>1. pc[c] = "talk" /\ stage[c] = "wait" /\ pos[c] \in {1, 8}
  BY HereFacts DEF Escaped, Talking
<1>2. InTime(c) /\ Proceed(c) /\ UNCHANGED <<modemVars, attempt, handle, number, placed>>
  BY DeadlineFacts DEF Escaped
<1>3. /\ Moves(c, "talk", pos[c] + 1) /\ outcome' = outcome
      /\ \A d \in Clients \ {c} : pc'[d] = pc[d] /\ pos'[d] = pos[d] /\ stage'[d] = stage[d]
  BY <1>1, <1>2, ProceedFacts
<1>4. Others(c)
  BY <1>2, <1>3 DEF Others
<1> QED BY <1>1, <1>2, <1>3, <1>4

\* A command is written: only an ATDT gets a number.
LEMMA SendFacts ==
    ASSUME Types, NEW c \in Clients, Send(c)
    PROVE  /\ Others(c) /\ UNCHANGED <<pc, pos, attempt, outcome, handle, faults>>
           /\ UNCHANGED <<mode, call, bridge, present>>
           /\ pc[c] = "talk" /\ stage[c] = "begin" /\ stage'[c] = "wait" /\ handle[c] = "open"
           /\ pos[c] \in 2..9 /\ pos[c] # 8
           /\ Here(c).cmd \in Commands /\ Here(c).cmd \notin {"+++", "text"}
           /\ pos[c] # 7 => /\ Put(c, Here(c).cmd, 0) /\ placed' = placed /\ number' = number
           /\ pos[c] = 7 => /\ Put(c, "ATDT", placed + 1) /\ placed' = placed + 1
                            /\ number'[c] = placed + 1
           /\ tty' = tty \/ tty' = <<>>
           /\ pos[c] \in {2, 4, 7} => tty' = <<>>
<1>1. /\ pc[c] = "talk" /\ stage[c] = "begin" /\ handle[c] = "open"
      /\ pos[c] \in 2..9 /\ pos[c] # 8
  BY HereFacts DEF Send, Talking
<1>2. /\ UNCHANGED <<pc, pos, attempt, outcome, handle, faults, mode, call, bridge, present>>
      /\ stage' = [stage EXCEPT ![c] = "wait"] /\ tty' = Drained(c)
  BY DEF Send, Stay
<1>3. CASE pos[c] = 7
  <2>1. Here(c).cmd = "ATDT"
    BY <1>3, HereFacts
  <2>2. /\ Put(c, "ATDT", placed + 1) /\ placed' = placed + 1
        /\ number' = [number EXCEPT ![c] = placed + 1]
    BY <2>1 DEF Send
  <2> QED BY <1>1, <1>2, <1>3, <2>1, <2>2, HereFacts DEF Others, Types, Commands
<1>4. CASE pos[c] # 7
  <2>1. Here(c).cmd \in Commands /\ Here(c).cmd \notin {"ATDT", "+++", "text"}
    BY <1>1, <1>4, HereFacts
  <2>2. Put(c, Here(c).cmd, 0) /\ placed' = placed /\ number' = [number EXCEPT ![c] = number[c]]
    BY <2>1 DEF Send
  <2>3. number' = number
    BY <2>2 DEF Types
  <2> QED BY <1>1, <1>2, <1>4, <2>1, <2>2, <2>3, HereFacts DEF Others, Types
<1> QED BY <1>3, <1>4

\* A command is written.
LEMMA SendPuts ==
    ASSUME Types, NEW c \in Clients, Send(c)
    PROVE  \E cmd \in Commands, n \in Nat : Put(c, cmd, n) /\ cmd \notin {"+++", "text"}
<1>1. placed \in Nat /\ "ATDT" \in Commands
  BY DEF Types, Commands
<1>2. CASE pos[c] = 7
  BY <1>1, <1>2, SendFacts
<1>3. CASE pos[c] # 7
  BY <1>1, <1>3, SendFacts
<1> QED BY <1>2, <1>3

\* A dial without CONNECT: the hub goes on to hang up, a probe closes.
MovesOn(c) == IF c \in Hubs THEN Moves(c, "talk", 8) ELSE Moves(c, "close", 1)

\* Missed, point by point.
LEMMA MissedFacts ==
    ASSUME Types, NEW c \in Clients, NEW w, pc[c] = "talk", Missed(c, w)
    PROVE  /\ MovesOn(c) /\ outcome'[c] = w
           /\ \A d \in Clients \ {c} :
                 pc'[d] = pc[d] /\ pos'[d] = pos[d] /\ stage'[d] = stage[d] /\ outcome'[d] = outcome[d]
BY DEF Missed, MovesOn, Moves, Result, At, Goto, Types, HangupAt

\* Fails, point by point.
LEMMA FailsFacts ==
    ASSUME Types, NEW c \in Clients, NEW w, Fails(c, w)
    PROVE  /\ Moves(c, "close", 1) /\ outcome'[c] = Word(w, 0)
           /\ \A d \in Clients \ {c} :
                 pc'[d] = pc[d] /\ pos'[d] = pos[d] /\ stage'[d] = stage[d] /\ outcome'[d] = outcome[d]
BY DEF Fails, Moves, Result, At, Goto, Types

\* A step that could not be taken: what follows, and the outcome if there is one.
Unanswered(c, w) ==
    \/ pos[c] = 2 /\ Moves(c, "talk", 3) /\ outcome'[c] = outcome[c]
    \/ pos[c] = 9 /\ Moves(c, "close", 1) /\ outcome'[c] = outcome[c]
    \/ pos[c] \in 3..6 /\ Moves(c, "close", 1) /\ outcome'[c] = w
    \/ pos[c] = 7 /\ MovesOn(c) /\ outcome'[c].call = 0
       /\ outcome'[c].word \in {"TIMEOUT", "IO_ERROR"}

\* A command that cannot be written counts as unanswered.
LEMMA SendFailsFacts ==
    ASSUME Types, NEW c \in Clients, SendFails(c)
    PROVE  /\ Others(c) /\ UNCHANGED <<modemVars, attempt, handle, number, placed, faults>>
           /\ pc[c] = "talk" /\ stage[c] = "begin" /\ handle[c] = "dead"
           /\ Unanswered(c, Word("IO_ERROR", 0))
<1>1. /\ pc[c] = "talk" /\ stage[c] = "begin" /\ handle[c] = "dead" /\ pos[c] \in {2, 3, 4, 5, 6, 7, 9}
      /\ UNCHANGED <<modemVars, attempt, handle, number, placed, faults>>
  BY HereFacts DEF SendFails, Talking
<1>2. CASE pos[c] \in 3..6
  <2>1. Fails(c, "IO_ERROR")
    BY <1>2, HereFacts DEF SendFails, DialAt
  <2> QED BY <1>1, <1>2, <2>1, FailsFacts DEF Others, Unanswered
<1>3. CASE pos[c] = 7
  <2>1. Missed(c, Word("IO_ERROR", 0))
    BY <1>3, HereFacts DEF SendFails, DialAt
  <2> QED BY <1>1, <1>3, <2>1, MissedFacts DEF Others, Unanswered, Word
<1>4. CASE pos[c] \in {2, 9}
  <2>1. Proceed(c)
    BY <1>4, HereFacts DEF SendFails, DialAt
  <2>2. /\ outcome' = outcome
        /\ \A d \in Clients \ {c} : pc'[d] = pc[d] /\ pos'[d] = pos[d] /\ stage'[d] = stage[d]
        /\ IF pos[c] = 2 THEN Moves(c, "talk", 3) ELSE Moves(c, "close", 1)
    BY <1>1, <1>4, <2>1, ProceedFacts
  <2> QED BY <1>1, <1>4, <2>2 DEF Others, Unanswered
<1> QED BY <1>1, <1>2, <1>3, <1>4

\* A command whose answer does not come: nothing it waits for was heard.
LEMMA TimeoutFacts ==
    ASSUME Types, NEW c \in Clients, Timeout(c)
    PROVE  /\ Others(c)
           /\ UNCHANGED <<mode, call, wire, quiet, bridge, present, attempt, handle, number, placed>>
           /\ pc[c] = "talk" /\ stage[c] = "wait"
           /\ InTime(c) /\ (pos[c] = 7 => faults' = faults)
           /\ handle[c] = "open" => tty' = <<>> /\ ~Heard(Here(c).accept)
           /\ tty' = tty \/ tty' = <<>>
           /\ Unanswered(c, Word(IF handle[c] = "open" THEN "NO_RESPONSE" ELSE "IO_ERROR", 0))
<1> DEFINE w == IF handle[c] = "open" THEN "NO_RESPONSE" ELSE "IO_ERROR"
<1>1. /\ pc[c] = "talk" /\ stage[c] = "wait" /\ pos[c] \in {2, 3, 4, 5, 6, 7, 9}
      /\ UNCHANGED <<mode, call, wire, quiet, bridge, present, attempt, handle, number, placed>>
      /\ InTime(c) /\ (pos[c] = 7 => faults' = faults)
      /\ handle[c] = "open" => tty' = <<>> /\ ~Heard(Here(c).accept)
      /\ tty' = tty \/ tty' = <<>>
  <2>1. InTime(c) /\ (pos[c] = 7 => faults' = faults)
    BY DeadlineFacts DEF Timeout, Deadline, DialAt
  <2> QED BY <2>1, HereFacts DEF Timeout, Talking, Heard
<1>2. CASE pos[c] \in 3..6
  <2>1. Fails(c, w)
    BY <1>2, HereFacts DEF Timeout, DialAt
  <2> HIDE DEF w
  <2>2. Others(c) /\ Unanswered(c, Word(w, 0))
    BY <1>1, <1>2, <2>1, FailsFacts DEF Others, Unanswered
  <2> QED BY <1>1, <2>2 DEF w
<1>3. CASE pos[c] = 7
  <2>1. Missed(c, Word("TIMEOUT", 0))
    BY <1>3, HereFacts DEF Timeout, DialAt
  <2>2. Others(c) /\ Unanswered(c, Word(w, 0))
    BY <1>1, <1>3, <2>1, MissedFacts DEF Others, Unanswered, Word
  <2> QED BY <1>1, <2>2
<1>4. CASE pos[c] \in {2, 9}
  <2>1. Proceed(c)
    BY <1>4, HereFacts DEF Timeout, DialAt
  <2>2. /\ outcome' = outcome
        /\ \A d \in Clients \ {c} : pc'[d] = pc[d] /\ pos'[d] = pos[d] /\ stage'[d] = stage[d]
        /\ IF pos[c] = 2 THEN Moves(c, "talk", 3) ELSE Moves(c, "close", 1)
    BY <1>1, <1>4, <2>1, ProceedFacts
  <2>3. Others(c) /\ Unanswered(c, Word(w, 0))
    BY <1>1, <1>4, <2>2 DEF Others, Unanswered
  <2> QED BY <1>1, <2>3
<1> QED BY <1>1, <1>2, <1>3, <1>4

\* Words that are left after a read were there before it.
LEMMA ReadFacts ==
    ASSUME Types, NEW k \in DOMAIN tty, tty' = SubSeq(tty, k + 1, Len(tty))
    PROVE  /\ tty' \in Seq(Said) /\ tty # <<>>
           /\ \A i \in DOMAIN tty' : \E j \in DOMAIN tty : tty'[i] = tty[j]
<1>1. tty \in Seq(Said) /\ Len(tty) \in Nat /\ DOMAIN tty = 1..Len(tty) /\ k \in 1..Len(tty)
  BY LenProperties DEF Types
<1>2. \A i \in 1..Len(tty) : tty[i] \in Said
  BY <1>1, ElementOfSeq
<1>3. tty # <<>>
  BY <1>1
<1>4. /\ tty' \in Seq(Said) /\ Len(tty') = Len(tty) - k
      /\ \A i \in 1..(Len(tty) - k) : tty'[i] = tty[k + i]
  <2>1. k + 1 \in 1..(Len(tty) + 1) /\ Len(tty) \in k..Len(tty)
    BY <1>1
  <2> QED BY <1>1, <1>2, <2>1, SubSeqProperties
<1>5. DOMAIN tty' = 1..(Len(tty) - k)
  BY <1>4, LenProperties
<1>6. \A i \in 1..(Len(tty) - k) : k + i \in 1..Len(tty)
  BY <1>1
<1> QED BY <1>1, <1>3, <1>4, <1>5, <1>6

\* What Reply's answer comes to: its word has been read, and its number is the
\* client's if that of every such word is.
IsAnswer(c, answer) ==
    /\ answer \in [word : Results, call : Nat]
    /\ \E i \in DOMAIN tty : tty[i].word = answer.word
    /\ (\A i \in DOMAIN tty : tty[i].word = answer.word => tty[i].call = number[c])
          => answer.call = number[c]

\* The three ways in which an answer ends the step.
LEMMA ReplyEnds ==
    ASSUME Types, NEW c \in Clients, Reply(c)
    PROVE  /\ tty' \in Seq(Said) /\ tty # <<>>
           /\ \A i \in DOMAIN tty' : \E j \in DOMAIN tty : tty'[i] = tty[j]
           /\ \/ pos[c] \in 3..6 /\ Fails(c, "REFUSED") /\ attempt' = attempt
              \/ /\ pos[c] \in {2, 3, 4, 5, 6, 9} /\ Proceed(c) /\ attempt' = attempt
                 /\ pos[c] \in 3..6 => Heard({"OK", "ERROR"})
              \/ /\ pos[c] = 7
                 /\ \E answer : /\ IsAnswer(c, answer)
                                /\ IF answer.word = "CONNECT"
                                   THEN /\ Goto(c, "online") /\ At(c, 8) /\ Result(c, answer)
                                        /\ attempt' = [attempt EXCEPT ![c] = 0]
                                   ELSE Missed(c, answer) /\ attempt' = attempt
<1>1. PICK k \in DOMAIN tty :
          LET heard == {tty[i].word : i \in 1..k}
              w == DialWord(heard)
              answer == IF \E i \in 1..k : tty[i] = Word(w, number[c])
                        THEN Word(w, number[c]) ELSE Word(w, 0)
          IN  /\ Here(c).accept \cap heard # {}
              /\ tty' = SubSeq(tty, k + 1, Len(tty))
              /\ CASE pos[c] # DialAt ->
                        /\ IF Here(c).strict /\ "ERROR" \in heard
                           THEN Fails(c, "REFUSED") ELSE Proceed(c)
                        /\ UNCHANGED attempt
                   [] pos[c] = DialAt /\ w = "CONNECT" ->
                        /\ Goto(c, "online") /\ At(c, HangupAt) /\ Result(c, answer)
                        /\ attempt' = [attempt EXCEPT ![c] = 0]
                   [] OTHER -> Missed(c, answer) /\ UNCHANGED attempt
  BY DEF Reply
<1> DEFINE heard == {tty[i].word : i \in 1..k}
           w == DialWord(heard)
           answer == IF \E i \in 1..k : tty[i] = Word(w, number[c])
                     THEN Word(w, number[c]) ELSE Word(w, 0)
<1>2. /\ tty' \in Seq(Said) /\ tty # <<>>
      /\ \A i \in DOMAIN tty' : \E j \in DOMAIN tty : tty'[i] = tty[j]
  BY <1>1, ReadFacts
<1>3. Here(c).accept \cap heard # {}
  BY <1>1
<1>4. /\ tty \in Seq(Said) /\ DOMAIN tty = 1..Len(tty) /\ Len(tty) \in Nat /\ k \in 1..Len(tty)
      /\ \A i \in DOMAIN tty : tty[i] \in [word : Words, call : Nat]
  <2>1. tty \in Seq(Said) /\ DOMAIN tty = 1..Len(tty) /\ Len(tty) \in Nat
    BY LenProperties DEF Types
  <2>2. \A i \in 1..Len(tty) : tty[i] \in Said
    BY <2>1, ElementOfSeq
  <2>3. k \in 1..Len(tty)
    BY <2>1
  <2> QED BY <2>1, <2>2, <2>3 DEF Said
<1>5. \A i \in 1..k : i \in DOMAIN tty
  BY <1>4
<1>6. pos[c] \in {2, 3, 4, 5, 6, 7, 9}
  BY <1>3, HereFacts
<1>7. CASE pos[c] # 7
  <2>1. /\ attempt' = attempt
        /\ IF Here(c).strict /\ "ERROR" \in heard THEN Fails(c, "REFUSED") ELSE Proceed(c)
    BY <1>1, <1>7 DEF DialAt
  <2>2. pos[c] \in 3..6 => Heard({"OK", "ERROR"})
    BY <1>3, <1>5, HereFacts DEF Heard
  <2>3. (Fails(c, "REFUSED") /\ pos[c] \in 3..6) \/ Proceed(c)
    BY <2>1, HereFacts
  <2> QED BY <1>2, <1>6, <1>7, <2>1, <2>2, <2>3
<1>8. CASE pos[c] = 7
  <2>1. w \in heard \cap Results
    BY <1>3, <1>8, HereFacts, DialWordHeard
  <2>2. answer \in [word : Results, call : Nat] /\ answer.word = w
    BY <2>1 DEF Word, Types
  <2>3. \E i \in DOMAIN tty : tty[i].word = w
    BY <1>5, <2>1
  <2>4. (\A i \in DOMAIN tty : tty[i].word = w => tty[i].call = number[c]) => answer.call = number[c]
    <3> HAVE \A i \in DOMAIN tty : tty[i].word = w => tty[i].call = number[c]
    <3>1. PICK i \in 1..k : tty[i].word = w
      BY <2>1
    <3>2. tty[i] = Word(w, number[c])
      BY <1>4, <1>5, <3>1 DEF Word
    <3> QED BY <3>2 DEF Word
  <2>5. /\ w = "CONNECT" => /\ Goto(c, "online") /\ At(c, 8) /\ Result(c, answer)
                            /\ attempt' = [attempt EXCEPT ![c] = 0]
        /\ w # "CONNECT" => Missed(c, answer) /\ attempt' = attempt
    BY <1>1, <1>8 DEF DialAt, HangupAt
  <2> HIDE DEF answer, w
  <2>6. IsAnswer(c, answer)
    BY <2>2, <2>3, <2>4 DEF IsAnswer
  <2>7. IF answer.word = "CONNECT"
        THEN /\ Goto(c, "online") /\ At(c, 8) /\ Result(c, answer)
             /\ attempt' = [attempt EXCEPT ![c] = 0]
        ELSE Missed(c, answer) /\ attempt' = attempt
    BY <2>2, <2>5
  <2> QED BY <1>2, <1>8, <2>6, <2>7
<1> QED BY <1>7, <1>8

\* An answer of Init, Configure or Hangup.
StepAnswered(c) ==
    /\ attempt'[c] = attempt[c]
    /\ \/ pos[c] = 2 /\ Moves(c, "talk", 3) /\ outcome'[c] = outcome[c]
       \/ pos[c] = 9 /\ Moves(c, "close", 1) /\ outcome'[c] = outcome[c]
       \/ /\ pos[c] \in 3..6 /\ Heard({"OK", "ERROR"}) /\ outcome'[c] = outcome[c]
          /\ \/ Moves(c, "talk", pos[c] + 1)
             \/ pos[c] = 5 /\ Moves(c, "talk", 7)
             \/ c \in Probes /\ pos[c] \in {5, 6} /\ Moves(c, "close", 1)
       \/ pos[c] \in 3..6 /\ Moves(c, "close", 1) /\ outcome'[c] = Word("REFUSED", 0)

\* An answer of Dial.
DialAnswered(c) ==
    /\ pos[c] = 7
    /\ IsAnswer(c, outcome'[c])
    /\ IF outcome'[c].word = "CONNECT"
       THEN Moves(c, "online", 8) /\ attempt'[c] = 0
       ELSE MovesOn(c) /\ attempt'[c] = attempt[c]

\* An answer is one of Init, Configure or Hangup, or the result of Dial.
LEMMA ReplyFacts ==
    ASSUME Types, NEW c \in Clients, Reply(c)
    PROVE  /\ Others(c)
           /\ UNCHANGED <<mode, call, wire, quiet, bridge, present, handle, number, placed, faults>>
           /\ pc[c] = "talk" /\ stage[c] = "wait" /\ handle[c] = "open"
           /\ tty' \in Seq(Said) /\ tty # <<>>
           /\ \A i \in DOMAIN tty' : \E j \in DOMAIN tty : tty'[i] = tty[j]
           /\ StepAnswered(c) \/ DialAnswered(c)
<1>1. /\ UNCHANGED <<mode, call, wire, quiet, bridge, present, handle, number, placed, faults>>
      /\ pc[c] = "talk" /\ stage[c] = "wait" /\ handle[c] = "open"
  BY DEF Reply, Talking
<1>2. /\ tty' \in Seq(Said) /\ tty # <<>>
      /\ \A i \in DOMAIN tty' : \E j \in DOMAIN tty : tty'[i] = tty[j]
  BY ReplyEnds
<1>3. CASE pos[c] \in 3..6 /\ Fails(c, "REFUSED") /\ attempt' = attempt
  BY <1>1, <1>2, <1>3, FailsFacts DEF Others, StepAnswered
<1>4. CASE /\ pos[c] \in {2, 3, 4, 5, 6, 9} /\ Proceed(c) /\ attempt' = attempt
           /\ pos[c] \in 3..6 => Heard({"OK", "ERROR"})
  <2>1. /\ outcome' = outcome
        /\ \A d \in Clients \ {c} : pc'[d] = pc[d] /\ pos'[d] = pos[d] /\ stage'[d] = stage[d]
        /\ \/ pos[c] < 9 /\ Moves(c, "talk", pos[c] + 1)
           \/ pos[c] = 5 /\ Moves(c, "talk", 7)
           \/ (pos[c] = 9 \/ (c \in Probes /\ pos[c] \in {5, 6})) /\ Moves(c, "close", 1)
    BY <1>1, <1>4, ProceedFacts
  <2>2. Others(c)
    BY <1>1, <1>4, <2>1 DEF Others
  <2>3. StepAnswered(c)
    BY <1>4, <2>1 DEF StepAnswered
  <2> QED BY <1>1, <1>2, <2>2, <2>3
<1>5. CASE /\ pos[c] = 7
           /\ \E answer : /\ IsAnswer(c, answer)
                          /\ IF answer.word = "CONNECT"
                             THEN /\ Goto(c, "online") /\ At(c, 8) /\ Result(c, answer)
                                  /\ attempt' = [attempt EXCEPT ![c] = 0]
                             ELSE Missed(c, answer) /\ attempt' = attempt
  <2>1. PICK answer : /\ IsAnswer(c, answer)
                      /\ IF answer.word = "CONNECT"
                         THEN /\ Goto(c, "online") /\ At(c, 8) /\ Result(c, answer)
                              /\ attempt' = [attempt EXCEPT ![c] = 0]
                         ELSE Missed(c, answer) /\ attempt' = attempt
    BY <1>5
  <2>2. CASE answer.word = "CONNECT"
    <3>1. /\ Moves(c, "online", 8) /\ attempt'[c] = 0 /\ outcome'[c] = answer /\ Others(c)
      BY <1>1, <2>1, <2>2 DEF Goto, At, Result, Moves, Others, Types
    <3> QED BY <1>1, <1>2, <1>5, <2>1, <2>2, <3>1 DEF DialAnswered
  <2>3. CASE answer.word # "CONNECT"
    <3>1. /\ MovesOn(c) /\ attempt' = attempt /\ outcome'[c] = answer /\ Others(c)
      BY <1>1, <2>1, <2>3, MissedFacts DEF Others
    <3> QED BY <1>1, <1>2, <1>5, <2>1, <2>3, <3>1 DEF DialAnswered
  <2> QED BY <2>2, <2>3
<1> QED BY <1>3, <1>4, <1>5, ReplyEnds

\* c goes to label and keeps its place in the script.
Keeps(c, label) == pc'[c] = label /\ pos'[c] = pos[c] /\ stage'[c] = stage[c]

\* The steps that leave the modem alone.
Walk(c) ==
    \/ Start(c) \/ OpenOk(c) \/ OpenFail(c) \/ Retry(c) \/ Release(c) \/ BridgeGone(c)
    \/ WaitFails(c) \/ DeviceReady(c) \/ HangUp(c) \/ LineLost(c) \/ NoLog(c)

\* What each of them does to c.
WalkCase(c) ==
    \/ /\ pc[c] = "idle" /\ Keeps(c, "opening") /\ attempt'[c] = 1
       /\ outcome'[c] = outcome[c] /\ handle'[c] = handle[c]
       /\ "shared" \notin faults' => \A d \in Clients : pc[d] = "idle"
    \/ /\ pc[c] = "opening" /\ Moves(c, "talk", 1) /\ handle'[c] = "open"
       /\ attempt'[c] = attempt[c] /\ outcome'[c] = outcome[c]
    \/ /\ pc[c] \in {"opening", "killed", "device"} /\ Keeps(c, "closed")
       /\ outcome'[c] = Word("IO_ERROR", 0)
       /\ attempt'[c] = attempt[c] /\ handle'[c] = handle[c]
    \/ /\ pc[c] = "closed" /\ c \in Hubs /\ outcome[c].word \in {"NO_CARRIER", "TIMEOUT"}
       /\ attempt[c] < MaxRetries /\ attempt'[c] = attempt[c] + 1
       /\ Keeps(c, "bridge") /\ outcome'[c] = Nothing /\ handle'[c] = handle[c]
    \/ /\ pc[c] = "closed" /\ Keeps(c, "idle") /\ attempt'[c] = 0 /\ outcome'[c] = Nothing
       /\ handle'[c] = handle[c]
    \/ /\ pc[c] \in {"bridge", "killed"} /\ Keeps(c, "device")
       /\ bridge = "none" \/ "blind" \in faults'
       /\ attempt'[c] = attempt[c] /\ outcome'[c] = outcome[c] /\ handle'[c] = handle[c]
    \/ /\ pc[c] = "device" /\ Keeps(c, "opening")
       /\ attempt'[c] = attempt[c] /\ outcome'[c] = outcome[c] /\ handle'[c] = handle[c]
    \/ /\ pc[c] = "online" /\ Keeps(c, "talk")
       /\ attempt'[c] = attempt[c] /\ outcome'[c] = outcome[c] /\ handle'[c] = handle[c]
    \/ /\ pc[c] = "online" /\ Moves(c, "close", 1)
       /\ handle[c] = "dead" \/ c \in Probes
       /\ attempt'[c] = attempt[c] /\ outcome'[c] = outcome[c] /\ handle'[c] = handle[c]

\* What each step of acquireAndDial around an attempt does to its client.
LEMMA WalkFacts ==
    ASSUME Types, NEW c \in Clients, Walk(c)
    PROVE  /\ Others(c) /\ UNCHANGED <<modemVars, number, placed>>
           /\ faults \subseteq faults' /\ faults' \subseteq FaultKinds
           /\ WalkCase(c)
<1> USE DEF Types, Others, Goto, At, Result, Moves, Keeps, WalkCase
<1>1. CASE Start(c)
  BY <1>1 DEF Start, Fault, FaultKinds
<1>2. CASE OpenOk(c)
  BY <1>2 DEF OpenOk
<1>3. CASE OpenFail(c)
  BY <1>3 DEF OpenFail
<1>4. CASE Retry(c)
  BY <1>4 DEF Retry, Retrying
<1>5. CASE Release(c)
  BY <1>5 DEF Release
<1>6. CASE BridgeGone(c)
  BY <1>6 DEF BridgeGone, Fault, FaultKinds
<1>7. CASE WaitFails(c)
  BY <1>7 DEF WaitFails
<1>8. CASE DeviceReady(c)
  BY <1>8 DEF DeviceReady
<1>9. CASE HangUp(c)
  BY <1>9 DEF HangUp
<1>10. CASE LineLost(c)
  BY <1>10 DEF LineLost
<1>11. CASE NoLog(c)
  BY <1>11 DEF NoLog
<1> QED BY <1>1, <1>2, <1>3, <1>4, <1>5, <1>6, <1>7, <1>8, <1>9, <1>10, <1>11 DEF Walk

\* Modem.Close.
LEMMA CloseFacts ==
    ASSUME Types, NEW c \in Clients, Close(c)
    PROVE  /\ Others(c) /\ UNCHANGED <<attempt, outcome, number, placed, faults>>
           /\ UNCHANGED <<mode, call, wire, tty, bridge, present>>
           /\ pc[c] = "close" /\ Keeps(c, "closed") /\ handle'[c] = "none" /\ quiet' = quiet \ {c}
BY DEF Types, Others, Close, Goto, Keeps

\* The bridge that stays, or that goes and takes a call with it.
BridgeKillMild(c) ==
    \/ UNCHANGED modemVars
    \/ /\ bridge' = "none" /\ UNCHANGED <<wire, quiet, present>>
       /\ \/ mode = "command" /\ UNCHANGED <<mode, call, tty>>
          \/ mode # "command" /\ mode' = "command" /\ call' = 0 /\ Says(<<Word("NO_CARRIER", call)>>)

\* killBridgeProcess: the bridge, perhaps the call or slmodemd go; no
\* client moves but its own.
LEMMA BridgeKillFacts ==
    ASSUME Types, NEW c \in Clients, BridgeKill(c)
    PROVE  /\ pc[c] = "bridge" /\ bridge # "none"
           /\ pc' = [pc EXCEPT ![c] = "killed"]
           /\ UNCHANGED <<pos, stage, attempt, outcome, number, dials, placed, faults>>
           /\ (handle' = handle /\ BridgeKillMild(c)) \/ (Dies /\ handle' = Deaden)
BY DEF BridgeKill, BridgeKillMild, Goto, modemVars

-----------------------------------------------------------------------------
(* The types.                                                              *)

ModemTypes ==
    /\ wire \in Seq(Item) /\ tty \in Seq(Said)
    /\ mode \in {"command", "dialing", "online", "escaped"}
    /\ call \in Nat
    /\ quiet \subseteq Writers
    /\ bridge \in {"none", "active", "stale"}
    /\ present \in BOOLEAN

\* Some word is said, or none.
LEMMA SaysType ==
    ASSUME Types, NEW w \in Words, NEW n \in Nat, Says(<<Word(w, n)>>)
    PROVE  tty' \in Seq(Said)
BY SaysWord DEF Types

\* The modem keeps its types, also when it dies.
LEMMA ModemStepTypes ==
    ASSUME Types, Modem \/ RemoteText \/ Dies
    PROVE  ModemTypes'
<1> USE DEF ModemTypes
<1>0. ModemTypes /\ {"OK", "ERROR", "NO_CARRIER", "CONNECT", "BUSY", "NO_DIALTONE"} \subseteq Words
  BY DEF Types, Words, Results
<1>1. CASE Take
  <2>1. wire # <<>> /\ wire' = Tail(wire) /\ UNCHANGED <<quiet, present>>
    BY <1>1, TakeCases
  <2>2. wire' \in Seq(Item) /\ wire[1] \in Item
    BY <1>0, <2>1, TailFacts
  <2>3. wire[1].call \in Nat
    BY <2>2 DEF Item
  <2>4. /\ mode' \in {"command", "dialing", "online", "escaped"} /\ call' \in Nat
        /\ bridge' \in {"none", "active", "stale"}
    BY <1>0, <1>1, <2>3, TakeCases
  <2>5. tty' \in Seq(Said)
    <3>1. \/ tty' = tty
          \/ Says(<<Word("NO_CARRIER", wire[1].call)>>) \/ Says(<<Word("NO_CARRIER", call)>>)
          \/ \E w \in {"OK", "ERROR"} : Says(<<Word(w, 0)>>)
      BY <1>1, TakeCases
    <3> QED BY <1>0, <2>3, <3>1, SaysType
  <2> QED BY <1>0, <2>1, <2>2, <2>4, <2>5
<1>2. CASE Answered
  BY <1>0, <1>2, SaysType DEF Answered
<1>3. CASE CallLost
  BY <1>0, <1>3, SaysType DEF CallLost, CallEnds
<1>4. CASE BridgeExits \/ Respawn
  BY <1>0, <1>4 DEF BridgeExits, Respawn
<1>5. CASE RemoteText
  <2>1. RemoteWords \subseteq Words
    BY DialerAssumption
  <2> QED BY <1>0, <1>5, <2>1, SaysType DEF RemoteText
<1>6. CASE Dies
  <2>1. /\ mode' = "command" /\ call' = 0 /\ wire' = <<>> /\ tty' = <<>> /\ quiet' = {}
        /\ present' = FALSE /\ bridge' \in {"none", "stale"}
    BY <1>6 DEF Dies
  <2>2. wire' \in Seq(Item) /\ tty' \in Seq(Said)
    BY <2>1
  <2> QED BY <2>1, <2>2
<1> QED BY <1>1, <1>2, <1>3, <1>4, <1>5, <1>6 DEF Modem

ClientTypes ==
    /\ pc \in [Clients -> {"idle", "opening", "talk", "online", "close", "closed",
                           "bridge", "killed", "device"}]
    /\ pos \in [Clients -> 1..9]
    /\ stage \in [Clients -> {"begin", "rest", "wait"}]
    /\ attempt \in [Clients -> 0..MaxRetries]
    /\ outcome \in [Clients -> [word : Outcomes, call : Nat]]
    /\ handle \in [Clients -> {"none", "open", "dead"}]
    /\ number \in [Clients -> Nat]
    /\ dials \in [Clients -> 0..MaxDials]
    /\ placed \in Nat
    /\ faults \subseteq FaultKinds

\* The types of the modem and those of its clients.
LEMMA TypesSplit == Types <=> ModemTypes /\ ClientTypes
BY DEF Types, ModemTypes, ClientTypes

\* The types at the start.
LEMMA InitTypes == ASSUME Init PROVE Types
<1>1. ModemTypes
  BY DEF Init, ModemInit, ModemTypes, Item, Said
<1>2. ClientTypes
  BY DialerAssumption DEF Init, ClientTypes, Nothing, Word, Outcomes
<1> QED BY <1>1, <1>2, TypesSplit

\* The errors that are no word of the modem, and nothing, are outcomes.
LEMMA OutcomeTypes ==
    ASSUME NEW w \in {"none", "TIMEOUT", "REFUSED", "NO_RESPONSE", "IO_ERROR"}
    PROVE  Word(w, 0) \in [word : Outcomes, call : Nat]
BY DEF Word, Outcomes

\* The part of c's state that the ends of a step write.
WalkTypes ==
    /\ pc' \in [Clients -> {"idle", "opening", "talk", "online", "close", "closed",
                            "bridge", "killed", "device"}]
    /\ pos' \in [Clients -> 1..9]
    /\ stage' \in [Clients -> {"begin", "rest", "wait"}]
    /\ outcome' \in [Clients -> [word : Outcomes, call : Nat]]

\* The ends of a step keep the types of what they write.
LEMMA MoveTypes ==
    ASSUME Types, NEW c \in Clients, pc[c] = "talk",
           \/ pos[c] # 7 /\ Proceed(c)
           \/ pos[c] = 8 /\ HungUp(c)
           \/ \E w \in {"none", "TIMEOUT", "REFUSED", "NO_RESPONSE", "IO_ERROR"} : Fails(c, w)
           \/ \E w \in [word : Outcomes, call : Nat] : Missed(c, w)
    PROVE  WalkTypes
<1> USE DEF WalkTypes, At, Goto, Result
<1>1. CASE pos[c] # 7 /\ Proceed(c)
  <2>1. pos[c] \in 1..9
    BY DEF Types
  <2>2. /\ outcome' = outcome /\ stage' = [stage EXCEPT ![c] = "begin"]
        /\ pc' = pc \/ pc' = [pc EXCEPT ![c] = "close"]
        /\ \E n \in 1..9 : pos' = [pos EXCEPT ![c] = n]
    BY <1>1, <2>1, ScriptFacts DEF Proceed, DialAt
  <2>3. PICK n \in 1..9 : pos' = [pos EXCEPT ![c] = n]
    BY <2>2
  <2>4. pos' \in [Clients -> 1..9]
    BY <2>3 DEF Types
  <2> QED BY <2>2, <2>4 DEF Types
<1>2. CASE pos[c] = 8 /\ HungUp(c)
  BY <1>2 DEF HungUp, Types
<1>3. CASE \E w \in {"none", "TIMEOUT", "REFUSED", "NO_RESPONSE", "IO_ERROR"} : Fails(c, w)
  BY <1>3, OutcomeTypes DEF Fails, Types
<1>4. CASE \E w \in [word : Outcomes, call : Nat] : Missed(c, w)
  <2>1. PICK w \in [word : Outcomes, call : Nat] : Missed(c, w)
    BY <1>4
  <2>2. outcome' \in [Clients -> [word : Outcomes, call : Nat]]
    BY <2>1 DEF Missed, Types
  <2>3. /\ pc' = pc \/ pc' = [pc EXCEPT ![c] = "close"]
        /\ pos' = [pos EXCEPT ![c] = 8] \/ pos' = [pos EXCEPT ![c] = 1]
        /\ stage' = [stage EXCEPT ![c] = "begin"]
    BY <2>1 DEF Missed, HangupAt
  <2>4. pos' \in [Clients -> 1..9]
    <3>1. PICK n \in 1..9 : pos' = [pos EXCEPT ![c] = n]
      BY <2>3
    <3> QED BY <3>1 DEF Types
  <2>5. stage' \in [Clients -> {"begin", "rest", "wait"}]
    BY <2>3 DEF Types
  <2> QED BY <2>2, <2>3, <2>4, <2>5 DEF Types
<1> QED BY <1>1, <1>2, <1>3, <1>4

\* The types are kept by the dialogue with the modem.
LEMMA TalkTypes ==
    ASSUME Types, PlaceInv, NEW c \in Clients, Talk(c)
    PROVE  Types'
<1>0. ModemTypes /\ ClientTypes /\ <<>> \in Seq(Said) /\ c \in Writers
  BY TypesSplit, ClientsWrite
<1>1. CASE Rest(c)
  <2>1. /\ UNCHANGED <<pc, pos, attempt, outcome, handle, number, dials, placed, faults>>
        /\ UNCHANGED <<mode, call, wire, bridge, present>>
        /\ tty' = tty \/ tty' = <<>>
        /\ quiet' = quiet \cup {c} \/ quiet' = quiet
        /\ stage' = [stage EXCEPT ![c] = "rest"]
    BY <1>1, HereFacts DEF Rest, Stay
  <2> QED BY <1>0, <2>1 DEF Types
<1>2. CASE Escape(c)
  <2>1. /\ UNCHANGED <<mode, call, tty, bridge, present, attempt, handle, number, dials, placed, faults>>
        /\ pc[c] = "talk"
    BY <1>2 DEF Escape, Talking
  <2>2. CASE handle[c] = "open"
    <3>1. /\ Put(c, "+++", 0) /\ stage' = [stage EXCEPT ![c] = "wait"]
          /\ UNCHANGED <<pc, pos, outcome>>
      BY <1>2, <2>2 DEF Escape, Stay
    <3>2. wire' \in Seq(Item) /\ quiet' \subseteq Writers
      BY <1>0, <3>1, PutFacts DEF Types, Commands
    <3> QED BY <2>1, <3>1, <3>2 DEF Types
  <2>3. CASE handle[c] # "open"
    <3>1. pos[c] \in {1, 8}
      BY <1>2, EscapeFacts
    <3>2. /\ IF pos[c] = 8 THEN HungUp(c) ELSE Proceed(c)
          /\ UNCHANGED <<wire, quiet>>
      BY <1>2, <2>3 DEF Escape, HangupAt
    <3>3. WalkTypes
      BY <2>1, <3>1, <3>2, MoveTypes
    <3> QED BY <2>1, <3>2, <3>3 DEF Types, WalkTypes
  <2> QED BY <2>2, <2>3
<1>3. CASE Escaped(c)
  <2>1. /\ UNCHANGED <<modemVars, attempt, handle, number, dials, placed>>
        /\ pc[c] = "talk" /\ pos[c] # 7 /\ Proceed(c) /\ faults' \subseteq FaultKinds
    BY <1>3, HereFacts, DeadlineFacts DEF Escaped, Talking
  <2>2. WalkTypes
    BY <2>1, MoveTypes
  <2> QED BY <2>1, <2>2 DEF Types, WalkTypes, modemVars
<1>4. CASE Send(c)
  <2>1. /\ UNCHANGED <<mode, call, bridge, present, pc, pos, attempt, outcome, handle, dials, faults>>
        /\ stage' = [stage EXCEPT ![c] = "wait"]
        /\ tty' = tty \/ tty' = <<>>
    BY <1>4, HereFacts DEF Send, Stay
  <2>2. \E n \in Nat : Put(c, Here(c).cmd, n)
    <3>1. placed \in Nat /\ (pos[c] = 7 => Here(c).cmd = "ATDT")
      BY HereFacts DEF Types
    <3> QED BY <1>4, <3>1, SendFacts
  <2>3. wire' \in Seq(Item) /\ quiet' \subseteq Writers
    BY <1>0, <1>4, <2>2, PutFacts, HereFacts DEF Types
  <2>4. placed' \in Nat /\ number' \in [Clients -> Nat]
    <3>1. placed \in Nat /\ number \in [Clients -> Nat]
      BY DEF Types
    <3>2. CASE Here(c).cmd = "ATDT"
      <4>1. placed' = placed + 1 /\ number' = [number EXCEPT ![c] = placed + 1]
        BY <1>4, <3>2 DEF Send
      <4> QED BY <3>1, <4>1
    <3>3. CASE Here(c).cmd # "ATDT"
      <4>1. placed' = placed /\ number' = [number EXCEPT ![c] = number[c]]
        BY <1>4, <3>3 DEF Send
      <4> QED BY <3>1, <4>1
    <3> QED BY <3>2, <3>3
  <2> QED BY <1>0, <2>1, <2>3, <2>4 DEF Types
<1>5. CASE SendFails(c)
  <2>1. /\ UNCHANGED <<modemVars, attempt, handle, number, dials, placed, faults>> /\ pc[c] = "talk"
    BY <1>5 DEF SendFails, Talking
  <2>2. \/ pos[c] # 7 /\ Proceed(c)
        \/ Fails(c, "IO_ERROR")
        \/ Missed(c, Word("IO_ERROR", 0))
    BY <1>5, HereFacts DEF SendFails, DialAt
  <2>3. WalkTypes
    BY <2>1, <2>2, MoveTypes, OutcomeTypes
  <2> QED BY <2>1, <2>3 DEF Types, WalkTypes, modemVars
<1>6. CASE Timeout(c)
  <2>1. /\ UNCHANGED <<mode, call, wire, quiet, bridge, present, attempt, handle, number, dials, placed>>
        /\ tty' = tty \/ tty' = <<>>
        /\ pc[c] = "talk" /\ faults' \subseteq FaultKinds
    BY <1>6, DeadlineFacts DEF Timeout, Talking
  <2>2. \/ pos[c] # 7 /\ Proceed(c)
        \/ Fails(c, "IO_ERROR") \/ Fails(c, "NO_RESPONSE")
        \/ Missed(c, Word("TIMEOUT", 0))
    BY <1>6, HereFacts DEF Timeout, DialAt
  <2>3. WalkTypes
    BY <2>1, <2>2, MoveTypes, OutcomeTypes
  <2> QED BY <1>0, <2>1, <2>3 DEF Types, WalkTypes
<1>7. CASE Reply(c)
  <2>1. /\ UNCHANGED <<mode, call, wire, quiet, bridge, present, handle, number, dials, placed, faults>>
        /\ tty' \in Seq(Said) /\ pc[c] = "talk"
    BY <1>7, ReplyFacts DEF Reply
  <2>2. [word : Results, call : Nat] \subseteq [word : Outcomes, call : Nat]
    BY DEF Outcomes, Words
  <2>3. CASE pos[c] # 7
    <3>1. attempt' = attempt /\ (Fails(c, "REFUSED") \/ Proceed(c))
      BY <1>7, <2>3, ReplyEnds
    <3>2. WalkTypes
      BY <2>1, <2>3, <3>1, MoveTypes
    <3> QED BY <2>1, <3>1, <3>2 DEF Types, WalkTypes
  <2>4. CASE pos[c] = 7
    <3>1. PICK answer : /\ IsAnswer(c, answer)
                        /\ IF answer.word = "CONNECT"
                           THEN /\ Goto(c, "online") /\ At(c, 8) /\ Result(c, answer)
                                /\ attempt' = [attempt EXCEPT ![c] = 0]
                           ELSE Missed(c, answer) /\ attempt' = attempt
      BY <1>7, <2>4, ReplyEnds
    <3>2. answer \in [word : Outcomes, call : Nat]
      BY <2>2, <3>1 DEF IsAnswer
    <3>3. CASE answer.word = "CONNECT"
      <4>1. 0 \in 0..MaxRetries
        BY DialerAssumption
      <4>2. /\ pc' = [pc EXCEPT ![c] = "online"] /\ pos' = [pos EXCEPT ![c] = 8]
            /\ stage' = [stage EXCEPT ![c] = "begin"] /\ outcome' = [outcome EXCEPT ![c] = answer]
            /\ attempt' = [attempt EXCEPT ![c] = 0]
        BY <3>1, <3>3 DEF Goto, At, Result
      <4>3. /\ attempt' \in [Clients -> 0..MaxRetries]
            /\ outcome' \in [Clients -> [word : Outcomes, call : Nat]]
        BY <3>2, <4>1, <4>2 DEF Types
      <4>4. pos' \in [Clients -> 1..9]
        BY <4>2 DEF Types
      <4> QED BY <2>1, <4>2, <4>3, <4>4 DEF Types
    <3>4. CASE answer.word # "CONNECT"
      <4>1. WalkTypes
        BY <2>1, <3>1, <3>2, <3>4, MoveTypes
      <4> QED BY <2>1, <3>1, <3>4, <4>1 DEF Types, WalkTypes
    <3> QED BY <3>3, <3>4
  <2> QED BY <2>3, <2>4
<1> QED BY <1>1, <1>2, <1>3, <1>4, <1>5, <1>6, <1>7 DEF Talk

\* The types are kept by every step.
LEMMA StepTypes ==
    ASSUME Types, PlaceInv, [Next]_vars
    PROVE  Types'
<1>0. ModemTypes /\ ClientTypes /\ MaxRetries \in Nat \ {0} /\ MaxDials \in Nat
  BY TypesSplit, DialerAssumption
<1>1. CASE Modem /\ UNCHANGED <<clientVars, faults>>
  <2>1. ClientTypes'
    BY <1>0, <1>1 DEF ClientTypes, clientVars, Modem, Take, Answered, CallLost, BridgeExits, Respawn
  <2> QED BY <1>1, <2>1, ModemStepTypes DEF Types, ModemTypes, ClientTypes
<1>2. CASE Chatter
  BY <1>0, <1>2, ModemStepTypes DEF Types, ModemTypes, ClientTypes, Chatter, clientVars, Fault, FaultKinds
<1>3. CASE ModemCrash
  <2>1. ModemTypes'
    BY <1>3, ModemStepTypes DEF ModemCrash
  <2>2. handle' \in [Clients -> {"none", "open", "dead"}]
    BY <1>0, <1>3 DEF ModemCrash, Deaden, ClientTypes
  <2> QED BY <1>0, <1>3, <2>1, <2>2 DEF Types, ModemTypes, ClientTypes, ModemCrash, Fault, FaultKinds
<1>4. CASE \E c \in Clients : Talk(c)
  BY <1>4, TalkTypes
<1>5. ASSUME NEW c \in Clients, Walk(c)
      PROVE  Types'
  <2>0. UNCHANGED modemVars /\ faults' \subseteq FaultKinds /\ UNCHANGED <<number, placed>>
    BY <1>5, WalkFacts
  <2>1. CASE Start(c)
    BY <1>0, <2>0, <2>1 DEF Start, Types, modemVars, Goto
  <2>2. CASE OpenOk(c)
    <3>1. pos' \in [Clients -> 1..9]
      BY <2>2 DEF OpenOk, At, Types
    <3> QED BY <2>0, <2>2, <3>1 DEF OpenOk, Types, modemVars, Goto, At
  <2>3. CASE OpenFail(c) \/ WaitFails(c)
    <3>1. /\ pc' = [pc EXCEPT ![c] = "closed"]
          /\ outcome' = [outcome EXCEPT ![c] = Word("IO_ERROR", 0)]
          /\ UNCHANGED <<pos, stage, attempt, handle, dials>>
      BY <2>3 DEF OpenFail, WaitFails, Goto, Result
    <3>2. outcome' \in [Clients -> [word : Outcomes, call : Nat]]
      BY <3>1, OutcomeTypes DEF Types
    <3> QED BY <2>0, <3>1, <3>2 DEF Types, modemVars
  <2>4. CASE Retry(c)
    <3>1. attempt[c] \in 0..MaxRetries /\ attempt[c] < MaxRetries
      BY <2>4 DEF Types, Retry, Retrying
    <3>2. attempt[c] + 1 \in 0..MaxRetries
      BY <1>0, <3>1
    <3> QED BY <2>0, <2>4, <3>2, OutcomeTypes DEF Retry, Types, modemVars, Goto, Result, Nothing
  <2>5. CASE Release(c)
    <3>1. 0 \in 0..MaxRetries
      BY <1>0
    <3> QED BY <2>0, <2>5, <3>1, OutcomeTypes DEF Release, Types, modemVars, Goto, Result, Nothing
  <2>6. CASE BridgeGone(c) \/ DeviceReady(c) \/ HangUp(c)
    BY <2>0, <2>6 DEF BridgeGone, DeviceReady, HangUp, Types, modemVars, Goto
  <2>7. CASE LineLost(c) \/ NoLog(c)
    <3>1. pos' \in [Clients -> 1..9]
      <4>1. pos' = [pos EXCEPT ![c] = 1]
        BY <2>7 DEF LineLost, NoLog, At
      <4> QED BY <4>1 DEF Types
    <3> QED BY <2>0, <2>7, <3>1 DEF LineLost, NoLog, Types, modemVars, Goto, At
  <2> QED BY <1>5, <2>1, <2>2, <2>3, <2>4, <2>5, <2>6, <2>7 DEF Walk
<1>6. CASE \E c \in Clients : Close(c)
  BY <1>6 DEF Close, Goto, Types
<1>7. CASE \E c \in Clients : BridgeKill(c)
  <2>1. PICK c \in Clients : BridgeKill(c)
    BY <1>7
  <2>2. /\ pc' = [pc EXCEPT ![c] = "killed"]
        /\ UNCHANGED <<pos, stage, attempt, outcome, number, dials, placed, faults>>
    BY <2>1, BridgeKillFacts
  <2>3. CASE handle' = handle /\ BridgeKillMild(c)
    <3>1. tty' \in Seq(Said)
      BY <2>3, SaysType DEF BridgeKillMild, modemVars, Types, Words, Results
    <3> QED BY <2>2, <2>3, <3>1 DEF BridgeKillMild, modemVars, Types
  <2>4. CASE Dies /\ handle' = Deaden
    <3>1. ModemTypes'
      BY <2>4, ModemStepTypes
    <3>2. handle' \in [Clients -> {"none", "open", "dead"}]
      BY <1>0, <2>4 DEF Deaden, ClientTypes
    <3> QED BY <2>2, <3>1, <3>2 DEF ModemTypes, Types
  <2> QED BY <2>1, <2>3, <2>4, BridgeKillFacts
<1>8. CASE \E c \in Clients : LateWrite(c)
  <2>1. PICK c \in Clients : LateWrite(c)
    BY <1>8
  <2>2. Put("batch", "text", 0) /\ faults' \subseteq FaultKinds
        /\ UNCHANGED <<mode, call, tty, bridge, present, clientVars>>
    BY <2>1 DEF LateWrite, Fault, FaultKinds, Types
  <2>3. wire' \in Seq(Item) /\ quiet' \subseteq Writers
    BY <2>2, PutFacts, ClientsWrite DEF Types, Commands
  <2> QED BY <2>2, <2>3 DEF Types, clientVars
<1>9. CASE \E gone \in {Hubs} \cup {{c} : c \in Probes} : Crash(gone)
  <2>1. PICK gone : Crash(gone)
    BY <1>9
  <2>2. 0 \in 0..MaxRetries /\ 1 \in 1..9 /\ Nothing \in [word : Outcomes, call : Nat]
    BY <1>0, OutcomeTypes DEF Nothing
  <2>3. /\ pc' \in [Clients -> {"idle", "opening", "talk", "online", "close", "closed",
                                "bridge", "killed", "device"}]
        /\ stage' \in [Clients -> {"begin", "rest", "wait"}]
        /\ handle' \in [Clients -> {"none", "open", "dead"}]
    BY <2>1 DEF Crash, Types
  <2>4. attempt' \in [Clients -> 0..MaxRetries] /\ pos' \in [Clients -> 1..9]
    BY <2>1, <2>2 DEF Crash, Types
  <2>5. outcome' \in [Clients -> [word : Outcomes, call : Nat]]
    BY <2>1, <2>2 DEF Crash, Types
  <2>6. /\ UNCHANGED <<mode, call, wire, tty, bridge, present, number, dials, placed>>
        /\ quiet' \subseteq Writers /\ faults' \subseteq FaultKinds
    BY <2>1 DEF Crash, Fault, FaultKinds, Types
  <2> QED BY <2>3, <2>4, <2>5, <2>6 DEF Types
<1>10. CASE UNCHANGED vars \/ Terminating
  BY <1>10 DEF Terminating, vars, modemVars, clientVars, Types
<1> QED BY <1>1, <1>2, <1>3, <1>4, <1>5, <1>6, <1>7, <1>8, <1>9, <1>10 DEF Next, Run, Walk

-----------------------------------------------------------------------------
(* PlaceInv.                                                               *)

\* What holds of a client that does nothing keeps holding.
LEMMA OthersPlace ==
    ASSUME NEW c \in Clients, PlaceInv, Others(c)
    PROVE  \A d \in Clients \ {c} : PlaceOf(d)'
BY DEF PlaceInv, PlaceOf, Others, OpenPc

\* A rest that is kept is the rest of a client whose device still works.
LEMMA OthersQuiet ==
    ASSUME NEW c \in Clients, PlaceInv, Others(c), quiet' \subseteq quiet \cup {c},
           c \in quiet' => handle'[c] = "open"
    PROVE  quiet' \subseteq {d \in Clients : handle'[d] = "open"}
BY DEF PlaceInv, Others

\* Nobody has a device at the start.
LEMMA InitPlace == ASSUME Init PROVE PlaceInv
BY DEF Init, ModemInit, PlaceInv, PlaceOf, OpenPc, Nothing, Word

\* A client that has been connected is past Dial.
LEMMA LatePlace ==
    ASSUME Types, PlaceInv, NEW c \in Clients, pc[c] = "talk", outcome[c].word = "CONNECT"
    PROVE  pos[c] \in 8..9
<1>1. pos[c] \in 1..9 /\ (pos[c] < 8 => outcome[c] = Nothing)
  BY DEF Types, PlaceInv, PlaceOf, HangupAt
<1>2. Nothing.word = "none"
  BY DEF Nothing, Word
<1>3. ~(pos[c] < 8)
  BY <1>1, <1>2
<1> QED BY <1>1, <1>3

\* A client's own steps.
LEMMA TalkPlace ==
    ASSUME Types, PlaceInv, NEW c \in Clients, Talk(c)
    PROVE  PlaceInv'
<1> DEFINE Goal == Others(c) /\ quiet' \subseteq quiet \cup {c} /\ (c \in quiet' => handle'[c] = "open")
                   /\ PlaceOf(c)'
<1> SUFFICES Goal
  BY OthersPlace, OthersQuiet DEF PlaceInv
<1>0. PlaceOf(c) /\ pos[c] \in 1..9 /\ (c \in quiet => handle[c] = "open") /\ c \in Writers
  BY ClientsWrite DEF PlaceInv, Types
<1> USE DEF PlaceOf, OpenPc, HangupAt, Moves
<1>1. CASE Rest(c)
  BY <1>0, <1>1, RestFacts
<1>2. CASE Escape(c)
  <2>1. quiet' \subseteq quiet \cup {c} /\ (c \in quiet' => c \in quiet)
    BY <1>0, <1>2, EscapeFacts, PutFacts DEF Types, Commands
  <2> QED BY <1>0, <1>2, <2>1, EscapeFacts
<1>3. CASE Escaped(c)
  BY <1>0, <1>3, EscapedFacts DEF modemVars
<1>4. CASE Send(c)
  <2>1. quiet' \subseteq quiet \cup {c}
    BY <1>0, <1>4, SendPuts, PutFacts DEF Types
  <2> QED BY <1>0, <1>4, <2>1, SendFacts
<1>5. CASE SendFails(c)
  <2>1. outcome'[c].word # "CONNECT" \/ outcome'[c] = outcome[c]
    BY <1>5, SendFailsFacts DEF Unanswered, Word
  <2> QED BY <1>0, <1>5, <2>1, SendFailsFacts DEF Unanswered, MovesOn, modemVars
<1>6. CASE Timeout(c)
  <2>1. outcome'[c].word # "CONNECT" \/ outcome'[c] = outcome[c]
    <3>1. \E w \in {"NO_RESPONSE", "IO_ERROR"} : Unanswered(c, Word(w, 0))
      BY <1>6, TimeoutFacts
    <3> QED BY <3>1 DEF Unanswered, Word
  <2> QED BY <1>0, <1>6, <2>1, TimeoutFacts DEF Unanswered, MovesOn
<1>7. CASE Reply(c)
  <2>1. CASE StepAnswered(c)
    <3>1. outcome'[c].word # "CONNECT" \/ outcome'[c] = outcome[c]
      BY <2>1 DEF StepAnswered, Word
    <3> QED BY <1>0, <1>7, <2>1, <3>1, ReplyFacts DEF StepAnswered
  <2>2. CASE DialAnswered(c)
    BY <1>0, <1>7, <2>2, ReplyFacts DEF DialAnswered, MovesOn
  <2> QED BY <1>7, <2>1, <2>2, ReplyFacts
<1> QED BY <1>1, <1>2, <1>3, <1>4, <1>5, <1>6, <1>7 DEF Talk

\* The steps around an attempt keep PlaceInv.
LEMMA WalkPlace ==
    ASSUME Types, PlaceInv, NEW c \in Clients, Walk(c) \/ Close(c)
    PROVE  PlaceInv'
<1> DEFINE Goal == Others(c) /\ quiet' \subseteq quiet \cup {c} /\ (c \in quiet' => handle'[c] = "open")
                   /\ PlaceOf(c)'
<1> SUFFICES Goal
  BY OthersPlace, OthersQuiet DEF PlaceInv
<1>0. PlaceOf(c) /\ pos[c] \in 1..9 /\ (c \in quiet => handle[c] = "open")
  BY DEF PlaceInv, Types
<1> USE DEF PlaceOf, OpenPc, HangupAt, Moves, Keeps
<1>1. CASE Walk(c)
  <2>1. Others(c) /\ quiet' = quiet /\ WalkCase(c)
    BY <1>1, WalkFacts DEF modemVars
  <2>2. outcome'[c].word # "CONNECT" \/ outcome'[c] = outcome[c]
    BY <2>1 DEF WalkCase, Word, Nothing
  <2>3. outcome[c].word \in {"NO_CARRIER", "TIMEOUT"} => outcome[c].word # "CONNECT"
    OBVIOUS
  <2>4. PlaceOf(c)' /\ (handle'[c] = handle[c] \/ handle'[c] = "open")
    BY <1>0, <2>1, <2>2 DEF WalkCase, Nothing, Word
  <2> QED BY <1>0, <2>1, <2>4
<1>2. CASE Close(c)
  BY <1>0, <1>2, CloseFacts
<1> QED BY <1>1, <1>2

\* The modem's steps touch no client, and do not make one quiet.
LEMMA ModemFrame ==
    ASSUME Modem \/ RemoteText
    PROVE  UNCHANGED quiet
BY DEF Modem, Take, Answered, CallLost, BridgeExits, Respawn, RemoteText

\* Every step keeps PlaceInv.
LEMMA StepPlace ==
    ASSUME Types, PlaceInv, [Next]_vars
    PROVE  PlaceInv'
<1> USE DEF PlaceInv, PlaceOf, OpenPc, HangupAt
<1>1. CASE UNCHANGED <<clientVars, faults>> /\ UNCHANGED quiet
  BY <1>1 DEF clientVars
<1>2. CASE (Modem /\ UNCHANGED <<clientVars, faults>>) \/ Chatter
  BY <1>2, ModemFrame DEF Chatter, clientVars
<1>3. CASE ModemCrash
  BY <1>3 DEF ModemCrash, Dies, Deaden, Types
<1>4. CASE \E c \in Clients : Talk(c)
  BY <1>4, TalkPlace
<1>5. CASE \E c \in Clients : Walk(c) \/ Close(c)
  BY <1>5, WalkPlace
<1>6. CASE \E c \in Clients : BridgeKill(c)
  <2>1. PICK c \in Clients : BridgeKill(c)
    BY <1>6
  <2>2. /\ pc' = [pc EXCEPT ![c] = "killed"] /\ pc[c] = "bridge"
        /\ UNCHANGED <<pos, stage, attempt, outcome>>
    BY <2>1, BridgeKillFacts
  <2>3. \/ handle' = handle /\ quiet' = quiet
        \/ handle' = Deaden /\ quiet' = {}
    BY <2>1, BridgeKillFacts DEF BridgeKillMild, Dies, modemVars
  <2>4. \A d \in Clients :
           /\ pc'[d] = pc[d] \/ (pc[d] = "bridge" /\ pc'[d] = "killed")
           /\ handle'[d] = handle[d] \/ (handle[d] = "open" /\ handle'[d] = "dead")
    BY <2>2, <2>3 DEF Deaden, Types
  <2>5. ASSUME NEW d \in Clients
        PROVE  PlaceOf(d)'
    BY <2>2, <2>4, <2>5
  <2>6. quiet' \subseteq {d \in Clients : handle'[d] = "open"}
    <3>1. CASE handle' = handle /\ quiet' = quiet
      BY <3>1
    <3>2. CASE quiet' = {}
      BY <3>2
    <3> QED BY <2>3, <3>1, <3>2
  <2> QED BY <2>5, <2>6
<1>7. CASE \E c \in Clients : LateWrite(c)
  <2>1. PICK c \in Clients : LateWrite(c)
    BY <1>7
  <2>2. UNCHANGED clientVars /\ quiet' = {}
    BY <2>1 DEF LateWrite, Put
  <2> QED BY <2>2 DEF clientVars
<1>8. CASE \E gone \in {Hubs} \cup {{c} : c \in Probes} : Crash(gone)
  <2>1. PICK gone : Crash(gone)
    BY <1>8
  <2>2. \A d \in Clients :
           IF d \in gone
           THEN /\ pc'[d] = "idle" /\ handle'[d] = "none" /\ pos'[d] = 1 /\ stage'[d] = "begin"
                /\ outcome'[d] = Nothing /\ attempt'[d] = 0
           ELSE /\ pc'[d] = pc[d] /\ handle'[d] = handle[d] /\ pos'[d] = pos[d]
                /\ stage'[d] = stage[d] /\ outcome'[d] = outcome[d] /\ attempt'[d] = attempt[d]
    BY <2>1 DEF Crash
  <2>3. quiet' = quiet \ gone
    BY <2>1 DEF Crash
  <2>4. ASSUME NEW d \in Clients
        PROVE  PlaceOf(d)'
    BY <2>2, <2>4 DEF Nothing, Word
  <2> QED BY <2>2, <2>3, <2>4
<1> QED BY <1>1, <1>2, <1>3, <1>4, <1>5, <1>6, <1>7, <1>8
        DEF Next, Run, Walk, Terminating, vars, modemVars

-----------------------------------------------------------------------------
(* The kinds of steps, and what they leave alone.                          *)

\* Clients talk to the modem, or go their way; only a bridge that is killed and
\* a crash of slmodemd change the modem from outside.
ClientStep ==
    \/ \E c \in Clients : Talk(c) \/ Walk(c) \/ Close(c) \/ LateWrite(c)
    \/ \E gone \in {Hubs} \cup {{c} : c \in Probes} : Crash(gone)
    \/ UNCHANGED vars

\* A step is the modem's, a fault's or a client's.
LEMMA StepKinds ==
    ASSUME [Next]_vars
    PROVE  \/ Modem /\ UNCHANGED <<clientVars, faults>>
           \/ Chatter
           \/ ModemCrash
           \/ \E c \in Clients : BridgeKill(c)
           \/ ClientStep
BY DEF Next, Run, Walk, Terminating, ClientStep

\* No client's step but BridgeKill moves the line itself.
LEMMA ClientStepFrame ==
    ASSUME ClientStep
    PROVE  UNCHANGED <<mode, call, bridge, present>>
BY DEF ClientStep, Talk, Walk, Rest, Escape, Escaped, Send, SendFails, Reply, Timeout, Start,
       OpenOk, OpenFail, Retry, Release, BridgeGone, WaitFails, DeviceReady, HangUp,
       LineLost, NoLog, Close, LateWrite, Crash, vars, modemVars

\* A fault that has happened has happened.
LEMMA FaultsGrow ==
    ASSUME Types, [Next]_vars
    PROVE  faults \subseteq faults'
<1> USE DEF Fault
<1>1. CASE Modem /\ UNCHANGED <<clientVars, faults>>
  BY <1>1
<1>2. CASE Chatter
  BY <1>2 DEF Chatter
<1>3. CASE ModemCrash
  BY <1>3 DEF ModemCrash
<1>4. CASE \E c \in Clients : BridgeKill(c)
  BY <1>4 DEF BridgeKill
<1>5. CASE \E c \in Clients : Talk(c)
  <2>1. ASSUME NEW c \in Clients, Talk(c)
        PROVE  faults \subseteq faults'
    <3>1. Escaped(c) \/ Timeout(c) => Deadline(c)
      BY DEF Escaped, Timeout
    <3>2. Deadline(c) => faults \subseteq faults'
      BY DEF Deadline
    <3>3. Rest(c) \/ Escape(c) \/ Send(c) \/ SendFails(c) \/ Reply(c) => faults' = faults
      BY DEF Rest, Escape, Send, SendFails, Reply
    <3> QED BY <2>1, <3>1, <3>2, <3>3 DEF Talk
  <2> QED BY <1>5, <2>1
<1>6. CASE \E c \in Clients : Walk(c)
  BY <1>6, WalkFacts
<1>7. CASE \E c \in Clients : Close(c) \/ LateWrite(c)
  BY <1>7 DEF Close, LateWrite
<1>8. CASE \E gone \in {Hubs} \cup {{c} : c \in Probes} : Crash(gone)
  BY <1>8 DEF Crash
<1>9. CASE UNCHANGED vars
  BY <1>9 DEF vars
<1> QED BY <1>1, <1>2, <1>3, <1>4, <1>5, <1>6, <1>7, <1>8, <1>9, StepKinds DEF ClientStep

\* An unshared modem has one client at a time.
LEMMA Lone ==
    ASSUME Types, PlaceInv, AloneInv, "shared" \notin faults, NEW c \in Clients, pc[c] # "idle"
    PROVE  /\ \A d \in Clients \ {c} : pc[d] = "idle" /\ handle[d] = "none"
           /\ quiet \subseteq {c}
BY DEF Types, PlaceInv, PlaceOf, OpenPc, AloneInv

-----------------------------------------------------------------------------
(* BridgeInv.                                                              *)

\* Every step keeps BridgeInv.
LEMMA StepBridge ==
    ASSUME Types, BridgeInv, [Next]_vars
    PROVE  BridgeInv'
<1> USE DEF BridgeInv
<1>1. CASE Modem /\ UNCHANGED <<clientVars, faults>>
  <2>1. CASE Take
    BY <2>1, TakeCases
  <2>2. CASE Answered \/ CallLost \/ BridgeExits \/ Respawn
    BY <2>2 DEF Answered, CallLost, CallEnds, BridgeExits, Respawn
  <2> QED BY <1>1, <2>1, <2>2 DEF Modem
<1>2. CASE Chatter
  BY <1>2 DEF Chatter, RemoteText
<1>3. CASE ModemCrash
  BY <1>3 DEF ModemCrash, Dies
<1>4. CASE \E c \in Clients : BridgeKill(c)
  BY <1>4, BridgeKillFacts DEF BridgeKillMild, modemVars, Dies
<1>5. CASE ClientStep
  BY <1>5, ClientStepFrame
<1> QED BY <1>1, <1>2, <1>3, <1>4, <1>5, StepKinds

-----------------------------------------------------------------------------
(* AloneInv.                                                               *)

\* A client whose handle has died is alone, and does not write.
LEMMA StepAlone ==
    ASSUME Types, PlaceInv, AloneInv, [Next]_vars
    PROVE  AloneInv'
<1> SUFFICES ASSUME "shared" \notin faults'
             PROVE  /\ \A c, d \in Clients : pc'[c] # "idle" /\ pc'[d] # "idle" => c = d
                    /\ \A c \in Clients : handle'[c] = "dead" => wire' = <<>>
  BY DEF AloneInv
<1>0. /\ "shared" \notin faults
      /\ \A c, d \in Clients : pc[c] # "idle" /\ pc[d] # "idle" => c = d
      /\ \A c \in Clients : handle[c] = "dead" => wire = <<>>
  BY FaultsGrow DEF AloneInv
<1>1. CASE (Modem /\ UNCHANGED <<clientVars, faults>>) \/ Chatter
  <2>1. UNCHANGED clientVars
    BY <1>1 DEF Chatter
  <2>2. wire = <<>> => wire' = <<>>
    BY <1>1 DEF Modem, Take, Answered, CallLost, BridgeExits, Respawn, Chatter, RemoteText
  <2> QED BY <1>0, <2>1, <2>2 DEF clientVars
<1>2. CASE ModemCrash
  BY <1>0, <1>2 DEF ModemCrash, Dies
<1>3. CASE \E c \in Clients : BridgeKill(c)
  <2>1. PICK c \in Clients : BridgeKill(c)
    BY <1>3
  <2>2. wire' = <<>> \/ (wire' = wire /\ handle' = handle)
    BY <2>1, BridgeKillFacts DEF BridgeKillMild, Dies, modemVars
  <2>3. pc' = [pc EXCEPT ![c] = "killed"] /\ pc[c] = "bridge"
    BY <2>1, BridgeKillFacts
  <2> QED BY <1>0, <2>2, <2>3 DEF Types
<1>4. ASSUME NEW c \in Clients, Talk(c)
      PROVE  /\ \A d, e \in Clients : pc'[d] # "idle" /\ pc'[e] # "idle" => d = e
             /\ \A d \in Clients : handle'[d] = "dead" => wire' = <<>>
  <2>1. pc[c] = "talk" /\ Others(c) /\ handle' = handle
    BY <1>4, RestFacts, EscapeFacts, EscapedFacts, SendFacts, SendFailsFacts, TimeoutFacts,
       ReplyFacts DEF Talk
  <2>2. handle[c] = "open" \/ wire' = wire
    BY <1>4, RestFacts, EscapeFacts, EscapedFacts, SendFacts, SendFailsFacts, TimeoutFacts,
       ReplyFacts DEF Talk, modemVars
  <2>3. \A d \in Clients \ {c} : pc[d] = "idle" /\ handle[d] = "none"
    BY <1>0, <2>1, Lone
  <2> QED BY <1>0, <2>1, <2>2, <2>3 DEF Others
<1>5. ASSUME NEW c \in Clients, Walk(c) \/ Close(c)
      PROVE  /\ \A d, e \in Clients : pc'[d] # "idle" /\ pc'[e] # "idle" => d = e
             /\ \A d \in Clients : handle'[d] = "dead" => wire' = <<>>
  <2>1. CASE Walk(c)
    <3>1. Others(c) /\ WalkCase(c) /\ UNCHANGED modemVars
      BY <2>1, WalkFacts
    <3>2. pc[c] # "idle" \/ \A d \in Clients : pc[d] = "idle"
      BY <3>1 DEF WalkCase
    <3>3. handle'[c] = handle[c] \/ handle'[c] = "open"
      BY <3>1 DEF WalkCase
    <3> QED BY <1>0, <3>1, <3>2, <3>3 DEF Others, modemVars
  <2>2. CASE Close(c)
    BY <1>0, <2>2, CloseFacts DEF Others
  <2> QED BY <1>5, <2>1, <2>2
<1>6. ASSUME NEW c \in Clients, LateWrite(c)
      PROVE  /\ \A d, e \in Clients : pc'[d] # "idle" /\ pc'[e] # "idle" => d = e
             /\ \A d \in Clients : handle'[d] = "dead" => wire' = <<>>
  <2>1. UNCHANGED clientVars /\ pc[c] = "talk" /\ handle[c] = "open"
    BY <1>6 DEF LateWrite
  <2>2. \A d \in Clients \ {c} : pc[d] = "idle" /\ handle[d] = "none"
    BY <1>0, <2>1, Lone
  <2> QED BY <1>0, <2>1, <2>2 DEF clientVars
<1>7. CASE \E gone \in {Hubs} \cup {{c} : c \in Probes} : Crash(gone)
  BY <1>0, <1>7 DEF Crash
<1>8. CASE UNCHANGED vars
  BY <1>0, <1>8 DEF vars, modemVars, clientVars
<1> QED BY <1>1, <1>2, <1>3, <1>4, <1>5, <1>6, <1>7, <1>8, StepKinds DEF ClientStep

-----------------------------------------------------------------------------
(* NumberInv.                                                              *)

\* What the modem takes from the wire was on it.
LEMMA TakenWire ==
    ASSUME Types, Take
    PROVE  /\ Len(wire) \in Nat \ {0} /\ DOMAIN wire = 1..Len(wire)
           /\ wire' \in Seq(Item) /\ Len(wire') = Len(wire) - 1 /\ DOMAIN wire' = 1..(Len(wire) - 1)
           /\ \A i \in 1..(Len(wire) - 1) : wire'[i] = wire[i + 1]
           /\ \A i \in DOMAIN wire' : \E j \in DOMAIN wire : wire'[i] = wire[j]
           /\ wire[1] \in Item
<1>1. wire \in Seq(Item) /\ wire # <<>> /\ wire' = Tail(wire)
  BY TakeCases DEF Types
<1>2. /\ Len(wire) \in Nat \ {0} /\ DOMAIN wire = 1..Len(wire) /\ wire[1] \in Item
      /\ wire' \in Seq(Item) /\ Len(wire') = Len(wire) - 1 /\ DOMAIN wire' = 1..(Len(wire) - 1)
      /\ \A i \in 1..(Len(wire) - 1) : wire'[i] = wire[i + 1]
  BY <1>1, TailFacts
<1>3. \A i \in 1..(Len(wire) - 1) : i + 1 \in 1..Len(wire)
  BY <1>2
<1> QED BY <1>2, <1>3

\* A client that the dialogue moves is at a later place of it, with a result of
\* Dial only if it waited for one.
LEMMA StepNumber ==
    ASSUME Types, PlaceInv, NumberInv, [Next]_vars
    PROVE  NumberInv'
<1> SUFFICES ASSUME placed' = 0
             PROVE  /\ \A i \in DOMAIN wire' : wire'[i].cmd \notin {"ATDT", "text"}
                    /\ \A c \in Clients : /\ outcome'[c].word # "CONNECT" /\ ~Waits(c, DialAt)'
                                          /\ Live(c)' => pos'[c] < HangupAt
  BY DEF NumberInv
<1> DEFINE Wire == \A i \in DOMAIN wire : wire[i].cmd \notin {"ATDT", "text"}
           Of(c) == /\ outcome[c].word # "CONNECT" /\ ~Waits(c, DialAt)
                    /\ Live(c) => pos[c] < HangupAt
<1> USE DEF DialAt, HangupAt, Waits, Live
<1>0. placed = 0 => Wire /\ \A c \in Clients : Of(c)
  BY DEF NumberInv
<1>1. CASE (Modem /\ UNCHANGED <<clientVars, faults>>) \/ Chatter
  <2>1. UNCHANGED clientVars
    BY <1>1 DEF Chatter
  <2>2. CASE Take
    BY <1>0, <2>1, <2>2, TakenWire DEF clientVars
  <2>3. CASE ~Take
    <3>1. wire' = wire
      BY <1>1, <2>3 DEF Modem, Answered, CallLost, BridgeExits, Respawn, Chatter, RemoteText
    <3> QED BY <1>0, <2>1, <3>1 DEF clientVars
  <2> QED BY <2>2, <2>3
<1>2. CASE ModemCrash
  BY <1>0, <1>2 DEF ModemCrash, Dies, Deaden, Types
<1>3. CASE \E c \in Clients : BridgeKill(c)
  <2>1. PICK c \in Clients : BridgeKill(c)
    BY <1>3
  <2>2. wire' = <<>> \/ wire' = wire
    BY <2>1, BridgeKillFacts DEF BridgeKillMild, Dies, modemVars
  <2>3. handle' = handle \/ handle' = Deaden
    BY <2>1, BridgeKillFacts
  <2>4. /\ pc' = [pc EXCEPT ![c] = "killed"] /\ UNCHANGED <<pos, stage, outcome, placed>>
    BY <2>1, BridgeKillFacts
  <2> QED BY <1>0, <2>2, <2>3, <2>4 DEF Deaden, Types
<1>4. ASSUME NEW c \in Clients, Talk(c)
      PROVE  /\ \A i \in DOMAIN wire' : wire'[i].cmd \notin {"ATDT", "text"}
             /\ \A d \in Clients : /\ outcome'[d].word # "CONNECT" /\ ~Waits(d, DialAt)'
                                   /\ Live(d)' => pos'[d] < HangupAt
  <2>1. placed = 0 /\ Others(c)
    <3>1. placed' = placed \/ placed' = placed + 1
      BY <1>4, RestFacts, EscapeFacts, EscapedFacts, SendFacts, SendFailsFacts, TimeoutFacts,
         ReplyFacts DEF Talk
    <3>2. Others(c)
      BY <1>4, RestFacts, EscapeFacts, EscapedFacts, SendFacts, SendFailsFacts, TimeoutFacts,
         ReplyFacts DEF Talk
    <3> QED BY <3>1, <3>2 DEF Types
  <2>2. Wire /\ Of(c)
    BY <1>0, <2>1
  <2>3. \A i \in DOMAIN wire' : wire'[i].cmd \notin {"ATDT", "text"}
    <3>1. wire' = wire \/ \E cmd \in Commands, n \in Nat : Put(c, cmd, n) /\ cmd \notin {"ATDT", "text"}
      <4>1. CASE Send(c)
        <5>1. pos[c] # 7
          BY <1>4, <2>1, <4>1, SendFacts DEF Types
        <5> QED BY <4>1, <5>1, SendFacts, HereFacts
      <4>2. CASE Escape(c)
        <5>1. "+++" \in Commands /\ 0 \in Nat
          BY DEF Commands
        <5> QED BY <4>2, <5>1, EscapeFacts
      <4> QED BY <1>4, <4>1, <4>2, RestFacts, EscapedFacts, SendFailsFacts, TimeoutFacts,
                 ReplyFacts DEF Talk, modemVars
    <3>2. CASE wire' = wire
      BY <2>2, <3>2
    <3>3. CASE \E cmd \in Commands, n \in Nat : Put(c, cmd, n) /\ cmd \notin {"ATDT", "text"}
      <4>1. PICK cmd \in Commands, n \in Nat : Put(c, cmd, n) /\ cmd \notin {"ATDT", "text"}
        BY <3>3
      <4>2. /\ DOMAIN wire = 1..Len(wire) /\ DOMAIN wire' = 1..(Len(wire) + 1) /\ Len(wire) \in Nat
            /\ \A i \in 1..Len(wire) : wire'[i].cmd = wire[i].cmd
            /\ wire'[Len(wire) + 1].cmd = cmd
        <5>1. c \in Writers /\ wire \in Seq(Item) /\ quiet \subseteq Writers
          BY ClientsWrite DEF Types
        <5>2. wire'[Len(wire) + 1] = [cmd |-> cmd, by |-> c, call |-> n, clean |-> cmd = "+++" /\ c \in quiet]
          BY <4>1, <5>1, PutFacts
        <5>3. wire'[Len(wire) + 1].cmd = cmd
          BY <5>2
        <5> QED BY <4>1, <5>1, <5>3, PutFacts
      <4>3. \A i \in 1..(Len(wire) + 1) : i \in 1..Len(wire) \/ i = Len(wire) + 1
        BY <4>2
      <4> QED BY <2>2, <4>1, <4>2, <4>3
    <3> QED BY <3>1, <3>2, <3>3
  <2>4. /\ outcome'[c].word # "CONNECT" /\ ~Waits(c, DialAt)'
        /\ Live(c)' => pos'[c] < HangupAt
    <3>0. pos[c] \in 1..9
      BY DEF Types
    <3>1. CASE Rest(c)
      BY <2>2, <3>1, RestFacts
    <3>2. CASE Escape(c)
      BY <2>2, <3>2, EscapeFacts DEF Moves
    <3>3. CASE Escaped(c)
      <4>1. handle'[c] = handle[c] /\ outcome'[c] = outcome[c] /\ (pos[c] = 1 \/ handle[c] # "open")
        BY <2>2, <3>3, EscapedFacts
      <4> QED BY <2>2, <3>3, <4>1, EscapedFacts DEF Moves
    <3>4. CASE Send(c)
      <4>1. pos[c] # 7
        BY <2>1, <1>4, <3>4, SendFacts DEF Types
      <4> QED BY <2>2, <3>4, <4>1, SendFacts
    <3>5. CASE SendFails(c)
      BY <2>2, <3>0, <3>5, SendFailsFacts DEF Unanswered, Moves, MovesOn, Word
    <3>6. CASE Timeout(c)
      <4>1. PICK w \in {"NO_RESPONSE", "IO_ERROR"} : Unanswered(c, Word(w, 0))
        BY <3>6, TimeoutFacts
      <4>2. pos[c] # 7
        BY <2>2, <3>6, TimeoutFacts
      <4> QED BY <2>2, <3>0, <3>6, <4>1, <4>2, TimeoutFacts DEF Unanswered, Moves, Word
    <3>7. CASE Reply(c)
      <4>1. pos[c] # 7 /\ StepAnswered(c)
        BY <2>2, <3>7, ReplyFacts DEF DialAnswered
      <4> QED BY <2>2, <3>7, <4>1, ReplyFacts DEF StepAnswered, Moves, Word
    <3> QED BY <1>4, <3>1, <3>2, <3>3, <3>4, <3>5, <3>6, <3>7 DEF Talk
  <2>5. \A d \in Clients \ {c} : /\ outcome'[d].word # "CONNECT" /\ ~Waits(d, DialAt)'
                                 /\ Live(d)' => pos'[d] < HangupAt
    BY <1>0, <2>1 DEF Others
  <2> QED BY <2>3, <2>4, <2>5
<1>5. ASSUME NEW c \in Clients, Walk(c) \/ Close(c)
      PROVE  /\ \A i \in DOMAIN wire' : wire'[i].cmd \notin {"ATDT", "text"}
             /\ \A d \in Clients : /\ outcome'[d].word # "CONNECT" /\ ~Waits(d, DialAt)'
                                   /\ Live(d)' => pos'[d] < HangupAt
  <2>1. Others(c) /\ wire' = wire /\ placed' = placed
    BY <1>5, WalkFacts, CloseFacts DEF modemVars
  <2>2. PlaceOf(c) /\ Of(c)
    BY <1>0, <2>1 DEF PlaceInv
  <2>3. CASE Walk(c)
    <3>1. WalkCase(c)
      BY <2>3, WalkFacts
    <3>2. outcome'[c].word # "CONNECT"
      BY <2>2, <3>1 DEF WalkCase, Word, Nothing
    <3>3. ~Waits(c, DialAt)' /\ (Live(c)' => pos'[c] < HangupAt)
      BY <2>2, <3>1 DEF WalkCase, PlaceOf, Moves, Keeps
    <3> QED BY <1>0, <2>1, <3>2, <3>3 DEF Others
  <2>4. CASE Close(c)
    BY <1>0, <2>1, <2>2, <2>4, CloseFacts DEF Others, Keeps
  <2> QED BY <1>5, <2>3, <2>4
<1>6. CASE \E c \in Clients : LateWrite(c)
  BY <1>0, <1>6 DEF LateWrite, clientVars
<1>7. CASE \E gone \in {Hubs} \cup {{c} : c \in Probes} : Crash(gone)
  BY <1>0, <1>7 DEF Crash, Nothing, Word
<1>8. CASE UNCHANGED vars
  BY <1>0, <1>8 DEF vars, modemVars, clientVars
<1> QED BY <1>1, <1>2, <1>3, <1>4, <1>5, <1>6, <1>7, <1>8, StepKinds DEF ClientStep

-----------------------------------------------------------------------------
(* The order of what is on the wire.                                       *)

\* PutFacts, field by field.
LEMMA PutWire ==
    ASSUME Types, NEW w \in Writers, NEW cmd \in Commands, NEW n \in Nat, Put(w, cmd, n)
    PROVE  /\ Len(wire) \in Nat /\ Len(wire') = Len(wire) + 1
           /\ DOMAIN wire = 1..Len(wire) /\ DOMAIN wire' = 1..(Len(wire) + 1)
           /\ \A i \in 1..(Len(wire) + 1) : i \in 1..Len(wire) \/ i = Len(wire) + 1
           /\ \A i \in 1..Len(wire) :
                 /\ wire'[i].cmd = wire[i].cmd /\ wire'[i].call = wire[i].call
                 /\ i < Len(wire) \/ quiet \subseteq {w} => wire'[i] = wire[i]
           /\ wire'[Len(wire) + 1].cmd = cmd /\ wire'[Len(wire) + 1].call = n
           /\ cmd = "+++" /\ w \in quiet => wire'[Len(wire) + 1].clean
           /\ quiet' = IF cmd = "+++" /\ w \in quiet THEN {w} ELSE {}
<1> DEFINE new == [cmd |-> cmd, by |-> w, call |-> n, clean |-> cmd = "+++" /\ w \in quiet]
<1>1. wire \in Seq(Item) /\ quiet \subseteq Writers
  BY DEF Types
<1>2. wire'[Len(wire) + 1] = new
  BY <1>1, PutFacts
<1>3. new.cmd = cmd /\ new.call = n
  BY Zenon
<1>4. cmd = "+++" /\ w \in quiet => new.clean
  BY Zenon
<1>5. /\ Len(wire) \in Nat /\ Len(wire') = Len(wire) + 1
      /\ DOMAIN wire = 1..Len(wire) /\ DOMAIN wire' = 1..(Len(wire) + 1)
      /\ \A i \in 1..Len(wire) :
            /\ wire'[i].cmd = wire[i].cmd /\ wire'[i].call = wire[i].call
            /\ i < Len(wire) \/ quiet \subseteq {w} => wire'[i] = wire[i]
      /\ quiet' = IF cmd = "+++" /\ w \in quiet THEN {w} ELSE {}
  BY <1>1, PutFacts
<1> HIDE DEF new
<1>6. \A i \in 1..(Len(wire) + 1) : i \in 1..Len(wire) \/ i = Len(wire) + 1
  BY <1>5
<1> QED BY <1>2, <1>3, <1>4, <1>5, <1>6

\* What is written behind an item does not change when the modem comes to it.
LEMMA OrderKept ==
    ASSUME Types, NEW w \in Writers, NEW cmd \in Commands, NEW n \in Nat, Put(w, cmd, n),
           mode' = mode, NEW i \in 1..(Len(wire) + 1), i < Len(wire) + 1 \/ quiet \subseteq {w}
    PROVE  /\ EscapedBy(i) => EscapedBy(i)'
           /\ CommandBy(i) => CommandBy(i)'
<1>1. Len(wire) \in Nat
  BY PutWire
<1>2. \A k \in 1..(i - 1) : wire'[k] = wire[k]
  BY <1>1, PutWire
<1>3. \A k \in 1..(i - 1) : \A j \in k..(i - 1) : j \in 1..(i - 1)
  BY <1>1
<1>4. ASSUME NEW k \in 1..i, EscapedBy(k) PROVE EscapedBy(k)'
  <2>1. \A j \in 1..(k - 1) : wire'[j] = wire[j]
    BY <1>1, <1>2
  <2>2. \A m \in 1..(k - 1) : \A j \in m..(k - 1) : j \in 1..(k - 1)
    BY <1>1
  <2> QED BY <1>4, <2>1, <2>2 DEF EscapedBy, NoDial
<1>5. ASSUME CommandBy(i) PROVE CommandBy(i)'
  <2>1. CASE mode = "command" /\ NoDial(1, i - 1)
    BY <1>2, <2>1 DEF CommandBy, NoDial
  <2>2. CASE \E k \in 1..(i - 1) : wire[k].cmd = "ATH" /\ EscapedBy(k) /\ NoDial(k, i - 1)
    <3>1. PICK k \in 1..(i - 1) : wire[k].cmd = "ATH" /\ EscapedBy(k) /\ NoDial(k, i - 1)
      BY <2>2
    <3>2. k \in 1..i
      BY <1>1
    <3>3. EscapedBy(k)'
      BY <1>4, <3>1, <3>2
    <3>4. \A j \in k..(i - 1) : wire'[j].cmd # "ATDT"
      BY <1>2, <1>3, <3>1 DEF NoDial
    <3>5. wire'[k].cmd = "ATH"
      BY <1>2, <3>1
    <3> QED BY <3>1, <3>3, <3>4, <3>5 DEF CommandBy, NoDial
  <2> QED BY <1>5, <2>1, <2>2 DEF CommandBy
<1>6. i \in 1..i
  BY <1>1
<1> QED BY <1>4, <1>5, <1>6

\* What is written next.
LEMMA OrderPut ==
    ASSUME Types, NEW w \in Writers, NEW cmd \in Commands, NEW n \in Nat, Put(w, cmd, n),
           mode' = mode, quiet \subseteq {w}
    PROVE  /\ cmd = "+++" /\ w \in quiet => EscapedNext'
           /\ cmd # "ATDT" /\ EscapedNext => EscapedNext'
           /\ cmd = "ATH" /\ EscapedNext => CommandNext'
           /\ cmd # "ATDT" /\ CommandNext => CommandNext'
<1>0. PICK z \in Nat : z = Len(wire) + 1
  BY PutWire
<1>1. /\ Len(wire) \in Nat /\ Len(wire') = z /\ wire'[z].cmd = cmd
      /\ cmd = "+++" /\ w \in quiet => wire'[z].clean
      /\ \A i \in 1..(z - 1) : wire'[i] = wire[i]
  BY <1>0, PutWire
<1>2. /\ EscapedBy(z) => EscapedBy(z)'
      /\ CommandBy(z) => CommandBy(z)'
  BY <1>0, <1>1, OrderKept
<1>3. z \in 1..z /\ z \in Nat \ {0} /\ (\A j \in z..z : j = z) /\ (z + 1) - 1 = z
  BY <1>0, <1>1
<1>4. \A k \in 1..(z - 1) : k \in 1..z /\ \A j \in k..z : j \in k..(z - 1) \/ j = z
  BY <1>0
<1>5. \A j \in 1..z : j \in 1..(z - 1) \/ j = z
  BY <1>0
<1>6. /\ EscapedNext = EscapedBy(z) /\ CommandNext = CommandBy(z)
      /\ EscapedNext' = EscapedBy(z + 1)' /\ CommandNext' = CommandBy(z + 1)'
  <2>1. EscapedNext = EscapedBy(z) /\ CommandNext = CommandBy(z)
    BY <1>0 DEF EscapedNext, CommandNext
  <2>2. EscapedNext' = EscapedBy(z + 1)'
    BY <1>1 DEF EscapedNext, EscapedBy, NoDial
  <2>3. CommandNext' = CommandBy(z + 1)'
    BY <1>1 DEF CommandNext, CommandBy, EscapedBy, NoDial
  <2> QED BY <2>1, <2>2, <2>3
<1>7. ASSUME cmd = "+++", w \in quiet PROVE EscapedBy(z + 1)'
  BY <1>1, <1>3, <1>7 DEF EscapedBy, NoDial
<1>8. ASSUME cmd # "ATDT", EscapedBy(z) PROVE EscapedBy(z + 1)'
  BY <1>1, <1>2, <1>3, <1>4, <1>5, <1>8 DEF EscapedBy, NoDial
<1>9. ASSUME cmd = "ATH", EscapedBy(z) PROVE CommandBy(z + 1)'
  BY <1>1, <1>2, <1>3, <1>9 DEF CommandBy, NoDial
<1>10. ASSUME cmd # "ATDT", CommandBy(z) PROVE CommandBy(z + 1)'
  BY <1>1, <1>2, <1>3, <1>4, <1>5, <1>10 DEF CommandBy, NoDial
<1> QED BY <1>6, <1>7, <1>8, <1>9, <1>10

\* What a write does to the order of the numbers.
LEMMA DialsPut ==
    ASSUME Types, NEW w \in Writers, NEW cmd \in Commands, NEW n \in Nat, Put(w, cmd, n),
           mode' = mode, DialsInOrder, cmd = "ATDT" => quiet \subseteq {w} /\ CommandNext
    PROVE  DialsInOrder'
<1>1. /\ Len(wire) \in Nat /\ DOMAIN wire = 1..Len(wire) /\ DOMAIN wire' = 1..(Len(wire) + 1)
      /\ \A i \in 1..(Len(wire) + 1) : i \in 1..Len(wire) \/ i = Len(wire) + 1
      /\ \A i \in 1..Len(wire) : wire'[i].cmd = wire[i].cmd
      /\ wire'[Len(wire) + 1].cmd = cmd
  BY PutWire
<1>2. ASSUME NEW i \in 1..(Len(wire) + 1), wire'[i].cmd = "ATDT"
      PROVE  CommandBy(i)'
  <2>1. CASE i \in 1..Len(wire)
    <3>1. CommandBy(i) /\ i < Len(wire) + 1
      BY <1>1, <1>2, <2>1 DEF DialsInOrder
    <3> QED BY <3>1, OrderKept
  <2>2. CASE i = Len(wire) + 1
    <3>1. CommandBy(i) /\ quiet \subseteq {w}
      BY <1>1, <1>2, <2>2 DEF CommandNext
    <3> QED BY <3>1, OrderKept
  <2> QED BY <1>1, <2>1, <2>2
<1> QED BY <1>1, <1>2 DEF DialsInOrder

\* An item of the wire that the modem comes to when it has looked at the first.
LEMMA OrderTake ==
    ASSUME Types, Take, NEW i \in 2..(Len(wire) + 1)
    PROVE  /\ EscapedBy(i) => EscapedBy(i - 1)'
           /\ CommandBy(i) => CommandBy(i - 1)'
<1>1. /\ Len(wire) \in Nat \ {0}
      /\ \A j \in 1..(Len(wire) - 1) : wire'[j] = wire[j + 1]
  BY TakenWire
<1>2. \A m \in 1..(i - 1) : m # 1 => /\ m - 1 \in 1..((i - 1) - 1)
                                     /\ \A j \in (m - 1)..((i - 1) - 1) : j + 1 \in m..(i - 1)
                                     /\ wire'[m - 1] = wire[m]
  BY <1>1
<1>3. \A j \in 1..((i - 1) - 1) : j + 1 \in 1..(i - 1) /\ wire'[j] = wire[j + 1]
  BY <1>1
<1>4. 1 \in 1..(i - 1) /\ (\A m \in 1..(1 - 1) : FALSE)
  BY <1>1
<1>5. ASSUME NEW k \in 2..i, EscapedBy(k) PROVE EscapedBy(k - 1)'
  <2>1. \A m \in 1..(k - 1) : m # 1 => /\ m - 1 \in 1..((k - 1) - 1)
                                       /\ \A j \in (m - 1)..((k - 1) - 1) : j + 1 \in m..(k - 1)
                                       /\ wire'[m - 1] = wire[m]
    BY <1>1
  <2>2. \A j \in 1..((k - 1) - 1) : j + 1 \in 1..(k - 1) /\ wire'[j] = wire[j + 1]
    BY <1>1
  <2>3. 1 \in 1..(k - 1)
    OBVIOUS
  <2>4. CASE OutOfData /\ NoDial(1, k - 1)
    <3>1. OutOfData'
      BY <2>3, <2>4, TakeCases DEF OutOfData, NoDial
    <3>2. \A j \in 1..((k - 1) - 1) : wire'[j].cmd # "ATDT"
      BY <2>2, <2>4 DEF NoDial
    <3> QED BY <3>1, <3>2 DEF EscapedBy, NoDial, OutOfData
  <2>5. CASE wire[1].cmd = "+++" /\ wire[1].clean /\ NoDial(1, k - 1)
    <3>1. OutOfData'
      BY <2>5, TakeCases DEF OutOfData, Types
    <3>2. \A j \in 1..((k - 1) - 1) : wire'[j].cmd # "ATDT"
      BY <2>2, <2>5 DEF NoDial
    <3> QED BY <3>1, <3>2 DEF EscapedBy, NoDial, OutOfData
  <2>6. ASSUME NEW m \in 1..(k - 1), m # 1, wire[m].cmd = "+++", wire[m].clean, NoDial(m, k - 1)
        PROVE  EscapedBy(k - 1)'
    <3>1. m - 1 \in 1..((k - 1) - 1) /\ wire'[m - 1] = wire[m]
      BY <2>1, <2>6
    <3>2. \A j \in (m - 1)..((k - 1) - 1) : wire'[j].cmd # "ATDT"
      <4>1. \A j \in (m - 1)..((k - 1) - 1) : j + 1 \in m..(k - 1) /\ j \in 1..((k - 1) - 1)
        BY <2>6
      <4> QED BY <2>2, <2>6, <4>1 DEF NoDial
    <3> QED BY <2>6, <3>1, <3>2 DEF EscapedBy, NoDial
  <2> QED BY <1>5, <2>4, <2>5, <2>6 DEF EscapedBy, OutOfData
<1>6. ASSUME CommandBy(i) PROVE CommandBy(i - 1)'
  <2>1. CASE mode = "command" /\ NoDial(1, i - 1)
    <3>1. mode' = "command"
      BY <1>4, <2>1, TakeCases DEF NoDial
    <3>2. \A j \in 1..((i - 1) - 1) : wire'[j].cmd # "ATDT"
      BY <1>3, <2>1 DEF NoDial
    <3> QED BY <3>1, <3>2 DEF CommandBy, NoDial
  <2>2. CASE wire[1].cmd = "ATH" /\ EscapedBy(1) /\ NoDial(1, i - 1)
    <3>1. OutOfData
      BY <2>2 DEF EscapedBy, OutOfData
    <3>2. mode' = "command"
      BY <2>2, <3>1, TakeCases DEF OutOfData, Resets
    <3>3. \A j \in 1..((i - 1) - 1) : wire'[j].cmd # "ATDT"
      BY <1>3, <2>2 DEF NoDial
    <3> QED BY <3>2, <3>3 DEF CommandBy, NoDial
  <2>3. ASSUME NEW m \in 1..(i - 1), m # 1, wire[m].cmd = "ATH", EscapedBy(m), NoDial(m, i - 1)
        PROVE  CommandBy(i - 1)'
    <3>1. m - 1 \in 1..((i - 1) - 1) /\ wire'[m - 1] = wire[m]
      BY <1>2, <2>3
    <3>2. EscapedBy(m - 1)'
      <4>1. m \in 2..i
        BY <2>3
      <4> QED BY <1>5, <2>3, <4>1
    <3>3. \A j \in (m - 1)..((i - 1) - 1) : wire'[j].cmd # "ATDT"
      <4>1. \A j \in (m - 1)..((i - 1) - 1) : j + 1 \in m..(i - 1) /\ j \in 1..((i - 1) - 1)
        BY <2>3
      <4> QED BY <1>3, <2>3, <4>1 DEF NoDial
    <3>4. wire'[m - 1].cmd = "ATH"
      BY <2>3, <3>1
    <3> QED BY <3>1, <3>2, <3>3, <3>4 DEF CommandBy, NoDial
  <2> QED BY <1>6, <2>1, <2>2, <2>3 DEF CommandBy
<1>7. i \in 2..i
  BY <1>1
<1> QED BY <1>5, <1>6, <1>7

\* A call that ends, or is answered, loses no order.
LEMMA OrderMode ==
    ASSUME wire' = wire, mode' = mode \/ mode' = "command" \/ mode = "dialing"
    PROVE  /\ DialsInOrder => DialsInOrder'
           /\ EscapedNext => EscapedNext'
           /\ CommandNext => CommandNext'
           /\ NoDials => NoDials'
<1>1. ASSUME NEW i, EscapedBy(i) PROVE EscapedBy(i)'
  BY <1>1 DEF EscapedBy, NoDial
<1>2. ASSUME NEW i, CommandBy(i) PROVE CommandBy(i)'
  <2>1. CASE mode = "command" /\ NoDial(1, i - 1)
    BY <2>1 DEF CommandBy, NoDial
  <2>2. CASE \E k \in 1..(i - 1) : wire[k].cmd = "ATH" /\ EscapedBy(k) /\ NoDial(k, i - 1)
    <3>1. PICK k \in 1..(i - 1) : wire[k].cmd = "ATH" /\ EscapedBy(k) /\ NoDial(k, i - 1)
      BY <2>2
    <3>2. EscapedBy(k)'
      BY <1>1, <3>1
    <3>3. NoDial(k, i - 1)'
      BY <3>1 DEF NoDial
    <3> QED BY <3>1, <3>2, <3>3 DEF CommandBy
  <2> QED BY <1>2, <2>1, <2>2 DEF CommandBy
<1>3. PICK z : z = Len(wire) + 1
  OBVIOUS
<1>4. EscapedNext = EscapedBy(z) /\ CommandNext = CommandBy(z)
  BY <1>3 DEF EscapedNext, CommandNext
<1>5. EscapedNext' = EscapedBy(z)' /\ CommandNext' = CommandBy(z)'
  BY <1>3 DEF EscapedNext, CommandNext, CommandBy, EscapedBy, NoDial
<1>6. DialsInOrder => DialsInOrder'
  BY <1>2 DEF DialsInOrder
<1> QED BY <1>1, <1>2, <1>4, <1>5, <1>6 DEF NoDials

\* The modem's own steps keep the order.
LEMMA OrderModem ==
    ASSUME Types, Modem \/ RemoteText
    PROVE  /\ DialsInOrder => DialsInOrder'
           /\ EscapedNext => EscapedNext'
           /\ CommandNext => CommandNext'
           /\ NoDials => NoDials'
<1>1. CASE Take
  <2>1. PICK z \in Nat \ {0} : z = Len(wire)
    BY <1>1, TakenWire
  <2>2. /\ Len(wire') = z - 1 /\ DOMAIN wire = 1..z /\ DOMAIN wire' = 1..(z - 1)
        /\ \A i \in 1..(z - 1) : wire'[i] = wire[i + 1]
    BY <1>1, <2>1, TakenWire
  <2>3. \A i \in 2..(z + 1) : /\ EscapedBy(i) => EscapedBy(i - 1)'
                              /\ CommandBy(i) => CommandBy(i - 1)'
    BY <1>1, <2>1, OrderTake
  <2>4. EscapedNext = EscapedBy(z + 1) /\ CommandNext = CommandBy(z + 1)
    BY <2>1 DEF EscapedNext, CommandNext
  <2>5. EscapedNext' = EscapedBy((z + 1) - 1)' /\ CommandNext' = CommandBy((z + 1) - 1)'
    <3>1. Len(wire') + 1 = (z + 1) - 1
      BY <2>2
    <3> QED BY <3>1 DEF EscapedNext, CommandNext, CommandBy, EscapedBy, NoDial
  <2>6. z + 1 \in 2..(z + 1)
    OBVIOUS
  <2>7. ASSUME DialsInOrder PROVE DialsInOrder'
    <3>1. ASSUME NEW i \in 1..(z - 1), wire'[i].cmd = "ATDT" PROVE CommandBy(i)'
      <4>1. i + 1 \in 1..z /\ i + 1 \in 2..(z + 1) /\ (i + 1) - 1 = i
        OBVIOUS
      <4>2. CommandBy(i + 1)
        BY <2>2, <2>7, <3>1, <4>1 DEF DialsInOrder
      <4>3. CommandBy((i + 1) - 1)'
        BY <2>3, <4>1, <4>2
      <4> QED BY <4>1, <4>3
    <3> QED BY <2>2, <3>1 DEF DialsInOrder
  <2>8. NoDials => NoDials'
    <3>1. \A i \in 1..(z - 1) : i + 1 \in 1..z
      OBVIOUS
    <3> QED BY <2>2, <3>1 DEF NoDials
  <2> QED BY <2>3, <2>4, <2>5, <2>6, <2>7, <2>8
<1>2. CASE ~Take
  <2>1. wire' = wire /\ (mode' = mode \/ mode' = "command" \/ mode = "dialing")
    BY <1>2 DEF Modem, Answered, CallLost, CallEnds, BridgeExits, Respawn, RemoteText
  <2> QED BY <2>1, OrderMode
<1> QED BY <1>1, <1>2

\* What OrderInv says of a client.
OrderOf(c) ==
    Live(c) =>
        /\ pos[c] = 1 /\ stage[c] = "rest" => c \in quiet
        /\ Waits(c, 1) \/ (pos[c] = 2 /\ stage[c] = "begin") => EscapedNext
        /\ Waits(c, 2) \/ (pos[c] > 2 /\ BeforeDial(c)) => CommandNext

\* Every step keeps OrderInv.
LEMMA StepOrder ==
    ASSUME Types, PlaceInv, AloneInv, OrderInv, [Next]_vars
    PROVE  OrderInv'
<1> SUFFICES ASSUME "shared" \notin faults'
             PROVE  DialsInOrder' /\ \A c \in Clients : OrderOf(c)'
  BY DEF OrderInv, OrderOf
<1> USE DEF Live, Waits, BeforeDial, DialAt
<1>0. "shared" \notin faults /\ DialsInOrder /\ \A c \in Clients : OrderOf(c)
  BY FaultsGrow DEF OrderInv, OrderOf
<1>1. CASE (Modem /\ UNCHANGED <<clientVars, faults>>) \/ Chatter
  <2>1. UNCHANGED clientVars /\ (Modem \/ RemoteText)
    BY <1>1 DEF Chatter
  <2>2. quiet' = quiet
    BY <2>1, ModemFrame
  <2>3. /\ DialsInOrder' /\ (EscapedNext => EscapedNext') /\ (CommandNext => CommandNext')
    BY <1>0, <2>1, OrderModem
  <2> QED BY <1>0, <2>1, <2>2, <2>3 DEF OrderOf, clientVars
<1>2. CASE ModemCrash
  <2>1. wire' = <<>> /\ handle' = Deaden
    BY <1>2 DEF ModemCrash, Dies
  <2>2. \A c \in Clients : handle'[c] # "open"
    BY <2>1 DEF Deaden
  <2> QED BY <2>1, <2>2 DEF OrderOf, DialsInOrder
<1>3. CASE \E c \in Clients : BridgeKill(c)
  <2>1. PICK c \in Clients : BridgeKill(c)
    BY <1>3
  <2>2. pc[c] = "bridge" /\ pc' = [pc EXCEPT ![c] = "killed"]
    BY <2>1, BridgeKillFacts
  <2>3. \A d \in Clients : pc'[d] # "talk"
    BY <1>0, <2>2, Lone DEF Types
  <2>4. wire' = <<>> \/ (wire' = wire /\ (mode' = mode \/ mode' = "command"))
    BY <2>1, BridgeKillFacts DEF BridgeKillMild, Dies, modemVars
  <2>5. DialsInOrder'
    <3>1. CASE wire' = <<>>
      BY <3>1 DEF DialsInOrder
    <3>2. CASE wire' = wire /\ (mode' = mode \/ mode' = "command")
      BY <1>0, <3>2, OrderMode
    <3> QED BY <2>4, <3>1, <3>2
  <2> QED BY <2>3, <2>5 DEF OrderOf
<1>4. ASSUME NEW c \in Clients, Talk(c)
      PROVE  DialsInOrder' /\ \A d \in Clients : OrderOf(d)'
  <2>0. /\ pc[c] = "talk" /\ Others(c) /\ mode' = mode /\ pos[c] \in 1..9 /\ OrderOf(c)
        /\ c \in Writers
    BY <1>0, <1>4, RestFacts, EscapeFacts, EscapedFacts, SendFacts, SendFailsFacts, TimeoutFacts,
       ReplyFacts, ClientsWrite DEF Talk, modemVars, Types
  <2>1. /\ \A d \in Clients \ {c} : pc'[d] = "idle"
        /\ quiet \subseteq {c}
    BY <1>0, <2>0, Lone DEF Others
  <2>2. /\ wire' = wire => /\ DialsInOrder' /\ (EscapedNext => EscapedNext')
                           /\ (CommandNext => CommandNext')
    BY <1>0, <2>0, OrderMode
  <2> SUFFICES DialsInOrder' /\ OrderOf(c)'
    BY <2>1 DEF OrderOf
  <2> USE DEF OrderOf
  <2>3. CASE Rest(c)
    BY <2>0, <2>2, <2>3, RestFacts
  <2>4. CASE Escape(c)
    <3>1. CASE handle[c] = "open"
      <4>1. Put(c, "+++", 0) /\ pc' = pc /\ pos' = pos /\ stage'[c] = "wait" /\ pos[c] \in {1, 8}
            /\ stage[c] = "rest"
        BY <2>4, <3>1, EscapeFacts
      <4>2. "+++" \in Commands /\ 0 \in Nat
        BY DEF Commands
      <4>3. DialsInOrder'
        BY <1>0, <2>0, <4>1, <4>2, DialsPut
      <4>4. pos[c] = 1 => EscapedNext'
        BY <2>0, <2>1, <3>1, <4>1, <4>2, OrderPut
      <4> QED BY <4>1, <4>3, <4>4
    <3>2. CASE handle[c] # "open"
      BY <2>2, <2>4, <3>2, EscapeFacts
    <3> QED BY <3>1, <3>2
  <2>5. CASE Escaped(c)
    BY <2>0, <2>2, <2>5, EscapedFacts DEF Moves, modemVars
  <2>6. CASE Send(c)
    <3>1. /\ stage[c] = "begin" /\ stage'[c] = "wait" /\ handle[c] = "open" /\ pc' = pc /\ pos' = pos
          /\ pos[c] \in 2..9 /\ pos[c] # 8
      BY <2>6, SendFacts
    <3>2. CASE pos[c] = 7
      <4>1. Put(c, "ATDT", placed + 1) /\ placed + 1 \in Nat /\ "ATDT" \in Commands
        BY <2>6, <3>2, SendFacts DEF Types, Commands
      <4>2. CommandNext
        BY <2>0, <3>1, <3>2
      <4>3. DialsInOrder'
        BY <1>0, <2>0, <2>1, <4>1, <4>2, DialsPut
      <4> QED BY <3>1, <3>2, <4>3
    <3>3. CASE pos[c] # 7
      <4>1. Put(c, Here(c).cmd, 0) /\ Here(c).cmd \in Commands /\ 0 \in Nat
        BY <2>6, <3>3, SendFacts
      <4>2. Here(c).cmd # "ATDT" /\ (pos[c] = 2 => Here(c).cmd = "ATH")
        BY <3>3, HereFacts
      <4>3. DialsInOrder'
        BY <1>0, <2>0, <4>1, <4>2, DialsPut
      <4>4. (pos[c] = 2 => CommandNext') /\ (CommandNext => CommandNext')
        BY <2>0, <2>1, <3>1, <4>1, <4>2, OrderPut
      <4> QED BY <2>0, <3>1, <3>3, <4>3, <4>4
    <3> QED BY <3>2, <3>3
  <2>7. CASE SendFails(c)
    BY <2>2, <2>7, SendFailsFacts DEF modemVars
  <2>8. CASE Timeout(c)
    <3>1. \E w : Unanswered(c, w)
      BY <2>8, TimeoutFacts
    <3> QED BY <2>0, <2>2, <2>8, <3>1, TimeoutFacts DEF Unanswered, Moves, MovesOn
  <2>9. CASE Reply(c)
    <3>1. CASE StepAnswered(c)
      BY <2>0, <2>2, <2>9, <3>1, ReplyFacts DEF StepAnswered, Moves
    <3>2. CASE DialAnswered(c)
      BY <2>0, <2>2, <2>9, <3>2, ReplyFacts DEF DialAnswered, Moves, MovesOn
    <3> QED BY <2>9, <3>1, <3>2, ReplyFacts
  <2> QED BY <1>4, <2>3, <2>4, <2>5, <2>6, <2>7, <2>8, <2>9 DEF Talk
<1>5. ASSUME NEW c \in Clients, Walk(c) \/ Close(c)
      PROVE  DialsInOrder' /\ \A d \in Clients : OrderOf(d)'
  <2>1. wire' = wire /\ mode' = mode /\ Others(c)
    BY <1>5, WalkFacts, CloseFacts DEF modemVars
  <2>2. pc[c] = "online" => pos[c] = 8 /\ stage[c] = "begin"
    BY DEF PlaceInv, PlaceOf, HangupAt
  <2>3. OrderOf(c)'
    <3>1. CASE Walk(c)
      <4>1. WalkCase(c)
        BY <3>1, WalkFacts
      <4>2. pc'[c] = "talk" => pos'[c] \in {1, 8} /\ stage'[c] = "begin"
        BY <2>2, <4>1 DEF WalkCase, Keeps, Moves
      <4> QED BY <4>2 DEF OrderOf
    <3>2. CASE Close(c)
      BY <3>2, CloseFacts DEF Keeps, OrderOf
    <3> QED BY <1>5, <3>1, <3>2
  <2>4. pc[c] # "idle" => \A d \in Clients \ {c} : pc'[d] = "idle"
    BY <1>0, <2>1, Lone DEF Others
  <2>5. pc[c] = "idle" => \A d \in Clients \ {c} : pc'[d] = "idle"
    <3>1. CASE Walk(c)
      BY <2>1, <3>1, WalkFacts DEF WalkCase, Others
    <3>2. CASE Close(c)
      BY <3>2, CloseFacts
    <3> QED BY <1>5, <3>1, <3>2
  <2>6. \A d \in Clients \ {c} : OrderOf(d)'
    BY <2>4, <2>5 DEF OrderOf
  <2> QED BY <1>0, <2>1, <2>3, <2>6, OrderMode
<1>6. ASSUME NEW c \in Clients, LateWrite(c)
      PROVE  DialsInOrder' /\ \A d \in Clients : OrderOf(d)'
  <2>1. /\ UNCHANGED clientVars /\ mode' = mode /\ Put("batch", "text", 0)
        /\ pc[c] = "talk" /\ outcome[c].word = "CONNECT"
    BY <1>6 DEF LateWrite
  <2>2. DialsInOrder'
    BY <1>0, <2>1, DialsPut, ClientsWrite DEF Commands
  <2>3. pos[c] \in 8..9
    BY <2>1, LatePlace
  <2>4. \A d \in Clients \ {c} : pc[d] = "idle"
    BY <1>0, <2>1, Lone
  <2> QED BY <2>1, <2>2, <2>3, <2>4 DEF OrderOf, clientVars
<1>7. CASE \E gone \in {Hubs} \cup {{c} : c \in Probes} : Crash(gone)
  <2>1. PICK gone : Crash(gone)
    BY <1>7
  <2>2. /\ wire' = wire /\ mode' = mode /\ quiet' = quiet \ gone
        /\ \A d \in Clients : IF d \in gone THEN pc'[d] = "idle"
                              ELSE /\ pc'[d] = pc[d] /\ pos'[d] = pos[d] /\ stage'[d] = stage[d]
                                   /\ handle'[d] = handle[d]
    BY <2>1 DEF Crash
  <2>3. /\ DialsInOrder' /\ (EscapedNext => EscapedNext') /\ (CommandNext => CommandNext')
    BY <1>0, <2>2, OrderMode
  <2> QED BY <1>0, <2>2, <2>3 DEF OrderOf
<1>8. CASE UNCHANGED vars
  <2>1. wire' = wire /\ mode' = mode /\ UNCHANGED <<quiet, pc, pos, stage, handle>>
    BY <1>8 DEF vars, modemVars, clientVars
  <2>2. /\ DialsInOrder' /\ (EscapedNext => EscapedNext') /\ (CommandNext => CommandNext')
    BY <1>0, <2>1, OrderMode
  <2> QED BY <1>0, <2>1, <2>2 DEF OrderOf
<1> QED BY <1>1, <1>2, <1>3, <1>4, <1>5, <1>6, <1>7, <1>8, StepKinds DEF ClientStep

-----------------------------------------------------------------------------
(* The steps of a modem that is not shared, as a client sees them.         *)

\* The modem moves, and no client does.
ModemMoves ==
    /\ Modem \/ (RemoteText /\ "text" \in faults')
    /\ UNCHANGED clientVars /\ quiet' = quiet

\* c is not there, or not any more.
Away(c) == pc'[c] = "idle" /\ handle'[c] = "none"

\* Nothing that c can see has happened.
Same(c) ==
    /\ pc'[c] = pc[c] /\ pos'[c] = pos[c] /\ stage'[c] = stage[c] /\ attempt'[c] = attempt[c]
    /\ outcome'[c] = outcome[c] /\ handle'[c] = handle[c] /\ number'[c] = number[c]
    /\ UNCHANGED <<mode, call, wire, tty, bridge, present, placed>>
    /\ c \in quiet <=> c \in quiet'

\* The modem dies, and c's handle with it.
Breaks(c) ==
    /\ UNCHANGED <<pc, pos, stage, attempt, outcome, number, placed>>
    /\ handle'[c] # "open"
    /\ wire' = <<>> /\ tty' = <<>> /\ mode' = "command"
    /\ bridge = "none" => bridge' = "none"

\* Whoever has made a step, it is one of these to c.
LEMMA Seen ==
    ASSUME Types, PlaceInv, AloneInv, [Next]_vars, "shared" \notin faults', NEW c \in Clients
    PROVE  \/ ModemMoves
           \/ Talk(c) \/ Walk(c) \/ Close(c) \/ LateWrite(c) \/ BridgeKill(c)
           \/ Away(c) \/ Same(c) \/ Breaks(c)
<1>0. "shared" \notin faults
  BY FaultsGrow
<1>1. CASE Modem /\ UNCHANGED <<clientVars, faults>>
  BY <1>1, ModemFrame DEF ModemMoves
<1>2. CASE Chatter
  BY <1>2, ModemFrame DEF ModemMoves, Chatter, Fault
<1>3. CASE ModemCrash
  BY <1>3 DEF ModemCrash, Dies, Deaden, Breaks
<1>4. ASSUME NEW d \in Clients, d # c, Talk(d) \/ Walk(d) \/ Close(d) \/ LateWrite(d) \/ BridgeKill(d)
      PROVE  Away(c)
  <2>1. \/ Others(d)
        \/ pc'[c] = pc[c] /\ (handle'[c] = handle[c] \/ handle' = Deaden)
    <3>1. CASE Talk(d)
      BY <3>1, RestFacts, EscapeFacts, EscapedFacts, SendFacts, SendFailsFacts, TimeoutFacts,
         ReplyFacts DEF Talk
    <3>2. CASE Walk(d) \/ Close(d)
      BY <3>2, WalkFacts, CloseFacts
    <3>3. CASE LateWrite(d)
      BY <3>3 DEF LateWrite, clientVars
    <3>4. CASE BridgeKill(d)
      BY <1>4, <3>4, BridgeKillFacts DEF Types
    <3> QED BY <1>4, <3>1, <3>2, <3>3, <3>4
  <2>2. pc[c] = "idle" /\ handle[c] = "none"
    <3>1. CASE pc[d] # "idle"
      BY <1>0, <1>4, <3>1, Lone
    <3>2. CASE pc[d] = "idle"
      <4>1. Walk(d)
        <5>1. ~Talk(d)
          BY <3>2, RestFacts, EscapeFacts, EscapedFacts, SendFacts, SendFailsFacts, TimeoutFacts,
             ReplyFacts DEF Talk
        <5> QED BY <1>4, <3>2, <5>1, CloseFacts, BridgeKillFacts DEF LateWrite
      <4>2. pc[c] = "idle"
        BY <3>2, <4>1, WalkFacts DEF WalkCase
      <4> QED BY <4>2 DEF PlaceInv, PlaceOf, OpenPc
    <3> QED BY <3>1, <3>2
  <2>3. handle' = Deaden => handle'[c] = handle[c]
    BY <2>2 DEF Deaden
  <2> QED BY <1>4, <2>1, <2>2, <2>3 DEF Others, Away
<1>5. CASE \E gone \in {Hubs} \cup {{d} : d \in Probes} : Crash(gone)
  BY <1>5 DEF Crash, Away, Same
<1>6. CASE UNCHANGED vars
  BY <1>6 DEF vars, modemVars, clientVars, Same
<1> QED BY <1>1, <1>2, <1>3, <1>4, <1>5, <1>6, StepKinds DEF ClientStep

\* A step of c in the dialogue with a modem that is not shared.
LEMMA TalkAlone ==
    ASSUME Types, PlaceInv, AloneInv, "shared" \notin faults, NEW c \in Clients, Talk(c)
    PROVE  /\ pc[c] = "talk" /\ pos[c] \in 1..9 /\ c \in Writers /\ quiet \subseteq {c}
           /\ UNCHANGED <<mode, call, bridge, present, handle>> /\ Others(c)
           /\ handle[c] \in {"open", "dead"} /\ (handle[c] = "dead" => wire = <<>> /\ wire' = <<>>)
<1>1. pc[c] = "talk" /\ UNCHANGED <<mode, call, bridge, present, handle>> /\ Others(c)
  BY RestFacts, EscapeFacts, EscapedFacts, SendFacts, SendFailsFacts, TimeoutFacts,
     ReplyFacts DEF Talk, modemVars
<1>2. handle[c] \in {"open", "dead"} /\ pos[c] \in 1..9
  BY <1>1 DEF Types, PlaceInv, PlaceOf, OpenPc
<1>3. quiet \subseteq {c}
  BY <1>1, Lone
<1>4. handle[c] = "dead" => wire = <<>> /\ wire' = wire
  <2>1. handle[c] = "dead" => wire' = wire
    BY RestFacts, EscapeFacts, EscapedFacts, SendFacts, SendFailsFacts, TimeoutFacts,
       ReplyFacts DEF Talk, modemVars
  <2> QED BY <2>1 DEF AloneInv
<1> QED BY <1>1, <1>2, <1>3, <1>4, ClientsWrite

-----------------------------------------------------------------------------
(* What the modem says, and what becomes of what it has said.              *)

\* A word of the modem is OK, ERROR, or that of the call it has or refuses.
LEMMA ModemSays ==
    ASSUME Types, Modem
    PROVE  \/ tty' = tty
           \/ \E w \in Words, n \in Nat :
                 /\ Says(<<Word(w, n)>>)
                 /\ \/ w \in {"OK", "ERROR"} /\ Take
                    \/ w \notin {"OK", "ERROR"} /\ mode # "command" /\ n = call
                    \/ /\ w \notin {"OK", "ERROR"} /\ Take
                       /\ wire[1].cmd = "ATDT" /\ n = wire[1].call
<1>0. /\ {"OK", "ERROR", "NO_CARRIER", "CONNECT", "BUSY", "NO_DIALTONE"} \subseteq Words
      /\ call \in Nat /\ 0 \in Nat
  BY DEF Types, Words, Results
<1>1. CASE Take
  <2>1. wire[1].call \in Nat
    BY <1>1, TakenWire DEF Item
  <2>2. \/ tty' = tty
        \/ Says(<<Word("NO_CARRIER", wire[1].call)>>) /\ wire[1].cmd = "ATDT"
        \/ Says(<<Word("NO_CARRIER", call)>>) /\ mode = "dialing"
        \/ \E w \in {"OK", "ERROR"} : Says(<<Word(w, 0)>>)
    BY <1>1, TakeCases
  <2> QED BY <1>0, <1>1, <2>1, <2>2
<1>2. CASE Answered
  BY <1>0, <1>2 DEF Answered
<1>3. CASE CallLost
  BY <1>0, <1>3 DEF CallLost
<1>4. CASE BridgeExits \/ Respawn
  BY <1>4 DEF BridgeExits, Respawn
<1> QED BY <1>1, <1>2, <1>3, <1>4 DEF Modem

\* What the modem has said stays until it is read.
LEMMA HeardKept ==
    ASSUME Types, Modem \/ RemoteText, NEW words, Heard(words)
    PROVE  Heard(words)'
<1>1. tty' = tty \/ \E w \in Words, n \in Nat : Says(<<Word(w, n)>>)
  <2>1. RemoteWords \subseteq Words /\ 0 \in Nat
    BY DialerAssumption
  <2> QED BY <2>1, ModemSays DEF RemoteText
<1>2. CASE \E w \in Words, n \in Nat : Says(<<Word(w, n)>>)
  <2>1. PICK w \in Words, n \in Nat : Says(<<Word(w, n)>>)
    BY <1>2
  <2>2. /\ Len(tty) \in Nat /\ DOMAIN tty = 1..Len(tty) /\ DOMAIN tty' = 1..(Len(tty) + 1)
        /\ \A i \in 1..Len(tty) : tty'[i] = tty[i]
    BY <2>1, SaysWord DEF Types
  <2>3. \A i \in 1..Len(tty) : i \in 1..(Len(tty) + 1)
    BY <2>2
  <2> QED BY <2>2, <2>3 DEF Heard
<1> QED BY <1>1, <1>2 DEF Heard

\* Out of data mode, and in command mode, the modem stays until it is dialled.
LEMMA ModeKept ==
    ASSUME Types, Modem \/ RemoteText, NoDials
    PROVE  /\ OutOfData => OutOfData'
           /\ mode = "command" => mode' = "command"
           /\ NoDials'
<1>1. NoDials'
  BY OrderModem
<1>2. CASE Take
  <2>1. wire[1].cmd # "ATDT"
    BY <1>2, TakenWire DEF NoDials
  <2> QED BY <1>1, <1>2, <2>1, TakeCases DEF OutOfData
<1>3. CASE ~Take
  BY <1>1, <1>3 DEF Modem, Answered, CallLost, CallEnds, BridgeExits, Respawn, RemoteText, OutOfData
<1> QED BY <1>2, <1>3

\* A line that goes down goes down.
LEMMA DownKept ==
    ASSUME Types, Modem \/ RemoteText, Down
    PROVE  Down'
<1>1. NoDials /\ NoDials'
  BY ModeKept DEF Down
<1>2. CASE mode = "command"
  BY <1>1, <1>2, ModeKept DEF Down
<1>3. CASE mode = "escaped" /\ \E i \in DOMAIN wire : wire[i].cmd = "ATH"
  <2>1. PICK i \in DOMAIN wire : wire[i].cmd = "ATH"
    BY <1>3
  <2>2. CASE Take
    <3>1. CASE i = 1
      <4>1. mode' = "command"
        BY <1>3, <2>1, <2>2, <3>1, TakeCases DEF Resets
      <4> QED BY <1>1, <4>1 DEF Down
    <3>2. CASE i # 1
      <4>1. i - 1 \in DOMAIN wire' /\ wire'[i - 1] = wire[i]
        <5>1. /\ Len(wire) \in Nat \ {0} /\ DOMAIN wire = 1..Len(wire)
              /\ DOMAIN wire' = 1..(Len(wire) - 1)
              /\ \A j \in 1..(Len(wire) - 1) : wire'[j] = wire[j + 1]
          BY <2>2, TakenWire
        <5>2. i - 1 \in 1..(Len(wire) - 1) /\ (i - 1) + 1 = i
          BY <3>2, <5>1
        <5> QED BY <5>1, <5>2
      <4>2. OutOfData'
        BY <1>1, <1>3, ModeKept DEF OutOfData
      <4> QED BY <1>1, <2>1, <4>1, <4>2 DEF Down, OutOfData
    <3> QED BY <3>1, <3>2
  <2>3. CASE ~Take
    <3>1. wire' = wire /\ (mode' = mode \/ mode' = "command")
      BY <1>3, <2>3 DEF Modem, Answered, CallLost, CallEnds, BridgeExits, Respawn, RemoteText
    <3> QED BY <1>1, <1>3, <3>1 DEF Down
  <2> QED BY <2>2, <2>3
<1> QED BY <1>2, <1>3 DEF Down

-----------------------------------------------------------------------------
(* InitInv and InitRecovers.                                               *)

\* What InitInv says of a client.
InitOf(c) ==
    Live(c) =>
        /\ pos[c] = 2 /\ stage[c] = "begin" => wire = <<>> /\ OutOfData
        /\ Waits(c, 2) =>
              /\ NoDials
              /\ \/ mode = "command"
                 \/ /\ mode = "escaped" /\ tty = <<>>
                    /\ Len(wire) = 1 /\ wire[1].cmd = "ATH"
        /\ pos[c] > 2 /\ BeforeDial(c) => mode = "command" /\ NoDials
        /\ pos[c] \in 3..(DialAt - 1) /\ stage[c] = "wait" =>
              Heard({"OK", "ERROR"}) \/ AnswerComes

\* In time the modem has looked at all that was written when a wait is over.
LEMMA TimelyWire ==
    ASSUME NEW c \in Clients, handle[c] = "open", InTime(c), Timely'
    PROVE  wire = <<>>
BY DEF InTime, Timely

\* An escape that has been looked at in time has worked.
LEMMA EscapeWorks ==
    ASSUME wire = <<>>, EscapedNext
    PROVE  OutOfData
BY DEF EscapedNext, EscapedBy, OutOfData

\* Nor has a dial gone unnoticed.
LEMMA NothingThere == wire = <<>> => NoDials /\ ~AnswerComes /\ Len(wire) = 0 /\ DOMAIN wire = {}
BY DEF NoDials, AnswerComes

\* What a command written to the wire does to it.
LEMMA CommandPut ==
    ASSUME Types, NEW w \in Writers, NEW cmd \in Commands \ {"ATDT"}, Put(w, cmd, 0)
    PROVE  /\ NoDials => NoDials'
           /\ cmd \notin {"+++", "text"} => AnswerComes'
           /\ wire = <<>> => Len(wire') = 1 /\ wire'[1].cmd = cmd
<1>1. /\ Len(wire) \in Nat /\ Len(wire') = Len(wire) + 1
      /\ DOMAIN wire = 1..Len(wire) /\ DOMAIN wire' = 1..(Len(wire) + 1)
      /\ \A i \in 1..(Len(wire) + 1) : i \in 1..Len(wire) \/ i = Len(wire) + 1
      /\ \A i \in 1..Len(wire) : wire'[i].cmd = wire[i].cmd
      /\ wire'[Len(wire) + 1].cmd = cmd
  <2>1. 0 \in Nat
    OBVIOUS
  <2> QED BY <2>1, PutWire
<1>2. NoDials => NoDials'
  BY <1>1 DEF NoDials
<1>3. cmd \notin {"+++", "text"} => AnswerComes'
  <2>1. wire' # <<>>
    BY <1>1
  <2> QED BY <1>1, <2>1 DEF AnswerComes
<1>4. wire = <<>> => Len(wire) = 0
  OBVIOUS
<1> QED BY <1>1, <1>2, <1>3, <1>4

\* In command mode the answer comes.
LEMMA AnswerTaken ==
    ASSUME Types, Take
    PROVE  mode = "command" /\ NoDials /\ AnswerComes =>
              Heard({"OK", "ERROR"})' \/ AnswerComes'
<1>1. PICK z \in Nat \ {0} : z = Len(wire)
  BY TakenWire
<1>2. /\ Len(wire') = z - 1
      /\ \A i \in 1..(z - 1) : wire'[i] = wire[i + 1]
  BY <1>1, TakenWire
<1> HAVE mode = "command" /\ NoDials /\ AnswerComes
<1>3. CASE z = 1
  <2>1. wire[1].cmd \notin {"+++", "ATDT", "text"}
    BY <1>1, <1>3 DEF AnswerComes
  <2>2. PICK w \in {"OK", "ERROR"} : Says(<<Word(w, 0)>>)
    BY <2>1, TakeCases
  <2>3. w \in Words /\ 0 \in Nat
    BY DEF Words, Results
  <2>4. Len(tty) + 1 \in DOMAIN tty' /\ tty'[Len(tty) + 1] = Word(w, 0)
    BY <2>2, <2>3, SaysWord DEF Types
  <2>5. tty'[Len(tty) + 1].word \in {"OK", "ERROR"}
    BY <2>4 DEF Word
  <2> QED BY <2>4, <2>5 DEF Heard
<1>4. CASE z # 1
  <2>1. z - 1 \in 1..(z - 1) /\ (z - 1) + 1 = z
    BY <1>4
  <2>2. wire'[z - 1] = wire[z] /\ wire' # <<>>
    <3>1. wire'[z - 1] = wire[(z - 1) + 1]
      BY <1>2, <2>1
    <3>2. Len(wire') # 0
      BY <1>2, <2>1
    <3>3. wire' # <<>>
      BY <3>2
    <3> QED BY <2>1, <3>1, <3>3
  <2> QED BY <1>1, <1>2, <2>2 DEF AnswerComes
<1> QED BY <1>3, <1>4

\* What the modem does keeps what InitInv says.
LEMMA InitModem ==
    ASSUME Types, ModemMoves, NEW c \in Clients, InitOf(c)
    PROVE  InitOf(c)'
<1> SUFFICES ASSUME Live(c)'
             PROVE  /\ pos[c] = 2 /\ stage[c] = "begin" => wire' = <<>> /\ OutOfData'
                    /\ Waits(c, 2) =>
                          /\ NoDials'
                          /\ \/ mode' = "command"
                             \/ /\ mode' = "escaped" /\ tty' = <<>>
                                /\ Len(wire') = 1 /\ wire'[1].cmd = "ATH"
                    /\ pos[c] > 2 /\ BeforeDial(c) => mode' = "command" /\ NoDials'
                    /\ pos[c] \in 3..(DialAt - 1) /\ stage[c] = "wait" =>
                          Heard({"OK", "ERROR"})' \/ AnswerComes'
  BY DEF InitOf, ModemMoves, clientVars, Waits, BeforeDial
<1>0. InitOf(c) /\ Live(c) /\ (Modem \/ RemoteText)
  BY DEF Live, ModemMoves, clientVars
<1>1. ASSUME pos[c] = 2, stage[c] = "begin" PROVE wire' = <<>> /\ OutOfData'
  <2>1. wire = <<>> /\ OutOfData /\ NoDials
    BY <1>0, <1>1, NothingThere DEF InitOf
  <2>2. wire' = wire
    BY <1>0, <2>1 DEF Modem, Take, Answered, CallLost, BridgeExits, Respawn, RemoteText
  <2> QED BY <1>0, <2>1, <2>2, ModeKept
<1>2. ASSUME Waits(c, 2)
      PROVE  /\ NoDials'
             /\ \/ mode' = "command"
                \/ mode' = "escaped" /\ tty' = <<>> /\ Len(wire') = 1 /\ wire'[1].cmd = "ATH"
  <2>1. NoDials
    BY <1>0, <1>2 DEF InitOf
  <2>2. CASE mode = "command"
    BY <1>0, <2>1, <2>2, ModeKept
  <2>3. CASE mode = "escaped" /\ tty = <<>> /\ Len(wire) = 1 /\ wire[1].cmd = "ATH"
    <3>1. CASE Take
      <4>1. mode' = "command"
        BY <2>3, <3>1, TakeCases DEF Resets
      <4> QED BY <1>0, <2>1, <4>1, ModeKept
    <3>2. CASE ~Take
      <4>1. (mode' = mode /\ tty' = tty /\ wire' = wire) \/ mode' = "command"
        BY <1>0, <2>3, <3>2 DEF Modem, Answered, CallLost, CallEnds, BridgeExits, Respawn, RemoteText
      <4> QED BY <1>0, <2>1, <2>3, <4>1, ModeKept
    <3> QED BY <3>1, <3>2
  <2> QED BY <1>0, <1>2, <2>2, <2>3 DEF InitOf
<1>3. ASSUME pos[c] > 2, BeforeDial(c) PROVE mode' = "command" /\ NoDials'
  BY <1>0, <1>3, ModeKept DEF InitOf
<1>4. ASSUME pos[c] \in 3..(DialAt - 1), stage[c] = "wait"
      PROVE  Heard({"OK", "ERROR"})' \/ AnswerComes'
  <2>1. pos[c] > 2 /\ BeforeDial(c)
    BY <1>4 DEF BeforeDial, DialAt
  <2>2. mode = "command" /\ NoDials /\ (Heard({"OK", "ERROR"}) \/ AnswerComes)
    BY <1>0, <1>4, <2>1 DEF InitOf
  <2>3. CASE Heard({"OK", "ERROR"})
    BY <1>0, <2>3, HeardKept
  <2>4. CASE AnswerComes /\ Take
    BY <2>2, <2>4, AnswerTaken
  <2>5. CASE AnswerComes /\ ~Take
    <3>1. wire' = wire
      BY <1>0, <2>5 DEF Modem, Answered, CallLost, BridgeExits, Respawn, RemoteText
    <3> QED BY <2>5, <3>1 DEF AnswerComes
  <2> QED BY <2>2, <2>3, <2>4, <2>5
<1> QED BY <1>1, <1>2, <1>3, <1>4

\* Init in time.
LEMMA StepInit ==
    ASSUME Types, PlaceInv, AloneInv, OrderInv, InitInv, [Next]_vars
    PROVE  InitInv'
<1> SUFFICES ASSUME Timely', NEW c \in Clients
             PROVE  InitOf(c)'
  BY DEF InitInv, InitOf
<1> USE DEF DialAt, Waits, BeforeDial
<1>0. /\ Timely /\ "shared" \notin faults /\ "shared" \notin faults'
      /\ InitOf(c) /\ OrderOf(c) /\ PlaceOf(c)
  BY FaultsGrow DEF Timely, InitInv, InitOf, OrderInv, OrderOf, PlaceInv
<1>1. CASE ModemMoves
  BY <1>0, <1>1, InitModem
<1>2. CASE Talk(c)
  <2>0. /\ pc[c] = "talk" /\ pos[c] \in 1..9 /\ c \in Writers /\ quiet \subseteq {c}
        /\ UNCHANGED <<mode, call, bridge, present, handle>> /\ Others(c)
    BY <1>0, <1>2, TalkAlone
  <2> SUFFICES ASSUME handle[c] = "open" PROVE InitOf(c)'
    BY <2>0 DEF InitOf, Live
  <2>1. Live(c)
    BY <2>0 DEF Live
  <2>2. CASE Rest(c)
    BY <2>2, RestFacts DEF InitOf
  <2>3. CASE Escape(c)
    BY <2>3, EscapeFacts DEF InitOf
  <2>4. CASE Escaped(c)
    <3>1. wire = <<>> /\ wire' = wire
      BY <1>0, <2>4, EscapedFacts, TimelyWire DEF modemVars
    <3>2. pos[c] = 1 => OutOfData'
      BY <1>0, <2>0, <2>1, <2>4, <3>1, EscapedFacts, EscapeWorks DEF OrderOf, OutOfData
    <3> QED BY <2>4, <3>1, <3>2, EscapedFacts DEF InitOf, Moves
  <2>5. CASE Send(c)
    <3>1. /\ stage[c] = "begin" /\ stage'[c] = "wait" /\ pos' = pos /\ pos[c] \in 2..9 /\ pos[c] # 8
          /\ pos[c] = 2 => tty' = <<>>
      BY <2>5, SendFacts
    <3>2. CASE pos[c] \in {7, 9}
      BY <3>1, <3>2 DEF InitOf
    <3>3. CASE pos[c] \in 2..6
      <4>1. /\ Put(c, Here(c).cmd, 0) /\ Here(c).cmd \in Commands \ {"ATDT"}
            /\ Here(c).cmd \notin {"+++", "text"} /\ (pos[c] = 2 => Here(c).cmd = "ATH")
        BY <2>5, <3>3, SendFacts, HereFacts
      <4>2. AnswerComes' /\ (NoDials => NoDials')
        BY <2>0, <4>1, CommandPut
      <4>3. pos[c] = 2 => OutOfData /\ NoDials /\ Len(wire') = 1 /\ wire'[1].cmd = "ATH"
        <5>1. pos[c] = 2 => OutOfData /\ wire = <<>>
          BY <1>0, <2>1, <3>1 DEF InitOf
        <5> QED BY <2>0, <4>1, <5>1, CommandPut, NothingThere
      <4>4. pos[c] > 2 => mode = "command" /\ NoDials
        BY <1>0, <2>1, <3>3 DEF InitOf
      <4> QED BY <2>0, <3>1, <3>3, <4>2, <4>3, <4>4 DEF InitOf, OutOfData
    <3> QED BY <3>1, <3>2, <3>3
  <2>6. CASE SendFails(c)
    BY <2>6, SendFailsFacts
  <2>7. CASE Timeout(c)
    <3>1. wire = <<>> /\ wire' = wire /\ stage[c] = "wait" /\ \E w : Unanswered(c, w)
      BY <1>0, <2>7, TimeoutFacts, TimelyWire
    <3>2. pos[c] = 2 => mode = "command"
      BY <1>0, <2>1, <3>1, NothingThere DEF InitOf
    <3>3. NoDials'
      BY <3>1, NothingThere DEF NoDials
    <3> QED BY <2>0, <3>1, <3>2, <3>3 DEF InitOf, Live, Unanswered, Moves, MovesOn
  <2>8. CASE Reply(c)
    <3>1. wire' = wire /\ tty # <<>> /\ stage[c] = "wait" /\ (StepAnswered(c) \/ DialAnswered(c))
      BY <2>8, ReplyFacts
    <3>2. pos[c] \in 2..6 => mode = "command" /\ NoDials
      BY <1>0, <2>1, <3>1 DEF InitOf
    <3>3. NoDials => NoDials'
      BY <3>1 DEF NoDials
    <3> QED BY <2>0, <3>1, <3>2, <3>3 DEF InitOf, Live, StepAnswered, DialAnswered, Moves, MovesOn
  <2> QED BY <1>2, <2>2, <2>3, <2>4, <2>5, <2>6, <2>7, <2>8 DEF Talk
<1>3. CASE Walk(c)
  <2>1. pc'[c] = "talk" => pos'[c] \in {1, 8} /\ stage'[c] = "begin"
    BY <1>0, <1>3, WalkFacts DEF WalkCase, Moves, Keeps, PlaceOf, HangupAt
  <2> QED BY <2>1 DEF InitOf, Live
<1>4. CASE LateWrite(c)
  <2>1. UNCHANGED clientVars /\ pos[c] \in 8..9
    BY <1>4, LatePlace DEF LateWrite
  <2> QED BY <2>1 DEF InitOf, Live, clientVars
<1>5. CASE Close(c) \/ BridgeKill(c) \/ Away(c) \/ Breaks(c)
  <2>1. CASE Close(c)
    BY <2>1, CloseFacts DEF InitOf, Live, Keeps
  <2>2. CASE BridgeKill(c)
    <3>1. pc'[c] = "killed"
      BY <2>2, BridgeKillFacts DEF Types
    <3> QED BY <3>1 DEF InitOf, Live
  <2> QED BY <1>5, <2>1, <2>2 DEF InitOf, Live, Away, Breaks
<1>6. CASE Same(c)
  BY <1>0, <1>6 DEF InitOf, Live, Same, OutOfData, NoDials, Heard, AnswerComes
<1> QED BY <1>0, <1>1, <1>2, <1>3, <1>4, <1>5, <1>6, Seen

\* How an outcome changes.
LEMMA OutcomeKinds ==
    ASSUME Types, PlaceInv, [Next]_vars, NEW c \in Clients
    PROVE  \/ outcome'[c] = outcome[c]
           \/ outcome'[c].word \in {"none", "TIMEOUT", "IO_ERROR", "REFUSED"}
           \/ /\ Timeout(c) /\ handle[c] = "open" /\ pos[c] \in 3..6
              /\ outcome'[c].word = "NO_RESPONSE"
           \/ Reply(c) /\ DialAnswered(c)
<1> USE DEF Word
<1>1. CASE (Modem /\ UNCHANGED <<clientVars, faults>>) \/ Chatter \/ ModemCrash \/ UNCHANGED vars
  BY <1>1 DEF clientVars, Chatter, ModemCrash, vars
<1>2. CASE \E d \in Clients : BridgeKill(d) \/ LateWrite(d)
  BY <1>2 DEF BridgeKill, LateWrite, clientVars
<1>3. CASE \E gone \in {Hubs} \cup {{d} : d \in Probes} : Crash(gone)
  BY <1>3 DEF Crash, Nothing
<1>4. ASSUME NEW d \in Clients, d # c, Talk(d) \/ Walk(d) \/ Close(d)
      PROVE  outcome'[c] = outcome[c]
  <2>1. Others(d)
    BY <1>4, RestFacts, EscapedFacts, SendFacts, SendFailsFacts, TimeoutFacts,
       ReplyFacts, WalkFacts, CloseFacts, EscapeFacts DEF Talk
  <2> QED BY <1>4, <2>1 DEF Others
<1>5. CASE Walk(c) \/ Close(c)
  BY <1>5, WalkFacts, CloseFacts DEF WalkCase, Nothing
<1>6. CASE Talk(c)
  <2>1. CASE Rest(c) \/ Escape(c) \/ Escaped(c) \/ Send(c)
    BY <2>1, RestFacts, EscapeFacts, EscapedFacts, SendFacts
  <2>2. CASE SendFails(c)
    BY <2>2, SendFailsFacts DEF Unanswered
  <2>3. CASE Timeout(c)
    <3>1. CASE handle[c] = "open"
      <4>1. Unanswered(c, Word("NO_RESPONSE", 0))
        BY <2>3, <3>1, TimeoutFacts
      <4> QED BY <2>3, <3>1, <4>1 DEF Unanswered
    <3>2. CASE handle[c] # "open"
      <4>1. Unanswered(c, Word("IO_ERROR", 0))
        BY <2>3, <3>2, TimeoutFacts
      <4> QED BY <4>1 DEF Unanswered
    <3> QED BY <3>1, <3>2
  <2>4. CASE Reply(c)
    BY <2>4, ReplyFacts DEF StepAnswered
  <2> QED BY <1>6, <2>1, <2>2, <2>3, <2>4 DEF Talk
<1> QED BY <1>1, <1>2, <1>3, <1>4, <1>5, <1>6, StepKinds DEF ClientStep

\* Init gets its answers.
LEMMA StepRecovers ==
    ASSUME Types, PlaceInv, AloneInv, InitInv, InitRecovers, [Next]_vars
    PROVE  InitRecovers'
<1> SUFFICES ASSUME NEW c \in Clients, outcome'[c].word = "NO_RESPONSE", Timely'
             PROVE  FALSE
  BY DEF InitRecovers, Timely
<1>1. Timely
  BY FaultsGrow DEF Timely
<1>2. outcome'[c] # outcome[c]
  BY <1>1 DEF InitRecovers, Timely
<1>3. ~DialAnswered(c)
  BY DEF DialAnswered, IsAnswer, Results
<1>4. Timeout(c) /\ handle[c] = "open" /\ pos[c] \in 3..6
  BY <1>2, <1>3, OutcomeKinds
<1>5. wire = <<>> /\ pc[c] = "talk" /\ stage[c] = "wait" /\ ~Heard(Here(c).accept)
  BY <1>4, TimeoutFacts, TimelyWire
<1>6. Here(c).accept = {"OK", "ERROR"}
  BY <1>4, HereFacts
<1>7. Heard({"OK", "ERROR"}) \/ AnswerComes
  BY <1>1, <1>4, <1>5 DEF InitInv, Live, DialAt
<1> QED BY <1>5, <1>6, <1>7, NothingThere

-----------------------------------------------------------------------------
(* HangupInv.                                                              *)

\* What HangupInv says of a client.
HangOf(c) ==
    /\ Live(c) =>
          /\ pos[c] = HangupAt /\ stage[c] = "rest" => c \in quiet
          /\ Waits(c, HangupAt) => EscapedNext
          /\ pos[c] = HangupAt + 1 /\ stage[c] = "begin" => OutOfData /\ NoDials
          /\ Waits(c, HangupAt + 1) => Down
    /\ c \in Hubs /\ pc[c] = "close" /\ handle[c] = "open" => Down

\* An ATH written to a modem that is out of data mode takes the line down.
LEMMA DownPut ==
    ASSUME Types, NEW w \in Writers, Put(w, "ATH", 0), mode' = mode, OutOfData, NoDials
    PROVE  Down'
<1>1. "ATH" \in Commands \ {"ATDT"} /\ 0 \in Nat
  BY DEF Commands
<1>2. NoDials'
  BY <1>1, CommandPut
<1>3. /\ Len(wire) \in Nat /\ DOMAIN wire' = 1..(Len(wire) + 1)
      /\ wire'[Len(wire) + 1].cmd = "ATH"
  BY <1>1, PutWire
<1>4. Len(wire) + 1 \in DOMAIN wire'
  BY <1>3
<1> QED BY <1>2, <1>3, <1>4 DEF Down, OutOfData

\* Another write does not keep it up.
LEMMA DownPutMore ==
    ASSUME Types, NEW w \in Writers, NEW cmd \in Commands \ {"ATDT"}, Put(w, cmd, 0), mode' = mode
    PROVE  Down => Down'
<1>1. NoDials => NoDials'
  BY CommandPut
<1>2. /\ Len(wire) \in Nat /\ DOMAIN wire = 1..Len(wire) /\ DOMAIN wire' = 1..(Len(wire) + 1)
      /\ \A i \in 1..Len(wire) : wire'[i].cmd = wire[i].cmd
  <2>1. 0 \in Nat
    OBVIOUS
  <2> QED BY <2>1, PutWire
<1>3. \A i \in 1..Len(wire) : i \in 1..(Len(wire) + 1)
  BY <1>2
<1> QED BY <1>1, <1>2, <1>3 DEF Down

\* Hangup in time.
LEMMA StepHangup ==
    ASSUME Types, PlaceInv, AloneInv, OrderInv, InitInv, HangupInv, [Next]_vars
    PROVE  HangupInv'
<1> SUFFICES ASSUME Timely', HangupAt \notin LateLines, NEW c \in Clients
             PROVE  HangOf(c)'
  BY DEF HangupInv, HangOf
<1> USE DEF HangupAt, Waits
<1>0. /\ Timely /\ "shared" \notin faults /\ "shared" \notin faults'
      /\ HangOf(c) /\ InitOf(c) /\ PlaceOf(c)
  BY FaultsGrow DEF Timely, HangupInv, HangOf, InitInv, InitOf, PlaceInv
<1>1. CASE ModemMoves
  <2>1. (Modem \/ RemoteText) /\ UNCHANGED clientVars /\ quiet' = quiet
    BY <1>1 DEF ModemMoves
  <2>2. (EscapedNext => EscapedNext') /\ (Down => Down') /\ (OutOfData /\ NoDials => (OutOfData /\ NoDials)')
    BY <2>1, OrderModem, DownKept, ModeKept
  <2> QED BY <1>0, <2>1, <2>2 DEF HangOf, Live, clientVars
<1>2. CASE Talk(c)
  <2>0. /\ pc[c] = "talk" /\ pos[c] \in 1..9 /\ c \in Writers /\ quiet \subseteq {c}
        /\ UNCHANGED <<mode, call, bridge, present, handle>> /\ Others(c)
    BY <1>0, <1>2, TalkAlone
  <2> SUFFICES ASSUME handle[c] = "open" PROVE HangOf(c)'
    BY <2>0 DEF HangOf, Live
  <2>1. Live(c)
    BY <2>0 DEF Live
  <2>2. CASE Rest(c)
    BY <2>2, RestFacts DEF HangOf
  <2>3. CASE Escape(c)
    <3>1. Put(c, "+++", 0) /\ pc' = pc /\ pos' = pos /\ stage'[c] = "wait" /\ stage[c] = "rest"
          /\ pos[c] \in {1, 8}
      BY <2>3, EscapeFacts
    <3>2. "+++" \in Commands /\ 0 \in Nat
      BY DEF Commands
    <3>3. pos[c] = 8 => EscapedNext'
      BY <1>0, <2>0, <2>1, <3>1, <3>2, OrderPut DEF HangOf
    <3> QED BY <2>0, <3>1, <3>3 DEF HangOf, Live
  <2>4. CASE Escaped(c)
    <3>1. /\ wire = <<>> /\ wire' = wire /\ pos[c] \in {1, 8} /\ Moves(c, "talk", pos[c] + 1)
          /\ stage[c] = "wait"
      BY <1>0, <2>4, EscapedFacts, TimelyWire DEF modemVars
    <3>2. pos[c] = 8 => OutOfData'
      BY <1>0, <2>0, <2>1, <3>1, EscapeWorks DEF HangOf, OutOfData
    <3>3. NoDials'
      BY <3>1, NothingThere DEF NoDials
    <3> QED BY <3>1, <3>2, <3>3 DEF HangOf, Moves
  <2>5. CASE Send(c)
    <3>1. stage[c] = "begin" /\ stage'[c] = "wait" /\ pos' = pos /\ pc' = pc
      BY <2>5, SendFacts
    <3>2. CASE pos[c] = 9
      <4>1. Put(c, "ATH", 0)
        BY <2>5, <3>2, SendFacts, HereFacts
      <4>2. OutOfData /\ NoDials
        BY <1>0, <2>1, <3>1, <3>2 DEF HangOf
      <4> QED BY <2>0, <3>1, <3>2, <4>1, <4>2, DownPut DEF HangOf
    <3>3. CASE pos[c] # 9
      <4>1. pos[c] # 8
        BY <2>5, SendFacts
      <4> QED BY <2>0, <3>1, <3>3, <4>1 DEF HangOf
    <3> QED BY <3>2, <3>3
  <2>6. CASE SendFails(c)
    BY <2>6, SendFailsFacts
  <2>7. CASE Timeout(c)
    <3>1. wire' = wire /\ stage[c] = "wait" /\ \E w : Unanswered(c, w)
      BY <2>7, TimeoutFacts
    <3>2. pos[c] \in 3..6 => mode = "command" /\ NoDials
      BY <1>0, <2>1 DEF InitOf, BeforeDial, DialAt
    <3>3. pos[c] = 9 => Down
      BY <1>0, <2>1, <3>1 DEF HangOf
    <3>4. pos[c] \in 3..6 \cup {9} => Down'
      BY <2>0, <3>1, <3>2, <3>3 DEF Down, NoDials
    <3> QED BY <2>0, <3>1, <3>4, DialerAssumption DEF HangOf, Live, Unanswered, Moves, MovesOn
  <2>8. CASE Reply(c)
    <3>1. wire' = wire /\ stage[c] = "wait" /\ (StepAnswered(c) \/ DialAnswered(c))
      BY <2>8, ReplyFacts
    <3>2. pos[c] \in 3..6 => mode = "command" /\ NoDials
      BY <1>0, <2>1 DEF InitOf, BeforeDial, DialAt
    <3>3. pos[c] = 9 => Down
      BY <1>0, <2>1, <3>1 DEF HangOf
    <3>4. pos[c] \in 3..6 \cup {9} => Down'
      BY <2>0, <3>1, <3>2, <3>3 DEF Down, NoDials
    <3> QED BY <2>0, <3>1, <3>4, DialerAssumption
            DEF HangOf, Live, StepAnswered, DialAnswered, Moves, MovesOn
  <2> QED BY <1>2, <2>2, <2>3, <2>4, <2>5, <2>6, <2>7, <2>8 DEF Talk
<1>3. CASE Walk(c)
  <2>1. Hubs \cap Probes = {}
    BY DialerAssumption
  <2>2. /\ pc'[c] = "talk" => pos'[c] \in {1, 8} /\ stage'[c] = "begin"
        /\ c \in Hubs /\ pc'[c] = "close" => handle'[c] # "open"
    BY <1>0, <1>3, <2>1, WalkFacts DEF WalkCase, Moves, Keeps, PlaceOf
  <2> QED BY <2>2 DEF HangOf, Live
<1>4. CASE LateWrite(c)
  <2>1. /\ UNCHANGED clientVars /\ mode' = mode /\ pos[c] = 9 /\ pc[c] = "talk" /\ handle[c] = "open"
        /\ Put("batch", "text", 0)
    BY <1>4, LatePlace DEF LateWrite
  <2>2. "batch" \in Writers /\ "text" \in Commands \ {"ATDT"}
    BY ClientsWrite DEF Commands
  <2>3. (Down => Down') /\ (NoDials => NoDials')
    BY <2>1, <2>2, DownPutMore, CommandPut
  <2> QED BY <1>0, <2>1, <2>3 DEF HangOf, Live, clientVars, OutOfData
<1>5. CASE Close(c) \/ BridgeKill(c) \/ Away(c) \/ Breaks(c)
  <2>1. CASE Close(c)
    BY <2>1, CloseFacts DEF HangOf, Live, Keeps
  <2>2. CASE BridgeKill(c)
    <3>1. pc'[c] = "killed"
      BY <2>2, BridgeKillFacts DEF Types
    <3> QED BY <3>1 DEF HangOf, Live
  <2> QED BY <1>5, <2>1, <2>2 DEF HangOf, Live, Away, Breaks
<1>6. CASE Same(c)
  <2>1. (EscapedNext => EscapedNext') /\ (NoDials => NoDials')
    BY <1>6, OrderMode DEF Same
  <2> QED BY <1>0, <1>6, <2>1 DEF HangOf, Live, Same, OutOfData, Down
<1> QED BY <1>0, <1>1, <1>2, <1>3, <1>4, <1>5, <1>6, Seen

-----------------------------------------------------------------------------
(* RetryInv.                                                               *)

\* Where, between two attempts, no number may be on its way.
Between(c) ==
    \/ Live(c) /\ pos[c] = HangupAt + 1
    \/ pc[c] \in {"close", "closed"} /\ outcome[c].word \in {"NO_CARRIER", "TIMEOUT"}
    \/ pc[c] \in {"bridge", "killed", "device"}
    \/ Again(c)

RetryOf(c) ==
    /\ Between(c) => NoDials
    /\ (pc[c] = "device" \/ Again(c)) /\ "blind" \notin faults => bridge = "none"

\* A bridge that has gone stays away until the next ATDT.
LEMMA NoBridge ==
    ASSUME Types, BridgeInv, Modem \/ RemoteText, NoDials, bridge = "none"
    PROVE  bridge' = "none"
<1>1. CASE Take
  <2>1. wire[1].cmd # "ATDT"
    BY <1>1, TakenWire DEF NoDials
  <2> QED BY <1>1, <2>1, TakeCases DEF BridgeInv
<1>2. CASE ~Take
  BY <1>2 DEF Modem, Answered, CallLost, CallEnds, BridgeExits, Respawn, RemoteText, BridgeInv
<1> QED BY <1>1, <1>2

\* Every step keeps RetryInv.
LEMMA StepRetry ==
    ASSUME Types, PlaceInv, BridgeInv, AloneInv, RetryInv, [Next]_vars
    PROVE  RetryInv'
<1> SUFFICES ASSUME Timely', NEW c \in Clients, c \in Hubs
             PROVE  RetryOf(c)'
  BY DEF RetryInv, RetryOf, Between, Clients
<1> USE DEF HangupAt, DialAt, Waits, BeforeDial, Again
<1>0. /\ Timely /\ "shared" \notin faults /\ "shared" \notin faults'
      /\ faults \subseteq faults' /\ RetryOf(c) /\ PlaceOf(c) /\ c \notin Probes
  BY FaultsGrow, DialerAssumption DEF Timely, RetryInv, RetryOf, Between, PlaceInv, Clients
<1>1. CASE ModemMoves
  <2>1. (Modem \/ RemoteText) /\ UNCHANGED clientVars
    BY <1>1 DEF ModemMoves
  <2>2. (NoDials => NoDials') /\ (NoDials /\ bridge = "none" => bridge' = "none")
    BY <2>1, ModeKept, NoBridge
  <2>3. Between(c)' <=> Between(c)
    BY <2>1 DEF Between, Live, clientVars
  <2>4. pc[c] = "device" \/ Again(c) => Between(c)
    BY DEF Between
  <2> QED BY <1>0, <2>1, <2>2, <2>3, <2>4 DEF RetryOf, clientVars
<1>2. CASE Talk(c)
  <2>0. /\ pc[c] = "talk" /\ pos[c] \in 1..9 /\ c \in Writers /\ quiet \subseteq {c}
        /\ UNCHANGED <<mode, call, bridge, present, handle>>
        /\ handle[c] \in {"open", "dead"} /\ (handle[c] = "dead" => wire = <<>> /\ wire' = <<>>)
    BY <1>0, <1>2, TalkAlone
  <2>1. handle[c] = "dead" => NoDials'
    BY <2>0 DEF NoDials
  <2>2. handle[c] = "open" => Live(c)
    BY <2>0 DEF Live
  <2>3. (Again(c) \/ (Live(c) /\ pos[c] = 9)) => NoDials
    BY <1>0 DEF RetryOf, Between
  <2>4. wire' = wire => (NoDials => NoDials')
    BY DEF NoDials
  \* It is enough that nothing but a stretch between two attempts leads to one.
  <2> SUFFICES /\ pc'[c] \in {"talk", "online", "close"}
               /\ Again(c)' => Again(c)
               /\ Between(c)' => NoDials'
    BY <1>0, <2>0 DEF RetryOf
  <2>5. CASE Rest(c)
    BY <2>0, <2>2, <2>3, <2>4, <2>5, RestFacts DEF Between, Live
  <2>6. CASE Escape(c)
    <3>1. CASE handle[c] = "open"
      <4>1. Put(c, "+++", 0) /\ pc' = pc /\ pos' = pos /\ attempt' = attempt /\ pos[c] \in {1, 8}
        BY <2>6, <3>1, EscapeFacts
      <4>2. "+++" \in Commands \ {"ATDT"}
        BY DEF Commands
      <4>3. NoDials => NoDials'
        BY <2>0, <4>1, <4>2, CommandPut
      <4> QED BY <2>0, <2>3, <4>1, <4>3 DEF Between, Live
    <3>2. CASE handle[c] = "dead"
      BY <2>0, <2>1, <2>6, <3>2, EscapeFacts DEF Moves
    <3> QED BY <2>0, <3>1, <3>2
  <2>7. CASE Escaped(c)
    <3>1. /\ wire' = wire /\ attempt' = attempt /\ stage[c] = "wait" /\ pos[c] \in {1, 8}
          /\ Moves(c, "talk", pos[c] + 1)
      BY <2>7, EscapedFacts DEF modemVars
    <3>2. handle[c] = "open" => wire = <<>>
      BY <2>7, EscapedFacts, TimelyWire
    <3>3. NoDials'
      BY <2>0, <2>1, <3>1, <3>2, NothingThere DEF NoDials
    <3> QED BY <2>0, <3>1, <3>3 DEF Moves
  <2>8. CASE Send(c)
    <3>1. /\ stage[c] = "begin" /\ stage'[c] = "wait" /\ pos' = pos /\ pc' = pc /\ attempt' = attempt
          /\ handle[c] = "open" /\ outcome' = outcome
      BY <2>8, SendFacts
    <3>2. CASE pos[c] = 7
      BY <2>0, <3>1, <3>2 DEF Between
    <3>3. CASE pos[c] # 7
      <4>1. Put(c, Here(c).cmd, 0) /\ Here(c).cmd \in Commands \ {"ATDT"}
        BY <2>8, <3>3, SendFacts, HereFacts
      <4>2. NoDials => NoDials'
        BY <2>0, <4>1, CommandPut
      <4> QED BY <2>0, <2>2, <2>3, <3>1, <4>2 DEF Between
    <3> QED BY <3>2, <3>3
  <2>9. CASE SendFails(c)
    BY <2>0, <2>1, <2>9, SendFailsFacts, <1>0 DEF Unanswered, Moves, MovesOn
  <2>10. CASE Timeout(c)
    <3>1. wire' = wire /\ attempt' = attempt /\ stage[c] = "wait"
      BY <2>10, TimeoutFacts
    <3>2. PICK w \in {"NO_RESPONSE", "IO_ERROR"} : Unanswered(c, Word(w, 0))
      BY <2>10, TimeoutFacts
    <3>3. CASE handle[c] = "dead"
      BY <1>0, <2>0, <2>1, <3>1, <3>2, <3>3 DEF Unanswered, Moves, MovesOn
    <3>4. CASE handle[c] = "open"
      <4>1. CASE pos[c] \in 3..6
        BY <3>2, <4>1 DEF Unanswered, Moves, Between, Live, Word
      <4>2. CASE pos[c] = 9
        BY <2>0, <2>2, <2>3, <2>4, <3>1, <3>2, <3>4, <4>2 DEF Unanswered, Moves
      <4>3. CASE pos[c] = 2
        BY <2>3, <2>4, <3>1, <3>2, <4>3, <2>0 DEF Unanswered, Moves, Between, Live
      <4>4. CASE pos[c] = 7
        BY <3>2, <4>4 DEF Unanswered, Moves, MovesOn, Between, Live
      <4> QED BY <2>0, <3>2, <4>1, <4>2, <4>3, <4>4 DEF Unanswered
    <3> QED BY <2>0, <3>3, <3>4
  <2>11. CASE Reply(c)
    <3>1. wire' = wire /\ stage[c] = "wait" /\ handle[c] = "open"
      BY <2>11, ReplyFacts
    <3>2. CASE StepAnswered(c)
      <4>1. CASE pos[c] \in 3..6 /\ Moves(c, "close", 1) /\ outcome'[c] = Word("REFUSED", 0)
        BY <4>1 DEF Moves, Between, Live, Word
      <4>2. CASE pos[c] = 9 /\ Moves(c, "close", 1)
        BY <2>2, <2>3, <2>4, <3>1, <4>2 DEF Moves
      <4>3. CASE pos[c] \in 2..6 /\ \E i \in 1..7 : Moves(c, "talk", i) /\ attempt'[c] = attempt[c]
        BY <2>0, <2>3, <2>4, <3>1, <4>3 DEF Moves, Between, Live
      <4>4. attempt'[c] = attempt[c]
        BY <3>2 DEF StepAnswered
      <4> QED BY <1>0, <3>2, <4>1, <4>2, <4>3, <4>4 DEF StepAnswered
    <3>3. CASE DialAnswered(c)
      <4>1. \/ Moves(c, "online", 8)
            \/ Moves(c, "talk", 8)
        BY <3>3 DEF DialAnswered, MovesOn
      <4> QED BY <4>1 DEF Moves, Between, Live
    <3> QED BY <2>11, <3>2, <3>3, ReplyFacts
  <2> QED BY <1>2, <2>5, <2>6, <2>7, <2>8, <2>9, <2>10, <2>11 DEF Talk
<1>3. CASE Walk(c)
  <2>1. wire' = wire /\ bridge' = bridge /\ WalkCase(c)
    BY <1>0, <1>3, WalkFacts DEF modemVars
  <2>2. NoDials => NoDials'
    BY <2>1 DEF NoDials
  <2>3. (Again(c)' \/ pc'[c] = "device") => \/ pc[c] = "device" \/ Again(c)
                                            \/ bridge = "none" \/ "blind" \in faults'
    BY <1>0, <2>1 DEF WalkCase, Moves, Keeps, PlaceOf
  <2>4. Between(c)' => Between(c)
    BY <1>0, <2>1 DEF WalkCase, Moves, Keeps, Between, Live, PlaceOf, Nothing, Word
  <2> QED BY <1>0, <2>1, <2>2, <2>3, <2>4 DEF RetryOf
<1>4. CASE LateWrite(c)
  <2>1. UNCHANGED clientVars /\ bridge' = bridge /\ Put("batch", "text", 0)
    BY <1>4 DEF LateWrite
  <2>2. "batch" \in Writers /\ "text" \in Commands \ {"ATDT"}
    BY ClientsWrite DEF Commands
  <2>3. NoDials => NoDials'
    BY <2>1, <2>2, CommandPut
  <2> QED BY <1>0, <2>1, <2>3 DEF RetryOf, Between, Live, clientVars
<1>5. CASE Close(c)
  <2>1. NoDials => NoDials'
    BY <1>0, <1>5, CloseFacts DEF NoDials
  <2> QED BY <1>0, <1>5, <2>1, CloseFacts DEF RetryOf, Between, Live, Keeps
<1>6. CASE BridgeKill(c)
  <2>1. pc[c] = "bridge" /\ pc'[c] = "killed" /\ (wire' = <<>> \/ wire' = wire)
    <3>1. pc[c] = "bridge" /\ pc' = [pc EXCEPT ![c] = "killed"]
      BY <1>6, BridgeKillFacts
    <3>2. wire' = <<>> \/ wire' = wire
      BY <1>6, BridgeKillFacts DEF BridgeKillMild, Dies, modemVars
    <3> QED BY <3>1, <3>2 DEF Types
  <2>2. NoDials'
    BY <1>0, <2>1 DEF RetryOf, Between, NoDials
  <2> QED BY <2>1, <2>2 DEF RetryOf
<1>7. CASE Away(c)
  BY <1>7 DEF Away, RetryOf, Between, Live
<1>8. CASE Breaks(c)
  <2>1. NoDials'
    BY <1>8 DEF Breaks, NoDials
  <2> QED BY <1>0, <1>8, <2>1 DEF Breaks, RetryOf
<1>9. CASE Same(c)
  BY <1>0, <1>9 DEF Same, RetryOf, Between, Live, NoDials
<1> QED BY <1>0, <1>1, <1>2, <1>3, <1>4, <1>5, <1>6, <1>7, <1>8, <1>9, Seen

-----------------------------------------------------------------------------
(* FirstInv.                                                               *)

\* What FirstInv says of the modem, and of a client.
FirstWire ==
    /\ Heard({"OK", "ERROR"}) => OutOfData
    /\ \A i \in DOMAIN wire :
          wire[i].cmd \in {"ATE0", "ATX3", "AT+"} =>
              /\ mode = "escaped" => \E k \in 1..(i - 1) : wire[k].cmd \in Resets
              /\ \A j \in 1..(i - 1) : wire[j].cmd = "+++" =>
                    \E k \in (j + 1)..(i - 1) : wire[k].cmd \in Resets

\* The escapes on the wire, and one that has worked, have an ATH behind them.
ResetComes ==
    /\ mode = "escaped" => \E k \in DOMAIN wire : wire[k].cmd \in Resets
    /\ \A j \in DOMAIN wire : wire[j].cmd = "+++" =>
          \E k \in DOMAIN wire : k > j /\ wire[k].cmd \in Resets

FirstOf(c) ==
    Live(c) =>
        /\ pos[c] > 3 => OutOfData
        /\ Waits(c, 4) /\ Heard({"OK", "ERROR"}) => mode = "command"
        /\ pos[c] > 4 => mode = "command"
        /\ Waits(c, 2) \/ pos[c] > 2 => ResetComes

Unasked == faults \cap {"shared", "text"} = {} /\ placed = 0

\* FirstInv, client by client.
LEMMA FirstParts ==
    FirstInv <=> (Unasked => FirstWire /\ \A c \in Clients : FirstOf(c))
BY DEF FirstInv, Unasked, FirstWire, FirstOf, ResetComes

\* No step takes a number back.
LEMMA PlacedGrows ==
    ASSUME Types, PlaceInv, [Next]_vars
    PROVE  placed' \in Nat /\ placed \in Nat /\ placed' >= placed
<1>0. placed \in Nat
  BY DEF Types
<1>1. placed' = placed \/ placed' = placed + 1
  <2>1. CASE \E c \in Clients : Talk(c)
    BY <2>1, RestFacts, EscapeFacts, EscapedFacts, SendFacts, SendFailsFacts, TimeoutFacts,
       ReplyFacts DEF Talk
  <2>2. CASE \E c \in Clients : Walk(c) \/ Close(c)
    BY <2>2, WalkFacts, CloseFacts
  <2>3. CASE \E c \in Clients : LateWrite(c) \/ BridgeKill(c)
    BY <2>3 DEF LateWrite, BridgeKill, clientVars
  <2>4. CASE \E gone \in {Hubs} \cup {{c} : c \in Probes} : Crash(gone)
    BY <2>4 DEF Crash
  <2>5. CASE (Modem /\ UNCHANGED <<clientVars, faults>>) \/ Chatter \/ ModemCrash \/ UNCHANGED vars
    BY <2>5 DEF Chatter, ModemCrash, vars, clientVars
  <2> QED BY <2>1, <2>2, <2>3, <2>4, <2>5, StepKinds DEF ClientStep
<1> QED BY <1>0, <1>1

\* An item of the wire is one place further when the modem has taken the first.
LEMMA FirstTake ==
    ASSUME Types, Take, FirstWire, \A i \in DOMAIN wire : wire[i].cmd \notin {"ATDT", "text"}
    PROVE  /\ FirstWire'
           /\ ResetComes => ResetComes'
           /\ OutOfData /\ (Heard({"OK", "ERROR"}) => mode = "command") =>
                 (Heard({"OK", "ERROR"})' => mode' = "command")
<1>0. PICK z \in Nat \ {0} : z = Len(wire)
  BY TakenWire
<1>1. /\ DOMAIN wire = 1..z /\ DOMAIN wire' = 1..(z - 1)
      /\ \A i \in 1..(z - 1) : wire'[i] = wire[i + 1]
  BY <1>0, TakenWire
<1>2. wire[1].cmd \notin {"ATDT", "text"} /\ 1 \in DOMAIN wire
  BY <1>1
<1>3. mode' = "escaped" =>
         \/ mode = "escaped" /\ wire[1].cmd \notin Resets
         \/ mode = "online" /\ wire[1].cmd = "+++"
  BY <1>2, TakeCases DEF OutOfData, Types, Resets
\* What has just been heard was said by a modem that is out of data mode.
<1>4. \A w \in {"OK", "ERROR"}, n \in Nat : Says(<<Word(w, n)>>) => OutOfData'
  <2>1. tty \in Seq(Said) /\ call \in Nat /\ wire[1].call \in Nat
    BY TakenWire DEF Types, Item
  <2>2. ASSUME NEW w \in {"OK", "ERROR"}, NEW n \in Nat, Says(<<Word(w, n)>>), ~OutOfData'
        PROVE  FALSE
    <3>1. \/ tty' = tty
          \/ Says(<<Word("NO_CARRIER", call)>>)
      BY <1>2, <2>2, TakeCases DEF OutOfData, Types
    <3>2. /\ tty' = tty \o <<Word(w, n)>>
          /\ tty' = tty \/ tty' = tty \o <<Word("NO_CARRIER", call)>>
      BY <2>2, <3>1 DEF Says
    <3>3. Len(tty') = Len(tty) + 1 /\ tty'[Len(tty) + 1] = Word(w, n) /\ Len(tty) \in Nat
      <4>1. w \in Words
        BY DEF Words, Results
      <4> QED BY <2>1, <2>2, <4>1, SaysWord
    <3>4. tty' # tty
      BY <3>3
    <3>5. tty'[Len(tty) + 1] = Word("NO_CARRIER", call)
      <4>1. "NO_CARRIER" \in Words
        BY DEF Words, Results
      <4> QED BY <2>1, <3>1, <3>4, <4>1, SaysWord
    <3> QED BY <3>3, <3>5 DEF Word
  <2> QED BY <2>2
<1>5. Heard({"OK", "ERROR"})' => \/ Heard({"OK", "ERROR"})
                                 \/ \E w \in {"OK", "ERROR"}, n \in Nat : Says(<<Word(w, n)>>)
  <2>1. CASE tty' = tty
    BY <2>1 DEF Heard
  <2>2. ASSUME NEW w \in Words, NEW n \in Nat, Says(<<Word(w, n)>>)
        PROVE  Heard({"OK", "ERROR"})' => \/ Heard({"OK", "ERROR"})
                                          \/ \E x \in {"OK", "ERROR"}, m \in Nat : Says(<<Word(x, m)>>)
    <3>1. \A i \in DOMAIN tty' : (i \in DOMAIN tty /\ tty'[i] = tty[i]) \/ tty'[i] = Word(w, n)
      BY <2>2, SaysWord DEF Types
    <3>2. CASE w \in {"OK", "ERROR"}
      BY <2>2, <3>2
    <3>3. CASE w \notin {"OK", "ERROR"}
      BY <3>1, <3>3 DEF Heard, Word
    <3> QED BY <3>2, <3>3
  <2>3. Modem
    BY DEF Modem
  <2> QED BY <2>1, <2>2, <2>3, ModemSays
<1>6. OutOfData => OutOfData'
  BY <1>2, TakeCases DEF OutOfData
<1>7. Heard({"OK", "ERROR"})' => OutOfData'
  BY <1>4, <1>5, <1>6 DEF FirstWire
<1>8. ASSUME NEW i \in DOMAIN wire', wire'[i].cmd \in {"ATE0", "ATX3", "AT+"}
      PROVE  /\ mode' = "escaped" => \E k \in 1..(i - 1) : wire'[k].cmd \in Resets
             /\ \A j \in 1..(i - 1) : wire'[j].cmd = "+++" =>
                   \E k \in (j + 1)..(i - 1) : wire'[k].cmd \in Resets
  <2>1. /\ i \in 1..(z - 1) /\ i + 1 \in DOMAIN wire /\ wire[i + 1].cmd \in {"ATE0", "ATX3", "AT+"}
        /\ (i + 1) - 1 = i
    BY <1>1, <1>8
  <2>2. /\ mode = "escaped" => \E k \in 1..i : wire[k].cmd \in Resets
        /\ \A j \in 1..i : wire[j].cmd = "+++" =>
              \E k \in (j + 1)..i : wire[k].cmd \in Resets
    BY <2>1 DEF FirstWire
  <2>3. \A k \in 1..i : k # 1 => /\ k - 1 \in 1..(i - 1) /\ wire'[k - 1] = wire[k]
                                 /\ \A j \in 1..(i - 1) : k \in (j + 2)..i => k - 1 \in (j + 1)..(i - 1)
    BY <1>1, <2>1
  <2>4. ASSUME mode' = "escaped" PROVE \E k \in 1..(i - 1) : wire'[k].cmd \in Resets
    <3>1. PICK k \in 1..i : k # 1 /\ wire[k].cmd \in Resets
      <4>1. CASE mode = "escaped" /\ wire[1].cmd \notin Resets
        BY <2>2, <4>1
      <4>2. CASE wire[1].cmd = "+++"
        <5>1. 1 \in 1..i /\ \A k \in (1 + 1)..i : k \in 1..i /\ k # 1
          BY <2>1
        <5> QED BY <2>2, <4>2, <5>1
      <4> QED BY <1>3, <2>4, <4>1, <4>2
    <3> QED BY <2>3, <3>1
  <2>5. ASSUME NEW j \in 1..(i - 1), wire'[j].cmd = "+++"
        PROVE  \E k \in (j + 1)..(i - 1) : wire'[k].cmd \in Resets
    <3>1. /\ j + 1 \in 1..i /\ wire[j + 1].cmd = "+++"
          /\ \A k \in ((j + 1) + 1)..i : k \in 1..i /\ k # 1 /\ k \in (j + 2)..i
      BY <1>1, <2>1, <2>5
    <3>2. PICK k \in ((j + 1) + 1)..i : wire[k].cmd \in Resets
      BY <2>2, <3>1
    <3>3. k \in 1..i /\ k # 1 /\ k \in (j + 2)..i
      BY <3>1
    <3>4. k - 1 \in (j + 1)..(i - 1) /\ wire'[k - 1] = wire[k]
      BY <2>3, <3>3
    <3> QED BY <3>2, <3>4
  <2> QED BY <2>4, <2>5
<1>9. ASSUME ResetComes PROVE ResetComes'
  <2>1. \A k \in 1..z : k # 1 => /\ k - 1 \in 1..(z - 1) /\ wire'[k - 1] = wire[k]
                                 /\ \A j \in 1..(z - 1) : k > j + 1 => k - 1 > j
    BY <1>1
  <2>2. ASSUME mode' = "escaped" PROVE \E k \in 1..(z - 1) : wire'[k].cmd \in Resets
    <3>1. PICK k \in 1..z : k # 1 /\ wire[k].cmd \in Resets
      <4>1. CASE mode = "escaped" /\ wire[1].cmd \notin Resets
        BY <1>1, <1>9, <4>1 DEF ResetComes
      <4>2. CASE wire[1].cmd = "+++"
        <5>1. PICK k \in DOMAIN wire : k > 1 /\ wire[k].cmd \in Resets
          BY <1>2, <1>9, <4>2 DEF ResetComes
        <5> QED BY <1>1, <5>1
      <4> QED BY <1>3, <2>2, <4>1, <4>2
    <3> QED BY <2>1, <3>1
  <2>3. ASSUME NEW j \in 1..(z - 1), wire'[j].cmd = "+++"
        PROVE  \E k \in 1..(z - 1) : k > j /\ wire'[k].cmd \in Resets
    <3>1. j + 1 \in 1..z /\ wire[j + 1].cmd = "+++"
      BY <1>1, <2>3
    <3>2. PICK k \in 1..z : k > j + 1 /\ wire[k].cmd \in Resets
      BY <1>1, <1>9, <3>1 DEF ResetComes
    <3>3. k # 1
      BY <3>2
    <3>4. k - 1 \in 1..(z - 1) /\ wire'[k - 1] = wire[k] /\ k - 1 > j
      BY <2>1, <3>2, <3>3
    <3> QED BY <3>2, <3>4
  <2> QED BY <1>1, <2>2, <2>3 DEF ResetComes
<1>10. ASSUME OutOfData, Heard({"OK", "ERROR"}) => mode = "command", Heard({"OK", "ERROR"})'
       PROVE  mode' = "command"
  <2>1. CASE mode = "command"
    BY <1>2, <2>1, TakeCases
  <2>2. CASE mode = "escaped"
    <3>1. PICK w \in {"OK", "ERROR"}, n \in Nat : Says(<<Word(w, n)>>)
      BY <1>5, <1>10, <2>2
    <3>2. wire[1].cmd # "+++"
      <4>1. tty' # tty
        <5>1. w \in Words
          BY DEF Words, Results
        <5>2. Len(tty') = Len(tty) + 1 /\ Len(tty) \in Nat
          BY <3>1, <5>1, SaysWord DEF Types
        <5> QED BY <5>2
      <4>2. wire[1].cmd = "+++" => tty' = tty
        BY <2>2, TakeCases DEF Resets
      <4> QED BY <4>1, <4>2
    <3>3. wire[1].cmd \notin {"ATE0", "ATX3", "AT+"}
      <4>1. \A k \in 1..(1 - 1) : FALSE
        OBVIOUS
      <4> QED BY <1>2, <2>2, <4>1 DEF FirstWire
    <3>4. wire[1].cmd \in Commands
      BY TakenWire DEF Item
    <3>5. wire[1].cmd \in Resets
      BY <1>2, <3>2, <3>3, <3>4 DEF Commands, Resets
    <3> QED BY <2>2, <3>5, TakeCases DEF Resets
  <2> QED BY <1>10, <2>1, <2>2 DEF OutOfData
<1> QED BY <1>7, <1>8, <1>9, <1>10 DEF FirstWire

\* What a client writes, when it is no number.
LEMMA FirstPut ==
    ASSUME Types, NEW w \in Writers, NEW cmd \in Commands \ {"ATDT"}, Put(w, cmd, 0),
           mode' = mode, tty' = tty \/ tty' = <<>>, FirstWire,
           cmd \in {"ATE0", "ATX3", "AT+"} => ResetComes
    PROVE  /\ FirstWire'
           /\ cmd \in Resets \/ (cmd # "+++" /\ ResetComes) => ResetComes'
<1>0. PICK z \in Nat : z = Len(wire)
  <2>1. 0 \in Nat
    OBVIOUS
  <2> QED BY <2>1, PutWire
<1>1. /\ DOMAIN wire = 1..z /\ DOMAIN wire' = 1..(z + 1)
      /\ \A i \in 1..(z + 1) : i \in 1..z \/ i = z + 1
      /\ \A i \in 1..z : wire'[i].cmd = wire[i].cmd
      /\ wire'[z + 1].cmd = cmd
  <2>1. 0 \in Nat
    OBVIOUS
  <2> QED BY <1>0, <2>1, PutWire
<1>2. Heard({"OK", "ERROR"})' => OutOfData'
  BY DEF FirstWire, Heard, OutOfData
<1>3. ASSUME NEW i \in DOMAIN wire', wire'[i].cmd \in {"ATE0", "ATX3", "AT+"}
      PROVE  /\ mode' = "escaped" => \E k \in 1..(i - 1) : wire'[k].cmd \in Resets
             /\ \A j \in 1..(i - 1) : wire'[j].cmd = "+++" =>
                   \E k \in (j + 1)..(i - 1) : wire'[k].cmd \in Resets
  <2>1. CASE i \in 1..z
    <3>1. /\ \A k \in 1..(i - 1) : wire'[k].cmd = wire[k].cmd
          /\ \A j \in 1..(i - 1) : \A k \in (j + 1)..(i - 1) : wire'[k].cmd = wire[k].cmd
      BY <1>0, <1>1, <2>1
    <3>2. /\ mode = "escaped" => \E k \in 1..(i - 1) : wire[k].cmd \in Resets
          /\ \A j \in 1..(i - 1) : wire[j].cmd = "+++" =>
                \E k \in (j + 1)..(i - 1) : wire[k].cmd \in Resets
      BY <1>1, <1>3, <2>1 DEF FirstWire
    <3> QED BY <3>1, <3>2
  <2>2. CASE i = z + 1
    <3>1. ResetComes /\ i - 1 = z
      BY <1>0, <1>1, <1>3, <2>2
    <3>2. \A j, k \in 1..z : k > j => k \in (j + 1)..z
      BY <1>0
    <3> QED BY <1>1, <3>1, <3>2 DEF ResetComes
  <2> QED BY <1>1, <2>1, <2>2
<1>4. ASSUME cmd \in Resets \/ (cmd # "+++" /\ ResetComes)
      PROVE  ResetComes'
  <2>1. CASE cmd \in Resets
    <3>1. /\ z + 1 \in 1..(z + 1) /\ \A j \in 1..z : z + 1 > j
      BY <1>0
    <3>2. cmd # "+++"
      BY <2>1 DEF Resets
    <3> QED BY <1>1, <2>1, <3>1, <3>2 DEF ResetComes
  <2>2. CASE cmd # "+++" /\ ResetComes
    <3>1. \A k \in 1..z : k \in 1..(z + 1)
      BY <1>0
    <3> QED BY <1>1, <2>2, <3>1 DEF ResetComes
  <2> QED BY <1>4, <2>1, <2>2
<1> QED BY <1>2, <1>3, <1>4 DEF FirstWire

\* Where nothing is written or taken.
LEMMA FirstFrame ==
    ASSUME wire' = wire, mode' = mode \/ mode' = "command", Heard({"OK", "ERROR"})' => Heard({"OK", "ERROR"})
    PROVE  /\ FirstWire => FirstWire'
           /\ ResetComes => ResetComes'
           /\ OutOfData => OutOfData'
BY DEF FirstWire, ResetComes, OutOfData

\* A word other than OK and ERROR is none of them.
LEMMA NotHeard ==
    ASSUME Types, NEW w \in Words \ {"OK", "ERROR"}, NEW n \in Nat, Says(<<Word(w, n)>>)
    PROVE  Heard({"OK", "ERROR"})' => Heard({"OK", "ERROR"})
<1>1. \A i \in DOMAIN tty' : (i \in DOMAIN tty /\ tty'[i] = tty[i]) \/ tty'[i] = Word(w, n)
  BY SaysWord DEF Types
<1> QED BY <1>1 DEF Heard, Word

\* The modem, before the first number.
LEMMA FirstModem ==
    ASSUME Types, Modem, FirstWire, \A i \in DOMAIN wire : wire[i].cmd \notin {"ATDT", "text"}
    PROVE  /\ FirstWire'
           /\ ResetComes => ResetComes'
           /\ OutOfData => OutOfData'
           /\ mode = "command" => mode' = "command"
           /\ OutOfData /\ (Heard({"OK", "ERROR"}) => mode = "command") =>
                 (Heard({"OK", "ERROR"})' => mode' = "command")
<1>0. NoDials
  BY DEF NoDials
<1>1. (OutOfData => OutOfData') /\ (mode = "command" => mode' = "command")
  BY <1>0, ModeKept
<1>2. CASE Take
  BY <1>1, <1>2, FirstTake
<1>3. CASE ~Take
  <2>1. Heard({"OK", "ERROR"})' => Heard({"OK", "ERROR"})
    <3>1. CASE tty' = tty
      BY <3>1 DEF Heard
    <3>2. ASSUME NEW w \in Words \ {"OK", "ERROR"}, NEW n \in Nat, Says(<<Word(w, n)>>)
          PROVE  Heard({"OK", "ERROR"})' => Heard({"OK", "ERROR"})
      BY <3>2, NotHeard
    <3> QED BY <1>3, <3>1, <3>2, ModemSays
  <2>2. wire' = wire
    BY <1>3 DEF Modem, Answered, CallLost, CallEnds, BridgeExits, Respawn
  <2>3. CASE Answered
    <3>1. mode = "dialing" /\ mode' = "online"
      BY <2>3 DEF Answered
    <3>2. ~Heard({"OK", "ERROR"}) /\ ~OutOfData
      BY <3>1 DEF FirstWire, OutOfData
    <3> QED BY <1>1, <2>1, <2>2, <3>1, <3>2 DEF FirstWire, ResetComes
  <2>4. CASE ~Answered
    <3>1. mode' = mode \/ mode' = "command"
      BY <1>3, <2>4 DEF Modem, CallLost, CallEnds, BridgeExits, Respawn
    <3> QED BY <1>1, <2>1, <2>2, <3>1, FirstFrame
  <2> QED BY <2>3, <2>4
<1> QED BY <1>2, <1>3

\* Words that are read, or dropped, are not heard any more.
LEMMA LessHeard ==
    ASSUME NEW words, tty' = tty \/ tty' = <<>> \/ (\A i \in DOMAIN tty' : \E j \in DOMAIN tty : tty'[i] = tty[j])
    PROVE  Heard(words)' => Heard(words)
BY DEF Heard

\* The dialogue, before the first number.
LEMMA FirstTalk ==
    ASSUME Types, PlaceInv, NumberInv, AloneInv, "shared" \notin faults, placed' = 0, placed = 0,
           NEW c \in Clients, Talk(c), FirstWire, FirstOf(c)
    PROVE  FirstWire' /\ FirstOf(c)'
<1> USE DEF Waits, DialAt, HangupAt
<1>0. /\ pc[c] = "talk" /\ pos[c] \in 1..9 /\ c \in Writers
      /\ UNCHANGED <<mode, call, bridge, present, handle>>
      /\ handle[c] \in {"open", "dead"} /\ (handle[c] = "dead" => wire = <<>> /\ wire' = <<>>)
  BY TalkAlone
<1>1. /\ handle[c] = "open" => Live(c) /\ pos[c] < 8
      /\ ~Waits(c, 7)
  BY <1>0 DEF Live, NumberInv
<1>2. Live(c)' => handle[c] = "open"
  BY <1>0 DEF Live
<1>3. wire' = wire /\ (Heard({"OK", "ERROR"})' => Heard({"OK", "ERROR"})) =>
         /\ FirstWire' /\ (ResetComes => ResetComes') /\ (OutOfData => OutOfData')
  BY <1>0, FirstFrame
<1>4. /\ pos[c] > 3 /\ Live(c) => OutOfData
      /\ Waits(c, 4) /\ Live(c) /\ Heard({"OK", "ERROR"}) => mode = "command"
      /\ pos[c] > 4 /\ Live(c) => mode = "command"
      /\ (Waits(c, 2) \/ pos[c] > 2) /\ Live(c) => ResetComes
  BY DEF FirstOf
<1>5. mode' = mode => (OutOfData => OutOfData')
  BY DEF OutOfData
<1>6. CASE Rest(c)
  <2>1. wire' = wire /\ pos' = pos /\ pos[c] \in {1, 8} /\ stage'[c] = "rest"
        /\ (Heard({"OK", "ERROR"})' => Heard({"OK", "ERROR"}))
    BY <1>6, RestFacts, LessHeard
  <2> QED BY <1>1, <1>2, <1>3, <2>1 DEF FirstOf
<1>7. CASE Escape(c)
  <2>1. CASE handle[c] = "open"
    <3>1. /\ Put(c, "+++", 0) /\ pos' = pos /\ pos[c] = 1 /\ stage'[c] = "wait" /\ tty' = tty
      BY <1>1, <1>7, <2>1, EscapeFacts
    <3>2. "+++" \in Commands \ {"ATDT"} /\ "+++" \notin {"ATE0", "ATX3", "AT+"}
      BY DEF Commands
    <3>3. FirstWire'
      BY <1>0, <3>1, <3>2, FirstPut
    <3> QED BY <3>1, <3>3 DEF FirstOf
  <2>2. CASE handle[c] # "open"
    <3>1. wire' = wire /\ (Heard({"OK", "ERROR"})' => Heard({"OK", "ERROR"}))
      BY <1>7, <2>2, EscapeFacts, LessHeard
    <3> QED BY <1>2, <1>3, <2>2, <3>1 DEF FirstOf
  <2> QED BY <2>1, <2>2
<1>8. CASE Escaped(c)
  <2>1. /\ wire' = wire /\ tty' = tty /\ pos[c] \in {1, 8} /\ Moves(c, "talk", pos[c] + 1)
    BY <1>8, EscapedFacts DEF modemVars
  <2>2. Heard({"OK", "ERROR"})' => Heard({"OK", "ERROR"})
    BY <2>1, LessHeard
  <2> QED BY <1>1, <1>2, <1>3, <2>1, <2>2 DEF FirstOf, Moves
<1>9. CASE Send(c)
  <2>1. /\ stage[c] = "begin" /\ stage'[c] = "wait" /\ pos' = pos /\ handle[c] = "open"
        /\ (tty' = tty \/ tty' = <<>>) /\ (pos[c] = 4 => tty' = <<>>)
    BY <1>9, SendFacts
  <2>2. pos[c] \in 2..6
    <3>1. pos[c] # 7 /\ pos[c] \in 2..9
      BY <1>9, SendFacts
    <3> QED BY <1>1, <2>1, <3>1
  <2>3. /\ Put(c, Here(c).cmd, 0) /\ Here(c).cmd \in Commands \ {"ATDT"} /\ Here(c).cmd # "+++"
        /\ pos[c] = 2 => Here(c).cmd \in Resets
        /\ pos[c] > 2 => ResetComes
        /\ Here(c).cmd \in {"ATE0", "ATX3", "AT+"} => pos[c] > 2
    <3>1. Put(c, Here(c).cmd, 0) /\ Here(c).cmd \in Commands
      BY <1>9, <2>2, SendFacts
    <3> QED BY <1>1, <1>4, <2>1, <2>2, <3>1, HereFacts DEF Resets
  <2>4. FirstWire' /\ ResetComes'
    <3>1. /\ FirstWire'
          /\ Here(c).cmd \in Resets \/ (Here(c).cmd # "+++" /\ ResetComes) => ResetComes'
      BY <1>0, <2>1, <2>3, FirstPut
    <3> QED BY <2>2, <2>3, <3>1
  <2>5. pos[c] = 4 => ~Heard({"OK", "ERROR"})'
    BY <2>1 DEF Heard
  <2> QED BY <1>0, <1>1, <1>4, <1>5, <2>1, <2>2, <2>4, <2>5 DEF FirstOf
<1>10. CASE SendFails(c)
  <2>1. wire' = wire /\ handle[c] = "dead" /\ (Heard({"OK", "ERROR"})' => Heard({"OK", "ERROR"}))
    BY <1>10, SendFailsFacts, LessHeard DEF modemVars
  <2> QED BY <1>2, <1>3, <2>1 DEF FirstOf
<1>11. CASE Timeout(c)
  <2>1. /\ wire' = wire /\ (Heard({"OK", "ERROR"})' => Heard({"OK", "ERROR"})) /\ stage[c] = "wait"
        /\ \E w : Unanswered(c, w)
    BY <1>11, TimeoutFacts, LessHeard
  <2>2. CASE pos[c] = 2 /\ Moves(c, "talk", 3)
    BY <1>0, <1>1, <1>2, <1>3, <1>4, <2>1, <2>2 DEF FirstOf, Moves
  <2>3. CASE Moves(c, "close", 1)
    BY <1>3, <2>1, <2>3 DEF FirstOf, Moves, Live
  <2>4. pos[c] # 7
    BY <1>1, <2>1
  <2> QED BY <2>1, <2>2, <2>3, <2>4 DEF Unanswered
<1>12. CASE Reply(c)
  <2>1. /\ wire' = wire /\ (Heard({"OK", "ERROR"})' => Heard({"OK", "ERROR"})) /\ stage[c] = "wait"
        /\ handle[c] = "open" /\ pos[c] # 7 /\ StepAnswered(c)
    <3>1. pos[c] # 7
      BY <1>1, <1>12, ReplyFacts
    <3> QED BY <1>12, <3>1, ReplyFacts, LessHeard DEF DialAnswered
  <2>2. FirstWire' /\ (ResetComes => ResetComes')
    BY <1>3, <2>1
  <2>3. CASE pc'[c] = "close"
    BY <2>2, <2>3 DEF FirstOf, Live
  <2>4. CASE pos[c] = 2 /\ Moves(c, "talk", 3)
    BY <1>1, <1>4, <2>1, <2>2, <2>4 DEF FirstOf, Moves
  <2>5. CASE pos[c] \in 3..6 /\ Heard({"OK", "ERROR"}) /\ pos'[c] \in 1..9 /\ stage'[c] = "begin"
    <3>1. OutOfData /\ OutOfData' /\ ResetComes'
      BY <1>0, <1>1, <1>4, <1>5, <2>1, <2>2, <2>5 DEF FirstWire
    <3>2. pos[c] > 3 => mode = "command"
      BY <1>1, <1>4, <2>1, <2>5
    <3>3. pos'[c] > 4 => pos[c] > 3
      BY <2>1, <2>5 DEF StepAnswered, Moves
    <3> QED BY <1>0, <2>2, <2>5, <3>1, <3>2, <3>3 DEF FirstOf
  <2> QED BY <1>1, <2>1, <2>3, <2>4, <2>5 DEF StepAnswered, Moves
<1> QED BY <1>6, <1>7, <1>8, <1>9, <1>10, <1>11, <1>12 DEF Talk

\* Before the first number the modem leaves data mode for good.
LEMMA StepFirst ==
    ASSUME Types, PlaceInv, NumberInv, AloneInv, FirstInv, [Next]_vars
    PROVE  FirstInv'
<1> SUFFICES ASSUME Unasked'
             PROVE  FirstWire' /\ \A c \in Clients : FirstOf(c)'
  BY DEF FirstInv, Unasked, FirstWire, FirstOf, ResetComes
<1>0. /\ "shared" \notin faults' /\ "text" \notin faults' /\ placed' = 0
      /\ "shared" \notin faults /\ placed = 0
      /\ FirstWire /\ \A c \in Clients : FirstOf(c)
  <2>1. faults \subseteq faults' /\ placed' = 0 /\ placed = 0
    BY FaultsGrow, PlacedGrows DEF Unasked
  <2> QED BY <2>1, FirstParts DEF Unasked
<1>1. \A c \in Clients : outcome[c].word # "CONNECT"
  BY <1>0 DEF NumberInv
<1>2. CASE ModemMoves
  <2>1. Modem /\ \A i \in DOMAIN wire : wire[i].cmd \notin {"ATDT", "text"}
    BY <1>0, <1>2 DEF ModemMoves, NumberInv
  <2>2. /\ FirstWire' /\ (ResetComes => ResetComes') /\ (OutOfData => OutOfData')
        /\ mode = "command" => mode' = "command"
        /\ OutOfData /\ (Heard({"OK", "ERROR"}) => mode = "command") =>
              (Heard({"OK", "ERROR"})' => mode' = "command")
    BY <1>0, <2>1, FirstModem
  <2> QED BY <1>0, <1>2, <2>2 DEF ModemMoves, FirstOf, Live, Waits, clientVars
<1>3. CASE ~ModemMoves
  <2>1. FirstWire'
    <3>1. CASE ModemCrash
      BY <3>1 DEF ModemCrash, Dies, FirstWire, Heard
    <3>2. CASE \E c \in Clients : BridgeKill(c)
      <4>1. PICK c \in Clients : BridgeKill(c)
        BY <3>2
      <4>2. CASE Dies
        BY <4>2 DEF Dies, FirstWire, Heard
      <4>3. CASE BridgeKillMild(c)
        <5>1. wire' = wire /\ (mode' = mode \/ mode' = "command")
          BY <4>3 DEF BridgeKillMild, modemVars
        <5>2. tty' = tty \/ Says(<<Word("NO_CARRIER", call)>>)
          BY <4>3 DEF BridgeKillMild, modemVars
        <5>3. Heard({"OK", "ERROR"})' => Heard({"OK", "ERROR"})
          <6>1. "NO_CARRIER" \in Words \ {"OK", "ERROR"} /\ call \in Nat
            BY DEF Words, Results, Types
          <6> QED BY <5>2, <6>1, NotHeard DEF Heard
        <5> QED BY <1>0, <5>1, <5>3, FirstFrame
      <4> QED BY <4>1, <4>2, <4>3, BridgeKillFacts
    <3>3. CASE \E c \in Clients : Talk(c)
      BY <1>0, <3>3, FirstTalk
    <3>4. CASE \E c \in Clients : LateWrite(c)
      BY <1>1, <3>4 DEF LateWrite
    <3>5. ASSUME \/ \E c \in Clients : Walk(c) \/ Close(c)
                 \/ \E gone \in {Hubs} \cup {{c} : c \in Probes} : Crash(gone)
                 \/ UNCHANGED vars
          PROVE  FirstWire'
      <4>1. wire' = wire /\ mode' = mode /\ tty' = tty
        BY <3>5, WalkFacts, CloseFacts DEF Crash, vars, modemVars
      <4> QED BY <1>0, <4>1, FirstFrame, LessHeard
    <3>6. ~(Modem /\ UNCHANGED <<clientVars, faults>>) /\ ~Chatter
      BY <1>0, <1>3, ModemFrame DEF ModemMoves, Chatter, Fault
    <3> QED BY <3>1, <3>2, <3>3, <3>4, <3>5, <3>6, StepKinds DEF ClientStep
  <2>2. ASSUME NEW c \in Clients PROVE FirstOf(c)'
    <3>1. CASE Talk(c)
      BY <1>0, <3>1, FirstTalk
    <3>2. CASE Walk(c)
      <4>1. pc[c] # "online"
        BY <1>1 DEF PlaceInv, PlaceOf
      <4>2. pc'[c] = "talk" => pos'[c] = 1
        BY <3>2, <4>1, WalkFacts DEF WalkCase, Moves, Keeps, PlaceInv, PlaceOf
      <4> QED BY <4>2 DEF FirstOf, Live, Waits
    <3>3. CASE LateWrite(c)
      BY <1>1, <3>3 DEF LateWrite
    <3>4. CASE Close(c)
      BY <3>4, CloseFacts DEF Keeps, FirstOf, Live
    <3>5. CASE BridgeKill(c)
      <4>1. pc'[c] = "killed"
        BY <3>5, BridgeKillFacts DEF Types
      <4> QED BY <4>1 DEF FirstOf, Live
    <3>6. CASE Away(c) \/ Breaks(c)
      BY <3>6 DEF Away, Breaks, FirstOf, Live
    <3>7. CASE Same(c)
      BY <1>0, <3>7 DEF Same, FirstOf, Live, Waits, OutOfData, Heard, ResetComes
    <3> QED BY <1>0, <1>3, <3>1, <3>2, <3>3, <3>4, <3>5, <3>6, <3>7, Seen
  <2> QED BY <2>1, <2>2
<1> QED BY <1>2, <1>3

-----------------------------------------------------------------------------
(* OwnInv and ResultIsOwn.                                                 *)

Owned(c) ==
    /\ \A i \in DOMAIN tty : tty[i].word \in CallWords => tty[i].call = number[c]
    /\ \A i \in DOMAIN wire : wire[i].cmd = "ATDT" => wire[i].call = number[c]
    /\ mode # "command" => call = number[c]

OwnOf(c) == Live(c) /\ Waits(c, DialAt) => Owned(c)

Single == faults \cap {"shared", "text"} = {} /\ InStep

\* A modem in step has been in step.
LEMMA SingleBack ==
    ASSUME Types, PlaceInv, [Next]_vars, Single'
    PROVE  Single
<1>1. faults \subseteq faults' /\ placed' >= placed /\ placed \in Nat /\ placed' \in Nat
  BY FaultsGrow, PlacedGrows
<1>2. "late" \in faults => placed' <= 1
  BY <1>1 DEF Single, InStep
<1> QED BY <1>1, <1>2 DEF Single, InStep

\* The modem answers the number it was given.
LEMMA OwnModem ==
    ASSUME Types, Modem, UNCHANGED clientVars, NEW c \in Clients, Owned(c)
    PROVE  Owned(c)'
<1>0. number' = number /\ tty \in Seq(Said)
  BY DEF clientVars, Types
<1>1. \A i \in DOMAIN tty' : tty'[i].word \in CallWords => tty'[i].call = number[c]
  <2>1. CASE tty' = tty
    BY <2>1 DEF Owned
  <2>2. ASSUME NEW w \in Words, NEW n \in Nat, Says(<<Word(w, n)>>),
               w \in {"OK", "ERROR"} \/ n = number[c]
        PROVE  \A i \in DOMAIN tty' : tty'[i].word \in CallWords => tty'[i].call = number[c]
    <3>1. \A i \in DOMAIN tty' : (i \in DOMAIN tty /\ tty'[i] = tty[i]) \/ tty'[i] = Word(w, n)
      BY <1>0, <2>2, SaysWord
    <3>2. Word(w, n).word \in CallWords => Word(w, n).call = number[c]
      BY <2>2 DEF Word, CallWords
    <3> QED BY <3>1, <3>2 DEF Owned
  <2>3. Take /\ wire[1].cmd = "ATDT" => wire[1].call = number[c]
    <3>1. Take => 1 \in DOMAIN wire
      <4>1. Take => Len(wire) \in Nat \ {0} /\ DOMAIN wire = 1..Len(wire)
        BY TakenWire
      <4> QED BY <4>1
    <3> QED BY <3>1 DEF Owned
  <2>4. mode # "command" => call = number[c]
    BY DEF Owned
  <2>5. \/ tty' = tty
        \/ \E w \in Words, n \in Nat : /\ Says(<<Word(w, n)>>)
                                       /\ w \in {"OK", "ERROR"} \/ n = number[c]
    BY <2>3, <2>4, ModemSays
  <2> QED BY <2>1, <2>2, <2>5
<1>2. \A i \in DOMAIN wire' : wire'[i].cmd = "ATDT" => wire'[i].call = number[c]
  <2>1. CASE Take
    <3>1. \A i \in DOMAIN wire' : \E j \in DOMAIN wire : wire'[i] = wire[j]
      BY <2>1, TakenWire
    <3> QED BY <3>1 DEF Owned
  <2>2. CASE ~Take
    <3>1. wire' = wire
      BY <2>2 DEF Modem, Answered, CallLost, BridgeExits, Respawn
    <3> QED BY <3>1 DEF Owned
  <2> QED BY <2>1, <2>2
<1>3. mode' # "command" => call' = number[c]
  <2>1. CASE Take
    <3>1. 1 \in DOMAIN wire
      <4>1. Len(wire) \in Nat \ {0} /\ DOMAIN wire = 1..Len(wire)
        BY <2>1, TakenWire
      <4> QED BY <4>1
    <3>2. wire[1].cmd = "ATDT" => wire[1].call = number[c]
      BY <3>1 DEF Owned
    <3> QED BY <2>1, <3>2, TakeCases DEF Owned
  <2>2. CASE ~Take
    BY <2>2 DEF Modem, Answered, CallLost, CallEnds, BridgeExits, Respawn, Owned
  <2> QED BY <2>1, <2>2
<1> QED BY <1>0, <1>1, <1>2, <1>3 DEF Owned

\* When a number is dialled no other one is on its way, and none is being dialled.
LEMMA OwnDial ==
    ASSUME Types, PlaceInv, NumberInv, InitInv, FirstInv, [Next]_vars, Single',
           NEW c \in Clients, Send(c), pos[c] = 7
    PROVE  mode = "command" /\ NoDials
<1>0. /\ Live(c) /\ stage[c] = "begin" /\ placed' = placed + 1 /\ faults' = faults /\ placed \in Nat
  BY SendFacts DEF Live, Types
<1>1. CASE Timely
  BY <1>0, <1>1 DEF InitInv, BeforeDial, DialAt
<1>2. CASE ~Timely
  <2>1. "late" \in faults
    BY <1>0, <1>2 DEF Timely, Single
  <2>2. placed = 0
    BY <1>0, <2>1 DEF Single, InStep
  <2>3. Unasked
    BY <1>0, <2>2 DEF Unasked, Single
  <2>4. mode = "command"
    BY <1>0, <2>3, FirstParts DEF FirstOf
  <2> QED BY <2>2, <2>4 DEF NumberInv, NoDials
<1> QED BY <1>1, <1>2

\* Every step keeps OwnInv.
LEMMA StepOwn ==
    ASSUME Types, PlaceInv, NumberInv, AloneInv, InitInv, FirstInv, OwnInv, [Next]_vars
    PROVE  OwnInv'
<1> SUFFICES ASSUME Single', NEW c \in Clients
             PROVE  OwnOf(c)'
  BY DEF OwnInv, Single, OwnOf, Owned
<1> USE DEF Waits, DialAt
<1>0. Single /\ "shared" \notin faults' /\ "text" \notin faults' /\ "shared" \notin faults
      /\ OwnOf(c) /\ PlaceOf(c)
  <2>1. Single
    BY SingleBack
  <2> QED BY <2>1 DEF Single, OwnInv, OwnOf, Owned, PlaceInv
<1>1. CASE ModemMoves
  <2>1. Modem /\ UNCHANGED clientVars
    BY <1>0, <1>1 DEF ModemMoves
  <2>2. Live(c)' /\ Waits(c, 7)' => Live(c) /\ Waits(c, 7)
    BY <2>1 DEF Live, clientVars
  <2> QED BY <1>0, <2>1, <2>2, OwnModem DEF OwnOf
<1>2. CASE Talk(c)
  <2>1. CASE Send(c)
    <3>1. pos' = pos /\ pos[c] \in 2..9 /\ mode' = mode
      BY <2>1, SendFacts
    <3>2. CASE pos[c] = 7
      <4>1. mode = "command" /\ NoDials
        BY <2>1, <3>2, OwnDial
      <4>2. Put(c, "ATDT", placed + 1) /\ number'[c] = placed + 1 /\ tty' = <<>>
        BY <2>1, <3>2, SendFacts
      <4>3. /\ DOMAIN wire = 1..Len(wire) /\ DOMAIN wire' = 1..(Len(wire) + 1)
            /\ \A i \in 1..(Len(wire) + 1) : i \in 1..Len(wire) \/ i = Len(wire) + 1
            /\ \A i \in 1..Len(wire) : wire'[i].cmd = wire[i].cmd
            /\ wire'[Len(wire) + 1].call = placed + 1
        <5>1. placed + 1 \in Nat /\ "ATDT" \in Commands /\ c \in Writers
          BY ClientsWrite DEF Types, Commands
        <5> QED BY <4>2, <5>1, PutWire
      <4>4. \A i \in DOMAIN wire' : wire'[i].cmd = "ATDT" => wire'[i].call = placed + 1
        BY <4>1, <4>3 DEF NoDials
      <4> QED BY <3>1, <4>1, <4>2, <4>4 DEF OwnOf, Owned
    <3>3. CASE pos[c] # 7
      BY <3>1, <3>3 DEF OwnOf
    <3> QED BY <3>2, <3>3
  <2>2. CASE ~Send(c)
    <3>1. pos'[c] # 7 \/ stage'[c] # "wait"
      <4>1. CASE Rest(c) \/ Escape(c) \/ Escaped(c)
        BY <4>1, RestFacts, EscapeFacts, EscapedFacts DEF Moves
      <4>2. CASE SendFails(c) \/ Timeout(c)
        <5>1. \E w : Unanswered(c, w)
          BY <4>2, SendFailsFacts, TimeoutFacts
        <5> QED BY <5>1 DEF Unanswered, Moves, MovesOn
      <4>3. CASE Reply(c)
        BY <4>3, ReplyFacts DEF StepAnswered, DialAnswered, Moves, MovesOn
      <4> QED BY <1>2, <2>2, <4>1, <4>2, <4>3 DEF Talk
    <3> QED BY <3>1 DEF OwnOf
  <2> QED BY <2>1, <2>2
<1>3. CASE Walk(c)
  <2>1. pc'[c] = "talk" => pos'[c] \in {1, 8}
    BY <1>0, <1>3, WalkFacts DEF WalkCase, Moves, Keeps, PlaceOf, HangupAt
  <2> QED BY <2>1 DEF OwnOf, Live
<1>4. CASE LateWrite(c)
  <2>1. UNCHANGED clientVars /\ pos[c] \in 8..9
    BY <1>4, LatePlace DEF LateWrite
  <2> QED BY <2>1 DEF OwnOf, clientVars
<1>5. CASE Close(c) \/ BridgeKill(c) \/ Away(c) \/ Breaks(c)
  <2>1. CASE Close(c)
    BY <2>1, CloseFacts DEF OwnOf, Live, Keeps
  <2>2. CASE BridgeKill(c)
    <3>1. pc'[c] = "killed"
      BY <2>2, BridgeKillFacts DEF Types
    <3> QED BY <3>1 DEF OwnOf, Live
  <2> QED BY <1>5, <2>1, <2>2 DEF OwnOf, Live, Away, Breaks
<1>6. CASE Same(c)
  BY <1>0, <1>6 DEF Same, OwnOf, Owned, Live
<1> QED BY <1>0, <1>1, <1>2, <1>3, <1>4, <1>5, <1>6, Seen

\* How a client's number changes.
LEMMA NumberKinds ==
    ASSUME Types, PlaceInv, [Next]_vars, NEW c \in Clients
    PROVE  number'[c] = number[c] \/ (Send(c) /\ pos[c] = 7)
<1>1. CASE (Modem /\ UNCHANGED <<clientVars, faults>>) \/ Chatter \/ ModemCrash \/ UNCHANGED vars
  BY <1>1 DEF clientVars, Chatter, ModemCrash, vars
<1>2. CASE \E d \in Clients : BridgeKill(d) \/ LateWrite(d)
  BY <1>2 DEF BridgeKill, LateWrite, clientVars
<1>3. CASE \E gone \in {Hubs} \cup {{d} : d \in Probes} : Crash(gone)
  BY <1>3 DEF Crash
<1>4. ASSUME NEW d \in Clients, d # c, Talk(d)
      PROVE  number'[c] = number[c]
  <2>1. Others(d)
    BY <1>4, RestFacts, EscapeFacts, EscapedFacts, SendFacts, SendFailsFacts, TimeoutFacts,
       ReplyFacts DEF Talk
  <2> QED BY <1>4, <2>1 DEF Others
<1>5. CASE \E d \in Clients : Walk(d) \/ Close(d)
  BY <1>5, WalkFacts, CloseFacts
<1>6. CASE Talk(c)
  BY <1>6, RestFacts, EscapeFacts, EscapedFacts, SendFacts, SendFailsFacts, TimeoutFacts,
     ReplyFacts DEF Talk
<1> QED BY <1>1, <1>2, <1>3, <1>4, <1>5, <1>6, StepKinds DEF ClientStep

\* A result is read while OwnInv speaks of it, and stays that of the last
\* ATDT.
LEMMA StepResult ==
    ASSUME Types, PlaceInv, OwnInv, ResultIsOwn, [Next]_vars
    PROVE  ResultIsOwn'
<1> SUFFICES ASSUME NEW c \in Clients, outcome'[c].word \in CallWords, Single'
             PROVE  outcome'[c].call = number'[c]
  BY DEF ResultIsOwn, Single
<1>0. Single
  BY SingleBack
<1>1. CASE outcome'[c] = outcome[c]
  <2>1. ~(Send(c) /\ pos[c] = 7)
    <3>1. ASSUME Send(c), pos[c] = 7 PROVE FALSE
      <4>1. outcome[c] = Nothing
        BY <3>1, SendFacts DEF PlaceInv, PlaceOf, HangupAt
      <4> QED BY <1>1, <4>1 DEF Nothing, Word, CallWords
    <3> QED BY <3>1
  <2>2. number'[c] = number[c]
    BY <2>1, NumberKinds
  <2> QED BY <1>0, <1>1, <2>2 DEF ResultIsOwn, Single
<1>2. CASE Reply(c) /\ DialAnswered(c)
  <2>1. /\ Live(c) /\ Waits(c, DialAt) /\ number' = number /\ IsAnswer(c, outcome'[c])
    BY <1>2, ReplyFacts DEF Live, Waits, DialAt, DialAnswered
  <2>2. \A i \in DOMAIN tty : tty[i].word \in CallWords => tty[i].call = number[c]
    BY <1>0, <2>1 DEF OwnInv, Single
  <2>3. outcome'[c].call = number[c]
    BY <2>1, <2>2 DEF IsAnswer
  <2> QED BY <2>1, <2>3
<1>3. outcome'[c].word \notin {"none", "TIMEOUT", "IO_ERROR", "REFUSED", "NO_RESPONSE"}
  BY DEF CallWords
<1> QED BY <1>1, <1>2, <1>3, OutcomeKinds

-----------------------------------------------------------------------------
(* The invariant, and the properties it gives.                             *)

\* Nobody is at the modem yet, and nothing is on its way.
LEMMA InitIInv == ASSUME Init PROVE IInv
<1>1. Types /\ PlaceInv
  BY InitTypes, InitPlace
<1>2. /\ wire = <<>> /\ DOMAIN wire = {} /\ tty = <<>> /\ DOMAIN tty = {}
      /\ bridge = "active" <=> mode # "command"
      /\ \A c \in Clients : /\ pc[c] = "idle" /\ handle[c] = "none" /\ outcome[c] = Nothing
                            /\ pos[c] = 1 /\ stage[c] = "begin" /\ attempt[c] = 0
      /\ Nothing.word = "none"
  BY DEF Init, ModemInit, Nothing, Word
<1>3. BridgeInv /\ NumberInv /\ AloneInv
  BY <1>2 DEF BridgeInv, NumberInv, AloneInv, Waits, Live, DialAt
<1>4. OrderInv /\ InitInv /\ HangupInv
  BY <1>2 DEF OrderInv, InitInv, HangupInv, DialsInOrder, Live
<1>5. RetryInv
  <2>1. \A c \in Hubs : /\ ~(Live(c) /\ pos[c] = HangupAt + 1) /\ ~Again(c)
                        /\ pc[c] = "idle"
    BY <1>2 DEF Live, Again, Clients
  <2> QED BY <2>1 DEF RetryInv
<1>6. FirstInv
  BY <1>2 DEF FirstInv, Heard, Live
<1>7. OwnInv /\ ResultIsOwn /\ InitRecovers
  BY <1>2 DEF OwnInv, ResultIsOwn, InitRecovers, CallWords, Live
<1> QED BY <1>1, <1>3, <1>4, <1>5, <1>6, <1>7, TypesAreTypeOK DEF IInv

\* Every step of the modem, of a client and of a fault keeps all of it.
LEMMA StepIInv == ASSUME IInv, [Next]_vars PROVE IInv'
<1>1. Types /\ PlaceInv
  BY TypesAreTypeOK DEF IInv
<1>2. Types' /\ PlaceInv'
  BY <1>1, StepTypes, StepPlace
<1>3. TypeOK'
  <2>1. TypeOK <=> Types
    BY TypesAreTypeOK
  <2>2. TypeOK' <=> Types'
    BY ScriptFacts DEF TypeOK, Types, ModemTypeOK, Item, Said
  <2> QED BY <1>2, <2>2
<1>4. BridgeInv' /\ NumberInv' /\ AloneInv'
  BY <1>1, StepBridge, StepNumber, StepAlone DEF IInv
<1>5. OrderInv' /\ InitInv' /\ InitRecovers'
  BY <1>1, StepOrder, StepInit, StepRecovers DEF IInv
<1>6. HangupInv' /\ RetryInv'
  BY <1>1, StepHangup, StepRetry DEF IInv
<1>7. FirstInv' /\ OwnInv' /\ ResultIsOwn'
  BY <1>1, StepFirst, StepOwn, StepResult DEF IInv
<1> QED BY <1>2, <1>3, <1>4, <1>5, <1>6, <1>7 DEF IInv

\* IInv, the inductive invariant of the dialogue with the modem, whatever the
\* programs, their faults and their order are.
THEOREM Invariance == Safety => []IInv
<1>1. Init => IInv
  BY InitIInv
<1>2. IInv /\ [Next]_vars => IInv'
  BY StepIInv
<1> QED BY <1>1, <1>2, PTL DEF Safety

\* acquireAndDial and oob-probe keep the types; no dial makes more than
\* maxRetries attempts.
THEOREM TypeCorrect == Safety => []TypeOK
<1>1. IInv => TypeOK
  BY DEF IInv
<1> QED BY <1>1, Invariance, PTL

\* The result that Dial returns is that of the ATDT it has written.
THEOREM ResultIsOwnHolds == Safety => []ResultIsOwn
<1>1. IInv => ResultIsOwn
  BY DEF IInv
<1> QED BY <1>1, Invariance, PTL

\* Init is answered, whatever state an earlier program has left the modem in.
THEOREM InitRecoversHolds == Safety => []InitRecovers
<1>1. IInv => InitRecovers
  BY DEF IInv
<1> QED BY <1>1, Invariance, PTL

\* When the hub closes the modem the line is down or the ATH that takes it
\* down is on its way, if no line of a batch is written in the rest before the
\* escape of Hangup.
THEOREM HangUpHangsUpHolds ==
    ASSUME HangupAt \notin LateLines PROVE Safety => []HangUpHangsUp
<1>1. IInv => HangUpHangsUp
  <2> SUFFICES ASSUME IInv, NEW c \in Hubs, pc[c] = "close", handle[c] = "open", Timely
               PROVE  Down
    BY DEF HangUpHangsUp, Timely, Down
  <2>1. c \in Clients /\ HangupInv
    BY DEF Clients, IInv
  <2> QED BY <2>1 DEF HangupInv
<1> QED BY <1>1, Invariance, PTL

\* A number reaches a modem that is in command mode: it is never text for a
\* remote, and never the byte that aborts a call.
THEOREM DialsFromCommandModeHolds == Safety => DialsFromCommandMode
<1>1. IInv /\ [Next]_vars =>
        (wire # <<>> /\ wire' = Tail(wire) /\ Head(wire).cmd = "ATDT" /\ "shared" \notin faults
         => mode = "command")
  <2> SUFFICES ASSUME IInv, wire # <<>>, Head(wire).cmd = "ATDT", "shared" \notin faults
               PROVE  mode = "command"
    OBVIOUS
  <2>1. wire \in Seq(Item) /\ DialsInOrder
    BY TypesAreTypeOK DEF IInv, Types, OrderInv
  <2>2. 1 \in DOMAIN wire /\ Head(wire) = wire[1]
    BY <2>1, EmptySeq, LenProperties
  <2>3. CommandBy(1)
    BY <2>1, <2>2 DEF DialsInOrder
  <2> QED BY <2>3 DEF CommandBy
<1> QED BY <1>1, Invariance, PTL DEF Safety, DialsFromCommandMode

\* A number is dialled again only when no earlier bridge runs.
THEOREM RetryOnFreeLineHolds == Safety => RetryOnFreeLine
<1> DEFINE Free == \A c \in Hubs :
                      /\ number'[c] # number[c] /\ attempt[c] > 1
                      /\ faults \cap {"shared", "late", "blind"} = {}
                      => bridge = "none"
<1>1. IInv /\ [Next]_vars => Free
  <2> SUFFICES ASSUME IInv, [Next]_vars, NEW c \in Hubs, number'[c] # number[c], attempt[c] > 1,
                      Timely, "blind" \notin faults
               PROVE  bridge = "none"
    BY DEF Timely
  <2>1. Types /\ PlaceInv /\ RetryInv /\ c \in Clients
    BY TypesAreTypeOK DEF IInv, Clients
  <2>2. Send(c) /\ pos[c] = 7
    BY <2>1, NumberKinds
  <2>3. pc[c] = "talk" /\ stage[c] = "begin"
    BY <2>1, <2>2, SendFacts
  <2>4. Again(c)
    BY <2>2, <2>3 DEF Again, BeforeDial, DialAt
  <2> QED BY <2>1, <2>4 DEF RetryInv
<1> QED BY <1>1, Invariance, PTL DEF Safety, RetryOnFreeLine

-----------------------------------------------------------------------------
(* A dial in all its detail is a dial of DialTask.                         *)

TaskStep(c) == [Task(c)!Next]_(Task(c)!vars)

\* What Place sees of a client.
LEMMA Placed ==
    ASSUME NEW c \in Clients
    PROVE  /\ pc[c] = "idle" <=> Place(c) = "idle"
           /\ pc[c] \in {"opening", "bridge", "killed", "device"} => Place(c) = "opening"
           /\ pc[c] = "talk" /\ pos[c] < 8 => Place(c) = "dialing"
           /\ pc[c] \in {"online", "close", "closed"} \/ (pc[c] = "talk" /\ ~(pos[c] < 8)) =>
                 /\ outcome[c].word = "CONNECT" => Place(c) = "connected"
                 /\ outcome[c].word \in {"NO_CARRIER", "TIMEOUT"} => Place(c) = "missed"
                 /\ outcome[c].word \in {"BUSY", "NO_DIALTONE", "ERROR"} => Place(c) = "refused"
                 /\ outcome[c].word \notin Results \cup {"TIMEOUT"} => Place(c) = "failing"
<1> DEFINE late == pc[c] \in {"online", "close", "closed"} \/ (pc[c] = "talk" /\ ~(pos[c] < 8))
           end == CASE outcome[c].word = "CONNECT" -> "connected"
                    [] outcome[c].word \in {"NO_CARRIER", "TIMEOUT"} -> "missed"
                    [] outcome[c].word \in {"BUSY", "NO_DIALTONE", "ERROR"} -> "refused"
                    [] OTHER -> "failing"
<1>1. /\ late => Place(c) = end
      /\ pc[c] = "idle" => Place(c) = "idle"
      /\ pc[c] \in {"opening", "bridge", "killed", "device"} => Place(c) = "opening"
      /\ pc[c] = "talk" /\ pos[c] < 8 => Place(c) = "dialing"
      /\ Place(c) = "idle" => pc[c] = "idle" \/ end = "idle"
  BY DEF Place, HangupAt
<1>2. /\ outcome[c].word = "CONNECT" => end = "connected"
      /\ outcome[c].word \in {"NO_CARRIER", "TIMEOUT"} => end = "missed"
      /\ outcome[c].word \in {"BUSY", "NO_DIALTONE", "ERROR"} => end = "refused"
      /\ outcome[c].word \notin Results \cup {"TIMEOUT"} => end = "failing"
      /\ end # "idle"
  BY DEF Results
<1> HIDE DEF end
<1> QED BY <1>1, <1>2

\* The same after a step.
LEMMA PlacedNext ==
    ASSUME NEW c \in Clients
    PROVE  /\ pc'[c] = "idle" <=> Place(c)' = "idle"
           /\ pc'[c] \in {"opening", "bridge", "killed", "device"} => Place(c)' = "opening"
           /\ pc'[c] = "talk" /\ pos'[c] < 8 => Place(c)' = "dialing"
           /\ pc'[c] \in {"online", "close", "closed"} \/ (pc'[c] = "talk" /\ ~(pos'[c] < 8)) =>
                 /\ outcome'[c].word = "CONNECT" => Place(c)' = "connected"
                 /\ outcome'[c].word \in {"NO_CARRIER", "TIMEOUT"} => Place(c)' = "missed"
                 /\ outcome'[c].word \in {"BUSY", "NO_DIALTONE", "ERROR"} => Place(c)' = "refused"
                 /\ outcome'[c].word \notin Results \cup {"TIMEOUT"} => Place(c)' = "failing"
<1> DEFINE late == pc'[c] \in {"online", "close", "closed"} \/ (pc'[c] = "talk" /\ ~(pos'[c] < 8))
           end == CASE outcome'[c].word = "CONNECT" -> "connected"
                    [] outcome'[c].word \in {"NO_CARRIER", "TIMEOUT"} -> "missed"
                    [] outcome'[c].word \in {"BUSY", "NO_DIALTONE", "ERROR"} -> "refused"
                    [] OTHER -> "failing"
<1>1. /\ late => Place(c)' = end
      /\ pc'[c] = "idle" => Place(c)' = "idle"
      /\ pc'[c] \in {"opening", "bridge", "killed", "device"} => Place(c)' = "opening"
      /\ pc'[c] = "talk" /\ pos'[c] < 8 => Place(c)' = "dialing"
      /\ Place(c)' = "idle" => pc'[c] = "idle" \/ end = "idle"
  BY DEF Place, HangupAt
<1>2. /\ outcome'[c].word = "CONNECT" => end = "connected"
      /\ outcome'[c].word \in {"NO_CARRIER", "TIMEOUT"} => end = "missed"
      /\ outcome'[c].word \in {"BUSY", "NO_DIALTONE", "ERROR"} => end = "refused"
      /\ outcome'[c].word \notin Results \cup {"TIMEOUT"} => end = "failing"
      /\ end # "idle"
  BY DEF Results
<1> HIDE DEF end
<1> QED BY <1>1, <1>2

\* What DialTask does not see.
LEMMA Unseen ==
    ASSUME NEW c \in Clients, attempt'[c] = attempt[c], outcome'[c] = outcome[c],
           \/ pc'[c] = pc[c] /\ pos'[c] = pos[c]
           \/ {pc[c], pc'[c]} \subseteq {"opening", "bridge", "killed", "device"}
           \/ pc[c] = "talk" /\ pos[c] < 8 /\ pc'[c] = "talk" /\ pos'[c] < 8
           \/ /\ pc[c] \in {"online", "close", "closed"} \/ (pc[c] = "talk" /\ ~(pos[c] < 8))
              /\ pc'[c] \in {"online", "close", "closed"} \/ (pc'[c] = "talk" /\ ~(pos'[c] < 8))
    PROVE  TaskStep(c)
<1>1. Place(c)' = Place(c)
  BY DEF Place, HangupAt
<1> QED BY <1>1 DEF TaskStep, Task!vars

\* Whatever ends the dial, DialTask ends it too.
LEMMA Ended ==
    ASSUME PlaceInv, NEW c \in Clients, pc'[c] = "idle", attempt'[c] = 0
    PROVE  TaskStep(c)
<1>1. pc[c] = "idle" => attempt[c] = 0
  BY DEF PlaceInv, PlaceOf
<1>2. Place(c)' = "idle" /\ (pc[c] = "idle" <=> Place(c) = "idle")
  BY Placed, PlacedNext
<1> QED BY <1>1, <1>2 DEF TaskStep, Task!vars, Task!Next, Task!End

\* acquireAndDial around an attempt.
LEMMA WalkTask ==
    ASSUME Types, PlaceInv, NEW c \in Clients, Walk(c)
    PROVE  TaskStep(c)
<1> USE Placed, PlacedNext DEF Keeps, Moves
<1>1. WalkCase(c) /\ pos[c] \in 1..9
  BY WalkFacts DEF Types
<1>2. CASE pc[c] = "idle" /\ pc'[c] = "opening" /\ attempt'[c] = 1
  <2>1. attempt[c] = 0
    BY <1>2 DEF PlaceInv, PlaceOf
  <2> QED BY <1>2, <2>1 DEF TaskStep, Task!Next, Task!Start
<1>3. CASE pc[c] = "opening" /\ Moves(c, "talk", 1) /\ attempt'[c] = attempt[c]
  <2>1. Place(c) = "opening" /\ Place(c)' = "dialing"
    BY <1>3
  <2> QED BY <1>3, <2>1 DEF TaskStep, Task!Next, Task!Goes
<1>4. CASE /\ pc[c] \in {"opening", "killed", "device"} /\ pc'[c] = "closed"
           /\ outcome'[c] = Word("IO_ERROR", 0) /\ attempt'[c] = attempt[c]
  <2>1. Place(c) = "opening" /\ Place(c)' = "failing"
    BY <1>4 DEF Word, Results
  <2> QED BY <1>4, <2>1 DEF TaskStep, Task!Next, Task!Goes
<1>5. CASE /\ pc[c] = "closed" /\ outcome[c].word \in {"NO_CARRIER", "TIMEOUT"}
           /\ attempt[c] < MaxRetries /\ attempt'[c] = attempt[c] + 1 /\ pc'[c] = "bridge"
  <2>1. Place(c) = "missed" /\ Place(c)' = "opening"
    BY <1>5
  <2> QED BY <1>5, <2>1 DEF TaskStep, Task!Next, Task!Retry
<1>6. CASE pc[c] = "closed" /\ pc'[c] = "idle" /\ attempt'[c] = 0
  BY <1>6, Ended
<1>7. CASE /\ attempt'[c] = attempt[c] /\ outcome'[c] = outcome[c]
           /\ \/ pc[c] \in {"bridge", "killed"} /\ pc'[c] = "device"
              \/ pc[c] = "device" /\ pc'[c] = "opening"
  BY <1>7, Unseen
<1>8. CASE /\ attempt'[c] = attempt[c] /\ outcome'[c] = outcome[c] /\ pc[c] = "online"
           /\ Keeps(c, "talk") \/ Moves(c, "close", 1)
  <2>1. pos[c] = 8
    BY <1>8 DEF PlaceInv, PlaceOf, HangupAt
  <2> QED BY <1>8, <2>1, Unseen
<1> QED BY <1>1, <1>2, <1>3, <1>4, <1>5, <1>6, <1>7, <1>8 DEF WalkCase

\* A step of the dialogue that nobody has answered.
LEMMA UnansweredTask ==
    ASSUME Types, NEW c \in Clients, pc[c] = "talk", attempt'[c] = attempt[c],
           NEW w \in {"NO_RESPONSE", "IO_ERROR"}, Unanswered(c, Word(w, 0))
    PROVE  TaskStep(c)
<1> USE DEF Moves
<1>1. CASE /\ \/ pos[c] = 2 /\ Moves(c, "talk", 3)
              \/ pos[c] = 9 /\ Moves(c, "close", 1)
           /\ outcome'[c] = outcome[c]
  BY <1>1, Unseen
<1>2. CASE pos[c] \in 3..6 /\ Moves(c, "close", 1) /\ outcome'[c] = Word(w, 0)
  <2>1. Place(c) = "dialing" /\ Place(c)' = "failing"
    BY <1>2, Placed, PlacedNext DEF Word, Results
  <2> QED BY <2>1 DEF TaskStep, Task!Next, Task!Goes
<1>3. CASE pos[c] = 7 /\ MovesOn(c) /\ outcome'[c].word \in {"TIMEOUT", "IO_ERROR"}
  <2>1. Place(c) = "dialing" /\ Place(c)' \in {"missed", "failing"}
    BY <1>3, Placed, PlacedNext DEF MovesOn, Results
  <2> QED BY <2>1 DEF TaskStep, Task!Next, Task!Goes
<1> QED BY <1>1, <1>2, <1>3, Zenon DEF Unanswered

\* A step of the dialogue that has an answer.
LEMMA ReplyTask ==
    ASSUME Types, PlaceInv, NEW c \in Clients, Reply(c)
    PROVE  TaskStep(c)
<1> USE Placed, PlacedNext DEF Moves
<1>1. pc[c] = "talk" /\ (StepAnswered(c) \/ DialAnswered(c))
  BY ReplyFacts
<1>2. CASE StepAnswered(c)
  <2>1. attempt'[c] = attempt[c]
    BY <1>2 DEF StepAnswered
  <2>2. CASE /\ outcome'[c] = outcome[c]
             /\ \/ pos[c] = 2 /\ Moves(c, "talk", 3)
                \/ pos[c] = 9 /\ Moves(c, "close", 1)
                \/ pos[c] \in 3..6 /\ Moves(c, "talk", pos[c] + 1)
                \/ pos[c] = 5 /\ Moves(c, "talk", 7)
    BY <1>1, <2>1, <2>2, Unseen
  <2>3. CASE /\ pos[c] \in 3..6 /\ Moves(c, "close", 1)
             /\ outcome'[c] = outcome[c] \/ outcome'[c] = Word("REFUSED", 0)
    <3>1. outcome[c] = Nothing
      BY <1>1, <2>3 DEF PlaceInv, PlaceOf, HangupAt
    <3>2. outcome'[c].word \in {"none", "REFUSED"}
      BY <2>3, <3>1 DEF Nothing, Word
    <3>3. Place(c) = "dialing" /\ Place(c)' = "failing"
      BY <1>1, <2>3, <3>2 DEF Results
    <3> QED BY <2>1, <3>3 DEF TaskStep, Task!Next, Task!Goes
  <2> QED BY <1>2, <2>2, <2>3 DEF StepAnswered
<1>3. CASE DialAnswered(c)
  <2>1. Place(c) = "dialing" /\ outcome'[c].word \in Results
    BY <1>1, <1>3 DEF DialAnswered, IsAnswer
  <2>2. CASE outcome'[c].word = "CONNECT"
    <3>1. Place(c)' = "connected" /\ attempt'[c] = 0
      BY <1>3, <2>2 DEF DialAnswered
    <3> QED BY <2>1, <3>1 DEF TaskStep, Task!Next, Task!Connect
  <2>3. CASE outcome'[c].word # "CONNECT"
    <3>1. Place(c)' \in {"missed", "refused"} /\ attempt'[c] = attempt[c]
      BY <1>3, <2>1, <2>3 DEF DialAnswered, MovesOn, Results
    <3> QED BY <2>1, <3>1 DEF TaskStep, Task!Next, Task!Goes
  <2> QED BY <2>2, <2>3
<1> QED BY <1>1, <1>2, <1>3

\* The dialogue.
LEMMA TalkTask ==
    ASSUME Types, PlaceInv, NEW c \in Clients, Talk(c)
    PROVE  TaskStep(c)
<1>1. CASE Rest(c) \/ Send(c)
  BY <1>1, RestFacts, SendFacts, Unseen
<1>2. CASE Escape(c)
  BY <1>2, EscapeFacts, Unseen DEF Moves
<1>3. CASE Escaped(c)
  BY <1>3, EscapedFacts, Unseen DEF Moves
<1>4. CASE SendFails(c)
  BY <1>4, SendFailsFacts, UnansweredTask
<1>5. CASE Timeout(c)
  <2>1. CASE handle[c] = "open"
    BY <1>5, <2>1, TimeoutFacts, UnansweredTask
  <2>2. CASE handle[c] # "open"
    BY <1>5, <2>2, TimeoutFacts, UnansweredTask
  <2> QED BY <2>1, <2>2
<1>6. CASE Reply(c)
  BY <1>6, ReplyTask
<1> QED BY <1>1, <1>2, <1>3, <1>4, <1>5, <1>6 DEF Talk

\* Every step is one of the dial's, or one that DialTask does not see.
LEMMA StepTask ==
    ASSUME Types, PlaceInv, [Next]_vars, NEW c \in Clients
    PROVE  TaskStep(c)
<1>1. CASE (Modem /\ UNCHANGED <<clientVars, faults>>) \/ Chatter \/ ModemCrash \/ UNCHANGED vars
  BY <1>1, Unseen DEF clientVars, Chatter, ModemCrash, vars
<1>2. CASE \E d \in Clients : LateWrite(d)
  BY <1>2, Unseen DEF LateWrite, clientVars
<1>3. ASSUME NEW d \in Clients, BridgeKill(d)
      PROVE  TaskStep(c)
  <2>1. pc'[c] = pc[c] \/ (pc[c] = "bridge" /\ pc'[c] = "killed")
    BY <1>3, BridgeKillFacts DEF Types
  <2> QED BY <1>3, <2>1, BridgeKillFacts, Unseen
<1>4. ASSUME NEW gone \in {Hubs} \cup {{d} : d \in Probes}, Crash(gone)
      PROVE  TaskStep(c)
  <2>1. CASE c \in gone
    BY <1>4, <2>1, Ended DEF Crash
  <2>2. CASE c \notin gone
    BY <1>4, <2>2, Unseen DEF Crash
  <2> QED BY <2>1, <2>2
<1>5. ASSUME NEW d \in Clients, d # c, Talk(d) \/ Walk(d) \/ Close(d)
      PROVE  TaskStep(c)
  <2>1. Others(d)
    BY <1>5, RestFacts, EscapedFacts, SendFacts, SendFailsFacts, TimeoutFacts,
       ReplyFacts, WalkFacts, CloseFacts, EscapeFacts DEF Talk
  <2> QED BY <1>5, <2>1, Unseen DEF Others
<1>6. CASE Close(c)
  BY <1>6, CloseFacts, Unseen DEF Keeps
<1> QED BY <1>1, <1>2, <1>3, <1>4, <1>5, <1>6, TalkTask, WalkTask, StepKinds DEF ClientStep

\* Every dial of the hub and every run of oob-probe, with whatever the modem,
\* the line and the other programs do to it, is the dial that ConsoleHub has.
THEOREM DialTaskImplemented == Safety => ImplementsDialTask
<1>1. Init => \A c \in Clients : Task(c)!Init
  BY DEF Init, Task!Init, Place
<1>2. IInv /\ [Next]_vars => \A c \in Clients : TaskStep(c)
  BY StepTask, TypesAreTypeOK DEF IInv
<1>3. (\A c \in Clients : TaskStep(c)) => [\A c \in Clients : TaskStep(c)]_vars
  OBVIOUS
<1> QED BY <1>1, <1>2, <1>3, Invariance, PTL DEF Safety, ImplementsDialTask, TaskStep
=============================================================================
