-------------------------- MODULE Dispatch_proofs --------------------------
(***************************************************************************)
(* Proofs about the event log and the screen under any number of parallel  *)
(* dispatches: the log's lines stay, their numbers are their places, a     *)
(* process never writes two numbers out of order, whatever fails, and the  *)
(* log tells of exactly the dispatches that were made; each dispatch waits *)
(* for what it has put into the queue; and the screen shows the sessions   *)
(* that run and no other.                                                  *)
(***************************************************************************)
EXTENDS Dispatch, SequenceTheorems, FiniteSetTheorems, TLAPS

Lines == Seq(Log!Line \cup {Torn})

\* The numbers increase and stay below n.
Sorted(lines, n) ==
  /\ \A i \in DOMAIN lines : lines[i] # Torn => lines[i].seq < n
  /\ \A i, j \in DOMAIN lines :
       i < j /\ lines[i] # Torn /\ lines[j] # Torn => lines[i].seq < lines[j].seq

InPlace(lines) == \A i \in DOMAIN lines : lines[i] # Torn => lines[i].seq = i

LogTypes ==
  /\ file \in Lines
  /\ sequence \in Nat \ {0}
  /\ queue \in Seq(DispatchEvent)
  /\ writing \in SUBSET Log!Draft
  /\ faults \in Nat
  /\ life \in Nat
  /\ up \in BOOLEAN

\* Appends take turns: the only draft is that of the head of the queue, and it
\* has the last number given.
OneTurn ==
  /\ \A d \in writing : queue # << >> /\ d.event = Head(queue) /\ d.seq = sequence - 1
  /\ \A d1, d2 \in writing : d1 = d2
  /\ ~up => writing = {} /\ queue = << >>

\* Without faults a draft is up to date, and the numbers given are those of
\* the lines and of the draft.
FaultFree ==
  faults = 0 =>
    /\ InPlace(file)
    /\ \A d \in writing : d.base = file
    /\ up => /\ Torn \notin ToSet(file)
             /\ sequence = Len(file) + (IF writing = {} THEN 1 ELSE 2)

\* The first process, faults or not.
FirstProcess ==
  life = 0 =>
    /\ Sorted(file, sequence)
    /\ \A d \in writing : Sorted(d.base, d.seq)
    /\ ~up => file = << >>

IInv == LogTypes /\ OneTurn /\ FaultFree /\ FirstProcess

-----------------------------------------------------------------------------
(* What is left of a file *)

LEMMA RemainsLines ==
  ASSUME NEW lines \in Lines, NEW left \in Log!Remains(lines)
  PROVE  /\ left \in Lines
         /\ \A i \in DOMAIN left : left[i] # Torn => i \in DOMAIN lines /\ left[i] = lines[i]
<1>1. CASE left \in {SubSeq(lines, 1, n) : n \in 0 .. Len(lines)}
  <2>1. PICK n \in 0 .. Len(lines) : left = SubSeq(lines, 1, n)
    BY <1>1
  <2>2. QED
    BY <2>1 DEF Lines
<1>2. CASE left \in {Append(SubSeq(lines, 1, n), Torn) : n \in 0 .. Len(lines) - 1}
  <2>1. PICK n \in 0 .. Len(lines) - 1 : left = Append(SubSeq(lines, 1, n), Torn)
    BY <1>2
  <2>2. SubSeq(lines, 1, n) \in Lines /\ Len(SubSeq(lines, 1, n)) = n
    BY DEF Lines
  <2>3. \A i \in 1 .. n : SubSeq(lines, 1, n)[i] = lines[i]
    BY DEF Lines
  <2>4. QED
    BY <2>1, <2>2, <2>3 DEF Lines
<1>3. QED
  BY <1>1, <1>2 DEF Log!Remains

LEMMA RemainsSorted ==
  ASSUME NEW lines \in Lines, NEW left \in Log!Remains(lines), NEW n \in Nat,
         Sorted(lines, n)
  PROVE  Sorted(left, n)
BY RemainsLines DEF Sorted

LEMMA RemainsInPlace ==
  ASSUME NEW lines \in Lines, NEW left \in Log!Remains(lines), InPlace(lines)
  PROVE  InPlace(left)
BY RemainsLines DEF InPlace

\* The lines with a draft's event, as it will be written.
LEMMA WrittenLines ==
  ASSUME NEW d \in Log!Draft
  PROVE  /\ Log!Written(d) \in Lines
         /\ DOMAIN Log!Written(d) = 1 .. Len(d.base) + 1
         /\ DOMAIN d.base = 1 .. Len(d.base)
         /\ Len(d.base) \in Nat
         /\ \A i \in 1 .. Len(d.base) : Log!Written(d)[i] = d.base[i]
         /\ Log!Written(d)[Len(d.base) + 1].seq = d.seq
         /\ \A i \in DOMAIN d.base : d.base[i] # Torn => d.base[i].seq \in Nat
         /\ d.seq \in Nat
<1>1. /\ d.base \in Seq(Log!Line \cup {Torn})
      /\ [seq |-> d.seq, event |-> d.event] \in Log!Line
      /\ d.seq \in Nat
  BY DEF Log!Draft, Log!Line
<1>2. \A i \in DOMAIN d.base : d.base[i] # Torn => d.base[i].seq \in Nat
  BY <1>1 DEF Log!Line
<1>3. QED
  BY <1>1, <1>2 DEF Log!Written, Lines

LEMMA WrittenSorted ==
  ASSUME NEW d \in Log!Draft, Sorted(d.base, d.seq)
  PROVE  Sorted(Log!Written(d), d.seq + 1)
<1> DEFINE w == Log!Written(d)
<1>1. /\ DOMAIN w = 1 .. Len(d.base) + 1
      /\ DOMAIN d.base = 1 .. Len(d.base)
      /\ Len(d.base) \in Nat
      /\ \A i \in 1 .. Len(d.base) : w[i] = d.base[i]
      /\ w[Len(d.base) + 1].seq = d.seq
      /\ \A i \in DOMAIN d.base : d.base[i] # Torn => d.base[i].seq \in Nat
      /\ d.seq \in Nat
  BY WrittenLines
<1> HIDE DEF w
<1>2. \A i \in DOMAIN w : w[i] # Torn => w[i].seq < d.seq + 1
  BY <1>1 DEF Sorted
<1>3. ASSUME NEW i \in DOMAIN w, NEW j \in DOMAIN w, i < j, w[i] # Torn, w[j] # Torn
      PROVE  w[i].seq < w[j].seq
  <2>1. CASE j \in DOMAIN d.base
    BY <1>1, <1>3, <2>1 DEF Sorted
  <2>2. CASE j = Len(d.base) + 1
    <3>1. i \in DOMAIN d.base /\ w[i] = d.base[i]
      BY <1>1, <1>3, <2>2
    <3>2. QED
      BY <1>1, <1>3, <2>2, <3>1 DEF Sorted
  <2>3. QED
    BY <1>1, <2>1, <2>2
<1>4. QED
  BY <1>2, <1>3 DEF Sorted, w

LEMMA WrittenInPlace ==
  ASSUME NEW d \in Log!Draft, InPlace(d.base), d.seq = Len(d.base) + 1
  PROVE  InPlace(Log!Written(d))
<1> DEFINE w == Log!Written(d)
<1>1. /\ DOMAIN w = 1 .. Len(d.base) + 1
      /\ DOMAIN d.base = 1 .. Len(d.base)
      /\ Len(d.base) \in Nat
      /\ \A i \in 1 .. Len(d.base) : w[i] = d.base[i]
      /\ w[Len(d.base) + 1].seq = d.seq
  BY WrittenLines
<1> HIDE DEF w
<1>2. InPlace(w)
  BY <1>1 DEF InPlace
<1>3. QED
  BY <1>2 DEF w

-----------------------------------------------------------------------------
(* The steps *)

\* The empty file and the empty queue.
LEMMA Empties ==
  /\ << >> \in Lines /\ << >> \in Seq(DispatchEvent)
  /\ Len(<< >>) = 0
BY EmptySeq DEF Lines

LEMMA InitInv == Init => IInv
<1> SUFFICES ASSUME Init PROVE IInv
  OBVIOUS
<1>1. /\ file = << >> /\ sequence = 1 /\ queue = << >> /\ writing = {} /\ faults = 0
      /\ life = 0 /\ up = FALSE
  BY DEF Init, Log!EmptyLog
<1>2. LogTypes
  <2>1. writing \in SUBSET Log!Draft /\ up \in BOOLEAN
    BY <1>1
  <2>2. QED
    BY <1>1, <2>1, Empties DEF LogTypes
<1>3. OneTurn /\ FaultFree /\ FirstProcess
  BY <1>1 DEF OneTurn, FaultFree, FirstProcess, Sorted, InPlace
<1>4. QED
  BY <1>2, <1>3 DEF IInv

\* Steps that ask for an append or for nothing.
LEMMA EnqueueStep ==
  ASSUME IInv, UNCHANGED <<file, sequence, writing, life, up>>,
         queue' = queue \/ (up /\ \E e \in DispatchEvent : queue' = Append(queue, e)),
         faults' \in Nat, faults' = 0 => faults = 0
  PROVE  IInv'
<1>1. queue' \in Seq(DispatchEvent) /\ (queue # << >> => queue' # << >> /\ Head(queue') = Head(queue))
  BY DEF IInv, LogTypes
<1>2. LogTypes'
  BY <1>1 DEF IInv, LogTypes
<1>3. OneTurn'
  BY <1>1 DEF IInv, OneTurn
<1>4. FaultFree'
  BY DEF IInv, FaultFree, InPlace
<1>5. FirstProcess'
  BY DEF IInv, FirstProcess, Sorted
<1>6. QED
  BY <1>2, <1>3, <1>4, <1>5 DEF IInv

LEMMA BeginStep ==
  ASSUME IInv, Begin
  PROVE  IInv'
<1> USE DEF IInv
<1>1. writing = {} /\ writing' = {} /\ up' /\ ~up /\ life' = life
  BY DEF Begin, Log!Initialize, OneTurn
<1>2. PICK readFails \in BOOLEAN :
        LET events == IF readFails THEN << >> ELSE Log!Parsed(file)
        IN  /\ faults' = IF readFails THEN faults + 1 ELSE faults
            /\ sequence' = Len(events) + 1
            /\ file' = IF events = << >> THEN << >> ELSE file
  BY DEF Begin, Log!Initialize
<1>3. \/ file' = << >> /\ sequence' = 1
      \/ file' = file /\ Torn \notin ToSet(file) /\ sequence' = Len(file) + 1 /\ file # << >>
  <2>1. CASE readFails \/ Torn \in ToSet(file)
    <3>1. sequence' = Len(<< >>) + 1 /\ file' = << >>
      BY <1>2, <2>1 DEF Log!Parsed, Log!ToSet, ToSet
    <3>2. QED
      BY <3>1, Empties
  <2>2. CASE ~readFails /\ Torn \notin ToSet(file)
    <3>1. sequence' = Len(file) + 1 /\ file' = IF file = << >> THEN << >> ELSE file
      BY <1>2, <2>2 DEF Log!Parsed, Log!ToSet, ToSet
    <3>2. QED
      BY <2>2, <3>1, Empties
  <2>3. QED
    BY <2>1, <2>2
<1>4. queue' = queue
  BY DEF Begin
<1>5. LogTypes'
  <2>1. faults' \in Nat
    BY <1>2 DEF LogTypes
  <2>2. sequence' \in Nat \ {0} /\ file' \in Lines
    <3>1. CASE file' = << >> /\ sequence' = 1
      BY <3>1, Empties
    <3>2. CASE file' = file /\ sequence' = Len(file) + 1
      BY <3>2 DEF LogTypes, Lines
    <3>3. QED
      BY <1>3, <3>1, <3>2
  <2>3. QED
    BY <1>1, <1>4, <2>1, <2>2 DEF LogTypes
<1>6. OneTurn'
  BY <1>1 DEF OneTurn
<1>7. FaultFree'
  <2>1. faults' = 0 => faults = 0
    BY <1>2 DEF LogTypes
  <2>2. CASE file' = << >> /\ sequence' = 1
    BY <1>1, <2>2 DEF FaultFree, InPlace, ToSet
  <2>3. CASE file' = file /\ Torn \notin ToSet(file) /\ sequence' = Len(file) + 1
    BY <1>1, <2>1, <2>3 DEF FaultFree, InPlace, LogTypes, Lines
  <2>4. QED
    BY <1>3, <2>2, <2>3
<1>8. FirstProcess'
  <2>1. life = 0 => file' = << >>
    BY <1>1, <1>3 DEF FirstProcess
  <2>2. QED
    BY <1>1, <2>1 DEF FirstProcess, Sorted
<1>9. QED
  BY <1>5, <1>6, <1>7, <1>8

LEMMA BeginAppendStep ==
  ASSUME IInv, NEW e \in DispatchEvent, BeginAppend(e)
  PROVE  IInv'
<1> USE DEF IInv
<1>1. /\ up /\ queue # << >> /\ e = Head(queue) /\ writing = {}
      /\ sequence' = sequence + 1
      /\ UNCHANGED <<file, queue, life, up>>
  BY DEF BeginAppend, Log!BeginAppend, Log!IsNext, OneTurn, callVars
<1>2. PICK readFails \in BOOLEAN :
        /\ faults' = IF readFails THEN faults + 1 ELSE faults
        /\ writing' = writing \cup
             {[event |-> e, seq |-> sequence, base |-> IF readFails THEN << >> ELSE file]}
  BY DEF BeginAppend, Log!BeginAppend
<1> DEFINE d == [event |-> e, seq |-> sequence, base |-> IF readFails THEN << >> ELSE file]
<1>3. writing' = {d}
  BY <1>1, <1>2
<1>4. d \in Log!Draft
  BY DEF LogTypes, Lines, Log!Draft
<1>5. /\ d.event = e /\ d.seq = sequence
      /\ d.base = << >> \/ d.base = file
      /\ ~readFails => d.base = file
  OBVIOUS
<1> HIDE DEF d
<1>6. faults' \in Nat /\ (faults' = 0 => faults = 0 /\ ~readFails) /\ sequence \in Nat \ {0}
  BY <1>2 DEF LogTypes
<1>7. LogTypes'
  BY <1>1, <1>3, <1>4, <1>6 DEF LogTypes
<1>8. OneTurn'
  BY <1>1, <1>3, <1>5, <1>6 DEF OneTurn
<1>9. FaultFree'
  BY <1>1, <1>3, <1>5, <1>6 DEF FaultFree, InPlace, LogTypes, Lines
<1>10. FirstProcess'
  <2>1. ASSUME life = 0
        PROVE  Sorted(file, sequence + 1) /\ Sorted(d.base, sequence)
    <3>1. \A i \in DOMAIN file : file[i] # Torn => file[i].seq \in Nat
      BY DEF LogTypes, Lines, Log!Line
    <3>2. Sorted(file, sequence)
      BY <2>1 DEF FirstProcess
    <3>3. QED
      BY <1>5, <1>6, <3>1, <3>2 DEF Sorted
  <2>2. QED
    BY <1>1, <1>3, <1>5, <2>1 DEF FirstProcess
<1>11. QED
  BY <1>7, <1>8, <1>9, <1>10

LEMMA EndAppendStep ==
  ASSUME IInv, NEW d \in writing, EndAppend(d)
  PROVE  IInv'
<1> USE DEF IInv
<1>1. /\ writing = {d} /\ writing' = {} /\ up /\ queue # << >> /\ queue' = Tail(queue)
      /\ file' = Log!Written(d) /\ d.seq = sequence - 1
      /\ UNCHANGED <<sequence, faults, life, up>>
  BY DEF EndAppend, Log!EndAppend, Log!Settle, OneTurn, LogTypes
<1>2. d \in Log!Draft
  BY DEF LogTypes
<1>3. file' \in Lines /\ DOMAIN file' = 1 .. Len(d.base) + 1 /\ Len(d.base) \in Nat
  BY <1>1, <1>2, WrittenLines
<1>4. LogTypes'
  BY <1>1, <1>3 DEF LogTypes
<1>5. OneTurn'
  BY <1>1 DEF OneTurn
<1>6. FaultFree'
  <2> SUFFICES ASSUME faults = 0
               PROVE  InPlace(file') /\ Torn \notin ToSet(file') /\ sequence = Len(file') + 1
    BY <1>1 DEF FaultFree
  <2>1. d.base = file /\ sequence = Len(file) + 2 /\ InPlace(d.base) /\ Torn \notin ToSet(d.base)
    BY <1>1 DEF FaultFree
  <2>2. d.seq = Len(d.base) + 1
    BY <1>1, <1>3, <2>1 DEF LogTypes
  <2>3. InPlace(file')
    BY <1>1, <1>2, <2>1, <2>2, WrittenInPlace
  <2>4. Len(file') = Len(d.base) + 1
    BY <1>3 DEF Lines
  <2>5. Torn \notin ToSet(file')
    <3>1. [seq |-> d.seq, event |-> d.event] # Torn
      BY <1>2, TornAssumption DEF Log!Draft, Log!Line
    <3>2. d.base \in Seq(Log!Line \cup {Torn})
      BY <1>2 DEF Log!Draft
    <3>3. QED
      BY <1>1, <2>1, <3>1, <3>2 DEF Log!Written, ToSet
  <2>6. QED
    BY <1>1, <2>1, <2>3, <2>4, <2>5
<1>7. FirstProcess'
  <2>1. ASSUME life = 0
        PROVE  Sorted(file', sequence)
    <3>1. Sorted(d.base, d.seq)
      BY <1>1, <2>1 DEF FirstProcess
    <3>2. d.seq + 1 = sequence
      BY <1>1 DEF LogTypes
    <3>3. QED
      BY <1>1, <1>2, <3>1, <3>2, WrittenSorted
  <2>2. QED
    BY <1>1, <2>1 DEF FirstProcess
<1>8. QED
  BY <1>4, <1>5, <1>6, <1>7

LEMMA FailAppendStep ==
  ASSUME IInv, NEW d \in writing, FailAppend(d)
  PROVE  IInv'
<1> USE DEF IInv
<1>1. /\ writing = {d} /\ writing' = {} /\ up /\ queue # << >> /\ queue' = Tail(queue)
      /\ file' = file \/ file' \in Log!Remains(Log!Written(d))
      /\ d.seq = sequence - 1 /\ faults' = faults + 1
      /\ UNCHANGED <<sequence, life, up>>
  BY DEF FailAppend, Log!FailAppend, Log!Settle, OneTurn, LogTypes
<1>2. d \in Log!Draft /\ faults' \in Nat \ {0}
  BY <1>1 DEF LogTypes
<1>3. Log!Written(d) \in Lines
  BY <1>2, WrittenLines
<1>4. file' \in Lines
  BY <1>1, <1>3, RemainsLines DEF LogTypes
<1>5. LogTypes'
  BY <1>1, <1>2, <1>4 DEF LogTypes
<1>6. OneTurn'
  BY <1>1 DEF OneTurn
<1>7. FaultFree'
  BY <1>2 DEF FaultFree
<1>8. FirstProcess'
  <2>1. ASSUME life = 0
        PROVE  Sorted(file', sequence)
    <3>1. Sorted(d.base, d.seq) /\ Sorted(file, sequence)
      BY <1>1, <2>1 DEF FirstProcess
    <3>2. d.seq + 1 = sequence /\ sequence \in Nat
      BY <1>1 DEF LogTypes
    <3>3. Sorted(Log!Written(d), sequence)
      BY <1>2, <3>1, <3>2, WrittenSorted
    <3>4. QED
      BY <1>1, <1>3, <3>1, <3>2, <3>3, RemainsSorted
  <2>2. QED
    BY <1>1, <2>1 DEF FirstProcess
<1>9. QED
  BY <1>5, <1>6, <1>7, <1>8

LEMMA CrashStep ==
  ASSUME IInv, Crash
  PROVE  IInv'
<1> USE DEF IInv
<1>1. /\ up /\ up' = FALSE /\ life' = life + 1 /\ queue' = << >> /\ writing' = {}
      /\ file' \in {file} \cup UNION {Log!Remains(Log!Written(d)) : d \in writing}
      /\ UNCHANGED <<sequence, faults>>
  BY DEF Crash, Log!CutOff
<1>2. file' = file \/ \E d \in writing : file' \in Log!Remains(Log!Written(d))
  BY <1>1
<1>3. \A d \in writing : d \in Log!Draft /\ Log!Written(d) \in Lines
  BY WrittenLines DEF LogTypes
<1>4. file' \in Lines
  BY <1>2, <1>3, RemainsLines DEF LogTypes
<1>5. LogTypes'
  <2>1. writing' \in SUBSET Log!Draft /\ up' \in BOOLEAN
    BY <1>1
  <2>2. QED
    BY <1>1, <1>4, <2>1, Empties DEF LogTypes
<1>6. OneTurn'
  BY <1>1 DEF OneTurn
<1>7. FaultFree'
  <2>1. ASSUME faults = 0
        PROVE  InPlace(file')
    <3>1. CASE file' = file
      BY <2>1, <3>1 DEF FaultFree
    <3>2. CASE \E d \in writing : file' \in Log!Remains(Log!Written(d))
      <4>1. PICK d \in writing : file' \in Log!Remains(Log!Written(d))
        BY <3>2
      <4>2. d.base = file /\ sequence = Len(file) + 2 /\ d.seq = sequence - 1 /\ InPlace(d.base)
        BY <1>1, <2>1 DEF FaultFree, OneTurn
      <4>3. d.seq = Len(d.base) + 1
        BY <4>2 DEF LogTypes, Lines
      <4>4. InPlace(Log!Written(d))
        BY <1>3, <4>2, <4>3, WrittenInPlace
      <4>5. QED
        BY <1>3, <4>1, <4>4, RemainsInPlace
    <3>3. QED
      BY <1>2, <3>1, <3>2
  <2>2. QED
    BY <1>1, <2>1 DEF FaultFree
<1>8. FirstProcess'
  BY <1>1 DEF FirstProcess, LogTypes
<1>9. QED
  BY <1>5, <1>6, <1>7, <1>8

\* Which of these lemmas a step falls under.
LEMMA StepInv == IInv /\ [Next /\ InBudget']_vars => IInv'
<1> SUFFICES ASSUME IInv, [Next /\ InBudget']_vars
             PROVE  IInv'
  OBVIOUS
<1> DEFINE Quiet == /\ UNCHANGED <<file, sequence, writing, life, up>>
                    /\ queue' = queue \/ (up /\ \E e \in DispatchEvent : queue' = Append(queue, e))
                    /\ faults' \in Nat /\ (faults' = 0 => faults = 0)
<1>1. Quiet => IInv'
  BY EnqueueStep
<1>2. faults \in Nat /\ life \in Nat /\ up \in BOOLEAN /\ queue \in Seq(DispatchEvent)
  BY DEF IInv, LogTypes
<1>3. CASE Begin
  BY <1>3, BeginStep
<1>4. CASE LogSteps
  <2>1. ASSUME NEW e \in ToSet(queue), BeginAppend(e)
        PROVE  IInv'
    <3>1. e \in DispatchEvent
      BY <1>2, <2>1 DEF ToSet
    <3>2. QED
      BY <2>1, <3>1, BeginAppendStep
  <2>2. ASSUME NEW d \in writing, EndAppend(d)
        PROVE  IInv'
    BY <2>2, EndAppendStep
  <2>3. ASSUME NEW d \in writing, FailAppend(d)
        PROVE  IInv'
    BY <2>3, FailAppendStep
  <2>4. QED
    BY <1>4, <2>1, <2>2, <2>3 DEF LogSteps
<1>5. ASSUME NEW c \in Call, Step(c)
      PROVE  IInv'
  <2>1. StartedEvent(c) \in DispatchEvent
    BY <1>2 DEF StartedEvent, DispatchEvent
  <2>2. \A s \in Status : CompletedEvent(c, s) \in DispatchEvent
    BY <1>2 DEF CompletedEvent, DispatchEvent
  <2>3. CASE Announce(c)
    <3>1. Quiet
      BY <1>2, <2>1, <2>3 DEF Announce, Goes, Log!Enqueue
    <3>2. QED
      BY <1>1, <3>1
  <2>4. ASSUME NEW s \in Status, SessionEnds(c, s)
        PROVE  IInv'
    <3>1. Quiet
      BY <1>2, <2>2, <2>4 DEF SessionEnds, Report, Goes, Log!Enqueue
    <3>2. QED
      BY <1>1, <3>1
  <2>5. \A reason \in EndReason : StatusOf(c, reason) \in Status
    BY DEF StatusOf, Status
  <2>6. CASE AgentReturns(c)
    <3>1. PICK payload \in Payload :
            SessionEnds(c, IF Kind[c] = "leaf" THEN "PASS" ELSE payload)
      BY <2>6 DEF AgentReturns
    <3>2. (IF Kind[c] = "leaf" THEN "PASS" ELSE payload) \in Status
      BY CallAssumption DEF Status
    <3>3. QED
      BY <2>4, <3>1, <3>2
  <2>7. CASE AgentEnds(c) \/ PromptFails(c) \/ Timeout(c) \/ SettleAborted(c)
    BY <2>4, <2>5, <2>7 DEF AgentEnds, PromptFails, Timeout, SettleAborted, EndReason
  <2>8. CASE OpenAborted(c)
    <3>1. StatusOf(c, "aborted") \in Status
      BY <2>5 DEF EndReason
    <3>2. Quiet
      BY <1>2, <2>2, <2>8, <3>1 DEF OpenAborted, Report, Goes, Log!Enqueue
    <3>3. QED
      BY <1>1, <3>2
  <2>9. CASE Open(c) \/ OpenFails(c) \/ Activity(c) \/ ToolEnds(c) \/ Output(c)
    <3>1. CASE Open(c)
      <4>1. Quiet
        BY <1>2, <3>1 DEF Open
      <4>2. QED
        BY <1>1, <4>1
    <3>2. CASE OpenFails(c)
      <4>1. Quiet
        BY <1>2, <3>2 DEF OpenFails
      <4>2. QED
        BY <1>1, <4>1
    <3>3. CASE Activity(c) \/ ToolEnds(c) \/ Output(c)
      <4>1. Quiet
        BY <1>2, <3>3 DEF Activity, ToolEnds, Output, logVars, callVars
      <4>2. QED
        BY <1>1, <4>1
    <3>4. QED
      BY <2>9, <3>1, <3>2, <3>3
  <2>10. QED
    BY <1>5, <2>3, <2>6, <2>7, <2>8, <2>9 DEF Step
<1>6. CASE Crash
  BY <1>6, CrashStep
<1>7. CASE Abort \/ TimerFires \/ Stop \/ Done \/ UNCHANGED vars
  <2>1. Quiet
    BY <1>2, <1>7 DEF Abort, TimerFires, Stop, Done, vars, logVars, callVars
  <2>2. QED
    BY <1>1, <2>1
<1>8. QED
  BY <1>3, <1>4, <1>5, <1>6, <1>7 DEF Next

-----------------------------------------------------------------------------
(* The theorems *)

\* The types of the log, one writer's turn, and the numbering while nothing
\* has failed hold always, whatever dispatches run side by side.
THEOREM Inductive == Spec => []IInv
<1>1. Init => IInv
  BY InitInv
<1>2. IInv /\ [Next /\ InBudget']_vars => IInv'
  BY StepInv
<1>3. QED
  BY <1>1, <1>2, PTL DEF Spec

\* Without faults the number of an event is its line, however many dispatches
\* record at once and processes have died: Numbered.
THEOREM NumberedHolds == Spec => []Numbered
<1>1. IInv => Numbered
  BY DEF IInv, FaultFree, InPlace, Numbered
<1>2. QED
  BY <1>1, Inductive, PTL

\* One process never writes a number out of order or twice, also when reads and
\* writes fail: SequenceIncreases.
THEOREM SequenceHolds == Spec => []SequenceIncreases
<1>1. IInv => SequenceIncreases
  BY DEF IInv, FirstProcess, Sorted, SequenceIncreases
<1>2. QED
  BY <1>1, Inductive, PTL

\* A step of a live process changes the file only by the end of an append, and
\* that adds one line while nothing has failed.
LEMMA FileStep ==
  ASSUME IInv, [Next /\ InBudget']_vars, up, up', faults' = 0
  PROVE  file' = file \/ \E d \in writing : d.base = file /\ file' = Log!Written(d)
<1> USE DEF IInv
<1>1. faults \in Nat
  BY DEF LogTypes
<1>2. ASSUME NEW d \in writing, EndAppend(d)
      PROVE  d.base = file /\ file' = Log!Written(d)
  BY <1>2 DEF EndAppend, Log!EndAppend, FaultFree
<1>3. ASSUME NEW d \in writing, FailAppend(d)
      PROVE  FALSE
  BY <1>1, <1>3 DEF FailAppend, Log!FailAppend
<1>4. CASE LogSteps
  BY <1>2, <1>3, <1>4 DEF LogSteps, BeginAppend, Log!BeginAppend
<1>5. ASSUME NEW c \in Call, Step(c)
      PROVE  file' = file
  <2>1. \A s : SessionEnds(c, s) => file' = file
    BY DEF SessionEnds, Report
  <2>2. CASE AgentReturns(c) \/ AgentEnds(c) \/ PromptFails(c) \/ Timeout(c) \/ SettleAborted(c)
    BY <2>1, <2>2 DEF AgentReturns, AgentEnds, PromptFails, Timeout, SettleAborted
  <2>3. CASE Announce(c)
    BY <2>3 DEF Announce
  <2>4. CASE Open(c)
    BY <2>4 DEF Open
  <2>5. CASE OpenAborted(c)
    BY <2>5 DEF OpenAborted, Report
  <2>6. CASE OpenFails(c)
    BY <2>6 DEF OpenFails
  <2>7. CASE Activity(c) \/ ToolEnds(c) \/ Output(c)
    BY <2>7 DEF Activity, ToolEnds, Output, logVars
  <2>8. QED
    BY <1>5, <2>2, <2>3, <2>4, <2>5, <2>6, <2>7 DEF Step
<1>6. CASE Abort \/ TimerFires \/ Stop \/ Done \/ UNCHANGED vars
  BY <1>6 DEF Abort, TimerFires, Stop, Done, vars, logVars
<1>7. ~Begin /\ ~Crash
  BY DEF Begin, Crash
<1>8. QED
  BY <1>4, <1>5, <1>6, <1>7 DEF Next

\* While the process lives and nothing fails, what is on file stays in its
\* place, whichever dispatches record at the same time: EventsStay.
THEOREM EventsStayHolds == Spec => EventsStay
<1>1. ASSUME IInv, [Next /\ InBudget']_vars, up, up', faults' = 0
      PROVE  IsPrefix(file, file')
  <2>1. file \in Seq(Log!Line \cup {Torn})
    BY <1>1 DEF IInv, LogTypes, Lines
  <2>2. CASE file' = file
    BY <2>1, <2>2 DEF IsPrefix
  <2>3. CASE \E d \in writing : d.base = file /\ file' = Log!Written(d)
    <3>1. PICK d \in writing : d.base = file /\ file' = Log!Written(d)
      BY <2>3
    <3>2. d \in Log!Draft
      BY <1>1 DEF IInv, LogTypes
    <3>3. /\ file' \in Lines /\ DOMAIN file' = 1 .. Len(file) + 1
          /\ \A i \in 1 .. Len(file) : file'[i] = file[i]
      BY <3>1, <3>2, WrittenLines
    <3>4. file' \in Seq(Log!Line \cup {Torn}) /\ Len(file') = Len(file) + 1
      BY <2>1, <3>3 DEF Lines
    <3>5. SubSeq(file, 1, Len(file)) = SubSeq(file', 1, Len(file))
      BY <2>1, <3>3, <3>4
    <3>6. QED
      BY <2>1, <3>4, <3>5 DEF IsPrefix
  <2>4. QED
    BY <1>1, <2>2, <2>3, FileStep
<1>2. IInv /\ [Next /\ InBudget']_vars =>
        [up /\ up' /\ faults' = 0 => IsPrefix(file, file')]_vars
  BY <1>1
<1>3. QED
  BY <1>2, Inductive, PTL DEF Spec, EventsStay

-----------------------------------------------------------------------------
(* The log and the dispatches *)

\* The records that dispatches wait for, and those that they have had.
Due(e) == \E c \in Call : \/ pc[c] = "announcing" /\ e = StartedEvent(c)
                          \/ pc[c] = "reporting" /\ e = CompletedEvent(c, result[c])

Past(e) == \E c \in Call : \/ pc[c] \notin {"idle", "announcing"} /\ e = StartedEvent(c)
                           \/ pc[c] = "returned" /\ e = CompletedEvent(c, result[c])

OnFile(e) == \E i \in DOMAIN file : file[i] # Torn /\ file[i].event = e

\* Other processes that recorded on this file have died before this one.
Ages == \A i \in DOMAIN file :
          file[i] # Torn => file[i].event.life <= life /\ (~up => file[i].event.life # life)

\* The queue holds what is due, all of it and once.
QueueTells ==
  /\ \A i \in DOMAIN queue : Due(queue[i])
  /\ \A i, j \in DOMAIN queue : queue[i] = queue[j] => i = j
  /\ \A e : Due(e) => \E i \in DOMAIN queue : queue[i] = e

\* The file holds what is past, once, and all of it.
FileTells ==
  /\ \A i \in DOMAIN file :
       file[i] # Torn /\ file[i].event.life = life => Past(file[i].event)
  /\ \A i, j \in DOMAIN file :
       file[i] # Torn /\ file[j] # Torn /\ file[i].event = file[j].event
         /\ file[i].event.life = life => i = j
  /\ \A c \in Call :
       /\ pc[c] \notin {"idle", "announcing"} => OnFile(StartedEvent(c))
       /\ pc[c] = "returned" => OnFile(CompletedEvent(c, result[c]))

CallTypes ==
  /\ pc \in [Call -> {"idle"} \cup Underway \cup Final]
  /\ result \in [Call -> Status \cup {None}]

\* No dispatch is anywhere without a process.
Waits == IF up THEN QueueTells ELSE \A c \in Call : pc[c] = "idle"

Tells == faults = 0 => Ages /\ (up => FileTells)

TInv == CallTypes /\ Waits /\ Tells

\* Records differ when their dispatches, their kinds or their statuses do.
LEMMA EventsDiffer ==
  /\ \A a, b : StartedEvent(a) = StartedEvent(b) => a = b
  /\ \A a, b, s, t : CompletedEvent(a, s) = CompletedEvent(b, t) => a = b /\ s = t
  /\ \A a, b, s : StartedEvent(a) # CompletedEvent(b, s)
  /\ \A a : StartedEvent(a).life = life /\ StartedEvent(a).call = a
  /\ \A a, s : CompletedEvent(a, s).life = life /\ CompletedEvent(a, s).call = a
<1>1. /\ \A a : StartedEvent(a).life = life /\ StartedEvent(a).call = a
               /\ StartedEvent(a).type = "started"
      /\ \A a, s : /\ CompletedEvent(a, s).life = life /\ CompletedEvent(a, s).call = a
                   /\ CompletedEvent(a, s).type = "completed"
                   /\ CompletedEvent(a, s).status = s
  BY DEF StartedEvent, CompletedEvent
<1>2. QED
  BY <1>1

\* What comes at the end of a queue that does not have it leaves it with each
\* record once.
LEMMA QueuedOnce ==
  ASSUME NEW q \in Seq(DispatchEvent), NEW e \in DispatchEvent,
         \A i \in DOMAIN q : q[i] # e,
         \A i, j \in DOMAIN q : q[i] = q[j] => i = j
  PROVE  /\ \A i, j \in DOMAIN Append(q, e) : Append(q, e)[i] = Append(q, e)[j] => i = j
         /\ \A i \in DOMAIN Append(q, e) : Append(q, e)[i] = e \/ \E j \in DOMAIN q : Append(q, e)[i] = q[j]
<1>1. /\ DOMAIN q = 1 .. Len(q) /\ Len(q) \in Nat
      /\ DOMAIN Append(q, e) = 1 .. Len(q) + 1
      /\ \A i \in 1 .. Len(q) : Append(q, e)[i] = q[i]
      /\ Append(q, e)[Len(q) + 1] = e
  OBVIOUS
<1>2. QED
  BY <1>1

\* A step of one dispatch that is not a step of the log.
LEMMA CallStep ==
  ASSUME IInv, TInv, UNCHANGED <<file, life, up>>, up, faults' = faults,
         NEW c \in Call, NEW to \in Underway, pc' = [pc EXCEPT ![c] = to],
         \/ /\ pc[c] = "opening" /\ to = "racing"
            /\ UNCHANGED <<queue, result>>
         \/ /\ pc[c] = "idle" /\ to = "announcing" /\ UNCHANGED result
            /\ queue' = Append(queue, StartedEvent(c))
         \/ /\ pc[c] \in {"opening", "racing"} /\ to = "reporting"
            /\ \E s \in Status : /\ result' = [result EXCEPT ![c] = s]
                                 /\ queue' = Append(queue, CompletedEvent(c, s))
  PROVE  TInv'
<1> USE DEF IInv, TInv
<1>1. CallTypes'
  BY DEF CallTypes
<1>2. QueueTells
  BY DEF Waits
<1>3. /\ \A b \in Call \ {c} : pc'[b] = pc[b] /\ result'[b] = result[b]
      /\ pc'[c] = to
      /\ \A b : StartedEvent(b)' = StartedEvent(b)
      /\ \A b \in Call \ {c} : CompletedEvent(b, result[b])' = CompletedEvent(b, result[b])
  BY DEF CallTypes, StartedEvent, CompletedEvent
<1>4. ASSUME NEW e, Due(e)'
      PROVE  \/ to = "announcing" /\ e = StartedEvent(c)
             \/ to = "reporting" /\ e = CompletedEvent(c, result'[c])
             \/ \E i \in DOMAIN queue : queue[i] = e
  <2>1. PICK b \in Call : \/ pc'[b] = "announcing" /\ e = StartedEvent(b)
                          \/ pc'[b] = "reporting" /\ e = CompletedEvent(b, result'[b])
    BY <1>4, <1>3 DEF Due, StartedEvent, CompletedEvent
  <2>2. CASE b = c
    BY <1>3, <2>1, <2>2
  <2>3. CASE b # c
    <3>1. pc[b] = pc'[b] /\ result[b] = result'[b]
      BY <1>3, <2>3
    <3>2. Due(e)
      BY <2>1, <3>1 DEF Due
    <3>3. QED
      BY <1>2, <3>2 DEF QueueTells
  <2>4. QED
    BY <2>2, <2>3
<1>5. \A i \in DOMAIN queue : queue[i] # StartedEvent(c) /\ \A s : queue[i] # CompletedEvent(c, s)
  BY <1>2, EventsDiffer DEF QueueTells, Due
<1>6. \A i \in DOMAIN queue : \E b \in Call \ {c} :
        \/ pc[b] = "announcing" /\ queue[i] = StartedEvent(b)
        \/ pc[b] = "reporting" /\ queue[i] = CompletedEvent(b, result[b])
  BY <1>2, <1>5 DEF QueueTells, Due
<1>7. \A e : (\E i \in DOMAIN queue : queue[i] = e) => Due(e)'
  BY <1>3, <1>6 DEF Due
<1>8. QueueTells'
  <2>1. CASE queue' = queue
    BY <1>2, <1>4, <1>7, <2>1 DEF QueueTells
  <2>2. ASSUME NEW e \in DispatchEvent, queue' = Append(queue, e),
               \A i \in DOMAIN queue : queue[i] # e, Due(e)',
               \A x : Due(x)' => x = e \/ \E i \in DOMAIN queue : queue[i] = x
        PROVE  QueueTells'
    <3>1. queue \in Seq(DispatchEvent)
      BY DEF LogTypes
    <3>2. \A i, j \in DOMAIN queue : queue[i] = queue[j] => i = j
      BY <1>2 DEF QueueTells
    <3>3. /\ \A i, j \in DOMAIN queue' : queue'[i] = queue'[j] => i = j
          /\ \A i \in DOMAIN queue' : queue'[i] = e \/ \E j \in DOMAIN queue : queue'[i] = queue[j]
      BY <2>2, <3>1, <3>2, QueuedOnce
    <3>4. \A i \in DOMAIN queue' : Due(queue[i])'
      BY <1>7, <2>2, <3>3
    <3>5. /\ \A i \in DOMAIN queue : i \in DOMAIN queue' /\ queue'[i] = queue[i]
          /\ \E i \in DOMAIN queue' : queue'[i] = e
      BY <2>2, <3>1
    <3>6. \A x : Due(x)' => \E i \in DOMAIN queue' : queue'[i] = x
      BY <2>2, <3>5
    <3>7. QED
      BY <3>3, <3>4, <3>6 DEF QueueTells
  <2>3. CASE to = "announcing" /\ queue' = Append(queue, StartedEvent(c))
    <3>1. StartedEvent(c) \in DispatchEvent
      BY DEF StartedEvent, DispatchEvent, LogTypes
    <3>2. Due(StartedEvent(c))'
      BY <1>3, <2>3 DEF Due
    <3>3. QED
      BY <1>4, <1>3, <1>5, <2>2, <2>3, <3>1, <3>2
  <2>4. ASSUME NEW s \in Status, to = "reporting", result' = [result EXCEPT ![c] = s],
               queue' = Append(queue, CompletedEvent(c, s))
        PROVE  QueueTells'
    <3>1. CompletedEvent(c, s) \in DispatchEvent
      BY DEF CompletedEvent, DispatchEvent, LogTypes
    <3>2. result'[c] = s /\ CompletedEvent(c, s)' = CompletedEvent(c, s)
      BY <2>4 DEF CallTypes, CompletedEvent
    <3>3. Due(CompletedEvent(c, s))'
      BY <1>3, <2>4, <3>2 DEF Due
    <3>4. \A x : Due(x)' => x = CompletedEvent(c, s) \/ \E i \in DOMAIN queue : queue[i] = x
      BY <1>4, <2>4, <3>2
    <3>5. QED
      BY <1>5, <2>2, <2>4, <3>1, <3>2, <3>3, <3>4
  <2>5. QED
    BY <2>1, <2>3, <2>4
<1>9. ASSUME faults = 0
      PROVE  Ages' /\ FileTells'
  <2>1. Ages /\ FileTells
    BY <1>9 DEF Tells
  <2>2. \A e : Past(e) => Past(e)'
    BY <1>3 DEF Past, CallTypes
  <2>3. \A e : OnFile(e) => OnFile(e)'
    BY DEF OnFile
  <2>4. ASSUME NEW b \in Call
        PROVE  /\ pc'[b] \notin {"idle", "announcing"} => OnFile(StartedEvent(b))'
               /\ pc'[b] = "returned" => OnFile(CompletedEvent(b, result[b]))'
    BY <1>3, <2>1, <2>3 DEF FileTells, OnFile, Underway
  <2>5. QED
    BY <2>1, <2>2, <2>4 DEF Ages, FileTells
<1>10. QED
  BY <1>1, <1>8, <1>9 DEF Waits, Tells

LEMMA TellsInit == Init => TInv
<1> SUFFICES ASSUME Init PROVE TInv
  OBVIOUS
<1>1. CallTypes
  BY DEF Init, CallTypes
<1>2. Waits /\ Tells
  BY DEF Init, Log!EmptyLog, Waits, Tells, Ages
<1>3. QED
  BY <1>1, <1>2 DEF TInv

LEMMA TellsBegin ==
  ASSUME IInv, TInv, Begin
  PROVE  TInv'
<1> USE DEF IInv, TInv
<1>1. /\ up' /\ ~up /\ life' = life /\ result' = result /\ pc' = pc
      /\ queue' = << >>
      /\ file' = file \/ file' = << >>
      /\ faults' = 0 => faults = 0
  BY DEF Begin, Log!Initialize, LogTypes, OneTurn
<1>2. CallTypes'
  BY <1>1 DEF CallTypes
<1>3. \A c \in Call : pc'[c] = "idle"
  BY <1>1 DEF Waits
<1>4. \A e : ~Due(e)'
  BY <1>3 DEF Due
<1>5. DOMAIN queue' = {}
  BY <1>1
<1>6. QueueTells'
  BY <1>4, <1>5 DEF QueueTells
<1>7. ASSUME faults' = 0
      PROVE  Ages' /\ FileTells'
  <2>1. \A i \in DOMAIN file :
          file[i] # Torn => file[i].event.life <= life /\ file[i].event.life # life
    BY <1>1, <1>7 DEF Tells, Ages
  <2>2. \A i \in DOMAIN file' :
          file'[i] # Torn => file'[i].event.life <= life /\ file'[i].event.life # life
    BY <1>1, <2>1
  <2>3. QED
    BY <1>1, <1>3, <2>2 DEF Ages, FileTells
<1>8. QED
  BY <1>1, <1>2, <1>6, <1>7 DEF Waits, Tells

\* The head of the queue is what its dispatch waits for; when the dispatch waits
\* no longer, the rest of the queue is what the others wait for.
LEMMA HeadIsDue ==
  ASSUME IInv, TInv, up, queue # << >>
  PROVE  LET e == Head(queue)
         IN  /\ e.call \in Call /\ e.life = life
             /\ \/ pc[e.call] = "announcing" /\ e = StartedEvent(e.call)
                \/ pc[e.call] = "reporting" /\ e = CompletedEvent(e.call, result[e.call])
<1> DEFINE e == Head(queue)
<1>1. 1 \in DOMAIN queue /\ queue[1] = e
  BY DEF IInv, LogTypes
<1>2. Due(e)
  BY <1>1 DEF TInv, Waits, QueueTells
<1>3. QED
  BY <1>2, EventsDiffer DEF Due

LEMMA QueueMovesOn ==
  ASSUME IInv, TInv, up, queue # << >>, queue' = Tail(queue), UNCHANGED <<life, result>>,
         NEW to \in {"opening"} \cup Final, pc' = [pc EXCEPT ![Head(queue).call] = to]
  PROVE  CallTypes' /\ QueueTells'
<1> DEFINE e == Head(queue)
           c == e.call
<1>1. /\ c \in Call
      /\ \/ pc[c] = "announcing" /\ e = StartedEvent(c)
         \/ pc[c] = "reporting" /\ e = CompletedEvent(c, result[c])
  BY HeadIsDue
<1>2. QueueTells /\ CallTypes
  BY DEF TInv, Waits
<1>3. /\ 1 \in DOMAIN queue /\ queue[1] = e
      /\ DOMAIN queue' = 1 .. Len(queue) - 1 /\ DOMAIN queue = 1 .. Len(queue)
      /\ Len(queue) \in Nat
      /\ \A i \in DOMAIN queue' : i + 1 \in DOMAIN queue /\ queue'[i] = queue[i + 1]
  BY DEF IInv, LogTypes
<1> HIDE DEF e
<1>4. /\ \A b \in Call \ {c} : pc'[b] = pc[b]
      /\ pc'[c] = to /\ to \notin {"announcing", "reporting"}
      /\ \A b : StartedEvent(b)' = StartedEvent(b)
      /\ \A b : CompletedEvent(b, result[b])' = CompletedEvent(b, result[b])
  BY <1>1, <1>2 DEF CallTypes, StartedEvent, CompletedEvent, Final, e
<1>5. CallTypes'
  BY <1>2 DEF CallTypes, Underway, Final
<1>6. \A x : Due(x)' <=> Due(x) /\ x # e
  <2>1. ASSUME NEW x, Due(x), x # e
        PROVE  Due(x)'
    <3>1. PICK b \in Call : \/ pc[b] = "announcing" /\ x = StartedEvent(b)
                            \/ pc[b] = "reporting" /\ x = CompletedEvent(b, result[b])
      BY <2>1 DEF Due
    <3>2. b # c
      BY <1>1, <2>1, <3>1
    <3>3. QED
      BY <1>4, <3>1, <3>2 DEF Due
  <2>2. ASSUME NEW x, Due(x)'
        PROVE  Due(x) /\ x # e
    <3>1. PICK b \in Call : \/ pc'[b] = "announcing" /\ x = StartedEvent(b)
                            \/ pc'[b] = "reporting" /\ x = CompletedEvent(b, result[b])
      BY <1>4, <2>2 DEF Due
    <3>2. b # c
      BY <1>4, <3>1
    <3>3. Due(x)
      BY <1>4, <3>1, <3>2 DEF Due
    <3>4. x # e
      BY <1>1, <3>1, <3>2, EventsDiffer
    <3>5. QED
      BY <3>3, <3>4
  <2>3. QED
    BY <2>1, <2>2
<1>7. \A i \in DOMAIN queue' : Due(queue[i])'
  BY <1>2, <1>3, <1>6 DEF QueueTells
<1>8. \A i, j \in DOMAIN queue' : queue'[i] = queue'[j] => i = j
  BY <1>2, <1>3 DEF QueueTells
<1>9. ASSUME NEW x, Due(x)'
      PROVE  \E i \in DOMAIN queue' : queue'[i] = x
  <2>1. PICK i \in DOMAIN queue : queue[i] = x
    BY <1>2, <1>6, <1>9 DEF QueueTells
  <2>2. i # 1
    BY <1>3, <1>6, <1>9, <2>1
  <2>3. i - 1 \in DOMAIN queue' /\ queue'[i - 1] = x
    BY <1>3, <2>1, <2>2
  <2>4. QED
    BY <2>3
<1>10. QED
  BY <1>5, <1>7, <1>8, <1>9 DEF QueueTells

LEMMA TellsEndAppend ==
  ASSUME IInv, TInv, NEW d \in writing, EndAppend(d)
  PROVE  TInv'
<1> USE DEF IInv, TInv
<1>0. PICK e, c : e = Head(queue) /\ c = e.call
  OBVIOUS
<1> DEFINE to == IF pc[c] = "announcing" THEN "opening" ELSE "returned"
<1>1. /\ up /\ queue # << >> /\ d.event = e /\ queue' = Tail(queue)
      /\ file' = Log!Written(d) /\ pc' = [pc EXCEPT ![c] = to]
      /\ UNCHANGED <<faults, life, up, result>>
  BY <1>0 DEF EndAppend, Log!EndAppend, Log!Settle, OneTurn
<1>2. CallTypes' /\ QueueTells'
  BY <1>0, <1>1, QueueMovesOn DEF Final
<1> SUFFICES ASSUME faults = 0
             PROVE  Ages' /\ FileTells'
  BY <1>1, <1>2 DEF Waits, Tells
<1>3. d.base = file /\ Ages /\ FileTells
  BY <1>1 DEF Tells, FaultFree
<1>4. e \in DispatchEvent
  BY <1>0, <1>1 DEF LogTypes
<1>5. /\ c \in Call /\ e.life = life
      /\ \/ pc[c] = "announcing" /\ e = StartedEvent(c)
         \/ pc[c] = "reporting" /\ e = CompletedEvent(c, result[c])
  BY <1>0, <1>1, HeadIsDue
<1>6. /\ Log!Written(d) \in Lines
      /\ DOMAIN file' = 1 .. Len(file) + 1 /\ DOMAIN file = 1 .. Len(file) /\ Len(file) \in Nat
      /\ \A i \in 1 .. Len(file) : file'[i] = file[i]
  BY <1>1, <1>3, WrittenLines DEF LogTypes
<1>7. file'[Len(file) + 1].event = e /\ file'[Len(file) + 1] # Torn
  <2>1. [seq |-> d.seq, event |-> d.event] # Torn
    BY TornAssumption DEF Log!Draft, Log!Line, LogTypes
  <2>2. file \in Seq(Log!Line \cup {Torn})
    BY DEF LogTypes, Lines
  <2>3. file' = Append(file, [seq |-> d.seq, event |-> d.event])
    BY <1>1, <1>3 DEF Log!Written
  <2>4. QED
    BY <1>1, <2>1, <2>2, <2>3
<1>8. /\ \A b \in Call \ {c} : pc'[b] = pc[b]
      /\ pc'[c] = to
      /\ \A b : StartedEvent(b)' = StartedEvent(b)
      /\ \A b : CompletedEvent(b, result[b])' = CompletedEvent(b, result[b])
  BY <1>1, <1>5 DEF CallTypes, StartedEvent, CompletedEvent
<1>9. \A x : Past(x) => Past(x)'
  BY <1>5, <1>8 DEF Past
<1>10. Past(e)' /\ ~Past(e)
  BY <1>5, <1>8, EventsDiffer DEF Past
<1>11. Ages'
  <2>1. \A i \in DOMAIN file' : file'[i] # Torn => file'[i].event.life <= life
    BY <1>3, <1>5, <1>6, <1>7 DEF Ages, LogTypes
  <2>2. QED
    BY <1>1, <2>1 DEF Ages
<1>12. FileTells'
  <2>1. ASSUME NEW i \in DOMAIN file', file'[i] # Torn, file'[i].event.life = life
        PROVE  Past(file[i].event)'
    BY <1>3, <1>6, <1>7, <1>9, <1>10, <2>1 DEF FileTells
  <2>2. ASSUME NEW i \in DOMAIN file', NEW j \in DOMAIN file', file'[i] # Torn, file'[j] # Torn,
               file'[i].event = file'[j].event, file'[i].event.life = life
        PROVE  i = j
    <3>1. \A k \in DOMAIN file : file[k] # Torn => file[k].event # e
      BY <1>3, <1>5, <1>10 DEF FileTells
    <3>2. QED
      BY <1>3, <1>6, <1>7, <2>2, <3>1 DEF FileTells
  <2>3. \A x : OnFile(x) => OnFile(x)'
    BY <1>6 DEF OnFile
  <2>4. OnFile(e)'
    BY <1>6, <1>7 DEF OnFile
  <2>5. ASSUME NEW b \in Call
        PROVE  /\ pc'[b] \notin {"idle", "announcing"} => OnFile(StartedEvent(b))'
               /\ pc'[b] = "returned" => OnFile(CompletedEvent(b, result[b]))'
    <3>1. CASE b = c
      BY <1>3, <1>5, <1>8, <2>3, <2>4, <3>1 DEF FileTells
    <3>2. CASE b # c
      BY <1>3, <1>8, <2>3, <3>2 DEF FileTells
    <3>3. QED
      BY <3>1, <3>2
  <2>6. QED
    BY <1>1, <2>1, <2>2, <2>5 DEF FileTells
<1>13. QED
  BY <1>11, <1>12

LEMMA TellsCrash ==
  ASSUME IInv, TInv, Crash
  PROVE  TInv'
<1> USE DEF IInv, TInv
<1>1. /\ up /\ up' = FALSE /\ life' = life + 1 /\ faults' = faults
      /\ pc' = [c \in Call |-> "idle"] /\ result' = [c \in Call |-> None]
      /\ file' \in {file} \cup UNION {Log!Remains(Log!Written(d)) : d \in writing}
  BY DEF Crash, Log!CutOff
<1>2. CallTypes'
  BY <1>1 DEF CallTypes
<1> SUFFICES ASSUME faults = 0
             PROVE  Ages'
  BY <1>1, <1>2 DEF Waits, Tells
<1>3. Ages /\ QueueTells /\ life \in Nat
  BY <1>1 DEF Waits, Tells, LogTypes
<1>4. ASSUME NEW i \in DOMAIN file', file'[i] # Torn
      PROVE  file'[i].event.life <= life
  <2>1. CASE file' = file
    BY <1>3, <1>4, <2>1 DEF Ages
  <2>2. CASE \E d \in writing : file' \in Log!Remains(Log!Written(d))
    <3>1. PICK d \in writing : file' \in Log!Remains(Log!Written(d))
      BY <2>2
    <3>2. d \in Log!Draft /\ Log!Written(d) \in Lines
      BY WrittenLines DEF LogTypes
    <3>3. i \in DOMAIN Log!Written(d) /\ file'[i] = Log!Written(d)[i]
      BY <1>4, <3>1, <3>2, RemainsLines
    <3>4. d.base = file /\ d.event = Head(queue) /\ queue # << >>
      BY <1>1 DEF FaultFree, OneTurn
    <3>5. d.event.life = life
      <4>1. 1 \in DOMAIN queue /\ queue[1] = d.event
        BY <3>4 DEF LogTypes
      <4>2. QED
        BY <1>3, <4>1, EventsDiffer DEF QueueTells, Due
    <3>6. CASE i \in DOMAIN file
      BY <1>3, <1>4, <3>2, <3>3, <3>4, <3>6, WrittenLines DEF Ages
    <3>7. CASE i = Len(file) + 1
      <4>1. file \in Seq(Log!Line \cup {Torn})
        BY DEF LogTypes, Lines
      <4>2. Log!Written(d) = Append(file, [seq |-> d.seq, event |-> d.event])
        BY <3>4 DEF Log!Written
      <4>3. Log!Written(d)[i].event = d.event
        BY <3>7, <4>1, <4>2
      <4>4. QED
        BY <1>3, <3>3, <3>5, <4>3
    <3>8. QED
      BY <3>2, <3>3, <3>4, <3>6, <3>7, WrittenLines
  <2>3. QED
    BY <1>1, <2>1, <2>2
<1>5. \A i \in DOMAIN file' : file'[i] # Torn => file'[i].event.life \in Nat
  <2>1. file' \in Seq(Log!Line \cup {Torn})
    BY CrashStep DEF LogTypes, Lines
  <2>2. QED
    BY <2>1 DEF Log!Line, DispatchEvent
<1>6. QED
  BY <1>1, <1>3, <1>4, <1>5 DEF Ages

\* Steps that change no dispatch and nothing that waits or is on file.
LEMMA TellsQuiet ==
  ASSUME TInv, UNCHANGED <<file, queue, life, up, pc, result>>, faults' = 0 => faults = 0
  PROVE  TInv'
<1>1. CallTypes'
  BY DEF TInv, CallTypes
<1>2. /\ Ages => Ages'
      /\ QueueTells => QueueTells'
      /\ FileTells => FileTells'
  BY DEF Ages, QueueTells, FileTells, Due, Past, OnFile, StartedEvent, CompletedEvent
<1>3. QED
  BY <1>1, <1>2 DEF TInv, Waits, Tells

\* Nothing is claimed of the log after a failure, but the queue goes on.
LEMMA TellsFailAppend ==
  ASSUME IInv, TInv, NEW d \in writing, FailAppend(d)
  PROVE  TInv'
<1>1. /\ up /\ queue # << >> /\ d.event = Head(queue) /\ queue' = Tail(queue)
      /\ pc' = [pc EXCEPT ![Head(queue).call] = "threw"]
      /\ UNCHANGED <<life, up, result>>
  BY DEF IInv, FailAppend, Log!FailAppend, Log!Settle, OneTurn
<1>2. CallTypes' /\ QueueTells'
  BY <1>1, QueueMovesOn DEF Final
<1>3. faults' # 0
  BY DEF IInv, LogTypes, FailAppend, Log!FailAppend
<1>4. QED
  BY <1>1, <1>2, <1>3 DEF TInv, Waits, Tells

LEMMA TellsOpenFails ==
  ASSUME IInv, TInv, NEW c \in Call, OpenFails(c)
  PROVE  TInv'
<1>1. /\ up /\ pc[c] = "opening" /\ pc' = [pc EXCEPT ![c] = "threw"]
      /\ UNCHANGED <<queue, life, up, result>>
  BY DEF OpenFails, Goes
<1>2. CallTypes' /\ \A e : Due(e)' <=> Due(e)
  BY <1>1 DEF TInv, CallTypes, Final, Due, StartedEvent, CompletedEvent
<1>3. QueueTells'
  BY <1>1, <1>2 DEF TInv, Waits, QueueTells
<1>4. faults' # 0
  BY DEF IInv, LogTypes, OpenFails
<1>5. QED
  BY <1>1, <1>2, <1>3, <1>4 DEF TInv, Waits, Tells

LEMMA TellsStep == IInv /\ TInv /\ [Next /\ InBudget']_vars => TInv'
<1> SUFFICES ASSUME IInv, TInv, [Next /\ InBudget']_vars
             PROVE  TInv'
  OBVIOUS
<1>1. faults \in Nat
  BY DEF IInv, LogTypes
<1>2. CASE LogSteps
  <2>1. ASSUME NEW e \in ToSet(queue), BeginAppend(e)
        PROVE  TInv'
    <3>1. UNCHANGED <<file, queue, life, up, pc, result>> /\ (faults' = 0 => faults = 0)
      BY <1>1, <2>1 DEF BeginAppend, Log!BeginAppend, callVars
    <3>2. QED
      BY <3>1, TellsQuiet
  <2>2. QED
    BY <1>2, <2>1, TellsEndAppend, TellsFailAppend DEF LogSteps
<1>3. ASSUME NEW c \in Call, Step(c)
      PROVE  TInv'
  <2>1. CASE Announce(c)
    BY <2>1, CallStep DEF Announce, Goes, Log!Enqueue, Underway
  <2>2. CASE Open(c)
    BY <2>2, CallStep DEF Open, Goes, Underway
  <2>3. ASSUME NEW s \in Status, SessionEnds(c, s)
        PROVE  TInv'
    BY <2>3, CallStep DEF SessionEnds, Report, Goes, Log!Enqueue, Underway
  <2>4. \A reason \in EndReason : StatusOf(c, reason) \in Status
    BY DEF StatusOf, Status
  <2>5. CASE OpenAborted(c)
    <3>1. StatusOf(c, "aborted") \in Status
      BY <2>4 DEF EndReason
    <3>2. QED
      BY <2>5, <3>1, CallStep DEF OpenAborted, Report, Goes, Log!Enqueue, Underway
  <2>6. CASE OpenFails(c)
    BY <2>6, TellsOpenFails
  <2>7. CASE AgentReturns(c)
    <3>1. PICK payload \in Payload :
            SessionEnds(c, IF Kind[c] = "leaf" THEN "PASS" ELSE payload)
      BY <2>7 DEF AgentReturns
    <3>2. (IF Kind[c] = "leaf" THEN "PASS" ELSE payload) \in Status
      BY CallAssumption DEF Status
    <3>3. QED
      BY <2>3, <3>1, <3>2
  <2>8. CASE AgentEnds(c) \/ PromptFails(c) \/ Timeout(c) \/ SettleAborted(c)
    BY <2>3, <2>4, <2>8 DEF AgentEnds, PromptFails, Timeout, SettleAborted, EndReason
  <2>9. CASE Activity(c) \/ ToolEnds(c) \/ Output(c)
    BY <2>9, TellsQuiet DEF Activity, ToolEnds, Output, logVars, callVars
  <2>10. QED
    BY <1>3, <2>1, <2>2, <2>5, <2>6, <2>7, <2>8, <2>9 DEF Step
<1>4. CASE Abort \/ TimerFires \/ Stop \/ Done \/ UNCHANGED vars
  BY <1>4, TellsQuiet DEF Abort, TimerFires, Stop, Done, vars, logVars, callVars
<1>5. QED
  BY <1>2, <1>3, <1>4, TellsBegin, TellsCrash DEF Next

\* What is on file once counts one, what is not counts none.
LEMMA LoggedCounts ==
  ASSUME NEW e
  PROVE  /\ ~OnFile(e) => Logged(e) = 0
         /\ OnFile(e) /\ (\A i, j \in DOMAIN file :
              file[i] # Torn /\ file[j] # Torn /\ file[i].event = e /\ file[j].event = e => i = j)
            => Logged(e) = 1
<1> DEFINE P == {i \in DOMAIN file : file[i] # Torn /\ file[i].event = e}
<1>1. ~OnFile(e) => P = {}
  BY DEF OnFile
<1>2. ASSUME OnFile(e),
             \A i, j \in DOMAIN file :
               file[i] # Torn /\ file[j] # Torn /\ file[i].event = e /\ file[j].event = e => i = j
      PROVE  \E i : P = {i}
  BY <1>2 DEF OnFile
<1>3. Cardinality({}) = 0 /\ \A i : Cardinality({i}) = 1
  BY FS_EmptySet, FS_Singleton
<1>4. QED
  BY <1>1, <1>2, <1>3 DEF Logged

\* Without faults the log has one start of each dispatch that has opened and one
\* report, with its status, of each that has returned, and no other, however
\* many run at once and whatever ends them: LogMatchesCalls.
THEOREM LogTellsOfCalls == Spec => []LogMatchesCalls
<1>1. Init => TInv
  BY TellsInit
<1>2. IInv /\ TInv => LogMatchesCalls
  <2> SUFFICES ASSUME IInv, TInv, up, faults = 0, NEW c \in Call
               PROVE  /\ Logged(StartedEvent(c)) = IF pc[c] \in {"idle", "announcing"} THEN 0 ELSE 1
                      /\ \A s \in Status : Logged(CompletedEvent(c, s)) =
                           IF pc[c] = "returned" /\ result[c] = s THEN 1 ELSE 0
    BY DEF LogMatchesCalls
  <2>1. FileTells
    BY DEF TInv, Tells
  <2>2. ASSUME NEW e, e.life = life
        PROVE  /\ OnFile(e) => Past(e) /\ Logged(e) = 1
               /\ ~OnFile(e) => Logged(e) = 0
    BY <2>1, <2>2, LoggedCounts DEF FileTells, OnFile
  <2>3. ASSUME pc[c] \in {"idle", "announcing"}
        PROVE  ~Past(StartedEvent(c))
    BY <2>3, EventsDiffer DEF Past
  <2>4. Logged(StartedEvent(c)) = IF pc[c] \in {"idle", "announcing"} THEN 0 ELSE 1
    BY <2>1, <2>2, <2>3, EventsDiffer DEF FileTells
  <2>5. ASSUME NEW s \in Status
        PROVE  Logged(CompletedEvent(c, s)) = IF pc[c] = "returned" /\ result[c] = s THEN 1 ELSE 0
    <3>1. Past(CompletedEvent(c, s)) => pc[c] = "returned" /\ result[c] = s
      BY EventsDiffer DEF Past
    <3>2. QED
      BY <2>1, <2>2, <3>1, EventsDiffer DEF FileTells
  <2>6. QED
    BY <2>4, <2>5
<1>3. QED
  BY <1>1, <1>2, TellsStep, Inductive, PTL DEF Spec

\* The queue holds exactly the records that dispatches wait for, each once, for
\* any number of dispatches and whatever fails: QueueIsAwaited.
THEOREM EveryRecordIsQueued == Spec => []QueueIsAwaited
<1>1. Init => TInv
  BY TellsInit
<1>2. IInv /\ TInv => QueueIsAwaited
  <2> SUFFICES ASSUME IInv, TInv, up PROVE QueueIsAwaited
    BY DEF QueueIsAwaited
  <2>1. QueueTells
    BY DEF TInv, Waits
  <2> DEFINE waiting == {c \in Call : pc[c] \in {"announcing", "reporting"}}
  <2>2. \A e : Due(e) <=> e \in {Awaited(c) : c \in waiting}
    BY DEF Due, Awaited
  <2>3. ToSet(queue) = {Awaited(c) : c \in waiting}
    BY <2>1, <2>2 DEF QueueTells, ToSet
  <2>4. IsInjective(queue)
    BY <2>1 DEF QueueTells, IsInjective
  <2>5. QED
    BY <2>3, <2>4 DEF QueueIsAwaited
<1>3. QED
  BY <1>1, <1>2, TellsStep, Inductive, PTL DEF Spec

-----------------------------------------------------------------------------
(* The screen *)

\* The box shows a task that is on the board, the strip is there only when the
\* board is not empty, and no task is twice on it.
ViewOK(v) ==
  /\ v \in View
  /\ IsInjective(v.tasks)
  /\ v.box # None => v.box \in Shown(v)
  /\ v.strip => v.tasks # << >>

LEMMA WithoutOne ==
  ASSUME NEW keys \in Seq(Label), IsInjective(keys), NEW l
  PROVE  /\ Without(keys, l) \in Seq(Label)
         /\ IsInjective(Without(keys, l))
         /\ ToSet(Without(keys, l)) = ToSet(keys) \ {l}
<1> DEFINE rest == Without(keys, l)
<1>1. CASE ~\E n \in DOMAIN keys : keys[n] = l
  BY <1>1 DEF Without, ToSet
<1>2. CASE \E n \in DOMAIN keys : keys[n] = l
  <2> DEFINE at == CHOOSE n \in DOMAIN keys : keys[n] = l
  <2>1. at \in DOMAIN keys /\ keys[at] = l
    BY <1>2
  <2>2. Len(keys) \in Nat /\ DOMAIN keys = 1 .. Len(keys)
    OBVIOUS
  <2>3. rest = [i \in 1 .. Len(keys) - 1 |-> keys[IF i < at THEN i ELSE i + 1]]
    BY <1>2 DEF Without
  <2> HIDE DEF at, rest
  <2>4. \A i \in 1 .. Len(keys) - 1 : (IF i < at THEN i ELSE i + 1) \in DOMAIN keys
    BY <2>1, <2>2
  <2>5. rest \in Seq(Label) /\ DOMAIN rest = 1 .. Len(keys) - 1
    <3>1. Len(keys) - 1 \in Nat
      BY <2>1, <2>2
    <3>2. \A i \in 1 .. Len(keys) - 1 : keys[IF i < at THEN i ELSE i + 1] \in Label
      BY <2>4
    <3>3. QED
      BY <2>3, <3>1, <3>2
  <2>6. \A n, m \in DOMAIN keys : keys[n] = keys[m] => n = m
    BY DEF IsInjective
  <2>7. \A i, j \in DOMAIN rest : rest[i] = rest[j] => i = j
    BY <2>1, <2>2, <2>3, <2>4, <2>5, <2>6
  <2>8. \A i \in DOMAIN rest : rest[i] \in ToSet(keys) \ {l}
    BY <2>1, <2>2, <2>3, <2>4, <2>5, <2>6 DEF ToSet
  <2>9. ASSUME NEW n \in DOMAIN keys, keys[n] # l
        PROVE  keys[n] \in ToSet(rest)
    <3>1. CASE n < at
      <4>1. n \in DOMAIN rest /\ rest[n] = keys[n]
        BY <2>1, <2>2, <2>3, <2>5, <3>1
      <4>2. QED
        BY <4>1 DEF ToSet
    <3>2. CASE n > at
      <4>1. n - 1 \in DOMAIN rest /\ rest[n - 1] = keys[n]
        BY <2>1, <2>2, <2>3, <2>5, <3>2
      <4>2. QED
        BY <4>1 DEF ToSet
    <3>3. QED
      BY <2>1, <2>2, <2>9, <3>1, <3>2
  <2>10. ToSet(rest) = ToSet(keys) \ {l}
    BY <2>8, <2>9 DEF ToSet
  <2>11. QED
    BY <2>5, <2>7, <2>10 DEF IsInjective, rest
<1>3. QED
  BY <1>1, <1>2

LEMMA WithOneMore ==
  ASSUME NEW keys \in Seq(Label), IsInjective(keys), NEW l \in Label, l \notin ToSet(keys)
  PROVE  /\ Append(keys, l) \in Seq(Label)
         /\ IsInjective(Append(keys, l))
         /\ ToSet(Append(keys, l)) = ToSet(keys) \cup {l}
<1> DEFINE more == Append(keys, l)
<1>1. /\ Len(keys) \in Nat /\ DOMAIN keys = 1 .. Len(keys)
      /\ DOMAIN more = 1 .. Len(keys) + 1
      /\ \A i \in 1 .. Len(keys) : more[i] = keys[i]
      /\ more[Len(keys) + 1] = l
  OBVIOUS
<1>2. ToSet(more) = ToSet(keys) \cup {l}
  BY <1>1 DEF ToSet
<1>3. \A i, j \in DOMAIN more : more[i] = more[j] => i = j
  BY <1>1 DEF IsInjective, ToSet
<1>4. QED
  BY <1>2, <1>3 DEF IsInjective

\* What each method of the presenter does to the board.
LEMMA Repainted ==
  ASSUME NEW v \in View, IsInjective(v.tasks)
  PROVE  /\ RepaintBox(v) \in View
         /\ RepaintBox(v).tasks = v.tasks /\ RepaintBox(v).strip = v.strip
         /\ RepaintBox(v).box # None => RepaintBox(v).box \in Shown(v)
         /\ v.tasks # << >> => ViewOK(RepaintAll(v)) /\ RepaintAll(v).tasks = v.tasks
<1>1. /\ RepaintBox(v) \in View
      /\ RepaintBox(v).tasks = v.tasks /\ RepaintBox(v).strip = v.strip
      /\ RepaintBox(v).box # None => RepaintBox(v).box \in Shown(v)
  BY DEF RepaintBox, View
<1>2. /\ RepaintAll(v) \in View
      /\ RepaintAll(v).tasks = v.tasks /\ RepaintAll(v).box = RepaintBox(v).box
  BY <1>1 DEF RepaintAll, View
<1>3. QED
  BY <1>1, <1>2 DEF ViewOK, Shown

LEMMA NewViewOK == ViewOK(NewView) /\ Shown(NewView) = {}
BY DEF ViewOK, NewView, View, Shown, ToSet, IsInjective

LEMMA StartedOK ==
  ASSUME NEW v, ViewOK(v)
  PROVE  /\ ViewOK(Started(v)) /\ Shown(Started(v)) = Shown(v)
         /\ ViewOK(OnDomainEvent(v)) /\ Shown(OnDomainEvent(v)) = Shown(v)
         /\ ViewOK(Stopped(v)) /\ Shown(Stopped(v)) = Shown(v)
<1>1. v \in View
  BY DEF ViewOK
<1>2. /\ Started(v) \in View
      /\ Started(v).tasks = v.tasks /\ Started(v).box = v.box /\ Started(v).strip = v.strip
  BY <1>1 DEF Started, View
<1>3. /\ OnDomainEvent(v) \in View
      /\ OnDomainEvent(v).tasks = v.tasks /\ OnDomainEvent(v).box = v.box
      /\ OnDomainEvent(v).strip = (v.strip \/ v.tasks # << >>)
  BY <1>1 DEF OnDomainEvent, View
<1>4. /\ Stopped(v) \in View
      /\ Stopped(v).tasks = v.tasks /\ Stopped(v).box = None /\ ~Stopped(v).strip
  <2>1. v.timers \in Nat
    BY <1>1 DEF View
  <2>2. PICK t \in Nat : t = IF v.timers > 0 THEN v.timers - 1 ELSE 0
    BY <2>1
  <2>3. Stopped(v) = [v EXCEPT !.timers = t, !.dashboard = FALSE, !.strip = FALSE, !.box = None]
    BY <2>2 DEF Stopped
  <2>4. QED
    BY <1>1, <2>3 DEF View
<1>5. QED
  BY <1>2, <1>3, <1>4 DEF ViewOK, Shown

LEMMA OnSessionStartOK ==
  ASSUME NEW v, ViewOK(v), NEW l \in Label
  PROVE  /\ ViewOK(OnSessionStart(v, l))
         /\ Shown(OnSessionStart(v, l)) = Shown(v) \cup {l}
<1> DEFINE keys == IF l \in Shown(v) THEN v.tasks ELSE Append(v.tasks, l)
           w == [v EXCEPT !.tasks = keys, !.last = l]
<1>1. v \in View /\ v.tasks \in Seq(Label) /\ IsInjective(v.tasks)
  BY DEF ViewOK, View
<1>2. keys \in Seq(Label) /\ IsInjective(keys) /\ ToSet(keys) = Shown(v) \cup {l}
  BY <1>1, WithOneMore DEF Shown
<1>3. OnSessionStart(v, l) = RepaintAll(w)
  BY <1>1 DEF OnSessionStart
<1> HIDE DEF keys
<1>4. w \in View /\ w.tasks = keys
  BY <1>1, <1>2 DEF View
<1>5. keys # << >>
  <2>1. \E i \in DOMAIN keys : keys[i] = l
    BY <1>2 DEF ToSet
  <2>2. QED
    BY <2>1
<1>6. QED
  BY <1>2, <1>3, <1>4, <1>5, Repainted DEF Shown

LEMMA OnActivityOK ==
  ASSUME NEW v, ViewOK(v), NEW l \in Label
  PROVE  /\ ViewOK(OnActivity(v, l)) /\ Shown(OnActivity(v, l)) = Shown(v)
         /\ ViewOK(OnToolEnd(v, l)) /\ Shown(OnToolEnd(v, l)) = Shown(v)
         /\ ViewOK(OnOutput(v, l)) /\ Shown(OnOutput(v, l)) = Shown(v)
<1>1. v \in View /\ IsInjective(v.tasks)
  BY DEF ViewOK
<1>2. CASE l \in Shown(v)
  <2> DEFINE w == [v EXCEPT !.last = l]
  <2>1. w \in View /\ w.tasks = v.tasks
    BY <1>1 DEF View
  <2>2. v.tasks # << >>
    BY <1>2 DEF Shown, ToSet
  <2>3. ViewOK(RepaintAll(w)) /\ RepaintAll(w).tasks = v.tasks
    BY <1>1, <2>1, <2>2, Repainted
  <2>4. OnActivity(v, l) = RepaintAll(w)
    BY <1>2 DEF OnActivity
  <2>5. /\ OnOutput(v, l) \in View /\ OnOutput(v, l).tasks = v.tasks
        /\ OnOutput(v, l).box = v.box /\ OnOutput(v, l).strip = v.strip
    <3>1. v.timers \in Nat
      BY <1>1 DEF View
    <3>2. PICK t \in Nat : t = IF v.pending THEN v.timers ELSE v.timers + 1
      BY <3>1
    <3>3. OnOutput(v, l) = [v EXCEPT !.last = l, !.pending = TRUE, !.timers = t]
      BY <1>2, <3>2 DEF OnOutput
    <3>4. QED
      BY <1>1, <3>3 DEF View
  <2>6. OnToolEnd(v, l) = w /\ w.box = v.box /\ w.strip = v.strip
    BY <1>2 DEF OnToolEnd
  <2>7. QED
    BY <2>1, <2>3, <2>4, <2>5, <2>6 DEF ViewOK, Shown
<1>3. CASE l \notin Shown(v)
  BY <1>3 DEF OnActivity, OnToolEnd, OnOutput
<1>4. QED
  BY <1>2, <1>3

LEMMA OnTimerOK ==
  ASSUME NEW v, ViewOK(v), v.timers > 0
  PROVE  ViewOK(OnTimer(v)) /\ Shown(OnTimer(v)) = Shown(v)
<1> DEFINE w == [v EXCEPT !.pending = FALSE, !.timers = @ - 1]
<1>1. w \in View /\ w.tasks = v.tasks /\ w.strip = v.strip /\ IsInjective(w.tasks)
  <2>1. v \in View /\ v.timers \in Nat
    BY DEF ViewOK, View
  <2>2. PICK t \in Nat : t = v.timers - 1
    BY <2>1
  <2>3. w = [v EXCEPT !.pending = FALSE, !.timers = t]
    BY <2>2
  <2>4. QED
    BY <2>1, <2>3 DEF ViewOK, View
<1>2. OnTimer(v) = RepaintBox(w)
  BY DEF OnTimer
<1> HIDE DEF w
<1>3. QED
  BY <1>1, <1>2, Repainted DEF ViewOK, Shown

LEMMA OnSessionEndOK ==
  ASSUME NEW v, ViewOK(v), NEW l \in Label
  PROVE  /\ ViewOK(OnSessionEnd(v, l))
         /\ Shown(OnSessionEnd(v, l)) = Shown(v) \ {l}
<1> DEFINE rest == Without(v.tasks, l)
           last == IF v.last # l THEN v.last ELSE IF rest = << >> THEN None ELSE Last(rest)
           w == OnSessionEnd(v, l)
<1>1. v \in View /\ v.tasks \in Seq(Label) /\ IsInjective(v.tasks)
  BY DEF ViewOK, View
<1>2. rest \in Seq(Label) /\ IsInjective(rest) /\ ToSet(rest) = Shown(v) \ {l}
  BY <1>1, WithoutOne DEF Shown
<1>3. w = [tasks |-> rest, last |-> last, dashboard |-> TRUE, timers |-> v.timers,
           strip |-> rest # << >>, pending |-> v.pending /\ rest = << >>,
           box |-> IF last \in ToSet(rest) THEN last ELSE None]
  BY DEF OnSessionEnd
<1> HIDE DEF rest
<1>4. last \in Label \cup {None}
  <2>1. rest # << >> => Last(rest) \in Label
    BY <1>2 DEF Last
  <2>2. QED
    BY <1>1, <2>1 DEF View
<1> HIDE DEF last, w
<1>5. (rest # << >>) \in BOOLEAN /\ (v.pending /\ rest = << >>) \in BOOLEAN
  OBVIOUS
<1>6. w \in View
  BY <1>1, <1>2, <1>3, <1>4, <1>5 DEF View
<1>7. w.tasks = rest /\ w.strip = (rest # << >>) /\ (w.box # None => w.box \in ToSet(rest))
  BY <1>3
<1>8. QED
  BY <1>2, <1>6, <1>7 DEF ViewOK, Shown, w

\* Whose session is on the board, and whose must be.
ScreenInv ==
  /\ ViewOK(screen)
  /\ Shown(screen) \subseteq LabelsOf(Running)
  /\ AloneIsShown
  /\ ~up => Running = {}

LEMMA ScreenInit == Init => ScreenInv
<1> SUFFICES ASSUME Init PROVE ScreenInv
  OBVIOUS
<1>1. Running = {} /\ screen = NewView
  BY DEF Init, Running
<1>2. QED
  BY <1>1, NewViewOK DEF ScreenInv, AloneIsShown

\* What is painted says nothing of whose sessions there are.
LEMMA ScreenPainted ==
  ASSUME ScreenInv, ViewOK(screen'), Shown(screen') = Shown(screen), Running' = Running,
         up' = up
  PROVE  ScreenInv'
<1>1. (Shown(screen) \subseteq LabelsOf(Running))'
  BY DEF ScreenInv, LabelsOf, Shown
<1>2. AloneIsShown'
  BY DEF ScreenInv, AloneIsShown, Shown
<1>3. ~up' => Running' = {}
  BY DEF ScreenInv
<1>4. QED
  BY <1>1, <1>2, <1>3 DEF ScreenInv, LabelsOf

\* The turn that ends is that of a dispatch without a session.
LEMMA NoSessionIsDue ==
  ASSUME IInv, TInv, NEW d \in writing, NEW to \in {"opening"} \cup Final,
         pc' = [pc EXCEPT ![d.event.call] = to]
  PROVE  up /\ Running' = Running
<1>1. up /\ queue # << >> /\ d.event = Head(queue)
  BY DEF IInv, OneTurn
<1>2. d.event.call \in Call /\ pc[d.event.call] \in {"announcing", "reporting"}
  BY <1>1, HeadIsDue
<1>3. QED
  BY <1>1, <1>2 DEF Running, Final, TInv, CallTypes

LEMMA ScreenSessionEnds ==
  ASSUME TInv, ScreenInv, NEW c \in Call, NEW s, SessionEnds(c, s)
  PROVE  ScreenInv'
<1>1. /\ pc' = [pc EXCEPT ![c] = "reporting"] /\ pc[c] = "racing" /\ up /\ up' = up
      /\ screen' = OnSessionEnd(screen, LabelOf[c])
  BY DEF SessionEnds, Goes, Report
<1>2. Running' = Running \ {c}
  BY <1>1 DEF Running, TInv, CallTypes
<1>3. LabelOf[c] \in Label
  BY CallAssumption
<1>4. ViewOK(screen') /\ Shown(screen') = Shown(screen) \ {LabelOf[c]}
  BY <1>1, <1>3, OnSessionEndOK DEF ScreenInv
<1>5. Shown(screen') \subseteq LabelsOf(Running')
  BY <1>2, <1>4 DEF ScreenInv, LabelsOf
<1>6. AloneIsShown'
  BY <1>2, <1>4 DEF ScreenInv, AloneIsShown
<1>7. QED
  BY <1>1, <1>4, <1>5, <1>6 DEF ScreenInv, LabelsOf

LEMMA ScreenOpen ==
  ASSUME TInv, ScreenInv, NEW c \in Call, Open(c)
  PROVE  ScreenInv'
<1>1. /\ pc' = [pc EXCEPT ![c] = "racing"] /\ up /\ up' = up
      /\ screen' = OnSessionStart(screen, LabelOf[c])
  BY DEF Open, Goes
<1>2. Running' = Running \cup {c}
  BY <1>1 DEF Running, TInv, CallTypes
<1>3. LabelOf[c] \in Label
  BY CallAssumption
<1>4. ViewOK(screen') /\ Shown(screen') = Shown(screen) \cup {LabelOf[c]}
  BY <1>1, <1>3, OnSessionStartOK DEF ScreenInv
<1>5. Shown(screen') \subseteq LabelsOf(Running')
  BY <1>2, <1>4 DEF ScreenInv, LabelsOf
<1>6. AloneIsShown'
  BY <1>2, <1>4 DEF ScreenInv, AloneIsShown
<1>7. QED
  BY <1>1, <1>4, <1>5, <1>6 DEF ScreenInv, LabelsOf

\* A session that is never prompted takes its label off the board.
LEMMA ScreenOpenAborted ==
  ASSUME TInv, ScreenInv, NEW c \in Call, OpenAborted(c)
  PROVE  ScreenInv'
<1> DEFINE opened == OnSessionStart(screen, LabelOf[c])
<1>1. /\ pc' = [pc EXCEPT ![c] = "reporting"] /\ pc[c] = "opening" /\ up /\ up' = up
      /\ screen' = OnSessionEnd(opened, LabelOf[c])
  BY DEF OpenAborted, Goes, Report
<1>2. Running' = Running /\ c \notin Running
  BY <1>1 DEF Running, TInv, CallTypes
<1>3. LabelOf[c] \in Label
  BY CallAssumption
<1>4. ViewOK(opened) /\ Shown(opened) = Shown(screen) \cup {LabelOf[c]}
  BY <1>3, OnSessionStartOK DEF ScreenInv
<1> HIDE DEF opened
<1>5. ViewOK(screen') /\ Shown(screen') = Shown(screen) \ {LabelOf[c]}
  BY <1>1, <1>3, <1>4, OnSessionEndOK
<1>6. Shown(screen') \subseteq LabelsOf(Running')
  BY <1>2, <1>5 DEF ScreenInv
<1>7. AloneIsShown'
  BY <1>2, <1>5 DEF ScreenInv, AloneIsShown
<1>8. QED
  BY <1>1, <1>5, <1>6, <1>7 DEF ScreenInv, LabelsOf

LEMMA ScreenStep == IInv /\ TInv /\ ScreenInv /\ [Next /\ InBudget']_vars => ScreenInv'
<1> SUFFICES ASSUME IInv, TInv, ScreenInv, [Next /\ InBudget']_vars
             PROVE  ScreenInv'
  OBVIOUS
<1>1. ViewOK(screen) /\ up \in BOOLEAN
  BY DEF IInv, LogTypes, ScreenInv
<1>2. CASE Begin
  <2>1. ~up /\ up' /\ screen' = Started(screen) /\ Running = {} /\ Running' = {}
    BY <1>2 DEF Begin, Running, ScreenInv
  <2>2. QED
    BY <1>1, <2>1, StartedOK DEF ScreenInv, AloneIsShown, LabelsOf
<1>3. CASE LogSteps
  <2>1. ASSUME NEW e \in ToSet(queue), BeginAppend(e)
        PROVE  ScreenInv'
    BY <1>1, <2>1, ScreenPainted DEF BeginAppend, callVars, Running
  <2>2. ASSUME NEW d \in writing, EndAppend(d)
        PROVE  ScreenInv'
    <3>1. PICK to \in {"opening"} \cup Final :
            pc' = [pc EXCEPT ![d.event.call] = to]
      BY <2>2 DEF EndAppend, Final
    <3>2. QED
      BY <1>1, <2>2, <3>1, NoSessionIsDue, ScreenPainted, StartedOK DEF EndAppend
  <2>3. ASSUME NEW d \in writing, FailAppend(d)
        PROVE  ScreenInv'
    BY <1>1, <2>3, NoSessionIsDue, ScreenPainted DEF FailAppend, Final
  <2>4. QED
    BY <1>3, <2>1, <2>2, <2>3 DEF LogSteps
<1>4. ASSUME NEW c \in Call, Step(c)
      PROVE  ScreenInv'
  <2>1. LabelOf[c] \in Label
    BY CallAssumption
  <2>2. CASE Announce(c) \/ OpenFails(c)
    <3>1. Running' = Running /\ up' = up /\ screen' = screen
      BY <2>2 DEF Announce, OpenFails, Goes, Running, TInv, CallTypes
    <3>2. QED
      BY <1>1, <3>1, ScreenPainted
  <2>3. CASE AgentReturns(c) \/ AgentEnds(c) \/ PromptFails(c) \/ Timeout(c) \/ SettleAborted(c)
    <3>1. \E s : SessionEnds(c, s)
      BY <2>3 DEF AgentReturns, AgentEnds, PromptFails, Timeout, SettleAborted
    <3>2. QED
      BY <3>1, ScreenSessionEnds
  <2>4. CASE Activity(c) \/ ToolEnds(c) \/ Output(c)
    <3>1. /\ Running' = Running /\ up' = up
          /\ screen' \in {OnActivity(screen, LabelOf[c]), OnToolEnd(screen, LabelOf[c]),
                          OnOutput(screen, LabelOf[c])}
      BY <2>4 DEF Activity, ToolEnds, Output, callVars, Running
    <3>2. QED
      BY <1>1, <2>1, <3>1, OnActivityOK, ScreenPainted
  <2>5. QED
    BY <1>4, <2>2, <2>3, <2>4, ScreenOpen, ScreenOpenAborted DEF Step
<1>5. CASE Stop
  BY <1>1, <1>5, StartedOK, ScreenPainted DEF Stop, Running
<1>6. CASE TimerFires
  BY <1>1, <1>6, OnTimerOK, ScreenPainted DEF TimerFires, callVars, Running
<1>7. CASE Crash
  <2>1. Running' = {} /\ screen' = NewView
    BY <1>7 DEF Crash, Running
  <2>2. QED
    BY <2>1, NewViewOK DEF ScreenInv, AloneIsShown
<1>8. CASE Abort \/ Done \/ UNCHANGED vars
  <2>1. UNCHANGED <<screen, pc, up>>
    BY <1>8 DEF Abort, Done, vars, callVars
  <2>2. QED
    BY <1>1, <2>1, ScreenPainted DEF Running
<1>9. QED
  BY <1>2, <1>3, <1>4, <1>5, <1>6, <1>7, <1>8 DEF Next

LEMMA ScreenInductive == Spec => [](IInv /\ TInv /\ ScreenInv)
<1>1. Init => IInv /\ TInv /\ ScreenInv
  BY InitInv, TellsInit, ScreenInit
<1>2. IInv /\ TInv /\ ScreenInv /\ [Next /\ InBudget']_vars => (IInv /\ TInv /\ ScreenInv)'
  BY StepInv, TellsStep, ScreenStep
<1>3. QED
  BY <1>1, <1>2, PTL DEF Spec

\* Nothing is on the screen of a session that has ended, however many sessions
\* share a label and whichever timer, record or end comes late: NothingStale.
THEOREM NothingStaleHolds == Spec => []NothingStale
<1>1. ScreenInv => NothingStale
  <2> SUFFICES ASSUME ScreenInv PROVE NothingStale
    OBVIOUS
  <2>1. /\ Shown(screen) \subseteq LabelsOf(Running)
        /\ screen.box # None => screen.box \in Shown(screen)
    BY DEF ScreenInv, ViewOK
  <2>2. ASSUME screen.strip PROVE Running # {}
    <3>1. screen.tasks # << >> /\ screen.tasks \in Seq(Label)
      BY <2>2 DEF ScreenInv, ViewOK, View
    <3>2. 1 \in DOMAIN screen.tasks
      BY <3>1
    <3>3. screen.tasks[1] \in LabelsOf(Running)
      BY <2>1, <3>2 DEF Shown, ToSet
    <3>4. QED
      BY <3>3 DEF LabelsOf
  <2>3. QED
    BY <2>1, <2>2 DEF NothingStale
<1>2. QED
  BY <1>1, ScreenInductive, PTL

\* A session that shares its label with no other is on the board while it runs:
\* AloneIsShown.
THEOREM AloneIsShownHolds == Spec => []AloneIsShown
<1>1. ScreenInv => AloneIsShown
  BY DEF ScreenInv
<1>2. QED
  BY <1>1, ScreenInductive, PTL

-----------------------------------------------------------------------------
(* The types *)

\* What goes wrong stays within its bounds.
Budgets ==
  /\ faults \in 0 .. MaxFaults
  /\ life \in 0 .. MaxMishaps
  /\ aborted \in BOOLEAN /\ stopped \in BOOLEAN

LEMMA BudgetsStep == IInv /\ Budgets /\ [Next /\ InBudget']_vars => Budgets'
<1> SUFFICES ASSUME IInv, Budgets, [Next /\ InBudget']_vars
             PROVE  Budgets'
  OBVIOUS
<1> USE BoundsAssumption DEF Budgets
<1>1. faults \in Nat /\ life \in Nat
  BY DEF IInv, LogTypes
<1> DEFINE Fails == faults' = faults \/ (faults < MaxFaults /\ faults' = faults + 1)
<1>2. CASE Crash
  <2>1. life' = life + 1 /\ faults' = faults /\ InBudget' /\ aborted' = FALSE /\ stopped' = FALSE
    BY <1>2 DEF Crash, Log!CutOff, vars, callVars
  <2>2. faults' + life' <= MaxMishaps
    BY <2>1 DEF InBudget
  <2>3. faults' \in 0 .. MaxFaults /\ life' \in 0 .. MaxMishaps
    BY <1>1, <2>1, <2>2
  <2>4. aborted' \in BOOLEAN /\ stopped' \in BOOLEAN
    BY <2>1
  <2>5. QED
    BY <2>3, <2>4
<1>3. CASE Begin
  BY <1>1, <1>3 DEF Begin, Log!Initialize
<1>4. CASE LogSteps
  <2>1. /\ \A e : BeginAppend(e) => Fails /\ UNCHANGED <<life, aborted, stopped>>
        /\ \A d : EndAppend(d) => Fails /\ UNCHANGED <<life, aborted, stopped>>
        /\ \A d : FailAppend(d) => Fails /\ UNCHANGED <<life, aborted, stopped>>
    BY DEF BeginAppend, EndAppend, FailAppend, Log!BeginAppend, Log!EndAppend, Log!FailAppend, callVars
  <2>2. QED
    BY <1>1, <1>4, <2>1 DEF LogSteps
<1>5. ASSUME NEW c \in Call, Step(c)
      PROVE  Budgets'
  <2>1. /\ \A s : SessionEnds(c, s) => UNCHANGED <<faults, life, aborted, stopped>>
        /\ Announce(c) => UNCHANGED <<faults, life, aborted, stopped>>
        /\ Open(c) => UNCHANGED <<faults, life, aborted, stopped>>
        /\ OpenAborted(c) => UNCHANGED <<faults, life, aborted, stopped>>
        /\ OpenFails(c) => Fails /\ UNCHANGED <<life, aborted, stopped>>
        /\ Activity(c) \/ ToolEnds(c) \/ Output(c) => UNCHANGED <<faults, life, aborted, stopped>>
    BY DEF SessionEnds, Report, Announce, Open, OpenAborted, OpenFails, Activity, ToolEnds, Output, logVars, callVars
  <2>2. Fails /\ UNCHANGED <<life, aborted, stopped>>
    BY <1>5, <2>1 DEF Step, AgentReturns, AgentEnds, PromptFails, Timeout, SettleAborted
  <2>3. QED
    BY <1>1, <2>2
<1>6. CASE Abort \/ TimerFires \/ Stop \/ Done \/ UNCHANGED vars
  BY <1>6 DEF Abort, TimerFires, Stop, Done, vars, logVars, callVars
<1>7. QED
  BY <1>2, <1>3, <1>4, <1>5, <1>6 DEF Next

\* Every variable keeps its type, and what goes wrong its bound: TypeOK.
THEOREM TypeCorrect == Spec => []TypeOK
<1>1. Init => Budgets
  <2>1. Init => aborted \in BOOLEAN /\ stopped \in BOOLEAN
    BY DEF Init
  <2>2. Init => faults \in 0 .. MaxFaults /\ life \in 0 .. MaxMishaps
    BY BoundsAssumption DEF Init, Log!EmptyLog
  <2>3. QED
    BY <2>1, <2>2 DEF Budgets
<1>2. IInv /\ TInv /\ ScreenInv /\ Budgets => TypeOK
  BY DEF IInv, LogTypes, Lines, TInv, CallTypes, ScreenInv, ViewOK, Budgets, TypeOK
<1>3. QED
  BY <1>1, <1>2, BudgetsStep, ScreenInductive, PTL DEF Spec
=============================================================================
