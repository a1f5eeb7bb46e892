------------------------- MODULE DisplayQueue_proofs -------------------------
(***************************************************************************)
(* Proofs about DisplayQueue, for queues and frames of every size: types,  *)
(* that the queue is a FIFO for the two programs that take turns, the SID  *)
(* kernels with an OLED and the EasyFlash kernel's slide show, and that    *)
(* with an ST7789 one race alone can bring it out of order.                *)
(***************************************************************************)
EXTENDS DisplayQueue, TLAPS

(***************************************************************************)
(* Types.  left counts down to 0 only because a drawing operation that has *)
(* begun has something to put in, and sent stays within the frame because  *)
(* what is left belongs to it.                                             *)
(***************************************************************************)
DrawingCounts ==
    pc # "loop" => left > 0 /\ (display = "oled" => sent + left <= Frame)

TypedInv == TypeOK /\ DrawingCounts

LEMMA TypedInit == Init => TypedInv
BY SizesAssumption DEF Init, TypedInv, TypeOK, DrawingCounts, Entries

LEMMA TypedStep == TypedInv /\ [Next]_vars => TypedInv'
<1> SUFFICES ASSUME TypedInv, [Next]_vars PROVE TypedInv'
  OBVIOUS
<1> USE SizesAssumption DEF TypedInv, TypeOK, DrawingCounts, Entries, ring, drawing, Drawing
<1>1. CASE Collect
  BY <1>1 DEF Collect
<1>2. CASE StartFrame
  BY <1>2 DEF StartFrame
<1>3. CASE SendNext
  BY <1>3 DEF SendNext
<1>4. CASE FrameSent
  BY <1>4 DEF FrameSent
<1>5. CASE Draw
  BY <1>5, UsersAssumption DEF Draw
<1>6. CASE LoadCur
  BY <1>6 DEF LoadCur
<1>7. CASE WriteCell
  BY <1>7 DEF WriteCell
<1>8. CASE StoreCur
  BY <1>8 DEF StoreCur, Succ
<1>9. CASE Reset
  BY <1>9 DEF Reset
<1>10. CASE TakeCommand
  BY <1>10 DEF TakeCommand, Succ
<1>11. CASE NothingQueued
  BY <1>11 DEF NothingQueued
<1>12. CASE UNCHANGED vars
  BY <1>12 DEF vars
<1> QED
  BY <1>1, <1>2, <1>3, <1>4, <1>5, <1>6, <1>7, <1>8, <1>9, <1>10, <1>11, <1>12
     DEF Next, Program, Handler

\* Every counter of the queue stays within the buffer, whoever uses it
\* (latch.h: the counters are masked with the size of the buffer).
THEOREM DisplayTypeCorrect == Spec => []TypeOK
<1>1. TypedInv => TypeOK
  BY DEF TypedInv
<1> QED
  BY <1>1, TypedInit, TypedStep, PTL DEF Spec

(***************************************************************************)
(* The queue is a FIFO as long as no handler sets the counters to 0 in the *)
(* middle of a put (Uncut), and where the two sides take turns none does.  *)
(* The entries between the counters hold the commands that wait, in order; *)
(* a put works on the current counter; and there is always room, because a *)
(* frame or a column is smaller than the buffer and starts when it is      *)
(* empty, and the drawing on an ST7789 waits for as much as it needs.      *)
(***************************************************************************)
\* The entry i places behind the one the handler takes next
At(i) == IF last + i >= Size THEN last + i - Size ELSE last + i

QueueHolds ==
    /\ got <= put /\ put - got < Size
    /\ cur = At(put - got)
    /\ \A i \in 0 .. Size - 1 : i < put - got => cell[At(i)] = got + 1 + i

PutIsCurrent ==
    /\ pc \in {"write", "store"} => reg = cur
    /\ pc = "store" => cell[reg] = put + 1

OledTurns ==
    display = "oled" =>
        /\ pc # "loop" => renderDone = 2
        /\ fiq = "more" => renderDone = 3
        /\ renderDone = 2 => put <= got + sent

SlideTurns ==
    display = "slides" =>
        /\ renderDone = 0
        /\ pc # "loop" => (fiq = "idle" /\ put - got + left <= Batch)

TftRoom ==
    display = "tft" =>
        /\ renderDone = 0
        /\ pc # "loop" => put - got + left < Size

Turns == OledTurns /\ SlideTurns /\ TftRoom

FifoInv == TypedInv /\ QueueHolds /\ PutIsCurrent /\ Turns

\* The handler does not find the queue empty between the load of a counter and
\* its store
Uncut == NothingQueued => pc \notin {"write", "store"}

\* What is drawn at once on an ST7789 fits in the room it waits for: two points of
\* the oscilloscope are 684 commands at most, a dirty region 846 (tft_st7789.cpp,
\* up to three for a bit), and Slack is 1024 (tft_sid_vis.h)
TftFits == "tft" \in Users => Batch <= Slack + 1

LEMMA FifoInit == Init => FifoInv
<1> SUFFICES ASSUME Init PROVE FifoInv
  OBVIOUS
<1>1. TypedInv
  BY TypedInit
<1>2. QueueHolds
  BY SizesAssumption DEF Init, QueueHolds, At
<1>3. PutIsCurrent /\ Turns
  BY SizesAssumption DEF Init, PutIsCurrent, Turns, OledTurns, SlideTurns, TftRoom
<1> QED
  BY <1>1, <1>2, <1>3 DEF FifoInv

\* An empty queue is one in which nothing waits
LEMMA EmptyMeansNone == TypedInv /\ QueueHolds => (Empty <=> put = got)
BY SizesAssumption DEF TypedInv, TypeOK, QueueHolds, At, Empty, Entries

\* The command the handler takes is the next one
LEMMA TakesTheNext == TypedInv /\ QueueHolds /\ ~Empty => cell[last] = got + 1
<1> SUFFICES ASSUME TypedInv, QueueHolds, ~Empty PROVE cell[last] = got + 1
  OBVIOUS
<1>1. 0 < put - got /\ 0 \in 0 .. Size - 1
  BY SizesAssumption, EmptyMeansNone DEF TypedInv, TypeOK, QueueHolds
<1>2. cell[At(0)] = got + 1 + 0
  BY <1>1 DEF QueueHolds
<1>3. At(0) = last
  BY SizesAssumption DEF TypedInv, TypeOK, At, Entries
<1> QED
  BY <1>2, <1>3 DEF TypedInv, TypeOK

\* The handler does not run while a put is under way
LEMMA HandlerKeepsOff ==
    display # "tft" /\ Turns /\ TypedInv /\ Sends => pc = "loop"
BY UsersAssumption DEF Turns, OledTurns, SlideTurns, Sends, TypedInv, TypeOK

\* What waits is what the code counts as free
LEMMA FreeMeansRoom == TypedInv /\ QueueHolds => Free = Size - 1 - (put - got)
BY SizesAssumption DEF TypedInv, TypeOK, QueueHolds, At, Free, Queued, Entries

LEMMA FifoStutter == FifoInv /\ UNCHANGED vars => FifoInv'
<1> SUFFICES ASSUME FifoInv, UNCHANGED vars PROVE FifoInv'
  OBVIOUS
<1>1. TypedInv'
  BY TypedStep DEF FifoInv
<1>2. QueueHolds' /\ PutIsCurrent' /\ Turns'
  BY DEF FifoInv, vars, ring, drawing, QueueHolds, At, PutIsCurrent, Turns, OledTurns,
         SlideTurns, TftRoom
<1> QED
  BY <1>1, <1>2 DEF FifoInv

LEMMA FifoStep == TftFits /\ Uncut /\ FifoInv /\ [Next]_vars => FifoInv'
<1> SUFFICES ASSUME TftFits, Uncut, FifoInv, [Next]_vars PROVE FifoInv'
  OBVIOUS
<1>0. TypedInv'
  BY TypedStep DEF FifoInv
<1> USE SizesAssumption
<1>1. ASSUME UNCHANGED <<ring, put, got>> PROVE QueueHolds'
  BY <1>1 DEF FifoInv, QueueHolds, At, ring
<1>2. CASE Collect \/ StartFrame \/ FrameSent
  <2>1. QueueHolds'
    BY <1>1, <1>2 DEF Collect, StartFrame, FrameSent
  <2>2. pc' = "loop" /\ fiq' = "idle"
    BY <1>2 DEF Collect, StartFrame, FrameSent, Drawing, drawing
  <2>3. PutIsCurrent' /\ SlideTurns'
    BY <1>2, <2>2 DEF FifoInv, Collect, StartFrame, FrameSent, PutIsCurrent, Turns, SlideTurns
  <2>4. renderDone' = 2 => put' = got'
    BY <1>2, EmptyMeansNone DEF FifoInv, TypedInv, TypeOK, Collect, StartFrame, FrameSent
  <2>5. got' \in Nat /\ sent' \in Nat
    BY <1>0, SizesAssumption DEF TypedInv, TypeOK
  <2>6. got' <= got' + sent'
    <3>1. \A a, b \in Nat : a <= a + b
      OBVIOUS
    <3> QED
      BY <3>1, <2>5
  <2>7. renderDone' = 2 => put' <= got' + sent'
    BY <2>4, <2>6
  <2>8. OledTurns'
    BY <2>2, <2>7 DEF OledTurns
  <2>9. TftRoom'
    BY <1>2, <2>2 DEF FifoInv, Turns, Collect, StartFrame, FrameSent, TftRoom
  <2> QED
    BY <1>0, <2>1, <2>3, <2>8, <2>9 DEF FifoInv, Turns
<1>3. CASE SendNext
  <2>1. QueueHolds'
    BY <1>1, <1>3 DEF SendNext
  <2>2. PutIsCurrent' /\ Turns'
    BY <1>3 DEF FifoInv, TypedInv, TypeOK, SendNext, Drawing, PutIsCurrent, Turns, OledTurns, SlideTurns, TftRoom, ring
  <2> QED
    BY <1>0, <2>1, <2>2 DEF FifoInv
<1>4. CASE Draw
  <2>1. QueueHolds'
    BY <1>1, <1>4 DEF Draw
  <2>2. display = "slides" => put = got
    BY <1>4, EmptyMeansNone DEF FifoInv, Draw
  <2>3. PutIsCurrent' /\ OledTurns' /\ SlideTurns'
    BY <1>4, <2>2
       DEF FifoInv, TypedInv, TypeOK, Draw, Drawing, PutIsCurrent, Turns, OledTurns, SlideTurns, ring
  <2>4. TftRoom'
    <3> SUFFICES ASSUME display = "tft" PROVE put - got + left' < Size
      BY <1>4 DEF Draw, FifoInv, Turns, TftRoom
    <3>1. left' \in 1 .. Batch /\ (put = got \/ Slack < Size - 1 - (put - got))
      BY <1>4, EmptyMeansNone, FreeMeansRoom DEF FifoInv, Draw
    <3>2. put \in Nat /\ got \in Nat /\ display \in Users
      BY DEF FifoInv, TypedInv, TypeOK
    <3>3. Batch <= Slack + 1
      BY <3>2 DEF TftFits
    <3>4. \A w, n, b, k, m \in Nat : n <= b /\ b <= k + 1 /\ k < m - 1 - w => w + n < m
      OBVIOUS
    <3>5. Batch \in Nat /\ Slack \in Nat /\ Size \in Nat /\ Batch < Size
      OBVIOUS
    <3>6. CASE put = got
      <4>1. \A p \in Nat : p - p = 0
        OBVIOUS
      <4>2. left' \in Nat /\ left' < Size
        BY <3>1, <3>5
      <4>3. \A n \in Nat : 0 + n = n
        OBVIOUS
      <4> QED
        BY <3>2, <3>6, <4>1, <4>2, <4>3, Zenon
    <3>7. CASE Slack < Size - 1 - (put - got)
      <4>1. put - got \in Nat
        BY <3>2 DEF FifoInv, QueueHolds
      <4>2. left' \in Nat /\ left' <= Batch
        BY <3>1, <3>5
      <4> QED
        BY <3>3, <3>4, <3>5, <3>7, <4>1, <4>2
    <3> QED
      BY <3>1, <3>6, <3>7
  <2> QED
    BY <1>0, <2>1, <2>3, <2>4 DEF FifoInv, Turns
<1>5. CASE LoadCur
  <2>1. QueueHolds'
    BY <1>1, <1>5 DEF LoadCur
  <2>2. PutIsCurrent' /\ Turns'
    BY <1>5 DEF FifoInv, LoadCur, Drawing, PutIsCurrent, Turns, OledTurns, SlideTurns, TftRoom, ring
  <2> QED
    BY <1>0, <2>1, <2>2 DEF FifoInv
<1>6. CASE WriteCell
  <2>1. reg = cur /\ pc' = "store" /\ cell' = [cell EXCEPT ![cur] = put + 1]
    BY <1>6 DEF FifoInv, WriteCell, Drawing, PutIsCurrent
  <2>2. ASSUME NEW i \in 0 .. Size - 1, i < put - got PROVE At(i) # cur
    BY <2>2 DEF FifoInv, TypedInv, TypeOK, Entries, QueueHolds, At
  <2>3. QueueHolds'
    <3>1. (got <= put /\ put - got < Size /\ cur = At(put - got))'
      BY <1>6 DEF FifoInv, WriteCell, QueueHolds, At
    <3>2. ASSUME NEW i \in 0 .. Size - 1, i < put' - got'
          PROVE (cell[At(i)])' = got' + 1 + i
      <4>1. i < put - got /\ put' = put /\ got' = got /\ last' = last
        BY <3>2, <1>6 DEF WriteCell
      <4>2. At(i)' = At(i) /\ At(i) \in Entries
        BY <4>1 DEF At, FifoInv, TypedInv, TypeOK, Entries
      <4>3. cell'[At(i)] = cell[At(i)]
        BY <4>1, <4>2, <2>1, <2>2 DEF FifoInv, TypedInv, TypeOK
      <4>4. cell[At(i)] = got + 1 + i
        BY <4>1 DEF FifoInv, QueueHolds
      <4> QED
        BY <4>1, <4>2, <4>3, <4>4
    <3> QED
      BY <3>1, <3>2 DEF QueueHolds
  <2>4. PutIsCurrent' /\ Turns'
    BY <1>6, <2>1 DEF FifoInv, TypedInv, TypeOK, Entries, WriteCell, Drawing,
          PutIsCurrent, Turns, OledTurns, SlideTurns, TftRoom
  <2> QED
    BY <1>0, <2>3, <2>4 DEF FifoInv
<1>7. CASE StoreCur
  <2>1. reg = cur /\ cell[cur] = put + 1 /\ pc = "store"
    BY <1>7 DEF FifoInv, StoreCur, Drawing, PutIsCurrent
  <2>2. put - got + 1 < Size
    BY <1>7, UsersAssumption DEF FifoInv, TypedInv, TypeOK, DrawingCounts, StoreCur, Drawing,
          Turns, OledTurns, SlideTurns, TftRoom
  <2>3. QueueHolds'
    <3>1. (got <= put /\ put - got < Size /\ cur = At(put - got))'
      BY <1>7, <2>1, <2>2 DEF FifoInv, TypedInv, TypeOK, Entries, StoreCur, QueueHolds, At, Succ
    <3>2. ASSUME NEW i \in 0 .. Size - 1, i < put' - got'
          PROVE (cell[At(i)])' = got' + 1 + i
      <4>1. At(i)' = At(i) /\ cell' = cell /\ got' = got /\ put' = put + 1
        BY <1>7 DEF StoreCur, At
      <4>2. CASE i < put - got
        BY <4>1, <4>2 DEF FifoInv, QueueHolds
      <4>3. CASE i = put - got
        BY <4>1, <4>3, <2>1 DEF FifoInv, QueueHolds, TypedInv, TypeOK
      <4> QED
        BY <4>1, <4>2, <4>3, <3>2 DEF FifoInv, TypedInv, TypeOK
    <3> QED
      BY <3>1, <3>2 DEF QueueHolds
  <2>4. PutIsCurrent' /\ Turns'
    BY <1>7, <2>1 DEF FifoInv, TypedInv, TypeOK, StoreCur, Drawing, PutIsCurrent, Turns, OledTurns, SlideTurns, TftRoom
  <2> QED
    BY <1>0, <2>3, <2>4 DEF FifoInv
<1>8. CASE Reset
  <2>1. QueueHolds'
    BY <1>8 DEF FifoInv, TypedInv, TypeOK, Reset, QueueHolds, At
  <2>2. PutIsCurrent' /\ Turns'
    BY <1>8 DEF FifoInv, TypedInv, TypeOK, Reset, Drawing, drawing, PutIsCurrent, Turns, OledTurns, SlideTurns, TftRoom
  <2> QED
    BY <1>0, <2>1, <2>2 DEF FifoInv
<1>9. CASE TakeCommand
  <2>1. got' = got + 1 /\ put # got /\ (display # "tft" => pc = "loop")
    BY <1>9, HandlerKeepsOff, TakesTheNext, EmptyMeansNone DEF FifoInv, TakeCommand
  <2>2. QueueHolds'
    <3>1. (got <= put /\ put - got < Size /\ cur = At(put - got))'
      BY <1>9, <2>1 DEF FifoInv, TypedInv, TypeOK, Entries, TakeCommand, QueueHolds, At, Succ
    <3>2. ASSUME NEW i \in 0 .. Size - 1, i < put' - got'
          PROVE (cell[At(i)])' = got' + 1 + i
      <4>1. i + 1 \in 0 .. Size - 1 /\ i + 1 < put - got
        BY <3>2, <2>1, <1>9 DEF FifoInv, TypedInv, TypeOK, TakeCommand, QueueHolds
      <4>2. At(i)' = At(i + 1)
        BY <3>2, <1>9 DEF FifoInv, TypedInv, TypeOK, Entries, TakeCommand, At, Succ
      <4>3. cell[At(i + 1)] = got + 1 + (i + 1)
        BY <4>1 DEF FifoInv, QueueHolds
      <4> QED
        BY <4>2, <4>3, <2>1, <1>9 DEF FifoInv, TypedInv, TypeOK, TakeCommand
    <3> QED
      BY <3>1, <3>2 DEF QueueHolds
  <2>3. PutIsCurrent'
    BY <1>9 DEF FifoInv, TakeCommand, drawing, PutIsCurrent
  <2>4. UNCHANGED drawing /\ (display = "oled" => renderDone = 3)
    BY <1>9 DEF FifoInv, Turns, OledTurns, TakeCommand, Sends
  <2>5. OledTurns' /\ SlideTurns'
    BY <1>9, <2>1, <2>4 DEF FifoInv, TypedInv, TypeOK, TakeCommand, drawing,
          Turns, OledTurns, SlideTurns
  <2>6. TftRoom'
    BY <1>9, <2>1, <2>4 DEF FifoInv, TypedInv, TypeOK, TakeCommand, drawing, Turns, TftRoom
  <2> QED
    BY <1>0, <2>2, <2>3, <2>5, <2>6 DEF FifoInv, Turns
<1>10. CASE NothingQueued
  <2>1. put = got /\ pc \notin {"write", "store"} /\ (display # "tft" => pc = "loop")
    BY <1>10, HandlerKeepsOff, EmptyMeansNone DEF FifoInv, NothingQueued, Uncut
  <2>2. QueueHolds'
    BY <1>10, <2>1 DEF FifoInv, TypedInv, TypeOK, NothingQueued, QueueHolds, At
  <2>3. PutIsCurrent' /\ Turns'
    BY <1>10, <2>1 DEF FifoInv, TypedInv, TypeOK, NothingQueued, drawing, PutIsCurrent, Turns, OledTurns, SlideTurns, TftRoom
  <2> QED
    BY <1>0, <2>2, <2>3 DEF FifoInv
<1>11. CASE UNCHANGED vars
  BY <1>11, FifoStutter
<1> QED
  BY <1>2, <1>3, <1>4, <1>5, <1>6, <1>7, <1>8, <1>9, <1>10, <1>11
     DEF Next, Program, Handler

\* Every step of the queue is a step of the FIFO, or changes neither count
LEMMA StepImplementsFifo ==
    FifoInv /\ [Next]_vars => [Fifo!Next]_(Fifo!vars)
<1> SUFFICES ASSUME FifoInv, [Next]_vars
             PROVE  [Fifo!Next]_(Fifo!vars)
  OBVIOUS
<1> USE DEF Fifo!Next, Fifo!vars
<1>1. CASE Collect \/ StartFrame \/ SendNext \/ FrameSent \/ Draw \/ LoadCur \/ WriteCell
  BY <1>1 DEF Collect, StartFrame, SendNext, FrameSent, Draw, LoadCur, WriteCell
<1>2. CASE StoreCur
  BY <1>2 DEF StoreCur, Fifo!Put
<1>3. CASE Reset
  BY <1>3 DEF Reset, Fifo!Clear
<1>4. CASE TakeCommand
  <2>1. got' = got + 1 /\ put # got
    BY <1>4, TakesTheNext, EmptyMeansNone DEF FifoInv, TakeCommand
  <2> QED
    BY <1>4, <2>1 DEF FifoInv, TypedInv, TypeOK, QueueHolds, TakeCommand, Fifo!Get
<1>5. CASE NothingQueued
  BY <1>5 DEF NothingQueued
<1>6. CASE UNCHANGED vars
  BY <1>6 DEF vars
<1> QED
  BY <1>1, <1>2, <1>3, <1>4, <1>5, <1>6 DEF Next, Program, Handler

LEMMA TurnsAreUncut == "tft" \notin Users /\ FifoInv => Uncut
BY HandlerKeepsOff DEF FifoInv, TypedInv, TypeOK, Uncut, NothingQueued

\* For each of its users, also the ST7789 of the SID kernels: if the ring buffer
\* of latch.h ever gets out of order, then because the handler has found it empty
\* and set both counters to 0 (latch.h:308) between the load and the store of a
\* put.  Nothing else, not the drawing while the handler sends, does it.
THEOREM OneRaceBreaksFifo ==
    ASSUME TftFits
    PROVE  Spec /\ [][Uncut]_vars => InOrder
<1>1. Init => Fifo!Init
  BY DEF Init, Fifo!Init
<1>2. FifoInv /\ [Next]_vars /\ [Uncut]_vars => FifoInv'
  BY FifoStep, FifoStutter
<1> QED
  BY <1>1, <1>2, FifoInit, StepImplementsFifo, PTL DEF Spec, InOrder, Fifo!Spec

\* The ring buffer of latch.h hands over every command once and in order in
\* the SID kernels with an OLED and in the EasyFlash kernel's slide show,
\* resets of the C64 included, whatever the size of buffer, frame and batch.
THEOREM QueueIsFifo ==
    ASSUME "tft" \notin Users
    PROVE  Spec => InOrder
<1>1. Init => Fifo!Init
  BY DEF Init, Fifo!Init
<1>2. FifoInv /\ [Next]_vars => FifoInv'
  BY FifoStep, TurnsAreUncut DEF TftFits
<1> QED
  BY <1>1, <1>2, FifoInit, StepImplementsFifo, PTL DEF Spec, InOrder, Fifo!Spec

(***************************************************************************)
(* Turns.  What the handler finds when its turn comes was counted while    *)
(* the main loop put it in: the queue was empty when the frame began, and  *)
(* until the frame is complete it holds as many commands as were sent.     *)
(***************************************************************************)
FrameCounted ==
    display = "oled" /\ resets = 0 =>
        /\ renderDone = 2 => put = got + sent
        /\ renderDone = 3 => put # got

TurnsInv == FifoInv /\ FrameCounted

LEMMA TurnsStep == "tft" \notin Users /\ TurnsInv /\ [Next]_vars => TurnsInv'
<1> SUFFICES ASSUME "tft" \notin Users, TurnsInv, [Next]_vars PROVE FrameCounted'
  BY FifoStep, TurnsAreUncut DEF TurnsInv, TftFits
<1>0. FifoInv'
  BY FifoStep, TurnsAreUncut DEF TurnsInv, TftFits
<1> USE DEF TurnsInv, FrameCounted
<1>1. CASE Collect
  BY <1>1 DEF Collect
<1>2. CASE StartFrame
  <2>1. put = got /\ put' = put /\ got' = got /\ sent' = 0 /\ renderDone' = 2
    BY <1>2, EmptyMeansNone DEF StartFrame, FifoInv
  <2> QED
    BY <2>1 DEF FifoInv, TypedInv, TypeOK
<1>3. CASE SendNext \/ Draw \/ LoadCur \/ WriteCell
  BY <1>3 DEF SendNext, Draw, LoadCur, WriteCell
<1>4. CASE FrameSent
  BY <1>4, SizesAssumption DEF FrameSent, FifoInv, TypedInv, TypeOK
<1>5. CASE StoreCur
  <2>1. display = "oled" => renderDone = 2
    BY <1>5 DEF StoreCur, Drawing, FifoInv, Turns, OledTurns
  <2>2. CASE display = "oled"
    <3>1. put' = put + 1 /\ sent' = sent + 1 /\ got' = got /\ resets' = resets
      BY <1>5, <2>2 DEF StoreCur
    <3>2. renderDone' = 2
      BY <1>5, <2>1, <2>2 DEF StoreCur
    <3> QED
      BY <2>1, <2>2, <3>1, <3>2, <1>5 DEF StoreCur, FifoInv, TypedInv, TypeOK
  <2>3. CASE display # "oled"
    BY <1>5, <2>3 DEF StoreCur
  <2> QED
    BY <2>2, <2>3
<1>6. CASE Reset
  BY <1>6 DEF Reset, FifoInv, TypedInv, TypeOK
<1>7. CASE TakeCommand
  <2>1. display = "oled" => renderDone = 3
    BY <1>7 DEF TakeCommand, Sends, FifoInv, Turns, OledTurns
  <2>2. CASE last' = cur
    BY <1>7, <2>2 DEF TakeCommand
  <2>3. CASE last' # cur
    <3>1. TypeOK' /\ QueueHolds'
      BY <1>0 DEF FifoInv, TypedInv
    <3>2. put' \in Nat /\ got' \in Nat /\ last' \in 0 .. Size - 1
      BY <3>1 DEF TypeOK, Entries
    <3>3. last' # cur'
      BY <1>7, <2>3 DEF TakeCommand
    <3>4. cur' = IF last' + (put' - got') >= Size THEN last' + (put' - got') - Size
                 ELSE last' + (put' - got')
      BY <3>1 DEF QueueHolds, At
    <3>5. put' # got'
      <4>1. \A n \in Nat : n - n = 0
        OBVIOUS
      <4>2. \A l \in 0 .. Size - 1 : (IF l + 0 >= Size THEN l + 0 - Size ELSE l + 0) = l
        BY SizesAssumption
      <4>3. ASSUME put' = got' PROVE put' - got' = 0
        BY <3>2, <4>1, <4>3, Zenon
      <4> QED
        BY <3>2, <3>3, <3>4, <4>2, <4>3, Zenon
    <3> QED
      BY <1>7, <2>1, <3>5 DEF TakeCommand
  <2> QED
    BY <2>2, <2>3
<1>8. CASE NothingQueued
  BY <1>8 DEF NothingQueued
<1>9. CASE UNCHANGED vars
  BY <1>9 DEF vars
<1> QED
  BY <1>1, <1>2, <1>3, <1>4, <1>5, <1>6, <1>7, <1>8, <1>9 DEF Next, Program, Handler

\* Main loop and handler of a SID kernel with an OLED keep their turns
\* (renderDone): the handler keeps off a frame that is being put in, and
\* when its turn comes the frame is there.
THEOREM TurnsAreKept ==
    ASSUME "tft" \notin Users
    PROVE  Spec => []TurnsTaken
<1>1. Init => TurnsInv
  BY FifoInit DEF TurnsInv, Init, FrameCounted
<1>2. TurnsInv => TurnsTaken
  BY EmptyMeansNone DEF TurnsInv, FrameCounted, FifoInv, Turns, OledTurns, TurnsTaken
<1> QED
  BY <1>1, <1>2, TurnsStep, PTL DEF Spec

(***************************************************************************)
(* Nobody waits for the other: a frame of the OLED can only start when the *)
(* queue is empty, and the handler only empties it when it has its turn.   *)
(***************************************************************************)
NothingLeftBehind == display = "oled" /\ renderDone \in {0, 1} => Empty

LEMMA NothingLeftStep ==
    "tft" \notin Users /\ FifoInv /\ NothingLeftBehind /\ [Next]_vars => NothingLeftBehind'
<1> SUFFICES ASSUME "tft" \notin Users, FifoInv, NothingLeftBehind, [Next]_vars
             PROVE  NothingLeftBehind'
  OBVIOUS
<1> USE DEF NothingLeftBehind, Empty
<1>1. CASE Collect \/ StartFrame \/ SendNext \/ FrameSent \/ Draw \/ LoadCur \/ WriteCell
  BY <1>1 DEF Collect, StartFrame, SendNext, FrameSent, Draw, LoadCur, WriteCell, Drawing, ring
<1>2. CASE StoreCur
  <2>1. display = "oled" => renderDone = 2
    BY <1>2 DEF FifoInv, Turns, OledTurns, StoreCur, Drawing
  <2> QED
    BY <1>2, <2>1 DEF StoreCur
<1>3. CASE Reset \/ NothingQueued
  BY <1>3 DEF Reset, NothingQueued
<1>4. CASE TakeCommand
  <2>1. display = "oled" => renderDone = 3
    BY <1>4 DEF FifoInv, Turns, OledTurns, TakeCommand, Sends
  <2> QED
    BY <1>4, <2>1 DEF TakeCommand
<1>5. CASE UNCHANGED vars
  BY <1>5 DEF vars, ring
<1> QED
  BY <1>1, <1>2, <1>3, <1>4, <1>5 DEF Next, Program, Handler

\* A frame that is complete finds the queue empty (kernel_sid.cpp: renderDone,
\* sendFramebufferStart), also after resets in the middle of a frame.  Were a
\* command left the frame would wait for the handler and the handler for the
\* frame: this is what FrameShown and CommandsLeave rest on.
THEOREM FrameFindsQueueEmpty ==
    ASSUME "tft" \notin Users
    PROVE  Spec => []NothingLeftBehind
<1>1. Init => FifoInv /\ NothingLeftBehind
  BY FifoInit DEF Init, NothingLeftBehind, Empty
<1>2. FifoInv /\ NothingLeftBehind /\ [Next]_vars => FifoInv' /\ NothingLeftBehind'
  BY FifoStep, TurnsAreUncut, NothingLeftStep DEF TftFits
<1> QED
  BY <1>1, <1>2, PTL DEF Spec
=============================================================================
