--------------------------- MODULE SidSound_proofs ---------------------------
(***************************************************************************)
(* Proofs about SidSound, for every size of the two rings, every pair of   *)
(* rates with more than three cycles to a sample, and any number of cycles *)
(* and resets.                                                             *)
(***************************************************************************)
EXTENDS SidSound, TLAPS

(***************************************************************************)
(* Arithmetic                                                              *)
(***************************************************************************)
LEMMA ProductTyped ==
    ASSUME NEW a \in Nat, NEW b \in Nat
    PROVE  a * b \in Nat
OBVIOUS

LEMMA QuotientTyped ==
    ASSUME NEW a \in Nat, NEW b \in Nat \ {0}
    PROVE  a \div b \in Nat
OBVIOUS

LEMMA SamplesTyped == \A n \in Nat : Samples(n) \in Nat
<1> SUFFICES ASSUME NEW n \in Nat PROVE Samples(n) \in Nat
    OBVIOUS
<1>1. n * Rate \in Nat
    BY RatesAssumption, ProductTyped
<1> QED BY <1>1, RatesAssumption, QuotientTyped DEF Samples

LEMMA NextEntry ==
    ASSUME NEW n \in 0 .. SampleRing - 1
    PROVE  (n + 1) % SampleRing \in 0 .. SampleRing - 1
BY SizesAssumption

LEMMA SuccTyped == \A e \in Entries : Succ(e) \in Entries
BY SizesAssumption DEF Succ, Entries

(* The greatest of 1 and the least of two, three or four limits.           *)
LEMMA TwoMax ==
    ASSUME NEW m \in Int
    PROVE  /\ Max({1, m}) = IF m > 1 THEN m ELSE 1
<1>1. \E x \in {1, m} : \A y \in {1, m} : x >= y
    OBVIOUS
<1>2. Max({1, m}) \in {1, m} /\ \A y \in {1, m} : Max({1, m}) >= y
    BY <1>1 DEF Max
<1> QED BY <1>2

LEMMA LeastLimit ==
    ASSUME NEW S, \E x \in S : \A y \in S : x <= y
    PROVE  Min(S) \in S /\ \A y \in S : Min(S) <= y
BY DEF Min

LEMMA ChosenIsLimit ==
    ASSUME TypeOK
    PROVE  /\ ChosenCycles \in Nat /\ ChosenCycles >= 1
           /\ cycleCount > nCyclesEmulated => ChosenCycles <= cycleCount - nCyclesEmulated
           /\ ringRead # ringWrite /\ ringTime[ringRead] > nCyclesEmulated
                => ChosenCycles <= ringTime[ringRead] - nCyclesEmulated
<1> DEFINE a == cycleCount - nCyclesEmulated
           b == ringTime[ringRead] - nCyclesEmulated
           useB == ringRead # ringWrite /\ ringTime[ringRead] > nCyclesEmulated
           useC == toNextSample >= 0
           m1 == IF Batch <= a THEN Batch ELSE a
           m2 == IF useB /\ b < m1 THEN b ELSE m1
           m3 == IF useC /\ toNextSample < m2 THEN toNextSample ELSE m2
<1>1. a \in Int /\ b \in Int /\ toNextSample \in Int /\ Batch \in Int /\ Batch >= 1
    BY SizesAssumption DEF TypeOK
<1>2. \A x : x \in Limits <=> \/ x = Batch \/ x = a
                              \/ x = toNextSample /\ useC
                              \/ x = b /\ useB
    BY DEF Limits
<1> HIDE DEF a, b, useB, useC
<1>3. m1 \in Int /\ m2 \in Int /\ m3 \in Int
    BY <1>1
<1>4. m3 \in Limits /\ \A y \in Limits : m3 <= y
    BY <1>1, <1>2
<1>5. Min(Limits) \in Limits /\ \A y \in Limits : Min(Limits) <= y
    BY <1>4, LeastLimit
<1>6. Min(Limits) \in Int
    BY <1>1, <1>2, <1>5
<1>7. ChosenCycles = IF Min(Limits) > 1 THEN Min(Limits) ELSE 1
    BY <1>6, TwoMax DEF ChosenCycles
<1>8. Min(Limits) <= a /\ (useB => Min(Limits) <= b)
    BY <1>2, <1>5
<1>9. /\ ChosenCycles \in Nat /\ ChosenCycles >= 1
      /\ a >= 1 => ChosenCycles <= a
      /\ useB /\ b >= 1 => ChosenCycles <= b
    BY <1>1, <1>6, <1>7, <1>8
<1>10. cycleCount > nCyclesEmulated => a >= 1
    BY DEF a, TypeOK
<1>11. useB => b >= 1
    BY DEF b, useB, TypeOK
<1> QED BY <1>9, <1>10, <1>11 DEF a, b, useB

(***************************************************************************)
(* Types                                                                   *)
(***************************************************************************)
LEMMA ZeroIsEntry == 0 \in Entries /\ 0 \in 0 .. SampleRing - 1
BY SizesAssumption DEF Entries

LEMMA InitTyped == Init => TypeOK
<1> SUFFICES ASSUME Init PROVE TypeOK
    OBVIOUS
<1>1. ringTime \in [Entries -> Nat]
    BY DEF Init
<1>2. ringWrite \in Entries /\ ringRead \in Entries
    BY ZeroIsEntry DEF Init
<1>3. smpCur \in 0 .. SampleRing - 1 /\ smpLast \in 0 .. SampleRing - 1
    BY ZeroIsEntry DEF Init
<1>4. /\ toNextSample \in Int /\ row \in 0 .. LongestRow
      /\ cycleCountC64 \in Nat /\ nCyclesEmulated \in Nat /\ samplesElapsed \in Nat
      /\ cycleCount \in Nat /\ before \in Nat /\ toEmulate \in Nat
      /\ samplesElapsedBeforeFIQ \in Nat
      /\ stored \in Nat /\ played \in Nat /\ empty \in Nat /\ resets \in Nat
    BY RatesAssumption DEF Init
<1>5. pc = "launch" /\ resetReleased = FALSE
    BY DEF Init
<1> QED BY <1>1, <1>2, <1>3, <1>4, <1>5 DEF TypeOK

LEMMA HandlerTyped ==
    ASSUME TypeOK, WriteRegister \/ ReadRegister \/ OtherCycle \/ ResetC64
    PROVE  TypeOK'
<1>1. CASE WriteRegister
    BY <1>1, SuccTyped, RatesAssumption DEF WriteRegister, Cycle, TypeOK, main, output
<1>2. CASE ReadRegister
    BY <1>2, RatesAssumption DEF ReadRegister, Cycle, TypeOK, main, output
<1>3. CASE OtherCycle
  <2>1. /\ cycleCountC64' \in Nat /\ row' \in 0 .. LongestRow
        /\ UNCHANGED <<nCyclesEmulated, samplesElapsed, main, ring, resetReleased, resets,
                       smpCur, stored>>
    BY <1>3, RatesAssumption DEF OtherCycle, Cycle, TypeOK, ring
  <2>2. samplesElapsedBeforeFIQ' \in Nat
    BY <1>3, SamplesTyped DEF OtherCycle, TypeOK
  <2>3. smpLast' \in 0 .. SampleRing - 1 /\ played' \in Nat /\ empty' \in Nat
    BY <1>3, NextEntry DEF OtherCycle, TypeOK
  <2> QED BY <2>1, <2>2, <2>3 DEF TypeOK, main, ring
<1>4. CASE ResetC64
    BY <1>4 DEF ResetC64, TypeOK, main, output, ring
<1> QED BY <1>1, <1>2, <1>3, <1>4

LEMMA MainLoopTyped ==
    ASSUME TypeOK,
           \/ ClearCounters \/ ClearRing \/ Restart \/ ReadClock \/ While \/ Choose
           \/ ClockChips \/ ApplyWrite \/ EndStep
    PROVE  TypeOK'
<1> USE DEF TypeOK, ring, output, main
<1>1. CASE ClearCounters
    BY <1>1 DEF ClearCounters
<1>2. CASE ClearRing
    BY <1>2, ZeroIsEntry DEF ClearRing
<1>3. CASE Restart
    BY <1>3, ZeroIsEntry DEF Restart
<1>4. CASE ReadClock
    BY <1>4 DEF ReadClock
<1>5. CASE While
  <2>1. /\ pc' \in {"choose", "main"} /\ before' \in Nat /\ cycleCount' \in Nat
        /\ UNCHANGED <<cycleCountC64, ring, nCyclesEmulated, samplesElapsed, toEmulate, output,
                       row, resetReleased, resets>>
    BY <1>5 DEF While
  <2>2. (samplesElapsed + 1) * Clock \in Nat
    BY RatesAssumption, ProductTyped
  <2>3. ((samplesElapsed + 1) * Clock) \div Rate \in Nat
    BY <2>2, RatesAssumption, QuotientTyped
  <2>4. toNextSample' \in Int
    BY <1>5, <2>3 DEF While
  <2> QED BY <2>1, <2>4
<1>6. CASE Choose
    BY <1>6, ChosenIsLimit DEF Choose
<1>7. CASE ClockChips
    BY <1>7 DEF ClockChips
<1>8. CASE ApplyWrite
    BY <1>8, SuccTyped DEF ApplyWrite
<1>9. CASE EndStep
  <2>1. samplesElapsed' \in Nat
    BY <1>9, SamplesTyped DEF EndStep
  <2>2. smpCur' \in 0 .. SampleRing - 1 /\ stored' \in Nat
    BY <1>9, NextEntry DEF EndStep
  <2>3. /\ pc' \in {"while", "choose"} /\ before' \in Nat /\ toNextSample' \in Int
        /\ UNCHANGED <<cycleCountC64, ring, nCyclesEmulated, cycleCount, toEmulate, smpLast,
                       samplesElapsedBeforeFIQ, played, empty, row, resetReleased, resets>>
    BY <1>9 DEF EndStep
  <2> QED BY <2>1, <2>2, <2>3
<1> QED BY <1>1, <1>2, <1>3, <1>4, <1>5, <1>6, <1>7, <1>8, <1>9

LEMMA StepsTyped == TypeOK /\ [Next]_vars => TypeOK'
<1>1. TypeOK /\ UNCHANGED vars => TypeOK'
    BY DEF TypeOK, vars, main, output, ring
<1> QED BY <1>1, HandlerTyped, MainLoopTyped DEF Next

(* The counters of both rings stay within them and no clock becomes         *)
(* negative (kernel_sid.cpp, sound.h).                                      *)
THEOREM SoundTypeCorrect == Spec => []TypeOK
BY InitTyped, StepsTyped, PTL DEF Spec

(***************************************************************************)
(* Places in the ring, counted from the one that is read next              *)
(***************************************************************************)
Pos(r, e) == IF e >= r THEN e - r ELSE e + Ring - r

LEMMA PosFacts ==
    ASSUME NEW r \in Entries
    PROVE  /\ \A e \in Entries : Pos(r, e) \in Nat /\ Pos(r, e) < Ring
           /\ Pos(r, r) = 0
           /\ \A e, d \in Entries : Pos(r, e) = Pos(r, d) => e = d
           /\ \A e \in Entries : e # r => Pos(Succ(r), e) = Pos(r, e) - 1
           /\ \A e \in Entries : Pos(r, e) + 1 < Ring => Pos(r, Succ(e)) = Pos(r, e) + 1
BY SizesAssumption DEF Pos, Succ, Entries

LEMMA BetweenIs ==
    ASSUME NEW r \in Entries, NEW w \in Entries
    PROVE  \A e : e \in (IF r <= w THEN r .. w - 1 ELSE (r .. Ring - 1) \cup (0 .. w - 1))
                    <=> e \in Entries /\ Pos(r, e) < Pos(r, w)
BY SizesAssumption DEF Pos, Entries

LEMMA WaitingIs ==
    ASSUME TypeOK
    PROVE  \A e : e \in Waiting <=>
                    e \in Entries /\ Pos(ringRead, e) < Pos(ringRead, ringWrite)
BY BetweenIs DEF TypeOK, Waiting

LEMMA WaitingIsNext ==
    ASSUME TypeOK'
    PROVE  \A e : e \in Waiting' <=>
                    e \in Entries /\ Pos(ringRead', e) < Pos(ringRead', ringWrite')
<1>1. ringRead' \in Entries /\ ringWrite' \in Entries
    BY DEF TypeOK, Entries
<1> QED BY <1>1, BetweenIs DEF Waiting

(***************************************************************************)
(* The invariant: the emulation is behind the C64, at most by Lag and      *)
(* never past a write; the writes in the ring lie in different cycles, so  *)
(* that no more than Lag and one of them wait.                             *)
(***************************************************************************)
Started == pc \notin {"launch", "clear"}

ClockIInv ==
    /\ ~Started => nCyclesEmulated = 0
    /\ pc # "launch" => nCyclesEmulated <= cycleCountC64
                        /\ cycleCountC64 - nCyclesEmulated <= Lag
    /\ Started /\ pc # "main" => cycleCount <= cycleCountC64
    /\ pc \in {"choose", "clock"} => nCyclesEmulated < cycleCount
    /\ pc = "clock" => /\ toEmulate >= 1 /\ nCyclesEmulated + toEmulate <= cycleCount
                       /\ ringRead # ringWrite =>
                            nCyclesEmulated + toEmulate <= ringTime[ringRead]

Place(e) == Pos(ringRead, e)

Apart ==
    \A e, d \in Waiting :
       Place(e) <= Place(d) => ringTime[e] + (Place(d) - Place(e)) <= ringTime[d]

Past ==
    \A e \in Waiting : ringTime[e] + (Place(ringWrite) - 1 - Place(e)) <= cycleCountC64

FirstWaits ==
    /\ ringRead # ringWrite =>
          IF pc = "write" THEN ringTime[ringRead] = nCyclesEmulated
                          ELSE ringTime[ringRead] > nCyclesEmulated
    /\ pc = "write" => ringRead # ringWrite

QueueIInv == Started => Apart /\ Past /\ FirstWaits

RingIInv == TypeOK /\ ClockIInv /\ QueueIInv

LEMMA FirstIsWaiting ==
    ASSUME TypeOK, ringRead # ringWrite
    PROVE  ringRead \in Waiting /\ Place(ringRead) = 0 /\ Place(ringWrite) > 0
<1>1. ringRead \in Entries /\ ringWrite \in Entries
    BY DEF TypeOK
<1>2. Place(ringRead) = 0 /\ Place(ringWrite) \in Nat /\ Place(ringWrite) # 0
    BY <1>1, PosFacts DEF Place
<1> QED BY <1>1, <1>2, WaitingIs DEF Place

(* There is room for one more.                                             *)
LEMMA RingHasRoom ==
    ASSUME RingIInv, Started, cycleCountC64 - nCyclesEmulated < Lag
    PROVE  Place(ringWrite) + 1 < Ring
<1>1. CASE ringRead = ringWrite
    BY <1>1, PosFacts, SizesAssumption DEF RingIInv, TypeOK, Place
<1>2. CASE ringRead # ringWrite
  <2>1. ringRead \in Waiting /\ Place(ringRead) = 0
    BY <1>2, FirstIsWaiting DEF RingIInv
  <2>2. ringTime[ringRead] + (Place(ringWrite) - 1) <= cycleCountC64
    <3>1. Past
        BY DEF RingIInv, QueueIInv
    <3>2. ringTime[ringRead] + (Place(ringWrite) - 1 - Place(ringRead)) <= cycleCountC64
        BY <2>1, <3>1 DEF Past
    <3>3. Place(ringWrite) \in Nat
        BY PosFacts DEF RingIInv, TypeOK, Place
    <3> QED BY <2>1, <3>2, <3>3
  <2>3. ringTime[ringRead] >= nCyclesEmulated
    BY <1>2 DEF RingIInv, QueueIInv, FirstWaits, TypeOK
  <2>4. ringTime[ringRead] \in Nat /\ Place(ringWrite) \in Nat
    BY PosFacts DEF RingIInv, TypeOK, Place
  <2> QED BY <2>2, <2>3, <2>4, SizesAssumption DEF RingIInv, TypeOK
<1> QED BY <1>1, <1>2

(* What a write to a sound chip does to the ring.                          *)
LEMMA WriteAppends ==
    ASSUME RingIInv, Started, WriteRegister
    PROVE  /\ Waiting' = Waiting \cup {ringWrite} /\ ringWrite \notin Waiting
           /\ ringRead' = ringRead
           /\ \A e \in Entries : Place(e)' = Place(e)
           /\ Place(ringWrite)' = Place(ringWrite) + 1
           /\ \A e \in Waiting : ringTime'[e] = ringTime[e]
           /\ ringTime'[ringWrite] = cycleCountC64 + 1
<1>1. /\ ringRead' = ringRead /\ ringWrite' = Succ(ringWrite)
      /\ ringTime' = [ringTime EXCEPT ![ringWrite] = cycleCountC64 + 1]
      /\ cycleCountC64 - nCyclesEmulated < Lag
    BY DEF WriteRegister, Cycle, Started
<1>2. ringRead \in Entries /\ ringWrite \in Entries /\ ringTime \in [Entries -> Nat]
    BY DEF RingIInv, TypeOK
<1>3. Place(ringWrite) + 1 < Ring
    BY <1>1, RingHasRoom
<1>4. \A e \in Entries : Place(e)' = Place(e)
    BY <1>1 DEF Place
<1>5. Pos(ringRead, Succ(ringWrite)) = Place(ringWrite) + 1
    BY <1>2, <1>3, PosFacts DEF Place
<1>6. TypeOK'
    BY StepsTyped DEF RingIInv, Next
<1>7. \A e : e \in Waiting' <=> e \in Entries /\ Place(e) < Place(ringWrite) + 1
    BY <1>1, <1>5, <1>6, WaitingIsNext DEF Place
<1>8. \A e : e \in Waiting <=> e \in Entries /\ Place(e) < Place(ringWrite)
    BY WaitingIs DEF RingIInv, Place
<1>9. \A e \in Entries : Place(e) \in Nat /\ (Place(e) = Place(ringWrite) => e = ringWrite)
    BY <1>2, PosFacts DEF Place
<1>10. Waiting' = Waiting \cup {ringWrite} /\ ringWrite \notin Waiting
    BY <1>2, <1>7, <1>8, <1>9
<1>11. Waiting \subseteq Entries
    BY <1>8
<1>12. Place(ringWrite)' = Place(ringWrite) + 1
    BY <1>1, <1>5 DEF Place
<1> QED BY <1>1, <1>2, <1>4, <1>10, <1>11, <1>12

(* What the application of a write does to it.                             *)
LEMMA ApplyRemoves ==
    ASSUME RingIInv, ApplyWrite
    PROVE  /\ ringRead \in Waiting /\ Waiting' = Waiting \ {ringRead}
           /\ \A e \in Waiting' : Place(e)' = Place(e) - 1
           /\ Place(ringWrite)' = Place(ringWrite) - 1
           /\ ringWrite' = ringWrite /\ ringTime' = ringTime
           /\ ringTime[ringRead] = nCyclesEmulated
<1>1. /\ pc = "write" /\ ringRead' = Succ(ringRead) /\ ringWrite' = ringWrite
      /\ ringTime' = ringTime
    BY DEF ApplyWrite
<1>2. ringRead # ringWrite /\ ringTime[ringRead] = nCyclesEmulated
    BY <1>1 DEF RingIInv, QueueIInv, FirstWaits, Started
<1>3. ringRead \in Entries /\ ringWrite \in Entries
    BY DEF RingIInv, TypeOK
<1>4. ringRead \in Waiting
    BY <1>2, FirstIsWaiting DEF RingIInv
<1>5. \A e \in Entries : e # ringRead => Place(e)' = Place(e) - 1
    BY <1>1, <1>3, PosFacts DEF Place
<1>6. Pos(ringRead', ringWrite') = Place(ringWrite) - 1
    BY <1>1, <1>2, <1>3, PosFacts DEF Place
<1>7. TypeOK'
    BY StepsTyped DEF RingIInv, Next
<1>8. \A e : e \in Waiting' <=> e \in Entries /\ Pos(ringRead', e) < Place(ringWrite) - 1
    BY <1>6, <1>7, WaitingIsNext
<1>9. \A e : e \in Waiting <=> e \in Entries /\ Place(e) < Place(ringWrite)
    BY WaitingIs DEF RingIInv, Place
<1>10. Place(ringWrite) \in Nat /\ Place(ringWrite) < Ring
    BY <1>3, PosFacts DEF Place
<1>11. \A e \in Entries : Place(e) \in Nat
    BY <1>3, PosFacts DEF Place
<1>12. Pos(ringRead', ringRead) = Ring - 1
    BY <1>1, <1>3, SizesAssumption DEF Pos, Succ, Entries
<1>13. \A e \in Entries : e # ringRead => Pos(ringRead', e) = Place(e) - 1
    BY <1>5 DEF Place
<1>14. Waiting' = Waiting \ {ringRead}
    BY <1>8, <1>9, <1>10, <1>11, <1>12, <1>13, SizesAssumption
<1>15. \A e \in Waiting' : e \in Entries /\ e # ringRead
    BY <1>9, <1>14
<1> QED BY <1>1, <1>2, <1>4, <1>5, <1>6, <1>14, <1>15 DEF Place

(* The clocks.                                                             *)
LEMMA ClockStep ==
    ASSUME RingIInv, [Next]_vars
    PROVE  ClockIInv'
<1> USE DEF RingIInv, ClockIInv, TypeOK, Started, main, ring, output
<1>0. Lag \in Nat
    BY SizesAssumption
<1>1. CASE WriteRegister
  <2>1. ringRead # ringWrite => ringTime'[ringRead] = ringTime[ringRead]
    BY <1>1 DEF WriteRegister
  <2>2. ~Started => ~(pc = "clock")
    OBVIOUS
  <2>3. ringTime'[ringWrite] = cycleCountC64 + 1
    BY <1>1 DEF WriteRegister
  <2>4. pc = "clock" => nCyclesEmulated + toEmulate <= cycleCountC64 + 1
    OBVIOUS
  <2> QED BY <1>0, <1>1, <2>1, <2>3, <2>4 DEF WriteRegister, Cycle
<1>2. CASE ReadRegister \/ OtherCycle
  <2>1. /\ cycleCountC64' = cycleCountC64 + 1
        /\ pc = "launch" \/ cycleCountC64 - nCyclesEmulated < Lag
        /\ UNCHANGED <<nCyclesEmulated, main, ring>>
    BY <1>2 DEF ReadRegister, OtherCycle, Cycle
  <2> QED BY <1>0, <2>1
<1>3. CASE ResetC64
    BY <1>0, <1>3 DEF ResetC64
<1>4. CASE ClearCounters
    BY <1>0, <1>4 DEF ClearCounters
<1>5. CASE ClearRing
    BY <1>0, <1>5 DEF ClearRing
<1>6. CASE Restart
    BY <1>0, <1>6 DEF Restart
<1>7. CASE ReadClock
    BY <1>0, <1>7 DEF ReadClock
<1>8. CASE While
    BY <1>0, <1>8, SizesAssumption DEF While
<1>9. CASE Choose
  <2>1. pc = "choose" /\ pc' = "clock" /\ toEmulate' = ChosenCycles
        /\ UNCHANGED <<cycleCountC64, ring, nCyclesEmulated, cycleCount>>
    BY <1>9 DEF Choose
  <2>2. FirstWaits
    BY <2>1 DEF QueueIInv
  <2>3. ringRead # ringWrite => ringTime[ringRead] > nCyclesEmulated
    BY <2>1, <2>2 DEF FirstWaits
  <2>4. /\ toEmulate' \in Nat /\ toEmulate' >= 1
        /\ toEmulate' <= cycleCount - nCyclesEmulated
        /\ ringRead # ringWrite => toEmulate' <= ringTime[ringRead] - nCyclesEmulated
    BY <2>1, <2>3, ChosenIsLimit
  <2> QED BY <1>0, <2>1, <2>4
<1>10. CASE ClockChips
    BY <1>0, <1>10 DEF ClockChips
<1>11. CASE ApplyWrite
    BY <1>0, <1>11 DEF ApplyWrite
<1>12. CASE EndStep
    BY <1>0, <1>12 DEF EndStep
<1>13. CASE UNCHANGED vars
    BY <1>13 DEF vars
<1> QED
    BY <1>1, <1>2, <1>3, <1>4, <1>5, <1>6, <1>7, <1>8, <1>9, <1>10, <1>11, <1>12, <1>13
       DEF Next

(* The writes in the ring.                                                 *)
LEMMA RingUnchanged ==
    ASSUME UNCHANGED ring
    PROVE  /\ Waiting' = Waiting
           /\ \A e : Place(e)' = Place(e)
           /\ Place(ringWrite)' = Place(ringWrite)
BY DEF ring, Waiting, Place, Pos

LEMMA WriteKeepsQueue ==
    ASSUME RingIInv, Started, WriteRegister
    PROVE  Apart' /\ Past' /\ FirstWaits'
<1>1. /\ Waiting' = Waiting \cup {ringWrite} /\ ringWrite \notin Waiting
      /\ ringRead' = ringRead
      /\ \A e \in Entries : Place(e)' = Place(e)
      /\ Place(ringWrite)' = Place(ringWrite) + 1
      /\ \A e \in Waiting : ringTime'[e] = ringTime[e]
      /\ ringTime'[ringWrite] = cycleCountC64 + 1
    BY WriteAppends
<1>2. /\ cycleCountC64' = cycleCountC64 + 1 /\ pc' = pc /\ nCyclesEmulated' = nCyclesEmulated
      /\ ringWrite' = Succ(ringWrite)
    BY DEF WriteRegister, Cycle, main
<1>3. /\ ringWrite \in Entries /\ ringRead \in Entries /\ cycleCountC64 \in Nat
      /\ nCyclesEmulated \in Nat /\ ringTime \in [Entries -> Nat]
    BY DEF RingIInv, TypeOK
<1>4. \A e \in Waiting : e \in Entries /\ Place(e) < Place(ringWrite)
    BY WaitingIs DEF RingIInv, Place
<1>5. \A e \in Entries : Place(e) \in Nat /\ (Place(e) = 0 => e = ringRead)
    BY <1>3, PosFacts DEF Place
<1>6. Place(ringRead) = 0
    BY <1>3, PosFacts DEF Place
<1>7. Apart /\ Past /\ FirstWaits
    BY DEF RingIInv, QueueIInv
<1>8. \A e \in Waiting : ringTime[e] \in Nat
    BY <1>3, <1>4
<1>9. Apart'
  <2> SUFFICES ASSUME NEW e \in Waiting', NEW d \in Waiting', Place(e)' <= Place(d)'
               PROVE  ringTime'[e] + (Place(d)' - Place(e)') <= ringTime'[d]
    BY <1>1 DEF Apart
  <2>0. Place(e)' = Place(e) /\ Place(d)' = Place(d)
    BY <1>1, <1>3, <1>4
  <2>1. CASE e \in Waiting /\ d \in Waiting
    BY <1>1, <1>7, <2>0, <2>1 DEF Apart
  <2>2. CASE e \in Waiting /\ d = ringWrite
    <3>1. ringTime[e] + (Place(ringWrite) - 1 - Place(e)) <= cycleCountC64
        BY <1>7, <2>2 DEF Past
    <3> QED BY <1>1, <1>3, <1>4, <1>5, <1>8, <2>0, <2>2, <3>1
  <2>3. CASE e = ringWrite /\ d \in Waiting
    BY <1>3, <1>4, <1>5, <2>0, <2>3
  <2>4. CASE e = ringWrite /\ d = ringWrite
    BY <1>1, <1>3, <1>5, <2>0, <2>4
  <2> QED BY <1>1, <2>1, <2>2, <2>3, <2>4
<1>10. Past'
  <2> SUFFICES ASSUME NEW e \in Waiting'
               PROVE  ringTime'[e] + (Place(ringWrite)' - 1 - Place(e)') <= cycleCountC64'
    BY DEF Past
  <2>0. Place(e)' = Place(e)
    BY <1>1, <1>3, <1>4
  <2>1. CASE e \in Waiting
    <3>1. ringTime[e] + (Place(ringWrite) - 1 - Place(e)) <= cycleCountC64
        BY <1>7, <2>1 DEF Past
    <3> QED BY <1>1, <1>2, <1>3, <1>4, <1>5, <1>8, <2>0, <2>1, <3>1
  <2>2. CASE e = ringWrite
    BY <1>1, <1>2, <1>3, <1>5, <2>0, <2>2
  <2> QED BY <1>1, <2>1, <2>2
<1>11. FirstWaits'
  <2>1. ringRead' # ringWrite'
    <3>1. Pos(ringRead, ringWrite') = Place(ringWrite) + 1
        BY <1>1 DEF Place
    <3> QED BY <1>1, <1>3, <1>5, <1>6, <3>1 DEF Place
  <2>2. CASE ringRead = ringWrite
    <3>1. pc # "write" /\ ringTime'[ringRead] = cycleCountC64 + 1
        BY <1>1, <1>7, <2>2 DEF FirstWaits
    <3>2. nCyclesEmulated <= cycleCountC64
        BY DEF RingIInv, ClockIInv, Started
    <3> QED BY <1>1, <1>2, <1>3, <2>1, <3>1, <3>2 DEF FirstWaits
  <2>3. CASE ringRead # ringWrite
    <3>1. ringRead \in Waiting
        BY <2>3, FirstIsWaiting DEF RingIInv
    <3> QED BY <1>1, <1>2, <1>7, <2>1, <2>3, <3>1 DEF FirstWaits
  <2> QED BY <2>2, <2>3
<1> QED BY <1>9, <1>10, <1>11

LEMMA ApplyKeepsQueue ==
    ASSUME RingIInv, ApplyWrite
    PROVE  Apart' /\ Past' /\ FirstWaits'
<1>1. /\ ringRead \in Waiting /\ Waiting' = Waiting \ {ringRead}
      /\ \A e \in Waiting' : Place(e)' = Place(e) - 1
      /\ Place(ringWrite)' = Place(ringWrite) - 1
      /\ ringWrite' = ringWrite /\ ringTime' = ringTime
      /\ ringTime[ringRead] = nCyclesEmulated
    BY ApplyRemoves
<1>2. /\ pc = "write" /\ ringRead' = Succ(ringRead)
      /\ pc' = IF Reached(ringRead', nCyclesEmulated) THEN "write" ELSE "sample"
      /\ cycleCountC64' = cycleCountC64 /\ nCyclesEmulated' = nCyclesEmulated
    BY DEF ApplyWrite
<1>3. /\ ringWrite \in Entries /\ ringRead \in Entries /\ cycleCountC64 \in Nat
      /\ nCyclesEmulated \in Nat /\ ringTime \in [Entries -> Nat] /\ ringRead' \in Entries
    BY <1>2, SuccTyped DEF RingIInv, TypeOK
<1>4. \A e \in Waiting : e \in Entries /\ Place(e) < Place(ringWrite)
    BY WaitingIs DEF RingIInv, Place
<1>5. \A e \in Entries : Place(e) \in Nat /\ (Place(e) = 0 => e = ringRead)
    BY <1>3, PosFacts DEF Place
<1>6. Place(ringRead) = 0
    BY <1>3, PosFacts DEF Place
<1>7. Apart /\ Past
    BY <1>2 DEF RingIInv, QueueIInv, Started
<1>8. \A e \in Waiting : ringTime[e] \in Nat
    BY <1>3, <1>4
<1>9. Apart'
  <2> SUFFICES ASSUME NEW e \in Waiting', NEW d \in Waiting', Place(e)' <= Place(d)'
               PROVE  ringTime'[e] + (Place(d)' - Place(e)') <= ringTime'[d]
    BY DEF Apart
  <2>1. e \in Waiting /\ d \in Waiting /\ Place(e)' = Place(e) - 1 /\ Place(d)' = Place(d) - 1
    BY <1>1
  <2>2. Place(e) \in Nat /\ Place(d) \in Nat
    BY <1>4, <1>5, <2>1
  <2>3. ringTime[e] + (Place(d) - Place(e)) <= ringTime[d]
    BY <1>7, <2>1, <2>2 DEF Apart
  <2> QED BY <1>1, <2>1, <2>2, <2>3
<1>10. Past'
  <2> SUFFICES ASSUME NEW e \in Waiting'
               PROVE  ringTime'[e] + (Place(ringWrite)' - 1 - Place(e)') <= cycleCountC64'
    BY DEF Past
  <2>1. e \in Waiting /\ Place(e)' = Place(e) - 1
    BY <1>1
  <2>2. ringTime[e] + (Place(ringWrite) - 1 - Place(e)) <= cycleCountC64
    BY <1>7, <2>1 DEF Past
  <2> QED BY <1>1, <1>2, <1>3, <1>4, <1>5, <2>1, <2>2
<1>11. FirstWaits'
  <2>1. CASE ringRead' # ringWrite'
    <3>1. TypeOK'
        BY StepsTyped DEF RingIInv, Next
    <3>2. ringRead' \in Waiting'
      <4>1. Pos(ringRead', ringRead') = 0 /\ Pos(ringRead', ringWrite') \in Nat
            /\ Pos(ringRead', ringWrite') # 0
          BY <1>1, <1>3, <2>1, PosFacts
      <4> QED BY <1>3, <3>1, <4>1, WaitingIsNext
    <3>3. ringRead' \in Waiting /\ ringRead' # ringRead
        BY <1>1, <3>2
    <3>4. Place(ringRead') \in Nat /\ Place(ringRead') # 0 /\ ringTime[ringRead'] \in Nat
        BY <1>4, <1>5, <1>8, <3>3
    <3>5. ringTime[ringRead] + (Place(ringRead') - Place(ringRead)) <= ringTime[ringRead']
        BY <1>1, <1>6, <1>7, <3>3, <3>4 DEF Apart
    <3>6. ringTime[ringRead'] > nCyclesEmulated
        BY <1>1, <1>3, <1>6, <3>4, <3>5
    <3>7. pc' = "sample"
        BY <1>2, <1>3, <3>4, <3>6 DEF Reached
    <3> QED BY <1>1, <1>2, <2>1, <3>6, <3>7 DEF FirstWaits
  <2>2. CASE ringRead' = ringWrite'
    <3>1. pc' = "sample"
        BY <1>1, <1>2, <2>2 DEF Reached
    <3> QED BY <2>2, <3>1 DEF FirstWaits
  <2> QED BY <2>1, <2>2
<1> QED BY <1>9, <1>10, <1>11

LEMMA QueueStep ==
    ASSUME RingIInv, [Next]_vars
    PROVE  QueueIInv'
<1> SUFFICES ASSUME Started' PROVE Apart' /\ Past' /\ FirstWaits'
    BY DEF QueueIInv
<1>1. CASE WriteRegister
  <2>1. Started
    BY <1>1 DEF WriteRegister, Cycle, main, Started
  <2> QED BY <1>1, <2>1, WriteKeepsQueue
<1>2. CASE ApplyWrite
    BY <1>2, ApplyKeepsQueue
<1>3. CASE ClearRing
  <2>1. /\ ringRead' = ringWrite' /\ ringRead' = 0 /\ pc' = "main"
    BY <1>3 DEF ClearRing
  <2>2. Waiting' = {}
    BY <2>1 DEF Waiting
  <2> QED BY <2>1, <2>2 DEF Apart, Past, FirstWaits
<1>4. CASE Restart \/ ClearCounters
    BY <1>4 DEF Restart, ClearCounters, Started
<1>5. ASSUME UNCHANGED ring, Started, cycleCountC64' \in {cycleCountC64, cycleCountC64 + 1}
      PROVE  Apart' /\ Past'
  <2>1. Waiting' = Waiting /\ ringTime' = ringTime
        /\ (\A e : Place(e)' = Place(e)) /\ Place(ringWrite)' = Place(ringWrite)
    BY <1>5, RingUnchanged DEF ring
  <2>2. Apart /\ Past
    BY <1>5 DEF RingIInv, QueueIInv
  <2>3. Apart'
    BY <2>1, <2>2 DEF Apart
  <2>4. /\ cycleCountC64 \in Nat /\ ringTime \in [Entries -> Nat]
        /\ ringRead \in Entries /\ ringWrite \in Entries
    BY DEF RingIInv, TypeOK
  <2>5. \A e \in Waiting : /\ ringTime[e] \in Nat /\ Place(e) \in Nat
                           /\ Place(ringWrite) \in Nat
    BY <2>4, WaitingIs, PosFacts DEF RingIInv, Place
  <2>6. Past'
    <3> SUFFICES ASSUME NEW e \in Waiting
                 PROVE  ringTime[e] + (Place(ringWrite) - 1 - Place(e)) <= cycleCountC64'
        BY <2>1 DEF Past
    <3> QED BY <1>5, <2>2, <2>4, <2>5 DEF Past
  <2> QED BY <2>3, <2>6
<1>6. ASSUME UNCHANGED <<ring, nCyclesEmulated>>, Started, pc # "write", pc' # "write"
      PROVE  FirstWaits'
    BY <1>6 DEF RingIInv, QueueIInv, FirstWaits, ring
<1>7. ASSUME UNCHANGED <<ring, nCyclesEmulated, pc>>, Started
      PROVE  FirstWaits'
    BY <1>7 DEF RingIInv, QueueIInv, FirstWaits, ring
<1>8. CASE ReadRegister \/ OtherCycle
  <2>1. UNCHANGED <<ring, nCyclesEmulated, pc>> /\ cycleCountC64' = cycleCountC64 + 1
    BY <1>8 DEF ReadRegister, OtherCycle, Cycle, ring, main
  <2> QED BY <1>5, <1>7, <2>1 DEF Started
<1>9. CASE ResetC64 \/ UNCHANGED vars
  <2>1. UNCHANGED <<ring, nCyclesEmulated, pc>> /\ cycleCountC64' = cycleCountC64
    BY <1>9 DEF ResetC64, ring, main, vars
  <2> QED BY <1>5, <1>7, <2>1 DEF Started
<1>10. CASE ReadClock \/ While \/ Choose \/ EndStep
  <2>1. /\ UNCHANGED <<ring, nCyclesEmulated>> /\ cycleCountC64' = cycleCountC64
        /\ Started /\ pc # "write" /\ pc' # "write"
    BY <1>10 DEF ReadClock, While, Choose, EndStep, Started
  <2> QED BY <1>5, <1>6, <2>1
<1>11. CASE ClockChips
  <2>1. /\ UNCHANGED ring /\ cycleCountC64' = cycleCountC64 /\ pc = "clock"
        /\ nCyclesEmulated' = nCyclesEmulated + toEmulate
        /\ pc' = IF Reached(ringRead, nCyclesEmulated') THEN "write" ELSE "sample"
    BY <1>11 DEF ClockChips
  <2>2. Started
    BY <2>1 DEF Started
  <2>3. Apart' /\ Past'
    BY <1>5, <2>1, <2>2
  <2>4. ringRead # ringWrite => nCyclesEmulated' <= ringTime[ringRead]
    BY <2>1 DEF RingIInv, ClockIInv
  <2>5. /\ nCyclesEmulated' \in Nat /\ ringTime[ringRead] \in Nat
        /\ ringRead' = ringRead /\ ringWrite' = ringWrite /\ ringTime' = ringTime
    BY <2>1 DEF RingIInv, TypeOK, ring
  <2> QED BY <2>1, <2>3, <2>4, <2>5 DEF FirstWaits, Reached
<1> QED BY <1>1, <1>2, <1>3, <1>4, <1>8, <1>9, <1>10, <1>11 DEF Next

LEMMA InitInvariant == Init => RingIInv
<1>1. Init => ClockIInv /\ QueueIInv
    BY SizesAssumption DEF Init, ClockIInv, QueueIInv, Started
<1> QED BY <1>1, InitTyped DEF RingIInv

LEMMA RingInductive == Spec => []RingIInv
<1>1. Init => RingIInv
    BY InitInvariant
<1>2. RingIInv /\ [Next]_vars => RingIInv'
    BY ClockStep, QueueStep, StepsTyped DEF RingIInv
<1> QED BY <1>1, <1>2, PTL DEF Spec

(***************************************************************************)
(* The ring and the emulation implement the timeline                       *)
(***************************************************************************)
Due == IF pc \in {"launch", "clear"} THEN {} ELSE {ringTime[e] : e \in Waiting}

LEMMA SameDue ==
    ASSUME UNCHANGED ring, pc \in {"launch", "clear"} <=> pc' \in {"launch", "clear"}
    PROVE  Due' = Due
BY DEF Due, ring, Waiting

LEMMA WriteIsWrite ==
    ASSUME RingIInv, Started, WriteRegister
    PROVE  Timeline!Write
<1>1. /\ Waiting' = Waiting \cup {ringWrite}
      /\ \A e \in Waiting : ringTime'[e] = ringTime[e]
      /\ ringTime'[ringWrite] = cycleCountC64 + 1
    BY WriteAppends
<1>2. pc' = pc /\ nCyclesEmulated' = nCyclesEmulated
    BY DEF WriteRegister, Cycle, main
<1>3. Due' = Due \cup {cycleCountC64 + 1}
    BY <1>1, <1>2 DEF Due, Started
<1>4. nCyclesEmulated \in Nat /\ cycleCountC64 \in Nat /\ nCyclesEmulated <= cycleCountC64
    BY DEF RingIInv, TypeOK, ClockIInv, Started
<1>5. \A d \in Due : d < cycleCountC64 + 1
  <2> SUFFICES ASSUME NEW e \in Waiting PROVE ringTime[e] < cycleCountC64 + 1
    BY DEF Due, Started
  <2>1. Past /\ e \in Entries /\ Place(e) < Place(ringWrite)
    BY WaitingIs DEF RingIInv, QueueIInv, Place
  <2>2. ringTime[e] \in Nat /\ Place(e) \in Nat /\ Place(ringWrite) \in Nat
    BY <2>1, PosFacts DEF RingIInv, TypeOK, Place
  <2> QED BY <1>4, <2>1, <2>2 DEF Past
<1> QED BY <1>2, <1>3, <1>4, <1>5 DEF Timeline!Write, Due

LEMMA ClockIsAdvance ==
    ASSUME RingIInv, ClockChips
    PROVE  Timeline!Advance
<1>1. /\ UNCHANGED ring /\ pc = "clock" /\ pc' \in {"write", "sample"}
      /\ nCyclesEmulated' = nCyclesEmulated + toEmulate
    BY DEF ClockChips
<1>2. Due' = Due
    BY <1>1, SameDue
<1>3. /\ nCyclesEmulated \in Nat /\ toEmulate \in Nat /\ toEmulate >= 1
      /\ ringRead # ringWrite => nCyclesEmulated' <= ringTime[ringRead]
    BY <1>1 DEF RingIInv, TypeOK, ClockIInv
<1>4. \A d \in Due : nCyclesEmulated' <= d
  <2> SUFFICES ASSUME NEW e \in Waiting PROVE nCyclesEmulated' <= ringTime[e]
    BY <1>1 DEF Due
  <2>1. ringRead \in Entries /\ ringWrite \in Entries /\ ringTime \in [Entries -> Nat]
    BY DEF RingIInv, TypeOK
  <2>2. e \in Entries /\ Place(e) < Place(ringWrite)
    BY WaitingIs DEF RingIInv, Place
  <2>3. Place(e) \in Nat /\ Place(ringRead) = 0
    BY <2>1, <2>2, PosFacts DEF Place
  <2>4. ringRead # ringWrite
    BY <2>1, <2>2, <2>3
  <2>5. ringRead \in Waiting
    BY <2>4, FirstIsWaiting DEF RingIInv
  <2>6. ringTime[ringRead] + (Place(e) - Place(ringRead)) <= ringTime[e]
    BY <1>1, <2>3, <2>5 DEF RingIInv, QueueIInv, Apart, Started
  <2> QED BY <1>1, <1>3, <2>1, <2>2, <2>3, <2>4, <2>6
<1>5. nCyclesEmulated' > nCyclesEmulated
    BY <1>1, <1>3
<1> QED BY <1>2, <1>4, <1>5 DEF Timeline!Advance, Due

LEMMA ApplyIsHear ==
    ASSUME RingIInv, ApplyWrite
    PROVE  Timeline!Hear
<1>1. /\ ringRead \in Waiting /\ Waiting' = Waiting \ {ringRead}
      /\ ringTime' = ringTime /\ ringTime[ringRead] = nCyclesEmulated
    BY ApplyRemoves
<1>2. pc = "write" /\ pc' \in {"write", "sample"} /\ nCyclesEmulated' = nCyclesEmulated
    BY DEF ApplyWrite
<1>3. \A e \in Waiting : e # ringRead => ringTime[e] # ringTime[ringRead]
  <2> SUFFICES ASSUME NEW e \in Waiting, e # ringRead
               PROVE  ringTime[e] # ringTime[ringRead]
    OBVIOUS
  <2>1. ringRead \in Entries /\ ringTime \in [Entries -> Nat]
    BY DEF RingIInv, TypeOK
  <2>2. e \in Entries
    BY WaitingIs DEF RingIInv
  <2>3. Place(e) \in Nat /\ Place(e) # 0 /\ Place(ringRead) = 0
    BY <2>1, <2>2, PosFacts DEF Place
  <2>4. ringTime[ringRead] + (Place(e) - Place(ringRead)) <= ringTime[e]
    BY <1>1, <1>2, <2>3 DEF RingIInv, QueueIInv, Apart, Started
  <2> QED BY <2>1, <2>2, <2>3, <2>4
<1>4. Due = {ringTime[e] : e \in Waiting} /\ Due' = {ringTime[e] : e \in Waiting'}
    BY <1>1, <1>2 DEF Due
<1>5. Due' = Due \ {nCyclesEmulated} /\ nCyclesEmulated \in Due
    BY <1>1, <1>3, <1>4
<1> QED BY <1>2, <1>5 DEF Timeline!Hear, Due

(* Every write to a sound chip is applied in its own cycle, in order and    *)
(* once, however the FIQ handler and the emulation interleave               *)
(* (KernelSIDFIQHandler and the main loop of KernelSIDRun): the ring        *)
(* implements the timeline, as long as the loop stays within Lag.           *)
THEOREM SoundImplementsTimeline == Spec => TimelineSpec
<1>1. Init => Timeline!Init
    BY DEF Init, Timeline!Init
<1>2. RingIInv /\ [Next]_vars => [Timeline!Next]_(Timeline!vars)
  <2> SUFFICES ASSUME RingIInv, [Next]_vars
               PROVE  Timeline!Next \/ (nCyclesEmulated' = nCyclesEmulated /\ Due' = Due)
    BY DEF Timeline!vars, Due
  <2>1. CASE WriteRegister
    <3>1. CASE Started
        BY <2>1, <3>1, WriteIsWrite DEF Timeline!Next
    <3>2. CASE ~Started
        BY <2>1, <3>2 DEF WriteRegister, Cycle, main, Due, Started
    <3> QED BY <3>1, <3>2
  <2>2. CASE ClockChips
    BY <2>2, ClockIsAdvance DEF Timeline!Next
  <2>3. CASE ApplyWrite
    BY <2>3, ApplyIsHear DEF Timeline!Next
  <2>4. CASE Restart
    BY <2>4 DEF Restart, Timeline!Next, Timeline!Restart
  <2>5. CASE ClearRing
    <3>1. /\ pc = "clear" /\ pc' = "main" /\ ringWrite' = 0 /\ ringRead' = 0
          /\ nCyclesEmulated' = nCyclesEmulated
        BY <2>5 DEF ClearRing
    <3>2. Waiting' = {}
        BY <3>1 DEF Waiting
    <3> QED BY <3>1, <3>2 DEF Due
  <2>6. CASE ClearCounters
    BY <2>6 DEF ClearCounters, Due
  <2>7. CASE ReadRegister \/ OtherCycle \/ ResetC64 \/ UNCHANGED vars
    <3>1. UNCHANGED <<ring, pc, nCyclesEmulated>>
        BY <2>7 DEF ReadRegister, OtherCycle, ResetC64, Cycle, ring, main, vars
    <3> QED BY <3>1, SameDue
  <2>8. CASE ReadClock \/ While \/ Choose \/ EndStep
    <3>1. /\ UNCHANGED <<ring, nCyclesEmulated>>
          /\ pc \notin {"launch", "clear"} /\ pc' \notin {"launch", "clear"}
        BY <2>8 DEF ReadClock, While, Choose, EndStep
    <3> QED BY <3>1, SameDue
  <2> QED BY <2>1, <2>2, <2>3, <2>4, <2>5, <2>6, <2>7, <2>8 DEF Next
<1> QED BY <1>1, <1>2, RingInductive, PTL DEF Spec, TimelineSpec, Timeline!Spec

(***************************************************************************)
(* How far the output is behind                                            *)
(***************************************************************************)
LEMMA Euclid ==
    ASSUME NEW n \in Int, NEW s \in Int, s > 0
    PROVE  n = s * (n \div s) + (n % s) /\ n % s >= 0 /\ n % s < s
OBVIOUS

LEMMA SamplesIs ==
    \A n \in Nat : \E r \in Nat : r < Clock /\ n * Rate = Clock * Samples(n) + r
<1> SUFFICES ASSUME NEW n \in Nat
             PROVE  \E r \in Nat : r < Clock /\ n * Rate = Clock * Samples(n) + r
    OBVIOUS
<1> DEFINE m == n * Rate
<1>1. m \in Int /\ Clock \in Int /\ Clock > 0
    BY RatesAssumption, ProductTyped
<1> HIDE DEF m
<1>2. m = Clock * (m \div Clock) + (m % Clock) /\ m % Clock >= 0 /\ m % Clock < Clock
    BY <1>1, Euclid
<1>3. m % Clock \in Nat
    BY <1>1, <1>2
<1>4. Samples(n) = m \div Clock
    BY DEF Samples, m
<1> QED BY <1>2, <1>3, <1>4 DEF m

LEMMA Multiples ==
    ASSUME NEW p \in Nat, NEW q \in Nat, p < q
    PROVE  Clock * p \in Nat /\ Clock * q \in Nat /\ Clock * p + Clock <= Clock * q
<1> DEFINE k == q - p - 1
<1>0. Clock \in Nat
    BY RatesAssumption
<1>1. k \in Nat /\ q = p + 1 + k
    OBVIOUS
<1> HIDE DEF k
<1>2. Clock * k \in Nat /\ Clock * p \in Nat
    BY <1>0, <1>1
<1>3. Clock * (p + 1 + k) = Clock * p + Clock + Clock * k
    BY <1>0, <1>1
<1> QED BY <1>0, <1>1, <1>2, <1>3

(* A row of accesses and the cycle after it are shorter than a sample.      *)
LEMMA RowIsShort ==
    ASSUME NEW d \in Nat, d <= LongestRow + 1
    PROVE  d * Rate \in Nat /\ d * Rate < Clock
<1> DEFINE k == (LongestRow + 1) - d
<1>1. Rate \in Nat /\ Clock \in Nat /\ LongestRow \in Nat /\ (LongestRow + 1) * Rate < Clock
    BY RatesAssumption
<1>2. k \in Nat /\ LongestRow + 1 = d + k
    BY <1>1
<1> HIDE DEF k
<1>3. (d + k) * Rate = d * Rate + k * Rate /\ d * Rate \in Nat /\ k * Rate \in Nat
    BY <1>1, <1>2
<1>4. (d + k) * Rate < Clock
    BY <1>1, <1>2
<1> QED BY <1>1, <1>3, <1>4

(* More cycles do not make fewer samples, a row and the cycle after it make *)
(* one more at most, and the first cycles of that number make none.         *)
LEMMA SamplesGrow ==
    ASSUME NEW n \in Nat, NEW d \in Nat
    PROVE  /\ Samples(n) <= Samples(n + d)
           /\ d <= LongestRow + 1 => Samples(n + d) <= Samples(n) + 1
<1> DEFINE p == Samples(n)
           q == Samples(n + d)
           x == n * Rate
           y == d * Rate
<1>1. p \in Nat /\ q \in Nat
    BY SamplesTyped
<1>2. PICK r \in Nat : r < Clock /\ x = Clock * p + r
    BY SamplesIs
<1>3. PICK t \in Nat : t < Clock /\ (n + d) * Rate = Clock * q + t
    BY SamplesIs
<1>4. Rate \in Nat /\ Clock \in Nat
    BY RatesAssumption
<1>5. x \in Nat /\ y \in Nat /\ (n + d) * Rate = x + y
    BY <1>4
<1>6. d <= LongestRow + 1 => y < Clock
    BY RowIsShort
<1> HIDE DEF p, q, x, y
<1>7. ~(q < p)
  <2> SUFFICES ASSUME q < p PROVE FALSE
    OBVIOUS
  <2>1. Clock * q + Clock <= Clock * p /\ Clock * p \in Nat /\ Clock * q \in Nat
    BY <1>1, Multiples
  <2> QED BY <1>2, <1>3, <1>4, <1>5, <2>1
<1>8. d <= LongestRow + 1 => ~(p + 1 < q)
  <2> SUFFICES ASSUME d <= LongestRow + 1, p + 1 < q PROVE FALSE
    OBVIOUS
  <2>1. Clock * (p + 1) + Clock <= Clock * q /\ Clock * (p + 1) \in Nat /\ Clock * q \in Nat
    BY <1>1, Multiples
  <2>2. Clock * (p + 1) = Clock * p + Clock /\ Clock * p \in Nat
    BY <1>1, <1>4
  <2> QED BY <1>2, <1>3, <1>4, <1>5, <1>6, <2>1, <2>2
<1> QED BY <1>1, <1>7, <1>8 DEF p, q

LEMMA FirstSamples == \A n \in 0 .. LongestRow + 1 : Samples(n) = 0
<1> SUFFICES ASSUME NEW n \in 0 .. LongestRow + 1, Samples(n) # 0 PROVE FALSE
    OBVIOUS
<1>1. n \in Nat /\ n <= LongestRow + 1 /\ Clock \in Nat
    BY RatesAssumption
<1>2. Samples(n) \in Nat /\ 0 < Samples(n)
    BY <1>1, SamplesTyped
<1>3. PICK r \in Nat : r < Clock /\ n * Rate = Clock * Samples(n) + r
    BY <1>1, SamplesIs
<1>4. Clock * 0 + Clock <= Clock * Samples(n) /\ Clock * Samples(n) \in Nat
    BY <1>2, Multiples
<1>5. n * Rate \in Nat /\ n * Rate < Clock /\ Clock * 0 = 0
    BY <1>1, RowIsShort
<1> QED BY <1>1, <1>3, <1>4, <1>5

(* Nor do no cycles at all.                                                 *)
LEMMA NoSamples == Samples(0) = 0
BY FirstSamples, RatesAssumption

(* Every sample that is put belongs to a cycle that has been emulated, and  *)
(* every sample up to the last cycle without an access to a sound chip has  *)
(* had its turn.                                                            *)
StoredIInv == stored <= samplesElapsed /\ samplesElapsed <= Samples(nCyclesEmulated)
             /\ (pc \in {"choose", "clock", "write", "sample"} => before = samplesElapsed)

TurnsIInv ==
    row < cycleCountC64 => /\ samplesElapsedBeforeFIQ = Samples(cycleCountC64 - row)
                           /\ samplesElapsedBeforeFIQ <= played + empty

OutputIInv == RingIInv /\ StoredIInv /\ TurnsIInv

LEMMA StoredStep ==
    ASSUME OutputIInv, [Next]_vars
    PROVE  StoredIInv'
<1> USE DEF OutputIInv, StoredIInv, RingIInv, TypeOK, output, main
<1>0. Samples(0) = 0
    BY NoSamples
<1>1. CASE WriteRegister \/ ReadRegister \/ OtherCycle \/ ResetC64 \/ UNCHANGED vars
  <2>1. UNCHANGED <<stored, samplesElapsed, nCyclesEmulated, pc, before>>
    BY <1>1 DEF WriteRegister, ReadRegister, OtherCycle, ResetC64, Cycle, vars
  <2> QED BY <2>1
<1>2. CASE ClearCounters \/ ClearRing \/ ReadClock \/ Choose \/ ApplyWrite
  <2>1. UNCHANGED <<stored, samplesElapsed, nCyclesEmulated, before>>
        /\ (pc' \in {"clear", "main", "while"} \/ pc \in {"choose", "write"})
    BY <1>2 DEF ClearCounters, ClearRing, ReadClock, Choose, ApplyWrite
  <2> QED BY <2>1
<1>3. CASE While
    BY <1>3 DEF While
<1>4. CASE Restart
    BY <1>0, <1>4 DEF Restart
<1>5. CASE ClockChips
  <2>1. /\ UNCHANGED <<stored, samplesElapsed, before>> /\ pc = "clock"
        /\ nCyclesEmulated' = nCyclesEmulated + toEmulate
    BY <1>5 DEF ClockChips
  <2>2. Samples(nCyclesEmulated) <= Samples(nCyclesEmulated + toEmulate)
    BY SamplesGrow
  <2>3. Samples(nCyclesEmulated) \in Nat /\ Samples(nCyclesEmulated + toEmulate) \in Nat
    BY SamplesTyped
  <2> QED BY <2>1, <2>2, <2>3
<1>6. CASE EndStep
  <2>1. /\ samplesElapsed' = Samples(nCyclesEmulated) /\ nCyclesEmulated' = nCyclesEmulated
        /\ before = samplesElapsed
        /\ pc' \in {"while", "choose"} /\ (pc' = "choose" => before' = before /\ ~MakesSample)
        /\ stored' = IF MakesSample THEN stored + 1 ELSE stored
    BY <1>6 DEF EndStep
  <2>2. Samples(nCyclesEmulated) \in Nat
    BY SamplesTyped
  <2>3. MakesSample <=> Samples(nCyclesEmulated) # samplesElapsed
    BY <2>1 DEF MakesSample
  <2> QED BY <2>1, <2>2, <2>3
<1> QED BY <1>1, <1>2, <1>3, <1>4, <1>5, <1>6 DEF Next

LEMMA TurnsStep ==
    ASSUME OutputIInv, [Next]_vars
    PROVE  TurnsIInv'
<1> USE DEF OutputIInv, TurnsIInv, RingIInv, TypeOK, output
<1>1. CASE WriteRegister \/ ReadRegister
    BY <1>1 DEF WriteRegister, ReadRegister, Cycle
<1>2. CASE OtherCycle
  <2>1. /\ cycleCountC64' = cycleCountC64 + 1 /\ row' = 0
        /\ samplesElapsedBeforeFIQ' = Samples(cycleCountC64 + 1)
        /\ IF samplesElapsedBeforeFIQ' = samplesElapsedBeforeFIQ
             THEN played' + empty' = played + empty
             ELSE played' + empty' = played + empty + 1
    BY <1>2 DEF OtherCycle, Cycle
  <2>2. played' + empty' >= 0 /\ Samples(cycleCountC64 + 1) \in Nat
    BY <2>1, SamplesTyped
  <2>3. CASE row < cycleCountC64
    <3> DEFINE n == cycleCountC64 - row
               d == row + 1
    <3>1. n \in Nat /\ d \in Nat /\ d <= LongestRow + 1 /\ n + d = cycleCountC64 + 1
        BY <2>3, RatesAssumption
    <3> HIDE DEF n, d
    <3>2. Samples(n + d) <= Samples(n) + 1 /\ Samples(n) \in Nat
        BY <3>1, SamplesGrow, SamplesTyped
    <3>3. samplesElapsedBeforeFIQ = Samples(n) /\ samplesElapsedBeforeFIQ <= played + empty
        BY <2>3 DEF n
    <3>4. Samples(n) <= Samples(n + d)
        BY <3>1, SamplesGrow
    <3> QED BY <2>1, <2>2, <3>1, <3>2, <3>3, <3>4
  <2>4. CASE ~(row < cycleCountC64)
    <3>1. cycleCountC64 + 1 \in 0 .. LongestRow + 1
        BY <2>4, RatesAssumption
    <3>2. Samples(cycleCountC64 + 1) = 0
        BY <3>1, FirstSamples
    <3> QED BY <2>1, <2>2, <3>2
  <2> QED BY <2>3, <2>4
<1>3. CASE ClearCounters \/ Restart
    BY <1>3 DEF ClearCounters, Restart
<1>4. CASE \/ ResetC64 \/ ClearRing \/ ReadClock \/ While \/ Choose \/ ClockChips \/ ApplyWrite
           \/ EndStep \/ UNCHANGED vars
  <2>1. UNCHANGED <<cycleCountC64, row, samplesElapsedBeforeFIQ, played, empty>>
    BY <1>4 DEF ResetC64, ClearRing, ReadClock, While, Choose, ClockChips, ApplyWrite, EndStep,
                vars
  <2> QED BY <2>1
<1> QED BY <1>1, <1>2, <1>3, <1>4 DEF Next

LEMMA OutputKept ==
    ASSUME OutputIInv
    PROVE  Backlog
<1>1. /\ stored \in Nat /\ played \in Nat /\ empty \in Nat /\ samplesElapsed \in Nat
      /\ nCyclesEmulated \in Nat /\ cycleCountC64 \in Nat /\ row \in 0 .. LongestRow
      /\ LongestRow \in Nat
    BY RatesAssumption DEF OutputIInv, RingIInv, TypeOK
<1>2. nCyclesEmulated <= cycleCountC64
    BY <1>1 DEF OutputIInv, RingIInv, ClockIInv, Started
<1>3. stored <= Samples(cycleCountC64)
  <2> DEFINE d == cycleCountC64 - nCyclesEmulated
  <2>1. d \in Nat /\ nCyclesEmulated + d = cycleCountC64
    BY <1>1, <1>2
  <2> HIDE DEF d
  <2>2. Samples(nCyclesEmulated) <= Samples(cycleCountC64)
    BY <1>1, <2>1, SamplesGrow
  <2>3. Samples(nCyclesEmulated) \in Nat /\ Samples(cycleCountC64) \in Nat
    BY <1>1, SamplesTyped
  <2> QED BY <1>1, <2>2, <2>3 DEF OutputIInv, StoredIInv
<1>4. CASE row < cycleCountC64
  <2> DEFINE n == cycleCountC64 - row
  <2>1. n \in Nat /\ n + row = cycleCountC64 /\ row \in Nat /\ row <= LongestRow + 1
    BY <1>1, <1>4
  <2>2. samplesElapsedBeforeFIQ = Samples(n) /\ samplesElapsedBeforeFIQ <= played + empty
    BY <1>4 DEF OutputIInv, TurnsIInv
  <2> HIDE DEF n
  <2>3. Samples(cycleCountC64) <= Samples(n) + 1
    BY <2>1, SamplesGrow
  <2>4. Samples(n) \in Nat /\ Samples(cycleCountC64) \in Nat
    BY <1>1, <2>1, SamplesTyped
  <2> QED BY <1>1, <1>3, <2>2, <2>3, <2>4 DEF Backlog
<1>5. CASE ~(row < cycleCountC64)
  <2>1. cycleCountC64 \in 0 .. LongestRow + 1
    BY <1>1, <1>5
  <2>2. stored <= 0
    BY <1>3, <2>1, FirstSamples
  <2> QED BY <1>1, <2>2 DEF Backlog
<1> QED BY <1>4, <1>5

(* The sound is behind the emulation by one sample and by one for every     *)
(* turn that has found no sample (kernel_sid.cpp, putSample and getSample). *)
THEOREM BacklogBounded == Spec => []Backlog
<1>1. Init => OutputIInv
  <2>1. Init => StoredIInv /\ TurnsIInv
    BY NoSamples DEF Init, StoredIInv, TurnsIInv
  <2>2. Init => RingIInv
    BY InitInvariant
  <2> QED BY <2>1, <2>2 DEF OutputIInv
<1>2. OutputIInv /\ [Next]_vars => OutputIInv'
  <2>1. OutputIInv /\ [Next]_vars => RingIInv'
    BY ClockStep, QueueStep, StepsTyped DEF OutputIInv, RingIInv
  <2> QED BY <2>1, StoredStep, TurnsStep DEF OutputIInv
<1> QED BY <1>1, <1>2, OutputKept, PTL DEF Spec
=============================================================================
