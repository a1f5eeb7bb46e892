----------------------------- MODULE SidSound -----------------------------
(***************************************************************************)
(* The SID kernel (kernel_sid.cpp): the FIQ handler notes every write to a *)
(* register of a sound chip with the cycle it belongs to in a ring buffer, *)
(* the main loop emulates the chips behind the C64 and applies the writes, *)
(* and puts samples into a second ring buffer (sound.h), out of which the  *)
(* FIQ handler plays them.  Nothing but the clock of the C64 keeps the two *)
(* in step.                                                                *)
(*                                                                         *)
(* A write is its cycle: which chip and register it is for, and the value, *)
(* travel with it.  Samples are counted.  The handler is one action, the   *)
(* main loop one action for each stretch between two looks at what the     *)
(* handler changes.                                                        *)
(***************************************************************************)
EXTENDS Integers, FiniteSetsExt

CONSTANTS Ring,        \* entries of the ring in use: 2^14, see Succ
          SampleRing,  \* entries of sampleBuffer
          Clock, Rate, \* CLOCKFREQ and SAMPLERATE: Rate samples in Clock cycles
          Batch,       \* cycles emulated in one go at most (32)
          LongestRow,  \* accesses of the CPU to a sound chip in a row at most: an indexed
                       \* instruction reads, modifies and writes in four cycles (4)
          Slack,       \* cycles the emulation stays behind (20)
          Lag,         \* how far behind the real-time main loop may fall
          MaxCycles,   \* bound: cycles from one start to the next
          MaxResets    \* bound: resets

ASSUME SizesAssumption ==
    /\ Ring \in Nat /\ Lag \in Nat /\ Lag + 2 <= Ring /\ SampleRing \in Nat \ {0}
    /\ Batch \in Nat \ {0} /\ Slack \in Nat
\* The first cycle after a row of accesses is never two samples late
ASSUME RatesAssumption ==
    /\ Clock \in Nat \ {0} /\ Rate \in Nat \ {0} /\ LongestRow \in Nat
    /\ (LongestRow + 1) * Rate < Clock
ASSUME BoundsAssumption == MaxCycles \in Nat /\ MaxResets \in Nat

VARIABLES
    cycleCountC64,
    ringTime, ringWrite, ringRead,
    nCyclesEmulated, samplesElapsed,
    pc,                         \* where the main loop is
    cycleCount,                 \* its copy of cycleCountC64
    before,                     \* samplesElapsedBefore
    toNextSample,               \* cyclesToNextSample
    toEmulate,                  \* cyclesToEmulate
    smpCur, smpLast,
    samplesElapsedBeforeFIQ,
    row,                        \* accesses to a sound chip in a row up to now
    resetReleased,
    stored, played, empty,      \* history: samples put, taken, and turns without one
    resets

ring == <<ringTime, ringWrite, ringRead>>
main == <<pc, cycleCount, before, toNextSample, toEmulate>>
output == <<smpCur, smpLast, samplesElapsedBeforeFIQ, stored, played, empty>>
vars == <<cycleCountC64, ring, nCyclesEmulated, samplesElapsed, main, output, row,
          resetReleased, resets>>

Entries == 0 .. Ring - 1

TypeOK ==
    /\ cycleCountC64 \in Nat /\ nCyclesEmulated \in Nat /\ samplesElapsed \in Nat
    /\ ringTime \in [Entries -> Nat] /\ ringWrite \in Entries /\ ringRead \in Entries
    /\ pc \in {"launch", "clear", "main", "while", "choose", "clock", "write", "sample"}
    /\ cycleCount \in Nat /\ before \in Nat /\ toNextSample \in Int /\ toEmulate \in Nat
    /\ smpCur \in 0 .. SampleRing - 1 /\ smpLast \in 0 .. SampleRing - 1
    /\ samplesElapsedBeforeFIQ \in Nat /\ row \in 0 .. LongestRow /\ resetReleased \in BOOLEAN
    /\ stored \in Nat /\ played \in Nat /\ empty \in Nat /\ resets \in Nat

Init ==
    /\ cycleCountC64 = 0 /\ nCyclesEmulated = 0 /\ samplesElapsed = 0
    /\ ringTime = [e \in Entries |-> 0] /\ ringWrite = 0 /\ ringRead = 0
    /\ pc = "launch" /\ cycleCount = 0 /\ before = 0 /\ toNextSample = 0 /\ toEmulate = 0
    /\ smpCur = 0 /\ smpLast = 0 /\ samplesElapsedBeforeFIQ = 0
    /\ row = 0 /\ resetReleased = FALSE
    /\ stored = 0 /\ played = 0 /\ empty = 0 /\ resets = 0

\* RING_SIZE is 5 * 2^14, and x & ( RING_SIZE - 1 ) keeps the lower 14 bits of
\* the x that occur: the counters run through the first 2^14 entries only
Succ(x) == IF x + 1 = Ring THEN 0 ELSE x + 1

Samples(cycles) == (cycles * Rate) \div Clock

(***************************************************************************)
(* KernelSIDFIQHandler, once a cycle of the C64.  Until the main loop has  *)
(* begun, the ring may overflow; from then on the main loop is fast enough *)
(* to stay within Lag.                                                     *)
(***************************************************************************)
Cycle ==
    /\ cycleCountC64 < MaxCycles
    /\ pc = "launch" \/ cycleCountC64 - nCyclesEmulated < Lag
    /\ cycleCountC64' = cycleCountC64 + 1
    /\ UNCHANGED <<nCyclesEmulated, samplesElapsed, main, ringRead, resetReleased, resets>>

\* Neither a write nor, with cfgRegisterRead, a read comes to getSample
WriteRegister ==
    /\ Cycle /\ row < LongestRow /\ row' = row + 1
    /\ ringTime' = [ringTime EXCEPT ![ringWrite] = cycleCountC64 + 1]
    /\ ringWrite' = Succ(ringWrite)
    /\ UNCHANGED output

ReadRegister ==
    /\ Cycle /\ row < LongestRow /\ row' = row + 1
    /\ UNCHANGED <<ringTime, ringWrite, output>>

\* getSample, when the clock says so
OtherCycle ==
    /\ Cycle /\ row' = 0
    /\ samplesElapsedBeforeFIQ' = Samples(cycleCountC64 + 1)
    /\ IF samplesElapsedBeforeFIQ' = samplesElapsedBeforeFIQ
         THEN UNCHANGED <<smpLast, played, empty>>
       ELSE IF smpLast = smpCur
         THEN empty' = empty + 1 /\ UNCHANGED <<smpLast, played>>
       ELSE smpLast' = (smpLast + 1) % SampleRing /\ played' = played + 1 /\ UNCHANGED empty
    /\ UNCHANGED <<ringTime, ringWrite, smpCur, stored>>

\* The C64 has been reset for more than 100 cycles
ResetC64 ==
    /\ pc \notin {"launch", "clear"} /\ ~resetReleased /\ resets < MaxResets
    /\ resetReleased' = TRUE /\ resets' = resets + 1
    /\ UNCHANGED <<cycleCountC64, ring, nCyclesEmulated, samplesElapsed, main, output, row>>

(***************************************************************************)
(* KernelSIDRun.  "launch": the C64 loads the program and starts it.  Then *)
(* the main loop begins with empty counters and an empty ring; the handler *)
(* may run between the two assignments.                                    *)
(***************************************************************************)
ClearCounters ==
    /\ pc = "launch" /\ pc' = "clear" /\ cycleCountC64' = 0
    /\ UNCHANGED <<ring, nCyclesEmulated, samplesElapsed, cycleCount, before, toNextSample,
                   toEmulate, output, row, resetReleased, resets>>

ClearRing ==
    /\ pc = "clear" /\ pc' = "main" /\ ringWrite' = 0 /\ ringRead' = 0
    /\ UNCHANGED <<cycleCountC64, ringTime, nCyclesEmulated, samplesElapsed, cycleCount, before,
                   toNextSample, toEmulate, output, row, resetReleased, resets>>

\* quitSID, and everything from startHereAfterReset on, with the FIQ off
Restart ==
    /\ pc = "main" /\ resetReleased
    /\ pc' = "launch" /\ resetReleased' = FALSE
    /\ cycleCountC64' = 0 /\ nCyclesEmulated' = 0 /\ samplesElapsed' = 0
    /\ ringTime' = [e \in Entries |-> 0] /\ ringWrite' = 0 /\ ringRead' = 0
    /\ smpCur' = 0 /\ smpLast' = 0 /\ stored' = 0 /\ played' = 0 /\ empty' = 0
    /\ UNCHANGED <<cycleCount, before, toNextSample, toEmulate, samplesElapsedBeforeFIQ, row,
                   resets>>

ReadClock ==
    /\ pc = "main" /\ ~resetReleased
    /\ pc' = "while" /\ cycleCount' = cycleCountC64
    /\ UNCHANGED <<cycleCountC64, ring, nCyclesEmulated, samplesElapsed, before, toNextSample,
                   toEmulate, output, row, resetReleased, resets>>

\* while ( cycleCount > nCyclesEmulated + 20 )
While ==
    /\ pc = "while"
    /\ IF cycleCount > nCyclesEmulated + Slack
         THEN /\ pc' = "choose" /\ before' = samplesElapsed
              /\ toNextSample' = ((samplesElapsed + 1) * Clock) \div Rate - nCyclesEmulated
              /\ UNCHANGED cycleCount
         ELSE pc' = "main" /\ cycleCount' = 0 /\ UNCHANGED <<before, toNextSample>>
    /\ UNCHANGED <<cycleCountC64, ring, nCyclesEmulated, samplesElapsed, toEmulate, output, row,
                   resetReleased, resets>>

\* What limits cyclesToEmulate; a negative toNextSample is a very large one
Limits ==
    {Batch, cycleCount - nCyclesEmulated}
      \cup {m \in {toNextSample} : m >= 0}
      \cup {ringTime[e] - nCyclesEmulated :
              e \in {r \in {ringRead} : r # ringWrite /\ ringTime[r] > nCyclesEmulated}}

\* Slip: the next write in the ring is no limit
Slip_ChosenCycles ==
    Max({1, Min({Batch, cycleCount - nCyclesEmulated} \cup {m \in {toNextSample} : m >= 0})})

ChosenCycles == Max({1, Min(Limits)})

Choose ==
    /\ pc = "choose" /\ pc' = "clock" /\ toEmulate' = ChosenCycles
    /\ UNCHANGED <<cycleCountC64, ring, nCyclesEmulated, samplesElapsed, cycleCount, before,
                   toNextSample, output, row, resetReleased, resets>>

\* The write in entry r has its turn
Reached(r, cycles) == r # ringWrite /\ cycles >= ringTime[r]

ClockChips ==
    /\ pc = "clock"
    /\ nCyclesEmulated' = nCyclesEmulated + toEmulate
    /\ toNextSample' = toNextSample - toEmulate /\ toEmulate' = 0
    /\ pc' = IF Reached(ringRead, nCyclesEmulated') THEN "write" ELSE "sample"
    /\ UNCHANGED <<cycleCountC64, ring, samplesElapsed, cycleCount, before, output, row,
                   resetReleased, resets>>

\* quicklyGetAnotherRegisterWrite
ApplyWrite ==
    /\ pc = "write"
    /\ ringRead' = Succ(ringRead)
    /\ pc' = IF Reached(ringRead', nCyclesEmulated) THEN "write" ELSE "sample"
    /\ UNCHANGED <<cycleCountC64, ringTime, ringWrite, nCyclesEmulated, samplesElapsed,
                   cycleCount, before, toNextSample, toEmulate, output, row, resetReleased,
                   resets>>

\* Slip: every step makes a sample
Slip_MakesSample == TRUE

MakesSample == Samples(nCyclesEmulated) # before

\* putSample, if the cycles that are emulated now make one.  The variables of
\* the loop's body end with it.
EndStep ==
    /\ pc = "sample"
    /\ samplesElapsed' = Samples(nCyclesEmulated)
    /\ IF MakesSample
         THEN smpCur' = (smpCur + 1) % SampleRing /\ stored' = stored + 1
         ELSE UNCHANGED <<smpCur, stored>>
    /\ IF MakesSample \/ nCyclesEmulated >= cycleCount
         THEN pc' = "while" /\ before' = 0 /\ toNextSample' = 0
         ELSE pc' = "choose" /\ UNCHANGED <<before, toNextSample>>
    /\ UNCHANGED <<cycleCountC64, ring, nCyclesEmulated, cycleCount, toEmulate, smpLast,
                   samplesElapsedBeforeFIQ, played, empty, row, resetReleased, resets>>

Next ==
    \/ WriteRegister \/ ReadRegister \/ OtherCycle \/ ResetC64
    \/ ClearCounters \/ ClearRing \/ Restart \/ ReadClock \/ While \/ Choose \/ ClockChips
    \/ ApplyWrite \/ EndStep

Spec == Init /\ [][Next]_vars
-----------------------------------------------------------------------------
(***************************************************************************)
(* Properties                                                              *)
(***************************************************************************)
\* The entries of the ring whose writes have not been applied
Waiting ==
    IF ringRead <= ringWrite THEN ringRead .. ringWrite - 1
    ELSE (ringRead .. Ring - 1) \cup (0 .. ringWrite - 1)

\* From the start of the main loop on, every write to a sound chip reaches its
\* emulation in its own cycle, in order and once: neither is the emulation ever
\* ahead of the C64, nor does one step of it pass a write, nor does the ring lose one.
Timeline == INSTANCE SidTimeline
              WITH clock <- nCyclesEmulated,
                   due <- IF pc \in {"launch", "clear"} THEN {} ELSE {ringTime[e] : e \in Waiting}
TimelineSpec == Timeline!Spec

\* Each turn that finds no sample makes the sound one sample later for good, and
\* nothing else does: that is how far the output is behind the emulation at most.
Backlog == stored - played <= empty + 1
=============================================================================
