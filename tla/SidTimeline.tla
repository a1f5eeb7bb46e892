---------------------------- MODULE SidTimeline ----------------------------
(***************************************************************************)
(* What the SID kernel promises a program: every value that it writes into *)
(* a register of a sound chip reaches the emulated chip in the very cycle  *)
(* in which the program has written it, however far the emulation is       *)
(* behind the C64.                                                         *)
(***************************************************************************)
EXTENDS Integers

VARIABLES clock,  \* the cycle up to which the chips are emulated
          due     \* the cycles of the writes that have not reached them

vars == <<clock, due>>

Init == clock = 0 /\ due = {}

\* The program's writes come one after the other, and the emulation is behind
Write ==
    \E t \in due' :
       /\ t > clock /\ \A d \in due : d < t
       /\ due' = due \cup {t} /\ UNCHANGED clock

\* No write is passed
Advance ==
    /\ clock' > clock /\ \A d \in due : clock' <= d
    /\ UNCHANGED due

Hear == clock \in due /\ due' = due \ {clock} /\ UNCHANGED clock

\* The C64 is reset
Restart == clock' = 0 /\ due' = {}

Next == Write \/ Advance \/ Hear \/ Restart

Spec == Init /\ [][Next]_vars
=============================================================================
