---------------------------- MODULE CommandFifo ----------------------------
(***************************************************************************)
(* What the display queue of latch.h promises: the commands for the        *)
(* display's clock and data lines leave in the order in which the program  *)
(* put them in, each of them once.  Commands are counted, so that the      *)
(* state is two numbers: the commands put in and the last one that left.   *)
(* A restart of the SID kernel throws away what still waits.               *)
(***************************************************************************)
EXTENDS Naturals

VARIABLES put,   \* commands put in so far
          got    \* the last command that left the queue, 0 before the first

vars == <<put, got>>

Init == put = 0 /\ got = 0

Put == put' = put + 1 /\ UNCHANGED got

Get == got < put /\ got' = got + 1 /\ UNCHANGED put

Clear == got' = put /\ UNCHANGED put

Next == Put \/ Get \/ Clear

Spec == Init /\ [][Next]_vars
============================================================================
