----------------------------- MODULE ModemLine -----------------------------
(***************************************************************************)
(* What the line from the C64 to the emulated modem promises (net.cpp,     *)
(* m_modemOutputBuffer): characters are numbered as the C64 writes them,   *)
(* the modem takes them in this order, each of them at most once.  While   *)
(* the modem is connected none gets lost before it hangs up.  Without a    *)
(* connection a character may get lost, but only one that finds the line   *)
(* empty: what waits is never overtaken nor torn.                          *)
(***************************************************************************)
EXTENDS Naturals, Sequences

VARIABLES put,    \* characters written so far
          queue,  \* the numbers of those that wait
          open,   \* the modem is connected
          remote  \* the numbers of those that the remote host got

vars == <<put, queue, open, remote>>

Init == put = 0 /\ queue = <<>> /\ open = FALSE /\ remote = <<>>

Put ==
    /\ put' = put + 1
    /\ \/ queue' = Append(queue, put')
       \/ queue = <<>> /\ ~open /\ UNCHANGED queue
    /\ UNCHANGED <<open, remote>>

\* With a connection the remote host gets it, else it is part of a command,
\* which may connect
Take ==
    /\ queue # <<>> /\ queue' = Tail(queue)
    /\ open' \in {open, TRUE}
    /\ remote' = IF open THEN Append(remote, Head(queue)) ELSE remote
    /\ UNCHANGED put

Connect == ~open /\ open' = TRUE /\ UNCHANGED <<put, queue, remote>>

HangUp == open /\ open' = FALSE /\ queue' = <<>> /\ UNCHANGED <<put, remote>>

Next == Put \/ Take \/ Connect \/ HangUp

Spec == Init /\ [][Next]_vars
============================================================================
