----------------------------- MODULE SwiftLink -----------------------------
(***************************************************************************)
(* The emulated SwiftLink modem (kernel_launch.cpp, net.cpp).  A terminal  *)
(* program on the C64 writes and reads one data register; the FIQ handler  *)
(* puts what it writes into m_modemOutputBuffer and hands out              *)
(* swiftLinkResponse.  The main loop takes the characters out, as commands *)
(* for the modem or as data for the remote host, fetches what the host     *)
(* sends into m_modemInputBuffer, and moves that on, a byte at a time, into*)
(* swiftLinkResponse, with an NMI for the C64.                             *)
(*                                                                         *)
(* The network is served with the FIQ handler off.  So that no access gets *)
(* lost in the meantime the handler halts the C64 by DMA; the main loop    *)
(* releases it afterwards.  Without a connection the main loop reads the   *)
(* buffer while the handler may write to it.                               *)
(*                                                                         *)
(* Keys stand for what the user types: "dial" is an ATD command with its   *)
(* argument, "other" any other text, "plus" one '+', "cr" is RETURN.  They *)
(* are numbered, and so are the bytes of the remote host; a byte of a      *)
(* message of the modem itself (echo, ERROR, CONNECT) is Text.             *)
(***************************************************************************)
EXTENDS Naturals, Sequences

CONSTANTS Scripts,      \* what may be typed: sequences of keys
          MaxRemote,    \* bound: bytes the remote host sends
          Nuls,         \* those of them that are zero
          NmiDelay,     \* swiftLinkNmiDelay
          KeepLow,      \* turns of the main loop for which NMI is low
          MaxLaunches   \* bound: programs launched

Keys == {"dial", "other", "plus", "cr"}

ASSUME ScriptsAssumption == Scripts \subseteq Seq(Keys)
ASSUME RemoteAssumption == MaxRemote \in Nat /\ Nuls \subseteq 1 .. MaxRemote
ASSUME TimesAssumption ==
    NmiDelay \in Nat \ {0} /\ KeepLow \in Nat \ {0} /\ MaxLaunches \in Nat \ {0}

VARIABLES
    script, typed,     \* what the user types, and how much of it is typed
    kernel,            \* "launch" or "menu": the kernel that runs
    loaded,            \* disableCart: the program is in the C64
    unlocked,          \* swiftLinkEnabled
    pc,                \* where the main loop is
    dma,               \* the C64 is halted
    releaseDMA,        \* swiftLinkReleaseDMA
    toMenu,            \* m_isReturnToMenuRequested
    out,               \* m_modemOutputBuffer from its position on
    written,           \* m_modemOutputBufferLength > 0
    command,           \* m_modemCommand: "", "dial" or "bad"
    dialled,           \* m_socketPort > 0
    connected, first,  \* m_isBBSSocketConnected, m_isBBSSocketFirstReceive
    plus,              \* m_BBSSocketDisconnectPlusCount
    inbuf,             \* m_modemInputBuffer from its position on
    wire, sent, closed, \* the remote host: bytes on the way, bytes sent
    response,          \* swiftLinkResponse
    doNMI, keepNMILow, \* the counters of the NMI
    interrupts,        \* swiftLinkRegisterCmd & 1
    c64,               \* what the terminal program does
    toRemote,          \* history: keys sent to the remote host
    shown,             \* history: bytes of the host that the C64 has read
    since, sinceKey,   \* history: bytes sent, keys typed before CONNECT; a byte
                       \* that is dropped by a new start of the launcher counts too
    launches

typing == <<script, typed>>
modem == <<command, dialled, connected, first, plus>>
host == <<wire, sent, closed>>
nmi == <<doNMI, keepNMILow>>
history == <<toRemote, shown, since, sinceKey>>
vars == <<typing, kernel, loaded, unlocked, pc, dma, releaseDMA, toMenu, out, written, modem,
          inbuf, host, response, nmi, interrupts, c64, history, launches>>

Text == MaxRemote + 1

TypeOK ==
    /\ script \in Scripts /\ typed \in 0 .. Len(script)
    /\ kernel \in {"launch", "menu"} /\ loaded \in BOOLEAN /\ unlocked \in BOOLEAN
    /\ pc \in {"loop", "net", "receive", "on", "reset", "answer", "nmi"}
    /\ dma \in BOOLEAN /\ releaseDMA \in BOOLEAN /\ toMenu \in BOOLEAN
    /\ out \in Seq(1 .. Len(script)) /\ written \in BOOLEAN
    /\ command \in {"", "dial", "bad"} /\ dialled \in BOOLEAN
    /\ connected \in BOOLEAN /\ first \in BOOLEAN /\ plus \in 0 .. 2
    /\ inbuf \in Seq(1 .. Text)
    /\ wire \in Seq(1 .. MaxRemote) /\ sent \in 0 .. MaxRemote /\ closed \in BOOLEAN
    /\ response \in 0 .. Text
    /\ doNMI \in 0 .. NmiDelay /\ keepNMILow \in 0 .. KeepLow /\ interrupts \in BOOLEAN
    /\ c64 \in {"idle", "status", "data"}
    /\ toRemote \in Seq(1 .. Len(script)) /\ shown \in Seq(1 .. MaxRemote)
    /\ since \in 0 .. MaxRemote /\ sinceKey \in 0 .. Len(script)
    /\ launches \in 1 .. MaxLaunches

Init ==
    /\ script \in Scripts /\ typed = 0
    /\ kernel = "launch" /\ loaded = FALSE /\ unlocked = FALSE /\ pc = "loop"
    /\ dma = FALSE /\ releaseDMA = FALSE /\ toMenu = FALSE
    /\ out = <<>> /\ written = FALSE
    /\ command = "" /\ dialled = FALSE /\ connected = FALSE /\ first = FALSE /\ plus = 0
    /\ inbuf = <<>> /\ wire = <<>> /\ sent = 0 /\ closed = FALSE
    /\ response = 0 /\ doNMI = 0 /\ keepNMILow = 0 /\ interrupts = FALSE
    /\ c64 = "idle"
    /\ toRemote = <<>> /\ shown = <<>> /\ since = 0 /\ sinceKey = 0
    /\ launches = 1

(***************************************************************************)
(* The C64 and the FIQ handler.  An access while the handler is off would  *)
(* not be seen: none is modelled, NoAccessLost says that there is none.    *)
(***************************************************************************)
HandlerOn == kernel = "launch" /\ pc \notin {"net", "receive"}

Terminal == HandlerOn /\ loaded /\ unlocked /\ ~dma

\* CLR_GPIO( bDMA ), or not
Halt(b) ==
    /\ dma' = b
    /\ releaseDMA' = (b \/ releaseDMA)

\* A read finds nothing left to read, or the delay has run out
HaltByRead == \E late \in BOOLEAN : Halt(connected /\ (inbuf = <<>> \/ late))

\* The program is fetched by the C64 (module PrgLaunch)
Load ==
    /\ HandlerOn /\ ~loaded /\ ~unlocked
    /\ loaded' = TRUE
    /\ UNCHANGED <<typing, kernel, unlocked, pc, dma, releaseDMA, toMenu, out, written, modem,
                   inbuf, host, response, nmi, interrupts, c64, history, launches>>

\* A write to the data register
Type ==
    /\ Terminal /\ typed < Len(script)
    /\ typed' = typed + 1
    /\ out' = Append(out, typed') /\ written' = TRUE
    /\ Halt(connected \/ script[typed'] = "cr")
    /\ UNCHANGED <<script, kernel, loaded, unlocked, pc, toMenu, modem, inbuf, host, response,
                   nmi, interrupts, c64, history, launches>>

\* A write to the command register
EnableReceive ==
    /\ Terminal /\ ~interrupts
    /\ interrupts' = TRUE
    /\ \E late \in BOOLEAN : Halt(late /\ connected /\ response = 0 /\ inbuf = <<>>)
    /\ UNCHANGED <<typing, kernel, loaded, unlocked, pc, toMenu, out, written, modem, inbuf,
                   host, response, nmi, c64, history, launches>>

\* The C64 looks at the status register, as an NMI tells it or on its own
ReadStatus ==
    /\ Terminal /\ c64 \in {"idle", "status"}
    /\ c64' = IF response = 0 THEN "idle" ELSE "data"
    /\ HaltByRead
    /\ UNCHANGED <<typing, kernel, loaded, unlocked, pc, toMenu, out, written, modem, inbuf,
                   host, response, nmi, interrupts, history, launches>>

\* Slip: the response is not cleared
Slip_ReadData ==
    /\ Terminal /\ c64 = "data"
    /\ shown' = IF response \in 1 .. MaxRemote THEN Append(shown, response) ELSE shown
    /\ c64' = "idle"
    /\ HaltByRead
    /\ UNCHANGED <<typing, kernel, loaded, unlocked, pc, toMenu, out, written, modem, inbuf,
                   host, response, nmi, interrupts, toRemote, since, sinceKey, launches>>

ReadData ==
    /\ Terminal /\ c64 = "data"
    /\ shown' = IF response \in 1 .. MaxRemote THEN Append(shown, response) ELSE shown
    /\ response' = 0 /\ c64' = "idle"
    /\ HaltByRead
    /\ UNCHANGED <<typing, kernel, loaded, unlocked, pc, toMenu, out, written, modem, inbuf,
                   host, nmi, interrupts, toRemote, since, sinceKey, launches>>

(***************************************************************************)
(* The modem, as the main loop runs it                                     *)
(***************************************************************************)
\* writeCharsToFrontend
Tell(text) == inbuf' = inbuf \o text

\* cleanUpModemEmuSocket
CleanUp ==
    /\ connected' = FALSE /\ first' = FALSE /\ plus' = 0 /\ command' = ""
    /\ out' = <<>> /\ written' = FALSE /\ inbuf' = <<>>
    /\ wire' = <<>> /\ closed' = FALSE
    /\ UNCHANGED <<dialled, sent>>

\* SocketConnect, SocketConnectIP: before it the modem has said echo
SocketConnect(echo) ==
    /\ dialled' = FALSE
    /\ Tell(Append(echo, Text))
    /\ \/ /\ connected' = TRUE /\ first' = TRUE /\ since' = sent /\ sinceKey' = typed
       \/ UNCHANGED <<connected, first, since, sinceKey>>
    /\ UNCHANGED plus

\* handleModemEmulationCommandMode: one character.  Without the network,
\* silent, a number to dial is kept for later.
CommandMode(silent) ==
    LET key == script[Head(out)]
        echo == <<Text>> IN
    /\ out # <<>>
    /\ out' = Tail(out) /\ UNCHANGED written
    /\ command' = CASE key = "cr" -> ""
                    [] key = "dial" /\ command = "" -> "dial"
                    [] OTHER -> "bad"
    /\ IF key = "cr" /\ command = "dial"
         THEN IF silent
                THEN /\ dialled' = TRUE /\ Tell(echo)
                     /\ UNCHANGED <<connected, first, plus, since, sinceKey>>
                ELSE SocketConnect(echo)
         ELSE /\ Tell(IF key = "cr" /\ command = "bad" THEN <<Text, Text>> ELSE echo)
              /\ UNCHANGED <<dialled, connected, first, plus, since, sinceKey>>
    /\ UNCHANGED <<host, toRemote, shown>>

\* readCharFromFrontend finds the buffer read to its end and empties it
Empty ==
    /\ out' = <<>> /\ written' = FALSE

(***************************************************************************)
(* The main loop of the launcher                                           *)
(***************************************************************************)
Rest == <<typing, kernel, loaded, interrupts, c64, launches>>

AtLoop == kernel = "launch" /\ pc = "loop"

\* keepNMILow, then netDelay = 0: the handler is off from here on.  Once the
\* modem is unlocked only swiftLinkReleaseDMA leads here.
Leave ==
    /\ AtLoop /\ (releaseDMA \/ (loaded /\ ~unlocked))
    /\ unlocked' = TRUE
    /\ toMenu' = FALSE
    /\ keepNMILow' = IF keepNMILow > 0 THEN keepNMILow - 1 ELSE 0
    /\ IF toMenu THEN kernel' = "menu" /\ UNCHANGED pc
                 ELSE pc' = "net" /\ UNCHANGED kernel
    /\ UNCHANGED <<typing, loaded, interrupts, c64, launches, dma, releaseDMA, out, written,
                   modem, inbuf, host, response, doNMI, history>>

\* Slip: also with a connection
Slip_Silent ==
    /\ AtLoop /\ ~releaseDMA /\ (loaded => unlocked)
    /\ keepNMILow' = IF keepNMILow > 0 THEN keepNMILow - 1 ELSE 0
    /\ IF ~unlocked \/ (out = <<>> /\ ~written)
         THEN /\ pc' = "answer"
              /\ UNCHANGED <<out, written, modem, inbuf, host, history>>
         ELSE IF out = <<>>
                THEN pc' = "reset" /\ UNCHANGED <<out, written, modem, inbuf, host, history>>
                ELSE pc' = "answer" /\ CommandMode(TRUE)
    /\ UNCHANGED <<Rest, unlocked, dma, releaseDMA, toMenu, response, doNMI>>

\* The other way through the loop: without a connection the buffer is read
\* while the handler is on
Silent ==
    /\ AtLoop /\ ~releaseDMA /\ (loaded => unlocked)
    /\ keepNMILow' = IF keepNMILow > 0 THEN keepNMILow - 1 ELSE 0
    /\ IF ~unlocked \/ connected \/ (out = <<>> /\ ~written)
         THEN /\ pc' = "answer"
              /\ UNCHANGED <<out, written, modem, inbuf, host, history>>
         ELSE IF out = <<>>
                THEN pc' = "reset" /\ UNCHANGED <<out, written, modem, inbuf, host, history>>
                ELSE pc' = "answer" /\ CommandMode(TRUE)
    /\ UNCHANGED <<Rest, unlocked, dma, releaseDMA, toMenu, response, doNMI>>

\* The second half of readCharFromFrontend: the length is set to 0, whatever
\* the handler has added since it was compared
ResetBuffer ==
    /\ kernel = "launch" /\ pc = "reset"
    /\ Empty /\ pc' = "answer"
    /\ UNCHANGED <<Rest, unlocked, dma, releaseDMA, toMenu, modem, inbuf, host, response, nmi,
                   history>>

\* A task of the web server gets its turn while the network is served: an
\* upload is to be launched
WebLaunch ==
    /\ kernel = "launch" /\ pc \in {"net", "receive"} /\ launches < MaxLaunches
    /\ ~toMenu /\ toMenu' = TRUE
    /\ UNCHANGED <<Rest, unlocked, pc, dma, releaseDMA, out, written, modem, inbuf, host,
                   response, nmi, history>>

\* handleModemEmulation without a connection
Offline ==
    /\ ~connected
    /\ \/ /\ dialled /\ SocketConnect(<<>>)
          /\ UNCHANGED <<out, written, command, host, toRemote, shown>>
       \/ /\ ~dialled /\ out # <<>> /\ CommandMode(FALSE)
       \/ /\ ~dialled /\ out = <<>> /\ Empty
          /\ UNCHANGED <<modem, inbuf, host, history>>

NetOffline ==
    /\ kernel = "launch" /\ pc = "net" /\ Offline
    /\ pc' = "on"
    /\ UNCHANGED <<Rest, unlocked, dma, releaseDMA, toMenu, response, nmi>>

\* handleModemEmulation with a connection: one character for the remote host.
\* After the third '+' the modem hangs up; a host that is gone may be noticed.
NetOnline ==
    /\ kernel = "launch" /\ pc = "net" /\ connected
    /\ \/ /\ out = <<>> /\ Empty
          /\ pc' = "receive"
          /\ UNCHANGED <<modem, inbuf, host, history>>
       \/ /\ out # <<>> /\ plus = 2 /\ script[Head(out)] = "plus"
          /\ CleanUp /\ pc' = "on" /\ UNCHANGED history
       \/ /\ out # <<>> /\ ~(plus = 2 /\ script[Head(out)] = "plus")
          /\ plus' = IF script[Head(out)] = "plus" THEN plus + 1 ELSE 0
          /\ out' = Tail(out) /\ toRemote' = Append(toRemote, Head(out))
          /\ first' = TRUE /\ pc' = "receive"
          /\ UNCHANGED <<written, command, dialled, connected, inbuf, host, shown, since,
                         sinceKey>>
       \/ /\ out # <<>> /\ closed
          /\ CleanUp /\ pc' = "on" /\ UNCHANGED history
    /\ UNCHANGED <<Rest, unlocked, dma, releaseDMA, toMenu, response, nmi>>

\* The attempts to receive: the first one waits for the remote host when
\* something was sent.  An error after the data ends the connection.
Receive ==
    /\ kernel = "launch" /\ pc = "receive"
    /\ first => wire # <<>> \/ closed
    /\ pc' = "on"
    /\ IF closed
         THEN CleanUp
         ELSE /\ Tell(wire) /\ wire' = <<>> /\ first' = FALSE
              /\ UNCHANGED <<out, written, command, dialled, connected, plus, sent, closed>>
    /\ UNCHANGED <<Rest, unlocked, dma, releaseDMA, toMenu, response, nmi, history>>

\* Slip: the flag is not cleared
Slip_ReleaseC64 ==
    /\ kernel = "launch" /\ pc = "on"
    /\ dma' = (dma /\ ~releaseDMA) /\ UNCHANGED releaseDMA
    /\ pc' = "answer"
    /\ UNCHANGED <<Rest, unlocked, toMenu, out, written, modem, inbuf, host, response, nmi,
                   history>>

\* Slip: the flag is cleared before it is tested
Slip_ReleaseC64Early ==
    /\ kernel = "launch" /\ pc = "on"
    /\ releaseDMA' = FALSE /\ dma' = (dma /\ ~releaseDMA')
    /\ pc' = "answer"
    /\ UNCHANGED <<Rest, unlocked, toMenu, out, written, modem, inbuf, host, response, nmi,
                   history>>

\* The handler is on again: the C64 goes on
ReleaseC64 ==
    /\ kernel = "launch" /\ pc = "on"
    /\ dma' = (dma /\ ~releaseDMA) /\ releaseDMA' = FALSE
    /\ pc' = "answer"
    /\ UNCHANGED <<Rest, unlocked, toMenu, out, written, modem, inbuf, host, response, nmi,
                   history>>

\* Slip: the next byte is taken before the C64 has fetched the last one
Slip_Answer ==
    /\ kernel = "launch" /\ pc = "answer" /\ pc' = "nmi"
    /\ IF ~unlocked \/ keepNMILow > 0 \/ doNMI > 0 \/ inbuf = <<>>
         THEN UNCHANGED <<inbuf, response, doNMI>>
         ELSE /\ inbuf' = Tail(inbuf)
              /\ response' = IF Head(inbuf) \in Nuls THEN response ELSE Head(inbuf)
              /\ doNMI' = IF Head(inbuf) \in Nuls THEN 0 ELSE NmiDelay
    /\ UNCHANGED <<Rest, unlocked, dma, releaseDMA, toMenu, out, written, modem, host,
                   keepNMILow, history>>

\* The next byte for the C64; a zero is dropped
Answer ==
    /\ kernel = "launch" /\ pc = "answer" /\ pc' = "nmi"
    /\ IF ~unlocked \/ keepNMILow > 0 \/ doNMI > 0 \/ (response = 0 /\ inbuf = <<>>)
         THEN UNCHANGED <<inbuf, response, doNMI>>
         ELSE IF response # 0
                THEN doNMI' = NmiDelay /\ UNCHANGED <<inbuf, response>>
                ELSE /\ inbuf' = Tail(inbuf)
                     /\ response' = IF Head(inbuf) \in Nuls THEN 0 ELSE Head(inbuf)
                     /\ doNMI' = IF Head(inbuf) \in Nuls THEN 0 ELSE NmiDelay
    /\ UNCHANGED <<Rest, unlocked, dma, releaseDMA, toMenu, out, written, modem, host,
                   keepNMILow, history>>

\* swiftLinkDoNMI counts down to 1 and waits there for the receive interrupt
\* to be enabled
Interrupt ==
    /\ kernel = "launch" /\ pc = "nmi" /\ pc' = "loop"
    /\ LET n == IF doNMI > 1 THEN doNMI - 1 ELSE doNMI IN
         IF n = 1 /\ interrupts
           THEN doNMI' = 0 /\ keepNMILow' = KeepLow
                /\ c64' = IF c64 = "idle" THEN "status" ELSE c64
           ELSE doNMI' = n /\ UNCHANGED <<keepNMILow, c64>>
    /\ UNCHANGED <<typing, kernel, loaded, interrupts, launches, unlocked, dma, releaseDMA,
                   toMenu, out, written, modem, inbuf, host, response, history>>

MainLoop == Leave \/ Silent \/ ResetBuffer \/ NetOffline \/ NetOnline \/ Receive
              \/ ReleaseC64 \/ Answer \/ Interrupt

(***************************************************************************)
(* The remote host, the menu                                               *)
(***************************************************************************)
HostSends ==
    /\ connected /\ ~closed /\ sent < MaxRemote
    /\ sent' = sent + 1 /\ wire' = Append(wire, sent')
    /\ UNCHANGED <<typing, kernel, loaded, unlocked, pc, dma, releaseDMA, toMenu, out, written,
                   modem, inbuf, closed, response, nmi, interrupts, c64, history, launches>>

HostCloses ==
    /\ connected /\ ~closed /\ closed' = TRUE
    /\ UNCHANGED <<typing, kernel, loaded, unlocked, pc, dma, releaseDMA, toMenu, out, written,
                   modem, inbuf, wire, sent, response, nmi, interrupts, c64, history, launches>>

\* The reset button, held for a second
ResetToMenu ==
    /\ AtLoop /\ ~releaseDMA /\ launches < MaxLaunches
    /\ kernel' = "menu"
    /\ UNCHANGED <<typing, loaded, unlocked, pc, dma, releaseDMA, toMenu, out, written, modem,
                   inbuf, host, response, nmi, interrupts, c64, history, launches>>

\* The menu serves the network too: it ends a connection
MenuNet ==
    /\ kernel = "menu"
    /\ IF connected THEN CleanUp /\ UNCHANGED history ELSE Offline
    /\ UNCHANGED <<Rest, unlocked, pc, dma, releaseDMA, toMenu, response, nmi>>

\* KernelLaunchRun.  swiftLinkReleaseDMA keeps its value.  A connection is still
\* there if the menu did not serve it: on WLAN while an action is queued.
Launch ==
    /\ kernel = "menu" /\ launches < MaxLaunches
    /\ kernel' = "launch" /\ launches' = launches + 1
    /\ loaded' = FALSE /\ unlocked' = FALSE /\ pc' = "loop" /\ dma' = FALSE
    /\ response' = 0 /\ doNMI' = 0 /\ keepNMILow' = 0 /\ interrupts' = FALSE
    /\ c64' = "idle"
    /\ since' = IF response \in since + 1 .. MaxRemote THEN response ELSE since
    /\ UNCHANGED <<typing, releaseDMA, toMenu, out, written, modem, inbuf, host, toRemote,
                   shown, sinceKey>>

Next ==
    \/ Load \/ Type \/ EnableReceive \/ ReadStatus \/ ReadData
    \/ MainLoop \/ WebLaunch
    \/ HostSends \/ HostCloses
    \/ ResetToMenu \/ MenuNet \/ Launch

(***************************************************************************)
(* The main loop runs, and the terminal program serves its NMI.  Nobody    *)
(* has to type, and the remote host need not answer.                       *)
(***************************************************************************)
NmiHandler == (c64 = "status" /\ ReadStatus) \/ ReadData

Fairness == WF_vars(MainLoop) /\ WF_vars(NmiHandler)

Spec == Init /\ [][Next]_vars /\ Fairness

-----------------------------------------------------------------------------
(***************************************************************************)
(* Properties                                                              *)
(***************************************************************************)
\* The buffer from the C64 to the modem keeps the promises of ModemLine:
\* what is typed reaches the remote host in order, and while the modem is
\* connected nothing is lost, although the handler fills the buffer at any
\* time.  A character that comes between the two halves of
\* readCharFromFrontend is lost, but then nothing else waits.
Line == INSTANCE ModemLine WITH put <- typed,
                                queue <- IF pc = "reset" THEN <<>> ELSE out,
                                open <- connected,
                                remote <- toRemote
LineSpec == Line!Spec

\* What is on its way to the screen, first come first: bytes of the remote host
\* and texts of the modem; a response of 0 is none
Arriving == shown \o <<response>> \o inbuf \o wire

\* The bytes of the remote host in a sequence are in order, none is there twice
Ascending(s) ==
    \A i, j \in DOMAIN s :
        i < j /\ s[i] \in 1 .. MaxRemote /\ s[j] \in 1 .. MaxRemote => s[i] < s[j]

\* What the remote host sends is never shown twice or out of order, and as long
\* as the connection lasts nothing of it is lost, except for bytes that are zero
\* and for a byte that is offered to the C64 when the launcher starts anew
\* (net.cpp, handleModemEmulation; kernel_launch.cpp, swiftLinkResponse).
ScreenTrue ==
    /\ Ascending(Arriving)
    /\ connected => \A b \in since + 1 .. sent :
                       b \in Nuls \/ \E i \in DOMAIN Arriving : Arriving[i] = b

\* Once the modem is there the handler is only taken away from a C64 that is
\* halted, so that no access to the registers is missed.
NoAccessLost ==
    [][HandlerOn /\ loaded /\ unlocked /\ pc' = "net" => dma']_vars

\* recv without MSG_DONTWAIT
WaitsForHost == pc = "receive" /\ first /\ wire = <<>> /\ ~closed

\* A C64 that is halted goes on, unless the main loop waits for an answer of
\* the remote host (or the program ended).
HaltEnds == dma ~> ~dma \/ WaitsForHost \/ kernel = "menu"

\* A byte that is offered to the C64 is fetched, the NMI comes for each of them:
\* also when the receive interrupt was disabled or NMI still low.
ByteFetched ==
    response # 0 /\ interrupts ~> response = 0 \/ WaitsForHost \/ kernel = "menu"
=============================================================================
