------------------------- MODULE Cartridges_proofs --------------------------
(***************************************************************************)
(* Proofs about the two cartridges whose handlers race with the C64: about *)
(* SwiftLink, for whatever is typed, any number of bytes from the remote   *)
(* host, all delays and any number of launches; and about Freezer, for     *)
(* each of the cartridges and any number of presses.                       *)
(***************************************************************************)
EXTENDS SwiftLink, Freezer, TLAPS, SequenceTheorems

(* Where the main loop is tells whether there is a connection: the buffer   *)
(* is only reset without one, and only with one there is something to       *)
(* receive.  The menu has left the loop of the launcher at its beginning.   *)
PlaceIInv ==
    /\ kernel \in {"launch", "menu"}
    /\ kernel = "menu" => pc = "loop"
    /\ pc = "receive" => connected
    /\ pc = "reset" => ~connected

(* While the terminal program runs and the network is not served, the main  *)
(* loop has been asked to release the C64 only if it is halted.             *)
HaltIInv ==
    kernel = "launch" /\ loaded /\ unlocked /\ pc \notin {"net", "receive", "on"} /\ releaseDMA
      => dma

ModemIInv == PlaceIInv /\ HaltIInv

(***************************************************************************)
(* The invariant                                                           *)
(***************************************************************************)
(* What the accesses of the C64 have in common.                             *)
LEMMA AccessKeeps ==
    ASSUME ModemIInv, Terminal, NEW b, Halt(b), UNCHANGED <<kernel, pc, loaded, unlocked, connected>>
    PROVE  ModemIInv'
<1>1. PlaceIInv'
    BY DEF ModemIInv, PlaceIInv
<1>2. CASE pc = "on"
    BY <1>1, <1>2 DEF ModemIInv, HaltIInv
<1>3. CASE pc # "on"
  <2>1. ~dma /\ ~releaseDMA
    BY <1>3 DEF ModemIInv, HaltIInv, Terminal, HandlerOn
  <2>2. dma' = b /\ (releaseDMA' = (b \/ releaseDMA))
    BY DEF Halt
  <2>3. releaseDMA' => dma'
    BY <2>1, <2>2, Zenon
  <2> QED BY <1>1, <2>3 DEF ModemIInv, HaltIInv
<1> QED BY <1>2, <1>3

LEMMA TerminalKeeps ==
    ASSUME ModemIInv, Type \/ EnableReceive \/ ReadStatus \/ ReadData
    PROVE  ModemIInv'
<1>1. Terminal /\ UNCHANGED <<kernel, pc, loaded, unlocked, connected>>
    BY DEF Type, EnableReceive, ReadStatus, ReadData, modem
<1>2. \E b : Halt(b)
  <2>1. CASE Type
    BY <2>1 DEF Type
  <2>2. CASE EnableReceive
    BY <2>2 DEF EnableReceive
  <2>3. CASE ReadStatus \/ ReadData
    BY <2>3 DEF ReadStatus, ReadData, HaltByRead
  <2> QED BY <2>1, <2>2, <2>3
<1> QED BY <1>1, <1>2, AccessKeeps

LEMMA MainLoopKeeps ==
    ASSUME ModemIInv, MainLoop
    PROVE  ModemIInv'
<1> USE DEF ModemIInv, PlaceIInv, HaltIInv
<1>1. CASE Leave
  <2>1. /\ AtLoop /\ UNCHANGED <<connected, loaded>>
        /\ (kernel' = "menu" /\ pc' = pc) \/ (pc' = "net" /\ kernel' = kernel)
    BY <1>1 DEF Leave, modem
  <2> QED BY <2>1 DEF AtLoop
<1>2. CASE Silent
  <2>1. /\ AtLoop /\ ~releaseDMA /\ UNCHANGED <<kernel, releaseDMA>>
        /\ pc' \in {"answer", "reset"}
    BY <1>2 DEF Silent, Rest
  <2>2. pc' = "reset" => ~connected /\ UNCHANGED connected
    BY <1>2 DEF Silent, modem
  <2> QED BY <2>1, <2>2 DEF AtLoop
<1>3. CASE ResetBuffer
    BY <1>3 DEF ResetBuffer, Rest, modem
<1>4. CASE NetOffline
    BY <1>4 DEF NetOffline, Rest
<1>5. CASE NetOnline
  <2>1. /\ kernel = "launch" /\ kernel' = kernel /\ connected /\ pc' \in {"receive", "on"}
        /\ pc' = "receive" => UNCHANGED connected
    BY <1>5 DEF NetOnline, Rest, modem
  <2> QED BY <2>1
<1>6. CASE Receive
    BY <1>6 DEF Receive, Rest
<1>7. CASE ReleaseC64
  <2>1. /\ kernel = "launch" /\ kernel' = kernel /\ pc' = "answer" /\ releaseDMA' = FALSE
    BY <1>7 DEF ReleaseC64, Rest
  <2> QED BY <2>1
<1>8. CASE Answer
  <2>1. /\ kernel = "launch" /\ pc = "answer" /\ pc' = "nmi"
        /\ UNCHANGED <<kernel, connected, loaded, unlocked, dma, releaseDMA>>
    BY <1>8 DEF Answer, Rest, modem
  <2> QED BY <2>1
<1>9. CASE Interrupt
  <2>1. /\ kernel = "launch" /\ pc = "nmi" /\ pc' = "loop"
        /\ UNCHANGED <<kernel, connected, loaded, unlocked, dma, releaseDMA>>
    BY <1>9 DEF Interrupt, modem
  <2> QED BY <2>1
<1> QED BY <1>1, <1>2, <1>3, <1>4, <1>5, <1>6, <1>7, <1>8, <1>9 DEF MainLoop

LEMMA OthersKeep ==
    ASSUME ModemIInv,
           \/ Load \/ WebLaunch \/ HostSends \/ HostCloses \/ ResetToMenu \/ MenuNet \/ Launch
           \/ UNCHANGED vars
    PROVE  ModemIInv'
<1> USE DEF ModemIInv, PlaceIInv, HaltIInv
<1>1. CASE Load
    BY <1>1 DEF Load, modem
<1>2. CASE WebLaunch \/ HostSends \/ HostCloses \/ UNCHANGED vars
  <2>1. UNCHANGED <<kernel, pc, connected, loaded, unlocked, dma, releaseDMA>>
    BY <1>2 DEF WebLaunch, HostSends, HostCloses, Rest, modem, vars
  <2> QED BY <2>1
<1>3. CASE ResetToMenu
    BY <1>3 DEF ResetToMenu, AtLoop
<1>4. CASE MenuNet
    BY <1>4 DEF MenuNet, Rest
<1>5. CASE Launch
    BY <1>5 DEF Launch
<1> QED BY <1>1, <1>2, <1>3, <1>4, <1>5

LEMMA ModemInductive == Spec => []ModemIInv
<1>1. Init => ModemIInv
    BY DEF Init, ModemIInv, PlaceIInv, HaltIInv
<1>2. ModemIInv /\ [Next]_vars => ModemIInv'
    BY TerminalKeeps, MainLoopKeeps, OthersKeep DEF Next
<1> QED BY <1>1, <1>2, PTL DEF Spec

(* Once the modem is unlocked the FIQ handler is only taken away from a C64 *)
(* that is halted, so that no access to the registers is missed             *)
(* (kernel_launch.cpp, swiftLinkReleaseDMA).                                *)
THEOREM HandlerLeavesHalted == Spec => NoAccessLost
<1>1. ModemIInv /\ [Next]_vars
        => [HandlerOn /\ loaded /\ unlocked /\ pc' = "net" => dma']_vars
  <2> SUFFICES ASSUME ModemIInv, Next, HandlerOn, loaded, unlocked, pc' = "net"
               PROVE  dma'
    OBVIOUS
  <2>1. CASE Leave
    BY <2>1 DEF Leave, AtLoop, ModemIInv, HaltIInv
  <2>2. CASE ~Leave
    <3>1. pc' # "net"
        BY <2>2 DEF Next, MainLoop, Load, Type, EnableReceive, ReadStatus, ReadData, WebLaunch,
                    HostSends, HostCloses, ResetToMenu, MenuNet, Launch, Silent, ResetBuffer,
                    NetOffline, NetOnline, Receive, ReleaseC64, Answer, Interrupt, HandlerOn,
                    Terminal
    <3> QED BY <3>1
  <2> QED BY <2>1, <2>2
<1> QED BY <1>1, ModemInductive, PTL DEF Spec, NoAccessLost

(* A C64 that is halted is one that the main loop has been asked to let go: *)
(* the request is made with the halt, and it is taken back only together    *)
(* with it.  Otherwise the C64 would stand until it is switched off         *)
(* (kernel_launch.cpp, swiftLinkReleaseDMA).  HaltEnds rests on it.         *)
HaltIsRequested == dma => releaseDMA

LEMMA HaltRequestStep ==
    ASSUME HaltIsRequested, [Next]_vars
    PROVE  HaltIsRequested'
<1> USE DEF HaltIsRequested
<1>1. ASSUME NEW b, Halt(b) PROVE HaltIsRequested'
  <2>1. dma' = b /\ (releaseDMA' = (b \/ releaseDMA))
    BY <1>1 DEF Halt
  <2> QED BY <2>1, Zenon
<1>2. CASE Type \/ EnableReceive \/ ReadStatus \/ ReadData
  <2>1. \E b : Halt(b)
    <3>1. CASE Type
      BY <3>1 DEF Type
    <3>2. CASE EnableReceive
      BY <3>2 DEF EnableReceive
    <3>3. CASE ReadStatus \/ ReadData
      BY <3>3 DEF ReadStatus, ReadData, HaltByRead
    <3> QED BY <1>2, <3>1, <3>2, <3>3
  <2> QED BY <1>1, <2>1
<1>3. CASE ReleaseC64
  <2>1. dma' = (dma /\ ~releaseDMA)
    BY <1>3 DEF ReleaseC64
  <2>2. ~dma'
    BY <2>1, Zenon
  <2> QED BY <2>2
<1>4. CASE Launch
    BY <1>4 DEF Launch
<1>5. CASE \/ Load \/ Leave \/ Silent \/ ResetBuffer \/ NetOffline \/ NetOnline \/ Receive
           \/ Answer \/ Interrupt \/ WebLaunch \/ HostSends \/ HostCloses \/ ResetToMenu
           \/ MenuNet \/ UNCHANGED vars
  <2>1. UNCHANGED <<dma, releaseDMA>>
    BY <1>5 DEF Load, Leave, Silent, ResetBuffer, NetOffline, NetOnline, Receive, Answer,
                Interrupt, WebLaunch, HostSends, HostCloses, ResetToMenu, MenuNet, vars
  <2> QED BY <2>1
<1> QED BY <1>2, <1>3, <1>4, <1>5 DEF Next, MainLoop

THEOREM HaltsAreReleased == Spec => []HaltIsRequested
<1>1. Init => HaltIsRequested
    BY DEF Init, HaltIsRequested
<1> QED BY <1>1, HaltRequestStep, PTL DEF Spec

(***************************************************************************)
(* The buffer implements the line                                          *)
(***************************************************************************)
Waiting == IF pc = "reset" THEN <<>> ELSE out

LineStep == Line!Next \/ UNCHANGED <<typed, Waiting, connected, toRemote>>

(* One character taken as a part of a command.                              *)
LEMMA CommandIsTake ==
    ASSUME NEW silent, CommandMode(silent), ~connected, Waiting = out, Waiting' = out',
           UNCHANGED typed
    PROVE  LineStep
<1>1. out # <<>> /\ out' = Tail(out) /\ UNCHANGED toRemote
    BY DEF CommandMode
<1>2. connected' \in {connected, TRUE}
    BY DEF CommandMode, SocketConnect
<1> QED BY <1>1, <1>2 DEF LineStep, Line!Next, Line!Take, Waiting

LEMMA OfflineIsStep ==
    ASSUME Offline, Waiting = out, Waiting' = out', UNCHANGED typed
    PROVE  LineStep
<1>0. ~connected
    BY DEF Offline
<1>1. CASE dialled /\ SocketConnect(<<>>) /\ UNCHANGED <<out, toRemote>>
  <2>1. connected' = TRUE \/ UNCHANGED connected
    BY <1>1 DEF SocketConnect
  <2> QED BY <1>0, <1>1, <2>1 DEF LineStep, Line!Next, Line!Connect, Waiting
<1>2. CASE CommandMode(FALSE)
    BY <1>0, <1>2, CommandIsTake
<1>3. CASE out = <<>> /\ Empty /\ UNCHANGED <<modem, history>>
    BY <1>3 DEF Empty, modem, history, LineStep
<1> QED BY <1>1, <1>2, <1>3 DEF Offline

LEMMA CleanUpIsHangUp ==
    ASSUME CleanUp, connected, Waiting' = out', UNCHANGED <<typed, toRemote>>
    PROVE  LineStep
BY DEF CleanUp, LineStep, Line!Next, Line!HangUp, Waiting

LEMMA MainLoopIsStep ==
    ASSUME PlaceIInv, MainLoop
    PROVE  LineStep
<1>1. CASE Leave \/ ReleaseC64 \/ Answer \/ Interrupt
  <2>1. pc # "reset" /\ pc' # "reset" /\ UNCHANGED <<typed, out, connected, toRemote>>
    BY <1>1 DEF Leave, ReleaseC64, Answer, Interrupt, AtLoop, typing, modem, history, Rest
  <2> QED BY <2>1 DEF LineStep, Waiting
<1>2. CASE Silent
  <2>1. pc = "loop" /\ UNCHANGED typed
    BY <1>2 DEF Silent, AtLoop, Rest, typing
  <2>2. \/ pc' = "answer" /\ UNCHANGED <<out, modem, history>>
        \/ out = <<>> /\ pc' = "reset" /\ UNCHANGED <<out, modem, history>>
        \/ pc' = "answer" /\ ~connected /\ CommandMode(TRUE)
    BY <1>2 DEF Silent
  <2>3. CASE pc' = "answer" /\ ~connected /\ CommandMode(TRUE)
    <3>1. Waiting = out /\ Waiting' = out'
        BY <2>1, <2>3 DEF Waiting
    <3> QED BY <2>1, <2>3, <3>1, CommandIsTake
  <2>4. CASE UNCHANGED <<out, modem, history>> /\ (out = <<>> \/ pc' = "answer")
    BY <2>1, <2>4 DEF LineStep, Waiting, modem, history
  <2> QED BY <2>2, <2>3, <2>4
<1>3. CASE ResetBuffer
    BY <1>3 DEF ResetBuffer, Empty, LineStep, Waiting, Rest, typing, modem, history
<1>4. CASE NetOffline
  <2>1. Offline /\ Waiting = out /\ Waiting' = out' /\ UNCHANGED typed
    BY <1>4 DEF NetOffline, Waiting, Rest, typing
  <2> QED BY <2>1, OfflineIsStep
<1>5. CASE NetOnline
  <2>1. /\ Waiting = out /\ Waiting' = out' /\ UNCHANGED typed /\ connected
    BY <1>5 DEF NetOnline, Waiting, Rest, typing
  <2>2. \/ out = <<>> /\ Empty /\ UNCHANGED <<modem, history>>
        \/ CleanUp /\ UNCHANGED history
        \/ out # <<>> /\ out' = Tail(out) /\ toRemote' = Append(toRemote, Head(out))
           /\ UNCHANGED connected
    BY <1>5 DEF NetOnline
  <2>3. CASE out = <<>> /\ Empty /\ UNCHANGED <<modem, history>>
    BY <2>1, <2>3 DEF Empty, modem, history, LineStep
  <2>4. CASE CleanUp /\ UNCHANGED history
    BY <2>1, <2>4, CleanUpIsHangUp DEF history
  <2>5. CASE out # <<>> /\ out' = Tail(out) /\ toRemote' = Append(toRemote, Head(out))
             /\ UNCHANGED connected
    BY <2>1, <2>5 DEF LineStep, Line!Next, Line!Take, Waiting
  <2> QED BY <2>2, <2>3, <2>4, <2>5
<1>6. CASE Receive
  <2>1. /\ Waiting = out /\ Waiting' = out' /\ UNCHANGED <<typed, toRemote>> /\ connected
    BY <1>6 DEF Receive, Waiting, Rest, typing, history, PlaceIInv
  <2>2. CleanUp \/ UNCHANGED <<out, connected>>
    BY <1>6 DEF Receive
  <2> QED BY <2>1, <2>2, CleanUpIsHangUp DEF LineStep
<1> QED BY <1>1, <1>2, <1>3, <1>4, <1>5, <1>6 DEF MainLoop

LEMMA OthersAreSteps ==
    ASSUME PlaceIInv, Next, ~MainLoop
    PROVE  LineStep
<1>1. CASE Type
  <2>1. /\ typed' = typed + 1 /\ out' = Append(out, typed')
        /\ UNCHANGED <<pc, connected, toRemote>>
    BY <1>1 DEF Type, modem, history
  <2>2. CASE pc = "reset"
    BY <2>1, <2>2 DEF PlaceIInv, LineStep, Line!Next, Line!Put, Waiting
  <2>3. CASE pc # "reset"
    BY <2>1, <2>3 DEF LineStep, Line!Next, Line!Put, Waiting
  <2> QED BY <2>2, <2>3
<1>2. CASE Load \/ EnableReceive \/ ReadStatus \/ ReadData \/ WebLaunch \/ HostSends
           \/ HostCloses \/ ResetToMenu
  <2>1. UNCHANGED <<pc, out, typed, connected, toRemote>>
    BY <1>2 DEF Load, EnableReceive, ReadStatus, ReadData, WebLaunch, HostSends, HostCloses,
                ResetToMenu, typing, modem, history, Rest
  <2> QED BY <2>1 DEF LineStep, Waiting
<1>3. CASE Launch
  <2>1. pc = "loop" /\ pc' = "loop" /\ UNCHANGED <<out, typed, connected, toRemote>>
    BY <1>3 DEF Launch, PlaceIInv, typing, modem
  <2> QED BY <2>1 DEF LineStep, Waiting
<1>4. CASE MenuNet
  <2>1. Waiting = out /\ Waiting' = out' /\ UNCHANGED typed
    BY <1>4 DEF MenuNet, PlaceIInv, Waiting, Rest, typing
  <2>2. (CleanUp /\ connected /\ UNCHANGED history) \/ Offline
    BY <1>4 DEF MenuNet
  <2> QED BY <2>1, <2>2, CleanUpIsHangUp, OfflineIsStep DEF history
<1> QED BY <1>1, <1>2, <1>3, <1>4 DEF Next

(* Whatever the C64 writes to the modem at whatever point of the main loop, *)
(* the remote host gets it in order and once, and while the modem is        *)
(* connected nothing waiting is lost before it hangs up (net.cpp,           *)
(* readCharFromFrontend, handleModemEmulation).                             *)
THEOREM BufferImplementsLine == Spec => LineSpec
<1>1. Init => Line!Init
    BY DEF Init, Line!Init
<1>2. ModemIInv /\ [Next]_vars => [Line!Next]_(Line!vars)
  <2>1. ASSUME PlaceIInv, Next PROVE LineStep
    BY <2>1, MainLoopIsStep, OthersAreSteps
  <2>2. ASSUME UNCHANGED vars PROVE LineStep
    BY <2>2 DEF vars, typing, modem, history, LineStep, Waiting
  <2> QED BY <2>1, <2>2 DEF ModemIInv, LineStep, Line!vars, Waiting
<1> QED BY <1>1, <1>2, ModemInductive, PTL DEF Spec, LineSpec, Line!Spec
(***************************************************************************)
(* Types                                                                   *)
(***************************************************************************)
LineTypes ==
    /\ script \in Scripts /\ typed \in 0 .. Len(script)
    /\ out \in Seq(1 .. Len(script)) /\ toRemote \in Seq(1 .. Len(script))
    /\ sinceKey \in 0 .. Len(script)

HostTypes ==
    /\ inbuf \in Seq(1 .. Text) /\ wire \in Seq(1 .. MaxRemote)
    /\ response \in 0 .. Text /\ shown \in Seq(1 .. MaxRemote)
    /\ sent \in 0 .. MaxRemote /\ since \in 0 .. MaxRemote

ModemTypes ==
    /\ command \in {"", "dial", "bad"} /\ plus \in 0 .. 2
    /\ dialled \in BOOLEAN /\ connected \in BOOLEAN /\ first \in BOOLEAN
    /\ written \in BOOLEAN /\ closed \in BOOLEAN

LoopTypes ==
    /\ kernel \in {"launch", "menu"} /\ loaded \in BOOLEAN /\ unlocked \in BOOLEAN
    /\ pc \in {"loop", "net", "receive", "on", "reset", "answer", "nmi"}
    /\ dma \in BOOLEAN /\ releaseDMA \in BOOLEAN /\ toMenu \in BOOLEAN
    /\ doNMI \in 0 .. NmiDelay /\ keepNMILow \in 0 .. KeepLow /\ interrupts \in BOOLEAN
    /\ c64 \in {"idle", "status", "data"} /\ launches \in 1 .. MaxLaunches

LEMMA TypesAreParts == TypeOK <=> LineTypes /\ HostTypes /\ ModemTypes /\ LoopTypes
BY DEF TypeOK, LineTypes, HostTypes, ModemTypes, LoopTypes

LEMMA PartsMakeTypes == LineTypes' /\ HostTypes' /\ ModemTypes' /\ LoopTypes' => TypeOK'
BY DEF TypeOK, LineTypes, HostTypes, ModemTypes, LoopTypes

(***************************************************************************)
(* Bytes in sequences                                                      *)
(***************************************************************************)
\* The bytes of the remote host among the elements of a sequence
HostBytes(s) == {s[i] : i \in DOMAIN s} \cap (1 .. MaxRemote)

Below(S, T) == \A x \in S, y \in T : x < y

LEMMA ConcatBytes ==
    ASSUME NEW s \in Seq(Nat), NEW t \in Seq(Nat)
    PROVE  /\ s \o t \in Seq(Nat)
           /\ HostBytes(s \o t) = HostBytes(s) \cup HostBytes(t)
<1>1. s \o t \in Seq(Nat) /\ Len(s \o t) = Len(s) + Len(t)
    BY ConcatProperties
<1>2. \A i \in 1 .. Len(s) : i \in 1 .. Len(s \o t) /\ (s \o t)[i] = s[i]
    BY <1>1, ConcatProperties
<1>3. \A i \in 1 .. Len(t) : i + Len(s) \in 1 .. Len(s \o t) /\ (s \o t)[i + Len(s)] = t[i]
    BY <1>1, ConcatProperties
<1>4. \A i \in 1 .. Len(s \o t) :
          (\E j \in 1 .. Len(s) : (s \o t)[i] = s[j]) \/ (\E j \in 1 .. Len(t) : (s \o t)[i] = t[j])
  <2> SUFFICES ASSUME NEW i \in 1 .. Len(s \o t), ~(i \in 1 .. Len(s))
               PROVE  \E j \in 1 .. Len(t) : (s \o t)[i] = t[j]
    BY <1>2
  <2>1. i - Len(s) \in 1 .. Len(t) /\ (s \o t)[i] = t[i - Len(s)]
    BY <1>1, ConcatProperties
  <2> QED BY <2>1
<1>5. DOMAIN s = 1 .. Len(s) /\ DOMAIN t = 1 .. Len(t) /\ DOMAIN (s \o t) = 1 .. Len(s \o t)
    BY <1>1, LenProperties
<1>6. \A x : x \in HostBytes(s \o t) => x \in HostBytes(s) \cup HostBytes(t)
    BY <1>4, <1>5 DEF HostBytes
<1>7. \A x : x \in HostBytes(s) \cup HostBytes(t) => x \in HostBytes(s \o t)
    BY <1>2, <1>3, <1>5 DEF HostBytes
<1> QED BY <1>1, <1>6, <1>7

LEMMA ConcatAscending ==
    ASSUME NEW s \in Seq(Nat), NEW t \in Seq(Nat)
    PROVE  Ascending(s \o t) <=>
             Ascending(s) /\ Ascending(t) /\ Below(HostBytes(s), HostBytes(t))
<1> DEFINE u == s \o t
<1>1. u \in Seq(Nat) /\ Len(u) = Len(s) + Len(t) /\ Len(s) \in Nat /\ Len(t) \in Nat
    BY ConcatProperties, LenProperties
<1>2. \A i \in 1 .. Len(s) : i \in 1 .. Len(u) /\ u[i] = s[i]
    BY <1>1, ConcatProperties
<1>3. \A i \in 1 .. Len(t) : i + Len(s) \in 1 .. Len(u) /\ u[i + Len(s)] = t[i]
    BY <1>1, ConcatProperties
<1>4. \A i \in 1 .. Len(u) : i > Len(s) => i - Len(s) \in 1 .. Len(t) /\ u[i] = t[i - Len(s)]
    BY <1>1, ConcatProperties
<1>5. DOMAIN s = 1 .. Len(s) /\ DOMAIN t = 1 .. Len(t) /\ DOMAIN u = 1 .. Len(u)
    BY <1>1, LenProperties
<1> HIDE DEF u
<1>6. ASSUME Ascending(u)
      PROVE  Ascending(s) /\ Ascending(t) /\ Below(HostBytes(s), HostBytes(t))
  <2>1. Ascending(s)
    BY <1>1, <1>2, <1>5, <1>6 DEF Ascending
  <2>2. Ascending(t)
    <3> SUFFICES ASSUME NEW i \in 1 .. Len(t), NEW j \in 1 .. Len(t), i < j,
                        t[i] \in 1 .. MaxRemote, t[j] \in 1 .. MaxRemote
                 PROVE  t[i] < t[j]
        BY <1>5 DEF Ascending
    <3>1. /\ u[i + Len(s)] = t[i] /\ u[j + Len(s)] = t[j] /\ i + Len(s) < j + Len(s)
          /\ i + Len(s) \in 1 .. Len(u) /\ j + Len(s) \in 1 .. Len(u)
        BY <1>1, <1>3
    <3> QED BY <1>5, <1>6, <3>1 DEF Ascending
  <2>3. Below(HostBytes(s), HostBytes(t))
    <3> SUFFICES ASSUME NEW i \in 1 .. Len(s), NEW j \in 1 .. Len(t),
                        s[i] \in 1 .. MaxRemote, t[j] \in 1 .. MaxRemote
                 PROVE  s[i] < t[j]
        BY <1>5 DEF Below, HostBytes
    <3>1. /\ u[i] = s[i] /\ u[j + Len(s)] = t[j] /\ i < j + Len(s)
          /\ i \in 1 .. Len(u) /\ j + Len(s) \in 1 .. Len(u)
        BY <1>1, <1>2, <1>3
    <3> QED BY <1>5, <1>6, <3>1 DEF Ascending
  <2> QED BY <2>1, <2>2, <2>3
<1>7. ASSUME Ascending(s), Ascending(t), Below(HostBytes(s), HostBytes(t))
      PROVE  Ascending(u)
  <2> SUFFICES ASSUME NEW i \in 1 .. Len(u), NEW j \in 1 .. Len(u), i < j,
                      u[i] \in 1 .. MaxRemote, u[j] \in 1 .. MaxRemote
               PROVE  u[i] < u[j]
    BY <1>5 DEF Ascending
  <2>1. CASE j <= Len(s)
    <3>1. i \in 1 .. Len(s) /\ j \in 1 .. Len(s) /\ u[i] = s[i] /\ u[j] = s[j]
        BY <1>1, <1>2, <2>1
    <3> QED BY <1>5, <1>7, <3>1 DEF Ascending
  <2>2. CASE i > Len(s)
    <3>1. j > Len(s) /\ i - Len(s) < j - Len(s)
        BY <1>1, <2>2
    <3>2. i - Len(s) \in 1 .. Len(t) /\ u[i] = t[i - Len(s)]
        BY <1>4, <2>2
    <3>3. j - Len(s) \in 1 .. Len(t) /\ u[j] = t[j - Len(s)]
        BY <1>4, <3>1
    <3> QED BY <1>5, <1>7, <3>1, <3>2, <3>3 DEF Ascending
  <2>3. CASE i <= Len(s) /\ j > Len(s)
    <3>1. i \in 1 .. Len(s)
        BY <1>1, <2>3
    <3>2. u[i] = s[i]
        BY <1>2, <3>1
    <3>3. j - Len(s) \in 1 .. Len(t) /\ u[j] = t[j - Len(s)]
        BY <1>4, <2>3
    <3>4. u[i] \in HostBytes(s) /\ u[j] \in HostBytes(t)
        BY <1>5, <3>1, <3>2, <3>3 DEF HostBytes
    <3> QED BY <1>7, <3>4 DEF Below
  <2> QED BY <1>1, <2>1, <2>2, <2>3
<1> QED BY <1>6, <1>7 DEF u
LEMMA ElementBytes ==
    ASSUME NEW x \in Nat
    PROVE  /\ <<x>> \in Seq(Nat) /\ Ascending(<<x>>)
           /\ HostBytes(<<x>>) = {x} \cap (1 .. MaxRemote)
<1>1. <<x>> \in Seq(Nat) /\ Len(<<x>>) = 1 /\ <<x>>[1] = x /\ DOMAIN <<x>> = {1}
    OBVIOUS
<1> QED BY <1>1 DEF Ascending, HostBytes

LEMMA NoBytes == <<>> \in Seq(Nat) /\ Ascending(<<>>) /\ HostBytes(<<>>) = {}
BY DEF Ascending, HostBytes

LEMMA AppendBytes ==
    ASSUME NEW s \in Seq(Nat), NEW x \in Nat
    PROVE  /\ Append(s, x) \in Seq(Nat)
           /\ HostBytes(Append(s, x)) = HostBytes(s) \cup ({x} \cap (1 .. MaxRemote))
           /\ Ascending(Append(s, x)) <=>
                Ascending(s) /\ Below(HostBytes(s), {x} \cap (1 .. MaxRemote))
<1>1. Append(s, x) = s \o <<x>>
    BY AppendIsConcat
<1>2. <<x>> \in Seq(Nat)
    BY ElementBytes
<1>3. /\ s \o <<x>> \in Seq(Nat)
      /\ HostBytes(s \o <<x>>) = HostBytes(s) \cup HostBytes(<<x>>)
      /\ Ascending(s \o <<x>>) <=>
           Ascending(s) /\ Ascending(<<x>>) /\ Below(HostBytes(s), HostBytes(<<x>>))
    BY <1>2, ConcatBytes, ConcatAscending
<1> QED BY <1>1, <1>3, ElementBytes

LEMMA HeadBytes ==
    ASSUME NEW s \in Seq(Nat), s # <<>>
    PROVE  /\ Head(s) \in Nat /\ Tail(s) \in Seq(Nat)
           /\ HostBytes(s) = ({Head(s)} \cap (1 .. MaxRemote)) \cup HostBytes(Tail(s))
           /\ Ascending(s) <=>
                Ascending(Tail(s)) /\ Below({Head(s)} \cap (1 .. MaxRemote), HostBytes(Tail(s)))
<1>1. /\ Head(s) \in Nat /\ Tail(s) \in Seq(Nat) /\ Len(Tail(s)) = Len(s) - 1
      /\ \A i \in 1 .. Len(Tail(s)) : Tail(s)[i] = s[i + 1]
    BY HeadTailProperties
<1>2. <<Head(s)>> \in Seq(Nat) /\ Len(<<Head(s)>>) = 1 /\ <<Head(s)>>[1] = s[1]
    BY <1>1
<1>3. s = <<Head(s)>> \o Tail(s)
  <2> DEFINE t == <<Head(s)>> \o Tail(s)
  <2>1. /\ t \in Seq(Nat) /\ Len(t) = 1 + Len(Tail(s))
        /\ \A i \in 1 .. 1 + Len(Tail(s)) : t[i] = IF i <= 1 THEN s[1] ELSE Tail(s)[i - 1]
    BY <1>1, <1>2, ConcatProperties
  <2>2. Len(s) \in Nat \ {0} /\ Len(t) = Len(s)
    BY <1>1, <2>1, EmptySeq
  <2> HIDE DEF t
  <2>3. \A i \in 1 .. Len(s) : s[i] = t[i]
    <3> TAKE i \in 1 .. Len(s)
    <3>1. CASE i = 1
        BY <1>1, <2>1, <2>2, <3>1
    <3>2. CASE i # 1
      <4>1. i - 1 \in 1 .. Len(Tail(s)) /\ i \in 1 .. 1 + Len(Tail(s)) /\ ~(i <= 1)
        BY <1>1, <2>2, <3>2
      <4>2. t[i] = Tail(s)[i - 1] /\ Tail(s)[i - 1] = s[(i - 1) + 1] /\ (i - 1) + 1 = i
        BY <1>1, <2>1, <4>1
      <4> QED BY <4>2
    <3> QED BY <3>1, <3>2
  <2>4. s = t
    BY <2>1, <2>2, <2>3, SeqEqual
  <2> QED BY <2>4 DEF t
<1>4. /\ HostBytes(<<Head(s)>> \o Tail(s)) = HostBytes(<<Head(s)>>) \cup HostBytes(Tail(s))
      /\ Ascending(<<Head(s)>> \o Tail(s)) <=>
           /\ Ascending(<<Head(s)>>) /\ Ascending(Tail(s))
           /\ Below(HostBytes(<<Head(s)>>), HostBytes(Tail(s)))
    BY <1>1, <1>2, ConcatBytes, ConcatAscending
<1> QED BY <1>1, <1>3, <1>4, ElementBytes
(***************************************************************************)
(* The command mode                                                        *)
(***************************************************************************)
\* The modem answers with a text of its own; it may dial
Says == \E text \in Seq({Text}) : inbuf' = inbuf \o text

Dials ==
    \/ UNCHANGED <<connected, since, sinceKey>>
    \/ connected' = TRUE /\ since' = sent /\ sinceKey' = typed

CommandStep ==
    /\ UNCHANGED <<plus, wire, sent, closed, toRemote, shown>>
    /\ command' \in {"", "dial", "bad"} /\ dialled' \in BOOLEAN /\ first' \in BOOLEAN
    /\ written' \in BOOLEAN
    /\ out' = <<>> \/ out' = out \/ (out # <<>> /\ out' = Tail(out))
    /\ Says /\ Dials

LEMMA DiallingSays ==
    ASSUME TypeOK, NEW echo \in Seq({Text}), SocketConnect(echo)
    PROVE  /\ Says /\ Dials
           /\ UNCHANGED plus /\ dialled' \in BOOLEAN /\ first' \in BOOLEAN
<1>1. Append(echo, Text) \in Seq({Text})
    OBVIOUS
<1>2. inbuf' = inbuf \o Append(echo, Text)
    BY DEF SocketConnect, Tell
<1>3. Says
    BY <1>1, <1>2 DEF Says
<1>4. Dials /\ UNCHANGED plus /\ dialled' = FALSE /\ (first' = TRUE \/ first' = first)
    BY DEF SocketConnect, Dials
<1> QED BY <1>3, <1>4 DEF TypeOK

LEMMA CommandModeSteps ==
    ASSUME TypeOK, NEW silent, CommandMode(silent)
    PROVE  CommandStep
<1> DEFINE key == script[Head(out)]
<1>1. /\ out # <<>> /\ out' = Tail(out) /\ UNCHANGED <<written, wire, sent, closed, toRemote, shown>>
    BY DEF CommandMode, host
<1>2. command' \in {"", "dial", "bad"}
  <2>1. command' = CASE key = "cr" -> ""
                     [] key = "dial" /\ command = "" -> "dial"
                     [] OTHER -> "bad"
    BY DEF CommandMode
  <2> HIDE DEF key
  <2> QED BY <2>1, Zenon
<1>3. <<Text>> \in Seq({Text}) /\ <<Text, Text>> \in Seq({Text})
    OBVIOUS
<1>4. /\ Says /\ Dials
      /\ UNCHANGED plus /\ dialled' \in BOOLEAN /\ first' \in BOOLEAN
  <2>1. CASE SocketConnect(<<Text>>)
    BY <1>3, <2>1, DiallingSays
  <2>2. CASE /\ Tell(<<Text>>) \/ Tell(<<Text, Text>>)
             /\ dialled' = TRUE \/ dialled' = dialled
             /\ UNCHANGED <<connected, first, plus, since, sinceKey>>
    BY <1>3, <2>2 DEF Says, Dials, Tell, TypeOK
  <2> QED BY <2>1, <2>2 DEF CommandMode
<1> QED BY <1>1, <1>2, <1>4 DEF CommandStep, TypeOK

LEMMA OfflineSteps ==
    ASSUME TypeOK, Offline
    PROVE  CommandStep
<1>1. CASE dialled /\ SocketConnect(<<>>) /\ UNCHANGED <<out, written, command, host, toRemote, shown>>
  <2>1. <<>> \in Seq({Text})
    OBVIOUS
  <2> QED BY <1>1, <2>1, DiallingSays DEF CommandStep, host, TypeOK
<1>2. CASE CommandMode(FALSE)
    BY <1>2, CommandModeSteps
<1>3. CASE out = <<>> /\ Empty /\ UNCHANGED <<modem, inbuf, host, history>>
  <2>1. <<>> \in Seq({Text}) /\ inbuf \o <<>> = inbuf
    <3>1. inbuf \o <<>> = inbuf
        BY ConcatEmptySeq DEF TypeOK
    <3> QED BY <3>1
  <2>2. Says
    BY <1>3, <2>1 DEF Says
  <2> QED BY <1>3, <2>2 DEF CommandStep, Dials, Empty, modem, host, history, TypeOK
<1> QED BY <1>1, <1>2, <1>3 DEF Offline
(***************************************************************************)
(* All variables keep their types                                          *)
(***************************************************************************)
LEMMA Bounds == MaxRemote \in Nat /\ NmiDelay \in Nat \ {0} /\ KeepLow \in Nat \ {0} /\ MaxLaunches \in Nat \ {0}
BY RemoteAssumption, TimesAssumption

LEMMA InScript ==
    ASSUME TypeOK
    PROVE  script \in Seq(Keys) /\ Len(script) \in Nat /\ typed \in Nat
<1>1. script \in Seq(Keys)
    BY ScriptsAssumption DEF TypeOK
<1>2. Len(script) \in Nat
    BY <1>1, LenProperties
<1>3. typed \in 0 .. Len(script)
    BY DEF TypeOK
<1>4. typed \in Nat
    BY <1>2, <1>3
<1> QED BY <1>1, <1>2, <1>4

LEMMA TextAppends ==
    ASSUME TypeOK, NEW text \in Seq(1 .. Text), inbuf' = inbuf \o text
    PROVE  inbuf' \in Seq(1 .. Text)
BY ConcatProperties DEF TypeOK

LEMMA CommandTypes ==
    ASSUME TypeOK, CommandStep, UNCHANGED <<typing, response>>
    PROVE  LineTypes' /\ HostTypes' /\ ModemTypes'
<1>1. inbuf' \in Seq(1 .. Text)
  <2>1. PICK text \in Seq({Text}) : inbuf' = inbuf \o text
    BY DEF CommandStep, Says
  <2>2. {Text} \subseteq 1 .. Text
    BY Bounds DEF Text
  <2>3. text \in Seq(1 .. Text)
    BY <2>1, <2>2, SeqMonotonic
  <2> QED BY <2>1, <2>3, TextAppends
<1>2. since' \in {since, sent} /\ sinceKey' \in {sinceKey, typed} /\ connected' \in {connected, TRUE}
    BY DEF CommandStep, Dials
<1>3. out' \in Seq(1 .. Len(script))
  <2>1. out \in Seq(1 .. Len(script))
    BY DEF TypeOK
  <2>2. <<>> \in Seq(1 .. Len(script))
    OBVIOUS
  <2> QED BY <2>1, <2>2, HeadTailProperties DEF CommandStep
<1>4. LineTypes'
    BY <1>2, <1>3 DEF LineTypes, TypeOK, CommandStep, typing
<1>5. HostTypes'
    BY <1>1, <1>2 DEF HostTypes, TypeOK, CommandStep
<1>6. ModemTypes'
    BY <1>2 DEF ModemTypes, TypeOK, CommandStep
<1> QED BY <1>4, <1>5, <1>6

LEMMA HangUpTypes ==
    ASSUME TypeOK, CleanUp, UNCHANGED <<typing, history, response>>
    PROVE  LineTypes' /\ HostTypes' /\ ModemTypes'
<1>1. <<>> \in Seq(1 .. Text) /\ <<>> \in Seq(1 .. MaxRemote) /\ <<>> \in Seq(1 .. Len(script))
    OBVIOUS
<1>2. LineTypes'
    BY <1>1 DEF TypeOK, CleanUp, LineTypes, typing, history
<1>3. HostTypes'
    BY <1>1 DEF TypeOK, CleanUp, HostTypes, history
<1>4. ModemTypes'
  <2>1. dialled \in BOOLEAN
    BY DEF TypeOK
  <2>2. dialled' \in BOOLEAN
    BY <2>1 DEF CleanUp
  <2>3. /\ connected' \in BOOLEAN /\ first' \in BOOLEAN
        /\ written' \in BOOLEAN /\ closed' \in BOOLEAN
    BY Zenon DEF CleanUp
  <2>4. command' = "" /\ plus' = 0
    BY Zenon DEF CleanUp
  <2>5. command' \in {"", "dial", "bad"}
    BY <2>4, Zenon
  <2>6. plus' \in 0 .. 2
    <3>1. 0 \in 0 .. 2
        OBVIOUS
    <3> QED BY <2>4, <3>1, Zenon
  <2> QED BY <2>2, <2>3, <2>5, <2>6 DEF ModemTypes
<1> QED BY <1>2, <1>3, <1>4

LEMMA HaltTypes ==
    ASSUME NEW b \in BOOLEAN, releaseDMA \in BOOLEAN, Halt(b)
    PROVE  dma' \in BOOLEAN /\ releaseDMA' \in BOOLEAN
BY DEF Halt

LEMMA ReadHalts ==
    ASSUME TypeOK, HaltByRead
    PROVE  dma' \in BOOLEAN /\ releaseDMA' \in BOOLEAN
<1>1. PICK late \in BOOLEAN : Halt(connected /\ (inbuf = <<>> \/ late))
    BY DEF HaltByRead
<1>2. (connected /\ (inbuf = <<>> \/ late)) \in BOOLEAN
    BY Zenon
<1> QED BY <1>1, <1>2, HaltTypes DEF TypeOK
LEMMA TerminalTypes ==
    ASSUME TypeOK, Load \/ Type \/ EnableReceive \/ ReadStatus \/ ReadData
    PROVE  TypeOK'
<1>0. LineTypes /\ HostTypes /\ ModemTypes /\ LoopTypes
    BY TypesAreParts
<1>1. LineTypes'
  <2>1. CASE Type
    <3>1. /\ UNCHANGED <<script, toRemote, sinceKey>>
          /\ typed < Len(script) /\ typed' = typed + 1 /\ out' = Append(out, typed')
        BY <2>1 DEF Type, history
    <3>2. typed' \in 1 .. Len(script)
        BY <1>0, <3>1, InScript DEF LineTypes
    <3>3. out' \in Seq(1 .. Len(script))
        BY <1>0, <3>1, <3>2, AppendProperties DEF LineTypes
    <3> QED BY <1>0, <3>1, <3>2, <3>3, InScript DEF LineTypes
  <2>2. CASE Load \/ EnableReceive \/ ReadStatus \/ ReadData
    <3>1. UNCHANGED <<script, typed, out, toRemote, sinceKey>>
        BY <2>2 DEF Load, EnableReceive, ReadStatus, ReadData, typing, history
    <3> QED BY <1>0, <3>1 DEF LineTypes
  <2> QED BY <2>1, <2>2
<1>2. HostTypes'
  <2>1. CASE ReadData
    <3>1. /\ UNCHANGED <<inbuf, wire, sent, since>> /\ response' = 0
          /\ shown' = shown \/ (response \in 1 .. MaxRemote /\ shown' = Append(shown, response))
        BY <2>1 DEF ReadData, host
    <3>2. shown' \in Seq(1 .. MaxRemote)
      <4>1. shown \in Seq(1 .. MaxRemote)
        BY <1>0 DEF HostTypes
      <4>2. response \in 1 .. MaxRemote => Append(shown, response) \in Seq(1 .. MaxRemote)
        BY <4>1, AppendProperties
      <4> QED BY <3>1, <4>1, <4>2
    <3>3. response' \in 0 .. Text
        BY <3>1, Bounds DEF Text
    <3> QED BY <1>0, <3>1, <3>2, <3>3 DEF HostTypes
  <2>2. CASE Load \/ Type \/ EnableReceive \/ ReadStatus
    <3>1. UNCHANGED <<inbuf, wire, sent, since, shown, response>>
        BY <2>2 DEF Load, Type, EnableReceive, ReadStatus, host, history
    <3> QED BY <1>0, <3>1 DEF HostTypes
  <2> QED BY <2>1, <2>2
<1>3. ModemTypes'
  <2>1. UNCHANGED <<command, plus, dialled, connected, first, closed>>
    BY DEF Load, Type, EnableReceive, ReadStatus, ReadData, modem, host
  <2>2. written' = TRUE \/ written' = written
    BY DEF Load, Type, EnableReceive, ReadStatus, ReadData
  <2>3. written' \in BOOLEAN
    BY <1>0, <2>2, Zenon DEF ModemTypes
  <2> QED BY <1>0, <2>1, <2>3 DEF ModemTypes
<1>4. LoopTypes'
  <2>1. /\ UNCHANGED <<kernel, unlocked, pc, toMenu, doNMI, keepNMILow, launches>>
        /\ c64' \in {c64, "idle", "data"}
    BY DEF Load, Type, EnableReceive, ReadStatus, ReadData, nmi
  <2>2. /\ loaded' = TRUE \/ loaded' = loaded
        /\ interrupts' = TRUE \/ interrupts' = interrupts
    BY DEF Load, Type, EnableReceive, ReadStatus, ReadData
  <2>3. loaded' \in BOOLEAN /\ interrupts' \in BOOLEAN
    BY <1>0, <2>2, Zenon DEF LoopTypes
  <2>4. dma' \in BOOLEAN /\ releaseDMA' \in BOOLEAN
    <3>1. CASE Load
        BY <1>0, <3>1 DEF Load, LoopTypes
    <3>2. CASE Type
      <4>1. (connected \/ script[typed'] = "cr") \in BOOLEAN
        BY Zenon
      <4> QED BY <1>0, <3>2, <4>1, HaltTypes DEF Type, LoopTypes
    <3>3. CASE EnableReceive
      <4>1. PICK late \in BOOLEAN : Halt(late /\ connected /\ response = 0 /\ inbuf = <<>>)
        BY <3>3 DEF EnableReceive
      <4>2. (late /\ connected /\ response = 0 /\ inbuf = <<>>) \in BOOLEAN
        BY Zenon
      <4> QED BY <1>0, <4>1, <4>2, HaltTypes DEF LoopTypes
    <3>4. CASE ReadStatus \/ ReadData
        BY <3>4, ReadHalts DEF ReadStatus, ReadData
    <3> QED BY <3>1, <3>2, <3>3, <3>4
  <2> QED BY <1>0, <2>1, <2>3, <2>4 DEF LoopTypes
<1> QED BY <1>1, <1>2, <1>3, <1>4, PartsMakeTypes
LEMMA SilentOrNetTypes ==
    ASSUME TypeOK, Silent \/ NetOffline \/ MenuNet
    PROVE  TypeOK'
<1>0. LineTypes /\ HostTypes /\ ModemTypes /\ LoopTypes
    BY TypesAreParts
<1>1. UNCHANGED <<typing, kernel, loaded, unlocked, dma, releaseDMA, toMenu, response, doNMI, interrupts, c64, launches>>
    BY DEF Silent, NetOffline, MenuNet, Rest, nmi
<1>2. \/ CommandStep
      \/ CleanUp /\ UNCHANGED history
      \/ UNCHANGED <<out, written, modem, inbuf, host, history>>
    BY CommandModeSteps, OfflineSteps DEF Silent, NetOffline, MenuNet
<1>3. LineTypes' /\ HostTypes' /\ ModemTypes'
  <2>1. CASE CommandStep
    BY <1>1, <2>1, CommandTypes
  <2>2. CASE CleanUp /\ UNCHANGED history
    BY <1>1, <2>2, HangUpTypes
  <2>3. CASE UNCHANGED <<out, written, modem, inbuf, host, history>>
    BY <1>0, <1>1, <2>3 DEF LineTypes, HostTypes, ModemTypes, modem, host, history, typing
  <2> QED BY <1>2, <2>1, <2>2, <2>3
<1>4. keepNMILow' \in 0 .. KeepLow
  <2>1. keepNMILow' = keepNMILow \/ (keepNMILow' = IF keepNMILow > 0 THEN keepNMILow - 1 ELSE 0)
    BY DEF Silent, NetOffline, MenuNet, nmi
  <2>2. keepNMILow \in 0 .. KeepLow
    BY <1>0 DEF LoopTypes
  <2> QED BY <2>1, <2>2, Bounds
<1>5. pc' \in {pc, "answer", "reset", "on"}
    BY DEF Silent, NetOffline, MenuNet
<1>6. LoopTypes'
    BY <1>0, <1>1, <1>4, <1>5 DEF LoopTypes
<1> QED BY <1>3, <1>6, PartsMakeTypes

LEMMA NetOnlineTypes ==
    ASSUME TypeOK, NetOnline
    PROVE  TypeOK'
<1>0. LineTypes /\ HostTypes /\ ModemTypes /\ LoopTypes
    BY TypesAreParts
<1>1. /\ UNCHANGED <<typing, kernel, loaded, unlocked, dma, releaseDMA, toMenu, response, nmi, interrupts, c64, launches>>
      /\ pc' \in {"receive", "on"}
    BY DEF NetOnline, Rest
<1>2. \/ out = <<>> /\ Empty /\ UNCHANGED <<modem, inbuf, host, history>>
      \/ CleanUp /\ UNCHANGED history
      \/ /\ out # <<>> /\ ~(plus = 2 /\ script[Head(out)] = "plus")
         /\ plus' = IF script[Head(out)] = "plus" THEN plus + 1 ELSE 0
         /\ out' = Tail(out) /\ toRemote' = Append(toRemote, Head(out))
         /\ first' = TRUE
         /\ UNCHANGED <<written, command, dialled, connected, inbuf, host, shown, since, sinceKey>>
    BY DEF NetOnline
<1>3. LineTypes' /\ HostTypes' /\ ModemTypes'
  <2>1. CASE out = <<>> /\ Empty /\ UNCHANGED <<modem, inbuf, host, history>>
    <3>1. <<>> \in Seq(1 .. Len(script))
        OBVIOUS
    <3>2. written' = FALSE
        BY <2>1 DEF Empty
    <3>3. written' \in BOOLEAN
        BY <3>2, Zenon
    <3>4. LineTypes' /\ HostTypes'
        BY <1>0, <1>1, <2>1, <3>1 DEF LineTypes, HostTypes, modem, host, history, typing, Empty
    <3> QED BY <1>0, <1>1, <2>1, <3>3, <3>4 DEF ModemTypes, modem, host
  <2>2. CASE CleanUp /\ UNCHANGED history
    BY <1>1, <2>2, HangUpTypes
  <2>3. CASE /\ out # <<>> /\ ~(plus = 2 /\ script[Head(out)] = "plus")
             /\ plus' = IF script[Head(out)] = "plus" THEN plus + 1 ELSE 0
             /\ out' = Tail(out) /\ toRemote' = Append(toRemote, Head(out))
             /\ first' = TRUE
             /\ UNCHANGED <<written, command, dialled, connected, inbuf, host, shown, since, sinceKey>>
    <3>1. out \in Seq(1 .. Len(script)) /\ toRemote \in Seq(1 .. Len(script))
        BY <1>0 DEF LineTypes
    <3>2. out' \in Seq(1 .. Len(script)) /\ Head(out) \in 1 .. Len(script)
        BY <2>3, <3>1, HeadTailProperties
    <3>3. toRemote' \in Seq(1 .. Len(script))
        BY <2>3, <3>1, <3>2, AppendProperties
    <3>4. LineTypes'
        BY <1>0, <1>1, <2>3, <3>2, <3>3 DEF LineTypes, typing
    <3>5. HostTypes'
        BY <1>0, <1>1, <2>3 DEF HostTypes, host
    <3>6. plus' \in 0 .. 2
      <4>1. plus \in 0 .. 2
        BY <1>0 DEF ModemTypes
      <4>2. plus' = 0 \/ (plus # 2 /\ plus' = plus + 1)
        BY <2>3, Zenon
      <4> QED BY <4>1, <4>2
    <3>7. first' \in BOOLEAN
        BY <2>3, Zenon
    <3>8. ModemTypes'
        BY <1>0, <2>3, <3>6, <3>7 DEF ModemTypes, host
    <3> QED BY <3>4, <3>5, <3>8
  <2> QED BY <1>2, <2>1, <2>2, <2>3
<1>4. LoopTypes'
    BY <1>0, <1>1 DEF LoopTypes, nmi
<1> QED BY <1>3, <1>4, PartsMakeTypes

LEMMA ReceiveTypes ==
    ASSUME TypeOK, Receive
    PROVE  TypeOK'
<1>0. LineTypes /\ HostTypes /\ ModemTypes /\ LoopTypes
    BY TypesAreParts
<1>1. /\ UNCHANGED <<typing, kernel, loaded, unlocked, dma, releaseDMA, toMenu, response, nmi, interrupts, c64, launches, history>>
      /\ pc' = "on"
    BY DEF Receive, Rest
<1>2. LineTypes' /\ HostTypes' /\ ModemTypes'
  <2>1. CASE CleanUp
    BY <1>1, <2>1, HangUpTypes
  <2>2. CASE ~closed
    <3>1. /\ inbuf' = inbuf \o wire /\ wire' = <<>> /\ first' = FALSE
          /\ UNCHANGED <<out, written, command, dialled, connected, plus, sent, closed>>
        BY <2>2 DEF Receive, Tell
    <3>2. 1 .. MaxRemote \subseteq 1 .. Text
        BY Bounds DEF Text
    <3>3. wire \in Seq(1 .. Text)
        BY <1>0, <3>2, SeqMonotonic DEF HostTypes
    <3>4. inbuf' \in Seq(1 .. Text)
        BY <3>1, <3>3, TextAppends
    <3>5. <<>> \in Seq(1 .. MaxRemote)
        OBVIOUS
    <3>6. HostTypes'
        BY <1>0, <1>1, <3>1, <3>4, <3>5 DEF HostTypes, history
    <3>7. first' \in BOOLEAN
        BY <3>1, Zenon
    <3>8. ModemTypes'
        BY <1>0, <3>1, <3>7 DEF ModemTypes
    <3>9. LineTypes'
        BY <1>0, <1>1, <3>1 DEF LineTypes, typing, history
    <3> QED BY <3>6, <3>8, <3>9
  <2> QED BY <2>1, <2>2 DEF Receive
<1>3. LoopTypes'
    BY <1>0, <1>1 DEF LoopTypes, nmi
<1> QED BY <1>2, <1>3, PartsMakeTypes
LEMMA LoopStepTypes ==
    ASSUME TypeOK, Leave \/ ResetBuffer \/ ReleaseC64 \/ Answer \/ Interrupt
    PROVE  TypeOK'
<1>0. LineTypes /\ HostTypes /\ ModemTypes /\ LoopTypes
    BY TypesAreParts
<1>1. CASE Leave
  <2>1. /\ UNCHANGED <<typing, loaded, interrupts, c64, launches, dma, releaseDMA, out, written, modem, inbuf, host, response, doNMI, history>>
        /\ unlocked' = TRUE /\ toMenu' = FALSE
        /\ kernel' \in {kernel, "menu"} /\ pc' \in {pc, "net"}
        /\ keepNMILow' = IF keepNMILow > 0 THEN keepNMILow - 1 ELSE 0
    BY <1>1 DEF Leave
  <2>2. LineTypes' /\ HostTypes' /\ ModemTypes'
    BY <1>0, <2>1 DEF LineTypes, HostTypes, ModemTypes, modem, host, history, typing
  <2>3. unlocked' \in BOOLEAN /\ toMenu' \in BOOLEAN
    BY <2>1, Zenon
  <2>4. keepNMILow' \in 0 .. KeepLow
    BY <1>0, <2>1, Bounds DEF LoopTypes
  <2>5. LoopTypes'
    BY <1>0, <2>1, <2>3, <2>4 DEF LoopTypes
  <2> QED BY <2>2, <2>5, PartsMakeTypes
<1>2. CASE ResetBuffer
  <2>1. /\ UNCHANGED <<typing, kernel, loaded, interrupts, c64, launches, unlocked, dma, releaseDMA, toMenu, modem, inbuf, host, response, nmi, history>>
        /\ out' = <<>> /\ pc' = "answer"
    BY <1>2 DEF ResetBuffer, Empty, Rest
  <2>2. written' = FALSE
    BY <1>2 DEF ResetBuffer, Empty
  <2>3. <<>> \in Seq(1 .. Len(script))
    OBVIOUS
  <2>4. written' \in BOOLEAN
    BY <2>2, Zenon
  <2>5. LineTypes' /\ HostTypes'
    BY <1>0, <2>1, <2>3 DEF LineTypes, HostTypes, host, history, typing
  <2>6. ModemTypes'
    BY <1>0, <2>1, <2>4 DEF ModemTypes, modem, host
  <2>7. LoopTypes'
    BY <1>0, <2>1 DEF LoopTypes, nmi
  <2> QED BY <2>5, <2>6, <2>7, PartsMakeTypes
<1>3. CASE ReleaseC64
  <2>1. /\ UNCHANGED <<typing, kernel, loaded, interrupts, c64, launches, unlocked, toMenu, out, written, modem, inbuf, host, response, nmi, history>>
        /\ pc' = "answer"
    BY <1>3 DEF ReleaseC64, Rest
  <2>2. dma' = (dma /\ ~releaseDMA) /\ releaseDMA' = FALSE
    BY <1>3, Zenon DEF ReleaseC64
  <2>3. dma' \in BOOLEAN /\ releaseDMA' \in BOOLEAN
    BY <2>2, Zenon
  <2>4. LineTypes' /\ HostTypes' /\ ModemTypes'
    BY <1>0, <2>1 DEF LineTypes, HostTypes, ModemTypes, modem, host, history, typing
  <2>5. LoopTypes'
    BY <1>0, <2>1, <2>3 DEF LoopTypes, nmi
  <2> QED BY <2>4, <2>5, PartsMakeTypes
<1>4. CASE Answer
  <2>1. /\ UNCHANGED <<typing, kernel, loaded, interrupts, c64, launches, unlocked, dma, releaseDMA, toMenu, out, written, modem, host, keepNMILow, history>>
        /\ pc' = "nmi"
    BY <1>4 DEF Answer, Rest
  <2>2. \/ UNCHANGED <<inbuf, response>> /\ doNMI' \in {doNMI, NmiDelay}
        \/ /\ inbuf # <<>> /\ inbuf' = Tail(inbuf)
           /\ response' \in {0, Head(inbuf)} /\ doNMI' \in {0, NmiDelay}
    BY <1>4 DEF Answer
  <2>3. inbuf \in Seq(1 .. Text) /\ response \in 0 .. Text
    BY <1>0 DEF HostTypes
  <2>4. inbuf # <<>> => Tail(inbuf) \in Seq(1 .. Text) /\ Head(inbuf) \in 1 .. Text
    BY <2>3, HeadTailProperties
  <2>5. inbuf' \in Seq(1 .. Text) /\ response' \in 0 .. Text
    <3>1. 0 \in 0 .. Text /\ \A x \in 1 .. Text : x \in 0 .. Text
        BY Bounds DEF Text
    <3> QED BY <2>2, <2>3, <2>4, <3>1
  <2>6. doNMI' \in 0 .. NmiDelay
    <3>1. doNMI \in 0 .. NmiDelay
        BY <1>0 DEF LoopTypes
    <3> QED BY <2>2, <3>1, Bounds
  <2>7. LineTypes' /\ ModemTypes'
    BY <1>0, <2>1 DEF LineTypes, ModemTypes, modem, host, history, typing
  <2>8. HostTypes'
    BY <1>0, <2>1, <2>5 DEF HostTypes, host, history
  <2>9. LoopTypes'
    BY <1>0, <2>1, <2>6 DEF LoopTypes
  <2> QED BY <2>7, <2>8, <2>9, PartsMakeTypes
<1>5. CASE Interrupt
  <2>1. /\ UNCHANGED <<typing, kernel, loaded, interrupts, launches, unlocked, dma, releaseDMA, toMenu, out, written, modem, inbuf, host, response, history>>
        /\ pc' = "loop"
    BY <1>5 DEF Interrupt
  <2>2. /\ doNMI' \in 0 .. doNMI
        /\ keepNMILow' \in {keepNMILow, KeepLow}
        /\ c64' \in {c64, "status"}
    <3> DEFINE n == IF doNMI > 1 THEN doNMI - 1 ELSE doNMI
    <3>1. \/ /\ doNMI' = 0 /\ keepNMILow' = KeepLow
             /\ c64' = IF c64 = "idle" THEN "status" ELSE c64
          \/ doNMI' = n /\ UNCHANGED <<keepNMILow, c64>>
        BY <1>5 DEF Interrupt
    <3>2. doNMI \in Nat
        BY <1>0, Bounds DEF LoopTypes
    <3> QED BY <3>1, <3>2
  <2>3. doNMI' \in 0 .. NmiDelay /\ keepNMILow' \in 0 .. KeepLow
    BY <1>0, <2>2, Bounds DEF LoopTypes
  <2>4. LineTypes' /\ HostTypes' /\ ModemTypes'
    BY <1>0, <2>1 DEF LineTypes, HostTypes, ModemTypes, modem, host, history, typing
  <2>5. LoopTypes'
    BY <1>0, <2>1, <2>2, <2>3 DEF LoopTypes
  <2> QED BY <2>4, <2>5, PartsMakeTypes
<1> QED BY <1>1, <1>2, <1>3, <1>4, <1>5

LEMMA OtherTypes ==
    ASSUME TypeOK, WebLaunch \/ HostSends \/ HostCloses \/ ResetToMenu \/ Launch
    PROVE  TypeOK'
<1>0. LineTypes /\ HostTypes /\ ModemTypes /\ LoopTypes
    BY TypesAreParts
<1>1. CASE WebLaunch \/ ResetToMenu
  <2>1. /\ UNCHANGED <<typing, loaded, interrupts, c64, launches, unlocked, pc, dma, releaseDMA, out, written, modem, inbuf, host, response, nmi, history>>
        /\ kernel' \in {kernel, "menu"} /\ (toMenu' = TRUE \/ toMenu' = toMenu)
    BY <1>1 DEF WebLaunch, ResetToMenu, Rest
  <2>2. toMenu' \in BOOLEAN
    BY <1>0, <2>1, Zenon DEF LoopTypes
  <2>3. LineTypes' /\ HostTypes' /\ ModemTypes'
    BY <1>0, <2>1 DEF LineTypes, HostTypes, ModemTypes, modem, host, history, typing
  <2>4. LoopTypes'
    BY <1>0, <2>1, <2>2 DEF LoopTypes, nmi
  <2> QED BY <2>3, <2>4, PartsMakeTypes
<1>2. CASE HostSends
  <2>1. /\ UNCHANGED <<typing, kernel, loaded, unlocked, pc, dma, releaseDMA, toMenu, out, written, modem, inbuf, closed, response, nmi, interrupts, c64, history, launches>>
        /\ sent < MaxRemote /\ sent' = sent + 1 /\ wire' = Append(wire, sent')
    BY <1>2 DEF HostSends
  <2>2. sent' \in 1 .. MaxRemote /\ wire \in Seq(1 .. MaxRemote)
    BY <1>0, <2>1, Bounds DEF HostTypes
  <2>3. wire' \in Seq(1 .. MaxRemote)
    BY <2>1, <2>2, AppendProperties
  <2>4. sent' \in 0 .. MaxRemote
    BY <2>2
  <2>5. HostTypes'
    BY <1>0, <2>1, <2>3, <2>4 DEF HostTypes, history
  <2>6. LineTypes' /\ ModemTypes'
    BY <1>0, <2>1 DEF LineTypes, ModemTypes, modem, history, typing
  <2>7. LoopTypes'
    BY <1>0, <2>1 DEF LoopTypes, nmi
  <2> QED BY <2>5, <2>6, <2>7, PartsMakeTypes
<1>3. CASE HostCloses
  <2>1. /\ UNCHANGED <<typing, kernel, loaded, unlocked, pc, dma, releaseDMA, toMenu, out, written, modem, inbuf, wire, sent, response, nmi, interrupts, c64, history, launches>>
        /\ closed' = TRUE
    BY <1>3 DEF HostCloses
  <2>2. closed' \in BOOLEAN
    BY <2>1, Zenon
  <2>3. LineTypes' /\ HostTypes'
    BY <1>0, <2>1 DEF LineTypes, HostTypes, history, typing
  <2>4. ModemTypes'
    BY <1>0, <2>1, <2>2 DEF ModemTypes, modem
  <2>5. LoopTypes'
    BY <1>0, <2>1 DEF LoopTypes, nmi
  <2> QED BY <2>3, <2>4, <2>5, PartsMakeTypes
<1>4. CASE Launch
  <2>1. /\ UNCHANGED <<typing, releaseDMA, toMenu, out, written, modem, inbuf, host, toRemote,
                       shown, sinceKey>>
        /\ since' = IF response \in since + 1 .. MaxRemote THEN response ELSE since
        /\ launches < MaxLaunches /\ launches' = launches + 1
        /\ kernel' = "launch" /\ pc' = "loop" /\ c64' = "idle"
        /\ response' = 0 /\ doNMI' = 0 /\ keepNMILow' = 0
    BY <1>4 DEF Launch
  <2>2. loaded' = FALSE /\ unlocked' = FALSE /\ dma' = FALSE /\ interrupts' = FALSE
    BY <1>4, Zenon DEF Launch
  <2>3. loaded' \in BOOLEAN /\ unlocked' \in BOOLEAN /\ dma' \in BOOLEAN /\ interrupts' \in BOOLEAN
    BY <2>2, Zenon
  <2>4. response' \in 0 .. Text /\ doNMI' \in 0 .. NmiDelay /\ keepNMILow' \in 0 .. KeepLow
    BY <2>1, Bounds DEF Text
  <2>5. launches' \in 1 .. MaxLaunches
    BY <1>0, <2>1, Bounds DEF LoopTypes
  <2>6. LineTypes' /\ ModemTypes'
    BY <1>0, <2>1 DEF LineTypes, ModemTypes, modem, host, history, typing
  <2>7. HostTypes'
    BY <1>0, <2>1, <2>4 DEF HostTypes, host, history
  <2>8. LoopTypes'
    BY <1>0, <2>1, <2>3, <2>4, <2>5 DEF LoopTypes
  <2> QED BY <2>6, <2>7, <2>8, PartsMakeTypes
<1> QED BY <1>1, <1>2, <1>3, <1>4

(* Every variable of the modem keeps its type, whatever is typed and sent:  *)
(* no counter passes its bound, and what waits in a buffer is a key that was*)
(* typed or a byte that was sent (kernel_launch.cpp, net.cpp).              *)
THEOREM ModemTypeCorrect == Spec => []TypeOK
<1>1. Init => TypeOK
  <2> SUFFICES ASSUME Init PROVE TypeOK
    OBVIOUS
  <2>1. script \in Scripts /\ Len(script) \in Nat
    BY ScriptsAssumption, LenProperties DEF Init
  <2>2. /\ typed = 0 /\ out = <<>> /\ toRemote = <<>> /\ sinceKey = 0
        /\ inbuf = <<>> /\ wire = <<>> /\ response = 0 /\ shown = <<>> /\ sent = 0 /\ since = 0
        /\ command = "" /\ plus = 0 /\ kernel = "launch" /\ pc = "loop"
        /\ doNMI = 0 /\ keepNMILow = 0 /\ c64 = "idle" /\ launches = 1
    BY DEF Init
  <2>3. /\ dialled = FALSE /\ connected = FALSE /\ first = FALSE /\ written = FALSE
        /\ closed = FALSE /\ loaded = FALSE /\ unlocked = FALSE /\ dma = FALSE
        /\ releaseDMA = FALSE /\ toMenu = FALSE /\ interrupts = FALSE
    BY Zenon DEF Init
  <2>4. /\ dialled \in BOOLEAN /\ connected \in BOOLEAN /\ first \in BOOLEAN
        /\ written \in BOOLEAN /\ closed \in BOOLEAN /\ loaded \in BOOLEAN
        /\ unlocked \in BOOLEAN /\ dma \in BOOLEAN /\ releaseDMA \in BOOLEAN
        /\ toMenu \in BOOLEAN /\ interrupts \in BOOLEAN
    BY <2>3, Zenon
  <2>5. /\ 0 \in 0 .. Len(script) /\ 0 \in 0 .. Text /\ 0 \in 0 .. MaxRemote /\ 0 \in 0 .. 2
        /\ 0 \in 0 .. NmiDelay /\ 0 \in 0 .. KeepLow /\ 1 \in 1 .. MaxLaunches
    BY <2>1, Bounds DEF Text
  <2>0. <<>> \in Seq(1 .. Len(script)) /\ <<>> \in Seq(1 .. Text) /\ <<>> \in Seq(1 .. MaxRemote)
    BY EmptySeq
  <2>6. LineTypes
    BY <2>0, <2>1, <2>2, <2>5, Zenon DEF LineTypes
  <2>7. HostTypes
    BY <2>0, <2>2, <2>5, Zenon DEF HostTypes
  <2>8. ModemTypes
    BY <2>2, <2>4, <2>5 DEF ModemTypes
  <2>9. LoopTypes
    BY <2>2, <2>4, <2>5 DEF LoopTypes
  <2> QED BY <2>6, <2>7, <2>8, <2>9, TypesAreParts
<1>2. TypeOK /\ [Next]_vars => TypeOK'
  <2>1. ASSUME TypeOK, UNCHANGED vars PROVE TypeOK'
    <3>1. LineTypes' /\ HostTypes' /\ ModemTypes'
        BY <2>1, TypesAreParts DEF LineTypes, HostTypes, ModemTypes, vars, typing, modem, host, history
    <3>2. LoopTypes'
        BY <2>1, TypesAreParts DEF LoopTypes, vars, nmi
    <3> QED BY <3>1, <3>2, PartsMakeTypes
  <2> QED BY <2>1, TerminalTypes, SilentOrNetTypes, NetOnlineTypes, ReceiveTypes, LoopStepTypes,
             OtherTypes DEF Next, MainLoop
<1> QED BY <1>1, <1>2, PTL DEF Spec
(***************************************************************************)
(* The bytes of the remote host, from the network to the screen            *)
(***************************************************************************)
Offered == {response} \cap (1 .. MaxRemote)

\* What is further on its way was sent earlier
OrderIInv ==
    /\ Ascending(shown) /\ Ascending(inbuf) /\ Ascending(wire)
    /\ Below(HostBytes(shown), Offered) /\ Below(HostBytes(shown), HostBytes(inbuf))
    /\ Below(HostBytes(shown), HostBytes(wire))
    /\ Below(Offered, HostBytes(inbuf)) /\ Below(Offered, HostBytes(wire))
    /\ Below(HostBytes(inbuf), HostBytes(wire))

Known == HostBytes(shown) \cup Offered \cup HostBytes(inbuf) \cup HostBytes(wire)

\* Without a connection nothing is in the network: what the modem says then
\* comes after all that the host has sent.
ScreenIInv ==
    /\ OrderIInv
    /\ Known \subseteq 1 .. sent
    /\ connected => since + 1 .. sent \subseteq Known \cup Nuls
    /\ ~connected => wire = <<>>

LEMMA InNat ==
    ASSUME TypeOK
    PROVE  /\ shown \in Seq(Nat) /\ inbuf \in Seq(Nat) /\ wire \in Seq(Nat)
           /\ response \in Nat /\ sent \in Nat
<1>1. 1 .. MaxRemote \subseteq Nat /\ 1 .. Text \subseteq Nat
    BY Bounds DEF Text
<1>2. shown \in Seq(1 .. MaxRemote) /\ inbuf \in Seq(1 .. Text) /\ wire \in Seq(1 .. MaxRemote)
    BY TypesAreParts DEF HostTypes
<1>3. shown \in Seq(Nat) /\ inbuf \in Seq(Nat) /\ wire \in Seq(Nat)
    BY <1>1, <1>2, SeqMonotonic
<1>4. response \in 0 .. Text /\ sent \in 0 .. MaxRemote
    BY TypesAreParts DEF HostTypes
<1>5. response \in Nat /\ sent \in Nat
    BY <1>4, Bounds DEF Text
<1> QED BY <1>3, <1>5

LEMMA ScreenStays ==
    ASSUME ScreenIInv, UNCHANGED <<shown, response, inbuf, wire, sent, since, connected>>
    PROVE  ScreenIInv'
BY DEF ScreenIInv, OrderIInv, Known, Offered, HostBytes, Below, Ascending

LEMMA TextIsNoByte ==
    ASSUME NEW text \in Seq({Text})
    PROVE  text \in Seq(Nat) /\ HostBytes(text) = {} /\ Ascending(text)
<1>1. {Text} \subseteq Nat /\ Text \notin 1 .. MaxRemote
    BY Bounds DEF Text
<1>2. text \in Seq(Nat)
    BY <1>1, SeqMonotonic
<1>3. \A i \in DOMAIN text : text[i] = Text
  <2>1. DOMAIN text = 1 .. Len(text)
    BY LenProperties
  <2>2. \A i \in 1 .. Len(text) : text[i] \in {Text}
    BY ElementOfSeq
  <2> QED BY <2>1, <2>2
<1> QED BY <1>1, <1>2, <1>3 DEF HostBytes, Ascending

LEMMA CommandKeepsScreen ==
    ASSUME TypeOK, ScreenIInv, CommandStep, ~connected, UNCHANGED response
    PROVE  ScreenIInv'
<1>1. PICK text \in Seq({Text}) : inbuf' = inbuf \o text
    BY DEF CommandStep, Says
<1>2. text \in Seq(Nat) /\ HostBytes(text) = {} /\ Ascending(text)
    BY TextIsNoByte
<1>3. HostBytes(inbuf') = HostBytes(inbuf) /\ (Ascending(inbuf') <=> Ascending(inbuf))
  <2>1. inbuf \in Seq(Nat)
    BY InNat
  <2>2. HostBytes(inbuf \o text) = HostBytes(inbuf) \cup HostBytes(text)
    BY <1>2, <2>1, ConcatBytes
  <2>3. Ascending(inbuf \o text) <=>
          Ascending(inbuf) /\ Ascending(text) /\ Below(HostBytes(inbuf), HostBytes(text))
    BY <1>2, <2>1, ConcatAscending
  <2>4. Below(HostBytes(inbuf), {})
    BY DEF Below
  <2> QED BY <1>1, <1>2, <2>2, <2>3, <2>4
<1>4. wire' = wire /\ sent' = sent /\ shown' = shown /\ wire = <<>>
    BY DEF CommandStep, ScreenIInv
<1>5. OrderIInv' /\ Known' = Known
    BY <1>3, <1>4 DEF ScreenIInv, OrderIInv, Known, Offered
<1>6. connected' => since' = sent
    BY DEF CommandStep, Dials
<1>7. connected' => since' + 1 .. sent' = {}
    BY <1>4, <1>6, InNat
<1>8. Known' \subseteq 1 .. sent'
    BY <1>4, <1>5 DEF ScreenIInv
<1> QED BY <1>4, <1>5, <1>7, <1>8 DEF ScreenIInv

LEMMA CleanUpKeepsScreen ==
    ASSUME ScreenIInv, CleanUp, UNCHANGED <<response, history>>
    PROVE  ScreenIInv'
<1>1. /\ ~connected' /\ inbuf' = <<>> /\ wire' = <<>>
      /\ UNCHANGED <<sent, shown, response>>
    BY DEF CleanUp, history
<1>2. /\ HostBytes(inbuf') = {} /\ HostBytes(wire') = {}
      /\ Ascending(inbuf') /\ Ascending(wire')
    BY <1>1, NoBytes
<1>3. OrderIInv' /\ Known' \subseteq Known
    BY <1>1, <1>2 DEF ScreenIInv, OrderIInv, Known, Offered, Below
<1> QED BY <1>1, <1>3 DEF ScreenIInv

LEMMA ReceiveKeepsScreen ==
    ASSUME TypeOK, ScreenIInv, Receive
    PROVE  ScreenIInv'
<1>1. UNCHANGED <<response, history>>
    BY DEF Receive
<1>2. CASE CleanUp
    BY <1>1, <1>2, CleanUpKeepsScreen
<1>3. CASE ~closed
  <2>1. inbuf' = inbuf \o wire /\ wire' = <<>> /\ UNCHANGED <<connected, sent, shown, since>>
    BY <1>1, <1>3 DEF Receive, Tell, history
  <2>2. HostBytes(inbuf') = HostBytes(inbuf) \cup HostBytes(wire) /\ Ascending(inbuf')
    BY <2>1, InNat, ConcatBytes, ConcatAscending DEF ScreenIInv, OrderIInv
  <2>3. HostBytes(wire') = {} /\ Ascending(wire')
    BY <2>1, NoBytes
  <2>4. Known' = Known
    BY <1>1, <2>1, <2>2, <2>3 DEF Known, Offered
  <2>5. OrderIInv'
    BY <1>1, <2>1, <2>2, <2>3 DEF ScreenIInv, OrderIInv, Offered, Below
  <2> QED BY <2>1, <2>4, <2>5 DEF ScreenIInv
<1> QED BY <1>2, <1>3 DEF Receive

LEMMA SendKeepsScreen ==
    ASSUME TypeOK, ScreenIInv, HostSends
    PROVE  ScreenIInv'
<1>1. /\ connected /\ sent < MaxRemote /\ sent' = sent + 1 /\ wire' = Append(wire, sent')
      /\ UNCHANGED <<shown, response, inbuf, since, connected>>
    BY DEF HostSends, history, modem
<1>2. sent \in Nat /\ sent' \in Nat /\ {sent'} \cap (1 .. MaxRemote) = {sent'}
    BY <1>1, InNat, Bounds
<1>3. Below(Known, {sent'})
    BY <1>1, <1>2 DEF ScreenIInv, Below
<1>4. /\ HostBytes(wire') = HostBytes(wire) \cup {sent'}
      /\ Ascending(wire') <=> Ascending(wire) /\ Below(HostBytes(wire), {sent'})
  <2>1. wire \in Seq(Nat)
    BY InNat
  <2>2. /\ HostBytes(Append(wire, sent')) = HostBytes(wire) \cup ({sent'} \cap (1 .. MaxRemote))
        /\ Ascending(Append(wire, sent')) <=>
             Ascending(wire) /\ Below(HostBytes(wire), {sent'} \cap (1 .. MaxRemote))
    BY <1>2, <2>1, AppendBytes
  <2> QED BY <1>1, <1>2, <2>2
<1>5. OrderIInv'
    BY <1>1, <1>3, <1>4 DEF ScreenIInv, OrderIInv, Known, Offered, Below
<1>6. Known' = Known \cup {sent'}
    BY <1>1, <1>4 DEF Known, Offered
<1>7. Known' \subseteq 1 .. sent'
    BY <1>1, <1>2, <1>6 DEF ScreenIInv
<1>8. since' + 1 .. sent' \subseteq (since + 1 .. sent) \cup {sent'}
  <2>1. since \in 0 .. MaxRemote
    BY DEF TypeOK
  <2> QED BY <1>1, <1>2, <2>1
<1> QED BY <1>1, <1>5, <1>6, <1>7, <1>8 DEF ScreenIInv

LEMMA ReadKeepsScreen ==
    ASSUME TypeOK, ScreenIInv, ReadData
    PROVE  ScreenIInv'
<1>1. /\ shown' = IF response \in 1 .. MaxRemote THEN Append(shown, response) ELSE shown
      /\ response' = 0 /\ UNCHANGED <<inbuf, wire, sent, since, connected>>
    BY DEF ReadData, host, modem
<1>2. Offered' = {}
    BY <1>1 DEF Offered
<1>3. HostBytes(shown') = HostBytes(shown) \cup Offered /\ Ascending(shown')
  <2>1. CASE response \in 1 .. MaxRemote
    BY <1>1, <2>1, InNat, AppendBytes DEF Offered, ScreenIInv, OrderIInv
  <2>2. CASE response \notin 1 .. MaxRemote
    BY <1>1, <2>2 DEF Offered, ScreenIInv, OrderIInv
  <2> QED BY <2>1, <2>2
<1>4. OrderIInv'
    BY <1>1, <1>2, <1>3 DEF ScreenIInv, OrderIInv, Below
<1>5. Known' = Known
    BY <1>1, <1>2, <1>3 DEF Known
<1> QED BY <1>1, <1>4, <1>5 DEF ScreenIInv

LEMMA AnswerKeepsScreen ==
    ASSUME TypeOK, ScreenIInv, Answer
    PROVE  ScreenIInv'
<1>1. UNCHANGED <<shown, wire, sent, since, connected>>
    BY DEF Answer, host, modem, history
<1>2. \/ UNCHANGED <<inbuf, response>>
      \/ /\ response = 0 /\ inbuf # <<>> /\ inbuf' = Tail(inbuf)
         /\ response' = IF Head(inbuf) \in Nuls THEN 0 ELSE Head(inbuf)
    BY DEF Answer
<1>3. CASE UNCHANGED <<inbuf, response>>
    BY <1>1, <1>3, ScreenStays
<1>4. CASE /\ response = 0 /\ inbuf # <<>> /\ inbuf' = Tail(inbuf)
           /\ response' = IF Head(inbuf) \in Nuls THEN 0 ELSE Head(inbuf)
  <2> DEFINE H == {Head(inbuf)} \cap (1 .. MaxRemote)
  <2>1. /\ HostBytes(inbuf) = H \cup HostBytes(inbuf')
        /\ Ascending(inbuf) <=> Ascending(inbuf') /\ Below(H, HostBytes(inbuf'))
    BY <1>4, InNat, HeadBytes
  <2>2. Offered = {}
    BY <1>4 DEF Offered
  <2>3. Offered' \subseteq H /\ H \subseteq Offered' \cup Nuls
    BY <1>4 DEF Offered
  <2> HIDE DEF H
  <2>4. OrderIInv'
    BY <1>1, <2>1, <2>2, <2>3 DEF ScreenIInv, OrderIInv, Below
  <2>5. Known' \subseteq Known /\ Known \subseteq Known' \cup Nuls
    BY <1>1, <2>1, <2>2, <2>3 DEF Known
  <2> QED BY <1>1, <2>4, <2>5 DEF ScreenIInv
<1> QED BY <1>2, <1>3, <1>4

LEMMA LaunchKeepsScreen ==
    ASSUME TypeOK, ScreenIInv, Launch
    PROVE  ScreenIInv'
<1>1. /\ response' = 0 /\ UNCHANGED <<shown, inbuf, wire, sent, connected>>
      /\ since' = IF response \in since + 1 .. MaxRemote THEN response ELSE since
    BY DEF Launch, host, modem
<1>2. Offered' = {}
    BY <1>1 DEF Offered
<1>3. OrderIInv' /\ Known' \subseteq Known /\ Known \subseteq Known' \cup {response}
    BY <1>1, <1>2 DEF ScreenIInv, OrderIInv, Known, Offered, Below
<1>4. since' + 1 .. sent' \subseteq (since + 1 .. sent) \ {response}
  <2>1. since \in 0 .. MaxRemote /\ sent \in 0 .. MaxRemote /\ response \in Nat
    BY InNat DEF TypeOK
  <2> QED BY <1>1, <2>1, Bounds
<1> QED BY <1>1, <1>3, <1>4 DEF ScreenIInv

LEMMA OthersKeepScreen ==
    ASSUME ScreenIInv,
           \/ Load \/ Type \/ EnableReceive \/ ReadStatus \/ Leave \/ ResetBuffer \/ ReleaseC64
           \/ Interrupt \/ WebLaunch \/ HostCloses \/ ResetToMenu \/ UNCHANGED vars
    PROVE  ScreenIInv'
<1>1. UNCHANGED <<shown, response, inbuf, wire, sent, since, connected>>
    BY DEF Load, Type, EnableReceive, ReadStatus, Leave, ResetBuffer, ReleaseC64, Interrupt,
           WebLaunch, HostCloses, ResetToMenu, vars, modem, host, history, Rest
<1> QED BY <1>1, ScreenStays

LEMMA ServedKeepsScreen ==
    ASSUME TypeOK, ScreenIInv, Silent \/ NetOffline \/ MenuNet \/ NetOnline
    PROVE  ScreenIInv'
<1>1. UNCHANGED response
    BY DEF Silent, NetOffline, MenuNet, NetOnline
<1>2. \/ CommandStep /\ ~connected
      \/ CleanUp /\ UNCHANGED history
      \/ UNCHANGED <<shown, inbuf, wire, sent, since, connected>>
  <2>1. CASE Silent
    BY <2>1, CommandModeSteps DEF Silent, modem, host, history
  <2>2. CASE NetOffline
    BY <2>2, OfflineSteps DEF NetOffline, Offline
  <2>3. CASE MenuNet
    BY <2>3, OfflineSteps DEF MenuNet, Offline
  <2>4. CASE NetOnline
    BY <2>4 DEF NetOnline, modem, host, history
  <2> QED BY <2>1, <2>2, <2>3, <2>4
<1>3. CASE CommandStep /\ ~connected
    BY <1>1, <1>3, CommandKeepsScreen
<1>4. CASE CleanUp /\ UNCHANGED history
    BY <1>1, <1>4, CleanUpKeepsScreen
<1>5. CASE UNCHANGED <<shown, inbuf, wire, sent, since, connected>>
    BY <1>1, <1>5, ScreenStays
<1> QED BY <1>2, <1>3, <1>4, <1>5

LEMMA ScreenFromParts ==
    ASSUME TypeOK, ScreenIInv
    PROVE  ScreenTrue
<1> DEFINE s == shown \o <<response>>
           t == s \o inbuf
<1>0. <<response>> \in Seq(Nat) /\ Ascending(<<response>>) /\ HostBytes(<<response>>) = Offered
    BY InNat, ElementBytes DEF Offered
<1>1. s \in Seq(Nat) /\ Ascending(s) /\ HostBytes(s) = HostBytes(shown) \cup Offered
    BY <1>0, InNat, ConcatBytes, ConcatAscending DEF ScreenIInv, OrderIInv
<1> HIDE DEF s
<1>2. t \in Seq(Nat) /\ Ascending(t) /\ HostBytes(t) = HostBytes(s) \cup HostBytes(inbuf)
  <2>1. Below(HostBytes(s), HostBytes(inbuf))
    BY <1>1 DEF ScreenIInv, OrderIInv, Below
  <2> QED BY <1>1, <2>1, InNat, ConcatBytes, ConcatAscending DEF ScreenIInv, OrderIInv
<1> HIDE DEF t
<1>3. Ascending(t \o wire) /\ HostBytes(t \o wire) = HostBytes(t) \cup HostBytes(wire)
  <2>1. Below(HostBytes(t), HostBytes(wire))
    BY <1>1, <1>2 DEF ScreenIInv, OrderIInv, Below
  <2> QED BY <1>2, <2>1, InNat, ConcatBytes, ConcatAscending DEF ScreenIInv, OrderIInv
<1>4. Arriving = t \o wire
    BY DEF Arriving, s, t
<1>5. HostBytes(Arriving) = Known
    BY <1>1, <1>2, <1>3, <1>4 DEF Known
<1>6. Ascending(Arriving)
    BY <1>3, <1>4
<1>7. connected => \A b \in since + 1 .. sent :
                      b \in Nuls \/ \E i \in DOMAIN Arriving : Arriving[i] = b
    BY <1>5 DEF ScreenIInv, HostBytes
<1> QED BY <1>6, <1>7 DEF ScreenTrue

(* Whatever the timing of the host, the main loop and the C64, for any      *)
(* number of bytes: the screen shows them in order, none twice, and while   *)
(* the connection lasts none but the zeros is missing (net.cpp,             *)
(* handleModemEmulation; kernel_launch.cpp, swiftLinkResponse).             *)
THEOREM ScreenIsTrue == Spec => []ScreenTrue
<1>1. Init => ScreenIInv
  <2> SUFFICES ASSUME Init PROVE ScreenIInv
    OBVIOUS
  <2>1. shown = <<>> /\ inbuf = <<>> /\ wire = <<>> /\ response = 0 /\ ~connected
    BY DEF Init
  <2>2. Offered = {}
    BY <2>1 DEF Offered
  <2> QED BY <2>1, <2>2, NoBytes DEF ScreenIInv, OrderIInv, Known, Below
<1>2. TypeOK /\ ScreenIInv /\ [Next]_vars => ScreenIInv'
    BY ReceiveKeepsScreen, SendKeepsScreen, ReadKeepsScreen, AnswerKeepsScreen, LaunchKeepsScreen,
       OthersKeepScreen, ServedKeepsScreen DEF Next, MainLoop
<1>3. TypeOK /\ ScreenIInv => ScreenTrue
    BY ScreenFromParts
<1> QED BY <1>1, <1>2, <1>3, ModemTypeCorrect, PTL DEF Spec

-----------------------------------------------------------------------------
(***************************************************************************)
(* Freezer: what the handlers have in common                               *)
(***************************************************************************)
\* The map that a handler has set when it ends the freezing
Frozen(mode) == mode = "ultimax" \/ (cart = "fc3" /\ mode = "16k")

Accesses == [kind : {"rom", "ram", "ramread", "ioread", "write", "ramwrite", "iowrite"},
             mode : Modes, off : BOOLEAN, nmi : BOOLEAN]

\* countWrites after an access, if nothing else sets it
Count(a) == IF Read(a) THEN 0 ELSE IF f.count = 4 THEN 4 ELSE f.count + 1

\* What the handlers have in common.  While the button is not looked at: a read
\* resets the counter or leaves it, nothing but three writes ends the freezing.
\* Only KCS and Super Snapshot 5 change the memory map when they see the button.
HandlerFacts(a, h) ==
    /\ h \in Cartridge
    /\ cart = "ar" => h.count = Count(a)
    /\ ~f.freezing /\ h.freezing => h.nmi /\ h.debounce /\ (cart = "ar" \/ h.count = 0)
    /\ ~f.freezing /\ h.freezing => h.mode = f.mode \/ cart \in {"kcs", "ss5"}
    /\ f.debounce =>
         /\ h.freezing => f.freezing
         /\ h.count = Count(a) \/ (Read(a) /\ a.kind # "ram" /\ h.count = f.count)
         /\ pending > 0 => h.debounce
         /\ f.freezing /\ ~h.freezing => h.count = 3 /\ Frozen(h.mode)
         /\ a.kind = "write" /\ f.freezing /\ h.count = 3 => ~h.freezing
         /\ a.kind = "write" /\ ~f.freezing => h.mode = f.mode

LEMMA CountedFacts ==
    ASSUME f \in Cartridge, NEW a \in Accesses
    PROVE  /\ Counted(f, a) \in Cartridge
           /\ Counted(f, a).mode = f.mode /\ Counted(f, a).nmi = f.nmi
           /\ Counted(f, a).active = f.active /\ Counted(f, a).count = Count(a)
           /\ Counted(f, a).freezing = f.freezing /\ Counted(f, a).debounce = f.debounce
BY DEF Cartridge, Counted, Count

\* What the FIQ handlers do after an access that they do not handle otherwise
LEMMA SettledFacts ==
    ASSUME f \in Cartridge, NEW a \in Accesses, NEW g \in Cartridge,
           g.count = Count(a), g.freezing = f.freezing, g.debounce = f.debounce,
           a.kind = "write" => g.mode = f.mode, ~(g.freezing /\ g.count = 3),
           NEW h \in Settled(g)
    PROVE  HandlerFacts(a, h)
<1>1. CASE h = g
    BY <1>1 DEF HandlerFacts
<1>2. CASE h = [g EXCEPT !.debounce = FALSE] /\ ~(pending > 0)
    BY <1>2 DEF HandlerFacts, Cartridge
<1> QED BY <1>1, <1>2 DEF Settled

\* The button begins the freezing
LEMMA BeganFacts ==
    ASSUME NEW a \in Accesses, NEW h \in Cartridge, cart # "ar", ~f.debounce,
           h.count = 0, h.nmi, h.debounce, h.mode = f.mode \/ cart \in {"kcs", "ss5"}
    PROVE  HandlerFacts(a, h)
BY DEF HandlerFacts

LEMMA ArFacts ==
    ASSUME f \in Cartridge, cart = "ar", NEW a \in Accesses, NEW h \in KernelAR6FIQHandler(f, a)
    PROVE  HandlerFacts(a, h)
<1> DEFINE g == Counted(f, a)
<1>1. /\ g \in Cartridge /\ g.mode = f.mode /\ g.nmi = f.nmi /\ g.active = f.active
      /\ g.count = Count(a) /\ g.freezing = f.freezing /\ g.debounce = f.debounce
    BY CountedFacts
<1>2. h \in IF g.active /\ a.kind \in {"rom", "ioread", "ramwrite"} THEN {g}
    ELSE IF g.active /\ a.kind = "iowrite" THEN {ArRegister(g, a)}
    ELSE IF button /\ ~g.debounce
      THEN {[g EXCEPT !.debounce = TRUE, !.freezing = TRUE, !.nmi = TRUE]}
    ELSE IF g.freezing /\ g.count = 3
      THEN {[g EXCEPT !.mode = "ultimax", !.nmi = FALSE, !.active = TRUE, !.freezing = FALSE]}
    ELSE Settled(g)
    BY DEF KernelAR6FIQHandler
<1> HIDE DEF g
<1>3. CASE g.active /\ a.kind \in {"rom", "ioread", "ramwrite"}
    BY <1>1, <1>2, <1>3 DEF HandlerFacts, Read
<1>4. CASE g.active /\ a.kind = "iowrite"
  <2>1. h = [g EXCEPT !.mode = a.mode, !.active = @ /\ ~a.off, !.nmi = @ /\ ~a.nmi]
    BY <1>2, <1>4 DEF ArRegister
  <2>2. (g.active /\ ~a.off) \in BOOLEAN /\ (g.nmi /\ ~a.nmi) \in BOOLEAN /\ a.mode \in Modes
    BY DEF Accesses
  <2>3. h \in Cartridge
    BY <1>1, <2>1, <2>2 DEF Cartridge
  <2>4. h.count = g.count /\ h.freezing = g.freezing /\ h.debounce = g.debounce
    BY <1>1, <2>1 DEF Cartridge
  <2> QED BY <1>1, <1>4, <2>3, <2>4 DEF HandlerFacts, Read
<1>5. CASE ~(g.active /\ a.kind \in {"rom", "ioread", "ramwrite", "iowrite"}) /\ button /\ ~g.debounce
    BY <1>1, <1>2, <1>5 DEF HandlerFacts, Cartridge
<1>6. CASE /\ ~(g.active /\ a.kind \in {"rom", "ioread", "ramwrite", "iowrite"}) /\ ~(button /\ ~g.debounce)
           /\ g.freezing /\ g.count = 3
    BY <1>1, <1>2, <1>6 DEF HandlerFacts, Cartridge, Frozen, Modes
<1>7. CASE /\ ~(g.active /\ a.kind \in {"rom", "ioread", "ramwrite", "iowrite"}) /\ ~(button /\ ~g.debounce)
           /\ ~(g.freezing /\ g.count = 3)
    BY <1>1, <1>2, <1>7, SettledFacts
<1> QED BY <1>3, <1>4, <1>5, <1>6, <1>7

LEMMA Fc3Facts ==
    ASSUME f \in Cartridge, cart = "fc3", NEW a \in Accesses, NEW h \in KernelFC3FIQHandler(f, a)
    PROVE  HandlerFacts(a, h)
<1> DEFINE g == Counted(f, a)
<1>1. /\ g \in Cartridge /\ g.mode = f.mode /\ g.nmi = f.nmi /\ g.active = f.active
      /\ g.count = Count(a) /\ g.freezing = f.freezing /\ g.debounce = f.debounce
    BY CountedFacts
<1>2. h \in IF a.kind \in {"rom", "ioread"} THEN {f}
            ELSE IF g.active /\ a.kind = "iowrite"
              THEN {[g EXCEPT !.mode = a.mode, !.nmi = a.nmi,
                              !.active = ~a.off \/ a.mode = "ultimax"]}
            ELSE IF button /\ ~g.debounce
              THEN {[g EXCEPT !.debounce = TRUE, !.freezing = TRUE, !.nmi = TRUE, !.count = 0]}
            ELSE IF g.freezing /\ g.count = 3
              THEN {[g EXCEPT !.mode = GameLow(@), !.active = TRUE, !.freezing = FALSE]}
            ELSE Settled(g)
    BY DEF KernelFC3FIQHandler
<1> HIDE DEF g
<1>3. CASE a.kind \in {"rom", "ioread"}
    BY <1>1, <1>2, <1>3 DEF HandlerFacts, Read
<1>4. CASE g.active /\ a.kind = "iowrite"
  <2>1. h = [g EXCEPT !.mode = a.mode, !.nmi = a.nmi, !.active = ~a.off \/ a.mode = "ultimax"]
    BY <1>2, <1>4
  <2>2. (~a.off \/ a.mode = "ultimax") \in BOOLEAN /\ a.nmi \in BOOLEAN /\ a.mode \in Modes
    BY DEF Accesses
  <2>3. h \in Cartridge
    BY <1>1, <2>1, <2>2 DEF Cartridge
  <2>4. h.count = g.count /\ h.freezing = g.freezing /\ h.debounce = g.debounce
    BY <1>1, <2>1 DEF Cartridge
  <2> QED BY <1>1, <1>4, <2>3, <2>4 DEF HandlerFacts, Read
<1>5. CASE /\ a.kind \notin {"rom", "ioread"} /\ ~(g.active /\ a.kind = "iowrite")
           /\ button /\ ~g.debounce
  <2>1. h = [g EXCEPT !.debounce = TRUE, !.freezing = TRUE, !.nmi = TRUE, !.count = 0]
    BY <1>2, <1>5
  <2>2. 0 \in 0 .. 4 /\ "ultimax" \in Modes
    BY DEF Modes
  <2>3. h \in Cartridge /\ h.count = 0 /\ h.nmi /\ h.debounce /\ h.mode = f.mode
    BY <1>1, <2>1, <2>2 DEF Cartridge
  <2> QED BY <1>1, <1>5, <2>3, BeganFacts
<1>6. CASE /\ a.kind \notin {"rom", "ioread"} /\ ~(g.active /\ a.kind = "iowrite")
           /\ ~(button /\ ~g.debounce) /\ g.freezing /\ g.count = 3
  <2>1. GameLow(g.mode) \in {"ultimax", "16k"}
    BY DEF GameLow
  <2> QED BY <1>1, <1>2, <1>6, <2>1 DEF HandlerFacts, Cartridge, Frozen, Modes
<1>7. CASE /\ a.kind \notin {"rom", "ioread"} /\ ~(g.active /\ a.kind = "iowrite")
           /\ ~(button /\ ~g.debounce) /\ ~(g.freezing /\ g.count = 3)
    BY <1>1, <1>2, <1>7, SettledFacts
<1> QED BY <1>3, <1>4, <1>5, <1>6, <1>7

LEMMA FmFacts ==
    ASSUME f \in Cartridge, cart \in {"fm", "ff"}, NEW a \in Accesses,
           NEW h \in KernelFMFIQHandler(f, a)
    PROVE  HandlerFacts(a, h)
<1> DEFINE g == Counted(f, a)
<1>1. /\ g \in Cartridge /\ g.mode = f.mode /\ g.nmi = f.nmi /\ g.active = f.active
      /\ g.count = Count(a) /\ g.freezing = f.freezing /\ g.debounce = f.debounce
    BY CountedFacts
<1>2. h \in IF a.kind = "rom" THEN {f}
            ELSE IF a.kind = "ioread" /\ g.active THEN {FmRegister(g, a.off)}
            ELSE IF button /\ ~g.debounce
              THEN {[g EXCEPT !.debounce = TRUE, !.freezing = TRUE, !.nmi = TRUE, !.count = 0]}
            ELSE IF g.freezing /\ g.count = 3
              THEN {[g EXCEPT !.mode = "ultimax", !.active = TRUE, !.freezing = FALSE]}
            ELSE Settled(g)
    BY DEF KernelFMFIQHandler
<1> HIDE DEF g
<1>3. CASE a.kind = "rom"
    BY <1>1, <1>2, <1>3 DEF HandlerFacts, Read
<1>4. CASE a.kind = "ioread" /\ g.active
  <2>1. /\ h \in Cartridge
        /\ h.count = g.count /\ h.freezing = g.freezing /\ h.debounce = g.debounce
    BY <1>1, <1>2, <1>4 DEF FmRegister, Cartridge, Modes
  <2> QED BY <1>1, <1>4, <2>1 DEF HandlerFacts, Read
<1>5. CASE a.kind # "rom" /\ ~(a.kind = "ioread" /\ g.active) /\ button /\ ~g.debounce
  <2>1. h = [g EXCEPT !.debounce = TRUE, !.freezing = TRUE, !.nmi = TRUE, !.count = 0]
    BY <1>2, <1>5
  <2>2. 0 \in 0 .. 4 /\ "ultimax" \in Modes
    BY DEF Modes
  <2>3. h \in Cartridge /\ h.count = 0 /\ h.nmi /\ h.debounce /\ h.mode = f.mode
    BY <1>1, <2>1, <2>2 DEF Cartridge
  <2> QED BY <1>1, <1>5, <2>3, BeganFacts
<1>6. CASE /\ a.kind # "rom" /\ ~(a.kind = "ioread" /\ g.active) /\ ~(button /\ ~g.debounce)
           /\ g.freezing /\ g.count = 3
    BY <1>1, <1>2, <1>6 DEF HandlerFacts, Cartridge, Frozen, Modes
<1>7. CASE /\ a.kind # "rom" /\ ~(a.kind = "ioread" /\ g.active) /\ ~(button /\ ~g.debounce)
           /\ ~(g.freezing /\ g.count = 3)
    BY <1>1, <1>2, <1>7, SettledFacts
<1> QED BY <1>3, <1>4, <1>5, <1>6, <1>7

LEMMA KcsFacts ==
    ASSUME f \in Cartridge, cart = "kcs", NEW a \in Accesses, NEW h \in KernelKCSFIQHandler(f, a)
    PROVE  HandlerFacts(a, h)
<1> DEFINE g == IF a.kind = "iowrite"
                  THEN [Counted(f, a) EXCEPT !.mode = a.mode, !.nmi = FALSE]
                  ELSE Counted(f, a)
<1>0. a.mode \in Modes
    BY DEF Accesses
<1>1. /\ g \in Cartridge /\ g.count = Count(a)
      /\ g.freezing = f.freezing /\ g.debounce = f.debounce
      /\ a.kind = "write" => g.mode = f.mode
    BY <1>0, CountedFacts DEF Cartridge
<1>2. h \in IF a.kind \in {"rom", "ramread"} THEN {f}
            ELSE IF a.kind = "ioread" THEN {[f EXCEPT !.mode = a.mode, !.nmi = FALSE]}
            ELSE IF a.kind = "ramwrite" THEN {g}
            ELSE IF button /\ ~g.debounce
              THEN {[g EXCEPT !.debounce = TRUE, !.freezing = TRUE, !.count = 0,
                              !.mode = "ultimax", !.nmi = TRUE]}
            ELSE IF g.freezing /\ g.count = 3
              THEN {[g EXCEPT !.mode = "ultimax", !.freezing = FALSE]}
            ELSE Settled(g)
    BY DEF KernelKCSFIQHandler
<1> HIDE DEF g
<1>3. CASE a.kind \in {"rom", "ramread", "ramwrite"}
    BY <1>1, <1>2, <1>3 DEF HandlerFacts, Read
<1>4. CASE a.kind = "ioread"
    BY <1>0, <1>2, <1>4 DEF HandlerFacts, Read, Cartridge
<1>5. CASE a.kind \notin {"rom", "ramread", "ioread", "ramwrite"} /\ button /\ ~g.debounce
  <2>1. h = [g EXCEPT !.debounce = TRUE, !.freezing = TRUE, !.count = 0,
                    !.mode = "ultimax", !.nmi = TRUE]
    BY <1>2, <1>5
  <2>2. 0 \in 0 .. 4 /\ "ultimax" \in Modes
    BY DEF Modes
  <2>3. h \in Cartridge /\ h.count = 0 /\ h.nmi /\ h.debounce
    BY <1>1, <2>1, <2>2 DEF Cartridge
  <2> QED BY <1>1, <1>5, <2>3, BeganFacts
<1>6. CASE a.kind \notin {"rom", "ramread", "ioread", "ramwrite"} /\ ~(button /\ ~g.debounce) /\ g.freezing /\ g.count = 3
    BY <1>1, <1>2, <1>6 DEF HandlerFacts, Cartridge, Frozen, Modes
<1>7. CASE /\ a.kind \notin {"rom", "ramread", "ioread", "ramwrite"} /\ ~(button /\ ~g.debounce)
           /\ ~(g.freezing /\ g.count = 3)
    BY <1>1, <1>2, <1>7, SettledFacts
<1> QED BY <1>3, <1>4, <1>5, <1>6, <1>7

LEMMA Ss5Facts ==
    ASSUME f \in Cartridge, cart = "ss5", NEW a \in Accesses, NEW h \in KernelSS5FIQHandler(f, a)
    PROVE  HandlerFacts(a, h)
<1> DEFINE g == IF a.kind = "iowrite" /\ f.active
                  THEN [Counted(f, a) EXCEPT !.mode = a.mode, !.nmi = FALSE, !.active = ~a.off]
                  ELSE Counted(f, a)
<1>0. a.mode \in Modes /\ (~a.off) \in BOOLEAN
    BY DEF Accesses
<1>1. /\ g \in Cartridge /\ g.count = Count(a)
      /\ g.freezing = f.freezing /\ g.debounce = f.debounce
      /\ a.kind = "write" => g.mode = f.mode
    BY <1>0, CountedFacts DEF Cartridge
<1>2. h \in IF a.kind = "rom" \/ (a.kind = "ioread" /\ f.active) THEN {f}
            ELSE IF a.kind = "ramwrite" /\ g.active THEN {g}
            ELSE IF button /\ ~g.debounce
              THEN {[g EXCEPT !.debounce = TRUE, !.freezing = TRUE, !.count = 0,
                              !.mode = "ultimax", !.active = TRUE, !.nmi = TRUE]}
            ELSE IF g.freezing /\ g.count = 3
              THEN {[g EXCEPT !.mode = "ultimax", !.freezing = FALSE]}
            ELSE Settled(g)
    BY DEF KernelSS5FIQHandler
<1> DEFINE returns == \/ a.kind = "rom" \/ (a.kind = "ioread" /\ f.active)
                      \/ a.kind = "ramwrite" /\ g.active
<1> HIDE DEF g
<1>3. CASE returns
    BY <1>1, <1>2, <1>3 DEF HandlerFacts, Read
<1>5. CASE ~returns /\ button /\ ~g.debounce
  <2>1. h = [g EXCEPT !.debounce = TRUE, !.freezing = TRUE, !.count = 0,
                    !.mode = "ultimax", !.active = TRUE, !.nmi = TRUE]
    BY <1>2, <1>5
  <2>2. 0 \in 0 .. 4 /\ "ultimax" \in Modes
    BY DEF Modes
  <2>3. h \in Cartridge /\ h.count = 0 /\ h.nmi /\ h.debounce
    BY <1>1, <2>1, <2>2 DEF Cartridge
  <2> QED BY <1>1, <1>5, <2>3, BeganFacts
<1>6. CASE /\ ~returns /\ ~(button /\ ~g.debounce)
           /\ g.freezing /\ g.count = 3
    BY <1>1, <1>2, <1>6 DEF HandlerFacts, Cartridge, Frozen, Modes
<1>7. CASE /\ ~returns /\ ~(button /\ ~g.debounce)
           /\ ~(g.freezing /\ g.count = 3)
    BY <1>1, <1>2, <1>7, SettledFacts
<1> QED BY <1>3, <1>5, <1>6, <1>7

LEMMA HandlersFacts ==
    ASSUME FreezerTypeOK, NEW a \in Accesses, NEW h \in Handler(a)
    PROVE  HandlerFacts(a, h)
<1>1. f \in Cartridge /\ cart \in {"ar", "fc3", "kcs", "ss5", "fm", "ff"}
    BY CartsAssumption DEF FreezerTypeOK
<1>2. CASE cart = "ar"
    BY <1>1, <1>2, ArFacts DEF Handler
<1>3. CASE cart = "fc3"
    BY <1>1, <1>3, Fc3Facts DEF Handler
<1>4. CASE cart = "kcs"
    BY <1>1, <1>4, KcsFacts DEF Handler
<1>5. CASE cart = "ss5"
    BY <1>1, <1>5, Ss5Facts DEF Handler
<1>6. CASE cart \in {"fm", "ff"}
    BY <1>1, <1>6, FmFacts DEF Handler
<1> QED BY <1>1, <1>2, <1>3, <1>4, <1>5, <1>6
(***************************************************************************)
(* The invariant                                                           *)
(***************************************************************************)
Program == {"fetch", "body", "operand", "second"}

\* Every read resets the counter of the Action Replay
ReplayIInv ==
    cart = "ar" => /\ cpu \in {"body", "operand"} => f.count = 0
                   /\ cpu = "second" => f.count < 2

\* While the freezing is under way: at most two of the writes counted come from
\* the program, and at least those of the NMI are
WritesCounted ==
    /\ cpu # "vector" /\ f.count < 3
    /\ cart # "ar" /\ cpu \in Program => f.count < pending
    /\ cpu \in {"body", "second"} => f.count < 2
    /\ cpu = "operand" => f.count = 0
    /\ cpu = "push2" => f.count > 0
    /\ cpu = "push3" => f.count = 2

NmiIInv ==
    clean =>
      /\ reset = "no" /\ f.debounce
      /\ IF cpu = "vector" THEN vector = "nmi" ELSE pending > 0
      /\ IF f.freezing THEN WritesCounted
                       ELSE cpu \in {"push2", "push3", "vector"} /\ Frozen(f.mode)

FreezeIInv == FreezerTypeOK /\ ReplayIInv /\ NmiIInv

\* An NMI that the button causes is under way, or begins
GoesOn == clean /\ ~(cpu = "vector" /\ vector = "nmi")

Begins ==
    /\ f'.freezing /\ ~f.freezing /\ ~f.nmi /\ pending = 0
    /\ cpu \notin Pushes /\ reset = "no"

LEMMA Kinds ==
    /\ \A a \in Reads : a \in Accesses /\ Read(a)
    /\ \A a \in Writes : a \in Accesses /\ ~Read(a)
    /\ \A k \in {"rom", "ram", "write"} : Plain(k) \in Accesses /\ Plain(k).kind = k
<1>1. \A k \in {"rom", "ram", "ramread", "write", "ramwrite"} : Plain(k) \in Accesses /\ Plain(k).kind = k
    BY DEF Plain, Accesses, Modes
<1>2. \A k \in {"ioread", "iowrite"} : \A a \in Register(k) : a \in Accesses /\ a.kind = k
    BY DEF Register, Accesses
<1> QED BY <1>1, <1>2 DEF Reads, Writes, Read

LEMMA AccessFacts ==
    ASSUME FreezerTypeOK, NEW a \in Accesses, Access(a)
    PROVE  /\ HandlerFacts(a, f') /\ f' \in Cartridge
           /\ UNCHANGED <<cart, button, reset, presses>>
           /\ clean' \in BOOLEAN /\ (clean' => GoesOn \/ Begins)
<1>1. f' \in Handler(a)
    BY DEF Access
<1>2. HandlerFacts(a, f')
    BY <1>1, HandlersFacts
<1>3. clean' = \/ clean /\ ~(cpu = "vector" /\ vector = "nmi")
               \/ f'.freezing /\ ~f.freezing /\ ~f.nmi /\ pending = 0
                  /\ cpu \notin Pushes /\ reset = "no"
    BY DEF Access
<1>4. clean' \in BOOLEAN
    BY <1>3, Zenon
<1>5. clean' => GoesOn \/ Begins
    BY <1>3, Zenon DEF GoesOn, Begins
<1> QED BY <1>2, <1>4, <1>5 DEF Access, HandlerFacts

LEMMA Ages ==
    ASSUME NEW n \in 0 .. 3
    PROVE  /\ Age(n) \in 0 .. 3
           /\ n > 0 => Age(n) = IF n = 3 THEN 3 ELSE n + 1
           /\ n = 0 /\ f'.nmi /\ ~f.nmi => Age(n) = 1
BY DEF Age

(***************************************************************************)
(* A cycle of the program                                                  *)
(***************************************************************************)
\* What a cycle of the program does to the counter, and where it goes
ProgramCycle(a) ==
    /\ a \in Accesses /\ Access(a)
    /\ pending' = Age(pending) /\ UNCHANGED vector
    /\ \/ /\ cpu = "fetch" /\ Read(a)
          /\ cpu' = "push1" \/ (cpu' = "body" /\ pending # 3)
       \/ /\ cpu \in {"body", "operand"} /\ Read(a)
          /\ cpu' \in {"fetch", "body"} \/ (cpu' = "operand" /\ a.kind = "ram")
       \/ cpu \in {"body", "operand", "second"} /\ ~Read(a) /\ cpu' = "fetch"
       \/ cpu = "operand" /\ ~Read(a) /\ cpu' = "second"

LEMMA ProgramCycles ==
    ASSUME Fetch \/ ReadCycle \/ WriteCycle
    PROVE  \E a \in Accesses : ProgramCycle(a)
<1>1. CASE Fetch
    BY <1>1, Kinds DEF Fetch, ProgramCycle
<1>2. CASE ReadCycle
    BY <1>2, Kinds DEF ReadCycle, ProgramCycle
<1>3. CASE WriteCycle
    BY <1>3, Kinds DEF WriteCycle, ProgramCycle, Read
<1> QED BY <1>1, <1>2, <1>3

LEMMA ProgramKeeps ==
    ASSUME FreezeIInv, NEW a \in Accesses, ProgramCycle(a)
    PROVE  FreezeIInv'
<1>1. /\ FreezerTypeOK /\ ReplayIInv /\ NmiIInv /\ Access(a)
    BY DEF FreezeIInv, ProgramCycle
<1>2. /\ HandlerFacts(a, f') /\ f' \in Cartridge
      /\ UNCHANGED <<cart, button, reset, presses>>
      /\ clean' \in BOOLEAN /\ (clean' => GoesOn \/ Begins)
    BY <1>1, AccessFacts
<1>3. pending \in 0 .. 3 /\ f.count \in 0 .. 4 /\ f'.count \in 0 .. 4
    BY <1>1, <1>2 DEF FreezerTypeOK, Cartridge
<1>4. /\ pending' \in 0 .. 3 /\ vector' = vector
      /\ pending > 0 => pending' = IF pending = 3 THEN 3 ELSE pending + 1
      /\ pending = 0 /\ f'.nmi /\ ~f.nmi => pending' = 1
    BY <1>3, Ages DEF ProgramCycle
<1>5. /\ cpu \in Program /\ cpu' \in Program \cup {"push1"}
    BY DEF ProgramCycle, Program
<1>6. FreezerTypeOK'
    BY <1>1, <1>2, <1>4, <1>5 DEF FreezerTypeOK, Program, Pushes
<1>7. ReplayIInv'
  <2> SUFFICES ASSUME cart = "ar"
               PROVE  /\ cpu' \in {"body", "operand"} => f'.count = 0
                      /\ cpu' = "second" => f'.count < 2
    BY <1>2 DEF ReplayIInv
  <2>1. f'.count = Count(a)
    BY <1>2 DEF HandlerFacts
  <2> QED BY <1>1, <1>3, <2>1 DEF ProgramCycle, ReplayIInv, Count
<1>8. CASE ~clean'
    BY <1>6, <1>7, <1>8 DEF FreezeIInv, NmiIInv
<1>9. CASE GoesOn
  <2>1. /\ clean /\ reset = "no" /\ f.debounce /\ pending > 0 /\ f.freezing /\ WritesCounted
    BY <1>1, <1>5, <1>9 DEF GoesOn, NmiIInv, Program
  <2>2. /\ f'.debounce
        /\ f'.count = Count(a) \/ (Read(a) /\ a.kind # "ram" /\ f'.count = f.count)
        /\ ~f'.freezing => f'.count = 3
    BY <1>2, <2>1 DEF HandlerFacts
  <2>3. f'.count < 3
    BY <1>3, <2>1, <2>2 DEF ProgramCycle, Count, WritesCounted
  <2>4. cart # "ar" /\ cpu' \in Program => f'.count < pending'
    BY <1>2, <1>3, <1>4, <2>1, <2>2 DEF ProgramCycle, Count, WritesCounted, Program
  <2>5. cpu' = "operand" => f'.count = 0
    BY <1>3, <2>1, <2>2 DEF ProgramCycle, Count, WritesCounted
  <2>6. cpu' \in {"body", "second"} => f'.count < 2
    BY <1>1, <1>2, <1>3, <2>1, <2>2 DEF ProgramCycle, Count, WritesCounted, Program, HandlerFacts
  <2>7. WritesCounted'
    BY <1>2, <1>5, <2>3, <2>4, <2>5, <2>6 DEF WritesCounted, Program
  <2>8. pending' > 0
    BY <1>3, <1>4, <2>1
  <2>9. NmiIInv'
    BY <1>2, <1>5, <2>1, <2>2, <2>3, <2>7, <2>8 DEF NmiIInv, Program
  <2> QED BY <1>6, <1>7, <2>9 DEF FreezeIInv
<1>10. CASE Begins
  <2>1. /\ reset = "no" /\ f'.freezing /\ f'.nmi /\ f'.debounce /\ pending' = 1
        /\ cart # "ar" => f'.count = 0
        /\ cart = "ar" => f'.count = Count(a)
    BY <1>2, <1>4, <1>10 DEF Begins, HandlerFacts
  <2>2. cart = "ar" => f'.count < 3 /\ (cpu' \in {"body", "second"} => f'.count < 2)
                       /\ (cpu' = "operand" => f'.count = 0)
    BY <1>1, <1>3, <2>1 DEF ReplayIInv, ProgramCycle, Count
  <2>3. WritesCounted'
    BY <1>2, <1>5, <2>1, <2>2 DEF WritesCounted, Program
  <2>4. NmiIInv'
    BY <1>2, <1>5, <2>1, <2>3 DEF NmiIInv, Program
  <2> QED BY <1>6, <1>7, <2>4 DEF FreezeIInv
<1> QED BY <1>2, <1>8, <1>9, <1>10

(***************************************************************************)
(* The interrupt                                                           *)
(***************************************************************************)
LEMMA PushKeeps ==
    ASSUME FreezeIInv, Push
    PROVE  FreezeIInv'
<1> DEFINE a == Plain("write")
<1>1. /\ FreezerTypeOK /\ ReplayIInv /\ NmiIInv /\ Access(a) /\ cpu \in Pushes
      /\ a \in Accesses /\ a.kind = "write" /\ ~Read(a)
    BY Kinds DEF FreezeIInv, Push, Read
<1> HIDE DEF a
<1>2. /\ HandlerFacts(a, f') /\ f' \in Cartridge
      /\ UNCHANGED <<cart, button, reset, presses>>
      /\ clean' \in BOOLEAN /\ (clean' => GoesOn \/ Begins)
    BY <1>1, AccessFacts
<1>3. pending \in 0 .. 3 /\ f.count \in 0 .. 4 /\ f'.count \in 0 .. 4
    BY <1>1, <1>2 DEF FreezerTypeOK, Cartridge
<1>4. /\ cpu = "push1" => cpu' = "push2"
      /\ cpu = "push2" => cpu' = "push3"
      /\ cpu = "push3" => cpu' = "vector"
    BY Zenon DEF Push
<1>5. /\ cpu = "push3" => vector' = IF pending > 0 THEN "nmi" ELSE "irq"
      /\ cpu # "push3" => vector' = vector
      /\ pending' = Age(IF cpu = "push3" THEN 0 ELSE pending)
    BY DEF Push
<1>6. pending' \in 0 .. 3
    BY <1>3, <1>5, Ages
<1>7. FreezerTypeOK'
    BY <1>1, <1>2, <1>4, <1>5, <1>6 DEF FreezerTypeOK, Pushes
<1>8. ReplayIInv'
    BY <1>1, <1>4 DEF ReplayIInv, Pushes
<1>9. CASE ~clean'
    BY <1>7, <1>8, <1>9 DEF FreezeIInv, NmiIInv
<1>10. CASE clean'
  <2>1. /\ clean /\ reset = "no" /\ f.debounce /\ pending > 0
        /\ IF f.freezing THEN WritesCounted
                         ELSE cpu \in {"push2", "push3"} /\ Frozen(f.mode)
    BY <1>1, <1>2, <1>10 DEF GoesOn, Begins, NmiIInv, Pushes
  <2>2. /\ f'.debounce /\ f'.count = Count(a)
        /\ f'.freezing => f.freezing
        /\ f.freezing /\ ~f'.freezing => Frozen(f'.mode)
        /\ f.freezing /\ f'.count = 3 => ~f'.freezing
        /\ ~f.freezing => f'.mode = f.mode
    BY <1>1, <1>2, <2>1 DEF HandlerFacts
  <2>3. f.freezing => f'.count = f.count + 1 /\ f.count < 3
    BY <1>1, <1>3, <2>1, <2>2 DEF Count, WritesCounted
  <2>4. cpu # "push3" => pending' > 0
    BY <1>3, <1>5, <2>1, Ages
  <2>5. cpu = "push3" => vector' = "nmi"
    BY <1>5, <2>1
  <2>6. f'.freezing => f.freezing /\ f'.count < 3 /\ cpu # "push3"
    BY <1>3, <2>1, <2>2, <2>3 DEF WritesCounted
  <2>7. f'.freezing => WritesCounted'
    BY <1>1, <1>3, <1>4, <2>1, <2>3, <2>6 DEF WritesCounted, Pushes, Program
  <2>8. ~f'.freezing => cpu' \in {"push2", "push3", "vector"} /\ Frozen(f'.mode)
    BY <1>1, <1>4, <2>1, <2>2 DEF Pushes
  <2>9. Frozen(f'.mode) => Frozen(f.mode)'
    BY <1>2 DEF Frozen
  <2>10. cpu' = "vector" => vector' = "nmi"
    BY <1>1, <1>4, <2>5 DEF Pushes
  <2>11. cpu' # "vector" => pending' > 0
    BY <1>1, <1>4, <2>4 DEF Pushes
  <2>12. NmiIInv'
    BY <1>2, <2>1, <2>2, <2>7, <2>8, <2>9, <2>10, <2>11 DEF NmiIInv
  <2> QED BY <1>7, <1>8, <2>12 DEF FreezeIInv
<1> QED BY <1>9, <1>10

LEMMA VectorKeeps ==
    ASSUME FreezeIInv, FetchVector
    PROVE  FreezeIInv'
<1> DEFINE a == Plain(IF f.mode = "ultimax" THEN "rom" ELSE "ram")
<1>1. /\ FreezerTypeOK /\ NmiIInv /\ Access(a) /\ cpu = "vector" /\ cpu' = "fetch"
      /\ pending' = Age(pending) /\ vector' = vector /\ a \in Accesses /\ Read(a)
    BY Kinds DEF FreezeIInv, FetchVector, Read
<1> HIDE DEF a
<1>2. /\ HandlerFacts(a, f') /\ f' \in Cartridge
      /\ UNCHANGED <<cart, button, reset, presses>>
      /\ clean' \in BOOLEAN /\ (clean' => GoesOn \/ Begins)
    BY <1>1, AccessFacts
<1>3. pending \in 0 .. 3
    BY <1>1 DEF FreezerTypeOK
<1>4. pending' \in 0 .. 3
    BY <1>1, <1>3, Ages
<1>5. FreezerTypeOK' /\ ReplayIInv'
    BY <1>1, <1>2, <1>4 DEF FreezerTypeOK, ReplayIInv
<1>6. clean' => Begins
    BY <1>1, <1>2 DEF GoesOn, NmiIInv
<1>7. CASE clean'
  <2>1. reset = "no" /\ f'.freezing /\ f'.debounce /\ pending' > 0 /\ f'.count = 0
    BY <1>1, <1>2, <1>3, <1>6, <1>7, Ages DEF Begins, HandlerFacts, Count
  <2>2. pending' > f'.count
    BY <2>1
  <2> QED BY <1>1, <1>2, <1>5, <2>1, <2>2 DEF FreezeIInv, NmiIInv, WritesCounted
<1> QED BY <1>5, <1>7 DEF FreezeIInv, NmiIInv

(***************************************************************************)
(* The buttons, the main loop                                              *)
(***************************************************************************)
LEMMA ResetLines ==
    ASSUME NEW g \in Cartridge, cart \in Carts
    PROVE  /\ Counters(g) \in Cartridge /\ Lines(g) \in Cartridge
           /\ Counters(g).count = 0 /\ Lines(g).count = g.count
<1>1. cart \in {"ar", "fc3", "kcs", "ss5", "fm", "ff"}
    BY CartsAssumption
<1>2. FirstMode[cart] \in Modes
    BY <1>1 DEF FirstMode, Modes
<1>3. ((cart = "fc3") \/ (cart = "ar" /\ g.nmi)) \in BOOLEAN /\ 0 \in 0 .. 4
    OBVIOUS
<1>4. Counters(g) \in Cartridge /\ Counters(g).count = 0
    BY <1>3 DEF Counters, Cartridge
<1>5. Lines(g) \in Cartridge /\ Lines(g).count = g.count
    BY <1>2, <1>3 DEF Lines, Cartridge
<1> QED BY <1>4, <1>5

LEMMA ButtonsKeep ==
    ASSUME FreezeIInv, PressFreeze \/ ReleaseFreeze \/ UNCHANGED freezerVars
    PROVE  FreezeIInv'
<1>0. button \in BOOLEAN /\ presses \in 0 .. MaxPresses /\ MaxPresses \in Nat
    BY BoundAssumption DEF FreezeIInv, FreezerTypeOK
<1>1. CASE PressFreeze
  <2>1. /\ UNCHANGED <<cart, f, cpu, pending, vector, reset, clean>>
        /\ button' \in BOOLEAN /\ presses' \in 0 .. MaxPresses
    BY <1>0, <1>1 DEF PressFreeze, bus
  <2> QED
    BY <2>1 DEF FreezeIInv, FreezerTypeOK, ReplayIInv, NmiIInv, WritesCounted, Frozen
<1>2. CASE ReleaseFreeze \/ UNCHANGED freezerVars
  <2>1. /\ UNCHANGED <<cart, f, cpu, pending, vector, reset, clean, presses>>
        /\ button' \in BOOLEAN
    BY <1>0, <1>2 DEF ReleaseFreeze, freezerVars, bus
  <2> QED
    BY <2>1 DEF FreezeIInv, FreezerTypeOK, ReplayIInv, NmiIInv, WritesCounted, Frozen
<1> QED BY <1>1, <1>2

LEMMA PressResetKeeps ==
    ASSUME FreezeIInv, PressReset
    PROVE  FreezeIInv'
<1>1. FreezerTypeOK /\ Plain("ram") \in Accesses
    BY Kinds DEF FreezeIInv
<1>2. f' \in Cartridge
    BY <1>1, HandlersFacts DEF PressReset, HandlerFacts
<1>3. presses' \in 0 .. MaxPresses /\ 0 \in 0 .. 3
    BY <1>1, BoundAssumption DEF PressReset, FreezerTypeOK
<1> QED BY <1>1, <1>2, <1>3 DEF PressReset, FreezeIInv, FreezerTypeOK, ReplayIInv, NmiIInv

LEMMA ReleaseResetKeeps ==
    ASSUME FreezeIInv, ReleaseReset
    PROVE  FreezeIInv'
<1>1. /\ f \in Cartridge /\ cart \in Carts /\ ~clean /\ FreezerTypeOK /\ ReplayIInv
    BY DEF FreezeIInv, FreezerTypeOK, NmiIInv, ReleaseReset
<1>2. f' \in Cartridge /\ (cart = "ar" => f' = f)
    BY <1>1, ResetLines DEF ReleaseReset
<1>3. /\ UNCHANGED <<cart, button, cpu, pending, vector, clean, presses>>
      /\ reset' \in {"no", "released"}
    BY DEF ReleaseReset, bus
<1> QED BY <1>1, <1>2, <1>3 DEF FreezeIInv, FreezerTypeOK, ReplayIInv, NmiIInv

LEMMA ResetKeeps ==
    ASSUME FreezeIInv, callbackReset
    PROVE  FreezeIInv'
<1>1. /\ f \in Cartridge /\ cart \in Carts /\ ~clean /\ FreezerTypeOK /\ ReplayIInv
      /\ pending \in 0 .. 3
    BY DEF FreezeIInv, FreezerTypeOK, NmiIInv, callbackReset
<1>2. f' \in Cartridge /\ (f'.count = 0 \/ f'.count = f.count)
    BY <1>1, ResetLines DEF callbackReset
<1>3. /\ UNCHANGED <<cart, button, cpu, vector, clean, presses>>
      /\ reset' \in {"no", "half"} /\ pending' = Age(pending)
    BY DEF callbackReset
<1>4. pending' \in 0 .. 3
    BY <1>1, <1>3, Ages
<1> QED BY <1>1, <1>2, <1>3, <1>4 DEF FreezeIInv, FreezerTypeOK, ReplayIInv, NmiIInv

LEMMA FreezeIInvSteps ==
    ASSUME FreezeIInv, [FreezerNext]_freezerVars
    PROVE  FreezeIInv'
<1>1. CASE Fetch \/ ReadCycle \/ WriteCycle
    BY <1>1, ProgramCycles, ProgramKeeps
<1>2. CASE Push
    BY <1>2, PushKeeps
<1>3. CASE FetchVector
    BY <1>3, VectorKeeps
<1>4. CASE PressFreeze \/ ReleaseFreeze \/ UNCHANGED freezerVars
    BY <1>4, ButtonsKeep
<1>5. CASE PressReset
    BY <1>5, PressResetKeeps
<1>6. CASE ReleaseReset
    BY <1>6, ReleaseResetKeeps
<1>7. CASE callbackReset
    BY <1>7, ResetKeeps
<1> QED BY <1>1, <1>2, <1>3, <1>4, <1>5, <1>6, <1>7 DEF FreezerNext, Cycle

LEMMA FreezeIInvHolds == FreezerSpec => []FreezeIInv
<1>1. FreezerInit => FreezeIInv
  <2> SUFFICES ASSUME FreezerInit PROVE FreezeIInv
    OBVIOUS
  <2>1. cart \in {"ar", "fc3", "kcs", "ss5", "fm", "ff"}
    BY CartsAssumption DEF FreezerInit
  <2>2. FirstMode[cart] \in Modes /\ (cart = "fc3") \in BOOLEAN /\ 0 \in 0 .. 4 /\ 0 \in 0 .. 3
    BY <2>1 DEF FirstMode, Modes
  <2>3. f \in Cartridge
    BY <2>2 DEF FreezerInit, Cartridge
  <2>4. presses \in 0 .. MaxPresses
    BY BoundAssumption DEF FreezerInit
  <2> QED BY <2>2, <2>3, <2>4 DEF FreezerInit, FreezeIInv, FreezerTypeOK, ReplayIInv, NmiIInv
<1> QED BY <1>1, FreezeIInvSteps, PTL DEF FreezerSpec

\* The state of the cartridge and of the CPU stays in the ranges that the model
\* gives it: the counter of writes (countWrites) and the cycles since the edge of
\* NMI do not pass their bounds, whatever the handlers and callbackReset set.
THEOREM FreezerTypeCorrect == FreezerSpec => []FreezerTypeOK
BY FreezeIInvHolds, PTL DEF FreezeIInv

\* For every set of cartridges and any number of presses: when the CPU fetches
\* the vector of the NMI that the freeze button has caused, the handler has
\* counted the three writes and put the freezer's ROM there.  Not so the Final
\* Cartridge III, see the next theorem.
THEOREM FreezerIsAtVector == FreezerSpec => []FrozenAtVector
<1>1. FreezeIInv => FrozenAtVector
    BY DEF FreezeIInv, NmiIInv, FrozenAtVector, AtVector, WritesCounted, Frozen
<1> QED BY <1>1, FreezeIInvHolds, PTL

\* For any number of presses: the handler of the Final Cartridge III has pulled
\* GAME low by the same cycle; EXROM tells whether its ROM is there.
THEOREM GameIsLowAtVector == FreezerSpec => []GameLowAtVector
<1>1. FreezeIInv => GameLowAtVector
    BY DEF FreezeIInv, NmiIInv, GameLowAtVector, AtVector, WritesCounted, Frozen
<1> QED BY <1>1, FreezeIInvHolds, PTL

\* For every set of cartridges and any number of presses: beginning and end of
\* the freezing change the memory map of the program only while the CPU pushes its
\* state, but for the beginning with KCS and Super Snapshot 5.
THEOREM ProgramIsUnmoved == FreezerSpec => Unmoved
<1>1. ASSUME FreezeIInv, Moves
      PROVE  cpu \in Pushes \/ (cart \in {"kcs", "ss5"} /\ f'.freezing)
  <2>1. /\ FreezerTypeOK /\ f \in Cartridge /\ f.count \in 0 .. 4
        /\ f'.freezing # f.freezing /\ f'.mode # f.mode /\ (clean \/ clean')
    BY <1>1 DEF FreezeIInv, Moves, FreezerTypeOK, Cartridge
  <2>2. PICK a \in Accesses :
           Access(a) /\ (ProgramCycle(a) \/ cpu \in Pushes \/ cpu = "vector")
    <3>1. CASE Fetch \/ ReadCycle \/ WriteCycle
      BY <3>1, ProgramCycles DEF ProgramCycle
    <3>2. CASE Push
      BY <3>2, Kinds DEF Push
    <3>3. CASE FetchVector
      BY <3>3, Kinds DEF FetchVector
    <3> QED BY <1>1, <3>1, <3>2, <3>3 DEF Moves, Cycle
  <2>3. /\ HandlerFacts(a, f') /\ f' \in Cartridge
        /\ clean' => GoesOn \/ Begins
    BY <2>1, <2>2, AccessFacts
  <2>4. CASE ~f.freezing /\ f'.freezing
    BY <2>1, <2>3, <2>4 DEF HandlerFacts
  <2>5. CASE f.freezing /\ ~f'.freezing
    <3>1. clean
      BY <2>1, <2>3, <2>5 DEF GoesOn, Begins
    <3>2. f.debounce /\ WritesCounted
      BY <1>1, <2>5, <3>1 DEF FreezeIInv, NmiIInv
    <3>3. /\ f'.count = Count(a) \/ (Read(a) /\ f'.count = f.count)
          /\ f'.count = 3
      BY <2>3, <2>5, <3>2 DEF HandlerFacts
    <3> QED BY <2>1, <2>2, <3>2, <3>3 DEF ProgramCycle, Count, WritesCounted
  <2>6. f.freezing \in BOOLEAN /\ f'.freezing \in BOOLEAN
    BY <2>1, <2>3 DEF Cartridge
  <2> QED BY <2>1, <2>4, <2>5, <2>6
<1> QED BY <1>1, FreezeIInvHolds, PTL DEF FreezerSpec, Unmoved
=============================================================================
