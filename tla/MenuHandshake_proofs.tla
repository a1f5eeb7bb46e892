------------------------ MODULE MenuHandshake_proofs ------------------------
(***************************************************************************)
(* Proofs about MenuHandshake, for every time-out and any number of resets,*)
(* refreshes and launches.                                                 *)
(***************************************************************************)
EXTENDS MenuHandshake, TLAPS

(***************************************************************************)
(* Types, in four groups                                                   *)
(***************************************************************************)
FlagTypes ==
    /\ main \in {"loop", "net", "draw", "copy", "render", "left"}
    /\ doneWithHandling \in BOOLEAN /\ delayUpdateMenu \in BOOLEAN
    /\ readyForNMIs \in BOOLEAN /\ menuTimeOutReset \in BOOLEAN
    /\ firstMenu \in BOOLEAN /\ allSpeedCodeExecuted \in BOOLEAN
    /\ launchKernel \in BOOLEAN /\ receivedReadySignal \in BOOLEAN
    /\ shown \in BOOLEAN /\ font \in BOOLEAN /\ disturbed \in BOOLEAN

CounterTypes ==
    /\ updateMenu \in 0 .. 2 /\ first \in 0 .. 2 /\ nBytesRead \in 0 .. 2
    /\ menuUpdateTimeOut \in 0 .. Never /\ tempTimeOut \in 0 .. Never
    /\ resets \in 0 .. MaxResets /\ refreshes \in 0 .. MaxRefreshes
    /\ launches \in 0 .. MaxLaunches

CodeTypes == code \in Codes

PlaceTypes == c64 \in [pc : Places, phase : Phases]

LEMMA TypesInGroups ==
    TypeOK <=> FlagTypes /\ CounterTypes /\ CodeTypes /\ PlaceTypes
BY DEF TypeOK, FlagTypes, CounterTypes, CodeTypes, PlaceTypes

LEMMA InitTyped == Init => TypeOK
<1> SUFFICES ASSUME Init PROVE TypeOK
    OBVIOUS
<1>1. FlagTypes
    BY DEF Init, FlagTypes
<1>2. CounterTypes
    BY BoundsAssumption DEF Init, CounterTypes, Never
<1>3. CodeTypes
    BY DEF Init, CodeTypes, Codes, NoCode
<1>4. PlaceTypes
    BY DEF Init, PlaceTypes, Places, Phases
<1> QED BY <1>1, <1>2, <1>3, <1>4, TypesInGroups

(* A kernel that is chosen is counted when it is launched.                  *)
LaunchCounted == launchKernel /\ main # "left" => launches < MaxLaunches

LEMMA LaunchIsCounted ==
    ASSUME TypeOK, LaunchCounted, [Next]_vars
    PROVE  LaunchCounted'
<1> USE DEF LaunchCounted, picture, bounds, cart, watchdog, program, boot
<1>1. CASE ResetNoticed \/ RaiseNMI \/ CountTimeOut
    BY <1>1 DEF ResetNoticed, RaiseNMI, CountTimeOut
<1>2. CASE ReadBoot \/ Proceed \/ Ask \/ Signalled \/ Call \/ Execute
    BY <1>2 DEF ReadBoot, Proceed, Ask, Signalled, Call, Execute
<1>3. CASE PressReset \/ ReleaseReset
    BY <1>3 DEF PressReset, ReleaseReset
<1>4. CASE TimeOutReset \/ BootReset
    BY <1>4 DEF TimeOutReset, BootReset, ResetC64
<1>5. CASE StartWork \/ Finish \/ Rendered
    BY <1>5 DEF StartWork, Finish, Rendered
<1>6. CASE Draw
    BY <1>6 DEF Draw
<1>7. CASE Launch \/ Return \/ Refresh
    BY <1>7 DEF Launch, Return, Refresh
<1>8. CASE UNCHANGED vars
    BY <1>8 DEF vars
<1> QED
    BY <1>1, <1>2, <1>3, <1>4, <1>5, <1>6, <1>7, <1>8 DEF Next, Handler, C64, MainLoop

LEMMA FlagStep ==
    ASSUME TypeOK, Next
    PROVE  FlagTypes'
<1>0. FlagTypes /\ CounterTypes /\ CodeTypes /\ PlaceTypes
    BY TypesInGroups
<1> USE <1>0, BoundsAssumption DEF FlagTypes, picture, bounds, cart,
         watchdog, program, boot
<1>1. CASE ResetNoticed
    BY <1>1 DEF ResetNoticed, ResetCycle
<1>2. CASE RaiseNMI
    BY <1>2 DEF RaiseNMI
<1>3. CASE CountTimeOut
    BY <1>3 DEF CountTimeOut
<1>4. CASE ReadBoot
    BY <1>4 DEF ReadBoot
<1>5. CASE Proceed
  <2>1. receivedReadySignal' \in BOOLEAN
    BY <1>5, Zenon DEF Proceed
  <2>2. UNCHANGED <<main, cart, watchdog, firstMenu, program, launchKernel, picture, disturbed>>
    BY <1>5 DEF Proceed
  <2> QED BY <2>1, <2>2
<1>6. CASE Ask
  <2>1. /\ doneWithHandling' \in BOOLEAN /\ delayUpdateMenu' \in BOOLEAN
        /\ readyForNMIs' = readyForNMIs /\ menuTimeOutReset' = menuTimeOutReset
    BY <1>6 DEF Ask
  <2>2. UNCHANGED <<main, firstMenu, program, launchKernel, receivedReadySignal, picture,
                    disturbed>>
    BY <1>6 DEF Ask
  <2> QED BY <2>1, <2>2
<1>7. CASE Signalled
    BY <1>7 DEF Signalled
<1>8. CASE Call
    BY <1>8 DEF Call, After
<1>9. CASE Execute
  <2>1. allSpeedCodeExecuted' \in BOOLEAN
    BY <1>9 DEF Execute
  <2>2. shown' \in BOOLEAN /\ font' \in BOOLEAN
    <3>1. CASE UNCHANGED picture
        BY <3>1
    <3>2. CASE /\ shown' = IF code.kind = "screen" THEN code.full \/ (shown /\ code.onTop)
                                                  ELSE shown
               /\ font' = (font \/ code.kind = "font")
      <4>1. (code.full \/ (shown /\ code.onTop)) \in BOOLEAN
          BY Zenon
      <4>2. (font \/ code.kind = "font") \in BOOLEAN
          BY Zenon
      <4>3. shown \in BOOLEAN
          OBVIOUS
      <4> QED BY <3>2, <4>1, <4>2, <4>3, Zenon
    <3> QED BY <1>9, <3>1, <3>2 DEF Execute
  <2>3. UNCHANGED <<main, cart, watchdog, firstMenu, launchKernel, receivedReadySignal,
                    disturbed>>
    BY <1>9 DEF Execute
  <2> QED BY <2>1, <2>2, <2>3
<1>10. CASE PressReset
    BY <1>10 DEF PressReset
<1>11. CASE ReleaseReset
    BY <1>11 DEF ReleaseReset, C64Starts, ResetCycle
<1>12. CASE TimeOutReset
    BY <1>12 DEF TimeOutReset, ResetC64, C64Starts, ResetCycle
<1>13. CASE BootReset
    BY <1>13 DEF BootReset, ResetC64, C64Starts, ResetCycle
<1>14. CASE StartWork
    BY <1>14 DEF StartWork
<1>15. CASE Draw
    BY <1>15 DEF Draw
<1>16. CASE Finish
    BY <1>16 DEF Finish
<1>17. CASE Rendered
    BY <1>17 DEF Rendered
<1>18. CASE Launch
    BY <1>18 DEF Launch
<1>19. CASE Return
    BY <1>19 DEF Return, C64Starts
<1>20. CASE Refresh
    BY <1>20 DEF Refresh
<1> QED
    BY <1>1, <1>2, <1>3, <1>4, <1>5, <1>6, <1>7, <1>8, <1>9, <1>10, <1>11, <1>12,
       <1>13, <1>14, <1>15, <1>16, <1>17, <1>18, <1>19, <1>20
    DEF Next, Handler, C64, MainLoop

LEMMA CounterStep ==
    ASSUME TypeOK, LaunchCounted, Next
    PROVE  CounterTypes'
<1>0. FlagTypes /\ CounterTypes /\ CodeTypes /\ PlaceTypes
    BY TypesInGroups
<1> USE <1>0, BoundsAssumption DEF CounterTypes, Never, picture, bounds, cart,
         watchdog, program, boot
<1>1. CASE ResetNoticed
    BY <1>1 DEF ResetNoticed, ResetCycle
<1>2. CASE RaiseNMI
    BY <1>2 DEF RaiseNMI
<1>3. CASE CountTimeOut
    BY <1>3 DEF CountTimeOut
<1>4. CASE ReadBoot
    BY <1>4 DEF ReadBoot
<1>5. CASE Proceed
    BY <1>5 DEF Proceed
<1>6. CASE Ask
    BY <1>6 DEF Ask
<1>7. CASE Signalled
    BY <1>7 DEF Signalled
<1>8. CASE Call
    BY <1>8 DEF Call, After
<1>9. CASE Execute
    BY <1>9 DEF Execute, After
<1>10. CASE PressReset
    BY <1>10 DEF PressReset
<1>11. CASE ReleaseReset
    BY <1>11 DEF ReleaseReset, C64Starts, ResetCycle
<1>12. CASE TimeOutReset
    BY <1>12 DEF TimeOutReset, ResetC64, C64Starts, ResetCycle
<1>13. CASE BootReset
    BY <1>13 DEF BootReset, ResetC64, C64Starts, ResetCycle
<1>14. CASE StartWork
    BY <1>14 DEF StartWork
<1>15. CASE Draw
    BY <1>15 DEF Draw
<1>16. CASE Finish
    BY <1>16 DEF Finish
<1>17. CASE Rendered
    BY <1>17 DEF Rendered
<1>18. CASE Launch
    BY <1>18 DEF Launch, LaunchCounted
<1>19. CASE Return
    BY <1>19 DEF Return, C64Starts
<1>20. CASE Refresh
    BY <1>20 DEF Refresh
<1> QED
    BY <1>1, <1>2, <1>3, <1>4, <1>5, <1>6, <1>7, <1>8, <1>9, <1>10, <1>11, <1>12,
       <1>13, <1>14, <1>15, <1>16, <1>17, <1>18, <1>19, <1>20
    DEF Next, Handler, C64, MainLoop

LEMMA CodeStep ==
    ASSUME TypeOK, Next
    PROVE  CodeTypes'
<1>0. FlagTypes /\ CounterTypes /\ CodeTypes /\ PlaceTypes
    BY TypesInGroups
<1>a. NoCode \in Codes /\ code \in Codes
    BY <1>0 DEF CodeTypes, Codes, NoCode
<1> USE <1>a DEF CodeTypes, picture, bounds, cart, watchdog, program, boot
<1>1. CASE ResetNoticed
    BY <1>1 DEF ResetNoticed, ResetCycle
<1>2. CASE RaiseNMI
    BY <1>2 DEF RaiseNMI
<1>3. CASE CountTimeOut
    BY <1>3 DEF CountTimeOut
<1>4. CASE ReadBoot
    BY <1>4 DEF ReadBoot
<1>5. CASE Proceed
    BY <1>5 DEF Proceed
<1>6. CASE Ask
    BY <1>6 DEF Ask
<1>7. CASE Signalled
    BY <1>7 DEF Signalled
<1>8. CASE Call
    BY <1>8 DEF Call, After
<1>9. CASE Execute
    BY <1>9 DEF Execute
<1>10. CASE PressReset
    BY <1>10 DEF PressReset
<1>11. CASE ReleaseReset
    BY <1>11 DEF ReleaseReset, ResetCycle
<1>12. CASE TimeOutReset
    BY <1>12 DEF TimeOutReset, ResetC64, C64Starts, ResetCycle
<1>13. CASE BootReset
    BY <1>13 DEF BootReset, ResetC64, C64Starts, ResetCycle
<1>14. CASE StartWork
    BY <1>14 DEF StartWork
<1>15. CASE Draw
  <2>1. (code.kind # "screen") \in BOOLEAN
      BY Zenon
  <2>2. firstMenu \in BOOLEAN
      BY <1>0 DEF FlagTypes
  <2>3. code' = [kind |-> "screen", full |-> firstMenu, onTop |-> code.kind # "screen"]
      BY <1>15 DEF Draw
  <2> QED BY <2>1, <2>2, <2>3 DEF Codes
<1>16. CASE Finish
    BY <1>16 DEF Finish, Codes, NoCode
<1>17. CASE Rendered
    BY <1>17 DEF Rendered
<1>18. CASE Launch
    BY <1>18 DEF Launch
<1>19. CASE Return
    BY <1>19 DEF Return, C64Starts
<1>20. CASE Refresh
    BY <1>20 DEF Refresh
<1> QED
    BY <1>1, <1>2, <1>3, <1>4, <1>5, <1>6, <1>7, <1>8, <1>9, <1>10, <1>11, <1>12,
       <1>13, <1>14, <1>15, <1>16, <1>17, <1>18, <1>19, <1>20
    DEF Next, Handler, C64, MainLoop

LEMMA PlaceStep ==
    ASSUME TypeOK, Next
    PROVE  PlaceTypes'
<1>0. FlagTypes /\ CounterTypes /\ CodeTypes /\ PlaceTypes
    BY TypesInGroups
<1> USE <1>0, BoundsAssumption DEF PlaceTypes, Places, Phases, At, picture, bounds, cart,
         watchdog, program, boot
<1>1. CASE ResetNoticed
    BY <1>1 DEF ResetNoticed, ResetCycle
<1>2. CASE RaiseNMI
    BY <1>2 DEF RaiseNMI
<1>3. CASE CountTimeOut
    BY <1>3 DEF CountTimeOut
<1>4. CASE ReadBoot
    BY <1>4 DEF ReadBoot
<1>5. CASE Proceed
    BY <1>5 DEF Proceed
<1>6. CASE Ask
    BY <1>6 DEF Ask
<1>7. CASE Signalled
    BY <1>7 DEF Signalled
<1>8. CASE Call
    BY <1>8 DEF Call, After
<1>9. CASE Execute
    BY <1>9 DEF Execute, After
<1>10. CASE PressReset
    BY <1>10 DEF PressReset
<1>11. CASE ReleaseReset
    BY <1>11 DEF ReleaseReset, C64Starts, ResetCycle
<1>12. CASE TimeOutReset
    BY <1>12 DEF TimeOutReset, ResetC64, C64Starts, ResetCycle
<1>13. CASE BootReset
    BY <1>13 DEF BootReset, ResetC64, C64Starts, ResetCycle
<1>14. CASE StartWork
    BY <1>14 DEF StartWork
<1>15. CASE Draw
    BY <1>15 DEF Draw
<1>16. CASE Finish
    BY <1>16 DEF Finish
<1>17. CASE Rendered
    BY <1>17 DEF Rendered
<1>18. CASE Launch
    BY <1>18 DEF Launch
<1>19. CASE Return
    BY <1>19 DEF Return, C64Starts
<1>20. CASE Refresh
    BY <1>20 DEF Refresh
<1> QED
    BY <1>1, <1>2, <1>3, <1>4, <1>5, <1>6, <1>7, <1>8, <1>9, <1>10, <1>11, <1>12,
       <1>13, <1>14, <1>15, <1>16, <1>17, <1>18, <1>19, <1>20
    DEF Next, Handler, C64, MainLoop

LEMMA StepsTyped ==
    ASSUME TypeOK, LaunchCounted, [Next]_vars
    PROVE  TypeOK'
<1>1. CASE Next
  <2>1. FlagTypes' /\ CounterTypes' /\ CodeTypes' /\ PlaceTypes'
    BY <1>1, FlagStep, CounterStep, CodeStep, PlaceStep
  <2> QED BY <2>1, TypesInGroups, PTL
<1>2. CASE UNCHANGED vars
    BY <1>2 DEF TypeOK, vars, cart, watchdog, program, boot, picture, bounds
<1> QED BY <1>1, <1>2

(* All variables stay within their ranges, whoever acts when: neither of    *)
(* the watchdog's two counters passes 0 or what stands for never            *)
(* (kernel_menu.cpp, FIQHandler and Run).                                   *)
THEOREM HandshakeTypeCorrect == Spec => []TypeOK
<1>1. Init => TypeOK /\ LaunchCounted
    BY InitTyped DEF Init, LaunchCounted
<1>2. TypeOK /\ LaunchCounted /\ [Next]_vars => TypeOK' /\ LaunchCounted'
    BY StepsTyped, LaunchIsCounted
<1> QED BY <1>1, <1>2, PTL DEF Spec

(***************************************************************************)
(* A launch waits for the code                                             *)
(***************************************************************************)
CodeIInv ==
    /\ main # "draw" /\ allSpeedCodeExecuted => code = NoCode
    /\ c64.pc = "code" => code # NoCode

(***************************************************************************)
(* The handshake as long as nothing disturbs it: where the C64 is says     *)
(* where the main loop and the handler may be, and what the code is.       *)
(***************************************************************************)
Quiet == main = "loop" /\ updateMenu = 0 /\ doneWithHandling /\ ~delayUpdateMenu

\* A request is on its way, or worked on
Working ==
    /\ ~doneWithHandling /\ delayUpdateMenu /\ ~readyForNMIs /\ ~receivedReadySignal
    /\ IF c64.phase = "font" THEN updateMenu = 2 /\ main \in {"loop", "copy"}
                             ELSE updateMenu = 1 /\ main \in {"loop", "net", "draw"}

\* It is answered: the NMI is to come, or has come
Answered ==
    /\ main = "loop" /\ updateMenu = 0 /\ doneWithHandling
    /\ IF readyForNMIs THEN delayUpdateMenu /\ ~receivedReadySignal
                       ELSE ~delayUpdateMenu /\ receivedReadySignal

TurnsKept ==
    /\ c64.pc \in {"run", "ask", "call", "code"} =>
          Quiet /\ (~readyForNMIs \/ (c64.pc = "run" /\ c64.phase = "start"))
    /\ c64.pc = "ask" => ~receivedReadySignal
    /\ c64.pc = "wait" => Working \/ Answered

\* The code for the request of the C64 is in the cartridge's memory
Written ==
    \/ c64.pc \in {"call", "code"}
    \/ c64.pc = "wait" /\ (main = "draw" \/ updateMenu = 0)

ScreenKept ==
    /\ ~Written => code = NoCode
    /\ c64.phase \in {"start", "enter"} => c64.pc = "run"
    /\ c64.phase \in {"screen", "enter", "menu"} => font
    /\ c64.phase \in {"enter", "menu"} => shown
    /\ c64.phase \in {"start", "font"} => firstMenu
    /\ c64.phase = "font" /\ Written => code.kind = "font"
    /\ c64.phase = "screen" => IF Written THEN code.kind = "screen" /\ code.full ELSE firstMenu
    /\ c64.phase = "menu" /\ Written => code.kind = "screen" /\ code.onTop

HandshakeIInv ==
    /\ c64.pc = "lost" => disturbed
    /\ main = "left" => c64.pc = "reset"
    /\ main = "render" => disturbed
    /\ ~disturbed /\ c64.pc # "reset" => TurnsKept /\ ScreenKept

LEMMA AtMoves ==
    ASSUME TypeOK, NEW p \in Places, At(p)
    PROVE  c64'.pc = p /\ c64'.phase = c64.phase
BY DEF At, TypeOK

LEMMA AfterMoves ==
    /\ After.pc = "run"
    /\ c64.phase = "font" => After.phase = "screen"
    /\ c64.phase = "screen" => After.phase = "enter"
    /\ c64.phase = "menu" => After.phase = "menu"
BY DEF After

LEMMA ProceedMoves ==
    ASSUME TypeOK, Proceed
    PROVE  \/ c64'.pc = "lost" /\ InROM /\ ~Served
           \/ /\ InROM => Served
              /\ c64.phase = "start" => c64'.pc = "ask" /\ c64'.phase = "font"
              /\ c64.phase = "enter" => c64'.pc = "run" /\ c64'.phase = "menu"
              /\ c64.phase \notin {"start", "enter"} => c64'.pc = "ask" /\ c64'.phase = c64.phase
              /\ c64.phase # "enter" => receivedReadySignal' = FALSE
<1>1. CASE InROM /\ ~Served /\ At("lost")
    BY <1>1, AtMoves DEF Places
<1>2. CASE /\ InROM => Served
           /\ c64' = CASE c64.phase = "start" -> [pc |-> "ask", phase |-> "font"]
                       [] c64.phase = "enter" -> [pc |-> "run", phase |-> "menu"]
                       [] OTHER -> [c64 EXCEPT !.pc = "ask"]
           /\ receivedReadySignal' = (c64.phase = "enter" /\ receivedReadySignal)
  <2>1. /\ c64.phase = "start" => c64' = [pc |-> "ask", phase |-> "font"]
        /\ c64.phase = "enter" => c64' = [pc |-> "run", phase |-> "menu"]
        /\ c64.phase \notin {"start", "enter"} => c64' = [c64 EXCEPT !.pc = "ask"]
      BY <1>2
  <2>2. c64.phase \notin {"start", "enter"} => c64'.pc = "ask" /\ c64'.phase = c64.phase
      BY <2>1 DEF TypeOK
  <2>3. c64.phase # "enter" => receivedReadySignal' = FALSE
      BY <1>2, Zenon
  <2> QED BY <1>2, <2>1, <2>2, <2>3
<1> QED BY <1>1, <1>2 DEF Proceed

LEMMA CodeStepKept ==
    ASSUME TypeOK, CodeIInv, [Next]_vars
    PROVE  CodeIInv'
<1> USE AtMoves, AfterMoves DEF CodeIInv, Places, NoCode, picture, bounds, cart, watchdog,
         program, boot
<1>1. CASE ResetNoticed
    BY <1>1 DEF ResetNoticed, ResetCycle
<1>2. CASE RaiseNMI
    BY <1>2 DEF RaiseNMI
<1>3. CASE CountTimeOut
    BY <1>3 DEF CountTimeOut
<1>4. CASE ReadBoot
    BY <1>4 DEF ReadBoot, Served
<1>5. CASE Proceed
  <2>1. c64'.pc \in {"lost", "ask", "run"}
    BY <1>5, ProceedMoves
  <2>2. UNCHANGED <<main, program>>
    BY <1>5 DEF Proceed
  <2> QED BY <2>1, <2>2
<1>6. CASE Ask
    BY <1>6 DEF Ask, Served
<1>7. CASE Signalled
    BY <1>7 DEF Signalled
<1>8. CASE Call
    BY <1>8 DEF Call, After, Served
<1>9. CASE Execute
    BY <1>9 DEF Execute, After, Served
<1>10. CASE PressReset
    BY <1>10 DEF PressReset
<1>11. CASE ReleaseReset
    BY <1>11 DEF ReleaseReset, C64Starts, ResetCycle
<1>12. CASE TimeOutReset
    BY <1>12 DEF TimeOutReset, ResetC64, C64Starts, ResetCycle
<1>13. CASE BootReset
    BY <1>13 DEF BootReset, ResetC64, C64Starts, ResetCycle
<1>14. CASE StartWork
    BY <1>14 DEF StartWork
<1>15. CASE Draw
    BY <1>15 DEF Draw
<1>16. CASE Finish
  <2>1. allSpeedCodeExecuted' = FALSE /\ c64' = c64
    BY <1>16 DEF Finish
  <2>2. main = "draw" => code' = code
    BY <1>16 DEF Finish
  <2>3. main = "copy" => code'.kind = "font"
    BY <1>16 DEF Finish
  <2>4. main \in {"draw", "copy"}
    BY <1>16 DEF Finish
  <2> QED BY <2>1, <2>2, <2>3, <2>4
<1>17. CASE Rendered
    BY <1>17 DEF Rendered
<1>18. CASE Launch
    BY <1>18 DEF Launch
<1>19. CASE Return
    BY <1>19 DEF Return, C64Starts
<1>20. CASE Refresh
    BY <1>20 DEF Refresh
<1>21. CASE UNCHANGED vars
    BY <1>21 DEF vars
<1> QED
    BY <1>1, <1>2, <1>3, <1>4, <1>5, <1>6, <1>7, <1>8, <1>9, <1>10,
       <1>11, <1>12, <1>13, <1>14, <1>15, <1>16, <1>17, <1>18, <1>19, <1>20, <1>21
    DEF Next, Handler, C64, MainLoop

(* A kernel is launched only after the C64 has executed the last screen.    *)
THEOREM LaunchWaitsForCode == Spec => LaunchAfterCode
<1>1. Init => CodeIInv
    BY DEF Init, CodeIInv, NoCode
<1>2. CodeIInv /\ [Next]_vars => [Launch => code = NoCode /\ c64.pc # "code"]_vars
    BY DEF CodeIInv, Launch
<1>3. Init => TypeOK /\ LaunchCounted
    BY InitTyped DEF Init, LaunchCounted
<1>4. TypeOK /\ LaunchCounted /\ CodeIInv /\ [Next]_vars
        => TypeOK' /\ LaunchCounted' /\ CodeIInv'
    BY StepsTyped, LaunchIsCounted, CodeStepKept
<1> QED BY <1>1, <1>2, <1>3, <1>4, PTL DEF Spec, LaunchAfterCode





LEMMA SeatsStep ==
    ASSUME TypeOK, HandshakeIInv, [Next]_vars
    PROVE  /\ c64'.pc = "lost" => disturbed'
           /\ main' = "left" => c64'.pc = "reset"
           /\ main' = "render" => disturbed'
<1> USE AtMoves, AfterMoves DEF HandshakeIInv, TurnsKept, Quiet, Places, FiqOn, picture, bounds,
         cart, watchdog, program, boot
<1>1. CASE ResetNoticed
    BY <1>1 DEF ResetNoticed, ResetCycle
<1>2. CASE RaiseNMI
    BY <1>2 DEF RaiseNMI
<1>3. CASE CountTimeOut
    BY <1>3 DEF CountTimeOut
<1>4. CASE ~NMIDue /\ ReadBoot
    BY <1>4 DEF ReadBoot, Served
<1>5. CASE ~NMIDue /\ Proceed
  <2>1. c64.pc = "run" /\ UNCHANGED <<main, disturbed>>
    BY <1>5 DEF Proceed
  <2>2. ~disturbed => Served
    BY <2>1 DEF Served
  <2>3. c64'.pc \in {"ask", "run"} \/ (c64'.pc = "lost" /\ ~Served)
    BY <1>5, ProceedMoves
  <2> QED BY <2>1, <2>2, <2>3
<1>6. CASE ~NMIDue /\ Ask
    BY <1>6 DEF Ask, Served
<1>7. CASE ~NMIDue /\ Signalled
    BY <1>7 DEF Signalled
<1>8. CASE ~NMIDue /\ Call
    BY <1>8 DEF Call, Served
<1>9. CASE ~NMIDue /\ Execute
    BY <1>9 DEF Execute, Served
<1>10. CASE PressReset
    BY <1>10 DEF PressReset
<1>11. CASE ReleaseReset
    BY <1>11 DEF ReleaseReset, C64Starts, ResetCycle
<1>12. CASE TimeOutReset
    BY <1>12 DEF TimeOutReset, ResetC64, C64Starts, ResetCycle
<1>13. CASE BootReset
    BY <1>13 DEF BootReset, ResetC64, C64Starts, ResetCycle
<1>14. CASE StartWork
    BY <1>14 DEF StartWork
<1>15. CASE Draw
    BY <1>15 DEF Draw
<1>16. CASE Finish
    BY <1>16 DEF Finish
<1>17. CASE Rendered
    BY <1>17 DEF Rendered
<1>18. CASE Launch
    BY <1>18 DEF Launch
<1>19. CASE Return
    BY <1>19 DEF Return, C64Starts
<1>20. CASE Refresh
    BY <1>20 DEF Refresh
<1>21. CASE UNCHANGED vars
    BY <1>21 DEF vars
<1> QED
    BY <1>1, <1>2, <1>3, <1>4, <1>5, <1>6, <1>7, <1>8, <1>9, <1>10,
       <1>11, <1>12, <1>13, <1>14, <1>15, <1>16, <1>17, <1>18, <1>19, <1>20, <1>21
    DEF Next, Handler, C64, MainLoop

LEMMA TurnsStep ==
    ASSUME TypeOK, HandshakeIInv, [Next]_vars,
           ~disturbed', c64'.pc # "reset"
    PROVE  TurnsKept'
<1> USE AtMoves, AfterMoves DEF HandshakeIInv, TurnsKept, Quiet, Working, Answered, NMIDue, FiqOn,
         Places, picture, bounds, cart, watchdog, program, boot
<1>1. CASE ResetNoticed
    BY <1>1 DEF ResetNoticed, ResetCycle
<1>2. CASE RaiseNMI
  <2>1. /\ UNCHANGED <<main, updateMenu, doneWithHandling, c64, disturbed>>
        /\ doneWithHandling /\ readyForNMIs /\ c64.pc # "reset"
        /\ readyForNMIs' = FALSE /\ delayUpdateMenu' = FALSE /\ receivedReadySignal' = TRUE
    BY <1>2 DEF RaiseNMI
  <2>2. c64.pc \notin {"ask", "call", "code"}
    BY <1>2, <2>1
  <2>3. CASE c64.pc = "wait"
    BY <2>1, <2>3
  <2>4. CASE c64.pc = "run"
    BY <2>1, <2>4
  <2> QED BY <2>1, <2>2, <2>3, <2>4
<1>3. CASE CountTimeOut
    BY <1>3 DEF CountTimeOut
<1>4. CASE ~NMIDue /\ ReadBoot
    BY <1>4 DEF ReadBoot, Served
<1>5. CASE ~NMIDue /\ Proceed
  <2>1. c64.pc = "run" /\ UNCHANGED <<main, cart, disturbed>>
    BY <1>5 DEF Proceed
  <2>2. Quiet /\ Served /\ ~readyForNMIs
    BY <2>1, <1>5 DEF Served
  <2>3. c64.phase # "enter" => receivedReadySignal' = FALSE
    BY <1>5, <2>2, ProceedMoves
  <2>4. (c64'.pc = "ask" /\ c64.phase # "enter") \/ c64'.pc = "run"
    BY <1>5, <2>2, ProceedMoves
  <2> QED BY <2>1, <2>2, <2>3, <2>4
<1>6. CASE ~NMIDue /\ Ask
  <2>1. c64.pc = "ask" /\ c64'.pc = "wait" /\ c64'.phase = c64.phase
    BY <1>6 DEF Ask
  <2>2. UNCHANGED <<main, readyForNMIs, receivedReadySignal, disturbed>>
    BY <1>6 DEF Ask
  <2>3. Quiet /\ Served /\ ~readyForNMIs /\ ~receivedReadySignal
    BY <1>6, <2>1, <2>2 DEF Served
  <2>4. /\ updateMenu' = IF c64.phase = "font" THEN 2 ELSE 1
        /\ doneWithHandling' = FALSE /\ delayUpdateMenu' = TRUE
    BY <1>6, <2>3 DEF Ask
  <2>5. Working'
    BY <2>1, <2>2, <2>3, <2>4
  <2> QED BY <2>1, <2>5
<1>7. CASE ~NMIDue /\ Signalled
    BY <1>7 DEF Signalled
<1>8. CASE ~NMIDue /\ Call
  <2>1. c64.pc = "call" /\ UNCHANGED <<main, cart, receivedReadySignal, disturbed>>
    BY <1>8 DEF Call
  <2>2. Quiet /\ ~readyForNMIs /\ Served
    BY <1>8, <2>1 DEF Served
  <2>3. c64' = After \/ c64' = [c64 EXCEPT !.pc = "code"]
    BY <1>8, <2>2 DEF Call
  <2>4. c64'.pc \in {"run", "code"}
    BY <2>3 DEF TypeOK
  <2> QED BY <2>1, <2>2, <2>4
<1>9. CASE ~NMIDue /\ Execute
  <2>1. c64.pc = "code" /\ UNCHANGED <<main, cart, receivedReadySignal, disturbed>>
    BY <1>9 DEF Execute
  <2>2. Quiet /\ ~readyForNMIs /\ Served
    BY <1>9, <2>1 DEF Served
  <2>3. c64'.pc = "run"
    BY <1>9, <2>2 DEF Execute
  <2> QED BY <2>1, <2>2, <2>3
<1>10. CASE PressReset
    BY <1>10 DEF PressReset
<1>11. CASE ReleaseReset
    BY <1>11 DEF ReleaseReset, C64Starts, ResetCycle
<1>12. CASE TimeOutReset
    BY <1>12 DEF TimeOutReset, ResetC64, C64Starts, ResetCycle
<1>13. CASE BootReset
    BY <1>13 DEF BootReset, ResetC64, C64Starts, ResetCycle
<1>14. CASE StartWork
    BY <1>14 DEF StartWork
<1>15. CASE Draw
    BY <1>15 DEF Draw
<1>16. CASE Finish
    BY <1>16 DEF Finish
<1>17. CASE Rendered
    BY <1>17 DEF Rendered
<1>18. CASE Launch
    BY <1>18 DEF Launch
<1>19. CASE Return
    BY <1>19 DEF Return, C64Starts
<1>20. CASE Refresh
    BY <1>20 DEF Refresh
<1>21. CASE UNCHANGED vars
    BY <1>21 DEF vars
<1> QED
    BY <1>1, <1>2, <1>3, <1>4, <1>5, <1>6, <1>7, <1>8, <1>9, <1>10,
       <1>11, <1>12, <1>13, <1>14, <1>15, <1>16, <1>17, <1>18, <1>19, <1>20, <1>21
    DEF Next, Handler, C64, MainLoop

LEMMA ScreenStep ==
    ASSUME TypeOK, HandshakeIInv, [Next]_vars,
           ~disturbed', c64'.pc # "reset"
    PROVE  ScreenKept'
<1> USE AtMoves, AfterMoves DEF HandshakeIInv, TurnsKept, ScreenKept, Written, Quiet,
         Working, Answered, Places, NoCode, picture, bounds, cart, watchdog, program, boot
<1>1. CASE ResetNoticed
    BY <1>1 DEF ResetNoticed, ResetCycle
<1>2. CASE RaiseNMI
    BY <1>2 DEF RaiseNMI
<1>3. CASE CountTimeOut
    BY <1>3 DEF CountTimeOut
<1>4. CASE ~NMIDue /\ ReadBoot
  <2>1. /\ c64.pc = "run" /\ c64.phase = "start"
        /\ UNCHANGED <<main, updateMenu, firstMenu, code, shown, font, disturbed>>
    BY <1>4 DEF ReadBoot
  <2>2. Served
    BY <2>1 DEF Served, FiqOn
  <2>3. c64' = c64
    BY <1>4, <2>2 DEF ReadBoot
  <2> QED BY <2>1, <2>3
<1>5. CASE ~NMIDue /\ Proceed
  <2>1. /\ c64.pc = "run"
        /\ UNCHANGED <<main, updateMenu, firstMenu, code, shown, font, disturbed>>
    BY <1>5 DEF Proceed
  <2>2. Served
    BY <2>1 DEF Served, FiqOn
  <2>3. /\ c64.phase = "start" => c64'.pc = "ask" /\ c64'.phase = "font"
        /\ c64.phase = "enter" => c64'.pc = "run" /\ c64'.phase = "menu"
        /\ c64.phase \notin {"start", "enter"} => c64'.pc = "ask" /\ c64'.phase = c64.phase
    BY <1>5, <2>2, ProceedMoves
  <2> QED BY <2>1, <2>3
<1>6. CASE ~NMIDue /\ Ask
  <2>1. /\ c64.pc = "ask" /\ c64'.pc = "wait" /\ c64'.phase = c64.phase
        /\ UNCHANGED <<main, firstMenu, code, shown, font, disturbed>>
    BY <1>6 DEF Ask
  <2>2. Served
    BY <2>1 DEF Served, FiqOn
  <2>3. updateMenu' # 0
    BY <1>6, <2>2 DEF Ask
  <2> QED BY <2>1, <2>3
<1>7. CASE ~NMIDue /\ Signalled
    BY <1>7 DEF Signalled
<1>8. CASE ~NMIDue /\ Call
  <2>1. /\ c64.pc = "call"
        /\ UNCHANGED <<main, updateMenu, firstMenu, code, shown, font, disturbed>>
    BY <1>8 DEF Call
  <2>2. Served
    BY <2>1 DEF Served, FiqOn
  <2>3. code # NoCode
    BY <2>1 DEF TypeOK, Phases
  <2>4. c64' = [c64 EXCEPT !.pc = "code"]
    BY <1>8, <2>2, <2>3 DEF Call
  <2>5. c64'.pc = "code" /\ c64'.phase = c64.phase
    BY <2>4 DEF TypeOK
  <2> QED BY <2>1, <2>5
<1>9. CASE ~NMIDue /\ Execute
  <2>1. c64.pc = "code" /\ UNCHANGED <<main, updateMenu, firstMenu, disturbed>>
    BY <1>9 DEF Execute
  <2>2. Served
    BY <2>1 DEF Served, FiqOn
  <2>3. /\ c64' = After /\ code' = NoCode
        /\ shown' = IF code.kind = "screen" THEN code.full \/ (shown /\ code.onTop) ELSE shown
        /\ font' = (font \/ code.kind = "font")
    BY <1>9, <2>2 DEF Execute
  <2>4. c64.phase \in {"font", "screen", "menu"}
    BY <2>1 DEF TypeOK, Phases
  <2>5. CASE c64.phase = "font"
    BY <2>1, <2>3, <2>5
  <2>6. CASE c64.phase = "screen"
    BY <2>1, <2>3, <2>6
  <2>7. CASE c64.phase = "menu"
    BY <2>1, <2>3, <2>7
  <2> QED BY <2>4, <2>5, <2>6, <2>7
<1>10. CASE PressReset
    BY <1>10 DEF PressReset
<1>11. CASE ReleaseReset
    BY <1>11 DEF ReleaseReset, C64Starts, ResetCycle
<1>12. CASE TimeOutReset
    BY <1>12 DEF TimeOutReset, ResetC64, C64Starts, ResetCycle
<1>13. CASE BootReset
    BY <1>13 DEF BootReset, ResetC64, C64Starts, ResetCycle
<1>14. CASE StartWork
    BY <1>14 DEF StartWork
<1>15. CASE Draw
  <2>1. /\ main = "net" /\ main' = "draw"
        /\ code' = [kind |-> "screen", full |-> firstMenu, onTop |-> code.kind # "screen"]
        /\ UNCHANGED <<updateMenu, c64, shown, font, disturbed>>
    BY <1>15 DEF Draw
  <2>2. c64.pc = "wait" /\ Working
    BY <2>1 DEF TypeOK
  <2>3. code.kind # "screen" /\ c64.phase \in {"screen", "menu"}
    BY <2>1, <2>2 DEF TypeOK, Phases
  <2>4. code'.kind = "screen" /\ code'.full = firstMenu /\ code'.onTop = TRUE
    BY <2>1, <2>3
  <2>5. c64.phase = "screen" => firstMenu
    BY <2>1, <2>2
  <2> QED BY <2>1, <2>2, <2>3, <2>4, <2>5
<1>16. CASE Finish
  <2>1. /\ main \in {"draw", "copy"} /\ main' = "loop" /\ updateMenu' = 0
        /\ UNCHANGED <<firstMenu, c64, shown, font, disturbed>>
    BY <1>16 DEF Finish
  <2>2. c64.pc = "wait" /\ Working
    BY <2>1 DEF TypeOK
  <2>3. CASE main = "draw"
    <3>1. code' = code
      BY <1>16, <2>3 DEF Finish
    <3> QED BY <2>1, <2>2, <2>3, <3>1
  <2>4. CASE main = "copy"
    <3>1. code'.kind = "font"
      BY <1>16, <2>4 DEF Finish
    <3> QED BY <2>1, <2>2, <2>4, <3>1
  <2> QED BY <2>1, <2>3, <2>4
<1>17. CASE Rendered
    BY <1>17 DEF Rendered
<1>18. CASE Launch
    BY <1>18 DEF Launch
<1>19. CASE Return
    BY <1>19 DEF Return, C64Starts
<1>20. CASE Refresh
    BY <1>20 DEF Refresh
<1>21. CASE UNCHANGED vars
    BY <1>21 DEF vars
<1> QED
    BY <1>1, <1>2, <1>3, <1>4, <1>5, <1>6, <1>7, <1>8, <1>9, <1>10,
       <1>11, <1>12, <1>13, <1>14, <1>15, <1>16, <1>17, <1>18, <1>19, <1>20, <1>21
    DEF Next, Handler, C64, MainLoop

LEMMA HandshakeStep ==
    ASSUME TypeOK, HandshakeIInv, [Next]_vars
    PROVE  HandshakeIInv'
BY SeatsStep, TurnsStep, ScreenStep DEF HandshakeIInv

LEMMA HandshakeInvariant == Spec => []HandshakeIInv
<1>1. Init => TypeOK /\ LaunchCounted /\ HandshakeIInv
  <2>1. Init => TypeOK /\ LaunchCounted
    BY InitTyped DEF Init, LaunchCounted
  <2>2. Init => TurnsKept /\ ScreenKept
    BY DEF Init, TurnsKept, Quiet, ScreenKept, Written
  <2>3. Init => c64.pc = "run" /\ main = "loop"
    BY DEF Init
  <2> QED BY <2>1, <2>2, <2>3 DEF HandshakeIInv
<1>2. TypeOK /\ LaunchCounted /\ HandshakeIInv /\ [Next]_vars
        => TypeOK' /\ LaunchCounted' /\ HandshakeIInv'
    BY StepsTyped, LaunchIsCounted, HandshakeStep
<1> QED BY <1>1, <1>2, PTL DEF Spec

(* Unless a refresh or a reset during a network action came between, the    *)
(* C64 never fetches code from a cartridge that is silent.                  *)
THEOREM NoFetchFromSilence == Spec => []NoCrash
<1>1. HandshakeIInv => NoCrash
    BY DEF HandshakeIInv, NoCrash
<1> QED BY <1>1, HandshakeInvariant, PTL

(* Under the same condition the C64 shows all that the main loop takes for  *)
(* shown whenever it waits for keys, and has the menu's characters.         *)
THEOREM ScreensAreWhole == Spec => []ScreenWhole
<1>1. HandshakeIInv => ScreenWhole
    BY DEF HandshakeIInv, ScreenKept, ScreenWhole
<1> QED BY <1>1, HandshakeInvariant, PTL

(***************************************************************************)
(* A handler that is silent has work for the main loop                     *)
(***************************************************************************)
(* The handler answers nothing while doneWithHandling is FALSE, and only    *)
(* the main loop, or a reset, sets it again.                                *)
SilentWithWork == ~doneWithHandling => updateMenu # 0

LEMMA SilentStep ==
    ASSUME SilentWithWork, [Next]_vars
    PROVE  SilentWithWork'
<1> USE DEF SilentWithWork
<1>1. CASE \/ RaiseNMI \/ CountTimeOut \/ ReadBoot \/ Proceed \/ Signalled \/ Call \/ Execute
           \/ PressReset \/ StartWork \/ Draw \/ Rendered \/ Launch \/ UNCHANGED vars
  <2>1. UNCHANGED <<updateMenu, doneWithHandling>>
    BY <1>1 DEF RaiseNMI, CountTimeOut, ReadBoot, Proceed, Signalled, Call, Execute, PressReset,
                StartWork, Draw, Rendered, Launch, cart, vars
  <2> QED BY <2>1
<1>2. CASE Ask
    BY <1>2 DEF Ask
<1>3. CASE ResetNoticed \/ TimeOutReset \/ BootReset \/ ReleaseReset
    BY <1>3 DEF ResetNoticed, TimeOutReset, BootReset, ResetC64, ReleaseReset, ResetCycle
<1>4. CASE Finish \/ Refresh \/ Return
    BY <1>4 DEF Finish, Refresh, Return
<1> QED BY <1>1, <1>2, <1>3, <1>4 DEF Next, Handler, C64, MainLoop

(* A menu that waits while the watchdog counts is waited for by somebody:   *)
(* the main loop works or has a request to work on, an NMI is due or has    *)
(* come, or the watchdog counts on or has struck.  MenuAnswered needs that  *)
(* in every state in which it waits, also after resets during a network     *)
(* action and after screens that the C64 did not ask for (kernel_menu.cpp). *)
SomebodyActs ==
    c64 = [pc |-> "wait", phase |-> "menu"] /\ Watched =>
        \/ main \in {"net", "draw", "copy", "render"}
        \/ main = "loop" /\ (updateMenu # 0 \/ menuTimeOutReset)
        \/ /\ FiqOn /\ doneWithHandling
           /\ readyForNMIs \/ receivedReadySignal \/ (Idle /\ menuUpdateTimeOut < Never)

THEOREM WaitingIsSeen == Spec => []SomebodyActs
<1>1. Init => SilentWithWork
    BY DEF Init, SilentWithWork
<1>2. TypeOK /\ SilentWithWork /\ HandshakeIInv => SomebodyActs
  <2> SUFFICES ASSUME TypeOK, SilentWithWork, HandshakeIInv, Watched,
                      c64 = [pc |-> "wait", phase |-> "menu"],
                      main \notin {"net", "draw", "copy", "render"},
                      ~(main = "loop" /\ (updateMenu # 0 \/ menuTimeOutReset))
               PROVE  /\ FiqOn /\ doneWithHandling
                      /\ readyForNMIs \/ receivedReadySignal \/ (Idle /\ menuUpdateTimeOut < Never)
    BY DEF SomebodyActs
  <2>1. c64.pc = "wait" /\ main # "left"
    BY DEF HandshakeIInv
  <2>2. main = "loop" /\ updateMenu = 0
    BY <2>1 DEF TypeOK
  <2>3. FiqOn /\ doneWithHandling
    BY <2>2 DEF FiqOn, SilentWithWork
  <2>4. menuUpdateTimeOut < Never
    BY <2>2 DEF Watched
  <2> QED BY <2>1, <2>3, <2>4 DEF Idle
<1> QED BY <1>1, <1>2, SilentStep, HandshakeInvariant, HandshakeTypeCorrect, PTL DEF Spec
=============================================================================
