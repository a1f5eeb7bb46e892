--------------------------- MODULE MenuHandshake ---------------------------
(***************************************************************************)
(* How a screen of the menu reaches the C64 (kernel_menu.cpp, and the      *)
(* menu program in C64Side/SK64Menu that runs on the C64).                 *)
(*                                                                         *)
(* The program asks for a screen by reading addresses.  The FIQ handler    *)
(* notes it, the main loop writes a program into the cartridge's memory    *)
(* that stores what has changed on the screen, the handler raises an NMI,  *)
(* and the C64 calls that program at $a000.  While the main loop works the *)
(* cartridge does not answer the bus; during its network actions there is  *)
(* no handler at all.  A C64 that does not ask again is reset.             *)
(*                                                                         *)
(* A C64 that fetches code from a cartridge that does not answer is lost.  *)
(* The handler's cycles in which nothing changes are left out; a step of   *)
(* the C64 stands for all cycles up to its next access that matters.       *)
(***************************************************************************)
EXTENDS Naturals

CONSTANTS TimeOut,      \* menuUpdateTimeOut set by a request: 160000
          MaxResets,    \* bound: times the user presses reset
          MaxRefreshes, \* bound: screens drawn without being asked for
          MaxLaunches   \* bound: kernels launched from the menu

ASSUME BoundsAssumption ==
    TimeOut \in Nat /\ MaxResets \in Nat /\ MaxRefreshes \in Nat /\ MaxLaunches \in Nat

Never == TimeOut + 1    \* 1024 * 1024 * 1024

VARIABLES
    main,              \* where the main loop is
    updateMenu,        \* 0, 1 a screen, 2 the character set
    doneWithHandling,
    delayUpdateMenu,   \* is it above 0?
    readyForNMIs,
    menuUpdateTimeOut, menuTimeOutReset,
    tempTimeOut,
    firstMenu,         \* is all of the next screen to be sent?
    code,              \* what the memory at $a000 stores on the C64, see Draw
    allSpeedCodeExecuted,
    launchKernel,
    first, nBytesRead, \* is this the first boot; bytes the C64 has read of its program
    c64,               \* [pc, phase]: the program on the C64
    receivedReadySignal,
    shown, font,       \* C64: is on the screen what the main loop thinks; is the font there
    disturbed,         \* history: was the C64's last boot, or a screen since, not regular
    resets, refreshes, launches

cart == <<updateMenu, doneWithHandling, delayUpdateMenu, readyForNMIs>>
watchdog == <<menuUpdateTimeOut, menuTimeOutReset, tempTimeOut>>
program == <<code, allSpeedCodeExecuted>>
boot == <<first, nBytesRead>>
picture == <<shown, font>>
bounds == <<resets, refreshes, launches>>
vars == <<main, cart, watchdog, firstMenu, program, launchKernel, boot, c64,
          receivedReadySignal, picture, disturbed, bounds>>

Places == {"run", "ask", "wait", "call", "code", "reset", "lost"}
Phases == {"start", "font", "screen", "enter", "menu"}
Codes == [kind : {"none", "screen", "font"}, full : BOOLEAN, onTop : BOOLEAN]

TypeOK ==
    /\ main \in {"loop", "net", "draw", "copy", "render", "left"}
    /\ updateMenu \in 0 .. 2 /\ doneWithHandling \in BOOLEAN
    /\ delayUpdateMenu \in BOOLEAN /\ readyForNMIs \in BOOLEAN /\ menuTimeOutReset \in BOOLEAN
    /\ firstMenu \in BOOLEAN /\ allSpeedCodeExecuted \in BOOLEAN /\ launchKernel \in BOOLEAN
    /\ receivedReadySignal \in BOOLEAN
    /\ shown \in BOOLEAN /\ font \in BOOLEAN /\ disturbed \in BOOLEAN
    /\ menuUpdateTimeOut \in 0 .. Never /\ tempTimeOut \in 0 .. Never
    /\ code \in Codes /\ first \in 0 .. 2 /\ nBytesRead \in 0 .. 2
    /\ c64 \in [pc : Places, phase : Phases]
    /\ resets \in 0 .. MaxResets /\ refreshes \in 0 .. MaxRefreshes
    /\ launches \in 0 .. MaxLaunches

NoCode == [kind |-> "none", full |-> FALSE, onTop |-> FALSE]

At(pc) == c64' = [c64 EXCEPT !.pc = pc]

(* Run() sets everything up and lets the C64 start.                         *)
Init ==
    /\ main = "loop" /\ updateMenu = 0 /\ doneWithHandling = TRUE
    /\ delayUpdateMenu = FALSE /\ readyForNMIs = FALSE
    /\ menuUpdateTimeOut = Never /\ menuTimeOutReset = FALSE /\ tempTimeOut = Never
    /\ firstMenu = TRUE /\ code = NoCode /\ allSpeedCodeExecuted = FALSE
    /\ launchKernel = FALSE /\ first = 1 /\ nBytesRead = 0
    /\ c64 = [pc |-> "run", phase |-> "start"] /\ receivedReadySignal = FALSE
    /\ shown = FALSE /\ font = FALSE /\ disturbed = FALSE
    /\ resets = 0 /\ refreshes = 0 /\ launches = 0
----------------------------------------------------------------------------
(* The FIQ handler                                                          *)

FiqOn == main \notin {"net", "render", "left"}

Served == FiqOn /\ doneWithHandling /\ ~delayUpdateMenu

Slip_ResetCycle ==
    /\ updateMenu' = 0 /\ delayUpdateMenu' = FALSE
    /\ menuUpdateTimeOut' = Never /\ firstMenu' = TRUE
    /\ nBytesRead' = 0 /\ code' = NoCode
    /\ UNCHANGED doneWithHandling

Slip_ResetOnce ==
    /\ updateMenu' = 0 /\ delayUpdateMenu' = FALSE /\ doneWithHandling' = TRUE
    /\ menuUpdateTimeOut' = Never /\ UNCHANGED firstMenu
    /\ nBytesRead' = 0 /\ code' = NoCode

(* What more than ten cycles of reset do.  An RTS is put at $a000.          *)
ResetCycle ==
    /\ updateMenu' = 0 /\ delayUpdateMenu' = FALSE /\ doneWithHandling' = TRUE
    /\ menuUpdateTimeOut' = Never /\ firstMenu' = TRUE
    /\ nBytesRead' = 0 /\ code' = NoCode

ResetNoticed ==
    /\ c64.pc = "reset" /\ FiqOn /\ ResetCycle
    /\ UNCHANGED <<main, readyForNMIs, menuTimeOutReset, tempTimeOut, allSpeedCodeExecuted,
                   launchKernel, first, c64, receivedReadySignal, picture, disturbed, bounds>>

(* The NMI comes when the delay has elapsed.  On the C64 myNMI notes it.    *)
RaiseNMI ==
    /\ FiqOn /\ doneWithHandling /\ readyForNMIs /\ c64.pc # "reset"
    /\ readyForNMIs' = FALSE /\ delayUpdateMenu' = FALSE
    /\ receivedReadySignal' = TRUE
    /\ UNCHANGED <<main, updateMenu, doneWithHandling, watchdog, firstMenu, program,
                   launchKernel, boot, c64, picture, disturbed, bounds>>

(* Cycles in which the C64 does not use the cartridge.  That many pass only *)
(* if it boots, is lost, or waits and nothing is on its way.                *)
Idle ==
    \/ c64.pc = "lost"
    \/ c64.phase = "start"
    \/ c64.pc = "wait" /\ ~receivedReadySignal /\ ~readyForNMIs

Slip_CountTimeOut ==
    /\ FiqOn /\ doneWithHandling /\ Idle /\ c64.pc # "reset"
    /\ menuUpdateTimeOut < Never /\ ~menuTimeOutReset
    /\ menuUpdateTimeOut' = menuUpdateTimeOut - 1
    /\ menuTimeOutReset' = (menuUpdateTimeOut = 0)
    /\ UNCHANGED <<main, cart, tempTimeOut, firstMenu, program, launchKernel, boot, c64,
                   receivedReadySignal, picture, disturbed, bounds>>

CountTimeOut ==
    /\ FiqOn /\ doneWithHandling /\ Idle /\ c64.pc # "reset"
    /\ menuUpdateTimeOut < Never /\ ~menuTimeOutReset
    /\ IF menuUpdateTimeOut > 0
       THEN menuUpdateTimeOut' = menuUpdateTimeOut - 1 /\ UNCHANGED menuTimeOutReset
       ELSE menuTimeOutReset' = TRUE /\ UNCHANGED menuUpdateTimeOut
    /\ UNCHANGED <<main, cart, tempTimeOut, firstMenu, program, launchKernel, boot, c64,
                   receivedReadySignal, picture, disturbed, bounds>>
----------------------------------------------------------------------------
(* The C64.  Until "menu" its program is in the cartridge's ROM, then in    *)
(* its own RAM.                                                             *)

InROM == c64.phase # "menu"

(* An NMI without a delay, as one that is left from before a reset, comes   *)
(* in the handler's next cycle.                                             *)
NMIDue == FiqOn /\ doneWithHandling /\ readyForNMIs /\ ~delayUpdateMenu

ReadBoot ==
    /\ c64 = [pc |-> "run", phase |-> "start"] /\ nBytesRead < 2
    /\ IF Served
       THEN nBytesRead' = nBytesRead + 1 /\ UNCHANGED c64
       ELSE At("lost") /\ UNCHANGED nBytesRead
    /\ UNCHANGED <<main, cart, watchdog, firstMenu, program, launchKernel, first,
                   receivedReadySignal, picture, disturbed, bounds>>

(* On to the next request: the signal is cleared before it is sent.         *)
Proceed ==
    /\ c64.pc = "run" /\ (c64.phase = "start" => nBytesRead = 2)
    /\ \/ InROM /\ ~Served /\ At("lost") /\ UNCHANGED receivedReadySignal
       \/ /\ InROM => Served
          /\ c64' = CASE c64.phase = "start" -> [pc |-> "ask", phase |-> "font"]
                      [] c64.phase = "enter" -> [pc |-> "run", phase |-> "menu"]
                      [] OTHER -> [c64 EXCEPT !.pc = "ask"]
          /\ receivedReadySignal' = (c64.phase = "enter" /\ receivedReadySignal)
    /\ UNCHANGED <<main, cart, watchdog, firstMenu, program, launchKernel, boot, picture,
                   disturbed, bounds>>

(* The read of $9e01 or $9e02, if there is a handler that sees it.          *)
Ask ==
    /\ c64.pc = "ask" /\ At("wait")
    /\ IF Served
       THEN /\ updateMenu' = IF c64.phase = "font" THEN 2 ELSE 1
            /\ doneWithHandling' = FALSE /\ delayUpdateMenu' = TRUE
            /\ menuUpdateTimeOut' = IF c64.phase = "font" THEN menuUpdateTimeOut ELSE TimeOut
       ELSE UNCHANGED <<updateMenu, doneWithHandling, delayUpdateMenu, menuUpdateTimeOut>>
    /\ UNCHANGED <<main, readyForNMIs, menuTimeOutReset, tempTimeOut, firstMenu, program,
                   launchKernel, boot, receivedReadySignal, picture, disturbed, bounds>>

(* wait4Sidekick                                                            *)
Signalled ==
    /\ c64.pc = "wait" /\ receivedReadySignal /\ At("call")
    /\ receivedReadySignal' = FALSE
    /\ UNCHANGED <<main, cart, watchdog, firstMenu, program, launchKernel, boot, picture,
                   disturbed, bounds>>

After == [pc |-> "run",
          phase |-> CASE c64.phase = "font" -> "screen"
                      [] c64.phase = "screen" -> "enter"
                      [] OTHER -> c64.phase]

(* jsr $a000; an RTS is all there is to execute after a reset or a run.     *)
Call ==
    /\ c64.pc = "call"
    /\ c64' = IF ~Served THEN [c64 EXCEPT !.pc = "lost"]
              ELSE IF code = NoCode THEN After ELSE [c64 EXCEPT !.pc = "code"]
    /\ UNCHANGED <<main, cart, watchdog, firstMenu, program, launchKernel, boot,
                   receivedReadySignal, picture, disturbed, bounds>>

(* The last byte of the code is fetched, at endOfBankAddress.               *)
Execute ==
    /\ c64.pc = "code"
    /\ \/ /\ ~Served /\ At("lost") /\ UNCHANGED <<program, picture>>
       \/ /\ Served /\ c64' = After
          /\ allSpeedCodeExecuted' = TRUE /\ code' = NoCode
          /\ shown' = IF code.kind = "screen" THEN code.full \/ (shown /\ code.onTop) ELSE shown
          /\ font' = (font \/ code.kind = "font")
    /\ UNCHANGED <<main, cart, watchdog, firstMenu, launchKernel, boot, receivedReadySignal,
                   disturbed, bounds>>

(* Reset: the user presses the button and lets it go, not within the short  *)
(* time in which a screen is written.                                       *)
PressReset ==
    /\ resets < MaxResets /\ main # "left" /\ c64.pc # "reset"
    /\ At("reset") /\ resets' = resets + 1
    /\ UNCHANGED <<main, cart, watchdog, firstMenu, program, launchKernel, boot,
                   receivedReadySignal, picture, disturbed, refreshes, launches>>

C64Starts ==
    /\ c64' = [pc |-> "run", phase |-> "start"]
    /\ shown' = FALSE /\ font' = FALSE
    /\ UNCHANGED receivedReadySignal

ReleaseReset ==
    /\ c64.pc = "reset" /\ C64Starts
    /\ \/ main = "loop" /\ ResetCycle /\ disturbed' = FALSE
       \/ /\ main \in {"net", "render"} /\ disturbed' = TRUE
          /\ UNCHANGED <<updateMenu, doneWithHandling, delayUpdateMenu, menuUpdateTimeOut,
                         firstMenu, nBytesRead, code>>
    /\ UNCHANGED <<main, readyForNMIs, menuTimeOutReset, tempTimeOut, allSpeedCodeExecuted,
                   launchKernel, first, bounds>>
----------------------------------------------------------------------------
(* The main loop                                                            *)

(* It resets the C64 itself; the handler goes on meanwhile.                 *)
ResetC64 ==
    /\ main = "loop" /\ c64.pc # "reset" /\ ResetCycle /\ C64Starts
    /\ disturbed' = FALSE
    /\ UNCHANGED <<main, readyForNMIs, tempTimeOut, allSpeedCodeExecuted, launchKernel,
                   bounds>>

TimeOutReset ==
    menuTimeOutReset /\ ResetC64 /\ menuTimeOutReset' = FALSE /\ UNCHANGED first

(* Once after the firmware has started, and once more if the C64 does not   *)
(* come up then.                                                            *)
BootReset ==
    /\ \/ first = 1 /\ nBytesRead > 0
       \/ first = 2 /\ nBytesRead < 2 /\ c64.pc = "lost"
    /\ ResetC64 /\ first' = IF first = 1 THEN 2 ELSE 0
    /\ UNCHANGED menuTimeOutReset

Slip_StartWork ==
    /\ main = "loop" /\ updateMenu # 0
    /\ main' = IF updateMenu = 1 THEN "net" ELSE "copy"
    /\ menuUpdateTimeOut' = Never /\ tempTimeOut' = Never
    /\ UNCHANGED <<cart, menuTimeOutReset, firstMenu, program, launchKernel, boot, c64,
                   receivedReadySignal, picture, disturbed, bounds>>

(* A request is taken.  handleNetwork turns the handler off.                *)
StartWork ==
    /\ main = "loop" /\ updateMenu # 0
    /\ main' = IF updateMenu = 1 THEN "net" ELSE "copy"
    /\ tempTimeOut' = menuUpdateTimeOut /\ menuUpdateTimeOut' = Never
    /\ UNCHANGED <<cart, menuTimeOutReset, firstMenu, program, launchKernel, boot, c64,
                   receivedReadySignal, picture, disturbed, bounds>>

(* handleNetwork is done; the key may have chosen something to launch.  The *)
(* screen is compared with what has been sent before (c64screenPrev), and   *)
(* the code for the differences replaces the code that was there: if that   *)
(* was a screen nobody has executed, the new one is not on top of what the  *)
(* C64 shows.                                                               *)
Draw ==
    /\ main = "net" /\ main' = "draw"
    /\ launchKernel' \in {launchKernel} \cup (IF launches < MaxLaunches THEN {TRUE} ELSE {})
    /\ code' = [kind |-> "screen", full |-> firstMenu, onTop |-> code.kind # "screen"]
    /\ firstMenu' = FALSE
    /\ UNCHANGED <<cart, watchdog, allSpeedCodeExecuted, boot, c64, receivedReadySignal,
                   picture, disturbed, bounds>>

Slip_Finish ==
    /\ main \in {"draw", "copy"} /\ main' = "loop"
    /\ code' = IF main = "copy" THEN [NoCode EXCEPT !.kind = "font"] ELSE code
    /\ menuUpdateTimeOut' = tempTimeOut
    /\ delayUpdateMenu' = TRUE /\ readyForNMIs' = TRUE
    /\ updateMenu' = 0 /\ doneWithHandling' = TRUE
    /\ UNCHANGED <<menuTimeOutReset, tempTimeOut, firstMenu, launchKernel, boot, c64,
                   allSpeedCodeExecuted, receivedReadySignal, picture, disturbed, bounds>>

(* The code is complete: it may be executed, after an NMI.                  *)
Finish ==
    /\ main \in {"draw", "copy"} /\ main' = "loop"
    /\ code' = IF main = "copy" THEN [NoCode EXCEPT !.kind = "font"] ELSE code
    /\ allSpeedCodeExecuted' = FALSE /\ menuUpdateTimeOut' = tempTimeOut
    /\ delayUpdateMenu' = TRUE /\ readyForNMIs' = TRUE
    /\ updateMenu' = 0 /\ doneWithHandling' = TRUE
    /\ UNCHANGED <<menuTimeOutReset, tempTimeOut, firstMenu, launchKernel, boot, c64,
                   receivedReadySignal, picture, disturbed, bounds>>

(* The network has something to show: handleNetwork and a redraw without a  *)
(* handler, and then as if the C64 had asked for it.                        *)
Refresh ==
    /\ main = "loop" /\ updateMenu = 0 /\ refreshes < MaxRefreshes
    /\ main' = "render" /\ refreshes' = refreshes + 1
    /\ doneWithHandling' = FALSE /\ updateMenu' = 1 /\ disturbed' = TRUE
    /\ UNCHANGED <<delayUpdateMenu, readyForNMIs, watchdog, firstMenu, program,
                   launchKernel, boot, c64, receivedReadySignal, picture, resets, launches>>

Rendered ==
    /\ main = "render" /\ main' = "loop"
    /\ UNCHANGED <<cart, watchdog, firstMenu, program, launchKernel, boot, c64,
                   receivedReadySignal, picture, disturbed, bounds>>

(* Run() returns; the kernel that is launched holds the C64's reset line.   *)
Launch ==
    /\ main = "loop" /\ launchKernel /\ allSpeedCodeExecuted
    /\ main' = "left" /\ allSpeedCodeExecuted' = FALSE /\ launches' = launches + 1
    /\ At("reset")
    /\ UNCHANGED <<cart, watchdog, firstMenu, code, launchKernel, boot,
                   receivedReadySignal, picture, disturbed, resets, refreshes>>

(* The user comes back from that kernel: Run() starts again.                *)
Return ==
    /\ main = "left" /\ main' = "loop"
    /\ updateMenu' = 0 /\ doneWithHandling' = TRUE /\ delayUpdateMenu' = FALSE
    /\ readyForNMIs' = FALSE /\ firstMenu' = TRUE /\ code' = NoCode
    /\ launchKernel' = FALSE /\ first' = 1 /\ nBytesRead' = 0
    /\ menuUpdateTimeOut' = Never
    /\ C64Starts /\ disturbed' = FALSE
    /\ UNCHANGED <<menuTimeOutReset, tempTimeOut, allSpeedCodeExecuted, bounds>>
----------------------------------------------------------------------------
Handler == ResetNoticed \/ RaiseNMI \/ CountTimeOut
C64 == ~NMIDue /\ (ReadBoot \/ Proceed \/ Ask \/ Signalled \/ Call \/ Execute)
MainLoop == TimeOutReset \/ BootReset \/ StartWork \/ Draw \/ Finish \/ Rendered
            \/ Launch \/ Return

Next == Handler \/ C64 \/ MainLoop \/ PressReset \/ ReleaseReset \/ Refresh

Spec == Init /\ [][Next]_vars

FairSpec == Spec /\ WF_vars(RaiseNMI) /\ WF_vars(CountTimeOut) /\ WF_vars(C64)
                 /\ WF_vars(MainLoop) /\ WF_vars(ReleaseReset)
----------------------------------------------------------------------------
(* Unless the network draws unasked or the C64 was reset during a network   *)
(* action, the C64 never fetches code from a cartridge that is silent while *)
(* the main loop works: the requests, the delay and the NMI keep the two    *)
(* apart, also across resets at any time.                                   *)
NoCrash == c64.pc = "lost" => disturbed

(* Under the same condition: when the C64 waits for keys its screen shows   *)
(* all that the main loop takes for shown (c64screenPrev, of which only the *)
(* differences are sent), with the menu's character set, and no code is     *)
(* lost on its way.                                                         *)
ScreenWhole ==
    ~disturbed /\ c64.pc = "run" /\ c64.phase \in {"enter", "menu"} => shown /\ font

(* A kernel is launched only after the C64 has executed the last screen:    *)
(* the user sees what he has chosen, and the code is not taken away from    *)
(* under the C64 that executes it.                                          *)
LaunchAfterCode == [][Launch => code = NoCode /\ c64.pc # "code"]_vars

(* The watchdog: once it counts, a menu that asks for a screen gets it, or   *)
(* the C64 is reset and starts again, whatever refreshes and resets come in *)
(* between.  (It counts from the first request on that is not swallowed by  *)
(* a refresh.)                                                              *)
Watched == menuUpdateTimeOut < Never \/ (main # "loop" /\ tempTimeOut < Never)

MenuAnswered ==
    (c64 = [pc |-> "wait", phase |-> "menu"] /\ Watched) ~> c64.pc \in {"run", "reset"}
=============================================================================
